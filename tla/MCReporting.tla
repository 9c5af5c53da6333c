---------------------------- MODULE MCReporting ----------------------------
(***************************************************************************)
(* Reporting for a deep sleeper, a light sleeper and a board that stays    *)
(* awake, with one sensor that can be replaced by another.                 *)
(***************************************************************************)
EXTENDS Reporting

Reports(services) == [DefaultConfig EXCEPT !.configMode = FALSE, !.active = services]

Deep == [Reports({"mqtt", "ha"}) EXCEPT !.sleepMode = TRUE]
Light == [Reports({"mqtt", "ha"}) EXCEPT !.lightSleepMode = TRUE]
Awake == Reports({"ha"})

AllBoards == {Deep, Light, Awake}

OneOrOther == {{k} : k \in Keys}
============================================================================
