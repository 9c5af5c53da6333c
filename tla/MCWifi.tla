------------------------------- MODULE MCWifi -------------------------------
(***************************************************************************)
(* What the firmware does for its WiFi link beside a boot, in one          *)
(* specification: a board that comes back on its hint (WifiHint), one in   *)
(* live mode that gets a lost link back (LiveWifi), and one inside a light *)
(* sleep (LightSleep).  Which of them is on the bench is chosen at the     *)
(* start and stays; they share the clock.                                  *)
(***************************************************************************)
EXTENDS WifiHint, LiveWifi, LightSleep

VARIABLE board

liveOnly == <<link, lastAttempt, attempted, attempts, stage, quiet, failures>>
sleepOnly == <<place, mark, judge, wait, refused, spent, linked, nudged>>
all == <<board, vars, now, liveOnly, sleepOnly>>

\* The hint is counted in wakes: its board needs no clock.
WifiInit ==
  /\ Init /\ LiveInit /\ SleepInit
  /\ board \in {"hint", "live", "asleep"}
  /\ board = "hint" => now = 0

HintStep(step) ==
  board = "hint" /\ step /\ UNCHANGED <<board, now, liveOnly, sleepOnly>>
LiveStep(step) ==
  board = "live" /\ step /\ UNCHANGED <<board, vars, sleepOnly>>
SleepStep(step) ==
  board = "asleep" /\ step /\ UNCHANGED <<board, vars, liveOnly>>

WifiNext == HintStep(Next) \/ LiveStep(LiveNext) \/ SleepStep(SleepNext)

\* The fairness of LiveWifi and LightSleep; WifiHint needs none.
WifiSpec == /\ WifiInit /\ [][WifiNext]_all
            /\ WF_all(LiveStep(Firmware)) /\ WF_all(SleepStep(Sleeping))

----------------------------------------------------------------------------
\* The types of all three.
WifiTypeOK == TypeOK /\ LiveTypeOK /\ SleepTypeOK
=============================================================================
