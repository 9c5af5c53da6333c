--------------------------- MODULE ModeLogicCheck ---------------------------
(***************************************************************************)
(* The decisions of ModeLogic against each other, for every configuration  *)
(* and small intervals: setup() and loop() each resolve the configuration  *)
(* on their own, and the results have to fit.                              *)
(***************************************************************************)
EXTENDS ModeLogic

CONSTANT Frequencies  \* the intervals tried

ASSUME FrequenciesAreValid == Frequencies \subseteq Nat \ {0}

VARIABLES c, eeprom, display, freq
vars == <<c, eeprom, display, freq>>

Init ==
  /\ c = DefaultConfig
  /\ eeprom = FALSE /\ display = FALSE
  /\ freq \in [Intervals -> Frequencies]

\* One setting at a time, so that every combination is reached.
ToggleService(s) ==
  /\ c' = [c EXCEPT !.active = IF s \in @ THEN @ \ {s} ELSE @ \union {s}]
  /\ UNCHANGED <<eeprom, display, freq>>
ToggleFlag(f) ==
  /\ f \in DOMAIN c \ {"active"}
  /\ c' = [c EXCEPT ![f] = ~@]
  /\ UNCHANGED <<eeprom, display, freq>>
ToggleBoard ==
  /\ eeprom' \in BOOLEAN /\ display' \in BOOLEAN
  /\ UNCHANGED <<c, freq>>

Next == \/ \E s \in Services : ToggleService(s)
        \/ \E f \in DOMAIN c : ToggleFlag(f)
        \/ ToggleBoard
Spec == Init /\ [][Next]_vars

----------------------------------------------------------------------------
Mode == CurrentMode(c, eeprom, display)
Plan == SetupPlan(c, display)

\* What setup() starts is what the mode loop() resolves needs: tickers for
\* the modes that stay awake, the web server for the modes that serve it.
\* (A battery board in offline mode never gets as far as the plan.)
PlanFitsMode ==
  Mode # "Offline" =>
    /\ Plan.tickers <=> Mode \in {"Live", "OfflineLive"}
    /\ Plan.webServer <=> Mode = "Config" \/ (display /\ Mode = "Live")
    /\ Plan.mqtt => Mode \notin {"Config", "OfflineLive"}

\* A board that sleeps sleeps for one of the intervals it was given and no
\* longer than the shortest of them: no service starves another.
WakesInTime ==
  LET inUse == {freq[IntervalOf(s)] : s \in c.active}
  IN  IF c.active = {} THEN WakeInterval(c, freq) = 0
      ELSE IsLeast(WakeInterval(c, freq), inUse)
============================================================================
