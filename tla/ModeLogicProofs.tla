--------------------------- MODULE ModeLogicProofs ---------------------------
(***************************************************************************)
(* The decisions of ModeLogic fit each other for every configuration and   *)
(* for all intervals, not only the ones ModeLogicCheck is run with.  Both  *)
(* properties are facts about one configuration: the invariant is only     *)
(* that the configuration is one.                                          *)
(***************************************************************************)
EXTENDS ModeLogicCheck, TLAPS

Valid == /\ c \in Config /\ eeprom \in BOOLEAN /\ display \in BOOLEAN
         /\ freq \in [Intervals -> Frequencies]

\* Every configuration the settings lead to is one of Config.
LEMMA AlwaysValid == Spec => []Valid
<1>1. Init => Valid
  <2>1. DefaultConfig \in Config
    BY DEF Config, DefaultConfig
  <2> QED BY <2>1 DEF Init, Valid
<1>2. Valid /\ [Next]_vars => Valid'
  <2> SUFFICES ASSUME Valid, [Next]_vars PROVE Valid'
    OBVIOUS
  <2> USE DEF Valid
  <2>1. ASSUME NEW s \in Services, ToggleService(s) PROVE Valid'
    BY <2>1 DEF ToggleService, Config
  <2>2. ASSUME NEW f \in DOMAIN c, ToggleFlag(f) PROVE Valid'
    <3>1. f \in {"configMode", "offlineMode", "sleepMode", "lightSleepMode",
                 "remoteControl"}
      BY <2>2 DEF ToggleFlag, Config
    <3>2. c' \in Config
      <4> DEFINE d == [c EXCEPT ![f] = ~c[f]]
      <4>1. c' = d
        BY <2>2 DEF ToggleFlag
      <4>2. DOMAIN d = DOMAIN c /\ d.active = c.active
        BY <3>1 DEF Config
      <4>3. /\ d.configMode \in BOOLEAN /\ d.offlineMode \in BOOLEAN
            /\ d.sleepMode \in BOOLEAN /\ d.lightSleepMode \in BOOLEAN
            /\ d.remoteControl \in BOOLEAN
        BY <3>1 DEF Config
      <4> QED BY <4>1, <4>2, <4>3 DEF Config
    <3> QED BY <2>2, <3>2 DEF ToggleFlag
  <2>3. CASE ToggleBoard
    BY <2>3 DEF ToggleBoard
  <2>4. CASE UNCHANGED vars
    BY <2>4 DEF vars
  <2> QED BY <2>1, <2>2, <2>3, <2>4 DEF Next
<1> QED BY <1>1, <1>2, PTL DEF Spec

----------------------------------------------------------------------------
\* What setup() starts is what the mode needs, one mode after the other.
LEMMA PlanFits == Valid => PlanFitsMode
<1> SUFFICES ASSUME Valid, Mode # "Offline"
             PROVE  /\ Plan.tickers <=> Mode \in {"Live", "OfflineLive"}
                    /\ Plan.webServer <=> \/ Mode = "Config"
                                          \/ display /\ Mode = "Live"
                    /\ Plan.mqtt => Mode \notin {"Config", "OfflineLive"}
  BY DEF PlanFitsMode
<1> USE DEF Valid, Mode, Plan, CurrentMode, SetupPlan, NoPlan
<1>1. CASE c.configMode
  BY <1>1
<1>2. CASE ~c.configMode /\ display /\ c.offlineMode
  BY <1>2
<1>3. CASE ~c.configMode /\ display /\ ~c.offlineMode
  BY <1>3 DEF RunsTickers, LiveUi
<1>4. CASE ~c.configMode /\ ~display
  <2>1. ~OfflineEnabled(c, eeprom)
    BY <1>4
  <2>2. /\ Plan.tickers = ~SleepEnabled(c) /\ Plan.webServer = FALSE
    BY <1>4 DEF RunsTickers, LiveUi, SleepEnabled, Config
  <2> QED BY <1>4, <2>1, <2>2 DEF SleepEnabled
<1> QED BY <1>1, <1>2, <1>3, <1>4

\* What setup() starts is what the mode loop() resolves needs, for every
\* configuration and board (mode_logic.h: setupPlan against currentMode).
THEOREM PlanAlwaysFits == Spec => []PlanFitsMode
<1> QED BY AlwaysValid, PlanFits, PTL

----------------------------------------------------------------------------
\* Some member of a set of at most three numbers is its least.
LEMMA LeastOfThree ==
  ASSUME NEW x \in Nat, NEW y \in Nat, NEW z \in Nat,
         NEW F \in SUBSET {x, y, z}, F # {}
  PROVE  \E n \in F : IsLeast(n, F)
<1>1. CASE x \in F /\ (y \in F => x <= y) /\ (z \in F => x <= z)
  BY <1>1 DEF IsLeast
<1>2. CASE y \in F /\ (x \in F => y <= x) /\ (z \in F => y <= z)
  BY <1>2 DEF IsLeast
<1>3. CASE z \in F /\ (x \in F => z <= x) /\ (y \in F => z <= y)
  BY <1>3 DEF IsLeast
<1>4. x \in F \/ y \in F \/ z \in F
  OBVIOUS
<1>5. CASE x \notin F
  BY <1>2, <1>3, <1>4, <1>5
<1>6. CASE y \notin F
  BY <1>1, <1>3, <1>4, <1>6
<1>7. CASE z \notin F
  BY <1>1, <1>2, <1>4, <1>7
<1>8. CASE x \in F /\ y \in F /\ z \in F
  BY <1>1, <1>2, <1>3, <1>8
<1> QED BY <1>5, <1>6, <1>7, <1>8

\* The CHOOSE in MinDataFrequency finds the shortest network interval.
LEMMA ShortestNetwork ==
  ASSUME Valid, c.active \intersect NetServices # {}
  PROVE  IsLeast(MinDataFrequency(c, freq),
                 {freq[IntervalOf(s)] : s \in c.active \intersect NetServices})
<1> DEFINE A == c.active \intersect NetServices
           G == {freq[IntervalOf(s)] : s \in A}
<1>1. \A s \in NetServices : IntervalOf(s) \in {"get", "post", "mqtt"}
  BY DEF NetServices, IntervalOf
<1>2. \A i \in Intervals : freq[i] \in Nat \ {0}
  BY FrequenciesAreValid DEF Valid
<1>3. freq["get"] \in Nat /\ freq["post"] \in Nat /\ freq["mqtt"] \in Nat
  BY <1>2 DEF Intervals
<1>4. G \in SUBSET {freq["get"], freq["post"], freq["mqtt"]} /\ G # {}
  BY <1>1
<1>5. 0 \notin G
  BY <1>1, <1>2 DEF Intervals
<1>6. NetFrequencies(c, freq) = G
  BY <1>5 DEF NetFrequencies
<1>7. \E n \in G : IsLeast(n, G)
  <2> HIDE DEF G
  <2> QED BY <1>3, <1>4, LeastOfThree
<1>8. MinDataFrequency(c, freq) = CHOOSE n \in G : IsLeast(n, G)
  BY <1>4, <1>6 DEF MinDataFrequency
<1> QED
  <2> HIDE DEF G
  <2>1. IsLeast(CHOOSE n \in G : IsLeast(n, G), G)
    BY <1>7
  <2> QED BY <1>8, <2>1 DEF G

\* The interval slept is the least of those in use, log and network alike.
LEMMA Wakes == Valid => WakesInTime
<1> SUFFICES ASSUME Valid PROVE WakesInTime
  OBVIOUS
<1> DEFINE net == {freq[IntervalOf(s)] : s \in c.active \intersect NetServices}
           inUse == {freq[IntervalOf(s)] : s \in c.active}
           log == freq["eeprom"]
<1>1. c.active \subseteq NetServices \union {"eeprom"}
  BY DEF Valid, Config, Services
<1>2. \A i \in Intervals : freq[i] \in Nat \ {0}
  BY FrequenciesAreValid DEF Valid
<1>3. log \in Nat \ {0}
  BY <1>2 DEF Intervals
<1>4. IntervalOf("eeprom") = "eeprom" /\ "eeprom" \notin NetServices
  BY DEF IntervalOf, NetServices
<1>5. net \subseteq Nat \ {0}
  BY <1>2 DEF Intervals, IntervalOf, NetServices
<1>6. inUse = IF "eeprom" \in c.active THEN net \union {log} ELSE net
  BY <1>1, <1>4
<1>7. CASE c.active = {}
  BY <1>7 DEF WakesInTime, WakeInterval
<1>8. CASE c.active # {} /\ c.active \intersect NetServices = {}
  <2>1. inUse = {log} /\ "eeprom" \in c.active
    BY <1>1, <1>6, <1>8
  <2>2. WakeInterval(c, freq) = log
    BY <1>8, <2>1 DEF WakeInterval
  <2> QED BY <1>3, <1>8, <2>1, <2>2 DEF WakesInTime, IsLeast
<1>9. CASE c.active \intersect NetServices # {}
  <2> DEFINE least == MinDataFrequency(c, freq)
  <2>1. IsLeast(least, net)
    BY <1>9, ShortestNetwork
  <2>2. least \in Nat \ {0}
    BY <1>5, <2>1 DEF IsLeast
  <2>3. WakeInterval(c, freq) =
          IF "eeprom" \in c.active /\ log < least THEN log ELSE least
    BY <1>9, <2>2 DEF WakeInterval
  <2>4. IsLeast(WakeInterval(c, freq), inUse)
    <3> HIDE DEF net, inUse, log, least
    <3> QED BY <1>3, <1>5, <1>6, <2>1, <2>2, <2>3 DEF IsLeast
  <2> QED BY <1>9, <2>4 DEF WakesInTime
<1> QED BY <1>7, <1>8, <1>9

\* A board that sleeps sleeps for the shortest of the intervals in use,
\* whatever the intervals are (mode_logic.h: wakeInterval, minDataFrequency).
THEOREM AlwaysWakesInTime == Spec => []WakesInTime
<1> QED BY AlwaysValid, Wakes, PTL
==============================================================================
