----------------------------- MODULE WifiProofs -----------------------------
(***************************************************************************)
(* The WiFi link, for every value of the constants: the lease bookkeeping  *)
(* of the RTC hint for every period and every width of its counter, and    *)
(* the intervals of a light sleep and of live mode for every range of the  *)
(* clock.  Wherever it rolls over, the unsigned differences the code takes *)
(* are the time that really went by, because none of the intervals is as   *)
(* long as the range.  The last part puts the three together, as MCWifi    *)
(* does for TLC.                                                           *)
(***************************************************************************)
EXTENDS MCWifi, TLAPS

----------------------------------------------------------------------------
(* Types.                                                                  *)

\* The counter saturates at the end of its range.
LEMMA NextWakeCountType ==
  ASSUME NEW n \in 0..CounterMax, NEW renewed \in BOOLEAN
  PROVE  NextWakeCount(n, renewed) \in 0..CounterMax
BY CounterHoldsPeriod DEF NextWakeCount

\* A saved hint is a hint and carries the count it was given.
LEMMA SavedHint ==
  ASSUME NEW wakes \in 0..CounterMax, NEW config, SaveWifiHint(wakes, config)
  PROVE  hint' \in Hint /\ hint' # NoHint /\ hint'.wakes = wakes
<1>1. PICK usable \in BOOLEAN : hint' = [wakes |-> wakes, usable |-> usable]
  BY DEF SaveWifiHint
<1> QED BY <1>1, NoHintIsNoHint DEF Hint

\* An association leaves an age that is 0 on DHCP and one more otherwise.
LEMMA AssociateType ==
  ASSUME age \in 0..CounterMax, NEW config, Associate(config)
  PROVE  age' \in 0..CounterMax
BY CounterHoldsPeriod DEF Associate

\* The fast path applies one of the two configurations.
LEMMA FastConfigType ==
  ASSUME NEW h
  PROVE  FastConfig(h) \in {"dhcp", "static"}
BY DEF FastConfig

\* A hint that is there has a counter in range.
LEMMA HintHasCounter ==
  ASSUME TypeOK, hint # NoHint
  PROVE  hint \in Hint /\ hint.wakes \in 0..CounterMax
BY DEF TypeOK, Hint

\* Every state of the hint is of its type.
THEOREM HintTypeCorrect == Spec => []TypeOK
<1>1. Init => TypeOK
  BY CounterHoldsPeriod DEF Init, TypeOK
<1>2. TypeOK /\ [Next]_vars => TypeOK'
  <2> SUFFICES ASSUME TypeOK, [Next]_vars
               PROVE  TypeOK'
    OBVIOUS
  <2>1. CASE Boot
    BY <2>1 DEF Boot, TypeOK
  <2>2. CASE PowerCut
    BY <2>2 DEF PowerCut, TypeOK
  <2>3. CASE SdkConnected
    <3>1. (IF hint = NoHint THEN 0 ELSE hint.wakes) \in 0..CounterMax
      BY HintHasCounter, CounterHoldsPeriod
    <3>2. hint' \in Hint
      BY <2>3, <3>1, NextWakeCountType, SavedHint DEF SdkConnected
    <3> QED BY <2>3, <3>2, AssociateType DEF SdkConnected, TypeOK
  <2>4. CASE NoFastPath
    BY <2>4 DEF NoFastPath, TypeOK
  <2>5. CASE FastConnect
    <3>1. hint.wakes \in 0..CounterMax /\ RenewLease(hint.wakes) \in BOOLEAN
      BY <2>5, HintHasCounter DEF FastConnect, RenewLease
    <3>2. hint' \in Hint
      BY <2>5, <3>1, NextWakeCountType, SavedHint DEF FastConnect
    <3> QED BY <2>5, <3>2, AssociateType, FastConfigType DEF FastConnect, TypeOK
  <2>6. CASE FastConnectNoDns
    BY <2>6, AssociateType DEF FastConnectNoDns, TypeOK
  <2>7. CASE FastConnectFails
    BY <2>7 DEF FastConnectFails, TypeOK
  <2>8. CASE ScanConnects
    <3>1. hint' \in Hint
      BY <2>8, SavedHint, CounterHoldsPeriod DEF ScanConnects
    <3> QED BY <2>8, <3>1, AssociateType DEF ScanConnects, TypeOK
  <2>9. CASE ScanFails
    BY <2>9 DEF ScanFails, TypeOK
  <2>10. CASE Sleep
    BY <2>10 DEF Sleep, TypeOK
  <2>11. CASE LightSleepWake
    <3>1. CASE SaveWifiHint(0, station) /\ Associate(station) /\ pc' = "up"
      <4>1. hint' \in Hint
        BY <3>1, SavedHint, CounterHoldsPeriod
      <4> QED BY <2>11, <3>1, <4>1, AssociateType DEF LightSleepWake, TypeOK
    <3>2. CASE UNCHANGED <<hint, age>> /\ pc' = "unlinked"
      BY <2>11, <3>2 DEF LightSleepWake, TypeOK
    <3> QED BY <2>11, <3>1, <3>2 DEF LightSleepWake
  <2>12. CASE UNCHANGED vars
    BY <2>12 DEF vars, TypeOK
  <2> QED BY <2>1, <2>2, <2>3, <2>4, <2>5, <2>6, <2>7, <2>8, <2>9, <2>10,
             <2>11, <2>12 DEF Next
<1> QED BY <1>1, <1>2, PTL DEF Spec

----------------------------------------------------------------------------
(* The period.                                                             *)

\* A station looks for its network on DHCP, and only goes static when leases
\* are cached at all.
StationInv ==
  /\ pc \in {"wifi", "scan"} => station = "dhcp"
  /\ station = "static" => Every > 0
PeriodInv == StationInv /\ CounterWithinPeriod

\* Going static means that the count, after this wake, is within the period.
LEMMA StaticCount ==
  ASSUME NEW h \in Hint, FastConfig(h) = "static"
  PROVE  /\ Every > 0 /\ ~RenewLease(h.wakes)
         /\ NextWakeCount(h.wakes, FALSE) = h.wakes + 1
         /\ h.wakes + 1 < Every
<1>1. ~RenewLease(h.wakes)
  BY DEF FastConfig
<1>2. h.wakes \in 0..CounterMax
  BY DEF Hint
<1> QED BY <1>1, <1>2, CounterHoldsPeriod DEF RenewLease, NextWakeCount

\* The station and the counter agree on every step.
LEMMA PeriodHolds == Spec => []PeriodInv
<1>1. Init => PeriodInv
  BY DEF Init, PeriodInv, StationInv, CounterWithinPeriod
<1>2. TypeOK /\ PeriodInv /\ [Next]_vars => PeriodInv'
  <2> SUFFICES ASSUME TypeOK, PeriodInv, [Next]_vars
               PROVE  PeriodInv'
    OBVIOUS
  <2> USE DEF PeriodInv, StationInv, CounterWithinPeriod
  <2>1. CASE Boot
    BY <2>1 DEF Boot
  <2>2. CASE PowerCut
    BY <2>2 DEF PowerCut
  <2>3. CASE SdkConnected
    BY <2>3 DEF SdkConnected
  <2>4. CASE NoFastPath
    BY <2>4 DEF NoFastPath
  <2>5. CASE FastConnect
    <3>1. hint \in Hint /\ hint.wakes \in 0..CounterMax
      BY <2>5, HintHasCounter DEF FastConnect
    <3>2. CASE FastConfig(hint) = "static"
      <4>1. /\ Every > 0 /\ RenewLease(hint.wakes) = FALSE
            /\ NextWakeCount(hint.wakes, FALSE) = hint.wakes + 1
            /\ hint.wakes + 1 < Every
        BY <3>1, <3>2, StaticCount DEF RenewLease
      <4>2. NextWakeCount(hint.wakes, FALSE) \in 0..CounterMax
        BY <3>1, NextWakeCountType
      <4>3. hint'.wakes < Every
        BY <2>5, <4>1, <4>2, SavedHint DEF FastConnect
      <4> QED BY <2>5, <4>1, <4>3 DEF FastConnect
    <3>3. CASE FastConfig(hint) = "dhcp"
      BY <2>5, <3>3 DEF FastConnect
    <3> QED BY <3>2, <3>3, FastConfigType
  <2>6. CASE FastConnectNoDns
    BY <2>6 DEF FastConnectNoDns
  <2>7. CASE FastConnectFails
    BY <2>7 DEF FastConnectFails
  <2>8. CASE ScanConnects
    BY <2>8 DEF ScanConnects
  <2>9. CASE ScanFails
    BY <2>9 DEF ScanFails
  <2>10. CASE Sleep
    BY <2>10 DEF Sleep
  <2>11. CASE LightSleepWake
    <3>1. CASE SaveWifiHint(0, station)
      <4>1. hint'.wakes = 0
        BY <3>1, SavedHint, CounterHoldsPeriod
      <4> QED BY <2>11, <4>1, CounterHoldsPeriod DEF LightSleepWake
    <3>2. CASE UNCHANGED hint
      BY <2>11, <3>2 DEF LightSleepWake
    <3> QED BY <2>11, <3>1, <3>2 DEF LightSleepWake
  <2>12. CASE UNCHANGED vars
    BY <2>12 DEF vars
  <2> QED BY <2>1, <2>2, <2>3, <2>4, <2>5, <2>6, <2>7, <2>8, <2>9, <2>10,
             <2>11, <2>12 DEF Next
<1> QED BY <1>1, <1>2, HintTypeCorrect, PTL DEF Spec

\* The counter of a board on a cached address stays within the period, also
\* when light-sleep wakes restart it.
THEOREM CounterStaysInPeriod == Spec => []CounterWithinPeriod
<1>1. PeriodInv => CounterWithinPeriod
  BY DEF PeriodInv
<1> QED BY <1>1, PeriodHolds, PTL

----------------------------------------------------------------------------
(* The lease.                                                              *)

\* A static address goes with a hint.
LeaseInv ==
  /\ PeriodInv
  /\ CounterHonest
  /\ pc = "up" /\ station = "static" => hint # NoHint

\* On a board that does not light-sleep the counter never hides the age of the
\* address, so a board on a cached address has been through DHCP within the
\* period.
THEOREM LeaseIsRenewed == Spec => [](CounterHonest /\ LeaseRenewed)
<1>1. Init => LeaseInv
  BY DEF Init, LeaseInv, PeriodInv, StationInv, CounterWithinPeriod, CounterHonest
<1>2. TypeOK /\ LeaseInv /\ PeriodInv' /\ [Next]_vars => LeaseInv'
  <2> SUFFICES ASSUME TypeOK, LeaseInv, PeriodInv', [Next]_vars
               PROVE  LeaseInv'
    OBVIOUS
  <2> USE DEF LeaseInv, CounterHonest
  <2>1. CASE Boot
    BY <2>1 DEF Boot
  <2>2. CASE PowerCut
    BY <2>2 DEF PowerCut
  <2>3. CASE SdkConnected
    <3>1. station = "dhcp" /\ station' = "dhcp"
      BY <2>3 DEF SdkConnected, PeriodInv, StationInv
    <3>2. age' = 0
      BY <2>3, <3>1 DEF SdkConnected, Associate
    <3>3. (IF hint = NoHint THEN 0 ELSE hint.wakes) \in 0..CounterMax
      BY HintHasCounter, CounterHoldsPeriod
    <3>4. hint'.wakes \in 0..CounterMax
      BY <2>3, <3>3, NextWakeCountType, SavedHint DEF SdkConnected
    <3> QED BY <3>1, <3>2, <3>4, CounterHoldsPeriod
  <2>4. CASE NoFastPath
    BY <2>4 DEF NoFastPath
  <2>5. CASE FastConnect
    <3>1. /\ hint \in Hint /\ hint.wakes \in 0..CounterMax
          /\ ~light => hint.wakes >= age
      BY <2>5, HintHasCounter DEF FastConnect
    <3>2. RenewLease(hint.wakes) \in BOOLEAN
      BY DEF RenewLease
    <3>3. /\ hint' # NoHint
          /\ hint'.wakes = NextWakeCount(hint.wakes, RenewLease(hint.wakes))
          /\ hint'.wakes \in 0..CounterMax
      BY <2>5, <3>1, <3>2, NextWakeCountType, SavedHint DEF FastConnect
    <3>4. CASE FastConfig(hint) = "static"
      <4>1. hint'.wakes = hint.wakes + 1 /\ hint'.wakes <= CounterMax
        BY <3>1, <3>3, <3>4, StaticCount DEF NextWakeCount
      <4>2. age' <= age + 1 /\ age' \in 0..CounterMax
        BY <2>5, <3>4, AssociateType, CounterHoldsPeriod
           DEF FastConnect, Associate, TypeOK
      <4>3. ~light => hint'.wakes >= age'
        BY <3>1, <4>1, <4>2, CounterHoldsPeriod DEF TypeOK
      <4>4. light' = light
        BY <2>5 DEF FastConnect
      <4> QED BY <3>3, <4>3, <4>4
    <3>5. CASE FastConfig(hint) = "dhcp"
      <4>1. age' = 0
        BY <2>5, <3>5 DEF FastConnect, Associate
      <4> QED BY <3>3, <4>1, CounterHoldsPeriod
    <3> QED BY <3>4, <3>5, FastConfigType
  <2>6. CASE FastConnectNoDns
    BY <2>6 DEF FastConnectNoDns
  <2>7. CASE FastConnectFails
    BY <2>7 DEF FastConnectFails
  <2>8. CASE ScanConnects
    <3>1. station = "dhcp" /\ station' = "dhcp"
      BY <2>8 DEF ScanConnects, PeriodInv, StationInv
    <3>2. age' = 0
      BY <2>8, <3>1 DEF ScanConnects, Associate
    <3>3. hint'.wakes = 0
      BY <2>8, SavedHint, CounterHoldsPeriod DEF ScanConnects
    <3> QED BY <3>1, <3>2, <3>3
  <2>9. CASE ScanFails
    BY <2>9 DEF ScanFails
  <2>10. CASE Sleep
    BY <2>10 DEF Sleep
  <2>11. CASE LightSleepWake
    <3>1. SaveWifiHint(0, station) => hint' # NoHint
      BY SavedHint, CounterHoldsPeriod
    <3>2. light /\ light'
      BY <2>11 DEF LightSleepWake
    <3>3. pc' = "up" => SaveWifiHint(0, station)
      BY <2>11 DEF LightSleepWake
    <3> QED BY <3>1, <3>2, <3>3
  <2>12. CASE UNCHANGED vars
    BY <2>12 DEF vars
  <2> QED BY <2>1, <2>2, <2>3, <2>4, <2>5, <2>6, <2>7, <2>8, <2>9, <2>10,
             <2>11, <2>12 DEF Next
<1>3. TypeOK /\ LeaseInv => CounterHonest /\ LeaseRenewed
  <2> SUFFICES ASSUME TypeOK, LeaseInv, pc = "up", station = "static",
                      ~light
               PROVE  age < Every
    BY DEF LeaseInv, LeaseRenewed
  <2>1. hint # NoHint /\ hint.wakes \in 0..CounterMax
    BY HintHasCounter DEF LeaseInv
  <2> QED BY <2>1, CounterHoldsPeriod
          DEF LeaseInv, PeriodInv, CounterHonest, CounterWithinPeriod, TypeOK
<1> QED BY <1>1, <1>2, <1>3, PeriodHolds, HintTypeCorrect, PTL DEF Spec

\* What the renewal policy relies on, in one statement.
THEOREM CounterIsSound == Spec => []CounterSound
<1>1. CounterHonest /\ LeaseRenewed /\ CounterWithinPeriod => CounterSound
  BY DEF CounterSound
<1> QED BY <1>1, LeaseIsRenewed, CounterStaysInPeriod, PTL

----------------------------------------------------------------------------
(* The clock.                                                              *)

LEMMA ModOfSmall ==
  ASSUME NEW n \in Nat \ {0}, NEW k \in 0..(n - 1)
  PROVE  k % n = k
OBVIOUS

LEMMA ModOfLarger ==
  ASSUME NEW n \in Nat \ {0}, NEW k \in n..(2 * n - 1)
  PROVE  k % n = k - n
OBVIOUS

\* A mark and the time since then give back the time since then, as long as
\* that fits the clock.
LEMMA MinusExact ==
  ASSUME NEW m \in Ticks, NEW d \in Ticks
  PROVE  Minus((m + d) % ClockRange, m) = d
<1> USE ClockCounts DEF Ticks
<1>1. CASE m + d < ClockRange
  <2>1. (m + d) % ClockRange = m + d
    BY <1>1, ModOfSmall
  <2>2. (m + d + ClockRange - m) % ClockRange = d
    BY ModOfLarger
  <2> QED BY <2>1, <2>2 DEF Minus
<1>2. CASE m + d >= ClockRange
  <2>1. (m + d) % ClockRange = m + d - ClockRange
    BY <1>2, ModOfLarger
  <2>2. (m + d - ClockRange + ClockRange - m) % ClockRange = d
    BY ModOfSmall
  <2> QED BY <2>1, <2>2 DEF Minus
<1> QED BY <1>1, <1>2

\* Time that passes adds up.
LEMMA TimeAdds ==
  ASSUME NEW m \in Ticks, NEW d \in Ticks, NEW t \in Nat, d + t \in Ticks
  PROVE  (((m + d) % ClockRange) + t) % ClockRange = (m + (d + t)) % ClockRange
<1> USE ClockCounts DEF Ticks
<1>1. CASE m + d < ClockRange
  BY <1>1, ModOfSmall
<1>2. CASE m + d >= ClockRange
  <2>1. (m + d) % ClockRange = m + d - ClockRange
    BY <1>2, ModOfLarger
  <2>2. (m + d - ClockRange + t) % ClockRange = m + d - ClockRange + t
    BY <1>2, ModOfSmall
  <2>3. (m + (d + t)) % ClockRange = m + (d + t) - ClockRange
    BY <1>2, ModOfLarger
  <2> QED BY <2>1, <2>2, <2>3
<1> QED BY <1>1, <1>2

\* The clock and its differences stay in range.
LEMMA ClockStays ==
  ASSUME NEW m \in Ticks, NEW k \in Nat
  PROVE  (k % ClockRange) \in Ticks /\ Minus(k, m) \in Ticks
<1>1. k + ClockRange - m \in Nat
  BY ClockCounts DEF Ticks
<1> QED BY <1>1, ClockCounts DEF Ticks, Minus

----------------------------------------------------------------------------
(* Light sleep.                                                            *)

Sound == judge.refusals < MaxRefusals /\ judge.shortReturns < MaxShortReturns
InInterval == {"loop", "asleep", "judge", "backoff", "waitout"}

\* Until the interval is over the clock shows the time spent, which stays
\* below its range.
ClockShows ==
  place \in InInterval => spent \in Ticks /\ now = (mark + spent) % ClockRange

\* How far the interval can be overrun, and what the delay that is due adds.
Overrun ==
  /\ place = "loop" => spent <= Target + 1 + RetryDelay
  /\ place = "asleep" => spent < Target
  /\ place \in {"judge", "backoff"} => spent <= Target + 1
  /\ place = "backoff" => wait = RetryDelay

\* The interval is waited out only once the judge has given up.
JudgeStands ==
  /\ place \in {"loop", "asleep", "judge", "backoff"} => Sound
  /\ place = "waitout" => Abandoned

SleepInv == ClockShows /\ Overrun /\ JudgeStands /\ IntervalKept

\* While the interval runs, the difference of the clock is the time spent.
LEMMA ElapsedIsSpent ==
  ASSUME SleepTypeOK, ClockShows, place \in InInterval
  PROVE  Elapsed = spent /\ Minus(Target, Elapsed) = Minus(Target, spent)
<1>1. mark \in Ticks /\ spent \in Ticks /\ now = (mark + spent) % ClockRange
  BY DEF SleepTypeOK, ClockShows
<1>2. Minus(now, mark) = spent
  BY <1>1, MinusExact
<1> QED BY <1>2 DEF Elapsed, Since

\* What is left, while something is.
LEMMA LeftIsRest ==
  ASSUME NEW t \in Ticks, t < Target
  PROVE  Minus(Target, t) = Target - t
<1>1. Target \in Ticks
  BY ClockHoldsSleep, TimesArePositive, ClockCounts DEF Ticks
<1>2. (Target + ClockRange - t) % ClockRange = Target - t
  BY <1>1, ClockCounts, ModOfLarger DEF Ticks
<1> QED BY <1>2 DEF Minus

LEMMA SleepConstants ==
  /\ Target \in Nat \ {0} /\ MaxChunk \in Nat \ {0} /\ RetryDelay \in Nat \ {0}
  /\ MaxRefusals \in Nat \ {0} /\ MaxShortReturns \in Nat \ {0}
  /\ ClockRange \in Nat /\ Target + MaxChunk + RetryDelay + 2 < ClockRange
BY ClockCounts, TimesArePositive, ClockHoldsSleep

\* The judge counts one up, and gives up exactly at the limit.
LEMMA JudgeCounts ==
  ASSUME SleepTypeOK, Sound, NEW e \in Nat
  PROVE  LET j == Judge(judge, refused, e)
         IN  /\ j.judge \in [refusals : 0..MaxRefusals,
                              shortReturns : 0..MaxShortReturns]
             /\ \/ /\ j.verdict \in {"Continue", "RetryRefused"}
                   /\ j.judge.refusals < MaxRefusals
                   /\ j.judge.shortReturns < MaxShortReturns
                \/ /\ j.verdict \in {"AbandonRefused", "AbandonBouncing"}
                   /\ \/ j.judge.refusals = MaxRefusals
                      \/ j.judge.shortReturns = MaxShortReturns
<1> USE SleepConstants DEF SleepTypeOK, Sound, Judge, CountUp, LastStraw
<1>1. CASE refused
  BY <1>1
<1>2. CASE ~refused /\ e < ShortReturn
  BY <1>2
<1>3. CASE ~refused /\ ~(e < ShortReturn)
  BY <1>3
<1> QED BY <1>1, <1>2, <1>3

\* A delay inside the interval keeps the clock and the time spent together.
LEMMA DelayAdds ==
  ASSUME SleepTypeOK, ClockShows, place \in InInterval,
         NEW t \in Nat, Pass(t), mark' = mark, spent + t \in Ticks
  PROVE  spent' \in Ticks /\ now' = (mark' + spent') % ClockRange
<1>1. mark \in Ticks /\ spent \in Ticks /\ now = (mark + spent) % ClockRange
  BY DEF SleepTypeOK, ClockShows
<1>2. (((mark + spent) % ClockRange) + t) % ClockRange
        = (mark + (spent + t)) % ClockRange
  BY <1>1, TimeAdds
<1> QED BY <1>1, <1>2 DEF Pass

\* Any delay leaves the clock a clock.
LEMMA DelayTypes ==
  ASSUME SleepTypeOK, NEW t \in Nat, Pass(t)
  PROVE  now' \in Ticks /\ spent' \in Nat
<1>1. now + t \in Nat /\ 0 \in Ticks
  BY ClockCounts DEF SleepTypeOK, Ticks
<1> QED BY <1>1, ClockStays DEF Pass, SleepTypeOK

LEMMA FreshJudge ==
  /\ NewJudge \in [refusals : 0..MaxRefusals, shortReturns : 0..MaxShortReturns]
  /\ NewJudge.refusals < MaxRefusals /\ NewJudge.shortReturns < MaxShortReturns
BY SleepConstants DEF NewJudge

LEMMA SleepInit_Inv == SleepInit => SleepTypeOK /\ SleepInv
<1> SUFFICES ASSUME SleepInit PROVE SleepTypeOK /\ SleepInv
  OBVIOUS
<1> USE SleepConstants DEF SleepInit
<1>1. SleepTypeOK
  <2>1. 0 \in Ticks
    BY DEF Ticks
  <2>2. now \in Ticks /\ mark \in Ticks /\ wait \in Ticks /\ spent \in Nat
    BY <2>1
  <2>3. refused \in BOOLEAN /\ linked \in BOOLEAN /\ nudged \in BOOLEAN
    OBVIOUS
  <2>4. place \in Places
    BY DEF Places
  <2> QED BY <2>2, <2>3, <2>4, FreshJudge DEF SleepTypeOK
<1>2. SleepInv
  BY DEF SleepInv, ClockShows, Overrun, JudgeStands, InInterval, IntervalKept,
         NeverEarly, ChunkFits, Over
<1> QED BY <1>1, <1>2

\* One step of a light sleep: the types, the clock, and the interval.
LEMMA SleepNext_Inv ==
  ASSUME SleepTypeOK, SleepInv, [SleepNext]_sleepVars
  PROVE  SleepTypeOK' /\ SleepInv'
<1> USE SleepConstants
<1> USE DEF SleepInv, SleepTypeOK, Overrun, JudgeStands, IntervalKept,
            NeverEarly, ChunkFits, Over, Places, InInterval, ClockShows
<1>1. CASE Start
  <2>1. 0 \in Ticks /\ (now + 0) % ClockRange = now
    BY ModOfSmall DEF Ticks
  <2>2. SleepTypeOK'
    BY <1>1, <2>1, FreshJudge DEF Start
  <2>3. Sound' /\ ClockShows'
    BY <1>1, <2>1, FreshJudge DEF Start, Sound
  <2> QED BY <1>1, <2>2, <2>3 DEF Start
<1>2. CASE AskSleep
  <2>1. Elapsed = spent /\ spent < Target
    BY <1>2, ElapsedIsSpent DEF AskSleep, IntervalSpent, Ticks
  <2>2. Left = Target - spent
    BY <1>2, <2>1, LeftIsRest DEF Left, AskSleep
  <2>3. Chunk \in 0..MaxChunk /\ spent + Chunk <= Target
    BY <2>1, <2>2 DEF Chunk
  <2>4. wait' \in 0..(MaxChunk + 1) /\ spent + wait' <= Target + 1
    BY <1>2, <2>1, <2>3 DEF AskSleep
  <2> QED BY <1>2, <2>1, <2>4 DEF AskSleep, Sound, Abandoned, Ticks
<1>3. CASE ReturnFromSleep
  <2>1. PICK t \in 0..wait : Pass(t) /\ wait' = t
    BY <1>3 DEF ReturnFromSleep, Delay
  <2>2. t \in Nat /\ t <= wait /\ spent + t <= Target + 1 /\ spent + t \in Ticks
    BY <1>3, <2>1 DEF ReturnFromSleep, Ticks
  <2>3. spent' \in Ticks /\ now' = (mark' + spent') % ClockRange
    BY <1>3, <2>1, <2>2, DelayAdds DEF ReturnFromSleep
  <2>4. now' \in Ticks /\ spent' \in Nat /\ spent' = spent + t
    BY <2>1, <2>2, DelayTypes DEF Pass
  <2>5. wait' \in Ticks
    BY <2>1, <2>2 DEF Ticks
  <2> QED BY <1>3, <2>2, <2>3, <2>4, <2>5 DEF ReturnFromSleep, Sound, Abandoned
<1>4. CASE JudgeChunk
  <2> DEFINE j == Judge(judge, refused, wait)
  <2>1. Sound /\ wait \in Nat
    BY <1>4 DEF JudgeChunk, Ticks
  <2>2. /\ j.judge \in [refusals : 0..MaxRefusals,
                         shortReturns : 0..MaxShortReturns]
        /\ \/ /\ j.verdict \in {"Continue", "RetryRefused"}
              /\ j.judge.refusals < MaxRefusals
              /\ j.judge.shortReturns < MaxShortReturns
           \/ /\ j.verdict \in {"AbandonRefused", "AbandonBouncing"}
              /\ \/ j.judge.refusals = MaxRefusals
                 \/ j.judge.shortReturns = MaxShortReturns
    BY <2>1, JudgeCounts
  <2>3. judge' = j.judge /\ UNCHANGED <<now, mark, refused, spent, linked, nudged>>
    BY <1>4 DEF JudgeChunk
  <2>4. \/ j.verdict = "Continue" /\ place' = "loop" /\ wait' = 0
        \/ j.verdict = "RetryRefused" /\ place' = "backoff" /\ wait' = RetryDelay
        \/ /\ j.verdict \in {"AbandonRefused", "AbandonBouncing"}
           /\ place' = "waitout" /\ wait' = RestOfInterval
    <3> HIDE DEF j
    <3>1. CASE j.verdict = "Continue"
      BY <1>4, <3>1 DEF JudgeChunk, j
    <3>2. CASE j.verdict = "RetryRefused"
      BY <1>4, <3>2 DEF JudgeChunk, j
    <3>3. CASE j.verdict \in {"AbandonRefused", "AbandonBouncing"}
      BY <1>4, <3>3 DEF JudgeChunk, j
    <3> QED BY <2>2, <3>1, <3>2, <3>3
  <2>5. RestOfInterval \in Ticks /\ RetryDelay \in Ticks /\ 0 \in Ticks
    <3>1. now \in Nat /\ mark \in Ticks /\ Target \in Nat
      BY DEF Ticks
    <3>2. Minus(now, mark) \in Ticks
      BY <3>1, ClockStays
    <3>3. Minus(Target, Minus(now, mark)) \in Ticks
      BY <3>1, <3>2, ClockStays
    <3>4. RetryDelay \in Ticks /\ 0 \in Ticks
      BY DEF Ticks
    <3> QED BY <3>3, <3>4 DEF RestOfInterval, Elapsed, Since
  <2>6. spent <= Target + 1 /\ spent \in Ticks /\ now = (mark + spent) % ClockRange
    BY <1>4 DEF JudgeChunk
  <2> HIDE DEF j
  <2> QED BY <2>2, <2>3, <2>4, <2>5, <2>6 DEF Sound, Abandoned
<1>5. CASE BackOff
  <2>1. PICK t \in 0..wait : Pass(t) /\ wait' = t
    BY <1>5 DEF BackOff, Delay
  <2>2. /\ t \in Nat /\ t <= RetryDelay
        /\ spent + t <= Target + 1 + RetryDelay /\ spent + t \in Ticks
    BY <1>5, <2>1 DEF BackOff, Ticks
  <2>3. spent' \in Ticks /\ now' = (mark' + spent') % ClockRange
    BY <1>5, <2>1, <2>2, DelayAdds DEF BackOff
  <2>4. now' \in Ticks /\ spent' \in Nat /\ spent' = spent + t
    BY <2>1, <2>2, DelayTypes DEF Pass
  <2>5. wait' \in Ticks
    BY <2>1, <2>2 DEF Ticks
  <2> QED BY <1>5, <2>2, <2>3, <2>4, <2>5 DEF BackOff, Sound, Abandoned
<1>6. CASE WaitOut
  <2>1. PICK t \in 0..wait : Pass(t) /\ wait' = t
    BY <1>6 DEF WaitOut, Delay
  <2>2. t \in Ticks /\ t \in Nat
    BY <2>1 DEF Ticks
  <2>3. now' \in Ticks /\ spent' \in Nat
    BY <2>1, <2>2, DelayTypes
  <2> QED BY <1>6, <2>1, <2>2, <2>3 DEF WaitOut, Abandoned
<1>7. CASE IntervalOver
  <2>1. Elapsed = spent /\ spent >= Target
    BY <1>7, ElapsedIsSpent DEF IntervalOver, IntervalSpent
  <2> QED BY <1>7, <2>1 DEF IntervalOver, Abandoned
<1>8. CASE WakeUp
  BY <1>8 DEF WakeUp, Abandoned
<1>9. CASE PollLink
  <2>1. now' \in Ticks /\ spent' \in Nat /\ spent' = spent + 1
    BY <1>9, DelayTypes DEF PollLink, Pass
  <2>2. nudged' \in BOOLEAN
    BY <1>9 DEF PollLink
  <2> QED BY <1>9, <2>1, <2>2 DEF PollLink, Abandoned
<1>10. CASE Return
  BY <1>10 DEF Return, Abandoned
<1>11. CASE Associated
  BY <1>11 DEF Associated, Abandoned
<1>12. CASE NextCycle
  <2>1. 0 \in Ticks
    BY DEF Ticks
  <2> QED BY <1>12, <2>1, FreshJudge DEF NextCycle
<1>13. CASE UNCHANGED sleepVars
  BY <1>13 DEF sleepVars, Sound, Abandoned
<1> QED BY <1>1, <1>2, <1>3, <1>4, <1>5, <1>6, <1>7, <1>8, <1>9, <1>10, <1>11,
           <1>12, <1>13 DEF SleepNext, Sleeping

LEMMA AlwaysSleepInv == SleepSpec => [](SleepTypeOK /\ SleepInv)
<1>1. SleepTypeOK /\ SleepInv /\ [SleepNext]_sleepVars
        => (SleepTypeOK /\ SleepInv)'
  BY SleepNext_Inv
<1> QED BY <1>1, SleepInit_Inv, PTL DEF SleepSpec

\* A sleep that the SDK refuses or cuts short is not cut short with it, and
\* no chunk reaches past the interval (startLightSleep): for every interval,
\* chunk and limit, wherever the clock rolls over.
THEOREM IntervalIsKept == SleepSpec => []IntervalKept
<1>1. SleepTypeOK /\ SleepInv => IntervalKept
  BY DEF SleepInv
<1> QED BY <1>1, AlwaysSleepInv, PTL

----------------------------------------------------------------------------
(* Live mode.                                                              *)

\* The clock tells how long the last attempt is ago until that is the retry
\* interval; from then on it may say anything, and an attempt may be made.
AttemptRemembered ==
  IF attempted
  THEN quiet = RetryInterval \/ (quiet < RetryInterval
                                  /\ Since(lastAttempt) = quiet)
  ELSE quiet = RetryInterval

\* The attempt that is one too many restarts the board.
AttemptsBounded == stage # "restart" => attempts <= MaxAttempts

LiveInv == LiveTypeOK /\ AttemptRemembered /\ AttemptsBounded

LEMMA LiveConstants ==
  /\ RetryInterval \in Nat \ {0} /\ MaxAttempts \in Nat \ {0}
  /\ MaxPass \in Nat \ {0} /\ ClockRange \in Nat
  /\ RetryInterval + MaxPass < ClockRange
BY ConstantsArePositive, ClockHoldsInterval, ClockCounts

\* A difference grows with the clock as long as it fits the range.
LEMMA SinceGrows ==
  ASSUME NEW a \in Ticks, NEW m \in Ticks, NEW t \in Nat,
         Minus(a, m) + t \in Ticks
  PROVE  Minus((a + t) % ClockRange, m) = Minus(a, m) + t
<1> USE ClockCounts DEF Ticks
<1> DEFINE d == Minus(a, m)
<1>1. d \in Ticks /\ (m + d) % ClockRange = a
  <2>1. CASE a >= m
    <3>1. d = a - m
      BY <2>1, ModOfLarger DEF Minus
    <3>2. (m + (a - m)) % ClockRange = a
      BY ModOfSmall
    <3> QED BY <2>1, <3>1, <3>2
  <2>2. CASE a < m
    <3>1. d = a + ClockRange - m
      BY <2>2, ModOfSmall DEF Minus
    <3>2. (m + (a + ClockRange - m)) % ClockRange = a
      BY ModOfLarger
    <3> QED BY <2>2, <3>1, <3>2
  <2> QED BY <2>1, <2>2
<1> HIDE DEF d
<1>2. (((m + d) % ClockRange) + t) % ClockRange = (m + (d + t)) % ClockRange
  BY <1>1, TimeAdds DEF d
<1>3. Minus((m + (d + t)) % ClockRange, m) = d + t
  BY <1>1, MinusExact DEF d
<1> QED BY <1>1, <1>2, <1>3 DEF d

LEMMA LiveInit_Inv == LiveInit => LiveInv
<1> SUFFICES ASSUME LiveInit PROVE LiveInv
  OBVIOUS
<1> USE LiveConstants DEF LiveInit
<1>1. LiveTypeOK
  <2>1. 0 \in Ticks /\ now \in Ticks /\ lastAttempt \in Ticks
    BY DEF Ticks
  <2>2. attempts \in 0..(MaxAttempts + 1) /\ failures \in 0..(MaxAttempts + 1)
        /\ quiet \in 0..RetryInterval
    OBVIOUS
  <2> QED BY <2>1, <2>2 DEF LiveTypeOK
<1> QED BY <1>1 DEF LiveInv, AttemptRemembered, AttemptsBounded

LEMMA LiveNext_Inv == LiveInv /\ [LiveNext]_liveVars => LiveInv'
<1> SUFFICES ASSUME LiveInv, [LiveNext]_liveVars PROVE LiveInv'
  OBVIOUS
<1> USE LiveConstants
<1> USE DEF LiveInv, LiveTypeOK, AttemptRemembered, AttemptsBounded
<1>1. CASE LoopPass
  <2>1. PICK t \in 1..MaxPass : /\ now' = (now + t) % ClockRange
                                /\ quiet' = AtMost(quiet + t, RetryInterval)
    BY <1>1 DEF LoopPass
  <2>2. UNCHANGED <<link, lastAttempt, attempted, attempts, failures>>
        /\ stage' = "check" /\ stage = "loop"
    BY <1>1 DEF LoopPass
  <2>3. now \in Nat /\ now \in Ticks /\ lastAttempt \in Ticks /\ t \in Nat
    BY DEF Ticks
  <2>4. now' \in Ticks
    <3>1. now + t \in Nat
      BY <2>3
    <3>2. (now + t) % ClockRange \in Ticks
      BY <2>3, <3>1, ClockStays
    <3> QED BY <2>1, <3>2
  <2>5. quiet' \in 0..RetryInterval
    BY <2>1 DEF AtMost
  <2>6. AttemptRemembered'
    <3>1. CASE quiet = RetryInterval
      BY <2>1, <2>2, <3>1 DEF AtMost
    <3>2. CASE attempted /\ quiet < RetryInterval /\ Since(lastAttempt) = quiet
      <4>1. Minus(now, lastAttempt) = quiet /\ quiet + t \in Ticks
        BY <3>2 DEF Since, Ticks
      <4>2. Minus((now + t) % ClockRange, lastAttempt) = quiet + t
        BY <2>3, <4>1, SinceGrows
      <4>3. Since(lastAttempt)' = quiet + t
        BY <2>1, <2>2, <4>2 DEF Since, Minus
      <4> QED BY <2>1, <2>2, <3>2, <4>3 DEF AtMost
    <3> QED BY <3>1, <3>2
  <2> QED BY <2>2, <2>4, <2>5, <2>6
<1>2. CASE LinkFine
  BY <1>2 DEF LinkFine, Since, Minus
<1>3. CASE Connected
  BY <1>3 DEF Connected, Since, Minus
<1>4. CASE WaitForRetry
  BY <1>4 DEF WaitForRetry, Since, Minus
<1>5. CASE Attempt
  <2>1. now \in Ticks /\ Minus(now, now) = 0
    <3>1. now \in Ticks
      OBVIOUS
    <3>2. (now + ClockRange - now) % ClockRange = 0
      BY <3>1, ModOfLarger DEF Ticks
    <3> QED BY <3>1, <3>2 DEF Minus
  <2>2. Since(lastAttempt)' = 0
    BY <1>5, <2>1 DEF Attempt, Since, Minus
  <2>3. failures' \in 0..(MaxAttempts + 1)
    BY <1>5 DEF Attempt, AtMost
  <2>4. /\ attempts' \in 0..(MaxAttempts + 1)
        /\ stage' # "restart" => attempts' <= MaxAttempts
        /\ stage' \in {"loop", "restart"}
    BY <1>5 DEF Attempt, TooMany
  <2>5. now' \in Ticks /\ lastAttempt' \in Ticks /\ link' = link
        /\ quiet' = 0 /\ attempted' = TRUE
    BY <1>5 DEF Attempt
  <2>6. quiet' \in 0..RetryInterval /\ attempted' \in BOOLEAN
    BY <2>5
  <2>7. LiveTypeOK'
    BY <2>3, <2>4, <2>5, <2>6
  <2>8. AttemptRemembered'
    BY <2>2, <2>5
  <2> QED BY <2>4, <2>7, <2>8
<1>6. CASE Restarted
  <2>1. 0 \in Ticks
    BY DEF Ticks
  <2>2. LiveTypeOK'
    <3>1. now' \in Ticks /\ lastAttempt' \in Ticks /\ link' \in {"down", "noaddr", "up"}
      BY <1>6, <2>1 DEF Restarted
    <3>2. attempts' = 0 /\ quiet' = RetryInterval /\ failures' = 0 /\ stage' = "loop"
      BY <1>6 DEF Restarted
    <3>3. attempted' \in BOOLEAN
      BY <1>6 DEF Restarted
    <3> QED BY <3>1, <3>2, <3>3
  <2> QED BY <1>6, <2>2 DEF Restarted
<1>7. CASE LinkLost
  BY <1>7 DEF LinkLost, Since, Minus
<1>8. CASE LinkJoined
  BY <1>8 DEF LinkJoined, Since, Minus
<1>9. CASE LinkUp
  BY <1>9 DEF LinkUp, Since, Minus
<1>10. CASE UNCHANGED liveVars
  BY <1>10 DEF liveVars, Since, Minus
<1> QED BY <1>1, <1>2, <1>3, <1>4, <1>5, <1>6, <1>7, <1>8, <1>9, <1>10
        DEF LiveNext, Firmware, Network

\* An attempt is made only when the last one is the retry interval ago.
LEMMA AttemptIsSpaced == LiveInv => [Attempt => quiet = RetryInterval]_liveVars
<1> SUFFICES ASSUME LiveInv, Attempt PROVE quiet = RetryInterval
  OBVIOUS
<1> QED BY LiveConstants DEF LiveInv, LiveTypeOK, AttemptRemembered, Attempt, TooSoon

\* Two attempts are never closer than the retry interval in real time
\* (connectToWiFi), for every interval shorter than the range of the clock.
THEOREM AttemptsAreSpaced == LiveSpec => AttemptsSpaced
<1>1. LiveInv /\ [LiveNext]_liveVars => LiveInv'
  BY LiveNext_Inv
<1>2. LiveInv => [Attempt => quiet = RetryInterval]_liveVars
  BY AttemptIsSpaced
<1> QED BY <1>1, <1>2, LiveInit_Inv, PTL DEF LiveSpec, AttemptsSpaced

----------------------------------------------------------------------------
(* The three together.                                                     *)

\* A part that is not on the bench is as it was at the start.
ElsewhereAtRest ==
  /\ board # "live" => stage = "loop"
  /\ board # "asleep" => place = "awake"

WifiInv ==
  /\ LiveTypeOK /\ SleepTypeOK
  /\ board = "live" => LiveInv
  /\ board = "asleep" => SleepInv
  /\ ElsewhereAtRest

\* The board on the bench takes a step of its own part; the hint's board is
\* the only one that touches the hint.
LEMMA HintStepsOnly == [WifiNext]_all => [Next]_vars
BY DEF WifiNext, HintStep, LiveStep, SleepStep, all

\* A board that comes back on its hint is module WifiHint's, whatever it
\* shares the bench with: every behaviour of the composition is one of the
\* hint's.
THEOREM HintIsImplemented == WifiSpec => Spec
<1>1. WifiInit => Init
  BY DEF WifiInit
<1> QED BY <1>1, HintStepsOnly, PTL DEF WifiSpec, Spec

LEMMA WifiInit_Inv == WifiInit => WifiInv
BY LiveInit_Inv, SleepInit_Inv
   DEF WifiInit, WifiInv, ElsewhereAtRest, LiveInit, SleepInit, LiveInv

\* A part that stays as it is keeps its type while the clock goes on.
LEMMA LiveAtRest ==
  ASSUME LiveTypeOK, now' \in Ticks, UNCHANGED liveOnly
  PROVE  LiveTypeOK'
BY DEF LiveTypeOK, liveOnly

LEMMA SleepAtRest ==
  ASSUME SleepTypeOK, now' \in Ticks, UNCHANGED sleepOnly
  PROVE  SleepTypeOK'
BY DEF SleepTypeOK, sleepOnly

LEMMA WifiNext_Inv == WifiInv /\ [WifiNext]_all => WifiInv'
<1> SUFFICES ASSUME WifiInv, [WifiNext]_all PROVE WifiInv'
  OBVIOUS
<1> USE DEF WifiInv, ElsewhereAtRest
<1>1. CASE HintStep(Next)
  <2>1. UNCHANGED <<board, now, liveOnly, sleepOnly>> /\ board = "hint"
    BY <1>1 DEF HintStep
  <2>2. now' \in Ticks
    BY <2>1 DEF LiveTypeOK
  <2> QED BY <2>1, <2>2, LiveAtRest, SleepAtRest DEF liveOnly, sleepOnly
<1>2. CASE LiveStep(LiveNext)
  <2>1. board = "live" /\ LiveNext /\ UNCHANGED <<board, sleepOnly>>
    BY <1>2 DEF LiveStep
  <2>2. LiveInv' /\ LiveTypeOK'
    BY <2>1, LiveNext_Inv DEF LiveInv
  <2>3. now' \in Ticks
    BY <2>2 DEF LiveTypeOK
  <2>4. place' = place
    BY <2>1 DEF sleepOnly
  <2> QED BY <2>1, <2>2, <2>3, <2>4, SleepAtRest
<1>3. CASE SleepStep(SleepNext)
  <2>1. board = "asleep" /\ SleepNext /\ UNCHANGED <<board, liveOnly>>
    BY <1>3 DEF SleepStep
  <2>2. SleepInv' /\ SleepTypeOK'
    BY <2>1, SleepNext_Inv
  <2>3. now' \in Ticks
    BY <2>2 DEF SleepTypeOK
  <2>4. stage' = stage
    BY <2>1 DEF liveOnly
  <2> QED BY <2>1, <2>2, <2>3, <2>4, LiveAtRest
<1>4. CASE UNCHANGED all
  <2>1. UNCHANGED <<board, now, liveOnly, sleepOnly>>
    BY <1>4 DEF all
  <2>2. UNCHANGED liveVars /\ UNCHANGED sleepVars
    BY <2>1 DEF liveVars, sleepVars, liveOnly, sleepOnly
  <2>3. board = "live" => LiveInv'
    BY <2>2, LiveNext_Inv
  <2>4. board = "asleep" => SleepInv'
    BY <2>2, SleepNext_Inv
  <2>5. LiveTypeOK' /\ SleepTypeOK' /\ stage' = stage /\ place' = place
    BY <2>1, LiveAtRest, SleepAtRest DEF LiveTypeOK, liveOnly, sleepOnly
  <2> QED BY <2>1, <2>3, <2>4, <2>5
<1> QED BY <1>1, <1>2, <1>3, <1>4 DEF WifiNext

LEMMA AlwaysWifiInv == WifiSpec => []WifiInv
BY WifiInit_Inv, WifiNext_Inv, PTL DEF WifiSpec

\* Every state of the three is of its type, with one clock among them.
THEOREM WifiTypeCorrect == WifiSpec => []WifiTypeOK
<1>1. TypeOK /\ WifiInv => WifiTypeOK
  BY DEF WifiInv, WifiTypeOK
<1> QED BY <1>1, HintIsImplemented, HintTypeCorrect, AlwaysWifiInv, PTL

\* What the runs check of the composition, for every value of the constants:
\* the lease is renewed within the period, the counter may be relied on, a
\* light sleep keeps its interval and live mode spaces its attempts.
THEOREM WifiIsSafe ==
  WifiSpec => [](LeaseRenewed /\ CounterSound /\ IntervalKept) /\ AttemptsSpaced
<1>1. WifiInv => IntervalKept
  BY DEF WifiInv, ElsewhereAtRest, SleepInv, IntervalKept, NeverEarly, ChunkFits,
         Over
<1>2. WifiInv => [Attempt => quiet = RetryInterval]_liveVars
  <2> SUFFICES ASSUME WifiInv, Attempt PROVE quiet = RetryInterval
    OBVIOUS
  <2>1. board = "live"
    BY DEF WifiInv, ElsewhereAtRest, Attempt
  <2>2. LiveInv /\ [Attempt => quiet = RetryInterval]_liveVars
    BY <2>1, AttemptIsSpaced DEF WifiInv
  <2>3. CASE UNCHANGED liveVars
    BY <2>2, <2>3, LiveConstants DEF LiveInv, LiveTypeOK, AttemptRemembered,
       Attempt, TooSoon
  <2> QED BY <2>2, <2>3
<1> QED BY <1>1, <1>2, AlwaysWifiInv, HintIsImplemented, LeaseIsRenewed,
           CounterIsSound, PTL DEF AttemptsSpaced
=============================================================================
