------------------------- MODULE DisplayLoopProofs -------------------------
(***************************************************************************)
(* The display board's loop for any number of slots and alarms, any length *)
(* of a minute and any interval: reads nest once at most, no alarm whose   *)
(* minute has passed is missed, none rings twice in its minute or for      *)
(* ever, and a stopped ticker runs once more at most.                      *)
(***************************************************************************)
EXTENDS DisplayLoop, SequenceTheorems, TLAPS

\* The type of everything but the stack, in parts the provers can take.
LoopType ==
  /\ pc \in {"tick", "serve", "flags", "update", "send", "idle"}
  /\ slot \in 1..(Slots + 1)
  /\ pc = "send" => slot \in Slot
  /\ config \in BOOLEAN /\ stop \in BOOLEAN /\ start \in BOOLEAN
  /\ clockSet \in BOOLEAN /\ whole \in BOOLEAN /\ stopped \in BOOLEAN

TimeType ==
  /\ sub \in 0..(MinuteUnits - 1) /\ due \in SUBSET Alarms
  /\ unticked \in 0..MaxBlock /\ sinceRead \in 0..Refresh

AlarmType ==
  /\ stamp \in [Alarms -> {"never", "this", "other"}]
  /\ ringing \in SUBSET Alarms /\ ringAge \in [Alarms -> 0..MaxAge]
  /\ fired \in [Alarms -> 0..2]

SlotType ==
  /\ timers \in SUBSET Slot /\ flags \in SUBSET Slot /\ late \in [Slot -> 0..2]

\* The display's read is innermost while the static is set.
ReadInv ==
  /\ stack \in Seq(Callers) /\ Len(stack) <= 2 /\ reading \in BOOLEAN
  /\ reading <=> Len(stack) > 0 /\ stack[Len(stack)] = "display"
  /\ Len(stack) = 2 => stack[1] # "display" /\ reading

\* What has been stopped has no timer, and what has run since has no flag.
StopInv ==
  /\ stopped => timers = {} /\ \A s \in flags : late[s] = 0
  /\ \A s \in Slot : late[s] <= 1

\* Whatever has not been seen yet in a minute that nothing has disturbed is
\* younger than the last tick.
SeenInv ==
  whole /\ clockSet => \A i \in due : stamp[i] = "this" \/ unticked > sub

\* An alarm rings for no longer than the mute time and the time since a tick.
RingInv ==
  /\ ~clockSet => ringing = {}
  /\ \A i \in Alarms : fired[i] = 0 \/ (fired[i] = 1 /\ stamp[i] = "this")
  /\ \A i \in ringing : ringAge[i] < MuteUnits + unticked

----------------------------------------------------------------------------
LEMMA Positive ==
  /\ Slots \in Nat /\ Slots > 0 /\ MinuteUnits \in Nat /\ MinuteUnits > 0
  /\ MuteUnits \in Nat /\ MuteUnits > 0 /\ Refresh \in Nat /\ Refresh > 0
  /\ MaxBlock \in Nat /\ MaxBlock > 0
  /\ MaxAge \in Nat /\ MaxAge > MuteUnits + MaxBlock
BY ConstantsArePositive DEF MaxAge

----------------------------------------------------------------------------
(* Reads.                                                                  *)

LEMMA NoRead == stack = <<>> /\ reading = FALSE => ReadInv
<1> SUFFICES ASSUME stack = <<>>, reading = FALSE
             PROVE  ReadInv
  OBVIOUS
<1>1. stack \in Seq(Callers)
  OBVIOUS
<1>2. Len(stack) = 0
  OBVIOUS
<1>3. /\ Len(stack) <= 2 /\ ~(Len(stack) > 0)
      /\ Len(stack) # 2
  BY <1>2
<1> QED
  BY <1>1, <1>3, Zenon DEF ReadInv

LEMMA OneMore ==
  \A n \in Nat : n <= 2 /\ n # 2 => n \in 0..1 /\ n + 1 <= 2 /\ n + 1 > 0
OBVIOUS

LEMMA TickReads == ReadInv /\ Tick => ReadInv'
<1> SUFFICES ASSUME ReadInv, Tick
             PROVE  ReadInv'
  OBVIOUS
<1>1. CASE Refreshes
  <2>1. stack' = Append(stack, "display") /\ reading' = TRUE /\ ~reading
    BY <1>1 DEF Tick, RefreshSensors, Begin, Refreshes
  <2>2. stack \in Seq(Callers) /\ "display" \in Callers
    BY DEF ReadInv, Callers
  <2>3. /\ stack' \in Seq(Callers) /\ Len(stack') = Len(stack) + 1
        /\ \A k \in 1..Len(stack) : stack'[k] = stack[k]
        /\ stack'[Len(stack) + 1] = "display"
    BY <2>1, <2>2, AppendProperties
  <2>4. Len(stack) \in Nat
    BY <2>2
  <2>5. Len(stack) <= 2 /\ Len(stack) # 2
    BY <2>1, Zenon DEF ReadInv
  <2>6. Len(stack) \in 0..1
    BY <2>4, <2>5, OneMore, Zenon
  <2>7. Len(stack) = 1 => stack[1] # "display"
    BY <2>1 DEF ReadInv
  <2>8. Len(stack') <= 2 /\ Len(stack') > 0
    <3>1. Len(stack') = Len(stack) + 1
      BY <2>3
    <3> QED
      BY <2>4, <2>5, <3>1, OneMore, Zenon
  <2>9. stack'[Len(stack')] = "display"
    BY <2>3, Zenon
  <2>10. ASSUME Len(stack') = 2
         PROVE  stack'[1] # "display"
    <3>1. Len(stack') = Len(stack) + 1
      BY <2>3
    <3>2. Len(stack) = 1 /\ 1 \in 1..Len(stack)
      BY <2>6, <2>10, <3>1
    <3>3. \A k \in 1..Len(stack) : stack'[k] = stack[k]
      BY <2>3
    <3> QED
      BY <2>7, <3>2, <3>3, Zenon
  <2>11. stack' \in Seq(Callers)
    BY <2>3
  <2> QED
    BY <2>1, <2>8, <2>9, <2>10, <2>11, Zenon DEF ReadInv
<1>2. CASE ~Refreshes
  <2>1. UNCHANGED <<stack, reading>>
    BY <1>2 DEF Tick, RefreshSensors, readVars
  <2> QED
    BY <2>1, Zenon DEF ReadInv
<1> QED
  BY <1>1, <1>2

LEMMA StepReads == ReadInv /\ [Next]_vars => ReadInv'
<1> SUFFICES ASSUME ReadInv, [Next]_vars
             PROVE  ReadInv'
  OBVIOUS
<1>1. CASE TickInLoop \/ TickInRead
  BY <1>1, TickReads DEF TickInLoop, TickInRead, readVars, ReadInv
<1>2. CASE ServeData \/ RunSlot
  <2>1. PICK caller \in {"web", "ticker"} :
          stack = <<>> /\ stack' = Append(stack, caller) /\ reading' = reading
    BY <1>2 DEF ServeData, RunSlot, At, Begin
  <2>2. stack \in Seq(Callers) /\ Len(stack) = 0 /\ caller \in Callers
    BY <2>1 DEF ReadInv, Callers
  <2>3. /\ Append(stack, caller) \in Seq(Callers)
        /\ Len(Append(stack, caller)) = Len(stack) + 1
        /\ Append(stack, caller)[Len(stack) + 1] = caller
    BY <2>2, AppendProperties
  <2>4. Len(stack') = 1 /\ stack'[1] = caller
    BY <2>1, <2>2, <2>3
  <2>5. ~(Len(stack') > 0 /\ stack'[Len(stack')] = "display")
    BY <2>4
  <2>6. Len(stack') <= 2 /\ Len(stack') # 2
    BY <2>4
  <2>7. reading' = FALSE
    <3>1. ~(Len(stack) > 0)
      BY <2>2
    <3> QED
      BY <2>1, <3>1, Zenon DEF ReadInv
  <2>8. stack' \in Seq(Callers)
    BY <2>1, <2>3
  <2> QED
    BY <2>5, <2>6, <2>7, <2>8, Zenon DEF ReadInv
<1>3. ASSUME NEW depth \in 1..2, ReadEnds(depth)
      PROVE  ReadInv'
  <2>1. /\ stack' = SubSeq(stack, 1, Len(stack) - 1)
        /\ reading' = (reading /\ stack[Len(stack)] # "display")
        /\ stack \in Seq(Callers) /\ Len(stack) = depth
    BY <1>3 DEF ReadEnds, ReadInv
  <2>2. stack' \in Seq(Callers) /\ Len(stack') = depth - 1
        /\ \A k \in 1..(depth - 1) : stack'[k] = stack[k]
    <3>1. \A k \in 1..(depth - 1) : stack[k] \in Callers
      BY <2>1, ElementOfSeq
    <3>2. /\ SubSeq(stack, 1, depth - 1) \in Seq(Callers)
          /\ Len(SubSeq(stack, 1, depth - 1)) = IF 1 <= depth - 1 THEN depth - 1 ELSE 0
          /\ \A k \in 1..(depth - 1) : SubSeq(stack, 1, depth - 1)[k] = stack[k]
      BY <2>1, <3>1, SubSeqProperties
    <3> QED
      BY <2>1, <3>2
  <2>3. reading' = FALSE
    BY <2>1 DEF ReadInv
  <2>4. depth = 2 => stack'[1] # "display"
    BY <2>1, <2>2 DEF ReadInv
  <2>5. Len(stack') = depth - 1
    BY <2>2
  <2>6. Len(stack') <= 2 /\ Len(stack') # 2
    BY <2>5
  <2>7. ~(Len(stack') > 0 /\ stack'[Len(stack')] = "display")
    <3>1. CASE depth = 2
      BY <2>4, <2>5, <3>1
    <3>2. CASE depth = 1
      BY <2>5, <3>2
    <3> QED
      BY <3>1, <3>2
  <2>8. stack' \in Seq(Callers)
    BY <2>2
  <2> QED
    BY <2>3, <2>6, <2>7, <2>8, Zenon DEF ReadInv
<1>4. CASE Restart
  <2>1. stack' = <<>> /\ reading' = FALSE
    BY <1>4 DEF Restart, AfterSetup
  <2>2. (stack = <<>> /\ reading = FALSE => ReadInv)'
    BY NoRead, PTL
  <2> QED
    BY <2>1, <2>2
<1>5. CASE ServeNothing \/ SaveConfig \/ SetTime \/ DoFlags \/ SkipSlot
           \/ (\E s \in Slot : Send(s)) \/ UpdateOver \/ Idle \/ Press \/ Elapse
           \/ (\E s \in Slot : TimerFires(s)) \/ UNCHANGED vars
  <2>1. stack' = stack /\ reading' = reading
    BY <1>5 DEF ServeNothing, SaveConfig, SetTime, DoFlags, SkipSlot, Send,
                UpdateOver, Idle, Press, Elapse, TimerFires, vars, readVars
  <2> QED
    BY <2>1, Zenon DEF ReadInv
<1> QED
  BY <1>1, <1>2, <1>3, <1>4, <1>5 DEF Next, Loop

LEMMA InitReads == Init => ReadInv
BY NoRead DEF Init

\* A read waits by drawing, and drawing starts a read at most once: inside one
\* of the web server or of a ticker, never inside its own.
THEOREM NestsOnce == Spec => []NestingBounded
<1>1. ReadInv => NestingBounded
  BY DEF ReadInv, NestingBounded
<1> QED
  BY <1>1, InitReads, StepReads, PTL DEF Spec

----------------------------------------------------------------------------
(* Types.                                                                  *)

TInv == LoopType /\ TimeType /\ AlarmType /\ SlotType

\* The step that leaves loop(), time, alarms or slots as they are.
LEMMA SameLoop == LoopType /\ UNCHANGED <<loopVars, clockSet, whole, stopped>> => LoopType'
BY DEF LoopType, loopVars
LEMMA SameTime == TimeType /\ UNCHANGED <<sub, due, unticked, sinceRead>> => TimeType'
BY DEF TimeType
LEMMA SameAlarms == AlarmType /\ UNCHANGED alarmVars => AlarmType'
BY DEF AlarmType, alarmVars
LEMMA SameSlots == SlotType /\ UNCHANGED <<timers, flags, late>> => SlotType'
BY DEF SlotType

\* setup()
LEMMA SetupTypes ==
  /\ Init => TInv
  /\ TInv /\ Restart => TInv'
<1>1. /\ 1 \in 1..(Slots + 1) /\ 0 \in 0..(MinuteUnits - 1) /\ 0 \in 0..MaxAge
      /\ 1 \in 0..MaxBlock /\ Refresh \in 0..Refresh
  BY Positive
<1>2. ASSUME Init
      PROVE  TInv
  <2>1. LoopType
    BY <1>1, <1>2 DEF Init, LoopType
  <2>2. TimeType
    BY <1>1, <1>2 DEF Init, TimeType
  <2>3. AlarmType
    BY <1>1, <1>2 DEF Init, AlarmType
  <2>4. SlotType
    BY <1>2 DEF Init, SlotType
  <2> QED
    BY <2>1, <2>2, <2>3, <2>4 DEF TInv
<1>3. ASSUME TInv, Restart
      PROVE  TInv'
  <2>1. LoopType'
    BY <1>1, <1>3 DEF Restart, AfterSetup, TInv, LoopType
  <2>2. TimeType'
    BY <1>1, <1>3 DEF Restart, AfterSetup, TInv, TimeType
  <2>3. AlarmType'
    BY <1>1, <1>3 DEF Restart, AfterSetup, AlarmType
  <2>4. SlotType'
    BY <1>3 DEF Restart, AfterSetup, SlotType
  <2> QED
    BY <2>1, <2>2, <2>3, <2>4 DEF TInv
<1> QED
  BY <1>2, <1>3

\* displayTick()
LEMMA TickTypes == TInv /\ Tick => TimeType' /\ AlarmType' /\ SlotType'
<1> SUFFICES ASSUME TInv, Tick
             PROVE  TimeType' /\ AlarmType' /\ SlotType'
  OBVIOUS
<1>1. 0 \in 0..MaxBlock /\ 0 \in 0..MaxAge
  BY Positive
<1>2. TimeType'
  <2>1. sinceRead' = sinceRead
    BY DEF Tick, RefreshSensors, readVars
  <2> QED
    BY <1>1, <2>1 DEF Tick, minuteVars, TInv, TimeType
<1>3. AlarmType'
  <2>1. CASE ~clockSet
    BY <2>1, SameAlarms DEF Tick, CheckAlarms, TInv
  <2>2. CASE clockSet
    <3>1. stamp' \in [Alarms -> {"never", "this", "other"}]
      BY <2>2 DEF Tick, CheckAlarms, TInv, AlarmType
    <3>2. ringing' \in SUBSET Alarms
      BY <2>2 DEF Tick, CheckAlarms, TInv, AlarmType, TimeType, Fires
    <3>3. ringAge' \in [Alarms -> 0..MaxAge]
      BY <1>1, <2>2 DEF Tick, CheckAlarms, TInv, AlarmType
    <3>4. \A n \in 0..2 : AtMost(n + 1, 2) \in 0..2
      BY DEF AtMost
    <3>5. fired' \in [Alarms -> 0..2]
      BY <2>2, <3>4 DEF Tick, CheckAlarms, TInv, AlarmType
    <3> QED
      BY <3>1, <3>2, <3>3, <3>5 DEF AlarmType
  <2> QED
    BY <2>1, <2>2
<1>4. SlotType'
  BY DEF Tick, tickerVars, TInv, SlotType
<1> QED
  BY <1>2, <1>3, <1>4

LEMMA LoopTypes == TInv /\ Loop => TInv'
<1> SUFFICES ASSUME TInv, Loop
             PROVE  TInv'
  OBVIOUS
<1>1. 0 \in 0..(MinuteUnits - 1) /\ 1 \in 1..(Slots + 1) /\ Slots \in Nat /\ 0 \in 0..2
  BY Positive
<1>2. CASE TickInLoop
  <2>1. LoopType'
    BY <1>2 DEF TickInLoop, Tick, tickerVars, minuteVars, TInv, LoopType
  <2>2. CASE unticked > 0
    BY <1>2, <2>1, <2>2, TickTypes DEF TickInLoop, TInv
  <2>3. CASE ~(unticked > 0)
    BY <1>2, <2>1, <2>3, SameTime, SameAlarms, SameSlots
       DEF TickInLoop, TInv, readVars, minuteVars, tickerVars
  <2> QED
    BY <2>2, <2>3
<1>3. CASE ServeNothing \/ ServeData \/ UpdateOver \/ Idle
  <2>1. LoopType'
    BY <1>3 DEF ServeNothing, ServeData, UpdateOver, Idle, tickerVars, minuteVars,
                TInv, LoopType
  <2>2. UNCHANGED <<tickerVars, alarmVars, minuteVars, unticked, sinceRead>>
    BY <1>3 DEF ServeNothing, ServeData, UpdateOver, Idle, readVars
  <2> QED
    BY <2>1, <2>2, SameTime, SameAlarms, SameSlots DEF TInv, minuteVars, tickerVars
<1>4. CASE SaveConfig
  <2>1. LoopType'
    BY <1>4 DEF SaveConfig, TInv, LoopType, tickerVars
  <2>2. TimeType'
    BY <1>4 DEF SaveConfig, TInv, TimeType, readVars
  <2>3. AlarmType'
    BY <1>1, <1>4 DEF SaveConfig, TInv, AlarmType
  <2> QED
    BY <1>4, <2>1, <2>2, <2>3, SameSlots DEF SaveConfig, TInv, tickerVars
<1>5. CASE SetTime
  <2>1. LoopType'
    BY <1>5 DEF SetTime, TInv, LoopType, tickerVars
  <2>2. TimeType'
    BY <1>5 DEF SetTime, TInv, TimeType, readVars
  <2>3. AlarmType'
    BY <1>1, <1>5 DEF SetTime, TInv, AlarmType
  <2> QED
    BY <1>5, <2>1, <2>2, <2>3, SameSlots DEF SetTime, TInv, tickerVars
<1>6. CASE DoFlags
  <2>1. LoopType'
    BY <1>1, <1>6 DEF DoFlags, TInv, LoopType, minuteVars
  <2>2. SlotType'
    BY <1>1, <1>6 DEF DoFlags, TInv, SlotType, StopTimers
  <2> QED
    BY <1>6, <2>1, <2>2, SameTime, SameAlarms DEF DoFlags, TInv, minuteVars, readVars
<1>7. CASE RunSlot
  <2>1. LoopType'
    BY <1>7 DEF RunSlot, TInv, LoopType, SlotType, minuteVars
  <2>2. \A n \in 0..2 : AtMost(n + 1, 2) \in 0..2
    BY DEF AtMost
  <2>3. SlotType'
    BY <1>7, <2>2 DEF RunSlot, TInv, SlotType
  <2> QED
    BY <1>7, <2>1, <2>3, SameTime, SameAlarms DEF RunSlot, TInv, minuteVars
<1>8. CASE SkipSlot \/ \E s \in Slot : Send(s)
  <2>1. slot \in Slot /\ slot' = slot + 1 /\ pc' = "update"
        /\ UNCHANGED <<config, stop, start, tickerVars, minuteVars>>
    BY <1>8 DEF SkipSlot, Send, At
  <2>2. slot' \in 1..(Slots + 1)
    BY <1>1, <2>1 DEF Slot
  <2>3. LoopType'
    BY <2>1, <2>2 DEF TInv, LoopType, tickerVars, minuteVars
  <2> QED
    BY <1>8, <2>3, SameTime, SameAlarms, SameSlots
       DEF SkipSlot, Send, TInv, tickerVars, minuteVars, readVars
<1> QED
  BY <1>2, <1>3, <1>4, <1>5, <1>6, <1>7, <1>8 DEF Loop

\* Time and timers, the button, and the end of a read.
LEMMA BesideTypes ==
  TInv /\ (Press \/ Elapse \/ (\E s \in Slot : TimerFires(s))
           \/ (\E depth \in 1..2 : ReadEnds(depth))) => TInv'
<1>1. ASSUME TInv, Press
      PROVE  TInv'
  <2>1. AlarmType'
    BY <1>1 DEF Press, TInv, AlarmType
  <2> QED
    BY <1>1, <2>1, SameLoop, SameTime, SameSlots
       DEF Press, TInv, minuteVars, tickerVars, readVars
<1>2. ASSUME TInv, Elapse
      PROVE  TInv'
  <2>1. /\ \A n \in 0..MaxAge : AtMost(n + 1, MaxAge) \in 0..MaxAge
        /\ \A n \in 0..Refresh : AtMost(n + 1, Refresh) \in 0..Refresh
        /\ \A n \in 0..MaxBlock : n < MaxBlock => n + 1 \in 0..MaxBlock
        /\ \A n \in 0..(MinuteUnits - 1) :
              n # MinuteUnits - 1 => n + 1 \in 0..(MinuteUnits - 1)
        /\ 0 \in 0..(MinuteUnits - 1) /\ 0 \in 0..2
    BY Positive DEF AtMost
  <2>2. LoopType'
    BY <1>2 DEF Elapse, NewMinute, TInv, LoopType, loopVars, tickerVars
  <2>3. TimeType'
    <3>1. sub' \in 0..(MinuteUnits - 1) /\ due' \in SUBSET Alarms
      BY <1>2, <2>1 DEF Elapse, NewMinute, TInv, TimeType
    <3>2. unticked' \in 0..MaxBlock /\ sinceRead' \in 0..Refresh
      BY <1>2, <2>1 DEF Elapse, TInv, TimeType
    <3> QED
      BY <3>1, <3>2 DEF TimeType
  <2>4. AlarmType'
    <3>1. stamp' \in [Alarms -> {"never", "this", "other"}]
      BY <1>2 DEF Elapse, NewMinute, TInv, AlarmType
    <3>2. fired' \in [Alarms -> 0..2]
      BY <1>2, <2>1 DEF Elapse, NewMinute, TInv, AlarmType
    <3>3. ringAge' \in [Alarms -> 0..MaxAge]
      BY <1>2, <2>1 DEF Elapse, TInv, AlarmType
    <3>4. ringing' \in SUBSET Alarms
      BY <1>2 DEF Elapse, TInv, AlarmType
    <3> QED
      BY <3>1, <3>2, <3>3, <3>4 DEF AlarmType
  <2> QED
    BY <1>2, <2>2, <2>3, <2>4, SameSlots DEF Elapse, TInv, tickerVars
<1>3. ASSUME TInv, NEW s \in Slot, TimerFires(s)
      PROVE  TInv'
  <2>1. SlotType'
    BY <1>3 DEF TimerFires, Rearmed, TInv, SlotType
  <2> QED
    BY <1>3, <2>1, SameLoop, SameTime, SameAlarms
       DEF TimerFires, TInv, minuteVars, readVars
<1>4. ASSUME TInv, NEW depth \in 1..2, ReadEnds(depth)
      PROVE  TInv'
  <2>1. 0 \in 0..Refresh
    BY Positive
  <2>2. TimeType'
    BY <1>4, <2>1 DEF ReadEnds, TInv, TimeType, minuteVars
  <2> QED
    BY <1>4, <2>2, SameLoop, SameAlarms, SameSlots
       DEF ReadEnds, TInv, minuteVars, tickerVars
<1> QED
  BY <1>1, <1>2, <1>3, <1>4

LEMMA StepTypes == TInv /\ [Next]_vars => TInv'
<1> SUFFICES ASSUME TInv, [Next]_vars
             PROVE  TInv'
  OBVIOUS
<1>1. CASE TickInRead
  <2>1. LoopType'
    BY <1>1, SameLoop DEF TickInRead, Tick, tickerVars, minuteVars, TInv
  <2> QED
    BY <1>1, <2>1, TickTypes DEF TickInRead, TInv
<1>2. CASE UNCHANGED vars
  BY <1>2, SameLoop, SameTime, SameAlarms, SameSlots
     DEF vars, TInv, loopVars, minuteVars, tickerVars, readVars
<1> QED
  BY <1>1, <1>2, SetupTypes, LoopTypes, BesideTypes DEF Next

LEMMA TypeInvariant == Spec => [](TInv /\ ReadInv)
BY SetupTypes, StepTypes, InitReads, StepReads, PTL DEF Spec

\* The values of the loop's state: no slot beyond the last is served, and no
\* counter leaves its range.
THEOREM DisplayTypes == Spec => []TypeOK
<1>1. TInv /\ ReadInv => TypeOK
  BY DEF TInv, LoopType, TimeType, AlarmType, SlotType, ReadInv, TypeOK
<1> QED
  BY <1>1, TypeInvariant, PTL

----------------------------------------------------------------------------
(* Tickers that were stopped.                                              *)

LEMMA StepStops == TInv /\ StopInv /\ [Next]_vars => StopInv'
<1> SUFFICES ASSUME TInv, StopInv, [Next]_vars
             PROVE  StopInv'
  OBVIOUS
<1>1. timers \in SUBSET Slot /\ flags \in SUBSET Slot /\ late \in [Slot -> 0..2]
      /\ stopped \in BOOLEAN
  BY DEF TInv, SlotType, LoopType
<1>2. CASE DoFlags
  <2>1. CASE stop /\ config
    <3>1. timers' = {} /\ late' = [s \in Slot |-> 0] /\ flags' = flags
      BY <1>2, <2>1 DEF DoFlags, StopTimers
    <3> QED
      BY <1>1, <3>1 DEF StopInv
  <2>2. CASE ~(stop /\ config) /\ start /\ ~config
    <3>1. stopped' = FALSE /\ late' = late
      BY <1>2, <2>2 DEF DoFlags
    <3> QED
      BY <3>1 DEF StopInv
  <2>3. CASE ~(stop /\ config) /\ ~(start /\ ~config)
    <3>1. stopped' = (stopped \/ FALSE) /\ UNCHANGED <<timers, flags, late>>
      BY <1>2, <2>3 DEF DoFlags
    <3> QED
      BY <1>1, <3>1 DEF StopInv
  <2> QED
    BY <2>1, <2>2, <2>3
<1>3. CASE RunSlot
  <2>1. /\ slot \in flags /\ slot \in Slot /\ flags' = flags \ {slot}
        /\ timers' = timers /\ stopped' = stopped
        /\ late' = [late EXCEPT ![slot] = IF stopped THEN AtMost(@ + 1, 2) ELSE @]
    BY <1>1, <1>3 DEF RunSlot
  <2>2. stopped => late'[slot] = 1
    BY <1>1, <2>1 DEF StopInv, AtMost
  <2>3. ~stopped => late' = late
    BY <1>1, <2>1
  <2>4. \A s \in Slot : s # slot => late'[s] = late[s]
    BY <1>1, <2>1
  <2>5. \A s \in Slot : late'[s] <= 1
    BY <1>1, <2>2, <2>3, <2>4 DEF StopInv
  <2>6. stopped => timers' = {} /\ \A s \in flags' : late'[s] = 0
    BY <1>1, <2>1, <2>4 DEF StopInv
  <2> QED
    BY <2>1, <2>5, <2>6 DEF StopInv
<1>4. ASSUME NEW s \in Slot, TimerFires(s)
      PROVE  StopInv'
  <2>1. ~stopped /\ stopped' = stopped /\ late' = late
    BY <1>4 DEF TimerFires, StopInv
  <2> QED
    BY <2>1 DEF StopInv
<1>5. CASE Restart
  BY <1>5 DEF Restart, AfterSetup, StopInv
<1>6. CASE TickInLoop \/ TickInRead \/ ServeNothing \/ ServeData \/ SaveConfig
           \/ SetTime \/ SkipSlot \/ (\E s \in Slot : Send(s)) \/ UpdateOver
           \/ Idle \/ Press \/ Elapse \/ (\E depth \in 1..2 : ReadEnds(depth))
           \/ UNCHANGED vars
  <2>1. UNCHANGED tickerVars
    BY <1>6 DEF TickInLoop, TickInRead, Tick, ServeNothing, ServeData, SaveConfig,
                SetTime, SkipSlot, Send, UpdateOver, Idle, Press, Elapse, ReadEnds,
                vars
  <2> QED
    BY <2>1 DEF tickerVars, StopInv
<1> QED
  BY <1>2, <1>3, <1>4, <1>5, <1>6 DEF Next, Loop

\* Stopping the tickers silences each slot after one more callback at most:
\* DoFlags detaches every timer, and update() clears a flag before it calls back.
THEOREM StoppedTickersFallSilent == Spec => []StoppedFallSilent
<1>1. Init => StopInv
  BY DEF Init, StopInv
<1>2. StopInv => StoppedFallSilent
  BY DEF StopInv, StoppedFallSilent
<1> QED
  BY <1>1, <1>2, StepStops, TypeInvariant, PTL DEF Spec

----------------------------------------------------------------------------
(* Alarms.                                                                 *)

AlarmInv == SeenInv /\ RingInv

LEMMA TickAlarms == TInv /\ AlarmInv /\ Tick => AlarmInv'
<1> SUFFICES ASSUME TInv, AlarmInv, Tick
             PROVE  AlarmInv'
  OBVIOUS
<1>1. /\ UNCHANGED <<clockSet, sub, due, whole>> /\ unticked' = 0 /\ unticked > 0
      /\ stamp \in [Alarms -> {"never", "this", "other"}]
      /\ ringing \in SUBSET Alarms /\ ringAge \in [Alarms -> 0..MaxAge]
      /\ fired \in [Alarms -> 0..2] /\ due \in SUBSET Alarms
      /\ MuteUnits \in Nat /\ MuteUnits > 0 /\ MaxAge \in Nat
      /\ clockSet \in BOOLEAN
  BY Positive DEF Tick, minuteVars, TInv, AlarmType, TimeType, LoopType
<1>2. CASE ~clockSet
  <2>1. UNCHANGED <<stamp, ringing, ringAge, fired>> /\ ringing = {}
    BY <1>2 DEF Tick, CheckAlarms, alarmVars, AlarmInv, RingInv
  <2> QED
    BY <1>1, <1>2, <2>1 DEF AlarmInv, SeenInv, RingInv
<1>3. CASE clockSet
  <2>1. /\ stamp' = [i \in Alarms |-> IF i \in Fires THEN "this" ELSE stamp[i]]
        /\ ringing' = (ringing \union Fires) \ Expired
        /\ ringAge' = [i \in Alarms |-> IF i \in Fires THEN 0 ELSE ringAge[i]]
        /\ fired' = [i \in Alarms |->
                       IF i \in Fires THEN AtMost(fired[i] + 1, 2) ELSE fired[i]]
        /\ Fires = {i \in due : stamp[i] # "this"}
    BY <1>3 DEF Tick, CheckAlarms, Fires
  <2>2. SeenInv'
    BY <1>1, <2>1 DEF SeenInv
  <2>3. \A i \in Alarms : fired'[i] = 0 \/ (fired'[i] = 1 /\ stamp'[i] = "this")
    BY <1>1, <2>1 DEF AlarmInv, RingInv, AtMost
  <2>4. \A i \in ringing' : ringAge'[i] < MuteUnits + unticked'
    <3> SUFFICES ASSUME NEW i \in ringing'
                 PROVE  ringAge'[i] < MuteUnits
      BY <1>1
    <3>1. i \in Alarms /\ ringAge[i] \in 0..MaxAge
      BY <1>1, <2>1
    <3>2. CASE i \in Fires
      BY <1>1, <2>1, <3>1, <3>2
    <3>3. CASE i \notin Fires
      BY <1>1, <2>1, <3>1, <3>3 DEF Expired
    <3> QED
      BY <3>2, <3>3
  <2> QED
    BY <1>1, <1>3, <2>2, <2>3, <2>4 DEF AlarmInv, RingInv
<1> QED
  BY <1>2, <1>3

\* Time: it ages the last tick, the minute and what rings alike.
LEMMA ElapseAlarms == TInv /\ AlarmInv /\ Elapse => AlarmInv'
<1> SUFFICES ASSUME TInv, AlarmInv, Elapse
             PROVE  AlarmInv'
  OBVIOUS
<1>1. /\ unticked \in 0..MaxBlock /\ MaxBlock \in Nat /\ unticked' = unticked + 1
      /\ UNCHANGED <<ringing, clockSet>> /\ sub \in 0..(MinuteUnits - 1)
      /\ MinuteUnits \in Nat /\ MuteUnits \in Nat /\ MaxAge \in Nat
      /\ ringing \in SUBSET Alarms /\ ringAge \in [Alarms -> 0..MaxAge]
  BY Positive DEF Elapse, TInv, TimeType, AlarmType
<1>2. \A i \in ringing : ringAge'[i] < MuteUnits + unticked'
  <2> SUFFICES ASSUME NEW i \in ringing
               PROVE  ringAge'[i] < MuteUnits + unticked + 1
    BY <1>1
  <2>1. ringAge'[i] = AtMost(ringAge[i] + 1, MaxAge) /\ ringAge[i] \in 0..MaxAge
    BY <1>1 DEF Elapse
  <2>2. ringAge[i] < MuteUnits + unticked
    BY DEF AlarmInv, RingInv
  <2> QED
    BY <1>1, <2>1, <2>2 DEF AtMost
<1>3. CASE sub = MinuteUnits - 1
  <2>1. /\ sub' = 0 /\ fired' = [i \in Alarms |-> 0]
    BY <1>3 DEF Elapse, NewMinute
  <2>2. SeenInv'
    BY <1>1, <2>1 DEF SeenInv
  <2> QED
    BY <1>1, <1>2, <2>1, <2>2 DEF AlarmInv, RingInv
<1>4. CASE sub # MinuteUnits - 1
  <2>1. sub' = sub + 1 /\ UNCHANGED <<due, fired, whole, stamp>>
    BY <1>4 DEF Elapse
  <2>2. SeenInv'
    BY <1>1, <2>1 DEF AlarmInv, SeenInv
  <2> QED
    BY <1>1, <1>2, <2>1, <2>2 DEF AlarmInv, RingInv
<1> QED
  BY <1>3, <1>4

LEMMA OtherAlarms ==
  TInv /\ AlarmInv /\ (Press \/ SaveConfig \/ SetTime \/ Restart) => AlarmInv'
<1> SUFFICES ASSUME TInv, AlarmInv, Press \/ SaveConfig \/ SetTime \/ Restart
             PROVE  AlarmInv'
  OBVIOUS
<1>1. /\ MuteUnits \in Nat /\ unticked \in 0..MaxBlock /\ fired \in [Alarms -> 0..2]
      /\ whole \in BOOLEAN
  BY Positive DEF TInv, TimeType, AlarmType, LoopType
<1>2. CASE Press
  <2>1. UNCHANGED <<clockSet, sub, due, whole, unticked, stamp, ringAge, fired>>
        /\ ringing' = {}
    BY <1>2 DEF Press, minuteVars
  <2> QED
    BY <2>1 DEF AlarmInv, SeenInv, RingInv
<1>3. CASE SaveConfig
  <2>1. /\ UNCHANGED <<stamp, ringing, ringAge, clockSet, sub, unticked>>
        /\ fired' = [i \in Alarms |-> IF i \in due' \ due THEN 0 ELSE fired[i]]
        /\ whole' = (whole /\ due' = due)
    BY <1>3 DEF SaveConfig
  <2>2. SeenInv'
    BY <1>1, <2>1 DEF AlarmInv, SeenInv
  <2>3. RingInv'
    BY <1>1, <2>1 DEF AlarmInv, RingInv
  <2> QED
    BY <2>2, <2>3 DEF AlarmInv
<1>4. CASE SetTime
  <2>1. /\ clockSet' = TRUE /\ whole' = FALSE /\ fired' = [i \in Alarms |-> 0]
        /\ UNCHANGED <<ringing, ringAge, unticked>>
    BY <1>4 DEF SetTime
  <2> QED
    BY <2>1 DEF AlarmInv, SeenInv, RingInv
<1>5. CASE Restart
  <2>1. /\ ringing' = {} /\ whole' = FALSE /\ fired' = [i \in Alarms |-> 0]
    BY <1>5 DEF Restart, AfterSetup
  <2> QED
    BY <2>1 DEF AlarmInv, SeenInv, RingInv
<1> QED
  BY <1>2, <1>3, <1>4, <1>5

LEMMA StepAlarms == TInv /\ AlarmInv /\ [Next]_vars => AlarmInv'
<1> SUFFICES ASSUME TInv, AlarmInv, [Next]_vars
             PROVE  AlarmInv'
  OBVIOUS
<1>1. UNCHANGED <<alarmVars, minuteVars, unticked>> => AlarmInv'
  BY DEF alarmVars, minuteVars, AlarmInv, SeenInv, RingInv
<1>2. CASE TickInLoop \/ TickInRead
  BY <1>1, <1>2, TickAlarms DEF TickInLoop, TickInRead
<1>3. CASE ServeNothing \/ ServeData \/ DoFlags \/ RunSlot \/ SkipSlot
           \/ (\E s \in Slot : Send(s)) \/ UpdateOver \/ Idle
           \/ (\E depth \in 1..2 : ReadEnds(depth))
           \/ (\E s \in Slot : TimerFires(s)) \/ UNCHANGED vars
  <2>1. UNCHANGED <<alarmVars, minuteVars, unticked>>
    BY <1>3 DEF ServeNothing, ServeData, DoFlags, RunSlot, SkipSlot, Send, UpdateOver,
                Idle, ReadEnds, TimerFires, vars
  <2> QED
    BY <1>1, <2>1
<1> QED
  BY <1>2, <1>3, ElapseAlarms, OtherAlarms DEF Next, Loop

LEMMA AlarmInvariant == Spec => [](TInv /\ AlarmInv)
<1>1. Init => AlarmInv
  BY DEF Init, AlarmInv, SeenInv, RingInv
<1> QED
  BY <1>1, StepAlarms, SetupTypes, StepTypes, PTL DEF Spec

\* An alarm goes off once in its minute, muted or not, and stops by itself
\* MuteUnits and one loop later at the latest: checkAlarms() stamps what it
\* fires, and stops what it finds ringing too long at every tick.
THEOREM RingingIsBounded == Spec => []RingingEnds
<1>1. TInv /\ AlarmInv => RingingEnds
  <2> SUFFICES ASSUME TInv, AlarmInv, NEW i \in Alarms
               PROVE  /\ fired[i] <= 1
                      /\ clockSet /\ i \in ringing => ringAge[i] <= MuteUnits + MaxBlock
    BY DEF RingingEnds
  <2>1. unticked \in 0..MaxBlock /\ MaxBlock \in Nat /\ MuteUnits \in Nat
        /\ ringAge[i] \in 0..MaxAge /\ MaxAge \in Nat
    BY Positive DEF TInv, TimeType, AlarmType
  <2> QED
    BY <2>1 DEF AlarmInv, RingInv
<1> QED
  BY <1>1, AlarmInvariant, PTL

\* A minute that nothing has disturbed ends with every alarm due in it stamped,
\* or with no tick of the loop in all of it: checkAlarms() runs at every tick and
\* asks for the minute, not for its first second.
THEOREM AlarmsAreSeen == Spec => AlarmSeen
<1>1. ASSUME TInv, AlarmInv, [Next]_vars, sub' # sub, sub = MinuteUnits - 1, whole,
             clockSet, pc' = pc
      PROVE  (\A i \in due : stamp[i] = "this") \/ unticked >= MinuteUnits
  <2>1. unticked \in Nat /\ MinuteUnits \in Nat
    BY <1>1, Positive DEF TInv, TimeType
  <2>2. CASE unticked > sub
    BY <1>1, <2>1, <2>2
  <2>3. CASE ~(unticked > sub)
    BY <1>1, <2>3 DEF AlarmInv, SeenInv
  <2> QED
    BY <2>2, <2>3
<1>2. TInv /\ AlarmInv /\ [Next]_vars =>
        [sub' # sub /\ sub = MinuteUnits - 1 /\ whole /\ clockSet /\ pc' = pc
           => (\A i \in due : stamp[i] = "this") \/ unticked >= MinuteUnits]_vars
  BY <1>1
<1> QED
  BY <1>2, AlarmInvariant, PTL DEF Spec, AlarmSeen
=============================================================================
