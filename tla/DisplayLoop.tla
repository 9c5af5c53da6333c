---------------------------- MODULE DisplayLoop ----------------------------
(***************************************************************************)
(* One loop() of the display board after another: the 1 Hz tick with its   *)
(* alarms, the web server, the ticker slots of the services, and the       *)
(* sensor reads each of these may start.  A read that waits for a DHT      *)
(* calls the tick from inside (sensorWait), so reads may nest.  Time runs  *)
(* beside the loop; no stretch without a tick is longer than MaxBlock.     *)
(***************************************************************************)
EXTENDS Naturals, Sequences

CONSTANTS
  Slots,        \* ticker slots in use, 1..Slots
  Alarms,
  MinuteUnits,  \* units of time in a minute
  MuteUnits,    \* ALARM_AUTO_MUTE_MS
  Refresh,      \* interval of refreshDisplaySensors
  MaxBlock      \* bound: the longest time without a tick; the code sets none,
                \* so it may be longer than a minute

ASSUME ConstantsArePositive ==
  {Slots, MinuteUnits, MuteUnits, Refresh, MaxBlock} \subseteq Nat \ {0}

VARIABLES
  pc, slot,     \* where in loop(), and in ticker.update()
  stack,        \* the sensor reads in progress, the innermost last
  reading,      \* the static of refreshDisplaySensors
  config,       \* config mode
  stop, start,  \* tickerStop and tickerStart, from remote control
  timers,       \* slots whose timer is attached
  flags,        \* slots whose flag is raised
  clockSet,     \* the RTC has a date
  sub,          \* units of the present minute that are over
  due,          \* alarms whose schedule matches the present minute
  stamp,        \* alarmLastFired: "never", "this" minute, or an "other"
  ringing,      \* alarmFired
  ringAge,      \* time since alarmFiredAtMs
  unticked,     \* time since the last tick
  sinceRead,    \* time since lastSensorReadMs
  \* history
  fired,        \* how often alarms have gone off in the present minute
  whole,        \* nothing but the clock has ended or begun this minute
  stopped,      \* disableAll() has been called
  late          \* callbacks run since then

loopVars == <<pc, slot, config, stop, start>>
readVars == <<stack, reading, sinceRead>>
tickerVars == <<timers, flags, stopped, late>>
alarmVars == <<stamp, ringing, ringAge, fired>>
minuteVars == <<clockSet, sub, due, whole>>
vars == <<loopVars, readVars, tickerVars, alarmVars, minuteVars, unticked>>

Slot == 1..Slots
MaxAge == MuteUnits + MaxBlock + 1
Callers == {"display", "web", "ticker"}

TypeOK ==
  /\ pc \in {"tick", "serve", "flags", "update", "send", "idle"}
  /\ slot \in 1..(Slots + 1)
  /\ stack \in Seq(Callers) /\ Len(stack) <= 2
  /\ reading \in BOOLEAN /\ config \in BOOLEAN
  /\ stop \in BOOLEAN /\ start \in BOOLEAN
  /\ timers \in SUBSET Slot /\ flags \in SUBSET Slot
  /\ clockSet \in BOOLEAN /\ sub \in 0..(MinuteUnits - 1)
  /\ due \in SUBSET Alarms
  /\ stamp \in [Alarms -> {"never", "this", "other"}]
  /\ ringing \in SUBSET Alarms /\ ringAge \in [Alarms -> 0..MaxAge]
  /\ unticked \in 0..MaxBlock /\ sinceRead \in 0..Refresh
  /\ fired \in [Alarms -> 0..2] /\ whole \in BOOLEAN
  /\ stopped \in BOOLEAN /\ late \in [Slot -> 0..2]

AtMost(n, bound) == IF n < bound THEN n ELSE bound

----------------------------------------------------------------------------
(* Alarms.                                                                 *)

Fires_SecondZero ==  \* mutant: only a tick at the start of the minute counts
  IF sub = 0 THEN {i \in due : stamp[i] # "this"} ELSE {}
Fires_Unstamped == due  \* mutant: muting leaves no mark

\* alarmDue, for every alarm
Fires == {i \in due : stamp[i] # "this"}

Expired_Never == {}  \* mutant: an alarm rings until someone comes
Expired == {i \in ringing \ Fires : ringAge[i] >= MuteUnits}

\* checkAlarms: fire what is due, then stop what has rung long enough.
CheckAlarms ==
  IF ~clockSet THEN UNCHANGED alarmVars
  ELSE /\ stamp' = [i \in Alarms |-> IF i \in Fires THEN "this" ELSE stamp[i]]
       /\ ringing' = (ringing \union Fires) \ Expired
       /\ ringAge' = [i \in Alarms |-> IF i \in Fires THEN 0 ELSE ringAge[i]]
       /\ fired' = [i \in Alarms |->
                      IF i \in Fires THEN AtMost(fired[i] + 1, 2) ELSE fired[i]]

\* handleDisplayButtons, in every displayTick: the first press only mutes.
\* Without an alarm it turns the page.
Press ==
  /\ pc = "tick" \/ stack # <<>>
  /\ ringing # {}
  /\ ringing' = {}
  /\ UNCHANGED <<loopVars, readVars, tickerVars, minuteVars, unticked, stamp,
                 ringAge, fired>>

----------------------------------------------------------------------------
(* Sensor reads.                                                           *)

Begin(caller) == stack' = Append(stack, caller)

Refreshes_Unguarded == sinceRead >= Refresh  \* mutant: no static
Refreshes == sinceRead >= Refresh /\ ~reading

RefreshSensors ==
  IF Refreshes THEN Begin("display") /\ reading' = TRUE /\ UNCHANGED sinceRead
  ELSE UNCHANGED readVars

\* The 1 Hz part of displayTick; drawing is output.
Tick ==
  /\ unticked > 0 /\ unticked' = 0
  /\ CheckAlarms
  /\ RefreshSensors
  /\ UNCHANGED <<tickerVars, minuteVars>>

\* sensorWait() calls displayTick() again and again; in config mode a DHT is
\* read without waiting.
TickInRead ==
  /\ stack # <<>> /\ ~config
  /\ Tick
  /\ UNCHANGED loopVars

ReadEnds(depth) ==
  /\ Len(stack) = depth
  /\ stack' = SubSeq(stack, 1, Len(stack) - 1)
  /\ reading' = (reading /\ stack[Len(stack)] # "display")
  /\ sinceRead' = 0
  /\ UNCHANGED <<loopVars, tickerVars, alarmVars, minuteVars, unticked>>

----------------------------------------------------------------------------
(* loop(), which stands still while a read is in progress.                 *)

At(label) == stack = <<>> /\ pc = label

TickInLoop ==
  /\ At("tick") /\ pc' = "serve"
  /\ IF unticked > 0 THEN Tick
     ELSE UNCHANGED <<readVars, tickerVars, alarmVars, minuteVars, unticked>>
  /\ UNCHANGED <<slot, config, stop, start>>

\* server.handleClient(), and on to the tickers
ServeNothing ==
  /\ At("serve") /\ pc' = "flags"
  /\ UNCHANGED <<slot, config, stop, start, readVars, tickerVars, alarmVars,
                 minuteVars, unticked>>

ServeData ==
  /\ At("serve") /\ pc' = "flags"
  /\ Begin("web")
  /\ UNCHANGED <<slot, config, stop, start, reading, sinceRead, tickerVars,
                 alarmVars, minuteVars, unticked>>

\* A saved configuration may enter or leave config mode and may move alarms;
\* it leaves the tickers, the ringing and the stamps alone.
SaveConfig ==
  /\ At("serve") /\ pc' = "flags"
  /\ config' \in BOOLEAN /\ due' \in SUBSET Alarms
  /\ fired' = [i \in Alarms |-> IF i \in due' \ due THEN 0 ELSE fired[i]]
  /\ whole' = (whole /\ due' = due)
  /\ UNCHANGED <<slot, stop, start, readVars, tickerVars, stamp, ringing,
                 ringAge, clockSet, sub, unticked>>

\* handleSetTime: any minute, or one an alarm has fired in.
SetTime ==
  /\ At("serve") /\ pc' = "flags"
  /\ clockSet' = TRUE /\ whole' = FALSE /\ fired' = [i \in Alarms |-> 0]
  /\ sub' \in 0..(MinuteUnits - 1) /\ due' \in SUBSET Alarms
  /\ \E again \in SUBSET {i \in Alarms : stamp[i] # "never"} :
       stamp' = [i \in Alarms |-> IF i \in again THEN "this"
                                  ELSE IF stamp[i] = "never" THEN "never"
                                  ELSE "other"]
  /\ UNCHANGED <<slot, config, stop, start, readVars, tickerVars, ringing,
                 ringAge, unticked>>

StopTimers_None == timers  \* mutant: the timers go on
StopTimers == {}

\* disableAll() detaches the timers; a raised flag stays.
DoFlags ==
  /\ At("flags") /\ pc' = "update" /\ slot' = 1
  /\ LET stops == stop /\ config
         starts == start /\ ~config
     IN  /\ stop' = (stop /\ ~stops) /\ start' = (start /\ ~starts)
         /\ timers' = IF starts THEN Slot ELSE IF stops THEN StopTimers ELSE timers
         /\ stopped' = (~starts /\ (stopped \/ stops))
         /\ late' = IF stops THEN [s \in Slot |-> 0] ELSE late
  /\ UNCHANGED <<config, flags, readVars, alarmVars, minuteVars, unticked>>

\* TickerScheduler::update: clear the flag, then call back.
RunSlot ==
  /\ At("update") /\ slot \in flags
  /\ flags' = flags \ {slot}
  /\ late' = [late EXCEPT ![slot] = IF stopped THEN AtMost(@ + 1, 2) ELSE @]
  /\ Begin("ticker")
  /\ pc' = "send"
  /\ UNCHANGED <<slot, config, stop, start, reading, sinceRead, timers, stopped,
                 alarmVars, minuteVars, unticked>>

SkipSlot ==
  /\ At("update") /\ slot \in Slot \ flags
  /\ slot' = slot + 1
  /\ UNCHANGED <<pc, config, stop, start, readVars, tickerVars, alarmVars,
                 minuteVars, unticked>>

\* The rest of the callback.
Send(s) ==
  /\ At("send") /\ slot = s
  /\ pc' = "update" /\ slot' = slot + 1
  /\ UNCHANGED <<config, stop, start, readVars, tickerVars, alarmVars,
                 minuteVars, unticked>>

UpdateOver ==
  /\ At("update") /\ slot = Slots + 1
  /\ pc' = "idle"
  /\ UNCHANGED <<slot, config, stop, start, readVars, tickerVars, alarmVars,
                 minuteVars, unticked>>

\* checkWifi, mqttClient.loop, the idle delay
Idle ==
  /\ At("idle") /\ pc' = "tick"
  /\ UNCHANGED <<slot, config, stop, start, readVars, tickerVars, alarmVars,
                 minuteVars, unticked>>

----------------------------------------------------------------------------
(* Beside the loop.                                                        *)

Rearmed_Once(s) == timers \ {s}  \* mutant: once_ms for attach_ms
Rearmed(s) == timers

TimerFires(s) ==
  /\ s \in timers
  /\ flags' = flags \union {s} /\ timers' = Rearmed(s)
  /\ UNCHANGED <<loopVars, readVars, stopped, late, alarmVars, minuteVars,
                 unticked>>

\* An alarm is due for one minute of a day: not in two that follow each other,
\* and not while it still rings.
NewMinute ==
  /\ sub' = 0 /\ due' \in SUBSET (Alarms \ (due \union ringing))
  /\ fired' = [i \in Alarms |-> 0] /\ whole' = TRUE
  /\ stamp' = [i \in Alarms |-> IF stamp[i] = "this" THEN "other" ELSE stamp[i]]

Elapse ==
  /\ unticked < MaxBlock /\ unticked' = unticked + 1
  /\ IF sub = MinuteUnits - 1 THEN NewMinute
     ELSE sub' = sub + 1 /\ UNCHANGED <<due, fired, whole, stamp>>
  /\ ringAge' = [i \in Alarms |-> AtMost(ringAge[i] + 1, MaxAge)]
  /\ sinceRead' = AtMost(sinceRead + 1, Refresh)
  /\ UNCHANGED <<loopVars, stack, reading, tickerVars, ringing, clockSet>>

\* setup() with services to run: every slot is to fire at once (shouldFireNow),
\* and remote control may have asked for config mode or against it, and may
\* have stored a configuration that says otherwise.
AfterSetup ==
  /\ pc' = "tick" /\ slot' = 1 /\ stack' = <<>> /\ reading' = FALSE
  /\ config' \in BOOLEAN /\ stop' \in BOOLEAN
  /\ start' \in IF stop' THEN {FALSE} ELSE BOOLEAN
  /\ timers' = Slot /\ flags' = Slot
  /\ stamp' = [i \in Alarms |-> "never"] /\ ringing' = {}
  /\ ringAge' = [i \in Alarms |-> 0] /\ fired' = [i \in Alarms |-> 0]
  /\ sinceRead' = Refresh /\ unticked' = 1
  /\ whole' = FALSE /\ stopped' = FALSE /\ late' = [s \in Slot |-> 0]

\* The 10 s press, a request over the network, or any other reset.
Restart ==
  /\ AfterSetup
  /\ UNCHANGED <<clockSet, sub, due>>

Init ==
  /\ pc = "tick" /\ slot = 1 /\ stack = <<>> /\ reading = FALSE
  /\ config \in BOOLEAN /\ stop \in BOOLEAN
  /\ start \in IF stop THEN {FALSE} ELSE BOOLEAN
  /\ timers = Slot /\ flags = Slot
  /\ stamp = [i \in Alarms |-> "never"] /\ ringing = {}
  /\ ringAge = [i \in Alarms |-> 0] /\ fired = [i \in Alarms |-> 0]
  /\ sinceRead = Refresh /\ unticked = 1
  /\ clockSet \in BOOLEAN /\ sub = 0 /\ due = {}
  /\ whole = FALSE /\ stopped = FALSE /\ late = [s \in Slot |-> 0]

Loop == \/ TickInLoop \/ ServeNothing \/ ServeData \/ SaveConfig \/ SetTime
        \/ DoFlags \/ RunSlot \/ SkipSlot \/ (\E s \in Slot : Send(s))
        \/ UpdateOver \/ Idle

Next == \/ Loop \/ TickInRead \/ Press \/ Elapse \/ Restart
        \/ \E depth \in 1..2 : ReadEnds(depth)
        \/ \E s \in Slot : TimerFires(s)

\* The loop goes on and timers fire.  A read waits for a fixed time, which a
\* read inside it may use up but never prolongs again and again.
Spec == Init /\ [][Next]_vars
        /\ WF_vars(Loop)
        /\ \A depth \in 1..2 : SF_vars(ReadEnds(depth))
        /\ \A s \in Slot : WF_vars(TimerFires(s))

----------------------------------------------------------------------------
(* Properties                                                              *)

\* An alarm whose minute has passed undisturbed with the clock running has fired
\* in it, however the ticks fell, unless the loop gave displayTick() no turn in
\* that whole minute.  Nothing in the code prevents that: one update() may run
\* several callbacks, and each of their requests may wait for its timeout.
AlarmSeen ==
  [][sub' # sub /\ sub = MinuteUnits - 1 /\ whole /\ clockSet /\ pc' = pc
       => (\A i \in due : stamp[i] = "this") \/ unticked >= MinuteUnits]_vars

\* An alarm goes off once in its minute, muted or not, and one that nobody
\* mutes stops by itself.
RingingEnds ==
  \A i \in Alarms :
    /\ fired[i] <= 1
    /\ clockSet /\ i \in ringing => ringAge[i] <= MuteUnits + MaxBlock

\* A read that waits draws, and drawing may start a read -- but only inside
\* one that the display has not started itself, so nesting ends there.
NestingBounded ==
  /\ Len(stack) <= 2
  /\ Len(stack) = 2 => stack[1] # "display" /\ stack[2] = "display"

\* Tickers that were stopped fall silent: a flag raised before may cost each
\* service one more run, never two.
StoppedFallSilent == \A s \in Slot : late[s] <= 1

\* A service that was not stopped goes on being served, on a board that is
\* not restarted for ever.
ServicesRun ==
  \/ []<><<Restart>>_vars \/ []<>stopped
  \/ \A s \in Slot : []<><<Send(s)>>_vars
=============================================================================
