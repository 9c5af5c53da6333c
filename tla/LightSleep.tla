----------------------------- MODULE LightSleep -----------------------------
(***************************************************************************)
(* startLightSleep(): one interval slept in chunks the SDK may refuse or   *)
(* cut short, on a millisecond clock that rolls over, and the wait for the *)
(* WiFi link afterwards.  Time passes inside the calls that block; reading *)
(* the clock, deciding and re-reading it takes no time in this model.  A   *)
(* delay() arms a timer and yields once, so an event may release it early. *)
(***************************************************************************)
EXTENDS Clock

CONSTANTS
  Target,           \* the interval asked for, in ticks
  MaxChunk,         \* FPM_MAX_SLEEP_MS
  ShortReturn,      \* SLEEP_SHORT_RETURN_MS
  MaxRefusals,      \* SLEEP_MAX_REFUSALS
  MaxShortReturns,  \* SLEEP_MAX_SHORT_RETURNS
  RetryDelay,       \* FPM_RETRY_MS
  NudgeAfter,       \* the link is nudged once after this long
  LinkTimeout       \* LIGHT_SLEEP_RECONNECT_TIMEOUT_MS

ASSUME TimesArePositive ==
  /\ {Target, MaxChunk, ShortReturn, MaxRefusals, MaxShortReturns,
      RetryDelay, NudgeAfter, LinkTimeout} \subseteq Nat \ {0}
  /\ NudgeAfter < LinkTimeout
\* An interval and a chunk fit the clock with room to spare.
ASSUME ClockHoldsSleep ==
  Target + MaxChunk + RetryDelay + LinkTimeout + 2 < ClockRange

VARIABLES
  place,      \* where startLightSleep() is
  mark,       \* sleepStart, then the start of the wait for the link
  judge,      \* mode_logic::SleepJudge
  wait,       \* what the delay() that is due next was asked to wait
  refused,    \* what wifi_fpm_do_sleep() answered
  spent,      \* time really gone since sleepStart
  linked,     \* the association is up
  nudged      \* WiFi.reconnect() has been called

sleepVars == <<now, place, mark, judge, wait, refused, spent, linked, nudged>>

Places == {"awake", "loop", "asleep", "judge", "backoff", "waitout", "wake",
           "reconnect", "done"}

SleepTypeOK ==
  /\ now \in Ticks /\ mark \in Ticks
  /\ place \in Places
  /\ judge \in [refusals : 0..MaxRefusals, shortReturns : 0..MaxShortReturns]
  /\ wait \in Ticks
  /\ refused \in BOOLEAN /\ linked \in BOOLEAN /\ nudged \in BOOLEAN
  /\ spent \in Nat

----------------------------------------------------------------------------
Elapsed == Since(mark)

Pass(t) == now' = (now + t) % ClockRange /\ spent' = spent + t

\* delay(ms) on this core: it may be released early, at once even.
Delay(ms) == \E t \in 0..ms : Pass(t) /\ wait' = t

NewJudge == [refusals |-> 0, shortReturns |-> 0]

Start ==
  /\ place = "awake"
  /\ place' = "loop"
  /\ mark' = now
  /\ judge' = NewJudge
  /\ spent' = 0
  /\ linked' = FALSE /\ nudged' = FALSE
  /\ UNCHANGED <<now, wait, refused>>

Left == Minus(Target, Elapsed)
Chunk_Whole == Left  \* mutant: not split
Chunk == IF Left > MaxChunk THEN MaxChunk ELSE Left

IntervalSpent_Deadline == now >= (mark + Target) % ClockRange  \* mutant
IntervalSpent == Elapsed >= Target

\* The SDK takes the chunk or refuses it.
AskSleep ==
  /\ place = "loop"
  /\ ~IntervalSpent
  /\ refused' \in BOOLEAN
  /\ wait' = IF refused' THEN 0 ELSE Chunk + 1
  /\ place' = IF refused' THEN "judge" ELSE "asleep"
  /\ UNCHANGED <<now, mark, judge, spent, linked, nudged>>

ReturnFromSleep ==
  /\ place = "asleep"
  /\ Delay(wait)
  /\ place' = "judge"
  /\ UNCHANGED <<mark, judge, refused, linked, nudged>>

CountUp_Fresh(n) == 1  \* mutant: a new judge for every chunk
CountUp(n) == n + 1
LastStraw(n, limit) == n >= limit

\* mode_logic::judgeSleepChunk(), told how long the chunk took.
Judge(j, isRefused, elapsed) ==
  IF isRefused THEN
    LET n == CountUp(j.refusals)
    IN  [judge   |-> [j EXCEPT !.refusals = n],
         verdict |-> IF LastStraw(n, MaxRefusals) THEN "AbandonRefused"
                     ELSE "RetryRefused"]
  ELSE IF elapsed < ShortReturn THEN
    LET n == CountUp(j.shortReturns)
    IN  [judge   |-> [j EXCEPT !.shortReturns = n],
         verdict |-> IF LastStraw(n, MaxShortReturns) THEN "AbandonBouncing"
                     ELSE "Continue"]
  ELSE [judge |-> j, verdict |-> "Continue"]

\* Giving up on the SDK: the rest of the interval is waited out awake.
RestOfInterval == Minus(Target, Elapsed)

JudgeChunk ==
  /\ place = "judge"
  /\ LET j == Judge(judge, refused, wait)
     IN  /\ judge' = j.judge
         /\ CASE j.verdict = "Continue" -> place' = "loop" /\ wait' = 0
              [] j.verdict = "RetryRefused" ->
                   place' = "backoff" /\ wait' = RetryDelay
              [] OTHER -> place' = "waitout" /\ wait' = RestOfInterval
  /\ UNCHANGED <<now, mark, refused, spent, linked, nudged>>

BackOff ==
  /\ place = "backoff"
  /\ Delay(wait)
  /\ place' = "loop"
  /\ UNCHANGED <<mark, judge, refused, linked, nudged>>

WaitOut ==
  /\ place = "waitout"
  /\ Delay(wait)
  /\ place' = "wake"
  /\ UNCHANGED <<mark, judge, refused, linked, nudged>>

IntervalOver ==
  /\ place = "loop"
  /\ IntervalSpent
  /\ place' = "wake"
  /\ UNCHANGED <<now, mark, judge, wait, refused, spent, linked, nudged>>

----------------------------------------------------------------------------
(* Waking up: station mode again, and a bounded wait for the link.         *)

WakeUp ==
  /\ place = "wake"
  /\ place' = "reconnect"
  /\ mark' = now
  /\ UNCHANGED <<now, judge, wait, refused, spent, linked, nudged>>

\* One pass of the waiting loop: WiFi.reconnect() once if it takes long.
PollLink ==
  /\ place = "reconnect"
  /\ ~linked /\ Elapsed < LinkTimeout
  /\ nudged' = (nudged \/ Elapsed > NudgeAfter)
  /\ Pass(1)
  /\ UNCHANGED <<place, mark, judge, wait, refused, linked>>

Associated ==
  /\ place = "reconnect"
  /\ ~linked
  /\ linked' = TRUE
  /\ UNCHANGED <<now, place, mark, judge, wait, refused, spent, nudged>>

\* Back to the caller, which serves data, with or without the link.
Return ==
  /\ place = "reconnect"
  /\ linked \/ Elapsed >= LinkTimeout
  /\ place' = "done"
  /\ UNCHANGED <<now, mark, judge, wait, refused, spent, linked, nudged>>

\* The next cycle measures and sleeps again; the clock has gone on.
NextCycle ==
  /\ place = "done"
  /\ place' = "awake"
  /\ now' \in Ticks
  /\ mark' = 0 /\ judge' = NewJudge /\ wait' = 0 /\ refused' = FALSE
  /\ spent' = 0 /\ linked' = FALSE /\ nudged' = FALSE

----------------------------------------------------------------------------
SleepInit ==
  /\ now \in Ticks /\ mark = 0
  /\ place = "awake"
  /\ judge = NewJudge /\ wait = 0 /\ refused = FALSE
  /\ spent = 0 /\ linked = FALSE /\ nudged = FALSE

Sleeping == Start \/ AskSleep \/ ReturnFromSleep \/ JudgeChunk \/ BackOff
            \/ WaitOut \/ IntervalOver \/ WakeUp \/ PollLink \/ Return

SleepNext == Sleeping \/ Associated \/ NextCycle

SleepSpec == SleepInit /\ [][SleepNext]_sleepVars

\* The CPU runs; how long the SDK sleeps is its own business.
SleepFairSpec == SleepSpec /\ WF_sleepVars(Sleeping)

----------------------------------------------------------------------------
Over == place \in {"wake", "reconnect", "done"}
Abandoned == \/ judge.refusals = MaxRefusals
             \/ judge.shortReturns = MaxShortReturns

\* While the judge has not given up on the SDK, refusals and early releases
\* never cut the interval short, wherever the clock rolls over: the caller
\* serves no more often than it was configured to.
NeverEarly == Over /\ ~Abandoned => spent >= Target

\* What is asked of the SDK never reaches past the interval.
ChunkFits ==
  place = "asleep" => wait <= MaxChunk + 1 /\ spent + wait <= Target + 1

\* Both: the interval is the one the caller asked for.
IntervalKept == NeverEarly /\ ChunkFits

\* The wait after giving up keeps "the reporting interval honest": it is for
\* what is left of the interval, so it is never longer than the interval.
WaitOutFits == place = "waitout" => wait <= Target

\* A sleep that was started comes to an end.
SleepEnds == place = "loop" ~> place = "done"
============================================================================
