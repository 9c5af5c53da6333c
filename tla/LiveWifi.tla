------------------------------ MODULE LiveWifi ------------------------------
(***************************************************************************)
(* checkWifi() and connectToWiFi(): how a live-mode board gets a lost link *)
(* back, one rate-limited attempt per loop pass, and when it restarts      *)
(* instead.  The clock rolls over; the function's statics live until the   *)
(* next reset.                                                             *)
(***************************************************************************)
EXTENDS Clock

CONSTANTS
  RetryInterval,  \* WIFI_RETRY_INTERVAL_MS
  MaxAttempts,    \* WIFI_MAX_ATTEMPTS
  MaxPass         \* bound: the longest loop pass, in ticks

ASSUME ConstantsArePositive ==
  {RetryInterval, MaxAttempts, MaxPass} \subseteq Nat \ {0}
ASSUME ClockHoldsInterval == RetryInterval + MaxPass < ClockRange

VARIABLES
  link,         \* "down", "noaddr" (joined, no address yet) or "up"
  lastAttempt, attempted, attempts,  \* the statics of connectToWiFi()
  stage,           \* in loop(), or restarting
  quiet,        \* real time since the last reconnect, up to the interval
  failures      \* attempts made since the link was last up

liveVars ==
  <<now, link, lastAttempt, attempted, attempts, stage, quiet, failures>>

LiveTypeOK ==
  /\ now \in Ticks /\ lastAttempt \in Ticks
  /\ link \in {"down", "noaddr", "up"}
  /\ attempted \in BOOLEAN /\ attempts \in 0..(MaxAttempts + 1)
  /\ stage \in {"loop", "check", "restart"}
  /\ quiet \in 0..RetryInterval /\ failures \in 0..(MaxAttempts + 1)

----------------------------------------------------------------------------
AtMost(n, bound) == IF n < bound THEN n ELSE bound

\* A loop pass: tickers, MQTT, the idle delay.
LoopPass ==
  /\ stage = "loop"
  /\ \E t \in 1..MaxPass : /\ now' = (now + t) % ClockRange
                           /\ quiet' = AtMost(quiet + t, RetryInterval)
  /\ stage' = "check"
  /\ UNCHANGED <<link, lastAttempt, attempted, attempts, failures>>

\* checkWifi() with a link and an address.
LinkFine ==
  /\ stage = "check"
  /\ link = "up"
  /\ stage' = "loop"
  /\ UNCHANGED <<now, link, lastAttempt, attempted, attempts, quiet, failures>>

\* connectToWiFi() entered without an address: the network is back.
Connected ==
  /\ stage = "check"
  /\ link = "noaddr"
  /\ attempts' = 0
  /\ stage' = "loop"
  /\ UNCHANGED <<now, link, lastAttempt, attempted, quiet, failures>>

TooSoon_Deadline ==  \* mutant: compares with a deadline that wraps
  attempted /\ now < (lastAttempt + RetryInterval) % ClockRange
TooSoon_Once == attempted  \* mutant: never a second attempt
TooSoon == attempted /\ Since(lastAttempt) < RetryInterval

WaitForRetry ==
  /\ stage = "check"
  /\ link = "down" /\ TooSoon
  /\ stage' = "loop"
  /\ UNCHANGED <<now, link, lastAttempt, attempted, attempts, quiet, failures>>

TooMany_OffByOne(n) == n > MaxAttempts + 1  \* mutant
TooMany(n) == n > MaxAttempts

Attempt ==
  /\ stage = "check"
  /\ link = "down" /\ ~TooSoon
  /\ lastAttempt' = now /\ attempted' = TRUE
  /\ attempts' = attempts + 1
  /\ failures' = AtMost(failures + 1, MaxAttempts + 1)
  /\ quiet' = 0
  /\ stage' = IF TooMany(attempts') THEN "restart" ELSE "loop"
  /\ UNCHANGED <<now, link>>

\* ESP.restart(): every static starts over, and so does the clock.  The boot
\* in between is module Device's.
Restarted ==
  /\ stage = "restart"
  /\ now' = 0
  /\ lastAttempt' = 0 /\ attempted' = FALSE /\ attempts' = 0
  /\ quiet' = RetryInterval /\ failures' = 0
  /\ stage' = "loop"
  /\ UNCHANGED link

----------------------------------------------------------------------------
(* The network comes and goes at any moment; only ESP.restart() follows    *)
(* its decision at once.                                                   *)

LinkLost ==
  /\ stage # "restart"
  /\ link # "down" /\ link' = "down"
  /\ UNCHANGED <<now, lastAttempt, attempted, attempts, stage, quiet, failures>>

LinkJoined ==
  /\ stage # "restart"
  /\ link = "down" /\ link' = "noaddr"
  /\ UNCHANGED <<now, lastAttempt, attempted, attempts, stage, quiet, failures>>

LinkUp ==
  /\ stage # "restart"
  /\ link = "noaddr" /\ link' = "up"
  /\ failures' = 0
  /\ UNCHANGED <<now, lastAttempt, attempted, attempts, stage, quiet>>

----------------------------------------------------------------------------
LiveInit ==
  /\ now \in Ticks
  /\ link = "up"
  /\ lastAttempt = 0 /\ attempted = FALSE /\ attempts = 0
  /\ stage = "loop" /\ quiet = RetryInterval /\ failures = 0

Firmware == LoopPass \/ LinkFine \/ Connected \/ WaitForRetry \/ Attempt
            \/ Restarted
Network == LinkLost \/ LinkJoined \/ LinkUp
LiveNext == Firmware \/ Network

LiveSpec == LiveInit /\ [][LiveNext]_liveVars

\* The loop keeps turning.  Nothing is assumed of the network.
LiveFairSpec == LiveSpec /\ WF_liveVars(Firmware)

----------------------------------------------------------------------------
\* Two attempts are never closer together than the retry interval in real
\* time, wherever the clock rolls over in between.
AttemptsSpaced == [][Attempt => quiet = RetryInterval]_liveVars

\* "consecutive failures trigger a reboot": a board restarts only after that
\* many failures in a row, never for drops the link recovered from.  The code
\* adds them up (README, "Where code and words part").
RestartOnlyAfterFailuresInARow == stage = "restart" => failures > MaxAttempts

\* A board whose network stays away does not sit in live mode for ever: it
\* restarts, and its boot has other ways out (sleep and retry, the portal).
GivesUpEventually == <>[](link = "down") => []<>(stage = "restart")
============================================================================
