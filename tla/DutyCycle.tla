------------------------------ MODULE DutyCycle ------------------------------
(***************************************************************************)
(* What a battery board promises, seen from outside: it is off, asleep,    *)
(* starting, being configured, or at work with or without the network.     *)
(* What it does is settled by a boot; the only change without one is that  *)
(* a configuration saved in config mode takes it to work.  A board whose   *)
(* radio came up cold works without the network until it starts again.     *)
(* Module Device implements this (FollowsDutyCycle in DeviceInv).          *)
(***************************************************************************)

VARIABLES
  phase,  \* what the board is doing
  radio   \* "cold": not usable before another reset

vars == <<phase, radio>>

AtWork == {"online", "offline"}
Awake == AtWork \union {"starting", "configuring"}

TypeOK == /\ phase \in Awake \union {"off", "asleep"}
          /\ radio \in {"ready", "cold"}

Init == phase = "off" /\ radio = "ready"

PowerOn ==
  /\ phase = "off" /\ phase' = "starting"
  /\ UNCHANGED radio

PowerOff == phase' = "off" /\ radio' = "ready"

\* The timer or the RESET button; only this can find the radio cold.
Wake ==
  /\ phase = "asleep" /\ phase' = "starting"
  /\ radio' \in {"ready", "cold"}

\* A boot comes to its end.
Settle ==
  /\ phase = "starting"
  /\ \/ phase' = "offline"
     \/ phase' \in {"online", "configuring"} /\ radio = "ready"
  /\ UNCHANGED radio

\* No network: sleep on it and try again.
GiveUp ==
  /\ phase = "starting" /\ radio = "ready"
  /\ phase' = "asleep"
  /\ UNCHANGED radio

\* Any reset of a board that is awake.
Restart ==
  /\ phase \in Awake
  /\ phase' = "starting" /\ radio' = "ready"

\* Config mode is never left for sleep, and never entered but by a boot.
Reconfigure ==
  /\ phase = "configuring"
  /\ phase' \in AtWork
  /\ UNCHANGED radio

Rest ==
  /\ phase \in AtWork
  /\ phase' = "asleep" /\ radio' = "ready"

Next == PowerOn \/ PowerOff \/ Wake \/ Settle \/ GiveUp \/ Restart
        \/ Reconfigure \/ Rest

Spec == Init /\ [][Next]_vars
==============================================================================
