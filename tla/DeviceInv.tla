----------------------------- MODULE DeviceInv -----------------------------
(***************************************************************************)
(* The inductive invariants behind the safety properties of Device;        *)
(* DeviceProofs proves that they hold.                                     *)
(***************************************************************************)
EXTENDS Device

\* After the first steps of setup() the boot mark is set until the sleep, and
\* a press during that time still finds it.
MarkSetWhileAwake ==
  /\ pc \in Awake \ {"boot", "button"} => bootMark
  /\ pc \in {"boot", "button"} /\ boot.cause = "pressAwake" => bootMark

\* A sleeping board has its mark cleared, and its timer wake finds it so.
MarkClearedBySleep ==
  /\ pc = "asleep" => ~bootMark
  /\ pc \in {"boot", "button"} /\ boot.cause = "timer"
       => ~bootMark /\ boot.reason = "deepsleep"

PressInv == MarkSetWhileAwake /\ SecondPressRecognised
TimerWakeInv == MarkClearedBySleep /\ TimerWakeSkipsWindow

\* An offline configuration in RAM is the one in flash.
OfflineStored == dev.offlineMode => flash \in Config /\ flash.offlineMode

\* The radio is only ever off on a board whose stored configuration takes
\* the next boot back to offline mode, or to the restart guard.
RadioOffIsOffline ==
  /\ ram.eeprom => LogModule
  /\ pc = "asleep" /\ sleepRf = "disabled"
       => ~Display /\ LogModule /\ flash \in Config /\ flash.offlineMode
  /\ boot.rfOff /\ pc \in Awake
       => /\ ~Display /\ LogModule /\ boot.reason = "deepsleep"
          /\ pc \in {"boot", "button", "window", "guard", "loop"}
          /\ pc = "boot" => flash \in Config /\ flash.offlineMode
          /\ pc \in {"button", "window", "guard", "loop"} => dev.offlineMode
          /\ pc = "loop" => Mode = "Offline"

RadioInv == OfflineStored /\ RadioOffIsOffline

\* The web UI setup() started is the one the loop serves.  On a battery board
\* config mode comes from the boot, with its soft-AP; a display board brings
\* the UI up on every boot but an offline one, which never reaches WiFi.
UiInv ==
  /\ ~Display /\ ~RuntimeConfig /\ pc \in {"remote", "loop"} /\ dev.configMode
       => ram.web /\ ram.ap
  /\ Display /\ pc \in {"wifi", "portal", "services"}
       => dev.configMode \/ ~dev.offlineMode
  /\ Display /\ pc = "remote" => ram.web
  /\ Display /\ pc = "loop" => ram.web \/ (dev.offlineMode /\ ~dev.configMode)

\* A board that is never told to go offline spends a portal request on the
\* boot it asked for.
NeverOffline == ~dev.offlineMode /\ (flash \in Config => ~flash.offlineMode)
PortalInv == NeverOffline /\ PortalRequestOneBoot

----------------------------------------------------------------------------
(* Device seen as a DutyCycle.                                             *)

Phase ==
  CASE pc \in {"off", "asleep"}             -> pc
    [] pc \in Setup                         -> "starting"
    [] pc = "loop" /\ Mode = "Config"       -> "configuring"
    [] pc = "loop" /\ Mode \in {"Offline", "OfflineLive"} -> "offline"
    [] OTHER                                -> "online"

Radio == IF pc \in Awake /\ boot.rfOff THEN "cold" ELSE "ready"

Duty == INSTANCE DutyCycle WITH phase <- Phase, radio <- Radio

\* A battery board that nobody configures at run time goes through its
\* phases as DutyCycle allows: whatever setup() and loop() each make of the
\* configuration, config mode is entered by a boot and never left for sleep,
\* and a board with a cold radio stays off the network.
FollowsDutyCycle == Duty!Spec
============================================================================
