--------------------------- MODULE DutyCycleProofs ---------------------------
(***************************************************************************)
(* Module Device implements module DutyCycle: every step of a battery      *)
(* board that nobody configures at run time is a step of the duty cycle or *)
(* leaves phase and radio as they are.                                     *)
(***************************************************************************)
EXTENDS DeviceProofs

(* The phases, place by place.                                             *)

LEMMA PhaseOutsideLoop ==
  /\ pc = "off" => Phase = "off" /\ Radio = "ready"
  /\ pc = "asleep" => Phase = "asleep" /\ Radio = "ready"
  /\ pc \in Setup => Phase = "starting"
BY DEF Phase, Radio, Setup, Awake

LEMMA PhaseInLoop ==
  ASSUME pc = "loop"
  PROVE  /\ Mode = "Config" => Phase = "configuring"
         /\ Mode \in {"Offline", "OfflineLive"} => Phase = "offline"
         /\ Mode \in {"DeepSleep", "LightSleep", "Live"} => Phase = "online"
<1>1. pc \notin {"off", "asleep"} /\ pc \notin Setup
  BY DEF Setup
<1> QED BY <1>1 DEF Phase

LEMMA ModeType == ASSUME TypeOK PROVE Mode \in Modes
BY DEF Mode, CurrentMode, Modes

LEMMA RadioType == Radio \in {"ready", "cold"} /\ (~boot.rfOff => Radio = "ready")
BY DEF Radio

----------------------------------------------------------------------------
(* The shapes a step can have.                                             *)

\* One step of setup() to the next.
LEMMA SetupStays ==
  ASSUME pc \in Setup, pc' \in Setup, boot'.rfOff = boot.rfOff
  PROVE  UNCHANGED Duty!vars
<1>1. Phase = "starting" /\ Phase' = "starting"
  BY PhaseOutsideLoop DEF Phase, Setup
<1>2. Radio' = Radio
  BY DEF Radio, Awake
<1> QED BY <1>1, <1>2 DEF Duty!vars

\* A step of the loop that changes no mode.
LEMMA LoopStays ==
  ASSUME pc = "loop", pc' = "loop", Mode' = Mode, boot' = boot
  PROVE  UNCHANGED Duty!vars
<1>1. Phase' = Phase
  BY DEF Phase
<1>2. Radio' = Radio
  BY DEF Radio
<1> QED BY <1>1, <1>2 DEF Duty!vars

\* A reset of a board that is awake, and one that ends a sleep.
LEMMA ResetIsStep ==
  ASSUME TypeOK, NEW cause, NEW reason, Reboot(cause, reason)
  PROVE  Duty!Next
<1>1. pc' = "boot" /\ boot'.rfOff = (pc = "asleep" /\ reason = "deepsleep"
                                                   /\ sleepRf = "disabled")
  BY DEF Reboot
<1>2. Phase' = "starting" /\ Radio' \in {"ready", "cold"}
  BY <1>1 DEF Phase, Radio, Setup, Awake
<1>3. pc # "asleep" => Radio' = "ready"
  BY <1>1 DEF Radio
<1>4. CASE pc = "off"
  BY <1>2, <1>3, <1>4, PhaseOutsideLoop DEF Duty!Next, Duty!PowerOn
<1>5. CASE pc = "asleep"
  BY <1>2, <1>5, PhaseOutsideLoop DEF Duty!Next, Duty!Wake
<1>6. CASE pc \in Awake
  <2>1. Phase \in Duty!Awake
    <3>1. CASE pc \in Setup
      BY <3>1, PhaseOutsideLoop DEF Duty!Awake
    <3>2. CASE pc = "loop"
      BY <3>2, PhaseInLoop, ModeType DEF Modes, Duty!Awake, Duty!AtWork
    <3> QED BY <1>6, <3>1, <3>2 DEF Awake
  <2>2. Radio' = "ready"
    BY <1>3, <1>6 DEF Awake, Setup
  <2> QED BY <1>2, <2>1, <2>2 DEF Duty!Next, Duty!Restart
<1> QED BY <1>4, <1>5, <1>6 DEF TypeOK

LEMMA RestartIsStep ==
  ASSUME TypeOK, Restart
  PROVE  Duty!Next
BY ResetIsStep DEF Restart

LEMMA PowerLossIsStep ==
  ASSUME LosePower
  PROVE  Duty!Next
<1>1. pc' = "off"
  BY DEF LosePower
<1>2. Phase' = "off" /\ Radio' = "ready"
  BY <1>1 DEF Phase, Radio, Setup, Awake
<1> QED BY <1>2 DEF Duty!Next, Duty!PowerOff

\* setup() is over: into the loop, off the network when the radio is cold.
LEMMA SettleIsStep ==
  ASSUME pc \in Setup, pc' = "loop", boot' = boot, Mode' \in Modes,
         boot.rfOff \in BOOLEAN, boot.rfOff => Mode' = "Offline"
  PROVE  Duty!Next
<1>1. Phase = "starting"
  BY PhaseOutsideLoop
<1>2. Phase' = CASE Mode' = "Config" -> "configuring"
                 [] Mode' \in {"Offline", "OfflineLive"} -> "offline"
                 [] OTHER -> "online"
  BY DEF Phase, Setup
<1>3. Radio' = Radio /\ (Radio = "ready" \/ boot.rfOff)
  BY DEF Radio, Awake
<1>4. CASE Mode' \in {"Offline", "OfflineLive"}
  BY <1>1, <1>2, <1>3, <1>4 DEF Duty!Next, Duty!Settle
<1>5. CASE Mode' \notin {"Offline", "OfflineLive"}
  <2>1. Phase' \in {"online", "configuring"} /\ Radio = "ready"
    BY <1>2, <1>3, <1>5
  <2> QED BY <1>1, <1>3, <2>1 DEF Duty!Next, Duty!Settle
<1> QED BY <1>4, <1>5

\* Into deep sleep, out of the loop or out of a setup() without a network.
LEMMA SleepIsStep ==
  ASSUME pc' = "asleep",
         \/ pc = "loop" /\ Mode \in {"Offline", "DeepSleep"}
         \/ pc \in Setup /\ ~boot.rfOff
  PROVE  Duty!Next
<1>1. Phase' = "asleep" /\ Radio' = "ready"
  BY DEF Phase, Radio, Setup, Awake
<1>2. CASE pc = "loop" /\ Mode \in {"Offline", "DeepSleep"}
  BY <1>1, <1>2, PhaseInLoop DEF Duty!Next, Duty!Rest, Duty!AtWork
<1>3. CASE pc \in Setup /\ ~boot.rfOff
  BY <1>1, <1>3, PhaseOutsideLoop, RadioType DEF Duty!Next, Duty!GiveUp
<1> QED BY <1>2, <1>3

\* A configuration that arrives in config mode and is not restarted on.
LEMMA ReconfigureIsStep ==
  ASSUME pc = "loop", pc' = "loop", Mode = "Config", Mode' \in Modes,
         boot' = boot
  PROVE  Duty!Next \/ UNCHANGED Duty!vars
<1>1. Phase = "configuring"
  BY PhaseInLoop
<1>2. Phase' \in {"configuring", "offline", "online"}
  BY DEF Phase, Setup
<1>3. Radio' = Radio
  BY DEF Radio
<1> QED BY <1>1, <1>2, <1>3
        DEF Duty!Next, Duty!Reconfigure, Duty!AtWork, Duty!vars

----------------------------------------------------------------------------
\* Every step of a battery board is a step of the duty cycle, or none.
LEMMA DeviceStep ==
  ASSUME ~Display, ~RuntimeConfig,
         TypeOK, TypeOK', RadioInv, RadioInv', [Next]_vars
  PROVE  Duty!Next \/ UNCHANGED Duty!vars
<1> USE DEF stored, rtc, env
<1>1. CASE PowerOn
  BY <1>1, ResetIsStep DEF PowerOn
<1>2. CASE PowerCut
  BY <1>2, PowerLossIsStep DEF PowerCut
<1>3. CASE PowerCutDuringSave
  BY <1>3, PowerLossIsStep DEF PowerCutDuringSave
<1>4. CASE TimerWake
  BY <1>4, ResetIsStep DEF TimerWake
<1>5. CASE ResetPress
  BY <1>5, ResetIsStep DEF ResetPress
<1>6. CASE MountConfig
  BY <1>6, SetupStays DEF MountConfig, Setup
<1>7. CASE ReadBootMark
  <2>1. boot'.rfOff = boot.rfOff
    BY <1>7 DEF ReadBootMark, TypeOK, BootInfo
  <2> QED BY <1>7, <2>1, SetupStays DEF ReadBootMark, Setup
<1>8. CASE NoPress
  BY <1>8, SetupStays DEF NoPress, Setup
<1>9. CASE PressMode
  BY <1>9, SetupStays DEF PressMode, Setup
<1>10. CASE FactoryReset
  BY <1>10, RestartIsStep DEF FactoryReset
<1>11. CASE RestartForRadio
  BY <1>11, RestartIsStep DEF RestartForRadio
<1>12. CASE BootOffline
  <2>1. Mode' = "Offline"
    <3>1. PICK eeprom \in Probe :
            /\ StaysOffline(eeprom)
            /\ ram' = [ram EXCEPT !.eeprom = eeprom,
                                  !.tick = IF Display THEN "running" ELSE @]
      BY <1>12 DEF BootOffline
    <3>2. ram'.eeprom = eeprom
      BY <3>1 DEF TypeOK, RamState
    <3>3. Mode' \in {"Offline", "OfflineLive"}
      BY <1>12, <3>1, <3>2 DEF BootOffline, StaysOffline, Mode
    <3> QED BY <3>3 DEF Mode, CurrentMode
  <2>2. Mode' \in Modes /\ boot.rfOff \in BOOLEAN
    BY <2>1 DEF Modes, TypeOK, BootInfo
  <2> QED BY <1>12, <2>1, <2>2, SettleIsStep DEF BootOffline, Setup
<1>13. CASE BootOnline
  BY <1>13, SetupStays DEF BootOnline, Setup
<1>14. CASE OpenRequestedPortal
  BY <1>14, SetupStays DEF OpenRequestedPortal, Setup
<1>15. CASE FastConnect
  BY <1>15, SetupStays DEF FastConnect, Setup
<1>16. CASE AutoConnect
  BY <1>16, SetupStays DEF AutoConnect, Setup
<1>17. CASE OpenPortal
  BY <1>17, SetupStays DEF OpenPortal, Setup
<1>18. CASE SleepAndRetry
  <2>1. ~boot.rfOff /\ pc \in Setup
    BY <1>18, NetworkHasRadio DEF SleepAndRetry, Setup
  <2>2. CASE CanDeepSleep
    BY <1>18, <2>1, <2>2, SleepIsStep DEF SleepAndRetry, DeepSleep
  <2>3. CASE ~CanDeepSleep
    BY <1>18, <2>1, <2>3, SetupStays DEF SleepAndRetry, DeepSleep, Setup
  <2> QED BY <2>2, <2>3
<1>19. CASE PortalSave
  BY <1>19, SetupStays DEF PortalSave, Setup
<1>20. CASE PortalEnds
  BY <1>20, SetupStays DEF PortalEnds, Setup
<1>21. CASE StartServices
  BY <1>21, SetupStays DEF StartServices, Setup
<1>22. CASE FinishSetup
  <2>1. ~boot.rfOff /\ boot.rfOff \in BOOLEAN
    BY <1>22, NetworkHasRadio DEF FinishSetup, TypeOK, BootInfo
  <2>2. Mode' \in Modes
    BY DEF Mode, CurrentMode, Modes
  <2> QED BY <1>22, <2>1, <2>2, SettleIsStep DEF FinishSetup, Setup
<1>23. CASE LoopOffline
  <2>1. CASE CanDeepSleep
    BY <1>23, <2>1, SleepIsStep DEF LoopOffline, InLoop, DeepSleep
  <2>2. CASE ~CanDeepSleep
    BY <1>23, <2>2, SameMode, LoopStays DEF LoopOffline, InLoop, DeepSleep
  <2> QED BY <2>1, <2>2
<1>24. CASE LoopDeepSleep
  <2>1. CASE CanDeepSleep
    BY <1>24, <2>1, SleepIsStep DEF LoopDeepSleep, InLoop, DeepSleep
  <2>2. CASE ~CanDeepSleep
    BY <1>24, <2>2, SameMode, LoopStays DEF LoopDeepSleep, InLoop, DeepSleep
  <2> QED BY <2>1, <2>2
<1>25. CASE LoopLightSleep
  <2>1. ram'.eeprom = ram.eeprom
    BY <1>25 DEF LoopLightSleep, TypeOK, RamState
  <2> QED BY <1>25, <2>1, SameMode, LoopStays DEF LoopLightSleep, InLoop
<1>26. CASE StopTickers
  <2>1. ram'.eeprom = ram.eeprom
    BY <1>26 DEF StopTickers, TypeOK, RamState
  <2> QED BY <1>26, <2>1, SameMode, LoopStays DEF StopTickers
<1>27. CASE StartTickers
  <2>1. ram'.eeprom = ram.eeprom
    BY <1>27 DEF StartTickers, TypeOK, RamState
  <2> QED BY <1>27, <2>1, SameMode, LoopStays DEF StartTickers
<1>28. ASSUME NEW c \in Choices, NEW reboot \in BOOLEAN, WebSave(c, reboot)
       PROVE  Duty!Next \/ UNCHANGED Duty!vars
  <2>1. pc = "loop" /\ Mode = "Config"
    BY <1>28 DEF WebSave, WebReached, InLoop
  <2>2. Restart \/ UNCHANGED <<pc, boot>>
    BY <1>28 DEF WebSave
  <2>3. Mode' \in Modes
    BY DEF Mode, CurrentMode, Modes
  <2> QED BY <2>1, <2>2, <2>3, RestartIsStep, ReconfigureIsStep
<1>29. ASSUME NEW c \in Choices, NEW reboot \in BOOLEAN, WebSocketSave(c, reboot)
       PROVE  Duty!Next \/ UNCHANGED Duty!vars
  <2>1. pc = "loop" /\ Mode = "Config"
    BY <1>29 DEF WebSocketSave, WebReached, InLoop
  <2>2. Restart \/ (pc' = "loop" /\ boot' = boot)
    BY <1>29 DEF WebSocketSave, SetConfig
  <2>3. Mode' \in Modes
    BY DEF Mode, CurrentMode, Modes
  <2> QED BY <2>1, <2>2, <2>3, RestartIsStep, ReconfigureIsStep
<1>30. CASE WebPortalRequest
  BY <1>30, RestartIsStep DEF WebPortalRequest
<1>31. CASE WebUpdate
  BY <1>31, RestartIsStep DEF WebUpdate
<1>32. ASSUME NEW mode \in {"on", "off"}, RemoteConfigMode(mode)
       PROVE  FALSE
  BY <1>32 DEF RemoteConfigMode, FetchesRemote
<1>33. ASSUME NEW mode \in {"keep", "on", "off"}, NEW c \in Choices,
              NEW reboot \in BOOLEAN, RemoteSetConfig(mode, c, reboot)
       PROVE  FALSE
  BY <1>33 DEF RemoteSetConfig, FetchesRemote
<1>34. ASSUME NEW c \in Choices, NEW reboot \in BOOLEAN, MqttSetConfig(c, reboot)
       PROVE  FALSE
  BY <1>34 DEF MqttSetConfig
<1>35. CASE ToggleOffline
  BY <1>35 DEF ToggleOffline
<1>36. CASE CheckWifi
  <2>1. CASE TooManyAttempts
    BY <1>36, <2>1, RestartIsStep DEF CheckWifi, GiveUp
  <2>2. CASE ~TooManyAttempts
    <3>1. ram'.eeprom = ram.eeprom
      BY <1>36, <2>2 DEF CheckWifi, TypeOK, RamState
    <3> QED BY <1>36, <2>2, <3>1, SameMode, LoopStays DEF CheckWifi, InLoop
  <2> QED BY <2>1, <2>2
<1>37. CASE NetDown
  <2>1. ram'.eeprom = ram.eeprom /\ UNCHANGED <<pc, boot, dev>>
    BY <1>37 DEF NetDown, TypeOK, RamState
  <2> QED BY <2>1, SameMode DEF Duty!vars, Phase, Radio
<1>38. CASE NetUp
  <2>1. ram'.eeprom = ram.eeprom /\ UNCHANGED <<pc, boot, dev>>
    BY <1>38 DEF NetUp
  <2> QED BY <2>1, SameMode DEF Duty!vars, Phase, Radio
<1>39. CASE SdkReconnect
  <2>1. ram'.eeprom = ram.eeprom
    BY <1>39 DEF SdkReconnect, TypeOK, RamState
  <2> QED BY <1>39, <2>1, SameMode, LoopStays DEF SdkReconnect, InLoop
<1>40. CASE UNCHANGED vars
  <2>1. ram'.eeprom = ram.eeprom /\ UNCHANGED <<pc, boot, dev>>
    BY <1>40 DEF vars
  <2> QED BY <2>1, SameMode DEF Duty!vars, Phase, Radio
<1> QED BY <1>1, <1>2, <1>3, <1>4, <1>5, <1>6, <1>7, <1>8, <1>9, <1>10, <1>11,
  <1>12, <1>13, <1>14, <1>15, <1>16, <1>17, <1>18, <1>19, <1>20, <1>21, <1>22,
  <1>23, <1>24, <1>25, <1>26, <1>27, <1>28, <1>29, <1>30, <1>31, <1>32, <1>33,
  <1>34, <1>35, <1>36, <1>37, <1>38, <1>39, <1>40
  DEF Next, BootStep, NetworkStep, SetupStep, LoopStep, UserStep, RemoteStep,
      EnvStep

\* A battery board whose module answers its probe and whose saves reach
\* flash, and that nobody configures at run time, goes through its phases as
\* DutyCycle allows: for every set of configurations and any number of
\* presses, power cuts and factory resets, deep sleep wired or not.
THEOREM ImplementsDutyCycle ==
  ASSUME ~Display, ~RuntimeConfig, ~BusMayFail, ~SaveMayFail
  PROVE  Spec => FollowsDutyCycle
<1>1. Init => Duty!Init
  BY PhaseOutsideLoop DEF Init, Duty!Init
<1>2. TypeOK /\ TypeOK' /\ RadioInv /\ RadioInv' /\ [Next]_vars
        => [Duty!Next]_(Duty!vars)
  BY DeviceStep
<1> QED BY <1>1, <1>2, TypeCorrect, AlwaysRadioInv, PTL
        DEF Spec, FollowsDutyCycle, Duty!Spec
==============================================================================
