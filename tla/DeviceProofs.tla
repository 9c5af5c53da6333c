---------------------------- MODULE DeviceProofs ----------------------------
(***************************************************************************)
(* What holds of a board for every value of the constants.                 *)
(***************************************************************************)
EXTENDS DeviceInv, TLAPS

----------------------------------------------------------------------------
(* Types.                                                                  *)

\* The values a board starts from are of their types.
LEMMA InitialValues == DefaultConfig \in Config /\ FreshRam \in RamState
BY BoundsAreNatural DEF DefaultConfig, Config, FreshRam, RamState

\* Normalising a configuration gives a configuration.
LEMMA NormaliseType ==
  ASSUME NEW c \in Config
  PROVE  Normalise(c) \in Config
BY DEF Normalise, Config

\* A save leaves a configuration or a torn file, and says whether it worked.
LEMMA SavesType ==
  ASSUME flash \in Files, NEW c \in Config, NEW s \in Saves(c)
  PROVE  s.file \in Files /\ s.ok \in BOOLEAN
<1>1. \/ s = [file |-> c, ok |-> TRUE]
      \/ s = [file |-> flash, ok |-> FALSE]
      \/ s = [file |-> TornFile, ok |-> FALSE]
      \/ s = [file |-> TornFile, ok |-> TRUE]
  BY Zenon DEF Saves
<1>2. CASE s = [file |-> c, ok |-> TRUE]
  BY <1>2 DEF Files
<1>3. CASE s = [file |-> flash, ok |-> FALSE]
  BY <1>3
<1>4. CASE s = [file |-> TornFile, ok |-> FALSE]
  BY <1>4 DEF Files
<1>5. CASE s = [file |-> TornFile, ok |-> TRUE]
  BY <1>5 DEF Files
<1> QED BY <1>1, <1>2, <1>3, <1>4, <1>5

\* A reset leaves the board at the start of setup() with fresh RAM.
LEMMA RebootType ==
  ASSUME NEW cause \in Causes, NEW reason \in Reasons, Reboot(cause, reason)
  PROVE  pc' = "boot" /\ boot' \in BootInfo /\ dev' \in Config /\ ram' \in RamState
BY InitialValues DEF Reboot, BootInfo

LEMMA RestartType ==
  ASSUME Restart
  PROVE  pc' = "boot" /\ boot' \in BootInfo /\ dev' \in Config /\ ram' \in RamState
<1>1. "restart" \in Causes /\ "restart" \in Reasons
  BY DEF Causes, Reasons
<1> QED BY <1>1, RebootType DEF Restart

\* setConfig() ends in a reset or goes on in the loop.
LEMMA SetConfigType ==
  ASSUME TypeOK, NEW c \in Config, NEW reboot \in BOOLEAN, NEW next \in RamState,
         SetConfig(c, reboot, next)
  PROVE  /\ flash' \in Files /\ pc' \in Awake /\ boot' \in BootInfo
         /\ dev' \in Config /\ ram' \in RamState
<1>1. PICK s \in Saves(Normalise(c)) :
        /\ flash' = s.file
        /\ IF reboot THEN Restart
           ELSE /\ dev' = Normalise(c)
                /\ ram' = [next EXCEPT !.pending = @ /\ ~s.ok]
                /\ pc' = "loop"
                /\ UNCHANGED boot
  BY DEF SetConfig
<1>2. Normalise(c) \in Config
  BY NormaliseType
<1>3. s.file \in Files /\ s.ok \in BOOLEAN
  BY <1>2, SavesType DEF TypeOK
<1>4. CASE reboot
  BY <1>1, <1>3, <1>4, RestartType DEF Awake, Setup
<1>5. CASE ~reboot
  BY <1>1, <1>2, <1>3, <1>5 DEF TypeOK, RamState, Awake
<1> QED BY <1>4, <1>5

\* Losing power leaves the types alone.
LEMMA LosePowerType ==
  ASSUME TypeOK, LosePower, flash' \in Files
  PROVE  TypeOK'
<1>1. upsets' \in 0..MaxUpsets
  BY BoundsAreNatural DEF TypeOK, LosePower
<1> QED BY <1>1, InitialValues DEF TypeOK, LosePower

\* Going to deep sleep, or failing to.
LEMMA DeepSleepType ==
  ASSUME TypeOK, NEW rf \in {"default", "disabled"}, NEW dark \in BOOLEAN,
         DeepSleep(rf, dark), dark => pc' \in Awake /\ dev' \in Config,
         UNCHANGED <<stored, boot, env>>
  PROVE  TypeOK'
BY InitialValues DEF TypeOK, DeepSleep, ClearBootMark, stored, env

\* A pending save at the end of setupWifi().
LEMMA SavePendingType ==
  ASSUME TypeOK, NEW pending \in BOOLEAN, NEW link \in BOOLEAN,
         SavePending(pending, link)
  PROVE  flash' \in Files /\ ram' \in RamState
<1>1. CASE ~pending
  BY <1>1 DEF SavePending, TypeOK, RamState
<1>2. CASE pending
  <2>1. PICK s \in Saves(dev) :
          /\ flash' = s.file
          /\ ram' = [ram EXCEPT !.link = link, !.pending = ~s.ok]
    BY <1>2 DEF SavePending
  <2>2. s.file \in Files /\ s.ok \in BOOLEAN
    BY SavesType DEF TypeOK
  <2> QED BY <2>1, <2>2 DEF TypeOK, RamState
<1> QED BY <1>1, <1>2

\* What remote control leaves in RAM: well typed, and the module as it was.
LEMMA RemoteFlagsType ==
  ASSUME ram \in RamState, NEW mode
  PROVE  RemoteFlags(mode) \in RamState /\ RemoteFlags(mode).eeprom = ram.eeprom
<1>1. Running(ram) \in RamState /\ Running(ram).eeprom = ram.eeprom
  BY DEF Running, RamState
<1>2. ASSUME NEW r \in RamState, NEW stop \in BOOLEAN, NEW start \in BOOLEAN
      PROVE  [r EXCEPT !.tickerStop = stop, !.tickerStart = start] \in RamState
  BY DEF RamState
<1>3. /\ (Running(ram).tickerStop \/ mode = "on") \in BOOLEAN
      /\ (Running(ram).tickerStart \/ mode = "off") \in BOOLEAN
  OBVIOUS
<1>4. RemoteFlags(mode) \in RamState
  BY <1>1, <1>2, <1>3 DEF RemoteFlags
<1>5. RemoteFlags(mode).eeprom = Running(ram).eeprom
  BY <1>1 DEF RemoteFlags, RamState
<1> QED BY <1>1, <1>4, <1>5

\* Every state of a board is of its type.
THEOREM TypeCorrect == Spec => []TypeOK
<1>1. Init => TypeOK
  <2> SUFFICES ASSUME Init PROVE TypeOK
    OBVIOUS
  <2>1. flash \in Files
    BY ChoicesAreConfigs DEF Init, Files
  <2>2. boot \in BootInfo
    BY DEF Init, BootInfo, Causes, Reasons
  <2>3. upsets \in 0..MaxUpsets
    BY BoundsAreNatural DEF Init
  <2> QED BY <2>1, <2>2, <2>3, InitialValues DEF Init, TypeOK, Awake, Setup
<1>2. TypeOK /\ [Next]_vars => TypeOK'
  <2> SUFFICES ASSUME TypeOK, [Next]_vars
               PROVE  TypeOK'
    OBVIOUS
  <2> USE DEF stored, rtc, env, Awake, Setup
  <2>1. CASE PowerOn
    BY <2>1, RebootType DEF PowerOn, TypeOK, Causes, Reasons
  <2>2. CASE PowerCut
    BY <2>2, LosePowerType DEF PowerCut, TypeOK
  <2>3. CASE PowerCutDuringSave
    BY <2>3, LosePowerType DEF PowerCutDuringSave, TypeOK, Files
  <2>4. CASE TimerWake
    BY <2>4, RebootType DEF TimerWake, TypeOK, Causes, Reasons
  <2>5. CASE ResetPress
    BY <2>5, RebootType, BoundsAreNatural DEF ResetPress, TypeOK, Causes, Reasons
  <2>6. CASE MountConfig
    <3>1. dev' \in Config
      BY <2>6, InitialValues, NormaliseType DEF MountConfig, TypeOK, Files
    <3>2. flash' \in Files
      BY <2>6, InitialValues, SavesType DEF MountConfig, TypeOK
    <3>3. ram' \in RamState
      BY <2>6 DEF MountConfig, TypeOK, RamState
    <3> QED BY <2>6, <3>1, <3>2, <3>3 DEF MountConfig, TypeOK
  <2>7. CASE ReadBootMark
    BY <2>7 DEF ReadBootMark, FromDeepSleep, TypeOK, BootInfo, Config
  <2>8. CASE NoPress
    BY <2>8 DEF NoPress, TypeOK
  <2>9. CASE PressMode
    <3>1. dev' \in Config
      BY <2>9 DEF PressMode, TypeOK, Config
    <3>2. PICK s \in Saves(dev') :
            flash' = s.file /\ ram' = [ram EXCEPT !.pending = ~s.ok]
      BY <2>9 DEF PressMode
    <3>3. s.file \in Files /\ s.ok \in BOOLEAN
      BY <3>1, SavesType DEF TypeOK
    <3>4. ram' \in RamState
      BY <3>2, <3>3 DEF TypeOK, RamState
    <3> QED BY <2>9, <3>1, <3>2, <3>3, <3>4 DEF PressMode, TypeOK
  <2>10. CASE FactoryReset
    <3>1. upsets' \in 0..MaxUpsets /\ flash' \in Files
      BY <2>10, BoundsAreNatural DEF FactoryReset, TypeOK, Files
    <3> QED BY <2>10, <3>1, RestartType DEF FactoryReset, TypeOK
  <2>11. CASE RestartForRadio
    BY <2>11, RestartType DEF RestartForRadio, TypeOK
  <2>12. CASE BootOffline
    BY <2>12 DEF BootOffline, TypeOK, RamState, Probe
  <2>13. CASE BootOnline
    BY <2>13 DEF BootOnline, TypeOK, RamState, Probe, Config, MustForceConfig
  <2>14. CASE OpenRequestedPortal
    BY <2>14 DEF OpenRequestedPortal, TypeOK, Config
  <2>15. CASE FastConnect
    BY <2>15 DEF FastConnect, TypeOK, RamState
  <2>16. CASE AutoConnect
    BY <2>16, SavePendingType DEF AutoConnect, TypeOK, RamState
  <2>17. CASE OpenPortal
    BY <2>17 DEF OpenPortal, TypeOK
  <2>18. CASE SleepAndRetry
    <3>1. CASE CanDeepSleep
      BY <2>18, <3>1, InitialValues DEF SleepAndRetry, DeepSleep, ClearBootMark, TypeOK
    <3>2. CASE ~CanDeepSleep
      <4>1. dev' \in Config /\ pc' = "services"
        BY <2>18, <3>2 DEF SleepAndRetry, DeepSleep, ClearBootMark, TypeOK, Config
      <4> QED BY <2>18, <3>2, <4>1 DEF SleepAndRetry, DeepSleep, ClearBootMark, TypeOK
    <3> QED BY <3>1, <3>2
  <2>19. CASE PortalSave
    <3>1. CASE net /\ ~boot.rfOff
      BY <2>19, <3>1, SavePendingType DEF PortalSave, TypeOK
    <3>2. CASE ~(net /\ ~boot.rfOff)
      BY <2>19, <3>2 DEF PortalSave, TypeOK
    <3> QED BY <3>1, <3>2
  <2>20. CASE PortalEnds
    BY <2>20 DEF PortalEnds, TypeOK, RamState, CanJoin, BootInfo
  <2>21. CASE StartServices
    <3>1. PICK eeprom \in Probe :
            LET plan == SetupPlan(dev, Display)
            IN  ram' = [ram EXCEPT !.ap   = RaisesAp,
                                   !.web  = plan.webServer,
                                   !.mqtt = plan.mqtt,
                                   !.tick = IF plan.tickers THEN "planned" ELSE @,
                                   !.eeprom = @ \/ eeprom]
      BY <2>21 DEF StartServices
    <3>2. /\ SetupPlan(dev, Display).webServer \in BOOLEAN
          /\ SetupPlan(dev, Display).mqtt \in BOOLEAN
      BY SwitchesAreBoolean DEF SetupPlan, NoPlan, LiveUi
    <3>3. eeprom \in BOOLEAN /\ dev.configMode \in BOOLEAN
      BY DEF Probe, TypeOK, Config
    <3>4. ram' \in RamState
      BY <3>1, <3>2, <3>3 DEF RaisesAp, TypeOK, RamState
    <3> QED BY <2>21, <3>4 DEF StartServices, TypeOK
  <2>22. CASE FinishSetup
    BY <2>22 DEF FinishSetup, TypeOK, RamState, Running
  <2>23. ASSUME NEW mode \in {"on", "off"}, RemoteConfigMode(mode)
        PROVE  TypeOK'
    <3>1. ram' \in RamState /\ dev' \in Config
      BY <2>23, RemoteFlagsType DEF RemoteConfigMode, TypeOK, Config
    <3> QED BY <2>23, <3>1 DEF RemoteConfigMode, TypeOK, Awake
  <2>24. ASSUME NEW mode \in {"keep", "on", "off"}, NEW c \in Choices, NEW reboot \in BOOLEAN, RemoteSetConfig(mode, c, reboot)
        PROVE  TypeOK'
    <3>1. RemoteFlags(mode) \in RamState
      BY RemoteFlagsType DEF TypeOK
    <3> QED BY <2>24, <3>1, ChoicesAreConfigs, SetConfigType DEF RemoteSetConfig, TypeOK
  <2>25. CASE LoopOffline
    <3>1. CASE CanDeepSleep
      BY <2>25, <3>1, InitialValues DEF LoopOffline, DeepSleep, ClearBootMark, TypeOK
    <3>2. CASE ~CanDeepSleep
      BY <2>25, <3>2 DEF LoopOffline, DeepSleep, ClearBootMark, TypeOK
    <3> QED BY <3>1, <3>2
  <2>26. CASE LoopDeepSleep
    <3>1. CASE CanDeepSleep
      BY <2>26, <3>1, InitialValues DEF LoopDeepSleep, DeepSleep, ClearBootMark, TypeOK
    <3>2. CASE ~CanDeepSleep
      BY <2>26, <3>2 DEF LoopDeepSleep, DeepSleep, ClearBootMark, TypeOK
    <3> QED BY <3>1, <3>2
  <2>27. CASE LoopLightSleep
    <3>1. CanJoin \in BOOLEAN
      BY DEF CanJoin, TypeOK, BootInfo
    <3> QED BY <2>27, <3>1 DEF LoopLightSleep, TypeOK, RamState
  <2>28. CASE StopTickers
    BY <2>28 DEF StopTickers, TypeOK, RamState
  <2>29. CASE StartTickers
    BY <2>29 DEF StartTickers, TypeOK, RamState
  <2>30. ASSUME NEW c \in Choices, NEW reboot \in BOOLEAN, WebSave(c, reboot)
        PROVE  TypeOK'
    <3>1. PICK s \in Saves(Normalise(c)) :
            /\ flash' = s.file
            /\ IF reboot /\ s.ok THEN Restart
               ELSE /\ dev' = Normalise(c)
                    /\ ram' = [ram EXCEPT !.pending = @ /\ ~s.ok]
                    /\ UNCHANGED <<pc, boot>>
      BY <2>30 DEF WebSave
    <3>2. Normalise(c) \in Config
      BY ChoicesAreConfigs, NormaliseType
    <3>3. s.file \in Files /\ s.ok \in BOOLEAN
      BY <3>2, SavesType DEF TypeOK
    <3>4. CASE reboot /\ s.ok
      BY <2>30, <3>1, <3>3, <3>4, RestartType DEF WebSave, TypeOK
    <3>5. CASE ~(reboot /\ s.ok)
      <4>1. ram' \in RamState
        BY <3>1, <3>3, <3>5 DEF TypeOK, RamState
      <4> QED BY <2>30, <3>1, <3>2, <3>3, <3>5, <4>1 DEF WebSave, TypeOK
    <3> QED BY <3>4, <3>5
  <2>31. ASSUME NEW c \in Choices, NEW reboot \in BOOLEAN, WebSocketSave(c, reboot)
        PROVE  TypeOK'
    BY <2>31, ChoicesAreConfigs, SetConfigType DEF WebSocketSave, TypeOK
  <2>32. CASE WebPortalRequest
    BY <2>32, RestartType DEF WebPortalRequest, TypeOK
  <2>33. CASE WebUpdate
    BY <2>33, RestartType DEF WebUpdate, TypeOK
  <2>34. ASSUME NEW c \in Choices, NEW reboot \in BOOLEAN, MqttSetConfig(c, reboot)
        PROVE  TypeOK'
    BY <2>34, ChoicesAreConfigs, SetConfigType DEF MqttSetConfig, TypeOK
  <2>35. CASE ToggleOffline
    <3>1. [dev EXCEPT !.offlineMode = ~@] \in Config
      BY DEF TypeOK, Config
    <3>2. flash' \in Files
      BY <2>35, <3>1, SavesType DEF ToggleOffline, TypeOK
    <3> QED BY <2>35, <3>2, RestartType DEF ToggleOffline, TypeOK
  <2>36. CASE CheckWifi
    <3>1. CASE ram.attempts = MaxAttempts
      BY <2>36, <3>1, RestartType DEF CheckWifi, TooManyAttempts, GiveUp, TypeOK
    <3>2. CASE ram.attempts # MaxAttempts
      <4>1. CanJoin \in BOOLEAN /\ ram.attempts + 1 \in 0..MaxAttempts
        BY <3>2, BoundsAreNatural DEF CanJoin, TypeOK, RamState
      <4>2. ram' \in RamState
        BY <2>36, <3>2, <4>1 DEF CheckWifi, TooManyAttempts, GiveUp, TypeOK, RamState
      <4> QED BY <2>36, <3>2, <4>2 DEF CheckWifi, TooManyAttempts, GiveUp, TypeOK
    <3> QED BY <3>1, <3>2
  <2>37. CASE NetDown
    BY <2>37 DEF NetDown, TypeOK, RamState
  <2>38. CASE NetUp
    BY <2>38 DEF NetUp, TypeOK
  <2>39. CASE SdkReconnect
    BY <2>39 DEF SdkReconnect, TypeOK, RamState
  <2>40. CASE UNCHANGED vars
    BY <2>40 DEF vars, TypeOK
  <2> QED BY <2>1, <2>2, <2>3, <2>4, <2>5, <2>6, <2>7, <2>8, <2>9,
    <2>10, <2>11, <2>12, <2>13, <2>14, <2>15, <2>16, <2>17, <2>18,
    <2>19, <2>20, <2>21, <2>22, <2>23, <2>24, <2>25, <2>26, <2>27,
    <2>28, <2>29, <2>30, <2>31, <2>32, <2>33, <2>34, <2>35, <2>36,
    <2>37, <2>38, <2>39, <2>40
    DEF Next, BootStep, NetworkStep, SetupStep, LoopStep, UserStep, RemoteStep,
        EnvStep
<1> QED BY <1>1, <1>2, PTL DEF Spec

----------------------------------------------------------------------------
(* The boot mark.                                                          *)

\* ESP.restart() starts a boot that is no wake and no press.
LEMMA RestartBoots ==
  ASSUME Restart
  PROVE  /\ pc' = "boot" /\ boot'.cause = "restart" /\ ~boot'.rfOff
         /\ dev' = DefaultConfig /\ ram' = FreshRam
BY DEF Restart, Reboot

\* setConfig() restarts, or goes on in the loop of the same boot.
LEMMA SetConfigEnds ==
  ASSUME NEW c, NEW reboot \in BOOLEAN, NEW next, SetConfig(c, reboot, next)
  PROVE  Restart \/ (pc' = "loop" /\ boot' = boot)
BY DEF SetConfig

\* Waiting for the button changes nothing else about the boot.
LEMMA WindowOfBoot ==
  ASSUME TypeOK, ReadBootMark
  PROVE  /\ pc' = "window" /\ bootMark' /\ boot'.cause = boot.cause
         /\ boot'.window <=> /\ bootMark \/ boot.reason # "deepsleep"
                             /\ ~dev.configMode
<1>1. boot' = [boot EXCEPT !.window = ~(~bootMark /\ boot.reason = "deepsleep")
                                     /\ ~dev.configMode]
  BY DEF ReadBootMark, FromDeepSleep
<1>2. boot \in BootInfo
  BY DEF TypeOK
<1>3. boot'.cause = boot.cause
  BY <1>1, <1>2 DEF BootInfo
<1>4. boot'.window = (~(~bootMark /\ boot.reason = "deepsleep") /\ ~dev.configMode)
  BY <1>1, <1>2 DEF BootInfo
<1> QED BY <1>3, <1>4 DEF ReadBootMark

\* On every board, whatever fails and whoever reconfigures it: a timer wake
\* finds the boot mark cleared and never waits for the MODE button.
THEOREM TimerWakesAreShort == Spec => []TimerWakeSkipsWindow
<1>1. Init => TimerWakeInv
  BY DEF Init, TimerWakeInv, MarkClearedBySleep, TimerWakeSkipsWindow, Awake, Setup
<1>2. TypeOK /\ TypeOK' /\ TimerWakeInv /\ [Next]_vars => TimerWakeInv'
  <2> SUFFICES ASSUME TypeOK, TypeOK', TimerWakeInv, [Next]_vars
               PROVE  TimerWakeInv'
    OBVIOUS
  <2> USE DEF TimerWakeInv, MarkClearedBySleep, TimerWakeSkipsWindow, stored, rtc, env,
              Reboot
  <2>1. CASE PowerOn
    BY <2>1 DEF PowerOn
  <2>2. CASE PowerCut
    BY <2>2 DEF PowerCut, LosePower
  <2>3. CASE PowerCutDuringSave
    BY <2>3 DEF PowerCutDuringSave, LosePower
  <2>4. CASE TimerWake
    BY <2>4 DEF TimerWake
  <2>5. CASE ResetPress
    BY <2>5 DEF ResetPress
  <2>6. CASE MountConfig
    BY <2>6 DEF MountConfig
  <2>7. CASE ReadBootMark
    BY <2>7, WindowOfBoot DEF ReadBootMark
  <2>8. CASE NoPress
    BY <2>8 DEF NoPress
  <2>9. CASE PressMode
    BY <2>9 DEF PressMode
  <2>10. CASE FactoryReset
    BY <2>10, RestartBoots DEF FactoryReset
  <2>11. CASE RestartForRadio
    BY <2>11, RestartBoots DEF RestartForRadio
  <2>12. CASE BootOffline
    BY <2>12 DEF BootOffline
  <2>13. CASE BootOnline
    BY <2>13 DEF BootOnline
  <2>14. CASE OpenRequestedPortal
    BY <2>14 DEF OpenRequestedPortal
  <2>15. CASE FastConnect
    BY <2>15 DEF FastConnect
  <2>16. CASE AutoConnect
    BY <2>16 DEF AutoConnect
  <2>17. CASE OpenPortal
    BY <2>17 DEF OpenPortal
  <2>18. CASE SleepAndRetry
    BY <2>18 DEF SleepAndRetry, DeepSleep, ClearBootMark
  <2>19. CASE PortalSave
    BY <2>19 DEF PortalSave
  <2>20. CASE PortalEnds
    BY <2>20 DEF PortalEnds
  <2>21. CASE StartServices
    BY <2>21 DEF StartServices
  <2>22. CASE FinishSetup
    BY <2>22 DEF FinishSetup
  <2>23. ASSUME NEW mode \in {"on", "off"}, RemoteConfigMode(mode)
        PROVE  TimerWakeInv'
    BY <2>23 DEF RemoteConfigMode
  <2>24. ASSUME NEW mode \in {"keep", "on", "off"}, NEW c \in Choices, NEW reboot \in BOOLEAN, RemoteSetConfig(mode, c, reboot)
        PROVE  TimerWakeInv'
    BY <2>24, RestartBoots, SetConfigEnds DEF RemoteSetConfig
  <2>25. CASE LoopOffline
    BY <2>25 DEF LoopOffline, DeepSleep, ClearBootMark
  <2>26. CASE LoopDeepSleep
    BY <2>26 DEF LoopDeepSleep, DeepSleep, ClearBootMark
  <2>27. CASE LoopLightSleep
    BY <2>27 DEF LoopLightSleep
  <2>28. CASE StopTickers
    BY <2>28 DEF StopTickers
  <2>29. CASE StartTickers
    BY <2>29 DEF StartTickers
  <2>30. ASSUME NEW c \in Choices, NEW reboot \in BOOLEAN, WebSave(c, reboot)
        PROVE  TimerWakeInv'
    <3>1. Restart \/ UNCHANGED <<pc, boot>>
      BY <2>30 DEF WebSave
    <3> QED BY <2>30, <3>1, RestartBoots DEF WebSave, WebReached, InLoop
  <2>31. ASSUME NEW c \in Choices, NEW reboot \in BOOLEAN, WebSocketSave(c, reboot)
        PROVE  TimerWakeInv'
    BY <2>31, RestartBoots, SetConfigEnds DEF WebSocketSave, WebReached, InLoop
  <2>32. CASE WebPortalRequest
    BY <2>32, RestartBoots DEF WebPortalRequest
  <2>33. CASE WebUpdate
    BY <2>33, RestartBoots DEF WebUpdate
  <2>34. ASSUME NEW c \in Choices, NEW reboot \in BOOLEAN, MqttSetConfig(c, reboot)
        PROVE  TimerWakeInv'
    BY <2>34, RestartBoots, SetConfigEnds DEF MqttSetConfig, InLoop
  <2>35. CASE ToggleOffline
    BY <2>35, RestartBoots DEF ToggleOffline
  <2>36. CASE CheckWifi
    BY <2>36, RestartBoots DEF CheckWifi, TooManyAttempts, GiveUp
  <2>37. CASE NetDown
    BY <2>37 DEF NetDown
  <2>38. CASE NetUp
    BY <2>38 DEF NetUp
  <2>39. CASE SdkReconnect
    BY <2>39 DEF SdkReconnect
  <2>40. CASE UNCHANGED vars
    BY <2>40 DEF vars
  <2> QED BY <2>1, <2>2, <2>3, <2>4, <2>5, <2>6, <2>7, <2>8, <2>9,
    <2>10, <2>11, <2>12, <2>13, <2>14, <2>15, <2>16, <2>17, <2>18,
    <2>19, <2>20, <2>21, <2>22, <2>23, <2>24, <2>25, <2>26, <2>27,
    <2>28, <2>29, <2>30, <2>31, <2>32, <2>33, <2>34, <2>35, <2>36,
    <2>37, <2>38, <2>39, <2>40
    DEF Next, BootStep, NetworkStep, SetupStep, LoopStep, UserStep, RemoteStep,
        EnvStep
<1>3. TimerWakeInv => TimerWakeSkipsWindow
  BY DEF TimerWakeInv
<1> QED BY <1>1, <1>2, <1>3, TypeCorrect, PTL DEF Spec

\* On every board that can deep-sleep: a RESET pressed while the firmware is
\* past its boot mark leads to a boot that waits for the MODE button.
THEOREM SecondPressCounts ==
  ASSUME CanDeepSleep
  PROVE  Spec => []SecondPressRecognised
<1>1. Init => PressInv
  BY DEF Init, PressInv, MarkSetWhileAwake, SecondPressRecognised, Awake, Setup
<1>2. TypeOK /\ TypeOK' /\ PressInv /\ [Next]_vars => PressInv'
  <2> SUFFICES ASSUME TypeOK, TypeOK', PressInv, [Next]_vars
               PROVE  PressInv'
    OBVIOUS
  <2> USE DEF PressInv, MarkSetWhileAwake, SecondPressRecognised, stored, rtc, env,
              Awake, Setup, Reboot
  <2>1. CASE PowerOn
    BY <2>1 DEF PowerOn
  <2>2. CASE PowerCut
    BY <2>2 DEF PowerCut, LosePower
  <2>3. CASE PowerCutDuringSave
    BY <2>3 DEF PowerCutDuringSave, LosePower
  <2>4. CASE TimerWake
    BY <2>4 DEF TimerWake
  <2>5. CASE ResetPress
    <3>1. pc' = "boot" /\ bootMark' = bootMark
      BY <2>5 DEF ResetPress
    <3>2. boot'.cause = "pressAwake" => pc \in Awake \ {"boot", "button"}
      BY <2>5 DEF ResetPress, TypeOK
    <3> QED BY <3>1, <3>2
  <2>6. CASE MountConfig
    BY <2>6 DEF MountConfig
  <2>7. CASE ReadBootMark
    BY <2>7, WindowOfBoot DEF ReadBootMark
  <2>8. CASE NoPress
    BY <2>8 DEF NoPress
  <2>9. CASE PressMode
    BY <2>9 DEF PressMode
  <2>10. CASE FactoryReset
    BY <2>10, RestartBoots DEF FactoryReset
  <2>11. CASE RestartForRadio
    BY <2>11, RestartBoots DEF RestartForRadio
  <2>12. CASE BootOffline
    BY <2>12 DEF BootOffline
  <2>13. CASE BootOnline
    BY <2>13 DEF BootOnline
  <2>14. CASE OpenRequestedPortal
    BY <2>14 DEF OpenRequestedPortal
  <2>15. CASE FastConnect
    BY <2>15 DEF FastConnect
  <2>16. CASE AutoConnect
    BY <2>16 DEF AutoConnect
  <2>17. CASE OpenPortal
    BY <2>17 DEF OpenPortal
  <2>18. CASE SleepAndRetry
    BY <2>18 DEF SleepAndRetry, DeepSleep, ClearBootMark
  <2>19. CASE PortalSave
    BY <2>19 DEF PortalSave
  <2>20. CASE PortalEnds
    BY <2>20 DEF PortalEnds
  <2>21. CASE StartServices
    BY <2>21 DEF StartServices
  <2>22. CASE FinishSetup
    BY <2>22 DEF FinishSetup
  <2>23. ASSUME NEW mode \in {"on", "off"}, RemoteConfigMode(mode)
        PROVE  PressInv'
    BY <2>23 DEF RemoteConfigMode
  <2>24. ASSUME NEW mode \in {"keep", "on", "off"}, NEW c \in Choices, NEW reboot \in BOOLEAN, RemoteSetConfig(mode, c, reboot)
        PROVE  PressInv'
    BY <2>24, RestartBoots, SetConfigEnds DEF RemoteSetConfig
  <2>25. CASE LoopOffline
    BY <2>25 DEF LoopOffline, DeepSleep, ClearBootMark
  <2>26. CASE LoopDeepSleep
    BY <2>26 DEF LoopDeepSleep, DeepSleep, ClearBootMark
  <2>27. CASE LoopLightSleep
    BY <2>27 DEF LoopLightSleep
  <2>28. CASE StopTickers
    BY <2>28 DEF StopTickers
  <2>29. CASE StartTickers
    BY <2>29 DEF StartTickers
  <2>30. ASSUME NEW c \in Choices, NEW reboot \in BOOLEAN, WebSave(c, reboot)
        PROVE  PressInv'
    <3>1. Restart \/ UNCHANGED <<pc, boot>>
      BY <2>30 DEF WebSave
    <3> QED BY <2>30, <3>1, RestartBoots DEF WebSave, WebReached, InLoop
  <2>31. ASSUME NEW c \in Choices, NEW reboot \in BOOLEAN, WebSocketSave(c, reboot)
        PROVE  PressInv'
    BY <2>31, RestartBoots, SetConfigEnds DEF WebSocketSave, WebReached, InLoop
  <2>32. CASE WebPortalRequest
    BY <2>32, RestartBoots DEF WebPortalRequest
  <2>33. CASE WebUpdate
    BY <2>33, RestartBoots DEF WebUpdate
  <2>34. ASSUME NEW c \in Choices, NEW reboot \in BOOLEAN, MqttSetConfig(c, reboot)
        PROVE  PressInv'
    BY <2>34, RestartBoots, SetConfigEnds DEF MqttSetConfig, InLoop
  <2>35. CASE ToggleOffline
    BY <2>35, RestartBoots DEF ToggleOffline
  <2>36. CASE CheckWifi
    BY <2>36, RestartBoots DEF CheckWifi, TooManyAttempts, GiveUp
  <2>37. CASE NetDown
    BY <2>37 DEF NetDown
  <2>38. CASE NetUp
    BY <2>38 DEF NetUp
  <2>39. CASE SdkReconnect
    BY <2>39 DEF SdkReconnect
  <2>40. CASE UNCHANGED vars
    BY <2>40 DEF vars
  <2> QED BY <2>1, <2>2, <2>3, <2>4, <2>5, <2>6, <2>7, <2>8, <2>9,
    <2>10, <2>11, <2>12, <2>13, <2>14, <2>15, <2>16, <2>17, <2>18,
    <2>19, <2>20, <2>21, <2>22, <2>23, <2>24, <2>25, <2>26, <2>27,
    <2>28, <2>29, <2>30, <2>31, <2>32, <2>33, <2>34, <2>35, <2>36,
    <2>37, <2>38, <2>39, <2>40
    DEF Next, BootStep, NetworkStep, SetupStep, LoopStep, UserStep, RemoteStep,
        EnvStep
<1>3. PressInv => SecondPressRecognised
  BY DEF PressInv
<1> QED BY <1>1, <1>2, <1>3, TypeCorrect, PTL DEF Spec

----------------------------------------------------------------------------
(* The radio.                                                              *)

\* A save that cannot fail writes what it was given.
LEMMA SavesWrite ==
  ASSUME ~SaveMayFail, NEW c, NEW s \in Saves(c)
  PROVE  s.file = c
BY DEF Saves

\* A board that has not read its configuration yet is not offline.
LEMMA DefaultIsOnline == ~DefaultConfig.offlineMode /\ ~FreshRam.eeprom
BY DEF DefaultConfig, FreshRam

\* Normalising a configuration leaves offline mode alone.
LEMMA NormaliseOffline ==
  ASSUME NEW c \in Config
  PROVE  Normalise(c).offlineMode = c.offlineMode
BY DEF Normalise, Config

\* What the mode resolver needs to answer "Offline".
LEMMA OfflineNeeds ==
  ASSUME TypeOK, Mode = "Offline"
  PROVE  ~Display /\ ~dev.configMode /\ dev.offlineMode /\ ram.eeprom
BY DEF Mode, CurrentMode, OfflineEnabled, Config, TypeOK

\* The mode is resolved from the configuration and the probe alone.
LEMMA SameMode ==
  ASSUME dev' = dev, ram'.eeprom = ram.eeprom
  PROVE  Mode' = Mode
BY DEF Mode

\* Without a module no probe answers.
LEMMA ProbeNeedsModule ==
  ASSUME NEW e \in Probe
  PROVE  e => LogModule
BY DEF Probe

\* A reset that leaves the file alone, or does not end a sleep.
LEMMA ResetKeepsRadio ==
  ASSUME RadioInv, NEW cause, NEW reason, Reboot(cause, reason),
         pc # "asleep" \/ flash' = flash
  PROVE  RadioInv'
<1>1. ~dev'.offlineMode /\ ~ram'.eeprom /\ pc' = "boot"
  BY DefaultIsOnline DEF Reboot
<1>2. boot'.reason = reason
  BY DEF Reboot
<1>3. boot'.rfOff => pc = "asleep" /\ sleepRf = "disabled" /\ reason = "deepsleep"
  BY DEF Reboot
<1> QED BY <1>1, <1>2, <1>3 DEF RadioInv, OfflineStored, RadioOffIsOffline

LEMMA RestartKeepsRadio ==
  ASSUME RadioInv, Restart, pc # "asleep"
  PROVE  RadioInv'
BY ResetKeepsRadio DEF Restart

LEMMA PowerLossKeepsRadio ==
  ASSUME LosePower
  PROVE  RadioInv'
BY DefaultIsOnline DEF LosePower, RadioInv, OfflineStored, RadioOffIsOffline,
                       Awake, Setup

\* A step of a board whose radio works, to another waking state.
LEMMA WorkingRadio ==
  ASSUME ~boot'.rfOff, pc' \in Awake, OfflineStored', ram'.eeprom => LogModule
  PROVE  RadioInv'
BY DEF RadioInv, RadioOffIsOffline, Awake, Setup

\* A step of a waking board that touches neither its configuration nor the
\* radio, and does not enter the loop.
LEMMA QuietStep ==
  ASSUME RadioInv, UNCHANGED <<flash, dev, boot>>, ram'.eeprom = ram.eeprom,
         \/ pc = "window" /\ pc' = "guard"
         \/ pc' = pc /\ pc' \in Awake
         \/ ~boot.rfOff /\ pc' \in Awake
  PROVE  RadioInv'
<1>1. Mode' = Mode
  BY SameMode
<1> QED BY <1>1 DEF RadioInv, OfflineStored, RadioOffIsOffline, Awake, Setup

\* A board in the network half of setup() has a working radio, and so has one
\* in the loop that is not offline.
LEMMA NetworkHasRadio ==
  ASSUME RadioInv, TypeOK,
         \/ pc \in {"wifi", "portal", "services", "remote"}
         \/ pc = "loop" /\ Mode # "Offline"
  PROVE  ~boot.rfOff
BY DEF RadioInv, RadioOffIsOffline, TypeOK, Awake, Setup

\* setConfig() stores what it applies, then restarts or goes on.
LEMMA SetConfigStores ==
  ASSUME ~SaveMayFail, NEW c \in Config, NEW reboot \in BOOLEAN,
         NEW next \in RamState, SetConfig(c, reboot, next)
  PROVE  \/ Restart
         \/ /\ flash' = Normalise(c) /\ dev' = Normalise(c)
            /\ pc' = "loop" /\ boot' = boot /\ ram'.eeprom = next.eeprom
<1>1. PICK s \in Saves(Normalise(c)) :
        /\ flash' = s.file
        /\ IF reboot THEN Restart
           ELSE /\ dev' = Normalise(c)
                /\ ram' = [next EXCEPT !.pending = @ /\ ~s.ok]
                /\ pc' = "loop"
                /\ UNCHANGED boot
  BY DEF SetConfig
<1>2. flash' = Normalise(c)
  BY <1>1, SavesWrite
<1>3. [next EXCEPT !.pending = @ /\ ~s.ok].eeprom = next.eeprom
  BY DEF RamState
<1> QED BY <1>1, <1>2, <1>3

\* setConfig() on a board whose radio works.
LEMMA SetConfigKeepsRadio ==
  ASSUME ~SaveMayFail, RadioInv, TypeOK, ~boot.rfOff, pc # "asleep",
         NEW c \in Config, NEW reboot \in BOOLEAN,
         NEW next \in RamState, next.eeprom = ram.eeprom,
         SetConfig(c, reboot, next)
  PROVE  RadioInv'
<1>1. CASE Restart
  BY <1>1, RestartKeepsRadio
<1>2. CASE /\ flash' = Normalise(c) /\ dev' = Normalise(c)
           /\ pc' = "loop" /\ boot' = boot /\ ram'.eeprom = next.eeprom
  <2>1. OfflineStored'
    BY <1>2, NormaliseType DEF OfflineStored
  <2>2. ram'.eeprom => LogModule
    BY <1>2 DEF RadioInv, RadioOffIsOffline
  <2> QED BY <1>2, <2>1, <2>2, WorkingRadio DEF Awake
<1> QED BY <1>1, <1>2, SetConfigStores

\* Deep sleep with the radio on when the board wakes.
LEMMA DeepSleepKeepsRadio ==
  ASSUME RadioInv, ~boot.rfOff, NEW back \in BOOLEAN, DeepSleep("default", back),
         UNCHANGED <<flash, boot>>,
         back => pc' \in Awake /\ dev'.offlineMode = dev.offlineMode
  PROVE  RadioInv'
<1>1. CASE CanDeepSleep
  BY <1>1, DefaultIsOnline DEF DeepSleep, ClearBootMark, RadioInv, OfflineStored,
       RadioOffIsOffline, Awake, Setup
<1>2. CASE ~CanDeepSleep
  <2>1. ram' = ram /\ pc' \in Awake /\ dev'.offlineMode = dev.offlineMode
    BY <1>2 DEF DeepSleep, ClearBootMark
  <2> QED BY <2>1, WorkingRadio DEF RadioInv, OfflineStored, RadioOffIsOffline
<1> QED BY <1>1, <1>2

\* A save of the configuration in RAM, pending or not.
LEMMA SavePendingStores ==
  ASSUME ~SaveMayFail, TypeOK, RadioInv, NEW pending \in BOOLEAN, NEW link,
         SavePending(pending, link), UNCHANGED dev
  PROVE  OfflineStored' /\ ram'.eeprom = ram.eeprom
<1>1. CASE ~pending
  BY <1>1 DEF SavePending, RadioInv, OfflineStored, TypeOK, RamState
<1>2. CASE pending
  <2>1. PICK s \in Saves(dev) :
          /\ flash' = s.file
          /\ ram' = [ram EXCEPT !.link = link, !.pending = ~s.ok]
    BY <1>2 DEF SavePending
  <2>2. flash' = dev
    BY <2>1, SavesWrite
  <2> QED BY <2>1, <2>2 DEF OfflineStored, TypeOK, RamState
<1> QED BY <1>1, <1>2

\* The radio is off only where RadioInv allows it.
LEMMA AlwaysRadioInv ==
  ASSUME ~BusMayFail, ~SaveMayFail
  PROVE  Spec => []RadioInv
<1>1. Init => RadioInv
  BY DefaultIsOnline
     DEF Init, RadioInv, OfflineStored, RadioOffIsOffline, Awake, Setup
<1>2. TypeOK /\ TypeOK' /\ RadioInv /\ [Next]_vars => RadioInv'
  <2> SUFFICES ASSUME TypeOK, TypeOK', RadioInv, [Next]_vars
               PROVE  RadioInv'
    OBVIOUS
  <2> USE DEF stored, rtc, env
  <2>1. CASE PowerOn
    BY <2>1, ResetKeepsRadio DEF PowerOn
  <2>2. CASE PowerCut
    BY <2>2, PowerLossKeepsRadio DEF PowerCut
  <2>3. CASE PowerCutDuringSave
    BY <2>3, PowerLossKeepsRadio DEF PowerCutDuringSave
  <2>4. CASE TimerWake
    BY <2>4, ResetKeepsRadio DEF TimerWake
  <2>5. CASE ResetPress
    BY <2>5, ResetKeepsRadio DEF ResetPress
  <2>6. CASE MountConfig
    <3>1. pc = "boot" /\ pc' = "button" /\ boot' = boot /\ ram'.eeprom = ram.eeprom
      BY <2>6 DEF MountConfig, TypeOK, RamState
    <3>2. CASE flash \in Config
      <4>1. dev' = Normalise(flash) /\ flash' = flash
        BY <2>6, <3>2, FileStatesAreDistinct DEF MountConfig
      <4> QED BY <3>1, <3>2, <4>1, NormaliseOffline
              DEF RadioInv, OfflineStored, RadioOffIsOffline, Awake, Setup
    <3>3. CASE flash \in {NoFile, TornFile}
      <4>1. dev' = DefaultConfig
        BY <2>6, <3>3 DEF MountConfig
      <4>2. ~boot.rfOff
        BY <3>1, <3>3, FileStatesAreDistinct DEF RadioInv, RadioOffIsOffline,
                                                 Awake, Setup
      <4> QED BY <3>1, <4>1, <4>2, DefaultIsOnline, WorkingRadio
              DEF RadioInv, OfflineStored, RadioOffIsOffline, Awake, Setup
    <3> QED BY <3>2, <3>3 DEF TypeOK, Files
  <2>7. CASE ReadBootMark
    <3>1. /\ pc = "button" /\ pc' = "window" /\ UNCHANGED <<flash, dev, ram>>
          /\ boot'.rfOff = boot.rfOff /\ boot'.reason = boot.reason
      BY <2>7 DEF ReadBootMark, TypeOK, BootInfo
    <3> QED BY <3>1 DEF RadioInv, OfflineStored, RadioOffIsOffline, Awake, Setup
  <2>8. CASE NoPress
    BY <2>8, QuietStep DEF NoPress
  <2>9. CASE PressMode
    <3>1. PICK s \in Saves(dev') :
            flash' = s.file /\ ram' = [ram EXCEPT !.pending = ~s.ok]
      BY <2>9 DEF PressMode
    <3>2. flash' = dev' /\ ram'.eeprom = ram.eeprom
      BY <3>1, SavesWrite DEF TypeOK, RamState
    <3>3. dev'.offlineMode = dev.offlineMode
      BY <2>9 DEF PressMode, TypeOK, Config
    <3> QED BY <2>9, <3>2, <3>3
            DEF PressMode, RadioInv, OfflineStored, RadioOffIsOffline, TypeOK,
                Awake, Setup
  <2>10. CASE FactoryReset
    BY <2>10, RestartKeepsRadio DEF FactoryReset
  <2>11. CASE RestartForRadio
    BY <2>11, RestartKeepsRadio DEF RestartForRadio
  <2>12. CASE BootOffline
    <3>1. PICK eeprom \in Probe :
            /\ StaysOffline(eeprom)
            /\ ram' = [ram EXCEPT !.eeprom = eeprom,
                                  !.tick = IF Display THEN "running" ELSE @]
      BY <2>12 DEF BootOffline
    <3>2. ram'.eeprom = eeprom
      BY <3>1 DEF TypeOK, RamState
    <3>3. ram'.eeprom => LogModule
      BY <3>2, ProbeNeedsModule
    <3>4. Mode' \in {"Offline", "OfflineLive"}
      BY <2>12, <3>1, <3>2 DEF BootOffline, StaysOffline, Mode
    <3>5. ~Display => Mode' = "Offline"
      BY <3>4 DEF Mode, CurrentMode
    <3> QED BY <2>12, <3>3, <3>5
            DEF BootOffline, RadioInv, OfflineStored, RadioOffIsOffline, Awake, Setup
  <2>13. CASE BootOnline
    <3>1. PICK eeprom \in IF ProbeForOffline THEN Probe ELSE {FALSE} :
            ~StaysOffline(eeprom) /\ ram' = [ram EXCEPT !.eeprom = eeprom]
      BY <2>13 DEF BootOnline
    <3>2. ram'.eeprom = eeprom /\ (eeprom => LogModule)
      BY <3>1, ProbeNeedsModule DEF TypeOK, RamState
    <3>3. ~boot.rfOff
      <4> SUFFICES ASSUME boot.rfOff PROVE FALSE
        BY DEF TypeOK, BootInfo
      <4>1. ~Display /\ LogModule /\ boot.reason = "deepsleep" /\ dev.offlineMode
        BY <2>13 DEF BootOnline, RadioInv, RadioOffIsOffline, Awake, Setup
      <4>2. ~dev.configMode
        BY <2>13, <4>1 DEF BootOnline, NeedsRadioRestart
      <4>3. eeprom
        BY <3>1, <4>1, <4>2 DEF ProbeForOffline, Probe
      <4> QED BY <3>1, <4>1, <4>2, <4>3
              DEF StaysOffline, CurrentMode, OfflineEnabled
    <3>4. dev'.offlineMode = dev.offlineMode /\ flash' = flash
      BY <2>13 DEF BootOnline, TypeOK, Config
    <3> QED BY <2>13, <3>2, <3>3, <3>4, WorkingRadio
            DEF BootOnline, RadioInv, OfflineStored, Awake, Setup
  <2>14. CASE OpenRequestedPortal
    <3>1. ~boot.rfOff
      BY <2>14, NetworkHasRadio DEF OpenRequestedPortal
    <3>2. dev'.offlineMode = dev.offlineMode
      BY <2>14 DEF OpenRequestedPortal, TypeOK, Config
    <3> QED BY <2>14, <3>1, <3>2, WorkingRadio
            DEF OpenRequestedPortal, RadioInv, OfflineStored, RadioOffIsOffline,
                Awake, Setup
  <2>15. CASE FastConnect
    <3>1. ~boot.rfOff /\ ram'.eeprom = ram.eeprom
      BY <2>15, NetworkHasRadio DEF FastConnect, TypeOK, RamState
    <3> QED BY <2>15, <3>1, QuietStep DEF FastConnect, Awake, Setup
  <2>16. CASE AutoConnect
    <3>1. ~boot.rfOff
      BY <2>16, NetworkHasRadio DEF AutoConnect
    <3>2. OfflineStored' /\ ram'.eeprom = ram.eeprom
      BY <2>16, SavePendingStores DEF AutoConnect, TypeOK, RamState
    <3> QED BY <2>16, <3>1, <3>2, WorkingRadio
            DEF AutoConnect, RadioInv, RadioOffIsOffline, Awake, Setup
  <2>17. CASE OpenPortal
    <3>1. ~boot.rfOff
      BY <2>17, NetworkHasRadio DEF OpenPortal
    <3> QED BY <2>17, <3>1, QuietStep DEF OpenPortal, Awake, Setup
  <2>18. CASE SleepAndRetry
    <3>1. ~boot.rfOff
      BY <2>18, NetworkHasRadio DEF SleepAndRetry
    <3>2. [dev EXCEPT !.configMode = TRUE].offlineMode = dev.offlineMode
      BY DEF TypeOK, Config
    <3> QED BY <2>18, <3>1, <3>2, DeepSleepKeepsRadio
            DEF SleepAndRetry, Awake, Setup
  <2>19. CASE PortalSave
    <3>1. ~boot.rfOff
      BY <2>19, NetworkHasRadio DEF PortalSave
    <3>2. CASE net
      <4>1. SavePending(TRUE, TRUE) /\ pc' = "services" /\ UNCHANGED <<boot, dev>>
        BY <2>19, <3>1, <3>2 DEF PortalSave
      <4>2. OfflineStored' /\ ram'.eeprom = ram.eeprom
        BY <4>1, SavePendingStores
      <4> QED BY <3>1, <4>1, <4>2, WorkingRadio
              DEF RadioInv, RadioOffIsOffline, Awake, Setup
    <3>3. CASE ~net
      BY <2>19, <3>1, <3>3, QuietStep DEF PortalSave, TypeOK, Awake, Setup
    <3> QED BY <3>2, <3>3
  <2>20. CASE PortalEnds
    <3>1. ~boot.rfOff /\ ram'.eeprom = ram.eeprom
      BY <2>20, NetworkHasRadio DEF PortalEnds, TypeOK, RamState
    <3> QED BY <2>20, <3>1, QuietStep DEF PortalEnds, Awake, Setup
  <2>21. CASE StartServices
    <3>1. ~boot.rfOff
      BY <2>21, NetworkHasRadio DEF StartServices
    <3>2. PICK eeprom \in Probe :
            LET plan == SetupPlan(dev, Display)
            IN  ram' = [ram EXCEPT !.ap   = RaisesAp,
                                   !.web  = plan.webServer,
                                   !.mqtt = plan.mqtt,
                                   !.tick = IF plan.tickers THEN "planned" ELSE @,
                                   !.eeprom = @ \/ eeprom]
      BY <2>21 DEF StartServices
    <3>3. ram'.eeprom => ram.eeprom \/ eeprom
      BY <3>2 DEF TypeOK, RamState
    <3>4. ram'.eeprom => LogModule
      BY <3>3, ProbeNeedsModule DEF RadioInv, RadioOffIsOffline
    <3> QED BY <2>21, <3>1, <3>4, WorkingRadio
            DEF StartServices, RadioInv, OfflineStored, Awake, Setup
  <2>22. CASE FinishSetup
    <3>1. ~boot.rfOff /\ ram'.eeprom = ram.eeprom
      BY <2>22, NetworkHasRadio DEF FinishSetup, Running, TypeOK, RamState
    <3> QED BY <2>22, <3>1, QuietStep DEF FinishSetup, Awake
  <2>23. ASSUME NEW mode \in {"on", "off"}, RemoteConfigMode(mode)
        PROVE  RadioInv'
    <3>1. ~boot.rfOff /\ ram'.eeprom = ram.eeprom
      BY <2>23, NetworkHasRadio, RemoteFlagsType DEF RemoteConfigMode, TypeOK
    <3>2. dev'.offlineMode = dev.offlineMode
      BY <2>23 DEF RemoteConfigMode, TypeOK, Config
    <3> QED BY <2>23, <3>1, <3>2, WorkingRadio
            DEF RemoteConfigMode, RadioInv, OfflineStored, RadioOffIsOffline, Awake
  <2>24. ASSUME NEW mode \in {"keep", "on", "off"}, NEW c \in Choices, NEW reboot \in BOOLEAN, RemoteSetConfig(mode, c, reboot)
        PROVE  RadioInv'
    <3>1. ~boot.rfOff
      BY <2>24, NetworkHasRadio DEF RemoteSetConfig
    <3>2. RemoteFlags(mode) \in RamState
      BY RemoteFlagsType DEF TypeOK
    <3>3. RemoteFlags(mode).eeprom = ram.eeprom
      BY RemoteFlagsType DEF TypeOK
    <3>4. c \in Config
      BY ChoicesAreConfigs
    <3> QED BY <2>24, <3>1, <3>2, <3>3, <3>4, SetConfigKeepsRadio
            DEF RemoteSetConfig
  <2>25. CASE LoopOffline
    <3>1. /\ ~Display /\ dev.offlineMode /\ ram.eeprom
          /\ UNCHANGED <<flash, boot>>
      BY <2>25, OfflineNeeds DEF LoopOffline, InLoop
    <3>2. flash \in Config /\ flash.offlineMode /\ LogModule
      BY <3>1 DEF RadioInv, OfflineStored, RadioOffIsOffline
    <3>3. CASE CanDeepSleep
      <4>1. pc' = "asleep" /\ ~dev'.offlineMode /\ ~ram'.eeprom
        BY <2>25, <3>3, DefaultIsOnline DEF LoopOffline, DeepSleep, ClearBootMark
      <4> QED BY <3>1, <3>2, <4>1
              DEF RadioInv, OfflineStored, RadioOffIsOffline, Awake, Setup
    <3>4. CASE ~CanDeepSleep
      BY <2>25, <3>1, <3>4, QuietStep DEF LoopOffline, DeepSleep, ClearBootMark, InLoop, Awake
    <3> QED BY <3>3, <3>4
  <2>26. CASE LoopDeepSleep
    <3>1. ~boot.rfOff
      BY <2>26, NetworkHasRadio DEF LoopDeepSleep, InLoop
    <3> QED BY <2>26, <3>1, DeepSleepKeepsRadio
            DEF LoopDeepSleep, InLoop, Awake, Setup
  <2>27. CASE LoopLightSleep
    <3>1. ram'.eeprom = ram.eeprom
      BY <2>27 DEF LoopLightSleep, TypeOK, RamState
    <3> QED BY <2>27, <3>1, QuietStep DEF LoopLightSleep, InLoop, Awake
  <2>28. CASE StopTickers
    <3>1. ram'.eeprom = ram.eeprom
      BY <2>28 DEF StopTickers, TypeOK, RamState
    <3> QED BY <2>28, <3>1, QuietStep DEF StopTickers, Awake
  <2>29. CASE StartTickers
    <3>1. ram'.eeprom = ram.eeprom
      BY <2>29 DEF StartTickers, TypeOK, RamState
    <3> QED BY <2>29, <3>1, QuietStep DEF StartTickers, Awake
  <2>30. ASSUME NEW c \in Choices, NEW reboot \in BOOLEAN, WebSave(c, reboot)
        PROVE  RadioInv'
    <3>1. ~boot.rfOff /\ pc = "loop"
      BY <2>30, NetworkHasRadio DEF WebSave, WebReached, InLoop
    <3>2. PICK s \in Saves(Normalise(c)) :
            /\ flash' = s.file
            /\ IF reboot /\ s.ok THEN Restart
               ELSE /\ dev' = Normalise(c)
                    /\ ram' = [ram EXCEPT !.pending = @ /\ ~s.ok]
                    /\ UNCHANGED <<pc, boot>>
      BY <2>30 DEF WebSave
    <3>3. flash' = Normalise(c) /\ Normalise(c) \in Config
      BY <3>2, SavesWrite, ChoicesAreConfigs, NormaliseType
    <3>4. CASE reboot /\ s.ok
      BY <3>1, <3>2, <3>4, RestartKeepsRadio
    <3>5. CASE ~(reboot /\ s.ok)
      <4>1. dev' = flash' /\ ram'.eeprom = ram.eeprom /\ UNCHANGED <<pc, boot>>
        BY <3>2, <3>3, <3>5 DEF TypeOK, RamState
      <4> QED BY <3>1, <3>3, <4>1, WorkingRadio
              DEF RadioInv, OfflineStored, RadioOffIsOffline, Awake
    <3> QED BY <3>4, <3>5
  <2>31. ASSUME NEW c \in Choices, NEW reboot \in BOOLEAN, WebSocketSave(c, reboot)
        PROVE  RadioInv'
    <3>1. ~boot.rfOff /\ pc = "loop"
      BY <2>31, NetworkHasRadio DEF WebSocketSave, WebReached, InLoop
    <3> QED BY <2>31, <3>1, ChoicesAreConfigs, SetConfigKeepsRadio
            DEF WebSocketSave, TypeOK
  <2>32. CASE WebPortalRequest
    BY <2>32, RestartKeepsRadio DEF WebPortalRequest, WebReached, InLoop
  <2>33. CASE WebUpdate
    BY <2>33, RestartKeepsRadio DEF WebUpdate, WebReached, InLoop
  <2>34. ASSUME NEW c \in Choices, NEW reboot \in BOOLEAN, MqttSetConfig(c, reboot)
        PROVE  RadioInv'
    <3>1. ~boot.rfOff /\ pc = "loop"
      BY <2>34, NetworkHasRadio DEF MqttSetConfig, InLoop
    <3> QED BY <2>34, <3>1, ChoicesAreConfigs, SetConfigKeepsRadio
            DEF MqttSetConfig, TypeOK
  <2>35. CASE ToggleOffline
    BY <2>35, RestartKeepsRadio DEF ToggleOffline
  <2>36. CASE CheckWifi
    <3>1. CASE ram.attempts = MaxAttempts
      BY <2>36, <3>1, RestartKeepsRadio DEF CheckWifi, TooManyAttempts, GiveUp, InLoop
    <3>2. CASE ram.attempts # MaxAttempts
      <4>1. ram'.eeprom = ram.eeprom
        BY <2>36, <3>2 DEF CheckWifi, TooManyAttempts, GiveUp, TypeOK, RamState
      <4> QED BY <2>36, <3>2, <4>1, QuietStep DEF CheckWifi, TooManyAttempts, GiveUp, InLoop, Awake
    <3> QED BY <3>1, <3>2
  <2>37. CASE NetDown
    <3>1. ram'.eeprom = ram.eeprom
      BY <2>37 DEF NetDown, TypeOK, RamState
    <3>2. Mode' = Mode
      BY <2>37, <3>1, SameMode DEF NetDown
    <3> QED BY <2>37, <3>1, <3>2
            DEF NetDown, RadioInv, OfflineStored, RadioOffIsOffline
  <2>38. CASE NetUp
    <3>1. Mode' = Mode
      BY <2>38, SameMode DEF NetUp
    <3> QED BY <2>38, <3>1 DEF NetUp, RadioInv, OfflineStored, RadioOffIsOffline
  <2>39. CASE SdkReconnect
    <3>1. ram'.eeprom = ram.eeprom
      BY <2>39 DEF SdkReconnect, TypeOK, RamState
    <3> QED BY <2>39, <3>1, QuietStep DEF SdkReconnect, InLoop, Awake
  <2>40. CASE UNCHANGED vars
    <3>1. Mode' = Mode
      BY <2>40, SameMode DEF vars
    <3> QED BY <2>40, <3>1 DEF vars, RadioInv, OfflineStored, RadioOffIsOffline
  <2> QED BY <2>1, <2>2, <2>3, <2>4, <2>5, <2>6, <2>7, <2>8, <2>9,
    <2>10, <2>11, <2>12, <2>13, <2>14, <2>15, <2>16, <2>17, <2>18,
    <2>19, <2>20, <2>21, <2>22, <2>23, <2>24, <2>25, <2>26, <2>27,
    <2>28, <2>29, <2>30, <2>31, <2>32, <2>33, <2>34, <2>35, <2>36,
    <2>37, <2>38, <2>39, <2>40
    DEF Next, BootStep, NetworkStep, SetupStep, LoopStep, UserStep, RemoteStep,
        EnvStep
<1> QED BY <1>1, <1>2, TypeCorrect, PTL DEF Spec

\* On every board whose data-log module always answers its probe and whose
\* saves reach flash: no boot uses a radio it came up without.
THEOREM RadioIsReady ==
  ASSUME ~BusMayFail, ~SaveMayFail
  PROVE  Spec => []RadioReady
<1>1. TypeOK /\ RadioInv => RadioReady
  BY NetworkHasRadio DEF RadioReady, UsesRadio
<1> QED BY <1>1, AlwaysRadioInv, TypeCorrect, PTL
----------------------------------------------------------------------------
(* The web UI.                                                             *)

\* Before WiFi, asleep or without power there is no UI to speak of.
LEMMA NoUiYet ==
  ASSUME pc' \in {"off", "asleep", "boot", "button", "window", "guard"}
  PROVE  UiInv'
BY DEF UiInv

\* A step that leaves configuration, web server and soft-AP alone, and moves
\* within the network half of setup() or from its end into the loop.
LEMMA QuietUi ==
  ASSUME UiInv, dev' = dev, ram'.web = ram.web, ram'.ap = ram.ap,
         \/ pc' = pc
         \/ pc \in {"wifi", "portal"} /\ pc' \in {"portal", "services"}
         \/ pc = "remote" /\ pc' = "loop"
  PROVE  UiInv'
BY DEF UiInv

\* A step into the loop with the UI up, on a board that has its soft-AP or
\* can do without.
LEMMA UiUp ==
  ASSUME pc' = "loop", ram'.web, Display \/ RuntimeConfig \/ ram'.ap
  PROVE  UiInv'
BY DEF UiInv

\* A browser that gets through found the UI, and the soft-AP on a battery
\* board nobody reconfigures at run time.
LEMMA ReachedOverUi ==
  ASSUME TypeOK, UiInv, WebReached
  PROVE  pc = "loop" /\ ram.web /\ (Display \/ RuntimeConfig \/ ram.ap)
<1>1. pc = "loop" /\ ram.web /\ (Display \/ Mode = "Config")
  BY DEF WebReached, InLoop
<1>2. Mode = "Config" => dev.configMode
  BY DEF Mode, CurrentMode
<1> QED BY <1>1, <1>2, SwitchesAreBoolean DEF UiInv, TypeOK

\* setConfig() restarts or leaves the UI of the loop as it was.
LEMMA SetConfigKeepsUi ==
  ASSUME NEW c \in Config, NEW reboot \in BOOLEAN, NEW next \in RamState,
         SetConfig(c, reboot, next),
         next.web, Display \/ RuntimeConfig \/ next.ap
  PROVE  UiInv'
<1>1. PICK s \in Saves(Normalise(c)) :
        /\ flash' = s.file
        /\ IF reboot THEN Restart
           ELSE /\ dev' = Normalise(c)
                /\ ram' = [next EXCEPT !.pending = @ /\ ~s.ok]
                /\ pc' = "loop"
                /\ UNCHANGED boot
  BY DEF SetConfig
<1>2. CASE reboot
  BY <1>1, <1>2, RestartBoots, NoUiYet
<1>3. CASE ~reboot
  <2>1. pc' = "loop" /\ ram'.web = next.web /\ ram'.ap = next.ap
    BY <1>1, <1>3 DEF RamState
  <2> QED BY <2>1, UiUp
<1> QED BY <1>2, <1>3

\* What remote control leaves in RAM does not touch the UI.
LEMMA RemoteFlagsKeepUi ==
  ASSUME ram \in RamState, NEW mode
  PROVE  RemoteFlags(mode).web = ram.web /\ RemoteFlags(mode).ap = ram.ap
<1>1. /\ Running(ram) \in RamState
      /\ Running(ram).web = ram.web /\ Running(ram).ap = ram.ap
  BY DEF Running, RamState
<1> QED BY <1>1 DEF RemoteFlags, RamState

\* A save of the configuration in RAM does not touch the UI.
LEMMA SavePendingKeepsUi ==
  ASSUME ram \in RamState, NEW pending, NEW link, SavePending(pending, link)
  PROVE  ram'.web = ram.web /\ ram'.ap = ram.ap
BY DEF SavePending, RamState

\* Deep sleep, or a board that cannot and stays where it is.
LEMMA DeepSleepKeepsUi ==
  ASSUME UiInv, NEW rf, DeepSleep(rf, UNCHANGED <<dev, pc>>)
  PROVE  UiInv'
<1>1. CASE CanDeepSleep
  BY <1>1, NoUiYet DEF DeepSleep
<1>2. CASE ~CanDeepSleep
  BY <1>2, QuietUi DEF DeepSleep
<1> QED BY <1>1, <1>2

\* The UI follows the configuration through boot, loop and reconfiguration.
LEMMA AlwaysUiInv == Spec => []UiInv
<1>1. Init => UiInv
  BY DEF Init, UiInv
<1>2. TypeOK /\ UiInv /\ [Next]_vars => UiInv'
  <2> SUFFICES ASSUME TypeOK, UiInv, [Next]_vars
               PROVE  UiInv'
    OBVIOUS
  <2> USE DEF stored, rtc, env
  <2>1. CASE PowerOn
    BY <2>1, NoUiYet DEF PowerOn, Reboot
  <2>2. CASE PowerCut
    BY <2>2, NoUiYet DEF PowerCut, LosePower
  <2>3. CASE PowerCutDuringSave
    BY <2>3, NoUiYet DEF PowerCutDuringSave, LosePower
  <2>4. CASE TimerWake
    BY <2>4, NoUiYet DEF TimerWake, Reboot
  <2>5. CASE ResetPress
    BY <2>5, NoUiYet DEF ResetPress, Reboot
  <2>6. CASE MountConfig
    BY <2>6, NoUiYet DEF MountConfig
  <2>7. CASE ReadBootMark
    BY <2>7, NoUiYet DEF ReadBootMark
  <2>8. CASE NoPress
    BY <2>8, NoUiYet DEF NoPress
  <2>9. CASE PressMode
    BY <2>9, NoUiYet DEF PressMode
  <2>10. CASE FactoryReset
    BY <2>10, RestartBoots, NoUiYet DEF FactoryReset
  <2>11. CASE RestartForRadio
    BY <2>11, RestartBoots, NoUiYet DEF RestartForRadio
  <2>12. CASE BootOffline
    BY <2>12 DEF BootOffline, ProbeForOffline, UiInv
  <2>13. CASE BootOnline
    <3>1. PICK eeprom \in IF ProbeForOffline THEN Probe ELSE {FALSE} :
            ~StaysOffline(eeprom)
      BY <2>13 DEF BootOnline
    <3>2. Display => dev.configMode \/ ~dev.offlineMode
      BY <3>1 DEF StaysOffline, CurrentMode
    <3>3. /\ dev.configMode => dev'.configMode
          /\ dev'.offlineMode = dev.offlineMode
      BY <2>13 DEF BootOnline, TypeOK, Config
    <3> QED BY <2>13, <3>2, <3>3 DEF BootOnline, UiInv
  <2>14. CASE OpenRequestedPortal
    <3>1. dev'.configMode
      BY <2>14 DEF OpenRequestedPortal, TypeOK, Config
    <3> QED BY <2>14, <3>1 DEF OpenRequestedPortal, UiInv
  <2>15. CASE FastConnect
    <3>1. ram'.web = ram.web /\ ram'.ap = ram.ap
      BY <2>15 DEF FastConnect, TypeOK, RamState
    <3> QED BY <2>15, <3>1, QuietUi DEF FastConnect
  <2>16. CASE AutoConnect
    BY <2>16, SavePendingKeepsUi, QuietUi DEF AutoConnect, TypeOK
  <2>17. CASE OpenPortal
    <3>1. ram'.web = ram.web /\ ram'.ap = ram.ap
      BY <2>17 DEF OpenPortal, TypeOK, RamState
    <3> QED BY <2>17, <3>1, QuietUi DEF OpenPortal
  <2>18. CASE SleepAndRetry
    <3>1. CASE CanDeepSleep
      BY <2>18, <3>1, NoUiYet DEF SleepAndRetry, DeepSleep
    <3>2. CASE ~CanDeepSleep
      <4>1. pc' = "services" /\ dev' = [dev EXCEPT !.configMode = TRUE]
        BY <2>18, <3>2 DEF SleepAndRetry, DeepSleep
      <4>2. dev'.configMode
        BY <4>1 DEF TypeOK, Config
      <4> QED BY <4>1, <4>2 DEF UiInv
    <3> QED BY <3>1, <3>2
  <2>19. CASE PortalSave
    <3>1. CASE net /\ ~boot.rfOff
      <4>1. SavePending(TRUE, TRUE) /\ pc' = "services" /\ dev' = dev
        BY <2>19, <3>1 DEF PortalSave
      <4> QED BY <2>19, <4>1, SavePendingKeepsUi, QuietUi DEF PortalSave, TypeOK
    <3>2. CASE ~(net /\ ~boot.rfOff)
      BY <2>19, <3>2, QuietUi DEF PortalSave
    <3> QED BY <3>1, <3>2
  <2>20. CASE PortalEnds
    <3>1. ram'.web = ram.web /\ ram'.ap = ram.ap
      BY <2>20 DEF PortalEnds, TypeOK, RamState
    <3> QED BY <2>20, <3>1, QuietUi DEF PortalEnds
  <2>21. CASE StartServices
    <3>1. pc = "services" /\ pc' = "remote" /\ dev' = dev
      BY <2>21 DEF StartServices
    <3>2. ram'.web = SetupPlan(dev, Display).webServer /\ ram'.ap = dev.configMode
      BY <2>21 DEF StartServices, RaisesAp, TypeOK, RamState
    <3>3. dev.configMode => SetupPlan(dev, Display).webServer
      BY DEF SetupPlan, NoPlan
    <3>4. Display /\ ~dev.configMode /\ ~dev.offlineMode
            => SetupPlan(dev, Display).webServer
      BY DEF SetupPlan, LiveUi
    <3> QED BY <3>1, <3>2, <3>3, <3>4 DEF UiInv
  <2>22. CASE FinishSetup
    <3>1. ram'.web = ram.web /\ ram'.ap = ram.ap
      BY <2>22 DEF FinishSetup, TypeOK, RamState, Running
    <3> QED BY <2>22, <3>1, QuietUi DEF FinishSetup
  <2>23. ASSUME NEW mode \in {"on", "off"},
               RemoteConfigMode(mode)
        PROVE  UiInv'
    <3>1. RuntimeConfig /\ pc = "remote" /\ pc' = "loop"
      BY <2>23 DEF RemoteConfigMode, FetchesRemote
    <3>2. ram'.web = ram.web
      BY <2>23, RemoteFlagsKeepUi DEF RemoteConfigMode, TypeOK
    <3> QED BY <3>1, <3>2 DEF UiInv
  <2>24. ASSUME NEW mode \in {"keep", "on", "off"}, NEW c \in Choices,
               NEW reboot \in BOOLEAN,
               RemoteSetConfig(mode, c, reboot)
        PROVE  UiInv'
    <3>1. RuntimeConfig /\ pc = "remote"
      BY <2>24 DEF RemoteSetConfig, FetchesRemote
    <3>2. SetConfig(c, reboot, RemoteFlags(mode)) /\ c \in Config
      BY <2>24, ChoicesAreConfigs DEF RemoteSetConfig
    <3>3. RemoteFlags(mode) \in RamState /\ RemoteFlags(mode).web = ram.web
      BY RemoteFlagsType, RemoteFlagsKeepUi DEF TypeOK
    <3>4. CASE Display
      BY <3>1, <3>2, <3>3, <3>4, SetConfigKeepsUi DEF UiInv
    <3>5. CASE ~Display
      <4>1. Restart \/ pc' = "loop"
        BY <3>2, SetConfigEnds
      <4> QED BY <3>1, <3>5, <4>1, RestartBoots, NoUiYet DEF UiInv
    <3> QED BY <3>4, <3>5
  <2>25. CASE LoopOffline
    BY <2>25, DeepSleepKeepsUi DEF LoopOffline
  <2>26. CASE LoopDeepSleep
    BY <2>26, DeepSleepKeepsUi DEF LoopDeepSleep
  <2>27. CASE LoopLightSleep
    <3>1. ram'.web = ram.web /\ ram'.ap = ram.ap
      BY <2>27 DEF LoopLightSleep, TypeOK, RamState
    <3> QED BY <2>27, <3>1, QuietUi DEF LoopLightSleep
  <2>28. CASE StopTickers
    <3>1. ram'.web = ram.web /\ ram'.ap = ram.ap
      BY <2>28 DEF StopTickers, TypeOK, RamState
    <3> QED BY <2>28, <3>1, QuietUi DEF StopTickers
  <2>29. CASE StartTickers
    <3>1. ram'.web = ram.web /\ ram'.ap = ram.ap
      BY <2>29 DEF StartTickers, TypeOK, RamState
    <3> QED BY <2>29, <3>1, QuietUi DEF StartTickers
  <2>30. ASSUME NEW c \in Choices, NEW reboot \in BOOLEAN,
               WebSave(c, reboot)
        PROVE  UiInv'
    <3>1. pc = "loop" /\ ram.web /\ (Display \/ RuntimeConfig \/ ram.ap)
      BY <2>30, ReachedOverUi DEF WebSave
    <3>2. PICK s \in Saves(Normalise(c)) :
            IF reboot /\ s.ok THEN Restart
            ELSE /\ dev' = Normalise(c)
                 /\ ram' = [ram EXCEPT !.pending = @ /\ ~s.ok]
                 /\ UNCHANGED <<pc, boot>>
      BY <2>30 DEF WebSave
    <3>3. CASE reboot /\ s.ok
      BY <3>2, <3>3, RestartBoots, NoUiYet
    <3>4. CASE ~(reboot /\ s.ok)
      <4>1. pc' = pc /\ ram'.web = ram.web /\ ram'.ap = ram.ap
        BY <3>2, <3>4 DEF TypeOK, RamState
      <4> QED BY <3>1, <4>1, UiUp
    <3> QED BY <3>3, <3>4
  <2>31. ASSUME NEW c \in Choices, NEW reboot \in BOOLEAN,
               WebSocketSave(c, reboot)
        PROVE  UiInv'
    BY <2>31, ReachedOverUi, ChoicesAreConfigs, SetConfigKeepsUi
       DEF WebSocketSave, TypeOK
  <2>32. CASE WebPortalRequest
    BY <2>32, RestartBoots, NoUiYet DEF WebPortalRequest
  <2>33. CASE WebUpdate
    BY <2>33, RestartBoots, NoUiYet DEF WebUpdate
  <2>34. CASE ToggleOffline
    BY <2>34, RestartBoots, NoUiYet DEF ToggleOffline
  <2>35. ASSUME NEW c \in Choices, NEW reboot \in BOOLEAN,
               MqttSetConfig(c, reboot)
        PROVE  UiInv'
    <3>1. RuntimeConfig /\ pc = "loop" /\ Mode = "Live"
      BY <2>35 DEF MqttSetConfig, InLoop
    <3>2. SetConfig(c, reboot, ram) /\ c \in Config
      BY <2>35, ChoicesAreConfigs DEF MqttSetConfig
    <3>3. CASE Display
      <4>1. ~(dev.offlineMode /\ ~dev.configMode)
        BY <3>1, <3>3 DEF Mode, CurrentMode
      <4> QED BY <3>1, <3>2, <3>3, <4>1, SetConfigKeepsUi DEF UiInv, TypeOK
    <3>4. CASE ~Display
      <4>1. Restart \/ pc' = "loop"
        BY <3>2, SetConfigEnds
      <4> QED BY <3>1, <3>4, <4>1, RestartBoots, NoUiYet DEF UiInv
    <3> QED BY <3>3, <3>4
  <2>36. CASE CheckWifi
    <3>1. CASE TooManyAttempts
      BY <2>36, <3>1, RestartBoots, NoUiYet DEF CheckWifi, GiveUp
    <3>2. CASE ~TooManyAttempts
      <4>1. /\ UNCHANGED <<pc, dev>>
            /\ ram' = [ram EXCEPT !.attempts = @ + 1, !.link = CanJoin]
        BY <2>36, <3>2 DEF CheckWifi
      <4>2. ram'.web = ram.web /\ ram'.ap = ram.ap
        BY <4>1 DEF TypeOK, RamState
      <4> QED BY <4>1, <4>2, QuietUi
    <3> QED BY <3>1, <3>2
  <2>37. CASE NetDown
    <3>1. ram'.web = ram.web /\ ram'.ap = ram.ap
      BY <2>37 DEF NetDown, TypeOK, RamState
    <3> QED BY <2>37, <3>1, QuietUi DEF NetDown
  <2>38. CASE NetUp
    <3>1. ram'.web = ram.web /\ ram'.ap = ram.ap
      BY <2>38 DEF NetUp, TypeOK, RamState
    <3> QED BY <2>38, <3>1, QuietUi DEF NetUp
  <2>39. CASE SdkReconnect
    <3>1. ram'.web = ram.web /\ ram'.ap = ram.ap
      BY <2>39 DEF SdkReconnect, TypeOK, RamState
    <3> QED BY <2>39, <3>1, QuietUi DEF SdkReconnect
  <2>40. CASE UNCHANGED vars
    BY <2>40, QuietUi DEF vars
  <2> QED BY <2>1, <2>2, <2>3, <2>4, <2>5, <2>6, <2>7, <2>8, <2>9, <2>10,
    <2>11, <2>12, <2>13, <2>14, <2>15, <2>16, <2>17, <2>18, <2>19, <2>20,
    <2>21, <2>22, <2>23, <2>24, <2>25, <2>26, <2>27, <2>28, <2>29, <2>30,
    <2>31, <2>32, <2>33, <2>34, <2>35, <2>36, <2>37, <2>38, <2>39, <2>40
    DEF Next, BootStep, NetworkStep, SetupStep, LoopStep, UserStep, RemoteStep,
        EnvStep
<1> QED BY <1>1, <1>2, TypeCorrect, PTL DEF Spec

\* On every battery board that is not reconfigured at run time: whoever enters
\* config mode, and whatever failed on the way, the web UI is up with the
\* soft-AP to reach it.
THEOREM ConfigIsReachable ==
  ASSUME ~Display, ~RuntimeConfig
  PROVE  Spec => []ConfigModeReachable
<1>1. UiInv => ConfigModeReachable
  BY DEF UiInv, ConfigModeReachable, InLoop, Mode, CurrentMode
<1> QED BY <1>1, AlwaysUiInv, PTL

\* On every display board, whatever is saved, sent or pushed to it at run time
\* and whichever saves fail: outside offline mode the loop serves its web UI.
THEOREM DisplayKeepsUi == Spec => []DisplayServesUi
<1>1. UiInv => DisplayServesUi
  BY DEF UiInv, DisplayServesUi, Mode, CurrentMode
<1> QED BY <1>1, AlwaysUiInv, PTL
----------------------------------------------------------------------------
(* The portal request.                                                     *)

\* What a save of a configuration that is not offline leaves in flash.
LEMMA SavesStayOnline ==
  ASSUME NeverOffline, NEW c \in Config, ~c.offlineMode, NEW s \in Saves(c)
  PROVE  s.file \in Config => ~s.file.offlineMode
<1>1. s.file \in {c, flash, TornFile}
  BY DEF Saves
<1> QED BY <1>1, FileStatesAreDistinct DEF NeverOffline

\* A restart that leaves a file of an online configuration.
LEMMA OnlineReset ==
  ASSUME dev' = DefaultConfig, flash' \in Config => ~flash'.offlineMode,
         pc' \in {"off", "asleep", "boot"}
  PROVE  PortalInv'
BY DefaultIsOnline DEF PortalInv, NeverOffline, PortalRequestOneBoot

\* A step that sets no request, and enters the second half of setup() without.
LEMMA RequestIsSpent ==
  ASSUME PortalInv, dev'.offlineMode => dev.offlineMode,
         flash' \in Config => ~flash'.offlineMode, portalReq' => portalReq,
         \/ pc' = pc
         \/ pc \in {"portal", "services", "remote", "loop"}
         \/ pc' \in {"boot", "button", "window", "guard", "wifi"}
         \/ ~portalReq'
  PROVE  PortalInv'
BY DEF PortalInv, NeverOffline, PortalRequestOneBoot

\* A save of the configuration in RAM, pending or not.
LEMMA SavePendingStaysOnline ==
  ASSUME TypeOK, NeverOffline, NEW pending, NEW link, SavePending(pending, link)
  PROVE  flash' \in Config => ~flash'.offlineMode
<1>1. flash' = flash \/ \E s \in Saves(dev) : flash' = s.file
  BY DEF SavePending
<1> QED BY <1>1, SavesStayOnline DEF NeverOffline, TypeOK

\* setConfig() with an online configuration.
LEMMA SetConfigStaysOnline ==
  ASSUME TypeOK, PortalInv, pc \in {"remote", "loop"}, portalReq' = portalReq,
         NEW c \in Config, ~c.offlineMode, NEW reboot \in BOOLEAN, NEW next,
         SetConfig(c, reboot, next)
  PROVE  PortalInv'
<1>1. PICK s \in Saves(Normalise(c)) :
        /\ flash' = s.file
        /\ IF reboot THEN Restart
           ELSE /\ dev' = Normalise(c)
                /\ ram' = [next EXCEPT !.pending = @ /\ ~s.ok]
                /\ pc' = "loop"
                /\ UNCHANGED boot
  BY DEF SetConfig
<1>2. Normalise(c) \in Config /\ ~Normalise(c).offlineMode
  BY NormaliseType, NormaliseOffline
<1>3. flash' \in Config => ~flash'.offlineMode
  BY <1>1, <1>2, SavesStayOnline DEF PortalInv
<1>4. CASE reboot
  BY <1>1, <1>3, <1>4, RestartBoots, OnlineReset
<1>5. CASE ~reboot
  BY <1>1, <1>2, <1>3, <1>5, RequestIsSpent DEF PortalInv, NeverOffline
<1> QED BY <1>4, <1>5

\* Deep sleep, or a board that cannot and goes on with its configuration.
LEMMA DeepSleepStaysOnline ==
  ASSUME TypeOK, PortalInv, NEW rf, NEW back \in BOOLEAN, DeepSleep(rf, back),
         flash' = flash,
         back => /\ dev'.offlineMode = dev.offlineMode
                 /\ pc' = pc \/ ~portalReq
  PROVE  PortalInv'
<1>1. CASE CanDeepSleep
  BY <1>1, OnlineReset DEF DeepSleep, PortalInv, NeverOffline
<1>2. CASE ~CanDeepSleep
  BY <1>2, RequestIsSpent DEF DeepSleep, PortalInv, NeverOffline
<1> QED BY <1>1, <1>2

\* Without an offline configuration no boot passes setupWifi() by.
LEMMA AlwaysPortalInv ==
  ASSUME ~Display, \A c \in Choices : ~c.offlineMode
  PROVE  Spec => []PortalInv
<1>1. Init => PortalInv
  BY DefaultIsOnline, FileStatesAreDistinct
     DEF Init, PortalInv, NeverOffline, PortalRequestOneBoot
<1>2. TypeOK /\ PortalInv /\ [Next]_vars => PortalInv'
  <2> SUFFICES ASSUME TypeOK, PortalInv, [Next]_vars
               PROVE  PortalInv'
    OBVIOUS
  <2> USE DEF stored, rtc, env
  <2>1. CASE PowerOn
    BY <2>1, OnlineReset DEF PowerOn, Reboot, PortalInv, NeverOffline
  <2>2. CASE PowerCut
    BY <2>2, OnlineReset DEF PowerCut, LosePower, PortalInv, NeverOffline
  <2>3. CASE PowerCutDuringSave
    BY <2>3, OnlineReset, FileStatesAreDistinct
       DEF PowerCutDuringSave, LosePower
  <2>4. CASE TimerWake
    BY <2>4, OnlineReset DEF TimerWake, Reboot, PortalInv, NeverOffline
  <2>5. CASE ResetPress
    BY <2>5, OnlineReset DEF ResetPress, Reboot, PortalInv, NeverOffline
  <2>6. CASE MountConfig
    <3>1. pc' = "button" /\ portalReq' = portalReq
      BY <2>6 DEF MountConfig
    <3>2. ~dev'.offlineMode
      BY <2>6, DefaultIsOnline, NormaliseOffline
         DEF MountConfig, PortalInv, NeverOffline, TypeOK, Files
    <3>3. flash' = flash \/ \E s \in Saves(DefaultConfig) : flash' = s.file
      BY <2>6 DEF MountConfig
    <3>4. flash' \in Config => ~flash'.offlineMode
      BY <3>3, InitialValues, DefaultIsOnline, SavesStayOnline
         DEF PortalInv, NeverOffline
    <3> QED BY <3>1, <3>2, <3>4, RequestIsSpent DEF PortalInv, NeverOffline
  <2>7. CASE ReadBootMark
    BY <2>7, RequestIsSpent DEF ReadBootMark, PortalInv, NeverOffline
  <2>8. CASE NoPress
    BY <2>8, RequestIsSpent DEF NoPress, PortalInv, NeverOffline
  <2>9. CASE PressMode
    <3>1. dev' \in Config /\ dev'.offlineMode = dev.offlineMode
      BY <2>9 DEF PressMode, TypeOK, Config
    <3>2. \E s \in Saves(dev') : flash' = s.file
      BY <2>9 DEF PressMode
    <3>3. flash' \in Config => ~flash'.offlineMode
      BY <3>1, <3>2, SavesStayOnline DEF PortalInv, NeverOffline
    <3> QED BY <2>9, <3>1, <3>3, RequestIsSpent DEF PressMode
  <2>10. CASE FactoryReset
    BY <2>10, RestartBoots, OnlineReset, FileStatesAreDistinct DEF FactoryReset
  <2>11. CASE RestartForRadio
    BY <2>11, RestartBoots, OnlineReset DEF RestartForRadio, PortalInv, NeverOffline
  <2>12. CASE BootOffline
    BY <2>12 DEF BootOffline, ProbeForOffline, PortalInv, NeverOffline
  <2>13. CASE BootOnline
    <3>1. dev'.offlineMode = dev.offlineMode
      BY <2>13 DEF BootOnline, TypeOK, Config
    <3> QED BY <2>13, <3>1, RequestIsSpent DEF BootOnline, PortalInv, NeverOffline
  <2>14. CASE OpenRequestedPortal
    <3>1. dev'.offlineMode = dev.offlineMode
      BY <2>14 DEF OpenRequestedPortal, TypeOK, Config
    <3> QED BY <2>14, <3>1, RequestIsSpent
            DEF OpenRequestedPortal, PortalInv, NeverOffline
  <2>15. CASE FastConnect
    BY <2>15, RequestIsSpent DEF FastConnect, PortalInv, NeverOffline
  <2>16. CASE AutoConnect
    BY <2>16, SavePendingStaysOnline, RequestIsSpent DEF AutoConnect, PortalInv
  <2>17. CASE OpenPortal
    BY <2>17, RequestIsSpent DEF OpenPortal, PortalInv, NeverOffline
  <2>18. CASE SleepAndRetry
    <3>1. [dev EXCEPT !.configMode = TRUE].offlineMode = dev.offlineMode
      BY DEF TypeOK, Config
    <3> QED BY <2>18, <3>1, DeepSleepStaysOnline DEF SleepAndRetry
  <2>19. CASE PortalSave
    <3>1. flash' = flash \/ SavePending(TRUE, TRUE)
      BY <2>19 DEF PortalSave
    <3>2. flash' \in Config => ~flash'.offlineMode
      BY <3>1, SavePendingStaysOnline DEF PortalInv, NeverOffline
    <3> QED BY <2>19, <3>2, RequestIsSpent DEF PortalSave
  <2>20. CASE PortalEnds
    BY <2>20, RequestIsSpent DEF PortalEnds, PortalInv, NeverOffline
  <2>21. CASE StartServices
    BY <2>21, RequestIsSpent DEF StartServices, PortalInv, NeverOffline
  <2>22. CASE FinishSetup
    BY <2>22, RequestIsSpent DEF FinishSetup, PortalInv, NeverOffline
  <2>23. ASSUME NEW mode \in {"on", "off"},
               RemoteConfigMode(mode)
        PROVE  PortalInv'
    <3>1. dev'.offlineMode = dev.offlineMode
      BY <2>23 DEF RemoteConfigMode, TypeOK, Config
    <3> QED BY <2>23, <3>1, RequestIsSpent
            DEF RemoteConfigMode, PortalInv, NeverOffline
  <2>24. ASSUME NEW mode \in {"keep", "on", "off"}, NEW c \in Choices,
               NEW reboot \in BOOLEAN,
               RemoteSetConfig(mode, c, reboot)
        PROVE  PortalInv'
    BY <2>24, ChoicesAreConfigs, SetConfigStaysOnline DEF RemoteSetConfig
  <2>25. CASE LoopOffline
    BY <2>25, DeepSleepStaysOnline DEF LoopOffline
  <2>26. CASE LoopDeepSleep
    BY <2>26, DeepSleepStaysOnline DEF LoopDeepSleep
  <2>27. CASE LoopLightSleep
    BY <2>27, RequestIsSpent DEF LoopLightSleep, PortalInv, NeverOffline
  <2>28. CASE StopTickers
    BY <2>28, RequestIsSpent DEF StopTickers, PortalInv, NeverOffline
  <2>29. CASE StartTickers
    BY <2>29, RequestIsSpent DEF StartTickers, PortalInv, NeverOffline
  <2>30. ASSUME NEW c \in Choices, NEW reboot \in BOOLEAN,
               WebSave(c, reboot)
        PROVE  PortalInv'
    <3>1. PICK s \in Saves(Normalise(c)) :
            /\ flash' = s.file
            /\ IF reboot /\ s.ok THEN Restart
               ELSE /\ dev' = Normalise(c)
                    /\ ram' = [ram EXCEPT !.pending = @ /\ ~s.ok]
                    /\ UNCHANGED <<pc, boot>>
      BY <2>30 DEF WebSave
    <3>2. Normalise(c) \in Config /\ ~Normalise(c).offlineMode
      BY ChoicesAreConfigs, NormaliseType, NormaliseOffline
    <3>3. flash' \in Config => ~flash'.offlineMode
      BY <3>1, <3>2, SavesStayOnline DEF PortalInv
    <3>4. CASE reboot /\ s.ok
      BY <3>1, <3>3, <3>4, RestartBoots, OnlineReset
    <3>5. CASE ~(reboot /\ s.ok)
      BY <2>30, <3>1, <3>2, <3>3, <3>5, RequestIsSpent
         DEF WebSave, PortalInv, NeverOffline
    <3> QED BY <3>4, <3>5
  <2>31. ASSUME NEW c \in Choices, NEW reboot \in BOOLEAN,
               WebSocketSave(c, reboot)
        PROVE  PortalInv'
    BY <2>31, ChoicesAreConfigs, SetConfigStaysOnline
       DEF WebSocketSave, WebReached, InLoop
  <2>32. CASE WebPortalRequest
    BY <2>32, RestartBoots, OnlineReset DEF WebPortalRequest, PortalInv, NeverOffline
  <2>33. CASE WebUpdate
    BY <2>33, RestartBoots, OnlineReset DEF WebUpdate, PortalInv, NeverOffline
  <2>34. CASE ToggleOffline
    BY <2>34 DEF ToggleOffline
  <2>35. ASSUME NEW c \in Choices, NEW reboot \in BOOLEAN,
               MqttSetConfig(c, reboot)
        PROVE  PortalInv'
    BY <2>35, ChoicesAreConfigs, SetConfigStaysOnline DEF MqttSetConfig, InLoop
  <2>36. CASE CheckWifi
    <3>1. CASE TooManyAttempts
      BY <2>36, <3>1, RestartBoots, OnlineReset
         DEF CheckWifi, GiveUp, PortalInv, NeverOffline
    <3>2. CASE ~TooManyAttempts
      BY <2>36, <3>2, RequestIsSpent DEF CheckWifi, PortalInv, NeverOffline
    <3> QED BY <3>1, <3>2
  <2>37. CASE NetDown
    BY <2>37, RequestIsSpent DEF NetDown, PortalInv, NeverOffline
  <2>38. CASE NetUp
    BY <2>38, RequestIsSpent DEF NetUp, PortalInv, NeverOffline
  <2>39. CASE SdkReconnect
    BY <2>39, RequestIsSpent DEF SdkReconnect, PortalInv, NeverOffline
  <2>40. CASE UNCHANGED vars
    BY <2>40, RequestIsSpent DEF vars, PortalInv, NeverOffline
  <2> QED BY <2>1, <2>2, <2>3, <2>4, <2>5, <2>6, <2>7, <2>8, <2>9, <2>10,
    <2>11, <2>12, <2>13, <2>14, <2>15, <2>16, <2>17, <2>18, <2>19, <2>20,
    <2>21, <2>22, <2>23, <2>24, <2>25, <2>26, <2>27, <2>28, <2>29, <2>30,
    <2>31, <2>32, <2>33, <2>34, <2>35, <2>36, <2>37, <2>38, <2>39, <2>40
    DEF Next, BootStep, NetworkStep, SetupStep, LoopStep, UserStep, RemoteStep,
        EnvStep
<1> QED BY <1>1, <1>2, TypeCorrect, PTL DEF Spec

\* On a battery board with no offline configuration, whatever is saved, fails or
\* is cut off: a portal request is spent by the boot it asked for, as the comment
\* in sleep_modes.h promises.  The offline branch of setup() is the only way
\* past it.
THEOREM PortalRequestIsSpent ==
  ASSUME ~Display, \A c \in Choices : ~c.offlineMode
  PROVE  Spec => []PortalRequestOneBoot
<1>1. PortalInv => PortalRequestOneBoot
  BY DEF PortalInv
<1> QED BY <1>1, AlwaysPortalInv, PTL
=============================================================================
