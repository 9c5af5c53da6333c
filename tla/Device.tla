------------------------------- MODULE Device -------------------------------
(***************************************************************************)
(* The life of one board: power, resets, the boot sequence of setup(), the *)
(* loop, and the sleeps that lead back to a boot.  setup() is split where  *)
(* a reset, a power cut or a change of the network can fall between two of *)
(* its steps; what runs between two such points is one action.             *)
(***************************************************************************)
EXTENDS ModeLogic

CONSTANTS
  Display,       \* the build: TRUE for the display board, FALSE for battery
  Choices,       \* the configurations a save may carry
  LogModule,     \* an RTC + EEPROM module is attached
  BusMayFail,    \* ... and may miss an I2C probe
  SaveMayFail,   \* writing /config.json may fail
  RuntimeConfig, \* remote control and the MQTT setConfig topic are in use
  CanDeepSleep,  \* GPIO16 is wired to RST
  NoFile,        \* no /config.json
  TornFile,      \* a /config.json that does not parse
  MaxAttempts,   \* WIFI_MAX_ATTEMPTS
  MaxUpsets      \* bound: RESET presses, power cuts and factory resets

ASSUME SwitchesAreBoolean ==
  /\ Display \in BOOLEAN /\ LogModule \in BOOLEAN /\ BusMayFail \in BOOLEAN
  /\ SaveMayFail \in BOOLEAN /\ RuntimeConfig \in BOOLEAN
  /\ CanDeepSleep \in BOOLEAN
ASSUME ChoicesAreConfigs == Choices \subseteq Config
ASSUME FileStatesAreDistinct ==
  NoFile \notin Config /\ TornFile \notin Config /\ NoFile # TornFile
ASSUME BoundsAreNatural == MaxAttempts \in Nat /\ MaxUpsets \in Nat

VARIABLES
  flash,      \* /config.json: a configuration, NoFile, or a TornFile
  creds,      \* the SDK holds WiFi credentials
  bootMark,   \* RTC: the boot mark
  portalReq,  \* RTC: the one-boot portal request
  sleepRf,    \* radio mode given to the last ESP.deepSleep
  pc,         \* where the firmware is
  boot,       \* why this boot happened, and whether its radio is usable
  dev,        \* the configuration in RAM
  ram,        \* the rest of the RAM state
  net,        \* environment: the access point answers
  upsets      \* bound on the environment, see MaxUpsets

vars == <<flash, creds, bootMark, portalReq, sleepRf, pc, boot, dev, ram,
          net, upsets>>

stored == <<flash, creds>>
rtc == <<bootMark, portalReq, sleepRf>>
env == <<net, upsets>>

Files == Config \union {NoFile, TornFile}

Setup == {"boot", "button", "window", "guard", "wifi", "portal", "services",
          "remote"}
Awake == Setup \union {"loop"}

\* cause is what really happened, reason what ESP.getResetInfoPtr() reports.
Causes == {"power", "timer", "restart", "pressAsleep", "pressEarly",
           "pressAwake"}
Reasons == {"power", "deepsleep", "restart", "external"}

BootInfo == [cause : Causes, reason : Reasons, rfOff : BOOLEAN, window : BOOLEAN]

RamState == [firstStart : BOOLEAN, pending : BOOLEAN, eeprom : BOOLEAN,
             link : BOOLEAN, ap : BOOLEAN, web : BOOLEAN, mqtt : BOOLEAN,
             tick : {"none", "planned", "running", "stopped"},
             tickerStop : BOOLEAN, tickerStart : BOOLEAN,
             attempts : 0..MaxAttempts]

FreshRam == [firstStart |-> FALSE, pending |-> FALSE, eeprom |-> FALSE,
             link |-> FALSE, ap |-> FALSE, web |-> FALSE, mqtt |-> FALSE,
             tick |-> "none", tickerStop |-> FALSE, tickerStart |-> FALSE,
             attempts |-> 0]

TypeOK ==
  /\ flash \in Files
  /\ creds \in BOOLEAN /\ bootMark \in BOOLEAN /\ portalReq \in BOOLEAN
  /\ sleepRf \in {"default", "disabled"}
  /\ pc \in Awake \union {"off", "asleep"}
  /\ boot \in BootInfo
  /\ dev \in Config
  /\ ram \in RamState
  /\ net \in BOOLEAN
  /\ upsets \in 0..MaxUpsets

Mode == CurrentMode(dev, ram.eeprom, Display)

----------------------------------------------------------------------------
(* Resets and sleep.                                                       *)

\* Every reset: RAM is lost and setup() starts over.  The radio comes up
\* uninitialised only on a deep-sleep wake out of an RF_DISABLED sleep.
Reboot(cause, reason) ==
  /\ pc' = "boot"
  /\ boot' = [cause |-> cause, reason |-> reason, window |-> FALSE,
              rfOff |-> pc = "asleep" /\ reason = "deepsleep"
                                      /\ sleepRf = "disabled"]
  /\ dev' = DefaultConfig
  /\ ram' = FreshRam

\* ESP.restart()
Restart == Reboot("restart", "restart")

ClearBootMark_Forgotten == UNCHANGED bootMark  \* mutant
ClearBootMark == bootMark' = FALSE

\* startDeepSleep(): the mark is cleared last, then the chip powers down.
\* A board that cannot deep-sleep returns to its caller in state `back`.
DeepSleep(rf, back) ==
  /\ ClearBootMark
  /\ UNCHANGED portalReq
  /\ IF CanDeepSleep
     THEN /\ pc' = "asleep"
          /\ sleepRf' = rf
          /\ ram' = FreshRam
          /\ dev' = DefaultConfig
     ELSE /\ UNCHANGED <<sleepRf, ram>>
          /\ back

PowerOn ==
  /\ pc = "off"
  /\ Reboot("power", "power")
  /\ UNCHANGED <<stored, rtc, env>>

\* RTC memory does not survive.
LosePower ==
  /\ upsets < MaxUpsets
  /\ upsets' = upsets + 1
  /\ pc' = "off"
  /\ bootMark' = FALSE /\ portalReq' = FALSE /\ sleepRf' = "default"
  /\ dev' = DefaultConfig
  /\ ram' = FreshRam
  /\ UNCHANGED <<creds, boot, net>>

PowerCut == pc # "off" /\ LosePower /\ UNCHANGED flash

TimerWake ==
  /\ pc = "asleep"
  /\ Reboot("timer", "deepsleep")
  /\ UNCHANGED <<stored, rtc, env>>

\* The RESET button.  After a deep sleep the reported reason cannot be
\* trusted: the press may be reported as a deep-sleep wake.
ResetPress ==
  /\ pc # "off"
  /\ upsets < MaxUpsets
  /\ upsets' = upsets + 1
  /\ \E reason \in {"external", "deepsleep"} :
       Reboot(CASE pc = "asleep"             -> "pressAsleep"
                [] pc \in {"boot", "button"} -> "pressEarly"
                [] OTHER                     -> "pressAwake", reason)
  /\ UNCHANGED <<stored, rtc, net>>

----------------------------------------------------------------------------
(* The configuration file.                                                 *)

\* The display board drops the sleep modes from whatever it is given.
Normalise(c) ==
  IF Display THEN [c EXCEPT !.sleepMode = FALSE, !.lightSleepMode = FALSE]
  ELSE c

\* What saveConfig() of c can do: the file it leaves and what it returns.
\* open(.., "w") truncates, and only a write of zero bytes counts as failed.
Saves(c) ==
  {[file |-> c, ok |-> TRUE]}
    \union IF SaveMayFail
           THEN {[file |-> flash, ok |-> FALSE], [file |-> TornFile, ok |-> FALSE],
                 [file |-> TornFile, ok |-> TRUE]}
           ELSE {}

\* Writing the file takes a while; the power can go in the middle of it.
SaveUnderway ==
  \/ pc = "boot" /\ flash = NoFile
  \/ pc \in {"window", "portal"}
  \/ pc = "remote" /\ ram.link /\ dev.remoteControl
  \/ pc = "loop" /\ (ram.web \/ ram.mqtt \/ Display)

PowerCutDuringSave == SaveUnderway /\ LosePower /\ flash' = TornFile

\* firstStart(), mountConfig(), getDeviceKey()
MountConfig ==
  /\ pc = "boot"
  /\ pc' = "button"
  /\ dev' = IF flash \in {NoFile, TornFile} THEN DefaultConfig
            ELSE Normalise(flash)
  /\ ram' = [ram EXCEPT !.firstStart = flash = NoFile]
  /\ IF flash = NoFile THEN \E s \in Saves(DefaultConfig) : flash' = s.file
     ELSE UNCHANGED flash
  /\ UNCHANGED <<creds, rtc, boot, env>>

----------------------------------------------------------------------------
(* checkModeButton()                                                       *)

FromDeepSleep_ByReason == boot.reason = "deepsleep"  \* mutant: mark not read
FromDeepSleep == ~bootMark /\ boot.reason = "deepsleep"

ReadBootMark ==
  /\ pc = "button"
  /\ pc' = "window"
  /\ bootMark' = TRUE
  /\ boot' = [boot EXCEPT !.window = ~FromDeepSleep /\ ~dev.configMode]
  /\ UNCHANGED <<stored, portalReq, sleepRf, dev, ram, env>>

NoPress ==
  /\ pc = "window"
  /\ pc' = "guard"
  /\ UNCHANGED <<stored, rtc, boot, dev, ram, env>>

\* toggleConfigMode(); the result of the save is not looked at.
PressMode ==
  /\ pc = "window"
  /\ pc' = "guard"
  /\ dev' = [dev EXCEPT !.configMode = ~@]
  /\ \E s \in Saves(dev') :
       /\ flash' = s.file
       /\ ram' = [ram EXCEPT !.pending = ~s.ok]
  /\ UNCHANGED <<creds, rtc, boot, env>>

\* 20 s hold: handleFactoryReset()
FactoryReset ==
  /\ pc = "window"
  /\ upsets < MaxUpsets
  /\ upsets' = upsets + 1
  /\ flash' = NoFile
  /\ creds' = FALSE
  /\ Restart
  /\ UNCHANGED <<rtc, net>>

----------------------------------------------------------------------------
(* setup() between the button and the radio.                               *)

\* What the I2C probe of the data-log module can answer.
Probe == IF ~LogModule THEN {FALSE} ELSE IF BusMayFail THEN BOOLEAN ELSE {TRUE}

RestartForRadio ==
  /\ pc = "guard"
  /\ NeedsRadioRestart(dev, boot.reason = "deepsleep")
  /\ Restart
  /\ UNCHANGED <<stored, rtc, env>>

\* The module is only probed here when offline mode is configured.
ProbeForOffline == dev.offlineMode /\ ~dev.configMode

StaysOffline(eeprom) ==
  CurrentMode(dev, eeprom, Display) \in {"Offline", "OfflineLive"}

\* WiFi stays off; the display board also starts its tickers.
BootOffline ==
  /\ pc = "guard"
  /\ ~NeedsRadioRestart(dev, boot.reason = "deepsleep")
  /\ ProbeForOffline
  /\ \E eeprom \in Probe :
       /\ StaysOffline(eeprom)
       /\ ram' = [ram EXCEPT !.eeprom = eeprom,
                             !.tick = IF Display THEN "running" ELSE @]
  /\ pc' = "loop"
  /\ UNCHANGED <<stored, rtc, boot, dev, env>>

\* On to WiFi, in config mode when there is nothing to serve.
BootOnline ==
  /\ pc = "guard"
  /\ ~NeedsRadioRestart(dev, boot.reason = "deepsleep")
  /\ \E eeprom \in IF ProbeForOffline THEN Probe ELSE {FALSE} :
       /\ ~StaysOffline(eeprom)
       /\ ram' = [ram EXCEPT !.eeprom = eeprom]
  /\ dev' = [dev EXCEPT !.configMode =
                          @ \/ MustForceConfig(ram.firstStart, dev)]
  /\ pc' = "wifi"
  /\ UNCHANGED <<stored, rtc, boot, env>>

----------------------------------------------------------------------------
(* setupWifi()                                                             *)

CanJoin == net /\ creds /\ ~boot.rfOff

\* saveConfig() without force: writes only when a save is pending.
SavePending(pending, link) ==
  IF ~pending
  THEN ram' = [ram EXCEPT !.link = link] /\ UNCHANGED flash
  ELSE \E s \in Saves(dev) :
         /\ flash' = s.file
         /\ ram' = [ram EXCEPT !.link = link, !.pending = ~s.ok]

OpenRequestedPortal ==
  /\ pc = "wifi"
  /\ portalReq
  /\ portalReq' = FALSE
  /\ dev' = [dev EXCEPT !.configMode = TRUE]
  /\ pc' = "portal"
  /\ UNCHANGED <<stored, bootMark, sleepRf, boot, ram, env>>

\* tryFastConnect() returns before the pending save.
FastConnect ==
  /\ pc = "wifi"
  /\ ~portalReq
  /\ CanJoin
  /\ ram' = [ram EXCEPT !.link = TRUE]
  /\ pc' = "services"
  /\ UNCHANGED <<stored, rtc, boot, dev, env>>

\* WiFiManager's autoConnect joins the stored network.
AutoConnect ==
  /\ pc = "wifi"
  /\ ~portalReq
  /\ CanJoin
  /\ SavePending(ram.pending, TRUE)
  /\ pc' = "services"
  /\ UNCHANGED <<creds, rtc, boot, dev, env>>

\* autoConnect fails with the portal enabled: configModeCallback runs.
OpenPortal ==
  /\ pc = "wifi"
  /\ ~portalReq /\ ~CanJoin /\ dev.configMode
  /\ pc' = "portal"
  /\ UNCHANGED <<stored, rtc, boot, dev, ram, env>>

\* autoConnect fails in a serving mode: sleep and retry, or config mode.
SleepAndRetry ==
  /\ pc = "wifi"
  /\ ~portalReq /\ ~CanJoin /\ ~dev.configMode
  /\ DeepSleep("default", /\ dev' = [dev EXCEPT !.configMode = TRUE]
                          /\ pc' = "services")
  /\ UNCHANGED <<stored, boot, env>>

\* Credentials entered in the portal; it closes only once they connect.
PortalSave ==
  /\ pc = "portal"
  /\ creds' = TRUE
  /\ IF net /\ ~boot.rfOff
     THEN SavePending(TRUE, TRUE) /\ pc' = "services"
     ELSE UNCHANGED <<flash, ram, pc>>
  /\ UNCHANGED <<rtc, boot, dev, env>>

\* Exit or the 180 s timeout; the old network may be back, unnoticed.
PortalEnds ==
  /\ pc = "portal"
  /\ \E link \in {FALSE, CanJoin} : ram' = [ram EXCEPT !.link = link]
  /\ pc' = "services"
  /\ UNCHANGED <<stored, rtc, boot, dev, env>>

----------------------------------------------------------------------------
(* The rest of setup(): the plan, then remote control.                     *)

RaisesAp_FirstStart == dev.configMode /\ ram.firstStart  \* mutant
RaisesAp == dev.configMode

\* setupNetwork(), setupWebServer(), MQTT, setupSensors().
StartServices ==
  /\ pc = "services"
  /\ LET plan == SetupPlan(dev, Display)
     IN  \E eeprom \in Probe :
           ram' = [ram EXCEPT !.ap   = RaisesAp,
                              !.web  = plan.webServer,
                              !.mqtt = plan.mqtt,
                              !.tick = IF plan.tickers THEN "planned" ELSE @,
                              !.eeprom = @ \/ eeprom]
  /\ pc' = "remote"
  /\ UNCHANGED <<stored, rtc, boot, dev, env>>

Running(r) == [r EXCEPT !.tick = IF @ = "planned" THEN "running" ELSE @]

\* plan.remoteControl, carried by dev: nothing changed it since the plan.
FetchesRemote == RuntimeConfig /\ dev.remoteControl /\ ~dev.configMode

FinishSetup ==
  /\ pc = "remote"
  /\ ram' = Running(ram)
  /\ pc' = "loop"
  /\ UNCHANGED <<stored, rtc, boot, dev, env>>

\* handleRemoteControl(): "configMode" in the reply comes first ...
RemoteFlags(mode) == [Running(ram) EXCEPT !.tickerStop  = @ \/ mode = "on",
                                          !.tickerStart = @ \/ mode = "off"]

RemoteConfigMode(mode) ==
  /\ pc = "remote"
  /\ FetchesRemote /\ ram.link
  /\ dev' = [dev EXCEPT !.configMode = mode = "on"]
  /\ ram' = RemoteFlags(mode)
  /\ pc' = "loop"
  /\ UNCHANGED <<stored, rtc, boot, env>>

\* setConfig(): apply, store, restart when asked to even if not stored.
SetConfig(c, reboot, next) ==
  \E s \in Saves(Normalise(c)) :
    /\ flash' = s.file
    /\ IF reboot THEN Restart
       ELSE /\ dev' = Normalise(c)
            /\ ram' = [next EXCEPT !.pending = @ /\ ~s.ok]
            /\ pc' = "loop"
            /\ UNCHANGED boot

\* ... and "setConfig" after it.
RemoteSetConfig(mode, c, reboot) ==
  /\ pc = "remote"
  /\ FetchesRemote /\ ram.link
  /\ SetConfig(c, reboot, RemoteFlags(mode))
  /\ UNCHANGED <<creds, rtc, env>>

----------------------------------------------------------------------------
(* loop()                                                                  *)

InLoop(mode) == pc = "loop" /\ Mode = mode

\* Measure, append to the log, sleep with the radio off.
LoopOffline ==
  /\ InLoop("Offline")
  /\ DeepSleep("disabled", UNCHANGED <<dev, pc>>)
  /\ UNCHANGED <<stored, boot, env>>

\* Measure, serve, deep-sleep; without an interval the loop just goes round.
LoopDeepSleep ==
  /\ InLoop("DeepSleep")
  /\ AnyServeModeActive(dev)
  /\ DeepSleep("default", UNCHANGED <<dev, pc>>)
  /\ UNCHANGED <<stored, boot, env>>

\* Measure, serve, light-sleep, re-associate; RAM and the boot mark survive.
LoopLightSleep ==
  /\ InLoop("LightSleep")
  /\ AnyServeModeActive(dev)
  /\ ram' = [ram EXCEPT !.link = CanJoin]
  /\ UNCHANGED <<stored, rtc, pc, boot, dev, env>>

\* The flags remote control left for the loop.
StopTickers ==
  /\ pc = "loop"
  /\ ram.tickerStop /\ dev.configMode
  /\ ram' = [ram EXCEPT !.tickerStop = FALSE,
                        !.tick = IF @ = "running" THEN "stopped" ELSE @]
  /\ UNCHANGED <<stored, rtc, pc, boot, dev, env>>

StartTickers ==
  /\ pc = "loop"
  /\ ram.tickerStart /\ ~dev.configMode
  /\ ram' = [ram EXCEPT !.tickerStart = FALSE,
                        !.tick = IF @ = "stopped" THEN "running" ELSE @]
  /\ UNCHANGED <<stored, rtc, pc, boot, dev, env>>

\* A browser reaches the web server over the soft-AP or the LAN.
WebReached ==
  /\ InLoop("Config") \/ (Display /\ InLoop("Live"))
  /\ ram.web
  /\ ram.ap \/ ram.link

\* POST /api/config: a save that failed is answered with 500 and no restart.
WebSave(c, reboot) ==
  /\ WebReached
  /\ \E s \in Saves(Normalise(c)) :
       /\ flash' = s.file
       /\ IF reboot /\ s.ok THEN Restart
          ELSE /\ dev' = Normalise(c)
               /\ ram' = [ram EXCEPT !.pending = @ /\ ~s.ok]
               /\ UNCHANGED <<pc, boot>>
  /\ UNCHANGED <<creds, rtc, env>>

\* The "/setConfig" websocket goes straight to setConfig().
WebSocketSave(c, reboot) ==
  /\ WebReached
  /\ SetConfig(c, reboot, ram)
  /\ UNCHANGED <<creds, rtc, env>>

\* POST /api/wifiportal
WebPortalRequest ==
  /\ WebReached
  /\ portalReq' = TRUE
  /\ Restart
  /\ UNCHANGED <<stored, bootMark, sleepRf, env>>

\* A firmware upload through /update ends in a restart.
WebUpdate ==
  /\ WebReached
  /\ Restart
  /\ UNCHANGED <<stored, rtc, env>>

\* mqttCallback() on the setConfig topic; only live mode runs mqttClient.loop.
MqttSetConfig(c, reboot) ==
  /\ RuntimeConfig
  /\ InLoop("Live")
  /\ ram.mqtt /\ ram.link /\ dev.active \intersect {"mqtt", "ha"} # {}
  /\ SetConfig(c, reboot, ram)
  /\ UNCHANGED <<creds, rtc, env>>

\* The display's 10 s button: toggle offline mode, save, restart.
ToggleOffline ==
  /\ Display
  /\ pc = "loop"
  /\ \E s \in Saves([dev EXCEPT !.offlineMode = ~@]) : flash' = s.file
  /\ Restart
  /\ UNCHANGED <<creds, rtc, env>>

TooManyAttempts_Never == FALSE  \* mutant: the cap is gone
TooManyAttempts == ram.attempts = MaxAttempts

GiveUp_Quietly == UNCHANGED <<pc, boot, dev, ram>>  \* mutant: no restart
GiveUp == Restart

\* checkWifi(): reconnect, or restart after too many attempts.  The counter
\* is not cleared by a link that comes back (see LiveWifi).
CheckWifi ==
  /\ InLoop("Live")
  /\ ~ram.link
  /\ IF TooManyAttempts THEN GiveUp
     ELSE /\ ram' = [ram EXCEPT !.attempts = @ + 1, !.link = CanJoin]
          /\ UNCHANGED <<pc, boot, dev>>
  /\ UNCHANGED <<stored, rtc, env>>

----------------------------------------------------------------------------
(* The network.                                                            *)

NetDown ==
  /\ net
  /\ net' = FALSE
  /\ ram' = [ram EXCEPT !.link = FALSE]
  /\ UNCHANGED <<stored, rtc, pc, boot, dev, upsets>>

NetUp ==
  /\ ~net
  /\ net' = TRUE
  /\ UNCHANGED <<stored, rtc, pc, boot, dev, ram, upsets>>

\* The SDK re-associates by itself while the station is on.
SdkReconnect ==
  /\ InLoop("Config") \/ InLoop("Live") \/ InLoop("LightSleep")
  /\ CanJoin /\ ~ram.link
  /\ ram' = [ram EXCEPT !.link = TRUE]
  /\ UNCHANGED <<stored, rtc, pc, boot, dev, env>>

----------------------------------------------------------------------------
Init ==
  /\ flash \in {NoFile} \union Choices
  /\ creds \in BOOLEAN
  /\ flash = NoFile => ~creds
  /\ bootMark = FALSE /\ portalReq = FALSE /\ sleepRf = "default"
  /\ pc = "off"
  /\ boot = [cause |-> "power", reason |-> "power", rfOff |-> FALSE,
             window |-> FALSE]
  /\ dev = DefaultConfig
  /\ ram = FreshRam
  /\ net \in BOOLEAN
  /\ upsets = 0

\* What the firmware does by itself.
BootStep == MountConfig \/ ReadBootMark \/ NoPress
NetworkStep == FastConnect \/ AutoConnect \/ OpenRequestedPortal \/ OpenPortal
               \/ SleepAndRetry
SetupStep == RestartForRadio \/ BootOffline \/ BootOnline \/ PortalEnds
             \/ StartServices \/ FinishSetup
LoopStep == LoopOffline \/ LoopDeepSleep \/ LoopLightSleep \/ StopTickers
            \/ StartTickers \/ CheckWifi

\* What people and remote services make it do.
UserStep ==
  \/ PressMode \/ FactoryReset \/ PortalSave \/ WebPortalRequest
  \/ WebUpdate \/ ToggleOffline
  \/ \E c \in Choices, reboot \in BOOLEAN :
       WebSave(c, reboot) \/ WebSocketSave(c, reboot)
RemoteStep ==
  \/ \E mode \in {"on", "off"} : RemoteConfigMode(mode)
  \/ \E c \in Choices, reboot \in BOOLEAN :
       \/ \E mode \in {"keep", "on", "off"} : RemoteSetConfig(mode, c, reboot)
       \/ MqttSetConfig(c, reboot)

EnvStep == PowerOn \/ PowerCut \/ PowerCutDuringSave \/ ResetPress
           \/ NetDown \/ NetUp \/ SdkReconnect

Next == BootStep \/ NetworkStep \/ SetupStep \/ LoopStep \/ TimerWake
        \/ UserStep \/ RemoteStep \/ EnvStep

Spec == Init /\ [][Next]_vars

\* The CPU keeps executing, the RTC timer keeps counting, and the portal has
\* a timeout.  Nothing is assumed of people, the network or the power.
Fairness ==
  /\ WF_vars(BootStep) /\ WF_vars(NetworkStep) /\ WF_vars(SetupStep)
  /\ WF_vars(TimerWake)
  /\ WF_vars(LoopOffline \/ LoopDeepSleep) /\ WF_vars(LoopLightSleep)
  /\ WF_vars(StopTickers) /\ WF_vars(StartTickers) /\ WF_vars(CheckWifi)

FairSpec == Spec /\ Fairness

----------------------------------------------------------------------------
(* Safety.                                                                 *)

UsesRadio ==
  \/ pc \in {"wifi", "portal", "services", "remote"}
  \/ pc = "loop" /\ Mode \notin {"Offline", "OfflineLive"}

\* The radio is never used on a boot that came up with it uninitialised: a
\* board put to sleep with RF_DISABLED either goes back to sleep without it
\* or restarts first (the guard in setup(), needsRadioRestart).
RadioReady == UsesRadio => ~boot.rfOff

\* In config mode the web UI is up and the soft-AP is there to reach it,
\* however the boot got there: button, first start, nothing to serve, failed
\* connect, requested portal.
ConfigModeReachable == InLoop("Config") => ram.web /\ ram.ap

\* A RESET pressed again while the first one's boot is still awake always
\* gets the MODE window, whatever reset reason the chip reports for it.
SecondPressRecognised ==
  pc = "window" /\ boot.cause = "pressAwake" /\ ~dev.configMode => boot.window

\* A timer wake never pays for the window: the mark left by every boot has
\* been cleared by the sleep that led to it, on all paths into that sleep.
TimerWakeSkipsWindow ==
  pc = "window" /\ boot.cause = "timer" => ~boot.window

\* A request for the WiFi portal is spent by the boot it asked for: it never
\* lies in RTC memory behind a running board, to ambush a later boot.  A boot
\* that goes offline breaks this (README, "Where code and words part").
PortalRequestOneBoot == pc \in {"portal", "services", "remote", "loop"} => ~portalReq

\* The display board keeps its web UI up outside offline mode, whatever has
\* been reconfigured since setup() decided which services to start.
DisplayServesUi ==
  Display /\ pc = "loop" /\ Mode \in {"Config", "Live"} => ram.web

----------------------------------------------------------------------------
(* Liveness.                                                               *)

\* Every boot gets somewhere: to the loop, or back to sleep.
BootSettles == pc \in Setup ~> pc \in {"loop", "asleep", "off"}

\* Once the network stays, a board with credentials that serves over it is
\* linked again and again, unless it is parked in a mode that needs no link.
NeedsNoLink == pc = "off" \/ ~creds
               \/ InLoop("Config") \/ InLoop("Offline") \/ InLoop("OfflineLive")
LinkRecovers == <>[]net => []<>(ram.link \/ NeedsNoLink)
============================================================================
