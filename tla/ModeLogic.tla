----------------------------- MODULE ModeLogic -----------------------------
(***************************************************************************)
(* The pure decisions of src/src/mode_logic.h: which mode a configuration  *)
(* puts the board in, what setup() brings up, how long a sleeping board    *)
(* rests.  A configuration is the Device structure and the `active` flags  *)
(* of DataServ in one record; the reporting intervals are a function.      *)
(***************************************************************************)
EXTENDS Naturals

\* The network services of DataServ and, last, the EEPROM data log.
NetServices == {"get", "post", "mqtt", "ha"}
Services == NetServices \union {"eeprom"}

Config == [configMode : BOOLEAN, offlineMode : BOOLEAN, sleepMode : BOOLEAN,
           lightSleepMode : BOOLEAN, remoteControl : BOOLEAN,
           active : SUBSET Services]

\* The compiled-in defaults (data_types.h): config mode, nothing to serve.
DefaultConfig == [configMode |-> TRUE, offlineMode |-> FALSE,
                  sleepMode |-> FALSE, lightSleepMode |-> FALSE,
                  remoteControl |-> FALSE, active |-> {}]

Modes == {"Config", "Offline", "DeepSleep", "LightSleep", "Live",
          "OfflineLive"}

----------------------------------------------------------------------------
SleepEnabled(c) == c.sleepMode \/ c.lightSleepMode

OfflineEnabled(c, eeprom) == c.offlineMode /\ eeprom

AnyServeModeActive(c) == c.active # {}

CurrentMode(c, eeprom, display) ==
  IF c.configMode THEN "Config"
  ELSE IF display THEN (IF c.offlineMode THEN "OfflineLive" ELSE "Live")
  ELSE IF OfflineEnabled(c, eeprom) THEN "Offline"
  ELSE IF c.sleepMode THEN "DeepSleep"
  ELSE IF c.lightSleepMode THEN "LightSleep"
  ELSE "Live"

IsSleeping(mode) == mode \in {"DeepSleep", "LightSleep"}

NeedsRadioRestart_Never(c, fromDeepSleepWake) == FALSE  \* mutant: no guard
NeedsRadioRestart_Always(c, fromDeepSleepWake) ==  \* mutant: any reset restarts
  c.configMode /\ c.offlineMode

NeedsRadioRestart(c, fromDeepSleepWake) ==
  c.configMode /\ c.offlineMode /\ fromDeepSleepWake

MustForceConfig(firstStart, c) == firstStart \/ ~AnyServeModeActive(c)

NoPlan == [webServer |-> FALSE, mqtt |-> FALSE, ha |-> FALSE,
           remoteControl |-> FALSE, tickers |-> FALSE]

RunsTickers_AwakeOnly(c, display) == ~SleepEnabled(c)  \* mutant
RunsTickers(c, display) == display \/ ~SleepEnabled(c)

LiveUi_Never(display) == FALSE  \* mutant: the web server is config-only
LiveUi(display) == display

SetupPlan(c, display) ==
  IF c.configMode THEN [NoPlan EXCEPT !.webServer = TRUE]
  ELSE IF display /\ c.offlineMode THEN [NoPlan EXCEPT !.tickers = TRUE]
  ELSE [webServer     |-> LiveUi(display),
        mqtt          |-> c.active \intersect {"mqtt", "ha"} # {},
        ha            |-> "ha" \in c.active,
        remoteControl |-> c.remoteControl,
        tickers       |-> RunsTickers(c, display)]

----------------------------------------------------------------------------
(* Reporting intervals.  HA reports on the MQTT interval.                  *)

Intervals == {"get", "post", "mqtt", "eeprom"}

IntervalOf(service) == IF service = "ha" THEN "mqtt" ELSE service

IsLeast(n, S) == n \in S /\ \A m \in S : n <= m

NetFrequencies_NoHa(c, freq) ==  \* mutant: HA forgotten
  {freq[s] : s \in c.active \intersect {"get", "post", "mqtt"}} \ {0}

NetFrequencies(c, freq) ==
  {freq[IntervalOf(s)] : s \in c.active \intersect NetServices} \ {0}

MinDataFrequency(c, freq) ==
  LET F == NetFrequencies(c, freq)
  IN  IF F = {} THEN 60 ELSE CHOOSE n \in F : IsLeast(n, F)

\* 0 means "do not sleep on a schedule".
WakeInterval(c, freq) ==
  LET net == IF c.active \intersect NetServices = {} THEN 0
             ELSE MinDataFrequency(c, freq)
      log == freq["eeprom"]
  IN  IF "eeprom" \in c.active /\ (net = 0 \/ log < net) THEN log ELSE net

ServePlan(c, freq, linked) ==
  LET seconds == WakeInterval(c, freq)
      sleeps  == SleepEnabled(c) /\ seconds > 0
      broker  == c.active \intersect {"mqtt", "ha"} # {}
  IN  [send           |-> IF linked THEN c.active \intersect NetServices ELSE {},
       connectMqtt    |-> linked /\ broker,
       disconnectMqtt |-> sleeps /\ broker,
       drainMqtt      |-> sleeps /\ broker /\ linked,
       sleep          |-> sleeps,
       sleepSeconds   |-> IF sleeps THEN seconds ELSE 0]
============================================================================
