# A verification of the TeHyBug firmware

TLA+ models of the firmware in this repository (`tehybug-universal.ino` and
`src/*.h`, for the ESP8266/ESP8285 boards), model-checked with TLC on small
instances, and theorems about them proved with TLAPS for every value of the
constants. Every definition is translated from the code; `PROJECT.json` maps
each of them to the lines it stands for.

Contents: [The system](#the-system) ·
[Inventory](#inventory) ·
[Modules](#modules) ·
[Runs](#runs) ·
[Fairness](#fairness) ·
[Mutants](#mutants) ·
[Proofs](#proofs) ·
[Where code and words part](#where-code-and-words-part) ·
[Not modelled](#not-modelled) ·
[Plan](#plan)

Paths of the form `x.h:n` are under `src/` of the firmware (`src/src/x.h` seen
from the root of `PROJECT.json`); `ino` is `tehybug-universal.ino`.

## The system

A TeHyBug board wakes, reads its sensors, sends the values to the services its
configuration names (HTTP GET and POST, MQTT, Home Assistant over MQTT, an
EEPROM log on the I2C bus) and goes to rest. There is one CPU and one thread:
`setup()` runs after every reset, then `loop()` for ever. What makes the code
hard is therefore not threads but

* **resets.** A deep sleep ends in a reset. RAM is lost at each of them; what
  one boot wants to tell the next goes through flash (`/config.json`), the RTC
  memory (boot mark, portal request, WiFi hint, discovery memo; it survives a
  reset and not a power cut) or the EEPROM. RESET can be pressed and the power
  can go between any two steps, in the middle of a write too;
* **two resolutions of one configuration.** `setup()` decides what to start,
  `loop()` decides on every pass which mode it is in, and the configuration can
  change in between (web UI, websocket, MQTT, remote control, buttons);
* **the radio.** A board that slept with `RF_DISABLED` wakes with a radio that
  cannot be initialised before another reset;
* **a network, a bus and an SDK that fail** at any moment, and answer again;
* **a millisecond clock that rolls over**, compared by unsigned subtraction.

```
  buttons, RESET, power          browser, MQTT, remote control
          |                                  |
          v                                  v
   mode_button ---> setup() ----> loop() <-- web_api, setConfig
      | boot mark     |   |          |
      v               |   |          +--> data_service --> HTTP, MQTT, HA
   RTC memory <-------+   |          +--> sleep_modes ---> deep / light sleep
   (mark, portal          |          |                      | (reset)
    request, WiFi hint)   v          v                      v
      ^               wifi_service  eeprom (log) ------> EepromFS -> I2C
      +------------------ |          ^
                          |          +-- rtc_time, ntp_time
                       configuration (LittleFS)
```

## Inventory

For each component: what it keeps, what it does, what can go wrong in it, and
what makes it correct. "Model" names the module.

| Component | State | Operations | Hard behaviour and what correctness means | Model |
|---|---|---|---|---|
| Mode decisions (`mode_logic.h`) | none | `currentMode`, `setupPlan`, `servePlan`, `wakeInterval`, `judgeSleepChunk` | Many flags, resolved in two places. The plan fits the mode; no service is served too rarely; a sleeping mode sleeps. | ModeLogic, ModeLogicCheck, LightSleep, Reporting |
| Boot and loop (`ino`, `tehybug.h`) | configuration in RAM, flags, services started | `setup()`, `loop()` | Every path through setup ends somewhere; the radio is never used uninitialised; config mode can be reached by hand and then by browser. | Device |
| Mode button (`mode_button.h`) | boot mark in RTC memory | 1 s window, toggle, 20 s factory reset | A press must be told from a timer wake although the reset reason is not reliable. | Device |
| Deep sleep (`sleep_modes.h`) | radio mode of the sleep | `startDeepSleep` | Clears the mark on every path; returns on a board that cannot deep-sleep. | Device |
| Light sleep (`sleep_modes.h`) | locals of one interval | `startLightSleep` | The SDK refuses or returns early, the clock rolls over. The interval is kept and it ends. | LightSleep, Clock |
| WiFi connect and portal (`wifi_service.h`) | SDK credentials, portal request | `setupWifi`, `tryFastConnect`, portal | The link comes back once the network does; a request is served once. | Device, WifiHint |
| Lease policy (`wifi_hint.h`, `wifi_policy.h`) | hint with a wake counter in RTC memory | save, load, clear, count | A cached address is renewed in time; the counter never hides its age. | WifiHint |
| Live reconnect (`wifi_service.h`) | three function statics | `checkWifi`, `connectToWiFi` | Rate limit across the rollover; a board without a network gives up. | LiveWifi, Clock |
| Configuration (`configuration.h`) | `/config.json`, pending flag | mount, save, set | A torn or missing file; a save that fails. | Device |
| Web API, MQTT `setConfig`, remote control | none of their own | save, restart, portal, update, mode switch | They change the configuration behind the services setup started. | Device |
| EEPROM mount (`eeprom.h`, `EepromFS.cpp`) | chip header, capacity mark, `ferror`, `eepromsize`, page buffer | `setup`, `format`, `begin` | Bus failures and power cuts at any transaction: a healthy log is not formatted, a reset erases, the layout is right. | EepromMount |
| Data log (`eeprom.h`, `tehybug.h`) | day files, index, label and stamp caches in RAM | `syncDataLogMode`, `logSensorData`, recycle, wrap | Files never mix periods, the index tells the truth, today's entries stay. | DataLog, RollingLog |
| Data service (`data_service.h`) | sensor values, placeholder texts | measure, serve pass, scenarios | Which services, in what order, and what before the sleep. A pass ends whatever the network does; nothing published is lost by the sleep after it. | ModeLogic, Reporting |
| MQTT (`mqtt_service.h`) | connection, retry counter, time of the last attempt | connect, publish, callback | A budget per wake that light sleep does not reset by itself, a first attempt that fails on a reused port, a session that is gone unnoticed. | Reporting; the callback in Device |
| Home Assistant discovery (`ha.h`, `mqtt_service.h`) | memo in RTC memory, key file, retained topics | announce, retire, write down | Memo and file run ahead of what the broker has. Entities can be retired later; they converge to the sensors. | Reporting |
| Tickers (`serve_tickers.h`, `TickerScheduler`) | slots, timers, pending flags | add, enable, disable, update | A pending flag outlives `disable()`; slots are served while others block. | DisplayLoop, Reporting |
| Clock (`rtc_time.h`, `ntp_time.h`) | RTC | read, set | Log and alarms see it unset, set to any time, running on. | DataLog, DisplayLoop |
| I2C scanner (`i2cscanner.h`) | none | probe | A probe may miss a module that is there. | Device |
| Display, alarms, buttons (`display*.h`) | page, alarm state, debouncers, the time of the last read | tick, ring, mute, presses, refresh | Drawing starts reads and reads draw; a blocked loop must not miss an alarm, nor ring it twice. | DisplayLoop; the 10 s press in Device |
| Sensors, HTTP client, LED, buzzer, text helpers, build settings, web pages, vendored libraries, tests | | | I/O or third-party; see [Not modelled](#not-modelled). | - |

The hazards of the code, each at its line and with the property that covers it
or the reason why none does, are listed in `PROJECT.json`.

## Modules

### ModeLogic and ModeLogicCheck

`ModeLogic` has the pure functions of `mode_logic.h` as operators; a
configuration is one record of the `Device` flags and the set of active
services. `Device` is built on them. `ModeLogicCheck` walks through **every**
configuration (all flags, all sets of services, both boards, with and without
the log module, two values per interval) and checks the decisions against each
other.

### Device

The life of one board. The actions, and the code each stands for:

* resets and sleep: `PowerOn`, `PowerCut`, `TimerWake`, `ResetPress`,
  `Restart`, `DeepSleep`. The state after a reset is the program's static
  initialisation (`FreshRam`), flash and RTC memory survive as on the chip;
* `setup()` in the order of the code: `MountConfig`, `ReadBootMark`, the window
  (`NoPress`, `PressMode`, `FactoryReset`), the guard for the radio
  (`RestartForRadio`), the offline branch (`BootOffline`), the way to WiFi
  (`BootOnline`, which also forces config mode), `setupWifi()`
  (`OpenRequestedPortal`, `FastConnect`, `AutoConnect`, `OpenPortal`,
  `SleepAndRetry`, `PortalSave`, `PortalEnds`), `StartServices`, and remote
  control (`FinishSetup`, `RemoteConfigMode`, `RemoteSetConfig`);
* `loop()` by mode: `LoopOffline`, `LoopDeepSleep`, `LoopLightSleep`,
  `CheckWifi`, `StopTickers`, `StartTickers`; what comes from outside:
  `WebSave`, `WebSocketSave`, `WebPortalRequest`, `WebUpdate`, `MqttSetConfig`,
  `ToggleOffline`; and the network: `NetDown`, `NetUp`, `SdkReconnect`.

`setup()` is split where a reset, a power cut or a change of the network can
fall between two of its steps and makes a difference. `boot.cause` is what
really happened and is read by no action, only by properties; the code sees
`boot.reason`, which may call a press a deep-sleep wake. A save may store the
file, leave it, or tear it, and may report success for a torn one (only a write
of zero bytes counts as failed). `DeviceInv` holds the inductive invariants and
Device seen as a duty cycle, `MCDevice` the sets of configurations of the runs.

### DutyCycle

What a battery board promises, without its configuration and without how it
gets there: it is off, asleep, starting, being configured, or at work with or
without the network, and its radio is ready or cold. Config mode is entered by
a boot only and never left for sleep; what a board does changes by a boot only,
but for a configuration saved in config mode; a cold radio allows nothing but
work without the network. `FollowsDutyCycle` in DeviceInv gives the mapping:
the phase comes from where the program is and, in `loop()`, from the mode that
`currentMode()` resolves there, the radio from the last sleep.

### Clock

`millis()`: a counter modulo `ClockRange`, and its unsigned difference. Shared
by LightSleep and LiveWifi.

### LightSleep

One interval of `startLightSleep()`: the chunks, the judge, the back-off, the
wait after giving up, the wait for the link. `place` is where the function is,
`spent` is real time and no part of the code's state. The SDK may refuse a
chunk, and every `delay()` may be released early, at once even, which is how a
light sleep ends on this core. The next cycle starts at any value of the clock.

### WifiHint

The hint in RTC memory over boots, power cuts and light-sleep wakes: what
`tryFastConnect()`, a scan or a light-sleep wake store in it, when an address
counts as renewed, and when the station really asks DHCP. `age` counts wakes
since the address in use came from DHCP; the code does not have it.

### LiveWifi

`checkWifi()` and `connectToWiFi()` with the three statics, the rate limit on a
clock that rolls over, and the restart. `quiet` and `failures` are history.

### MCWifi

Puts WifiHint, LiveWifi and LightSleep on one bench for one run. A board is in
one of the three; the choice is made at the start and stays.

### Reporting

`serve_data()` with the MQTT client and the Home Assistant discovery, pass
after pass: measure, connect (with the budget of a wake), send MQTT, send HA
(with the discovery before it), disconnect, drain, sleep; on a board that stays
awake the tickers start the sends one by one. The board is in it as far as a
pass can see it: light sleep keeps RAM, deep sleep keeps RTC memory and flash,
a power cut flash only. Around it:

* the network: no link, a link without the broker, the broker. A change breaks
  the session; the client notices at once or later (`session = "dead"`), and
  what is written until then is lost;
* the TCP buffer: what is published waits in `outbox` until it is delivered or
  the connection goes, and then any part of it has arrived;
* the broker: `entities` are its retained discovery messages, which it may lose
  (`StoreLost`), `arrived` the readings it has got;
* the sensors: exchanged while the board is off or in deep sleep (`Swap`), or
  silent when measured (`Unmeasured`), which leaves their keys out of this
  pass;
* resets and power cuts between any two steps, in the middle of
  `haSyncDiscovery` too.

`haSyncDiscovery` is split into `Retire`, `Announce` and `WriteKeys`; the memo
is written before the first (`AskMemo`), as in the code. HTTP requests keep no
state and are left out; a plan that has only them is not in the run.
`lostTrack` and `smooth` are history. `MCReporting` has the boards of the run.

### DisplayLoop

The loop of the display board: the tick once a second (`displayTick()`), with
alarms, buttons and the refresh of the readings; the web server, whose handlers
read sensors, save a configuration or set the clock; the flags remote control
leaves for the tickers; `TickerScheduler::update()` with a callback that
measures and sends. `stack` holds the sensor reads in progress, since a read
that waits calls the tick (`sensorWait()`), which may start a read. Time runs
beside the loop in units of which `MinuteUnits` make a minute; `MaxBlock` is
the longest time the loop goes without a tick. It is a bound of the run and may
be longer than a minute: the calls that block have limits of seconds
(`HTTP_TIMEOUT_MS` is 5 s), but nothing in the code keeps their sum below a
minute. Discovery on a dead session publishes on, whatever the results
(`ha.h:94-146`), and one `update()` may run several callbacks. An alarm whose
whole minute passes in such a block is missed; `AlarmSeen` says that it is the
only way to miss one. The date is in the model only as far as an alarm can tell
it: `due` are the alarms whose schedule matches the present minute, `stamp`
says whether `alarmLastFired` is this minute. `fired`, `whole`, `stopped` and
`late` are history.

### EepromMount

Mount and format of the log, one bus transaction per step. A chip of size `n`
ignores the address bits above its range, which is what the size probe relies
on; a transaction is answered, refused, or (a read) acknowledged and then cut
off. Loading a page takes two transactions, and `rawread()` judges only the
second one (`EepromFS.cpp:62`, `64`): an address that is not acknowledged
before a read that is answered is the answer `stray`, which fills the page
buffer with bytes from another place and reports no error. In `begin()` a
transaction may be the only one that fails, or the bus falls silent until the
50 ms settle or the next boot; in a format the bus that failed stays silent
(what a half-answered format leaves is not modelled), except for a stray load.
`ferror` is overwritten by the byte transactions and added to by the page
transactions, as in `EepromFS.cpp`; `begin()` looks at it once. The supply may
go at every step. `clean`, `misread` (a page came from another place) and
`held` (the chip when the task began) are history.

### DataLog

The day files and their index, with the writes of `logSensorData()` and
`syncDataLogMode()` as separate steps. An entry is the label of the period it
was written in; the clock moves freely between two calls, the period can be
switched at any time, and the board goes down at any step, in the middle of an
index write or of a format (which has cleared some slots). The bus is taken to
work here.

`writeFile()` rewrites the index in place, page by page, and a line that is
replaced moves to the end, so the lines behind it shift. A cut leaves the new
text up to some byte and the old from there (`TornRecords`): the line that
moves is gone or doubled, and the line across that byte is the beginning of one
and the end of another, such as `16 2026-06-1` and `5`. `dateFromIndex()`
(`eeprom.h:325-340`) takes it for what it looks like: no date (`Torn`), or a
well-formed one, of any file and of any number in `Garbled`. A file with
entries whose line changed is `damaged`, one that was given a date is `misled`
(both history) until it is cleared. Text that is the line of no file is left
out, also from the room it takes in the index.

### RollingLog

What the log promises: one period per file, a date that is right where there is
one, and a file that forgets its period only if it is not the one being written,
or has no date, or if the kind of period has changed. A write that is cut off
may give two files a date that is not theirs (`Spoil`), and nothing is promised
of those until they are cleared. No caches, no entries on their way, no index
text. `KeepsRollingLog` in DataLog gives the mapping.

### Proof modules

`DeviceProofs`, `DutyCycleProofs` (on top of it), `ModeLogicProofs`,
`EepromMountProofs`, `DataLogProofs`, `DisplayLoopProofs` and `ReportingProofs`
extend their modules; `WifiProofs` extends MCWifi and holds the proofs of its
three parts, WifiHint, LightSleep and LiveWifi, and of the composition. See
[Proofs](#proofs).

## Runs

| Run | Module | Distinct states | Shows |
|---|---|---:|---|
| mode_decisions | ModeLogicCheck | 65,536 | What setup starts is what the mode of loop needs; a sleeping board rests for the least interval in use. |
| battery_life | MCDevice | 42,184 | A battery board through all its modes: the radio is never used uninitialised, config mode has its web UI and access point, presses and timer wakes are told apart, every boot gets to the loop or to sleep, and all of it is a duty cycle. |
| battery_faults | MCDevice | 239,702 | With failing saves, missed probes and run-time configuration a lost link still comes back. |
| display_life | MCDevice | 270,295 | With the same faults the display board keeps its web UI outside offline mode, whatever is reconfigured, and gets its link back. |
| wifi_policies | MCWifi | 848,360 | The counter never hides the age of a lease, and DHCP comes round; attempts are spaced in real time, and a board without a network restarts; an interval is never cut short unless the judge gave up, chunks never reach past it, and it ends. |
| eeprom_mount | EepromMount | 705,175 | A healthy log survives every mount that has not mistaken the size of the chip or read a page from another place; a chip that does not answer is not taken for a blank one; a working bus always ends in a right layout; a reset erases; every task ends. |
| data_log | DataLog | 2,529,092 | Files do not mix periods and the index gives none a wrong date, except files to which a power cut in an index write gave a date, until they are cleared; every step is one of a rolling log. |
| reporting | MCReporting | 804,060 | A pass that has the broker all along delivers every reading; no sleep loses what was published; passes end and readings resume after any outage; entities can be retired later, and on a board that sleeps they come right by themselves. |
| display_loop | DisplayLoop | 544,420 | An alarm is missed only if the loop does not tick once in its minute, and none rings twice or for ever; sensor reads nest once; stopped tickers fall silent, and running ones are served. |
| waitout_underflow | LightSleep | | violation, see below |
| log_erased | EepromMount | | violation, see below |
| index_full | DataLog | | violation, see below |

### Bounds and why they are enough

* **mode_decisions** has no bound but the intervals: two values each, which is
  enough to put any interval below, above or level with any other. The theorems
  of ModeLogicProofs do without it.
* **Device.** `MaxUpsets` bounds RESET presses, power cuts and factory resets:
  three for the battery board, two with faults; timer wakes, restarts and
  network changes are unbounded. The hard cases are a press that follows
  another one or a power cut, and what any of them leaves behind is in the
  variables, not in the count. The code tries six times to reconnect;
  `MaxAttempts = 2` keeps the branch with attempts and a refusal to go on
  (LiveWifi has the counting). The configurations saved are one of every mode
  and two that come back to config mode; a battery and a display build; a board
  that can deep-sleep (and, as `CanDeepSleep = FALSE`, the display board, which
  cannot). `battery_faults` leaves out `RadioReady` and `ConfigModeReachable`,
  which do not hold with a bus that misses probes and with configuration at run
  time (see the last section).
* **LightSleep** in MCWifi: the clock has 32 values and starts at every one of
  them, so the rollover falls on each step; the interval is 12 ticks in chunks
  of 7, so there are a full and a partial chunk and room for both limits of the
  judge (3 each). Constants keep the order of the code's: short return < chunk
  < interval < clock.
* **WifiHint** uses the values of the code, 24 and 255.
* **LiveWifi** in MCWifi: interval 4, passes of up to 3 ticks, any start of the
  clock, so the comparison meets every phase of the rollover. A pass shorter
  than the clock range is an assumption of the module: a pass of 49 days does
  not happen.
* **EepromMount** has no numeric bound; the three sizes are those of the code,
  and the runs explore every state. A task finds log bytes in the probed
  cells: marks left there by an earlier one are bytes like any other.
* **DataLog.** Two days of two hours in the month and in the day (`DaySlots`,
  `HourSlots`), four hours of clock: every slot comes round at least once in
  both modes, and day and hour names overlap as on the chip. Two file slots
  besides the index, as many as the longer of the two modes needs, so that
  files left over from the other mode fill the chip and recycling happens. A
  file takes two entries, the third one wraps. `IndexRoom` 9 is more than all
  names need; 2 is less, the case of `index_full`. `Garbled = {2}`: a label joined
of two reads as the second hour or day, which files do hold, so it can be right
or wrong for the file it lands on; the theorems allow any set of numbers.
* **Reporting.** One sensor that can be replaced by another, which is what it
  takes for one entity to come and another to go; a sensor may be silent, so
  the empty set of keys occurs too. `MaxRetries = 2` has a retry that is left
  and one that is not. `MaxWakes = 1` has a wake that trusts the memo and one
  that refreshes it. Three boards: deep sleep and light sleep with MQTT and
  Home Assistant, and one that stays awake with Home Assistant.
* **DisplayLoop.** A minute has two units, a gap between ticks up to three: a
  tick can fall on either part of a minute and skip the other, and a gap can
  also swallow a whole minute. An alarm mutes itself after three units, in the
  next minute. Two slots, so that one is served while another waits; one alarm,
  since alarms share nothing but the button that mutes them all (the theorems
  hold for any number).

Deadlock checking is off in the Device runs (a bounded number of upsets, and a
board without power in the end may stay so by intention of its user; an idle
mode has no step) and in the data log (a board whose clock is at the bound and
whose log is written may have nothing left to do but go down).

## Fairness

Weak fairness is assumed of what the CPU does by itself and of nothing else: no
user, no network, no server and no power supply owes the board a step.

* Device: setup steps and loop steps, because the CPU executes; `TimerWake`,
  because the RTC timer counts; the portal's end, because it has a 180 s
  timeout (`wifi_service.h`, `setConfigPortalTimeout`). Light sleep, the ticker
  flags and `checkWifi()` are visited on every pass of `loop()`, each is a
  disjunct of its own.
* LightSleep, LiveWifi (and both in MCWifi): the firmware's next step. A chunk may take any time the
  SDK likes but not for ever, because `delay()` has its timer.
* EepromMount: the next step of a mount or format; every bus transaction ends,
  with success or not, because the two-wire driver has a timeout.
* Reporting: the pass goes on (`Work`), measuring follows the wake or a ticker,
  the timer wakes a sleeping board, and one that is off is switched on at some
  time (without it nothing would ever be sent again). Of the network only what
  TCP does on a connection that stays: it delivers, or notices that the peer is
  gone (`Deliver`, `NoticeDead`), and time passes. That the broker comes back
  is not assumed: the liveness properties speak of runs in which disturbances
  (resets, swaps, silent sensors, changes of the network) stop.
* DisplayLoop: `loop()` goes on and timers fire. A sensor read ends although
  ticks keep coming in between, strong fairness of `ReadEnds`: it waits for a
  fixed time and not for the number of ticks.
* WifiHint's `DhcpComesRound` is conditional on a board that keeps waking and
  keeps getting a link, so it needs no fairness.

## Mutants

Beside some definitions stands one whose name ends in what is wrong with it and
which is commented "mutant" (`Stale_Always`, `NeedsRadioRestart_Never`). They
are not part of any specification: putting one in the place of the definition
it varies is a plausible bug in that code, and the property it is listed with in
`PROJECT.json` is then violated. So no property holds for the shape of the
model alone.

## Proofs

All proofs are checked to the last leaf; the only assumptions are the `ASSUME`s
of the modules (types of constants; the counter's byte holds the period; the
file system has a slot for every day and every hour; a missing file and a torn
file are no configurations; the clock's range holds an interval and a loop
pass; the numbers of joined labels are hours of the clock), which TLC evaluates on every run,
and the hypotheses named in the table.

| Theorem | Establishes |
|---|---|
| ModeLogicProofs `PlanAlwaysFits` | `PlanFitsMode`, for every configuration |
| `AlwaysWakesInTime` | `WakesInTime`, for all intervals |
| DeviceProofs `TypeCorrect` | `TypeOK` of Device |
| `TimerWakesAreShort` | `TimerWakeSkipsWindow`, on every board |
| `SecondPressCounts` | `SecondPressRecognised`, on a board that can deep-sleep |
| `RadioIsReady` | `RadioReady`, when the bus does not miss the module and a save does not fail |
| `ConfigIsReachable` | `ConfigModeReachable`, on a battery board without configuration at run time |
| `DisplayKeepsUi` | `DisplayServesUi`, on every display board |
| `PortalRequestIsSpent` | `PortalRequestOneBoot`, on a battery board without an offline configuration |
| DutyCycleProofs `ImplementsDutyCycle` | `FollowsDutyCycle`, on a battery board without these faults and without configuration at run time |
| WifiProofs `HintTypeCorrect` | `TypeOK` of WifiHint: the counter stays in its byte |
| `CounterStaysInPeriod` | `CounterWithinPeriod`, with and without light sleep |
| `LeaseIsRenewed` | `CounterHonest` and `LeaseRenewed` |
| `CounterIsSound` | `CounterSound`, the two of them |
| `IntervalIsKept` | `IntervalKept` of LightSleep |
| `AttemptsAreSpaced` | `AttemptsSpaced` of LiveWifi |
| `HintIsImplemented` | every behaviour of MCWifi is one of WifiHint |
| `WifiTypeCorrect` | `WifiTypeOK` of MCWifi |
| `WifiIsSafe` | `LeaseRenewed`, `CounterSound`, `IntervalKept` and `AttemptsSpaced` of MCWifi |
| EepromMountProofs `MountTypeCorrect` | `TypeOK` of EepromMount |
| `HealthyLogIsKept` | `LogKeptUnlessMisled` |
| `MountIsRight` | `CleanMountIsRight` |
| `ResetsErase` | `ResetErases` |
| DataLogProofs `LogTypes` | `TypeOK` of DataLog: no file outgrows its slot |
| `LogIsTruthful` | `LogTruthful`: of every file no torn index write has given a date |
| `ImplementsRollingLog` | `KeepsRollingLog`: DataLog implements RollingLog |
| `TodayIsKept` | `TodayKept`, when the index has a line for every name |
| ReportingProofs `ReportingTypes` | `TypeOK` of Reporting |
| `EntitiesAreAccounted` | `EntitiesAccounted` |
| `SleepsWithNothingOnTheWay` | `SleepsClean` |
| `PassesDeliver` | `PassDelivers`, with `MaxRetries` of two or more |
| DisplayLoopProofs `DisplayTypes` | `TypeOK` of DisplayLoop |
| `NestsOnce` | `NestingBounded` |
| `StoppedTickersFallSilent` | `StoppedFallSilent` |
| `RingingIsBounded` | `RingingEnds` |
| `AlarmsAreSeen` | `AlarmSeen`: an alarm is fired in its minute or that minute had no tick |

They hold for any set of configurations, any number of presses and power cuts,
any period and counter width, any interval and clock that fit each other, any
number of slots, keys and alarms, any room in files and index, any length of
time; EepromMount has no parameter but its three sizes. The hypotheses, and
what becomes of the property without them:

| Theorem | Without |
|---|---|
| `SecondPressCounts` | a board that cannot deep-sleep clears its mark and stays awake |
| `RadioIsReady` | a failed save or a missed probe leads to WiFi with the radio uninitialised |
| `ConfigIsReachable` | config mode entered at run time has no web server; on a display board a configuration saved over the web without reboot enters it without the soft-AP |
| `PortalRequestIsSpent` | the offline branch of `setup()` passes the request by, see below |
| `TodayIsKept` | the run index_full; real lines are at most 17 bytes, and 57 of them, one for each of the names and the mode, fit the 1006 bytes that a file of a 32 KB chip has |
| `PassesDeliver` | with a single attempt, one that fails on a reused port costs the reading; the code has ten (`data_types.h:83`) |

The inductive invariants and why they are needed:

* **The decisions** of ModeLogic need none but that a configuration is one
  (`Valid`): they are facts about each configuration.
* **The boot mark.** Whether a boot gets the window is decided from the mark,
  which was set or cleared by an earlier boot; the properties only speak of the
  window. `TimerWakeInv` adds that a sleeping board has its mark cleared, and
  that its timer wake finds it so and reports a deep sleep until the mark is
  read. `PressInv` adds that the mark is set from the moment it is read until
  the sleep, and that a press in that time still finds it. The second needs a
  board that can deep-sleep: one that cannot clears its mark in
  `startDeepSleep()` and stays awake.
* **The radio.** `RadioInv` says where a boot with an uninitialised radio can
  be at all: before the guard with an offline configuration in flash and the
  module attached, or in the loop in offline mode. To hold it needs that an
  offline configuration in RAM is the one in flash (`OfflineStored`), which a
  failed save breaks; and that the module is found, which a missed probe
  breaks. These are the two hypotheses of `RadioIsReady`, and both are needed:
  with either fault TLC finds an uninitialised radio in use.
* **The web UI.** `ConfigModeReachable` and `DisplayServesUi` speak of the loop;
  what serves the UI there was started by `setup()` from the configuration it
  had then. `UiInv` follows it: on a battery board config mode is only reached
  through `services`, with UI and soft-AP; a display board goes to WiFi only in
  config mode or outside offline mode, where the plan has the web server, and
  whatever is configured later leaves the server running. The one boot without
  a UI is the offline one, and no way leads out of it but the button's restart.
* **The portal request.** `PortalInv`: neither RAM nor flash is offline, whatever
  a save leaves, so every boot comes through `setupWifi()`.
* **The duty cycle.** Every step of Device has one of a few shapes (a step
  within setup, a boot, a cut, the end of setup, falling asleep, a save in
  config mode, a step that changes no mode), each of them a step of DutyCycle
  or a stutter. Where the phase depends on the radio `RadioInv` is used, which
  is why its hypotheses come back; run-time configuration enters and leaves
  config mode without a boot, and is therefore excluded.
* **The lease.** `PeriodInv` and `LeaseInv` tie the counter to the
  configuration the station has: a static address is applied only while the
  counter is below the period, so the counter saved after it is at most the
  period less one; `StationInv` says in which places a station can be static.
* **The clock.** `SleepInv`: as long as the interval runs, the difference of
  the clock is the real time spent (`ClockShows`), which needs a bound on it
  (`Overrun`) below the clock's range; and the interval is waited out only once
  the judge has given up (`JudgeStands`). `LiveInv`: the difference to the last
  attempt is the real time since, until that is the retry interval; from then
  on it may say anything, an attempt is allowed whatever it says.
* **One clock.** `WifiInv` puts the invariants of the parts side by side; of a
  part that is not on the bench it says that it is at its start
  (`ElsewhereAtRest`), which is where the board that takes its place begins.
* **Mount and format.** `PlaceInv` says when the capacity is known. `MountInv`:
  a mount leaves the chip as it found it until it formats, and on a healthy log
  it gets there only with a wrong size or a stray page; without one an answer
  that is no error is the header the chip really has. `StrayInv`: on a bus that
  answered throughout no page was stray. `ProbeInv` follows the bytes under the size probe, read,
  marked, verified and restored, with the address wrapping at the end of the
  chip; `FormatInv` follows the header and the page buffer through a format.
* **The data log.** `IInv` adds two facts. `CacheInv`: the file of the cached
  label holds only that label, and the index, if it has a date for the file,
  has that one; it is what allows the index not to be read again. `JobInv`: an
  entry on its way goes into the slot of its label, the file is empty before
  its label is recorded, and the cache has the label before the entry is
  written. It is the order clear, label, append, and the reason why a cut
  between any two leaves no lie. The refinement needs `NowInv` besides: an
  entry on its way is one of the period it is now, and its file is cleared only
  while the index does not give it that period. `DatedInv`, for `TodayIsKept`:
  with room in the index every file with entries has their date, unless a power
  cut spoiled its line; so what is cleared or recycled is not today's.
  `MisledInv`: a misled file has entries, so the exception is about those
  entries and ends when they are cleared.
* **Discovery.** `BookInv`: every entity the broker has, or will have when the
  buffer arrives, is in the key file, or leaving (its retirement is on its way
  or lost), or among those announced just now. From the retirement on, those
  the new key file will not list are leaving, which is why it may be written
  over the old one.
* **Sleep after a pass.** `RestInv`: on a board that sleeps there is a session
  or data on the way only in a pass that has found the link and has a broker
  service; the plan of such a pass is to drain and to disconnect.
* **Delivery.** `PassInv` follows each reading of a pass that has the broker all
  along: it is still to be sent, on its way, or there. At most one attempt to
  connect fails, on a reused port, so two are enough; the session stays open
  through discovery until nothing is left to send. Together with `RestInv` (the
  buffer is empty when the board sleeps) every reading is there.
* **Nested reads.** `ReadInv`: the display's read is the innermost one exactly
  while the static `reading` is set, so none can start inside it.
* **Stopped tickers.** `StopInv`: what has been stopped has no timer, and what
  has run since has no flag left.
* **Alarms.** `SeenInv`: what has not been looked at in a minute is younger
  than the last tick; so if one is left when the minute ends, the last tick was
  before the minute began. `RingInv`: an alarm rings for less than the mute time and the
  time since the last tick; a stamp of this minute goes with having fired in it.

**Only model-checked:** liveness (out of reach of the prover: `BootSettles`,
`LinkRecovers`, `SleepEnds`, `GivesUpEventually`, `DhcpComesRound`, `TaskEnds`,
`OutageSurvived`, `DiscoveryConverges`, `ServicesRun`), and what the three runs
that end in a violation show. Every safety property of the passing runs is
proved.

## Where code and words part

### Found by a run

* **waitout_underflow.** `sleep_modes.h:179` waits `targetMs - (millis() -
  sleepStart)` after the judge has given up on the SDK, without asking whether
  the interval is over. The chunk that brought the last early return can end
  after it; the unsigned difference wraps and the `delay()` is for about 49 days. The comment above it
  (`sleep_modes.h:176-178`) wants the opposite, to keep "the reporting interval
  honest".
* **log_erased.** `EepromFS::begin()` writes three marks and reads two of them
  back; every transaction overwrites `ferror`, which is looked at once, after
  the last mark (`EepromFS.cpp:127-132`). One mark that is not acknowledged, or
  one read-back that fails and returns 0, is taken for a 4 KB or 32 KB part. The
  mark in the header then does not match and a healthy log is formatted,
  although "a transient bus failure at mount time must not be mistaken for a
  blank chip" (`eeprom.h:60-61`, `69`). Running the code on the repository's
  host shims, with one transaction refused, shows the same: the first two mark
  writes and both read-backs lose the log. There is a second route:
  `rawread()` ignores whether the address of a page was acknowledged
  (`EepromFS.cpp:62`). If only that fails, and the read behind it is answered,
  bytes from another place are taken for the header, look blank or laid out for
  another size, and the log is formatted as well. These two are all:
  `LogKeptUnlessMisled`, in `eeprom_mount`.
* **index_full.** `setFileDate()` (`eeprom.h:280-301`) writes all labels, the
  new one last, and the index ends at the end of its slot without a sign. On a
  4 KB chip a file has 110 bytes; the line of the mode and seven labels fill
  it. The label of the eighth day is lost, so on every boot of that day, which
  for a deep-sleeping board is every wake, the file counts as stale and is
  cleared, where `tehybug.h:251-253` clears it "the first time we log into a
  given period". Reproduced with the host shims, too.

### Stated in a module, not in a run

* **The portal request can stick.** `sleep_modes.h:59-62` says the request is
  consumed by `setupWifi()` and "can never stick". A boot that takes the
  offline branch before `setupWifi()` (the web UI saved offline mode, then
  "Change WiFi network") leaves it in RTC memory, and a later boot out of
  offline mode opens the portal unasked. `PortalRequestOneBoot` in Device.
* **Drops add up.** `wifi_service.h:23-24` caps "consecutive failures". The
  static `attempts` is only cleared when `connectToWiFi()` is entered with a
  link but without an address; drops that the link recovered from count on, and
  the seventh attempt restarts the board. `RestartOnlyAfterFailuresInARow` in
  LiveWifi.
* **The counter of a light-sleeping board.** `sleep_modes.h:234-236` restarts
  the counter "because this path re-runs DHCP: it applies no static address".
  After a boot through the fast path the station still has the static address,
  so nothing is renewed however many wakes follow. `LightCounterHonest` in
  WifiHint.

* **A broker that forgets.** `mqtt_service.h:313` says of a new session that
  it, "and any broker restart behind it, needs discovery again". The flag is
  cleared, but then the memo in RTC memory is asked, and it has the entities
  for announced. A board that sleeps comes round to its refresh, because every
  wake counts towards it; a board that stays awake counts only boots and new
  sessions, and its entities may stay away for as long as nothing else breaks.
  A reset between the memo and the first publish has the same effect.
  `RestartRepaired` in Reporting.

### Seen in the models, without a property of their own

* A power cut while the index is rewritten can give a file the date of another
  one, or a date that never was (see DataLog above). The listing shows that
  date; and if it happens to be the one of the period that comes next in that
  slot, the new entries are added to the old ones, which "the slot's label
  differs" (`tehybug.h:247-253`) was to prevent. `LogTruthful` confines it to
  those files, until they are cleared.
* The loop may be held up for a minute and longer, and an alarm of that minute
  is then missed; `AlarmSeen` confines it to that.

* The key file is rewritten whether or not the retirements arrived
  (`mqtt_service.h:183`): one that is lost leaves its entity on the broker for
  ever. `EntitiesAccounted` confines it to exactly those keys.
* A sensor that does not answer on one wake of a deep-sleeping board has its
  entity retired on that wake, and announced again on the next.
* "Don't start a second read inside the first" (`display.h:303-304`) is kept
  for the display's own read. A read of a ticker or a web handler does contain
  one of the display; `NestingBounded` says that it ends there.
* After `disableAll()` a service may be sent once more: a flag raised before is
  still served (`TickerScheduler.cpp:74`).

* Config mode entered at run time (remote control `configMode: on`, or a
  configuration set without reboot) has neither web server nor access point,
  which only `setup()` starts (`tehybug.h:128`); `mode_logic.h:38` says "the
  web UI is up". `ConfigModeReachable` fails with `RuntimeConfig`.
* The converse: a board reconfigured at run time from a sleeping mode to live
  has no tickers (`ino:273`), so it serves nothing until a reset.
* A board in offline mode whose probe misses the module once, on a wake with
  the radio off, falls through to WiFi (`ino:160`) with a radio that is not
  initialised; it fails to connect, sleeps with the radio on and recovers on
  the next wake.
* The display board takes the path "No WiFi in a serving mode, deep sleep and
  retry" (`wifi_service.h:376`) like the battery boards, though it "never
  sleeps" (`mode_logic.h:205-206`).
* The offline branch (`ino:179`) returns before the decision of
  `mustForceConfig()` (`mode_logic.h:169-171`): an offline board with nothing
  to log sleeps and wakes without ever landing in config mode.
* The `delay()` of the wait after giving up (`sleep_modes.h:179`) can be
  released early like any other, so the interval may be cut short in that case;
  `IntervalKept` speaks of the others.
* On a 32 KB chip a log without a capacity mark is adopted as one from an older
  firmware (`eeprom.h` `Legacy` in EepromMount). A format that was cut short
  has no mark either: after an interrupted factory reset the next boot accepts
  the chip, with those old day files that had not been cleared.
* The size probe writes three marks into the chip and restores them; when it
  gives up, or the power goes in between, they stay in log entries.
* "At most one entry per minute" (`tehybug.h:233`) is kept by `m_lastLogStamp`
  in RAM: two boots within one minute log twice.
* The period is compared once per boot. Switched there and back between two
  boots it wipes nothing, and entries of both layouts can stay side by side,
  each correctly labelled.

## Not modelled

* **Vendored libraries** except the parts of EepromFS and TickerScheduler named
  above. They are nine tenths and more of the lines in the repository (U8g2 with
  its fonts, WiFiManager, Adafruit NeoPixel, ArduinoJson, sensor drivers);
  the firmware's own code is some 7,000 lines. They draw, drive pins and parse;
  the state the firmware depends on is none of theirs. The ESP8266 SDK,
  WiFiManager and PubSubClient appear as what they may answer.
* **Sensors** (`sensors.h`), **HTTP requests** (`http_request.h`), **LED and
  buzzer**, **I2C scanner output**: driver calls without state that another
  component depends on. That a read takes time and draws meanwhile is in
  DisplayLoop, that a sensor may be missing or silent in Reporting.
* **Text**: placeholders, templates, date formatting, JSON. The data log keeps
  of an entry only its period, of the configuration file only the flags a mode
  depends on; a discovery document is its key.
* **Scenarios** (`data_service.h`): they compare a reading and switch a pin or
  send a request, and keep nothing.
* **The sweep of the Lua firmware's topics** in the discovery: it retires names
  this firmware never announces.
* **Download and listing** of the log, the web pages, mDNS, the OTA upload
  itself: they read, or hand over to a library.
* **Pages, night mode and debouncing** of the display: output, or detail of an
  input that the models take as a press.
* **Bus faults while logging**: DataLog takes the bus to work; EepromMount has
  them for mount and format.
* **Modem sleep** (`startModemSleep`): calls without a decision.

## Plan

The order of the work: decisions first, because everything is built on them;
then the board's life, where most promises of the documentation are; then the
pieces with a clock or a counter of their own; then the log. Done:
ModeLogic, Device with DutyCycle, LightSleep, WifiHint and LiveWifi with MCWifi,
EepromMount, DataLog with RollingLog, Reporting, DisplayLoop, and the proofs
of every safety property their runs check.

Left, in this order:

1. Bus faults in DataLog: a write that is not acknowledged between clear, label
   and append, and what the caches in RAM make of it.
2. The interrupted format as a property of its own: what a chip that lost power
   in a format is taken for on each size, with its old day files.
3. A half-answered format in EepromMount (the bus comes back before the end).
4. Proofs: an abstract specification of reporting (a reading is taken, sent and
   there) and Reporting as its refinement; when a wait after giving up fits its
   interval, for any interval and back-off.
5. Reporting with two sensors at a time, and a display board whose tickers of
   DisplayLoop start the sends of Reporting.
