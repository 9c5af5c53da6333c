----------------------------- MODULE Reporting -----------------------------
(***************************************************************************)
(* One reporting pass after another: serve_data (data_service.h) with the  *)
(* MQTT client and the Home Assistant discovery of mqtt_service.h, in a    *)
(* board that sleeps after each pass or stays awake and reports on its     *)
(* tickers.  Around it the link, a broker that comes, goes and may lose    *)
(* its retained messages, sensors that are swapped or do not answer, and   *)
(* resets at any point.  HTTP sends leave no state and are not shown.      *)
(***************************************************************************)
EXTENDS ModeLogic, FiniteSets

CONSTANTS
  Configs,     \* the configurations tried
  Keys,        \* sensor keys
  SensorSets,  \* the sets of sensors that may be fitted
  MaxRetries,  \* mqtt.maxRetries
  MaxWakes,    \* haDiscoveryMaxWakes
  None

ASSUME ConstantsAreValid ==
  /\ Configs \subseteq {k \in Config : k.active # {}}
  /\ SensorSets \subseteq SUBSET Keys /\ SensorSets # {}
  /\ MaxRetries \in Nat \ {0} /\ MaxWakes \in Nat \ {0}
  /\ None \notin Keys

VARIABLES
  c,          \* the configuration; it stays
  pc,
  net,        \* "none", "link" (no broker), "broker"
  fitted,     \* the sensors on the board
  \* RAM
  data,       \* the keys in sensorData
  session,    \* "dead": the client has not noticed that it is gone
  announced,  \* haConfigPublished
  retries,    \* mqtt.retryCounter
  spaced,     \* MQTT_RETRY_INTERVAL_MS have passed since the last attempt
  linked,     \* the link as this pass found it
  todo,       \* services this pass has still to send
  outbox,     \* published, not yet out of the TCP buffer
  \* RTC memory and flash
  memo,       \* HaDiscoveryMemo, or None
  keyFile,    \* HA_KEYS_FILE
  \* the broker
  entities,   \* retained discovery messages
  arrived,    \* services whose present reading has reached it
  \* history
  lostTrack,  \* keys whose retirement was lost, or never written down
  smooth      \* this pass has had the broker all along

ram == <<data, announced, retries, spaced>>
vars == <<c, pc, net, fitted, ram, session, linked, todo, outbox, memo,
          keyFile, entities, arrived, lostTrack, smooth>>

BrokerServices == {"mqtt", "ha"}

\* A discovery entry set or dropped, or the reading of a service.
Message == [kind : {"add", "drop"}, key : Keys]
           \union [kind : BrokerServices, key : {None}]

TypeOK ==
  /\ c \in Configs
  /\ pc \in {"off", "asleep", "measure", "connect", "send", "retire",
             "announce", "keys", "close", "drain", "down", "idle"}
  /\ net \in {"none", "link", "broker"}
  /\ fitted \in SensorSets
  /\ data \in SUBSET Keys
  /\ session \in {"none", "open", "dead"}
  /\ announced \in BOOLEAN /\ spaced \in BOOLEAN /\ linked \in BOOLEAN
  /\ retries \in 0..MaxRetries
  /\ todo \in SUBSET BrokerServices
  /\ outbox \in SUBSET Message
  /\ memo \in [keys : SUBSET Keys, wakes : 0..MaxWakes] \union {None}
  /\ keyFile \in SUBSET Keys /\ entities \in SUBSET Keys
  /\ arrived \in SUBSET BrokerServices
  /\ lostTrack \in SUBSET Keys
  /\ smooth \in BOOLEAN

Mode == CurrentMode(c, FALSE, FALSE)
Sleeper == IsSleeping(Mode)

\* The lengths of the intervals play no part here.
Plan == ServePlan(c, [i \in Intervals |-> 60], linked)

----------------------------------------------------------------------------
(* The TCP connection.                                                     *)

KeysOf(kind, msgs) == {m.key : m \in {n \in msgs : n.kind = kind}}

Arrive(msgs) ==
  /\ entities' = (entities \union KeysOf("add", msgs)) \ KeysOf("drop", msgs)
  /\ arrived' = arrived \union {s \in BrokerServices : \E m \in msgs : m.kind = s}

LoseTrack(keys) == lostTrack' = lostTrack \union keys

\* What is in the buffer when the connection goes may arrive or not.
DropOutbox ==
  /\ \E got \in SUBSET outbox :
       Arrive(got) /\ LoseTrack(KeysOf("drop", outbox \ got))
  /\ outbox' = {}

\* publish() into a connection that is gone is lost.
Publish(msgs) ==
  IF session = "open"
  THEN outbox' = outbox \union msgs /\ UNCHANGED lostTrack
  ELSE LoseTrack(KeysOf("drop", msgs)) /\ UNCHANGED outbox

Deliver ==
  /\ outbox # {}
  /\ Arrive(outbox) /\ outbox' = {}
  /\ UNCHANGED <<c, pc, net, fitted, ram, session, linked, todo, memo, keyFile,
                 lostTrack, smooth>>

----------------------------------------------------------------------------
(* Boots and sleep.                                                        *)

AfterBoot == IF Sleeper THEN "measure" ELSE "idle"

FreshRam ==
  /\ data' = {} /\ announced' = FALSE /\ retries' = 0 /\ spaced' = TRUE
  /\ session' = "none" /\ todo' = {} /\ linked' = FALSE

\* Only a light sleep keeps RAM.
Wake ==
  /\ pc = "asleep" /\ pc' = "measure"
  /\ IF Mode = "LightSleep" THEN UNCHANGED <<ram, session, todo, linked>>
     ELSE FreshRam
  /\ UNCHANGED <<c, net, fitted, outbox, memo, keyFile, entities, arrived,
                 lostTrack, smooth>>

\* What a reset in the middle of haSyncDiscovery leaves behind.
Interrupt ==
  /\ IF pc = "keys"
     THEN /\ keyFile' \in {keyFile, {}}
          /\ \E got \in SUBSET outbox :
               /\ Arrive(got)
               /\ LoseTrack(data \union keyFile \union KeysOf("drop", outbox))
          /\ outbox' = {}
     ELSE DropOutbox /\ UNCHANGED keyFile
  /\ FreshRam
  /\ smooth' = FALSE

\* RESET button or crash: RTC memory stays.
Reset ==
  /\ pc # "off" /\ pc' = AfterBoot
  /\ Interrupt
  /\ UNCHANGED <<c, net, fitted, memo>>

LosePower ==
  /\ pc # "off" /\ pc' = "off"
  /\ Interrupt
  /\ memo' = None
  /\ UNCHANGED <<c, net, fitted>>

PowerOn ==
  /\ pc = "off" /\ pc' = AfterBoot
  /\ UNCHANGED <<c, net, fitted, ram, session, linked, todo, outbox, memo,
                 keyFile, entities, arrived, lostTrack, smooth>>

\* Sensors are swapped with the board off or in deep sleep.
Swap ==
  /\ pc = "off" \/ (pc = "asleep" /\ Mode = "DeepSleep")
  /\ fitted' \in SensorSets \ {fitted}
  /\ UNCHANGED <<c, pc, net, ram, session, linked, todo, outbox, memo, keyFile,
                 entities, arrived, lostTrack, smooth>>

----------------------------------------------------------------------------
(* The network.                                                            *)

\* The peer is gone; the client sees it now, or later.
Break(seen) ==
  /\ session' = IF session = "none" \/ seen THEN "none" ELSE "dead"
  /\ DropOutbox

NetChanges ==
  /\ net' \in {"none", "link", "broker"} \ {net}
  /\ \E seen \in BOOLEAN : Break(seen)
  /\ smooth' = FALSE
  /\ UNCHANGED <<c, pc, fitted, ram, linked, todo, memo, keyFile>>

\* The broker restarts without its retained messages.
StoreLost ==
  /\ net = "broker"
  /\ \E seen \in BOOLEAN :
       session' = IF session = "none" \/ seen THEN "none" ELSE "dead"
  /\ entities' = {} /\ outbox' = {}
  /\ LoseTrack(KeysOf("drop", outbox))
  /\ smooth' = FALSE
  /\ UNCHANGED <<c, pc, net, fitted, ram, linked, todo, memo, keyFile, arrived>>

\* PubSubClient::loop, or a failed write.
NoticeDead ==
  /\ session = "dead" /\ session' = "none"
  /\ UNCHANGED <<c, pc, net, fitted, ram, linked, todo, outbox, memo, keyFile,
                 entities, arrived, lostTrack, smooth>>

TimePasses ==
  /\ ~spaced /\ spaced' = TRUE
  /\ UNCHANGED <<c, pc, net, fitted, data, announced, retries, session, linked,
                 todo, outbox, memo, keyFile, entities, arrived, lostTrack, smooth>>

----------------------------------------------------------------------------
(* Connecting.                                                             *)

\* retryCounter saturates.
CountRetry_Rolls == retries' = retries + 1  \* mutant: no saturation
CountRetry == retries' = IF retries < MaxRetries THEN retries + 1 ELSE retries

\* mqttAttemptConnect.  Straight after a wake the first attempt may fail on a
\* reused port although the broker is there.
Attempt ==
  \/ /\ net = "broker"
     /\ session' = "open" /\ retries' = 0 /\ announced' = FALSE
  \/ /\ net # "broker" \/ (pc = "connect" /\ retries = 0)
     /\ CountRetry /\ UNCHANGED <<session, announced>>

Reconnect_Capped ==  \* mutant: the retries of live mode run out
  IF spaced /\ retries < MaxRetries THEN Attempt /\ spaced' = FALSE
  ELSE UNCHANGED <<session, retries, announced, spaced>>

\* mqttReconnect: one attempt, not sooner than the interval after the last.
Reconnect ==
  IF spaced THEN Attempt /\ spaced' = FALSE
  ELSE UNCHANGED <<session, retries, announced, spaced>>

FreshBudget_Kept == UNCHANGED retries  \* mutant: only a success resets it
FreshBudget == retries' = 0

\* serve_data up to the decision, with the readings it is to send.  A sensor
\* that does not answer leaves no key.
StartPass(answered) ==
  /\ pc = "measure"
  /\ data' = data \union answered
  /\ linked' = (net # "none") /\ smooth' = (net = "broker")
  /\ LET plan == ServePlan(c, [i \in Intervals |-> 60], linked')
     IN  /\ todo' = plan.send \intersect BrokerServices
         /\ IF plan.connectMqtt /\ session = "none"
            THEN pc' = "connect" /\ FreshBudget
            ELSE pc' = "send" /\ UNCHANGED retries
  /\ arrived' = {}
  /\ UNCHANGED <<c, net, fitted, session, announced, spaced, outbox, memo,
                 keyFile, entities, lostTrack>>

\* The same for the ticker of one service.
Tick(s, answered) ==
  /\ pc = "idle" /\ s \in c.active
  /\ pc' = "send" /\ todo' = {s}
  /\ data' = data \union answered
  /\ arrived' = arrived \ {s}
  /\ UNCHANGED <<c, net, fitted, session, announced, retries, spaced, linked,
                 outbox, memo, keyFile, entities, lostTrack, smooth>>

\* mqttEnsureConnected: it gives up on the budget or the retries.
TryConnect ==
  /\ pc = "connect" /\ session = "none" /\ retries < MaxRetries
  /\ Attempt
  /\ pc' = IF session' = "open" THEN "send" ELSE "connect"
  /\ UNCHANGED <<c, net, fitted, data, spaced, linked, todo, outbox, memo,
                 keyFile, entities, arrived, lostTrack, smooth>>

\* One attempt that fails on a reused port leaves time for another.
BudgetSpent == retries > 1 \/ (retries = 1 /\ net # "broker")

GivesUp_Never == FALSE  \* mutant: until it is connected
GivesUp == retries >= MaxRetries \/ BudgetSpent

ConnectOver ==
  /\ pc = "connect" /\ pc' = "send"
  /\ session # "none" \/ GivesUp
  /\ UNCHANGED <<c, net, fitted, ram, session, linked, todo, outbox, memo,
                 keyFile, entities, arrived, lostTrack, smooth>>

----------------------------------------------------------------------------
(* Sending.                                                                *)

Reading(s) == [kind |-> s, key |-> None]

\* mqttSendData: without a session this only tries for one.
SendMqtt ==
  /\ pc = "send" /\ "mqtt" \in todo
  /\ todo' = todo \ {"mqtt"}
  /\ IF session = "none"
     THEN Reconnect /\ UNCHANGED <<outbox, lostTrack>>
     ELSE Publish({Reading("mqtt")}) /\ UNCHANGED <<session, retries, announced, spaced>>
  /\ UNCHANGED <<c, pc, net, fitted, data, linked, memo, keyFile, entities, arrived, smooth>>

\* haSendData comes after it.
HaTurn == pc = "send" /\ "ha" \in todo /\ "mqtt" \notin todo

HaReconnect ==
  /\ HaTurn /\ session = "none"
  /\ todo' = todo \ {"ha"}
  /\ Reconnect
  /\ UNCHANGED <<c, pc, net, fitted, data, linked, outbox, memo, keyFile,
                 entities, arrived, lostTrack, smooth>>

SendState ==
  /\ HaTurn /\ session # "none" /\ announced
  /\ todo' = todo \ {"ha"}
  /\ Publish({Reading("ha")})
  /\ UNCHANGED <<c, pc, net, fitted, ram, session, linked, memo, keyFile,
                 entities, arrived, smooth>>

CountWake_Never(m) == m  \* mutant: the refresh never comes round
CountWake(m) == [m EXCEPT !.wakes = @ + 1]

StillRetained == memo # None /\ memo.keys = data /\ memo.wakes < MaxWakes

\* haDiscoveryNeeded: the memo is written before anything is published.
AskMemo ==
  /\ HaTurn /\ session # "none" /\ ~announced
  /\ IF StillRetained
     THEN memo' = CountWake(memo) /\ announced' = TRUE /\ UNCHANGED pc
     ELSE /\ memo' = [keys |-> data, wakes |-> 0]
          /\ pc' = "retire" /\ UNCHANGED announced
  /\ UNCHANGED <<c, net, fitted, data, retries, spaced, session, linked, todo,
                 outbox, keyFile, entities, arrived, lostTrack, smooth>>

Gone_Nothing == {}  \* mutant: entities of removed sensors stay
Gone == keyFile \ data

\* haSyncDiscovery: drop what has gone, announce what there is, write it down.
Retire ==
  /\ pc = "retire" /\ pc' = "announce"
  /\ Publish([kind : {"drop"}, key : Gone])
  /\ UNCHANGED <<c, net, fitted, ram, session, linked, todo, memo, keyFile,
                 entities, arrived, smooth>>

Announce ==
  /\ pc = "announce" /\ pc' = "keys"
  /\ Publish([kind : {"add"}, key : data])
  /\ UNCHANGED <<c, net, fitted, ram, session, linked, todo, memo, keyFile,
                 entities, arrived, smooth>>

WriteKeys ==
  /\ pc = "keys" /\ pc' = "send"
  /\ keyFile' = data /\ announced' = TRUE
  /\ UNCHANGED <<c, net, fitted, data, retries, spaced, session, linked, todo,
                 outbox, memo, entities, arrived, lostTrack, smooth>>

----------------------------------------------------------------------------
(* The end of a pass.                                                      *)

AllSent ==
  /\ pc = "send" /\ todo = {}
  /\ pc' = IF Sleeper THEN "close" ELSE "idle"
  /\ UNCHANGED <<c, net, fitted, ram, session, linked, todo, outbox, memo,
                 keyFile, entities, arrived, lostTrack, smooth>>

Drains_Never == FALSE  \* mutant: straight to sleep
Drains == Plan.drainMqtt

\* disconnect(); what is in the buffer is still on its way.
Close ==
  /\ pc = "close"
  /\ session' = IF Plan.disconnectMqtt THEN "none" ELSE session
  /\ pc' = IF Drains THEN "drain" ELSE "down"
  /\ UNCHANGED <<c, net, fitted, ram, linked, todo, outbox, memo, keyFile,
                 entities, arrived, lostTrack, smooth>>

\* MQTT_DRAIN_MS is enough on a working link.
Drain ==
  /\ pc = "drain" /\ pc' = "down"
  /\ Arrive(outbox) /\ outbox' = {}
  /\ UNCHANGED <<c, net, fitted, ram, session, linked, todo, memo, keyFile, lostTrack, smooth>>

\* startSleep: the radio is off, and with it whatever was still in the buffer.
StartSleep ==
  /\ pc = "down" /\ pc' = "asleep"
  /\ DropOutbox
  /\ session' = "none"
  /\ UNCHANGED <<c, net, fitted, ram, linked, todo, memo, keyFile, smooth>>

----------------------------------------------------------------------------
Init ==
  /\ c \in Configs /\ pc = "off" /\ net = "none" /\ fitted \in SensorSets
  /\ data = {} /\ session = "none" /\ announced = FALSE /\ retries = 0
  /\ spaced = TRUE /\ linked = FALSE /\ todo = {} /\ outbox = {}
  /\ memo = None /\ keyFile = {} /\ entities = {} /\ arrived = {}
  /\ lostTrack = {} /\ smooth = FALSE

Measured == StartPass(fitted) \/ \E s \in BrokerServices : Tick(s, fitted)
Unmeasured ==  \* some sensor has not answered since the boot
  \E some \in SUBSET fitted :
    /\ ~(fitted \subseteq data \union some)
    /\ StartPass(some) \/ \E s \in BrokerServices : Tick(s, some)

Work == \/ TryConnect \/ ConnectOver \/ SendMqtt \/ HaReconnect \/ SendState
        \/ AskMemo \/ Retire \/ Announce \/ WriteKeys
        \/ AllSent \/ Close \/ Drain \/ StartSleep
Network == Deliver \/ NoticeDead \/ TimePasses
Disturbance == Unmeasured \/ Reset \/ LosePower \/ Swap \/ NetChanges \/ StoreLost

Next == Measured \/ Work \/ Wake \/ PowerOn \/ Network \/ Disturbance

\* The firmware goes on with what it has begun, and alarms and tickers fire;
\* TCP delivers and connections time out.
Fairness ==
  /\ WF_vars(Work) /\ WF_vars(Measured \/ Unmeasured)
  /\ WF_vars(Wake) /\ WF_vars(PowerOn)
  /\ WF_vars(Deliver) /\ WF_vars(NoticeDead) /\ WF_vars(TimePasses)

Spec == Init /\ [][Next]_vars /\ Fairness

----------------------------------------------------------------------------
(* Properties                                                              *)

\* Every entity Home Assistant shows is one the key file lists, so that it can
\* be retired when its sensor goes -- or one whose retirement was lost on the
\* way, or whose announcement a reset kept from being written down.
EntitiesAccounted ==
  entities \subseteq keyFile \union lostTrack \union KeysOf("drop", outbox)
                     \union IF pc = "keys" THEN data ELSE {}

\* A board goes to sleep with nothing in the TCP buffer and the broker let go:
\* what a pass publishes is not lost by the sleep that ends it.
SleepsClean == pc \in {"down", "asleep"} => outbox = {} /\ session = "none"

\* A pass that has the broker all along delivers every reading: neither an
\* earlier outage nor a first attempt that fails after the wake costs one.
PassDelivers ==
  pc = "asleep" /\ smooth => c.active \intersect BrokerServices \subseteq arrived

\* Whatever the network does, a pass ends in sleep.
PassEnds == Sleeper => []<><<Reset>>_vars \/ []<>(pc \in {"asleep", "off"})

Unsettled == []<><<Disturbance>>_vars \/ []<>(net # "broker")

\* Once the network and the sensors stay, readings arrive again and again.
ReadingsResume ==
  Unsettled \/ \A s \in BrokerServices : s \in c.active => []<>(s \in arrived)

\* An outage neither keeps a battery board awake nor, however long, makes a
\* board that stays awake give up for good.
OutageSurvived == PassEnds /\ ReadingsResume

\* A sleeping board puts discovery right by itself, whatever was lost, and
\* although it sends it on few of its wakes.
DiscoveryConverges ==
  Sleeper /\ "ha" \in c.active => Unsettled \/ <>[](fitted \subseteq entities)

\* "a fresh session (and any broker restart behind it) needs discovery again"
\* (mqtt_service.h:313): the entities come back on a board that stays
\* awake, too.  It does not hold: the memo has the session pass for announced,
\* and only boots and new sessions count towards its refresh.
RestartRepaired ==
  ~Sleeper /\ "ha" \in c.active => Unsettled \/ <>[](fitted \subseteq entities)
=============================================================================
