-------------------------- MODULE ReportingProofs --------------------------
(***************************************************************************)
(* Reporting for any sensors, configurations and limits, whatever the      *)
(* network, the broker and the supply do: no entity of Home Assistant is   *)
(* lost from the books, and no sleep begins with data on the way.          *)
(***************************************************************************)
EXTENDS Reporting, TLAPS

----------------------------------------------------------------------------
(* Messages.                                                               *)

LEMMA KeysOfUnion ==
  ASSUME NEW kind, NEW A, NEW B
  PROVE  KeysOf(kind, A \union B) = KeysOf(kind, A) \union KeysOf(kind, B)
BY DEF KeysOf

LEMMA KeysOfParts ==
  ASSUME NEW kind, NEW A, NEW B, B \subseteq A
  PROVE  /\ KeysOf(kind, A) = KeysOf(kind, B) \union KeysOf(kind, A \ B)
         /\ KeysOf(kind, B) \subseteq KeysOf(kind, A)
BY DEF KeysOf

LEMMA KeysOfEntries ==
  ASSUME NEW K
  PROVE  /\ KeysOf("drop", [kind : {"drop"}, key : K]) = K
         /\ KeysOf("add", [kind : {"drop"}, key : K]) = {}
         /\ KeysOf("add", [kind : {"add"}, key : K]) = K
         /\ KeysOf("drop", [kind : {"add"}, key : K]) = {}
<1>1. ASSUME NEW kind \in {"add", "drop"}
      PROVE  KeysOf(kind, [kind : {kind}, key : K]) = K
  <2>1. KeysOf(kind, [kind : {kind}, key : K]) \subseteq K
    BY DEF KeysOf
  <2>2. ASSUME NEW k \in K
        PROVE  k \in KeysOf(kind, [kind : {kind}, key : K])
    <3>1. PICK m \in [kind : {kind}, key : K] : m.kind = kind /\ m.key = k
      <4>1. [kind |-> kind, key |-> k] \in [kind : {kind}, key : K]
        OBVIOUS
      <4> QED
        BY <4>1
    <3>2. m.key \in KeysOf(kind, [kind : {kind}, key : K])
      BY <3>1, Zenon DEF KeysOf
    <3> QED
      BY <3>1, <3>2
  <2> QED
    BY <2>1, <2>2
<1>2. /\ KeysOf("add", [kind : {"drop"}, key : K]) = {}
      /\ KeysOf("drop", [kind : {"add"}, key : K]) = {}
  BY DEF KeysOf
<1> QED
  BY <1>1, <1>2

LEMMA KeysOfReading ==
  ASSUME NEW s \in BrokerServices
  PROVE  /\ KeysOf("add", {Reading(s)}) = {} /\ KeysOf("drop", {Reading(s)}) = {}
         /\ KeysOf("add", {}) = {} /\ KeysOf("drop", {}) = {}
BY DEF KeysOf, Reading, BrokerServices

LEMMA KeysOfNothing == KeysOf("add", {}) = {} /\ KeysOf("drop", {}) = {}
BY DEF KeysOf

LEMMA KeysOfMessages ==
  ASSUME NEW msgs \in SUBSET Message, NEW kind \in {"add", "drop"}
  PROVE  KeysOf(kind, msgs) \in SUBSET Keys
BY DEF KeysOf, Message, BrokerServices

LEMMA Messages ==
  /\ \A s \in BrokerServices : {Reading(s)} \in SUBSET Message
  /\ \A K \in SUBSET Keys : /\ [kind : {"drop"}, key : K] \in SUBSET Message
                            /\ [kind : {"add"}, key : K] \in SUBSET Message
BY DEF Message, Reading

----------------------------------------------------------------------------
(* Types, in parts.                                                        *)

PlaceType ==
  /\ c \in Configs
  /\ pc \in {"off", "asleep", "measure", "connect", "send", "retire",
             "announce", "keys", "close", "drain", "down", "idle"}
  /\ net \in {"none", "link", "broker"}
  /\ session \in {"none", "open", "dead"}

FlagType ==
  /\ announced \in BOOLEAN /\ spaced \in BOOLEAN /\ linked \in BOOLEAN
  /\ smooth \in BOOLEAN /\ retries \in 0..MaxRetries

KeyType ==
  /\ fitted \in SensorSets /\ data \in SUBSET Keys
  /\ keyFile \in SUBSET Keys /\ lostTrack \in SUBSET Keys

WireType ==
  /\ outbox \in SUBSET Message /\ entities \in SUBSET Keys
  /\ arrived \in SUBSET BrokerServices /\ todo \in SUBSET BrokerServices

MemoType == memo \in [keys : SUBSET Keys, wakes : 0..MaxWakes] \union {None}

TInv == PlaceType /\ FlagType /\ KeyType /\ WireType /\ MemoType

LEMMA Limits == MaxRetries \in Nat /\ MaxWakes \in Nat /\ 0 \in 0..MaxRetries
                /\ 0 \in 0..MaxWakes /\ SensorSets \subseteq SUBSET Keys
BY ConstantsAreValid

\* What arrives are entities and readings.
LEMMA ArriveTypes ==
  ASSUME WireType, NEW msgs \in SUBSET outbox, Arrive(msgs)
  PROVE  entities' \in SUBSET Keys /\ arrived' \in SUBSET BrokerServices
<1>1. msgs \in SUBSET Message /\ entities \in SUBSET Keys
      /\ arrived \in SUBSET BrokerServices
  BY DEF WireType
<1>2. KeysOf("add", msgs) \in SUBSET Keys
  BY <1>1, KeysOfMessages
<1> QED
  BY <1>1, <1>2 DEF Arrive

LEMMA DropTypes ==
  ASSUME WireType, KeyType, DropOutbox, todo' \in SUBSET BrokerServices
  PROVE  WireType' /\ lostTrack' \in SUBSET Keys
<1>1. PICK got \in SUBSET outbox :
        Arrive(got) /\ LoseTrack(KeysOf("drop", outbox \ got))
  BY DEF DropOutbox
<1>2. entities' \in SUBSET Keys /\ arrived' \in SUBSET BrokerServices
  BY <1>1, ArriveTypes
<1>3. KeysOf("drop", outbox \ got) \in SUBSET Keys
  BY KeysOfMessages DEF WireType
<1>4. lostTrack' \in SUBSET Keys
  BY <1>1, <1>3 DEF LoseTrack, KeyType
<1> QED
  BY <1>2, <1>4 DEF DropOutbox, WireType

LEMMA PublishTypes ==
  ASSUME WireType, KeyType, NEW msgs \in SUBSET Message, Publish(msgs),
         UNCHANGED <<entities, arrived>>, todo' \in SUBSET BrokerServices
  PROVE  WireType' /\ lostTrack' \in SUBSET Keys
<1>1. KeysOf("drop", msgs) \in SUBSET Keys
  BY KeysOfMessages
<1>2. CASE session = "open"
  BY <1>2 DEF Publish, WireType, KeyType
<1>3. CASE session # "open"
  BY <1>1, <1>3 DEF Publish, LoseTrack, WireType, KeyType
<1> QED
  BY <1>2, <1>3

LEMMA AttemptTypes ==
  ASSUME PlaceType, FlagType, Attempt
  PROVE  /\ session' \in {"none", "open", "dead"} /\ retries' \in 0..MaxRetries
         /\ announced' \in BOOLEAN
<1>1. \A n \in 0..MaxRetries : (IF n < MaxRetries THEN n + 1 ELSE n) \in 0..MaxRetries
  BY Limits
<1>2. retries' \in 0..MaxRetries
  <2>1. CASE retries' = 0
    BY <2>1, Limits
  <2>2. CASE CountRetry
    BY <1>1, <2>2 DEF CountRetry, FlagType
  <2> QED
    BY <2>1, <2>2 DEF Attempt
<1>3. /\ session' \in {"none", "open", "dead"} /\ announced' \in BOOLEAN
  BY DEF Attempt, PlaceType, FlagType
<1> QED
  BY <1>2, <1>3

LEMMA ReconnectTypes ==
  ASSUME PlaceType, FlagType, Reconnect
  PROVE  /\ session' \in {"none", "open", "dead"} /\ retries' \in 0..MaxRetries
         /\ announced' \in BOOLEAN /\ spaced' \in BOOLEAN
<1>1. CASE spaced
  BY <1>1, AttemptTypes DEF Reconnect
<1>2. CASE ~spaced
  BY <1>2 DEF Reconnect, PlaceType, FlagType
<1> QED
  BY <1>1, <1>2

\* A boot.
LEMMA FreshTypes ==
  ASSUME FreshRam, smooth' \in BOOLEAN
  PROVE  FlagType' /\ data' \in SUBSET Keys /\ todo' \in SUBSET BrokerServices
         /\ session' = "none"
BY Limits DEF FreshRam, FlagType

LEMMA InterruptTypes ==
  ASSUME TInv, Interrupt
  PROVE  FlagType' /\ WireType' /\ session' = "none" /\ data' \in SUBSET Keys
         /\ keyFile' \in SUBSET Keys /\ lostTrack' \in SUBSET Keys
<1>1. FreshRam /\ smooth' = FALSE
  BY DEF Interrupt
<1>2. FlagType' /\ data' \in SUBSET Keys /\ todo' \in SUBSET BrokerServices
      /\ session' = "none"
  BY <1>1, FreshTypes
<1>3. CASE pc = "keys"
  <2>1. PICK got \in SUBSET outbox :
          Arrive(got) /\ LoseTrack(data \union keyFile \union KeysOf("drop", outbox))
    BY <1>3 DEF Interrupt
  <2>2. keyFile' \in {keyFile, {}} /\ outbox' = {}
    BY <1>3 DEF Interrupt
  <2>3. entities' \in SUBSET Keys /\ arrived' \in SUBSET BrokerServices
    BY <2>1, ArriveTypes DEF TInv
  <2>4. KeysOf("drop", outbox) \in SUBSET Keys
    BY KeysOfMessages DEF TInv, WireType
  <2>5. lostTrack' \in SUBSET Keys /\ keyFile' \in SUBSET Keys
    BY <2>1, <2>2, <2>4 DEF LoseTrack, TInv, KeyType
  <2>6. WireType'
    BY <1>2, <2>2, <2>3 DEF WireType
  <2> QED
    BY <1>2, <2>5, <2>6
<1>4. CASE pc # "keys"
  <2>1. DropOutbox /\ keyFile' = keyFile
    BY <1>4 DEF Interrupt
  <2>2. WireType' /\ lostTrack' \in SUBSET Keys
    BY <1>2, <2>1, DropTypes DEF TInv
  <2> QED
    BY <1>2, <2>1, <2>2 DEF TInv, KeyType
<1> QED
  BY <1>3, <1>4

----------------------------------------------------------------------------
(* Every step keeps the types.                                             *)

LEMMA InitTypes == Init => TInv
<1> SUFFICES ASSUME Init
             PROVE  TInv
  OBVIOUS
<1>1. PlaceType
  BY DEF Init, PlaceType
<1>2. FlagType
  BY Limits DEF Init, FlagType
<1>3. KeyType /\ WireType /\ MemoType
  BY DEF Init, KeyType, WireType, MemoType
<1> QED
  BY <1>1, <1>2, <1>3 DEF TInv

LEMMA BootTypes ==
  TInv /\ (Wake \/ PowerOn \/ Reset \/ LosePower \/ Swap) => TInv'
<1> SUFFICES ASSUME TInv
             PROVE  Wake \/ PowerOn \/ Reset \/ LosePower \/ Swap => TInv'
  OBVIOUS
<1>1. AfterBoot \in {"measure", "idle"}
  BY DEF AfterBoot
<1>2. ASSUME Wake
      PROVE  TInv'
  <2>1. UNCHANGED <<c, net, fitted, outbox, memo, keyFile, entities, arrived,
                    lostTrack, smooth>> /\ pc' = "measure"
    BY <1>2 DEF Wake
  <2>2. CASE Mode = "LightSleep"
    <3>1. UNCHANGED <<data, announced, retries, spaced, session, todo, linked>>
      BY <1>2, <2>2 DEF Wake, ram
    <3>2. PlaceType' /\ FlagType'
      BY <2>1, <3>1 DEF TInv, PlaceType, FlagType
    <3>3. KeyType' /\ WireType' /\ MemoType'
      BY <2>1, <3>1 DEF TInv, KeyType, WireType, MemoType
    <3> QED
      BY <3>2, <3>3 DEF TInv
  <2>3. CASE Mode # "LightSleep"
    <3>1. FreshRam /\ smooth' \in BOOLEAN
      BY <1>2, <2>1, <2>3 DEF Wake, TInv, FlagType
    <3>2. FlagType' /\ data' \in SUBSET Keys /\ todo' \in SUBSET BrokerServices
          /\ session' = "none"
      BY <3>1, FreshTypes
    <3>3. PlaceType' /\ KeyType' /\ WireType' /\ MemoType'
      BY <2>1, <3>2 DEF TInv, PlaceType, KeyType, WireType, MemoType
    <3> QED
      BY <3>2, <3>3 DEF TInv
  <2> QED
    BY <2>2, <2>3
<1>3. ASSUME PowerOn
      PROVE  TInv'
  <2>1. PlaceType' /\ FlagType'
    BY <1>1, <1>3 DEF PowerOn, ram, TInv, PlaceType, FlagType
  <2>2. KeyType' /\ WireType' /\ MemoType'
    BY <1>3 DEF PowerOn, ram, TInv, KeyType, WireType, MemoType
  <2> QED
    BY <2>1, <2>2 DEF TInv
<1>4. ASSUME Reset \/ LosePower
      PROVE  TInv'
  <2>1. /\ Interrupt /\ UNCHANGED <<c, net, fitted>> /\ memo' \in {memo, None}
        /\ pc' \in {"off", "measure", "idle"}
    BY <1>1, <1>4 DEF Reset, LosePower
  <2>2. FlagType' /\ WireType' /\ session' = "none" /\ data' \in SUBSET Keys
        /\ keyFile' \in SUBSET Keys /\ lostTrack' \in SUBSET Keys
    BY <2>1, InterruptTypes
  <2>3. PlaceType' /\ KeyType' /\ MemoType'
    BY <2>1, <2>2 DEF TInv, PlaceType, KeyType, MemoType
  <2> QED
    BY <2>2, <2>3 DEF TInv
<1>5. ASSUME Swap
      PROVE  TInv'
  <2>1. PlaceType' /\ FlagType'
    BY <1>5 DEF Swap, ram, TInv, PlaceType, FlagType
  <2>2. KeyType' /\ WireType' /\ MemoType'
    BY <1>5 DEF Swap, ram, TInv, KeyType, WireType, MemoType
  <2> QED
    BY <2>1, <2>2 DEF TInv
<1> QED
  BY <1>2, <1>3, <1>4, <1>5

LEMMA NetworkTypes ==
  TInv /\ (NetChanges \/ StoreLost \/ Deliver \/ NoticeDead \/ TimePasses) => TInv'
<1> SUFFICES ASSUME TInv
             PROVE  NetChanges \/ StoreLost \/ Deliver \/ NoticeDead \/ TimePasses
                      => TInv'
  OBVIOUS
<1>1. ASSUME NetChanges
      PROVE  TInv'
  <2>1. /\ net' \in {"none", "link", "broker"} /\ session' \in {session, "none", "dead"}
        /\ DropOutbox /\ smooth' = FALSE
        /\ UNCHANGED <<c, pc, fitted, data, announced, retries, spaced, linked, todo,
                       memo, keyFile>>
    BY <1>1 DEF NetChanges, Break, ram
  <2>2. todo' \in SUBSET BrokerServices
    BY <2>1 DEF TInv, WireType
  <2>3. WireType' /\ lostTrack' \in SUBSET Keys
    BY <2>1, <2>2, DropTypes DEF TInv
  <2>4. PlaceType' /\ FlagType'
    BY <2>1 DEF TInv, PlaceType, FlagType
  <2>5. KeyType' /\ MemoType'
    BY <2>1, <2>3 DEF TInv, KeyType, MemoType
  <2> QED
    BY <2>3, <2>4, <2>5 DEF TInv
<1>2. ASSUME StoreLost
      PROVE  TInv'
  <2>1. /\ session' \in {session, "none", "dead"} /\ smooth' = FALSE
        /\ entities' = {} /\ outbox' = {} /\ LoseTrack(KeysOf("drop", outbox))
        /\ UNCHANGED <<c, pc, net, fitted, data, announced, retries, spaced, linked,
                       todo, memo, keyFile, arrived>>
    BY <1>2 DEF StoreLost, ram
  <2>2. KeysOf("drop", outbox) \in SUBSET Keys
    BY KeysOfMessages DEF TInv, WireType
  <2>3. PlaceType' /\ FlagType'
    BY <2>1 DEF TInv, PlaceType, FlagType
  <2>4. KeyType' /\ WireType' /\ MemoType'
    BY <2>1, <2>2 DEF LoseTrack, TInv, KeyType, WireType, MemoType
  <2> QED
    BY <2>3, <2>4 DEF TInv
<1>3. ASSUME Deliver
      PROVE  TInv'
  <2>1. entities' \in SUBSET Keys /\ arrived' \in SUBSET BrokerServices
    BY <1>3, ArriveTypes DEF Deliver, TInv
  <2>2. PlaceType' /\ FlagType'
    BY <1>3 DEF Deliver, ram, TInv, PlaceType, FlagType
  <2>3. KeyType' /\ WireType' /\ MemoType'
    BY <1>3, <2>1 DEF Deliver, ram, TInv, KeyType, WireType, MemoType
  <2> QED
    BY <2>2, <2>3 DEF TInv
<1>4. ASSUME NoticeDead \/ TimePasses
      PROVE  TInv'
  <2>1. PlaceType' /\ FlagType'
    BY <1>4 DEF NoticeDead, TimePasses, ram, TInv, PlaceType, FlagType
  <2>2. KeyType' /\ WireType' /\ MemoType'
    BY <1>4 DEF NoticeDead, TimePasses, ram, TInv, KeyType, WireType, MemoType
  <2> QED
    BY <2>1, <2>2 DEF TInv
<1> QED
  BY <1>1, <1>2, <1>3, <1>4

\* Whatever answers, a pass begins with keys of sensors.
LEMMA Measuring ==
  ASSUME KeyType, Measured \/ Unmeasured
  PROVE  \E answered \in SUBSET Keys :
           StartPass(answered) \/ \E s \in BrokerServices : Tick(s, answered)
<1>1. fitted \in SUBSET Keys /\ \A some \in SUBSET fitted : some \in SUBSET Keys
  BY Limits DEF KeyType
<1>2. CASE Measured
  BY <1>1, <1>2 DEF Measured
<1>3. CASE Unmeasured
  BY <1>1, <1>3 DEF Unmeasured
<1> QED
  BY <1>2, <1>3

LEMMA MeasureTypes == TInv /\ (Measured \/ Unmeasured) => TInv'
<1> SUFFICES ASSUME TInv, Measured \/ Unmeasured
             PROVE  TInv'
  OBVIOUS
<1>1. PICK answered \in SUBSET Keys :
        StartPass(answered) \/ \E s \in BrokerServices : Tick(s, answered)
  BY Measuring DEF TInv
<1>2. CASE StartPass(answered)
  <2>1. /\ data' = data \union answered /\ linked' \in BOOLEAN /\ smooth' \in BOOLEAN
        /\ todo' \in SUBSET BrokerServices /\ pc' \in {"connect", "send"}
        /\ retries' \in {retries, 0} /\ arrived' = {}
        /\ UNCHANGED <<c, net, fitted, session, announced, spaced, outbox, memo,
                       keyFile, entities, lostTrack>>
    BY <1>2 DEF StartPass, FreshBudget
  <2>2. PlaceType' /\ FlagType'
    BY <2>1, Limits DEF TInv, PlaceType, FlagType
  <2>3. KeyType' /\ WireType' /\ MemoType'
    BY <2>1 DEF TInv, KeyType, WireType, MemoType
  <2> QED
    BY <2>2, <2>3 DEF TInv
<1>3. CASE \E s \in BrokerServices : Tick(s, answered)
  <2>1. PICK s \in BrokerServices : Tick(s, answered)
    BY <1>3
  <2>2. PlaceType' /\ FlagType'
    BY <2>1 DEF Tick, TInv, PlaceType, FlagType
  <2>3. KeyType' /\ WireType' /\ MemoType'
    BY <2>1 DEF Tick, TInv, KeyType, WireType, MemoType
  <2> QED
    BY <2>2, <2>3 DEF TInv
<1> QED
  BY <1>1, <1>2, <1>3

\* One step of a pass.
LEMMA ConnectTypes ==
  TInv /\ (TryConnect \/ ConnectOver \/ HaReconnect \/ SendMqtt) => TInv'
<1> SUFFICES ASSUME TInv
             PROVE  TryConnect \/ ConnectOver \/ HaReconnect \/ SendMqtt => TInv'
  OBVIOUS
<1>1. ASSUME TryConnect
      PROVE  TInv'
  <2>1. session' \in {"none", "open", "dead"} /\ retries' \in 0..MaxRetries
        /\ announced' \in BOOLEAN /\ pc' \in {"send", "connect"}
    BY <1>1, AttemptTypes DEF TryConnect, TInv
  <2>2. PlaceType' /\ FlagType'
    BY <1>1, <2>1 DEF TryConnect, TInv, PlaceType, FlagType
  <2>3. KeyType' /\ WireType' /\ MemoType'
    BY <1>1 DEF TryConnect, TInv, KeyType, WireType, MemoType
  <2> QED
    BY <2>2, <2>3 DEF TInv
<1>2. ASSUME ConnectOver
      PROVE  TInv'
  <2>1. PlaceType' /\ FlagType'
    BY <1>2 DEF ConnectOver, ram, TInv, PlaceType, FlagType
  <2>2. KeyType' /\ WireType' /\ MemoType'
    BY <1>2 DEF ConnectOver, ram, TInv, KeyType, WireType, MemoType
  <2> QED
    BY <2>1, <2>2 DEF TInv
<1>3. ASSUME Reconnect, todo' \in SUBSET todo,
             UNCHANGED <<c, pc, net, fitted, data, linked, outbox, memo, keyFile,
                         entities, arrived, lostTrack, smooth>>
      PROVE  TInv'
  <2>1. /\ session' \in {"none", "open", "dead"} /\ retries' \in 0..MaxRetries
        /\ announced' \in BOOLEAN /\ spaced' \in BOOLEAN
    BY <1>3, ReconnectTypes DEF TInv
  <2>2. PlaceType' /\ FlagType'
    BY <1>3, <2>1 DEF TInv, PlaceType, FlagType
  <2>3. KeyType' /\ WireType' /\ MemoType'
    BY <1>3 DEF TInv, KeyType, WireType, MemoType
  <2> QED
    BY <2>2, <2>3 DEF TInv
<1>4. HaReconnect => TInv'
  BY <1>3 DEF HaReconnect
<1>5. ASSUME SendMqtt
      PROVE  TInv'
  <2>1. CASE session = "none"
    BY <1>3, <1>5, <2>1 DEF SendMqtt
  <2>2. CASE session # "none"
    <3>1. /\ Publish({Reading("mqtt")}) /\ todo' = todo \ {"mqtt"}
          /\ UNCHANGED <<c, pc, net, fitted, data, announced, retries, spaced, session,
                         linked, memo, keyFile, entities, arrived, smooth>>
      BY <1>5, <2>2 DEF SendMqtt
    <3>2. {Reading("mqtt")} \in SUBSET Message /\ todo' \in SUBSET BrokerServices
      BY <3>1, Messages DEF BrokerServices, TInv, WireType
    <3>3. WireType' /\ lostTrack' \in SUBSET Keys
      BY <3>1, <3>2, PublishTypes DEF TInv
    <3>4. PlaceType' /\ FlagType' /\ KeyType' /\ MemoType'
      BY <3>1, <3>3 DEF TInv, PlaceType, FlagType, KeyType, MemoType
    <3> QED
      BY <3>3, <3>4 DEF TInv
  <2> QED
    BY <2>1, <2>2
<1> QED
  BY <1>1, <1>2, <1>4, <1>5

LEMMA DiscoverTypes ==
  TInv /\ (SendState \/ AskMemo \/ Retire \/ Announce \/ WriteKeys) => TInv'
<1> SUFFICES ASSUME TInv
             PROVE  SendState \/ AskMemo \/ Retire \/ Announce \/ WriteKeys => TInv'
  OBVIOUS
<1>1. ASSUME NEW msgs \in SUBSET Message, Publish(msgs), todo' \in SUBSET todo,
             pc' \in {"send", "announce", "keys"},
             UNCHANGED <<c, net, fitted, data, announced, retries, spaced, session,
                         linked, memo, keyFile, entities, arrived, smooth>>
      PROVE  TInv'
  <2>1. todo' \in SUBSET BrokerServices
    BY <1>1 DEF TInv, WireType
  <2>2. WireType' /\ lostTrack' \in SUBSET Keys
    BY <1>1, <2>1, PublishTypes DEF TInv
  <2>3. PlaceType' /\ FlagType'
    BY <1>1 DEF TInv, PlaceType, FlagType
  <2>4. KeyType' /\ MemoType'
    BY <1>1, <2>2 DEF TInv, KeyType, MemoType
  <2> QED
    BY <2>2, <2>3, <2>4 DEF TInv
<1>2. data \in SUBSET Keys /\ Gone \in SUBSET Keys
  BY DEF TInv, KeyType, Gone
<1>3. ASSUME SendState
      PROVE  TInv'
  <2>1. {Reading("ha")} \in SUBSET Message
    BY Messages DEF BrokerServices
  <2> QED
    BY <1>1, <1>3, <2>1 DEF SendState, HaTurn, ram
<1>4. ASSUME Retire
      PROVE  TInv'
  <2>1. [kind : {"drop"}, key : Gone] \in SUBSET Message
    BY <1>2, Messages
  <2> QED
    BY <1>1, <1>4, <2>1 DEF Retire, ram
<1>5. ASSUME Announce
      PROVE  TInv'
  <2>1. [kind : {"add"}, key : data] \in SUBSET Message
    BY <1>2, Messages
  <2> QED
    BY <1>1, <1>5, <2>1 DEF Announce, ram
<1>6. ASSUME AskMemo
      PROVE  TInv'
  <2>1. MemoType'
    <3>1. CASE StillRetained
      <4>1. memo \in [keys : SUBSET Keys, wakes : 0..MaxWakes] /\ memo.wakes < MaxWakes
            /\ memo' = [memo EXCEPT !.wakes = @ + 1]
        BY <1>6, <3>1 DEF AskMemo, StillRetained, CountWake, TInv, MemoType
      <4>2. memo.wakes + 1 \in 0..MaxWakes
        BY <4>1, Limits
      <4> QED
        BY <4>1, <4>2 DEF MemoType
    <3>2. CASE ~StillRetained
      <4>1. memo' = [keys |-> data, wakes |-> 0]
        BY <1>6, <3>2 DEF AskMemo
      <4> QED
        BY <1>2, <4>1, Limits DEF MemoType
    <3> QED
      BY <3>1, <3>2
  <2>2. announced' \in {announced, TRUE} /\ pc' \in {pc, "retire"}
        /\ UNCHANGED <<c, net, fitted, data, retries, spaced, session, linked, todo,
                       outbox, keyFile, entities, arrived, lostTrack, smooth>>
    BY <1>6 DEF AskMemo
  <2>3. PlaceType' /\ FlagType'
    BY <2>2 DEF TInv, PlaceType, FlagType
  <2>4. KeyType' /\ WireType'
    BY <2>2 DEF TInv, KeyType, WireType
  <2> QED
    BY <2>1, <2>3, <2>4 DEF TInv
<1>7. ASSUME WriteKeys
      PROVE  TInv'
  <2>1. PlaceType' /\ FlagType'
    BY <1>7 DEF WriteKeys, TInv, PlaceType, FlagType
  <2>2. KeyType' /\ WireType' /\ MemoType'
    BY <1>7 DEF WriteKeys, TInv, KeyType, WireType, MemoType
  <2> QED
    BY <2>1, <2>2 DEF TInv
<1> QED
  BY <1>3, <1>4, <1>5, <1>6, <1>7

LEMMA EndTypes == TInv /\ (AllSent \/ Close \/ Drain \/ StartSleep) => TInv'
<1> SUFFICES ASSUME TInv
             PROVE  AllSent \/ Close \/ Drain \/ StartSleep => TInv'
  OBVIOUS
<1>1. ASSUME AllSent \/ Close
      PROVE  TInv'
  <2>1. /\ pc' \in {"close", "idle", "drain", "down"} /\ session' \in {session, "none"}
        /\ UNCHANGED <<c, net, fitted, data, announced, retries, spaced, linked, todo,
                       outbox, memo, keyFile, entities, arrived, lostTrack, smooth>>
    BY <1>1 DEF AllSent, Close, ram
  <2>2. PlaceType' /\ FlagType'
    BY <2>1 DEF TInv, PlaceType, FlagType
  <2>3. KeyType' /\ WireType' /\ MemoType'
    BY <2>1 DEF TInv, KeyType, WireType, MemoType
  <2> QED
    BY <2>2, <2>3 DEF TInv
<1>2. ASSUME Drain
      PROVE  TInv'
  <2>1. entities' \in SUBSET Keys /\ arrived' \in SUBSET BrokerServices
    BY <1>2, ArriveTypes DEF Drain, TInv
  <2>2. PlaceType' /\ FlagType'
    BY <1>2 DEF Drain, ram, TInv, PlaceType, FlagType
  <2>3. KeyType' /\ WireType' /\ MemoType'
    BY <1>2, <2>1 DEF Drain, ram, TInv, KeyType, WireType, MemoType
  <2> QED
    BY <2>2, <2>3 DEF TInv
<1>3. ASSUME StartSleep
      PROVE  TInv'
  <2>1. DropOutbox /\ todo' \in SUBSET BrokerServices
    BY <1>3 DEF StartSleep, TInv, WireType
  <2>2. WireType' /\ lostTrack' \in SUBSET Keys
    BY <2>1, DropTypes DEF TInv
  <2>3. PlaceType' /\ FlagType'
    BY <1>3 DEF StartSleep, ram, TInv, PlaceType, FlagType
  <2>4. KeyType' /\ MemoType'
    BY <1>3, <2>2 DEF StartSleep, ram, TInv, KeyType, MemoType
  <2> QED
    BY <2>2, <2>3, <2>4 DEF TInv
<1> QED
  BY <1>1, <1>2, <1>3

LEMMA StepTypes == TInv /\ [Next]_vars => TInv'
<1>1. TInv /\ UNCHANGED vars => TInv'
  BY DEF vars, ram, TInv, PlaceType, FlagType, KeyType, WireType, MemoType
<1> QED
  BY <1>1, BootTypes, NetworkTypes, MeasureTypes, ConnectTypes, DiscoverTypes, EndTypes
     DEF Next, Work, Network, Disturbance

LEMMA TypeInvariant == Spec => []TInv
BY InitTypes, StepTypes, PTL DEF Spec

\* The values of the reporting state: what is retained, remembered and written
\* down are keys of sensors, and no retry or wake counter passes its limit.
THEOREM ReportingTypes == Spec => []TypeOK
<1>1. TInv => TypeOK
  BY DEF TInv, PlaceType, FlagType, KeyType, WireType, MemoType, TypeOK
<1> QED
  BY <1>1, TypeInvariant, PTL

----------------------------------------------------------------------------
(* The books.                                                              *)

\* The entities of the broker, those on their way included.
Held == entities \union KeysOf("add", outbox)

\* What is known to go: on its way, or lost on it.
Leaving == lostTrack \union KeysOf("drop", outbox)

\* Every entity is written down, or announced just now, or is leaving.  From
\* the retirement on, those the new key file will not list are leaving: that is
\* why it may be written over the old one.
BookInv ==
  /\ Held \subseteq keyFile \union Leaving \union IF pc = "keys" THEN data ELSE {}
  /\ pc \in {"announce", "keys"} => Held \intersect (keyFile \ data) \subseteq Leaving

\* Steps that leave the books, and what is to be written next, alone.
LEMMA SameBooks ==
  ASSUME BookInv, UNCHANGED <<entities, outbox, lostTrack, keyFile>>,
         pc' \in {"announce", "keys"} => pc' = pc /\ data' = data,
         pc = "keys" => pc' = "keys"
  PROVE  BookInv'
<1>1. Held' = Held /\ Leaving' = Leaving
  BY DEF Held, Leaving
<1>2. pc = "keys" => data' = data
  OBVIOUS
<1> QED
  BY <1>1, <1>2 DEF BookInv

\* What arrives was held, and what does not arrive and was to go is lost track of.
LEMMA ArrivedBooks ==
  ASSUME NEW got \in SUBSET outbox, Arrive(got), outbox' = {},
         lostTrack \union KeysOf("drop", outbox \ got) \subseteq lostTrack'
  PROVE  /\ Held' \subseteq Held /\ Leaving' = lostTrack'
         /\ \A k \in Held' : k \in Leaving => k \in Leaving'
<1>1. /\ entities' = (entities \union KeysOf("add", got)) \ KeysOf("drop", got)
      /\ KeysOf("add", outbox)' = {} /\ KeysOf("drop", outbox)' = {}
  BY KeysOfNothing DEF Arrive, KeysOf
<1>2. /\ KeysOf("add", got) \subseteq KeysOf("add", outbox)
      /\ KeysOf("drop", outbox) = KeysOf("drop", got) \union KeysOf("drop", outbox \ got)
  BY KeysOfParts
<1> QED
  BY <1>1, <1>2 DEF Held, Leaving

LEMMA EmptiedBooks ==
  ASSUME BookInv, NEW got \in SUBSET outbox, Arrive(got), outbox' = {},
         lostTrack \union KeysOf("drop", outbox \ got) \subseteq lostTrack',
         keyFile' = keyFile,
         pc' \in {"announce", "keys"} => pc' = pc /\ data' = data,
         pc = "keys" => pc' = "keys"
  PROVE  BookInv'
<1>1. /\ Held' \subseteq Held /\ Leaving' = lostTrack'
      /\ \A k \in Held' : k \in Leaving => k \in Leaving'
  BY ArrivedBooks
<1>2. pc = "keys" => data' = data
  OBVIOUS
<1>3. Held' \subseteq keyFile \union Leaving' \union IF pc' = "keys" THEN data' ELSE {}
  BY <1>1, <1>2 DEF BookInv
<1>4. pc' \in {"announce", "keys"} =>
        Held' \intersect (keyFile \ data') \subseteq Leaving'
  BY <1>1 DEF BookInv
<1> QED
  BY <1>3, <1>4 DEF BookInv

LEMMA DroppedBooks ==
  ASSUME BookInv, DropOutbox, keyFile' = keyFile,
         pc' \in {"announce", "keys"} => pc' = pc /\ data' = data,
         pc = "keys" => pc' = "keys"
  PROVE  BookInv'
<1>1. PICK got \in SUBSET outbox :
        Arrive(got) /\ LoseTrack(KeysOf("drop", outbox \ got))
  BY DEF DropOutbox
<1> QED
  BY <1>1, EmptiedBooks DEF DropOutbox, LoseTrack

\* A reset between the announcement and the key file loses track of what was
\* announced and of what the file listed.
LEMMA InterruptBooks ==
  ASSUME BookInv, Interrupt, pc' \in {"off", "measure", "idle"}
  PROVE  BookInv'
<1>1. CASE pc = "keys"
  <2>1. PICK got \in SUBSET outbox :
          Arrive(got) /\ LoseTrack(data \union keyFile \union KeysOf("drop", outbox))
    BY <1>1 DEF Interrupt
  <2>2. outbox' = {}
    BY <1>1 DEF Interrupt
  <2>3. KeysOf("drop", outbox \ got) \subseteq KeysOf("drop", outbox)
    BY KeysOfParts
  <2>4. Held' \subseteq Held /\ Leaving' = lostTrack'
    BY <2>1, <2>2, <2>3, ArrivedBooks DEF LoseTrack
  <2>5. Held \subseteq lostTrack'
    BY <1>1, <2>1 DEF BookInv, Leaving, LoseTrack
  <2> QED
    BY <2>4, <2>5 DEF BookInv
<1>2. CASE pc # "keys"
  BY <1>2, DroppedBooks DEF Interrupt
<1> QED
  BY <1>1, <1>2

\* Publishing: what is sent is held or leaving, or lost.
LEMMA PublishBooks ==
  ASSUME NEW msgs, Publish(msgs), UNCHANGED entities
  PROVE  /\ Held' \subseteq Held \union KeysOf("add", msgs)
         /\ Leaving' = Leaving \union KeysOf("drop", msgs)
<1>1. CASE session = "open"
  <2>1. outbox' = outbox \union msgs /\ lostTrack' = lostTrack
    BY <1>1 DEF Publish
  <2>2. /\ KeysOf("add", outbox') = KeysOf("add", outbox) \union KeysOf("add", msgs)
        /\ KeysOf("drop", outbox') = KeysOf("drop", outbox) \union KeysOf("drop", msgs)
    BY <2>1, KeysOfUnion
  <2> QED
    BY <2>1, <2>2 DEF Held, Leaving, KeysOf
<1>2. CASE session # "open"
  BY <1>2 DEF Publish, LoseTrack, Held, Leaving, KeysOf
<1> QED
  BY <1>1, <1>2

LEMMA ReadingBooks ==
  ASSUME BookInv, NEW s \in BrokerServices, Publish({Reading(s)}), pc # "keys",
         pc' \notin {"announce", "keys"}, UNCHANGED <<entities, keyFile>>
  PROVE  BookInv'
<1>1. Held' \subseteq Held /\ Leaving' = Leaving
  BY PublishBooks, KeysOfReading
<1> QED
  BY <1>1 DEF BookInv

LEMMA DiscoveryBooks == BookInv /\ (Retire \/ Announce \/ WriteKeys) => BookInv'
<1> SUFFICES ASSUME BookInv
             PROVE  Retire \/ Announce \/ WriteKeys => BookInv'
  OBVIOUS
<1>1. ASSUME Retire
      PROVE  BookInv'
  <2>1. Held' \subseteq Held /\ Leaving' = Leaving \union (keyFile \ data)
        /\ UNCHANGED <<keyFile, data>> /\ pc = "retire" /\ pc' = "announce"
    BY <1>1, PublishBooks, KeysOfEntries DEF Retire, Gone, ram
  <2> QED
    BY <2>1 DEF BookInv
<1>2. ASSUME Announce
      PROVE  BookInv'
  <2>1. Held' \subseteq Held \union data /\ Leaving' = Leaving
        /\ UNCHANGED <<keyFile, data>> /\ pc = "announce" /\ pc' = "keys"
    <3>1. Publish([kind : {"add"}, key : data]) /\ UNCHANGED <<entities, keyFile, data>>
          /\ pc = "announce" /\ pc' = "keys"
      BY <1>2 DEF Announce, ram
    <3>2. /\ KeysOf("add", [kind : {"add"}, key : data]) = data
          /\ KeysOf("drop", [kind : {"add"}, key : data]) = {}
      BY KeysOfEntries
    <3>3. /\ Held' \subseteq Held \union KeysOf("add", [kind : {"add"}, key : data])
          /\ Leaving' = Leaving \union KeysOf("drop", [kind : {"add"}, key : data])
      BY <3>1, PublishBooks
    <3> QED
      BY <3>1, <3>2, <3>3
  <2> QED
    BY <2>1 DEF BookInv
<1>3. ASSUME WriteKeys
      PROVE  BookInv'
  <2>1. UNCHANGED <<entities, outbox, lostTrack, data>> /\ keyFile' = data
        /\ pc = "keys" /\ pc' = "send"
    BY <1>3 DEF WriteKeys
  <2>2. Held' = Held /\ Leaving' = Leaving
    BY <2>1 DEF Held, Leaving
  <2> QED
    BY <2>1, <2>2 DEF BookInv
<1> QED
  BY <1>1, <1>2, <1>3

LEMMA StepBooks == BookInv /\ [Next]_vars => BookInv'
<1> SUFFICES ASSUME BookInv, [Next]_vars
             PROVE  BookInv'
  OBVIOUS
<1>1. CASE Reset \/ LosePower
  BY <1>1, InterruptBooks DEF Reset, LosePower, AfterBoot
<1>2. CASE NetChanges \/ StartSleep
  BY <1>2, DroppedBooks DEF NetChanges, Break, StartSleep, ram
<1>3. CASE StoreLost
  <2>1. entities' = {} /\ outbox' = {}
    BY <1>3 DEF StoreLost
  <2>2. Held' = {}
    BY <2>1, KeysOfNothing DEF Held, KeysOf
  <2> QED
    BY <2>2 DEF BookInv
<1>4. CASE Deliver \/ Drain
  <2>1. Arrive(outbox) /\ outbox' = {} /\ UNCHANGED <<lostTrack, keyFile, data>>
        /\ (pc' = pc \/ (pc = "drain" /\ pc' = "down"))
    BY <1>4 DEF Deliver, Drain, ram
  <2>2. outbox \in SUBSET outbox /\ KeysOf("drop", outbox \ outbox) = {}
    BY DEF KeysOf
  <2> QED
    BY <2>1, <2>2, EmptiedBooks
<1>5. CASE Measured \/ Unmeasured
  <2>1. PICK answered :
          StartPass(answered) \/ \E s \in BrokerServices : Tick(s, answered)
    BY <1>5 DEF Measured, Unmeasured
  <2>2. UNCHANGED <<entities, outbox, lostTrack, keyFile>> /\ pc # "keys"
        /\ pc' \in {"connect", "send"}
    BY <2>1 DEF StartPass, Tick
  <2> QED
    BY <2>2, SameBooks
<1>6. CASE SendMqtt
  <2>1. CASE session = "none"
    BY <1>6, <2>1, SameBooks DEF SendMqtt
  <2>2. CASE session # "none"
    BY <1>6, <2>2, ReadingBooks DEF SendMqtt, BrokerServices
  <2> QED
    BY <2>1, <2>2
<1>7. CASE SendState
  BY <1>7, ReadingBooks DEF SendState, HaTurn, BrokerServices
<1>8. CASE Wake \/ PowerOn \/ Swap \/ NoticeDead \/ TimePasses \/ TryConnect
           \/ ConnectOver \/ HaReconnect \/ AskMemo \/ AllSent \/ Close
           \/ UNCHANGED vars
  <2>1. UNCHANGED <<entities, outbox, lostTrack, keyFile>>
    BY <1>8 DEF Wake, PowerOn, Swap, NoticeDead, TimePasses, TryConnect, ConnectOver,
                HaReconnect, AskMemo, AllSent, Close, vars
  <2>2. \/ pc' = pc /\ data' = data
        \/ pc # "keys" /\ pc' \notin {"announce", "keys"}
    BY <1>8 DEF Wake, PowerOn, AfterBoot, Swap, NoticeDead, TimePasses, TryConnect,
                ConnectOver, HaReconnect, HaTurn, AskMemo, AllSent, Close, vars, ram
  <2> QED
    BY <2>1, <2>2, SameBooks
<1> QED
  BY <1>1, <1>2, <1>3, <1>4, <1>5, <1>6, <1>7, <1>8, DiscoveryBooks
     DEF Next, Work, Network, Disturbance

\* Every entity Home Assistant shows can be retired when its sensor goes: the key
\* file lists it, whatever connections, resets and swaps have come between --
\* or its retirement has been lost, which haSyncDiscovery() never notices.
THEOREM EntitiesAreAccounted == Spec => []EntitiesAccounted
<1>1. Init => BookInv
  BY KeysOfNothing DEF Init, BookInv, Held
<1>2. BookInv => EntitiesAccounted
  BY DEF BookInv, Held, Leaving, EntitiesAccounted
<1> QED
  BY <1>1, <1>2, StepBooks, PTL DEF Spec

----------------------------------------------------------------------------
(* Going to sleep.                                                         *)

Minute == [i \in Intervals |-> 60]
HasBroker == c.active \intersect BrokerServices # {}

LEMMA PlanOfMinute ==
  ASSUME NEW k \in Config, k.active # {}
  PROVE  WakeInterval(k, Minute) = 60
<1>1. k.active \subseteq Services
  BY DEF Config
<1>2. \A s \in k.active \intersect NetServices : Minute[IntervalOf(s)] = 60
  BY DEF Minute, IntervalOf, Intervals, NetServices
<1>3. Minute["eeprom"] = 60
  BY DEF Minute, Intervals
<1>4. CASE k.active \intersect NetServices = {}
  <2>1. "eeprom" \in k.active
    BY <1>1, <1>4 DEF Services
  <2> QED
    BY <1>3, <1>4, <2>1 DEF WakeInterval
<1>5. CASE k.active \intersect NetServices # {}
  <2>1. NetFrequencies(k, Minute) = {60}
    <3>1. {Minute[IntervalOf(s)] : s \in k.active \intersect NetServices} = {60}
      BY <1>2, <1>5
    <3> QED
      BY <3>1 DEF NetFrequencies
  <2>2. MinDataFrequency(k, Minute) = 60
    BY <2>1 DEF MinDataFrequency, IsLeast
  <2> QED
    BY <1>3, <1>5, <2>2 DEF WakeInterval
<1> QED
  BY <1>4, <1>5

\* What serve_data plans for a board that sleeps.
LEMMA PlanOfSleeper ==
  ASSUME c \in Configs, Sleeper, NEW up \in BOOLEAN
  PROVE  LET plan == ServePlan(c, Minute, up)
         IN  /\ plan.send \intersect BrokerServices # {} => up /\ HasBroker
             /\ plan.connectMqtt => up /\ HasBroker
             /\ HasBroker => plan.disconnectMqtt
             /\ up /\ HasBroker => plan.drainMqtt
<1>1. c \in Config /\ c.active # {}
  BY ConstantsAreValid
<1>2. SleepEnabled(c)
  BY DEF Sleeper, Mode, IsSleeping, CurrentMode, SleepEnabled
<1>3. WakeInterval(c, Minute) > 0
  BY <1>1, PlanOfMinute
<1> QED
  BY <1>2, <1>3 DEF ServePlan, HasBroker, BrokerServices

\* A board that sleeps has a session, or data on the way, only in a pass that
\* has found the link and has the broker to report to; then its plan is to drain
\* and to disconnect.
Quiet == session = "none" /\ outbox = {}

RestInv ==
  /\ pc \in {"measure", "connect", "close", "drain", "down", "asleep"} => Sleeper
  /\ pc \in {"down", "asleep"} => Quiet
  /\ Sleeper =>
       /\ pc # "idle"
       /\ pc \in {"off", "measure"} => Quiet
       /\ pc = "drain" => session = "none"
       /\ pc \in {"connect", "retire", "announce", "keys"} => linked /\ HasBroker
       /\ pc \in {"send", "close"} =>
            (Quiet /\ todo = {}) \/ (linked /\ HasBroker)

\* Steps that neither move the pass nor bring a session or a message.
LEMMA SameRest ==
  ASSUME RestInv, UNCHANGED <<c, pc, linked, todo>>, session = "none" => session' = "none",
         outbox' \in {outbox, {}}
  PROVE  RestInv'
<1>1. Sleeper' = Sleeper /\ HasBroker' = HasBroker
  BY DEF Sleeper, Mode, HasBroker
<1>2. Quiet => Quiet'
  BY DEF Quiet
<1> QED
  BY <1>1, <1>2 DEF RestInv

LEMMA BootRest ==
  ASSUME RestInv, UNCHANGED c, Quiet', \/ pc' = "off"
                                       \/ pc' = AfterBoot
                                       \/ pc \in {"off", "asleep"} /\ pc' = pc
                                       \/ pc = "asleep" /\ pc' = "measure"
  PROVE  RestInv'
<1>1. Sleeper' = Sleeper
  BY DEF Sleeper, Mode
<1>2. AfterBoot = IF Sleeper THEN "measure" ELSE "idle"
  BY DEF AfterBoot
<1> QED
  BY <1>1, <1>2 DEF RestInv

LEMMA WorldRest ==
  RestInv /\ (Wake \/ PowerOn \/ Reset \/ LosePower \/ Swap \/ NetChanges \/ StoreLost
              \/ Deliver \/ NoticeDead \/ TimePasses \/ UNCHANGED vars) => RestInv'
<1> SUFFICES ASSUME RestInv
             PROVE  Wake \/ PowerOn \/ Reset \/ LosePower \/ Swap \/ NetChanges
                    \/ StoreLost \/ Deliver \/ NoticeDead \/ TimePasses
                    \/ UNCHANGED vars => RestInv'
  OBVIOUS
<1>1. ASSUME Wake
      PROVE  RestInv'
  <2>1. Quiet /\ outbox' = outbox /\ session' \in {session, "none"}
    BY <1>1 DEF Wake, FreshRam, RestInv
  <2> QED
    BY <1>1, <2>1, BootRest DEF Wake, Quiet
<1>2. ASSUME PowerOn
      PROVE  RestInv'
  <2>1. /\ UNCHANGED <<c, session, outbox, todo, linked>> /\ pc = "off" /\ pc' = AfterBoot
    BY <1>2 DEF PowerOn
  <2>2. CASE Sleeper
    BY <2>1, <2>2, BootRest DEF RestInv, Quiet
  <2>3. CASE ~Sleeper
    <3>1. ~Sleeper' /\ pc' = "idle"
      BY <2>1, <2>3 DEF Sleeper, Mode, AfterBoot
    <3> QED
      BY <3>1 DEF RestInv
  <2> QED
    BY <2>2, <2>3
<1>3. ASSUME Reset \/ LosePower
      PROVE  RestInv'
  <2>1. session' = "none" /\ outbox' = {} /\ c' = c /\ pc' \in {"off", AfterBoot}
    BY <1>3 DEF Reset, LosePower, Interrupt, FreshRam, DropOutbox
  <2> QED
    BY <2>1, BootRest DEF Quiet
<1>4. CASE Swap \/ NetChanges \/ StoreLost \/ Deliver \/ NoticeDead \/ TimePasses
           \/ UNCHANGED vars
  <2>1. /\ UNCHANGED <<c, pc, linked, todo>> /\ outbox' \in {outbox, {}}
        /\ session = "none" => session' = "none"
    BY <1>4 DEF Swap, NetChanges, Break, DropOutbox, StoreLost, Deliver, NoticeDead,
                TimePasses, vars
  <2> QED
    BY <2>1, SameRest
<1> QED
  BY <1>1, <1>2, <1>3, <1>4

LEMMA MeasureRest == TInv /\ RestInv /\ (Measured \/ Unmeasured) => RestInv'
<1> SUFFICES ASSUME TInv, RestInv, Measured \/ Unmeasured
             PROVE  RestInv'
  OBVIOUS
<1>1. PICK answered :
        StartPass(answered) \/ \E s \in BrokerServices : Tick(s, answered)
  BY DEF Measured, Unmeasured
<1>2. CASE StartPass(answered)
  <2> DEFINE plan == ServePlan(c, Minute, linked')
  <2>1. /\ pc = "measure" /\ pc' \in {"connect", "send"} /\ linked' \in BOOLEAN
        /\ todo' = plan.send \intersect BrokerServices
        /\ pc' = "connect" => plan.connectMqtt
        /\ UNCHANGED <<c, session, outbox>>
    BY <1>2 DEF StartPass, Minute
  <2>2. Sleeper /\ Quiet /\ c \in Configs
    BY <2>1 DEF RestInv, TInv, PlaceType
  <2>3. /\ plan.send \intersect BrokerServices # {} => linked' /\ HasBroker
        /\ plan.connectMqtt => linked' /\ HasBroker
    BY <2>1, <2>2, PlanOfSleeper
  <2>4. Sleeper' = Sleeper /\ HasBroker' = HasBroker /\ Quiet'
    BY <2>1, <2>2 DEF Sleeper, Mode, HasBroker, Quiet
  <2> QED
    BY <2>1, <2>2, <2>3, <2>4 DEF RestInv
<1>3. CASE \E s \in BrokerServices : Tick(s, answered)
  <2>1. pc = "idle" /\ pc' = "send" /\ c' = c
    BY <1>3 DEF Tick
  <2>2. ~Sleeper /\ Sleeper' = Sleeper
    BY <2>1 DEF RestInv, Sleeper, Mode
  <2> QED
    BY <2>1, <2>2 DEF RestInv
<1> QED
  BY <1>1, <1>2, <1>3

\* Within a pass a session and messages come only where there is something to do.
LEMMA PassRest ==
  RestInv /\ (TryConnect \/ ConnectOver \/ SendMqtt \/ HaReconnect \/ SendState \/ AskMemo
              \/ Retire \/ Announce \/ WriteKeys) => RestInv'
<1> SUFFICES ASSUME RestInv, TryConnect \/ ConnectOver \/ SendMqtt \/ HaReconnect
                             \/ SendState \/ AskMemo \/ Retire \/ Announce \/ WriteKeys
             PROVE  RestInv'
  OBVIOUS
<1>1. /\ UNCHANGED <<c, linked>>
      /\ pc' \in {"connect", "send", "retire", "announce", "keys"}
      /\ pc' = "connect" => pc = "connect"
      /\ \/ pc \in {"connect", "retire", "announce", "keys"}
         \/ pc = "send" /\ todo # {}
  BY DEF TryConnect, ConnectOver, SendMqtt, HaReconnect, SendState, AskMemo, HaTurn,
         Retire, Announce, WriteKeys, ram
<1>2. Sleeper' = Sleeper /\ HasBroker' = HasBroker
  BY <1>1 DEF Sleeper, Mode, HasBroker
<1>3. Sleeper => linked /\ HasBroker
  BY <1>1 DEF RestInv
<1>4. pc' = "connect" => Sleeper
  BY <1>1 DEF RestInv
<1> QED
  BY <1>1, <1>2, <1>3, <1>4 DEF RestInv

LEMMA EndRest ==
  TInv /\ RestInv /\ (AllSent \/ Close \/ Drain \/ StartSleep) => RestInv'
<1> SUFFICES ASSUME TInv, RestInv
             PROVE  AllSent \/ Close \/ Drain \/ StartSleep => RestInv'
  OBVIOUS
<1>1. c' = c => Sleeper' = Sleeper /\ HasBroker' = HasBroker
  BY DEF Sleeper, Mode, HasBroker
<1>2. ASSUME AllSent
      PROVE  RestInv'
  <2>1. /\ pc = "send" /\ pc' = IF Sleeper THEN "close" ELSE "idle"
        /\ UNCHANGED <<c, session, outbox, todo, linked>>
    BY <1>2 DEF AllSent
  <2> QED
    BY <1>1, <2>1 DEF RestInv, Quiet
<1>3. ASSUME Close
      PROVE  RestInv'
  <2>1. /\ pc = "close" /\ UNCHANGED <<c, outbox, todo, linked>>
        /\ session' = IF Plan.disconnectMqtt THEN "none" ELSE session
        /\ pc' = IF Plan.drainMqtt THEN "drain" ELSE "down"
    BY <1>3 DEF Close, Drains
  <2>2. Sleeper /\ c \in Configs /\ linked \in BOOLEAN
    BY <2>1 DEF RestInv, TInv, PlaceType, FlagType
  <2>3. /\ HasBroker => Plan.disconnectMqtt
        /\ linked /\ HasBroker => Plan.drainMqtt
    BY <2>2, PlanOfSleeper DEF Plan, Minute
  <2>4. Quiet \/ (linked /\ HasBroker)
    BY <2>1, <2>2 DEF RestInv
  <2>5. session' = "none" /\ (pc' = "down" => outbox' = {})
    BY <2>1, <2>3, <2>4 DEF Quiet
  <2> QED
    BY <1>1, <2>1, <2>2, <2>5 DEF RestInv, Quiet
<1>4. ASSUME Drain
      PROVE  RestInv'
  <2>1. pc = "drain" /\ pc' = "down" /\ outbox' = {} /\ UNCHANGED <<c, session>>
    BY <1>4 DEF Drain
  <2> QED
    BY <1>1, <2>1 DEF RestInv, Quiet
<1>5. ASSUME StartSleep
      PROVE  RestInv'
  <2>1. pc = "down" /\ pc' = "asleep" /\ outbox' = {} /\ session' = "none" /\ c' = c
    BY <1>5 DEF StartSleep, DropOutbox
  <2> QED
    BY <1>1, <2>1 DEF RestInv, Quiet
<1> QED
  BY <1>2, <1>3, <1>4, <1>5

LEMMA StepRest == TInv /\ RestInv /\ [Next]_vars => RestInv'
BY WorldRest, MeasureRest, PassRest, EndRest DEF Next, Work, Network, Disturbance

\* A board goes to sleep with the TCP buffer drained and the broker let go, in
\* every configuration, whenever the link and the broker come and go: what a
\* pass has published is not lost by the sleep that ends it.
THEOREM SleepsWithNothingOnTheWay == Spec => []SleepsClean
<1>1. Init => RestInv
  BY DEF Init, RestInv, Quiet
<1>2. RestInv => SleepsClean
  BY DEF RestInv, Quiet, SleepsClean
<1> QED
  BY <1>1, <1>2, StepRest, TypeInvariant, PTL DEF Spec

----------------------------------------------------------------------------
(* Delivering.                                                             *)

Reports == c.active \intersect BrokerServices

\* A reading of this pass is still to be sent, on its way, or there.
Followed(s) == s \in todo \/ Reading(s) \in outbox \/ s \in arrived

InPass == {"connect", "send", "retire", "announce", "keys", "close", "drain",
           "down", "asleep"}

\* A pass that has the broker all along goes from one failed attempt at most to
\* a session, keeps it while there is something to send, and lets no reading go.
PassInv ==
  smooth /\ Sleeper /\ pc \in InPass =>
    /\ net = "broker"
    /\ pc = "connect" => session = "none" /\ retries <= 1
    /\ pc \in {"send", "retire", "announce", "keys"} /\ HasBroker => session = "open"
    /\ pc \in {"close", "drain", "down", "asleep"} => todo = {}
    /\ \A s \in Reports : Followed(s)

\* A connected pass of a board that sleeps sends to every broker service it has.
LEMMA PlanSendsAll ==
  ASSUME c \in Configs, Sleeper
  PROVE  LET plan == ServePlan(c, Minute, TRUE)
         IN  /\ plan.send \intersect BrokerServices = Reports
             /\ HasBroker => plan.connectMqtt
<1>1. BrokerServices \subseteq NetServices
  BY DEF BrokerServices, NetServices
<1> QED
  BY <1>1 DEF ServePlan, HasBroker, Reports, BrokerServices

\* What arrives was on its way.
LEMMA ArrivedReadings ==
  ASSUME NEW msgs, Arrive(msgs), NEW s \in BrokerServices
  PROVE  (s \in arrived \/ Reading(s) \in msgs) => s \in arrived'
<1>1. Reading(s).kind = s
  BY DEF Reading
<1>2. Reading(s) \in msgs => s \in {t \in BrokerServices : \E m \in msgs : m.kind = t}
  BY <1>1
<1> QED
  BY <1>2 DEF Arrive

\* Steps that leave a pass where it is, with what it has.
LEMMA SamePass ==
  ASSUME PassInv, UNCHANGED <<c, pc, net, retries, todo, smooth>>,
         session' = session \/ (session = "dead" /\ session' = "none"),
         \A s \in Reports : Followed(s) => Followed(s)'
  PROVE  PassInv'
<1>1. Sleeper' = Sleeper /\ HasBroker' = HasBroker /\ Reports' = Reports
  BY DEF Sleeper, Mode, HasBroker, Reports
<1> QED
  BY <1>1 DEF PassInv

\* Anything that leaves the pass, or that the pass does not survive.
LEMMA OtherPass ==
  ASSUME ~smooth' \/ ~Sleeper' \/ pc' \notin InPass
  PROVE  PassInv'
BY DEF PassInv

LEMMA WorldPass ==
  PassInv /\ (Wake \/ PowerOn \/ Reset \/ LosePower \/ Swap \/ NetChanges \/ StoreLost
              \/ Deliver \/ NoticeDead \/ TimePasses \/ UNCHANGED vars) => PassInv'
<1> SUFFICES ASSUME PassInv
             PROVE  Wake \/ PowerOn \/ Reset \/ LosePower \/ Swap \/ NetChanges
                    \/ StoreLost \/ Deliver \/ NoticeDead \/ TimePasses
                    \/ UNCHANGED vars => PassInv'
  OBVIOUS
<1>1. ASSUME Wake \/ PowerOn
      PROVE  PassInv'
  <2>1. pc' \in {"measure", "idle"}
    BY <1>1 DEF Wake, PowerOn, AfterBoot
  <2> QED
    BY <2>1, OtherPass DEF InPass
<1>2. ASSUME Reset \/ LosePower \/ NetChanges \/ StoreLost
      PROVE  PassInv'
  <2>1. smooth' = FALSE
    BY <1>2 DEF Reset, LosePower, Interrupt, NetChanges, StoreLost
  <2> QED
    BY <2>1, OtherPass
<1>3. ASSUME Swap \/ NoticeDead \/ TimePasses \/ UNCHANGED vars
      PROVE  PassInv'
  <2>1. /\ UNCHANGED <<c, pc, net, retries, todo, smooth, outbox, arrived>>
        /\ session' = session \/ (session = "dead" /\ session' = "none")
    BY <1>3 DEF Swap, NoticeDead, TimePasses, vars, ram
  <2>2. \A s \in Reports : Followed(s) => Followed(s)'
    BY <2>1 DEF Followed
  <2> QED
    BY <2>1, <2>2, SamePass
<1>4. ASSUME Deliver
      PROVE  PassInv'
  <2>1. /\ UNCHANGED <<c, pc, net, retries, todo, smooth, session>>
        /\ Arrive(outbox)
    BY <1>4 DEF Deliver, ram
  <2>2. \A s \in Reports : Followed(s) => Followed(s)'
    BY <2>1, ArrivedReadings DEF Followed, Reports
  <2> QED
    BY <2>1, <2>2, SamePass
<1> QED
  BY <1>1, <1>2, <1>3, <1>4

LEMMA MeasurePass ==
  TInv /\ RestInv /\ (Measured \/ Unmeasured) => PassInv'
<1> SUFFICES ASSUME TInv, RestInv, Measured \/ Unmeasured
             PROVE  PassInv'
  OBVIOUS
<1>1. PICK answered :
        StartPass(answered) \/ \E s \in BrokerServices : Tick(s, answered)
  BY DEF Measured, Unmeasured
<1>2. CASE StartPass(answered)
  <2>1. CASE net # "broker"
    <3>1. smooth' = FALSE
      BY <1>2, <2>1 DEF StartPass
    <3> QED
      BY <3>1, OtherPass
  <2>2. CASE net = "broker"
    <3> DEFINE plan == ServePlan(c, Minute, TRUE)
    <3>1. linked' = TRUE /\ net' = "broker" /\ pc = "measure" /\ UNCHANGED <<c, session>>
      BY <1>2, <2>2 DEF StartPass
    <3>2. /\ todo' = plan.send \intersect BrokerServices
          /\ IF plan.connectMqtt /\ session = "none"
             THEN pc' = "connect" /\ retries' = 0
             ELSE pc' = "send"
      BY <1>2, <3>1 DEF StartPass, FreshBudget, Minute
    <3>3. Sleeper /\ session = "none" /\ c \in Configs
      BY <3>1 DEF RestInv, Quiet, TInv, PlaceType
    <3>4. /\ Sleeper' = Sleeper /\ Reports' = Reports /\ HasBroker' = HasBroker
      BY <3>1 DEF Sleeper, Mode, Reports, HasBroker
    <3>5. todo' = Reports /\ (HasBroker => pc' = "connect")
      BY <3>2, <3>3, PlanSendsAll
    <3>6. \A s \in Reports' : Followed(s)'
      BY <3>4, <3>5 DEF Followed
    <3>7. pc' = "connect" => session' = "none" /\ retries' <= 1
      <4>1. pc' = "connect" => retries' = 0
        BY <3>2
      <4> QED
        BY <3>1, <3>3, <4>1
    <3> QED
      BY <3>1, <3>2, <3>4, <3>5, <3>6, <3>7 DEF PassInv
  <2> QED
    BY <2>1, <2>2
<1>3. CASE \E s \in BrokerServices : Tick(s, answered)
  <2>1. pc = "idle" /\ c' = c
    BY <1>3 DEF Tick
  <2>2. ~Sleeper'
    BY <2>1 DEF RestInv, Sleeper, Mode
  <2> QED
    BY <2>2, OtherPass
<1> QED
  BY <1>1, <1>2, <1>3

\* With a second attempt to spend, a pass that has the broker gets its session.
LEMMA ConnectPass ==
  ASSUME MaxRetries >= 2
  PROVE  TInv /\ RestInv /\ PassInv /\ (TryConnect \/ ConnectOver) => PassInv'
<1> SUFFICES ASSUME TInv, RestInv, PassInv, smooth, Sleeper, TryConnect \/ ConnectOver
             PROVE  PassInv'
  <2>1. TryConnect \/ ConnectOver => smooth' = smooth /\ Sleeper' = Sleeper
    BY DEF TryConnect, ConnectOver, Sleeper, Mode
  <2> QED
    BY <2>1, OtherPass
<1>1. /\ UNCHANGED <<c, net, todo, outbox, arrived>> /\ pc = "connect"
  BY DEF TryConnect, ConnectOver, ram
<1>2. /\ Sleeper' = Sleeper /\ Reports' = Reports /\ HasBroker' = HasBroker
      /\ \A s \in Reports' : Followed(s)'
      /\ net' = "broker"
  BY <1>1 DEF Sleeper, Mode, Reports, HasBroker, PassInv, InPass, Followed
<1>3. net = "broker" /\ session = "none" /\ retries <= 1 /\ retries \in Nat
  BY <1>1, Limits DEF PassInv, InPass, TInv, FlagType
<1>4. CASE TryConnect
  <2>1. \/ session' = "open" /\ pc' = "send"
        \/ /\ session' = "none" /\ pc' = "connect"
           /\ retries = 0 /\ retries' = 1
    <3>1. Attempt /\ pc' = IF session' = "open" THEN "send" ELSE "connect"
      BY <1>4 DEF TryConnect
    <3>2. CASE session' = "open"
      BY <3>1, <3>2
    <3>3. CASE session' # "open"
      <4>1. retries = 0 /\ CountRetry /\ session' = session
        BY <1>3, <3>1, <3>3 DEF Attempt
      <4> QED
        BY <1>3, <3>1, <3>3, <4>1, Limits DEF CountRetry
    <3> QED
      BY <3>2, <3>3
  <2> QED
    BY <1>2, <2>1 DEF PassInv
<1>5. CASE ConnectOver
  <2>1. GivesUp
    BY <1>3, <1>5 DEF ConnectOver
  <2>2. FALSE
    BY <1>3, <2>1, Limits DEF GivesUp, BudgetSpent
  <2> QED
    BY <2>2
<1> QED
  BY <1>4, <1>5

LEMMA SendPass ==
  RestInv /\ PassInv /\ (SendMqtt \/ HaReconnect \/ SendState \/ AskMemo
                           \/ Retire \/ Announce \/ WriteKeys) => PassInv'
<1> SUFFICES ASSUME RestInv, PassInv, smooth, Sleeper,
                    SendMqtt \/ HaReconnect \/ SendState \/ AskMemo
                      \/ Retire \/ Announce \/ WriteKeys
             PROVE  PassInv'
  <2>1. SendMqtt \/ HaReconnect \/ SendState \/ AskMemo \/ Retire \/ Announce
        \/ WriteKeys => smooth' = smooth /\ Sleeper' = Sleeper
    BY DEF SendMqtt, HaReconnect, SendState, AskMemo, Retire, Announce, WriteKeys,
           Sleeper, Mode
  <2> QED
    BY <2>1, OtherPass
<1>1. /\ UNCHANGED <<c, net, arrived>>
      /\ pc \in {"send", "retire", "announce", "keys"}
      /\ pc' \in {"send", "retire", "announce", "keys"}
      /\ pc = "send" => todo # {}
  BY DEF SendMqtt, HaReconnect, SendState, AskMemo, HaTurn, Retire, Announce, WriteKeys
<1>2. HasBroker
  BY <1>1 DEF RestInv
<1>3. session = "open" /\ net = "broker" /\ \A s \in Reports : Followed(s)
  BY <1>1, <1>2 DEF PassInv, InPass
<1>4. Sleeper' = Sleeper /\ Reports' = Reports /\ HasBroker' = HasBroker
  BY <1>1 DEF Sleeper, Mode, Reports, HasBroker
<1>5. SUFFICES session' = "open" /\ \A s \in Reports : Followed(s)'
  BY <1>1, <1>3, <1>4 DEF PassInv
<1>6. ASSUME NEW s \in BrokerServices, Publish({Reading(s)}), todo' = todo \ {s},
             UNCHANGED session
      PROVE  session' = "open" /\ \A r \in Reports : Followed(r)'
  <2>1. outbox' = outbox \union {Reading(s)}
    BY <1>3, <1>6 DEF Publish
  <2> QED
    BY <1>1, <1>3, <1>6, <2>1 DEF Followed
<1>7. CASE SendMqtt
  BY <1>3, <1>6, <1>7 DEF SendMqtt, BrokerServices
<1>8. CASE SendState
  BY <1>6, <1>8 DEF SendState, BrokerServices
<1>9. CASE HaReconnect
  BY <1>3, <1>9 DEF HaReconnect
<1>10. CASE AskMemo \/ WriteKeys
  BY <1>3, <1>10 DEF AskMemo, WriteKeys, Followed
<1>11. CASE Retire \/ Announce
  <2>1. outbox \subseteq outbox' /\ UNCHANGED <<session, todo, arrived>>
    BY <1>3, <1>11 DEF Retire, Announce, Publish
  <2> QED
    BY <1>3, <2>1 DEF Followed
<1> QED
  BY <1>7, <1>8, <1>9, <1>10, <1>11

LEMMA EndPass ==
  RestInv /\ PassInv /\ (AllSent \/ Close \/ Drain \/ StartSleep) => PassInv'
<1> SUFFICES ASSUME RestInv, PassInv, smooth, Sleeper,
                    AllSent \/ Close \/ Drain \/ StartSleep
             PROVE  PassInv'
  <2>1. AllSent \/ Close \/ Drain \/ StartSleep => smooth' = smooth /\ Sleeper' = Sleeper
    BY DEF AllSent, Close, Drain, StartSleep, Sleeper, Mode
  <2> QED
    BY <2>1, OtherPass
<1>1. /\ UNCHANGED <<c, net, todo>> /\ todo = {} /\ pc \in InPass
      /\ pc' \in {"close", "drain", "down", "asleep"}
  BY DEF AllSent, Close, Drain, StartSleep, PassInv, InPass, ram
<1>2. net = "broker" /\ \A s \in Reports : Followed(s)
  BY <1>1 DEF PassInv
<1>3. Sleeper' = Sleeper /\ Reports' = Reports /\ HasBroker' = HasBroker
  BY <1>1 DEF Sleeper, Mode, Reports, HasBroker
<1>4. SUFFICES \A s \in Reports : Followed(s)'
  BY <1>1, <1>2, <1>3 DEF PassInv
<1>5. CASE AllSent \/ Close
  BY <1>2, <1>5 DEF AllSent, Close, Followed
<1>6. CASE Drain
  BY <1>1, <1>2, <1>6, ArrivedReadings DEF Drain, Followed, Reports
<1>7. CASE StartSleep
  <2>1. outbox = {}
    BY <1>7 DEF StartSleep, RestInv, Quiet
  <2>2. PICK got \in SUBSET outbox : Arrive(got)
    BY <1>7 DEF StartSleep, DropOutbox
  <2> QED
    BY <1>1, <1>2, <2>1, <2>2, ArrivedReadings DEF Followed, Reports
<1> QED
  BY <1>5, <1>6, <1>7

\* With a second attempt to spend (mqtt.maxRetries is 10), a pass that has the
\* broker all along delivers every reading it took before the board sleeps: an
\* attempt that fails on a reused port, the discovery in between, and what
\* earlier passes ran into cost none (serve_data, mqttEnsureConnected).
THEOREM PassesDeliver ==
  ASSUME MaxRetries >= 2
  PROVE  Spec => []PassDelivers
<1>1. Init => TInv /\ RestInv /\ PassInv
  BY InitTypes DEF Init, RestInv, Quiet, PassInv, InPass
<1>2. TInv /\ RestInv /\ PassInv /\ [Next]_vars => PassInv'
  BY WorldPass, MeasurePass, ConnectPass, SendPass, EndPass
     DEF Next, Work, Network, Disturbance
<1>3. RestInv /\ PassInv => PassDelivers
  BY DEF RestInv, Quiet, PassInv, InPass, Followed, Reports, PassDelivers
<1> QED
  BY <1>1, <1>2, <1>3, StepTypes, StepRest, PTL DEF Spec
=============================================================================
