------------------------------ MODULE WifiHint ------------------------------
(***************************************************************************)
(* The RTC-cached WiFi hint and the renewal of the DHCP lease: which boots *)
(* reuse the cached address, which ask DHCP, and what the counter in the   *)
(* hint knows about it.                                                    *)
(***************************************************************************)
EXTENDS Naturals

CONSTANTS
  Every,        \* DHCP_REFRESH_WAKES
  CounterMax,   \* the counter is a uint8_t
  NoHint        \* no (valid) hint in RTC memory

ASSUME CounterHoldsPeriod == /\ Every \in Nat /\ CounterMax \in Nat
                             /\ Every <= CounterMax

\* `usable` is the coherence of the cached address (ip, gw, mask, dns).
Hint == [wakes : 0..CounterMax, usable : BOOLEAN]
ASSUME NoHintIsNoHint == NoHint \notin Hint

VARIABLES
  light,    \* the board's sleep mode is light sleep; not changed meanwhile
  hint,     \* RTC memory: the hint
  station,  \* the station's address configuration: "dhcp" or "static"
  pc,
  age       \* wakes since the address in use really came from DHCP

vars == <<light, hint, station, pc, age>>

TypeOK ==
  /\ light \in BOOLEAN
  /\ hint \in Hint \union {NoHint}
  /\ station \in {"dhcp", "static"}
  /\ pc \in {"off", "asleep", "wifi", "scan", "up", "unlinked"}
  /\ age \in 0..CounterMax

----------------------------------------------------------------------------
(* wifi_policy.h                                                           *)

RenewLease_Late(wakes) == Every = 0 \/ wakes >= Every  \* mutant: off by one
RenewLease(wakes) == Every = 0 \/ wakes + 1 >= Every

NextWakeCount_Stuck(wakes, renewed) ==  \* mutant: never counts
  IF renewed THEN 0 ELSE wakes
NextWakeCount_Unbounded(wakes, renewed) ==  \* mutant: does not saturate
  IF renewed THEN 0 ELSE wakes + 1

NextWakeCount(wakes, renewed) ==
  IF renewed THEN 0 ELSE IF wakes = CounterMax THEN CounterMax ELSE wakes + 1

----------------------------------------------------------------------------
\* saveWifiHint(): what DHCP has just handed out may be incoherent.
SaveWifiHint(wakes, config) ==
  \E usable \in IF config = "static" THEN {TRUE} ELSE BOOLEAN :
    hint' = [wakes |-> wakes, usable |-> usable]

\* What a (re-)association does to the real age of the address: a station on
\* DHCP asks for one, a static one goes on with what it has.
Associate(config) ==
  age' = IF config = "dhcp" THEN 0
         ELSE IF age = CounterMax THEN CounterMax ELSE age + 1

\* Any reset.  WiFi.config() is not persistent: the station starts on DHCP.
Boot ==
  /\ pc' = "wifi"
  /\ station' = "dhcp"
  /\ UNCHANGED <<light, hint, age>>

\* Hints are checksummed: what a power cut leaves in RTC memory is no hint.
PowerCut ==
  /\ pc' = "off"
  /\ hint' = NoHint
  /\ UNCHANGED <<light, station, age>>

\* tryFastConnect() finds the SDK connected, at once or within the grace
\* time, and counts the wake as one without DHCP.
SdkConnected ==
  /\ pc = "wifi"
  /\ SaveWifiHint(NextWakeCount(IF hint = NoHint THEN 0 ELSE hint.wakes, FALSE),
                  station)
  /\ Associate(station)
  /\ pc' = "up"
  /\ UNCHANGED <<light, station>>

\* No hint, or no credentials: on to the scan (or the portal).
NoFastPath ==
  /\ pc = "wifi"
  /\ pc' = "scan"
  /\ UNCHANGED <<light, hint, station, age>>

FastConfig_Cached(h) == IF h.usable THEN "static" ELSE "dhcp"  \* mutant
\* The address configuration the fast path applies before its begin().
FastConfig(h) == IF ~RenewLease(h.wakes) /\ h.usable THEN "static" ELSE "dhcp"

FastConnect ==
  /\ pc = "wifi"
  /\ hint # NoHint
  /\ station' = FastConfig(hint)
  /\ SaveWifiHint(NextWakeCount(hint.wakes, RenewLease(hint.wakes)), station')
  /\ Associate(station')
  /\ pc' = "up"
  /\ UNCHANGED light

\* Connected through DHCP, but without a DNS server: the address is dropped.
FastConnectNoDns ==
  /\ pc = "wifi"
  /\ hint # NoHint
  /\ FastConfig(hint) = "dhcp"
  /\ station' = "dhcp"
  /\ hint' = NoHint
  /\ Associate("dhcp")
  /\ pc' = "up"
  /\ UNCHANGED light

\* The cached channel or access point is stale.
FastConnectFails ==
  /\ pc = "wifi"
  /\ hint # NoHint
  /\ hint' = NoHint
  /\ station' = "dhcp"
  /\ pc' = "scan"
  /\ UNCHANGED <<light, age>>

\* setupWifi() after a full scan or the portal.
ScanConnects ==
  /\ pc = "scan"
  /\ SaveWifiHint(0, station)
  /\ Associate(station)
  /\ pc' = "up"
  /\ UNCHANGED <<light, station>>

ScanFails ==
  /\ pc = "scan"
  /\ pc' \in {"asleep", "unlinked"}
  /\ UNCHANGED <<light, hint, station, age>>

Sleep ==
  /\ ~light
  /\ pc = "up"
  /\ pc' = "asleep"
  /\ UNCHANGED <<light, hint, station, age>>

\* startLightSleep(): re-associate with the configuration the station has.
LightSleepWake ==
  /\ light
  /\ pc \in {"up", "unlinked"}
  /\ \/ SaveWifiHint(0, station) /\ Associate(station) /\ pc' = "up"
     \/ UNCHANGED <<hint, age>> /\ pc' = "unlinked"
  /\ UNCHANGED <<light, station>>

----------------------------------------------------------------------------
Init == light \in BOOLEAN /\ hint = NoHint /\ station = "dhcp" /\ pc = "off"
        /\ age = 0

Next == Boot \/ PowerCut \/ SdkConnected \/ NoFastPath \/ FastConnect
        \/ FastConnectNoDns \/ FastConnectFails \/ ScanConnects \/ ScanFails
        \/ Sleep \/ LightSleepWake

Spec == Init /\ [][Next]_vars

----------------------------------------------------------------------------
\* The counter in the hint is never younger than the address on a board that
\* does not light-sleep: a wake counts as renewing only if DHCP ran on it.
CounterHonest == hint # NoHint /\ ~light => hint.wakes >= age

\* The same of a board that light-sleeps, whose wakes restart the counter
\* "because this path re-runs DHCP" (startLightSleep).  A cached address breaks
\* this (README, "Where code and words part").
LightCounterHonest == hint # NoHint /\ light => hint.wakes >= age

\* A board on a cached address has been through DHCP less than `Every` wakes
\* ago, whichever of the paths through tryFastConnect() it took since.
LeaseRenewed == pc = "up" /\ station = "static" /\ ~light => age < Every

\* The counter of a board on a cached address is still within the period,
\* however boots and light-sleep wakes alternate.
CounterWithinPeriod == hint # NoHint /\ station = "static" => hint.wakes < Every

\* Both: what the renewal policy may rely on.
CounterSound == CounterHonest /\ CounterWithinPeriod

\* A board that keeps waking and getting a link keeps going through DHCP.
DhcpComesRound ==
  ~light /\ []<>(pc = "wifi") /\ []<>(pc = "up") => []<>(age = 0)
============================================================================
