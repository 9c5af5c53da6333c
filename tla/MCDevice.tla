------------------------------ MODULE MCDevice ------------------------------
(* Small sets of configurations for the runs of Device.                    *)
EXTENDS DeviceInv

Serving(active) == [DefaultConfig EXCEPT !.configMode = FALSE, !.active = active]

LiveGet    == Serving({"get"})
DeepPost   == [Serving({"post"}) EXCEPT !.sleepMode = TRUE]
LightMqtt  == [Serving({"mqtt"}) EXCEPT !.lightSleepMode = TRUE]
OfflineLog == [Serving({"eeprom"}) EXCEPT !.offlineMode = TRUE]
Remote     == [Serving({"mqtt"}) EXCEPT !.remoteControl = TRUE]
Configuring(c) == [c EXCEPT !.configMode = TRUE]

\* One of every mode, and the way back to config mode.
BatteryChoices ==
  {LiveGet, DeepPost, LightMqtt, OfflineLog, Configuring(DeepPost),
   Configuring(OfflineLog)}

\* The modes run-time configuration moves between.
RuntimeChoices == {Remote, DeepPost, OfflineLog, Configuring(Remote)}

\* A display board, with a sleep mode it must ignore.
DisplayChoices == {LiveGet, Remote, LightMqtt, OfflineLog}
============================================================================
