------------------------------ MODULE DataLog ------------------------------
(***************************************************************************)
(* The EEPROM data log: one file per day of the month or per hour of the   *)
(* day, an index that says which period each file holds, and the steps of  *)
(* logSensorData() and syncDataLogMode() between which the supply may go,  *)
(* the clock may move and the configuration may change.                    *)
(*                                                                         *)
(* An entry is the label of the period it was written in.  A line of the   *)
(* index that does not fit is lost, one that a power cut has joined of two *)
(* may be a line of any file and read as any label, or as none: Torn.  The *)
(* index slot is made by the first syncDataLogMode(), before any day file, *)
(* so it always has its place.                                             *)
(***************************************************************************)
EXTENDS Naturals, Sequences, FiniteSets

CONSTANTS
  DaySlots,    \* days of a month (31)
  HourSlots,   \* hours of a day (24)
  FileSlots,   \* slots of the file system besides the index (31)
  FileRoom,    \* entries a file holds
  IndexRoom,   \* lines the index holds
  MaxHour,     \* bound: the clock counts the hours 1..MaxHour
  Garbled      \* bound: the numbers a label joined of two may have

ASSUME SlotsType ==
  /\ {DaySlots, HourSlots, FileRoom, MaxHour} \subseteq Nat \ {0}
  /\ FileSlots \in Nat /\ IndexRoom \in Nat
  /\ FileSlots >= DaySlots /\ FileSlots >= HourSlots
  /\ Garbled \subseteq 0..MaxHour

Names == (0..(HourSlots - 1)) \cup (1..DaySlots)  \* <slot>.txt

Label(unit, n) == [unit |-> unit, n |-> n]
Labels == [unit : {"hour", "day"}, n : 0..MaxHour]
Mixed == [unit : {"hour", "day"}, n : Garbled]
None == Label("none", 0)
Torn == Label("torn", 0)
Modes == {"hour", "month"}
NoFile == <<None>>

VARIABLES
  files,    \* name -> the entries of the file, or NoFile
  idx,      \* name -> label in the index, None or Torn
  marker,   \* the period mode the index records: a mode, "none" or "torn"
  hourly,   \* serveData.eeprom.hourly
  clock,    \* hours of the RTC; 0: the clock was never set
  cache,    \* m_lastLogSlot
  logged,   \* m_lastLogStamp is the minute it is now
  job,      \* the slot and the label of the entry being logged
  wrap,     \* m_slotWrap
  damaged,  \* history: the files whose index line a power cut has spoiled
  misled,   \* history: those of them it gave a date
  pc

store == <<files, idx, marker>>
vars == <<files, idx, marker, hourly, clock, cache, logged, job, wrap,
          damaged, misled, pc>>

Files == {NoFile} \cup UNION {[1..n -> Labels] : n \in 0..FileRoom}
Places == {"off", "sync", "adopt", "run", "reset", "label", "append", "wrap"}

TypeOK ==
  /\ files \in [Names -> Files]
  /\ idx \in [Names -> Labels \cup {None, Torn}]
  /\ marker \in Modes \cup {"none", "torn"}
  /\ hourly \in BOOLEAN /\ clock \in 0..MaxHour
  /\ cache \in Labels \cup {None} /\ logged \in BOOLEAN
  /\ job \in [slot : Names, label : Labels \cup {None}]
  /\ wrap \in {DaySlots, HourSlots}
  /\ damaged \subseteq Names /\ misled \subseteq damaged /\ pc \in Places

----------------------------------------------------------------------------
\* One clock, two calendars: the slot a moment falls in and its full date.
DayOf(h) == h \div HourSlots
DaySlot(day) == 1 + (day % DaySlots)
Period(h) ==
  IF hourly THEN [slot |-> h % HourSlots, label |-> Label("hour", h)]
  ELSE [slot |-> DaySlot(DayOf(h)), label |-> Label("day", DayOf(h))]

Mode == IF hourly THEN "hour" ELSE "month"

Exists(name) == files[name] # NoFile
Entries(name) ==
  IF Exists(name) THEN {files[name][k] : k \in DOMAIN files[name]} ELSE {}
Stored == {name \in Names : Exists(name)}
HasRoom(name) == Exists(name) \/ Cardinality(Stored) < FileSlots

\* setFileDate(): the other lines, then this one, as far as the index goes.
Dated == {n \in Names : idx[n] # None}
Recorded(name, label) ==
  LET others == Cardinality(Dated \ {name}) + (IF marker = "none" THEN 0 ELSE 1)
  IN  [idx EXCEPT ![name] = IF others < IndexRoom THEN label ELSE None]
RecordedMode == IF Cardinality(Dated) < IndexRoom THEN Mode ELSE "none"

\* The text of the index is new up to some byte and old from there.  A line
\* that is only added is beyond the size on record and not seen.  A line that
\* moves is gone, or one that an earlier cut left for the same file is seen;
\* all that followed it moves up, and the line across that byte is joined of
\* two: it may be read as the line of any file, and one of the two be lost.
Readings == {None, Torn} \cup Mixed
TornRecords(name) ==
  LET moved == {idx} \cup {[idx EXCEPT ![name] = r] : r \in Readings}
      lost == moved \cup {[x EXCEPT ![n] = None] : x \in moved, n \in Names}
  IN  IF idx[name] = None THEN {idx}
      ELSE lost \cup {[x EXCEPT ![n] = r] :
                         x \in lost, n \in Names, r \in Readings}
TornMarkers(name) == IF idx[name] = None THEN {marker} ELSE {marker, "torn"}

\* A file that is cleared has no line that speaks for its entries.
Cleared(names) ==
  /\ damaged' = damaged \ names
  /\ misled' = misled \ names

Forget ==
  /\ cache' = None /\ logged' = FALSE
  /\ job' = [slot |-> 0, label |-> None]

\* A blank log, or one from before the mode was recorded: a file per day.
Init ==
  /\ \E days \in SUBSET {DayOf(h) : h \in 1..MaxHour} :
       /\ \A c, d \in days : DaySlot(c) = DaySlot(d) => c = d
       /\ LET OfDay(name) == {d \in days : DaySlot(d) = name}
          IN  /\ files = [name \in Names |->
                     IF OfDay(name) = {} THEN NoFile
                     ELSE <<Label("day", CHOOSE d \in OfDay(name) : TRUE)>>]
              /\ idx = [name \in Names |->
                     IF OfDay(name) = {} THEN None
                     ELSE Label("day", CHOOSE d \in OfDay(name) : TRUE)]
  /\ marker = "none"
  /\ hourly \in BOOLEAN /\ clock = 0
  /\ cache = None /\ logged = FALSE /\ job = [slot |-> 0, label |-> None]
  /\ wrap = DaySlots /\ damaged = {} /\ misled = {}
  /\ pc = "off"

----------------------------------------------------------------------------
(* syncDataLogMode(), once per boot, after the mount                       *)

Boot ==
  /\ pc = "off"
  /\ pc' = "sync"
  /\ wrap' = DaySlots
  /\ UNCHANGED <<damaged, misled, store, hourly, clock, cache, logged, job>>

SameMode == marker = Mode

SlotWrap == IF hourly THEN HourSlots ELSE DaySlots

SyncSame ==
  /\ pc = "sync" /\ marker # "none" /\ SameMode
  /\ wrap' = SlotWrap
  /\ pc' = "run"
  /\ UNCHANGED <<damaged, misled, store, hourly, clock, cache, logged, job>>

\* No mode on record: keep the data.
SyncAdopt ==
  /\ pc = "sync" /\ marker = "none"
  /\ wrap' = SlotWrap
  /\ pc' = "adopt"
  /\ UNCHANGED <<damaged, misled, store, hourly, clock, cache, logged, job>>

\* The mode has changed: format(), then record the mode.
SyncWipe ==
  /\ pc = "sync" /\ marker # "none" /\ ~SameMode
  /\ files' = [name \in Names |-> NoFile]
  /\ idx' = [name \in Names |-> None] /\ marker' = "none"
  /\ Cleared(Names)
  /\ wrap' = SlotWrap
  /\ pc' = "adopt"
  /\ UNCHANGED <<hourly, clock, cache, logged, job>>

StoreMode ==
  /\ pc = "adopt"
  /\ marker' = RecordedMode
  /\ pc' = "run"
  /\ UNCHANGED <<damaged, misled, files, idx, hourly, clock, cache, logged,
                 job, wrap>>

----------------------------------------------------------------------------
(* logSensorData()                                                         *)

\* The label says whether the file is stale; the cache whether to ask.
Cached_BySlot(p) ==  \* mutant: the cache is compared by slot number
  cache # None /\ job.slot = p.slot
Cached(p) == cache = p.label
Stale_Always(p) == TRUE  \* mutant: the first entry of a session clears
Stale(p) == idx[p.slot] # p.label

\* A stale file is cleared before the index gives it the new label.
Then_LabelFirst ==  \* mutant: the label first
  [begin |-> "label", label |-> "reset", reset |-> "append"]
Then == [begin |-> "reset", reset |-> "label", label |-> "append"]

\* One sample of the clock gives the slot and the label of this entry.
BeginEntry ==
  /\ pc = "run"
  /\ clock # 0 /\ ~logged
  /\ LET p == Period(clock)
     IN  /\ job' = p
         /\ IF ~Cached(p) /\ Stale(p)
            THEN pc' = Then.begin /\ UNCHANGED cache
            ELSE pc' = "append" /\ cache' = p.label
  /\ UNCHANGED <<damaged, misled, store, hourly, clock, logged, wrap>>

\* The distance back from the current slot, around the wrap.
Age(name) == (wrap * (DaySlots + HourSlots) + job.slot - name) % wrap
Oldest == {n \in Stored : \A m \in Stored : Age(n) >= Age(m)}

\* removeOldestFile(): the last one, in directory order, of the oldest.
Recycle ==
  /\ pc \in {"reset", "append"} /\ ~HasRoom(job.slot)
  /\ \E name \in Oldest :
       files' = [files EXCEPT ![name] = NoFile] /\ Cleared({name})
  /\ UNCHANGED <<idx, marker, hourly, clock, cache, logged, job, wrap, pc>>

ResetDayFile ==
  /\ pc = "reset" /\ HasRoom(job.slot)
  /\ files' = [files EXCEPT ![job.slot] = <<>>] /\ Cleared({job.slot})
  /\ pc' = Then.reset
  /\ UNCHANGED <<idx, marker, hourly, clock, cache, logged, job, wrap>>

SetFileDate ==
  /\ pc = "label"
  /\ idx' = Recorded(job.slot, job.label)
  /\ cache' = job.label
  /\ pc' = Then.label
  /\ UNCHANGED <<damaged, misled, files, marker, hourly, clock, logged, job,
                 wrap>>

Text == IF Exists(job.slot) THEN files[job.slot] ELSE <<>>

Full_Late == Len(Text) > FileRoom  \* mutant: one entry too many
Full == Len(Text) >= FileRoom

\* appendLine(): a file that is full takes part of the line and wraps.
AppendLine ==
  /\ pc = "append" /\ HasRoom(job.slot)
  /\ IF ~Full
     THEN /\ files' = [files EXCEPT ![job.slot] = Append(Text, job.label)]
          /\ logged' = TRUE
          /\ pc' = "run"
     ELSE pc' = "wrap" /\ UNCHANGED <<files, logged>>
  /\ UNCHANGED <<damaged, misled, idx, marker, hourly, clock, cache, job,
                 wrap>>

\* writeFile(): the line is written over the start of the file.
WrapToStart ==
  /\ pc = "wrap"
  /\ files' = [files EXCEPT ![job.slot] = <<job.label>>]
  /\ logged' = TRUE
  /\ pc' = "run"
  /\ UNCHANGED <<damaged, misled, idx, marker, hourly, clock, cache, job,
                 wrap>>

----------------------------------------------------------------------------
(* The world around it                                                     *)

\* Between two calls of logSensorData(), each of which reads it once, the clock
\* runs on, is set to any time, or loses its battery.
ClockMoves ==
  /\ pc \in {"off", "run"}
  /\ clock' \in 0..MaxHour
  /\ logged' = FALSE
  /\ UNCHANGED <<damaged, misled, store, hourly, cache, job, wrap, pc>>

\* The web UI switches the period; nothing is wiped before the next boot.
SwitchPeriod ==
  /\ pc \in {"off", "run"}
  /\ hourly' = ~hourly
  /\ UNCHANGED <<damaged, misled, store, clock, cache, logged, job, wrap, pc>>

\* A reset, a deep sleep or a power cut: what was stored stays.
GoDown ==
  /\ pc # "off"
  /\ pc' = "off"
  /\ Forget
  /\ UNCHANGED <<damaged, misled, store, hourly, clock, wrap>>

\* It happens while the index is written ...
GoDownInLabel ==
  /\ pc = "label"
  /\ idx' \in TornRecords(job.slot)
  /\ marker' \in TornMarkers(job.slot)
  /\ LET spoiled == {n \in Names : Entries(n) # {} /\ idx'[n] # idx[n]}
     IN  /\ damaged' = damaged \cup spoiled
         /\ misled' = misled \cup {n \in spoiled : idx'[n] \in Labels}
  /\ pc' = "off"
  /\ Forget
  /\ UNCHANGED <<files, hourly, clock, wrap>>

\* ... or in the format, which clears the slots in order: the first one is the
\* index, unless it was made after the first day files.
GoDownInFormat ==
  /\ pc = "sync" /\ marker # "none" /\ ~SameMode
  /\ \E gone \in SUBSET Stored :
       /\ files' = [n \in Names |-> IF n \in gone THEN NoFile ELSE files[n]]
       /\ damaged' = {n \in Names \ gone : Entries(n) # {}}
       /\ misled' = misled \ gone
  /\ \/ idx' = [name \in Names |-> None] /\ marker' = "none"
     \/ UNCHANGED <<idx, marker>>
  /\ pc' = "off"
  /\ Forget
  /\ UNCHANGED <<hourly, clock, wrap>>

Sync == SyncSame \/ SyncAdopt \/ SyncWipe \/ StoreMode
LogEntry ==
  BeginEntry \/ Recycle \/ ResetDayFile \/ SetFileDate \/ AppendLine \/ WrapToStart
Down == GoDown \/ GoDownInLabel \/ GoDownInFormat
Next == Boot \/ Sync \/ LogEntry \/ ClockMoves \/ SwitchPeriod \/ Down

Spec == Init /\ [][Next]_vars

----------------------------------------------------------------------------
(* Properties                                                              *)

Trusted == Names \ misled

\* A file never holds entries of two periods, so that a slot that comes round
\* again does not mix June 13th with July 13th.
OnePeriodPerFile ==
  \A name \in Trusted : \A a, b \in Entries(name) : a = b

\* The date the listing shows for a file is the date of its entries.
LabelTruthful ==
  \A name \in Trusted : idx[name] \in Labels => Entries(name) \subseteq {idx[name]}

\* Both: whoever downloads a file by its date gets that period and no other.
\* The exception is a file to which a write of the index that was cut off has
\* given a date, until it is cleared: lines that are joined of two can be
\* well-formed and wrong, and an entry of the wrong date is then added without
\* clearing the file.
LogTruthful == OnePeriodPerFile /\ LabelTruthful

\* A period that has entries keeps some until it is over or the period mode
\* changes: recycling, reboots and the index do not empty its file.  The
\* exception is a file whose index line a power cut has spoiled.
TodayKept ==
  [][\A name \in Names : \A label \in Entries(name) :
       /\ clock # 0 /\ Period(clock) = [slot |-> name, label |-> label]
       /\ ~(pc = "sync" /\ ~SameMode)
       /\ name \notin damaged
       => label \in Entries(name)']_vars

----------------------------------------------------------------------------
(* The log seen as a RollingLog.                                           *)

Held == [n \in Names |-> IF files[n] = <<>> THEN None ELSE files[n][1]]
Shown == [n \in Names |-> IF idx[n] \in Labels THEN idx[n] ELSE None]
Now == IF clock = 0 THEN [slot |-> 0, label |-> None] ELSE Period(clock)

Rolling == INSTANCE RollingLog WITH
  Periods <- Labels, file <- Held, shown <- Shown, now <- Now,
  stale <- marker # "none" /\ ~SameMode, spoiled <- misled

\* Every step of the log, reboots and torn writes included, is one a rolling
\* log may take: clearing, dating, writing and recycling fit together, and a
\* torn write gives a wrong date to two files at most.
KeepsRollingLog == Rolling!Spec
============================================================================
