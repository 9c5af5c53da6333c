--------------------------- MODULE DataLogProofs ---------------------------
(***************************************************************************)
(* For any number of slots, any room and any length of time, no clock      *)
(* setting, switch of the period or power cut makes a file hold entries of *)
(* two periods or be shown with a date its entries do not have, except the *)
(* files to which an index that was cut off gave a date of its own.  The   *)
(* data log implements the rolling log, whatever its size: the mapping     *)
(* Rolling of DataLog takes every step to a step of RollingLog, or to      *)
(* none.                                                                   *)
(***************************************************************************)
EXTENDS DataLog, SequenceTheorems, FiniteSetTheorems, TLAPS

\* The slot a label belongs to.
SlotOf(l) == IF l.unit = "hour" THEN l.n % HourSlots ELSE DaySlot(l.n)

Busy == {"reset", "label", "append", "wrap"}

\* The label of the session is that of its file, in the index too if it is
\* there: that is why the index need not be read again.
CacheInv ==
  cache # None =>
    /\ SlotOf(cache) \notin misled => Entries(SlotOf(cache)) \subseteq {cache}
    /\ idx[SlotOf(cache)] \in Labels => idx[SlotOf(cache)] = cache

\* The entry on its way: its file is empty before its label is recorded, and
\* its label is that of the session when it is written.
JobInv ==
  /\ pc \in Busy => job.label \in Labels /\ job.slot = SlotOf(job.label)
  /\ pc = "label" => Entries(job.slot) = {}
  /\ pc \in {"append", "wrap"} => cache = job.label

\* A file that is misled is one with entries: clearing it ends that.
MisledInv == \A n \in misled : Entries(n) # {}

IInv ==
  TypeOK /\ OnePeriodPerFile /\ LabelTruthful /\ CacheInv /\ JobInv /\ MisledInv

----------------------------------------------------------------------------
LEMMA Arithmetic ==
  ASSUME NEW h \in 0..MaxHour
  PROVE  /\ h % HourSlots \in Names
         /\ DayOf(h) \in 0..MaxHour
         /\ DaySlot(h) \in Names /\ DaySlot(DayOf(h)) \in Names
<1>1. h \in Nat /\ HourSlots \in Nat \ {0} /\ DaySlots \in Nat \ {0} /\ MaxHour \in Nat
  BY SlotsType
<1>2. h % HourSlots \in 0..(HourSlots - 1)
  BY <1>1
<1>3. h % HourSlots \in Names
  BY <1>1, <1>2 DEF Names
<1>4. DayOf(h) \in Nat /\ DayOf(h) <= h
  BY <1>1 DEF DayOf
<1>5. DayOf(h) % DaySlots \in 0..(DaySlots - 1)
  BY <1>1, <1>4
<1>6. DaySlot(DayOf(h)) \in Names
  BY <1>1, <1>4, <1>5 DEF DaySlot, Names
<1>7. h % DaySlots \in 0..(DaySlots - 1)
  BY <1>1
<1>8. DaySlot(h) \in Names
  BY <1>1, <1>7 DEF DaySlot, Names
<1> QED
  BY <1>1, <1>3, <1>4, <1>6, <1>8

\* A moment has one period, and its label belongs to its slot.
LEMMA PeriodType ==
  ASSUME NEW h \in 0..MaxHour, hourly \in BOOLEAN
  PROVE  /\ Period(h) \in [slot : Names, label : Labels]
         /\ Period(h).slot = SlotOf(Period(h).label)
<1>1. CASE hourly
  <2>1. Period(h) = [slot |-> h % HourSlots, label |-> [unit |-> "hour", n |-> h]]
    BY <1>1 DEF Period, Label
  <2> QED
    BY <2>1, Arithmetic DEF Labels, SlotOf
<1>2. CASE ~hourly
  <2>1. Period(h) = [slot |-> DaySlot(DayOf(h)),
                     label |-> [unit |-> "day", n |-> DayOf(h)]]
    BY <1>2 DEF Period, Label
  <2> QED
    BY <2>1, Arithmetic DEF Labels, SlotOf
<1> QED
  BY <1>1, <1>2

\* None and Torn are no labels of a period.
LEMMA NoLabels == None \notin Labels /\ Torn \notin Labels
BY DEF None, Torn, Label, Labels

LEMMA SlotOfLabel ==
  ASSUME NEW l \in Labels
  PROVE  SlotOf(l) \in Names
<1>1. l.n \in 0..MaxHour
  BY DEF Labels
<1> QED
  BY <1>1, Arithmetic DEF SlotOf

----------------------------------------------------------------------------
(* What a step does to the entries of the files.                           *)

\* Steps that only take entries away, and change a date only if they take it
\* out of the index or put the file on record.
Shrinks ==
  /\ \A n \in Names : Entries(n)' \subseteq Entries(n)
  /\ \A n \in Names : \/ idx'[n] \in {idx[n], None, Torn}
                       \/ n \in misled' \/ Entries(n)' = {}
  /\ \A n \in misled : n \in misled' \/ Entries(n)' = {}
  /\ cache' = None \/ (cache' = cache /\ \A n \in Names : idx'[n] \in {idx[n], None})

LEMMA ShrinkingKeeps ==
  ASSUME TypeOK, OnePeriodPerFile, LabelTruthful, CacheInv, Shrinks
  PROVE  OnePeriodPerFile' /\ LabelTruthful' /\ CacheInv'
<1>0. \A n \in Names : n \notin misled' => n \in Trusted \/ Entries(n)' = {}
  BY DEF Shrinks, Trusted
<1>1. OnePeriodPerFile'
  <2> SUFFICES ASSUME NEW n \in Names, n \notin misled'
               PROVE  \A a, b \in Entries(n)' : a = b
    BY DEF OnePeriodPerFile, Trusted
  <2>1. CASE n \in Trusted
    BY <2>1 DEF OnePeriodPerFile, Shrinks
  <2> QED
    BY <1>0, <2>1
<1>2. LabelTruthful'
  <2> SUFFICES ASSUME NEW n \in Names, n \notin misled', idx'[n] \in Labels
               PROVE  Entries(n)' \subseteq {idx'[n]}
    BY DEF LabelTruthful, Trusted
  <2>1. idx'[n] = idx[n] \/ Entries(n)' = {}
    BY NoLabels DEF Shrinks
  <2> QED
    BY <1>0, <2>1 DEF LabelTruthful, Shrinks
<1>3. CacheInv'
  <2> SUFFICES ASSUME cache' # None
               PROVE  /\ SlotOf(cache') \notin misled' =>
                           Entries(SlotOf(cache))' \subseteq {cache'}
                      /\ idx'[SlotOf(cache')] \in Labels =>
                           idx'[SlotOf(cache')] = cache'
    BY DEF CacheInv, SlotOf
  <2>1. /\ cache' = cache /\ cache # None /\ cache \in Labels
        /\ \A n \in Names : idx'[n] \in {idx[n], None}
    BY DEF Shrinks, TypeOK
  <2>2. SlotOf(cache') \in Names /\ SlotOf(cache') = SlotOf(cache)
    BY <2>1, SlotOfLabel
  <2>3. ASSUME SlotOf(cache') \notin misled'
        PROVE  Entries(SlotOf(cache))' \subseteq {cache'}
    <3> DEFINE s == SlotOf(cache)
    <3>1. Entries(s)' \subseteq Entries(s) /\ (s \notin misled \/ Entries(s)' = {})
      BY <2>2, <2>3 DEF Shrinks
    <3> QED
      BY <2>1, <2>2, <3>1 DEF CacheInv, Entries, Exists, SlotOf
  <2>4. idx'[SlotOf(cache')] \in Labels => idx'[SlotOf(cache')] = cache'
    BY <2>1, <2>2, NoLabels DEF CacheInv
  <2> QED
    BY <2>3, <2>4
<1> QED
  BY <1>1, <1>2, <1>3

\* Writing one file leaves the entries of the others.
LEMMA OneFileWritten ==
  ASSUME TypeOK, NEW s \in Names, NEW f, files' = [files EXCEPT ![s] = f]
  PROVE  /\ \A n \in Names \ {s} : Entries(n)' = Entries(n)
         /\ Entries(s)' = IF f = NoFile THEN {} ELSE {f[k] : k \in DOMAIN f}
BY DEF Entries, Exists, TypeOK

\* A file that is there is a sequence of labels no longer than its room.
LEMMA TextType ==
  ASSUME TypeOK
  PROVE  /\ Text \in Seq(Labels) /\ Len(Text) \in 0..FileRoom
         /\ Entries(job.slot) = {Text[k] : k \in 1..Len(Text)}
<1>1. job.slot \in Names /\ FileRoom \in Nat
  BY SlotsType DEF TypeOK
<1>2. CASE Exists(job.slot)
  <2>1. PICK n \in 0..FileRoom : files[job.slot] \in [1..n -> Labels]
    BY <1>1, <1>2 DEF TypeOK, Files, Exists
  <2>2. Text = files[job.slot]
    BY <1>2 DEF Text
  <2>3. Text \in Seq(Labels) /\ Len(Text) = n /\ DOMAIN Text = 1..n
    BY <1>1, <2>1, <2>2
  <2> QED
    BY <1>2, <2>1, <2>2, <2>3 DEF Entries
<1>3. CASE ~Exists(job.slot)
  BY <1>1, <1>3 DEF Text, Entries
<1> QED
  BY <1>2, <1>3

\* A file a label is added to, or started with, is a file with that entry.
LEMMA AppendedFile ==
  ASSUME NEW t \in Seq(Labels), NEW l \in Labels, Len(t) < FileRoom
  PROVE  /\ Append(t, l) \in Files /\ Append(t, l) # NoFile
         /\ {Append(t, l)[k] : k \in DOMAIN Append(t, l)}
              = {t[k] : k \in 1..Len(t)} \cup {l}
<1>1. FileRoom \in Nat /\ Len(t) \in Nat
  BY SlotsType
<1>2. /\ Append(t, l) \in [1..(Len(t) + 1) -> Labels]
      /\ DOMAIN Append(t, l) = 1..(Len(t) + 1)
      /\ Append(t, l)[Len(t) + 1] = l
      /\ \A k \in 1..Len(t) : Append(t, l)[k] = t[k]
  <2>1. /\ Append(t, l) \in Seq(Labels) /\ Len(Append(t, l)) = Len(t) + 1
        /\ Append(t, l)[Len(t) + 1] = l
        /\ \A k \in 1..Len(t) : Append(t, l)[k] = t[k]
    BY AppendProperties
  <2> QED
    BY <1>1, <2>1, LenProperties
<1>3. Len(t) + 1 \in 0..FileRoom
  BY <1>1
<1>4. Append(t, l) \in Files
  BY <1>2, <1>3 DEF Files
<1>5. Append(t, l) # NoFile
  <2> SUFFICES ASSUME Append(t, l) = NoFile
               PROVE  FALSE
    OBVIOUS
  <2>1. DOMAIN NoFile = 1..1 /\ NoFile[1] = None
    BY DEF NoFile
  <2>2. Len(t) + 1 \in 1..1
    BY <1>1, <1>2, <2>1
  <2> QED
    BY <1>2, <2>1, <2>2, NoLabels
<1>6. 1..(Len(t) + 1) = 1..Len(t) \cup {Len(t) + 1}
  BY <1>1
<1>7. {Append(t, l)[k] : k \in DOMAIN Append(t, l)}
        = {t[k] : k \in 1..Len(t)} \cup {l}
  BY <1>2, <1>6
<1> QED
  BY <1>4, <1>5, <1>7

LEMMA StartedFile ==
  ASSUME NEW l \in Labels
  PROVE  /\ <<l>> \in Files /\ <<l>> # NoFile
         /\ {<<l>>[k] : k \in DOMAIN <<l>>} = {l}
<1>1. 1 \in 0..FileRoom /\ <<l>> \in [1..1 -> Labels]
  BY SlotsType
<1>2. <<l>> \in Files
  BY <1>1 DEF Files
<1>3. <<l>> # NoFile
  BY NoLabels DEF NoFile
<1> QED
  BY <1>2, <1>3

LEMMA EmptyFile ==
  /\ <<>> \in Files /\ <<>> # NoFile
  /\ {<<>>[k] : k \in DOMAIN <<>>} = {}
<1>1. 0 \in 0..FileRoom /\ <<>> \in [1..0 -> Labels]
  BY SlotsType
<1>2. <<>> \in Files
  BY <1>1 DEF Files
<1> QED
  BY <1>2 DEF NoFile

----------------------------------------------------------------------------
(* The invariant holds initially ...                                       *)

LEMMA InitIInv == Init => IInv
<1> SUFFICES ASSUME Init
             PROVE  IInv
  OBVIOUS
<1>1. PICK days \in SUBSET {DayOf(h) : h \in 1..MaxHour} :
         /\ files = [name \in Names |->
                IF {d \in days : DaySlot(d) = name} = {} THEN NoFile
                ELSE <<Label("day", CHOOSE d \in {d \in days : DaySlot(d) = name} : TRUE)>>]
         /\ idx = [name \in Names |->
                IF {d \in days : DaySlot(d) = name} = {} THEN None
                ELSE Label("day", CHOOSE d \in {d \in days : DaySlot(d) = name} : TRUE)]
  BY DEF Init
<1> DEFINE OfDay(name) == {d \in days : DaySlot(d) = name}
           Day(name) == Label("day", CHOOSE d \in OfDay(name) : TRUE)
<1>2. \A name \in Names :
         \/ files[name] = NoFile /\ idx[name] = None
         \/ /\ Day(name) \in Labels
            /\ files[name] = <<Day(name)>> /\ idx[name] = Day(name)
  <2> SUFFICES ASSUME NEW name \in Names, OfDay(name) # {}
               PROVE  Day(name) \in Labels
    BY <1>1
  <2>1. (CHOOSE d \in OfDay(name) : TRUE) \in OfDay(name)
    OBVIOUS
  <2>2. \A d \in OfDay(name) : d \in 0..MaxHour
    BY Arithmetic, SlotsType
  <2> QED
    BY <2>1, <2>2 DEF Label, Labels
<1>3. TypeOK
  <2>1. files \in [Names -> Files]
    BY <1>1, <1>2, StartedFile DEF Files
  <2>2. idx \in [Names -> Labels \cup {None, Torn}]
    BY <1>1, <1>2
  <2>3. 0 \in Names /\ 0 \in 0..MaxHour
    BY SlotsType DEF Names
  <2> QED
    BY <2>1, <2>2, <2>3 DEF Init, TypeOK, Places, Modes
<1>4. \A name \in Names :
         Entries(name) = IF files[name] = NoFile THEN {} ELSE {idx[name]}
  BY <1>2, StartedFile DEF Entries, Exists
<1>5. OnePeriodPerFile /\ LabelTruthful
  BY <1>2, <1>4, NoLabels DEF OnePeriodPerFile, LabelTruthful, Trusted
<1> QED
  BY <1>3, <1>5 DEF Init, IInv, CacheInv, JobInv, MisledInv, Busy

----------------------------------------------------------------------------
(* ... and every step keeps it.                                            *)

\* Steps that touch neither the files nor the index, outside logSensorData().
LEMMA QuietStep ==
  ASSUME IInv, UNCHANGED <<files, idx, misled>>, cache' \in {cache, None},
         pc' \notin Busy, TypeOK'
  PROVE  IInv'
<1>1. Shrinks
  BY DEF Shrinks, Entries, Exists
<1>2. JobInv'
  BY DEF JobInv, Busy
<1>3. MisledInv'
  BY DEF MisledInv, IInv, Entries, Exists
<1> QED
  BY <1>1, <1>2, <1>3, ShrinkingKeeps DEF IInv

\* Steps that empty files and the index, or spoil it, outside logSensorData().
LEMMA LosingStep ==
  ASSUME IInv, TypeOK', MisledInv',
         \A n \in Names : files'[n] \in {files[n], NoFile},
         \A n \in Names : \/ idx'[n] \in {idx[n], None, Torn}
                          \/ n \in misled' \/ Entries(n)' = {},
         \A n \in misled : n \in misled' \/ files'[n] = NoFile,
         cache' = None, pc' \notin Busy
  PROVE  IInv'
<1>1. Shrinks
  BY DEF Shrinks, Entries, Exists, IInv, TypeOK
<1>2. JobInv'
  BY DEF JobInv, Busy
<1> QED
  BY <1>1, <1>2, ShrinkingKeeps DEF IInv

\* What a cut in the index leaves, of which nothing is assumed but that only
\* two files may be given a date.
LEMMA TornType ==
  ASSUME TypeOK, NEW name \in Names, NEW x \in TornRecords(name)
  PROVE  /\ x \in [Names -> Labels \cup {None, Torn}]
         /\ \E n \in Names :
              \A m \in Names \ {name, n} : x[m] \in {idx[m], None}
<1> DEFINE moved == {idx} \cup {[idx EXCEPT ![name] = r] : r \in Readings}
           lost == moved \cup {[y EXCEPT ![n] = None] : y \in moved, n \in Names}
           T == [Names -> Labels \cup {None, Torn}]
<1>1. Readings \subseteq Labels \cup {None, Torn}
  BY SlotsType DEF Readings, Mixed, Labels
<1>2. \A y \in moved : y \in T /\ \A m \in Names \ {name} : y[m] = idx[m]
  BY <1>1 DEF TypeOK
<1>3. \A y \in lost : y \in T /\ \A m \in Names \ {name} : y[m] \in {idx[m], None}
  <2> SUFFICES ASSUME NEW z \in moved, NEW n \in Names
               PROVE  /\ [z EXCEPT ![n] = None] \in T
                      /\ \A m \in Names \ {name} :
                           [z EXCEPT ![n] = None][m] \in {idx[m], None}
    BY <1>2
  <2> QED
    BY <1>2
<1>4. CASE x \in lost
  BY <1>3, <1>4
<1>5. CASE x \notin lost
  <2>1. PICK y \in lost, n \in Names, r \in Readings : x = [y EXCEPT ![n] = r]
    BY <1>5 DEF TornRecords
  <2>2. x \in T
    BY <1>1, <1>3, <2>1
  <2>3. \A m \in Names \ {name, n} : x[m] \in {idx[m], None}
    BY <1>3, <2>1
  <2> QED
    BY <2>2, <2>3
<1> QED
  BY <1>4, <1>5

LEMMA SyncKeeps == IInv /\ (Boot \/ Sync) => IInv'
<1> SUFFICES ASSUME IInv, Boot \/ Sync
             PROVE  IInv'
  OBVIOUS
<1>1. CASE Boot
  <2>1. TypeOK'
    BY <1>1 DEF Boot, IInv, TypeOK, store, Places
  <2> QED
    BY <1>1, <2>1, QuietStep DEF Boot, store, Busy
<1>2. CASE SyncSame
  <2>1. TypeOK'
    BY <1>2 DEF SyncSame, SlotWrap, IInv, TypeOK, store, Places
  <2> QED
    BY <1>2, <2>1, QuietStep DEF SyncSame, store, Busy
<1>3. CASE SyncAdopt
  <2>1. TypeOK'
    BY <1>3 DEF SyncAdopt, SlotWrap, IInv, TypeOK, store, Places
  <2> QED
    BY <1>3, <2>1, QuietStep DEF SyncAdopt, store, Busy
<1>4. CASE SyncWipe
  <2>1. misled' = {} /\ damaged' \subseteq Names
    BY <1>4 DEF SyncWipe, Cleared, IInv, TypeOK
  <2>2. TypeOK'
    BY <1>4, <2>1 DEF SyncWipe, SlotWrap, IInv, TypeOK, Files, Places
  <2>3. MisledInv' /\ Shrinks
    BY <1>4, <2>1 DEF MisledInv, Shrinks, SyncWipe, Entries, Exists, IInv,
       TypeOK
  <2>4. JobInv'
    BY <1>4 DEF SyncWipe, JobInv, Busy
  <2> QED
    BY <2>2, <2>3, <2>4, ShrinkingKeeps DEF IInv
<1>5. CASE StoreMode
  <2>1. marker' \in Modes \cup {"none", "torn"}
    BY <1>5 DEF StoreMode, RecordedMode, Mode, Modes
  <2>2. TypeOK'
    BY <1>5, <2>1 DEF StoreMode, IInv, TypeOK, Places
  <2> QED
    BY <1>5, <2>2, QuietStep DEF StoreMode, Busy
<1> QED
  BY <1>1, <1>2, <1>3, <1>4, <1>5 DEF Sync

LEMMA WorldKeeps == IInv /\ (ClockMoves \/ SwitchPeriod) => IInv'
<1> SUFFICES ASSUME IInv, ClockMoves \/ SwitchPeriod
             PROVE  IInv'
  OBVIOUS
<1>1. CASE ClockMoves
  <2>1. TypeOK'
    BY <1>1 DEF ClockMoves, IInv, TypeOK, store
  <2> QED
    BY <1>1, <2>1, QuietStep DEF ClockMoves, store, Busy
<1>2. CASE SwitchPeriod
  <2>1. TypeOK'
    BY <1>2 DEF SwitchPeriod, IInv, TypeOK, store
  <2> QED
    BY <1>2, <2>1, QuietStep DEF SwitchPeriod, store, Busy
<1> QED
  BY <1>1, <1>2

\* Going down forgets the session; what it leaves behind is less, or torn.
LEMMA DownKeeps == IInv /\ Down => IInv'
<1> SUFFICES ASSUME IInv, Down
             PROVE  IInv'
  OBVIOUS
<1>1. 0 \in Names
  BY SlotsType DEF Names
<1>2. CASE GoDown
  <2>1. TypeOK'
    BY <1>1, <1>2 DEF GoDown, Forget, IInv, TypeOK, store, Places
  <2> QED
    BY <1>2, <2>1, QuietStep DEF GoDown, Forget, store, Busy
<1>3. CASE GoDownInLabel
  <2>1. /\ idx' \in [Names -> Labels \cup {None, Torn}]
        /\ marker' \in Modes \cup {"none", "torn"}
    BY <1>3, TornType DEF GoDownInLabel, TornMarkers, IInv, TypeOK
  <2>2. /\ misled \subseteq misled' /\ misled' \subseteq damaged'
        /\ damaged' \subseteq Names /\ files' = files
        /\ \A n \in misled' : n \in misled \/ Entries(n) # {}
        /\ \A n \in Names : Entries(n) # {} /\ idx'[n] # idx[n] /\ idx'[n] \in Labels
                            => n \in misled'
    BY <1>3 DEF GoDownInLabel, IInv, TypeOK
  <2>3. TypeOK'
    BY <1>1, <1>3, <2>1, <2>2 DEF GoDownInLabel, Forget, IInv, TypeOK, Places
  <2>4. \A n \in Names : Entries(n)' = Entries(n)
    BY <2>2 DEF Entries, Exists
  <2>5. MisledInv'
    BY <2>2, <2>4, <2>3 DEF MisledInv, IInv, TypeOK
  <2>6. \A n \in Names : \/ idx'[n] \in {idx[n], None, Torn}
                         \/ n \in misled' \/ Entries(n)' = {}
    BY <2>1, <2>2, <2>4
  <2> QED
    BY <1>3, <2>2, <2>3, <2>5, <2>6, LosingStep DEF GoDownInLabel, Forget, Busy
<1>4. CASE GoDownInFormat
  <2>1. PICK gone \in SUBSET Stored :
          /\ files' = [n \in Names |-> IF n \in gone THEN NoFile ELSE files[n]]
          /\ damaged' = {n \in Names \ gone : Entries(n) # {}}
          /\ misled' = misled \ gone
    BY <1>4 DEF GoDownInFormat
  <2>2. /\ files' \in [Names -> Files]
        /\ \A n \in Names : files'[n] \in {files[n], NoFile}
    BY <2>1 DEF IInv, TypeOK, Files
  <2>3. misled' \subseteq damaged' /\ damaged' \subseteq Names
    BY <2>1 DEF IInv, TypeOK, MisledInv
  <2>4. TypeOK'
    BY <1>1, <1>4, <2>2, <2>3 DEF GoDownInFormat, Forget, IInv, TypeOK, Places
  <2>5. \A n \in Names \ gone : Entries(n)' = Entries(n)
    BY <2>1 DEF Entries, Exists
  <2>6. MisledInv'
    BY <2>1, <2>3, <2>5 DEF MisledInv, IInv
  <2>7. \A n \in Names : idx'[n] \in {idx[n], None, Torn}
    BY <1>4 DEF GoDownInFormat
  <2>8. \A n \in misled : n \in misled' \/ files'[n] = NoFile
    BY <2>1 DEF IInv, TypeOK
  <2> QED
    BY <1>4, <2>2, <2>4, <2>6, <2>7, <2>8, LosingStep
       DEF GoDownInFormat, Forget, Busy
<1> QED
  BY <1>2, <1>3, <1>4 DEF Down

\* The label of the session is only ever one whose file holds nothing else.
LEMMA BeginEntryKeeps == IInv /\ BeginEntry => IInv'
<1> SUFFICES ASSUME IInv, BeginEntry
             PROVE  IInv'
  OBVIOUS
<1> DEFINE p == Period(clock)
<1>1. p \in [slot : Names, label : Labels] /\ p.slot = SlotOf(p.label)
  BY PeriodType DEF IInv, TypeOK
<1>2. job' = p /\ UNCHANGED <<files, idx, misled, damaged>>
  BY DEF BeginEntry, store
<1>a. MisledInv'
  BY <1>2 DEF MisledInv, IInv, Entries, Exists
<1>3. CASE ~Cached(p) /\ Stale(p)
  <2>1. cache' = cache /\ pc' = "reset"
    BY <1>3 DEF BeginEntry, Then
  <2>2. TypeOK'
    BY <1>1, <1>2, <2>1 DEF BeginEntry, IInv, TypeOK, store, Places
  <2>3. Shrinks
    BY <1>2, <2>1 DEF Shrinks, Entries, Exists
  <2>4. JobInv'
    BY <1>1, <1>2, <2>1 DEF JobInv
  <2> QED
    BY <1>a, <2>2, <2>3, <2>4, ShrinkingKeeps DEF IInv
<1>4. CASE ~(~Cached(p) /\ Stale(p))
  <2>1. cache' = p.label /\ pc' = "append"
    BY <1>4 DEF BeginEntry
  <2>2. TypeOK'
    BY <1>1, <1>2, <2>1 DEF BeginEntry, IInv, TypeOK, store, Places
  <2>3. /\ p.slot \notin misled => Entries(p.slot) \subseteq {p.label}
        /\ idx[p.slot] \in Labels => idx[p.slot] = p.label
    <3>1. CASE Cached(p)
      BY <1>1, <3>1, NoLabels DEF Cached, IInv, CacheInv
    <3>2. CASE ~Stale(p)
      BY <1>1, <3>2 DEF Stale, IInv, LabelTruthful, Trusted
    <3> QED
      BY <1>4, <3>1, <3>2
  <2>4. \A n \in Names : Entries(n)' = Entries(n)
    BY <1>2 DEF Entries, Exists
  <2>5. OnePeriodPerFile' /\ LabelTruthful'
    BY <1>2, <2>4 DEF IInv, OnePeriodPerFile, LabelTruthful, Trusted
  <2>6. Entries(SlotOf(cache))' = Entries(p.slot)
    BY <1>1, <1>2, <2>1 DEF Entries, Exists, SlotOf
  <2>7. CacheInv'
    BY <1>1, <1>2, <2>1, <2>3, <2>6 DEF CacheInv, SlotOf
  <2>8. JobInv'
    BY <1>1, <1>2, <2>1 DEF JobInv, SlotOf
  <2> QED
    BY <1>a, <2>2, <2>5, <2>7, <2>8 DEF IInv
<1> QED
  BY <1>3, <1>4

\* Recycling and clearing only take entries away.
LEMMA ClearingKeeps == IInv /\ (Recycle \/ ResetDayFile) => IInv'
<1> SUFFICES ASSUME IInv, Recycle \/ ResetDayFile
             PROVE  IInv'
  OBVIOUS
<1>1. CASE Recycle
  <2>1. PICK name \in Names : /\ files' = [files EXCEPT ![name] = NoFile]
                              /\ damaged' = damaged \ {name}
                              /\ misled' = misled \ {name}
    BY <1>1 DEF Recycle, Oldest, Stored, Cleared
  <2>2. TypeOK'
    BY <1>1, <2>1 DEF Recycle, IInv, TypeOK, Files
  <2>a. /\ \A n \in Names \ {name} : Entries(n)' = Entries(n)
        /\ Entries(name)' = {}
    BY <2>1, OneFileWritten DEF IInv
  <2>3. Shrinks
    BY <1>1, <2>1, <2>a DEF Recycle, Shrinks, IInv, TypeOK
  <2>b. MisledInv'
    BY <2>1, <2>a DEF MisledInv, IInv, TypeOK
  <2>4. JobInv'
    BY <1>1 DEF Recycle, IInv, JobInv, SlotOf
  <2> QED
    BY <2>2, <2>3, <2>4, <2>b, ShrinkingKeeps DEF IInv
<1>2. CASE ResetDayFile
  <2>1. /\ job.slot \in Names /\ pc' = "label" /\ UNCHANGED <<job, idx, cache>>
        /\ damaged' = damaged \ {job.slot} /\ misled' = misled \ {job.slot}
    BY <1>2 DEF ResetDayFile, Cleared, IInv, TypeOK, Then
  <2>2. TypeOK'
    BY <1>2, <2>1, EmptyFile DEF ResetDayFile, IInv, TypeOK, Places
  <2>3. /\ \A n \in Names \ {job.slot} : Entries(n)' = Entries(n)
        /\ Entries(job.slot)' = {}
    <3>1. /\ \A n \in Names \ {job.slot} : Entries(n)' = Entries(n)
          /\ (files'[job.slot] = <<>>)
      BY <1>2, <2>1, OneFileWritten DEF ResetDayFile, IInv, TypeOK
    <3>2. job' = job
      BY <1>2 DEF ResetDayFile
    <3>3. Entries(job.slot)' = {}
      BY <3>1, <3>2, EmptyFile DEF Entries, Exists
    <3> QED
      BY <3>1, <3>3
  <2>a. \A n \in Names : n = job.slot => Entries(n)' = {}
    BY <2>1, <2>3 DEF Entries, Exists
  <2>4. Shrinks
    BY <2>1, <2>3, <2>a DEF Shrinks, IInv, TypeOK
  <2>b. MisledInv'
    BY <2>1, <2>3 DEF MisledInv, IInv, TypeOK
  <2>5. JobInv'
    BY <1>2, <2>1, <2>3 DEF ResetDayFile, IInv, JobInv, SlotOf, Busy
  <2> QED
    BY <2>2, <2>4, <2>5, <2>b, ShrinkingKeeps DEF IInv
<1> QED
  BY <1>1, <1>2

\* A label is recorded for a file that is empty.
LEMMA SetFileDateKeeps == IInv /\ SetFileDate => IInv'
<1> SUFFICES ASSUME IInv, SetFileDate
             PROVE  IInv'
  OBVIOUS
<1>1. /\ job.slot \in Names /\ job.label \in Labels
      /\ job.slot = SlotOf(job.label) /\ Entries(job.slot) = {}
  BY DEF SetFileDate, IInv, TypeOK, JobInv, Busy
<1>2. /\ idx'[job.slot] \in {job.label, None}
      /\ \A n \in Names \ {job.slot} : idx'[n] = idx[n]
      /\ idx' \in [Names -> Labels \cup {None, Torn}]
  BY <1>1 DEF SetFileDate, Recorded, IInv, TypeOK
<1>3. UNCHANGED <<files, job>> /\ cache' = job.label /\ pc' = "append"
  BY DEF SetFileDate, Then
<1>4. TypeOK'
  BY <1>1, <1>2, <1>3 DEF SetFileDate, IInv, TypeOK, Places
<1>5. \A n \in Names : Entries(n)' = Entries(n)
  BY <1>3 DEF Entries, Exists
<1>a. misled' = misled
  BY DEF SetFileDate
<1>b. MisledInv'
  BY <1>5, <1>a DEF MisledInv, IInv, TypeOK
<1>6. OnePeriodPerFile'
  BY <1>5, <1>a DEF IInv, OnePeriodPerFile, Trusted
<1>7. LabelTruthful'
  BY <1>1, <1>2, <1>5, <1>a DEF IInv, LabelTruthful, Trusted
<1>8. Entries(SlotOf(cache))' = {}
  BY <1>1, <1>3 DEF Entries, Exists, SlotOf
<1>9. CacheInv'
  BY <1>1, <1>2, <1>3, <1>8, NoLabels DEF CacheInv, SlotOf
<1>10. JobInv'
  BY <1>1, <1>3 DEF JobInv, SlotOf, Busy
<1> QED
  BY <1>4, <1>6, <1>7, <1>9, <1>10, <1>b DEF IInv

\* An entry written to a file that holds nothing but its period.
LEMMA WritingKeeps ==
  ASSUME IInv, pc \in {"append", "wrap"}, NEW f \in Files, f # NoFile,
         files' = [files EXCEPT ![job.slot] = f],
         {f[k] : k \in DOMAIN f} \subseteq Entries(job.slot) \cup {job.label},
         job.label \in {f[k] : k \in DOMAIN f},
         UNCHANGED <<idx, marker, hourly, clock, cache, job, wrap, damaged, misled>>,
         logged' = TRUE, pc' = "run"
  PROVE  IInv'
<1>1. /\ job.slot \in Names /\ job.label \in Labels
      /\ job.slot = SlotOf(job.label) /\ cache = job.label
  BY DEF IInv, TypeOK, JobInv, Busy
<1>2. /\ job.slot \notin misled => Entries(job.slot) \subseteq {job.label}
      /\ idx[job.slot] \in Labels => idx[job.slot] = job.label
  BY <1>1, NoLabels DEF IInv, CacheInv
<1>3. TypeOK'
  BY <1>1 DEF IInv, TypeOK, Places
<1>4. /\ \A n \in Names \ {job.slot} : Entries(n)' = Entries(n)
      /\ files'[job.slot] = f
  BY <1>1, OneFileWritten DEF IInv, TypeOK
<1>5. \A n \in Names \ misled : n = job.slot => Entries(n)' \subseteq {job.label}
  BY <1>2, <1>4 DEF Entries, Exists
<1>6. OnePeriodPerFile'
  BY <1>4, <1>5 DEF IInv, OnePeriodPerFile, Trusted
<1>7. LabelTruthful'
  BY <1>2, <1>4, <1>5 DEF IInv, LabelTruthful, Trusted
<1>8. job.slot \notin misled => Entries(SlotOf(cache))' \subseteq {job.label}
  BY <1>1, <1>2, <1>4 DEF Entries, Exists, SlotOf
<1>9. CacheInv'
  BY <1>1, <1>2, <1>8 DEF CacheInv, SlotOf
<1>10. JobInv'
  BY DEF JobInv, Busy
<1>11. \A n \in Names : n = job.slot => Entries(n)' # {}
  BY <1>4 DEF Entries, Exists
<1>12. MisledInv'
  BY <1>4, <1>11 DEF MisledInv, IInv, TypeOK
<1> QED
  BY <1>3, <1>6, <1>7, <1>9, <1>10, <1>12 DEF IInv

LEMMA AppendKeeps == IInv /\ (AppendLine \/ WrapToStart) => IInv'
<1> SUFFICES ASSUME IInv, AppendLine \/ WrapToStart
             PROVE  IInv'
  OBVIOUS
<1>1. job.label \in Labels /\ FileRoom \in Nat
  BY SlotsType DEF AppendLine, WrapToStart, IInv, JobInv, Busy
<1>2. CASE AppendLine /\ ~Full
  <2>1. Text \in Seq(Labels) /\ Len(Text) < FileRoom
    BY <1>1, <1>2, TextType DEF Full, IInv
  <2>2. /\ Append(Text, job.label) \in Files
        /\ Append(Text, job.label) # NoFile
        /\ {Append(Text, job.label)[k] : k \in DOMAIN Append(Text, job.label)}
             = Entries(job.slot) \cup {job.label}
    BY <1>1, <2>1, AppendedFile, TextType DEF IInv
  <2> QED
    BY <1>2, <2>2, WritingKeeps DEF AppendLine
<1>3. CASE AppendLine /\ Full
  <2>1. TypeOK'
    BY <1>3 DEF AppendLine, IInv, TypeOK, Places
  <2>2. Shrinks /\ MisledInv'
    BY <1>3 DEF AppendLine, Shrinks, MisledInv, IInv, Entries, Exists
  <2>3. JobInv'
    BY <1>3 DEF AppendLine, IInv, JobInv, SlotOf, Busy
  <2> QED
    BY <2>1, <2>2, <2>3, ShrinkingKeeps DEF IInv
<1>4. CASE WrapToStart
  BY <1>1, <1>4, StartedFile, WritingKeeps DEF WrapToStart
<1> QED
  BY <1>2, <1>3, <1>4

LEMMA StepIInv == IInv /\ [Next]_vars => IInv'
<1>1. IInv /\ UNCHANGED vars => IInv'
  <2> SUFFICES ASSUME IInv, UNCHANGED vars
               PROVE  IInv'
    OBVIOUS
  <2>1. TypeOK'
    BY DEF vars, IInv, TypeOK
  <2>2. Shrinks /\ MisledInv'
    BY DEF vars, Shrinks, MisledInv, IInv, Entries, Exists
  <2>3. JobInv'
    BY DEF vars, IInv, JobInv, SlotOf, Entries, Exists
  <2> QED
    BY <2>1, <2>2, <2>3, ShrinkingKeeps DEF IInv
<1> QED
  BY <1>1, SyncKeeps, WorldKeeps, DownKeeps, BeginEntryKeeps, ClearingKeeps,
     SetFileDateKeeps, AppendKeeps DEF Next, LogEntry

LEMMA LogInvariant == Spec => []IInv
<1> QED
  BY InitIInv, StepIInv, PTL DEF Spec

----------------------------------------------------------------------------
\* The values of the log's state, among them that no file outgrows its slot.
THEOREM LogTypes == Spec => []TypeOK
<1>1. IInv => TypeOK
  BY DEF IInv
<1> QED
  BY <1>1, LogInvariant, PTL

\* No file mixes two periods, and the date the index has for a file is that of
\* every entry in it: logSensorData() clears a slot that comes round before its
\* new label is recorded and writes only under that label, whatever reboots,
\* clock settings and interrupted formats leave behind.  A line of the index
\* that a cut has joined of two (setFileDate()) undoes this for the file it
\* names, and for no other, until that file is cleared.
THEOREM LogIsTruthful == Spec => []LogTruthful
<1>1. IInv => LogTruthful
  BY DEF IInv, LogTruthful
<1> QED
  BY <1>1, LogInvariant, PTL

----------------------------------------------------------------------------
(* The data log implements the rolling log.                                *)

\* The entry on its way is one of the period it is now: the clock is read once
\* and does not move before the entry is written.  A file is cleared only while
\* the index does not give it that period.
NowInv ==
  /\ pc \in Busy => clock # 0 /\ job = Period(clock)
  /\ pc = "reset" => idx[job.slot] # job.label

RInv == IInv /\ NowInv

LEMMA NowStep == IInv /\ NowInv /\ [Next]_vars => NowInv'
<1> SUFFICES ASSUME IInv, NowInv, [Next]_vars
             PROVE  NowInv'
  OBVIOUS
<1>1. CASE BeginEntry
  <2>1. /\ job' = Period(clock) /\ clock # 0 /\ UNCHANGED <<clock, hourly, idx>>
        /\ pc' = "reset" => Stale(Period(clock))
    BY <1>1 DEF BeginEntry, Then, store
  <2>2. Period(clock)' = Period(clock)
    BY <2>1 DEF Period
  <2>3. pc' = "reset" => idx'[job'.slot] # job'.label
    BY <2>1 DEF Stale
  <2> QED
    BY <2>1, <2>2, <2>3 DEF NowInv
<1>2. CASE Recycle \/ ResetDayFile \/ SetFileDate \/ AppendLine \/ WrapToStart
  <2>1. /\ UNCHANGED <<clock, hourly, job>> /\ pc \in Busy
        /\ pc' = "reset" => pc = "reset" /\ idx' = idx
    BY <1>2 DEF Recycle, ResetDayFile, SetFileDate, AppendLine, WrapToStart, Then,
                Busy
  <2>2. Period(clock)' = Period(clock)
    BY <2>1 DEF Period
  <2> QED
    BY <2>1, <2>2 DEF NowInv
<1>3. CASE Boot \/ Sync \/ ClockMoves \/ SwitchPeriod \/ Down
  <2>1. pc' \notin Busy
    BY <1>3 DEF Boot, Sync, SyncSame, SyncAdopt, SyncWipe, StoreMode, ClockMoves,
                SwitchPeriod, Down, GoDown, GoDownInLabel, GoDownInFormat, Busy
  <2> QED
    BY <2>1 DEF NowInv, Busy
<1>4. CASE UNCHANGED vars
  <2>1. Period(clock)' = Period(clock)
    BY <1>4 DEF vars, Period
  <2> QED
    BY <1>4, <2>1 DEF vars, NowInv
<1> QED
  BY <1>1, <1>2, <1>3, <1>4 DEF Next, LogEntry

LEMMA InitRInv == Init => RInv
BY InitIInv DEF Init, RInv, NowInv, Busy

LEMMA StepRInv == RInv /\ [Next]_vars => RInv'
BY StepIInv, NowStep DEF RInv

LEMMA RollingInvariant == Spec => []RInv
BY InitRInv, StepRInv, PTL DEF Spec

----------------------------------------------------------------------------
(* What the mapping gives.                                                 *)

LEMMA FirstEntry ==
  ASSUME TypeOK, NEW n \in Names
  PROVE  /\ Held[n] \in Labels \cup {None}
         /\ Held[n] # None => Held[n] \in Entries(n)
<1>1. files[n] \in Files /\ Held[n] = IF files[n] = <<>> THEN None ELSE files[n][1]
  BY DEF TypeOK, Held
<1>2. CASE files[n] = NoFile
  BY <1>1, <1>2 DEF NoFile
<1>3. CASE files[n] # NoFile
  <2>1. PICK k \in 0..FileRoom : files[n] \in [1..k -> Labels]
    BY <1>1, <1>3 DEF Files
  <2>2. FileRoom \in Nat
    BY SlotsType
  <2>3. CASE k = 0
    <3>1. files[n] = <<>>
      BY <2>1, <2>3
    <3> QED
      BY <1>1, <3>1
  <2>4. CASE k # 0
    <3>1. 1 \in 1..k
      BY <2>2, <2>4
    <3>2. files[n][1] \in Labels /\ 1 \in DOMAIN files[n]
      BY <2>1, <3>1
    <3> QED
      BY <1>1, <1>3, <3>2 DEF Entries, Exists
  <2> QED
    BY <2>3, <2>4
<1> QED
  BY <1>2, <1>3

LEMMA MappedTypes ==
  ASSUME TypeOK
  PROVE  /\ Held \in [Names -> Labels \cup {None}]
         /\ Shown \in [Names -> Labels \cup {None}]
         /\ Now.slot \in Names /\ Now.label \in Labels \cup {None}
<1>1. Held \in [Names -> Labels \cup {None}]
  <2>1. Held = [n \in Names |-> Held[n]]
    BY DEF Held
  <2> QED
    BY <2>1, FirstEntry
<1>2. Shown \in [Names -> Labels \cup {None}]
  BY DEF Shown
<1>3. CASE clock = 0
  BY <1>1, <1>2, <1>3, SlotsType DEF Now, Names
<1>4. CASE clock # 0
  <2>1. Now = Period(clock) /\ clock \in 0..MaxHour /\ hourly \in BOOLEAN
    BY <1>4 DEF Now, TypeOK
  <2> QED
    BY <1>1, <1>2, <2>1, PeriodType
<1> QED
  BY <1>3, <1>4

\* What is seen of a file is its first entry, if it has one.
LEMMA FileSeen ==
  ASSUME NEW f \in Files
  PROVE  LET entries == IF f # NoFile THEN {f[k] : k \in DOMAIN f} ELSE {}
         IN  (IF f = <<>> THEN None ELSE f[1]) = None <=> entries = {}
<1>1. CASE f = NoFile
  BY <1>1 DEF NoFile
<1>2. CASE f = <<>>
  BY <1>2, EmptyFile
<1>3. CASE f # NoFile /\ f # <<>>
  <2>1. PICK k \in 0..FileRoom : f \in [1..k -> Labels]
    BY <1>3 DEF Files
  <2>2. FileRoom \in Nat /\ k # 0
    BY <1>3, <2>1, SlotsType
  <2>3. 1 \in DOMAIN f /\ f[1] \in Labels
    BY <2>1, <2>2
  <2> QED
    BY <1>3, <2>3, NoLabels
<1> QED
  BY <1>1, <1>2, <1>3

LEMMA EntriesAreSeen ==
  ASSUME TypeOK, NEW n \in Names
  PROVE  Held[n] = None <=> Entries(n) = {}
<1>1. files[n] \in Files
  BY DEF TypeOK
<1> QED
  BY <1>1, FileSeen DEF Held, Entries, Exists

\* A file that is cleared is not misled any more, and the others are as before.
LEMMA ClearedSeen ==
  ASSUME TypeOK, TypeOK', MisledInv', NEW gone \in SUBSET Names,
         misled' = misled \ gone, \A n \in gone : Held'[n] = None
  PROVE  Rolling!Cleared
<1>1. \A n \in misled' : Held'[n] # None
  <2> SUFFICES ASSUME NEW n \in misled'
               PROVE  Held'[n] # None
    OBVIOUS
  <2>1. n \in Names /\ files'[n] \in Files
    BY DEF TypeOK
  <2>2. (IF files'[n] # NoFile THEN {files'[n][k] : k \in DOMAIN files'[n]}
         ELSE {}) # {}
    BY DEF MisledInv, Entries, Exists
  <2>3. (IF files'[n] = <<>> THEN None ELSE files'[n][1]) # None
    BY <2>1, <2>2, FileSeen
  <2> QED
    BY <2>1, <2>3 DEF Held
<1> QED
  BY <1>1 DEF Rolling!Cleared

\* The file the entry goes to, seen from above.
LEMMA JobSeen ==
  ASSUME RInv, pc \in Busy
  PROVE  /\ Now = job /\ job.slot \in Names /\ job.label \in Labels
         /\ job.label # None
BY NoLabels DEF RInv, IInv, NowInv, JobInv, Now, TypeOK

LEMMA RollingInit == Init => Rolling!Init
<1> SUFFICES ASSUME Init
             PROVE  Rolling!Init
  OBVIOUS
<1>1. IInv
  BY InitIInv
<1>2. Rolling!TypeOK
  BY <1>1, MappedTypes DEF IInv, Rolling!TypeOK, Init
<1>3. Rolling!Truthful
  <2> SUFFICES ASSUME NEW n \in Names, Shown[n] # None
               PROVE  Held[n] \in {None, Shown[n]}
    BY DEF Rolling!Truthful
  <2>1. idx[n] \in Labels /\ Shown[n] = idx[n]
    BY DEF Shown
  <2>2. n \in Trusted
    BY DEF Init, Trusted
  <2> QED
    BY <1>1, <2>1, <2>2, FirstEntry DEF IInv, LabelTruthful
<1> QED
  BY <1>2, <1>3 DEF Rolling!Init

----------------------------------------------------------------------------
(* Every step is one of a rolling log.                                     *)

\* Steps that change neither what is stored nor what it is now.
LEMMA QuietMaps ==
  ASSUME UNCHANGED <<files, idx, marker, hourly, clock, misled>>
  PROVE  UNCHANGED Rolling!vars
<1>1. Held' = Held /\ Shown' = Shown
  BY DEF Held, Shown
<1>2. Now' = Now
  BY DEF Now, Period
<1>3. (marker # "none" /\ ~SameMode)' = (marker # "none" /\ ~SameMode)
  BY DEF SameMode, Mode
<1> QED
  BY <1>1, <1>2, <1>3 DEF Rolling!vars

\* Steps that change the clock, the configuration or the recorded mode.
LEMMA TurnMaps ==
  ASSUME TypeOK', UNCHANGED <<files, idx, misled>>
  PROVE  Rolling!Turn
<1>1. Held' = Held /\ Shown' = Shown
  BY DEF Held, Shown
<1>2. Now'.slot \in Names /\ Now'.label \in Labels \cup {None}
  <2>1. clock' \in 0..MaxHour /\ hourly' \in BOOLEAN /\ 0 \in Names
    BY SlotsType DEF TypeOK, Names
  <2>2. Now' = IF clock' = 0 THEN [slot |-> 0, label |-> None] ELSE Period(clock)'
    BY DEF Now
  <2>3. Period(clock)' \in [slot : Names, label : Labels]
    <3>1. clock' % HourSlots \in Names /\ DaySlot(DayOf(clock')) \in Names
          /\ DayOf(clock') \in 0..MaxHour
      BY <2>1, Arithmetic
    <3> QED
      BY <2>1, <3>1 DEF Period, Label, Labels
  <2> QED
    BY <2>1, <2>2, <2>3
<1> QED
  BY <1>1, <1>2 DEF Rolling!Turn

\* Steps that only take entries and dates away, and what the index says of the
\* kind of period.
LEMMA Fading ==
  ASSUME IInv, IInv',
         \A n \in Names : files'[n] \in {files[n], NoFile, <<>>},
         \A n \in Names : idx'[n] \in {idx[n], None, Torn}
  PROVE  /\ Held' \in [Names -> Labels \cup {None}] /\ Rolling!Fades(Held)
         /\ Shown' \in [Names -> Labels \cup {None}] /\ Rolling!Fades(Shown)
         /\ \A n \in Names : files'[n] \in {NoFile, <<>>} => Held'[n] = None
<1>1. /\ Held' = [n \in Names |-> IF files'[n] = <<>> THEN None ELSE files'[n][1]]
      /\ Shown' = [n \in Names |-> IF idx'[n] \in Labels THEN idx'[n] ELSE None]
  BY DEF Held, Shown
<1>2. \A n \in Names : Held'[n] \in {Held[n], None}
  BY <1>1 DEF Held, NoFile
<1>3. \A n \in Names : Shown'[n] \in {Shown[n], None}
  BY <1>1, NoLabels DEF Shown
<1>4. /\ Held \in [Names -> Labels \cup {None}]
      /\ Shown \in [Names -> Labels \cup {None}]
  BY MappedTypes DEF IInv
<1>5. /\ Held' \in [Names -> Labels \cup {None}]
      /\ Shown' \in [Names -> Labels \cup {None}]
  BY <1>1, <1>2, <1>3, <1>4
<1>6. \A n \in Names : files'[n] \in {NoFile, <<>>} => Held'[n] = None
  BY <1>1 DEF NoFile
<1> QED
  BY <1>2, <1>3, <1>5, <1>6 DEF Rolling!Fades

LEMMA SameNow ==
  ASSUME UNCHANGED <<hourly, clock>>
  PROVE  Now' = Now /\ Mode' = Mode
BY DEF Now, Period, Mode

LEMMA SyncMaps == RInv /\ RInv' /\ (Boot \/ Sync) => [Rolling!Next]_Rolling!vars
<1> SUFFICES ASSUME RInv, RInv', Boot \/ Sync
             PROVE  [Rolling!Next]_Rolling!vars
  OBVIOUS
<1>1. CASE Boot \/ SyncSame \/ SyncAdopt
  BY <1>1, QuietMaps DEF Boot, SyncSame, SyncAdopt, store
<1>2. CASE SyncWipe
  <2>1. /\ \A n \in Names : files'[n] \in {files[n], NoFile, <<>>}
        /\ \A n \in Names : idx'[n] \in {idx[n], None, Torn}
    BY <1>2 DEF SyncWipe
  <2>2. /\ Held' \in [Names -> Labels \cup {None}] /\ Rolling!Fades(Held)
        /\ Shown' \in [Names -> Labels \cup {None}] /\ Rolling!Fades(Shown)
    BY <2>1, Fading DEF RInv
  <2>3. Now' = Now /\ marker # "none" /\ ~SameMode
    BY <1>2, SameNow DEF SyncWipe
  <2>4. \A n \in Names : Held'[n] = None
    BY <1>2, <2>1, Fading DEF SyncWipe, RInv
  <2>5. Rolling!Cleared
    BY <1>2, <2>4, ClearedSeen DEF SyncWipe, Cleared, RInv, IInv
  <2> QED
    BY <2>2, <2>3, <2>5 DEF Rolling!Next, Rolling!Wipe
<1>3. CASE StoreMode
  BY <1>3, TurnMaps DEF StoreMode, Rolling!Next, RInv, IInv
<1> QED
  BY <1>1, <1>2, <1>3 DEF Sync

LEMMA WorldMaps ==
  RInv /\ RInv' /\ (ClockMoves \/ SwitchPeriod) => [Rolling!Next]_Rolling!vars
BY TurnMaps DEF ClockMoves, SwitchPeriod, store, Rolling!Next, RInv, IInv

LEMMA DownMaps == RInv /\ RInv' /\ Down => [Rolling!Next]_Rolling!vars
<1> SUFFICES ASSUME RInv, RInv', Down
             PROVE  [Rolling!Next]_Rolling!vars
  OBVIOUS
<1>1. CASE GoDown
  BY <1>1, QuietMaps DEF GoDown, store
<1>2. CASE GoDownInLabel
  <2>1. /\ files' = files /\ idx' \in TornRecords(job.slot)
        /\ UNCHANGED <<hourly, clock>> /\ pc \in Busy
        /\ misled' = misled \cup {n \in Names : /\ Entries(n) # {} /\ idx'[n] # idx[n]
                                               /\ idx'[n] \in Labels}
    BY <1>2 DEF GoDownInLabel, Busy
  <2>2. Held' = Held /\ Now' = Now
    BY <2>1, SameNow DEF Held
  <2>3. /\ job.slot \in Names
        /\ Shown' = [n \in Names |-> IF idx'[n] \in Labels THEN idx'[n] ELSE None]
        /\ Shown' \in [Names -> Labels \cup {None}]
    BY <2>1, JobSeen DEF Shown
  <2> DEFINE wrong == {n \in Names : Shown'[n] \notin {Shown[n], None}}
  <2>4. wrong = {n \in Names : idx'[n] # idx[n] /\ idx'[n] \in Labels}
    BY <2>3, NoLabels DEF Shown
  <2>5. PICK b \in Names : \A m \in Names \ {job.slot, b} : idx'[m] \in {idx[m], None}
    BY <2>1, <2>3, TornType DEF RInv, IInv
  <2>6. \E a, c \in Names : wrong \subseteq {a, c}
    <3>1. wrong \subseteq {job.slot, b}
      BY <2>4, <2>5, NoLabels
    <3> QED
      BY <2>3, <3>1
  <2>7. misled' = misled \cup {n \in wrong : Held[n] # None}
    <3>1. \A n \in Names : Held[n] # None <=> Entries(n) # {}
      BY EntriesAreSeen DEF RInv, IInv
    <3> HIDE DEF wrong
    <3> QED
      BY <2>1, <2>4, <3>1
  <2>8. (marker # "none" /\ ~SameMode)' \in BOOLEAN
    OBVIOUS
  <2> QED
    BY <2>2, <2>3, <2>6, <2>7, <2>8 DEF Rolling!Next, Rolling!Spoil
<1>4. CASE GoDownInFormat
  <2>1. /\ \A n \in Names : files'[n] \in {files[n], NoFile, <<>>}
        /\ \A n \in Names : idx'[n] \in {idx[n], None, Torn}
    BY <1>4 DEF GoDownInFormat
  <2>2. /\ Held' \in [Names -> Labels \cup {None}] /\ Rolling!Fades(Held)
        /\ Shown' \in [Names -> Labels \cup {None}] /\ Rolling!Fades(Shown)
    BY <2>1, Fading DEF RInv
  <2>3. Now' = Now /\ marker # "none" /\ ~SameMode
    BY <1>4, SameNow DEF GoDownInFormat
  <2>4. PICK gone \in SUBSET Stored :
          /\ files' = [n \in Names |-> IF n \in gone THEN NoFile ELSE files[n]]
          /\ misled' = misled \ gone
    BY <1>4 DEF GoDownInFormat
  <2>5. gone \in SUBSET Names /\ \A n \in gone : Held'[n] = None
    BY <2>1, <2>4, Fading DEF Stored, RInv
  <2>6. Rolling!Cleared
    BY <2>4, <2>5, ClearedSeen DEF RInv, IInv
  <2> QED
    BY <2>2, <2>3, <2>6 DEF Rolling!Next, Rolling!Wipe
<1> QED
  BY <1>1, <1>2, <1>4 DEF Down

\* Recycling and clearing spare the file of the period it is now.
LEMMA ClearingMaps ==
  RInv /\ RInv' /\ (Recycle \/ ResetDayFile) => [Rolling!Next]_Rolling!vars
<1> SUFFICES ASSUME RInv, RInv', Recycle \/ ResetDayFile
             PROVE  [Rolling!Next]_Rolling!vars
  OBVIOUS
<1>1. pc \in Busy /\ UNCHANGED <<idx, marker, hourly, clock, job>>
  BY DEF Recycle, ResetDayFile, Busy
<1>2. Now = job /\ job.slot \in Names /\ job.label # None
  BY <1>1, JobSeen
<1>3. Shown' = Shown /\ Now' = Now
  BY <1>1, SameNow DEF Shown
<1>4. (marker # "none" /\ ~SameMode)' = (marker # "none" /\ ~SameMode)
  BY <1>1 DEF SameMode, Mode
<1>5. \A n \in Names : idx'[n] \in {idx[n], None, Torn}
  BY <1>1
<1>6. CASE Recycle
  <2>1. PICK name \in Stored : /\ files' = [files EXCEPT ![name] = NoFile]
                               /\ misled' = misled \ {name}
    BY <1>6 DEF Recycle, Oldest, Cleared
  <2>2. job.slot \notin Stored
    BY <1>6 DEF Recycle, HasRoom, Stored
  <2>3. \A n \in Names : files'[n] \in {files[n], NoFile, <<>>}
    BY <2>1 DEF RInv, IInv, TypeOK
  <2>4. Held' \in [Names -> Labels \cup {None}] /\ Rolling!Fades(Held)
    BY <1>5, <2>3, Fading DEF RInv
  <2>5. Held[job.slot] = None
    BY <1>2, <2>2 DEF Held, Stored, Exists, NoFile
  <2>6. name \in Names /\ Held'[name] = None
    BY <1>5, <2>1, <2>3, Fading DEF Stored, RInv, IInv, TypeOK
  <2>7. {name} \in SUBSET Names /\ \A n \in {name} : Held'[n] = None
    BY <2>6
  <2>8. Rolling!Cleared
    BY <2>1, <2>7, ClearedSeen DEF RInv, IInv
  <2> QED
    BY <1>2, <1>3, <1>4, <2>4, <2>5, <2>8
       DEF Rolling!Next, Rolling!Recycle, Rolling!Kept
<1>7. CASE ResetDayFile
  <2>1. files' = [files EXCEPT ![job.slot] = <<>>] /\ idx[job.slot] # job.label
    BY <1>7 DEF ResetDayFile, RInv, NowInv
  <2>2. \A n \in Names : files'[n] \in {files[n], NoFile, <<>>}
    BY <2>1 DEF RInv, IInv, TypeOK
  <2>3. Held' \in [Names -> Labels \cup {None}] /\ Rolling!Fades(Held)
    BY <1>5, <2>2, Fading DEF RInv
  <2>4. Shown[job.slot] # job.label
    BY <1>2, <2>1 DEF Shown
  <2>5. Held'[job.slot] = None /\ misled' = misled \ {job.slot}
    BY <1>2, <1>5, <1>7, <2>1, <2>2, Fading
       DEF ResetDayFile, Cleared, RInv, IInv, TypeOK
  <2>6. /\ {job.slot} \in SUBSET Names
        /\ \A n \in {job.slot} : Held'[n] = None
    BY <1>2, <2>5
  <2>7. Rolling!Cleared
    BY <2>5, <2>6, ClearedSeen DEF RInv, IInv
  <2> QED
    BY <1>2, <1>3, <1>4, <2>3, <2>4, <2>7
       DEF Rolling!Next, Rolling!Recycle, Rolling!Kept
<1> QED
  BY <1>6, <1>7

\* A file gets its date while it is empty, or the index has no room for it.
LEMMA DatingMaps == RInv /\ RInv' /\ SetFileDate => [Rolling!Next]_Rolling!vars
<1> SUFFICES ASSUME RInv, RInv', SetFileDate
             PROVE  [Rolling!Next]_Rolling!vars
  OBVIOUS
<1>1. /\ pc \in Busy /\ UNCHANGED <<files, marker, hourly, clock, misled>>
      /\ idx' = Recorded(job.slot, job.label) /\ Entries(job.slot) = {}
  BY DEF SetFileDate, Busy, RInv, IInv, JobInv
<1>2. Now = job /\ job.slot \in Names /\ job.label \in Labels
  BY <1>1, JobSeen
<1>3. Held' = Held /\ Now' = Now /\ Mode' = Mode
  BY <1>1, SameNow DEF Held
<1>4. (marker # "none" /\ ~SameMode)' = (marker # "none" /\ ~SameMode)
  BY <1>1, <1>3 DEF SameMode
<1>5. Held[job.slot] = None
  BY <1>1, <1>2, EntriesAreSeen DEF RInv, IInv
<1>6. idx \in [Names -> Labels \cup {None, Torn}]
  BY DEF RInv, IInv, TypeOK
<1>7. CASE idx' = [idx EXCEPT ![job.slot] = job.label]
  <2>1. Shown' = [Shown EXCEPT ![job.slot] = job.label]
    BY <1>2, <1>6, <1>7 DEF Shown
  <2> QED
    BY <1>1, <1>2, <1>3, <1>4, <1>5, <2>1, NoLabels DEF Rolling!Next, Rolling!Show
<1>8. CASE idx' = [idx EXCEPT ![job.slot] = None]
  <2>1. /\ \A n \in Names : files'[n] \in {files[n], NoFile, <<>>}
        /\ \A n \in Names : idx'[n] \in {idx[n], None, Torn}
    BY <1>1, <1>6, <1>8
  <2>2. Shown' \in [Names -> Labels \cup {None}] /\ Rolling!Fades(Shown)
    BY <2>1, Fading DEF RInv
  <2> QED
    BY <1>1, <1>3, <1>4, <2>2 DEF Rolling!Next, Rolling!LoseDates
<1> QED
  BY <1>1, <1>7, <1>8 DEF Recorded

\* An entry goes to the file of its period, which holds no other.
LEMMA WritingMaps ==
  ASSUME RInv, pc \in {"append", "wrap"}, NEW f \in Files, f # <<>>,
         f[1] = job.label, files' = [files EXCEPT ![job.slot] = f],
         UNCHANGED <<idx, marker, hourly, clock, misled>>
  PROVE  Rolling!Log
<1>1. Now = job /\ job.slot \in Names /\ job.label \in Labels /\ job.label # None
  BY JobSeen DEF Busy
<1>2. /\ job.slot \notin misled => Entries(job.slot) \subseteq {job.label}
      /\ idx[job.slot] \in Labels => idx[job.slot] = job.label
  BY <1>1 DEF RInv, IInv, CacheInv, JobInv, Busy
<1>3. /\ job.slot \notin misled => Held[job.slot] \in {None, job.label}
      /\ Shown[job.slot] \in {None, job.label}
  BY <1>1, <1>2, FirstEntry DEF RInv, IInv, Shown
<1>4. Shown' = Shown /\ Now' = Now /\ Mode' = Mode
  BY SameNow DEF Shown
<1>5. (marker # "none" /\ ~SameMode)' = (marker # "none" /\ ~SameMode)
  BY <1>4 DEF SameMode
<1>6. Held' = [Held EXCEPT ![job.slot] = job.label]
  <2>1. files \in [Names -> Files]
    BY DEF RInv, IInv, TypeOK
  <2> QED
    BY <1>1, <2>1 DEF Held
<1> QED
  BY <1>1, <1>3, <1>4, <1>5, <1>6 DEF Rolling!Log

\* An entry after others is not seen.
LEMMA AddingMaps ==
  ASSUME RInv, NEW f \in Files, f # <<>>, files[job.slot] # <<>>,
         f[1] = files[job.slot][1], files' = [files EXCEPT ![job.slot] = f],
         UNCHANGED <<idx, marker, hourly, clock, misled>>
  PROVE  UNCHANGED Rolling!vars
<1>1. Held' = Held /\ Shown' = Shown
  BY DEF Held, Shown, RInv, IInv, TypeOK
<1>2. Now' = Now
  BY DEF Now, Period
<1>3. (marker # "none" /\ ~SameMode)' = (marker # "none" /\ ~SameMode)
  BY DEF SameMode, Mode
<1> QED
  BY <1>1, <1>2, <1>3 DEF Rolling!vars

LEMMA AppendMaps ==
  RInv /\ RInv' /\ (AppendLine \/ WrapToStart) => [Rolling!Next]_Rolling!vars
<1> SUFFICES ASSUME RInv, RInv', AppendLine \/ WrapToStart
             PROVE  [Rolling!Next]_Rolling!vars
  OBVIOUS
<1>1. pc \in {"append", "wrap"} /\ pc \in Busy
  BY DEF AppendLine, WrapToStart, Busy
<1>2. job.slot \in Names /\ job.label \in Labels /\ FileRoom \in Nat
  BY <1>1, JobSeen, SlotsType
<1>3. CASE AppendLine /\ ~Full
  <2>1. Text \in Seq(Labels) /\ Len(Text) < FileRoom /\ Len(Text) \in Nat
    BY <1>2, <1>3, TextType DEF Full, RInv, IInv
  <2>2. Append(Text, job.label) \in Files
    BY <1>2, <2>1, AppendedFile
  <2>3. /\ Append(Text, job.label)[Len(Text) + 1] = job.label
        /\ \A k \in 1..Len(Text) : Append(Text, job.label)[k] = Text[k]
        /\ Len(Append(Text, job.label)) = Len(Text) + 1
    BY <1>2, <2>1, AppendProperties
  <2>4. Append(Text, job.label) # <<>>
    <3>1. Len(<<>>) = 0 /\ Len(Append(Text, job.label)) # 0
      BY <2>1, <2>3
    <3> QED
      BY <3>1
  <2>5. /\ files' = [files EXCEPT ![job.slot] = Append(Text, job.label)]
        /\ UNCHANGED <<idx, marker, hourly, clock, misled>>
    BY <1>3 DEF AppendLine
  <2>6. CASE Len(Text) = 0
    <3>1. Append(Text, job.label)[1] = job.label
      BY <2>3, <2>6
    <3>2. Rolling!Log
      BY <1>1, <2>2, <2>4, <2>5, <3>1, WritingMaps
    <3> QED
      BY <3>2 DEF Rolling!Next
  <2>7. CASE Len(Text) # 0
    <3>1. 1 \in 1..Len(Text)
      BY <2>1, <2>7
    <3>2. Len(<<>>) = 0
      OBVIOUS
    <3>3. Text = files[job.slot] /\ Text # <<>>
      BY <2>7, <3>2 DEF Text
    <3>4. Append(Text, job.label)[1] = files[job.slot][1]
      BY <2>3, <3>1, <3>3
    <3>5. UNCHANGED Rolling!vars
      BY <2>2, <2>4, <2>5, <3>3, <3>4, AddingMaps
    <3> QED
      BY <3>5
  <2> QED
    BY <2>6, <2>7
<1>4. CASE AppendLine /\ Full
  BY <1>4, QuietMaps DEF AppendLine
<1>5. CASE WrapToStart
  <2>1. <<job.label>> \in Files /\ <<job.label>> # <<>> /\ <<job.label>>[1] = job.label
    BY <1>2, StartedFile
  <2>2. Rolling!Log
    BY <1>1, <1>5, <2>1, WritingMaps DEF WrapToStart
  <2> QED
    BY <2>2 DEF Rolling!Next
<1> QED
  BY <1>3, <1>4, <1>5

LEMMA StepMaps == RInv /\ RInv' /\ [Next]_vars => [Rolling!Next]_Rolling!vars
<1>1. BeginEntry => UNCHANGED Rolling!vars
  BY QuietMaps DEF BeginEntry, store
<1>2. UNCHANGED vars => UNCHANGED Rolling!vars
  BY QuietMaps DEF vars
<1> QED
  BY <1>1, <1>2, SyncMaps, WorldMaps, DownMaps, ClearingMaps, DatingMaps, AppendMaps
     DEF Next, LogEntry

----------------------------------------------------------------------------
\* The data log implements the rolling log: an entry only ever goes to the file
\* of its period, a date is given before the first entry, and a file forgets the
\* period it is now in only if no date vouches for it or the mode has changed;
\* through logSensorData(), syncDataLogMode() and a power cut in any of them,
\* which makes up the dates of two files at most.
THEOREM ImplementsRollingLog == Spec => KeepsRollingLog
<1>1. RInv /\ [Next]_vars => [Rolling!Next]_Rolling!vars
  BY StepRInv, StepMaps
<1> QED
  BY <1>1, RollingInit, RollingInvariant, PTL DEF Spec, KeepsRollingLog, Rolling!Spec
----------------------------------------------------------------------------
(* With room in the index, the file being written is kept.                 *)

\* The index has a line for every name and one for the mode.
IndexHasRoom == IndexRoom > Cardinality(Names)

\* A file with entries has its date in the index unless a power cut spoiled it,
\* and so has the file of this session, spoiled or not.
DatedInv ==
  /\ \A n \in Names \ damaged : \A l \in Entries(n) : idx[n] = l
  /\ cache # None => idx[SlotOf(cache)] = cache
  /\ pc \in {"off", "sync", "adopt"} => cache = None

KInv == RInv /\ DatedInv

\* Dating a file never runs into the end of the index.
LEMMA RoomForDate ==
  ASSUME IndexHasRoom, TypeOK, NEW n \in Names, NEW l
  PROVE  Recorded(n, l) = [idx EXCEPT ![n] = l]
<1> DEFINE others == Dated \ {n}
<1>1. IsFiniteSet(Names) /\ Cardinality(Names) \in Nat /\ IndexRoom \in Nat
  <2>1. /\ IsFiniteSet(0..(HourSlots - 1)) /\ IsFiniteSet(1..DaySlots)
        /\ IndexRoom \in Nat
    BY FS_Interval, SlotsType
  <2>2. IsFiniteSet(Names)
    BY <2>1, FS_Union DEF Names
  <2> QED
    BY <2>1, <2>2, FS_CardinalityType
<1>2. others \in SUBSET Names
  BY DEF Dated
<1>3. Cardinality(others) \in Nat /\ Cardinality(others) < Cardinality(Names)
  <2>1. IsFiniteSet(others) /\ Cardinality(others) <= Cardinality(Names)
        /\ (Cardinality(Names) = Cardinality(others) => Names = others)
    BY <1>1, <1>2, FS_Subset
  <2>2. Names # others
    OBVIOUS
  <2>3. Cardinality(others) \in Nat
    BY <2>1, FS_CardinalityType
  <2> QED
    BY <1>1, <2>1, <2>2, <2>3
<1>4. Cardinality(others) + (IF marker = "none" THEN 0 ELSE 1) < IndexRoom
  BY <1>1, <1>3 DEF IndexHasRoom
<1> QED
  BY <1>4 DEF Recorded

\* Steps that leave files and dates alone and start no session.
LEMMA QuietDates ==
  ASSUME DatedInv, UNCHANGED <<files, idx, damaged>>, cache' \in {cache, None},
         pc' \in {"off", "sync", "adopt"} => cache' = None
  PROVE  DatedInv'
BY DEF DatedInv, Entries, Exists, SlotOf

LEMMA SyncDates == IInv /\ DatedInv /\ (Boot \/ Sync) => DatedInv'
<1> SUFFICES ASSUME IInv, DatedInv, Boot \/ Sync
             PROVE  DatedInv'
  OBVIOUS
<1>1. pc \in {"off", "sync", "adopt"} /\ cache = None /\ cache' = None
  BY DEF Boot, Sync, SyncSame, SyncAdopt, SyncWipe, StoreMode, DatedInv
<1>2. CASE Boot \/ SyncSame \/ SyncAdopt \/ StoreMode
  BY <1>1, <1>2, QuietDates DEF Boot, SyncSame, SyncAdopt, StoreMode, store
<1>3. CASE SyncWipe
  BY <1>1, <1>3 DEF SyncWipe, DatedInv, Entries, Exists
<1> QED
  BY <1>2, <1>3 DEF Sync

\* Going down ends the session; a line it spoils is on record.
LEMMA DownDates == IInv /\ DatedInv /\ Down => DatedInv'
<1> SUFFICES ASSUME IInv, DatedInv, Down
             PROVE  DatedInv'
  OBVIOUS
<1>1. cache' = None
  BY DEF Down, GoDown, GoDownInLabel, GoDownInFormat, Forget
<1>2. CASE GoDown
  BY <1>1, <1>2, QuietDates DEF GoDown, store
<1>3. CASE GoDownInLabel
  <2>1. /\ \A n \in Names \ damaged' :
              n \notin damaged /\ (Entries(n) = {} \/ idx'[n] = idx[n])
        /\ files' = files
    BY <1>3 DEF GoDownInLabel
  <2> QED
    BY <1>1, <2>1 DEF DatedInv, Entries, Exists
<1>4. CASE GoDownInFormat
  <2>1. PICK gone \in SUBSET Stored :
          /\ files' = [n \in Names |-> IF n \in gone THEN NoFile ELSE files[n]]
          /\ damaged' = {n \in Names \ gone : Entries(n) # {}}
    BY <1>4 DEF GoDownInFormat
  <2>2. \A n \in Names \ damaged' : Entries(n)' = {}
    BY <2>1 DEF Entries, Exists
  <2> QED
    BY <1>1, <2>2 DEF DatedInv
<1> QED
  BY <1>2, <1>3, <1>4 DEF Down

\* A session starts on a label the index has.
LEMMA BeginDates == IInv /\ DatedInv /\ BeginEntry => DatedInv'
<1> SUFFICES ASSUME IInv, DatedInv, BeginEntry
             PROVE  DatedInv'
  OBVIOUS
<1> DEFINE p == Period(clock)
<1>1. p.label \in Labels /\ p.slot = SlotOf(p.label)
  BY PeriodType DEF IInv, TypeOK
<1>2. UNCHANGED <<files, idx, damaged>> /\ pc' \in {"reset", "append"}
  BY DEF BeginEntry, Then, store
<1>3. CASE ~Cached(p) /\ Stale(p)
  BY <1>2, <1>3, QuietDates DEF BeginEntry
<1>4. CASE ~(~Cached(p) /\ Stale(p))
  <2>1. cache' = p.label
    BY <1>4 DEF BeginEntry
  <2>2. idx[p.slot] = p.label
    BY <1>1, <1>4, NoLabels DEF Cached, Stale, DatedInv
  <2>3. idx'[SlotOf(cache')] = cache'
    BY <1>1, <1>2, <2>1, <2>2
  <2> QED
    BY <1>2, <2>3 DEF DatedInv, Entries, Exists, SlotOf
<1> QED
  BY <1>3, <1>4

\* Recycling and clearing leave the dates.
LEMMA ClearingDates == IInv /\ DatedInv /\ (Recycle \/ ResetDayFile) => DatedInv'
<1> SUFFICES ASSUME IInv, DatedInv, Recycle \/ ResetDayFile
             PROVE  DatedInv'
  OBVIOUS
<1>1. PICK s \in Names, f \in {NoFile, <<>>} :
        files' = [files EXCEPT ![s] = f] /\ damaged' = damaged \ {s}
  BY DEF Recycle, ResetDayFile, Oldest, Stored, Cleared, IInv, TypeOK
<1>2. \A n \in Names : /\ Entries(n)' \subseteq Entries(n)
                       /\ n = s => Entries(n)' = {}
  <2>1. \A n \in Names : n # s => files'[n] = files[n]
    BY <1>1 DEF IInv, TypeOK
  <2>2. files'[s] = f
    BY <1>1 DEF IInv, TypeOK
  <2> QED
    BY <1>1, <2>1, <2>2, EmptyFile DEF Entries, Exists
<1>3. UNCHANGED <<idx, cache>> /\ pc' \notin {"off", "sync", "adopt"}
  BY DEF Recycle, ResetDayFile, Then
<1> QED
  BY <1>1, <1>2, <1>3 DEF DatedInv, SlotOf

LEMMA DatingDates == IndexHasRoom /\ IInv /\ DatedInv /\ SetFileDate => DatedInv'
<1> SUFFICES ASSUME IndexHasRoom, IInv, DatedInv, SetFileDate
             PROVE  DatedInv'
  OBVIOUS
<1>1. /\ job.slot \in Names /\ job.label \in Labels
      /\ job.slot = SlotOf(job.label) /\ Entries(job.slot) = {}
  BY DEF SetFileDate, IInv, TypeOK, JobInv, Busy
<1>2. /\ idx' = [idx EXCEPT ![job.slot] = job.label] /\ files' = files
      /\ damaged' = damaged /\ cache' = job.label /\ pc' = "append"
  BY <1>1, RoomForDate DEF SetFileDate, Then, IInv
<1>3. /\ idx'[job.slot] = job.label
      /\ \A n \in Names \ {job.slot} : idx'[n] = idx[n]
  BY <1>1, <1>2 DEF IInv, TypeOK
<1>4. \A n \in Names : Entries(n)' = Entries(n)
  BY <1>2 DEF Entries, Exists
<1>5. \A n \in Names \ damaged' : \A l \in Entries(n)' : idx'[n] = l
  BY <1>1, <1>2, <1>3, <1>4 DEF DatedInv
<1>6. SlotOf(cache') = job.slot
  BY <1>1, <1>2
<1> QED
  BY <1>2, <1>3, <1>5, <1>6 DEF DatedInv, SlotOf

\* An entry is written to a file dated with its label.
LEMMA WritingDates == IInv /\ DatedInv /\ (AppendLine \/ WrapToStart) => DatedInv'
<1> SUFFICES ASSUME IInv, DatedInv, AppendLine \/ WrapToStart
             PROVE  DatedInv'
  OBVIOUS
<1>1. /\ job.slot \in Names /\ job.label \in Labels /\ cache = job.label
      /\ idx[job.slot] = job.label
  BY NoLabels DEF AppendLine, WrapToStart, IInv, TypeOK, JobInv, Busy, DatedInv
<1>2. UNCHANGED <<idx, cache, damaged>> /\ pc' \in {"run", "wrap"}
  BY DEF AppendLine, WrapToStart
<1>3. \A n \in Names : Entries(n)' \subseteq Entries(n) \cup {idx[n]}
  <2>1. CASE AppendLine /\ ~Full
    <3>1. Text \in Seq(Labels) /\ Len(Text) < FileRoom
      BY <2>1, TextType, SlotsType DEF Full, IInv
    <3>2. /\ Append(Text, job.label) # NoFile
          /\ {Append(Text, job.label)[k] : k \in DOMAIN Append(Text, job.label)}
               = Entries(job.slot) \cup {job.label}
      BY <1>1, <3>1, AppendedFile, TextType DEF IInv
    <3>3. /\ files'[job.slot] = Append(Text, job.label)
          /\ \A n \in Names : n # job.slot => files'[n] = files[n]
      BY <1>1, <2>1 DEF AppendLine, IInv, TypeOK
    <3> QED
      BY <1>1, <3>2, <3>3 DEF Entries, Exists
  <2>2. CASE AppendLine /\ Full
    BY <2>2 DEF AppendLine, Entries, Exists
  <2>3. CASE WrapToStart
    <3>1. /\ files'[job.slot] = <<job.label>>
          /\ \A n \in Names : n # job.slot => files'[n] = files[n]
      BY <1>1, <2>3 DEF WrapToStart, IInv, TypeOK
    <3> QED
      BY <1>1, <3>1, StartedFile DEF Entries, Exists
  <2> QED
    BY <2>1, <2>2, <2>3
<1> QED
  BY <1>2, <1>3 DEF DatedInv, SlotOf

LEMMA StepDates == IndexHasRoom /\ IInv /\ DatedInv /\ [Next]_vars => DatedInv'
<1>1. DatedInv /\ (ClockMoves \/ SwitchPeriod \/ UNCHANGED vars) => DatedInv'
  BY QuietDates DEF ClockMoves, SwitchPeriod, vars, store, DatedInv
<1> QED
  BY <1>1, SyncDates, DownDates, BeginDates, ClearingDates, DatingDates,
     WritingDates DEF Next, LogEntry

LEMMA InitDates == Init => DatedInv
<1> SUFFICES ASSUME Init, NEW n \in Names, Entries(n) # {}
             PROVE  \A l \in Entries(n) : idx[n] = l
  BY DEF Init, DatedInv
<1>1. PICK l : files[n] = <<l>> /\ idx[n] = l
  BY DEF Init, Entries, Exists
<1> QED
  BY <1>1 DEF Entries

\* What is written under the period it is now survives the step: recycling takes
\* another file, clearing a file of another date, and a wrap writes that label.
LEMMA StepKeepsToday ==
  ASSUME KInv, KInv', [Next]_vars, NEW name \in Names, NEW label \in Entries(name),
         clock # 0, Period(clock) = [slot |-> name, label |-> label],
         ~(pc = "sync" /\ ~SameMode), name \notin damaged
  PROVE  label \in Entries(name)'
<1>1. idx[name] = label /\ Exists(name)
  BY DEF KInv, DatedInv, Entries
<1>2. pc \in Busy => job.slot = name /\ job.label = label
  BY DEF KInv, RInv, NowInv
<1>3. CASE files' = files
  BY <1>3 DEF Entries, Exists
<1>4. CASE SyncWipe \/ GoDownInFormat
  BY <1>4 DEF SyncWipe, GoDownInFormat
<1>5. CASE Recycle
  <2>1. PICK s \in Stored : files' = [files EXCEPT ![s] = NoFile]
    BY <1>5 DEF Recycle, Oldest
  <2>2. s # name
    BY <1>1, <1>2, <1>5 DEF Recycle, HasRoom, Busy
  <2> QED
    BY <2>1, <2>2, OneFileWritten DEF KInv, RInv, IInv, Stored
<1>6. CASE ResetDayFile
  BY <1>1, <1>2, <1>6 DEF ResetDayFile, KInv, RInv, NowInv, Busy
<1>7. CASE AppendLine /\ ~Full
  <2>1. Text \in Seq(Labels) /\ Len(Text) < FileRoom /\ job.label \in Labels
    BY <1>7, TextType, SlotsType
       DEF AppendLine, Full, KInv, RInv, IInv, JobInv, Busy
  <2>2. /\ Append(Text, job.label) # NoFile
        /\ job.label \in {Append(Text, job.label)[k] :
                            k \in DOMAIN Append(Text, job.label)}
    BY <2>1, AppendedFile
  <2>3. job.slot = name /\ job.label = label
    BY <1>2, <1>7 DEF AppendLine, Busy
  <2>4. files'[name] = Append(Text, job.label)
    BY <1>7, <2>3 DEF AppendLine, KInv, RInv, IInv, TypeOK
  <2> QED
    BY <2>2, <2>3, <2>4 DEF Entries, Exists
<1>8. CASE WrapToStart
  <2>1. job.slot = name /\ job.label = label /\ label \in Labels
    BY <1>2, <1>8 DEF WrapToStart, Busy, KInv, RInv, IInv, JobInv
  <2>2. files'[name] = <<label>>
    BY <1>8, <2>1 DEF WrapToStart, KInv, RInv, IInv, TypeOK
  <2> QED
    BY <2>1, <2>2, StartedFile DEF Entries, Exists
<1> QED
  BY <1>3, <1>4, <1>5, <1>6, <1>7, <1>8
     DEF Next, Boot, Sync, SyncSame, SyncAdopt, StoreMode, LogEntry, BeginEntry,
         SetFileDate, AppendLine, ClockMoves, SwitchPeriod, Down, GoDown,
         GoDownInLabel, store, vars

\* On a chip whose index holds a line for every name: a period that has entries
\* keeps some until it is over or the kind of period changes, through recycling,
\* reboots and torn writes, unless a power cut spoiled the line of its file.
\* A smaller index loses them (run index_full).
THEOREM TodayIsKept ==
  ASSUME IndexHasRoom
  PROVE  Spec => TodayKept
<1>1. Init => KInv
  BY InitRInv, InitDates DEF KInv
<1>2. KInv /\ [Next]_vars => KInv'
  BY StepRInv, StepDates DEF KInv, RInv
<1>3. KInv /\ KInv' /\ [Next]_vars =>
        [\A name \in Names : \A label \in Entries(name) :
           /\ clock # 0 /\ Period(clock) = [slot |-> name, label |-> label]
           /\ ~(pc = "sync" /\ ~SameMode)
           /\ name \notin damaged
           => label \in Entries(name)']_vars
  BY StepKeepsToday
<1> QED
  BY <1>1, <1>2, <1>3, PTL DEF Spec, TodayKept
=============================================================================
