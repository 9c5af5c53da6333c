-------------------------- MODULE EepromMountProofs --------------------------
(***************************************************************************)
(* What a mount and a factory reset do to the data log, for every sequence *)
(* of mounts, resets, power cuts and bus failures.                         *)
(***************************************************************************)
EXTENDS EepromMount, TLAPS

----------------------------------------------------------------------------
(* The inductive invariant.                                                *)

FormatPlaces == {"format", "flush", "clear", "clearRest"}

\* From here on a task is bound to erase, or has erased.
Formatting == pc \in FormatPlaces \/ pass = "after"

\* Where a task is, and when it knows the capacity of the chip.
PlaceInv ==
  /\ task = "none" <=> pc = "idle"
  /\ pc \in {"read", "mark", "verify"} => esize = 0
  /\ pc \in {"restore", "header", "stamp"} \cup FormatPlaces => esize # 0
  /\ pass = "after" => pc \in {"idle", "header", "verdict", "stamp"}
  /\ pass = "after" /\ pc = "verdict" => esize # 0
  /\ pc = "stamp" /\ pass # "after" => task = "mount"

\* A page from another place is a transaction that failed.
StrayInv == clean => ~misread

\* A mount leaves the chip as it found it until it formats, and it formats a
\* healthy one only when it has taken it for another size or another page for
\* its header.  But for that, and without an error, the verdict is on the header
\* the chip really has.
MountInv ==
  task = "mount" =>
    IF Formatting
    THEN ~(Healthy(held) /\ esize = size /\ ~misread)
    ELSE /\ chip = held
         /\ page.here /\ ~misread => page = HeaderPage
         /\ pc = "verdict" /\ ~ferror =>
              page.here /\ slots = page.formatted /\ esize # 0

\* What the size probe has saved and not yet written back.
Kept(k) == saved[k] = LogByte[Cell(k)]
Restored(k) == cells[Cell(k)] = LogByte[Cell(k)]

\* After the marks of the probes up to n, a cell shows the last that hit it.
Marked(k, n) == cells[Cell(k)] = IF k < size THEN Mark[k] ELSE Mark[n]

\* The size probe of a mount on a working bus.
ProbeInv ==
  task = "mount" /\ clean =>
    /\ ~ferror
    /\ pc = "read" => /\ cells = LogByte
                      /\ \A k \in Sizes : k < i => Kept(k)
    /\ pc = "mark" => /\ \A k \in Sizes : Kept(k)
                      /\ \A k \in Sizes : k < i => Marked(k, i - 1)
    /\ pc = "verify" => /\ i \in {1, 2} /\ i <= size
                        /\ \A k \in Sizes : Kept(k) /\ Marked(k, 3)
    /\ pc = "restore" => /\ esize = size
                         /\ \A k \in Sizes : IF k < i THEN Restored(k) ELSE Kept(k)
    /\ pc \in {"header", "verdict", "stamp"} \cup FormatPlaces =>
         esize = size /\ \A k \in Sizes : Restored(k)

\* A format on a working bus, as far as it has come.
FormatInv ==
  task # "none" /\ clean =>
    /\ alive
    /\ pc \in {"clear", "clearRest"} => chip.formatted /\ chip.mark = 0
    /\ pc = "verdict" => esize # 0
    /\ pc = "flush" => page.here
    /\ pc = "clearRest" => page = NoPage
    /\ pass = "after" => chip = [formatted |-> TRUE, mark |-> 0, log |-> "empty"]
    /\ pass = "after" /\ pc = "header" => page = NoPage
    /\ pass = "after" /\ pc = "verdict" => slots
    /\ pass = "after" /\ pc \in {"verdict", "stamp"} => page = HeaderPage
    /\ pc = "stamp" => mounted /\ page = HeaderPage /\ chip.formatted

MountProofInv ==
  TypeOK /\ PlaceInv /\ StrayInv /\ MountInv /\ ProbeInv /\ FormatInv

----------------------------------------------------------------------------
(* Lemmas about the operators.                                             *)

\* A probe beyond the end of the chip lands on its last cell.
LEMMA CellIs ==
  ASSUME NEW k \in Sizes, size \in Sizes
  PROVE  Cell(k) = IF k < size THEN k ELSE size
<1>1. CASE k < size
  <2>1. k \in {k, size} /\ \A y \in {k, size} : k =< y
    BY <1>1 DEF Sizes
  <2>2. \A x \in {k, size} : (\A y \in {k, size} : x =< y) => x = k
    BY <1>1 DEF Sizes
  <2>3. Min({k, size}) = k
    BY <2>1, <2>2 DEF Min
  <2> QED BY <1>1, <2>3 DEF Cell
<1>2. CASE ~(k < size)
  <2>1. size \in {k, size} /\ \A y \in {k, size} : size =< y
    BY <1>2 DEF Sizes
  <2>2. \A x \in {k, size} : (\A y \in {k, size} : x =< y) => x = size
    BY <1>2 DEF Sizes
  <2>3. Min({k, size}) = size
    BY <2>1, <2>2 DEF Min
  <2> QED BY <1>2, <2>3 DEF Cell
<1> QED BY <1>1, <1>2

\* The marks differ from each other, and all of them are bytes.
LEMMA BytesAre ==
  /\ Mark[1] = "m1" /\ Mark[2] = "m2" /\ Mark[3] = "m3"
  /\ LogByte[1] = "d1" /\ LogByte[2] = "d2" /\ LogByte[3] = "d3"
  /\ Mark \in [Sizes -> Bytes] /\ LogByte \in [Sizes -> Bytes]
  /\ "void" \in Bytes
<1>1. Sizes = {1, 2, 3}
  BY DEF Sizes
<1>2. /\ Mark[1] = "m1" /\ Mark[2] = "m2" /\ Mark[3] = "m3"
      /\ LogByte[1] = "d1" /\ LogByte[2] = "d2" /\ LogByte[3] = "d3"
  BY <1>1 DEF Mark, LogByte
<1>3. \A k \in Sizes : Mark[k] \in Bytes /\ LogByte[k] \in Bytes
  BY DEF Bytes
<1>4. Mark = [k \in Sizes |-> Mark[k]] /\ LogByte = [k \in Sizes |-> LogByte[k]]
  BY DEF Mark, LogByte
<1> QED BY <1>2, <1>3, <1>4 DEF Bytes

\* Only an answered transaction keeps the task on a working bus.
LEMMA BusIs ==
  ASSUME TypeOK, NEW answer \in Answers, Bus(answer)
  PROVE  /\ alive' \in BOOLEAN /\ clean' \in BOOLEAN
         /\ clean' => clean /\ answer = "ok"
         /\ answer = "ok" => alive'
         /\ misread' = misread
BY DEF TypeOK, Bus, Answers, InBegin

LEMMA BusOk ==
  ASSUME TypeOK, Bus("ok")
  PROVE  alive' = TRUE /\ clean' = clean /\ clean' \in BOOLEAN /\ misread' = misread
BY DEF TypeOK, Bus

LEMMA BusNack ==
  ASSUME TypeOK, Bus("nack")
  PROVE  alive' \in BOOLEAN /\ clean' = FALSE /\ misread' = misread
BY DEF TypeOK, Bus, InBegin

LEMMA BusStray ==
  ASSUME TypeOK, Bus("stray")
  PROVE  alive' = TRUE /\ clean' = FALSE /\ misread' = TRUE
BY DEF TypeOK, Bus

LEMMA ReadByteIs ==
  ASSUME TypeOK, NEW k \in Sizes, NEW byte \in Bytes, ReadByte(k, byte)
  PROVE  /\ alive' \in BOOLEAN /\ clean' \in BOOLEAN /\ ferror' \in BOOLEAN
         /\ misread' = misread
         /\ clean' => clean /\ alive' /\ ~ferror' /\ byte = cells[Cell(k)]
BY BusIs DEF ReadByte

LEMMA WriteByteIs ==
  ASSUME TypeOK, NEW k \in Sizes, NEW byte \in Bytes, WriteByte(k, byte)
  PROVE  /\ alive' \in BOOLEAN /\ clean' \in BOOLEAN /\ ferror' \in BOOLEAN
         /\ cells' \in [Sizes -> Bytes] /\ misread' = misread
         /\ clean' => /\ clean /\ alive' /\ ~ferror'
                      /\ cells' = [cells EXCEPT ![Cell(k)] = byte]
<1>1. PICK answer \in {"ok", "nack"} :
        /\ Bus(answer) /\ ferror' = (answer = "nack")
        /\ cells' = IF answer = "ok" THEN [cells EXCEPT ![Cell(k)] = byte] ELSE cells
  BY DEF WriteByte
<1>2. answer \in Answers
  BY DEF Answers
<1> QED BY <1>1, <1>2, BusIs DEF TypeOK

LEMMA PageTypes ==
  ASSUME TypeOK
  PROVE  /\ HeaderPage \in Pages
         /\ NoPage \in Pages
         /\ HeaderPage.here /\ ~NoPage.here
         /\ HeaderPage.formatted = chip.formatted /\ HeaderPage.mark = chip.mark
         /\ HeaderPage.right
         /\ Page(TRUE, 0) \in Pages
         /\ \A p \in OtherPages : p \in Pages /\ p.here
         /\ \A p \in Pages : p.formatted \in BOOLEAN
         /\ page.formatted \in BOOLEAN /\ chip.formatted \in BOOLEAN
<1>1. chip.formatted \in BOOLEAN /\ chip.mark \in 0..3
  BY DEF TypeOK, Chips
<1>2. \A f \in BOOLEAN, m \in 0..3 :
        /\ Page(f, m) \in Pages /\ Page(f, m).here /\ Page(f, m).right
        /\ Page(f, m).formatted = f /\ Page(f, m).mark = m
  BY DEF Page, Pages
<1>3. NoPage \in Pages /\ ~NoPage.here
  BY DEF NoPage, Pages
<1>4. \A p \in Pages : p.formatted \in BOOLEAN /\ p.mark \in 0..3
  BY DEF Pages
<1>5. TRUE \in BOOLEAN /\ 0 \in 0..3
  OBVIOUS
<1>6. Page(TRUE, 0) \in Pages
  BY <1>2, <1>5
<1>7. page.formatted \in BOOLEAN /\ page.mark \in 0..3
  BY <1>4 DEF TypeOK
<1>8. \A p \in OtherPages : p \in Pages /\ p.here
  BY DEF OtherPages
<1>9. /\ HeaderPage \in Pages /\ HeaderPage.here /\ HeaderPage.right
      /\ HeaderPage.formatted = chip.formatted /\ HeaderPage.mark = chip.mark
  BY <1>1, <1>2 DEF HeaderPage
<1> QED BY <1>1, <1>3, <1>4, <1>6, <1>7, <1>8, <1>9

\* What a step makes of the history of the bus.
LEMMA HistoryStep ==
  ASSUME TypeOK, [Next]_vars
  PROVE  misread' \in BOOLEAN /\ (StrayInv => StrayInv')
<1> USE DEF StrayInv
<1>1. ASSUME NEW answer \in Answers \cup {"stray"}, Bus(answer)
      PROVE  misread' \in BOOLEAN /\ (StrayInv => StrayInv')
  BY <1>1 DEF Bus, TypeOK
<1>2. ASSUME (clean' = clean /\ misread' = misread) \/ misread' = FALSE
      PROVE  misread' \in BOOLEAN /\ (StrayInv => StrayInv')
  <2>1. CASE clean' = clean /\ misread' = misread
    BY <2>1 DEF TypeOK
  <2>2. CASE misread' = FALSE
    BY <2>2
  <2> QED BY <1>2, <2>1, <2>2
<1>3. CASE ReadProbe \/ VerifyProbe
  BY <1>1, <1>3 DEF ReadProbe, VerifyProbe, ReadByte
<1>4. CASE MarkProbe \/ RestoreProbe
  BY <1>1, <1>4 DEF MarkProbe, RestoreProbe, WriteByte, Answers
<1>5. CASE ReadHeader
  BY <1>1, <1>2, <1>5 DEF ReadHeader, Answers
<1>6. CASE Stamp \/ FormatHeader
  BY <1>1, <1>2, <1>6 DEF Stamp, FormatHeader, Answers
<1>7. CASE FlushHeader \/ ClearFirstSlot \/ ClearOtherSlots
  BY <1>1, <1>7 DEF FlushHeader, ClearFirstSlot, ClearOtherSlots, Answers
<1>8. CASE Mount \/ Reset \/ PowerCut
  BY <1>2, <1>8 DEF Mount, Reset, PowerCut
<1>9. CASE RetryMount \/ LeaveUntouched \/ AcceptLayout \/ DecideFormat \/ ResetVerdict
           \/ AfterFormat \/ LogEntries \/ UNCHANGED vars
  BY <1>2, <1>9 DEF RetryMount, LeaveUntouched, AcceptLayout, DecideFormat,
     ResetVerdict, AfterFormat, LogEntries, vars
<1> QED BY <1>3, <1>4, <1>5, <1>6, <1>7, <1>8, <1>9 DEF Next, Begin, Decide, Format

----------------------------------------------------------------------------
(* Types.                                                                  *)

LEMMA TypeStep ==
  ASSUME TypeOK, [Next]_vars
  PROVE  TypeOK'
<1> USE DEF TypeOK, Places, chipVars, Sizes
<1>a. misread' \in BOOLEAN
  BY HistoryStep
<1>1. CASE Mount
  <2>1. alive' \in BOOLEAN /\ clean' \in BOOLEAN /\ ferror' \in BOOLEAN
    BY <1>1, <1>a DEF Mount
  <2>2. saved' = saved /\ cells' \in [Sizes -> Bytes]
    BY <1>1, <1>a, BytesAre DEF Mount
  <2>3. page' \in Pages
    BY <1>1, <1>a, PageTypes DEF Mount
  <2> QED BY <1>1, <1>a, <2>1, <2>2, <2>3 DEF Mount
<1>2. CASE Reset
  <2>1. page' \in Pages /\ cells' \in [Sizes -> Bytes]
    BY <1>2, PageTypes, BytesAre DEF Reset
  <2>2. clean' \in BOOLEAN /\ alive' \in BOOLEAN
    BY <1>2 DEF Reset
  <2>3. pc' \in Places /\ task' = "reset" /\ i' = 1 /\ pass' = "first"
    BY <1>2 DEF Reset, ResetBegins, BeginAt
  <2> QED BY <1>2, <1>a, <2>1, <2>2, <2>3 DEF Reset
<1>3. CASE ReadProbe
  <2>1. PICK byte \in Bytes : ReadByte(i, byte) /\ saved' = [saved EXCEPT ![i] = byte]
    BY <1>3, <1>a DEF ReadProbe
  <2>2. alive' \in BOOLEAN /\ clean' \in BOOLEAN /\ ferror' \in BOOLEAN
    BY <2>1, ReadByteIs
  <2>3. saved' \in [Sizes -> Bytes]
    BY <2>1
  <2> QED BY <1>3, <1>a, <2>2, <2>3 DEF ReadProbe
<1>4. CASE MarkProbe
  <2>1. WriteByte(i, Mark[i]) /\ Mark[i] \in Bytes
    BY <1>4, <1>a, BytesAre DEF MarkProbe
  <2>2. /\ alive' \in BOOLEAN /\ clean' \in BOOLEAN /\ ferror' \in BOOLEAN
        /\ cells' \in [Sizes -> Bytes]
    BY <2>1, WriteByteIs
  <2>3. saved' \in [Sizes -> Bytes]
    BY <1>4, <1>a, BytesAre DEF MarkProbe, NothingSaved
  <2> QED BY <1>4, <1>a, <2>2, <2>3 DEF MarkProbe
<1>5. CASE VerifyProbe
  <2>1. PICK byte \in Bytes : ReadByte(i, byte)
    BY <1>5, <1>a DEF VerifyProbe
  <2>2. alive' \in BOOLEAN /\ clean' \in BOOLEAN /\ ferror' \in BOOLEAN
    BY <2>1, ReadByteIs
  <2>3. i' \in 1..3 /\ esize' \in 0..3 /\ pc' \in Places
    BY <1>5, <1>a DEF VerifyProbe, ProbesRead
  <2> QED BY <1>5, <1>a, <2>2, <2>3 DEF VerifyProbe
<1>6. CASE RestoreProbe
  <2>1. WriteByte(i, saved[i]) /\ saved[i] \in Bytes
    BY <1>6, <1>a DEF RestoreProbe
  <2>2. /\ alive' \in BOOLEAN /\ clean' \in BOOLEAN /\ ferror' \in BOOLEAN
        /\ cells' \in [Sizes -> Bytes]
    BY <2>1, WriteByteIs
  <2>3. saved' \in [Sizes -> Bytes]
    BY <1>6, <1>a, BytesAre DEF RestoreProbe
  <2> QED BY <1>6, <1>a, <2>2, <2>3 DEF RestoreProbe
<1>7. CASE ReadHeader
  <2>1. alive' \in BOOLEAN /\ clean' \in BOOLEAN
    BY <1>7, <1>a, BusOk, BusNack, BusStray DEF ReadHeader
  <2>2. page' \in Pages
    BY <1>7, <1>a, PageTypes DEF ReadHeader
  <2>3. slots' \in BOOLEAN /\ ferror' \in BOOLEAN
    BY <1>7, <2>2, PageTypes DEF ReadHeader
  <2> QED BY <1>7, <1>a, <2>1, <2>2, <2>3 DEF ReadHeader
<1>8. CASE RetryMount
  <2>1. alive' \in BOOLEAN /\ ferror' \in BOOLEAN
    BY <1>8, <1>a DEF RetryMount
  <2>2. pc' \in Places /\ pass' = "retry" /\ i' = 1
    BY <1>8, <1>a DEF RetryMount, NextPass, BeginAt
  <2> QED BY <1>8, <1>a, <2>1, <2>2 DEF RetryMount
<1>9. CASE LeaveUntouched
  BY <1>9, <1>a DEF LeaveUntouched, Done
<1>10. CASE AcceptLayout
  BY <1>10, <1>a DEF AcceptLayout, Done
<1>11. CASE DecideFormat
  BY <1>11, <1>a DEF DecideFormat, Done
<1>12. CASE ResetVerdict
  BY <1>12, <1>a DEF ResetVerdict, Done
<1>13. CASE AfterFormat
  BY <1>13, <1>a DEF AfterFormat, Done
<1>14. CASE Stamp
  <2>1. alive' \in BOOLEAN /\ clean' \in BOOLEAN
    BY <1>14, BusOk, BusNack DEF Stamp
  <2>2. page' \in Pages
    BY <1>14 DEF Stamp, Pages
  <2>3. chip' \in Chips
    <3>1. page.formatted \in BOOLEAN /\ esize \in 0..3
      BY PageTypes
    <3>2. (IF page.right THEN chip.log ELSE "torn")
             \in {"intact", "torn", "empty"}
      BY DEF Chips
    <3>3. [formatted |-> page.formatted, mark |-> esize,
           log |-> IF page.right THEN chip.log ELSE "torn"] \in Chips
      BY <3>1, <3>2 DEF Chips
    <3> QED BY <1>14, <3>3 DEF Stamp
  <2>4. ferror' \in BOOLEAN /\ pc' = "idle" /\ task' = "none"
    BY <1>14 DEF Stamp, Done
  <2> QED BY <1>14, <1>a, <2>1, <2>2, <2>3, <2>4 DEF Stamp
<1>15. CASE FormatHeader
  <2>1. alive' \in BOOLEAN /\ clean' \in BOOLEAN
    BY <1>15, <1>a, BusOk, BusNack, BusStray DEF FormatHeader
  <2>2. page' \in Pages
    BY <1>15, PageTypes DEF FormatHeader
  <2>3. ferror' \in BOOLEAN /\ pc' \in Places
    BY <1>15, <1>a DEF FormatHeader
  <2> QED BY <1>15, <1>a, <2>1, <2>2, <2>3 DEF FormatHeader
<1>16. CASE FlushHeader
  <2>1. alive' \in BOOLEAN /\ clean' \in BOOLEAN
    BY <1>16, <1>a, BusOk, BusNack, BusStray DEF FlushHeader
  <2>2. chip' \in Chips
    <3>1. TRUE \in BOOLEAN /\ (IF chip.log = "empty" THEN "empty" ELSE "torn")
                                \in {"intact", "torn", "empty"}
      OBVIOUS
    <3>2. [formatted |-> TRUE, mark |-> 0,
           log |-> IF chip.log = "empty" THEN "empty" ELSE "torn"] \in Chips
      BY <3>1 DEF Chips
    <3> QED BY <1>16, <1>a, <3>2 DEF FlushHeader
  <2>3. ferror' \in BOOLEAN
    BY <1>16, <1>a DEF FlushHeader
  <2> QED BY <1>16, <1>a, <2>1, <2>2, <2>3 DEF FlushHeader
<1>17. CASE ClearFirstSlot
  BY <1>17, <1>a, BusIs, BusStray, PageTypes DEF ClearFirstSlot, Answers
<1>18. CASE ClearOtherSlots
  BY <1>18, <1>a, BusIs, BusStray DEF ClearOtherSlots, Answers, Chips
<1>19. CASE PowerCut
  <2>1. saved' \in [Sizes -> Bytes]
    BY <1>19, <1>a, BytesAre DEF PowerCut, NothingSaved
  <2>3. /\ alive' \in BOOLEAN /\ clean' \in BOOLEAN /\ ferror' \in BOOLEAN
        /\ slots' \in BOOLEAN /\ mounted' \in BOOLEAN
    BY <1>19, <1>a DEF PowerCut
  <2>2. page' \in Pages
    BY <1>19, <1>a, PageTypes DEF PowerCut
  <2> QED BY <1>19, <1>a, <2>1, <2>2, <2>3 DEF PowerCut
<1>20. CASE LogEntries
  BY <1>20, <1>a DEF LogEntries, Chips
<1>21. CASE UNCHANGED vars
  BY <1>21, <1>a DEF vars
<1> QED BY <1>1,  <1>2, <1>3, <1>4, <1>5, <1>6, <1>7,
           <1>8, <1>9, <1>10, <1>11, <1>12, <1>13, <1>14,
           <1>15, <1>16, <1>17, <1>18, <1>19, <1>20, <1>21
        DEF Next, Begin, Decide, Format

----------------------------------------------------------------------------
(* The parts of the inductive invariant.                                   *)

LEMMA PlaceStep ==
  ASSUME TypeOK, PlaceInv, MountInv, [Next]_vars
  PROVE  PlaceInv'
<1> USE DEF PlaceInv, FormatPlaces
<1>1. CASE Mount
  BY <1>1 DEF Mount
<1>2. CASE Reset
  BY <1>2 DEF Reset, ResetBegins, BeginAt
<1>3. CASE ReadProbe
  BY <1>3 DEF ReadProbe, Done
<1>4. CASE MarkProbe
  BY <1>4 DEF MarkProbe
<1>5. CASE VerifyProbe
  BY <1>5 DEF VerifyProbe, ProbesRead, TypeOK, Sizes
<1>6. CASE RestoreProbe
  BY <1>6 DEF RestoreProbe, Done
<1>7. CASE ReadHeader
  BY <1>7 DEF ReadHeader, Done
<1>8. CASE RetryMount
  BY <1>8 DEF RetryMount, NextPass, BeginAt
<1>9. CASE LeaveUntouched
  BY <1>9 DEF LeaveUntouched, Done
<1>10. CASE AcceptLayout
  BY <1>10 DEF AcceptLayout, Settled, Done, Legacy
<1>11. CASE DecideFormat
  BY <1>11 DEF DecideFormat, Settled, BusFailed, MountInv, Formatting
<1>12. CASE ResetVerdict
  BY <1>12 DEF ResetVerdict, Done
<1>13. CASE AfterFormat
  BY <1>13 DEF AfterFormat, Done
<1>14. CASE Stamp
  BY <1>14 DEF Stamp, Done
<1>15. CASE FormatHeader
  BY <1>15 DEF FormatHeader, Done
<1>16. CASE FlushHeader
  BY <1>16 DEF FlushHeader, Done
<1>17. CASE ClearFirstSlot
  BY <1>17 DEF ClearFirstSlot, Done
<1>18. CASE ClearOtherSlots
  BY <1>18 DEF ClearOtherSlots, Done
<1>19. CASE PowerCut
  BY <1>19 DEF PowerCut
<1>20. CASE LogEntries
  BY <1>20 DEF LogEntries, Done
<1>21. CASE UNCHANGED vars
  BY <1>21 DEF vars
<1> QED BY <1>1, <1>2, <1>3, <1>4, <1>5, <1>6, <1>7,
           <1>8, <1>9, <1>10, <1>11, <1>12, <1>13, <1>14,
           <1>15, <1>16, <1>17, <1>18, <1>19, <1>20, <1>21
        DEF Next, Begin, Decide, Format

\* The chip on the board is the same one after any step.
LEMMA SizeStays ==
  ASSUME [Next]_vars
  PROVE  size' = size /\ (\A k \in Sizes : Cell(k)' = Cell(k))
<1> SUFFICES size' = size
  BY DEF Cell
<1> USE DEF chipVars
<1>1. CASE Mount
  BY <1>1 DEF Mount
<1>2. CASE Reset
  BY <1>2 DEF Reset
<1>3. CASE ReadProbe
  BY <1>3 DEF ReadProbe
<1>4. CASE MarkProbe
  BY <1>4 DEF MarkProbe
<1>5. CASE VerifyProbe
  BY <1>5 DEF VerifyProbe
<1>6. CASE RestoreProbe
  BY <1>6 DEF RestoreProbe
<1>7. CASE ReadHeader
  BY <1>7 DEF ReadHeader
<1>8. CASE RetryMount
  BY <1>8 DEF RetryMount
<1>9. CASE LeaveUntouched
  BY <1>9 DEF LeaveUntouched
<1>10. CASE AcceptLayout
  BY <1>10 DEF AcceptLayout
<1>11. CASE DecideFormat
  BY <1>11 DEF DecideFormat
<1>12. CASE ResetVerdict
  BY <1>12 DEF ResetVerdict
<1>13. CASE AfterFormat
  BY <1>13 DEF AfterFormat
<1>14. CASE Stamp
  BY <1>14 DEF Stamp
<1>15. CASE FormatHeader
  BY <1>15 DEF FormatHeader
<1>16. CASE FlushHeader
  BY <1>16 DEF FlushHeader
<1>17. CASE ClearFirstSlot
  BY <1>17 DEF ClearFirstSlot
<1>18. CASE ClearOtherSlots
  BY <1>18 DEF ClearOtherSlots
<1>19. CASE PowerCut
  BY <1>19 DEF PowerCut
<1>20. CASE LogEntries
  BY <1>20 DEF LogEntries
<1>21. CASE UNCHANGED vars
  BY <1>21 DEF vars
<1> QED BY <1>1, <1>2, <1>3, <1>4, <1>5, <1>6, <1>7,
           <1>8, <1>9, <1>10, <1>11, <1>12, <1>13, <1>14,
           <1>15, <1>16, <1>17, <1>18, <1>19, <1>20, <1>21
        DEF Next, Begin, Decide, Format

LEMMA MountStep ==
  ASSUME TypeOK, PlaceInv, MountInv, [Next]_vars
  PROVE  MountInv'
<1> USE DEF MountInv, Formatting, FormatPlaces, Healthy, chipVars, HeaderPage
<1>1. CASE Mount
  <2>1. pc' = "read" /\ pass' = "first" /\ held' = chip /\ chip' = chip /\ page' = NoPage
    BY <1>1 DEF Mount
  <2> QED BY <2>1, PageTypes
<1>2. CASE Reset
  BY <1>2 DEF Reset
<1>3. CASE ReadProbe
  <2>1. misread' = misread
    BY <1>3, ReadByteIs DEF ReadProbe, TypeOK
  <2> QED BY <1>3, <2>1 DEF ReadProbe, PlaceInv
<1>4. CASE MarkProbe
  <2>1. i \in Sizes /\ Mark[i] \in Bytes
    BY BytesAre DEF TypeOK
  <2>2. misread' = misread
    BY <1>4, <2>1, WriteByteIs DEF MarkProbe
  <2> QED BY <1>4, <2>2 DEF MarkProbe, PlaceInv
<1>5. CASE VerifyProbe
  <2>1. misread' = misread
    BY <1>5, ReadByteIs DEF VerifyProbe, TypeOK
  <2> QED BY <1>5, <2>1 DEF VerifyProbe, PlaceInv
<1>6. CASE RestoreProbe
  <2>1. i \in Sizes /\ saved[i] \in Bytes
    BY BytesAre DEF TypeOK
  <2>2. misread' = misread
    BY <1>6, <2>1, WriteByteIs DEF RestoreProbe
  <2> QED BY <1>6, <2>2 DEF RestoreProbe, PlaceInv
<1>7. CASE ReadHeader
  <2>1. UNCHANGED <<chip, held, task, pass, esize, size>> /\ pc' = "verdict"
    BY <1>7 DEF ReadHeader
  <2>2. CASE page.here
    BY <1>7, <2>1, <2>2 DEF ReadHeader, PlaceInv
  <2>3. CASE ~page.here /\ Bus("ok") /\ page' = HeaderPage
             /\ slots' = chip.formatted
    <3>1. misread' = misread /\ page'.here /\ page'.formatted = chip.formatted
      BY <2>3, BusOk, PageTypes
    <3> QED BY <1>7, <2>1, <2>3, <3>1 DEF ReadHeader, PlaceInv
  <2>4. CASE ~page.here /\ Bus("stray") /\ page' \in OtherPages
             /\ slots' = page'.formatted
    <3>1. misread' = TRUE /\ page'.here
      BY <2>4, BusStray, PageTypes
    <3> QED BY <1>7, <2>1, <2>4, <3>1 DEF ReadHeader, PlaceInv
  <2>5. CASE ~page.here /\ Bus("nack") /\ ferror' = TRUE /\ page' = page
    <3>1. misread' = misread
      BY <2>5, BusNack
    <3> QED BY <1>7, <2>1, <2>5, <3>1 DEF ReadHeader, PlaceInv
  <2> QED BY <1>7, <2>2, <2>3, <2>4, <2>5 DEF ReadHeader
<1>8. CASE RetryMount
  BY <1>8 DEF RetryMount, NextPass, BeginAt
<1>9. CASE LeaveUntouched
  BY <1>9 DEF LeaveUntouched, Done, PlaceInv
<1>10. CASE AcceptLayout
  BY <1>10 DEF AcceptLayout, Settled, Done
<1>11. CASE DecideFormat
  <2>1. UNCHANGED <<chip, held, task, pass, esize, size, misread>>
        /\ pc' = "format"
    BY <1>11 DEF DecideFormat
  <2>2. CASE misread
    BY <2>1, <2>2
  <2>3. CASE ~misread
    <3>1. chip = held /\ page = HeaderPage /\ slots = page.formatted
      BY <1>11, <2>3 DEF DecideFormat, Settled, BusFailed
    <3>2. page.formatted = held.formatted /\ page.mark = held.mark
      BY <3>1, PageTypes
    <3>3. ~(Healthy(held) /\ esize = size)
      BY <1>11, <3>1, <3>2 DEF DecideFormat, Legacy
    <3> QED BY <2>1, <3>3
  <2> QED BY <2>2, <2>3
<1>12. CASE ResetVerdict
  BY <1>12 DEF ResetVerdict, Done, PlaceInv
<1>13. CASE AfterFormat
  BY <1>13 DEF AfterFormat, Done, PlaceInv
<1>14. CASE Stamp
  BY <1>14 DEF Stamp, Done
<1>15. CASE FormatHeader
  <2>1. misread => misread'
    BY <1>15, BusOk, BusNack, BusStray DEF FormatHeader
  <2> QED BY <1>15, <2>1 DEF FormatHeader, PlaceInv
<1>16. CASE FlushHeader
  <2>1. misread => misread'
    BY <1>16, BusOk, BusNack, BusStray DEF FlushHeader
  <2> QED BY <1>16, <2>1 DEF FlushHeader, PlaceInv
<1>17. CASE ClearFirstSlot
  <2>1. misread => misread'
    BY <1>17, BusOk, BusNack, BusStray DEF ClearFirstSlot
  <2> QED BY <1>17, <2>1 DEF ClearFirstSlot, PlaceInv
<1>18. CASE ClearOtherSlots
  <2>1. misread => misread'
    BY <1>18, BusOk, BusNack, BusStray DEF ClearOtherSlots
  <2> QED BY <1>18, <2>1 DEF ClearOtherSlots, PlaceInv
<1>19. CASE PowerCut
  BY <1>19 DEF PowerCut
<1>20. CASE LogEntries
  BY <1>20 DEF LogEntries, PlaceInv
<1>21. CASE UNCHANGED vars
  BY <1>21 DEF vars
<1> QED BY <1>1, <1>2, <1>3, <1>4, <1>5, <1>6, <1>7,
           <1>8, <1>9, <1>10, <1>11, <1>12, <1>13, <1>14,
           <1>15, <1>16, <1>17, <1>18, <1>19, <1>20, <1>21
        DEF Next, Begin, Decide, Format

LEMMA ProbeStep ==
  ASSUME TypeOK, PlaceInv, MountInv, ProbeInv, [Next]_vars
  PROVE  ProbeInv'
<1> SUFFICES ASSUME (task = "mount" /\ clean)'
             PROVE  ProbeInv'
  BY DEF ProbeInv
<1>a. size' = size /\ (\A k \in Sizes : Cell(k)' = Cell(k))
  BY SizeStays
<1>b. \A k \in Sizes : Cell(k) = IF k < size THEN k ELSE size
  BY CellIs DEF TypeOK
<1>c. size \in Sizes /\ Sizes = {1, 2, 3} /\ i \in Sizes
  BY DEF Sizes, TypeOK
<1>d. \A k \in Sizes : Cell(k) \in Sizes
  BY <1>b, <1>c
<1> DEFINE Tail == {"header", "verdict", "stamp"} \cup FormatPlaces
<1>e. ASSUME task = "mount" /\ clean /\ pc \in Tail, pc' \in Tail \cup {"idle"},
             UNCHANGED <<esize, cells, ferror>>
      PROVE  ProbeInv'
  BY <1>a, <1>e DEF ProbeInv, Restored, FormatPlaces
<1>1. CASE Mount
  <2>1. ~ferror' /\ pc' = "read" /\ i' = 1 /\ cells' = LogByte
    BY <1>1 DEF Mount
  <2> QED BY <1>c, <2>1 DEF ProbeInv, Sizes, FormatPlaces
<1>2. CASE Reset
  BY <1>2 DEF Reset
<1>3. CASE ReadProbe
  <2>1. PICK byte \in Bytes : ReadByte(i, byte) /\ saved' = [saved EXCEPT ![i] = byte]
    BY <1>3 DEF ReadProbe
  <2>2. clean /\ ~ferror' /\ byte = cells[Cell(i)]
    BY <1>c, <2>1, ReadByteIs
  <2>3. task = "mount" /\ cells' = cells /\ pc = "read"
    BY <1>3 DEF ReadProbe, chipVars
  <2>4. cells = LogByte /\ \A k \in Sizes : k < i => Kept(k)
    BY <2>2, <2>3 DEF ProbeInv
  <2>5. \A k \in Sizes : k <= i => Kept(k)'
    BY <1>a, <1>c, <2>1, <2>2, <2>4 DEF Kept, TypeOK
  <2>6. CASE i = 3
    <3>1. pc' = "mark" /\ i' = 1
      BY <1>3, <2>6 DEF ReadProbe
    <3> QED BY <1>c, <2>2, <2>5, <2>6, <3>1 DEF ProbeInv, FormatPlaces
  <2>7. CASE i # 3
    <3>1. pc' = "read" /\ i' = i + 1
      BY <1>3, <2>7 DEF ReadProbe
    <3> QED BY <1>c, <2>2, <2>3, <2>4, <2>5, <3>1 DEF ProbeInv, FormatPlaces
  <2> QED BY <2>6, <2>7
<1>4. CASE MarkProbe
  <2>1. WriteByte(i, Mark[i]) /\ Mark[i] \in Bytes /\ pc = "mark" /\ task = "mount"
    BY <1>4, <1>c, BytesAre DEF MarkProbe
  <2>2. clean /\ ~ferror' /\ cells' = [cells EXCEPT ![Cell(i)] = Mark[i]]
    BY <1>c, <2>1, WriteByteIs
  <2>3. /\ \A k \in Sizes : Kept(k)
        /\ \A k \in Sizes : k < i => Marked(k, i - 1)
    BY <2>1, <2>2 DEF ProbeInv
  <2>4. saved' = saved
    BY <1>4, <2>2 DEF MarkProbe
  <2>5. \A k \in Sizes : Kept(k)'
    BY <1>a, <2>3, <2>4 DEF Kept
  <2>6. \A k \in Sizes : k <= i => cells'[Cell(k)] = IF k < size THEN Mark[k] ELSE Mark[i]
    <3>1. SUFFICES ASSUME NEW k \in Sizes, k <= i
                   PROVE  cells'[Cell(k)] = IF k < size THEN Mark[k] ELSE Mark[i]
      OBVIOUS
    <3>2. cells'[Cell(i)] = Mark[i]
      BY <1>c, <1>d, <2>2 DEF TypeOK
    <3>3. CASE Cell(k) = Cell(i)
      <4>1. k < size => k = i
        BY <1>b, <1>c, <3>1, <3>3
      <4> QED BY <3>2, <3>3, <4>1
    <3>4. CASE Cell(k) # Cell(i)
      <4>1. k < i /\ k < size
        BY <1>b, <1>c, <3>1, <3>4
      <4>2. cells'[Cell(k)] = cells[Cell(k)]
        BY <1>d, <2>2, <3>4 DEF TypeOK
      <4> QED BY <2>3, <4>1, <4>2 DEF Marked
    <3> QED BY <3>3, <3>4
  <2>7. CASE i = 3
    <3>1. pc' = "verify" /\ i' = 1
      BY <1>4, <2>2, <2>7 DEF MarkProbe
    <3>2. \A k \in Sizes : Marked(k, 3)'
      BY <1>a, <1>c, <2>6, <2>7 DEF Marked
    <3> QED BY <1>a, <1>c, <2>2, <2>5, <3>1, <3>2 DEF ProbeInv, FormatPlaces
  <2>8. CASE i < 3
    <3>1. pc' = "mark" /\ i' = i + 1
      BY <1>4, <2>8 DEF MarkProbe
    <3>2. \A k \in Sizes : k < i' => Marked(k, i - 1)'
      BY <1>a, <1>c, <2>6, <3>1 DEF Marked
    <3> QED BY <1>c, <2>2, <2>5, <3>1, <3>2 DEF ProbeInv, FormatPlaces
  <2> QED BY <1>c, <2>7, <2>8
<1>5. CASE VerifyProbe
  <2>1. PICK byte \in Bytes :
          /\ ReadByte(i, byte)
          /\ \/ /\ byte # Mark[i]
                /\ esize' = i /\ pc' = "restore" /\ i' = 1
             \/ /\ byte = Mark[i] /\ i < ProbesRead
                /\ i' = i + 1
                /\ UNCHANGED <<esize, pc>>
             \/ /\ byte = Mark[i] /\ i = ProbesRead
                /\ esize' = ProbesRead + 1 /\ pc' = "restore" /\ i' = 1
    BY <1>5 DEF VerifyProbe
  <2>2. clean /\ ~ferror' /\ byte = cells[Cell(i)]
    BY <1>c, <2>1, ReadByteIs
  <2>3. task = "mount" /\ pc = "verify" /\ saved' = saved /\ cells' = cells
    BY <1>5 DEF VerifyProbe, chipVars
  <2>4. i \in {1, 2} /\ i <= size /\ \A k \in Sizes : Kept(k) /\ Marked(k, 3)
    BY <2>2, <2>3 DEF ProbeInv
  <2>5. \A k \in Sizes : Kept(k)' /\ Marked(k, 3)'
    BY <1>a, <2>3, <2>4 DEF Kept, Marked
  <2>6. byte = IF i < size THEN Mark[i] ELSE Mark[3]
    BY <1>c, <2>2, <2>4 DEF Marked
  <2>7. CASE i < size /\ i < 2
    <3>1. i' = i + 1 /\ pc' = "verify"
      BY <2>1, <2>3, <2>6, <2>7 DEF ProbesRead
    <3> QED BY <1>a, <1>c, <2>2, <2>4, <2>5, <2>7, <3>1 DEF ProbeInv, FormatPlaces
  <2>8. CASE i = size \/ i = 2
    <3>1. esize' = size /\ pc' = "restore" /\ i' = 1
      <4>1. CASE i = size
        <5>1. byte # Mark[i]
          BY <2>4, <2>6, <4>1, BytesAre
        <5> QED BY <2>1, <4>1, <5>1
      <4>2. CASE i = 2 /\ i # size
        <5>1. size = 3 /\ byte = Mark[i]
          BY <1>c, <2>4, <2>6, <4>2
        <5> QED BY <2>1, <4>2, <5>1 DEF ProbesRead
      <4> QED BY <2>8, <4>1, <4>2
    <3>2. \A k \in Sizes : ~(k < 1)
      BY <1>c
    <3> QED BY <1>a, <2>2, <2>5, <3>1, <3>2 DEF ProbeInv, FormatPlaces
  <2> QED BY <1>c, <2>4, <2>7, <2>8
<1>6. CASE RestoreProbe
  <2>1. WriteByte(i, saved[i]) /\ saved[i] \in Bytes /\ pc = "restore"
        /\ task = "mount" /\ esize' = esize /\ saved' = [saved EXCEPT ![i] = "void"]
    BY <1>6, <1>c DEF RestoreProbe, TypeOK
  <2>2. clean /\ ~ferror' /\ cells' = [cells EXCEPT ![Cell(i)] = saved[i]]
    BY <1>c, <2>1, WriteByteIs
  <2>3. esize = size /\ \A k \in Sizes : IF k < i THEN Restored(k) ELSE Kept(k)
    BY <2>1, <2>2 DEF ProbeInv
  <2>4. \A k \in Sizes : k <= i => Restored(k)'
    <3>1. SUFFICES ASSUME NEW k \in Sizes, k <= i
                   PROVE  cells'[Cell(k)] = LogByte[Cell(k)]
      BY <1>a DEF Restored
    <3>2. saved[i] = LogByte[Cell(i)]
      BY <1>c, <2>3 DEF Kept
    <3>3. CASE Cell(k) = Cell(i)
      BY <1>d, <2>2, <3>2, <3>3 DEF TypeOK
    <3>4. CASE Cell(k) # Cell(i)
      <4>1. k < i
        BY <1>c, <3>1, <3>4
      <4>2. cells'[Cell(k)] = cells[Cell(k)]
        BY <1>d, <2>2, <3>4 DEF TypeOK
      <4> QED BY <2>3, <4>1, <4>2 DEF Restored
    <3> QED BY <3>3, <3>4
  <2>5. \A k \in Sizes : k > i => Kept(k)'
    BY <1>a, <1>c, <2>1, <2>3 DEF Kept, TypeOK
  <2>6. CASE i = 3
    <3>1. pc' = "header"
      BY <1>6, <2>6 DEF RestoreProbe
    <3> QED BY <1>a, <1>c, <2>1, <2>2, <2>3, <2>4, <2>6, <3>1 DEF ProbeInv, FormatPlaces
  <2>7. CASE i # 3
    <3>1. pc' = "restore" /\ i' = i + 1
      BY <1>6, <2>7 DEF RestoreProbe
    <3> QED BY <1>a, <1>c, <2>1, <2>2, <2>3, <2>4, <2>5, <3>1 DEF ProbeInv, FormatPlaces
  <2> QED BY <2>6, <2>7
<1>7. CASE ReadHeader
  <2>1. clean /\ ferror' = ferror
    BY <1>7, BusOk, BusNack, BusStray DEF ReadHeader
  <2> QED BY <1>7, <1>e, <2>1 DEF ReadHeader, chipVars
<1>8. CASE RetryMount
  BY <1>8 DEF RetryMount, BusFailed, ProbeInv
<1>9. CASE LeaveUntouched
  BY <1>9 DEF LeaveUntouched, Done
<1>10. CASE AcceptLayout
  BY <1>10, <1>e DEF AcceptLayout, Settled, Done, chipVars
<1>11. CASE DecideFormat
  BY <1>11, <1>e DEF DecideFormat, Settled, chipVars, FormatPlaces
<1>12. CASE ResetVerdict
  BY <1>12 DEF ResetVerdict, Done
<1>13. CASE AfterFormat
  BY <1>13, <1>e DEF AfterFormat, Done, chipVars
<1>14. CASE Stamp
  BY <1>14 DEF Stamp, Done
<1>15. CASE FormatHeader
  <2>1. clean /\ ferror' = ferror
    BY <1>15, BusOk, BusNack, BusStray DEF FormatHeader
  <2> QED BY <1>15, <1>e, <2>1 DEF FormatHeader, chipVars, FormatPlaces
<1>16. CASE FlushHeader
  <2>1. clean /\ ferror' = ferror
    BY <1>16, BusOk, BusNack, BusStray DEF FlushHeader
  <2> QED BY <1>16, <1>e, <2>1 DEF FlushHeader, chipVars, FormatPlaces
<1>17. CASE ClearFirstSlot
  <2>1. clean /\ ferror' = ferror
    BY <1>17, BusOk, BusNack, BusStray DEF ClearFirstSlot
  <2> QED BY <1>17, <1>e, <2>1 DEF ClearFirstSlot, chipVars, FormatPlaces
<1>18. CASE ClearOtherSlots
  <2>1. clean /\ ferror' = ferror
    BY <1>18, BusOk, BusNack, BusStray DEF ClearOtherSlots
  <2> QED BY <1>18, <1>e, <2>1 DEF ClearOtherSlots, chipVars, FormatPlaces
<1>19. CASE PowerCut
  BY <1>19 DEF PowerCut
<1>20. CASE LogEntries
  BY <1>20 DEF LogEntries, PlaceInv
<1>21. CASE UNCHANGED vars
  BY <1>21, <1>a DEF vars, ProbeInv, Kept, Restored, Marked, FormatPlaces
<1> QED BY <1>1, <1>2, <1>3, <1>4, <1>5, <1>6, <1>7,
           <1>8, <1>9, <1>10, <1>11, <1>12, <1>13, <1>14,
           <1>15, <1>16, <1>17, <1>18, <1>19, <1>20, <1>21
        DEF Next, Begin, Decide, Format

LEMMA FormatStep ==
  ASSUME TypeOK, PlaceInv, StrayInv, MountInv, FormatInv, [Next]_vars
  PROVE  FormatInv'
<1> SUFFICES ASSUME (task # "none" /\ clean)'
             PROVE  FormatInv'
  BY DEF FormatInv
<1> USE DEF FormatInv, PlaceInv, FormatPlaces, chipVars
<1>1. CASE Mount
  BY <1>1 DEF Mount
<1>2. CASE Reset
  BY <1>2 DEF Reset, ResetBegins, BeginAt
<1>3. CASE ReadProbe
  <2>1. clean /\ alive'
    BY <1>3, ReadByteIs DEF ReadProbe, TypeOK
  <2> QED BY <1>3, <2>1 DEF ReadProbe
<1>4. CASE MarkProbe
  <2>1. WriteByte(i, Mark[i]) /\ Mark[i] \in Bytes
    BY <1>4, BytesAre DEF MarkProbe, TypeOK
  <2>2. clean /\ alive' /\ ~ferror'
    BY <2>1, WriteByteIs DEF TypeOK
  <2> QED BY <1>4, <2>2 DEF MarkProbe
<1>5. CASE VerifyProbe
  <2>1. clean /\ alive'
    BY <1>5, ReadByteIs DEF VerifyProbe, TypeOK
  <2> QED BY <1>5, <2>1 DEF VerifyProbe
<1>6. CASE RestoreProbe
  <2>1. WriteByte(i, saved[i]) /\ saved[i] \in Bytes
    BY <1>6, BytesAre DEF RestoreProbe, TypeOK
  <2>2. clean /\ alive' /\ ~ferror'
    BY <2>1, WriteByteIs DEF TypeOK
  <2> QED BY <1>6, <2>2 DEF RestoreProbe
<1>7. CASE ReadHeader
  <2>1. /\ clean /\ alive'
        /\ page.here \/ (page' = HeaderPage /\ slots' = chip.formatted)
    <3>1. CASE page.here
      BY <1>7, <3>1 DEF ReadHeader
    <3>2. CASE ~page.here
      BY <1>7, <3>2, BusOk, BusNack, BusStray DEF ReadHeader
    <3> QED BY <3>1, <3>2
  <2>2. pass = "after" => ~page.here
    BY <1>7, <2>1, PageTypes DEF ReadHeader
  <2>3. HeaderPage' = HeaderPage
    BY <1>7 DEF ReadHeader, HeaderPage
  <2>4. pass = "after" => chip.formatted
    BY <1>7, <2>1 DEF ReadHeader
  <2> QED BY <1>7, <2>1, <2>2, <2>3, <2>4 DEF ReadHeader
<1>8. CASE RetryMount
  <2>1. clean /\ alive = TRUE /\ alive' \in {alive, TRUE}
    BY <1>8 DEF RetryMount, TypeOK
  <2> QED BY <1>8, <2>1 DEF RetryMount, NextPass, BeginAt
<1>9. CASE LeaveUntouched
  BY <1>9 DEF LeaveUntouched, Done
<1>10. CASE AcceptLayout
  <2>1. UNCHANGED <<chip, page, pass, alive, clean, misread>>
    BY <1>10 DEF AcceptLayout
  <2>2. HeaderPage' = HeaderPage /\ clean /\ ~misread
    BY <2>1 DEF HeaderPage, StrayInv
  <2>3. /\ page.here /\ slots = page.formatted /\ slots
        /\ pass # "after" /\ task = "mount" /\ pc = "verdict"
    BY <1>10 DEF AcceptLayout, Settled, BusFailed, MountInv, Formatting
  <2>4. page = HeaderPage
    BY <2>2, <2>3 DEF MountInv, Formatting
  <2>5. chip.formatted
    BY <2>3, <2>4, PageTypes
  <2>6. mounted' /\ (pc' = "stamp" \/ task' = "none")
    BY <1>10 DEF AcceptLayout, Done
  <2> QED BY <2>1, <2>2, <2>3, <2>4, <2>5, <2>6
<1>11. CASE DecideFormat
  BY <1>11 DEF DecideFormat, Settled
<1>12. CASE ResetVerdict
  BY <1>12 DEF ResetVerdict, Done
<1>13. CASE AfterFormat
  <2>1. UNCHANGED <<chip, page, pass, alive, clean, esize, slots>>
    BY <1>13 DEF AfterFormat
  <2>2. HeaderPage' = HeaderPage
    BY <2>1 DEF HeaderPage
  <2>3. pc = "verdict" /\ pass = "after" /\ task # "none" /\ clean
    BY <1>13, <2>1 DEF AfterFormat
  <2>4. pc' = "stamp" /\ mounted' = slots
    BY <1>13, <2>1 DEF AfterFormat, Done, Restamp
  <2> QED BY <2>1, <2>2, <2>3, <2>4
<1>14. CASE Stamp
  BY <1>14 DEF Stamp, Done
<1>15. CASE FormatHeader
  <2>1. clean /\ alive'
    BY <1>15, BusOk, BusNack, BusStray DEF FormatHeader
  <2>2. pc' = "flush" /\ page'.here
    BY <1>15, <2>1 DEF FormatHeader, Page
  <2> QED BY <1>15, <2>1, <2>2 DEF FormatHeader
<1>16. CASE FlushHeader
  <2>1. Bus("ok") /\ clean /\ alive'
    BY <1>16, BusOk, BusNack, BusStray DEF FlushHeader
  <2> QED BY <1>16, <2>1, BusNack DEF FlushHeader, TypeOK, Chips
<1>17. CASE ClearFirstSlot
  <2>1. Bus("ok") /\ clean /\ alive'
    BY <1>17, BusOk, BusNack, BusStray DEF ClearFirstSlot
  <2> QED BY <1>17, <2>1, BusNack DEF ClearFirstSlot, TypeOK, Chips
<1>18. CASE ClearOtherSlots
  <2>1. Bus("ok") /\ clean /\ alive'
    BY <1>18, BusOk, BusNack, BusStray DEF ClearOtherSlots
  <2>2. /\ pc' = "header" /\ pass' = "after" /\ UNCHANGED <<page, esize>>
        /\ page = NoPage /\ esize # 0 /\ chip.formatted /\ chip.mark = 0
    BY <1>18, <2>1 DEF ClearOtherSlots
  <2>3. chip' = [chip EXCEPT !.log = "empty"]
    BY <1>18, <2>1, <2>2, BusNack, BusStray DEF ClearOtherSlots
  <2>4. chip' = [formatted |-> TRUE, mark |-> 0, log |-> "empty"]
    BY <2>2, <2>3 DEF TypeOK, Chips
  <2> QED BY <2>1, <2>2, <2>4
<1>19. CASE PowerCut
  BY <1>19 DEF PowerCut
<1>20. CASE LogEntries
  BY <1>20 DEF LogEntries
<1>21. CASE UNCHANGED vars
  BY <1>21 DEF vars, HeaderPage
<1> QED BY <1>1, <1>2, <1>3, <1>4, <1>5, <1>6, <1>7,
           <1>8, <1>9, <1>10, <1>11, <1>12, <1>13, <1>14,
           <1>15, <1>16, <1>17, <1>18, <1>19, <1>20, <1>21
        DEF Next, Begin, Decide, Format

----------------------------------------------------------------------------
(* The theorems.                                                           *)

LEMMA MountInit == Init => MountProofInv
<1> SUFFICES ASSUME Init PROVE MountProofInv
  OBVIOUS
<1>1. TypeOK
  <2>1. chip \in Chips /\ held \in Chips
    BY DEF Init
  <2>2. cells \in [Sizes -> Bytes] /\ saved \in [Sizes -> Bytes]
    BY BytesAre DEF Init, NothingSaved
  <2>3. page \in Pages
    BY DEF Init, NoPage, Pages
  <2>4. /\ alive \in BOOLEAN /\ clean \in BOOLEAN /\ ferror \in BOOLEAN
        /\ slots \in BOOLEAN /\ mounted \in BOOLEAN /\ misread \in BOOLEAN
    BY DEF Init
  <2> QED BY <2>1, <2>2, <2>3, <2>4 DEF Init, TypeOK, Places, Sizes
<1>2. PlaceInv /\ StrayInv /\ MountInv /\ ProbeInv /\ FormatInv
  BY DEF Init, PlaceInv, StrayInv, MountInv, ProbeInv, FormatInv, FormatPlaces
<1> QED BY <1>1, <1>2 DEF MountProofInv

LEMMA AlwaysMountInv == Spec => []MountProofInv
<1>1. MountProofInv /\ [Next]_vars => MountProofInv'
  BY TypeStep, PlaceStep, HistoryStep, MountStep, ProbeStep, FormatStep
     DEF MountProofInv
<1> QED BY <1>1, MountInit, PTL DEF Spec

\* Every state of a mount or a reset is of its type.
THEOREM MountTypeCorrect == Spec => []TypeOK
<1>1. MountProofInv => TypeOK
  BY DEF MountProofInv
<1> QED BY <1>1, AlwaysMountInv, PTL

\* A mount takes nothing from a healthy log unless it has mistaken the size of
\* the chip or has read a page from another place, whose address went
\* unacknowledged (TeHyBugEeprom::setup(), EepromFS::rawread()), whatever was
\* done before and whatever transaction fails now.
THEOREM HealthyLogIsKept == Spec => []LogKeptUnlessMisled
<1>1. MountProofInv => LogKeptUnlessMisled
  <2> SUFFICES ASSUME MountProofInv, task = "mount", Healthy(held),
                      esize \in {0, size}, ~misread
               PROVE  chip.formatted /\ chip.log = held.log
    BY DEF LogKeptUnlessMisled
  <2>1. ~(Formatting /\ esize = 0)
    BY DEF MountProofInv, PlaceInv, Formatting, FormatPlaces
  <2>2. chip = held
    BY <2>1 DEF MountProofInv, MountInv
  <2> QED BY <2>2 DEF Healthy
<1> QED BY <1>1, AlwaysMountInv, PTL

\* The mount of any chip on a working bus finds the capacity, leaves a file
\* system marked for it and puts every probed byte back (EepromFS::begin(),
\* setup()): also after resets, formats and mounts that failed half-way.
THEOREM MountIsRight == Spec => CleanMountIsRight
<1>1. MountProofInv /\ [Next]_vars =>
        [task = "mount" /\ task' = "none" /\ clean' =>
           /\ mounted' /\ esize' = size
           /\ chip'.formatted /\ chip'.mark = size
           /\ \A k \in Sizes : cells'[Cell(k)] = LogByte[Cell(k)]]_vars
  <2> SUFFICES ASSUME MountProofInv, Next,
                      task = "mount", task' = "none", clean'
               PROVE  /\ mounted' /\ esize' = size
                      /\ chip'.formatted /\ chip'.mark = size
                      /\ \A k \in Sizes : cells'[Cell(k)] = LogByte[Cell(k)]
    OBVIOUS
  <2> USE DEF MountProofInv
  <2>1. LeaveUntouched \/ AcceptLayout \/ AfterFormat \/ Stamp
    BY DEF Next, Begin, Decide, Format, Mount, Reset, ReadProbe, MarkProbe,
       VerifyProbe, RestoreProbe, ReadHeader, RetryMount, DecideFormat,
       ResetVerdict, FormatHeader, FlushHeader, ClearFirstSlot,
       ClearOtherSlots, PowerCut, LogEntries
  <2>2. clean
    BY <2>1, BusOk, BusNack, BusStray DEF LeaveUntouched, AcceptLayout, AfterFormat, Stamp
  <2>3. ~ferror
    BY <2>2 DEF ProbeInv
  <2>4. /\ pc \in {"verdict", "stamp"}
        /\ esize = size /\ \A k \in Sizes : cells[Cell(k)] = LogByte[Cell(k)]
    BY <2>1, <2>2 DEF ProbeInv, Restored, LeaveUntouched, AcceptLayout, Settled,
       AfterFormat, Stamp
  <2>5. CASE AcceptLayout
    <3>1. pc = "verdict" /\ page.mark = esize /\ slots /\ pass # "after"
      BY <2>5 DEF AcceptLayout, Settled
    <3>2. page = HeaderPage /\ page.formatted
      BY <2>2, <2>3, <3>1 DEF MountInv, StrayInv, Formatting, FormatPlaces
    <3> QED BY <2>4, <2>5, <3>1, <3>2, PageTypes DEF AcceptLayout, chipVars
  <2>6. CASE Stamp
    <3>1. mounted /\ chip.formatted /\ page = HeaderPage
      BY <2>2, <2>6 DEF FormatInv, Stamp
    <3>2. chip'.formatted = page.formatted /\ chip'.mark = esize
      BY <2>6, BusNack DEF Stamp
    <3> QED BY <2>4, <2>6, <3>1, <3>2, PageTypes DEF Stamp
  <2>7. CASE LeaveUntouched
    BY <2>3, <2>7 DEF LeaveUntouched, BusFailed
  <2>8. CASE AfterFormat
    BY <2>2, <2>8 DEF AfterFormat, Restamp, FormatInv
  <2> QED BY <2>1, <2>5, <2>6, <2>7, <2>8
<1> QED BY <1>1, AlwaysMountInv, PTL DEF Spec, CleanMountIsRight

\* A factory reset on a working bus leaves no entry behind and a file system
\* marked for its layout, also on an object nobody mounted
\* (TeHyBugEeprom::format()).
THEOREM ResetsErase == Spec => ResetErases
<1>1. MountProofInv /\ [Next]_vars =>
        [task = "reset" /\ task' = "none" /\ clean' =>
           /\ mounted' /\ esize' # 0
           /\ chip' = [formatted |-> TRUE, mark |-> esize', log |-> "empty"]]_vars
  <2> SUFFICES ASSUME MountProofInv, Next,
                      task = "reset", task' = "none", clean'
               PROVE  /\ mounted' /\ esize' # 0
                      /\ chip' = [formatted |-> TRUE, mark |-> esize',
                                  log |-> "empty"]
    OBVIOUS
  <2> USE DEF MountProofInv
  <2>1. ResetVerdict \/ AfterFormat \/ Stamp
    BY DEF Next, Begin, Decide, Format, Mount, Reset, ReadProbe, MarkProbe,
       VerifyProbe, RestoreProbe, ReadHeader, RetryMount, LeaveUntouched,
       AcceptLayout, Settled, DecideFormat, FormatHeader, FlushHeader,
       ClearFirstSlot, ClearOtherSlots, PowerCut, LogEntries
  <2>2. CASE Stamp
    <3>1. /\ clean
          /\ chip' = [formatted |-> page.formatted, mark |-> esize,
                       log |-> IF page.right THEN chip.log ELSE "torn"]
      BY <2>2, BusOk, BusNack DEF Stamp
    <3>2. pass = "after" /\ esize # 0
      BY <2>2 DEF PlaceInv, Stamp
    <3>3. /\ mounted /\ page = HeaderPage
          /\ chip = [formatted |-> TRUE, mark |-> 0, log |-> "empty"]
      BY <2>2, <3>1, <3>2 DEF FormatInv, Stamp
    <3>4. page.formatted = TRUE /\ page.right
      BY <3>3, PageTypes
    <3>5. chip' = [formatted |-> TRUE, mark |-> esize, log |-> "empty"]
      BY <3>1, <3>3, <3>4
    <3> QED BY <2>2, <3>2, <3>3, <3>5 DEF Stamp
  <2>3. CASE AfterFormat
    <3>1. clean /\ slots
      BY <2>3 DEF AfterFormat, FormatInv
    <3>2. task' = task
      BY <2>3, <3>1 DEF AfterFormat, Restamp
    <3> QED BY <3>2
  <2>4. CASE ResetVerdict
    BY <2>4 DEF ResetVerdict, FormatInv
  <2> QED BY <2>1, <2>2, <2>3, <2>4
<1> QED BY <1>1, AlwaysMountInv, PTL DEF Spec, ResetErases
=============================================================================
