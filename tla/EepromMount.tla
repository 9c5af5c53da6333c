---------------------------- MODULE EepromMount ----------------------------
(***************************************************************************)
(* Mounting and formatting the EEPROM data log, one bus transaction per    *)
(* step: EepromFS::begin(), which finds out the size of the chip by        *)
(* marking it, and TeHyBugEeprom::setup() and format(), which decide from  *)
(* the outcome and from the error flag whether the chip is formatted.      *)
(* A transaction may fail and the supply may go at any step.               *)
(*                                                                         *)
(* The chip is its header page, the state of the log behind it, and the    *)
(* three bytes the size probe overwrites.  A chip of size n has cells 1..n *)
(* and ignores the higher address bits: probe i lands on cell Min(i, n).   *)
(***************************************************************************)
EXTENDS Naturals, FiniteSetsExt

Sizes == 1..3                                   \* SIZE_CODE_4K, _32K, _64K
Mark == [i \in Sizes |-> <<"m1", "m2", "m3">>[i]]        \* 42, 84, 126
LogByte == [i \in Sizes |-> <<"d1", "d2", "d3">>[i]]
Bytes == {Mark[i] : i \in Sizes} \cup {LogByte[i] : i \in Sizes} \cup {"void"}
Chips == [formatted : BOOLEAN, mark : 0..3, log : {"intact", "torn", "empty"}]
Pages == [here : BOOLEAN, right : BOOLEAN, formatted : BOOLEAN, mark : 0..3]

VARIABLES
  size,      \* the chip on the board
  chip,      \* header page and log
  cells,     \* the bytes the probe overwrites
  alive,     \* the bus answers
  clean,     \* history: the bus has answered throughout the task
  misread,   \* history: a page came from a place nobody asked for
  held,      \* history: the chip when the task began
  task,      \* "none", "mount" or "reset"
  pc,
  i,         \* the probe the size detection is at
  pass,      \* which begin(): "first", "retry", or "after" the format
  saved,     \* c4, c32, c64
  esize,     \* eepromsize; 0: not known
  ferror,    \* ferror is not zero
  page,      \* the buffered header page, right if it is that of the chip
  slots,     \* what begin() returned is not zero
  mounted

chipVars == <<size, chip, cells>>
vars == <<size, chip, cells, alive, clean, misread, held, task, pc, i, pass,
          saved, esize, ferror, page, slots, mounted>>

Places == {"idle", "read", "mark", "verify", "restore", "header", "verdict",
           "stamp", "format", "flush", "clear", "clearRest"}

TypeOK ==
  /\ size \in Sizes /\ chip \in Chips /\ cells \in [Sizes -> Bytes]
  /\ alive \in BOOLEAN /\ clean \in BOOLEAN /\ misread \in BOOLEAN
  /\ held \in Chips
  /\ task \in {"none", "mount", "reset"} /\ pc \in Places
  /\ i \in Sizes /\ pass \in {"first", "retry", "after"}
  /\ saved \in [Sizes -> Bytes]
  /\ esize \in 0..3 /\ ferror \in BOOLEAN
  /\ page \in Pages
  /\ slots \in BOOLEAN /\ mounted \in BOOLEAN

----------------------------------------------------------------------------
\* The bytes saved are locals of begin(), each written back once.
NothingSaved == [k \in Sizes |-> "void"]
Page(formatted, mark) ==
  [here |-> TRUE, right |-> TRUE, formatted |-> formatted, mark |-> mark]
NoPage == [here |-> FALSE, right |-> TRUE, formatted |-> FALSE, mark |-> 0]
HeaderPage == Page(chip.formatted, chip.mark)
OtherPages == {p \in Pages : p.here /\ ~p.right}

\* The address a chip of this size decodes for probe k.
Cell(k) == Min({k, size})

\* A chip may carry the mark of a mount that took it for another size.
Init ==
  /\ size \in Sizes
  /\ chip \in {c \in Chips : c.log # "torn" /\ (~c.formatted => c.mark = 0)}
  /\ cells = LogByte
  /\ alive = TRUE /\ clean = TRUE /\ misread = FALSE
  /\ held = chip
  /\ task = "none" /\ pc = "idle" /\ i = 1 /\ pass = "first"
  /\ saved = NothingSaved
  /\ esize = 0 /\ ferror = FALSE /\ page = NoPage
  /\ slots = FALSE /\ mounted = FALSE

\* The bus may answer again only in begin(): what a format leaves that is
\* answered here and there is not modelled.
InBegin == pc \in {"read", "mark", "verify", "restore", "header"}

\* A transaction is answered, not acknowledged, or acknowledged and then cut
\* off.  It may be the only one that fails, or the bus falls silent.  One that
\* loads a page is two: "stray" is an address that is not acknowledged, which
\* rawread() does not look at, before a read that is answered.
Bus(answer) ==
  /\ answer # "nack" => alive
  /\ alive' \in IF answer \in {"ok", "stray"} THEN {TRUE}
                ELSE {FALSE, alive /\ InBegin}
  /\ clean' = (clean /\ answer = "ok")
  /\ misread' = (misread \/ answer = "stray")
Answers == {"ok", "nack", "cut"}

\* readbyte(): the error flag is overwritten, a read that is cut off leaves
\* no error and no byte.
ReadByte(k, byte) ==
  \E answer \in Answers :
    /\ Bus(answer)
    /\ ferror' = (answer = "nack")
    /\ byte = IF answer = "ok" THEN cells[Cell(k)] ELSE "void"

\* writebyte(): the error flag is overwritten.
WriteByte(k, byte) ==
  \E answer \in {"ok", "nack"} :
    /\ Bus(answer)
    /\ ferror' = (answer = "nack")
    /\ cells' = IF answer = "ok" THEN [cells EXCEPT ![Cell(k)] = byte] ELSE cells

\* begin() starts with the size probe only while the size is not known.
BeginAt == IF esize = 0 THEN "read" ELSE "header"

\* setup() on a new object, after a reset.  Bound: a task finds log bytes in
\* the cells, not the marks or holes an earlier one may have left there.
Mount ==
  /\ task = "none" /\ pc = "idle"
  /\ task' = "mount" /\ pc' = "read" /\ i' = 1 /\ pass' = "first"
  /\ alive' \in BOOLEAN /\ clean' = alive' /\ misread' = FALSE
  /\ held' = chip /\ cells' = LogByte
  /\ esize' = 0 /\ ferror' = FALSE /\ page' = NoPage
  /\ UNCHANGED <<size, chip, saved, slots, mounted>>

ResetBegins_Direct == "format"  \* mutant: format() without begin()
ResetBegins == BeginAt

\* format(): by the factory reset, on a new object or on a mounted one.  The
\* buffer may hold any page.
Reset ==
  /\ pc = "idle"
  /\ task' = "reset" /\ pc' = ResetBegins /\ i' = 1 /\ pass' = "first"
  /\ clean' = alive /\ misread' = FALSE
  /\ held' = chip /\ cells' = LogByte
  /\ page' \in {page, NoPage}
  /\ UNCHANGED <<size, chip, alive, saved, esize, ferror, slots, mounted>>

----------------------------------------------------------------------------
(* EepromFS::begin()                                                       *)

ReadProbe ==
  /\ pc = "read"
  /\ \E byte \in Bytes :
       /\ ReadByte(i, byte)
       /\ saved' = [saved EXCEPT ![i] = byte]
  /\ pc' = IF i = 3 THEN "mark" ELSE "read"
  /\ i' = IF i = 3 THEN 1 ELSE i + 1
  /\ UNCHANGED <<chipVars, held, task, pass, esize, page, slots, mounted>>

\* Only the last of the three writes decides whether the probe gives up.
MarkProbe ==
  /\ pc = "mark"
  /\ WriteByte(i, Mark[i])
  /\ pc' = IF i < 3 THEN "mark" ELSE IF ferror' THEN "verdict" ELSE "verify"
  /\ i' = IF i = 3 THEN 1 ELSE i + 1
  /\ slots' = (slots /\ ~(i = 3 /\ ferror'))
  /\ saved' = IF pc' = "verdict" THEN NothingSaved ELSE saved
  /\ UNCHANGED <<size, chip, held, task, pass, esize, page, mounted>>

ProbesRead_Three == 3  \* mutant: off by one
ProbesRead == 2

VerifyProbe ==
  /\ pc = "verify"
  /\ \E byte \in Bytes :
       /\ ReadByte(i, byte)
       /\ \/ /\ byte # Mark[i]
             /\ esize' = i /\ pc' = "restore" /\ i' = 1
          \/ /\ byte = Mark[i] /\ i < ProbesRead
             /\ i' = i + 1
             /\ UNCHANGED <<esize, pc>>
          \/ /\ byte = Mark[i] /\ i = ProbesRead
             /\ esize' = ProbesRead + 1 /\ pc' = "restore" /\ i' = 1
  /\ UNCHANGED <<chipVars, held, task, pass, saved, page, slots, mounted>>

RestoreProbe ==
  /\ pc = "restore"
  /\ WriteByte(i, saved[i])
  /\ pc' = IF i = 3 THEN "header" ELSE "restore"
  /\ i' = IF i = 3 THEN 1 ELSE i + 1
  /\ saved' = [saved EXCEPT ![i] = "void"]
  /\ UNCHANGED <<size, chip, held, task, pass, esize, page, slots, mounted>>

\* rawread(0): a page that cannot be loaded adds to the error flag.  One that
\* comes from another place is taken for the header, whatever it holds.
ReadHeader ==
  /\ pc = "header"
  /\ pc' = "verdict"
  /\ \/ /\ page.here
        /\ slots' = page.formatted
        /\ UNCHANGED <<alive, clean, misread, ferror, page>>
     \/ /\ ~page.here
        /\ Bus("ok")
        /\ page' = HeaderPage
        /\ slots' = chip.formatted
        /\ UNCHANGED ferror
     \/ /\ ~page.here
        /\ Bus("stray")
        /\ page' \in OtherPages
        /\ slots' = page'.formatted
        /\ UNCHANGED ferror
     \/ /\ ~page.here
        /\ Bus("nack")
        /\ ferror' = TRUE
        /\ slots' = FALSE
        /\ UNCHANGED page
  /\ UNCHANGED <<chipVars, held, task, i, pass, saved, esize, mounted>>

----------------------------------------------------------------------------
(* TeHyBugEeprom::setup() and format(), after begin() has returned         *)

Done == pc' = "idle" /\ task' = "none"

BusFailed_Ignored == FALSE  \* mutant: setup() does not look at ferror
BusFailed == ferror

NextPass_First == "first"  \* mutant: it settles and retries without end
NextPass == "retry"

\* The one settle, in which the bus may come back: the error is cleared and
\* begin() runs again.
RetryMount ==
  /\ pc = "verdict" /\ task = "mount" /\ pass = "first"
  /\ BusFailed
  /\ pass' = NextPass /\ pc' = BeginAt /\ i' = 1
  /\ ferror' = FALSE
  /\ alive' \in {alive, TRUE}
  /\ UNCHANGED <<chipVars, clean, misread, held, task, saved, esize, page,
                 slots, mounted>>

\* The bus still fails: the chip is left alone.
LeaveUntouched ==
  /\ pc = "verdict" /\ task = "mount" /\ pass = "retry"
  /\ BusFailed
  /\ mounted' = FALSE
  /\ Done
  /\ UNCHANGED <<chipVars, alive, clean, misread, held, i, pass, saved, esize,
                 ferror, page, slots>>

\* A log from before the capacity mark was laid out for the 32 KB part.
Legacy == page.mark = 0 /\ esize = 2

\* begin() is done and its errors, if any, were dealt with.
Settled ==
  pc = "verdict" /\ task = "mount" /\ pass # "after" /\ ~BusFailed

AcceptLayout ==
  /\ Settled /\ slots
  /\ \/ page.mark = esize /\ Done
     \/ Legacy /\ pc' = "stamp" /\ task' = task
  /\ mounted' = TRUE
  /\ UNCHANGED <<chipVars, alive, clean, misread, held, i, pass, saved, esize,
                 ferror, page, slots>>

\* Blank, or laid out for another capacity.
DecideFormat ==
  /\ Settled
  /\ slots => page.mark # esize /\ ~Legacy
  /\ pc' = "format"
  /\ UNCHANGED <<chipVars, alive, clean, misread, held, task, i, pass, saved,
                 esize, ferror, page, slots, mounted>>

\* The reset formats whatever begin() said, once it knows the capacity.
ResetVerdict ==
  /\ pc = "verdict" /\ task = "reset" /\ pass = "first"
  /\ \/ esize = 0 /\ mounted' = FALSE /\ Done
     \/ esize # 0 /\ pc' = "format" /\ UNCHANGED <<task, mounted>>
  /\ UNCHANGED <<chipVars, alive, clean, misread, held, i, pass, saved, esize,
                 ferror, page, slots>>

Restamp_Forgotten == FALSE  \* mutant: the fresh file system is not marked
Restamp == slots

\* After the format: nothing looks at the error flag.
AfterFormat ==
  /\ pc = "verdict" /\ pass = "after"
  /\ mounted' = slots
  /\ \/ Restamp /\ pc' = "stamp" /\ UNCHANGED task
     \/ ~Restamp /\ Done
  /\ UNCHANGED <<chipVars, alive, clean, misread, held, i, pass, saved, esize,
                 ferror, page, slots>>

\* markSize(): the mark goes into the buffered page, and the page to the chip,
\* with the name of the first slot and whatever else it holds.
Stamp ==
  /\ pc = "stamp"
  /\ page' = [page EXCEPT !.mark = esize]
  /\ \/ /\ Bus("ok")
        /\ chip' = [formatted |-> page.formatted, mark |-> esize,
                    log |-> IF page.right THEN chip.log ELSE "torn"]
        /\ UNCHANGED ferror
     \/ Bus("nack") /\ chip' = chip /\ ferror' = TRUE
  /\ Done
  /\ UNCHANGED <<size, cells, held, i, pass, saved, esize, slots, mounted>>

----------------------------------------------------------------------------
(* EepromFS::format()                                                      *)

\* The header is built in the buffer, which has to load its page first and
\* keeps nothing of it.
FormatHeader ==
  /\ pc = "format"
  /\ \/ page.here /\ UNCHANGED <<alive, clean, misread, ferror>>
     \/ ~page.here /\ (Bus("ok") \/ Bus("stray")) /\ UNCHANGED ferror
     \/ ~page.here /\ Bus("nack") /\ ferror' = TRUE
  /\ LET loaded == page.here \/ alive'
     IN  /\ page' = IF loaded THEN Page(TRUE, 0) ELSE page
         /\ pc' = IF loaded THEN "flush" ELSE "clear"
  /\ UNCHANGED <<chipVars, held, task, i, pass, saved, esize, slots, mounted>>

\* The header page holds the name of the first slot too, which is cleared with
\* it; the rest of that slot's header makes the page go out.
FlushHeader ==
  /\ pc = "flush"
  /\ \/ /\ Bus("ok")
        /\ chip' = [formatted |-> TRUE, mark |-> 0,
                    log |-> IF chip.log = "empty" THEN "empty" ELSE "torn"]
        /\ UNCHANGED ferror
     \/ Bus("nack") /\ chip' = chip /\ ferror' = TRUE
  /\ pc' = "clear"
  /\ UNCHANGED <<size, cells, held, task, i, pass, saved, esize, page, slots,
                 mounted>>

\* The slot headers are cleared one by one: the first, in the next page, ...
ClearFirstSlot ==
  /\ pc = "clear"
  /\ \/ /\ Bus("ok") \/ Bus("stray")
        /\ page' = NoPage
        /\ pc' = "clearRest"
        /\ UNCHANGED <<ferror, pass>>
     \/ /\ Bus("nack")
        /\ ferror' = TRUE
        /\ pc' = "header" /\ pass' = "after"
        /\ UNCHANGED page
  /\ UNCHANGED <<chipVars, held, task, i, saved, esize, slots, mounted>>

\* ... and the others, which lie where the capacity says.  Without one they
\* are cleared at places that mean nothing.  A header that seems to be clear,
\* because another page was read, is not written.
ClearOtherSlots ==
  /\ pc = "clearRest"
  /\ \/ /\ Bus("ok")
        /\ chip' = [chip EXCEPT !.log = IF esize # 0 THEN "empty" ELSE @]
        /\ UNCHANGED ferror
     \/ /\ Bus("stray")
        /\ chip' \in
             {chip, [chip EXCEPT !.log = IF esize # 0 THEN "empty" ELSE @]}
        /\ UNCHANGED ferror
     \/ Bus("nack") /\ chip' = chip /\ ferror' = TRUE
  /\ pc' = "header" /\ pass' = "after"
  /\ UNCHANGED <<size, cells, held, task, i, saved, esize, page, slots,
                 mounted>>

\* The supply goes: what reached the chip stays.
PowerCut ==
  /\ pc' = "idle" /\ task' = "none"
  /\ alive' = TRUE /\ clean' = FALSE /\ misread' = FALSE
  /\ esize' = 0 /\ ferror' = FALSE /\ page' = NoPage
  /\ i' = 1 /\ pass' = "first" /\ slots' = FALSE /\ mounted' = FALSE
  /\ saved' = NothingSaved
  /\ UNCHANGED <<chipVars, held>>

\* Between two tasks day files are written, on a mounted file system.
LogEntries ==
  /\ pc = "idle" /\ mounted /\ alive
  /\ chip' = [chip EXCEPT !.log = "intact"]
  /\ UNCHANGED <<size, cells, alive, clean, misread, held, task, pc, i, pass,
                 saved, esize, ferror, page, slots, mounted>>

Begin == ReadProbe \/ MarkProbe \/ VerifyProbe \/ RestoreProbe \/ ReadHeader
Decide ==
  \/ RetryMount \/ LeaveUntouched \/ AcceptLayout \/ DecideFormat
  \/ ResetVerdict \/ AfterFormat \/ Stamp
Format == FormatHeader \/ FlushHeader \/ ClearFirstSlot \/ ClearOtherSlots
Next == Mount \/ Reset \/ Begin \/ Decide \/ Format \/ PowerCut \/ LogEntries

Spec == Init /\ [][Next]_vars
FairSpec == Spec /\ WF_vars(Begin \/ Decide \/ Format)

----------------------------------------------------------------------------
(* Properties                                                              *)

\* Laid out for the chip it is on, or from before the capacity mark.
Healthy(c) == c.formatted /\ (c.mark = size \/ (c.mark = 0 /\ size = 2))

\* A mount never takes anything from a log that was fine when it started,
\* whatever the bus does (setup(): "a skipped log entry beats an erased log").
\* The size probe breaks this, and so does a header read from another place
\* (README, "Where code and words part").
HealthyLogKept ==
  task = "mount" /\ Healthy(held) =>
    chip.formatted /\ chip.log = held.log

\* Those are the only two: a mount that has not mistaken the size of the chip
\* and has read no page from another place takes nothing from a log that was
\* fine, whatever transaction fails, alone or with all that follow.  A chip
\* that does not answer is not taken for a blank one.
LogKeptUnlessMisled ==
  task = "mount" /\ Healthy(held) /\ esize \in {0, size} /\ ~misread =>
    chip.formatted /\ chip.log = held.log

\* A mount on a working bus ends with the right capacity, a file system laid
\* out and marked for it, and every probed byte as it was, from any chip,
\* also one whose format was interrupted.
CleanMountIsRight ==
  [][task = "mount" /\ task' = "none" /\ clean' =>
       /\ mounted' /\ esize' = size
       /\ chip'.formatted /\ chip'.mark = size
       /\ \A k \in Sizes : cells'[Cell(k)] = LogByte[Cell(k)]]_vars

\* A reset on a working bus leaves no entry and a file system marked for the
\* layout it has, also on an object that has not been mounted (format(): "a
\* factory reset that keeps the log is the one outcome it must not have").
ResetErases ==
  [][task = "reset" /\ task' = "none" /\ clean' =>
       /\ mounted' /\ esize' # 0
       /\ chip' = [formatted |-> TRUE, mark |-> esize', log |-> "empty"]]_vars

\* A task that is begun ends: the retry is made once and the probe is bounded.
TaskEnds == task # "none" ~> task = "none"
============================================================================
