------------------------------ MODULE RowIter ------------------------------
(***************************************************************************)
(* PageReader::get_page_by_index and PageRowIter (src/src/file/reader.rs): *)
(* the row-at-a-time path.  The reader keeps one open file and reads it    *)
(* sequentially; the index it is given counts only when it has to open a   *)
(* file, at the start and after a failed read (the next segment).  The     *)
(* iterator keeps its own idea of the position, a ctid made of two 16-bit  *)
(* halves of a block number and a 16-bit slot number.                      *)
(*                                                                         *)
(* `page` is the block that was really read.  Any open or read may fail,   *)
(* for the end of a file or for an I/O error, and get_page_by_index does   *)
(* not tell the two apart.  No caller asks an iterator again after None,   *)
(* so the model stops there.                                               *)
(***************************************************************************)
EXTENDS SegmentFiles, Sequences

CONSTANTS
    U16,           \* 2^16 in the code
    PageLayouts    \* line pointer arrays a page may have

(* "normal" is a line pointer get_row_data can follow; "corrupt" is a      *)
(* normal one whose tuple it rejects; the others have no tuple.            *)
LinePointers == {"normal", "corrupt", "dead", "unused", "redirect"}

ASSUME RowIterAssumption ==
    /\ U16 \in Nat \ {0}
    /\ PageLayouts \subseteq Seq(LinePointers)
    /\ \A layout \in PageLayouts : Len(layout) < U16

PageCount == MaxUnits \div 2

(* A block number is 32 bits wide, and the largest one is never used. *)
ASSUME BlockNumberAssumption == PageCount < U16 * U16

VARIABLES
    heap,          \* the line pointers of every page, present or to come
    fd_seg,        \* segment the reader has open, or None
    fd_pos,        \* its position there, in half pages
    asked,         \* page_index of the call of get_page_by_index in progress
    page,          \* current_page: the block it was read from, or None
    row_info,      \* current_row_info: [bi_hi, bi_lo, ip_posid], or NoRow
    at,            \* "loop", "open", "read", "reopen", "reread", "advance",
                   \* "ended", "panicked"
    rows,          \* <<block, slot>> of the rows handed out
    faulted        \* history: the page asked for was on disk at None

iterVars == <<heap, fd_seg, fd_pos, asked, page, row_info, at, rows, faulted>>
vars == <<fileVars, iterVars>>

None == -1
NoRow == <<>>

Init ==
    /\ FileInit
    /\ heap \in [0 .. PageCount - 1 -> PageLayouts]
    /\ fd_seg = None
    /\ fd_pos = 0
    /\ asked = 0
    /\ page = None
    /\ row_info = NoRow
    /\ at = "loop"
    /\ rows = <<>>
    /\ faulted = FALSE

-----------------------------------------------------------------------------
(* Mutant: the high half of a block number is never written. *)
BlockIdLowHalf(n) == [hi |-> 0, lo |-> n % U16]

(* BlockIdData: a block number cut into two halves and put together again. *)
BlockId(n) == [hi |-> (n \div U16) % U16, lo |-> n % U16]

block_number(id) == id.hi * U16 + id.lo

lp_num == Len(heap[page])

(* Mutant: the last slot of a page is not looked at. *)
PageFinishedEarly == row_info # NoRow /\ lp_num <= row_info.ip_posid + 2

PageFinished == row_info # NoRow /\ lp_num <= row_info.ip_posid + 1

(* Mutant: the current page is asked for again. *)
AskForSamePage ==
    /\ at = "loop"
    /\ page = None \/ PageFinished
    /\ asked' = IF page = None THEN 0 ELSE block_number(row_info.ip_blkid)
    /\ at' = IF fd_seg = None THEN "open" ELSE "read"
    /\ UNCHANGED <<heap, fd_seg, fd_pos, page, row_info, rows, faulted>>

(* The top of the loop of next(): a new page is needed. *)
AskForPage ==
    /\ at = "loop"
    /\ page = None \/ PageFinished
    /\ asked' = IF page = None THEN 0 ELSE block_number(row_info.ip_blkid) + 1
    /\ at' = IF fd_seg = None THEN "open" ELSE "read"
    /\ UNCHANGED <<heap, fd_seg, fd_pos, page, row_info, rows, faulted>>

(* get_reader: the segment file of the page asked for, sought to its place. *)
OpenAsked ==
    /\ Exists(segment_num(asked))
    /\ fd_seg' = segment_num(asked)
    /\ fd_pos' = 2 * page_in_segment(asked)
    /\ UNCHANGED <<heap, asked, page, row_info, rows, faulted>>

(* get_page_by_index opens the first file; the unwrap panics when open or  *)
(* seek fails, whether the file is missing or not.                         *)
OpenFirst ==
    /\ at = "open"
    /\ \/ OpenAsked /\ at' = "read"
       \/ at' = "panicked" /\ UNCHANGED <<heap, fd_seg, fd_pos, asked, page, row_info,
                                          rows, faulted>>

(* Mutant: on a new page the position is put on slot 0, not before it. *)
GotPageOnSlotZero ==
    /\ SegmentUnits(fd_seg) >= fd_pos + 2
    /\ fd_pos' = fd_pos + 2
    /\ page' = FirstPage(fd_seg) + fd_pos \div 2
    /\ row_info' = IF row_info = NoRow THEN NoRow
                   ELSE [ip_blkid |-> BlockId(asked), ip_posid |-> 0]
    /\ at' = "advance"
    /\ UNCHANGED <<heap, fd_seg, asked, rows, faulted>>

(* A page could be read: it becomes the current one, and if it is not the  *)
(* first the position moves to just before its first slot.                 *)
GotPage ==
    /\ SegmentUnits(fd_seg) >= fd_pos + 2
    /\ fd_pos' = fd_pos + 2
    /\ page' = FirstPage(fd_seg) + fd_pos \div 2
    /\ row_info' = IF row_info = NoRow THEN NoRow
                   ELSE [ip_blkid |-> BlockId(asked), ip_posid |-> U16 - 1]
    /\ at' = "advance"
    /\ UNCHANGED <<heap, fd_seg, asked, rows, faulted>>

(* read_exact fails: at the end of the file, past whatever part was there, *)
(* or because a system call does, at any point.                            *)
ReadFails ==
    /\ fd_pos' \in {fd_pos, fd_pos + 1}
    /\ fd_pos' <= GreatestOf(fd_pos, SegmentUnits(fd_seg))
    /\ UNCHANGED <<heap, fd_seg, asked, page, row_info, rows>>

(* get_page_by_index returns Err, and the iterator None.                   *)
EndIteration ==
    /\ at' = "ended"
    /\ faulted' = (2 * (page_in_segment(asked) + 1) <= SegmentUnits(segment_num(asked)))

Read ==
    /\ at = "read"
    /\ GotPage \/ (ReadFails /\ at' = "reopen" /\ UNCHANGED faulted)

(* "Check the next segment file": open again, now by index. *)
Reopen ==
    /\ at = "reopen"
    /\ \/ OpenAsked /\ at' = "reread"
       \/ EndIteration /\ UNCHANGED <<heap, fd_seg, fd_pos, asked, page, row_info, rows>>

(* Mutant: the segment file is opened and read again and again. *)
RereadRetries ==
    /\ at = "reread"
    /\ GotPage \/ (ReadFails /\ at' = "reopen" /\ UNCHANGED faulted)

Reread ==
    /\ at = "reread"
    /\ GotPage \/ (ReadFails /\ EndIteration)

(* Mutant: the slot number does not wrap. *)
AdvanceWithoutWrap ==
    /\ at = "advance" \/ (at = "loop" /\ page # None /\ ~PageFinished)
    /\ LET blkid == IF row_info = NoRow THEN BlockId(0) ELSE row_info.ip_blkid
           posid == IF row_info = NoRow THEN 0 ELSE row_info.ip_posid + 1
       IN  /\ row_info' = [ip_blkid |-> blkid, ip_posid |-> posid]
           /\ rows' = IF posid < lp_num /\ heap[page][posid + 1] = "normal"
                        THEN Append(rows, <<page, posid>>) ELSE rows
    /\ at' = "loop"
    /\ UNCHANGED <<heap, fd_seg, fd_pos, asked, page, faulted>>

(* The rest of the loop: step to the next slot (wrapping) and look at its  *)
(* line pointer; a row is handed out, anything else is passed over.        *)
Advance ==
    /\ at = "advance" \/ (at = "loop" /\ page # None /\ ~PageFinished)
    /\ LET blkid == IF row_info = NoRow THEN BlockId(0) ELSE row_info.ip_blkid
           posid == IF row_info = NoRow THEN 0 ELSE (row_info.ip_posid + 1) % U16
       IN  /\ row_info' = [ip_blkid |-> blkid, ip_posid |-> posid]
           /\ rows' = IF posid < lp_num /\ heap[page][posid + 1] = "normal"
                        THEN Append(rows, <<page, posid>>) ELSE rows
    /\ at' = "loop"
    /\ UNCHANGED <<heap, fd_seg, fd_pos, asked, page, faulted>>

Iterate == AskForPage \/ OpenFirst \/ Read \/ Reopen \/ Reread \/ Advance

Next ==
    \/ Iterate /\ UNCHANGED fileVars
    \/ Writer /\ UNCHANGED iterVars

Spec == Init /\ [][Next]_vars

(* The caller consumes the iterator to its end. *)
FairSpec == Spec /\ WF_vars(Iterate /\ UNCHANGED fileVars)

-----------------------------------------------------------------------------
(* The types of the variables. *)
TypeOK ==
    /\ FileTypeOK
    /\ heap \in [0 .. PageCount - 1 -> PageLayouts]
    /\ fd_seg \in Nat \cup {None}
    /\ fd_pos \in Nat
    /\ asked \in Nat
    /\ page \in Nat \cup {None}
    /\ row_info = NoRow \/ row_info \in
         [ip_blkid : [hi : 0 .. U16 - 1, lo : 0 .. U16 - 1], ip_posid : 0 .. U16 - 1]
    /\ at \in {"loop", "open", "read", "reopen", "reread", "advance", "ended",
               "panicked"}
    /\ rows \in Seq(Nat \X Nat)
    /\ faulted \in BOOLEAN

(* The sequential reader and the iterator's own ctid agree: the page whose *)
(* slots are being walked is the block the ctid names, across segment      *)
(* boundaries, failed reads and the carry from bi_lo to bi_hi.             *)
PageMatchesCtid ==
    page # None /\ row_info # NoRow => page = block_number(row_info.ip_blkid)

(* Has the iterator passed this slot? *)
Passed(block, slot) ==
    /\ page # None
    /\ \/ block < page
       \/ block = page /\ at # "advance" /\ row_info # NoRow
                       /\ slot <= row_info.ip_posid

NormalSlots ==
    {slot \in (0 .. PageCount - 1) \X (0 .. U16 - 1) :
        /\ slot[2] < Len(heap[slot[1]])
        /\ heap[slot[1]][slot[2] + 1] = "normal"}

(* The rows handed out are exactly the normal line pointers passed so far, *)
(* each once and in ctid order: slot 0 of a page is not skipped, an empty  *)
(* page does not stop or repeat anything, a dead, unused, redirected or    *)
(* corrupt line pointer hides no neighbour.                                *)
RowsExact ==
    /\ {rows[i] : i \in 1 .. Len(rows)} =
         {slot \in NormalSlots : Passed(slot[1], slot[2])}
    /\ \A i, j \in 1 .. Len(rows) : i < j =>
         \/ rows[i][1] < rows[j][1]
         \/ rows[i][1] = rows[j][1] /\ rows[i][2] < rows[j][2]

(* When the iterator has returned None, every row of every page that was   *)
(* on disk during the whole iteration has been handed out, unless the open *)
(* or the read that led to None failed on a page that was there.           *)
RowsComplete ==
    at = "ended" /\ ~faulted => \A slot \in NormalSlots :
        slot[1] < lo => \E i \in 1 .. Len(rows) : rows[i] = slot

(* The next read from the open file would return this page. *)
Positioned(block) == fd_seg # None /\ 2 * FirstPage(fd_seg) + fd_pos = 2 * block

(* Only pages that were complete on disk are walked, and the relation      *)
(* stays below its bound.                                                  *)
OnDisk == len <= MaxUnits /\ hi <= PageCount /\ page < hi

(* How the reader's file position, the index it is asked for and the       *)
(* iterator's ctid go together at each point of next(): between two pages  *)
(* the index asked for is the one after the current page, all of whose     *)
(* slots have been passed, and the file stands there.                      *)
InStep ==
    /\ page = None => row_info = NoRow
    /\ at = "loop" => IF page = None THEN fd_seg = None
                      ELSE row_info # NoRow /\ Positioned(page + 1)
    /\ at \in {"open", "read", "reopen", "reread", "ended"} =>
          asked = page + 1 /\ (page # None => PageFinished)
    /\ at = "open" => page = None
    /\ at \in {"read", "reread"} => Positioned(asked)
    /\ at = "reopen" => fd_seg # None
    /\ at = "advance" =>
          /\ page # None
          /\ Positioned(page + 1)
          /\ IF row_info = NoRow THEN page = 0 ELSE row_info.ip_posid = U16 - 1
    /\ at = "ended" /\ ~faulted => lo <= page + 1

(* The inductive invariant of the row iterator: the file, the index asked  *)
(* for and the ctid are in step after every call, failed read and change   *)
(* of segment, which is why the rows are exact and none is left out.       *)
IterInv ==
    /\ TypeOK
    /\ FileInv
    /\ OnDisk
    /\ InStep
    /\ PageMatchesCtid
    /\ RowsExact

(* At the level of pages the iterator is a scan from page 0 to the end; a  *)
(* page that could not be opened or read is a failure, though next() says  *)
(* None: see the README.                                                   *)
Scan == INSTANCE PageScan WITH
          start <- 0,
          max_page_index <- -1,
          out <- [i \in 1 .. page + 1 |-> i - 1],
          status <- IF at = "panicked" \/ (at = "ended" /\ faulted) THEN "failed"
                    ELSE IF at = "ended" THEN "ended" ELSE "open"

(* The row iterator reads the pages a scan promises: in order, each once,  *)
(* only complete ones, and all of them before it ends, unless a page that  *)
(* is there cannot be read.                                                *)
ImplementsScan == Scan!ScanSpec

(* A caller that goes on asking gets None (or the panic of a first file    *)
(* that cannot be opened), whatever pages without a single row are in      *)
(* between and whatever calls fail.                                        *)
Terminates == <>(at \in {"ended", "panicked"})
=============================================================================
