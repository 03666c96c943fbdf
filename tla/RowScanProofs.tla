--------------------------- MODULE RowScanProofs ---------------------------
(***************************************************************************)
(* Proofs about the rows that scans return.                                *)
(*                                                                         *)
(* PageRowIter: for every segment size, relation size and set of page      *)
(* layouts, IterInv is an inductive invariant, the properties of RowIter   *)
(* follow from it, and the iterator implements PageScan.                   *)
(*                                                                         *)
(* The tuple filter of a snapshot scan: for every number of pages, slots,  *)
(* transactions and changes, VisibilityInv is an inductive invariant, and  *)
(* the properties of Visibility follow from it.                            *)
(***************************************************************************)
EXTENDS RowIter, Visibility, SegmentFilesProofs, WellFoundedInduction

-----------------------------------------------------------------------------
(* PageRowIter. *)

(* The bounds are natural numbers. *)
LEMMA Bounds ==
    /\ U16 \in Nat /\ U16 > 0
    /\ PageCount \in Nat /\ PageCount < U16 * U16
    /\ MaxUnits \in Nat /\ WholePages(MaxUnits) = PageCount
    BY RowIterAssumption, BlockNumberAssumption, SegmentAssumption DEF PageCount, WholePages

(* Cutting a block number into two halves and putting it together again    *)
(* gives it back, whatever carries from the low to the high half.          *)
LEMMA BlockIdRoundTrip ==
    ASSUME NEW n \in Nat, n < U16 * U16
    PROVE  /\ BlockId(n) \in [hi : 0 .. U16 - 1, lo : 0 .. U16 - 1]
           /\ block_number(BlockId(n)) = n
<1> DEFINE h == n \div U16
           l == n % U16
<1>1. U16 \in Nat /\ U16 > 0
    BY Bounds
<1>2. h \in Int /\ l \in 0 .. U16 - 1 /\ n = U16 * h + l
    BY <1>1, Z3
<1> HIDE DEF h, l
<1>3. h >= 0
    <2> SUFFICES ASSUME h < 0 PROVE FALSE
        BY <1>2
    <2>1. U16 * h <= U16 * (-1)
        BY <1>1, <1>2, Z3
    <2> QED
        BY <1>1, <1>2, <2>1
<1>4. h < U16
    <2> SUFFICES ASSUME h >= U16 PROVE FALSE
        BY <1>1, <1>2
    <2>1. U16 * h >= U16 * U16
        BY <1>1, <1>2, Z3
    <2> QED
        BY <1>1, <1>2, <2>1
<1>5. h % U16 = h
    BY <1>1, <1>2, <1>3, <1>4, Z3
<1>6. BlockId(n) = [hi |-> h, lo |-> l]
    BY <1>5 DEF BlockId, h, l
<1>7. h * U16 = U16 * h
    BY <1>1, <1>2, Z3
<1> QED
    BY <1>1, <1>2, <1>3, <1>4, <1>6, <1>7 DEF block_number

(* The slot after the last one wraps to slot 0, any other is the next. *)
LEMMA NextSlot ==
    ASSUME NEW n \in 0 .. U16 - 1
    PROVE  (n + 1) % U16 = IF n = U16 - 1 THEN 0 ELSE n + 1
    BY Bounds, Z3

(* Opening by index puts the file on the page that was asked for. *)
LEMMA OpenPositions ==
    ASSUME NEW n \in Nat
    PROVE  /\ segment_num(n) \in Nat
           /\ 2 * page_in_segment(n) \in Nat
           /\ 2 * page_in_segment(n) < 2 * PagesPerSegment
           /\ 2 * FirstPage(segment_num(n)) + 2 * page_in_segment(n) = 2 * n
<1> DEFINE s == segment_num(n)
           p == page_in_segment(n)
           f == FirstPage(s)
<1>1. /\ s \in Nat /\ p \in 0 .. PagesPerSegment - 1
      /\ f \in Nat /\ f + p = n
    BY PageSplit
<1>2. PagesPerSegment \in Nat
    BY SegmentAssumption
<1> HIDE DEF s, p, f
<1>3. 2 * p \in Nat /\ 2 * p < 2 * PagesPerSegment /\ 2 * f + 2 * p = 2 * n
    BY <1>1, <1>2
<1> QED
    BY <1>1, <1>3 DEF s, p, f

(* The pages of a page layout have fewer than U16 slots. *)
LEMMA Layouts ==
    ASSUME TypeOK, NEW b \in 0 .. PageCount - 1
    PROVE  /\ heap[b] \in Seq(LinePointers)
           /\ Len(heap[b]) \in Nat
           /\ Len(heap[b]) < U16
<1>1. heap[b] \in PageLayouts
    BY DEF TypeOK
<1> QED
    BY <1>1, RowIterAssumption

(* Halving keeps the order. *)
LEMMA HalfMonotone ==
    ASSUME NEW a \in Nat, NEW b \in Nat, a <= b
    PROVE  a \div 2 <= b \div 2
    BY Z3

(* The writer keeps the relation below its bound. *)
LEMMA WriterBounded ==
    ASSUME FileTypeOK, len <= MaxUnits, hi <= PageCount, Writer
    PROVE  len' <= MaxUnits /\ hi' <= PageCount
<1>1. MaxUnits \in Nat /\ PageCount = MaxUnits \div 2
    BY Bounds DEF PageCount
<1>2. len \in Nat /\ hi \in Nat
    BY DEF FileTypeOK
<1>3. CASE CreateSegment
    BY <1>3 DEF CreateSegment
<1>4. CASE ExtendFile \/ TruncateFile \/ UnlinkFile
    <2>1. /\ len' \in Nat /\ len' <= MaxUnits
          /\ hi' = GreatestOf(hi, WholePages(len'))
        <3>1. CASE ExtendFile
            BY <1>1, <1>2, <3>1 DEF ExtendFile, Observe
        <3>2. CASE TruncateFile
            BY <1>1, <1>2, <3>2 DEF TruncateFile, Observe, WholePages
        <3>3. CASE UnlinkFile
            BY <1>1, <1>2, <3>3 DEF UnlinkFile, Observe
        <3> QED
            BY <1>4, <3>1, <3>2, <3>3
    <2>2. len' \div 2 <= MaxUnits \div 2
        BY <1>1, <2>1, HalfMonotone
    <2>3. WholePages(len') = len' \div 2
        BY DEF WholePages
    <2> QED
        BY <1>1, <1>2, <2>1, <2>2, <2>3 DEF GreatestOf
<1> QED
    BY <1>3, <1>4 DEF Writer

(* The rows of a sequence with one more row at its end. *)
LEMMA RowsAppend ==
    ASSUME NEW s \in Seq(Nat \X Nat), NEW x \in Nat \X Nat
    PROVE  LET t == Append(s, x)
           IN  /\ t \in Seq(Nat \X Nat)
               /\ Len(t) = Len(s) + 1
               /\ {t[i] : i \in 1 .. Len(t)} = {s[i] : i \in 1 .. Len(s)} \cup {x}
               /\ \A i \in 1 .. Len(s) : t[i] = s[i]
               /\ t[Len(t)] = x
<1> DEFINE t == Append(s, x)
<1>1. /\ t \in Seq(Nat \X Nat) /\ Len(t) = Len(s) + 1
      /\ \A i \in 1 .. Len(s) : t[i] = s[i]
      /\ t[Len(s) + 1] = x /\ Len(s) \in Nat
    OBVIOUS
<1> HIDE DEF t
<1>2. ASSUME NEW i \in 1 .. Len(t)
      PROVE  i \in 1 .. Len(s) \/ i = Len(s) + 1
    BY <1>1
<1>3. 1 .. Len(s) \subseteq 1 .. Len(t) /\ Len(s) + 1 \in 1 .. Len(t)
    BY <1>1
<1>4. {t[i] : i \in 1 .. Len(t)} = {s[i] : i \in 1 .. Len(s)} \cup {x}
    BY <1>1, <1>2, <1>3, ZenonT(30)
<1> QED
    BY <1>1, <1>4 DEF t

(* The iterator starts before page 0 with nothing handed out. *)
LEMMA InitIterInv == Init => IterInv
<1> SUFFICES ASSUME Init PROVE IterInv
    OBVIOUS
<1>1. FileTypeOK /\ FileInv
    BY FileInitOK DEF Init
<1>2. len <= MaxUnits /\ hi <= PageCount
    BY Bounds DEF Init, FileInit, WholePages, PageCount
<1>3. /\ heap \in [0 .. PageCount - 1 -> PageLayouts] /\ fd_seg = None /\ fd_pos = 0
      /\ asked = 0 /\ page = None /\ row_info = NoRow /\ at = "loop" /\ rows = <<>>
      /\ faulted = FALSE
    BY DEF Init
<1>4. TypeOK
    <2>1. /\ fd_seg \in Nat \cup {None} /\ fd_pos \in Nat /\ asked \in Nat
          /\ page \in Nat \cup {None} /\ rows \in Seq(Nat \X Nat)
        BY <1>3
    <2>2. faulted \in BOOLEAN
        BY <1>3
    <2> QED
        BY <1>1, <1>3, <2>1, <2>2 DEF TypeOK
<1>5. RowsExact
    BY <1>3 DEF RowsExact, Passed
<1>6. OnDisk
    BY <1>1, <1>2, <1>3 DEF OnDisk, None, FileTypeOK
<1>7. InStep /\ PageMatchesCtid
    BY <1>3 DEF InStep, PageMatchesCtid
<1> QED
    BY <1>1, <1>4, <1>5, <1>6, <1>7 DEF IterInv

(* A step that moves neither the page, the ctid nor the rows leaves what   *)
(* was passed and handed out as it was.                                    *)
LEMMA SameRows ==
    ASSUME RowsExact, PageMatchesCtid, UNCHANGED <<heap, page, row_info, rows>>,
           at = "advance" <=> at' = "advance"
    PROVE  RowsExact' /\ PageMatchesCtid'
<1>1. heap' = heap /\ page' = page /\ row_info' = row_info /\ rows' = rows
    OBVIOUS
<1>2. PageMatchesCtid'
    BY <1>1 DEF PageMatchesCtid, block_number
<1>3. NormalSlots' = NormalSlots
    BY <1>1 DEF NormalSlots
<1>4. \A b, s : Passed(b, s)' <=> Passed(b, s)
    BY <1>1 DEF Passed
<1>5. {slot \in NormalSlots : Passed(slot[1], slot[2])}'
         = {slot \in NormalSlots : Passed(slot[1], slot[2])}
    BY <1>3, <1>4, Zenon
<1> QED
    BY <1>1, <1>2, <1>5 DEF RowsExact

(* What the invariant says about a page that is being walked. *)
LEMMA CurrentPage ==
    ASSUME IterInv
    PROVE  /\ page \in Int /\ page >= -1 /\ page < PageCount
           /\ page # None <=> page \in Nat
           /\ page # None => page \in 0 .. PageCount - 1
           /\ lo \in Nat /\ hi \in Nat /\ len \in Nat
    BY Bounds DEF IterInv, TypeOK, OnDisk, FileTypeOK, None

(* Asking for the next page: by the index after the one the ctid names. *)
LEMMA AskForPageKeepsInv ==
    ASSUME IterInv, AskForPage, UNCHANGED fileVars
    PROVE  IterInv'
<1>1. /\ TypeOK /\ FileInv /\ OnDisk /\ InStep /\ PageMatchesCtid /\ RowsExact
    BY DEF IterInv
<1>2. /\ at = "loop" /\ (page = None \/ PageFinished)
      /\ asked' = IF page = None THEN 0 ELSE block_number(row_info.ip_blkid) + 1
      /\ at' = IF fd_seg = None THEN "open" ELSE "read"
      /\ heap' = heap /\ fd_seg' = fd_seg /\ fd_pos' = fd_pos /\ page' = page
      /\ row_info' = row_info /\ rows' = rows /\ faulted' = faulted
      /\ len' = len /\ nseg' = nseg /\ lo' = lo /\ hi' = hi
    BY DEF AskForPage, fileVars
<1>3. asked' = page + 1 /\ asked' \in Nat
    BY <1>1, <1>2, CurrentPage DEF PageMatchesCtid, None, InStep
<1>4. TypeOK'
    BY <1>1, <1>2, <1>3 DEF TypeOK, FileTypeOK
<1>5. FileInv' /\ OnDisk'
    BY <1>1, <1>2 DEF FileInv, OnDisk, WholePages, FirstPage
<1>6. InStep'
    <2>1. CASE page = None
        BY <1>1, <1>2, <1>3, <2>1 DEF InStep
    <2>2. CASE page # None
        <3>1. at' = "read" /\ Positioned(page + 1) /\ PageFinished
            BY <1>1, <1>2, <2>2 DEF InStep, Positioned
        <3>2. Positioned(asked)'
            BY <1>2, <1>3, <3>1 DEF Positioned, FirstPage
        <3>3. PageFinished'
            BY <1>2, <3>1 DEF PageFinished, lp_num
        <3> QED
            BY <1>2, <1>3, <2>2, <3>1, <3>2, <3>3 DEF InStep
    <2> QED
        BY <2>1, <2>2
<1>7. RowsExact' /\ PageMatchesCtid'
    BY <1>1, <1>2, SameRows
<1> QED
    BY <1>4, <1>5, <1>6, <1>7 DEF IterInv

(* Opening a file by index, at the start or after a failed read, puts the  *)
(* position on the page asked for.                                         *)
LEMMA OpenKeepsIterInv ==
    ASSUME IterInv, UNCHANGED fileVars, OpenAsked,
           \/ at = "open" /\ at' = "read"
           \/ at = "reopen" /\ at' = "reread"
    PROVE  IterInv'
<1>1. /\ TypeOK /\ FileTypeOK /\ FileInv /\ OnDisk /\ InStep /\ PageMatchesCtid /\ RowsExact
      /\ asked \in Nat
    BY DEF IterInv, TypeOK
<1>2. /\ heap' = heap /\ asked' = asked /\ page' = page
      /\ row_info' = row_info /\ rows' = rows /\ faulted' = faulted
      /\ len' = len /\ nseg' = nseg /\ lo' = lo /\ hi' = hi
      /\ fd_seg' = segment_num(asked) /\ fd_pos' = 2 * page_in_segment(asked)
    BY DEF OpenAsked, fileVars
<1>3. /\ segment_num(asked) \in Nat /\ 2 * page_in_segment(asked) \in Nat
      /\ 2 * FirstPage(segment_num(asked)) + 2 * page_in_segment(asked) = 2 * asked
    BY <1>1, OpenPositions
<1>4. asked = page + 1 /\ (page # None => PageFinished) /\ (page = None => row_info = NoRow)
    BY <1>1 DEF InStep
<1>5. TypeOK'
    BY <1>1, <1>2, <1>3 DEF TypeOK, FileTypeOK
<1>6. FileInv' /\ OnDisk'
    BY <1>1, <1>2 DEF FileInv, OnDisk, WholePages, FirstPage
<1>7. (page # None => PageFinished)'
    BY <1>2, <1>4 DEF PageFinished, lp_num
<1>8. Positioned(asked)'
    BY <1>2, <1>3 DEF Positioned, FirstPage, None
<1>9. InStep'
    BY <1>2, <1>4, <1>7, <1>8 DEF InStep
<1>10. RowsExact' /\ PageMatchesCtid'
    BY <1>1, <1>2, SameRows
<1> QED
    BY <1>5, <1>6, <1>9, <1>10 DEF IterInv

(* An open or a read that fails: the first read leads to another open,     *)
(* the rest ends the iteration, at the end of the data or with a fault.    *)
LEMMA FailureKeepsInv ==
    ASSUME IterInv, UNCHANGED fileVars,
           UNCHANGED <<heap, fd_seg, asked, page, row_info, rows>>, fd_pos' \in Nat,
           \/ at = "open" /\ at' = "panicked" /\ faulted' = faulted
           \/ at = "read" /\ at' = "reopen" /\ faulted' = faulted
           \/ at \in {"reopen", "reread"} /\ EndIteration
    PROVE  IterInv'
<1>1. /\ TypeOK /\ FileTypeOK /\ FileInv /\ OnDisk /\ InStep /\ PageMatchesCtid /\ RowsExact
      /\ asked \in Nat
    BY DEF IterInv, TypeOK
<1>2. /\ heap' = heap /\ fd_seg' = fd_seg /\ asked' = asked /\ page' = page
      /\ row_info' = row_info /\ rows' = rows
      /\ len' = len /\ nseg' = nseg /\ lo' = lo /\ hi' = hi
    BY DEF fileVars
<1>3. /\ at' \in {"panicked", "reopen", "ended"} /\ at # "advance"
      /\ at' = "reopen" => at = "read"
      /\ faulted' \in BOOLEAN
    <2>1. faulted \in BOOLEAN
        BY <1>1 DEF TypeOK
    <2>2. CASE at \in {"open", "read"}
        BY <2>1, <2>2
    <2>3. CASE at \in {"reopen", "reread"} /\ EndIteration
        BY <2>3 DEF EndIteration
    <2> QED
        BY <2>2, <2>3
<1>4. /\ asked = page + 1 /\ (page # None => PageFinished)
      /\ (page = None => row_info = NoRow)
      /\ at = "read" => fd_seg # None
    BY <1>1 DEF InStep, Positioned
<1>5. TypeOK'
    BY <1>1, <1>2, <1>3 DEF TypeOK, FileTypeOK
<1>6. FileInv' /\ OnDisk'
    BY <1>1, <1>2 DEF FileInv, OnDisk, WholePages, FirstPage
<1>7. (page # None => PageFinished)'
    BY <1>2, <1>4 DEF PageFinished, lp_num
<1>8. at' = "ended" /\ ~faulted' => lo <= asked
    <2> SUFFICES ASSUME at' = "ended", ~faulted' PROVE lo <= asked
        OBVIOUS
    <2>1. WholePages(len) <= asked
        BY <1>1, PageNotThere DEF EndIteration
    <2> QED
        BY <1>1, <2>1 DEF FileInv, FileTypeOK, WholePages
<1>9. InStep'
    BY <1>2, <1>3, <1>4, <1>7, <1>8 DEF InStep
<1>10. RowsExact' /\ PageMatchesCtid'
    BY <1>1, <1>2, <1>3, SameRows
<1> QED
    BY <1>5, <1>6, <1>9, <1>10 DEF IterInv

(* A read that fails leaves the file within the page that was asked for. *)
LEMMA ReadFailsFrame ==
    ASSUME IterInv, ReadFails
    PROVE  /\ UNCHANGED <<heap, fd_seg, asked, page, row_info, rows>>
           /\ fd_pos' \in Nat
    BY DEF IterInv, TypeOK, ReadFails

(* Every slot of a page that is finished has been passed. *)
LEMMA FinishedIsPassed ==
    ASSUME IterInv, at \in {"read", "reread", "ended"},
           NEW slot \in NormalSlots
    PROVE  Passed(slot[1], slot[2]) <=> slot[1] <= page
<1>1. /\ slot[1] \in 0 .. PageCount - 1 /\ slot[2] \in 0 .. U16 - 1
      /\ slot[2] < Len(heap[slot[1]])
    BY DEF NormalSlots
<1>2. slot[1] \in Nat /\ slot[2] \in Nat
    BY <1>1, Bounds
<1>3. page # None => PageFinished
    BY DEF IterInv, InStep
<1>4. page \in Int /\ page >= -1 /\ None = -1
    BY CurrentPage DEF None
<1>5. CASE page = None
    BY <1>2, <1>4, <1>5 DEF Passed
<1>6. CASE slot[1] = page
    <2>1. page # None /\ PageFinished
        BY <1>2, <1>3, <1>4, <1>6
    <2>2. row_info # NoRow /\ Len(heap[page]) <= row_info.ip_posid + 1
        BY <2>1 DEF PageFinished, lp_num
    <2>3. row_info.ip_posid \in Nat
        BY <2>2, Bounds DEF IterInv, TypeOK
    <2>4. Len(heap[page]) \in Nat
        BY <1>1, <1>6, Layouts DEF IterInv
    <2>5. slot[2] <= row_info.ip_posid
        BY <1>1, <1>2, <1>6, <2>2, <2>3, <2>4
    <2> QED
        BY <1>4, <1>6, <2>1, <2>2, <2>5 DEF Passed
<1>7. CASE page # None /\ slot[1] # page
    BY <1>2, <1>4, <1>7 DEF Passed
<1> QED
    BY <1>5, <1>6, <1>7

(* The page that is read is the one asked for; it was complete on disk. *)
LEMMA GotPageKeepsInv ==
    ASSUME IterInv, UNCHANGED fileVars, at \in {"read", "reread"}, GotPage
    PROVE  IterInv' /\ page' = page + 1 /\ page' < hi
<1> DEFINE f == FirstPage(fd_seg)
           u == SegmentUnits(fd_seg)
<1>1. /\ TypeOK /\ FileTypeOK /\ FileInv /\ OnDisk /\ InStep /\ PageMatchesCtid /\ RowsExact
      /\ asked \in Nat /\ fd_pos \in Nat /\ fd_seg \in Nat \cup {None}
      /\ len \in Nat /\ lo \in Nat /\ hi \in Nat
    BY DEF IterInv, TypeOK, FileTypeOK
<1>2. /\ u >= fd_pos + 2 /\ fd_pos' = fd_pos + 2 /\ page' = f + fd_pos \div 2
      /\ row_info' = IF row_info = NoRow THEN NoRow
                     ELSE [ip_blkid |-> BlockId(asked), ip_posid |-> U16 - 1]
      /\ at' = "advance"
      /\ heap' = heap /\ fd_seg' = fd_seg /\ asked' = asked /\ rows' = rows
      /\ faulted' = faulted
      /\ len' = len /\ nseg' = nseg /\ lo' = lo /\ hi' = hi
    BY DEF GotPage, fileVars
<1>3. /\ Positioned(asked) /\ asked = page + 1 /\ (page # None => PageFinished)
      /\ fd_seg # None /\ fd_seg \in Nat /\ 2 * f + fd_pos = 2 * asked
    BY <1>1 DEF InStep, Positioned
<1>4. f \in Nat /\ u \in 0 .. 2 * PagesPerSegment /\ (u > 0 => 2 * f + u <= len)
    BY <1>1, <1>3, SegmentLength, FirstPageFacts
<1>5. u \in Nat
    BY <1>4, SegmentAssumption
<1> HIDE DEF f, u
<1>6. page' = asked /\ asked + 1 <= len \div 2
    <2>1. fd_pos = 2 * (asked - f)
        BY <1>1, <1>3, <1>4
    <2>2. fd_pos \div 2 = asked - f
        BY <1>1, <1>4, <2>1
    <2>3. page' = asked
        BY <1>1, <1>2, <1>4, <2>2
    <2>4. 2 * (asked + 1) <= len
        BY <1>1, <1>2, <1>3, <1>4, <1>5
    <2>5. asked + 1 <= len \div 2
        BY <1>1, <2>4
    <2> QED
        BY <2>3, <2>5
<1>7. asked < hi /\ asked < PageCount
    BY <1>1, <1>6, Bounds DEF FileInv, WholePages, OnDisk
<1>8. BlockId(asked) \in [hi : 0 .. U16 - 1, lo : 0 .. U16 - 1]
      /\ block_number(BlockId(asked)) = asked
    <2>1. asked < U16 * U16
        BY <1>1, <1>7, Bounds
    <2> QED
        BY <1>1, <2>1, BlockIdRoundTrip
<1>9. row_info = NoRow => page = None
    BY <1>3 DEF PageFinished
<1>10. page \in Int /\ page >= -1 /\ None = -1
    BY CurrentPage DEF None
<1>11. TypeOK'
    <2>1. U16 - 1 \in 0 .. U16 - 1
        BY Bounds
    <2>2. (row_info = NoRow \/ row_info \in
             [ip_blkid : [hi : 0 .. U16 - 1, lo : 0 .. U16 - 1], ip_posid : 0 .. U16 - 1])'
        BY <1>2, <1>8, <2>1
    <2> QED
        BY <1>1, <1>2, <1>6, <2>2 DEF TypeOK, FileTypeOK
<1>12. FileInv' /\ OnDisk'
    BY <1>1, <1>2, <1>6, <1>7 DEF FileInv, OnDisk, WholePages, FirstPage
<1>13. InStep'
    <2>1. 2 * f + fd_pos' = 2 * (page' + 1)
        BY <1>1, <1>2, <1>3, <1>4, <1>6
    <2>2. Positioned(page + 1)'
        BY <1>2, <1>3, <2>1 DEF Positioned, FirstPage, f
    <2>3. page' # None
        BY <1>1, <1>6, <1>10
    <2>4. (IF row_info = NoRow THEN page = 0 ELSE row_info.ip_posid = U16 - 1)'
        <3>1. CASE row_info = NoRow
            BY <1>2, <1>3, <1>6, <1>9, <1>10, <3>1
        <3>2. CASE row_info # NoRow
            <4>1. row_info' = [ip_blkid |-> BlockId(asked), ip_posid |-> U16 - 1]
                BY <1>2, <3>2
            <4>2. row_info' # NoRow
                BY <4>1 DEF NoRow
            <4> QED
                BY <4>1, <4>2
        <3> QED
            BY <3>1, <3>2
    <2> QED
        BY <1>2, <2>2, <2>3, <2>4 DEF InStep
<1>14. PageMatchesCtid'
    <2>1. row_info' # NoRow => row_info'.ip_blkid = BlockId(asked)
        BY <1>2
    <2>2. (block_number(row_info.ip_blkid))' = block_number(row_info'.ip_blkid)
        BY DEF block_number
    <2> QED
        BY <1>6, <1>8, <2>1, <2>2 DEF PageMatchesCtid
<1>15. RowsExact'
    <2>1. NormalSlots' = NormalSlots
        BY <1>2 DEF NormalSlots
    <2>2. ASSUME NEW slot \in NormalSlots
          PROVE  Passed(slot[1], slot[2])' <=> Passed(slot[1], slot[2])
        <3>1. Passed(slot[1], slot[2]) <=> slot[1] <= page
            BY FinishedIsPassed
        <3>2. slot[1] \in Nat
            BY Bounds DEF NormalSlots
        <3>3. Passed(slot[1], slot[2])' <=> page' # None /\ slot[1] < page'
            BY <1>1, <1>2, <1>6, <3>2 DEF Passed
        <3> QED
            BY <1>3, <1>6, <1>10, <3>1, <3>2, <3>3
    <2>3. {slot \in NormalSlots : Passed(slot[1], slot[2])}'
             = {slot \in NormalSlots : Passed(slot[1], slot[2])}
        BY <2>1, <2>2
    <2> QED
        BY <1>1, <1>2, <2>3 DEF RowsExact
<1> QED
    BY <1>3, <1>6, <1>7, <1>11, <1>12, <1>13, <1>14, <1>15 DEF IterInv

(* Which slot Advance steps to, and that it is the first of the current    *)
(* page not passed yet.                                                    *)
LEMMA AdvanceSlot ==
    ASSUME IterInv, Advance
    PROVE  \E q \in 0 .. U16 - 1, id \in [hi : 0 .. U16 - 1, lo : 0 .. U16 - 1] :
             /\ row_info' = [ip_blkid |-> id, ip_posid |-> q]
             /\ block_number(id) = page
             /\ page \in 0 .. PageCount - 1 /\ page # None /\ page \in Nat
             /\ Positioned(page + 1)
             /\ rows' = IF q < lp_num /\ heap[page][q + 1] = "normal"
                          THEN Append(rows, <<page, q>>) ELSE rows
             /\ \A b, s \in Nat : Passed(b, s) <=> b < page \/ (b = page /\ s < q)
<1>1. /\ TypeOK /\ InStep /\ PageMatchesCtid /\ OnDisk
      /\ row_info = NoRow \/ row_info \in
           [ip_blkid : [hi : 0 .. U16 - 1, lo : 0 .. U16 - 1], ip_posid : 0 .. U16 - 1]
    BY DEF IterInv, TypeOK
<1>2. at = "advance" \/ (at = "loop" /\ page # None /\ ~PageFinished)
    BY DEF Advance
<1>3. page # None /\ Positioned(page + 1)
    BY <1>1, <1>2 DEF InStep
<1>4. page \in 0 .. PageCount - 1 /\ page \in Nat
    BY <1>3, CurrentPage
<1>5. U16 \in Nat /\ U16 > 0 /\ 0 \in 0 .. U16 - 1
    BY Bounds
<1>6. CASE row_info = NoRow
    <2>1. at = "advance" /\ page = 0
        BY <1>1, <1>2, <1>3, <1>6 DEF InStep
    <2>2. BlockId(0) \in [hi : 0 .. U16 - 1, lo : 0 .. U16 - 1] /\ block_number(BlockId(0)) = 0
        <3>1. 0 < U16 * U16
            BY Bounds
        <3> QED
            BY <3>1, BlockIdRoundTrip
    <2>3. /\ row_info' = [ip_blkid |-> BlockId(0), ip_posid |-> 0]
          /\ rows' = IF 0 < lp_num /\ heap[page][0 + 1] = "normal"
                       THEN Append(rows, <<page, 0>>) ELSE rows
        BY <1>6 DEF Advance
    <2>4. \A b, s \in Nat : Passed(b, s) <=> b < page \/ (b = page /\ s < 0)
        BY <1>3, <2>1 DEF Passed
    <2> QED
        BY <1>3, <1>4, <1>5, <2>1, <2>2, <2>3, <2>4
<1>7. CASE row_info # NoRow
    <2> DEFINE id == row_info.ip_blkid
               p == row_info.ip_posid
               q == (p + 1) % U16
    <2>1. id \in [hi : 0 .. U16 - 1, lo : 0 .. U16 - 1] /\ p \in 0 .. U16 - 1
        BY <1>1, <1>7
    <2>2. block_number(id) = page
        BY <1>1, <1>3, <1>7 DEF PageMatchesCtid
    <2>3. /\ row_info' = [ip_blkid |-> id, ip_posid |-> q]
          /\ rows' = IF q < lp_num /\ heap[page][q + 1] = "normal"
                       THEN Append(rows, <<page, q>>) ELSE rows
        BY <1>7 DEF Advance
    <2>4. q \in 0 .. U16 - 1 /\ \A b, s \in Nat : Passed(b, s) <=> b < page \/ (b = page /\ s < q)
        <3>1. CASE at = "advance"
            <4>1. p = U16 - 1
                BY <1>1, <1>7, <3>1 DEF InStep
            <4>2. q = 0
                BY <2>1, <4>1, NextSlot
            <4> HIDE DEF q
            <4> QED
                BY <1>3, <1>5, <3>1, <4>2 DEF Passed
        <3>2. CASE at # "advance"
            <4>1. at = "loop" /\ ~(Len(heap[page]) <= p + 1)
                BY <1>2, <1>7, <3>2 DEF PageFinished, lp_num
            <4>2. p \in Nat /\ Len(heap[page]) \in Nat /\ Len(heap[page]) < U16
                BY <1>1, <1>4, <1>5, <2>1, Layouts
            <4>3. p + 1 < U16
                BY <1>5, <4>1, <4>2
            <4>4. q = p + 1
                BY <1>5, <2>1, <4>2, <4>3, NextSlot
            <4>5. \A b, s \in Nat : Passed(b, s) <=> b < page \/ (b = page /\ s <= p)
                BY <1>3, <1>7, <3>2 DEF Passed
            <4> HIDE DEF q, p
            <4> QED
                BY <1>5, <4>2, <4>3, <4>4, <4>5
        <3> QED
            BY <3>1, <3>2
    <2> HIDE DEF id, p, q
    <2> QED
        BY <1>3, <1>4, <2>1, <2>2, <2>3, <2>4
<1> QED
    BY <1>6, <1>7

(* The row under the slot is handed out exactly if its line pointer is     *)
(* normal, after all the rows before it.                                   *)
LEMMA AdvanceKeepsInv ==
    ASSUME IterInv, Advance, UNCHANGED fileVars
    PROVE  IterInv'
<1>1. /\ TypeOK /\ FileInv /\ OnDisk /\ InStep /\ RowsExact /\ rows \in Seq(Nat \X Nat)
    BY DEF IterInv, TypeOK
<1>2. /\ at' = "loop" /\ heap' = heap /\ fd_seg' = fd_seg /\ fd_pos' = fd_pos
      /\ asked' = asked /\ page' = page /\ faulted' = faulted
      /\ len' = len /\ nseg' = nseg /\ lo' = lo /\ hi' = hi
    BY DEF Advance, fileVars
<1>3. PICK q \in 0 .. U16 - 1, id \in [hi : 0 .. U16 - 1, lo : 0 .. U16 - 1] :
             /\ row_info' = [ip_blkid |-> id, ip_posid |-> q]
             /\ block_number(id) = page
             /\ page \in 0 .. PageCount - 1 /\ page # None /\ page \in Nat
             /\ Positioned(page + 1)
             /\ rows' = IF q < lp_num /\ heap[page][q + 1] = "normal"
                          THEN Append(rows, <<page, q>>) ELSE rows
             /\ \A b, s \in Nat : Passed(b, s) <=> b < page \/ (b = page /\ s < q)
    BY AdvanceSlot
<1>4. q \in Nat /\ <<page, q>> \in Nat \X Nat
    BY <1>3, Bounds
<1>5. row_info' # NoRow /\ row_info'.ip_blkid = id /\ row_info'.ip_posid = q
      /\ row_info' \in [ip_blkid : [hi : 0 .. U16 - 1, lo : 0 .. U16 - 1],
                        ip_posid : 0 .. U16 - 1]
    BY <1>3 DEF NoRow
<1>6. rows' \in Seq(Nat \X Nat)
    BY <1>1, <1>3, <1>4
<1>7. TypeOK'
    BY <1>1, <1>2, <1>5, <1>6 DEF TypeOK, FileTypeOK
<1>8. FileInv' /\ OnDisk'
    BY <1>1, <1>2 DEF FileInv, OnDisk, WholePages, FirstPage
<1>9. InStep'
    <2>1. Positioned(page + 1)'
        BY <1>2, <1>3 DEF Positioned, FirstPage
    <2> QED
        BY <1>2, <1>3, <1>5, <2>1 DEF InStep
<1>10. PageMatchesCtid'
    <2>1. (block_number(row_info.ip_blkid))' = block_number(row_info'.ip_blkid)
        BY DEF block_number
    <2> QED
        BY <1>2, <1>3, <1>5, <2>1 DEF PageMatchesCtid
<1>11. RowsExact'
    <2> DEFINE Handed == {rows[i] : i \in 1 .. Len(rows)}
               Due(slot) == slot[1] < page \/ (slot[1] = page /\ slot[2] < q)
    <2>1. NormalSlots' = NormalSlots
        BY <1>2 DEF NormalSlots
    <2>2. \A slot \in NormalSlots : slot[1] \in Nat /\ slot[2] \in Nat /\ slot = <<slot[1], slot[2]>>
        BY Bounds DEF NormalSlots
    <2>3. \A slot \in NormalSlots : slot \in Handed <=> Due(slot)
        <3>1. Handed = {slot \in NormalSlots : Passed(slot[1], slot[2])}
            BY <1>1 DEF RowsExact
        <3> QED
            BY <1>3, <2>2, <3>1
    <2>4. Handed \subseteq NormalSlots
        BY <1>1 DEF RowsExact
    <2>5. \A b, s \in Nat : Passed(b, s)' <=> b < page \/ (b = page /\ s <= q)
        BY <1>2, <1>3, <1>5 DEF Passed
    <2>6. \A slot \in NormalSlots :
             Passed(slot[1], slot[2])' <=> Due(slot) \/ slot = <<page, q>>
        <3> SUFFICES ASSUME NEW slot \in NormalSlots
                     PROVE  Passed(slot[1], slot[2])' <=> Due(slot) \/ slot = <<page, q>>
            OBVIOUS
        <3>1. slot[1] \in Nat /\ slot[2] \in Nat /\ slot = <<slot[1], slot[2]>>
            BY <2>2
        <3>2. slot = <<page, q>> <=> slot[1] = page /\ slot[2] = q
            BY <3>1
        <3> QED
            BY <1>3, <1>4, <2>5, <3>1, <3>2
    <2>7. <<page, q>> \in NormalSlots <=> q < lp_num /\ heap[page][q + 1] = "normal"
        BY <1>3 DEF NormalSlots, lp_num
    <2>8. \A i, j \in 1 .. Len(rows) : i < j =>
             \/ rows[i][1] < rows[j][1]
             \/ rows[i][1] = rows[j][1] /\ rows[i][2] < rows[j][2]
        BY <1>1 DEF RowsExact
    <2>9. CASE <<page, q>> \in NormalSlots
        <3> DEFINE t == Append(rows, <<page, q>>)
        <3>1. rows' = t
            BY <1>3, <2>7, <2>9
        <3>2. /\ t \in Seq(Nat \X Nat) /\ Len(t) = Len(rows) + 1
              /\ {t[i] : i \in 1 .. Len(t)} = Handed \cup {<<page, q>>}
              /\ \A i \in 1 .. Len(rows) : t[i] = rows[i]
              /\ t[Len(t)] = <<page, q>> /\ Len(rows) \in Nat
            <4>1. PICK x \in Nat \X Nat : x = <<page, q>>
                BY <1>4
            <4>2. PICK s \in Seq(Nat \X Nat) : s = rows
                BY <1>1
            <4>3. Len(s) \in Nat
                BY LenProperties
            <4>4. PICK u : u = Append(s, x)
                OBVIOUS
            <4>5. /\ u \in Seq(Nat \X Nat) /\ Len(u) = Len(s) + 1
                  /\ {u[i] : i \in 1 .. Len(u)} = {s[i] : i \in 1 .. Len(s)} \cup {x}
                  /\ \A i \in 1 .. Len(s) : u[i] = s[i]
                  /\ u[Len(u)] = x
                BY <4>4, RowsAppend, SMTT(30)
            <4>6. t = u
                BY <4>1, <4>2, <4>4
            <4>7. {s[i] : i \in 1 .. Len(s)} = Handed
                BY <4>2
            <4> HIDE DEF t, Handed
            <4>8. {u[i] : i \in 1 .. Len(u)} = Handed \cup {<<page, q>>}
                BY <4>1, <4>5, <4>7
            <4>9. \A i \in 1 .. Len(rows) : u[i] = rows[i]
                BY <4>2, <4>5
            <4>10. u \in Seq(Nat \X Nat) /\ Len(u) = Len(rows) + 1 /\ Len(rows) \in Nat
                BY <4>2, <4>3, <4>5
            <4> QED
                BY <4>1, <4>5, <4>6, <4>8, <4>9, <4>10, SMTT(30)
        <3> HIDE DEF t
        <3>3. Handed \cup {<<page, q>>} = {slot \in NormalSlots : Passed(slot[1], slot[2])'}
            BY <2>3, <2>4, <2>6, <2>9
        <3>4. ASSUME NEW i \in 1 .. Len(t), NEW j \in 1 .. Len(t), i < j
              PROVE  \/ t[i][1] < t[j][1]
                     \/ t[i][1] = t[j][1] /\ t[i][2] < t[j][2]
            <4>0. Len(t) = Len(rows) + 1 /\ Len(rows) \in Nat
                BY <3>2
            <4>1. i \in 1 .. Len(rows) /\ t[i] = rows[i]
                <5>1. i \in 1 .. Len(rows)
                    BY <3>4, <4>0
                <5> QED
                    BY <3>2, <5>1
            <4>2. CASE j \in 1 .. Len(rows)
                <5>1. t[j] = rows[j]
                    BY <3>2, <4>2
                <5> QED
                    BY <2>8, <3>4, <4>1, <4>2, <5>1
            <4>3. CASE j = Len(t)
                <5>1. rows[i] \in Handed
                    BY <4>1
                <5>2. Due(rows[i])
                    BY <2>3, <2>4, <5>1
                <5>3. t[j][1] = page /\ t[j][2] = q
                    BY <3>2, <4>3
                <5> QED
                    BY <4>1, <5>2, <5>3
            <4> QED
                BY <4>0, <4>2, <4>3
        <3>5. {slot \in NormalSlots : Passed(slot[1], slot[2])}'
                 = {slot \in NormalSlots : Passed(slot[1], slot[2])'}
            BY <2>1
        <3>6. {rows[i] : i \in 1 .. Len(rows)}' = {t[i] : i \in 1 .. Len(t)}
            BY <3>1
        <3>7. {rows[i] : i \in 1 .. Len(rows)}'
                 = {slot \in NormalSlots : Passed(slot[1], slot[2])}'
            BY <3>2, <3>3, <3>5, <3>6
        <3> HIDE DEF Handed, Due
        <3> QED
            BY <3>1, <3>4, <3>7 DEF RowsExact
    <2>10. CASE <<page, q>> \notin NormalSlots
        <3>1. rows' = rows
            BY <1>3, <2>7, <2>10
        <3>2. Handed = {slot \in NormalSlots : Passed(slot[1], slot[2])'}
            BY <2>3, <2>4, <2>6, <2>10
        <3>3. {slot \in NormalSlots : Passed(slot[1], slot[2])}'
                 = {slot \in NormalSlots : Passed(slot[1], slot[2])'}
            BY <2>1
        <3>4. {rows[i] : i \in 1 .. Len(rows)}' = Handed
            BY <3>1
        <3> HIDE DEF Handed, Due
        <3> QED
            BY <2>8, <3>1, <3>2, <3>3, <3>4 DEF RowsExact
    <2> QED
        BY <2>9, <2>10
<1> QED
    BY <1>7, <1>8, <1>9, <1>10, <1>11 DEF IterInv

(* Whatever PostgreSQL does to the files, the iterator stays in step. *)
LEMMA WriterKeepsIterInv ==
    ASSUME IterInv, Writer, UNCHANGED iterVars
    PROVE  IterInv' /\ lo' <= lo /\ hi' >= hi
<1>1. /\ TypeOK /\ FileTypeOK /\ FileInv /\ OnDisk /\ InStep /\ PageMatchesCtid /\ RowsExact
    BY DEF IterInv, TypeOK
<1>2. /\ heap' = heap /\ fd_seg' = fd_seg /\ fd_pos' = fd_pos /\ asked' = asked
      /\ page' = page /\ row_info' = row_info /\ at' = at /\ rows' = rows
      /\ faulted' = faulted
    BY DEF iterVars
<1>3. FileTypeOK' /\ FileInv' /\ lo' <= lo /\ hi' >= hi
    BY <1>1, WriterOK
<1>4. lo \in Nat /\ hi \in Nat /\ lo' \in Nat /\ hi' \in Nat /\ page \in Int
    BY <1>1, <1>3, CurrentPage DEF FileTypeOK
<1>5. TypeOK'
    BY <1>1, <1>2, <1>3 DEF TypeOK
<1>6. OnDisk'
    <2>1. len' <= MaxUnits /\ hi' <= PageCount
        BY <1>1, WriterBounded DEF OnDisk
    <2> QED
        BY <1>1, <1>2, <1>3, <1>4, <2>1 DEF OnDisk
<1>7. InStep'
    <2>1. PageFinished' <=> PageFinished
        BY <1>2 DEF PageFinished, lp_num
    <2>2. Positioned(page + 1)' <=> Positioned(page + 1)
        BY <1>2 DEF Positioned, FirstPage
    <2>3. Positioned(asked)' <=> Positioned(asked)
        BY <1>2 DEF Positioned, FirstPage
    <2>4. at = "ended" /\ ~faulted => lo' <= page + 1
        BY <1>1, <1>3, <1>4 DEF InStep
    <2> QED
        BY <1>1, <1>2, <2>1, <2>2, <2>3, <2>4 DEF InStep
<1>8. RowsExact' /\ PageMatchesCtid'
    BY <1>1, <1>2, SameRows
<1> QED
    BY <1>3, <1>5, <1>6, <1>7, <1>8 DEF IterInv

(* Every step of the iterator and of the writer keeps the invariant. *)
LEMMA StepKeepsIterInv ==
    ASSUME IterInv, [Next]_vars
    PROVE  IterInv'
<1>1. CASE Iterate /\ UNCHANGED fileVars
    <2>1. CASE AskForPage
        BY <1>1, <2>1, AskForPageKeepsInv
    <2>2. CASE OpenFirst
        <3>1. at = "open" /\ fd_pos \in Nat
            BY <2>2 DEF OpenFirst, IterInv, TypeOK
        <3>2. CASE OpenAsked /\ at' = "read"
            BY <1>1, <3>1, <3>2, OpenKeepsIterInv
        <3>3. CASE at' = "panicked" /\ UNCHANGED <<heap, fd_seg, fd_pos, asked, page, row_info,
                                                  rows, faulted>>
            BY <1>1, <3>1, <3>3, FailureKeepsInv
        <3> QED
            BY <2>2, <3>2, <3>3 DEF OpenFirst
    <2>3. CASE Reopen
        <3>1. at = "reopen" /\ fd_pos \in Nat
            BY <2>3 DEF Reopen, IterInv, TypeOK
        <3>2. CASE OpenAsked /\ at' = "reread"
            BY <1>1, <3>1, <3>2, OpenKeepsIterInv
        <3>3. CASE EndIteration /\ UNCHANGED <<heap, fd_seg, fd_pos, asked, page, row_info, rows>>
            BY <1>1, <3>1, <3>3, FailureKeepsInv
        <3> QED
            BY <2>3, <3>2, <3>3 DEF Reopen
    <2>4. CASE Read \/ Reread
        <3>1. CASE GotPage
            <4>1. at \in {"read", "reread"}
                BY <2>4 DEF Read, Reread
            <4> QED
                BY <1>1, <3>1, <4>1, GotPageKeepsInv
        <3>2. CASE ~GotPage
            <4>1. /\ ReadFails
                  /\ \/ at = "read" /\ at' = "reopen" /\ faulted' = faulted
                     \/ at = "reread" /\ EndIteration
                BY <2>4, <3>2 DEF Read, Reread
            <4>2. UNCHANGED <<heap, fd_seg, asked, page, row_info, rows>> /\ fd_pos' \in Nat
                BY <4>1, ReadFailsFrame
            <4> QED
                BY <1>1, <4>1, <4>2, FailureKeepsInv
        <3> QED
            BY <3>1, <3>2
    <2>5. CASE Advance
        BY <1>1, <2>5, AdvanceKeepsInv
    <2> QED
        BY <1>1, <2>1, <2>2, <2>3, <2>4, <2>5 DEF Iterate
<1>2. CASE Writer /\ UNCHANGED iterVars
    BY <1>2, WriterKeepsIterInv
<1>3. CASE UNCHANGED vars
    <2>1. /\ heap' = heap /\ fd_seg' = fd_seg /\ fd_pos' = fd_pos /\ asked' = asked
          /\ page' = page /\ row_info' = row_info /\ at' = at /\ rows' = rows
          /\ faulted' = faulted
          /\ len' = len /\ nseg' = nseg /\ lo' = lo /\ hi' = hi
        BY <1>3 DEF vars, iterVars, fileVars
    <2>2. TypeOK' /\ FileInv' /\ OnDisk'
        BY <2>1 DEF IterInv, TypeOK, FileTypeOK, FileInv, OnDisk, WholePages, FirstPage
    <2>3. InStep'
        BY <2>1 DEF IterInv, InStep, PageFinished, lp_num, Positioned, FirstPage
    <2>4. RowsExact' /\ PageMatchesCtid'
        BY <2>1, SameRows DEF IterInv
    <2> QED
        BY <2>2, <2>3, <2>4 DEF IterInv
<1> QED
    BY <1>1, <1>2, <1>3 DEF Next

(* The file position of get_page_by_index, the index next() asks for and   *)
(* the ctid are in step in every reachable state.                          *)
THEOREM IterInvariant == Spec => []IterInv
<1>1. IterInv /\ [Next]_vars => IterInv'
    BY StepKeepsIterInv
<1> QED
    BY <1>1, InitIterInv, PTL DEF Spec

(* The page whose slots PageRowIter walks is the block its ctid names, for *)
(* every segment size, also when reads fail and when the block number      *)
(* carries from bi_lo to bi_hi.                                            *)
THEOREM IterPageMatchesCtid == Spec => []PageMatchesCtid
<1>1. IterInv => PageMatchesCtid
    BY DEF IterInv
<1> QED
    BY <1>1, IterInvariant, PTL

(* PageRowIter hands out exactly the normal line pointers it has passed,   *)
(* each once and in ctid order, whatever the page layouts are.             *)
THEOREM IterRowsExact == Spec => []RowsExact
<1>1. IterInv => RowsExact
    BY DEF IterInv
<1> QED
    BY <1>1, IterInvariant, PTL

(* When next() has returned None, every row of every page that was on disk *)
(* during the whole iteration has been handed out, unless an open or a     *)
(* read failed on a page that was there.                                   *)
THEOREM IterRowsComplete == Spec => []RowsComplete
<1>1. IterInv => RowsComplete
    <2> SUFFICES ASSUME IterInv, at = "ended", ~faulted, NEW slot \in NormalSlots,
                        slot[1] < lo
                 PROVE  \E i \in 1 .. Len(rows) : rows[i] = slot
        BY DEF RowsComplete
    <2>1. lo <= page + 1 /\ page \in Int /\ lo \in Nat
        BY CurrentPage DEF IterInv, InStep
    <2>2. slot[1] \in Nat
        BY Bounds DEF NormalSlots
    <2>3. slot[1] <= page
        BY <2>1, <2>2
    <2>4. Passed(slot[1], slot[2])
        BY <2>3, FinishedIsPassed
    <2>5. slot \in {rows[i] : i \in 1 .. Len(rows)}
        BY <2>4 DEF IterInv, RowsExact
    <2> QED
        BY <2>5
<1> QED
    BY <1>1, IterInvariant, PTL

(* The pages a scan at `page` has delivered, and the scan's status. *)
Delivered == [i \in 1 .. page + 1 |-> i - 1]

Outcome ==
    IF at = "panicked" \/ (at = "ended" /\ faulted) THEN "failed"
    ELSE IF at = "ended" THEN "ended" ELSE "open"

(* Reading the next page delivers it. *)
LEMMA DeliveredGrows ==
    ASSUME NEW p \in Int, p >= -1
    PROVE  LET run == [i \in 1 .. p + 1 |-> i - 1]
           IN  /\ Len(run) = p + 1
               /\ Append(run, p + 1) = [i \in 1 .. (p + 1) + 1 |-> i - 1]
<1> DEFINE run == [i \in 1 .. p + 1 |-> i - 1]
           new == [i \in 1 .. (p + 1) + 1 |-> i - 1]
           app == Append(run, p + 1)
<1>1. /\ p + 1 \in Nat /\ run \in Seq(Int) /\ Len(run) = p + 1
      /\ \A i \in 1 .. p + 1 : run[i] = i - 1
    <2>1. p + 1 \in Nat
        OBVIOUS
    <2>2. run \in [1 .. p + 1 -> Int]
        OBVIOUS
    <2> QED
        BY <2>1, <2>2
<1>2. /\ app \in Seq(Int) /\ Len(app) = (p + 1) + 1
      /\ \A i \in 1 .. p + 1 : app[i] = run[i]
      /\ app[(p + 1) + 1] = p + 1
    <2> HIDE DEF run
    <2> QED
        BY <1>1
<1>3. \A i \in 1 .. (p + 1) + 1 : app[i] = i - 1
    <2> HIDE DEF run, app
    <2> SUFFICES ASSUME NEW i \in 1 .. (p + 1) + 1 PROVE app[i] = i - 1
        OBVIOUS
    <2>1. CASE i \in 1 .. p + 1
        BY <1>1, <1>2, <2>1
    <2>2. CASE i = (p + 1) + 1
        BY <1>1, <1>2, <2>2
    <2> QED
        BY <1>1, <2>1, <2>2
<1>4. app = [i \in 1 .. (p + 1) + 1 |-> app[i]]
    <2> HIDE DEF app
    <2>1. DOMAIN app = 1 .. (p + 1) + 1
        BY <1>2
    <2> QED
        BY <1>2, <2>1
<1>5. app = new
    <2> HIDE DEF app
    <2> QED
        BY <1>3, <1>4
<1> QED
    BY <1>1, <1>5

(* The iterator starts as a scan that has delivered nothing. *)
LEMMA InitScans == Init => Scan!ScanInit
<1> SUFFICES ASSUME Init PROVE Scan!ScanInit
    OBVIOUS
<1>1. lo \in Nat /\ hi = lo /\ page = -1 /\ at = "loop"
    BY FileInitOK DEF Init, FileInit, FileTypeOK, None
<1>2. [i \in 1 .. page + 1 |-> i - 1] = <<>>
    <2>1. 1 .. page + 1 = {}
        BY <1>1
    <2> QED
        BY <2>1
<1> QED
    BY <1>1, <1>2 DEF Scan!ScanInit, Scan!NoMax

(* Every step of the iterator is a step of the scan or none at all. *)
LEMMA StepScans ==
    ASSUME IterInv, [Next]_vars
    PROVE  [Scan!ScanNext]_Scan!scanVars
<1>0. IterInv'
    BY StepKeepsIterInv
<1>1. page \in Int /\ page >= -1 /\ lo \in Nat /\ hi \in Nat
    BY CurrentPage
<1>2. CASE /\ at \in {"read", "reread"} /\ GotPage /\ UNCHANGED fileVars
    <2>1. page' = page + 1 /\ page' < hi /\ lo' = lo /\ hi' = hi
          /\ Outcome = "open" /\ Outcome' = "open"
        BY <1>2, GotPageKeepsInv DEF GotPage, fileVars, Outcome
    <2>2. Len(Delivered) = page + 1 /\ Delivered' = Append(Delivered, page + 1)
        BY <1>1, <2>1, DeliveredGrows DEF Delivered
    <2>3. Scan!NextOut = page + 1
        BY <1>1, <2>2 DEF Scan!NextOut, Delivered
    <2>4. Scan!LimitOf(-1, hi) = hi
        BY DEF Scan!LimitOf, Scan!NoMax
    <2>5. Scan!Deliver
        BY <2>1, <2>2, <2>3, <2>4 DEF Scan!Deliver, Delivered, Outcome
    <2> QED
        BY <2>5 DEF Scan!ScanNext
<1>3. CASE /\ page' = page /\ lo' = lo /\ hi' = hi
           /\ at \notin {"ended", "panicked"} /\ at' = "ended" /\ ~faulted'
    <2>1. lo <= page + 1
        BY <1>0, <1>3 DEF IterInv, InStep
    <2>2. Len(Delivered) = page + 1 /\ Delivered' = Delivered
        BY <1>1, <1>3, DeliveredGrows DEF Delivered
    <2>3. Scan!NextOut = page + 1 /\ Scan!LimitOf(-1, lo) = lo
        BY <1>1, <2>2 DEF Scan!NextOut, Delivered, Scan!LimitOf, Scan!NoMax
    <2>4. Outcome = "open" /\ Outcome' = "ended"
        BY <1>3 DEF Outcome
    <2>5. Scan!Finish
        BY <1>1, <1>3, <2>1, <2>2, <2>3, <2>4 DEF Scan!Finish, Delivered, Outcome
    <2> QED
        BY <2>5 DEF Scan!ScanNext
<1>4. CASE /\ page' = page /\ lo' = lo /\ hi' = hi
           /\ at \notin {"ended", "panicked"}
           /\ at' = "panicked" \/ (at' = "ended" /\ faulted')
    <2>1. Delivered' = Delivered /\ Outcome = "open" /\ Outcome' = "failed"
        BY <1>4 DEF Delivered, Outcome
    <2>2. Scan!Fail
        BY <1>4, <2>1 DEF Scan!Fail, Delivered, Outcome
    <2> QED
        BY <2>2 DEF Scan!ScanNext
<1>5. CASE /\ page' = page /\ lo' = lo /\ hi' = hi
           /\ at \notin {"ended", "panicked"} /\ at' \notin {"ended", "panicked"}
    <2>1. Delivered' = Delivered /\ Outcome' = Outcome
        BY <1>5 DEF Delivered, Outcome
    <2> QED
        BY <1>5, <2>1 DEF Scan!scanVars, Delivered, Outcome
<1>6. CASE Writer /\ UNCHANGED iterVars
    <2>1. lo' <= lo /\ hi' >= hi /\ page' = page /\ at' = at /\ faulted' = faulted
        BY <1>6, WriterKeepsIterInv DEF iterVars
    <2>2. Delivered' = Delivered /\ Outcome' = Outcome
        BY <2>1 DEF Delivered, Outcome
    <2>3. Scan!Resize
        BY <2>1, <2>2 DEF Scan!Resize, Delivered, Outcome
    <2> QED
        BY <2>3 DEF Scan!ScanNext
<1>7. CASE UNCHANGED vars
    <2>1. lo' = lo /\ hi' = hi /\ page' = page /\ at' = at /\ faulted' = faulted
        BY <1>7 DEF vars, iterVars, fileVars
    <2>2. Delivered' = Delivered /\ Outcome' = Outcome
        BY <2>1 DEF Delivered, Outcome
    <2> QED
        BY <2>1, <2>2 DEF Scan!scanVars, Delivered, Outcome
<1>8. CASE Iterate /\ UNCHANGED fileVars /\ ~(at \in {"read", "reread"} /\ GotPage)
    <2>1. page' = page /\ at \notin {"ended", "panicked"}
        BY <1>8 DEF Iterate, AskForPage, OpenFirst, OpenAsked, Read, Reread, Reopen, Advance, ReadFails
    <2>2. lo' = lo /\ hi' = hi
        BY <1>8 DEF fileVars
    <2> QED
        BY <2>1, <2>2, <1>3, <1>4, <1>5
<1> QED
    BY <1>2, <1>6, <1>7, <1>8 DEF Next

(* PageRowIter implements PageScan: page after page, each one complete on  *)
(* disk at some time, and None only when all that were always there have   *)
(* been walked; a page that is there and cannot be opened or read is a     *)
(* failure.                                                                *)
THEOREM IterImplementsScan == Spec => ImplementsScan
<1>1. IterInv /\ [Next]_vars => [Scan!ScanNext]_Scan!scanVars
    BY StepScans
<1> QED
    BY <1>1, InitScans, IterInvariant, PTL DEF Spec, ImplementsScan, Scan!ScanSpec

-----------------------------------------------------------------------------
(* The tuple filter. *)

(* Every set of natural numbers that is not empty has a least element. *)
LEMMA LeastNatural ==
    ASSUME NEW S \in SUBSET Nat, S # {}
    PROVE  \E m \in S : \A n \in S : m <= n
<1> DEFINE R == OpToRel(<, Nat)
<1>1. IsWellFoundedOn(R, Nat)
    BY NatLessThanWellFounded
<1>2. \A x, y \in Nat : y < x => <<y, x>> \in R
    BY DEF OpToRel
<1> HIDE DEF R
<1>3. \E x \in S : \A y \in S : ~(<<y, x>> \in R)
    BY <1>1, WFMin
<1>4. PICK x \in S : \A y \in S : ~(<<y, x>> \in R)
    BY <1>3
<1>5. \A n \in S : ~(n < x)
    BY <1>2, <1>4
<1> QED
    BY <1>5

(* The transaction ids and the pages are natural numbers. *)
LEMMA Numbers ==
    /\ FROZEN_XID = 2
    /\ FROZEN_XID \notin Xids /\ 0 \notin Xids
    /\ Xids \subseteq Nat
    /\ \A x \in Xids : x > FROZEN_XID
    /\ Pages \subseteq Nat
    /\ \A p \in Nat : p \in Pages <=> p < PageNumbers
    /\ PageNumbers \in Nat /\ 0 \in Pages
    BY VisibilityAssumption DEF Xids, FirstXid, FROZEN_XID, Pages

(* A snapshot taken now tells the transactions that have finished. *)
LEMMA SnapshotTells ==
    ASSUME ClusterTypeOK, XidsInOrder, NEW x \in Xids
    PROVE  xmin_visible(CurrentSnapshot, x) <=> xact[x] \in {"committed", "aborted"}
<1> DEFINE active == {y \in Xids : Active(y)}
           xmin == IF active = {} THEN next_xid
                   ELSE CHOOSE z \in active : \A y \in active : z <= y
<1>1. x \in Nat /\ x > FROZEN_XID /\ Xids \subseteq Nat /\ next_xid \in Nat /\ FROZEN_XID \in Nat
    BY Numbers, VisibilityAssumption DEF ClusterTypeOK, FirstXid
<1>2. /\ CurrentSnapshot.xmin = xmin
      /\ CurrentSnapshot.xmax = next_xid
      /\ CurrentSnapshot.xip = active
    BY DEF CurrentSnapshot
<1>3. /\ \A y \in Xids : y \in active <=> xact[y] = "active"
      /\ \A y \in Xids : xact[y] = "unused" <=> y >= next_xid
      /\ xact[x] \in {"unused", "active", "committed", "aborted"}
    BY DEF Active, XidsInOrder, ClusterTypeOK
<1>4. active \subseteq Nat /\ active \subseteq Xids
    BY <1>1
<1> HIDE DEF active
<1>5. xmin \in Nat /\ (x < xmin => x \notin active /\ x < next_xid)
    <2>1. CASE active = {}
        BY <2>1, <1>1
    <2>2. CASE active # {}
        <3>1. \E z \in active : \A y \in active : z <= y
            BY <2>2, <1>4, LeastNatural
        <3>2. xmin \in active /\ \A y \in active : xmin <= y
            BY <2>2, <3>1
        <3> HIDE DEF xmin
        <3>3. xmin \in Xids /\ xmin \in Nat /\ xmin < next_xid
            BY <3>2, <1>1, <1>3, <1>4
        <3>4. x < xmin => x \notin active
            BY <3>2, <3>3, <1>1, <1>4
        <3> QED
            BY <3>3, <3>4, <1>1
    <2> QED
        BY <2>1, <2>2
<1> HIDE DEF xmin
<1> QED
    BY <1>1, <1>2, <1>3, <1>5 DEF xmin_visible

(* The relation starts with one frozen row and no transactions. *)
LEMMA InitVisibilityInv == ClusterInit => VisibilityInv
<1> SUFFICES ASSUME ClusterInit PROVE VisibilityInv
    OBVIOUS
<1> DEFINE t == Tuple(1, FROZEN_XID)
<1>1. /\ t \in Tuples
      /\ t.row = 1 /\ t.t_xmin = FROZEN_XID /\ t.t_xmax = 0
    BY VisibilityAssumption DEF Tuple, Tuples
<1> HIDE DEF t
<1>2. /\ mem \in [Pages -> Seq(Tuples)] /\ disk = mem
      /\ \A p \in Pages : Len(mem[p]) <= MaxSlots
      /\ \A p \in Pages : \A i \in 1 .. Len(mem[p]) : p = 0 /\ i = 1 /\ mem[p][i] = t
    BY <1>1, VisibilityAssumption DEF ClusterInit, t
<1>3. /\ xact \in [Xids -> {"unused", "active", "committed", "aborted"}]
      /\ \A x \in Xids : xact[x] = "unused"
      /\ next_xid = FirstXid /\ changes = 0 /\ scan = "none" /\ pos = 0 /\ out = {}
      /\ truth = NoTruth /\ snapshot = NoSnapshot
      /\ truth.visible = {} /\ truth.committed = {} /\ truth.finished = {}
    BY DEF ClusterInit, NoTruth
<1>4. ClusterTypeOK
    BY <1>2, <1>3, VisibilityAssumption DEF ClusterTypeOK, FirstXid, FROZEN_XID
<1>5. XidsInOrder
    BY <1>3, VisibilityAssumption DEF XidsInOrder, Xids, FirstXid, FROZEN_XID
<1>6. HintsHonest /\ Rivals
    BY <1>1, <1>2, <1>3 DEF HintsHonest, Rivals, Apart
<1>7. DiskIsOlder
    BY <1>2 DEF DiskIsOlder
<1>8. TruthLasts /\ OutIsThere /\ NothingFromTheFuture
    BY <1>3 DEF TruthLasts, OutIsThere, NothingFromTheFuture, WithSnapshot
<1>9. DiskKnows /\ OneSurvivor /\ NothingSuperseded /\ VisibleStays
    BY <1>3 DEF DiskKnows, OneSurvivor, NothingSuperseded, VisibleStays
<1> QED
    BY <1>4, <1>5, <1>6, <1>7, <1>8, <1>9 DEF VisibilityInv

-----------------------------------------------------------------------------
(* What PostgreSQL does to row versions. *)

(* A transaction marks the version, a reader sets its hint bit, VACUUM     *)
(* frees its line pointer, or nothing happens to it.                       *)
Evolves(t, u) ==
    \/ u = t
    \/ \E x \in Xids, lock \in BOOLEAN :
         Active(x) /\ Changeable(t, x) /\ u = Marked(t, x, lock)
    \/ /\ t.t_xmax # 0 /\ ~Active(t.t_xmax)
       /\ t.lock_only \/ ~Committed(t.t_xmax)
       /\ u = [t EXCEPT !.xmax_invalid = TRUE]
    \/ /\ ~Committed(t.t_xmin) \/ Superseded(t)
       /\ u = [t EXCEPT !.flags = "DEAD"]

(* A version keeps its row and its writer; what has been deleted or        *)
(* replaced by a transaction that is running or has committed stays so.    *)
LEMMA EvolvesFacts ==
    ASSUME NEW t \in Tuples, NEW u, Evolves(t, u)
    PROVE  /\ u \in Tuples
           /\ u.row = t.row /\ u.t_xmin = t.t_xmin
           /\ u.t_xmax = 0 => t.t_xmax = 0
           /\ u.flags = "NORMAL" => t.flags = "NORMAL"
           /\ u.t_xmax = 0 /\ t.flags = "NORMAL" /\ Committed(t.t_xmin) => u.flags = "NORMAL"
           /\ \/ u.t_xmax = t.t_xmax /\ u.lock_only = t.lock_only
              \/ Active(u.t_xmax)
           /\ Replaced(t) /\ (Active(t.t_xmax) \/ Committed(t.t_xmax)) =>
                Replaced(u) /\ u.t_xmax = t.t_xmax
           /\ u.t_xmax # 0 /\ u.xmax_invalid /\ ~u.lock_only =>
                \/ t.t_xmax = u.t_xmax /\ t.xmax_invalid /\ ~t.lock_only
                \/ ~Active(u.t_xmax) /\ ~Committed(u.t_xmax)
<1>0. /\ t.t_xmax \in {0} \cup Xids /\ t.xmax_invalid \in BOOLEAN /\ t.lock_only \in BOOLEAN
      /\ t.flags \in {"NORMAL", "DEAD"} /\ 0 \notin Xids
    BY Numbers DEF Tuples
<1>1. CASE u = t
    BY <1>1, <1>0
<1>2. ASSUME NEW x \in Xids, NEW lock \in BOOLEAN,
             Active(x), Changeable(t, x), u = Marked(t, x, lock)
      PROVE  /\ u \in Tuples
             /\ u.row = t.row /\ u.t_xmin = t.t_xmin /\ u.flags = t.flags
             /\ u.t_xmax = x /\ u.xmax_invalid = FALSE /\ x # 0
             /\ ~(Replaced(t) /\ (Active(t.t_xmax) \/ Committed(t.t_xmax)))
    BY <1>2, <1>0 DEF Marked, Tuples, Changeable, Replaced, Superseded
<1>3. CASE /\ t.t_xmax # 0 /\ ~Active(t.t_xmax)
           /\ t.lock_only \/ ~Committed(t.t_xmax)
           /\ u = [t EXCEPT !.xmax_invalid = TRUE]
    BY <1>3, <1>0 DEF Tuples, Replaced
<1>4. CASE /\ ~Committed(t.t_xmin) \/ Superseded(t)
           /\ u = [t EXCEPT !.flags = "DEAD"]
    BY <1>4, <1>0 DEF Tuples, Replaced, Superseded
<1> QED
    BY <1>0, <1>1, <1>2, <1>3, <1>4 DEF Evolves

(* A version written by this step: of a new row, or replacing one. *)
Written(w) ==
    \E x \in Xids :
      /\ Active(x)
      /\ \/ w = Tuple(changes + 2, x) /\ changes' = changes + 1
         \/ \E q \in Pages : \E j \in 1 .. Len(mem[q]) :
              /\ Changeable(mem[q][j], x)
              /\ mem'[q][j] = Marked(mem[q][j], x, FALSE)
              /\ w = Tuple(mem[q][j].row, x)

(* A step that changes shared buffers: versions evolve, and at most one is *)
(* appended to a page.                                                     *)
MemStep ==
    /\ mem' \in [Pages -> Seq(Tuples)]
    /\ \A p \in Pages : Len(mem[p]) <= Len(mem'[p]) /\ Len(mem'[p]) <= MaxSlots
    /\ \A p \in Pages : \A i \in 1 .. Len(mem[p]) : Evolves(mem[p][i], mem'[p][i])
    /\ \A p \in Pages : \A i \in 1 .. Len(mem'[p]) :
         i > Len(mem[p]) => Written(mem'[p][i])
    /\ \A p, q \in Pages : \A i \in 1 .. Len(mem'[p]), j \in 1 .. Len(mem'[q]) :
         i > Len(mem[p]) /\ j > Len(mem[q]) => ~Apart(p, i, q, j)
    /\ changes' \in 0 .. MaxChanges /\ changes' >= changes
    /\ UNCHANGED <<xact, next_xid>>

(* A change of one version in its place is such a step. *)
LEMMA InPlaceIsMemStep ==
    ASSUME ClusterTypeOK, NEW p \in Pages, NEW i \in 1 .. Len(mem[p]), NEW u,
           Evolves(mem[p][i], u), mem' = [mem EXCEPT ![p][i] = u],
           changes' \in 0 .. MaxChanges, changes' >= changes, UNCHANGED <<xact, next_xid>>
    PROVE  MemStep
<1>1. /\ mem \in [Pages -> Seq(Tuples)]
      /\ \A q \in Pages : Len(mem[q]) <= MaxSlots /\ Len(mem[q]) \in Nat
    BY DEF ClusterTypeOK
<1>2. mem[p][i] \in Tuples
    BY <1>1
<1>3. u \in Tuples
    BY <1>2, EvolvesFacts
<1>4. /\ mem' \in [Pages -> Seq(Tuples)]
      /\ \A q \in Pages : Len(mem'[q]) = Len(mem[q])
    BY <1>1, <1>3
<1>5. \A q \in Pages : \A j \in 1 .. Len(mem[q]) : Evolves(mem[q][j], mem'[q][j])
    <2> SUFFICES ASSUME NEW q \in Pages, NEW j \in 1 .. Len(mem[q])
                 PROVE  Evolves(mem[q][j], mem'[q][j])
        OBVIOUS
    <2>1. CASE p = q /\ i = j
        BY <2>1, <1>1
    <2>2. CASE ~(p = q /\ i = j)
        <3>1. mem'[q][j] = mem[q][j]
            BY <2>2, <1>1
        <3> QED
            BY <3>1 DEF Evolves
    <2> QED
        BY <2>1, <2>2
<1> QED
    BY <1>1, <1>4, <1>5 DEF MemStep

(* INSERT appends a version of a new row. *)
LEMMA InsertIsMemStep ==
    ASSUME ClusterTypeOK, NEW x \in Xids, NEW p \in Pages, Insert(x, p)
    PROVE  MemStep
<1> DEFINE w == Tuple(changes + 2, x)
<1>1. /\ mem \in [Pages -> Seq(Tuples)] /\ changes \in Nat
      /\ \A q \in Pages : Len(mem[q]) <= MaxSlots /\ Len(mem[q]) \in Nat
    BY VisibilityAssumption DEF ClusterTypeOK
<1>2. /\ Active(x) /\ changes' = changes + 1 /\ changes + 1 <= MaxChanges
      /\ Len(mem[p]) < MaxSlots /\ mem' = [mem EXCEPT ![p] = Append(mem[p], w)]
      /\ UNCHANGED <<xact, next_xid>>
    BY <1>1, VisibilityAssumption DEF Insert, Writing
<1>3. w \in Tuples
    BY <1>1, <1>2, VisibilityAssumption DEF Tuple, Tuples
<1>4. Written(w)
    BY <1>2 DEF Written
<1> HIDE DEF w
<1>5. /\ mem' \in [Pages -> Seq(Tuples)]
      /\ \A q \in Pages : Len(mem'[q]) = IF q = p THEN Len(mem[p]) + 1 ELSE Len(mem[q])
      /\ \A q \in Pages : \A j \in 1 .. Len(mem[q]) : mem'[q][j] = mem[q][j]
      /\ mem'[p][Len(mem[p]) + 1] = w
    BY <1>1, <1>2, <1>3
<1>6. \A q \in Pages : \A j \in 1 .. Len(mem'[q]) :
        j > Len(mem[q]) => q = p /\ j = Len(mem[p]) + 1
    BY <1>1, <1>5
<1>7. \A q \in Pages : \A j \in 1 .. Len(mem[q]) : Evolves(mem[q][j], mem'[q][j])
    BY <1>5 DEF Evolves
<1>8. \A q \in Pages : Len(mem[q]) <= Len(mem'[q]) /\ Len(mem'[q]) <= MaxSlots
    BY <1>1, <1>2, <1>5, VisibilityAssumption
<1> QED
    BY <1>1, <1>2, <1>4, <1>5, <1>6, <1>7, <1>8, VisibilityAssumption DEF MemStep, Apart

(* UPDATE marks a version and appends the one that replaces it. *)
LEMMA UpdateIsMemStep ==
    ASSUME ClusterTypeOK, NEW x \in Xids, NEW p \in Pages, NEW i \in 1 .. Len(mem[p]), NEW q \in Pages,
           Update(x, p, i, q)
    PROVE  MemStep
<1> DEFINE t == mem[p][i]
           u == Marked(t, x, FALSE)
           w == Tuple(t.row, x)
           marked == [mem EXCEPT ![p][i] = u]
<1>1. /\ mem \in [Pages -> Seq(Tuples)] /\ changes \in Nat
      /\ \A r \in Pages : Len(mem[r]) <= MaxSlots /\ Len(mem[r]) \in Nat
      /\ t \in Tuples
    BY VisibilityAssumption DEF ClusterTypeOK
<1>2. /\ Active(x) /\ changes' = changes + 1 /\ changes + 1 <= MaxChanges
      /\ Changeable(t, x) /\ Len(mem[q]) < MaxSlots
      /\ mem' = [marked EXCEPT ![q] = Append(marked[q], w)]
      /\ UNCHANGED <<xact, next_xid>>
    BY <1>1, VisibilityAssumption DEF Update, Writing
<1>3. Evolves(t, u)
    BY <1>2 DEF Evolves
<1>4. u \in Tuples /\ w \in Tuples
    <2>1. u \in Tuples
        BY <1>1, <1>3, EvolvesFacts
    <2>2. w \in Tuples
        BY <1>1 DEF Tuple, Tuples
    <2> QED
        BY <2>1, <2>2
<1> HIDE DEF w, u
<1>5. /\ marked \in [Pages -> Seq(Tuples)]
      /\ \A r \in Pages : Len(marked[r]) = Len(mem[r])
      /\ \A r \in Pages : \A j \in 1 .. Len(mem[r]) :
           marked[r][j] = IF r = p /\ j = i THEN u ELSE mem[r][j]
    BY <1>1, <1>4
<1> HIDE DEF marked
<1>6. /\ mem' \in [Pages -> Seq(Tuples)]
      /\ \A r \in Pages : Len(mem'[r]) = IF r = q THEN Len(mem[q]) + 1 ELSE Len(mem[r])
      /\ \A r \in Pages : \A j \in 1 .. Len(mem[r]) : mem'[r][j] = marked[r][j]
      /\ mem'[q][Len(mem[q]) + 1] = w
    BY <1>1, <1>2, <1>4, <1>5
<1>7. \A r \in Pages : \A j \in 1 .. Len(mem'[r]) :
        j > Len(mem[r]) => r = q /\ j = Len(mem[q]) + 1
    BY <1>1, <1>6
<1>8. \A r \in Pages : \A j \in 1 .. Len(mem[r]) : Evolves(mem[r][j], mem'[r][j])
    <2> SUFFICES ASSUME NEW r \in Pages, NEW j \in 1 .. Len(mem[r])
                 PROVE  Evolves(mem[r][j], mem'[r][j])
        OBVIOUS
    <2>1. CASE r = p /\ j = i
        BY <2>1, <1>3, <1>5, <1>6
    <2>2. CASE ~(r = p /\ j = i)
        BY <2>2, <1>5, <1>6 DEF Evolves
    <2> QED
        BY <2>1, <2>2
<1>9. Written(w)
    <2>1. mem'[p][i] = Marked(mem[p][i], x, FALSE)
        BY <1>5, <1>6 DEF u
    <2> QED
        BY <2>1, <1>2 DEF Written, w
<1>10. \A r \in Pages : Len(mem[r]) <= Len(mem'[r]) /\ Len(mem'[r]) <= MaxSlots
    BY <1>1, <1>2, <1>6, VisibilityAssumption
<1> QED
    BY <1>1, <1>2, <1>6, <1>7, <1>8, <1>9, <1>10, VisibilityAssumption DEF MemStep, Apart

(* Every action on a version is such a step. *)
LEMMA OnVersionIsMemStep ==
    ASSUME ClusterTypeOK, NEW p \in Pages, NEW i \in 1 .. Len(mem[p]), OnVersion(p, i)
    PROVE  MemStep
<1>1. changes \in 0 .. MaxChanges /\ changes \in Nat /\ mem \in [Pages -> Seq(Tuples)]
    BY VisibilityAssumption DEF ClusterTypeOK
<1>2. ASSUME NEW x \in Xids, NEW lock \in BOOLEAN, Writing(x), Changeable(mem[p][i], x),
             mem' = [mem EXCEPT ![p][i] = Marked(mem[p][i], x, lock)]
      PROVE  MemStep
    <2>1. Evolves(mem[p][i], Marked(mem[p][i], x, lock))
        BY <1>2 DEF Evolves, Writing
    <2>2. changes' \in 0 .. MaxChanges /\ changes' >= changes /\ UNCHANGED <<xact, next_xid>>
        BY <1>1, <1>2, VisibilityAssumption DEF Writing
    <2> QED
        BY <2>1, <2>2, <1>2, InPlaceIsMemStep
<1>3. ASSUME NEW x \in Xids, Delete(x, p, i) PROVE MemStep
    BY <1>3, <1>2, <1>1 DEF Delete
<1>4. ASSUME NEW x \in Xids, Lock(x, p, i) PROVE MemStep
    BY <1>4, <1>2, <1>1 DEF Lock
<1>5. ASSUME NEW x \in Xids, NEW q \in Pages, Update(x, p, i, q) PROVE MemStep
    BY <1>5, UpdateIsMemStep
<1>6. CASE SetHint(p, i)
    <2> DEFINE u == [mem[p][i] EXCEPT !.xmax_invalid = TRUE]
    <2>1. Evolves(mem[p][i], u) /\ mem' = [mem EXCEPT ![p][i] = u]
        BY <1>1, <1>6 DEF SetHint, Evolves
    <2> HIDE DEF u
    <2>2. changes' \in 0 .. MaxChanges /\ changes' >= changes /\ UNCHANGED <<xact, next_xid>>
        BY <1>1, <1>6 DEF SetHint
    <2> QED
        BY <2>1, <2>2, InPlaceIsMemStep
<1>7. CASE Vacuum(p, i)
    <2> DEFINE u == [mem[p][i] EXCEPT !.flags = "DEAD"]
    <2>1. Evolves(mem[p][i], u) /\ mem' = [mem EXCEPT ![p][i] = u]
        BY <1>1, <1>7 DEF Vacuum, Evolves
    <2> HIDE DEF u
    <2>2. changes' \in 0 .. MaxChanges /\ changes' >= changes /\ UNCHANGED <<xact, next_xid>>
        BY <1>1, <1>7 DEF Vacuum
    <2> QED
        BY <2>1, <2>2, InPlaceIsMemStep
<1> QED
    BY <1>3, <1>4, <1>5, <1>6, <1>7 DEF OnVersion

-----------------------------------------------------------------------------
(* Such a step keeps the invariant. *)

(* What it appends has an active writer, and nobody has marked it. *)
LEMMA WrittenFacts ==
    ASSUME ClusterTypeOK, HintsHonest, MemStep, NEW w, Written(w)
    PROVE  /\ w.t_xmax = 0 /\ w.t_xmin \in Xids /\ Active(w.t_xmin)
           /\ w.row <= changes' + 1
<1>1. /\ changes \in Nat /\ changes' \in Nat /\ changes' >= changes
      /\ mem \in [Pages -> Seq(Tuples)]
    BY VisibilityAssumption DEF ClusterTypeOK, MemStep
<1>2. \A row, x : /\ Tuple(row, x).t_xmax = 0 /\ Tuple(row, x).t_xmin = x
                  /\ Tuple(row, x).row = row
    BY DEF Tuple
<1>3. \A q \in Pages : \A j \in 1 .. Len(mem[q]) :
        mem[q][j].row \in Nat /\ mem[q][j].row <= changes + 1
    <2> SUFFICES ASSUME NEW q \in Pages, NEW j \in 1 .. Len(mem[q])
                 PROVE  mem[q][j].row \in Nat /\ mem[q][j].row <= changes + 1
        OBVIOUS
    <2>1. mem[q][j] \in Tuples
        BY <1>1
    <2> QED
        BY <2>1, VisibilityAssumption DEF HintsHonest, Tuples
<1>4. PICK x \in Xids :
        /\ Active(x)
        /\ \/ w = Tuple(changes + 2, x) /\ changes' = changes + 1
           \/ \E q \in Pages : \E j \in 1 .. Len(mem[q]) : w = Tuple(mem[q][j].row, x)
    BY DEF Written
<1>5. CASE w = Tuple(changes + 2, x) /\ changes' = changes + 1
    BY <1>1, <1>2, <1>4, <1>5
<1>6. ASSUME NEW q \in Pages, NEW j \in 1 .. Len(mem[q]), w = Tuple(mem[q][j].row, x)
      PROVE  /\ w.t_xmax = 0 /\ w.t_xmin = x /\ w.row <= changes' + 1
    BY <1>1, <1>2, <1>3, <1>6
<1> QED
    BY <1>4, <1>5, <1>6

LEMMA MemStepKeepsBasics ==
    ASSUME ClusterTypeOK, XidsInOrder, HintsHonest, DiskIsOlder, MemStep, UNCHANGED <<disk, scanVars>>
    PROVE  ClusterTypeOK' /\ XidsInOrder' /\ HintsHonest' /\ DiskIsOlder'
<1>1. /\ mem \in [Pages -> Seq(Tuples)] /\ mem' \in [Pages -> Seq(Tuples)]
      /\ disk \in [Pages -> Seq(Tuples)] /\ disk' = disk
      /\ xact' = xact /\ next_xid' = next_xid /\ xact \in [Xids -> {"unused", "active", "committed", "aborted"}]
      /\ changes \in Nat /\ changes' \in Nat /\ changes' >= changes
    BY VisibilityAssumption DEF ClusterTypeOK, MemStep
<1>2. ClusterTypeOK'
    BY DEF ClusterTypeOK, MemStep, scanVars
<1>3. XidsInOrder'
    BY <1>1 DEF XidsInOrder
<1>4. HintsHonest'
    <2> SUFFICES ASSUME NEW p \in Pages, NEW i \in 1 .. Len(mem'[p])
                 PROVE  /\ mem'[p][i].t_xmax # 0 => xact[mem'[p][i].t_xmax] # "unused"
                        /\ mem'[p][i].t_xmax # 0 /\ mem'[p][i].xmax_invalid /\ ~mem'[p][i].lock_only
                             => xact[mem'[p][i].t_xmax] = "aborted"
                        /\ mem'[p][i].row <= changes' + 1
        BY <1>1 DEF HintsHonest
    <2> DEFINE t == mem[p][i]
               u == mem'[p][i]
    <2>1. CASE i > Len(mem[p])
        <3>1. Written(u)
            BY <2>1 DEF MemStep
        <3> QED
            BY <3>1, WrittenFacts
    <2>2. CASE i <= Len(mem[p])
        <3>1. i \in 1 .. Len(mem[p]) /\ t \in Tuples /\ u \in Tuples
            BY <2>2, <1>1
        <3>2. Evolves(t, u)
            BY <3>1 DEF MemStep
        <3>3. /\ t.t_xmax # 0 => xact[t.t_xmax] # "unused"
              /\ t.t_xmax # 0 /\ t.xmax_invalid /\ ~t.lock_only => xact[t.t_xmax] = "aborted"
              /\ t.row <= changes + 1
            BY <3>1 DEF HintsHonest
        <3>4. /\ u.row = t.row /\ (u.t_xmax = t.t_xmax \/ Active(u.t_xmax))
              /\ u.t_xmax # 0 /\ u.xmax_invalid /\ ~u.lock_only =>
                   \/ t.t_xmax = u.t_xmax /\ t.xmax_invalid /\ ~t.lock_only
                   \/ ~Active(u.t_xmax) /\ ~Committed(u.t_xmax)
            BY <3>1, <3>2, EvolvesFacts
        <3>5. u.t_xmax \in {0} \cup Xids /\ u.row \in Nat
            BY <3>1 DEF Tuples
        <3> HIDE DEF t, u
        <3>6. u.t_xmax # 0 => xact[u.t_xmax] # "unused"
            BY <3>3, <3>4 DEF Active
        <3>7. u.t_xmax # 0 /\ u.xmax_invalid /\ ~u.lock_only => xact[u.t_xmax] = "aborted"
            BY <3>3, <3>4, <3>5, <3>6, <1>1 DEF Active, Committed
        <3>8. u.row <= changes' + 1
            BY <3>3, <3>4, <3>5, <1>1
        <3> QED
            BY <3>6, <3>7, <3>8 DEF u
    <2> QED
        BY <2>1, <2>2, <1>1
<1>5. DiskIsOlder'
    <2>0. disk' = disk
        BY <1>1
    <2> SUFFICES ASSUME NEW p \in Pages
                 PROVE  /\ Len(disk[p]) <= Len(mem'[p])
                        /\ \A i \in 1 .. Len(disk[p]) :
                             /\ disk[p][i].row = mem'[p][i].row
                             /\ disk[p][i].t_xmin = mem'[p][i].t_xmin
                             /\ mem'[p][i].t_xmax = 0 => disk[p][i].t_xmax = 0
                             /\ mem'[p][i].flags = "NORMAL" => disk[p][i].flags = "NORMAL"
        BY <2>0 DEF DiskIsOlder
    <2>1. /\ Len(disk[p]) <= Len(mem[p]) /\ Len(mem[p]) <= Len(mem'[p])
          /\ Len(disk[p]) \in Nat /\ Len(mem[p]) \in Nat /\ Len(mem'[p]) \in Nat
        BY <1>1 DEF DiskIsOlder, MemStep
    <2>2. ASSUME NEW i \in 1 .. Len(disk[p])
          PROVE  /\ disk[p][i].row = mem'[p][i].row
                 /\ disk[p][i].t_xmin = mem'[p][i].t_xmin
                 /\ mem'[p][i].t_xmax = 0 => disk[p][i].t_xmax = 0
                 /\ mem'[p][i].flags = "NORMAL" => disk[p][i].flags = "NORMAL"
        <3>1. i \in 1 .. Len(mem[p]) /\ mem[p][i] \in Tuples
            BY <2>1, <1>1
        <3>2. Evolves(mem[p][i], mem'[p][i])
            BY <3>1 DEF MemStep
        <3> QED
            BY <3>1, <3>2, EvolvesFacts DEF DiskIsOlder
    <2> QED
        BY <2>1, <2>2
<1> QED
    BY <1>2, <1>3, <1>4, <1>5

(* What is out of the game stays so. *)
LEMMA GoneStays ==
    ASSUME NEW t \in Tuples, NEW u, Evolves(t, u), Gone(t)
    PROVE  Gone(u)
<1>1. CASE t.t_xmin \in Xids /\ xact[t.t_xmin] = "aborted"
    BY <1>1, EvolvesFacts DEF Gone
<1>2. CASE Superseded(t)
    BY <1>2, EvolvesFacts DEF Gone, Superseded, Replaced
<1> QED
    BY <1>1, <1>2 DEF Gone

(* A version that may be changed is not out of the game, and if it bears   *)
(* the xmax of a transaction that replaced it, that one was rolled back.   *)
LEMMA ChangeableFacts ==
    ASSUME ClusterTypeOK, NEW t \in Tuples, NEW x \in Xids, Active(x), Changeable(t, x),
           t.t_xmax # 0 => xact[t.t_xmax] # "unused"
    PROVE  /\ ~Gone(t)
           /\ Replaced(t) => t.t_xmax \in Xids /\ xact[t.t_xmax] = "aborted"
           /\ Committed(t.t_xmin) \/ t.t_xmin = x
<1>1. /\ t.t_xmax \in {0} \cup Xids /\ xact \in [Xids -> {"unused", "active", "committed", "aborted"}]
      /\ FROZEN_XID \notin Xids
    BY Numbers DEF Tuples, ClusterTypeOK
<1>2. Committed(t.t_xmin) \/ t.t_xmin = x
    BY DEF Changeable
<1>3. ~(t.t_xmin \in Xids /\ xact[t.t_xmin] = "aborted")
    BY <1>1, <1>2 DEF Committed, Active
<1>4. ~Superseded(t)
    BY DEF Changeable
<1>5. Replaced(t) => t.t_xmax \in Xids /\ xact[t.t_xmax] = "aborted"
    BY <1>1, <1>4 DEF Replaced, Changeable, Active, Committed, Superseded
<1> QED
    BY <1>2, <1>3, <1>4, <1>5 DEF Gone

(* The relation between two versions of a row. *)
Rival(t, u) ==
    \/ Gone(t) \/ Gone(u)
    \/ Replaced(t) /\ t.t_xmax = u.t_xmin
    \/ Replaced(u) /\ u.t_xmax = t.t_xmin

(* Two versions remain rivals, whatever happens to each of them. *)
LEMMA RivalStays ==
    ASSUME ClusterTypeOK, NEW t \in Tuples, NEW u \in Tuples, NEW tt, NEW uu,
           Evolves(t, tt), Evolves(u, uu), Rival(t, u),
           t.t_xmax # 0 => xact[t.t_xmax] # "unused",
           u.t_xmax # 0 => xact[u.t_xmax] # "unused"
    PROVE  Rival(tt, uu)
<1>1. CASE Gone(t) \/ Gone(u)
    BY <1>1, GoneStays DEF Rival
<1>2. ASSUME NEW a \in Tuples, NEW b \in Tuples, NEW aa, NEW bb, Evolves(a, aa), Evolves(b, bb),
             a.t_xmax # 0 => xact[a.t_xmax] # "unused",
             Replaced(a), a.t_xmax = b.t_xmin
      PROVE  Gone(bb) \/ (Replaced(aa) /\ aa.t_xmax = bb.t_xmin)
    <2>1. a.t_xmax \in Xids /\ xact[a.t_xmax] \in {"active", "committed", "aborted"}
        BY <1>2 DEF Tuples, ClusterTypeOK, Replaced
    <2>2. CASE xact[a.t_xmax] = "aborted"
        BY <1>2, <2>1, <2>2, EvolvesFacts DEF Gone
    <2>3. CASE xact[a.t_xmax] # "aborted"
        <3>1. Active(a.t_xmax) \/ Committed(a.t_xmax)
            BY <2>1, <2>3 DEF Active, Committed
        <3> QED
            BY <3>1, <1>2, EvolvesFacts
    <2> QED
        BY <2>2, <2>3
<1>3. CASE Replaced(t) /\ t.t_xmax = u.t_xmin
    BY <1>2, <1>3 DEF Rival
<1>4. CASE Replaced(u) /\ u.t_xmax = t.t_xmin
    BY <1>2, <1>4 DEF Rival
<1> QED
    BY <1>1, <1>3, <1>4 DEF Rival

LEMMA MemStepKeepsRivals ==
    ASSUME ClusterTypeOK, HintsHonest, Rivals, MemStep
    PROVE  Rivals'
<1>1. /\ mem \in [Pages -> Seq(Tuples)] /\ mem' \in [Pages -> Seq(Tuples)]
      /\ xact' = xact /\ changes \in Nat
      /\ \A p \in Pages : Len(mem[p]) \in Nat /\ Len(mem'[p]) \in Nat
    BY VisibilityAssumption DEF ClusterTypeOK, MemStep
<1>2. ASSUME NEW p \in Pages, NEW i \in 1 .. Len(mem[p])
      PROVE  /\ mem[p][i] \in Tuples /\ Evolves(mem[p][i], mem'[p][i])
             /\ mem[p][i].t_xmax # 0 => xact[mem[p][i].t_xmax] # "unused"
             /\ mem'[p][i].row = mem[p][i].row
             /\ mem[p][i].row \in Nat /\ mem[p][i].row <= changes + 1
    <2>1. mem[p][i] \in Tuples
        BY <1>1
    <2>2. Evolves(mem[p][i], mem'[p][i])
        BY DEF MemStep
    <2>3. mem'[p][i].row = mem[p][i].row
        BY <2>1, <2>2, EvolvesFacts
    <2> QED
        BY <2>1, <2>2, <2>3, VisibilityAssumption DEF HintsHonest, Tuples
<1>3. ASSUME NEW p \in Pages, NEW q \in Pages, NEW i \in 1 .. Len(mem[p]), NEW j \in 1 .. Len(mem[q]),
             Apart(p, i, q, j), mem[p][i].row = mem[q][j].row
      PROVE  Rival(mem[p][i], mem[q][j])
    BY <1>3 DEF Rivals, Rival
(* A version that was there before and the one that is new. *)
<1>4. ASSUME NEW p \in Pages, NEW i \in 1 .. Len(mem[p]), NEW w, Written(w),
             mem'[p][i].row = w.row
      PROVE  Rival(mem'[p][i], w)
    <2> DEFINE t == mem[p][i]
               tt == mem'[p][i]
    <2>1. /\ t \in Tuples /\ Evolves(t, tt) /\ tt.row = t.row /\ t.row \in Nat
          /\ t.row <= changes + 1
        BY <1>2
    <2>2. PICK x \in Xids :
            /\ Active(x)
            /\ \/ w = Tuple(changes + 2, x)
               \/ \E q \in Pages : \E j \in 1 .. Len(mem[q]) :
                    /\ Changeable(mem[q][j], x)
                    /\ mem'[q][j] = Marked(mem[q][j], x, FALSE)
                    /\ w = Tuple(mem[q][j].row, x)
        BY <1>4 DEF Written
    <2>3. CASE w = Tuple(changes + 2, x)
        BY <2>1, <2>3, <1>1, <1>4 DEF Tuple
    <2>4. ASSUME NEW q \in Pages, NEW j \in 1 .. Len(mem[q]), Changeable(mem[q][j], x),
                 mem'[q][j] = Marked(mem[q][j], x, FALSE), w = Tuple(mem[q][j].row, x)
          PROVE  Rival(tt, w)
        <3> DEFINE c == mem[q][j]
        <3>1. c \in Tuples /\ (c.t_xmax # 0 => xact[c.t_xmax] # "unused")
            BY <1>2
        <3>2. /\ ~Gone(c)
              /\ Replaced(c) => c.t_xmax \in Xids /\ xact[c.t_xmax] = "aborted"
              /\ Committed(c.t_xmin) \/ c.t_xmin = x
            BY <3>1, <2>2, <2>4, ChangeableFacts
        <3>3. w.t_xmin = x /\ c.row = t.row
            BY <2>1, <2>4, <1>4 DEF Tuple
        <3>4. CASE ~Apart(p, i, q, j)
            <4>1. tt = Marked(t, x, FALSE) /\ t \in Tuples /\ x # 0
                BY <3>4, <2>1, <2>4, Numbers DEF Apart
            <4>2. Replaced(tt) /\ tt.t_xmax = x
                BY <4>1 DEF Marked, Replaced, Tuples
            <4> QED
                BY <4>2, <3>3 DEF Rival
        <3>5. CASE Apart(p, i, q, j)
            <4>1. Rival(t, c)
                BY <3>5, <3>3, <1>3
            <4>2. CASE Gone(t)
                BY <4>2, <2>1, GoneStays DEF Rival
            <4>3. CASE Replaced(t) /\ t.t_xmax = c.t_xmin
                <5>1. CASE Committed(c.t_xmin)
                    <6>1. Gone(t)
                        BY <4>3, <5>1 DEF Gone, Superseded, Replaced
                    <6> QED
                        BY <6>1, <2>1, GoneStays DEF Rival
                <5>2. CASE c.t_xmin = x
                    <6>1. Replaced(tt) /\ tt.t_xmax = x
                        BY <4>3, <5>2, <2>1, <2>2, EvolvesFacts
                    <6> QED
                        BY <6>1, <3>3 DEF Rival
                <5> QED
                    BY <5>1, <5>2, <3>2
            <4>4. CASE Replaced(c) /\ c.t_xmax = t.t_xmin
                <5>1. Gone(t)
                    BY <4>4, <3>2 DEF Gone
                <5> QED
                    BY <5>1, <2>1, GoneStays DEF Rival
            <4> QED
                BY <4>1, <4>2, <4>3, <4>4, <3>2 DEF Rival
        <3> QED
            BY <3>4, <3>5
    <2> QED
        BY <2>2, <2>3, <2>4
<1>5. ASSUME NEW p \in Pages, NEW q \in Pages, NEW i \in 1 .. Len(mem'[p]), NEW j \in 1 .. Len(mem'[q]),
             Apart(p, i, q, j), mem'[p][i].row = mem'[q][j].row
      PROVE  Rival(mem'[p][i], mem'[q][j])
    <2>1. CASE i <= Len(mem[p]) /\ j <= Len(mem[q])
        <3>1. i \in 1 .. Len(mem[p]) /\ j \in 1 .. Len(mem[q])
            BY <2>1, <1>1
        <3>2. Rival(mem[p][i], mem[q][j])
            BY <3>1, <1>2, <1>3, <1>5
        <3> QED
            BY <3>1, <3>2, <1>2, RivalStays, SMTT(30)
    <2>2. CASE i <= Len(mem[p]) /\ j > Len(mem[q])
        <3>1. i \in 1 .. Len(mem[p]) /\ Written(mem'[q][j])
            BY <2>2, <1>1 DEF MemStep
        <3> QED
            BY <3>1, <1>4, <1>5
    <2>3. CASE i > Len(mem[p]) /\ j <= Len(mem[q])
        <3>1. j \in 1 .. Len(mem[q]) /\ Written(mem'[p][i])
            BY <2>3, <1>1 DEF MemStep
        <3>2. Rival(mem'[q][j], mem'[p][i])
            BY <3>1, <1>4, <1>5
        <3> QED
            BY <3>2 DEF Rival
    <2>4. CASE i > Len(mem[p]) /\ j > Len(mem[q])
        BY <2>4, <1>5 DEF MemStep
    <2> QED
        BY <2>1, <2>2, <2>3, <2>4, <1>1
<1>6. \A t : (Gone(t) <=> Gone(t)') /\ (Replaced(t) <=> Replaced(t)')
    BY <1>1 DEF Gone, Replaced, Superseded, Committed
<1> QED
    BY <1>1, <1>5, <1>6 DEF Rivals, Rival

(* What had been superseded at the snapshot stays so, and nothing joins it. *)
LEMMA SupersededThenStays ==
    ASSUME ClusterTypeOK, HintsHonest, TruthLasts, MemStep,
           NEW p \in Pages, NEW i \in 1 .. Len(mem[p])
    PROVE  /\ SupersededThen(mem[p][i]) <=> SupersededThen(mem'[p][i])
           /\ WrittenThen(mem[p][i]) <=> WrittenThen(mem'[p][i])
<1> DEFINE t == mem[p][i]
           u == mem'[p][i]
<1>1. /\ t \in Tuples /\ Evolves(t, u)
      /\ xact \in [Xids -> {"unused", "active", "committed", "aborted"}]
      /\ truth.committed \subseteq Xids /\ \A x \in truth.committed : xact[x] = "committed"
    BY DEF ClusterTypeOK, MemStep, TruthLasts
<1>2. /\ t.t_xmax # 0 /\ t.xmax_invalid /\ ~t.lock_only => xact[t.t_xmax] = "aborted"
      /\ t.lock_only \in BOOLEAN /\ t.xmax_invalid \in BOOLEAN
    BY <1>1 DEF HintsHonest, Tuples
<1>3. /\ u \in Tuples /\ u.t_xmin = t.t_xmin
      /\ (u.t_xmax = t.t_xmax /\ u.lock_only = t.lock_only) \/ Active(u.t_xmax)
      /\ Replaced(t) /\ (Active(t.t_xmax) \/ Committed(t.t_xmax)) =>
                Replaced(u) /\ u.t_xmax = t.t_xmax
    BY <1>1, EvolvesFacts
<1> HIDE DEF t, u
<1>4. ASSUME SupersededThen(t) PROVE SupersededThen(u)
    <2>1. t.t_xmax \in Xids /\ t.t_xmax # 0 /\ xact[t.t_xmax] = "committed" /\ ~t.lock_only
        BY <1>4, <1>1, Numbers DEF SupersededThen
    <2>2. Replaced(t) /\ Committed(t.t_xmax)
        BY <2>1, <1>2 DEF Replaced, Committed
    <2> QED
        BY <1>3, <1>4, <2>2 DEF SupersededThen, Replaced
<1>5. ASSUME SupersededThen(u) PROVE SupersededThen(t)
    <2>1. ~Active(u.t_xmax)
        BY <1>5, <1>1 DEF SupersededThen, Active
    <2> QED
        BY <1>3, <1>5, <2>1 DEF SupersededThen
<1>6. WrittenThen(t) <=> WrittenThen(u)
    BY <1>3 DEF WrittenThen
<1> QED
    BY <1>4, <1>5, <1>6 DEF t, u

LEMMA MemStepKeepsOut ==
    ASSUME ClusterTypeOK, HintsHonest, TruthLasts, OutIsThere, NothingFromTheFuture,
           MemStep, UNCHANGED <<disk, scanVars>>
    PROVE  /\ TruthLasts' /\ OutIsThere' /\ NothingFromTheFuture'
           /\ NothingSuperseded => NothingSuperseded'
<1>1. /\ xact' = xact /\ scan' = scan /\ snapshot' = snapshot /\ pos' = pos /\ out' = out
      /\ truth' = truth /\ mem \in [Pages -> Seq(Tuples)]
      /\ \A p \in Pages : Len(mem[p]) \in Nat /\ Len(mem'[p]) \in Nat /\ Len(mem[p]) <= Len(mem'[p])
    BY DEF MemStep, scanVars, ClusterTypeOK
<1>2. ASSUME NEW r \in out
      PROVE  /\ r[1] \in Pages /\ r[2] \in 1 .. Len(mem[r[1]])
             /\ r[2] <= Len(mem'[r[1]])
             /\ mem'[r[1]][r[2]].row = mem[r[1]][r[2]].row
             /\ mem'[r[1]][r[2]].t_xmin = mem[r[1]][r[2]].t_xmin
             /\ SupersededThen(mem'[r[1]][r[2]]) => SupersededThen(mem[r[1]][r[2]])
    <2>1. r[1] \in Pages /\ r[2] \in 1 .. Len(mem[r[1]])
        BY <1>1 DEF ClusterTypeOK, OutIsThere
    <2>2. mem[r[1]][r[2]] \in Tuples /\ Evolves(mem[r[1]][r[2]], mem'[r[1]][r[2]])
        BY <2>1, <1>1 DEF MemStep
    <2>3. r[2] <= Len(mem'[r[1]])
        BY <2>1, <1>1
    <2>4. /\ mem'[r[1]][r[2]].row = mem[r[1]][r[2]].row
          /\ mem'[r[1]][r[2]].t_xmin = mem[r[1]][r[2]].t_xmin
        BY <2>2, EvolvesFacts
    <2>5. SupersededThen(mem'[r[1]][r[2]]) => SupersededThen(mem[r[1]][r[2]])
        BY <2>1, SupersededThenStays
    <2> QED
        BY <2>1, <2>3, <2>4, <2>5
<1>3. TruthLasts'
    BY <1>1 DEF TruthLasts, WithSnapshot, xmin_visible
<1>4. OutIsThere'
    BY <1>1, <1>2 DEF OutIsThere
<1>5. NothingFromTheFuture'
    BY <1>1 DEF NothingFromTheFuture, WithSnapshot
<1>6. NothingSuperseded => NothingSuperseded'
    BY <1>1, <1>2 DEF NothingSuperseded, WithSnapshot, SupersededThen
<1> QED
    BY <1>3, <1>4, <1>5, <1>6

LEMMA MemStepKeepsDiskKnows ==
    ASSUME ClusterTypeOK, HintsHonest, TruthLasts, DiskKnows, MemStep, UNCHANGED <<disk, scanVars>>
    PROVE  DiskKnows'
<1>1. /\ scan' = scan /\ pos' = pos /\ truth' = truth /\ disk' = disk
      /\ \A p \in Pages : Len(mem[p]) \in Nat /\ Len(mem'[p]) \in Nat
      /\ xact \in [Xids -> {"unused", "active", "committed", "aborted"}]
    BY DEF scanVars, MemStep, ClusterTypeOK
<1> SUFFICES ASSUME scan = "running", NEW p \in Pages, NEW i \in 1 .. Len(mem'[p]),
                    p >= pos, SupersededThen(mem'[p][i])
             PROVE  i <= Len(disk[p]) /\ disk[p][i].t_xmax # 0 /\ ~disk[p][i].xmax_invalid
    BY <1>1 DEF DiskKnows, SupersededThen
<1>2. CASE i > Len(mem[p])
    <2>1. mem'[p][i].t_xmax = 0
        BY <1>2, WrittenFacts DEF MemStep
    <2> QED
        BY <2>1, Numbers DEF SupersededThen, ClusterTypeOK
<1>3. CASE i <= Len(mem[p])
    <2>1. i \in 1 .. Len(mem[p])
        BY <1>1, <1>3
    <2> QED
        BY <2>1, SupersededThenStays DEF DiskKnows
<1> QED
    BY <1>1, <1>2, <1>3

LEMMA OneSurvivorNext ==
    ASSUME truth' = truth,
           scan' # "none" =>
             \A p, q \in Pages : \A i \in 1 .. Len(mem'[p]), j \in 1 .. Len(mem'[q]) :
               /\ Apart(p, i, q, j)
               /\ mem'[p][i].row = mem'[q][j].row
               /\ WrittenThen(mem'[p][i])
               /\ WrittenThen(mem'[q][j])
               => SupersededThen(mem'[p][i]) \/ SupersededThen(mem'[q][j])
    PROVE  OneSurvivor'
    BY DEF OneSurvivor, SupersededThen, WrittenThen, Apart

LEMMA MemStepKeepsOneSurvivor ==
    ASSUME ClusterTypeOK, HintsHonest, TruthLasts, OneSurvivor, MemStep, UNCHANGED <<disk, scanVars>>
    PROVE  OneSurvivor'
<1>1. /\ scan' = scan /\ truth' = truth /\ mem \in [Pages -> Seq(Tuples)]
      /\ \A p \in Pages : Len(mem[p]) \in Nat /\ Len(mem'[p]) \in Nat
      /\ xact \in [Xids -> {"unused", "active", "committed", "aborted"}]
    BY DEF scanVars, MemStep, ClusterTypeOK
<1> SUFFICES ASSUME scan # "none", NEW p \in Pages, NEW q \in Pages,
                    NEW i \in 1 .. Len(mem'[p]), NEW j \in 1 .. Len(mem'[q]),
                    Apart(p, i, q, j), mem'[p][i].row = mem'[q][j].row,
                    WrittenThen(mem'[p][i]), WrittenThen(mem'[q][j])
             PROVE  SupersededThen(mem'[p][i]) \/ SupersededThen(mem'[q][j])
    BY <1>1, OneSurvivorNext
(* What was written at the snapshot was there before. *)
<1>2. ASSUME NEW a \in Pages, NEW k \in 1 .. Len(mem'[a]), WrittenThen(mem'[a][k])
      PROVE  k \in 1 .. Len(mem[a])
    <2>1. CASE k > Len(mem[a])
        <3>1. mem'[a][k].t_xmin \in Xids /\ Active(mem'[a][k].t_xmin)
            BY <2>1, WrittenFacts DEF MemStep
        <3> QED
            BY <1>2, <3>1, Numbers DEF WrittenThen, TruthLasts, Active
    <2> QED
        BY <2>1, <1>1
<1>3. i \in 1 .. Len(mem[p]) /\ j \in 1 .. Len(mem[q])
    BY <1>2
<1>4. ASSUME NEW a \in Pages, NEW k \in 1 .. Len(mem[a])
      PROVE  mem'[a][k].row = mem[a][k].row
    <2>1. mem[a][k] \in Tuples /\ Evolves(mem[a][k], mem'[a][k])
        BY <1>1 DEF MemStep
    <2> QED
        BY <2>1, EvolvesFacts
<1>5. mem[p][i].row = mem[q][j].row /\ WrittenThen(mem[p][i]) /\ WrittenThen(mem[q][j])
    BY <1>3, <1>4, SupersededThenStays
<1>6. SupersededThen(mem[p][i]) \/ SupersededThen(mem[q][j])
    BY <1>3, <1>5 DEF OneSurvivor
<1> QED
    BY <1>3, <1>6, SupersededThenStays

LEMMA MemStepKeepsVisible ==
    ASSUME ClusterTypeOK, HintsHonest, TruthLasts, VisibleStays, MemStep, UNCHANGED <<disk, scanVars>>
    PROVE  VisibleStays'
<1>1. /\ pos' = pos /\ out' = out /\ truth' = truth /\ disk' = disk
      /\ mem \in [Pages -> Seq(Tuples)]
      /\ \A p \in Pages : Len(mem[p]) \in Nat /\ Len(mem'[p]) \in Nat /\ Len(mem[p]) <= Len(mem'[p])
    BY DEF scanVars, MemStep, ClusterTypeOK
<1> SUFFICES ASSUME NEW v \in truth.visible
             PROVE  /\ v[2] <= Len(mem'[v[1]])
                    /\ WrittenThen(mem'[v[1]][v[2]])
                    /\ mem'[v[1]][v[2]].t_xmax = 0 =>
                         /\ mem'[v[1]][v[2]].flags = "NORMAL"
                         /\ v[1] >= pos => v[2] <= Len(disk[v[1]])
                         /\ v[1] < pos => \E r \in out : r[1] = v[1] /\ r[2] = v[2]
    BY <1>1 DEF VisibleStays, WrittenThen
<1>2. v[1] \in Pages /\ v[2] \in 1 .. Len(mem[v[1]])
    BY <1>1 DEF ClusterTypeOK, VisibleStays
<1> DEFINE t == mem[v[1]][v[2]]
           u == mem'[v[1]][v[2]]
<1>3. t \in Tuples /\ Evolves(t, u)
    BY <1>1, <1>2 DEF MemStep
<1>4. WrittenThen(t) /\ WrittenThen(u)
    BY <1>2, SupersededThenStays DEF VisibleStays
<1>5. Committed(t.t_xmin)
    BY <1>4 DEF WrittenThen, Committed, TruthLasts, ClusterTypeOK
<1>6. u.t_xmax = 0 => t.t_xmax = 0 /\ (t.flags = "NORMAL" => u.flags = "NORMAL")
    BY <1>3, <1>5, EvolvesFacts
<1>7. v[2] <= Len(mem'[v[1]])
    BY <1>1, <1>2
<1> QED
    BY <1>4, <1>6, <1>7 DEF VisibleStays

(* Every action of PostgreSQL on shared buffers keeps the invariant. *)
LEMMA MemStepKeepsInv ==
    ASSUME VisibilityInv, MemStep, UNCHANGED <<disk, scanVars>>
    PROVE  VisibilityInv'
    BY MemStepKeepsBasics, MemStepKeepsRivals, MemStepKeepsOut, MemStepKeepsDiskKnows,
       MemStepKeepsOneSurvivor, MemStepKeepsVisible DEF VisibilityInv

-----------------------------------------------------------------------------
(* The other steps. *)

(* Transactions begin, commit and are rolled back: an outcome is final. *)
LEMMA XactStepKeepsInv ==
    ASSUME VisibilityInv, Begin \/ \E x \in Xids : Finish(x), UNCHANGED <<disk, scanVars>>
    PROVE  VisibilityInv'
<1>1. /\ mem' = mem /\ disk' = disk /\ changes' = changes /\ scan' = scan /\ snapshot' = snapshot
      /\ pos' = pos /\ out' = out /\ truth' = truth
    BY DEF Begin, Finish, scanVars
<1>2. /\ ClusterTypeOK /\ xact \in [Xids -> {"unused", "active", "committed", "aborted"}]
      /\ next_xid \in FirstXid .. FirstXid + MaxTxns /\ XidsInOrder
    BY DEF VisibilityInv, ClusterTypeOK
<1>3. /\ xact' \in [Xids -> {"unused", "active", "committed", "aborted"}]
      /\ next_xid' \in FirstXid .. FirstXid + MaxTxns
      /\ XidsInOrder'
      /\ \A x \in Xids : xact[x] # "unused" => xact'[x] # "unused"
      /\ \A x \in Xids : xact[x] \in {"committed", "aborted"} => xact'[x] = xact[x]
    <2>1. CASE Begin
        BY <2>1, <1>2, Numbers, VisibilityAssumption
           DEF Begin, XidsInOrder, Xids, FirstXid, FROZEN_XID
    <2>2. ASSUME NEW x \in Xids, Finish(x)
          PROVE  /\ xact' \in [Xids -> {"unused", "active", "committed", "aborted"}]
                 /\ next_xid' = next_xid /\ XidsInOrder'
                 /\ \A y \in Xids : xact[y] # "unused" => xact'[y] # "unused"
                 /\ \A y \in Xids : xact[y] \in {"committed", "aborted"} => xact'[y] = xact[y]
        BY <2>2, <1>2 DEF Finish, XidsInOrder, Active
    <2> QED
        BY <2>1, <2>2, <1>2
<1>5. ClusterTypeOK'
    BY <1>1, <1>2, <1>3 DEF ClusterTypeOK
<1>6. \A p \in Pages : \A i \in 1 .. Len(mem[p]) :
        mem[p][i] \in Tuples /\ mem[p][i].t_xmax \in {0} \cup Xids
    <2>1. mem \in [Pages -> Seq(Tuples)]
        BY <1>2 DEF ClusterTypeOK
    <2>2. \A p \in Pages : \A i \in 1 .. Len(mem[p]) : mem[p][i] \in Tuples
        BY <2>1
    <2> QED
        BY <2>2 DEF Tuples
<1>7. HintsHonest'
    BY <1>1, <1>3, <1>6 DEF HintsHonest, VisibilityInv
<1>8. Rivals'
    <2> SUFFICES ASSUME NEW p \in Pages, NEW q \in Pages,
                        NEW i \in 1 .. Len(mem[p]), NEW j \in 1 .. Len(mem[q]),
                        Apart(p, i, q, j), mem[p][i].row = mem[q][j].row
                 PROVE  \/ Gone(mem[p][i])' \/ Gone(mem[q][j])'
                        \/ Replaced(mem[p][i]) /\ mem[p][i].t_xmax = mem[q][j].t_xmin
                        \/ Replaced(mem[q][j]) /\ mem[q][j].t_xmax = mem[p][i].t_xmin
        BY <1>1 DEF Rivals, Apart, Replaced
    <2>1. \/ Gone(mem[p][i]) \/ Gone(mem[q][j])
          \/ Replaced(mem[p][i]) /\ mem[p][i].t_xmax = mem[q][j].t_xmin
          \/ Replaced(mem[q][j]) /\ mem[q][j].t_xmax = mem[p][i].t_xmin
        BY DEF VisibilityInv, Rivals
    <2>2. /\ Gone(mem[p][i]) => Gone(mem[p][i])'
          /\ Gone(mem[q][j]) => Gone(mem[q][j])'
        BY <1>1, <1>3, <1>6 DEF Gone, Superseded, Committed
    <2> QED
        BY <2>1, <2>2
<1>9. DiskIsOlder'
    BY <1>1 DEF DiskIsOlder, VisibilityInv
<1>10. TruthLasts'
    BY <1>1, <1>2, <1>3 DEF TruthLasts, VisibilityInv, ClusterTypeOK, WithSnapshot, xmin_visible
<1>11. OutIsThere' /\ NothingFromTheFuture'
    BY <1>1 DEF OutIsThere, NothingFromTheFuture, WithSnapshot, VisibilityInv
<1>12. CheckpointFirst => DiskKnows' /\ OneSurvivor' /\ NothingSuperseded' /\ VisibleStays'
    BY <1>1 DEF DiskKnows, OneSurvivor, NothingSuperseded, VisibleStays, VisibilityInv,
                SupersededThen, WrittenThen, WithSnapshot, Apart
<1> QED
    BY <1>3, <1>5, <1>7, <1>8, <1>9, <1>10, <1>11, <1>12 DEF VisibilityInv

(* A page that is written back is then as it is in shared buffers. *)
LEMMA FlushKeepsInv ==
    ASSUME VisibilityInv, NEW p \in Pages, Flush(p)
    PROVE  VisibilityInv'
<1>1. /\ xact' = xact /\ next_xid' = next_xid /\ mem' = mem /\ changes' = changes /\ scan' = scan
      /\ snapshot' = snapshot /\ pos' = pos /\ out' = out /\ truth' = truth
      /\ disk' = [disk EXCEPT ![p] = mem[p]]
    BY DEF Flush, pgVars, scanVars
<1>2. ClusterTypeOK /\ mem \in [Pages -> Seq(Tuples)] /\ disk \in [Pages -> Seq(Tuples)]
    BY DEF VisibilityInv, ClusterTypeOK
<1>3. /\ disk' \in [Pages -> Seq(Tuples)]
      /\ \A q \in Pages : disk'[q] = IF q = p THEN mem[p] ELSE disk[q]
    BY <1>1, <1>2
<1>4. ClusterTypeOK'
    BY <1>1, <1>2, <1>3 DEF ClusterTypeOK
<1>5. XidsInOrder' /\ HintsHonest'
    BY <1>1 DEF XidsInOrder, HintsHonest, VisibilityInv
<1>6. Rivals'
    BY <1>1 DEF Rivals, VisibilityInv, Apart, Gone, Replaced, Superseded, Committed
<1>7. DiskIsOlder'
    BY <1>1, <1>2, <1>3 DEF DiskIsOlder, VisibilityInv
<1>8. TruthLasts' /\ OutIsThere' /\ NothingFromTheFuture'
    BY <1>1 DEF TruthLasts, OutIsThere, NothingFromTheFuture, WithSnapshot, xmin_visible,
                VisibilityInv
<1>9. ASSUME CheckpointFirst
      PROVE  DiskKnows' /\ OneSurvivor' /\ NothingSuperseded' /\ VisibleStays'
    <2>1. DiskKnows /\ OneSurvivor /\ NothingSuperseded /\ VisibleStays /\ HintsHonest /\ TruthLasts
        BY <1>9 DEF VisibilityInv
    <2>2. OneSurvivor' /\ NothingSuperseded'
        BY <1>1, <2>1 DEF OneSurvivor, NothingSuperseded, SupersededThen, WrittenThen,
                          WithSnapshot, Apart
    <2>3. ASSUME NEW i \in 1 .. Len(mem[p]), SupersededThen(mem[p][i])
          PROVE  mem[p][i].t_xmax # 0 /\ ~mem[p][i].xmax_invalid
        BY <2>1, <2>3, <1>2, Numbers DEF SupersededThen, HintsHonest, TruthLasts, ClusterTypeOK
    <2>4. DiskKnows'
        BY <1>1, <1>2, <1>3, <2>1, <2>3 DEF DiskKnows, SupersededThen
    <2>5. VisibleStays'
        BY <1>1, <1>2, <1>3, <2>1 DEF VisibleStays, WrittenThen, ClusterTypeOK
    <2> QED
        BY <2>2, <2>4, <2>5
<1> QED
    BY <1>4, <1>5, <1>6, <1>7, <1>8, <1>9 DEF VisibilityInv

(* The snapshot, and the CHECKPOINT that goes with it. *)
LEMMA StartScanKeepsInv ==
    ASSUME VisibilityInv, StartScan
    PROVE  VisibilityInv'
<1>1. /\ ClusterTypeOK /\ XidsInOrder /\ HintsHonest /\ Rivals /\ DiskIsOlder /\ TruthLasts
      /\ mem \in [Pages -> Seq(Tuples)] /\ disk \in [Pages -> Seq(Tuples)]
      /\ xact \in [Xids -> {"unused", "active", "committed", "aborted"}]
    BY DEF VisibilityInv, ClusterTypeOK
<1>2. /\ scan = "none" /\ scan' = "running" /\ snapshot' \in {NoSnapshot, CurrentSnapshot}
      /\ disk' = IF CheckpointFirst THEN mem ELSE disk
      /\ xact' = xact /\ next_xid' = next_xid /\ mem' = mem /\ changes' = changes
      /\ pos' = pos /\ out' = out /\ out = {} /\ pos = 0 /\ 0 \in Pages
    BY <1>1, Numbers DEF StartScan, pgVars, TruthLasts
<1>3. /\ truth'.visible = VisibleNow
      /\ truth'.committed = {x \in Xids : xact[x] = "committed"}
      /\ truth'.finished = {x \in Xids : xact[x] \in {"committed", "aborted"}}
    BY DEF StartScan
<1>4. VisibleNow \subseteq Pages \X (1 .. MaxSlots)
    BY DEF VisibleNow
<1>5. ClusterTypeOK'
    BY <1>1, <1>2, <1>3, <1>4 DEF ClusterTypeOK
<1>6. XidsInOrder' /\ HintsHonest'
    BY <1>1, <1>2 DEF XidsInOrder, HintsHonest
<1>7. Rivals'
    <2>1. Rivals /\ mem' = mem /\ xact' = xact
        BY <1>1, <1>2
    <2> QED
        BY <2>1 DEF Rivals, Apart, Gone, Replaced, Superseded, Committed
<1>8. DiskIsOlder'
    <2>1. CASE CheckpointFirst
        BY <2>1, <1>1, <1>2 DEF DiskIsOlder
    <2>2. CASE ~CheckpointFirst
        <3>1. disk' = disk /\ mem' = mem /\ DiskIsOlder
            BY <2>2, <1>1, <1>2
        <3> QED
            BY <3>1 DEF DiskIsOlder
    <2> QED
        BY <2>1, <2>2
<1>9. TruthLasts'
    <2>1. \A x \in Xids : xmin_visible(CurrentSnapshot, x) <=> xact[x] \in {"committed", "aborted"}
        BY <1>1, SnapshotTells
    <2>2. WithSnapshot' => \A x \in Xids : xmin_visible(snapshot', x) <=> x \in truth'.finished
        BY <1>2, <1>3, <2>1 DEF WithSnapshot
    <2>3. WithSnapshot' => \A x \in Xids : xmin_visible(snapshot, x)' <=> x \in truth'.finished
        BY <2>2 DEF xmin_visible
    <2> QED
        BY <1>1, <1>2, <1>3, <2>3 DEF TruthLasts
<1>10. OutIsThere' /\ NothingFromTheFuture' /\ NothingSuperseded'
    BY <1>2 DEF OutIsThere, NothingFromTheFuture, NothingSuperseded
<1>11. ASSUME NEW p \in Pages, NEW i \in 1 .. Len(mem[p])
       PROVE  /\ mem[p][i] \in Tuples
              /\ SupersededThen(mem[p][i])' <=> Superseded(mem[p][i])
              /\ WrittenThen(mem[p][i])' <=> Committed(mem[p][i].t_xmin)
    <2> DEFINE t == mem[p][i]
    <2>1. t \in Tuples
        BY <1>1
    <2>2. t.t_xmax \in {0} \cup Xids /\ t.lock_only \in BOOLEAN /\ t.xmax_invalid \in BOOLEAN
        BY <2>1 DEF Tuples
    <2>3. t.t_xmax # 0 /\ t.xmax_invalid /\ ~t.lock_only => xact[t.t_xmax] = "aborted"
        BY <1>1 DEF HintsHonest
    <2>4. SupersededThen(mem[p][i])' <=> (t.t_xmax \in Xids /\ xact[t.t_xmax] = "committed" /\ ~t.lock_only)
        BY <1>2, <1>3 DEF SupersededThen
    <2>5. Superseded(t) <=> (t.t_xmax \in Xids /\ xact[t.t_xmax] = "committed" /\ ~t.lock_only)
        BY <2>2, <2>3, Numbers DEF Superseded, Committed
    <2>6. WrittenThen(mem[p][i])' <=> Committed(t.t_xmin)
        BY <1>2, <1>3 DEF WrittenThen, Committed
    <2> QED
        BY <2>1, <2>4, <2>5, <2>6
<1>12. OneSurvivor'
    <2> SUFFICES ASSUME NEW p \in Pages, NEW q \in Pages,
                        NEW i \in 1 .. Len(mem[p]), NEW j \in 1 .. Len(mem[q]),
                        Apart(p, i, q, j), mem[p][i].row = mem[q][j].row,
                        WrittenThen(mem[p][i])', WrittenThen(mem[q][j])'
                 PROVE  SupersededThen(mem[p][i])' \/ SupersededThen(mem[q][j])'
        BY <1>2, SMTT(30) DEF OneSurvivor, Apart
    <2>1. Committed(mem[p][i].t_xmin) /\ Committed(mem[q][j].t_xmin)
        BY <1>11
    <2>2. \/ Gone(mem[p][i]) \/ Gone(mem[q][j])
          \/ Replaced(mem[p][i]) /\ mem[p][i].t_xmax = mem[q][j].t_xmin
          \/ Replaced(mem[q][j]) /\ mem[q][j].t_xmax = mem[p][i].t_xmin
        BY <1>1 DEF Rivals
    <2>3. Superseded(mem[p][i]) \/ Superseded(mem[q][j])
        BY <2>1, <2>2, Numbers DEF Gone, Superseded, Replaced, Committed
    <2> QED
        BY <2>3, <1>11
<1>13. ASSUME CheckpointFirst PROVE DiskKnows' /\ VisibleStays'
    <2>1. disk' = mem
        BY <1>2, <1>13
    <2>2. DiskKnows'
        <3> SUFFICES ASSUME NEW p \in Pages, NEW i \in 1 .. Len(mem[p]), SupersededThen(mem[p][i])'
                     PROVE  mem[p][i].t_xmax # 0 /\ ~mem[p][i].xmax_invalid
            BY <1>2, <2>1 DEF DiskKnows
        <3> QED
            BY <1>11 DEF Superseded
    <2>3. VisibleStays'
        <3> SUFFICES ASSUME NEW v \in VisibleNow
                     PROVE  /\ v[2] <= Len(mem[v[1]])
                            /\ WrittenThen(mem[v[1]][v[2]])'
                            /\ mem[v[1]][v[2]].flags = "NORMAL"
                            /\ ~(v[1] < 0)
            BY <1>2, <1>3, <2>1 DEF VisibleStays
        <3>1. v[1] \in Pages /\ v[2] \in 1 .. MaxSlots /\ v[2] <= Len(mem[v[1]])
            BY DEF VisibleNow
        <3>2. Len(mem[v[1]]) \in Nat
            BY <3>1, <1>1
        <3>3. v[2] \in 1 .. Len(mem[v[1]])
            BY <3>1, <3>2
        <3>4. v[1] \in Nat
            BY <3>1, Numbers
        <3> QED
            BY <3>1, <3>3, <3>4, <1>11 DEF VisibleNow
    <2> QED
        BY <2>2, <2>3
<1> QED
    BY <1>5, <1>6, <1>7, <1>8, <1>9, <1>10, <1>12, <1>13 DEF VisibilityInv

(* A page is read and filtered. *)
LEMMA ReadPageKeepsInv ==
    ASSUME VisibilityInv, ReadPage
    PROVE  VisibilityInv'
<1> DEFINE batch == to_record_batch(snapshot, pos)
<1>1. /\ ClusterTypeOK /\ XidsInOrder /\ HintsHonest /\ Rivals /\ DiskIsOlder /\ TruthLasts /\ OutIsThere
      /\ NothingFromTheFuture
      /\ mem \in [Pages -> Seq(Tuples)] /\ disk \in [Pages -> Seq(Tuples)]
      /\ pos \in Pages /\ pos \in Nat /\ scan = "running"
    BY Numbers DEF VisibilityInv, ClusterTypeOK, ReadPage, TruthLasts
<1>2. /\ out' = out \cup batch /\ pos' = pos + 1
      /\ scan' = (IF pos + 1 \in Pages THEN "running" ELSE "ended")
      /\ xact' = xact /\ next_xid' = next_xid /\ mem' = mem /\ changes' = changes
      /\ disk' = disk /\ snapshot' = snapshot /\ truth' = truth
    BY DEF ReadPage, pgVars
<1>3. \A r : r \in batch <=>
        \E i \in 1 .. Len(disk[pos]) : Kept(snapshot, disk[pos][i]) /\ r = <<pos, i, disk[pos][i]>>
    BY DEF to_record_batch
<1> HIDE DEF batch
<1>4. ASSUME NEW r \in batch
      PROVE  /\ r[1] = pos /\ r[2] \in 1 .. Len(disk[pos]) /\ r[2] \in 1 .. Len(mem[pos])
             /\ r[2] \in 1 .. MaxSlots
             /\ r[3] = disk[pos][r[2]] /\ r[3] \in Tuples /\ Kept(snapshot, r[3])
             /\ r = <<pos, r[2], r[3]>>
    <2>1. PICK i \in 1 .. Len(disk[pos]) : Kept(snapshot, disk[pos][i]) /\ r = <<pos, i, disk[pos][i]>>
        BY <1>3
    <2>2. i \in 1 .. Len(mem[pos]) /\ disk[pos][i] \in Tuples /\ Len(mem[pos]) <= MaxSlots
          /\ Len(mem[pos]) \in Nat
        BY <1>1 DEF DiskIsOlder, ClusterTypeOK
    <2> QED
        BY <2>1, <2>2, VisibilityAssumption
<1>5. ClusterTypeOK'
    <2>1. \A r \in out' : r \in Pages \X (1 .. MaxSlots) \X Tuples
        BY <1>1, <1>2, <1>4 DEF ClusterTypeOK
    <2>2. pos' \in 0 .. PageNumbers
        BY <1>1, <1>2, Numbers
    <2> QED
        BY <1>1, <1>2, <2>1, <2>2 DEF ClusterTypeOK
<1>6. XidsInOrder' /\ HintsHonest'
    BY <1>1, <1>2 DEF XidsInOrder, HintsHonest
<1>7. Rivals'
    <2>1. Rivals /\ mem' = mem /\ xact' = xact
        BY <1>1, <1>2
    <2> QED
        BY <2>1 DEF Rivals, Apart, Gone, Replaced, Superseded, Committed
<1>8. DiskIsOlder'
    BY <1>1, <1>2 DEF DiskIsOlder
<1>9. TruthLasts'
    BY <1>1, <1>2, Numbers DEF TruthLasts, WithSnapshot, xmin_visible
<1>10. OutIsThere'
    <2>1. \A r \in out : r[1] < pos /\ r[1] \in Nat
        BY <1>1, Numbers DEF OutIsThere, ClusterTypeOK
    <2>2. ASSUME NEW r \in out'
          PROVE  /\ r[1] < pos + 1
                 /\ r[2] <= Len(mem[r[1]])
                 /\ r[3].row = mem[r[1]][r[2]].row
                 /\ r[3].t_xmin = mem[r[1]][r[2]].t_xmin
        <3>1. CASE r \in out
            BY <3>1, <1>1, <2>1 DEF OutIsThere
        <3>2. CASE r \in batch
            BY <3>2, <1>1, <1>4 DEF DiskIsOlder
        <3> QED
            BY <3>1, <3>2, <1>2
    <2>3. ASSUME NEW r \in out', NEW s \in out', r[1] = s[1], r[2] = s[2]
          PROVE  r = s
        <3>1. CASE r \in out /\ s \in out
            BY <3>1, <2>3, <1>1 DEF OutIsThere
        <3>2. CASE r \in batch /\ s \in batch
            BY <3>2, <2>3, <1>4
        <3>3. CASE (r \in out /\ s \in batch) \/ (r \in batch /\ s \in out)
            BY <3>3, <2>1, <2>3, <1>1, <1>4
        <3> QED
            BY <3>1, <3>2, <3>3, <1>2
    <2> QED
        BY <2>2, <2>3, <1>2 DEF OutIsThere
<1>11. NothingFromTheFuture'
    <2> SUFFICES ASSUME WithSnapshot, NEW r \in out'
                 PROVE  r[3].t_xmin = FROZEN_XID \/ r[3].t_xmin \in truth.finished
        BY <1>2 DEF NothingFromTheFuture, WithSnapshot
    <2>1. CASE r \in out
        BY <2>1, <1>1 DEF NothingFromTheFuture
    <2>2. CASE r \in batch
        BY <2>2, <1>1, <1>4 DEF Kept, TruthLasts, WithSnapshot, Tuples
    <2> QED
        BY <2>1, <2>2, <1>2
<1>12. ASSUME CheckpointFirst
       PROVE  DiskKnows' /\ OneSurvivor' /\ NothingSuperseded' /\ VisibleStays'
    <2>1. DiskKnows /\ OneSurvivor /\ NothingSuperseded /\ VisibleStays
        BY <1>12 DEF VisibilityInv
    <2>2. DiskKnows'
        BY <1>1, <1>2, <2>1, Numbers DEF DiskKnows, SupersededThen
    <2>3. OneSurvivor'
        <3>1. mem' = mem /\ truth' = truth /\ scan # "none"
            BY <1>1, <1>2
        <3> QED
            BY <3>1, <2>1, OneSurvivorNext DEF OneSurvivor
    <2>4. NothingSuperseded'
        <3> SUFFICES ASSUME WithSnapshot, NEW r \in out'
                     PROVE  ~SupersededThen(mem[r[1]][r[2]])
            BY <1>2 DEF NothingSuperseded, WithSnapshot, SupersededThen
        <3>1. CASE r \in out
            BY <3>1, <2>1 DEF NothingSuperseded, SupersededThen
        <3>2. CASE r \in batch
            BY <3>2, <2>1, <1>1, <1>4 DEF DiskKnows, Kept
        <3> QED
            BY <3>1, <3>2, <1>2
    <2>5. VisibleStays'
        <3>0. \A v \in truth.visible : v[1] \in Nat
            BY <1>1, Numbers DEF ClusterTypeOK
        <3> SUFFICES ASSUME NEW v \in truth.visible, mem[v[1]][v[2]].t_xmax = 0, v[1] < pos + 1
                     PROVE  \E r \in out' : r[1] = v[1] /\ r[2] = v[2]
            BY <3>0, <1>1, <1>2, <2>1 DEF VisibleStays, WrittenThen
        <3>1. v[1] \in Pages /\ v[1] \in Nat /\ v[2] \in 1 .. MaxSlots /\ v[2] \in Nat
            <4>1. v \in Pages \X (1 .. MaxSlots)
                BY <1>1 DEF ClusterTypeOK
            <4>2. v[1] \in Pages /\ v[2] \in 1 .. MaxSlots
                BY <4>1
            <4>3. v[1] \in Nat
                BY <4>2, Numbers
            <4> QED
                BY <4>2, <4>3
        <3>2. CASE v[1] < pos
            BY <3>2, <1>2, <2>1 DEF VisibleStays
        <3>3. CASE v[1] = pos
            <4>1. /\ mem[pos][v[2]].flags = "NORMAL" /\ v[2] <= Len(disk[pos])
                  /\ WrittenThen(mem[pos][v[2]])
                BY <3>1, <3>3, <1>1, <2>1 DEF VisibleStays
            <4>2. v[2] \in 1 .. Len(disk[pos])
                BY <4>1, <3>1, <1>1
            <4> DEFINE t == disk[pos][v[2]]
            <4>3. t.t_xmax = 0 /\ t.flags = "NORMAL" /\ t.t_xmin = mem[pos][v[2]].t_xmin
                BY <4>1, <4>2, <3>3, <1>1 DEF DiskIsOlder
            <4>4. snapshot # NoSnapshot => xmin_visible(snapshot, t.t_xmin)
                <5>1. t.t_xmin = FROZEN_XID \/ (t.t_xmin \in Xids /\ t.t_xmin \in truth.finished)
                    BY <4>1, <4>3, <1>1 DEF WrittenThen, TruthLasts, ClusterTypeOK
                <5>2. CASE t.t_xmin = FROZEN_XID
                    BY <5>2, Numbers DEF xmin_visible
                <5>3. CASE t.t_xmin \in Xids /\ t.t_xmin \in truth.finished
                    BY <5>3, <1>1 DEF TruthLasts, WithSnapshot
                <5> QED
                    BY <5>1, <5>2, <5>3
            <4>5. Kept(snapshot, t)
                BY <4>3, <4>4 DEF Kept
            <4>6. <<pos, v[2], t>> \in batch
                BY <4>2, <4>5, <1>3
            <4> QED
                BY <4>6, <3>3, <1>2
        <3> QED
            BY <3>1, <3>2, <3>3, <1>1
    <2> QED
        BY <2>2, <2>3, <2>4, <2>5
<1> QED
    BY <1>5, <1>6, <1>7, <1>8, <1>9, <1>10, <1>11, <1>12 DEF VisibilityInv

(* Every step keeps the invariant. *)
LEMMA StepKeepsVisibilityInv ==
    ASSUME VisibilityInv, [ClusterNext]_clusterVars
    PROVE  VisibilityInv'
<1>0. ClusterTypeOK
    BY DEF VisibilityInv
<1>1. CASE (Begin \/ \E x \in Xids : Finish(x)) /\ UNCHANGED <<disk, scanVars>>
    BY <1>1, XactStepKeepsInv
<1>2. ASSUME NEW x \in Xids, NEW p \in Pages, Insert(x, p), UNCHANGED <<disk, scanVars>>
      PROVE  VisibilityInv'
    BY <1>0, <1>2, InsertIsMemStep, MemStepKeepsInv
<1>3. ASSUME NEW p \in Pages, NEW i \in 1 .. Len(mem[p]), OnVersion(p, i),
             UNCHANGED <<disk, scanVars>>
      PROVE  VisibilityInv'
    BY <1>0, <1>3, OnVersionIsMemStep, MemStepKeepsInv
<1>4. ASSUME NEW p \in Pages, Flush(p) PROVE VisibilityInv'
    BY <1>4, FlushKeepsInv
<1>5. CASE StartScan
    BY <1>5, StartScanKeepsInv
<1>6. CASE ReadPage
    BY <1>6, ReadPageKeepsInv
<1>7. CASE UNCHANGED clusterVars
    <2>1. /\ xact' = xact /\ next_xid' = next_xid /\ mem' = mem /\ disk' = disk /\ changes' = changes
          /\ scan' = scan /\ snapshot' = snapshot /\ pos' = pos /\ out' = out /\ truth' = truth
        BY <1>7 DEF clusterVars
    <2>2. ClusterTypeOK' /\ XidsInOrder' /\ HintsHonest' /\ DiskIsOlder'
        BY <2>1 DEF VisibilityInv, ClusterTypeOK, XidsInOrder, HintsHonest, DiskIsOlder
    <2>3. Rivals'
        BY <2>1 DEF VisibilityInv, Rivals, Gone, Replaced, Superseded, Committed, Apart
    <2>4. TruthLasts' /\ OutIsThere' /\ NothingFromTheFuture'
        BY <2>1 DEF VisibilityInv, TruthLasts, OutIsThere, NothingFromTheFuture, WithSnapshot,
                    xmin_visible
    <2>5. DiskKnows => DiskKnows'
        BY <2>1 DEF DiskKnows, SupersededThen
    <2>6. OneSurvivor => OneSurvivor'
        BY <2>1, SMTT(30) DEF OneSurvivor, SupersededThen, WrittenThen, Apart
    <2>7. NothingSuperseded => NothingSuperseded'
        BY <2>1 DEF NothingSuperseded, WithSnapshot
    <2>8. VisibleStays => VisibleStays'
        BY <2>1 DEF VisibleStays, WrittenThen
    <2> QED
        BY <2>2, <2>3, <2>4, <2>5, <2>6, <2>7, <2>8 DEF VisibilityInv
<1> QED
    BY <1>1, <1>2, <1>3, <1>4, <1>5, <1>6, <1>7 DEF ClusterNext, Postgres

-----------------------------------------------------------------------------
(* The invariant holds for every number of pages, slots, transactions and  *)
(* changes, with and without a CHECKPOINT.                                 *)
THEOREM VisibilityInvariant == ClusterSpec => []VisibilityInv
<1>1. VisibilityInv /\ [ClusterNext]_clusterVars => VisibilityInv'
    BY StepKeepsVisibilityInv
<1> QED
    BY <1>1, InitVisibilityInv, PTL DEF ClusterSpec

(* xmin_visible lets no version pass whose writer was running at the       *)
(* snapshot or began later, however late to_record_batch sees its page.    *)
THEOREM ScanNothingFromTheFuture == ClusterSpec => []NothingFromTheFuture
<1>1. VisibilityInv => NothingFromTheFuture
    BY DEF VisibilityInv
<1> QED
    BY <1>1, VisibilityInvariant, PTL

(* When the caller issues a CHECKPOINT with its snapshot, to_record_batch  *)
(* returns nothing that had been deleted or replaced by then.              *)
THEOREM ScanNothingSuperseded ==
    ASSUME CheckpointFirst
    PROVE  ClusterSpec => []NothingSuperseded
<1>1. VisibilityInv => NothingSuperseded
    BY DEF VisibilityInv
<1> QED
    BY <1>1, VisibilityInvariant, PTL

(* With a CHECKPOINT, to_record_batch returns at most one committed        *)
(* version of a row, wherever its updates move it while the scan runs.     *)
THEOREM ScanOneCommittedVersion ==
    ASSUME CheckpointFirst
    PROVE  ClusterSpec => []OneCommittedVersion
<1>1. VisibilityInv => OneCommittedVersion
    <2> SUFFICES ASSUME VisibilityInv, WithSnapshot, NEW r \in out, NEW s \in out,
                        r[3].row = s[3].row, Committed(r[3].t_xmin), Committed(s[3].t_xmin)
                 PROVE  r = s
        BY DEF OneCommittedVersion
    <2>1. /\ ClusterTypeOK /\ TruthLasts /\ OutIsThere /\ NothingFromTheFuture
          /\ OneSurvivor /\ NothingSuperseded /\ scan # "none"
          /\ mem \in [Pages -> Seq(Tuples)]
        BY DEF VisibilityInv, ClusterTypeOK, TruthLasts, WithSnapshot
    <2>2. ASSUME NEW o \in out, Committed(o[3].t_xmin)
          PROVE  /\ o[1] \in Pages /\ o[2] \in 1 .. Len(mem[o[1]])
                 /\ o[3].row = mem[o[1]][o[2]].row
                 /\ WrittenThen(mem[o[1]][o[2]])
                 /\ ~SupersededThen(mem[o[1]][o[2]])
        <3>1. o[1] \in Pages /\ o[2] \in 1 .. MaxSlots
            BY <2>1 DEF ClusterTypeOK
        <3>2. /\ o[2] <= Len(mem[o[1]]) /\ Len(mem[o[1]]) \in Nat
              /\ o[3].row = mem[o[1]][o[2]].row
              /\ o[3].t_xmin = mem[o[1]][o[2]].t_xmin
            BY <3>1, <2>1 DEF OutIsThere
        <3>3. o[2] \in 1 .. Len(mem[o[1]])
            BY <3>1, <3>2
        <3>4. o[3].t_xmin = FROZEN_XID \/ o[3].t_xmin \in truth.committed
            BY <2>1, <2>2, Numbers DEF NothingFromTheFuture, TruthLasts, Committed, ClusterTypeOK
        <3>5. ~SupersededThen(mem[o[1]][o[2]])
            BY <2>1 DEF NothingSuperseded, SupersededThen
        <3> QED
            BY <3>1, <3>2, <3>3, <3>4, <3>5 DEF WrittenThen
    <2>3. ~Apart(r[1], r[2], s[1], s[2])
        <3>1. PICK p, i, q, j : p = r[1] /\ i = r[2] /\ q = s[1] /\ j = s[2]
            OBVIOUS
        <3>2. /\ p \in Pages /\ i \in 1 .. Len(mem[p]) /\ r[3].row = mem[p][i].row
              /\ WrittenThen(mem[p][i]) /\ ~SupersededThen(mem[p][i])
            BY <3>1, <2>2
        <3>3. /\ q \in Pages /\ j \in 1 .. Len(mem[q]) /\ s[3].row = mem[q][j].row
              /\ WrittenThen(mem[q][j]) /\ ~SupersededThen(mem[q][j])
            BY <3>1, <2>2
        <3>4. mem[p][i].row = mem[q][j].row
            BY <3>2, <3>3
        <3>5. ~Apart(p, i, q, j)
            BY <3>2, <3>3, <3>4, <2>1, ZenonT(30) DEF OneSurvivor
        <3> QED
            BY <3>1, <3>5
    <2> QED
        BY <2>1, <2>3 DEF Apart, OutIsThere
<1> QED
    BY <1>1, VisibilityInvariant, PTL

(* With a CHECKPOINT, whatever PostgreSQL showed when the scan began, and  *)
(* nobody has deleted, updated or locked since, is returned.               *)
THEOREM ScanUntouchedReturned ==
    ASSUME CheckpointFirst
    PROVE  ClusterSpec => []UntouchedReturned
<1>1. VisibilityInv => UntouchedReturned
    <2> SUFFICES ASSUME VisibilityInv, scan = "ended", NEW v \in truth.visible,
                        mem[v[1]][v[2]].t_xmax = 0
                 PROVE  \E r \in out : r[1] = v[1] /\ r[2] = v[2]
        BY DEF UntouchedReturned
    <2>1. v[1] \in Pages /\ pos = PageNumbers /\ VisibleStays
        BY DEF VisibilityInv, ClusterTypeOK, TruthLasts
    <2>2. v[1] < pos
        BY <2>1, Numbers
    <2> QED
        BY <2>1, <2>2 DEF VisibleStays
<1> QED
    BY <1>1, VisibilityInvariant, PTL

(* Where no transaction is ever rolled back, the comment of snapshot.rs    *)
(* holds: every version a snapshot scan returns was written by a committed *)
(* transaction.  Rollbacks are all it overlooks.                           *)
THEOREM ScanWrittenByCommitted ==
    ASSUME "abort" \notin Operations
    PROVE  ClusterSpec => []WrittenByCommitted
<1> DEFINE NoneAborted == \A x \in Xids : xact[x] # "aborted"
<1>1. ClusterInit => NoneAborted
    BY DEF ClusterInit
<1>2. VisibilityInv /\ NoneAborted /\ [ClusterNext]_clusterVars => NoneAborted'
    <2> SUFFICES ASSUME VisibilityInv, NoneAborted, [ClusterNext]_clusterVars
                 PROVE  NoneAborted'
        OBVIOUS
    <2>1. xact \in [Xids -> {"unused", "active", "committed", "aborted"}]
        BY DEF VisibilityInv, ClusterTypeOK
    <2>2. CASE Begin
        BY <2>1, <2>2 DEF Begin
    <2>3. ASSUME NEW x \in Xids, Finish(x) PROVE NoneAborted'
        BY <2>1, <2>3 DEF Finish
    <2>4. CASE UNCHANGED xact
        BY <2>4
    <2>5. ASSUME NEW x \in Xids, NEW p \in Pages, Insert(x, p) PROVE UNCHANGED xact
        BY <2>5 DEF Insert, Writing
    <2>6. ASSUME NEW p \in Pages, NEW i \in 1 .. Len(mem[p]), OnVersion(p, i)
          PROVE  UNCHANGED xact
        BY <2>6, OnVersionIsMemStep DEF VisibilityInv, MemStep
    <2>7. ASSUME NEW p \in Pages, Flush(p) PROVE UNCHANGED xact
        BY <2>7 DEF Flush, pgVars
    <2>8. CASE StartScan \/ ReadPage \/ UNCHANGED clusterVars
        BY <2>8 DEF StartScan, ReadPage, pgVars, clusterVars
    <2> HIDE DEF NoneAborted
    <2> QED
        BY <2>2, <2>3, <2>4, <2>5, <2>6, <2>7, <2>8 DEF ClusterNext, Postgres
<1>3. VisibilityInv /\ NoneAborted => WrittenByCommitted
    BY DEF VisibilityInv, ClusterTypeOK, TruthLasts, NothingFromTheFuture, WrittenByCommitted
<1> QED
    BY <1>1, <1>2, <1>3, VisibilityInvariant, PTL DEF ClusterSpec
=============================================================================
