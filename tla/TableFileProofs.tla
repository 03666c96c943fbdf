------------------------- MODULE TableFileProofs -------------------------
(***************************************************************************)
(* TableFileReader for every segment size and every history of the writer. *)
(*                                                                         *)
(* num_pages returns a size the relation had, or one between two it had.   *)
(*                                                                         *)
(* RecordBatchStream hands out the pages of its range in order, each once, *)
(* only complete ones, and all of them before it ends unless a system call *)
(* failed on one: for every batch size, range, set of failing calls and    *)
(* set of unconvertible pages.                                             *)
(***************************************************************************)
EXTENDS SegmentSizes, BatchStream, SegmentFilesProofs

-----------------------------------------------------------------------------
(* segment_sizes and num_pages. *)

(* Before the first segment is looked at nothing is counted. *)
LEMMA InitWalkInv == WalkInit => WalkInv
<1> SUFFICES ASSUME WalkInit PROVE WalkInv
    OBVIOUS
<1>1. FileTypeOK /\ FileInv
    BY FileInitOK DEF WalkInit
<1>2. FirstPage(0) = 0
    BY FirstPageFacts
<1> QED
    BY <1>1, <1>2 DEF WalkInit, WalkInv, WalkTypeOK, FileTypeOK, FullButLast, SizeWasReal

(* A segment that is found extends the run of full segments, or ends it    *)
(* where the relation ends at this moment.                                 *)
LEMMA FoundKeepsWalkInv ==
    ASSUME WalkInv, SegmentFound, UNCHANGED fileVars
    PROVE  WalkInv'
<1> DEFINE pages == WholePages(SegmentUnits(segno))
<1>1. /\ WalkTypeOK /\ FileTypeOK /\ FileInv /\ FullButLast
      /\ answer = "none" /\ Len(sizes) = segno /\ total = FirstPage(segno)
      /\ total <= hi
    BY DEF WalkInv, WalkTypeOK, SegmentFound
<1>2. PagesPerSegment \in Nat /\ PagesPerSegment > 0
    BY SegmentAssumption
<1>3. /\ segno \in Nat /\ FirstPage(segno) \in Nat
      /\ FirstPage(segno + 1) = FirstPage(segno) + PagesPerSegment
    BY <1>1, FirstPageFacts DEF WalkTypeOK
<1>4. /\ SegmentUnits(segno) \in 0 .. 2 * PagesPerSegment
      /\ SegmentUnits(segno) > 0 => 2 * FirstPage(segno) + SegmentUnits(segno) <= len
      /\ SegmentUnits(segno) < 2 * PagesPerSegment
            => len <= 2 * FirstPage(segno) + SegmentUnits(segno)
    BY <1>1, <1>3, SegmentLength
<1>5. pages \in 0 .. PagesPerSegment
    BY <1>2, <1>4 DEF WholePages
<1>6. /\ sizes' = Append(sizes, pages)
      /\ total' = total + pages
      /\ IF pages < PagesPerSegment
           THEN answer' = "ok" /\ segno' = segno
           ELSE segno' = segno + 1 /\ answer' = answer
      /\ lo' = lo /\ hi' = hi /\ len' = len /\ nseg' = nseg
    BY DEF SegmentFound, fileVars
<1>7. WalkTypeOK'
    BY <1>1, <1>3, <1>5, <1>6 DEF WalkTypeOK, FileTypeOK
<1>8. FileInv' /\ FirstPage(segno)' = FirstPage(segno')
    BY <1>1, <1>6 DEF FileInv, FirstPage, WholePages
<1>9. /\ Len(sizes') = segno + 1
      /\ sizes'[segno + 1] = pages
      /\ \A i \in 1 .. segno : sizes'[i] = sizes[i] /\ sizes[i] = PagesPerSegment
    <2>1. sizes \in Seq(Nat)
        BY <1>1 DEF WalkTypeOK
    <2>2. \A i \in 1 .. segno - 1 : sizes[i] = PagesPerSegment
        BY <1>1 DEF FullButLast
    <2>3. ASSUME segno > 0 PROVE sizes[segno] = PagesPerSegment
        <3>1. sizes # <<>>
            BY <1>1, <2>1, <2>3
        <3>2. FirstPage(segno) = FirstPage(segno - 1) + sizes[segno]
            BY <1>1, <3>1 DEF FullButLast
        <3>3. FirstPage(segno - 1) \in Nat
              /\ FirstPage(segno) = FirstPage(segno - 1) + PagesPerSegment
            BY <1>3, <2>3, FirstPageFacts
        <3>4. sizes[segno] \in Nat
            BY <1>1, <1>3, <2>1, <2>3
        <3> QED
            BY <1>2, <3>2, <3>3, <3>4
    <2> QED
        BY <1>1, <1>3, <1>6, <2>1, <2>2, <2>3
<1>10. FullButLast'
    <2>1. total' = FirstPage(segno) + pages
        BY <1>1, <1>6
    <2>2. FirstPage(Len(sizes') - 1) = FirstPage(segno)
        <3>1. Len(sizes') - 1 = segno
            BY <1>3, <1>9
        <3> QED
            BY <3>1
    <2> HIDE DEF pages
    <2>3. \A i \in 1 .. Len(sizes') : sizes'[i] <= PagesPerSegment
        BY <1>2, <1>3, <1>5, <1>9
    <2>4. \A i \in 1 .. Len(sizes') - 1 : sizes'[i] = PagesPerSegment
        BY <1>3, <1>9
    <2>5. total' = FirstPage(Len(sizes') - 1) + sizes'[Len(sizes')]
        BY <1>3, <1>9, <2>1, <2>2
    <2>6. FirstPage(Len(sizes) - 1)' = FirstPage(Len(sizes') - 1)
        BY DEF FirstPage
    <2> QED
        BY <2>3, <2>4, <2>5, <2>6 DEF FullButLast
<1>11. sizes' # <<>>
    BY <1>1, <1>6 DEF WalkTypeOK
<1>12. CASE pages < PagesPerSegment
    <2>1. answer' = "ok" /\ total' = FirstPage(segno) + pages
        BY <1>1, <1>6, <1>12
    <2>2. lo <= FirstPage(segno) + pages /\ FirstPage(segno) + pages <= hi
        BY <1>1, <1>2, <1>3, <1>4, <1>12, SMTT(30) DEF FileInv, FileTypeOK, WholePages
    <2> QED
        BY <1>6, <1>7, <1>8, <1>10, <1>11, <2>1, <2>2 DEF WalkInv, SizeWasReal
<1>13. CASE ~(pages < PagesPerSegment)
    <2>1. pages = PagesPerSegment /\ segno' = segno + 1 /\ answer' = "none"
        BY <1>1, <1>2, <1>5, <1>6, <1>13
    <2>2. total' = FirstPage(segno + 1) /\ FirstPage(segno + 1) <= hi
        BY <1>1, <1>2, <1>3, <1>4, <1>6, <2>1, SMTT(30) DEF FileInv, FileTypeOK, WholePages
    <2>3. Len(sizes') = segno' /\ total' = FirstPage(segno') /\ total' <= hi'
        BY <1>6, <1>9, <2>1, <2>2
    <2> QED
        BY <1>7, <1>8, <1>10, <1>11, <2>1, <2>3 DEF WalkInv, SizeWasReal
<1> QED
    BY <1>12, <1>13

(* A missing segment lies at the end of the data, and every page before it *)
(* was there when its segment was looked at.                               *)
LEMMA MissingKeepsWalkInv ==
    ASSUME WalkInv, SegmentMissing, UNCHANGED fileVars
    PROVE  WalkInv'
<1>1. /\ WalkTypeOK /\ FileTypeOK /\ FileInv /\ FullButLast
      /\ answer = "none" /\ total = FirstPage(segno) /\ total <= hi
      /\ sizes = <<>> => total = 0
    BY DEF WalkInv, WalkTypeOK, SegmentMissing
<1>2. segno \in Nat /\ FirstPage(segno) \in Nat
    BY <1>1, FirstPageFacts DEF WalkTypeOK
<1>3. len <= 2 * FirstPage(segno)
    BY <1>1, <1>2, MissingSegment DEF SegmentMissing
<1>4. lo <= total
    BY <1>1, <1>2, <1>3 DEF FileInv, FileTypeOK, WholePages
<1>5. /\ answer' = "ok" /\ segno' = segno /\ sizes' = sizes /\ total' = total
      /\ len' = len /\ nseg' = nseg /\ lo' = lo /\ hi' = hi
    BY DEF SegmentMissing, fileVars
<1> QED
    BY <1>1, <1>4, <1>5
       DEF WalkInv, WalkTypeOK, FileTypeOK, FileInv, FirstPage, WholePages,
           FullButLast, SizeWasReal

(* The writer can only widen the range of sizes seen during the walk. *)
LEMMA WriterKeepsWalkInv ==
    ASSUME WalkInv, Writer, UNCHANGED walkVars
    PROVE  WalkInv'
<1>1. FileTypeOK' /\ FileInv' /\ lo' <= lo /\ hi' >= hi
    BY WriterOK DEF WalkInv, WalkTypeOK
<1>2. segno' = segno /\ sizes' = sizes /\ total' = total /\ answer' = answer
    BY DEF walkVars
<1>3. FileTypeOK /\ total \in Nat
    BY DEF WalkInv, WalkTypeOK
<1>4. WalkTypeOK'
    BY <1>1, <1>2 DEF WalkInv, WalkTypeOK
<1>5. FullButLast'
    BY <1>2 DEF WalkInv, FullButLast, FirstPage
<1>6. SizeWasReal'
    BY <1>1, <1>2, <1>3 DEF WalkInv, SizeWasReal, FileTypeOK
<1>7. answer' = "none" =>
        Len(sizes') = segno' /\ total' = FirstPage(segno)' /\ total' <= hi'
    BY <1>1, <1>2, <1>3 DEF WalkInv, FileTypeOK, FirstPage
<1> QED
    BY <1>1, <1>2, <1>4, <1>5, <1>6, <1>7 DEF WalkInv

(* Every step of the walk and of the writer keeps the invariant. *)
LEMMA StepKeepsWalkInv == WalkInv /\ [WalkNext]_allWalkVars => WalkInv'
<1> SUFFICES ASSUME WalkInv, [WalkNext]_allWalkVars PROVE WalkInv'
    OBVIOUS
<1>1. CASE SegmentFound /\ UNCHANGED fileVars
    BY <1>1, FoundKeepsWalkInv
<1>2. CASE SegmentMissing /\ UNCHANGED fileVars
    BY <1>2, MissingKeepsWalkInv
<1>3. CASE SegmentUnreadable /\ UNCHANGED fileVars
    BY <1>3 DEF SegmentUnreadable, fileVars, WalkInv, WalkTypeOK, FileTypeOK,
                FileInv, FirstPage, WholePages, FullButLast, SizeWasReal
<1>4. CASE Writer /\ UNCHANGED walkVars
    BY <1>4, WriterKeepsWalkInv
<1>5. CASE UNCHANGED allWalkVars
    BY <1>5 DEF allWalkVars, fileVars, walkVars, WalkInv, WalkTypeOK, FileTypeOK, FileInv,
                FirstPage, WholePages, FullButLast, SizeWasReal
<1> QED
    BY <1>1, <1>2, <1>3, <1>4, <1>5 DEF WalkNext, Walk

(* The invariant of the walk holds for every segment size. *)
THEOREM WalkInvariant == WalkSpec => []WalkInv
    BY InitWalkInv, StepKeepsWalkInv, PTL DEF WalkSpec

(* num_pages never returns more pages than the relation ever had during    *)
(* the walk, nor fewer than it always had.                                 *)
THEOREM NumPagesWasReal == WalkSpec => []SizeWasReal
<1>1. WalkInv => SizeWasReal
    BY DEF WalkInv
<1> QED
    BY <1>1, WalkInvariant, PTL

(* segment_sizes reports full segments up to the last, and num_pages is    *)
(* their sum.                                                              *)
THEOREM SegmentSizesFullButLast == WalkSpec => []FullButLast
<1>1. WalkInv => FullButLast
    BY DEF WalkInv
<1> QED
    BY <1>1, WalkInvariant, PTL

-----------------------------------------------------------------------------
(* RecordBatchStream. *)

(* A stream as RecordBatchStream::new and its builder calls leave it. *)
LEMMA InitStreamInv == Init => StreamInv
<1> SUFFICES ASSUME Init PROVE StreamInv
    OBVIOUS
<1>1. FileTypeOK /\ FileInv
    BY FileInitOK DEF Init
<1>2. FillTypeOK
    <2>1. pages_per_batch \in Nat \ {0}
        BY StreamAssumption DEF Init, FillInit, with_pages_per_batch
    <2>2. next_page_index \in Nat /\ max_page_index \in Nat \cup {NoMax}
        <3>1. CASE next_page_index = 0 /\ max_page_index = NoMax
            BY <3>1
        <3>2. CASE \E range \in Ranges : /\ next_page_index = range[1]
                                         /\ max_page_index = range[2]
            BY <3>2, StreamAssumption
        <3> QED
            BY <3>1, <3>2 DEF Init, FillInit
    <2>3. <<>> \in Seq(Nat)
        BY EmptySeq
    <2> QED
        BY <2>1, <2>2, <2>3 DEF Init, FillInit, FillTypeOK
<1>3. TypeOK
    <2>1. <<>> \in Seq(Nat)
        BY EmptySeq
    <2> QED
        BY <1>1, <1>2, <2>1 DEF Init, TypeOK
<1>4. Run(start, 0) = <<>>
    BY DEF Run
<1>5. Adjacent
    BY <1>2, <1>4 DEF Init, FillInit, Adjacent, FillTypeOK, Run
<1>6. WithinBatch /\ OnlyRequestedPages /\ ShortOnlyAtEnd
    BY <1>2 DEF Init, FillInit, WithinBatch, OnlyRequestedPages, ShortOnlyAtEnd, FillTypeOK
<1> QED
    BY <1>1, <1>3, <1>5, <1>6 DEF StreamInv

(* Handing out the first buffered page moves the border between `out` and  *)
(* `buffer`; with nothing buffered the stream has ended.                   *)
LEMMA PopFrontKeepsInv ==
    ASSUME StreamInv, NextFromBuffer \/ NextReturns, UNCHANGED fileVars
    PROVE  StreamInv'
<1> USE DEF FileTypeOK
<1>1. /\ TypeOK /\ FileTypeOK /\ FillTypeOK /\ FileInv /\ Adjacent /\ WithinBatch
      /\ OnlyRequestedPages /\ ShortOnlyAtEnd
      /\ out \in Seq(Nat) /\ buffer \in Seq(Nat)
    BY DEF StreamInv, TypeOK, FillTypeOK
<1>2. /\ at \in {"idle", "filled"} /\ at' = "idle"
      /\ PopFront
      /\ next_page_index' = next_page_index /\ exhausted' = exhausted
      /\ cache' = cache /\ page_idx' = page_idx /\ end_page' = end_page /\ bulk' = bulk
      /\ pages_per_batch' = pages_per_batch /\ start' = start
      /\ max_page_index' = max_page_index
      /\ len' = len /\ nseg' = nseg /\ lo' = lo /\ hi' = hi
      /\ faulted' = faulted
      /\ at = "idle" => buffer # <<>> \/ exhausted
    BY DEF NextFromBuffer, NextReturns, configVars, fileVars
<1>3. /\ out = Run(start, Len(out))
      /\ buffer = Run(start + Len(out), Len(buffer))
      /\ next_page_index = start + Len(out) + Len(buffer)
      /\ Len(out) \in Nat /\ Len(buffer) \in Nat /\ start \in Nat
    BY <1>1, <1>2 DEF Adjacent, FillTypeOK
<1>4. FileInv'
    BY <1>1, <1>2 DEF FileInv, FirstPage, WholePages
<1>5. CASE buffer # <<>>
    <2>1. out' = Append(out, Head(buffer)) /\ buffer' = Tail(buffer) /\ ended' = ended
        BY <1>2, <1>5 DEF PopFront
    <2>2. Len(buffer) > 0
        BY <1>1, <1>5, EmptySeq
    <2>3. /\ Head(buffer) = start + Len(out)
          /\ buffer' = Run(start + Len(out) + 1, Len(buffer) - 1)
          /\ Len(buffer') = Len(buffer) - 1
          /\ buffer' \in Seq(Nat)
        <3>1. start + Len(out) \in Nat
            BY <1>3
        <3> DEFINE a == start + Len(out)
                   n == Len(buffer)
        <3>2. a \in Nat /\ n \in Nat /\ n > 0 /\ buffer = Run(a, n)
            BY <1>3, <2>2
        <3> HIDE DEF a, n
        <3>3. /\ Head(Run(a, n)) = a /\ Tail(Run(a, n)) = Run(a + 1, n - 1)
              /\ Len(Tail(Run(a, n))) = n - 1 /\ Tail(Run(a, n)) \in Seq(Nat)
            BY <3>2, RunHeadTail
        <3> QED
            BY <2>1, <3>2, <3>3 DEF a, n
    <2>4. out' = Run(start, Len(out) + 1) /\ Len(out') = Len(out) + 1 /\ out' \in Seq(Nat)
        <3>1. Append(Run(start, Len(out)), start + Len(out)) = Run(start, Len(out) + 1)
            BY <1>3, RunAppend
        <3>2. out' = Run(start, Len(out) + 1)
            BY <1>3, <2>1, <2>3, <3>1
        <3> QED
            BY <1>3, <3>2, RunFacts
    <2>5. TypeOK'
        BY <1>1, <1>2, <2>1, <2>3, <2>4 DEF TypeOK, FillTypeOK
    <2>6. Adjacent'
        <3>1. out' = Run(start', Len(out'))
            BY <1>2, <2>4
        <3>2. start' + Len(out') = start + Len(out) + 1
            BY <1>2, <1>3, <2>4, SMTT(30)
        <3>3. buffer' = Run(start' + Len(out'), Len(buffer'))
            BY <2>3, <3>2
        <3>4. next_page_index' = start' + Len(out') + Len(buffer')
            BY <1>2, <1>3, <2>3, <3>2, SMTT(30)
        <3> QED
            BY <1>2, <3>1, <3>3, <3>4 DEF Adjacent, Run
    <2>7. WithinBatch'
        BY <1>1, <1>2 DEF WithinBatch, Scan!LimitOf, Scan!NoMax
    <2>8. OnlyRequestedPages'
        <3>1. next_page_index <= Scan!LimitOf(max_page_index, hi)
            BY <1>1, <1>2, <1>3, <2>2 DEF WithinBatch
        <3>2. start + Len(out) < Scan!LimitOf(max_page_index, hi)
            BY <1>1, <1>3, <2>2, <3>1 DEF FillTypeOK, Scan!LimitOf
        <3>3. \A i \in 1 .. Len(out) : out'[i] = out[i]
            BY <1>1, <2>1, <2>3, <1>3, AppendProperties
        <3>4. out'[Len(out) + 1] = start + Len(out)
            BY <1>1, <2>1, <2>3, <1>3, AppendProperties
        <3>5. Scan!LimitOf(max_page_index, hi)' = Scan!LimitOf(max_page_index, hi)
            BY <1>2 DEF Scan!LimitOf, Scan!NoMax
        <3> DEFINE limit == Scan!LimitOf(max_page_index, hi)
        <3>6. \A i \in 1 .. Len(out) : out[i] < limit
            BY <1>1 DEF OnlyRequestedPages
        <3> HIDE DEF limit
        <3>7. \A i \in 1 .. Len(out) + 1 : out'[i] < limit
            <4>1. start + Len(out) < limit
                BY <3>2 DEF limit
            <4> QED
                BY <1>3, <3>3, <3>4, <3>6, <4>1
        <3>8. \A i \in 1 .. Len(out') : out'[i] < limit'
            BY <2>4, <3>5, <3>7 DEF limit
        <3> QED
            BY <3>8 DEF OnlyRequestedPages, limit
    <2>9. ShortOnlyAtEnd'
        BY <1>1, <1>2, <1>5, <2>1 DEF ShortOnlyAtEnd, Scan!LimitOf, Scan!NoMax
    <2> QED
        BY <1>4, <2>5, <2>6, <2>7, <2>8, <2>9 DEF StreamInv
<1>6. CASE buffer = <<>>
    <2>1. out' = out /\ buffer' = buffer /\ ended' = TRUE
        BY <1>2, <1>6 DEF PopFront
    <2>2. TypeOK'
        BY <1>1, <1>2, <2>1 DEF TypeOK, FillTypeOK
    <2>3. Adjacent'
        BY <1>1, <1>2, <2>1 DEF Adjacent, Run
    <2>4. WithinBatch' /\ OnlyRequestedPages'
        BY <1>1, <1>2, <2>1 DEF WithinBatch, OnlyRequestedPages, Scan!LimitOf, Scan!NoMax
    <2>5. ShortOnlyAtEnd'
        BY <1>1, <1>2, <1>6, <2>1 DEF ShortOnlyAtEnd, Scan!LimitOf, Scan!NoMax
    <2> QED
        BY <1>4, <2>2, <2>3, <2>4, <2>5 DEF StreamInv
<1> QED
    BY <1>5, <1>6

(* How far the next batch may reach. *)
LEMMA WantFacts ==
    ASSUME FillTypeOK, FileTypeOK
    PROVE  /\ Want \in Nat
           /\ Want = 0 => next_page_index >= Scan!LimitOf(max_page_index, lo)
           /\ max_page_index # NoMax /\ Want > 0 => next_page_index + Want <= max_page_index
    BY DEF FillTypeOK, FileTypeOK, Want, LeastOf, NoMax, Scan!LimitOf, Scan!NoMax

(* Entering fill_buffer starts an empty batch at next_page_index, or finds *)
(* the range used up.                                                      *)
LEMMA NextFillsKeepsInv ==
    ASSUME StreamInv, NextFills, UNCHANGED fileVars
    PROVE  StreamInv'
<1>1. /\ TypeOK /\ FileTypeOK /\ FillTypeOK /\ FileInv /\ Adjacent /\ WithinBatch
      /\ OnlyRequestedPages /\ ShortOnlyAtEnd
    BY DEF StreamInv, TypeOK
<1>2. /\ at = "idle" /\ buffer = <<>> /\ exhausted = FALSE
      /\ out' = out /\ ended' = ended /\ faulted' = faulted /\ buffer' = buffer /\ cache' = cache
      /\ next_page_index' = next_page_index
      /\ pages_per_batch' = pages_per_batch /\ start' = start
      /\ max_page_index' = max_page_index
      /\ len' = len /\ nseg' = nseg /\ lo' = lo /\ hi' = hi
    BY <1>1 DEF NextFills, FillEnter, configVars, fileVars, FillTypeOK
<1>3. /\ Want \in Nat
      /\ Want = 0 => next_page_index >= Scan!LimitOf(max_page_index, lo)
    BY <1>1, WantFacts
<1>4. Want' = Want
    BY <1>2 DEF Want, LeastOf
<1>5. FileInv' /\ FileTypeOK'
    BY <1>1, <1>2 DEF FileInv, FileTypeOK, FirstPage, WholePages
<1>6. OnlyRequestedPages'
    BY <1>1, <1>2 DEF OnlyRequestedPages, Scan!LimitOf, Scan!NoMax
<1>7. ended = FALSE
    BY <1>1, <1>2 DEF ShortOnlyAtEnd, TypeOK
<1>8. CASE Want = 0
    <2>1. /\ exhausted' = TRUE /\ at' = "filled"
          /\ page_idx' = page_idx /\ end_page' = end_page /\ bulk' = bulk
        BY <1>2, <1>8 DEF NextFills, FillEnter
    <2>2. TypeOK'
        BY <1>1, <1>2, <1>5, <2>1 DEF TypeOK, FillTypeOK
    <2>3. Adjacent' /\ WithinBatch'
        BY <1>1, <1>2, <2>1 DEF Adjacent, Run, WithinBatch, Scan!LimitOf, Scan!NoMax
    <2>4. ShortOnlyAtEnd'
        BY <1>1, <1>2, <1>3, <1>7, <1>8, <2>1 DEF ShortOnlyAtEnd, Scan!LimitOf, Scan!NoMax
    <2> QED
        BY <1>5, <1>6, <2>2, <2>3, <2>4 DEF StreamInv
<1>9. CASE Want # 0
    <2>1. /\ exhausted' = FALSE /\ at' = "bulk"
          /\ page_idx' = next_page_index /\ end_page' = next_page_index + Want
          /\ bulk' = <<>>
        BY <1>2, <1>9 DEF NextFills, FillEnter
    <2>2. <<>> \in Seq(Nat) /\ Len(<<>>) = 0 /\ Run(next_page_index, 0) = <<>>
        BY EmptySeq DEF Run
    <2>3. TypeOK'
        <3>1. page_idx' \in Nat /\ end_page' \in Nat /\ bulk' \in Seq(Nat)
            BY <1>1, <1>3, <2>1, <2>2 DEF FillTypeOK
        <3> QED
            BY <1>1, <1>2, <1>5, <2>1, <3>1 DEF TypeOK, FillTypeOK
    <2>4. Adjacent'
        <3>1. bulk' = Run(next_page_index', Len(bulk'))
            BY <1>2, <2>1, <2>2
        <3>2. page_idx' = next_page_index' + Len(bulk')
            BY <1>1, <1>2, <2>1, <2>2 DEF FillTypeOK
        <3> QED
            BY <1>1, <1>2, <2>1, <3>1, <3>2 DEF Adjacent, Run
    <2>5. WithinBatch'
        BY <1>1, <1>2, <1>3, <1>4, <1>9, <2>1
           DEF WithinBatch, FillTypeOK, Scan!LimitOf, Scan!NoMax
    <2>6. ShortOnlyAtEnd'
        BY <1>1, <1>2, <1>7, <2>1 DEF ShortOnlyAtEnd
    <2> QED
        BY <1>5, <1>6, <2>3, <2>4, <2>5, <2>6 DEF StreamInv
<1> QED
    BY <1>8, <1>9

(* What a step of fill_buffer leaves alone, and what it may add to the     *)
(* history of failed reads.                                                *)
LEMMA ReadsFrame ==
    ASSUME StreamInv, NextReads, UNCHANGED fileVars
    PROVE  /\ out' = out /\ ended' = ended
           /\ pages_per_batch' = pages_per_batch /\ start' = start
           /\ max_page_index' = max_page_index
           /\ len' = len /\ nseg' = nseg /\ lo' = lo /\ hi' = hi
           /\ faulted' \in BOOLEAN
           /\ (faulted => faulted') /\ (PageMissed => faulted')
           /\ at \in {"bulk", "convert"} /\ ended = FALSE
<1>1. out' = out /\ ended' = ended /\ faulted' = (faulted \/ PageMissed)
    BY DEF NextReads
<1>2. /\ pages_per_batch' = pages_per_batch /\ start' = start
      /\ max_page_index' = max_page_index /\ at \in {"bulk", "convert"}
    BY DEF NextReads, FillStep, BulkOpen, BulkOpenFails, BulkPread, BulkPreadFails,
           FillConvert, FillPanics, configVars
<1>3. faulted \in BOOLEAN /\ ended \in BOOLEAN /\ PageMissed \in BOOLEAN
    BY DEF StreamInv, TypeOK, PageMissed
<1>4. ended => at = "idle"
    BY DEF StreamInv, ShortOnlyAtEnd
<1>5. len' = len /\ nseg' = nseg /\ lo' = lo /\ hi' = hi
    BY DEF fileVars
<1> QED
    BY <1>1, <1>2, <1>3, <1>4, <1>5

(* Opening a segment, or failing to, reads nothing.  A call that fails on  *)
(* a page that is not there was asked past the end of the data; one that   *)
(* fails on a page that is there is on record.                             *)
LEMMA OpenKeepsInv ==
    ASSUME StreamInv, NextReads, BulkOpen \/ BulkOpenFails \/ BulkPreadFails,
           UNCHANGED fileVars
    PROVE  StreamInv'
<1>1. /\ TypeOK /\ FileTypeOK /\ FillTypeOK /\ FileInv /\ Adjacent /\ WithinBatch
      /\ OnlyRequestedPages /\ ShortOnlyAtEnd
    BY DEF StreamInv, TypeOK
<1>2. /\ at = "bulk" /\ at' \in {"bulk", "convert"} /\ cache' \in {cache, segment_num(page_idx)}
      /\ out' = out /\ ended' = ended /\ buffer' = buffer /\ exhausted' = exhausted
      /\ next_page_index' = next_page_index /\ page_idx' = page_idx
      /\ end_page' = end_page /\ bulk' = bulk
      /\ pages_per_batch' = pages_per_batch /\ start' = start
      /\ max_page_index' = max_page_index
      /\ len' = len /\ nseg' = nseg /\ lo' = lo /\ hi' = hi
      /\ faulted' \in BOOLEAN /\ (faulted => faulted')
      /\ PageMissed => faulted'
    BY ReadsFrame DEF BulkOpen, BulkOpenFails, BulkPreadFails
<1>3. page_idx \in Nat /\ segment_num(page_idx) \in Nat
      /\ page_in_segment(page_idx) \in 0 .. PagesPerSegment - 1
      /\ FirstPage(segment_num(page_idx)) \in Nat
      /\ FirstPage(segment_num(page_idx)) + page_in_segment(page_idx) = page_idx
    BY <1>1, PageSplit DEF FillTypeOK
<1>4. TypeOK'
    BY <1>1, <1>2, <1>3 DEF TypeOK, FillTypeOK, FileTypeOK
<1>5. FileInv'
    BY <1>1, <1>2 DEF FileInv, FirstPage, WholePages
<1>6. Adjacent'
    BY <1>1, <1>2 DEF Adjacent, Run
<1>7. WithinBatch' /\ OnlyRequestedPages'
    BY <1>1, <1>2 DEF WithinBatch, OnlyRequestedPages, Want, LeastOf,
                      Scan!LimitOf, Scan!NoMax
<1>8. ShortOnlyAtEnd'
    <2>1. ~faulted' /\ at' = "convert" => page_idx >= lo
        BY <1>1, <1>2, <1>3, PageMissing DEF PageMissed
    <2>2. exhausted = FALSE /\ ~ended
        BY <1>1, <1>2 DEF WithinBatch, ShortOnlyAtEnd, FillTypeOK
    <2> QED
        BY <1>2, <2>1, <2>2 DEF ShortOnlyAtEnd
<1> QED
    BY <1>4, <1>5, <1>6, <1>7, <1>8 DEF StreamInv

(* One pread reads whole pages from page_idx on, no further than the batch *)
(* and the relation reach, and it is short only at the relation's end.     *)
LEMMA PreadFacts ==
    ASSUME FileTypeOK, FileInv, FillTypeOK, at = "bulk",
           cache = segment_num(page_idx), page_idx < end_page
    PROVE  LET n == WholePages(UnitsRead)
           IN  /\ n \in Nat
               /\ page_idx + n <= end_page
               /\ n > 0 => page_idx + n <= hi
               /\ UnitsRead < 2 * PagesToRead => page_idx + n >= lo
               /\ UnitsRead >= 2 * PagesToRead => n > 0
               /\ PagesAt(cache, page_in_segment(page_idx), n) = Run(page_idx, n)
<1> DEFINE p == page_in_segment(page_idx)
           base == FirstPage(cache)
           n == WholePages(UnitsRead)
<1>1. /\ page_idx \in Nat /\ end_page \in Nat
      /\ cache \in Nat /\ p \in 0 .. PagesPerSegment - 1 /\ base \in Nat
      /\ base + p = page_idx
    BY PageSplit DEF FillTypeOK
<1>2. PagesPerSegment \in Nat /\ PagesPerSegment > 0
    BY SegmentAssumption
<1>3. /\ PagesToRead \in Nat /\ PagesToRead > 0
      /\ PagesToRead <= end_page - page_idx /\ PagesToRead <= PagesPerSegment - p
    BY <1>1, <1>2 DEF PagesToRead, LeastOf
<1>4. /\ n \in Nat /\ n <= PagesToRead
      /\ n > 0 => page_idx + n <= hi
      /\ UnitsRead < 2 * PagesToRead => page_idx + n >= lo
      /\ UnitsRead >= 2 * PagesToRead => n > 0
    BY <1>1, <1>3, ReadFacts DEF UnitsRead
<1> HIDE DEF p, base, n
<1>5. PagesAt(cache, page_in_segment(page_idx), n) = Run(page_idx, n)
    <2>1. \A i \in 1 .. n : base + p + (i - 1) = page_idx + (i - 1)
        BY <1>1, <1>4
    <2> QED
        BY <2>1 DEF PagesAt, Run, base, p
<1>6. page_idx + n <= end_page
    BY <1>1, <1>3, <1>4
<1> QED
    BY <1>4, <1>5, <1>6 DEF n

(* One pread of read_pages_bulk extends the batch by the pages that follow. *)
LEMMA PreadKeepsInv ==
    ASSUME StreamInv, NextReads, BulkPread, UNCHANGED fileVars
    PROVE  StreamInv'
<1> DEFINE n == WholePages(UnitsRead)
<1>1. /\ TypeOK /\ FileTypeOK /\ FillTypeOK /\ FileInv /\ Adjacent /\ WithinBatch
      /\ OnlyRequestedPages /\ ShortOnlyAtEnd
    BY DEF StreamInv, TypeOK
<1>2. /\ at = "bulk" /\ cache = segment_num(page_idx)
      /\ bulk' = bulk \o PagesAt(cache, page_in_segment(page_idx), n)
      /\ page_idx' = page_idx + n
      /\ at' = IF UnitsRead < 2 * PagesToRead \/ page_idx + n = end_page
                 THEN "convert" ELSE "bulk"
      /\ out' = out /\ ended' = ended /\ buffer' = buffer /\ exhausted' = exhausted
      /\ next_page_index' = next_page_index /\ end_page' = end_page /\ cache' = cache
      /\ pages_per_batch' = pages_per_batch /\ start' = start
      /\ max_page_index' = max_page_index
      /\ len' = len /\ nseg' = nseg /\ lo' = lo /\ hi' = hi
      /\ faulted' \in BOOLEAN /\ (faulted => faulted')
    BY ReadsFrame DEF BulkPread
<1>3. page_idx < end_page /\ at' \in {"bulk", "convert"}
    BY <1>1, <1>2 DEF WithinBatch
<1>4. /\ n \in Nat
      /\ page_idx + n <= end_page
      /\ n > 0 => page_idx + n <= hi
      /\ UnitsRead < 2 * PagesToRead => page_idx + n >= lo
      /\ UnitsRead >= 2 * PagesToRead => n > 0
      /\ PagesAt(cache, page_in_segment(page_idx), n) = Run(page_idx, n)
    BY <1>1, <1>2, <1>3, PreadFacts
<1>5. /\ bulk = Run(next_page_index, Len(bulk)) /\ page_idx = next_page_index + Len(bulk)
      /\ next_page_index \in Nat /\ Len(bulk) \in Nat /\ buffer = <<>>
      /\ page_idx \in Nat /\ end_page \in Nat
    BY <1>1, <1>2 DEF Adjacent, FillTypeOK
<1>6. UnitsRead < 2 * PagesToRead \/ UnitsRead >= 2 * PagesToRead
    <2>1. UnitsRead \in Int /\ PagesToRead \in Int
        <3>1. /\ cache \in Nat /\ page_in_segment(page_idx) \in Int /\ PagesPerSegment \in Nat
            BY <1>2, <1>5, PageSplit, SegmentAssumption
        <3>2. SegmentUnits(cache) \in Int
            BY <1>1, <3>1, SegmentLength
        <3> QED
            BY <1>5, <3>1, <3>2, SMTT(30) DEF UnitsRead, PagesToRead, LeastOf
    <2> QED
        BY <2>1
<1> HIDE DEF n
<1>7. bulk' = Run(next_page_index, Len(bulk) + n)
    <2>1. Run(next_page_index, Len(bulk)) \o Run(next_page_index + Len(bulk), n)
            = Run(next_page_index, Len(bulk) + n)
        BY <1>4, <1>5, RunConcat, ZenonT(30)
    <2> QED
        BY <1>2, <1>4, <1>5, <2>1
<1>8. bulk' \in Seq(Nat) /\ Len(bulk') = Len(bulk) + n
    <2>1. Len(bulk) + n \in Nat
        BY <1>4, <1>5
    <2> QED
        BY <1>5, <1>7, <2>1, RunFacts
<1>9. FileInv' /\ OnlyRequestedPages' /\ Want' = Want
    BY <1>1, <1>2 DEF FileInv, FirstPage, WholePages, OnlyRequestedPages, Want,
                      LeastOf, Scan!LimitOf, Scan!NoMax
<1>10. TypeOK'
    BY <1>1, <1>2, <1>3, <1>4, <1>5, <1>8 DEF TypeOK, FillTypeOK, FileTypeOK
<1>11. Adjacent'
    <2>1. bulk' = Run(next_page_index', Len(bulk'))
        BY <1>2, <1>7, <1>8
    <2>2. page_idx' = next_page_index' + Len(bulk')
        <3> DEFINE m == Len(bulk)
        <3>1. page_idx' = page_idx + n /\ next_page_index' = next_page_index
            BY <1>2
        <3>2. page_idx = next_page_index + m /\ Len(bulk') = m + n
            BY <1>5, <1>8
        <3>3. n \in Nat /\ m \in Nat /\ next_page_index \in Nat
            BY <1>4, <1>5
        <3> HIDE DEF m
        <3> QED
            BY <3>1, <3>2, <3>3
    <2>3. buffer' = <<>>
        BY <1>2, <1>5
    <2>4. out = Run(start, Len(out)) /\ buffer = Run(start + Len(out), Len(buffer))
          /\ next_page_index = start + Len(out) + Len(buffer)
        BY <1>1, <1>2 DEF Adjacent
    <2>5. /\ Run(start, Len(out))' = Run(start, Len(out))
          /\ Run(start + Len(out), Len(buffer))' = Run(start + Len(out), Len(buffer))
        BY <1>2 DEF Run
    <2> QED
        BY <1>2, <2>1, <2>2, <2>3, <2>4, <2>5 DEF Adjacent, Run
<1>12. WithinBatch'
    <2>1. at' = "bulk" => page_idx' < end_page'
        BY <1>2, <1>4, <1>5
    <2>2. bulk' # <<>> => page_idx' <= hi'
        <3>1. CASE n > 0
            BY <1>2, <1>4, <3>1
        <3>2. CASE n = 0
            <4>1. bulk' = bulk
                BY <1>5, <1>7, <3>2
            <4>2. page_idx' = page_idx
                BY <1>2, <1>5, <3>2
            <4> QED
                BY <1>1, <1>2, <4>1, <4>2 DEF WithinBatch
        <3> QED
            BY <1>4, <3>1, <3>2
    <2> QED
        BY <1>1, <1>2, <1>3, <1>4, <1>9, <2>1, <2>2 DEF WithinBatch, Scan!LimitOf, Scan!NoMax
<1>13. ShortOnlyAtEnd'
    <2>1. at' = "convert" /\ page_idx' < end_page' => page_idx' >= lo'
        BY <1>2, <1>4, <1>5
    <2> QED
        BY <1>1, <1>2, <1>3, <2>1 DEF ShortOnlyAtEnd, Scan!LimitOf, Scan!NoMax
<1> QED
    BY <1>9, <1>10, <1>11, <1>12, <1>13 DEF StreamInv

(* Appending the batch to the empty buffer makes it the buffer; the stream *)
(* is exhausted when the batch is smaller than wanted.                     *)
LEMMA FillConvertKeepsInv ==
    ASSUME StreamInv, NextReads, FillConvert, UNCHANGED fileVars
    PROVE  StreamInv'
<1>1. /\ TypeOK /\ FileTypeOK /\ FillTypeOK /\ FileInv /\ Adjacent /\ WithinBatch
      /\ OnlyRequestedPages /\ ShortOnlyAtEnd
    BY DEF StreamInv, TypeOK
<1>2. /\ at = "convert" /\ at' = "filled"
      /\ buffer' = buffer \o bulk /\ next_page_index' = next_page_index + Len(bulk)
      /\ exhausted' = (Len(bulk) < Want)
      /\ out' = out /\ ended' = ended /\ bulk' = bulk /\ page_idx' = page_idx
      /\ end_page' = end_page /\ cache' = cache
      /\ pages_per_batch' = pages_per_batch /\ start' = start
      /\ max_page_index' = max_page_index
      /\ len' = len /\ nseg' = nseg /\ lo' = lo /\ hi' = hi
      /\ faulted' \in BOOLEAN /\ (faulted => faulted')
    BY ReadsFrame DEF FillConvert
<1>3. /\ bulk = Run(next_page_index, Len(bulk)) /\ page_idx = next_page_index + Len(bulk)
      /\ next_page_index = start + Len(out) + Len(buffer) /\ buffer = <<>>
      /\ out = Run(start, Len(out))
    BY <1>1, <1>2 DEF Adjacent
<1>4. /\ bulk \in Seq(Nat) /\ out \in Seq(Nat) /\ start \in Nat /\ next_page_index \in Nat
      /\ page_idx \in Nat /\ end_page \in Nat /\ hi \in Nat /\ lo \in Nat
      /\ max_page_index \in Nat \cup {NoMax}
    BY <1>1 DEF TypeOK, FillTypeOK, FileTypeOK
<1>5. Len(bulk) \in Nat /\ Len(out) \in Nat /\ Len(buffer) = 0
    BY <1>3, <1>4, EmptySeq
<1>6. buffer' = bulk
    BY <1>2, <1>3, <1>4, ConcatEmptySeq
<1>7. next_page_index = start + Len(out) /\ next_page_index' = page_idx
    <2> DEFINE m == Len(out)
    <2>1. next_page_index = start + m + 0 /\ m \in Nat
        BY <1>3, <1>5
    <2>2. next_page_index' = page_idx
        BY <1>2, <1>3
    <2> HIDE DEF m
    <2>3. next_page_index = start + m
        BY <1>4, <2>1
    <2> QED
        BY <2>2, <2>3 DEF m
<1>8. /\ Want \in Nat /\ Want > 0 /\ end_page = next_page_index + Want /\ page_idx <= end_page
      /\ max_page_index # NoMax => next_page_index + Want <= max_page_index
      /\ bulk # <<>> => page_idx <= hi
      /\ exhausted = FALSE
    BY <1>1, <1>2, WantFacts DEF WithinBatch, FillTypeOK
<1>9. TypeOK'
    BY <1>1, <1>2, <1>4, <1>6, <1>7 DEF TypeOK, FillTypeOK, FileTypeOK
<1>10. FileInv' /\ OnlyRequestedPages'
    BY <1>1, <1>2 DEF FileInv, FirstPage, WholePages, OnlyRequestedPages,
                      Scan!LimitOf, Scan!NoMax
<1>11. Adjacent'
    <2>1. out' = Run(start', Len(out'))
        BY <1>2, <1>3
    <2>2. buffer' = Run(start' + Len(out'), Len(buffer'))
        BY <1>2, <1>3, <1>6, <1>7
    <2>3. next_page_index' = start' + Len(out') + Len(buffer')
        BY <1>2, <1>6, <1>7
    <2> QED
        BY <1>2, <2>1, <2>2, <2>3 DEF Adjacent, Run
<1>12. WithinBatch'
    <2>1. ASSUME next_page_index' > start'
          PROVE  next_page_index' <= Scan!LimitOf(max_page_index', hi')
        <3>1. max_page_index # NoMax => page_idx <= max_page_index
            BY <1>4, <1>8
        <3>2. page_idx <= hi
            <4>1. CASE bulk # <<>>
                BY <1>8, <4>1
            <4>2. CASE bulk = <<>>
                <5>1. next_page_index' = next_page_index
                    BY <1>2, <1>4, <4>2, EmptySeq
                <5>2. next_page_index <= Scan!LimitOf(max_page_index, hi)
                    BY <1>1, <1>2, <2>1, <5>1 DEF WithinBatch
                <5> QED
                    BY <1>4, <1>7, <5>1, <5>2 DEF Scan!LimitOf
            <4> QED
                BY <4>1, <4>2
        <3> QED
            BY <1>2, <1>4, <1>7, <3>1, <3>2 DEF Scan!LimitOf, Scan!NoMax, NoMax
    <2>2. /\ at' # "bulk" /\ at' # "convert"
          /\ at' # "panicked" /\ next_page_index' > start'
                => next_page_index' <= Scan!LimitOf(max_page_index', hi')
        BY <1>2, <2>1
    <2> QED
        BY <2>2 DEF WithinBatch, Scan!LimitOf, Scan!NoMax
<1>13. ShortOnlyAtEnd'
    <2>1. /\ ~faulted' /\ page_idx < end_page => page_idx >= lo
          /\ ~ended
        BY <1>1, <1>2 DEF ShortOnlyAtEnd, TypeOK
    <2>2. ~faulted' /\ exhausted' => page_idx >= lo
        <3> DEFINE m == Len(bulk)
        <3>1. exhausted' => m < Want
            BY <1>2
        <3>2. page_idx = next_page_index + m /\ m \in Nat
            BY <1>3, <1>5
        <3> HIDE DEF m
        <3>3. m < Want => page_idx < end_page
            BY <1>4, <1>8, <3>2
        <3> QED
            BY <2>1, <3>1, <3>3
    <2>3. ~faulted' /\ exhausted' => next_page_index' >= Scan!LimitOf(max_page_index', lo')
        BY <1>2, <1>4, <1>7, <2>2 DEF Scan!LimitOf, Scan!NoMax, NoMax
    <2>4. buffer' = <<>> => exhausted'
        BY <1>2, <1>5, <1>6, <1>8, EmptySeq
    <2> QED
        BY <1>2, <2>1, <2>3, <2>4 DEF ShortOnlyAtEnd, Scan!LimitOf, Scan!NoMax
<1> QED
    BY <1>9, <1>10, <1>11, <1>12, <1>13 DEF StreamInv

(* A panic of the conversion leaves a sequence of pages in the buffer, and *)
(* nothing is handed out any more.                                         *)
LEMMA FillPanicsKeepsInv ==
    ASSUME StreamInv, NextReads, FillPanics, UNCHANGED fileVars
    PROVE  StreamInv'
<1>1. /\ TypeOK /\ FileTypeOK /\ FillTypeOK /\ FileInv /\ Adjacent /\ WithinBatch
      /\ OnlyRequestedPages /\ ShortOnlyAtEnd
    BY DEF StreamInv, TypeOK
<1>2. /\ at = "convert" /\ at' = "panicked"
      /\ out' = out /\ ended' = ended /\ bulk' = bulk /\ page_idx' = page_idx
      /\ end_page' = end_page /\ cache' = cache /\ exhausted' = exhausted
      /\ next_page_index' = next_page_index
      /\ pages_per_batch' = pages_per_batch /\ start' = start
      /\ max_page_index' = max_page_index
      /\ len' = len /\ nseg' = nseg /\ lo' = lo /\ hi' = hi
      /\ faulted' \in BOOLEAN /\ (faulted => faulted')
    BY ReadsFrame DEF FillPanics
<1>3. PICK i \in 1 .. Len(bulk) : buffer' = buffer \o SubSeq(bulk, 1, i - 1)
    BY DEF FillPanics
<1>4. buffer \in Seq(Nat) /\ bulk \in Seq(Nat)
    BY <1>1 DEF FillTypeOK
<1>5. SubSeq(bulk, 1, i - 1) \in Seq(Nat)
    <2>1. Len(bulk) \in Nat /\ i \in Nat /\ i <= Len(bulk)
        BY <1>3, <1>4, LenProperties
    <2>2. \A k \in 1 .. i - 1 : bulk[k] \in Nat
        BY <1>4, <2>1, LenProperties, ElementOfSeq
    <2> QED
        BY <1>3, <1>4, <2>1, <2>2, SubSeqProperties
<1>6. buffer' \in Seq(Nat)
    BY <1>3, <1>4, <1>5, ConcatProperties
<1>7. TypeOK'
    BY <1>1, <1>2, <1>6 DEF TypeOK, FillTypeOK, FileTypeOK
<1>8. FileInv' /\ OnlyRequestedPages'
    BY <1>1, <1>2 DEF FileInv, FirstPage, WholePages, OnlyRequestedPages,
                      Scan!LimitOf, Scan!NoMax
<1>9. Adjacent' /\ WithinBatch'
    BY <1>1, <1>2 DEF Adjacent, Run, WithinBatch
<1>10. ShortOnlyAtEnd'
    BY <1>1, <1>2 DEF ShortOnlyAtEnd
<1> QED
    BY <1>7, <1>8, <1>9, <1>10 DEF StreamInv

(* The writer can only widen the range of sizes seen, which weakens what   *)
(* the stream has to answer for.                                           *)
LEMMA WriterKeepsInv ==
    ASSUME StreamInv, Writer, UNCHANGED <<fillVars, out, ended, faulted>>
    PROVE  StreamInv'
<1>1. /\ TypeOK /\ FileTypeOK /\ FillTypeOK /\ FileInv /\ Adjacent /\ WithinBatch
      /\ OnlyRequestedPages /\ ShortOnlyAtEnd
    BY DEF StreamInv, TypeOK
<1>2. /\ out' = out /\ ended' = ended /\ bulk' = bulk /\ page_idx' = page_idx
      /\ end_page' = end_page /\ cache' = cache /\ exhausted' = exhausted
      /\ next_page_index' = next_page_index /\ buffer' = buffer /\ at' = at
      /\ faulted' = faulted
      /\ pages_per_batch' = pages_per_batch /\ start' = start
      /\ max_page_index' = max_page_index
    BY DEF fillVars
<1>3. FileTypeOK' /\ FileInv' /\ lo' <= lo /\ hi' >= hi
    BY <1>1, WriterOK
<1>4. TypeOK'
    BY <1>1, <1>2, <1>3 DEF TypeOK, FillTypeOK
<1>5. Adjacent'
    BY <1>1, <1>2 DEF Adjacent, Run
<1>6. /\ lo \in Nat /\ hi \in Nat /\ lo' \in Nat /\ hi' \in Nat
      /\ max_page_index \in Nat \cup {NoMax} /\ next_page_index \in Nat
      /\ page_idx \in Nat /\ out \in Seq(Nat)
    BY <1>1, <1>3 DEF FileTypeOK, FillTypeOK, TypeOK
<1>7. /\ Scan!LimitOf(max_page_index, lo') <= Scan!LimitOf(max_page_index, lo)
      /\ Scan!LimitOf(max_page_index, hi) <= Scan!LimitOf(max_page_index, hi')
      /\ Scan!LimitOf(max_page_index, lo) \in Nat /\ Scan!LimitOf(max_page_index, hi) \in Nat
      /\ Scan!LimitOf(max_page_index, lo') \in Nat /\ Scan!LimitOf(max_page_index, hi') \in Nat
    BY <1>3, <1>6 DEF Scan!LimitOf, Scan!NoMax, NoMax
<1>8. Want' = Want
    BY <1>2 DEF Want, LeastOf
<1>9. WithinBatch'
    <2>1. at # "panicked" /\ next_page_index > start
             => next_page_index <= Scan!LimitOf(max_page_index, hi')
        BY <1>1, <1>6, <1>7 DEF WithinBatch
    <2>2. at \in {"bulk", "convert"} /\ bulk # <<>> => page_idx <= hi'
        BY <1>1, <1>3, <1>6 DEF WithinBatch
    <2> QED
        BY <1>1, <1>2, <1>8, <2>1, <2>2 DEF WithinBatch, Scan!LimitOf, Scan!NoMax
<1>10. OnlyRequestedPages'
    <2>1. \A i \in 1 .. Len(out) : out[i] \in Nat
        BY <1>6, ElementOfSeq
    <2>2. \A i \in 1 .. Len(out) : out[i] < Scan!LimitOf(max_page_index, hi')
        BY <1>1, <1>7, <2>1 DEF OnlyRequestedPages
    <2> QED
        BY <1>2, <2>2 DEF OnlyRequestedPages, Scan!LimitOf, Scan!NoMax
<1>11. ShortOnlyAtEnd'
    <2>1. ~faulted /\ at = "convert" /\ page_idx < end_page => page_idx >= lo'
        BY <1>1, <1>3, <1>6 DEF ShortOnlyAtEnd
    <2>2. ~faulted /\ at # "panicked" /\ exhausted
             => next_page_index >= Scan!LimitOf(max_page_index, lo')
        BY <1>1, <1>6, <1>7 DEF ShortOnlyAtEnd
    <2> QED
        BY <1>1, <1>2, <2>1, <2>2 DEF ShortOnlyAtEnd, Scan!LimitOf, Scan!NoMax
<1> QED
    BY <1>3, <1>4, <1>5, <1>9, <1>10, <1>11 DEF StreamInv

(* Every step of the stream and of the writer keeps the invariant. *)
LEMMA StepKeepsStreamInv ==
    ASSUME StreamInv, [Next]_vars
    PROVE  StreamInv'
<1>1. CASE NextFromBuffer /\ UNCHANGED fileVars
    BY <1>1, PopFrontKeepsInv
<1>2. CASE NextFills /\ UNCHANGED fileVars
    BY <1>2, NextFillsKeepsInv
<1>3. CASE NextReads /\ UNCHANGED fileVars
    <2>1. CASE BulkOpen \/ BulkOpenFails \/ BulkPreadFails
        BY <1>3, <2>1, OpenKeepsInv
    <2>2. CASE BulkPread
        BY <1>3, <2>2, PreadKeepsInv
    <2>3. CASE FillConvert
        BY <1>3, <2>3, FillConvertKeepsInv
    <2>4. CASE FillPanics
        BY <1>3, <2>4, FillPanicsKeepsInv
    <2> QED
        BY <1>3, <2>1, <2>2, <2>3, <2>4 DEF NextReads, FillStep
<1>4. CASE NextReturns /\ UNCHANGED fileVars
    BY <1>4, PopFrontKeepsInv
<1>5. CASE Writer /\ UNCHANGED <<fillVars, out, ended, faulted>>
    BY <1>5, WriterKeepsInv
<1>6. CASE UNCHANGED vars
    <2>1. /\ UNCHANGED <<len, nseg, lo, hi>> /\ UNCHANGED fillVars
          /\ out' = out /\ ended' = ended /\ faulted' = faulted
        BY <1>6 DEF vars, fileVars
    <2>2. TypeOK'
        BY <2>1 DEF StreamInv, TypeOK, FileTypeOK, FillTypeOK, fillVars
    <2>3. FileInv' /\ Adjacent' /\ WithinBatch' /\ OnlyRequestedPages'
        BY <2>1 DEF StreamInv, FileInv, FirstPage, WholePages, Adjacent, Run, WithinBatch,
                    Want, LeastOf, OnlyRequestedPages, Scan!LimitOf, Scan!NoMax, fillVars
    <2>4. ShortOnlyAtEnd'
        BY <2>1 DEF StreamInv, ShortOnlyAtEnd, Scan!LimitOf, Scan!NoMax, fillVars
    <2> QED
        BY <2>2, <2>3, <2>4 DEF StreamInv
<1> QED
    BY <1>1, <1>2, <1>3, <1>4, <1>5, <1>6 DEF Next, Reader

(* The invariant of the stream holds for every segment size, batch size,   *)
(* range, set of failing calls and set of unconvertible pages: what was    *)
(* handed out, is buffered and is being read are adjacent runs of pages.   *)
THEOREM StreamInvariant == Spec => []StreamInv
<1>1. StreamInv /\ [Next]_vars => StreamInv'
    BY StepKeepsStreamInv
<1> QED
    BY <1>1, InitStreamInv, PTL DEF Spec

(* Iterator::next hands out start, start+1, start+2, ... without skipping, *)
(* repeating or swapping a page, also when opens and preads fail.          *)
THEOREM StreamInOrder == Spec => []InOrder
<1>1. StreamInv => InOrder
    BY DEF StreamInv, Adjacent, InOrder
<1> QED
    BY <1>1, StreamInvariant, PTL

(* Iterator::next hands out only pages of the requested range that were    *)
(* complete on disk at some moment of the scan.                            *)
THEOREM StreamOnlyRequestedPages == Spec => []OnlyRequestedPages
<1>1. StreamInv => OnlyRequestedPages
    BY DEF StreamInv
<1> QED
    BY <1>1, StreamInvariant, PTL

(* Unless an open or a pread has failed on a page that was on disk, None   *)
(* means that every page of the range that was on disk during the whole    *)
(* scan has been handed out.                                               *)
THEOREM StreamComplete == Spec => []Complete
<1>1. StreamInv => Complete
    <2> SUFFICES ASSUME StreamInv, ended, ~faulted
                 PROVE  start + Len(out) >= Scan!LimitOf(max_page_index, lo)
        BY DEF Complete
    <2>1. /\ at = "idle" /\ buffer = <<>>
          /\ next_page_index >= Scan!LimitOf(max_page_index, lo)
        BY DEF StreamInv, ShortOnlyAtEnd
    <2>2. next_page_index = start + Len(out) + 0
        BY <2>1, EmptySeq DEF StreamInv, Adjacent
    <2>3. start + Len(out) \in Nat
        BY DEF StreamInv, TypeOK, FillTypeOK
    <2> QED
        BY <2>1, <2>2, <2>3
<1> QED
    BY <1>1, StreamInvariant, PTL

-----------------------------------------------------------------------------
(* The stream implements PageScan. *)

(* A new stream is a scan that has delivered nothing. *)
LEMMA InitRefines == Init => Scan!ScanInit
<1> SUFFICES ASSUME Init PROVE Scan!ScanInit
    OBVIOUS
<1>1. StreamInv
    BY InitStreamInv
<1>2. lo \in Nat /\ hi = lo
    BY <1>1 DEF StreamInv, TypeOK, FileTypeOK, Init, FileInit
<1>3. start \in Nat /\ max_page_index \in Nat \cup {NoMax}
    BY <1>1 DEF StreamInv, TypeOK, FillTypeOK
<1>4. out = <<>> /\ status = "open"
    BY DEF Init, FillInit, status
<1> QED
    BY <1>2, <1>3, <1>4 DEF Scan!ScanInit, Scan!NoMax, NoMax

(* A call of next() answered from the buffer delivers the next page, ends  *)
(* or, after a failed read, fails the scan, or repeats None.               *)
LEMMA PopFrontRefines ==
    ASSUME StreamInv, NextFromBuffer \/ NextReturns, UNCHANGED fileVars
    PROVE  Scan!Deliver \/ Scan!Finish \/ Scan!Fail \/ UNCHANGED Scan!scanVars
<1>1. /\ TypeOK /\ Adjacent /\ WithinBatch /\ ShortOnlyAtEnd
      /\ out \in Seq(Nat) /\ buffer \in Seq(Nat) /\ start \in Nat
      /\ max_page_index \in Nat \cup {NoMax} /\ hi \in Nat
      /\ ended \in BOOLEAN /\ faulted \in BOOLEAN
    BY DEF StreamInv, TypeOK, FillTypeOK, FileTypeOK
<1>2. /\ at \in {"idle", "filled"} /\ at' = "idle" /\ PopFront
      /\ start' = start /\ max_page_index' = max_page_index /\ lo' = lo /\ hi' = hi
      /\ faulted' = faulted
      /\ at = "idle" => buffer # <<>> \/ exhausted
    BY DEF NextFromBuffer, NextReturns, configVars, fileVars
<1>3. /\ buffer = Run(start + Len(out), Len(buffer))
      /\ next_page_index = start + Len(out) + Len(buffer)
      /\ Len(out) \in Nat /\ Len(buffer) \in Nat
    BY <1>1, <1>2 DEF Adjacent
<1>4. CASE buffer # <<>>
    <2>1. out' = Append(out, Head(buffer)) /\ ended' = ended /\ ended = FALSE
        BY <1>1, <1>2, <1>4 DEF PopFront, ShortOnlyAtEnd
    <2>2. status = "open" /\ status' = "open"
        BY <1>2, <2>1 DEF status
    <2> DEFINE a == start + Len(out)
               n == Len(buffer)
    <2>3. a \in Nat /\ n \in Nat /\ n > 0 /\ buffer = Run(a, n) /\ next_page_index = a + n
        BY <1>1, <1>3, <1>4, EmptySeq
    <2>4. next_page_index > start
        BY <1>1, <1>3, <2>3
    <2>5. next_page_index <= Scan!LimitOf(max_page_index, hi)
        BY <1>1, <1>2, <2>4 DEF WithinBatch
    <2> HIDE DEF a, n
    <2>6. Head(buffer) = a
        BY <2>3, RunHeadTail
    <2>7. a < Scan!LimitOf(max_page_index, hi)
        BY <1>1, <2>3, <2>5 DEF Scan!LimitOf
    <2>8. Scan!NextOut = a
        BY DEF Scan!NextOut, a
    <2>9. Scan!Deliver
        BY <1>2, <2>1, <2>2, <2>6, <2>7, <2>8 DEF Scan!Deliver
    <2> QED
        BY <2>9
<1>5. CASE buffer = <<>>
    <2>1. out' = out /\ ended' = TRUE
        BY <1>2, <1>5 DEF PopFront
    <2>2. exhausted
        BY <1>1, <1>2, <1>5 DEF ShortOnlyAtEnd
    <2>3. CASE ended
        <3>1. status' = status
            BY <1>2, <2>1, <2>3 DEF status
        <3> QED
            BY <1>2, <2>1, <3>1 DEF Scan!scanVars
    <2>4. CASE ~ended /\ faulted
        <3>1. status = "open" /\ status' = "failed"
            BY <1>2, <2>1, <2>4 DEF status
        <3> QED
            BY <1>2, <2>1, <3>1 DEF Scan!Fail
    <2>5. CASE ~ended /\ ~faulted
        <3>1. status = "open" /\ status' = "ended"
            BY <1>2, <2>1, <2>5 DEF status
        <3>2. next_page_index >= Scan!LimitOf(max_page_index, lo)
            BY <1>1, <1>2, <2>2, <2>5 DEF ShortOnlyAtEnd
        <3>3. Scan!NextOut = next_page_index
            <4>1. next_page_index = start + Len(out) + 0 /\ start + Len(out) \in Nat
                BY <1>1, <1>3, <1>5, EmptySeq
            <4> QED
                BY <4>1 DEF Scan!NextOut
        <3>4. Scan!Finish
            BY <1>2, <2>1, <3>1, <3>2, <3>3 DEF Scan!Finish
        <3> QED
            BY <3>4
    <2> QED
        BY <2>3, <2>4, <2>5
<1> QED
    BY <1>4, <1>5

(* Every step of the stream is a step of the scan or none at all. *)
LEMMA StepRefines ==
    ASSUME StreamInv, [Next]_vars
    PROVE  [Scan!ScanNext]_Scan!scanVars
<1>1. CASE (NextFromBuffer \/ NextReturns) /\ UNCHANGED fileVars
    BY <1>1, PopFrontRefines DEF Scan!ScanNext
<1>2. CASE NextFills /\ UNCHANGED fileVars
    <2>1. /\ at = "idle" /\ at' # "panicked"
          /\ out' = out /\ ended' = ended /\ faulted' = faulted /\ lo' = lo /\ hi' = hi
          /\ start' = start /\ max_page_index' = max_page_index
        BY <1>2 DEF NextFills, FillEnter, configVars, fileVars
    <2>2. status' = status
        BY <2>1 DEF status
    <2> QED
        BY <2>1, <2>2 DEF Scan!scanVars
<1>3. CASE NextReads /\ UNCHANGED fileVars
    <2>1. /\ at \in {"bulk", "convert"} /\ ended = FALSE
          /\ out' = out /\ ended' = ended /\ lo' = lo /\ hi' = hi
          /\ start' = start /\ max_page_index' = max_page_index
        BY <1>3, ReadsFrame
    <2>2. status = "open"
        BY <2>1 DEF status
    <2>3. CASE at' = "panicked"
        <3>1. status' = "failed"
            BY <2>3 DEF status
        <3> QED
            BY <2>1, <2>2, <3>1 DEF Scan!ScanNext, Scan!Fail
    <2>4. CASE at' # "panicked"
        <3>1. status' = "open"
            BY <2>1, <2>4 DEF status
        <3> QED
            BY <2>1, <2>2, <3>1 DEF Scan!scanVars
    <2> QED
        BY <2>3, <2>4
<1>4. CASE Writer /\ UNCHANGED <<fillVars, out, ended, faulted>>
    <2>1. lo' <= lo /\ hi' >= hi
        BY <1>4, WriterOK DEF StreamInv, TypeOK
    <2>2. start' = start /\ max_page_index' = max_page_index /\ out' = out
          /\ status' = status
        BY <1>4 DEF fillVars, status
    <2> QED
        BY <2>1, <2>2 DEF Scan!ScanNext, Scan!Resize
<1>5. CASE UNCHANGED vars
    BY <1>5 DEF vars, fileVars, fillVars, status, Scan!scanVars
<1> QED
    BY <1>1, <1>2, <1>3, <1>4, <1>5 DEF Next, Reader

(* RecordBatchStream implements PageScan: each call of next() delivers the *)
(* next page of the range, or ends the scan once all pages that were       *)
(* always there are delivered, or panics, or gives up the scan after an    *)
(* open or a pread that failed on a page.                                  *)
THEOREM StreamImplementsScan == Spec => ImplementsScan
<1>1. StreamInv /\ [Next]_vars => [Scan!ScanNext]_Scan!scanVars
    BY StepRefines
<1> QED
    BY <1>1, InitRefines, StreamInvariant, PTL DEF Spec, ImplementsScan, Scan!ScanSpec
=============================================================================
