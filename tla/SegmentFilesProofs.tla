------------------------- MODULE SegmentFilesProofs -------------------------
(***************************************************************************)
(* Facts about segment files that the proofs about their readers share:    *)
(* how a page number splits into a segment and an offset, what the length  *)
(* of one segment says about the whole relation, what a read within one    *)
(* returns, that whatever the writer does the files stay well formed, and  *)
(* how runs of consecutive pages are put together and taken apart.         *)
(***************************************************************************)
EXTENDS SegmentFiles, SequenceTheorems, TLAPS

(* get_page_file_and_offset is exact: segment and offset name the page.    *)
LEMMA PageSplit ==
    ASSUME NEW page \in Nat
    PROVE  /\ segment_num(page) \in Nat
           /\ page_in_segment(page) \in 0 .. PagesPerSegment - 1
           /\ FirstPage(segment_num(page)) \in Nat
           /\ FirstPage(segment_num(page)) + page_in_segment(page) = page
<1>1. PagesPerSegment \in Nat /\ PagesPerSegment > 0
    BY SegmentAssumption
<1>2. /\ page \div PagesPerSegment \in Int
      /\ page % PagesPerSegment \in 0 .. PagesPerSegment - 1
      /\ page = PagesPerSegment * (page \div PagesPerSegment) + (page % PagesPerSegment)
    BY <1>1, Z3
<1>3. page \div PagesPerSegment \in Nat
    BY <1>1, <1>2, Z3
<1> QED
    BY <1>1, <1>2, <1>3, Z3 DEF segment_num, page_in_segment, FirstPage

(* Segments follow one another on disk. *)
LEMMA FirstPageFacts ==
    ASSUME NEW s \in Nat
    PROVE  /\ FirstPage(s) \in Nat
           /\ FirstPage(0) = 0
           /\ FirstPage(s + 1) = FirstPage(s) + PagesPerSegment
           /\ \A t \in Nat : s <= t => FirstPage(s) <= FirstPage(t)
<1>1. PagesPerSegment \in Nat /\ PagesPerSegment > 0
    BY SegmentAssumption
<1>2. s * PagesPerSegment \in Nat /\ (s + 1) * PagesPerSegment = s * PagesPerSegment + PagesPerSegment
    BY <1>1, Z3
<1>3. ASSUME NEW t \in Nat, s <= t
      PROVE  s * PagesPerSegment <= t * PagesPerSegment
    BY <1>1, <1>3, Z3
<1> QED
    BY <1>1, <1>2, <1>3, Z3 DEF FirstPage

(* What the length of one segment says about the length of the relation.   *)
LEMMA SegmentLength ==
    ASSUME NEW s \in Nat, FileTypeOK
    PROVE  /\ SegmentUnits(s) \in 0 .. 2 * PagesPerSegment
           /\ SegmentUnits(s) > 0 => 2 * FirstPage(s) + SegmentUnits(s) <= len
           /\ SegmentUnits(s) < 2 * PagesPerSegment
                 => len <= 2 * FirstPage(s) + SegmentUnits(s)
<1>1. PagesPerSegment \in Nat /\ PagesPerSegment > 0
    BY SegmentAssumption
<1>2. FirstPage(s) \in Nat
    BY FirstPageFacts
<1> QED
    BY <1>1, <1>2 DEF SegmentUnits, LeastOf, FileTypeOK

(* A segment that does not exist lies past the end of the data. *)
LEMMA MissingSegment ==
    ASSUME NEW s \in Nat, FileTypeOK, FileInv, ~Exists(s)
    PROVE  len <= 2 * FirstPage(s)
<1>1. nseg \in Nat /\ nseg <= s
    BY DEF FileTypeOK, Exists
<1>2. FirstPage(nseg) <= FirstPage(s) /\ FirstPage(nseg) \in Nat /\ FirstPage(s) \in Nat
    BY <1>1, FirstPageFacts
<1> QED
    BY <1>2 DEF FileInv, FileTypeOK

(* Reading `want` pages at the place of a page, within its segment: only   *)
(* pages on disk are read, and fewer only where the relation ends.         *)
LEMMA ReadFacts ==
    ASSUME FileTypeOK, FileInv, NEW page \in Nat, NEW want \in Nat, want > 0,
           want <= PagesPerSegment - page_in_segment(page)
    PROVE  LET left == SegmentUnits(segment_num(page)) - 2 * page_in_segment(page)
               units == IF left <= 0 THEN 0 ELSE LeastOf(left, 2 * want)
               n == WholePages(units)
           IN  /\ n \in Nat /\ n <= want
               /\ n > 0 => page + n <= hi
               /\ units < 2 * want => page + n >= lo
               /\ units >= 2 * want => n > 0
<1> DEFINE p == page_in_segment(page)
           base == FirstPage(segment_num(page))
           U == SegmentUnits(segment_num(page))
           left == U - 2 * p
           units == IF left <= 0 THEN 0 ELSE LeastOf(left, 2 * want)
<1>1. /\ segment_num(page) \in Nat /\ p \in 0 .. PagesPerSegment - 1 /\ base \in Nat
      /\ base + p = page
    BY PageSplit
<1>2. PagesPerSegment \in Nat /\ PagesPerSegment > 0
    BY SegmentAssumption
<1>3. /\ U \in 0 .. 2 * PagesPerSegment
      /\ U > 0 => 2 * base + U <= len
      /\ U < 2 * PagesPerSegment => len <= 2 * base + U
    BY <1>1, SegmentLength
<1>4. /\ len \in Nat /\ lo \in Nat /\ hi \in Nat
      /\ lo <= len \div 2 /\ len \div 2 <= hi
    BY DEF FileTypeOK, FileInv, WholePages
<1>5. want <= PagesPerSegment - p
    OBVIOUS
<1> HIDE DEF p, base, U
<1>6. /\ units \in Nat /\ units <= 2 * want
      /\ units > 0 => 2 * page + units <= len
      /\ units < 2 * want => len <= 2 * page + units
    BY <1>1, <1>2, <1>3, <1>4, <1>5 DEF LeastOf
<1> HIDE DEF units
<1>7. /\ units \div 2 \in Nat /\ units \div 2 <= want
      /\ units \div 2 > 0 => page + units \div 2 <= hi
      /\ units < 2 * want => page + units \div 2 >= lo
      /\ units >= 2 * want => units \div 2 > 0
    BY <1>4, <1>6
<1> QED
    BY <1>7 DEF WholePages, units, U, p

(* A page that is not on disk lies past the end of the data. *)
LEMMA PageNotThere ==
    ASSUME FileTypeOK, NEW n \in Nat,
           ~(2 * (page_in_segment(n) + 1) <= SegmentUnits(segment_num(n)))
    PROVE  WholePages(len) <= n
<1> DEFINE p == page_in_segment(n)
           f == FirstPage(segment_num(n))
           u == SegmentUnits(segment_num(n))
<1>1. /\ segment_num(n) \in Nat /\ p \in 0 .. PagesPerSegment - 1 /\ f \in Nat
      /\ f + p = n
    BY PageSplit
<1>2. /\ u \in 0 .. 2 * PagesPerSegment
      /\ u < 2 * PagesPerSegment => len <= 2 * f + u
    BY <1>1, SegmentLength
<1>3. PagesPerSegment \in Nat /\ len \in Nat /\ ~(2 * (p + 1) <= u)
    BY SegmentAssumption DEF FileTypeOK
<1> HIDE DEF p, f, u
<1>4. p \in Nat /\ u \in Nat /\ u < 2 * (p + 1) /\ u < 2 * PagesPerSegment
    BY <1>1, <1>2, <1>3
<1>5. len < 2 * (n + 1)
    BY <1>1, <1>2, <1>3, <1>4
<1> QED
    BY <1>3, <1>5 DEF WholePages

(* ... and so the relation was, at its shortest, no longer than up to there. *)
LEMMA PageMissing ==
    ASSUME FileTypeOK, FileInv, NEW n \in Nat,
           ~(2 * (page_in_segment(n) + 1) <= SegmentUnits(segment_num(n)))
    PROVE  n >= lo
<1>1. WholePages(len) <= n
    BY PageNotThere
<1> QED
    BY <1>1 DEF FileTypeOK, FileInv, WholePages

(* The relation as the reader first finds it. *)
LEMMA FileInitOK == FileInit => FileTypeOK /\ FileInv
    BY SegmentAssumption DEF FileInit, FileTypeOK, FileInv, WholePages

(* Whatever PostgreSQL does, the files stay well formed and the recorded   *)
(* range of sizes only widens.                                             *)
LEMMA WriterOK ==
    ASSUME FileTypeOK, FileInv, Writer
    PROVE  /\ FileTypeOK'
           /\ FileInv'
           /\ lo' <= lo
           /\ hi' >= hi
<1> USE DEF FileTypeOK, FileInv, WholePages
<1>0. nseg \in Nat /\ FirstPage(nseg) \in Nat /\ FirstPage(0) = 0
      /\ FirstPage(nseg + 1) = FirstPage(nseg) + PagesPerSegment
    BY FirstPageFacts
<1>1. CASE ExtendFile
    <2>1. len' = len + 1 /\ nseg' = nseg /\ len + 1 <= 2 * FirstPage(nseg)
        BY <1>0, <1>1 DEF ExtendFile
    <2>2. FirstPage(nseg)' = FirstPage(nseg)
        BY <2>1 DEF FirstPage
    <2> QED
        BY <1>1, <2>1, <2>2 DEF ExtendFile, Observe, LeastOf, GreatestOf
<1>2. CASE CreateSegment
    <2>1. FirstPage(nseg)' = FirstPage(nseg + 1)
        BY <1>2 DEF CreateSegment, FirstPage
    <2>2. PagesPerSegment \in Nat
        BY SegmentAssumption
    <2> QED
        BY <1>0, <1>2, <2>1, <2>2 DEF CreateSegment
<1>3. CASE TruncateFile
    <2>1. PICK pages \in 0 .. len \div 2 : 2 * pages < len /\ len' = 2 * pages
        BY <1>3 DEF TruncateFile
    <2>2. nseg' = nseg /\ FirstPage(nseg)' = FirstPage(nseg)
        BY <1>3 DEF TruncateFile, FirstPage
    <2> QED
        BY <1>0, <1>3, <2>1, <2>2 DEF TruncateFile, Observe, LeastOf, GreatestOf
<1>4. CASE UnlinkFile
    <2>1. FirstPage(nseg)' = FirstPage(0)
        BY <1>4 DEF UnlinkFile, FirstPage
    <2> QED
        BY <1>0, <1>4, <2>1 DEF UnlinkFile, Observe, LeastOf, GreatestOf
<1> QED
    BY <1>1, <1>2, <1>3, <1>4 DEF Writer

-----------------------------------------------------------------------------
(* Runs of consecutive pages. *)

(* A run is a sequence of the given length, counting from its first page. *)
LEMMA RunFacts ==
    ASSUME NEW a \in Nat, NEW n \in Nat
    PROVE  /\ Run(a, n) \in Seq(Nat)
           /\ Len(Run(a, n)) = n
           /\ \A i \in 1 .. n : Run(a, n)[i] = a + (i - 1)
    BY DEF Run

(* A sequence that counts up from a is a run. *)
LEMMA IsRun ==
    ASSUME NEW s \in Seq(Nat), NEW a \in Nat,
           \A i \in 1 .. Len(s) : s[i] = a + (i - 1)
    PROVE  s = Run(a, Len(s))
    BY DEF Run

(* A run followed by the run that starts where it ends is one run. *)
LEMMA RunConcat ==
    ASSUME NEW a \in Nat, NEW n \in Nat, NEW m \in Nat
    PROVE  Run(a, n) \o Run(a + n, m) = Run(a, n + m)
<1> DEFINE u == Run(a, n)
           v == Run(a + n, m)
<1>1. /\ u \in Seq(Nat) /\ Len(u) = n
      /\ \A i \in 1 .. n : u[i] = a + (i - 1)
    BY RunFacts
<1>2. /\ v \in Seq(Nat) /\ Len(v) = m
      /\ \A i \in 1 .. m : v[i] = (a + n) + (i - 1)
    <2>1. a + n \in Nat
        OBVIOUS
    <2> QED
        BY <2>1, RunFacts
<1> HIDE DEF u, v
<1>3. /\ u \o v \in Seq(Nat)
      /\ Len(u \o v) = Len(u) + Len(v)
      /\ \A i \in 1 .. Len(u) + Len(v) :
            (u \o v)[i] = IF i <= Len(u) THEN u[i] ELSE v[i - Len(u)]
    BY <1>1, <1>2, ConcatProperties
<1> DEFINE s == u \o v
<1>4. s \in Seq(Nat) /\ Len(s) = n + m
    BY <1>1, <1>2, <1>3
<1>5. \A i \in 1 .. n + m : s[i] = a + (i - 1)
    BY <1>1, <1>2, <1>3
<1> HIDE DEF s
<1>6. s = Run(a, Len(s))
    BY <1>4, <1>5, IsRun
<1> QED
    BY <1>4, <1>6 DEF s, u, v

(* A run and the page after it are a run. *)
LEMMA RunAppend ==
    ASSUME NEW a \in Nat, NEW n \in Nat
    PROVE  Append(Run(a, n), a + n) = Run(a, n + 1)
<1> DEFINE s == Append(Run(a, n), a + n)
<1>1. /\ Run(a, n) \in Seq(Nat) /\ Len(Run(a, n)) = n
      /\ \A i \in 1 .. n : Run(a, n)[i] = a + (i - 1)
    BY RunFacts
<1>2. s \in Seq(Nat) /\ Len(s) = n + 1
    BY <1>1
<1>3. \A i \in 1 .. n + 1 : s[i] = a + (i - 1)
    BY <1>1
<1> HIDE DEF s
<1>4. s = Run(a, Len(s))
    BY <1>2, <1>3, IsRun
<1> QED
    BY <1>2, <1>4 DEF s

(* Taking the first page off a run leaves the run of the others. *)
LEMMA RunHeadTail ==
    ASSUME NEW a \in Nat, NEW n \in Nat, n > 0
    PROVE  /\ Head(Run(a, n)) = a
           /\ Tail(Run(a, n)) = Run(a + 1, n - 1)
           /\ Len(Tail(Run(a, n))) = n - 1
           /\ Tail(Run(a, n)) \in Seq(Nat)
<1> DEFINE s == Tail(Run(a, n))
<1>1. /\ Run(a, n) \in Seq(Nat) /\ Len(Run(a, n)) = n
      /\ \A i \in 1 .. n : Run(a, n)[i] = a + (i - 1)
    BY RunFacts
<1>2. s \in Seq(Nat) /\ Len(s) = n - 1
    BY <1>1
<1>3. \A i \in 1 .. n - 1 : s[i] = (a + 1) + (i - 1)
    BY <1>1
<1>4. Head(Run(a, n)) = a
    BY <1>1
<1> HIDE DEF s
<1>5. s = Run(a + 1, Len(s))
    <2>1. a + 1 \in Nat
        OBVIOUS
    <2> QED
        BY <1>2, <1>3, <2>1, IsRun
<1> QED
    BY <1>2, <1>4, <1>5 DEF s
=============================================================================
