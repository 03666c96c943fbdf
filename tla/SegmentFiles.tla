---------------------------- MODULE SegmentFiles ----------------------------
(***************************************************************************)
(* The segment files of one relation, as PostgreSQL keeps them on disk and *)
(* as src/src/file/reader.rs finds them while PostgreSQL goes on writing.  *)
(*                                                                         *)
(* A relation is a sequence of 8 KiB pages cut into segment files of       *)
(* PagesPerSegment pages each.  Sizes are counted in half pages, so that a *)
(* page whose write is only partly visible (a torn page) is a state of its *)
(* own: `len` is the number of half pages written over all segments, and   *)
(* segments 0 .. nseg-1 exist.  A segment past the end of the data exists  *)
(* with length zero after a truncation, which is how PostgreSQL leaves it. *)
(*                                                                         *)
(* `lo` and `hi` are history variables: the least and the greatest number  *)
(* of whole pages the relation has had since the reader was created.       *)
(***************************************************************************)
EXTENDS Integers

CONSTANTS
    PagesPerSegment,   \* PAGES_PER_SEGMENT (131072 in the code)
    MaxUnits           \* bound: half pages the writer may reach

ASSUME SegmentAssumption == PagesPerSegment \in Nat \ {0} /\ MaxUnits \in Nat

VARIABLES len, nseg, lo, hi

fileVars == <<len, nseg, lo, hi>>

LeastOf(a, b) == IF a <= b THEN a ELSE b
GreatestOf(a, b) == IF a >= b THEN a ELSE b

-----------------------------------------------------------------------------
(* get_page_file_and_offset: the segment that holds a page and the page's  *)
(* place in it.                                                            *)

segment_num(page) == page \div PagesPerSegment

page_in_segment(page) == page % PagesPerSegment

(* n consecutive pages from `first` on. *)
Run(first, n) == [i \in 1 .. n |-> first + (i - 1)]

(* The first page of a segment. *)
FirstPage(segno) == segno * PagesPerSegment

(* A whole number of pages in a number of half pages (`bytes / PAGE_BUFFER_SIZE`). *)
WholePages(units) == units \div 2

(* The length of a segment file, in half pages, when it exists. *)
SegmentUnits(segno) ==
    LET past == len - 2 * FirstPage(segno)
    IN  IF past <= 0 THEN 0 ELSE LeastOf(past, 2 * PagesPerSegment)

Exists(segno) == segno < nseg

-----------------------------------------------------------------------------
(* PostgreSQL, the writer: outside the repository, seen only through the   *)
(* files.                                                                  *)

Observe ==
    /\ lo' = LeastOf(lo, WholePages(len'))
    /\ hi' = GreatestOf(hi, WholePages(len'))

(* Half a page more of the last segment becomes visible. *)
ExtendFile ==
    /\ len < MaxUnits
    /\ len < 2 * FirstPage(nseg)
    /\ len' = len + 1
    /\ Observe
    /\ UNCHANGED nseg

(* Every segment is full: the next segment file is created, empty. *)
CreateSegment ==
    /\ nseg > 0
    /\ len < MaxUnits
    /\ len = 2 * FirstPage(nseg)
    /\ nseg' = nseg + 1
    /\ UNCHANGED <<len, lo, hi>>

(* VACUUM gives back trailing pages; emptied segments stay, with length 0. *)
TruncateFile ==
    /\ \E pages \in 0 .. WholePages(len) :
          /\ 2 * pages < len
          /\ len' = 2 * pages
    /\ Observe
    /\ UNCHANGED nseg

(* The relation is dropped or rewritten: its files are truncated and       *)
(* removed.  A descriptor that is still open reads end of file.            *)
UnlinkFile ==
    /\ nseg > 0
    /\ len' = 0
    /\ nseg' = 0
    /\ Observe

Writer == ExtendFile \/ CreateSegment \/ TruncateFile \/ UnlinkFile

FileInit ==
    /\ len \in 0 .. MaxUnits
    /\ nseg \in 1 .. 1 + MaxUnits \div (2 * PagesPerSegment)
    /\ len <= 2 * FirstPage(nseg)
    /\ lo = WholePages(len)
    /\ hi = WholePages(len)

FileTypeOK ==
    /\ len \in Nat
    /\ nseg \in Nat
    /\ lo \in Nat
    /\ hi \in Nat

(* The data fits in the segment files that exist, and the present size is  *)
(* within the recorded range.                                              *)
FileInv ==
    /\ len <= 2 * FirstPage(nseg)
    /\ lo <= WholePages(len)
    /\ WholePages(len) <= hi
=============================================================================
