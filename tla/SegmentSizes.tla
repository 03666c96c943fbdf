---------------------------- MODULE SegmentSizes ----------------------------
(***************************************************************************)
(* TableFileReader::segment_sizes and num_pages (src/src/file/reader.rs):  *)
(* the size of a relation is found by asking the file system for one       *)
(* segment after the other, while PostgreSQL may extend, truncate or drop  *)
(* the relation between two of the questions.                              *)
(***************************************************************************)
EXTENDS SegmentFiles, Sequences

CONSTANT MetadataErrors    \* TRUE when metadata() may fail on a file that exists
ASSUME MetadataAssumption == MetadataErrors \in BOOLEAN

VARIABLES
    segno,     \* the segment to ask about next
    sizes,     \* SegmentSize.pages of each segment pushed so far
    total,     \* the sum of sizes, which num_pages returns
    answer     \* "none" while walking, then "ok" or "err"

walkVars == <<segno, sizes, total, answer>>
allWalkVars == <<fileVars, walkVars>>

WalkInit ==
    /\ FileInit
    /\ segno = 0
    /\ sizes = <<>>
    /\ total = 0
    /\ answer = "none"

(* Mutant: the walk stops at a full segment, too. *)
SegmentFoundStops ==
    /\ answer = "none"
    /\ Exists(segno)
    /\ LET pages == WholePages(SegmentUnits(segno))
       IN  /\ sizes' = Append(sizes, pages)
           /\ total' = total + pages
           /\ answer' = "ok"
           /\ UNCHANGED segno

(* Mutant: the walk does not stop at a partial segment. *)
SegmentFoundGoesOn ==
    /\ answer = "none"
    /\ Exists(segno)
    /\ LET pages == WholePages(SegmentUnits(segno))
       IN  /\ sizes' = Append(sizes, pages)
           /\ total' = total + pages
           /\ segno' = segno + 1
           /\ UNCHANGED answer

(* Mutant: every segment is counted as full. *)
SegmentFoundCountsFull ==
    /\ answer = "none"
    /\ Exists(segno)
    /\ LET pages == WholePages(SegmentUnits(segno))
       IN  /\ sizes' = Append(sizes, pages)
           /\ total' = total + PagesPerSegment
           /\ IF pages < PagesPerSegment
                THEN answer' = "ok" /\ UNCHANGED segno
                ELSE segno' = segno + 1 /\ UNCHANGED answer

(* metadata() finds the segment: push its size, stop at a partial one. *)
SegmentFound ==
    /\ answer = "none"
    /\ Exists(segno)
    /\ LET pages == WholePages(SegmentUnits(segno))
       IN  /\ sizes' = Append(sizes, pages)
           /\ total' = total + pages
           /\ IF pages < PagesPerSegment
                THEN answer' = "ok" /\ UNCHANGED segno
                ELSE segno' = segno + 1 /\ UNCHANGED answer

(* Mutant: NotFound is tried again. *)
SegmentMissingRetried ==
    /\ answer = "none"
    /\ ~Exists(segno)
    /\ UNCHANGED walkVars

(* NotFound ends the walk. *)
SegmentMissing ==
    /\ answer = "none"
    /\ ~Exists(segno)
    /\ answer' = "ok"
    /\ UNCHANGED <<segno, sizes, total>>

(* Any other error of metadata() is returned to the caller. *)
SegmentUnreadable ==
    /\ answer = "none"
    /\ MetadataErrors
    /\ answer' = "err"
    /\ UNCHANGED <<segno, sizes, total>>

Walk == SegmentFound \/ SegmentMissing \/ SegmentUnreadable

WalkNext ==
    \/ Walk /\ UNCHANGED fileVars
    \/ Writer /\ UNCHANGED walkVars

WalkSpec == WalkInit /\ [][WalkNext]_allWalkVars

(* metadata() returns; an error is possible but never promised. *)
WalkFairSpec == WalkSpec /\ WF_allWalkVars((SegmentFound \/ SegmentMissing) /\ UNCHANGED fileVars)

-----------------------------------------------------------------------------
(* The types of the variables. *)
WalkTypeOK ==
    /\ FileTypeOK
    /\ segno \in Nat
    /\ sizes \in Seq(Nat)
    /\ total \in Nat
    /\ answer \in {"none", "ok", "err"}

(* num_pages is a size the relation did have, or a size between two it had *)
(* during the walk: never more pages than ever existed, and never fewer    *)
(* than existed all the time, although no two segments are looked at at    *)
(* the same moment.                                                        *)
SizeWasReal == answer = "ok" => lo <= total /\ total <= hi

(* Every segment reported but the last one is full, the last one is at     *)
(* most full, and the total is the sum of the sizes, as                    *)
(* test_table_segment_sizes expects of a quiet relation.                   *)
FullButLast ==
    /\ \A i \in 1 .. Len(sizes) : sizes[i] <= PagesPerSegment
    /\ \A i \in 1 .. Len(sizes) - 1 : sizes[i] = PagesPerSegment
    /\ sizes # <<>> =>
         total = FirstPage(Len(sizes) - 1) + sizes[Len(sizes)]

(* The walk ends although the relation may be growing. *)
WalkEnds == <>(answer # "none")

(* The inductive invariant: while walking, every segment behind was full   *)
(* at the moment it was looked at.                                         *)
WalkInv ==
    /\ WalkTypeOK
    /\ FileInv
    /\ answer = "none" =>
         /\ Len(sizes) = segno
         /\ total = FirstPage(segno)
         /\ total <= hi
    /\ sizes = <<>> => total = 0
    /\ FullButLast
    /\ SizeWasReal
=============================================================================
