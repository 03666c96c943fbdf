----------------------------- MODULE FillBuffer -----------------------------
(***************************************************************************)
(* RecordBatchStream::fill_buffer and, inside it,                          *)
(* TableFileReader::read_pages_bulk (src/src/file/reader.rs): one batch of *)
(* pages is read with an open and a pread per segment, converted, and      *)
(* appended to the stream's buffer.  The writer may act between any two    *)
(* system calls.  BatchStream (the Iterator) and AsyncStream (next_batch)  *)
(* both drive this module.                                                 *)
(*                                                                         *)
(* A page is represented by its block number; `bulk` holds the blocks that *)
(* were really read, computed from the segment and the offset used, not    *)
(* from the page that was meant.                                           *)
(***************************************************************************)
EXTENDS SegmentFiles, Sequences

CONSTANTS
    DefaultPagesPerBatch,  \* DEFAULT_PAGES_PER_BATCH (128 in the code)
    BatchSizes,            \* arguments with_pages_per_batch may get
    Ranges,                \* <<start, end>> arguments with_page_range may get
    IoErrors,              \* which system calls may fail: {"open", "pread"}
    BadPages               \* pages whose conversion panics

ASSUME StreamAssumption ==
    /\ DefaultPagesPerBatch \in Nat \ {0}
    /\ BatchSizes \subseteq Nat
    /\ Ranges \subseteq Nat \X Nat
    /\ IoErrors \subseteq {"open", "pread"}
    /\ BadPages \subseteq Nat

VARIABLES
    pages_per_batch,
    start,             \* history: the first page asked for
    next_page_index,
    max_page_index,    \* NoMax stands for None
    buffer,            \* converted pages not yet handed out
    exhausted,
    cache,             \* segment_cache: the segment it holds open, or NoSegment
    page_idx, end_page,\* locals of read_pages_bulk
    bulk,              \* the pages read_pages_bulk has read so far
    at                 \* where control is: "idle", "bulk", "convert", "filled", "panicked"

fillVars == <<pages_per_batch, start, next_page_index, max_page_index, buffer,
              exhausted, cache, page_idx, end_page, bulk, at>>
configVars == <<pages_per_batch, start, max_page_index>>

NoMax == -1
NoSegment == -1

-----------------------------------------------------------------------------
(* RecordBatchStream::new and the builder calls made before the first use. *)

with_pages_per_batch(n) == IF n = 0 THEN DefaultPagesPerBatch ELSE n

FillInit ==
    /\ pages_per_batch \in {DefaultPagesPerBatch}
                           \cup {with_pages_per_batch(n) : n \in BatchSizes}
    /\ \/ next_page_index = 0 /\ max_page_index = NoMax
       \/ \E range \in Ranges : /\ next_page_index = range[1]
                                /\ max_page_index = range[2]
    /\ start = next_page_index
    /\ buffer = <<>>
    /\ exhausted = FALSE
    /\ cache = NoSegment
    /\ page_idx = 0
    /\ end_page = 0
    /\ bulk = <<>>
    /\ at = "idle"

-----------------------------------------------------------------------------
(* Mutant: the end of the page range is forgotten. *)
WantWholeBatch == pages_per_batch

(* How many pages the next batch should hold. *)
Want ==
    IF max_page_index = NoMax THEN pages_per_batch
    ELSE IF max_page_index <= next_page_index THEN 0
    ELSE LeastOf(pages_per_batch, max_page_index - next_page_index)

(* fill_buffer up to its call of read_pages_bulk. *)
FillEnter ==
    /\ at = "idle"
    /\ IF exhausted \/ Want = 0
         THEN /\ exhausted' = TRUE
              /\ at' = "filled"
              /\ UNCHANGED <<page_idx, end_page, bulk>>
         ELSE /\ at' = "bulk"
              /\ page_idx' = next_page_index
              /\ end_page' = next_page_index + Want
              /\ bulk' = <<>>
              /\ UNCHANGED exhausted
    /\ UNCHANGED <<configVars, next_page_index, buffer, cache>>

(* The cached descriptor is for another segment: open the right one. *)
BulkOpen ==
    /\ at = "bulk"
    /\ cache # segment_num(page_idx)
    /\ Exists(segment_num(page_idx))
    /\ cache' = segment_num(page_idx)
    /\ UNCHANGED <<configVars, next_page_index, buffer, exhausted, page_idx,
                   end_page, bulk, at>>

(* The open fails, whatever the error: the loop is left. *)
BulkOpenFails ==
    /\ at = "bulk"
    /\ cache # segment_num(page_idx)
    /\ ~Exists(segment_num(page_idx)) \/ "open" \in IoErrors
    /\ at' = "convert"
    /\ UNCHANGED <<configVars, next_page_index, buffer, exhausted, cache,
                   page_idx, end_page, bulk>>

(* Mutant: a read is not cut at the end of the segment. *)
PagesToReadPastSegment == end_page - page_idx

(* The pages asked of one pread: the rest of the batch or of the segment. *)
PagesToRead ==
    LeastOf(end_page - page_idx, PagesPerSegment - page_in_segment(page_idx))

(* What pread returns, in half pages, for a read at the page's offset. *)
UnitsRead ==
    LET left == SegmentUnits(cache) - 2 * page_in_segment(page_idx)
    IN  IF left <= 0 THEN 0 ELSE LeastOf(left, 2 * PagesToRead)

(* The pages at a place of a segment. *)
PagesAt(segno, offset, n) == [i \in 1 .. n |-> FirstPage(segno) + offset + (i - 1)]

(* Mutant: the offset is computed once, before the loop over segments. *)
BulkPreadStaleOffset ==
    /\ at = "bulk"
    /\ cache = segment_num(page_idx)
    /\ LET pages_read == WholePages(UnitsRead)
       IN  /\ bulk' = bulk \o PagesAt(cache, page_in_segment(next_page_index), pages_read)
           /\ page_idx' = page_idx + pages_read
           /\ at' = IF UnitsRead < 2 * PagesToRead \/ page_idx + pages_read = end_page
                      THEN "convert" ELSE "bulk"
    /\ UNCHANGED <<configVars, next_page_index, buffer, exhausted, cache, end_page>>

(* Mutant: a page that was read in part is taken for a page. *)
BulkPreadTornPage ==
    /\ at = "bulk"
    /\ cache = segment_num(page_idx)
    /\ LET pages_read == WholePages(UnitsRead + 1)
       IN  /\ bulk' = bulk \o PagesAt(cache, page_in_segment(page_idx), pages_read)
           /\ page_idx' = page_idx + pages_read
           /\ at' = IF UnitsRead < 2 * PagesToRead \/ page_idx + pages_read = end_page
                      THEN "convert" ELSE "bulk"
    /\ UNCHANGED <<configVars, next_page_index, buffer, exhausted, cache, end_page>>

(* Mutant: the loop is not left after a short read. *)
BulkPreadGoesOn ==
    /\ at = "bulk"
    /\ cache = segment_num(page_idx)
    /\ LET pages_read == WholePages(UnitsRead)
       IN  /\ bulk' = bulk \o PagesAt(cache, page_in_segment(page_idx), pages_read)
           /\ page_idx' = page_idx + pages_read
           /\ at' = IF page_idx + pages_read = end_page THEN "convert" ELSE "bulk"
    /\ UNCHANGED <<configVars, next_page_index, buffer, exhausted, cache, end_page>>

(* One pread from the cached descriptor, and the loop's exit conditions. *)
BulkPread ==
    /\ at = "bulk"
    /\ cache = segment_num(page_idx)
    /\ LET pages_read == WholePages(UnitsRead)
       IN  /\ bulk' = bulk \o PagesAt(cache, page_in_segment(page_idx), pages_read)
           /\ page_idx' = page_idx + pages_read
           /\ at' = IF UnitsRead < 2 * PagesToRead \/ page_idx + pages_read = end_page
                      THEN "convert" ELSE "bulk"
    /\ UNCHANGED <<configVars, next_page_index, buffer, exhausted, cache, end_page>>

(* pread returns an error: taken for the end of the file. *)
BulkPreadFails ==
    /\ at = "bulk"
    /\ cache = segment_num(page_idx)
    /\ "pread" \in IoErrors
    /\ at' = "convert"
    /\ UNCHANGED <<configVars, next_page_index, buffer, exhausted, cache,
                   page_idx, end_page, bulk>>

(* The read loop is left at a page that is on disk. *)
PageMissed ==
    /\ at = "bulk" /\ at' = "convert" /\ page_idx' = page_idx
    /\ 2 * (page_in_segment(page_idx) + 1) <= SegmentUnits(segment_num(page_idx))

(* The rest of fill_buffer: convert the pages read and move on. *)
Convertible(pages) == \A i \in 1 .. Len(pages) : pages[i] \notin BadPages

(* Mutant: a full batch, too, is taken for the last one. *)
FillConvertStopsEarly ==
    /\ at = "convert"
    /\ Convertible(bulk)
    /\ buffer' = buffer \o bulk
    /\ next_page_index' = next_page_index + Len(bulk)
    /\ exhausted' = (Len(bulk) <= Want)
    /\ at' = "filled"
    /\ UNCHANGED <<configVars, cache, page_idx, end_page, bulk>>

FillConvert ==
    /\ at = "convert"
    /\ Convertible(bulk)
    /\ buffer' = buffer \o bulk
    /\ next_page_index' = next_page_index + Len(bulk)
    /\ exhausted' = (Len(bulk) < Want)
    /\ at' = "filled"
    /\ UNCHANGED <<configVars, cache, page_idx, end_page, bulk>>

(* A page that cannot be converted: `batch.unwrap()` panics with the pages *)
(* before it already in the buffer.                                        *)
FillPanics ==
    /\ at = "convert"
    /\ \E i \in 1 .. Len(bulk) :
          /\ bulk[i] \in BadPages
          /\ Convertible(SubSeq(bulk, 1, i - 1))
          /\ buffer' = buffer \o SubSeq(bulk, 1, i - 1)
    /\ at' = "panicked"
    /\ UNCHANGED <<configVars, next_page_index, exhausted, cache, page_idx,
                   end_page, bulk>>

(* Everything fill_buffer does once it has been entered. *)
FillStep ==
    \/ BulkOpen \/ BulkOpenFails \/ BulkPread \/ BulkPreadFails
    \/ FillConvert \/ FillPanics

(* A step in which no system call fails but an open of a missing segment. *)
FillWorks ==
    \/ BulkOpen \/ BulkPread \/ FillConvert \/ FillPanics
    \/ BulkOpenFails /\ ~Exists(segment_num(page_idx))

FillTypeOK ==
    /\ pages_per_batch \in Nat \ {0}
    /\ start \in Nat
    /\ next_page_index \in Nat
    /\ max_page_index \in Nat \cup {NoMax}
    /\ buffer \in Seq(Nat)
    /\ exhausted \in BOOLEAN
    /\ cache \in Nat \cup {NoSegment}
    /\ page_idx \in Nat
    /\ end_page \in Nat
    /\ bulk \in Seq(Nat)
    /\ at \in {"idle", "bulk", "convert", "filled", "panicked"}
=============================================================================
