---------------------------- MODULE BatchStream ----------------------------
(***************************************************************************)
(* RecordBatchStream as an Iterator (src/src/file/reader.rs): next() hands *)
(* out buffered pages first and calls fill_buffer when there are none.     *)
(* `out` records the pages handed out and `ended` that None was returned.  *)
(* A failed open or pread only ends the batch, as the end of the relation  *)
(* does; `faulted` records that one struck a page that was on disk.        *)
(***************************************************************************)
EXTENDS FillBuffer

VARIABLES
    out, ended,        \* pages handed out; None was returned
    faulted            \* history: a read failed on a page that was on disk

vars == <<fileVars, fillVars, out, ended, faulted>>

Init ==
    /\ FileInit
    /\ FillInit
    /\ out = <<>>
    /\ ended = FALSE
    /\ faulted = FALSE

(* buffer.pop_front() as the value of a call to next(). *)
PopFront ==
    IF buffer # <<>>
      THEN /\ out' = Append(out, Head(buffer))
           /\ buffer' = Tail(buffer)
           /\ UNCHANGED ended
      ELSE /\ ended' = TRUE
           /\ UNCHANGED <<out, buffer>>

(* next() answered from the buffer, or None from an exhausted stream. *)
NextFromBuffer ==
    /\ at = "idle"
    /\ buffer # <<>> \/ exhausted
    /\ PopFront
    /\ UNCHANGED <<configVars, next_page_index, exhausted, cache, page_idx,
                   end_page, bulk, at, faulted>>

(* next() with nothing buffered calls fill_buffer ... *)
NextFills ==
    /\ buffer = <<>>
    /\ ~exhausted
    /\ FillEnter
    /\ UNCHANGED <<out, ended, faulted>>

(* ... which reads and converts a batch ... *)
NextReads ==
    /\ FillStep
    /\ faulted' = (faulted \/ PageMissed)
    /\ UNCHANGED <<out, ended>>

(* ... and answers with the first page of the new batch, if any. *)
NextReturns ==
    /\ at = "filled"
    /\ at' = "idle"
    /\ PopFront
    /\ UNCHANGED <<configVars, next_page_index, exhausted, cache, page_idx,
                   end_page, bulk, faulted>>

Reader ==
    /\ NextFromBuffer \/ NextFills \/ NextReads \/ NextReturns
    /\ UNCHANGED fileVars

Next ==
    \/ Reader
    \/ Writer /\ UNCHANGED <<fillVars, out, ended, faulted>>

Spec == Init /\ [][Next]_vars

(* The caller goes on asking until it gets None, as read_all_to_batches    *)
(* does; nothing is assumed of the writer, and no system call has to fail. *)
ReaderWorks ==
    /\ NextFromBuffer \/ NextFills \/ (NextReads /\ FillWorks) \/ NextReturns
    /\ UNCHANGED fileVars

FairSpec == Spec /\ WF_vars(ReaderWorks)

-----------------------------------------------------------------------------
(* A scan ended by a failed system call has failed, though next() says     *)
(* None.                                                                   *)
status ==
    IF at = "panicked" \/ (ended /\ faulted) THEN "failed"
    ELSE IF ended THEN "ended" ELSE "open"

Scan == INSTANCE PageScan

(* The types of the variables. *)
TypeOK ==
    /\ FileTypeOK
    /\ FillTypeOK
    /\ out \in Seq(Nat)
    /\ {ended, faulted} \subseteq BOOLEAN

(* Iterator::next hands out pages start, start+1, start+2, ... with no     *)
(* page skipped, repeated or out of order, although the pages came from    *)
(* several batches, segments and file sizes.                               *)
InOrder == out = Run(start, Len(out))

(* Every page handed out was complete on disk at some moment of the scan   *)
(* and lies in the range with_page_range asked for: a torn page is never   *)
(* converted and a partition never reads its neighbour's pages.            *)
OnlyRequestedPages ==
    \A i \in 1 .. Len(out) : out[i] < Scan!LimitOf(max_page_index, hi)

(* When next() has returned None, every page of the range that was on disk *)
(* during the whole scan has been handed out: a short read, a missing      *)
(* segment or a full last segment never ends the scan too early.  The one  *)
(* exception is an open or a pread that failed on a page that was there,   *)
(* in any batch of the scan: next() answers that, too, with None.          *)
Complete ==
    ended /\ ~faulted => start + Len(out) >= Scan!LimitOf(max_page_index, lo)

(* The stream implements the scan that PageScan promises, whatever system  *)
(* calls fail: None before the last page comes only after a read that      *)
(* failed on a page, and what was handed out until then has no gap.        *)
ImplementsScan == Scan!ScanSpec

(* A caller that goes on asking gets None or a panic, however the writer   *)
(* resizes the relation meanwhile.                                         *)
Terminates == <>(ended \/ at = "panicked")

-----------------------------------------------------------------------------
(* The invariant that makes the above hold at every step of fill_buffer.   *)

(* What has been handed out, what is buffered and what is being read are   *)
(* adjacent runs of pages.                                                 *)
Adjacent ==
    /\ out = Run(start, Len(out))
    /\ at # "panicked" =>
         /\ buffer = Run(start + Len(out), Len(buffer))
         /\ next_page_index = start + Len(out) + Len(buffer)
    /\ at \in {"bulk", "convert"} =>
         /\ buffer = <<>>
         /\ bulk = Run(next_page_index, Len(bulk))
         /\ page_idx = next_page_index + Len(bulk)

(* A batch in progress is within what was wanted and what was on disk. *)
WithinBatch ==
    /\ at \in {"bulk", "convert"} =>
         /\ ~exhausted
         /\ Want > 0
         /\ end_page = next_page_index + Want
         /\ page_idx <= end_page
    /\ at = "bulk" => page_idx < end_page
    /\ at # "panicked" /\ next_page_index > start
          => next_page_index <= Scan!LimitOf(max_page_index, hi)
    /\ at \in {"bulk", "convert"} /\ bulk # <<>> => page_idx <= hi

(* As long as no read failed, reading stopped short only where the         *)
(* relation did; a batch without a page always exhausts the stream.        *)
ShortOnlyAtEnd ==
    /\ ~faulted =>
         /\ at = "convert" /\ page_idx < end_page => page_idx >= lo
         /\ at # "panicked" /\ exhausted
               => next_page_index >= Scan!LimitOf(max_page_index, lo)
    /\ at = "filled" /\ buffer = <<>> => exhausted
    /\ ended => exhausted /\ buffer = <<>> /\ at = "idle"

(* The inductive invariant of the stream, with any opens and preads        *)
(* failing.                                                                *)
StreamInv ==
    /\ TypeOK
    /\ FileInv
    /\ Adjacent
    /\ WithinBatch
    /\ OnlyRequestedPages
    /\ ShortOnlyAtEnd
=============================================================================
