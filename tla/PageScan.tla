------------------------------ MODULE PageScan ------------------------------
(***************************************************************************)
(* What a scan of a relation promises its caller, whichever of the readers *)
(* of src/src/file/reader.rs serves it: pages arrive one by one, in order, *)
(* from `start` on, none twice and none left out; no page is delivered     *)
(* that never was complete on disk or that lies outside the requested      *)
(* range; and the scan ends only when every page of the range that existed *)
(* during the whole scan has been delivered, unless it reports a failure.  *)
(***************************************************************************)
EXTENDS Integers, Sequences

VARIABLES
    lo, hi,            \* fewest and most whole pages on disk since the start
    start,             \* first page asked for
    max_page_index,    \* one past the last page asked for, or NoMax
    out,               \* the pages delivered so far
    status             \* "open", "ended" or "failed"

scanVars == <<lo, hi, start, max_page_index, out, status>>

NoMax == -1

(* One past the last page asked for, in a relation of n pages. *)
LimitOf(max, n) == IF max = NoMax \/ n <= max THEN n ELSE max

NextOut == start + Len(out)

ScanInit ==
    /\ lo \in Nat
    /\ hi = lo
    /\ start \in Nat
    /\ max_page_index \in Nat \cup {NoMax}
    /\ out = <<>>
    /\ status = "open"

(* The relation shrinks or grows under the scan. *)
Resize ==
    /\ lo' <= lo
    /\ hi' >= hi
    /\ UNCHANGED <<start, max_page_index, out, status>>

Deliver ==
    /\ status = "open"
    /\ NextOut < LimitOf(max_page_index, hi)
    /\ out' = Append(out, NextOut)
    /\ UNCHANGED <<lo, hi, start, max_page_index, status>>

Finish ==
    /\ status = "open"
    /\ NextOut >= LimitOf(max_page_index, lo)
    /\ status' = "ended"
    /\ UNCHANGED <<lo, hi, start, max_page_index, out>>

Fail ==
    /\ status = "open"
    /\ status' = "failed"
    /\ UNCHANGED <<lo, hi, start, max_page_index, out>>

ScanNext == Resize \/ Deliver \/ Finish \/ Fail

ScanSpec == ScanInit /\ [][ScanNext]_scanVars
=============================================================================
