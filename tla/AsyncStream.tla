---------------------------- MODULE AsyncStream ----------------------------
(***************************************************************************)
(* AsyncBatchStream (src/src/file/reader.rs): next_batch() moves the       *)
(* synchronous stream into a blocking task that runs fill_buffer once, and *)
(* takes it back from the task's result.  The task may panic, and a caller *)
(* may drop the future it is awaiting (a timeout, a select): the task then *)
(* runs on, and its result goes nowhere.                                   *)
(*                                                                         *)
(* The branch of next_batch for an error returned by fill_buffer is left   *)
(* out: read_pages_bulk and parse_bytes never return one for whole pages.  *)
(***************************************************************************)
EXTENDS FillBuffer

CONSTANT Cancellation      \* TRUE when callers may drop a pending future
ASSUME CancellationAssumption == Cancellation \in BOOLEAN

VARIABLES
    inner,         \* where the synchronous stream is: "held" in the struct
                   \* (Some), or "task", "detached", "dropped" (None)
    batches,       \* self.buffer: batches taken over from the task
    done,          \* self.exhausted
    call,          \* "none" or "await": is a next_batch call pending?
    out, ended,    \* pages handed out; None was returned
    failed,        \* an Err was returned
    faulted        \* history: a read failed on a page that was on disk

asyncVars == <<inner, batches, done, call, out, ended, failed, faulted>>
vars == <<fileVars, fillVars, asyncVars>>

Init ==
    /\ FileInit
    /\ FillInit
    /\ inner = "held"
    /\ batches = <<>>
    /\ done = FALSE
    /\ call = "none"
    /\ out = <<>>
    /\ ended = FALSE
    /\ failed = FALSE
    /\ faulted = FALSE

(* next_batch() answered at once: a buffered batch, or None because the    *)
(* stream is exhausted or is not there to take.                            *)
NextBatchAtOnce ==
    /\ call = "none"
    /\ IF batches # <<>>
         THEN /\ out' = Append(out, Head(batches))
              /\ batches' = Tail(batches)
              /\ UNCHANGED ended
         ELSE /\ done \/ inner # "held"
              /\ ended' = TRUE
              /\ UNCHANGED <<out, batches>>
    /\ UNCHANGED <<fillVars, inner, done, call, failed, faulted>>

(* Mutant: the next batch is fetched while pages of the last are left. *)
NextBatchPrefetches ==
    /\ call = "none"
    /\ ~done
    /\ inner = "held"
    /\ inner' = "task"
    /\ call' = "await"
    /\ UNCHANGED <<fillVars, batches, done, out, ended, failed, faulted>>

(* next_batch() takes the stream and spawns the blocking task. *)
NextBatchSpawns ==
    /\ call = "none"
    /\ batches = <<>>
    /\ ~done
    /\ inner = "held"
    /\ inner' = "task"
    /\ call' = "await"
    /\ UNCHANGED <<fillVars, batches, done, out, ended, failed, faulted>>

(* The blocking task runs fill_buffer, awaited or not. *)
TaskRuns ==
    /\ inner \in {"task", "detached"}
    /\ FillEnter \/ FillStep
    /\ faulted' = (faulted \/ PageMissed)
    /\ UNCHANGED <<inner, batches, done, call, out, ended, failed>>

(* The task's result reaches the pending call. *)
AwaitReturns ==
    /\ call = "await"
    /\ at = "filled"
    /\ at' = "idle"
    /\ inner' = "held"
    /\ call' = "none"
    /\ done' = (exhausted /\ buffer = <<>>)
    /\ buffer' = <<>>
    /\ LET all == batches \o buffer
       IN  IF all # <<>>
             THEN /\ out' = Append(out, Head(all))
                  /\ batches' = Tail(all)
                  /\ UNCHANGED ended
             ELSE /\ ended' = TRUE
                  /\ UNCHANGED <<out, batches>>
    /\ UNCHANGED <<configVars, next_page_index, exhausted, cache, page_idx,
                   end_page, bulk, failed, faulted>>

(* Mutant: the join error is swallowed and the call made again. *)
AwaitRetriesPanic ==
    /\ call = "await"
    /\ at = "panicked"
    /\ inner' = "held"
    /\ call' = "none"
    /\ UNCHANGED <<fillVars, batches, done, out, ended, failed, faulted>>

(* The task panicked: the join error is returned, the stream is gone. *)
AwaitJoinError ==
    /\ call = "await"
    /\ at = "panicked"
    /\ inner' = "dropped"
    /\ call' = "none"
    /\ done' = TRUE
    /\ failed' = TRUE
    /\ UNCHANGED <<fillVars, batches, out, ended, faulted>>

(* The caller drops the pending future; a task cannot be recalled. *)
CallCancelled ==
    /\ Cancellation
    /\ call = "await"
    /\ inner' = "detached"
    /\ call' = "none"
    /\ UNCHANGED <<fillVars, batches, done, out, ended, failed, faulted>>

(* Mutant: the stream of a detached task is put back without its batch. *)
TaskPutBack ==
    /\ inner = "detached"
    /\ at \in {"filled", "panicked"}
    /\ inner' = "held"
    /\ at' = "idle"
    /\ buffer' = <<>>
    /\ UNCHANGED <<configVars, next_page_index, exhausted, cache, page_idx,
                   end_page, bulk, batches, done, call, out, ended, failed, faulted>>

(* A detached task ends: its result, the stream included, is dropped. *)
TaskAbandoned ==
    /\ inner = "detached"
    /\ at \in {"filled", "panicked"}
    /\ inner' = "dropped"
    /\ UNCHANGED <<fillVars, batches, done, call, out, ended, failed, faulted>>

Caller == NextBatchAtOnce \/ NextBatchSpawns
Runtime == TaskRuns \/ AwaitReturns \/ AwaitJoinError \/ TaskAbandoned

Next ==
    \/ (Caller \/ Runtime \/ CallCancelled) /\ UNCHANGED fileVars
    \/ Writer /\ UNCHANGED <<fillVars, asyncVars>>

Spec == Init /\ [][Next]_vars

(* The executor runs blocking tasks, in which no system call has to fail,  *)
(* and wakes the awaiting call; the caller goes on asking.                 *)
RuntimeWorks ==
    \/ TaskRuns /\ (FillEnter \/ FillWorks)
    \/ AwaitReturns \/ AwaitJoinError \/ TaskAbandoned

FairSpec ==
    /\ Spec
    /\ WF_vars(RuntimeWorks /\ UNCHANGED fileVars)
    /\ WF_vars(Caller /\ UNCHANGED fileVars)

-----------------------------------------------------------------------------
(* A caller that drops a call gives up the scan, and so does a failed      *)
(* system call, though next_batch says None: see the README.               *)
status ==
    IF failed \/ inner \in {"detached", "dropped"} \/ (ended /\ faulted) THEN "failed"
    ELSE IF ended THEN "ended" ELSE "open"

Scan == INSTANCE PageScan

(* next_batch keeps the promise of a scan whatever calls are dropped and   *)
(* whatever system calls fail: the pages a task converted are handed out   *)
(* in order over the following calls, a batch that is lost ends the stream *)
(* and never leaves a gap in it, None comes before the last page only      *)
(* after a dropped call or a failed read, and a panic is reported first.   *)
ImplementsScan == Scan!ScanSpec

(* While a batch is being handed out no task runs, so pages of two batches *)
(* are never mixed, and at most one batch is in memory: what is buffered   *)
(* in the wrapper plus what a task holds is at most pages_per_batch pages. *)
OneBatchInMemory ==
    /\ batches # <<>> => inner \notin {"task", "detached"}
    /\ Len(batches) + Len(buffer) <= pages_per_batch

(* A caller that goes on asking gets None or an error. *)
Terminates == <>(ended \/ failed)

(* Comment on AsyncBatchStream::inner: "`None` while an in-flight blocking *)
(* task owns it."  An unfinished stream is away from the struct only while *)
(* a task is running with it.                                              *)
InnerNoneWhileInFlight == inner # "held" /\ ~done => inner \in {"task", "detached"}

-----------------------------------------------------------------------------
(* The invariant that makes the above hold at every step of a task.        *)

AsyncTypeOK ==
    /\ FileTypeOK
    /\ FillTypeOK
    /\ inner \in {"held", "task", "detached", "dropped"}
    /\ call \in {"none", "await"}
    /\ batches \in Seq(Nat) /\ out \in Seq(Nat)
    /\ {done, ended, failed, faulted} \subseteq BOOLEAN

(* Who owns the stream: the struct holds it only between two batches, a    *)
(* call awaits it while its task runs, a task is spawned only when all     *)
(* pages are handed out and more may come.  Only a stream that is done or  *)
(* lost answers None, and only a lost one an error.                        *)
Ownership ==
    /\ inner = "held" => at = "idle"
    /\ at = "idle" => buffer = <<>>
    /\ call = "await" <=> inner = "task"
    /\ inner # "held" => batches = <<>>
    /\ inner = "task" => ~done
    /\ inner = "held" /\ done => exhausted /\ batches = <<>>
    /\ ended /\ inner \in {"held", "task"} => done
    /\ failed => inner = "dropped"

(* The pages handed out, taken over from a task, converted by a task and   *)
(* being read are adjacent runs.                                           *)
AsyncAdjacent ==
    /\ batches = Run(start + Len(out), Len(batches))
    /\ at # "panicked" =>
         /\ buffer = Run(start + Len(out) + Len(batches), Len(buffer))
         /\ next_page_index = start + Len(out) + Len(batches) + Len(buffer)
    /\ at \in {"bulk", "convert"} =>
         /\ buffer = <<>>
         /\ bulk = Run(next_page_index, Len(bulk))
         /\ page_idx = next_page_index + Len(bulk)

(* A batch in progress is within what was wanted and what was on disk. *)
AsyncWithinBatch ==
    /\ at \in {"bulk", "convert"} =>
         /\ ~exhausted
         /\ Want > 0
         /\ end_page = next_page_index + Want
         /\ page_idx <= end_page
    /\ at = "bulk" => page_idx < end_page
    /\ at # "panicked" /\ next_page_index > start
          => next_page_index <= Scan!LimitOf(max_page_index, hi)
    /\ at \in {"bulk", "convert"} /\ bulk # <<>> => page_idx <= hi

(* As long as no read failed, reading stopped short only where the         *)
(* relation did; a batch without a page always exhausts the stream.        *)
AsyncShortAtEnd ==
    /\ ~faulted =>
         /\ at = "convert" /\ page_idx < end_page => page_idx >= lo
         /\ at # "panicked" /\ exhausted
               => next_page_index >= Scan!LimitOf(max_page_index, lo)
    /\ at = "filled" /\ buffer = <<>> => exhausted

(* The inductive invariant of the asynchronous stream, with any calls      *)
(* dropped, any reads failing and any pages unconvertible: the pages on    *)
(* their way to the caller have one owner at a time and leave no gap.      *)
AsyncInv ==
    /\ AsyncTypeOK
    /\ FileInv
    /\ Ownership
    /\ AsyncAdjacent
    /\ AsyncWithinBatch
    /\ AsyncShortAtEnd
    /\ OneBatchInMemory
=============================================================================
