------------------------- MODULE AsyncStreamProofs -------------------------
(***************************************************************************)
(* Proofs about AsyncBatchStream: whatever calls are dropped, whatever     *)
(* system calls fail and whatever pages panic, the stream has one owner,   *)
(* one batch is in memory and next_batch implements PageScan.              *)
(***************************************************************************)
EXTENDS AsyncStream, SegmentFilesProofs

(* How many pages a batch wants: none only when the range is used up. *)
LEMMA AsyncWantFacts ==
    ASSUME FillTypeOK, FileTypeOK
    PROVE  /\ Want \in Nat
           /\ Want <= pages_per_batch
           /\ Want = 0 => next_page_index >= Scan!LimitOf(max_page_index, lo)
           /\ max_page_index # NoMax /\ Want > 0 => next_page_index + Want <= max_page_index
    BY DEF FillTypeOK, FileTypeOK, Want, LeastOf, NoMax, Scan!LimitOf, Scan!NoMax

(* One pread reads whole pages from page_idx on, no further than the batch *)
(* and the relation reach, and it is short only at the relation's end.     *)
LEMMA AsyncPreadFacts ==
    ASSUME FileTypeOK, FileInv, FillTypeOK,
           cache = segment_num(page_idx), page_idx < end_page
    PROVE  LET n == WholePages(UnitsRead)
           IN  /\ n \in Nat
               /\ page_idx + n <= end_page
               /\ n > 0 => page_idx + n <= hi
               /\ UnitsRead < 2 * PagesToRead => page_idx + n >= lo
               /\ UnitsRead >= 2 * PagesToRead => n > 0
               /\ UnitsRead \in Int /\ PagesToRead \in Int
               /\ PagesAt(cache, page_in_segment(page_idx), n) = Run(page_idx, n)
<1> DEFINE p == page_in_segment(page_idx)
           base == FirstPage(cache)
           n == WholePages(UnitsRead)
<1>1. /\ page_idx \in Nat /\ end_page \in Nat
      /\ cache \in Nat /\ p \in 0 .. PagesPerSegment - 1 /\ base \in Nat
      /\ base + p = page_idx
    BY PageSplit DEF FillTypeOK
<1>2. PagesPerSegment \in Nat /\ PagesPerSegment > 0
    BY SegmentAssumption
<1>3. /\ PagesToRead \in Nat /\ PagesToRead > 0
      /\ PagesToRead <= end_page - page_idx /\ PagesToRead <= PagesPerSegment - p
    BY <1>1, <1>2 DEF PagesToRead, LeastOf
<1>4. /\ n \in Nat /\ n <= PagesToRead
      /\ n > 0 => page_idx + n <= hi
      /\ UnitsRead < 2 * PagesToRead => page_idx + n >= lo
      /\ UnitsRead >= 2 * PagesToRead => n > 0
    BY <1>1, <1>3, ReadFacts DEF UnitsRead
<1>5. UnitsRead \in Int
    <2>1. SegmentUnits(cache) \in Int
        BY <1>1, <1>2, SegmentLength
    <2> QED
        BY <1>1, <1>2, <1>3, <2>1 DEF UnitsRead, LeastOf
<1> HIDE DEF p, base, n
<1>6. PagesAt(cache, page_in_segment(page_idx), n) = Run(page_idx, n)
    <2>1. \A i \in 1 .. n : base + p + (i - 1) = page_idx + (i - 1)
        BY <1>1, <1>4
    <2> QED
        BY <2>1 DEF PagesAt, Run, base, p
<1>7. page_idx + n <= end_page
    BY <1>1, <1>3, <1>4
<1> QED
    BY <1>3, <1>4, <1>5, <1>6, <1>7 DEF n

(* The stream as it is handed to AsyncBatchStream::new. *)
LEMMA InitAsyncInv == Init => AsyncInv
<1> SUFFICES ASSUME Init PROVE AsyncInv
    OBVIOUS
<1>1. FileTypeOK /\ FileInv
    BY FileInitOK DEF Init
<1>2. pages_per_batch \in Nat \ {0}
    BY StreamAssumption DEF Init, FillInit, with_pages_per_batch
<1>3. next_page_index \in Nat /\ max_page_index \in Nat \cup {NoMax}
    <2>1. CASE next_page_index = 0 /\ max_page_index = NoMax
        BY <2>1
    <2>2. CASE \E range \in Ranges : next_page_index = range[1] /\ max_page_index = range[2]
        BY <2>2, StreamAssumption
    <2> QED
        BY <2>1, <2>2 DEF Init, FillInit
<1>4. /\ start = next_page_index /\ buffer = <<>> /\ exhausted = FALSE /\ cache = NoSegment
      /\ page_idx = 0 /\ end_page = 0 /\ bulk = <<>> /\ at = "idle"
      /\ inner = "held" /\ batches = <<>> /\ done = FALSE /\ call = "none"
      /\ out = <<>> /\ ended = FALSE /\ failed = FALSE /\ faulted = FALSE
    BY DEF Init, FillInit
<1>5. <<>> \in Seq(Nat) /\ Len(<<>>) = 0 /\ \A a \in Nat : Run(a, 0) = <<>>
    BY EmptySeq DEF Run
<1>6. FillTypeOK
    BY <1>2, <1>3, <1>4, <1>5 DEF FillTypeOK
<1>7. AsyncTypeOK
    BY <1>1, <1>4, <1>5, <1>6 DEF AsyncTypeOK
<1>8. AsyncAdjacent
    <2>1. start \in Nat /\ start + 0 = start /\ start + 0 + 0 = start
          /\ start + 0 + 0 + 0 = start
        BY <1>3, <1>4
    <2>2. batches = Run(start + Len(out), Len(batches))
        BY <1>4, <1>5, <2>1
    <2>3. buffer = Run(start + Len(out) + Len(batches), Len(buffer))
        BY <1>4, <1>5, <2>1
    <2>4. next_page_index = start + Len(out) + Len(batches) + Len(buffer)
        BY <1>4, <1>5, <2>1
    <2> QED
        BY <1>4, <2>2, <2>3, <2>4 DEF AsyncAdjacent
<1>9. AsyncWithinBatch /\ AsyncShortAtEnd /\ Ownership
    BY <1>3, <1>4 DEF AsyncWithinBatch, AsyncShortAtEnd, Ownership
<1>10. OneBatchInMemory
    BY <1>2, <1>4, <1>5 DEF OneBatchInMemory
<1> QED
    BY <1>1, <1>7, <1>8, <1>9, <1>10 DEF AsyncInv

(* A step that leaves the synchronous stream and the files alone keeps     *)
(* what the invariant says about them.                                     *)
LEMMA FillFrame ==
    ASSUME AsyncInv, UNCHANGED <<fillVars, fileVars, faulted>>
    PROVE  /\ FileTypeOK' /\ FillTypeOK' /\ FileInv'
           /\ AsyncWithinBatch' /\ AsyncShortAtEnd'
<1>1. /\ len' = len /\ nseg' = nseg /\ lo' = lo /\ hi' = hi /\ faulted' = faulted
      /\ pages_per_batch' = pages_per_batch /\ start' = start
      /\ next_page_index' = next_page_index /\ max_page_index' = max_page_index
      /\ buffer' = buffer /\ exhausted' = exhausted /\ cache' = cache
      /\ page_idx' = page_idx /\ end_page' = end_page /\ bulk' = bulk /\ at' = at
    BY DEF fillVars, fileVars
<1>2. FileTypeOK' /\ FillTypeOK'
    BY <1>1 DEF AsyncInv, AsyncTypeOK, FileTypeOK, FillTypeOK
<1>3. FileInv'
    BY <1>1 DEF AsyncInv, FileInv, FirstPage, WholePages
<1>4. AsyncWithinBatch'
    BY <1>1 DEF AsyncInv, AsyncWithinBatch, Want, LeastOf, Scan!LimitOf, Scan!NoMax
<1>5. AsyncShortAtEnd'
    BY <1>1 DEF AsyncInv, AsyncShortAtEnd, Scan!LimitOf, Scan!NoMax
<1> QED
    BY <1>2, <1>3, <1>4, <1>5

(* Handing out the first page of a run moves the boundary by one page. *)
LEMMA PopRun ==
    ASSUME NEW o \in Seq(Nat), NEW s \in Nat, NEW b \in Seq(Nat),
           b # <<>>, b = Run(s + Len(o), Len(b))
    PROVE  LET o2 == Append(o, Head(b))
               t == Tail(b)
           IN  /\ o2 \in Seq(Nat) /\ Len(o2) = Len(o) + 1
               /\ t \in Seq(Nat) /\ Len(t) = Len(b) - 1 /\ Len(b) > 0
               /\ t = Run(s + Len(o2), Len(t))
               /\ Head(b) = s + Len(o)
               /\ s + Len(o2) + Len(t) = s + Len(o) + Len(b)
<1> DEFINE a == s + Len(o)
           n == Len(b)
<1>1. a \in Nat /\ n \in Nat /\ n > 0 /\ Len(o) \in Nat
    BY EmptySeq
<1>2. /\ Head(b) = a /\ Tail(b) = Run(a + 1, n - 1)
      /\ Len(Tail(b)) = n - 1 /\ Tail(b) \in Seq(Nat)
    <2> HIDE DEF a, n
    <2>1. /\ Head(Run(a, n)) = a /\ Tail(Run(a, n)) = Run(a + 1, n - 1)
          /\ Len(Tail(Run(a, n))) = n - 1 /\ Tail(Run(a, n)) \in Seq(Nat)
        BY <1>1, RunHeadTail
    <2>2. b = Run(a, n)
        BY DEF a, n
    <2> QED
        BY <2>1, <2>2
<1>3. Append(o, Head(b)) \in Seq(Nat) /\ Len(Append(o, Head(b))) = Len(o) + 1
    BY <1>1, <1>2
<1>4. a + 1 = s + (Len(o) + 1) /\ s + (Len(o) + 1) + (n - 1) = s + Len(o) + n
    BY <1>1
<1> HIDE DEF n
<1> QED
    BY <1>1, <1>2, <1>3, <1>4 DEF n

(* next_batch answered at once, from the pages in hand or with None. *)
LEMMA AtOnceKeepsInv ==
    ASSUME AsyncInv, NextBatchAtOnce, UNCHANGED fileVars
    PROVE  AsyncInv'
<1>1. /\ AsyncTypeOK /\ FillTypeOK /\ Ownership /\ AsyncAdjacent /\ OneBatchInMemory
      /\ out \in Seq(Nat) /\ batches \in Seq(Nat) /\ start \in Nat /\ buffer \in Seq(Nat)
      /\ pages_per_batch \in Nat
    BY DEF AsyncInv, AsyncTypeOK, FillTypeOK
<1>2. /\ call = "none" /\ inner' = inner /\ done' = done /\ call' = call
      /\ failed' = failed /\ faulted' = faulted /\ UNCHANGED fillVars
      /\ pages_per_batch' = pages_per_batch /\ start' = start
      /\ next_page_index' = next_page_index
      /\ buffer' = buffer /\ exhausted' = exhausted
      /\ page_idx' = page_idx /\ bulk' = bulk /\ at' = at
    BY DEF NextBatchAtOnce, fillVars
<1>3. /\ FileTypeOK' /\ FillTypeOK' /\ FileInv' /\ AsyncWithinBatch' /\ AsyncShortAtEnd'
    BY <1>2, FillFrame
<1>4. CASE batches # <<>>
    <2>1. out' = Append(out, Head(batches)) /\ batches' = Tail(batches) /\ ended' = ended
        BY <1>4 DEF NextBatchAtOnce
    <2>2. batches = Run(start + Len(out), Len(batches))
        BY <1>1 DEF AsyncAdjacent
    <2>3. /\ out' \in Seq(Nat) /\ Len(out') = Len(out) + 1
          /\ batches' \in Seq(Nat) /\ Len(batches') = Len(batches) - 1 /\ Len(batches) > 0
          /\ batches' = Run(start + Len(out'), Len(batches'))
          /\ start + Len(out') + Len(batches') = start + Len(out) + Len(batches)
        BY <1>1, <1>4, <2>1, <2>2, PopRun, SMTT(30)
    <2>4. AsyncTypeOK'
        BY <1>1, <1>2, <1>3, <2>1, <2>3 DEF AsyncTypeOK
    <2>5. inner = "held"
        BY <1>1, <1>4 DEF Ownership
    <2>6. Ownership'
        BY <1>1, <1>2, <1>4, <2>1, <2>5 DEF Ownership
    <2>7. AsyncAdjacent'
        <3>1. at = "idle"
            BY <1>1, <2>5 DEF Ownership
        <3>2. buffer = Run(start + Len(out) + Len(batches), Len(buffer))
              /\ next_page_index = start + Len(out) + Len(batches) + Len(buffer)
            BY <1>1, <3>1 DEF AsyncAdjacent
        <3>3. buffer' = Run(start' + Len(out') + Len(batches'), Len(buffer'))
              /\ next_page_index' = start' + Len(out') + Len(batches') + Len(buffer')
            BY <1>2, <2>3, <3>2
        <3>4. batches' = Run(start' + Len(out'), Len(batches'))
            BY <1>2, <2>3
        <3> QED
            BY <1>2, <3>1, <3>3, <3>4 DEF AsyncAdjacent, Run
    <2>8. OneBatchInMemory'
        <3>1. Len(batches) + Len(buffer) <= pages_per_batch /\ Len(batches) \in Nat
              /\ Len(buffer) \in Nat
            BY <1>1 DEF OneBatchInMemory
        <3>2. Len(batches') + Len(buffer') <= pages_per_batch'
            BY <1>1, <1>2, <2>3, <3>1
        <3> QED
            BY <1>2, <2>5, <3>2 DEF OneBatchInMemory
    <2> QED
        BY <1>3, <2>4, <2>6, <2>7, <2>8 DEF AsyncInv
<1>5. CASE batches = <<>>
    <2>1. out' = out /\ batches' = batches /\ ended' = TRUE /\ (done \/ inner # "held")
        BY <1>5 DEF NextBatchAtOnce
    <2>2. AsyncTypeOK'
        BY <1>1, <1>2, <1>3, <2>1 DEF AsyncTypeOK
    <2>3. inner # "task"
        BY <1>1, <1>2 DEF Ownership
    <2>4. Ownership'
        BY <1>1, <1>2, <2>1, <2>3 DEF Ownership
    <2>5. AsyncAdjacent' /\ OneBatchInMemory'
        BY <1>1, <1>2, <2>1 DEF AsyncAdjacent, OneBatchInMemory, Run
    <2> QED
        BY <1>3, <2>2, <2>4, <2>5 DEF AsyncInv
<1> QED
    BY <1>4, <1>5

(* Steps that move the stream to another owner and nothing else: a task is *)
(* spawned, a call dropped, an abandoned or panicked task ends.            *)
LEMMA HandOverKeepsInv ==
    ASSUME AsyncInv, UNCHANGED fileVars,
           NextBatchSpawns \/ AwaitJoinError \/ CallCancelled \/ TaskAbandoned
    PROVE  AsyncInv'
<1>1. /\ AsyncTypeOK /\ Ownership /\ AsyncAdjacent /\ OneBatchInMemory
    BY DEF AsyncInv
<1>2. /\ UNCHANGED fillVars
      /\ batches' = batches /\ out' = out /\ ended' = ended /\ faulted' = faulted
      /\ pages_per_batch' = pages_per_batch /\ start' = start
      /\ next_page_index' = next_page_index
      /\ buffer' = buffer /\ exhausted' = exhausted
      /\ page_idx' = page_idx /\ bulk' = bulk /\ at' = at
    BY DEF NextBatchSpawns, AwaitJoinError, CallCancelled, TaskAbandoned, fillVars
<1>3. /\ FileTypeOK' /\ FillTypeOK' /\ FileInv' /\ AsyncWithinBatch' /\ AsyncShortAtEnd'
    BY <1>2, FillFrame
<1>4. AsyncTypeOK'
    BY <1>1, <1>2, <1>3
       DEF AsyncTypeOK, NextBatchSpawns, AwaitJoinError, CallCancelled, TaskAbandoned
<1>5. AsyncAdjacent'
    BY <1>1, <1>2 DEF AsyncAdjacent, Run
<1>6. batches = <<>> /\ Ownership'
    <2>1. CASE NextBatchSpawns
        BY <1>1, <1>2, <2>1 DEF Ownership, NextBatchSpawns, AsyncTypeOK
    <2>2. CASE AwaitJoinError
        BY <1>1, <1>2, <2>2 DEF Ownership, AwaitJoinError
    <2>3. CASE CallCancelled
        BY <1>1, <1>2, <2>3 DEF Ownership, CallCancelled
    <2>4. CASE TaskAbandoned
        BY <1>1, <1>2, <2>4 DEF Ownership, TaskAbandoned
    <2> QED
        BY <2>1, <2>2, <2>3, <2>4
<1>7. OneBatchInMemory'
    BY <1>1, <1>2, <1>6 DEF OneBatchInMemory
<1> QED
    BY <1>3, <1>4, <1>5, <1>6, <1>7 DEF AsyncInv

(* The result of an awaited task: its first page is handed out and the     *)
(* rest kept, or the scan is over.                                         *)
LEMMA AwaitReturnsKeepsInv ==
    ASSUME AsyncInv, AwaitReturns, UNCHANGED fileVars
    PROVE  AsyncInv'
<1>1. /\ AsyncTypeOK /\ FillTypeOK /\ FileTypeOK /\ FileInv
      /\ Ownership /\ AsyncAdjacent /\ AsyncWithinBatch /\ AsyncShortAtEnd /\ OneBatchInMemory
      /\ out \in Seq(Nat) /\ batches \in Seq(Nat) /\ start \in Nat /\ buffer \in Seq(Nat)
      /\ pages_per_batch \in Nat /\ exhausted \in BOOLEAN
    BY DEF AsyncInv, AsyncTypeOK, FillTypeOK
<1>2. /\ call = "await" /\ at = "filled" /\ at' = "idle" /\ inner' = "held" /\ call' = "none"
      /\ done' = (exhausted /\ buffer = <<>>) /\ buffer' = <<>>
      /\ failed' = failed /\ faulted' = faulted
      /\ pages_per_batch' = pages_per_batch /\ start' = start
      /\ max_page_index' = max_page_index
      /\ next_page_index' = next_page_index /\ exhausted' = exhausted /\ cache' = cache
      /\ page_idx' = page_idx /\ end_page' = end_page /\ bulk' = bulk
      /\ len' = len /\ nseg' = nseg /\ lo' = lo /\ hi' = hi
    BY DEF AwaitReturns, configVars, fileVars
<1>3. inner = "task" /\ batches = <<>> /\ done = FALSE /\ ended = FALSE /\ failed = FALSE
    BY <1>1, <1>2 DEF Ownership, AsyncTypeOK
<1>4. batches \o buffer = buffer
    BY <1>1, <1>3, ConcatEmptySeq
<1>5. <<>> \in Seq(Nat) /\ Len(<<>>) = 0 /\ \A a \in Nat : Run(a, 0) = <<>>
    BY EmptySeq DEF Run
<1>6. /\ buffer = Run(start + Len(out), Len(buffer))
      /\ next_page_index = start + Len(out) + Len(buffer)
      /\ Len(out) \in Nat /\ Len(buffer) \in Nat
    <2>1. /\ buffer = Run(start + Len(out) + 0, Len(buffer))
          /\ next_page_index = start + Len(out) + 0 + Len(buffer)
        BY <1>1, <1>2, <1>3, <1>5 DEF AsyncAdjacent
    <2>2. start + Len(out) + 0 = start + Len(out) /\ Len(out) \in Nat /\ Len(buffer) \in Nat
        BY <1>1
    <2> QED
        BY <2>1, <2>2
<1>7. FileTypeOK' /\ FillTypeOK' /\ FileInv'
    BY <1>1, <1>2, <1>5 DEF FileTypeOK, FillTypeOK, FileInv, FirstPage, WholePages
<1>8. AsyncWithinBatch' /\ AsyncShortAtEnd'
    BY <1>1, <1>2 DEF AsyncWithinBatch, AsyncShortAtEnd, Scan!LimitOf, Scan!NoMax
<1>9. Len(buffer) <= pages_per_batch
    <2>1. 0 + Len(buffer) <= pages_per_batch
        BY <1>1, <1>3, <1>5 DEF OneBatchInMemory
    <2> QED
        BY <1>6, <2>1
<1>10. CASE buffer # <<>>
    <2>1. out' = Append(out, Head(buffer)) /\ batches' = Tail(buffer) /\ ended' = ended
        BY <1>4, <1>10 DEF AwaitReturns
    <2>2. /\ out' \in Seq(Nat) /\ Len(out') = Len(out) + 1
          /\ batches' \in Seq(Nat) /\ Len(batches') = Len(buffer) - 1 /\ Len(buffer) > 0
          /\ batches' = Run(start + Len(out'), Len(batches'))
          /\ start + Len(out') + Len(batches') = start + Len(out) + Len(buffer)
        BY <1>1, <1>6, <1>10, <2>1, PopRun, SMTT(30)
    <2>3. done' = FALSE
        BY <1>2, <1>10
    <2>4. AsyncTypeOK'
        BY <1>1, <1>2, <1>7, <2>1, <2>2, <2>3 DEF AsyncTypeOK
    <2>5. Ownership'
        BY <1>2, <1>3, <2>1, <2>3 DEF Ownership
    <2>6. AsyncAdjacent'
        <3> DEFINE e == start' + Len(out') + Len(batches')
        <3>1. e = next_page_index /\ e \in Nat
            BY <1>1, <1>2, <1>6, <2>2
        <3> HIDE DEF e
        <3>2. e + 0 = e /\ Run(e, 0) = <<>>
            BY <1>5, <3>1
        <3>3. buffer' = Run(e, Len(buffer')) /\ next_page_index' = e + Len(buffer')
            BY <1>2, <1>5, <3>1, <3>2
        <3>4. batches' = Run(start' + Len(out'), Len(batches'))
            BY <1>2, <2>2
        <3> QED
            BY <1>2, <3>3, <3>4 DEF AsyncAdjacent, Run, e
    <2>7. OneBatchInMemory'
        <3>1. Len(batches') + 0 <= pages_per_batch
            BY <1>1, <1>6, <1>9, <2>2
        <3> QED
            BY <1>2, <1>5, <3>1 DEF OneBatchInMemory
    <2> QED
        BY <1>7, <1>8, <2>4, <2>5, <2>6, <2>7 DEF AsyncInv
<1>11. CASE buffer = <<>>
    <2>1. out' = out /\ batches' = <<>> /\ ended' = TRUE
        BY <1>3, <1>4, <1>11 DEF AwaitReturns
    <2>2. exhausted = TRUE
        BY <1>1, <1>2, <1>11 DEF AsyncShortAtEnd
    <2>3. done' = TRUE
        BY <1>2, <1>11, <2>2
    <2>4. AsyncTypeOK'
        BY <1>1, <1>2, <1>5, <1>7, <2>1, <2>3 DEF AsyncTypeOK
    <2>5. Ownership'
        BY <1>2, <1>3, <2>1, <2>2, <2>3 DEF Ownership
    <2>6. AsyncAdjacent'
        BY <1>1, <1>2, <1>3, <1>11, <2>1 DEF AsyncAdjacent, Run
    <2>7. OneBatchInMemory'
        BY <1>1, <1>2, <1>3, <1>11, <2>1 DEF OneBatchInMemory
    <2> QED
        BY <1>7, <1>8, <2>4, <2>5, <2>6, <2>7 DEF AsyncInv
<1> QED
    BY <1>10, <1>11

(* What a step of the task leaves alone, and what follows from that. *)
LEMMA TaskFrame ==
    ASSUME AsyncInv, TaskRuns, UNCHANGED fileVars
    PROVE  /\ inner \in {"task", "detached"} /\ batches = <<>>
           /\ at \in {"idle", "bulk", "convert"} /\ at' # "idle"
           /\ inner' = inner /\ batches' = <<>> /\ done' = done /\ call' = call
           /\ out' = out /\ ended' = ended /\ failed' = failed
           /\ pages_per_batch' = pages_per_batch /\ start' = start
           /\ max_page_index' = max_page_index
           /\ len' = len /\ nseg' = nseg /\ lo' = lo /\ hi' = hi
           /\ faulted' \in BOOLEAN /\ (faulted => faulted') /\ (PageMissed => faulted')
           /\ FileTypeOK' /\ FileInv' /\ Ownership'
<1>1. /\ AsyncTypeOK /\ FileTypeOK /\ FileInv /\ Ownership /\ faulted \in BOOLEAN
    BY DEF AsyncInv, AsyncTypeOK
<1>2. /\ inner \in {"task", "detached"}
      /\ inner' = inner /\ batches' = batches /\ done' = done /\ call' = call
      /\ out' = out /\ ended' = ended /\ failed' = failed
      /\ faulted' = (faulted \/ PageMissed)
    BY DEF TaskRuns
<1>3. /\ at \in {"idle", "bulk", "convert"} /\ at' # "idle"
      /\ pages_per_batch' = pages_per_batch /\ start' = start
      /\ max_page_index' = max_page_index
    BY DEF TaskRuns, FillEnter, FillStep, BulkOpen, BulkOpenFails, BulkPread, BulkPreadFails,
           FillConvert, FillPanics, configVars
<1>4. /\ len' = len /\ nseg' = nseg /\ lo' = lo /\ hi' = hi
    BY DEF fileVars
<1>5. batches = <<>>
    BY <1>1, <1>2 DEF Ownership
<1>6. PageMissed \in BOOLEAN
    BY DEF PageMissed
<1>7. FileTypeOK' /\ FileInv'
    BY <1>1, <1>4 DEF FileTypeOK, FileInv, FirstPage, WholePages
<1>8. Ownership'
    BY <1>1, <1>2, <1>3, <1>5 DEF Ownership
<1> QED
    BY <1>1, <1>2, <1>3, <1>4, <1>5, <1>6, <1>7, <1>8

(* The types of the wrapper's variables survive a step of the task. *)
LEMMA TaskTypes ==
    ASSUME AsyncInv, TaskRuns, UNCHANGED fileVars, FillTypeOK'
    PROVE  AsyncTypeOK'
<1>1. AsyncTypeOK
    BY DEF AsyncInv
<1>2. <<>> \in Seq(Nat)
    BY EmptySeq
<1>3. /\ inner' = inner /\ batches' = <<>> /\ done' = done /\ call' = call
      /\ out' = out /\ ended' = ended /\ failed' = failed
      /\ faulted' \in BOOLEAN /\ FileTypeOK'
    BY TaskFrame
<1> QED
    BY <1>1, <1>2, <1>3 DEF AsyncTypeOK

(* fill_buffer is entered: an empty batch at next_page_index, or nothing   *)
(* is wanted any more.                                                     *)
LEMMA EnterKeepsInv ==
    ASSUME AsyncInv, TaskRuns, FillEnter, UNCHANGED fileVars
    PROVE  AsyncInv'
<1>1. /\ AsyncTypeOK /\ FillTypeOK /\ FileTypeOK
      /\ Ownership /\ AsyncAdjacent /\ AsyncWithinBatch /\ AsyncShortAtEnd /\ OneBatchInMemory
      /\ next_page_index \in Nat /\ exhausted \in BOOLEAN
    BY DEF AsyncInv, AsyncTypeOK, FillTypeOK
<1>2. /\ batches = <<>> /\ inner \in {"task", "detached"}
      /\ inner' = inner /\ batches' = <<>> /\ out' = out
      /\ pages_per_batch' = pages_per_batch /\ start' = start
      /\ max_page_index' = max_page_index
      /\ len' = len /\ nseg' = nseg /\ lo' = lo /\ hi' = hi
      /\ (faulted => faulted') /\ FileTypeOK' /\ FileInv' /\ Ownership'
    BY TaskFrame
<1>3. /\ at = "idle" /\ next_page_index' = next_page_index /\ buffer' = buffer /\ cache' = cache
      /\ buffer = <<>>
    BY <1>1 DEF FillEnter, Ownership
<1>4. /\ Want \in Nat
      /\ Want = 0 => next_page_index >= Scan!LimitOf(max_page_index, lo)
    BY <1>1, AsyncWantFacts
<1>5. Want' = Want
    BY <1>2, <1>3 DEF Want, LeastOf
<1>6. OneBatchInMemory'
    BY <1>1, <1>2, <1>3 DEF OneBatchInMemory
<1>7. CASE exhausted \/ Want = 0
    <2>1. /\ exhausted' = TRUE /\ at' = "filled"
          /\ page_idx' = page_idx /\ end_page' = end_page /\ bulk' = bulk
        BY <1>7 DEF FillEnter
    <2>2. FillTypeOK'
        BY <1>1, <1>2, <1>3, <2>1 DEF FillTypeOK
    <2>3. AsyncTypeOK'
        BY <2>2, TaskTypes
    <2>4. AsyncAdjacent'
        BY <1>1, <1>2, <1>3, <2>1 DEF AsyncAdjacent, Run
    <2>5. AsyncWithinBatch'
        BY <1>1, <1>2, <1>3, <2>1 DEF AsyncWithinBatch, Scan!LimitOf, Scan!NoMax
    <2>6. AsyncShortAtEnd'
        <3>1. ~faulted => next_page_index >= Scan!LimitOf(max_page_index, lo)
            BY <1>1, <1>3, <1>4, <1>7 DEF AsyncShortAtEnd
        <3> QED
            BY <1>2, <1>3, <2>1, <3>1 DEF AsyncShortAtEnd, Scan!LimitOf, Scan!NoMax
    <2> QED
        BY <1>2, <1>6, <2>3, <2>4, <2>5, <2>6 DEF AsyncInv
<1>8. CASE ~(exhausted \/ Want = 0)
    <2>1. /\ exhausted' = FALSE /\ at' = "bulk"
          /\ page_idx' = next_page_index /\ end_page' = next_page_index + Want
          /\ bulk' = <<>>
        BY <1>1, <1>8 DEF FillEnter
    <2>2. <<>> \in Seq(Nat) /\ Len(<<>>) = 0 /\ Run(next_page_index, 0) = <<>>
        BY EmptySeq DEF Run
    <2>3. FillTypeOK'
        <3>1. page_idx' \in Nat /\ end_page' \in Nat /\ bulk' \in Seq(Nat)
            BY <1>1, <1>4, <2>1, <2>2
        <3> QED
            BY <1>1, <1>2, <1>3, <2>1, <3>1 DEF FillTypeOK
    <2>4. AsyncTypeOK'
        BY <2>3, TaskTypes
    <2>5. AsyncAdjacent'
        <3>1. bulk' = Run(next_page_index', Len(bulk'))
            BY <1>3, <2>1, <2>2
        <3>2. page_idx' = next_page_index' + Len(bulk')
            BY <1>1, <1>3, <2>1, <2>2
        <3>3. buffer' = <<>>
            BY <1>3
        <3> QED
            BY <1>1, <1>2, <1>3, <2>1, <3>1, <3>2, <3>3 DEF AsyncAdjacent, Run
    <2>6. AsyncWithinBatch'
        BY <1>1, <1>2, <1>3, <1>4, <1>5, <1>8, <2>1
           DEF AsyncWithinBatch, Scan!LimitOf, Scan!NoMax
    <2>7. AsyncShortAtEnd'
        BY <2>1 DEF AsyncShortAtEnd
    <2> QED
        BY <1>2, <1>6, <2>4, <2>5, <2>6, <2>7 DEF AsyncInv
<1> QED
    BY <1>7, <1>8

(* A segment is opened, or a system call fails: nothing is read, and a     *)
(* failure on a page that is on disk is remembered.                        *)
LEMMA OpenKeepsAsyncInv ==
    ASSUME AsyncInv, TaskRuns, BulkOpen \/ BulkOpenFails \/ BulkPreadFails, UNCHANGED fileVars
    PROVE  AsyncInv'
<1>1. /\ AsyncTypeOK /\ FillTypeOK /\ FileTypeOK /\ FileInv
      /\ AsyncAdjacent /\ AsyncWithinBatch /\ AsyncShortAtEnd /\ OneBatchInMemory
      /\ page_idx \in Nat
    BY DEF AsyncInv, AsyncTypeOK, FillTypeOK
<1>2. /\ batches = <<>> /\ inner \in {"task", "detached"}
      /\ inner' = inner /\ batches' = <<>> /\ out' = out
      /\ pages_per_batch' = pages_per_batch /\ start' = start
      /\ max_page_index' = max_page_index
      /\ len' = len /\ nseg' = nseg /\ lo' = lo /\ hi' = hi
      /\ (faulted => faulted') /\ (PageMissed => faulted')
      /\ FileTypeOK' /\ FileInv' /\ Ownership'
    BY TaskFrame
<1>3. /\ at = "bulk" /\ at' \in {"bulk", "convert"} /\ cache' \in {cache, segment_num(page_idx)}
      /\ buffer' = buffer /\ exhausted' = exhausted
      /\ next_page_index' = next_page_index /\ page_idx' = page_idx
      /\ end_page' = end_page /\ bulk' = bulk
    BY DEF BulkOpen, BulkOpenFails, BulkPreadFails
<1>4. segment_num(page_idx) \in Nat
    BY <1>1, PageSplit
<1>5. FillTypeOK'
    BY <1>1, <1>2, <1>3, <1>4 DEF FillTypeOK
<1>6. AsyncTypeOK'
    BY <1>5, TaskTypes
<1>7. AsyncAdjacent'
    BY <1>1, <1>2, <1>3 DEF AsyncAdjacent, Run
<1>8. AsyncWithinBatch'
    BY <1>1, <1>2, <1>3 DEF AsyncWithinBatch, Want, LeastOf, Scan!LimitOf, Scan!NoMax
<1>9. OneBatchInMemory'
    BY <1>1, <1>2, <1>3 DEF OneBatchInMemory
<1>10. AsyncShortAtEnd'
    <2>1. ~faulted' /\ at' = "convert" => page_idx >= lo
        BY <1>1, <1>2, <1>3, PageMissing DEF PageMissed
    <2>2. exhausted' = FALSE /\ at' # "filled"
        BY <1>1, <1>3 DEF AsyncWithinBatch, FillTypeOK
    <2> QED
        BY <1>2, <1>3, <2>1, <2>2 DEF AsyncShortAtEnd
<1> QED
    BY <1>2, <1>6, <1>7, <1>8, <1>9, <1>10 DEF AsyncInv

(* One pread extends the batch by the pages that follow. *)
LEMMA PreadKeepsAsyncInv ==
    ASSUME AsyncInv, TaskRuns, BulkPread, UNCHANGED fileVars
    PROVE  AsyncInv'
<1> DEFINE n == WholePages(UnitsRead)
<1>1. /\ AsyncTypeOK /\ FillTypeOK /\ FileTypeOK /\ FileInv
      /\ AsyncAdjacent /\ AsyncWithinBatch /\ AsyncShortAtEnd /\ OneBatchInMemory
    BY DEF AsyncInv, AsyncTypeOK
<1>2. /\ batches = <<>> /\ inner \in {"task", "detached"}
      /\ inner' = inner /\ batches' = <<>> /\ out' = out
      /\ pages_per_batch' = pages_per_batch /\ start' = start
      /\ max_page_index' = max_page_index
      /\ len' = len /\ nseg' = nseg /\ lo' = lo /\ hi' = hi
      /\ FileTypeOK' /\ FileInv' /\ Ownership'
    BY TaskFrame
<1>3. /\ at = "bulk" /\ cache = segment_num(page_idx)
      /\ bulk' = bulk \o PagesAt(cache, page_in_segment(page_idx), n)
      /\ page_idx' = page_idx + n
      /\ at' = IF UnitsRead < 2 * PagesToRead \/ page_idx + n = end_page
                 THEN "convert" ELSE "bulk"
      /\ buffer' = buffer /\ exhausted' = exhausted
      /\ next_page_index' = next_page_index /\ end_page' = end_page /\ cache' = cache
    BY DEF BulkPread
<1>4. /\ page_idx < end_page /\ at' \in {"bulk", "convert"}
      /\ exhausted = FALSE
    BY <1>1, <1>3 DEF AsyncWithinBatch, FillTypeOK
<1>5. /\ n \in Nat
      /\ page_idx + n <= end_page
      /\ n > 0 => page_idx + n <= hi
      /\ UnitsRead < 2 * PagesToRead => page_idx + n >= lo
      /\ UnitsRead >= 2 * PagesToRead => n > 0
      /\ UnitsRead \in Int /\ PagesToRead \in Int
      /\ PagesAt(cache, page_in_segment(page_idx), n) = Run(page_idx, n)
    BY <1>1, <1>3, <1>4, AsyncPreadFacts
<1>6. /\ bulk = Run(next_page_index, Len(bulk)) /\ page_idx = next_page_index + Len(bulk)
      /\ next_page_index \in Nat /\ Len(bulk) \in Nat /\ buffer = <<>>
      /\ page_idx \in Nat /\ end_page \in Nat
    BY <1>1, <1>3 DEF AsyncAdjacent, FillTypeOK
<1> HIDE DEF n
<1>7. bulk' = Run(next_page_index, Len(bulk) + n)
    <2>1. Run(next_page_index, Len(bulk)) \o Run(next_page_index + Len(bulk), n)
            = Run(next_page_index, Len(bulk) + n)
        BY <1>5, <1>6, RunConcat, ZenonT(30)
    <2> QED
        BY <1>3, <1>5, <1>6, <2>1
<1>8. bulk' \in Seq(Nat) /\ Len(bulk') = Len(bulk) + n
    <2>1. Len(bulk) + n \in Nat
        BY <1>5, <1>6
    <2> QED
        BY <1>6, <1>7, <2>1, RunFacts
<1>9. Want' = Want
    BY <1>2, <1>3 DEF Want, LeastOf
<1>10. FillTypeOK'
    BY <1>1, <1>2, <1>3, <1>4, <1>5, <1>6, <1>8 DEF FillTypeOK
<1>11. AsyncTypeOK'
    BY <1>10, TaskTypes
<1>12. AsyncAdjacent'
    <2>1. bulk' = Run(next_page_index', Len(bulk'))
        BY <1>3, <1>7, <1>8
    <2>2. page_idx' = next_page_index' + Len(bulk')
        <3> DEFINE m == Len(bulk)
        <3>1. page_idx' = page_idx + n /\ next_page_index' = next_page_index
            BY <1>3
        <3>2. page_idx = next_page_index + m /\ Len(bulk') = m + n
            BY <1>6, <1>8
        <3>3. n \in Nat /\ m \in Nat /\ next_page_index \in Nat
            BY <1>5, <1>6
        <3> HIDE DEF m
        <3> QED
            BY <3>1, <3>2, <3>3
    <2>3. /\ batches = Run(start + Len(out), Len(batches))
          /\ buffer = Run(start + Len(out) + Len(batches), Len(buffer))
          /\ next_page_index = start + Len(out) + Len(batches) + Len(buffer)
        BY <1>1, <1>3 DEF AsyncAdjacent
    <2>4. /\ batches' = Run(start' + Len(out'), Len(batches'))
          /\ buffer' = Run(start' + Len(out') + Len(batches'), Len(buffer'))
          /\ next_page_index' = start' + Len(out') + Len(batches') + Len(buffer')
        BY <1>2, <1>3, <2>3
    <2> QED
        BY <1>3, <1>6, <2>1, <2>2, <2>4 DEF AsyncAdjacent, Run
<1>13. AsyncWithinBatch'
    <2>1. at' = "bulk" => page_idx' < end_page'
        BY <1>3, <1>5, <1>6
    <2>2. bulk' # <<>> => page_idx' <= hi'
        <3>1. CASE n > 0
            BY <1>2, <1>3, <1>5, <3>1
        <3>2. CASE n = 0
            <4>1. bulk' = bulk
                BY <1>6, <1>7, <3>2
            <4>2. page_idx' = page_idx
                BY <1>3, <1>6, <3>2
            <4> QED
                BY <1>1, <1>2, <1>3, <4>1, <4>2 DEF AsyncWithinBatch
        <3> QED
            BY <1>5, <3>1, <3>2
    <2> QED
        BY <1>1, <1>2, <1>3, <1>4, <1>5, <1>9, <2>1, <2>2
           DEF AsyncWithinBatch, Scan!LimitOf, Scan!NoMax
<1>14. AsyncShortAtEnd'
    <2>1. at' = "convert" /\ page_idx' < end_page' => page_idx' >= lo'
        BY <1>2, <1>3, <1>5, <1>6
    <2> QED
        BY <1>3, <1>4, <2>1 DEF AsyncShortAtEnd
<1>15. OneBatchInMemory'
    BY <1>1, <1>2, <1>3 DEF OneBatchInMemory
<1> QED
    BY <1>2, <1>11, <1>12, <1>13, <1>14, <1>15 DEF AsyncInv

(* The converted batch becomes the task's buffer: no more than a batch,    *)
(* and exhausting the stream when it is smaller than wanted.               *)
LEMMA ConvertKeepsInv ==
    ASSUME AsyncInv, TaskRuns, FillConvert, UNCHANGED fileVars
    PROVE  AsyncInv'
<1>1. /\ AsyncTypeOK /\ FillTypeOK /\ FileTypeOK
      /\ AsyncAdjacent /\ AsyncWithinBatch /\ AsyncShortAtEnd /\ OneBatchInMemory
    BY DEF AsyncInv, AsyncTypeOK
<1>2. /\ batches = <<>> /\ inner \in {"task", "detached"}
      /\ inner' = inner /\ batches' = <<>> /\ out' = out
      /\ pages_per_batch' = pages_per_batch /\ start' = start
      /\ max_page_index' = max_page_index
      /\ len' = len /\ nseg' = nseg /\ lo' = lo /\ hi' = hi
      /\ (faulted => faulted') /\ FileTypeOK' /\ FileInv' /\ Ownership'
    BY TaskFrame
<1>3. /\ at = "convert" /\ at' = "filled"
      /\ buffer' = buffer \o bulk /\ next_page_index' = next_page_index + Len(bulk)
      /\ exhausted' = (Len(bulk) < Want)
      /\ bulk' = bulk /\ page_idx' = page_idx /\ end_page' = end_page /\ cache' = cache
    BY DEF FillConvert
<1>4. /\ bulk \in Seq(Nat) /\ out \in Seq(Nat) /\ start \in Nat /\ next_page_index \in Nat
      /\ page_idx \in Nat /\ end_page \in Nat /\ hi \in Nat /\ lo \in Nat
      /\ max_page_index \in Nat \cup {NoMax} /\ pages_per_batch \in Nat
    BY <1>1 DEF AsyncTypeOK, FillTypeOK, FileTypeOK
<1>5. Len(bulk) \in Nat /\ Len(out) \in Nat /\ Len(<<>>) = 0
    BY <1>4, EmptySeq
<1>6. /\ bulk = Run(next_page_index, Len(bulk)) /\ page_idx = next_page_index + Len(bulk)
      /\ buffer = <<>> /\ next_page_index = start + Len(out)
      /\ batches = Run(start + Len(out), Len(batches))
    <2>1. /\ bulk = Run(next_page_index, Len(bulk)) /\ page_idx = next_page_index + Len(bulk)
          /\ buffer = <<>> /\ next_page_index = start + Len(out) + Len(batches) + Len(buffer)
          /\ batches = Run(start + Len(out), Len(batches))
        BY <1>1, <1>3 DEF AsyncAdjacent
    <2>2. next_page_index = start + Len(out) + 0 + 0
        BY <1>2, <1>5, <2>1
    <2>3. next_page_index = start + Len(out)
        BY <1>4, <1>5, <2>2
    <2> QED
        BY <2>1, <2>3
<1>7. buffer' = bulk
    BY <1>3, <1>4, <1>6, ConcatEmptySeq
<1>8. next_page_index' = page_idx
    BY <1>3, <1>6
<1>9. /\ Want \in Nat /\ Want > 0 /\ end_page = next_page_index + Want /\ page_idx <= end_page
      /\ max_page_index # NoMax => next_page_index + Want <= max_page_index
      /\ bulk # <<>> => page_idx <= hi
      /\ Want <= pages_per_batch
    BY <1>1, <1>3, AsyncWantFacts DEF AsyncWithinBatch
<1>10. FillTypeOK'
    BY <1>1, <1>2, <1>3, <1>4, <1>7, <1>8 DEF FillTypeOK
<1>11. AsyncTypeOK'
    BY <1>10, TaskTypes
<1>12. AsyncAdjacent'
    <2>0. start + Len(out) + 0 = start + Len(out)
        BY <1>4, <1>5
    <2>1. batches' = Run(start' + Len(out'), Len(batches'))
        BY <1>2, <1>6
    <2>2. buffer' = Run(start' + Len(out') + Len(batches'), Len(buffer'))
        BY <1>2, <1>5, <1>6, <1>7, <2>0
    <2>3. next_page_index' = start' + Len(out') + Len(batches') + Len(buffer')
        BY <1>2, <1>3, <1>5, <1>6, <1>7, <2>0
    <2> QED
        BY <1>3, <2>1, <2>2, <2>3 DEF AsyncAdjacent, Run
<1>13. AsyncWithinBatch'
    <2>1. ASSUME next_page_index' > start'
          PROVE  next_page_index' <= Scan!LimitOf(max_page_index', hi')
        <3>1. max_page_index # NoMax => page_idx <= max_page_index
            BY <1>4, <1>9
        <3>2. page_idx <= hi
            <4>1. CASE bulk # <<>>
                BY <1>9, <4>1
            <4>2. CASE bulk = <<>>
                <5>1. next_page_index' = next_page_index
                    BY <1>3, <1>4, <1>5, <4>2
                <5>2. next_page_index <= Scan!LimitOf(max_page_index, hi)
                    BY <1>1, <1>2, <1>3, <2>1, <5>1 DEF AsyncWithinBatch
                <5> QED
                    BY <1>4, <1>8, <5>1, <5>2 DEF Scan!LimitOf
            <4> QED
                BY <4>1, <4>2
        <3> QED
            BY <1>2, <1>4, <1>8, <3>1, <3>2 DEF Scan!LimitOf, Scan!NoMax, NoMax
    <2>2. /\ at' # "bulk" /\ at' # "convert"
          /\ at' # "panicked" /\ next_page_index' > start'
                => next_page_index' <= Scan!LimitOf(max_page_index', hi')
        BY <1>3, <2>1
    <2> QED
        BY <2>2 DEF AsyncWithinBatch, Scan!LimitOf, Scan!NoMax
<1>14. AsyncShortAtEnd'
    <2> DEFINE m == Len(bulk)
    <2>1. exhausted' = (m < Want) /\ m \in Nat /\ page_idx = next_page_index + m
        BY <1>3, <1>5, <1>6
    <2>2. bulk = <<>> => m = 0
        BY <1>5
    <2> HIDE DEF m
    <2>3. ~faulted /\ exhausted' => page_idx >= lo
        <3>1. m < Want => page_idx < end_page
            BY <1>4, <1>9, <2>1
        <3>2. ~faulted /\ page_idx < end_page => page_idx >= lo
            BY <1>1, <1>3 DEF AsyncShortAtEnd
        <3> QED
            BY <2>1, <3>1, <3>2
    <2>4. ~faulted /\ exhausted' => next_page_index' >= Scan!LimitOf(max_page_index', lo')
        BY <1>2, <1>4, <1>8, <2>3 DEF Scan!LimitOf, Scan!NoMax, NoMax
    <2>5. buffer' = <<>> => exhausted'
        BY <1>7, <1>9, <2>1, <2>2
    <2> QED
        BY <1>2, <1>3, <2>4, <2>5 DEF AsyncShortAtEnd, Scan!LimitOf, Scan!NoMax
<1>15. OneBatchInMemory'
    <2> DEFINE m == Len(bulk)
    <2>1. m \in Nat /\ page_idx = next_page_index + m
        BY <1>5, <1>6
    <2>2. Len(batches') = 0 /\ Len(buffer') = m
        BY <1>2, <1>5, <1>7
    <2> HIDE DEF m
    <2>3. m <= pages_per_batch
        BY <1>4, <1>9, <2>1
    <2> QED
        BY <1>2, <2>1, <2>2, <2>3 DEF OneBatchInMemory
<1> QED
    BY <1>2, <1>11, <1>12, <1>13, <1>14, <1>15 DEF AsyncInv

(* A panic leaves a part of the batch in the task's buffer. *)
LEMMA PanicsKeepsInv ==
    ASSUME AsyncInv, TaskRuns, FillPanics, UNCHANGED fileVars
    PROVE  AsyncInv'
<1>1. /\ AsyncTypeOK /\ FillTypeOK /\ FileTypeOK
      /\ AsyncAdjacent /\ AsyncWithinBatch /\ AsyncShortAtEnd /\ OneBatchInMemory
      /\ bulk \in Seq(Nat) /\ pages_per_batch \in Nat /\ next_page_index \in Nat
      /\ page_idx \in Nat /\ end_page \in Nat
    BY DEF AsyncInv, AsyncTypeOK, FillTypeOK
<1>2. /\ batches = <<>> /\ inner \in {"task", "detached"}
      /\ inner' = inner /\ batches' = <<>> /\ out' = out
      /\ pages_per_batch' = pages_per_batch /\ start' = start
      /\ max_page_index' = max_page_index
      /\ FileTypeOK' /\ FileInv' /\ Ownership'
    BY TaskFrame
<1>3. /\ at = "convert" /\ at' = "panicked"
      /\ bulk' = bulk /\ page_idx' = page_idx
      /\ end_page' = end_page /\ cache' = cache /\ exhausted' = exhausted
      /\ next_page_index' = next_page_index
    BY DEF FillPanics
<1>4. PICK i \in 1 .. Len(bulk) : buffer' = buffer \o SubSeq(bulk, 1, i - 1)
    BY DEF FillPanics
<1>5. buffer = <<>> /\ page_idx = next_page_index + Len(bulk)
    BY <1>1, <1>3 DEF AsyncAdjacent
<1>6. Len(bulk) \in Nat /\ i \in Nat /\ i >= 1 /\ i <= Len(bulk)
    BY <1>1, <1>4, LenProperties
<1>7. SubSeq(bulk, 1, i - 1) \in Seq(Nat) /\ Len(SubSeq(bulk, 1, i - 1)) = i - 1
    <2>1. \A k \in 1 .. i - 1 : bulk[k] \in Nat
        BY <1>1, <1>6, LenProperties, ElementOfSeq
    <2>2. SubSeq(bulk, 1, i - 1) \in Seq(Nat)
        BY <1>1, <1>6, <2>1, SubSeqProperties
    <2>3. Len(SubSeq(bulk, 1, i - 1)) = i - 1
        BY <1>1, <1>6
    <2> QED
        BY <2>2, <2>3
<1>8. buffer' \in Seq(Nat) /\ Len(buffer') = i - 1
    <2>1. buffer' = SubSeq(bulk, 1, i - 1)
        BY <1>4, <1>5, <1>7, ConcatEmptySeq
    <2> QED
        BY <1>7, <2>1
<1>9. FillTypeOK'
    BY <1>1, <1>2, <1>3, <1>8 DEF FillTypeOK
<1>10. AsyncTypeOK'
    BY <1>9, TaskTypes
<1>11. AsyncAdjacent'
    BY <1>1, <1>2, <1>3 DEF AsyncAdjacent, Run
<1>12. AsyncWithinBatch' /\ AsyncShortAtEnd'
    BY <1>3 DEF AsyncWithinBatch, AsyncShortAtEnd
<1>13. OneBatchInMemory'
    <2> DEFINE m == Len(bulk)
    <2>1. m \in Nat /\ page_idx = next_page_index + m /\ i <= m
        BY <1>5, <1>6
    <2>2. /\ Want \in Nat /\ Want <= pages_per_batch
          /\ end_page = next_page_index + Want /\ page_idx <= end_page
        BY <1>1, <1>3, AsyncWantFacts DEF AsyncWithinBatch
    <2> HIDE DEF m
    <2>3. i - 1 <= pages_per_batch
        BY <1>1, <1>6, <2>1, <2>2
    <2>4. Len(batches') = 0
        BY <1>2, EmptySeq
    <2> QED
        BY <1>2, <1>6, <1>8, <2>3, <2>4 DEF OneBatchInMemory
<1> QED
    BY <1>2, <1>10, <1>11, <1>12, <1>13 DEF AsyncInv

(* The writer can only widen the range of sizes seen. *)
LEMMA WriterKeepsAsyncInv ==
    ASSUME AsyncInv, Writer, UNCHANGED <<fillVars, asyncVars>>
    PROVE  AsyncInv' /\ lo' <= lo /\ hi' >= hi
<1>1. /\ AsyncTypeOK /\ FillTypeOK /\ FileTypeOK /\ FileInv
      /\ Ownership /\ AsyncAdjacent /\ AsyncWithinBatch /\ AsyncShortAtEnd /\ OneBatchInMemory
    BY DEF AsyncInv, AsyncTypeOK
<1>2. /\ pages_per_batch' = pages_per_batch /\ start' = start
      /\ next_page_index' = next_page_index /\ max_page_index' = max_page_index
      /\ buffer' = buffer /\ exhausted' = exhausted /\ cache' = cache
      /\ page_idx' = page_idx /\ end_page' = end_page /\ bulk' = bulk /\ at' = at
      /\ inner' = inner /\ batches' = batches /\ done' = done /\ call' = call
      /\ out' = out /\ ended' = ended /\ failed' = failed /\ faulted' = faulted
    BY DEF fillVars, asyncVars
<1>3. FileTypeOK' /\ FileInv' /\ lo' <= lo /\ hi' >= hi
    BY <1>1, WriterOK
<1>4. FillTypeOK' /\ AsyncTypeOK'
    BY <1>1, <1>2, <1>3 DEF AsyncTypeOK, FillTypeOK
<1>5. AsyncAdjacent' /\ Ownership' /\ OneBatchInMemory'
    BY <1>1, <1>2 DEF AsyncAdjacent, Run, Ownership, OneBatchInMemory
<1>6. /\ lo \in Nat /\ hi \in Nat /\ lo' \in Nat /\ hi' \in Nat
      /\ max_page_index \in Nat \cup {NoMax} /\ next_page_index \in Nat /\ page_idx \in Nat
    BY <1>1, <1>3 DEF FileTypeOK, FillTypeOK
<1>7. /\ Scan!LimitOf(max_page_index, lo') <= Scan!LimitOf(max_page_index, lo)
      /\ Scan!LimitOf(max_page_index, hi) <= Scan!LimitOf(max_page_index, hi')
      /\ Scan!LimitOf(max_page_index, lo) \in Nat /\ Scan!LimitOf(max_page_index, hi) \in Nat
      /\ Scan!LimitOf(max_page_index, lo') \in Nat /\ Scan!LimitOf(max_page_index, hi') \in Nat
    BY <1>3, <1>6 DEF Scan!LimitOf, Scan!NoMax, NoMax
<1>8. Want' = Want
    BY <1>2 DEF Want, LeastOf
<1>9. AsyncWithinBatch'
    <2>1. at # "panicked" /\ next_page_index > start
             => next_page_index <= Scan!LimitOf(max_page_index, hi')
        BY <1>1, <1>6, <1>7 DEF AsyncWithinBatch
    <2>2. at \in {"bulk", "convert"} /\ bulk # <<>> => page_idx <= hi'
        BY <1>1, <1>3, <1>6 DEF AsyncWithinBatch
    <2> QED
        BY <1>1, <1>2, <1>8, <2>1, <2>2 DEF AsyncWithinBatch, Scan!LimitOf, Scan!NoMax
<1>10. AsyncShortAtEnd'
    <2>1. ~faulted /\ at = "convert" /\ page_idx < end_page => page_idx >= lo'
        BY <1>1, <1>3, <1>6 DEF AsyncShortAtEnd
    <2>2. ~faulted /\ at # "panicked" /\ exhausted
             => next_page_index >= Scan!LimitOf(max_page_index, lo')
        BY <1>1, <1>6, <1>7 DEF AsyncShortAtEnd
    <2> QED
        BY <1>1, <1>2, <2>1, <2>2 DEF AsyncShortAtEnd, Scan!LimitOf, Scan!NoMax
<1> QED
    BY <1>3, <1>4, <1>5, <1>9, <1>10 DEF AsyncInv

(* Every step of the caller, the runtime and the writer keeps it. *)
LEMMA StepKeepsAsyncInv ==
    ASSUME AsyncInv, [Next]_vars
    PROVE  AsyncInv'
<1>1. CASE NextBatchAtOnce /\ UNCHANGED fileVars
    BY <1>1, AtOnceKeepsInv
<1>2. CASE /\ NextBatchSpawns \/ AwaitJoinError \/ CallCancelled \/ TaskAbandoned
           /\ UNCHANGED fileVars
    BY <1>2, HandOverKeepsInv
<1>3. CASE AwaitReturns /\ UNCHANGED fileVars
    BY <1>3, AwaitReturnsKeepsInv
<1>4. CASE TaskRuns /\ UNCHANGED fileVars
    <2>1. CASE FillEnter
        BY <1>4, <2>1, EnterKeepsInv
    <2>2. CASE BulkOpen \/ BulkOpenFails \/ BulkPreadFails
        BY <1>4, <2>2, OpenKeepsAsyncInv
    <2>3. CASE BulkPread
        BY <1>4, <2>3, PreadKeepsAsyncInv
    <2>4. CASE FillConvert
        BY <1>4, <2>4, ConvertKeepsInv
    <2>5. CASE FillPanics
        BY <1>4, <2>5, PanicsKeepsInv
    <2>6. FillEnter \/ FillStep
        BY <1>4 DEF TaskRuns
    <2> QED
        BY <2>1, <2>2, <2>3, <2>4, <2>5, <2>6 DEF FillStep
<1>5. CASE Writer /\ UNCHANGED <<fillVars, asyncVars>>
    BY <1>5, WriterKeepsAsyncInv
<1>6. CASE UNCHANGED vars
    <2>1. /\ UNCHANGED <<fillVars, fileVars, faulted>>
          /\ pages_per_batch' = pages_per_batch /\ start' = start
          /\ next_page_index' = next_page_index
          /\ buffer' = buffer /\ exhausted' = exhausted
          /\ page_idx' = page_idx /\ bulk' = bulk /\ at' = at
          /\ inner' = inner /\ batches' = batches /\ done' = done /\ call' = call
          /\ out' = out /\ ended' = ended /\ failed' = failed /\ faulted' = faulted
        BY <1>6 DEF vars, asyncVars, fillVars
    <2>2. /\ FileTypeOK' /\ FillTypeOK' /\ FileInv' /\ AsyncWithinBatch' /\ AsyncShortAtEnd'
        BY <2>1, FillFrame
    <2>3. AsyncTypeOK'
        BY <2>1, <2>2 DEF AsyncInv, AsyncTypeOK
    <2>4. AsyncAdjacent' /\ Ownership' /\ OneBatchInMemory'
        BY <2>1 DEF AsyncInv, AsyncAdjacent, Run, Ownership, OneBatchInMemory
    <2> QED
        BY <2>2, <2>3, <2>4 DEF AsyncInv
<1> QED
    BY <1>1, <1>2, <1>3, <1>4, <1>5, <1>6 DEF Next, Caller, Runtime

(* The invariant of AsyncBatchStream holds for every batch size, range,    *)
(* set of failing calls and set of unconvertible pages, with callers that  *)
(* drop their futures or not: the pages on their way have one owner.       *)
THEOREM AsyncInvariant == Spec => []AsyncInv
<1>1. AsyncInv /\ [Next]_vars => AsyncInv'
    BY StepKeepsAsyncInv
<1> QED
    BY <1>1, InitAsyncInv, PTL DEF Spec

(* next_batch never spawns a task while pages of the last batch are left,  *)
(* and the wrapper and its task together hold one batch at most.           *)
THEOREM AsyncOneBatchInMemory == Spec => []OneBatchInMemory
<1>1. AsyncInv => OneBatchInMemory
    BY DEF AsyncInv
<1> QED
    BY <1>1, AsyncInvariant, PTL

-----------------------------------------------------------------------------
(* next_batch implements PageScan. *)

(* A new wrapper is a scan that has delivered nothing. *)
LEMMA InitAsyncScans == Init => Scan!ScanInit
<1> SUFFICES ASSUME Init PROVE Scan!ScanInit
    OBVIOUS
<1>1. AsyncInv
    BY InitAsyncInv
<1>2. lo \in Nat /\ hi = lo
    BY <1>1 DEF AsyncInv, AsyncTypeOK, FileTypeOK, Init, FileInit
<1>3. start \in Nat /\ max_page_index \in Nat \cup {NoMax}
    BY <1>1 DEF AsyncInv, AsyncTypeOK, FillTypeOK
<1>4. out = <<>> /\ status = "open"
    BY DEF Init, status
<1> QED
    BY <1>2, <1>3, <1>4 DEF Scan!ScanInit, Scan!NoMax, NoMax

(* Handing out the first of the pages in hand, wherever they are, delivers *)
(* the next page of the scan.                                              *)
LEMMA HandOutDelivers ==
    ASSUME AsyncInv, at # "panicked", NEW b \in Seq(Nat), b # <<>>,
           b = Run(start + Len(out), Len(b)), start + Len(out) + Len(b) <= next_page_index,
           out' = Append(out, Head(b)), status = "open", status' = "open",
           UNCHANGED <<lo, hi, start, max_page_index>>
    PROVE  Scan!Deliver
<1> DEFINE a == start + Len(out)
           n == Len(b)
<1>1. /\ out \in Seq(Nat) /\ start \in Nat /\ next_page_index \in Nat /\ hi \in Nat
      /\ max_page_index \in Nat \cup {NoMax} /\ AsyncWithinBatch
    BY DEF AsyncInv, AsyncTypeOK, FillTypeOK, FileTypeOK
<1>2. Head(b) = a /\ n > 0 /\ n \in Nat /\ a \in Nat /\ a >= start
    BY <1>1, PopRun
<1> HIDE DEF a, n
<1>3. a + n <= next_page_index
    BY DEF a, n
<1>4. next_page_index > start /\ a < next_page_index
    BY <1>1, <1>2, <1>3
<1>5. next_page_index <= Scan!LimitOf(max_page_index, hi)
    BY <1>1, <1>4 DEF AsyncWithinBatch
<1>6. a < Scan!LimitOf(max_page_index, hi)
    BY <1>1, <1>2, <1>4, <1>5 DEF Scan!LimitOf
<1>7. Scan!NextOut = a
    BY DEF Scan!NextOut, a
<1> QED
    BY <1>2, <1>6, <1>7 DEF Scan!Deliver

(* None from a stream whose pages are all handed out ends the scan, or     *)
(* gives it up if a read failed.                                           *)
LEMMA NoneEnds ==
    ASSUME AsyncInv, at # "panicked", exhausted, buffer = <<>>, batches = <<>>,
           status = "open",
           faulted' = faulted, status' = IF faulted THEN "failed" ELSE "ended",
           UNCHANGED <<lo, hi, start, max_page_index, out>>
    PROVE  Scan!Finish \/ Scan!Fail
<1>1. CASE faulted
    BY <1>1 DEF Scan!Fail
<1>2. CASE ~faulted
    <2>1. next_page_index >= Scan!LimitOf(max_page_index, lo)
        BY <1>2 DEF AsyncInv, AsyncShortAtEnd
    <2>2. next_page_index = start + Len(out) + 0 + 0 /\ Len(out) \in Nat /\ start \in Nat
        BY EmptySeq DEF AsyncInv, AsyncAdjacent, AsyncTypeOK, FillTypeOK
    <2>3. Scan!NextOut = next_page_index
        BY <2>2 DEF Scan!NextOut
    <2> QED
        BY <1>2, <2>1, <2>3 DEF Scan!Finish
<1> QED
    BY <1>1, <1>2

(* An answer of next_batch without a task. *)
LEMMA AtOnceScans ==
    ASSUME AsyncInv, NextBatchAtOnce, UNCHANGED fileVars
    PROVE  Scan!Deliver \/ Scan!Finish \/ Scan!Fail \/ UNCHANGED Scan!scanVars
<1>1. /\ AsyncTypeOK /\ Ownership /\ AsyncAdjacent
      /\ out \in Seq(Nat) /\ batches \in Seq(Nat) /\ start \in Nat /\ {ended, faulted, failed, done} \subseteq BOOLEAN
    BY DEF AsyncInv, AsyncTypeOK, FillTypeOK
<1>2. /\ call = "none" /\ inner' = inner /\ failed' = failed /\ faulted' = faulted
      /\ start' = start /\ max_page_index' = max_page_index /\ lo' = lo /\ hi' = hi
    BY DEF NextBatchAtOnce, fillVars, fileVars
<1>3. inner # "task"
    BY <1>1, <1>2 DEF Ownership
<1>4. CASE batches # <<>>
    <2>1. out' = Append(out, Head(batches)) /\ ended' = ended
        BY <1>4 DEF NextBatchAtOnce
    <2>2. inner = "held" /\ at = "idle" /\ ~failed /\ ~ended /\ buffer = <<>>
        BY <1>1, <1>4 DEF Ownership
    <2>3. status = "open" /\ status' = "open"
        BY <1>2, <2>1, <2>2 DEF status
    <2>4. /\ batches = Run(start + Len(out), Len(batches))
          /\ start + Len(out) + Len(batches) <= next_page_index
        <3>1. /\ batches = Run(start + Len(out), Len(batches))
              /\ next_page_index = start + Len(out) + Len(batches) + 0
            BY <1>1, <2>2, EmptySeq DEF AsyncAdjacent
        <3>2. Len(out) \in Nat /\ Len(batches) \in Nat
            BY <1>1
        <3> QED
            BY <1>1, <3>1, <3>2
    <2>5. Scan!Deliver
        BY <1>1, <1>2, <1>4, <2>1, <2>2, <2>3, <2>4, HandOutDelivers
    <2> QED
        BY <2>5
<1>5. CASE batches = <<>>
    <2>1. out' = out /\ ended' = TRUE /\ (done \/ inner # "held")
        BY <1>5 DEF NextBatchAtOnce
    <2>2. CASE inner # "held"
        <3>1. inner \in {"detached", "dropped"}
            BY <1>1, <1>3, <2>2 DEF AsyncTypeOK
        <3>2. status' = status
            BY <1>2, <3>1 DEF status
        <3> QED
            BY <1>2, <2>1, <3>2 DEF Scan!scanVars
    <2>3. CASE inner = "held" /\ ended
        <3>1. status' = status
            BY <1>1, <1>2, <2>1, <2>3 DEF status
        <3> QED
            BY <1>2, <2>1, <3>1 DEF Scan!scanVars
    <2>4. CASE inner = "held" /\ ~ended
        <3>1. exhausted /\ at = "idle" /\ buffer = <<>> /\ ~failed
            BY <1>1, <2>1, <2>4 DEF Ownership
        <3>2. status = "open" /\ status' = IF faulted THEN "failed" ELSE "ended"
            BY <1>2, <2>1, <2>4, <3>1 DEF status
        <3>3. Scan!Finish \/ Scan!Fail
            BY <1>2, <1>5, <2>1, <3>1, <3>2, NoneEnds
        <3> QED
            BY <3>3
    <2> QED
        BY <2>2, <2>3, <2>4
<1> QED
    BY <1>4, <1>5

(* The result of a task. *)
LEMMA AwaitReturnsScans ==
    ASSUME AsyncInv, AwaitReturns, UNCHANGED fileVars
    PROVE  Scan!Deliver \/ Scan!Finish \/ Scan!Fail
<1>1. /\ AsyncTypeOK /\ Ownership /\ AsyncAdjacent /\ AsyncShortAtEnd
      /\ out \in Seq(Nat) /\ buffer \in Seq(Nat) /\ start \in Nat
      /\ {ended, faulted, failed, done} \subseteq BOOLEAN
    BY DEF AsyncInv, AsyncTypeOK, FillTypeOK
<1>2. /\ call = "await" /\ at = "filled" /\ inner' = "held"
      /\ failed' = failed /\ faulted' = faulted
      /\ start' = start /\ max_page_index' = max_page_index /\ lo' = lo /\ hi' = hi
    BY DEF AwaitReturns, configVars, fileVars
<1>3. inner = "task" /\ batches = <<>> /\ ~ended /\ ~failed
    BY <1>1, <1>2 DEF Ownership
<1>4. batches \o buffer = buffer
    BY <1>1, <1>3, ConcatEmptySeq
<1>5. status = "open"
    BY <1>3 DEF status
<1>6. CASE buffer # <<>>
    <2>1. out' = Append(out, Head(buffer)) /\ ended' = ended
        BY <1>4, <1>6 DEF AwaitReturns
    <2>2. status' = "open"
        BY <1>2, <1>3, <2>1 DEF status
    <2>3. /\ buffer = Run(start + Len(out), Len(buffer))
          /\ start + Len(out) + Len(buffer) <= next_page_index
        <3>1. /\ buffer = Run(start + Len(out) + 0, Len(buffer))
              /\ next_page_index = start + Len(out) + 0 + Len(buffer)
            BY <1>1, <1>2, <1>3, EmptySeq DEF AsyncAdjacent
        <3>2. Len(out) \in Nat /\ Len(buffer) \in Nat /\ start + Len(out) + 0 = start + Len(out)
            BY <1>1
        <3> QED
            BY <1>1, <3>1, <3>2
    <2>4. Scan!Deliver
        BY <1>1, <1>2, <1>5, <1>6, <2>1, <2>2, <2>3, HandOutDelivers
    <2> QED
        BY <2>4
<1>7. CASE buffer = <<>>
    <2>1. out' = out /\ ended' = TRUE
        BY <1>3, <1>4, <1>7 DEF AwaitReturns
    <2>2. exhausted
        BY <1>1, <1>2, <1>7 DEF AsyncShortAtEnd
    <2>3. status' = IF faulted THEN "failed" ELSE "ended"
        BY <1>2, <1>3, <2>1 DEF status
    <2>4. Scan!Finish \/ Scan!Fail
        BY <1>2, <1>3, <1>5, <1>7, <2>1, <2>2, <2>3, NoneEnds
    <2> QED
        BY <2>4
<1> QED
    BY <1>6, <1>7

(* Every step of the wrapper is a step of the scan or none at all. *)
LEMMA AsyncStepScans ==
    ASSUME AsyncInv, [Next]_vars
    PROVE  [Scan!ScanNext]_Scan!scanVars
<1>0. /\ AsyncTypeOK /\ Ownership /\ {ended, faulted, failed, done} \subseteq BOOLEAN
    BY DEF AsyncInv, AsyncTypeOK
<1>1. CASE NextBatchAtOnce /\ UNCHANGED fileVars
    BY <1>1, AtOnceScans DEF Scan!ScanNext
<1>2. CASE NextBatchSpawns /\ UNCHANGED fileVars
    <2>1. /\ out' = out /\ start' = start /\ max_page_index' = max_page_index
          /\ lo' = lo /\ hi' = hi /\ inner = "held" /\ ~done
          /\ inner' = "task" /\ failed' = failed /\ ended' = ended
        BY <1>2 DEF NextBatchSpawns, fillVars, fileVars
    <2>2. status = "open" /\ status' = "open"
        BY <1>0, <2>1 DEF status, Ownership
    <2> QED
        BY <2>1, <2>2 DEF Scan!scanVars
<1>3. CASE TaskRuns /\ UNCHANGED fileVars
    <2>1. /\ out' = out /\ start' = start /\ max_page_index' = max_page_index
          /\ lo' = lo /\ hi' = hi /\ inner \in {"task", "detached"}
          /\ inner' = inner /\ failed' = failed /\ ended' = ended
        BY <1>3, TaskFrame
    <2>2. status' = status
        BY <1>0, <2>1 DEF status, Ownership
    <2> QED
        BY <2>1, <2>2 DEF Scan!scanVars
<1>4. CASE AwaitReturns /\ UNCHANGED fileVars
    BY <1>4, AwaitReturnsScans DEF Scan!ScanNext
<1>5. CASE (AwaitJoinError \/ CallCancelled) /\ UNCHANGED fileVars
    <2>1. /\ out' = out /\ start' = start /\ max_page_index' = max_page_index
          /\ lo' = lo /\ hi' = hi /\ call = "await"
          /\ inner' \in {"detached", "dropped"}
        BY <1>5 DEF AwaitJoinError, CallCancelled, fillVars, fileVars
    <2>2. status = "open" /\ status' = "failed"
        BY <1>0, <2>1 DEF status, Ownership
    <2>3. Scan!Fail
        BY <2>1, <2>2 DEF Scan!Fail
    <2> QED
        BY <2>3 DEF Scan!ScanNext
<1>6. CASE TaskAbandoned /\ UNCHANGED fileVars
    <2>1. /\ out' = out /\ start' = start /\ max_page_index' = max_page_index
          /\ lo' = lo /\ hi' = hi /\ inner = "detached" /\ inner' = "dropped"
        BY <1>6 DEF TaskAbandoned, fillVars, fileVars
    <2>2. status' = status
        BY <2>1 DEF status
    <2> QED
        BY <2>1, <2>2 DEF Scan!scanVars
<1>7. CASE Writer /\ UNCHANGED <<fillVars, asyncVars>>
    <2>1. lo' <= lo /\ hi' >= hi
        BY <1>7, WriterKeepsAsyncInv
    <2>2. start' = start /\ max_page_index' = max_page_index /\ out' = out
          /\ status' = status
        BY <1>7 DEF fillVars, asyncVars, status
    <2> QED
        BY <2>1, <2>2 DEF Scan!ScanNext, Scan!Resize
<1>8. CASE UNCHANGED vars
    BY <1>8 DEF vars, fileVars, fillVars, asyncVars, status, Scan!scanVars
<1> QED
    BY <1>1, <1>2, <1>3, <1>4, <1>5, <1>6, <1>7, <1>8 DEF Next, Caller, Runtime

(* AsyncBatchStream implements PageScan with any system calls failing, any *)
(* pages panicking and any calls dropped: next_batch delivers the pages of *)
(* the range in order and without a gap, and says None before the last one *)
(* only after a dropped call or a failed read.                             *)
THEOREM AsyncImplementsScan == Spec => ImplementsScan
<1>1. AsyncInv /\ [Next]_vars => [Scan!ScanNext]_Scan!scanVars
    BY AsyncStepScans
<1> QED
    BY <1>1, InitAsyncScans, AsyncInvariant, PTL DEF Spec, ImplementsScan, Scan!ScanSpec
=============================================================================
