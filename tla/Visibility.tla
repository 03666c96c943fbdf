----------------------------- MODULE Visibility -----------------------------
(***************************************************************************)
(* Which row versions a scan returns: the tuple filter of                  *)
(* HeapPageData::to_record_batch (src/src/heap/page.rs) and                *)
(* PgSnapshot::xmin_visible (src/src/heap/snapshot.rs), applied page by    *)
(* page to files that PostgreSQL is changing.  PostgreSQL is external:     *)
(* transactions insert, update, delete and lock rows in shared buffers,    *)
(* commit or abort, set hint bits, vacuum, and write pages back in any     *)
(* order.                                                                  *)
(*                                                                         *)
(* A row version keeps the logical row it belongs to, so that versions of  *)
(* one row can be told from different rows; the code sees no such thing.   *)
(***************************************************************************)
EXTENDS Integers, Sequences, FiniteSets

CONSTANTS
    PageNumbers,       \* the pages are 0 .. PageNumbers - 1
    MaxSlots,          \* bound: line pointers per page
    MaxTxns,           \* bound: transactions begun
    MaxChanges,        \* bound: row changes and row locks
    Operations,        \* what the transactions do, a subset of AllOperations
    CheckpointFirst    \* does the caller issue CHECKPOINT with its snapshot?

AllOperations == {"insert", "update", "delete", "lock", "abort", "vacuum"}

ASSUME VisibilityAssumption ==
    /\ PageNumbers \in Nat \ {0}
    /\ MaxSlots \in Nat \ {0} /\ MaxTxns \in Nat /\ MaxChanges \in Nat
    /\ Operations \subseteq AllOperations
    /\ CheckpointFirst \in BOOLEAN

FROZEN_XID == 2
Pages == 0 .. PageNumbers - 1
FirstXid == FROZEN_XID + 1
Xids == FirstXid .. FirstXid + MaxTxns - 1

VARIABLES
    xact,          \* state of every transaction id
    next_xid,      \* first transaction id not yet assigned
    mem, disk,     \* every page's line pointers in shared buffers and on disk
    changes,       \* row changes and row locks made so far
    scan,          \* "none", "running" or "ended"
    snapshot,      \* the PgSnapshot of the scan, or NoSnapshot (None)
    pos,           \* the next page of the scan
    out,           \* the versions returned, as <<page, slot, tuple>>
    truth          \* history: what PostgreSQL would show at the snapshot

clusterVars == <<xact, next_xid, mem, disk, changes, scan, snapshot, pos, out, truth>>
pgVars == <<xact, next_xid, mem, changes>>
scanVars == <<scan, snapshot, pos, out, truth>>

NoSnapshot == <<>>
NoTruth == [visible |-> {}, committed |-> {}, finished |-> {}]

-----------------------------------------------------------------------------
(* PostgreSQL, external. *)

(* A fresh row version, and the tuple header fields the reader looks at.   *)
Tuple(row, xid) ==
    [flags |-> "NORMAL", row |-> row, t_xmin |-> xid, t_xmax |-> 0,
     xmax_invalid |-> TRUE, lock_only |-> FALSE]

Committed(xid) == xid \in {FROZEN_XID} \cup {x \in Xids : xact[x] = "committed"}
Active(xid) == xid \in {x \in Xids : xact[x] = "active"}

(* Has the version been deleted or replaced by a committed transaction? *)
Superseded(t) ==
    t.t_xmax # 0 /\ ~t.xmax_invalid /\ ~t.lock_only /\ Committed(t.t_xmax)

(* May transaction xid change or lock the version now? *)
Changeable(t, xid) ==
    /\ t.flags = "NORMAL"
    /\ Committed(t.t_xmin) \/ t.t_xmin = xid
    /\ ~Superseded(t)
    /\ \/ t.t_xmax = 0 \/ t.xmax_invalid \/ ~Active(t.t_xmax)
       \/ t.lock_only /\ t.t_xmax = xid

ClusterInit ==
    /\ xact = [x \in Xids |-> "unused"]
    /\ next_xid = FirstXid
    /\ mem = [p \in Pages |-> IF p = 0 THEN <<Tuple(1, FROZEN_XID)>> ELSE <<>>]
    /\ disk = mem
    /\ changes = 0
    /\ scan = "none"
    /\ snapshot = NoSnapshot
    /\ pos = 0
    /\ out = {}
    /\ truth = NoTruth

Begin ==
    /\ next_xid \in Xids
    /\ xact' = [xact EXCEPT ![next_xid] = "active"]
    /\ next_xid' = next_xid + 1
    /\ UNCHANGED <<mem, changes>>

(* An active transaction changes or locks one more row. *)
Writing(x) ==
    /\ Active(x)
    /\ changes < MaxChanges
    /\ changes' = changes + 1
    /\ UNCHANGED <<xact, next_xid>>

Insert(x, p) ==
    /\ "insert" \in Operations
    /\ Writing(x)
    /\ Len(mem[p]) < MaxSlots
    /\ mem' = [mem EXCEPT ![p] = Append(@, Tuple(changes + 2, x))]

(* DELETE sets xmax; UPDATE also adds the new version, on any page. *)
Marked(t, x, lock) ==
    [t EXCEPT !.t_xmax = x, !.xmax_invalid = FALSE, !.lock_only = lock]

Delete(x, p, i) ==
    /\ "delete" \in Operations
    /\ Writing(x)
    /\ Changeable(mem[p][i], x)
    /\ mem' = [mem EXCEPT ![p][i] = Marked(@, x, FALSE)]

Update(x, p, i, q) ==
    /\ "update" \in Operations
    /\ Writing(x)
    /\ Changeable(mem[p][i], x)
    /\ Len(mem[q]) < MaxSlots
    /\ LET marked == [mem EXCEPT ![p][i] = Marked(@, x, FALSE)]
       IN  mem' = [marked EXCEPT ![q] = Append(@, Tuple(mem[p][i].row, x))]

(* SELECT ... FOR UPDATE stores the locker in xmax. *)
Lock(x, p, i) ==
    /\ "lock" \in Operations
    /\ Writing(x)
    /\ Changeable(mem[p][i], x)
    /\ mem[p][i].t_xmax # x
    /\ mem' = [mem EXCEPT ![p][i] = Marked(@, x, TRUE)]

Finish(x) ==
    /\ Active(x)
    /\ \/ xact' = [xact EXCEPT ![x] = "committed"]
       \/ "abort" \in Operations /\ xact' = [xact EXCEPT ![x] = "aborted"]
    /\ UNCHANGED <<next_xid, mem, changes>>

(* A reader in PostgreSQL finds that xmax means nothing any more. *)
SetHint(p, i) ==
    LET t == mem[p][i]
    IN  /\ t.t_xmax # 0
        /\ ~t.xmax_invalid
        /\ ~Active(t.t_xmax)
        /\ t.lock_only \/ ~Committed(t.t_xmax)
        /\ mem' = [mem EXCEPT ![p][i].xmax_invalid = TRUE]
        /\ UNCHANGED <<xact, next_xid, changes>>

(* VACUUM removes a version no snapshot can see, the scan's included. *)
Vacuum(p, i) ==
    LET t == mem[p][i]
    IN  /\ "vacuum" \in Operations
        /\ t.flags = "NORMAL"
        /\ \/ ~Committed(t.t_xmin) /\ ~Active(t.t_xmin)
           \/ /\ Superseded(t)
              /\ \A x \in Xids : Active(x) => t.t_xmax < x
              /\ scan = "running" => t.t_xmax \in truth.committed
        /\ mem' = [mem EXCEPT ![p][i].flags = "DEAD"]
        /\ UNCHANGED <<xact, next_xid, changes>>

(* A page is written back.  Writes nobody can see any more, because the    *)
(* page has been read or a checkpoint will overwrite it, are left out.     *)
Flush(p) ==
    /\ p >= pos
    /\ CheckpointFirst => scan = "running"
    /\ disk[p] # mem[p]
    /\ disk' = [disk EXCEPT ![p] = mem[p]]
    /\ UNCHANGED <<pgVars, scanVars>>

OnVersion(p, i) ==
    \/ \E x \in Xids : \/ Delete(x, p, i)
                       \/ Lock(x, p, i)
                       \/ \E q \in Pages : Update(x, p, i, q)
    \/ SetHint(p, i)
    \/ Vacuum(p, i)

(* PostgreSQL goes on until the scan is over. *)
Postgres ==
    /\ scan # "ended"
    /\ \/ /\ \/ Begin
             \/ \E x \in Xids : Finish(x) \/ \E p \in Pages : Insert(x, p)
             \/ \E p \in Pages : \E i \in 1 .. Len(mem[p]) : OnVersion(p, i)
          /\ UNCHANGED <<disk, scanVars>>
       \/ \E p \in Pages : Flush(p)

-----------------------------------------------------------------------------
(* pg_arrow. *)

(* The snapshot PostgreSQL reports: PgSnapshot's xmin, xmax and xip. *)
CurrentSnapshot ==
    LET active == {x \in Xids : Active(x)}
    IN  [xmin |-> IF active = {} THEN next_xid
                  ELSE CHOOSE x \in active : \A y \in active : x <= y,
         xmax |-> next_xid,
         xip  |-> active]

(* Mutant: transactions in progress at the snapshot count as finished. *)
xmin_visible_no_xip(snap, t_xmin) == t_xmin <= FROZEN_XID \/ t_xmin < snap.xmax

(* Mutant: the first transaction after the snapshot counts as visible. *)
xmin_visible_at_xmax(snap, t_xmin) ==
    \/ t_xmin <= FROZEN_XID
    \/ t_xmin <= snap.xmax /\ t_xmin \notin snap.xip

(* Mutant: nothing at or above the snapshot's xmin is visible. *)
xmin_visible_below_xmin(snap, t_xmin) == t_xmin <= FROZEN_XID \/ t_xmin < snap.xmin

xmin_visible(snap, t_xmin) ==
    \/ t_xmin <= FROZEN_XID
    \/ t_xmin < snap.xmin
    \/ t_xmin < snap.xmax /\ t_xmin \notin snap.xip

(* Mutant: xmax is not looked at. *)
KeptWhateverXmax(snap, t) ==
    /\ t.flags = "NORMAL"
    /\ snap # NoSnapshot => xmin_visible(snap, t.t_xmin)

(* The tests to_record_batch makes on a tuple before it decodes it. *)
Kept(snap, t) ==
    /\ t.flags = "NORMAL"
    /\ t.xmax_invalid \/ t.t_xmax = 0
    /\ snap # NoSnapshot => xmin_visible(snap, t.t_xmin)

to_record_batch(snap, p) ==
    {<<p, i, disk[p][i]>> : i \in {j \in 1 .. Len(disk[p]) : Kept(snap, disk[p][j])}}

(* What PostgreSQL itself would show a snapshot taken now. *)
VisibleNow ==
    {v \in Pages \X (1 .. MaxSlots) :
        /\ v[2] <= Len(mem[v[1]])
        /\ mem[v[1]][v[2]].flags = "NORMAL"
        /\ Committed(mem[v[1]][v[2]].t_xmin)
        /\ ~Superseded(mem[v[1]][v[2]])}

(* The caller takes a snapshot or none, and starts to read. *)
StartScan ==
    /\ scan = "none"
    /\ scan' = "running"
    /\ snapshot' \in {NoSnapshot, CurrentSnapshot}
    /\ truth' = [visible   |-> VisibleNow,
                 committed |-> {x \in Xids : xact[x] = "committed"},
                 finished  |-> {x \in Xids : xact[x] \in {"committed", "aborted"}}]
    /\ disk' = IF CheckpointFirst THEN mem ELSE disk
    /\ UNCHANGED <<pgVars, pos, out>>

ReadPage ==
    /\ scan = "running"
    /\ out' = out \cup to_record_batch(snapshot, pos)
    /\ pos' = pos + 1
    /\ scan' = IF pos + 1 \in Pages THEN "running" ELSE "ended"
    /\ UNCHANGED <<pgVars, disk, snapshot, truth>>

ClusterNext == Postgres \/ StartScan \/ ReadPage

ClusterSpec == ClusterInit /\ [][ClusterNext]_clusterVars

-----------------------------------------------------------------------------
Tuples ==
    [flags : {"NORMAL", "DEAD"}, row : 1 .. MaxChanges + 1, t_xmin : {FROZEN_XID} \cup Xids,
     t_xmax : {0} \cup Xids, xmax_invalid : BOOLEAN, lock_only : BOOLEAN]

(* The types of the variables. *)
ClusterTypeOK ==
    /\ xact \in [Xids -> {"unused", "active", "committed", "aborted"}]
    /\ next_xid \in FirstXid .. FirstXid + MaxTxns
    /\ mem \in [Pages -> Seq(Tuples)]
    /\ disk \in [Pages -> Seq(Tuples)]
    /\ \A p \in Pages : Len(mem[p]) <= MaxSlots
    /\ changes \in 0 .. MaxChanges
    /\ scan \in {"none", "running", "ended"}
    /\ pos \in 0 .. PageNumbers
    /\ \A r \in out : r \in Pages \X (1 .. MaxSlots) \X Tuples
    /\ truth.committed \subseteq Xids /\ truth.finished \subseteq Xids
    /\ truth.visible \subseteq Pages \X (1 .. MaxSlots)

WithSnapshot == snapshot # NoSnapshot

(* With a snapshot no version is returned whose writer was still running   *)
(* at the snapshot or began later, however late its page was read.         *)
NothingFromTheFuture ==
    WithSnapshot => \A r \in out :
        r[3].t_xmin = FROZEN_XID \/ r[3].t_xmin \in truth.finished

(* With a snapshot and a CHECKPOINT no version is returned that had been   *)
(* deleted or replaced by a transaction committed before the snapshot.     *)
NothingSuperseded ==
    WithSnapshot => \A r \in out :
        ~(/\ mem[r[1]][r[2]].t_xmax \in truth.committed
          /\ ~mem[r[1]][r[2]].lock_only)

(* With a snapshot and a CHECKPOINT at most one committed version of a row *)
(* is returned, even when the row is updated from a page not yet read to   *)
(* one already read, or the other way round, while the scan runs.          *)
OneCommittedVersion ==
    WithSnapshot => \A r, s \in out :
        /\ r[3].row = s[3].row
        /\ Committed(r[3].t_xmin)
        /\ Committed(s[3].t_xmin)
        => r = s

(* A version that PostgreSQL showed when the scan began, and whose xmax    *)
(* nobody has set since, is returned.                                      *)
UntouchedReturned ==
    scan = "ended" => \A v \in truth.visible :
        mem[v[1]][v[2]].t_xmax = 0 => \E r \in out : r[1] = v[1] /\ r[2] = v[2]

(* snapshot.rs: "All xids < xmin are committed and visible."  Every version *)
(* a snapshot scan returns was written by a committed transaction.         *)
WrittenByCommitted ==
    WithSnapshot => \A r \in out :
        r[3].t_xmin = FROZEN_XID \/ r[3].t_xmin \in truth.committed

-----------------------------------------------------------------------------
(* The invariant behind these, one part per idea. *)

(* Two row versions at different places. *)
Apart(p, i, q, j) == p # q \/ i # j

(* Transaction ids are used in their order. *)
XidsInOrder == \A x \in Xids : xact[x] = "unused" <=> x >= next_xid

(* An xmax names a transaction that has begun, the hint that it means      *)
(* nothing is given only for locks and rollbacks, and the rows are         *)
(* numbered by the changes that made them.                                 *)
HintsHonest ==
    \A p \in Pages : \A i \in 1 .. Len(mem[p]) :
      /\ mem[p][i].t_xmax # 0 => xact[mem[p][i].t_xmax] # "unused"
      /\ mem[p][i].t_xmax # 0 /\ mem[p][i].xmax_invalid /\ ~mem[p][i].lock_only
           => xact[mem[p][i].t_xmax] = "aborted"
      /\ mem[p][i].row <= changes + 1

(* Has the version been deleted or replaced, whatever became of that? *)
Replaced(t) == t.t_xmax # 0 /\ ~t.xmax_invalid /\ ~t.lock_only

(* Is the version out of the game for good? *)
Gone(t) ==
    \/ t.t_xmin \in Xids /\ xact[t.t_xmin] = "aborted"
    \/ Superseded(t)

(* Of two versions of a row one is gone, or the transaction that wrote the *)
(* one is the transaction that replaced the other: no outcome of the       *)
(* transactions still running makes both valid.                            *)
Rivals ==
    \A p, q \in Pages : \A i \in 1 .. Len(mem[p]), j \in 1 .. Len(mem[q]) :
      Apart(p, i, q, j) /\ mem[p][i].row = mem[q][j].row =>
        \/ Gone(mem[p][i]) \/ Gone(mem[q][j])
        \/ Replaced(mem[p][i]) /\ mem[p][i].t_xmax = mem[q][j].t_xmin
        \/ Replaced(mem[q][j]) /\ mem[q][j].t_xmax = mem[p][i].t_xmin

(* A page on disk is an earlier state of the page in shared buffers. *)
DiskIsOlder ==
    \A p \in Pages :
      /\ Len(disk[p]) <= Len(mem[p])
      /\ \A i \in 1 .. Len(disk[p]) :
           /\ disk[p][i].row = mem[p][i].row
           /\ disk[p][i].t_xmin = mem[p][i].t_xmin
           /\ mem[p][i].t_xmax = 0 => disk[p][i].t_xmax = 0
           /\ mem[p][i].flags = "NORMAL" => disk[p][i].flags = "NORMAL"

(* The outcomes known at the snapshot stay what they were, and             *)
(* xmin_visible tells exactly the transactions that had finished.          *)
TruthLasts ==
    /\ scan = "none" => snapshot = NoSnapshot /\ truth = NoTruth /\ out = {} /\ pos = 0
    /\ scan = "running" => pos \in Pages
    /\ scan = "ended" => pos = PageNumbers
    /\ \A x \in truth.committed : xact[x] = "committed"
    /\ \A x \in truth.finished : x \in truth.committed \/ xact[x] = "aborted"
    /\ truth.committed \subseteq truth.finished
    /\ WithSnapshot => \A x \in Xids : xmin_visible(snapshot, x) <=> x \in truth.finished

(* What is returned comes from pages already read, once per place, and is  *)
(* the version that is still there.                                        *)
OutIsThere ==
    /\ \A r \in out : /\ r[1] < pos
                      /\ r[2] <= Len(mem[r[1]])
                      /\ r[3].row = mem[r[1]][r[2]].row
                      /\ r[3].t_xmin = mem[r[1]][r[2]].t_xmin
    /\ \A r, s \in out : r[1] = s[1] /\ r[2] = s[2] => r = s

(* Had the version been deleted or replaced at the snapshot? *)
SupersededThen(t) == t.t_xmax \in truth.committed /\ ~t.lock_only

(* Was the version written by a transaction committed at the snapshot? *)
WrittenThen(t) == t.t_xmin = FROZEN_XID \/ t.t_xmin \in truth.committed

(* The pages still to be read know what was superseded at the snapshot.    *)
DiskKnows ==
    scan = "running" => \A p \in Pages : \A i \in 1 .. Len(mem[p]) :
      p >= pos /\ SupersededThen(mem[p][i]) =>
        /\ i <= Len(disk[p])
        /\ disk[p][i].t_xmax # 0
        /\ ~disk[p][i].xmax_invalid

(* At the snapshot a row had at most one valid version. *)
OneSurvivor ==
    scan # "none" =>
      \A p, q \in Pages : \A i \in 1 .. Len(mem[p]), j \in 1 .. Len(mem[q]) :
        /\ Apart(p, i, q, j)
        /\ mem[p][i].row = mem[q][j].row
        /\ WrittenThen(mem[p][i])
        /\ WrittenThen(mem[q][j])
        => SupersededThen(mem[p][i]) \/ SupersededThen(mem[q][j])

(* What was visible is still there; as long as nobody sets its xmax it is  *)
(* on disk until its page is read, and in the answer from then on.         *)
VisibleStays ==
    \A v \in truth.visible :
      /\ v[2] <= Len(mem[v[1]])
      /\ WrittenThen(mem[v[1]][v[2]])
      /\ mem[v[1]][v[2]].t_xmax = 0 =>
           /\ mem[v[1]][v[2]].flags = "NORMAL"
           /\ v[1] >= pos => v[2] <= Len(disk[v[1]])
           /\ v[1] < pos => \E r \in out : r[1] = v[1] /\ r[2] = v[2]

(* The inductive invariant of a scan with a CHECKPOINT. *)
VisibilityInv ==
    /\ ClusterTypeOK /\ XidsInOrder /\ HintsHonest /\ Rivals
    /\ DiskIsOlder /\ TruthLasts /\ OutIsThere /\ NothingFromTheFuture
    /\ CheckpointFirst =>
         DiskKnows /\ OneSurvivor /\ NothingSuperseded /\ VisibleStays
=============================================================================
