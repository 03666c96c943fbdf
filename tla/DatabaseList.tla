---------------------------- MODULE DatabaseList ----------------------------
(***************************************************************************)
(* list_databases and get_database_oid (src/src/table/mod.rs): a walk over *)
(* the pages of the shared catalog pg_database, page by page and line      *)
(* pointer by line pointer, while PostgreSQL creates, renames and drops    *)
(* databases.  A page is copied when it is read; its rows come from the    *)
(* copy.                                                                   *)
(*                                                                         *)
(* A row version has the xmax the code looks at and, in `live`, whether    *)
(* it is the one a committed reader of PostgreSQL sees.  A page that has   *)
(* changed is on disk at once; a line pointer that is not LP_NORMAL is     *)
(* Free.                                                                   *)
(***************************************************************************)
EXTENDS Naturals, Sequences, FiniteSets, FiniteSetsExt

CONSTANTS
    Dbs,           \* oids of databases
    DbNames,
    Slots,         \* line pointers of a page
    MaxChanges     \* bound: changes PostgreSQL makes

ASSUME DatabaseListAssumption ==
    /\ IsFiniteSet(Dbs) /\ Dbs \subseteq Nat \ {0}
    /\ Slots \in Nat \ {0} /\ MaxChanges \in Nat

VARIABLES
    pages,         \* of pg_database: per page, its line pointers
    changes,       \* changes made
    touched,       \* history: databases changed since the walk began
    existed,       \* history: names with their oids, valid since it began
    at,            \* "start", "walk", "rows", "done", "panicked"
    page_index,
    page,          \* the page that was read, and the line pointer
    posid,         \* the loop over it is at
    out,
    cut            \* history: an error ended the walk before the last page

pgVars == <<pages, changes, touched, existed>>
walkVars == <<at, page_index, page, posid, out, cut>>
vars == <<pgVars, walkVars>>

Free == [oid |-> 0]
NoPage == <<>>

-----------------------------------------------------------------------------
(* PostgreSQL, external. *)

Rows == {pages[p][i] : p \in 1 .. Len(pages), i \in 1 .. Slots} \ {Free}

LiveRows(rows) == {row \in rows : row.live}

Named(rows) == {<<row.datname, row.oid>> : row \in LiveRows(rows)}

EmptyPage == [i \in 1 .. Slots |-> Free]

Row(d, name, live) == [oid |-> d, datname |-> name, t_xmax |-> 0, live |-> live]

Init ==
    /\ pages \in {<<>>, <<EmptyPage>>}
    /\ changes = 0
    /\ touched = {}
    /\ existed = {}
    /\ at = "start"
    /\ page_index = 0
    /\ page = NoPage
    /\ posid = 0
    /\ out = <<>>
    /\ cut = FALSE

Changing(oids) ==
    /\ changes < MaxChanges
    /\ changes' = changes + 1
    /\ touched' = touched \cup oids

(* The row goes into any free slot, or onto a new page. *)
Place(heap, row) ==
    \/ \E p \in 1 .. Len(heap), i \in 1 .. Slots :
         /\ heap[p][i] = Free
         /\ pages' = [heap EXCEPT ![p] = [@ EXCEPT ![i] = row]]
    \/ pages' = Append(heap, [EmptyPage EXCEPT ![1] = row])

(* The live version of a database is superseded or deleted, by a           *)
(* transaction that commits or not; either way it leaves its xmax.         *)
Superseded(d, committed) ==
    [p \in 1 .. Len(pages) |-> [i \in 1 .. Slots |->
       IF pages[p][i].oid = d /\ pages[p][i].live
         THEN [pages[p][i] EXCEPT !.t_xmax = 3 + changes, !.live = ~committed]
         ELSE pages[p][i]]]

CreateDatabase(d, name) ==
    /\ Changing({d})
    /\ \A row \in Rows : row.oid # d /\ (row.live => row.datname # name)
    /\ \E committed \in BOOLEAN : Place(pages, Row(d, name, committed))

RenameDatabase(d, name) ==
    /\ Changing({d})
    /\ \E row \in LiveRows(Rows) : row.oid = d
    /\ \A row \in LiveRows(Rows) : row.datname # name
    /\ \E committed \in BOOLEAN :
         Place(Superseded(d, committed), Row(d, name, committed))

DropDatabase(d) ==
    /\ Changing({d})
    /\ \E row \in LiveRows(Rows) : row.oid = d
    /\ \E committed \in BOOLEAN : pages' = Superseded(d, committed)

Vacuum ==
    /\ Changing({})
    /\ pages' = [p \in 1 .. Len(pages) |-> [i \in 1 .. Slots |->
         IF pages[p][i] # Free /\ ~pages[p][i].live THEN Free ELSE pages[p][i]]]

Postgres ==
    /\ \/ \E d \in Dbs :
            \/ \E name \in DbNames : CreateDatabase(d, name) \/ RenameDatabase(d, name)
            \/ DropDatabase(d)
       \/ Vacuum
    /\ existed' = existed \cup Named(Rows')
    /\ UNCHANGED walkVars

-----------------------------------------------------------------------------
(* list_databases is called. *)
Begin ==
    /\ at \in {"start", "done"}
    /\ at' = "walk"
    /\ page_index' = 0
    /\ page' = NoPage
    /\ posid' = 0
    /\ out' = <<>>
    /\ cut' = FALSE
    /\ touched' = {}
    /\ existed' = Named(Rows)
    /\ UNCHANGED <<pages, changes>>

(* Mutant: superseded and deleted versions are listed, too. *)
KeepDeleted(lp) == lp # Free

(* Mutant: the first line pointer of the page is passed over. *)
KeepButFirst(lp) == lp # Free /\ lp.t_xmax = 0 /\ posid > 0

(* The tuples of a page that are listed. *)
Keep(lp) == lp # Free /\ lp.t_xmax = 0

(* One turn of the outer loop: the next page is read. *)
ReadPage ==
    /\ at = "walk"
    /\ page_index < Len(pages)
    /\ page' = pages[page_index + 1]
    /\ posid' = 0
    /\ at' = "rows"
    /\ UNCHANGED <<pgVars, page_index, out, cut>>

(* One turn of the inner loop: a row is pushed, or passed over. *)
NextRow ==
    /\ at = "rows"
    /\ posid < Slots
    /\ out' = IF Keep(page[posid + 1]) THEN Append(out, page[posid + 1]) ELSE out
    /\ posid' = posid + 1
    /\ UNCHANGED <<pgVars, at, page_index, page, cut>>

(* The page is done with. *)
NextPage ==
    /\ at = "rows"
    /\ posid >= Slots
    /\ page_index' = page_index + 1
    /\ page' = NoPage
    /\ posid' = 0
    /\ at' = "walk"
    /\ UNCHANGED <<pgVars, out, cut>>

(* Any error of get_page_by_index ends the loop and the list is returned   *)
(* as it is: at the last page, or where an open or a read fails.           *)
EndOfPages ==
    /\ at = "walk"
    /\ at' = "done"
    /\ cut' = (page_index < Len(pages))
    /\ UNCHANGED <<pgVars, page_index, page, posid, out>>

(* A first open that fails makes get_page_by_index panic. *)
OpenPanics ==
    /\ at = "walk"
    /\ page_index = 0
    /\ at' = "panicked"
    /\ UNCHANGED <<pgVars, page_index, page, posid, out, cut>>

list_databases == Begin \/ ReadPage \/ NextRow \/ NextPage \/ EndOfPages \/ OpenPanics

(* The first of the listed databases that has the name; 0 for None. *)
get_database_oid(name) ==
    LET found == {i \in 1 .. Len(out) : out[i].datname = name}
    IN  IF found = {} THEN 0 ELSE out[Min(found)].oid

Next == Postgres \/ list_databases

Spec == Init /\ [][Next]_vars

-----------------------------------------------------------------------------
(* A row that a rolled-back change left without an xmax. *)
LeftOver(row) == ~row.live /\ row.t_xmax = 0

(* When the walk is done, a database that has not been changed since it    *)
(* began is found under its name, whatever was created, renamed, dropped   *)
(* and vacuumed on the pages before and behind the walk; except that one   *)
(* whose row bears the xmax of a rolled-back change is hidden, that a      *)
(* left-over row of the same name may be taken for it, and that an error   *)
(* hides the databases of the pages from there on, though Ok is returned.  *)
UntouchedFound ==
    at = "done" /\ ~cut =>
      \A row \in LiveRows(Rows) :
        /\ row.oid \notin touched
        /\ row.t_xmax = 0
        /\ \A i \in 1 .. Len(out) : LeftOver(out[i]) => out[i].datname # row.datname
        => get_database_oid(row.datname) = row.oid

(* Every name listed was the name of that database at some time since the  *)
(* call began, or is left over from a change that was rolled back.         *)
ListedExisted ==
    \A i \in 1 .. Len(out) : LeftOver(out[i]) \/ <<out[i].datname, out[i].oid>> \in existed

-----------------------------------------------------------------------------
(* The invariant that makes the above hold.                                *)

RowVersions == [oid : Dbs, datname : DbNames, t_xmax : Nat, live : BOOLEAN]

ListTypeOK ==
    /\ pages \in Seq([1 .. Slots -> RowVersions \cup {Free}])
    /\ changes \in Nat
    /\ touched \subseteq Dbs
    /\ existed \subseteq DbNames \X Dbs
    /\ at \in {"start", "walk", "rows", "done", "panicked"}
    /\ page_index \in Nat
    /\ posid \in 0 .. Slots
    /\ at = "rows" => page \in [1 .. Slots -> RowVersions \cup {Free}]
    /\ out \in Seq(RowVersions)
    /\ cut \in BOOLEAN

(* A row version the walk must not miss. *)
Due(row) == row # Free /\ row.live /\ row.oid \notin touched /\ row.t_xmax = 0

Listed(row) == \E k \in 1 .. Len(out) : out[k] = row

(* No two databases have a name at the same time, and a database that has  *)
(* not been changed since the walk began has kept others from its name.    *)
NamesUnique ==
    /\ \A r1, r2 \in LiveRows(Rows) : r1.datname = r2.datname => r1.oid = r2.oid
    /\ Named(Rows) \subseteq existed
    /\ \A row \in LiveRows(Rows) : row.oid \notin touched =>
         \A pair \in existed : pair[1] = row.datname => pair[2] = row.oid

(* How far the walk has come: the rows due on the pages behind it and in   *)
(* the part of the copy behind posid are listed, and the copy still agrees *)
(* with its page on the rows that are due.                                 *)
WalkCovers ==
    /\ at \in {"walk", "rows"} =>
         /\ page_index <= Len(pages)
         /\ \A p \in 1 .. page_index, i \in 1 .. Slots :
              Due(pages[p][i]) => Listed(pages[p][i])
    /\ at = "rows" =>
         /\ page_index < Len(pages)
         /\ \A i \in 1 .. Slots : Due(pages[page_index + 1][i]) =>
              page[i] = pages[page_index + 1][i]
         /\ \A i \in 1 .. posid : Keep(page[i]) => Listed(page[i])
         /\ \A i \in 1 .. Slots : page[i] # Free /\ page[i].live =>
              <<page[i].datname, page[i].oid>> \in existed
    /\ at = "done" /\ ~cut => \A p \in 1 .. Len(pages), i \in 1 .. Slots :
         Due(pages[p][i]) => Listed(pages[p][i])

(* The inductive invariant of the walk over pg_database. *)
ListInv ==
    /\ ListTypeOK
    /\ NamesUnique
    /\ WalkCovers
    /\ ListedExisted
=============================================================================
