---------------------------- MODULE TableReader ----------------------------
(***************************************************************************)
(* PgTableReader and bootstrap_catalogs (src/src/table/mod.rs): catalog    *)
(* rows read once and kept, a selected table, and fetch calls that open    *)
(* its file, while PostgreSQL runs DDL.                                    *)
(*                                                                         *)
(* A catalog is the sequence of its line pointers.  A row version has the  *)
(* xmax the code looks at and, in `live`, what a committed reader of       *)
(* PostgreSQL would see, which the code cannot know.  The caches, Vecs in  *)
(* heap order, are functions from the line pointers the rows were read     *)
(* from.  The row of a table reaches its file later than it is written;    *)
(* what PostgreSQL writes to the catalogs is taken to be on disk at once.  *)
(* Every database has pg_class itself, as its row describes it: an         *)
(* ordinary table, but mapped, with relfilenode 0.  A catalog or a table   *)
(* is read in one step, which an I/O error may cut short: the iteration    *)
(* over pages is the subject of RowIter, page copies that lag behind that  *)
(* of Visibility, the columns of a tuple that of TupleDecode.  User tables *)
(* of two databases never share an oid here, so that a mixture of          *)
(* databases shows.                                                        *)
(***************************************************************************)
EXTENDS PgSchema, FiniteSets, SequencesExt

CONSTANTS
    Dbs,           \* database oids
    Names,         \* table names
    MaxDdl,        \* bound: changes PostgreSQL makes
    Ddl,           \* kinds of change, a subset of AllDdl
    CatalogPage    \* line pointers of a page of a catalog

AllDdl == {"create", "drop", "alter", "rewrite", "rows", "flush", "vacuum"}

ASSUME TableReaderAssumption ==
    /\ IsFiniteSet(Dbs) /\ Dbs # {} /\ IsFiniteSet(Names)
    /\ MaxDdl \in Nat /\ Ddl \subseteq AllDdl /\ CatalogPage \in Nat \ {0}

FirstNormalObjectId == 16384
PgClassOid == 1259

VARIABLES
    pg_class,      \* per database, the line pointers of pg_class
    pg_attribute,  \* and of pg_attribute, in heap order
    files,         \* per database, the tuples of its heap files, by relfilenode
    changes,       \* changes made, also the source of new oids and filenodes
    touched,       \* history: tables changed since the bootstrap began
    db_id, pg_class_cache, pg_attribute_cache, current_table, current_schema,
    boot_class,    \* bootstrap_catalogs: the pg_class rows it has read
    cut,           \* history: an I/O error cut one of its two reads short
    at,            \* "start", "class", "attribute", "idle", "panicked"
    result         \* what the last call returned, and what is there in truth

pgVars == <<pg_class, pg_attribute, files, changes, touched>>
cacheVars == <<db_id, pg_class_cache, pg_attribute_cache, boot_class, cut>>
readerVars == <<cacheVars, current_table, current_schema, at, result>>
vars == <<pgVars, readerVars>>

None == [oid |-> 0]
NoResult == [call |-> "none"]

(* A line pointer without a tuple. *)
Free == [oid |-> 0, attrelid |-> 0, live |-> FALSE]

-----------------------------------------------------------------------------
(* PostgreSQL, external. *)

Rows(heap) == {heap[i] : i \in 1 .. Len(heap)} \ {Free}

Class(d) == Rows(pg_class[d])

LiveClass(d) == {c \in Class(d) : c.live /\ c.relkind = "r"}

(* The file of a mapped catalog is named in pg_filenode.map.               *)
Mapped(c) == c.relkind = "r" /\ c.relfilenode = 0

UserTables(d) == {c \in LiveClass(d) : ~Mapped(c)}

(* The columns of a table. *)
LiveAttributes(d, oid) ==
    {i \in 1 .. Len(pg_attribute[d]) : pg_attribute[d][i].live /\ pg_attribute[d][i].attrelid = oid}

Filenodes(d) == DOMAIN files[d]
Tuples(d, node) == files[d][node]

(* Row versions written by a transaction that commits or not. *)
ClassRow(oid, name, kind, node, committed) ==
    [oid |-> oid, relname |-> name, relkind |-> kind, relfilenode |-> node,
     t_xmax |-> 0, live |-> committed]

AttributeRow(oid, attnum, type, committed) ==
    [attrelid |-> oid, attnum |-> attnum, attisdropped |-> FALSE, type |-> type,
     t_xmax |-> 0, live |-> committed]

(* A row of a table, and whether its page is on disk with the row on it. *)
TupleRow(id, committed) == [id |-> id, t_xmax |-> 0, live |-> committed, on_disk |-> FALSE]

(* A version that a transaction deletes or supersedes.  One that is rolled *)
(* back leaves its xmax, too.                                              *)
Marked(row, committed) == [row EXCEPT !.t_xmax = changes + 3, !.live = ~committed]

MarkedClass(d, oid, committed) ==
    [i \in 1 .. Len(pg_class[d]) |->
       IF pg_class[d][i].live /\ pg_class[d][i].oid = oid
         THEN Marked(pg_class[d][i], committed) ELSE pg_class[d][i]]

MarkedAttributes(d, oid, attnums, committed) ==
    [i \in 1 .. Len(pg_attribute[d]) |->
       IF /\ pg_attribute[d][i].live /\ pg_attribute[d][i].attrelid = oid
          /\ pg_attribute[d][i].attnum \in attnums
         THEN Marked(pg_attribute[d][i], committed) ELSE pg_attribute[d][i]]

MarkedTuples(tuples, committed) ==
    {IF t.live THEN Marked(t, committed) ELSE t : t \in tuples}

(* The heaps a new row may leave: it is put anywhere that is free, or      *)
(* behind the rest.                                                        *)
Placed(heap, row) ==
    {[heap EXCEPT ![i] = row] : i \in {i \in 1 .. Len(heap) : heap[i] = Free}}
      \cup {Append(heap, row)}

Vacuumed(heap) == [i \in 1 .. Len(heap) |-> IF heap[i].live THEN heap[i] ELSE Free]

(* The heap files when a transaction ends that would delete one and has    *)
(* created another: the one or the other goes.                             *)
Replaced(fs, old, new, tuples, committed) ==
    IF committed
      THEN [n \in (DOMAIN fs \ {old}) \cup new |-> IF n \in new THEN tuples ELSE fs[n]]
      ELSE fs

Init ==
    /\ pg_class = [d \in Dbs |-> <<ClassRow(PgClassOid, "pg_class", "r", 0, TRUE)>>]
    /\ pg_attribute = [d \in Dbs |-> <<AttributeRow(PgClassOid, 1, "int4", TRUE)>>]
    /\ files = [d \in Dbs |-> <<>>]
    /\ changes = 0
    /\ touched = {}
    /\ db_id = 0
    /\ pg_class_cache = <<>>
    /\ pg_attribute_cache = <<>>
    /\ boot_class = <<>>
    /\ cut = FALSE
    /\ current_table = None
    /\ current_schema = <<>>
    /\ at = "start"
    /\ result = NoResult

(* One more change, of a kind the model allows, to some tables. *)
Changing(kind, oids) ==
    /\ kind \in Ddl
    /\ changes < MaxDdl
    /\ changes' = changes + 1
    /\ touched' = touched \cup oids

NewOid == FirstNormalObjectId + changes

(* No relation of the database has the name. *)
NameFree(d, name) == \A c \in Class(d) : c.live => c.relname # name

(* CREATE TABLE, two columns and a row. *)
CreateTable(d, name, committed) ==
    /\ Changing("create", {NewOid})
    /\ NameFree(d, name)
    /\ \E heap \in Placed(pg_class[d], ClassRow(NewOid, name, "r", NewOid, committed)) :
         pg_class' = [pg_class EXCEPT ![d] = heap]
    /\ pg_attribute' = [pg_attribute EXCEPT ![d] = @ \o
         <<AttributeRow(NewOid, -1, "tid", committed), AttributeRow(NewOid, 1, "int4", committed),
           AttributeRow(NewOid, 2, "text", committed)>>]
    /\ files' = [files EXCEPT ![d] =
         Replaced(@, 0, {NewOid}, {TupleRow(NewOid, TRUE)}, committed)]

(* CREATE VIEW: a row of pg_class with no file. *)
CreateView(d, name, committed) ==
    /\ Changing("create", {NewOid})
    /\ NameFree(d, name)
    /\ \E heap \in Placed(pg_class[d], ClassRow(NewOid, name, "v", 0, committed)) :
         pg_class' = [pg_class EXCEPT ![d] = heap]
    /\ \E heap \in Placed(pg_attribute[d], AttributeRow(NewOid, 1, "text", committed)) :
         pg_attribute' = [pg_attribute EXCEPT ![d] = heap]
    /\ UNCHANGED files

DropRelation(d, c, committed) ==
    /\ Changing("drop", {c.oid})
    /\ c.live /\ ~Mapped(c)
    /\ pg_class' = [pg_class EXCEPT ![d] = MarkedClass(d, c.oid, committed)]
    /\ pg_attribute' = [pg_attribute EXCEPT ![d] =
         MarkedAttributes(d, c.oid, {-1, 1, 2}, committed)]
    /\ files' = [files EXCEPT ![d] = Replaced(@, c.relfilenode, {}, {}, committed)]

(* ALTER TABLE ... ALTER COLUMN: a new version of the attribute's row. *)
AlterColumn(d, c, committed) ==
    /\ Changing("alter", {c.oid})
    /\ c \in UserTables(d)
    /\ \E heap \in Placed(MarkedAttributes(d, c.oid, {1}, committed),
                          AttributeRow(c.oid, 1, "int4", committed)) :
         pg_attribute' = [pg_attribute EXCEPT ![d] = heap]
    /\ UNCHANGED <<pg_class, files>>

(* VACUUM FULL or CLUSTER: the live rows move to a new file, which is      *)
(* synced before the transaction commits.                                  *)
Rewrite(d, c, committed) ==
    /\ Changing("rewrite", {c.oid})
    /\ c \in UserTables(d)
    /\ \E heap \in Placed(MarkedClass(d, c.oid, committed),
                          ClassRow(c.oid, c.relname, "r", NewOid, committed)) :
         pg_class' = [pg_class EXCEPT ![d] = heap]
    /\ files' = [files EXCEPT ![d] =
         Replaced(@, c.relfilenode, {NewOid},
                  {[t EXCEPT !.on_disk = TRUE] : t \in {t \in Tuples(d, c.relfilenode) : t.live}},
                  committed)]
    /\ UNCHANGED pg_attribute

(* INSERT one row, or UPDATE them all; no table's definition changes. *)
ChangeRows(d, c, committed) ==
    /\ Changing("rows", {})
    /\ c \in UserTables(d)
    /\ \E kept \in {Tuples(d, c.relfilenode), MarkedTuples(Tuples(d, c.relfilenode), committed)} :
         files' = [files EXCEPT ![d] =
           [@ EXCEPT ![c.relfilenode] = kept \cup {TupleRow(NewOid, committed)}]]
    /\ UNCHANGED <<pg_class, pg_attribute>>

Vacuum(d) ==
    /\ Changing("vacuum", {})
    /\ pg_class' = [pg_class EXCEPT ![d] = Vacuumed(@)]
    /\ pg_attribute' = [pg_attribute EXCEPT ![d] = Vacuumed(@)]
    /\ UNCHANGED files

(* The page of a row is written to the file. *)
WriteBack(d, node) ==
    /\ Changing("flush", {})
    /\ \E t \in Tuples(d, node) :
         /\ ~t.on_disk
         /\ files' = [files EXCEPT ![d][node] = (@ \ {t}) \cup {[t EXCEPT !.on_disk = TRUE]}]
    /\ UNCHANGED <<pg_class, pg_attribute>>

Postgres ==
    \E d \in Dbs :
      \/ \E committed \in BOOLEAN :
           \/ \E name \in Names : CreateTable(d, name, committed) \/ CreateView(d, name, committed)
           \/ \E c \in Class(d) :
                \/ DropRelation(d, c, committed) \/ AlterColumn(d, c, committed)
                \/ Rewrite(d, c, committed) \/ ChangeRows(d, c, committed)
      \/ Vacuum(d)
      \/ \E node \in Filenodes(d) : WriteBack(d, node)

-----------------------------------------------------------------------------
(* The reader. *)

TableNames == Names \cup {"pg_class"}

(* Mutant: the selection survives the change of database. *)
set_db_keeps_table(d) ==
    /\ at \in {"start", "idle"}
    /\ db_id' = d
    /\ at' = "class"
    /\ result' = NoResult
    /\ touched' = {}
    /\ cut' = FALSE
    /\ UNCHANGED <<pg_class, pg_attribute, files, changes,
                   pg_class_cache, pg_attribute_cache, boot_class,
                   current_table, current_schema>>

(* new and set_db: the selection is cleared, then the catalogs are read. *)
set_db(d) ==
    /\ at \in {"start", "idle"}
    /\ db_id' = d
    /\ current_table' = None
    /\ current_schema' = <<>>
    /\ at' = "class"
    /\ result' = NoResult
    /\ touched' = {}
    /\ cut' = FALSE
    /\ UNCHANGED <<pg_class, pg_attribute, files, changes,
                   pg_class_cache, pg_attribute_cache, boot_class>>

(* The rows of pg_class that are kept: the versions without an xmax. *)
KeptClass(d) == {i \in 1 .. Len(pg_class[d]) : pg_class[d][i] # Free /\ pg_class[d][i].t_xmax = 0}

(* The line pointers up to which a catalog is read: an I/O error on a page *)
(* ends the iteration as the end of the file does.                         *)
Stops(heap) == {n \in 0 .. Len(heap) : n % CatalogPage = 0 \/ n = Len(heap)}

(* bootstrap_catalogs reads pg_class. *)
BootClass ==
    /\ at = "class"
    /\ \E n \in Stops(pg_class[db_id]) :
         /\ boot_class' = [i \in KeptClass(db_id) \cap (1 .. n) |-> pg_class[db_id][i]]
         /\ cut' = (n < Len(pg_class[db_id]))
    /\ at' = "attribute"
    /\ UNCHANGED <<pgVars, db_id, pg_class_cache, pg_attribute_cache,
                   current_table, current_schema, result>>

(* The rows of pg_attribute that are kept: every version. *)
KeptAttributes(d) == {i \in 1 .. Len(pg_attribute[d]) : pg_attribute[d][i] # Free}

(* Mutant: the old pg_class rows are kept. *)
BootAttributeKeepsClass ==
    /\ at = "attribute"
    /\ \E n \in Stops(pg_attribute[db_id]) :
         /\ pg_attribute_cache' =
              [i \in KeptAttributes(db_id) \cap (1 .. n) |-> pg_attribute[db_id][i]]
         /\ cut' = (cut \/ n < Len(pg_attribute[db_id]))
    /\ boot_class' = <<>>
    /\ at' = "idle"
    /\ UNCHANGED <<pgVars, db_id, pg_class_cache, current_table, current_schema, result>>

(* Then pg_attribute.  Both caches are replaced together. *)
BootAttribute ==
    /\ at = "attribute"
    /\ pg_class_cache' = boot_class
    /\ \E n \in Stops(pg_attribute[db_id]) :
         /\ pg_attribute_cache' =
              [i \in KeptAttributes(db_id) \cap (1 .. n) |-> pg_attribute[db_id][i]]
         /\ cut' = (cut \/ n < Len(pg_attribute[db_id]))
    /\ boot_class' = <<>>
    /\ at' = "idle"
    /\ UNCHANGED <<pgVars, db_id, current_table, current_schema, result>>

(* The file of a catalog cannot be opened. *)
BootPanics ==
    /\ at \in {"class", "attribute"}
    /\ at' = "panicked"
    /\ UNCHANGED <<pgVars, cacheVars, current_table, current_schema, result>>

(* The cached rows set_table chooses from; it takes the first. *)
Find(name) ==
    {i \in DOMAIN pg_class_cache :
       pg_class_cache[i].relname = name /\ pg_class_cache[i].relkind = "r"}

Found(name) == pg_class_cache[Min(Find(name))]

(* Rows in the order of the line pointers they were read from. *)
InHeapOrder(rows) ==
    LET order == SetToSortSeq(DOMAIN rows, <)
    IN  [k \in 1 .. Len(order) |-> rows[order[k]]]

(* Mutant: all attributes are taken. *)
SchemaOfEverything(oid) == from_attributes(InHeapOrder(pg_attribute_cache))

SchemaOf(oid) ==
    LET attrs == {i \in DOMAIN pg_attribute_cache : pg_attribute_cache[i].attrelid = oid}
    IN  from_attributes(InHeapOrder([i \in attrs |-> pg_attribute_cache[i]]))

get_all_tables ==
    [i \in {i \in DOMAIN pg_class_cache : pg_class_cache[i].relkind = "r"} |->
       [table |-> pg_class_cache[i], schema |-> SchemaOf(pg_class_cache[i].oid)]]

(* A name that is not found leaves the selection as it was. *)
set_table(name) ==
    /\ at = "idle"
    /\ \/ /\ Find(name) # {}
          /\ current_table' = Found(name)
          /\ current_schema' = SchemaOf(Found(name).oid)
          /\ result' = [call |-> "set_table", st |-> "ok"]
       \/ /\ Find(name) = {}
          /\ result' = [call |-> "set_table", st |-> "error"]
          /\ UNCHANGED <<current_table, current_schema>>
    /\ UNCHANGED <<pgVars, cacheVars, at>>

Ids(tuples) == {t.id : t \in tuples}

(* The version of the selected table's row that PostgreSQL sees, if any. *)
Selected == {c \in LiveClass(db_id) : c.oid = current_table.oid}

OnDisk(node) == {t \in Tuples(db_id, node) : t.on_disk}

(* Its rows, as far as they are on disk. *)
TrueRows ==
    UNION {Ids({t \in OnDisk(c.relfilenode) : t.live}) : c \in {c \in Selected : ~Mapped(c)}}

Return(call, st, rows, faulted) ==
    result' = [call |-> call, st |-> st, rows |-> rows, live |-> TrueRows, faulted |-> faulted]

(* Mutant: the file is looked for under the oid. *)
relfilenode_oid == current_table.oid

relfilenode == current_table.relfilenode

(* require_table, then a fresh TableFileReader on the relfilenode cached   *)
(* with the selection: a file that is missing or cannot be opened is a     *)
(* panic, an I/O error later the end of what is read.  fetch_all returns   *)
(* every tuple read (fetch_all_projected and fetch_with_filter read the    *)
(* same tuples), fetch_by_limit reads some and returns none.               *)
Fetch(call, kept) ==
    /\ at = "idle"
    /\ \/ /\ current_table = None
          /\ result' = [call |-> call, st |-> "error"]
          /\ UNCHANGED at
       \/ /\ current_table # None
          /\ \E faulted \in BOOLEAN :
               /\ relfilenode \notin Filenodes(db_id) \/ faulted
               /\ Return(call, "panic", {}, faulted)
          /\ at' = "panicked"
       \/ /\ current_table # None
          /\ relfilenode \in Filenodes(db_id)
          /\ \E read \in SUBSET OnDisk(relfilenode) :
               Return(call, "ok", IF kept THEN Ids(read) ELSE {}, read # OnDisk(relfilenode))
          /\ UNCHANGED at
    /\ UNCHANGED <<pgVars, cacheVars, current_table, current_schema>>

fetch_all == Fetch("fetch_all", TRUE)

fetch_by_limit == Fetch("fetch_by_limit", FALSE)

Reader ==
    \/ \E d \in Dbs : set_db(d)
    \/ BootClass \/ BootAttribute \/ BootPanics
    \/ \E name \in TableNames : set_table(name)
    \/ fetch_all \/ fetch_by_limit

(* What the databases do once the program is gone is of no interest. *)
Next ==
    \/ at # "panicked" /\ Postgres /\ UNCHANGED readerVars
    \/ Reader

Spec == Init /\ [][Next]_vars

-----------------------------------------------------------------------------
(* A row version that a rolled-back change left without an xmax. *)
LeftOver(row) == ~row.live /\ row.t_xmax = 0

(* A table is selected in the database the reader is on: its oid is one of *)
(* that database, whatever calls of new, set_db and set_table came before. *)
(* The fetch calls combine db_id with the relfilenode of the selection.    *)
(* Catalogs have the same oid in every database.                           *)
SelectionOfDb ==
    current_table # None /\ current_table.oid # PgClassOid =>
      \A d \in Dbs \ {db_id} : \A c \in Class(d) : c.oid # current_table.oid

(* Once the bootstrap is done, every table that existed when it began and  *)
(* has not been changed since is found by its name, with its own file,     *)
(* and get_all_tables lists it once, whatever happened to other tables     *)
(* before, during and after the two catalog reads; except that a table     *)
(* whose row bears the xmax of a rolled-back change is hidden, that a      *)
(* left-over row may be found in its place or listed beside it, and that   *)
(* an I/O error while the catalogs were read hides what comes behind.      *)
UntouchedFound ==
    at = "idle" /\ ~cut =>
      \A c \in LiveClass(db_id) :
        /\ c.oid \notin touched
        /\ c.t_xmax = 0
        /\ \A i \in DOMAIN pg_class_cache :
             LeftOver(pg_class_cache[i]) => pg_class_cache[i].relname # c.relname
        => /\ Find(c.relname) # {} /\ Found(c.relname) = c
           /\ \E i \in DOMAIN get_all_tables :
                {j \in DOMAIN get_all_tables : get_all_tables[j].table.oid = c.oid} = {i}

Types(columns) == [i \in 1 .. Len(columns) |-> columns[i].type]

(* The columns of a table in PostgreSQL's eyes. *)
LiveColumns(d, oid) ==
    from_attributes(InHeapOrder([i \in LiveAttributes(d, oid) |-> pg_attribute[d][i]]))

(* And its schema has exactly its columns, in their order, whatever rows   *)
(* of other tables, dead or alive, the catalogs hold; except that columns  *)
(* of which a superseded or left-over pg_attribute row was read appear     *)
(* more than once, and that those behind an I/O error are missing.         *)
ColumnsExact ==
    at = "idle" /\ ~cut =>
      \A c \in LiveClass(db_id) :
        /\ c.oid \notin touched
        /\ \A i \in DOMAIN pg_attribute_cache :
             pg_attribute_cache[i].attrelid = c.oid => pg_attribute_cache[i].live
        => Types(SchemaOf(c.oid)) = Types(LiveColumns(db_id, c.oid))

(* As long as the selected table has not been changed since the bootstrap  *)
(* began, fetch_all finds its file and returns every row of the latest     *)
(* on-disk state, those written after the bootstrap included: it reads the *)
(* file anew.  Exceptions: an I/O error ends the rows, or is a panic; a    *)
(* selection that a rolled-back change left over may have no file; and for *)
(* a mapped catalog the file is looked for under 0, which always panics.   *)
FetchSeesRows ==
    /\ result.call = "fetch_all" /\ result.st # "error" /\ ~result.faulted
    /\ current_table.oid \notin touched /\ ~LeftOver(current_table)
    => IF Mapped(current_table)
         THEN result.st = "panic"
         ELSE result.st = "ok" /\ result.live \subseteq result.rows

-----------------------------------------------------------------------------
(* The invariant that makes the above hold. *)

ClassRows ==
    [oid : Nat \ {0}, relname : TableNames, relkind : {"r", "v"}, relfilenode : Nat,
     t_xmax : Nat, live : BOOLEAN]

AttributeRows ==
    [attrelid : Nat \ {0}, attnum : {-1, 1, 2}, attisdropped : {FALSE},
     type : {"tid", "int4", "text"}, t_xmax : Nat, live : BOOLEAN]

ReaderTypeOK ==
    /\ pg_class \in [Dbs -> Seq(ClassRows \cup {Free})]
    /\ pg_attribute \in [Dbs -> Seq(AttributeRows \cup {Free})]
    /\ files = [d \in Dbs |-> files[d]]
    /\ changes \in Nat
    /\ touched \subseteq Nat
    /\ at \in {"start", "class", "attribute", "idle", "panicked"}
    /\ at # "start" => db_id \in Dbs
    /\ cut \in BOOLEAN
    /\ current_table \in ClassRows \cup {None}

(* The oids after so many changes. *)
Oids(n) == {PgClassOid} \cup (FirstNormalObjectId .. FirstNormalObjectId + n - 1)

(* Oids and relfilenodes are handed out once, a relation keeps its name,   *)
(* and no two live rows of a database have a name or a file in common.     *)
Relations ==
    \A d \in Dbs : \A i, j \in 1 .. Len(pg_class[d]) :
      LET r == pg_class[d][i]
          s == pg_class[d][j]
      IN  r # Free /\ s # Free =>
            /\ r.oid \in Oids(changes) /\ r.relfilenode < FirstNormalObjectId + changes
            /\ r.relfilenode # 0 => r.relkind = "r"
            /\ r.oid = s.oid => r.relname = s.relname
            /\ r.live /\ s.live =>
                 /\ r.relname = s.relname => i = j
                 /\ r.relfilenode # 0 /\ r.relfilenode = s.relfilenode => i = j

(* No file has the name that a mapped catalog is looked for by. *)
FilesExist ==
    \A d \in Dbs :
      /\ 0 \notin Filenodes(d)
      /\ \A c \in UserTables(d) : c.relfilenode \in Filenodes(d)

DatabasesApart ==
    \A d, e \in Dbs : d # e =>
      \A r \in Class(d), s \in Class(e) : r.oid # PgClassOid => r.oid # s.oid

(* A row that was read from pg_class of this database. *)
OfThisDb(row) ==
    /\ row.oid \in Oids(changes)
    /\ row.oid # PgClassOid => \A d \in Dbs \ {db_id} : \A c \in Class(d) : c.oid # row.oid
    /\ row.live /\ row.oid \notin touched => row \in Class(db_id)

(* The rows read from pg_class when the bootstrap came to it, all of them  *)
(* if the read was complete.                                               *)
ClassRead(rows, complete) ==
    /\ DOMAIN rows \subseteq Nat
    /\ \A i \in DOMAIN rows :
         /\ rows[i] \in ClassRows /\ rows[i].t_xmax = 0 /\ OfThisDb(rows[i])
         /\ \A c \in Class(db_id) : c.oid = rows[i].oid => c.relname = rows[i].relname
         /\ \A j \in DOMAIN rows :
              rows[i].live /\ rows[j].live /\ rows[i].relname = rows[j].relname => i = j
    /\ complete =>
         \A c \in Class(db_id) :
           c.live /\ c.oid \notin touched /\ c.t_xmax = 0 => \E i \in DOMAIN rows : rows[i] = c

(* The live columns of unchanged tables are where they were read. *)
AttributesRead ==
    /\ \A i \in DOMAIN pg_attribute_cache :
         pg_attribute_cache[i].live /\ pg_attribute_cache[i].attrelid \notin touched =>
           /\ i \in 1 .. Len(pg_attribute[db_id])
           /\ pg_attribute[db_id][i] = pg_attribute_cache[i]
    /\ ~cut =>
         \A i \in 1 .. Len(pg_attribute[db_id]) :
           pg_attribute[db_id][i].live /\ pg_attribute[db_id][i].attrelid \notin touched =>
             i \in DOMAIN pg_attribute_cache /\ pg_attribute_cache[i] = pg_attribute[db_id][i]

(* The inductive invariant of the catalogs and of what was read of them. *)
ReaderInv ==
    /\ ReaderTypeOK
    /\ Relations
    /\ FilesExist
    /\ DatabasesApart
    /\ at = "attribute" => ClassRead(boot_class, ~cut)
    /\ at = "idle" => ClassRead(pg_class_cache, ~cut) /\ AttributesRead
    /\ current_table # None =>
         /\ db_id \in Dbs
         /\ current_table.relkind = "r" /\ current_table.t_xmax = 0 /\ OfThisDb(current_table)
=============================================================================
