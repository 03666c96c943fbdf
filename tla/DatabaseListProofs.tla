------------------------- MODULE DatabaseListProofs -------------------------
(***************************************************************************)
(* Proofs about the walk over pg_database, for any number of databases,    *)
(* names, line pointers and changes.                                       *)
(***************************************************************************)
EXTENDS DatabaseList, WellFoundedInduction, TLAPS

PageImages == [1 .. Slots -> RowVersions \cup {Free}]

LEMMA RowVersionFacts ==
    /\ \A row \in RowVersions :
         /\ row # Free
         /\ row.oid \in Dbs /\ row.oid # 0
         /\ row.datname \in DbNames /\ row.t_xmax \in Nat /\ row.live \in BOOLEAN
    /\ \A d \in Dbs, name \in DbNames, live \in BOOLEAN :
         /\ Row(d, name, live) \in RowVersions
         /\ Row(d, name, live).oid = d
         /\ Row(d, name, live).datname = name
         /\ Row(d, name, live).live = live
    /\ Free.oid = 0
    /\ 0 \notin Dbs
    /\ EmptyPage \in PageImages
<1>1. 0 \notin Dbs /\ Slots \in Nat
    BY DatabaseListAssumption
<1>2. Free.oid = 0
    BY DEF Free
<1>3. \A row \in RowVersions :
         /\ row.oid \in Dbs /\ row.datname \in DbNames /\ row.t_xmax \in Nat
         /\ row.live \in BOOLEAN
    BY DEF RowVersions
<1>4. \A d \in Dbs, name \in DbNames, live \in BOOLEAN :
         /\ Row(d, name, live) \in RowVersions
         /\ Row(d, name, live).oid = d
         /\ Row(d, name, live).datname = name
         /\ Row(d, name, live).live = live
    BY DEF Row, RowVersions
<1>5. EmptyPage \in PageImages
    BY DEF EmptyPage, PageImages
<1> QED
    BY <1>1, <1>2, <1>3, <1>4, <1>5

(* The rows of the heap are its line pointers that are not free. *)
LEMMA RowsAreSlots ==
    ASSUME pages \in Seq(PageImages)
    PROVE  /\ Rows \subseteq RowVersions
           /\ \A row \in Rows : \E p \in 1 .. Len(pages), i \in 1 .. Slots :
                pages[p][i] = row
           /\ \A p \in 1 .. Len(pages), i \in 1 .. Slots :
                /\ pages[p][i] \in RowVersions \cup {Free}
                /\ pages[p][i] # Free => pages[p][i] \in Rows
<1>1. \A p \in 1 .. Len(pages) : pages[p] \in PageImages
    OBVIOUS
<1>2. \A p \in 1 .. Len(pages), i \in 1 .. Slots : pages[p][i] \in RowVersions \cup {Free}
    BY <1>1 DEF PageImages
<1> QED
    BY <1>2 DEF Rows

(* What the row's placing leaves of the heap. *)
LEMMA PlaceFacts ==
    ASSUME NEW heap \in Seq(PageImages), NEW row \in RowVersions, Place(heap, row)
    PROVE  /\ pages' \in Seq(PageImages)
           /\ Len(heap) <= Len(pages')
           /\ \A p \in 1 .. Len(pages'), i \in 1 .. Slots :
                \/ pages'[p][i] = row
                \/ pages'[p][i] = Free
                \/ p <= Len(heap) /\ pages'[p][i] = heap[p][i]
<1>0. Slots \in Nat \ {0} /\ Len(heap) \in Nat
    BY DatabaseListAssumption
<1>1. CASE \E p \in 1 .. Len(heap), i \in 1 .. Slots :
             pages' = [heap EXCEPT ![p] = [@ EXCEPT ![i] = row]]
    <2>1. PICK p \in 1 .. Len(heap), i \in 1 .. Slots :
             pages' = [heap EXCEPT ![p] = [@ EXCEPT ![i] = row]]
        BY <1>1
    <2>2. heap[p] \in PageImages
        BY <2>1
    <2> DEFINE new == [heap[p] EXCEPT ![i] = row]
    <2>3. /\ new \in PageImages
          /\ new[i] = row
          /\ \A j \in 1 .. Slots : j # i => new[j] = heap[p][j]
        BY <2>1, <2>2 DEF PageImages
    <2>4. pages' = [heap EXCEPT ![p] = new]
        BY <2>1
    <2> HIDE DEF new
    <2>5. pages' \in Seq(PageImages) /\ Len(pages') = Len(heap)
        BY <2>1, <2>3, <2>4
    <2>6. \A q \in 1 .. Len(heap) : pages'[q] = IF q = p THEN new ELSE heap[q]
        BY <2>1, <2>4
    <2> QED
        BY <2>3, <2>5, <2>6, <1>0
<1>2. CASE pages' = Append(heap, [EmptyPage EXCEPT ![1] = row])
    <2> DEFINE new == [EmptyPage EXCEPT ![1] = row]
    <2>1. /\ new \in PageImages
          /\ \A j \in 1 .. Slots : new[j] = row \/ new[j] = Free
        BY <1>0 DEF EmptyPage, PageImages
    <2>2. pages' = Append(heap, new)
        BY <1>2
    <2> HIDE DEF new
    <2>3. /\ pages' \in Seq(PageImages)
          /\ Len(pages') = Len(heap) + 1
          /\ \A q \in 1 .. Len(heap) : pages'[q] = heap[q]
          /\ pages'[Len(heap) + 1] = new
        BY <2>1, <2>2
    <2>4. \A q \in 1 .. Len(pages') : q <= Len(heap) \/ q = Len(heap) + 1
        BY <2>3, <1>0
    <2> QED
        BY <2>1, <2>3, <2>4, <1>0
<1> QED
    BY <1>1, <1>2 DEF Place

(* A superseded version keeps its oid and its name. *)
LEMMA SupersededFacts ==
    ASSUME pages \in Seq(PageImages), changes \in Nat, NEW d \in Dbs, NEW c \in BOOLEAN
    PROVE  /\ Superseded(d, c) \in Seq(PageImages)
           /\ Len(Superseded(d, c)) = Len(pages)
           /\ \A p \in 1 .. Len(pages), i \in 1 .. Slots :
                \/ Superseded(d, c)[p][i] = pages[p][i]
                \/ /\ pages[p][i] \in RowVersions
                   /\ pages[p][i].oid = d /\ pages[p][i].live
                   /\ Superseded(d, c)[p][i] \in RowVersions
                   /\ Superseded(d, c)[p][i].oid = d
                   /\ Superseded(d, c)[p][i].datname = pages[p][i].datname
<1> DEFINE slot(p, i) ==
             IF pages[p][i].oid = d /\ pages[p][i].live
               THEN [pages[p][i] EXCEPT !.t_xmax = 3 + changes, !.live = ~c]
               ELSE pages[p][i]
           heap == [p \in 1 .. Len(pages) |-> [i \in 1 .. Slots |-> slot(p, i)]]
<1>0. Len(pages) \in Nat
    OBVIOUS
<1>1. ASSUME NEW p \in 1 .. Len(pages), NEW i \in 1 .. Slots
      PROVE  /\ slot(p, i) \in RowVersions \cup {Free}
             /\ \/ slot(p, i) = pages[p][i]
                \/ /\ pages[p][i] \in RowVersions
                   /\ pages[p][i].oid = d /\ pages[p][i].live
                   /\ slot(p, i) \in RowVersions
                   /\ slot(p, i).oid = d
                   /\ slot(p, i).datname = pages[p][i].datname
    <2>0. pages[p] \in PageImages
        OBVIOUS
    <2>1. pages[p][i] \in RowVersions \cup {Free}
        BY <2>0 DEF PageImages
    <2>2. CASE pages[p][i].oid = d /\ pages[p][i].live
        <3>1. pages[p][i] \in RowVersions
            BY <2>1, <2>2, RowVersionFacts
        <3>2. slot(p, i) = [pages[p][i] EXCEPT !.t_xmax = 3 + changes, !.live = ~c]
            BY <2>2
        <3> HIDE DEF slot
        <3>a. 3 + changes \in Nat /\ (~c) \in BOOLEAN
            OBVIOUS
        <3>3. /\ slot(p, i) \in RowVersions
              /\ slot(p, i).oid = pages[p][i].oid
              /\ slot(p, i).datname = pages[p][i].datname
            BY <3>1, <3>2, <3>a DEF RowVersions
        <3> QED
            BY <2>2, <3>1, <3>3
    <2>3. CASE ~(pages[p][i].oid = d /\ pages[p][i].live)
        BY <2>1, <2>3
    <2> QED
        BY <2>2, <2>3
<1>2. Superseded(d, c) = heap
    BY DEF Superseded
<1> HIDE DEF slot
<1>3. heap \in [1 .. Len(pages) -> PageImages]
    <2>1. ASSUME NEW p \in 1 .. Len(pages)
          PROVE  [i \in 1 .. Slots |-> slot(p, i)] \in PageImages
        BY <1>1 DEF PageImages
    <2> QED
        BY <2>1
<1>4. \A p \in 1 .. Len(pages), i \in 1 .. Slots : heap[p][i] = slot(p, i)
    OBVIOUS
<1> HIDE DEF heap
<1>5. heap \in Seq(PageImages) /\ Len(heap) = Len(pages)
    BY <1>0, <1>3
<1> QED
    BY <1>1, <1>2, <1>4, <1>5

-----------------------------------------------------------------------------
(* What every change PostgreSQL makes has in common.                       *)

(* The rows of untouched databases stay where they are. *)
UntouchedStay ==
    /\ pages' \in Seq(PageImages)
    /\ Len(pages) <= Len(pages')
    /\ \A p \in 1 .. Len(pages'), i \in 1 .. Slots :
         \/ pages'[p][i] = Free
         \/ pages'[p][i] \in RowVersions /\ pages'[p][i].oid \in touched'
         \/ p <= Len(pages) /\ pages'[p][i] = pages[p][i]

(* One name at most is new, with one oid, and no live row had it. *)
NewName(d, name) ==
    /\ \A row \in LiveRows(Rows) : row.datname # name
    /\ \A row \in LiveRows(Rows)' :
         \/ row.datname = name /\ row.oid = d
         \/ \E old \in LiveRows(Rows) : old.datname = row.datname /\ old.oid = row.oid

PostgresStep ==
    /\ UntouchedStay
    /\ touched \subseteq touched' /\ touched' \subseteq Dbs
    /\ changes' \in Nat
    /\ \E d, name : NewName(d, name)

(* A change that places a new version on a heap whose rows are the rows    *)
(* there were, but for versions of the same database.                      *)
LEMMA PlaceStep ==
    ASSUME ListTypeOK, NEW d \in Dbs, NEW name \in DbNames, NEW c \in BOOLEAN,
           NEW heap \in Seq(PageImages), Len(heap) = Len(pages),
           \A p \in 1 .. Len(pages), i \in 1 .. Slots :
             \/ heap[p][i] = pages[p][i]
             \/ /\ pages[p][i] \in RowVersions
                /\ pages[p][i].oid = d /\ pages[p][i].live
                /\ heap[p][i] \in RowVersions
                /\ heap[p][i].oid = d
                /\ heap[p][i].datname = pages[p][i].datname,
           \A row \in LiveRows(Rows) : row.datname # name,
           Changing({d}),
           Place(heap, Row(d, name, c))
    PROVE  PostgresStep
<1> DEFINE new == Row(d, name, c)
<1>0. /\ pages \in Seq(PageImages) /\ changes \in Nat /\ touched \subseteq Dbs
      /\ touched' = touched \cup {d} /\ changes' = changes + 1
    BY DEF ListTypeOK, PageImages, Changing
<1>1. new \in RowVersions /\ new.oid = d /\ new.datname = name
    BY RowVersionFacts
<1>2. Place(heap, new)
    OBVIOUS
<1> HIDE DEF new
<1>3. /\ pages' \in Seq(PageImages)
      /\ Len(pages) <= Len(pages')
      /\ \A p \in 1 .. Len(pages'), i \in 1 .. Slots :
           \/ pages'[p][i] = new
           \/ pages'[p][i] = Free
           \/ p <= Len(pages) /\ pages'[p][i] = heap[p][i]
    BY <1>1, <1>2, PlaceFacts
<1>4. Len(pages) \in Nat /\ Len(pages') \in Nat
    BY <1>0, <1>3
<1>5. UntouchedStay
    <2> SUFFICES ASSUME NEW p \in 1 .. Len(pages'), NEW i \in 1 .. Slots
                 PROVE  \/ pages'[p][i] = Free
                        \/ pages'[p][i] \in RowVersions /\ pages'[p][i].oid \in touched'
                        \/ p <= Len(pages) /\ pages'[p][i] = pages[p][i]
        BY <1>3 DEF UntouchedStay
    <2>1. CASE pages'[p][i] = new
        BY <2>1, <1>0, <1>1
    <2>2. CASE p <= Len(pages) /\ pages'[p][i] = heap[p][i]
        <3>1. p \in 1 .. Len(pages)
            BY <2>2, <1>4
        <3>2. \/ heap[p][i] = pages[p][i]
              \/ heap[p][i] \in RowVersions /\ heap[p][i].oid = d
            BY <3>1
        <3> QED
            BY <3>2, <2>2, <1>0
    <2> QED
        BY <2>1, <2>2, <1>3
<1>6. NewName(d, name)
    <2> SUFFICES ASSUME NEW row \in LiveRows(Rows)'
                 PROVE  \/ row.datname = name /\ row.oid = d
                        \/ \E old \in LiveRows(Rows) : old.datname = row.datname /\ old.oid = row.oid
        BY DEF NewName
    <2>1. row \in Rows' /\ row.live
        BY DEF LiveRows
    <2>2. PICK p \in 1 .. Len(pages'), i \in 1 .. Slots : pages'[p][i] = row
        BY <2>1 DEF Rows
    <2>3. row # Free
        BY <2>1 DEF Rows
    <2>4. CASE row = new
        BY <2>4, <1>1
    <2>5. CASE p <= Len(pages) /\ row = heap[p][i]
        <3>1. p \in 1 .. Len(pages)
            BY <2>5, <1>4
        <3>2. PICK old : old = pages[p][i]
            OBVIOUS
        <3>3. old \in RowVersions \cup {Free} /\ (old # Free => old \in Rows)
            BY <3>1, <3>2, <1>0, RowsAreSlots
        <3>4. \/ row = old
              \/ old \in RowVersions /\ old.oid = d /\ old.live /\ row.oid = d /\ row.datname = old.datname
            BY <3>1, <3>2, <2>5
        <3>5. old # Free
            BY <3>4, <2>3, RowVersionFacts
        <3>6. old \in LiveRows(Rows)
            BY <3>3, <3>4, <3>5, <2>1 DEF LiveRows
        <3> QED
            BY <3>4, <3>6
    <2> QED
        BY <2>2, <2>3, <2>4, <2>5, <1>3
<1> QED
    BY <1>0, <1>5, <1>6 DEF PostgresStep

(* A change that adds no row. *)
LEMMA NoNewRowStep ==
    ASSUME ListTypeOK, NEW oids \in SUBSET Dbs, Changing(oids),
           pages' \in Seq(PageImages), Len(pages') = Len(pages),
           \A p \in 1 .. Len(pages), i \in 1 .. Slots :
             \/ pages'[p][i] = pages[p][i]
             \/ pages'[p][i] = Free
             \/ /\ pages[p][i] \in RowVersions
                /\ pages[p][i].live
                /\ pages'[p][i] \in RowVersions
                /\ pages'[p][i].oid = pages[p][i].oid
                /\ pages'[p][i].oid \in oids
                /\ pages'[p][i].datname = pages[p][i].datname
    PROVE  PostgresStep
<1>0. /\ pages \in Seq(PageImages) /\ changes \in Nat /\ touched \subseteq Dbs
      /\ touched' = touched \cup oids /\ changes' = changes + 1
    BY DEF ListTypeOK, PageImages, Changing
<1>1. Len(pages) \in Nat
    BY <1>0
<1>2. UntouchedStay
    <2>1. \A p \in 1 .. Len(pages) : p <= Len(pages)
        BY <1>1
    <2> QED
        BY <2>1, <1>0, <1>1 DEF UntouchedStay
<1>3. PICK name : name \notin DbNames
    BY NoSetContainsEverything
<1>4. \A row \in LiveRows(Rows) : row.datname # name
    <2>1. \A row \in LiveRows(Rows) : row \in RowVersions
        BY <1>0, RowsAreSlots DEF LiveRows
    <2> QED
        BY <2>1, <1>3, RowVersionFacts
<1>5. \A row \in LiveRows(Rows)' :
        \E old \in LiveRows(Rows) : old.datname = row.datname /\ old.oid = row.oid
    <2> SUFFICES ASSUME NEW row \in LiveRows(Rows)'
                 PROVE  \E old \in LiveRows(Rows) : old.datname = row.datname /\ old.oid = row.oid
        OBVIOUS
    <2>1. row \in Rows' /\ row.live
        BY DEF LiveRows
    <2>2. PICK p \in 1 .. Len(pages), i \in 1 .. Slots : pages'[p][i] = row
        BY <2>1 DEF Rows
    <2>3. row # Free
        BY <2>1 DEF Rows
    <2>4. PICK old : old = pages[p][i]
        OBVIOUS
    <2>5. \/ row = old
          \/ old \in RowVersions /\ old.live /\ row.oid = old.oid /\ row.datname = old.datname
        BY <2>2, <2>3, <2>4
    <2>6. old # Free
        BY <2>3, <2>5, RowVersionFacts
    <2>7. old \in LiveRows(Rows)
        BY <2>1, <2>4, <2>5, <2>6, <1>0, RowsAreSlots DEF LiveRows
    <2> QED
        BY <2>5, <2>7
<1>6. NewName(0, name)
    BY <1>4, <1>5 DEF NewName
<1> QED
    BY <1>0, <1>2, <1>6 DEF PostgresStep

(* Creating, renaming and dropping a database and vacuuming are such steps. *)
LEMMA PostgresSteps ==
    ASSUME ListTypeOK, Postgres
    PROVE  PostgresStep
<1>0. pages \in Seq(PageImages) /\ changes \in Nat /\ Len(pages) \in Nat
    BY DEF ListTypeOK, PageImages
<1>1. ASSUME NEW d \in Dbs, NEW name \in DbNames, CreateDatabase(d, name)
      PROVE  PostgresStep
    <2>1. /\ Changing({d})
          /\ \A row \in LiveRows(Rows) : row.datname # name
        BY <1>1 DEF CreateDatabase, LiveRows
    <2>2. PICK c \in BOOLEAN : Place(pages, Row(d, name, c))
        BY <1>1 DEF CreateDatabase
    <2> QED
        BY <2>1, <2>2, <1>0, PlaceStep
<1>2. ASSUME NEW d \in Dbs, NEW name \in DbNames, RenameDatabase(d, name)
      PROVE  PostgresStep
    <2>1. /\ Changing({d})
          /\ \A row \in LiveRows(Rows) : row.datname # name
        BY <1>2 DEF RenameDatabase
    <2>2. PICK c \in BOOLEAN : Place(Superseded(d, c), Row(d, name, c))
        BY <1>2 DEF RenameDatabase
    <2>3. PICK heap : heap = Superseded(d, c)
        OBVIOUS
    <2>4. /\ heap \in Seq(PageImages)
          /\ Len(heap) = Len(pages)
          /\ \A p \in 1 .. Len(pages), i \in 1 .. Slots :
               \/ heap[p][i] = pages[p][i]
               \/ /\ pages[p][i] \in RowVersions
                  /\ pages[p][i].oid = d /\ pages[p][i].live
                  /\ heap[p][i] \in RowVersions
                  /\ heap[p][i].oid = d
                  /\ heap[p][i].datname = pages[p][i].datname
        BY <2>3, <1>0, SupersededFacts
    <2>5. Place(heap, Row(d, name, c))
        BY <2>2, <2>3
    <2> QED
        BY <2>1, <2>4, <2>5, PlaceStep
<1>3. ASSUME NEW d \in Dbs, DropDatabase(d)
      PROVE  PostgresStep
    <2>1. Changing({d}) /\ {d} \in SUBSET Dbs
        BY <1>3 DEF DropDatabase
    <2>2. PICK c \in BOOLEAN : pages' = Superseded(d, c)
        BY <1>3 DEF DropDatabase
    <2>3. /\ pages' \in Seq(PageImages)
          /\ Len(pages') = Len(pages)
          /\ \A p \in 1 .. Len(pages), i \in 1 .. Slots :
               \/ pages'[p][i] = pages[p][i]
               \/ /\ pages[p][i] \in RowVersions
                  /\ pages[p][i].oid = d /\ pages[p][i].live
                  /\ pages'[p][i] \in RowVersions
                  /\ pages'[p][i].oid = d
                  /\ pages'[p][i].datname = pages[p][i].datname
        BY <2>2, <1>0, SupersededFacts
    <2>4. \A p \in 1 .. Len(pages), i \in 1 .. Slots :
             \/ pages'[p][i] = pages[p][i]
             \/ pages'[p][i] = Free
             \/ /\ pages[p][i] \in RowVersions
                /\ pages[p][i].live
                /\ pages'[p][i] \in RowVersions
                /\ pages'[p][i].oid = pages[p][i].oid
                /\ pages'[p][i].oid \in {d}
                /\ pages'[p][i].datname = pages[p][i].datname
        BY <2>3
    <2> QED
        BY <2>1, <2>3, <2>4, NoNewRowStep
<1>4. ASSUME Vacuum
      PROVE  PostgresStep
    <2> DEFINE slot(p, i) == IF pages[p][i] # Free /\ ~pages[p][i].live THEN Free ELSE pages[p][i]
               heap == [p \in 1 .. Len(pages) |-> [i \in 1 .. Slots |-> slot(p, i)]]
    <2>1. Changing({}) /\ {} \in SUBSET Dbs /\ pages' = heap
        BY <1>4 DEF Vacuum
    <2>2. ASSUME NEW p \in 1 .. Len(pages), NEW i \in 1 .. Slots
          PROVE  /\ slot(p, i) \in RowVersions \cup {Free}
                 /\ slot(p, i) = pages[p][i] \/ slot(p, i) = Free
        BY <1>0, RowsAreSlots
    <2> HIDE DEF slot
    <2>3. heap \in [1 .. Len(pages) -> PageImages]
        <3>1. ASSUME NEW p \in 1 .. Len(pages)
              PROVE  [i \in 1 .. Slots |-> slot(p, i)] \in PageImages
            BY <2>2 DEF PageImages
        <3> QED
            BY <3>1
    <2>4. \A p \in 1 .. Len(pages), i \in 1 .. Slots : heap[p][i] = slot(p, i)
        OBVIOUS
    <2> HIDE DEF heap
    <2>5. pages' \in Seq(PageImages) /\ Len(pages') = Len(pages)
        BY <2>1, <2>3, <1>0
    <2>6. \A p \in 1 .. Len(pages), i \in 1 .. Slots :
             pages'[p][i] = pages[p][i] \/ pages'[p][i] = Free
        BY <2>1, <2>2, <2>4
    <2> QED
        BY <2>1, <2>5, <2>6, NoNewRowStep
<1> QED
    BY <1>1, <1>2, <1>3, <1>4 DEF Postgres

-----------------------------------------------------------------------------
(* The walk's invariant. *)

LEMMA ListTypeFacts ==
    ASSUME ListTypeOK
    PROVE  /\ pages \in Seq(PageImages)
           /\ Len(pages) \in Nat /\ page_index \in Nat
           /\ posid \in Nat /\ posid <= Slots /\ Slots \in Nat \ {0}
           /\ LiveRows(Rows) \subseteq RowVersions
           /\ Named(Rows) \subseteq DbNames \X Dbs
           /\ out \in Seq(RowVersions) /\ Len(out) \in Nat
<1>1. /\ pages \in Seq(PageImages)
      /\ Len(pages) \in Nat /\ page_index \in Nat
      /\ posid \in Nat /\ posid <= Slots /\ Slots \in Nat \ {0}
      /\ out \in Seq(RowVersions) /\ Len(out) \in Nat
    BY DatabaseListAssumption DEF ListTypeOK, PageImages
<1>2. LiveRows(Rows) \subseteq RowVersions
    BY <1>1, RowsAreSlots DEF LiveRows
<1>3. Named(Rows) \subseteq DbNames \X Dbs
    BY <1>2, RowVersionFacts DEF Named
<1> QED
    BY <1>1, <1>2, <1>3

(* pg_database starts without rows. *)
LEMMA InitListInv == Init => ListInv
<1> SUFFICES ASSUME Init PROVE ListInv
    OBVIOUS
<1>a. \A i \in 1 .. Slots : EmptyPage[i] = Free
    BY DEF EmptyPage
<1>b. EmptyPage \in PageImages
    BY RowVersionFacts
<1>1. pages \in Seq(PageImages)
    <2>1. <<EmptyPage>> \in Seq(PageImages) /\ <<>> \in Seq(PageImages)
        BY <1>b
    <2> QED
        BY <2>1 DEF Init
<1>2. \A p \in 1 .. Len(pages), i \in 1 .. Slots : pages[p][i] = Free
    <2>1. CASE pages = <<>>
        BY <2>1
    <2>2. CASE pages = <<EmptyPage>>
        <3>1. \A p \in 1 .. Len(pages) : pages[p] = EmptyPage
            BY <2>2
        <3> QED
            BY <3>1, <1>a
    <2> QED
        BY <2>1, <2>2 DEF Init
<1>3. Rows = {}
    BY <1>2 DEF Rows
<1>4. ListTypeOK
    <2>1. /\ changes \in Nat /\ page_index \in Nat /\ posid \in 0 .. Slots
          /\ touched = {} /\ existed = {} /\ out = <<>> /\ at = "start"
        BY DatabaseListAssumption DEF Init
    <2>2. cut \in BOOLEAN
        BY DEF Init
    <2> QED
        BY <1>1, <2>1, <2>2 DEF ListTypeOK, PageImages
<1>5. NamesUnique
    BY <1>3 DEF NamesUnique, LiveRows, Named
<1>6. WalkCovers
    BY DEF WalkCovers, Init
<1>7. ListedExisted
    BY DEF ListedExisted, Init
<1> QED
    BY <1>4, <1>5, <1>6, <1>7 DEF ListInv

(* The changes PostgreSQL makes move nothing the walk relies on. *)
LEMMA PostgresKeepsListInv ==
    ASSUME ListInv, Postgres
    PROVE  ListInv'
<1>0. /\ ListTypeOK /\ NamesUnique /\ WalkCovers /\ ListedExisted
      /\ PostgresStep
      /\ at' = at /\ page_index' = page_index /\ page' = page /\ posid' = posid /\ out' = out
      /\ cut' = cut /\ existed' = existed \cup Named(Rows')
    BY PostgresSteps DEF ListInv, Postgres, walkVars
<1>a. /\ pages' \in Seq(PageImages) /\ Len(pages') \in Nat
      /\ Len(pages) <= Len(pages') /\ Len(pages) \in Nat
      /\ touched \subseteq touched' /\ touched' \subseteq Dbs
      /\ changes' \in Nat
      /\ page_index \in Nat
    BY <1>0, ListTypeFacts DEF PostgresStep, UntouchedStay
<1>1. /\ Rows' \subseteq RowVersions
      /\ \A row \in Rows' : \E p \in 1 .. Len(pages'), i \in 1 .. Slots : pages'[p][i] = row
      /\ \A p \in 1 .. Len(pages'), i \in 1 .. Slots :
           pages'[p][i] # Free => pages'[p][i] \in Rows'
    <2>1. \A p \in 1 .. Len(pages') : pages'[p] \in PageImages
        BY <1>a
    <2>2. \A p \in 1 .. Len(pages'), i \in 1 .. Slots : pages'[p][i] \in RowVersions \cup {Free}
        BY <2>1 DEF PageImages
    <2> QED
        BY <2>2 DEF Rows
<1>2. \A p \in 1 .. Len(pages'), i \in 1 .. Slots :
        pages'[p][i] \in RowVersions /\ pages'[p][i].oid \notin touched' =>
          /\ p \in 1 .. Len(pages)
          /\ pages'[p][i] = pages[p][i]
          /\ pages'[p][i].oid \notin touched
    BY <1>0, <1>a, RowVersionFacts DEF PostgresStep, UntouchedStay
<1>3. Named(Rows') \subseteq DbNames \X Dbs
    BY <1>1, RowVersionFacts DEF Named, LiveRows
<1>4. ListTypeOK'
    BY <1>0, <1>a, <1>3 DEF ListTypeOK, PageImages
<1>5. NamesUnique'
    <2>1. PICK d, name : NewName(d, name)
        BY <1>0 DEF PostgresStep
    <2>2. \A r1, r2 \in LiveRows(Rows) : r1.datname = r2.datname => r1.oid = r2.oid
        BY <1>0 DEF NamesUnique
    <2>3. \A r1, r2 \in LiveRows(Rows)' : r1.datname = r2.datname => r1.oid = r2.oid
        BY <2>1, <2>2 DEF NewName
    <2>4. Named(Rows)' \subseteq existed'
        BY <1>0
    <2>5. ASSUME NEW row \in LiveRows(Rows)', row.oid \notin touched',
                 NEW pair \in existed', pair[1] = row.datname
          PROVE  pair[2] = row.oid
        <3>1. row \in Rows' /\ row.live /\ row \in RowVersions
            BY <1>1 DEF LiveRows
        <3>2. PICK p \in 1 .. Len(pages'), i \in 1 .. Slots : pages'[p][i] = row
            BY <3>1, <1>1
        <3>3. p \in 1 .. Len(pages) /\ pages[p][i] = row /\ row.oid \notin touched
            BY <3>1, <3>2, <2>5, <1>2
        <3>4. row \in LiveRows(Rows)
            BY <3>1, <3>3, RowVersionFacts DEF LiveRows, Rows
        <3>5. CASE pair \in existed
            BY <3>3, <3>4, <3>5, <2>5, <1>0 DEF NamesUnique
        <3>6. CASE pair \in Named(Rows')
            <4>1. PICK r \in LiveRows(Rows)' : pair = <<r.datname, r.oid>>
                BY <3>6 DEF Named, LiveRows
            <4> QED
                BY <4>1, <2>3, <2>5
        <3> QED
            BY <3>5, <3>6, <1>0
    <2> QED
        BY <2>3, <2>4, <2>5 DEF NamesUnique
<1>6. \A p \in 1 .. Len(pages'), i \in 1 .. Slots :
        Due(pages[p][i])' =>
          p \in 1 .. Len(pages) /\ pages'[p][i] = pages[p][i] /\ Due(pages[p][i])
    <2> SUFFICES ASSUME NEW p \in 1 .. Len(pages'), NEW i \in 1 .. Slots, Due(pages[p][i])'
                 PROVE  p \in 1 .. Len(pages) /\ pages'[p][i] = pages[p][i] /\ Due(pages[p][i])
        OBVIOUS
    <2>1. /\ pages'[p][i] # Free /\ pages'[p][i].live
          /\ pages'[p][i].oid \notin touched' /\ pages'[p][i].t_xmax = 0
        BY DEF Due
    <2>2. pages'[p][i] \in RowVersions
        BY <2>1, <1>1
    <2>3. /\ p \in 1 .. Len(pages) /\ pages'[p][i] = pages[p][i]
          /\ pages'[p][i].oid \notin touched
        BY <2>1, <2>2, <1>2
    <2> QED
        BY <2>1, <2>3 DEF Due
<1>7. \A row : Listed(row)' <=> Listed(row)
    BY <1>0 DEF Listed
<1>8. WalkCovers'
    <2>1. ASSUME at \in {"walk", "rows"}
          PROVE  /\ page_index <= Len(pages')
                 /\ \A p \in 1 .. page_index, i \in 1 .. Slots :
                      Due(pages[p][i])' => Listed(pages[p][i])'
        <3>1. /\ page_index <= Len(pages)
              /\ \A p \in 1 .. page_index, i \in 1 .. Slots :
                   Due(pages[p][i]) => Listed(pages[p][i])
            BY <2>1, <1>0 DEF WalkCovers
        <3>2. \A p \in 1 .. page_index : p \in 1 .. Len(pages')
            BY <3>1, <1>a
        <3>3. page_index <= Len(pages')
            BY <3>1, <1>a
        <3>4. ASSUME NEW p \in 1 .. page_index, NEW i \in 1 .. Slots, Due(pages[p][i])'
              PROVE  Listed(pages[p][i])'
            <4>1. /\ p \in 1 .. Len(pages') /\ pages'[p][i] = pages[p][i]
                  /\ Due(pages[p][i])
                BY <3>2, <3>4, <1>6
            <4>2. Listed(pages[p][i])
                BY <4>1, <3>1
            <4> QED
                BY <4>1, <4>2, <1>0 DEF Listed
        <3> QED
            BY <3>3, <3>4
    <2>2. ASSUME at = "rows"
          PROVE  /\ page_index < Len(pages')
                 /\ \A i \in 1 .. Slots : Due(pages[page_index + 1][i])' =>
                      page[i] = pages'[page_index + 1][i]
                 /\ \A i \in 1 .. posid : Keep(page[i]) => Listed(page[i])'
                 /\ \A i \in 1 .. Slots : page[i] # Free /\ page[i].live =>
                      <<page[i].datname, page[i].oid>> \in existed'
        <3>1. /\ page_index < Len(pages)
              /\ \A i \in 1 .. Slots : Due(pages[page_index + 1][i]) =>
                   page[i] = pages[page_index + 1][i]
              /\ \A i \in 1 .. posid : Keep(page[i]) => Listed(page[i])
              /\ \A i \in 1 .. Slots : page[i] # Free /\ page[i].live =>
                   <<page[i].datname, page[i].oid>> \in existed
            BY <2>2, <1>0 DEF WalkCovers
        <3>2. page_index + 1 \in 1 .. Len(pages') /\ page_index < Len(pages')
            BY <3>1, <1>a
        <3>3. \A i \in 1 .. Slots : Due(pages[page_index + 1][i])' =>
                      page[i] = pages'[page_index + 1][i]
            <4> SUFFICES ASSUME NEW i \in 1 .. Slots, Due(pages[page_index + 1][i])'
                         PROVE  page[i] = pages'[page_index + 1][i]
                OBVIOUS
            <4>1. PICK p : p = page_index + 1
                OBVIOUS
            <4>2. page_index' + 1 = p
                BY <4>1, <1>0
            <4>3. Due(pages[p][i])'
                BY <4>2 DEF Due
            <4> QED
                BY <4>1, <4>3, <3>1, <3>2, <1>6
        <3> QED
            BY <3>1, <3>2, <3>3, <1>0 DEF Listed
    <2>3. ASSUME at = "done", ~cut
          PROVE  \A p \in 1 .. Len(pages'), i \in 1 .. Slots :
                   Due(pages[p][i])' => Listed(pages[p][i])'
        <3>1. \A p \in 1 .. Len(pages), i \in 1 .. Slots : Due(pages[p][i]) => Listed(pages[p][i])
            BY <2>3, <1>0 DEF WalkCovers
        <3> QED
            BY <3>1, <1>0, <1>6 DEF Listed
    <2> QED
        BY <2>1, <2>2, <2>3, <1>0 DEF WalkCovers, Keep
<1>9. ListedExisted'
    BY <1>0 DEF ListedExisted, LeftOver
<1> QED
    BY <1>4, <1>5, <1>8, <1>9 DEF ListInv

(* A step of the walk leaves the heap and its history alone. *)
LEMMA PgUnchanged ==
    ASSUME ListInv, pages' = pages, touched' = touched, existed' = existed
    PROVE  /\ NamesUnique'
           /\ \A row : Due(row)' <=> Due(row)
           /\ \A p, i : Due(pages[p][i])' <=> Due(pages[p][i])
<1>1. Rows' = Rows
    BY DEF Rows
<1>2. LiveRows(Rows)' = LiveRows(Rows) /\ Named(Rows)' = Named(Rows)
    BY <1>1 DEF LiveRows, Named
<1>3. NamesUnique'
    BY <1>2 DEF ListInv, NamesUnique
<1> QED
    BY <1>3 DEF Due

(* The call begins its history and its walk anew. *)
LEMMA BeginKeepsListInv ==
    ASSUME ListInv, Begin
    PROVE  ListInv'
<1>0. /\ ListTypeOK /\ NamesUnique
      /\ at' = "walk" /\ page_index' = 0 /\ posid' = 0 /\ out' = <<>> /\ cut' = FALSE
      /\ touched' = {} /\ existed' = Named(Rows)
      /\ pages' = pages /\ changes' = changes
    BY DEF ListInv, Begin
<1>1. Named(Rows) \subseteq DbNames \X Dbs /\ Len(pages) \in Nat /\ Slots \in Nat
    BY <1>0, ListTypeFacts
<1>2. Rows' = Rows
    BY <1>0 DEF Rows
<1>3. LiveRows(Rows)' = LiveRows(Rows) /\ Named(Rows)' = Named(Rows)
    BY <1>2 DEF LiveRows, Named
<1>a. cut' \in BOOLEAN
    BY <1>0
<1>4. ListTypeOK'
    BY <1>0, <1>1, <1>a DEF ListTypeOK
<1>5. NamesUnique'
    BY <1>0, <1>3 DEF NamesUnique, Named
<1>6. WalkCovers'
    BY <1>0, <1>1 DEF WalkCovers
<1>7. ListedExisted'
    BY <1>0 DEF ListedExisted
<1> QED
    BY <1>4, <1>5, <1>6, <1>7 DEF ListInv

(* A page is copied as it is, and its live names exist now. *)
LEMMA ReadPageKeepsListInv ==
    ASSUME ListInv, ReadPage
    PROVE  ListInv'
<1>0. /\ ListTypeOK /\ NamesUnique /\ WalkCovers /\ ListedExisted
      /\ at = "walk" /\ at' = "rows" /\ page_index < Len(pages)
      /\ page' = pages[page_index + 1] /\ posid' = 0
      /\ pages' = pages /\ changes' = changes
      /\ touched' = touched /\ existed' = existed
      /\ page_index' = page_index /\ out' = out /\ cut' = cut
    BY DEF ListInv, ReadPage, pgVars
<1>1. /\ pages \in Seq(PageImages) /\ Len(pages) \in Nat /\ page_index \in Nat /\ Slots \in Nat
    BY <1>0, ListTypeFacts
<1>2. page_index + 1 \in 1 .. Len(pages)
    BY <1>0, <1>1
<1>3. page' \in PageImages
    BY <1>0, <1>1, <1>2
<1>4. ListTypeOK'
    BY <1>0, <1>1, <1>3 DEF ListTypeOK, PageImages
<1>5. /\ NamesUnique' /\ \A row : Due(row)' <=> Due(row)
    BY <1>0, PgUnchanged
<1>6. \A i \in 1 .. Slots : page'[i] # Free /\ page'[i].live =>
        <<page'[i].datname, page'[i].oid>> \in existed'
    <2> SUFFICES ASSUME NEW i \in 1 .. Slots, page'[i] # Free, page'[i].live
                 PROVE  <<page'[i].datname, page'[i].oid>> \in existed'
        OBVIOUS
    <2>1. page'[i] \in LiveRows(Rows)
        BY <1>0, <1>1, <1>2, RowsAreSlots DEF LiveRows
    <2>2. <<page'[i].datname, page'[i].oid>> \in Named(Rows)
        BY <2>1 DEF Named
    <2> QED
        BY <2>2, <1>0 DEF NamesUnique
<1>7. WalkCovers'
    <2>1. /\ page_index <= Len(pages)
          /\ \A p \in 1 .. page_index, i \in 1 .. Slots :
               Due(pages[p][i]) => Listed(pages[p][i])
        BY <1>0 DEF WalkCovers
    <2>2. \A i : i \notin 1 .. posid'
        BY <1>0
    <2>3. \A p \in 1 .. page_index, i \in 1 .. Slots :
               Due(pages[p][i])' => Listed(pages[p][i])'
        BY <2>1, <1>0 DEF Due, Listed
    <2> QED
        BY <2>1, <2>2, <2>3, <1>0, <1>6 DEF WalkCovers
<1>8. ListedExisted'
    BY <1>0 DEF ListedExisted, LeftOver
<1> QED
    BY <1>4, <1>5, <1>7, <1>8 DEF ListInv

(* A row that is pushed is listed, and what was listed stays so. *)
LEMMA NextRowKeepsListInv ==
    ASSUME ListInv, NextRow
    PROVE  ListInv'
<1> DEFINE lp == page[posid + 1]
<1>0. /\ ListTypeOK /\ NamesUnique /\ WalkCovers /\ ListedExisted
      /\ at = "rows" /\ at' = at /\ posid < Slots /\ posid' = posid + 1
      /\ out' = IF Keep(lp) THEN Append(out, lp) ELSE out
      /\ pages' = pages /\ changes' = changes
      /\ touched' = touched /\ existed' = existed
      /\ page_index' = page_index /\ page' = page /\ cut' = cut
    BY DEF ListInv, NextRow, pgVars
<1>1. /\ pages \in Seq(PageImages) /\ Len(pages) \in Nat /\ page_index \in Nat
      /\ Slots \in Nat /\ posid \in Nat
      /\ out \in Seq(RowVersions) /\ Len(out) \in Nat
    BY <1>0, ListTypeFacts
<1>2. posid + 1 \in 1 .. Slots
    BY <1>0, <1>1
<1>3. lp \in RowVersions \cup {Free}
    BY <1>0, <1>2 DEF ListTypeOK
<1>4. lp # Free /\ lp.live => <<lp.datname, lp.oid>> \in existed
    BY <1>0, <1>2 DEF WalkCovers
<1>5. \A i \in 1 .. posid' : i \in 1 .. posid \/ i = posid + 1
    BY <1>0, <1>1
<1>6. /\ \A i \in 1 .. posid : Keep(page[i]) => Listed(page[i])
      /\ \A i \in 1 .. Slots : Due(pages[page_index + 1][i]) =>
           page[i] = pages[page_index + 1][i]
      /\ page_index < Len(pages)
      /\ \A i \in 1 .. Slots : page[i] # Free /\ page[i].live =>
              <<page[i].datname, page[i].oid>> \in existed
      /\ \A p \in 1 .. page_index, i \in 1 .. Slots :
              Due(pages[p][i]) => Listed(pages[p][i])
    BY <1>0 DEF WalkCovers
<1>a. \A i : page[i] = page'[i]
    BY <1>0
<1>b. lp = page[posid + 1]
    OBVIOUS
<1> HIDE DEF lp
<1>7. /\ out' \in Seq(RowVersions)
      /\ \A row : Listed(row) => Listed(row)'
      /\ Keep(lp) => \E k \in 1 .. Len(out') : out'[k] = lp
      /\ \A k \in 1 .. Len(out') :
           \/ k \in 1 .. Len(out) /\ out'[k] = out[k]
           \/ out'[k] = lp /\ Keep(lp)
    <2>1. CASE Keep(lp)
        <3>1. lp \in RowVersions
            BY <2>1, <1>3 DEF Keep
        <3>2. out' = Append(out, lp)
            BY <2>1, <1>0
        <3>3. /\ out' \in Seq(RowVersions) /\ Len(out') = Len(out) + 1
              /\ \A k \in 1 .. Len(out) : out'[k] = out[k]
              /\ out'[Len(out) + 1] = lp
            BY <3>1, <3>2, <1>1
        <3>4. /\ \A k \in 1 .. Len(out) : k \in 1 .. Len(out')
              /\ Len(out) + 1 \in 1 .. Len(out')
              /\ \A k \in 1 .. Len(out') : k \in 1 .. Len(out) \/ k = Len(out) + 1
            BY <3>3, <1>1
        <3> QED
            BY <2>1, <3>3, <3>4 DEF Listed
    <2>2. CASE ~Keep(lp)
        <3>1. out' = out
            BY <2>2, <1>0
        <3> QED
            BY <2>2, <3>1, <1>1 DEF Listed
    <2> QED
        BY <2>1, <2>2
<1>8. ListTypeOK'
    BY <1>0, <1>1, <1>2, <1>7 DEF ListTypeOK
<1>9. NamesUnique'
    BY <1>0, PgUnchanged
<1>10. WalkCovers'
    <2>1. /\ \A p \in 1 .. page_index, i \in 1 .. Slots :
               Due(pages[p][i])' => Listed(pages[p][i])'
          /\ \A i \in 1 .. Slots : Due(pages[page_index + 1][i])' =>
               page[i] = pages[page_index + 1][i]
        <3>1. \A row : Due(row)' <=> Due(row)
            BY <1>0, PgUnchanged
        <3>2. \A p, i : (Due(pages[p][i])' <=> Due(pages[p][i]))
                        /\ (Listed(pages[p][i]) => Listed(pages[p][i])')
            BY <1>0, <1>7 DEF Due, Listed
        <3> QED
            BY <3>2, <1>0, <1>6 DEF Due
    <2>2. \A i \in 1 .. posid' : Keep(page[i]) => Listed(page[i])'
        <3> SUFFICES ASSUME NEW i \in 1 .. posid', Keep(page[i]) PROVE Listed(page[i])'
            OBVIOUS
        <3>1. CASE i \in 1 .. posid
            BY <3>1, <1>6, <1>7, <1>0 DEF Listed
        <3>2. CASE i = posid + 1
            <4>1. page[i] = lp
                BY <3>2, <1>b
            <4>2. page'[i] = lp
                BY <4>1, <1>a
            <4> QED
                BY <4>1, <4>2, <1>7 DEF Listed
        <3> QED
            BY <3>1, <3>2, <1>5
    <2> QED
        BY <2>1, <2>2, <1>0, <1>1, <1>6 DEF WalkCovers, Keep
<1>11. ListedExisted'
    <2> SUFFICES ASSUME NEW k \in 1 .. Len(out')
                 PROVE  LeftOver(out[k])' \/ <<out'[k].datname, out'[k].oid>> \in existed
        BY <1>0 DEF ListedExisted
    <2>1. CASE k \in 1 .. Len(out) /\ out'[k] = out[k]
        BY <2>1, <1>0 DEF ListedExisted, LeftOver
    <2>2. CASE out'[k] = lp /\ Keep(lp)
        <3>1. lp.t_xmax = 0 /\ lp # Free
            BY <2>2 DEF Keep
        <3>2. CASE lp.live
            BY <3>1, <3>2, <2>2, <1>4
        <3>3. CASE ~lp.live
            BY <3>1, <3>3, <2>2 DEF LeftOver
        <3> QED
            BY <3>2, <3>3
    <2> QED
        BY <2>1, <2>2, <1>7
<1> QED
    BY <1>8, <1>9, <1>10, <1>11 DEF ListInv

(* A page is left when every line pointer of its copy has been looked at. *)
LEMMA NextPageKeepsListInv ==
    ASSUME ListInv, NextPage
    PROVE  ListInv'
<1>0. /\ ListTypeOK /\ NamesUnique /\ WalkCovers /\ ListedExisted
      /\ at = "rows" /\ at' = "walk" /\ posid >= Slots /\ posid' = 0
      /\ page_index' = page_index + 1
      /\ pages' = pages /\ changes' = changes
      /\ touched' = touched /\ existed' = existed /\ out' = out /\ cut' = cut
    BY DEF ListInv, NextPage, pgVars
<1>1. /\ Len(pages) \in Nat /\ page_index \in Nat
      /\ Slots \in Nat /\ posid \in Nat /\ posid <= Slots
    BY <1>0, ListTypeFacts
<1>2. posid = Slots
    BY <1>0, <1>1
<1>3. ListTypeOK'
    BY <1>0, <1>1 DEF ListTypeOK
<1>4. NamesUnique'
    BY <1>0, PgUnchanged
<1>5. \A p \in 1 .. page_index + 1, i \in 1 .. Slots : Due(pages[p][i]) => Listed(pages[p][i])
    <2> SUFFICES ASSUME NEW p \in 1 .. page_index + 1, NEW i \in 1 .. Slots, Due(pages[p][i])
                 PROVE  Listed(pages[p][i])
        OBVIOUS
    <2>1. CASE p \in 1 .. page_index
        BY <2>1, <1>0 DEF WalkCovers
    <2>2. CASE p = page_index + 1
        <3>1. page[i] = pages[p][i]
            BY <2>2, <1>0 DEF WalkCovers
        <3>2. Keep(page[i])
            BY <3>1 DEF Due, Keep
        <3> QED
            BY <3>1, <3>2, <1>0, <1>2 DEF WalkCovers
    <2> QED
        BY <2>1, <2>2, <1>1
<1>6. page_index + 1 <= Len(pages)
    BY <1>0, <1>1 DEF WalkCovers
<1>7. WalkCovers'
    BY <1>0, <1>5, <1>6 DEF WalkCovers, Due, Listed
<1>8. ListedExisted'
    BY <1>0 DEF ListedExisted, LeftOver
<1> QED
    BY <1>3, <1>4, <1>7, <1>8 DEF ListInv

(* The walk ends when no page is left or an error cuts it short, or it     *)
(* does not begin at all.                                                  *)
LEMMA EndKeepsListInv ==
    ASSUME ListInv, EndOfPages \/ OpenPanics
    PROVE  ListInv'
<1>0. /\ ListTypeOK /\ NamesUnique /\ WalkCovers /\ ListedExisted
      /\ at = "walk"
      /\ at' \in {"done", "panicked"}
      /\ page_index' = page_index /\ page' = page /\ posid' = posid
      /\ pages' = pages /\ changes' = changes
      /\ touched' = touched /\ existed' = existed /\ out' = out
    BY DEF ListInv, EndOfPages, OpenPanics, pgVars
<1>1. Len(pages) \in Nat /\ page_index \in Nat
    BY <1>0, ListTypeFacts
<1>a. cut' \in BOOLEAN
    <2>1. CASE EndOfPages
        BY <2>1 DEF EndOfPages
    <2>2. CASE OpenPanics
        BY <2>2, <1>0 DEF OpenPanics, ListTypeOK
    <2> QED
        BY <2>1, <2>2
<1>b. at' = "done" => (cut' <=> page_index < Len(pages))
    BY DEF EndOfPages, OpenPanics
<1>2. ListTypeOK'
    BY <1>0, <1>a DEF ListTypeOK
<1>3. NamesUnique'
    BY <1>0, PgUnchanged
<1>4. /\ page_index <= Len(pages)
      /\ \A p \in 1 .. page_index, i \in 1 .. Slots : Due(pages[p][i]) => Listed(pages[p][i])
    BY <1>0 DEF WalkCovers
<1>5. WalkCovers'
    <2>1. CASE at' = "panicked"
        BY <2>1 DEF WalkCovers
    <2>2. CASE at' = "done" /\ cut'
        BY <2>2 DEF WalkCovers
    <2>3. CASE at' = "done" /\ ~cut'
        <3>1. page_index = Len(pages)
            BY <2>3, <1>1, <1>4, <1>b
        <3> QED
            BY <2>3, <3>1, <1>0, <1>4 DEF WalkCovers, Due, Listed
    <2> QED
        BY <2>1, <2>2, <2>3, <1>0
<1>6. ListedExisted'
    BY <1>0 DEF ListedExisted, LeftOver
<1> QED
    BY <1>2, <1>3, <1>5, <1>6 DEF ListInv

(* The invariant of the walk over pg_database holds in every state: the    *)
(* rows that are due are listed as far as list_databases has come, however *)
(* PostgreSQL's changes fall between the reads of two pages.               *)
THEOREM ListInvariant == Spec => []ListInv
<1>1. Init => ListInv
    BY InitListInv
<1>2. ListInv /\ [Next]_vars => ListInv'
    <2> SUFFICES ASSUME ListInv, [Next]_vars PROVE ListInv'
        OBVIOUS
    <2>1. CASE Postgres
        BY <2>1, PostgresKeepsListInv
    <2>2. CASE Begin
        BY <2>2, BeginKeepsListInv
    <2>3. CASE ReadPage
        BY <2>3, ReadPageKeepsListInv
    <2>4. CASE NextRow
        BY <2>4, NextRowKeepsListInv
    <2>5. CASE NextPage
        BY <2>5, NextPageKeepsListInv
    <2>6. CASE EndOfPages \/ OpenPanics
        BY <2>6, EndKeepsListInv
    <2>7. CASE UNCHANGED vars
        <3>1. /\ pages' = pages /\ changes' = changes
              /\ touched' = touched /\ existed' = existed /\ at' = at
              /\ page_index' = page_index /\ page' = page /\ posid' = posid /\ out' = out
              /\ cut' = cut
            BY <2>7 DEF vars, pgVars, walkVars
        <3>2. NamesUnique'
            BY <3>1, PgUnchanged
        <3>3. ListTypeOK' /\ ListedExisted'
            BY <3>1 DEF ListInv, ListTypeOK, ListedExisted, LeftOver
        <3>4. WalkCovers'
            BY <3>1 DEF ListInv, WalkCovers, Due, Listed, Keep
        <3> QED
            BY <3>2, <3>3, <3>4 DEF ListInv
    <2> QED
        BY <2>1, <2>2, <2>3, <2>4, <2>5, <2>6, <2>7 DEF Next, list_databases
<1> QED
    BY <1>1, <1>2, PTL DEF Spec

(* Every name that list_databases returns was the name of that database at *)
(* some time since the call began, or is left over from a change that was  *)
(* rolled back.                                                            *)
THEOREM WalkListedExisted == Spec => []ListedExisted
<1>1. ListInv => ListedExisted
    BY DEF ListInv
<1> QED
    BY <1>1, ListInvariant, PTL

-----------------------------------------------------------------------------
(* A set of natural numbers that is not empty has a least member. *)
LEMMA LeastNatural ==
    ASSUME NEW S \in SUBSET Nat, S # {}
    PROVE  Min(S) \in S
<1> DEFINE R == OpToRel(<, Nat)
<1>1. IsWellFoundedOn(R, Nat)
    BY NatLessThanWellFounded
<1>2. \A x, y \in Nat : y < x => <<y, x>> \in R
    BY DEF OpToRel
<1> HIDE DEF R
<1>3. PICK x \in S : \A y \in S : ~(<<y, x>> \in R)
    BY <1>1, WFMin
<1>a. \A y \in S : ~(y < x)
    BY <1>2, <1>3
<1>4. \A y \in S : x <= y
    BY <1>a
<1>5. \E z \in S : \A y \in S : z <= y
    BY <1>4
<1> QED
    BY <1>5 DEF Min

(* Every entry of the list with the name of a live, untouched row that is  *)
(* not left over has that row's oid.                                       *)
LEMMA SameNameSameOid ==
    ASSUME ListInv, NEW row \in LiveRows(Rows), row.oid \notin touched,
           NEW i \in 1 .. Len(out), ~LeftOver(out[i]), out[i].datname = row.datname
    PROVE  out[i].oid = row.oid
<1>1. PICK pair : pair = <<out[i].datname, out[i].oid>>
    OBVIOUS
<1>2. pair \in existed
    BY <1>1 DEF ListInv, ListedExisted
<1>3. pair[1] = row.datname => pair[2] = row.oid
    BY <1>2 DEF ListInv, NamesUnique
<1> QED
    BY <1>1, <1>3

(* get_database_oid finds a database that has not been changed since the   *)
(* walk began, whatever happened to the others, unless the xmax of a       *)
(* rolled-back change hides its row, a left-over row bears its name, or an *)
(* error cut the walk short.                                               *)
THEOREM WalkUntouchedFound == Spec => []UntouchedFound
<1>1. ListInv => UntouchedFound
    <2> SUFFICES ASSUME ListInv, at = "done", ~cut, NEW row \in LiveRows(Rows),
                        row.oid \notin touched, row.t_xmax = 0,
                        \A i \in 1 .. Len(out) : LeftOver(out[i]) => out[i].datname # row.datname
                 PROVE  get_database_oid(row.datname) = row.oid
        BY DEF UntouchedFound
    <2> DEFINE found == {i \in 1 .. Len(out) : out[i].datname = row.datname}
    <2>1. /\ pages \in Seq(PageImages) /\ Len(out) \in Nat
        BY ListTypeFacts DEF ListInv
    <2>2. row \in Rows /\ row.live /\ row \in RowVersions
        BY <2>1, RowsAreSlots DEF LiveRows
    <2>3. PICK p \in 1 .. Len(pages), i \in 1 .. Slots : pages[p][i] = row
        BY <2>1, <2>2, RowsAreSlots
    <2>4. Due(row)
        BY <2>2, RowVersionFacts DEF Due
    <2>5. Listed(row)
        BY <2>3, <2>4 DEF ListInv, WalkCovers
    <2>6. found # {}
        BY <2>5 DEF Listed
    <2>7. found \in SUBSET Nat /\ \A k \in found : out[k].oid = row.oid
        BY <2>1, SameNameSameOid
    <2>8. get_database_oid(row.datname) = out[Min(found)].oid
        BY <2>6 DEF get_database_oid
    <2> HIDE DEF found
    <2>9. Min(found) \in found
        BY <2>6, <2>7, LeastNatural
    <2> QED
        BY <2>7, <2>8, <2>9
<1> QED
    BY <1>1, ListInvariant, PTL
=============================================================================
