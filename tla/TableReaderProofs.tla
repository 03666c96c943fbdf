------------------------- MODULE TableReaderProofs --------------------------
(***************************************************************************)
(* Proofs about the table reader and its catalog caches, for any number of *)
(* databases, names and changes.                                           *)
(***************************************************************************)
EXTENDS TableReader, SequenceTheorems, WellFoundedInduction, TLAPS

ClassItems == ClassRows \cup {Free}
AttributeItems == AttributeRows \cup {Free}

LEMMA RowFacts ==
    /\ Free.oid = 0 /\ Free.attrelid = 0 /\ Free.live = FALSE
    /\ None.oid = 0
    /\ \A row \in ClassRows :
         /\ row.oid \in Nat /\ row.oid # 0 /\ row # Free /\ row # None
         /\ row.relname \in TableNames /\ row.relkind \in {"r", "v"} /\ row.relfilenode \in Nat
         /\ row.t_xmax \in Nat /\ row.live \in BOOLEAN
    /\ \A row \in AttributeRows :
         /\ row.attrelid \in Nat /\ row.attrelid # 0 /\ row # Free /\ row.live \in BOOLEAN
<1>1. Free.oid = 0 /\ Free.attrelid = 0 /\ Free.live = FALSE /\ None.oid = 0
    BY DEF Free, None
<1>2. \A row \in ClassRows :
         /\ row.oid \in Nat /\ row.oid # 0
         /\ row.relname \in TableNames /\ row.relkind \in {"r", "v"} /\ row.relfilenode \in Nat
         /\ row.t_xmax \in Nat /\ row.live \in BOOLEAN
    BY DEF ClassRows
<1>3. \A row \in AttributeRows :
         row.attrelid \in Nat /\ row.attrelid # 0 /\ row.live \in BOOLEAN
    BY DEF AttributeRows
<1>4. \A row \in ClassRows : row # Free /\ row # None
    BY <1>1, <1>2
<1>5. \A row \in AttributeRows : row # Free
    BY <1>1, <1>3
<1> QED
    BY <1>1, <1>2, <1>3, <1>4, <1>5

(* Oids are handed out in order, from one above those of the catalogs. *)
LEMMA OidFacts ==
    /\ FirstNormalObjectId \in Nat /\ PgClassOid \in Nat /\ PgClassOid < FirstNormalObjectId
    /\ FirstNormalObjectId # 0 /\ PgClassOid # 0
    /\ \A n \in Nat : Oids(n) = {PgClassOid} \cup (FirstNormalObjectId .. FirstNormalObjectId + n - 1)
    BY DEF FirstNormalObjectId, PgClassOid, Oids

LEMMA FreeIsDead == ~Free.live
    BY DEF Free

(* The rows of a heap are its line pointers that are not free. *)
LEMMA RowsAreItems ==
    ASSUME NEW heap
    PROVE  /\ \A row \in Rows(heap) : row # Free /\ \E i \in 1 .. Len(heap) : heap[i] = row
           /\ \A i \in 1 .. Len(heap) : heap[i] # Free => heap[i] \in Rows(heap)
    BY DEF Rows

(* A row that is placed takes one line pointer, which was free or is new,  *)
(* and leaves the others alone.                                            *)
LEMMA PlacedFacts ==
    ASSUME NEW S, NEW heap \in Seq(S), NEW row \in S, NEW new \in Placed(heap, row)
    PROVE  /\ new \in Seq(S)
           /\ Len(heap) <= Len(new)
           /\ \E k \in 1 .. Len(new) :
                /\ new[k] = row
                /\ k \in 1 .. Len(heap) => heap[k] = Free
                /\ \A i \in 1 .. Len(new) :
                     i # k => i \in 1 .. Len(heap) /\ new[i] = heap[i]
<1>0. Len(heap) \in Nat
    OBVIOUS
<1>1. CASE \E k \in 1 .. Len(heap) : heap[k] = Free /\ new = [heap EXCEPT ![k] = row]
    <2>1. PICK k \in 1 .. Len(heap) : heap[k] = Free /\ new = [heap EXCEPT ![k] = row]
        BY <1>1
    <2>2. new \in Seq(S) /\ Len(new) = Len(heap)
        BY <2>1
    <2>3. \A i \in 1 .. Len(heap) : new[i] = IF i = k THEN row ELSE heap[i]
        BY <2>1
    <2> QED
        BY <2>1, <2>2, <2>3, <1>0
<1>2. CASE new = Append(heap, row)
    <2>1. /\ new \in Seq(S) /\ Len(new) = Len(heap) + 1
          /\ \A i \in 1 .. Len(heap) : new[i] = heap[i]
          /\ new[Len(heap) + 1] = row
        BY <1>2
    <2>2. /\ Len(heap) + 1 \in 1 .. Len(new)
          /\ Len(heap) + 1 \notin 1 .. Len(heap)
          /\ \A i \in 1 .. Len(new) : i # Len(heap) + 1 => i \in 1 .. Len(heap)
          /\ Len(heap) <= Len(new)
        BY <2>1, <1>0
    <2> QED
        BY <2>1, <2>2
<1> QED
    BY <1>1, <1>2 DEF Placed

(* A function over the line pointers is a heap. *)
LEMMA MappedHeap ==
    ASSUME NEW S, NEW n \in Nat, NEW f \in [1 .. n -> S]
    PROVE  f \in Seq(S) /\ Len(f) = n
    OBVIOUS

(* A marked version keeps all but its xmax and whether it is live. *)
LEMMA MarkedFacts ==
    ASSUME changes \in Nat, NEW c \in BOOLEAN
    PROVE  /\ \A row \in ClassRows :
                /\ Marked(row, c) \in ClassRows
                /\ Marked(row, c).oid = row.oid /\ Marked(row, c).relname = row.relname
                /\ Marked(row, c).relkind = row.relkind
                /\ Marked(row, c).relfilenode = row.relfilenode
                /\ Marked(row, c).live = ~c
           /\ \A row \in AttributeRows :
                /\ Marked(row, c) \in AttributeRows
                /\ Marked(row, c).attrelid = row.attrelid
<1>0. changes + 3 \in Nat /\ (~c) \in BOOLEAN
    OBVIOUS
<1>1. ASSUME NEW row \in ClassRows
      PROVE  /\ Marked(row, c) \in ClassRows
             /\ Marked(row, c).oid = row.oid /\ Marked(row, c).relname = row.relname
             /\ Marked(row, c).relkind = row.relkind
             /\ Marked(row, c).relfilenode = row.relfilenode
             /\ Marked(row, c).live = ~c
    BY <1>0 DEF Marked, ClassRows
<1>2. ASSUME NEW row \in AttributeRows
      PROVE  /\ Marked(row, c) \in AttributeRows
             /\ Marked(row, c).attrelid = row.attrelid
    BY <1>0 DEF Marked, AttributeRows
<1> QED
    BY <1>1, <1>2

-----------------------------------------------------------------------------
(* What the changes do to a heap. *)

(* Marked versions of a relation's row. *)
LEMMA MarkedClassFacts ==
    ASSUME ReaderTypeOK, NEW d \in Dbs, NEW oid \in Nat \ {0}, NEW c \in BOOLEAN
    PROVE  /\ MarkedClass(d, oid, c) \in Seq(ClassItems)
           /\ Len(MarkedClass(d, oid, c)) = Len(pg_class[d])
           /\ \A i \in 1 .. Len(pg_class[d]) :
                \/ /\ MarkedClass(d, oid, c)[i] = pg_class[d][i]
                   /\ ~(pg_class[d][i].live /\ pg_class[d][i].oid = oid)
                \/ /\ pg_class[d][i] \in ClassRows
                   /\ pg_class[d][i].live /\ pg_class[d][i].oid = oid
                   /\ MarkedClass(d, oid, c)[i] = Marked(pg_class[d][i], c)
<1> DEFINE item(i) == IF pg_class[d][i].live /\ pg_class[d][i].oid = oid
                        THEN Marked(pg_class[d][i], c) ELSE pg_class[d][i]
           heap == [i \in 1 .. Len(pg_class[d]) |-> item(i)]
<1>0. /\ pg_class[d] \in Seq(ClassItems) /\ Len(pg_class[d]) \in Nat /\ changes \in Nat
    BY DEF ReaderTypeOK, ClassItems
<1>1. ASSUME NEW i \in 1 .. Len(pg_class[d])
      PROVE  /\ item(i) \in ClassItems
             /\ \/ /\ item(i) = pg_class[d][i]
                   /\ ~(pg_class[d][i].live /\ pg_class[d][i].oid = oid)
                \/ /\ pg_class[d][i] \in ClassRows
                   /\ pg_class[d][i].live /\ pg_class[d][i].oid = oid
                   /\ item(i) = Marked(pg_class[d][i], c)
    <2>1. pg_class[d][i] \in ClassItems
        BY <1>0
    <2>2. CASE pg_class[d][i].live /\ pg_class[d][i].oid = oid
        <3>1. pg_class[d][i] \in ClassRows
            BY <2>1, <2>2, RowFacts DEF ClassItems
        <3>2. item(i) = Marked(pg_class[d][i], c)
            BY <2>2
        <3> HIDE DEF item
        <3> QED
            BY <2>2, <3>1, <3>2, <1>0, MarkedFacts DEF ClassItems
    <2>3. CASE ~(pg_class[d][i].live /\ pg_class[d][i].oid = oid)
        BY <2>1, <2>3
    <2> QED
        BY <2>2, <2>3
<1>2. MarkedClass(d, oid, c) = heap
    BY DEF MarkedClass
<1> HIDE DEF item
<1>3. heap \in [1 .. Len(pg_class[d]) -> ClassItems]
    BY <1>1
<1>4. \A i \in 1 .. Len(pg_class[d]) : heap[i] = item(i)
    OBVIOUS
<1> HIDE DEF heap
<1>5. heap \in Seq(ClassItems) /\ Len(heap) = Len(pg_class[d])
    BY <1>0, <1>3, MappedHeap
<1> QED
    BY <1>1, <1>2, <1>4, <1>5

(* Marked versions of a relation's columns. *)
LEMMA MarkedAttributesFacts ==
    ASSUME ReaderTypeOK, NEW d \in Dbs, NEW oid \in Nat \ {0}, NEW attnums, NEW c \in BOOLEAN
    PROVE  /\ MarkedAttributes(d, oid, attnums, c) \in Seq(AttributeItems)
           /\ Len(MarkedAttributes(d, oid, attnums, c)) = Len(pg_attribute[d])
           /\ \A i \in 1 .. Len(pg_attribute[d]) :
                \/ MarkedAttributes(d, oid, attnums, c)[i] = pg_attribute[d][i]
                \/ /\ pg_attribute[d][i].attrelid = oid
                   /\ MarkedAttributes(d, oid, attnums, c)[i] \in AttributeRows
                   /\ MarkedAttributes(d, oid, attnums, c)[i].attrelid = oid
<1> DEFINE item(i) == IF /\ pg_attribute[d][i].live /\ pg_attribute[d][i].attrelid = oid
                         /\ pg_attribute[d][i].attnum \in attnums
                        THEN Marked(pg_attribute[d][i], c) ELSE pg_attribute[d][i]
           heap == [i \in 1 .. Len(pg_attribute[d]) |-> item(i)]
<1>0. /\ pg_attribute[d] \in Seq(AttributeItems) /\ Len(pg_attribute[d]) \in Nat /\ changes \in Nat
    BY DEF ReaderTypeOK, AttributeItems
<1>1. ASSUME NEW i \in 1 .. Len(pg_attribute[d])
      PROVE  /\ item(i) \in AttributeItems
             /\ \/ item(i) = pg_attribute[d][i]
                \/ /\ pg_attribute[d][i].attrelid = oid
                   /\ item(i) \in AttributeRows /\ item(i).attrelid = oid
    <2>1. pg_attribute[d][i] \in AttributeItems
        BY <1>0
    <2>2. CASE pg_attribute[d][i].attrelid = oid /\ item(i) = Marked(pg_attribute[d][i], c)
        <3>1. pg_attribute[d][i] \in AttributeRows
            BY <2>1, <2>2, RowFacts DEF AttributeItems
        <3> HIDE DEF item
        <3> QED
            BY <2>2, <3>1, <1>0, MarkedFacts DEF AttributeItems
    <2>3. CASE item(i) = pg_attribute[d][i]
        BY <2>1, <2>3
    <2> QED
        BY <2>2, <2>3
<1>2. MarkedAttributes(d, oid, attnums, c) = heap
    BY DEF MarkedAttributes
<1> HIDE DEF item
<1>3. heap \in [1 .. Len(pg_attribute[d]) -> AttributeItems]
    BY <1>1
<1>4. \A i \in 1 .. Len(pg_attribute[d]) : heap[i] = item(i)
    OBVIOUS
<1> HIDE DEF heap
<1>5. heap \in Seq(AttributeItems) /\ Len(heap) = Len(pg_attribute[d])
    BY <1>0, <1>3, MappedHeap
<1> QED
    BY <1>1, <1>2, <1>4, <1>5

(* Vacuum frees the line pointers of dead rows and leaves the others. *)
LEMMA VacuumedFacts ==
    ASSUME NEW S, Free \in S, NEW heap \in Seq(S)
    PROVE  /\ Vacuumed(heap) \in Seq(S)
           /\ Len(Vacuumed(heap)) = Len(heap)
           /\ \A i \in 1 .. Len(heap) :
                \/ heap[i].live /\ Vacuumed(heap)[i] = heap[i]
                \/ ~heap[i].live /\ Vacuumed(heap)[i] = Free
<1> DEFINE new == [i \in 1 .. Len(heap) |-> IF heap[i].live THEN heap[i] ELSE Free]
<1>0. Len(heap) \in Nat
    OBVIOUS
<1>1. Vacuumed(heap) = new
    BY DEF Vacuumed
<1>2. new \in [1 .. Len(heap) -> S]
    OBVIOUS
<1>3. \A i \in 1 .. Len(heap) : new[i] = IF heap[i].live THEN heap[i] ELSE Free
    OBVIOUS
<1> HIDE DEF new
<1>4. new \in Seq(S) /\ Len(new) = Len(heap)
    BY <1>0, <1>2, MappedHeap
<1> QED
    BY <1>1, <1>3, <1>4

-----------------------------------------------------------------------------
(* What the changes keep of a heap.  T stands for the tables that have     *)
(* been touched, n for the changes made before.                            *)

HeapOK(heap, n) ==
    \A i, j \in 1 .. Len(heap) :
      heap[i] # Free /\ heap[j] # Free =>
        /\ heap[i].oid \in Oids(n) /\ heap[i].relfilenode < FirstNormalObjectId + n
        /\ heap[i].relfilenode # 0 => heap[i].relkind = "r"
        /\ heap[i].oid = heap[j].oid => heap[i].relname = heap[j].relname
        /\ heap[i].live /\ heap[j].live =>
             /\ heap[i].relname = heap[j].relname => i = j
             /\ heap[i].relfilenode # 0 /\ heap[i].relfilenode = heap[j].relfilenode => i = j

(* A row that comes from another version of the same row. *)
SameRelation(new, old) ==
    /\ new \in ClassRows /\ old \in ClassRows
    /\ new.oid = old.oid /\ new.relname = old.relname
    /\ new.relkind = old.relkind /\ new.relfilenode = old.relfilenode
    /\ new.live => old.live

(* Every row of the new heap but the one at k was there before. *)
Descends(old, new, k) ==
    \A i \in 1 .. Len(new) :
      i # k /\ new[i] # Free => i \in 1 .. Len(old) /\ SameRelation(new[i], old[i])

ClassKept(old, new, T) ==
    /\ new \in Seq(ClassItems)
    /\ \A i \in 1 .. Len(new) :
         \/ new[i] = Free
         \/ new[i] \in ClassRows /\ new[i].oid \in T
         \/ i \in 1 .. Len(old) /\ new[i] = old[i]
    /\ \A i \in 1 .. Len(old) :
         old[i].live /\ old[i].oid \notin T => i \in 1 .. Len(new) /\ new[i] = old[i]

AttributesKept(old, new, T) ==
    /\ new \in Seq(AttributeItems)
    /\ \A i \in 1 .. Len(new) :
         \/ new[i] = Free
         \/ new[i] \in AttributeRows /\ new[i].attrelid \in T
         \/ i \in 1 .. Len(old) /\ new[i] = old[i]
    /\ \A i \in 1 .. Len(old) :
         old[i].live /\ old[i].attrelid \notin T => i \in 1 .. Len(new) /\ new[i] = old[i]

(* Rows of relations that exist, or of the new one. *)
KnownOids(old, new, n) ==
    \A row \in Rows(new) :
      \/ row.oid = FirstNormalObjectId + n
      \/ \E known \in Rows(old) : known.oid = row.oid /\ known.relname = row.relname

ClassStep(old, new, T, n) ==
    ClassKept(old, new, T) /\ HeapOK(new, n + 1) /\ KnownOids(old, new, n)

(* A change raises the bounds on oids and relfilenodes by one. *)
LEMMA BoundsGrow ==
    ASSUME NEW n \in Nat
    PROVE  /\ \A x : x \in Oids(n) => x \in Oids(n + 1) /\ x # FirstNormalObjectId + n
           /\ \A x : x \in Nat /\ x < FirstNormalObjectId + n =>
                x < FirstNormalObjectId + (n + 1) /\ x # FirstNormalObjectId + n
           /\ FirstNormalObjectId + n \in Oids(n + 1) /\ FirstNormalObjectId + n \in Nat \ {0}
           /\ PgClassOid # FirstNormalObjectId + n
    BY OidFacts

(* A heap in which each row comes from a version of itself is consistent. *)
LEMMA DescendsOK ==
    ASSUME NEW n \in Nat, NEW old \in Seq(ClassItems), NEW new \in Seq(ClassItems),
           HeapOK(old, n), Descends(old, new, 0)
    PROVE  HeapOK(new, n + 1) /\ KnownOids(old, new, n)
<1>0. Len(old) \in Nat /\ Len(new) \in Nat
    OBVIOUS
<1>a. \A row, known : SameRelation(row, known) => known # Free
    BY RowFacts DEF SameRelation
<1>b. \A i \in 1 .. Len(new) : i # 0
    BY <1>0
<1>1. \A i \in 1 .. Len(new) :
         new[i] # Free => i \in 1 .. Len(old) /\ SameRelation(new[i], old[i]) /\ old[i] # Free
    BY <1>a, <1>b DEF Descends
<1>2. HeapOK(new, n + 1)
    <2> SUFFICES ASSUME NEW i \in 1 .. Len(new), NEW j \in 1 .. Len(new),
                        new[i] # Free, new[j] # Free
                 PROVE  /\ new[i].oid \in Oids(n + 1) /\ new[i].relfilenode < FirstNormalObjectId + (n + 1)
                        /\ new[i].relfilenode # 0 => new[i].relkind = "r"
                        /\ new[i].oid = new[j].oid => new[i].relname = new[j].relname
                        /\ new[i].live /\ new[j].live =>
                             /\ new[i].relname = new[j].relname => i = j
                             /\ new[i].relfilenode # 0 /\ new[i].relfilenode = new[j].relfilenode => i = j
        BY DEF HeapOK
    <2>1. /\ i \in 1 .. Len(old) /\ j \in 1 .. Len(old) /\ old[i] # Free /\ old[j] # Free
          /\ SameRelation(new[i], old[i]) /\ SameRelation(new[j], old[j])
        BY <1>1
    <2>2. /\ old[i].oid \in Oids(n) /\ old[i].relfilenode < FirstNormalObjectId + n
          /\ old[i].relfilenode # 0 => old[i].relkind = "r"
          /\ old[i].oid = old[j].oid => old[i].relname = old[j].relname
          /\ old[i].live /\ old[j].live =>
               /\ old[i].relname = old[j].relname => i = j
               /\ old[i].relfilenode # 0 /\ old[i].relfilenode = old[j].relfilenode => i = j
        BY <2>1 DEF HeapOK
    <2>3. old[i].oid \in Nat /\ old[i].relfilenode \in Nat
        BY <2>1, RowFacts DEF SameRelation
    <2>4. old[i].oid \in Oids(n + 1) /\ old[i].relfilenode < FirstNormalObjectId + (n + 1)
        BY <2>2, <2>3, BoundsGrow
    <2> QED
        BY <2>1, <2>2, <2>4 DEF SameRelation
<1>3. KnownOids(old, new, n)
    BY <1>1, RowsAreItems DEF KnownOids, SameRelation
<1> QED
    BY <1>2, <1>3

(* So is one with a new row, if no live row has its name. *)
LEMMA DescendsButOneOK ==
    ASSUME NEW n \in Nat, NEW old \in Seq(ClassItems), NEW new \in Seq(ClassItems),
           HeapOK(old, n), NEW k \in 1 .. Len(new), Descends(old, new, k),
           new[k] \in ClassRows,
           new[k].oid \in Oids(n + 1), new[k].relfilenode <= FirstNormalObjectId + n,
           new[k].relfilenode # 0 =>
             new[k].relkind = "r" /\ new[k].relfilenode = FirstNormalObjectId + n,
           \/ new[k].oid = FirstNormalObjectId + n
           \/ \E known \in Rows(old) : known.oid = new[k].oid /\ known.relname = new[k].relname,
           new[k].live => \A i \in 1 .. Len(new) :
             i # k /\ new[i] # Free /\ new[i].live => new[i].relname # new[k].relname
    PROVE  HeapOK(new, n + 1) /\ KnownOids(old, new, n)
<1>0. Len(old) \in Nat /\ Len(new) \in Nat
    OBVIOUS
<1>a. \A row, known : SameRelation(row, known) => known # Free
    BY RowFacts DEF SameRelation
<1>1. \A i \in 1 .. Len(new) :
         i # k /\ new[i] # Free => i \in 1 .. Len(old) /\ SameRelation(new[i], old[i]) /\ old[i] # Free
    BY <1>a DEF Descends
<1>2. \A i, j \in 1 .. Len(old) : old[i] # Free /\ old[j] # Free =>
          /\ old[i].oid \in Oids(n) /\ old[i].relfilenode < FirstNormalObjectId + n
          /\ old[i].relfilenode # 0 => old[i].relkind = "r"
          /\ old[i].oid = old[j].oid => old[i].relname = old[j].relname
          /\ old[i].live /\ old[j].live =>
               /\ old[i].relname = old[j].relname => i = j
               /\ old[i].relfilenode # 0 /\ old[i].relfilenode = old[j].relfilenode => i = j
    BY DEF HeapOK
<1>3. /\ new[k].oid \in Nat /\ new[k].relfilenode \in Nat
      /\ new[k].oid \in Oids(n + 1) /\ new[k].relfilenode < FirstNormalObjectId + (n + 1)
      /\ new[k].relfilenode # 0 => new[k].relkind = "r"
    <2>1. new[k].oid \in Nat /\ new[k].relfilenode \in Nat
        BY RowFacts
    <2> QED
        BY <2>1, OidFacts
<1>4. ASSUME NEW i \in 1 .. Len(new), i # k, new[i] # Free
      PROVE  /\ new[i].oid \in Oids(n + 1) /\ new[i].relfilenode < FirstNormalObjectId + (n + 1)
             /\ new[i].relfilenode # 0 => new[i].relkind = "r"
             /\ new[i].oid # FirstNormalObjectId + n /\ new[i].relfilenode # FirstNormalObjectId + n
             /\ new[i].oid = new[k].oid => new[i].relname = new[k].relname
    <2>1. i \in 1 .. Len(old) /\ SameRelation(new[i], old[i]) /\ old[i] # Free
        BY <1>1, <1>4
    <2>2. old[i].oid \in Nat /\ old[i].relfilenode \in Nat
        BY <2>1, RowFacts DEF SameRelation
    <2>3. /\ old[i].oid \in Oids(n) /\ old[i].relfilenode < FirstNormalObjectId + n
          /\ old[i].relfilenode # 0 => old[i].relkind = "r"
        BY <2>1, <1>2
    <2>4. /\ old[i].oid \in Oids(n + 1) /\ old[i].relfilenode < FirstNormalObjectId + (n + 1)
          /\ old[i].oid # FirstNormalObjectId + n /\ old[i].relfilenode # FirstNormalObjectId + n
        <3>1. PICK x, y : x = old[i].oid /\ y = old[i].relfilenode
            OBVIOUS
        <3>2. x \in Oids(n) /\ y \in Nat /\ y < FirstNormalObjectId + n
            BY <3>1, <2>2, <2>3, Zenon
        <3>3. /\ x \in Oids(n + 1) /\ y < FirstNormalObjectId + (n + 1)
              /\ x # FirstNormalObjectId + n /\ y # FirstNormalObjectId + n
            BY <3>2, BoundsGrow, SMTT(30)
        <3> QED
            BY <3>1, <3>3, Zenon
    <2>5. old[i].oid = new[k].oid => old[i].relname = new[k].relname
        <3> SUFFICES ASSUME old[i].oid = new[k].oid PROVE old[i].relname = new[k].relname
            OBVIOUS
        <3>1. PICK known \in Rows(old) : known.oid = new[k].oid /\ known.relname = new[k].relname
            BY <2>4
        <3>2. PICK j \in 1 .. Len(old) : old[j] = known /\ old[j] # Free
            BY RowsAreItems
        <3> QED
            BY <2>1, <3>1, <3>2, <1>2
    <2> QED
        BY <2>1, <2>3, <2>4, <2>5 DEF SameRelation
<1>5. HeapOK(new, n + 1)
    <2> SUFFICES ASSUME NEW i \in 1 .. Len(new), NEW j \in 1 .. Len(new),
                        new[i] # Free, new[j] # Free
                 PROVE  /\ new[i].oid \in Oids(n + 1) /\ new[i].relfilenode < FirstNormalObjectId + (n + 1)
                        /\ new[i].relfilenode # 0 => new[i].relkind = "r"
                        /\ new[i].oid = new[j].oid => new[i].relname = new[j].relname
                        /\ new[i].live /\ new[j].live =>
                             /\ new[i].relname = new[j].relname => i = j
                             /\ new[i].relfilenode # 0 /\ new[i].relfilenode = new[j].relfilenode => i = j
        BY DEF HeapOK
    <2>1. CASE i # k /\ j # k
        <3>1. /\ i \in 1 .. Len(old) /\ j \in 1 .. Len(old) /\ old[i] # Free /\ old[j] # Free
              /\ SameRelation(new[i], old[i]) /\ SameRelation(new[j], old[j])
            BY <2>1, <1>1
        <3>2. /\ old[i].oid = old[j].oid => old[i].relname = old[j].relname
              /\ old[i].live /\ old[j].live =>
                   /\ old[i].relname = old[j].relname => i = j
                   /\ old[i].relfilenode # 0 /\ old[i].relfilenode = old[j].relfilenode => i = j
            BY <3>1, <1>2
        <3>3. /\ new[i].oid \in Oids(n + 1) /\ new[i].relfilenode < FirstNormalObjectId + (n + 1)
              /\ new[i].relfilenode # 0 => new[i].relkind = "r"
            BY <2>1, <1>4
        <3> QED
            BY <3>1, <3>2, <3>3 DEF SameRelation
    <2>2. CASE i = k /\ j # k
        BY <2>2, <1>3, <1>4
    <2>3. CASE i # k /\ j = k
        BY <2>3, <1>4
    <2>4. CASE i = k /\ j = k
        BY <2>4, <1>3
    <2> QED
        BY <2>1, <2>2, <2>3, <2>4
<1>6. KnownOids(old, new, n)
    <2> SUFFICES ASSUME NEW row \in Rows(new)
                 PROVE  \/ row.oid = FirstNormalObjectId + n
                        \/ \E known \in Rows(old) : known.oid = row.oid /\ known.relname = row.relname
        BY DEF KnownOids
    <2>1. PICK i \in 1 .. Len(new) : new[i] = row /\ new[i] # Free
        BY RowsAreItems
    <2>2. CASE i # k
        <3>1. i \in 1 .. Len(old) /\ SameRelation(new[i], old[i]) /\ old[i] # Free
            BY <2>1, <2>2, <1>1
        <3>2. old[i] \in Rows(old)
            BY <3>1, RowsAreItems
        <3>3. old[i].oid = row.oid /\ old[i].relname = row.relname
            BY <3>1, <2>1 DEF SameRelation
        <3> QED
            BY <3>2, <3>3
    <2>3. CASE i = k
        BY <2>1, <2>3
    <2> QED
        BY <2>2, <2>3
<1> QED
    BY <1>5, <1>6

(* The rows of a heap, some of them marked, some of them freed. *)
Rewritten(old, new, T) ==
    /\ new \in Seq(ClassItems) /\ Len(new) = Len(old)
    /\ \A i \in 1 .. Len(old) :
         \/ new[i] = old[i]
         \/ SameRelation(new[i], old[i]) /\ new[i].oid \in T
         \/ new[i] = Free /\ ~old[i].live

LEMMA RewrittenDescends ==
    ASSUME NEW old \in Seq(ClassItems), NEW new, NEW T, Rewritten(old, new, T)
    PROVE  /\ Descends(old, new, 0)
           /\ ClassKept(old, new, T)
<1>0. \A i \in 1 .. Len(old) : old[i] \in ClassItems
    OBVIOUS
<1>1. \A row \in ClassRows : SameRelation(row, row)
    BY DEF SameRelation
<1>2. ASSUME NEW i \in 1 .. Len(old), new[i] # Free
      PROVE  SameRelation(new[i], old[i])
    BY <1>0, <1>1, <1>2 DEF Rewritten, ClassItems
<1>3. \A row, known : SameRelation(row, known) => row \in ClassRows /\ row.oid = known.oid
    BY DEF SameRelation
<1>4. new \in Seq(ClassItems) /\ Len(new) = Len(old)
    BY DEF Rewritten
<1>5. Descends(old, new, 0)
    BY <1>2, <1>4 DEF Descends
<1>6. ASSUME NEW i \in 1 .. Len(old)
      PROVE  /\ \/ new[i] = Free
                \/ new[i] \in ClassRows /\ new[i].oid \in T
                \/ new[i] = old[i]
             /\ old[i].live /\ old[i].oid \notin T => new[i] = old[i]
    BY <1>3 DEF Rewritten
<1> QED
    BY <1>4, <1>5, <1>6 DEF ClassKept

(* A change that adds no row to pg_class. *)
LEMMA RewrittenStep ==
    ASSUME NEW n \in Nat, NEW old \in Seq(ClassItems), NEW new, NEW T,
           HeapOK(old, n), Rewritten(old, new, T)
    PROVE  ClassStep(old, new, T, n)
<1>1. new \in Seq(ClassItems)
    BY DEF Rewritten
<1>2. Descends(old, new, 0) /\ ClassKept(old, new, T)
    BY RewrittenDescends
<1>3. HeapOK(new, n + 1) /\ KnownOids(old, new, n)
    BY <1>1, <1>2, DescendsOK
<1> QED
    BY <1>2, <1>3 DEF ClassStep

(* A change that adds a row to it. *)
LEMMA PlacedStep ==
    ASSUME NEW n \in Nat, NEW old \in Seq(ClassItems), NEW base, NEW T,
           HeapOK(old, n), Rewritten(old, base, T),
           NEW row \in ClassRows, NEW new \in Placed(base, row),
           row.oid \in T,
           row.oid \in Oids(n + 1), row.relfilenode <= FirstNormalObjectId + n,
           row.relfilenode # 0 => row.relkind = "r" /\ row.relfilenode = FirstNormalObjectId + n,
           \/ row.oid = FirstNormalObjectId + n
           \/ \E known \in Rows(old) : known.oid = row.oid /\ known.relname = row.relname,
           row.live => \A i \in 1 .. Len(old) :
             base[i] # Free /\ base[i].live => base[i].relname # row.relname
    PROVE  ClassStep(old, new, T, n)
<1>0. base \in Seq(ClassItems) /\ Len(base) = Len(old) /\ row \in ClassItems /\ Len(old) \in Nat
    BY DEF Rewritten, ClassItems
<1>1. new \in Seq(ClassItems) /\ Len(base) <= Len(new) /\ Len(new) \in Nat
    BY <1>0, PlacedFacts
<1>2. PICK k \in 1 .. Len(new) :
         /\ new[k] = row
         /\ k \in 1 .. Len(base) => base[k] = Free
         /\ \A i \in 1 .. Len(new) : i # k => i \in 1 .. Len(base) /\ new[i] = base[i]
    BY <1>0, PlacedFacts
<1>3. Descends(old, base, 0) /\ ClassKept(old, base, T)
    BY RewrittenDescends
<1>4. Descends(old, new, k)
    <2> SUFFICES ASSUME NEW i \in 1 .. Len(new), i # k, new[i] # Free
                 PROVE  i \in 1 .. Len(old) /\ SameRelation(new[i], old[i])
        BY DEF Descends
    <2>1. i \in 1 .. Len(base) /\ new[i] = base[i] /\ i # 0
        BY <1>1, <1>2
    <2> QED
        BY <2>1, <1>0, <1>3 DEF Descends
<1>5. \A i \in 1 .. Len(new) :
        row.live /\ i # k /\ new[i] # Free /\ new[i].live => new[i].relname # row.relname
    BY <1>0, <1>2
<1>6. HeapOK(new, n + 1) /\ KnownOids(old, new, n)
    BY <1>1, <1>2, <1>4, <1>5, DescendsButOneOK
<1>7. ClassKept(old, new, T)
    <2>1. ASSUME NEW i \in 1 .. Len(new)
          PROVE  \/ new[i] = Free
                 \/ new[i] \in ClassRows /\ new[i].oid \in T
                 \/ i \in 1 .. Len(old) /\ new[i] = old[i]
        <3>1. CASE i = k
            BY <3>1, <1>2
        <3>2. CASE i # k
            BY <3>2, <1>2, <1>0, <1>3 DEF ClassKept
        <3> QED
            BY <3>1, <3>2
    <2>2. ASSUME NEW i \in 1 .. Len(old), old[i].live, old[i].oid \notin T
          PROVE  i \in 1 .. Len(new) /\ new[i] = old[i]
        <3>1. i \in 1 .. Len(base) /\ base[i] = old[i]
            BY <2>2, <1>3 DEF ClassKept
        <3>2. i \in 1 .. Len(new)
            BY <1>0, <1>1
        <3>3. i # k
            BY <3>1, <2>2, <1>2, FreeIsDead
        <3> QED
            BY <3>1, <3>2, <3>3, <1>2
    <2> QED
        BY <2>1, <2>2, <1>1 DEF ClassKept
<1> QED
    BY <1>6, <1>7 DEF ClassStep

LEMMA MarkedIsRewritten ==
    ASSUME ReaderTypeOK, NEW d \in Dbs, NEW oid \in Nat \ {0}, NEW c \in BOOLEAN,
           NEW T, oid \in T
    PROVE  /\ Rewritten(pg_class[d], MarkedClass(d, oid, c), T)
           /\ c => \A i \in 1 .. Len(pg_class[d]) :
                MarkedClass(d, oid, c)[i].live => MarkedClass(d, oid, c)[i].oid # oid
<1> DEFINE new == MarkedClass(d, oid, c)
<1>1. /\ new \in Seq(ClassItems) /\ Len(new) = Len(pg_class[d])
      /\ \A i \in 1 .. Len(pg_class[d]) :
           \/ /\ new[i] = pg_class[d][i]
              /\ ~(pg_class[d][i].live /\ pg_class[d][i].oid = oid)
           \/ /\ pg_class[d][i] \in ClassRows
              /\ pg_class[d][i].live /\ pg_class[d][i].oid = oid
              /\ new[i] = Marked(pg_class[d][i], c)
    BY MarkedClassFacts
<1> HIDE DEF new
<1>2. changes \in Nat
    BY DEF ReaderTypeOK
<1>3. ASSUME NEW i \in 1 .. Len(pg_class[d]), pg_class[d][i] \in ClassRows,
             pg_class[d][i].live, pg_class[d][i].oid = oid, new[i] = Marked(pg_class[d][i], c)
      PROVE  SameRelation(new[i], pg_class[d][i]) /\ new[i].oid \in T /\ new[i].live = ~c
    BY <1>2, <1>3, MarkedFacts DEF SameRelation
<1>4. Rewritten(pg_class[d], new, T)
    BY <1>1, <1>3 DEF Rewritten
<1>5. c => \A i \in 1 .. Len(pg_class[d]) : new[i].live => new[i].oid # oid
    BY <1>1, <1>3
<1> QED
    BY <1>4, <1>5 DEF new

LEMMA SameIsRewritten ==
    ASSUME NEW old \in Seq(ClassItems), NEW T
    PROVE  Rewritten(old, old, T)
    BY DEF Rewritten

LEMMA VacuumedIsRewritten ==
    ASSUME NEW old \in Seq(ClassItems), NEW T
    PROVE  Rewritten(old, Vacuumed(old), T)
<1>1. Free \in ClassItems
    BY DEF ClassItems
<1> QED
    BY <1>1, VacuumedFacts DEF Rewritten

-----------------------------------------------------------------------------
(* The same for the columns. *)

LEMMA AttributesPlaced ==
    ASSUME NEW old \in Seq(AttributeItems), NEW base, NEW T,
           AttributesKept(old, base, T), 
           NEW row \in AttributeRows, row.attrelid \in T, NEW new \in Placed(base, row)
    PROVE  AttributesKept(old, new, T)
<1>0. base \in Seq(AttributeItems) /\ row \in AttributeItems /\ Len(old) \in Nat
    BY DEF AttributesKept, AttributeItems
<1>1. new \in Seq(AttributeItems) /\ Len(base) <= Len(new) /\ Len(new) \in Nat /\ Len(base) \in Nat
    BY <1>0, PlacedFacts
<1>2. PICK k \in 1 .. Len(new) :
         /\ new[k] = row
         /\ k \in 1 .. Len(base) => base[k] = Free
         /\ \A i \in 1 .. Len(new) : i # k => i \in 1 .. Len(base) /\ new[i] = base[i]
    BY <1>0, PlacedFacts, SMTT(30)
<1>3. ASSUME NEW i \in 1 .. Len(new)
      PROVE  \/ new[i] = Free
             \/ new[i] \in AttributeRows /\ new[i].attrelid \in T
             \/ i \in 1 .. Len(old) /\ new[i] = old[i]
    <2>1. CASE i = k
        BY <2>1, <1>2
    <2>2. CASE i # k
        BY <2>2, <1>2 DEF AttributesKept
    <2> QED
        BY <2>1, <2>2
<1>4. ASSUME NEW i \in 1 .. Len(old), old[i].live, old[i].attrelid \notin T
      PROVE  i \in 1 .. Len(new) /\ new[i] = old[i]
    <2>1. i \in 1 .. Len(base) /\ base[i] = old[i]
        BY <1>4 DEF AttributesKept
    <2>2. i \in 1 .. Len(new)
        BY <1>1, <2>1
    <2>3. i # k
        BY <2>1, <1>2, <1>4, FreeIsDead
    <2> QED
        BY <2>1, <2>2, <2>3, <1>2
<1> QED
    BY <1>1, <1>3, <1>4 DEF AttributesKept

LEMMA AttributesSame ==
    ASSUME NEW old \in Seq(AttributeItems), NEW T
    PROVE  AttributesKept(old, old, T)
    BY DEF AttributesKept

LEMMA AttributesMarked ==
    ASSUME ReaderTypeOK, NEW d \in Dbs, NEW oid \in Nat \ {0}, NEW attnums, NEW c \in BOOLEAN,
           NEW T, oid \in T
    PROVE  AttributesKept(pg_attribute[d], MarkedAttributes(d, oid, attnums, c), T)
<1>1. pg_attribute[d] \in Seq(AttributeItems)
    BY DEF ReaderTypeOK, AttributeItems
<1> QED
    BY <1>1, MarkedAttributesFacts DEF AttributesKept

LEMMA AttributesVacuumed ==
    ASSUME NEW old \in Seq(AttributeItems), NEW T
    PROVE  AttributesKept(old, Vacuumed(old), T)
<1>1. Free \in AttributeItems
    BY DEF AttributeItems
<1> QED
    BY <1>1, VacuumedFacts DEF AttributesKept

LEMMA AttributesAdded ==
    ASSUME NEW old \in Seq(AttributeItems), NEW T,
           NEW a \in AttributeRows, NEW b \in AttributeRows, NEW c \in AttributeRows,
           a.attrelid \in T, b.attrelid \in T, c.attrelid \in T
    PROVE  AttributesKept(old, old \o <<a, b, c>>, T)
<1> DEFINE more == <<a, b, c>>
           new == old \o more
<1>1. /\ more \in Seq(AttributeItems) /\ Len(more) = 3
      /\ \A i \in 1 .. 3 : more[i] \in AttributeRows /\ more[i].attrelid \in T
    BY DEF AttributeItems
<1> HIDE DEF more
<1>0. Len(old) \in Nat
    OBVIOUS
<1>a. new \in Seq(AttributeItems) /\ Len(new) = Len(old) + Len(more)
    BY <1>1, ConcatProperties
<1>b. \A i \in 1 .. Len(old) + Len(more) :
        new[i] = IF i <= Len(old) THEN old[i] ELSE more[i - Len(old)]
    BY <1>1, ConcatProperties
<1> HIDE DEF new
<1>2. /\ new \in Seq(AttributeItems) /\ Len(new) = Len(old) + 3 /\ Len(old) \in Nat
      /\ \A i \in 1 .. Len(new) : new[i] = IF i <= Len(old) THEN old[i] ELSE more[i - Len(old)]
    BY <1>0, <1>1, <1>a, <1>b
<1>3. ASSUME NEW i \in 1 .. Len(new)
      PROVE  \/ new[i] \in AttributeRows /\ new[i].attrelid \in T
             \/ i \in 1 .. Len(old) /\ new[i] = old[i]
    <2>1. CASE i <= Len(old)
        BY <2>1, <1>2
    <2>2. CASE ~(i <= Len(old))
        <3>1. i - Len(old) \in 1 .. 3
            BY <2>2, <1>2
        <3> QED
            BY <3>1, <2>2, <1>1, <1>2
    <2> QED
        BY <2>1, <2>2
<1>4. \A i \in 1 .. Len(old) : i \in 1 .. Len(new) /\ new[i] = old[i]
    BY <1>2
<1>5. AttributesKept(old, new, T)
    BY <1>2, <1>3, <1>4 DEF AttributesKept
<1> QED
    BY <1>5 DEF new, more

-----------------------------------------------------------------------------
(* The files. *)

FilesOK(heap, fs) ==
    /\ 0 \notin DOMAIN fs
    /\ \A i \in 1 .. Len(heap) :
         heap[i] # Free /\ heap[i].live /\ heap[i].relkind = "r" /\ heap[i].relfilenode # 0 =>
           heap[i].relfilenode \in DOMAIN fs

LEMMA FilesPlaced ==
    ASSUME NEW base \in Seq(ClassItems), NEW row \in ClassRows, NEW new \in Placed(base, row),
           NEW fs, FilesOK(base, fs),
           row.live /\ row.relkind = "r" => row.relfilenode \in DOMAIN fs
    PROVE  FilesOK(new, fs)
<1>1. row \in ClassItems
    BY DEF ClassItems
<1>2. PICK k \in 1 .. Len(new) :
         /\ new[k] = row
         /\ \A i \in 1 .. Len(new) : i # k => i \in 1 .. Len(base) /\ new[i] = base[i]
    BY <1>1, PlacedFacts
<1> QED
    BY <1>2 DEF FilesOK

(* A heap whose rows come from versions of themselves needs no new file. *)
LEMMA FilesRewritten ==
    ASSUME NEW old \in Seq(ClassItems), NEW new, NEW T, Rewritten(old, new, T),
           NEW fs, FilesOK(old, fs)
    PROVE  FilesOK(new, fs)
<1>0. Len(new) = Len(old) /\ Len(old) \in Nat
    BY DEF Rewritten
<1>1. Descends(old, new, 0)
    BY RewrittenDescends
<1>2. \A row, known : SameRelation(row, known) => known # Free
    BY RowFacts DEF SameRelation
<1>3. ASSUME NEW i \in 1 .. Len(new), new[i] # Free, new[i].live, new[i].relkind = "r",
             new[i].relfilenode # 0
      PROVE  new[i].relfilenode \in DOMAIN fs
    <2>1. i # 0
        BY <1>0
    <2>2. i \in 1 .. Len(old) /\ SameRelation(new[i], old[i]) /\ old[i] # Free
        BY <2>1, <1>1, <1>2, <1>3 DEF Descends
    <2>3. /\ new[i].relkind = old[i].relkind /\ new[i].relfilenode = old[i].relfilenode
          /\ old[i].live
        BY <2>2, <1>3 DEF SameRelation
    <2> QED
        BY <2>2, <2>3, <1>3 DEF FilesOK
<1> QED
    BY <1>3 DEF FilesOK

(* When a relation is dropped or rewritten, the other tables have files    *)
(* other than its old one.                                                 *)
LEMMA FilesMarked ==
    ASSUME ReaderTypeOK, NEW d \in Dbs, HeapOK(pg_class[d], changes),
           FilesOK(pg_class[d], files[d]),
           NEW row \in Class(d), row.live, NEW c \in BOOLEAN, NEW nodes, 0 \notin nodes,
           NEW tuples
    PROVE  FilesOK(MarkedClass(d, row.oid, c),
                   Replaced(files[d], row.relfilenode, nodes, tuples, c))
<1> DEFINE old == pg_class[d]
           new == MarkedClass(d, row.oid, c)
           fs == Replaced(files[d], row.relfilenode, nodes, tuples, c)
<1>0. old \in Seq(ClassItems) /\ Len(old) \in Nat
    BY DEF ReaderTypeOK, ClassItems
<1>1. PICK m \in 1 .. Len(old) : old[m] = row /\ row # Free
    BY RowsAreItems DEF Class
<1>2. row \in ClassRows
    BY <1>0, <1>1 DEF ClassItems
<1>3. row.oid \in Nat \ {0} /\ row.relfilenode \in Nat
    BY <1>2, RowFacts
<1>4. /\ Rewritten(old, new, {row.oid})
      /\ c => \A i \in 1 .. Len(old) : new[i].live => new[i].oid # row.oid
    BY <1>3, MarkedIsRewritten
<1>5. CASE ~c
    <2>1. fs = files[d]
        BY <1>5 DEF Replaced
    <2> QED
        BY <2>1, <1>0, <1>4, FilesRewritten
<1>6. CASE c
    <2>1. DOMAIN fs = (DOMAIN files[d] \ {row.relfilenode}) \cup nodes
        BY <1>6 DEF Replaced
    <2> HIDE DEF fs
    <2>2. Descends(old, new, 0) /\ Len(new) = Len(old)
        BY <1>0, <1>4, RewrittenDescends DEF Rewritten
    <2> HIDE DEF new
    <2>3. ASSUME NEW i \in 1 .. Len(new), new[i] # Free, new[i].live, new[i].relkind = "r",
                 new[i].relfilenode # 0
          PROVE  new[i].relfilenode \in DOMAIN fs
        <3>1. i \in 1 .. Len(old) /\ i # 0
            BY <2>2, <1>0
        <3>2. SameRelation(new[i], old[i])
            BY <3>1, <2>2, <2>3 DEF Descends
        <3>3. /\ old[i] \in ClassRows /\ old[i] # Free /\ old[i].live /\ old[i].relkind = "r"
              /\ old[i].relfilenode = new[i].relfilenode /\ old[i].oid = new[i].oid
            BY <3>2, <2>3, RowFacts DEF SameRelation
        <3>4. old[i].oid # row.oid
            BY <3>1, <3>3, <1>4, <1>6, <2>3
        <3>5. old[i].relfilenode \in DOMAIN files[d]
            BY <2>3, <3>1, <3>3 DEF FilesOK
        <3>6. old[i].relfilenode # row.relfilenode
            <4>1. old[i].relfilenode # 0 /\ old[i].relfilenode = row.relfilenode => i = m
                BY <1>1, <3>1, <3>3 DEF HeapOK
            <4> QED
                BY <4>1, <2>3, <3>3, <3>4, <1>1
        <3> QED
            BY <3>3, <3>5, <3>6, <2>1
    <2>4. 0 \notin DOMAIN fs
        BY <2>1 DEF FilesOK
    <2> QED
        BY <2>3, <2>4 DEF FilesOK, new, fs
<1> QED
    BY <1>5, <1>6

-----------------------------------------------------------------------------
(* What every change PostgreSQL makes has in common: one database changes. *)

PostgresStep(d) ==
    /\ pg_class' \in [Dbs -> Seq(ClassItems)]
    /\ pg_attribute' \in [Dbs -> Seq(AttributeItems)]
    /\ files' = [e \in Dbs |-> files'[e]]
    /\ \A e \in Dbs : e # d =>
         pg_class'[e] = pg_class[e] /\ pg_attribute'[e] = pg_attribute[e] /\ files'[e] = files[e]
    /\ ClassStep(pg_class[d], pg_class'[d], touched', changes)
    /\ AttributesKept(pg_attribute[d], pg_attribute'[d], touched')
    /\ FilesOK(pg_class'[d], files'[d])
    /\ touched \subseteq touched' /\ touched' \subseteq Nat
    /\ changes \in Nat /\ changes' = changes + 1

(* A catalog is consistent when its heaps are. *)
LEMMA RelationsHeaps ==
    /\ Relations => \A d \in Dbs : HeapOK(pg_class[d], changes)
    /\ FilesExist => \A d \in Dbs : FilesOK(pg_class[d], files[d])
<1>1. ASSUME Relations, NEW d \in Dbs
      PROVE  HeapOK(pg_class[d], changes)
    BY <1>1 DEF Relations, HeapOK
<1>2. ASSUME FilesExist, NEW d \in Dbs
      PROVE  FilesOK(pg_class[d], files[d])
    <2> SUFFICES ASSUME NEW i \in 1 .. Len(pg_class[d]), pg_class[d][i] # Free,
                        pg_class[d][i].live, pg_class[d][i].relkind = "r",
                        pg_class[d][i].relfilenode # 0
                 PROVE  pg_class[d][i].relfilenode \in DOMAIN files[d]
        BY <1>2 DEF FilesOK, FilesExist, Filenodes
    <2>1. pg_class[d][i] \in UserTables(d)
        BY RowsAreItems DEF UserTables, Mapped, LiveClass, Class
    <2> QED
        BY <2>1, <1>2 DEF FilesExist, Filenodes
<1> QED
    BY <1>1, <1>2

LEMMA OneDatabase ==
    ASSUME ReaderTypeOK, NEW d \in Dbs, NEW heap, NEW attrs, NEW fs, NEW kind,
           NEW oids \in SUBSET Nat, Changing(kind, oids),
           pg_class' = [pg_class EXCEPT ![d] = heap],
           pg_attribute' = [pg_attribute EXCEPT ![d] = attrs],
           files' = [files EXCEPT ![d] = fs],
           ClassStep(pg_class[d], heap, touched', changes),
           AttributesKept(pg_attribute[d], attrs, touched'),
           FilesOK(heap, fs)
    PROVE  PostgresStep(d)
<1>0. /\ pg_class \in [Dbs -> Seq(ClassItems)] /\ pg_attribute \in [Dbs -> Seq(AttributeItems)]
      /\ files = [e \in Dbs |-> files[e]]
      /\ changes \in Nat /\ touched \subseteq Nat
    BY DEF ReaderTypeOK, ClassItems, AttributeItems
<1>1. heap \in Seq(ClassItems) /\ attrs \in Seq(AttributeItems)
    BY DEF ClassStep, ClassKept, AttributesKept
<1>2. /\ pg_class' \in [Dbs -> Seq(ClassItems)] /\ pg_class'[d] = heap
      /\ \A e \in Dbs : e # d => pg_class'[e] = pg_class[e]
    BY <1>0, <1>1
<1>3. /\ pg_attribute' \in [Dbs -> Seq(AttributeItems)] /\ pg_attribute'[d] = attrs
      /\ \A e \in Dbs : e # d => pg_attribute'[e] = pg_attribute[e]
    BY <1>0, <1>1
<1>4. DOMAIN files = Dbs
    BY <1>0
<1>5. /\ files' = [e \in Dbs |-> files'[e]] /\ files'[d] = fs
      /\ \A e \in Dbs : e # d => files'[e] = files[e]
    BY <1>4
<1>6. touched' = touched \cup oids /\ changes' = changes + 1
    BY DEF Changing
<1> QED
    BY <1>0, <1>2, <1>3, <1>5, <1>6 DEF PostgresStep

(* CREATE TABLE and CREATE VIEW: the relation is new, and so is its file. *)
LEMMA CreateStep ==
    ASSUME ReaderTypeOK, Relations, FilesExist, NEW d \in Dbs, NEW name \in Names,
           NEW c \in BOOLEAN, CreateTable(d, name, c) \/ CreateView(d, name, c)
    PROVE  PostgresStep(d)
<1> DEFINE old == pg_class[d]
<1>0. /\ old \in Seq(ClassItems) /\ pg_attribute[d] \in Seq(AttributeItems) /\ changes \in Nat
      /\ HeapOK(old, changes) /\ FilesOK(old, files[d])
      /\ Changing("create", {NewOid}) /\ NameFree(d, name)
    BY RelationsHeaps DEF ReaderTypeOK, ClassItems, AttributeItems, CreateTable, CreateView
<1>1. /\ NewOid = FirstNormalObjectId + changes /\ NewOid \in Nat \ {0} /\ NewOid \in touched'
      /\ {NewOid} \in SUBSET Nat /\ NewOid \in Oids(changes + 1) /\ name \in TableNames
    BY <1>0, BoundsGrow DEF NewOid, Changing, TableNames
<1>2. \A i \in 1 .. Len(old) : old[i] # Free /\ old[i].live => old[i].relname # name
    BY <1>0, RowsAreItems DEF NameFree, Class
<1>3. Rewritten(old, old, touched')
    BY <1>0, SameIsRewritten
<1>4. CASE CreateTable(d, name, c)
    <2> DEFINE row == ClassRow(NewOid, name, "r", NewOid, c)
               a1 == AttributeRow(NewOid, -1, "tid", c)
               a2 == AttributeRow(NewOid, 1, "int4", c)
               a3 == AttributeRow(NewOid, 2, "text", c)
               fs == Replaced(files[d], 0, {NewOid}, {TupleRow(NewOid, TRUE)}, c)
    <2>1. PICK heap \in Placed(old, row) : pg_class' = [pg_class EXCEPT ![d] = heap]
        BY <1>4 DEF CreateTable
    <2>2. /\ pg_attribute' = [pg_attribute EXCEPT ![d] = pg_attribute[d] \o <<a1, a2, a3>>]
          /\ files' = [files EXCEPT ![d] = fs]
        BY <1>4 DEF CreateTable
    <2>3. /\ row \in ClassRows /\ row.oid = NewOid /\ row.relname = name /\ row.relkind = "r"
          /\ row.relfilenode = NewOid /\ row.live = c
        BY <1>1 DEF ClassRow, ClassRows
    <2>4. /\ a1 \in AttributeRows /\ a2 \in AttributeRows /\ a3 \in AttributeRows
          /\ a1.attrelid = NewOid /\ a2.attrelid = NewOid /\ a3.attrelid = NewOid
        BY <1>1 DEF AttributeRow, AttributeRows
    <2> HIDE DEF a1, a2, a3
    <2>5. AttributesKept(pg_attribute[d], pg_attribute[d] \o <<a1, a2, a3>>, touched')
        BY <2>4, <1>0, <1>1, AttributesAdded
    <2> HIDE DEF row
    <2>6. ClassStep(old, heap, touched', changes)
        <3>1. /\ row.oid \in touched' /\ row.oid = FirstNormalObjectId + changes
              /\ row.oid \in Oids(changes + 1) /\ row.relfilenode <= FirstNormalObjectId + changes
              /\ row.relfilenode = FirstNormalObjectId + changes
            BY <2>3, <1>0, <1>1
        <3> QED
            BY <3>1, <2>1, <2>3, <1>0, <1>2, <1>3, PlacedStep
    <2>7. FilesOK(heap, fs)
        <3>1. FilesOK(old, fs)
            <4>1. CASE ~c
                BY <4>1, <1>0 DEF Replaced
            <4>2. CASE c
                <5>1. DOMAIN fs = (DOMAIN files[d] \ {0}) \cup {NewOid}
                    BY <4>2 DEF Replaced
                <5> HIDE DEF fs
                <5> QED
                    BY <5>1, <1>0, <1>1 DEF FilesOK
            <4> QED
                BY <4>1, <4>2
        <3>2. row.live => row.relfilenode \in DOMAIN fs
            BY <2>3 DEF Replaced
        <3> HIDE DEF fs
        <3> QED
            BY <3>1, <3>2, <2>1, <2>3, <1>0, FilesPlaced
    <2> HIDE DEF fs
    <2> QED
        BY <2>1, <2>2, <2>5, <2>6, <2>7, <1>0, <1>1, OneDatabase
<1>5. CASE CreateView(d, name, c)
    <2> DEFINE row == ClassRow(NewOid, name, "v", 0, c)
               a1 == AttributeRow(NewOid, 1, "text", c)
    <2>1. PICK heap \in Placed(old, row) : pg_class' = [pg_class EXCEPT ![d] = heap]
        BY <1>5 DEF CreateView
    <2>2. PICK attrs \in Placed(pg_attribute[d], a1) :
             pg_attribute' = [pg_attribute EXCEPT ![d] = attrs]
        BY <1>5 DEF CreateView
    <2>3. /\ row \in ClassRows /\ row.oid = NewOid /\ row.relname = name /\ row.relkind = "v"
          /\ row.relfilenode = 0 /\ row.live = c
        BY <1>1 DEF ClassRow, ClassRows
    <2>4. a1 \in AttributeRows /\ a1.attrelid = NewOid
        BY <1>1 DEF AttributeRow, AttributeRows
    <2> HIDE DEF a1
    <2>5. AttributesKept(pg_attribute[d], attrs, touched')
        BY <2>2, <2>4, <1>0, <1>1, AttributesSame, AttributesPlaced
    <2> HIDE DEF row
    <2>6. ClassStep(old, heap, touched', changes)
        <3>1. /\ row.oid \in touched' /\ row.oid = FirstNormalObjectId + changes
              /\ row.oid \in Oids(changes + 1) /\ row.relfilenode <= FirstNormalObjectId + changes
              /\ row.relfilenode = 0
            BY <2>3, <1>0, <1>1
        <3> QED
            BY <3>1, <2>1, <2>3, <1>0, <1>2, <1>3, PlacedStep
    <2>7. FilesOK(heap, files[d])
        BY <2>1, <2>3, <1>0, FilesPlaced
    <2>8. files' = [files EXCEPT ![d] = files[d]]
        <3>1. files' = files /\ files = [e \in Dbs |-> files[e]]
            BY <1>5 DEF CreateView, ReaderTypeOK
        <3> QED
            BY <3>1
    <2> QED
        BY <2>1, <2>2, <2>5, <2>6, <2>7, <2>8, <1>0, <1>1, OneDatabase
<1> QED
    BY <1>4, <1>5

(* The row of a relation in the catalog. *)
LEMMA ClassRowFacts ==
    ASSUME ReaderTypeOK, NEW d \in Dbs, NEW row \in Class(d)
    PROVE  /\ row \in ClassRows /\ row # Free
           /\ row.oid \in Nat \ {0} /\ row.relname \in TableNames /\ row.relfilenode \in Nat
           /\ \E m \in 1 .. Len(pg_class[d]) : pg_class[d][m] = row
<1>1. pg_class[d] \in Seq(ClassItems)
    BY DEF ReaderTypeOK, ClassItems
<1>2. PICK m \in 1 .. Len(pg_class[d]) : pg_class[d][m] = row /\ row # Free
    BY RowsAreItems DEF Class
<1>3. row \in ClassRows
    BY <1>1, <1>2 DEF ClassItems
<1> QED
    BY <1>2, <1>3, RowFacts

(* DROP TABLE and DROP VIEW. *)
LEMMA DropStep ==
    ASSUME ReaderTypeOK, Relations, FilesExist, NEW d \in Dbs, NEW row \in Class(d),
           NEW c \in BOOLEAN, DropRelation(d, row, c)
    PROVE  PostgresStep(d)
<1> DEFINE heap == MarkedClass(d, row.oid, c)
           attrs == MarkedAttributes(d, row.oid, {-1, 1, 2}, c)
           fs == Replaced(files[d], row.relfilenode, {}, {}, c)
<1>0. /\ pg_class[d] \in Seq(ClassItems) /\ pg_attribute[d] \in Seq(AttributeItems)
      /\ changes \in Nat
      /\ HeapOK(pg_class[d], changes) /\ FilesOK(pg_class[d], files[d])
      /\ row.oid \in Nat \ {0} /\ {row.oid} \in SUBSET Nat
    BY RelationsHeaps, ClassRowFacts DEF ReaderTypeOK, ClassItems, AttributeItems
<1>1. /\ Changing("drop", {row.oid}) /\ row.live
      /\ pg_class' = [pg_class EXCEPT ![d] = heap]
      /\ pg_attribute' = [pg_attribute EXCEPT ![d] = attrs]
      /\ files' = [files EXCEPT ![d] = fs]
    BY DEF DropRelation
<1>2. row.oid \in touched'
    BY <1>1 DEF Changing
<1>3. Rewritten(pg_class[d], heap, touched')
    BY <1>0, <1>2, MarkedIsRewritten
<1>4. AttributesKept(pg_attribute[d], attrs, touched')
    BY <1>0, <1>2, AttributesMarked
<1>5. FilesOK(heap, fs)
    BY <1>0, <1>1, FilesMarked
<1> HIDE DEF heap, attrs, fs
<1>6. ClassStep(pg_class[d], heap, touched', changes)
    BY <1>0, <1>3, RewrittenStep
<1> QED
    BY <1>0, <1>1, <1>4, <1>5, <1>6, OneDatabase

(* A change that leaves a variable of the catalogs as it was. *)
LEMMA Same ==
    ASSUME ReaderTypeOK, NEW d \in Dbs
    PROVE  /\ pg_class = [pg_class EXCEPT ![d] = pg_class[d]]
           /\ pg_attribute = [pg_attribute EXCEPT ![d] = pg_attribute[d]]
           /\ files = [files EXCEPT ![d] = files[d]]
<1>1. /\ pg_class \in [Dbs -> Seq(ClassItems)] /\ pg_attribute \in [Dbs -> Seq(AttributeItems)]
      /\ files = [e \in Dbs |-> files[e]]
    BY DEF ReaderTypeOK, ClassItems, AttributeItems
<1> QED
    BY <1>1

(* ALTER TABLE ... ALTER COLUMN. *)
LEMMA AlterStep ==
    ASSUME ReaderTypeOK, Relations, FilesExist, NEW d \in Dbs, NEW row \in Class(d),
           NEW c \in BOOLEAN, AlterColumn(d, row, c)
    PROVE  PostgresStep(d)
<1> DEFINE base == MarkedAttributes(d, row.oid, {1}, c)
           a1 == AttributeRow(row.oid, 1, "int4", c)
<1>0. /\ pg_class[d] \in Seq(ClassItems) /\ pg_attribute[d] \in Seq(AttributeItems)
      /\ changes \in Nat
      /\ HeapOK(pg_class[d], changes) /\ FilesOK(pg_class[d], files[d])
      /\ row.oid \in Nat \ {0} /\ {row.oid} \in SUBSET Nat
    BY RelationsHeaps, ClassRowFacts DEF ReaderTypeOK, ClassItems, AttributeItems
<1>1. Changing("alter", {row.oid}) /\ pg_class' = pg_class /\ files' = files
    BY DEF AlterColumn
<1>2. PICK attrs \in Placed(base, a1) : pg_attribute' = [pg_attribute EXCEPT ![d] = attrs]
    BY DEF AlterColumn
<1>3. row.oid \in touched'
    BY <1>1 DEF Changing
<1>4. AttributesKept(pg_attribute[d], base, touched')
    BY <1>0, <1>3, AttributesMarked
<1>5. a1 \in AttributeRows /\ a1.attrelid = row.oid
    BY <1>0 DEF AttributeRow, AttributeRows
<1> HIDE DEF base, a1
<1>6. AttributesKept(pg_attribute[d], attrs, touched')
    BY <1>0, <1>2, <1>3, <1>4, <1>5, AttributesPlaced
<1>7. ClassStep(pg_class[d], pg_class[d], touched', changes)
    BY <1>0, SameIsRewritten, RewrittenStep
<1>8. /\ pg_class' = [pg_class EXCEPT ![d] = pg_class[d]]
      /\ files' = [files EXCEPT ![d] = files[d]]
    BY <1>1, Same
<1> QED
    BY <1>0, <1>1, <1>2, <1>6, <1>7, <1>8, OneDatabase

(* VACUUM FULL and CLUSTER: when the transaction commits, the new row is   *)
(* the only live one of its relation.                                      *)
LEMMA RewriteStep ==
    ASSUME ReaderTypeOK, Relations, FilesExist, NEW d \in Dbs, NEW row \in Class(d),
           NEW c \in BOOLEAN, Rewrite(d, row, c)
    PROVE  PostgresStep(d)
<1> DEFINE base == MarkedClass(d, row.oid, c)
           new == ClassRow(row.oid, row.relname, "r", NewOid, c)
           tuples == {[t EXCEPT !.on_disk = TRUE] :
                        t \in {t \in Tuples(d, row.relfilenode) : t.live}}
           fs == Replaced(files[d], row.relfilenode, {NewOid}, tuples, c)
<1>0. /\ pg_class[d] \in Seq(ClassItems) /\ pg_attribute[d] \in Seq(AttributeItems)
      /\ changes \in Nat
      /\ HeapOK(pg_class[d], changes) /\ FilesOK(pg_class[d], files[d])
      /\ row.oid \in Nat \ {0} /\ {row.oid} \in SUBSET Nat /\ row.relname \in TableNames
    BY RelationsHeaps, ClassRowFacts DEF ReaderTypeOK, ClassItems, AttributeItems
<1>1. /\ Changing("rewrite", {row.oid}) /\ row.live /\ row.relkind = "r"
      /\ files' = [files EXCEPT ![d] = fs] /\ pg_attribute' = pg_attribute
    BY DEF Rewrite, UserTables, LiveClass
<1>2. PICK heap \in Placed(base, new) : pg_class' = [pg_class EXCEPT ![d] = heap]
    BY DEF Rewrite
<1>3. row.oid \in touched'
    BY <1>1 DEF Changing
<1>4. NewOid = FirstNormalObjectId + changes /\ NewOid \in Nat \ {0}
    BY <1>0, BoundsGrow DEF NewOid
<1>5. /\ new \in ClassRows /\ new.oid = row.oid /\ new.relname = row.relname
      /\ new.relkind = "r" /\ new.relfilenode = NewOid /\ new.live = c
    BY <1>0, <1>4 DEF ClassRow, ClassRows
<1>6. /\ Rewritten(pg_class[d], base, touched')
      /\ c => \A i \in 1 .. Len(pg_class[d]) : base[i].live => base[i].oid # row.oid
    BY <1>0, <1>3, MarkedIsRewritten
<1>7. FilesOK(base, fs)
    BY <1>0, <1>1, <1>4, FilesMarked
<1>8. c => NewOid \in DOMAIN fs
    BY DEF Replaced
<1> HIDE DEF base, new, fs
<1>9. PICK m \in 1 .. Len(pg_class[d]) : pg_class[d][m] = row /\ row # Free
    BY ClassRowFacts
<1>10. c => \A i \in 1 .. Len(pg_class[d]) :
         base[i] # Free /\ base[i].live => base[i].relname # new.relname
    <2> SUFFICES ASSUME c, NEW i \in 1 .. Len(pg_class[d]), base[i] # Free, base[i].live,
                        base[i].relname = row.relname
                 PROVE  FALSE
        BY <1>5
    <2>1. Descends(pg_class[d], base, 0) /\ Len(base) = Len(pg_class[d]) /\ i # 0
        <3>1. Len(base) = Len(pg_class[d]) /\ Len(base) \in Nat
            BY <1>6, <1>0 DEF Rewritten
        <3>2. Descends(pg_class[d], base, 0)
            BY <1>0, <1>6, RewrittenDescends
        <3> QED
            BY <3>1, <3>2
    <2>2. SameRelation(base[i], pg_class[d][i])
        BY <2>1 DEF Descends
    <2>3. /\ pg_class[d][i] # Free /\ pg_class[d][i].live
          /\ pg_class[d][i].relname = row.relname /\ base[i].oid = pg_class[d][i].oid
        BY <2>2, RowFacts DEF SameRelation
    <2>4. i = m
        BY <2>3, <1>0, <1>1, <1>9 DEF HeapOK
    <2> QED
        BY <2>3, <2>4, <1>6, <1>9
<1>11. ClassStep(pg_class[d], heap, touched', changes)
    <2>1. row \in Rows(pg_class[d])
        BY DEF Class
    <2>2. row.oid \in Oids(changes)
        BY <1>0, <1>9 DEF HeapOK
    <2>3. /\ new.oid \in touched' /\ new.oid \in Oids(changes + 1)
          /\ new.relfilenode <= FirstNormalObjectId + changes
          /\ new.relfilenode = FirstNormalObjectId + changes
        <3>1. new.oid \in touched' /\ new.oid \in Oids(changes + 1)
            BY <2>2, <1>0, <1>3, <1>5, BoundsGrow
        <3>2. new.relfilenode = FirstNormalObjectId + changes
            BY <1>4, <1>5
        <3> QED
            BY <3>1, <3>2, <1>4
    <2> QED
        BY <2>1, <2>3, <1>0, <1>2, <1>5, <1>6, <1>10, PlacedStep
<1>12. FilesOK(heap, fs)
    <2>1. base \in Seq(ClassItems)
        BY <1>6 DEF Rewritten
    <2> QED
        BY <2>1, <1>2, <1>5, <1>7, <1>8, FilesPlaced
<1>13. pg_attribute' = [pg_attribute EXCEPT ![d] = pg_attribute[d]]
    BY <1>1, Same
<1>14. AttributesKept(pg_attribute[d], pg_attribute[d], touched')
    BY <1>0, AttributesSame
<1> QED
    BY <1>0, <1>1, <1>2, <1>11, <1>12, <1>13, <1>14, OneDatabase

(* INSERT and UPDATE change the tuples of a file. *)
LEMMA ChangeRowsStep ==
    ASSUME ReaderTypeOK, Relations, FilesExist, NEW d \in Dbs, NEW row \in Class(d),
           NEW c \in BOOLEAN, ChangeRows(d, row, c)
    PROVE  PostgresStep(d)
<1>0. /\ pg_class[d] \in Seq(ClassItems) /\ pg_attribute[d] \in Seq(AttributeItems)
      /\ changes \in Nat /\ {} \in SUBSET Nat
      /\ HeapOK(pg_class[d], changes) /\ FilesOK(pg_class[d], files[d])
    BY RelationsHeaps DEF ReaderTypeOK, ClassItems, AttributeItems
<1>1. Changing("rows", {}) /\ pg_class' = pg_class /\ pg_attribute' = pg_attribute
    BY DEF ChangeRows
<1>2. PICK kept :
        files' = [files EXCEPT ![d] =
                    [files[d] EXCEPT ![row.relfilenode] = kept \cup {TupleRow(NewOid, c)}]]
    BY DEF ChangeRows
<1> DEFINE fs == [files[d] EXCEPT ![row.relfilenode] = kept \cup {TupleRow(NewOid, c)}]
<1>3. DOMAIN fs = DOMAIN files[d]
    OBVIOUS
<1>4. files' = [files EXCEPT ![d] = fs]
    BY <1>2
<1> HIDE DEF fs
<1>5. FilesOK(pg_class[d], fs)
    BY <1>0, <1>3 DEF FilesOK
<1>6. ClassStep(pg_class[d], pg_class[d], touched', changes)
    BY <1>0, SameIsRewritten, RewrittenStep
<1>7. AttributesKept(pg_attribute[d], pg_attribute[d], touched')
    BY <1>0, AttributesSame
<1>8. /\ pg_class' = [pg_class EXCEPT ![d] = pg_class[d]]
      /\ pg_attribute' = [pg_attribute EXCEPT ![d] = pg_attribute[d]]
    BY <1>1, Same
<1> QED
    BY <1>0, <1>1, <1>4, <1>5, <1>6, <1>7, <1>8, OneDatabase

(* A page of a table reaches its file. *)
LEMMA WriteBackStep ==
    ASSUME ReaderTypeOK, Relations, FilesExist, NEW d \in Dbs, NEW node, WriteBack(d, node)
    PROVE  PostgresStep(d)
<1>0. /\ pg_class[d] \in Seq(ClassItems) /\ pg_attribute[d] \in Seq(AttributeItems)
      /\ changes \in Nat /\ {} \in SUBSET Nat
      /\ HeapOK(pg_class[d], changes) /\ FilesOK(pg_class[d], files[d])
    BY RelationsHeaps DEF ReaderTypeOK, ClassItems, AttributeItems
<1>1. Changing("flush", {}) /\ pg_class' = pg_class /\ pg_attribute' = pg_attribute
    BY DEF WriteBack
<1>2. PICK tuples : files' = [files EXCEPT ![d] = [files[d] EXCEPT ![node] = tuples]]
    BY DEF WriteBack
<1> DEFINE fs == [files[d] EXCEPT ![node] = tuples]
<1>3. DOMAIN fs = DOMAIN files[d]
    OBVIOUS
<1>4. files' = [files EXCEPT ![d] = fs]
    BY <1>2
<1> HIDE DEF fs
<1>5. FilesOK(pg_class[d], fs)
    BY <1>0, <1>3 DEF FilesOK
<1>6. ClassStep(pg_class[d], pg_class[d], touched', changes)
    BY <1>0, SameIsRewritten, RewrittenStep
<1>7. AttributesKept(pg_attribute[d], pg_attribute[d], touched')
    BY <1>0, AttributesSame
<1>8. /\ pg_class' = [pg_class EXCEPT ![d] = pg_class[d]]
      /\ pg_attribute' = [pg_attribute EXCEPT ![d] = pg_attribute[d]]
    BY <1>1, Same
<1> QED
    BY <1>0, <1>1, <1>4, <1>5, <1>6, <1>7, <1>8, OneDatabase

(* VACUUM of the catalogs. *)
LEMMA VacuumStep ==
    ASSUME ReaderTypeOK, Relations, FilesExist, NEW d \in Dbs, Vacuum(d)
    PROVE  PostgresStep(d)
<1> DEFINE heap == Vacuumed(pg_class[d])
           attrs == Vacuumed(pg_attribute[d])
<1>0. /\ pg_class[d] \in Seq(ClassItems) /\ pg_attribute[d] \in Seq(AttributeItems)
      /\ changes \in Nat /\ {} \in SUBSET Nat
      /\ HeapOK(pg_class[d], changes) /\ FilesOK(pg_class[d], files[d])
    BY RelationsHeaps DEF ReaderTypeOK, ClassItems, AttributeItems
<1>1. /\ Changing("vacuum", {}) /\ files' = files
      /\ pg_class' = [pg_class EXCEPT ![d] = heap]
      /\ pg_attribute' = [pg_attribute EXCEPT ![d] = attrs]
    BY DEF Vacuum
<1>2. Rewritten(pg_class[d], heap, touched')
    BY <1>0, VacuumedIsRewritten
<1>3. AttributesKept(pg_attribute[d], attrs, touched')
    BY <1>0, AttributesVacuumed
<1> HIDE DEF heap, attrs
<1>4. ClassStep(pg_class[d], heap, touched', changes)
    BY <1>0, <1>2, RewrittenStep
<1>5. FilesOK(heap, files[d])
    BY <1>0, <1>2, FilesRewritten
<1>6. files' = [files EXCEPT ![d] = files[d]]
    BY <1>1, Same
<1> QED
    BY <1>0, <1>1, <1>3, <1>4, <1>5, <1>6, OneDatabase

LEMMA PostgresSteps ==
    ASSUME ReaderTypeOK, Relations, FilesExist, Postgres
    PROVE  \E d \in Dbs : PostgresStep(d)
    BY CreateStep, DropStep, AlterStep, RewriteStep, ChangeRowsStep, WriteBackStep, VacuumStep
    DEF Postgres

-----------------------------------------------------------------------------
(* The invariant. *)

CatalogInv == ReaderTypeOK /\ Relations /\ FilesExist /\ DatabasesApart

(* What a change means for the rows of every database. *)
LEMMA StepRows ==
    ASSUME CatalogInv, NEW d \in Dbs, PostgresStep(d), NEW e \in Dbs
    PROVE  /\ HeapOK(pg_class'[e], changes') /\ FilesOK(pg_class'[e], files'[e])
           /\ \A row \in Class(e) : row \in ClassRows /\ row.oid \in Oids(changes)
           /\ \A row \in Class(e)' :
                /\ row \in ClassRows
                /\ \/ e = d /\ row.oid = FirstNormalObjectId + changes
                   \/ \E known \in Class(e) : known.oid = row.oid /\ known.relname = row.relname
                /\ row.oid \notin touched' => row \in Class(e)
           /\ \A row \in Class(e) : row.live /\ row.oid \notin touched' => row \in Class(e)'
<1> DEFINE old == pg_class[e]
           new == pg_class'[e]
<1>0. /\ old \in Seq(ClassItems) /\ new \in Seq(ClassItems) /\ changes \in Nat
      /\ HeapOK(old, changes) /\ FilesOK(old, files[e]) /\ changes' = changes + 1
    BY RelationsHeaps DEF CatalogInv, PostgresStep, ReaderTypeOK, ClassItems
<1>1. ClassKept(old, new, touched') /\ HeapOK(new, changes + 1)
      /\ FilesOK(new, files'[e])
    <2>1. CASE e = d
        BY <2>1 DEF PostgresStep, ClassStep
    <2>2. CASE e # d
        <3>1. new = old /\ files'[e] = files[e]
            BY <2>2 DEF PostgresStep
        <3>2. ClassStep(old, old, touched', changes)
            BY <1>0, SameIsRewritten, RewrittenStep
        <3> QED
            BY <3>1, <3>2, <1>0 DEF ClassStep
    <2> QED
        BY <2>1, <2>2
<1>2. /\ Class(e) = Rows(old) /\ Class(e)' = Rows(new)
    BY DEF Class
<1>3. \A i \in 1 .. Len(old) : old[i] # Free => old[i].oid \in Oids(changes)
    BY <1>0 DEF HeapOK
<1>4. \A row \in Class(e) : row \in ClassRows /\ row.oid \in Oids(changes)
    <2> SUFFICES ASSUME NEW row \in Class(e)
                 PROVE  row \in ClassRows /\ row.oid \in Oids(changes)
        OBVIOUS
    <2>1. PICK i \in 1 .. Len(old) : old[i] = row /\ row # Free
        BY <1>2, RowsAreItems
    <2> QED
        BY <2>1, <1>0, <1>3 DEF ClassItems
<1>5. ASSUME NEW row \in Class(e)'
      PROVE  /\ row \in ClassRows
             /\ \/ e = d /\ row.oid = FirstNormalObjectId + changes
                \/ \E known \in Class(e) : known.oid = row.oid /\ known.relname = row.relname
             /\ row.oid \notin touched' => row \in Class(e)
    <2>1. PICK i \in 1 .. Len(new) : new[i] = row /\ row # Free
        BY <1>2, RowsAreItems
    <2>2. row \in ClassRows
        BY <2>1, <1>0 DEF ClassItems
    <2>3. \/ e = d /\ row.oid = FirstNormalObjectId + changes
          \/ \E known \in Class(e) : known.oid = row.oid /\ known.relname = row.relname
        <3>1. CASE e = d
            BY <3>1, <1>2 DEF PostgresStep, ClassStep, KnownOids
        <3>2. CASE e # d
            BY <3>2, <1>2 DEF PostgresStep
        <3> QED
            BY <3>1, <3>2
    <2>4. ASSUME row.oid \notin touched' PROVE row \in Class(e)
        <3>1. i \in 1 .. Len(old) /\ row = old[i]
            BY <2>1, <2>4, <1>1 DEF ClassKept
        <3> QED
            BY <3>1, <2>1, <1>2, RowsAreItems, SMTT(30)
    <2> QED
        BY <2>2, <2>3, <2>4
<1>6. ASSUME NEW row \in Class(e), row.live, row.oid \notin touched'
      PROVE  row \in Class(e)'
    <2>1. PICK i \in 1 .. Len(old) : old[i] = row /\ row # Free
        BY <1>2, RowsAreItems
    <2>2. i \in 1 .. Len(new) /\ new[i] = row
        BY <2>1, <1>1, <1>6 DEF ClassKept
    <2> QED
        BY <2>1, <2>2, <1>2, RowsAreItems
<1> QED
    BY <1>0, <1>1, <1>4, <1>5, <1>6

(* The catalogs stay consistent. *)
LEMMA PostgresKeepsCatalogInv ==
    ASSUME CatalogInv, NEW d \in Dbs, PostgresStep(d), UNCHANGED readerVars
    PROVE  CatalogInv'
<1>0. /\ at' = at /\ db_id' = db_id /\ current_table' = current_table /\ cut' = cut
      /\ changes \in Nat /\ changes' = changes + 1 /\ touched' \subseteq Nat
    BY DEF readerVars, cacheVars, PostgresStep
<1>1. ReaderTypeOK'
    <2>1. /\ pg_class' \in [Dbs -> Seq(ClassItems)]
          /\ pg_attribute' \in [Dbs -> Seq(AttributeItems)]
          /\ files' = [e \in Dbs |-> files'[e]]
          /\ changes' \in Nat
        BY <1>0 DEF PostgresStep
    <2> QED
        BY <2>1, <1>0 DEF CatalogInv, ReaderTypeOK, ClassItems, AttributeItems
<1>2. Relations'
    <2>1. \A e \in Dbs : HeapOK(pg_class'[e], changes')
        BY StepRows
    <2> QED
        BY <2>1 DEF Relations, HeapOK
<1>3. FilesExist'
    <2>1. \A e \in Dbs : FilesOK(pg_class'[e], files'[e])
        BY StepRows
    <2>2. \A e \in Dbs : 0 \notin DOMAIN files'[e]
        BY <2>1 DEF FilesOK
    <2> SUFFICES ASSUME NEW e \in Dbs, NEW c \in UserTables(e)'
                 PROVE  c.relfilenode \in DOMAIN files'[e]
        BY <2>2 DEF FilesExist, Filenodes
    <2>3. c \in Rows(pg_class'[e]) /\ c.live /\ c.relkind = "r" /\ c.relfilenode # 0
        BY DEF UserTables, Mapped, LiveClass, Class
    <2>4. PICK i \in 1 .. Len(pg_class'[e]) : pg_class'[e][i] = c /\ c # Free
        BY <2>3, RowsAreItems
    <2> QED
        BY <2>1, <2>3, <2>4 DEF FilesOK
<1>4. DatabasesApart'
    <2> SUFFICES ASSUME NEW a \in Dbs, NEW b \in Dbs, a # b,
                        NEW r \in Class(a)', NEW s \in Class(b)', r.oid # PgClassOid
                 PROVE  r.oid # s.oid
        BY DEF DatabasesApart
    <2>1. \/ a = d /\ r.oid = FirstNormalObjectId + changes
          \/ \E known \in Class(a) : known.oid = r.oid
        BY StepRows
    <2>2. \/ b = d /\ s.oid = FirstNormalObjectId + changes
          \/ \E known \in Class(b) : known.oid = s.oid
        BY StepRows
    <2>3. \A e \in Dbs : \A known \in Class(e) : known.oid # FirstNormalObjectId + changes
        <3> SUFFICES ASSUME NEW e \in Dbs, NEW known \in Class(e)
                     PROVE  known.oid # FirstNormalObjectId + changes
            OBVIOUS
        <3>1. known.oid \in Oids(changes)
            BY StepRows
        <3> QED
            BY <3>1, <1>0, BoundsGrow
    <2>4. \A r1 \in Class(a), s1 \in Class(b) : r1.oid # PgClassOid => r1.oid # s1.oid
        BY DEF CatalogInv, DatabasesApart
    <2> QED
        BY <2>1, <2>2, <2>3, <2>4
<1> QED
    BY <1>1, <1>2, <1>3, <1>4 DEF CatalogInv

(* A row that was read from this database stays one of this database. *)
LEMMA PostgresKeepsOfThisDb ==
    ASSUME CatalogInv, NEW d \in Dbs, PostgresStep(d), db_id' = db_id, db_id \in Dbs,
           NEW row, OfThisDb(row)
    PROVE  OfThisDb(row)'
<1>0. /\ row.oid \in Oids(changes) /\ changes \in Nat /\ changes' = changes + 1
      /\ touched \subseteq touched'
    BY DEF OfThisDb, PostgresStep
<1>1. row.oid \in Oids(changes') /\ row.oid # FirstNormalObjectId + changes
    BY <1>0, BoundsGrow
<1>2. ASSUME row.oid # PgClassOid, NEW e \in Dbs \ {db_id}, NEW c \in Class(e)' PROVE c.oid # row.oid
    <2>1. c.oid = FirstNormalObjectId + changes \/ \E known \in Class(e) : known.oid = c.oid
        BY StepRows
    <2>2. \A known \in Class(e) : known.oid # row.oid
        BY <1>2 DEF OfThisDb
    <2> QED
        BY <2>1, <2>2, <1>1
<1>3. ASSUME row.live, row.oid \notin touched' PROVE row \in Class(db_id)'
    <2>1. row \in Class(db_id)
        BY <1>0, <1>3 DEF OfThisDb
    <2>2. \A e \in Dbs : row \in Class(e) => row \in Class(e)'
        BY <1>3, StepRows
    <2>3. Class(db_id)' = Rows(pg_class'[db_id])
        BY DEF Class
    <2>4. \A e \in Dbs : Class(e)' = Rows(pg_class'[e])
        BY DEF Class
    <2> QED
        BY <2>1, <2>2, <2>3, <2>4
<1> QED
    BY <1>1, <1>2, <1>3 DEF OfThisDb

(* What was read from pg_class still covers the tables not changed since. *)
LEMMA PostgresKeepsClassRead ==
    ASSUME CatalogInv, NEW d \in Dbs, PostgresStep(d), db_id' = db_id, db_id \in Dbs,
           NEW rows, NEW complete, ClassRead(rows, complete)
    PROVE  ClassRead(rows, complete)'
<1>0. \A i \in DOMAIN rows : OfThisDb(rows[i])'
    <2> SUFFICES ASSUME NEW i \in DOMAIN rows PROVE OfThisDb(rows[i])'
        OBVIOUS
    <2>1. PICK row : row = rows[i]
        OBVIOUS
    <2>2. OfThisDb(row)
        BY <2>1 DEF ClassRead
    <2>3. OfThisDb(row)'
        BY <2>2, PostgresKeepsOfThisDb
    <2> QED
        BY <2>1, <2>3
<1>1. Class(db_id)' = Rows(pg_class'[db_id]) /\ \A e \in Dbs : Class(e)' = Rows(pg_class'[e])
    BY DEF Class
<1>2. touched \subseteq touched'
    BY DEF PostgresStep
<1>3. ASSUME NEW i \in DOMAIN rows, NEW c \in Class(db_id)', c.oid = rows[i].oid
      PROVE  c.relname = rows[i].relname
    <2>1. c \in Rows(pg_class'[db_id])
        BY <1>1
    <2>2. \/ c.oid = FirstNormalObjectId + changes
          \/ \E known \in Class(db_id) : known.oid = c.oid /\ known.relname = c.relname
        BY <2>1, <1>1, StepRows
    <2>3. rows[i].oid # FirstNormalObjectId + changes
        <3>1. rows[i].oid \in Oids(changes) /\ changes \in Nat
            BY DEF ClassRead, OfThisDb, PostgresStep
        <3> QED
            BY <3>1, BoundsGrow
    <2>4. PICK known \in Class(db_id) : known.oid = c.oid /\ known.relname = c.relname
        BY <2>2, <2>3, <1>3
    <2> QED
        BY <2>4, <1>3 DEF ClassRead
<1>4. ASSUME complete, NEW c \in Class(db_id)', c.live, c.oid \notin touched', c.t_xmax = 0
      PROVE  \E i \in DOMAIN rows : rows[i] = c
    <2>1. c \in Rows(pg_class'[db_id])
        BY <1>1
    <2>2. c \in Class(db_id)
        BY <2>1, <1>1, <1>4, StepRows
    <2> QED
        BY <2>2, <1>2, <1>4 DEF ClassRead
<1> QED
    BY <1>0, <1>3, <1>4 DEF ClassRead

(* And what was read from pg_attribute. *)
LEMMA PostgresKeepsAttributesRead ==
    ASSUME CatalogInv, NEW d \in Dbs, PostgresStep(d), db_id' = db_id, db_id \in Dbs,
           pg_attribute_cache' = pg_attribute_cache, cut' = cut, AttributesRead
    PROVE  AttributesRead'
<1> DEFINE old == pg_attribute[db_id]
           new == pg_attribute'[db_id]
           cache == pg_attribute_cache
<1>0. old \in Seq(AttributeItems) /\ new \in Seq(AttributeItems) /\ touched \subseteq touched'
    BY DEF CatalogInv, ReaderTypeOK, AttributeItems, PostgresStep
<1>1. AttributesKept(old, new, touched')
    <2>1. CASE db_id = d
        BY <2>1 DEF PostgresStep
    <2>2. CASE db_id # d
        <3>1. new = old
            BY <2>2 DEF PostgresStep
        <3> QED
            BY <3>1, <1>0, AttributesSame
    <2> QED
        BY <2>1, <2>2
<1>2. ASSUME NEW i \in DOMAIN cache, cache[i].live, cache[i].attrelid \notin touched'
      PROVE  i \in 1 .. Len(new) /\ new[i] = cache[i]
    <2>1. i \in 1 .. Len(old) /\ old[i] = cache[i]
        BY <1>0, <1>2 DEF AttributesRead
    <2> QED
        BY <2>1, <1>1, <1>2 DEF AttributesKept
<1>3. ASSUME ~cut, NEW i \in 1 .. Len(new), new[i].live, new[i].attrelid \notin touched'
      PROVE  i \in DOMAIN cache /\ cache[i] = new[i]
    <2>1. new[i] # Free
        BY <1>3, FreeIsDead
    <2>2. i \in 1 .. Len(old) /\ new[i] = old[i]
        BY <2>1, <1>1, <1>3 DEF AttributesKept
    <2> QED
        BY <2>2, <1>0, <1>3 DEF AttributesRead
<1> QED
    BY <1>2, <1>3 DEF AttributesRead

LEMMA PostgresKeepsReaderInv ==
    ASSUME ReaderInv, Postgres, UNCHANGED readerVars
    PROVE  ReaderInv'
<1>0. /\ at' = at /\ db_id' = db_id /\ current_table' = current_table
      /\ pg_class_cache' = pg_class_cache /\ pg_attribute_cache' = pg_attribute_cache
      /\ boot_class' = boot_class /\ cut' = cut
    BY DEF readerVars, cacheVars
<1>1. CatalogInv
    BY DEF ReaderInv, CatalogInv
<1>2. PICK d \in Dbs : PostgresStep(d)
    BY <1>1, PostgresSteps DEF CatalogInv
<1>3. CatalogInv'
    BY <1>1, <1>2, PostgresKeepsCatalogInv
<1>4. at # "start" => db_id \in Dbs
    BY DEF ReaderInv, ReaderTypeOK
<1>5. ASSUME at' = "attribute" PROVE ClassRead(boot_class, ~cut)'
    <2>1. PICK rows, complete : rows = boot_class /\ complete = ~cut
        OBVIOUS
    <2>2. ClassRead(rows, complete) /\ db_id \in Dbs
        BY <2>1, <1>0, <1>4, <1>5 DEF ReaderInv
    <2>3. ClassRead(rows, complete)'
        BY <2>2, <1>0, <1>1, <1>2, PostgresKeepsClassRead
    <2> QED
        BY <2>1, <2>3, <1>0
<1>6. ASSUME at' = "idle" PROVE ClassRead(pg_class_cache, ~cut)' /\ AttributesRead'
    <2>1. PICK rows, complete : rows = pg_class_cache /\ complete = ~cut
        OBVIOUS
    <2>2. ClassRead(rows, complete) /\ db_id \in Dbs /\ AttributesRead
        BY <2>1, <1>0, <1>4, <1>6 DEF ReaderInv
    <2>3. ClassRead(rows, complete)'
        BY <2>2, <1>0, <1>1, <1>2, PostgresKeepsClassRead
    <2>4. AttributesRead'
        BY <2>2, <1>0, <1>1, <1>2, PostgresKeepsAttributesRead
    <2> QED
        BY <2>1, <2>3, <2>4, <1>0
<1>7. ASSUME current_table' # None
      PROVE  /\ db_id' \in Dbs
             /\ current_table'.relkind = "r" /\ current_table'.t_xmax = 0
             /\ OfThisDb(current_table)'
    <2>1. PICK row : row = current_table
        OBVIOUS
    <2>2. OfThisDb(row) /\ db_id \in Dbs /\ row.relkind = "r" /\ row.t_xmax = 0
        BY <2>1, <1>0, <1>7 DEF ReaderInv
    <2>3. OfThisDb(row)'
        BY <2>2, <1>0, <1>1, <1>2, PostgresKeepsOfThisDb
    <2> QED
        BY <2>1, <2>2, <2>3, <1>0
<1> QED
    BY <1>3, <1>5, <1>6, <1>7 DEF ReaderInv, CatalogInv

(* Databases start with the one row of pg_class itself. *)
LEMMA InitReaderInv == Init => ReaderInv
<1> SUFFICES ASSUME Init PROVE ReaderInv
    OBVIOUS
<1> DEFINE row == ClassRow(PgClassOid, "pg_class", "r", 0, TRUE)
           a1 == AttributeRow(PgClassOid, 1, "int4", TRUE)
<1>1. /\ row \in ClassRows /\ row.oid = PgClassOid /\ row.relkind = "r" /\ row.relfilenode = 0
      /\ a1 \in AttributeRows
    BY OidFacts DEF ClassRow, ClassRows, AttributeRow, AttributeRows, TableNames
<1>2. /\ pg_class = [d \in Dbs |-> <<row>>] /\ pg_attribute = [d \in Dbs |-> <<a1>>]
      /\ files = [d \in Dbs |-> <<>>] /\ changes = 0
    BY DEF Init
<1> HIDE DEF row, a1
<1>3. /\ <<row>> \in Seq(ClassItems) /\ <<a1>> \in Seq(AttributeItems)
    BY <1>1 DEF ClassItems, AttributeItems
<1>4. ReaderTypeOK
    <2>1. pg_class \in [Dbs -> Seq(ClassItems)] /\ pg_attribute \in [Dbs -> Seq(AttributeItems)]
        BY <1>2, <1>3
    <2>2. files = [d \in Dbs |-> files[d]]
        BY <1>2
    <2> QED
        BY <2>1, <2>2 DEF Init, ReaderTypeOK, ClassItems, AttributeItems
<1>5. \A d \in Dbs : /\ Len(pg_class[d]) = 1
                     /\ \A i \in 1 .. Len(pg_class[d]) : i = 1 /\ pg_class[d][i] = row
    BY <1>2
<1>6. Relations
    <2>1. row.oid \in Oids(changes) /\ row.relfilenode < FirstNormalObjectId + changes
        BY <1>1, <1>2, OidFacts
    <2> QED
        BY <2>1, <1>1, <1>5 DEF Relations
<1>7. \A d \in Dbs : \A c \in Class(d) : c = row
    BY <1>5 DEF Class, Rows
<1>8. FilesExist
    <2>1. \A d \in Dbs : UserTables(d) = {}
        BY <1>1, <1>7 DEF UserTables, LiveClass, Mapped
    <2>2. \A d \in Dbs : 0 \notin Filenodes(d)
        BY <1>2 DEF Filenodes
    <2> QED
        BY <2>1, <2>2 DEF FilesExist
<1>9. DatabasesApart
    BY <1>1, <1>7 DEF DatabasesApart
<1> QED
    BY <1>4, <1>6, <1>8, <1>9 DEF ReaderInv, Init

(* The reader changes nothing in the databases. *)
LEMMA ReaderKeepsCatalogs ==
    ASSUME CatalogInv, pg_class' = pg_class, files' = files, changes' = changes
    PROVE  Relations' /\ FilesExist' /\ DatabasesApart'
<1>1. \A d : Class(d)' = Class(d) /\ UserTables(d)' = UserTables(d)
    BY DEF Class, UserTables, LiveClass
<1> QED
    BY <1>1 DEF CatalogInv, Relations, FilesExist, DatabasesApart, Filenodes

(* set_db clears the selection and begins the bootstrap. *)
LEMMA SetDbKeepsReaderInv ==
    ASSUME ReaderInv, NEW d \in Dbs, set_db(d)
    PROVE  ReaderInv'
<1>0. /\ pg_class' = pg_class /\ pg_attribute' = pg_attribute /\ files' = files
      /\ changes' = changes /\ touched' = {} /\ db_id' = d /\ current_table' = None
      /\ at' = "class" /\ cut' = FALSE /\ CatalogInv
    BY DEF set_db, ReaderInv, CatalogInv
<1>1. ReaderTypeOK'
    BY <1>0 DEF CatalogInv, ReaderTypeOK
<1>2. Relations' /\ FilesExist' /\ DatabasesApart'
    BY <1>0, ReaderKeepsCatalogs
<1> QED
    BY <1>0, <1>1, <1>2 DEF ReaderInv

(* Nothing of what was read changes while the databases do not. *)
LEMMA ReadStays ==
    ASSUME pgVars' = pgVars, db_id' = db_id
    PROVE  /\ \A row : OfThisDb(row) <=> OfThisDb(row)'
           /\ \A rows, complete : ClassRead(rows, complete) <=> ClassRead(rows, complete)'
           /\ pg_attribute_cache' = pg_attribute_cache /\ cut' = cut =>
                (AttributesRead <=> AttributesRead')
<1>0. /\ pg_class' = pg_class /\ pg_attribute' = pg_attribute /\ changes' = changes
      /\ touched' = touched
    BY DEF pgVars
<1>1. \A d : Class(d)' = Class(d)
    BY <1>0 DEF Class
<1>2. Class(db_id)' = Class(db_id)
    BY <1>0 DEF Class
<1>3. \A row : OfThisDb(row) <=> OfThisDb(row)'
    BY <1>0, <1>1, <1>2 DEF OfThisDb
<1>4. \A rows, complete : ClassRead(rows, complete) <=> ClassRead(rows, complete)'
    BY <1>0, <1>2, <1>3 DEF ClassRead
<1>5. pg_attribute_cache' = pg_attribute_cache /\ cut' = cut =>
        (AttributesRead <=> AttributesRead')
    BY <1>0 DEF AttributesRead
<1> QED
    BY <1>3, <1>4, <1>5

(* bootstrap_catalogs reads pg_class. *)
LEMMA BootClassKeepsReaderInv ==
    ASSUME ReaderInv, BootClass
    PROVE  ReaderInv'
<1> DEFINE heap == pg_class[db_id]
<1>a. PICK n \in Stops(heap) :
        /\ boot_class' = [i \in KeptClass(db_id) \cap (1 .. n) |-> heap[i]]
        /\ cut' = (n < Len(heap))
    BY DEF BootClass
<1> DEFINE rows == [i \in KeptClass(db_id) \cap (1 .. n) |-> heap[i]]
<1>0. /\ at = "class" /\ at' = "attribute" /\ boot_class' = rows
      /\ pgVars' = pgVars /\ db_id' = db_id /\ current_table' = current_table
      /\ CatalogInv
    BY <1>a DEF BootClass, ReaderInv, CatalogInv
<1>1. /\ pg_class' = pg_class /\ pg_attribute' = pg_attribute /\ files' = files
      /\ changes' = changes /\ touched' = touched
    BY <1>0 DEF pgVars
<1>2. /\ db_id \in Dbs /\ heap \in Seq(ClassItems) /\ Len(heap) \in Nat
      /\ n \in 0 .. Len(heap)
      /\ HeapOK(heap, changes) /\ Class(db_id) = Rows(heap)
    BY <1>0, RelationsHeaps DEF CatalogInv, ReaderTypeOK, ClassItems, Class, Stops
<1>3. DOMAIN rows = KeptClass(db_id) \cap (1 .. n) /\ \A i \in DOMAIN rows : rows[i] = heap[i]
    OBVIOUS
<1>4. \A i : i \in KeptClass(db_id) <=>
              i \in 1 .. Len(heap) /\ heap[i] # Free /\ heap[i].t_xmax = 0
    BY DEF KeptClass
<1>b. cut' \in BOOLEAN /\ (~cut' => n = Len(heap))
    <2>1. n < Len(heap) \/ n = Len(heap)
        BY <1>2
    <2>2. cut' \in BOOLEAN
        BY <1>a
    <2>3. ~cut' => ~(n < Len(heap))
        BY <1>a
    <2> QED
        BY <2>1, <2>2, <2>3
<1> HIDE DEF rows
<1>5. ClassRead(rows, ~cut')
    <2>1. DOMAIN rows \subseteq Nat
        BY <1>2, <1>3, <1>4
    <2>2. ASSUME NEW i \in DOMAIN rows
          PROVE  /\ i \in 1 .. Len(heap) /\ heap[i] # Free /\ rows[i] = heap[i]
                 /\ rows[i].t_xmax = 0 /\ rows[i] \in ClassRows /\ rows[i] \in Class(db_id)
        <3>1. i \in 1 .. Len(heap) /\ heap[i] # Free /\ rows[i] = heap[i] /\ rows[i].t_xmax = 0
            BY <1>3, <1>4
        <3> QED
            BY <3>1, <1>2, RowsAreItems DEF ClassItems
    <2>3. ASSUME NEW i \in DOMAIN rows PROVE OfThisDb(rows[i])
        <3>1. rows[i].oid \in Oids(changes)
            BY <2>2, <1>2 DEF HeapOK
        <3>2. rows[i].oid # PgClassOid =>
                \A d \in Dbs \ {db_id} : \A c \in Class(d) : c.oid # rows[i].oid
            BY <2>2, <1>0, <1>2 DEF CatalogInv, DatabasesApart
        <3> QED
            BY <3>1, <3>2, <2>2 DEF OfThisDb
    <2>4. ASSUME NEW i \in DOMAIN rows, NEW c \in Class(db_id), c.oid = rows[i].oid
          PROVE  c.relname = rows[i].relname
        <3>1. PICK m \in 1 .. Len(heap) : heap[m] = c /\ c # Free
            BY <1>2, RowsAreItems
        <3> QED
            BY <3>1, <2>2, <2>4, <1>2 DEF HeapOK
    <2>5. ASSUME NEW i \in DOMAIN rows, NEW j \in DOMAIN rows, rows[i].live, rows[j].live,
                 rows[i].relname = rows[j].relname
          PROVE  i = j
        <3>1. /\ i \in 1 .. Len(heap) /\ heap[i] # Free /\ rows[i] = heap[i]
              /\ j \in 1 .. Len(heap) /\ heap[j] # Free /\ rows[j] = heap[j]
            BY <2>2
        <3> QED
            BY <3>1, <2>5, <1>2 DEF HeapOK
    <2>6. ASSUME ~cut', NEW c \in Class(db_id), c.t_xmax = 0
          PROVE  \E i \in DOMAIN rows : rows[i] = c
        <3>1. PICK m \in 1 .. Len(heap) : heap[m] = c /\ c # Free
            BY <1>2, RowsAreItems
        <3>2. m \in DOMAIN rows /\ rows[m] = c
            BY <3>1, <2>6, <1>3, <1>4, <1>b
        <3> QED
            BY <3>2
    <2> QED
        BY <2>1, <2>2, <2>3, <2>4, <2>5, <2>6 DEF ClassRead
<1>6. ClassRead(boot_class, ~cut)'
    <2>1. PICK r, complete : r = rows /\ complete = ~cut'
        OBVIOUS
    <2>2. ClassRead(r, complete)'
        BY <2>1, <1>0, <1>5, ReadStays
    <2> QED
        BY <2>1, <2>2, <1>0
<1>7. ReaderTypeOK'
    BY <1>0, <1>1, <1>b DEF CatalogInv, ReaderTypeOK
<1>8. Relations' /\ FilesExist' /\ DatabasesApart'
    BY <1>0, <1>1, ReaderKeepsCatalogs
<1>9. ASSUME current_table' # None
      PROVE  /\ db_id' \in Dbs
             /\ current_table'.relkind = "r" /\ current_table'.t_xmax = 0
             /\ OfThisDb(current_table)'
    BY <1>9, <1>0, ReadStays DEF ReaderInv
<1> QED
    BY <1>0, <1>6, <1>7, <1>8, <1>9 DEF ReaderInv

(* Then it reads pg_attribute, and both caches are replaced. *)
LEMMA BootAttributeKeepsReaderInv ==
    ASSUME ReaderInv, BootAttribute
    PROVE  ReaderInv'
<1> DEFINE heap == pg_attribute[db_id]
<1>a. PICK n \in Stops(heap) :
        /\ pg_attribute_cache' = [i \in KeptAttributes(db_id) \cap (1 .. n) |-> heap[i]]
        /\ cut' = (cut \/ n < Len(heap))
    BY DEF BootAttribute
<1> DEFINE rows == [i \in KeptAttributes(db_id) \cap (1 .. n) |-> heap[i]]
<1>0. /\ at = "attribute" /\ at' = "idle" /\ pg_class_cache' = boot_class
      /\ pg_attribute_cache' = rows
      /\ pgVars' = pgVars /\ db_id' = db_id /\ current_table' = current_table
      /\ CatalogInv /\ ClassRead(boot_class, ~cut)
    BY <1>a DEF BootAttribute, ReaderInv, CatalogInv
<1>1. /\ pg_class' = pg_class /\ pg_attribute' = pg_attribute /\ files' = files
      /\ changes' = changes /\ touched' = touched
    BY <1>0 DEF pgVars
<1>2. /\ DOMAIN rows = KeptAttributes(db_id) \cap (1 .. n)
      /\ \A i \in DOMAIN rows : rows[i] = heap[i]
    OBVIOUS
<1>3. \A i : i \in KeptAttributes(db_id) <=> i \in 1 .. Len(heap) /\ heap[i] # Free
    BY DEF KeptAttributes
<1>b. cut' \in BOOLEAN /\ (~cut' => ~cut /\ n = Len(heap))
    <2>1. n \in 0 .. Len(heap) /\ Len(heap) \in Nat /\ cut \in BOOLEAN
        BY <1>0 DEF CatalogInv, ReaderTypeOK, Stops
    <2>2. n < Len(heap) \/ n = Len(heap)
        BY <2>1
    <2>3. cut' \in BOOLEAN
        BY <1>a
    <2>4. ~cut' => ~cut /\ ~(n < Len(heap))
        BY <1>a
    <2> QED
        BY <2>2, <2>3, <2>4
<1> HIDE DEF rows
<1>4. AttributesRead'
    <2>1. \A i \in DOMAIN rows : i \in 1 .. Len(heap) /\ heap[i] = rows[i]
        BY <1>2, <1>3
    <2>2. ~cut' => \A i \in 1 .. Len(heap) : heap[i].live => i \in DOMAIN rows /\ rows[i] = heap[i]
        BY <1>2, <1>3, <1>b, FreeIsDead
    <2>3. pg_attribute'[db_id'] = heap
        BY <1>0, <1>1
    <2> HIDE DEF heap
    <2> QED
        BY <2>1, <2>2, <2>3, <1>0 DEF AttributesRead
<1>5. ClassRead(pg_class_cache, ~cut)'
    <2>1. PICK r, complete : r = boot_class /\ complete = ~cut
        OBVIOUS
    <2>2. ClassRead(r, complete)'
        BY <2>1, <1>0, ReadStays
    <2>3. ClassRead(r, ~cut)'
        BY <2>1, <2>2, <1>b DEF ClassRead
    <2> QED
        BY <2>1, <2>3, <1>0
<1>6. ReaderTypeOK'
    BY <1>0, <1>1, <1>b DEF CatalogInv, ReaderTypeOK
<1>7. Relations' /\ FilesExist' /\ DatabasesApart'
    BY <1>0, <1>1, ReaderKeepsCatalogs
<1>8. ASSUME current_table' # None
      PROVE  /\ db_id' \in Dbs
             /\ current_table'.relkind = "r" /\ current_table'.t_xmax = 0
             /\ OfThisDb(current_table)'
    BY <1>8, <1>0, ReadStays DEF ReaderInv
<1> QED
    BY <1>0, <1>4, <1>5, <1>6, <1>7, <1>8 DEF ReaderInv

(* The file of a catalog cannot be opened. *)
LEMMA BootPanicsKeepsReaderInv ==
    ASSUME ReaderInv, BootPanics
    PROVE  ReaderInv'
<1>0. /\ at \in {"class", "attribute"} /\ at' = "panicked"
      /\ pgVars' = pgVars /\ db_id' = db_id /\ current_table' = current_table /\ cut' = cut
      /\ CatalogInv
    BY DEF BootPanics, cacheVars, ReaderInv, CatalogInv
<1>1. /\ pg_class' = pg_class /\ pg_attribute' = pg_attribute /\ files' = files
      /\ changes' = changes /\ touched' = touched
    BY <1>0 DEF pgVars
<1>2. ReaderTypeOK'
    BY <1>0, <1>1 DEF CatalogInv, ReaderTypeOK
<1>3. Relations' /\ FilesExist' /\ DatabasesApart'
    BY <1>0, <1>1, ReaderKeepsCatalogs
<1>4. ASSUME current_table' # None
      PROVE  /\ db_id' \in Dbs
             /\ current_table'.relkind = "r" /\ current_table'.t_xmax = 0
             /\ OfThisDb(current_table)'
    BY <1>4, <1>0, ReadStays DEF ReaderInv
<1> QED
    BY <1>0, <1>2, <1>3, <1>4 DEF ReaderInv

(* The least of a set of natural numbers that is not empty. *)
LEMMA LeastNatural ==
    ASSUME NEW S \in SUBSET Nat, S # {}
    PROVE  Min(S) \in S
<1> DEFINE R == OpToRel(<, Nat)
<1>1. IsWellFoundedOn(R, Nat)
    BY NatLessThanWellFounded
<1>2. \A x, y \in Nat : y < x => <<y, x>> \in R
    BY DEF OpToRel
<1> HIDE DEF R
<1>3. PICK x \in S : \A y \in S : ~(<<y, x>> \in R)
    BY <1>1, WFMin
<1>4. \A y \in S : ~(y < x)
    BY <1>2, <1>3
<1>5. \A y \in S : x <= y
    BY <1>4
<1>6. \E z \in S : \A y \in S : z <= y
    BY <1>5
<1> QED
    BY <1>6 DEF Min

(* set_table selects a cached row. *)
LEMMA SetTableKeepsReaderInv ==
    ASSUME ReaderInv, NEW name \in TableNames, set_table(name)
    PROVE  ReaderInv'
<1>0. /\ at = "idle" /\ at' = at
      /\ pgVars' = pgVars /\ db_id' = db_id
      /\ pg_class_cache' = pg_class_cache /\ pg_attribute_cache' = pg_attribute_cache
      /\ cut' = cut
      /\ CatalogInv /\ ClassRead(pg_class_cache, ~cut) /\ AttributesRead
    BY DEF set_table, cacheVars, ReaderInv, CatalogInv
<1>1. /\ pg_class' = pg_class /\ pg_attribute' = pg_attribute /\ files' = files
      /\ changes' = changes /\ touched' = touched /\ db_id \in Dbs
    BY <1>0 DEF pgVars, CatalogInv, ReaderTypeOK
<1>2. /\ current_table' \in ClassRows \cup {None}
      /\ current_table' # None =>
           current_table'.relkind = "r" /\ current_table'.t_xmax = 0 /\ OfThisDb(current_table')
    <2>1. CASE Find(name) # {} /\ current_table' = Found(name)
        <3>1. Find(name) \in SUBSET Nat
            BY <1>0 DEF Find, ClassRead
        <3>2. PICK m : m = Min(Find(name))
            OBVIOUS
        <3>3. m \in Find(name)
            BY <3>1, <3>2, <2>1, LeastNatural
        <3>4. current_table' = pg_class_cache[m]
            BY <3>2, <2>1 DEF Found
        <3>5. m \in DOMAIN pg_class_cache /\ pg_class_cache[m].relkind = "r"
            BY <3>3 DEF Find
        <3>6. pg_class_cache[m] \in ClassRows /\ pg_class_cache[m].t_xmax = 0
              /\ OfThisDb(pg_class_cache[m])
            BY <3>5, <1>0 DEF ClassRead
        <3> QED
            BY <3>4, <3>5, <3>6
    <2>2. CASE current_table' = current_table
        BY <2>2 DEF ReaderInv, ReaderTypeOK
    <2> QED
        BY <2>1, <2>2 DEF set_table
<1>3. ReaderTypeOK'
    BY <1>0, <1>1, <1>2 DEF CatalogInv, ReaderTypeOK
<1>4. Relations' /\ FilesExist' /\ DatabasesApart'
    BY <1>0, <1>1, ReaderKeepsCatalogs
<1>5. ASSUME current_table' # None
      PROVE  /\ db_id' \in Dbs
             /\ current_table'.relkind = "r" /\ current_table'.t_xmax = 0
             /\ OfThisDb(current_table)'
    <2>1. PICK row : row = current_table'
        OBVIOUS
    <2>2. OfThisDb(row)'
        BY <2>1, <1>0, <1>2, <1>5, ReadStays
    <2> QED
        BY <2>1, <2>2, <1>0, <1>1, <1>2, <1>5
<1>6. ClassRead(pg_class_cache, ~cut)' /\ AttributesRead'
    <2>1. PICK r, complete : r = pg_class_cache /\ complete = ~cut
        OBVIOUS
    <2>2. ClassRead(r, complete)' /\ AttributesRead'
        BY <2>1, <1>0, ReadStays
    <2> QED
        BY <2>1, <2>2, <1>0
<1> QED
    BY <1>0, <1>3, <1>4, <1>5, <1>6 DEF ReaderInv

(* The selected table, if it is not a left-over and has not been changed,  *)
(* is there, with its file, and is the only row of its relation.           *)
LEMMA SelectedIsThere ==
    ASSUME ReaderInv, current_table # None, current_table.oid \notin touched,
           ~LeftOver(current_table)
    PROVE  /\ current_table \in LiveClass(db_id)
           /\ current_table.relfilenode \in Filenodes(db_id) <=> ~Mapped(current_table)
           /\ \A c \in LiveClass(db_id) : c.oid = current_table.oid => c = current_table
<1>1. /\ db_id \in Dbs /\ current_table.relkind = "r" /\ current_table.t_xmax = 0
      /\ OfThisDb(current_table) /\ current_table \in ClassRows
      /\ Relations /\ FilesExist
    BY DEF ReaderInv, ReaderTypeOK
<1>2. current_table.live
    BY <1>1 DEF LeftOver
<1>3. current_table \in Class(db_id)
    BY <1>1, <1>2 DEF OfThisDb
<1>4. current_table \in LiveClass(db_id)
    BY <1>1, <1>2, <1>3 DEF LiveClass
<1>5. ASSUME NEW c \in LiveClass(db_id), c.oid = current_table.oid
      PROVE  c = current_table
    <2> DEFINE heap == pg_class[db_id]
    <2>1. PICK i \in 1 .. Len(heap) : heap[i] = c /\ c # Free /\ c.live
        BY <1>5 DEF LiveClass, Class, Rows
    <2>2. PICK j \in 1 .. Len(heap) : heap[j] = current_table /\ current_table # Free
        BY <1>3 DEF Class, Rows
    <2>3. c.relname = current_table.relname => i = j
        BY <2>1, <2>2, <1>1, <1>2 DEF Relations
    <2>4. c.relname = current_table.relname
        BY <2>1, <2>2, <1>1, <1>5 DEF Relations
    <2> QED
        BY <2>1, <2>2, <2>3, <2>4
<1>6. ~Mapped(current_table) => current_table.relfilenode \in Filenodes(db_id)
    BY <1>1, <1>4 DEF FilesExist, UserTables
<1>7. Mapped(current_table) => current_table.relfilenode \notin Filenodes(db_id)
    BY <1>1 DEF FilesExist, Mapped
<1> QED
    BY <1>4, <1>5, <1>6, <1>7

LEMMA FetchKeepsReaderInv ==
    ASSUME ReaderInv, fetch_all \/ fetch_by_limit
    PROVE  ReaderInv'
<1>0. /\ at = "idle" /\ at' \in {"idle", "panicked"}
      /\ pgVars' = pgVars /\ db_id' = db_id /\ current_table' = current_table
      /\ pg_class_cache' = pg_class_cache /\ pg_attribute_cache' = pg_attribute_cache
      /\ cut' = cut
      /\ CatalogInv /\ ClassRead(pg_class_cache, ~cut) /\ AttributesRead
    BY DEF fetch_all, fetch_by_limit, Fetch, cacheVars, ReaderInv, CatalogInv
<1>1. /\ pg_class' = pg_class /\ pg_attribute' = pg_attribute /\ files' = files
      /\ changes' = changes /\ touched' = touched
    BY <1>0 DEF pgVars
<1>2. ReaderTypeOK'
    BY <1>0, <1>1 DEF CatalogInv, ReaderInv, ReaderTypeOK
<1>3. Relations' /\ FilesExist' /\ DatabasesApart'
    BY <1>0, <1>1, ReaderKeepsCatalogs
<1>4. ASSUME current_table' # None
      PROVE  /\ db_id' \in Dbs
             /\ current_table'.relkind = "r" /\ current_table'.t_xmax = 0
             /\ OfThisDb(current_table)'
    <2>1. PICK row : row = current_table
        OBVIOUS
    <2>2. OfThisDb(row)'
        BY <2>1, <1>0, <1>4, ReadStays DEF ReaderInv
    <2> QED
        BY <2>1, <2>2, <1>0, <1>4 DEF ReaderInv
<1>5. ClassRead(pg_class_cache, ~cut)' /\ AttributesRead'
    <2>1. PICK r, complete : r = pg_class_cache /\ complete = ~cut
        OBVIOUS
    <2>2. ClassRead(r, complete)' /\ AttributesRead'
        BY <2>1, <1>0, ReadStays
    <2> QED
        BY <2>1, <2>2, <1>0
<1> QED
    BY <1>0, <1>2, <1>3, <1>4, <1>5 DEF ReaderInv

(* What a fetch_all returns, as long as the table is not changed. *)
LEMMA FetchMakesFetchSeesRows ==
    ASSUME ReaderInv, fetch_all \/ fetch_by_limit
    PROVE  FetchSeesRows'
<1>0. current_table' = current_table /\ touched' = touched
    BY DEF fetch_all, fetch_by_limit, Fetch, pgVars
<1> SUFFICES ASSUME result'.call = "fetch_all", result'.st # "error", ~result'.faulted,
                    current_table.oid \notin touched, ~LeftOver(current_table)
             PROVE  IF Mapped(current_table)
                      THEN result'.st = "panic"
                      ELSE result'.st = "ok" /\ result'.live \subseteq result'.rows
    BY <1>0 DEF FetchSeesRows, LeftOver, Mapped
<1>1. fetch_all /\ current_table # None
    BY DEF fetch_all, fetch_by_limit, Fetch, Return
<1>2. /\ current_table \in LiveClass(db_id)
      /\ relfilenode \in Filenodes(db_id) <=> ~Mapped(current_table)
      /\ \A c \in LiveClass(db_id) : c.oid = current_table.oid => c = current_table
    BY <1>1, SelectedIsThere DEF relfilenode
<1>3. CASE Mapped(current_table)
    BY <1>1, <1>2, <1>3 DEF fetch_all, Fetch, Return
<1>4. CASE ~Mapped(current_table)
    <2>1. Selected = {current_table}
        BY <1>2 DEF Selected
    <2>2. TrueRows \subseteq Ids(OnDisk(relfilenode))
        BY <2>1 DEF TrueRows, Ids, relfilenode
    <2>3. \A faulted \in BOOLEAN : faulted => ~Return("fetch_all", "panic", {}, faulted)
        BY DEF Return
    <2>4. PICK read \in SUBSET OnDisk(relfilenode) :
            Return("fetch_all", "ok", Ids(read), read # OnDisk(relfilenode))
        BY <1>1, <1>2, <1>4, <2>3 DEF fetch_all, Fetch
    <2>5. result'.st = "ok" /\ result'.live = TrueRows /\ result'.rows = Ids(read)
        BY <2>4 DEF Return
    <2>6. result'.faulted = (read # OnDisk(relfilenode))
        BY <2>4 DEF Return
    <2>7. read = OnDisk(relfilenode)
        BY <2>6
    <2> QED
        BY <2>2, <2>5, <2>7, <1>4
<1> QED
    BY <1>3, <1>4

LEMMA StutterKeepsReaderInv ==
    ASSUME ReaderInv, UNCHANGED vars
    PROVE  ReaderInv'
<1>0. /\ at' = at /\ pgVars' = pgVars /\ db_id' = db_id /\ current_table' = current_table
      /\ pg_class_cache' = pg_class_cache /\ pg_attribute_cache' = pg_attribute_cache
      /\ boot_class' = boot_class /\ cut' = cut /\ CatalogInv
    BY DEF vars, readerVars, cacheVars, ReaderInv, CatalogInv
<1>1. /\ pg_class' = pg_class /\ pg_attribute' = pg_attribute /\ files' = files
      /\ changes' = changes /\ touched' = touched
    BY <1>0 DEF pgVars
<1>2. ReaderTypeOK'
    BY <1>0, <1>1 DEF ReaderInv, ReaderTypeOK
<1>3. Relations' /\ FilesExist' /\ DatabasesApart'
    BY <1>0, <1>1, ReaderKeepsCatalogs
<1>4. PICK t, b, r, complete :
        t = current_table /\ b = boot_class /\ r = pg_class_cache /\ complete = ~cut
    OBVIOUS
<1>5. current_table # None => OfThisDb(t)'
    BY <1>0, <1>4, ReadStays DEF ReaderInv
<1>6. at = "attribute" => ClassRead(b, complete)'
    BY <1>0, <1>4, ReadStays DEF ReaderInv
<1>7. at = "idle" => ClassRead(r, complete)' /\ AttributesRead'
    BY <1>0, <1>4, ReadStays DEF ReaderInv
<1> QED
    BY <1>0, <1>2, <1>3, <1>4, <1>5, <1>6, <1>7 DEF ReaderInv

-----------------------------------------------------------------------------
(* The theorems. *)

(* Whatever DDL, committed or rolled back, falls before, between and after *)
(* the two catalog reads, and whatever calls of new, set_db, set_table and *)
(* the fetches follow: what bootstrap_catalogs keeps of tables that have   *)
(* not been changed is what the catalogs hold, all of it unless an I/O     *)
(* error cut a read short.  ReaderInv is inductive.                        *)
THEOREM ReaderInvariant == Spec => []ReaderInv
<1>1. ReaderInv /\ [Next]_vars => ReaderInv'
    <2> SUFFICES ASSUME ReaderInv, [Next]_vars PROVE ReaderInv'
        OBVIOUS
    <2>1. CASE Postgres /\ UNCHANGED readerVars
        BY <2>1, PostgresKeepsReaderInv
    <2>8. CASE BootPanics
        BY <2>8, BootPanicsKeepsReaderInv
    <2>2. CASE \E d \in Dbs : set_db(d)
        BY <2>2, SetDbKeepsReaderInv
    <2>3. CASE BootClass
        BY <2>3, BootClassKeepsReaderInv
    <2>4. CASE BootAttribute
        BY <2>4, BootAttributeKeepsReaderInv
    <2>5. CASE \E name \in TableNames : set_table(name)
        BY <2>5, SetTableKeepsReaderInv
    <2>6. CASE fetch_all \/ fetch_by_limit
        BY <2>6, FetchKeepsReaderInv
    <2>7. CASE UNCHANGED vars
        BY <2>7, StutterKeepsReaderInv
    <2> QED
        BY <2>1, <2>2, <2>3, <2>4, <2>5, <2>6, <2>7, <2>8 DEF Next, Reader
<1> QED
    BY <1>1, InitReaderInv, PTL DEF Spec

(* The selection is always a table of the database the reader is on: a     *)
(* fetch never combines the db_id of one with the relfilenode of another.  *)
THEOREM ReaderSelectionOfDb == Spec => []SelectionOfDb
<1>1. ReaderInv => SelectionOfDb
    BY DEF ReaderInv, SelectionOfDb, OfThisDb
<1> QED
    BY <1>1, ReaderInvariant, PTL

(* As long as the selected table is not changed, and no I/O error comes in *)
(* between, fetch_all finds its file and returns every row of it that is   *)
(* on disk, however stale the caches are; a mapped catalog it does not     *)
(* find, and panics.                                                       *)
THEOREM ReaderFetchSeesRows == Spec => []FetchSeesRows
<1>1. Init => FetchSeesRows
    BY DEF Init, FetchSeesRows, NoResult
<1>2. ReaderInv /\ FetchSeesRows /\ [Next]_vars => FetchSeesRows'
    <2> SUFFICES ASSUME ReaderInv, FetchSeesRows, [Next]_vars PROVE FetchSeesRows'
        OBVIOUS
    <2>1. CASE Postgres /\ UNCHANGED readerVars
        <3>1. PICK d \in Dbs : PostgresStep(d)
            BY <2>1, PostgresSteps DEF ReaderInv
        <3>2. touched \subseteq touched' /\ result' = result /\ current_table' = current_table
            BY <2>1, <3>1 DEF PostgresStep, readerVars
        <3> QED
            BY <3>2 DEF FetchSeesRows, LeftOver, Mapped
    <2>2. CASE \E d \in Dbs : set_db(d)
        BY <2>2 DEF set_db, FetchSeesRows, NoResult
    <2>3. CASE BootClass \/ BootAttribute \/ BootPanics \/ UNCHANGED vars
        <3>1. touched' = touched /\ result' = result /\ current_table' = current_table
            BY <2>3 DEF BootClass, BootAttribute, BootPanics, vars, pgVars, readerVars
        <3> QED
            BY <3>1 DEF FetchSeesRows, LeftOver, Mapped
    <2>4. CASE \E name \in TableNames : set_table(name)
        BY <2>4 DEF set_table, FetchSeesRows
    <2>5. CASE fetch_all \/ fetch_by_limit
        BY <2>5, FetchMakesFetchSeesRows
    <2> QED
        BY <2>1, <2>2, <2>3, <2>4, <2>5 DEF Next, Reader
<1> QED
    BY <1>1, <1>2, ReaderInvariant, PTL DEF Spec

(* Once the bootstrap is done, a table that has not been changed since it  *)
(* began is found by its name and listed once by get_all_tables, unless    *)
(* an aborted change left an xmax on its row or a row with its name, or an *)
(* I/O error cut the reading of the catalogs short.                        *)
THEOREM ReaderUntouchedFound == Spec => []UntouchedFound
<1>1. ReaderInv => UntouchedFound
    <2> SUFFICES ASSUME ReaderInv, at = "idle", ~cut, NEW c \in LiveClass(db_id),
                        c.oid \notin touched, c.t_xmax = 0,
                        \A i \in DOMAIN pg_class_cache :
                          LeftOver(pg_class_cache[i]) => pg_class_cache[i].relname # c.relname
                 PROVE  /\ Find(c.relname) # {} /\ Found(c.relname) = c
                        /\ \E i \in DOMAIN get_all_tables :
                             {j \in DOMAIN get_all_tables : get_all_tables[j].table.oid = c.oid}
                               = {i}
        BY DEF UntouchedFound
    <2>1. ClassRead(pg_class_cache, TRUE)
        BY DEF ReaderInv, ClassRead
    <2>2. c \in Class(db_id) /\ c.live /\ c.relkind = "r"
        BY DEF LiveClass
    <2>3. PICK k \in DOMAIN pg_class_cache : pg_class_cache[k] = c
        BY <2>1, <2>2 DEF ClassRead
    <2>4. ASSUME NEW i \in DOMAIN pg_class_cache, pg_class_cache[i].relname = c.relname
          PROVE  i = k
        <3>1. pg_class_cache[i].t_xmax = 0
            BY <2>1 DEF ClassRead
        <3>2. pg_class_cache[i].live
            BY <3>1, <2>4 DEF LeftOver
        <3> QED
            BY <3>2, <2>1, <2>2, <2>3, <2>4 DEF ClassRead
    <2>5. Find(c.relname) = {k}
        BY <2>2, <2>3, <2>4 DEF Find
    <2>6. Found(c.relname) = c
        <3>1. {k} \in SUBSET Nat /\ {k} # {}
            BY <2>1 DEF ClassRead
        <3>2. Min({k}) = k
            BY <3>1, LeastNatural
        <3> QED
            BY <3>2, <2>3, <2>5 DEF Found
    <2>7. /\ k \in DOMAIN get_all_tables
          /\ \A j \in DOMAIN get_all_tables :
               j \in DOMAIN pg_class_cache /\ get_all_tables[j].table = pg_class_cache[j]
        BY <2>2, <2>3 DEF get_all_tables
    <2>8. ASSUME NEW j \in DOMAIN get_all_tables, get_all_tables[j].table.oid = c.oid
          PROVE  j = k
        <3>1. j \in DOMAIN pg_class_cache /\ pg_class_cache[j].oid = c.oid
            BY <2>7, <2>8
        <3>2. pg_class_cache[j].relname = c.relname
            BY <3>1, <2>1, <2>2 DEF ClassRead
        <3> QED
            BY <3>1, <3>2, <2>4
    <2>9. {j \in DOMAIN get_all_tables : get_all_tables[j].table.oid = c.oid} = {k}
        BY <2>3, <2>7, <2>8
    <2> QED
        BY <2>5, <2>6, <2>7, <2>9
<1> QED
    BY <1>1, ReaderInvariant, PTL

(* And its schema has exactly the columns that PostgreSQL gives it, in     *)
(* their order, unless a dead pg_attribute row of it was read as well or   *)
(* an I/O error cut the reading short.                                     *)
THEOREM ReaderColumnsExact == Spec => []ColumnsExact
<1>1. ReaderInv => ColumnsExact
    <2> SUFFICES ASSUME ReaderInv, at = "idle", ~cut, NEW c \in LiveClass(db_id),
                        c.oid \notin touched,
                        \A i \in DOMAIN pg_attribute_cache :
                          pg_attribute_cache[i].attrelid = c.oid => pg_attribute_cache[i].live
                 PROVE  Types(SchemaOf(c.oid)) = Types(LiveColumns(db_id, c.oid))
        BY DEF ColumnsExact
    <2> DEFINE attrs == {i \in DOMAIN pg_attribute_cache : pg_attribute_cache[i].attrelid = c.oid}
    <2>1. AttributesRead
        BY DEF ReaderInv
    <2>2. attrs = LiveAttributes(db_id, c.oid)
        BY <2>1 DEF AttributesRead, LiveAttributes
    <2>3. \A i \in attrs : pg_attribute_cache[i] = pg_attribute[db_id][i]
        BY <2>1 DEF AttributesRead
    <2>4. [i \in attrs |-> pg_attribute_cache[i]]
            = [i \in LiveAttributes(db_id, c.oid) |-> pg_attribute[db_id][i]]
        BY <2>2, <2>3
    <2> QED
        BY <2>4 DEF SchemaOf, LiveColumns
<1> QED
    BY <1>1, ReaderInvariant, PTL
=============================================================================
