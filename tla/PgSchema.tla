------------------------------ MODULE PgSchema ------------------------------
(***************************************************************************)
(* PgSchema (src/src/types/schema.rs): the columns of a relation, made     *)
(* from the rows of pg_attribute in whatever order the heap holds them.    *)
(* An attribute row is a record with at least attnum, attisdropped and     *)
(* type; system columns have a negative attnum.                            *)
(***************************************************************************)
EXTENDS Integers, Sequences, FiniteSets

UserColumns(attrs) == {i \in 1 .. Len(attrs) : ~attrs[i].attisdropped /\ attrs[i].attnum > 0}

(* Where a stable sort by attnum puts the row i. *)
Rank(attrs, i) ==
    1 + Cardinality({j \in UserColumns(attrs) :
                       \/ attrs[j].attnum < attrs[i].attnum
                       \/ attrs[j].attnum = attrs[i].attnum /\ j < i})

from_attributes(attrs) ==
    [k \in 1 .. Cardinality(UserColumns(attrs)) |->
       attrs[CHOOSE i \in UserColumns(attrs) : Rank(attrs, i) = k]]
=============================================================================
