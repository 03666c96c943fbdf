------------------------- MODULE TupleDecodeProofs -------------------------
(***************************************************************************)
(* The four column walks over every tuple PostgreSQL can store: whatever   *)
(* the types of a table, the values and the projection, a walk stands      *)
(* where heap_fill_tuple put the column it has come to, a row it returns   *)
(* has the stored values, and it gives a tuple up only for a reason.       *)
(***************************************************************************)
EXTENDS TupleDecode, FiniteSetTheorems, SequenceTheorems, WellFoundedInduction, TLAPS

-----------------------------------------------------------------------------
(* Arithmetic. *)

LEMMA DivMod ==
    ASSUME NEW n \in Nat, NEW d \in Nat, d > 0
    PROVE  /\ n \div d \in Nat
           /\ n % d \in 0 .. d - 1
           /\ n = d * (n \div d) + (n % d)
<1>1. /\ n \div d \in Int
      /\ n % d \in 0 .. d - 1
      /\ n = d * (n \div d) + (n % d)
    BY Z3
<1>2. n \div d \in Nat
    BY <1>1, Z3
<1> QED
    BY <1>1, <1>2

(* A quotient is found by its remainder. *)
LEMMA DivUnique ==
    ASSUME NEW n \in Nat, NEW d \in Nat, d > 0,
           NEW q \in Nat, NEW r \in 0 .. d - 1, n = d * q + r
    PROVE  n \div d = q /\ n % d = r
<1>1. /\ n \div d \in Nat
      /\ n % d \in 0 .. d - 1
      /\ n = d * (n \div d) + (n % d)
    BY DivMod
<1>2. n \div d <= q
    BY <1>1, Z3
<1>3. n \div d >= q
    BY <1>1, Z3
<1> QED
    BY <1>1, <1>2, <1>3, Z3

(* align_to goes up to the next multiple and no further. *)
LEMMA RoundUpFacts ==
    ASSUME NEW n \in Nat, NEW a \in Nat, a > 0
    PROVE  /\ RoundUp(n, a) \in Nat
           /\ n <= RoundUp(n, a)
           /\ RoundUp(n, a) < n + a
           /\ RoundUp(n, a) \div a = (n + a - 1) \div a
<1> DEFINE q == (n + a - 1) \div a
           r == (n + a - 1) % a
<1>1. q \in Nat /\ r \in 0 .. a - 1 /\ n + a - 1 = a * q + r
    BY DivMod
<1>2. RoundUp(n, a) = q * a
    BY DEF RoundUp
<1> HIDE DEF q, r
<1>3. q * a \in Nat /\ q * a = a * q
    BY <1>1, Z3
<1>4. (q * a) \div a = q
  <2>1. 0 \in 0 .. a - 1 /\ q * a = a * q + 0
    BY <1>3
  <2> QED
    BY <1>1, <1>3, <2>1, DivUnique
<1> QED
    BY <1>1, <1>2, <1>3, <1>4 DEF q

(* A non-empty set of numbers has a least one. *)
LEMMA LeastNatural ==
    ASSUME NEW S \in SUBSET Nat, S # {}
    PROVE  \E x \in S : \A y \in S : x <= y
<1> DEFINE R == OpToRel(<, Nat)
<1>1. IsWellFoundedOn(R, Nat)
    BY NatLessThanWellFounded
<1>2. \A x, y \in Nat : y < x => <<y, x>> \in R
    BY DEF OpToRel
<1> HIDE DEF R
<1>3. PICK x \in S : \A y \in S : ~(<<y, x>> \in R)
    BY <1>1, WFMin
<1>4. \A y \in S : ~(y < x)
    BY <1>2, <1>3
<1> QED
    BY <1>4

(* A set of numbers with a bound has a greatest one. *)
LEMMA MaxFacts ==
    ASSUME NEW S \in SUBSET Nat, S # {}, NEW n \in Nat, \A x \in S : x <= n
    PROVE  Max(S) \in S /\ \A x \in S : x <= Max(S)
<1> DEFINE D == {n - x : x \in S}
<1>0. \A x \in S : n - x \in Nat
    OBVIOUS
<1>1. D \in SUBSET Nat /\ D # {}
    BY <1>0
<1>2. PICK d \in D : \A e \in D : d <= e
    BY <1>1, LeastNatural
<1>3. PICK m \in S : d = n - m
    BY <1>2
<1>4. \A x \in S : x <= m
    BY <1>2, <1>3
<1> QED
    BY <1>3, <1>4 DEF Max

(* The greater of two. *)
LEMMA MaxOfTwo ==
    ASSUME NEW x \in Int
    PROVE  Max({0, x}) = IF x >= 0 THEN x ELSE 0
    BY DEF Max

-----------------------------------------------------------------------------
(* What PostgreSQL stores. *)

Bytes == Nat

LEMMA ZerosFacts ==
    ASSUME NEW n \in Nat
    PROVE  /\ Zeros(n) \in Seq({0})
           /\ Len(Zeros(n)) = n
           /\ \A i \in 1 .. n : Zeros(n)[i] = 0
<1>1. Zeros(n) \in [1 .. n -> {0}]
    BY DEF Zeros
<1>2. Zeros(n) \in Seq({0})
    BY <1>1, SeqDef
<1>3. Len(Zeros(n)) = n
    BY <1>1, <1>2, LenProperties
<1> QED
    BY <1>2, <1>3 DEF Zeros

(* Four bytes that stand for n, as read_varlena_header reads them. *)
StandFor(b, n) ==
    /\ b[1] % 2 = 0 /\ b[1] # 1
    /\ b[1] \div 4 + 64 * (b[2] + 256 * (b[3] + 256 * b[4])) = n

(* A length word has four bytes, from which the code gets the length back. *)
LEMMA WordFacts ==
    ASSUME NEW n \in Nat, NEW k \in {0, 2}, NEW m \in Nat, m = 4 * n + k
    PROVE  /\ Word(m) \in Seq(Bytes)
           /\ Len(Word(m)) = 4
           /\ StandFor(Word(m), n)
<1> DEFINE n1 == m \div 256
           n2 == n1 \div 256
           n3 == n2 \div 256
           r0 == m % 256
           r1 == n1 % 256
           r2 == n2 % 256
<1>2. n1 \in Nat /\ r0 \in 0 .. 255 /\ m = 256 * n1 + r0
    BY SMT
<1>3. n2 \in Nat /\ r1 \in 0 .. 255 /\ n1 = 256 * n2 + r1
  <2> HIDE DEF n1
  <2> QED
    BY <1>2, SMT
<1>4. n3 \in Nat /\ r2 \in 0 .. 255 /\ n2 = 256 * n3 + r2
  <2> HIDE DEF n2
  <2> QED
    BY <1>3, SMT
<1>5. Word(m) = <<r0, r1, r2, n3>>
    BY DEF Word
<1> HIDE DEF n1, n2, n3, r0, r1, r2
<1>7. r0 \div 4 \in Nat /\ r0 % 4 \in 0 .. 3 /\ r0 = 4 * (r0 \div 4) + (r0 % 4)
    BY <1>2, SMT
<1>8. r0 % 4 = k /\ r0 \div 4 + 64 * n1 = n
    BY <1>2, <1>7, SMT
<1>9. r0 % 2 = 0 /\ r0 # 1
    BY <1>2, <1>7, <1>8, SMT
<1>10. n1 = r1 + 256 * (r2 + 256 * n3)
    BY <1>2, <1>3, <1>4, SMT
<1>11. Word(m) \in Seq(Bytes) /\ Len(Word(m)) = 4
  <2>1. r0 \in Nat /\ r1 \in Nat /\ r2 \in Nat /\ n3 \in Nat
    BY <1>2, <1>3, <1>4, SMT
  <2>2. <<r0, r1, r2, n3>> \in Seq(Nat) /\ Len(<<r0, r1, r2, n3>>) = 4
    BY <2>1
  <2> QED
    BY <1>5, <2>2 DEF Bytes
<1>12. Word(m)[1] = r0 /\ Word(m)[2] = r1 /\ Word(m)[3] = r2 /\ Word(m)[4] = n3
    BY <1>5, SMT
<1> QED
    BY <1>8, <1>9, <1>10, <1>11, <1>12, SMT DEF StandFor

(* Bytes put together. *)
LEMMA ByteConcat ==
    ASSUME NEW s \in Seq(Bytes), NEW t \in Seq(Bytes)
    PROVE  /\ s \o t \in Seq(Bytes)
           /\ Len(s) \in Nat /\ Len(t) \in Nat
           /\ Len(s \o t) = Len(s) + Len(t)
           /\ \A i \in 1 .. Len(s) : (s \o t)[i] = s[i]
           /\ \A i \in 1 .. Len(t) : (s \o t)[Len(s) + i] = t[i]
<1>1. /\ s \o t \in Seq(Bytes)
      /\ Len(s \o t) = Len(s) + Len(t)
      /\ \A i \in 1 .. Len(s) + Len(t) : (s \o t)[i] = IF i <= Len(s) THEN s[i] ELSE t[i - Len(s)]
    BY ConcatProperties
<1>2. Len(s) \in Nat /\ Len(t) \in Nat
    BY LenProperties
<1>3. ASSUME NEW i \in 1 .. Len(s) PROVE (s \o t)[i] = s[i]
    BY <1>1, <1>2
<1>4. ASSUME NEW i \in 1 .. Len(t) PROVE (s \o t)[Len(s) + i] = t[i]
  <2>1. Len(s) + i \in 1 .. Len(s) + Len(t) /\ ~(Len(s) + i <= Len(s)) /\ (Len(s) + i) - Len(s) = i
    BY <1>2
  <2> QED
    BY <1>1, <2>1
<1> QED
    BY <1>1, <1>2, <1>3, <1>4

(* A length word and what it counts. *)
LEMMA WordConcat ==
    ASSUME NEW p \in Seq(Bytes), NEW k \in {0, 2}, NEW m \in Nat, m = 4 * (4 + Len(p)) + k
    PROVE  LET b == Word(m) \o p
           IN  /\ b \in Seq(Bytes)
               /\ Len(p) \in Nat
               /\ Len(b) = 4 + Len(p)
               /\ StandFor(b, 4 + Len(p))
               /\ \A i \in 1 .. Len(p) : b[4 + i] = p[i]
<1>1. PICK w : w = Word(m)
    OBVIOUS
<1>2. Len(p) \in Nat
    BY LenProperties
<1>9. PICK n \in Nat : n = 4 + Len(p)
    BY <1>2
<1>10. m = 4 * n + k
    BY <1>9
<1>3. w \in Seq(Bytes) /\ Len(w) = 4 /\ StandFor(w, n)
    BY <1>1, <1>10, WordFacts
<1>11. /\ w \o p \in Seq(Bytes)
       /\ Len(w \o p) = Len(w) + Len(p)
       /\ \A i \in 1 .. Len(w) : (w \o p)[i] = w[i]
       /\ \A i \in 1 .. Len(p) : (w \o p)[Len(w) + i] = p[i]
    BY <1>3, ByteConcat
<1>5. /\ w \o p \in Seq(Bytes)
      /\ Len(w \o p) = 4 + Len(p)
      /\ \A i \in 1 .. 4 : (w \o p)[i] = w[i]
      /\ \A i \in 1 .. Len(p) : (w \o p)[4 + i] = p[i]
    BY <1>3, <1>11, Zenon
<1>6. PICK b : b = w \o p
    OBVIOUS
<1>7. b[1] = w[1] /\ b[2] = w[2] /\ b[3] = w[3] /\ b[4] = w[4]
    BY <1>5, <1>6
<1>8. StandFor(b, 4 + Len(p))
    BY <1>3, <1>7, <1>9, SMTT(30) DEF StandFor
<1> QED
    BY <1>1, <1>2, <1>5, <1>6, <1>8, Zenon

(* How many bytes a value takes, and the bytes a reader makes of them. *)
SizeOnDisk(v) ==
    CASE v.form = "fixed" -> Len(v.payload)
      [] v.form = "short" -> 1 + Len(v.payload)
      [] v.form \in {"plain", "compressed"} -> 4 + Len(v.payload)
      [] v.form = "external" -> 18
      [] OTHER -> 0

LEMMA FormsFacts ==
    ASSUME NEW type, NEW v, WellFormed(type, v), type.len \in Nat
    PROVE  /\ v.form = "null" <=> v = Null
           /\ v.payload \in Seq(0 .. 255)
           /\ v.form \in {"null", "fixed", "short", "plain", "compressed", "external"}
           /\ v # Null => (v.form = "fixed" <=> type.len > 0)
           /\ v.form = "fixed" => Len(v.payload) = type.len
           /\ v.form = "external" => v.payload = <<>>
           /\ v.form = "short" => Len(v.payload) < 127
<1>1. Null.payload \in Seq(0 .. 255) /\ Null.form = "null"
    BY EmptySeq DEF Null
<1> QED
    BY <1>1 DEF WellFormed

LEMMA OnDiskFacts ==
    ASSUME NEW type, NEW v, WellFormed(type, v), type.len \in Nat
    PROVE  /\ OnDisk(v) \in Seq(Bytes)
           /\ Len(OnDisk(v)) = SizeOnDisk(v)
           /\ v # Null => SizeOnDisk(v) > 0
<1>0. /\ v.payload \in Seq(Bytes) /\ Len(v.payload) \in Nat
      /\ v.form = "null" <=> v = Null
      /\ v.form \in {"null", "fixed", "short", "plain", "compressed", "external"}
      /\ v.form = "fixed" => Len(v.payload) = type.len /\ (v # Null => type.len > 0)
  <2>1. v.payload \in Seq(0 .. 255)
      BY FormsFacts
  <2>2. 0 .. 255 \subseteq Bytes
      BY DEF Bytes
  <2>3. v.payload \in Seq(Bytes) /\ Len(v.payload) \in Nat
      BY <2>1, <2>2, SeqMonotonic, LenProperties, ZenonT(60)
  <2> QED
      BY <2>3, FormsFacts
<1>1. CASE v.form = "fixed"
    BY <1>0, <1>1 DEF OnDisk, SizeOnDisk
<1>2. CASE v.form = "short"
  <2>1. <<2 * (1 + Len(v.payload)) + 1>> \in Seq(Bytes)
      BY <1>0 DEF Bytes
  <2>2. OnDisk(v) = <<2 * (1 + Len(v.payload)) + 1>> \o v.payload /\ SizeOnDisk(v) = 1 + Len(v.payload)
      BY <1>2 DEF OnDisk, SizeOnDisk
  <2> QED
      BY <1>0, <2>1, <2>2, ConcatProperties
<1>3. CASE v.form = "plain"
  <2>1. PICK p \in Seq(Bytes) : p = v.payload
      BY <1>0
  <2>2. PICK m \in Nat : m = 4 * (4 + Len(p)) /\ m = 4 * (4 + Len(p)) + 0
      BY <1>0, <2>1
  <2>3. Word(m) \o p \in Seq(Bytes) /\ Len(Word(m) \o p) = 4 + Len(p)
      BY <2>2, WordConcat
  <2>4. OnDisk(v) = Word(m) \o p /\ SizeOnDisk(v) = 4 + Len(p)
      BY <1>3, <1>0, <2>1, <2>2 DEF OnDisk, SizeOnDisk
  <2> QED
      BY <1>0, <2>1, <2>3, <2>4
<1>4. CASE v.form = "compressed"
  <2>1. PICK p \in Seq(Bytes) : p = v.payload
      BY <1>0
  <2>2. PICK m \in Nat : m = 4 * (4 + Len(p)) + 2
      BY <1>0, <2>1
  <2>3. Word(m) \o p \in Seq(Bytes) /\ Len(Word(m) \o p) = 4 + Len(p)
      BY <2>2, WordConcat
  <2>4. OnDisk(v) = Word(m) \o p /\ SizeOnDisk(v) = 4 + Len(p)
      BY <1>4, <1>0, <2>1, <2>2 DEF OnDisk, SizeOnDisk
  <2> QED
      BY <1>0, <2>1, <2>3, <2>4
<1>5. CASE v.form = "external"
  <2>1. <<1, 18>> \in Seq(Bytes) /\ Len(<<1, 18>>) = 2
      BY DEF Bytes
  <2>2. [i \in 1 .. 16 |-> 200] \in [1 .. 16 -> Bytes]
      BY DEF Bytes
  <2>3. [i \in 1 .. 16 |-> 200] \in Seq(Bytes) /\ Len([i \in 1 .. 16 |-> 200]) = 16
      BY <2>2, SeqDef, LenProperties
  <2>4. OnDisk(v) = <<1, 18>> \o [i \in 1 .. 16 |-> 200] /\ SizeOnDisk(v) = 18
      BY <1>5 DEF OnDisk, SizeOnDisk
  <2> QED
      BY <2>1, <2>3, <2>4, ConcatProperties
<1>6. CASE v.form = "null"
  <2>1. OnDisk(v) = <<>> /\ SizeOnDisk(v) = 0
      BY <1>6 DEF OnDisk, SizeOnDisk
  <2> QED
      BY <1>0, <1>6, <2>1, EmptySeq
<1> QED
    BY <1>0, <1>1, <1>2, <1>3, <1>4, <1>5, <1>6

(* What heap_fill_tuple is given: values that fit their types. *)
Storable(ts, vals) ==
    /\ Len(vals) \in Nat
    /\ \A i \in 1 .. Len(vals) :
         /\ ts[i].len \in Nat
         /\ ts[i].typalign \in Nat /\ ts[i].typalign > 0
         /\ WellFormed(ts[i], vals[i])

(* The zero bytes before a value. *)
Pad(before, type, v) ==
    IF v.form \in {"null", "short", "external"} THEN 0
    ELSE RoundUp(Len(before), type.typalign) - Len(before)

(* A value stands behind what was there, and zero bytes in between. *)
Wrote(before, type, v, after) ==
    LET pad == Pad(before, type, v)
    IN  /\ pad \in Nat
        /\ Len(before) \in Nat
        /\ after \in Seq(Bytes)
        /\ SizeOnDisk(v) \in Nat
        /\ Len(after) = Len(before) + pad + SizeOnDisk(v)
        /\ \A k \in 1 .. Len(before) : after[k] = before[k]
        /\ \A k \in 1 .. pad : after[Len(before) + k] = 0
        /\ \A k \in 1 .. SizeOnDisk(v) : after[Len(before) + pad + k] = OnDisk(v)[k]

LEMMA AppendedFacts ==
    ASSUME NEW before \in Seq(Bytes), NEW type, NEW v, WellFormed(type, v),
           type.len \in Nat, type.typalign \in Nat, type.typalign > 0
    PROVE  Wrote(before, type, v, Appended(before, type, v))
<1>1. Len(before) \in Nat
    BY LenProperties
<1>2. PICK pad : pad = Pad(before, type, v)
    OBVIOUS
<1>3. pad \in Nat
  <2>1. RoundUp(Len(before), type.typalign) \in Nat /\ Len(before) <= RoundUp(Len(before), type.typalign)
    BY <1>1, RoundUpFacts
  <2> QED
    BY <1>1, <1>2, <2>1 DEF Pad
<1>4. PICK z : z = Zeros(pad)
    OBVIOUS
<1>5. z \in Seq(Bytes) /\ Len(z) = pad /\ \A k \in 1 .. pad : z[k] = 0
  <2>1. {0} \subseteq Bytes
    BY DEF Bytes
  <2> QED
    BY <1>3, <1>4, <2>1, ZerosFacts, SeqMonotonic
<1>6. PICK d : d = OnDisk(v)
    OBVIOUS
<1>7. d \in Seq(Bytes) /\ Len(d) = SizeOnDisk(v) /\ SizeOnDisk(v) \in Nat
    BY <1>6, OnDiskFacts, LenProperties
<1>8. PICK bz : bz = before \o z
    OBVIOUS
<1>9. /\ bz \in Seq(Bytes)
      /\ Len(bz) = Len(before) + pad
      /\ \A k \in 1 .. Len(before) : bz[k] = before[k]
      /\ \A k \in 1 .. pad : bz[Len(before) + k] = 0
    BY <1>5, <1>8, ByteConcat, ZenonT(60)
<1>10. PICK after : after = Appended(before, type, v)
    OBVIOUS
<1>11. after = bz \o d
    BY <1>2, <1>4, <1>6, <1>8, <1>10 DEF Appended, Pad
<1>12. /\ after \in Seq(Bytes)
       /\ Len(after) = Len(bz) + Len(d)
       /\ \A k \in 1 .. Len(bz) : after[k] = bz[k]
       /\ \A k \in 1 .. Len(d) : after[Len(bz) + k] = d[k]
    BY <1>7, <1>9, <1>11, ByteConcat
<1>13. \A k \in 1 .. Len(before) : after[k] = before[k]
    BY <1>1, <1>3, <1>9, <1>12
<1>14. ASSUME NEW k \in 1 .. pad PROVE after[Len(before) + k] = 0
  <2>1. Len(before) + k \in 1 .. Len(bz)
    BY <1>1, <1>3, <1>9
  <2> QED
    BY <1>9, <1>12, <2>1
<1>15. ASSUME NEW k \in 1 .. SizeOnDisk(v) PROVE after[Len(before) + pad + k] = d[k]
    BY <1>7, <1>9, <1>12
<1>16. Len(after) = Len(before) + pad + SizeOnDisk(v)
    BY <1>7, <1>9, <1>12
<1> QED
    BY <1>1, <1>2, <1>3, <1>6, <1>7, <1>10, <1>12, <1>13, <1>14, <1>15, <1>16 DEF Wrote

(* The recursion of heap_fill_tuple, attribute by attribute. *)
LEMMA FilledRec ==
    ASSUME NEW ts, NEW vals, Len(vals) \in Nat
    PROVE  /\ Filled(ts, vals)[0] = <<>>
           /\ \A i \in 1 .. Len(vals) :
                Filled(ts, vals)[i] = Appended(Filled(ts, vals)[i - 1], ts[i], vals[i])
<1> DEFINE G(f, m) == f = [i \in 0 .. m |-> IF i = 0 THEN <<>>
                                            ELSE Appended(f[i - 1], ts[i], vals[i])]
           Bad == {m \in Nat : ~\E f : G(f, m)}
<1>1. Bad = {}
  <2> SUFFICES ASSUME Bad # {} PROVE FALSE
    OBVIOUS
  <2>1. Bad \in SUBSET Nat
    OBVIOUS
  <2>2. PICK m \in Bad : \A y \in Bad : m <= y
    BY <2>1, LeastNatural
  <2>3. m # 0
    <3>1. G([i \in 0 .. 0 |-> <<>>], 0)
        OBVIOUS
    <3> QED
        BY <3>1
  <2>4. m - 1 \in Nat /\ m - 1 \notin Bad
    <3>1. m \in Nat /\ m > 0 /\ ~(m <= m - 1)
        BY <2>1, <2>2, <2>3
    <3> HIDE DEF Bad
    <3> QED
        BY <2>2, <3>1
  <2>5. PICK f : G(f, m - 1)
    BY <2>4
  <2> DEFINE g == [i \in 0 .. m |-> IF i <= m - 1 THEN f[i]
                                    ELSE Appended(f[m - 1], ts[m], vals[m])]
  <2>6. ASSUME NEW i \in 0 .. m
        PROVE  g[i] = IF i = 0 THEN <<>> ELSE Appended(g[i - 1], ts[i], vals[i])
    <3>1. CASE i <= m - 1
        BY <2>4, <2>5, <3>1
    <3>2. CASE i = m
        BY <2>4, <2>5, <3>2
    <3> QED
        BY <2>2, <3>1, <3>2
  <2>7. g = [i \in 0 .. m |-> IF i = 0 THEN <<>> ELSE Appended(g[i - 1], ts[i], vals[i])]
    BY <2>6
  <2>8. G(g, m)
    <3> HIDE DEF g
    <3> QED
        BY <2>7
  <2> QED
    BY <2>2, <2>8
<1>2. \E f : G(f, Len(vals))
    BY <1>1
<1>3. G(Filled(ts, vals), Len(vals))
  <2>1. Filled(ts, vals) = CHOOSE f : G(f, Len(vals))
    BY DEF Filled
  <2> HIDE DEF G
  <2> QED
    BY <1>2, <2>1
<1> DEFINE F == Filled(ts, vals)
<1>4. F = [i \in 0 .. Len(vals) |-> IF i = 0 THEN <<>> ELSE Appended(F[i - 1], ts[i], vals[i])]
    BY <1>3
<1> HIDE DEF F
<1>5. F[0] = <<>> /\ \A i \in 1 .. Len(vals) : F[i] = Appended(F[i - 1], ts[i], vals[i])
    BY <1>4
<1> QED
    BY <1>5 DEF F

LEMMA FilledSeq ==
    ASSUME NEW ts, NEW vals, Storable(ts, vals)
    PROVE  \A i \in 0 .. Len(vals) : Filled(ts, vals)[i] \in Seq(Bytes)
<1> DEFINE F == Filled(ts, vals)
           Bad == {i \in 0 .. Len(vals) : F[i] \notin Seq(Bytes)}
<1>1. Len(vals) \in Nat
    BY DEF Storable
<1>2. F[0] = <<>> /\ \A i \in 1 .. Len(vals) : F[i] = Appended(F[i - 1], ts[i], vals[i])
    BY <1>1, FilledRec
<1> HIDE DEF F
<1>3. Bad = {}
  <2> SUFFICES ASSUME Bad # {} PROVE FALSE
    OBVIOUS
  <2>1. Bad \in SUBSET Nat
    BY <1>1
  <2>2. PICK i \in Bad : \A y \in Bad : i <= y
    BY <2>1, LeastNatural
  <2>3. i \in 1 .. Len(vals)
    <3>1. <<>> \in Seq(Bytes)
        BY EmptySeq
    <3>2. F[0] \in Seq(Bytes)
        BY <1>2, <3>1, Zenon
    <3>3. i # 0
        BY <2>2, <3>2
    <3> QED
        BY <1>1, <2>2, <3>3
  <2>4. F[i - 1] \in Seq(Bytes)
    BY <1>1, <2>2, <2>3
  <2>5. Appended(F[i - 1], ts[i], vals[i]) \in Seq(Bytes)
    BY <2>3, <2>4, AppendedFacts DEF Storable, Wrote
  <2> QED
    BY <1>2, <2>2, <2>3, <2>5
<1> QED
    BY <1>3 DEF F

Starts(d, e) ==
    /\ Len(e) <= Len(d)
    /\ \A k \in 1 .. Len(e) : d[k] = e[k]

(* What was written stays. *)
LEMMA FilledPrefix ==
    ASSUME NEW ts, NEW vals, Storable(ts, vals), NEW i \in 0 .. Len(vals)
    PROVE  \A j \in i .. Len(vals) : Starts(Filled(ts, vals)[j], Filled(ts, vals)[i])
<1> DEFINE F == Filled(ts, vals)
           Good(j) == /\ Len(F[i]) <= Len(F[j])
                      /\ \A k \in 1 .. Len(F[i]) : F[j][k] = F[i][k]
           Bad == {j \in i .. Len(vals) : ~Good(j)}
<1>1. Len(vals) \in Nat /\ i \in Nat
    BY DEF Storable
<1>2. \A j \in 1 .. Len(vals) : F[j] = Appended(F[j - 1], ts[j], vals[j])
    BY <1>1, FilledRec
<1>3. \A j \in 0 .. Len(vals) : F[j] \in Seq(Bytes) /\ Len(F[j]) \in Nat
    BY FilledSeq, LenProperties
<1> HIDE DEF F
<1>4. Bad = {}
  <2> SUFFICES ASSUME Bad # {} PROVE FALSE
    OBVIOUS
  <2>1. Bad \in SUBSET Nat
    BY <1>1
  <2>2. PICK j \in Bad : \A y \in Bad : j <= y
    BY <2>1, LeastNatural
  <2>3. Good(i)
    BY <1>3
  <2>4. j \in 1 .. Len(vals) /\ j - 1 \in i .. Len(vals)
    BY <1>1, <2>2, <2>3
  <2>5. Good(j - 1)
    BY <1>1, <2>2, <2>4
  <2>6. F[j - 1] \in Seq(Bytes) /\ F[j] = Appended(F[j - 1], ts[j], vals[j])
    BY <1>1, <1>2, <1>3, <2>4
  <2>7. /\ Pad(F[j - 1], ts[j], vals[j]) \in Nat /\ SizeOnDisk(vals[j]) \in Nat
        /\ Len(F[j]) = Len(F[j - 1]) + Pad(F[j - 1], ts[j], vals[j]) + SizeOnDisk(vals[j])
        /\ \A k \in 1 .. Len(F[j - 1]) : F[j][k] = F[j - 1][k]
    <3>1. /\ ts[j].len \in Nat /\ ts[j].typalign \in Nat /\ ts[j].typalign > 0
          /\ WellFormed(ts[j], vals[j])
        BY <2>4 DEF Storable
    <3>2. Wrote(F[j - 1], ts[j], vals[j], F[j])
        BY <2>6, <3>1, AppendedFacts
    <3> QED
        BY <3>2 DEF Wrote
  <2>8. Len(F[j - 1]) <= Len(F[j])
    BY <1>1, <1>3, <2>4, <2>7
  <2>9. Good(j)
    BY <1>1, <1>3, <2>4, <2>5, <2>7, <2>8, SMTT(30)
  <2> QED
    BY <2>2, <2>9
<1>5. \A j \in i .. Len(vals) : Good(j)
    BY <1>4
<1> QED
    BY <1>5 DEF F, Starts

(* The bytes of a value stand at a place in the data. *)
Holds(d, start, v) ==
    /\ start \in Nat
    /\ start + SizeOnDisk(v) <= Len(d)
    /\ \A k \in 1 .. SizeOnDisk(v) : d[start + k] = OnDisk(v)[k]

(* Every attribute of a tuple stands where heap_fill_tuple was when it     *)
(* came to it, behind its padding, and ends where the next one begins.     *)
StandsAt(d, ts, vals, c) ==
    LET before == Filled(ts, vals)[c]
        pad == Pad(before, ts[c + 1], vals[c + 1])
    IN  /\ Len(before) \in Nat
        /\ pad \in Nat
        /\ SizeOnDisk(vals[c + 1]) \in Nat
        /\ Len(Filled(ts, vals)[c + 1]) = Len(before) + pad + SizeOnDisk(vals[c + 1])
        /\ \A k \in 1 .. pad : d[Len(before) + k] = 0
        /\ Holds(d, Len(before) + pad, vals[c + 1])

LEMMA FormedFacts ==
    ASSUME NEW ts, NEW vals, Storable(ts, vals)
    PROVE  /\ Formed(ts, vals) \in Seq(Bytes)
           /\ Len(Formed(ts, vals)) \in Nat
           /\ Len(Filled(ts, vals)[0]) = 0
           /\ Len(Filled(ts, vals)[Len(vals)]) = Len(Formed(ts, vals))
           /\ \A c \in 0 .. Len(vals) : Len(Filled(ts, vals)[c]) \in Nat
           /\ \A c \in 0 .. Len(vals) - 1 : StandsAt(Formed(ts, vals), ts, vals, c)
<1>1. Len(vals) \in Nat
    BY DEF Storable
<1>2. \A i \in 0 .. Len(vals) : Filled(ts, vals)[i] \in Seq(Bytes) /\ Len(Filled(ts, vals)[i]) \in Nat
    BY FilledSeq, LenProperties
<1>3. Formed(ts, vals) = Filled(ts, vals)[Len(vals)]
    BY DEF Formed
<1>4. Len(Filled(ts, vals)[0]) = 0
  <2>1. Filled(ts, vals)[0] = <<>>
    BY <1>1, FilledRec
  <2> QED
    BY <2>1
<1>5. ASSUME NEW c \in 0 .. Len(vals) - 1
      PROVE  StandsAt(Formed(ts, vals), ts, vals, c)
  <2>1. c + 1 \in 1 .. Len(vals) /\ c \in 0 .. Len(vals) /\ (c + 1) - 1 = c
    BY <1>1
  <2>2. PICK before : before = Filled(ts, vals)[c]
    OBVIOUS
  <2>3. PICK after : after = Filled(ts, vals)[c + 1]
    OBVIOUS
  <2>4. PICK type : type = ts[c + 1]
    OBVIOUS
  <2>5. PICK v : v = vals[c + 1]
    OBVIOUS
  <2>6. PICK d : d = Formed(ts, vals)
    OBVIOUS
  <2>7. after = Appended(before, type, v)
    <3>1. Filled(ts, vals)[c + 1] = Appended(Filled(ts, vals)[(c + 1) - 1], ts[c + 1], vals[c + 1])
        BY <1>1, <2>1, FilledRec
    <3> QED
        BY <2>1, <2>2, <2>3, <2>4, <2>5, <3>1
  <2>8. type.len \in Nat /\ type.typalign \in Nat /\ type.typalign > 0 /\ WellFormed(type, v)
    BY <2>1, <2>4, <2>5 DEF Storable
  <2>9. before \in Seq(Bytes)
    BY <1>2, <2>1, <2>2
  <2>10. Wrote(before, type, v, after)
    BY <2>7, <2>8, <2>9, AppendedFacts
  <2>11. Len(after) \in Nat /\ Len(after) <= Len(d) /\ \A k \in 1 .. Len(after) : d[k] = after[k]
    <3>1. c + 1 \in 0 .. Len(vals) /\ Len(vals) \in c + 1 .. Len(vals)
        BY <1>1, <2>1
    <3> QED
        <4>1. Starts(Filled(ts, vals)[Len(vals)], Filled(ts, vals)[c + 1])
          BY <3>1, FilledPrefix
        <4>2. Len(after) \in Nat
          BY <1>2, <2>3, <3>1
        <4> QED
          BY <1>3, <2>3, <2>6, <4>1, <4>2 DEF Starts
  <2>12. PICK pad : pad = Pad(before, type, v)
    OBVIOUS
  <2>13. /\ Len(before) \in Nat /\ pad \in Nat /\ SizeOnDisk(v) \in Nat
         /\ Len(after) = Len(before) + pad + SizeOnDisk(v)
         /\ \A k \in 1 .. pad : after[Len(before) + k] = 0
         /\ \A k \in 1 .. SizeOnDisk(v) : after[Len(before) + pad + k] = OnDisk(v)[k]
    BY <2>10, <2>12 DEF Wrote
  <2>14. ASSUME NEW k \in 1 .. pad PROVE d[Len(before) + k] = 0
    <3>1. Len(before) + k \in 1 .. Len(after)
        BY <2>13
    <3> QED
        BY <2>11, <2>13, <3>1
  <2>15. ASSUME NEW k \in 1 .. SizeOnDisk(v) PROVE d[Len(before) + pad + k] = OnDisk(v)[k]
    <3>1. Len(before) + pad + k \in 1 .. Len(after)
        BY <2>13
    <3> QED
        BY <2>11, <2>13, <3>1
  <2>16. Holds(d, Len(before) + pad, v)
    BY <2>11, <2>13, <2>15 DEF Holds
  <2> QED
    BY <2>2, <2>3, <2>4, <2>5, <2>6, <2>12, <2>13, <2>14, <2>16 DEF StandsAt
<1> QED
    BY <1>1, <1>2, <1>3, <1>4, <1>5

(* A bit says that an attribute is null, in the bytes of a bitmap. *)
NullBit(bits, i) ==
    /\ i \div BitmapBits < Len(bits)
    /\ bits[i \div BitmapBits + 1][i % BitmapBits] = 0

LEMMA BitmapFacts ==
    ASSUME NEW vals, Len(vals) \in Nat
    PROVE  /\ Bitmap(vals) \in Seq([0 .. BitmapBits - 1 -> {0, 1}])
           /\ Len(Bitmap(vals)) \in Nat
           /\ Bitmap(vals) # <<>> => Len(Bitmap(vals)) = RoundUp(Len(vals), BitmapBits) \div BitmapBits
           /\ \A i \in 0 .. Len(vals) - 1 : NullBit(Bitmap(vals), i) <=> vals[i + 1] = Null
<1> DEFINE S == [0 .. BitmapBits - 1 -> {0, 1}]
           n == Len(vals)
           M == (n + BitmapBits - 1) \div BitmapBits
           row(byte) == [bit \in 0 .. BitmapBits - 1 |->
                           LET i == (byte - 1) * BitmapBits + bit + 1
                           IN  IF i <= Len(vals) /\ vals[i] # Null THEN 1 ELSE 0]
           bits == [byte \in 1 .. M |-> row(byte)]
<1>0. BitmapBits \in Nat /\ BitmapBits > 0 /\ n \in Nat
    BY TupleDecodeAssumption
<1>1. RoundUp(Len(vals), BitmapBits) \div BitmapBits = M
    BY <1>0, RoundUpFacts
<1>2. CASE \A i \in 1 .. n : vals[i] # Null
  <2>1. Bitmap(vals) = <<>>
    BY <1>2 DEF Bitmap
  <2>2. ASSUME NEW i \in 0 .. n - 1 PROVE ~NullBit(<<>>, i) /\ vals[i + 1] # Null
    <3>1. i \div BitmapBits \in Nat
        BY <1>0, DivMod
    <3>2. ~(i \div BitmapBits < Len(<<>>))
        BY <3>1
    <3>3. i + 1 \in 1 .. n
        BY <1>0
    <3> QED
        BY <1>2, <3>2, <3>3 DEF NullBit
  <2>3. <<>> \in Seq(S) /\ Len(<<>>) = 0
    BY EmptySeq
  <2> QED
    BY <2>1, <2>2, <2>3
<1>3. CASE ~\A i \in 1 .. n : vals[i] # Null
  <2>1. Bitmap(vals) = bits
    BY <1>1, <1>3 DEF Bitmap
  <2>2. M \in Nat
    BY <1>0, DivMod
  <2>3. bits \in [1 .. M -> S]
    OBVIOUS
  <2>4. bits \in Seq(S) /\ Len(bits) = M
    <3> HIDE DEF bits, S, M
    <3> QED
        BY <2>2, <2>3, SeqDef, LenProperties
  <2>5. ASSUME NEW i \in 0 .. n - 1 PROVE NullBit(bits, i) <=> vals[i + 1] = Null
    <3> DEFINE q == i \div BitmapBits
               r == i % BitmapBits
    <3>1. q \in Nat /\ r \in 0 .. BitmapBits - 1 /\ i = BitmapBits * q + r
        BY <1>0, DivMod
    <3>2. /\ M \in Nat /\ (n + BitmapBits - 1) % BitmapBits \in 0 .. BitmapBits - 1
          /\ n + BitmapBits - 1 = BitmapBits * M + ((n + BitmapBits - 1) % BitmapBits)
        <4>1. PICK m \in Nat : m = n + BitmapBits - 1
          BY <1>0
        <4>2. /\ m \div BitmapBits \in Nat /\ m % BitmapBits \in 0 .. BitmapBits - 1
              /\ m = BitmapBits * (m \div BitmapBits) + (m % BitmapBits)
          BY <1>0, DivMod
        <4> QED
          BY <4>1, <4>2
    <3>3. bits[q + 1][r] = IF q + 1 \in 1 .. M /\ (q * BitmapBits + r + 1 <= n /\ vals[q * BitmapBits + r + 1] # Null)
                             THEN 1 ELSE IF q + 1 \in 1 .. M THEN 0 ELSE bits[q + 1][r]
      <4>1. (q + 1) - 1 = q
        BY <3>1
      <4> HIDE DEF q, r, M
      <4> QED
        BY <3>1, <4>1
    <3> HIDE DEF q, r, M, bits, n
    <3>4. q < M
      <4>1. CASE q >= M
        <5>1. BitmapBits * q >= BitmapBits * M
            BY <1>0, <3>1, <3>2, <4>1, Z3
        <5> QED
            BY <1>0, <3>1, <3>2, <5>1
      <4> QED
        BY <3>1, <3>2, <4>1
    <3>5. q * BitmapBits + r + 1 = i + 1 /\ i + 1 <= n /\ q + 1 \in 1 .. M
      <4>1. q * BitmapBits = BitmapBits * q
        BY <1>0, <3>1, Z3
      <4>2. BitmapBits * q \in Nat
        BY <1>0, <3>1, Z3
      <4>3. q * BitmapBits + r + 1 = i + 1
        BY <3>1, <4>1, <4>2
      <4> QED
        BY <1>0, <3>1, <3>2, <3>4, <4>3
    <3>6. bits[q + 1][r] = IF vals[i + 1] # Null THEN 1 ELSE 0
        BY <3>3, <3>5
    <3> QED
        BY <2>4, <3>4, <3>6 DEF NullBit, q, r
  <2> QED
    BY <1>1, <2>1, <2>2, <2>4, <2>5
<1> QED
    BY <1>2, <1>3

LEMMA IsNullBit == \A i : is_null(i) = NullBit(null_bitmap, i)
    BY DEF is_null, NullBit

(* A part of a whole is found by its place. *)
LEMMA PartOf ==
    ASSUME NEW S, NEW u \in Seq(S), NEW v \in Seq(S), NEW w \in Seq(S)
    PROVE  SubSeq((u \o v) \o w, Len(u) + 1, Len(u) + Len(v)) = v
<1>1. Len(u) \in Nat /\ Len(v) \in Nat /\ Len(w) \in Nat
    BY LenProperties
<1>2. /\ u \o v \in Seq(S)
      /\ Len(u \o v) = Len(u) + Len(v)
      /\ \A i \in 1 .. Len(u) + Len(v) : (u \o v)[i] = IF i <= Len(u) THEN u[i] ELSE v[i - Len(u)]
    BY ConcatProperties
<1>3. PICK uv : uv = u \o v
    OBVIOUS
<1>4. /\ uv \o w \in Seq(S)
      /\ Len(uv \o w) = Len(uv) + Len(w)
      /\ \A i \in 1 .. Len(uv) + Len(w) : (uv \o w)[i] = IF i <= Len(uv) THEN uv[i] ELSE w[i - Len(uv)]
    BY <1>2, <1>3, ConcatProperties
<1>5. PICK s : s = uv \o w
    OBVIOUS
<1>6. \A i \in 1 .. Len(v) : s[Len(u) + i] = v[i]
  <2> SUFFICES ASSUME NEW i \in 1 .. Len(v) PROVE s[Len(u) + i] = v[i]
    OBVIOUS
  <2>1. Len(u) + i \in 1 .. Len(u) + Len(v) /\ ~(Len(u) + i <= Len(u)) /\ (Len(u) + i) - Len(u) = i
    BY <1>1
  <2>2. uv[Len(u) + i] = v[i]
    BY <1>2, <1>3, <2>1
  <2>3. Len(u) + i \in 1 .. Len(uv) + Len(w) /\ Len(u) + i <= Len(uv)
    BY <1>1, <1>2, <1>3, <2>1
  <2> QED
    BY <1>4, <1>5, <2>2, <2>3
<1>7. PICK m \in Int : m = Len(u) + 1
    BY <1>1
<1>8. PICK n \in Int : n = Len(u) + Len(v)
    BY <1>1
<1>9. \A i \in m .. n : s[i] \in S
  <2> SUFFICES ASSUME NEW i \in m .. n PROVE s[i] \in S
    OBVIOUS
  <2>1. i \in 1 .. Len(s)
    BY <1>1, <1>2, <1>3, <1>4, <1>5, <1>7, <1>8
  <2> QED
    BY <1>4, <1>5, <2>1, ElementOfSeq
<1>10. /\ SubSeq(s, m, n) \in Seq(S)
       /\ Len(SubSeq(s, m, n)) = IF m <= n THEN n - m + 1 ELSE 0
       /\ \A i \in 1 .. n - m + 1 : SubSeq(s, m, n)[i] = s[m + i - 1]
    BY <1>9, SubSeqProperties
<1>11. Len(SubSeq(s, m, n)) = Len(v) /\ n - m + 1 = Len(v)
    BY <1>1, <1>7, <1>8, <1>10
<1>12. \A i \in 1 .. Len(v) : SubSeq(s, m, n)[i] = v[i]
  <2> SUFFICES ASSUME NEW i \in 1 .. Len(v) PROVE SubSeq(s, m, n)[i] = v[i]
    OBVIOUS
  <2>1. i \in 1 .. n - m + 1 /\ m + i - 1 = Len(u) + i
    BY <1>1, <1>7, <1>11
  <2> QED
    BY <1>6, <1>10, <2>1
<1>13. SubSeq(s, m, n) = v
    BY <1>10, <1>11, <1>12, SeqEqual
<1> QED
    BY <1>3, <1>5, <1>7, <1>8, <1>13

(* parse_and_build takes apart what heap_form_tuple put together. *)
LEMMA ParseRaw ==
    ASSUME NEW ts, NEW vals, Storable(ts, vals)
    PROVE  parse_and_build(RawTuple(ts, vals)) =
             [st |-> "ok", bitmap |-> Bitmap(vals), data |-> Formed(ts, vals)]
<1> DEFINE S == Bytes \cup [0 .. BitmapBits - 1 -> {0, 1}]
<1>0. PICK r : r = RawTuple(ts, vals)
    OBVIOUS
<1>1. PICK bits : bits = Bitmap(vals)
    OBVIOUS
<1>2. PICK d : d = Formed(ts, vals)
    OBVIOUS
<1>3. PICK hoff : hoff = RoundUp(SIZEOF_HEAP_TUPLE_HEADER + Len(bits), 8)
    OBVIOUS
<1>4. PICK z1 : z1 = Zeros(SIZEOF_HEAP_TUPLE_HEADER)
    OBVIOUS
<1>5. PICK z2 : z2 = Zeros(hoff - SIZEOF_HEAP_TUPLE_HEADER - Len(bits))
    OBVIOUS
<1>6. /\ r.natts = Len(vals)
      /\ r.has_null = (bits # <<>>)
      /\ r.t_hoff = hoff
      /\ r.bytes = ((z1 \o bits) \o z2) \o d
    BY <1>0, <1>1, <1>2, <1>3, <1>4, <1>5 DEF RawTuple
<1>7. Bytes \subseteq S /\ [0 .. BitmapBits - 1 -> {0, 1}] \subseteq S /\ {0} \subseteq S
    BY DEF Bytes
<1> HIDE DEF S
<1>8. Len(vals) \in Nat
    BY DEF Storable
<1>9. bits \in Seq(S) /\ Len(bits) \in Nat
    BY <1>1, <1>7, <1>8, BitmapFacts, SeqMonotonic
<1>10. d \in Seq(S) /\ Len(d) \in Nat
    BY <1>2, <1>7, FormedFacts, SeqMonotonic
<1>11. hoff \in Nat /\ hoff >= 23 + Len(bits)
  <2>1. PICK n \in Nat : n = 23 + Len(bits)
    BY <1>9
  <2>2. hoff = RoundUp(n, 8)
    BY <1>3, <2>1 DEF SIZEOF_HEAP_TUPLE_HEADER
  <2>3. RoundUp(n, 8) \in Nat /\ n <= RoundUp(n, 8)
    BY RoundUpFacts
  <2> QED
    BY <2>1, <2>2, <2>3
<1>12. z1 \in Seq(S) /\ Len(z1) = 23
  <2>1. z1 = Zeros(23)
    BY <1>4 DEF SIZEOF_HEAP_TUPLE_HEADER
  <2>2. Zeros(23) \in Seq({0}) /\ Len(Zeros(23)) = 23
    BY ZerosFacts
  <2> QED
    BY <1>7, <2>1, <2>2, SeqMonotonic
<1>13. z2 \in Seq(S) /\ Len(z2) = hoff - 23 - Len(bits)
  <2>1. hoff - 23 - Len(bits) \in Nat
    BY <1>9, <1>11
  <2>2. z2 = Zeros(hoff - 23 - Len(bits))
    BY <1>5 DEF SIZEOF_HEAP_TUPLE_HEADER
  <2> QED
    BY <1>7, <2>1, <2>2, ZerosFacts, SeqMonotonic
<1>14. PICK h : h = (z1 \o bits) \o z2
    OBVIOUS
<1>15. z1 \o bits \in Seq(S) /\ Len(z1 \o bits) = 23 + Len(bits)
  <2>1. z1 \o bits \in Seq(S) /\ Len(z1 \o bits) = Len(z1) + Len(bits)
    BY <1>9, <1>12, ConcatProperties
  <2> QED
    BY <1>12, <2>1
<1>16. h \in Seq(S) /\ Len(h) = hoff
  <2>1. h \in Seq(S) /\ Len(h) = Len(z1 \o bits) + Len(z2)
    BY <1>13, <1>14, <1>15, ConcatProperties
  <2> QED
    BY <1>9, <1>11, <1>13, <1>15, <2>1
<1>17. h \o d \in Seq(S) /\ Len(h \o d) = hoff + Len(d)
    BY <1>10, <1>16, ConcatProperties
<1>18. r.bytes = h \o d /\ Len(r.bytes) = hoff + Len(d)
    BY <1>6, <1>14, <1>17
<1>19. SubSeq(r.bytes, hoff + 1, Len(r.bytes)) = d
  <2>1. <<>> \in Seq(S)
    BY EmptySeq
  <2>2. SubSeq((h \o d) \o <<>>, Len(h) + 1, Len(h) + Len(d)) = d
    BY <1>10, <1>16, <2>1, PartOf
  <2>3. (h \o d) \o <<>> = h \o d
    BY <1>17, ConcatEmptySeq
  <2> QED
    BY <1>16, <1>18, <2>2, <2>3
<1>20. SubSeq(r.bytes, 23 + 1, 23 + Len(bits)) = bits
  <2>1. PICK w : w = z2 \o d
    OBVIOUS
  <2>2. w \in Seq(S)
    BY <1>10, <1>13, <2>1, ConcatProperties
  <2>3. r.bytes = (z1 \o bits) \o w
    <3>1. PICK zb \in Seq(S) : zb = z1 \o bits
        BY <1>15
    <3>2. (zb \o z2) \o d = zb \o (z2 \o d)
        BY <1>10, <1>13, ConcatAssociative, SMTT(30)
    <3> QED
        BY <1>14, <1>18, <2>1, <3>1, <3>2
  <2>4. SubSeq((z1 \o bits) \o w, Len(z1) + 1, Len(z1) + Len(bits)) = bits
    BY <1>9, <1>12, <2>2, PartOf
  <2> QED
    BY <1>12, <2>3, <2>4
<1>21. PICK end : end = SIZEOF_HEAP_TUPLE_HEADER + RoundUp(r.natts, BitmapBits) \div BitmapBits
    OBVIOUS
<1>22. bits # <<>> => end = 23 + Len(bits)
    BY <1>1, <1>6, <1>8, <1>21, BitmapFacts DEF SIZEOF_HEAP_TUPLE_HEADER
<1>23. ~(\/ Len(r.bytes) < SIZEOF_HEAP_TUPLE_HEADER
         \/ r.t_hoff < SIZEOF_HEAP_TUPLE_HEADER \/ r.t_hoff > Len(r.bytes)
         \/ r.has_null /\ end > r.t_hoff)
  <2>1. Len(r.bytes) = hoff + Len(d) /\ r.t_hoff = hoff /\ hoff >= 23 + Len(bits)
    BY <1>6, <1>11, <1>18
  <2>2. ~(Len(r.bytes) < 23) /\ ~(r.t_hoff < 23) /\ ~(r.t_hoff > Len(r.bytes))
    BY <1>9, <1>10, <1>11, <2>1
  <2>3. ~(r.has_null /\ end > r.t_hoff)
    <3>1. ASSUME r.has_null PROVE ~(end > r.t_hoff)
      <4>1. bits # <<>>
        BY <1>6, <3>1, Zenon
      <4> QED
        BY <1>9, <1>11, <1>22, <2>1, <4>1
    <3> QED
        BY <3>1
  <2> QED
    BY <2>2, <2>3 DEF SIZEOF_HEAP_TUPLE_HEADER
<1>24. (IF r.has_null THEN SubSeq(r.bytes, SIZEOF_HEAP_TUPLE_HEADER + 1, end) ELSE <<>>) = bits
    BY <1>6, <1>20, <1>22 DEF SIZEOF_HEAP_TUPLE_HEADER
<1>25. SubSeq(r.bytes, r.t_hoff + 1, Len(r.bytes)) = d
    BY <1>6, <1>19
<1>26. parse_and_build(r) = [st |-> "ok", bitmap |-> bits, data |-> d]
    BY <1>21, <1>23, <1>24, <1>25 DEF parse_and_build
<1> QED
    BY <1>0, <1>1, <1>2, <1>26

(* A tuple that is not yet there has no header that could be right. *)
LEMMA ParseTorn ==
    ASSUME NEW r
    PROVE  parse_and_build(Torn(r)).st = "error"
    BY DEF parse_and_build, Torn, SIZEOF_HEAP_TUPLE_HEADER

-----------------------------------------------------------------------------
(* The schema. *)

(* User columns with the numbers 1 to n, in whatever order their rows are. *)
Numbered(attrs, n) ==
    /\ Len(attrs) \in Nat
    /\ n \in Nat
    /\ \A i \in UserColumns(attrs) : attrs[i].attnum \in 1 .. n
    /\ \A i, j \in UserColumns(attrs) : attrs[i].attnum = attrs[j].attnum => i = j
    /\ \A k \in 1 .. n : \E i \in UserColumns(attrs) : attrs[i].attnum = k

LEMMA NumberedUpTo ==
    ASSUME NEW attrs, NEW n, Numbered(attrs, n), NEW m \in 0 .. n
    PROVE  Cardinality({i \in UserColumns(attrs) : attrs[i].attnum <= m}) = m
<1> DEFINE U == UserColumns(attrs)
           T == {i \in U : attrs[i].attnum <= m}
           f == [k \in 1 .. m |-> CHOOSE i \in U : attrs[i].attnum = k]
<1>1. /\ n \in Nat /\ m \in Nat
      /\ \A i \in U : attrs[i].attnum \in 1 .. n
      /\ \A i, j \in U : attrs[i].attnum = attrs[j].attnum => i = j
      /\ \A k \in 1 .. n : \E i \in U : attrs[i].attnum = k
    BY DEF Numbered
<1> HIDE DEF U
<1>2. \A k \in 1 .. m : f[k] \in U /\ attrs[f[k]].attnum = k
    BY <1>1
<1> HIDE DEF f
<1>3. \A k \in 1 .. m : f[k] \in T
    BY <1>1, <1>2
<1>4. f \in [1 .. m -> T]
  <2>1. f = [k \in 1 .. m |-> f[k]]
    BY DEF f
  <2> QED
    BY <1>3, <2>1
<1>5. \A j, k \in 1 .. m : f[j] = f[k] => j = k
    BY <1>2
<1>6. \A i \in T : \E k \in 1 .. m : f[k] = i
  <2> SUFFICES ASSUME NEW i \in T PROVE \E k \in 1 .. m : f[k] = i
    OBVIOUS
  <2>1. attrs[i].attnum \in 1 .. m /\ i \in U
    BY <1>1
  <2>2. f[attrs[i].attnum] = i
    BY <1>1, <1>2, <2>1
  <2> QED
    BY <2>1, <2>2
<1> HIDE DEF T
<1>7. f \in Bijection(1 .. m, T)
  <2>1. DOMAIN f = 1 .. m
    BY <1>4
  <2> QED
    BY <1>4, <1>5, <1>6, <2>1 DEF Bijection, Injection, Surjection, IsInjective
<1>8. ExistsBijection(1 .. m, T)
    BY <1>7 DEF ExistsBijection
<1>9. Cardinality(T) = m
    BY <1>1, <1>8, FS_CountingElements
<1> QED
    BY <1>9 DEF T, U

(* The schema has column k at place k. *)
LEMMA FromAttributes ==
    ASSUME NEW attrs, NEW n, Numbered(attrs, n)
    PROVE  /\ DOMAIN from_attributes(attrs) = 1 .. n
           /\ Len(from_attributes(attrs)) = n
           /\ \A k \in 1 .. n : \E i \in UserColumns(attrs) :
                from_attributes(attrs)[k] = attrs[i] /\ attrs[i].attnum = k
<1> DEFINE U == UserColumns(attrs)
<1>1. /\ n \in Nat
      /\ \A i \in U : attrs[i].attnum \in 1 .. n
      /\ \A i, j \in U : attrs[i].attnum = attrs[j].attnum => i = j
      /\ \A k \in 1 .. n : \E i \in U : attrs[i].attnum = k
    BY DEF Numbered
<1>2. Cardinality(U) = n
  <2>1. {i \in UserColumns(attrs) : attrs[i].attnum <= n} = U
    BY <1>1
  <2>2. n \in 0 .. n
    BY <1>1
  <2> HIDE DEF U
  <2> QED
    BY <2>1, <2>2, NumberedUpTo
<1>3. ASSUME NEW i \in U PROVE Rank(attrs, i) = attrs[i].attnum
  <2>1. PICK a \in 1 .. n : a = attrs[i].attnum
    BY <1>1
  <2> DEFINE below == {j \in UserColumns(attrs) :
                         \/ attrs[j].attnum < attrs[i].attnum
                         \/ attrs[j].attnum = attrs[i].attnum /\ j < i}
  <2>2. below = {j \in UserColumns(attrs) : attrs[j].attnum <= a - 1}
    <3>1. ASSUME NEW j \in UserColumns(attrs)
          PROVE  (\/ attrs[j].attnum < attrs[i].attnum
                  \/ attrs[j].attnum = attrs[i].attnum /\ j < i)
                 <=> attrs[j].attnum <= a - 1
        <4>1. attrs[j].attnum \in 1 .. n /\ attrs[i].attnum \in 1 .. n
            BY <1>1
        <4>2. attrs[j].attnum = attrs[i].attnum => j = i
            BY <1>1
        <4>3. i \in Nat
            BY DEF UserColumns
        <4>4. ~(attrs[j].attnum = attrs[i].attnum /\ j < i)
            BY <4>2, <4>3
        <4>5. attrs[j].attnum < attrs[i].attnum <=> attrs[j].attnum <= a - 1
            BY <1>1, <2>1, <4>1
        <4> QED
            BY <4>4, <4>5
    <3> QED
        BY <3>1
  <2>3. a - 1 \in 0 .. n
    BY <1>1, <2>1
  <2>4. Cardinality({j \in UserColumns(attrs) : attrs[j].attnum <= a - 1}) = a - 1
    BY <2>3, NumberedUpTo
  <2>5. Rank(attrs, i) = 1 + Cardinality(below)
    BY DEF Rank
  <2> HIDE DEF below
  <2> QED
    BY <1>1, <2>1, <2>2, <2>4, <2>5
<1>4. PICK sorted : sorted = from_attributes(attrs)
    OBVIOUS
<1>5. sorted = [k \in 1 .. n |-> attrs[CHOOSE i \in U : Rank(attrs, i) = k]]
    BY <1>2, <1>4 DEF from_attributes
<1> HIDE DEF U
<1>6. ASSUME NEW k \in 1 .. n
      PROVE  \E i \in U : sorted[k] = attrs[i] /\ attrs[i].attnum = k
  <2>1. \E i \in U : Rank(attrs, i) = k
    BY <1>1, <1>3
  <2>2. PICK i : i = CHOOSE c \in U : Rank(attrs, c) = k
    OBVIOUS
  <2>3. i \in U /\ Rank(attrs, i) = k
    BY <2>1, <2>2
  <2>4. sorted[k] = attrs[i]
    BY <1>5, <2>2
  <2> QED
    BY <1>3, <2>3, <2>4
<1>7. DOMAIN sorted = 1 .. n
    BY <1>5
<1>8. Len(sorted) = n
    BY <1>1, <1>7
<1> QED
    BY <1>4, <1>6, <1>7, <1>8 DEF U

(* pg_attribute has the table's attributes, one of them out of order.      *)
LEMMA AttributeRowsFacts ==
    ASSUME NEW ts, Len(ts) \in Nat, NEW moved \in 1 .. Len(ts)
    PROVE  LET attrs == AttributeRows(ts, 0, moved)
           IN  /\ Numbered(attrs, Len(ts))
               /\ \A i \in UserColumns(attrs) : \E a \in 1 .. Len(ts) :
                    attrs[i] = [attnum |-> a, attisdropped |-> a = 0, type |-> ts[a]]
<1> DEFINE n == Len(ts)
           row(i) == [attnum |-> i, attisdropped |-> i = 0, type |-> ts[i]]
           ctid == [attnum |-> -1, attisdropped |-> FALSE, type |-> ts[1]]
           at(i) == IF i < moved THEN i ELSE i + 1
           S == {ctid} \cup {row(i) : i \in 1 .. n}
           first == <<ctid>>
           most == [i \in 1 .. n - 1 |-> row(at(i))]
           last == <<row(moved)>>
<1>1. n \in Nat /\ n > 0 /\ moved \in 1 .. n
    OBVIOUS
<1>2. PICK attrs : attrs = AttributeRows(ts, 0, moved)
    OBVIOUS
<1>3. attrs = (first \o most) \o last
    BY <1>2 DEF AttributeRows
<1>4. \A i \in 1 .. n - 1 : at(i) \in 1 .. n
    BY <1>1
<1>5. first \in Seq(S) /\ Len(first) = 1 /\ first[1] = ctid
    OBVIOUS
<1>6. most \in Seq(S) /\ Len(most) = n - 1 /\ \A i \in 1 .. n - 1 : most[i] = row(at(i))
  <2>1. \A i \in 1 .. n - 1 : row(at(i)) \in S
    BY <1>4
  <2>2. most \in [1 .. n - 1 -> S]
    <3> HIDE DEF S, row, at
    <3> QED
        BY <2>1
  <2>3. \A i \in 1 .. n - 1 : most[i] = row(at(i))
    OBVIOUS
  <2> HIDE DEF most, S, row, at
  <2>4. n - 1 \in Nat
    BY <1>1
  <2> QED
    BY <2>2, <2>3, <2>4, SeqDef, LenProperties
<1>7. last \in Seq(S) /\ Len(last) = 1 /\ last[1] = row(moved)
  <2>1. row(moved) \in S
    BY <1>1
  <2> HIDE DEF S, row
  <2> QED
    BY <2>1
<1>8. \A i \in 1 .. n : row(i).attnum = i /\ row(i).type = ts[i] /\ ~row(i).attisdropped
  <2> SUFFICES ASSUME NEW i \in 1 .. n
               PROVE  row(i).attnum = i /\ row(i).type = ts[i] /\ ~row(i).attisdropped
    OBVIOUS
  <2>1. i # 0
    BY <1>1
  <2>2. row(i).attnum = i /\ row(i).type = ts[i]
    OBVIOUS
  <2>3. row(i).attisdropped = (i = 0)
    BY Zenon
  <2> QED
    BY <2>1, <2>2, <2>3, Zenon
<1>9. ctid.attnum = -1
    OBVIOUS
<1> HIDE DEF first, most, last, row, ctid, S, n
<1>10. PICK fm : fm = first \o most
    OBVIOUS
<1>11. /\ fm \in Seq(S) /\ Len(fm) = n
       /\ \A i \in 1 .. n : fm[i] = IF i <= 1 THEN first[i] ELSE most[i - 1]
  <2>1. /\ fm \in Seq(S) /\ Len(fm) = Len(first) + Len(most)
        /\ \A i \in 1 .. Len(first) + Len(most) :
              fm[i] = IF i <= Len(first) THEN first[i] ELSE most[i - Len(first)]
    BY <1>5, <1>6, <1>10, ConcatProperties
  <2>2. Len(first) + Len(most) = n
    BY <1>1, <1>5, <1>6
  <2> QED
    BY <1>5, <2>1, <2>2
<1>12. /\ attrs \in Seq(S) /\ Len(attrs) = n + 1
       /\ \A i \in 1 .. n + 1 : attrs[i] = IF i <= n THEN fm[i] ELSE last[i - n]
  <2>1. /\ attrs \in Seq(S) /\ Len(attrs) = Len(fm) + Len(last)
        /\ \A i \in 1 .. Len(fm) + Len(last) :
              attrs[i] = IF i <= Len(fm) THEN fm[i] ELSE last[i - Len(fm)]
    <3>1. attrs = fm \o last
        BY <1>3, <1>10
    <3> QED
        BY <1>7, <1>11, <3>1, ConcatProperties
  <2> QED
    BY <1>7, <1>11, <2>1
<1> DEFINE num(k) == IF k = n + 1 THEN moved ELSE at(k - 1)
<1>13. ASSUME NEW k \in 2 .. n + 1
       PROVE  num(k) \in 1 .. n /\ attrs[k] = row(num(k))
  <2>1. CASE k = n + 1
    BY <1>1, <1>7, <1>12, <2>1
  <2>2. CASE k # n + 1
    <3>1. k \in 1 .. n /\ ~(k <= 1) /\ k - 1 \in 1 .. n - 1
        BY <1>1, <2>2
    <3>2. attrs[k] = row(at(k - 1))
      <4>1. attrs[k] = fm[k] /\ fm[k] = most[k - 1]
        BY <1>1, <1>11, <1>12, <3>1
      <4> QED
        BY <1>6, <3>1, <4>1
    <3> QED
        BY <1>4, <2>2, <3>1, <3>2
  <2> QED
    BY <2>1, <2>2
<1>14. attrs[1] = ctid
    BY <1>1, <1>5, <1>11, <1>12
<1> DEFINE U == UserColumns(attrs)
<1>15. U = 2 .. n + 1
  <2>1. ASSUME NEW k \in 1 .. n + 1 PROVE (~attrs[k].attisdropped /\ attrs[k].attnum > 0) <=> k >= 2
    <3>1. CASE k = 1
        BY <1>9, <1>14, <3>1
    <3>2. CASE k # 1
      <4>1. k \in 2 .. n + 1
        BY <1>1, <3>2
      <4>2. ~attrs[k].attisdropped /\ attrs[k].attnum \in 1 .. n
        BY <1>8, <1>13, <4>1
      <4>3. attrs[k].attnum > 0
        BY <1>1, <4>2
      <4> QED
        BY <4>1, <4>2, <4>3
    <3> QED
        BY <3>1, <3>2
  <2>2. U = {k \in 1 .. n + 1 : ~attrs[k].attisdropped /\ attrs[k].attnum > 0}
    BY <1>12 DEF UserColumns
  <2> QED
    BY <1>1, <2>1, <2>2
<1>16. \A k \in U : attrs[k].attnum = num(k) /\ attrs[k].type = ts[num(k)] /\ num(k) \in 1 .. n
    BY <1>8, <1>13, <1>15
<1>17. \A j, k \in U : num(j) = num(k) => j = k
  <2> SUFFICES ASSUME NEW j \in U, NEW k \in U, num(j) = num(k) PROVE j = k
    OBVIOUS
  <2> QED
    BY <1>1, <1>15
<1>18. \A a \in 1 .. n : \E k \in U : num(k) = a
  <2> SUFFICES ASSUME NEW a \in 1 .. n PROVE \E k \in U : num(k) = a
    OBVIOUS
  <2>1. CASE a < moved
    <3>1. a + 1 \in U /\ a + 1 # n + 1 /\ (a + 1) - 1 = a
        BY <1>1, <1>15, <2>1
    <3>2. num(a + 1) = a
        BY <2>1, <3>1
    <3> QED
        BY <3>1, <3>2
  <2>2. CASE a = moved
    <3>1. n + 1 \in U /\ num(n + 1) = a
        BY <1>1, <1>15, <2>2
    <3> QED
        BY <3>1
  <2>3. CASE a > moved
    <3>1. a \in U /\ a # n + 1 /\ num(a) = a
        BY <1>1, <1>15, <2>3
    <3> QED
        BY <3>1
  <2> QED
    BY <1>1, <2>1, <2>2, <2>3
<1> HIDE DEF num
<1>19. Numbered(attrs, n)
  <2>1. Len(attrs) \in Nat
    BY <1>1, <1>12
  <2> QED
    BY <1>1, <1>16, <1>17, <1>18, <2>1, SMTT(30) DEF Numbered
<1>20. \A i \in U : attrs[i] = row(num(i)) /\ num(i) \in 1 .. n
    BY <1>13, <1>15
<1>21. \A i \in U : \E a \in 1 .. n : attrs[i] = [attnum |-> a, attisdropped |-> a = 0, type |-> ts[a]]
    BY <1>20 DEF row
<1> QED
    BY <1>2, <1>19, <1>21 DEF n

(* Column k of the schema is attribute k, as text if its type is unknown.  *)
SchemaFits(columns, ts) ==
    /\ Len(columns) \in 0 .. Len(ts)
    /\ \A i \in 1 .. Len(columns) :
         /\ columns[i].attnum = i
         /\ columns[i].type = IF ts[i].known THEN ts[i] ELSE TextType

LEMMA TableSchema ==
    ASSUME NEW ts, Len(ts) \in Nat, NEW moved \in 1 .. Len(ts)
    PROVE  SchemaFits(SchemaOf(AttributeRows(ts, 0, moved)), ts)
<1> DEFINE n == Len(ts)
<1>1. PICK attrs : attrs = AttributeRows(ts, 0, moved)
    OBVIOUS
<1>2. /\ Numbered(attrs, n)
      /\ \A i \in UserColumns(attrs) : \E a \in 1 .. n :
           attrs[i] = [attnum |-> a, attisdropped |-> a = 0, type |-> ts[a]]
    BY <1>1, AttributeRowsFacts
<1>3. PICK sorted : sorted = from_attributes(attrs)
    OBVIOUS
<1>4. /\ Len(sorted) = n
      /\ \A k \in 1 .. n : \E i \in UserColumns(attrs) : sorted[k] = attrs[i] /\ attrs[i].attnum = k
    BY <1>2, <1>3, FromAttributes
<1>5. ASSUME NEW k \in 1 .. n
      PROVE  /\ PgColumn(sorted[k]).attnum = k
             /\ PgColumn(sorted[k]).type = IF ts[k].known THEN ts[k] ELSE TextType
  <2>1. PICK i \in UserColumns(attrs) : sorted[k] = attrs[i] /\ attrs[i].attnum = k
    BY <1>4
  <2>2. PICK a \in 1 .. n : attrs[i] = [attnum |-> a, attisdropped |-> a = 0, type |-> ts[a]]
    BY <1>2
  <2>3. a = k
    BY <2>1, <2>2
  <2>4. sorted[k] = [attnum |-> k, attisdropped |-> k = 0, type |-> ts[k]]
    BY <2>1, <2>2, <2>3
  <2>5. CASE ts[k].known
    <3>1. PgColumn(sorted[k]) = sorted[k]
        BY <2>4, <2>5 DEF PgColumn
    <3> QED
        BY <2>4, <2>5, <3>1
  <2>6. CASE ~ts[k].known
    <3>1. PgColumn(sorted[k]) = [sorted[k] EXCEPT !.type = TextType]
        BY <2>4, <2>6 DEF PgColumn
    <3> QED
        BY <2>4, <2>6, <3>1
  <2> QED
    BY <2>5, <2>6
<1>6. SchemaOf(attrs) = [i \in 1 .. n |-> PgColumn(sorted[i])]
    BY <1>3, <1>4 DEF SchemaOf
<1>7. Len(SchemaOf(attrs)) = n
    BY <1>6
<1> QED
    BY <1>1, <1>5, <1>6, <1>7 DEF SchemaFits

LEMMA CatalogSchema ==
    ASSUME NEW ts, Len(ts) \in Nat
    PROVE  SchemaFits(FixedAttrs(ts), ts)
<1> DEFINE K == {k \in 0 .. Len(ts) : \A i \in 1 .. k : ts[i].len > 0 /\ ts[i].known}
<1>1. PICK n : n = Max(K)
    OBVIOUS
<1>2. n \in K
  <2>1. K \in SUBSET Nat /\ \A k \in K : k <= Len(ts)
    OBVIOUS
  <2>2. 0 \in K
    OBVIOUS
  <2> HIDE DEF K
  <2> QED
    BY <1>1, <2>1, <2>2, MaxFacts
<1>3. n \in 0 .. Len(ts) /\ \A i \in 1 .. n : ts[i].known
    BY <1>2
<1>4. FixedAttrs(ts) = [i \in 1 .. n |-> [attnum |-> i, attisdropped |-> FALSE, type |-> ts[i]]]
    BY <1>1 DEF FixedAttrs
<1> HIDE DEF K
<1>5. Len(FixedAttrs(ts)) = n
    BY <1>3, <1>4
<1>6. \A i \in 1 .. n : FixedAttrs(ts)[i].attnum = i /\ FixedAttrs(ts)[i].type = ts[i]
    BY <1>4
<1> QED
    BY <1>3, <1>5, <1>6 DEF SchemaFits

-----------------------------------------------------------------------------
(* The tuple that is decoded. *)

LEMMA InputFacts ==
    ASSUME InputOK
    PROVE  /\ Len(types) \in Nat
           /\ Len(stored) \in Nat
           /\ Len(schema) \in Nat
           /\ Len(projection) \in Nat
           /\ Storable(types, stored)
           /\ \A i \in 1 .. Len(types) :
                /\ types[i].len \in Nat
                /\ types[i].align \in {1, 2, 4, 8} /\ types[i].typalign \in {1, 2, 4, 8}
                /\ types[i].utf8 \in BOOLEAN /\ types[i].known \in BOOLEAN
<1>1. types \in Tables /\ types \in Seq(DOMAIN Values)
    BY TupleDecodeAssumption DEF InputOK
<1>2. Len(types) \in Nat
    BY <1>1, LenProperties
<1>3. \A i \in 1 .. Len(types) :
        /\ types[i].len \in Nat
        /\ types[i].align \in {1, 2, 4, 8} /\ types[i].typalign \in {1, 2, 4, 8}
        /\ types[i].utf8 \in BOOLEAN /\ types[i].known \in BOOLEAN
        /\ \A v \in Values[types[i]] : WellFormed(types[i], v)
    BY <1>1, TupleDecodeAssumption
<1>4. Len(stored) \in Nat /\ Len(stored) <= Len(types)
  <2>1. stored \in Seq(UNION {Values[types[i]] : i \in 1 .. Len(types)})
    BY DEF InputOK
  <2> QED
    BY <2>1, LenProperties DEF InputOK
<1>5. Len(projection) \in Nat
  <2>1. projection \in Seq(Nat)
    BY DEF InputOK
  <2> QED
    BY <2>1, LenProperties
<1>6. Len(schema) \in Nat
    BY <1>2 DEF InputOK
<1>7. Storable(types, stored)
  <2> SUFFICES ASSUME NEW i \in 1 .. Len(stored)
               PROVE  /\ types[i].len \in Nat
                      /\ types[i].typalign \in Nat /\ types[i].typalign > 0
                      /\ WellFormed(types[i], stored[i])
    BY <1>4 DEF Storable
  <2>1. i \in 1 .. Len(types)
    BY <1>2, <1>4
  <2>2. stored[i] \in Values[types[i]]
    BY DEF InputOK
  <2>3. WellFormed(types[i], stored[i])
    BY <1>3, <2>1, <2>2
  <2>4. types[i].len \in Nat /\ types[i].typalign \in {1, 2, 4, 8}
    BY <1>3, <2>1
  <2> QED
    BY <2>3, <2>4
<1> QED
    BY <1>2, <1>3, <1>4, <1>5, <1>6, <1>7

(* A column no caller may ask for is asked for by none of these. *)
LEMMA WholeSchemaFacts ==
    ASSUME Len(schema) \in Nat
    PROVE  /\ WholeSchema \in Seq(Nat)
           /\ Len(WholeSchema) = Len(schema)
           /\ \A i \in 1 .. Len(schema) : WholeSchema[i] = i - 1
<1>1. WholeSchema \in [1 .. Len(schema) -> Nat]
    BY DEF WholeSchema
<1>2. WholeSchema \in Seq(Nat)
    BY <1>1, SeqDef
<1>3. Len(WholeSchema) = Len(schema)
    BY <1>1, <1>2, LenProperties
<1> QED
    BY <1>2, <1>3 DEF WholeSchema

LEMMA InitInput ==
    ASSUME Init, ~MayDrop
    PROVE  InputOK
<1>1. types \in Tables /\ Len(types) \in Nat
    BY TupleDecodeAssumption, LenProperties DEF Init
<1>2. PICK natts \in Len(types) - MaxAdded .. Len(types) :
        /\ stored \in [1 .. natts -> UNION {Values[types[i]] : i \in 1 .. Len(types)}]
        /\ \A i \in 1 .. natts : stored[i] \in Values[types[i]]
    BY DEF Init
<1>3. natts \in Int /\ natts <= Len(types)
    BY <1>1, <1>2, TupleDecodeAssumption
<1>4. PICK n \in Nat : 1 .. n = 1 .. natts /\ n <= Len(types)
  <2>1. CASE natts >= 0
    BY <1>3, <2>1
  <2>2. CASE natts < 0
    <3>1. 1 .. 0 = 1 .. natts
        BY <1>3, <2>2
    <3> QED
        BY <1>1, <3>1
  <2> QED
    BY <1>3, <2>1, <2>2
<1>5. stored \in Seq(UNION {Values[types[i]] : i \in 1 .. Len(types)}) /\ Len(stored) = n
  <2>1. PICK V : V = UNION {Values[types[i]] : i \in 1 .. Len(types)}
    OBVIOUS
  <2>2. stored \in [1 .. n -> V]
    BY <1>2, <1>4, <2>1
  <2>3. stored \in Seq(V)
    BY <2>2, SeqDef
  <2>4. Len(stored) = n
    BY <2>2, <2>3, LenProperties
  <2> QED
    BY <2>1, <2>3, <2>4
<1>6. Len(stored) <= Len(types) /\ \A i \in 1 .. Len(stored) : stored[i] \in Values[types[i]]
    BY <1>2, <1>4, <1>5
<1>7. raw \in {RawTuple(types, stored), Torn(RawTuple(types, stored))}
    BY DEF Init
<1>8. SchemaFits(schema, types)
  <2>1. CASE TableTuple
    <3>1. PICK moved \in 1 .. Len(types) : schema = SchemaOf(AttributeRows(types, 0, moved))
        BY <2>1 DEF TableTuple
    <3> QED
        BY <1>1, <3>1, TableSchema
  <2>2. CASE CatalogTuple
    BY <1>1, <2>2, CatalogSchema DEF CatalogTuple
  <2> QED
    BY <2>1, <2>2 DEF Init
<1>9. Len(schema) \in Nat
    BY <1>1, <1>8 DEF SchemaFits
<1>10. /\ path \in {"row", "projected", "batch", "catalog"}
       /\ projection \in Seq(Nat)
       /\ path \in {"row", "catalog"} => projection = WholeSchema
  <2>1. WholeSchema \in Seq(Nat)
    BY <1>9, WholeSchemaFacts
  <2>2. Projections \subseteq Seq(Nat)
    BY TupleDecodeAssumption
  <2> QED
    BY <2>1, <2>2 DEF Init, TableTuple, CatalogTuple
<1> QED
    BY <1>1, <1>5, <1>6, <1>7, <1>8, <1>10 DEF InputOK, SchemaFits

LEMMA InitDecode ==
    ASSUME Init, ~MayDrop
    PROVE  DecodeInv
<1>1. InputOK
    BY InitInput
<1>2. status = "begin" /\ col = 0 /\ offset = 0
    BY DEF Init
<1> QED
    BY <1>1, <1>2 DEF DecodeInv, Parsed, OffsetExact, PastTheEnd, OutputSoFar, ValuesExact, FailsWithCause

-----------------------------------------------------------------------------
(* The projection. *)

(* The walk ends behind the last column that is asked for. *)
LEMMA WalkFacts ==
    ASSUME InputOK, ~OutOfRange
    PROVE  /\ WalkUpTo \in 0 .. Len(schema)
           /\ \A i \in 1 .. Len(projection) : projection[i] \in Nat /\ projection[i] < WalkUpTo
           /\ path \in {"row", "catalog"} => WalkUpTo = Len(schema)
<1> DEFINE S == {c + 1 : c \in {projection[i] : i \in 1 .. Len(projection)}} \cup {0}
<1>1. Len(projection) \in Nat /\ Len(schema) \in Nat
    BY InputFacts
<1>2. \A i \in 1 .. Len(projection) : projection[i] \in Nat /\ projection[i] < Len(schema)
  <2>1. projection \in Seq(Nat)
    BY DEF InputOK
  <2>2. \A i \in 1 .. Len(projection) : projection[i] \in Nat
    BY <2>1, ElementOfSeq
  <2> QED
    BY <1>1, <2>2 DEF OutOfRange
<1>3. \A x \in S : x \in Nat /\ x <= Len(schema)
    BY <1>1, <1>2
<1>4. WalkUpTo = Max(S) /\ 0 \in S /\ \A i \in 1 .. Len(projection) : projection[i] + 1 \in S
    BY DEF WalkUpTo
<1> HIDE DEF S
<1>5. S \in SUBSET Nat /\ S # {}
    BY <1>3, <1>4
<1>6. WalkUpTo \in S /\ \A x \in S : x <= WalkUpTo
    BY <1>1, <1>3, <1>4, <1>5, MaxFacts
<1>7. \A i \in 1 .. Len(projection) : projection[i] < WalkUpTo
    BY <1>2, <1>3, <1>4, <1>6
<1>8. ASSUME path \in {"row", "catalog"} PROVE WalkUpTo = Len(schema)
  <2>1. /\ projection = WholeSchema
        /\ Len(projection) = Len(schema)
        /\ \A i \in 1 .. Len(schema) : projection[i] = i - 1
    BY <1>1, <1>8, WholeSchemaFacts DEF InputOK
  <2>2. CASE Len(schema) = 0
    BY <1>3, <1>6, <2>2
  <2>3. CASE Len(schema) # 0
    <3>1. Len(schema) - 1 < WalkUpTo
        BY <1>1, <1>7, <2>1, <2>3
    <3> QED
        BY <1>1, <1>3, <1>6, <3>1
  <2> QED
    BY <2>2, <2>3
<1> QED
    BY <1>2, <1>3, <1>6, <1>7, <1>8

(* A column's output position is the last place that asks for it. *)
LEMMA OutputPosFacts ==
    ASSUME InputOK
    PROVE  /\ output_pos \in 0 .. Len(projection)
           /\ output_pos = 0 => \A i \in 1 .. Len(projection) : projection[i] # col
           /\ output_pos # 0 => projection[output_pos] = col /\ LastPlace(output_pos)
           /\ \A i \in 1 .. Len(projection) : projection[i] = col /\ LastPlace(i) => i = output_pos
<1> DEFINE S == {i \in 1 .. Len(projection) : projection[i] = col} \cup {0}
<1>1. Len(projection) \in Nat
    BY InputFacts
<1>2. /\ S \in SUBSET Nat /\ S # {} /\ \A x \in S : x <= Len(projection)
      /\ output_pos = Max(S)
    BY <1>1 DEF output_pos
<1>3. /\ \A x \in S : x \in 0 .. Len(projection) /\ (x # 0 => projection[x] = col)
      /\ \A i \in 1 .. Len(projection) : projection[i] = col => i \in S
    BY <1>1
<1> HIDE DEF S
<1>4. output_pos \in S /\ \A x \in S : x <= output_pos
    BY <1>1, <1>2, MaxFacts
<1>5. output_pos \in 0 .. Len(projection)
    BY <1>3, <1>4
<1>6. output_pos = 0 => \A i \in 1 .. Len(projection) : projection[i] # col
    BY <1>1, <1>3, <1>4
<1>7. output_pos # 0 => projection[output_pos] = col /\ LastPlace(output_pos)
  <2> SUFFICES ASSUME output_pos # 0 PROVE projection[output_pos] = col /\ LastPlace(output_pos)
    OBVIOUS
  <2>1. projection[output_pos] = col
    BY <1>3, <1>4
  <2>2. ASSUME NEW j \in output_pos + 1 .. Len(projection) PROVE projection[j] # projection[output_pos]
    <3>1. j \in 1 .. Len(projection) /\ ~(j <= output_pos)
        BY <1>1, <1>5
    <3> QED
        BY <1>3, <1>4, <2>1, <3>1
  <2> QED
    BY <2>1, <2>2 DEF LastPlace
<1>8. ASSUME NEW i \in 1 .. Len(projection), projection[i] = col, LastPlace(i)
      PROVE  i = output_pos
  <2>1. i <= output_pos
    BY <1>3, <1>4, <1>8
  <2>2. ASSUME i < output_pos PROVE FALSE
    <3>1. output_pos \in i + 1 .. Len(projection)
        BY <1>1, <1>5, <2>2
    <3>2. projection[output_pos] = col
        BY <1>1, <1>5, <1>7, <2>2
    <3> QED
        BY <1>8, <3>1, <3>2 DEF LastPlace
  <2> QED
    BY <1>1, <1>5, <2>1, <2>2
<1> QED
    BY <1>5, <1>6, <1>7, <1>8

(* A projection in which a column occurs twice has fewer columns than      *)
(* places.                                                                 *)
LEMMA Repeated ==
    ASSUME InputOK, NEW i \in 1 .. Len(projection), ~LastPlace(i)
    PROVE  Cardinality({projection[k] : k \in 1 .. Len(projection)}) < Len(projection)
<1> DEFINE n == Len(projection)
           T == {projection[k] : k \in 1 .. n}
<1>1. n \in Nat
    BY InputFacts
<1>2. PICK j \in i + 1 .. n : projection[j] = projection[i]
    BY DEF LastPlace
<1>3. j \in 1 .. n /\ j # i
    BY <1>1, <1>2
<1>4. IsFiniteSet(1 .. n) /\ Cardinality(1 .. n) = n
  <2>1. PICK m \in Nat : m = n
    BY <1>1
  <2>2. IsFiniteSet(1 .. m)
    BY FS_Interval
  <2>3. Cardinality(1 .. m) = m
    BY FS_Interval
  <2> QED
    BY <2>1, <2>2, <2>3
<1>5. DOMAIN projection = 1 .. n
  <2>1. projection \in Seq(Nat)
    BY DEF InputOK
  <2> QED
    BY <2>1, LenProperties
<1>6. projection \in [1 .. n -> T] /\ \A t \in T : \E k \in 1 .. n : projection[k] = t
  <2>1. projection = [k \in 1 .. n |-> projection[k]]
    <3>1. projection \in Seq(Nat)
        BY DEF InputOK
    <3>2. projection \in [1 .. n -> Nat]
        BY <3>1, LenProperties
    <3> HIDE DEF n
    <3> QED
        BY <3>2
  <2> QED
    BY <2>1
<1> HIDE DEF T
<1>7. projection \in Surjection(1 .. n, T)
    BY <1>6 DEF Surjection
<1>8. ~(projection \in Injection(1 .. n, T))
    BY <1>2, <1>3, <1>5 DEF Injection, IsInjective
<1>9. /\ IsFiniteSet(T)
      /\ Cardinality(T) <= Cardinality(1 .. n)
      /\ Cardinality(T) = Cardinality(1 .. n) <=> projection \in Injection(1 .. n, T)
    BY <1>4, <1>7, FS_Surjection
<1>10. Cardinality(T) \in Nat
    BY <1>9, FS_CardinalityType
<1>11. Cardinality(T) # n
    BY <1>4, <1>8, <1>9
<1>12. Cardinality(T) < n
    BY <1>1, <1>4, <1>9, <1>10, <1>11
<1> QED
    BY <1>12 DEF T

(* What only looks at the input stays as it is. *)
WalkEnd(places) == Max({c + 1 : c \in {places[i] : i \in 1 .. Len(places)}} \cup {0})

Asked(places) == {places[i] : i \in 1 .. Len(places)}

LEMMA SameInput ==
    ASSUME UNCHANGED inputVars
    PROVE  /\ InputOK => InputOK'
           /\ WalkUpTo' = WalkUpTo
           /\ OutOfRange' <=> OutOfRange
           /\ \A c : (Has(c) <=> Has(c)') /\ Expected(c)' = Expected(c)
           /\ \A c : (Understood(c) <=> Understood(c)') /\ StoredValue(c)' = StoredValue(c)
           /\ \A i : LastPlace(i) <=> LastPlace(i)'
<1>1. /\ types' = types /\ stored' = stored /\ raw' = raw
      /\ schema' = schema /\ path' = path /\ projection' = projection
    BY DEF inputVars
<1>2. WalkUpTo' = WalkUpTo
  <2>1. WalkUpTo = WalkEnd(projection) /\ WalkUpTo' = WalkEnd(projection')
    BY DEF WalkUpTo, WalkEnd
  <2> QED
    BY <1>1, <2>1
<1>3. OutOfRange' <=> OutOfRange
    BY <1>1 DEF OutOfRange
<1>4. \A c : StoredValue(c)' = StoredValue(c)
    BY <1>1 DEF StoredValue, Has
<1>5. \A c : Has(c) <=> Has(c)'
    BY <1>1 DEF Has
<1>6. \A c : Understood(c) <=> Understood(c)'
    BY <1>1 DEF Understood, Unaligned
<1>7. \A i : LastPlace(i) <=> LastPlace(i)'
    BY <1>1 DEF LastPlace
<1>8. ASSUME NEW c PROVE Expected(c)' = Expected(c)
  <2>1. PICK v : v = StoredValue(c)
    OBVIOUS
  <2>2. v = StoredValue(c)'
    BY <1>4, <2>1
  <2> QED
    BY <1>1, <2>1, <2>2 DEF Expected
<1>9. InputOK => InputOK'
    BY <1>1 DEF InputOK, WholeSchema
<1> QED
    BY <1>2, <1>3, <1>4, <1>5, <1>6, <1>7, <1>8, <1>9

(* So does what is expected at a place of the projection. *)
LEMMA SamePlace ==
    ASSUME UNCHANGED inputVars, NEW i
    PROVE  /\ Understood(projection[i] + 1)' <=> Understood(projection[i] + 1)
           /\ Expected(projection[i])' = Expected(projection[i])
<1>1. projection' = projection
    BY DEF inputVars
<1>2. PICK c : c = projection[i]
    OBVIOUS
<1>3. (Understood(projection[i] + 1)' <=> Understood(c + 1)') /\ Expected(projection[i])' = Expected(c)'
    BY <1>1, <1>2 DEF Understood, Unaligned, Expected, StoredValue, Has
<1>4. (Understood(c + 1)' <=> Understood(c + 1)) /\ Expected(c)' = Expected(c)
    BY SameInput
<1> QED
    BY <1>2, <1>3, <1>4

(* And what is understood of the columns that were walked. *)
LEMMA SameUnderstood ==
    ASSUME UNCHANGED inputVars, NEW n, col' = n
    PROVE  Understood(col)' <=> Understood(n)
<1>1. Understood(col)' <=> Understood(n)'
    BY DEF Understood, Unaligned
<1> QED
    BY <1>1, SameInput

-----------------------------------------------------------------------------
(* The steps of a walk keep its invariant. *)

(* A tuple that was written is parsed; one that was not is refused. *)
LEMMA Parse ==
    ASSUME InputOK
    PROVE  \/ /\ raw.t_hoff = 0
              /\ parse_and_build(raw).st = "error"
           \/ parse_and_build(raw) =
                [st |-> "ok", bitmap |-> Bitmap(stored), data |-> Formed(types, stored)]
<1>1. CASE raw = RawTuple(types, stored)
    BY <1>1, InputFacts, ParseRaw
<1>2. CASE raw = Torn(RawTuple(types, stored))
  <2>1. raw.t_hoff = 0
    BY <1>2 DEF Torn
  <2> QED
    BY <1>2, <2>1, ParseTorn
<1> QED
    BY <1>1, <1>2 DEF InputOK

(* At its first column a walk has read nothing. *)
LEMMA Begun ==
    ASSUME InputOK, UNCHANGED inputVars, col' = 0, offset' = 0,
           status' = "walk" => /\ parse_and_build(raw).st = "ok"
                               /\ data' = parse_and_build(raw).data
                               /\ null_bitmap' = parse_and_build(raw).bitmap
                               /\ ~OutOfRange,
           out' = [i \in 1 .. (IF path \in {"row", "catalog"} THEN 0 ELSE Len(projection)) |-> out'[i]],
           path # "batch" => \A i \in DOMAIN out' : out'[i] # NoValue,
           path = "projected" => \A i \in 1 .. Len(projection) : out'[i] = Null,
           status' \in {"walk", "ok", "skipped", "error", "panic"},
           ValuesExact', FailsWithCause'
    PROVE  DecodeInv'
<1>1. InputOK'
    BY SameInput
<1>2. /\ types' = types /\ stored' = stored /\ raw' = raw
      /\ schema' = schema /\ path' = path /\ projection' = projection
    BY DEF inputVars
<1>3. Parsed'
  <2> SUFFICES ASSUME status' = "walk"
               PROVE  /\ data' = Formed(types, stored)
                      /\ null_bitmap' = Bitmap(stored)
                      /\ ~OutOfRange'
                      /\ col' \in 0 .. WalkUpTo'
    BY <1>2 DEF Parsed
  <2>1. parse_and_build(raw) = [st |-> "ok", bitmap |-> Bitmap(stored), data |-> Formed(types, stored)]
    BY Parse
  <2>2. WalkUpTo \in Nat
    BY InputFacts, WalkFacts
  <2> QED
    BY <2>1, <2>2, SameInput
<1>4. OffsetExact'
    BY <1>2, InputFacts, FormedFacts DEF OffsetExact
<1>5. PastTheEnd'
  <2>1. ~(0 > Len(stored))
    BY InputFacts
  <2> QED
    BY <1>2, <2>1 DEF PastTheEnd
<1>6. OutputSoFar'
  <2> SUFFICES ASSUME status' = "walk" PROVE OutputSoFar'
    BY DEF OutputSoFar
  <2>1. \A i \in 1 .. Len(projection) : ~(projection[i] < col')
    <3>1. projection \in Seq(Nat)
        BY DEF InputOK
    <3>2. \A i \in 1 .. Len(projection) : projection[i] \in Nat
        BY <3>1, ElementOfSeq
    <3> QED
        BY <3>2
  <2>2. out' = [i \in 1 .. (IF path' \in {"row", "catalog"} THEN col' ELSE Len(projection')) |-> out'[i]]
    BY <1>2
  <2>3. \A i \in 1 .. Len(projection') :
           LastPlace(i)' =>
             IF projection'[i] < col'
               THEN /\ out'[i] # NoValue
                    /\ Understood(projection[i] + 1)' => out'[i] = Expected(projection[i])'
               ELSE path' = "projected" => out'[i] = Null
    BY <1>2, <2>1
  <2> QED
    BY <1>2, <2>2, <2>3 DEF OutputSoFar
<1> QED
    BY <1>1, <1>3, <1>4, <1>5, <1>6 DEF DecodeInv

LEMMA NullIsAValue == Null # NoValue
    BY DEF Null, NoValue

LEMMA BeginRowKeepsInv ==
    ASSUME DecodeInv, BeginRow
    PROVE  DecodeInv'
<1>1. /\ InputOK /\ UNCHANGED inputVars
      /\ col' = 0 /\ offset' = 0
      /\ path # "batch"
    BY DEF DecodeInv, BeginRow
<1>2. path \in {"row", "projected", "catalog"} /\ Len(projection) \in Nat
    BY <1>1, InputFacts DEF InputOK
<1>3. PICK tuple : tuple = parse_and_build(raw)
    OBVIOUS
<1>4. /\ null_bitmap' = tuple.bitmap
      /\ data' = tuple.data
      /\ status' = IF tuple.st # "ok" THEN "error"
                   ELSE IF path # "projected" THEN "walk"
                   ELSE IF projection = <<>> THEN "ok"
                   ELSE IF OutOfRange THEN "error" ELSE "walk"
      /\ out' = IF path = "projected" THEN [i \in 1 .. Len(projection) |-> Null] ELSE <<>>
    BY <1>3 DEF BeginRow
<1>5. path # "projected" => ~OutOfRange
  <2> SUFFICES ASSUME path # "projected" PROVE ~OutOfRange
    OBVIOUS
  <2>1. Len(schema) \in Nat /\ projection = WholeSchema
    BY <1>1, <1>2, InputFacts DEF InputOK
  <2>2. Len(projection) = Len(schema) /\ \A i \in 1 .. Len(schema) : projection[i] = i - 1
    BY <2>1, WholeSchemaFacts
  <2> QED
    BY <2>1, <2>2 DEF OutOfRange
<1>6. status' = "walk" => tuple.st = "ok" /\ ~OutOfRange
    BY <1>4, <1>5
<1>7. path = "projected" =>
        DOMAIN out' = 1 .. Len(projection) /\ \A i \in 1 .. Len(projection) : out'[i] = Null
    BY <1>4
<1>8. path # "projected" => DOMAIN out' = 1 .. 0
    BY <1>4
<1>9. \A i \in DOMAIN out' : out'[i] # NoValue
    BY <1>7, <1>8, NullIsAValue
<1>10. ValuesExact'
  <2> SUFFICES ASSUME status' = "ok" PROVE ValuesExact'
    BY DEF ValuesExact
  <2>1. path = "projected" /\ projection = <<>> /\ projection' = projection
    BY <1>1, <1>4 DEF inputVars
  <2>2. Len(projection') = 0 /\ Len(out') = 0
    BY <1>4, <2>1
  <2> QED
    BY <2>2 DEF ValuesExact
<1>11. FailsWithCause'
  <2> SUFFICES ASSUME status' \in {"skipped", "error", "panic"} PROVE raw'.t_hoff = 0 \/ OutOfRange'
    BY DEF FailsWithCause
  <2>1. CASE tuple.st # "ok"
    <3>1. raw.t_hoff = 0 /\ raw' = raw
        BY <1>1, <1>3, <2>1, Parse DEF inputVars
    <3> QED
        BY <3>1
  <2>2. CASE tuple.st = "ok"
    BY <1>1, <1>4, <2>2, SameInput
  <2> QED
    BY <2>1, <2>2
<1>12. status' \in {"walk", "ok", "skipped", "error", "panic"}
    BY <1>4
<1>13. out' = [i \in 1 .. (IF path \in {"row", "catalog"} THEN 0 ELSE Len(projection)) |-> out'[i]]
  <2>1. CASE path = "projected"
    BY <1>4, <2>1
  <2>2. CASE path # "projected"
    <3>1. out' = <<>> /\ path \in {"row", "catalog"}
        BY <1>2, <1>4, <2>2
    <3>2. \A f : <<>> = [i \in 1 .. 0 |-> f[i]]
        OBVIOUS
    <3> QED
        BY <3>1, <3>2
  <2> QED
    BY <2>1, <2>2
<1> QED
    BY <1>1, <1>3, <1>4, <1>6, <1>7, <1>9, <1>10, <1>11, <1>12, <1>13, Begun

LEMMA BeginBatchKeepsInv ==
    ASSUME DecodeInv, BeginBatch
    PROVE  DecodeInv'
<1>1. /\ InputOK /\ UNCHANGED inputVars
      /\ col' = 0 /\ offset' = 0
      /\ path = "batch"
    BY DEF DecodeInv, BeginBatch
<1>2. Len(projection) \in Nat
    BY <1>1, InputFacts
<1>3. PICK tuple : tuple = parse_and_build(raw)
    OBVIOUS
<1>4. /\ null_bitmap' = tuple.bitmap
      /\ data' = tuple.data
      /\ status' = IF projection = <<>> THEN "ok"
                   ELSE IF OutOfRange THEN "panic"
                   ELSE IF tuple.st # "ok" THEN "skipped" ELSE "walk"
      /\ out' = [i \in 1 .. Len(projection) |-> NoValue]
    BY <1>3 DEF BeginBatch
<1>5. status' = "walk" => tuple.st = "ok" /\ ~OutOfRange
    BY <1>4
<1>6. out' = [i \in 1 .. Len(projection) |-> out'[i]]
    BY <1>4
<1>7. ValuesExact'
  <2> SUFFICES ASSUME status' = "ok" PROVE ValuesExact'
    BY DEF ValuesExact
  <2>1. projection = <<>> /\ projection' = projection
    BY <1>1, <1>4 DEF inputVars
  <2>2. Len(projection') = 0 /\ Len(out') = 0
    BY <1>4, <2>1
  <2> QED
    BY <2>2 DEF ValuesExact
<1>8. FailsWithCause'
  <2> SUFFICES ASSUME status' \in {"skipped", "error", "panic"} PROVE raw'.t_hoff = 0 \/ OutOfRange'
    BY DEF FailsWithCause
  <2>1. CASE OutOfRange
    BY <1>1, <2>1, SameInput
  <2>2. CASE ~OutOfRange
    <3>1. tuple.st # "ok"
        BY <1>4, <2>2
    <3>2. raw.t_hoff = 0 /\ raw' = raw
        BY <1>1, <1>3, <3>1, Parse DEF inputVars
    <3> QED
        BY <3>2
  <2> QED
    BY <2>1, <2>2
<1>9. status' \in {"walk", "ok", "skipped", "error", "panic"}
    BY <1>4
<1> QED
    BY <1>1, <1>3, <1>4, <1>5, <1>6, <1>7, <1>8, <1>9, Begun

-----------------------------------------------------------------------------
(* What a reader finds in the bytes of a value. *)

LEMMA PayloadFacts ==
    ASSUME NEW type, NEW v, WellFormed(type, v), type.len \in Nat
    PROVE  v.payload \in Seq(Bytes) /\ Len(v.payload) \in Nat
<1>1. v.payload \in Seq(0 .. 255)
    BY FormsFacts
<1>2. 0 .. 255 \subseteq Bytes
    BY DEF Bytes
<1> QED
    BY <1>1, <1>2, SeqMonotonic, LenProperties, ZenonT(60)

LEMMA ShortBytes ==
    ASSUME NEW type, NEW v, WellFormed(type, v), type.len \in Nat, v.form = "short"
    PROVE  /\ SizeOnDisk(v) = 1 + Len(v.payload)
           /\ OnDisk(v)[1] = 2 * (1 + Len(v.payload)) + 1
           /\ \A j \in 1 .. Len(v.payload) : OnDisk(v)[1 + j] = v.payload[j]
<1>1. v.payload \in Seq(Bytes) /\ Len(v.payload) \in Nat
    BY PayloadFacts
<1>2. PICK h : h = <<2 * (1 + Len(v.payload)) + 1>>
    OBVIOUS
<1>3. h \in Seq(Bytes) /\ Len(h) = 1 /\ h[1] = 2 * (1 + Len(v.payload)) + 1
    BY <1>1, <1>2 DEF Bytes
<1>4. OnDisk(v) = h \o v.payload
    BY <1>2 DEF OnDisk
<1>5. /\ \A i \in 1 .. Len(h) : (h \o v.payload)[i] = h[i]
      /\ \A i \in 1 .. Len(v.payload) : (h \o v.payload)[Len(h) + i] = v.payload[i]
    BY <1>1, <1>3, ByteConcat
<1>6. SizeOnDisk(v) = 1 + Len(v.payload)
    BY DEF SizeOnDisk
<1>7. OnDisk(v)[1] = 2 * (1 + Len(v.payload)) + 1
  <2>1. 1 \in 1 .. Len(h)
    BY <1>3
  <2> QED
    BY <1>3, <1>4, <1>5, <2>1
<1>8. \A j \in 1 .. Len(v.payload) : OnDisk(v)[1 + j] = v.payload[j]
    BY <1>3, <1>4, <1>5, Zenon
<1> QED
    BY <1>6, <1>7, <1>8

LEMMA WordBytes ==
    ASSUME NEW type, NEW v, WellFormed(type, v), type.len \in Nat, v.form \in {"plain", "compressed"}
    PROVE  /\ SizeOnDisk(v) = 4 + Len(v.payload)
           /\ StandFor(OnDisk(v), 4 + Len(v.payload))
           /\ \A j \in 1 .. Len(v.payload) : OnDisk(v)[4 + j] = v.payload[j]
<1>1. PICK p \in Seq(Bytes) : p = v.payload
    BY PayloadFacts
<1>2. Len(p) \in Nat
    BY LenProperties
<1>3. PICK k \in {0, 2} : k = IF v.form = "plain" THEN 0 ELSE 2
    OBVIOUS
<1>4. PICK m \in Nat : m = 4 * (4 + Len(p)) + k
    BY <1>2
<1>5. OnDisk(v) = Word(m) \o p
  <2>1. CASE v.form = "plain"
    <3>1. m = 4 * (4 + Len(p))
        BY <1>2, <1>3, <1>4, <2>1
    <3> QED
        BY <1>1, <2>1, <3>1 DEF OnDisk
  <2>2. CASE v.form = "compressed"
    <3>1. m = 4 * (4 + Len(p)) + 2
        BY <1>2, <1>3, <1>4, <2>2
    <3> QED
        BY <1>1, <2>2, <3>1 DEF OnDisk
  <2> QED
    BY <2>1, <2>2
<1>6. SizeOnDisk(v) = 4 + Len(v.payload)
    BY DEF SizeOnDisk
<1>7. /\ StandFor(Word(m) \o p, 4 + Len(p))
      /\ \A i \in 1 .. Len(p) : (Word(m) \o p)[4 + i] = p[i]
    BY <1>4, WordConcat
<1> QED
    BY <1>1, <1>5, <1>6, <1>7

LEMMA PointerBytes ==
    ASSUME NEW type, NEW v, WellFormed(type, v), type.len \in Nat, v.form = "external"
    PROVE  /\ SizeOnDisk(v) = 18
           /\ OnDisk(v)[1] = 1 /\ OnDisk(v)[2] = 18
           /\ v.payload = <<>>
<1>1. PICK h : h = <<1, 18>>
    OBVIOUS
<1>2. PICK t : t = [i \in 1 .. 16 |-> 200]
    OBVIOUS
<1>3. h \in Seq(Bytes) /\ Len(h) = 2 /\ h[1] = 1 /\ h[2] = 18
    BY <1>1 DEF Bytes
<1>4. t \in Seq(Bytes)
  <2>1. t \in [1 .. 16 -> Bytes]
    BY <1>2 DEF Bytes
  <2> QED
    BY <2>1, SeqDef
<1>5. OnDisk(v) = h \o t
    BY <1>1, <1>2 DEF OnDisk
<1>6. \A i \in 1 .. Len(h) : (h \o t)[i] = h[i]
    BY <1>3, <1>4, ByteConcat
<1>7. SizeOnDisk(v) = 18
    BY DEF SizeOnDisk
<1>8. v.payload = <<>>
    BY FormsFacts
<1>9. 1 \in 1 .. Len(h) /\ 2 \in 1 .. Len(h)
    BY <1>3
<1> QED
    BY <1>3, <1>5, <1>6, <1>7, <1>8, <1>9

(* read_varlena_header finds the payload behind the header. *)
LEMMA ReadHeader ==
    ASSUME NEW type, NEW v, WellFormed(type, v), type.len = 0, v # Null,
           data \in Seq(Bytes), NEW start, Holds(data, start, v)
    PROVE  /\ start < Len(data)
           /\ read_varlena_header(start) =
                Got(start + (SizeOnDisk(v) - Len(v.payload)), Len(v.payload))
           /\ SizeOnDisk(v) - Len(v.payload) \in Nat
           /\ \A j \in 1 .. Len(v.payload) :
                OnDisk(v)[SizeOnDisk(v) - Len(v.payload) + j] = v.payload[j]
           /\ v.form \in {"short", "external"} => Byte(start) # 0
<1>1. /\ v.payload \in Seq(Bytes) /\ Len(v.payload) \in Nat
      /\ v.form \in {"short", "plain", "compressed", "external"}
  <2>1. type.len \in Nat /\ ~(type.len > 0)
    OBVIOUS
  <2> QED
    BY <2>1, PayloadFacts, FormsFacts
<1>2. /\ start \in Nat /\ Len(data) \in Nat
      /\ start + SizeOnDisk(v) <= Len(data)
      /\ \A k \in 1 .. SizeOnDisk(v) : data[start + k] = OnDisk(v)[k]
    BY LenProperties DEF Holds
<1>3. PICK len : len = Len(v.payload)
    OBVIOUS
<1>4. PICK d : d = OnDisk(v)
    OBVIOUS
<1>5. CASE v.form = "short"
  <2>1. /\ SizeOnDisk(v) = 1 + len
        /\ d[1] = 2 * (1 + len) + 1
        /\ \A j \in 1 .. len : d[1 + j] = v.payload[j]
    BY <1>3, <1>4, <1>5, ShortBytes
  <2>2. len \in Nat /\ 1 \in 1 .. SizeOnDisk(v) /\ start < Len(data)
    BY <1>1, <1>2, <1>3, <2>1
  <2>3. Byte(start) = 2 * (1 + len) + 1
    BY <1>2, <1>4, <2>1, <2>2 DEF Byte
  <2>4. Byte(start) # 1 /\ Byte(start) # 0 /\ Byte(start) % 2 = 1 /\ Byte(start) \div 2 - 1 = len
    <3>1. PICK b \in Nat : b = 2 * (1 + len) + 1
        BY <2>2
    <3>2. 1 + len \in Nat /\ 1 \in 0 .. 2 - 1 /\ b = 2 * (1 + len) + 1
        BY <2>2, <3>1
    <3>3. b \div 2 = 1 + len /\ b % 2 = 1
        BY <3>2, DivUnique
    <3>4. Byte(start) = b
        BY <2>3, <3>1
    <3> QED
        BY <2>2, <3>1, <3>3, <3>4
  <2>5. Max({0, Byte(start) \div 2 - 1}) = len
    BY <2>2, <2>4, MaxOfTwo
  <2>6. read_varlena_header(start) = Got(start + 1, len)
    BY <1>2, <2>2, <2>4, <2>5 DEF read_varlena_header
  <2>7. SizeOnDisk(v) - len = 1
    BY <2>1, <2>2
  <2> QED
    BY <1>3, <1>4, <2>1, <2>2, <2>4, <2>6, <2>7
<1>6. CASE v.form = "external"
  <2>1. SizeOnDisk(v) = 18 /\ d[1] = 1 /\ d[2] = 18 /\ len = 0
    <3>1. v.payload = <<>>
        BY <1>6, PointerBytes
    <3>2. len = 0
        BY <1>3, <3>1
    <3> QED
        BY <1>4, <1>6, <3>2, PointerBytes
  <2>2. Byte(start) = 1 /\ Byte(start + 1) = 18
    <3>1. 1 \in 1 .. SizeOnDisk(v) /\ 2 \in 1 .. SizeOnDisk(v) /\ (start + 1) + 1 = start + 2
        BY <1>2, <2>1
    <3>2. Byte(start) = data[start + 1] /\ Byte(start + 1) = data[start + 2]
        BY <3>1 DEF Byte
    <3>3. data[start + 1] = d[1] /\ data[start + 2] = d[2]
        BY <1>2, <1>4, <3>1
    <3> QED
        BY <2>1, <3>2, <3>3
  <2>3. start < Len(data) /\ start + 1 < Len(data)
    <3>1. start \in Nat /\ Len(data) \in Nat /\ start + 18 <= Len(data)
        BY <1>2, <2>1
    <3> QED
        BY <3>1
  <2>4. read_varlena_header(start) = Got(start + 18, 0)
    BY <1>2, <2>2, <2>3 DEF read_varlena_header
  <2> QED
    BY <1>3, <2>1, <2>2, <2>3, <2>4
<1>7. CASE v.form \in {"plain", "compressed"}
  <2>1. /\ SizeOnDisk(v) = 4 + len
        /\ StandFor(d, 4 + len)
        /\ \A j \in 1 .. len : d[4 + j] = v.payload[j]
    BY <1>3, <1>4, <1>7, WordBytes
  <2>2. len \in Nat /\ start < Len(data) /\ ~(Len(data) < start + 4) /\ ~(start >= Len(data))
    BY <1>1, <1>2, <1>3, <2>1
  <2>3. Byte(start) = d[1] /\ Byte(start + 1) = d[2] /\ Byte(start + 2) = d[3] /\ Byte(start + 3) = d[4]
    <3>1. {1, 2, 3, 4} \subseteq 1 .. SizeOnDisk(v)
        BY <2>1, <2>2
    <3>2. (start + 1) + 1 = start + 2 /\ (start + 2) + 1 = start + 3 /\ (start + 3) + 1 = start + 4
        BY <1>2
    <3> QED
        BY <1>2, <1>4, <3>1, <3>2 DEF Byte
  <2>4. Byte(start) % 2 = 0 /\ Byte(start) # 1
    BY <2>1, <2>3, SMTT(30) DEF StandFor
  <2>5. Byte(start) \div 4 + 64 * (Byte(start + 1) + 256 * (Byte(start + 2) + 256 * Byte(start + 3)))
          = 4 + len
    BY <2>1, <2>3, SMTT(30) DEF StandFor
  <2>6. Max({0, (4 + len) - 4}) = len
    <3>1. (4 + len) - 4 = len
        BY <2>2
    <3> QED
        BY <2>2, <3>1, MaxOfTwo
  <2>7. ~(Byte(start) % 2 = 1)
    BY <2>4
  <2>8. read_varlena_header(start) = Got(start + 4, len)
    BY <2>2, <2>4, <2>5, <2>6, <2>7, ZenonT(60) DEF read_varlena_header
  <2>9. SizeOnDisk(v) - len = 4
    BY <2>1, <2>2
  <2> QED
    BY <1>3, <1>4, <1>7, <2>1, <2>2, <2>8, <2>9
<1> QED
    BY <1>1, <1>5, <1>6, <1>7

LEMMA SliceOf ==
    ASSUME data \in Seq(Bytes), NEW p \in Seq(Bytes), NEW off \in Nat, NEW len,
           len = Len(p), off + len <= Len(data),
           \A j \in 1 .. len : data[off + j] = p[j]
    PROVE  Slice(off, len) = p
<1>1. len \in Nat /\ Len(data) \in Nat
    BY LenProperties
<1>2. PICK m \in Int : m = off + 1
    OBVIOUS
<1>3. PICK n \in Int : n = off + len
    BY <1>1
<1>4. \A i \in m .. n : data[i] \in Bytes
  <2> SUFFICES ASSUME NEW i \in m .. n PROVE data[i] \in Bytes
    OBVIOUS
  <2>1. i \in 1 .. Len(data)
    BY <1>1, <1>2, <1>3
  <2> QED
    BY <2>1, ElementOfSeq
<1>5. /\ SubSeq(data, m, n) \in Seq(Bytes)
      /\ Len(SubSeq(data, m, n)) = IF m <= n THEN n - m + 1 ELSE 0
      /\ \A i \in 1 .. n - m + 1 : SubSeq(data, m, n)[i] = data[m + i - 1]
    BY <1>4, SubSeqProperties
<1>6. Len(SubSeq(data, m, n)) = len /\ n - m + 1 = len
    BY <1>1, <1>2, <1>3, <1>5
<1>7. \A i \in 1 .. len : SubSeq(data, m, n)[i] = p[i]
  <2> SUFFICES ASSUME NEW i \in 1 .. len PROVE SubSeq(data, m, n)[i] = p[i]
    OBVIOUS
  <2>1. i \in 1 .. n - m + 1 /\ m + i - 1 = off + i
    BY <1>1, <1>2, <1>6
  <2> QED
    BY <1>5, <2>1
<1>8. SubSeq(data, m, n) = p
    BY <1>5, <1>6, <1>7, SeqEqual
<1> QED
    BY <1>2, <1>3, <1>8 DEF Slice

(* Reading or skipping a varlena gives its payload and its whole size. *)
LEMMA ReadVarlena ==
    ASSUME NEW type, NEW v, WellFormed(type, v), type.len = 0, v # Null,
           data \in Seq(Bytes), NEW start, Holds(data, start, v)
    PROVE  /\ VarlenaBytes(start) = Got(v.payload, SizeOnDisk(v))
           /\ skip_datum(type, start) = Got(<<>>, SizeOnDisk(v))
<1>1. type.len \in Nat
    OBVIOUS
<1>2. v.payload \in Seq(Bytes) /\ Len(v.payload) \in Nat
    BY <1>1, PayloadFacts
<1>3. SizeOnDisk(v) \in Nat
    BY <1>1, OnDiskFacts, LenProperties
<1>4. PICK len \in Nat : len = Len(v.payload)
    BY <1>2
<1>5. PICK head \in Nat : head = SizeOnDisk(v) - len
    BY <1>4, ReadHeader
<1>6. /\ read_varlena_header(start) = Got(start + head, len)
      /\ \A j \in 1 .. len : OnDisk(v)[head + j] = v.payload[j]
    BY <1>4, <1>5, ReadHeader
<1>7. /\ start \in Nat /\ Len(data) \in Nat
      /\ start + SizeOnDisk(v) <= Len(data)
      /\ \A k \in 1 .. SizeOnDisk(v) : data[start + k] = OnDisk(v)[k]
    BY LenProperties DEF Holds
<1>8. SizeOnDisk(v) = head + len
    BY <1>3, <1>5
<1>9. PICK off \in Nat : off = start + head
    BY <1>7
<1>10. off + len <= Len(data) /\ off + len - start = SizeOnDisk(v)
    BY <1>7, <1>8, <1>9
<1>11. ASSUME NEW j \in 1 .. len PROVE data[off + j] = v.payload[j]
  <2>1. head + j \in 1 .. SizeOnDisk(v) /\ start + (head + j) = off + j
    BY <1>7, <1>8, <1>9
  <2> QED
    BY <1>6, <1>7, <2>1
<1>12. Slice(off, len) = v.payload
    BY <1>2, <1>4, <1>10, <1>11, SliceOf
<1>13. PICK h : h = read_varlena_header(start)
    OBVIOUS
<1>14. h.st = "ok" /\ h.value = off /\ h.size = len
    BY <1>6, <1>9, <1>13 DEF Got
<1>15. VarlenaBytes(start) = Got(v.payload, SizeOnDisk(v))
  <2>1. ~(h.st # "ok" \/ h.value + h.size > Len(data))
    BY <1>7, <1>10, <1>14
  <2>2. VarlenaBytes(start) = Got(Slice(h.value, h.size), h.value + h.size - start)
    BY <1>13, <2>1 DEF VarlenaBytes
  <2> QED
    BY <1>10, <1>12, <1>14, <2>2
<1>16. skip_datum(type, start) = Got(<<>>, SizeOnDisk(v))
    BY <1>10, <1>13, <1>14 DEF skip_datum, Varlena
<1> QED
    BY <1>15, <1>16

LEMMA ReadFixed ==
    ASSUME NEW type, NEW v, WellFormed(type, v), type.len \in Nat, type.len > 0, v # Null,
           data \in Seq(Bytes), NEW start, Holds(data, start, v)
    PROVE  /\ v.form = "fixed" /\ SizeOnDisk(v) = type.len
           /\ start + type.len <= Len(data)
           /\ Slice(start, type.len) = v.payload
           /\ skip_datum(type, start) = Got(<<>>, SizeOnDisk(v))
<1>1. v.form = "fixed" /\ Len(v.payload) = type.len /\ v.payload \in Seq(Bytes)
    BY PayloadFacts, FormsFacts
<1>2. SizeOnDisk(v) = type.len /\ OnDisk(v) = v.payload
    BY <1>1 DEF SizeOnDisk, OnDisk
<1>3. /\ start \in Nat
      /\ start + type.len <= Len(data)
      /\ \A k \in 1 .. type.len : data[start + k] = v.payload[k]
    BY <1>2 DEF Holds
<1>4. Slice(start, type.len) = v.payload
    BY <1>1, <1>3, SliceOf
<1>5. skip_datum(type, start) = Got(<<>>, SizeOnDisk(v))
    BY <1>2 DEF skip_datum, Varlena
<1> QED
    BY <1>1, <1>2, <1>3, <1>4, <1>5

(* What stands before the padding of a name. *)
LEMMA NameBytes ==
    ASSUME NEW p \in Seq(Bytes), NEW n \in 0 .. Len(p),
           \A i \in 1 .. Len(p) : p[i] # 0 <=> i <= n
    PROVE  /\ until_nul(p) = [i \in 1 .. Cardinality({j \in 1 .. Len(p) : p[j] # 0}) |-> p[i]]
           /\ ValidUtf8(until_nul(p)) <=> ValidUtf8(p)
<1>0. Len(p) \in Nat /\ n \in Nat
    BY LenProperties
<1> DEFINE Ends(k) == /\ k = Len(p) \/ p[k + 1] = 0
                      /\ \A i \in 1 .. k : p[i] # 0
<1>1. Ends(n)
  <2>1. ASSUME n # Len(p) PROVE p[n + 1] = 0
    <3>1. n + 1 \in 1 .. Len(p) /\ ~(n + 1 <= n)
        BY <1>0, <2>1
    <3> QED
        BY <3>1
  <2>2. \A i \in 1 .. n : p[i] # 0
    BY <1>0
  <2> QED
    BY <2>1, <2>2
<1>2. ASSUME NEW k \in 0 .. Len(p), Ends(k) PROVE k = n
  <2>1. k <= n
    <3>1. CASE k = 0
        BY <1>0, <3>1
    <3>2. CASE k # 0
        BY <1>0, <1>2, <3>2
    <3> QED
        BY <3>1, <3>2
  <2>2. ~(k < n)
    <3> SUFFICES ASSUME k < n PROVE FALSE
        OBVIOUS
    <3>1. k + 1 \in 1 .. Len(p) /\ k + 1 <= n /\ k # Len(p)
        BY <1>0
    <3> QED
        BY <1>2, <3>1
  <2> QED
    BY <1>0, <2>1, <2>2
<1>3. until_nul(p) = SubSeq(p, 1, CHOOSE k \in 0 .. Len(p) : Ends(k))
    BY DEF until_nul
<1> HIDE DEF Ends
<1>4. (CHOOSE k \in 0 .. Len(p) : Ends(k)) = n
    BY <1>1, <1>2
<1>5. until_nul(p) = SubSeq(p, 1, n)
    BY <1>3, <1>4
<1>6. SubSeq(p, 1, n) = [i \in 1 .. n |-> p[i]]
    BY <1>0
<1>7. Cardinality({j \in 1 .. Len(p) : p[j] # 0}) = n
  <2>1. {j \in 1 .. Len(p) : p[j] # 0} = 1 .. n
    BY <1>0
  <2>2. Cardinality(1 .. n) = n
    BY <1>0, FS_Interval
  <2> QED
    BY <2>1, <2>2
<1>8. ValidUtf8(until_nul(p)) <=> ValidUtf8(p)
  <2>1. PICK u : u = until_nul(p)
    OBVIOUS
  <2>2. Len(u) = n /\ \A i \in 1 .. n : u[i] = p[i]
    BY <1>0, <1>5, <1>6, <2>1
  <2>3. \A i \in 1 .. Len(p) : i <= n \/ p[i] = 0
    BY <1>0
  <2>4. ValidUtf8(u) <=> \A i \in 1 .. n : p[i] < 128
    BY <2>2 DEF ValidUtf8
  <2>5. ValidUtf8(p) <=> \A i \in 1 .. n : p[i] < 128
    BY <1>0, <2>3 DEF ValidUtf8
  <2> QED
    BY <2>1, <2>4, <2>5
<1> QED
    BY <1>5, <1>6, <1>7, <1>8

-----------------------------------------------------------------------------
(* What the paths make of a value. *)

(* A record batch's builders are given the bytes of a column. *)
BatchDatum(type, at) ==
    append_bytes(type, IF Varlena(type) THEN extract_column_bytes(type, at)
                       ELSE extract_fixed_bytes(at, type.len))

(* A result is the value that was stored, and how much room it takes. *)
Good(r, c, v) ==
    /\ r.st = "ok"
    /\ r.size = SizeOnDisk(v)
    /\ Datum(r.value) = Expected(c)

LEMMA ExpectedFacts ==
    ASSUME NEW c, NEW type, NEW v, v = StoredValue(c), type = schema[c + 1].type,
           WellFormed(type, v), type.len \in Nat, type.utf8 \in BOOLEAN, v # Null
    PROVE  /\ v.form = "fixed" /\ type.utf8 =>
                /\ Expected(c) = Datum(IF ValidUtf8(until_nul(v.payload)) THEN until_nul(v.payload) ELSE <<>>)
                /\ ValidUtf8(until_nul(v.payload)) <=> ValidUtf8(v.payload)
           /\ v.form = "fixed" /\ ~type.utf8 => Expected(c) = Datum(v.payload)
           /\ v.form # "fixed" /\ ~(path = "batch" /\ type.utf8) => Expected(c) = Datum(v.payload)
           /\ v.form # "fixed" /\ path = "batch" /\ type.utf8 => Expected(c) = Datum(from_utf8_lossy(v.payload))
<1>1. v.payload \in Seq(Bytes) /\ Len(v.payload) \in Nat
    BY PayloadFacts
<1>2. PICK name : name = [i \in 1 .. Cardinality({j \in 1 .. Len(v.payload) : v.payload[j] # 0}) |-> v.payload[i]]
    OBVIOUS
<1>3. Expected(c) = Datum(CASE v.form = "external" -> <<>>
                            [] v.form = "fixed" /\ type.utf8 -> IF ValidUtf8(name) THEN name ELSE <<>>
                            [] path = "batch" /\ type.utf8 /\ v.form \notin {"external", "fixed"} ->
                                 from_utf8_lossy(v.payload)
                            [] OTHER -> v.payload)
    BY <1>2, Zenon DEF Expected
<1>4. v.form = "external" => v.payload = <<>> /\ from_utf8_lossy(v.payload) = <<>>
  <2>1. ASSUME v.payload = <<>> PROVE from_utf8_lossy(v.payload) = <<>>
    <3>1. Len(v.payload) = 0
        BY <2>1
    <3>2. from_utf8_lossy(v.payload) = [i \in 1 .. 0 |-> IF v.payload[i] < 128 THEN v.payload[i] ELSE Replacement]
        BY <3>1 DEF from_utf8_lossy
    <3> QED
        BY <3>2
  <2> QED
    BY <2>1, FormsFacts
<1>5. ASSUME v.form = "fixed", type.utf8
      PROVE  /\ name = until_nul(v.payload)
             /\ ValidUtf8(until_nul(v.payload)) <=> ValidUtf8(v.payload)
  <2>1. PICK n \in 0 .. type.len : \A i \in 1 .. type.len : v.payload[i] # 0 <=> i <= n
    <3>1. v.form # "short" /\ v.form # "plain" /\ v.form # "compressed" /\ v.form # "external"
        BY <1>5
    <3> QED
        BY <1>5, <3>1 DEF WellFormed
  <2>2. Len(v.payload) = type.len
    BY <1>5, FormsFacts
  <2> QED
    BY <1>1, <1>2, <2>1, <2>2, NameBytes
<1>6. CASE v.form = "external"
    BY <1>3, <1>4, <1>6
<1>7. CASE v.form = "fixed" /\ type.utf8
    BY <1>3, <1>5, <1>7
<1>8. CASE v.form = "fixed" /\ ~type.utf8
    BY <1>3, <1>8
<1>9. CASE v.form # "external" /\ v.form # "fixed" /\ path = "batch" /\ type.utf8
    BY <1>3, <1>9
<1>10. CASE v.form # "external" /\ v.form # "fixed" /\ ~(path = "batch" /\ type.utf8)
    BY <1>3, <1>10
<1> QED
    BY <1>6, <1>7, <1>8, <1>9, <1>10

(* Reading a value on the row paths gives it, unless it is not UTF-8. *)
LEMMA DecodeValue ==
    ASSUME NEW c, NEW type, NEW v, v = StoredValue(c), type = schema[c + 1].type,
           WellFormed(type, v), type.len \in Nat, type.utf8 \in BOOLEAN, v # Null,
           path # "batch", data \in Seq(Bytes), NEW start, Holds(data, start, v)
    PROVE  \/ Good(decode_datum(type, start), c, v)
           \/ /\ decode_datum(type, start).st \in {"error", "panic"}
              /\ type.utf8 /\ ~ValidUtf8(v.payload)
<1>1. CASE type.len = 0
  <2>1. VarlenaBytes(start) = Got(v.payload, SizeOnDisk(v))
    BY <1>1, ReadVarlena
  <2>2. decode_datum(type, start) = decode_varlena(type, Got(v.payload, SizeOnDisk(v)))
    BY <1>1, <2>1 DEF decode_datum, Varlena
  <2>3. Expected(c) = Datum(v.payload)
    <3>1. v.form # "fixed"
        BY <1>1, FormsFacts
    <3> QED
        BY <3>1, ExpectedFacts
  <2>4. CASE type.utf8 /\ ~ValidUtf8(v.payload)
    BY <2>2, <2>4 DEF decode_varlena, Got, Fails
  <2>5. CASE ~(type.utf8 /\ ~ValidUtf8(v.payload))
    <3>1. decode_datum(type, start) = Got(v.payload, SizeOnDisk(v))
        BY <2>2, <2>5 DEF decode_varlena, Got
    <3> QED
        BY <2>3, <3>1 DEF Good, Got
  <2> QED
    BY <2>4, <2>5
<1>2. CASE type.len # 0
  <2>1. /\ v.form = "fixed" /\ SizeOnDisk(v) = type.len
        /\ start + type.len <= Len(data)
        /\ Slice(start, type.len) = v.payload
        /\ start \in Nat /\ Len(data) \in Nat
    BY <1>2, ReadFixed, LenProperties DEF Holds
  <2>2. decode_datum(type, start) = decode_fixed(type, v.payload)
    BY <1>2, <2>1 DEF decode_datum, Varlena
  <2>3. CASE ~type.utf8
    <3>1. Expected(c) = Datum(v.payload)
        BY <2>1, <2>3, ExpectedFacts
    <3>2. decode_datum(type, start) = Got(v.payload, type.len)
        BY <2>2, <2>3 DEF decode_fixed
    <3> QED
        BY <2>1, <3>1, <3>2 DEF Good, Got
  <2>4. CASE type.utf8
    <3>1. /\ Expected(c) = Datum(IF ValidUtf8(until_nul(v.payload)) THEN until_nul(v.payload) ELSE <<>>)
          /\ ValidUtf8(until_nul(v.payload)) <=> ValidUtf8(v.payload)
        BY <2>1, <2>4, ExpectedFacts
    <3>2. CASE ValidUtf8(until_nul(v.payload))
      <4>1. decode_datum(type, start) = Got(until_nul(v.payload), type.len)
        BY <2>2, <2>4, <3>2 DEF decode_fixed
      <4> QED
        BY <2>1, <3>1, <3>2, <4>1 DEF Good, Got
    <3>3. CASE ~ValidUtf8(until_nul(v.payload))
      <4>1. decode_datum(type, start) = Fails("panic")
        BY <2>2, <2>4, <3>3 DEF decode_fixed
      <4> QED
        BY <2>4, <3>1, <3>3, <4>1 DEF Fails
    <3> QED
        BY <3>2, <3>3
  <2> QED
    BY <2>3, <2>4
<1> QED
    BY <1>1, <1>2

(* A record batch takes every value. *)
LEMMA AppendValue ==
    ASSUME NEW c, NEW type, NEW v, v = StoredValue(c), type = schema[c + 1].type,
           WellFormed(type, v), type.len \in Nat, type.utf8 \in BOOLEAN, v # Null,
           path = "batch", data \in Seq(Bytes), NEW start, Holds(data, start, v)
    PROVE  Good(BatchDatum(type, start), c, v)
<1>1. PICK r : r = IF Varlena(type) THEN extract_column_bytes(type, start)
                   ELSE extract_fixed_bytes(start, type.len)
    OBVIOUS
<1>2. r = Got(v.payload, SizeOnDisk(v))
  <2>1. CASE type.len = 0
    <3>1. VarlenaBytes(start) = Got(v.payload, SizeOnDisk(v))
        BY <2>1, ReadVarlena
    <3> QED
        BY <1>1, <2>1, <3>1 DEF extract_column_bytes, Varlena
  <2>2. CASE type.len # 0
    <3>1. /\ SizeOnDisk(v) = type.len
          /\ start + type.len <= Len(data)
          /\ Slice(start, type.len) = v.payload
          /\ start \in Nat /\ Len(data) \in Nat
        BY <2>2, ReadFixed, LenProperties DEF Holds
    <3> QED
        BY <1>1, <2>2, <3>1 DEF extract_fixed_bytes, Varlena
  <2> QED
    BY <2>1, <2>2
<1>3. PICK b : b = BatchDatum(type, start)
    OBVIOUS
<1>4. b = append_bytes(type, r)
    BY <1>1, <1>3 DEF BatchDatum
<1>5. r.st = "ok" /\ r.value = v.payload /\ r.size = SizeOnDisk(v)
    BY <1>2 DEF Got
<1>6. v.form = "fixed" <=> ~Varlena(type)
    BY FormsFacts DEF Varlena
<1>7. CASE ~type.utf8
  <2>1. b = r
    BY <1>4, <1>5, <1>7 DEF append_bytes
  <2>2. Expected(c) = Datum(v.payload)
    BY <1>7, ExpectedFacts
  <2> QED
    BY <1>3, <1>5, <2>1, <2>2 DEF Good
<1>8. CASE type.utf8 /\ Varlena(type)
  <2>1. b = [r EXCEPT !.value = from_utf8_lossy(r.value)]
    BY <1>4, <1>5, <1>8 DEF append_bytes
  <2>2. b.st = "ok" /\ b.size = SizeOnDisk(v) /\ b.value = from_utf8_lossy(v.payload)
    BY <1>2, <2>1 DEF Got
  <2>3. Expected(c) = Datum(from_utf8_lossy(v.payload))
    BY <1>6, <1>8, ExpectedFacts
  <2> QED
    BY <1>3, <2>2, <2>3 DEF Good
<1>9. CASE type.utf8 /\ ~Varlena(type)
  <2>1. PICK name : name = until_nul(v.payload)
    OBVIOUS
  <2>2. b = [r EXCEPT !.value = IF ValidUtf8(name) THEN name ELSE <<>>]
    BY <1>4, <1>5, <1>9, <2>1 DEF append_bytes
  <2>3. b.st = "ok" /\ b.size = SizeOnDisk(v) /\ b.value = IF ValidUtf8(name) THEN name ELSE <<>>
    BY <1>2, <2>2 DEF Got
  <2>4. Expected(c) = Datum(IF ValidUtf8(name) THEN name ELSE <<>>)
    BY <1>6, <1>9, <2>1, ExpectedFacts
  <2> QED
    BY <1>3, <2>3, <2>4 DEF Good
<1> QED
    BY <1>7, <1>8, <1>9
-----------------------------------------------------------------------------
(* The column a walk has come to. *)

LEMMA ColumnFacts ==
    ASSUME DecodeInv, status = "walk", col < WalkUpTo
    PROVE  /\ col \in Nat /\ col + 1 \in 1 .. Len(schema) /\ col + 1 \in 1 .. Len(types)
           /\ Has(col) <=> col < Len(stored)
           /\ type_id = IF types[col + 1].known THEN types[col + 1] ELSE TextType
           /\ type_id.len \in Nat /\ type_id.utf8 \in BOOLEAN
           /\ type_id.align \in {1, 2, 4, 8}
           /\ Len(stored) \in Nat /\ Len(data) \in Nat /\ data \in Seq(Bytes)
           /\ StoredValue(col) = IF col < Len(stored) THEN stored[col + 1] ELSE Null
<1>1. InputOK /\ Parsed /\ ~OutOfRange /\ col \in 0 .. WalkUpTo
    BY DEF DecodeInv, Parsed
<1>2. /\ WalkUpTo \in 0 .. Len(schema)
      /\ Len(types) \in Nat /\ Len(stored) \in Nat /\ Len(schema) \in 0 .. Len(types)
    BY <1>1, WalkFacts, InputFacts DEF InputOK
<1>3. col \in Nat /\ col + 1 \in 1 .. Len(schema) /\ col + 1 \in 1 .. Len(types)
    BY <1>1, <1>2
<1>4. /\ schema[col + 1].attnum = col + 1
      /\ type_id = IF types[col + 1].known THEN types[col + 1] ELSE TextType
    BY <1>1, <1>3 DEF InputOK, type_id
<1>5. type_id.len \in Nat /\ type_id.utf8 \in BOOLEAN /\ type_id.align \in {1, 2, 4, 8}
  <2>1. CASE types[col + 1].known
    BY <1>1, <1>3, <1>4, <2>1, InputFacts
  <2>2. CASE ~types[col + 1].known
    BY <1>4, <2>2 DEF TextType
  <2> QED
    BY <2>1, <2>2
<1>6. Has(col) <=> col < Len(stored)
    BY <1>2, <1>3, <1>4 DEF Has
<1>7. data \in Seq(Bytes) /\ Len(data) \in Nat
    BY <1>1, InputFacts, FormedFacts DEF Parsed
<1>8. StoredValue(col) = IF col < Len(stored) THEN stored[col + 1] ELSE Null
    BY <1>4, <1>6 DEF StoredValue
<1> QED
    BY <1>2, <1>3, <1>4, <1>5, <1>6, <1>7, <1>8

(* A null bit is read for a null, and for no stored value. *)
LEMMA NullFacts ==
    ASSUME DecodeInv, status = "walk", col < WalkUpTo
    PROVE  /\ is_null(col) => StoredValue(col) = Null
           /\ ~is_null(col) /\ col < Len(stored) => stored[col + 1] # Null
<1>1. /\ col \in Nat /\ Len(stored) \in Nat
      /\ StoredValue(col) = IF col < Len(stored) THEN stored[col + 1] ELSE Null
    BY ColumnFacts
<1>2. null_bitmap = Bitmap(stored)
    BY DEF DecodeInv, Parsed
<1>3. is_null(col) = NullBit(Bitmap(stored), col)
    BY <1>2, IsNullBit
<1>4. ASSUME col < Len(stored) PROVE NullBit(Bitmap(stored), col) <=> stored[col + 1] = Null
  <2>1. col \in 0 .. Len(stored) - 1
    BY <1>1, <1>4
  <2> QED
    BY <1>1, <2>1, BitmapFacts
<1> QED
    BY <1>1, <1>3, <1>4

LEMMA UnderstoodFacts ==
    ASSUME DecodeInv, status = "walk", col < WalkUpTo, Understood(col + 1)
    PROVE  /\ Understood(col)
           /\ IF types[col + 1].known
                THEN types[col + 1].align = types[col + 1].typalign \/ Unaligned(col + 1)
                ELSE types[col + 1].len = 0
                     /\ (types[col + 1].typalign = TextType.align \/ Unaligned(col + 1))
<1>1. col \in Nat /\ col + 1 \in 1 .. Len(types) /\ InputOK
    BY ColumnFacts DEF DecodeInv
<1>2. \A i \in 1 .. col : i \in 1 .. col + 1
    BY <1>1
<1>3. Understood(col)
    BY <1>2 DEF Understood
<1>4. col + 1 \in 1 .. col + 1 /\ col + 1 <= Len(types)
    BY <1>1, InputFacts
<1> QED
    BY <1>3, <1>4 DEF Understood

(* Where the code aligns to is where heap_fill_tuple wrote the value. *)
LEMMA ValueStands ==
    ASSUME DecodeInv, status = "walk", col < WalkUpTo, Understood(col + 1),
           col < Len(stored), NEW v, v = stored[col + 1], v # Null
    PROVE  /\ WellFormed(type_id, v)
           /\ Holds(data, Aligned(type_id, offset), v)
           /\ Aligned(type_id, offset) + SizeOnDisk(v) = Len(Filled(types, stored)[col + 1])
<1>1. /\ col \in Nat /\ Len(stored) \in Nat /\ Len(data) \in Nat /\ data \in Seq(Bytes)
      /\ type_id = IF types[col + 1].known THEN types[col + 1] ELSE TextType
      /\ type_id.len \in Nat /\ type_id.align \in {1, 2, 4, 8}
    BY ColumnFacts
<1>2. InputOK /\ data = Formed(types, stored) /\ Understood(col) /\ OffsetExact
    BY UnderstoodFacts DEF DecodeInv, Parsed
<1>3. PICK t : t = types[col + 1]
    OBVIOUS
<1>4. /\ col + 1 \in 1 .. Len(stored)
      /\ t.typalign \in {1, 2, 4, 8} /\ t.known \in BOOLEAN /\ t.len \in Nat
      /\ WellFormed(t, v)
  <2>1. col + 1 \in 1 .. Len(stored) /\ col + 1 \in 1 .. Len(types)
    BY <1>1, ColumnFacts
  <2> QED
    BY <1>2, <1>3, <2>1, InputFacts DEF Storable
<1>5. /\ t.known => type_id = t
      /\ ~t.known => type_id.len = 0 /\ t.len = 0
    BY <1>1, <1>3, UnderstoodFacts DEF TextType
<1>6. WellFormed(type_id, v)
  <2>1. CASE t.known
    BY <1>4, <1>5, <2>1
  <2>2. CASE ~t.known
    BY <1>4, <1>5, <2>2 DEF WellFormed
  <2> QED
    BY <2>1, <2>2
<1>7. v.form \in {"short", "external"} \/ type_id.align = t.typalign
  <2>1. Unaligned(col + 1) => v.form \in {"short", "external"}
    BY <1>6, <1>1, FormsFacts DEF Unaligned
  <2> QED
    BY <1>1, <1>3, <1>5, <2>1, UnderstoodFacts DEF TextType
<1>8. PICK before : before = Filled(types, stored)[col]
    OBVIOUS
<1>9. PICK pad : pad = Pad(before, t, v)
    OBVIOUS
<1>10. /\ Len(before) \in Nat /\ pad \in Nat /\ SizeOnDisk(v) \in Nat
       /\ Len(Filled(types, stored)[col + 1]) = Len(before) + pad + SizeOnDisk(v)
       /\ \A k \in 1 .. pad : data[Len(before) + k] = 0
       /\ Holds(data, Len(before) + pad, v)
  <2>1. col \in 0 .. Len(stored) - 1
    BY <1>1
  <2>2. StandsAt(data, types, stored, col)
    BY <1>2, <2>1, InputFacts, FormedFacts
  <2> QED
    BY <1>3, <1>8, <1>9, <2>2 DEF StandsAt
<1>11. offset = Len(before)
  <2>1. col <= Len(stored)
    BY <1>1
  <2> QED
    BY <1>2, <1>8, <2>1 DEF OffsetExact
<1>12. Aligned(type_id, offset) = offset + pad
  <2>1. CASE v.form \in {"short", "external"}
    <3>1. pad = 0
        BY <1>9, <2>1 DEF Pad
    <3>2. Holds(data, offset, v)
        BY <1>10, <1>11, <3>1
    <3>3. type_id.len = 0
        BY <1>1, <1>6, <2>1, FormsFacts
    <3>4. offset < Len(data) /\ Byte(offset) # 0
        BY <1>1, <1>6, <2>1, <3>2, <3>3, ReadHeader
    <3> QED
        BY <1>10, <1>11, <3>1, <3>3, <3>4 DEF Aligned, Varlena
  <2>2. CASE v.form \notin {"short", "external"}
    <3>1. v.form # "null"
        BY <1>1, <1>6, FormsFacts
    <3>2. pad = RoundUp(offset, type_id.align) - offset
        BY <1>7, <1>9, <1>11, <2>2, <3>1 DEF Pad
    <3>3. RoundUp(offset, type_id.align) = offset + pad
      <4>1. PICK a \in Nat : a = type_id.align /\ a > 0
        BY <1>1
      <4>2. RoundUp(offset, a) \in Nat
        BY <1>10, <1>11, <4>1, RoundUpFacts
      <4> QED
        BY <1>10, <1>11, <3>2, <4>1, <4>2
    <3>4. ASSUME offset < Len(data), Byte(offset) # 0 PROVE offset = offset + pad
      <4>1. ~(pad > 0)
        <5>1. ASSUME pad > 0 PROVE FALSE
            <6>1. 1 \in 1 .. pad
                BY <1>10, <5>1
            <6>2. Byte(offset) = 0
                BY <1>10, <1>11, <6>1 DEF Byte
            <6> QED
                BY <3>4, <6>2
        <5> QED
            BY <5>1
      <4> QED
        BY <1>10, <1>11, <4>1
    <3> QED
        BY <3>3, <3>4 DEF Aligned
  <2> QED
    BY <2>1, <2>2
<1> QED
    BY <1>6, <1>10, <1>11, <1>12

(* Behind the last attribute the walk stands at the end or further on. *)
LEMMA NothingStands ==
    ASSUME DecodeInv, status = "walk", col < WalkUpTo, Understood(col + 1), ~(col < Len(stored))
    PROVE  /\ offset \in Nat /\ offset >= Len(data)
           /\ Aligned(type_id, offset) \in Nat
           /\ Aligned(type_id, offset) >= Len(data)
<1>1. /\ col \in Nat /\ Len(stored) \in Nat /\ Len(data) \in Nat
      /\ type_id.align \in {1, 2, 4, 8}
    BY ColumnFacts
<1>2. InputOK /\ data = Formed(types, stored) /\ Understood(col) /\ OffsetExact /\ PastTheEnd
    BY UnderstoodFacts DEF DecodeInv, Parsed
<1>3. offset \in Nat /\ offset >= Len(data)
  <2>1. CASE col > Len(stored)
    BY <1>2, <2>1 DEF PastTheEnd
  <2>2. CASE col = Len(stored)
    <3>1. offset = Len(Filled(types, stored)[Len(stored)])
        BY <1>1, <1>2, <2>2 DEF OffsetExact
    <3>2. Len(Filled(types, stored)[Len(stored)]) = Len(data)
        BY <1>2, InputFacts, FormedFacts
    <3> QED
        BY <1>1, <3>1, <3>2
  <2> QED
    BY <1>1, <2>1, <2>2
<1>4. RoundUp(offset, type_id.align) \in Nat /\ offset <= RoundUp(offset, type_id.align)
  <2>1. PICK a \in Nat : a = type_id.align /\ a > 0
    BY <1>1
  <2>2. RoundUp(offset, a) \in Nat /\ offset <= RoundUp(offset, a)
    BY <1>3, <2>1, RoundUpFacts
  <2> QED
    BY <2>1, <2>2
<1>5. Aligned(type_id, offset) \in {offset, RoundUp(offset, type_id.align)}
    BY DEF Aligned
<1> QED
    BY <1>1, <1>3, <1>4, <1>5
-----------------------------------------------------------------------------
(* What a step makes of its column. *)

Statuses == {"ok", "error", "panic"}

(* Every reader says how it ended, whatever it has read. *)
LEMMA ReadersEnd ==
    ASSUME NEW type, NEW at
    PROVE  /\ decode_datum(type, at).st \in Statuses
           /\ skip_datum(type, at).st \in Statuses
           /\ BatchDatum(type, at).st \in Statuses
<1>1. PICK h : h = read_varlena_header(at)
    OBVIOUS
<1>2. h.st \in {"ok", "error"}
    BY <1>1, Zenon DEF read_varlena_header, Got, Fails
<1>3. PICK b : b = VarlenaBytes(at)
    OBVIOUS
<1>4. \/ b = Fails("error")
      \/ \E x, n : b = Got(x, n)
    BY <1>3 DEF VarlenaBytes
<1>8. b.st \in {"ok", "error"}
    BY <1>4 DEF Got, Fails
<1>5. decode_datum(type, at).st \in Statuses
  <2>1. CASE Varlena(type)
    <3>1. decode_datum(type, at) = decode_varlena(type, b)
        BY <1>3, <2>1 DEF decode_datum
    <3>2. decode_varlena(type, b) \in {b, Fails("error")}
        BY DEF decode_varlena
    <3> QED
        BY <1>8, <3>1, <3>2 DEF Fails, Statuses
  <2>2. CASE ~Varlena(type)
    <3>1. \A bytes : decode_fixed(type, bytes).st \in {"ok", "panic"}
        BY DEF decode_fixed, Got, Fails
    <3>2. decode_datum(type, at) \in {Fails("error"), decode_fixed(type, Slice(at, type.len))}
        BY <2>2 DEF decode_datum
    <3> QED
        BY <3>1, <3>2 DEF Fails, Statuses
  <2> QED
    BY <2>1, <2>2
<1>6. skip_datum(type, at).st \in Statuses
  <2>1. skip_datum(type, at) = h \/ \E x, n : skip_datum(type, at) = Got(x, n)
    BY <1>1 DEF skip_datum
  <2> QED
    BY <1>2, <2>1 DEF Got, Statuses
<1>7. BatchDatum(type, at).st \in Statuses
  <2>1. PICK r : r = IF Varlena(type) THEN extract_column_bytes(type, at)
                     ELSE extract_fixed_bytes(at, type.len)
    OBVIOUS
  <2>2. \E st \in Statuses : \E x, n : r = [st |-> st, value |-> x, size |-> n]
    <3>1. CASE Varlena(type)
        BY <1>3, <1>4, <2>1, <3>1 DEF extract_column_bytes, Got, Fails, Statuses
    <3>2. CASE ~Varlena(type)
        BY <2>1, <3>2 DEF extract_fixed_bytes, Got, Fails, Statuses
    <3> QED
        BY <3>1, <3>2
  <2>3. BatchDatum(type, at) = append_bytes(type, r)
    BY <2>1 DEF BatchDatum
  <2>4. append_bytes(type, r) = r \/ \E x : append_bytes(type, r) = [r EXCEPT !.value = x]
    BY DEF append_bytes
  <2>5. \A x : [r EXCEPT !.value = x].st = r.st /\ r.st \in Statuses
    BY <2>2
  <2> QED
    BY <2>3, <2>4, <2>5
<1> QED
    BY <1>5, <1>6, <1>7

(* Where the next column begins, as far as the types are understood. *)
Fits(next) ==
    Understood(col + 1) =>
      IF col < Len(stored) THEN next = Len(Filled(types, stored)[col + 1])
      ELSE next \in Nat /\ next >= Len(data)

(* What a column may show. *)
Shows(x) ==
    /\ x # NoValue
    /\ Understood(col + 1) => x = Expected(col)

(* A column for which a tuple may be given up. *)
Stuck == ~Has(col) \/ ~Understood(col + 1)

NotText == path # "batch" /\ type_id.utf8 /\ ~ValidUtf8(StoredValue(col).payload)

LEMMA DatumIsAValue == \A bytes : Datum(bytes) # NoValue
    BY DEF Datum, NoValue

(* A null takes no room. *)
LEMMA NullRead ==
    ASSUME DecodeInv, status = "walk", col < WalkUpTo, is_null(col)
    PROVE  /\ Fits(offset)
           /\ Shows(IF path = "catalog" THEN Default(type_id) ELSE Null)
<1>1. /\ col \in Nat /\ Len(stored) \in Nat
      /\ StoredValue(col) = Null
      /\ StoredValue(col) = IF col < Len(stored) THEN stored[col + 1] ELSE Null
    BY ColumnFacts, NullFacts
<1>2. ASSUME Understood(col + 1), col < Len(stored)
      PROVE  offset = Len(Filled(types, stored)[col + 1])
  <2>1. stored[col + 1] = Null
    BY <1>1, <1>2
  <2>2. Understood(col) /\ InputOK /\ data = Formed(types, stored) /\ OffsetExact
    BY <1>2, UnderstoodFacts DEF DecodeInv, Parsed
  <2>3. StandsAt(data, types, stored, col)
    <3>1. col \in 0 .. Len(stored) - 1
        BY <1>1, <1>2
    <3> QED
        BY <2>2, <3>1, InputFacts, FormedFacts
  <2>4. PICK before : before = Filled(types, stored)[col]
    OBVIOUS
  <2>5. Pad(before, types[col + 1], Null) = 0 /\ SizeOnDisk(Null) = 0
    BY DEF Pad, SizeOnDisk, Null
  <2>6. /\ Len(before) \in Nat
        /\ Len(Filled(types, stored)[col + 1]) = Len(before) + 0 + 0
    BY <2>1, <2>3, <2>4, <2>5 DEF StandsAt
  <2>7. offset = Len(before)
    <3>1. col <= Len(stored)
        BY <1>1, <1>2
    <3> QED
        BY <2>2, <2>4, <3>1 DEF OffsetExact
  <2> QED
    BY <2>6, <2>7
<1>3. ASSUME Understood(col + 1), ~(col < Len(stored))
      PROVE  offset \in Nat /\ offset >= Len(data)
    BY <1>3, NothingStands
<1>4. Fits(offset)
    BY <1>2, <1>3 DEF Fits
<1>5. Expected(col) = IF path = "catalog" THEN Default(type_id) ELSE Null
    BY <1>1 DEF Expected, type_id
<1>6. Default(type_id) # NoValue /\ Null # NoValue
    BY DatumIsAValue, NullIsAValue DEF Default
<1> QED
    BY <1>4, <1>5, <1>6 DEF Shows

(* A value that was read well is the one that stands there. *)
LEMMA GoodRead ==
    ASSUME DecodeInv, status = "walk", col < WalkUpTo, NEW r,
           Understood(col + 1), col < Len(stored), ~is_null(col),
           Good(r, col, stored[col + 1])
    PROVE  Fits(Aligned(type_id, offset) + r.size) /\ Shows(Datum(r.value))
<1>1. PICK v : v = stored[col + 1]
    OBVIOUS
<1>2. v # Null
    BY <1>1, NullFacts
<1>3. Aligned(type_id, offset) + SizeOnDisk(v) = Len(Filled(types, stored)[col + 1])
    BY <1>1, <1>2, ValueStands
<1>4. r.size = SizeOnDisk(v) /\ Datum(r.value) = Expected(col)
    BY <1>1 DEF Good
<1> QED
    BY <1>3, <1>4, DatumIsAValue DEF Fits, Shows

(* Nothing is read where nothing stands. *)
LEMMA NothingRead ==
    ASSUME DecodeInv, status = "walk", col < WalkUpTo,
           Understood(col + 1), ~(col < Len(stored)), NEW at, at = Aligned(type_id, offset)
    PROVE  /\ decode_datum(type_id, at).st # "ok"
           /\ BatchDatum(type_id, at).st # "ok"
           /\ skip_datum(type_id, at).st = "ok" => Fits(at + skip_datum(type_id, at).size)
<1>1. /\ col \in Nat /\ Len(stored) \in Nat /\ Len(data) \in Nat
      /\ type_id.len \in Nat
    BY ColumnFacts
<1>2. at \in Nat /\ at >= Len(data)
    BY NothingStands
<1>3. PICK type : type = type_id
    OBVIOUS
<1>4. CASE Varlena(type)
  <2>1. read_varlena_header(at) = Fails("error")
    BY <1>2 DEF read_varlena_header
  <2>2. VarlenaBytes(at) = Fails("error")
    BY <2>1 DEF VarlenaBytes, Fails
  <2>3. decode_datum(type, at) = decode_varlena(type, Fails("error"))
    BY <1>4, <2>2 DEF decode_datum
  <2>4. BatchDatum(type, at) = append_bytes(type, Fails("error"))
    BY <1>4, <2>2 DEF BatchDatum, extract_column_bytes
  <2>5. skip_datum(type, at) = Fails("error")
    BY <1>4, <2>1 DEF skip_datum, Fails
  <2>6. Fails("error").st = "error"
    BY DEF Fails
  <2>7. decode_varlena(type, Fails("error")) = Fails("error")
    BY <2>6 DEF decode_varlena
  <2>8. append_bytes(type, Fails("error")) = Fails("error")
    BY <2>6 DEF append_bytes
  <2> QED
    BY <1>3, <2>3, <2>4, <2>5, <2>6, <2>7, <2>8
<1>5. CASE ~Varlena(type)
  <2>1. type.len > 0 /\ at + type.len > Len(data)
    BY <1>1, <1>2, <1>3, <1>5 DEF Varlena
  <2>2. decode_datum(type, at) = Fails("error")
    BY <1>5, <2>1 DEF decode_datum
  <2>3. extract_fixed_bytes(at, type.len) = Fails("panic")
    BY <2>1 DEF extract_fixed_bytes
  <2>4. BatchDatum(type, at) = append_bytes(type, Fails("panic"))
    BY <1>5, <2>3 DEF BatchDatum
  <2>5. Fails("error").st = "error" /\ Fails("panic").st = "panic"
    BY DEF Fails
  <2>6. append_bytes(type, Fails("panic")) = Fails("panic")
    BY <2>5 DEF append_bytes
  <2>7. skip_datum(type, at) = Got(<<>>, type.len)
    BY <1>5 DEF skip_datum
  <2>8. Fits(at + type.len)
    <3>1. at + type.len \in Nat /\ at + type.len >= Len(data)
        BY <1>1, <1>2, <1>3, <2>1
    <3> QED
        BY <3>1 DEF Fits
  <2> QED
    BY <1>3, <2>2, <2>4, <2>5, <2>6, <2>7, <2>8 DEF Got
<1> QED
    BY <1>4, <1>5

LEMMA RowRead ==
    ASSUME DecodeInv, status = "walk", col < WalkUpTo, ~is_null(col), path # "batch",
           NEW at, at = Aligned(type_id, offset), NEW r, r = decode_datum(type_id, at)
    PROVE  IF r.st = "ok" THEN Fits(at + r.size) /\ Shows(Datum(r.value))
           ELSE r.st \in {"error", "panic"} /\ (Stuck \/ NotText)
<1>1. r.st \in {"ok", "error", "panic"}
    BY ReadersEnd DEF Statuses
<1>2. CASE ~Understood(col + 1)
    BY <1>1, <1>2, DatumIsAValue DEF Fits, Shows, Stuck
<1>3. CASE Understood(col + 1) /\ ~(col < Len(stored))
  <2>1. r.st # "ok" /\ ~Has(col)
    BY <1>3, NothingRead, ColumnFacts
  <2> QED
    BY <1>1, <2>1 DEF Stuck
<1>4. CASE Understood(col + 1) /\ col < Len(stored)
  <2>1. PICK v : v = stored[col + 1]
    OBVIOUS
  <2>2. v = StoredValue(col) /\ v # Null /\ type_id = schema[col + 1].type
        /\ type_id.len \in Nat /\ type_id.utf8 \in BOOLEAN /\ data \in Seq(Bytes)
    BY <1>4, <2>1, ColumnFacts, NullFacts DEF type_id
  <2>3. WellFormed(type_id, v) /\ Holds(data, at, v)
    BY <1>4, <2>1, <2>2, ValueStands
  <2>4. Good(r, col, v) \/ (r.st \in {"error", "panic"} /\ type_id.utf8 /\ ~ValidUtf8(v.payload))
    BY <2>2, <2>3, DecodeValue
  <2>5. CASE Good(r, col, v)
    BY <1>4, <2>1, <2>5, GoodRead DEF Good
  <2>6. CASE r.st \in {"error", "panic"} /\ type_id.utf8 /\ ~ValidUtf8(v.payload)
    BY <2>2, <2>6 DEF NotText
  <2> QED
    BY <2>4, <2>5, <2>6
<1> QED
    BY <1>2, <1>3, <1>4

LEMMA BatchRead ==
    ASSUME DecodeInv, status = "walk", col < WalkUpTo, ~is_null(col), path = "batch",
           NEW at, at = Aligned(type_id, offset), NEW r, r = BatchDatum(type_id, at)
    PROVE  IF r.st = "ok" THEN Fits(at + r.size) /\ Shows(Datum(r.value))
           ELSE r.st \in {"error", "panic"} /\ Stuck
<1>1. r.st \in {"ok", "error", "panic"}
    BY ReadersEnd DEF Statuses
<1>2. CASE ~Understood(col + 1)
    BY <1>1, <1>2, DatumIsAValue DEF Fits, Shows, Stuck
<1>3. CASE Understood(col + 1) /\ ~(col < Len(stored))
  <2>1. r.st # "ok" /\ ~Has(col)
    BY <1>3, NothingRead, ColumnFacts
  <2> QED
    BY <1>1, <2>1 DEF Stuck
<1>4. CASE Understood(col + 1) /\ col < Len(stored)
  <2>1. PICK v : v = stored[col + 1]
    OBVIOUS
  <2>2. v = StoredValue(col) /\ v # Null /\ type_id = schema[col + 1].type
        /\ type_id.len \in Nat /\ type_id.utf8 \in BOOLEAN /\ data \in Seq(Bytes)
    BY <1>4, <2>1, ColumnFacts, NullFacts DEF type_id
  <2>3. WellFormed(type_id, v) /\ Holds(data, at, v)
    BY <1>4, <2>1, <2>2, ValueStands
  <2>4. Good(r, col, v)
    BY <2>2, <2>3, AppendValue
  <2> QED
    BY <1>4, <2>1, <2>4, GoodRead DEF Good
<1> QED
    BY <1>2, <1>3, <1>4

LEMMA SkipRead ==
    ASSUME DecodeInv, status = "walk", col < WalkUpTo, ~is_null(col),
           NEW at, at = Aligned(type_id, offset), NEW r, r = skip_datum(type_id, at)
    PROVE  IF r.st = "ok" THEN Fits(at + r.size)
           ELSE r.st \in {"error", "panic"} /\ Stuck
<1>1. r.st \in {"ok", "error", "panic"}
    BY ReadersEnd DEF Statuses
<1>2. CASE ~Understood(col + 1)
    BY <1>1, <1>2 DEF Fits, Stuck
<1>3. CASE Understood(col + 1) /\ ~(col < Len(stored))
  <2>1. (r.st = "ok" => Fits(at + r.size)) /\ ~Has(col)
    BY <1>3, NothingRead, ColumnFacts
  <2> QED
    BY <1>1, <2>1 DEF Stuck
<1>4. CASE Understood(col + 1) /\ col < Len(stored)
  <2>1. PICK v : v = stored[col + 1]
    OBVIOUS
  <2>2. v # Null /\ type_id.len \in Nat /\ data \in Seq(Bytes)
    BY <1>4, <2>1, ColumnFacts, NullFacts
  <2>3. /\ WellFormed(type_id, v) /\ Holds(data, at, v)
        /\ at + SizeOnDisk(v) = Len(Filled(types, stored)[col + 1])
    BY <1>4, <2>1, <2>2, ValueStands
  <2>4. r = Got(<<>>, SizeOnDisk(v))
    <3>1. CASE type_id.len = 0
        BY <2>2, <2>3, <3>1, ReadVarlena
    <3>2. CASE type_id.len # 0
      <4>1. type_id.len > 0
        BY <2>2, <3>2
      <4> QED
        BY <2>2, <2>3, <4>1, ReadFixed
    <3> QED
        BY <3>1, <3>2
  <2> QED
    BY <1>4, <2>3, <2>4 DEF Fits, Got
<1> QED
    BY <1>2, <1>3, <1>4
-----------------------------------------------------------------------------
(* The output after a column: what it was, and what the column shows.      *)
Extends(next) ==
    /\ next = [i \in 1 .. (IF path \in {"row", "catalog"} THEN col + 1 ELSE Len(projection)) |-> next[i]]
    /\ path # "batch" => \A i \in DOMAIN next : next[i] # NoValue
    /\ \A i \in 1 .. Len(projection) :
         LastPlace(i) =>
           /\ projection[i] < col => next[i] = out[i]
           /\ projection[i] = col => Shows(next[i])
           /\ projection[i] > col /\ path = "projected" => next[i] = Null

(* A walk that goes on to the next column. *)
LEMMA ColumnKeepsInv ==
    ASSUME DecodeInv, status = "walk", col < WalkUpTo,
           UNCHANGED <<tupleVars, status>>, col' = col + 1, Fits(offset'), Extends(out')
    PROVE  DecodeInv'
<1>1. /\ types' = types /\ stored' = stored /\ raw' = raw
      /\ schema' = schema /\ path' = path /\ projection' = projection
      /\ data' = data /\ null_bitmap' = null_bitmap /\ status' = "walk"
    BY DEF tupleVars, inputVars
<1>2. UNCHANGED inputVars
    BY DEF tupleVars
<1>3. /\ InputOK /\ data = Formed(types, stored) /\ null_bitmap = Bitmap(stored) /\ ~OutOfRange
      /\ OutputSoFar
    BY DEF DecodeInv, Parsed
<1>4. /\ col \in Nat /\ Len(stored) \in Nat /\ Len(data) \in Nat /\ WalkUpTo \in Nat
    BY <1>3, ColumnFacts, WalkFacts, InputFacts
<1>5. PICK n : n = col + 1
    OBVIOUS
<1>6. Understood(col)' <=> Understood(n)
    BY <1>2, <1>5, SameUnderstood
<1>7. Parsed'
  <2>1. WalkUpTo' = WalkUpTo /\ ~OutOfRange'
    BY <1>2, <1>3, SameInput
  <2>2. col' \in 0 .. WalkUpTo
    BY <1>4
  <2> QED
    BY <1>1, <1>3, <2>1, <2>2 DEF Parsed
<1>8. OffsetExact'
  <2> SUFFICES ASSUME col' <= Len(stored'), Understood(col)'
               PROVE  offset' = Len(Filled(types', stored')[col'])
    BY DEF OffsetExact
  <2>1. col < Len(stored) /\ Understood(col + 1)
    BY <1>1, <1>4, <1>5, <1>6
  <2> QED
    BY <1>1, <2>1 DEF Fits
<1>9. PastTheEnd'
  <2> SUFFICES ASSUME col' > Len(stored'), Understood(col)'
               PROVE  offset' \in Nat /\ offset' >= Len(data')
    BY DEF PastTheEnd
  <2>1. ~(col < Len(stored)) /\ Understood(col + 1)
    BY <1>1, <1>4, <1>5, <1>6
  <2> QED
    BY <1>1, <2>1 DEF Fits
<1>10. OutputSoFar'
  <2>1. out' = [i \in 1 .. (IF path' \in {"row", "catalog"} THEN col' ELSE Len(projection')) |-> out'[i]]
    BY <1>1 DEF Extends
  <2>2. path' # "batch" => \A i \in DOMAIN out' : out'[i] # NoValue
    BY <1>1 DEF Extends
  <2>3. ASSUME NEW i \in 1 .. Len(projection), LastPlace(i)
        PROVE  IF projection[i] < col + 1
                 THEN /\ out'[i] # NoValue
                      /\ Understood(projection[i] + 1) => out'[i] = Expected(projection[i])
                 ELSE path = "projected" => out'[i] = Null
    <3>1. projection[i] \in Nat
        BY <1>3, WalkFacts
    <3>2. CASE projection[i] < col
        BY <1>3, <2>3, <3>1, <3>2, <1>4 DEF Extends, OutputSoFar
    <3>3. CASE projection[i] = col
        BY <2>3, <3>1, <3>3 DEF Extends, Shows
    <3>4. CASE projection[i] > col
        BY <2>3, <3>1, <3>4, <1>4 DEF Extends
    <3> QED
        BY <1>4, <3>1, <3>2, <3>3, <3>4
  <2>4. ASSUME NEW i \in 1 .. Len(projection'), LastPlace(i)'
        PROVE  IF projection'[i] < col'
                 THEN /\ out'[i] # NoValue
                      /\ Understood(projection[i] + 1)' => out'[i] = Expected(projection[i])'
                 ELSE path' = "projected" => out'[i] = Null
    <3>1. i \in 1 .. Len(projection) /\ LastPlace(i)
        BY <1>1, <1>2, <2>4, SameInput
    <3>2. /\ Understood(projection[i] + 1)' <=> Understood(projection[i] + 1)
          /\ Expected(projection[i])' = Expected(projection[i])
        BY <1>2, SamePlace
    <3> QED
        BY <1>1, <2>3, <3>1, <3>2
  <2> QED
    BY <2>1, <2>2, <2>4 DEF OutputSoFar
<1>11. InputOK'
    BY <1>2, <1>3, SameInput
<1>12. ValuesExact' /\ FailsWithCause'
    BY <1>1 DEF ValuesExact, FailsWithCause
<1> QED
    BY <1>1, <1>7, <1>8, <1>9, <1>10, <1>11, <1>12 DEF DecodeInv

(* The reasons for which a tuple may be given up. *)
Reason(places) ==
    \/ raw.t_hoff = 0
    \/ OutOfRange
    \/ Cardinality(Asked(places)) < Len(places)
    \/ \E c \in 0 .. Len(schema) - 1 : Walked(c) /\ (~Has(c) \/ ~Understood(c + 1))
    \/ /\ path # "batch"
       /\ \E i \in 1 .. Len(projection) :
            /\ schema[projection[i] + 1].type.utf8
            /\ ~ValidUtf8(StoredValue(projection[i]).payload)

LEMMA SameReason ==
    ASSUME UNCHANGED inputVars
    PROVE  FailsWithCause' <=> (status' \in {"skipped", "error", "panic"} => Reason(projection))
<1>1. raw' = raw /\ schema' = schema /\ path' = path /\ projection' = projection
    BY DEF inputVars
<1>2. FailsWithCause' <=> (status' \in {"skipped", "error", "panic"} => Reason(projection)')
    BY DEF FailsWithCause, Reason, Asked
<1>3. OutOfRange' <=> OutOfRange
    BY SameInput
<1>4. \A c : (Has(c) <=> Has(c)') /\ (Understood(c) <=> Understood(c)') /\ StoredValue(c)' = StoredValue(c)
    BY SameInput
<1>5. \A c : Walked(c) <=> Walked(c)'
    BY SameInput DEF Walked
<1>6. Reason(projection)' <=> Reason(projection)
    BY <1>1, <1>3, <1>4, <1>5 DEF Reason
<1> QED
    BY <1>2, <1>6

(* A walk that ends, with its input as it was. *)
LEMMA EndKeepsInv ==
    ASSUME DecodeInv, UNCHANGED tupleVars,
           status' \in {"ok", "error", "panic"},
           status' = "ok" => ValuesExact',
           status' # "ok" => Reason(projection)
    PROVE  DecodeInv'
<1>2. UNCHANGED inputVars
    BY DEF tupleVars
<1>3. status' # "begin" /\ status' # "walk"
    OBVIOUS
<1>4. Parsed' /\ OffsetExact' /\ PastTheEnd' /\ OutputSoFar'
    BY <1>3 DEF Parsed, OffsetExact, PastTheEnd, OutputSoFar
<1>5. ValuesExact'
    BY DEF ValuesExact
<1>6. FailsWithCause'
    BY <1>2, <1>3, SameReason
<1>7. InputOK'
    BY <1>2, SameInput DEF DecodeInv
<1> QED
    BY <1>3, <1>4, <1>5, <1>6, <1>7 DEF DecodeInv
(* A row and a catalog row are put together column by column. *)
LEMMA OutputAppended ==
    ASSUME DecodeInv, status = "walk", col < WalkUpTo, path \in {"row", "catalog"},
           NEW x, Shows(x)
    PROVE  Extends(Append(out, x))
<1>1. /\ InputOK /\ col \in Nat /\ ~OutOfRange
      /\ out = [i \in 1 .. col |-> out[i]]
      /\ \A i \in DOMAIN out : out[i] # NoValue
    BY ColumnFacts DEF DecodeInv, Parsed, OutputSoFar
<1> DEFINE T == {out[i] : i \in 1 .. col} \cup {x}
<1>2. out \in Seq(T) /\ Len(out) = col /\ x \in T
  <2>1. out \in [1 .. col -> T]
    BY <1>1
  <2> HIDE DEF T
  <2>2. out \in Seq(T) /\ Len(out) = col
    BY <1>1, <2>1, SeqDef, LenProperties
  <2> QED
    BY <2>2 DEF T
<1> HIDE DEF T
<1>3. PICK next : next = Append(out, x)
    OBVIOUS
<1>4. /\ next \in Seq(T)
      /\ Len(next) = col + 1
      /\ \A i \in 1 .. col : next[i] = out[i]
      /\ next[col + 1] = x
    BY <1>2, <1>3, AppendProperties
<1>5. next \in [1 .. col + 1 -> T]
    BY <1>4, LenProperties
<1>6. next = [i \in 1 .. col + 1 |-> next[i]] /\ DOMAIN next = 1 .. col + 1
    BY <1>5
<1>7. \A i \in DOMAIN next : next[i] # NoValue
  <2> SUFFICES ASSUME NEW i \in 1 .. col + 1 PROVE next[i] # NoValue
    BY <1>6
  <2>1. CASE i \in 1 .. col
    <3>1. DOMAIN out = 1 .. col
        BY <1>1
    <3> QED
        BY <1>1, <1>4, <2>1, <3>1
  <2>2. CASE i \notin 1 .. col
    <3>1. i = col + 1
        BY <1>1, <2>2
    <3> QED
        BY <1>4, <3>1 DEF Shows
  <2> QED
    BY <2>1, <2>2
<1>8. ASSUME NEW i \in 1 .. Len(projection) PROVE projection[i] = i - 1 /\ i \in Nat
  <2>1. projection = WholeSchema /\ Len(schema) \in Nat
    BY <1>1, InputFacts DEF InputOK
  <2>2. Len(projection) = Len(schema) /\ \A j \in 1 .. Len(schema) : WholeSchema[j] = j - 1
    BY <2>1, WholeSchemaFacts
  <2> QED
    BY <2>1, <2>2
<1>9. ASSUME NEW i \in 1 .. Len(projection)
      PROVE  /\ projection[i] < col => next[i] = out[i]
             /\ projection[i] = col => Shows(next[i])
  <2>1. ASSUME projection[i] < col PROVE next[i] = out[i]
    <3>1. i \in 1 .. col
        BY <1>1, <1>8, <2>1
    <3> QED
        BY <1>4, <3>1
  <2>2. ASSUME projection[i] = col PROVE next[i] = x
    <3>1. i = col + 1
        BY <1>1, <1>8, <2>2
    <3> QED
        BY <1>4, <3>1
  <2> QED
    BY <2>1, <2>2
<1>10. path # "projected"
    OBVIOUS
<1> QED
    BY <1>3, <1>6, <1>7, <1>9, <1>10 DEF Extends

(* The other two have a place for every column asked for. *)
LEMMA OutputPut ==
    ASSUME DecodeInv, status = "walk", col < WalkUpTo, path \in {"projected", "batch"},
           output_pos # 0, NEW x, Shows(x)
    PROVE  Extends([out EXCEPT ![output_pos] = x])
<1>1. /\ InputOK /\ col \in Nat
      /\ out = [i \in 1 .. Len(projection) |-> out[i]]
      /\ path # "batch" => \A i \in DOMAIN out : out[i] # NoValue
      /\ \A i \in 1 .. Len(projection) :
           LastPlace(i) /\ ~(projection[i] < col) /\ path = "projected" => out[i] = Null
    BY ColumnFacts DEF DecodeInv, OutputSoFar
<1>2. PICK p : p = output_pos
    OBVIOUS
<1>3. /\ p \in 1 .. Len(projection) /\ projection[p] = col
      /\ \A i \in 1 .. Len(projection) : projection[i] = col /\ LastPlace(i) => i = p
  <2>1. /\ p \in 0 .. Len(projection) /\ p # 0 /\ projection[p] = col
        /\ \A i \in 1 .. Len(projection) : projection[i] = col /\ LastPlace(i) => i = p
    BY <1>1, <1>2, OutputPosFacts
  <2>2. Len(projection) \in Nat
    BY <1>1, InputFacts
  <2> QED
    BY <2>1, <2>2
<1>4. PICK next : next = [out EXCEPT ![p] = x]
    OBVIOUS
<1>5. /\ next = [i \in 1 .. Len(projection) |-> next[i]]
      /\ \A i \in 1 .. Len(projection) : next[i] = IF i = p THEN x ELSE out[i]
  <2>1. DOMAIN out = 1 .. Len(projection)
    BY <1>1
  <2>2. next = [i \in 1 .. Len(projection) |-> IF i = p THEN x ELSE out[i]]
    BY <1>4, <2>1
  <2> QED
    BY <2>2
<1>6. path # "batch" => \A i \in DOMAIN next : next[i] # NoValue
  <2>1. DOMAIN next = 1 .. Len(projection) /\ DOMAIN out = 1 .. Len(projection)
    BY <1>1, <1>5
  <2> QED
    BY <1>1, <1>5, <2>1 DEF Shows
<1>7. ASSUME NEW i \in 1 .. Len(projection), LastPlace(i)
      PROVE  /\ projection[i] < col => next[i] = out[i]
             /\ projection[i] = col => Shows(next[i])
             /\ projection[i] > col /\ path = "projected" => next[i] = Null
  <2>1. projection[i] \in Nat
    BY <1>1, WalkFacts DEF DecodeInv, Parsed
  <2>2. projection[i] # col => i # p
    BY <1>3
  <2>3. projection[i] = col => next[i] = x
    BY <1>3, <1>5, <1>7
  <2>4. projection[i] < col => projection[i] # col
    BY <1>1, <2>1
  <2>5. projection[i] > col => projection[i] # col /\ ~(projection[i] < col)
    BY <1>1, <2>1
  <2> QED
    BY <1>1, <1>5, <1>7, <2>2, <2>3, <2>4, <2>5
<1>8. path \notin {"row", "catalog"}
    OBVIOUS
<1> QED
    BY <1>2, <1>4, <1>5, <1>6, <1>7, <1>8 DEF Extends

(* A column that is walked over: nobody asks for it, or it is null and its *)
(* place has been null all along.                                          *)
LEMMA OutputKept ==
    ASSUME DecodeInv, status = "walk", col < WalkUpTo, path \in {"projected", "batch"},
           output_pos = 0 \/ (path = "projected" /\ Shows(Null))
    PROVE  Extends(out)
<1>1. /\ InputOK /\ col \in Nat /\ ~OutOfRange
      /\ out = [i \in 1 .. Len(projection) |-> out[i]]
      /\ path # "batch" => \A i \in DOMAIN out : out[i] # NoValue
      /\ \A i \in 1 .. Len(projection) :
           LastPlace(i) /\ ~(projection[i] < col) /\ path = "projected" => out[i] = Null
    BY ColumnFacts DEF DecodeInv, Parsed, OutputSoFar
<1>2. ASSUME NEW i \in 1 .. Len(projection), LastPlace(i)
      PROVE  /\ projection[i] = col => Shows(out[i])
             /\ projection[i] > col /\ path = "projected" => out[i] = Null
  <2>1. projection[i] \in Nat
    BY <1>1, WalkFacts
  <2>2. ASSUME projection[i] = col PROVE Shows(out[i])
    <3>1. output_pos # 0
        BY <1>1, <2>2, OutputPosFacts
    <3>2. path = "projected" /\ Shows(Null) /\ ~(projection[i] < col)
        BY <1>1, <2>2, <3>1
    <3> QED
        BY <1>1, <1>2, <3>2
  <2>3. projection[i] > col => ~(projection[i] < col)
    BY <1>1, <2>1
  <2> QED
    BY <1>1, <1>2, <2>2, <2>3
<1>3. path \notin {"row", "catalog"}
    OBVIOUS
<1> QED
    BY <1>1, <1>2, <1>3 DEF Extends

(* A column at which a walk is stuck, or whose text is asked for, is a     *)
(* reason.                                                                 *)
LEMMA StuckIsReason ==
    ASSUME DecodeInv, status = "walk", col < WalkUpTo, Stuck
    PROVE  Reason(projection)
<1>1. col \in Nat /\ col + 1 \in 1 .. Len(schema) /\ Len(schema) \in Nat
    BY ColumnFacts, InputFacts DEF DecodeInv
<1>2. col \in 0 .. Len(schema) - 1
    BY <1>1
<1> QED
    BY <1>2 DEF Reason, Stuck, Walked

LEMMA NotTextIsReason ==
    ASSUME DecodeInv, status = "walk", col < WalkUpTo, NotText,
           path = "projected" => output_pos # 0
    PROVE  Reason(projection)
<1>1. InputOK /\ col \in Nat /\ col + 1 \in 1 .. Len(schema) /\ ~OutOfRange
    BY ColumnFacts DEF DecodeInv, Parsed
<1>2. \E i \in 1 .. Len(projection) : projection[i] = col
  <2>1. CASE path = "projected"
    <3>1. output_pos \in 0 .. Len(projection) /\ output_pos # 0 /\ projection[output_pos] = col
        BY <1>1, <2>1, OutputPosFacts
    <3>2. Len(projection) \in Nat
        BY <1>1, InputFacts
    <3>3. output_pos \in 1 .. Len(projection)
        BY <3>1, <3>2
    <3> QED
        BY <3>1, <3>3
  <2>2. CASE path # "projected"
    <3>1. projection = WholeSchema /\ Len(schema) \in Nat
        BY <1>1, <2>2, InputFacts DEF InputOK, NotText
    <3>2. Len(projection) = Len(schema) /\ WholeSchema[col + 1] = (col + 1) - 1
        BY <1>1, <3>1, WholeSchemaFacts
    <3> QED
        BY <1>1, <3>1, <3>2
  <2> QED
    BY <2>1, <2>2
<1> QED
    BY <1>2 DEF Reason, NotText, type_id
(* Where the code stands is known as far as the types are understood. *)
LEMMA NullAt ==
    ASSUME DecodeInv, status = "walk", col < WalkUpTo, Fits(offset)
    PROVE  Fits(offset + 0)
<1>1. /\ col \in Nat /\ Len(stored) \in Nat /\ InputOK
    BY ColumnFacts DEF DecodeInv
<1>2. ASSUME Understood(col + 1) PROVE offset \in Nat
  <2>1. CASE col < Len(stored)
    <3>1. col + 1 \in 0 .. Len(stored)
        BY <1>1, <2>1
    <3>2. Len(Filled(types, stored)[col + 1]) \in Nat
        BY <1>1, <3>1, InputFacts, FormedFacts
    <3> QED
        BY <1>2, <2>1, <3>2 DEF Fits
  <2>2. CASE ~(col < Len(stored))
    BY <1>2, <2>2 DEF Fits
  <2> QED
    BY <2>1, <2>2
<1>3. ASSUME Understood(col + 1) PROVE offset + 0 = offset
    BY <1>2, <1>3
<1> QED
    BY <1>3 DEF Fits

-----------------------------------------------------------------------------
(* The steps, one by one. *)

LEMMA AdvanceKeepsInv ==
    ASSUME DecodeInv, status = "walk", col < WalkUpTo,
           NEW at, NEW r, NEW result, Advance(at, r, result),
           r.st = "ok" => Fits(at + r.size) /\ Extends(result),
           r.st # "ok" => r.st \in {"error", "panic"} /\ Reason(projection)
    PROVE  DecodeInv'
<1>1. CASE r.st = "ok"
  <2>1. /\ offset' = at + r.size /\ out' = result /\ col' = col + 1
        /\ UNCHANGED <<tupleVars, status>>
    BY <1>1 DEF Advance
  <2>2. Fits(offset') /\ Extends(out')
    BY <1>1, <2>1
  <2> QED
    BY <2>1, <2>2, ColumnKeepsInv
<1>2. CASE r.st # "ok"
  <2>1. UNCHANGED tupleVars /\ status' = r.st
    BY <1>2 DEF Advance
  <2> QED
    BY <1>2, <2>1, EndKeepsInv
<1> QED
    BY <1>1, <1>2

LEMMA SkipNullKeepsInv ==
    ASSUME DecodeInv, status = "walk", col < WalkUpTo,
           NEW result, SkipNull(result), Extends(result)
    PROVE  DecodeInv'
<1>1. /\ is_null(col) /\ out' = result /\ col' = col + 1 /\ offset' = offset
      /\ UNCHANGED <<tupleVars, status>>
    BY DEF SkipNull
<1>2. Fits(offset') /\ Extends(out')
    BY <1>1, NullRead
<1> QED
    BY <1>1, <1>2, ColumnKeepsInv

(* Every path ends where the walk ends. *)
LEMMA WholeWalk ==
    ASSUME DecodeInv, status = "walk", path \in {"row", "catalog"}
    PROVE  WalkUpTo = Len(schema)
    BY WalkFacts DEF DecodeInv, Parsed

LEMMA RowColumnKeepsInv ==
    ASSUME DecodeInv, RowColumn
    PROVE  DecodeInv'
<1>1. status = "walk" /\ path = "row" /\ col < WalkUpTo
    BY WholeWalk DEF RowColumn
<1>2. CASE SkipNull(Append(out, Null))
  <2>1. is_null(col)
    BY <1>2 DEF SkipNull
  <2>2. Shows(Null)
    BY <1>1, <2>1, NullRead
  <2>3. PICK next : next = Append(out, Null)
    OBVIOUS
  <2>4. Extends(next)
    BY <1>1, <2>2, <2>3, OutputAppended
  <2> QED
    BY <1>1, <1>2, <2>3, <2>4, SkipNullKeepsInv
<1>3. CASE ~SkipNull(Append(out, Null))
  <2>1. PICK at : at = Aligned(type_id, offset)
    OBVIOUS
  <2>2. PICK r : r = decode_datum(type_id, at)
    OBVIOUS
  <2>3. PICK next : next = Append(out, Datum(r.value))
    OBVIOUS
  <2>4. ~is_null(col) /\ Advance(at, r, next)
    BY <1>3, <2>1, <2>2, <2>3 DEF RowColumn, get_column
  <2>5. IF r.st = "ok" THEN Fits(at + r.size) /\ Shows(Datum(r.value))
        ELSE r.st \in {"error", "panic"} /\ (Stuck \/ NotText)
    BY <1>1, <2>1, <2>2, <2>4, RowRead
  <2>6. r.st = "ok" => Fits(at + r.size) /\ Extends(next)
    BY <1>1, <2>3, <2>5, OutputAppended
  <2>7. r.st # "ok" => r.st \in {"error", "panic"} /\ Reason(projection)
    BY <1>1, <2>5, StuckIsReason, NotTextIsReason
  <2> QED
    BY <1>1, <2>4, <2>6, <2>7, AdvanceKeepsInv
<1> QED
    BY <1>2, <1>3

LEMMA CatalogColumnKeepsInv ==
    ASSUME DecodeInv, CatalogColumn
    PROVE  DecodeInv'
<1>1. status = "walk" /\ path = "catalog" /\ col < WalkUpTo
    BY WholeWalk DEF CatalogColumn
<1>2. PICK d : d = next_datum
    OBVIOUS
<1>3. CASE is_null(col)
  <2>1. d.st = "ok" /\ d.at = offset /\ d.size = 0 /\ d.null = TRUE
    BY <1>2, <1>3 DEF next_datum
  <2>2. PICK next : next = Append(out, Default(type_id))
    OBVIOUS
  <2>3. PICK at : at = offset
    OBVIOUS
  <2>4. Advance(at, d, next)
    BY <1>2, <2>1, <2>2, <2>3, Zenon DEF CatalogColumn
  <2>5. Fits(offset) /\ Shows(Default(type_id))
    BY <1>1, <1>3, NullRead
  <2>6. Extends(next)
    BY <1>1, <2>2, <2>5, OutputAppended
  <2>7. Fits(at + d.size)
    <3>1. Fits(offset + 0)
        BY <1>1, <2>5, NullAt
    <3> QED
        BY <2>1, <2>3, <3>1
  <2> QED
    BY <1>1, <2>1, <2>4, <2>6, <2>7, AdvanceKeepsInv
<1>4. CASE ~is_null(col)
  <2>1. PICK at : at = Aligned(type_id, offset)
    OBVIOUS
  <2>2. PICK r : r = decode_datum(type_id, at)
    OBVIOUS
  <2>3. d = [st |-> r.st, null |-> FALSE, at |-> at, value |-> r.value, size |-> r.size]
    BY <1>2, <1>4, <2>1, <2>2 DEF next_datum, get_column
  <2>4. d.st = r.st /\ d.at = at /\ d.value = r.value /\ d.size = r.size /\ d.null = FALSE
    BY <2>3
  <2>5. PICK next : next = Append(out, Datum(r.value))
    OBVIOUS
  <2>6. Advance(at, d, next)
    BY <1>2, <2>4, <2>5, Zenon DEF CatalogColumn
  <2>7. IF r.st = "ok" THEN Fits(at + r.size) /\ Shows(Datum(r.value))
        ELSE r.st \in {"error", "panic"} /\ (Stuck \/ NotText)
    BY <1>1, <1>4, <2>1, <2>2, RowRead
  <2>8. d.st = "ok" => Fits(at + d.size) /\ Extends(next)
    BY <1>1, <2>4, <2>5, <2>7, OutputAppended
  <2>9. d.st # "ok" => d.st \in {"error", "panic"} /\ Reason(projection)
    BY <1>1, <2>4, <2>7, StuckIsReason, NotTextIsReason
  <2> QED
    BY <1>1, <2>6, <2>8, <2>9, AdvanceKeepsInv
<1> QED
    BY <1>3, <1>4

LEMMA ProjectedColumnKeepsInv ==
    ASSUME DecodeInv, ProjectedColumn
    PROVE  DecodeInv'
<1>1. status = "walk" /\ path = "projected" /\ col < WalkUpTo
    BY DEF ProjectedColumn
<1>2. PICK at : at = Aligned(type_id, offset)
    OBVIOUS
<1>3. CASE SkipNull(out)
  <2>1. is_null(col)
    BY <1>3 DEF SkipNull
  <2>2. Shows(Null)
    BY <1>1, <2>1, NullRead
  <2>3. PICK next : next = out
    OBVIOUS
  <2>4. Extends(next)
    BY <1>1, <2>2, <2>3, OutputKept
  <2> QED
    BY <1>1, <1>3, <2>3, <2>4, SkipNullKeepsInv
<1>4. CASE ~is_null(col) /\ output_pos = 0 /\ Advance(at, skip_column(at), out)
  <2>1. PICK r : r = skip_datum(type_id, at)
    OBVIOUS
  <2>2. PICK next : next = out
    OBVIOUS
  <2>3. Advance(at, r, next)
    BY <1>4, <2>1, <2>2 DEF skip_column
  <2>4. IF r.st = "ok" THEN Fits(at + r.size)
        ELSE r.st \in {"error", "panic"} /\ Stuck
    BY <1>1, <1>2, <1>4, <2>1, SkipRead
  <2>5. Extends(next)
    BY <1>1, <1>4, <2>2, OutputKept
  <2> QED
    BY <1>1, <2>3, <2>4, <2>5, StuckIsReason, AdvanceKeepsInv
<1>5. CASE /\ ~is_null(col) /\ output_pos # 0
           /\ Advance(at, get_column(at), [out EXCEPT ![output_pos] = Datum(get_column(at).value)])
  <2>1. PICK r : r = decode_datum(type_id, at)
    OBVIOUS
  <2>2. PICK next : next = [out EXCEPT ![output_pos] = Datum(r.value)]
    OBVIOUS
  <2>3. Advance(at, r, next)
    BY <1>5, <2>1, <2>2 DEF get_column
  <2>4. IF r.st = "ok" THEN Fits(at + r.size) /\ Shows(Datum(r.value))
        ELSE r.st \in {"error", "panic"} /\ (Stuck \/ NotText)
    BY <1>1, <1>2, <1>5, <2>1, RowRead
  <2>5. r.st = "ok" => Fits(at + r.size) /\ Extends(next)
    BY <1>1, <1>5, <2>2, <2>4, OutputPut
  <2>6. r.st # "ok" => r.st \in {"error", "panic"} /\ Reason(projection)
    BY <1>1, <1>5, <2>4, StuckIsReason, NotTextIsReason
  <2> QED
    BY <1>1, <2>3, <2>5, <2>6, AdvanceKeepsInv
<1> QED
    BY <1>2, <1>3, <1>4, <1>5 DEF ProjectedColumn

LEMMA BatchColumnKeepsInv ==
    ASSUME DecodeInv, BatchColumn
    PROVE  DecodeInv'
<1>1. status = "walk" /\ path = "batch" /\ col < WalkUpTo
    BY DEF BatchColumn
<1>2. PICK at : at = Aligned(type_id, offset)
    OBVIOUS
<1>3. CASE SkipNull(IF output_pos = 0 THEN out ELSE [out EXCEPT ![output_pos] = Null])
  <2>1. is_null(col)
    BY <1>3 DEF SkipNull
  <2>2. Shows(Null)
    BY <1>1, <2>1, NullRead
  <2>3. PICK next : next = IF output_pos = 0 THEN out ELSE [out EXCEPT ![output_pos] = Null]
    OBVIOUS
  <2>4. Extends(next)
    <3>1. CASE output_pos = 0
        BY <1>1, <2>3, <3>1, OutputKept
    <3>2. CASE output_pos # 0
        BY <1>1, <2>2, <2>3, <3>2, OutputPut
    <3> QED
        BY <3>1, <3>2
  <2> QED
    BY <1>1, <1>3, <2>3, <2>4, SkipNullKeepsInv
<1>4. CASE ~is_null(col) /\ output_pos = 0 /\ Advance(at, skip_datum(type_id, at), out)
  <2>1. PICK r : r = skip_datum(type_id, at)
    OBVIOUS
  <2>2. PICK next : next = out
    OBVIOUS
  <2>3. Advance(at, r, next)
    BY <1>4, <2>1, <2>2
  <2>4. IF r.st = "ok" THEN Fits(at + r.size)
        ELSE r.st \in {"error", "panic"} /\ Stuck
    BY <1>1, <1>2, <1>4, <2>1, SkipRead
  <2>5. Extends(next)
    BY <1>1, <1>4, <2>2, OutputKept
  <2> QED
    BY <1>1, <2>3, <2>4, <2>5, StuckIsReason, AdvanceKeepsInv
<1>5. CASE /\ ~is_null(col) /\ output_pos # 0
           /\ Advance(at, BatchDatum(type_id, at),
                      [out EXCEPT ![output_pos] = Datum(BatchDatum(type_id, at).value)])
  <2>1. PICK r : r = BatchDatum(type_id, at)
    OBVIOUS
  <2>2. PICK next : next = [out EXCEPT ![output_pos] = Datum(r.value)]
    OBVIOUS
  <2>3. Advance(at, r, next)
    BY <1>5, <2>1, <2>2
  <2>4. IF r.st = "ok" THEN Fits(at + r.size) /\ Shows(Datum(r.value))
        ELSE r.st \in {"error", "panic"} /\ Stuck
    BY <1>1, <1>2, <1>5, <2>1, BatchRead
  <2>5. r.st = "ok" => Fits(at + r.size) /\ Extends(next)
    BY <1>1, <1>5, <2>2, <2>4, OutputPut
  <2> QED
    BY <1>1, <2>3, <2>4, <2>5, StuckIsReason, AdvanceKeepsInv
<1> QED
    BY <1>2, <1>3, <1>4, <1>5 DEF BatchColumn, BatchDatum

LEMMA FinishKeepsInv ==
    ASSUME DecodeInv, Finish
    PROVE  DecodeInv'
<1>1. /\ status = "walk" /\ UNCHANGED <<tupleVars, out>>
      /\ status' = IF \E i \in 1 .. Len(out) : out[i] = NoValue THEN "error" ELSE "ok"
      /\ col = IF path \in {"row", "catalog"} THEN Len(schema) ELSE WalkUpTo
    BY DEF Finish
<1>2. InputOK /\ ~OutOfRange /\ OutputSoFar
    BY <1>1 DEF DecodeInv, Parsed
<1>3. col = WalkUpTo
    BY <1>1, WholeWalk
<1>4. Len(projection) \in Nat /\ out = [i \in 1 .. Len(projection) |-> out[i]]
  <2>1. path \in {"row", "catalog"} => Len(projection) = col
    <3>1. ASSUME path \in {"row", "catalog"} PROVE Len(projection) = Len(schema)
        <4>1. projection = WholeSchema /\ Len(schema) \in Nat
            BY <1>2, <3>1, InputFacts DEF InputOK
        <4> QED
            BY <4>1, WholeSchemaFacts
    <3> QED
        BY <1>1, <3>1
  <2> QED
    BY <1>1, <1>2, <2>1, InputFacts DEF OutputSoFar
<1>5. Len(out) = Len(projection)
  <2>1. PICK n \in Nat : n = Len(projection)
    BY <1>4
  <2>2. out = [i \in 1 .. n |-> out[i]]
    BY <1>4, <2>1
  <2> QED
    BY <2>1, <2>2
<1>6. ASSUME NEW i \in 1 .. Len(projection), LastPlace(i)
      PROVE  out[i] # NoValue /\ (Understood(projection[i] + 1) => out[i] = Expected(projection[i]))
  <2>1. projection[i] < col
    BY <1>2, <1>3, WalkFacts
  <2> QED
    BY <1>1, <1>2, <1>6, <2>1 DEF OutputSoFar
<1>7. CASE \E i \in 1 .. Len(out) : out[i] = NoValue
  <2>1. PICK i \in 1 .. Len(projection) : out[i] = NoValue
    BY <1>5, <1>7
  <2>2. ~LastPlace(i)
    BY <1>6, <2>1
  <2>3. Cardinality(Asked(projection)) < Len(projection)
    BY <1>2, <2>2, Repeated DEF Asked
  <2>4. Reason(projection)
    BY <2>3 DEF Reason
  <2>5. status' = "error"
    BY <1>1, <1>7
  <2> QED
    BY <1>1, <2>4, <2>5, EndKeepsInv
<1>8. CASE ~\E i \in 1 .. Len(out) : out[i] = NoValue
  <2>1. status' = "ok"
    BY <1>1, <1>8
  <2>2. ValuesExact'
    <3>1. UNCHANGED inputVars /\ projection' = projection /\ out' = out
        BY <1>1 DEF tupleVars, inputVars
    <3>2. ASSUME NEW i \in 1 .. Len(projection'),
                 \A j \in i + 1 .. Len(projection') : projection'[j] # projection'[i],
                 Understood(projection[i] + 1)'
          PROVE  out'[i] = Expected(projection[i])'
        <4>1. i \in 1 .. Len(projection) /\ LastPlace(i)
            BY <3>1, <3>2 DEF LastPlace
        <4>2. /\ Understood(projection[i] + 1)' <=> Understood(projection[i] + 1)
              /\ Expected(projection[i])' = Expected(projection[i])
            BY <3>1, SamePlace
        <4> QED
            BY <1>6, <3>1, <3>2, <4>1, <4>2
    <3>3. Len(out') = Len(projection')
        BY <1>5, <3>1
    <3> QED
        BY <3>2, <3>3 DEF ValuesExact
  <2> QED
    BY <1>1, <2>1, <2>2, EndKeepsInv
<1> QED
    BY <1>7, <1>8

LEMMA NextKeepsInv ==
    ASSUME DecodeInv, [Next]_vars
    PROVE  DecodeInv'
<1>1. CASE Next
    BY <1>1, BeginRowKeepsInv, BeginBatchKeepsInv, RowColumnKeepsInv, ProjectedColumnKeepsInv,
       BatchColumnKeepsInv, CatalogColumnKeepsInv, FinishKeepsInv DEF Next
<1>2. CASE UNCHANGED vars
  <2>1. /\ types' = types /\ stored' = stored /\ raw' = raw /\ data' = data
        /\ null_bitmap' = null_bitmap /\ schema' = schema /\ path' = path /\ projection' = projection
        /\ col' = col /\ offset' = offset /\ out' = out /\ status' = status
        /\ UNCHANGED inputVars
    BY <1>2 DEF vars, tupleVars, inputVars
  <2>2. PICK n : n = col
    OBVIOUS
  <2>3. Understood(col)' <=> Understood(col)
    BY <2>1, <2>2, SameUnderstood
  <2>4. InputOK'
    BY <2>1, SameInput DEF DecodeInv
  <2>5. Parsed'
    BY <2>1 DEF DecodeInv, Parsed, OutOfRange, WalkUpTo
  <2>6. OffsetExact' /\ PastTheEnd'
    BY <2>1, <2>3 DEF DecodeInv, OffsetExact, PastTheEnd
  <2>7. ASSUME NEW i
        PROVE  /\ Understood(projection[i] + 1)' <=> Understood(projection[i] + 1)
               /\ Expected(projection[i])' = Expected(projection[i])
               /\ LastPlace(i)' <=> LastPlace(i)
    BY <2>1, SamePlace, SameInput
  <2>8. OutputSoFar'
    <3> SUFFICES ASSUME status = "walk" PROVE OutputSoFar'
        BY <2>1 DEF OutputSoFar
    <3>1. /\ out' = [i \in 1 .. (IF path' \in {"row", "catalog"} THEN col' ELSE Len(projection')) |-> out'[i]]
          /\ path' # "batch" => \A i \in DOMAIN out' : out'[i] # NoValue
        BY <2>1 DEF DecodeInv, OutputSoFar
    <3>2. ASSUME NEW i \in 1 .. Len(projection'), LastPlace(i)'
          PROVE  IF projection'[i] < col'
                   THEN /\ out'[i] # NoValue
                        /\ Understood(projection[i] + 1)' => out'[i] = Expected(projection[i])'
                   ELSE path' = "projected" => out'[i] = Null
        BY <2>1, <2>7, <3>2 DEF DecodeInv, OutputSoFar
    <3> QED
        BY <3>1, <3>2 DEF OutputSoFar
  <2>9. ValuesExact'
    <3> SUFFICES ASSUME status = "ok" PROVE ValuesExact'
        BY <2>1 DEF ValuesExact
    <3>1. Len(out') = Len(projection')
        BY <2>1 DEF DecodeInv, ValuesExact
    <3>2. ASSUME NEW i \in 1 .. Len(projection'),
                 \A j \in i + 1 .. Len(projection') : projection'[j] # projection'[i],
                 Understood(projection[i] + 1)'
          PROVE  out'[i] = Expected(projection[i])'
        BY <2>1, <2>7, <3>2 DEF DecodeInv, ValuesExact
    <3> QED
        BY <3>1, <3>2 DEF ValuesExact
  <2>10. FailsWithCause'
    <3>1. FailsWithCause <=> (status \in {"skipped", "error", "panic"} => Reason(projection))
        BY DEF FailsWithCause, Reason, Asked
    <3> QED
        BY <2>1, <3>1, SameReason DEF DecodeInv
  <2> QED
    BY <2>1, <2>4, <2>5, <2>6, <2>8, <2>9, <2>10 DEF DecodeInv
<1> QED
    BY <1>1, <1>2

-----------------------------------------------------------------------------
(* Over a table without a dropped column DecodeInv holds in every state.   *)
(* With one, every column behind it is read in its predecessor's place:    *)
(* the run decode_dropped shows it.                                        *)
THEOREM DecodeInvariant ==
    ASSUME ~MayDrop
    PROVE  Spec => []DecodeInv
<1>1. Init => DecodeInv
    BY InitDecode
<1>2. DecodeInv /\ [Next]_vars => DecodeInv'
    BY NextKeepsInv
<1> QED
    BY <1>1, <1>2, PTL DEF Spec

(* Wherever a walk has come to, it stands where heap_fill_tuple wrote the  *)
(* column: alignment, null bits and the sizes of decode_datum, skip_datum  *)
(* and extract_fixed_bytes agree with the layout, on all four paths.       *)
THEOREM Offsets ==
    ASSUME ~MayDrop
    PROVE  Spec => []OffsetExact
<1>1. DecodeInv => OffsetExact
    BY DEF DecodeInv
<1> QED
    BY <1>1, DecodeInvariant, PTL

(* A row that decode_row, decode_row_projected, to_record_batch or         *)
(* from_row returns has the stored values in the order asked for.          *)
THEOREM DecodedValues ==
    ASSUME ~MayDrop
    PROVE  Spec => []ValuesExact
<1>1. DecodeInv => ValuesExact
    BY DEF DecodeInv
<1> QED
    BY <1>1, DecodeInvariant, PTL

(* None of them gives a tuple up without a reason. *)
THEOREM DecodeFailures ==
    ASSUME ~MayDrop
    PROVE  Spec => []FailsWithCause
<1>1. DecodeInv => FailsWithCause
    BY DEF DecodeInv
<1> QED
    BY <1>1, DecodeInvariant, PTL
=============================================================================
