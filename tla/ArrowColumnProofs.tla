------------------------- MODULE ArrowColumnProofs -------------------------
(***************************************************************************)
(* The two ways of a column into a record batch, for every column, every   *)
(* number of rows and numbers of every width: each value is the stored one *)
(* in Arrow's terms, and the two ways differ only where they are known to. *)
(* What a numeric becomes is left to TLC; that both ways agree on it is    *)
(* proved here.                                                            *)
(***************************************************************************)
EXTENDS ArrowColumn, FiniteSetTheorems, SequenceTheorems, TLAPS

-----------------------------------------------------------------------------
(* Numbers. *)

(* The remainder of a number that is less than one modulus away. *)
LEMMA ModNear ==
    ASSUME NEW m \in Nat \ {0}, NEW a \in Int
    PROVE  /\ 0 <= a /\ a < m => a % m = a
           /\ -m <= a /\ a < 0 => a % m = a + m
           /\ m <= a /\ a < 2 * m => a % m = a - m
<1>1. 0 <= a /\ a < m => a % m = a
    BY SMTT(30)
<1>2. -m <= a /\ a < 0 => a % m = a + m
    BY SMTT(30)
<1>3. m <= a /\ a < 2 * m => a % m = a - m
    BY SMTT(30)
<1> QED
    BY <1>1, <1>2, <1>3

(* A number that fits its type is not changed by wrapping. *)
LEMMA WrappedFits ==
    ASSUME NEW n \in Int, Fits(n, FieldBits)
    PROVE  Wrapped(n, FieldBits) = n
<1> DEFINE h == 2 ^ (FieldBits - 1)
           m == 2 ^ FieldBits
<1>1. h \in Nat \ {0} /\ m = 2 * h
    BY FieldBitsAssumption
<1>2. -h <= n /\ n < h
    BY DEF Fits
<1>3. Wrapped(n, FieldBits) = ((n + h) % m) - h
    BY DEF Wrapped
<1> HIDE DEF h, m
<1>4. m \in Nat \ {0} /\ n + h \in Int /\ 0 <= n + h /\ n + h < m
    BY <1>1, <1>2
<1>5. (n + h) % m = n + h
    BY <1>4, ModNear
<1> QED
    BY <1>1, <1>3, <1>5

(* A bit pattern read as a signed number, and written back. *)
LEMMA PatternFacts ==
    ASSUME NEW v \in Nat, v < 2 ^ FieldBits
    PROVE  /\ Wrapped(v, FieldBits) = Integer(v)
           /\ Integer(v) \in Int
           /\ Integer(v) % 2 ^ FieldBits = v
<1> DEFINE h == 2 ^ (FieldBits - 1)
           m == 2 ^ FieldBits
<1>1. h \in Nat \ {0} /\ m = 2 * h /\ v < m
    BY FieldBitsAssumption
<1>2. Wrapped(v, FieldBits) = ((v + h) % m) - h
    BY DEF Wrapped
<1>3. Integer(v) = IF v < h THEN v ELSE v - m
    BY DEF Integer
<1> SUFFICES /\ ((v + h) % m) - h = Integer(v)
             /\ Integer(v) \in Int
             /\ Integer(v) % m = v
    BY <1>2
<1> HIDE DEF h, m
<1>4. m \in Nat \ {0}
    BY <1>1
<1>5. CASE v < h
    <2>1. 0 <= v + h /\ v + h < m /\ 0 <= v /\ v < m /\ v \in Int /\ v + h \in Int
        BY <1>1, <1>5
    <2>2. (v + h) % m = v + h /\ v % m = v
        BY <1>4, <2>1, ModNear
    <2> QED
        BY <1>1, <1>3, <1>5, <2>2
<1>6. CASE ~(v < h)
    <2>1. m <= v + h /\ v + h < 2 * m /\ -m <= v - m /\ v - m < 0
          /\ v - m \in Int /\ v + h \in Int
        BY <1>1, <1>6
    <2>2. (v + h) % m = v + h - m /\ (v - m) % m = v - m + m
        <3>1. \A a \in Int : m <= a /\ a < 2 * m => a % m = a - m
            BY <1>4, ModNear
        <3>2. \A a \in Int : -m <= a /\ a < 0 => a % m = a + m
            BY <1>4, ModNear
        <3>3. (v + h) % m = v + h - m
            BY <1>1, <1>4, <2>1, <3>1
        <3>4. (v - m) % m = v - m + m
            BY <1>1, <1>4, <2>1, <3>2
        <3> QED
            BY <3>3, <3>4
    <2>3. Integer(v) = v - m
        BY <1>3, <1>6
    <2>4. Integer(v) % m = v
        BY <1>4, <2>2, <2>3
    <2>5. ((v + h) % m) - h = v - m
        BY <1>1, <2>2
    <2> QED
        BY <2>1, <2>3, <2>4, <2>5
<1> QED
    BY <1>5, <1>6

-----------------------------------------------------------------------------
(* Names. *)

(* until_nul of a name gives what stands before its padding. *)
LEMMA UntilNulOfName ==
    ASSUME NEW v \in Seq(Nat), NEW n \in 0 .. Len(v),
           \A i \in 1 .. Len(v) : v[i] # 0 <=> i <= n
    PROVE  until_nul(v) = SubSeq(v, 1, n)
<1> DEFINE Ends(k) == /\ k = Len(v) \/ v[k + 1] = 0
                      /\ \A i \in 1 .. k : v[i] # 0
<1>1. Ends(n)
    OBVIOUS
<1>2. ASSUME NEW k \in 0 .. Len(v), Ends(k) PROVE k = n
    <2>1. ~(k < n)
        BY <1>2
    <2>2. ~(n < k)
        BY <1>2
    <2> QED
        BY <2>1, <2>2
<1>3. until_nul(v) = SubSeq(v, 1, CHOOSE k \in 0 .. Len(v) : Ends(k))
    BY DEF until_nul
<1> HIDE DEF Ends
<1>4. (CHOOSE k \in 0 .. Len(v) : Ends(k)) = n
    BY <1>1, <1>2
<1> QED
    BY <1>3, <1>4

(* A name's bytes before its padding are as many as are not zero. *)
LEMMA BytesOfName ==
    ASSUME NEW v \in Seq(Nat), NEW n \in 0 .. Len(v),
           \A i \in 1 .. Len(v) : v[i] # 0 <=> i <= n
    PROVE  [i \in 1 .. Cardinality({j \in 1 .. Len(v) : v[j] # 0}) |-> v[i]] = SubSeq(v, 1, n)
<1>1. {j \in 1 .. Len(v) : v[j] # 0} = 1 .. n
    OBVIOUS
<1>2. Cardinality(1 .. n) = n
    BY FS_Interval
<1>3. SubSeq(v, 1, n) = [i \in 1 .. n |-> v[i]]
    OBVIOUS
<1> QED
    BY <1>1, <1>2, <1>3

-----------------------------------------------------------------------------
(* Fields. *)

(* A sequence of one element, and of three. *)
LEMMA ShortSequences ==
    ASSUME NEW S, NEW v \in Seq(S)
    PROVE  /\ Len(v) = 1 => v = <<v[1]>>
           /\ Len(v) >= 1 => SubSeq(v, 1, 1) = <<v[1]>>
           /\ Len(v) = 3 => Reverse(v) = <<v[3], v[2], v[1]>>
<1>1. Len(v) = 1 => v = <<v[1]>>
    OBVIOUS
<1>2. ASSUME Len(v) >= 1 PROVE SubSeq(v, 1, 1) = <<v[1]>>
    <2> DEFINE r == SubSeq(v, 1, 1)
    <2>1. r \in Seq(S) /\ Len(r) = 1 /\ r[1] = v[1]
        BY <1>2
    <2> HIDE DEF r
    <2>2. r = <<r[1]>>
        BY <2>1
    <2> QED
        BY <2>1, <2>2 DEF r
<1>3. ASSUME Len(v) = 3 PROVE Reverse(v) = <<v[3], v[2], v[1]>>
    <2> DEFINE r == Reverse(v)
    <2>1. r = [i \in 1 .. 3 |-> v[(3 - i) + 1]]
        BY <1>3 DEF Reverse
    <2>2. r \in Seq(S) /\ Len(r) = 3 /\ r[1] = v[3] /\ r[2] = v[2] /\ r[3] = v[1]
        BY <1>3, <2>1
    <2> HIDE DEF r
    <2>3. r = <<v[3], v[2], v[1]>>
        BY <2>2
    <2> QED
        BY <2>3 DEF r
<1> QED
    BY <1>1, <1>2, <1>3

(* from_ne_bytes of bit patterns, and to_ne_bytes behind it. *)
LEMMA SignedFields ==
    ASSUME NEW v \in Seq(Nat), \A i \in 1 .. Len(v) : v[i] < 2 ^ FieldBits
    PROVE  /\ Signed(v) \in Seq(Int)
           /\ Len(Signed(v)) = Len(v)
           /\ \A i \in 1 .. Len(v) : Signed(v)[i] = Integer(v[i])
           /\ Bits(Signed(v)) = v
           /\ Bits(Reverse(Signed(v))) = Reverse(v)
<1>1. \A i \in 1 .. Len(v) : /\ Wrapped(v[i], FieldBits) = Integer(v[i])
                             /\ Integer(v[i]) \in Int
                             /\ Integer(v[i]) % 2 ^ FieldBits = v[i]
    BY PatternFacts
<1>2. Signed(v) = [i \in 1 .. Len(v) |-> Integer(v[i])]
    BY <1>1 DEF Signed
<1>3. /\ Signed(v) \in Seq(Int)
      /\ Len(Signed(v)) = Len(v)
      /\ \A i \in 1 .. Len(v) : Signed(v)[i] = Integer(v[i])
    BY <1>1, <1>2
<1>4. Bits(Signed(v)) = v
    <2>1. Bits(Signed(v)) = [i \in 1 .. Len(v) |-> v[i]]
        BY <1>1, <1>3 DEF Bits
    <2> QED
        BY <2>1
<1>5. Bits(Reverse(Signed(v))) = Reverse(v)
    <2>1. Reverse(Signed(v)) = [i \in 1 .. Len(v) |-> Integer(v[(Len(v) - i) + 1])]
        BY <1>3 DEF Reverse
    <2>2. Len(Reverse(Signed(v))) = Len(v)
        BY <2>1
    <2>3. Bits(Reverse(Signed(v))) = [i \in 1 .. Len(v) |-> v[(Len(v) - i) + 1]]
        BY <1>1, <2>1, <2>2 DEF Bits
    <2> QED
        BY <2>3 DEF Reverse
<1> QED
    BY <1>3, <1>4, <1>5

-----------------------------------------------------------------------------
(* What a cell is, and what the paths make of it. *)

(* A cell of a column that is no numeric. *)
LEMMA CellFacts ==
    ASSUME column \in Columns, column.type # "Numeric", NEW c \in CellsOf(column)
    PROVE  /\ column.type \in PgTypeId
           /\ c.number = <<>>
           /\ c.form \in {"null", "value"}
           /\ c.form = "null" => column.nullable
           /\ c.form = "null" => c.fields = <<>>
           /\ c.form # "null" => WellFormed(column.type, c.fields)
<1>1. column.type \in PgTypeId /\ column.type \in DOMAIN StoredValues
    BY ArrowColumnAssumption
<1>2. CASE column.nullable /\ c = NullCell
    BY <1>1, <1>2 DEF NullCell
<1>3. CASE \E v \in StoredValues[column.type] : c = Cell(v)
    BY <1>1, <1>3, ArrowColumnAssumption DEF Cell
<1> QED
    BY <1>2, <1>3 DEF CellsOf

(* A null is a null on both paths. *)
LEMMA NullOutcome ==
    ASSUME column \in Columns, NEW c, c.form = "null", NEW p \in Paths
    PROVE  DatumOf(c) = Datum("Null", <<>>) /\ ~Refused(DatumOf(c)) /\ Outcome(p, c) = GotNull
<1>1. DatumOf(c) = Datum("Null", <<>>)
    BY DEF DatumOf
<1>2. ~Refused(DatumOf(c))
    BY <1>1 DEF Datum, Refused
<1>3. \A type, variants, outcome :
         Arm(type, variants, Datum("Null", <<>>), outcome).cell = GotNull
    BY DEF Arm, Datum
<1>4. build_arrow_array(column, Datum("Null", <<>>)).cell = GotNull
    BY <1>3, SMTT(30)
       DEF build_arrow_array, build_scalar, build_interval, build_string, build_numeric,
           build_name, build_binary, build_tid, build_fixed_binary, build_fallback
<1> QED
    BY <1>1, <1>2, <1>4 DEF Outcome, Paths

(* Which types have a fixed length. *)
LEMMA TypeLengths ==
    ASSUME NEW t
    PROVE  /\ t \in {"Bool", "Name", "Aclitem", "Timetz", "Interval", "Tid"} \cup SignedTypes
                    \cup UnsignedTypes \cup FloatTypes \cup FixedBinaryTypes => type_len(t) # 0
           /\ t \in {"Numeric"} \cup StringTypes \cup BlobTypes \cup ArrayTypes => type_len(t) = 0
<1>1. t \in {"Bool", "Name", "Aclitem", "Timetz", "Interval", "Tid"} => type_len(t) # 0
    BY SMTT(30) DEF type_len
<1>2. t \in SignedTypes => type_len(t) # 0
    BY SMTT(30) DEF type_len, SignedTypes
<1>3. t \in UnsignedTypes \cup FloatTypes => type_len(t) # 0
    BY SMTT(30) DEF type_len, UnsignedTypes, FloatTypes
<1>4. t \in FixedBinaryTypes => type_len(t) # 0
    BY SMTT(30) DEF type_len, FixedBinaryTypes
<1>5. t \in {"Numeric"} \cup StringTypes \cup BlobTypes => type_len(t) = 0
    BY SMTT(30) DEF type_len, StringTypes, BlobTypes
<1>6. t \in ArrayTypes => type_len(t) = 0
    BY SMTT(30) DEF type_len, ArrayTypes
<1> QED
    BY <1>1, <1>2, <1>3, <1>4, <1>5, <1>6

(* decode_fixed, by type. *)
LEMMA DecodeFixed ==
    ASSUME NEW t, NEW v
    PROVE  /\ t = "Bool" => decode_fixed(t, v) = Datum(t, <<IF v[1] # 0 THEN 1 ELSE 0>>)
           /\ t \in SignedTypes \cup {"Timetz", "Interval"} => decode_fixed(t, v) = Datum(t, Signed(v))
           /\ t \in UnsignedTypes \cup FloatTypes \cup FixedBinaryTypes \cup {"Tid"} =>
                decode_fixed(t, v) = Datum(t, v)
           /\ t = "Aclitem" => decode_fixed(t, v) = Datum("RawBytes", v)
<1>1. ASSUME t = "Bool"
      PROVE  decode_fixed(t, v) = Datum(t, <<IF v[1] # 0 THEN 1 ELSE 0>>)
    BY <1>1, SMTT(30)
       DEF decode_fixed, SignedTypes, UnsignedTypes, FloatTypes, FixedBinaryTypes
<1>2. ASSUME t \in SignedTypes \cup {"Timetz", "Interval"}
      PROVE  decode_fixed(t, v) = Datum(t, Signed(v))
    BY <1>2, SMTT(30)
       DEF decode_fixed, SignedTypes, UnsignedTypes, FloatTypes, FixedBinaryTypes
<1>3. ASSUME t \in UnsignedTypes \cup FloatTypes \cup {"Tid"}
      PROVE  decode_fixed(t, v) = Datum(t, v)
    BY <1>3, SMTT(30)
       DEF decode_fixed, SignedTypes, UnsignedTypes, FloatTypes, FixedBinaryTypes
<1>4. ASSUME t \in FixedBinaryTypes
      PROVE  decode_fixed(t, v) = Datum(t, v)
    BY <1>4, SMTT(30)
       DEF decode_fixed, SignedTypes, UnsignedTypes, FloatTypes, FixedBinaryTypes
<1>5. ASSUME t = "Aclitem"
      PROVE  decode_fixed(t, v) = Datum("RawBytes", v)
    BY <1>5, SMTT(30)
       DEF decode_fixed, SignedTypes, UnsignedTypes, FloatTypes, FixedBinaryTypes
<1> QED
    BY <1>1, <1>2, <1>3, <1>4, <1>5

(* A name becomes a text. *)
LEMMA DecodeName ==
    ASSUME NEW v, NEW name, name = until_nul(v)
    PROVE  decode_fixed("Name", v) =
             IF ValidUtf8(name) THEN Datum("Text", name) ELSE Datum("panic", <<>>)
    BY SMTT(30)
       DEF decode_fixed, SignedTypes, UnsignedTypes, FloatTypes, FixedBinaryTypes

(* decode_varlena, by type. *)
LEMMA DecodeVarlena ==
    ASSUME NEW t, NEW v
    PROVE  /\ t \in StringTypes => 
                decode_varlena(t, v) = IF ValidUtf8(v) THEN Datum(t, v) ELSE Datum("error", <<>>)
           /\ t \in BlobTypes \cup {"Numeric"} => decode_varlena(t, v) = Datum(t, v)
           /\ t \in ArrayTypes => decode_varlena(t, v) = Datum("RawBytes", v)
<1>1. ASSUME t \in StringTypes
      PROVE  decode_varlena(t, v) = IF ValidUtf8(v) THEN Datum(t, v) ELSE Datum("error", <<>>)
    BY <1>1, SMTT(30)
       DEF decode_varlena, StringTypes, BlobTypes, ArrayTypes
<1>2. ASSUME t \in BlobTypes \cup {"Numeric"}
      PROVE  decode_varlena(t, v) = Datum(t, v)
    BY <1>2, SMTT(30)
       DEF decode_varlena, StringTypes, BlobTypes, ArrayTypes
<1>3. ASSUME t \in ArrayTypes
      PROVE  decode_varlena(t, v) = Datum("RawBytes", v)
    BY <1>3, SMTT(30)
       DEF decode_varlena, StringTypes, BlobTypes, ArrayTypes
<1> QED
    BY <1>1, <1>2, <1>3

(* Which arm of build_arrow_array a column gets. *)
LEMMA ArmOfScalar ==
    ASSUME NEW d, column.type \in {"Bool", "Timetz"} \cup SignedTypes \cup UnsignedTypes \cup FloatTypes
    PROVE  build_arrow_array(column, d) = build_scalar(column.type, d)
BY SMTT(30)
   DEF build_arrow_array, SignedTypes, UnsignedTypes, FloatTypes, StringTypes, BlobTypes,
       FixedBinaryTypes, ArrayTypes

LEMMA ArmOfInterval ==
    ASSUME NEW d, column.type = "Interval"
    PROVE  build_arrow_array(column, d) = build_interval(d)
BY SMTT(30)
   DEF build_arrow_array, SignedTypes, UnsignedTypes, FloatTypes, StringTypes, BlobTypes,
       FixedBinaryTypes, ArrayTypes

LEMMA ArmOfString ==
    ASSUME NEW d, column.type \in StringTypes
    PROVE  build_arrow_array(column, d) = build_string(d)
BY SMTT(30)
   DEF build_arrow_array, SignedTypes, UnsignedTypes, FloatTypes, StringTypes, BlobTypes,
       FixedBinaryTypes, ArrayTypes

LEMMA ArmOfNumeric ==
    ASSUME NEW d, column.type = "Numeric"
    PROVE  build_arrow_array(column, d) = build_numeric(column.typmod, d)
BY SMTT(30)
   DEF build_arrow_array, SignedTypes, UnsignedTypes, FloatTypes, StringTypes, BlobTypes,
       FixedBinaryTypes, ArrayTypes

LEMMA ArmOfName ==
    ASSUME NEW d, column.type = "Name"
    PROVE  build_arrow_array(column, d) = build_name(d)
BY SMTT(30)
   DEF build_arrow_array, SignedTypes, UnsignedTypes, FloatTypes, StringTypes, BlobTypes,
       FixedBinaryTypes, ArrayTypes

LEMMA ArmOfBinary ==
    ASSUME NEW d, column.type \in BlobTypes \cup {"Aclitem"}
    PROVE  build_arrow_array(column, d) = build_binary(d)
BY SMTT(30)
   DEF build_arrow_array, SignedTypes, UnsignedTypes, FloatTypes, StringTypes, BlobTypes,
       FixedBinaryTypes, ArrayTypes

LEMMA ArmOfTid ==
    ASSUME NEW d, column.type = "Tid"
    PROVE  build_arrow_array(column, d) = build_tid(d)
BY SMTT(30)
   DEF build_arrow_array, SignedTypes, UnsignedTypes, FloatTypes, StringTypes, BlobTypes,
       FixedBinaryTypes, ArrayTypes

LEMMA ArmOfFixedBinary ==
    ASSUME NEW d, column.type \in FixedBinaryTypes
    PROVE  build_arrow_array(column, d) = build_fixed_binary(column.type, d)
BY SMTT(30)
   DEF build_arrow_array, SignedTypes, UnsignedTypes, FloatTypes, StringTypes, BlobTypes,
       FixedBinaryTypes, ArrayTypes

LEMMA ArmOfArray ==
    ASSUME NEW d, column.type \in ArrayTypes
    PROVE  build_arrow_array(column, d) = build_fallback(d)
BY SMTT(30)
   DEF build_arrow_array, SignedTypes, UnsignedTypes, FloatTypes, StringTypes, BlobTypes,
       FixedBinaryTypes, ArrayTypes

(* An arm takes a datum of its variants. *)
LEMMA ArmTakes ==
    ASSUME NEW type, NEW variants, NEW t \in variants, t # "Null", NEW x, NEW outcome
    PROVE  Arm(type, variants, Datum(t, x), outcome).cell = outcome
    BY DEF Arm, Datum

(* What a value must be, by type. *)
LEMMA MeaningTemporal ==
    ASSUME NEW p, NEW v,
           column.type \in Temporal
    PROVE  Meaning(p, v) = <<Integer(v[1]) + IF p = "batch" THEN EpochOf(column.type) ELSE 0>>
BY SMTT(30)
   DEF Meaning, Temporal, SignedTypes, UnsignedTypes, FloatTypes, StringTypes, BlobTypes,
       FixedBinaryTypes, ArrayTypes

LEMMA MeaningNumber ==
    ASSUME NEW p, NEW v,
           column.type \in (SignedTypes \ Temporal) \cup {"Timetz"}
    PROVE  Meaning(p, v) = <<Integer(v[1])>>
BY SMTT(30)
   DEF Meaning, Temporal, SignedTypes, UnsignedTypes, FloatTypes, StringTypes, BlobTypes,
       FixedBinaryTypes, ArrayTypes

LEMMA MeaningInterval ==
    ASSUME NEW p, NEW v,
           column.type = "Interval"
    PROVE  Meaning(p, v) = <<v[3], v[2], v[1]>>
BY SMTT(30)
   DEF Meaning, Temporal, SignedTypes, UnsignedTypes, FloatTypes, StringTypes, BlobTypes,
       FixedBinaryTypes, ArrayTypes

LEMMA MeaningName ==
    ASSUME NEW p, NEW v,
           column.type = "Name"
    PROVE  Meaning(p, v) = NameMeaning(v)
BY SMTT(30)
   DEF Meaning, Temporal, SignedTypes, UnsignedTypes, FloatTypes, StringTypes, BlobTypes,
       FixedBinaryTypes, ArrayTypes

LEMMA MeaningText ==
    ASSUME NEW p, NEW v,
           column.type \in StringTypes
    PROVE  Meaning(p, v) = TextMeaning(v)
BY SMTT(30)
   DEF Meaning, Temporal, SignedTypes, UnsignedTypes, FloatTypes, StringTypes, BlobTypes,
       FixedBinaryTypes, ArrayTypes

LEMMA MeaningSame ==
    ASSUME NEW p, NEW v,
           column.type \in {"Bool", "Tid", "Aclitem"} \cup UnsignedTypes \cup FloatTypes
                              \cup BlobTypes \cup FixedBinaryTypes \cup ArrayTypes
    PROVE  Meaning(p, v) = v
BY SMTT(30)
   DEF Meaning, Temporal, SignedTypes, UnsignedTypes, FloatTypes, StringTypes, BlobTypes,
       FixedBinaryTypes, ArrayTypes

(* The row path: every value but a name, and a text that is not UTF-8,     *)
(* gets through and keeps its meaning.                                     *)
LEMMA RowOutcome ==
    ASSUME column \in Columns, column.type # "Numeric",
           NEW c \in CellsOf(column), c.form # "null"
    PROVE  /\ column.type \notin {"Name"} \cup StringTypes =>
                ~Refused(DatumOf(c)) /\ Outcome("row", c) = Got(Meaning("row", c.fields))
           /\ column.type \in StringTypes /\ ~NotText(c) =>
                ~Refused(DatumOf(c)) /\ Outcome("row", c) = Got(Meaning("row", c.fields))
           /\ column.type \in StringTypes /\ NotText(c) => DatumOf(c).variant = "error"
           /\ column.type = "Name" =>
                Refused(DatumOf(c)) \/ Outcome("row", c).st = "error"
<1>1. PICK t : t = column.type
    OBVIOUS
<1>2. PICK v : v = c.fields
    OBVIOUS
<1>3. t \in PgTypeId /\ t # "Numeric" /\ WellFormed(t, v)
    BY <1>1, <1>2, CellFacts
<1>4. v \in Seq(Nat)
    BY <1>3 DEF WellFormed
<1>5. DatumOf(c) = IF type_len(t) # 0 THEN decode_fixed(t, v) ELSE decode_varlena(t, v)
    BY <1>1, <1>2 DEF DatumOf, decode_datum
<1>6. Outcome("row", c) = build_arrow_array(column, DatumOf(c)).cell
    BY DEF Outcome
<1>7. ASSUME NEW x PROVE ~Refused(Datum(t, x))
    BY <1>3
       DEF Refused, Datum, PgTypeId, SignedTypes, UnsignedTypes, FloatTypes, StringTypes,
           BlobTypes, FixedBinaryTypes, ArrayTypes
<1>8. t # "Null"
    BY <1>3
       DEF PgTypeId, SignedTypes, UnsignedTypes, FloatTypes, StringTypes,
           BlobTypes, FixedBinaryTypes, ArrayTypes
<1>9. CASE t \in SignedTypes
    <2>1. Len(v) = 1 /\ \A i \in 1 .. Len(v) : v[i] < 2 ^ FieldBits
        BY <1>3, <1>9 DEF WellFormed, NumberTypes, SignedTypes, FieldCount
    <2>2. Signed(v) = <<Integer(v[1])>> /\ Integer(v[1]) \in Int
        BY <1>4, <2>1, SignedFields, ShortSequences, PatternFacts
    <2>3. DatumOf(c) = Datum(t, Signed(v))
        BY <1>5, <1>9, TypeLengths, DecodeFixed
    <2>4. Outcome("row", c) = Got(Signed(v))
        <3>1. build_scalar(t, Datum(t, Signed(v))).cell = Got(Signed(v))
            BY <1>8, <1>9, ArmTakes DEF build_scalar, Datum, SignedTypes
        <3> QED
            BY <1>1, <1>6, <1>9, <2>3, <3>1, ArmOfScalar
    <2>5. Meaning("row", v) = <<Integer(v[1])>>
        <3>1. CASE t \in Temporal
            <4>1. Meaning("row", v) = <<Integer(v[1]) + 0>>
                BY <1>1, <3>1, MeaningTemporal
            <4> QED
                BY <2>2, <4>1
        <3>2. CASE t \notin Temporal
            BY <1>1, <1>9, <3>2, MeaningNumber
        <3> QED
            BY <3>1, <3>2
    <2>6. t \notin {"Name"} \cup StringTypes
        BY <1>9 DEF SignedTypes, StringTypes
    <2> QED
        BY <1>1, <1>2, <1>7, <2>2, <2>3, <2>4, <2>5, <2>6
<1>10. CASE t = "Timetz"
    <2>1. Len(v) = 2 /\ \A i \in 1 .. Len(v) : v[i] < 2 ^ FieldBits
        BY <1>3, <1>10 DEF WellFormed, NumberTypes, FieldCount
    <2>2. SubSeq(Signed(v), 1, 1) = <<Integer(v[1])>>
        BY <1>4, <2>1, SignedFields, ShortSequences
    <2>3. DatumOf(c) = Datum(t, Signed(v))
        BY <1>5, <1>10, TypeLengths, DecodeFixed
    <2>4. Outcome("row", c) = Got(SubSeq(Signed(v), 1, 1))
        <3>1. build_scalar(t, Datum(t, Signed(v))).cell = Got(SubSeq(Signed(v), 1, 1))
            BY <1>8, <1>10, ArmTakes DEF build_scalar, Datum
        <3> QED
            BY <1>1, <1>6, <1>10, <2>3, <3>1, ArmOfScalar
    <2>5. Meaning("row", v) = <<Integer(v[1])>>
        BY <1>1, <1>10, MeaningNumber
    <2>6. t \notin {"Name"} \cup StringTypes
        BY <1>10 DEF StringTypes
    <2> QED
        BY <1>1, <1>2, <1>7, <2>2, <2>3, <2>4, <2>5, <2>6
<1>11. CASE t = "Interval"
    <2>1. Len(v) = 3 /\ \A i \in 1 .. Len(v) : v[i] < 2 ^ FieldBits
        BY <1>3, <1>11 DEF WellFormed, NumberTypes, FieldCount
    <2>2. Bits(Reverse(Signed(v))) = <<v[3], v[2], v[1]>>
        BY <1>4, <2>1, SignedFields, ShortSequences
    <2>3. DatumOf(c) = Datum(t, Signed(v))
        BY <1>5, <1>11, TypeLengths, DecodeFixed
    <2>4. Outcome("row", c) = Got(Bits(Reverse(Signed(v))))
        <3>1. build_interval(Datum(t, Signed(v))).cell = Got(Bits(Reverse(Signed(v))))
            BY <1>11, ArmTakes DEF build_interval, Datum
        <3> QED
            BY <1>1, <1>6, <1>11, <2>3, <3>1, ArmOfInterval
    <2>5. Meaning("row", v) = <<v[3], v[2], v[1]>>
        BY <1>1, <1>11, MeaningInterval
    <2>6. t \notin {"Name"} \cup StringTypes
        BY <1>11 DEF StringTypes
    <2> QED
        BY <1>1, <1>2, <1>7, <2>2, <2>3, <2>4, <2>5, <2>6
<1>12. CASE t = "Bool"
    <2>1. v \in {<<0>>, <<1>>}
        BY <1>3, <1>12 DEF WellFormed
    <2>2. <<IF v[1] # 0 THEN 1 ELSE 0>> = v
        BY <2>1
    <2>3. DatumOf(c) = Datum(t, v)
        BY <1>5, <1>12, <2>2, TypeLengths, DecodeFixed
    <2>4. Outcome("row", c) = Got(v)
        <3>1. build_scalar(t, Datum(t, v)).cell = Got(v)
            BY <1>8, <1>12, ArmTakes DEF build_scalar, Datum
        <3> QED
            BY <1>1, <1>6, <1>12, <2>3, <3>1, ArmOfScalar
    <2>5. Meaning("row", v) = v
        BY <1>1, <1>12, MeaningSame
    <2>6. t \notin {"Name"} \cup StringTypes
        BY <1>12 DEF StringTypes
    <2> QED
        BY <1>1, <1>2, <1>7, <2>3, <2>4, <2>5, <2>6
<1>13. CASE t \in UnsignedTypes \cup FloatTypes
    <2>1. DatumOf(c) = Datum(t, v)
        BY <1>5, <1>13, TypeLengths, DecodeFixed
    <2>2. Outcome("row", c) = Got(v)
        <3>1. t # "Timetz"
            BY <1>13 DEF UnsignedTypes, FloatTypes
        <3>2. build_scalar(t, Datum(t, v)).cell = Got(v)
            BY <1>8, <3>1, ArmTakes DEF build_scalar, Datum
        <3> QED
            BY <1>1, <1>6, <1>13, <2>1, <3>2, ArmOfScalar
    <2>3. Meaning("row", v) = v
        BY <1>1, <1>13, MeaningSame
    <2>4. t \notin {"Name"} \cup StringTypes
        BY <1>13 DEF UnsignedTypes, FloatTypes, StringTypes
    <2> QED
        BY <1>1, <1>2, <1>7, <2>1, <2>2, <2>3, <2>4
<1>14. CASE t = "Tid"
    <2>1. \A i \in 1 .. Len(v) : v[i] < 2 ^ FieldBits
        BY <1>3, <1>14 DEF WellFormed, NumberTypes
    <2>2. Bits(v) = v
        <3>1. \A i \in 1 .. Len(v) : v[i] % 2 ^ FieldBits = v[i]
            BY <1>4, <2>1, ModNear, FieldBitsAssumption
        <3>2. Bits(v) = [i \in 1 .. Len(v) |-> v[i]]
            BY <3>1 DEF Bits
        <3> QED
            BY <1>4, <3>2
    <2>3. DatumOf(c) = Datum(t, v)
        BY <1>5, <1>14, TypeLengths, DecodeFixed
    <2>4. Outcome("row", c) = Got(Bits(v))
        <3>1. build_tid(Datum(t, v)).cell = Got(Bits(v))
            BY <1>14, ArmTakes DEF build_tid, Datum
        <3> QED
            BY <1>1, <1>6, <1>14, <2>3, <3>1, ArmOfTid
    <2>5. Meaning("row", v) = v
        BY <1>1, <1>14, MeaningSame
    <2>6. t \notin {"Name"} \cup StringTypes
        BY <1>14 DEF StringTypes
    <2> QED
        BY <1>1, <1>2, <1>7, <2>2, <2>3, <2>4, <2>5, <2>6
<1>15. CASE t \in FixedBinaryTypes
    <2>1. DatumOf(c) = Datum(t, v)
        BY <1>5, <1>15, TypeLengths, DecodeFixed
    <2>2. Outcome("row", c) = Got(v)
        <3>1. build_fixed_binary(t, Datum(t, v)).cell = Got(v)
            BY <1>8, <1>15, ArmTakes DEF build_fixed_binary, Datum
        <3> QED
            BY <1>1, <1>6, <1>15, <2>1, <3>1, ArmOfFixedBinary
    <2>3. Meaning("row", v) = v
        BY <1>1, <1>15, MeaningSame
    <2>4. t \notin {"Name"} \cup StringTypes
        BY <1>15 DEF FixedBinaryTypes, StringTypes
    <2> QED
        BY <1>1, <1>2, <1>7, <2>1, <2>2, <2>3, <2>4
<1>16. CASE t = "Aclitem" \/ t \in ArrayTypes
    <2>1. DatumOf(c) = Datum("RawBytes", v)
        <3>1. CASE t = "Aclitem"
            BY <1>5, <3>1, TypeLengths, DecodeFixed
        <3>2. CASE t \in ArrayTypes
            BY <1>5, <3>2, TypeLengths, DecodeVarlena
        <3> QED
            BY <1>16, <3>1, <3>2
    <2>2. /\ build_binary(Datum("RawBytes", v)).cell = Got(v)
          /\ build_fallback(Datum("RawBytes", v)).cell = Got(v)
        BY DEF build_binary, build_fallback, Arm, Datum
    <2>3. Outcome("row", c) = Got(v)
        <3>1. CASE t = "Aclitem"
            BY <1>1, <1>6, <2>1, <2>2, <3>1, ArmOfBinary
        <3>2. CASE t \in ArrayTypes
            BY <1>1, <1>6, <2>1, <2>2, <3>2, ArmOfArray
        <3> QED
            BY <1>16, <3>1, <3>2
    <2>4. Meaning("row", v) = v
        BY <1>1, <1>16, MeaningSame
    <2>5. t \notin {"Name"} \cup StringTypes
        BY <1>16 DEF StringTypes, ArrayTypes
    <2>6. ~Refused(DatumOf(c))
        BY <2>1 DEF Refused, Datum
    <2> QED
        BY <1>1, <1>2, <2>3, <2>4, <2>5, <2>6
<1>17. CASE t \in BlobTypes
    <2>1. DatumOf(c) = Datum(t, v)
        BY <1>5, <1>17, TypeLengths, DecodeVarlena
    <2>2. Outcome("row", c) = Got(v)
        <3>1. build_binary(Datum(t, v)).cell = Got(v)
            BY <1>8, <1>17, ArmTakes DEF build_binary, Datum
        <3> QED
            BY <1>1, <1>6, <1>17, <2>1, <3>1, ArmOfBinary
    <2>3. Meaning("row", v) = v
        BY <1>1, <1>17, MeaningSame
    <2>4. t \notin {"Name"} \cup StringTypes
        BY <1>17 DEF BlobTypes, StringTypes
    <2> QED
        BY <1>1, <1>2, <1>7, <2>1, <2>2, <2>3, <2>4
<1>18. CASE t \in StringTypes
    <2>1. NotText(c) <=> ~ValidUtf8(v)
        BY <1>2, <1>4 DEF NotText, ValidUtf8
    <2>2. DatumOf(c) = IF ValidUtf8(v) THEN Datum(t, v) ELSE Datum("error", <<>>)
        BY <1>5, <1>18, TypeLengths, DecodeVarlena
    <2>3. ASSUME ValidUtf8(v) PROVE Outcome("row", c) = Got(v)
        <3>1. build_string(Datum(t, v)).cell = Got(v)
            BY <1>8, <1>18, ArmTakes DEF build_string, Datum
        <3> QED
            BY <1>1, <1>6, <1>18, <2>2, <2>3, <3>1, ArmOfString
    <2>4. ASSUME ValidUtf8(v) PROVE Meaning("row", v) = v
        <3>1. Meaning("row", v) = TextMeaning(v)
            BY <1>1, <1>18, MeaningText
        <3>2. TextMeaning(v) = [i \in 1 .. Len(v) |-> v[i]]
            BY <2>4 DEF ValidUtf8, TextMeaning
        <3> QED
            BY <1>4, <3>1, <3>2
    <2>5. t # "Name"
        BY <1>18 DEF StringTypes
    <2>6. ASSUME ~NotText(c)
          PROVE  ~Refused(DatumOf(c)) /\ Outcome("row", c) = Got(Meaning("row", c.fields))
        BY <1>2, <1>7, <2>1, <2>2, <2>3, <2>4, <2>6
    <2>7. ASSUME NotText(c) PROVE DatumOf(c).variant = "error"
        BY <2>1, <2>2, <2>7 DEF Datum
    <2> QED
        BY <1>1, <1>18, <2>5, <2>6, <2>7
<1>19. CASE t = "Name"
    <2>1. PICK name : name = until_nul(v)
        OBVIOUS
    <2>2. DatumOf(c) = IF ValidUtf8(name) THEN Datum("Text", name) ELSE Datum("panic", <<>>)
        BY <1>5, <1>19, <2>1, TypeLengths, DecodeName
    <2>3. CASE ValidUtf8(name)
        <3>1. build_name(Datum("Text", name)).cell.st = "error"
            BY DEF build_name, Arm, Datum, Fails
        <3>2. Outcome("row", c).st = "error"
            BY <1>1, <1>6, <1>19, <2>2, <2>3, <3>1, ArmOfName
        <3> QED
            BY <1>1, <1>19, <3>2 DEF StringTypes
    <2>4. CASE ~ValidUtf8(name)
        <3>1. Refused(DatumOf(c))
            BY <2>2, <2>4 DEF Refused, Datum
        <3> QED
            BY <1>1, <1>19, <3>1 DEF StringTypes
    <2> QED
        BY <2>3, <2>4
<1> QED
    BY <1>3, <1>9, <1>10, <1>11, <1>12, <1>13, <1>14, <1>15, <1>16, <1>17, <1>18, <1>19
       DEF PgTypeId

(* Which arm of append_bytes a column gets. *)
LEMMA AppendBool ==
    ASSUME NEW v, column.type = "Bool"
    PROVE  append_bytes(column, v) = Got(<<IF v[1] # 0 THEN 1 ELSE 0>>)
BY SMTT(30)
   DEF append_bytes, SignedTypes, UnsignedTypes, FloatTypes, StringTypes, BlobTypes,
       FixedBinaryTypes, ArrayTypes

LEMMA AppendEpoch ==
    ASSUME NEW v, column.type \in {"Date", "Timestamp", "Timestamptz"}
    PROVE  append_bytes(column, v) = append_epoch(column.type, v)
BY SMTT(30)
   DEF append_bytes, SignedTypes, UnsignedTypes, FloatTypes, StringTypes, BlobTypes,
       FixedBinaryTypes, ArrayTypes

LEMMA AppendSigned ==
    ASSUME NEW v, column.type \in SignedTypes \ {"Date", "Timestamp", "Timestamptz"}
    PROVE  append_bytes(column, v) = Got(Signed(v))
BY SMTT(30)
   DEF append_bytes, SignedTypes, UnsignedTypes, FloatTypes, StringTypes, BlobTypes,
       FixedBinaryTypes, ArrayTypes

LEMMA AppendTimetz ==
    ASSUME NEW v, column.type = "Timetz"
    PROVE  append_bytes(column, v) = Got(SubSeq(Signed(v), 1, 1))
BY SMTT(30)
   DEF append_bytes, SignedTypes, UnsignedTypes, FloatTypes, StringTypes, BlobTypes,
       FixedBinaryTypes, ArrayTypes

LEMMA AppendInterval ==
    ASSUME NEW v, column.type = "Interval"
    PROVE  append_bytes(column, v) = Got(Reverse(v))
BY SMTT(30)
   DEF append_bytes, SignedTypes, UnsignedTypes, FloatTypes, StringTypes, BlobTypes,
       FixedBinaryTypes, ArrayTypes

LEMMA AppendName ==
    ASSUME NEW v, column.type = "Name"
    PROVE  append_bytes(column, v) = append_name(v)
BY SMTT(30)
   DEF append_bytes, SignedTypes, UnsignedTypes, FloatTypes, StringTypes, BlobTypes,
       FixedBinaryTypes, ArrayTypes

LEMMA AppendString ==
    ASSUME NEW v, column.type \in StringTypes
    PROVE  append_bytes(column, v) = Got(from_utf8_lossy(v))
BY SMTT(30)
   DEF append_bytes, SignedTypes, UnsignedTypes, FloatTypes, StringTypes, BlobTypes,
       FixedBinaryTypes, ArrayTypes

LEMMA AppendNumeric ==
    ASSUME NEW v, column.type = "Numeric"
    PROVE  append_bytes(column, v) = NumericOutcome(v, new_inner(column.type, column.typmod))
BY SMTT(30)
   DEF append_bytes, SignedTypes, UnsignedTypes, FloatTypes, StringTypes, BlobTypes,
       FixedBinaryTypes, ArrayTypes

LEMMA AppendFixedBinary ==
    ASSUME NEW v, column.type \in FixedBinaryTypes
    PROVE  append_bytes(column, v) = 
             IF new_inner(column.type, column.typmod).args = <<type_len(column.type)>>
               THEN Got(v) ELSE Fails("error")
BY SMTT(30)
   DEF append_bytes, SignedTypes, UnsignedTypes, FloatTypes, StringTypes, BlobTypes,
       FixedBinaryTypes, ArrayTypes

LEMMA AppendBytes ==
    ASSUME NEW v, column.type \in {"Tid", "Aclitem"} \cup UnsignedTypes \cup FloatTypes \cup BlobTypes
                             \cup ArrayTypes
    PROVE  append_bytes(column, v) = Got(v)
BY SMTT(30)
   DEF append_bytes, SignedTypes, UnsignedTypes, FloatTypes, StringTypes, BlobTypes,
       FixedBinaryTypes, ArrayTypes

(* The builder of a column of fixed-size binaries has their size. *)
LEMMA FixedBinaryBuilder ==
    ASSUME NEW t \in FixedBinaryTypes, NEW typmod
    PROVE  new_inner(t, typmod) = DataType("FixedSizeBinary", <<type_len(t)>>)
BY SMTT(30)
   DEF new_inner, SignedTypes, UnsignedTypes, FloatTypes, StringTypes, BlobTypes,
       FixedBinaryTypes, ArrayTypes

(* A date or a timestamp moves to 1970. *)
LEMMA AppendShifted ==
    ASSUME NEW t, NEW v \in Seq(Nat), NEW n, n = Integer(v[1]) + EpochOf(t),
           Len(v) = 1, \A i \in 1 .. Len(v) : v[i] < 2 ^ FieldBits
    PROVE  append_epoch(t, v) =
             IF debug /\ ~Fits(n, FieldBits) THEN Fails("panic")
                                             ELSE Got(<<Wrapped(n, FieldBits)>>)
<1>1. Signed(v)[1] = Integer(v[1])
    BY SignedFields, SMTT(30)
<1>2. PICK x : x = Shifted(Signed(v)[1], EpochOf(t))
    OBVIOUS
<1>3. x.n = Wrapped(n, FieldBits) /\ (x.over <=> ~Fits(n, FieldBits))
    BY <1>1, <1>2 DEF Shifted, Unchecked, Number
<1>4. append_epoch(t, v) = IF debug /\ x.over THEN Fails("panic") ELSE Got(<<x.n>>)
    BY <1>2 DEF append_epoch
<1> QED
    BY <1>3, <1>4

(* The batch path: every value gets through and keeps its meaning, but for *)
(* a date or a timestamp that cannot be moved to 1970.                     *)
LEMMA BatchOutcome ==
    ASSUME column \in Columns, column.type # "Numeric",
           NEW c \in CellsOf(column), c.form # "null"
    PROVE  /\ column.type \in Temporal =>
                Outcome("batch", c) =
                  IF debug /\ Unshiftable(c) THEN Fails("panic")
                  ELSE Got(<<Wrapped(Integer(c.fields[1]) + EpochOf(column.type), FieldBits)>>)
           /\ ~Unshiftable(c) => Outcome("batch", c) = Got(Meaning("batch", c.fields))
<1>1. PICK t : t = column.type
    OBVIOUS
<1>2. PICK v : v = c.fields
    OBVIOUS
<1>3. t \in PgTypeId /\ t # "Numeric" /\ WellFormed(t, v)
    BY <1>1, <1>2, CellFacts
<1>4. v \in Seq(Nat)
    BY <1>3 DEF WellFormed
<1>5. Outcome("batch", c) = append_bytes(column, v)
    BY <1>2 DEF Outcome
<1>6. CASE t \in Temporal
    <2>1. Len(v) = 1 /\ \A i \in 1 .. Len(v) : v[i] < 2 ^ FieldBits
        BY <1>3, <1>6 DEF WellFormed, NumberTypes, SignedTypes, FieldCount, Temporal
    <2>2. PICK n : n = Integer(v[1]) + EpochOf(t)
        OBVIOUS
    <2>3. n \in Int
        <3>1. Integer(v[1]) \in Int
            BY <1>4, <2>1, PatternFacts
        <3>2. EpochOf(t) \in Int
            BY ArrowColumnAssumption DEF EpochOf
        <3> QED
            BY <2>2, <3>1, <3>2
    <2>4. Unshiftable(c) <=> ~Fits(n, FieldBits)
        BY <1>1, <1>2, <1>6, <2>2 DEF Unshiftable
    <2>5. append_epoch(t, v) = IF debug /\ ~Fits(n, FieldBits) THEN Fails("panic")
                               ELSE Got(<<Wrapped(n, FieldBits)>>)
        BY <1>4, <2>1, <2>2, AppendShifted
    <2>6. append_bytes(column, v) = append_epoch(t, v)
        BY <1>1, <1>6, AppendEpoch DEF Temporal
    <2>7. Meaning("batch", v) = <<n>>
        BY <1>1, <1>6, <2>2, MeaningTemporal
    <2>8. ASSUME Fits(n, FieldBits) PROVE Wrapped(n, FieldBits) = n
        BY <2>3, <2>8, WrappedFits
    <2>9. Outcome("batch", c) = IF debug /\ Unshiftable(c) THEN Fails("panic")
                                ELSE Got(<<Wrapped(n, FieldBits)>>)
        BY <1>5, <2>4, <2>5, <2>6
    <2>10. ASSUME ~Unshiftable(c) PROVE Outcome("batch", c) = Got(Meaning("batch", c.fields))
        BY <1>2, <2>4, <2>7, <2>8, <2>9, <2>10
    <2> QED
        BY <1>1, <1>2, <2>2, <2>9, <2>10
<1>7. ASSUME t \notin Temporal PROVE append_bytes(column, v) = Got(Meaning("batch", v))
    <2>1. CASE t \in SignedTypes
        <3>1. Len(v) = 1 /\ \A i \in 1 .. Len(v) : v[i] < 2 ^ FieldBits
            BY <1>3, <2>1 DEF WellFormed, NumberTypes, SignedTypes, FieldCount
        <3>2. Signed(v) = <<Integer(v[1])>> /\ Integer(v[1]) \in Int
            BY <1>4, <3>1, SignedFields, ShortSequences, PatternFacts
        <3>3. append_bytes(column, v) = Got(Signed(v))
            BY <1>1, <1>7, <2>1, AppendSigned DEF Temporal
        <3>4. Meaning("batch", v) = <<Integer(v[1])>>
            BY <1>1, <1>7, <2>1, MeaningNumber
        <3> QED
            BY <3>2, <3>3, <3>4
    <2>2. CASE t = "Timetz"
        <3>1. Len(v) = 2 /\ \A i \in 1 .. Len(v) : v[i] < 2 ^ FieldBits
            BY <1>3, <2>2 DEF WellFormed, NumberTypes, FieldCount
        <3>2. SubSeq(Signed(v), 1, 1) = <<Integer(v[1])>>
            BY <1>4, <3>1, SignedFields, ShortSequences
        <3>3. append_bytes(column, v) = Got(SubSeq(Signed(v), 1, 1))
            BY <1>1, <2>2, AppendTimetz
        <3>4. Meaning("batch", v) = <<Integer(v[1])>>
            BY <1>1, <2>2, MeaningNumber
        <3> QED
            BY <3>2, <3>3, <3>4
    <2>3. CASE t = "Interval"
        <3>1. Len(v) = 3
            BY <1>3, <2>3 DEF WellFormed, NumberTypes, FieldCount
        <3>2. Reverse(v) = <<v[3], v[2], v[1]>>
            BY <1>4, <3>1, ShortSequences
        <3>3. append_bytes(column, v) = Got(Reverse(v))
            BY <1>1, <2>3, AppendInterval
        <3>4. Meaning("batch", v) = <<v[3], v[2], v[1]>>
            BY <1>1, <2>3, MeaningInterval
        <3> QED
            BY <3>2, <3>3, <3>4
    <2>4. CASE t = "Bool"
        <3>1. v \in {<<0>>, <<1>>}
            BY <1>3, <2>4 DEF WellFormed
        <3>2. <<IF v[1] # 0 THEN 1 ELSE 0>> = v
            BY <3>1
        <3>3. append_bytes(column, v) = Got(v)
            BY <1>1, <2>4, <3>2, AppendBool
        <3>4. Meaning("batch", v) = v
            BY <1>1, <2>4, MeaningSame
        <3> QED
            BY <3>3, <3>4
    <2>5. CASE t = "Name"
        <3>1. PICK n \in 0 .. Len(v) : \A i \in 1 .. Len(v) : v[i] # 0 <=> i <= n
            BY <1>3, <2>5 DEF WellFormed
        <3>2. until_nul(v) = SubSeq(v, 1, n)
            BY <1>4, <3>1, UntilNulOfName
        <3>3. NameMeaning(v) = IF \E i \in 1 .. Len(v) : v[i] >= 128 THEN <<>> ELSE SubSeq(v, 1, n)
            BY <1>4, <3>1, BytesOfName DEF NameMeaning
        <3>4. ValidUtf8(SubSeq(v, 1, n)) <=> ~\E i \in 1 .. Len(v) : v[i] >= 128
            <4>1. /\ Len(SubSeq(v, 1, n)) = n
                  /\ \A i \in 1 .. n : SubSeq(v, 1, n)[i] = v[i]
                BY <1>4, <3>1
            <4>2. \A i \in 1 .. Len(v) : v[i] >= 128 => i \in 1 .. n
                BY <1>4, <3>1
            <4>3. \A i \in 1 .. n : i \in 1 .. Len(v) /\ v[i] \in Nat
                BY <1>4, <3>1
            <4> QED
                BY <4>1, <4>2, <4>3 DEF ValidUtf8
        <3>5. append_name(v) = Got(NameMeaning(v))
            BY <3>2, <3>3, <3>4 DEF append_name
        <3>6. append_bytes(column, v) = append_name(v)
            BY <1>1, <2>5, AppendName
        <3>7. Meaning("batch", v) = NameMeaning(v)
            BY <1>1, <2>5, MeaningName
        <3> QED
            BY <3>5, <3>6, <3>7
    <2>6. CASE t \in StringTypes
        <3>1. append_bytes(column, v) = Got(from_utf8_lossy(v))
            BY <1>1, <2>6, AppendString
        <3>2. Meaning("batch", v) = TextMeaning(v)
            BY <1>1, <2>6, MeaningText
        <3> QED
            BY <3>1, <3>2 DEF TextMeaning, from_utf8_lossy
    <2>7. CASE t \in FixedBinaryTypes
        <3>1. append_bytes(column, v) = Got(v)
            BY <1>1, <2>7, AppendFixedBinary, FixedBinaryBuilder DEF DataType
        <3>2. Meaning("batch", v) = v
            BY <1>1, <2>7, MeaningSame
        <3> QED
            BY <3>1, <3>2
    <2>8. CASE t \in {"Tid", "Aclitem"} \cup UnsignedTypes \cup FloatTypes \cup BlobTypes
                       \cup ArrayTypes
        <3>1. append_bytes(column, v) = Got(v)
            BY <1>1, <2>8, AppendBytes
        <3>2. Meaning("batch", v) = v
            BY <1>1, <2>8, MeaningSame
        <3> QED
            BY <3>1, <3>2
    <2> QED
        BY <1>3, <2>1, <2>2, <2>3, <2>4, <2>5, <2>6, <2>7, <2>8 DEF PgTypeId
<1>8. t \notin Temporal => ~Unshiftable(c)
    BY <1>1 DEF Unshiftable
<1> QED
    BY <1>1, <1>2, <1>5, <1>6, <1>7

(* On both paths a numeric is converted by the same conversion, and none   *)
(* is refused on the way to it; what is no number becomes a null.          *)
LEMMA NumericOutcomes ==
    ASSUME column \in Columns, column.type = "Numeric", NEW c \in CellsOf(column)
    PROVE  /\ ~Refused(DatumOf(c))
           /\ Outcome("row", c) = Outcome("batch", c)
           /\ c \in SpecialCells => Outcome("row", c) = GotNull
<1>1. PICK v : v = c.fields
    OBVIOUS
<1>2. CASE c.form = "null"
    <2>1. Outcome("row", c) = GotNull /\ Outcome("batch", c) = GotNull /\ ~Refused(DatumOf(c))
        BY <1>2, NullOutcome DEF Paths
    <2> QED
        BY <2>1
<1>3. CASE c.form # "null"
    <2>1. PICK type : type = numeric_typmod_to_arrow_type(column.typmod)
        OBVIOUS
    <2>2. decode_varlena("Numeric", v) = Datum("Numeric", v)
        BY DecodeVarlena
    <2>3. DatumOf(c) = Datum("Numeric", v)
        <3>1. type_len("Numeric") = 0
            BY TypeLengths
        <3> QED
            BY <1>1, <1>3, <2>2, <3>1 DEF DatumOf, decode_datum
    <2>4. build_numeric(column.typmod, Datum("Numeric", v)).cell = NumericOutcome(v, type)
        BY <2>1 DEF build_numeric, Arm, Datum
    <2>5. Outcome("row", c) = NumericOutcome(v, type)
        BY <2>3, <2>4, ArmOfNumeric DEF Outcome
    <2>6. new_inner("Numeric", column.typmod) = type
        BY <2>1, SMTT(30) DEF new_inner, FixedBinaryTypes, ArrayTypes
    <2>7. Outcome("batch", c) = NumericOutcome(v, type)
        BY <1>1, <1>3, <2>6, AppendNumeric DEF Outcome
    <2>8. ~Refused(DatumOf(c))
        BY <2>3 DEF Refused, Datum
    <2>9. ASSUME c \in SpecialCells PROVE NumericOutcome(v, type) = GotNull
        <3>1. v \in {<<49152>>, <<53248>>, <<61440>>, <<>>}
            BY <1>1, <2>9 DEF SpecialCells, Cell
        <3>2. parse_numeric_header(v) = NoNumber
            BY <3>1 DEF parse_numeric_header
        <3> QED
            BY <3>2 DEF NumericOutcome, NoNumber
    <2> QED
        BY <2>5, <2>7, <2>8, <2>9
<1> QED
    BY <1>2, <1>3


-----------------------------------------------------------------------------
(* The builders and the schema: only for intervals and arrays does the     *)
(* batch not have the type its field names.                                *)
LEMMA BuilderTypes ==
    ASSUME column \in Columns, NEW p \in Paths
    PROVE  /\ ArrayType(p) = to_arrow_field(column).type <=>
                column.type \notin {"Interval"} \cup ArrayTypes
           /\ ArrayType("row") = ArrayType("batch")
<1>1. PICK t : t = column.type
    OBVIOUS
<1>2. t \in PgTypeId
    BY <1>1, ArrowColumnAssumption
<1>3. PICK null : null = Datum("Null", <<>>)
    OBVIOUS
<1>4. /\ ArrayType("row") = build_arrow_array(column, null).type
      /\ ArrayType("batch") = new_inner(t, column.typmod)
    BY <1>1, <1>3 DEF ArrayType
<1>5. to_arrow_field(column).type =
        IF t = "Numeric" THEN numeric_typmod_to_arrow_type(column.typmod) ELSE arrow_type(t)
    BY <1>1 DEF to_arrow_field
<1>6. CASE t \in {"Bool", "Timetz"} \cup SignedTypes \cup UnsignedTypes \cup FloatTypes
    <2>1. ArrayType("row") = arrow_type(t)
        BY <1>1, <1>4, <1>6, ArmOfScalar DEF build_scalar, Arm
    <2>2. new_inner(t, column.typmod) = arrow_type(t)
        BY <1>6, SMTT(30)
           DEF new_inner, SignedTypes, UnsignedTypes, FloatTypes, FixedBinaryTypes, ArrayTypes
    <2>3. t \notin {"Numeric", "Interval"} \cup ArrayTypes
        BY <1>6 DEF SignedTypes, UnsignedTypes, FloatTypes, ArrayTypes
    <2> QED
        BY <1>1, <1>4, <1>5, <2>1, <2>2, <2>3 DEF Paths
<1>7. CASE t \in StringTypes \cup {"Name"}
    <2>1. ArrayType("row") = Plain("Utf8")
        <3>1. CASE t \in StringTypes
            BY <1>1, <1>4, <3>1, ArmOfString DEF build_string, Arm
        <3>2. CASE t = "Name"
            BY <1>1, <1>4, <3>2, ArmOfName DEF build_name, Arm
        <3> QED
            BY <1>7, <3>1, <3>2
    <2>2. arrow_type(t) = Plain("Utf8")
        BY <1>7, SMTT(30)
           DEF arrow_type, StringTypes, BlobTypes, ArrayTypes
    <2>3. new_inner(t, column.typmod) = arrow_type(t)
        BY <1>7, SMTT(30) DEF new_inner, StringTypes, FixedBinaryTypes, ArrayTypes
    <2>4. t \notin {"Numeric", "Interval"} \cup ArrayTypes
        BY <1>7 DEF StringTypes, ArrayTypes
    <2> QED
        BY <1>1, <1>4, <1>5, <2>1, <2>2, <2>3, <2>4 DEF Paths
<1>8. CASE t \in BlobTypes \cup {"Aclitem", "Tid"}
    <2>1. ArrayType("row") = Plain("Binary")
        <3>1. CASE t \in BlobTypes \cup {"Aclitem"}
            BY <1>1, <1>4, <3>1, ArmOfBinary DEF build_binary, Arm
        <3>2. CASE t = "Tid"
            BY <1>1, <1>4, <3>2, ArmOfTid DEF build_tid, Arm
        <3> QED
            BY <1>8, <3>1, <3>2
    <2>2. arrow_type(t) = Plain("Binary")
        BY <1>8, SMTT(30)
           DEF arrow_type, StringTypes, BlobTypes, ArrayTypes
    <2>3. new_inner(t, column.typmod) = arrow_type(t)
        BY <1>8, SMTT(30) DEF new_inner, BlobTypes, FixedBinaryTypes, ArrayTypes
    <2>4. t \notin {"Numeric", "Interval"} \cup ArrayTypes
        BY <1>8 DEF BlobTypes, ArrayTypes
    <2> QED
        BY <1>1, <1>4, <1>5, <2>1, <2>2, <2>3, <2>4 DEF Paths
<1>9. CASE t \in FixedBinaryTypes
    <2>1. ArrayType("row") = build_fixed_binary(t, null).type
        BY <1>1, <1>4, <1>9, ArmOfFixedBinary
    <2>2. build_fixed_binary(t, null).type = arrow_type(t)
        BY <1>9, SMTT(30)
           DEF build_fixed_binary, Arm, arrow_type, FixedBinaryTypes, StringTypes, BlobTypes,
               ArrayTypes
    <2>3. new_inner(t, column.typmod) = arrow_type(t)
        <3>1. DataType("FixedSizeBinary", <<type_len(t)>>) = arrow_type(t)
            BY <1>9, SMTT(30)
               DEF type_len, arrow_type, FixedBinaryTypes, StringTypes, BlobTypes, ArrayTypes
        <3> QED
            BY <1>9, <3>1, FixedBinaryBuilder
    <2>4. t \notin {"Numeric", "Interval"} \cup ArrayTypes
        BY <1>9 DEF FixedBinaryTypes, ArrayTypes
    <2> QED
        BY <1>1, <1>4, <1>5, <2>1, <2>2, <2>3, <2>4 DEF Paths
<1>10. CASE t = "Numeric"
    <2>1. ArrayType("row") = numeric_typmod_to_arrow_type(column.typmod)
        BY <1>1, <1>4, <1>10, ArmOfNumeric DEF build_numeric, Arm
    <2>2. new_inner(t, column.typmod) = numeric_typmod_to_arrow_type(column.typmod)
        BY <1>10, SMTT(30) DEF new_inner, FixedBinaryTypes, ArrayTypes
    <2>3. t \notin {"Interval"} \cup ArrayTypes
        BY <1>10 DEF ArrayTypes
    <2> QED
        BY <1>1, <1>4, <1>5, <1>10, <2>1, <2>2, <2>3 DEF Paths
<1>11. CASE t \in {"Interval"} \cup ArrayTypes
    <2>1. ArrayType("row") = Plain("Binary")
        <3>1. CASE t = "Interval"
            BY <1>1, <1>4, <3>1, ArmOfInterval DEF build_interval, Arm
        <3>2. CASE t \in ArrayTypes
            BY <1>1, <1>4, <3>2, ArmOfArray DEF build_fallback, Arm
        <3> QED
            BY <1>11, <3>1, <3>2
    <2>2. new_inner(t, column.typmod) = Plain("Binary")
        BY <1>11, SMTT(30) DEF new_inner, FixedBinaryTypes, ArrayTypes
    <2>3. arrow_type(t) \in {Plain("IntervalMonthDayNano"), Plain("List")}
        <3>1. CASE t = "Interval"
            BY <3>1, SMTT(30) DEF arrow_type, StringTypes, BlobTypes, ArrayTypes
        <3>2. CASE t \in ArrayTypes
            BY <3>2, SMTT(30) DEF arrow_type, StringTypes, BlobTypes, ArrayTypes
        <3> QED
            BY <1>11, <3>1, <3>2
    <2>4. arrow_type(t) # Plain("Binary")
        BY <2>3 DEF Plain, DataType
    <2>5. t # "Numeric"
        BY <1>11 DEF ArrayTypes
    <2> QED
        BY <1>1, <1>4, <1>5, <1>11, <2>1, <2>2, <2>4, <2>5 DEF Paths
<1> QED
    BY <1>2, <1>6, <1>7, <1>8, <1>9, <1>10, <1>11 DEF PgTypeId

(* A path gives a value, a null, an error or a panic. *)
LEMMA OutcomeStatus ==
    ASSUME column \in Columns, NEW c \in CellsOf(column), NEW p \in Paths,
           p = "row" => ~Refused(DatumOf(c))
    PROVE  Outcome(p, c).st \in Done
<1>1. CASE c.form = "null"
    BY <1>1, NullOutcome DEF GotNull, Done
<1>2. CASE c.form # "null" /\ column.type = "Numeric"
    <2>1. \A words, type : NumericOutcome(words, type).st \in Done
        BY DEF NumericOutcome, GotNull, Got, Fails, Done
    <2>2. Outcome("batch", c).st \in Done
        BY <1>2, <2>1, AppendNumeric DEF Outcome
    <2> QED
        BY <1>2, <2>2, NumericOutcomes DEF Paths
<1>3. CASE c.form # "null" /\ column.type # "Numeric" /\ p = "row"
    <2>1. Outcome("row", c) = Got(Meaning("row", c.fields)) \/ Outcome("row", c).st = "error"
          \/ DatumOf(c).variant = "error"
        BY <1>3, RowOutcome
    <2> QED
        BY <1>3, <2>1 DEF Got, Done, Refused
<1>4. CASE c.form # "null" /\ column.type # "Numeric" /\ p = "batch"
    <2>1. \E x : Outcome("batch", c) = Got(x) \/ Outcome("batch", c) = Fails("panic")
        <3>1. CASE column.type \in Temporal
            BY <1>4, <3>1, BatchOutcome
        <3>2. CASE column.type \notin Temporal
            BY <1>4, <3>2, BatchOutcome DEF Unshiftable
        <3> QED
            BY <3>1, <3>2
    <2> QED
        BY <1>4, <2>1 DEF Got, Fails, Done
<1> QED
    BY <1>1, <1>2, <1>3, <1>4 DEF Paths

-----------------------------------------------------------------------------
(* The steps. *)

(* What a cell becomes does not change on the way. *)
LEMMA InputUnchanged ==
    ASSUME UNCHANGED input
    PROVE  /\ column' = column /\ debug' = debug /\ cells' = cells
           /\ \A c : DatumOf(c)' = DatumOf(c)
           /\ \A p, c : Outcome(p, c)' = Outcome(p, c)
           /\ \A p : ArrayType(p)' = ArrayType(p)
           /\ to_arrow_field(column)' = to_arrow_field(column)
           /\ CellsOf(column)' = CellsOf(column) /\ Datums' = Datums /\ Outcomes' = Outcomes
<1>1. column' = column /\ debug' = debug /\ cells' = cells
    BY DEF input
<1>2. \A words, type : NumericOutcome(words, type)' = NumericOutcome(words, type)
    BY <1>1 DEF NumericOutcome
<1>3. \A t, v : append_epoch(t, v)' = append_epoch(t, v)
    BY <1>1 DEF append_epoch
<1>4. \A col, v : append_bytes(col, v)' = append_bytes(col, v)
    BY <1>2, <1>3 DEF append_bytes
<1>5. \A typmod, d : build_numeric(typmod, d)' = build_numeric(typmod, d)
    BY <1>2 DEF build_numeric
<1>6. \A col, d : build_arrow_array(col, d)' = build_arrow_array(col, d)
    BY <1>5 DEF build_arrow_array
<1>7. \A c : DatumOf(c)' = DatumOf(c)
    BY <1>1 DEF DatumOf
<1>8. \A p, c : Outcome(p, c)' = Outcome(p, c)
    BY <1>1, <1>4, <1>6, <1>7 DEF Outcome
<1>9. \A p : ArrayType(p)' = ArrayType(p)
    BY <1>1, <1>6 DEF ArrayType
<1>10. Datums' = Datums /\ Outcomes' = Outcomes
    BY <1>1, <1>7, <1>8 DEF Datums, Outcomes
<1> QED
    BY <1>1, <1>7, <1>8, <1>9, <1>10

(* A path that does nothing stays as it is. *)
LEMMA PathUnchanged ==
    ASSUME UNCHANGED input, NEW p \in Paths, array[p]' = array[p], status[p]' = status[p],
           p = "row" => datums' = datums, Built(p), Stopped(p)
    PROVE  Built(p)' /\ Stopped(p)'
<1>1. /\ cells' = cells /\ column' = column
      /\ \A c : DatumOf(c)' = DatumOf(c)
      /\ \A q, c : Outcome(q, c)' = Outcome(q, c)
      /\ \A q : ArrayType(q)' = ArrayType(q)
      /\ to_arrow_field(column)' = to_arrow_field(column)
    BY InputUnchanged
<1>2. Built(p)'
    BY <1>1 DEF Built
<1>3. Accepted(p)' <=> Accepted(p)
    BY <1>1 DEF Accepted
<1>4. Stopped(p)'
    BY <1>1, <1>3 DEF Stopped
<1> QED
    BY <1>2, <1>4

LEMMA InitInv ==
    ASSUME Init
    PROVE  ColumnInv
<1>1. PICK n \in 1 .. MaxRows : cells \in [1 .. n -> CellsOf(column)]
    BY DEF Init
<1>2. cells \in Seq(CellsOf(column))
    BY <1>1
<1>3. ColumnTypeOK
    BY <1>2 DEF Init, ColumnTypeOK, Paths, Done
<1>4. Decoded
    BY <1>2 DEF Init, Decoded, Paths
<1>5. ASSUME NEW p \in Paths PROVE Built(p) /\ Stopped(p)
    <2>1. Len(array[p]) = 0 /\ status[p] \in {"decode", "build"} /\ Len(cells) \in Nat
        BY <1>2 DEF Init, Paths
    <2> QED
        BY <2>1 DEF Built, Stopped
<1> QED
    BY <1>3, <1>4, <1>5 DEF ColumnInv

LEMMA DecodeCellInv ==
    ASSUME ColumnInv, DecodeCell
    PROVE  ColumnInv'
<1>1. ColumnTypeOK /\ Decoded /\ \A p \in Paths : Built(p) /\ Stopped(p)
    BY DEF ColumnInv
<1>2. UNCHANGED input /\ array' = array /\ status["row"] = "decode" /\ Len(datums) < Len(cells)
    BY DEF DecodeCell
<1>3. /\ cells' = cells /\ column' = column /\ debug' = debug
      /\ \A c : DatumOf(c)' = DatumOf(c)
      /\ \A q, c : Outcome(q, c)' = Outcome(q, c)
      /\ CellsOf(column)' = CellsOf(column) /\ Datums' = Datums /\ Outcomes' = Outcomes
    BY <1>2, InputUnchanged
<1>4. PICK k : k = Len(datums) + 1
    OBVIOUS
<1>5. /\ column \in Columns /\ debug \in BOOLEAN /\ cells \in Seq(CellsOf(column))
      /\ datums \in Seq(Datums)
      /\ array \in [Paths -> Seq(Outcomes)]
      /\ status \in [Paths -> {"decode", "build"} \cup Done]
    BY <1>1 DEF ColumnTypeOK
<1>6. k \in 1 .. Len(cells) /\ Len(datums) \in Nat
    BY <1>2, <1>4, <1>5
<1>7. PICK d : d = DatumOf(cells[k])
    OBVIOUS
<1>8. IF Refused(d) THEN status' = [status EXCEPT !["row"] = d.variant] /\ datums' = datums
                    ELSE datums' = Append(datums, d) /\ status' = status
    BY <1>4, <1>7 DEF DecodeCell, DatumOf, Refused
<1>9. array["row"] = <<>> /\ \A i \in 1 .. Len(datums) : datums[i] = DatumOf(cells[i]) /\ ~Refused(datums[i])
    BY <1>1, <1>2 DEF Decoded
<1>10. status["batch"]' = status["batch"]
    BY <1>5, <1>8 DEF Paths
<1>11. Built("batch")' /\ Stopped("batch")'
    BY <1>1, <1>2, <1>10, PathUnchanged DEF Paths
<1>12. Built("row")'
    BY <1>2, <1>3, <1>5, <1>9 DEF Built
<1>13. CASE Refused(d)
    <2>1. status' = [status EXCEPT !["row"] = d.variant] /\ datums' = datums
          /\ d.variant \in {"error", "panic"}
        BY <1>8, <1>13 DEF Refused
    <2>2. status["row"]' = d.variant
        BY <1>5, <2>1 DEF Paths
    <2>3. ColumnTypeOK'
        BY <1>2, <1>3, <1>5, <2>1 DEF ColumnTypeOK, Done
    <2>4. Decoded'
        BY <1>2, <1>3, <1>5, <1>9, <2>1, <2>2 DEF Decoded
    <2>5. Stopped("row")'
        <3>1. DatumOf(cells[Len(datums) + 1]).variant = d.variant
            BY <1>4, <1>7
        <3> QED
            BY <1>2, <1>3, <1>9, <2>1, <2>2, <3>1 DEF Stopped
    <2> QED
        BY <1>11, <1>12, <2>3, <2>4, <2>5 DEF ColumnInv, Paths
<1>14. CASE ~Refused(d)
    <2>1. datums' = Append(datums, d) /\ status' = status
        BY <1>8, <1>14
    <2>2. /\ datums' \in Seq(Datums)
          /\ Len(datums') = k
          /\ \A i \in 1 .. k : datums'[i] = DatumOf(cells[i]) /\ ~Refused(datums'[i])
        <3>1. d \in Datums
            BY <1>6, <1>7 DEF Datums
        <3>2. Len(Append(datums, d)) = k /\ Append(datums, d)[k] = d
              /\ \A i \in 1 .. Len(datums) : Append(datums, d)[i] = datums[i]
            BY <1>4, <1>5, <3>1
        <3>3. \A i \in 1 .. k : i = k \/ i \in 1 .. Len(datums)
            BY <1>4, <1>6
        <3> QED
            BY <1>5, <1>7, <1>9, <1>14, <2>1, <3>1, <3>2, <3>3
    <2>3. ColumnTypeOK'
        BY <1>2, <1>3, <1>5, <2>1, <2>2 DEF ColumnTypeOK
    <2>4. Decoded'
        <3>1. \A i \in 1 .. Len(datums') : datums'[i] = DatumOf(cells[i])' /\ ~Refused(datums[i])'
            BY <1>3, <2>2 DEF Refused
        <3> QED
            BY <1>2, <1>3, <1>6, <1>9, <2>1, <2>2, <3>1 DEF Decoded
    <2>5. Stopped("row")'
        BY <1>2, <2>1 DEF Stopped
    <2> QED
        BY <1>11, <1>12, <2>3, <2>4, <2>5 DEF ColumnInv, Paths
<1> QED
    BY <1>13, <1>14

LEMMA ToRecordBatchInv ==
    ASSUME ColumnInv, ToRecordBatch
    PROVE  ColumnInv'
<1>1. ColumnTypeOK /\ Decoded /\ \A p \in Paths : Built(p) /\ Stopped(p)
    BY DEF ColumnInv
<1>2. /\ UNCHANGED input /\ array' = array /\ datums' = datums
      /\ Len(datums) = Len(cells) /\ status' = [status EXCEPT !["row"] = "build"]
    BY DEF ToRecordBatch
<1>3. /\ cells' = cells /\ column' = column /\ debug' = debug
      /\ \A c : DatumOf(c)' = DatumOf(c)
      /\ \A q, c : Outcome(q, c)' = Outcome(q, c)
      /\ CellsOf(column)' = CellsOf(column) /\ Datums' = Datums /\ Outcomes' = Outcomes
    BY <1>2, InputUnchanged
<1>4. status \in [Paths -> {"decode", "build"} \cup Done]
    BY <1>1 DEF ColumnTypeOK
<1>5. status["row"]' = "build" /\ status["batch"]' = status["batch"]
    BY <1>2, <1>4 DEF Paths
<1>6. ColumnTypeOK'
    BY <1>1, <1>2, <1>3, <1>4 DEF ColumnTypeOK
<1>7. Decoded'
    BY <1>1, <1>2, <1>3, <1>5 DEF Decoded, Refused
<1>8. Built("batch")' /\ Stopped("batch")'
    BY <1>1, <1>2, <1>5, PathUnchanged DEF Paths
<1>9. Built("row")'
    BY <1>1, <1>2, <1>3 DEF Built, Paths
<1>10. Stopped("row")'
    BY <1>5 DEF Stopped
<1> QED
    BY <1>6, <1>7, <1>8, <1>9, <1>10 DEF ColumnInv, Paths

(* A cell is appended to its path, or stops it. *)
LEMMA PushedInv ==
    ASSUME ColumnInv, UNCHANGED <<input, datums>>, NEW p \in Paths, status[p] = "build",
           Len(array[p]) < Len(cells), p = "row" => Len(datums) = Len(cells),
           Pushed(p, Outcome(p, cells[Len(array[p]) + 1]))
    PROVE  ColumnInv'
<1>1. ColumnTypeOK /\ Decoded /\ \A q \in Paths : Built(q) /\ Stopped(q)
    BY DEF ColumnInv
<1>2. UNCHANGED input /\ datums' = datums
    OBVIOUS
<1>3. /\ cells' = cells /\ column' = column /\ debug' = debug
      /\ \A c : DatumOf(c)' = DatumOf(c)
      /\ \A q, c : Outcome(q, c)' = Outcome(q, c)
      /\ CellsOf(column)' = CellsOf(column) /\ Datums' = Datums /\ Outcomes' = Outcomes
    BY <1>2, InputUnchanged
<1>4. /\ column \in Columns /\ debug \in BOOLEAN /\ cells \in Seq(CellsOf(column))
      /\ datums \in Seq(Datums)
      /\ array \in [Paths -> Seq(Outcomes)]
      /\ status \in [Paths -> {"decode", "build"} \cup Done]
    BY <1>1 DEF ColumnTypeOK
<1>5. PICK k : k = Len(array[p]) + 1
    OBVIOUS
<1>6. k \in 1 .. Len(cells) /\ Len(array[p]) \in Nat
    BY <1>4, <1>5
<1>7. PICK o : o = Outcome(p, cells[k])
    OBVIOUS
<1>8. /\ array' = [array EXCEPT ![p] = IF o.st = "ok" THEN Append(@, o) ELSE @]
      /\ status' = [status EXCEPT ![p] = IF o.st = "ok" THEN @ ELSE o.st]
    BY <1>5, <1>7 DEF Pushed
<1>9. o.st \in Done
    <2>1. cells[k] \in CellsOf(column)
        BY <1>4, <1>6
    <2>2. p = "row" => ~Refused(DatumOf(cells[k]))
        BY <1>1, <1>6 DEF Decoded
    <2> QED
        BY <1>4, <1>7, <2>1, <2>2, OutcomeStatus
<1>10. ASSUME NEW q \in Paths, q # p PROVE Built(q)' /\ Stopped(q)'
    <2>1. array[q]' = array[q] /\ status[q]' = status[q]
        BY <1>4, <1>8, <1>10
    <2> QED
        BY <1>1, <1>2, <2>1, PathUnchanged
<1>11. CASE o.st = "ok"
    <2>1. array' = [array EXCEPT ![p] = Append(array[p], o)] /\ status' = status
        BY <1>4, <1>8, <1>11
    <2>2. array[p]' = Append(array[p], o)
        BY <1>4, <2>1
    <2>3. o \in Outcomes
        BY <1>6, <1>7 DEF Outcomes
    <2>4. /\ array'[p] \in Seq(Outcomes)
          /\ Len(array'[p]) = k /\ array'[p][k] = o
          /\ \A i \in 1 .. Len(array[p]) : array'[p][i] = array[p][i]
        BY <1>4, <1>5, <2>2, <2>3
    <2>5. ColumnTypeOK'
        <3>1. array' \in [Paths -> Seq(Outcomes)]
            BY <1>4, <2>1, <2>4
        <3> QED
            BY <1>2, <1>3, <1>4, <2>1, <3>1 DEF ColumnTypeOK
    <2>6. Decoded'
        <3>1. p = "row" => Len(array'["row"]) <= Len(datums) /\ status["row"]' # "decode"
            BY <1>6, <2>1, <2>4
        <3>2. p # "row" => array'["row"] = array["row"]
            BY <1>4, <2>1 DEF Paths
        <3> QED
            BY <1>1, <1>2, <1>3, <2>1, <3>1, <3>2 DEF Decoded, Refused
    <2>7. Built(p)'
        <3>1. \A i \in 1 .. k : i = k \/ i \in 1 .. Len(array[p])
            BY <1>5, <1>6
        <3>2. \A i \in 1 .. k : array'[p][i] = Outcome(p, cells[i]) /\ array'[p][i].st = "ok"
            BY <1>1, <1>7, <1>11, <2>4, <3>1 DEF Built
        <3> QED
            BY <1>3, <1>6, <2>4, <3>2 DEF Built
    <2>8. Stopped(p)'
        BY <2>1 DEF Stopped
    <2> QED
        BY <1>10, <2>5, <2>6, <2>7, <2>8 DEF ColumnInv
<1>12. CASE o.st # "ok"
    <2>1. array' = array /\ status' = [status EXCEPT ![p] = o.st] /\ o.st \in {"error", "panic"}
        BY <1>4, <1>8, <1>9, <1>12 DEF Done
    <2>2. status[p]' = o.st
        BY <1>4, <2>1
    <2>3. ColumnTypeOK'
        BY <1>2, <1>3, <1>4, <2>1 DEF ColumnTypeOK, Done
    <2>4. Decoded'
        <3>1. status["row"]' \in {"error", "panic"} \/ status["row"]' = status["row"]
            BY <1>4, <2>1 DEF Paths
        <3> QED
            BY <1>1, <1>2, <1>3, <2>1, <3>1 DEF Decoded, Refused
    <2>5. Built(p)'
        BY <1>1, <1>3, <2>1 DEF Built
    <2>6. Stopped(p)'
        <3>1. Outcome(p, cells[Len(array[p]) + 1]).st = o.st
            BY <1>5, <1>7
        <3> QED
            BY <1>2, <1>3, <2>1, <2>2, <3>1 DEF Stopped
    <2> QED
        BY <1>10, <2>3, <2>4, <2>5, <2>6 DEF ColumnInv
<1> QED
    BY <1>11, <1>12

LEMMA BuildCellInv ==
    ASSUME ColumnInv, BuildCell
    PROVE  ColumnInv'
<1>1. ColumnTypeOK /\ Decoded
    BY DEF ColumnInv
<1>2. PICK k : k = Len(array["row"]) + 1
    OBVIOUS
<1>3. status["row"] = "build" /\ Len(array["row"]) < Len(datums) /\ Len(datums) = Len(cells)
    BY <1>1 DEF BuildCell, Decoded
<1>4. k \in 1 .. Len(datums)
    BY <1>1, <1>2, <1>3 DEF ColumnTypeOK, Paths
<1>5. datums[k] = DatumOf(cells[k])
    BY <1>1, <1>4 DEF Decoded
<1>6. build_arrow_array(column, datums[k]).cell = Outcome("row", cells[k])
    BY <1>5 DEF Outcome
<1>7. Pushed("row", Outcome("row", cells[k])) /\ UNCHANGED <<input, datums>>
    BY <1>2, <1>6 DEF BuildCell
<1> QED
    BY <1>2, <1>3, <1>7, PushedInv DEF Paths

LEMMA AppendCellInv ==
    ASSUME ColumnInv, AppendCell
    PROVE  ColumnInv'
<1>1. PICK c : c = cells[Len(array["batch"]) + 1]
    OBVIOUS
<1>2. Outcome("batch", c) = IF c.form = "null" THEN GotNull ELSE append_bytes(column, c.fields)
    BY DEF Outcome
<1>3. /\ status["batch"] = "build" /\ Len(array["batch"]) < Len(cells)
      /\ Pushed("batch", Outcome("batch", c)) /\ UNCHANGED <<input, datums>>
    BY <1>1, <1>2 DEF AppendCell
<1> QED
    BY <1>1, <1>3, PushedInv DEF Paths

LEMMA TryNewInv ==
    ASSUME ColumnInv, NEW p \in Paths, TryNew(p)
    PROVE  ColumnInv'
<1>1. ColumnTypeOK /\ Decoded /\ \A q \in Paths : Built(q) /\ Stopped(q)
    BY DEF ColumnInv
<1>2. UNCHANGED input /\ datums' = datums /\ array' = array /\ Len(array[p]) = Len(cells)
      /\ status[p] = "build"
    BY DEF TryNew
<1>3. /\ cells' = cells /\ column' = column /\ debug' = debug
      /\ \A c : DatumOf(c)' = DatumOf(c)
      /\ \A q, c : Outcome(q, c)' = Outcome(q, c)
      /\ \A q : ArrayType(q)' = ArrayType(q)
      /\ to_arrow_field(column)' = to_arrow_field(column)
      /\ CellsOf(column)' = CellsOf(column) /\ Datums' = Datums /\ Outcomes' = Outcomes
    BY <1>2, InputUnchanged
<1>4. status' = [status EXCEPT ![p] = IF Accepted(p) THEN "ok" ELSE "error"]
    <2>1. to_arrow_field(column).nullable = column.nullable
        BY DEF to_arrow_field
    <2> QED
        BY <2>1 DEF TryNew, Accepted
<1>5. status \in [Paths -> {"decode", "build"} \cup Done]
    BY <1>1 DEF ColumnTypeOK
<1>6. status[p]' = IF Accepted(p) THEN "ok" ELSE "error"
    BY <1>4, <1>5
<1>7. ColumnTypeOK'
    BY <1>1, <1>2, <1>3, <1>4, <1>5 DEF ColumnTypeOK, Done
<1>8. p = "row" => Len(datums) = Len(cells)
    BY <1>1, <1>2 DEF Decoded
<1>9. Decoded'
    <2>1. status["row"]' = status["row"] \/ (p = "row" /\ status["row"]' \in {"ok", "error"})
        <3>1. "row" \in Paths
            BY DEF Paths
        <3>2. ASSUME NEW q \in Paths, q # p PROVE status[q]' = status[q]
            BY <1>4, <1>5, <3>2
        <3>3. p # "row" => status["row"]' = status["row"]
            BY <3>1, <3>2
        <3>4. status[p]' \in {"ok", "error"}
            BY <1>6
        <3> QED
            BY <3>3, <3>4
    <2> QED
        BY <1>1, <1>2, <1>3, <1>8, <2>1 DEF Decoded, Refused
<1>10. Accepted(p)' <=> Accepted(p)
    BY <1>2, <1>3 DEF Accepted
<1>11. Stopped(p)'
    BY <1>2, <1>3, <1>6, <1>8, <1>10 DEF Stopped
<1>12. Built(p)'
    BY <1>1, <1>2, <1>3 DEF Built
<1>13. ASSUME NEW q \in Paths, q # p PROVE Built(q)' /\ Stopped(q)'
    <2>1. status[q]' = status[q]
        BY <1>4, <1>5, <1>13
    <2> QED
        BY <1>1, <1>2, <2>1, PathUnchanged
<1> QED
    BY <1>7, <1>9, <1>11, <1>12, <1>13 DEF ColumnInv

(* Every path is as far as its arrays say, and what it has is what the     *)
(* cells give: decode_datum and build_arrow_array, or the column builder,  *)
(* on each cell in its turn, up to the first that stops it.                *)
THEOREM ColumnInvariant == Spec => []ColumnInv
<1>1. Init => ColumnInv
    BY InitInv
<1>2. ColumnInv /\ [Next]_vars => ColumnInv'
    <2> SUFFICES ASSUME ColumnInv, [Next]_vars PROVE ColumnInv'
        OBVIOUS
    <2>1. CASE DecodeCell
        BY <2>1, DecodeCellInv
    <2>2. CASE ToRecordBatch
        BY <2>2, ToRecordBatchInv
    <2>3. CASE BuildCell
        BY <2>3, BuildCellInv
    <2>4. CASE AppendCell
        BY <2>4, AppendCellInv
    <2>5. CASE \E p \in Paths : TryNew(p)
        BY <2>5, TryNewInv
    <2>6. CASE UNCHANGED vars
        <3>1. UNCHANGED input /\ datums' = datums /\ array' = array /\ status' = status
            BY <2>6 DEF vars
        <3>2. /\ cells' = cells /\ column' = column /\ debug' = debug
              /\ \A c : DatumOf(c)' = DatumOf(c)
              /\ \A q, c : Outcome(q, c)' = Outcome(q, c)
              /\ CellsOf(column)' = CellsOf(column) /\ Datums' = Datums /\ Outcomes' = Outcomes
            BY <3>1, InputUnchanged
        <3>3. ColumnTypeOK'
            BY <3>1, <3>2 DEF ColumnInv, ColumnTypeOK
        <3>4. Decoded'
            BY <3>1, <3>2 DEF ColumnInv, Decoded, Refused
        <3>5. \A p \in Paths : Built(p)' /\ Stopped(p)'
            BY <3>1, PathUnchanged DEF ColumnInv
        <3> QED
            BY <3>3, <3>4, <3>5 DEF ColumnInv
    <2> QED
        BY <2>1, <2>2, <2>3, <2>4, <2>5, <2>6 DEF Next
<1> QED
    BY <1>1, <1>2, PTL DEF Spec

-----------------------------------------------------------------------------
(* The properties. *)

(* A row of an array. *)
LEMMA RowOfArray ==
    ASSUME ColumnInv, NEW p \in Paths, NEW i \in 1 .. Len(array[p])
    PROVE  /\ i \in 1 .. Len(cells) /\ cells[i] \in CellsOf(column)
           /\ array[p][i] = Outcome(p, cells[i]) /\ Outcome(p, cells[i]).st = "ok"
           /\ p = "row" => ~Refused(DatumOf(cells[i]))
<1>1. ColumnTypeOK /\ Decoded /\ Built(p)
    BY DEF ColumnInv
<1>2. /\ cells \in Seq(CellsOf(column)) /\ array[p] \in Seq(Outcomes)
      /\ datums \in Seq(Datums)
    BY <1>1 DEF ColumnTypeOK
<1>3. i \in 1 .. Len(cells) /\ cells[i] \in CellsOf(column)
    BY <1>1, <1>2 DEF Built
<1>4. array[p][i] = Outcome(p, cells[i]) /\ Outcome(p, cells[i]).st = "ok"
    BY <1>1 DEF Built
<1>5. ASSUME p = "row" PROVE ~Refused(DatumOf(cells[i]))
    <2>1. i \in 1 .. Len(datums)
        BY <1>1, <1>2, <1>5 DEF Decoded
    <2> QED
        BY <1>1, <2>1 DEF Decoded
<1> QED
    BY <1>3, <1>4, <1>5

(* What a value that got through has become. *)
LEMMA OutcomeOfRow ==
    ASSUME column \in Columns, column.type # "Numeric", NEW c \in CellsOf(column),
           NEW p \in Paths, Outcome(p, c).st = "ok", p = "row" => ~Refused(DatumOf(c))
    PROVE  IF c.form = "null" THEN Outcome(p, c) = GotNull
           ELSE \/ p = "batch" /\ Unshiftable(c)
                \/ Outcome(p, c) = Got(Meaning(p, c.fields))
<1>1. CASE c.form = "null"
    BY <1>1, NullOutcome
<1>2. CASE c.form # "null" /\ p = "row"
    <2>1. DatumOf(c).variant # "error"
        BY <1>2 DEF Refused
    <2>2. Outcome("row", c) = Got(Meaning("row", c.fields))
        BY <1>2, <2>1, RowOutcome
    <2> QED
        BY <1>2, <2>2
<1>3. CASE c.form # "null" /\ p = "batch"
    <2>1. ~Unshiftable(c) => Outcome("batch", c) = Got(Meaning("batch", c.fields))
        BY <1>3, BatchOutcome
    <2> QED
        BY <1>3, <2>1
<1> QED
    BY <1>1, <1>2, <1>3 DEF Paths

(* A stored value reaches the record batch with its meaning, on both paths *)
(* and in every row (decode_fixed, decode_varlena and build_arrow_array;   *)
(* ColumnBuilder::append_bytes).                                           *)
THEOREM ColumnValues == Spec => []ValuesExact
<1>1. ColumnInv => ValuesExact
    <2> SUFFICES ASSUME ColumnInv, column.type # "Numeric",
                        NEW p \in Paths, NEW i \in 1 .. Len(array[p])
                 PROVE  IF cells[i].form = "null" THEN array[p][i] = GotNull
                        ELSE \/ p = "batch" /\ Unshiftable(cells[i])
                             \/ array[p][i] = Got(Meaning(p, cells[i].fields))
        BY DEF ValuesExact
    <2>1. PICK c : c = cells[i]
        OBVIOUS
    <2>2. /\ c \in CellsOf(column)
          /\ array[p][i] = Outcome(p, c) /\ Outcome(p, c).st = "ok"
          /\ p = "row" => ~Refused(DatumOf(c))
        BY <2>1, RowOfArray
    <2>3. column \in Columns
        BY DEF ColumnInv, ColumnTypeOK
    <2>4. IF c.form = "null" THEN Outcome(p, c) = GotNull
          ELSE \/ p = "batch" /\ Unshiftable(c)
               \/ Outcome(p, c) = Got(Meaning(p, c.fields))
        BY <2>2, <2>3, OutcomeOfRow
    <2> QED
        BY <2>1, <2>2, <2>4
<1> QED
    BY <1>1, ColumnInvariant, PTL

(* When a value does not get through. *)
LEMMA StopsRow ==
    ASSUME column \in Columns, column.type # "Numeric", NEW c \in CellsOf(column)
    PROVE  Refused(DatumOf(c)) \/ Outcome("row", c).st # "ok" <=>
             \/ column.type = "Name" /\ c.form # "null"
             \/ column.type \in StringTypes /\ NotText(c)
<1>1. CASE c.form = "null"
    <2>1. ~NotText(c)
        BY <1>1, CellFacts DEF NotText
    <2>2. ~Refused(DatumOf(c)) /\ Outcome("row", c).st = "ok"
        BY <1>1, NullOutcome DEF GotNull, Paths
    <2> QED
        BY <1>1, <2>1, <2>2
<1>2. CASE c.form # "null" /\ column.type = "Name"
    BY <1>2, RowOutcome
<1>3. CASE c.form # "null" /\ column.type \in StringTypes /\ NotText(c)
    BY <1>3, RowOutcome DEF Refused
<1>4. CASE /\ c.form # "null" /\ column.type # "Name"
           /\ ~(column.type \in StringTypes /\ NotText(c))
    <2>1. ~Refused(DatumOf(c)) /\ Outcome("row", c) = Got(Meaning("row", c.fields))
        BY <1>4, RowOutcome
    <2> QED
        BY <1>4, <2>1 DEF Got
<1> QED
    BY <1>1, <1>2, <1>3, <1>4

LEMMA StopsBatch ==
    ASSUME column \in Columns, column.type # "Numeric", NEW c \in CellsOf(column)
    PROVE  /\ Outcome("batch", c).st # "ok" <=> debug /\ Unshiftable(c)
           /\ Outcome("batch", c).st = "ok" => (Outcome("batch", c).null <=> c.form = "null")
<1>1. CASE c.form = "null"
    BY <1>1, NullOutcome DEF GotNull, Paths, Unshiftable
<1>2. CASE c.form # "null" /\ column.type \in Temporal
    BY <1>2, BatchOutcome DEF Got, Fails
<1>3. CASE c.form # "null" /\ column.type \notin Temporal
    <2>1. ~Unshiftable(c)
        BY <1>3 DEF Unshiftable
    <2>2. Outcome("batch", c) = Got(Meaning("batch", c.fields))
        BY <1>3, <2>1, BatchOutcome
    <2> QED
        BY <1>3, <2>1, <2>2 DEF Got
<1> QED
    BY <1>1, <1>2, <1>3

(* A null in the array is a null of the column. *)
LEMMA NullsOfArray ==
    ASSUME ColumnInv, column.type # "Numeric", NEW p \in Paths, NEW i \in 1 .. Len(array[p])
    PROVE  array[p][i].null => column.nullable
<1>1. PICK c : c = cells[i]
    OBVIOUS
<1>2. /\ c \in CellsOf(column)
      /\ array[p][i] = Outcome(p, c) /\ Outcome(p, c).st = "ok"
      /\ p = "row" => ~Refused(DatumOf(c))
    BY <1>1, RowOfArray
<1>3. column \in Columns
    BY DEF ColumnInv, ColumnTypeOK
<1>4. c.form = "null" => column.nullable
    BY <1>2, <1>3, CellFacts
<1>5. ASSUME c.form # "null" PROVE ~Outcome(p, c).null
    <2>1. CASE p = "batch"
        BY <1>2, <1>3, <1>5, <2>1, StopsBatch
    <2>2. CASE p = "row"
        BY <1>2, <1>3, <1>5, <2>2, OutcomeOfRow DEF Got
    <2> QED
        BY <2>1, <2>2 DEF Paths
<1> QED
    BY <1>2, <1>4, <1>5

(* The reasons for which a path does not give a batch. *)
LEMMA RefusalReasons ==
    ASSUME ColumnInv, column.type # "Numeric", NEW p \in Paths, status[p] \in Done
    PROVE  status[p] # "ok" <=>
             \/ column.type \in {"Interval"} \cup ArrayTypes
             \/ p = "batch" /\ debug /\ \E i \in 1 .. Len(cells) : Unshiftable(cells[i])
             \/ /\ p = "row" /\ column.type \in {"Name"} \cup StringTypes
                /\ \E i \in 1 .. Len(cells) :
                     \/ column.type = "Name" /\ cells[i].form # "null"
                     \/ NotText(cells[i])
<1> DEFINE Bad(c) ==
      \/ p = "batch" /\ debug /\ Unshiftable(c)
      \/ /\ p = "row"
         /\ \/ column.type = "Name" /\ c.form # "null"
            \/ column.type \in StringTypes /\ NotText(c)
<1>1. ColumnTypeOK /\ Decoded /\ Built(p) /\ Stopped(p)
    BY DEF ColumnInv
<1>2. column \in Columns /\ cells \in Seq(CellsOf(column)) /\ array[p] \in Seq(Outcomes)
      /\ datums \in Seq(Datums)
    BY <1>1 DEF ColumnTypeOK
<1>3. ASSUME NEW c \in CellsOf(column)
      PROVE  /\ p = "row" => (Bad(c) <=> Refused(DatumOf(c)) \/ Outcome("row", c).st # "ok")
             /\ p = "batch" => (Bad(c) <=> Outcome("batch", c).st # "ok")
    BY <1>2, StopsRow, StopsBatch
<1>4. ASSUME NEW i \in 1 .. Len(cells)
      PROVE  cells[i] \in CellsOf(column) /\ (NotText(cells[i]) => cells[i].form # "null")
    <2>1. cells[i] \in CellsOf(column)
        BY <1>2
    <2> QED
        BY <1>2, <2>1, CellFacts DEF NotText
<1>5. SUFFICES status[p] # "ok" <=>
                 \/ column.type \in {"Interval"} \cup ArrayTypes
                 \/ \E i \in 1 .. Len(cells) : Bad(cells[i])
    BY <1>4
<1>6. CASE status[p] = "ok"
    <2>1. Len(array[p]) = Len(cells) /\ Accepted(p)
        BY <1>1, <1>6 DEF Stopped
    <2>2. column.type \notin {"Interval"} \cup ArrayTypes
        BY <1>2, <2>1, BuilderTypes DEF Accepted
    <2>3. ASSUME NEW i \in 1 .. Len(cells) PROVE ~Bad(cells[i])
        <3>1. i \in 1 .. Len(array[p])
            BY <2>1
        <3>2. /\ cells[i] \in CellsOf(column) /\ Outcome(p, cells[i]).st = "ok"
              /\ p = "row" => ~Refused(DatumOf(cells[i]))
            BY <3>1, RowOfArray
        <3> QED
            BY <1>3, <3>2 DEF Paths
    <2> QED
        BY <1>6, <2>2, <2>3
<1>7. CASE status[p] # "ok"
    <2>1. status[p] \in {"error", "panic"}
        BY <1>7 DEF Done
    <2>2. CASE /\ p = "row" /\ Len(datums) < Len(cells)
               /\ DatumOf(cells[Len(datums) + 1]).variant = status[p]
        <3>1. PICK k : k = Len(datums) + 1
            OBVIOUS
        <3>2. k \in 1 .. Len(cells) /\ Refused(DatumOf(cells[k]))
            BY <1>2, <2>1, <2>2, <3>1 DEF Refused
        <3>3. Bad(cells[k])
            BY <1>3, <1>4, <2>2, <3>2
        <3> QED
            BY <1>7, <3>2, <3>3
    <2>3. CASE /\ Len(array[p]) < Len(cells)
               /\ Outcome(p, cells[Len(array[p]) + 1]).st = status[p]
        <3>1. PICK k : k = Len(array[p]) + 1
            OBVIOUS
        <3>2. k \in 1 .. Len(cells) /\ Outcome(p, cells[k]).st # "ok"
            BY <1>2, <1>7, <2>3, <3>1
        <3>3. Bad(cells[k])
            BY <1>3, <1>4, <3>2 DEF Paths
        <3> QED
            BY <1>7, <3>2, <3>3
    <2>4. CASE Len(array[p]) = Len(cells) /\ ~Accepted(p)
        <3>1. column.nullable \/ \A i \in 1 .. Len(cells) : ~array[p][i].null
            BY <2>4, NullsOfArray
        <3>2. ArrayType(p) # to_arrow_field(column).type
            BY <2>4, <3>1 DEF Accepted
        <3>3. column.type \in {"Interval"} \cup ArrayTypes
            BY <1>2, <3>2, BuilderTypes
        <3> QED
            BY <1>7, <3>3
    <2> QED
        BY <1>1, <2>1, <2>2, <2>3, <2>4 DEF Stopped
<1> QED
    BY <1>6, <1>7

(* A column that is no numeric is refused, or the program panics, exactly  *)
(* for the reasons RefusedExactly lists: nothing that a builder, a decoder *)
(* or RecordBatch::try_new does loses a batch in another way.              *)
THEOREM ColumnRefusals == Spec => [](column.type # "Numeric" => RefusedExactly)
<1>1. ColumnInv => (column.type # "Numeric" => RefusedExactly)
    BY RefusalReasons DEF RefusedExactly
<1> QED
    BY <1>1, ColumnInvariant, PTL

(* What a value means does not depend on the path, but for dates and       *)
(* timestamps.                                                             *)
LEMMA MeaningOfPaths ==
    ASSUME NEW v, column.type \notin Temporal
    PROVE  Meaning("row", v) = Meaning("batch", v)
BY SMTT(30) DEF Meaning

(* The paths end alike where they make the same of every cell.             *)
LEMMA SameCellsSameBatch ==
    ASSUME ColumnInv, Finished,
           \A i \in 1 .. Len(cells) :
             ~Refused(DatumOf(cells[i])) /\ Outcome("row", cells[i]) = Outcome("batch", cells[i])
    PROVE  status["row"] = status["batch"] /\ array["row"] = array["batch"]
<1>1. ColumnTypeOK /\ \A p \in Paths : Built(p) /\ Stopped(p)
    BY DEF ColumnInv
<1>2. column \in Columns /\ cells \in Seq(CellsOf(column)) /\ datums \in Seq(Datums)
      /\ \A p \in Paths : array[p] \in Seq(Outcomes)
    BY <1>1 DEF ColumnTypeOK
<1>3. ASSUME NEW p \in Paths
      PROVE  /\ Len(array[p]) \in 0 .. Len(cells)
             /\ \A i \in 1 .. Len(array[p]) :
                  array[p][i] = Outcome("row", cells[i]) /\ Outcome("row", cells[i]).st = "ok"
             /\ Len(array[p]) < Len(cells) =>
                  /\ Outcome("row", cells[Len(array[p]) + 1]).st = status[p]
                  /\ status[p] # "ok"
             /\ Len(array[p]) = Len(cells) =>
                  status[p] = IF Accepted(p) THEN "ok" ELSE "error"
    <2>1. Built(p) /\ Stopped(p) /\ status[p] \in Done
        BY <1>1 DEF Finished
    <2>2. Len(array[p]) \in 0 .. Len(cells)
        BY <1>2, <2>1 DEF Built
    <2>3. \A i \in 1 .. Len(cells) : Outcome(p, cells[i]) = Outcome("row", cells[i])
        BY DEF Paths
    <2>4. \A i \in 1 .. Len(array[p]) :
            array[p][i] = Outcome("row", cells[i]) /\ Outcome("row", cells[i]).st = "ok"
        BY <2>1, <2>2, <2>3 DEF Built
    <2>5. ~(Len(datums) < Len(cells) /\ DatumOf(cells[Len(datums) + 1]).variant = status[p]
            /\ status[p] \in {"error", "panic"})
        BY <1>2 DEF Refused
    <2>6. ASSUME Len(array[p]) < Len(cells)
          PROVE  /\ Outcome("row", cells[Len(array[p]) + 1]).st = status[p]
                 /\ status[p] # "ok"
        <3>1. status[p] \in {"error", "panic"}
            BY <2>1, <2>2, <2>6 DEF Stopped, Done
        <3>2. Outcome(p, cells[Len(array[p]) + 1]).st = status[p]
            BY <2>1, <2>2, <2>5, <2>6, <3>1 DEF Stopped
        <3>3. Len(array[p]) + 1 \in 1 .. Len(cells)
            BY <2>2, <2>6
        <3> QED
            BY <2>3, <3>1, <3>2, <3>3
    <2>7. ASSUME Len(array[p]) = Len(cells)
          PROVE  status[p] = IF Accepted(p) THEN "ok" ELSE "error"
        <3>1. CASE status[p] = "ok"
            BY <2>1, <3>1 DEF Stopped
        <3>2. CASE status[p] # "ok"
            <4>1. status[p] \in {"error", "panic"}
                BY <2>1, <3>2 DEF Done
            <4>2. status[p] = "error" /\ ~Accepted(p)
                BY <1>2, <2>1, <2>2, <2>5, <2>7, <4>1 DEF Stopped
            <4> QED
                BY <4>2
        <3> QED
            BY <3>1, <3>2
    <2> QED
        BY <2>2, <2>4, <2>6, <2>7
<1>4. "row" \in Paths /\ "batch" \in Paths
    BY DEF Paths
<1>5. PICK n : n = Len(array["row"])
    OBVIOUS
<1>6. PICK m : m = Len(array["batch"])
    OBVIOUS
<1>7. n \in 0 .. Len(cells) /\ m \in 0 .. Len(cells)
    BY <1>3, <1>4, <1>5, <1>6
<1>8. n = m
    <2>1. ASSUME n < m PROVE FALSE
        <3>1. n + 1 \in 1 .. m /\ n < Len(cells)
            BY <1>7, <2>1
        <3>2. Outcome("row", cells[n + 1]).st = "ok"
            BY <1>3, <1>4, <1>6, <3>1
        <3>3. Outcome("row", cells[n + 1]).st # "ok"
            BY <1>3, <1>4, <1>5, <3>1
        <3> QED
            BY <3>2, <3>3
    <2>2. ASSUME m < n PROVE FALSE
        <3>1. m + 1 \in 1 .. n /\ m < Len(cells)
            BY <1>7, <2>2
        <3>2. Outcome("row", cells[m + 1]).st = "ok"
            BY <1>3, <1>4, <1>5, <3>1
        <3>3. Outcome("row", cells[m + 1]).st # "ok"
            BY <1>3, <1>4, <1>6, <3>1
        <3> QED
            BY <3>2, <3>3
    <2> QED
        BY <1>7, <2>1, <2>2
<1>9. array["row"] = array["batch"]
    <2>1. ASSUME NEW i \in 1 .. n PROVE array["row"][i] = array["batch"][i]
        <3>1. array["row"][i] = Outcome("row", cells[i])
            BY <1>3, <1>4, <1>5
        <3>2. array["batch"][i] = Outcome("row", cells[i])
            BY <1>3, <1>4, <1>6, <1>8
        <3> QED
            BY <3>1, <3>2
    <2>2. array["row"] \in Seq(Outcomes) /\ array["batch"] \in Seq(Outcomes)
        BY <1>2, <1>4
    <2> QED
        BY <1>5, <1>6, <1>8, <2>1, <2>2, SeqEqual
<1>10. status["row"] = status["batch"]
    <2>1. CASE n < Len(cells)
        BY <1>3, <1>4, <1>5, <1>6, <1>8, <2>1, ZenonT(60)
    <2>2. CASE n = Len(cells)
        <3>1. Accepted("row") <=> Accepted("batch")
            BY <1>2, <1>4, <1>9, BuilderTypes DEF Accepted
        <3>2. status["row"] = IF Accepted("row") THEN "ok" ELSE "error"
            BY <1>3, <1>4, <1>5, <2>2
        <3>3. status["batch"] = IF Accepted("batch") THEN "ok" ELSE "error"
            BY <1>3, <1>4, <1>6, <1>8, <2>2
        <3> QED
            BY <3>1, <3>2, <3>3
    <2> QED
        BY <1>7, <2>1, <2>2
<1> QED
    BY <1>9, <1>10

(* Reading a column by rows or by batches gives the same array and ends in *)
(* the same way, but for the years between the epochs, for names, and for  *)
(* texts that are not UTF-8.  Numerics are included: both ways hand the    *)
(* same words to the same conversion.                                      *)
THEOREM ColumnPathsAgree == Spec => []PathsAgree
<1>1. ColumnInv => PathsAgree
    <2> SUFFICES ASSUME ColumnInv, Finished PROVE PathsAgree
        BY DEF PathsAgree
    <2> DEFINE G1 == column.type \in Temporal
               G2 == column.type \in StringTypes /\ \E i \in 1 .. Len(cells) : NotText(cells[i])
               G3 == column.type = "Name" /\ \E i \in 1 .. Len(cells) : cells[i].form # "null"
               A1 == status["batch"] = "ok" =>
                       \A i \in 1 .. Len(cells) :
                         array["batch"][i] =
                           IF array["row"][i].null THEN GotNull
                           ELSE Got(<<Wrapped(array["row"][i].value[1] + EpochOf(column.type),
                                              FieldBits)>>)
               A2 == status["row"] = "error" /\ status["batch"] = "ok"
               A3 == status["row"] # "ok" /\ status["batch"] = "ok"
               A4 == /\ status["row"] = status["batch"]
                     /\ ArrayType("row") = ArrayType("batch")
                     /\ array["row"] = array["batch"]
    <2>1. ColumnTypeOK /\ Decoded /\ \A p \in Paths : Built(p) /\ Stopped(p)
        BY DEF ColumnInv
    <2>2. /\ column \in Columns /\ cells \in Seq(CellsOf(column)) /\ datums \in Seq(Datums)
          /\ \A p \in Paths : array[p] \in Seq(Outcomes)
        BY <2>1 DEF ColumnTypeOK
    <2>3. "row" \in Paths /\ "batch" \in Paths /\ status["row"] \in Done /\ status["batch"] \in Done
        BY DEF Paths, Finished
    <2>4. \A i \in 1 .. Len(cells) : cells[i] \in CellsOf(column)
        BY <2>2
    <2>5. ASSUME G1 PROVE A1
        <3> SUFFICES ASSUME status["batch"] = "ok", NEW i \in 1 .. Len(cells)
                     PROVE  array["batch"][i] =
                              IF array["row"][i].null THEN GotNull
                              ELSE Got(<<Wrapped(array["row"][i].value[1] + EpochOf(column.type),
                                                 FieldBits)>>)
            OBVIOUS
        <3>1. column.type \notin {"Name", "Numeric", "Interval"} \cup StringTypes \cup ArrayTypes
            BY <2>5 DEF Temporal, StringTypes, ArrayTypes
        <3>2. status["row"] = "ok"
            BY <2>3, <3>1, RefusalReasons
        <3>3. i \in 1 .. Len(array["row"]) /\ i \in 1 .. Len(array["batch"])
            BY <2>1, <2>3, <3>2 DEF Stopped
        <3>4. PICK c : c = cells[i]
            OBVIOUS
        <3>5. /\ array["row"][i] = Outcome("row", c) /\ Outcome("row", c).st = "ok"
              /\ ~Refused(DatumOf(c)) /\ c \in CellsOf(column)
            BY <2>3, <3>3, <3>4, RowOfArray
        <3>6. array["batch"][i] = Outcome("batch", c) /\ Outcome("batch", c).st = "ok"
            BY <2>3, <3>3, <3>4, RowOfArray
        <3>7. CASE c.form = "null"
            <4>1. Outcome("row", c) = GotNull /\ Outcome("batch", c) = GotNull
                BY <2>2, <2>3, <3>7, NullOutcome
            <4> QED
                BY <3>5, <3>6, <4>1 DEF GotNull
        <3>8. CASE c.form # "null"
            <4>1. Outcome("row", c) = Got(Meaning("row", c.fields))
                BY <2>2, <2>3, <3>1, <3>5, <3>8, OutcomeOfRow
            <4>2. PICK n : n = Integer(c.fields[1])
                OBVIOUS
            <4>3. Meaning("row", c.fields) = <<n + 0>>
                BY <2>5, <4>2, MeaningTemporal
            <4>4. n \in Int
                <5>1. PICK t : t = column.type
                    OBVIOUS
                <5>2. PICK v : v = c.fields
                    OBVIOUS
                <5>3. WellFormed(t, v) /\ t \in Temporal
                    BY <2>2, <2>5, <3>1, <3>5, <3>8, <5>1, <5>2, CellFacts
                <5>4. v \in Seq(Nat) /\ Len(v) = 1 /\ v[1] < 2 ^ FieldBits
                    BY <5>3 DEF WellFormed, NumberTypes, SignedTypes, FieldCount, Temporal
                <5> QED
                    BY <4>2, <5>2, <5>4, PatternFacts
            <4>5. array["row"][i].null = FALSE /\ array["row"][i].value[1] = n
                BY <3>5, <4>1, <4>3, <4>4 DEF Got
            <4>6. Outcome("batch", c) = Got(<<Wrapped(n + EpochOf(column.type), FieldBits)>>)
                <5>1. Outcome("batch", c) =
                        IF debug /\ Unshiftable(c) THEN Fails("panic")
                        ELSE Got(<<Wrapped(n + EpochOf(column.type), FieldBits)>>)
                    BY <2>2, <2>5, <3>1, <3>5, <3>8, <4>2, BatchOutcome
                <5> QED
                    BY <3>6, <5>1 DEF Fails
            <4> QED
                BY <3>6, <4>5, <4>6
        <3> QED
            BY <3>7, <3>8
    <2>6. ASSUME G2 PROVE A2
        <3>1. PICK i \in 1 .. Len(cells) : NotText(cells[i])
            BY <2>6
        <3>2. /\ column.type \notin {"Name", "Numeric", "Interval"} \cup ArrayTypes
              /\ column.type \notin Temporal
            BY <2>6 DEF Temporal, StringTypes, ArrayTypes
        <3>3. status["row"] # "ok"
            BY <2>3, <2>6, <3>1, <3>2, RefusalReasons
        <3>4. status["batch"] = "ok"
            BY <2>3, <3>2, RefusalReasons DEF Unshiftable
        <3>5. ASSUME NEW c \in CellsOf(column)
              PROVE  DatumOf(c).variant # "panic" /\ (NotText(c) => Refused(DatumOf(c)))
            <4>1. CASE c.form = "null"
                BY <2>2, <2>3, <3>2, <4>1, NullOutcome, CellFacts DEF Refused, NotText
            <4>2. CASE c.form # "null"
                BY <2>2, <2>6, <3>2, <4>2, RowOutcome DEF Refused
            <4> QED
                BY <4>1, <4>2
        <3>6. Len(datums) < Len(cells)
            <4>1. cells[i] \in CellsOf(column)
                BY <2>4
            <4>2. Refused(DatumOf(cells[i]))
                BY <3>1, <3>5, <4>1
            <4>3. i \notin 1 .. Len(datums)
                BY <2>1, <4>2 DEF Decoded
            <4> QED
                BY <2>2, <4>3
        <3>7. DatumOf(cells[Len(datums) + 1]).variant = status["row"]
            <4>1. status["row"] \in {"error", "panic"}
                BY <2>3, <3>3 DEF Done
            <4>2. Len(datums) # Len(cells)
                BY <2>2, <3>6
            <4> QED
                BY <2>1, <2>3, <4>1, <4>2 DEF Stopped
        <3>8. cells[Len(datums) + 1] \in CellsOf(column)
            BY <2>2, <2>4, <3>6
        <3>9. status["row"] # "panic"
            BY <3>5, <3>7, <3>8
        <3> QED
            BY <2>3, <3>3, <3>4, <3>9 DEF Done
    <2>7. ASSUME G3 PROVE A3
        <3>1. PICK i \in 1 .. Len(cells) : cells[i].form # "null"
            BY <2>7
        <3>2. column.type \notin {"Numeric", "Interval"} \cup ArrayTypes \cup Temporal
            BY <2>7 DEF Temporal, ArrayTypes
        <3>3. status["row"] # "ok"
            BY <2>3, <2>7, <3>1, <3>2, RefusalReasons
        <3>4. status["batch"] = "ok"
            BY <2>3, <2>7, <3>2, RefusalReasons DEF Unshiftable, StringTypes
        <3> QED
            BY <3>3, <3>4
    <2>8. ASSUME ~G1, ~G2, ~G3 PROVE A4
        <3>1. ASSUME NEW i \in 1 .. Len(cells)
              PROVE  /\ ~Refused(DatumOf(cells[i]))
                     /\ Outcome("row", cells[i]) = Outcome("batch", cells[i])
            <4>1. PICK c : c = cells[i]
                OBVIOUS
            <4>2. c \in CellsOf(column)
                BY <2>4, <4>1
            <4>3. CASE column.type = "Numeric"
                BY <2>2, <4>1, <4>2, <4>3, NumericOutcomes
            <4>4. CASE column.type # "Numeric" /\ c.form = "null"
                <5>1. ~Refused(DatumOf(c)) /\ Outcome("row", c) = GotNull
                    BY <2>2, <2>3, <4>4, NullOutcome
                <5>2. Outcome("batch", c) = GotNull
                    BY <2>2, <2>3, <4>4, NullOutcome
                <5> QED
                    BY <4>1, <5>1, <5>2
            <4>5. CASE column.type # "Numeric" /\ c.form # "null"
                <5>1. column.type # "Name" /\ ~(column.type \in StringTypes /\ NotText(c))
                    BY <2>8, <4>1, <4>5
                <5>2. ~Refused(DatumOf(c)) /\ Outcome("row", c) = Got(Meaning("row", c.fields))
                    BY <2>2, <4>2, <4>5, <5>1, RowOutcome
                <5>3. ~Unshiftable(c)
                    BY <2>8 DEF Unshiftable
                <5>4. Outcome("batch", c) = Got(Meaning("batch", c.fields))
                    BY <2>2, <4>2, <4>5, <5>3, BatchOutcome
                <5>5. Meaning("row", c.fields) = Meaning("batch", c.fields)
                    BY <2>8, MeaningOfPaths
                <5> QED
                    BY <4>1, <5>2, <5>4, <5>5
            <4> QED
                BY <4>3, <4>4, <4>5
        <3>2. status["row"] = status["batch"] /\ array["row"] = array["batch"]
            BY <3>1, SameCellsSameBatch
        <3>3. ArrayType("row") = ArrayType("batch")
            BY <2>2, <2>3, BuilderTypes
        <3> QED
            BY <3>2, <3>3
    <2>9. (G1 => ~G2 /\ ~G3) /\ (G2 => ~G3)
        BY DEF Temporal, StringTypes
    <2>10. PathsAgree = (Finished => CASE G1 -> A1 [] G2 -> A2 [] G3 -> A3 [] OTHER -> A4)
        BY Zenon DEF PathsAgree
    <2> HIDE DEF G1, G2, G3, A1, A2, A3, A4
    <2>11. (CASE G1 -> A1 [] G2 -> A2 [] G3 -> A3 [] OTHER -> A4)
        BY <2>5, <2>6, <2>7, <2>8, <2>9
    <2> QED
        BY <2>10, <2>11
<1> QED
    BY <1>1, ColumnInvariant, PTL
=============================================================================
