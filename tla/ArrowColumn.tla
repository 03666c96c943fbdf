---------------------------- MODULE ArrowColumn ----------------------------
(***************************************************************************)
(* One column of a table on its two ways into an Arrow record batch.       *)
(*                                                                         *)
(*  "row"    decode_datum makes a PgDatum of every value                   *)
(*           (src/src/types/codec.rs), PgRow::to_record_batch builds the   *)
(*           array from the datums (src/src/table/mod.rs);                 *)
(*  "batch"  ColumnBuilder takes the bytes as they are                     *)
(*           (src/src/types/arrow.rs), as to_record_batch of a page does.  *)
(*                                                                         *)
(* A stored value is a sequence of fields: bit patterns of FieldBits bits  *)
(* for what is made of numbers, bytes for text, 16-bit words for numerics. *)
(* That its bytes are found in the tuple is TupleDecode's matter.          *)
(***************************************************************************)
EXTENDS PgNumeric, PgText, FiniteSets, SequencesExt

CONSTANTS
    Columns,       \* columns: [type, typmod, nullable]
    StoredValues,  \* per type: what PostgreSQL may store in it
    Numerics,      \* per typmod: numbers a NUMERIC column may hold
    MaxRows,       \* rows of the batch
    FieldBits,     \* bits of a number (8 to 64)
    EpochDays,     \* from 1970 to 2000: 10957 days
    EpochMicros    \* the same in microseconds

VARIABLES
    column,        \* the column's descriptor
    debug,         \* are arithmetic overflows checked in this build?
    cells,         \* the stored values, one per row
    datums,        \* row path: the values decoded so far
    array,         \* per path: the Arrow values so far
    status         \* per path: "decode", "build", "ok", "error" or "panic"

input == <<column, debug, cells>>
vars == <<input, datums, array, status>>

Paths == {"row", "batch"}
Done == {"ok", "error", "panic"}

-----------------------------------------------------------------------------
(* The type ids (PgTypeId), by what the code tells apart. *)

SignedTypes == {"Int2", "Int4", "Int8", "Date", "Money", "Time", "Timestamp",
                "Timestamptz"}
UnsignedTypes == {"Char", "Oid", "Xid", "Cid", "Xid8"}
FloatTypes == {"Float4", "Float8"}
StringTypes == {"Text", "Varchar", "Bpchar", "Json", "Xml"}
BlobTypes == {"Bytea", "Jsonb", "Jsonpath", "Inet", "Cidr", "Bit", "Varbit",
              "Path", "Polygon"}
FixedBinaryTypes == {"Uuid", "Macaddr", "Macaddr8", "Point", "Line", "Circle",
                     "Lseg", "Box"}
ArrayTypes == {"BoolArray", "ByteaArray", "CharArray", "NameArray", "Int2Array",
               "Int4Array", "TextArray", "TidArray", "XidArray", "CidArray",
               "VarcharArray", "Int8Array", "Float4Array", "Float8Array",
               "OidArray", "TimestampArray", "DateArray", "TimeArray",
               "TimestamptzArray", "NumericArray", "UuidArray", "JsonbArray"}

PgTypeId == {"Bool", "Timetz", "Interval", "Name", "Tid", "Aclitem", "Numeric"}
              \cup SignedTypes \cup UnsignedTypes \cup FloatTypes \cup StringTypes
              \cup BlobTypes \cup FixedBinaryTypes \cup ArrayTypes

(* The types that are made of numbers, and of how many. *)
NumberTypes == SignedTypes \cup UnsignedTypes \cup {"Timetz", "Tid", "Interval"}
FieldCount(t) == IF t = "Interval" THEN 3 ELSE IF t \in {"Timetz", "Tid"} THEN 2 ELSE 1

(* What PostgreSQL may store in a column: a bool is 0 or 1, and a name is  *)
(* filled up with zero bytes.                                              *)
WellFormed(t, v) ==
    /\ v \in Seq(Nat)
    /\ t = "Bool" => v \in {<<0>>, <<1>>}
    /\ t \in NumberTypes => /\ Len(v) = FieldCount(t)
                            /\ \A i \in 1 .. Len(v) : v[i] < 2 ^ FieldBits
    /\ t = "Name" => \E n \in 0 .. Len(v) : \A i \in 1 .. Len(v) : v[i] # 0 <=> i <= n

ASSUME ArrowColumnAssumption ==
    /\ \A col \in Columns : col.type \in PgTypeId /\ col.nullable \in BOOLEAN
    /\ \A t \in DOMAIN StoredValues : \A v \in StoredValues[t] : WellFormed(t, v)
    /\ \A col \in Columns : col.type # "Numeric" => col.type \in DOMAIN StoredValues
    /\ {EpochDays, EpochMicros} \subseteq Nat

(* Of powers of two the proofs use no more than this. *)
ASSUME FieldBitsAssumption ==
    /\ FieldBits \in Nat \ {0}
    /\ 2 ^ (FieldBits - 1) \in Nat \ {0}
    /\ 2 ^ FieldBits = 2 * 2 ^ (FieldBits - 1)

(* On-disk sizes in bytes; 0 for a varlena. *)
type_len(t) ==
    CASE t \in {"Bool", "Char"} -> 1
      [] t = "Int2" -> 2
      [] t \in {"Int4", "Oid", "Xid", "Cid", "Float4", "Date"} -> 4
      [] t \in {"Tid", "Macaddr"} -> 6
      [] t \in {"Int8", "Float8", "Money", "Time", "Timestamp", "Timestamptz",
                "Xid8", "Macaddr8"} -> 8
      [] t = "Timetz" -> 12
      [] t \in {"Interval", "Point", "Uuid", "Aclitem"} -> 16
      [] t \in {"Line", "Circle"} -> 24
      [] t \in {"Lseg", "Box"} -> 32
      [] t = "Name" -> 64
      [] OTHER -> 0

Plain(of) == DataType(of, <<>>)

(* The Arrow type of a type: what the schema of the batch says. *)
arrow_type(t) ==
    CASE t = "Bool" -> Plain("Boolean")
      [] t = "Char" -> Plain("UInt8")
      [] t = "Int2" -> Plain("Int16")
      [] t = "Int4" -> Plain("Int32")
      [] t \in {"Int8", "Money"} -> Plain("Int64")
      [] t = "Float4" -> Plain("Float32")
      [] t = "Float8" -> Plain("Float64")
      [] t \in {"Oid", "Xid", "Cid"} -> Plain("UInt32")
      [] t = "Xid8" -> Plain("UInt64")
      [] t = "Date" -> Plain("Date32")
      [] t \in {"Time", "Timetz"} -> Plain("Time64")
      [] t = "Timestamp" -> Plain("Timestamp")
      [] t = "Timestamptz" -> Plain("TimestampUTC")
      [] t = "Interval" -> Plain("IntervalMonthDayNano")
      [] t \in StringTypes \cup {"Name"} -> Plain("Utf8")
      [] t = "Numeric" -> DataType("Decimal256", <<MaxPrecision128, 0>>)
      [] t \in {"Uuid", "Point"} -> DataType("FixedSizeBinary", <<16>>)
      [] t = "Macaddr" -> DataType("FixedSizeBinary", <<6>>)
      [] t = "Macaddr8" -> DataType("FixedSizeBinary", <<8>>)
      [] t \in {"Line", "Circle"} -> DataType("FixedSizeBinary", <<24>>)
      [] t \in {"Lseg", "Box"} -> DataType("FixedSizeBinary", <<32>>)
      [] t \in BlobTypes \cup {"Tid", "Aclitem"} -> Plain("Binary")
      [] t \in ArrayTypes -> Plain("List")

to_arrow_field(col) ==
    [type |-> IF col.type = "Numeric" THEN numeric_typmod_to_arrow_type(col.typmod)
                                      ELSE arrow_type(col.type),
     nullable |-> col.nullable]

-----------------------------------------------------------------------------
(* What PostgreSQL stores. *)

NullCell == [form |-> "null", fields |-> <<>>, number |-> <<>>]
Cell(fields) == [form |-> "value", fields |-> fields, number |-> <<>>]

(* What is no number of the column, and why: NaN, the infinities, and a    *)
(* TOASTed numeric, whose payload is empty here.                           *)
SpecialCells == {Cell(<<49152>>), Cell(<<53248>>), Cell(<<61440>>), Cell(<<>>)}

(* The number m / 10^d as PostgreSQL stores it: digits of base NBASE       *)
(* without zeros at either end, and a short header or, in old files and    *)
(* for large numbers, a long one.                                          *)
NumericCell(m, d, short) ==
    LET abs == IF m < 0 THEN -m ELSE m
        fraction == (d + DecDigits - 1) \div DecDigits
        M == abs * 10 ^ (fraction * DecDigits - d)
        n == Min({k \in 0 .. 4 : M < NBASE ^ k})
        all == [i \in 1 .. n |-> (M \div NBASE ^ (n - i)) % NBASE]
        digits == SubSeq(all, 1, Max({i \in 1 .. n : all[i] # 0} \cup {0}))
        weight == IF m = 0 THEN 0 ELSE n - 1 - fraction
        sign == IF m < 0 THEN 1 ELSE 0
    IN  [form |-> "value", number |-> <<m, d>>,
         fields |-> (IF short
                       THEN <<32768 + 8192 * sign + 128 * d + (weight % 128)>>
                       ELSE <<16384 * sign + d, weight % 65536>>) \o digits]

CellsOf(col) ==
    (IF col.nullable THEN {NullCell} ELSE {}) \cup
    (IF col.type # "Numeric" THEN {Cell(v) : v \in StoredValues[col.type]}
     ELSE SpecialCells \cup {NumericCell(v[1], v[2], short) :
                               v \in Numerics[col.typmod], short \in BOOLEAN})

Init ==
    /\ column \in Columns
    /\ debug \in BOOLEAN
    /\ \E n \in 1 .. MaxRows : cells \in [1 .. n -> CellsOf(column)]
    /\ datums = <<>>
    /\ array = [p \in Paths |-> <<>>]
    /\ status = [row |-> "decode", batch |-> "build"]

-----------------------------------------------------------------------------
(* What a value becomes: a value, a null, or the end of the batch. *)

Got(v) == [st |-> "ok", null |-> FALSE, value |-> v]
GotNull == [st |-> "ok", null |-> TRUE, value |-> <<>>]
Fails(st) == [st |-> st, null |-> FALSE, value |-> <<>>]

(* from_ne_bytes of a signed type, and to_ne_bytes. *)
Signed(fields) == [i \in 1 .. Len(fields) |-> Wrapped(fields[i], FieldBits)]
Bits(numbers) == [i \in 1 .. Len(numbers) |-> numbers[i] % 2 ^ FieldBits]

(* A numeric into a decimal builder of this type. *)
NumericOutcome(words, type) ==
    LET h == parse_numeric_header(words)
        x == IF type.of = "Decimal128"
               THEN ToTargetScale(h, decode_pg_numeric_i128(h), type.args[2], W128)
               ELSE ToTargetScale(h, decode_pg_numeric_i256(h), type.args[2], W256)
    IN  IF ~h.some THEN GotNull
        ELSE IF x.dies \/ (debug /\ x.over) THEN Fails("panic")
        ELSE Got(<<x.n>>)

(* Row path: bytes to datums.  A name becomes a text; an aclitem, and what *)
(* decode_varlena does not know, is left as raw bytes.                     *)
Datum(variant, value) == [variant |-> variant, value |-> value]

decode_fixed(t, v) ==
    CASE t = "Bool" -> Datum(t, <<IF v[1] # 0 THEN 1 ELSE 0>>)
      [] t \in SignedTypes \cup {"Timetz", "Interval"} -> Datum(t, Signed(v))
      [] t \in UnsignedTypes \cup FloatTypes \cup FixedBinaryTypes \cup {"Tid"} -> Datum(t, v)
      [] t = "Aclitem" -> Datum("RawBytes", v)
      [] t = "Name" -> IF ValidUtf8(until_nul(v)) THEN Datum("Text", until_nul(v))
                                                  ELSE Datum("panic", <<>>)

decode_varlena(t, v) ==
    CASE t \in StringTypes -> IF ValidUtf8(v) THEN Datum(t, v) ELSE Datum("error", <<>>)
      [] t \in BlobTypes \cup {"Numeric"} -> Datum(t, v)
      [] OTHER -> Datum("RawBytes", v)

decode_datum(t, v) == IF type_len(t) # 0 THEN decode_fixed(t, v) ELSE decode_varlena(t, v)

-----------------------------------------------------------------------------
(* Row path: datums to an array.  An arm of build_arrow_array has the type *)
(* of its builder and what it appends for a datum; it takes only datums of *)
(* the variants it names.                                                  *)
Arm(type, variants, d, outcome) ==
    [type |-> type,
     cell |-> CASE d.variant = "Null" -> GotNull
                [] d.variant # "Null" /\ d.variant \in variants -> outcome
                [] OTHER -> Fails("error")]

(* Of a timetz only the time is kept.  A date and a timestamp are appended *)
(* as they are, in days and microseconds since 2000.                       *)
build_scalar(t, d) ==
    Arm(arrow_type(t), {t}, d, Got(IF t = "Timetz" THEN SubSeq(d.value, 1, 1) ELSE d.value))

(* Mutant: the fields are written in the order they were read in. *)
build_interval_unordered(d) == Arm(Plain("Binary"), {"Interval"}, d, Got(Bits(d.value)))

(* Months, days, microseconds, as bytes. *)
build_interval(d) == Arm(Plain("Binary"), {"Interval"}, d, Got(Bits(Reverse(d.value))))

build_string(d) == Arm(Plain("Utf8"), StringTypes, d, Got(d.value))

build_numeric(typmod, d) ==
    LET type == numeric_typmod_to_arrow_type(typmod)
    IN  Arm(type, {"Numeric"}, d, NumericOutcome(d.value, type))

(* decode_fixed makes no Name datums. *)
build_name(d) ==
    Arm(Plain("Utf8"), {"Name"}, d,
        Got(IF ValidUtf8(until_nul(d.value)) THEN until_nul(d.value) ELSE <<>>))

build_binary(d) == Arm(Plain("Binary"), BlobTypes \cup {"RawBytes"}, d, Got(d.value))

build_tid(d) == Arm(Plain("Binary"), {"Tid"}, d, Got(Bits(d.value)))

build_fixed_binary(t, d) ==
    LET width == CASE t = "Macaddr" -> 6 [] t = "Macaddr8" -> 8
                   [] t \in {"Uuid", "Point"} -> 16 [] t \in {"Line", "Circle"} -> 24
                   [] t \in {"Lseg", "Box"} -> 32
        variants == IF t \in {"Lseg", "Box"} THEN {"Lseg", "Box"} ELSE {t}
    IN  Arm(DataType("FixedSizeBinary", <<width>>), variants, d, Got(d.value))

build_fallback(d) == Arm(Plain("Binary"), {"RawBytes"}, d, Got(d.value))

build_arrow_array(col, d) ==
    CASE col.type \in {"Bool", "Timetz"} \cup SignedTypes \cup UnsignedTypes \cup FloatTypes
           -> build_scalar(col.type, d)
      [] col.type = "Interval" -> build_interval(d)
      [] col.type \in StringTypes -> build_string(d)
      [] col.type = "Numeric" -> build_numeric(col.typmod, d)
      [] col.type = "Name" -> build_name(d)
      [] col.type \in BlobTypes \cup {"Aclitem"} -> build_binary(d)
      [] col.type = "Tid" -> build_tid(d)
      [] col.type \in FixedBinaryTypes -> build_fixed_binary(col.type, d)
      [] OTHER -> build_fallback(d)

-----------------------------------------------------------------------------
(* Batch path: the column builders. *)

(* Mutant: every fixed-size binary is 16 bytes wide. *)
new_inner_width16(t, typmod) ==
    CASE t = "Numeric" -> numeric_typmod_to_arrow_type(typmod)
      [] t \in FixedBinaryTypes -> DataType("FixedSizeBinary", <<16>>)
      [] t \in {"Interval"} \cup ArrayTypes -> Plain("Binary")
      [] OTHER -> arrow_type(t)

(* The type of the builder: that of the field, but for intervals, and for  *)
(* the arrays among "everything else", which are built as binaries.        *)
new_inner(t, typmod) ==
    CASE t = "Numeric" -> numeric_typmod_to_arrow_type(typmod)
      [] t \in FixedBinaryTypes -> DataType("FixedSizeBinary", <<type_len(t)>>)
      [] t \in {"Interval"} \cup ArrayTypes -> Plain("Binary")
      [] OTHER -> arrow_type(t)

(* Mutant: the epoch is subtracted. *)
ShiftedBack(n, epoch) == Unchecked(Number(n), n - epoch, FieldBits)

(* A date or a timestamp moves from PostgreSQL's epoch to Arrow's. *)
Shifted(n, epoch) == Unchecked(Number(n), n + epoch, FieldBits)

EpochOf(t) == IF t = "Date" THEN EpochDays ELSE EpochMicros

append_epoch(t, v) ==
    LET x == Shifted(Signed(v)[1], EpochOf(t))
    IN  IF debug /\ x.over THEN Fails("panic") ELSE Got(<<x.n>>)

append_name(v) ==
    Got(IF ValidUtf8(until_nul(v)) THEN until_nul(v) ELSE <<>>)

append_bytes(col, v) ==
    LET t == col.type
    IN  CASE t = "Bool" -> Got(<<IF v[1] # 0 THEN 1 ELSE 0>>)
          [] t \in {"Date", "Timestamp", "Timestamptz"} -> append_epoch(t, v)
          [] t \in SignedTypes \ {"Date", "Timestamp", "Timestamptz"} -> Got(Signed(v))
          [] t = "Timetz" -> Got(SubSeq(Signed(v), 1, 1))
          [] t = "Interval" -> Got(Reverse(v))
          [] t = "Name" -> append_name(v)
          [] t \in StringTypes -> Got(from_utf8_lossy(v))
          [] t = "Numeric" -> NumericOutcome(v, new_inner(t, col.typmod))
          [] t \in FixedBinaryTypes ->
               IF new_inner(t, col.typmod).args = <<type_len(t)>> THEN Got(v) ELSE Fails("error")
          [] OTHER -> Got(v)

-----------------------------------------------------------------------------
(* The steps.  The paths share nothing, so their order does not matter:    *)
(* the batch path goes second.                                             *)

Pushed(p, cell) ==
    /\ array' = [array EXCEPT ![p] = IF cell.st = "ok" THEN Append(@, cell) ELSE @]
    /\ status' = [status EXCEPT ![p] = IF cell.st = "ok" THEN @ ELSE cell.st]

(* A row whose value does not decode is an error of its own. *)
DecodeCell ==
    /\ status["row"] = "decode"
    /\ Len(datums) < Len(cells)
    /\ LET c == cells[Len(datums) + 1]
           d == IF c.form = "null" THEN Datum("Null", <<>>) ELSE decode_datum(column.type, c.fields)
       IN  IF d.variant \in {"error", "panic"}
             THEN /\ status' = [status EXCEPT !["row"] = d.variant]
                  /\ UNCHANGED datums
             ELSE /\ datums' = Append(datums, d)
                  /\ UNCHANGED status
    /\ UNCHANGED <<input, array>>

ToRecordBatch ==
    /\ status["row"] = "decode"
    /\ Len(datums) = Len(cells)
    /\ status' = [status EXCEPT !["row"] = "build"]
    /\ UNCHANGED <<input, datums, array>>

BuildCell ==
    /\ status["row"] = "build"
    /\ Len(array["row"]) < Len(datums)
    /\ Pushed("row", build_arrow_array(column, datums[Len(array["row"]) + 1]).cell)
    /\ UNCHANGED <<input, datums>>

AppendCell ==
    /\ status["row"] \in Done
    /\ status["batch"] = "build"
    /\ Len(array["batch"]) < Len(cells)
    /\ LET c == cells[Len(array["batch"]) + 1]
       IN  Pushed("batch", IF c.form = "null" THEN GotNull ELSE append_bytes(column, c.fields))
    /\ UNCHANGED <<input, datums>>

ArrayType(p) ==
    IF p = "row" THEN build_arrow_array(column, Datum("Null", <<>>)).type
                 ELSE new_inner(column.type, column.typmod)

(* RecordBatch::try_new wants the type of the field, and no null where the *)
(* field allows none.                                                      *)
TryNew(p) ==
    LET field == to_arrow_field(column)
    IN  /\ p = "batch" => status["row"] \in Done
        /\ status[p] = "build"
        /\ Len(array[p]) = Len(cells)
        /\ status' = [status EXCEPT ![p] =
             IF /\ ArrayType(p) = field.type
                /\ field.nullable \/ \A i \in 1 .. Len(cells) : ~array[p][i].null
               THEN "ok" ELSE "error"]
        /\ UNCHANGED <<input, datums, array>>

Next == DecodeCell \/ ToRecordBatch \/ BuildCell \/ AppendCell \/ \E p \in Paths : TryNew(p)

Spec == Init /\ [][Next]_vars

-----------------------------------------------------------------------------
Temporal == {"Date", "Timestamp", "Timestamptz"}

Finished == \A p \in Paths : status[p] \in Done

(* How many decimal digits a number has. *)
Digits(m) == Min({k \in 0 .. 9 : -(10 ^ k) < m /\ m < 10 ^ k})

(* The precision and the scale a column was declared with; PostgreSQL      *)
(* keeps the scale in eleven bits, with its sign.                          *)
Precision == (column.typmod - 4) \div 65536
Scale == IF column.typmod <= 0 THEN 0 ELSE Wrapped((column.typmod - 4) % 65536, 11)

Kept(d) == d <= MaxPrecision128 /\ Fits(d, ScaleBits)

(* The numbers whose digits, padded to whole digits of base NBASE, fit the *)
(* integer the code computes in, and whose powers of ten fit an i128.      *)
InReach(number) ==
    LET type == numeric_typmod_to_arrow_type(column.typmod)
        padded == Digits(number[1]) + DecDigits - 1
    IN  /\ Kept(number[2]) /\ Kept(-Scale) /\ Fits(Scale, ScaleBits)
        /\ IF type.of = "Decimal128" THEN padded <= MaxPrecision128
           ELSE Digits(number[1]) <= MaxPrecision128 + 1 /\ padded <= MaxPrecision256

(* A NUMERIC column is a decimal of the declared precision and scale, and  *)
(* decode_pg_numeric_i128 and _i256 with the rescaling behind them give    *)
(* every number that is in reach exactly, on both paths and in both        *)
(* builds; an unbound NUMERIC has its integer part.  A short and a long    *)
(* header mean the same.                                                   *)
NumericExact ==
    column.type = "Numeric" =>
      /\ 0 < column.typmod /\ Precision < 2 ^ PrecisionBits /\ Fits(Scale, ScaleBits) =>
           to_arrow_field(column).type.args = <<Precision, Scale>>
      /\ \A p \in Paths : \A i \in 1 .. Len(array[p]) :
           LET number == cells[i].number
           IN  number # <<>> /\ InReach(number) =>
                 array[p][i] = Got(<<IF number[2] <= Scale
                                       THEN number[1] * 10 ^ (Scale - number[2])
                                       ELSE Quotient(number[1], 10 ^ (number[2] - Scale))>>)

(* The number a bit pattern stands for. *)
Integer(pattern) == IF pattern < 2 ^ (FieldBits - 1) THEN pattern ELSE pattern - 2 ^ FieldBits

(* A name without its padding, or nothing; a text, repaired. *)
NameMeaning(v) ==
    IF \E i \in 1 .. Len(v) : v[i] >= 128 THEN <<>>
    ELSE [i \in 1 .. Cardinality({j \in 1 .. Len(v) : v[j] # 0}) |-> v[i]]

TextMeaning(v) == [i \in 1 .. Len(v) |-> IF v[i] < 128 THEN v[i] ELSE Replacement]

(* What a value that is no numeric must be in Arrow.  A date or timestamp  *)
(* counts from 1970 on the batch path and from 2000 on the row path; a     *)
(* text that is not UTF-8 reaches only the batch path, where it is         *)
(* repaired, and a name like it is empty.                                  *)
Meaning(p, v) ==
    CASE column.type \in Temporal -> <<Integer(v[1]) + IF p = "batch" THEN EpochOf(column.type) ELSE 0>>
      [] column.type \in (SignedTypes \ Temporal) \cup {"Timetz"} -> <<Integer(v[1])>>
      [] column.type = "Interval" -> <<v[3], v[2], v[1]>>
      [] column.type = "Name" -> NameMeaning(v)
      [] column.type \in StringTypes -> TextMeaning(v)
      [] OTHER -> v

(* The shift to 1970 takes the value out of its type. *)
Unshiftable(c) ==
    /\ column.type \in Temporal /\ c.form # "null"
    /\ ~Fits(Integer(c.fields[1]) + EpochOf(column.type), FieldBits)

(* Every row has the value that PostgreSQL stored in it, in Arrow's terms, *)
(* and a null exactly where the column is null: no path mixes up signs,    *)
(* fields, epochs or rows.                                                 *)
ValuesExact ==
    column.type # "Numeric" =>
      \A p \in Paths : \A i \in 1 .. Len(array[p]) :
        IF cells[i].form = "null" THEN array[p][i] = GotNull
        ELSE \/ p = "batch" /\ Unshiftable(cells[i])
             \/ array[p][i] = Got(Meaning(p, cells[i].fields))

NotText(c) == \E i \in 1 .. Len(c.fields) : c.fields[i] >= 128

(* Reading a table by rows or by batches gives the same array, except:     *)
(* decode_fixed makes a text of a name, which the name column refuses; a   *)
(* text that is not UTF-8 is an error only by rows; and dates and          *)
(* timestamps are apart by exactly the years from 1970 to 2000.            *)
PathsAgree ==
    Finished =>
      CASE column.type \in Temporal ->
             status["batch"] = "ok" =>
               \A i \in 1 .. Len(cells) :
                 array["batch"][i] =
                   IF array["row"][i].null THEN GotNull
                   ELSE Got(<<Wrapped(array["row"][i].value[1] + EpochOf(column.type), FieldBits)>>)
        [] column.type \in StringTypes /\ \E i \in 1 .. Len(cells) : NotText(cells[i]) ->
             status["row"] = "error" /\ status["batch"] = "ok"
        [] column.type = "Name" /\ \E i \in 1 .. Len(cells) : cells[i].form # "null" ->
             status["row"] # "ok" /\ status["batch"] = "ok"
        [] OTHER ->
             /\ status["row"] = status["batch"]
             /\ ArrayType("row") = ArrayType("batch")
             /\ array["row"] = array["batch"]

(* A batch is refused, or the program panics, exactly for these reasons:   *)
(* the column is an interval or an array, whose builders do not have the   *)
(* type the schema names; a NaN, an infinity or a TOASTed number, which    *)
(* become NULL, in a column that is NOT NULL; a date or timestamp that the *)
(* shift takes out of range, in a debug build; on the row path a name, or  *)
(* a text that is not UTF-8.  Numbers out of reach may do either.          *)
RefusedExactly ==
    \A p \in Paths :
      /\ status[p] \in Done
      /\ \A i \in 1 .. Len(cells) : cells[i].number # <<>> => InReach(cells[i].number)
      => (status[p] # "ok" <=>
            \/ column.type \in {"Interval"} \cup ArrayTypes
            \/ /\ column.type = "Numeric" /\ ~column.nullable
               /\ \E i \in 1 .. Len(cells) : cells[i] \in SpecialCells
            \/ p = "batch" /\ debug /\ \E i \in 1 .. Len(cells) : Unshiftable(cells[i])
            \/ /\ p = "row" /\ column.type \in {"Name"} \cup StringTypes
               /\ \E i \in 1 .. Len(cells) :
                    \/ column.type = "Name" /\ cells[i].form # "null"
                    \/ NotText(cells[i]))

-----------------------------------------------------------------------------
(* The invariant behind these properties: each path is, at every step, as  *)
(* far as its arrays say, and what it has is what the cells give.          *)

DatumOf(c) == IF c.form = "null" THEN Datum("Null", <<>>) ELSE decode_datum(column.type, c.fields)

(* What a path makes of a cell. *)
Outcome(p, c) ==
    IF p = "row" THEN build_arrow_array(column, DatumOf(c)).cell
    ELSE IF c.form = "null" THEN GotNull ELSE append_bytes(column, c.fields)

Refused(d) == d.variant \in {"error", "panic"}

Decoded ==
    /\ Len(datums) <= Len(cells)
    /\ \A i \in 1 .. Len(datums) : datums[i] = DatumOf(cells[i]) /\ ~Refused(datums[i])
    /\ status["row"] \in {"build", "ok"} => Len(datums) = Len(cells)
    /\ Len(array["row"]) <= Len(datums)
    /\ status["row"] = "decode" => array["row"] = <<>>

Built(p) ==
    /\ Len(array[p]) <= Len(cells)
    /\ \A i \in 1 .. Len(array[p]) :
         array[p][i] = Outcome(p, cells[i]) /\ array[p][i].st = "ok"

(* RecordBatch::try_new takes a full array. *)
Accepted(p) ==
    /\ ArrayType(p) = to_arrow_field(column).type
    /\ column.nullable \/ \A i \in 1 .. Len(cells) : ~array[p][i].null

(* Where a path stopped, and at what. *)
Stopped(p) ==
    /\ status[p] = "ok" => Len(array[p]) = Len(cells) /\ Accepted(p)
    /\ status[p] \in {"error", "panic"} =>
         \/ /\ p = "row" /\ array[p] = <<>> /\ Len(datums) < Len(cells)
            /\ DatumOf(cells[Len(datums) + 1]).variant = status[p]
         \/ /\ Len(array[p]) < Len(cells)
            /\ p = "row" => Len(datums) = Len(cells)
            /\ Outcome(p, cells[Len(array[p]) + 1]).st = status[p]
         \/ /\ Len(array[p]) = Len(cells) /\ status[p] = "error" /\ ~Accepted(p)
            /\ p = "row" => Len(datums) = Len(cells)

Datums == {DatumOf(cells[i]) : i \in 1 .. Len(cells)}
Outcomes == {Outcome(p, cells[i]) : p \in Paths, i \in 1 .. Len(cells)}

ColumnTypeOK ==
    /\ column \in Columns
    /\ debug \in BOOLEAN
    /\ cells \in Seq(CellsOf(column))
    /\ datums \in Seq(Datums)
    /\ array \in [Paths -> Seq(Outcomes)]
    /\ status \in [Paths -> {"decode", "build"} \cup Done]

ColumnInv == ColumnTypeOK /\ Decoded /\ \A p \in Paths : Built(p) /\ Stopped(p)
=============================================================================
