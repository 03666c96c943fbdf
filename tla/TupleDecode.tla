---------------------------- MODULE TupleDecode ----------------------------
(***************************************************************************)
(* From the bytes of one heap tuple to column values: decode_row and       *)
(* decode_row_projected (src/src/table/mod.rs), the column walk of         *)
(* to_record_batch (src/src/heap/page.rs) and the from_row functions of    *)
(* the catalogs (src/src/types/pg_type.rs), each a step per column, over   *)
(* tuples that PostgreSQL's heap_fill_tuple laid out.                      *)
(*                                                                         *)
(* Bytes are numbers below 256 and words are little-endian, as on x86; the *)
(* bytes of a null bitmap are given by their bits.  A decoded value is     *)
(* given by the bytes it was decoded from; a type by what the walk needs   *)
(* of it: its length, 0 for a varlena, its typalign in PostgreSQL and what *)
(* align() takes it for, whether it is text, and whether the code knows    *)
(* it.  Column indices count from 0.                                       *)
(***************************************************************************)
EXTENDS PgSchema, PgText, FiniteSets, FiniteSetsExt

CONSTANTS
    Tables,        \* the types of a table's attributes, in attnum order
    Values,        \* per type: the values a tuple may hold
    MayDrop,       \* may the table have a dropped column?
    MaxAdded,      \* columns that may have been added after the tuple
    Projections,   \* projections callers ask for
    BitmapBits     \* bits of a byte of the null bitmap (8 in the code)

Null == [form |-> "null", payload |-> <<>>]

(* What PostgreSQL may store in an attribute.  A name is filled up with    *)
(* zero bytes, a one-byte header counts up to 127, a four-byte header up   *)
(* to 2^30 - 1, itself included.                                           *)
WellFormed(type, v) ==
    \/ v = Null
    \/ /\ v.payload \in Seq(0 .. 255)
       /\ IF type.len > 0
            THEN /\ v.form = "fixed" /\ Len(v.payload) = type.len
                 /\ type.utf8 => \E n \in 0 .. type.len :
                                   \A i \in 1 .. type.len : v.payload[i] # 0 <=> i <= n
            ELSE \/ v.form = "short" /\ Len(v.payload) < 127
                 \/ v.form \in {"plain", "compressed"} /\ Len(v.payload) < 2 ^ 30 - 4
                 \/ v.form = "external" /\ v.payload = <<>>

ASSUME TupleDecodeAssumption ==
    /\ MayDrop \in BOOLEAN
    /\ MaxAdded \in Nat
    /\ BitmapBits \in Nat \ {0}
    /\ Projections \subseteq Seq(Nat)
    /\ Tables \subseteq Seq(DOMAIN Values)
    /\ \A ts \in Tables : \A i \in 1 .. Len(ts) :
         /\ ts[i].len \in Nat
         /\ {ts[i].align, ts[i].typalign} \subseteq {1, 2, 4, 8}
         /\ ts[i].utf8 \in BOOLEAN /\ ts[i].known \in BOOLEAN
         /\ Null \in Values[ts[i]]
         /\ \A v \in Values[ts[i]] : WellFormed(ts[i], v)

VARIABLES
    types,         \* the types of the table's attributes, by attnum
    stored,        \* the value of every attribute the tuple has, by attnum
    raw,           \* the tuple as it was read: header fields and all bytes
    data,          \* the tuple's bytes behind its header
    null_bitmap,   \* the bytes of the bitmap, <<>> if there is none
    schema,        \* the table's schema, as set_table made it
    path,          \* "row", "projected", "batch" or "catalog": who decodes
    projection,    \* the columns asked for ("row": all of them)
    col,           \* column the walk has come to
    offset,        \* its position in data
    out,           \* the values so far, by output position
    status         \* "begin", "walk", "ok", "skipped", "error", "panic"

inputVars == <<types, stored, raw, schema, path, projection>>
tupleVars == <<inputVars, data, null_bitmap>>
vars == <<tupleVars, col, offset, out, status>>

NoValue == [form |-> "none", payload |-> <<>>]

-----------------------------------------------------------------------------
(* What PostgreSQL stores. *)

Word(n) ==
    LET n1 == n \div 256
        n2 == n1 \div 256
    IN  <<n % 256, n1 % 256, n2 % 256, n2 \div 256>>

(* The bytes of a value with its varlena header, if it has one. *)
OnDisk(v) ==
    CASE v.form = "fixed" -> v.payload
      [] v.form = "short" -> <<2 * (1 + Len(v.payload)) + 1>> \o v.payload
      [] v.form = "plain" -> Word(4 * (4 + Len(v.payload))) \o v.payload
      [] v.form = "compressed" -> Word(4 * (4 + Len(v.payload)) + 2) \o v.payload
      [] v.form = "external" -> <<1, 18>> \o [i \in 1 .. 16 |-> 200]
      [] OTHER -> <<>>

RoundUp(n, a) == ((n + a - 1) \div a) * a

Zeros(n) == [i \in 1 .. n |-> 0]

(* heap_fill_tuple: nulls take no room, values with a one-byte header are  *)
(* not aligned, all others are, behind zero bytes.                         *)
Appended(before, type, v) ==
    LET pad == IF v.form \in {"null", "short", "external"} THEN 0
               ELSE RoundUp(Len(before), type.typalign) - Len(before)
    IN  before \o Zeros(pad) \o OnDisk(v)

(* The bytes after each attribute. *)
Filled(ts, vals) ==
    LET filled[i \in 0 .. Len(vals)] ==
          IF i = 0 THEN <<>> ELSE Appended(filled[i - 1], ts[i], vals[i])
    IN  filled

Formed(ts, vals) == Filled(ts, vals)[Len(vals)]

SIZEOF_HEAP_TUPLE_HEADER == 23

(* The bitmap is there only if some attribute of the tuple is null. *)
Bitmap(vals) ==
    IF \A i \in 1 .. Len(vals) : vals[i] # Null THEN <<>>
    ELSE [byte \in 1 .. RoundUp(Len(vals), BitmapBits) \div BitmapBits |->
            [bit \in 0 .. BitmapBits - 1 |->
               LET i == (byte - 1) * BitmapBits + bit + 1
               IN  IF i <= Len(vals) /\ vals[i] # Null THEN 1 ELSE 0]]

(* heap_form_tuple: the fixed header, the bitmap, and from t_hoff on,      *)
(* which is a multiple of 8, the values.                                   *)
RawTuple(ts, vals) ==
    LET bits == Bitmap(vals)
        t_hoff == RoundUp(SIZEOF_HEAP_TUPLE_HEADER + Len(bits), 8)
    IN  [natts |-> Len(vals), has_null |-> bits # <<>>, t_hoff |-> t_hoff,
         bytes |-> Zeros(SIZEOF_HEAP_TUPLE_HEADER) \o bits
                     \o Zeros(t_hoff - SIZEOF_HEAP_TUPLE_HEADER - Len(bits))
                     \o Formed(ts, vals)]

(* A page read while PostgreSQL writes it: its line pointer is there, the  *)
(* tuple is not.                                                           *)
Torn(r) == [natts |-> 0, has_null |-> FALSE, t_hoff |-> 0, bytes |-> Zeros(Len(r.bytes))]

(* The table's rows in pg_attribute: a system column, and one attribute    *)
(* whose row was moved to the end by an update.                            *)
AttributeRows(ts, dropped, moved) ==
    LET row(i) == [attnum |-> i, attisdropped |-> i = dropped, type |-> ts[i]]
        ctid == [attnum |-> -1, attisdropped |-> FALSE, type |-> ts[1]]
    IN  <<ctid>> \o [i \in 1 .. Len(ts) - 1 |-> row(IF i < moved THEN i ELSE i + 1)]
                 \o <<row(moved)>>

TextType == [len |-> 0, align |-> 4, typalign |-> 4, utf8 |-> TRUE, known |-> TRUE]

(* PgColumn::from: a type whose OID is not known is taken for text. *)
PgColumn(attr) == IF attr.type.known THEN attr ELSE [attr EXCEPT !.type = TextType]

SchemaOf(attrs) ==
    LET sorted == from_attributes(attrs)
    IN  [i \in 1 .. Len(sorted) |-> PgColumn(sorted[i])]

(* The schema of a catalog is built in: its fixed-width columns, which     *)
(* come first.                                                             *)
FixedAttrs(ts) ==
    LET n == Max({k \in 0 .. Len(ts) : \A i \in 1 .. k : ts[i].len > 0 /\ ts[i].known})
    IN  [i \in 1 .. n |-> [attnum |-> i, attisdropped |-> FALSE, type |-> ts[i]]]

WholeSchema == [i \in 1 .. Len(schema) |-> i - 1]

(* A tuple of a table; columns may have been added since it was written. *)
TableTuple ==
    /\ path \in {"row", "projected", "batch"}
    /\ \E dropped \in (IF MayDrop THEN 0 .. Len(types) ELSE {0}), moved \in 1 .. Len(types) :
         schema = SchemaOf(AttributeRows(types, dropped, moved))
    /\ IF path = "row" THEN projection = WholeSchema ELSE projection \in Projections

(* A tuple of a catalog, which has all its attributes. *)
CatalogTuple ==
    /\ path = "catalog"
    /\ Len(stored) = Len(types)
    /\ schema = FixedAttrs(types)
    /\ projection = WholeSchema

Init ==
    /\ types \in Tables
    /\ \E natts \in Len(types) - MaxAdded .. Len(types) :
         stored \in {vals \in [1 .. natts -> UNION {Values[types[i]] : i \in 1 .. Len(types)}] :
                       \A i \in 1 .. natts : vals[i] \in Values[types[i]]}
    /\ LET r == RawTuple(types, stored) IN raw \in {r, Torn(r)}
    /\ TableTuple \/ CatalogTuple
    /\ data = <<>>
    /\ null_bitmap = <<>>
    /\ col = 0
    /\ offset = 0
    /\ out = <<>>
    /\ status = "begin"

-----------------------------------------------------------------------------
(* HeapTupleData::parse_and_build, which to_record_batch repeats in place: *)
(* the bitmap has a bit for each of the tuple's own attributes.            *)
parse_and_build(r) ==
    LET bitmap_end == SIZEOF_HEAP_TUPLE_HEADER + RoundUp(r.natts, BitmapBits) \div BitmapBits
    IN  IF \/ Len(r.bytes) < SIZEOF_HEAP_TUPLE_HEADER
           \/ r.t_hoff < SIZEOF_HEAP_TUPLE_HEADER \/ r.t_hoff > Len(r.bytes)
           \/ r.has_null /\ bitmap_end > r.t_hoff
          THEN [st |-> "error", bitmap |-> <<>>, data |-> <<>>]
          ELSE [st |-> "ok",
                bitmap |-> IF r.has_null
                             THEN SubSeq(r.bytes, SIZEOF_HEAP_TUPLE_HEADER + 1, bitmap_end)
                             ELSE <<>>,
                data |-> SubSeq(r.bytes, r.t_hoff + 1, Len(r.bytes))]

(* What a column reads, over the tuple's data. *)

Byte(off) == data[off + 1]

Slice(from, len) == SubSeq(data, from + 1, from + len)

Got(bytes, size) == [st |-> "ok", value |-> bytes, size |-> size]
Fails(st) == [st |-> st, value |-> <<>>, size |-> 0]

Varlena(type) == type.len = 0

(* Mutant: the bit is looked up in a bitmap of bytes written from the top. *)
is_null_msb(i) ==
    /\ i \div BitmapBits < Len(null_bitmap)
    /\ null_bitmap[i \div BitmapBits + 1][BitmapBits - 1 - (i % BitmapBits)] = 0

is_null(i) ==
    /\ i \div BitmapBits < Len(null_bitmap)
    /\ null_bitmap[i \div BitmapBits + 1][i % BitmapBits] = 0

(* Mutant: a varlena is always aligned. *)
AlignedAlways(type, off) == RoundUp(off, type.align)

(* att_align_pointer: a varlena is aligned only if it stands behind a pad  *)
(* byte, or nothing is left to read.                                       *)
Aligned(type, off) ==
    IF Varlena(type) /\ off < Len(data) /\ Byte(off) # 0
      THEN off ELSE RoundUp(off, type.align)

(* Where the payload starts (value) and how long it is (size).  A TOAST    *)
(* pointer has 18 bytes and an empty payload; a compressed value is taken  *)
(* as it is.                                                               *)
read_varlena_header(off) ==
    IF off >= Len(data) THEN Fails("error")
    ELSE IF Byte(off) = 1
      THEN IF off + 1 < Len(data) /\ Byte(off + 1) = 18
             THEN Got(off + 18, 0) ELSE Fails("error")
    ELSE IF Byte(off) % 2 = 1
      THEN Got(off + 1, Max({0, Byte(off) \div 2 - 1}))
    ELSE IF Len(data) < off + 4 THEN Fails("error")
    ELSE LET total == Byte(off) \div 4
                        + 64 * (Byte(off + 1) + 256 * (Byte(off + 2) + 256 * Byte(off + 3)))
         IN  Got(off + 4, Max({0, total - 4}))

(* The payload of a varlena, if it lies within the tuple. *)
VarlenaBytes(off) ==
    LET h == read_varlena_header(off)
    IN  IF h.st # "ok" \/ h.value + h.size > Len(data) THEN Fails("error")
        ELSE Got(Slice(h.value, h.size), h.value + h.size - off)

(* Text, varchar, bpchar, json and xml must be UTF-8. *)
decode_varlena(type, r) ==
    IF r.st = "ok" /\ type.utf8 /\ ~ValidUtf8(r.value) THEN Fails("error") ELSE r

(* Of the fixed-width types only a name is text; one that is not UTF-8     *)
(* panics.                                                                 *)
decode_fixed(type, bytes) ==
    IF ~type.utf8 THEN Got(bytes, type.len)
    ELSE IF ValidUtf8(until_nul(bytes)) THEN Got(until_nul(bytes), type.len)
    ELSE Fails("panic")

decode_datum(type, off) ==
    IF Varlena(type) THEN decode_varlena(type, VarlenaBytes(off))
    ELSE IF off + type.len > Len(data) THEN Fails("error")
    ELSE decode_fixed(type, Slice(off, type.len))

(* Mutant: only the payload of a varlena is skipped. *)
skip_datum_payload(type, off) ==
    IF Varlena(type)
      THEN LET h == read_varlena_header(off)
           IN  IF h.st = "ok" THEN Got(<<>>, h.size) ELSE h
      ELSE Got(<<>>, type.len)

(* Only the size; whether it lies within the tuple is not looked at. *)
skip_datum(type, off) ==
    IF Varlena(type)
      THEN LET h == read_varlena_header(off)
           IN  IF h.st = "ok" THEN Got(<<>>, h.value + h.size - off) ELSE h
      ELSE Got(<<>>, type.len)

(* A slice out of bounds: data[offset..offset + n] panics. *)
extract_fixed_bytes(off, n) ==
    IF off + n > Len(data) THEN Fails("panic") ELSE Got(Slice(off, n), n)

(* What is not UTF-8 is repaired in a text and emptied in a name. *)
append_bytes(type, r) ==
    LET name == until_nul(r.value)
    IN  CASE r.st # "ok" \/ ~type.utf8 -> r
          [] r.st = "ok" /\ type.utf8 /\ Varlena(type) ->
               [r EXCEPT !.value = from_utf8_lossy(r.value)]
          [] r.st = "ok" /\ type.utf8 /\ ~Varlena(type) ->
               [r EXCEPT !.value = IF ValidUtf8(name) THEN name ELSE <<>>]

extract_column_bytes(type, off) == VarlenaBytes(off)

-----------------------------------------------------------------------------
(* The four walks. *)

type_id == schema[col + 1].type

(* Both look at the null bit once more, which their callers have done. *)
get_column(off) == decode_datum(type_id, off)
skip_column(off) == skip_datum(type_id, off)

WalkUpTo == Max({c + 1 : c \in {projection[i] : i \in 1 .. Len(projection)}} \cup {0})

(* A repeated column keeps only its last output position. *)
output_pos == Max({i \in 1 .. Len(projection) : projection[i] = col} \cup {0})

Datum(bytes) == [form |-> "value", payload |-> bytes]

OutOfRange == \E i \in 1 .. Len(projection) : projection[i] >= Len(schema)

(* decode_row, decode_row_projected and from_row get a parsed tuple.  A    *)
(* projected row starts out with nulls, an empty one needs no walk, and    *)
(* one with a column that the schema does not have is an error.            *)
BeginRow ==
    /\ status = "begin" /\ path # "batch"
    /\ LET tuple == parse_and_build(raw)
       IN  /\ null_bitmap' = tuple.bitmap
           /\ data' = tuple.data
           /\ status' = IF tuple.st # "ok" THEN "error"
                        ELSE IF path # "projected" THEN "walk"
                        ELSE IF projection = <<>> THEN "ok"
                        ELSE IF OutOfRange THEN "error" ELSE "walk"
    /\ out' = IF path = "projected" THEN [i \in 1 .. Len(projection) |-> Null] ELSE <<>>
    /\ UNCHANGED <<inputVars, col, offset>>

(* to_record_batch makes its builders first: a column that the schema does *)
(* not have is an index out of bounds.  A tuple with a bad header is       *)
(* passed over.                                                            *)
BeginBatch ==
    /\ status = "begin" /\ path = "batch"
    /\ LET tuple == parse_and_build(raw)
       IN  /\ null_bitmap' = tuple.bitmap
           /\ data' = tuple.data
           /\ status' = IF projection = <<>> THEN "ok"
                        ELSE IF OutOfRange THEN "panic"
                        ELSE IF tuple.st # "ok" THEN "skipped" ELSE "walk"
    /\ out' = [i \in 1 .. Len(projection) |-> NoValue]
    /\ UNCHANGED <<inputVars, col, offset>>

(* To the next column with what this one gave, or out of the walk. *)
Advance(at, r, result) ==
    /\ IF r.st = "ok" THEN /\ offset' = at + r.size
                           /\ out' = result
                           /\ col' = col + 1
                           /\ UNCHANGED status
                      ELSE /\ status' = r.st
                           /\ UNCHANGED <<col, offset, out>>
    /\ UNCHANGED tupleVars

(* A null column takes no room. *)
SkipNull(result) ==
    /\ is_null(col)
    /\ out' = result
    /\ col' = col + 1
    /\ UNCHANGED <<tupleVars, offset, status>>

RowColumn ==
    /\ status = "walk" /\ path = "row" /\ col < Len(schema)
    /\ \/ SkipNull(Append(out, Null))
       \/ /\ ~is_null(col)
          /\ LET at == Aligned(type_id, offset)
                 r == get_column(at)
             IN  Advance(at, r, Append(out, Datum(r.value)))

(* What as_u32, as_bool and their like make of a null. *)
Default(type) == Datum(IF type.utf8 THEN <<>> ELSE Zeros(type.len))

(* The next field of a catalog row: null, or what stands at its place. *)
next_datum ==
    LET at == Aligned(type_id, offset)
        r == get_column(at)
    IN  IF is_null(col) THEN [st |-> "ok", null |-> TRUE, at |-> offset, value |-> <<>>, size |-> 0]
        ELSE [st |-> r.st, null |-> FALSE, at |-> at, value |-> r.value, size |-> r.size]

(* from_row: a field that does not decode is an error of the row. *)
CatalogColumn ==
    /\ status = "walk" /\ path = "catalog" /\ col < Len(schema)
    /\ LET d == next_datum
       IN  Advance(d.at, d, Append(out, IF d.null THEN Default(type_id) ELSE Datum(d.value)))

ProjectedColumn ==
    /\ status = "walk" /\ path = "projected" /\ col < WalkUpTo
    /\ \/ SkipNull(out)
       \/ /\ ~is_null(col)
          /\ LET at == Aligned(type_id, offset)
                 r == get_column(at)
             IN  IF output_pos = 0 THEN Advance(at, skip_column(at), out)
                 ELSE Advance(at, r, [out EXCEPT ![output_pos] = Datum(r.value)])

(* Fixed-width columns take a fast path without a bounds check. *)
BatchColumn ==
    /\ status = "walk" /\ path = "batch" /\ col < WalkUpTo
    /\ \/ SkipNull(IF output_pos = 0 THEN out ELSE [out EXCEPT ![output_pos] = Null])
       \/ /\ ~is_null(col)
          /\ LET at == Aligned(type_id, offset)
                 r == append_bytes(type_id,
                        IF Varlena(type_id) THEN extract_column_bytes(type_id, at)
                        ELSE extract_fixed_bytes(at, type_id.len))
             IN  IF output_pos = 0 THEN Advance(at, skip_datum(type_id, at), out)
                 ELSE Advance(at, r, [out EXCEPT ![output_pos] = Datum(r.value)])

(* Arrow refuses a batch whose columns differ in length. *)
Finish ==
    /\ status = "walk"
    /\ col = IF path \in {"row", "catalog"} THEN Len(schema) ELSE WalkUpTo
    /\ status' = IF \E i \in 1 .. Len(out) : out[i] = NoValue THEN "error" ELSE "ok"
    /\ UNCHANGED <<tupleVars, col, offset, out>>

Next ==
    \/ BeginRow \/ BeginBatch
    \/ RowColumn \/ ProjectedColumn \/ BatchColumn \/ CatalogColumn
    \/ Finish

Spec == Init /\ [][Next]_vars

-----------------------------------------------------------------------------
(* Has the tuple the attribute this column stands for? *)
Has(c) == schema[c + 1].attnum <= Len(stored)

StoredValue(c) == IF Has(c) THEN stored[schema[c + 1].attnum] ELSE Null

(* Of a varlena only the forms with a four-byte header are aligned. *)
Unaligned(i) == i <= Len(stored) /\ stored[i].form \in {"null", "short", "external"}

(* A type the code does not know is read as text, which is right only for  *)
(* a varlena with the alignment of text; and align() is wrong for the      *)
(* arrays of eight-byte elements, which PostgreSQL aligns like them.       *)
(* Columns up to c are understood.                                         *)
Understood(c) ==
    \A i \in 1 .. c : i <= Len(types) =>
      IF types[i].known THEN types[i].align = types[i].typalign \/ Unaligned(i)
      ELSE types[i].len = 0 /\ (types[i].typalign = TextType.align \/ Unaligned(i))

(* While the walk has met only attributes the tuple has, and none whose    *)
(* type the code takes for another or misaligns, its offset is where       *)
(* heap_fill_tuple stopped writing them: alignment, null bits and the      *)
(* sizes that decode_datum, skip_datum and extract_fixed_bytes report      *)
(* agree with the layout on all four paths.                                *)
OffsetExact ==
    status = "walk" /\ col <= Len(stored) /\ Understood(col) =>
      offset = Len(Filled(types, stored)[col])

(* What a path makes of a stored value: a TOAST pointer is an empty value, *)
(* a compressed one its compressed bytes, invalid UTF-8 is replaced in a   *)
(* batch, and a catalog row has a default for a null.                      *)
Expected(c) ==
    LET v == StoredValue(c)
        type == schema[c + 1].type
        name == [i \in 1 .. Cardinality({j \in 1 .. Len(v.payload) : v.payload[j] # 0}) |-> v.payload[i]]
    IN  IF v = Null THEN IF path = "catalog" THEN Default(type) ELSE Null
        ELSE Datum(CASE v.form = "external" -> <<>>
                     [] v.form = "fixed" /\ type.utf8 -> IF ValidUtf8(name) THEN name ELSE <<>>
                     [] path = "batch" /\ type.utf8 /\ v.form \notin {"external", "fixed"} ->
                          from_utf8_lossy(v.payload)
                     [] OTHER -> v.payload)

(* A row that is returned holds, in projection order, the value of exactly *)
(* the columns asked for, and NULL for a null column or one that was added *)
(* after the tuple was written; no column shows another column's bytes, as *)
(* far as the types up to it are understood, and a tuple that was not yet      *)
(* written shows no values at all.  Of a column that is asked for twice    *)
(* only the last place has its value.                                      *)
ValuesExact ==
    status = "ok" =>
      /\ Len(out) = Len(projection)
      /\ \A i \in 1 .. Len(projection) :
           /\ \A j \in i + 1 .. Len(projection) : projection[j] # projection[i]
           /\ Understood(projection[i] + 1)
           => out[i] = Expected(projection[i])

Walked(c) == c < WalkUpTo

(* A tuple is given up only for a reason: its page was torn, a projection  *)
(* the schema cannot serve, a column the tuple does not have or whose type *)
(* is not understood, or, on the row paths, a text or a name that is asked for  *)
(* and is not UTF-8.                                                       *)
FailsWithCause ==
    status \in {"skipped", "error", "panic"} =>
      \/ raw.t_hoff = 0
      \/ OutOfRange
      \/ Cardinality({projection[i] : i \in 1 .. Len(projection)}) < Len(projection)
      \/ \E c \in 0 .. Len(schema) - 1 : Walked(c) /\ (~Has(c) \/ ~Understood(c + 1))
      \/ /\ path # "batch"
         /\ \E i \in 1 .. Len(projection) :
              /\ schema[projection[i] + 1].type.utf8
              /\ ~ValidUtf8(StoredValue(projection[i]).payload)

-----------------------------------------------------------------------------
(* Why the walk is right, as an inductive invariant. *)

(* The schema has the table's columns in the order of the tuple's          *)
(* attributes, and the walk is asked for all of them or for some.          *)
InputOK ==
    /\ types \in Tables
    /\ stored \in Seq(UNION {Values[types[i]] : i \in 1 .. Len(types)})
    /\ Len(stored) <= Len(types)
    /\ \A i \in 1 .. Len(stored) : stored[i] \in Values[types[i]]
    /\ raw \in {RawTuple(types, stored), Torn(RawTuple(types, stored))}
    /\ Len(schema) \in 0 .. Len(types)
    /\ \A i \in 1 .. Len(schema) :
         /\ schema[i].attnum = i
         /\ schema[i].type = IF types[i].known THEN types[i] ELSE TextType
    /\ path \in {"row", "projected", "batch", "catalog"}
    /\ projection \in Seq(Nat)
    /\ path \in {"row", "catalog"} => projection = WholeSchema

(* A tuple that is walked is the one PostgreSQL wrote. *)
Parsed ==
    status = "walk" =>
      /\ data = Formed(types, stored)
      /\ null_bitmap = Bitmap(stored)
      /\ ~OutOfRange
      /\ col \in 0 .. WalkUpTo

(* Behind the tuple's last attribute there is nothing to read. *)
PastTheEnd ==
    status = "walk" /\ col > Len(stored) /\ Understood(col) =>
      offset \in Nat /\ offset >= Len(data)

LastPlace(i) == \A j \in i + 1 .. Len(projection) : projection[j] # projection[i]

(* The columns that were walked have their values. *)
OutputSoFar ==
    status = "walk" =>
      /\ out = [i \in 1 .. (IF path \in {"row", "catalog"} THEN col ELSE Len(projection)) |-> out[i]]
      /\ path # "batch" => \A i \in DOMAIN out : out[i] # NoValue
      /\ \A i \in 1 .. Len(projection) :
           LastPlace(i) =>
             IF projection[i] < col
               THEN /\ out[i] # NoValue
                    /\ Understood(projection[i] + 1) => out[i] = Expected(projection[i])
               ELSE path = "projected" => out[i] = Null

DecodeInv ==
    /\ InputOK
    /\ status \in {"begin", "walk", "ok", "skipped", "error", "panic"}
    /\ status = "begin" => col = 0 /\ offset = 0
    /\ Parsed
    /\ OffsetExact
    /\ PastTheEnd
    /\ OutputSoFar
    /\ ValuesExact
    /\ FailsWithCause
=============================================================================
