----------------------------- MODULE PgNumeric -----------------------------
(***************************************************************************)
(* NUMERIC columns (src/src/types/arrow.rs): the Arrow decimal type of a   *)
(* typmod, the on-disk form of a numeric, and its conversion to an integer *)
(* of the column's scale.                                                  *)
(*                                                                         *)
(* A payload is its 16-bit words.  The widths are constants, so that what  *)
(* overflows in the code overflows here: of every number the model keeps   *)
(* what a release build computes (n, wrapped), whether an unchecked        *)
(* operation overflowed on the way (over: a debug build panics there), and *)
(* whether every build panics (dies).                                      *)
(***************************************************************************)
EXTENDS Integers, Sequences

CONSTANTS
    DecDigits,         \* decimal digits of a numeric digit (4)
    W128,              \* bits of an i128
    W256,              \* bits of an i256
    ScaleBits,         \* bits of a scale, an i8
    PrecisionBits,     \* bits of a precision, a u8
    MaxPrecision128,   \* 38: every number of so many digits fits an i128
    MaxPrecision256    \* 76: the same for an i256

NBASE == 10 ^ DecDigits

Fits(n, w) == -(2 ^ (w - 1)) <= n /\ n < 2 ^ (w - 1)

ASSUME PgNumericAssumption ==
    /\ {DecDigits, ScaleBits, PrecisionBits} \subseteq Nat \ {0}
    /\ Fits(10 ^ MaxPrecision128, W128) /\ ~Fits(10 ^ (MaxPrecision128 + 1), W128)
    /\ Fits(10 ^ MaxPrecision256, W256) /\ ~Fits(10 ^ (MaxPrecision256 + 1), W256)
    /\ MaxPrecision128 < MaxPrecision256

Wrapped(n, w) == ((n + 2 ^ (w - 1)) % 2 ^ w) - 2 ^ (w - 1)

Saturated(n, w) ==
    IF Fits(n, w) THEN n ELSE IF n < 0 THEN -(2 ^ (w - 1)) ELSE 2 ^ (w - 1) - 1

(* Rust's / rounds towards zero. *)
Quotient(n, d) ==
    LET abs(k) == IF k < 0 THEN -k ELSE k
        q == abs(n) \div abs(d)
    IN  IF (n < 0) = (d < 0) THEN q ELSE -q

Number(n) == [n |-> n, over |-> FALSE, dies |-> FALSE]

(* The result n of an operation on x that only debug builds check. *)
Unchecked(x, n, w) == [x EXCEPT !.n = Wrapped(n, w), !.over = @ \/ ~Fits(n, w)]

-----------------------------------------------------------------------------
(* Types. *)

DataType(of, args) == [of |-> of, args |-> args]

(* The precision is cut to a u8, the scale to an i8. *)
numeric_typmod_to_arrow_type(typmod) ==
    LET precision == ((typmod - 4) \div 65536) % 2 ^ PrecisionBits
        scale == Wrapped((typmod - 4) % 65536, ScaleBits)
    IN  IF typmod <= 0 THEN DataType("Decimal256", <<MaxPrecision128, 0>>)
        ELSE DataType(IF precision <= MaxPrecision128 THEN "Decimal128" ELSE "Decimal256",
                      <<precision, scale>>)

-----------------------------------------------------------------------------
(* From a payload to a number. *)

NoNumber == [some |-> FALSE, negative |-> FALSE, dscale |-> 0, weight |-> 0, digits |-> <<>>]

ShortNumeric(words) ==
    LET header == words[1]
    IN  [some |-> TRUE,
         negative |-> (header \div 8192) % 2 = 1,
         dscale |-> (header \div 128) % 64,
         weight |-> (header % 64) - 64 * ((header \div 64) % 2),
         digits |-> Tail(words)]

LongNumeric(words) ==
    [some |-> TRUE,
     negative |-> words[1] \div 16384 = 1,
     dscale |-> words[1] % 16384,
     weight |-> Wrapped(words[2], 16),
     digits |-> SubSeq(words, 3, Len(words))]

(* NaN and the infinities have both upper bits set; a payload that is too  *)
(* short (the empty one of a TOASTed value) is no number either.           *)
parse_numeric_header(words) ==
    CASE Len(words) < 1 -> NoNumber
      [] Len(words) >= 1 /\ words[1] \div 16384 = 3 -> NoNumber
      [] Len(words) >= 1 /\ words[1] \div 16384 = 2 -> ShortNumeric(words)
      [] Len(words) = 1 /\ words[1] \div 16384 < 2 -> NoNumber
      [] Len(words) > 1 /\ words[1] \div 16384 < 2 -> LongNumeric(words)

(* 10_i128.pow(e), also where the result becomes an i256. *)
pow10(e) == Unchecked(Number(0), 10 ^ e, W128)

(* x to a scale that is larger by diff.  An i128 saturates, an i256 wraps. *)
Rescaled(x, diff, w) ==
    LET p == pow10(IF diff < 0 THEN -diff ELSE diff)
        y == [x EXCEPT !.over = @ \/ (diff # 0 /\ p.over)]
    IN  CASE diff = 0 -> x
          [] diff > 0 -> [y EXCEPT !.n = IF w = W128 THEN Saturated(x.n * p.n, w)
                                                     ELSE Wrapped(x.n * p.n, w)]
          [] diff < 0 /\ p.n = 0 -> [y EXCEPT !.dies = TRUE]
          [] diff < 0 /\ p.n # 0 -> [y EXCEPT !.n = Wrapped(Quotient(x.n, p.n), w)]

(* Mutant: the first digit's own place is not counted. *)
natural_scale_off(h) == (Len(h.digits) - h.weight) * DecDigits

(* The decimal places of the digits taken as one integer. *)
natural_scale(h) == (Len(h.digits) - 1 - h.weight) * DecDigits

(* The i128 loop is unchecked, the i256 one wraps in every build. *)
decode_pg_numeric_i128(h) ==
    LET value[i \in 0 .. Len(h.digits)] ==
          IF i = 0 THEN Number(0)
          ELSE Unchecked(value[i - 1], value[i - 1].n * NBASE + h.digits[i], W128)
        scaled == Rescaled(value[Len(h.digits)], h.dscale - natural_scale(h), W128)
    IN  IF h.digits = <<>> THEN Number(0)
        ELSE IF h.negative THEN Unchecked(scaled, -scaled.n, W128) ELSE scaled

decode_pg_numeric_i256(h) ==
    LET value[i \in 0 .. Len(h.digits)] ==
          IF i = 0 THEN 0 ELSE Wrapped(value[i - 1] * NBASE + h.digits[i], W256)
        scaled == Rescaled(Number(value[Len(h.digits)]), h.dscale - natural_scale(h), W256)
    IN  IF h.digits = <<>> THEN Number(0)
        ELSE IF h.negative THEN [scaled EXCEPT !.n = Wrapped(-@, W256)] ELSE scaled

(* The number in the scale of the column's type.  Scales are i8: their     *)
(* difference may overflow, and its negation too, which makes a power that *)
(* no build can divide by.                                                 *)
ToTargetScale(h, x, target, w) ==
    LET actual == Wrapped(h.dscale, ScaleBits)
        diff == Wrapped(target - actual, ScaleBits)
        y == [x EXCEPT !.over = @ \/ ~Fits(target - actual, ScaleBits)]
    IN  IF diff = -(2 ^ (ScaleBits - 1)) THEN [y EXCEPT !.dies = TRUE]
        ELSE Rescaled(y, diff, w)
=============================================================================
