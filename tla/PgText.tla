------------------------------- MODULE PgText -------------------------------
(***************************************************************************)
(* Text, as the decoders tell it apart: bytes below 128 are characters of  *)
(* their own, bytes above begin no character and stand for what is not     *)
(* UTF-8.                                                                  *)
(***************************************************************************)
EXTENDS Integers, Sequences

Replacement == 65533

ValidUtf8(bytes) == \A i \in 1 .. Len(bytes) : bytes[i] < 128

from_utf8_lossy(bytes) ==
    [i \in 1 .. Len(bytes) |-> IF bytes[i] < 128 THEN bytes[i] ELSE Replacement]

(* CStr::from_bytes_until_nul: what stands before the first zero byte. *)
until_nul(bytes) ==
    SubSeq(bytes, 1, CHOOSE n \in 0 .. Len(bytes) :
                       /\ n = Len(bytes) \/ bytes[n + 1] = 0
                       /\ \A i \in 1 .. n : bytes[i] # 0)
=============================================================================
