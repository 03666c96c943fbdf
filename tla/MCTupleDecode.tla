--------------------------- MODULE MCTupleDecode ---------------------------
EXTENDS TupleDecode, TLC

Type(len, align, utf8, known) ==
    [len |-> len, align |-> align, typalign |-> align, utf8 |-> utf8, known |-> known]

Bool == Type(1, 1, FALSE, TRUE)
Int4 == Type(4, 4, FALSE, TRUE)
Path == Type(0, 8, FALSE, TRUE)
Name == Type(3, 1, TRUE, TRUE)

(* An array of eight-byte elements. *)
Int8Array == [Type(0, 4, FALSE, TRUE) EXCEPT !.typalign = 8]

(* An enum and a citext: types the code does not know. *)
Enum == Type(4, 4, FALSE, FALSE)
Citext == Type(0, 4, TRUE, FALSE)

MCTables ==
    [1 .. 3 -> {Bool, Int4, TextType, Path}] \cup
    {<<Int4, Name, Bool>>, <<Name, TextType, Int4>>, <<Bool, Enum, Int4>>,
     <<Citext, Bool, Enum>>, <<Int4, Int8Array, Bool>>}

Val(form, payload) == [form |-> form, payload |-> payload]

(* 60 bytes behind a four-byte header make its first byte zero. *)
MCValues ==
    (Bool :> {Null, Val("fixed", <<1>>)}) @@
    (Int4 :> {Null, Val("fixed", <<0, 2, 0, 0>>)}) @@
    (Name :> {Null, Val("fixed", <<65, 66, 0>>), Val("fixed", <<65, 255, 0>>)}) @@
    (Enum :> {Null, Val("fixed", <<7, 64, 0, 0>>), Val("fixed", <<64, 1, 0, 0>>)}) @@
    (Int8Array :> {Null, Val("short", <<9>>), Val("plain", <<0, 7>>)}) @@
    (Citext :> {Null, Val("short", <<65>>), Val("plain", <<66, 0>>)}) @@
    (TextType :> {Null, Val("short", <<>>), Val("short", <<65, 255>>),
              Val("plain", [i \in 1 .. 60 |-> 66]), Val("external", <<>>)}) @@
    (Path :> {Null, Val("short", <<9>>), Val("plain", <<0, 7>>),
              Val("compressed", <<3, 0, 5>>)})

MCProjections == {<<>>, <<0, 1, 2>>, <<2, 0>>, <<1>>, <<3>>, <<1, 1>>}
=============================================================================
