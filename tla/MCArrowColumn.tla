--------------------------- MODULE MCArrowColumn ---------------------------
EXTENDS ArrowColumn

Types == PgTypeId \ {"Numeric"}

(* Lowest, highest, middle; -1; one that the shift still leaves in range. *)
Patterns == {<<0>>, <<5>>, <<127>>, <<128>>, <<255>>}

MCStoredValues ==
    [t \in Types |->
       CASE t = "Bool" -> {<<0>>, <<1>>}
         [] t = "Timetz" -> {<<3, 200>>, <<255, 4>>}
         [] t = "Interval" -> {<<255, 2, 1>>, <<7, 8, 200>>}
         [] t = "Tid" -> {<<255, 1>>, <<0, 200>>}
         [] t = "Name" -> {<<0, 0, 0>>, <<65, 66, 0>>, <<65, 255, 0>>}
         [] t \in StringTypes -> {<<>>, <<65, 66>>, <<65, 255>>}
         [] t \in SignedTypes \cup UnsignedTypes -> Patterns
         [] OTHER -> {<<1, 0>>, <<200>>}]

Typmod(precision, scale) == precision * 65536 + (scale % 2048) + 4

(* NUMERIC(p, s): up to 38, above 38, above 255; negative scales. *)
Declared == {<<1, 0>>, <<2, 0>>, <<2, 1>>, <<3, 1>>, <<3, 3>>, <<1, -1>>, <<2, -2>>,
             <<4, 0>>, <<4, 2>>, <<5, 2>>, <<17, 0>>}

(* The numbers a column so declared holds: multiples of 10^-s below 10^(p-s). *)
Holds(p, s) ==
    LET unscaled == {k \in {0, 1, 9, 10, 90, 99, 100, 999, 1000, 9990, 9999, 12300, 99999} :
                       k < 10 ^ (IF p < 5 THEN p ELSE 5)}
        unit == IF s < 0 THEN 10 ^ (-s) ELSE 1
        scale == IF s < 0 THEN 0 ELSE s
    IN  {<<unit * k, scale>> : k \in unscaled} \cup {<<-unit * k, scale>> : k \in unscaled}

Unbound == {<<0, 0>>, <<15, 1>>, <<-15, 1>>, <<-1999, 3>>, <<1, 3>>, <<1000, 0>>,
            <<9999, 0>>, <<99999, 0>>, <<10000000, 0>>, <<1, 8>>, <<12, 9>>}

MCNumerics ==
    [tm \in {Typmod(d[1], d[2]) : d \in Declared} \cup {-1} |->
       IF tm = -1 THEN Unbound
       ELSE LET d == CHOOSE d \in Declared : Typmod(d[1], d[2]) = tm IN Holds(d[1], d[2])]

MCColumns ==
    [type : Types, typmod : {-1}, nullable : BOOLEAN] \cup
    [type : {"Numeric"}, typmod : DOMAIN MCNumerics, nullable : BOOLEAN]
=============================================================================
