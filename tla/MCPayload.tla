----------------------------- MODULE MCPayload -----------------------------
(***************************************************************************)
(* Payload for TLC, with counts of one byte and wide arithmetic of two:    *)
(* every record type, at lengths on both sides of each identity, with      *)
(* counts on both sides of each length and counts whose identity is the    *)
(* same one in the width of a count.                                       *)
(***************************************************************************)
EXTENDS Payload

Make(types, lengths, counts, codes, nonfinites) ==
    [type : types, length : lengths, count : counts, code : codes,
     nonfinite : nonfinites, utf8 : BOOLEAN]

One(n) == << n, 0, 0 >>

MCRecords ==
    Make(DOMAIN FixedLength, {8, 24, 68, 72, 80, 96, 120}, {One(0)}, {0},
         {{}, {8}, {16}, {64}, {104}, {112}})
    \cup Make({"Polyline", "Polygon"}, {60, 64, 72, 88, 96, 128, 132},
              {<< p, b, 0 >> : p \in {0, 1, 2, 32, 255}, b \in {0, 1, 2, 255}}, {0},
              {{}, {24}, {32}, {56}, {80}, {112}})
    \cup Make({"Spline"}, {44, 48, 56, 80, 88, 96, 120},
              {0, 1, 2, 32} \X {0, 1, 2} \X {0, 1, 2, 255}, {0},
              {{}, {32}, {40}, {48}, {72}})
    \cup Make({"Text", "ViewBegin", "Warning"},
              {28, 32, 36, 60, 64, 68, 72, 76, 80, 84},
              {One(n) : n \in {0, 1, 4, 5, 8, 255}}, {0, 7},
              {{}, {8}, {16}, {48}, {56}, {64}})
    \cup Make({"Unknown"}, {8, 12, 40}, {One(0)}, {0}, {{}, {0}})

MCIndices == {0, 1, 2, 3, 64, 511}
=============================================================================
