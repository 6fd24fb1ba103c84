------------------------------- MODULE MCWalk -------------------------------
(***************************************************************************)
(* Walk for TLC: every payload of up to 18 bytes whose headers are one of  *)
(* the seven below, one for each way the framing rules can go, in a slice  *)
(* that is exact, too short or longer than the batch.                      *)
(***************************************************************************)
EXTENDS Walk

Item(refused) == [refused |-> refused, kind |-> "Other", total |-> 0]
Header(reserved, length, refused) ==
    [reserved |-> reserved, length |-> length, body |-> Item(refused)]

MCHeaders == {Header(0, 4, None), Header(0, 8, None), Header(1, 8, None),
              Header(0, 8, "WrongFixedLength"), Header(0, 10, None),
              Header(0, 12, None), Header(0, 24, None)}

MCPayloadLengths == {0, 6, 8, 18}

MCContents ==
    UNION {[magic : {TRUE}, wire : {WIRE_VERSION}, plen : {n},
            at : [HeaderOffsets(n) -> MCHeaders]] : n \in MCPayloadLengths}
    \cup [magic : BOOLEAN, wire : {1, WIRE_VERSION}, plen : {8},
          at : [HeaderOffsets(8) -> MCHeaders]]

MCSizes   == {8, 20, 30, 36}
MCOffsets == {0, 12, 14, 16, 20, 36}
=============================================================================
