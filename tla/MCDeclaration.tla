--------------------------- MODULE MCDeclaration ---------------------------
(***************************************************************************)
(* Declaration for TLC, in three families of worlds: headers of every      *)
(* arrangement of their pieces; declarations written out from what they    *)
(* mean, with comments, and the ways to get one wrong; every short glob    *)
(* against every short version.                                            *)
(***************************************************************************)
EXTENDS Declaration

ABI  == "VIPRS_ACAD_ABI_VERSION"
WIRE == "VIPRS_ACAD_WIRE_VERSION"

MCDefines ==
    [s \in {"abi 1", "abi 2", "abi 256", "wire 1", "guard"} |->
        CASE s = "abi 1"   -> [name |-> ABI, value |-> 1]
          [] s = "abi 2"   -> [name |-> ABI, value |-> 2]
          [] s = "abi 256" -> [name |-> ABI, value |-> 256]
          [] s = "wire 1"  -> [name |-> WIRE, value |-> 1]
          [] s = "guard"   -> [name |-> ABI, value |-> None]]

Strings(chars, max) == UNION {[1 .. n -> chars] : n \in 0 .. max}

Good == [abi_version |-> 2, wire_version |-> 1, abi_header_sha256 |-> <<"a", "1">>,
         native_artifact_versions |-> <<"a", "*">>, acadsharp_versions |-> {<<"a">>}]

-----------------------------------------------------------------------------
(* Headers *)

Pieces == {<<"/", "*">>, <<"*", "/">>, <<"*", "/", "nl">>, <<"/">>, <<"nl">>, <<"word">>,
           <<"abi 1">>, <<"abi 2">>}
MoreDefines == {<<"abi 256">>, <<"guard", "nl">>, <<NotDecimal>>, <<"wire 1">>}

Headers ==
    {<<"wire 1", "nl">> \o FlattenSeq(pieces) : pieces \in [1 .. 4 -> Pieces]}
    \cup {<<"wire 1", "nl">> \o FlattenSeq(pieces) :
             pieces \in [1 .. 3 -> MoreDefines \cup {<<"nl">>, <<"abi 2">>, <<"/", "*">>, <<"*", "/">>}]}
    \cup {<<"abi 2">>, <<"wire 1", "abi 2">>}

GoodHeader == <<"abi 2", "nl", "wire 1">>

-----------------------------------------------------------------------------
(* Declarations *)

Digits(n) == CASE n = 1 -> <<"1">> [] n = 2 -> <<"0", "2">>
Quoted1(s) == <<Quote>> \o s \o <<Quote>>

ArrayOf(strings) ==
    <<"[">> \o FlattenSeq([n \in DOMAIN strings |->
                   Quoted1(strings[n]) \o (IF n < Len(strings) THEN <<",">> ELSE << >>)]) \o <<"]">>

Line(key, said) ==
    <<key, "=">> \o CASE key \in {"abi_version", "wire_version"} -> Digits(said)
                     [] key = "acadsharp_versions" -> ArrayOf(SetToSeq(said))
                     [] OTHER -> Quoted1(said)

Order == <<"abi_version", "native_artifact_versions", "acadsharp_versions", "wire_version",
           "abi_header_sha256">>
Written(d) == [n \in 1 .. 5 |-> Line(Order[n], d[Order[n]])]

Texts(chars) == {<<a>> : a \in chars} \cup {<<a, b>> : a, b \in chars}

Meant ==
    {[Good EXCEPT !.native_artifact_versions = glob] : glob \in Texts({"*", "#", "=", ",", "["})}
    \cup {[Good EXCEPT !.acadsharp_versions = {one, two}] :
             one \in Texts({"#", "=", "]", "a"}), two \in {<<"a">>, <<"#">>, << >>}}
    \cup {[Good EXCEPT !.abi_version = n, !.abi_header_sha256 = <<h, "1">>] :
             n \in {1, 2}, h \in {"a", "b"}}

Comments == {<<"#">>, <<"#", "#">>, <<"#", Quote>>, <<"#", "wire_version", "=", "1">>}

\* A comment on the n-th line, and lines that say nothing around it.
Commenting(lines, n, comment) ==
    <<comment>> \o [lines EXCEPT ![n] = @ \o comment] \o << << >> >>

Faults ==
    LET lines == Written(Good)
    IN  {Remove(lines, lines[n]) : n \in 1 .. 5}
        \cup {Append(lines, line2) : line2 \in {lines[n] : n \in 1 .. 5} \cup
                 {<<"abi_version", "=", "1">>, <<"[", "abi_version", "]">>, <<"other", "=", "1">>,
                  <<"abi_version">>, <<"=">>, <<Quote>>}}
        \cup {[lines EXCEPT ![1] = <<"abi_version", "=">> \o rest] :
                 rest \in {<< >>, <<"a">>, <<"2", "5", "6">>, Quoted1(<<"2">>), <<"#", "2">>}}
        \cup {[lines EXCEPT ![2] = <<"native_artifact_versions", "=">> \o rest] :
                 rest \in {<< >>, Quoted1(<< >>), <<Quote>>, <<"a">>, Quoted1(<<Escape>>),
                           Quoted1(<<Quote, Quote>>), <<Quote, "a", "#", Quote, "a">>}}
        \cup {[lines EXCEPT ![3] = <<"acadsharp_versions", "=">> \o rest] :
                 rest \in {<<"[", "]">>, <<"[", ",", "]">>, <<"[", "a", "]">>, <<"[">>,
                           <<"[">> \o Quoted1(<<"a">>), ArrayOf(<< <<"a", ",">> >>),
                           <<"[">> \o Quoted1(<<"a">>) \o Quoted1(<<"a">>) \o <<"]">>}}
        \cup {[lines EXCEPT ![5] = <<"abi_header_sha256", "=">> \o rest] :
                 rest \in {Quoted1(<<"A", "1">>), Quoted1(<<"a">>), Quoted1(<<"0", "x", "a", "1">>)}}

-----------------------------------------------------------------------------
World(header, lines, written, version) ==
    [header |-> header, digest |-> <<"a", "1">>, declaration |-> lines, written |-> written,
     artifact_version |-> version, acadsharp_version |-> <<"a">>]

MCWorlds ==
    {World(h, Written(Good), Good, <<"a">>) : h \in Headers}
    \cup {World(GoodHeader, Written(d), d, <<"a">>) : d \in Meant}
    \cup {World(GoodHeader, Commenting(Written(d), n, comment), d, <<"a">>) :
             d \in Meant, n \in 1 .. 5, comment \in Comments}
    \cup {World(GoodHeader, lines, None, <<"a">>) : lines \in Faults}
    \cup {World(GoodHeader, Written([Good EXCEPT !.native_artifact_versions = glob]),
                [Good EXCEPT !.native_artifact_versions = glob], version) :
             glob \in Strings({"a", "b", "*"}, 4) \ {<< >>},
             version \in Strings({"a", "b"}, 4) \cup Strings({"a", "*"}, 2)}
=============================================================================
