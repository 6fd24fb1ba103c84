--------------------------- MODULE MCBuildScript ---------------------------
(***************************************************************************)
(* BuildScript for TLC: a published target, one path per way an archive    *)
(* can be wrong to unpack at, a path that is a link, one that cannot be    *)
(* printed, and a cache root that cannot.                                  *)
(***************************************************************************)
EXTENDS BuildScript

CONSTANTS here, there, torn, home, tornHome

MCPaths       == {here, there, torn}
MCCacheRoots  == {home, tornHome}
MCUnprintable == {torn, tornHome}

\* Digests: the header vendored, one with the same first eight bytes, another.
Digest == << 1, 1 >>
Tail   == << 1, 2 >>

MCHeaders == {[abi |-> 2, wire |-> 2, digest |-> Digest],
              [abi |-> 2, wire |-> 2, digest |-> Tail]}
MCPins    == {Digest, Tail}

Declaration(digest, artifact) ==
    [abi |-> 2, wire |-> 2, digest |-> digest, artifacts |-> {artifact},
     upstreams |-> {"3.7.1"}]
MCDeclarations == {Declaration(Digest, "viprs.1"), Declaration(Tail, "viprs.1"),
                   Declaration(Digest, "viprs.2")}

Good == [shape |-> TRUE, target |-> Target, abi |-> 2, wire |-> 2, digest |-> Digest,
         fingerprint |-> 1, artifact |-> "viprs.1", upstream |-> "3.7.1",
         static_certified |-> TRUE, static_fields |-> STATIC_FIELDS, link_args |-> FALSE]
SharedOnly == [Good EXCEPT !.static_certified = FALSE, !.static_fields = {}]

Whole(m)    == [lib |-> TRUE, manifest |-> m,
                files |-> {"shared_library", "static_init_library", "static_library"}]
Gone        == [lib |-> FALSE, manifest |-> None, files |-> {}]

OtherTail    == [Good EXCEPT !.digest = Tail]
OtherRelease == [Good EXCEPT !.artifact = "viprs.2"]
MCManifests  == {Good, SharedOnly, OtherTail, OtherRelease}

MCArchives ==
    {Gone, [Gone EXCEPT !.lib = TRUE],
     [Whole(Good) EXCEPT !.files = {"shared_library", "static_library"}],
     [Whole(Good) EXCEPT !.lib = FALSE]}
    \cup {Whole(m) : m \in MCManifests}

Unset == [ACADSHARP_NATIVE_DIR |-> None, ACADSHARP_REQUIRE_NATIVE |-> None,
          CARGO_HOME |-> home, HOME |-> None, link_static |-> FALSE]

World(archives, in, e) ==
    [header |-> [abi |-> 2, wire |-> 2, digest |-> Digest], header_digest |-> Digest,
     compat |-> Declaration(Digest, "viprs.1"), archive |-> archives,
     links |-> [p \in MCPaths |-> p],
     cache |-> [r \in MCCacheRoots |-> IF r = home THEN in ELSE {}], env |-> e]

MCWorlds ==
    {World([p \in MCPaths |-> Gone], {}, Unset),
     World([p \in MCPaths |-> Whole(Good)], {here}, Unset),
     World([p \in MCPaths |-> IF p = here THEN Whole(Good) ELSE Gone], {},
           [Unset EXCEPT !.ACADSHARP_NATIVE_DIR = here])}
=============================================================================
