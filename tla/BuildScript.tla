---------------------------- MODULE BuildScript ----------------------------
(***************************************************************************)
(* The build script (src/build.rs and src/build/) and the cargo that runs  *)
(* it.  One run is a decision taken from files and variables: stop the     *)
(* build, link nothing (the stub), or link an archive shared or static.    *)
(* Cargo keeps the decision, and runs the script again only when something *)
(* the script named in a rerun-if line has changed.                        *)
(*                                                                         *)
(* Nobody edits anything during a run, so a run is one step.  What a       *)
(* refusal says is left out, and so is which of its checks refused: all of *)
(* them stop the build.  A digest is a pair, the eight bytes that are the  *)
(* fingerprint and the rest.                                               *)
(***************************************************************************)
EXTENDS Naturals

CONSTANTS
    None,
    Target,         \* the triple cargo builds for
    Published,      \* the triples the producer publishes archives for
    Paths,          \* directories that may hold an archive
    CacheRoots,     \* places the cache may be
    Unprintable,    \* the paths with a control character in their name
    Headers,        \* contents of native/viprs_acadsharp.h: [abi, wire, digest]
    Pins,           \* digests that may be committed beside it
    Declarations,   \* contents of COMPAT.toml
    Manifests,      \* contents of metadata/LINKINFO.json
    Archives,       \* what may be unpacked at a path, see BuildAssumption
    Worlds,         \* what a behaviour may start from: the files and the variables
    MaxEdits        \* bound on the edits of a behaviour

STATIC_FIELDS == {"static_library", "static_init_library",
                  "static_system_libraries", "static_link_args"}
Libraries == {"shared_library", "static_init_library", "static_library"}

VARIABLES
    header, header_digest, compat,      \* the three committed files
    archive,        \* what each path holds where it is no link
    links,          \* what each path canonicalises to: itself, or where a link leads
    cache,          \* the <artifact_version>/<leaf> directories below each root
    env,            \* the variables, and the feature link-static
    out,            \* what cargo keeps of the last run, None after a failure
    edited,         \* what changed since that run, manifests and links aside
    rewritten,      \* the paths whose manifest changed since that run
    relinked,       \* the paths that led elsewhere at some time since that run
    built,          \* the last command: "edit", or how the build ended
    edits

files == <<header, header_digest, compat, archive, links, cache>>
since == <<edited, rewritten, relinked>>
vars == <<files, env, out, since, built, edits>>

RequireValues == {None, "", "0", "1"}

Environments ==
    [ACADSHARP_NATIVE_DIR : Paths \cup {None},
     ACADSHARP_REQUIRE_NATIVE : RequireValues,
     CARGO_HOME : CacheRoots \cup {None}, HOME : CacheRoots \cup {None},
     link_static : BOOLEAN]

\* Canonicalising what is canonical changes nothing.
Links == {l \in [Paths -> Paths] : \A p \in Paths : l[l[p]] = l[p]}

\* What cargo keeps of a run that did not fail.
Outputs ==
    [decision : [verdict : {"stub"}, root : {None}]
                \cup [verdict : {"shared", "static"}, root : Paths],
     env : Environments,
     printed : SUBSET (Paths \cup CacheRoots)]

ASSUME BuildAssumption ==
    /\ MaxEdits \in Nat
    /\ None \notin Paths \cup CacheRoots \cup Manifests \cup Outputs
    /\ Archives \subseteq [lib : BOOLEAN, manifest : Manifests \cup {None},
                           files : SUBSET Libraries]
    /\ \A w \in Worlds :
          /\ w.header \in Headers /\ w.header_digest \in Pins /\ w.compat \in Declarations
          /\ w.archive \in [Paths -> Archives] /\ w.links \in Links
          /\ w.cache \in [CacheRoots -> SUBSET Paths]
          /\ w.env \in Environments

-----------------------------------------------------------------------------
(* One run of the script *)

\* verify_digest, and COMPAT.toml against the header.
ExpectationsHold ==
    /\ header_digest = header.digest
    /\ compat.abi = header.abi
    /\ compat.wire = header.wire
    /\ compat.digest = header.digest

\* The environment is a parameter from here on, so that two can be compared.
native_lane_required(e) == e.ACADSHARP_REQUIRE_NATIVE \notin {None, "", "0"}

cache_root(e) == IF e.CARGO_HOME # None THEN e.CARGO_HOME ELSE e.HOME

\* What is read at a path, which is looked up through the links.
At(p) == archive[links[p]]

\* The archives in the cache that are for this target.
cached_archives(e) ==
    IF cache_root(e) = None \/ Target \notin Published
    THEN {}
    ELSE {p \in cache[cache_root(e)] : At(p).manifest # None}

Failed      == [verdict |-> "failed", root |-> None]
Stub        == [verdict |-> "stub", root |-> None]
Found(root) == [verdict |-> "found", root |-> root]

\* The message names the cache, so an unprintable one refuses here as well.
give_up(e) ==
    IF cache_root(e) \in Unprintable \/ native_lane_required(e) THEN Failed ELSE Stub

\* Mutant: only the canonical path is looked at.
FromVariable_Canonical(e) ==
    LET root == links[e.ACADSHARP_NATIVE_DIR]
    IN  IF root \in Unprintable THEN Failed
        ELSE IF ~At(root).lib \/ At(root).manifest = None THEN give_up(e)
        ELSE Found(root)

FromVariable(e) ==
    LET raw  == e.ACADSHARP_NATIVE_DIR
        root == links[raw]
    IN  IF raw \in Unprintable \/ root \in Unprintable THEN Failed
        ELSE IF ~At(root).lib \/ At(root).manifest = None THEN give_up(e)
        ELSE Found(root)

\* The cached path is neither canonicalised nor asked for a lib/.
FromCache(e) ==
    IF cache_root(e) \in Unprintable THEN Failed
    ELSE IF ~ \E only \in Paths : cached_archives(e) = {only} THEN give_up(e)
    ELSE LET only == CHOOSE p \in Paths : cached_archives(e) = {p}
         IN  IF only \in Unprintable THEN Failed ELSE Found(only)

resolve_root(e) ==
    IF e.ACADSHARP_NATIVE_DIR # None THEN FromVariable(e) ELSE FromCache(e)

\* LinkInfo out of LINKINFO.json: the rules on single fields are its shape.
validate(m) ==
    /\ m.shape
    /\ m.fingerprint = m.digest[1]
    /\ m.static_fields = IF m.static_certified THEN STATIC_FIELDS ELSE {}

\* The release and the upstream COMPAT.toml declares.
check_archive(m) == m.artifact \in compat.artifacts /\ m.upstream \in compat.upstreams

\* policy::choose: the archive is the right one, and has what is asked of it.
choose(m, e) ==
    /\ m.target = Target
    /\ m.abi = header.abi
    /\ m.wire = header.wire
    /\ m.fingerprint = header.digest[1]
    /\ m.digest = header.digest
    /\ m.static_certified => ~m.link_args
    /\ e.link_static => m.static_certified

required_files(e) == IF e.link_static THEN {"static_init_library", "static_library"}
                                      ELSE {"shared_library"}

\* Mutant: the declaration is compared on the route of the variable only.
LinkOrFail_Keyed(root, e) ==
    LET m == At(root).manifest
    IN  IF /\ validate(m) /\ choose(m, e)
           /\ e.ACADSHARP_NATIVE_DIR # None => check_archive(m)
           /\ required_files(e) \subseteq At(root).files
        THEN [verdict |-> IF e.link_static THEN "static" ELSE "shared", root |-> root]
        ELSE Failed

LinkOrFail(root, e) ==
    LET m == At(root).manifest
    IN  IF /\ validate(m) /\ check_archive(m) /\ choose(m, e)
           /\ required_files(e) \subseteq At(root).files
        THEN [verdict |-> IF e.link_static THEN "static" ELSE "shared", root |-> root]
        ELSE Failed

Decision(e) ==
    IF ~ExpectationsHold THEN Failed
    ELSE IF resolve_root(e).verdict = "found" THEN LinkOrFail(resolve_root(e).root, e)
    ELSE resolve_root(e)

\* The paths a run puts into lines that cargo reads.
Printed(d, e) ==
    IF d.verdict = "stub"
    THEN ({e.ACADSHARP_NATIVE_DIR, cache_root(e)} \ {None})
         \cup (IF e.ACADSHARP_NATIVE_DIR = None THEN {} ELSE {links[e.ACADSHARP_NATIVE_DIR]})
    ELSE {d.root}

-----------------------------------------------------------------------------
(* Cargo *)

\* Mutants: a line nobody printed.
RERUN_FILES_NoHeader == {"header_digest"}
RERUN_ENV_NoRequire == {"ACADSHARP_NATIVE_DIR", "CARGO_HOME"}
RerunManifests_None(d) == {}

RERUN_FILES == {"header", "header_digest"}
RERUN_ENV == {"ACADSHARP_NATIVE_DIR", "ACADSHARP_REQUIRE_NATIVE", "CARGO_HOME"}

\* The manifest is named by a run that links, and by no other.
RerunManifests(d) == IF d.verdict \in {"shared", "static"} THEN {d.root} ELSE {}

\* The time of a file is looked up through the links, and a file that is gone
\* counts as changed.  A link that leads elsewhere gives no file a new time.  A
\* changed feature is another unit to cargo, whatever the script names.
IsStale ==
    \/ edited \cap RERUN_FILES # {}
    \/ \E p \in RerunManifests(out.decision) :
          links[p] \in rewritten \/ At(p).manifest = None
    \/ \E v \in RERUN_ENV \cup {"link_static"} : env[v] # out.env[v]

Run ==
    /\ out # None => IsStale
    /\ LET d == Decision(env)
       IN  IF d.verdict = "failed"
           THEN out' = None /\ built' = "failed"
           ELSE /\ out' = [decision |-> d, env |-> env, printed |-> Printed(d, env)]
                /\ built' = "ok"
    /\ edited' = {}
    /\ rewritten' = {}
    /\ relinked' = {}
    /\ UNCHANGED <<files, env, edits>>

Reuse ==
    /\ out # None /\ ~IsStale
    /\ built' = "ok"
    /\ UNCHANGED <<files, env, out, since, edits>>

-----------------------------------------------------------------------------
(* Everything that may change between two builds *)

Edit(names, manifests, moved) ==
    /\ edits < MaxEdits
    /\ edits' = edits + 1
    /\ edited' = edited \cup names
    /\ rewritten' = rewritten \cup manifests
    /\ relinked' = relinked \cup moved
    /\ built' = "edit"
    /\ UNCHANGED out

Vendor ==
    /\ header' \in Headers \ {header}
    /\ Edit({"header"}, {}, {})
    /\ UNCHANGED <<header_digest, compat, archive, links, cache, env>>

Pin ==
    /\ header_digest' \in Pins \ {header_digest}
    /\ Edit({"header_digest"}, {}, {})
    /\ UNCHANGED <<header, compat, archive, links, cache, env>>

Declare ==
    /\ compat' \in Declarations \ {compat}
    /\ Edit({"compat"}, {}, {})
    /\ UNCHANGED <<header, header_digest, archive, links, cache, env>>

\* At a path that is a link, this would be unpacking where it leads.
Unpack ==
    /\ \E p \in Paths : \E a \in Archives \ {archive[p]} :
          /\ links[p] = p
          /\ archive' = [archive EXCEPT ![p] = a]
          /\ Edit(IF <<a.lib, a.files>> = <<archive[p].lib, archive[p].files>>
                  THEN {} ELSE {"libraries"},
                  IF a.manifest = archive[p].manifest THEN {} ELSE {p},
                  {})
    /\ UNCHANGED <<header, header_digest, compat, links, cache, env>>

\* A link made, removed or led elsewhere takes along what leads through it.
Relink ==
    /\ links' \in Links \ {links}
    /\ Edit({}, {}, {p \in Paths : links'[p] # links[p]})
    /\ UNCHANGED <<header, header_digest, compat, archive, cache, env>>

FillCache ==
    /\ \E r \in CacheRoots : \E p \in Paths \ cache[r] : cache' = [cache EXCEPT ![r] = @ \cup {p}]
    /\ Edit({"cache"}, {}, {})
    /\ UNCHANGED <<header, header_digest, compat, archive, links, env>>

SetVariable ==
    /\ \/ \E p \in Paths \cup {None} : env' = [env EXCEPT !.ACADSHARP_NATIVE_DIR = p]
       \/ \E x \in RequireValues : env' = [env EXCEPT !.ACADSHARP_REQUIRE_NATIVE = x]
       \/ \E r \in CacheRoots \cup {None} : env' = [env EXCEPT !.CARGO_HOME = r]
       \/ \E r \in CacheRoots \cup {None} : env' = [env EXCEPT !.HOME = r]
       \/ env' = [env EXCEPT !.link_static = ~env.link_static]
    /\ Edit({}, {}, {})
    /\ UNCHANGED files

Init ==
    /\ \E w \in Worlds :
          /\ header = w.header /\ header_digest = w.header_digest /\ compat = w.compat
          /\ archive = w.archive /\ links = w.links /\ cache = w.cache
          /\ env = w.env
    /\ out = None
    /\ edited = {} /\ rewritten = {} /\ relinked = {}
    /\ built = "edit"
    /\ edits = 0

Next == \/ Run \/ Reuse
        \/ Vendor \/ Pin \/ Declare \/ Unpack \/ Relink \/ FillCache \/ SetVariable

Spec == Init /\ [][Next]_vars

-----------------------------------------------------------------------------
(* Correctness *)

IsLink(d) == d.verdict \in {"shared", "static"}
Linked == out # None /\ IsLink(out.decision)

\* Every variable is in its set, a decision is kept exactly while the last
\* run did not fail, and what is printed is what the decision calls for.
TypeOK ==
    /\ header \in Headers /\ header_digest \in Pins /\ compat \in Declarations
    /\ archive \in [Paths -> Archives]
    /\ links \in Links
    /\ cache \in [CacheRoots -> SUBSET Paths]
    /\ env \in Environments
    /\ out \in Outputs \cup {None}
    /\ edited \subseteq {"header", "header_digest", "compat", "libraries", "cache"}
    /\ rewritten \subseteq Paths /\ relinked \subseteq Paths
    /\ built \in {"edit", "ok", "failed"}
    /\ built = "ok" => out # None
    /\ built = "failed" => out = None
    /\ edits \in 0 .. MaxEdits

\* Whatever was edited and however often cargo reused a decision, a build that
\* succeeds and links has in front of it an archive for this target whose
\* manifest names the header as it is now, all of it, and it is linked the way
\* the feature asks (policy.rs:286-344 with the rerun lines of build.rs).  Only
\* where the path that was linked became a link, or was one and leads elsewhere
\* now, may cargo not notice.
LinkedArchiveAgrees ==
    built = "ok" /\ Linked /\ out.decision.root \notin relinked =>
        LET m == At(out.decision.root).manifest
        IN  /\ m # None
            /\ m.target = Target
            /\ m.abi = header.abi /\ m.wire = header.wire /\ m.digest = header.digest
            /\ out.decision.verdict = "static" <=> env.link_static
            /\ env.link_static => m.static_certified

\* A build that asks for the native lane never succeeds without it, also when
\* the variable was set behind a build that linked nothing (build.rs:427, 470).
RequiredIsLinked == built = "ok" /\ native_lane_required(env) => Linked

\* Whatever happens to the header, its digest, the variables named to cargo,
\* the feature and the manifest that was linked, a build that succeeds stands
\* on the decision the script takes now: what moves it is nothing but the
\* inputs nobody names (build.rs:68-78, 277).
ListedInputsSuffice ==
    /\ built = "ok"
    /\ edited \cap {"compat", "libraries", "cache"} = {} /\ relinked = {}
    /\ rewritten \subseteq (IF Linked THEN {links[out.decision.root]} ELSE {})
    /\ env.HOME = out.env.HOME
    => out.decision = Decision(env)

\* A path with a control character in it is in no line cargo reads, whichever
\* of the three ways it came in (build.rs:317, 329, 354, 415).
LinesStayWhole == out # None => out.printed \cap Unprintable = {}

\* An archive is checked alike whichever route it is found by (build.rs:248-258):
\* for the one archive in the cache, what is linked through the variable is
\* linked out of the cache, in the same way.  And what is linked out of the cache
\* is linked through the variable, but for the two things that route alone asks:
\* a lib/, and a canonical name that can be printed (build.rs:323-338, 350-357).
RoutesCheckAlike ==
    \A p \in Paths :
        cached_archives(env) = {p} /\ cache_root(env) \notin Unprintable =>
            LET cached  == Decision([env EXCEPT !.ACADSHARP_NATIVE_DIR = None])
                through == Decision([env EXCEPT !.ACADSHARP_NATIVE_DIR = p])
            IN  /\ IsLink(through) => cached = [through EXCEPT !.root = p]
                /\ IsLink(cached) =>
                      \/ through = [cached EXCEPT !.root = links[p]]
                      \/ ~At(p).lib
                      \/ links[p] \in Unprintable

\* What the comment says of the inputs: build.rs:65-67, "Emitting any
\* rerun-if-changed turns off cargo's default 'rerun when anything in the
\* package changed', so every input this script reads has to be listed".  A
\* build that succeeds would be decided the same way by the script run now.
EveryDecisionIsCurrent == built = "ok" => out.decision = Decision(env)
=============================================================================
