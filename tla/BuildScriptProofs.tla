------------------------- MODULE BuildScriptProofs -------------------------
(***************************************************************************)
(* Theorems about BuildScript, for every set of paths, archives, headers   *)
(* and declarations and for any number of edits.                           *)
(*                                                                         *)
(* The invariant says what cargo's copy of a decision is worth: as long as *)
(* nothing of what it stands on was edited it is the decision the script   *)
(* would take (Kept), and the part of it that only stands on the header    *)
(* and the linked manifest outlives edits of everything else (Agreed).     *)
(***************************************************************************)
EXTENDS BuildScript, TLAPS

\* What LinkedArchiveAgrees asks of the manifest of a linked archive.
Fits(m, d, e) ==
    /\ m # None
    /\ m.target = Target
    /\ m.abi = header.abi /\ m.wire = header.wire /\ m.digest = header.digest
    /\ d.verdict = "static" <=> e.link_static
    /\ e.link_static => m.static_certified

Kept == out # None /\ edited = {} /\ rewritten = {} /\ relinked = {} =>
        out.decision = Decision(out.env)

Agreed ==
    /\ Linked /\ "header" \notin edited
    /\ out.decision.root \notin relinked /\ links[out.decision.root] \notin rewritten
    => Fits(At(out.decision.root).manifest, out.decision, out.env)

Wanted == out # None /\ native_lane_required(out.env) => Linked

Fresh == built = "ok" => ~IsStale

BuildInv == TypeOK /\ Kept /\ Agreed /\ Wanted /\ Fresh /\ LinesStayWhole

-----------------------------------------------------------------------------
(* What one run decides *)

\* resolve_root finds a path, or nothing, or stops.
LEMMA ResolveType ==
    ASSUME TypeOK, NEW e \in Environments
    PROVE  \/ resolve_root(e) = Failed
           \/ /\ resolve_root(e) = Stub
              /\ cache_root(e) \notin Unprintable
              /\ ~native_lane_required(e)
              /\ e.ACADSHARP_NATIVE_DIR # None =>
                    /\ links[e.ACADSHARP_NATIVE_DIR] \in Paths
                    /\ {e.ACADSHARP_NATIVE_DIR, links[e.ACADSHARP_NATIVE_DIR]} \cap Unprintable = {}
           \/ \E p \in Paths : /\ resolve_root(e) = Found(p)
                               /\ p \notin Unprintable
                               /\ At(p).manifest # None
<1>1. CASE e.ACADSHARP_NATIVE_DIR # None
  <2>1. e.ACADSHARP_NATIVE_DIR \in Paths
    BY <1>1 DEF Environments
  <2>2. links[e.ACADSHARP_NATIVE_DIR] \in Paths
    BY <2>1 DEF TypeOK, Links
  <2> QED BY <1>1, <2>1, <2>2 DEF resolve_root, FromVariable, give_up
<1>2. CASE e.ACADSHARP_NATIVE_DIR = None
  <2>1. CASE \E only \in Paths : cached_archives(e) = {only}
    <3> DEFINE only == CHOOSE p \in Paths : cached_archives(e) = {p}
    <3>1. only \in Paths /\ cached_archives(e) = {only}
      BY <2>1
    <3>2. At(only).manifest # None
      BY <3>1 DEF cached_archives
    <3>3. resolve_root(e) = IF cache_root(e) \in Unprintable \/ only \in Unprintable
                            THEN Failed ELSE Found(only)
      BY <1>2, <2>1 DEF resolve_root, FromCache
    <3> HIDE DEF only
    <3> QED BY <3>1, <3>2, <3>3
  <2>2. CASE ~ \E only \in Paths : cached_archives(e) = {only}
    BY <1>2, <2>2 DEF resolve_root, FromCache, give_up
  <2> QED BY <2>1, <2>2
<1> QED BY <1>1, <1>2

\* A decision stops the build, links nothing, or links an archive that fits.
LEMMA DecisionType ==
    ASSUME TypeOK, NEW e \in Environments
    PROVE  \/ Decision(e) = Failed
           \/ /\ Decision(e) = Stub
              /\ cache_root(e) \notin Unprintable
              /\ ~native_lane_required(e)
              /\ e.ACADSHARP_NATIVE_DIR # None =>
                    /\ links[e.ACADSHARP_NATIVE_DIR] \in Paths
                    /\ {e.ACADSHARP_NATIVE_DIR, links[e.ACADSHARP_NATIVE_DIR]} \cap Unprintable = {}
           \/ \E p \in Paths :
                 /\ p \notin Unprintable
                 /\ Decision(e) = [verdict |-> IF e.link_static THEN "static" ELSE "shared",
                                   root |-> p]
                 /\ Fits(At(p).manifest, Decision(e), e)
<1>1. CASE ~ExpectationsHold
  BY <1>1 DEF Decision
<1>2. CASE ExpectationsHold /\ resolve_root(e).verdict # "found"
  <2>1. Decision(e) = resolve_root(e)
    BY <1>2 DEF Decision
  <2> QED BY <1>2, <2>1, ResolveType DEF Found
<1>3. CASE ExpectationsHold /\ resolve_root(e).verdict = "found"
  <2>1. PICK p \in Paths : /\ resolve_root(e) = Found(p)
                           /\ p \notin Unprintable
                           /\ At(p).manifest # None
    BY <1>3, ResolveType DEF Failed, Stub
  <2>2. Decision(e) = LinkOrFail(p, e)
    BY <1>3, <2>1 DEF Decision, Found
  <2>3. e.link_static \in BOOLEAN
    BY DEF Environments
  <2> QED BY <2>1, <2>2, <2>3 DEF LinkOrFail, choose, Fits
<1> QED BY <1>1, <1>2, <1>3

\* What the script decides depends on nothing but the files and the environment.
LEMMA DecisionStays ==
    ASSUME UNCHANGED files, NEW e
    PROVE  Decision(e)' = Decision(e)
<1> USE DEF files
<1>1. ExpectationsHold' = ExpectationsHold
  BY DEF ExpectationsHold
<1>2. cached_archives(e)' = cached_archives(e)
  BY DEF cached_archives, cache_root, At
<1>3. give_up(e)' = give_up(e)
  BY DEF give_up, cache_root, native_lane_required
<1>4. FromVariable(e)' = FromVariable(e)
  BY <1>3 DEF FromVariable, At
<1>5. FromCache(e)' = FromCache(e)
  BY <1>2, <1>3 DEF FromCache, cache_root
<1>6. resolve_root(e)' = resolve_root(e)
  BY <1>4, <1>5 DEF resolve_root
<1>7. ASSUME NEW root PROVE LinkOrFail(root, e)' = LinkOrFail(root, e)
  BY DEF At, LinkOrFail, validate, check_archive, choose, required_files
<1> QED
  BY <1>1, <1>6, <1>7 DEF Decision

-----------------------------------------------------------------------------
(* Every step keeps the invariant *)

LEMMA InitInv == Init => BuildInv
<1> SUFFICES ASSUME Init PROVE BuildInv
  OBVIOUS
<1>1. TypeOK
  BY BuildAssumption DEF Init, TypeOK
<1> QED BY <1>1 DEF Init, BuildInv, Kept, Agreed, Wanted, Fresh, LinesStayWhole, Linked, IsLink

LEMMA RunInv ==
    ASSUME BuildInv, Run
    PROVE  BuildInv'
<1> USE DEF BuildInv
<1>1. env \in Environments
  BY DEF TypeOK
<1>2. edited' = {} /\ rewritten' = {} /\ relinked' = {} /\ UNCHANGED <<files, env, edits>>
  BY DEF Run
<1>3. CASE Decision(env) = Failed
  <2>1. out' = None /\ built' = "failed"
    BY <1>3 DEF Run, Failed
  <2>2. TypeOK'
    BY <1>2, <2>1 DEF TypeOK, files
  <2> QED BY <2>1, <2>2 DEF Kept, Agreed, Wanted, Fresh, LinesStayWhole, Linked, IsLink
<1>4. CASE Decision(env) # Failed
  <2> DEFINE d == Decision(env)
  <2>1. d.verdict \in {"stub", "shared", "static"}
    BY <1>1, <1>4, DecisionType DEF Stub
  <2>2. /\ out' = [decision |-> d, env |-> env, printed |-> Printed(d, env)]
        /\ built' = "ok"
    BY <2>1 DEF Run
  <2>3. d \in [verdict : {"stub"}, root : {None}]
              \cup [verdict : {"shared", "static"}, root : Paths]
    BY <1>1, <1>4, DecisionType DEF Stub
  <2>4. /\ Printed(d, env) \subseteq Paths \cup CacheRoots
        /\ Printed(d, env) \cap Unprintable = {}
    <3>1. CASE d = Stub
      <4> DEFINE dir == env.ACADSHARP_NATIVE_DIR
      <4>1. Printed(d, env) = ({dir, cache_root(env)} \ {None})
                              \cup (IF dir = None THEN {} ELSE {links[dir]})
        BY <3>1 DEF Printed, Stub
      <4>2. dir \in Paths \cup {None} /\ cache_root(env) \in CacheRoots \cup {None}
        BY <1>1 DEF Environments, cache_root
      <4>3. /\ cache_root(env) \notin Unprintable
            /\ dir # None => links[dir] \in Paths /\ {dir, links[dir]} \cap Unprintable = {}
        BY <1>1, <3>1, DecisionType DEF Stub, Failed
      <4> HIDE DEF dir
      <4> QED BY <4>1, <4>2, <4>3
    <3>2. CASE d # Stub
      BY <1>1, <1>4, <3>2, DecisionType DEF Printed
    <3> QED BY <3>1, <3>2
  <2>5. out' \in Outputs /\ out' # None
    BY <1>1, <2>2, <2>3, <2>4, BuildAssumption DEF Outputs
  <2> HIDE DEF d
  <2>50. TypeOK'
    BY <1>2, <2>2, <2>5 DEF TypeOK, files
  <2>6. (Decision(env) = Decision(env)')
    <3>1. PICK e : e = env
      OBVIOUS
    <3>2. UNCHANGED files /\ env' = env
      BY <1>2 DEF files
    <3> QED
      BY <3>1, <3>2, DecisionStays
  <2>7. Kept'
    <3>1. out'.decision = Decision(env) /\ out'.env = env /\ env' = env
      BY <1>2, <2>2 DEF d
    <3>2. Decision(out.env)' = Decision(env)'
      BY <3>1
    <3> QED BY <2>6, <3>1, <3>2 DEF Kept
  <2>8. Agreed'
    <3>1. d.verdict \in {"shared", "static"} => Fits(At(d.root).manifest, d, env)
      BY <1>1, <1>4, DecisionType DEF d, Stub
    <3>2. out'.decision = d /\ out'.env = env /\ header' = header
          /\ archive' = archive /\ links' = links
      BY <1>2, <2>2 DEF files
    <3> QED BY <3>1, <3>2 DEF Agreed, Linked, IsLink, Fits, At
  <2>9. Wanted'
    <3>1. d.verdict \in {"shared", "static"} \/ ~native_lane_required(env)
      BY <1>1, <1>4, DecisionType DEF d, Stub
    <3>2. native_lane_required(out.env)' = native_lane_required(env)
      BY <2>2 DEF native_lane_required
    <3> QED BY <2>2, <2>5, <3>1, <3>2 DEF Wanted, Linked, IsLink
  <2>10. Fresh'
    <3>1. d.verdict \in {"shared", "static"} => At(d.root).manifest # None
      BY <1>1, <1>4, DecisionType DEF d, Stub, Fits
    <3>2. RerunManifests(d) = IF d.verdict \in {"shared", "static"} THEN {d.root} ELSE {}
      BY DEF RerunManifests
    <3>3. \A p \in RerunManifests(d) : At(p).manifest # None
      BY <3>1, <3>2
    <3>4. /\ out'.decision = d /\ out'.env = env /\ env' = env
          /\ edited' = {} /\ rewritten' = {} /\ archive' = archive /\ links' = links
      BY <1>2, <2>2 DEF files
    <3>5. RerunManifests(out.decision)' = RerunManifests(d)
      BY <3>4 DEF RerunManifests
    <3> QED BY <3>3, <3>4, <3>5 DEF Fresh, IsStale, At
  <2>11. LinesStayWhole'
    BY <2>2, <2>4 DEF LinesStayWhole
  <2> QED BY <2>50, <2>7, <2>8, <2>9, <2>10, <2>11
<1> QED BY <1>3, <1>4

LEMMA ReuseInv ==
    ASSUME BuildInv, Reuse
    PROVE  BuildInv'
<1> USE DEF BuildInv, Reuse, files, since
<1>1. TypeOK'
  BY DEF TypeOK
<1>2. (Decision(out.env) = Decision(out.env)')
  <2>1. PICK e : e = out.env
    OBVIOUS
  <2>2. UNCHANGED files /\ out' = out
    OBVIOUS
  <2> QED
    BY <2>1, <2>2, DecisionStays
<1>3. Kept' /\ Agreed' /\ Wanted' /\ Fresh' /\ LinesStayWhole'
  BY <1>2 DEF Kept, Agreed, Linked, IsLink, Fits, At, Wanted, native_lane_required, Fresh,
     IsStale, RerunManifests, LinesStayWhole
<1> QED BY <1>1, <1>3

\* What an edit leaves of the invariant, whatever it edits: the header only
\* under its name, and a manifest or a link only under the name of its path.
LEMMA EditInv ==
    ASSUME BuildInv, NEW names, NEW paths, NEW moved, Edit(names, paths, moved),
           TypeOK',
           "header" \notin names => header' = header,
           \A p \in Paths \ paths : archive'[p].manifest = archive[p].manifest,
           \A p \in Paths \ moved : links'[p] = links[p],
           (names = {} /\ paths = {} /\ moved = {}) => UNCHANGED files
    PROVE  BuildInv'
<1> USE DEF BuildInv
<1>1. /\ edited' = edited \cup names
      /\ rewritten' = rewritten \cup paths
      /\ relinked' = relinked \cup moved
      /\ built' = "edit" /\ out' = out
  BY DEF Edit
<1>2. Kept'
  <2> SUFFICES ASSUME out # None, edited' = {}, rewritten' = {}, relinked' = {}
               PROVE  out'.decision = Decision(out.env)'
    BY <1>1 DEF Kept
  <2>1. UNCHANGED files /\ edited = {} /\ rewritten = {} /\ relinked = {}
    BY <1>1
  <2>2. Decision(out.env) = Decision(out.env)'
    <3>1. PICK e : e = out.env
      OBVIOUS
    <3>2. UNCHANGED files /\ out' = out
      BY <1>1, <2>1 DEF files
    <3> QED
      BY <3>1, <3>2, DecisionStays
  <2> QED BY <1>1, <2>1, <2>2 DEF Kept
<1>3. Agreed'
  <2> DEFINE root == out.decision.root
  <2> SUFFICES ASSUME Linked, "header" \notin edited', root \notin relinked',
                      links'[root] \notin rewritten'
               PROVE  Fits(At(root).manifest, out.decision, out.env)'
    BY <1>1 DEF Agreed, Linked, IsLink, Fits, At
  <2>1. "header" \notin edited /\ root \notin relinked /\ header' = header
    BY <1>1
  <2>2. root \in Paths
    BY DEF BuildInv, TypeOK, Linked, IsLink, Outputs
  <2>3. links'[root] = links[root] /\ links[root] \in Paths
    BY <1>1, <2>2 DEF BuildInv, TypeOK, Links
  <2>4. links[root] \notin rewritten
    BY <1>1, <2>3
  <2>5. archive'[links[root]].manifest = archive[links[root]].manifest
    BY <1>1, <2>3
  <2> QED BY <1>1, <2>1, <2>3, <2>4, <2>5 DEF Agreed, Fits, At
<1>4. Wanted' /\ Fresh' /\ LinesStayWhole'
  BY <1>1 DEF Wanted, Linked, IsLink, native_lane_required, Fresh, LinesStayWhole
<1> QED BY <1>2, <1>3, <1>4

LEMMA NextInv == BuildInv /\ [Next]_vars => BuildInv'
<1> SUFFICES ASSUME BuildInv, [Next]_vars PROVE BuildInv'
  OBVIOUS
<1> USE BuildAssumption
<1>0. TypeOK
  BY DEF BuildInv
<1>1. CASE Run
  BY <1>1, RunInv
<1>2. CASE Reuse
  BY <1>2, ReuseInv
<1>3. CASE Vendor
  <2>1. TypeOK'
    BY <1>0, <1>3 DEF TypeOK, Vendor, Edit
  <2> QED BY <1>3, <2>1, EditInv DEF Vendor
<1>4. CASE Pin
  <2>1. TypeOK'
    BY <1>0, <1>4 DEF TypeOK, Pin, Edit
  <2> QED BY <1>4, <2>1, EditInv DEF Pin
<1>5. CASE Declare
  <2>1. TypeOK'
    BY <1>0, <1>5 DEF TypeOK, Declare, Edit
  <2> QED BY <1>5, <2>1, EditInv DEF Declare
<1>6. CASE Unpack
  <2>1. PICK p \in Paths : \E a \in Archives \ {archive[p]} :
          /\ archive' = [archive EXCEPT ![p] = a]
          /\ Edit(IF <<a.lib, a.files>> = <<archive[p].lib, archive[p].files>>
                  THEN {} ELSE {"libraries"},
                  IF a.manifest = archive[p].manifest THEN {} ELSE {p}, {})
    BY <1>6 DEF Unpack
  <2>2. PICK a \in Archives \ {archive[p]} :
          /\ archive' = [archive EXCEPT ![p] = a]
          /\ Edit(IF <<a.lib, a.files>> = <<archive[p].lib, archive[p].files>>
                  THEN {} ELSE {"libraries"},
                  IF a.manifest = archive[p].manifest THEN {} ELSE {p}, {})
    BY <2>1
  <2> DEFINE names == IF <<a.lib, a.files>> = <<archive[p].lib, archive[p].files>>
                      THEN {} ELSE {"libraries"}
             paths == IF a.manifest = archive[p].manifest THEN {} ELSE {p}
  <2>3. UNCHANGED <<header, header_digest, compat, links, cache, env>>
    BY <1>6 DEF Unpack
  <2>4. archive \in [Paths -> Archives]
    BY <1>0 DEF TypeOK
  <2>5. ~(names = {} /\ paths = {})
    BY <2>2, <2>4 DEF Libraries
  <2>6. \A q \in Paths \ paths : archive'[q].manifest = archive[q].manifest
    BY <2>2, <2>4
  <2>7. "header" \notin names
    OBVIOUS
  <2>8. Edit(names, paths, {}) /\ names \subseteq {"libraries"} /\ paths \subseteq Paths
    BY <2>2
  <2>9. archive' \in [Paths -> Archives]
    BY <2>2, <2>4
  <2> HIDE DEF names, paths
  <2>10. TypeOK'
    BY <1>0, <2>3, <2>8, <2>9 DEF TypeOK, Edit
  <2> QED BY <2>3, <2>5, <2>6, <2>7, <2>8, <2>10, EditInv
<1>7. CASE Relink
  <2>1. TypeOK'
    BY <1>0, <1>7 DEF TypeOK, Relink, Edit
  <2>2. \A p \in Paths \ {q \in Paths : links'[q] # links[q]} : links'[p] = links[p]
    OBVIOUS
  <2>3. {q \in Paths : links'[q] # links[q]} # {}
    BY <1>0, <1>7 DEF TypeOK, Relink, Links
  <2> QED BY <1>7, <2>1, <2>2, <2>3, EditInv DEF Relink
<1>8. CASE FillCache
  <2>1. TypeOK'
    BY <1>0, <1>8 DEF TypeOK, FillCache, Edit
  <2> QED BY <1>8, <2>1, EditInv DEF FillCache
<1>9. CASE SetVariable
  <2>1. Edit({}, {}, {}) /\ UNCHANGED files
    BY <1>9 DEF SetVariable
  <2>2. env' \in Environments
    <3>1. env \in Environments
      BY <1>0 DEF TypeOK
    <3>2. CASE \E p \in Paths \cup {None} : env' = [env EXCEPT !.ACADSHARP_NATIVE_DIR = p]
      BY <3>1, <3>2 DEF Environments
    <3>3. CASE \E x \in RequireValues : env' = [env EXCEPT !.ACADSHARP_REQUIRE_NATIVE = x]
      BY <3>1, <3>3 DEF Environments
    <3>4. CASE \E r \in CacheRoots \cup {None} : env' = [env EXCEPT !.CARGO_HOME = r]
      BY <3>1, <3>4 DEF Environments
    <3>5. CASE \E r \in CacheRoots \cup {None} : env' = [env EXCEPT !.HOME = r]
      BY <3>1, <3>5 DEF Environments
    <3>6. CASE env' = [env EXCEPT !.link_static = ~env.link_static]
      BY <3>1, <3>6 DEF Environments
    <3> QED BY <1>9, <3>2, <3>3, <3>4, <3>5, <3>6 DEF SetVariable
  <2>3. TypeOK'
    BY <1>0, <2>1, <2>2 DEF TypeOK, Edit, files
  <2> QED BY <2>1, <2>3, EditInv DEF files
<1>10. CASE UNCHANGED vars
  <2>1. TypeOK'
    BY <1>0, <1>10 DEF TypeOK, vars, files, since
  <2>2. (Decision(out.env) = Decision(out.env)')
    <3>1. PICK e : e = out.env
      OBVIOUS
    <3>2. UNCHANGED files /\ out' = out
      BY <1>10 DEF vars, files
    <3> QED
      BY <3>1, <3>2, DecisionStays
  <2>3. Kept' /\ Agreed' /\ Wanted' /\ Fresh' /\ LinesStayWhole'
    BY <1>10, <2>2 DEF BuildInv, vars, files, since, Kept, Agreed, Linked, IsLink, Fits,
       At, Wanted, native_lane_required, Fresh, IsStale, RerunManifests, LinesStayWhole
  <2> QED BY <2>1, <2>3 DEF BuildInv
<1> QED BY <1>1, <1>2, <1>3, <1>4, <1>5, <1>6, <1>7, <1>8, <1>9, <1>10 DEF Next

LEMMA AlwaysBuildInv == Spec => []BuildInv
<1> QED BY InitInv, NextInv, PTL DEF Spec

-----------------------------------------------------------------------------
(* The theorems *)

\* Types, and a decision kept exactly while the last run did not fail.
THEOREM BuildTypes == Spec => []TypeOK
<1>1. BuildInv => TypeOK
  BY DEF BuildInv
<1> QED BY <1>1, AlwaysBuildInv, PTL

\* A build that succeeds and links has an archive in front of it that names
\* the header as it is now, after any edits and any reuse of decisions, unless
\* the path it was linked by leads elsewhere since.
THEOREM LinkedIsRight == Spec => []LinkedArchiveAgrees
<1>1. BuildInv => LinkedArchiveAgrees
  <2> SUFFICES ASSUME BuildInv, built = "ok", Linked, out.decision.root \notin relinked
               PROVE  Fits(At(out.decision.root).manifest, out.decision, env)
    BY DEF LinkedArchiveAgrees, Fits
  <2>1. ~IsStale
    BY DEF BuildInv, Fresh
  <2>2. "header" \notin edited /\ links[out.decision.root] \notin rewritten
    BY <2>1 DEF IsStale, RERUN_FILES, RerunManifests, Linked, IsLink
  <2>3. env.link_static = out.env.link_static
    BY <2>1 DEF IsStale
  <2> QED BY <2>2, <2>3 DEF BuildInv, Agreed, Fits
<1> QED BY <1>1, AlwaysBuildInv, PTL

\* A build that asks for the native lane never succeeds without it.
THEOREM TheLaneIsHonoured == Spec => []RequiredIsLinked
<1>1. BuildInv => RequiredIsLinked
  <2> SUFFICES ASSUME BuildInv, built = "ok", native_lane_required(env) PROVE Linked
    BY DEF RequiredIsLinked
  <2>1. ~IsStale /\ out # None
    BY DEF BuildInv, Fresh, TypeOK
  <2>2. env.ACADSHARP_REQUIRE_NATIVE = out.env.ACADSHARP_REQUIRE_NATIVE
    BY <2>1 DEF IsStale, RERUN_ENV
  <2> QED BY <2>1, <2>2 DEF BuildInv, Wanted, native_lane_required
<1> QED BY <1>1, AlwaysBuildInv, PTL

\* What is named to cargo is enough for everything but the inputs nobody names.
THEOREM ListingSuffices == Spec => []ListedInputsSuffice
<1>1. BuildInv => ListedInputsSuffice
  <2> SUFFICES ASSUME BuildInv, built = "ok",
                      edited \cap {"compat", "libraries", "cache"} = {}, relinked = {},
                      rewritten \subseteq (IF Linked THEN {links[out.decision.root]} ELSE {}),
                      env.HOME = out.env.HOME
               PROVE  out.decision = Decision(env)
    BY DEF ListedInputsSuffice
  <2>1. ~IsStale /\ out # None /\ TypeOK
    BY DEF BuildInv, Fresh, TypeOK
  <2>2. edited = {}
    BY <2>1 DEF IsStale, RERUN_FILES, TypeOK
  <2>3. rewritten = {}
    BY <2>1 DEF IsStale, RerunManifests, Linked, IsLink
  <2>4. env = out.env
    <3>1. env \in Environments /\ out.env \in Environments
      BY <2>1 DEF TypeOK, Outputs
    <3>2. \A v \in RERUN_ENV \cup {"link_static"} : env[v] = out.env[v]
      BY <2>1 DEF IsStale
    <3>3. /\ env.ACADSHARP_NATIVE_DIR = out.env.ACADSHARP_NATIVE_DIR
          /\ env.ACADSHARP_REQUIRE_NATIVE = out.env.ACADSHARP_REQUIRE_NATIVE
          /\ env.CARGO_HOME = out.env.CARGO_HOME
          /\ env.link_static = out.env.link_static
      BY <3>2 DEF RERUN_ENV
    <3> QED BY <3>1, <3>3 DEF Environments
  <2> QED BY <2>1, <2>2, <2>3, <2>4 DEF BuildInv, Kept
<1> QED BY <1>1, AlwaysBuildInv, PTL

\* No line cargo reads is broken by a path.
THEOREM LinesAreWhole == Spec => []LinesStayWhole
<1>1. BuildInv => LinesStayWhole
  BY DEF BuildInv
<1> QED BY <1>1, AlwaysBuildInv, PTL

\* What a run without the variable decides when the cache holds one archive.
LEMMA CachedDecision ==
    ASSUME TypeOK, NEW e \in Environments, e.ACADSHARP_NATIVE_DIR = None,
           NEW p \in Paths, cached_archives(e) = {p}, cache_root(e) \notin Unprintable
    PROVE  /\ IsLink(Decision(e)) => /\ ExpectationsHold
                                     /\ p \notin Unprintable
                                     /\ Decision(e) = LinkOrFail(p, e)
           /\ ExpectationsHold /\ p \notin Unprintable => Decision(e) = LinkOrFail(p, e)
<1>1. (CHOOSE q \in Paths : cached_archives(e) = {q}) = p
  OBVIOUS
<1>2. resolve_root(e) = IF p \in Unprintable THEN Failed ELSE Found(p)
  BY <1>1 DEF resolve_root, FromCache
<1> QED
  BY <1>2 DEF Decision, IsLink, Failed, Found

\* What is linked through the variable lies where it leads, passes what the
\* cache's route asks, too, and has a lib/ and names that can be printed.
LEMMA ThroughDecision ==
    ASSUME TypeOK, NEW e \in Environments,
           NEW p \in Paths, e.ACADSHARP_NATIVE_DIR = p, p # None
    PROVE  /\ IsLink(Decision(e)) => /\ ExpectationsHold
                                     /\ p \notin Unprintable
                                     /\ Decision(e) = LinkOrFail(links[p], e)
           /\ /\ ExpectationsHold
              /\ p \notin Unprintable /\ links[p] \notin Unprintable
              /\ At(p).lib /\ At(p).manifest # None
              => Decision(e) = LinkOrFail(links[p], e)
<1>1. At(links[p]) = At(p)
  BY DEF TypeOK, Links, At
<1>2. resolve_root(e) =
        IF p \in Unprintable \/ links[p] \in Unprintable THEN Failed
        ELSE IF ~At(p).lib \/ At(p).manifest = None THEN give_up(e)
        ELSE Found(links[p])
  BY <1>1 DEF resolve_root, FromVariable
<1>3. give_up(e) \in {Failed, Stub}
  BY DEF give_up
<1> QED
  BY <1>2, <1>3 DEF Decision, IsLink, Failed, Stub, Found

\* The checks of an archive are those of where its path leads.
LEMMA LinksCheckAlike ==
    ASSUME TypeOK, NEW e \in Environments, NEW f \in Environments,
           e.link_static = f.link_static, NEW p \in Paths
    PROVE  /\ IsLink(LinkOrFail(links[p], f)) =>
                LinkOrFail(p, e) = [LinkOrFail(links[p], f) EXCEPT !.root = p]
           /\ IsLink(LinkOrFail(p, e)) =>
                LinkOrFail(links[p], f) = [LinkOrFail(p, e) EXCEPT !.root = links[p]]
<1>1. At(links[p]) = At(p)
  BY DEF TypeOK, Links, At
<1>2. \A m : choose(m, e) <=> choose(m, f)
  BY DEF choose
<1>3. required_files(e) = required_files(f)
  BY DEF required_files
<1> DEFINE Passes == /\ validate(At(p).manifest) /\ check_archive(At(p).manifest)
                     /\ choose(At(p).manifest, e)
                     /\ required_files(e) \subseteq At(p).files
           verdict == IF e.link_static THEN "static" ELSE "shared"
<1>4. LinkOrFail(p, e) = IF Passes THEN [verdict |-> verdict, root |-> p] ELSE Failed
  BY DEF LinkOrFail
<1>5. LinkOrFail(links[p], f)
        = IF Passes THEN [verdict |-> verdict, root |-> links[p]] ELSE Failed
  BY <1>1, <1>2, <1>3 DEF LinkOrFail
<1> HIDE DEF Passes, verdict
<1> QED
  BY <1>4, <1>5 DEF IsLink, Failed

\* The checks of an archive do not depend on the route it is found by, but for
\* the lib/ and the canonical name, which the variable's route alone looks at.
THEOREM BothRoutesCheck == Spec => []RoutesCheckAlike
<1>1. TypeOK => RoutesCheckAlike
  <2> DEFINE With(p) == [env EXCEPT !.ACADSHARP_NATIVE_DIR = p]
  <2> SUFFICES ASSUME TypeOK, NEW p \in Paths,
                      cached_archives(env) = {p}, cache_root(env) \notin Unprintable
               PROVE  /\ IsLink(Decision(With(p))) =>
                            Decision(With(None)) = [Decision(With(p)) EXCEPT !.root = p]
                      /\ IsLink(Decision(With(None))) =>
                            \/ Decision(With(p)) = [Decision(With(None)) EXCEPT !.root = links[p]]
                            \/ ~At(p).lib
                            \/ links[p] \in Unprintable
    BY DEF RoutesCheckAlike
  <2>1. env \in Environments /\ p # None
    BY BuildAssumption DEF TypeOK
  <2>2. PICK e : e = With(None)
    OBVIOUS
  <2>3. PICK f : f = With(p)
    OBVIOUS
  <2>4. /\ e \in Environments /\ f \in Environments
        /\ e.ACADSHARP_NATIVE_DIR = None /\ f.ACADSHARP_NATIVE_DIR = p
        /\ e.link_static = f.link_static
        /\ cache_root(e) = cache_root(env)
    BY <2>1, <2>2, <2>3 DEF Environments, cache_root
  <2> HIDE DEF With
  <2>5. cached_archives(e) = {p}
    BY <2>4 DEF cached_archives
  <2>6. At(p).manifest # None
    BY DEF cached_archives
  <2>7. /\ IsLink(Decision(e)) =>
             /\ ExpectationsHold /\ p \notin Unprintable
             /\ Decision(e) = LinkOrFail(p, e)
        /\ ExpectationsHold /\ p \notin Unprintable => Decision(e) = LinkOrFail(p, e)
    BY <2>4, <2>5, CachedDecision
  <2>8. /\ IsLink(Decision(f)) => /\ ExpectationsHold
                                  /\ p \notin Unprintable
                                  /\ Decision(f) = LinkOrFail(links[p], f)
        /\ /\ ExpectationsHold
           /\ p \notin Unprintable /\ links[p] \notin Unprintable
           /\ At(p).lib
           => Decision(f) = LinkOrFail(links[p], f)
    BY <2>1, <2>4, <2>6, ThroughDecision
  <2>9. /\ IsLink(LinkOrFail(links[p], f)) =>
             LinkOrFail(p, e) = [LinkOrFail(links[p], f) EXCEPT !.root = p]
        /\ IsLink(LinkOrFail(p, e)) =>
             LinkOrFail(links[p], f) = [LinkOrFail(p, e) EXCEPT !.root = links[p]]
    BY <2>4, LinksCheckAlike
  <2> QED BY <2>2, <2>3, <2>7, <2>8, <2>9
<1> QED BY <1>1, BuildTypes, PTL
=============================================================================
