---------------------------- MODULE Declaration ----------------------------
(***************************************************************************)
(* How the build script reads: the vendored header (src/build/header.rs),  *)
(* COMPAT.toml beside it, and an archive's versions against the            *)
(* declaration (src/build/compat.rs).  BuildScript has the decisions that  *)
(* rest on what is read here.                                              *)
(*                                                                         *)
(* A text is a sequence of symbols.  Most are one character; a key, and    *)
(* a #define with its name and value, are one symbol each.  White space,   *)
(* which every rule trims, is left out.                                    *)
(***************************************************************************)
EXTENDS Integers, FiniteSets, SequencesExt

CONSTANTS
    None,
    U32_MAX,        \* u32::MAX
    DigestLen,      \* characters of a SHA-256 digest in hexadecimal
    Defines,        \* the symbols that are a #define: [name, value] of each,
                    \* with no value for an include guard
    Worlds          \* what the script may find: [header, digest, declaration,
                    \* artifact_version, acadsharp_version], and what was meant
                    \* by the declaration (written; None if it is at fault)

ASSUME NoneAssumption == None \notin Nat \cup BOOLEAN \cup Seq(STRING)

\* The end of a line is no #define.
ASSUME DefinesAssumption == "nl" \notin DOMAIN Defines

VARIABLES
    world,
    phase,          \* "header", "declaration", "glob", or how it ended
    i, in_comment, out,         \* strip_block_comments: its locals
    defined,                    \* what the header defines
    line, compat,               \* Compat::parse: the next line, the five slots
    p, v, star, resume,         \* glob_matches: its locals
    matched                     \* and what it returned

reading  == <<i, in_comment, out, defined>>
parsing  == <<line, compat>>
matching == <<p, v, star, resume, matched>>
vars == <<world, phase, reading, parsing, matching>>

NAMES == {"VIPRS_ACAD_ABI_VERSION", "VIPRS_ACAD_WIRE_VERSION"}
KEYS  == {"abi_version", "wire_version", "abi_header_sha256",
          "native_artifact_versions", "acadsharp_versions"}

\* A #define whose value is no decimal number.
NotDecimal == "#define 0x"

Quote == "quote"
Escape == "backslash"
DIGITS == {"0", "1", "2", "5", "6"}
HEX == DIGITS \cup {"a", "b"}

Init ==
    /\ world \in Worlds
    /\ phase = "header"
    /\ i = 1 /\ in_comment = FALSE /\ out = << >> /\ defined = None
    /\ line = 1 /\ compat = [k \in KEYS |-> None]
    /\ p = 0 /\ v = 0 /\ star = None /\ resume = 0 /\ matched = None

Refuse == phase' = "refused" /\ UNCHANGED <<world, reading, parsing, matching>>

-----------------------------------------------------------------------------
(* The header *)

At(s, n, symbol) == n <= Len(s) /\ s[n] = symbol
Opens(s, n)  == At(s, n, "/") /\ At(s, n + 1, "*")
Closes(s, n) == At(s, n, "*") /\ At(s, n + 1, "/")

\* A turn of the loop of strip_block_comments.
StripComments ==
    /\ phase = "header" /\ i <= Len(world.header)
    /\ LET h == world.header
       IN  \/ /\ in_comment /\ Closes(h, i)
              /\ i' = i + 2 /\ in_comment' = FALSE /\ out' = out
           \/ /\ in_comment /\ ~Closes(h, i)
              /\ i' = i + 1 /\ in_comment' = TRUE
              /\ out' = IF h[i] = "nl" THEN Append(out, "nl") ELSE out
           \/ /\ ~in_comment /\ Opens(h, i)
              /\ i' = i + 2 /\ in_comment' = TRUE /\ out' = out
           \/ /\ ~in_comment /\ ~Opens(h, i)
              /\ i' = i + 1 /\ in_comment' = FALSE /\ out' = Append(out, h[i])
    /\ UNCHANGED <<world, phase, defined, parsing, matching>>

\* The symbols that begin a line of s.
Starts(s) == {n \in DOMAIN s : n = 1 \/ s[n - 1] = "nl"}

First(S) == CHOOSE n \in S : \A m \in S : n <= m

\* Where s defines something: a line that begins with a #define of a value.
integer_defines(s) ==
    {n \in Starts(s) : s[n] \in DOMAIN Defines /\ Defines[s[n]].value # None}

\* Slip: the first of several is as good as any.
integer_define_First(s, name) ==
    LET found == {n \in integer_defines(s) : Defines[s[n]].name = name}
    IN  IF found # {} THEN Defines[s[First(found)]].value ELSE None

integer_define(s, name) ==
    LET found == {n \in integer_defines(s) : Defines[s[n]].name = name}
    IN  IF \E n \in found : found = {n} THEN Defines[s[First(found)]].value ELSE None

u32_define(s, name) ==
    LET value == integer_define(s, name)
    IN  IF value # None /\ value > U32_MAX THEN None ELSE value

\* The header is read to its end; then both versions are taken out of it.
ReadDefines ==
    /\ phase = "header" /\ i > Len(world.header)
    /\ LET values == [name \in NAMES |-> u32_define(out, name)]
           bad    == \/ in_comment
                     \/ \E n \in Starts(out) : out[n] = NotDecimal
                     \/ \E name \in NAMES : values[name] = None
       IN  \/ bad /\ Refuse
           \/ /\ ~bad
              /\ defined' = values
              /\ phase' = "declaration"
              /\ UNCHANGED <<world, i, in_comment, out, parsing, matching>>

-----------------------------------------------------------------------------
(* The declaration: what one line says *)

Quoted(s, n) == Cardinality({m \in 1 .. n - 1 : s[m] = Quote}) % 2 = 1

\* None where a string is opened that is never closed.
strip_comment(s) ==
    LET hashes == {n \in DOMAIN s : s[n] = "#" /\ ~Quoted(s, n)}
    IN  IF hashes # {} THEN SubSeq(s, 1, First(hashes) - 1)
        ELSE IF Quoted(s, Len(s) + 1) THEN None
        ELSE s

Digit == [d \in DIGITS |-> CHOOSE n \in 0 .. 9 : ToString(n) = d]
Number(s) == FoldLeft(LAMBDA n, d : 10 * n + Digit[d], 0, s)

Every(s, S) == \A n \in DOMAIN s : s[n] \in S

integer(s) ==
    IF s = << >> \/ ~Every(s, DIGITS) \/ Number(s) > U32_MAX THEN None ELSE Number(s)

string(s) ==
    LET unquoted == SubSeq(s, 2, Len(s) - 1)
    IN  IF /\ Len(s) >= 2 /\ s[1] = Quote /\ s[Len(s)] = Quote
           /\ \A n \in DOMAIN unquoted : unquoted[n] \notin {Quote, Escape}
        THEN unquoted ELSE None

digest(s) ==
    LET text == string(s)
    IN  IF text # None /\ Len(text) = DigestLen /\ Every(text, HEX) THEN text ELSE None

\* What lies between the separators of s, and between those and its ends.
split(s, separator) ==
    LET ends == {0, Len(s) + 1} \cup {n \in DOMAIN s : s[n] = separator}
        gaps == {gap \in ends \X ends :
                    gap[1] < gap[2] /\ ~\E n \in ends : gap[1] < n /\ n < gap[2]}
    IN  {SubSeq(s, gap[1] + 1, gap[2] - 1) : gap \in gaps}

\* The strings of an array.  All that is asked of the list is what it contains.
string_array(s) ==
    LET body == SubSeq(s, 2, Len(s) - 1)
        read == {string(item) : item \in split(body, ",") \ {<< >>}}
    IN  IF /\ Len(s) >= 2 /\ s[1] = "[" /\ s[Len(s)] = "]"
           /\ None \notin read
        THEN read ELSE None

ValueOf(key, s) ==
    CASE key \in {"abi_version", "wire_version"} -> integer(s)
      [] key = "abi_header_sha256"               -> digest(s)
      [] key = "native_artifact_versions"        -> string(s)
      [] key = "acadsharp_versions"              -> string_array(s)

-----------------------------------------------------------------------------
(* What a declaration means, whoever reads it *)

\* The ways to take a line apart into what it says and a comment, or nothing, behind it.
Sayings(s) == {SubSeq(s, 1, n) : n \in {n \in 0 .. Len(s) : n < Len(s) => s[n + 1] = "#"}}

Tells(s, key, said) ==
    \E t \in Sayings(s) :
        /\ Len(t) >= 2 /\ t[1] = key /\ t[2] = "="
        /\ said = ValueOf(key, SubSeq(t, 3, Len(t))) /\ said # None

\* Each line tells a key or nothing, and each key is told by one line.
Means(lines, said) ==
    /\ said = [key \in KEYS |-> said[key]]
    /\ \A n \in DOMAIN lines :
          << >> \in Sayings(lines[n]) \/ \E key \in KEYS : Tells(lines[n], key, said[key])
    /\ \A key \in KEYS :
          \E n \in DOMAIN lines :
              \A m \in DOMAIN lines : Tells(lines[m], key, said[key]) <=> m = n
    /\ said["native_artifact_versions"] # << >> /\ said["acadsharp_versions"] # {}

\* What the lines might mean: for each key something that is told of it.
Meanings(lines) ==
    LET all        == UNION {Sayings(lines[n]) : n \in DOMAIN lines}
        texts(key) == {t \in all : Len(t) >= 2 /\ t[1] = key}
        told       == {f \in [KEYS -> UNION {texts(key) : key \in KEYS}] :
                          \A key \in KEYS : f[key] \in texts(key)}
    IN  {[key \in KEYS |-> ValueOf(key, SubSeq(f[key], 3, Len(f[key])))] : f \in told}

\* Texts are sequences, the lines of a declaration a sequence of them, and what was
\* meant by it is what it means.
ASSUME WorldsAssumption ==
    \A w \in Worlds :
        /\ w.header \in Seq(STRING)
        /\ w.declaration \in Seq(Seq(STRING))
        /\ w.artifact_version \in Seq(STRING)
        /\ w.written # None => Means(w.declaration, w.written)
        /\ w.written = None => \A said \in Meanings(w.declaration) : ~Means(w.declaration, said)

-----------------------------------------------------------------------------
(* The declaration: all of it *)

\* Slip: the second of two lines wins.
IsFree_Always(key) == TRUE

\* set() fills a slot once.
IsFree(key) == compat[key] = None

\* A line that sets its key: everything before the first equals sign.
Key(s)  == s[1]
Rest(s) == SubSeq(s, 3, Len(s))
Sets(s) ==
    /\ s # None /\ Len(s) >= 2 /\ s[1] \in KEYS /\ s[2] = "="
    /\ ValueOf(Key(s), Rest(s)) # None
    /\ IsFree(Key(s))

\* A turn of the loop of Compat::parse; a line it can make nothing of ends the build.
ReadLine ==
    /\ phase = "declaration" /\ line <= Len(world.declaration)
    /\ LET s == strip_comment(world.declaration[line])
       IN  \/ /\ s = << >>
              /\ line' = line + 1
              /\ UNCHANGED <<world, phase, reading, compat, matching>>
           \/ /\ Sets(s)
              /\ compat' = [compat EXCEPT ![Key(s)] = ValueOf(Key(s), Rest(s))]
              /\ line' = line + 1
              /\ UNCHANGED <<world, phase, reading, matching>>
           \/ s # << >> /\ ~Sets(s) /\ Refuse

\* All five keys, none of them a declaration that covers nothing, and what is
\* declared is what the header says.
check_against_header ==
    /\ compat["abi_version"] = defined["VIPRS_ACAD_ABI_VERSION"]
    /\ compat["wire_version"] = defined["VIPRS_ACAD_WIRE_VERSION"]
    /\ compat["abi_header_sha256"] = world.digest

Complete ==
    /\ \A key \in KEYS : compat[key] # None
    /\ compat["native_artifact_versions"] # << >> /\ compat["acadsharp_versions"] # {}

CheckHeader ==
    /\ phase = "declaration" /\ line > Len(world.declaration)
    /\ \/ ~(Complete /\ check_against_header) /\ Refuse
       \/ /\ Complete /\ check_against_header
          /\ phase' = "glob"
          /\ UNCHANGED <<world, reading, parsing, matching>>

-----------------------------------------------------------------------------
(* An archive's versions *)

pattern == compat["native_artifact_versions"]
value   == world.artifact_version

\* Slip: the rest is tried again where it failed.
Backtrack_Ahead == p' = star + 1 /\ resume' = v + 1 /\ v' = v + 1

\* Slip: the star swallows nothing.
Backtrack_Same == p' = star + 1 /\ resume' = resume /\ v' = resume

\* The last star swallows one more and the rest is tried again from there.
Backtrack == p' = star + 1 /\ resume' = resume + 1 /\ v' = resume + 1

\* A turn of the first loop of glob_matches.
GlobTurn ==
    /\ phase = "glob" /\ v < Len(value)
    /\ \/ /\ At(pattern, p + 1, "*")
          /\ star' = p /\ p' = p + 1 /\ resume' = v /\ v' = v
          /\ UNCHANGED <<phase, matched>>
       \/ /\ ~At(pattern, p + 1, "*") /\ At(pattern, p + 1, value[v + 1])
          /\ p' = p + 1 /\ v' = v + 1
          /\ UNCHANGED <<phase, star, resume, matched>>
       \/ /\ ~At(pattern, p + 1, "*") /\ ~At(pattern, p + 1, value[v + 1])
          /\ star # None
          /\ Backtrack
          /\ UNCHANGED <<phase, star, matched>>
       \/ /\ ~At(pattern, p + 1, "*") /\ ~At(pattern, p + 1, value[v + 1])
          /\ star = None
          /\ matched' = FALSE /\ phase' = "refused"
          /\ UNCHANGED <<p, v, star, resume>>
    /\ UNCHANGED <<world, reading, parsing>>

\* The second loop, the answer, and the list of upstream versions.
GlobEnd ==
    /\ phase = "glob" /\ v >= Len(value)
    /\ \/ /\ At(pattern, p + 1, "*")
          /\ p' = p + 1
          /\ UNCHANGED <<phase, matched>>
       \/ /\ ~At(pattern, p + 1, "*")
          /\ matched' = (p = Len(pattern))
          /\ phase' = IF /\ p = Len(pattern)
                         /\ world.acadsharp_version \in compat["acadsharp_versions"]
                      THEN "accepted" ELSE "refused"
          /\ p' = p
    /\ UNCHANGED <<world, reading, parsing, v, star, resume>>

-----------------------------------------------------------------------------
Ended == phase \in {"accepted", "refused"} /\ UNCHANGED vars

Turn == StripComments \/ ReadDefines \/ ReadLine \/ CheckHeader \/ GlobTurn \/ GlobEnd

Next == Turn \/ Ended

Spec == Init /\ [][Next]_vars
-----------------------------------------------------------------------------
(* Properties *)

\* The comments of a header: an opener is one unless a comment before it has
\* not ended there.
Closer(s, n) == LET ends == {m \in n + 2 .. Len(s) : Closes(s, m)}
                IN  IF ends = {} THEN Len(s) ELSE First(ends) + 1
Openers(s) == CHOOSE S \in SUBSET {n \in DOMAIN s : Opens(s, n)} :
                  \A n \in DOMAIN s :
                      n \in S <=> /\ Opens(s, n)
                                 /\ ~\E m \in S : m < n /\ n <= Closer(s, m)
Commented(s) == UNION {n .. Closer(s, n) : n \in Openers(s)}

\* The definitions that count: outside of every comment, with nothing but
\* comments before them on their lines.
Live(s) ==
    LET commented == Commented(s)
    IN  {n \in DOMAIN s \ commented :
            /\ s[n] \in DOMAIN Defines /\ Defines[s[n]].value # None
            /\ \E m \in 0 .. n - 1 :
                  /\ m = 0 \/ s[m] = "nl"
                  /\ m + 1 .. n - 1 \subseteq commented}

IsTheLiveOne(name) ==
    \E n \in Live(world.header) :
        /\ Defines[world.header[n]].name = name
        /\ defined[name] = Defines[world.header[n]].value
        /\ \A k \in Live(world.header) : Defines[world.header[k]].name = name => k = n

\* "A header that says a name twice is a header somebody has to fix": each
\* version is the one value of the one definition of its name that no comment
\* hides, wherever comments begin and end, and no header without it gets by.
OnlyLiveDefinitionsCount ==
    defined # None /\ line = 1 => \A name \in NAMES : IsTheLiveOne(name)

\* The declaration that is read is the one that was written: a comment, whatever it
\* holds, takes nothing away and adds nothing, a # in a string is no comment,
\* every key is said once, and nothing else is refused.
ReadsWhatIsWritten ==
    /\ phase = "glob" => compat = world.written
    /\ phase = "refused" /\ defined # None /\ matched = None =>
          \/ world.written = None
          \/ world.written["abi_version"] # defined["VIPRS_ACAD_ABI_VERSION"]
          \/ world.written["wire_version"] # defined["VIPRS_ACAD_WIRE_VERSION"]
          \/ world.written["abi_header_sha256"] # world.digest

\* A glob covers a version when each character of the one stands under a
\* character of the other, in order: under itself, or under a star, which alone
\* may stand above any number.
Covers(glob, version) ==
    \E above \in [DOMAIN version -> DOMAIN glob] :
        /\ \A n \in DOMAIN version : glob[above[n]] \in {"*", version[n]}
        /\ \A n, m \in DOMAIN version :
              n < m => \/ above[n] < above[m]
                       \/ above[n] = above[m] /\ glob[above[n]] = "*"
        /\ \A k \in DOMAIN glob : glob[k] = "*" \/ \E n \in DOMAIN version : above[n] = k

\* "Exact for any number of *", with the one place it goes back to; and the list of
\* upstream versions is asked as well.
GlobIsExact ==
    /\ matched # None => (matched <=> Covers(pattern, value))
    /\ phase = "accepted" =>
          /\ matched
          /\ world.acadsharp_version \in compat["acadsharp_versions"]

\* A turn goes on in its text, or what it goes back by it has paid for by a star that
\* swallows more, within bounds that are fixed.
GetsOn ==
    \/ phase' \in {"accepted", "refused"}
    \/ phase = "header" /\ (phase' = "declaration" \/ (phase' = phase /\ i < i'))
    \/ phase = "declaration"
          /\ (phase' = "glob" \/ (phase' = phase /\ line < line'))
    \/ /\ phase = "glob" /\ phase' = phase
       /\ \/ resume < resume'
          \/ resume = resume' /\ v < v'
          \/ resume = resume' /\ v = v' /\ p < p'
       /\ resume' <= v' /\ v' <= Len(value) /\ p' <= Len(pattern)

\* Nothing keeps the script reading: every turn of its four loops gets on.
EveryTurnGetsOn == [][GetsOn]_vars
=============================================================================
