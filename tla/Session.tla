------------------------------ MODULE Session ------------------------------
(***************************************************************************)
(* What a caller does around a decode: Decoder::new with its handshake,    *)
(* the buffer sizes, opening a document under Limits, asking for its       *)
(* views, and beginning a decode (src/src/document.rs, and src/src/sys.rs  *)
(* below it).                                                              *)
(*                                                                         *)
(* The library is linked into the program, or it is not; its version and   *)
(* fingerprint are fixed, and every other call of it answers anything its  *)
(* C signature allows.  A member of Fields is what one call writes into an *)
(* out-struct: all that matters is whether two calls wrote the same.       *)
(***************************************************************************)
EXTENDS Integers, Sequences

CONSTANTS
    None,
    EXPECTED_ABI_VERSION, EXPECTED_ABI_FINGERPRINT,
    BATCH_HEADER_LEN, DEFAULT_INITIAL_BATCH_BYTES, DEFAULT_MAX_BATCH_BYTES,
    HostMax,        \* usize::MAX
    U32_MAX,        \* u32::MAX
    Bounds,         \* the names of the bounds in Limits
    Sizes,          \* the buffer sizes a caller may ask for
    LimitsOf,       \* the Limits a caller may open with
    Libraries,      \* the libraries there may be: [version, fingerprint]
    Fields,
    Lengths,        \* the lengths of strings a library may report
    Indices,        \* the views a caller may ask for
    Counts          \* how many views a library may say there are

ASSUME SessionAssumption ==
    /\ BATCH_HEADER_LEN \in Nat \ {0} /\ HostMax \in Nat /\ U32_MAX \in Nat
    /\ DEFAULT_INITIAL_BATCH_BYTES \in Nat /\ DEFAULT_MAX_BATCH_BYTES \in Nat
    /\ BATCH_HEADER_LEN <= DEFAULT_INITIAL_BATCH_BYTES
    /\ "max_block_depth" \in Bounds
    /\ LimitsOf \subseteq [Bounds -> Nat \cup {None}]
    /\ Sizes \subseteq Nat /\ Lengths \subseteq Nat
    /\ Indices \subseteq Nat /\ Counts \subseteq Nat
    /\ None \notin Nat \cup Fields \cup [Bounds -> Nat]

VARIABLES
    linked,         \* cfg(acadsharp_linked)
    library,
    decoder, document, stream,  \* the ones made last, None before
    pc,             \* "idle", or the call of the library that is under way
    index,          \* the view a string is read for; None: the capabilities
    upto,           \* in views(), how many there are; None outside of it
    required,       \* read_string: what the sizing call said
    out,            \* the out-struct
    views,          \* what views() has collected
    crossing,       \* the viprs_acad_limits_v1 an open call is handed
    answer,         \* of the last operation; None while one is under way
    told,           \* history: what the last call about each view said
    limits,         \* history: what the caller opens with
    wish            \* history: the sizes asked for, of the decoder and of the
                    \* document at the time it was opened

constants == <<linked, library>>
values    == <<decoder, document, stream>>
locals    == <<index, upto, required, out, views>>
opening   == <<crossing, limits>>
vars == <<constants, values, pc, locals, opening, answer, told, wish>>

Defaults == [initial |-> DEFAULT_INITIAL_BATCH_BYTES, max |-> DEFAULT_MAX_BATCH_BYTES]

Init ==
    /\ linked \in BOOLEAN
    /\ library \in Libraries
    /\ decoder = None /\ document = None /\ stream = None
    /\ pc = "idle"
    /\ index = None /\ upto = None /\ required = 0 /\ out = None /\ views = << >>
    /\ crossing = None /\ limits = None
    /\ answer = None
    /\ told = << >>
    /\ wish = [decoder |-> Defaults, document |-> Defaults]

-----------------------------------------------------------------------------
(* Codes, and the end of an operation *)

Codes == {"OK", "UNSUPPORTED_FORMAT", "INTERNAL_ERROR", "BUFFER_TOO_SMALL",
          "OUT_OF_MEMORY"}

\* With no library behind them, the calls report a bug and write nothing.
Says == IF linked THEN Codes ELSE {"INTERNAL_ERROR"}

Error(error, range) == [tag |-> "error", error |-> error, range |-> range]
Internal == Error("Internal", None)

from_native_code(code, dwg) ==
    CASE code = "UNSUPPORTED_FORMAT" -> Error("UnsupportedFormat", dwg)
      [] code \in {"INTERNAL_ERROR", "BUFFER_TOO_SMALL"} -> Internal
      [] OTHER -> Error(code, None)

\* The range a refusal of the call under way names: nothing is known of it
\* while the capabilities are asked for.
Dwg == CASE pc = "open" -> decoder.dwg
         [] pc \in {"count", "begin"} \/ index # None -> document.dwg
         [] OTHER -> None

Returns(a) ==
    /\ pc' = "idle"
    /\ answer' = a
    /\ index' = None /\ upto' = None /\ required' = 0 /\ out' = None /\ views' = << >>
    /\ crossing' = None /\ limits' = None

Refuses(error) == Returns(error) /\ told' = << >> /\ UNCHANGED <<values, wish>>

\* An operation whose first call is call.
Asks(call) ==
    /\ pc' = call
    /\ answer' = None
    /\ told' = << >>
    /\ UNCHANGED <<values, wish>>

-----------------------------------------------------------------------------
(* Decoder::new *)

\* Slip: one number that agrees is enough.
HeaderMatches_Either(version, fingerprint) ==
    version = EXPECTED_ABI_VERSION \/ fingerprint = EXPECTED_ABI_FINGERPRINT

HeaderMatches(version, fingerprint) ==
    version = EXPECTED_ABI_VERSION /\ fingerprint = EXPECTED_ABI_FINGERPRINT

New ==
    /\ pc = "idle"
    /\ \/ ~linked /\ Refuses(Error("Unlinked", None))
       \/ linked /\ Asks("handshake") /\ UNCHANGED <<locals, opening>>
    /\ UNCHANGED constants

\* The two calls that take no arguments, compared, and the way on to the
\* capabilities.
Handshake ==
    /\ pc = "handshake"
    /\ IF HeaderMatches(library.version, library.fingerprint)
       THEN pc' = "sizing" /\ UNCHANGED <<values, locals, opening, answer, told, wish>>
       ELSE Refuses(Error("HeaderMismatch", None))
    /\ UNCHANGED constants

NewDecoder(fields) ==
    /\ decoder' = [dwg |-> fields, initial_batch_bytes |-> DEFAULT_INITIAL_BATCH_BYTES,
                   max_batch_bytes |-> DEFAULT_MAX_BATCH_BYTES]
    /\ wish' = [wish EXCEPT !.decoder = Defaults]
    /\ Returns([tag |-> "decoder"])
    /\ UNCHANGED <<document, stream, told>>

-----------------------------------------------------------------------------
(* The buffer sizes *)

WithInitial(bytes) ==
    /\ pc = "idle" /\ decoder # None
    /\ decoder' = [decoder EXCEPT !.initial_batch_bytes =
                      IF bytes < BATCH_HEADER_LEN THEN BATCH_HEADER_LEN ELSE bytes]
    /\ wish' = [wish EXCEPT !.decoder.initial = bytes]
    /\ UNCHANGED <<constants, document, stream, pc, locals, opening, answer, told>>

WithMax(bytes) ==
    /\ pc = "idle" /\ decoder # None
    /\ decoder' = [decoder EXCEPT !.max_batch_bytes = bytes]
    /\ wish' = [wish EXCEPT !.decoder.max = bytes]
    /\ UNCHANGED <<constants, document, stream, pc, locals, opening, answer, told>>

max_batch_bytes(d) ==
    IF d.max_batch_bytes < BATCH_HEADER_LEN THEN BATCH_HEADER_LEN ELSE d.max_batch_bytes

\* Slip: the number that was set, whatever the ceiling.
initial_batch_bytes_Raw(d) == d.initial_batch_bytes

initial_batch_bytes(d) ==
    IF d.initial_batch_bytes > max_batch_bytes(d) THEN max_batch_bytes(d)
    ELSE d.initial_batch_bytes

-----------------------------------------------------------------------------
(* Document::open_path and open_bytes *)

\* Slip: the depth is cut to the width of its field.
limits_struct_Cut(l) ==
    [b \in Bounds |-> IF l[b] = None THEN 0
                      ELSE IF b = "max_block_depth" THEN l[b] % (U32_MAX + 1)
                      ELSE l[b]]

\* None when the one bound that is declared narrower does not fit.
limits_struct(l) ==
    IF l["max_block_depth"] # None /\ l["max_block_depth"] > U32_MAX THEN None
    ELSE [b \in Bounds |-> IF l[b] = None THEN 0 ELSE l[b]]

Open ==
    /\ pc = "idle" /\ decoder # None
    /\ \/ \E error \in {"PathNotUtf8", "EmptyInput"} : Refuses(Error(error, None))
       \/ \E l \in LimitsOf :
             \/ limits_struct(l) = None /\ Refuses(Error("InvalidArgument", None))
             \/ /\ limits_struct(l) # None
                /\ Asks("open")
                /\ crossing' = limits_struct(l)
                /\ limits' = l
                /\ UNCHANGED locals
    /\ UNCHANGED constants

\* A document carries the sizes already reconciled with each other.
wrap(d) == [dwg |-> d.dwg, initial_batch_bytes |-> initial_batch_bytes(d),
            max_batch_bytes |-> max_batch_bytes(d)]

Opened ==
    /\ pc = "open"
    /\ \E code \in Says, null \in BOOLEAN :
          \/ code # "OK" /\ Refuses(from_native_code(code, Dwg))
          \/ code = "OK" /\ null /\ Refuses(Internal)
          \/ /\ code = "OK" /\ ~null
             /\ document' = wrap(decoder)
             /\ stream' = None
             /\ wish' = [wish EXCEPT !.document = wish.decoder]
             /\ Returns([tag |-> "document"])
             /\ UNCHANGED <<decoder, told>>
    /\ UNCHANGED constants

-----------------------------------------------------------------------------
(* The views of a document *)

\* view_count(), and views(), which begins with it.
Count ==
    /\ pc = "idle" /\ document # None
    /\ Asks("count")
    /\ upto' \in {None, 0}
    /\ UNCHANGED <<constants, index, required, out, views, opening>>

Counted ==
    /\ pc = "count"
    /\ \E code \in Says, count \in Counts :
          \/ code # "OK" /\ Refuses(from_native_code(code, Dwg))
          \/ /\ code = "OK" /\ upto = None
             /\ Returns([tag |-> "count"]) /\ UNCHANGED <<values, told, wish>>
          \/ /\ code = "OK" /\ upto # None /\ count = 0
             /\ Returns([tag |-> "views", first |-> 0, count |-> 0, views |-> << >>])
             /\ UNCHANGED <<values, told, wish>>
          \/ /\ code = "OK" /\ upto # None /\ count > 0
             /\ pc' = "sizing" /\ index' = 0 /\ upto' = count
             /\ UNCHANGED <<values, required, out, views, opening, answer, told, wish>>
    /\ UNCHANGED constants

View(i) ==
    /\ pc = "idle" /\ document # None
    /\ Asks("sizing")
    /\ index' = i
    /\ UNCHANGED <<constants, upto, required, out, views, opening>>

\* One view was described; views() goes on to the next.
ViewFromRaw(view, said) ==
    /\ told' = Append(told, said)
    /\ \/ upto = None /\ Returns([tag |-> "views", first |-> index, count |-> 1, views |-> <<view>>])
       \/ /\ upto # None /\ index + 1 = upto
          /\ Returns([tag |-> "views", first |-> 0, count |-> upto,
                      views |-> Append(views, view)])
       \/ /\ upto # None /\ index + 1 # upto
          /\ pc' = "sizing" /\ index' = index + 1 /\ required' = 0 /\ out' = None
          /\ views' = Append(views, view)
          /\ UNCHANGED <<upto, opening, answer>>
    /\ UNCHANGED <<values, wish>>

-----------------------------------------------------------------------------
(* The two calls of read_string.  A library that answers OK has written the  *)
(* struct, and what it lent a buffer for.                                    *)

\* fields is what the struct holds now and length how long the string is;
\* said is what the call that has just returned said.
Described(fields, length, said) ==
    \/ index = None /\ NewDecoder(fields)
    \/ index # None /\ ViewFromRaw([fields |-> fields, length |-> length], said)

\* Slip: a length is taken for one this host can hold.
Sizing_Cast ==
    /\ pc = "sizing"
    /\ \E code \in Says, fields \in Fields, length \in Lengths :
          \/ code # "OK" /\ Refuses(from_native_code(code, Dwg))
          \/ /\ code = "OK" /\ length = 0
             /\ Described(fields, 0, [index |-> index, fields |-> fields, length |-> length])
          \/ /\ code = "OK" /\ length > 0
             /\ pc' = "filling" /\ required' = length /\ out' = fields
             /\ UNCHANGED <<values, index, upto, views, opening, answer, told, wish>>
    /\ UNCHANGED constants

\* A null buffer with a capacity of zero.
Sizing ==
    /\ pc = "sizing"
    /\ \E code \in Says, fields \in Fields, length \in Lengths :
          \/ code # "OK" /\ Refuses(from_native_code(code, Dwg))
          \/ code = "OK" /\ length > HostMax /\ Refuses(Internal)
          \/ /\ code = "OK" /\ length = 0
             /\ Described(fields, 0, [index |-> index, fields |-> fields, length |-> length])
          \/ /\ code = "OK" /\ length \in 1 .. HostMax
             /\ pc' = "filling" /\ required' = length /\ out' = fields
             /\ UNCHANGED <<values, index, upto, views, opening, answer, told, wish>>
    /\ UNCHANGED constants

\* Slip: the fields are taken out of the struct before the second call.
Filling_Early ==
    /\ pc = "filling"
    /\ \E code \in Says, fields \in Fields, length \in Lengths :
          \/ code # "OK" /\ Refuses(from_native_code(code, Dwg))
          \/ code = "OK" /\ length # required /\ Refuses(Internal)
          \/ /\ code = "OK" /\ length = required
             /\ Described(out, required,
                          [index |-> index, fields |-> fields, length |-> length])
    /\ UNCHANGED constants

\* A buffer of exactly the length the first call asked for.
Filling ==
    /\ pc = "filling"
    /\ \E code \in Says, fields \in Fields, length \in Lengths, utf8 \in BOOLEAN :
          \/ code # "OK" /\ Refuses(from_native_code(code, Dwg))
          \/ code = "OK" /\ (length # required \/ ~utf8) /\ Refuses(Internal)
          \/ /\ code = "OK" /\ length = required /\ utf8
             /\ Described(fields, required,
                          [index |-> index, fields |-> fields, length |-> length])
    /\ UNCHANGED constants

-----------------------------------------------------------------------------
(* Document::decode *)

\* What Core::new makes of the two sizes.
CoreNew(initial, max) ==
    LET ceiling == IF max < BATCH_HEADER_LEN THEN BATCH_HEADER_LEN ELSE max
    IN  [max_batch_bytes |-> ceiling,
         initial_batch_bytes |-> IF initial < BATCH_HEADER_LEN THEN BATCH_HEADER_LEN
                                 ELSE IF initial > ceiling THEN ceiling ELSE initial]

Decode ==
    /\ pc = "idle" /\ document # None
    /\ Asks("begin")
    /\ UNCHANGED <<constants, locals, opening>>

Begun ==
    /\ pc = "begin"
    /\ \E code \in Says, null \in BOOLEAN :
          \/ code # "OK" /\ Refuses(from_native_code(code, Dwg))
          \/ code = "OK" /\ null /\ Refuses(Internal)
          \/ /\ code = "OK" /\ ~null
             /\ stream' = CoreNew(document.initial_batch_bytes, document.max_batch_bytes)
             /\ Returns([tag |-> "stream"])
             /\ UNCHANGED <<decoder, document, told, wish>>
    /\ UNCHANGED constants

-----------------------------------------------------------------------------
Caller  == \/ New \/ Open \/ Count \/ Decode
           \/ \E bytes \in Sizes : WithInitial(bytes) \/ WithMax(bytes)
           \/ \E i \in Indices : View(i)
Library == Handshake \/ Opened \/ Counted \/ Sizing \/ Filling \/ Begun

Next == Caller \/ Library

Spec == Init /\ [][Next]_vars
-----------------------------------------------------------------------------
(* Properties *)

Calls == {"handshake", "open", "count", "sizing", "filling", "begin"}

Sized == [dwg : Fields, initial_batch_bytes : Nat, max_batch_bytes : Nat]
Told  == [index : Nat, fields : Fields, length : Nat]
Views == [fields : Fields, length : Nat]

SessionTypeOK ==
    /\ linked \in BOOLEAN /\ library \in Libraries
    /\ decoder \in Sized \cup {None} /\ document \in Sized \cup {None}
    /\ pc \in Calls \cup {"idle"}
    /\ index \in Nat \cup {None} /\ upto \in Nat \cup {None}
    /\ required \in 0 .. HostMax
    /\ told \in Seq(Told) /\ views \in Seq(Views)
    /\ wish \in [{"decoder", "document"} -> [{"initial", "max"} -> Nat]]

Matched ==
    /\ linked
    /\ library.version = EXPECTED_ABI_VERSION
    /\ library.fingerprint = EXPECTED_ABI_FINGERPRINT

\* Whatever was made was made behind a handshake, and is there for the call
\* that needs it; a buffer that is lent holds something.
Trusted ==
    /\ pc # "idle" => linked
    /\ pc \notin {"idle", "handshake"} \/ decoder # None \/ document # None => Matched
    /\ pc = "open" => decoder # None
    /\ pc \in {"count", "begin"} \/ index # None \/ stream # None => document # None
    /\ pc = "filling" => required > 0

\* The fields behind the getters: a start below the header is raised at once, a
\* ceiling when it is read.
RawSizes ==
    decoder # None =>
        /\ decoder.max_batch_bytes = wish.decoder.max
        /\ decoder.initial_batch_bytes =
              IF wish.decoder.initial < BATCH_HEADER_LEN THEN BATCH_HEADER_LEN
              ELSE wish.decoder.initial

\* views() has described the views below index, each by what its last call said.
ViewsSoFar ==
    /\ pc \notin {"count", "sizing", "filling"} => index = None /\ upto = None
    /\ pc = "count" => index = None
    /\ index = None \/ upto = None => views = << >> /\ (pc # "idle" => told = << >>)
    /\ index # None /\ upto # None =>
          /\ index < upto
          /\ Len(views) = index /\ Len(told) = index
          /\ \A i \in 1 .. index :
                /\ told[i].index = i - 1
                /\ views[i] = [fields |-> told[i].fields, length |-> told[i].length]
    /\ pc # "idle" => answer = None

\* "Call this before anything else that touches the library": but for the two
\* calls that take no arguments, nothing of a library is called that is not
\* linked, or that was built from another header, whichever number differs.
NothingBeforeTheHandshake ==
    /\ pc # "idle" => linked
    /\ pc \notin {"idle", "handshake"} =>
          /\ library.version = EXPECTED_ABI_VERSION
          /\ library.fingerprint = EXPECTED_ABI_FINGERPRINT

\* What the two sizes amount to, in whichever order they were set and how often.
Reconciled(w) ==
    LET ceiling == IF w.max < BATCH_HEADER_LEN THEN BATCH_HEADER_LEN ELSE w.max
        start   == IF w.initial < BATCH_HEADER_LEN THEN BATCH_HEADER_LEN ELSE w.initial
    IN  [max |-> ceiling, initial |-> IF start < ceiling THEN start ELSE ceiling]

\* What the getters of a Decoder report is what a stream starts with: the
\* ceiling wins, the header fits, and a document keeps what its decoder had
\* been set to when it was opened, whatever is set or opened in between.
SizesAreAsReported ==
    /\ decoder # None =>
          [max |-> max_batch_bytes(decoder), initial |-> initial_batch_bytes(decoder)]
             = Reconciled(wish.decoder)
    /\ document # None =>
          [max |-> document.max_batch_bytes, initial |-> document.initial_batch_bytes]
             = Reconciled(wish.document)
    /\ stream # None =>
          [max |-> stream.max_batch_bytes, initial |-> stream.initial_batch_bytes]
             = Reconciled(wish.document)

\* A bound crosses as what the caller set or not at all: never as a smaller one,
\* and as the zero that leaves it to the library only when that was set.
LimitsArriveWhole ==
    pc = "open" =>
        /\ crossing["max_block_depth"] <= U32_MAX
        /\ \A b \in Bounds : crossing[b] = IF limits[b] = None THEN 0 ELSE limits[b]

\* The views an operation answers are all that were asked for, in order; the fields and
\* the name of each were written by one and the same call, and the name is as
\* long as that call said.
DescriptionsAreWhole ==
    answer # None /\ answer.tag = "views" =>
        /\ Len(answer.views) = answer.count /\ Len(told) = answer.count
        /\ \A i \in 1 .. answer.count :
              /\ told[i].index = answer.first + i - 1
              /\ answer.views[i] = [fields |-> told[i].fields, length |-> told[i].length]

\* All of it, as the induction needs it.
SessionInv ==
    /\ SessionTypeOK
    /\ Trusted
    /\ RawSizes
    /\ ViewsSoFar
    /\ NothingBeforeTheHandshake
    /\ SizesAreAsReported
    /\ LimitsArriveWhole
    /\ DescriptionsAreWhole
=============================================================================
