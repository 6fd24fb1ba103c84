------------------------------ MODULE Handles ------------------------------
(***************************************************************************)
(* Who owns what on the two sides of the C boundary: the handles of        *)
(* src/src/sys.rs, the Document and the PrimitiveStream that hold them     *)
(* (src/src/document.rs, src/src/stream.rs), the flag behind a CancelToken *)
(* (src/src/cancel.rs) and the counters of src/src/diagnostics.rs.         *)
(*                                                                         *)
(* Every thread opens documents of its own, decodes them through any       *)
(* number of streams, and drops what it holds in any order the borrow      *)
(* checker lets it; tokens travel between the threads.  A call of the      *)
(* library, and a drop, are several steps, so that other threads run in    *)
(* between.  Names of handles are used once.                               *)
(***************************************************************************)
EXTENDS Integers, FiniteSets

CONSTANTS
    Threads,
    Documents,      \* the document handles the library may give out
    Decodes,        \* the decode handles it may give out
    Flags,          \* the allocations behind the tokens
    Tokens,         \* names for the CancelToken values that share a flag
    None

ASSUME NamesAssumption ==
    /\ Tokens \cap Decodes = {}
    /\ Documents \cap Decodes = {}
    /\ None \notin Threads \cup Documents \cup Decodes \cup Flags \cup Nat

VARIABLES
    document,       \* "none", "held", or "gone" once its drop is over
    stream,         \* "none", "live", "forgotten" (mem::forget), or "gone"
    at,             \* where a thread is: "idle" or a step of a call or a drop
    on,             \* the handle the thread is busy with
    owner,          \* the thread that opened a document
    of, flag,       \* of a decode: its document, and its flag or None
    arcs,           \* of a flag: who holds an Arc of it; it is freed when
                    \* nobody does
    created,        \* the flags that were allocated
    openDocuments, openDecodes,     \* what is open inside the library
    closes,         \* DOCUMENT_CLOSES and DECODE_CLOSES
    sequence,       \* SEQUENCE
    last,           \* LAST_DOCUMENT_CLOSE and LAST_DECODE_CLOSE
    ticket          \* of a handle: the number its drop drew from SEQUENCE

rust        == <<document, stream, owner, of, flag>>
where       == <<at, on>>
tokens      == <<arcs, created>>
library     == <<openDocuments, openDecodes>>
diagnostics == <<closes, sequence, last, ticket>>
vars == <<rust, where, tokens, library, diagnostics>>

Handles == Documents \cup Decodes

Init ==
    /\ document = [d \in Documents |-> "none"]
    /\ stream = [s \in Decodes |-> "none"]
    /\ at = [t \in Threads |-> "idle"]
    /\ on = [t \in Threads |-> None]
    /\ owner = [d \in Documents |-> None]
    /\ of = [s \in Decodes |-> None]
    /\ flag = [s \in Decodes |-> None]
    /\ arcs = [f \in Flags |-> {}]
    /\ created = {}
    /\ openDocuments = {}
    /\ openDecodes = {}
    /\ closes = [document |-> 0, decode |-> 0]
    /\ sequence = 0
    /\ last = [document |-> 0, decode |-> 0]
    /\ ticket = [h \in Handles |-> None]

Goes(t, from, to) == at[t] = from /\ at' = [at EXCEPT ![t] = to]
Rests(t, from)    == Goes(t, from, "idle") /\ on' = [on EXCEPT ![t] = None]
Starts(t, h, to)  == Goes(t, "idle", to) /\ on' = [on EXCEPT ![t] = h]

-----------------------------------------------------------------------------
(* Document::open_path and open_bytes.  An input that is empty, a path that *)
(* is not UTF-8 or a bound that does not fit is refused without a call.     *)

Open(t, d) ==
    /\ document[d] = "none" /\ owner[d] = None
    /\ Starts(t, d, "open")
    /\ owner' = [owner EXCEPT ![d] = t]
    /\ UNCHANGED <<document, stream, of, flag, tokens, library, diagnostics>>

Opened(t) ==
    /\ Rests(t, "open")
    /\ openDocuments' = openDocuments \cup {on[t]}
    /\ document' = [document EXCEPT ![on[t]] = "held"]
    /\ UNCHANGED <<stream, owner, of, flag, tokens, openDecodes, diagnostics>>

\* A code, or a success without a handle.
NotOpened(t) ==
    /\ Rests(t, "open")
    /\ document' = [document EXCEPT ![on[t]] = "gone"]
    /\ UNCHANGED <<stream, owner, of, flag, tokens, library, diagnostics>>

-----------------------------------------------------------------------------
(* Document::decode and decode_with_cancel *)

\* A CancelToken somebody can lend to decode_with_cancel.
Lent(f) == arcs[f] \cap Tokens # {}

\* sys::decode_begin is handed a clone of the Arc, and the library its address.
Begin(t, d, s, f) ==
    /\ document[d] = "held" /\ owner[d] = t
    /\ stream[s] = "none" /\ of[s] = None
    /\ f # None => Lent(f)
    /\ Starts(t, s, "begin")
    /\ of' = [of EXCEPT ![s] = d]
    /\ flag' = [flag EXCEPT ![s] = f]
    /\ arcs' = [g \in Flags |-> IF g = f THEN arcs[g] \cup {s} ELSE arcs[g]]
    /\ UNCHANGED <<document, stream, owner, created, library, diagnostics>>

\* The Arc that s holds is dropped.
Release(s) == arcs' = [f \in Flags |-> arcs[f] \ {s}]

\* Slip: the handle keeps the address of the flag and not the Arc.
Begun_Addressed(t) ==
    /\ Rests(t, "begin")
    /\ openDecodes' = openDecodes \cup {on[t]}
    /\ stream' = [stream EXCEPT ![on[t]] = "live"]
    /\ Release(on[t])
    /\ UNCHANGED <<document, owner, of, flag, created, openDocuments, diagnostics>>

\* The DecodeHandle keeps the Arc.
Begun(t) ==
    /\ Rests(t, "begin")
    /\ openDecodes' = openDecodes \cup {on[t]}
    /\ stream' = [stream EXCEPT ![on[t]] = "live"]
    /\ UNCHANGED <<document, owner, of, flag, tokens, openDocuments, diagnostics>>

\* A code, or a success without a handle: the clone is dropped.
NotBegun(t) ==
    /\ Rests(t, "begin")
    /\ stream' = [stream EXCEPT ![on[t]] = "gone"]
    /\ Release(on[t])
    /\ UNCHANGED <<document, owner, of, flag, created, library, diagnostics>>

\* DecodeHandle::next_batch, in which the library reads the flag.
Pull(t, s) ==
    /\ stream[s] = "live" /\ owner[of[s]] = t
    /\ Starts(t, s, "pull")
    /\ UNCHANGED <<rust, tokens, library, diagnostics>>

Pulled(t) ==
    /\ Rests(t, "pull")
    /\ UNCHANGED <<rust, tokens, library, diagnostics>>

-----------------------------------------------------------------------------
(* The drop of a stream: note_decode_close, decode_close, and then the      *)
(* fields of the DecodeHandle                                               *)

Kind(h) == IF h \in Documents THEN "document" ELSE "decode"

\* fetch_add on DOCUMENT_CLOSES or DECODE_CLOSES
CountClose(t) ==
    /\ Goes(t, "count", "draw")
    /\ closes' = [closes EXCEPT ![Kind(on[t])] = @ + 1]
    /\ UNCHANGED <<rust, on, tokens, library, sequence, last, ticket>>

\* Slip: documents and decodes are numbered apart.
DrawTicket_OfItsKind(t) ==
    /\ Goes(t, "draw", "note")
    /\ ticket' = [ticket EXCEPT ![on[t]] = closes[Kind(on[t])] - 1]
    /\ UNCHANGED <<rust, on, tokens, library, closes, sequence, last>>

\* fetch_add on SEQUENCE
DrawTicket(t) ==
    /\ Goes(t, "draw", "note")
    /\ ticket' = [ticket EXCEPT ![on[t]] = sequence]
    /\ sequence' = sequence + 1
    /\ UNCHANGED <<rust, on, tokens, library, closes, last>>

\* store to LAST_DOCUMENT_CLOSE or LAST_DECODE_CLOSE
NoteClose(t) ==
    /\ Goes(t, "note", "close")
    /\ last' = [last EXCEPT ![Kind(on[t])] = ticket[on[t]]]
    /\ UNCHANGED <<rust, on, tokens, library, closes, sequence, ticket>>

DropStream(t, s) ==
    /\ stream[s] = "live" /\ owner[of[s]] = t
    /\ Starts(t, s, "count")
    /\ UNCHANGED <<rust, tokens, library, diagnostics>>

\* viprs_acad_decode_close
CloseDecode(t) ==
    /\ on[t] \in Decodes
    /\ Goes(t, "close", "release")
    /\ openDecodes' = openDecodes \ {on[t]}
    /\ UNCHANGED <<rust, on, tokens, openDocuments, diagnostics>>

ReleaseFlag(t) ==
    /\ Rests(t, "release")
    /\ Release(on[t])
    /\ stream' = [stream EXCEPT ![on[t]] = "gone"]
    /\ UNCHANGED <<document, owner, of, flag, created, library, diagnostics>>

\* mem::forget ends the borrow of the document and runs no drop.
ForgetStream(t, s) ==
    /\ at[t] = "idle"
    /\ stream[s] = "live" /\ owner[of[s]] = t
    /\ stream' = [stream EXCEPT ![s] = "forgotten"]
    /\ UNCHANGED <<document, owner, of, flag, where, tokens, library, diagnostics>>

-----------------------------------------------------------------------------
(* The drop of a document *)

\* PrimitiveStream<'doc> borrows the document it came from.
Borrowed(d) == \E s \in Decodes : of[s] = d /\ stream[s] = "live"

\* Slip: a stream does not borrow the document it came from.
DropDocument_Unborrowed(t, d) ==
    /\ document[d] = "held" /\ owner[d] = t
    /\ Starts(t, d, "count")
    /\ UNCHANGED <<rust, tokens, library, diagnostics>>

DropDocument(t, d) ==
    /\ document[d] = "held" /\ owner[d] = t
    /\ ~Borrowed(d)
    /\ Starts(t, d, "count")
    /\ UNCHANGED <<rust, tokens, library, diagnostics>>

\* Slip: the close is taken out of the drop.
CloseDocument_Kept(t) ==
    /\ on[t] \in Documents
    /\ Rests(t, "close")
    /\ document' = [document EXCEPT ![on[t]] = "gone"]
    /\ UNCHANGED <<stream, owner, of, flag, tokens, library, diagnostics>>

\* viprs_acad_close, which releases every decode handle still open on the
\* document.
CloseDocument(t) ==
    /\ on[t] \in Documents
    /\ Rests(t, "close")
    /\ openDocuments' = openDocuments \ {on[t]}
    /\ openDecodes' = {s \in openDecodes : of[s] # on[t]}
    /\ document' = [document EXCEPT ![on[t]] = "gone"]
    /\ UNCHANGED <<stream, owner, of, flag, tokens, diagnostics>>

-----------------------------------------------------------------------------
(* CancelToken::new, clone and drop, on any thread *)

NewToken(f, k) ==
    /\ f \notin created
    /\ created' = created \cup {f}
    /\ arcs' = [arcs EXCEPT ![f] = {k}]
    /\ UNCHANGED <<rust, where, library, diagnostics>>

CloneToken(f, k) ==
    /\ Lent(f) /\ k \notin arcs[f]
    /\ arcs' = [arcs EXCEPT ![f] = @ \cup {k}]
    /\ UNCHANGED <<rust, where, created, library, diagnostics>>

DropToken(f, k) ==
    /\ k \in arcs[f]
    /\ arcs' = [arcs EXCEPT ![f] = @ \ {k}]
    /\ UNCHANGED <<rust, where, created, library, diagnostics>>

-----------------------------------------------------------------------------

Starting(t) ==
    \/ \E d \in Documents : Open(t, d) \/ DropDocument(t, d)
    \/ \E d \in Documents, s \in Decodes, f \in Flags \cup {None} : Begin(t, d, s, f)
    \/ \E s \in Decodes : Pull(t, s) \/ DropStream(t, s) \/ ForgetStream(t, s)

Going(t) ==
    \/ Opened(t) \/ NotOpened(t)
    \/ Begun(t) \/ NotBegun(t)
    \/ Pulled(t)
    \/ CountClose(t) \/ DrawTicket(t) \/ NoteClose(t)
    \/ CloseDecode(t) \/ ReleaseFlag(t) \/ CloseDocument(t)

Passing == \E f \in Flags, k \in Tokens : NewToken(f, k) \/ CloneToken(f, k) \/ DropToken(f, k)

Next == (\E t \in Threads : Starting(t) \/ Going(t)) \/ Passing

Spec == Init /\ [][Next]_vars

-----------------------------------------------------------------------------
(* Properties *)

Steps == {"idle", "open", "begin", "pull", "count", "draw", "note", "close", "release"}

TypeOK ==
    /\ document \in [Documents -> {"none", "held", "gone"}]
    /\ stream \in [Decodes -> {"none", "live", "forgotten", "gone"}]
    /\ at \in [Threads -> Steps]
    /\ on \in [Threads -> Handles \cup {None}]
    /\ owner \in [Documents -> Threads \cup {None}]
    /\ of \in [Decodes -> Documents \cup {None}]
    /\ flag \in [Decodes -> Flags \cup {None}]
    /\ arcs \in [Flags -> SUBSET (Tokens \cup Decodes)]
    /\ created \subseteq Flags
    /\ openDocuments \subseteq Documents /\ openDecodes \subseteq Decodes
    /\ closes \in [{"document", "decode"} -> Nat]
    /\ sequence \in Nat
    /\ last \in [{"document", "decode"} -> Nat]
    /\ ticket \in [Handles -> Nat \cup {None}]

\* What a thread that is at a step has hold of.
InDrop(t) == at[t] \in {"count", "draw", "note", "close"}

Busy ==
    \A t \in Threads :
        /\ at[t] = "idle" <=> on[t] = None
        /\ at[t] = "open" =>
              on[t] \in Documents /\ owner[on[t]] = t /\ document[on[t]] = "none"
        /\ at[t] = "begin" =>
              /\ on[t] \in Decodes /\ stream[on[t]] = "none"
              /\ of[on[t]] \in Documents /\ owner[of[on[t]]] = t
              /\ document[of[on[t]]] = "held"
        /\ at[t] \in {"pull", "release"} \/ (InDrop(t) /\ on[t] \in Decodes) =>
              on[t] \in Decodes /\ stream[on[t]] = "live" /\ owner[of[on[t]]] = t
        /\ InDrop(t) /\ on[t] \in Documents =>
              document[on[t]] = "held" /\ owner[on[t]] = t /\ ~Borrowed(on[t])

\* The handles held on this side are the ones open on the other, but for a
\* decode whose drop has closed it already and one that was forgotten.
Closed(s) == \E t \in Threads : at[t] = "release" /\ on[t] = s

Sides ==
    /\ \A d \in Documents :
          /\ d \in openDocuments <=> document[d] = "held"
          /\ document[d] # "none" => owner[d] # None
    /\ \A s \in Decodes :
          /\ of[s] = None => stream[s] = "none"
          /\ stream[s] = "live" =>
                document[of[s]] = "held" /\ (s \in openDecodes \/ Closed(s))
          /\ s \in openDecodes =>
                stream[s] \in {"live", "forgotten"} /\ of[s] \in openDocuments /\ ~Closed(s)

\* An open decode and one that is being begun hold their flag, and a flag that
\* is held was allocated.
Beginning(s) == \E t \in Threads : at[t] = "begin" /\ on[t] = s

FlagsAreHeld ==
    /\ \A s \in Decodes : flag[s] # None /\ (s \in openDecodes \/ Beginning(s))
          => s \in arcs[flag[s]]
    /\ \A f \in Flags : arcs[f] # {} => f \in created

\* A number is drawn once, on the way out.
Tickets ==
    /\ \A h \in Handles : ticket[h] # None => ticket[h] < sequence
    /\ \A t \in Threads : at[t] \in {"note", "close"} => ticket[on[t]] # None
    /\ \A d \in Documents : ticket[d] # None =>
          \/ document[d] = "gone"
          \/ \E t \in Threads : at[t] \in {"note", "close"} /\ on[t] = d

\* Every handle a thread has handed to the library, or is about to hand to it,
\* is open there: nothing is used after it was closed, nothing is closed twice,
\* and no stream outlives its document, streams that were forgotten included.
Handed(t) ==
    CASE at[t] = "begin"                            -> {of[on[t]]}
      [] at[t] = "pull" \/ InDrop(t)                -> {on[t]}
      [] OTHER                                      -> {}

NothingIsUsedAfterClose ==
    \A t \in Threads : Handed(t) \subseteq openDocuments \cup openDecodes

\* The flag the library was pointed at is allocated for as long as the decode
\* is open there, whoever drops the tokens and whenever, also when the stream
\* was forgotten.
FlagsOutliveDecodes ==
    \A s \in openDecodes : flag[s] # None => arcs[flag[s]] # {}

\* Once the drop of a document is over nothing of it is open in the library,
\* not even the decodes of forgotten streams; and no stream is left that would
\* be asked about it.
DocumentsTakeTheirDecodes ==
    \A d \in Documents : document[d] = "gone" =>
        /\ d \notin openDocuments
        /\ \A s \in Decodes : of[s] = d => s \notin openDecodes /\ stream[s] # "live"

\* The counter the two kinds of close share lets an ordering be asserted: a
\* decode that was closed drew a lower number than its document.
DecodesGoFirst ==
    \A s \in Decodes : of[s] # None /\ ticket[s] # None /\ ticket[of[s]] # None
        => ticket[s] < ticket[of[s]]

HandlesInv == TypeOK /\ Busy /\ Sides /\ FlagsAreHeld /\ Tickets /\ DecodesGoFirst

=============================================================================
