--------------------------- MODULE HandlesProofs ---------------------------
(***************************************************************************)
(* Handles is proved for any number of threads, documents, decodes, flags  *)
(* and tokens.  HandlesInv is inductive: one lemma for each action says    *)
(* that it is kept, and the theorems at the end read the safety properties *)
(* off it.                                                                 *)
(***************************************************************************)
EXTENDS Handles, TLAPS

\* A function stays in its set when a value of the set's is put in.
LEMMA Updated ==
    ASSUME NEW A, NEW B, NEW f \in [A -> B], NEW x, NEW v \in B
    PROVE  [f EXCEPT ![x] = v] \in [A -> B]
BY Zenon

\* A document that is being opened is nobody else's.
LEMMA OpenKeeps ==
    ASSUME HandlesInv, NEW t \in Threads, NEW d \in Documents, Open(t, d)
    PROVE  HandlesInv'
<1> USE NamesAssumption
        DEF HandlesInv, Open, Goes, Rests, Starts, rust, where, tokens, library, diagnostics
<1>1. TypeOK'
  BY SMTT(20) DEF TypeOK, Handles, Steps, Kind, Release
<1>2. Busy'
  BY SMTT(20) DEF TypeOK, Busy, Sides, InDrop, Borrowed, Handles
<1>3. Sides'
  BY SMTT(20) DEF TypeOK, Busy, Sides, InDrop, Closed, Borrowed, Handles
<1>4. FlagsAreHeld'
  BY SMTT(20)
     DEF TypeOK, Busy, Sides, FlagsAreHeld, InDrop, Closed, Beginning, Lent, Release, Handles
<1>5. Tickets'
  BY SMTT(20) DEF TypeOK, Busy, Sides, Tickets, InDrop, Borrowed, Handles
<1>6. DecodesGoFirst'
  BY SMTT(20) DEF TypeOK, Busy, Sides, Tickets, DecodesGoFirst, InDrop, Borrowed, Handles
<1> QED BY <1>1, <1>2, <1>3, <1>4, <1>5, <1>6

\* An open that succeeded is held on both sides.
LEMMA OpenedKeeps ==
    ASSUME HandlesInv, NEW t \in Threads, Opened(t)
    PROVE  HandlesInv'
<1> USE NamesAssumption
        DEF HandlesInv, Opened, Goes, Rests, Starts, rust, where, tokens, library, diagnostics
<1>1. TypeOK'
  <2>1. at' \in [Threads -> Steps] /\ on' \in [Threads -> Handles \cup {None}]
    BY SMTT(20) DEF TypeOK, Steps, Handles
  <2>2. document' \in [Documents -> {"none", "held", "gone"}]
    <3>1. \A h : [document EXCEPT ![h] = "held"] \in [Documents -> {"none", "held", "gone"}]
      BY Updated, Zenon DEF TypeOK
    <3> QED BY <3>1, Zenon DEF TypeOK
  <2>3. openDocuments' \subseteq Documents
    BY SMTT(20) DEF TypeOK, Busy
  <2> QED BY <2>1, <2>2, <2>3, SMTT(20) DEF TypeOK
<1>2. Busy'
  BY SMTT(20) DEF TypeOK, Busy, Sides, InDrop, Borrowed, Handles
<1>3. Sides'
  BY SMTT(20) DEF TypeOK, Busy, Sides, InDrop, Closed, Borrowed, Handles
<1>4. FlagsAreHeld'
  BY SMTT(20)
     DEF TypeOK, Busy, Sides, FlagsAreHeld, InDrop, Closed, Beginning, Lent, Release, Handles
<1>5. Tickets'
  BY SMTT(20) DEF TypeOK, Busy, Sides, Tickets, InDrop, Borrowed, Handles
<1>6. DecodesGoFirst'
  BY SMTT(20) DEF TypeOK, Busy, Sides, Tickets, DecodesGoFirst, InDrop, Borrowed, Handles
<1> QED BY <1>1, <1>2, <1>3, <1>4, <1>5, <1>6

\* An open that was refused leaves nothing on either side.
LEMMA NotOpenedKeeps ==
    ASSUME HandlesInv, NEW t \in Threads, NotOpened(t)
    PROVE  HandlesInv'
<1> USE NamesAssumption
        DEF HandlesInv, NotOpened, Goes, Rests, Starts, rust, where, tokens, library, diagnostics
<1>1. TypeOK'
  <2>1. at' \in [Threads -> Steps] /\ on' \in [Threads -> Handles \cup {None}]
    BY SMTT(20) DEF TypeOK, Steps, Handles
  <2>2. document' \in [Documents -> {"none", "held", "gone"}]
    <3>1. \A h : [document EXCEPT ![h] = "gone"] \in [Documents -> {"none", "held", "gone"}]
      BY Updated, Zenon DEF TypeOK
    <3> QED BY <3>1, Zenon DEF TypeOK
  <2> QED BY <2>1, <2>2, SMTT(20) DEF TypeOK
<1>2. Busy'
  BY SMTT(20) DEF TypeOK, Busy, Sides, InDrop, Borrowed, Handles
<1>3. Sides'
  BY SMTT(20) DEF TypeOK, Busy, Sides, InDrop, Closed, Borrowed, Handles
<1>4. FlagsAreHeld'
  BY SMTT(20)
     DEF TypeOK, Busy, Sides, FlagsAreHeld, InDrop, Closed, Beginning, Lent, Release, Handles
<1>5. Tickets'
  BY SMTT(20) DEF TypeOK, Busy, Sides, Tickets, InDrop, Borrowed, Handles
<1>6. DecodesGoFirst'
  BY SMTT(20) DEF TypeOK, Busy, Sides, Tickets, DecodesGoFirst, InDrop, Borrowed, Handles
<1> QED BY <1>1, <1>2, <1>3, <1>4, <1>5, <1>6

\* The Arc is cloned before the library is given its address.
LEMMA BeginKeeps ==
    ASSUME HandlesInv, NEW t \in Threads, NEW d \in Documents, NEW s \in Decodes, NEW f \in Flags \cup {None}, Begin(t, d, s, f)
    PROVE  HandlesInv'
<1> USE NamesAssumption
        DEF HandlesInv, Begin, Goes, Rests, Starts, rust, where, tokens, library, diagnostics
<1>1. TypeOK'
  BY SMTT(20) DEF TypeOK, Handles, Steps, Kind, Release
<1>2. Busy'
  BY SMTT(20) DEF TypeOK, Busy, Sides, InDrop, Borrowed, Handles
<1>3. Sides'
  BY SMTT(20) DEF TypeOK, Busy, Sides, InDrop, Closed, Borrowed, Handles
<1>4. FlagsAreHeld'
  BY SMTT(20)
     DEF TypeOK, Busy, Sides, FlagsAreHeld, InDrop, Closed, Beginning, Lent, Release, Handles
<1>5. Tickets'
  BY SMTT(20) DEF TypeOK, Busy, Sides, Tickets, InDrop, Borrowed, Handles
<1>6. DecodesGoFirst'
  BY SMTT(20) DEF TypeOK, Busy, Sides, Tickets, DecodesGoFirst, InDrop, Borrowed, Handles
<1> QED BY <1>1, <1>2, <1>3, <1>4, <1>5, <1>6

\* A decode that was begun is live on a document that is held.
LEMMA BegunKeeps ==
    ASSUME HandlesInv, NEW t \in Threads, Begun(t)
    PROVE  HandlesInv'
<1> USE NamesAssumption
        DEF HandlesInv, Begun, Goes, Rests, Starts, rust, where, tokens, library, diagnostics
<1>1. TypeOK'
  <2>1. at' \in [Threads -> Steps] /\ on' \in [Threads -> Handles \cup {None}]
    BY SMTT(20) DEF TypeOK, Steps, Handles
  <2>2. stream' \in [Decodes -> {"none", "live", "forgotten", "gone"}]
    <3>1. \A h : [stream EXCEPT ![h] = "live"] \in [Decodes -> {"none", "live", "forgotten", "gone"}]
      BY Updated, Zenon DEF TypeOK
    <3> QED BY <3>1, Zenon DEF TypeOK
  <2>3. openDecodes' \subseteq Decodes
    BY SMTT(20) DEF TypeOK, Busy
  <2> QED BY <2>1, <2>2, <2>3, SMTT(20) DEF TypeOK
<1>2. Busy'
  BY SMTT(20) DEF TypeOK, Busy, Sides, InDrop, Borrowed, Handles
<1>3. Sides'
  BY SMTT(20) DEF TypeOK, Busy, Sides, InDrop, Closed, Borrowed, Handles
<1>4. FlagsAreHeld'
  BY SMTT(20)
     DEF TypeOK, Busy, Sides, FlagsAreHeld, InDrop, Closed, Beginning, Lent, Release, Handles
<1>5. Tickets'
  BY SMTT(20) DEF TypeOK, Busy, Sides, Tickets, InDrop, Borrowed, Handles
<1>6. DecodesGoFirst'
  BY SMTT(20) DEF TypeOK, Busy, Sides, Tickets, DecodesGoFirst, InDrop, Borrowed, Handles
<1> QED BY <1>1, <1>2, <1>3, <1>4, <1>5, <1>6

\* A refusal drops the clone; nothing was opened that points at it.
LEMMA NotBegunKeeps ==
    ASSUME HandlesInv, NEW t \in Threads, NotBegun(t)
    PROVE  HandlesInv'
<1> USE NamesAssumption
        DEF HandlesInv, NotBegun, Goes, Rests, Starts, rust, where, tokens, library, diagnostics
<1>1. TypeOK'
  <2>1. at' \in [Threads -> Steps] /\ on' \in [Threads -> Handles \cup {None}]
    BY SMTT(20) DEF TypeOK, Steps, Handles
  <2>2. stream' \in [Decodes -> {"none", "live", "forgotten", "gone"}]
    <3>1. \A h : [stream EXCEPT ![h] = "gone"] \in [Decodes -> {"none", "live", "forgotten", "gone"}]
      BY Updated, Zenon DEF TypeOK
    <3> QED BY <3>1, Zenon DEF TypeOK
  <2>3. arcs' \in [Flags -> SUBSET (Tokens \cup Decodes)]
    BY SMTT(20) DEF TypeOK, Release
  <2> QED BY <2>1, <2>2, <2>3, SMTT(20) DEF TypeOK
<1>2. Busy'
  BY SMTT(20) DEF TypeOK, Busy, Sides, InDrop, Borrowed, Handles
<1>3. Sides'
  BY SMTT(20) DEF TypeOK, Busy, Sides, InDrop, Closed, Borrowed, Handles
<1>4. FlagsAreHeld'
  BY SMTT(20)
     DEF TypeOK, Busy, Sides, FlagsAreHeld, InDrop, Closed, Beginning, Lent, Release, Handles
<1>5. Tickets'
  BY SMTT(20) DEF TypeOK, Busy, Sides, Tickets, InDrop, Borrowed, Handles
<1>6. DecodesGoFirst'
  BY SMTT(20) DEF TypeOK, Busy, Sides, Tickets, DecodesGoFirst, InDrop, Borrowed, Handles
<1> QED BY <1>1, <1>2, <1>3, <1>4, <1>5, <1>6

\* A pull begins on a live stream of the thread's own.
LEMMA PullKeeps ==
    ASSUME HandlesInv, NEW t \in Threads, NEW s \in Decodes, Pull(t, s)
    PROVE  HandlesInv'
<1> USE NamesAssumption
        DEF HandlesInv, Pull, Goes, Rests, Starts, rust, where, tokens, library, diagnostics
<1>1. TypeOK'
  BY SMTT(20) DEF TypeOK, Handles, Steps, Kind, Release
<1>2. Busy'
  BY SMTT(20) DEF TypeOK, Busy, Sides, InDrop, Borrowed, Handles
<1>3. Sides'
  BY SMTT(20) DEF TypeOK, Busy, Sides, InDrop, Closed, Borrowed, Handles
<1>4. FlagsAreHeld'
  BY SMTT(20)
     DEF TypeOK, Busy, Sides, FlagsAreHeld, InDrop, Closed, Beginning, Lent, Release, Handles
<1>5. Tickets'
  BY SMTT(20) DEF TypeOK, Busy, Sides, Tickets, InDrop, Borrowed, Handles
<1>6. DecodesGoFirst'
  BY SMTT(20) DEF TypeOK, Busy, Sides, Tickets, DecodesGoFirst, InDrop, Borrowed, Handles
<1> QED BY <1>1, <1>2, <1>3, <1>4, <1>5, <1>6

\* A pull that returns changes no owner.
LEMMA PulledKeeps ==
    ASSUME HandlesInv, NEW t \in Threads, Pulled(t)
    PROVE  HandlesInv'
<1> USE NamesAssumption
        DEF HandlesInv, Pulled, Goes, Rests, Starts, rust, where, tokens, library, diagnostics
<1>1. TypeOK'
  BY SMTT(20) DEF TypeOK, Handles, Steps, Kind, Release
<1>2. Busy'
  BY SMTT(20) DEF TypeOK, Busy, Sides, InDrop, Borrowed, Handles
<1>3. Sides'
  BY SMTT(20) DEF TypeOK, Busy, Sides, InDrop, Closed, Borrowed, Handles
<1>4. FlagsAreHeld'
  BY SMTT(20)
     DEF TypeOK, Busy, Sides, FlagsAreHeld, InDrop, Closed, Beginning, Lent, Release, Handles
<1>5. Tickets'
  BY SMTT(20) DEF TypeOK, Busy, Sides, Tickets, InDrop, Borrowed, Handles
<1>6. DecodesGoFirst'
  BY SMTT(20) DEF TypeOK, Busy, Sides, Tickets, DecodesGoFirst, InDrop, Borrowed, Handles
<1> QED BY <1>1, <1>2, <1>3, <1>4, <1>5, <1>6

\* Counting a close moves nothing across the boundary.
LEMMA CountCloseKeeps ==
    ASSUME HandlesInv, NEW t \in Threads, CountClose(t)
    PROVE  HandlesInv'
<1> USE NamesAssumption
        DEF HandlesInv, CountClose, Goes, Rests, Starts, rust, where, tokens, library, diagnostics
<1>1. TypeOK'
  BY SMTT(20) DEF TypeOK, Handles, Steps, Kind, Release
<1>2. Busy'
  BY SMTT(20) DEF TypeOK, Busy, Sides, InDrop, Borrowed, Handles
<1>3. Sides'
  BY SMTT(20) DEF TypeOK, Busy, Sides, InDrop, Closed, Borrowed, Handles
<1>4. FlagsAreHeld'
  BY SMTT(20)
     DEF TypeOK, Busy, Sides, FlagsAreHeld, InDrop, Closed, Beginning, Lent, Release, Handles
<1>5. Tickets'
  BY SMTT(20) DEF TypeOK, Busy, Sides, Tickets, InDrop, Borrowed, Handles
<1>6. DecodesGoFirst'
  BY SMTT(20) DEF TypeOK, Busy, Sides, Tickets, DecodesGoFirst, InDrop, Borrowed, Handles
<1> QED BY <1>1, <1>2, <1>3, <1>4, <1>5, <1>6

\* The number drawn is above all those drawn before.
LEMMA DrawTicketKeeps ==
    ASSUME HandlesInv, NEW t \in Threads, DrawTicket(t)
    PROVE  HandlesInv'
<1> USE NamesAssumption
        DEF HandlesInv, DrawTicket, Goes, Rests, Starts, rust, where, tokens, library, diagnostics
<1>1. TypeOK'
  <2>1. at' \in [Threads -> Steps] /\ on' \in [Threads -> Handles \cup {None}]
    BY SMTT(20) DEF TypeOK, Steps, Handles
  <2>2. ticket' \in [Handles -> Nat \cup {None}] /\ sequence' \in Nat
    <3>1. \A h : [ticket EXCEPT ![h] = sequence] \in [Handles -> Nat \cup {None}]
      BY Updated, Zenon DEF TypeOK
    <3>2. sequence' \in Nat
      BY SMTT(20) DEF TypeOK
    <3> QED BY <3>1, <3>2, Zenon DEF TypeOK
  <2> QED BY <2>1, <2>2, SMTT(20) DEF TypeOK
<1>2. Busy'
  BY SMTT(20) DEF TypeOK, Busy, Sides, InDrop, Borrowed, Handles
<1>3. Sides'
  BY SMTT(20) DEF TypeOK, Busy, Sides, InDrop, Closed, Borrowed, Handles
<1>4. FlagsAreHeld'
  BY SMTT(20)
     DEF TypeOK, Busy, Sides, FlagsAreHeld, InDrop, Closed, Beginning, Lent, Release, Handles
<1>5. Tickets'
  BY SMTT(20) DEF TypeOK, Busy, Sides, Tickets, InDrop, Borrowed, Handles
<1>6. DecodesGoFirst'
  BY SMTT(20) DEF TypeOK, Busy, Sides, Tickets, DecodesGoFirst, InDrop, Borrowed, Handles
<1> QED BY <1>1, <1>2, <1>3, <1>4, <1>5, <1>6

\* The number stored is one that was drawn.
LEMMA NoteCloseKeeps ==
    ASSUME HandlesInv, NEW t \in Threads, NoteClose(t)
    PROVE  HandlesInv'
<1> USE NamesAssumption
        DEF HandlesInv, NoteClose, Goes, Rests, Starts, rust, where, tokens, library, diagnostics
<1>1. TypeOK'
  <2>1. at' \in [Threads -> Steps] /\ on' \in [Threads -> Handles \cup {None}]
    BY SMTT(20) DEF TypeOK, Steps, Handles
  <2>2. ticket[on[t]] \in Nat
    BY SMTT(20) DEF TypeOK, Busy, Tickets, Handles, InDrop
  <2>3. last' \in [{"document", "decode"} -> Nat]
    <3>1. \A h : [last EXCEPT ![h] = ticket[on[t]]] \in [{"document", "decode"} -> Nat]
      BY <2>2, Updated, Zenon DEF TypeOK
    <3> QED BY <3>1, Zenon DEF TypeOK
  <2> QED BY <2>1, <2>2, <2>3, SMTT(20) DEF TypeOK
<1>2. Busy'
  BY SMTT(20) DEF TypeOK, Busy, Sides, InDrop, Borrowed, Handles
<1>3. Sides'
  BY SMTT(20) DEF TypeOK, Busy, Sides, InDrop, Closed, Borrowed, Handles
<1>4. FlagsAreHeld'
  BY SMTT(20)
     DEF TypeOK, Busy, Sides, FlagsAreHeld, InDrop, Closed, Beginning, Lent, Release, Handles
<1>5. Tickets'
  BY SMTT(20) DEF TypeOK, Busy, Sides, Tickets, InDrop, Borrowed, Handles
<1>6. DecodesGoFirst'
  BY SMTT(20) DEF TypeOK, Busy, Sides, Tickets, DecodesGoFirst, InDrop, Borrowed, Handles
<1> QED BY <1>1, <1>2, <1>3, <1>4, <1>5, <1>6

\* The drop of a stream begins with its document held.
LEMMA DropStreamKeeps ==
    ASSUME HandlesInv, NEW t \in Threads, NEW s \in Decodes, DropStream(t, s)
    PROVE  HandlesInv'
<1> USE NamesAssumption
        DEF HandlesInv, DropStream, Goes, Rests, Starts, rust, where, tokens, library, diagnostics
<1>1. TypeOK'
  BY SMTT(20) DEF TypeOK, Handles, Steps, Kind, Release
<1>2. Busy'
  BY SMTT(20) DEF TypeOK, Busy, Sides, InDrop, Borrowed, Handles
<1>3. Sides'
  BY SMTT(20) DEF TypeOK, Busy, Sides, InDrop, Closed, Borrowed, Handles
<1>4. FlagsAreHeld'
  BY SMTT(20)
     DEF TypeOK, Busy, Sides, FlagsAreHeld, InDrop, Closed, Beginning, Lent, Release, Handles
<1>5. Tickets'
  BY SMTT(20) DEF TypeOK, Busy, Sides, Tickets, InDrop, Borrowed, Handles
<1>6. DecodesGoFirst'
  BY SMTT(20) DEF TypeOK, Busy, Sides, Tickets, DecodesGoFirst, InDrop, Borrowed, Handles
<1> QED BY <1>1, <1>2, <1>3, <1>4, <1>5, <1>6

\* The decode is closed while its Arc is still held.
LEMMA CloseDecodeKeeps ==
    ASSUME HandlesInv, NEW t \in Threads, CloseDecode(t)
    PROVE  HandlesInv'
<1> USE NamesAssumption
        DEF HandlesInv, CloseDecode, Goes, Rests, Starts, rust, where, tokens, library, diagnostics
<1>1. TypeOK'
  BY SMTT(20) DEF TypeOK, Handles, Steps, Kind, Release
<1>2. Busy'
  BY SMTT(20) DEF TypeOK, Busy, Sides, InDrop, Borrowed, Handles
<1>3. Sides'
  BY SMTT(20) DEF TypeOK, Busy, Sides, InDrop, Closed, Borrowed, Handles
<1>4. FlagsAreHeld'
  BY SMTT(20)
     DEF TypeOK, Busy, Sides, FlagsAreHeld, InDrop, Closed, Beginning, Lent, Release, Handles
<1>5. Tickets'
  BY SMTT(20) DEF TypeOK, Busy, Sides, Tickets, InDrop, Borrowed, Handles
<1>6. DecodesGoFirst'
  BY SMTT(20) DEF TypeOK, Busy, Sides, Tickets, DecodesGoFirst, InDrop, Borrowed, Handles
<1> QED BY <1>1, <1>2, <1>3, <1>4, <1>5, <1>6

\* The Arc is dropped when the library has let go of the flag.
LEMMA ReleaseFlagKeeps ==
    ASSUME HandlesInv, NEW t \in Threads, ReleaseFlag(t)
    PROVE  HandlesInv'
<1> USE NamesAssumption
        DEF HandlesInv, ReleaseFlag, Goes, Rests, Starts, rust, where, tokens, library, diagnostics
<1>1. TypeOK'
  <2>1. at' \in [Threads -> Steps] /\ on' \in [Threads -> Handles \cup {None}]
    BY SMTT(20) DEF TypeOK, Steps, Handles
  <2>2. stream' \in [Decodes -> {"none", "live", "forgotten", "gone"}]
    <3>1. \A h : [stream EXCEPT ![h] = "gone"] \in [Decodes -> {"none", "live", "forgotten", "gone"}]
      BY Updated, Zenon DEF TypeOK
    <3> QED BY <3>1, Zenon DEF TypeOK
  <2>3. arcs' \in [Flags -> SUBSET (Tokens \cup Decodes)]
    BY SMTT(20) DEF TypeOK, Release
  <2> QED BY <2>1, <2>2, <2>3, SMTT(20) DEF TypeOK
<1>2. Busy'
  BY SMTT(20) DEF TypeOK, Busy, Sides, InDrop, Borrowed, Handles
<1>3. Sides'
  BY SMTT(20) DEF TypeOK, Busy, Sides, InDrop, Closed, Borrowed, Handles
<1>4. FlagsAreHeld'
  BY SMTT(20)
     DEF TypeOK, Busy, Sides, FlagsAreHeld, InDrop, Closed, Beginning, Lent, Release, Handles
<1>5. Tickets'
  BY SMTT(20) DEF TypeOK, Busy, Sides, Tickets, InDrop, Borrowed, Handles
<1>6. DecodesGoFirst'
  BY SMTT(20) DEF TypeOK, Busy, Sides, Tickets, DecodesGoFirst, InDrop, Borrowed, Handles
<1> QED BY <1>1, <1>2, <1>3, <1>4, <1>5, <1>6

\* A forgotten stream stays open, and keeps its Arc, until its document closes.
LEMMA ForgetStreamKeeps ==
    ASSUME HandlesInv, NEW t \in Threads, NEW s \in Decodes, ForgetStream(t, s)
    PROVE  HandlesInv'
<1> USE NamesAssumption
        DEF HandlesInv, ForgetStream, Goes, Rests, Starts, rust, where, tokens, library, diagnostics
<1>1. TypeOK'
  BY SMTT(20) DEF TypeOK, Handles, Steps, Kind, Release
<1>2. Busy'
  BY SMTT(20) DEF TypeOK, Busy, Sides, InDrop, Borrowed, Handles
<1>3. Sides'
  BY SMTT(20) DEF TypeOK, Busy, Sides, InDrop, Closed, Borrowed, Handles
<1>4. FlagsAreHeld'
  BY SMTT(20)
     DEF TypeOK, Busy, Sides, FlagsAreHeld, InDrop, Closed, Beginning, Lent, Release, Handles
<1>5. Tickets'
  BY SMTT(20) DEF TypeOK, Busy, Sides, Tickets, InDrop, Borrowed, Handles
<1>6. DecodesGoFirst'
  BY SMTT(20) DEF TypeOK, Busy, Sides, Tickets, DecodesGoFirst, InDrop, Borrowed, Handles
<1> QED BY <1>1, <1>2, <1>3, <1>4, <1>5, <1>6

\* The drop of a document begins when no stream borrows it.
LEMMA DropDocumentKeeps ==
    ASSUME HandlesInv, NEW t \in Threads, NEW d \in Documents, DropDocument(t, d)
    PROVE  HandlesInv'
<1> USE NamesAssumption
        DEF HandlesInv, DropDocument, Goes, Rests, Starts, rust, where, tokens, library, diagnostics
<1>1. TypeOK'
  BY SMTT(20) DEF TypeOK, Handles, Steps, Kind, Release
<1>2. Busy'
  BY SMTT(20) DEF TypeOK, Busy, Sides, InDrop, Borrowed, Handles
<1>3. Sides'
  BY SMTT(20) DEF TypeOK, Busy, Sides, InDrop, Closed, Borrowed, Handles
<1>4. FlagsAreHeld'
  BY SMTT(20)
     DEF TypeOK, Busy, Sides, FlagsAreHeld, InDrop, Closed, Beginning, Lent, Release, Handles
<1>5. Tickets'
  BY SMTT(20) DEF TypeOK, Busy, Sides, Tickets, InDrop, Borrowed, Handles
<1>6. DecodesGoFirst'
  BY SMTT(20) DEF TypeOK, Busy, Sides, Tickets, DecodesGoFirst, InDrop, Borrowed, Handles
<1> QED BY <1>1, <1>2, <1>3, <1>4, <1>5, <1>6

\* The close of a document takes the decodes of forgotten streams along, and
\* no other thread is busy with any of them.
LEMMA CloseDocumentKeeps ==
    ASSUME HandlesInv, NEW t \in Threads, CloseDocument(t)
    PROVE  HandlesInv'
<1> USE NamesAssumption
        DEF HandlesInv, CloseDocument, Goes, Rests, Starts, rust, where, tokens, library, diagnostics
<1>1. TypeOK'
  BY SMTT(20) DEF TypeOK, Handles, Steps, Kind, Release
<1>2. Busy'
  BY SMTT(20) DEF TypeOK, Busy, Sides, InDrop, Borrowed, Handles
<1>3. Sides'
  BY SMTT(20) DEF TypeOK, Busy, Sides, InDrop, Closed, Borrowed, Handles
<1>4. FlagsAreHeld'
  BY SMTT(20)
     DEF TypeOK, Busy, Sides, FlagsAreHeld, InDrop, Closed, Beginning, Lent, Release, Handles
<1>5. Tickets'
  BY SMTT(20) DEF TypeOK, Busy, Sides, Tickets, InDrop, Borrowed, Handles
<1>6. DecodesGoFirst'
  BY SMTT(20) DEF TypeOK, Busy, Sides, Tickets, DecodesGoFirst, InDrop, Borrowed, Handles
<1> QED BY <1>1, <1>2, <1>3, <1>4, <1>5, <1>6

\* Tokens come and go without touching a handle, or an Arc a handle holds.
LEMMA PassingKeeps ==
    ASSUME HandlesInv, Passing
    PROVE  HandlesInv'
<1> USE NamesAssumption
        DEF HandlesInv, rust, where, tokens, library, diagnostics
<1>1. PICK f \in Flags, k \in Tokens : NewToken(f, k) \/ CloneToken(f, k) \/ DropToken(f, k)
  BY DEF Passing
<1>2. UNCHANGED <<rust, where, library, diagnostics>>
  BY <1>1 DEF NewToken, CloneToken, DropToken
<1>3. TypeOK'
  <2>1. arcs' \in [Flags -> SUBSET (Tokens \cup Decodes)] /\ created' \subseteq Flags
    BY <1>1, SMTT(20) DEF NewToken, CloneToken, DropToken, TypeOK
  <2> QED BY <1>2, <2>1, SMTT(20) DEF TypeOK
<1>4. FlagsAreHeld'
  <2>1. \A s \in Decodes, g \in Flags : s \in arcs[g] => s \in arcs'[g]
    <3>1. CASE NewToken(f, k)
      \* A flag that was not allocated before.
      <4>1. arcs[f] = {}
        BY <3>1, SMTT(20) DEF NewToken, FlagsAreHeld
      <4> QED BY <3>1, <4>1, SMTT(20) DEF NewToken, TypeOK
    <3>2. CASE CloneToken(f, k)
      BY <3>2, SMTT(20) DEF CloneToken, TypeOK
    <3>3. CASE DropToken(f, k)
      BY <3>3, SMTT(20) DEF DropToken, TypeOK
    <3> QED BY <1>1, <3>1, <3>2, <3>3
  <2>2. \A s \in Decodes : flag[s] # None => flag[s] \in Flags
    BY SMTT(20) DEF TypeOK
  <2>3. \A g \in Flags : arcs'[g] # {} => g \in created'
    BY <1>1, SMTT(20) DEF NewToken, CloneToken, DropToken, Lent, FlagsAreHeld, TypeOK
  <2> QED BY <1>2, <2>1, <2>2, <2>3, SMTT(20) DEF FlagsAreHeld, Beginning
<1>5. Busy' /\ Sides' /\ Tickets' /\ DecodesGoFirst'
  BY <1>2, SMTT(20) DEF Busy, Sides, Tickets, DecodesGoFirst, InDrop, Borrowed, Closed
<1> QED BY <1>3, <1>4, <1>5

\* The initial states keep the two sides apart by having nothing open.
LEMMA InitEstablishes == Init => HandlesInv
BY NamesAssumption, SMTT(30)
   DEF Init, HandlesInv, TypeOK, Busy, Sides, FlagsAreHeld, Tickets, DecodesGoFirst,
       Steps, InDrop, Borrowed, Closed, Beginning, Handles

\* A step that changes nothing keeps the invariant.
LEMMA StutterKeeps == HandlesInv /\ UNCHANGED vars => HandlesInv'
BY SMTT(30)
   DEF HandlesInv, TypeOK, Busy, Sides, FlagsAreHeld, Tickets, DecodesGoFirst, InDrop,
       Borrowed, Closed, Beginning, vars, rust, where, tokens, library, diagnostics

\* Every step keeps the invariant.
LEMMA NextKeeps == HandlesInv /\ [Next]_vars => HandlesInv'
<1> SUFFICES ASSUME HandlesInv, Next PROVE HandlesInv'
  BY StutterKeeps
<1>1. ASSUME NEW t \in Threads, Starting(t) PROVE HandlesInv'
  BY <1>1, OpenKeeps, DropDocumentKeeps, BeginKeeps, PullKeeps, DropStreamKeeps, ForgetStreamKeeps
     DEF Starting
<1>2. ASSUME NEW t \in Threads, Going(t) PROVE HandlesInv'
  BY <1>2, OpenedKeeps, NotOpenedKeeps, BegunKeeps, NotBegunKeeps, PulledKeeps, CountCloseKeeps,
     DrawTicketKeeps, NoteCloseKeeps, CloseDecodeKeeps, ReleaseFlagKeeps, CloseDocumentKeeps
     DEF Going
<1> QED BY <1>1, <1>2, PassingKeeps DEF Next

\* What the two sides of the boundary hold fits together in every state.
THEOREM Ownership == Spec => []HandlesInv
BY InitEstablishes, NextKeeps, PTL DEF Spec

\* No handle is handed to the library after it was closed there, and none is
\* closed twice: sys.rs and the borrow in PrimitiveStream<'doc>.
THEOREM NoUseAfterClose == Spec => []NothingIsUsedAfterClose
<1>1. HandlesInv => NothingIsUsedAfterClose
  <2> SUFFICES ASSUME HandlesInv, NEW t \in Threads
               PROVE  Handed(t) \subseteq openDocuments \cup openDecodes
    BY DEF NothingIsUsedAfterClose
  <2>1. CASE at[t] = "begin"
    BY <2>1, SMTT(20) DEF HandlesInv, TypeOK, Busy, Sides, Handed, InDrop
  <2>2. CASE at[t] = "pull" \/ InDrop(t)
    <3>1. on[t] \in Handles
      BY <2>2, SMTT(20) DEF HandlesInv, TypeOK, Busy, InDrop, Handles
    <3>2. CASE on[t] \in Documents
      BY <2>2, <3>2, NamesAssumption, SMTT(20)
         DEF HandlesInv, TypeOK, Busy, Sides, Handed, InDrop
    <3>3. CASE on[t] \in Decodes
      <4>1. stream[on[t]] = "live" /\ owner[of[on[t]]] = t
        BY <2>2, <3>3, SMTT(20) DEF HandlesInv, Busy, InDrop
      <4>2. ~Closed(on[t])
        BY <2>2, <4>1, SMTT(20) DEF HandlesInv, TypeOK, Busy, Closed, InDrop
      <4>3. on[t] \in openDecodes
        BY <3>3, <4>1, <4>2 DEF HandlesInv, Sides
      <4> QED BY <2>2, <4>3, SMTT(20) DEF Handed, InDrop
    <3> QED BY <3>1, <3>2, <3>3 DEF Handles
  <2>3. CASE ~(at[t] = "begin" \/ at[t] = "pull" \/ InDrop(t))
    BY <2>3 DEF Handed
  <2> QED BY <2>1, <2>2, <2>3
<1> QED BY <1>1, Ownership, PTL

\* The flag of an open decode is allocated: sys::decode_begin keeps the Arc.
THEOREM FlagsStayAllocated == Spec => []FlagsOutliveDecodes
<1>1. HandlesInv => FlagsOutliveDecodes
  BY SMTT(20) DEF HandlesInv, TypeOK, FlagsAreHeld, FlagsOutliveDecodes
<1> QED BY <1>1, Ownership, PTL

\* Dropping a Document leaves nothing of it open, forgotten streams included.
THEOREM NothingIsLeftOpen == Spec => []DocumentsTakeTheirDecodes
<1>1. HandlesInv => DocumentsTakeTheirDecodes
  BY SMTT(20) DEF HandlesInv, TypeOK, Sides, DocumentsTakeTheirDecodes
<1> QED BY <1>1, Ownership, PTL

\* Tickets order the closes: the sequence of diagnostics.rs.
THEOREM ClosesAreOrdered == Spec => []DecodesGoFirst
BY Ownership, PTL DEF HandlesInv
=============================================================================
