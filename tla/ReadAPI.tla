------------------------------ MODULE ReadAPI -------------------------------
(***************************************************************************)
(* The read endpoints: GET .../intents and GET /v1/conflicts               *)
(* (internal/api/reads.go, audit.go).  A client walks a time window page   *)
(* by page with the cursor it was given last, while claims commit rows,    *)
(* also rows older than the cursor, and retention takes old rows away.     *)
(*                                                                         *)
(* A row is its sort key <<at, id>>: the timestamp its transaction began   *)
(* with, and its identifier.  The filters of the two endpoints select on   *)
(* columns that never change, so Rows are the rows that match them.        *)
(***************************************************************************)
EXTENDS Integers, FiniteSets, Sequences, Functions

CONSTANTS
    Clients,
    Rows,       \* the rows that may come to be, as <<at, id>>
    Queries,    \* what clients ask for, but for the cursor
    MaxTime,    \* a bound on the clock
    MaxSpan,    \* IDEMIO_READ_MAX_SPAN
    MaxLimit    \* maxLimit

Open == 0       \* no until parameter

ASSUME ReadAssumption ==
    /\ Queries \subseteq [endpoint : {"intents", "conflicts"}, role : {"agent", "operator", "investigator"},
                          payload : BOOLEAN, reason : BOOLEAN,
                          since : Nat, until : Nat, limit : Nat]
    /\ Rows \subseteq (1 .. MaxTime) \X Nat
    /\ MaxTime \in Nat \ {0} /\ MaxSpan \in Nat \ {0} /\ MaxLimit \in Nat \ {0}

VARIABLES
    now,
    visible,    \* committed rows whose partition is attached
    floor,      \* partitions below this time are retired
    query,      \* query[c]: what client c asks for
    cursor,     \* cursor[c]: the cursor it sends, as text, or Nowhere
    pc,         \* pc[c]: where its request is
    page,       \* page[c]: the page its request is about to return
    got,        \* got[c]: the rows it was sent, in that order
    first,      \* first[c]: the rows of the window when its walk began
    audited     \* audited[c]: ids in the committed payload_access_audit rows of c

vars == <<now, visible, floor, query, cursor, pc, page, got, first, audited>>

Nanos == 1000   \* a microsecond
Nowhere == <<0, 0>>
NoPage == [rows |-> <<>>, more |-> FALSE]

TypeOK ==
    /\ now \in 1 .. MaxTime
    /\ visible \subseteq Rows /\ floor \in 0 .. MaxTime
    /\ query \in [Clients -> Queries]
    /\ cursor \in [Clients -> Nat \X Nat]
    /\ pc \in [Clients -> {"asked", "read", "recorded", "answering", "refused", "done"}]
    /\ page \in [Clients -> [rows : Seq(Rows), more : BOOLEAN]]
    /\ got \in [Clients -> Seq(Rows)]
    /\ first \in [Clients -> SUBSET Rows]
    /\ audited \in [Clients -> SUBSET Rows]

Init ==
    /\ now = 1
    /\ visible = {} /\ floor = 0
    /\ query \in [Clients -> Queries]
    /\ cursor = [c \in Clients |-> Nowhere]
    /\ pc = [c \in Clients |-> "asked"]
    /\ page = [c \in Clients |-> NoPage]
    /\ got = [c \in Clients |-> <<>>]
    /\ first = [c \in Clients |-> {}]
    /\ audited = [c \in Clients |-> {}]

-----------------------------------------------------------------------------
(* What changes the tables.                                                *)

clientVars == <<query, cursor, pc, page, got, first, audited>>

Tick ==
    /\ now < MaxTime
    /\ now' = now + 1
    /\ UNCHANGED <<visible, floor, clientVars>>

\* A claim commits; its timestamp is that of its begin, now or earlier.
CommitRow(r) ==
    /\ r \notin visible /\ floor <= r[1] /\ r[1] <= now
    /\ visible' = visible \cup {r}
    /\ UNCHANGED <<now, floor, clientVars>>

\* The oldest partition is detached.
RetireOldest ==
    /\ floor < now
    /\ floor' = floor + 1
    /\ visible' = {r \in visible : r[1] >= floor'}
    /\ UNCHANGED <<now, clientVars>>

-----------------------------------------------------------------------------
(* Admission.                                                              *)

\* The window a request names.  Without until it reaches to now.
Until(q) == IF q.until = Open THEN now ELSE q.until

\* The span measured up to now, whatever until says.
readWindowToNow(q) ==
    /\ q.since < Until(q) /\ now - q.since <= MaxSpan
    /\ q.limit \in 1 .. MaxLimit

readWindow(q) ==
    /\ q.since < Until(q) /\ Until(q) - q.since <= MaxSpan
    /\ q.limit \in 1 .. MaxLimit

readerIdentity(q) == q.role \in {"operator", "investigator"}

payloadRequest(q) == q.payload => q.role = "investigator" /\ q.reason

Admitted(q) ==
    /\ readerIdentity(q) /\ readWindow(q)
    /\ IF q.endpoint = "intents" THEN payloadRequest(q) ELSE ~ q.payload

Refuse(c) ==
    /\ pc[c] = "asked"
    /\ ~ Admitted(query[c])
    /\ pc' = [pc EXCEPT ![c] = "refused"]
    /\ UNCHANGED <<now, visible, floor, query, cursor, page, got, first, audited>>

-----------------------------------------------------------------------------
(* One page.                                                               *)

Before(r, s) == r[1] < s[1] \/ (r[1] = s[1] /\ r[2] < s[2])

\* RFC 3339 without fractions, a second being two units of the column here.
encodeCursorSeconds(r) == <<2 * Nanos * (r[1] \div 2), r[2]>>

\* RFC 3339 with nanoseconds, of a column that has microseconds.
encodeCursor(r) == <<Nanos * r[1], r[2]>>

\* And back: Postgres takes the parameter at the column's resolution.
decodeCursor(text) == <<text[1] \div Nanos, text[2]>>

\* The cursor's own row once more.
PastCursorOrAt(r, at) == at = Nowhere \/ Before(r, at) \/ r = at

\* (emitted_at, intent_id) < cursor.
PastCursor(r, at) == at = Nowhere \/ Before(r, at)

Window(q) == {r \in visible : q.since <= r[1] /\ r[1] <= Until(q)}

\* ORDER BY at DESC, id DESC: the i-th row is the one with i - 1 newer ones.
newestFirst(rows) ==
    [i \in 1 .. Cardinality(rows) |->
        CHOOSE r \in rows : Cardinality({s \in rows : Before(r, s)}) = i - 1]

\* LIMIT limit + 1.
scanRows(c) ==
    LET matching == {r \in Window(query[c]) : PastCursor(r, decodeCursor(cursor[c]))}
        sorted == newestFirst(matching)
        most == query[c].limit + 1
    IN  IF Len(sorted) <= most THEN sorted ELSE SubSeq(sorted, 1, most)

paginate(rows, limit) ==
    IF Len(rows) <= limit THEN [rows |-> rows, more |-> FALSE]
                          ELSE [rows |-> SubSeq(rows, 1, limit), more |-> TRUE]

\* The page is read, and on the first page the walk begins.
Scan(c, label) ==
    /\ pc[c] = "asked"
    /\ Admitted(query[c])
    /\ page' = [page EXCEPT ![c] = paginate(scanRows(c), query[c].limit)]
    /\ first' = IF cursor[c] = Nowhere THEN [first EXCEPT ![c] = Window(query[c])] ELSE first
    /\ pc' = [pc EXCEPT ![c] = label]
    /\ UNCHANGED <<now, visible, floor, query, cursor, got, audited>>

\* handleIntents up to the audit: begin, scanIntents, paginate.
scanIntents(c) == query[c].endpoint = "intents" /\ Scan(c, "read")

\* handleConflicts: one statement, no transaction, nothing to audit.
handleConflicts(c) == query[c].endpoint = "conflicts" /\ Scan(c, "answering")

\* The audit row, not committed yet.
recordPayloadAccess(c) ==
    /\ pc[c] = "read" /\ query[c].payload
    /\ pc' = [pc EXCEPT ![c] = "recorded"]
    /\ UNCHANGED <<now, visible, floor, query, cursor, page, got, first, audited>>

MayCommit(c) == pc[c] = "recorded" \/ (pc[c] = "read" /\ ~ query[c].payload)

\* The ids the commit adds to the audit.
AuditedBy(c) == IF query[c].payload THEN Range(page[c].rows) ELSE {}

\* An audit whose failure is logged and passed over.
CommitReadUnaudited(c) ==
    /\ MayCommit(c)
    /\ audited' \in {audited, [audited EXCEPT ![c] = @ \cup AuditedBy(c)]}
    /\ pc' = [pc EXCEPT ![c] = "answering"]
    /\ UNCHANGED <<now, visible, floor, query, cursor, page, got, first>>

CommitRead(c) ==
    /\ MayCommit(c)
    /\ audited' = [audited EXCEPT ![c] = @ \cup AuditedBy(c)]
    /\ pc' = [pc EXCEPT ![c] = "answering"]
    /\ UNCHANGED <<now, visible, floor, query, cursor, page, got, first>>

Oldest(rows) == rows[Len(rows)]

\* 200: the client has the page, and sends its cursor if there is more.
Respond(c) ==
    /\ pc[c] = "answering"
    /\ got' = [got EXCEPT ![c] = @ \o page[c].rows]
    /\ IF page[c].more
       THEN /\ cursor' = [cursor EXCEPT ![c] = encodeCursor(Oldest(page[c].rows))]
            /\ pc' = [pc EXCEPT ![c] = "asked"]
       ELSE /\ pc' = [pc EXCEPT ![c] = "done"]
            /\ UNCHANGED cursor
    /\ page' = [page EXCEPT ![c] = NoPage]
    /\ UNCHANGED <<now, visible, floor, query, first, audited>>

\* A statement, the audit insert or the commit fails (500, 503), the process
\* dies or the response is lost.  A commit may have landed all the same.  The
\* client asks for the same page again.
PageFails(c) ==
    /\ pc[c] \in {"read", "recorded", "answering"}
    /\ \/ UNCHANGED audited
       \/ MayCommit(c) /\ audited' = [audited EXCEPT ![c] = @ \cup AuditedBy(c)]
    /\ pc' = [pc EXCEPT ![c] = "asked"]
    /\ page' = [page EXCEPT ![c] = NoPage]
    /\ UNCHANGED <<now, visible, floor, query, cursor, got, first>>

-----------------------------------------------------------------------------
Serve(c) ==
    \/ Refuse(c) \/ scanIntents(c) \/ handleConflicts(c)
    \/ recordPayloadAccess(c) \/ CommitRead(c)

Next ==
    \/ Tick \/ RetireOldest
    \/ \E r \in Rows : CommitRow(r)
    \/ \E c \in Clients : Serve(c) \/ Respond(c) \/ PageFails(c)

Spec == Init /\ [][Next]_vars

\* A request that is not refused goes on. A page that is asked for over and
\* over is audited, committed and answered at last: no failure of one of the
\* three is for ever.
Fairness ==
    \A c \in Clients :
        /\ WF_vars(Serve(c))
        /\ SF_vars(recordPayloadAccess(c)) /\ SF_vars(CommitRead(c)) /\ SF_vars(Respond(c))

FairSpec == Spec /\ Fairness

-----------------------------------------------------------------------------
\* Pages are sent newest first and no row is sent twice, over all pages of a
\* walk, however many rows commit and however many pages are asked for again.
WalkDescends ==
    \A c \in Clients : \A i \in 1 .. Len(got[c]) - 1 : Before(got[c][i + 1], got[c][i])

\* A walk that came to its last page has every row that was in the window when
\* it began and has not been retired, rows of one timestamp included.
WalkComplete ==
    \A c \in Clients : pc[c] = "done" =>
        {r \in first[c] : r[1] >= floor} \subseteq Range(got[c])

\* "a payload cannot be returned unaudited": every row a client was sent with
\* its payload is named by a committed audit row of that client.
PayloadsAudited ==
    \A c \in Clients : query[c].payload => Range(got[c]) \subseteq audited[c]

\* A walk with an explicit until that was given its first page comes to its
\* last one, while rows keep arriving.
WalkEnds ==
    \A c \in Clients : cursor[c] # Nowhere /\ query[c].until # Open ~> pc[c] = "done"
=============================================================================
