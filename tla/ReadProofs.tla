----------------------------- MODULE ReadProofs -----------------------------
(***************************************************************************)
(* The walk over pages, for any rows, clients, limits and windows: pages   *)
(* descend, none of the first window's rows is missed, payloads are        *)
(* audited.                                                                *)
(***************************************************************************)
EXTENDS ReadAPI, FiniteSetTheorems, SequenceTheorems, TLAPS

\* A request that has read its page and not answered yet.
Reading == {"read", "recorded", "answering"}

Descending(s) == \A i, j \in 1 .. Len(s) : i < j => Before(s[j], s[i])

\* The rows a walk owes its client: those of its first window that were not
\* retired since.
Owed(c) == {r \in first[c] : r[1] >= floor}

\* The cursor is the last row sent, and what is owed still lies below it.
CursorInv(c) ==
    pc[c] # "done" =>
        IF got[c] = <<>>
        THEN cursor[c] = Nowhere
        ELSE /\ cursor[c] = encodeCursor(Oldest(got[c]))
             /\ \A r \in Owed(c) : r \in Range(got[c]) \/ Before(r, Oldest(got[c]))

\* The page read goes on below the last row sent; what is owed and not on it
\* lies below it, on pages to come.
PageInv(c) ==
    pc[c] \in Reading =>
        /\ Descending(page[c].rows)
        /\ got[c] # <<>> => \A r \in Range(page[c].rows) : Before(r, Oldest(got[c]))
        /\ \A r \in Owed(c) : \/ r \in Range(got[c]) \cup Range(page[c].rows)
                              \/ page[c].more /\ Before(r, Oldest(page[c].rows))

\* What is owed is still there to be read, and the window still reaches it.
WindowInv(c) ==
    /\ Owed(c) \subseteq visible
    /\ \A r \in first[c] : query[c].since <= r[1] /\ r[1] <= Until(query[c])

WalkInv(c) ==
    /\ Descending(got[c])
    /\ pc[c] = "done" => Owed(c) \subseteq Range(got[c])
    /\ CursorInv(c) /\ PageInv(c) /\ WindowInv(c)

ReadInv == \A c \in Clients : WalkInv(c)

\* The types, finitely many rows, and a cursor only for a page with rows.
ShapeInv ==
    /\ TypeOK /\ IsFiniteSet(visible)
    /\ \A c \in Clients : page[c].more => page[c].rows # <<>>

\* A page about to be answered with payloads is audited already.
AuditInv ==
    \A c \in Clients : query[c].payload =>
        /\ Range(got[c]) \subseteq audited[c]
        /\ pc[c] = "answering" => Range(page[c].rows) \subseteq audited[c]

-----------------------------------------------------------------------------
(* The order of rows and the cursor.                                       *)

\* A row is a timestamp of the clock's range and an identifier.
LEMMA RowShape ==
    ASSUME NEW r \in Rows
    PROVE  r[1] \in 1 .. MaxTime /\ r[2] \in Nat /\ r = <<r[1], r[2]>> /\ MaxTime \in Nat
BY ReadAssumption

\* (at, id) < (at, id) is a strict total order.
LEMMA BeforeOrder ==
    /\ \A r \in Rows : ~ Before(r, r)
    /\ \A r, s \in Rows : r = s \/ Before(r, s) \/ Before(s, r)
    /\ \A r, s, t \in Rows : Before(r, s) /\ Before(s, t) => Before(r, t)
<1>1. \A r \in Rows : ~ Before(r, r)
    BY RowShape DEF Before
<1>2. ASSUME NEW r \in Rows, NEW s \in Rows
      PROVE  r = s \/ Before(r, s) \/ Before(s, r)
    <2>1. CASE r[1] = s[1] /\ r[2] = s[2]
        BY <2>1, RowShape
    <2>2. CASE ~ (r[1] = s[1] /\ r[2] = s[2])
        BY <2>2, RowShape DEF Before
    <2>3. QED BY <2>1, <2>2
<1>3. ASSUME NEW r \in Rows, NEW s \in Rows, NEW t \in Rows, Before(r, s), Before(s, t)
      PROVE  Before(r, t)
    BY <1>3, RowShape DEF Before
<1>4. QED BY <1>1, <1>2, <1>3

\* The cursor's text gives its row back, and never looks like no cursor.
LEMMA CursorRoundTrip ==
    ASSUME NEW r \in Rows
    PROVE  decodeCursor(encodeCursor(r)) = r /\ encodeCursor(r) # Nowhere /\ r # Nowhere
<1>1. r[1] \in Nat /\ r[1] >= 1 /\ r = <<r[1], r[2]>>
    BY RowShape
<1>2. encodeCursor(r)[1] = 1000 * r[1] /\ encodeCursor(r)[2] = r[2]
    BY DEF encodeCursor, Nanos
<1>3. (1000 * r[1]) \div 1000 = r[1]
    BY <1>1
<1>4. decodeCursor(encodeCursor(r)) = r
    BY <1>1, <1>2, <1>3 DEF decodeCursor, Nanos
<1>5. encodeCursor(r) # Nowhere /\ r # Nowhere
    BY <1>1, <1>2 DEF Nowhere
<1>6. QED BY <1>4, <1>5

-----------------------------------------------------------------------------
(* The page.                                                               *)

Newer(S, r) == {s \in S : Before(r, s)}

\* Sorting a finite set of rows gives all of them, newest first.
LEMMA NewestFirst ==
    ASSUME NEW S \in SUBSET Rows, IsFiniteSet(S)
    PROVE  /\ newestFirst(S) \in Seq(S)
           /\ Len(newestFirst(S)) = Cardinality(S) /\ Cardinality(S) \in Nat
           /\ \A r \in S : \E i \in 1 .. Cardinality(S) : newestFirst(S)[i] = r
           /\ Descending(newestFirst(S))
<1> DEFINE n == Cardinality(S)
           rank == [r \in S |-> Cardinality(Newer(S, r))]
           s == newestFirst(S)
<1>1. n \in Nat
    BY FS_CardinalityType
<1>2. \A r \in S : Newer(S, r) \in SUBSET S /\ IsFiniteSet(Newer(S, r)) /\ rank[r] \in Nat
    <2> SUFFICES ASSUME NEW r \in S
                 PROVE  Newer(S, r) \in SUBSET S /\ IsFiniteSet(Newer(S, r)) /\ rank[r] \in Nat
        OBVIOUS
    <2>1. Newer(S, r) \in SUBSET S
        BY DEF Newer
    <2>2. IsFiniteSet(Newer(S, r))
        BY <2>1, FS_Subset
    <2>3. QED BY <2>1, <2>2, FS_CardinalityType
<1>3. ASSUME NEW r \in S, NEW t \in S, Before(r, t)
      PROVE  rank[t] < rank[r]
    <2>1. Newer(S, t) \in SUBSET Newer(S, r)
        BY <1>3, BeforeOrder DEF Newer
    <2>2. Newer(S, t) # Newer(S, r)
        BY <1>3, BeforeOrder DEF Newer
    <2>3. QED BY <1>2, <2>1, <2>2, FS_Subset
<1>4. \A r \in S : rank[r] \in 0 .. n - 1
    <2> SUFFICES ASSUME NEW r \in S PROVE rank[r] \in 0 .. n - 1
        OBVIOUS
    <2>1. Newer(S, r) # S
        BY BeforeOrder DEF Newer
    <2>2. rank[r] <= n /\ rank[r] # n
        BY <1>2, <2>1, FS_Subset
    <2>3. QED BY <1>1, <1>2, <2>2
<1>5. rank \in Surjection(S, 0 .. n - 1)
    <2>1. rank \in Injection(S, 0 .. n - 1)
        <3>1. rank \in [S -> 0 .. n - 1]
            BY <1>4
        <3>2. \A r, t \in S : rank[r] = rank[t] => r = t
            BY <1>2, <1>3, BeforeOrder
        <3>3. QED BY <3>1, <3>2 DEF Injection, IsInjective
    <2>2. IsFiniteSet(0 .. n - 1) /\ Cardinality(0 .. n - 1) = n
        BY <1>1, FS_Interval
    <2>3. QED BY <2>1, <2>2, FS_Injection
<1>6. \A i \in 1 .. n : s[i] \in S /\ rank[s[i]] = i - 1
    <2> SUFFICES ASSUME NEW i \in 1 .. n PROVE s[i] \in S /\ rank[s[i]] = i - 1
        OBVIOUS
    <2>1. i - 1 \in 0 .. n - 1
        BY <1>1
    <2>2. \E r \in S : Cardinality(Newer(S, r)) = i - 1
        BY <1>5, <2>1 DEF Surjection
    <2>3. s[i] = CHOOSE r \in S : Cardinality(Newer(S, r)) = i - 1
        BY DEF newestFirst, Newer
    <2>4. s[i] \in S /\ Cardinality(Newer(S, s[i])) = i - 1
        BY <2>2, <2>3
    <2>5. QED BY <2>4
<1>7. s = [i \in 1 .. n |-> s[i]]
    <2> DEFINE Nth(i) == CHOOSE r \in S : Cardinality({t \in S : Before(r, t)}) = i - 1
    <2>1. s = [i \in 1 .. n |-> Nth(i)]
        BY DEF newestFirst
    <2> HIDE DEF Nth, s
    <2>2. QED BY <2>1
<1> HIDE DEF s, n, rank
<1>8. s \in Seq(S) /\ Len(s) = n
    BY <1>1, <1>6, <1>7
<1>9. \A r \in S : \E i \in 1 .. n : s[i] = r
    <2> SUFFICES ASSUME NEW r \in S PROVE \E i \in 1 .. n : s[i] = r
        OBVIOUS
    <2>1. rank[r] + 1 \in 1 .. n /\ rank[r] \in Nat
        BY <1>1, <1>2, <1>4
    <2>2. s[rank[r] + 1] \in S /\ rank[s[rank[r] + 1]] = rank[r]
        BY <1>6, <2>1
    <2>3. s[rank[r] + 1] = r
        BY <1>2, <1>3, <2>1, <2>2, BeforeOrder
    <2>4. QED BY <2>1, <2>3
<1>10. Descending(s)
    <2> SUFFICES ASSUME NEW i \in 1 .. n, NEW j \in 1 .. n, i < j PROVE Before(s[j], s[i])
        BY <1>8 DEF Descending
    <2>1. s[i] \in S /\ s[j] \in S /\ rank[s[i]] < rank[s[j]]
        BY <1>1, <1>6
    <2>2. ~ Before(s[i], s[j]) /\ s[i] # s[j]
        BY <1>2, <1>3, <2>1
    <2>3. QED BY <2>1, <2>2, BeforeOrder
<1>11. QED BY <1>1, <1>8, <1>9, <1>10 DEF s, n

\* What SubSeq leaves of a sequence.
LEMMA Prefix ==
    ASSUME NEW S, NEW s \in Seq(S), NEW n \in 1 .. Len(s)
    PROVE  /\ SubSeq(s, 1, n) \in Seq(S) /\ Len(SubSeq(s, 1, n)) = n
           /\ \A i \in 1 .. n : SubSeq(s, 1, n)[i] = s[i]
           /\ SubSeq(s, 1, n) = [i \in 1 .. n |-> s[i]]
<1>1. \A i \in 1 .. n : s[i] \in S
    OBVIOUS
<1>2. QED BY <1>1, SubSeqProperties

\* LIMIT limit + 1 and paginate together.
LEMMA PaginateLimit ==
    ASSUME NEW S, NEW s \in Seq(S), NEW limit \in Nat \ {0}, NEW rows,
           rows = IF Len(s) <= limit + 1 THEN s ELSE SubSeq(s, 1, limit + 1)
    PROVE  paginate(rows, limit) =
               IF Len(s) <= limit THEN [rows |-> s, more |-> FALSE]
                                  ELSE [rows |-> SubSeq(s, 1, limit), more |-> TRUE]
<1>1. Len(s) \in Nat
    OBVIOUS
<1>2. CASE Len(s) <= limit
    <2>1. rows = s
        BY <1>1, <1>2
    <2>2. QED BY <1>2, <2>1 DEF paginate
<1>3. CASE Len(s) = limit + 1
    <2>1. rows = s /\ ~ (Len(s) <= limit)
        BY <1>3
    <2>2. QED BY <2>1 DEF paginate
<1>4. CASE Len(s) > limit + 1
    <2>1. limit + 1 \in 1 .. Len(s) /\ limit \in 1 .. Len(s) /\ ~ (Len(s) <= limit)
        BY <1>1, <1>4
    <2>2. rows = SubSeq(s, 1, limit + 1)
        BY <1>1, <1>4
    <2>3. rows \in Seq(S) /\ Len(rows) = limit + 1 /\ \A i \in 1 .. limit + 1 : rows[i] = s[i]
        BY <2>1, <2>2, Prefix
    <2>4. limit \in 1 .. Len(rows) /\ ~ (Len(rows) <= limit)
        BY <2>3
    <2>5. SubSeq(rows, 1, limit) = [i \in 1 .. limit |-> rows[i]]
        BY <2>3, <2>4, Prefix
    <2>6. SubSeq(s, 1, limit) = [i \in 1 .. limit |-> s[i]]
        BY <2>1, Prefix
    <2>7. \A i \in 1 .. limit : rows[i] = s[i]
        BY <2>3
    <2>8. SubSeq(rows, 1, limit) = SubSeq(s, 1, limit)
        BY <2>5, <2>6, <2>7
    <2>9. QED BY <2>1, <2>4, <2>8 DEF paginate
<1>5. QED BY <1>1, <1>2, <1>3, <1>4

\* A page of S: rows of it, newest first, and more exactly when some are left,
\* all older than these.
IsPageOf(p, S) ==
    /\ p \in [rows : Seq(S), more : BOOLEAN]
    /\ Descending(p.rows)
    /\ p.more => p.rows # <<>>
    /\ \A r \in S : r \in Range(p.rows) \/ (p.more /\ Before(r, Oldest(p.rows)))

\* What LIMIT and paginate leave of the sorted rows is a page of them.
LEMMA PaginateSorted ==
    ASSUME NEW S \in SUBSET Rows, NEW s \in Seq(S), Descending(s),
           \A r \in S : \E i \in 1 .. Len(s) : s[i] = r,
           NEW limit \in Nat \ {0}
    PROVE  /\ IsPageOf([rows |-> s, more |-> FALSE], S)
           /\ limit < Len(s) => IsPageOf([rows |-> SubSeq(s, 1, limit), more |-> TRUE], S)
<1>1. Len(s) \in Nat /\ DOMAIN s = 1 .. Len(s)
    OBVIOUS
<1>2. IsPageOf([rows |-> s, more |-> FALSE], S)
    BY <1>1 DEF IsPageOf, Range
<1>3. ASSUME limit < Len(s)
      PROVE  IsPageOf([rows |-> SubSeq(s, 1, limit), more |-> TRUE], S)
    <2> DEFINE cut == SubSeq(s, 1, limit)
    <2>1. limit \in 1 .. Len(s)
        BY <1>1, <1>3
    <2>2. cut \in Seq(S) /\ Len(cut) = limit /\ \A i \in 1 .. limit : cut[i] = s[i]
        BY <2>1, Prefix
    <2> HIDE DEF cut
    <2>3. DOMAIN cut = 1 .. limit
        BY <2>2
    <2>4. Descending(cut)
        BY <1>1, <1>3, <2>2 DEF Descending
    <2>5. cut # <<>> /\ Oldest(cut) = s[limit]
        BY <2>2 DEF Oldest
    <2>6. ASSUME NEW r \in S
          PROVE  r \in Range(cut) \/ Before(r, Oldest(cut))
        <3>1. PICK i \in 1 .. Len(s) : s[i] = r
            OBVIOUS
        <3>2. CASE i <= limit
            <4>1. i \in 1 .. limit
                BY <1>1, <3>2
            <4>2. i \in DOMAIN cut /\ cut[i] = r
                BY <2>2, <2>3, <3>1, <4>1
            <4>3. QED BY <4>2 DEF Range
        <3>3. CASE i > limit
            <4>1. \A j, k \in 1 .. Len(s) : j < k => Before(s[k], s[j])
                BY DEF Descending
            <4>2. Before(s[i], s[limit])
                BY <2>1, <3>3, <4>1
            <4>3. QED BY <2>5, <3>1, <4>2
        <3>4. QED BY <3>2, <3>3
    <2>7. QED BY <2>2, <2>4, <2>5, <2>6 DEF IsPageOf, cut
<1>4. QED BY <1>2, <1>3

Matching(c) == {r \in Window(query[c]) : PastCursor(r, decodeCursor(cursor[c]))}

\* The page a request reads is a page of the rows that match.
LEMMA PageRead ==
    ASSUME NEW c \in Clients, Matching(c) \in SUBSET Rows, IsFiniteSet(Matching(c)),
           query[c].limit \in Nat \ {0}
    PROVE  IsPageOf(paginate(scanRows(c), query[c].limit), Matching(c))
<1> DEFINE s == newestFirst(Matching(c))
<1>1. /\ s \in Seq(Matching(c)) /\ Descending(s)
      /\ \A r \in Matching(c) : \E i \in 1 .. Len(s) : s[i] = r
    BY NewestFirst
<1>2. scanRows(c) = IF Len(s) <= query[c].limit + 1 THEN s ELSE SubSeq(s, 1, query[c].limit + 1)
    BY DEF scanRows, Matching
<1> HIDE DEF s
<1>3. paginate(scanRows(c), query[c].limit) =
          IF Len(s) <= query[c].limit
          THEN [rows |-> s, more |-> FALSE]
          ELSE [rows |-> SubSeq(s, 1, query[c].limit), more |-> TRUE]
    BY <1>1, <1>2, PaginateLimit
<1>4. /\ IsPageOf([rows |-> s, more |-> FALSE], Matching(c))
      /\ query[c].limit < Len(s) =>
             IsPageOf([rows |-> SubSeq(s, 1, query[c].limit), more |-> TRUE], Matching(c))
    BY <1>1, PaginateSorted
<1>5. Len(s) <= query[c].limit \/ query[c].limit < Len(s)
    BY <1>1
<1>6. CASE Len(s) <= query[c].limit
    BY <1>3, <1>4, <1>6
<1>7. CASE query[c].limit < Len(s)
    <2>1. ~ (Len(s) <= query[c].limit)
        BY <1>1, <1>7
    <2>2. QED BY <1>3, <1>4, <1>7, <2>1
<1>8. QED BY <1>5, <1>6, <1>7

-----------------------------------------------------------------------------
(* Types.                                                                  *)

\* What an admitted request reads.
LEMMA ScanPage ==
    ASSUME ShapeInv, NEW c \in Clients, Admitted(query[c])
    PROVE  /\ Matching(c) \in SUBSET Rows
           /\ IsPageOf(paginate(scanRows(c), query[c].limit), Matching(c))
<1>1. query[c] \in Queries /\ visible \in SUBSET Rows /\ IsFiniteSet(visible)
    BY DEF ShapeInv, TypeOK
<1>2. query[c].limit \in Nat \ {0}
    BY ReadAssumption DEF Admitted, readWindow
<1>3. Matching(c) \in SUBSET visible
    BY DEF Matching, Window
<1>4. IsFiniteSet(Matching(c)) /\ Matching(c) \in SUBSET Rows
    BY <1>1, <1>3, FS_Subset
<1>5. QED BY <1>2, <1>4, PageRead

\* Oldest row and rows of a sequence.
LEMMA RowsOf ==
    ASSUME NEW s \in Seq(Rows)
    PROVE  /\ Range(s) \in SUBSET Rows
           /\ s # <<>> => /\ Oldest(s) \in Rows /\ Oldest(s) \in Range(s)
                          /\ encodeCursor(Oldest(s)) \in Nat \X Nat
<1>1. DOMAIN s = 1 .. Len(s) /\ Len(s) \in Nat /\ \A i \in 1 .. Len(s) : s[i] \in Rows
    OBVIOUS
<1>2. Range(s) \in SUBSET Rows
    BY <1>1 DEF Range
<1>3. ASSUME s # <<>>
      PROVE  /\ Oldest(s) \in Rows /\ Oldest(s) \in Range(s)
             /\ encodeCursor(Oldest(s)) \in Nat \X Nat
    <2>1. Len(s) \in 1 .. Len(s)
        BY <1>1, <1>3, EmptySeq
    <2>2. Oldest(s) \in Rows /\ Oldest(s) \in Range(s)
        BY <1>1, <2>1 DEF Oldest, Range
    <2>3. QED BY <2>2, RowShape DEF encodeCursor, Nanos
<1>4. QED BY <1>2, <1>3

\* A request without a page.
LEMMA NoPageShape == NoPage \in [rows : Seq(Rows), more : BOOLEAN] /\ ~ NoPage.more
BY EmptySeq DEF NoPage

\* Every step keeps the shapes; a cursor is made only of a page with rows.
LEMMA ShapeStep == ShapeInv /\ [Next]_vars => ShapeInv'
<1> SUFFICES ASSUME ShapeInv, [Next]_vars PROVE ShapeInv'
    OBVIOUS
<1>1. CASE Tick \/ RetireOldest \/ \E r \in Rows : CommitRow(r)
    <2>1. UNCHANGED clientVars
        BY <1>1 DEF Tick, RetireOldest, CommitRow
    <2>2. /\ now' \in 1 .. MaxTime /\ floor' \in 0 .. MaxTime /\ visible' \in SUBSET Rows
        BY <1>1, ReadAssumption DEF Tick, RetireOldest, CommitRow, ShapeInv, TypeOK
    <2>3. IsFiniteSet(visible')
        <3>1. CASE Tick
            BY <3>1 DEF Tick, ShapeInv
        <3>2. CASE RetireOldest
            <4>1. visible' \in SUBSET visible
                BY <3>2 DEF RetireOldest
            <4>2. QED BY <4>1, FS_Subset DEF ShapeInv
        <3>3. ASSUME NEW r \in Rows, CommitRow(r) PROVE IsFiniteSet(visible')
            BY <3>3, FS_AddElement DEF CommitRow, ShapeInv
        <3>4. QED BY <1>1, <3>1, <3>2, <3>3
    <2>4. QED BY <2>1, <2>2, <2>3 DEF ShapeInv, TypeOK, clientVars
<1>2. ASSUME NEW c \in Clients, Refuse(c) \/ recordPayloadAccess(c) PROVE ShapeInv'
    BY <1>2 DEF Refuse, recordPayloadAccess, ShapeInv, TypeOK
<1>3. ASSUME NEW c \in Clients, NEW label \in Reading, Scan(c, label) PROVE ShapeInv'
    <2> DEFINE p == paginate(scanRows(c), query[c].limit)
    <2>1. p \in [rows : Seq(Rows), more : BOOLEAN] /\ (p.more => p.rows # <<>>)
        <3>1. IsPageOf(p, Matching(c)) /\ Matching(c) \in SUBSET Rows
            BY <1>3, ScanPage DEF Scan
        <3> HIDE DEF p
        <3>2. p \in [rows : Seq(Matching(c)), more : BOOLEAN] /\ (p.more => p.rows # <<>>)
            BY <3>1 DEF IsPageOf
        <3>3. p.rows \in Seq(Rows)
            BY <3>1, <3>2, SeqMonotonic
        <3>4. QED BY <3>2, <3>3
    <2>2. page' = [page EXCEPT ![c] = p] /\ pc' = [pc EXCEPT ![c] = label]
        BY <1>3 DEF Scan
    <2> HIDE DEF p
    <2>3. /\ page' \in [Clients -> [rows : Seq(Rows), more : BOOLEAN]]
          /\ \A d \in Clients : page'[d].more => page'[d].rows # <<>>
        BY <2>1, <2>2 DEF ShapeInv, TypeOK
    <2>4. first' \in [Clients -> SUBSET Rows]
        BY <1>3 DEF Scan, ShapeInv, TypeOK, Window
    <2>5. pc' \in [Clients -> {"asked", "read", "recorded", "answering", "refused", "done"}]
        BY <2>2 DEF ShapeInv, TypeOK, Reading
    <2>6. UNCHANGED <<now, visible, floor, query, cursor, got, audited>>
        BY <1>3 DEF Scan
    <2>7. QED BY <2>3, <2>4, <2>5, <2>6 DEF ShapeInv, TypeOK
<1>4. ASSUME NEW c \in Clients, CommitRead(c) \/ PageFails(c) PROVE ShapeInv'
    <2>1. AuditedBy(c) \in SUBSET Rows
        BY RowsOf DEF AuditedBy, ShapeInv, TypeOK
    <2>2. audited' \in [Clients -> SUBSET Rows]
        <3>1. audited' \in {audited, [audited EXCEPT ![c] = audited[c] \cup AuditedBy(c)]}
            BY <1>4 DEF CommitRead, PageFails
        <3>2. audited \in [Clients -> SUBSET Rows]
            BY DEF ShapeInv, TypeOK
        <3>3. QED BY <2>1, <3>1, <3>2
    <2>3. pc' \in [Clients -> {"asked", "read", "recorded", "answering", "refused", "done"}]
        BY <1>4 DEF CommitRead, PageFails, ShapeInv, TypeOK
    <2>4. /\ page' \in [Clients -> [rows : Seq(Rows), more : BOOLEAN]]
          /\ \A d \in Clients : page'[d].more => page'[d].rows # <<>>
        <3>1. CASE page' = page
            BY <3>1 DEF ShapeInv, TypeOK
        <3>2. CASE page' = [page EXCEPT ![c] = NoPage]
            BY <3>2, NoPageShape DEF ShapeInv, TypeOK
        <3>3. QED BY <1>4, <3>1, <3>2 DEF CommitRead, PageFails
    <2>5. UNCHANGED <<now, visible, floor, query, cursor, got, first>>
        BY <1>4 DEF CommitRead, PageFails
    <2>6. QED BY <2>2, <2>3, <2>4, <2>5 DEF ShapeInv, TypeOK
<1>5. ASSUME NEW c \in Clients, Respond(c) PROVE ShapeInv'
    <2>1. got' \in [Clients -> Seq(Rows)]
        <3>1. got' = [got EXCEPT ![c] = got[c] \o page[c].rows]
            BY <1>5 DEF Respond
        <3>2. got[c] \in Seq(Rows) /\ page[c].rows \in Seq(Rows) /\ got \in [Clients -> Seq(Rows)]
            BY DEF ShapeInv, TypeOK
        <3>3. got[c] \o page[c].rows \in Seq(Rows)
            BY <3>2, ConcatProperties
        <3>4. QED BY <3>1, <3>2, <3>3
    <2>2. cursor' \in [Clients -> Nat \X Nat]
        <3>1. \/ cursor' = cursor
              \/ page[c].more /\ cursor' = [cursor EXCEPT ![c] = encodeCursor(Oldest(page[c].rows))]
            BY <1>5 DEF Respond
        <3>2. cursor \in [Clients -> Nat \X Nat] /\ page[c].rows \in Seq(Rows)
            BY DEF ShapeInv, TypeOK
        <3>3. page[c].more => encodeCursor(Oldest(page[c].rows)) \in Nat \X Nat
            BY <3>2, RowsOf DEF ShapeInv
        <3>4. QED BY <3>1, <3>2, <3>3
    <2>3. pc' \in [Clients -> {"asked", "read", "recorded", "answering", "refused", "done"}]
        BY <1>5 DEF Respond, ShapeInv, TypeOK
    <2>4. /\ page' \in [Clients -> [rows : Seq(Rows), more : BOOLEAN]]
          /\ \A d \in Clients : page'[d].more => page'[d].rows # <<>>
        <3>1. page' = [page EXCEPT ![c] = NoPage]
            BY <1>5 DEF Respond
        <3>2. QED BY <3>1, NoPageShape DEF ShapeInv, TypeOK
    <2>5. UNCHANGED <<now, visible, floor, query, first, audited>>
        BY <1>5 DEF Respond
    <2>6. QED BY <2>1, <2>2, <2>3, <2>4, <2>5 DEF ShapeInv, TypeOK
<1>6. CASE UNCHANGED vars
    BY <1>6 DEF vars, ShapeInv, TypeOK
<1>7. QED BY <1>1, <1>2, <1>3, <1>4, <1>5, <1>6
          DEF Next, Serve, scanIntents, handleConflicts, Reading

-----------------------------------------------------------------------------
(* The walk.                                                               *)

\* What the proofs below need of the types.
LEMMA ReadShapes ==
    ASSUME ShapeInv, NEW c \in Clients
    PROVE  /\ got[c] \in Seq(Rows) /\ page[c].rows \in Seq(Rows)
           /\ first[c] \in SUBSET Rows /\ visible \in SUBSET Rows
           /\ pc = [d \in Clients |-> pc[d]] /\ page = [d \in Clients |-> page[d]]
           /\ got = [d \in Clients |-> got[d]] /\ first = [d \in Clients |-> first[d]]
           /\ cursor = [d \in Clients |-> cursor[d]] /\ audited = [d \in Clients |-> audited[d]]
           /\ now \in Nat /\ floor \in Nat /\ \A r \in Rows : r[1] \in Nat
           /\ page[c].more \in BOOLEAN /\ (page[c].more => page[c].rows # <<>>)
<1>1. \A r \in Rows : r[1] \in Nat
    BY RowShape
<1>2. now \in Nat /\ floor \in Nat
    BY ReadAssumption DEF ShapeInv, TypeOK
<1>3. QED BY <1>1, <1>2 DEF ShapeInv, TypeOK

\* A step that neither reads a page for the client nor answers it keeps what
\* is known of its walk, while rows come and go.
LEMMA WalkKept ==
    ASSUME NEW c \in Clients, WalkInv(c),
           got'[c] = got[c], cursor'[c] = cursor[c],
           pc[c] = "done" <=> pc'[c] = "done",
           pc'[c] \in Reading => pc[c] \in Reading /\ page'[c] = page[c],
           Owed(c)' \subseteq Owed(c), WindowInv(c)'
    PROVE  WalkInv(c)'
<1>1. CursorInv(c)'
    BY DEF WalkInv, CursorInv
<1>2. PageInv(c)'
    BY DEF WalkInv, PageInv
<1>3. QED BY <1>1, <1>2 DEF WalkInv

\* Rows come, time passes, the oldest partition goes.
LEMMA TablesStep ==
    ASSUME ShapeInv, NEW c \in Clients, WalkInv(c),
           Tick \/ RetireOldest \/ \E r \in Rows : CommitRow(r)
    PROVE  WalkInv(c)'
<1> USE ReadShapes
<1>1. UNCHANGED <<query, cursor, pc, page, got, first, audited>>
    BY DEF Tick, RetireOldest, CommitRow, clientVars
<1>2. floor' \in Nat /\ floor' >= floor /\ now' \in Nat /\ now' >= now
    BY DEF Tick, RetireOldest, CommitRow
<1>3. \A r \in Rows : r \in visible /\ r[1] >= floor' => r \in visible'
    BY DEF Tick, RetireOldest, CommitRow
<1>4. Owed(c)' \subseteq Owed(c)
    BY <1>1, <1>2 DEF Owed
<1>5. Owed(c)' \subseteq visible'
    BY <1>1, <1>3, <1>4 DEF Owed, WalkInv, WindowInv
<1>6. \A r \in first[c] : query[c].since <= r[1] /\ r[1] <= Until(query[c])'
    BY <1>1, <1>2 DEF WalkInv, WindowInv, Until
<1>7. WindowInv(c)'
    BY <1>1, <1>5, <1>6 DEF WindowInv
<1>8. QED BY <1>1, <1>4, <1>7, WalkKept

\* A page is read: below the cursor, from the window as it is now.
LEMMA ScanStep ==
    ASSUME ShapeInv, NEW c \in Clients, WalkInv(c), NEW label \in Reading, Scan(c, label)
    PROVE  WalkInv(c)'
<1> USE ReadShapes
<1> DEFINE p == paginate(scanRows(c), query[c].limit)
<1>1. IsPageOf(p, Matching(c)) /\ Matching(c) \in SUBSET Rows
    BY ScanPage DEF Scan
<1>2. /\ page'[c] = p /\ pc'[c] = label /\ pc[c] = "asked"
      /\ UNCHANGED <<now, visible, floor, query, cursor, got>>
    BY DEF Scan
<1> HIDE DEF p
<1>3. p.rows \in Seq(Matching(c)) /\ Range(p.rows) \subseteq Matching(c)
    BY <1>1 DEF IsPageOf, Range
<1>4. pc[c] # "done" /\ label \in Reading /\ label # "done"
    BY <1>2 DEF Reading
<1>5. CASE got[c] = <<>>
    <2>1. cursor[c] = Nowhere /\ first'[c] = Window(query[c])
        BY <1>4, <1>5 DEF WalkInv, CursorInv, Scan
    <2>2. decodeCursor(Nowhere) = Nowhere
        BY DEF decodeCursor, Nowhere, Nanos
    <2>3. Matching(c) = Window(query[c])
        BY <2>1, <2>2 DEF Matching, PastCursor
    <2>4. Owed(c)' \subseteq Matching(c)
        BY <2>1, <2>3 DEF Owed
    <2>5. PageInv(c)'
        BY <1>1, <1>2, <1>5, <2>4 DEF PageInv, IsPageOf
    <2>6. WindowInv(c)'
        BY <1>2, <2>1, <2>3, <2>4 DEF WindowInv, Window, Until
    <2>7. CursorInv(c)'
        BY <1>2, <1>5, <2>1 DEF CursorInv
    <2>8. QED BY <1>2, <1>4, <2>5, <2>6, <2>7 DEF WalkInv
<1>6. CASE got[c] # <<>>
    <2> DEFINE o == Oldest(got[c])
    <2>1. o \in Rows
        BY <1>6, RowsOf
    <2>2. cursor[c] = encodeCursor(o) /\ decodeCursor(cursor[c]) = o /\ o # Nowhere /\ cursor[c] # Nowhere
        BY <1>4, <1>6, <2>1, CursorRoundTrip DEF WalkInv, CursorInv
    <2> HIDE DEF o
    <2>3. first'[c] = first[c]
        BY <2>2 DEF Scan
    <2>4. Matching(c) = {r \in Window(query[c]) : Before(r, o)}
        BY <2>2 DEF Matching, PastCursor
    <2>5. Owed(c)' = Owed(c) /\ WindowInv(c)'
        BY <1>2, <2>3 DEF Owed, WalkInv, WindowInv, Until
    <2>6. \A r \in Owed(c) : r \in Range(got[c]) \/ r \in Matching(c)
        BY <1>4, <1>6, <2>4 DEF WalkInv, WindowInv, CursorInv, Window, Owed, o
    <2>7. PageInv(c)'
        BY <1>1, <1>2, <1>3, <2>4, <2>5, <2>6 DEF PageInv, IsPageOf, o
    <2>8. CursorInv(c)'
        BY <1>2, <1>4, <2>5 DEF WalkInv, CursorInv
    <2>9. QED BY <1>2, <1>4, <2>5, <2>7, <2>8 DEF WalkInv
<1>7. QED BY <1>5, <1>6

\* The rows of two sequences sent one after the other.
LEMMA RangeConcat ==
    ASSUME NEW s \in Seq(Rows), NEW t \in Seq(Rows)
    PROVE  Range(s \o t) = Range(s) \cup Range(t)
<1> DEFINE u == s \o t
           m == Len(s)
           n == Len(t)
<1>1. /\ m \in Nat /\ n \in Nat
      /\ DOMAIN u = 1 .. m + n /\ DOMAIN s = 1 .. m /\ DOMAIN t = 1 .. n
      /\ \A i \in 1 .. m : u[i] = s[i]
      /\ \A i \in 1 .. n : u[m + i] = t[i]
    BY ConcatProperties
<1> HIDE DEF u, m, n
<1>2. ASSUME NEW r \in Range(u) PROVE r \in Range(s) \cup Range(t)
    <2>1. PICK i \in 1 .. m + n : u[i] = r
        BY <1>1 DEF Range
    <2>2. CASE i \in 1 .. m
        BY <1>1, <2>1, <2>2 DEF Range
    <2>3. CASE i \notin 1 .. m
        <3>1. i - m \in 1 .. n /\ i = m + (i - m)
            BY <1>1, <2>3
        <3>2. t[i - m] = r
            BY <1>1, <2>1, <3>1
        <3>3. QED BY <1>1, <3>1, <3>2 DEF Range
    <2>4. QED BY <2>2, <2>3
<1>3. ASSUME NEW r \in Range(s) PROVE r \in Range(u)
    <2>1. PICK i \in 1 .. m : s[i] = r
        BY <1>1 DEF Range
    <2>2. i \in DOMAIN u /\ u[i] = r
        BY <1>1, <2>1
    <2>3. QED BY <2>2 DEF Range
<1>4. ASSUME NEW r \in Range(t) PROVE r \in Range(u)
    <2>1. PICK i \in 1 .. n : t[i] = r
        BY <1>1 DEF Range
    <2>2. m + i \in DOMAIN u /\ u[m + i] = r
        BY <1>1, <2>1
    <2>3. QED BY <2>2 DEF Range
<1>5. QED BY <1>2, <1>3, <1>4 DEF u

\* One descending sequence below another.
LEMMA DescendingConcat ==
    ASSUME NEW s \in Seq(Rows), NEW t \in Seq(Rows), Descending(s), Descending(t),
           s # <<>> => \A r \in Range(t) : Before(r, Oldest(s))
    PROVE  /\ Descending(s \o t)
           /\ Range(s \o t) = Range(s) \cup Range(t)
           /\ t # <<>> => Oldest(s \o t) = Oldest(t) /\ s \o t # <<>>
<1> DEFINE u == s \o t
           m == Len(s)
           n == Len(t)
<1>1. /\ u \in Seq(Rows) /\ Len(u) = m + n /\ m \in Nat /\ n \in Nat
      /\ DOMAIN u = 1 .. m + n /\ DOMAIN s = 1 .. m /\ DOMAIN t = 1 .. n
      /\ \A i \in 1 .. m : u[i] = s[i] /\ s[i] \in Rows
      /\ \A i \in 1 .. n : u[m + i] = t[i] /\ t[i] \in Rows /\ t[i] \in Range(t)
    BY ConcatProperties DEF Range
<1> HIDE DEF u, m, n
<1>2. ASSUME NEW i \in 1 .. m + n, i \notin 1 .. m
      PROVE  i - m \in 1 .. n /\ u[i] = t[i - m]
    <2>1. i - m \in 1 .. n /\ i = m + (i - m)
        BY <1>1, <1>2
    <2>2. QED BY <1>1, <2>1
<1>3. ASSUME NEW i \in 1 .. m + n, NEW j \in 1 .. m + n, i < j
      PROVE  Before(u[j], u[i])
    <2>1. CASE j \in 1 .. m
        <3>1. i \in 1 .. m
            BY <1>1, <1>3, <2>1
        <3>2. Before(s[j], s[i])
            BY <1>3, <2>1, <3>1 DEF Descending, m
        <3>3. QED BY <1>1, <2>1, <3>1, <3>2
    <2>2. CASE i \notin 1 .. m
        <3>1. j \notin 1 .. m
            BY <1>1, <1>3, <2>2
        <3>2. /\ i - m \in 1 .. n /\ j - m \in 1 .. n
              /\ u[i] = t[i - m] /\ u[j] = t[j - m]
            BY <1>2, <2>2, <3>1
        <3>3. i - m < j - m
            BY <1>1, <1>3
        <3>4. Before(t[j - m], t[i - m])
            BY <3>2, <3>3 DEF Descending, n
        <3>5. QED BY <3>2, <3>4
    <2>3. CASE i \in 1 .. m /\ j \notin 1 .. m
        <3>1. j - m \in 1 .. n /\ u[j] = t[j - m] /\ u[i] = s[i]
            BY <1>1, <1>2, <2>3
        <3>2. s # <<>> /\ m \in 1 .. m /\ Oldest(s) = s[m]
            BY <1>1, <2>3 DEF Oldest, m
        <3>3. Before(t[j - m], s[m])
            BY <1>1, <3>1, <3>2
        <3>4. i = m \/ Before(s[m], s[i])
            <4>1. i = m \/ i < m
                BY <1>1, <2>3
            <4>2. QED BY <2>3, <3>2, <4>1 DEF Descending, m
        <3>5. s[m] \in Rows /\ s[i] \in Rows /\ t[j - m] \in Rows
            BY <1>1, <2>3, <3>1, <3>2
        <3>6. Before(t[j - m], s[i])
            BY <3>3, <3>4, <3>5, BeforeOrder
        <3>7. QED BY <3>1, <3>6
    <2>4. QED BY <2>1, <2>2, <2>3
<1>4. Descending(u)
    BY <1>1, <1>3 DEF Descending
<1>5. Range(u) = Range(s) \cup Range(t)
    BY RangeConcat DEF u
<1>6. ASSUME t # <<>> PROVE Oldest(u) = Oldest(t) /\ u # <<>>
    <2>1. n \in 1 .. n
        BY <1>1, <1>6, EmptySeq DEF n
    <2>2. u[m + n] = t[n] /\ m + n # 0
        BY <1>1, <2>1
    <2>3. Oldest(u) = u[m + n] /\ Oldest(t) = t[n]
        BY <1>1 DEF Oldest, n
    <2>4. u # <<>>
        BY <1>1, <2>1, <2>2
    <2>5. QED BY <2>2, <2>3, <2>4
<1>7. QED BY <1>4, <1>5, <1>6 DEF u

\* The client is sent its page, and its cursor or the end of the walk.
LEMMA RespondStep ==
    ASSUME ShapeInv, NEW c \in Clients, WalkInv(c), Respond(c)
    PROVE  WalkInv(c)'
<1> USE ReadShapes
<1> DEFINE rows == page[c].rows
<1>1. pc[c] = "answering" /\ got'[c] = got[c] \o rows
      /\ UNCHANGED <<now, visible, floor, query, first>>
    BY DEF Respond
<1>2. /\ Descending(rows) /\ Descending(got[c])
      /\ got[c] # <<>> => \A r \in Range(rows) : Before(r, Oldest(got[c]))
      /\ \A r \in Owed(c) : \/ r \in Range(got[c]) \cup Range(rows)
                            \/ page[c].more /\ Before(r, Oldest(rows))
    BY <1>1 DEF WalkInv, PageInv, Reading
<1>3. /\ Descending(got'[c]) /\ Range(got'[c]) = Range(got[c]) \cup Range(rows)
      /\ rows # <<>> => Oldest(got'[c]) = Oldest(rows) /\ got'[c] # <<>>
    BY <1>1, <1>2, DescendingConcat
<1>4. Owed(c)' = Owed(c) /\ WindowInv(c)'
    BY <1>1 DEF Owed, WalkInv, WindowInv, Until
<1>5. CASE page[c].more
    <2>1. pc'[c] = "asked" /\ cursor'[c] = encodeCursor(Oldest(rows)) /\ rows # <<>>
        BY <1>5 DEF Respond
    <2>2. CursorInv(c)'
        BY <1>2, <1>3, <1>4, <2>1 DEF CursorInv
    <2>3. PageInv(c)'
        BY <2>1 DEF PageInv, Reading
    <2>4. QED BY <1>3, <1>4, <2>1, <2>2, <2>3 DEF WalkInv
<1>6. CASE ~ page[c].more
    <2>1. pc'[c] = "done"
        BY <1>6 DEF Respond
    <2>2. Owed(c)' \subseteq Range(got'[c])
        BY <1>2, <1>3, <1>4, <1>6
    <2>3. CursorInv(c)' /\ PageInv(c)'
        BY <2>1 DEF CursorInv, PageInv, Reading
    <2>4. QED BY <1>3, <1>4, <2>2, <2>3 DEF WalkInv
<1>7. QED BY <1>5, <1>6

\* The steps of one client leave the walks of the others alone.
LEMMA OtherWalks ==
    ASSUME ShapeInv, NEW c \in Clients, NEW d \in Clients \ {c}, WalkInv(d),
           Serve(c) \/ Respond(c) \/ PageFails(c)
    PROVE  WalkInv(d)'
<1> USE ReadShapes
<1>1. UNCHANGED <<now, visible, floor, query>>
    BY DEF Serve, Refuse, scanIntents, handleConflicts, Scan, recordPayloadAccess, CommitRead,
           Respond, PageFails
<1>2. /\ pc'[d] = pc[d] /\ page'[d] = page[d] /\ got'[d] = got[d]
      /\ cursor'[d] = cursor[d] /\ first'[d] = first[d]
    BY DEF Serve, Refuse, scanIntents, handleConflicts, Scan, recordPayloadAccess, CommitRead,
           Respond, PageFails
<1>3. Owed(d)' = Owed(d) /\ WindowInv(d)'
    BY <1>1, <1>2 DEF Owed, WalkInv, WindowInv, Until
<1>4. QED BY <1>2, <1>3, WalkKept

\* Refusals, the audit, the commit and failures move the request only.
LEMMA RequestStep ==
    ASSUME ShapeInv, NEW c \in Clients, WalkInv(c),
           Refuse(c) \/ recordPayloadAccess(c) \/ CommitRead(c) \/ PageFails(c)
    PROVE  WalkInv(c)'
<1> USE ReadShapes
<1>1. UNCHANGED <<now, visible, floor, query, cursor, got, first>>
    BY DEF Refuse, recordPayloadAccess, CommitRead, PageFails
<1>2. /\ pc[c] # "done" /\ pc'[c] # "done"
      /\ pc'[c] \in Reading => pc[c] \in Reading /\ page'[c] = page[c]
    BY DEF Refuse, recordPayloadAccess, CommitRead, MayCommit, PageFails, Reading
<1>3. Owed(c)' = Owed(c) /\ WindowInv(c)'
    BY <1>1 DEF Owed, WalkInv, WindowInv, Until
<1>4. QED BY <1>1, <1>2, <1>3, WalkKept

\* Every step keeps what is known of every walk.
LEMMA ReadStep == ShapeInv /\ ReadInv /\ [Next]_vars => ReadInv'
<1> SUFFICES ASSUME ShapeInv, ReadInv, [Next]_vars, NEW d \in Clients PROVE WalkInv(d)'
    BY DEF ReadInv
<1>1. WalkInv(d)
    BY DEF ReadInv
<1>2. CASE Tick \/ RetireOldest \/ \E r \in Rows : CommitRow(r)
    BY <1>1, <1>2, TablesStep
<1>3. ASSUME NEW c \in Clients, Serve(c) \/ Respond(c) \/ PageFails(c)
      PROVE  WalkInv(d)'
    <2>1. CASE d # c
        BY <1>1, <1>3, <2>1, OtherWalks
    <2>2. CASE d = c
        BY <1>1, <1>3, <2>2, ScanStep, RespondStep, RequestStep
           DEF Serve, scanIntents, handleConflicts, Reading
    <2>3. QED BY <2>1, <2>2
<1>4. CASE UNCHANGED vars
    <2>1. Owed(d)' = Owed(d) /\ WindowInv(d)'
        BY <1>1, <1>4 DEF vars, Owed, WalkInv, WindowInv, Until
    <2>2. QED BY <1>1, <1>4, <2>1, WalkKept DEF vars
<1>5. QED BY <1>2, <1>3, <1>4 DEF Next

\* Before the first request no walk has begun.
LEMMA ReadInit == Init => ShapeInv /\ ReadInv
<1> SUFFICES ASSUME Init PROVE ShapeInv /\ ReadInv
    OBVIOUS
<1>1. ShapeInv
    <2>1. TypeOK
        BY ReadAssumption, NoPageShape, EmptySeq DEF Init, TypeOK, Nowhere
    <2>2. QED BY <2>1, NoPageShape, FS_EmptySet DEF Init, ShapeInv
<1>2. ASSUME NEW c \in Clients PROVE WalkInv(c)
    <2>1. got[c] = <<>> /\ first[c] = {} /\ pc[c] = "asked" /\ cursor[c] = Nowhere
        BY DEF Init
    <2>2. QED BY <2>1 DEF WalkInv, CursorInv, PageInv, WindowInv, Owed, Descending, Reading
<1>3. QED BY <1>1, <1>2 DEF ReadInv

\* The cursor protocol of handleIntents and handleConflicts: pages go on
\* strictly below the last row sent, and what the first window held and
\* retention left is on a page sent or below the cursor.
THEOREM WalkInvariant == Spec => [](ShapeInv /\ ReadInv)
BY ReadInit, ShapeStep, ReadStep, PTL DEF Spec

\* No row is sent twice and pages descend over a whole walk, for any rows,
\* window, limit and interleaving of commits, retention and repeated pages.
THEOREM WalkDescendsCorrect == Spec => []WalkDescends
<1>1. ShapeInv /\ ReadInv => WalkDescends
    <2> SUFFICES ASSUME ShapeInv, ReadInv, NEW c \in Clients, NEW i \in 1 .. Len(got[c]) - 1
                 PROVE  Before(got[c][i + 1], got[c][i])
        BY DEF WalkDescends
    <2>1. Descending(got[c]) /\ Len(got[c]) \in Nat
        BY ReadShapes DEF ReadInv, WalkInv
    <2>2. QED BY <2>1 DEF Descending
<1>2. QED BY <1>1, WalkInvariant, PTL

\* A walk that ended has every row its first window held and retention left.
THEOREM WalkCompleteCorrect == Spec => []WalkComplete
<1>1. ReadInv => WalkComplete
    BY DEF ReadInv, WalkInv, Owed, WalkComplete
<1>2. QED BY <1>1, WalkInvariant, PTL

-----------------------------------------------------------------------------
(* The audit.                                                              *)

\* No payload is sent before its audit row is committed, whichever statement
\* fails and however often a page is asked for again.
THEOREM PayloadsAuditedCorrect == Spec => []PayloadsAudited
<1>1. Init => AuditInv
    BY DEF Init, AuditInv, Range
<1>2. ShapeInv /\ AuditInv /\ [Next]_vars => AuditInv'
    <2> SUFFICES ASSUME ShapeInv, AuditInv, [Next]_vars, NEW d \in Clients, query'[d].payload
                 PROVE  /\ Range(got'[d]) \subseteq audited'[d]
                        /\ pc'[d] = "answering" => Range(page'[d].rows) \subseteq audited'[d]
        BY DEF AuditInv
    <2> USE ReadShapes
    <2>1. query' = query
        BY DEF Next, Tick, RetireOldest, CommitRow, clientVars, Serve, Refuse, scanIntents,
               handleConflicts, Scan, recordPayloadAccess, CommitRead, Respond, PageFails, vars
    <2>2. /\ Range(got[d]) \subseteq audited[d]
          /\ pc[d] = "answering" => Range(page[d].rows) \subseteq audited[d]
        BY <2>1 DEF AuditInv
    <2>3. CASE UNCHANGED vars \/ Tick \/ RetireOldest \/ \E r \in Rows : CommitRow(r)
        BY <2>2, <2>3 DEF vars, Tick, RetireOldest, CommitRow, clientVars
    <2>4. ASSUME NEW c \in Clients, Refuse(c) \/ scanIntents(c) \/ recordPayloadAccess(c)
          PROVE  /\ Range(got'[d]) \subseteq audited'[d]
                 /\ pc'[d] = "answering" => Range(page'[d].rows) \subseteq audited'[d]
        BY <2>2, <2>4 DEF Refuse, scanIntents, Scan, recordPayloadAccess
    <2>5. ASSUME NEW c \in Clients, handleConflicts(c)
          PROVE  /\ Range(got'[d]) \subseteq audited'[d]
                 /\ pc'[d] = "answering" => Range(page'[d].rows) \subseteq audited'[d]
        <3>1. ~ query[c].payload
            BY <2>5 DEF handleConflicts, Scan, Admitted
        <3>2. d # c
            BY <2>1, <3>1
        <3>3. QED BY <2>2, <2>5, <3>2 DEF handleConflicts, Scan
    <2>6. ASSUME NEW c \in Clients, CommitRead(c) \/ PageFails(c)
          PROVE  /\ Range(got'[d]) \subseteq audited'[d]
                 /\ pc'[d] = "answering" => Range(page'[d].rows) \subseteq audited'[d]
        <3>1. got' = got /\ audited[d] \subseteq audited'[d]
            BY <2>6 DEF CommitRead, PageFails
        <3>2. ASSUME pc'[d] = "answering" PROVE Range(page'[d].rows) \subseteq audited'[d]
            <4>1. CASE d # c
                BY <2>2, <2>6, <3>1, <3>2, <4>1 DEF CommitRead, PageFails
            <4>2. CASE d = c
                <5>1. CommitRead(c)
                    BY <2>6, <3>2, <4>2 DEF PageFails
                <5>2. page' = page /\ audited'[c] = audited[c] \cup Range(page[c].rows)
                    BY <2>1, <4>2, <5>1 DEF CommitRead, AuditedBy
                <5>3. QED BY <4>2, <5>2
            <4>3. QED BY <4>1, <4>2
        <3>3. QED BY <2>2, <3>1, <3>2
    <2>7. ASSUME NEW c \in Clients, Respond(c)
          PROVE  /\ Range(got'[d]) \subseteq audited'[d]
                 /\ pc'[d] = "answering" => Range(page'[d].rows) \subseteq audited'[d]
        <3>1. CASE d # c
            BY <2>2, <2>7, <3>1 DEF Respond
        <3>2. CASE d = c
            <4>1. /\ got'[d] = got[d] \o page[d].rows /\ audited' = audited
                  /\ pc[d] = "answering" /\ pc'[d] # "answering"
                BY <2>7, <3>2 DEF Respond
            <4>2. Range(got[d] \o page[d].rows) = Range(got[d]) \cup Range(page[d].rows)
                BY RangeConcat
            <4>3. QED BY <2>2, <4>1, <4>2
        <3>3. QED BY <3>1, <3>2
    <2>8. QED BY <2>3, <2>4, <2>5, <2>6, <2>7 DEF Next, Serve
<1>3. AuditInv => PayloadsAudited
    BY DEF AuditInv, PayloadsAudited
<1>4. QED BY <1>1, <1>2, <1>3, WalkInvariant, PTL DEF Spec
=============================================================================
