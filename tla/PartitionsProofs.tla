-------------------------- MODULE PartitionsProofs --------------------------
(***************************************************************************)
(* Partition maintenance, for any number of rows and maintainers and any   *)
(* horizon and hot window: the table always reaches the horizon of its     *)
(* last maintenance, rows in the hot window stay in it, and no row is      *)
(* lost while it has never run out.                                        *)
(***************************************************************************)
EXTENDS Partitions, TLAPS

Expiring(p) == p + 1 <= now - Window

\* Only expired partitions are on a list or detached, and from now on the
\* table has no gap up to its last partition and up to the last horizon.
HorizonInv ==
    /\ TypeOK
    /\ \A m \in Maintainers : \A p \in todo[m] : Expiring(p)
    /\ \A p \in detached : Expiring(p)
    /\ \A q \in attached : \A p \in now .. q : p \in attached
    /\ HorizonCovered
    /\ HotRowsAttached

\* The first maintenance of an installation left no gap.
LEMMA HorizonInit == Init => HorizonInv
BY PartitionsAssumption DEF Init, HorizonInv, TypeOK, Periods, HorizonCovered, HotRowsAttached, Expiring

\* Every step keeps the types.
LEMMA TypeStep == TypeOK /\ [Next]_vars => TypeOK'
<1> SUFFICES ASSUME TypeOK, [Next]_vars PROVE TypeOK'
    OBVIOUS
<1> USE DEF TypeOK
<1>1. CASE Tick
    BY <1>1, PartitionsAssumption DEF Tick, Periods
<1>2. ASSUME NEW r \in Rows, Insert(r) PROVE TypeOK'
    <2>1. now \in Periods
        BY PartitionsAssumption DEF Periods
    <2> QED
        BY <1>2, <2>1 DEF Insert
<1>3. ASSUME NEW m \in Maintainers, EnsurePartitions(m) PROVE TypeOK'
    <2>1. now + Ahead \in Periods
        BY PartitionsAssumption DEF Periods
    <2>2. \A b \in Periods : b .. now + Ahead - 1 \subseteq Periods
        BY PartitionsAssumption DEF Periods
    <2>3. attached' \subseteq Periods
        BY <1>3, <2>2 DEF EnsurePartitions
    <2> QED
        BY <1>3, <2>1, <2>3 DEF EnsurePartitions
<1>4. ASSUME NEW m \in Maintainers, EnsureFails(m) \/ List(m) \/ Quit(m) PROVE TypeOK'
    BY <1>4 DEF EnsureFails, List, Quit, table
<1>5. ASSUME NEW m \in Maintainers, Detach(m) PROVE TypeOK'
    BY <1>5 DEF Detach
<1>6. ASSUME NEW m \in Maintainers, Archive(m) PROVE TypeOK'
    BY <1>6 DEF Archive, exportRows
<1>7. ASSUME NEW m \in Maintainers, ArchiveFails(m) PROVE TypeOK'
    BY <1>7 DEF ArchiveFails, exportRows, Continue
<1>8. ASSUME NEW m \in Maintainers, Drop(m) PROVE TypeOK'
    BY <1>8 DEF Drop, Continue
<1>9. CASE UNCHANGED vars
    BY <1>9 DEF vars
<1> QED
    BY <1>1, <1>2, <1>3, <1>4, <1>5, <1>6, <1>7, <1>8, <1>9 DEF Next

\* Retiring takes from the past only, and extending leaves no gap.
LEMMA HorizonStep == HorizonInv /\ [Next]_vars => HorizonInv'
<1> SUFFICES ASSUME HorizonInv, [Next]_vars PROVE HorizonInv'
    OBVIOUS
<1>t. TypeOK /\ TypeOK'
    BY TypeStep DEF HorizonInv
<1>n. now \in Nat /\ now' \in Nat /\ Window \in Nat /\ Ahead \in Nat \ {0} /\ MaxTime \in Nat
    BY <1>t, PartitionsAssumption DEF TypeOK
<1>a. attached \subseteq Nat /\ detached \subseteq Nat /\ ensured \in Nat
    BY <1>t, <1>n DEF TypeOK, Periods
<1>d. \A m \in Maintainers : todo[m] \subseteq Nat
    BY <1>t, <1>n DEF TypeOK, Periods
<1>w. \A r \in Rows : written[r] # None => written[r] \in Nat
    BY <1>t, <1>n DEF TypeOK, Periods
<1> USE DEF HorizonInv, HorizonCovered, HotRowsAttached, Expiring
<1>1. CASE Tick
    <2>1. now' = now + 1 /\ written' = written /\ attached' = attached
        BY <1>1 DEF Tick
    <2>2. ASSUME NEW r \in Rows, written'[r] # None, written'[r] >= now' - Window
          PROVE  written'[r] \in attached'
        <3>1. written[r] # None /\ written[r] \in Nat
            BY <2>1, <2>2, <1>w
        <3>2. written[r] >= now - Window
            BY <2>1, <2>2, <3>1, <1>n
        <3> QED
            BY <3>1, <3>2, <2>1
    <2>3. \A p \in Nat : Expiring(p) => p + 1 <= now' - Window
        BY <1>1, <1>n DEF Tick
    <2>5. /\ \A m \in Maintainers : \A p \in todo'[m] : p + 1 <= now' - Window
          /\ \A p \in detached' : p + 1 <= now' - Window
        BY <1>1, <2>3, <1>a, <1>d DEF Tick
    <2>4. /\ \A q \in attached' : \A p \in now' .. q : p \in attached'
          /\ now' .. ensured' - 1 \subseteq attached'
        BY <1>1, <1>n, <1>a DEF Tick
    <2> QED
        BY <2>2, <2>4, <2>5, <1>t
<1>2. ASSUME NEW r \in Rows, Insert(r) PROVE HorizonInv'
    BY <1>2, <1>t DEF Insert, TypeOK
<1>3. ASSUME NEW m \in Maintainers, EnsurePartitions(m) PROVE HorizonInv'
    <2>1. PICK b \in Periods : /\ upperBound(b)
                               /\ attached' = attached \cup ((b .. now + Ahead - 1) \ detached)
        BY <1>3 DEF EnsurePartitions
    <2>2. b \in Nat
        BY <1>n DEF Periods
    <2>3. now' = now /\ detached' = detached /\ todo' = todo /\ ensured' = now + Ahead
        BY <1>3 DEF EnsurePartitions
    <2>4. \A p \in Nat : now <= p => p \notin detached
        BY <1>n, <1>a
    <2>5. \A p \in Nat : now <= p /\ p < b => p \in attached
        BY <2>1, <2>2, <1>n, <1>a DEF upperBound
    <2>6. \A p \in Nat : now <= p /\ p < now + Ahead => p \in attached'
        BY <2>1, <2>2, <2>4, <2>5, <1>n
    <2>7. \A q \in attached' : \A p \in now .. q : p \in attached'
        <3> SUFFICES ASSUME NEW q \in attached', NEW p \in now .. q PROVE p \in attached'
            OBVIOUS
        <3>1. q \in attached \/ q < now + Ahead
            BY <2>1, <2>2, <1>n
        <3>2. q \in Nat /\ p \in Nat /\ now <= p /\ p <= q
            BY <2>1, <2>2, <1>n, <1>a
        <3> QED
            BY <3>1, <3>2, <2>1, <2>6, <1>n
    <2>8. written' = written /\ attached \subseteq attached'
        BY <1>3, <2>1 DEF EnsurePartitions
    <2>9. now' .. ensured' - 1 \subseteq attached'
        BY <2>3, <2>6, <1>n
    <2> QED
        BY <2>3, <2>7, <2>8, <2>9, <1>t
<1>4. ASSUME NEW m \in Maintainers, EnsureFails(m) \/ List(m) \/ Quit(m) PROVE HorizonInv'
    BY <1>4, <1>t DEF EnsureFails, List, Quit, table, expired, TypeOK
<1>5. ASSUME NEW m \in Maintainers, Detach(m) PROVE HorizonInv'
    <2>1. PICK p \in todo[m] \cap attached :
              attached' = attached \ {p} /\ detached' = detached \cup {p}
        BY <1>5 DEF Detach
    <2>2. now' = now /\ todo' = todo /\ ensured' = ensured
        BY <1>5 DEF Detach
    <2>3. Expiring(p) /\ p \in Nat /\ p < now
        BY <2>1, <1>n, <1>d
    <2>4. \A q \in Nat : now <= q => (q \in attached' <=> q \in attached)
        BY <2>1, <2>3, <1>n
    <2>5. \A q \in detached' : q + 1 <= now - Window
        BY <2>1, <2>3
    <2>6. \A q \in attached' : \A i \in now .. q : i \in attached'
        BY <2>1, <2>4, <1>n, <1>a
    <2>7. \A q \in now .. ensured - 1 : q \in attached'
        BY <2>4, <1>n, <1>a
    <2>8. \A r \in Rows : written[r] # None /\ written[r] >= now - Window => written[r] # p
        BY <2>3, <1>n, <1>w
    <2>9. HotRowsAttached'
        BY <1>5, <2>1, <2>8 DEF Detach
    <2> QED
        BY <2>2, <2>5, <2>6, <2>7, <2>9, <1>t
<1>6. ASSUME NEW m \in Maintainers, Archive(m) PROVE HorizonInv'
    BY <1>6, <1>t DEF Archive, exportRows
<1>7. ASSUME NEW m \in Maintainers, ArchiveFails(m) PROVE HorizonInv'
    BY <1>7, <1>t DEF ArchiveFails, exportRows, Continue, TypeOK
<1>8. ASSUME NEW m \in Maintainers, Drop(m) PROVE HorizonInv'
    BY <1>8, <1>t DEF Drop, Continue, TypeOK
<1>9. CASE UNCHANGED vars
    BY <1>9, <1>t DEF vars
<1> QED
    BY <1>1, <1>2, <1>3, <1>4, <1>5, <1>6, <1>7, <1>8, <1>9 DEF Next

\* No gap from now on, and nothing but expired partitions listed or detached.
LEMMA HorizonInvariant == Spec => []HorizonInv
BY HorizonInit, HorizonStep, PTL DEF Spec

\* Every insert finds its partition up to the horizon of the last successful
\* EnsurePartitions, also after the table had run out.
THEOREM HorizonCoveredCorrect == Spec => []HorizonCovered
<1>1. HorizonInv => HorizonCovered
    BY DEF HorizonInv
<1> QED
    BY <1>1, HorizonInvariant, PTL

\* RetireExpired takes no row of the hot window from the table, also after the
\* table had run out.
THEOREM HotRowsAttachedCorrect == Spec => []HotRowsAttached
<1>1. HorizonInv => HotRowsAttached
    BY DEF HorizonInv
<1> QED
    BY <1>1, HorizonInvariant, PTL

-----------------------------------------------------------------------------
Retiring(m) == pc[m] \in {"archiving", "dropping"}

\* While the table never runs out, a row's partition is there until its object
\* is complete, one maintainer at a time retires a partition, and no partition
\* of the past comes back.
RowsInv ==
    /\ HorizonInv
    /\ now \in attached
    /\ \A p \in Periods : now - Window <= p /\ p <= now => p \in attached
    /\ attached \cap detached = {}
    /\ \A m \in Maintainers : Retiring(m) => part[m] \in detached
    /\ \A m, n \in Maintainers :
           Retiring(m) /\ Retiring(n) /\ part[m] = part[n] => m = n
    /\ \A m \in Maintainers : pc[m] = "dropping" => archive[part[m]] = content[part[m]]
    /\ \A r \in Rows : written[r] # None =>
           /\ written[r] <= now
           /\ IF written[r] \in attached \cup detached
              THEN r \in content[written[r]]
              ELSE r \in archive[written[r]]

\* An empty table with no maintainer at work.
LEMMA RowsInit == Init => RowsInv
<1> SUFFICES ASSUME Init PROVE RowsInv
    OBVIOUS
<1>1. HorizonInv
    BY HorizonInit
<1> QED
    BY <1>1, PartitionsAssumption DEF Init, RowsInv, Periods, Retiring

\* While the table has not run out, retirement keeps every row somewhere.
LEMMA RowsStep == RowsInv /\ [Next]_vars /\ supply' = "unbroken" => RowsInv'
<1> SUFFICES ASSUME RowsInv, [Next]_vars, supply' = "unbroken" PROVE RowsInv'
    OBVIOUS
<1>h. HorizonInv /\ HorizonInv'
    BY HorizonStep DEF RowsInv
<1>t. TypeOK /\ TypeOK'
    BY <1>h DEF HorizonInv
<1>n. now \in Nat /\ now' \in Nat /\ Window \in Nat /\ Ahead \in Nat \ {0} /\ MaxTime \in Nat
    BY <1>t, PartitionsAssumption DEF TypeOK
<1>p. Periods \subseteq Nat /\ now \in Periods /\ None \notin Periods
    BY <1>t, <1>n, PartitionsAssumption DEF Periods, TypeOK
<1>w. \A r \in Rows : written[r] # None => written[r] \in Periods
    BY <1>t DEF TypeOK
<1> USE DEF RowsInv, Retiring
<1>1. CASE Tick
    <2>1. /\ now' = now + 1 /\ now + 1 \in attached
          /\ UNCHANGED <<attached, detached, content, archive, written, pc, part>>
        BY <1>1 DEF Tick
    <2>2. ASSUME NEW p \in Periods, now + 1 - Window <= p, p <= now + 1 PROVE p \in attached
        <3>1. CASE p = now + 1
            BY <3>1, <2>1
        <3>2. CASE p # now + 1
            <4>1. p \in Nat
                BY <1>p
            <4>2. now - Window <= p /\ p <= now
                BY <2>2, <3>2, <4>1, <1>n
            <4> QED
                BY <4>2
        <3> QED
            BY <3>1, <3>2
    <2>3. ASSUME NEW r \in Rows, written[r] # None PROVE written[r] <= now + 1
        <3>1. written[r] \in Nat
            BY <2>3, <1>p, <1>w
        <3>2. written[r] <= now
            BY <2>3
        <3> QED
            BY <3>1, <3>2, <1>n
    <2>4. /\ now' \in attached'
          /\ \A p \in Periods : now' - Window <= p /\ p <= now' => p \in attached'
        BY <2>1, <2>2, <1>n, <1>p
    <2>5. \A r \in Rows : written'[r] # None => written'[r] <= now'
        BY <2>1, <2>3
    <2> QED
        BY <2>1, <2>4, <2>5, <1>h
<1>2. ASSUME NEW r \in Rows, Insert(r) PROVE RowsInv'
    <2>1. /\ content' = [content EXCEPT ![now] = content[now] \cup {r}]
          /\ written' = [written EXCEPT ![r] = now]
          /\ UNCHANGED <<now, attached, detached, archive, pc, part>>
        BY <1>2 DEF Insert
    <2>2. \A m \in Maintainers : Retiring(m) => part[m] # now
        OBVIOUS
    <2>3. \A m \in Maintainers : pc'[m] = "dropping" => archive'[part'[m]] = content'[part'[m]]
        BY <2>1, <2>2, <1>t DEF TypeOK
    <2>4. \A s \in Rows : written'[s] # None =>
              /\ written'[s] <= now
              /\ IF written'[s] \in attached \cup detached
                 THEN s \in content'[written'[s]]
                 ELSE s \in archive[written'[s]]
        BY <2>1, <1>t, <1>n, <1>p, <1>w DEF TypeOK
    <2> QED
        BY <2>1, <2>3, <2>4, <1>h
<1>3. ASSUME NEW m \in Maintainers, EnsurePartitions(m) PROVE RowsInv'
    <2>1. PICK b \in Periods : /\ upperBound(b)
                               /\ attached' = attached \cup ((b .. now + Ahead - 1) \ detached)
        BY <1>3 DEF EnsurePartitions
    <2>2. /\ UNCHANGED <<now, detached, content, archive, written, part>>
          /\ pc' = [pc EXCEPT ![m] = "listing"]
        BY <1>3 DEF EnsurePartitions
    <2>3. b > now
        BY <2>1, <1>n, <1>p DEF upperBound
    <2>4. \A p \in Nat : p <= now => (p \in attached' <=> p \in attached)
        BY <2>1, <2>3, <1>n, <1>p
    <2>5. attached' \cap detached' = {}
        BY <2>1, <2>2
    <2>6. \A r \in Rows : written[r] # None =>
              (written[r] \in attached' \cup detached <=> written[r] \in attached \cup detached)
        BY <2>4, <1>p, <1>w
    <2>7. \A n \in Maintainers : pc'[n] \in {"archiving", "dropping"} => n # m /\ pc'[n] = pc[n]
        BY <2>2, <1>t DEF TypeOK
    <2>8. now' \in attached' /\ \A p \in Periods : now - Window <= p /\ p <= now => p \in attached'
        BY <2>1, <2>2
    <2> QED
        BY <2>2, <2>5, <2>6, <2>7, <2>8, <1>h
<1>4. ASSUME NEW m \in Maintainers, EnsureFails(m) \/ List(m) \/ Quit(m) PROVE RowsInv'
    BY <1>4, <1>h, <1>t DEF EnsureFails, List, Quit, table, TypeOK
<1>5. ASSUME NEW m \in Maintainers, Detach(m) PROVE RowsInv'
    <2>1. PICK p \in todo[m] \cap attached :
              /\ attached' = attached \ {p} /\ detached' = detached \cup {p}
              /\ part' = [part EXCEPT ![m] = p]
        BY <1>5 DEF Detach
    <2>2. /\ UNCHANGED <<now, content, archive, written>>
          /\ pc' = [pc EXCEPT ![m] = "archiving"]
        BY <1>5 DEF Detach
    <2>3. p < now - Window /\ p \in Nat
        BY <2>1, <1>h, <1>n, <1>p, <1>t DEF HorizonInv, Expiring, TypeOK
    <2>4. now \in attached' /\ \A q \in Periods : now - Window <= q /\ q <= now => q \in attached'
        BY <2>1, <2>3, <1>n, <1>p
    <2>5. attached' \cap detached' = {} /\ attached' \cup detached' = attached \cup detached
        BY <2>1
    <2>6. \A n \in Maintainers : /\ n # m => pc'[n] = pc[n] /\ part'[n] = part[n]
                                 /\ n = m => pc'[n] = "archiving" /\ part'[n] = p
        BY <2>1, <2>2, <1>t DEF TypeOK
    <2>7. \A n \in Maintainers : Retiring(n) => part[n] # p
        BY <2>1
    <2>8. \A n \in Maintainers : Retiring(n)' => part'[n] \in detached'
        BY <2>1, <2>6
    <2>9. \A k, n \in Maintainers :
              Retiring(k)' /\ Retiring(n)' /\ part'[k] = part'[n] => k = n
        BY <2>6, <2>7
    <2>10. \A n \in Maintainers : pc'[n] = "dropping" => archive'[part'[n]] = content'[part'[n]]
        BY <2>2, <2>6
    <2> QED
        BY <2>2, <2>4, <2>5, <2>8, <2>9, <2>10, <1>h
<1>6. ASSUME NEW m \in Maintainers, Archive(m) PROVE RowsInv'
    <2>1. /\ archive' = [archive EXCEPT ![part[m]] = content[part[m]]]
          /\ pc' = [pc EXCEPT ![m] = "dropping"] /\ Retiring(m)
          /\ UNCHANGED <<now, attached, detached, content, written, part>>
        BY <1>6 DEF Archive, exportRows
    <2>2. \A n \in Maintainers : pc'[n] = "dropping" => archive'[part[n]] = content[part[n]]
        BY <2>1, <1>t DEF TypeOK
    <2>3. \A n \in Maintainers : Retiring(n)' => Retiring(n)
        BY <2>1, <1>t DEF TypeOK
    <2>4. \A r \in Rows : written[r] # None /\ written[r] \notin attached \cup detached
              => r \in archive'[written[r]]
        BY <2>1, <1>t, <1>w DEF TypeOK
    <2> QED
        BY <2>1, <2>2, <2>3, <2>4, <1>h
<1>7. ASSUME NEW m \in Maintainers, ArchiveFails(m) PROVE RowsInv'
    <2>1. /\ archive' \in {archive, [archive EXCEPT ![part[m]] = content[part[m]]]}
          /\ pc' \in {[pc EXCEPT ![m] = "idle"], [pc EXCEPT ![m] = "detaching"]} /\ Retiring(m)
          /\ UNCHANGED <<now, attached, detached, content, written, part>>
        BY <1>7 DEF ArchiveFails, exportRows, Continue
    <2>2. \A n \in Maintainers : Retiring(n)' => Retiring(n) /\ n # m /\ pc'[n] = pc[n]
        BY <2>1, <1>t DEF TypeOK
    <2>3. \A n \in Maintainers : pc'[n] = "dropping" => archive'[part[n]] = content[part[n]]
        BY <2>1, <2>2, <1>t DEF TypeOK
    <2>4. \A r \in Rows : written[r] # None /\ written[r] \notin attached \cup detached
              => r \in archive'[written[r]]
        BY <2>1, <1>t, <1>w DEF TypeOK
    <2> QED
        BY <2>1, <2>2, <2>3, <2>4, <1>h
<1>8. ASSUME NEW m \in Maintainers, Drop(m) PROVE RowsInv'
    <2>1. /\ detached' = detached \ {part[m]}
          /\ content' = [content EXCEPT ![part[m]] = {}]
          /\ pc' \in {[pc EXCEPT ![m] = "idle"], [pc EXCEPT ![m] = "detaching"]}
          /\ pc[m] = "dropping"
          /\ UNCHANGED <<now, attached, archive, written, part>>
        BY <1>8 DEF Drop, Continue
    <2>2. \A n \in Maintainers :
              Retiring(n)' => Retiring(n) /\ part[n] # part[m] /\ pc'[n] = pc[n]
        BY <2>1, <1>t DEF TypeOK
    <2>3. \A n \in Maintainers : Retiring(n)' => part[n] \in detached'
        BY <2>1, <2>2
    <2>4. \A n \in Maintainers : pc'[n] = "dropping" => archive[part[n]] = content'[part[n]]
        BY <2>1, <2>2, <1>t DEF TypeOK
    <2>5. \A r \in Rows : written[r] # None =>
              IF written[r] \in attached \cup detached'
              THEN r \in content'[written[r]] ELSE r \in archive[written[r]]
        BY <2>1, <1>t, <1>w DEF TypeOK
    <2> QED
        BY <2>1, <2>2, <2>3, <2>4, <2>5, <1>h
<1>9. CASE UNCHANGED vars
    BY <1>9, <1>h DEF vars
<1> QED
    BY <1>1, <1>2, <1>3, <1>4, <1>5, <1>6, <1>7, <1>8, <1>9 DEF Next

\* A table that has not run out never had.
LEMMA SupplyStep == [Next]_vars /\ supply' = "unbroken" => supply = "unbroken"
BY DEF Next, Tick, Insert, EnsurePartitions, EnsureFails, List, Detach, Archive, ArchiveFails,
       Drop, Quit, table, vars

\* No row is lost between the table and the archive (RetireExpired: detach,
\* archive, drop), as long as the table has never run out.
THEOREM RowsKeptCorrect == Spec => []RowsKept
<1> DEFINE Inv == HorizonInv /\ (supply = "unbroken" => RowsInv)
<1>1. Init => Inv
    BY HorizonInit, RowsInit
<1>2. Inv /\ [Next]_vars => Inv'
    BY HorizonStep, SupplyStep, RowsStep
<1>3. Inv => RowsKept
    BY DEF RowsInv, RowsKept
<1> QED
    BY <1>1, <1>2, <1>3, PTL DEF Spec
=============================================================================
