------------------------------- MODULE Relay --------------------------------
(***************************************************************************)
(* The transactional outbox: write_intents rows committed by claim         *)
(* transactions, and relays that select a batch of unpublished rows,       *)
(* publish it to the topic and then mark it (internal/relay/relay.go).     *)
(*                                                                         *)
(* emitted_at is the time a claim transaction began. Intents are numbered  *)
(* by it, and become visible in any order, when their transactions commit. *)
(***************************************************************************)
EXTENDS Naturals, FiniteSets

CONSTANTS
    Intents,        \* intents that claims may emit, in the order of emitted_at
    Relays,         \* relay processes; nothing in the code keeps them to one
    Batch           \* RelayBatch, the LIMIT of selectUnpublished

ASSUME RelayAssumption == Intents \subseteq Nat /\ Batch \in Nat \ {0}

VARIABLES
    row,            \* row[i]: open (not committed, perhaps never), live or voided
    published,      \* the rows whose published_at is set
    retired,        \* the rows in detached partitions: no query sees them
    topic,          \* the messages the broker has stored
    pc,             \* pc[c]: idle, publishing or marking
    pending         \* pending[c]: the messages relay c built from its select

vars == <<row, published, retired, topic, pc, pending>>

Message(i) == [intent |-> i, voided |-> row[i] = "voided"]

IntentsOf(messages) == {m.intent : m \in messages}

TypeOK ==
    /\ row \in [Intents -> {"open", "live", "voided"}]
    /\ published \subseteq Intents
    /\ retired \subseteq Intents
    /\ topic \subseteq [intent : Intents, voided : BOOLEAN]
    /\ pc \in [Relays -> {"idle", "publishing", "marking"}]
    /\ pending \in [Relays -> SUBSET [intent : Intents, voided : BOOLEAN]]

Init ==
    /\ row = [i \in Intents |-> "open"]
    /\ published = {}
    /\ retired = {}
    /\ topic = {}
    /\ pc = [c \in Relays |-> "idle"]
    /\ pending = [c \in Relays |-> {}]

-----------------------------------------------------------------------------
(* The rows: claim transactions, outcomes and retention.                   *)

\* Claim's transaction commits; a rejected claim's intent is already voided.
Commit(i) ==
    /\ row[i] = "open"
    /\ \E s \in {"live", "voided"} : row' = [row EXCEPT ![i] = s]
    /\ UNCHANGED <<published, retired, topic, pc, pending>>

\* voidLatestIntent, with an outcome failed. It does not look at published_at.
Void(i) ==
    /\ row[i] = "live" /\ i \notin retired
    /\ row' = [row EXCEPT ![i] = "voided"]
    /\ UNCHANGED <<published, retired, topic, pc, pending>>

\* RetireExpired detaches the partition by its age alone: it does not look at
\* published_at, and the relay reads attached partitions only.
Retire(i) ==
    /\ row[i] \in {"live", "voided"} /\ i \notin retired
    /\ retired' = retired \cup {i}
    /\ UNCHANGED <<row, published, topic, pc, pending>>

-----------------------------------------------------------------------------
(* A relay.                                                                *)

Visible(i) == row[i] \in {"live", "voided"} /\ i \notin retired

\* The mutant's cursor: only rows emitted after every row already published.
UnpublishedByCursor ==
    {i \in Intents : Visible(i) /\ \A j \in published : j < i}

Unpublished == {i \in Intents : Visible(i) /\ i \notin published}

\* ORDER BY emitted_at LIMIT n.
Oldest(n, S) == {i \in S : Cardinality({j \in S : j < i}) < n}

Select(c) ==
    /\ pc[c] = "idle"
    /\ Unpublished # {}
    /\ pending' = [pending EXCEPT ![c] = {Message(i) : i \in Oldest(Batch, Unpublished)}]
    /\ pc' = [pc EXCEPT ![c] = "publishing"]
    /\ UNCHANGED <<row, published, retired, topic>>

\* WriteMessages returns nil once every replica has every message.
Publish(c) ==
    /\ pc[c] = "publishing"
    /\ topic' = topic \cup pending[c]
    /\ pc' = [pc EXCEPT ![c] = "marking"]
    /\ UNCHANGED <<row, published, retired, pending>>

\* WriteMessages fails, or the relay dies in it: any part of the batch may
\* have been stored. Nothing is marked.
PublishFails(c) ==
    /\ pc[c] = "publishing"
    /\ \E stored \in SUBSET pending[c] : topic' = topic \cup stored
    /\ pc' = [pc EXCEPT ![c] = "idle"]
    /\ pending' = [pending EXCEPT ![c] = {}]
    /\ UNCHANGED <<row, published, retired>>

\* The mutant's update has no list of ids: it marks whatever is unpublished.
MarkAll(c) ==
    /\ pc[c] = "marking"
    /\ published' = published \cup Unpublished
    /\ pc' = [pc EXCEPT ![c] = "idle"]
    /\ pending' = [pending EXCEPT ![c] = {}]
    /\ UNCHANGED <<row, retired, topic>>

\* markPublished. An update that landed though its acknowledgement was lost
\* leaves the same state.
Mark(c) ==
    /\ pc[c] = "marking"
    /\ published' = published \cup {i \in IntentsOf(pending[c]) : i \notin retired}
    /\ pc' = [pc EXCEPT ![c] = "idle"]
    /\ pending' = [pending EXCEPT ![c] = {}]
    /\ UNCHANGED <<row, retired, topic>>

\* The update fails, or the relay dies before it.
MarkFails(c) ==
    /\ pc[c] = "marking"
    /\ pc' = [pc EXCEPT ![c] = "idle"]
    /\ pending' = [pending EXCEPT ![c] = {}]
    /\ UNCHANGED <<row, published, retired, topic>>

-----------------------------------------------------------------------------
Next ==
    \/ \E i \in Intents : Commit(i) \/ Void(i) \/ Retire(i)
    \/ \E c \in Relays :
           Select(c) \/ Publish(c) \/ PublishFails(c) \/ Mark(c) \/ MarkFails(c)

Spec == Init /\ [][Next]_vars

\* The ticker fires for ever, and a broker or a database that is tried again
\* and again answers at last.
Fairness ==
    \A c \in Relays :
        /\ WF_vars(Select(c))
        /\ SF_vars(Publish(c))
        /\ SF_vars(Mark(c))

FairSpec == Spec /\ Fairness

-----------------------------------------------------------------------------
OnTopic == IntentsOf(topic)

\* A row that published_at takes out of the outbox is on the topic: whatever
\* commits, fails or restarts between a relay's select, publish and mark, and
\* however many relays work on the same rows.
MarkedOnTopic == published \subseteq OnTopic

\* In the end every committed intent is on the topic, one that became visible
\* after later intents were published included, unless its partition was
\* retired first. (Intents are finitely many and a message stays.)
EveryIntentPublished == <>[](\A i \in Intents : Visible(i) => i \in OnTopic)
=============================================================================
