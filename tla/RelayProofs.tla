---------------------------- MODULE RelayProofs -----------------------------
(***************************************************************************)
(* The outbox never marks what is not on the topic, for any number of      *)
(* intents and relays and any batch size.                                  *)
(***************************************************************************)
EXTENDS Relay, TLAPS

\* What a relay is about to mark is already on the topic.
RelayInv ==
    /\ pc \in [Relays -> {"idle", "publishing", "marking"}]
    /\ pending = [c \in Relays |-> pending[c]]
    /\ \A c \in Relays : pc[c] = "marking" => pending[c] \subseteq topic
    /\ MarkedOnTopic

\* Nothing selected, nothing marked.
LEMMA RelayInit == Init => RelayInv
BY DEF Init, RelayInv, MarkedOnTopic, OnTopic, IntentsOf

\* No step of a claim, an outcome, retention or a relay breaks it.
LEMMA RelayStep == RelayInv /\ [Next]_vars => RelayInv'
<1> SUFFICES ASSUME RelayInv, [Next]_vars PROVE RelayInv'
    OBVIOUS
<1> USE DEF RelayInv, MarkedOnTopic, OnTopic, IntentsOf
<1>1. ASSUME NEW i \in Intents, Commit(i) \/ Void(i) \/ Retire(i) PROVE RelayInv'
    BY <1>1 DEF Commit, Void, Retire
<1>2. ASSUME NEW c \in Relays, Select(c) PROVE RelayInv'
    BY <1>2 DEF Select
<1>3. ASSUME NEW c \in Relays, Publish(c) PROVE RelayInv'
    BY <1>3 DEF Publish
<1>4. ASSUME NEW c \in Relays, PublishFails(c) PROVE RelayInv'
    BY <1>4 DEF PublishFails
<1>5. ASSUME NEW c \in Relays, Mark(c) PROVE RelayInv'
    BY <1>5 DEF Mark
<1>6. ASSUME NEW c \in Relays, MarkFails(c) PROVE RelayInv'
    BY <1>6 DEF MarkFails
<1>7. CASE UNCHANGED vars
    BY <1>7 DEF vars
<1> QED
    BY <1>1, <1>2, <1>3, <1>4, <1>5, <1>6, <1>7 DEF Next

\* Whatever published_at takes out of the outbox is on the topic
\* (relay.go: publish, then mark).
THEOREM MarkedOnTopicCorrect == Spec => []MarkedOnTopic
<1>1. RelayInv => MarkedOnTopic
    BY DEF RelayInv
<1> QED
    BY <1>1, RelayInit, RelayStep, PTL DEF Spec
=============================================================================
