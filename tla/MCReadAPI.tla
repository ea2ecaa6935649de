----------------------------- MODULE MCReadAPI ------------------------------
(* A small instance of ReadAPI: ties, windows open at their upper end, ones *)
(* that end before the last rows, with and without payloads, and requests  *)
(* refused for one reason each.                                            *)
EXTENDS ReadAPI

MCRows == {<<1, 1>>, <<1, 2>>, <<2, 1>>, <<3, 1>>, <<3, 2>>}

Ask(endpoint, payload, since, until, limit) ==
    [endpoint |-> endpoint, role |-> "investigator", payload |-> payload, reason |-> payload,
     since |-> since, until |-> until, limit |-> limit]

MCQueries ==
    {Ask(e, FALSE, since, until, limit) :
        e \in {"intents", "conflicts"}, since \in 0 .. 1, until \in {Open, 2, 3}, limit \in 1 .. MaxLimit}
    \cup {Ask("intents", TRUE, since, until, limit) :
              since \in 0 .. 1, until \in {Open, 2, 3}, limit \in 1 .. MaxLimit}
    \cup {Ask("intents", FALSE, 3, 3, 1), Ask("conflicts", TRUE, 1, 3, 1), Ask("intents", FALSE, 1, 3, 0),
          [Ask("intents", TRUE, 1, 3, 1) EXCEPT !.reason = FALSE],
          [Ask("intents", TRUE, 1, 3, 1) EXCEPT !.role = "operator"],
          [Ask("intents", FALSE, 1, 3, 1) EXCEPT !.role = "agent"]}
=============================================================================
