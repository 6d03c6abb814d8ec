--------------------------- MODULE MCWebhookIngress ---------------------------
(* Two instances of one provider, two versions of its manifest.              *)
EXTENDS WebhookIngress

MCInstances == {"shop", "mall"}
MCMaxSecrets == [i \in MCInstances |-> IF i = "shop" THEN 2 ELSE 1]
MCEvents == {"paid", "refunded", "garbage"}

\* Version a is manifests/stripe.yaml; b signs with a plain HMAC of the body and has
\* its id where two events have the same.
MCSchemeOf == [a |-> [kind |-> "stripe_v1", header |-> TRUE, stamped |-> FALSE,
                      tolerance |-> 0],
               b |-> [kind |-> "hmac", header |-> TRUE, stamped |-> FALSE,
                      tolerance |-> 0]]
MCIdOf == [a |-> [paid |-> "evt_1", refunded |-> "evt_2", garbage |-> None],
           b |-> [paid |-> "evt_1", refunded |-> "evt_1", garbage |-> None]]

Stamped(e, t, ss) == [event |-> e, ts |-> t,
                      sigs |-> [k \in DOMAIN ss |-> Sign(ss[k], t, e)]]
Plain(e, s) == [event |-> e, ts |-> None, sigs |-> <<Sign(s, None, e)>>]

\* While a secret is rolled the PSP signs with both: the garbled request has two
\* signatures.  One request has a signature that no PSP makes.
MCRequests ==
    {Stamped("paid", 0, <<<<"shop", 1>>>>),
     Stamped("garbage", 1, <<<<"shop", 1>>, <<"shop", 2>>>>),
     Stamped("paid", NotANumber, <<<<"shop", 1>>>>),
     Plain("paid", <<"mall", 1>>),
     [event |-> "paid", ts |-> None, sigs |-> <<NotAscii>>],
     Plain("refunded", <<"shop", 1>>)}
=============================================================================
