---------------------------- MODULE MCApiCalls -----------------------------
(* Two threads that fetch content side by side, or one that reads listings. *)
EXTENDS ApiCalls

CONSTANTS w1, w2

MCWorkers == {w1, w2}
MCKeys == 1..3
MCRetryAfters == {0, 2}

Fetching == [w \in MCWorkers |-> IF w = w1 THEN <<"content", "content">> ELSE <<"content">>]
Collecting == [w \in MCWorkers |-> IF w = w1 THEN <<"cursor", "scim">> ELSE <<>>]

MCPlans == {Fetching, Collecting}
=============================================================================
