-------------------------- MODULE MCSubscriptions --------------------------
(* Instances of Subscriptions for TLC. *)
EXTENDS Subscriptions, TLC

CONSTANTS a1, a2, c1, c2

\* The first client is for every app, the others are limited to the first app.
Limits == [c \in Clients |-> IF c = c1 THEN AllApps ELSE a1]

\* Handlers are interchangeable; no property names one.
SymmetricHandlers == Permutations(Handlers)
============================================================================
