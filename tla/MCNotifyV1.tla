---------------------------- MODULE MCNotifyV1 ----------------------------
(* Instances of NotifyV1 for TLC. *)
EXTENDS NotifyV1, TLC

CONSTANTS x1, x2, y1, X, Y, n1, t1, t2

\* x1 and x2 are one address on two chains.
Address == [a \in Accounts |-> IF a = y1 THEN Y ELSE X]

One(n, t, accounts) == [id |-> n, type |-> t, accounts |-> accounts]

\* A request without entries, one that names an address twice, and one of the same
\* notification with two entries and another type.
SomeBodies ==
    { <<>>,
      <<One(n1, t1, <<x1, x2, y1>>)>>,
      <<One(n1, t2, <<x1>>), One(n1, t1, <<y1>>)>> }

\* Handlers are interchangeable; no property names one.
SymmetricHandlers == Permutations(Handlers)
===========================================================================
