---------------------------- MODULE MCPublisher ----------------------------
(***************************************************************************)
(* Instances of Publisher for TLC.                                         *)
(***************************************************************************)
EXTENDS Publisher, TLC

CONSTANTS t1, t2, A

\* One task, or two tasks, of one instance.
OneTask == (t1 :> A)
OneHost == (t1 :> A) @@ (t2 :> A)
=============================================================================
