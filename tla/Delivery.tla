------------------------------ MODULE Delivery ------------------------------
(***************************************************************************)
(* What the publisher service promises about the notifications given to   *)
(* it, without workers, leases, wake-ups or instances: a notification is   *)
(* pending until the relay has answered for it or its time is over, and    *)
(* the outcome that is then recorded is true and final.  "published" says  *)
(* that the relay took the notification or refused it because the mailbox  *)
(* of its topic is full; it does not say which.                            *)
(*                                                                         *)
(* The promise has one exception, which is part of it: an outcome that was *)
(* written by a worker slower than its own timeout is disputed, and may be *)
(* written again.  It is still true.                                       *)
(***************************************************************************)
CONSTANT Rows    \* notifications to deliver, one per subscriber

VARIABLES
    state,       \* state[r]: "absent", "pending", an outcome, or "deleted"
    taken,       \* notifications the relay has taken at least once
    refused,     \* notifications the relay has refused for a full mailbox
    overdue,     \* notifications older than the give-up time
    disputed     \* notifications with an outcome that may be written again

vars == <<state, taken, refused, overdue, disputed>>

Outcomes == {"published", "failed"}

Init ==
    /\ state = [r \in Rows |-> "absent"]
    /\ taken = {}
    /\ refused = {}
    /\ overdue = {}
    /\ disputed = {}

\* Notifications are handed in, possibly with an old date.
Accept(R) ==
    /\ R \subseteq Rows /\ \A r \in R : state[r] = "absent"
    /\ state' = [r \in Rows |-> IF r \in R THEN "pending" ELSE state[r]]
    /\ \E O \in SUBSET R : overdue' = overdue \cup O
    /\ UNCHANGED <<taken, refused, disputed>>

\* The relay takes a notification, once or again; nobody need notice.
RelayTakes(r) ==
    /\ state[r] # "absent"
    /\ taken' = taken \cup {r}
    /\ UNCHANGED <<state, refused, overdue, disputed>>

\* The relay refuses a notification for a full mailbox; an earlier attempt at the
\* same notification may have been taken.
RelayRefuses(r) ==
    /\ state[r] # "absent"
    /\ refused' = refused \cup {r}
    /\ taken' \in {taken, taken \cup {r}}
    /\ UNCHANGED <<state, overdue, disputed>>

\* Time passes.
Age(R) ==
    /\ R \subseteq Rows /\ \A r \in R : state[r] # "absent"
    /\ overdue' = overdue \cup R
    /\ UNCHANGED <<state, taken, refused, disputed>>

True(r, outcome) ==
    \/ outcome = "published" /\ r \in taken \cup refused
    \/ outcome = "failed" /\ r \in overdue

\* An outcome is recorded.
Settle(r, outcome) ==
    /\ state[r] = "pending"
    /\ True(r, outcome)
    /\ state' = [state EXCEPT ![r] = outcome]
    /\ UNCHANGED <<taken, refused, overdue, disputed>>

\* A late write: it may replace any outcome by any true one, or take it back.
Dispute(r) ==
    /\ state[r] # "absent"
    /\ disputed' = disputed \cup {r}
    /\ \/ UNCHANGED state
       \/ /\ state[r] # "deleted"
          /\ \E new \in Outcomes \cup {"pending"} :
               /\ new = "pending" \/ True(r, new)
               /\ state' = [state EXCEPT ![r] = new]
    /\ UNCHANGED <<taken, refused, overdue>>

\* The subscriber is gone, and its notifications with it.
Delete(r) ==
    /\ state[r] \notin {"absent", "deleted"}
    /\ state' = [state EXCEPT ![r] = "deleted"]
    /\ UNCHANGED <<taken, refused, overdue, disputed>>

Next ==
    \/ \E R \in SUBSET Rows : Accept(R) \/ Age(R)
    \/ \E r \in Rows :
         \/ RelayTakes(r) \/ RelayRefuses(r) \/ Dispute(r) \/ Delete(r)
         \/ \E outcome \in Outcomes : Settle(r, outcome)

Spec == Init /\ [][Next]_vars
=============================================================================
