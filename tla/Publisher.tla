------------------------------ MODULE Publisher ------------------------------
(***************************************************************************)
(* The publisher service: the queue of subscriber_notification rows in     *)
(* Postgres, the worker tasks that drain it into the relay, the pg_notify  *)
(* wake-ups that start workers, the dead-letter check that takes rows back *)
(* from workers that died, and the crashes and database errors in between. *)
(*                                                                         *)
(* Several instances of the server share one database.  Every action is    *)
(* one SQL statement, one await point or one atomic operation on the       *)
(* counter of spawned tasks, so that all interleavings at await points     *)
(* are explored.  Clocks are kept as ages that saturate one tick past the  *)
(* largest threshold they are compared with.                               *)
(***************************************************************************)
EXTENDS Naturals, FiniteSets

CONSTANTS
    Rows,             \* identifiers of subscriber_notification rows
    NoRow,            \* what a task that has picked no row holds
    Servers,          \* instances of the notify server
    Tasks,            \* worker task slots of all instances
    Host,             \* Host[t]: the instance a task slot belongs to
    MaxWorkers,       \* MAX_WORKERS
    StartWorkers,     \* START_WORKERS
    Timeout,          \* PUBLISHING_TIMEOUT, in ticks
    GiveUp,           \* PUBLISHING_GIVE_UP_TIMEOUT, in ticks
    MaxWakeups,       \* bound: pg_notify payloads waiting in one listener
    MaxFaults,        \* bound: crashes, database errors, reconnects
    Deletable,        \* rows whose subscriber may be deleted
    Lockable          \* rows a mark-as-read transaction may lock

TasksOf(s) == {t \in Tasks : Host[t] = s}

\* Every instance has enough slots for MAX_WORKERS tasks, and the service does
\* not start more workers than the maximum (both are 50 in the code).
ASSUME PublisherAssumption ==
    /\ NoRow \notin Rows
    /\ IsFiniteSet(Rows)
    /\ IsFiniteSet(Tasks)
    /\ Host \in [Tasks -> Servers]
    /\ MaxWorkers \in Nat /\ StartWorkers \in Nat
    /\ StartWorkers <= MaxWorkers
    /\ \A s \in Servers : MaxWorkers <= Cardinality(TasksOf(s))
    /\ Timeout \in Nat /\ GiveUp \in Nat
    /\ MaxWakeups \in Nat /\ MaxFaults \in Nat
    /\ Deletable \subseteq Rows /\ Lockable \subseteq Rows

VARIABLES
    \* Postgres: table subscriber_notification
    status,      \* the status column; "none" before the insert
    updatedAgo,  \* now() - updated_at
    createdAgo,  \* now() - notification.created_at
    others,      \* whether a row outside Rows is there to be picked
    locked,      \* rows locked by an uncommitted mark-as-read statement
    \* worker tasks
    pc,          \* where a task is in process_queued_messages
    held,        \* the row a task works on
    elapsed,     \* time spent in timeout(PUBLISHING_TIMEOUT, ...)
    \* instances
    counter,     \* spawned_tasks_counter
    listener,    \* the control state of start()
    wakeups,     \* pg_notify payloads received and not yet consumed
    \* history, read by the properties and by the fault bound only
    heldFor,     \* time since the task picked its row
    relayed,     \* rows the relay has accepted at least once
    refused,     \* rows the relay has answered MailboxLimitExceeded for
    late,        \* rows written by a task whose hold outlived Timeout
    faults       \* number of faults so far

dbVars      == <<status, updatedAgo, createdAgo, others>>
taskVars    == <<pc, held, elapsed, heldFor>>
serverVars  == <<counter, listener, wakeups>>
historyVars == <<relayed, refused, late, faults>>
vars == <<status, updatedAgo, createdAgo, others, locked, pc, held, elapsed, heldFor,
          counter, listener, wakeups, relayed, refused, late, faults>>

Others == {"none", "some"}
Status == {"none", "queued", "processing", "published", "failed", "deleted"}
PC == {"none", "pick", "select", "process", "decide",
       "setPublished", "setQueued", "setFailed", "other", "stopping"}

TypeOK ==
    /\ status \in [Rows -> Status]
    /\ updatedAgo \in [Rows -> 0..Timeout+1]
    /\ createdAgo \in [Rows -> 0..GiveUp+1]
    /\ others \in Others
    /\ locked \in SUBSET Rows
    /\ pc \in [Tasks -> PC]
    /\ held \in [Tasks -> Rows \cup {NoRow}]
    /\ elapsed \in [Tasks -> 0..Timeout]
    /\ heldFor \in [Tasks -> 0..Timeout+1]
    /\ counter \in [Servers -> Nat]
    /\ listener \in [Servers -> {"down", "connecting", "recv", "spawn"}]
    /\ wakeups \in [Servers -> 0..MaxWakeups]
    /\ relayed \in SUBSET Rows
    /\ refused \in SUBSET Rows
    /\ late \in SUBSET Rows
    /\ faults \in 0..MaxFaults

Live(s) == {t \in TasksOf(s) : pc[t] # "none"}
Up(s) == listener[s] # "down"
Exists(r) == status[r] \notin {"none", "deleted"}
Queued == {r \in Rows : status[r] = "queued"}

Init ==
    /\ status = [r \in Rows |-> "none"]
    /\ updatedAgo = [r \in Rows |-> 0]
    /\ createdAgo = [r \in Rows |-> 0]
    /\ others = "none"
    /\ locked = {}
    /\ pc = [t \in Tasks |-> "none"]
    /\ held = [t \in Tasks |-> NoRow]
    /\ elapsed = [t \in Tasks |-> 0]
    /\ heldFor = [t \in Tasks |-> 0]
    /\ counter = [s \in Servers |-> 0]
    /\ listener = [s \in Servers |-> "down"]
    /\ wakeups = [s \in Servers |-> 0]
    /\ relayed = {}
    /\ refused = {}
    /\ late = {}
    /\ faults = 0

-----------------------------------------------------------------------------
(* Postgres: triggers, inserts and deletes by the rest of the server.      *)

\* The triggers on subscriber_notification: n payloads to every instance that
\* has executed LISTEN; the others never see them.
PgNotify(n) ==
    /\ \A s \in Servers : wakeups[s] + n <= MaxWakeups
    /\ wakeups' = [s \in Servers |->
                     IF listener[s] \in {"recv", "spawn"} THEN wakeups[s] + n
                                                          ELSE wakeups[s]]

\* upsert_subscriber_notifications: one INSERT of a set of rows of the same
\* notification, whose created_at may be old when the notification id is reused.
UpsertSubscriberNotifications(R, age) ==
    /\ \E s \in Servers : Up(s)
    /\ R # {} /\ \A r \in R : status[r] = "none"
    /\ status' = [r \in Rows |-> IF r \in R THEN "queued" ELSE status[r]]
    /\ updatedAgo' = [r \in Rows |-> IF r \in R THEN 0 ELSE updatedAgo[r]]
    /\ createdAgo' = [r \in Rows |-> IF r \in R THEN age ELSE createdAgo[r]]
    /\ PgNotify(Cardinality(R))
    /\ UNCHANGED <<others, locked, taskVars, counter, listener, historyVars>>

\* The subscriber is deleted and its rows go with it (ON DELETE CASCADE).
DeleteRow(r) ==
    /\ r \in Deletable \ locked
    /\ Exists(r)
    /\ status' = [status EXCEPT ![r] = "deleted"]
    /\ UNCHANGED <<updatedAgo, createdAgo, others, locked, taskVars, serverVars, historyVars>>

\* A statement of another handler (mark_notifications_as_read) locks the row
\* until it commits, without touching its status.
LockRow(r) ==
    /\ r \in Lockable \ locked
    /\ Exists(r)
    /\ locked' = locked \cup {r}
    /\ UNCHANGED <<dbVars, taskVars, serverVars, historyVars>>

UnlockRow(r) ==
    /\ r \in locked
    /\ locked' = locked \ {r}
    /\ UNCHANGED <<dbVars, taskVars, serverVars, historyVars>>

-----------------------------------------------------------------------------
(* A worker: process_queued_messages.                                      *)

Goto(t, l) == pc' = [pc EXCEPT ![t] = l]

\* The task leaves its row behind and goes to l.
Release(t, l) ==
    /\ Goto(t, l)
    /\ held' = [held EXCEPT ![t] = NoRow]
    /\ elapsed' = [elapsed EXCEPT ![t] = 0]
    /\ heldFor' = [heldFor EXCEPT ![t] = 0]

\* Mutant: the pick forgets updated_at=now().
MarkProcessingKeepsUpdatedAt(r) ==
    /\ r \in Queued \ locked
    /\ status' = [status EXCEPT ![r] = "processing"]
    /\ UNCHANGED <<updatedAgo, createdAgo, others>>

\* First statement of pick_subscriber_notification_for_processing, on row r.
MarkProcessing(r) ==
    /\ r \in Queued \ locked
    /\ status' = [status EXCEPT ![r] = "processing"]
    /\ updatedAgo' = [updatedAgo EXCEPT ![r] = 0]
    /\ UNCHANGED <<createdAgo, others>>

Pick(t) ==
    /\ pc[t] = "pick"
    /\ \E r \in Rows :
         /\ MarkProcessing(r)
         /\ held' = [held EXCEPT ![t] = r]
    /\ Goto(t, "select")
    /\ heldFor' = [heldFor EXCEPT ![t] = 0]
    /\ UNCHANGED <<locked, elapsed, serverVars, historyVars>>

\* The pick has LIMIT 1 and no ORDER BY: as long as rows outside Rows are queued,
\* it may take any of them instead, and there may be more.
MarkOther ==
    /\ others = "some"
    /\ others' \in Others
    /\ UNCHANGED <<status, updatedAgo, createdAgo>>

PickOther(t) ==
    /\ pc[t] = "pick"
    /\ MarkOther
    /\ Goto(t, "other")
    /\ UNCHANGED <<locked, held, elapsed, heldFor, serverVars, historyVars>>

\* The worker has selected, processed and written that row, or found it deleted
\* (then its loop ends); the written status may be queued.
OtherDone(t) ==
    /\ pc[t] = "other"
    /\ \/ Goto(t, "pick") /\ UNCHANGED <<others, wakeups>>
       \/ Goto(t, "pick") /\ others' = "some" /\ PgNotify(1)
       \/ Goto(t, "stopping") /\ UNCHANGED <<others, wakeups>>
    /\ UNCHANGED <<status, updatedAgo, createdAgo, locked, held, elapsed, heldFor,
                   counter, listener, historyVars>>

\* SKIP LOCKED: a queued row that is locked does not count, and the loop ends.
PickNone(t) ==
    /\ pc[t] = "pick"
    /\ Queued \subseteq locked /\ others = "none"
    /\ Goto(t, "stopping")
    /\ UNCHANGED <<dbVars, locked, held, elapsed, heldFor, serverVars, historyVars>>

\* Second statement: the row with its notification, subscriber and project.
SelectFound(t) ==
    /\ pc[t] = "select"
    /\ Exists(held[t])
    /\ Goto(t, "process")
    /\ elapsed' = [elapsed EXCEPT ![t] = 0]
    /\ UNCHANGED <<dbVars, locked, held, heldFor, serverVars, historyVars>>

\* The row was deleted since: None, which the caller takes for an empty queue.
SelectMissing(t) ==
    /\ pc[t] = "select"
    /\ ~Exists(held[t])
    /\ Release(t, "stopping")
    /\ UNCHANGED <<dbVars, locked, serverVars, historyVars>>

\* process_notification returns Ok: the relay has accepted the message.
PublishOk(t) ==
    /\ pc[t] = "process"
    /\ relayed' = relayed \cup {held[t]}
    /\ Goto(t, "setPublished")
    /\ UNCHANGED <<dbVars, locked, held, elapsed, heldFor, serverVars, refused, late, faults>>

\* process_notification returns Ok although the relay has refused the message:
\* MailboxLimitExceeded (nobody is subscribed to the topic and its mailbox is
\* full) counts as success.  An earlier attempt may have been accepted.
PublishMailboxFull(t) ==
    /\ pc[t] = "process"
    /\ refused' = refused \cup {held[t]}
    /\ relayed' \in {relayed, relayed \cup {held[t]}}
    /\ Goto(t, "setPublished")
    /\ UNCHANGED <<dbVars, locked, held, elapsed, heldFor, serverVars, late, faults>>

\* Mutant: the error is logged and the loop goes on with the next row.
PublishErrForgets(t) ==
    /\ pc[t] = "process"
    /\ Release(t, "pick")
    /\ UNCHANGED <<dbVars, locked, serverVars, historyVars>>

\* process_notification fails (ten publish attempts, or an encoding error) or
\* PUBLISHING_TIMEOUT elapses.  The relay may still have accepted an attempt
\* whose answer was lost.
PublishErr(t) ==
    /\ pc[t] = "process"
    /\ relayed' \in {relayed, relayed \cup {held[t]}}
    /\ Goto(t, "decide")
    /\ UNCHANGED <<dbVars, locked, held, elapsed, heldFor, serverVars, refused, late, faults>>

PublishElapsed(t) ==
    /\ elapsed[t] >= Timeout
    /\ PublishErr(t)

\* Mutants: the comparison off by one, and turned round.
GiveUpCheckEarly(r) == createdAgo[r] >= GiveUp
GiveUpCheckReversed(r) == createdAgo[r] < GiveUp

\* dead_letter_give_up_check
GiveUpCheck(r) == createdAgo[r] > GiveUp

\* update_message_status_queued_or_failed, up to its await.
Decide(t) ==
    /\ pc[t] = "decide"
    /\ Goto(t, IF GiveUpCheck(held[t]) THEN "setFailed" ELSE "setQueued")
    /\ UNCHANGED <<dbVars, locked, held, elapsed, heldFor, serverVars, historyVars>>

Setting == [setPublished |-> "published", setQueued |-> "queued", setFailed |-> "failed"]

\* update_message_processing_status: an UPDATE by id alone, with its trigger.
WriteStatus(t, new) ==
    LET r == held[t] IN
    /\ r \notin locked
    /\ IF Exists(r)
       THEN /\ status' = [status EXCEPT ![r] = new]
            /\ updatedAgo' = [updatedAgo EXCEPT ![r] = 0]
            /\ IF new = "queued" /\ status[r] # "queued" THEN PgNotify(1)
                                                         ELSE UNCHANGED wakeups
       ELSE UNCHANGED <<status, updatedAgo, wakeups>>
    /\ late' = IF heldFor[t] > Timeout THEN late \cup {r} ELSE late
    /\ UNCHANGED <<createdAgo, others, locked, counter, listener, relayed, refused>>

UpdateStatus(t) ==
    /\ pc[t] \in DOMAIN Setting
    /\ WriteStatus(t, Setting[pc[t]])
    /\ Release(t, "pick")
    /\ UNCHANGED faults

Fault == faults < MaxFaults /\ faults' = faults + 1

\* A statement fails and the `?` ends the loop.  The answer may be what was
\* lost: then the statement has had its effect.
PickErr(t) ==
    /\ Fault
    /\ pc[t] = "pick"
    /\ \/ UNCHANGED dbVars
       \/ MarkOther
       \/ \E r \in Rows : MarkProcessing(r)
    /\ Goto(t, "stopping")
    /\ UNCHANGED <<locked, held, elapsed, heldFor, serverVars, relayed, refused, late>>

SelectErr(t) ==
    /\ Fault
    /\ pc[t] = "select"
    /\ Release(t, "stopping")
    /\ UNCHANGED <<dbVars, locked, serverVars, relayed, refused, late>>

OtherErr(t) ==
    /\ Fault
    /\ pc[t] = "other"
    /\ Goto(t, "stopping")
    /\ UNCHANGED <<dbVars, locked, held, elapsed, heldFor, serverVars, relayed, refused, late>>

\* Mutant: the failed statement ends the task without fetch_sub.
UpdateErrSkipsCounter(t) ==
    /\ Fault
    /\ pc[t] \in DOMAIN Setting
    /\ \/ UNCHANGED <<dbVars, locked, serverVars, relayed, refused, late>>
       \/ WriteStatus(t, Setting[pc[t]])
    /\ Release(t, "none")

UpdateErr(t) ==
    /\ Fault
    /\ pc[t] \in DOMAIN Setting
    /\ \/ UNCHANGED <<dbVars, locked, serverVars, relayed, refused, late>>
       \/ WriteStatus(t, Setting[pc[t]])
    /\ Release(t, "stopping")

\* The end of process_and_handle: fetch_sub, and the task is gone.
Stop(t) ==
    /\ pc[t] = "stopping"
    /\ counter' = [counter EXCEPT ![Host[t]] = @ - 1]
    /\ Goto(t, "none")
    /\ UNCHANGED <<dbVars, locked, held, elapsed, heldFor, listener, wakeups, historyVars>>

-----------------------------------------------------------------------------
(* The service of an instance: start().                                    *)

\* Mutant: AtomicUsize::new(0).
StartCountsNone(s) ==
    /\ listener[s] = "down"
    /\ \E W \in SUBSET TasksOf(s) :
         /\ Cardinality(W) = StartWorkers
         /\ pc' = [t \in Tasks |-> IF t \in W THEN "pick" ELSE pc[t]]
    /\ listener' = [listener EXCEPT ![s] = "connecting"]
    /\ UNCHANGED <<dbVars, locked, held, elapsed, heldFor, counter, wakeups, historyVars>>

\* The counter and the initial workers come before LISTEN.
Start(s) ==
    /\ listener[s] = "down"
    /\ \E W \in SUBSET TasksOf(s) :
         /\ Cardinality(W) = StartWorkers
         /\ pc' = [t \in Tasks |-> IF t \in W THEN "pick" ELSE pc[t]]
    /\ counter' = [counter EXCEPT ![s] = StartWorkers]
    /\ listener' = [listener EXCEPT ![s] = "connecting"]
    /\ UNCHANGED <<dbVars, locked, held, elapsed, heldFor, wakeups, historyVars>>

\* PgListener::connect_with and listen
Listen(s) ==
    /\ listener[s] = "connecting"
    /\ listener' = [listener EXCEPT ![s] = "recv"]
    /\ UNCHANGED <<dbVars, locked, taskVars, counter, wakeups, historyVars>>

\* recv() returns and the counter is loaded: at the limit the wake-up is dropped.
Recv(s) ==
    /\ listener[s] = "recv"
    /\ wakeups[s] > 0
    /\ wakeups' = [wakeups EXCEPT ![s] = @ - 1]
    /\ listener' = [listener EXCEPT ![s] = IF counter[s] < MaxWorkers THEN "spawn" ELSE "recv"]
    /\ UNCHANGED <<dbVars, locked, taskVars, counter, historyVars>>

\* fetch_add and tokio::spawn
Spawn(s) ==
    /\ listener[s] = "spawn"
    /\ \E t \in TasksOf(s) : pc[t] = "none" /\ Goto(t, "pick")
    /\ counter' = [counter EXCEPT ![s] = @ + 1]
    /\ listener' = [listener EXCEPT ![s] = "recv"]
    /\ UNCHANGED <<dbVars, locked, held, elapsed, heldFor, wakeups, historyVars>>

\* The listener loses its connection and reconnects inside recv(): what was
\* notified meanwhile is gone.
Reconnect(s) ==
    /\ Fault
    /\ listener[s] = "recv"
    /\ wakeups' = [wakeups EXCEPT ![s] = 0]
    /\ UNCHANGED <<dbVars, locked, taskVars, counter, listener, relayed, refused, late>>

\* The instance dies, or start() returns an error, which ends bootstrap.
Crash(s) ==
    /\ Fault
    /\ Up(s)
    /\ pc' = [t \in Tasks |-> IF Host[t] = s THEN "none" ELSE pc[t]]
    /\ held' = [t \in Tasks |-> IF Host[t] = s THEN NoRow ELSE held[t]]
    /\ elapsed' = [t \in Tasks |-> IF Host[t] = s THEN 0 ELSE elapsed[t]]
    /\ heldFor' = [t \in Tasks |-> IF Host[t] = s THEN 0 ELSE heldFor[t]]
    /\ counter' = [counter EXCEPT ![s] = 0]
    /\ listener' = [listener EXCEPT ![s] = "down"]
    /\ wakeups' = [wakeups EXCEPT ![s] = 0]
    /\ UNCHANGED <<dbVars, locked, relayed, refused, late>>

\* A row outside Rows is inserted, or brought back by the dead-letter check: work
\* for the pick, and a wake-up for every listening instance.  Bound: one at a time.
OtherTraffic ==
    /\ \E s \in Servers : Up(s)
    /\ \A s \in Servers : wakeups[s] = 0
    /\ others' = "some"
    /\ PgNotify(1)
    /\ UNCHANGED <<status, updatedAgo, createdAgo, locked, taskVars, counter, listener, historyVars>>

\* Rows outside Rows are deleted or locked, or a lock on one of them ends: no
\* trigger tells of it.
OtherRowsChange ==
    /\ others' \in Others \ {others}
    /\ UNCHANGED <<status, updatedAgo, createdAgo, locked, taskVars, serverVars, historyVars>>

-----------------------------------------------------------------------------
(* The dead-letter task and time.                                          *)

\* Mutants: the threshold off by one, rows past give-up left alone, and rows of
\* any status taken back.
StaleEarly(r) == status[r] = "processing" /\ updatedAgo[r] >= Timeout
StaleUnlessGivenUp(r) ==
    status[r] = "processing" /\ updatedAgo[r] > Timeout /\ ~GiveUpCheck(r)
StaleAnyStatus(r) == Exists(r) /\ updatedAgo[r] > Timeout

Stale(r) == status[r] = "processing" /\ updatedAgo[r] > Timeout

\* dead_letters_check: one UPDATE, which waits for row locks and leaves
\* updated_at alone; the trigger fires for every row.
DeadLettersCheck ==
    LET stale == {r \in Rows : Stale(r)} IN
    /\ \E s \in Servers : Up(s)
    /\ stale # {} /\ stale \cap locked = {}
    /\ status' = [r \in Rows |-> IF r \in stale THEN "queued" ELSE status[r]]
    /\ PgNotify(Cardinality(stale))
    /\ UNCHANGED <<updatedAgo, createdAgo, others, locked, taskVars, counter, listener, historyVars>>

Older(age, max) == IF age < max THEN age + 1 ELSE age

Tick ==
    /\ updatedAgo' = [r \in Rows |-> IF Exists(r) THEN Older(updatedAgo[r], Timeout + 1)
                                                  ELSE updatedAgo[r]]
    /\ createdAgo' = [r \in Rows |-> IF status[r] # "none" THEN Older(createdAgo[r], GiveUp + 1)
                                                           ELSE createdAgo[r]]
    /\ elapsed' = [t \in Tasks |-> IF pc[t] = "process" THEN Older(elapsed[t], Timeout)
                                                        ELSE elapsed[t]]
    /\ heldFor' = [t \in Tasks |-> IF held[t] # NoRow THEN Older(heldFor[t], Timeout + 1)
                                                      ELSE heldFor[t]]
    /\ UNCHANGED <<status, others, locked, pc, held, serverVars, historyVars>>

-----------------------------------------------------------------------------
TaskStep(t) ==
    \/ Pick(t) \/ PickNone(t) \/ PickErr(t)
    \/ PickOther(t) \/ OtherDone(t) \/ OtherErr(t)
    \/ SelectFound(t) \/ SelectMissing(t) \/ SelectErr(t)
    \/ PublishOk(t) \/ PublishMailboxFull(t) \/ PublishErr(t) \/ PublishElapsed(t)
    \/ Decide(t)
    \/ UpdateStatus(t) \/ UpdateErr(t)
    \/ Stop(t)

ServerStep(s) ==
    \/ Start(s) \/ Listen(s) \/ Recv(s) \/ Spawn(s) \/ Reconnect(s) \/ Crash(s)

Next ==
    \/ \E R \in SUBSET Rows, age \in 0..GiveUp+1 : UpsertSubscriberNotifications(R, age)
    \/ \E r \in Rows : DeleteRow(r) \/ LockRow(r) \/ UnlockRow(r)
    \/ \E t \in Tasks : TaskStep(t)
    \/ \E s \in Servers : ServerStep(s)
    \/ OtherTraffic \/ OtherRowsChange
    \/ DeadLettersCheck
    \/ Tick

Spec == Init /\ [][Next]_vars

(***************************************************************************)
(* Fairness.  The runtime keeps polling the tasks and the listener loop,   *)
(* an instance that died is started again, time passes, and the dead-      *)
(* letter task wakes every minute.  A statement that waits for a row lock  *)
(* gets it (SF).  The relay promises nothing: a task leaves "process" only *)
(* because of its timeout, which also ends its work on a row outside Rows  *)
(* (OtherDone).  Which of several queued rows a pick takes is left open.   *)
(***************************************************************************)
Fairness ==
    /\ \A t \in Tasks :
         /\ WF_vars(Pick(t) \/ PickNone(t) \/ PickOther(t) \/ OtherDone(t)
                      \/ SelectFound(t) \/ SelectMissing(t) \/ Decide(t) \/ Stop(t))
         /\ WF_vars(PublishElapsed(t))
         /\ SF_vars(UpdateStatus(t))
    /\ \A s \in Servers : WF_vars(Start(s) \/ Listen(s) \/ Recv(s) \/ Spawn(s))
    /\ \A r \in Rows : WF_vars(UnlockRow(r))
    /\ WF_vars(Tick)
    /\ SF_vars(DeadLettersCheck)

FairSpec == Spec /\ Fairness

\* Notifications for other subscribers arrive for ever.
Busy == WF_vars(OtherTraffic)

\* The load stays below what the workers can do: if workers look at the queue again
\* and again, then again and again one of them finds no row outside Rows there.  Under
\* more load than that the pick, which has no order, may pass over a row for ever.
KeepsUp ==
    []<>(\E t \in Tasks : pc[t] = "pick")
        => []<><<others = "none" /\ \E t \in Tasks : Pick(t) \/ PickNone(t)>>_vars

-----------------------------------------------------------------------------
(* Properties.                                                             *)

\* spawned_tasks_counter is exactly the number of running worker tasks of an
\* instance, whatever path each of them ends by, and never above MAX_WORKERS,
\* although the limit is tested in one atomic operation and the increment is
\* another (start, process_and_handle).
CounterExact ==
    \A s \in Servers :
        /\ counter[s] = Cardinality(Live(s))
        /\ counter[s] <= MaxWorkers

\* A row is marked published only if the relay has answered for its message: it
\* accepted it, or refused it because the mailbox of the topic is full, which
\* publish_relay_message takes for success.  An error, a lost answer or a timeout
\* never ends in published.  A row is marked failed only once its notification is
\* older than PUBLISHING_GIVE_UP_TIMEOUT.  Both hold whichever of several tasks
\* holding the row writes last.
OutcomeIsTrue ==
    \A r \in Rows :
        /\ status[r] = "published" => r \in relayed \cup refused
        /\ status[r] = "failed" => createdAgo[r] > GiveUp

Timely(t, r) == held[t] = r /\ heldFor[t] <= Timeout

\* status='processing' works as a lease of PUBLISHING_TIMEOUT: as long as no
\* task has written to the row after its lease ran out, no two tasks hold the
\* row within their leases.
LeaseExclusive ==
    \A r \in Rows \ late : \A t1, t2 \in Tasks :
        Timely(t1, r) /\ Timely(t2, r) => t1 = t2

\* Without crashes and database errors a row in status processing always has a
\* task that will write its next status: no return path of the worker loop
\* forgets the row it picked.
NoOrphanWithoutFault ==
    faults = 0 =>
        \A r \in Rows : status[r] = "processing" => \E t \in Tasks : held[t] = r

\* published and failed are final (until the row is deleted) for a row that
\* only tasks within their lease have written.
OutcomeIsFinal ==
    [][\A r \in Rows \ late' :
          status[r] \in {"published", "failed"} => status'[r] \in {status[r], "deleted"}]_vars

\* A row in status processing gets out of it, also after its task crashed or
\* lost the database: the dead-letter check brings it back (dead_letters_check).
ProcessingEnds ==
    \A r \in Rows : status[r] = "processing" ~> status[r] # "processing"

\* As long as notifications keep arriving and the workers keep up with them, every
\* queued row ends published, failed or deleted: a row left behind by a worker is
\* found by a later one, and retries end with the give-up check.
QueuedSettles ==
    Busy /\ KeepsUp =>
        \A r \in Rows :
            status[r] = "queued" ~> status[r] \in {"published", "failed", "deleted"}

-----------------------------------------------------------------------------
(* What the service promises (Delivery), and how its state shows it: a row *)
(* that is queued or processing is pending.                                *)

DeliveryState ==
    [r \in Rows |-> IF status[r] = "none" THEN "absent"
                    ELSE IF status[r] \in {"queued", "processing"} THEN "pending"
                    ELSE status[r]]

Overdue == {r \in Rows : status[r] # "none" /\ createdAgo[r] > GiveUp}

D == INSTANCE Delivery WITH
       state    <- DeliveryState,
       taken    <- relayed,
       refused  <- refused,
       overdue  <- Overdue,
       disputed <- late

\* The service implements its promise: whatever workers, dead-letter checks,
\* crashes and failed statements do, a row that is not disputed goes from pending
\* to one true outcome and stays there, and no other row is touched by the step
\* (process_queued_messages, dead_letters_check, update_message_processing_status).
Delivers == D!Spec

-----------------------------------------------------------------------------
(* The inductive strengthening of the invariants above.                    *)

Holding == {"select", "process", "decide", "setPublished", "setQueued", "setFailed"}

\* A task holds a row exactly between picking and writing it.
HeldInv ==
    \A t \in Tasks :
        /\ pc[t] \in Holding <=> held[t] # NoRow
        /\ held[t] # NoRow => status[held[t]] # "none"

\* Nothing runs on an instance that is down, and between the test of the limit
\* and the increment the counter can only fall.
CounterInv ==
    \A s \in Servers :
        /\ counter[s] = Cardinality(Live(s))
        /\ counter[s] <= MaxWorkers
        /\ listener[s] = "down" => Live(s) = {}
        /\ listener[s] = "spawn" => counter[s] < MaxWorkers

\* What a task is about to write is true already.
OutcomeInv ==
    /\ OutcomeIsTrue
    /\ \A t \in Tasks :
         /\ pc[t] = "setPublished" => held[t] \in relayed \cup refused
         /\ pc[t] = "setFailed" => createdAgo[held[t]] > GiveUp

\* The row of a timely holder is still the way that holder left it.
LeaseInv ==
    /\ LeaseExclusive
    /\ \A r \in Rows \ late : \A t \in Tasks :
         Timely(t, r) => \/ status[r] = "deleted"
                         \/ status[r] = "processing" /\ updatedAgo[r] = heldFor[t]

PublisherInv ==
    TypeOK /\ HeldInv /\ CounterInv /\ OutcomeInv /\ LeaseInv /\ NoOrphanWithoutFault

-----------------------------------------------------------------------------
(* What comments in the code say and the code does not do (see README).    *)

\* "Total maximum time to process the message before it will be considered as
\* failed" (PUBLISHING_GIVE_UP_TIMEOUT): a row past that time is eventually
\* published, failed or deleted.
GivenUpSettles ==
    \A r \in Rows :
        (Exists(r) /\ createdAgo[r] > GiveUp)
            ~> status[r] \in {"published", "failed", "deleted"}

\* ... on a quiet system, where these rows are the only ones: a row that no wake-up
\* was sent for, or whose wake-up came at MAX_WORKERS, is still found (start).
GivenUpSettlesWhenQuiet == [](others = "none") => GivenUpSettles
=============================================================================
