--------------------------- MODULE PublisherProofs ---------------------------
(***************************************************************************)
(* The safety properties of Publisher, and that it implements Delivery,    *)
(* for any number of rows, instances and tasks, any thresholds and any     *)
(* number of faults.                                                       *)
(***************************************************************************)
EXTENDS Publisher, FiniteSetTheorems, TLAPS

\* Step lemmas are stated over one step of any kind, so that every action is
\* dealt with once per part of the invariant.
Step == [Next]_vars

-----------------------------------------------------------------------------
(* Worker tasks are finitely many, and the counter of an instance follows  *)
(* the set of its running tasks.                                           *)

\* The running tasks of an instance form a finite set (Live).
LEMMA LiveFinite ==
    ASSUME NEW s \in Servers
    PROVE  IsFiniteSet(TasksOf(s)) /\ IsFiniteSet(Live(s))
BY FS_Subset, PublisherAssumption DEF TasksOf, Live

\* A task that is about to stop is counted, so fetch_sub cannot underflow.
LEMMA StopPositive ==
    ASSUME TypeOK, CounterInv, NEW t \in Tasks, pc[t] = "stopping"
    PROVE  counter[Host[t]] \in Nat /\ counter[Host[t]] > 0
<1>1. Host[t] \in Servers
  BY PublisherAssumption
<1>2. t \in Live(Host[t])
  BY DEF Live, TasksOf
<1>3. Cardinality(Live(Host[t])) \in Nat
  BY <1>1, LiveFinite, FS_CardinalityType
<1>4. Cardinality(Live(Host[t])) # 0
  BY <1>1, <1>2, LiveFinite, FS_EmptySet
<1> QED
  BY <1>1, <1>3, <1>4 DEF CounterInv

-----------------------------------------------------------------------------
(* Type correctness.                                                       *)

\* Ages stay within their range when time passes (Tick).
LEMMA OlderType ==
    ASSUME NEW max \in Nat, NEW age \in 0..max
    PROVE  Older(age, max) \in 0..max /\ Older(age, max) >= age
BY DEF Older

\* Writing a status keeps the table, the listeners and the history well typed.
LEMMA WriteStatusType ==
    ASSUME TypeOK, HeldInv, NEW t \in Tasks, pc[t] \in DOMAIN Setting,
           WriteStatus(t, Setting[pc[t]])
    PROVE  /\ status' \in [Rows -> Status]
           /\ updatedAgo' \in [Rows -> 0..Timeout+1]
           /\ wakeups' \in [Servers -> 0..MaxWakeups]
           /\ late' \in SUBSET Rows
           /\ held[t] \in Rows
<1>1. held[t] \in Rows
  BY DEF TypeOK, HeldInv, Holding, Setting
<1>2. Setting[pc[t]] \in Status
  BY DEF Setting, Status
<1>3. Timeout \in Nat /\ MaxWakeups \in Nat
  BY PublisherAssumption
<1> QED
  BY <1>1, <1>2, <1>3 DEF TypeOK, WriteStatus, PgNotify

\* One step of any kind keeps the types (all actions of Publisher).
LEMMA TypeStep ==
    ASSUME TypeOK, HeldInv, CounterInv, Step
    PROVE  TypeOK'
<1> USE PublisherAssumption
<1>1. ASSUME NEW R \in SUBSET Rows, NEW age \in 0..GiveUp+1,
             UpsertSubscriberNotifications(R, age)
      PROVE  TypeOK'
  <2>1. Cardinality(R) \in Nat
    BY FS_Subset, FS_CardinalityType
  <2> QED
    BY <1>1, <2>1 DEF TypeOK, UpsertSubscriberNotifications, PgNotify, Status, taskVars, historyVars
<1>2. ASSUME NEW r \in Rows, DeleteRow(r) \/ LockRow(r) \/ UnlockRow(r)
      PROVE  TypeOK'
  BY <1>2 DEF TypeOK, DeleteRow, LockRow, UnlockRow, Status, dbVars, taskVars, serverVars, historyVars
<1>3. ASSUME NEW t \in Tasks, TaskStep(t)
      PROVE  TypeOK'
  <2>a. ASSUME pc[t] \in DOMAIN Setting, WriteStatus(t, Setting[pc[t]])
        PROVE  /\ status' \in [Rows -> Status]
               /\ updatedAgo' \in [Rows -> 0..Timeout+1]
               /\ wakeups' \in [Servers -> 0..MaxWakeups]
               /\ late' \in SUBSET Rows
    BY <2>a, WriteStatusType
  <2> USE DEF TypeOK, Status, Others, PC, Goto, Release, dbVars, taskVars, serverVars, historyVars
  <2>1. CASE Pick(t) \/ PickNone(t) \/ PickErr(t)
    BY <2>1 DEF Pick, PickNone, PickErr, MarkProcessing, MarkOther, Queued, Fault
  <2>2. CASE SelectFound(t) \/ SelectMissing(t) \/ SelectErr(t)
    BY <2>2 DEF SelectFound, SelectMissing, SelectErr, Fault
  <2>3. CASE PublishOk(t) \/ PublishMailboxFull(t) \/ PublishErr(t) \/ PublishElapsed(t) \/ Decide(t)
    <3>1. pc[t] = "process" => held[t] \in Rows
      BY DEF HeldInv, Holding
    <3> QED
      BY <2>3, <3>1 DEF PublishOk, PublishMailboxFull, PublishErr, PublishElapsed, Decide
  <2>4. CASE UpdateStatus(t) \/ UpdateErr(t)
    <3>1. CASE WriteStatus(t, Setting[pc[t]])
      BY <2>4, <3>1, <2>a DEF UpdateStatus, UpdateErr, WriteStatus, Fault
    <3>2. CASE UpdateErr(t) /\ UNCHANGED <<dbVars, locked, serverVars, relayed, refused, late>>
      BY <3>2 DEF UpdateErr, Fault
    <3> QED
      BY <2>4, <3>1, <3>2 DEF UpdateStatus, UpdateErr
  <2>5. CASE Stop(t)
    BY <2>5, StopPositive DEF Stop
  <2>6. CASE PickOther(t) \/ OtherDone(t) \/ OtherErr(t)
    BY <2>6 DEF PickOther, OtherDone, OtherErr, MarkOther, PgNotify, Fault
  <2> QED
    BY <1>3, <2>1, <2>2, <2>3, <2>4, <2>5, <2>6 DEF TaskStep
<1>4. ASSUME NEW s \in Servers, ServerStep(s)
      PROVE  TypeOK'
  BY <1>4 DEF TypeOK, PC, ServerStep, Start, Listen, Recv, Spawn, Reconnect, Crash, Fault, Goto,
              dbVars, taskVars, serverVars, historyVars
<1>5. CASE OtherTraffic \/ OtherRowsChange
  BY <1>5 DEF TypeOK, Others, OtherTraffic, OtherRowsChange, PgNotify, serverVars, dbVars, taskVars, historyVars
<1>6. CASE DeadLettersCheck
  <2>1. Cardinality({r \in Rows : Stale(r)}) \in Nat
    BY FS_Subset, FS_CardinalityType
  <2> QED
    BY <1>6, <2>1 DEF TypeOK, DeadLettersCheck, PgNotify, Status, dbVars, taskVars, historyVars
<1>7. CASE Tick
  <2>1. Timeout \in Nat /\ Timeout + 1 \in Nat /\ GiveUp + 1 \in Nat
    OBVIOUS
  <2>2. /\ \A r \in Rows : Older(updatedAgo[r], Timeout + 1) \in 0..Timeout+1
        /\ \A r \in Rows : Older(createdAgo[r], GiveUp + 1) \in 0..GiveUp+1
        /\ \A t \in Tasks : Older(elapsed[t], Timeout) \in 0..Timeout
        /\ \A t \in Tasks : Older(heldFor[t], Timeout + 1) \in 0..Timeout+1
    BY <2>1, OlderType DEF TypeOK
  <2>3. updatedAgo' \in [Rows -> 0..Timeout+1] /\ createdAgo' \in [Rows -> 0..GiveUp+1]
    BY <1>7, <2>2 DEF TypeOK, Tick
  <2>4. elapsed' \in [Tasks -> 0..Timeout] /\ heldFor' \in [Tasks -> 0..Timeout+1]
    BY <1>7, <2>2 DEF TypeOK, Tick
  <2> QED
    BY <1>7, <2>3, <2>4 DEF TypeOK, Tick, serverVars, historyVars
<1>8. CASE UNCHANGED vars
  BY <1>8 DEF TypeOK, vars
<1> QED
  BY <1>1, <1>2, <1>3, <1>4, <1>5, <1>6, <1>7, <1>8 DEF Step, Next

-----------------------------------------------------------------------------
(* A task holds a row exactly between picking and writing it.              *)

\* One step keeps the correspondence between control state and held row.
LEMMA HeldStep ==
    ASSUME TypeOK, HeldInv, CounterInv, Step
    PROVE  HeldInv'
<1> USE PublisherAssumption
<1>1. ASSUME NEW R \in SUBSET Rows, NEW age \in 0..GiveUp+1,
             UpsertSubscriberNotifications(R, age)
      PROVE  HeldInv'
  BY <1>1 DEF TypeOK, HeldInv, UpsertSubscriberNotifications, taskVars
<1>2. ASSUME NEW r \in Rows, DeleteRow(r) \/ LockRow(r) \/ UnlockRow(r)
      PROVE  HeldInv'
  BY <1>2 DEF TypeOK, HeldInv, DeleteRow, LockRow, UnlockRow, dbVars, taskVars
<1>3. ASSUME NEW t \in Tasks, TaskStep(t)
      PROVE  HeldInv'
  <2> USE DEF TypeOK, HeldInv, Holding, PC, Goto, Release, dbVars, taskVars
  <2>1. CASE Pick(t) \/ PickNone(t) \/ PickErr(t)
    BY <2>1 DEF Pick, PickNone, PickErr, MarkProcessing, MarkOther, Queued
  <2>2. CASE SelectFound(t) \/ SelectMissing(t) \/ SelectErr(t)
    BY <2>2 DEF SelectFound, SelectMissing, SelectErr
  <2>3. CASE PublishOk(t) \/ PublishMailboxFull(t) \/ PublishErr(t) \/ PublishElapsed(t) \/ Decide(t)
    BY <2>3 DEF PublishOk, PublishMailboxFull, PublishErr, PublishElapsed, Decide
  <2>4. CASE UpdateStatus(t) \/ UpdateErr(t)
    <3>1. pc[t] \in DOMAIN Setting => Setting[pc[t]] # "none"
      BY DEF Setting
    <3>2. \A r \in Rows : status[r] # "none" => status'[r] # "none"
      BY <2>4, <3>1 DEF UpdateStatus, UpdateErr, WriteStatus, Exists
    <3> QED
      BY <2>4, <3>2 DEF UpdateStatus, UpdateErr
  <2>5. CASE Stop(t)
    BY <2>5 DEF Stop
  <2>6. CASE PickOther(t) \/ OtherDone(t) \/ OtherErr(t)
    BY <2>6 DEF PickOther, OtherDone, OtherErr, MarkOther
  <2> QED
    BY <1>3, <2>1, <2>2, <2>3, <2>4, <2>5, <2>6 DEF TaskStep
<1>4. ASSUME NEW s \in Servers, ServerStep(s)
      PROVE  HeldInv'
  <2> USE DEF TypeOK, HeldInv, Holding, PC, Goto, dbVars, taskVars
  <2>1. CASE Start(s)
    <3>1. PICK W \in SUBSET TasksOf(s) :
             pc' = [t \in Tasks |-> IF t \in W THEN "pick" ELSE pc[t]]
      BY <2>1 DEF Start
    <3>2. \A t \in W : pc[t] = "none"
      BY <2>1 DEF Start, CounterInv, Live
    <3> QED
      BY <2>1, <3>1, <3>2 DEF Start
  <2>2. CASE Listen(s) \/ Recv(s) \/ Reconnect(s)
    BY <2>2 DEF Listen, Recv, Reconnect
  <2>3. CASE Spawn(s)
    BY <2>3 DEF Spawn, TasksOf
  <2>4. CASE Crash(s)
    BY <2>4 DEF Crash
  <2> QED
    BY <1>4, <2>1, <2>2, <2>3, <2>4 DEF ServerStep
<1>5. CASE OtherTraffic \/ OtherRowsChange
  BY <1>5 DEF HeldInv, OtherTraffic, OtherRowsChange, serverVars, dbVars, taskVars
<1>6. CASE DeadLettersCheck
  BY <1>6 DEF TypeOK, HeldInv, DeadLettersCheck, taskVars
<1>7. CASE Tick
  BY <1>7 DEF HeldInv, Tick
<1>8. CASE UNCHANGED vars
  BY <1>8 DEF HeldInv, vars
<1> QED
  BY <1>1, <1>2, <1>3, <1>4, <1>5, <1>6, <1>7, <1>8 DEF Step, Next

-----------------------------------------------------------------------------
(* The counter of spawned tasks.                                           *)

\* A step that starts and ends no task, touches no counter and lets no listener
\* reach the states "down" and "spawn" keeps CounterInv.
LEMMA SameLive ==
    ASSUME CounterInv, UNCHANGED counter,
           \A t \in Tasks : (pc'[t] = "none") <=> (pc[t] = "none"),
           \A s \in Servers : listener'[s] \in {"down", "spawn"} =>
                \/ listener'[s] = listener[s]
                \/ listener'[s] = "spawn" /\ counter[s] < MaxWorkers
    PROVE  CounterInv'
<1>1. \A s \in Servers : Live(s)' = Live(s)
  BY DEF Live, TasksOf
<1> QED
  BY <1>1 DEF CounterInv

\* One step keeps the counter equal to the number of running tasks.
LEMMA CounterStep ==
    ASSUME TypeOK, CounterInv, Step
    PROVE  CounterInv'
<1> USE PublisherAssumption
<1>1. ASSUME NEW R \in SUBSET Rows, NEW age \in 0..GiveUp+1,
             UpsertSubscriberNotifications(R, age)
      PROVE  CounterInv'
  BY <1>1, SameLive DEF UpsertSubscriberNotifications, taskVars
<1>2. ASSUME NEW r \in Rows, DeleteRow(r) \/ LockRow(r) \/ UnlockRow(r)
      PROVE  CounterInv'
  BY <1>2, SameLive DEF DeleteRow, LockRow, UnlockRow, taskVars, serverVars
<1>3. ASSUME NEW t \in Tasks, TaskStep(t)
      PROVE  CounterInv'
  <2>1. CASE Stop(t)
    <3> DEFINE h == Host[t]
    <3>1. h \in Servers /\ t \in Live(h)
      BY <2>1 DEF Stop, Live, TasksOf
    <3>2. Live(h)' = Live(h) \ {t}
      BY <2>1 DEF Stop, Goto, Live, TasksOf, TypeOK
    <3>3. \A s \in Servers \ {h} : Live(s)' = Live(s)
      BY <2>1 DEF Stop, Goto, Live, TasksOf, TypeOK
    <3>4. Cardinality(Live(h) \ {t}) = Cardinality(Live(h)) - 1
      BY <3>1, LiveFinite, FS_RemoveElement
    <3>5. counter' = [counter EXCEPT ![h] = @ - 1] /\ UNCHANGED listener
      BY <2>1 DEF Stop
    <3>6. counter[h] \in Nat /\ counter[h] > 0
      BY <2>1, StopPositive DEF Stop
    <3>7. \A s \in Servers : listener[s] = "down" => s # h
      BY <3>1 DEF CounterInv
    <3>8. /\ counter'[h] = Cardinality(Live(h)')
          /\ counter'[h] < counter[h]
          /\ counter[h] = Cardinality(Live(h)) /\ counter[h] <= MaxWorkers
      BY <3>1, <3>2, <3>4, <3>5, <3>6 DEF CounterInv, TypeOK
    <3>9. \A s \in Servers \ {h} : counter'[s] = counter[s]
      BY <3>5 DEF TypeOK
    <3> HIDE DEF h
    <3> QED
      BY <3>1, <3>3, <3>5, <3>6, <3>7, <3>8, <3>9 DEF CounterInv
  <2>2. CASE ~Stop(t)
    <3>1. pc[t] # "none" /\ (\E l \in PC \ {"none"} : pc' = [pc EXCEPT ![t] = l])
      BY <1>3, <2>2 DEF TaskStep, Pick, PickNone, PickErr, PickOther, OtherDone, OtherErr, SelectFound, SelectMissing, SelectErr,
         PublishOk, PublishMailboxFull, PublishErr, PublishElapsed, Decide, UpdateStatus, UpdateErr, Setting,
         Goto, Release, PC
    <3>2. UNCHANGED <<counter, listener>>
      BY <1>3, <2>2 DEF TaskStep, Pick, PickNone, PickErr, PickOther, OtherDone, OtherErr, SelectFound, SelectMissing, SelectErr,
         PublishOk, PublishMailboxFull, PublishErr, PublishElapsed, Decide, UpdateStatus, UpdateErr, WriteStatus, serverVars
    <3> QED
      BY <3>1, <3>2, SameLive DEF TypeOK
  <2> QED
    BY <2>1, <2>2
<1>4. ASSUME NEW s \in Servers, ServerStep(s)
      PROVE  CounterInv'
  <2>1. CASE Start(s)
    <3>1. PICK W \in SUBSET TasksOf(s) :
             /\ Cardinality(W) = StartWorkers
             /\ pc' = [t \in Tasks |-> IF t \in W THEN "pick" ELSE pc[t]]
      BY <2>1 DEF Start
    <3>2. \A t \in TasksOf(s) : pc[t] = "none"
      BY <2>1 DEF Start, CounterInv, Live
    <3>3. Live(s)' = W
      BY <3>1, <3>2 DEF Live, TasksOf
    <3>4. \A o \in Servers \ {s} : Live(o)' = Live(o)
      BY <3>1 DEF Live, TasksOf
    <3> QED
      BY <2>1, <3>1, <3>3, <3>4 DEF Start, CounterInv, TypeOK
  <2>2. CASE Listen(s) \/ Recv(s) \/ Reconnect(s)
    BY <2>2, SameLive DEF Listen, Recv, Reconnect, taskVars, TypeOK
  <2>3. CASE Spawn(s)
    <3>1. PICK t \in TasksOf(s) : pc[t] = "none" /\ pc' = [pc EXCEPT ![t] = "pick"]
      BY <2>3 DEF Spawn, Goto
    <3>2. t \in Tasks /\ t \notin Live(s)
      BY <3>1 DEF TasksOf, Live
    <3>3. Live(s)' = Live(s) \cup {t}
      BY <3>1 DEF Live, TasksOf, TypeOK
    <3>4. \A o \in Servers \ {s} : Live(o)' = Live(o)
      BY <3>1 DEF Live, TasksOf, TypeOK
    <3>5. Cardinality(Live(s) \cup {t}) = Cardinality(Live(s)) + 1
      BY <3>2, LiveFinite, FS_AddElement
    <3>6. counter[s] < MaxWorkers /\ counter[s] \in Nat
      BY <2>3 DEF Spawn, CounterInv, TypeOK
    <3>7. /\ counter' = [counter EXCEPT ![s] = @ + 1]
          /\ listener' = [listener EXCEPT ![s] = "recv"]
      BY <2>3 DEF Spawn
    <3>8. counter'[s] = Cardinality(Live(s)') /\ counter'[s] <= MaxWorkers
      BY <3>3, <3>5, <3>6, <3>7 DEF CounterInv, TypeOK
    <3>9. /\ listener'[s] = "recv"
          /\ \A o \in Servers \ {s} : counter'[o] = counter[o] /\ listener'[o] = listener[o]
      BY <3>7 DEF TypeOK
    <3> QED
      BY <3>4, <3>8, <3>9 DEF CounterInv
  <2>4. CASE Crash(s)
    <3>1. Live(s)' = {}
      BY <2>4 DEF Crash, Live, TasksOf
    <3>2. \A o \in Servers \ {s} : Live(o)' = Live(o)
      BY <2>4 DEF Crash, Live, TasksOf
    <3>3. /\ counter'[s] = 0 /\ listener'[s] = "down"
          /\ \A o \in Servers \ {s} : counter'[o] = counter[o] /\ listener'[o] = listener[o]
      BY <2>4 DEF Crash, TypeOK
    <3>4. counter'[s] = Cardinality(Live(s)')
      BY <3>1, <3>3, FS_EmptySet
    <3> QED
      BY <3>1, <3>2, <3>3, <3>4 DEF CounterInv
  <2> QED
    BY <1>4, <2>1, <2>2, <2>3, <2>4 DEF ServerStep
<1>5. CASE OtherTraffic \/ OtherRowsChange
  BY <1>5, SameLive DEF OtherTraffic, OtherRowsChange, serverVars, taskVars
<1>6. CASE DeadLettersCheck
  BY <1>6, SameLive DEF DeadLettersCheck, taskVars
<1>7. CASE Tick
  BY <1>7, SameLive DEF Tick, serverVars
<1>8. CASE UNCHANGED vars
  BY <1>8, SameLive DEF vars
<1> QED
  BY <1>1, <1>2, <1>3, <1>4, <1>5, <1>6, <1>7, <1>8 DEF Step, Next

-----------------------------------------------------------------------------
(* Outcomes are true: what is about to be written, and what is written.    *)

\* A written status comes from the control state of the task that writes it.
LEMMA WriteStatusEffect ==
    ASSUME TypeOK, HeldInv, NEW t \in Tasks, pc[t] \in DOMAIN Setting,
           WriteStatus(t, Setting[pc[t]])
    PROVE  /\ held[t] \in Rows
           /\ pc[t] \in {"setPublished", "setQueued", "setFailed"}
           /\ \A r \in Rows \ {held[t]} :
                status'[r] = status[r] /\ updatedAgo'[r] = updatedAgo[r]
           /\ Exists(held[t]) => status'[held[t]] = Setting[pc[t]]
           /\ ~Exists(held[t]) => status'[held[t]] = status[held[t]]
           /\ UNCHANGED <<createdAgo, relayed, refused>>
BY DEF TypeOK, HeldInv, Holding, Setting, WriteStatus

\* One step keeps published rows answered by the relay and failed rows past their
\* give-up time.
LEMMA OutcomeStep ==
    ASSUME TypeOK, HeldInv, OutcomeInv, Step
    PROVE  OutcomeInv'
<1> USE PublisherAssumption DEF OutcomeInv, OutcomeIsTrue
<1>1. ASSUME NEW R \in SUBSET Rows, NEW age \in 0..GiveUp+1,
             UpsertSubscriberNotifications(R, age)
      PROVE  OutcomeInv'
  <2>1. \A t \in Tasks : pc[t] \in {"setPublished", "setFailed"} =>
             held[t] \in Rows /\ held[t] \notin R
    BY <1>1 DEF UpsertSubscriberNotifications, HeldInv, Holding, TypeOK
  <2> QED
    BY <1>1, <2>1 DEF TypeOK, UpsertSubscriberNotifications, taskVars, historyVars
<1>2. ASSUME NEW r \in Rows, DeleteRow(r) \/ LockRow(r) \/ UnlockRow(r)
      PROVE  OutcomeInv'
  BY <1>2 DEF TypeOK, DeleteRow, LockRow, UnlockRow, dbVars, taskVars, historyVars
<1>3. ASSUME NEW t \in Tasks, TaskStep(t)
      PROVE  OutcomeInv'
  <2>1. CASE Pick(t) \/ PickNone(t) \/ PickErr(t)
    BY <2>1 DEF TypeOK, Pick, PickNone, PickErr, MarkProcessing, MarkOther, Goto, dbVars, historyVars
  <2>2. CASE SelectFound(t) \/ SelectMissing(t) \/ SelectErr(t)
    BY <2>2 DEF TypeOK, SelectFound, SelectMissing, SelectErr, Goto, Release, dbVars, historyVars
  <2>3. CASE PublishOk(t) \/ PublishMailboxFull(t) \/ PublishErr(t) \/ PublishElapsed(t) \/ Decide(t)
    BY <2>3 DEF TypeOK, PublishOk, PublishMailboxFull, PublishErr, PublishElapsed, Decide, GiveUpCheck, Goto, dbVars, historyVars
  <2>4. CASE UpdateStatus(t) \/ UpdateErr(t)
    <3>1. \A u \in Tasks : pc'[u] \in {"setPublished", "setFailed"} =>
             pc'[u] = pc[u] /\ held'[u] = held[u]
      BY <2>4 DEF TypeOK, UpdateStatus, UpdateErr, Release, Goto
    <3>2. CASE WriteStatus(t, Setting[pc[t]])
      <4>1. pc[t] \in DOMAIN Setting
        BY <2>4 DEF UpdateStatus, UpdateErr
      <4>2. /\ held[t] \in Rows
            /\ pc[t] \in {"setPublished", "setQueued", "setFailed"}
            /\ \A r \in Rows \ {held[t]} : status'[r] = status[r]
            /\ Exists(held[t]) => status'[held[t]] = Setting[pc[t]]
            /\ ~Exists(held[t]) => status'[held[t]] = status[held[t]]
            /\ UNCHANGED <<createdAgo, relayed, refused>>
        BY <3>2, <4>1, WriteStatusEffect
      <4> QED
        BY <3>1, <4>2 DEF Setting
    <3>3. CASE UNCHANGED <<dbVars, relayed, refused>>
      BY <3>1, <3>3 DEF dbVars
    <3> QED
      BY <2>4, <3>2, <3>3 DEF UpdateStatus, UpdateErr
  <2>5. CASE Stop(t)
    BY <2>5 DEF TypeOK, Stop, Goto, dbVars, historyVars
  <2>6. CASE PickOther(t) \/ OtherDone(t) \/ OtherErr(t)
    BY <2>6 DEF TypeOK, PickOther, OtherDone, OtherErr, MarkOther, Goto, dbVars, historyVars
  <2> QED
    BY <1>3, <2>1, <2>2, <2>3, <2>4, <2>5, <2>6 DEF TaskStep
<1>4. ASSUME NEW s \in Servers, ServerStep(s)
      PROVE  OutcomeInv'
  <2>1. \A t \in Tasks : pc'[t] \in {"setPublished", "setFailed"} =>
             pc'[t] = pc[t] /\ held'[t] = held[t]
    BY <1>4 DEF TypeOK, ServerStep, Start, Listen, Recv, Spawn, Reconnect, Crash, Goto, taskVars
  <2>2. UNCHANGED <<dbVars, relayed, refused>>
    BY <1>4 DEF ServerStep, Start, Listen, Recv, Spawn, Reconnect, Crash, historyVars
  <2> QED
    BY <2>1, <2>2 DEF dbVars
<1>5. CASE OtherTraffic \/ OtherRowsChange
  BY <1>5 DEF OtherTraffic, OtherRowsChange, serverVars, dbVars, taskVars, historyVars
<1>6. CASE DeadLettersCheck
  BY <1>6 DEF TypeOK, DeadLettersCheck, taskVars, historyVars
<1>7. CASE Tick
  <2>1. \A r \in Rows : createdAgo'[r] >= createdAgo[r]
    BY <1>7, OlderType DEF TypeOK, Tick
  <2>2. \A r \in Rows : createdAgo'[r] \in Nat /\ createdAgo[r] \in Nat
    BY <1>7, OlderType DEF TypeOK, Tick
  <2>3. \A t \in Tasks : pc[t] = "setFailed" => held[t] \in Rows
    BY DEF HeldInv, Holding, TypeOK
  <2> QED
    BY <1>7, <2>1, <2>2, <2>3 DEF Tick, historyVars
<1>8. CASE UNCHANGED vars
  BY <1>8 DEF vars
<1> QED
  BY <1>1, <1>2, <1>3, <1>4, <1>5, <1>6, <1>7, <1>8 DEF Step, Next

-----------------------------------------------------------------------------
(* The lease: a row outside late has at most one timely holder, and that   *)
(* holder finds the row as it left it.                                     *)

\* A step that gives no task a new row and writes no row of a timely holder
\* keeps the lease.
LEMMA SameLease ==
    ASSUME LeaseInv, late \subseteq late',
           \A t \in Tasks : \/ held'[t] \notin Rows
                            \/ held'[t] = held[t] /\ heldFor'[t] = heldFor[t],
           \A r \in Rows \ late' :
              \/ status'[r] = status[r] /\ updatedAgo'[r] = updatedAgo[r]
              \/ status'[r] = "deleted"
              \/ \A t \in Tasks : ~Timely(t, r)'
    PROVE  LeaseInv'
BY DEF LeaseInv, LeaseExclusive, Timely

\* A row that may be picked has no timely holder, unless it was written late.
LEMMA QueuedIsFree ==
    ASSUME LeaseInv, NEW r \in Rows \ late, status[r] \notin {"processing", "deleted"}
    PROVE  \A t \in Tasks : ~Timely(t, r)
BY DEF LeaseInv

\* One step keeps the lease.
LEMMA LeaseStep ==
    ASSUME TypeOK, HeldInv, LeaseInv, Step
    PROVE  LeaseInv'
<1> USE PublisherAssumption
<1>1. ASSUME NEW R \in SUBSET Rows, NEW age \in 0..GiveUp+1,
             UpsertSubscriberNotifications(R, age)
      PROVE  LeaseInv'
  <2>1. \A r \in R, t \in Tasks : held[t] # r
    BY <1>1 DEF UpsertSubscriberNotifications, HeldInv
  <2>2. UNCHANGED <<held, heldFor, late>>
    BY <1>1 DEF UpsertSubscriberNotifications, taskVars, historyVars
  <2>3. \A r \in Rows \ R : status'[r] = status[r] /\ updatedAgo'[r] = updatedAgo[r]
    BY <1>1 DEF UpsertSubscriberNotifications
  <2>4. \A r \in R, t \in Tasks : ~Timely(t, r)'
    BY <2>1, <2>2 DEF Timely
  <2> QED
    BY <2>2, <2>3, <2>4, SameLease
<1>2. ASSUME NEW r \in Rows, DeleteRow(r) \/ LockRow(r) \/ UnlockRow(r)
      PROVE  LeaseInv'
  <2>1. UNCHANGED <<held, heldFor, late, updatedAgo>>
    BY <1>2 DEF DeleteRow, LockRow, UnlockRow, dbVars, taskVars, historyVars
  <2>2. \A o \in Rows : status'[o] = status[o] \/ status'[o] = "deleted"
    BY <1>2 DEF TypeOK, DeleteRow, LockRow, UnlockRow, dbVars
  <2> QED
    BY <2>1, <2>2, SameLease
<1>3. ASSUME NEW t \in Tasks, TaskStep(t)
      PROVE  LeaseInv'
  <2>1. CASE Pick(t)
    <3>1. PICK r \in Rows : MarkProcessing(r) /\ held' = [held EXCEPT ![t] = r]
      BY <2>1 DEF Pick
    <3>2. /\ status[r] = "queued" /\ status'[r] = "processing"
          /\ updatedAgo'[r] = 0 /\ late' = late
          /\ \A o \in Rows \ {r} : status'[o] = status[o] /\ updatedAgo'[o] = updatedAgo[o]
      BY <2>1, <3>1 DEF TypeOK, Pick, MarkProcessing, Queued, historyVars
    <3>3. /\ held'[t] = r /\ heldFor'[t] = 0
          /\ \A u \in Tasks \ {t} : held'[u] = held[u] /\ heldFor'[u] = heldFor[u]
      BY <2>1, <3>1 DEF TypeOK, Pick
    <3>4. r \notin late => \A u \in Tasks : ~Timely(u, r)
      BY <3>2, QueuedIsFree
    <3>5. \A o \in Rows, u \in Tasks \ {t} : Timely(u, o)' <=> Timely(u, o)
      BY <3>3 DEF Timely
    <3>6. \A o \in Rows : Timely(t, o)' => o = r
      BY <3>3 DEF Timely
    <3> QED
      BY <3>2, <3>3, <3>4, <3>5, <3>6 DEF LeaseInv, LeaseExclusive
  <2>2. CASE PickErr(t)
    <3>1. UNCHANGED <<held, heldFor, late>>
      BY <2>2 DEF PickErr
    <3>2. CASE UNCHANGED dbVars \/ MarkOther
      BY <3>1, <3>2, SameLease DEF MarkOther, dbVars
    <3>3. CASE \E r \in Rows : MarkProcessing(r)
      <4>1. PICK r \in Rows : MarkProcessing(r)
        BY <3>3
      <4>2. /\ status[r] = "queued"
            /\ \A o \in Rows \ {r} : status'[o] = status[o] /\ updatedAgo'[o] = updatedAgo[o]
        BY <4>1 DEF TypeOK, MarkProcessing, Queued
      <4>3. r \notin late => \A u \in Tasks : ~Timely(u, r)'
        BY <3>1, <4>2, QueuedIsFree DEF Timely
      <4> QED
        BY <3>1, <4>2, <4>3, SameLease
    <3> QED
      BY <2>2, <3>2, <3>3 DEF PickErr
  <2>3. CASE UpdateStatus(t) \/ UpdateErr(t)
    <3>1. \A u \in Tasks : \/ u = t /\ held'[u] = NoRow
                           \/ u # t /\ held'[u] = held[u] /\ heldFor'[u] = heldFor[u]
      BY <2>3 DEF TypeOK, UpdateStatus, UpdateErr, Release
    <3>2. CASE UNCHANGED <<dbVars, late>>
      BY <3>1, <3>2, SameLease DEF dbVars
    <3>3. CASE WriteStatus(t, Setting[pc[t]])
      <4>1. /\ held[t] \in Rows
            /\ \A r \in Rows \ {held[t]} :
                 status'[r] = status[r] /\ updatedAgo'[r] = updatedAgo[r]
        BY <2>3, <3>3, WriteStatusEffect DEF UpdateStatus, UpdateErr
      <4>2. late' = IF heldFor[t] > Timeout THEN late \cup {held[t]} ELSE late
        BY <3>3 DEF WriteStatus
      <4>3. held[t] \notin late' => Timely(t, held[t])
        BY <4>2 DEF Timely, TypeOK
      <4>4. held[t] \notin late' => \A u \in Tasks \ {t} : ~Timely(u, held[t])
        BY <4>1, <4>2, <4>3 DEF LeaseInv, LeaseExclusive
      <4>5. ASSUME NEW r \in Rows \ late', r = held[t]
            PROVE  \A u \in Tasks : ~Timely(u, r)'
        <5>1. held'[t] # r
          BY <3>1
        <5>2. \A u \in Tasks \ {t} : held'[u] = held[u] /\ heldFor'[u] = heldFor[u]
          BY <3>1
        <5> QED
          BY <4>4, <4>5, <5>1, <5>2 DEF Timely
      <4>6. late \subseteq late'
        BY <4>2
      <4>7. \A u \in Tasks : held'[u] \notin Rows \/ (held'[u] = held[u] /\ heldFor'[u] = heldFor[u])
        BY <3>1
      <4> QED
        BY <4>1, <4>5, <4>6, <4>7, SameLease
    <3> QED
      BY <2>3, <3>2, <3>3 DEF UpdateStatus, UpdateErr
  <2>4. CASE PickNone(t) \/ SelectFound(t) \/ SelectMissing(t) \/ SelectErr(t) \/ PublishOk(t)
               \/ PublishMailboxFull(t) \/ PublishErr(t) \/ PublishElapsed(t) \/ Decide(t) \/ Stop(t)
    <3>1. UNCHANGED <<dbVars, late>>
      BY <2>4 DEF PickNone, SelectFound, SelectMissing, SelectErr, PublishOk, PublishMailboxFull, PublishErr,
         PublishElapsed, Decide, Stop, historyVars
    <3>2. \A u \in Tasks : held'[u] = NoRow \/ (held'[u] = held[u] /\ heldFor'[u] = heldFor[u])
      BY <2>4 DEF TypeOK, PickNone, SelectFound, SelectMissing, SelectErr, PublishOk, PublishMailboxFull, PublishErr,
         PublishElapsed, Decide, Stop, Release
    <3> QED
      BY <3>1, <3>2, SameLease DEF dbVars
  <2>5. CASE PickOther(t) \/ OtherDone(t) \/ OtherErr(t)
    BY <2>5, SameLease DEF PickOther, OtherDone, OtherErr, MarkOther, dbVars, historyVars
  <2> QED
    BY <1>3, <2>1, <2>2, <2>3, <2>4, <2>5 DEF TaskStep
<1>4. ASSUME NEW s \in Servers, ServerStep(s)
      PROVE  LeaseInv'
  <2>1. \A t \in Tasks : held'[t] = NoRow \/ (held'[t] = held[t] /\ heldFor'[t] = heldFor[t])
    BY <1>4 DEF TypeOK, ServerStep, Start, Listen, Recv, Spawn, Reconnect, Crash, taskVars
  <2>2. UNCHANGED <<dbVars, late>>
    BY <1>4 DEF ServerStep, Start, Listen, Recv, Spawn, Reconnect, Crash, historyVars
  <2> QED
    BY <2>1, <2>2, SameLease DEF dbVars
<1>5. CASE OtherTraffic \/ OtherRowsChange
  BY <1>5, SameLease DEF OtherTraffic, OtherRowsChange, serverVars, dbVars, taskVars, historyVars
<1>6. CASE DeadLettersCheck
  <2>1. UNCHANGED <<held, heldFor, late, updatedAgo>>
    BY <1>6 DEF DeadLettersCheck, taskVars, historyVars
  <2>2. \A r \in Rows : status'[r] = status[r] \/ Stale(r)
    BY <1>6 DEF DeadLettersCheck
  <2>3. \A r \in Rows \ late : Stale(r) => \A t \in Tasks : ~Timely(t, r)
    BY DEF LeaseInv, Stale, Timely, TypeOK
  <2>4. \A r \in Rows, t \in Tasks : Timely(t, r)' <=> Timely(t, r)
    BY <2>1 DEF Timely
  <2> QED
    BY <2>1, <2>2, <2>3, <2>4, SameLease
<1>7. CASE Tick
  <2>1. UNCHANGED <<status, held, late>>
    BY <1>7 DEF Tick, historyVars
  <2>2. \A t \in Tasks, r \in Rows :
           Timely(t, r)' => Timely(t, r) /\ heldFor'[t] = heldFor[t] + 1
    BY <1>7 DEF Tick, Older, Timely, TypeOK
  <2>3. \A r \in Rows : status[r] = "processing" /\ updatedAgo[r] <= Timeout =>
           updatedAgo'[r] = updatedAgo[r] + 1
    BY <1>7 DEF Tick, Older, Exists, TypeOK
  <2> QED
    BY <2>1, <2>2, <2>3 DEF LeaseInv, LeaseExclusive, Timely
<1>8. CASE UNCHANGED vars
  BY <1>8, SameLease DEF vars
<1> QED
  BY <1>1, <1>2, <1>3, <1>4, <1>5, <1>6, <1>7, <1>8 DEF Step, Next

-----------------------------------------------------------------------------
(* No row is forgotten.                                                    *)

\* One step that is not a fault leaves every processing row with a holder.
LEMMA OrphanStep ==
    ASSUME TypeOK, HeldInv, CounterInv, NoOrphanWithoutFault, Step
    PROVE  NoOrphanWithoutFault'
<1> USE PublisherAssumption
<1> DEFINE Owned(r) == status[r] = "processing" => \E t \in Tasks : held[t] = r
<1> SUFFICES ASSUME faults' = 0, NEW r \in Rows
             PROVE  Owned(r)'
  BY DEF NoOrphanWithoutFault
<1>0. faults = 0 /\ ~Fault /\ Owned(r)
  <2>1. faults \in Nat
    BY DEF TypeOK
  <2>2. ~Fault
    BY <2>1 DEF Fault
  <2>3. faults = 0
    BY <2>1, <2>2 DEF Step, Next, vars, UpsertSubscriberNotifications, DeleteRow, LockRow, UnlockRow,
       TaskStep, Pick, PickNone, PickErr, PickOther, OtherDone, OtherErr, SelectFound, SelectMissing, SelectErr, PublishOk, PublishMailboxFull, PublishErr,
       PublishElapsed, Decide, UpdateStatus, UpdateErr, Stop, ServerStep, Start, Listen, Recv, Spawn,
       Reconnect, Crash, OtherTraffic, OtherRowsChange, DeadLettersCheck, Tick, historyVars
  <2> QED
    BY <2>2, <2>3 DEF NoOrphanWithoutFault
<1>1. ASSUME NEW R \in SUBSET Rows, NEW age \in 0..GiveUp+1,
             UpsertSubscriberNotifications(R, age)
      PROVE  Owned(r)'
  BY <1>0, <1>1 DEF UpsertSubscriberNotifications, taskVars
<1>2. ASSUME NEW o \in Rows, DeleteRow(o) \/ LockRow(o) \/ UnlockRow(o)
      PROVE  Owned(r)'
  BY <1>0, <1>2 DEF TypeOK, DeleteRow, LockRow, UnlockRow, dbVars, taskVars
<1>3. ASSUME NEW t \in Tasks, TaskStep(t)
      PROVE  Owned(r)'
  <2>1. CASE Pick(t)
    <3>1. PICK o \in Rows : MarkProcessing(o) /\ held' = [held EXCEPT ![t] = o]
      BY <2>1 DEF Pick
    <3>2. CASE r = o
      BY <3>1, <3>2 DEF TypeOK
    <3>3. CASE r # o
      <4>1. held[t] = NoRow
        BY <2>1 DEF Pick, HeldInv, Holding
      <4>2. status'[r] = status[r]
        BY <3>1, <3>3 DEF MarkProcessing, TypeOK
      <4> QED
        BY <1>0, <3>1, <4>1, <4>2 DEF TypeOK
    <3> QED
      BY <3>2, <3>3
  <2>2. CASE SelectMissing(t)
    BY <1>0, <2>2 DEF SelectMissing, Release, Exists, TypeOK, dbVars
  <2>3. CASE UpdateStatus(t)
    <3>1. /\ held[t] \in Rows
          /\ r # held[t] => status'[r] = status[r]
          /\ r = held[t] => status'[r] # "processing"
      <4>1. pc[t] \in DOMAIN Setting /\ WriteStatus(t, Setting[pc[t]])
        BY <2>3 DEF UpdateStatus
      <4>2. Setting[pc[t]] # "processing"
        BY <4>1 DEF Setting
      <4> QED
        BY <4>1, <4>2, WriteStatusEffect DEF Exists
    <3> QED
      BY <1>0, <2>3, <3>1 DEF UpdateStatus, Release, TypeOK
  <2>4. CASE PickNone(t) \/ SelectFound(t) \/ PublishOk(t) \/ PublishMailboxFull(t) \/ PublishErr(t) \/ PublishElapsed(t)
               \/ Decide(t) \/ Stop(t)
    BY <1>0, <2>4 DEF PickNone, SelectFound, PublishOk, PublishMailboxFull, PublishErr, PublishElapsed, Decide, Stop, dbVars
  <2>5. CASE PickOther(t) \/ OtherDone(t)
    BY <1>0, <2>5 DEF PickOther, OtherDone, MarkOther
  <2> QED
    BY <1>0, <1>3, <2>1, <2>2, <2>3, <2>4, <2>5 DEF TaskStep, PickErr, SelectErr, UpdateErr, OtherErr
<1>4. ASSUME NEW s \in Servers, ServerStep(s)
      PROVE  Owned(r)'
  BY <1>0, <1>4 DEF ServerStep, Start, Listen, Recv, Spawn, Reconnect, Crash, dbVars, taskVars
<1>5. CASE OtherTraffic \/ OtherRowsChange
  BY <1>0, <1>5 DEF OtherTraffic, OtherRowsChange, serverVars, dbVars, taskVars
<1>6. CASE DeadLettersCheck
  BY <1>0, <1>6 DEF DeadLettersCheck, taskVars
<1>7. CASE Tick
  BY <1>0, <1>7 DEF Tick
<1>8. CASE UNCHANGED vars
  BY <1>0, <1>8 DEF vars
<1> QED
  BY <1>1, <1>2, <1>3, <1>4, <1>5, <1>6, <1>7, <1>8 DEF Step, Next

-----------------------------------------------------------------------------
(* The theorems.                                                           *)

\* All parts of the invariant together: the initial state has it (empty table,
\* no instance running) and every action of the service keeps it.
THEOREM PublisherInvariance == Spec => []PublisherInv
<1>1. Init => PublisherInv
  <2> SUFFICES ASSUME Init
               PROVE  PublisherInv
    OBVIOUS
  <2> USE PublisherAssumption DEF Init
  <2>1. TypeOK
    BY DEF TypeOK, Status, Others, PC
  <2>2. HeldInv
    BY DEF HeldInv, Holding
  <2>3. CounterInv
    <3>1. \A s \in Servers : Live(s) = {}
      BY DEF Live, TasksOf
    <3> QED
      BY <3>1, FS_EmptySet DEF CounterInv
  <2>4. OutcomeInv /\ LeaseInv /\ NoOrphanWithoutFault
    BY DEF OutcomeInv, OutcomeIsTrue, LeaseInv, LeaseExclusive, Timely, NoOrphanWithoutFault
  <2> QED
    BY <2>1, <2>2, <2>3, <2>4 DEF PublisherInv
<1>2. PublisherInv /\ [Next]_vars => PublisherInv'
  <2> SUFFICES ASSUME PublisherInv, Step
               PROVE  PublisherInv'
    BY DEF Step
  <2> QED
    BY TypeStep, HeldStep, CounterStep, OutcomeStep, LeaseStep, OrphanStep DEF PublisherInv
<1> QED
  BY <1>1, <1>2, PTL DEF Spec

\* Rows, tasks and listeners of the publisher service keep their types: no counter
\* of workers goes below zero (spawned_tasks_counter is unsigned), no worker outlives
\* its timeout.
THEOREM PublisherTypes == Spec => []TypeOK
<1>1. PublisherInv => TypeOK
  BY DEF PublisherInv
<1> QED
  BY <1>1, PublisherInvariance, PTL

\* spawned_tasks_counter counts the running workers exactly and never exceeds
\* MAX_WORKERS.
THEOREM CounterCorrect == Spec => []CounterExact
<1>1. PublisherInv => CounterExact
  BY DEF PublisherInv, CounterInv, CounterExact
<1> QED
  BY <1>1, PublisherInvariance, PTL

\* published means that the relay has answered for the row (it took the message, or
\* refused it for a full mailbox), failed means given up.
THEOREM OutcomesCorrect == Spec => []OutcomeIsTrue
<1>1. PublisherInv => OutcomeIsTrue
  BY DEF PublisherInv, OutcomeInv
<1> QED
  BY <1>1, PublisherInvariance, PTL

\* At most one task holds a row within its lease, unless a task wrote it late.
THEOREM LeaseCorrect == Spec => []LeaseExclusive
<1>1. PublisherInv => LeaseExclusive
  BY DEF PublisherInv, LeaseInv
<1> QED
  BY <1>1, PublisherInvariance, PTL

\* Without faults every processing row has a worker.
THEOREM NoOrphan == Spec => []NoOrphanWithoutFault
<1>1. PublisherInv => NoOrphanWithoutFault
  BY DEF PublisherInv
<1> QED
  BY <1>1, PublisherInvariance, PTL

\* published and failed are final for rows that are not written late.
THEOREM OutcomesFinal == Spec => OutcomeIsFinal
<1> DEFINE Final == \A r \in Rows \ late' :
              status[r] \in {"published", "failed"} => status'[r] \in {status[r], "deleted"}
<1>1. PublisherInv /\ [Next]_vars => [Final]_vars
  <2> SUFFICES ASSUME PublisherInv, Next, NEW r \in Rows, r \notin late',
                      status[r] \in {"published", "failed"}
               PROVE  status'[r] \in {status[r], "deleted"}
    BY DEF vars
  <2> USE DEF PublisherInv
  <2>1. ASSUME NEW R \in SUBSET Rows, NEW age \in 0..GiveUp+1,
               UpsertSubscriberNotifications(R, age)
        PROVE  status'[r] = status[r]
    BY <2>1 DEF UpsertSubscriberNotifications
  <2>2. ASSUME NEW o \in Rows, DeleteRow(o) \/ LockRow(o) \/ UnlockRow(o)
        PROVE  status'[r] \in {status[r], "deleted"}
    BY <2>2 DEF DeleteRow, LockRow, UnlockRow, dbVars, TypeOK
  <2>3. ASSUME NEW t \in Tasks, TaskStep(t)
        PROVE  status'[r] = status[r]
    <3>1. CASE Pick(t) \/ PickErr(t)
      BY <3>1 DEF Pick, PickErr, MarkProcessing, MarkOther, Queued, dbVars, TypeOK
    <3>2. CASE WriteStatus(t, Setting[pc[t]]) /\ pc[t] \in DOMAIN Setting
      <4>1. late' = IF heldFor[t] > Timeout THEN late \cup {held[t]} ELSE late
        BY <3>2 DEF WriteStatus
      <4>2. r # held[t]
        <5>1. SUFFICES ASSUME r = held[t]
                       PROVE  FALSE
          OBVIOUS
        <5>2. r \in Rows \ late /\ Timely(t, r)
          BY <4>1, <5>1, PublisherAssumption DEF Timely, TypeOK
        <5> QED
          BY <5>2 DEF LeaseInv
      <4> QED
        BY <3>2, <4>2, WriteStatusEffect
    <3>3. CASE UNCHANGED dbVars
      BY <3>3 DEF dbVars
    <3>4. CASE PickOther(t) \/ OtherDone(t) \/ OtherErr(t)
      BY <3>4 DEF PickOther, OtherDone, OtherErr, MarkOther, dbVars
    <3> QED
      BY <2>3, <3>1, <3>2, <3>3, <3>4 DEF TaskStep, PickNone, SelectFound, SelectMissing, SelectErr,
         PublishOk, PublishMailboxFull, PublishErr, PublishElapsed, Decide, UpdateStatus, UpdateErr, Stop
  <2>4. ASSUME NEW s \in Servers, ServerStep(s)
        PROVE  status'[r] = status[r]
    BY <2>4 DEF ServerStep, Start, Listen, Recv, Spawn, Reconnect, Crash, dbVars
  <2>5. CASE OtherTraffic \/ OtherRowsChange \/ DeadLettersCheck \/ Tick
    BY <2>5 DEF OtherTraffic, OtherRowsChange, DeadLettersCheck, Tick, Stale, dbVars
  <2> QED
    BY <2>1, <2>2, <2>3, <2>4, <2>5 DEF Next
<1> QED
  BY <1>1, PublisherInvariance, PTL DEF Spec, OutcomeIsFinal

-----------------------------------------------------------------------------
(* The publisher service implements Delivery.                              *)

\* A step that keeps what Delivery sees of the state is a stutter of Delivery.
LEMMA Stutters ==
    ASSUME DeliveryState' = DeliveryState, relayed' = relayed, refused' = refused,
           Overdue' = Overdue, late' = late
    PROVE  [D!Next]_(D!vars)
BY DEF D!vars

\* Picking a row and taking it back move it between queued and processing only
\* (pick_subscriber_notification_for_processing, dead_letters_check).
LEMMA PendingStutters ==
    ASSUME TypeOK, UNCHANGED <<createdAgo, relayed, refused, late>>,
           status' \in [Rows -> Status],
           \A r \in Rows : \/ status'[r] = status[r]
                           \/ {status[r], status'[r]} \subseteq {"queued", "processing"}
    PROVE  [D!Next]_(D!vars)
<1>1. DeliveryState' = DeliveryState
  BY DEF DeliveryState, TypeOK
<1>2. Overdue' = Overdue
  BY DEF Overdue
<1> QED
  BY <1>1, <1>2, Stutters

\* The INSERT of new rows is one Accept, with some of them overdue already when
\* their notification is old (upsert_subscriber_notifications).
LEMMA UpsertAccepts ==
    ASSUME TypeOK, NEW R \in SUBSET Rows, NEW age \in 0..GiveUp+1,
           UpsertSubscriberNotifications(R, age)
    PROVE  [D!Next]_(D!vars)
<1> DEFINE O == IF age > GiveUp THEN R ELSE {}
<1>1. \A r \in R : status[r] = "none"
  BY DEF UpsertSubscriberNotifications
<1>2. DeliveryState' = [r \in Rows |-> IF r \in R THEN "pending" ELSE DeliveryState[r]]
  BY DEF UpsertSubscriberNotifications, DeliveryState
<1>3. \A r \in R : DeliveryState[r] = "absent"
  BY <1>1 DEF DeliveryState
<1>4. Overdue' = Overdue \cup O
  BY <1>1 DEF UpsertSubscriberNotifications, Overdue
<1>5. UNCHANGED <<relayed, refused, late>>
  BY DEF UpsertSubscriberNotifications, historyVars
<1>6. O \in SUBSET R
  OBVIOUS
<1>7. D!Accept(R)
  BY <1>2, <1>3, <1>4, <1>5, <1>6 DEF D!Accept
<1> QED
  BY <1>7 DEF D!Next

\* Time passes in one Age (Tick).
LEMMA TickAges ==
    ASSUME TypeOK, Tick
    PROVE  [D!Next]_(D!vars)
<1>1. DeliveryState' = DeliveryState /\ UNCHANGED <<relayed, refused, late>>
  BY DEF Tick, DeliveryState, historyVars
<1>2. Overdue' = Overdue \cup Overdue'
  BY PublisherAssumption DEF Tick, Overdue, Older, TypeOK
<1>3. Overdue' \in SUBSET Rows /\ \A r \in Overdue' : DeliveryState[r] # "absent"
  BY DEF Tick, Overdue, DeliveryState, TypeOK, Status
<1>4. D!Age(Overdue')
  BY <1>1, <1>2, <1>3 DEF D!Age
<1> QED
  BY <1>3, <1>4 DEF D!Next

\* The status that a task writes at its end is a true outcome or pending, and it
\* settles a pending row unless the row is disputed
\* (update_message_processing_status).
LEMMA WriteSettles ==
    ASSUME PublisherInv, NEW t \in Tasks, pc[t] \in DOMAIN Setting,
           WriteStatus(t, Setting[pc[t]])
    PROVE  [D!Next]_(D!vars)
<1> DEFINE r == held[t]
           new == Setting[pc[t]]
           shown == IF new = "queued" THEN "pending" ELSE new
<1>1. /\ r \in Rows /\ status[r] # "none" /\ status[r] \in Status
      /\ pc[t] \in {"setPublished", "setQueued", "setFailed"}
  BY DEF PublisherInv, TypeOK, HeldInv, Holding, Setting
<1>2. /\ new \in {"published", "queued", "failed"}
      /\ new = "published" => r \in relayed \cup refused
      /\ new = "failed" => r \in Overdue
  BY <1>1 DEF PublisherInv, OutcomeInv, Setting, Overdue
<1>3. UNCHANGED <<relayed, refused, createdAgo>>
  BY DEF WriteStatus
<1>4. DeliveryState[r] # "absent" /\ (DeliveryState[r] = "deleted" <=> ~Exists(r))
  BY <1>1 DEF DeliveryState, Exists, Status
<1>5. CASE ~Exists(r)
  <2>1. status' = status
    BY <1>5 DEF WriteStatus
  <2>2. DeliveryState' = DeliveryState /\ Overdue' = Overdue
    BY <1>3, <2>1 DEF DeliveryState, Overdue
  <2>3. CASE late' = late
    BY <1>3, <2>2, <2>3, Stutters
  <2>4. CASE late' = late \cup {r}
    <3>1. D!Dispute(r)
      BY <1>3, <1>4, <2>2, <2>4 DEF D!Dispute
    <3> QED
      BY <1>1, <3>1 DEF D!Next
  <2> QED
    BY <2>3, <2>4 DEF WriteStatus
<1>6. CASE Exists(r)
  <2>1. status' = [status EXCEPT ![r] = new]
    BY <1>6 DEF WriteStatus
  <2>2. DeliveryState' = [DeliveryState EXCEPT ![r] = shown]
    BY <1>1, <1>2, <2>1 DEF DeliveryState, PublisherInv, TypeOK
  <2>3. Overdue' = Overdue
    BY <1>1, <1>2, <1>3, <2>1 DEF Overdue, PublisherInv, TypeOK
  <2>4. \/ shown = "pending"
        \/ shown \in D!Outcomes /\ D!True(r, shown)
    BY <1>2 DEF D!Outcomes, D!True
  <2>5. CASE late' = late \cup {r}
    <3>1. D!Dispute(r)
      BY <1>3, <1>4, <1>6, <2>2, <2>3, <2>4, <2>5 DEF D!Dispute
    <3> QED
      BY <1>1, <3>1 DEF D!Next
  <2>6. CASE r \notin late /\ late' = late
    <3>1. heldFor[t] <= Timeout
      <4>1. heldFor[t] \in 0..Timeout+1 /\ Timeout \in Nat
        BY PublisherAssumption DEF PublisherInv, TypeOK
      <4>2. ~(heldFor[t] > Timeout)
        BY <2>6 DEF WriteStatus
      <4> QED
        BY <4>1, <4>2
    <3>2. status[r] = "processing"
      BY <1>1, <1>6, <2>6, <3>1 DEF PublisherInv, LeaseInv, Timely, Exists
    <3>3. DeliveryState[r] = "pending"
      BY <1>1, <3>2 DEF DeliveryState
    <3>4. CASE shown = "pending"
      <4>1. DeliveryState' = DeliveryState
        BY <1>1, <2>2, <3>3, <3>4 DEF DeliveryState
      <4> QED
        BY <1>3, <2>3, <2>6, <4>1, Stutters
    <3>5. CASE shown \in D!Outcomes /\ D!True(r, shown)
      <4>1. D!Settle(r, shown)
        BY <1>3, <2>2, <2>3, <2>6, <3>3, <3>5 DEF D!Settle
      <4> QED
        BY <1>1, <3>5, <4>1 DEF D!Next
    <3> QED
      BY <2>4, <3>4, <3>5
  <2> QED
    BY <2>5, <2>6 DEF WriteStatus
<1> QED
  BY <1>5, <1>6

\* The relay takes a row that some task holds (process_notification).
LEMMA RelayTakesHeld ==
    ASSUME TypeOK, HeldInv, NEW t \in Tasks, pc[t] = "process",
           relayed' = relayed \cup {held[t]}, UNCHANGED <<status, createdAgo, refused, late>>
    PROVE  [D!Next]_(D!vars)
<1>1. held[t] \in Rows /\ status[held[t]] # "none"
  BY DEF TypeOK, HeldInv, Holding
<1>2. DeliveryState' = DeliveryState /\ Overdue' = Overdue
  BY DEF DeliveryState, Overdue
<1>3. DeliveryState[held[t]] # "absent"
  BY <1>1 DEF DeliveryState, TypeOK, Status
<1>4. D!RelayTakes(held[t])
  BY <1>2, <1>3 DEF D!RelayTakes
<1> QED
  BY <1>1, <1>4 DEF D!Next

\* The relay refuses a row that some task holds (publish_relay_message).
LEMMA RelayRefusesHeld ==
    ASSUME TypeOK, HeldInv, NEW t \in Tasks, PublishMailboxFull(t)
    PROVE  [D!Next]_(D!vars)
<1>1. held[t] \in Rows /\ status[held[t]] # "none"
  BY DEF PublishMailboxFull, TypeOK, HeldInv, Holding
<1>2. DeliveryState' = DeliveryState /\ Overdue' = Overdue
  BY DEF PublishMailboxFull, DeliveryState, Overdue, dbVars
<1>3. DeliveryState[held[t]] # "absent"
  BY <1>1 DEF DeliveryState, TypeOK, Status
<1>4. D!RelayRefuses(held[t])
  BY <1>2, <1>3 DEF D!RelayRefuses, PublishMailboxFull
<1> QED
  BY <1>1, <1>4 DEF D!Next

\* A step of a worker task: it takes a row, tells what the relay did, settles the
\* row, or does nothing Delivery sees (process_queued_messages).
LEMMA TaskStepDelivers ==
    ASSUME PublisherInv, NEW t \in Tasks, TaskStep(t)
    PROVE  [D!Next]_(D!vars)
<1> USE DEF PublisherInv
<1>1. ASSUME NEW r \in Rows, MarkProcessing(r), UNCHANGED <<relayed, refused, late>>
      PROVE  [D!Next]_(D!vars)
  <2>1. status' = [status EXCEPT ![r] = "processing"] /\ status[r] = "queued"
    BY <1>1 DEF MarkProcessing, Queued
  <2>2. status' \in [Rows -> Status]
    BY <2>1 DEF TypeOK, Status
  <2>3. \A o \in Rows : \/ status'[o] = status[o]
                        \/ {status[o], status'[o]} \subseteq {"queued", "processing"}
    BY <2>1 DEF TypeOK
  <2>4. UNCHANGED createdAgo
    BY <1>1 DEF MarkProcessing
  <2> QED
    BY <1>1, <2>2, <2>3, <2>4, PendingStutters
<1>2. ASSUME UNCHANGED <<status, createdAgo, relayed, refused, late>>
      PROVE  [D!Next]_(D!vars)
  BY <1>2, Stutters DEF DeliveryState, Overdue
<1>3. CASE Pick(t)
  BY <1>1, <1>3 DEF Pick, historyVars
<1>4. CASE PickErr(t)
  BY <1>1, <1>2, <1>4 DEF PickErr, MarkOther, dbVars
<1>5. CASE PublishOk(t)
  BY <1>5, RelayTakesHeld DEF PublishOk, dbVars
<1>6. CASE PublishErr(t) \/ PublishElapsed(t)
  <2>1. PublishErr(t)
    BY <1>6 DEF PublishElapsed
  <2> QED
    BY <1>2, <2>1, RelayTakesHeld DEF PublishErr, dbVars
<1>7. CASE UpdateStatus(t)
  BY <1>7, WriteSettles DEF UpdateStatus
<1>8. CASE UpdateErr(t)
  BY <1>2, <1>8, WriteSettles DEF UpdateErr, dbVars
<1>9. CASE \/ PickNone(t) \/ SelectFound(t) \/ SelectMissing(t) \/ SelectErr(t)
           \/ Decide(t) \/ Stop(t)
  BY <1>2, <1>9 DEF PickNone, SelectFound, SelectMissing, SelectErr, Decide, Stop,
     dbVars, historyVars
<1>10. CASE PublishMailboxFull(t)
  BY <1>10, RelayRefusesHeld
<1>11. CASE PickOther(t) \/ OtherDone(t) \/ OtherErr(t)
  BY <1>2, <1>11 DEF PickOther, OtherDone, OtherErr, MarkOther, dbVars, historyVars
<1> QED
  BY <1>3, <1>4, <1>5, <1>6, <1>7, <1>8, <1>9, <1>10, <1>11 DEF TaskStep

\* The service implements Delivery: whatever workers, dead-letter checks, failed
\* statements and crashes do, every step is a step of the promise or invisible in it.
THEOREM PublisherDelivers == Spec => Delivers
<1>1. Init => D!Init
  BY DEF Init, D!Init, DeliveryState, Overdue
<1>2. PublisherInv /\ [Next]_vars => [D!Next]_(D!vars)
  <2> SUFFICES ASSUME PublisherInv, [Next]_vars
               PROVE  [D!Next]_(D!vars)
    OBVIOUS
  <2> USE DEF PublisherInv
  <2>1. ASSUME UNCHANGED <<status, createdAgo, relayed, refused, late>>
        PROVE  [D!Next]_(D!vars)
    BY <2>1, Stutters DEF DeliveryState, Overdue
  <2>2. ASSUME NEW R \in SUBSET Rows, NEW age \in 0..GiveUp+1,
               UpsertSubscriberNotifications(R, age)
        PROVE  [D!Next]_(D!vars)
    BY <2>2, UpsertAccepts
  <2>3. ASSUME NEW r \in Rows, DeleteRow(r)
        PROVE  [D!Next]_(D!vars)
    <3>1. status' = [status EXCEPT ![r] = "deleted"] /\ Exists(r)
          /\ UNCHANGED <<createdAgo, relayed, refused, late>>
      BY <2>3 DEF DeleteRow, historyVars
    <3>2. DeliveryState' = [DeliveryState EXCEPT ![r] = "deleted"]
      BY <3>1 DEF DeliveryState, TypeOK
    <3>3. Overdue' = Overdue
      BY <3>1 DEF Overdue, Exists, TypeOK
    <3>4. DeliveryState[r] \notin {"absent", "deleted"}
      BY <3>1 DEF DeliveryState, Exists, TypeOK, Status
    <3>5. D!Delete(r)
      BY <3>1, <3>2, <3>3, <3>4 DEF D!Delete
    <3> QED
      BY <3>5 DEF D!Next
  <2>4. ASSUME NEW r \in Rows, LockRow(r) \/ UnlockRow(r)
        PROVE  [D!Next]_(D!vars)
    BY <2>1, <2>4 DEF LockRow, UnlockRow, dbVars, historyVars
  <2>5. ASSUME NEW s \in Servers, ServerStep(s)
        PROVE  [D!Next]_(D!vars)
    BY <2>1, <2>5 DEF ServerStep, Start, Listen, Recv, Spawn, Reconnect, Crash, dbVars, historyVars
  <2>6. CASE DeadLettersCheck
    <3>1. \A r \in Rows : \/ status'[r] = status[r]
                          \/ {status[r], status'[r]} \subseteq {"queued", "processing"}
      BY <2>6 DEF DeadLettersCheck, Stale
    <3>2. status' \in [Rows -> Status]
      BY <2>6 DEF DeadLettersCheck, TypeOK, Status
    <3>3. UNCHANGED <<createdAgo, relayed, refused, late>>
      BY <2>6 DEF DeadLettersCheck, historyVars
    <3> QED
      BY <3>1, <3>2, <3>3, PendingStutters
  <2>7. CASE OtherTraffic \/ OtherRowsChange
    BY <2>1, <2>7 DEF OtherTraffic, OtherRowsChange, serverVars, dbVars, historyVars
  <2>8. CASE UNCHANGED vars
    BY <2>1, <2>8 DEF vars
  <2> QED
    BY <2>2, <2>3, <2>4, <2>5, <2>6, <2>7, <2>8, TaskStepDelivers, TickAges DEF Next
<1> QED
  BY <1>1, <1>2, PublisherInvariance, PTL DEF Spec, Delivers, D!Spec
=============================================================================
