-------------------------- MODULE RelayTopicsProofs --------------------------
(***************************************************************************)
(* The safety properties of RelayTopics, for any number of projects,       *)
(* handlers, rows and faults, any renewal time and any time to live longer *)
(* than two renewals and a day.                                            *)
(***************************************************************************)
EXTENDS RelayTopics, TLAPS

Step == [Next]_vars

-----------------------------------------------------------------------------
(* Rows, topics and calls.                                                 *)

\* Topics of rows are numbers apart from the key agreement topic and NoTopic.
LEMMA TopicTypes ==
    /\ MaxRows \in Nat /\ NoTopic \in Nat /\ NoTopic \notin Topics
    /\ Rows \subseteq Topics /\ Topics \subseteq Nat /\ KeyAgreement \in Topics \ Rows
BY RelayTopicsAssumption DEF Rows, NoTopic, Topics, KeyAgreement

\* A handler that calls the relay has the topic of a row, any other has none.
LEMMA CallTypes ==
    ASSUME TypeOK, NEW h \in Handlers
    PROVE  /\ call[h] # NoCall => /\ call[h].topic \in Rows /\ call[h].project \in Projects
                                  /\ call[h].row \in {"project", "subscriber"}
           /\ call[h] = NoCall => call[h].topic = NoTopic /\ call[h].row = "none"
BY DEF TypeOK, NoCall

\* A project row has a topic, a project without one has NoTopic (table project).
LEMMA ProjectTypes ==
    ASSUME TypeOK, NEW p \in Projects
    PROVE  /\ p \in Registered => project[p].topic \in Rows
           /\ p \notin Registered => project[p].topic = NoTopic
BY DEF TypeOK, Registered, NoProject

\* Every topic in the database is a topic of the relay.
LEMMA StoredTypes ==
    ASSUME TypeOK
    PROVE  SubscriberTopics \subseteq Rows /\ ProjectTopics \subseteq Rows /\ Stored \subseteq Topics
<1>1. SubscriberTopics \subseteq Rows
  BY DEF SubscriberTopics, TypeOK
<1>2. ProjectTopics \subseteq Rows
  BY ProjectTypes DEF ProjectTopics, Registered
<1> QED
  BY <1>1, <1>2, TopicTypes DEF Stored

\* upsert_project keeps the topic of a row that exists and gives a new one the next.
LEMMA UpsertedTypes ==
    ASSUME TypeOK, NEW p \in Projects, NEW d \in Domains, Upserted(p, d).topic \in Rows
    PROVE  /\ Upserted(p, d) \in [domain : Domains, topic : Rows]
           /\ Upserted(p, d) # NoProject
           /\ p \in Registered => Upserted(p, d).topic = project[p].topic
           /\ p \notin Registered => Upserted(p, d).topic = inserted + 1
BY TopicTypes DEF Upserted, NoProject

-----------------------------------------------------------------------------
(* Type correctness.                                                       *)

\* Every action of handlers, job, tasks and relay keeps the types.
LEMMA TypeStep ==
    ASSUME TypeOK, Step
    PROVE  TypeOK'
<1> USE RelayTopicsAssumption, TopicTypes
<1>1. ASSUME NEW h \in Handlers, NEW p \in Projects, NEW d \in Domains, SubscribeTopic(h, p, d)
      PROVE  TypeOK'
  <2> DEFINE row == Upserted(p, d)
  <2>1. row \in [domain : Domains, topic : Rows] /\ row.topic \in Rows
    BY <1>1, UpsertedTypes DEF SubscribeTopic
  <2>2. project' \in [Projects -> [domain : Domains, topic : Rows] \cup {NoProject}]
    BY <1>1, <2>1 DEF SubscribeTopic, TypeOK
  <2>3. inserted' \in 0..MaxRows
    BY <1>1, <2>1 DEF SubscribeTopic, TypeOK, Rows
  <2>4. call' \in [Handlers -> [row : {"project", "subscriber"}, project : Projects, topic : Rows]
                               \cup {NoCall}]
    BY <1>1, <2>1 DEF SubscribeTopic, Calls, TypeOK
  <2> QED
    BY <1>1, <2>2, <2>3, <2>4 DEF SubscribeTopic, relayVars, jobVars, TypeOK
<1>2. ASSUME NEW h \in Handlers, NEW p \in Projects, NotifySubscribe(h, p)
      PROVE  TypeOK'
  <2>1. PICK t \in Rows : /\ subscriber' = [subscriber EXCEPT ![p] = t]
                          /\ inserted' = IF t > inserted THEN t ELSE inserted
                          /\ Calls(h, "subscriber", p, t)
    BY <1>2 DEF NotifySubscribe
  <2>2. inserted' \in 0..MaxRows
    BY <2>1 DEF TypeOK, Rows
  <2>3. call' \in [Handlers -> [row : {"project", "subscriber"}, project : Projects, topic : Rows]
                               \cup {NoCall}]
    BY <2>1 DEF Calls, TypeOK
  <2> QED
    BY <1>2, <2>1, <2>2, <2>3 DEF NotifySubscribe, relayVars, jobVars, TypeOK
<1>3. ASSUME NEW p \in Projects, NotifyDelete(p)
      PROVE  TypeOK'
  BY <1>3 DEF NotifyDelete, relayVars, jobVars, TypeOK
<1>4. ASSUME NEW h \in Handlers, RelaySubscribe(h) \/ RelaySubscribeErr(h)
      PROVE  TypeOK'
  <2>1. call[h].topic \in Rows /\ call[h].project \in Projects
    BY <1>4, CallTypes DEF RelaySubscribe, RelaySubscribeErr
  <2>2. age' \in [Topics -> 0..TTL]
    BY <1>4, <2>1 DEF RelaySubscribe, RelaySubscribeErr, TypeOK
  <2>3. call' \in [Handlers -> [row : {"project", "subscriber"}, project : Projects, topic : Rows]
                               \cup {NoCall}]
    BY <1>4 DEF RelaySubscribe, RelaySubscribeErr, TypeOK
  <2>4. answered' \in [Projects -> SUBSET Rows]
    BY <1>4, <2>1 DEF RelaySubscribe, RelaySubscribeErr, TypeOK
  <2>5. faults' \in 0..MaxFaults
    BY <1>4 DEF RelaySubscribe, RelaySubscribeErr, Fault, TypeOK
  <2> QED
    BY <1>4, <2>2, <2>3, <2>4, <2>5 DEF RelaySubscribe, RelaySubscribeErr, dbVars, jobVars, TypeOK
<1>5. ASSUME NEW t \in unsub, RelayUnsubscribe(t)
      PROVE  TypeOK'
  BY <1>5 DEF RelayUnsubscribe, Fault, dbVars, jobVars, TypeOK
<1>6. CASE Start
  BY <1>6 DEF Start, dbVars, relayVars, serverVars, TypeOK
<1>7. CASE RegisterWebhook
  <2>1. 0 \in 0..TTL
    OBVIOUS
  <2> QED
    BY <1>7, <2>1 DEF RegisterWebhook, dbVars, serverVars, TypeOK
<1>8. CASE EndRenewal
  <2>1. running' \in BOOLEAN
    BY <1>8 DEF EndRenewal
  <2>2. renewDays' \in 0..MaxRenewDays
    <3>1. renewDays' = 0
      BY <1>8 DEF EndRenewal
    <3> QED
      BY <3>1
  <2> QED
    BY <1>8, <2>1, <2>2 DEF EndRenewal, dbVars, relayVars, serverVars, TypeOK
<1>9. CASE ReadSubscribers \/ ReadProjects
  <2>1. topics' \in SUBSET Topics
    BY <1>9, StoredTypes DEF ReadSubscribers, ReadProjects, GetSubscriberTopics, AllTopics, TypeOK
  <2> QED
    BY <1>9, <2>1 DEF ReadSubscribers, ReadProjects, dbVars, relayVars, serverVars, TypeOK
<1>10. CASE StartRenewal
  <2>1. running' \in BOOLEAN
    <3>1. CASE running
      BY <1>10, <3>1 DEF StartRenewal, TypeOK
    <3>2. CASE ~running
      BY <1>10, <3>2 DEF StartRenewal
    <3> QED
      BY <3>1, <3>2
  <2>2. \/ renewDays' = renewDays /\ renewing' = renewing
        \/ renewDays' = 0 /\ renewing' = topics
    <3>1. CASE running
      BY <1>10, <3>1 DEF StartRenewal
    <3>2. CASE ~running
      BY <1>10, <3>2 DEF StartRenewal
    <3> QED
      BY <3>1, <3>2
  <2>3. renewing' \in SUBSET Topics
    BY <2>2 DEF TypeOK
  <2>4. renewDays' \in 0..MaxRenewDays
    BY <2>2 DEF TypeOK
  <2> QED
    BY <1>10, <2>1, <2>3, <2>4 DEF StartRenewal, dbVars, relayVars, serverVars, TypeOK
<1>11. ASSUME NEW t \in renewing, RenewTopic(t) \/ RenewTopicErr(t)
      PROVE  TypeOK'
  <2>1. t \in Topics /\ age' \in [Topics -> 0..TTL]
    BY <1>11 DEF RenewTopic, RenewTopicErr, TypeOK
  <2>2. renewing' \in SUBSET Topics
    BY <1>11 DEF RenewTopic, RenewTopicErr, TypeOK
  <2>3. faults' \in 0..MaxFaults
    BY <1>11 DEF RenewTopic, RenewTopicErr, Fault, TypeOK
  <2> QED
    BY <1>11, <2>1, <2>2, <2>3 DEF RenewTopic, RenewTopicErr, dbVars, serverVars, TypeOK
<1>12. ASSUME Shutdown
       PROVE  /\ stage' = "down" /\ job' = "sleep" /\ topics' \in SUBSET Topics
              /\ running' \in BOOLEAN /\ renewing' \in SUBSET Topics
              /\ renewDays' \in 0..MaxRenewDays /\ faults' \in 0..MaxFaults
              /\ unsub' \in SUBSET Rows
              /\ call' \in [Handlers -> [row : {"project", "subscriber"}, project : Projects,
                                         topic : Rows] \cup {NoCall}]
  <2>1. renewDays' = 0 /\ running' \in BOOLEAN /\ Fault
    BY <1>12 DEF Shutdown
  <2>2. renewDays' \in 0..MaxRenewDays /\ faults' \in 0..MaxFaults
    BY <2>1 DEF Fault, TypeOK
  <2> QED
    BY <1>12, <2>1, <2>2 DEF Shutdown
<1>13. CASE JobErr
  <2>1. webhook' \in 0..TTL
    BY <1>13 DEF JobErr, TypeOK
  <2>2. CASE stage = "starting"
    BY <1>13, <1>12, <2>1, <2>2 DEF JobErr, dbVars, TypeOK
  <2>3. CASE stage # "starting"
    <3>1. faults' \in 0..MaxFaults
      BY <1>13, <2>3 DEF JobErr, Fault, TypeOK
    <3> QED
      BY <1>13, <2>1, <2>3, <3>1 DEF JobErr, dbVars, serverVars, TypeOK
  <2> QED
    BY <2>2, <2>3
<1>14. CASE Crash
  BY <1>12, <1>14 DEF Crash, dbVars, relayVars, TypeOK
<1>15. CASE Day
  BY <1>15 DEF Day, dbVars, serverVars, TypeOK
<1>16. CASE UNCHANGED vars
  BY <1>16 DEF vars, TypeOK
<1> QED
  BY <1>1, <1>2, <1>3, <1>4, <1>5, <1>6, <1>7, <1>8, <1>9, <1>10, <1>11, <1>13, <1>14, <1>15, <1>16
  DEF Step, Next, Request, Job

-----------------------------------------------------------------------------
(* Rows and keys.                                                          *)

\* The requests that change rows, and what they do to the topics in the database
\* (upsert_project, upsert_subscriber, delete_subscriber).
LEMMA SubscribeTopicRows ==
    ASSUME TypeOK, RowsInv, NEW h \in Handlers, NEW p \in Projects, NEW d \in Domains,
           SubscribeTopic(h, p, d)
    PROVE  \E t \in Rows :
             /\ call[h] = NoCall
             /\ call' = [call EXCEPT ![h] = [row |-> "project", project |-> p, topic |-> t]]
             /\ project'[p].topic = t
             /\ \A q \in Projects \ {p} : project'[q] = project[q]
             /\ \/ project[p].topic = t /\ inserted' = inserted
                \/ project[p].topic = NoTopic /\ t = inserted + 1 /\ inserted' = t
             /\ ProjectTopics' = ProjectTopics \cup {t}
             /\ subscriber' = subscriber
<1> DEFINE row == Upserted(p, d)
<1>1. row.topic \in Rows /\ project' = [project EXCEPT ![p] = row] /\ subscriber' = subscriber
  BY DEF SubscribeTopic
<1>2. /\ row # NoProject
      /\ p \in Registered => row.topic = project[p].topic
      /\ p \notin Registered => row.topic = inserted + 1
  BY <1>1, UpsertedTypes
<1>3. project'[p] = row /\ \A q \in Projects \ {p} : project'[q] = project[q]
  BY <1>1 DEF TypeOK
<1>4. Registered' = Registered \cup {p}
  BY <1>2, <1>3 DEF Registered
<1>5. ProjectTopics' = ProjectTopics \cup {row.topic}
  <2>1. \A q \in Projects : q \in Registered => project'[q].topic = project[q].topic
    BY <1>2, <1>3
  <2> QED
    BY <1>3, <1>4, <2>1 DEF ProjectTopics, Registered
<1>6. inserted' = IF row.topic > inserted THEN row.topic ELSE inserted
  BY DEF SubscribeTopic
<1>7. call[h] = NoCall
      /\ call' = [call EXCEPT ![h] = [row |-> "project", project |-> p, topic |-> row.topic]]
  BY DEF SubscribeTopic, Calls
<1>8. inserted \in Nat /\ inserted + 1 > inserted
  BY RelayTopicsAssumption DEF TypeOK
<1>9. CASE p \in Registered
  <2>1. project[p].topic <= inserted
    BY <1>9, ProjectTypes, TopicTypes DEF RowsInv
  <2>2. inserted' = inserted
    <3>1. row.topic \in Nat /\ row.topic <= inserted
      BY <1>1, <1>2, <1>9, <2>1, TopicTypes
    <3>2. ~(row.topic > inserted)
      BY <1>8, <3>1
    <3> QED
      BY <1>6, <3>2
  <2> QED
    BY <1>1, <1>2, <1>3, <1>5, <1>7, <1>9, <2>2
<1>10. CASE p \notin Registered
  BY <1>1, <1>2, <1>3, <1>5, <1>6, <1>7, <1>8, <1>10, ProjectTypes
<1> QED
  BY <1>9, <1>10

\* The same for a subscriber row, whose topic is new when the row is.
LEMMA NotifySubscribeRows ==
    ASSUME TypeOK, RowsInv, NEW h \in Handlers, NEW p \in Projects, NotifySubscribe(h, p)
    PROVE  \E t \in Rows :
             /\ call[h] = NoCall
             /\ call' = [call EXCEPT ![h] = [row |-> "subscriber", project |-> p, topic |-> t]]
             /\ subscriber' = [subscriber EXCEPT ![p] = t]
             /\ \/ subscriber[p] = t /\ inserted' = inserted
                \/ subscriber[p] = NoTopic /\ t = inserted + 1 /\ inserted' = t
             /\ SubscriberTopics' = SubscriberTopics \cup {t}
             /\ project' = project
<1> DEFINE t == IF subscriber[p] = NoTopic THEN inserted + 1 ELSE subscriber[p]
<1>1. /\ t \in Rows /\ call[h] = NoCall /\ project' = project
      /\ subscriber' = [subscriber EXCEPT ![p] = t]
      /\ inserted' = IF t > inserted THEN t ELSE inserted
      /\ call' = [call EXCEPT ![h] = [row |-> "subscriber", project |-> p, topic |-> t]]
  BY DEF NotifySubscribe, Calls
<1>2. inserted \in Nat /\ inserted + 1 > inserted /\ t \in Nat /\ t # NoTopic
  <2>1. inserted \in Nat /\ inserted + 1 > inserted
    BY RelayTopicsAssumption DEF TypeOK
  <2>2. t \in Nat /\ t # NoTopic
    BY <1>1, TopicTypes
  <2> QED
    BY <2>1, <2>2
<1>3. \/ subscriber[p] = t /\ inserted' = inserted
      \/ subscriber[p] = NoTopic /\ t = inserted + 1 /\ inserted' = t
  <2>1. CASE subscriber[p] = NoTopic
    BY <1>1, <1>2, <2>1
  <2>2. CASE subscriber[p] # NoTopic
    <3>1. t = subscriber[p] /\ t <= inserted
      BY <2>2 DEF RowsInv
    <3>2. ~(t > inserted)
      BY <1>2, <3>1
    <3> QED
      BY <1>1, <3>1, <3>2
  <2> QED
    BY <2>1, <2>2
<1>4. SubscriberTopics' = SubscriberTopics \cup {t}
  <2>1. subscriber'[p] = t /\ \A q \in Projects \ {p} : subscriber'[q] = subscriber[q]
    BY <1>1 DEF TypeOK
  <2> QED
    BY <1>2, <1>3, <2>1 DEF SubscriberTopics
<1> QED
  BY <1>1, <1>3, <1>4

\* A deleted subscriber's topic is no other row's.
LEMMA NotifyDeleteRows ==
    ASSUME TypeOK, RowsInv, NEW p \in Projects, NotifyDelete(p)
    PROVE  /\ SubscriberTopics' = SubscriberTopics \ {subscriber[p]}
           /\ ProjectTopics' = ProjectTopics
           /\ subscriber[p] \in Rows \ ProjectTopics
           /\ Stored' \subseteq Stored /\ subscriber[p] \notin Stored'
<1>1. /\ subscriber[p] \in Rows /\ subscriber[p] # NoTopic
      /\ subscriber' = [subscriber EXCEPT ![p] = NoTopic] /\ project' = project
  BY DEF NotifyDelete, TypeOK
<1>2. SubscriberTopics' = SubscriberTopics \ {subscriber[p]}
  <2>1. subscriber'[p] = NoTopic /\ \A q \in Projects \ {p} : subscriber'[q] = subscriber[q]
    BY <1>1 DEF TypeOK
  <2>2. \A q \in Projects \ {p} : subscriber[q] # subscriber[p]
    BY <1>1 DEF RowsInv
  <2> QED
    BY <1>1, <2>1, <2>2 DEF SubscriberTopics
<1>3. ProjectTopics' = ProjectTopics
  BY <1>1 DEF ProjectTopics, Registered
<1>4. subscriber[p] \notin ProjectTopics
  BY <1>1 DEF RowsInv, ProjectTopics, Registered
<1> QED
  BY <1>1, <1>2, <1>3, <1>4, TopicTypes DEF Stored

\* All other steps leave the database alone and start no unsubscribe task.
LEMMA OtherRows ==
    ASSUME Step,
           \A h \in Handlers, p \in Projects, d \in Domains : ~SubscribeTopic(h, p, d),
           \A h \in Handlers, p \in Projects : ~NotifySubscribe(h, p),
           \A p \in Projects : ~NotifyDelete(p)
    PROVE  UNCHANGED <<project, subscriber, inserted>> /\ unsub' \subseteq unsub
<1>1. CASE Next
  <2>1. ASSUME NEW h \in Handlers, RelaySubscribe(h) \/ RelaySubscribeErr(h)
        PROVE  UNCHANGED <<project, subscriber, inserted>> /\ unsub' \subseteq unsub
    BY <2>1 DEF RelaySubscribe, RelaySubscribeErr, dbVars
  <2>2. ASSUME NEW t \in unsub, RelayUnsubscribe(t)
        PROVE  UNCHANGED <<project, subscriber, inserted>> /\ unsub' \subseteq unsub
    BY <2>2 DEF RelayUnsubscribe, dbVars
  <2>3. ASSUME NEW t \in renewing, RenewTopic(t) \/ RenewTopicErr(t)
        PROVE  UNCHANGED <<project, subscriber, inserted>> /\ unsub' \subseteq unsub
    BY <2>3 DEF RenewTopic, RenewTopicErr, dbVars, serverVars
  <2>4. CASE Start \/ RegisterWebhook \/ ReadSubscribers \/ ReadProjects \/ StartRenewal
               \/ EndRenewal \/ Day
    BY <2>4 DEF Start, RegisterWebhook, ReadSubscribers, ReadProjects, StartRenewal, EndRenewal,
       Day, dbVars, serverVars
  <2>5. CASE JobErr \/ Crash
    BY <2>5 DEF JobErr, Crash, Shutdown, dbVars, serverVars
  <2> QED
    BY <1>1, <2>1, <2>2, <2>3, <2>4, <2>5 DEF Next, Request, Job
<1>2. CASE UNCHANGED vars
  BY <1>2 DEF vars
<1> QED
  BY <1>1, <1>2 DEF Step

\* Topics stay unique, and the task of a delete keeps a topic nobody has.
LEMMA RowsStep ==
    ASSUME TypeOK, RowsInv, Step
    PROVE  RowsInv'
<1> USE TopicTypes
<1>1. inserted \in Nat /\ inserted + 1 > inserted
  BY RelayTopicsAssumption DEF TypeOK
<1>2. ASSUME NEW h \in Handlers, NEW p \in Projects, NEW d \in Domains, SubscribeTopic(h, p, d)
      PROVE  RowsInv'
  <2>1. PICK t \in Rows :
             /\ project'[p].topic = t
             /\ \A q \in Projects \ {p} : project'[q] = project[q]
             /\ \/ project[p].topic = t /\ inserted' = inserted
                \/ project[p].topic = NoTopic /\ t = inserted + 1 /\ inserted' = t
             /\ ProjectTopics' = ProjectTopics \cup {t}
             /\ subscriber' = subscriber
    BY <1>2, SubscribeTopicRows
  <2>2. unsub' = unsub
    BY <1>2 DEF SubscribeTopic
  <2>3. CASE project[p].topic = t /\ inserted' = inserted
    <3>1. \A q \in Projects : project'[q].topic = project[q].topic
      BY <2>1, <2>3
    <3>2. Stored' = Stored
      <4>1. p \in Registered
        BY <2>3, ProjectTypes
      <4>2. ProjectTopics' = ProjectTopics
        BY <2>1, <2>3, <4>1 DEF ProjectTopics
      <4> QED
        BY <2>1, <4>2 DEF Stored, SubscriberTopics
    <3> QED
      BY <2>1, <2>2, <2>3, <3>1, <3>2 DEF RowsInv
  <2>4. CASE project[p].topic = NoTopic /\ t = inserted + 1 /\ inserted' = t
    <3>1. \A q \in Projects : subscriber[q] \in Rows \cup {NoTopic}
      BY DEF TypeOK
    <3>2. Stored' = Stored \cup {t}
      BY <2>1 DEF Stored, SubscriberTopics
    <3>3. \A q \in Projects : /\ project'[q].topic # NoTopic => project'[q].topic <= inserted'
                              /\ subscriber'[q] # NoTopic => subscriber'[q] <= inserted'
      <4>1. \A q \in Projects : /\ project[q].topic \in Nat /\ subscriber[q] \in Nat
                                /\ project[q].topic # NoTopic => project[q].topic <= inserted
                                /\ subscriber[q] # NoTopic => subscriber[q] <= inserted
        BY ProjectTypes DEF RowsInv, TypeOK
      <4>2. \A q \in Projects : project'[q].topic = t \/ project'[q].topic = project[q].topic
        BY <2>1
      <4>3. t \in Nat
        BY <1>1, <2>4
      <4>4. \A q \in Projects : project'[q].topic # NoTopic => project'[q].topic <= t
        BY <1>1, <2>4, <4>1, <4>2, <4>3
      <4>5. \A q \in Projects : subscriber[q] # NoTopic => subscriber[q] <= t
        BY <1>1, <2>4, <4>1, <4>3
      <4> QED
        BY <2>1, <2>4, <4>4, <4>5
    <3>4. \A q \in Projects : subscriber[q] # t
      BY <1>1, <2>4, <3>1 DEF RowsInv
    <3>5. \A q, o \in Projects : subscriber'[q] = project'[o].topic => subscriber'[q] = NoTopic
      BY <2>1, <3>4 DEF RowsInv
    <3>6. \A u \in unsub' : u <= inserted' /\ u \notin Stored'
      <4>1. \A u \in unsub : u \in Nat /\ u <= inserted /\ u \notin Stored
        BY DEF RowsInv, TypeOK
      <4> QED
        BY <1>1, <2>2, <2>4, <3>2, <4>1
    <3> QED
      BY <2>1, <3>3, <3>5, <3>6 DEF RowsInv
  <2> QED
    BY <2>1, <2>3, <2>4
<1>3. ASSUME NEW h \in Handlers, NEW p \in Projects, NotifySubscribe(h, p)
      PROVE  RowsInv'
  <2>1. PICK t \in Rows :
             /\ subscriber' = [subscriber EXCEPT ![p] = t]
             /\ \/ subscriber[p] = t /\ inserted' = inserted
                \/ subscriber[p] = NoTopic /\ t = inserted + 1 /\ inserted' = t
             /\ SubscriberTopics' = SubscriberTopics \cup {t}
             /\ project' = project
    BY <1>3, NotifySubscribeRows
  <2>2. unsub' = unsub
    BY <1>3 DEF NotifySubscribe
  <2>3. ProjectTopics' = ProjectTopics
    BY <2>1 DEF ProjectTopics, Registered
  <2>4. CASE subscriber[p] = t /\ inserted' = inserted
    <3>1. subscriber' = subscriber
      BY <2>1, <2>4 DEF TypeOK
    <3> QED
      BY <2>1, <2>2, <2>3, <2>4, <3>1 DEF RowsInv, Stored, SubscriberTopics
  <2>5. CASE subscriber[p] = NoTopic /\ t = inserted + 1 /\ inserted' = t
    <3>1. subscriber'[p] = t /\ \A q \in Projects \ {p} : subscriber'[q] = subscriber[q]
      BY <2>1 DEF TypeOK
    <3>2. Stored' = Stored \cup {t}
      BY <2>1, <2>3 DEF Stored
    <3>3. \A q \in Projects : /\ subscriber[q] \in Nat
                              /\ subscriber[q] # NoTopic => subscriber[q] <= inserted
                              /\ project[q].topic \in Nat
                              /\ project[q].topic # NoTopic => project[q].topic <= inserted
      BY ProjectTypes DEF RowsInv, TypeOK
    <3>4. t # NoTopic /\ \A q \in Projects : subscriber[q] # t /\ project[q].topic # t
      BY <1>1, <2>5, <3>3
    <3>5. \A q \in Projects : /\ project'[q].topic # NoTopic => project'[q].topic <= inserted'
                              /\ subscriber'[q] # NoTopic => subscriber'[q] <= inserted'
      BY <1>1, <2>1, <2>5, <3>1, <3>3
    <3>6. \A q, o \in Projects :
             /\ subscriber'[q] = subscriber'[o] /\ q # o => subscriber'[q] = NoTopic
             /\ subscriber'[q] = project'[o].topic => subscriber'[q] = NoTopic
      BY <2>1, <3>1, <3>4 DEF RowsInv
    <3>7. \A u \in unsub' : u <= inserted' /\ u \notin Stored'
      <4>1. \A u \in unsub : u \in Nat /\ u <= inserted /\ u \notin Stored
        BY DEF RowsInv, TypeOK
      <4> QED
        BY <1>1, <2>2, <2>5, <3>2, <4>1
    <3> QED
      BY <3>5, <3>6, <3>7 DEF RowsInv
  <2> QED
    BY <2>1, <2>4, <2>5
<1>4. ASSUME NEW p \in Projects, NotifyDelete(p)
      PROVE  RowsInv'
  <2>1. /\ subscriber' = [subscriber EXCEPT ![p] = NoTopic] /\ project' = project
        /\ inserted' = inserted /\ unsub' = unsub \cup {subscriber[p]} /\ subscriber[p] # NoTopic
    BY <1>4 DEF NotifyDelete
  <2>2. subscriber'[p] = NoTopic /\ \A q \in Projects \ {p} : subscriber'[q] = subscriber[q]
    BY <2>1 DEF TypeOK
  <2>3. Stored' \subseteq Stored /\ subscriber[p] \notin Stored'
    BY <1>4, NotifyDeleteRows
  <2>4. \A u \in unsub' : u <= inserted' /\ u \notin Stored'
    BY <2>1, <2>3 DEF RowsInv
  <2> QED
    BY <2>1, <2>2, <2>4 DEF RowsInv
<1>5. ASSUME UNCHANGED <<project, subscriber, inserted>>, unsub' \subseteq unsub
      PROVE  RowsInv'
  BY <1>5 DEF RowsInv, Stored, SubscriberTopics, ProjectTopics, Registered
<1> QED
  BY <1>2, <1>3, <1>4, <1>5, OtherRows

\* The keys that are answered, or about to be, stay the keys of their row.
LEMMA KeysStep ==
    ASSUME TypeOK, RowsInv, KeysInv, Step
    PROVE  KeysInv'
<1> USE TopicTypes
<1>1. ASSUME NEW h \in Handlers, NEW p \in Projects, NEW d \in Domains, SubscribeTopic(h, p, d)
      PROVE  KeysInv'
  <2>1. PICK t \in Rows :
             /\ call[h] = NoCall
             /\ call' = [call EXCEPT ![h] = [row |-> "project", project |-> p, topic |-> t]]
             /\ project'[p].topic = t
             /\ \A q \in Projects \ {p} : project'[q] = project[q]
             /\ project[p].topic = t \/ project[p].topic = NoTopic
    BY <1>1, SubscribeTopicRows
  <2>2. answered' = answered
    BY <1>1 DEF SubscribeTopic
  <2>3. \A q \in Projects : answered[q] \subseteq {project'[q].topic}
    BY <2>1 DEF KeysInv, AnsweredKeysLast, TypeOK
  <2>4. call'[h] = [row |-> "project", project |-> p, topic |-> t]
        /\ \A g \in Handlers \ {h} : call'[g] = call[g]
    BY <2>1 DEF TypeOK
  <2>5. \A g \in Handlers \ {h} : call[g].row = "project" =>
           project'[call[g].project].topic = call[g].topic
    <3> SUFFICES ASSUME NEW g \in Handlers, call[g].row = "project"
                 PROVE  project'[call[g].project].topic = call[g].topic
      OBVIOUS
    <3>1. call[g] # NoCall
      BY DEF NoCall
    <3>2. /\ call[g].topic \in Rows /\ call[g].project \in Projects
          /\ project[call[g].project].topic = call[g].topic
      BY <3>1, CallTypes DEF KeysInv
    <3> QED
      BY <2>1, <3>2
  <2> QED
    BY <2>2, <2>3, <2>4, <2>5, <2>1 DEF KeysInv, AnsweredKeysLast
<1>2. ASSUME project' = project, answered' = answered,
             \A h \in Handlers : call'[h].row = "project" => call'[h] = call[h]
      PROVE  KeysInv'
  BY <1>2 DEF KeysInv, AnsweredKeysLast
<1>3. ASSUME NEW h \in Handlers, NEW p \in Projects, NotifySubscribe(h, p)
      PROVE  KeysInv'
  <2>1. /\ project' = project /\ answered' = answered
        /\ \E t : call' = [call EXCEPT ![h] =
                             [row |-> "subscriber", project |-> p, topic |-> t]]
    BY <1>3 DEF NotifySubscribe, Calls
  <2>2. \A g \in Handlers : call'[g].row = "project" => call'[g] = call[g]
    BY <2>1 DEF TypeOK
  <2> QED
    BY <1>2, <2>1, <2>2
<1>4. ASSUME NEW h \in Handlers, RelaySubscribe(h)
      PROVE  KeysInv'
  <2>1. /\ project' = project /\ call[h] # NoCall
        /\ call' = [call EXCEPT ![h] = NoCall]
        /\ answered' = IF call[h].row = "project"
                     THEN [answered EXCEPT ![call[h].project] = @ \cup {call[h].topic}]
                     ELSE answered
    BY <1>4 DEF RelaySubscribe, dbVars
  <2>2. call'[h].row = "none" /\ \A g \in Handlers \ {h} : call'[g] = call[g]
    BY <2>1 DEF TypeOK, NoCall
  <2>3. \A g \in Handlers : call'[g].row = "project" =>
           project'[call'[g].project].topic = call'[g].topic
    BY <2>1, <2>2 DEF KeysInv
  <2>4. CASE call[h].row = "project"
    <3>1. call[h].project \in Projects /\ project[call[h].project].topic = call[h].topic
      BY <2>1, <2>4, CallTypes DEF KeysInv
    <3>2. \A q \in Projects : answered'[q] \subseteq {project'[q].topic}
      BY <2>1, <2>4, <3>1 DEF KeysInv, AnsweredKeysLast, TypeOK
    <3> QED
      BY <2>3, <3>2 DEF KeysInv, AnsweredKeysLast
  <2>5. CASE call[h].row # "project"
    BY <2>1, <2>3, <2>5 DEF KeysInv, AnsweredKeysLast
  <2> QED
    BY <2>4, <2>5
<1>5. ASSUME NEW h \in Handlers, RelaySubscribeErr(h)
      PROVE  KeysInv'
  <2>1. project' = project /\ answered' = answered /\ call' = [call EXCEPT ![h] = NoCall]
    BY <1>5 DEF RelaySubscribeErr, dbVars
  <2>2. \A g \in Handlers : call'[g].row = "project" => call'[g] = call[g]
    BY <2>1 DEF TypeOK, NoCall
  <2> QED
    BY <1>2, <2>1, <2>2
<1>6. ASSUME UNCHANGED <<project, answered, call>>
      PROVE  KeysInv'
  BY <1>2, <1>6
<1>7. ASSUME NEW p \in Projects, NotifyDelete(p)
      PROVE  KeysInv'
  BY <1>6, <1>7 DEF NotifyDelete
<1>8. ASSUME NEW t \in unsub, RelayUnsubscribe(t)
      PROVE  KeysInv'
  BY <1>6, <1>8 DEF RelayUnsubscribe, dbVars
<1>9. ASSUME NEW t \in renewing, RenewTopic(t) \/ RenewTopicErr(t)
      PROVE  KeysInv'
  BY <1>6, <1>9 DEF RenewTopic, RenewTopicErr, dbVars, serverVars
<1>10. CASE Start \/ RegisterWebhook \/ ReadSubscribers \/ ReadProjects \/ StartRenewal
              \/ EndRenewal \/ Day
  BY <1>6, <1>10 DEF Start, RegisterWebhook, ReadSubscribers, ReadProjects, StartRenewal,
     EndRenewal, Day, dbVars, serverVars
<1>11. ASSUME call' = [h \in Handlers |-> NoCall], project' = project, answered' = answered
       PROVE  KeysInv'
  BY <1>2, <1>11 DEF NoCall
<1>12. CASE JobErr \/ Crash
  BY <1>6, <1>11, <1>12 DEF JobErr, Crash, Shutdown, dbVars, serverVars
<1>13. CASE UNCHANGED vars
  BY <1>6, <1>13 DEF vars
<1> QED
  BY <1>1, <1>3, <1>4, <1>5, <1>7, <1>8, <1>9, <1>10, <1>12, <1>13 DEF Step, Next, Request, Job

-----------------------------------------------------------------------------
(* How old the subscriptions get while nothing fails.                      *)

\* The longest a topic waits is the time between the start of a renewal and the end
\* of the next but one.
LEMMA AgeBoundType ==
    ASSUME TypeOK, NEW t
    PROVE  AgeBound(t) \in Nat /\ AgeBound(t) <= 2 * MaxRenewDays + 1
<1>1. MaxRenewDays \in Nat /\ renewDays \in Nat /\ renewDays <= MaxRenewDays
  BY RelayTopicsAssumption DEF TypeOK
<1>2. AgeBound(t) \in {MaxRenewDays + 1 + renewDays, renewDays, MaxRenewDays, MaxRenewDays + 1}
  BY DEF AgeBound
<1> QED
  BY <1>1, <1>2

\* A step of a handler or a task, which leaves the job alone: the ages stay in their
\* bounds when a topic that appears is about to be subscribed, and one that is in the
\* database keeps its age or has just been subscribed.
LEMMA AgeKept ==
    ASSUME TypeOK, AgeInv, UNCHANGED jobVars, webhook' = webhook,
           \A t \in Stored' : /\ t \notin Stored => AboutToSubscribe(t)'
                              /\ t \in Stored => age'[t] \in {age[t], 0}
                              /\ AboutToSubscribe(t) => AboutToSubscribe(t)' \/ age'[t] = 0,
           \A t \in SubscriberTopics' \ SubscriberTopics : AboutToSubscribe(t)',
           stage # "up" => inserted' = inserted
    PROVE  AgeInv'
<1>1. \A t : AgeBound(t)' = AgeBound(t) /\ AgeBound(t) \in Nat
  BY AgeBoundType DEF AgeBound, jobVars
<1>2. SubscriberTopics \subseteq Stored /\ SubscriberTopics' \subseteq Stored'
  BY DEF Stored
<1>3. CASE stage = "up"
  <2>1. stage' = "up" /\ job' = job /\ topics' = topics
    BY <1>3 DEF jobVars
  <2>2. /\ \A t \in Stored : AboutToSubscribe(t) \/ age[t] <= AgeBound(t)
        /\ job = "projects" =>
             \A t \in SubscriberTopics \ topics : AboutToSubscribe(t) \/ age[t] = 0
        /\ job = "lock" =>
             \A t \in Stored \ topics : AboutToSubscribe(t) \/ age[t] = 0
    BY <1>3 DEF AgeInv
  <2>3. \A t \in Stored' : AboutToSubscribe(t)' \/ age'[t] <= AgeBound(t)
    BY <1>1, <2>2
  <2>4. job' = "projects" =>
          \A t \in SubscriberTopics' \ topics' : AboutToSubscribe(t)' \/ age'[t] = 0
    BY <1>2, <2>1, <2>2
  <2>5. job' = "lock" =>
          \A t \in Stored' \ topics' : AboutToSubscribe(t)' \/ age'[t] = 0
    BY <2>1, <2>2
  <2>6. webhook' <= IF job' = "register" THEN 1 ELSE 0
    BY <1>3, <2>1 DEF AgeInv
  <2>7. /\ job' \notin {"sleep", "register"} => webhook' = 0
        /\ job' = "lock" => KeyAgreement \in topics'
    BY <2>1 DEF AgeInv
  <2>8. \A t \in Stored' : AboutToSubscribe(t)' \/ age'[t] <= AgeBound(t)'
    BY <1>1, <2>3
  <2> QED
    BY <2>1, <2>4, <2>5, <2>6, <2>7, <2>8 DEF AgeInv
<1>4. CASE stage # "up"
  BY <1>4 DEF AgeInv, jobVars
<1> QED
  BY <1>3, <1>4

\* The handlers' requests: what they insert they are about to subscribe.
LEMMA RequestAges ==
    ASSUME TypeOK, RowsInv, AgeInv, Request
    PROVE  AgeInv'
<1> USE TopicTypes
<1>1. ASSUME NEW h \in Handlers, NEW t \in Topics, call[h] = NoCall, AboutToSubscribe(t),
             renewing' = renewing, \A g \in Handlers \ {h} : call'[g] = call[g]
      PROVE  AboutToSubscribe(t)'
  BY <1>1, CallTypes DEF AboutToSubscribe
<1>2. ASSUME NEW h \in Handlers, NEW p \in Projects, NEW d \in Domains, SubscribeTopic(h, p, d)
      PROVE  AgeInv'
  <2>1. PICK t \in Rows :
             /\ ProjectTopics' = ProjectTopics \cup {t}
             /\ project'[p].topic = t
             /\ subscriber' = subscriber
    BY <1>2, SubscribeTopicRows
  <2>2. /\ call[h] = NoCall /\ call'[h].topic = project'[p].topic
        /\ \A g \in Handlers \ {h} : call'[g] = call[g]
    BY <1>2, UpsertedTypes DEF SubscribeTopic, Calls, TypeOK
  <2>3. UNCHANGED jobVars /\ webhook' = webhook /\ age' = age /\ stage = "up" /\ renewing' = renewing
    BY <1>2 DEF SubscribeTopic, relayVars, jobVars
  <2>4. SubscriberTopics' = SubscriberTopics /\ Stored' = Stored \cup {t} /\ Stored' \subseteq Topics
    BY <2>1, StoredTypes DEF SubscriberTopics, Stored
  <2>5. AboutToSubscribe(t)'
    BY <2>1, <2>2 DEF AboutToSubscribe
  <2>6. \A u \in Stored' : AboutToSubscribe(u) => AboutToSubscribe(u)'
    BY <1>1, <2>2, <2>3, <2>4
  <2> QED
    BY <2>3, <2>4, <2>5, <2>6, AgeKept
<1>3. ASSUME NEW h \in Handlers, NEW p \in Projects, NotifySubscribe(h, p)
      PROVE  AgeInv'
  <2>1. PICK t \in Rows :
             /\ subscriber' = [subscriber EXCEPT ![p] = t]
             /\ SubscriberTopics' = SubscriberTopics \cup {t}
             /\ project' = project
    BY <1>3, NotifySubscribeRows
  <2>2. subscriber'[p] = t
    BY <2>1 DEF TypeOK
  <2>3. /\ call[h] = NoCall /\ call'[h].topic = subscriber'[p]
        /\ \A g \in Handlers \ {h} : call'[g] = call[g]
    BY <1>3 DEF NotifySubscribe, Calls, TypeOK
  <2>4. UNCHANGED jobVars /\ webhook' = webhook /\ age' = age /\ stage = "up" /\ renewing' = renewing
    BY <1>3 DEF NotifySubscribe, Heard, relayVars, jobVars
  <2>5. ProjectTopics' = ProjectTopics
    BY <2>1 DEF ProjectTopics, Registered
  <2>6. Stored' = Stored \cup {t} /\ Stored' \subseteq Topics
    BY <2>1, <2>5, StoredTypes DEF Stored
  <2>7. AboutToSubscribe(t)'
    BY <2>2, <2>3 DEF AboutToSubscribe
  <2>8. \A u \in Stored' : AboutToSubscribe(u) => AboutToSubscribe(u)'
    BY <1>1, <2>3, <2>4, <2>6
  <2> QED
    BY <2>1, <2>4, <2>6, <2>7, <2>8, AgeKept
<1>4. ASSUME NEW p \in Projects, NotifyDelete(p)
      PROVE  AgeInv'
  <2>1. /\ UNCHANGED jobVars /\ webhook' = webhook /\ age' = age /\ renewing' = renewing
        /\ call' = call /\ project' = project /\ inserted' = inserted
        /\ subscriber' = [subscriber EXCEPT ![p] = NoTopic]
    BY <1>4 DEF NotifyDelete, relayVars, jobVars
  <2>2. SubscriberTopics' \subseteq SubscriberTopics
    BY <2>1 DEF SubscriberTopics, TypeOK
  <2>3. Stored' \subseteq Stored
    BY <2>1, <2>2 DEF Stored, ProjectTopics, Registered
  <2>4. \A u : AboutToSubscribe(u) => AboutToSubscribe(u)'
    BY <2>1 DEF AboutToSubscribe
  <2> QED
    BY <2>1, <2>2, <2>3, <2>4, AgeKept
<1> QED
  BY <1>2, <1>3, <1>4 DEF Request

\* The relay's answers: a topic is subscribed, or one that no row has is dropped.
LEMMA RelayAges ==
    ASSUME TypeOK, RowsInv, AgeInv,
           \/ \E h \in Handlers : RelaySubscribe(h)
           \/ \E t \in unsub : RelayUnsubscribe(t) /\ faults' = faults
    PROVE  AgeInv'
<1> USE TopicTypes
<1>1. ASSUME UNCHANGED dbVars
      PROVE  Stored' = Stored /\ SubscriberTopics' = SubscriberTopics /\ inserted' = inserted
  BY <1>1 DEF Stored, SubscriberTopics, ProjectTopics, Registered, dbVars
<1>2. ASSUME NEW h \in Handlers, RelaySubscribe(h)
      PROVE  AgeInv'
  <2>1. UNCHANGED dbVars /\ UNCHANGED jobVars /\ webhook' = webhook /\ renewing' = renewing
    BY <1>2 DEF RelaySubscribe, jobVars
  <2>2. call[h].topic \in Topics
    BY <1>2, CallTypes DEF RelaySubscribe
  <2>3. \A t \in Topics : age'[t] = IF t = call[h].topic THEN 0 ELSE age[t]
    BY <1>2, <2>2 DEF RelaySubscribe, TypeOK
  <2>4. \A g \in Handlers \ {h} : call'[g] = call[g]
    BY <1>2 DEF RelaySubscribe, TypeOK
  <2>5. \A t \in Topics : AboutToSubscribe(t) => AboutToSubscribe(t)' \/ age'[t] = 0
    BY <2>1, <2>3, <2>4 DEF AboutToSubscribe
  <2>6. Stored' = Stored /\ SubscriberTopics' = SubscriberTopics /\ inserted' = inserted
    BY <1>1, <2>1
  <2>7. \A u \in Stored' : /\ u \in Stored => age'[u] \in {age[u], 0}
                           /\ AboutToSubscribe(u) => AboutToSubscribe(u)' \/ age'[u] = 0
    BY <2>3, <2>5, <2>6, StoredTypes
  <2> QED
    BY <2>1, <2>6, <2>7, AgeKept
<1>3. ASSUME NEW t \in unsub, RelayUnsubscribe(t), faults' = faults
      PROVE  AgeInv'
  <2>1. /\ UNCHANGED dbVars /\ UNCHANGED jobVars /\ webhook' = webhook /\ renewing' = renewing
        /\ call' = call
    BY <1>3 DEF RelayUnsubscribe, jobVars
  <2>2. t \in Topics /\ t \notin Stored
    BY DEF RowsInv, TypeOK
  <2>3. age' = age \/ age' = [age EXCEPT ![t] = TTL]
    BY <1>3 DEF RelayUnsubscribe
  <2>4. \A u \in Topics \ {t} : age'[u] = age[u]
    BY <2>2, <2>3 DEF TypeOK
  <2>5. \A u : AboutToSubscribe(u) => AboutToSubscribe(u)'
    BY <2>1 DEF AboutToSubscribe
  <2>6. Stored' = Stored /\ SubscriberTopics' = SubscriberTopics /\ inserted' = inserted
    BY <1>1, <2>1
  <2>7. \A u \in Stored' : u \in Stored => age'[u] \in {age[u], 0}
    BY <2>2, <2>4, <2>6, StoredTypes
  <2> QED
    BY <2>1, <2>5, <2>6, <2>7, AgeKept
<1> QED
  BY <1>2, <1>3

\* Without rows there is only the key agreement topic.
LEMMA NothingStored ==
    ASSUME TypeOK, RowsInv, inserted = 0
    PROVE  Stored = {KeyAgreement}
<1>1. \A p \in Projects : subscriber[p] = NoTopic /\ project[p].topic = NoTopic
  <2>1. \A p \in Projects : subscriber[p] \in Rows => ~(subscriber[p] <= 0)
    BY TopicTypes DEF Rows
  <2>2. \A p \in Projects : project[p].topic \in Rows => ~(project[p].topic <= 0)
    BY TopicTypes DEF Rows
  <2> QED
    BY <2>1, <2>2, ProjectTypes DEF RowsInv, TypeOK
<1>2. SubscriberTopics = {}
  BY <1>1 DEF SubscriberTopics
<1>3. ProjectTopics = {}
  BY <1>1, ProjectTypes, TopicTypes DEF ProjectTopics, Registered
<1> QED
  BY <1>2, <1>3 DEF Stored

\* The job before it takes the lock, and the start of the server: the ages and their
\* bounds stay, and what the job has not read when it takes the lock is today's.
LEMMA ReadAges ==
    ASSUME TypeOK, AgeInv, Start \/ RegisterWebhook \/ ReadSubscribers \/ ReadProjects
    PROVE  AgeInv'
<1>1. /\ Stored' = Stored /\ SubscriberTopics' = SubscriberTopics /\ inserted' = inserted
      /\ age' = age /\ call' = call /\ renewing' = renewing /\ running' = running
      /\ renewDays' = renewDays /\ ProjectTopics' = ProjectTopics
  BY DEF Start, RegisterWebhook, ReadSubscribers, ReadProjects, Stored, SubscriberTopics,
         ProjectTopics, Registered, dbVars, relayVars, serverVars
<1>2. \A t : AboutToSubscribe(t)' <=> AboutToSubscribe(t)
  BY <1>1 DEF AboutToSubscribe
<1>3. CASE Start
  <2>1. stage = "down" /\ stage' = "starting" /\ job' = "register"
    BY <1>3 DEF Start
  <2> QED
    BY <1>1, <2>1 DEF AgeInv
<1>4. CASE RegisterWebhook \/ ReadSubscribers \/ ReadProjects
  <2>1. stage' = stage /\ job \in {"register", "subscribers", "projects"}
        /\ job' \in {"subscribers", "projects", "lock"}
    BY <1>4 DEF RegisterWebhook, ReadSubscribers, ReadProjects
  <2>2. webhook' = 0
    BY <1>4 DEF RegisterWebhook, ReadSubscribers, ReadProjects, AgeInv, relayVars
  <2>3. \A t : AgeBound(t)' = AgeBound(t)
    BY <1>1, <2>1 DEF AgeBound
  <2>4. stage' = "up" => \A t \in Stored' : AboutToSubscribe(t)' \/ age'[t] <= AgeBound(t)'
    BY <1>1, <1>2, <2>1, <2>3 DEF AgeInv
  <2>5. stage' # "up" => inserted' = 0 /\ ~running'
    BY <1>1, <2>1 DEF AgeInv
  <2>6. job' = "lock" => KeyAgreement \in topics'
    BY <1>4 DEF RegisterWebhook, ReadSubscribers, ReadProjects, AllTopics
  <2>7. job' = "projects" => SubscriberTopics' \ topics' = {}
    BY <1>4, <1>1 DEF RegisterWebhook, ReadSubscribers, ReadProjects, GetSubscriberTopics
  <2>8. stage' = "up" /\ job' = "lock" =>
          \A t \in Stored' \ topics' : AboutToSubscribe(t)' \/ age'[t] = 0
    <3>1. ASSUME stage' = "up", job' = "lock"
          PROVE  \A t \in Stored' \ topics' : AboutToSubscribe(t)' \/ age'[t] = 0
      <4>1. job = "projects" /\ topics' = AllTopics /\ stage = "up"
        BY <1>4, <2>1, <3>1 DEF RegisterWebhook, ReadSubscribers, ReadProjects
      <4>2. Stored' \ topics' \subseteq SubscriberTopics \ topics
        BY <1>1, <4>1 DEF Stored, AllTopics
      <4> QED
        BY <1>1, <1>2, <4>1, <4>2 DEF AgeInv
    <3> QED
      BY <3>1
  <2>9. webhook' <= IF job' = "register" THEN 1 ELSE 0
    BY <2>1, <2>2
  <2> QED
    BY <2>2, <2>4, <2>5, <2>6, <2>7, <2>8, <2>9 DEF AgeInv
<1> QED
  BY <1>3, <1>4

\* The job takes the lock: a new renewal has all topics but today's, and the one
\* under way goes on.
LEMMA StartRenewalAges ==
    ASSUME TypeOK, RowsInv, AgeInv, StartRenewal
    PROVE  AgeInv'
<1>1. /\ Stored' = Stored /\ SubscriberTopics' = SubscriberTopics
      /\ age' = age /\ call' = call /\ webhook' = webhook
      /\ job = "lock" /\ job' = "sleep" /\ stage' = "up"
  BY DEF StartRenewal, Stored, SubscriberTopics, ProjectTopics, Registered, dbVars, relayVars,
         serverVars
<1>2. webhook' = 0 /\ KeyAgreement \in topics
  BY <1>1 DEF AgeInv
<1>3. \A t \in Stored' : AboutToSubscribe(t)' \/ age'[t] <= AgeBound(t)'
  <2>1. CASE running
    <3>1. running' = running /\ renewing' = renewing /\ renewDays' = renewDays /\ stage = "up"
      BY <2>1 DEF StartRenewal, AgeInv
    <3>2. \A t : AgeBound(t)' = AgeBound(t)
      BY <2>1, <3>1 DEF AgeBound
    <3>3. \A t : AboutToSubscribe(t)' <=> AboutToSubscribe(t)
      BY <1>1, <3>1 DEF AboutToSubscribe
    <3> QED
      BY <1>1, <3>1, <3>2, <3>3 DEF AgeInv
  <2>2. CASE ~running /\ stage = "up"
    <3>1. running' /\ renewing' = topics /\ renewDays' = 0
      BY <2>2 DEF StartRenewal
    <3>2. \A t : AboutToSubscribe(t) => AboutToSubscribe(t)'
      BY <1>1, <1>2, <3>1 DEF AboutToSubscribe
    <3>3. \A t : AgeBound(t) = MaxRenewDays + 1
      BY <1>1, <2>2 DEF AgeBound
    <3>4. \A t : AgeBound(t)' = IF t \in topics THEN MaxRenewDays + 1 + 0 ELSE 0
      BY <3>1 DEF AgeBound
    <3>5. \A t \in Stored : AboutToSubscribe(t) \/ age[t] <= MaxRenewDays + 1
      BY <2>2, <3>3 DEF AgeInv
    <3>6. \A t \in Stored \ topics : AboutToSubscribe(t) \/ age[t] = 0
      BY <1>1, <2>2 DEF AgeInv
    <3>7. MaxRenewDays + 1 + 0 = MaxRenewDays + 1
      BY RelayTopicsAssumption
    <3>8. ASSUME NEW t \in Stored', ~AboutToSubscribe(t)'
          PROVE  age'[t] <= AgeBound(t)'
      <4>1. t \in Stored /\ ~AboutToSubscribe(t) /\ age'[t] = age[t]
        BY <1>1, <3>2, <3>8
      <4>2. CASE t \in topics
        BY <3>4, <3>5, <3>7, <4>1, <4>2
      <4>3. CASE t \notin topics
        <5>1. age'[t] = 0 /\ AgeBound(t)' = 0
          BY <3>4, <3>6, <4>1, <4>3
        <5> QED
          BY <5>1
      <4> QED
        BY <4>2, <4>3
    <3> QED
      BY <3>8
  <2>3. CASE ~running /\ stage # "up"
    <3>1. Stored' = {KeyAgreement} /\ renewing' = topics
      BY <1>1, <2>3, NothingStored DEF AgeInv, StartRenewal
    <3> QED
      BY <1>2, <3>1 DEF AboutToSubscribe
  <2> QED
    BY <2>1, <2>2, <2>3
<1>4. webhook' <= IF job' = "register" THEN 1 ELSE 0
  BY <1>1, <1>2
<1> QED
  BY <1>1, <1>3, <1>4 DEF AgeInv

\* The renewal task: a topic it renews is today's, and at its end the topics it did
\* not have are not older than the renewal is long.
LEMMA RenewalAges ==
    ASSUME TypeOK, AgeInv, EndRenewal \/ \E t \in renewing : RenewTopic(t)
    PROVE  AgeInv'
<1> USE TopicTypes
<1>1. /\ Stored' = Stored /\ SubscriberTopics' = SubscriberTopics /\ inserted' = inserted
      /\ call' = call /\ webhook' = webhook /\ job' = job /\ stage' = stage /\ topics' = topics
  BY DEF EndRenewal, RenewTopic, Stored, SubscriberTopics, ProjectTopics, Registered, dbVars,
         relayVars, serverVars
<1>2. /\ \A t \in Stored : age'[t] \in {age[t], 0}
      /\ \A t \in Stored : AboutToSubscribe(t) => AboutToSubscribe(t)' \/ age'[t] = 0
      /\ \A t \in Stored : AboutToSubscribe(t) \/ age[t] <= AgeBound(t)
                             => \/ AboutToSubscribe(t)'
                                \/ age'[t] <= AgeBound(t)'
      /\ ~running => ~running'
  <2>1. CASE EndRenewal
    <3>1. age' = age /\ renewing' = renewing /\ renewing = {} /\ running /\ ~running'
      BY <2>1 DEF EndRenewal, relayVars
    <3>2. \A t : AboutToSubscribe(t)' <=> AboutToSubscribe(t)
      BY <1>1, <3>1 DEF AboutToSubscribe
    <3>3. \A t : AgeBound(t) = renewDays
      BY <3>1 DEF AgeBound
    <3>4. \A t : AgeBound(t)' \in {MaxRenewDays, MaxRenewDays + 1}
      BY <3>1 DEF AgeBound
    <3>5. MaxRenewDays \in Nat /\ renewDays \in Nat /\ renewDays <= MaxRenewDays
      BY RelayTopicsAssumption DEF TypeOK
    <3>6. \A t \in Stored : age[t] \in Nat
      <4>1. \A t \in Stored : age[t] \in 0..TTL
        BY StoredTypes DEF TypeOK
      <4> QED
        BY <4>1
    <3>7. \A t \in Stored : age[t] <= renewDays => age[t] <= AgeBound(t)'
      BY <3>4, <3>5, <3>6
    <3> QED
      BY <3>1, <3>2, <3>3, <3>7
  <2>2. ASSUME NEW t \in renewing, RenewTopic(t)
        PROVE  /\ \A u \in Stored : age'[u] \in {age[u], 0}
               /\ \A u \in Stored : AboutToSubscribe(u) => AboutToSubscribe(u)' \/ age'[u] = 0
               /\ \A u \in Stored : AboutToSubscribe(u) \/ age[u] <= AgeBound(u)
                                      => \/ AboutToSubscribe(u)'
                                         \/ age'[u] <= AgeBound(u)'
               /\ ~running => ~running'
    <3>1. t \in Topics /\ renewing' = renewing \ {t}
      BY <2>2 DEF RenewTopic, TypeOK
    <3>2. \A u \in Stored : age'[u] = IF u = t THEN 0 ELSE age[u]
      BY <2>2, <3>1, StoredTypes DEF RenewTopic, TypeOK
    <3>3. running' = running /\ renewDays' = renewDays
      BY <2>2 DEF RenewTopic
    <3>4. \A u \in Stored : AboutToSubscribe(u) => AboutToSubscribe(u)' \/ u = t
      BY <1>1, <3>1 DEF AboutToSubscribe
    <3>5. \A u : u # t => AgeBound(u)' = AgeBound(u)
      BY <1>1, <3>1, <3>3 DEF AgeBound
    <3>6. 0 <= AgeBound(t)'
      <4>1. MaxRenewDays \in Nat /\ renewDays \in Nat
        BY RelayTopicsAssumption DEF TypeOK
      <4>2. AgeBound(t)' \in {MaxRenewDays + 1 + renewDays, renewDays, MaxRenewDays,
                              MaxRenewDays + 1}
        BY <3>3 DEF AgeBound
      <4> QED
        BY <4>1, <4>2
    <3>7. \A u \in Stored : age[u] <= AgeBound(u) => age'[u] <= AgeBound(u)'
      <4> TAKE u \in Stored
      <4>1. CASE u = t
        BY <3>2, <3>6, <4>1
      <4>2. CASE u # t
        BY <3>2, <3>5, <4>2
      <4> QED
        BY <4>1, <4>2
    <3>8. \A u \in Stored : u = t => age'[u] = 0 /\ age'[u] <= AgeBound(u)'
      BY <3>2, <3>6
    <3> QED
      BY <3>2, <3>3, <3>4, <3>7, <3>8
  <2> QED
    BY <2>1, <2>2
<1>3. stage' = "up" => \A t \in Stored' : AboutToSubscribe(t)' \/ age'[t] <= AgeBound(t)'
  BY <1>1, <1>2 DEF AgeInv
<1>4. SubscriberTopics \subseteq Stored
  BY DEF Stored
<1>5. stage' = "up" =>
        /\ job' = "projects" =>
             \A t \in SubscriberTopics' \ topics' : AboutToSubscribe(t)' \/ age'[t] = 0
        /\ job' = "lock" =>
             \A t \in Stored' \ topics' : AboutToSubscribe(t)' \/ age'[t] = 0
  BY <1>1, <1>2, <1>4 DEF AgeInv
<1>6. /\ stage' = "up" => webhook' <= IF job' = "register" THEN 1 ELSE 0
      /\ stage' # "up" => inserted' = 0 /\ ~running'
      /\ job' \notin {"sleep", "register"} => webhook' = 0
      /\ job' = "lock" => KeyAgreement \in topics'
  BY <1>1, <1>2 DEF AgeInv
<1> QED
  BY <1>3, <1>5, <1>6 DEF AgeInv

\* A day passes: every subscription is one day older, and so is the bound.
LEMMA DayAges ==
    ASSUME TypeOK, AgeInv, Day
    PROVE  AgeInv'
<1>1. /\ Stored' = Stored /\ inserted' = inserted /\ running' = running
      /\ call' = call /\ stage' = stage /\ renewing' = renewing /\ job = "sleep"
      /\ job' \in {"sleep", "register"} /\ (stage = "up" => job' = "register")
  BY DEF Day, Stored, SubscriberTopics, ProjectTopics, Registered, dbVars, serverVars
<1>2. \A t : AboutToSubscribe(t)' <=> AboutToSubscribe(t)
  BY <1>1 DEF AboutToSubscribe
<1>3. \A t \in Stored : age[t] \in Nat /\ age'[t] \in Nat /\ age'[t] <= age[t] + 1
  <2>1. \A t \in Stored : age[t] \in 0..TTL /\ t \in Topics
    BY StoredTypes DEF TypeOK
  <2>2. \A t \in Stored : age'[t] = IF age[t] < TTL THEN age[t] + 1 ELSE TTL
    BY <2>1 DEF Day
  <2> QED
    BY <2>1, <2>2, RelayTopicsAssumption
<1>4. ASSUME stage = "up"
      PROVE  \A t : AgeBound(t)' = AgeBound(t) + 1
  <2>1. MaxRenewDays \in Nat /\ renewDays \in Nat
    BY RelayTopicsAssumption DEF TypeOK
  <2>2. CASE running
    <3>1. running' /\ renewDays' = renewDays + 1
      BY <1>1, <2>2 DEF Day
    <3>2. \A t : /\ AgeBound(t) = IF t \in renewing THEN MaxRenewDays + 1 + renewDays ELSE renewDays
                 /\ AgeBound(t)' = IF t \in renewing THEN MaxRenewDays + 1 + renewDays' ELSE renewDays'
      BY <1>1, <2>2, <3>1 DEF AgeBound
    <3> QED
      BY <2>1, <3>1, <3>2
  <2>3. CASE ~running
    BY <1>1, <1>4, <2>3 DEF AgeBound
  <2> QED
    BY <2>2, <2>3
<1>5. CASE stage = "up"
  <2>1. \A t \in Stored : age[t] <= AgeBound(t) => age'[t] <= AgeBound(t)'
    BY <1>3, <1>4, <1>5, AgeBoundType
  <2>2. \A t \in Stored' : AboutToSubscribe(t)' \/ age'[t] <= AgeBound(t)'
    BY <1>1, <1>2, <1>5, <2>1 DEF AgeInv
  <2>3. webhook' <= 1
    <3>1. webhook <= 0 /\ webhook \in Nat
      BY <1>1, <1>5 DEF AgeInv, TypeOK
    <3> QED
      BY <3>1, RelayTopicsAssumption DEF Day
  <2>4. webhook' <= IF job' = "register" THEN 1 ELSE 0
    BY <1>1, <1>5, <2>3
  <2>5. job' = "register" /\ stage' = "up"
    BY <1>1, <1>5
  <2> QED
    BY <2>2, <2>4, <2>5 DEF AgeInv
<1>6. CASE stage # "up"
  <2>1. stage' # "up" /\ inserted' = 0 /\ ~running'
    BY <1>1, <1>6 DEF AgeInv
  <2> QED
    BY <1>1, <2>1 DEF AgeInv
<1> QED
  BY <1>5, <1>6

\* Every step without a fault keeps the ages in their bounds.
LEMMA AgeStep ==
    ASSUME TypeOK, RowsInv, faults = 0 => AgeInv, Step, faults' = 0
    PROVE  AgeInv'
<1>1. ~Fault
  <2>1. faults \in Nat
    BY RelayTopicsAssumption DEF TypeOK
  <2> QED
    BY <2>1 DEF Fault
<1>2. CASE Request
  <2>1. faults' = faults
    BY <1>2 DEF Request, SubscribeTopic, NotifySubscribe, NotifyDelete
  <2> QED
    BY <1>2, <2>1, RequestAges
<1>3. CASE \E h \in Handlers : RelaySubscribe(h) \/ RelaySubscribeErr(h)
  <2>1. faults' = faults /\ \E h \in Handlers : RelaySubscribe(h)
    BY <1>1, <1>3 DEF RelaySubscribe, RelaySubscribeErr
  <2> QED
    BY <2>1, RelayAges
<1>4. CASE \E t \in unsub : RelayUnsubscribe(t)
  <2>1. faults' = faults
    BY <1>1, <1>4 DEF RelayUnsubscribe
  <2> QED
    BY <1>4, <2>1, RelayAges
<1>5. CASE Start \/ RegisterWebhook \/ ReadSubscribers \/ ReadProjects
  <2>1. faults' = faults
    BY <1>5 DEF Start, RegisterWebhook, ReadSubscribers, ReadProjects
  <2> QED
    BY <1>5, <2>1, ReadAges
<1>6. CASE StartRenewal
  <2>1. faults' = faults
    BY <1>6 DEF StartRenewal
  <2> QED
    BY <1>6, <2>1, StartRenewalAges
<1>7. CASE EndRenewal \/ \E t \in renewing : RenewTopic(t)
  <2>1. faults' = faults
    BY <1>7 DEF EndRenewal, RenewTopic
  <2> QED
    BY <1>7, <2>1, RenewalAges
<1>8. CASE Day
  <2>1. faults' = faults
    BY <1>8 DEF Day
  <2> QED
    BY <1>8, <2>1, DayAges
<1>9. ~JobErr /\ ~Crash /\ \A t \in renewing : ~RenewTopicErr(t)
  BY <1>1 DEF JobErr, Crash, Shutdown, RenewTopicErr
<1>10. CASE UNCHANGED vars
  <2>1. /\ UNCHANGED jobVars /\ webhook' = webhook /\ age' = age /\ faults' = faults
        /\ Stored' = Stored /\ SubscriberTopics' = SubscriberTopics /\ inserted' = inserted
        /\ call' = call /\ renewing' = renewing
    BY <1>10 DEF vars, jobVars, Stored, SubscriberTopics, ProjectTopics, Registered
  <2>2. \A t : AboutToSubscribe(t) => AboutToSubscribe(t)'
    BY <2>1 DEF AboutToSubscribe
  <2> QED
    BY <2>1, <2>2, AgeKept
<1> QED
  BY <1>2, <1>3, <1>4, <1>5, <1>6, <1>7, <1>8, <1>9, <1>10 DEF Step, Next, Job

-----------------------------------------------------------------------------
(* The theorems.                                                           *)

\* The inductive invariant of registration, rows, calls and renewal.
THEOREM RelayTopicsInvariance == Spec => []RelayTopicsInv
<1>1. Init => RelayTopicsInv
  <2> SUFFICES ASSUME Init PROVE RelayTopicsInv
    OBVIOUS
  <2> USE TopicTypes, RelayTopicsAssumption
  <2>1. TypeOK
    <3>1. /\ project \in [Projects -> [domain : Domains, topic : Rows] \cup {NoProject}]
          /\ subscriber \in [Projects -> Rows \cup {NoTopic}]
          /\ answered \in [Projects -> SUBSET Rows]
      BY DEF Init
    <3>2. age \in [Topics -> 0..TTL] /\ webhook \in 0..TTL
      BY DEF Init
    <3>3. call \in [Handlers -> [row : {"project", "subscriber"}, project : Projects, topic : Rows]
                                 \cup {NoCall}]
      BY DEF Init
    <3>4. /\ inserted \in 0..MaxRows /\ faults \in 0..MaxFaults /\ renewDays \in 0..MaxRenewDays
          /\ stage \in {"down", "starting", "up"}
          /\ job \in {"sleep", "register", "subscribers", "projects", "lock"}
          /\ topics \in SUBSET Topics /\ renewing \in SUBSET Topics /\ unsub \in SUBSET Rows
      BY DEF Init
    <3>5. running \in BOOLEAN
      BY DEF Init
    <3> QED
      BY <3>1, <3>2, <3>3, <3>4, <3>5, Zenon DEF TypeOK
  <2>2. \A p \in Projects : project[p].topic = NoTopic /\ subscriber[p] = NoTopic
    BY DEF Init, NoProject
  <2>3. RowsInv
    BY <2>2 DEF RowsInv, Init
  <2>4. \A h \in Handlers : call[h].row # "project"
    BY DEF Init, NoCall
  <2>5. KeysInv
    BY <2>4 DEF KeysInv, AnsweredKeysLast, Init
  <2>6. AgeInv
    BY DEF AgeInv, Init
  <2> QED
    BY <2>1, <2>3, <2>5, <2>6 DEF RelayTopicsInv
<1>2. RelayTopicsInv /\ [Next]_vars => RelayTopicsInv'
  <2> SUFFICES ASSUME RelayTopicsInv, Step PROVE RelayTopicsInv'
    BY DEF Step
  <2>1. TypeOK /\ RowsInv /\ KeysInv /\ (faults = 0 => AgeInv)
    BY DEF RelayTopicsInv
  <2>2. TypeOK' /\ RowsInv' /\ KeysInv'
    BY <2>1, TypeStep, RowsStep, KeysStep
  <2>3. faults' = 0 => AgeInv'
    BY <2>1, AgeStep
  <2> QED
    BY <2>2, <2>3 DEF RelayTopicsInv
<1> QED
  BY <1>1, <1>2, PTL DEF Spec

\* Projects, subscribers, calls to the relay and the renewal job keep their types:
\* ages stop at the time to live and faults at their bound.
THEOREM RelayTopicsTypes == Spec => []TypeOK
<1>1. RelayTopicsInv => TypeOK
  BY DEF RelayTopicsInv
<1> QED
  BY <1>1, RelayTopicsInvariance, PTL

\* Whatever fails and however requests interleave, the keys a project was answered
\* stay its keys (upsert_project).
THEOREM KeysLast == Spec => []AnsweredKeysLast
<1>1. RelayTopicsInv => AnsweredKeysLast
  BY DEF RelayTopicsInv, KeysInv
<1> QED
  BY <1>1, RelayTopicsInvariance, PTL

\* While nothing has failed, neither the webhook nor the topic of a row lapses,
\* however long renewals take up to MaxRenewDays (refresh_topic_subscriptions).
THEOREM RenewedInTime == Spec => []NothingLapses
<1>1. RelayTopicsInv => NothingLapses
  <2> SUFFICES ASSUME RelayTopicsInv, faults = 0, stage = "up"
               PROVE  webhook < TTL /\ \A t \in Stored \ Subscribed : AboutToSubscribe(t)
    BY DEF NothingLapses
  <2>1. TypeOK /\ AgeInv
    BY DEF RelayTopicsInv
  <2>2. webhook < TTL
    <3>1. webhook <= 1 /\ webhook \in Nat
      BY <2>1, RelayTopicsAssumption DEF AgeInv, TypeOK
    <3> QED
      BY <3>1, RelayTopicsAssumption
  <2>3. ASSUME NEW t \in Stored \ Subscribed
        PROVE  AboutToSubscribe(t)
    <3>1. age[t] \in Nat /\ ~(age[t] < TTL)
      <4>1. t \in Topics
        BY <2>1, <2>3, StoredTypes
      <4>2. age[t] \in 0..TTL
        BY <2>1, <4>1 DEF TypeOK
      <4> QED
        BY <2>3, <4>1, <4>2 DEF Subscribed
    <3>2. AgeBound(t) \in Nat /\ AgeBound(t) <= 2 * MaxRenewDays + 1
      BY <2>1, AgeBoundType
    <3>3. ~(age[t] <= AgeBound(t))
      BY <3>1, <3>2, RelayTopicsAssumption
    <3> QED
      BY <2>1, <3>3 DEF AgeInv
  <2> QED
    BY <2>2, <2>3
<1> QED
  BY <1>1, RelayTopicsInvariance, PTL
=============================================================================
