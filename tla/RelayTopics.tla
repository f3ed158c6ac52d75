----------------------------- MODULE RelayTopics -----------------------------
(***************************************************************************)
(* What the server listens to at the relay: the registration of projects   *)
(* (subscribe_topic), the topics of projects and subscribers in Postgres,  *)
(* the webhook and the subscriptions at the relay with their 30 days to    *)
(* live, the start of the server, and the daily job that renews them all.  *)
(*                                                                         *)
(* The handlers of wc_notifySubscribe and wc_notifyDelete appear here only *)
(* with their statements on topics; Subscriptions has the rest of them.    *)
(* The keys and the topic of a row are random: the n-th row inserted has   *)
(* topic n, which stands for its keys as well.                             *)
(***************************************************************************)
EXTENDS Naturals, FiniteSets

CONSTANTS
    Projects,       \* project_id
    Domains,        \* app_domain
    Handlers,       \* concurrent request handlers
    TTL,            \* days a subscription and the webhook live at the relay
    MaxRenewDays,   \* days the renewal of all topics takes at most
    MaxRows,        \* bound: rows inserted
    MaxFaults       \* bound: calls to the relay or Postgres that fail, and crashes

(* A topic inserted while a renewal is under way is first renewed by the   *)
(* renewal that starts on the day after that one has ended.                *)
ASSUME RelayTopicsAssumption ==
    /\ TTL \in Nat /\ MaxRenewDays \in Nat /\ TTL > 2 * MaxRenewDays + 1
    /\ MaxRows \in Nat /\ MaxFaults \in Nat

VARIABLES
    \* Postgres
    project,     \* project[p]: domain and topic of the row, or NoProject
    subscriber,  \* subscriber[p]: topic of the account's row for p, or NoTopic
    inserted,    \* rows inserted so far
    \* relay
    age,         \* age[t]: days since t was subscribed; TTL when it is not
    webhook,     \* days since the webhook was registered; TTL when it is not
    \* server
    stage,       \* "down", "starting" (before the HTTP server), "up"
    job,         \* the next await of the renewal job
    topics,      \* topics the job has read
    running,     \* renew_all_topics_lock
    renewing,    \* topics the renewal task has still to subscribe
    renewDays,   \* days the renewal task has taken so far
    call,        \* call[h]: the row whose topic handler h is about to subscribe
    unsub,       \* topics of spawned unsubscribe tasks
    \* history
    answered,    \* answered[p]: the keys answered to p
    faults       \* number of faults so far

dbVars     == <<project, subscriber, inserted>>
relayVars  == <<age, webhook>>
jobVars    == <<stage, job, topics, running, renewing, renewDays>>
serverVars == <<call, unsub>>
vars == <<project, subscriber, inserted, age, webhook, stage, job, topics, running,
          renewing, renewDays, call, unsub, answered, faults>>

KeyAgreement == 0       \* key_agreement_topic
Rows == 1..MaxRows
NoTopic == MaxRows + 1
Topics == {KeyAgreement} \cup Rows

NoProject == [domain |-> "none", topic |-> NoTopic]
NoCall == [row |-> "none", project |-> "none", topic |-> NoTopic]

TypeOK ==
    /\ project \in [Projects -> [domain : Domains, topic : Rows] \cup {NoProject}]
    /\ subscriber \in [Projects -> Rows \cup {NoTopic}]
    /\ inserted \in 0..MaxRows
    /\ age \in [Topics -> 0..TTL] /\ webhook \in 0..TTL
    /\ stage \in {"down", "starting", "up"}
    /\ job \in {"sleep", "register", "subscribers", "projects", "lock"}
    /\ topics \in SUBSET Topics /\ renewing \in SUBSET Topics
    /\ running \in BOOLEAN /\ renewDays \in 0..MaxRenewDays
    /\ call \in [Handlers -> [row : {"project", "subscriber"}, project : Projects, topic : Rows]
                               \cup {NoCall}]
    /\ unsub \in SUBSET Rows
    /\ answered \in [Projects -> SUBSET Rows]
    /\ faults \in 0..MaxFaults

Registered == {p \in Projects : project[p] # NoProject}
SubscriberTopics == {subscriber[p] : p \in Projects} \ {NoTopic}
ProjectTopics == {project[p].topic : p \in Registered}

\* The topics the server has to listen to, and those it is subscribed to.
Stored == {KeyAgreement} \cup SubscriberTopics \cup ProjectTopics
Subscribed == {t \in Topics : age[t] < TTL}

\* A message on t reaches a handler: the relay calls the webhook, the server is up.
Heard(t) == stage = "up" /\ webhook < TTL /\ t \in Subscribed

Init ==
    /\ project = [p \in Projects |-> NoProject]
    /\ subscriber = [p \in Projects |-> NoTopic]
    /\ inserted = 0
    /\ age = [t \in Topics |-> TTL] /\ webhook = TTL
    /\ stage = "down" /\ job = "sleep" /\ topics = {}
    /\ running = FALSE /\ renewing = {} /\ renewDays = 0
    /\ call = [h \in Handlers |-> NoCall] /\ unsub = {}
    /\ answered = [p \in Projects |-> {}]
    /\ faults = 0

-----------------------------------------------------------------------------
Fault == faults < MaxFaults /\ faults' = faults + 1

(* Rows and their topics: the request handlers.                            *)

\* subscribe_relay_topic is called next, for topic t of a row of p.
Calls(h, row, p, t) ==
    call' = [call EXCEPT ![h] = [row |-> row, project |-> p, topic |-> t]]

\* Mutant: a conflict stores the new keys and the new topic as well.
UpsertedReplacesKeys(p, d) == [domain |-> d, topic |-> inserted + 1]

\* upsert_project: a row that exists gets the domain and keeps its keys.
Upserted(p, d) ==
    [domain |-> d, topic |-> IF p \in Registered THEN project[p].topic ELSE inserted + 1]

\* UNIQUE (app_domain): AppDomainInUseByAnotherProject.
InUseByAnother(p, d) == \E q \in Registered \ {p} : project[q].domain = d

\* subscribe_topic, up to the await of subscribe_relay_topic.
SubscribeTopic(h, p, d) ==
    /\ stage = "up" /\ call[h] = NoCall
    /\ ~InUseByAnother(p, d)
    /\ LET row == Upserted(p, d) IN
         /\ row.topic \in Rows
         /\ project' = [project EXCEPT ![p] = row]
         /\ inserted' = IF row.topic > inserted THEN row.topic ELSE inserted
         /\ Calls(h, "project", p, row.topic)
    /\ UNCHANGED <<subscriber, relayVars, jobVars, unsub, answered, faults>>

\* wc_notifySubscribe arrives on the project's topic: upsert_subscriber.
NotifySubscribe(h, p) ==
    /\ p \in Registered /\ Heard(project[p].topic) /\ call[h] = NoCall
    /\ LET t == IF subscriber[p] = NoTopic THEN inserted + 1 ELSE subscriber[p] IN
         /\ t \in Rows
         /\ subscriber' = [subscriber EXCEPT ![p] = t]
         /\ inserted' = IF t > inserted THEN t ELSE inserted
         /\ Calls(h, "subscriber", p, t)
    /\ UNCHANGED <<project, relayVars, jobVars, unsub, answered, faults>>

\* wc_notifyDelete arrives on the subscriber's topic: delete_subscriber, and the
\* task that unsubscribes the topic is spawned.
NotifyDelete(p) ==
    /\ subscriber[p] # NoTopic /\ Heard(subscriber[p])
    /\ subscriber' = [subscriber EXCEPT ![p] = NoTopic]
    /\ unsub' = unsub \cup {subscriber[p]}
    /\ UNCHANGED <<project, inserted, relayVars, jobVars, call, answered, faults>>

\* subscribe_relay_topic returns Ok; the project is answered with its keys.
RelaySubscribe(h) ==
    /\ call[h] # NoCall
    /\ age' = [age EXCEPT ![call[h].topic] = 0]
    /\ answered' = IF call[h].row = "project"
                     THEN [answered EXCEPT ![call[h].project] = @ \cup {call[h].topic}]
                     ELSE answered
    /\ call' = [call EXCEPT ![h] = NoCall]
    /\ UNCHANGED <<dbVars, webhook, jobVars, unsub, faults>>

\* The handler fails after the upsert: the welcome notification's statements, or
\* the ten calls to the relay, one of which it may have taken.
RelaySubscribeErr(h) ==
    /\ call[h] # NoCall
    /\ age' \in {age, [age EXCEPT ![call[h].topic] = 0]}
    /\ call' = [call EXCEPT ![h] = NoCall]
    /\ Fault
    /\ UNCHANGED <<dbVars, webhook, jobVars, unsub, answered>>

\* The spawned task: relay_client.unsubscribe, once, whatever it returns.
RelayUnsubscribe(t) ==
    /\ t \in unsub
    /\ unsub' = unsub \ {t}
    /\ \/ age' = [age EXCEPT ![t] = TTL] /\ UNCHANGED faults
       \/ Fault /\ UNCHANGED age
    /\ UNCHANGED <<dbVars, webhook, jobVars, call, answered>>

-----------------------------------------------------------------------------
(* The renewal job.                                                        *)

\* bootstrap, up to the first await of relay_renewal_job::start.
Start ==
    /\ stage = "down"
    /\ stage' = "starting" /\ job' = "register"
    /\ UNCHANGED <<dbVars, relayVars, topics, running, renewing, renewDays, serverVars,
                   answered, faults>>

RegisterWebhook ==
    /\ job = "register"
    /\ webhook' = 0
    /\ job' = "subscribers"
    /\ UNCHANGED <<dbVars, age, stage, topics, running, renewing, renewDays, serverVars,
                   answered, faults>>

\* Mutants: a join that also yields rows without a topic, and topics from a cache
\* that nothing is removed from.
GetSubscriberTopicsOuterJoin == {subscriber[p] : p \in Projects}
GetSubscriberTopicsCached == 1..inserted

GetSubscriberTopics == SubscriberTopics

ReadSubscribers ==
    /\ job = "subscribers"
    /\ topics' = GetSubscriberTopics
    /\ job' = "projects"
    /\ UNCHANGED <<dbVars, relayVars, stage, running, renewing, renewDays, serverVars,
                   answered, faults>>

\* Mutant: the subscribers' topics only.
AllTopicsForgetsProjects == {KeyAgreement} \cup topics

\* [key_agreement_topic], the subscribers' topics and those of get_project_topics.
AllTopics == {KeyAgreement} \cup topics \cup ProjectTopics

ReadProjects ==
    /\ job = "projects"
    /\ topics' = AllTopics
    /\ job' = "lock"
    /\ UNCHANGED <<dbVars, relayVars, stage, running, renewing, renewDays, serverVars,
                   answered, faults>>

\* "If operation already running, don't start another one".  The job is done, and
\* after the first one the server goes up.
StartRenewal ==
    /\ job = "lock"
    /\ IF running THEN UNCHANGED <<running, renewing, renewDays>>
                  ELSE running' = TRUE /\ renewing' = topics /\ renewDays' = 0
    /\ topics' = {}
    /\ job' = "sleep" /\ stage' = "up"
    /\ UNCHANGED <<dbVars, relayVars, serverVars, answered, faults>>

\* The renewal task, 25 topics at a time: batch_subscribe_relay_topics returns Ok,
RenewTopic(t) ==
    /\ t \in renewing
    /\ age' = [age EXCEPT ![t] = 0]
    /\ renewing' = renewing \ {t}
    /\ UNCHANGED <<dbVars, webhook, stage, job, topics, running, renewDays, serverVars,
                   answered, faults>>

\* or an error, which is logged.
RenewTopicErr(t) ==
    /\ t \in renewing
    /\ age' \in {age, [age EXCEPT ![t] = 0]}
    /\ renewing' = renewing \ {t}
    /\ Fault
    /\ UNCHANGED <<dbVars, webhook, stage, job, topics, running, renewDays, serverVars,
                   answered>>

\* Mutant: a renewal with an error is not complete.
EndRenewalIfComplete ==
    /\ running /\ renewing = {} /\ faults = 0
    /\ running' = FALSE /\ renewDays' = 0
    /\ UNCHANGED <<dbVars, relayVars, stage, job, topics, renewing, serverVars,
                   answered, faults>>

EndRenewal ==
    /\ running /\ renewing = {}
    /\ running' = FALSE /\ renewDays' = 0
    /\ UNCHANGED <<dbVars, relayVars, stage, job, topics, renewing, serverVars,
                   answered, faults>>

\* The process ends, and with it handlers, unsubscribe tasks and the renewal.
Shutdown ==
    /\ stage' = "down" /\ job' = "sleep" /\ topics' = {}
    /\ running' = FALSE /\ renewing' = {} /\ renewDays' = 0
    /\ call' = [h \in Handlers |-> NoCall] /\ unsub' = {}
    /\ Fault

\* One of the job's first three calls fails: the first job ends bootstrap, a later
\* one is tried again on the next day.
JobErr ==
    /\ job \in {"register", "subscribers", "projects"}
    /\ IF stage = "starting"
         THEN Shutdown
         ELSE /\ job' = "sleep" /\ topics' = {} /\ Fault
              /\ UNCHANGED <<stage, running, renewing, renewDays, serverVars>>
    /\ webhook' \in {webhook, IF job = "register" THEN 0 ELSE webhook}
    /\ UNCHANGED <<dbVars, age, answered>>

Crash ==
    /\ stage # "down"
    /\ Shutdown
    /\ UNCHANGED <<dbVars, relayVars, answered>>

\* A day passes: the relay forgets what is TTL days old, and interval.tick()
\* returns.  Requests and the job take less than a day, a renewal MaxRenewDays.
Day ==
    /\ job = "sleep" /\ unsub = {} /\ \A h \in Handlers : call[h] = NoCall
    /\ running => renewDays < MaxRenewDays
    /\ age' = [t \in Topics |-> IF age[t] < TTL THEN age[t] + 1 ELSE TTL]
    /\ webhook' = IF webhook < TTL THEN webhook + 1 ELSE TTL
    /\ renewDays' = IF running THEN renewDays + 1 ELSE 0
    /\ job' = IF stage = "up" THEN "register" ELSE "sleep"
    /\ UNCHANGED <<dbVars, stage, topics, running, renewing, serverVars,
                   answered, faults>>

-----------------------------------------------------------------------------
Request ==
    \/ \E h \in Handlers, p \in Projects :
         NotifySubscribe(h, p) \/ \E d \in Domains : SubscribeTopic(h, p, d)
    \/ \E p \in Projects : NotifyDelete(p)

Job ==
    \/ RegisterWebhook \/ ReadSubscribers \/ ReadProjects \/ StartRenewal \/ JobErr
    \/ \E t \in renewing : RenewTopic(t) \/ RenewTopicErr(t)
    \/ EndRenewal

Next ==
    \/ Request
    \/ \E h \in Handlers : RelaySubscribe(h) \/ RelaySubscribeErr(h)
    \/ \E t \in unsub : RelayUnsubscribe(t)
    \/ Start \/ Job \/ Crash \/ Day

Spec == Init /\ [][Next]_vars

(***************************************************************************)
(* Fairness.  A server that ended is started again; the job, the renewal   *)
(* task and the other tasks are polled as long as they exist; days pass,   *)
(* however many requests come.  Faults are finitely many (MaxFaults).      *)
(***************************************************************************)
Fairness ==
    /\ WF_vars(Start \/ RegisterWebhook \/ ReadSubscribers \/ ReadProjects \/ StartRenewal)
    /\ WF_vars((\E t \in renewing : RenewTopic(t)) \/ EndRenewal)
    /\ WF_vars(\E t \in unsub : RelayUnsubscribe(t))
    /\ \A h \in Handlers : WF_vars(RelaySubscribe(h))
    /\ SF_vars(Day)

FairSpec == Spec /\ Fairness

-----------------------------------------------------------------------------
(* Properties.                                                             *)

\* The keys a project was once answered stay its keys: registering again, from
\* two requests at once, with another domain, or after an error that left the row
\* behind, answers the same (upsert_project's ON CONFLICT and RETURNING).
AnsweredKeysLast ==
    \A p \in Projects : answered[p] \subseteq {project[p].topic}

AboutToSubscribe(t) ==
    \/ t = KeyAgreement /\ t \in renewing
    \/ \E h \in Handlers : call[h].topic = t

\* The renewal comes in time: as long as no call has failed, the webhook and every
\* topic in the database stay registered at the relay, also a topic inserted after
\* a slow renewal has read its topics.  Only a topic that its handler is about to
\* subscribe is not, and the key agreement topic until the server's first renewal.
NothingLapses ==
    faults = 0 /\ stage = "up" =>
        webhook < TTL /\ \A t \in Stored \ Subscribed : AboutToSubscribe(t)

\* Every topic in the database is listened to sooner or later, whatever failed
\* before: a handler between upsert and relay, a renewal of this topic, a job, the
\* start of the server ("all topics should be renewed eventually").
LiveTopicServed ==
    \A t \in Topics : t \in Stored ~> (Heard(t) \/ t \notin Stored)

\* A deleted topic is subscribed to for a while at most: a renewal that has read it
\* before the delete, or an unsubscribe that failed, does not keep it for ever.
DeletedTopicDropped ==
    \A t \in Rows : (t <= inserted /\ t \notin Stored) ~> [](t \notin Subscribed)

-----------------------------------------------------------------------------
(* The inductive strengthening of AnsweredKeysLast and NothingLapses.      *)

\* No two rows have the same topic, and a topic to be unsubscribed is of no row.
RowsInv ==
    /\ \A p \in Projects :
         /\ project[p].topic # NoTopic => project[p].topic <= inserted
         /\ subscriber[p] # NoTopic => subscriber[p] <= inserted
    /\ \A p, q \in Projects :
         /\ subscriber[p] = subscriber[q] /\ p # q => subscriber[p] = NoTopic
         /\ subscriber[p] = project[q].topic => subscriber[p] = NoTopic
    /\ \A t \in unsub : t <= inserted /\ t \notin Stored

\* What is about to be answered are the keys of the row.
KeysInv ==
    /\ AnsweredKeysLast
    /\ \A h \in Handlers :
         call[h].row = "project" => project[call[h].project].topic = call[h].topic

\* How old a subscription gets between two renewals that read its topic.
AgeBound(t) ==
    IF running THEN IF t \in renewing THEN MaxRenewDays + 1 + renewDays ELSE renewDays
               ELSE IF job = "sleep" THEN MaxRenewDays ELSE MaxRenewDays + 1

\* Before it is up for the first time the server has no rows.  Then a topic is as
\* old as AgeBound, and today's if the job has missed it.
AgeInv ==
    /\ stage = "up" =>
         /\ webhook <= IF job = "register" THEN 1 ELSE 0
         /\ \A t \in Stored : AboutToSubscribe(t) \/ age[t] <= AgeBound(t)
         /\ job = "projects" =>
              \A t \in SubscriberTopics \ topics : AboutToSubscribe(t) \/ age[t] = 0
         /\ job = "lock" =>
              \A t \in Stored \ topics : AboutToSubscribe(t) \/ age[t] = 0
    /\ stage # "up" => inserted = 0 /\ ~running
    /\ job \notin {"sleep", "register"} => webhook = 0
    /\ job = "lock" => KeyAgreement \in topics

RelayTopicsInv ==
    TypeOK /\ RowsInv /\ KeysInv /\ (faults = 0 => AgeInv)
=============================================================================
