---------------------------- MODULE Subscriptions ----------------------------
(***************************************************************************)
(* The subscriptions of one account: the handlers of wc_notifySubscribe,   *)
(* wc_notifyUpdate, wc_notifyDelete and wc_notifyWatchSubscriptions, the   *)
(* subscriber and subscription_watcher tables they share, the projects'    *)
(* welcome notifications, the topics the server is subscribed to at the    *)
(* relay, the task that unsubscribes a deleted topic, and the hourly job   *)
(* that deletes expired watchers.  How the relay's subscriptions expire    *)
(* and are renewed is the subject of RelayTopics.                          *)
(*                                                                         *)
(* The webhook server runs one handler per incoming message, so handlers   *)
(* interleave at every await; an action is one SQL transaction or one call *)
(* to the relay.  Every committed change of the subscriber table gets the  *)
(* next number.  A new subscriber row has a random topic: it is named by   *)
(* the number of the change that inserts it, and stands for the row's id   *)
(* as well.  Of scopes only what a subscribe asks for is kept, to compare  *)
(* with the type of the project's welcome notification.                    *)
(***************************************************************************)
EXTENDS Naturals, FiniteSets

CONSTANTS
    Apps,          \* projects, by app domain
    AllApps,       \* no app: a watcher or an identity for every app
    Clients,       \* clients of the account, by did_key
    LimitedTo,     \* LimitedTo[c]: AuthorizedApp in the identity of c; AllApps is Unlimited
    Handlers,      \* concurrent webhook handlers
    WatcherLimit,  \* SUBSCRIPTION_WATCHER_LIMIT
    MaxChanges,    \* bound: committed changes of the subscriber table
    Activities,    \* bound: what goes on besides the requests
    Methods,       \* bound: the requests clients make
    Mjv0,          \* inputs: whether a request has mjv 0
    Types,         \* notification types
    NoType,        \* no type: a project without an enabled welcome notification
    Scopes,        \* inputs: the scope of a subscribe
    Watchable      \* inputs: the app of a watch, or AllApps

ASSUME SubscriptionsAssumption ==
    /\ AllApps \notin Apps /\ "none" \notin Apps \cup {AllApps}
    /\ IsFiniteSet(Clients) /\ IsFiniteSet(Handlers)
    /\ LimitedTo \in [Clients -> Apps \cup {AllApps}]
    /\ WatcherLimit \in Nat \ {0} /\ MaxChanges \in Nat
    /\ Activities \subseteq {"welcome", "expiry", "crash"}
    /\ Methods \subseteq {"subscribe", "update", "delete", "watch"}
    /\ Mjv0 \subseteq BOOLEAN
    /\ NoType \notin Types /\ Scopes \subseteq SUBSET Types
    /\ Watchable \subseteq Apps \cup {AllApps}

NoTopic == 0
Topics == 1..MaxChanges

VARIABLES
    \* Postgres
    version,    \* number of committed changes of the subscriber table
    subs,       \* subs[a]: topic of the account's subscriber row, or NoTopic
    watchers,   \* watchers[c]: the row of c in subscription_watcher
    welcome,    \* welcome[a]: type of the enabled welcome notification, or NoType
    \* handlers
    pc,         \* the next await of a handler
    req,        \* the request it handles
    topic,      \* the subscriber row it has found or upserted
    snap,       \* collect_subscriptions: the apps with a subscriber row
    snapAt,     \* the version that snapshot shows
    due,        \* messages still to be published
    \* relay
    relaySubs,  \* topics the server is subscribed to
    unsub,      \* topics of spawned unsubscribe tasks
    \* history
    commit,     \* commit[h]: the change made by the handler
    lost,       \* watchers to whom the handler's publish failed
    informed,   \* informed[c]: newest version published to c
    revealed,   \* revealed[c]: apps whose subscription (and key) was published to c
    welcomes,   \* welcomes[t]: welcome notifications queued for the row
    owed,       \* rows whose insertion found a welcome notification in its scope
    excused     \* rows whose inserting handler failed before it had queued one

dbVars      == <<version, subs, watchers, welcome>>
handlerVars == <<pc, req, topic, snap, snapAt, due, commit, lost>>
relayVars   == <<relaySubs, unsub>>
outVars     == <<informed, revealed>>
welcomeVars == <<welcomes, owed, excused>>
vars == <<version, subs, watchers, welcome, pc, req, topic, snap, snapAt, due,
          relaySubs, unsub, commit, lost, informed, revealed, welcomes, owed, excused>>

NoWatcher == [app |-> "none"]
Watcher == [app : Apps \cup {AllApps}, since : 0..MaxChanges, expired : BOOLEAN]
NoRequest == [op |-> "none"]
Request == [op : {"subscribe", "update", "delete", "watch"}, client : Clients,
            app : Apps \cup {AllApps}, mjv0 : BOOLEAN, scope : SUBSET Types]
Message == [kind : {"push", "answer"}, to : Clients, apps : SUBSET Apps]
PC == {"idle", "upsert", "getWelcome", "welcome", "relay", "update", "delete",
       "collect", "watchers", "send", "wCollect", "wCount", "wUpsert", "wReply"}

TypeOK ==
    /\ version \in 0..MaxChanges
    /\ subs \in [Apps -> Topics \cup {NoTopic}]
    /\ watchers \in [Clients -> Watcher \cup {NoWatcher}]
    /\ welcome \in [Apps -> Types \cup {NoType}]
    /\ pc \in [Handlers -> PC]
    /\ req \in [Handlers -> Request \cup {NoRequest}]
    /\ topic \in [Handlers -> Topics \cup {NoTopic}]
    /\ snap \in [Handlers -> SUBSET Apps]
    /\ snapAt \in [Handlers -> 0..MaxChanges]
    /\ due \in [Handlers -> SUBSET Message]
    /\ relaySubs \in SUBSET Topics /\ unsub \in SUBSET Topics
    /\ commit \in [Handlers -> 0..MaxChanges]
    /\ lost \in [Handlers -> SUBSET Clients]
    /\ informed \in [Clients -> 0..MaxChanges]
    /\ revealed \in [Clients -> SUBSET Apps]
    /\ welcomes \in [Topics -> Nat]
    /\ owed \in SUBSET Topics /\ excused \in SUBSET Topics

Subscribed == {a \in Apps : subs[a] # NoTopic}
LiveTopics == {subs[a] : a \in Subscribed}

Init ==
    /\ version = 0
    /\ subs = [a \in Apps |-> NoTopic]
    /\ watchers = [c \in Clients |-> NoWatcher]
    /\ welcome \in [Apps -> Types \cup {NoType}]
    /\ pc = [h \in Handlers |-> "idle"]
    /\ req = [h \in Handlers |-> NoRequest]
    /\ topic = [h \in Handlers |-> NoTopic]
    /\ snap = [h \in Handlers |-> {}]
    /\ snapAt = [h \in Handlers |-> 0]
    /\ due = [h \in Handlers |-> {}]
    /\ relaySubs = {} /\ unsub = {}
    /\ commit = [h \in Handlers |-> 0]
    /\ lost = [h \in Handlers |-> {}]
    /\ informed = [c \in Clients |-> 0]
    /\ revealed = [c \in Clients |-> {}]
    /\ welcomes = [t \in Topics |-> 0]
    /\ owed = {} /\ excused = {}

-----------------------------------------------------------------------------
(* Requests.                                                               *)

\* check_app_authorization, and the same test in the other three handlers.
Authorized(c, a) == LimitedTo[c] # AllApps => a = LimitedTo[c]

\* The handler's checks have passed; its first statement comes next.
Begin(h, r, t, next) ==
    /\ pc[h] = "idle"
    /\ Authorized(r.client, r.app)
    /\ pc' = [pc EXCEPT ![h] = next]
    /\ req' = [req EXCEPT ![h] = r]
    /\ topic' = [topic EXCEPT ![h] = t]
    /\ UNCHANGED <<dbVars, snap, snapAt, due, commit, lost, relayVars, outVars, welcomeVars>>

Subscribe(h, c, a, mjv0, scope) ==
    Begin(h, [op |-> "subscribe", client |-> c, app |-> a, mjv0 |-> mjv0, scope |-> scope],
          NoTopic, "upsert")

\* Update and delete arrive on the subscriber's topic: get_subscriber_by_topic.
Update(h, c, a, mjv0) ==
    /\ a \in Subscribed
    /\ Begin(h, [op |-> "update", client |-> c, app |-> a, mjv0 |-> mjv0, scope |-> {}],
             subs[a], "update")

Delete(h, c, a, mjv0) ==
    /\ a \in Subscribed
    /\ Begin(h, [op |-> "delete", client |-> c, app |-> a, mjv0 |-> mjv0, scope |-> {}],
             subs[a], "delete")

Watch(h, c, a) ==
    Begin(h, [op |-> "watch", client |-> c, app |-> a, mjv0 |-> FALSE, scope |-> {}],
          NoTopic, "wCollect")

\* The handler of h returns, with or without an error, and forgets everything.
EndHandler(h) ==
    /\ pc' = [pc EXCEPT ![h] = "idle"]
    /\ req' = [req EXCEPT ![h] = NoRequest]
    /\ topic' = [topic EXCEPT ![h] = NoTopic]
    /\ snap' = [snap EXCEPT ![h] = {}]
    /\ snapAt' = [snapAt EXCEPT ![h] = 0]
    /\ due' = [due EXCEPT ![h] = {}]
    /\ commit' = [commit EXCEPT ![h] = 0]
    /\ lost' = [lost EXCEPT ![h] = {}]

\* The rows whose welcome notification is lost when the handlers H fail.
Unwelcomed(H) == {topic[h] : h \in {g \in H : pc[g] \in {"getWelcome", "welcome"}}}

\* A statement, an encoding or a publish of the handler fails: an error answer
\* and no push to the watchers that have not been sent one yet.
Fail(h) ==
    /\ pc[h] # "idle"
    /\ EndHandler(h)
    /\ excused' = excused \cup Unwelcomed({h})
    /\ UNCHANGED <<dbVars, relayVars, outVars, welcomes, owed>>

-----------------------------------------------------------------------------
(* The changes of the subscriber table.                                    *)

\* A committed change by h.
Commit(h) ==
    /\ version < MaxChanges
    /\ version' = version + 1
    /\ commit' = [commit EXCEPT ![h] = version + 1]

\* Mutant: a topic that is the same for every incarnation of a subscription.
SameTopic == CHOOSE u \in Topics : u \notin LiveTopics

\* The topic of the random key in the VALUES of upsert_subscriber.
NewTopic == version + 1

\* Mutant: a conflict returns no row, and the handler goes on without one.
ReturnedTopicUnlessConflict(a) == IF subs[a] = NoTopic THEN NewTopic ELSE NoTopic

\* RETURNING topic: a row that exists keeps its own.
ReturnedTopic(a) == IF subs[a] = NoTopic THEN NewTopic ELSE subs[a]

\* Mutant: the welcome notification is sent whether or not the row is new.
InsertedAlways(a) == TRUE

\* RETURNING (xmax = 0) AS inserted
Inserted(a) == subs[a] = NoTopic

\* upsert_subscriber: a row that exists keeps its topic and key.
UpsertSubscriber(h) ==
    LET a == req[h].app IN
    /\ pc[h] = "upsert"
    /\ Commit(h)
    /\ subs' = [subs EXCEPT ![a] = IF @ = NoTopic THEN NewTopic ELSE @]
    /\ topic' = [topic EXCEPT ![h] = ReturnedTopic(a)]
    /\ pc' = [pc EXCEPT ![h] = IF Inserted(a) THEN "getWelcome" ELSE "relay"]
    /\ UNCHANGED <<watchers, welcome, req, snap, snapAt, due, lost, relayVars, outVars,
                   welcomeVars>>

\* get_welcome_notification: it is enabled and its type is in the scope, or not.
GetWelcome(h) ==
    LET wanted == welcome[req[h].app] \in req[h].scope IN
    /\ pc[h] = "getWelcome"
    /\ pc' = [pc EXCEPT ![h] = IF wanted THEN "welcome" ELSE "relay"]
    /\ owed' = IF wanted THEN owed \cup {topic[h]} ELSE owed
    /\ UNCHANGED <<dbVars, req, topic, snap, snapAt, due, commit, lost, relayVars, outVars,
                   welcomes, excused>>

\* upsert_notification and upsert_subscriber_notifications for the new row.  When
\* the row has been deleted meanwhile the foreign key is violated: that is Fail.
InsertWelcome(h) ==
    /\ pc[h] = "welcome"
    /\ topic[h] \in LiveTopics
    /\ welcomes' = [welcomes EXCEPT ![topic[h]] = @ + 1]
    /\ pc' = [pc EXCEPT ![h] = "relay"]
    /\ UNCHANGED <<dbVars, req, topic, snap, snapAt, due, commit, lost, relayVars,
                   outVars, owed, excused>>

\* subscribe_relay_topic returns Ok,
RelaySubscribe(h) ==
    /\ pc[h] = "relay"
    /\ relaySubs' = relaySubs \cup {topic[h]}
    /\ pc' = [pc EXCEPT ![h] = "collect"]
    /\ UNCHANGED <<dbVars, req, topic, snap, snapAt, due, commit, lost, unsub,
                   outVars, welcomeVars>>

\* or an error after the last retry, although the relay took one of the calls.
RelaySubscribeErr(h) ==
    /\ pc[h] = "relay"
    /\ relaySubs' = relaySubs \cup {topic[h]}
    /\ EndHandler(h)
    /\ UNCHANGED <<dbVars, unsub, outVars, welcomeVars>>

\* update_subscriber.  No row comes back when it was deleted: that is Fail.
UpdateSubscriber(h) ==
    /\ pc[h] = "update"
    /\ subs[req[h].app] = topic[h]
    /\ Commit(h)
    /\ pc' = [pc EXCEPT ![h] = "collect"]
    /\ UNCHANGED <<welcome, subs, watchers, req, topic, snap, snapAt, due, lost, relayVars,
                   outVars, welcomeVars>>

\* delete_subscriber, and the task that unsubscribes the topic is spawned.  A
\* second delete of the same row changes nothing and spawns the task again.
DeleteSubscriber(h) ==
    /\ pc[h] = "delete"
    /\ IF subs[req[h].app] = topic[h]
         THEN /\ Commit(h)
              /\ subs' = [subs EXCEPT ![req[h].app] = NoTopic]
         ELSE /\ commit' = [commit EXCEPT ![h] = version]
              /\ UNCHANGED <<version, subs>>
    /\ unsub' = unsub \cup {topic[h]}
    /\ pc' = [pc EXCEPT ![h] = "collect"]
    /\ UNCHANGED <<welcome, watchers, req, topic, snap, snapAt, due, lost, relaySubs,
                   outVars, welcomeVars>>

-----------------------------------------------------------------------------
(* Answers and pushes to the watchers.                                     *)

\* collect_subscriptions, for the app of a watch request or for all apps.
Collect(h) ==
    /\ pc[h] \in {"collect", "wCollect"}
    /\ snapAt' = [snapAt EXCEPT ![h] = version]
    /\ snap' = [snap EXCEPT ![h] =
                  IF req[h].op = "watch" /\ req[h].app # AllApps
                    THEN Subscribed \cap {req[h].app} ELSE Subscribed]
    /\ pc' = [pc EXCEPT ![h] = IF req[h].op = "watch" THEN "wCount" ELSE "watchers"]
    /\ UNCHANGED <<dbVars, req, topic, due, commit, lost, relayVars, outVars, welcomeVars>>

\* Mutant: an inner join, which finds no watcher without a project.
WatchersOfInnerJoin(a) ==
    {c \in Clients : watchers[c] # NoWatcher /\ watchers[c].app = a /\ ~watchers[c].expired}

\* get_subscription_watchers_for_account_by_app_or_all_app
WatchersOf(a) ==
    {c \in Clients : /\ watchers[c] # NoWatcher
                     /\ watchers[c].app \in {a, AllApps}
                     /\ ~watchers[c].expired}

\* What a watcher for app w is shown of the snapshot of h: everything, or the
\* part of the app the change is about.
Visible(h, w) == IF w = AllApps THEN snap[h] ELSE snap[h] \cap {req[h].app}

\* Mutant: a source client without a watcher is answered with everything.
SourceWatchAll(h) ==
    IF req[h].client \in WatchersOf(req[h].app) THEN watchers[req[h].client].app ELSE AllApps

\* The source client is answered with what its watcher sees, and with its app's
\* subscriptions when it never called watchSubscriptions.
SourceWatch(h) ==
    IF req[h].client \in WatchersOf(req[h].app) THEN watchers[req[h].client].app ELSE req[h].app

\* The rest of prepare_subscription_watchers: who is sent what.  The source
\* client gets no push unless its request has mjv 0.
PrepareWatchers(h) ==
    /\ pc[h] = "watchers"
    /\ due' = [due EXCEPT ![h] =
                 {[kind |-> "push", to |-> c, apps |-> Visible(h, watchers[c].app)] :
                     c \in {d \in WatchersOf(req[h].app) : d # req[h].client \/ req[h].mjv0}}
                 \cup {[kind |-> "answer", to |-> req[h].client,
                        apps |-> Visible(h, SourceWatch(h))]}]
    /\ pc' = [pc EXCEPT ![h] = "send"]
    /\ UNCHANGED <<dbVars, req, topic, snap, snapAt, commit, lost, relayVars, outVars, welcomeVars>>

\* publish_relay_message returns Ok for a message to c.  It does so too when the
\* relay refuses the message because nobody takes it from the mailbox of c, which is
\* full (MailboxLimitExceeded): informed and revealed count such a message as sent.
Publish(h, c, apps) ==
    /\ informed' = [informed EXCEPT ![c] = IF snapAt[h] > @ THEN snapAt[h] ELSE @]
    /\ revealed' = [revealed EXCEPT ![c] = @ \cup apps]

\* The answer and the pushes are published concurrently, in any order.
Send(h, m) ==
    /\ pc[h] = "send" /\ m \in due[h]
    /\ Publish(h, m.to, m.apps)
    /\ due' = [due EXCEPT ![h] = @ \ {m}]
    /\ UNCHANGED <<dbVars, pc, req, topic, snap, snapAt, commit, lost, relayVars,
                   welcomeVars>>

\* A push fails after its retries: the others are still sent.  (A failed answer
\* cancels them: that is Fail.)
PushFails(h, m) ==
    /\ pc[h] = "send" /\ m \in due[h] /\ m.kind = "push"
    /\ due' = [due EXCEPT ![h] = @ \ {m}]
    /\ lost' = [lost EXCEPT ![h] = @ \cup {m.to}]
    /\ UNCHANGED <<dbVars, pc, req, topic, snap, snapAt, commit, relayVars, outVars, welcomeVars>>

Finish(h) ==
    /\ pc[h] = "send" /\ due[h] = {}
    /\ EndHandler(h)
    /\ UNCHANGED <<dbVars, relayVars, outVars, welcomeVars>>

-----------------------------------------------------------------------------
(* wc_notifyWatchSubscriptions, after its collect_subscriptions.           *)

\* The subquery of upsert_subscription_watcher.  It counts expired watchers too;
\* for all apps it compares project with NULL, and counts none.
BelowLimit(a) ==
    a = AllApps \/ Cardinality({c \in Clients : watchers[c].app = a}) < WatcherLimit

\* The statement counts on the snapshot it starts with ("Allow phantom reads");
\* above the limit nothing is written and the answer is an error.
WatchCount(h) ==
    /\ pc[h] = "wCount"
    /\ IF BelowLimit(req[h].app)
         THEN /\ pc' = [pc EXCEPT ![h] = "wUpsert"]
              /\ UNCHANGED <<req, topic, snap, snapAt, due, commit, lost>>
         ELSE EndHandler(h)
    /\ UNCHANGED <<dbVars, relayVars, outVars, welcomeVars>>

\* It commits: the client's row is inserted or replaced.
WatchUpsert(h) ==
    /\ pc[h] = "wUpsert"
    /\ watchers' = [watchers EXCEPT ![req[h].client] =
                      [app |-> req[h].app, since |-> version, expired |-> FALSE]]
    /\ pc' = [pc EXCEPT ![h] = "wReply"]
    /\ UNCHANGED <<welcome, version, subs, req, topic, snap, snapAt, due, commit, lost, relayVars,
                   outVars, welcomeVars>>

WatchReply(h) ==
    /\ pc[h] = "wReply"
    /\ Publish(h, req[h].client, snap[h])
    /\ EndHandler(h)
    /\ UNCHANGED <<dbVars, relayVars, welcomeVars>>

\* A day has passed since the watcher was registered.
ExpireWatcher(c) ==
    /\ watchers[c] # NoWatcher /\ ~watchers[c].expired
    /\ watchers' = [watchers EXCEPT ![c].expired = TRUE]
    /\ UNCHANGED <<welcome, version, subs, handlerVars, relayVars, outVars, welcomeVars>>

\* delete_expired_subscription_watchers, every hour.
DeleteExpiredWatchers ==
    /\ \E c \in Clients : watchers[c] # NoWatcher /\ watchers[c].expired
    /\ watchers' = [c \in Clients |->
                      IF watchers[c] # NoWatcher /\ watchers[c].expired THEN NoWatcher
                                                                      ELSE watchers[c]]
    /\ UNCHANGED <<welcome, version, subs, handlerVars, relayVars, outVars, welcomeVars>>

-----------------------------------------------------------------------------
(* Unsubscribe tasks, the projects' endpoint, and the end of the server.   *)

\* The spawned task: relay_client.unsubscribe.
RelayUnsubscribe(t) ==
    /\ t \in unsub
    /\ relaySubs' = relaySubs \ {t}
    /\ unsub' = unsub \ {t}
    /\ UNCHANGED <<dbVars, handlerVars, outVars, welcomeVars>>

\* It fails with a warning, and is not retried.
RelayUnsubscribeErr(t) ==
    /\ t \in unsub
    /\ unsub' = unsub \ {t}
    /\ UNCHANGED <<dbVars, handlerVars, relaySubs, outVars, welcomeVars>>

\* set_welcome_notification, for a project that exists.
PostWelcomeNotification(a, w) ==
    /\ welcome[a] # w
    /\ welcome' = [welcome EXCEPT ![a] = w]
    /\ UNCHANGED <<version, subs, watchers, handlerVars, relayVars, outVars, welcomeVars>>

\* The server crashes: handlers and unsubscribe tasks are gone.
Crash ==
    /\ pc' = [h \in Handlers |-> "idle"]
    /\ req' = [h \in Handlers |-> NoRequest]
    /\ topic' = [h \in Handlers |-> NoTopic]
    /\ snap' = [h \in Handlers |-> {}]
    /\ snapAt' = [h \in Handlers |-> 0]
    /\ due' = [h \in Handlers |-> {}]
    /\ commit' = [h \in Handlers |-> 0]
    /\ lost' = [h \in Handlers |-> {}]
    /\ unsub' = {}
    /\ excused' = excused \cup Unwelcomed(Handlers)
    /\ UNCHANGED <<dbVars, relaySubs, outVars, welcomes, owed>>

-----------------------------------------------------------------------------
ClientRequest(h, c) ==
    \/ "subscribe" \in Methods /\ \E a \in Apps, m \in Mjv0, s \in Scopes : Subscribe(h, c, a, m, s)
    \/ "update" \in Methods /\ \E a \in Apps, m \in Mjv0 : Update(h, c, a, m)
    \/ "delete" \in Methods /\ \E a \in Apps, m \in Mjv0 : Delete(h, c, a, m)
    \/ "watch" \in Methods /\ \E a \in Watchable : Watch(h, c, a)

HandlerStep(h) ==
    \/ UpsertSubscriber(h) \/ GetWelcome(h) \/ InsertWelcome(h)
    \/ RelaySubscribe(h) \/ RelaySubscribeErr(h)
    \/ UpdateSubscriber(h) \/ DeleteSubscriber(h)
    \/ Collect(h) \/ PrepareWatchers(h)
    \/ \E m \in due[h] : Send(h, m) \/ PushFails(h, m)
    \/ Finish(h)
    \/ WatchCount(h) \/ WatchUpsert(h) \/ WatchReply(h)
    \/ Fail(h)

WatcherExpiry == (\E c \in Clients : ExpireWatcher(c)) \/ DeleteExpiredWatchers

Next ==
    \/ \E h \in Handlers : HandlerStep(h) \/ \E c \in Clients : ClientRequest(h, c)
    \/ \E t \in Topics : RelayUnsubscribe(t) \/ RelayUnsubscribeErr(t)
    \/ "welcome" \in Activities
         /\ \E a \in Apps, w \in Types \cup {NoType} : PostWelcomeNotification(a, w)
    \/ "expiry" \in Activities /\ WatcherExpiry
    \/ "crash" \in Activities /\ Crash

Spec == Init /\ [][Next]_vars

-----------------------------------------------------------------------------
(* Properties.                                                             *)

\* A subscription that is live is not unsubscribed by the task of an older one:
\* a delete and a new subscribe of the same app may interleave in any way, since
\* the task of notify_delete carries a topic that no later row ever has.  So a
\* subscribe that is answered without an error is listened to.
LiveTopicKept ==
    /\ unsub \cap LiveTopics = {}
    /\ \A h \in Handlers :
         /\ req[h].op = "subscribe" /\ pc[h] \in {"collect", "watchers", "send"}
         /\ topic[h] \in LiveTopics
         => topic[h] \in relaySubs

\* A row that is inserted when a welcome notification of its scope is enabled gets
\* it exactly once: subscribing twice, concurrently, again after an error or after
\* a delete queues no second one, and it is lost only with the handler that
\* inserted the row ("TODO do in same txn as upsert_subscriber()").
WelcomeOnce ==
    \A t \in Topics :
        /\ welcomes[t] <= 1
        /\ t \in owed \ excused =>
              welcomes[t] = 1 \/ \E h \in Handlers : pc[h] = "welcome" /\ topic[h] = t

\* An identity limited to one app is never sent the subscription, and with it
\* the symmetric key, of another app: not in an answer, nor in a push prepared
\* for a watcher that the client replaces before it is sent.
AuthorizationRespected ==
    \A c \in Clients : LimitedTo[c] # AllApps => revealed[c] \subseteq {LimitedTo[c]}

\* A handler that changed a subscription misses no watcher that was registered
\* before its change and still is: it has been sent, or is about to be sent, a
\* snapshot that includes the change, or its publish has failed.
NoWatcherMissed ==
    \A h \in Handlers : pc[h] = "send" =>
        \A c \in Clients :
            /\ watchers[c].app \in {req[h].app, AllApps} /\ ~watchers[c].expired
            /\ watchers[c].since < commit[h]
            /\ c # req[h].client \/ req[h].mjv0
            =>  \/ informed[c] >= commit[h]
                \/ c \in lost[h]
                \/ snapAt[h] >= commit[h] /\ \E m \in due[h] : m.kind = "push" /\ m.to = c

-----------------------------------------------------------------------------
(* The inductive strengthening of the four invariants.                     *)

\* What a handler does is what it was asked for, by a client that may ask for it.
HandlerOK(h) ==
    /\ pc[h] = "idle" => req[h] = NoRequest /\ topic[h] = NoTopic
    /\ pc[h] # "idle" =>
         /\ req[h] \in Request
         /\ Authorized(req[h].client, req[h].app)
         /\ req[h].op # "watch" => req[h].app \in Apps
    /\ pc[h] \in {"upsert", "getWelcome", "welcome", "relay"} => req[h].op = "subscribe"
    /\ pc[h] = "update" => req[h].op = "update"
    /\ pc[h] = "delete" => req[h].op = "delete"
    /\ pc[h] \in {"collect", "watchers", "send"} => req[h].op # "watch"
    /\ pc[h] \in {"wCollect", "wCount", "wUpsert", "wReply"} => req[h].op = "watch"
    /\ pc[h] \in {"getWelcome", "welcome", "relay", "update", "delete", "collect",
                  "watchers", "send"} => topic[h] # NoTopic

HandlerInv == \A h \in Handlers : HandlerOK(h)

\* A topic belongs to one app only, to no row that comes later, and when it is to
\* be unsubscribed to no row.
RowsInv ==
    /\ \A a \in Apps : subs[a] <= version
    /\ \A a, b \in Apps : subs[a] = subs[b] /\ a # b => subs[a] = NoTopic
    /\ \A h \in Handlers :
         /\ topic[h] <= version
         /\ topic[h] # NoTopic => \A a \in Apps : subs[a] = topic[h] => a = req[h].app
    /\ \A t \in unsub : t <= version

\* A row has one handler that inserted it, and no welcome notification before it.
WelcomeInv ==
    /\ \A t \in Topics : t > version => welcomes[t] = 0
    /\ \A h \in Handlers :
         pc[h] \in {"getWelcome", "welcome"} =>
           /\ welcomes[topic[h]] = 0
           /\ \A g \in Handlers :
                pc[g] \in {"getWelcome", "welcome"} /\ topic[g] = topic[h] => g = h

\* A limited client watches its app only, and what is read or prepared for it is
\* of that app.
AuthorizationInv ==
    /\ \A c \in Clients : watchers[c] # NoWatcher => Authorized(c, watchers[c].app)
    /\ \A h \in Handlers :
         /\ pc[h] \in {"wCount", "wUpsert", "wReply"} /\ LimitedTo[req[h].client] # AllApps
              => snap[h] \subseteq {LimitedTo[req[h].client]}
         /\ \A m \in due[h] : LimitedTo[m.to] # AllApps => m.apps \subseteq {LimitedTo[m.to]}

\* What a handler shows its watchers includes its own change.
SnapshotInv ==
    /\ \A c \in Clients : watchers[c] # NoWatcher => watchers[c].since <= version
    /\ \A h \in Handlers :
         /\ commit[h] <= version
         /\ pc[h] \in {"watchers", "send"} => commit[h] <= snapAt[h]

SubscriptionsInv ==
    /\ TypeOK /\ HandlerInv /\ RowsInv /\ LiveTopicKept
    /\ WelcomeInv /\ WelcomeOnce
    /\ AuthorizationInv /\ AuthorizationRespected
    /\ SnapshotInv /\ NoWatcherMissed
=============================================================================
