------------------------- MODULE SubscriptionsProofs -------------------------
(***************************************************************************)
(* The subscription handlers keep their promises to the relay, to new      *)
(* subscribers, to limited identities and to the watchers, for any apps,   *)
(* clients, identities, scopes, requests, number of handlers and faults.   *)
(***************************************************************************)
EXTENDS Subscriptions, TLAPS

Step == [Next]_vars

\* A step of the handler h, a new request for it included.
HandlerMoves(h) == HandlerStep(h) \/ \E c \in Clients : ClientRequest(h, c)

\* A step of something other than a handler.
OtherMoves ==
    \/ \E t \in Topics : RelayUnsubscribe(t) \/ RelayUnsubscribeErr(t)
    \/ \E a \in Apps, w \in Types \cup {NoType} : PostWelcomeNotification(a, w)
    \/ \E c \in Clients : ExpireWatcher(c)
    \/ DeleteExpiredWatchers
    \/ UNCHANGED vars

\* How a request is received: the row its topic stands for, and the first await.
Opening(r, t, next) ==
    \/ r.op = "subscribe" /\ r.app \in Apps /\ t = NoTopic /\ next = "upsert"
    \/ r.op = "update" /\ r.app \in Subscribed /\ t = subs[r.app] /\ next = "update"
    \/ r.op = "delete" /\ r.app \in Subscribed /\ t = subs[r.app] /\ next = "delete"
    \/ r.op = "watch" /\ t = NoTopic /\ next = "wCollect"

-----------------------------------------------------------------------------
(* Facts about the actions.                                                *)

\* Every step is one of a handler, of a task, job or endpoint, or the crash.
LEMMA StepCases ==
    Step => (\E h \in Handlers : HandlerMoves(h)) \/ OtherMoves \/ Crash
BY DEF Step, Next, HandlerMoves, OtherMoves, WatcherExpiry

\* NoTopic is no topic, and a watcher for no app is no watcher.
LEMMA Constants ==
    /\ MaxChanges \in Nat /\ Topics \subseteq Nat \ {0} /\ NoTopic \notin Topics
    /\ AllApps \notin Apps /\ "none" \notin Apps /\ "none" # AllApps
    /\ NoRequest \notin Request /\ NoWatcher \notin Watcher
    /\ \A r \in Request : /\ r.op \in {"subscribe", "update", "delete", "watch"}
                          /\ r.client \in Clients /\ r.app \in Apps \cup {AllApps}
                          /\ r.mjv0 \in BOOLEAN /\ r.scope \in SUBSET Types
    /\ \A w \in Watcher : /\ w.app \in Apps \cup {AllApps} /\ w.since \in 0..MaxChanges
                          /\ w.expired \in BOOLEAN
<1>1. /\ MaxChanges \in Nat /\ AllApps \notin Apps /\ "none" \notin Apps /\ "none" # AllApps
  BY SubscriptionsAssumption
<1>2. Topics \subseteq Nat \ {0} /\ NoTopic \notin Topics
  BY <1>1 DEF Topics, NoTopic
<1>3. NoRequest \notin Request
  BY DEF NoRequest, Request
<1>4. NoWatcher \notin Watcher
  BY <1>1 DEF NoWatcher, Watcher
<1>5. \A r \in Request : /\ r.op \in {"subscribe", "update", "delete", "watch"}
                          /\ r.client \in Clients /\ r.app \in Apps \cup {AllApps}
                          /\ r.mjv0 \in BOOLEAN /\ r.scope \in SUBSET Types
  BY DEF Request
<1>6. \A w \in Watcher : /\ w.app \in Apps \cup {AllApps} /\ w.since \in 0..MaxChanges
                          /\ w.expired \in BOOLEAN
  BY DEF Watcher
<1> QED
  BY <1>1, <1>2, <1>3, <1>4, <1>5, <1>6

\* What the code checks of a request before its first statement.
LEMMA Requests ==
    ASSUME TypeOK, NEW h \in Handlers, NEW c \in Clients, ClientRequest(h, c)
    PROVE  \E r \in Request, t \in Topics \cup {NoTopic}, next \in PC :
              Begin(h, r, t, next) /\ Opening(r, t, next)
<1>1. ASSUME NEW a \in Apps, NEW m \in Mjv0, NEW s \in Scopes, Subscribe(h, c, a, m, s)
      PROVE  \E r \in Request, t \in Topics \cup {NoTopic}, next \in PC :
                Begin(h, r, t, next) /\ Opening(r, t, next)
  <2> DEFINE r == [op |-> "subscribe", client |-> c, app |-> a, mjv0 |-> m, scope |-> s]
  <2>1. r \in Request
    BY SubscriptionsAssumption DEF Request
  <2>2. Begin(h, r, NoTopic, "upsert") /\ Opening(r, NoTopic, "upsert")
    BY <1>1 DEF Subscribe, Opening
  <2> HIDE DEF r
  <2> QED
    BY <2>1, <2>2 DEF PC
<1>2. ASSUME NEW a \in Apps, NEW m \in Mjv0, Update(h, c, a, m)
      PROVE  \E r \in Request, t \in Topics \cup {NoTopic}, next \in PC :
                Begin(h, r, t, next) /\ Opening(r, t, next)
  <2> DEFINE r == [op |-> "update", client |-> c, app |-> a, mjv0 |-> m, scope |-> {}]
  <2>1. r \in Request
    BY SubscriptionsAssumption DEF Request
  <2>2. Begin(h, r, subs[a], "update") /\ Opening(r, subs[a], "update")
    BY <1>2 DEF Update, Opening
  <2>3. subs[a] \in Topics \cup {NoTopic}
    BY DEF TypeOK
  <2> HIDE DEF r
  <2> QED
    BY <2>1, <2>2, <2>3 DEF PC
<1>3. ASSUME NEW a \in Apps, NEW m \in Mjv0, Delete(h, c, a, m)
      PROVE  \E r \in Request, t \in Topics \cup {NoTopic}, next \in PC :
                Begin(h, r, t, next) /\ Opening(r, t, next)
  <2> DEFINE r == [op |-> "delete", client |-> c, app |-> a, mjv0 |-> m, scope |-> {}]
  <2>1. r \in Request
    BY SubscriptionsAssumption DEF Request
  <2>2. Begin(h, r, subs[a], "delete") /\ Opening(r, subs[a], "delete")
    BY <1>3 DEF Delete, Opening
  <2>3. subs[a] \in Topics \cup {NoTopic}
    BY DEF TypeOK
  <2> HIDE DEF r
  <2> QED
    BY <2>1, <2>2, <2>3 DEF PC
<1>4. ASSUME NEW a \in Watchable, Watch(h, c, a)
      PROVE  \E r \in Request, t \in Topics \cup {NoTopic}, next \in PC :
                Begin(h, r, t, next) /\ Opening(r, t, next)
  <2> DEFINE r == [op |-> "watch", client |-> c, app |-> a, mjv0 |-> FALSE, scope |-> {}]
  <2>1. r \in Request
    BY SubscriptionsAssumption DEF Request
  <2>2. Begin(h, r, NoTopic, "wCollect") /\ Opening(r, NoTopic, "wCollect")
    BY <1>4 DEF Watch, Opening
  <2> HIDE DEF r
  <2> QED
    BY <2>1, <2>2 DEF PC
<1> QED
  BY <1>1, <1>2, <1>3, <1>4 DEF ClientRequest

\* A handler that returns has the types of an idle one.
LEMMA EndTypes ==
    ASSUME TypeOK, NEW h \in Handlers, EndHandler(h)
    PROVE  /\ pc' \in [Handlers -> PC] /\ req' \in [Handlers -> Request \cup {NoRequest}]
           /\ topic' \in [Handlers -> Topics \cup {NoTopic}]
           /\ snap' \in [Handlers -> SUBSET Apps] /\ snapAt' \in [Handlers -> 0..MaxChanges]
           /\ due' \in [Handlers -> SUBSET Message] /\ commit' \in [Handlers -> 0..MaxChanges]
           /\ lost' \in [Handlers -> SUBSET Clients]
BY Constants DEF TypeOK, EndHandler, PC

\* A handler that returns keeps nothing.
LEMMA EndEffect ==
    ASSUME TypeOK, NEW h \in Handlers, EndHandler(h)
    PROVE  /\ pc'[h] = "idle" /\ req'[h] = NoRequest /\ topic'[h] = NoTopic
           /\ snap'[h] = {} /\ snapAt'[h] = 0 /\ due'[h] = {} /\ commit'[h] = 0
           /\ lost'[h] = {}
BY DEF TypeOK, EndHandler

\* A handler moves itself only: what it keeps between two awaits is its own.
LEMMA HandlerFrame ==
    ASSUME TypeOK, NEW h \in Handlers, HandlerMoves(h), NEW g \in Handlers, g # h
    PROVE  /\ pc'[g] = pc[g] /\ req'[g] = req[g] /\ topic'[g] = topic[g]
           /\ snap'[g] = snap[g] /\ snapAt'[g] = snapAt[g] /\ due'[g] = due[g]
           /\ commit'[g] = commit[g] /\ lost'[g] = lost[g]
<1> USE DEF TypeOK
<1>1. CASE \E c \in Clients : ClientRequest(h, c)
  <2>1. PICK r \in Request, t \in Topics \cup {NoTopic}, next \in PC : Begin(h, r, t, next)
    BY <1>1, Requests
  <2> QED
    BY <2>1 DEF Begin
<1>2. CASE UpsertSubscriber(h) \/ GetWelcome(h) \/ InsertWelcome(h) \/ RelaySubscribe(h)
  BY <1>2 DEF UpsertSubscriber, Commit, GetWelcome, InsertWelcome, RelaySubscribe
<1>3. CASE UpdateSubscriber(h) \/ DeleteSubscriber(h) \/ Collect(h) \/ PrepareWatchers(h)
  BY <1>3 DEF UpdateSubscriber, DeleteSubscriber, Commit, Collect, PrepareWatchers
<1>4. CASE \E m \in due[h] : Send(h, m) \/ PushFails(h, m)
  BY <1>4 DEF Send, PushFails
<1>5. CASE WatchUpsert(h) \/ WatchCount(h)
  BY <1>5 DEF WatchUpsert, WatchCount, EndHandler
<1>6. CASE EndHandler(h)
  BY <1>6 DEF EndHandler
<1> QED
  BY <1>1, <1>2, <1>3, <1>4, <1>5, <1>6
     DEF HandlerMoves, HandlerStep, Finish, RelaySubscribeErr, WatchReply, Fail

-----------------------------------------------------------------------------
(* Types.                                                                  *)

\* What the watchers are sent is of the apps with a subscriber row.
LEMMA MessageTypes ==
    ASSUME TypeOK, HandlerInv, NEW h \in Handlers, PrepareWatchers(h)
    PROVE  due' \in [Handlers -> SUBSET Message]
<1>1. req[h].client \in Clients
  BY Constants DEF HandlerInv, HandlerOK, PrepareWatchers
<1>2. \A w : Visible(h, w) \in SUBSET Apps
  BY DEF Visible, TypeOK
<1>3. \A c \in Clients : \A w :
         [kind |-> "push", to |-> c, apps |-> Visible(h, w)] \in Message
  BY <1>2 DEF Message
<1>4. \A w : [kind |-> "answer", to |-> req[h].client, apps |-> Visible(h, w)] \in Message
  BY <1>1, <1>2 DEF Message
<1>5. WatchersOf(req[h].app) \subseteq Clients
  BY DEF WatchersOf
<1>6. due'[h] \in SUBSET Message
  BY <1>3, <1>4, <1>5 DEF PrepareWatchers, TypeOK
<1> QED
  BY <1>6 DEF PrepareWatchers, TypeOK

\* The rows a failing handler leaves unwelcomed are rows.
LEMMA UnwelcomedTypes ==
    ASSUME TypeOK, HandlerInv, NEW H \in SUBSET Handlers
    PROVE  Unwelcomed(H) \subseteq Topics
BY DEF TypeOK, HandlerInv, HandlerOK, Unwelcomed

\* A step of a handler keeps the types.
LEMMA HandlerTypes ==
    ASSUME TypeOK, HandlerInv, NEW h \in Handlers, HandlerMoves(h)
    PROVE  TypeOK'
<1>0. /\ pc[h] = "upsert" => req[h].app \in Apps
      /\ pc[h] # "idle" => req[h].client \in Clients /\ req[h].app \in Apps \cup {AllApps}
      /\ pc[h] \in {"getWelcome", "welcome", "relay", "delete"} => topic[h] \in Topics
      /\ MaxChanges \in Nat /\ Topics \subseteq Nat \ {0} /\ topic[h] \in Topics \cup {NoTopic}
  BY Constants DEF TypeOK, HandlerInv, HandlerOK
<1> USE DEF TypeOK, dbVars, relayVars, outVars, welcomeVars
<1>1. CASE \E c \in Clients : ClientRequest(h, c)
  <2>1. PICK r \in Request, t \in Topics \cup {NoTopic}, next \in PC : Begin(h, r, t, next)
    BY <1>1, Requests
  <2> QED
    BY <2>1 DEF Begin
<1>2. CASE UpsertSubscriber(h)
  <2>1. version + 1 \in Topics /\ version + 1 \in 0..MaxChanges
    BY <1>0, <1>2 DEF UpsertSubscriber, Commit, Topics
  <2>2. version' \in 0..MaxChanges /\ commit' \in [Handlers -> 0..MaxChanges]
    BY <1>2, <2>1 DEF UpsertSubscriber, Commit
  <2>3. subs' \in [Apps -> Topics \cup {NoTopic}]
    BY <1>2, <2>1 DEF UpsertSubscriber, NewTopic
  <2>4. topic' \in [Handlers -> Topics \cup {NoTopic}]
    BY <1>0, <1>2, <2>1 DEF UpsertSubscriber, ReturnedTopic, NewTopic
  <2>5. pc' \in [Handlers -> PC]
    BY <1>2 DEF UpsertSubscriber, PC
  <2> QED
    BY <1>2, <2>2, <2>3, <2>4, <2>5 DEF UpsertSubscriber
<1>3. CASE GetWelcome(h)
  BY <1>0, <1>3 DEF GetWelcome, PC
<1>4. CASE InsertWelcome(h)
  <2>1. welcomes' \in [Topics -> Nat]
    <3>0. topic[h] \in Topics
      BY <1>0, <1>4 DEF InsertWelcome
    <3>1. welcomes[topic[h]] + 1 \in Nat
      BY <3>0
    <3>2. welcomes' = [welcomes EXCEPT ![topic[h]] = welcomes[topic[h]] + 1]
      BY <1>4 DEF InsertWelcome
    <3> HIDE DEF TypeOK
    <3> QED
      BY <3>0, <3>1, <3>2 DEF TypeOK
  <2> QED
    BY <1>4, <2>1 DEF InsertWelcome, PC
<1>5. CASE RelaySubscribe(h)
  BY <1>0, <1>5 DEF RelaySubscribe, PC
<1>6. CASE RelaySubscribeErr(h)
  BY <1>0, <1>6, EndTypes DEF RelaySubscribeErr
<1>7. CASE UpdateSubscriber(h)
  <2>1. version + 1 \in 0..MaxChanges
    BY <1>0, <1>7 DEF UpdateSubscriber, Commit
  <2>2. version' \in 0..MaxChanges /\ commit' \in [Handlers -> 0..MaxChanges]
    BY <1>7, <2>1 DEF UpdateSubscriber, Commit
  <2> QED
    BY <1>7, <2>2 DEF UpdateSubscriber, PC
<1>8. CASE DeleteSubscriber(h)
  <2>1. version' \in 0..MaxChanges /\ commit' \in [Handlers -> 0..MaxChanges]
    <3>1. version < MaxChanges => version + 1 \in 0..MaxChanges
      BY <1>0
    <3> QED
      BY <1>8, <3>1 DEF DeleteSubscriber, Commit
  <2>2. subs' \in [Apps -> Topics \cup {NoTopic}]
    BY <1>8 DEF DeleteSubscriber
  <2> QED
    BY <1>0, <1>8, <2>1, <2>2 DEF DeleteSubscriber, PC
<1>9. CASE Collect(h)
  BY <1>9 DEF Collect, Subscribed, PC
<1>10. CASE PrepareWatchers(h)
  BY <1>10, MessageTypes DEF PrepareWatchers, PC
<1>11. ASSUME NEW m \in due[h], Send(h, m) \/ PushFails(h, m)
       PROVE  TypeOK'
  <2>1. m \in Message /\ m.to \in Clients /\ m.apps \in SUBSET Apps
    BY <1>11 DEF Message
  <2>2. CASE Send(h, m)
    <3>1. informed' \in [Clients -> 0..MaxChanges] /\ revealed' \in [Clients -> SUBSET Apps]
      BY <2>1, <2>2 DEF Send, Publish
    <3> QED
      BY <2>2, <3>1 DEF Send
  <2>3. CASE PushFails(h, m)
    BY <2>1, <2>3 DEF PushFails
  <2> QED
    BY <1>11, <2>2, <2>3
<1>12. CASE Finish(h)
  BY <1>12, EndTypes DEF Finish
<1>13. CASE WatchCount(h)
  <2>1. CASE BelowLimit(req[h].app)
    BY <1>13, <2>1 DEF WatchCount, PC
  <2>2. CASE ~BelowLimit(req[h].app)
    BY <1>13, <2>2, EndTypes DEF WatchCount
  <2> QED
    BY <2>1, <2>2
<1>14. CASE WatchUpsert(h)
  <2>1. [app |-> req[h].app, since |-> version, expired |-> FALSE] \in Watcher
    BY <1>0, <1>14 DEF WatchUpsert, Watcher
  <2>2. watchers' \in [Clients -> Watcher \cup {NoWatcher}]
    BY <1>14, <2>1 DEF WatchUpsert
  <2> QED
    BY <1>14, <2>2 DEF WatchUpsert, PC
<1>15. CASE WatchReply(h)
  <2>1. informed' \in [Clients -> 0..MaxChanges] /\ revealed' \in [Clients -> SUBSET Apps]
    BY <1>15 DEF WatchReply, Publish
  <2> QED
    BY <1>15, <2>1, EndTypes DEF WatchReply
<1>16. CASE Fail(h)
  BY <1>16, EndTypes, UnwelcomedTypes DEF Fail
<1> QED
  BY <1>1, <1>2, <1>3, <1>4, <1>5, <1>6, <1>7, <1>8, <1>9, <1>10, <1>11, <1>12, <1>13, <1>14,
     <1>15, <1>16 DEF HandlerMoves, HandlerStep

\* Every step keeps the types.
LEMMA TypeStep ==
    ASSUME TypeOK, HandlerInv, Step
    PROVE  TypeOK'
<1>1. CASE \E h \in Handlers : HandlerMoves(h)
  BY <1>1, HandlerTypes
<1> USE DEF TypeOK, dbVars, relayVars, outVars, welcomeVars, handlerVars
<1>2. ASSUME NEW t \in Topics, RelayUnsubscribe(t) \/ RelayUnsubscribeErr(t)
      PROVE  TypeOK'
  BY <1>2 DEF RelayUnsubscribe, RelayUnsubscribeErr
<1>3. ASSUME NEW a \in Apps, NEW w \in Types \cup {NoType}, PostWelcomeNotification(a, w)
      PROVE  TypeOK'
  BY <1>3 DEF PostWelcomeNotification
<1>4. ASSUME NEW c \in Clients, ExpireWatcher(c)
      PROVE  TypeOK'
  <2>0. watchers[c] \in Watcher
    BY <1>4 DEF ExpireWatcher
  <2>1. [watchers[c] EXCEPT !.expired = TRUE] \in Watcher
    BY <2>0 DEF Watcher
  <2>2. watchers' \in [Clients -> Watcher \cup {NoWatcher}]
    BY <1>4, <2>1 DEF ExpireWatcher
  <2> QED
    BY <1>4, <2>2 DEF ExpireWatcher
<1>5. CASE DeleteExpiredWatchers
  <2>1. watchers' \in [Clients -> Watcher \cup {NoWatcher}]
    BY <1>5 DEF DeleteExpiredWatchers
  <2> QED
    BY <1>5, <2>1 DEF DeleteExpiredWatchers
<1>6. CASE UNCHANGED vars
  BY <1>6 DEF vars
<1>7. CASE Crash
  <2>1. Unwelcomed(Handlers) \subseteq Topics
    BY UnwelcomedTypes
  <2>2. excused' \in SUBSET Topics
    BY <1>7, <2>1 DEF Crash
  <2>3. 0 \in 0..MaxChanges
    BY SubscriptionsAssumption
  <2>4. /\ pc' \in [Handlers -> PC] /\ req' \in [Handlers -> Request \cup {NoRequest}]
        /\ topic' \in [Handlers -> Topics \cup {NoTopic}]
        /\ snap' \in [Handlers -> SUBSET Apps] /\ snapAt' \in [Handlers -> 0..MaxChanges]
        /\ due' \in [Handlers -> SUBSET Message] /\ commit' \in [Handlers -> 0..MaxChanges]
        /\ lost' \in [Handlers -> SUBSET Clients]
    BY <1>7, <2>3 DEF Crash, PC
  <2> QED
    BY <1>7, <2>2, <2>4 DEF Crash
<1> QED
  BY <1>1, <1>2, <1>3, <1>4, <1>5, <1>6, <1>7, StepCases DEF OtherMoves

-----------------------------------------------------------------------------
(* Handlers and rows.                                                      *)

\* A handler goes on with the request it was given.
LEMMA HandlerStepOK ==
    ASSUME TypeOK, HandlerInv, NEW h \in Handlers, HandlerMoves(h)
    PROVE  HandlerOK(h)'
<1>0. HandlerOK(h) /\ pc \in [Handlers -> PC]
  BY DEF HandlerInv, TypeOK
<1>1. CASE \E c \in Clients : ClientRequest(h, c)
  <2>1. PICK r \in Request, t \in Topics \cup {NoTopic}, next \in PC :
           Begin(h, r, t, next) /\ Opening(r, t, next)
    BY <1>1, Requests
  <2>2. pc'[h] = next /\ req'[h] = r /\ topic'[h] = t /\ Authorized(r.client, r.app)
    BY <2>1 DEF Begin, TypeOK
  <2> QED
    BY <2>1, <2>2, Constants DEF Opening, Subscribed, HandlerOK, Authorized
<1>2. CASE EndHandler(h)
  BY <1>2, EndEffect DEF HandlerOK
<1>3. CASE UpsertSubscriber(h)
  <2>1. /\ req'[h] = req[h] /\ topic'[h] = ReturnedTopic(req[h].app) /\ pc[h] = "upsert"
        /\ pc'[h] \in {"getWelcome", "relay"}
    BY <1>3 DEF UpsertSubscriber, TypeOK
  <2>2. ReturnedTopic(req[h].app) # NoTopic
    BY DEF ReturnedTopic, NewTopic, NoTopic, TypeOK
  <2> QED
    BY <1>0, <2>1, <2>2 DEF HandlerOK, Authorized
<1>4. CASE GetWelcome(h) \/ InsertWelcome(h) \/ RelaySubscribe(h)
  BY <1>0, <1>4 DEF GetWelcome, InsertWelcome, RelaySubscribe, HandlerOK, Authorized
<1>5. CASE UpdateSubscriber(h) \/ DeleteSubscriber(h) \/ Collect(h) \/ PrepareWatchers(h)
  BY <1>0, <1>5 DEF UpdateSubscriber, DeleteSubscriber, Collect, PrepareWatchers, HandlerOK,
                    Authorized
<1>6. CASE \E m \in due[h] : Send(h, m) \/ PushFails(h, m)
  BY <1>0, <1>6 DEF Send, PushFails, HandlerOK, Authorized
<1>7. CASE WatchCount(h) /\ ~EndHandler(h)
  BY <1>0, <1>7 DEF WatchCount, HandlerOK, Authorized
<1>8. CASE WatchUpsert(h)
  BY <1>0, <1>8 DEF WatchUpsert, HandlerOK, Authorized
<1> QED
  BY <1>1, <1>2, <1>3, <1>4, <1>5, <1>6, <1>7, <1>8
     DEF HandlerMoves, HandlerStep, Finish, RelaySubscribeErr, WatchReply, Fail

\* Every step keeps what a handler does in line with its request.
LEMMA HandlerInvStep ==
    ASSUME TypeOK, HandlerInv, Step
    PROVE  HandlerInv'
<1>1. ASSUME NEW h \in Handlers, HandlerMoves(h)
      PROVE  HandlerInv'
  <2>1. ASSUME NEW g \in Handlers
        PROVE  HandlerOK(g)'
    <3>1. CASE g = h
      BY <1>1, <3>1, HandlerStepOK
    <3>2. CASE g # h
      <4>1. pc'[g] = pc[g] /\ req'[g] = req[g] /\ topic'[g] = topic[g]
        BY <1>1, <3>2, HandlerFrame
      <4>2. HandlerOK(g)
        BY DEF HandlerInv
      <4> QED
        BY <4>1, <4>2 DEF HandlerOK, Authorized
    <3> QED
      BY <3>1, <3>2
  <2> QED
    BY <2>1 DEF HandlerInv
<1>2. CASE OtherMoves
  <2>1. UNCHANGED <<pc, req, topic>>
    BY <1>2 DEF OtherMoves, RelayUnsubscribe, RelayUnsubscribeErr, PostWelcomeNotification,
                ExpireWatcher, DeleteExpiredWatchers, handlerVars, vars
  <2> QED
    BY <2>1 DEF HandlerInv, HandlerOK, Authorized
<1>3. CASE Crash
  BY <1>3 DEF Crash, HandlerInv, HandlerOK
<1> QED
  BY <1>1, <1>2, <1>3, StepCases

\* A change of the subscriber table.
Writes(h) == UpsertSubscriber(h) \/ UpdateSubscriber(h) \/ DeleteSubscriber(h)

\* Nothing else changes the table, spawns an unsubscribe task, or makes a handler
\* turn to another row than that of the request it is given.
LEMMA ReadsOnly ==
    ASSUME TypeOK, HandlerInv, Step, ~\E h \in Handlers : Writes(h)
    PROVE  /\ version' = version /\ subs' = subs /\ unsub' \subseteq unsub
           /\ \A g \in Handlers :
                \/ topic'[g] = NoTopic
                \/ topic'[g] = topic[g] /\ req'[g] = req[g]
                \/ topic'[g] = subs[req'[g].app] /\ req'[g].app \in Apps
<1>1. ASSUME NEW h \in Handlers, HandlerMoves(h)
      PROVE  /\ version' = version /\ subs' = subs /\ unsub' \subseteq unsub
             /\ \/ topic'[h] = NoTopic
                \/ topic'[h] = topic[h] /\ req'[h] = req[h]
                \/ topic'[h] = subs[req'[h].app] /\ req'[h].app \in Apps
  <2> USE DEF dbVars, relayVars
  <2>1. CASE \E c \in Clients : ClientRequest(h, c)
    <3>1. PICK r \in Request, t \in Topics \cup {NoTopic}, next \in PC :
             Begin(h, r, t, next) /\ Opening(r, t, next)
      BY <2>1, Requests
    <3>2. req'[h] = r /\ topic'[h] = t /\ UNCHANGED <<version, subs, unsub>>
      BY <3>1 DEF Begin, TypeOK
    <3> QED
      BY <3>1, <3>2 DEF Opening, Subscribed
  <2>2. CASE GetWelcome(h) \/ InsertWelcome(h) \/ RelaySubscribe(h) \/ Collect(h)
             \/ PrepareWatchers(h) \/ WatchUpsert(h)
             \/ \E m \in due[h] : Send(h, m) \/ PushFails(h, m)
    BY <2>2 DEF GetWelcome, InsertWelcome, RelaySubscribe, Collect, PrepareWatchers,
                WatchUpsert, Send, PushFails
  <2>3. CASE Finish(h) \/ RelaySubscribeErr(h) \/ WatchReply(h) \/ Fail(h)
    BY <2>3, EndEffect DEF Finish, RelaySubscribeErr, WatchReply, Fail
  <2>4. CASE WatchCount(h)
    BY <2>4, EndEffect DEF WatchCount
  <2> QED
    BY <1>1, <2>1, <2>2, <2>3, <2>4 DEF HandlerMoves, HandlerStep, Writes
<1>2. ASSUME NEW h \in Handlers, HandlerMoves(h), NEW g \in Handlers, g # h
      PROVE  topic'[g] = topic[g] /\ req'[g] = req[g]
  BY <1>2, HandlerFrame
<1>3. CASE OtherMoves
  BY <1>3 DEF OtherMoves, RelayUnsubscribe, RelayUnsubscribeErr, PostWelcomeNotification,
              ExpireWatcher, DeleteExpiredWatchers, handlerVars, dbVars, relayVars, vars
<1>4. CASE Crash
  BY <1>4 DEF Crash, dbVars
<1> QED
  BY <1>1, <1>2, <1>3, <1>4, StepCases

\* A topic read or written below is a number up to the bound of changes.
LEMMA TopicNumbers ==
    ASSUME TypeOK
    PROVE  /\ version \in Nat
           /\ \A a \in Apps : subs[a] \in Nat
           /\ \A h \in Handlers : topic[h] \in Nat
           /\ \A t \in unsub : t \in Nat /\ t # NoTopic
<1>1. \A t \in Topics \cup {NoTopic} : t \in Nat
  BY Constants DEF NoTopic
<1>2. version \in Nat
  BY Constants DEF TypeOK
<1>3. \A t \in unsub : t \in Topics
  BY DEF TypeOK
<1> QED
  BY <1>1, <1>2, <1>3, Constants DEF TypeOK

\* upsert_subscriber, update_subscriber and delete_subscriber by h, seen from the
\* table: a row appears with a new topic, or goes.
LEMMA WriteEffect ==
    ASSUME TypeOK, HandlerInv, NEW h \in Handlers, Writes(h)
    PROVE  /\ req[h].app \in Apps /\ req' = req /\ version \in Nat
           /\ \A b \in Apps : b # req[h].app => subs'[b] = subs[b]
           /\ \/ /\ UpsertSubscriber(h) /\ subs[req[h].app] = NoTopic
                 /\ version' = version + 1 /\ subs'[req[h].app] = version + 1
                 /\ topic'[h] = version + 1 /\ unsub' = unsub
              \/ /\ UpsertSubscriber(h) /\ subs[req[h].app] # NoTopic
                 /\ version' = version + 1 /\ subs' = subs
                 /\ topic'[h] = subs[req[h].app] /\ unsub' = unsub
              \/ /\ UpdateSubscriber(h)
                 /\ version' = version + 1 /\ subs' = subs /\ topic' = topic /\ unsub' = unsub
              \/ /\ DeleteSubscriber(h) /\ subs[req[h].app] = topic[h]
                 /\ version' = version + 1 /\ subs'[req[h].app] = NoTopic /\ topic' = topic
                 /\ unsub' = unsub \cup {topic[h]}
              \/ /\ DeleteSubscriber(h) /\ subs[req[h].app] # topic[h]
                 /\ version' = version /\ subs' = subs /\ topic' = topic
                 /\ unsub' = unsub \cup {topic[h]}
<1>1. req[h].app \in Apps
  BY DEF HandlerInv, HandlerOK, Writes, UpsertSubscriber, UpdateSubscriber, DeleteSubscriber
<1>2. version \in Nat
  BY TopicNumbers
<1>3. CASE UpsertSubscriber(h)
  BY <1>1, <1>2, <1>3
     DEF UpsertSubscriber, Commit, ReturnedTopic, NewTopic, relayVars, TypeOK
<1>4. CASE UpdateSubscriber(h)
  BY <1>1, <1>2, <1>4 DEF UpdateSubscriber, Commit, relayVars
<1>5. CASE DeleteSubscriber(h)
  BY <1>1, <1>2, <1>5 DEF DeleteSubscriber, Commit, relayVars, TypeOK
<1> QED
  BY <1>3, <1>4, <1>5 DEF Writes

\* A write is a step of its handler.
LEMMA WritesMove ==
    ASSUME NEW h \in Handlers, Writes(h)
    PROVE  HandlerMoves(h)
BY DEF Writes, HandlerMoves, HandlerStep

\* A topic stays that of one app, and older than the rows to come.
LEMMA RowsStep ==
    ASSUME TypeOK, HandlerInv, RowsInv, Step
    PROVE  RowsInv'
<1>0. /\ version \in Nat /\ \A a \in Apps : subs[a] \in Nat
      /\ \A h \in Handlers : topic[h] \in Nat
      /\ \A t \in unsub : t \in Nat
  BY TopicNumbers
<1>1. CASE ~\E h \in Handlers : Writes(h)
  <2>1. /\ version' = version /\ subs' = subs /\ unsub' \subseteq unsub
    BY <1>1, ReadsOnly
  <2>2. ASSUME NEW g \in Handlers
        PROVE  /\ topic'[g] <= version'
               /\ topic'[g] # NoTopic => \A a \in Apps : subs'[a] = topic'[g] => a = req'[g].app
    <3>1. CASE topic'[g] = NoTopic
      BY <1>0, <2>1, <3>1 DEF NoTopic
    <3>2. CASE topic'[g] = topic[g] /\ req'[g] = req[g]
      BY <2>1, <3>2 DEF RowsInv
    <3>3. CASE topic'[g] = subs[req'[g].app] /\ req'[g].app \in Apps
      BY <2>1, <3>3 DEF RowsInv
    <3> QED
      BY <1>1, <3>1, <3>2, <3>3, ReadsOnly
  <2> QED
    BY <2>1, <2>2 DEF RowsInv
<1>2. ASSUME NEW h \in Handlers, Writes(h)
      PROVE  RowsInv'
  <2> DEFINE a == req[h].app
  <2>1. /\ a \in Apps /\ req' = req /\ \A b \in Apps : b # a => subs'[b] = subs[b]
    BY <1>2, WriteEffect
  <2>2. \A g \in Handlers : g # h => topic'[g] = topic[g]
    BY <1>2, WritesMove, HandlerFrame
  <2>3. CASE /\ subs[a] = NoTopic /\ version' = version + 1 /\ subs'[a] = version + 1
             /\ topic'[h] = version + 1 /\ unsub' = unsub
    <3>1. \A b \in Apps : subs'[b] <= version'
      BY <1>0, <2>1, <2>3 DEF RowsInv
    <3>2. \A b, d \in Apps : subs'[b] = subs'[d] /\ b # d => subs'[b] = NoTopic
      BY <1>0, <2>1, <2>3 DEF RowsInv
    <3>3. ASSUME NEW g \in Handlers
          PROVE  /\ topic'[g] <= version'
                 /\ topic'[g] # NoTopic => \A b \in Apps : subs'[b] = topic'[g] => b = req'[g].app
      <4>1. CASE g = h
        BY <1>0, <2>1, <2>3, <4>1 DEF RowsInv
      <4>2. CASE g # h
        BY <1>0, <2>1, <2>2, <2>3, <4>2 DEF RowsInv
      <4> QED
        BY <4>1, <4>2
    <3>4. \A t \in unsub' : t <= version'
      BY <1>0, <2>3 DEF RowsInv
    <3> QED
      BY <3>1, <3>2, <3>3, <3>4 DEF RowsInv
  <2>4. CASE /\ subs[a] # NoTopic /\ version' = version + 1 /\ subs' = subs
             /\ topic'[h] = subs[a] /\ unsub' = unsub
    <3>1. \A g \in Handlers :
            /\ topic'[g] <= version'
            /\ topic'[g] # NoTopic => \A b \in Apps : subs'[b] = topic'[g] => b = req'[g].app
      BY <1>0, <2>1, <2>2, <2>4 DEF RowsInv
    <3>2. (\A b \in Apps : subs'[b] <= version') /\ (\A t \in unsub' : t <= version')
      BY <1>0, <2>4 DEF RowsInv
    <3> QED
      BY <2>4, <3>1, <3>2 DEF RowsInv
  <2>5. CASE version' = version + 1 /\ subs' = subs /\ topic' = topic /\ unsub' = unsub
    BY <1>0, <2>1, <2>5 DEF RowsInv
  <2>6. CASE /\ version' = version + 1 /\ subs'[a] = NoTopic /\ topic' = topic
             /\ unsub' = unsub \cup {topic[h]}
    <3>1. \A b \in Apps : subs'[b] <= version'
      BY <1>0, <2>1, <2>6 DEF RowsInv, NoTopic
    <3>2. \A b, d \in Apps : subs'[b] = subs'[d] /\ b # d => subs'[b] = NoTopic
      BY <1>0, <2>1, <2>6 DEF RowsInv
    <3>3. \A g \in Handlers :
            /\ topic'[g] <= version'
            /\ topic'[g] # NoTopic => \A b \in Apps : subs'[b] = topic'[g] => b = req'[g].app
      BY <1>0, <2>1, <2>6 DEF RowsInv
    <3>4. \A t \in unsub' : t <= version'
      BY <1>0, <2>6 DEF RowsInv
    <3> QED
      BY <3>1, <3>2, <3>3, <3>4 DEF RowsInv
  <2>7. CASE /\ version' = version /\ subs' = subs /\ topic' = topic
             /\ unsub' = unsub \cup {topic[h]}
    BY <1>0, <2>1, <2>7 DEF RowsInv
  <2> HIDE DEF a
  <2> QED
    BY <1>2, <2>3, <2>4, <2>5, <2>6, <2>7, WriteEffect DEF a
<1> QED
  BY <1>1, <1>2

-----------------------------------------------------------------------------
(* The relay.                                                              *)

\* No unsubscribe task has the topic of a row: delete_subscriber deletes the row
\* before the task is spawned, and no later row has its topic.
LEMMA UnsubStep ==
    ASSUME TypeOK, HandlerInv, RowsInv, unsub \cap LiveTopics = {}, Step
    PROVE  unsub' \cap LiveTopics' = {}
<1>0. /\ version \in Nat /\ \A t \in unsub : t \in Nat /\ t # NoTopic
      /\ \A b \in Apps : subs[b] \notin unsub
  <2>1. /\ version \in Nat /\ \A t \in unsub : t \in Nat /\ t # NoTopic
    BY TopicNumbers
  <2> QED
    BY <2>1 DEF LiveTopics, Subscribed
<1>1. \A b \in Apps : subs'[b] # NoTopic => subs'[b] \notin unsub'
  <2>1. CASE ~\E h \in Handlers : Writes(h)
    BY <1>0, <2>1, ReadsOnly
  <2>2. ASSUME NEW h \in Handlers, Writes(h)
        PROVE  \A b \in Apps : subs'[b] # NoTopic => subs'[b] \notin unsub'
    <3> DEFINE a == req[h].app
    <3>1. /\ a \in Apps /\ \A b \in Apps : b # a => subs'[b] = subs[b]
      BY <2>2, WriteEffect
    <3>2. CASE subs'[a] = version + 1 /\ unsub' = unsub
      BY <1>0, <3>1, <3>2 DEF RowsInv
    <3>3. CASE subs' = subs /\ unsub' = unsub
      BY <1>0, <3>1, <3>3
    <3>4. CASE DeleteSubscriber(h) /\ unsub' = unsub \cup {topic[h]}
      <4>1. topic[h] # NoTopic
        BY <3>4 DEF DeleteSubscriber, HandlerInv, HandlerOK
      <4>2. \A b \in Apps : subs[b] = topic[h] => b = a
        BY <4>1 DEF RowsInv
      <4>3. subs'[a] # NoTopic => subs'[a] = subs[a] /\ subs[a] # topic[h]
        BY <2>2, <3>4, WriteEffect
           DEF DeleteSubscriber, UpsertSubscriber, UpdateSubscriber
      <4> QED
        BY <1>0, <3>1, <3>4, <4>2, <4>3
    <3> HIDE DEF a
    <3> QED
      BY <2>2, <3>2, <3>3, <3>4, WriteEffect DEF a
  <2> QED
    BY <2>1, <2>2
<1> QED
  BY <1>1 DEF LiveTopics, Subscribed

\* Only the row that upsert_subscriber inserts has a topic not seen before.
LEMMA LiveTopicsStep ==
    ASSUME TypeOK, HandlerInv, Step, NEW t \in LiveTopics', t <= version
    PROVE  t \in LiveTopics
<1>1. PICK b \in Apps : subs'[b] = t /\ subs'[b] # NoTopic
  BY DEF LiveTopics, Subscribed
<1>2. subs'[b] = subs[b]
  <2>1. CASE ~\E h \in Handlers : Writes(h)
    BY <2>1, ReadsOnly
  <2>2. ASSUME NEW h \in Handlers, Writes(h)
        PROVE  subs'[b] = subs[b]
    <3>1. version \in Nat
      BY TopicNumbers
    <3>2. subs'[b] # version + 1
      BY <1>1, <3>1
    <3> QED
      BY <1>1, <2>2, <3>2, WriteEffect
  <2> QED
    BY <2>1, <2>2
<1> QED
  BY <1>1, <1>2 DEF LiveTopics, Subscribed

\* A subscribe that has come to its answer has passed subscribe_relay_topic with
\* the topic of its row.
LEMMA ListeningHandler ==
    ASSUME TypeOK, HandlerInv, Step, NEW g \in Handlers,
           pc'[g] \in {"collect", "watchers", "send"}, req'[g].op = "subscribe"
    PROVE  /\ topic'[g] = topic[g]
           /\ \/ topic[g] \in relaySubs'
              \/ pc[g] \in {"collect", "watchers", "send"} /\ req[g].op = "subscribe"
<1>0. HandlerOK(g)
  BY DEF HandlerInv
<1>1. ASSUME NEW h \in Handlers, HandlerMoves(h), h # g
      PROVE  /\ topic'[g] = topic[g]
             /\ pc[g] \in {"collect", "watchers", "send"} /\ req[g].op = "subscribe"
  BY <1>1, HandlerFrame
<1>2. CASE HandlerMoves(g)
  <2>1. ~\E c \in Clients : ClientRequest(g, c)
    <3> SUFFICES ASSUME NEW c \in Clients, ClientRequest(g, c) PROVE FALSE
      OBVIOUS
    <3>1. PICK r \in Request, t \in Topics \cup {NoTopic}, next \in PC :
             Begin(g, r, t, next) /\ Opening(r, t, next)
      BY Requests
    <3>2. pc'[g] = next /\ req'[g] = r
      BY <3>1 DEF Begin, TypeOK
    <3> QED
      BY <3>1, <3>2 DEF Opening
  <2>2. ~EndHandler(g)
    BY EndEffect
  <2>3. CASE RelaySubscribe(g)
    BY <2>3 DEF RelaySubscribe
  <2>4. CASE UpsertSubscriber(g) \/ GetWelcome(g) \/ InsertWelcome(g)
    BY <2>4 DEF UpsertSubscriber, GetWelcome, InsertWelcome, TypeOK
  <2>5. CASE UpdateSubscriber(g) \/ DeleteSubscriber(g)
    BY <1>0, <2>5 DEF UpdateSubscriber, DeleteSubscriber, HandlerOK
  <2>6. CASE Collect(g)
    BY <1>0, <2>6 DEF Collect, HandlerOK, TypeOK
  <2>7. CASE PrepareWatchers(g) \/ \E m \in due[g] : Send(g, m) \/ PushFails(g, m)
    BY <2>7 DEF PrepareWatchers, Send, PushFails
  <2>8. CASE WatchCount(g) \/ WatchUpsert(g)
    BY <2>2, <2>8 DEF WatchCount, WatchUpsert, TypeOK
  <2> QED
    BY <1>2, <2>1, <2>2, <2>3, <2>4, <2>5, <2>6, <2>7, <2>8
       DEF HandlerMoves, HandlerStep, Finish, RelaySubscribeErr, WatchReply, Fail
<1>3. CASE OtherMoves
  BY <1>3 DEF OtherMoves, RelayUnsubscribe, RelayUnsubscribeErr, PostWelcomeNotification,
              ExpireWatcher, DeleteExpiredWatchers, handlerVars, vars
<1>4. CASE Crash
  BY <1>4 DEF Crash
<1> QED
  BY <1>1, <1>2, <1>3, <1>4, StepCases

\* Only an unsubscribe task ends the subscription of a topic.
LEMMA RelaySubsStep ==
    ASSUME Step, NEW t \in relaySubs, t \notin unsub
    PROVE  t \in relaySubs'
<1> USE DEF relayVars
<1>1. ASSUME NEW h \in Handlers, HandlerMoves(h)
      PROVE  relaySubs \subseteq relaySubs'
  BY <1>1 DEF HandlerMoves, HandlerStep, ClientRequest, Subscribe, Update, Delete, Watch, Begin,
              UpsertSubscriber, GetWelcome, InsertWelcome, RelaySubscribe, RelaySubscribeErr,
              UpdateSubscriber, DeleteSubscriber, Collect, PrepareWatchers, Send, PushFails,
              Finish, WatchCount, WatchUpsert, WatchReply, Fail
<1>2. CASE OtherMoves
  BY <1>2 DEF OtherMoves, RelayUnsubscribe, RelayUnsubscribeErr, PostWelcomeNotification,
              ExpireWatcher, DeleteExpiredWatchers, vars
<1>3. CASE Crash
  BY <1>3 DEF Crash
<1> QED
  BY <1>1, <1>2, <1>3, StepCases

\* Every step keeps live topics subscribed at the relay.
LEMMA RelayStep ==
    ASSUME TypeOK, HandlerInv, RowsInv, LiveTopicKept, Step
    PROVE  LiveTopicKept'
<1>1. unsub' \cap LiveTopics' = {}
  BY UnsubStep DEF LiveTopicKept
<1>2. ASSUME NEW g \in Handlers, pc'[g] \in {"collect", "watchers", "send"},
             req'[g].op = "subscribe", topic'[g] \in LiveTopics'
      PROVE  topic'[g] \in relaySubs'
  <2>1. topic'[g] = topic[g]
    BY <1>2, ListeningHandler
  <2>2. CASE topic[g] \in relaySubs'
    BY <2>1, <2>2
  <2>3. CASE pc[g] \in {"collect", "watchers", "send"} /\ req[g].op = "subscribe"
    <3>1. topic[g] \in LiveTopics
      BY <1>2, <2>1, LiveTopicsStep DEF RowsInv
    <3>2. topic[g] \in relaySubs /\ topic[g] \notin unsub
      BY <2>3, <3>1 DEF LiveTopicKept
    <3> QED
      BY <2>1, <3>2, RelaySubsStep
  <2> QED
    BY <1>2, <2>2, <2>3, ListeningHandler
<1> QED
  BY <1>1, <1>2 DEF LiveTopicKept

-----------------------------------------------------------------------------
(* Welcome notifications.                                                  *)

\* Between the insertion of a row and its welcome notification.
Welcoming(h) == pc[h] \in {"getWelcome", "welcome"}

\* Only the insertion of a row brings a handler to its welcome notification.
LEMMA WelcomingStep ==
    ASSUME TypeOK, HandlerInv, Step, NEW g \in Handlers, Welcoming(g)'
    PROVE  \/ Welcoming(g) /\ topic'[g] = topic[g] /\ ~InsertWelcome(g)
           \/ /\ UpsertSubscriber(g) /\ topic'[g] = version + 1
              /\ version' = version + 1 /\ version < MaxChanges
<1>1. ASSUME NEW h \in Handlers, HandlerMoves(h), h # g
      PROVE  pc'[g] = pc[g] /\ topic'[g] = topic[g]
  BY <1>1, HandlerFrame
<1>2. CASE InsertWelcome(g)
  BY <1>2 DEF InsertWelcome, Welcoming, TypeOK
<1>3. CASE HandlerMoves(g) /\ ~InsertWelcome(g)
  <2>1. ~\E c \in Clients : ClientRequest(g, c)
    <3> SUFFICES ASSUME NEW c \in Clients, ClientRequest(g, c) PROVE FALSE
      OBVIOUS
    <3>1. PICK r \in Request, t \in Topics \cup {NoTopic}, next \in PC :
             Begin(g, r, t, next) /\ Opening(r, t, next)
      BY Requests
    <3>2. pc'[g] = next
      BY <3>1 DEF Begin, TypeOK
    <3> QED
      BY <3>1, <3>2 DEF Opening, Welcoming
  <2>2. ~EndHandler(g)
    BY EndEffect DEF Welcoming
  <2>3. CASE UpsertSubscriber(g)
    <3>1. pc'[g] = (IF subs[req[g].app] = NoTopic THEN "getWelcome" ELSE "relay")
      BY <2>3 DEF UpsertSubscriber, Inserted, TypeOK
    <3>2. topic'[g] = version + 1
      BY <2>3, <3>1 DEF UpsertSubscriber, Welcoming, TypeOK, ReturnedTopic, NewTopic
    <3> QED
      BY <2>3, <3>2 DEF UpsertSubscriber, Commit
  <2>4. CASE GetWelcome(g)
    BY <1>3, <2>4 DEF GetWelcome, Welcoming
  <2>5. CASE RelaySubscribe(g) \/ UpdateSubscriber(g) \/ DeleteSubscriber(g) \/ Collect(g)
             \/ PrepareWatchers(g) \/ WatchUpsert(g)
    BY <2>5 DEF RelaySubscribe, UpdateSubscriber, DeleteSubscriber, Collect, PrepareWatchers,
                WatchUpsert, Welcoming, TypeOK
  <2>6. CASE (\E m \in due[g] : Send(g, m) \/ PushFails(g, m)) \/ WatchCount(g)
    BY <2>2, <2>6 DEF Send, PushFails, WatchCount, Welcoming, TypeOK
  <2> QED
    BY <1>3, <2>1, <2>2, <2>3, <2>4, <2>5, <2>6
       DEF HandlerMoves, HandlerStep, Finish, RelaySubscribeErr, WatchReply, Fail
<1>4. CASE ~\E h \in Handlers : HandlerMoves(h)
  <2>1. ~InsertWelcome(g)
    BY <1>4 DEF HandlerMoves, HandlerStep
  <2>2. CASE OtherMoves
    BY <2>1, <2>2 DEF OtherMoves, RelayUnsubscribe, RelayUnsubscribeErr,
         PostWelcomeNotification, ExpireWatcher, DeleteExpiredWatchers, handlerVars, vars, Welcoming
  <2>3. CASE Crash
    BY <2>3 DEF Crash, Welcoming
  <2> QED
    BY <1>4, <2>2, <2>3, StepCases
<1>5. ASSUME NEW h \in Handlers, HandlerMoves(h), h # g
      PROVE  ~InsertWelcome(g)
  BY <1>1, <1>5 DEF InsertWelcome, TypeOK
<1> QED
  BY <1>1, <1>2, <1>3, <1>4, <1>5 DEF Welcoming

\* upsert_subscriber_notifications by h is the only change of what is queued.
LEMMA WelcomesStep ==
    ASSUME TypeOK, Step
    PROVE  \/ welcomes' = welcomes
           \/ \E h \in Handlers :
                /\ InsertWelcome(h) /\ topic[h] \in Topics
                /\ welcomes' = [welcomes EXCEPT ![topic[h]] = @ + 1]
<1>1. ASSUME NEW h \in Handlers, HandlerMoves(h)
      PROVE  welcomes' = welcomes \/ InsertWelcome(h)
  BY <1>1 DEF HandlerMoves, HandlerStep, ClientRequest, Subscribe, Update, Delete, Watch, Begin,
              UpsertSubscriber, GetWelcome, InsertWelcome, RelaySubscribe, RelaySubscribeErr,
              UpdateSubscriber, DeleteSubscriber, Collect, PrepareWatchers, Send, PushFails,
              Finish, WatchCount, WatchUpsert, WatchReply, Fail, welcomeVars
<1>2. ASSUME NEW h \in Handlers, InsertWelcome(h)
      PROVE  topic[h] \in Topics /\ welcomes' = [welcomes EXCEPT ![topic[h]] = @ + 1]
  BY <1>2 DEF InsertWelcome, LiveTopics, Subscribed, TypeOK
<1>3. CASE OtherMoves \/ Crash
  BY <1>3 DEF OtherMoves, RelayUnsubscribe, RelayUnsubscribeErr, PostWelcomeNotification,
              ExpireWatcher, DeleteExpiredWatchers, vars, welcomeVars, Crash
<1> QED
  BY <1>1, <1>2, <1>3, StepCases

\* The number of a change only grows.
LEMMA VersionStep ==
    ASSUME TypeOK, HandlerInv, Step
    PROVE  version \in Nat /\ version' \in Nat /\ version <= version'
<1>1. version \in Nat
  BY TopicNumbers
<1>2. CASE ~\E h \in Handlers : Writes(h)
  BY <1>1, <1>2, ReadsOnly
<1>3. ASSUME NEW h \in Handlers, Writes(h)
      PROVE  version' \in Nat /\ version <= version'
  <2>1. version' = version + 1 \/ version' = version
    BY <1>3, WriteEffect
  <2> QED
    BY <1>1, <2>1
<1> QED
  BY <1>1, <1>2, <1>3

\* A row still has one handler that inserted it and nothing queued before.
LEMMA WelcomeInvStep ==
    ASSUME TypeOK, HandlerInv, RowsInv, WelcomeInv, Step
    PROVE  WelcomeInv'
<1>0. /\ version \in Nat /\ version' \in Nat /\ version <= version'
      /\ \A h \in Handlers : topic[h] \in Nat /\ topic[h] <= version
  BY VersionStep, TopicNumbers DEF RowsInv
<1>1. ASSUME NEW t \in Topics, t > version'
      PROVE  welcomes'[t] = 0
  <2>1. t \in Nat /\ t > version
    BY <1>0, <1>1, Constants
  <2>2. welcomes[t] = 0
    BY <2>1 DEF WelcomeInv
  <2>3. \A h \in Handlers : topic[h] # t
    BY <1>0, <2>1
  <2> QED
    BY <2>2, <2>3, WelcomesStep DEF TypeOK
<1>2. ASSUME NEW h \in Handlers, Welcoming(h)'
      PROVE  welcomes'[topic'[h]] = 0
  <2>1. CASE Welcoming(h) /\ topic'[h] = topic[h] /\ ~InsertWelcome(h)
    <3>1. welcomes[topic[h]] = 0
      BY <2>1 DEF WelcomeInv, Welcoming
    <3>2. \A g \in Handlers : InsertWelcome(g) => topic[g] # topic[h]
      BY <2>1 DEF WelcomeInv, Welcoming, InsertWelcome
    <3>3. topic[h] \in Topics
      BY <2>1 DEF Welcoming, HandlerInv, HandlerOK, TypeOK
    <3> QED
      BY <2>1, <3>1, <3>2, <3>3, WelcomesStep DEF TypeOK
  <2>2. CASE topic'[h] = version + 1 /\ version < MaxChanges
    <3>1. version + 1 \in Topics /\ version + 1 > version
      BY <1>0, <2>2, Constants DEF Topics
    <3>2. welcomes[version + 1] = 0
      BY <3>1 DEF WelcomeInv
    <3>3. \A g \in Handlers : topic[g] # version + 1
      BY <1>0
    <3> QED
      BY <2>2, <3>1, <3>2, <3>3, WelcomesStep DEF TypeOK
  <2> QED
    BY <1>2, <2>1, <2>2, WelcomingStep
<1>3. ASSUME NEW h \in Handlers, NEW g \in Handlers, Welcoming(h)', Welcoming(g)',
             topic'[g] = topic'[h]
      PROVE  g = h
  <2>1. CASE Welcoming(h) /\ topic'[h] = topic[h] /\ Welcoming(g) /\ topic'[g] = topic[g]
    BY <1>3, <2>1 DEF WelcomeInv, Welcoming
  <2>2. CASE UpsertSubscriber(h) /\ UpsertSubscriber(g)
    <3> SUFFICES ASSUME g # h PROVE FALSE
      OBVIOUS
    <3>1. pc'[g] = pc[g]
      BY <2>2, HandlerFrame DEF HandlerMoves, HandlerStep
    <3> QED
      BY <1>3, <2>2, <3>1 DEF UpsertSubscriber, Welcoming
  <2>3. CASE topic'[h] = topic[h] /\ topic'[g] = version + 1
    <3>1. topic[h] = version + 1
      BY <1>3, <2>3
    <3> QED
      BY <1>0, <3>1
  <2>4. CASE topic'[g] = topic[g] /\ topic'[h] = version + 1
    <3>1. topic[g] = version + 1
      BY <1>3, <2>4
    <3> QED
      BY <1>0, <3>1
  <2> QED
    BY <1>3, <2>1, <2>2, <2>3, <2>4, WelcomingStep
<1> QED
  BY <1>1, <1>2, <1>3 DEF WelcomeInv, Welcoming

\* A handler that leaves its welcome notification has queued it, found none
\* enabled in the scope, or failed.
LEMMA WelcomeLeft ==
    ASSUME TypeOK, HandlerInv, Step, NEW h \in Handlers, pc[h] = "welcome"
    PROVE  \/ pc'[h] = "welcome" /\ topic'[h] = topic[h]
           \/ InsertWelcome(h)
           \/ topic[h] \in excused'
<1>1. ASSUME NEW g \in Handlers, HandlerMoves(g), g # h
      PROVE  pc'[h] = "welcome" /\ topic'[h] = topic[h]
  BY <1>1, HandlerFrame
<1>2. CASE HandlerMoves(h)
  <2>1. InsertWelcome(h) \/ Fail(h)
    BY <1>2 DEF HandlerMoves, HandlerStep, ClientRequest, Subscribe, Update, Delete, Watch, Begin,
              UpsertSubscriber, GetWelcome, RelaySubscribe, RelaySubscribeErr,
              UpdateSubscriber, DeleteSubscriber, Collect, PrepareWatchers, Send, PushFails,
              Finish, WatchCount, WatchUpsert, WatchReply
  <2> QED
    BY <2>1 DEF Fail, Unwelcomed
<1>3. CASE OtherMoves
  BY <1>3 DEF OtherMoves, RelayUnsubscribe, RelayUnsubscribeErr, PostWelcomeNotification,
              ExpireWatcher, DeleteExpiredWatchers, handlerVars, vars
<1>4. CASE Crash
  BY <1>4 DEF Crash, Unwelcomed
<1> QED
  BY <1>1, <1>2, <1>3, <1>4, StepCases

\* get_welcome_notification owes a row its notification and turns to it; what was
\* excused stays excused.
LEMMA OwedStep ==
    ASSUME TypeOK, Step
    PROVE  /\ excused \subseteq excused'
           /\ \A t \in owed' \ owed :
                \E h \in Handlers : pc'[h] = "welcome" /\ topic'[h] = t
<1> USE DEF welcomeVars
<1>1. ASSUME NEW h \in Handlers, HandlerMoves(h)
      PROVE  excused \subseteq excused' /\ (owed' = owed \/ GetWelcome(h))
  BY <1>1 DEF HandlerMoves, HandlerStep, ClientRequest, Subscribe, Update, Delete, Watch, Begin,
              UpsertSubscriber, GetWelcome, InsertWelcome, RelaySubscribe, RelaySubscribeErr,
              UpdateSubscriber, DeleteSubscriber, Collect, PrepareWatchers, Send, PushFails,
              Finish, WatchCount, WatchUpsert, WatchReply, Fail
<1>2. ASSUME NEW h \in Handlers, GetWelcome(h), NEW t \in owed' \ owed
      PROVE  pc'[h] = "welcome" /\ topic'[h] = t
  BY <1>2 DEF GetWelcome, TypeOK
<1>3. CASE OtherMoves \/ Crash
  BY <1>3 DEF OtherMoves, RelayUnsubscribe, RelayUnsubscribeErr, PostWelcomeNotification,
              ExpireWatcher, DeleteExpiredWatchers, vars, Crash
<1> QED
  BY <1>1, <1>2, <1>3, StepCases

\* Every step keeps the welcome notification queued once, or still to come.
LEMMA WelcomeStep ==
    ASSUME TypeOK, HandlerInv, RowsInv, WelcomeInv, WelcomeOnce, Step
    PROVE  WelcomeOnce'
<1>0. \A h \in Handlers : InsertWelcome(h) => welcomes[topic[h]] = 0
  BY DEF WelcomeInv, InsertWelcome
<1>1. \A t \in Topics : welcomes'[t] \in {0, 1}
  <2>1. \A t \in Topics : welcomes[t] \in {0, 1}
    BY DEF WelcomeOnce, TypeOK
  <2>2. ASSUME NEW h \in Handlers, welcomes' = [welcomes EXCEPT ![topic[h]] = @ + 1],
               topic[h] \in Topics, welcomes[topic[h]] = 0
        PROVE  \A t \in Topics : welcomes'[t] \in {0, 1}
    <3>1. welcomes' = [welcomes EXCEPT ![topic[h]] = 1]
      BY <2>2
    <3> QED
      BY <2>1, <3>1, <2>2 DEF TypeOK
  <2> QED
    BY <1>0, <2>1, <2>2, WelcomesStep
<1>2. ASSUME NEW t \in Topics, welcomes[t] = 1
      PROVE  welcomes'[t] = 1
  <2>1. CASE welcomes' = welcomes
    BY <1>2, <2>1
  <2>2. ASSUME NEW h \in Handlers, InsertWelcome(h), topic[h] \in Topics,
               welcomes' = [welcomes EXCEPT ![topic[h]] = @ + 1]
        PROVE  welcomes'[t] = 1
    BY <1>0, <1>2, <2>2 DEF TypeOK
  <2> QED
    BY <2>1, <2>2, WelcomesStep
<1>3. ASSUME NEW t \in Topics, NEW h \in Handlers, InsertWelcome(h), topic[h] = t
      PROVE  welcomes'[t] = 1
  <2>1. welcomes' = [welcomes EXCEPT ![t] = welcomes[t] + 1] /\ welcomes[t] = 0
    BY <1>0, <1>3 DEF InsertWelcome
  <2>2. welcomes' = [welcomes EXCEPT ![t] = 1]
    BY <2>1
  <2> QED
    BY <2>2 DEF TypeOK
<1>4. ASSUME NEW t \in Topics, t \in owed' \ excused'
      PROVE  welcomes'[t] = 1 \/ \E h \in Handlers : pc'[h] = "welcome" /\ topic'[h] = t
  <2>1. CASE t \notin owed
    BY <1>4, <2>1, OwedStep
  <2>2. CASE t \in owed
    <3>1. t \in owed \ excused
      BY <1>4, <2>2, OwedStep
    <3>2. CASE welcomes[t] = 1
      BY <1>2, <3>2
    <3>3. ASSUME NEW h \in Handlers, pc[h] = "welcome", topic[h] = t
          PROVE  welcomes'[t] = 1 \/ (pc'[h] = "welcome" /\ topic'[h] = t)
      <4>1. CASE InsertWelcome(h)
        BY <1>3, <3>3, <4>1
      <4>2. CASE pc'[h] = "welcome" /\ topic'[h] = topic[h]
        BY <3>3, <4>2
      <4>3. topic[h] \notin excused'
        BY <1>4, <3>3
      <4> QED
        BY <3>3, <4>1, <4>2, <4>3, WelcomeLeft
    <3> QED
      BY <3>1, <3>2, <3>3 DEF WelcomeOnce
  <2> QED
    BY <2>1, <2>2
<1>5. \A t \in Topics : welcomes'[t] <= 1
  BY <1>1
<1> QED
  BY <1>4, <1>5 DEF WelcomeOnce

-----------------------------------------------------------------------------
(* Limited identities.                                                     *)

\* What is shown of a snapshot to a limited client is its app's: a watcher's app
\* is its own, and prepare_subscription_watchers asks for no other app's watchers.
LEMMA VisibleToLimited ==
    ASSUME NEW h \in Handlers, NEW c \in Clients, NEW w,
           LimitedTo[c] # AllApps, Authorized(c, w), w \in {req[h].app, AllApps}
    PROVE  Visible(h, w) \subseteq {LimitedTo[c]}
BY DEF Authorized, Visible

\* What prepare_subscription_watchers prepares for a limited client is its app's.
LEMMA PreparedForLimited ==
    ASSUME TypeOK, HandlerInv, AuthorizationInv, NEW h \in Handlers, PrepareWatchers(h),
           NEW m \in due'[h], LimitedTo[m.to] # AllApps
    PROVE  m.apps \subseteq {LimitedTo[m.to]}
<1>1. req[h].client \in Clients /\ Authorized(req[h].client, req[h].app)
  BY Constants DEF PrepareWatchers, HandlerInv, HandlerOK
<1>2. \A c \in WatchersOf(req[h].app) :
         /\ c \in Clients /\ Authorized(c, watchers[c].app)
         /\ watchers[c].app \in {req[h].app, AllApps}
  BY DEF WatchersOf, AuthorizationInv
<1>3. CASE \E c \in WatchersOf(req[h].app) :
             m = [kind |-> "push", to |-> c, apps |-> Visible(h, watchers[c].app)]
  <2>1. PICK c \in WatchersOf(req[h].app) : m.to = c /\ m.apps = Visible(h, watchers[c].app)
    BY <1>3
  <2> QED
    BY <1>2, <2>1, VisibleToLimited
<1>4. CASE m = [kind |-> "answer", to |-> req[h].client, apps |-> Visible(h, SourceWatch(h))]
  <2>1. m.to = req[h].client /\ m.apps = Visible(h, SourceWatch(h))
    BY <1>4
  <2>2. Authorized(req[h].client, SourceWatch(h)) /\ SourceWatch(h) \in {req[h].app, AllApps}
    BY <1>1, <1>2 DEF SourceWatch
  <2> QED
    BY <1>1, <2>1, <2>2, VisibleToLimited
<1>5. due'[h] = {[kind |-> "push", to |-> c, apps |-> Visible(h, watchers[c].app)] :
                     c \in {d \in WatchersOf(req[h].app) : d # req[h].client \/ req[h].mjv0}}
                 \cup {[kind |-> "answer", to |-> req[h].client,
                        apps |-> Visible(h, SourceWatch(h))]}
  BY DEF PrepareWatchers, TypeOK
<1> QED
  BY <1>3, <1>4, <1>5

\* The snapshot of a limited client's watch, and every prepared message, stay of
\* the client's app.
LimitedOK(h) ==
    /\ pc[h] \in {"wCount", "wUpsert", "wReply"} /\ LimitedTo[req[h].client] # AllApps
         => snap[h] \subseteq {LimitedTo[req[h].client]}
    /\ \A m \in due[h] : LimitedTo[m.to] # AllApps => m.apps \subseteq {LimitedTo[m.to]}

\* A step of h keeps what h has read and prepared within its clients' apps.
LEMMA LimitedStep ==
    ASSUME TypeOK, HandlerInv, AuthorizationInv, NEW h \in Handlers, HandlerMoves(h)
    PROVE  LimitedOK(h)'
<1>0. LimitedOK(h) /\ HandlerOK(h)
  BY DEF AuthorizationInv, LimitedOK, HandlerInv
<1>1. CASE \E c \in Clients : ClientRequest(h, c)
  <2>1. PICK r \in Request, t \in Topics \cup {NoTopic}, next \in PC :
           Begin(h, r, t, next) /\ Opening(r, t, next)
    BY <1>1, Requests
  <2>2. pc'[h] = next /\ due'[h] = due[h]
    BY <2>1 DEF Begin, TypeOK
  <2> QED
    BY <1>0, <2>1, <2>2 DEF Opening, LimitedOK
<1>2. CASE EndHandler(h)
  BY <1>2, EndEffect DEF LimitedOK
<1>3. CASE UpsertSubscriber(h) \/ GetWelcome(h) \/ InsertWelcome(h) \/ RelaySubscribe(h)
           \/ UpdateSubscriber(h) \/ DeleteSubscriber(h)
  BY <1>0, <1>3 DEF UpsertSubscriber, GetWelcome, InsertWelcome, RelaySubscribe,
                    UpdateSubscriber, DeleteSubscriber, LimitedOK, TypeOK
<1>4. CASE Collect(h)
  <2>1. due'[h] = due[h] /\ req'[h] = req[h]
    BY <1>4 DEF Collect
  <2>2. CASE req[h].op # "watch"
    <3>1. pc'[h] = "watchers"
      BY <1>4, <2>2 DEF Collect, TypeOK
    <3> QED
      BY <1>0, <2>1, <3>1 DEF LimitedOK
  <2>3. CASE req[h].op = "watch" /\ LimitedTo[req[h].client] # AllApps
    <3>1. req[h].app = LimitedTo[req[h].client]
      BY <1>0, <1>4, <2>3 DEF HandlerOK, Collect, Authorized
    <3>2. snap'[h] = Subscribed \cap {req[h].app}
      BY <1>4, <2>3, <3>1 DEF Collect, TypeOK
    <3> QED
      BY <1>0, <2>1, <3>1, <3>2 DEF LimitedOK
  <2>4. CASE LimitedTo[req[h].client] = AllApps
    BY <1>0, <2>1, <2>4 DEF LimitedOK
  <2> QED
    BY <2>2, <2>3, <2>4
<1>5. CASE PrepareWatchers(h)
  <2>1. pc'[h] = "send"
    BY <1>5 DEF PrepareWatchers, TypeOK
  <2> QED
    BY <1>5, <2>1, PreparedForLimited DEF LimitedOK
<1>6. CASE \E m \in due[h] : Send(h, m) \/ PushFails(h, m)
  <2>1. due'[h] \subseteq due[h] /\ pc'[h] = "send"
    BY <1>6 DEF Send, PushFails, TypeOK
  <2> QED
    BY <1>0, <2>1 DEF LimitedOK
<1>7. CASE (WatchCount(h) /\ ~EndHandler(h)) \/ WatchUpsert(h)
  BY <1>0, <1>7 DEF WatchCount, WatchUpsert, LimitedOK
<1> QED
  BY <1>1, <1>2, <1>3, <1>4, <1>5, <1>6, <1>7
     DEF HandlerMoves, HandlerStep, Finish, RelaySubscribeErr, WatchReply, Fail

\* The watchers change only when one is registered, expires or is deleted.
LEMMA WatchersStep ==
    ASSUME TypeOK, HandlerInv, Step, NEW c \in Clients
    PROVE  \/ watchers'[c] = NoWatcher
           \/ watchers'[c] = watchers[c]
           \/ /\ watchers[c] \in Watcher /\ watchers'[c] \in Watcher
              /\ watchers'[c].app = watchers[c].app /\ watchers'[c].since = watchers[c].since
              /\ watchers'[c].expired
           \/ \E h \in Handlers : /\ WatchUpsert(h) /\ c = req[h].client
                                  /\ watchers'[c] = [app |-> req[h].app, since |-> version,
                                                     expired |-> FALSE]
<1> USE DEF dbVars
<1>1. ASSUME NEW h \in Handlers, HandlerMoves(h)
      PROVE  watchers' = watchers \/ WatchUpsert(h)
  BY <1>1 DEF HandlerMoves, HandlerStep, ClientRequest, Subscribe, Update, Delete, Watch, Begin,
              UpsertSubscriber, GetWelcome, InsertWelcome, RelaySubscribe, RelaySubscribeErr,
              UpdateSubscriber, DeleteSubscriber, Collect, PrepareWatchers, Send, PushFails,
              Finish, WatchCount, WatchReply, Fail
<1>2. ASSUME NEW h \in Handlers, WatchUpsert(h)
      PROVE  \/ watchers'[c] = watchers[c]
             \/ /\ c = req[h].client
                /\ watchers'[c] = [app |-> req[h].app, since |-> version, expired |-> FALSE]
  BY <1>2 DEF WatchUpsert, TypeOK
<1>3. ASSUME NEW d \in Clients, ExpireWatcher(d)
      PROVE  \/ watchers'[c] = watchers[c]
             \/ /\ watchers[c] \in Watcher /\ watchers'[c] \in Watcher
                /\ watchers'[c].app = watchers[c].app /\ watchers'[c].since = watchers[c].since
                /\ watchers'[c].expired
  <2>1. watchers[d] \in Watcher
    BY <1>3 DEF ExpireWatcher, TypeOK
  <2>2. watchers'[c] = IF c = d THEN [watchers[d] EXCEPT !.expired = TRUE] ELSE watchers[c]
    BY <1>3 DEF ExpireWatcher, TypeOK
  <2> QED
    BY <2>1, <2>2 DEF Watcher
<1>4. CASE DeleteExpiredWatchers
  BY <1>4 DEF DeleteExpiredWatchers
<1>5. CASE watchers' = watchers
  BY <1>5
<1> QED
  BY <1>1, <1>2, <1>3, <1>4, <1>5, StepCases
     DEF OtherMoves, Crash, RelayUnsubscribe, RelayUnsubscribeErr, PostWelcomeNotification, vars

\* What is revealed is a message that was due, or the snapshot of a watch.
LEMMA RevealedStep ==
    ASSUME TypeOK, HandlerInv, Step, NEW c \in Clients
    PROVE  \/ revealed'[c] = revealed[c]
           \/ \E h \in Handlers : \E m \in due[h] :
                m.to = c /\ revealed'[c] = revealed[c] \cup m.apps
           \/ \E h \in Handlers : /\ pc[h] = "wReply" /\ req[h].client = c
                                  /\ revealed'[c] = revealed[c] \cup snap[h]
<1> USE DEF outVars
<1>1. ASSUME NEW h \in Handlers, HandlerMoves(h)
      PROVE  revealed' = revealed \/ (\E m \in due[h] : Send(h, m)) \/ WatchReply(h)
  BY <1>1 DEF HandlerMoves, HandlerStep, ClientRequest, Subscribe, Update, Delete, Watch, Begin,
              UpsertSubscriber, GetWelcome, InsertWelcome, RelaySubscribe, RelaySubscribeErr,
              UpdateSubscriber, DeleteSubscriber, Collect, PrepareWatchers, PushFails,
              Finish, WatchCount, WatchUpsert, Fail
<1>2. ASSUME NEW h \in Handlers, NEW m \in due[h], Send(h, m)
      PROVE  revealed'[c] = revealed[c] \/ (m.to = c /\ revealed'[c] = revealed[c] \cup m.apps)
  BY <1>2 DEF Send, Publish, TypeOK
<1>3. ASSUME NEW h \in Handlers, WatchReply(h)
      PROVE  \/ revealed'[c] = revealed[c]
             \/ /\ pc[h] = "wReply" /\ req[h].client = c
                /\ revealed'[c] = revealed[c] \cup snap[h]
  BY <1>3 DEF WatchReply, Publish, TypeOK
<1>4. CASE OtherMoves \/ Crash
  BY <1>4 DEF OtherMoves, RelayUnsubscribe, RelayUnsubscribeErr, PostWelcomeNotification,
              ExpireWatcher, DeleteExpiredWatchers, vars, Crash
<1> QED
  BY <1>1, <1>2, <1>3, <1>4, StepCases

\* Every step keeps limited clients to their app.
LEMMA AuthorizationStep ==
    ASSUME TypeOK, HandlerInv, AuthorizationInv, AuthorizationRespected, Step
    PROVE  AuthorizationInv' /\ AuthorizationRespected'
<1>1. ASSUME NEW c \in Clients, watchers'[c] # NoWatcher
      PROVE  Authorized(c, watchers'[c].app)
  <2>1. CASE watchers'[c] = watchers[c]
    BY <1>1, <2>1 DEF AuthorizationInv
  <2>2. CASE watchers[c] \in Watcher /\ watchers'[c].app = watchers[c].app
    BY <2>2, Constants DEF AuthorizationInv
  <2>3. ASSUME NEW h \in Handlers, WatchUpsert(h), c = req[h].client,
               watchers'[c] = [app |-> req[h].app, since |-> version, expired |-> FALSE]
        PROVE  Authorized(c, watchers'[c].app)
    BY <2>3 DEF WatchUpsert, HandlerInv, HandlerOK
  <2> QED
    BY <1>1, <2>1, <2>2, <2>3, WatchersStep
<1>2. ASSUME NEW g \in Handlers
      PROVE  LimitedOK(g)'
  <2>0. LimitedOK(g)
    BY DEF AuthorizationInv, LimitedOK
  <2>1. CASE HandlerMoves(g)
    BY <2>1, LimitedStep
  <2>2. ASSUME NEW h \in Handlers, HandlerMoves(h), h # g
        PROVE  LimitedOK(g)'
    <3>1. pc'[g] = pc[g] /\ req'[g] = req[g] /\ snap'[g] = snap[g] /\ due'[g] = due[g]
      BY <2>2, HandlerFrame
    <3> QED
      BY <2>0, <3>1 DEF LimitedOK
  <2>3. CASE OtherMoves
    <3>1. UNCHANGED <<pc, req, snap, due>>
      BY <2>3 DEF OtherMoves, RelayUnsubscribe, RelayUnsubscribeErr, PostWelcomeNotification,
                  ExpireWatcher, DeleteExpiredWatchers, handlerVars, vars
    <3> QED
      BY <2>0, <3>1 DEF LimitedOK
  <2>4. CASE Crash
    BY <2>4 DEF Crash, LimitedOK
  <2> QED
    BY <2>1, <2>2, <2>3, <2>4, StepCases
<1>3. ASSUME NEW c \in Clients, LimitedTo[c] # AllApps
      PROVE  revealed'[c] \subseteq {LimitedTo[c]}
  <2>1. revealed[c] \subseteq {LimitedTo[c]}
    BY <1>3 DEF AuthorizationRespected
  <2>2. \A h \in Handlers : \A m \in due[h] : m.to = c => m.apps \subseteq {LimitedTo[c]}
    BY <1>3 DEF AuthorizationInv
  <2>3. \A h \in Handlers : pc[h] = "wReply" /\ req[h].client = c => snap[h] \subseteq {LimitedTo[c]}
    BY <1>3 DEF AuthorizationInv
  <2> QED
    BY <2>1, <2>2, <2>3, RevealedStep
<1> QED
  BY <1>1, <1>2, <1>3 DEF AuthorizationInv, AuthorizationRespected, LimitedOK

-----------------------------------------------------------------------------
(* Watchers.                                                               *)

\* The numbers below are numbers.
LEMMA SnapshotNumbers ==
    ASSUME TypeOK
    PROVE  /\ version \in Nat /\ \A c \in Clients : informed[c] \in Nat
           /\ \A h \in Handlers : commit[h] \in Nat /\ snapAt[h] \in Nat
           /\ \A c \in Clients : watchers[c] # NoWatcher =>
                watchers[c] \in Watcher /\ watchers[c].since \in Nat
<1>1. \A n \in 0..MaxChanges : n \in Nat
  BY Constants
<1>2. \A c \in Clients : watchers[c] # NoWatcher => watchers[c] \in Watcher
  BY DEF TypeOK
<1>3. \A c \in Clients : watchers[c] # NoWatcher => watchers[c].since \in Nat
  BY <1>1, <1>2, Constants
<1>4. /\ version \in Nat /\ \A c \in Clients : informed[c] \in Nat
      /\ \A h \in Handlers : commit[h] \in Nat /\ snapAt[h] \in Nat
  BY <1>1 DEF TypeOK
<1> QED
  BY <1>2, <1>3, <1>4

\* A step of h makes a change, ends, or leaves what h has changed alone.
LEMMA CommitStep ==
    ASSUME TypeOK, NEW h \in Handlers, HandlerMoves(h)
    PROVE  commit'[h] \in {commit[h], version', 0}
<1>1. CASE Writes(h)
  BY <1>1 DEF Writes, UpsertSubscriber, UpdateSubscriber, DeleteSubscriber, Commit, TypeOK
<1>2. CASE EndHandler(h)
  BY <1>2, EndEffect
<1>3. CASE commit' = commit
  BY <1>3
<1> QED
  BY <1>1, <1>2, <1>3
     DEF HandlerMoves, HandlerStep, ClientRequest, Subscribe, Update, Delete, Watch, Begin,
         Writes, GetWelcome, InsertWelcome, RelaySubscribe, RelaySubscribeErr,
         Collect, PrepareWatchers, Send, PushFails, Finish, WatchCount, WatchUpsert,
         WatchReply, Fail

\* A snapshot is read by collect_subscriptions, after the change of its handler,
\* and what is sent of it is prepared by prepare_subscription_watchers.
LEMMA SendingStep ==
    ASSUME TypeOK, HandlerInv, NEW h \in Handlers, HandlerMoves(h),
           pc'[h] \in {"watchers", "send"}
    PROVE  /\ commit'[h] = commit[h] /\ req'[h] = req[h]
           /\ \/ Collect(h) /\ snapAt'[h] = version /\ pc'[h] = "watchers"
              \/ PrepareWatchers(h) /\ snapAt'[h] = snapAt[h] /\ pc[h] = "watchers"
              \/ /\ \E m \in due[h] : Send(h, m) \/ PushFails(h, m)
                 /\ snapAt'[h] = snapAt[h] /\ pc[h] = "send" /\ pc'[h] = "send"
<1>1. ~\E c \in Clients : ClientRequest(h, c)
  <2> SUFFICES ASSUME NEW c \in Clients, ClientRequest(h, c) PROVE FALSE
    OBVIOUS
  <2>1. PICK r \in Request, t \in Topics \cup {NoTopic}, next \in PC :
           Begin(h, r, t, next) /\ Opening(r, t, next)
    BY Requests
  <2>2. pc'[h] = next
    BY <2>1 DEF Begin, TypeOK
  <2> QED
    BY <2>1, <2>2 DEF Opening
<1>2. ~EndHandler(h)
  BY EndEffect
<1>3. CASE UpsertSubscriber(h) \/ GetWelcome(h) \/ InsertWelcome(h) \/ RelaySubscribe(h)
           \/ UpdateSubscriber(h) \/ DeleteSubscriber(h) \/ WatchCount(h) \/ WatchUpsert(h)
  BY <1>2, <1>3 DEF UpsertSubscriber, GetWelcome, InsertWelcome, RelaySubscribe,
       UpdateSubscriber, DeleteSubscriber, WatchCount, WatchUpsert, TypeOK
<1>4. CASE Collect(h)
  BY <1>4 DEF Collect, TypeOK
<1>5. CASE PrepareWatchers(h)
  BY <1>5 DEF PrepareWatchers
<1>6. CASE \E m \in due[h] : Send(h, m) \/ PushFails(h, m)
  BY <1>6 DEF Send, PushFails
<1> QED
  BY <1>1, <1>2, <1>3, <1>4, <1>5, <1>6
     DEF HandlerMoves, HandlerStep, Finish, RelaySubscribeErr, WatchReply, Fail

\* Every step keeps a handler's change within the snapshot it shows.
LEMMA SnapshotStep ==
    ASSUME TypeOK, HandlerInv, SnapshotInv, Step
    PROVE  SnapshotInv'
<1>0. /\ version \in Nat /\ version' \in Nat /\ version <= version'
      /\ \A h \in Handlers : commit[h] \in Nat /\ snapAt[h] \in Nat /\ commit[h] <= version
  BY VersionStep, SnapshotNumbers DEF SnapshotInv
<1>1. ASSUME NEW c \in Clients, watchers'[c] # NoWatcher
      PROVE  watchers'[c].since <= version'
  <2>1. CASE \/ watchers'[c] = watchers[c]
             \/ watchers[c] \in Watcher /\ watchers'[c].since = watchers[c].since
    <3>1. watchers[c] # NoWatcher
      BY <1>1, <2>1, Constants
    <3>2. watchers[c].since \in Nat /\ watchers[c].since <= version
      BY <3>1, SnapshotNumbers DEF SnapshotInv
    <3> QED
      BY <1>0, <2>1, <3>2
  <2>2. CASE \E h \in Handlers :
               watchers'[c] = [app |-> req[h].app, since |-> version, expired |-> FALSE]
    BY <1>0, <2>2
  <2> QED
    BY <1>1, <2>1, <2>2, WatchersStep
<1>2. ASSUME NEW g \in Handlers
      PROVE  /\ commit'[g] <= version'
             /\ pc'[g] \in {"watchers", "send"} => commit'[g] <= snapAt'[g]
  <2>0. pc[g] \in {"watchers", "send"} => commit[g] <= snapAt[g]
    BY DEF SnapshotInv
  <2>1. CASE HandlerMoves(g)
    <3>1. commit'[g] <= version'
      BY <1>0, <2>1, CommitStep
    <3>2. ASSUME pc'[g] \in {"watchers", "send"}
          PROVE  commit'[g] <= snapAt'[g]
      <4>1. commit'[g] = commit[g]
        BY <2>1, <3>2, SendingStep
      <4>2. snapAt'[g] = version \/ (snapAt'[g] = snapAt[g] /\ pc[g] \in {"watchers", "send"})
        BY <2>1, <3>2, SendingStep
      <4> QED
        BY <1>0, <2>0, <4>1, <4>2
    <3> QED
      BY <3>1, <3>2
  <2>2. CASE pc'[g] = pc[g] /\ commit'[g] = commit[g] /\ snapAt'[g] = snapAt[g]
    BY <1>0, <2>0, <2>2
  <2>3. ASSUME NEW h \in Handlers, HandlerMoves(h), h # g
        PROVE  pc'[g] = pc[g] /\ commit'[g] = commit[g] /\ snapAt'[g] = snapAt[g]
    BY <2>3, HandlerFrame
  <2>4. CASE OtherMoves
    BY <2>2, <2>4 DEF OtherMoves, RelayUnsubscribe, RelayUnsubscribeErr,
         PostWelcomeNotification, ExpireWatcher, DeleteExpiredWatchers, handlerVars, vars
  <2>5. CASE Crash
    <3>1. pc'[g] = "idle" /\ commit'[g] = 0
      BY <2>5 DEF Crash
    <3> QED
      BY <1>0, <3>1
  <2> QED
    BY <2>1, <2>2, <2>3, <2>4, <2>5, StepCases
<1> QED
  BY <1>1, <1>2 DEF SnapshotInv

\* What a client has been told of only grows.
LEMMA InformedStep ==
    ASSUME TypeOK, TypeOK', HandlerInv, Step, NEW c \in Clients
    PROVE  informed[c] \in Nat /\ informed'[c] \in Nat /\ informed[c] <= informed'[c]
<1> USE DEF outVars
<1>0. /\ informed[c] \in Nat /\ informed'[c] \in Nat
      /\ \A h \in Handlers : snapAt[h] \in Nat
  <2>1. informed[c] \in Nat /\ \A h \in Handlers : snapAt[h] \in Nat
    BY SnapshotNumbers
  <2>2. \A n \in 0..MaxChanges : n \in Nat
    BY Constants
  <2> QED
    BY <2>1, <2>2 DEF TypeOK
<1>1. ASSUME NEW h \in Handlers, HandlerMoves(h)
      PROVE  informed' = informed \/ (\E m \in due[h] : Send(h, m)) \/ WatchReply(h)
  BY <1>1 DEF HandlerMoves, HandlerStep, ClientRequest, Subscribe, Update, Delete, Watch, Begin,
              UpsertSubscriber, GetWelcome, InsertWelcome, RelaySubscribe, RelaySubscribeErr,
              UpdateSubscriber, DeleteSubscriber, Collect, PrepareWatchers, PushFails,
              Finish, WatchCount, WatchUpsert, Fail
<1>2. ASSUME NEW h \in Handlers, NEW d, NEW apps, Publish(h, d, apps)
      PROVE  informed[c] <= informed'[c]
  <2>1. \/ informed'[c] = informed[c]
        \/ informed'[c] = IF snapAt[h] > informed[c] THEN snapAt[h] ELSE informed[c]
    BY <1>2 DEF Publish, TypeOK
  <2> QED
    BY <1>0, <2>1
<1>3. OtherMoves \/ Crash => informed' = informed
  BY DEF OtherMoves, RelayUnsubscribe, RelayUnsubscribeErr, PostWelcomeNotification,
              ExpireWatcher, DeleteExpiredWatchers, vars, Crash
<1>4. informed' = informed => informed[c] <= informed'[c]
  BY <1>0
<1>5. informed[c] <= informed'[c]
  BY <1>1, <1>2, <1>3, <1>4, StepCases DEF Send, WatchReply
<1> QED
  BY <1>0, <1>5

\* The watcher of c is one that the push of h must reach.
MustSee(h, c) ==
    /\ watchers[c].app \in {req[h].app, AllApps} /\ ~watchers[c].expired
    /\ watchers[c].since < commit[h]
    /\ c # req[h].client \/ req[h].mjv0

\* And it has been reached, has been missed by a failed publish, or will be.
Seen(h, c) ==
    \/ informed[c] >= commit[h]
    \/ c \in lost[h]
    \/ snapAt[h] >= commit[h] /\ \E m \in due[h] : m.kind = "push" /\ m.to = c

\* A watcher registered while h runs is newer than the change of h, so it owes
\* nothing to it; another one must be seen only if it had to be before.
LEMMA MustSeeBefore ==
    ASSUME TypeOK, HandlerInv, SnapshotInv, Step, NEW h \in Handlers, NEW c \in Clients,
           MustSee(h, c)', req'[h] = req[h], commit'[h] = commit[h], pc[h] # "idle"
    PROVE  MustSee(h, c) /\ watchers[c] # NoWatcher
<1>0. commit[h] \in Nat /\ version \in Nat /\ commit[h] <= version
  BY SnapshotNumbers DEF SnapshotInv
<1>1. req[h].app \in Apps \cup {AllApps}
  BY Constants DEF HandlerInv, HandlerOK
<1>2. watchers'[c] # NoWatcher
  BY <1>1, Constants DEF MustSee, NoWatcher
<1>3. ~\E g \in Handlers :
         watchers'[c] = [app |-> req[g].app, since |-> version, expired |-> FALSE]
  <2> SUFFICES ASSUME NEW g \in Handlers,
                      watchers'[c] = [app |-> req[g].app, since |-> version, expired |-> FALSE]
               PROVE  FALSE
    OBVIOUS
  <2>1. watchers'[c].since = version
    OBVIOUS
  <2>2. version < commit[h]
    BY <2>1 DEF MustSee
  <2> QED
    BY <1>0, <2>2
<1>4. watchers'[c] = watchers[c]
  BY <1>2, <1>3, WatchersStep DEF MustSee
<1> QED
  BY <1>2, <1>4 DEF MustSee

\* prepare_subscription_watchers finds every watcher that must be reached.
LEMMA PreparedReaches ==
    ASSUME TypeOK, HandlerInv, SnapshotInv, NEW h \in Handlers, PrepareWatchers(h),
           NEW c \in Clients, MustSee(h, c), watchers[c] # NoWatcher
    PROVE  Seen(h, c)'
<1>1. c \in {d \in WatchersOf(req[h].app) : d # req[h].client \/ req[h].mjv0}
  BY DEF MustSee, WatchersOf
<1>2. [kind |-> "push", to |-> c, apps |-> Visible(h, watchers[c].app)] \in due'[h]
  BY <1>1 DEF PrepareWatchers, TypeOK
<1>3. snapAt'[h] = snapAt[h] /\ commit'[h] = commit[h] /\ commit[h] <= snapAt[h]
  BY DEF PrepareWatchers, SnapshotInv
<1>4. commit[h] \in Nat /\ snapAt[h] \in Nat
  BY SnapshotNumbers
<1>5. snapAt'[h] >= commit'[h]
  BY <1>3, <1>4
<1>6. \E m \in due'[h] : m.kind = "push" /\ m.to = c
  BY <1>2
<1> QED
  BY <1>5, <1>6 DEF Seen

\* A push that is published or has failed is the one its watcher was due.
LEMMA SentReaches ==
    ASSUME TypeOK, TypeOK', HandlerInv, SnapshotInv, Step, NEW h \in Handlers, NEW m \in due[h],
           Send(h, m) \/ PushFails(h, m), NEW c \in Clients, Seen(h, c)
    PROVE  Seen(h, c)'
<1>0. /\ commit[h] \in Nat /\ snapAt[h] \in Nat /\ commit[h] <= snapAt[h]
      /\ commit'[h] = commit[h] /\ snapAt'[h] = snapAt[h]
  BY SnapshotNumbers DEF SnapshotInv, Send, PushFails
<1>1. informed[c] \in Nat /\ informed'[c] \in Nat /\ informed[c] <= informed'[c]
  BY InformedStep
<1>2. CASE informed[c] >= commit[h]
  <2>1. informed'[c] >= commit'[h]
    BY <1>0, <1>1, <1>2
  <2> QED
    BY <2>1 DEF Seen
<1>3. CASE c \in lost[h]
  BY <1>3 DEF Seen, Send, PushFails, TypeOK
<1>4. ASSUME NEW n \in due[h], n.kind = "push", n.to = c
      PROVE  Seen(h, c)'
  <2>1. CASE n # m
    <3>1. n \in due'[h]
      BY <2>1 DEF Send, PushFails, TypeOK
    <3>2. snapAt'[h] >= commit'[h]
      BY <1>0
    <3> QED
      BY <1>4, <3>1, <3>2 DEF Seen
  <2>2. CASE n = m /\ Send(h, m)
    <3>1. informed'[c] = IF snapAt[h] > informed[c] THEN snapAt[h] ELSE informed[c]
      BY <1>4, <2>2 DEF Send, Publish, TypeOK
    <3>2. informed'[c] >= commit'[h]
      BY <1>0, <1>1, <3>1
    <3> QED
      BY <3>2 DEF Seen
  <2>3. CASE n = m /\ PushFails(h, m)
    BY <1>4, <2>3 DEF PushFails, Seen, TypeOK
  <2> QED
    BY <2>1, <2>2, <2>3
<1> QED
  BY <1>2, <1>3, <1>4 DEF Seen

\* Every step keeps the promise to the watchers.
LEMMA WatcherStep ==
    ASSUME TypeOK, TypeOK', HandlerInv, SnapshotInv, NoWatcherMissed, Step
    PROVE  NoWatcherMissed'
<1> SUFFICES ASSUME NEW h \in Handlers, pc'[h] = "send", NEW c \in Clients, MustSee(h, c)'
             PROVE  Seen(h, c)'
  BY DEF NoWatcherMissed, MustSee, Seen
<1>1. CASE HandlerMoves(h)
  <2>1. req'[h] = req[h] /\ commit'[h] = commit[h]
    BY <1>1, SendingStep
  <2>2. CASE PrepareWatchers(h)
    <3>1. MustSee(h, c) /\ watchers[c] # NoWatcher
      BY <2>1, <2>2, MustSeeBefore DEF PrepareWatchers
    <3> QED
      BY <2>2, <3>1, PreparedReaches
  <2>3. ASSUME NEW m \in due[h], Send(h, m) \/ PushFails(h, m)
        PROVE  Seen(h, c)'
    <3>1. pc[h] = "send"
      BY <2>3 DEF Send, PushFails
    <3>2. MustSee(h, c)
      BY <2>1, <3>1, MustSeeBefore
    <3>3. Seen(h, c)
      BY <3>1, <3>2 DEF NoWatcherMissed, MustSee, Seen
    <3> QED
      BY <2>3, <3>3, SentReaches
  <2> QED
    BY <1>1, <2>2, <2>3, SendingStep
<1>2. CASE /\ pc'[h] = pc[h] /\ req'[h] = req[h] /\ commit'[h] = commit[h]
           /\ snapAt'[h] = snapAt[h] /\ due'[h] = due[h] /\ lost'[h] = lost[h]
  <2>1. MustSee(h, c)
    BY <1>2, MustSeeBefore
  <2>2. Seen(h, c)
    BY <1>2, <2>1 DEF NoWatcherMissed, MustSee, Seen
  <2>3. informed[c] >= commit[h] => informed'[c] >= commit'[h]
    <3>1. informed[c] \in Nat /\ informed'[c] \in Nat /\ informed[c] <= informed'[c]
      BY InformedStep
    <3>2. commit[h] \in Nat
      BY SnapshotNumbers
    <3> QED
      BY <1>2, <3>1, <3>2
  <2> QED
    BY <1>2, <2>2, <2>3 DEF Seen
<1>3. ASSUME NEW g \in Handlers, HandlerMoves(g), g # h
      PROVE  /\ pc'[h] = pc[h] /\ req'[h] = req[h] /\ commit'[h] = commit[h]
             /\ snapAt'[h] = snapAt[h] /\ due'[h] = due[h] /\ lost'[h] = lost[h]
  BY <1>3, HandlerFrame
<1>4. CASE OtherMoves
  BY <1>2, <1>4 DEF OtherMoves, RelayUnsubscribe, RelayUnsubscribeErr,
       PostWelcomeNotification, ExpireWatcher, DeleteExpiredWatchers, handlerVars, vars
<1>5. CASE Crash
  BY <1>5 DEF Crash
<1> QED
  BY <1>1, <1>2, <1>3, <1>4, <1>5, StepCases

-----------------------------------------------------------------------------
(* The theorems.                                                           *)

\* At start there are no rows, watchers or requests, and nothing has been sent.
LEMMA InitOK == Init => SubscriptionsInv
<1> SUFFICES ASSUME Init PROVE SubscriptionsInv
  OBVIOUS
<1>0. MaxChanges \in Nat /\ 0 \in 0..MaxChanges /\ Topics \subseteq Nat
  BY Constants
<1>1. TypeOK
  BY <1>0 DEF Init, TypeOK, PC
<1>2. HandlerInv
  BY DEF Init, HandlerInv, HandlerOK
<1>3. RowsInv
  BY DEF Init, RowsInv, NoTopic
<1>4. LiveTopicKept
  BY DEF Init, LiveTopicKept
<1>5. WelcomeInv /\ WelcomeOnce
  BY DEF Init, WelcomeInv, WelcomeOnce
<1>6. AuthorizationInv /\ AuthorizationRespected
  BY DEF Init, AuthorizationInv, AuthorizationRespected
<1>7. SnapshotInv /\ NoWatcherMissed
  BY DEF Init, SnapshotInv, NoWatcherMissed
<1> QED
  BY <1>1, <1>2, <1>3, <1>4, <1>5, <1>6, <1>7 DEF SubscriptionsInv

\* The inductive invariant of the four handlers, the tables they share and the
\* relay's topics: every await of a handler may be followed by any step of the
\* others, by an expiry, a crash or a failed call.
THEOREM SubscriptionsInvariance == Spec => []SubscriptionsInv
<1>1. SubscriptionsInv /\ [Next]_vars => SubscriptionsInv'
  <2> SUFFICES ASSUME SubscriptionsInv, Step PROVE SubscriptionsInv'
    BY DEF Step
  <2>0. /\ TypeOK /\ HandlerInv /\ RowsInv /\ LiveTopicKept /\ WelcomeInv /\ WelcomeOnce
        /\ AuthorizationInv /\ AuthorizationRespected /\ SnapshotInv /\ NoWatcherMissed
    BY DEF SubscriptionsInv
  <2>1. TypeOK' /\ HandlerInv'
    BY <2>0, TypeStep, HandlerInvStep
  <2>2. RowsInv' /\ LiveTopicKept'
    BY <2>0, RowsStep, RelayStep
  <2>3. WelcomeInv' /\ WelcomeOnce'
    BY <2>0, WelcomeInvStep, WelcomeStep
  <2>4. AuthorizationInv' /\ AuthorizationRespected'
    BY <2>0, AuthorizationStep
  <2>5. SnapshotInv' /\ NoWatcherMissed'
    BY <2>0, <2>1, SnapshotStep, WatcherStep
  <2> QED
    BY <2>1, <2>2, <2>3, <2>4, <2>5 DEF SubscriptionsInv
<1> QED
  BY <1>1, InitOK, PTL DEF Spec

\* The variables of the handlers, tables, relay and histories keep their types.
THEOREM SubscriptionsTypes == Spec => []TypeOK
<1>1. SubscriptionsInv => TypeOK
  BY DEF SubscriptionsInv
<1> QED
  BY <1>1, SubscriptionsInvariance, PTL

\* However deletes and subscribes of an app interleave, notify_delete's task never
\* unsubscribes the topic of a row, and a subscribe that is answered is listened to.
THEOREM LiveTopicsKept == Spec => []LiveTopicKept
<1>1. SubscriptionsInv => LiveTopicKept
  BY DEF SubscriptionsInv
<1> QED
  BY <1>1, SubscriptionsInvariance, PTL

\* A new row gets the enabled welcome notification of its scope exactly once,
\* unless the handler that inserted it fails first (notify_subscribe).
THEOREM WelcomedOnce == Spec => []WelcomeOnce
<1>1. SubscriptionsInv => WelcomeOnce
  BY DEF SubscriptionsInv
<1> QED
  BY <1>1, SubscriptionsInvariance, PTL

\* No answer and no push reveals another app's subscription to an identity that
\* is limited to one app (check_app_authorization, prepare_subscription_watchers).
THEOREM IdentitiesRespected == Spec => []AuthorizationRespected
<1>1. SubscriptionsInv => AuthorizationRespected
  BY DEF SubscriptionsInv
<1> QED
  BY <1>1, SubscriptionsInvariance, PTL

\* Every watcher registered before a change is sent a snapshot that includes it,
\* unless the publish to it fails (prepare_subscription_watchers).
THEOREM WatchersReached == Spec => []NoWatcherMissed
<1>1. SubscriptionsInv => NoWatcherMissed
  BY DEF SubscriptionsInv
<1> QED
  BY <1>1, SubscriptionsInvariance, PTL
=============================================================================
