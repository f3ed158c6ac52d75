--------------------------- MODULE NotifyV1Proofs ---------------------------
(***************************************************************************)
(* What the notify endpoint reports and queues, for any accounts, bodies,  *)
(* scopes, limits and number of concurrent requests.                       *)
(***************************************************************************)
EXTENDS NotifyV1, WellFoundedInduction, TLAPS

Step == [Next]_vars

-----------------------------------------------------------------------------
(* The lookup table.                                                       *)

\* A nonempty set of positions has a last one.
LEMMA LastPosition ==
    ASSUME NEW n \in Nat, NEW S \in SUBSET (1..n), S # {}
    PROVE  Max(S) \in S
<1> DEFINE T == {n - i : i \in S}
           R == {ss \in Nat \X Nat : ss[1] < ss[2]}
<1>1. T \subseteq Nat /\ T # {}
  <2>1. \A i \in S : n - i \in Nat
    OBVIOUS
  <2> QED
    BY <2>1
<1>2. PICK x \in T : \A y \in T : ~(<<y, x>> \in R)
  <2>1. IsWellFoundedOn(R, Nat)
    BY NatLessThanWellFounded, Zenon DEF OpToRel
  <2> HIDE DEF R, T
  <2> QED
    BY <1>1, <2>1, WFMin
<1>3. \A y \in T : ~(y < x)
  BY <1>1, <1>2
<1>4. PICK m \in S : x = n - m
  OBVIOUS
<1>5. ASSUME NEW i \in S PROVE m >= i
  <2>1. ~(n - i < n - m)
    BY <1>3, <1>4
  <2>2. m \in Nat /\ i \in Nat
    OBVIOUS
  <2> HIDE DEF T, R
  <2> QED
    BY <2>1, <2>2
<1> QED
  BY <1>5 DEF Max

\* chain_agnostic_lookup_table gives an account of the entry with that address.
LEMMA LookupTableFinds ==
    ASSUME NEW e \in Entry, NEW d \in {AddressOf[a] : a \in AccountsOf(e)}
    PROVE  LookupTable(e, d) \in AccountsOf(e) /\ AddressOf[LookupTable(e, d)] = d
<1> DEFINE S == {i \in DOMAIN e.accounts : AddressOf[e.accounts[i]] = d}
<1>1. e.accounts \in Seq(Accounts)
  BY DEF Entry
<1>2. PICK n \in Nat : DOMAIN e.accounts = 1..n
  BY <1>1
<1>3. S # {} /\ S \in SUBSET (1..n)
  BY <1>2 DEF AccountsOf
<1>4. Max(S) \in S
  <2> HIDE DEF S
  <2> QED
    BY <1>3, LastPosition
<1>5. LookupTable(e, d) = e.accounts[Max(S)]
  BY DEF LookupTable
<1> QED
  BY <1>4, <1>5 DEF AccountsOf

\* The entry a request is at is one of its body.
LEMMA CurrentTypes ==
    ASSUME TypeOK, NEW h \in Handlers, pc[h] \in {"upsert", "lookup", "rate", "insert"}
    PROVE  /\ entry[h] \in DOMAIN body[h] /\ Current(h) = body[h][entry[h]]
           /\ Current(h) \in Entry /\ Current(h).id \in NotificationIds
           /\ Current(h).type \in Types /\ AccountsOf(Current(h)) \subseteq Accounts
<1>1. body[h] \in Seq(Entry)
  BY NotifyAssumption DEF TypeOK
<1>2. entry[h] \in 1..Len(body[h])
  BY DEF TypeOK
<1>3. entry[h] \in DOMAIN body[h] /\ Current(h) \in Entry
  BY <1>1, <1>2 DEF Current
<1> QED
  BY <1>3 DEF Current, Entry, AccountsOf

\* get_subscribers_for_project_in finds the rows of the addresses asked for, and
\* names each by an account of the entry.
LEMMA FoundTypes ==
    ASSUME TypeOK, NEW e \in Entry, NEW f \in Found(e)
    PROVE  /\ f \in SubscriberInfo /\ f.account \in AccountsOf(e)
           /\ f = [id |-> f.id, account |-> f.account]
           /\ f.id = subscriber[AddressOf[f.account]] /\ f.id # NoSubscriber
           /\ AddressOf[f.account] \in Addresses
<1>1. PICK d \in {AddressOf[a] : a \in AccountsOf(e)} :
         /\ d \in Addresses /\ subscriber[d] # NoSubscriber
         /\ f = [id |-> subscriber[d], account |-> LookupTable(e, d)]
  BY DEF Found
<1>2. LookupTable(e, d) \in AccountsOf(e) /\ AddressOf[LookupTable(e, d)] = d
  BY LookupTableFinds
<1>3. AccountsOf(e) \subseteq Accounts
  BY DEF Entry, AccountsOf
<1>4. subscriber[d] \in Subscribers
  BY <1>1 DEF TypeOK
<1> QED
  BY <1>1, <1>2, <1>3, <1>4 DEF SubscriberInfo

-----------------------------------------------------------------------------
(* Facts about the actions.                                                *)

\* A step of the request h.
RequestMoves(h) ==
    \/ \E b \in Bodies : Receive(h, b)
    \/ UpsertNotification(h) \/ Lookup(h) \/ RateLimit(h) \/ Insert(h)
    \/ Respond(h) \/ Fail(h)

\* A step of a subscriber.
SubscriberMoves(d) == Unsubscribe(d) \/ \E types \in Scopes : SubscribeOrUpdate(d, types)

\* Every step is one of a request or of a subscriber.
LEMMA StepCases ==
    Step => \/ \E h \in Handlers : RequestMoves(h)
            \/ \E d \in Addresses : SubscriberMoves(d)
            \/ UNCHANGED vars
BY DEF Step, Next, RequestMoves, SubscriberMoves

\* A request moves itself only.
LEMMA RequestFrame ==
    ASSUME TypeOK, NEW h \in Handlers, RequestMoves(h), NEW g \in Handlers, g # h
    PROVE  /\ pc'[g] = pc[g] /\ body'[g] = body[g] /\ entry'[g] = entry[g]
           /\ valid'[g] = valid[g] /\ sent'[g] = sent[g] /\ failed'[g] = failed[g]
           /\ notFound'[g] = notFound[g]
<1> USE DEF TypeOK, respVars
<1>1. ASSUME NEW b \in Bodies, Receive(h, b)
      PROVE  /\ pc'[g] = pc[g] /\ body'[g] = body[g] /\ entry'[g] = entry[g]
             /\ valid'[g] = valid[g] /\ sent'[g] = sent[g] /\ failed'[g] = failed[g]
             /\ notFound'[g] = notFound[g]
  BY <1>1 DEF Receive
<1>2. CASE UpsertNotification(h) \/ Lookup(h) \/ RateLimit(h)
  BY <1>2 DEF UpsertNotification, Lookup, RateLimit
<1>3. CASE Insert(h)
  BY <1>3 DEF Insert, Advance
<1>4. CASE Respond(h) \/ Fail(h)
  BY <1>4 DEF Respond, Fail, Forget
<1> QED
  BY <1>1, <1>2, <1>3, <1>4 DEF RequestMoves

\* A subscriber that comes, changes or goes leaves the requests alone.
LEMMA SubscriberFrame ==
    ASSUME NEW d \in Addresses, SubscriberMoves(d)
    PROVE  UNCHANGED <<stored, tokens, pc, body, entry, valid, sent, failed, notFound, queued>>
BY DEF SubscriberMoves, SubscribeOrUpdate, Unsubscribe, respVars, histVars

\* A request leaves the subscribers alone.
LEMMA RequestsLeaveSubscribers ==
    ASSUME NEW h \in Handlers, RequestMoves(h)
    PROVE  UNCHANGED <<subscriber, scope, inserted, hadScope, owner>>
BY DEF RequestMoves, Receive, UpsertNotification, Lookup, RateLimit, Insert, Respond, Fail,
       Forget, dbVars, histVars

-----------------------------------------------------------------------------
(* Types.                                                                  *)

\* A new or changed subscriber has its types.
LEMMA SubscriberTypes ==
    ASSUME TypeOK, NEW d \in Addresses, SubscriberMoves(d)
    PROVE  TypeOK'
<1> USE DEF TypeOK
<1>1. UNCHANGED <<stored, tokens, pc, body, entry, valid, sent, failed, notFound, queued>>
  BY SubscriberFrame
<1>2. ASSUME NEW types \in Scopes, SubscribeOrUpdate(d, types)
      PROVE  TypeOK'
  <2>1. types \in SUBSET Types
    BY NotifyAssumption
  <2>2. PICK s \in Subscribers :
          /\ subscriber' = [subscriber EXCEPT ![d] = s] /\ scope' = [scope EXCEPT ![s] = types]
          /\ inserted' \in {s, inserted} /\ owner' = [owner EXCEPT ![s] = d]
          /\ hadScope' = [hadScope EXCEPT ![s] = @ \cup types] /\ rows' = rows
    BY <1>2 DEF SubscribeOrUpdate
  <2>3. inserted' \in 0..MaxSubscribers
    BY <2>2, NotifyAssumption DEF Subscribers
  <2>4. subscriber' \in [Addresses -> Subscribers \cup {NoSubscriber}]
    BY <2>2
  <2>5. scope' \in [Subscribers -> SUBSET Types] /\ hadScope' \in [Subscribers -> SUBSET Types]
    BY <2>1, <2>2
  <2>6. owner' \in [Subscribers -> Addresses]
    BY <2>2
  <2> QED
    BY <1>1, <2>2, <2>3, <2>4, <2>5, <2>6
<1>3. CASE Unsubscribe(d)
  <2>1. subscriber[d] \in Subscribers
    BY <1>3 DEF Unsubscribe
  <2>2. subscriber' \in [Addresses -> Subscribers \cup {NoSubscriber}]
    BY <1>3 DEF Unsubscribe
  <2>3. scope' \in [Subscribers -> SUBSET Types]
    BY <1>3, <2>1 DEF Unsubscribe
  <2>4. rows' \in SUBSET (NotificationIds \X Subscribers)
    BY <1>3 DEF Unsubscribe
  <2> QED
    BY <1>1, <1>3, <2>2, <2>3, <2>4 DEF Unsubscribe, histVars
<1> QED
  BY <1>2, <1>3 DEF SubscriberMoves

\* The pairs to be inserted are pairs of a notification and a subscriber.
LEMMA PairsTypes ==
    ASSUME TypeOK, NEW h \in Handlers, pc[h] = "insert"
    PROVE  Pairs(h) \subseteq NotificationIds \X Subscribers
<1>1. Current(h).id \in NotificationIds
  BY CurrentTypes
<1>2. \A f \in valid[h] : f.id \in Subscribers
  BY DEF TypeOK, SubscriberInfo
<1> QED
  BY <1>1, <1>2 DEF Pairs

\* A subscriber that is not sent to is a failure of the response.
LEMMA FailureTypes ==
    \A f \in SubscriberInfo :
        /\ [account |-> f.account, reason |-> "type"] \in SendFailure
        /\ [account |-> f.account, reason |-> "rate limit"] \in SendFailure
BY DEF SendFailure, SubscriberInfo

\* A step of a request keeps the types.
LEMMA RequestTypes ==
    ASSUME TypeOK, OutcomeInv, NEW h \in Handlers, RequestMoves(h)
    PROVE  TypeOK'
<1>0. UNCHANGED <<subscriber, scope, inserted, hadScope, owner>>
  BY RequestsLeaveSubscribers
<1> DEFINE PCs == {"idle", "upsert", "lookup", "rate", "insert", "done"}
           Active == {"upsert", "lookup", "rate", "insert"}
<1>a. \A g \in Handlers : g # h => (pc'[g] \in Active => entry'[g] \in 1..Len(body'[g]))
  BY RequestFrame DEF TypeOK
<1>1. ASSUME NEW b \in Bodies, Receive(h, b)
      PROVE  TypeOK'
  <2>1. pc' \in [Handlers -> PCs] /\ body' \in [Handlers -> Bodies \cup {<<>>}]
    BY <1>1 DEF Receive, TypeOK
  <2>2. pc'[h] \in Active => entry'[h] \in 1..Len(body'[h])
    <3>1. b \in Seq(Entry) /\ body'[h] = b /\ entry'[h] = entry[h]
      BY <1>1, NotifyAssumption DEF Receive, TypeOK
    <3>2. pc'[h] \in Active => b # <<>>
      BY <1>1 DEF Receive, TypeOK
    <3>3. entry[h] = 1
      BY <1>1 DEF Receive, OutcomeInv, OutcomeOK
    <3>4. b # <<>> => 1 \in 1..Len(b)
      BY <3>1
    <3> QED
      BY <3>1, <3>2, <3>3, <3>4
  <2> QED
    BY <1>0, <1>1, <1>a, <2>1, <2>2 DEF Receive, TypeOK, dbVars, respVars, histVars
<1>2. CASE UpsertNotification(h)
  <2>0. /\ Current(h).id \in NotificationIds /\ Current(h).type \in Types
        /\ AccountsOf(Current(h)) \subseteq Accounts
    BY <1>2, CurrentTypes DEF UpsertNotification
  <2>1. pc' \in [Handlers -> PCs] /\ pc'[h] \in Active /\ pc[h] \in Active
    BY <1>2 DEF UpsertNotification, TypeOK
  <2>2. stored' \in [NotificationIds -> Types \cup {"none"}]
    BY <1>2, <2>0 DEF UpsertNotification, TypeOK
  <2>3. notFound' \in [Handlers -> SUBSET Accounts]
    BY <1>2, <2>0 DEF UpsertNotification, TypeOK
  <2>4. entry'[h] \in 1..Len(body'[h])
    BY <1>2, <2>1 DEF UpsertNotification, TypeOK
  <2> QED
    BY <1>0, <1>2, <1>a, <2>1, <2>2, <2>3, <2>4 DEF UpsertNotification, TypeOK, histVars
<1>3. CASE Lookup(h)
  <2> DEFINE found == Found(Current(h))
             ok == {f \in found : InScope(h, f.id)}
  <2>0. found \subseteq SubscriberInfo
    BY <1>3, CurrentTypes, FoundTypes DEF Lookup
  <2>1. pc' \in [Handlers -> PCs] /\ pc'[h] \in Active /\ pc[h] \in Active
    BY <1>3 DEF Lookup, TypeOK
  <2>2. notFound' \in [Handlers -> SUBSET Accounts]
    BY <1>3 DEF Lookup, TypeOK
  <2>3. valid' \in [Handlers -> SUBSET SubscriberInfo]
    BY <1>3, <2>0 DEF Lookup, TypeOK
  <2>4. failed' \in [Handlers -> SUBSET SendFailure]
    <3>1. {[account |-> f.account, reason |-> "type"] : f \in found \ ok} \subseteq SendFailure
      BY <2>0, FailureTypes
    <3>2. failed' = [failed EXCEPT ![h] = @ \cup
                       {[account |-> f.account, reason |-> "type"] : f \in found \ ok}]
      BY <1>3 DEF Lookup
    <3> HIDE DEF found, ok
    <3> QED
      BY <3>1, <3>2 DEF TypeOK
  <2>5. entry'[h] \in 1..Len(body'[h])
    BY <1>3, <2>1 DEF Lookup, TypeOK
  <2> QED
    BY <1>0, <1>3, <1>a, <2>1, <2>2, <2>3, <2>4, <2>5 DEF Lookup, TypeOK, dbVars, histVars
<1>4. CASE RateLimit(h)
  <2> DEFINE ok == {f \in valid[h] : tokens[f.id] > 0}
  <2>0. valid[h] \subseteq SubscriberInfo
    BY DEF TypeOK
  <2>1. pc' \in [Handlers -> PCs] /\ pc'[h] \in Active /\ pc[h] \in Active
    BY <1>4 DEF RateLimit, TypeOK
  <2>2. tokens' \in [Subscribers -> 0..MaxTokens]
    <3>1. \A s \in Subscribers : tokens[s] \in 0..MaxTokens
      BY DEF TypeOK
    <3>2. \A t \in 0..MaxTokens : t > 0 => t - 1 \in 0..MaxTokens
      BY NotifyAssumption
    <3> QED
      BY <1>4, <3>1, <3>2 DEF RateLimit, Pay
  <2>3. valid' \in [Handlers -> SUBSET SubscriberInfo]
    BY <1>4, <2>0 DEF RateLimit, TypeOK
  <2>4. failed' \in [Handlers -> SUBSET SendFailure]
    <3>1. {[account |-> f.account, reason |-> "rate limit"] : f \in valid[h] \ ok}
            \subseteq SendFailure
      BY <2>0, FailureTypes
    <3>2. failed' = [failed EXCEPT ![h] = @ \cup
                       {[account |-> f.account, reason |-> "rate limit"] : f \in valid[h] \ ok}]
      BY <1>4 DEF RateLimit
    <3> HIDE DEF ok
    <3> QED
      BY <3>1, <3>2 DEF TypeOK
  <2>5. sent' \in [Handlers -> SUBSET Accounts]
    <3>1. {f.account : f \in ok} \subseteq Accounts
      BY <2>0 DEF SubscriberInfo
    <3>2. sent' = [sent EXCEPT ![h] = @ \cup {f.account : f \in ok}]
      BY <1>4 DEF RateLimit
    <3> HIDE DEF ok
    <3> QED
      BY <3>1, <3>2 DEF TypeOK
  <2>6. entry'[h] \in 1..Len(body'[h])
    BY <1>4, <2>1 DEF RateLimit, TypeOK
  <2> QED
    BY <1>0, <1>4, <1>a, <2>1, <2>2, <2>3, <2>4, <2>5, <2>6 DEF RateLimit, TypeOK, histVars
<1>5. CASE Insert(h)
  <2>0. Pairs(h) \subseteq NotificationIds \X Subscribers
    BY <1>5, PairsTypes DEF Insert
  <2>1. rows' \in SUBSET (NotificationIds \X Subscribers)
    BY <1>5, <2>0 DEF Insert, TypeOK
  <2>2. queued' \in [NotificationIds \X Subscribers -> Nat]
    BY <1>5 DEF Insert, TypeOK
  <2>3. pc' \in [Handlers -> PCs] /\ entry' \in [Handlers -> Nat]
    <3>1. entry[h] \in Nat /\ entry[h] + 1 \in Nat
      BY DEF TypeOK
    <3>2. entry' = [entry EXCEPT ![h] = entry[h] + 1] \/ entry' = entry
      BY <1>5 DEF Insert, Advance
    <3>3. entry' \in [Handlers -> Nat]
      BY <3>1, <3>2 DEF TypeOK
    <3> QED
      BY <1>5, <3>3 DEF Insert, Advance, TypeOK
  <2>4. pc'[h] \in Active => entry'[h] \in 1..Len(body'[h])
    <3>1. entry[h] \in 1..Len(body[h]) /\ body'[h] = body[h]
      BY <1>5 DEF Insert, TypeOK
    <3>2. pc'[h] \in Active => entry[h] < Len(body[h]) /\ entry'[h] = entry[h] + 1
      BY <1>5 DEF Insert, Advance, TypeOK
    <3>3. Len(body[h]) \in Nat
      BY NotifyAssumption DEF TypeOK
    <3> QED
      BY <3>1, <3>2, <3>3
  <2> QED
    BY <1>0, <1>5, <1>a, <2>1, <2>2, <2>3, <2>4 DEF Insert, TypeOK, respVars
<1>6. CASE Respond(h) \/ Fail(h)
  <2>1. Forget(h)
    BY <1>6 DEF Respond, Fail
  <2>2. /\ pc' \in [Handlers -> PCs] /\ body' \in [Handlers -> Bodies \cup {<<>>}]
        /\ entry' \in [Handlers -> Nat] /\ valid' \in [Handlers -> SUBSET SubscriberInfo]
        /\ sent' \in [Handlers -> SUBSET Accounts] /\ failed' \in [Handlers -> SUBSET SendFailure]
        /\ notFound' \in [Handlers -> SUBSET Accounts] /\ pc'[h] = "idle"
    BY <2>1 DEF Forget, TypeOK
  <2> QED
    BY <1>0, <1>a, <2>1, <2>2 DEF Forget, TypeOK, dbVars, histVars
<1> QED
  BY <1>1, <1>2, <1>3, <1>4, <1>5, <1>6 DEF RequestMoves

\* Every step keeps the types.
LEMMA TypeStep ==
    ASSUME TypeOK, OutcomeInv, Step
    PROVE  TypeOK'
<1>1. CASE UNCHANGED vars
  BY <1>1 DEF TypeOK, vars
<1> QED
  BY <1>1, StepCases, RequestTypes, SubscriberTypes

-----------------------------------------------------------------------------
(* Subscribers.                                                            *)

\* The numbers below are numbers.
LEMMA Numbers ==
    ASSUME TypeOK
    PROVE  /\ inserted \in Nat /\ Subscribers \subseteq Nat \ {0} /\ NoSubscriber = 0
           /\ \A d \in Addresses : subscriber[d] \in Nat
           /\ \A p \in NotificationIds \X Subscribers : queued[p] \in Nat
<1>1. inserted \in Nat /\ Subscribers \subseteq Nat \ {0} /\ NoSubscriber = 0
  BY NotifyAssumption DEF TypeOK, Subscribers, NoSubscriber
<1>2. \A d \in Addresses : subscriber[d] \in Nat
  <2>1. \A d \in Addresses : subscriber[d] \in Subscribers \cup {NoSubscriber}
    BY DEF TypeOK
  <2>2. \A s \in Subscribers \cup {NoSubscriber} : s \in Nat
    BY DEF Subscribers, NoSubscriber
  <2> QED
    BY <2>1, <2>2
<1>3. \A p \in NotificationIds \X Subscribers : queued[p] \in Nat
  BY DEF TypeOK
<1> QED
  BY <1>1, <1>2, <1>3

\* Who comes has a new identifier; who goes takes its rows along.  The owner of an
\* identifier stays, and the types it has had remain.
LEMMA SubscriberEffect ==
    ASSUME TypeOK, SubscribersInv, NEW d \in Addresses, SubscriberMoves(d)
    PROVE  /\ SubscribersInv'
           /\ inserted' \in Nat /\ inserted <= inserted'
           /\ \A s \in Subscribers : s <= inserted => owner'[s] = owner[s]
           /\ \A s \in Subscribers : hadScope[s] \subseteq hadScope'[s]
           /\ \A s \in Live' : s \in Live \/ s > inserted
           /\ rows' \subseteq rows /\ \A p \in rows \ rows' : p[2] \notin Live'
<1>0. /\ inserted \in Nat /\ Subscribers \subseteq Nat \ {0} /\ NoSubscriber = 0
      /\ \A x \in Addresses : subscriber[x] \in Nat /\ subscriber[x] <= inserted
  BY Numbers DEF SubscribersInv
<1>1. ASSUME NEW types \in Scopes, SubscribeOrUpdate(d, types), subscriber[d] = NoSubscriber
      PROVE  /\ SubscribersInv'
             /\ inserted' \in Nat /\ inserted <= inserted'
             /\ \A s \in Subscribers : s <= inserted => owner'[s] = owner[s]
             /\ \A s \in Subscribers : hadScope[s] \subseteq hadScope'[s]
             /\ \A s \in Live' : s \in Live \/ s > inserted
             /\ rows' \subseteq rows /\ \A p \in rows \ rows' : p[2] \notin Live'
  <2> DEFINE s == inserted + 1
  <2>1. /\ s \in Subscribers /\ inserted' = s /\ rows' = rows
        /\ subscriber' = [subscriber EXCEPT ![d] = s] /\ scope' = [scope EXCEPT ![s] = types]
        /\ owner' = [owner EXCEPT ![s] = d]
        /\ hadScope' = [hadScope EXCEPT ![s] = @ \cup types]
    BY <1>1 DEF SubscribeOrUpdate
  <2>2. s > inserted /\ s \in Nat
    BY <1>0
  <2> HIDE DEF s
  <2>3. \A u \in Subscribers : u <= inserted => owner'[u] = owner[u]
    BY <1>0, <2>1, <2>2 DEF TypeOK
  <2>4. \A u \in Subscribers : hadScope[u] \subseteq hadScope'[u]
    BY <2>1 DEF TypeOK
  <2>5. \A x \in Addresses : subscriber'[x] = IF x = d THEN s ELSE subscriber[x]
    BY <2>1 DEF TypeOK
  <2>6. \A u \in Live' : u \in Live \/ u > inserted
    BY <2>2, <2>5 DEF Live
  <2>7. ASSUME NEW x \in Addresses
        PROVE  /\ subscriber'[x] <= inserted'
               /\ subscriber'[x] # NoSubscriber => owner'[subscriber'[x]] = x
    <3>1. CASE x = d
      BY <2>1, <2>2, <2>5, <3>1 DEF TypeOK
    <3>2. CASE x # d
      <4>1. subscriber'[x] = subscriber[x]
        BY <2>5, <3>2
      <4>2. subscriber[x] <= inserted'
        BY <1>0, <2>1, <2>2
      <4>3. subscriber[x] # NoSubscriber => owner'[subscriber[x]] = x
        BY <1>0, <2>3 DEF TypeOK, SubscribersInv
      <4> QED
        BY <4>1, <4>2, <4>3
    <3> QED
      BY <3>1, <3>2
  <2>8. \A u \in Subscribers : scope'[u] \subseteq hadScope'[u]
    BY <2>1 DEF TypeOK, SubscribersInv
  <2>9. inserted' \in Nat /\ inserted <= inserted'
    BY <1>0, <2>1, <2>2
  <2> QED
    BY <2>1, <2>3, <2>4, <2>6, <2>7, <2>8, <2>9 DEF SubscribersInv
<1>2. ASSUME NEW types \in Scopes, SubscribeOrUpdate(d, types), subscriber[d] # NoSubscriber
      PROVE  /\ SubscribersInv'
             /\ inserted' \in Nat /\ inserted <= inserted'
             /\ \A s \in Subscribers : s <= inserted => owner'[s] = owner[s]
             /\ \A s \in Subscribers : hadScope[s] \subseteq hadScope'[s]
             /\ \A s \in Live' : s \in Live \/ s > inserted
             /\ rows' \subseteq rows /\ \A p \in rows \ rows' : p[2] \notin Live'
  <2> DEFINE s == subscriber[d]
  <2>1. /\ s \in Subscribers /\ inserted' = inserted /\ rows' = rows
        /\ subscriber' = [subscriber EXCEPT ![d] = s] /\ scope' = [scope EXCEPT ![s] = types]
        /\ owner' = [owner EXCEPT ![s] = d]
        /\ hadScope' = [hadScope EXCEPT ![s] = @ \cup types]
    BY <1>2 DEF SubscribeOrUpdate
  <2>2. subscriber' = subscriber /\ owner' = owner
    BY <1>2, <2>1 DEF TypeOK, SubscribersInv
  <2> HIDE DEF s
  <2>3. \A u \in Subscribers : hadScope[u] \subseteq hadScope'[u]
    BY <2>1 DEF TypeOK
  <2>4. \A u \in Subscribers : scope'[u] \subseteq hadScope'[u]
    BY <2>1 DEF TypeOK, SubscribersInv
  <2>5. Live' = Live
    BY <2>2 DEF Live
  <2> QED
    BY <1>0, <2>1, <2>2, <2>3, <2>4, <2>5 DEF SubscribersInv
<1>3. CASE Unsubscribe(d)
  <2>1. /\ subscriber[d] # NoSubscriber /\ subscriber' = [subscriber EXCEPT ![d] = NoSubscriber]
        /\ scope' = [scope EXCEPT ![subscriber[d]] = {}]
        /\ rows' = {r \in rows : r[2] # subscriber[d]}
        /\ UNCHANGED <<inserted, hadScope, owner>>
    BY <1>3 DEF Unsubscribe, histVars
  <2>2. \A x \in Addresses : subscriber'[x] = IF x = d THEN NoSubscriber ELSE subscriber[x]
    BY <2>1 DEF TypeOK
  <2>3. \A u \in Live' : u \in Live
    BY <2>2 DEF Live
  <2>4. subscriber[d] \notin Live'
    <3>1. \A x \in Addresses : x # d => subscriber[x] # subscriber[d]
      BY <2>1 DEF SubscribersInv
    <3> QED
      BY <2>1, <2>2, <3>1 DEF Live
  <2>5. \A x \in Addresses :
          /\ subscriber'[x] <= inserted'
          /\ subscriber'[x] # NoSubscriber => owner'[subscriber'[x]] = x
    BY <1>0, <2>1, <2>2 DEF SubscribersInv
  <2>6. \A u \in Subscribers : scope'[u] \subseteq hadScope'[u]
    BY <2>1 DEF TypeOK, SubscribersInv
  <2> QED
    BY <1>0, <2>1, <2>3, <2>4, <2>5, <2>6 DEF SubscribersInv
<1> QED
  BY <1>1, <1>2, <1>3 DEF SubscriberMoves

\* Every step keeps the identifiers of subscribers unique.
LEMMA SubscribersStep ==
    ASSUME TypeOK, SubscribersInv, Step
    PROVE  SubscribersInv'
<1>1. CASE UNCHANGED <<subscriber, scope, inserted, hadScope, owner>>
  BY <1>1 DEF SubscribersInv
<1> QED
  BY <1>1, StepCases, RequestsLeaveSubscribers, SubscriberEffect DEF vars

\* Every step keeps the owner of an identifier, and the types it has had.
LEMMA HistoryStep ==
    ASSUME TypeOK, SubscribersInv, Step
    PROVE  /\ inserted' \in Nat /\ inserted <= inserted'
           /\ \A s \in Subscribers : s <= inserted => owner'[s] = owner[s]
           /\ \A s \in Subscribers : hadScope[s] \subseteq hadScope'[s]
<1>0. inserted \in Nat
  BY Numbers
<1>1. CASE UNCHANGED <<subscriber, scope, inserted, hadScope, owner>>
  BY <1>0, <1>1
<1> QED
  BY <1>1, StepCases, RequestsLeaveSubscribers, SubscriberEffect DEF vars

-----------------------------------------------------------------------------
(* The queue.                                                              *)

\* What upsert_subscriber_notifications of h leaves in the table.
LEMMA InsertEffect ==
    ASSUME TypeOK, NEW h \in Handlers, Insert(h)
    PROVE  /\ Pairs(h) \subseteq NotificationIds \X Subscribers
           /\ rows' = rows \cup Pairs(h) /\ \A p \in Pairs(h) : p[2] \in Live
           /\ \A p \in NotificationIds \X Subscribers :
                queued'[p] = IF p \in Pairs(h) \ rows THEN queued[p] + 1 ELSE queued[p]
<1>1. Pairs(h) \subseteq NotificationIds \X Subscribers
  BY PairsTypes DEF Insert
<1> QED
  BY <1>1 DEF Insert, TypeOK

\* Only the insert of a request changes the table besides the subscribers.
LEMMA OthersLeaveQueue ==
    ASSUME NEW h \in Handlers, RequestMoves(h), ~Insert(h)
    PROVE  UNCHANGED <<rows, queued>>
BY DEF RequestMoves, Receive, UpsertNotification, Lookup, RateLimit, Respond, Fail,
       Forget, dbVars, histVars

\* Every step keeps queued pairs in the table, and queues each once.
LEMMA QueueStep ==
    ASSUME TypeOK, SubscribersInv, QueueInv, QueuedOnce, Step
    PROVE  QueueInv' /\ QueuedOnce'
<1>0. /\ inserted \in Nat /\ Subscribers \subseteq Nat
      /\ \A p \in NotificationIds \X Subscribers : queued[p] \in Nat /\ queued[p] <= 1
      /\ rows \subseteq NotificationIds \X Subscribers
      /\ DOMAIN queued = NotificationIds \X Subscribers
  BY Numbers DEF QueuedOnce, TypeOK
<1>1. ASSUME NEW h \in Handlers, Insert(h)
      PROVE  QueueInv' /\ QueuedOnce'
  <2>0. UNCHANGED <<subscriber, inserted>>
    BY <1>1 DEF Insert
  <2>1. /\ Pairs(h) \subseteq NotificationIds \X Subscribers
        /\ rows' = rows \cup Pairs(h) /\ \A p \in Pairs(h) : p[2] \in Live
        /\ \A p \in NotificationIds \X Subscribers :
             queued'[p] = IF p \in Pairs(h) \ rows THEN queued[p] + 1 ELSE queued[p]
    BY <1>1, InsertEffect
  <2>2. ASSUME NEW p \in Pairs(h) \ rows
        PROVE  queued[p] = 0
    <3>1. PICK n \in NotificationIds, s \in Subscribers : p = <<n, s>>
      BY <2>1
    <3>2. s \in Live
      BY <2>1, <3>1
    <3>3. ~(queued[p] > 0)
      BY <3>1, <3>2 DEF QueueInv
    <3> QED
      BY <1>0, <3>1, <3>3
  <2>3. \A p \in NotificationIds \X Subscribers : queued'[p] <= 1
    BY <1>0, <2>1, <2>2
  <2>4. \A p \in rows' : queued'[p] > 0
    <3>1. \A p \in rows : queued[p] > 0
      BY DEF QueueInv
    <3>2. \A p \in Pairs(h) \ rows : queued'[p] = 1
      BY <1>0, <2>1, <2>2
    <3> QED
      BY <1>0, <2>1, <3>1, <3>2
  <2>5. ASSUME NEW n \in NotificationIds, NEW s \in Subscribers, queued'[<<n, s>>] > 0
        PROVE  s <= inserted' /\ (<<n, s>> \in rows' \/ s \notin Live')
    <3>1. CASE <<n, s>> \in Pairs(h)
      <4>1. s \in Live
        BY <2>1, <3>1
      <4>2. s <= inserted
        BY <4>1 DEF Live, SubscribersInv
      <4> QED
        BY <2>0, <2>1, <3>1, <4>2
    <3>2. CASE <<n, s>> \notin Pairs(h)
      <4>1. queued[<<n, s>>] > 0
        BY <2>1, <2>5, <3>2
      <4> QED
        BY <2>0, <2>1, <4>1 DEF QueueInv, Live
    <3> QED
      BY <3>1, <3>2
  <2>6. DOMAIN queued' = NotificationIds \X Subscribers
    BY <1>0, <1>1 DEF Insert
  <2> QED
    BY <2>3, <2>4, <2>5, <2>6 DEF QueueInv, QueuedOnce
<1>2. ASSUME NEW d \in Addresses, SubscriberMoves(d)
      PROVE  QueueInv' /\ QueuedOnce'
  <2>1. queued' = queued
    BY <1>2, SubscriberFrame
  <2>2. /\ inserted' \in Nat /\ inserted <= inserted'
        /\ \A s \in Live' : s \in Live \/ s > inserted
        /\ rows' \subseteq rows /\ \A p \in rows \ rows' : p[2] \notin Live'
    BY <1>2, SubscriberEffect
  <2>3. ASSUME NEW n \in NotificationIds, NEW s \in Subscribers, queued[<<n, s>>] > 0
        PROVE  s <= inserted' /\ (<<n, s>> \in rows' \/ s \notin Live')
    <3>1. s \in Nat /\ s <= inserted /\ (<<n, s>> \in rows \/ s \notin Live)
      BY <1>0, <2>3 DEF QueueInv
    <3>2. s <= inserted'
      BY <1>0, <2>2, <3>1
    <3>3. CASE <<n, s>> \in rows
      BY <2>2, <3>2, <3>3
    <3>4. CASE s \notin Live
      <4>1. ~(s > inserted)
        BY <1>0, <3>1
      <4> QED
        BY <2>2, <3>2, <3>4, <4>1
    <3> QED
      BY <3>1, <3>3, <3>4
  <2> QED
    BY <2>1, <2>2, <2>3 DEF QueueInv, QueuedOnce
<1>3. CASE UNCHANGED <<rows, queued, subscriber, inserted>>
  BY <1>3 DEF QueueInv, QueuedOnce, Live
<1> QED
  BY <1>1, <1>2, <1>3, StepCases, OthersLeaveQueue, RequestsLeaveSubscribers DEF vars

\* What is queued stays queued.
LEMMA QueuedStays ==
    ASSUME TypeOK, Step, NEW p \in NotificationIds \X Subscribers, queued[p] > 0
    PROVE  queued'[p] > 0
<1>0. queued[p] \in Nat
  BY Numbers
<1>1. ASSUME NEW h \in Handlers, Insert(h)
      PROVE  queued'[p] > 0
  <2>1. queued'[p] = queued[p] + 1 \/ queued'[p] = queued[p]
    BY <1>1, InsertEffect
  <2> QED
    BY <1>0, <2>1
<1> QED
  BY <1>1, StepCases, OthersLeaveQueue, SubscriberFrame DEF vars

-----------------------------------------------------------------------------
(* Scopes.                                                                 *)

\* upsert_notification leaves the contents of an identifier that exists alone.
LEMMA StoredStays ==
    ASSUME TypeOK, Step, NEW n \in NotificationIds, stored[n] # "none"
    PROVE  stored'[n] = stored[n]
<1>1. ASSUME NEW h \in Handlers, UpsertNotification(h)
      PROVE  stored'[n] = stored[n]
  BY <1>1 DEF UpsertNotification, TypeOK
<1>2. ASSUME NEW h \in Handlers, RequestMoves(h), ~UpsertNotification(h)
      PROVE  stored' = stored
  BY <1>2 DEF RequestMoves, Receive, Lookup, RateLimit, Insert, Respond, Fail, Forget, dbVars
<1> QED
  BY <1>1, <1>2, StepCases, SubscriberFrame DEF vars

\* A type once in the scope of a subscriber is a type, and the notification that
\* has it keeps it.
LEMMA InScopeStays ==
    ASSUME TypeOK, SubscribersInv, Step, NEW n \in NotificationIds, NEW s \in Subscribers,
           stored[n] \in hadScope[s]
    PROVE  stored'[n] \in hadScope'[s]
<1>1. stored[n] # "none"
  BY NotifyAssumption DEF TypeOK
<1> QED
  BY <1>1, StoredStays, HistoryStep

\* Every step keeps what is queued within the scopes.
LEMMA ScopeStep ==
    ASSUME TypeOK, SubscribersInv, ValidInv, ScopeRespected, Step
    PROVE  ScopeRespected'
<1> SUFFICES ASSUME NEW n \in NotificationIds, NEW s \in Subscribers, queued'[<<n, s>>] > 0
             PROVE  stored'[n] \in hadScope'[s]
  BY DEF ScopeRespected
<1>1. stored[n] \in hadScope[s]
  <2>1. CASE queued[<<n, s>>] > 0
    BY <2>1 DEF ScopeRespected
  <2>2. ASSUME NEW h \in Handlers, Insert(h), <<n, s>> \in Pairs(h)
        PROVE  stored[n] \in hadScope[s]
    <3>1. PICK f \in valid[h] : n = Current(h).id /\ s = f.id
      BY <2>2 DEF Pairs
    <3> QED
      BY <2>2, <3>1 DEF Insert, ValidInv
  <2>3. ASSUME NEW h \in Handlers, Insert(h), <<n, s>> \notin Pairs(h)
        PROVE  queued'[<<n, s>>] = queued[<<n, s>>]
    BY <2>3, InsertEffect
  <2> QED
    BY <2>1, <2>2, <2>3, StepCases, OthersLeaveQueue, SubscriberFrame DEF vars
<1> QED
  BY <1>1, InScopeStays

\* What ValidInv says of one subscriber that is about to be sent to.
ValidOK(h, f) ==
    /\ f.id <= inserted
    /\ f.account \in AccountsOf(Current(h))
    /\ owner[f.id] = AddressOf[f.account]
    /\ stored[Current(h).id] \in hadScope[f.id]

\* A subscriber that goes, or changes its scope, does not change what was looked up.
LEMMA ValidStays ==
    ASSUME TypeOK, SubscribersInv, Step, NEW h \in Handlers, pc[h] \in {"lookup", "rate", "insert"},
           body'[h] = body[h], entry'[h] = entry[h], NEW f \in SubscriberInfo, ValidOK(h, f)
    PROVE  ValidOK(h, f)'
<1>1. Current(h).id \in NotificationIds /\ f.id \in Subscribers /\ f.id \in Nat
  BY CurrentTypes DEF SubscriberInfo, Subscribers
<1>2. Current(h)' = Current(h)
  BY DEF Current
<1>3. /\ inserted \in Nat /\ inserted' \in Nat /\ inserted <= inserted'
      /\ owner'[f.id] = owner[f.id]
  BY <1>1, Numbers, HistoryStep DEF ValidOK
<1>4. f.id <= inserted'
  BY <1>1, <1>3 DEF ValidOK
<1>5. stored'[Current(h).id] \in hadScope'[f.id]
  BY <1>1, InScopeStays DEF ValidOK
<1> QED
  BY <1>2, <1>3, <1>4, <1>5 DEF ValidOK

\* Every step keeps what was looked up true.
LEMMA ValidStep ==
    ASSUME TypeOK, SubscribersInv, ValidInv, Step
    PROVE  ValidInv'
<1> SUFFICES ASSUME NEW g \in Handlers, pc'[g] \in {"rate", "insert"}, NEW f \in valid'[g]
             PROVE  ValidOK(g, f)'
  BY DEF ValidInv, ValidOK
<1>1. CASE pc'[g] = pc[g] /\ body'[g] = body[g] /\ entry'[g] = entry[g] /\ valid'[g] = valid[g]
  <2>1. ValidOK(g, f) /\ f \in SubscriberInfo
    BY <1>1 DEF ValidInv, ValidOK, TypeOK
  <2> QED
    BY <1>1, <2>1, ValidStays
<1>2. CASE RequestMoves(g)
  <2>1. CASE Lookup(g)
    <3>1. Current(g) \in Entry /\ f \in Found(Current(g)) /\ InScope(g, f.id) /\ pc[g] = "lookup"
      BY <2>1, CurrentTypes DEF Lookup, TypeOK
    <3>2. /\ f \in SubscriberInfo /\ f.account \in AccountsOf(Current(g))
          /\ f.id = subscriber[AddressOf[f.account]] /\ f.id # NoSubscriber
          /\ AddressOf[f.account] \in Addresses
      BY <3>1, FoundTypes
    <3>3. f.id <= inserted /\ owner[f.id] = AddressOf[f.account]
      BY <3>2 DEF SubscribersInv
    <3>4. stored[Current(g).id] \in hadScope[f.id]
      BY <3>1, <3>2 DEF InScope, SubscribersInv, SubscriberInfo
    <3>5. ValidOK(g, f)
      BY <3>2, <3>3, <3>4 DEF ValidOK
    <3> QED
      BY <2>1, <3>1, <3>2, <3>5, ValidStays DEF Lookup
  <2>2. CASE RateLimit(g)
    <3>1. f \in valid[g] /\ pc[g] = "rate" /\ f \in SubscriberInfo
      BY <2>2 DEF RateLimit, TypeOK
    <3>2. ValidOK(g, f)
      BY <3>1 DEF ValidInv, ValidOK
    <3> QED
      BY <2>2, <3>1, <3>2, ValidStays DEF RateLimit
  <2>3. CASE (\E b \in Bodies : Receive(g, b)) \/ UpsertNotification(g) \/ Insert(g)
    BY <2>3 DEF Receive, UpsertNotification, Insert, Advance, TypeOK
  <2>4. CASE Respond(g) \/ Fail(g)
    BY <2>4 DEF Respond, Fail, Forget, TypeOK
  <2> QED
    BY <1>2, <2>1, <2>2, <2>3, <2>4 DEF RequestMoves
<1> QED
  BY <1>1, <1>2, StepCases, RequestFrame, SubscriberFrame DEF vars

-----------------------------------------------------------------------------
(* Responses.                                                              *)

\* An account whose notification was queued stays one.
LEMMA WasQueuedStays ==
    ASSUME TypeOK, SubscribersInv, QueueInv, Step, NEW h \in Handlers, NEW a, WasQueued(h, a),
           body'[h] = body[h]
    PROVE  WasQueued(h, a)'
<1>1. PICK i \in DOMAIN body[h], s \in Subscribers :
         /\ a \in AccountsOf(body[h][i]) /\ owner[s] = AddressOf[a]
         /\ queued[<<body[h][i].id, s>>] > 0
  BY DEF WasQueued
<1>2. body[h][i].id \in NotificationIds
  <2>1. body[h] \in Seq(Entry)
    BY NotifyAssumption DEF TypeOK
  <2>2. body[h][i] \in Entry
    BY <2>1
  <2> QED
    BY <2>2 DEF Entry
<1>3. s <= inserted
  BY <1>1, <1>2 DEF QueueInv
<1>4. owner'[s] = owner[s]
  BY <1>3, HistoryStep
<1>5. queued'[<<body[h][i].id, s>>] > 0
  BY <1>1, <1>2, QueuedStays
<1> QED
  BY <1>1, <1>4, <1>5 DEF WasQueued

\* Every step keeps who is counted as sent queued, or next to be.
LEMMA SentStep ==
    ASSUME TypeOK, SubscribersInv, QueueInv, QueueInv', ValidInv, SentInv, OutcomeInv, Step
    PROVE  SentInv'
<1> SUFFICES ASSUME NEW g \in Handlers, NEW a \in sent'[g]
             PROVE  WasQueued(g, a)' \/ (pc'[g] = "insert" /\ \E f \in valid'[g] : f.account = a)
  BY DEF SentInv
<1>1. CASE /\ pc'[g] = pc[g] /\ body'[g] = body[g] /\ valid'[g] = valid[g] /\ sent'[g] = sent[g]
  <2>1. WasQueued(g, a) \/ (pc[g] = "insert" /\ \E f \in valid[g] : f.account = a)
    BY <1>1 DEF SentInv
  <2> QED
    BY <1>1, <2>1, WasQueuedStays
<1>2. CASE RequestMoves(g)
  <2>1. CASE \E b \in Bodies : Receive(g, b)
    BY <2>1 DEF Receive, respVars, OutcomeInv, OutcomeOK
  <2>2. CASE UpsertNotification(g) \/ Lookup(g)
    <3>1. a \in sent[g] /\ pc[g] # "insert" /\ body'[g] = body[g]
      BY <2>2 DEF UpsertNotification, Lookup
    <3>2. WasQueued(g, a)
      BY <3>1 DEF SentInv
    <3> QED
      BY <3>1, <3>2, WasQueuedStays
  <2>3. CASE RateLimit(g)
    <3>1. pc'[g] = "insert" /\ pc[g] = "rate" /\ body'[g] = body[g]
      BY <2>3 DEF RateLimit, TypeOK
    <3>2. CASE a \in sent[g]
      <4>1. WasQueued(g, a)
        BY <3>1, <3>2 DEF SentInv
      <4> QED
        BY <3>1, <4>1, WasQueuedStays
    <3>3. CASE a \notin sent[g]
      <4>1. \E f \in valid'[g] : f.account = a
        BY <2>3, <3>3 DEF RateLimit, TypeOK
      <4> QED
        BY <3>1, <4>1
    <3> QED
      BY <3>2, <3>3
  <2>4. CASE Insert(g)
    <3>1. pc[g] = "insert" /\ body'[g] = body[g] /\ a \in sent[g] /\ owner' = owner
      BY <2>4 DEF Insert, respVars
    <3>2. CASE WasQueued(g, a)
      BY <3>1, <3>2, WasQueuedStays
    <3>3. ASSUME NEW f \in valid[g], f.account = a
          PROVE  WasQueued(g, a)'
      <4>1. /\ entry[g] \in DOMAIN body[g] /\ Current(g) = body[g][entry[g]]
        BY <3>1, CurrentTypes
      <4>2. a \in AccountsOf(Current(g)) /\ owner[f.id] = AddressOf[a]
        BY <3>1, <3>3 DEF ValidInv
      <4>3. <<Current(g).id, f.id>> \in rows'
        BY <2>4, InsertEffect DEF Pairs
      <4>4. queued'[<<Current(g).id, f.id>>] > 0
        BY <4>3 DEF QueueInv
      <4>5. f.id \in Subscribers
        BY DEF TypeOK, SubscriberInfo
      <4> QED
        BY <3>1, <4>1, <4>2, <4>4, <4>5 DEF WasQueued
    <3> QED
      BY <3>1, <3>2, <3>3 DEF SentInv
  <2>5. CASE Respond(g) \/ Fail(g)
    BY <2>5 DEF Respond, Fail, Forget, TypeOK
  <2> QED
    BY <1>2, <2>1, <2>2, <2>3, <2>4, <2>5 DEF RequestMoves
<1> QED
  BY <1>1, <1>2, StepCases, RequestFrame, SubscriberFrame DEF vars

\* Two rows found for an entry are named by two accounts, since an account has one
\* address; so those within and those outside a limit have no account in common.
LEMMA FoundApart ==
    ASSUME TypeOK, NEW e \in Entry, NEW f \in Found(e), NEW g \in Found(e),
           f.account = g.account
    PROVE  f = g
<1>1. f = [id |-> f.id, account |-> f.account] /\ f.id = subscriber[AddressOf[f.account]]
  BY FoundTypes
<1>2. g = [id |-> g.id, account |-> g.account] /\ g.id = subscriber[AddressOf[g.account]]
  BY FoundTypes
<1> QED
  BY <1>1, <1>2

\* The failures with reason r that the subscribers S add to a response.
Failures(S, r) == {[account |-> f.account, reason |-> r] : f \in S}

\* The accounts of a response's failures, when some are added.
LEMMA AddedFailures ==
    ASSUME NEW h \in Handlers, NEW S, NEW r, failed'[h] = failed[h] \cup Failures(S, r)
    PROVE  FailedAccounts(h)' = FailedAccounts(h) \cup {f.account : f \in S}
<1> DEFINE Added == Failures(S, r)
<1>1. {x.account : x \in Added} = {f.account : f \in S}
  <2>1. \A x \in Added : \E f \in S : x.account = f.account
    BY DEF Failures
  <2>2. \A f \in S : \E x \in Added : x.account = f.account
    <3>1. ASSUME NEW f \in S PROVE \E x \in Added : x.account = f.account
      <4>1. [account |-> f.account, reason |-> r] \in Added
        BY DEF Failures
      <4> QED
        BY <4>1
    <3> QED
      BY <3>1
  <2> HIDE DEF Added
  <2> QED
    BY <2>1, <2>2
<1>2. failed'[h] = failed[h] \cup Added
  OBVIOUS
<1> HIDE DEF Added
<1>3. FailedAccounts(h)' = {x.account : x \in failed[h] \cup Added}
  BY <1>2 DEF FailedAccounts
<1> QED
  BY <1>1, <1>3 DEF FailedAccounts

\* A part that is moved from sent to failed leaves every account in one place.
LEMMA SplitMoves ==
    ASSUME NEW A, NEW A1, NEW A2, NEW B, NEW C, NEW all,
           Split(A, B, C, all), A = A1 \cup A2, A1 \cap A2 = {}
    PROVE  Split(A1, B \cup A2, C, all)
BY DEF Split

\* The subscribers found are taken out of not_found, and sorted by their scope.
LEMMA LookupOutcome ==
    ASSUME TypeOK, OutcomeInv, NEW h \in Handlers, Lookup(h)
    PROVE  OutcomeOK(h)'
<1> DEFINE e == Current(h)
           found == Found(e)
           ok == {f \in found : InScope(h, f.id)}
<1>0. /\ pc[h] = "lookup" /\ pc'[h] = "rate" /\ body'[h] = body[h] /\ entry'[h] = entry[h]
      /\ sent'[h] = sent[h] /\ valid'[h] = ok
      /\ notFound'[h] = notFound[h] \ {f.account : f \in found}
      /\ failed'[h] = failed[h] \cup {[account |-> f.account, reason |-> "type"] : f \in found \ ok}
  BY DEF Lookup, TypeOK
<1>1. e \in Entry /\ e = body[h][entry[h]]
  BY <1>0, CurrentTypes
<1>2. \A f \in found : f.account \in AccountsOf(e)
  BY <1>1, FoundTypes
<1>3. \A f, g \in found : f.account = g.account => f = g
  BY <1>1, FoundApart
<1>4. FailedAccounts(h)' = FailedAccounts(h) \cup {f.account : f \in found \ ok}
  <2>1. failed'[h] = failed[h] \cup Failures(found \ ok, "type")
    BY <1>0 DEF Failures
  <2> HIDE DEF ok
  <2> QED
    BY <2>1, AddedFailures
<1>5. ok \subseteq found
  OBVIOUS
<1> HIDE DEF e, found, ok
<1>6. ASSUME Len(body[h]) = 1
      PROVE  /\ entry[h] = 1 /\ sent[h] = {} /\ FailedAccounts(h) = {} /\ e = body[h][1]
             /\ notFound[h] = AccountsOf(body[h][1])
  BY <1>0, <1>1, <1>6 DEF OutcomeInv, OutcomeOK, FailedAccounts
<1>7. Len(body[h]) = 1 =>
        Split({f.account : f \in valid'[h]}, FailedAccounts(h)', notFound'[h],
              AccountsOf(body[h][1]))
  BY <1>0, <1>2, <1>3, <1>4, <1>5, <1>6 DEF Split
<1> QED
  BY <1>0, <1>3, <1>5, <1>6, <1>7 DEF OutcomeOK

\* Who is above the rate limit goes to failed, the others to sent.
LEMMA RateLimitOutcome ==
    ASSUME TypeOK, OutcomeInv, NEW h \in Handlers, RateLimit(h)
    PROVE  OutcomeOK(h)'
<1> DEFINE ok == {f \in valid[h] : tokens[f.id] > 0}
<1>0. /\ pc[h] = "rate" /\ pc'[h] = "insert" /\ body'[h] = body[h] /\ entry'[h] = entry[h]
      /\ sent'[h] = sent[h] \cup {f.account : f \in ok}
      /\ notFound'[h] = notFound[h]
      /\ failed'[h] = failed[h] \cup
                        {[account |-> f.account, reason |-> "rate limit"] : f \in valid[h] \ ok}
  BY DEF RateLimit, TypeOK
<1>1. FailedAccounts(h)' = FailedAccounts(h) \cup {f.account : f \in valid[h] \ ok}
  <2>1. failed'[h] = failed[h] \cup Failures(valid[h] \ ok, "rate limit")
    BY <1>0 DEF Failures
  <2> HIDE DEF ok
  <2> QED
    BY <2>1, AddedFailures
<1>2. ok \subseteq valid[h]
  OBVIOUS
<1> HIDE DEF ok
<1>3. ASSUME Len(body[h]) = 1
      PROVE  /\ entry[h] = 1 /\ sent[h] = {}
             /\ Split({f.account : f \in valid[h]}, FailedAccounts(h), notFound[h],
                      AccountsOf(body[h][1]))
             /\ \A f, g \in valid[h] : f.account = g.account => f = g
  BY <1>0, <1>3 DEF OutcomeInv, OutcomeOK
<1>4. ASSUME Len(body[h]) = 1
      PROVE  Split({f.account : f \in ok}, FailedAccounts(h) \cup {f.account : f \in valid[h] \ ok},
                   notFound[h], AccountsOf(body[h][1]))
  <2>1. {f.account : f \in valid[h]} = {f.account : f \in ok} \cup {f.account : f \in valid[h] \ ok}
    BY <1>2
  <2>2. {f.account : f \in ok} \cap {f.account : f \in valid[h] \ ok} = {}
    BY <1>2, <1>3, <1>4
  <2> QED
    BY <1>3, <1>4, <2>1, <2>2, SplitMoves
<1>5. Len(body[h]) = 1 => sent'[h] = {f.account : f \in ok}
  BY <1>0, <1>3
<1> QED
  BY <1>0, <1>1, <1>3, <1>4, <1>5 DEF OutcomeOK

\* Every step keeps what is known of the accounts of a request of one entry.
LEMMA OutcomeStep ==
    ASSUME TypeOK, OutcomeInv, Step
    PROVE  OutcomeInv'
<1> SUFFICES ASSUME NEW g \in Handlers PROVE OutcomeOK(g)'
  BY DEF OutcomeInv
<1>0. OutcomeOK(g)
  BY DEF OutcomeInv
<1>1. CASE /\ pc'[g] = pc[g] /\ body'[g] = body[g] /\ entry'[g] = entry[g]
           /\ valid'[g] = valid[g] /\ sent'[g] = sent[g] /\ failed'[g] = failed[g]
           /\ notFound'[g] = notFound[g]
  <2>1. FailedAccounts(g)' = FailedAccounts(g)
    BY <1>1 DEF FailedAccounts
  <2> QED
    BY <1>0, <1>1, <2>1 DEF OutcomeOK
<1>2. CASE RequestMoves(g)
  <2>1. ASSUME NEW b \in Bodies, Receive(g, b)
        PROVE  OutcomeOK(g)'
    <3>1. /\ pc[g] = "idle" /\ body'[g] = b /\ pc'[g] = IF b = <<>> THEN "done" ELSE "upsert"
          /\ entry'[g] = entry[g] /\ sent'[g] = sent[g] /\ failed'[g] = failed[g]
          /\ notFound'[g] = notFound[g]
      BY <2>1 DEF Receive, TypeOK, respVars
    <3>2. entry[g] = 1 /\ sent[g] = {} /\ failed[g] = {} /\ notFound[g] = {}
      BY <1>0, <3>1 DEF OutcomeOK
    <3>3. Len(b) = 1 => b # <<>>
      OBVIOUS
    <3> QED
      BY <3>1, <3>2, <3>3 DEF OutcomeOK
  <2>2. CASE UpsertNotification(g)
    <3>1. /\ pc[g] = "upsert" /\ pc'[g] = "lookup" /\ body'[g] = body[g] /\ entry'[g] = entry[g]
          /\ sent'[g] = sent[g] /\ failed'[g] = failed[g]
          /\ notFound'[g] = notFound[g] \cup AccountsOf(Current(g))
      BY <2>2 DEF UpsertNotification, TypeOK
    <3>2. Current(g) = body[g][entry[g]]
      BY DEF Current
    <3> QED
      BY <1>0, <3>1, <3>2 DEF OutcomeOK
  <2>3. CASE Lookup(g)
    BY <2>3, LookupOutcome
  <2>4. CASE RateLimit(g)
    BY <2>4, RateLimitOutcome
  <2>5. CASE Insert(g)
    <3>1. /\ pc[g] = "insert" /\ body'[g] = body[g] /\ sent'[g] = sent[g]
          /\ failed'[g] = failed[g] /\ notFound'[g] = notFound[g] /\ pc'[g] \in {"upsert", "done"}
      BY <2>5 DEF Insert, Advance, respVars, TypeOK
    <3>2. Len(body[g]) = 1 => pc'[g] = "done" /\ entry'[g] = 1
      BY <1>0, <2>5 DEF Insert, Advance, OutcomeOK, TypeOK
    <3>3. FailedAccounts(g)' = FailedAccounts(g)
      BY <3>1 DEF FailedAccounts
    <3> QED
      BY <1>0, <3>1, <3>2, <3>3 DEF OutcomeOK
  <2>6. CASE Respond(g) \/ Fail(g)
    <3>1. /\ pc'[g] = "idle" /\ body'[g] = <<>> /\ entry'[g] = 1
          /\ sent'[g] = {} /\ failed'[g] = {} /\ notFound'[g] = {}
      BY <2>6 DEF Respond, Fail, Forget, TypeOK
    <3>2. Len(<<>>) # 1
      OBVIOUS
    <3> QED
      BY <3>1, <3>2 DEF OutcomeOK
  <2> QED
    BY <1>2, <2>1, <2>2, <2>3, <2>4, <2>5, <2>6 DEF RequestMoves
<1> QED
  BY <1>1, <1>2, StepCases, RequestFrame, SubscriberFrame DEF vars

-----------------------------------------------------------------------------
(* The theorems.                                                           *)

\* At start nobody is subscribed and nothing is requested.
LEMMA InitOK == Init => NotifyInv
<1> SUFFICES ASSUME Init PROVE NotifyInv
  OBVIOUS
<1>1. TypeOK
  <2>1. (CHOOSE d \in Addresses : TRUE) \in Addresses
    BY NotifyAssumption
  <2>2. 0 \in 0..MaxSubscribers /\ MaxTokens \in 0..MaxTokens
    BY NotifyAssumption
  <2> QED
    BY <2>1, <2>2 DEF Init, TypeOK
<1>2. SubscribersInv
  BY DEF Init, SubscribersInv, NoSubscriber
<1>3. QueueInv /\ QueuedOnce /\ ScopeRespected
  BY DEF Init, QueueInv, QueuedOnce, ScopeRespected
<1>4. ValidInv /\ SentInv
  BY DEF Init, ValidInv, SentInv
<1>5. OutcomeInv
  BY DEF Init, OutcomeInv, OutcomeOK
<1> QED
  BY <1>1, <1>2, <1>3, <1>4, <1>5 DEF NotifyInv

\* The inductive invariant of the notify endpoint: requests interleave with each
\* other and with subscribers that come, change and go after every statement.
THEOREM NotifyInvariance == Spec => []NotifyInv
<1>1. NotifyInv /\ [Next]_vars => NotifyInv'
  <2> SUFFICES ASSUME NotifyInv, Step PROVE NotifyInv'
    BY DEF Step
  <2>0. /\ TypeOK /\ SubscribersInv /\ QueueInv /\ QueuedOnce /\ ScopeRespected
        /\ ValidInv /\ SentInv /\ OutcomeInv
    BY DEF NotifyInv
  <2>1. TypeOK' /\ SubscribersInv' /\ OutcomeInv'
    BY <2>0, TypeStep, SubscribersStep, OutcomeStep
  <2>2. QueueInv' /\ QueuedOnce' /\ ScopeRespected' /\ ValidInv'
    BY <2>0, QueueStep, ScopeStep, ValidStep
  <2>3. SentInv'
    BY <2>0, <2>2, SentStep
  <2> QED
    BY <2>1, <2>2, <2>3 DEF NotifyInv
<1> QED
  BY <1>1, InitOK, PTL DEF Spec

\* The tables, requests and histories keep their types; the entry a request is at
\* is always one of its body, also when the body is empty.
THEOREM NotifyTypes == Spec => []TypeOK
<1>1. NotifyInv => TypeOK
  BY DEF NotifyInv
<1> QED
  BY <1>1, NotifyInvariance, PTL

\* Whoever the response of handler_impl reports as sent had a notification of the
\* request queued, however many subscribers went meanwhile.
THEOREM SentIsQueued == Spec => []SentMeansQueued
<1>1. NotifyInv => SentMeansQueued
  BY DEF NotifyInv, SentInv, SentMeansQueued
<1> QED
  BY <1>1, NotifyInvariance, PTL

\* A notification is queued only for a subscriber that has had the type of its
\* row in scope (upsert_notification keeps the first contents of an identifier).
THEOREM ScopesRespected == Spec => []ScopeRespected
<1>1. NotifyInv => ScopeRespected
  BY DEF NotifyInv
<1> QED
  BY <1>1, NotifyInvariance, PTL

\* upsert_subscriber_notifications queues a pair once, in retries and races too.
THEOREM PairsQueuedOnce == Spec => []QueuedOnce
<1>1. NotifyInv => QueuedOnce
  BY DEF NotifyInv
<1> QED
  BY <1>1, NotifyInvariance, PTL

\* The response to a request of one entry is a partition of its accounts.
THEOREM OutcomesPartition == Spec => []OutcomePartition
<1>1. NotifyInv => OutcomePartition
  BY DEF NotifyInv, OutcomeInv, OutcomeOK, OutcomePartition
<1> QED
  BY <1>1, NotifyInvariance, PTL
=============================================================================
