------------------------------ MODULE NotifyV1 ------------------------------
(***************************************************************************)
(* POST /v1/{project}/notify for one project: concurrent and repeated      *)
(* requests that queue notifications for the subscribers of the project,   *)
(* while subscribers come, change their scope and go.  An action is one    *)
(* SQL statement or one call of the rate limiter with the local code that  *)
(* follows it.                                                             *)
(*                                                                         *)
(* Account identifiers name a chain and an address; subscribers are found  *)
(* by address.  A request without a notification_id gets a random one: it  *)
(* is a request whose identifier no other request uses.                    *)
(***************************************************************************)
EXTENDS Naturals, FiniteSets, Sequences, FiniteSetsExt

CONSTANTS
    Addresses,      \* blockchain addresses
    Accounts,       \* CAIP-10 account identifiers
    AddressOf,      \* get_address_from_account
    NotificationIds,
    Types,          \* notification types
    Bodies,         \* inputs: request bodies
    Scopes,         \* inputs: scopes of subscribers
    Handlers,       \* concurrent requests
    CountLimit,     \* SUBSCRIBER_NOTIFICATION_COUNT_LIMIT
    MaxTokens,      \* tokens in the rate limit of a subscriber
    MaxSubscribers  \* bound: subscriber rows inserted in one behaviour

Entry == [id : NotificationIds, type : Types, accounts : Seq(Accounts)]

ASSUME NotifyAssumption ==
    /\ Addresses # {} /\ AddressOf \in [Accounts -> Addresses]
    /\ Bodies \subseteq Seq(Entry) /\ Scopes \subseteq SUBSET Types
    /\ CountLimit \in Nat /\ MaxTokens \in Nat /\ MaxSubscribers \in Nat
    /\ "none" \notin Types

Subscribers == 1..MaxSubscribers
NoSubscriber == 0

VARIABLES
    \* Postgres and Redis
    subscriber,  \* subscriber[d]: the row of the address, or NoSubscriber
    scope,       \* scope[s]: the types in subscriber_scope
    stored,      \* stored[n]: the type of the notification row, or "none"
    rows,        \* subscriber_notification: <<notification, subscriber>>
    tokens,      \* tokens[s]: what the subscriber's bucket holds
    \* requests
    pc,
    body,
    entry,       \* index of the entry being handled
    valid,       \* valid_subscribers: [id, account] records
    sent, failed, notFound,
    \* history
    inserted,    \* number of subscriber rows inserted
    hadScope,    \* hadScope[s]: the types s ever had in its scope
    owner,       \* owner[s]: its address
    queued       \* queued[<<n, s>>]: how often the pair was inserted and notified

dbVars   == <<subscriber, scope, stored, rows, tokens>>
respVars == <<sent, failed, notFound>>
histVars == <<inserted, hadScope, owner, queued>>
vars == <<subscriber, scope, stored, rows, tokens, pc, body, entry, valid,
          sent, failed, notFound, inserted, hadScope, owner, queued>>

SubscriberInfo == [id : Subscribers, account : Accounts]
SendFailure == [account : Accounts, reason : {"type", "rate limit"}]

TypeOK ==
    /\ subscriber \in [Addresses -> Subscribers \cup {NoSubscriber}]
    /\ scope \in [Subscribers -> SUBSET Types]
    /\ stored \in [NotificationIds -> Types \cup {"none"}]
    /\ rows \in SUBSET (NotificationIds \X Subscribers)
    /\ tokens \in [Subscribers -> 0..MaxTokens]
    /\ pc \in [Handlers -> {"idle", "upsert", "lookup", "rate", "insert", "done"}]
    /\ body \in [Handlers -> Bodies \cup {<<>>}]
    /\ entry \in [Handlers -> Nat]
    /\ \A h \in Handlers :
         pc[h] \in {"upsert", "lookup", "rate", "insert"} => entry[h] \in 1..Len(body[h])
    /\ valid \in [Handlers -> SUBSET SubscriberInfo]
    /\ sent \in [Handlers -> SUBSET Accounts]
    /\ failed \in [Handlers -> SUBSET SendFailure]
    /\ notFound \in [Handlers -> SUBSET Accounts]
    /\ inserted \in 0..MaxSubscribers
    /\ hadScope \in [Subscribers -> SUBSET Types]
    /\ owner \in [Subscribers -> Addresses]
    /\ queued \in [NotificationIds \X Subscribers -> Nat]

Init ==
    /\ subscriber = [d \in Addresses |-> NoSubscriber]
    /\ scope = [s \in Subscribers |-> {}]
    /\ stored = [n \in NotificationIds |-> "none"]
    /\ rows = {}
    /\ tokens = [s \in Subscribers |-> MaxTokens]
    /\ pc = [h \in Handlers |-> "idle"]
    /\ body = [h \in Handlers |-> <<>>]
    /\ entry = [h \in Handlers |-> 1]
    /\ valid = [h \in Handlers |-> {}]
    /\ sent = [h \in Handlers |-> {}]
    /\ failed = [h \in Handlers |-> {}]
    /\ notFound = [h \in Handlers |-> {}]
    /\ inserted = 0
    /\ hadScope = [s \in Subscribers |-> {}]
    /\ owner = [s \in Subscribers |-> CHOOSE d \in Addresses : TRUE]
    /\ queued = [p \in NotificationIds \X Subscribers |-> 0]

Current(h) == body[h][entry[h]]
AccountsOf(e) == {e.accounts[i] : i \in DOMAIN e.accounts}
Live == {subscriber[d] : d \in Addresses} \ {NoSubscriber}

-----------------------------------------------------------------------------
(* Subscribers, changed by the relay handlers.                             *)

SubscribeOrUpdate(d, types) ==
    LET new == subscriber[d] = NoSubscriber
        s == IF new THEN inserted + 1 ELSE subscriber[d]
    IN  /\ s \in Subscribers
        /\ subscriber' = [subscriber EXCEPT ![d] = s]
        /\ scope' = [scope EXCEPT ![s] = types]
        /\ inserted' = IF new THEN s ELSE inserted
        /\ owner' = [owner EXCEPT ![s] = d]
        /\ hadScope' = [hadScope EXCEPT ![s] = @ \cup types]
    /\ UNCHANGED <<stored, rows, tokens, pc, body, entry, valid, respVars, queued>>

\* The subscriber goes, its rows with it (ON DELETE CASCADE).
Unsubscribe(d) ==
    /\ subscriber[d] # NoSubscriber
    /\ subscriber' = [subscriber EXCEPT ![d] = NoSubscriber]
    /\ scope' = [scope EXCEPT ![subscriber[d]] = {}]
    /\ rows' = {r \in rows : r[2] # subscriber[d]}
    /\ UNCHANGED <<stored, tokens, pc, body, entry, valid, respVars, histVars>>

-----------------------------------------------------------------------------
(* handler_impl.                                                           *)

\* A request passes the project's rate limit, the validation of its entries and
\* the limit on their accounts; the project exists.
Receive(h, b) ==
    /\ pc[h] = "idle"
    /\ MapThenSumSet(LAMBDA i : Len(b[i].accounts), DOMAIN b) <= CountLimit
    /\ body' = [body EXCEPT ![h] = b]
    /\ pc' = [pc EXCEPT ![h] = IF b = <<>> THEN "done" ELSE "upsert"]
    /\ UNCHANGED <<dbVars, entry, valid, respVars, histVars>>

\* upsert_notification: an identifier that exists keeps its contents.
UpsertNotification(h) ==
    LET e == Current(h) IN
    /\ pc[h] = "upsert"
    /\ stored' = [stored EXCEPT ![e.id] = IF @ = "none" THEN e.type ELSE @]
    /\ notFound' = [notFound EXCEPT ![h] = @ \cup AccountsOf(e)]
    /\ pc' = [pc EXCEPT ![h] = "lookup"]
    /\ UNCHANGED <<subscriber, scope, rows, tokens, body, entry, valid, sent, failed, histVars>>

\* chain_agnostic_lookup_table: the last account of the entry with the address.
LookupTable(e, d) ==
    e.accounts[Max({i \in DOMAIN e.accounts : AddressOf[e.accounts[i]] = d})]

\* get_subscribers_for_project_in, each with the account that was asked for.
Found(e) ==
    {[id |-> subscriber[d], account |-> LookupTable(e, d)] :
        d \in {AddressOf[a] : a \in AccountsOf(e)} \cap {x \in Addresses : subscriber[x] # NoSubscriber}}

\* Mutant: the type of the request, not that of the notification row.
InScopeOfRequest(h, s) == Current(h).type \in scope[s]

InScope(h, s) == stored[Current(h).id] \in scope[s]

\* Mutant: accounts that were found stay in not_found.
LookupKeepsNotFound(h) ==
    LET found == Found(Current(h))
        ok == {f \in found : InScope(h, f.id)}
    IN  /\ pc[h] = "lookup"
        /\ failed' = [failed EXCEPT ![h] =
                        @ \cup {[account |-> f.account, reason |-> "type"] : f \in found \ ok}]
        /\ valid' = [valid EXCEPT ![h] = ok]
        /\ pc' = [pc EXCEPT ![h] = "rate"]
        /\ UNCHANGED <<dbVars, body, entry, sent, notFound, histVars>>

\* The lookup, and the loop that sorts out who is not subscribed to the type.
Lookup(h) ==
    LET found == Found(Current(h))
        ok == {f \in found : InScope(h, f.id)}
    IN  /\ pc[h] = "lookup"
        /\ notFound' = [notFound EXCEPT ![h] = @ \ {f.account : f \in found}]
        /\ failed' = [failed EXCEPT ![h] =
                        @ \cup {[account |-> f.account, reason |-> "type"] : f \in found \ ok}]
        /\ valid' = [valid EXCEPT ![h] = ok]
        /\ pc' = [pc EXCEPT ![h] = "rate"]
        /\ UNCHANGED <<dbVars, body, entry, sent, histVars>>

\* Mutant: every subscriber pays, whatever its bucket holds.
PayUnchecked(h) == [s \in Subscribers |-> IF \E f \in valid[h] : f.id = s THEN tokens[s] - 1 ELSE tokens[s]]

Pay(h) ==
    [s \in Subscribers |->
       IF tokens[s] > 0 /\ \E f \in valid[h] : f.id = s THEN tokens[s] - 1 ELSE tokens[s]]

\* subscriber_rate_limit, and who is within it: they count as sent from here on.
RateLimit(h) ==
    LET ok == {f \in valid[h] : tokens[f.id] > 0} IN
    /\ pc[h] = "rate"
    /\ tokens' = Pay(h)
    /\ failed' = [failed EXCEPT ![h] =
                    @ \cup {[account |-> f.account, reason |-> "rate limit"] : f \in valid[h] \ ok}]
    /\ valid' = [valid EXCEPT ![h] = ok]
    /\ sent' = [sent EXCEPT ![h] = @ \cup {f.account : f \in ok}]
    /\ pc' = [pc EXCEPT ![h] = "insert"]
    /\ UNCHANGED <<subscriber, scope, stored, rows, body, entry, notFound, histVars>>

\* The next entry, or the response.
Advance(h) ==
    IF entry[h] < Len(body[h])
      THEN /\ entry' = [entry EXCEPT ![h] = @ + 1]
           /\ pc' = [pc EXCEPT ![h] = "upsert"]
      ELSE /\ pc' = [pc EXCEPT ![h] = "done"]
           /\ UNCHANGED entry

Pairs(h) == {<<Current(h).id, f.id>> : f \in valid[h]}

\* Mutant: subscribers that have gone are left out silently.
InsertSkipsMissing(h) ==
    LET new == {p \in Pairs(h) \ rows : p[2] \in Live} IN
    /\ pc[h] = "insert"
    /\ rows' = rows \cup new
    /\ queued' = [p \in DOMAIN queued |-> IF p \in new THEN queued[p] + 1 ELSE queued[p]]
    /\ Advance(h)
    /\ UNCHANGED <<subscriber, scope, stored, tokens, body, valid, respVars,
                   inserted, hadScope, owner>>

\* Mutant: ON CONFLICT DO UPDATE queues a pair that was there.
InsertAgain(h) ==
    LET new == Pairs(h) IN
    /\ pc[h] = "insert"
    /\ \A p \in Pairs(h) : p[2] \in Live
    /\ rows' = rows \cup new
    /\ queued' = [p \in DOMAIN queued |-> IF p \in new THEN queued[p] + 1 ELSE queued[p]]
    /\ Advance(h)
    /\ UNCHANGED <<subscriber, scope, stored, tokens, body, valid, respVars,
                   inserted, hadScope, owner>>

\* upsert_subscriber_notifications: pairs that are there are left alone.  One
\* subscriber that has gone fails the whole statement: that is Fail.
Insert(h) ==
    LET new == Pairs(h) \ rows IN
    /\ pc[h] = "insert"
    /\ \A p \in Pairs(h) : p[2] \in Live
    /\ rows' = rows \cup new
    /\ queued' = [p \in DOMAIN queued |-> IF p \in new THEN queued[p] + 1 ELSE queued[p]]
    /\ Advance(h)
    /\ UNCHANGED <<subscriber, scope, stored, tokens, body, valid, respVars,
                   inserted, hadScope, owner>>

Forget(h) ==
    /\ pc' = [pc EXCEPT ![h] = "idle"]
    /\ body' = [body EXCEPT ![h] = <<>>]
    /\ entry' = [entry EXCEPT ![h] = 1]
    /\ valid' = [valid EXCEPT ![h] = {}]
    /\ sent' = [sent EXCEPT ![h] = {}]
    /\ failed' = [failed EXCEPT ![h] = {}]
    /\ notFound' = [notFound EXCEPT ![h] = {}]
    /\ UNCHANGED <<dbVars, histVars>>

Respond(h) == pc[h] = "done" /\ Forget(h)

\* A statement fails, or the server dies: an error, and the entries before this
\* one stay queued.
Fail(h) == pc[h] \in {"upsert", "lookup", "rate", "insert"} /\ Forget(h)

Next ==
    \/ \E d \in Addresses : Unsubscribe(d) \/ \E types \in Scopes : SubscribeOrUpdate(d, types)
    \/ \E h \in Handlers :
         \/ \E b \in Bodies : Receive(h, b)
         \/ UpsertNotification(h) \/ Lookup(h) \/ RateLimit(h) \/ Insert(h)
         \/ Respond(h) \/ Fail(h)

Spec == Init /\ [][Next]_vars

-----------------------------------------------------------------------------
(* Properties.                                                             *)

\* A notification of the request h was queued for a subscriber with the address
\* of the account a, which the request names.
WasQueued(h, a) ==
    \E i \in DOMAIN body[h], s \in Subscribers :
        /\ a \in AccountsOf(body[h][i])
        /\ owner[s] = AddressOf[a]
        /\ queued[<<body[h][i].id, s>>] > 0

\* An account reported as sent has had its notification queued: a subscriber
\* that goes between the lookup and the insert makes the request fail instead.
SentMeansQueued ==
    \A h \in Handlers : pc[h] = "done" => \A a \in sent[h] : WasQueued(h, a)

\* Whatever requests with the same notification_id and other contents came
\* first, a notification is queued only for a subscriber whose scope has had the
\* type it is going to be delivered with.
ScopeRespected ==
    \A n \in NotificationIds, s \in Subscribers :
        queued[<<n, s>>] > 0 => stored[n] \in hadScope[s]

\* Retried and concurrent requests queue a notification at most once for each
\* subscriber.
QueuedOnce == \A p \in DOMAIN queued : queued[p] <= 1

FailedAccounts(h) == {f.account : f \in failed[h]}

\* Every member of all is in exactly one of A, B and C.
Split(A, B, C, all) == A \cup B \cup C = all /\ A \cap B = {} /\ C \cap (A \cup B) = {}

\* The response to a request of one entry puts every account in exactly one of
\* sent, failed and not_found.
OutcomePartition ==
    \A h \in Handlers : pc[h] = "done" /\ Len(body[h]) = 1 =>
        Split(sent[h], FailedAccounts(h), notFound[h], AccountsOf(body[h][1]))

-----------------------------------------------------------------------------
(* The inductive strengthening of the invariants.                          *)

\* A subscriber row keeps its address, and is not named again.
SubscribersInv ==
    /\ \A d \in Addresses :
         /\ subscriber[d] <= inserted
         /\ subscriber[d] # NoSubscriber => owner[subscriber[d]] = d
    /\ \A s \in Subscribers : scope[s] \subseteq hadScope[s]

\* A pair that was queued is still there, unless its subscriber has gone.
QueueInv ==
    /\ \A p \in rows : queued[p] > 0
    /\ \A n \in NotificationIds, s \in Subscribers :
         queued[<<n, s>>] > 0 => s <= inserted /\ (<<n, s>> \in rows \/ s \notin Live)

\* Who is about to be sent the current entry was asked for, and had its type in
\* scope at the lookup.
ValidInv ==
    \A h \in Handlers : pc[h] \in {"rate", "insert"} =>
        \A f \in valid[h] :
            /\ f.id <= inserted
            /\ f.account \in AccountsOf(Current(h))
            /\ owner[f.id] = AddressOf[f.account]
            /\ stored[Current(h).id] \in hadScope[f.id]

\* Who is counted as sent is queued, or is in the statement that comes next.
SentInv ==
    \A h \in Handlers : \A a \in sent[h] :
        WasQueued(h, a) \/ (pc[h] = "insert" /\ \E f \in valid[h] : f.account = a)

\* What is known of the accounts of a request of one entry, step by step.
OutcomeOK(h) ==
    LET accounts == AccountsOf(body[h][1])
        nothing == sent[h] = {} /\ failed[h] = {}
    IN  /\ pc[h] = "idle" => /\ body[h] = <<>> /\ entry[h] = 1
                             /\ nothing /\ notFound[h] = {}
        /\ Len(body[h]) = 1 =>
             /\ entry[h] = 1
             /\ pc[h] = "upsert" => nothing /\ notFound[h] = {}
             /\ pc[h] = "lookup" => nothing /\ notFound[h] = accounts
             /\ pc[h] = "rate" =>
                  /\ sent[h] = {}
                  /\ Split({f.account : f \in valid[h]}, FailedAccounts(h), notFound[h], accounts)
                  /\ \A f, g \in valid[h] : f.account = g.account => f = g
             /\ pc[h] \in {"insert", "done"} =>
                  Split(sent[h], FailedAccounts(h), notFound[h], accounts)

OutcomeInv == \A h \in Handlers : OutcomeOK(h)

NotifyInv ==
    /\ TypeOK /\ SubscribersInv /\ QueueInv /\ QueuedOnce /\ ScopeRespected
    /\ ValidInv /\ SentInv /\ OutcomeInv
=============================================================================
