# TLA+ models of the WalletConnect Notify server

Notify Server lets an app (a *project*) send notifications to the accounts that
subscribed to it. Clients speak to it through the WalletConnect relay, projects
over HTTP. This directory holds TLA+ modules translated from the Rust sources,
TLC configurations that check them on small instances, and TLAPS proofs of their
safety properties.
`PROJECT.json` maps every definition to the lines it models.

Run a model with `tlc -config X.cfg M`, a proof with `tlapm PublisherProofs.tla`.

## The system

| Component | State | Operations | Talks to |
|---|---|---|---|
| Publisher service (`services/publisher_service`) | rows of `subscriber_notification` (status, updated_at), worker tasks, `spawned_tasks_counter`, the pg_notify listener | pick, publish, write status, give up, dead-letter check, spawn on wake-up | Postgres triggers, relay |
| Relay webhook (`relay_webhook/mod.rs`) | none of its own | dispatches an accepted message by tag; sends the receipt of a queued one to the mailbox clearer | relay, the handlers |
| Subscription handlers (`notify_subscribe`, `notify_update`, `notify_delete`, `notify_watch_subscriptions`) | tables `subscriber`, `subscriber_scope`, `subscription_watcher`; subscriptions at the relay | upsert, update, delete, watch; answer and pushes to watchers | Postgres, relay |
| Relay renewal job (`relay_renewal_job`) | `renew_all_topics_lock`, the webhook and the subscriptions at the relay | registers the webhook and resubscribes every topic, at start and daily | Postgres, relay |
| Watcher expiration job | none | deletes expired watchers hourly | Postgres |
| Notify endpoint (`notify_v1`, `notify_v0`) | tables `notification`, `subscriber_notification`; the response | validate, look up, rate limit, insert | Postgres, Redis |
| Notifications of a subscriber (`notify_get_notifications`, `notify_mark_notifications_as_read`) | `is_read` | page, mark as read | Postgres |
| Rate limiter (`rate_limit`) | one Redis hash per key | the token-bucket script | Redis |
| Mailbox clearing service | two bounded channels, a batch buffer | batch, time out, hand to the relay, drop on error | relay |
| Identity verification, registry authentication | caches in Redis | verify, cache | keys server, registry, chain RPC |
| Project registration (`subscribe_topic`) | table `project` | upsert, subscribe the topic | Postgres, relay |

What is hard here: every handler is a sequence of statements without a common
transaction, and handlers interleave at each await; workers of several instances
share a queue without holding locks; the queue's wake-ups are not durable; calls
to the relay may fail after they took effect; detached tasks run at any time;
processes crash between any two steps. The list `hazards` in `PROJECT.json` names
each such place and the properties that watch it.

## Modules

| Module | Models | Extended by |
|---|---|---|
| `Delivery` | the abstract specification of the publisher service | (instantiated by `Publisher`) |
| `Publisher` | publisher service, its triggers, crashes, time | `MCPublisher`, `PublisherProofs` |
| `Subscriptions` | the four subscription handlers, watchers and their expiration job, relay subscriptions, welcome notifications | `MCSubscriptions`, `SubscriptionsProofs` |
| `RelayTopics` | project registration, start of the server, relay renewal job, times to live at the relay | `RelayTopicsProofs` |
| `NotifyV1` | `handler_impl` of the notify endpoint | `MCNotifyV1`, `NotifyV1Proofs` |
| `Notifications` | paging and marking as read | `NotificationsProofs` |
| `TokenBucket` | `token_bucket.lua` and its callers' view | `TokenBucketProofs` |
| `MailboxBatcher` | the mailbox clearing service | `MailboxBatcherProofs` |
| `Credentials` | `verify_identity` and the registry's authentication, with their Redis caches | `MCCredentials`, `CredentialsProofs` |

The `MC` modules only give constants their values and define symmetry sets.
Operators whose comment begins with "Mutant" are plausible mistakes; each breaks
one property, which shows that the property can fail.

### Publisher

One action per SQL statement, await or atomic operation of a worker. `status`,
`updatedAgo` and `createdAgo` are the columns the service reads, times kept as
ages that stop one tick past the largest threshold they are compared with, which
no comparison can tell from the real value. `pc[t]` follows a task through
`process_queued_messages`: `pick` and `select` are the two statements of
`pick_subscriber_notification_for_processing`, `process` is
`process_notification` under its timeout, `decide` and the `set...` states are
the status update. `counter` and `listener` are `spawned_tasks_counter` and the
loop of `start`, in which the test of the limit (`Recv`) and the increment
(`Spawn`) are separate. `PgNotify` is the trigger: only instances that have
executed LISTEN get a wake-up. Other handlers appear as inserts, deletes and row
locks. Faults (failed statements, with or without effect, listener reconnects,
crashes) are bounded by `MaxFaults`. `heldFor`, `relayed`, `refused`, `late` and
`faults` are history. A publish that fails may still have been taken by the relay,
and one that succeeds may have been refused: `publish_relay_message` turns
`MailboxLimitExceeded` into `Ok(())` (`PublishMailboxFull`).

`Rows` are the rows whose fate is followed; all the others are `others`, which only
says whether one of them can be picked. They come with a wake-up (`OtherTraffic`),
are deleted, locked and unlocked (`OtherRowsChange`), compete for the pick, which
takes any queued row (`PickOther`), and occupy a worker until it has written them or
failed (`OtherDone`, `OtherErr`), possibly back to queued.

### Delivery

What the service promises, without workers, leases or wake-ups: a notification is
pending until the relay has answered for it or its time is over, then has a true
outcome that does not change. "published" is true of a notification that the relay
took or refused for a full mailbox: the row does not tell which, and the comment in
`publish_relay_message` accepts it, since clients fetch old notifications anyway. Rows whose status a late worker has written are `disputed`:
their outcome may be written again, but is true even then. `Publisher!Delivers` is
the refinement: queued and processing are pending, `taken` is `relayed`, `refused` is itself,
`disputed` is `late`, and `overdue` compares `created_at` with the give-up time. Picking,
retries, leases, the counter, wake-ups and restarts are stuttering steps of it.

### Subscriptions

One account and its clients. A handler goes through `pc`: upsert, getWelcome,
welcome, relay, collect, watchers, send; the watch handler through its own states.
The project may change its welcome setting between any two of them (`owed` are the
rows for which the handler has found it enabled, `excused` those whose handler then
failed). Every committed change of the subscriber table has a number (`version`),
and a new row's random topic is the number of the change that inserted it. `snap` and `snapAt` are
what `collect_subscriptions` read; `informed` and `revealed` record what was
published to whom; a publish refused for a full mailbox counts, as it does in the
code. `Fail` stands for an error of any statement: an error answer,
and no pushes. The count of `upsert_subscription_watcher` and its commit are two
steps, since concurrent statements do not see each other.

### RelayTopics

One server, its database and the relay, over days. `project` and `subscriber` are
the topics in Postgres (the n-th row inserted has topic n, which stands for its
keys too), `age` the days since a topic was subscribed at the relay, which forgets
it after `TTL` of them; `webhook` likewise. `SubscribeTopic`, `NotifySubscribe` and
`NotifyDelete` are what the three handlers do to topics; `call[h]` is a handler
between its upsert and `subscribe_relay_topic`. The server goes from `down` through
`starting`, where the first job has to succeed, to `up`. `job` is the next await of
the renewal job: register the webhook, read the subscribers' topics, read the
projects' topics, take the lock; then the renewal task renews `renewing` in any
order. A day passes only when requests and the job are done, but a renewal may take
up to `MaxRenewDays`, and a job that meets it starts none. Every call of the job, of
a handler and of a task may fail (with or without effect at the relay) and the
server may crash, `MaxFaults` times in all.

`NothingLapses` needs `TTL > 2 * MaxRenewDays + 1`: a topic inserted right after a
renewal has read its topics is first renewed by the last call of the next renewal,
which may end that many days later. The bound is tight (TLC finds a topic lapsed at
`TTL = 2 * MaxRenewDays + 1`); with the 30 days of the code a renewal may take 14.

### NotifyV1, Notifications, TokenBucket, MailboxBatcher

`NotifyV1` runs requests entry by entry through upsert, lookup, rate limit and
insert, with subscribers changing in between; buckets are counters that are not
refilled (`TokenBucket` models the refill). `Notifications` lets one client page in
either order while rows are inserted, committed late, marked and deleted with their
subscriber; the two queries of a page are two steps. `TokenBucket` runs the Lua script over any set of keys,
with key expiry. It has one clock: in the code every instance sends its own time to
the script and Redis expires keys by its own, so what is shown holds for clocks that
agree. `MailboxBatcher` follows receipts through both channels to a call of
`batch_receive`; a call that returns an error drops its batch, and the service goes
on (`returned` are the receipts of calls that returned, `failed` those of calls that
returned an error).

### Credentials

One credential: an identity key, whose CACAO the keys server holds, or a project
secret, which the registry knows; `kind` never changes. `upstream` is what that
service answers now and `age` how long ago it last gave each answer. A request
goes through get, fetch, (for the registry) set, and check; the keys server's answer
is written by a spawned task (`write`), only if it is a CACAO and ignoring errors,
the registry's is written before the request goes on, negative or not, and an error
of that write fails the request. `AuthorizedApp` is what a CACAO authorizes, by its
recap or its statement; nbf and exp are compared at every use, also of a cached
CACAO. The signature of a CACAO is fixed (`signed`), but that of a contract wallet is
checked by a call to its chain, which may fail and refuse the request (`VerifyErr`).
`Delay` is the longest time between two steps of a request or before a
spawned write: the code sets no such limit, so the bounds below are relative to it.

## Runs

| Run | Checks | Bounds |
|---|---|---|
| `PublisherOneRow` | types; `CounterExact`, `OutcomeIsTrue`, `LeaseExclusive`, `NoOrphanWithoutFault`, `OutcomeIsFinal`, `Delivers` | one row, two workers of one instance, both thresholds one tick, two faults |
| `PublisherLive` | `ProcessingEnds`, `QueuedSettles` | one row and any others, one worker, so that every wake-up during work is dropped; two faults |
| `PublisherLostWakeup` | finds `GivenUpSettlesWhenQuiet` violated | one row, no others, one worker, no fault |
| `SubscriptionsRelay` | types; `LiveTopicKept`, `WelcomeOnce` | one app, two handlers, all four methods, three changes: subscribe, delete, subscribe again; welcome setting, watcher expiry and crash at any time |
| `SubscriptionsWatchers` | `AuthorizationRespected`, `NoWatcherMissed` | two apps, a client for all apps and one limited to an app, two handlers |
| `RelayTopics` | types; `AnsweredKeysLast`, `NothingLapses`, `LiveTopicServed`, `DeletedTopicDropped` | one project, one domain, one handler, two rows (of a project and of a subscriber), renewals that may last into the next day, subscriptions of four days, two faults |
| `NotifyV1` | types; `SentMeansQueued`, `ScopeRespected`, `QueuedOnce`, `OutcomePartition` | two addresses, one of them on two chains; two requests that share a notification_id but not the type, one of them with two entries; a body without entries |
| `Notifications` | types; `PagingComplete`, `NoRepeat`, `NoMoreUnreadIsTrue` | three rows, three instants, pages of one and two |
| `NotificationsUnreadFirst` | finds `UnreadFirstComplete` violated | three rows |
| `TokenBucket` | types; `WithinRate`, `ResetIsExact` | one key (keys do not interact), buckets of three, two tokens every three ticks, ten ticks: several refills and key expiries |
| `MailboxBatcher` | types; `NothingLostOrReordered`, `BatchSizes`, `EveryReceiptHandedOver` | batches of three, channels of two, nine receipts, so that both channels fill |
| `Credentials` | types; `VouchedFor`, `RejectedForCause`, `Recovers` | two requests, two CACAOs (one of a contract wallet, one for another account), one fault, a delay of one, times to live of one and two |

The bounds are the smallest at which the hazard can happen: two workers to race
for a row, thresholds of one tick so that "before", "at" and "after" differ, three
changes so that a topic is replaced while its unsubscribe is pending, three rows
so that a page has a row before and after it. In `RelayTopics` a renewal that
lasts into the next day is the shortest that a job meets under way, and four days
are the shortest time to live that its assumption then allows; two faults let a handler and the renewal that would repair
its topic fail one after the other. Two projects, domains and handlers, needed for
the conflict of domains and for two registrations at once, are too many states for
the liveness properties; the proofs of the invariants cover them.

### What the violated properties show

* `GivenUpSettlesWhenQuiet`: the initial workers start before LISTEN, and a wake-up that
  arrives at `MAX_WORKERS` is dropped. A row queued at such a moment waits for the
  next wake-up of any row; without one it is never retried nor marked failed,
  although the comment on `PUBLISHING_GIVE_UP_TIMEOUT` calls it the maximum time
  before a message is considered failed.
  With traffic that goes on, and that the workers keep up with, it settles
  (`QueuedSettles`).
* `UnreadFirstComplete`: `after_clause` reads the cursor's present `is_read`. If the
  last row of a page is marked as read before the next page is asked for, all rows
  still unread come before the cursor and are skipped.

Further observations have no run. The pick takes any queued row (`LIMIT 1` without
`ORDER BY`), and only a row that was picked and could not be published is compared
with the give-up time: under load that never lets the queue run empty each pick may
take another row, and a row stays queued past that time for ever. TLC finds that
behaviour, a loop of `PickOther` and `OtherDone`, when `KeepsUp` is taken out of
`QueuedSettles`. `pick_subscriber_notification_for_processing`
returns `None` both for an empty queue and for a row deleted between its two
statements, so a worker may stop while rows are queued; and a worker that writes
its status after the dead-letter check gave its row to another one overwrites that
one's status, which is why `LeaseExclusive` and `OutcomeIsFinal` leave out rows a
late worker has written. `mark_all_notifications_as_read_for_project` compares
`subscriber_notification.id` with ids of subscribers, so it marks nothing.
In `notify_v1` the response sets accumulate over the entries of a body while the
test after each entry compares them with that entry alone, so it logs an error for
a correct request with two entries. `from_jwt` compares the present time in
milliseconds with `iat` in seconds, so `NotYetValid` never happens for a date of
our time. A status of the registry that is not a success is cached as "not valid":
`RejectedForCause` counts it as a cause, and `Recovers` shows that it passes.

### Fairness

`Publisher!Fairness`: the runtime polls tasks and the listener loop, a dead
instance is started again, row locks are released, time passes and the
dead-letter task wakes every minute. The relay promises nothing: a publish ends at
the latest by its timeout. A status update that waits for room or for a lock gets
it eventually (SF). `QueuedSettles` moreover assumes `Busy`, that other
notifications keep arriving, and `KeepsUp`, that if workers look at the queue again
and again, then again and again one of them finds no other row there. Neither is a
property of the code: they say for which load the property is claimed, which needs
both (see the lost wake-up and the starved row above). Which of several rows a pick takes is left
open throughout. `RelayTopics!Fairness`: a server that ended is started
again, the job, the renewal task and spawned tasks are polled, and days pass
however many requests come (SF, since each request delays the day). Errors and
crashes are not assumed away but finitely many, which is what the comment in
`refresh_topic_subscriptions.rs` relies on ("all topics should be renewed
eventually"). `MailboxBatcher`: both loops are polled
and a call to the relay returns, with or without an error. `Credentials`: clients try
again, Redis, the keys server, the registry and the chains answer in the end, spawned tasks run and time passes;
their errors are not assumed away but bounded by `MaxFaults`.

## Proofs

`PublisherProofs` proves, for any finite sets of rows and tasks, any instances,
thresholds, numbers of faults and bounds that satisfy `PublisherAssumption`:

* `PublisherInvariance`: `Spec => []PublisherInv`, the inductive invariant;
* `CounterCorrect`, `OutcomesCorrect`, `LeaseCorrect`, `NoOrphan`: the four safety
  invariants, each a part of it;
* `OutcomesFinal`: the action property `OutcomeIsFinal`.

The invariants are not inductive alone. `HeldInv` ties a task's row to its place in
the loop. `CounterInv` adds that the counter is below the limit between its test
and its increment, since only decrements happen there, and that nothing runs on an
instance that is down. `OutcomeInv` adds that what a task is about to write is
already true: the relay has answered for it, by taking it or by a full mailbox, or its
time is over. `LeaseInv` adds why leases exclude: as long as no late task has
written the row, it is still in processing with an `updated_at` as old as the
hold, so it is neither queued nor stale. Each part has a lemma that every step
preserves it, with one case per action.

The assumptions: `StartWorkers <= MaxWorkers` (both are 50) and enough task slots
per instance; TLC evaluates them in every Publisher run.

It also proves the refinement, `PublisherDelivers`: `Spec => Delivers`. The initial states agree; then there is one lemma per kind of step.
That an outcome is true when it is recorded comes from `OutcomeInv`, that only a
pending row gets one, or a disputed one, from `LeaseInv` and `HeldInv`.

`RelayTopicsProofs` proves, for any projects, domains, handlers, rows, faults and
any `TTL > 2 * MaxRenewDays + 1`:

* `RelayTopicsInvariance`: `Spec => []RelayTopicsInv`;
* `KeysLast` and `RenewedInTime`: the invariants `AnsweredKeysLast` and
  `NothingLapses`.

`RowsInv` says that no two rows share a topic and that a topic about to be
unsubscribed belongs to no row, which is why a late unsubscribe cannot cut off a live
one. `KeysInv` adds to `AnsweredKeysLast` that a handler about to answer holds the
keys of the row. `AgeInv` bounds every subscription's age by `AgeBound`, which
depends on where the job and the renewal are: in a renewal, a topic still to be
renewed may be as old as the one before could take, a day and the days of this one,
and any other is not older than this renewal; what the job has not read when
it takes the lock was subscribed today. Before the server is first up there are no
rows. `AgeInv` only holds while no fault has happened, like `NothingLapses`.

`CredentialsProofs` proves, for any CACAOs, number of requests, times to live,
delay and faults that satisfy `CredentialsAssumption`:

* `CredentialsInvariance`: `Spec => []Inv`;
* `AcceptedIsVouchedFor` and `RefusalsHaveCause`: the action properties
  `VouchedFor` and `RejectedForCause`.

The invariant follows an answer on its way: it is no older than its spawned task or
its request before it is written (`WriteInv`, `SetInv`), in Redis its age and the
time left add up to at most the time to live and one delay (`EntryInv`), and a
request acts on it within another (`CheckInv`). The bounds are tight: TLC finds a
behaviour that reaches them.

`SubscriptionsProofs` proves, for any apps, clients, handlers, scopes, limit of
watchers and number of changes that satisfy `SubscriptionsAssumption`:

* `SubscriptionsInvariance`: `Spec => []SubscriptionsInv`;
* `LiveTopicsKept`, `WelcomedOnce`, `IdentitiesRespected`, `WatchersReached`: the
  invariants `LiveTopicKept`, `WelcomeOnce`, `AuthorizationRespected` and
  `NoWatcherMissed`.

`HandlerInv` ties the place of a handler to its request. `RowsInv` is why an
unsubscribe that comes late hurts nobody: a topic belongs to one app and to no row
that comes later, since a new topic is the number of a change still to come, so the
topic a delete hands to its detached task is in no row any more. `WelcomeInv`: only
the handler that inserted a row is between the insert and the welcome of that row,
and no welcome was queued before. `AuthorizationInv` follows a limited client's app
from its request to its watcher, to what is read for it and to the messages
prepared for it, since the watcher may be replaced between any two of these.
`SnapshotInv`: the snapshot of a handler is at least as new as its change, and a
watcher registered since has a number at least as large. The assumption that no
app is called "none" separates the record for "no watcher" from a watcher.

`NotifyV1Proofs` proves, for any accounts, addresses, bodies, scopes, limits and
handlers that satisfy `NotifyAssumption`:

* `NotifyInvariance`: `Spec => []NotifyInv`;
* `SentIsQueued`, `ScopesRespected`, `PairsQueuedOnce`, `OutcomesPartition`: the
  invariants `SentMeansQueued`, `ScopeRespected`, `QueuedOnce` and
  `OutcomePartition`.

`SubscribersInv`: an identifier is never given to a second address. `QueueInv`: a
pair that was once queued is still there or its subscriber has gone, so the conflict
clause of the insert keeps it from being queued again. `ValidInv`: a subscriber
found by the lookup had the stored type in scope, and it keeps having had it,
whatever is done to it before the insert. `SentInv`: whoever is counted as sent is
queued or in the statement that comes next. `OutcomeInv` tells, for a request of one
entry, which accounts are in which set at every step; it needs that an account has
one address and so one row. The proof of `TypeOK` failed at first for a body without
entries, which the code accepts and the type invariant did not: the invariant was
corrected and the run now has such a body.

`TokenBucketProofs` proves, for any keys, size and rate of a bucket, interval and
length of behaviour (`MaxNow` is a bound of the runs only):

* `RateLimitInvariance`: `Spec => []RateLimitInv`;
* `RateLimited` and `AnswersExact`: the invariants `WithinRate` and `ResetIsExact`.

`BucketInv`: the bucket in Redis is the one the last answer tells of, it does not
expire before it would be full, and nothing was granted since its next refill.
`SpentInv` is the accounting: what was granted since an instant `a`, and what is left
in the bucket, is at most a full bucket and `m` refills, for every `m` of them that
reach from `a` to the last refill. A request pays for what it takes, and
a refill pays for what it adds. A key that has expired is the
hard case: a full bucket appears from nothing, and it may, because by then enough
refills have passed to make the old one full.

`MailboxBatcherProofs` proves, for any batch size of two and more and any capacity of
the channels:

* `BatcherInvariance`: `Spec => []BatcherInv`, with `BatcherTypes` and
  `BatchesSized`, the assertions of `send_batch`;
* `ReceiptsInOrder`: the invariant `NothingLostOrReordered`.

`BatcherInv` adds to the sizes that a buffer still being filled has room for one
more. `NothingLostOrReordered` is about `Held`, the receipts in all places in the
order in which they will be cleared; the lemma `HeldStep` says that every step but
the end of the service leaves it as it is or appends the receipt just sent.

`NotificationsProofs` proves, for any number of rows and instants (`MaxId` and
`MaxNow` are bounds of the runs only), any limits and both orders:

* `NotificationsInvariance`: `Spec => []NotificationsInv`;
* `PagesComplete`, `PagesDistinct`, `NoMoreUnreadHolds`: the invariant
  `PagingComplete` and the action properties `NoRepeat` and `NoMoreUnreadIsTrue`.

Every set of rows can be listed in the order of `order_by_clause`, by putting one
row more at its place in a sorted list (`SortedInsert`), so a page is the beginning
of the rows that follow the cursor, and all of them without `has_more`
(`PageRows`). `ByTimeInv`: by time, what was seen is at or before the cursor, and
what was there and is not seen follows it. `NoMoreInv`: an unread row that was there
at an answer "no more unread" does not follow the cursor, also in the order of
unread_first, where marking the cursor as read only moves it behind the unread rows.
That is the step that refutes `UnreadFirstComplete`. Both need `HistoryInv`: a row
the pager knows of is never inserted again, so its `created_at` is fixed.

`PublisherTypes`, `RelayTopicsTypes`, `CredentialsTypes`, `SubscriptionsTypes`,
`NotifyTypes`, `NotificationsTypes`, `RateLimitTypes` and `BatcherTypes` state the
type invariants.

All inductive invariants (`PublisherInv`, `RelayTopicsInv`, `Inv`, `SubscriptionsInv`,
`NotifyInv`, `NotificationsInv`, `RateLimitInv`, `BatcherInv`) hold in TLC on the instances of the runs.

Sums and concatenations (`MapThenSumSet`, `FlattenSeq`) are recursive functions of the
library. The library's induction theorems take an operator as a parameter, which
these provers cannot instantiate, so the induction is written out in terms of sets:
the numbers for which a statement fails have no least element, since `<` is
well-founded on `Nat` (`NatLessThanWellFounded`, `WFMin`). That these functions exist
and satisfy their equations is shown in this way first, as is that a sorted list of
rows exists.

Every invariant and action property of the passing runs is proved. Only
model-checked are the liveness properties `LiveTopicServed`, `DeletedTopicDropped`,
`ProcessingEnds`, `QueuedSettles`, `EveryReceiptHandedOver` and `Recovers`: they need
fairness and ENABLED, which the prover does not handle.

## Not modelled

Cryptography, the decoding of JWTs and recaps, account identifiers, envelopes,
analytics, metrics and configuration: parsers, outputs and values that no property
tells apart. Endpoints that only read (subscriber lists, notification links, the
DID document, health, the welcome setting). `mark_all_as_read`, whose statement
changes no row: see the observations above. The back-off between the tries of a call
to the relay. `RelayTopics` has one server: several share webhook and subscriptions
and only renew them more often. `Subscriptions` does not bound how far concurrent
registrations pass the limit of watchers together: the comment at the statement
accepts it. The skew between the clocks of the instances and of Redis.

## Plan

1. `Delivery` fed by `NotifyV1`: a composition in which what the endpoint counts as
   sent is accepted by the queue, with the theorem that it is.
2. An abstract specification of the rate limiter (a sliding allowance) that
   `TokenBucket` implements, from `SpentInv`.
3. The three hazards without a property, where the two about watchers need a message
   order at the client, and skewed clocks in `TokenBucket`, which need a bound on the
   skew; nothing in the code states either.
