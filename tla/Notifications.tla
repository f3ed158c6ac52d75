---------------------------- MODULE Notifications ----------------------------
(***************************************************************************)
(* The notifications of one subscriber: they are inserted, marked as read  *)
(* by the clients of the account, and paged through by one of them with    *)
(* wc_notifyGetNotifications.  The answer to a page comes from two queries *)
(* that see different states.  The subscriber may be deleted at any time.  *)
(*                                                                         *)
(* created_at is the start of the inserting transaction, which may commit  *)
(* after later ones; identifiers are random and in no order with it.       *)
(***************************************************************************)
EXTENDS Naturals, FiniteSets, Sequences, SequencesExt

CONSTANTS
    MaxId,     \* bound: identifiers of subscriber_notification rows are 1..MaxId
    MaxNow,    \* bound: the last instant modelled
    Limits,    \* inputs: limit
    Orders     \* inputs: unread_first

ASSUME NotificationsAssumption ==
    /\ MaxId \in Nat /\ MaxNow \in Nat
    /\ Limits \subseteq Nat \ {0}
    /\ Orders \subseteq BOOLEAN

Ids == 1..MaxId
NoId == 0

VARIABLES
    now,
    created,   \* created[n]: created_at
    state,     \* state[n]: "none", "inserting", "unread", "read" or "deleted"
    \* the client that pages
    pager,     \* "idle", "query" (next: the page), "mur" (next: has_more_unread), "done"
    limit,
    unreadFirst,
    after,     \* the cursor: the last identifier of the last page, or NoId
    page,      \* notifications of the answer: [id, isRead]
    hasMore,
    \* history
    start,     \* identifiers visible when the paging began
    seen,      \* identifiers on the pages so far
    noMore     \* identifiers visible at an answer with has_more_unread false

vars == <<now, created, state, pager, limit, unreadFirst, after, page, hasMore,
          start, seen, noMore>>
rowVars == <<created, state>>
pagerVars == <<pager, limit, unreadFirst, after, page, hasMore, start, seen, noMore>>

TypeOK ==
    /\ now \in 0..MaxNow
    /\ created \in [Ids -> 0..MaxNow]
    /\ state \in [Ids -> {"none", "inserting", "unread", "read", "deleted"}]
    /\ pager \in {"idle", "query", "mur", "done"}
    /\ limit \in Limits /\ unreadFirst \in Orders
    /\ after \in Ids \cup {NoId}
    /\ page \in Seq([id : Ids, isRead : BOOLEAN]) /\ Len(page) <= limit
    /\ hasMore \in BOOLEAN
    /\ start \in SUBSET Ids /\ seen \in SUBSET Ids /\ noMore \in SUBSET Ids

Visible == {n \in Ids : state[n] \in {"unread", "read"}}
Unread == {n \in Ids : state[n] = "unread"}
IsRead(n) == state[n] = "read"

Init ==
    /\ now = 0
    /\ created = [n \in Ids |-> 0]
    /\ state = [n \in Ids |-> "none"]
    /\ pager = "idle" /\ limit \in Limits /\ unreadFirst \in Orders
    /\ after = NoId /\ page = <<>> /\ hasMore = FALSE
    /\ start = {} /\ seen = {} /\ noMore = {}

-----------------------------------------------------------------------------
(* The rows.                                                               *)

Tick == now < MaxNow /\ now' = now + 1 /\ UNCHANGED <<rowVars, pagerVars>>

\* upsert_subscriber_notifications: created_at defaults to now(),
BeginInsert(n) ==
    /\ state[n] = "none"
    /\ state' = [state EXCEPT ![n] = "inserting"]
    /\ created' = [created EXCEPT ![n] = now]
    /\ UNCHANGED <<now, pagerVars>>

\* and the row is visible, with is_read FALSE, once it is committed.
CommitInsert(n) ==
    /\ state[n] = "inserting"
    /\ state' = [state EXCEPT ![n] = "unread"]
    /\ UNCHANGED <<now, created, pagerVars>>

\* mark_notifications_as_read: the UPDATE of unread rows.
MarkedRead(ids) == [n \in Ids |-> IF n \in ids \cap Unread THEN "read" ELSE state[n]]

\* wc_notifyMarkNotificationsAsRead, with a list of identifiers or (all) without.
MarkNotificationsAsRead(ids) ==
    /\ ids \cap Unread # {}
    /\ state' = MarkedRead(ids)
    /\ UNCHANGED <<now, created, pagerVars>>

\* delete_subscriber: the rows go with it (ON DELETE CASCADE), and none comes after
\* it.  It waits for inserts, which lock the subscriber's row for their foreign key.
DeleteSubscriber ==
    /\ \A n \in Ids : state[n] \notin {"inserting", "deleted"}
    /\ state' = [n \in Ids |-> "deleted"]
    /\ UNCHANGED <<now, created, pagerVars>>

-----------------------------------------------------------------------------
(* get_notifications_for_subscriber.                                       *)

\* Row comparison: is m after n?  Newest first, then by identifier.
ByTime(n, m) == created[n] > created[m] \/ (created[n] = created[m] /\ n < m)

\* Mutant: rows of the same instant are left out.
BeforeIgnoresTies(n, m) ==
    IF unreadFirst /\ IsRead(n) # IsRead(m) THEN IsRead(m) ELSE created[n] > created[m]

\* The comparison of after_clause, which reads is_read of the cursor as it is now.
Before(n, m) ==
    IF unreadFirst /\ IsRead(n) # IsRead(m) THEN IsRead(m) ELSE ByTime(n, m)

\* Mutant: >= for the row comparison, so that the cursor comes again.
FollowingInclusive(n) ==
    IF n = NoId THEN Visible ELSE {m \in Visible : n = m \/ Before(n, m)}

\* after_clause, with the cursor as the argument.
Following(n) == IF n = NoId THEN Visible ELSE {m \in Visible : Before(n, m)}

\* order_by_clause: is_read first with unread_first, then newest first, then by id.
Precedes(n, m) ==
    \/ unreadFirst /\ ~IsRead(n) /\ IsRead(m)
    \/ (unreadFirst => IsRead(n) = IsRead(m)) /\ ByTime(n, m)

\* The rows of S in that order.
Ordered(S) ==
    CHOOSE q \in SetToSeqs(S) : \A i, j \in DOMAIN q : i < j => Precedes(q[i], q[j])

GetNotifications(lmt, urf) ==
    /\ pager \in {"idle", "done"}
    /\ pager' = "query"
    /\ limit' = lmt /\ unreadFirst' = urf
    /\ after' = NoId /\ page' = <<>> /\ hasMore' = FALSE
    /\ start' = Visible /\ seen' = {} /\ noMore' = {}
    /\ UNCHANGED <<now, rowVars>>

\* Mutant: the additional row is returned too.
TruncatedNot(rows) == rows

\* truncate(limit)
Truncated(rows) == SubSeq(rows, 1, IF Len(rows) > limit THEN limit ELSE Len(rows))

\* The first query: LIMIT limit + 1, of which the last tells has_more.  Without the
\* subscriber the request ends here, with an error or with no rows.
QueryPage ==
    LET fetched == LET all == Ordered(Following(after))
                   IN  SubSeq(all, 1, IF Len(all) > limit + 1 THEN limit + 1 ELSE Len(all))
        rows == Truncated(fetched)
    IN  /\ pager = "query"
        /\ page' = [i \in DOMAIN rows |-> [id |-> rows[i], isRead |-> IsRead(rows[i])]]
        /\ hasMore' = (Len(fetched) > limit)
        /\ seen' = seen \cup Range(rows)
        /\ pager' = IF rows = <<>> THEN "done" ELSE "mur"
        /\ UNCHANGED <<now, rowVars, limit, unreadFirst, after, start, noMore>>

\* Mutant: only the row that follows the page is looked at.
HasMoreUnreadNextOnly(last) ==
    LET all == Ordered(Following(last)) IN all # <<>> /\ Head(all) \in Unread

\* The second query, with the last row of the page as its cursor.
HasMoreUnread(last) == Following(last) \cap Unread # {}

\* The second query and the answer; the client asks for the next page if there is one.
QueryUnread ==
    LET last == page[Len(page)].id IN
    /\ pager = "mur"
    /\ noMore' = IF HasMoreUnread(last) THEN noMore ELSE noMore \cup Visible
    /\ after' = last
    /\ pager' = IF hasMore THEN "query" ELSE "done"
    /\ UNCHANGED <<now, rowVars, limit, unreadFirst, page, hasMore, start, seen>>

Next ==
    \/ Tick
    \/ \E n \in Ids : BeginInsert(n) \/ CommitInsert(n)
    \/ \E ids \in {{n} : n \in Ids} \cup {Ids} : MarkNotificationsAsRead(ids)
    \/ \E lmt \in Limits, urf \in Orders : GetNotifications(lmt, urf)
    \/ QueryPage \/ QueryUnread
    \/ DeleteSubscriber

Spec == Init /\ [][Next]_vars

-----------------------------------------------------------------------------
(* Properties.                                                             *)

\* In the order of time, a client that pages to the end sees every notification
\* that was there when it began and still is, whatever is inserted or marked
\* meanwhile.
PagingComplete == pager = "done" /\ ~unreadFirst => start \cap Visible \subseteq seen

\* No notification comes twice in one paging by time.
NoRepeat ==
    [][~unreadFirst /\ pager = "query" /\ pager' # "query" =>
          \A i \in DOMAIN page' : page'[i].id \notin seen]_vars

\* After an answer "no more unread on following pages" (mur), in either order,
\* no later page has an unread notification that was there at that answer.
NoMoreUnreadIsTrue ==
    [][pager = "query" /\ pager' \in {"mur", "done"} =>
          \A i \in DOMAIN page' : page'[i].id \in noMore => page'[i].isRead]_vars

\* "order unread notifications before read notifications regardless of time and
\* paginate from there" (unread_first): a client that pages to the end has seen
\* every notification that was there when it began and is still unread.
UnreadFirstComplete ==
    pager = "done" /\ unreadFirst => start \cap Unread \subseteq seen

-----------------------------------------------------------------------------
(* The inductive strengthening of the properties.                          *)

\* The row after which the next page begins, once the page has been read.
Cursor == IF pager = "mur" THEN page[Len(page)].id ELSE after

\* What was once seen does not become visible again.
HistoryInv ==
    /\ \A n \in start \cup seen \cup noMore : state[n] \in {"unread", "read", "deleted"}
    /\ \A i \in DOMAIN page : page[i].id \in seen
    /\ after # NoId => after \in seen
    /\ pager = "mur" => page # <<>>

\* By time, the rows seen are those up to the cursor, and the others follow it.
ByTimeInv ==
    pager \in {"query", "mur"} /\ ~unreadFirst =>
        /\ \A n \in seen : Cursor # NoId /\ (n = Cursor \/ ByTime(n, Cursor))
        /\ \A n \in start \cap Visible : n \in seen \/ Cursor = NoId \/ ByTime(Cursor, n)
        /\ pager = "mur" /\ ~hasMore => start \cap Visible \subseteq seen

\* After an answer without more unread, in either order, an unread row that was
\* there does not follow the cursor.
NoMoreInv ==
    pager \in {"query", "mur"} =>
        \A n \in noMore \cap Unread : Cursor # NoId /\ ~Before(Cursor, n)

NotificationsInv == TypeOK /\ HistoryInv /\ ByTimeInv /\ NoMoreInv /\ PagingComplete
=============================================================================
