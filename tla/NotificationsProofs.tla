------------------------ MODULE NotificationsProofs ------------------------
(***************************************************************************)
(* What a client that pages through its notifications sees and is told,    *)
(* for any number of rows and instants, any page size and either order.    *)
(***************************************************************************)
EXTENDS Notifications, FiniteSetTheorems, SequenceTheorems, WellFoundedInduction, TLAPS

Step == [Next]_vars

-----------------------------------------------------------------------------
(* The order of the rows, and ORDER BY.                                    *)

\* A nonempty set of numbers has a least one.
LEMMA LeastNumber ==
    ASSUME NEW U \in SUBSET Nat, U # {}
    PROVE  \E x \in U : \A y \in U : x <= y
<1> DEFINE R == {ss \in Nat \X Nat : ss[1] < ss[2]}
<1>1. PICK x \in U : \A y \in U : ~(<<y, x>> \in R)
  <2>1. IsWellFoundedOn(R, Nat)
    BY NatLessThanWellFounded, Zenon DEF OpToRel
  <2> HIDE DEF R
  <2> QED
    BY <2>1, WFMin
<1>2. ASSUME NEW y \in U PROVE x <= y
  <2>1. <<y, x>> \notin R /\ <<y, x>> \in Nat \X Nat
    BY <1>1
  <2> QED
    BY <2>1
<1> QED
  BY <1>2

\* Induction over numbers, for a set of numbers.
LEMMA NumberInduction ==
    ASSUME NEW T, 0 \in T, \A n \in Nat : n \in T => n + 1 \in T
    PROVE  Nat \subseteq T
<1> DEFINE U == {n \in Nat : n \notin T}
<1>1. SUFFICES ASSUME U # {} PROVE FALSE
  OBVIOUS
<1>2. PICK x \in U : \A y \in U : x <= y
  <2>1. U \in SUBSET Nat
    OBVIOUS
  <2> HIDE DEF U
  <2> QED
    BY <1>1, <2>1, LeastNumber
<1>3. x \in Nat /\ x \notin T /\ x # 0
  OBVIOUS
<1>4. x - 1 \in U
  BY <1>3
<1> QED
  BY <1>2, <1>3, <1>4

\* Rows are compared by time as in a strict total order.
LEMMA ByTimeOrder ==
    ASSUME TypeOK
    PROVE  /\ \A n \in Ids : ~ByTime(n, n)
           /\ \A n, m \in Ids : n # m => ByTime(n, m) \/ ByTime(m, n)
           /\ \A n, m, k \in Ids : ByTime(n, m) /\ ByTime(m, k) => ByTime(n, k)
           /\ \A n, m \in Ids : ByTime(n, m) => ~ByTime(m, n)
<1>1. \A n \in Ids : n \in Nat /\ created[n] \in Nat
  BY NotificationsAssumption DEF TypeOK, Ids
<1> QED
  BY <1>1 DEF ByTime

\* So are they by order_by_clause, with unread_first or without.
LEMMA PrecedesOrder ==
    ASSUME TypeOK
    PROVE  /\ \A n \in Ids : ~Precedes(n, n)
           /\ \A n, m \in Ids : n # m => Precedes(n, m) \/ Precedes(m, n)
           /\ \A n, m, k \in Ids : Precedes(n, m) /\ Precedes(m, k) => Precedes(n, k)
BY ByTimeOrder DEF Precedes, IsRead

\* The comparison of after_clause is that of order_by_clause.
LEMMA BeforeIsPrecedes ==
    ASSUME TypeOK, NEW n \in Ids, NEW m \in Ids
    PROVE  Before(n, m) <=> Precedes(n, m)
<1>1. IsRead(n) \in BOOLEAN /\ IsRead(m) \in BOOLEAN /\ unreadFirst \in BOOLEAN
  BY NotificationsAssumption DEF IsRead, TypeOK
<1> QED
  BY <1>1 DEF Before, Precedes

\* q lists rows in the order of order_by_clause.
Sorted(q) == \A i, j \in DOMAIN q : i < j => Precedes(q[i], q[j])

\* A further row has its place in a sorted list: the first before which it comes.
LEMMA SortedInsert ==
    ASSUME TypeOK, NEW S \in SUBSET Ids, NEW x \in Ids, x \notin S,
           NEW n \in Nat, NEW q \in [1..n -> S], Sorted(q)
    PROVE  \E r \in [1..(n+1) -> S \cup {x}] : Sorted(r)
<1> DEFINE U == {i \in 1..n : Precedes(x, q[i])}
<1>1. PICK k \in 0..n : /\ \A i \in 1..k : Precedes(q[i], x)
                        /\ \A i \in (k+1)..n : Precedes(x, q[i])
  <2>1. CASE U = {}
    <3>1. \A i \in 1..n : Precedes(q[i], x)
      BY <2>1, PrecedesOrder
    <3> QED
      BY <3>1
  <2>2. CASE U # {}
    <3>1. PICK l \in U : \A y \in U : l <= y
      <4>1. U \in SUBSET Nat
        OBVIOUS
      <4> HIDE DEF U
      <4> QED
        BY <2>2, <4>1, LeastNumber
    <3>2. l \in 1..n /\ Precedes(x, q[l])
      OBVIOUS
    <3>3. ASSUME NEW i \in 1..(l-1) PROVE Precedes(q[i], x)
      <4>1. i \in 1..n /\ i \notin U
        BY <3>1, <3>2
      <4> QED
        BY <4>1, PrecedesOrder
    <3>4. ASSUME NEW i \in l..n PROVE Precedes(x, q[i])
      <4>1. CASE i = l
        BY <4>1, <3>2
      <4>2. CASE i > l
        <5>1. i \in 1..n /\ l \in 1..n /\ l < i /\ q[i] \in Ids /\ q[l] \in Ids
          BY <3>2, <4>2
        <5>2. Precedes(q[l], q[i])
          BY <5>1 DEF Sorted
        <5> QED
          BY <3>2, <5>1, <5>2, PrecedesOrder
      <4> QED
        BY <4>1, <4>2, <3>2
    <3>5. l - 1 \in 0..n /\ (l - 1) + 1 = l
      BY <3>2
    <3> QED
      BY <3>3, <3>4, <3>5
  <2> QED
    BY <2>1, <2>2
<1> DEFINE r == [i \in 1..(n+1) |-> IF i <= k THEN q[i] ELSE IF i = k+1 THEN x ELSE q[i-1]]
<1>2. r \in [1..(n+1) -> S \cup {x}]
  OBVIOUS
<1>3. ASSUME NEW i \in 1..(n+1), NEW j \in 1..(n+1), i < j
      PROVE  Precedes(r[i], r[j])
  <2>1. CASE j <= k
    <3>1. i \in 1..n /\ j \in 1..n /\ r[i] = q[i] /\ r[j] = q[j]
      BY <2>1, <1>3
    <3> QED
      BY <3>1, <1>3 DEF Sorted
  <2>2. CASE j = k + 1
    <3>1. i \in 1..k /\ r[i] = q[i] /\ r[j] = x
      BY <2>2, <1>3
    <3> QED
      BY <3>1, <1>1
  <2>3. CASE j > k + 1 /\ i = k + 1
    <3>1. j - 1 \in (k+1)..n /\ r[i] = x /\ r[j] = q[j-1]
      BY <2>3, <1>3
    <3> QED
      BY <3>1, <1>1
  <2>4. CASE j > k + 1 /\ i > k + 1
    <3>1. i - 1 \in 1..n /\ j - 1 \in 1..n /\ i - 1 < j - 1
          /\ r[i] = q[i-1] /\ r[j] = q[j-1]
      BY <2>4, <1>3
    <3> QED
      BY <3>1 DEF Sorted
  <2>5. CASE j > k + 1 /\ i <= k
    <3>1. i \in 1..n /\ j - 1 \in 1..n /\ i < j - 1 /\ r[i] = q[i] /\ r[j] = q[j-1]
      BY <2>5, <1>3
    <3> QED
      BY <3>1 DEF Sorted
  <2> QED
    BY <2>1, <2>2, <2>3, <2>4, <2>5
<1>4. Sorted(r)
  BY <1>2, <1>3 DEF Sorted
<1> HIDE DEF r
<1> QED
  BY <1>2, <1>4

\* Every set of rows can be listed in order.
LEMMA SortedExists ==
    ASSUME TypeOK, NEW S \in SUBSET Ids
    PROVE  \E q \in [1..Cardinality(S) -> S] : Sorted(q)
<1> DEFINE Lists(n) == \A A \in SUBSET Ids :
                          Cardinality(A) = n => \E q \in [1..n -> A] : Sorted(q)
           T == {n \in Nat : Lists(n)}
<1>1. IsFiniteSet(Ids)
  BY FS_Interval, NotificationsAssumption DEF Ids
<1>2. \A A \in SUBSET Ids : IsFiniteSet(A) /\ Cardinality(A) \in Nat
  BY <1>1, FS_Subset, FS_CardinalityType
<1>3. Lists(0)
  <2>1. ASSUME NEW A \in SUBSET Ids PROVE \E q \in [1..0 -> A] : Sorted(q)
    <3> DEFINE q == [i \in 1..0 |-> i]
    <3>1. q \in [1..0 -> A] /\ Sorted(q)
      BY DEF Sorted
    <3> QED
      BY <3>1
  <2> QED
    BY <2>1
<1>4. ASSUME NEW n \in Nat, Lists(n) PROVE Lists(n + 1)
  <2>1. ASSUME NEW A \in SUBSET Ids, Cardinality(A) = n + 1
        PROVE  \E q \in [1..(n+1) -> A] : Sorted(q)
    <3>1. A # {}
      BY <2>1, FS_EmptySet
    <3>2. PICK x \in A : TRUE
      BY <3>1
    <3>3. Cardinality(A \ {x}) = n /\ A \ {x} \in SUBSET Ids
      BY <2>1, <1>2, FS_RemoveElement
    <3>4. PICK q \in [1..n -> A \ {x}] : Sorted(q)
      BY <1>4, <3>3
    <3>5. (A \ {x}) \cup {x} = A /\ x \notin A \ {x} /\ x \in Ids
      OBVIOUS
    <3>6. \E r \in [1..(n+1) -> (A \ {x}) \cup {x}] : Sorted(r)
      BY <3>3, <3>4, <3>5, SortedInsert
    <3> QED
      BY <3>5, <3>6
  <2> QED
    BY <2>1
<1> HIDE DEF Lists
<1>5. 0 \in T /\ \A n \in Nat : n \in T => n + 1 \in T
  BY <1>3, <1>4
<1>6. Nat \subseteq T
  <2> HIDE DEF T
  <2> QED
    BY <1>5, NumberInduction
<1>7. Lists(Cardinality(S))
  BY <1>2, <1>6
<1> QED
  BY <1>7 DEF Lists

\* Ordered lists a set of rows in order, each of them once.
LEMMA OrderedLists ==
    ASSUME TypeOK, NEW S \in SUBSET Ids
    PROVE  /\ Cardinality(S) \in Nat
           /\ Ordered(S) \in [1..Cardinality(S) -> S]
           /\ Sorted(Ordered(S))
           /\ \A n \in S : \E i \in 1..Cardinality(S) : Ordered(S)[i] = n
<1> DEFINE N == Cardinality(S)
           q == Ordered(S)
<1>1. IsFiniteSet(S) /\ N \in Nat
  <2>1. IsFiniteSet(Ids)
    BY FS_Interval, NotificationsAssumption DEF Ids
  <2>2. IsFiniteSet(S)
    BY <2>1, FS_Subset
  <2> QED
    BY <2>2, FS_CardinalityType
<1>2. \E r \in SetToSeqs(S) : Sorted(r)
  <2>1. PICK r \in [1..N -> S] : Sorted(r)
    BY SortedExists
  <2>2. ASSUME NEW i \in 1..N, NEW j \in 1..N, i # j PROVE r[i] # r[j]
    <3>1. i < j \/ j < i
      BY <1>1, <2>2
    <3>2. Precedes(r[i], r[j]) \/ Precedes(r[j], r[i])
      BY <2>1, <3>1 DEF Sorted
    <3> QED
      BY <3>2, PrecedesOrder
  <2>3. r \in SetToSeqs(S)
    BY <2>1, <2>2 DEF SetToSeqs
  <2> QED
    BY <2>1, <2>3
<1>3. q = CHOOSE r \in SetToSeqs(S) : Sorted(r)
  BY Zenon DEF Ordered, Sorted
<1>4. q \in SetToSeqs(S) /\ Sorted(q)
  <2> HIDE DEF q
  <2> QED
    BY <1>2, <1>3
<1>5. q \in [1..N -> S] /\ \A i, j \in 1..N : i # j => q[i] # q[j]
  BY <1>4 DEF SetToSeqs
<1>6. q \in Surjection(1..N, S)
  <2>1. q \in Injection(1..N, S)
    <3> HIDE DEF q, N
    <3> QED
      BY <1>5 DEF Injection, IsInjective
  <2>2. Cardinality(1..N) = N
    BY <1>1, FS_Interval
  <2> HIDE DEF q
  <2> QED
    BY <1>1, <2>1, <2>2, FS_Injection
<1> HIDE DEF q
<1> QED
  BY <1>1, <1>4, <1>5, <1>6 DEF Surjection, q

\* The page of the first query is the beginning of the rows that follow the cursor,
\* in order; has_more tells whether it is all of them.
LEMMA PageRows ==
    ASSUME TypeOK, QueryPage
    PROVE  \E N \in Nat : \E q \in [1..N -> Following(after)], k \in 0..N :
              /\ Sorted(q)
              /\ \A n \in Following(after) : \E i \in 1..N : q[i] = n
              /\ k <= limit /\ (k = 0 <=> N = 0)
              /\ page' = [i \in 1..k |-> [id |-> q[i], isRead |-> IsRead(q[i])]]
              /\ seen' = seen \cup {q[i] : i \in 1..k}
              /\ hasMore' = (k < N)
              /\ pager' = IF k = 0 THEN "done" ELSE "mur"
<1> DEFINE S == Following(after)
           N == Cardinality(S)
           q == Ordered(S)
           fetched == SubSeq(q, 1, IF Len(q) > limit + 1 THEN limit + 1 ELSE Len(q))
           k == IF N > limit THEN limit ELSE N
           rows == Truncated(fetched)
<1>1. S \in SUBSET Ids
  BY DEF Following, Visible
<1>2. /\ N \in Nat /\ q \in [1..N -> S] /\ Sorted(q)
      /\ \A n \in S : \E i \in 1..N : q[i] = n
  <2> HIDE DEF S
  <2> QED
    BY <1>1, OrderedLists
<1>3. limit \in Nat /\ limit > 0
  BY NotificationsAssumption DEF TypeOK
<1> HIDE DEF S, N, q
<1>4. q \in Seq(S) /\ Len(q) = N
  BY <1>2
<1>5. k \in 0..N /\ k <= limit /\ (k = 0 <=> N = 0)
  BY <1>2, <1>3
<1>6. /\ fetched \in Seq(S)
      /\ Len(fetched) = (IF N > limit + 1 THEN limit + 1 ELSE N)
      /\ \A i \in 1..Len(fetched) : fetched[i] = q[i]
  BY <1>2, <1>3, <1>4, SubSeqProperties
<1> HIDE DEF fetched
<1>7. (Len(fetched) > limit) <=> k < N
  BY <1>2, <1>3, <1>6
<1>8. /\ rows \in Seq(S) /\ Len(rows) = k
      /\ \A i \in 1..k : rows[i] = q[i]
  <2>1. (IF Len(fetched) > limit THEN limit ELSE Len(fetched)) = k
    BY <1>2, <1>3, <1>6
  <2>2. rows = SubSeq(fetched, 1, k)
    BY <2>1 DEF Truncated
  <2>3. k \in Nat /\ k <= Len(fetched)
    BY <1>2, <1>3, <1>6
  <2> HIDE DEF k, rows
  <2> QED
    BY <1>6, <2>2, <2>3, SubSeqProperties
<1>9. /\ page' = [i \in DOMAIN rows |-> [id |-> rows[i], isRead |-> IsRead(rows[i])]]
      /\ hasMore' = (Len(fetched) > limit)
      /\ seen' = seen \cup Range(rows)
      /\ pager' = IF rows = <<>> THEN "done" ELSE "mur"
  BY Zenon DEF QueryPage, fetched, rows, q, S
<1> HIDE DEF rows, k
<1>10. DOMAIN rows = 1..k
  BY <1>8
<1>11. page' = [i \in 1..k |-> [id |-> q[i], isRead |-> IsRead(q[i])]]
  BY <1>8, <1>9, <1>10
<1>12. seen' = seen \cup {q[i] : i \in 1..k}
  BY <1>8, <1>9, <1>10 DEF Range
<1>13. rows = <<>> <=> k = 0
  BY <1>8
<1>14. pager' = IF k = 0 THEN "done" ELSE "mur"
  BY <1>9, <1>13
<1>15. hasMore' = (k < N)
  BY <1>7, <1>9
<1>16. /\ N \in Nat /\ q \in [1..N -> Following(after)] /\ k \in 0..N
       /\ \A n \in Following(after) : \E i \in 1..N : q[i] = n
  BY <1>2, <1>5 DEF S
<1> USE <1>16
<1> WITNESS N \in Nat
<1> WITNESS q \in [1..N -> Following(after)], k \in 0..N
<1> QED
  BY <1>2, <1>5, <1>11, <1>12, <1>14, <1>15

-----------------------------------------------------------------------------
(* Types.                                                                  *)

\* A function on 1..k is a sequence.
LEMMA FunctionIsSeq ==
    ASSUME NEW A, NEW k \in Nat, NEW f \in [1..k -> A]
    PROVE  f \in Seq(A) /\ Len(f) = k
OBVIOUS

\* The last row of a page that is not empty.
LEMMA LastOfPage ==
    ASSUME TypeOK, HistoryInv, pager = "mur"
    PROVE  Len(page) \in DOMAIN page /\ page[Len(page)].id \in seen
<1>1. page \in Seq([id : Ids, isRead : BOOLEAN]) /\ page # <<>>
  BY DEF TypeOK, HistoryInv
<1>2. Len(page) \in DOMAIN page
  BY <1>1
<1> QED
  BY <1>2 DEF HistoryInv

\* Every step keeps the types.
LEMMA TypesStep == TypeOK /\ HistoryInv /\ Step => TypeOK'
<1> SUFFICES ASSUME TypeOK, HistoryInv, Step PROVE TypeOK'
  OBVIOUS
<1>1. CASE Tick
  BY <1>1, NotificationsAssumption DEF Tick, TypeOK, rowVars, pagerVars
<1>2. ASSUME NEW n \in Ids, BeginInsert(n) PROVE TypeOK'
  BY <1>2 DEF BeginInsert, TypeOK, pagerVars
<1>3. ASSUME NEW n \in Ids, CommitInsert(n) PROVE TypeOK'
  BY <1>3 DEF CommitInsert, TypeOK, pagerVars
<1>4. ASSUME NEW ids, MarkNotificationsAsRead(ids) PROVE TypeOK'
  BY <1>4 DEF MarkNotificationsAsRead, MarkedRead, TypeOK, pagerVars
<1>5. ASSUME NEW lmt \in Limits, NEW urf \in Orders, GetNotifications(lmt, urf) PROVE TypeOK'
  <2>1. lmt \in Nat
    BY NotificationsAssumption
  <2>2. page' \in Seq([id : Ids, isRead : BOOLEAN]) /\ Len(page') <= limit'
    BY <1>5, <2>1 DEF GetNotifications
  <2> QED
    BY <1>5, <2>2 DEF GetNotifications, TypeOK, rowVars, Visible
<1>6. CASE QueryPage
  <2>1. PICK N \in Nat : \E q \in [1..N -> Following(after)], k \in 0..N :
              /\ k <= limit
              /\ page' = [i \in 1..k |-> [id |-> q[i], isRead |-> IsRead(q[i])]]
              /\ seen' = seen \cup {q[i] : i \in 1..k}
              /\ hasMore' = (k < N)
              /\ pager' = IF k = 0 THEN "done" ELSE "mur"
    BY <1>6, PageRows
  <2>2. PICK q \in [1..N -> Following(after)], k \in 0..N :
              /\ k <= limit
              /\ page' = [i \in 1..k |-> [id |-> q[i], isRead |-> IsRead(q[i])]]
              /\ seen' = seen \cup {q[i] : i \in 1..k}
              /\ hasMore' = (k < N)
              /\ pager' = IF k = 0 THEN "done" ELSE "mur"
    BY <2>1
  <2>3. Following(after) \subseteq Ids
    BY DEF Following, Visible
  <2>4. \A i \in 1..k : q[i] \in Ids
    BY <2>3
  <2>5. \A i \in 1..k : [id |-> q[i], isRead |-> IsRead(q[i])] \in [id : Ids, isRead : BOOLEAN]
    BY <2>4 DEF IsRead
  <2>6. k \in Nat /\ page' \in [1..k -> [id : Ids, isRead : BOOLEAN]]
    BY <2>2, <2>5
  <2>7. page' \in Seq([id : Ids, isRead : BOOLEAN]) /\ Len(page') = k
    <3> DEFINE Row == [id : Ids, isRead : BOOLEAN]
    <3>1. k \in Nat /\ page' \in [1..k -> Row]
      BY <2>6
    <3> HIDE DEF Row
    <3>2. page' \in Seq(Row) /\ Len(page') = k
      BY <3>1, FunctionIsSeq
    <3> QED
      BY <3>2 DEF Row
  <2>8. seen' \in SUBSET Ids /\ hasMore' \in BOOLEAN /\ pager' \in {"done", "mur"}
    BY <2>2, <2>4 DEF TypeOK
  <2> QED
    BY <1>6, <2>2, <2>7, <2>8 DEF QueryPage, TypeOK, rowVars
<1>7. CASE QueryUnread
  <2>1. page[Len(page)].id \in Ids
    BY <1>7, LastOfPage DEF QueryUnread, TypeOK
  <2> QED
    BY <1>7, <2>1 DEF QueryUnread, TypeOK, rowVars, Visible
<1>8. CASE DeleteSubscriber
  BY <1>8 DEF DeleteSubscriber, TypeOK, pagerVars
<1>9. CASE UNCHANGED vars
  BY <1>9 DEF vars, TypeOK
<1> QED
  BY <1>1, <1>2, <1>3, <1>4, <1>5, <1>6, <1>7, <1>8, <1>9 DEF Step, Next

-----------------------------------------------------------------------------
(* The steps of the rows, which the pager does not see until it asks.      *)

RowStep ==
    \/ Tick
    \/ \E n \in Ids : BeginInsert(n) \/ CommitInsert(n)
    \/ \E ids \in {{n} : n \in Ids} \cup {Ids} : MarkNotificationsAsRead(ids)
    \/ DeleteSubscriber
    \/ UNCHANGED vars

\* The rows that the pager knows of keep their created_at, do not become visible or
\* unread again, and stay read unless all rows are deleted with their subscriber.
LEMMA KnownRows ==
    ASSUME TypeOK, HistoryInv, RowStep
    PROVE  /\ UNCHANGED <<pager, limit, unreadFirst, after, page, hasMore, start, seen, noMore>>
           /\ \A n \in start \cup seen \cup noMore :
                /\ n \in Ids
                /\ created'[n] = created[n]
                /\ state'[n] \in {"unread", "read", "deleted"}
                /\ state'[n] \in {"unread", "read"} => state[n] \in {"unread", "read"}
                /\ state'[n] = "unread" => state[n] = "unread"
           /\ \/ \A n \in Ids : state'[n] = "deleted"
              \/ \A n \in Ids : state[n] = "read" => state'[n] = "read"
<1> DEFINE Known == start \cup seen \cup noMore
<1>1. \A n \in Known : n \in Ids /\ state[n] \in {"unread", "read", "deleted"}
  BY DEF TypeOK, HistoryInv
<1>2. CASE Tick
  BY <1>1, <1>2 DEF Tick, rowVars, pagerVars
<1>4. CASE \E n \in Ids : BeginInsert(n)
  BY <1>1, <1>4 DEF BeginInsert, pagerVars, TypeOK
<1>5. CASE \E n \in Ids : CommitInsert(n)
  BY <1>1, <1>5 DEF CommitInsert, pagerVars, TypeOK
<1>6. CASE \E ids \in {{n} : n \in Ids} \cup {Ids} : MarkNotificationsAsRead(ids)
  BY <1>1, <1>6 DEF MarkNotificationsAsRead, MarkedRead, Unread, pagerVars, TypeOK
<1>7. CASE DeleteSubscriber
  BY <1>1, <1>7 DEF DeleteSubscriber, pagerVars, TypeOK
<1>8. CASE UNCHANGED vars
  BY <1>1, <1>8 DEF vars
<1> QED
  BY <1>2, <1>4, <1>5, <1>6, <1>7, <1>8 DEF RowStep

-----------------------------------------------------------------------------
(* What a step of the rows leaves true.                                    *)

\* The cursor is a row that was seen, or there is none yet.
LEMMA CursorSeen ==
    ASSUME TypeOK, HistoryInv
    PROVE  Cursor \in seen \cup {NoId}
BY LastOfPage DEF HistoryInv, Cursor

\* Steps of the rows keep what the pager has recorded true.
LEMMA RowStepKeepsHistory ==
    ASSUME TypeOK, HistoryInv, RowStep
    PROVE  HistoryInv'
BY KnownRows DEF HistoryInv

\* Inserts, marks and deletes move no row across the cursor in the order of time.
LEMMA RowStepKeepsByTime ==
    ASSUME TypeOK, HistoryInv, ByTimeInv, RowStep
    PROVE  ByTimeInv'
<1> SUFFICES ASSUME pager' \in {"query", "mur"}, ~unreadFirst'
             PROVE  /\ \A n \in seen' : Cursor' # NoId /\ (n = Cursor' \/ ByTime(n, Cursor)')
                    /\ \A n \in (start \cap Visible)' :
                          n \in seen' \/ Cursor' = NoId \/ ByTime(Cursor, n)'
                    /\ pager' = "mur" /\ ~hasMore' => (start \cap Visible)' \subseteq seen'
  BY DEF ByTimeInv
<1>1. UNCHANGED <<pager, limit, unreadFirst, after, page, hasMore, start, seen, noMore>>
  BY KnownRows
<1>2. Cursor' = Cursor /\ Cursor \in seen \cup {NoId}
  BY <1>1, CursorSeen DEF Cursor
<1>3. \A n \in start \cup seen : created'[n] = created[n]
  BY KnownRows
<1>4. (start \cap Visible)' \subseteq start \cap Visible
  BY <1>1, KnownRows DEF Visible
<1>5. /\ \A n \in seen : Cursor # NoId /\ (n = Cursor \/ ByTime(n, Cursor))
      /\ \A n \in start \cap Visible : n \in seen \/ Cursor = NoId \/ ByTime(Cursor, n)
      /\ pager = "mur" /\ ~hasMore => start \cap Visible \subseteq seen
  BY <1>1 DEF ByTimeInv
<1>6. ASSUME NEW n \in start \cup seen, Cursor # NoId
      PROVE  ByTime(n, Cursor)' = ByTime(n, Cursor) /\ ByTime(Cursor, n)' = ByTime(Cursor, n)
  <2>1. created'[n] = created[n] /\ created'[Cursor] = created[Cursor]
    BY <1>2, <1>3, <1>6
  <2> QED
    BY <1>2, <2>1 DEF ByTime
<1>7. \A n \in seen' : Cursor' # NoId /\ (n = Cursor' \/ ByTime(n, Cursor)')
  BY <1>1, <1>2, <1>5, <1>6
<1>8. \A n \in (start \cap Visible)' : n \in seen' \/ Cursor' = NoId \/ ByTime(Cursor, n)'
  BY <1>1, <1>2, <1>4, <1>5, <1>6
<1>9. pager' = "mur" /\ ~hasMore' => (start \cap Visible)' \subseteq seen'
  BY <1>1, <1>4, <1>5
<1> QED
  BY <1>7, <1>8, <1>9

\* Nor does an unread row come to follow the cursor when the cursor is marked as
\* read: with unread_first the unread rows then all come before it.
LEMMA RowStepKeepsNoMore ==
    ASSUME TypeOK, HistoryInv, NoMoreInv, RowStep
    PROVE  NoMoreInv'
<1> SUFFICES ASSUME pager' \in {"query", "mur"}, NEW n \in (noMore \cap Unread)'
             PROVE  Cursor' # NoId /\ ~Before(Cursor, n)'
  BY DEF NoMoreInv
<1>1. UNCHANGED <<pager, limit, unreadFirst, after, page, hasMore, start, seen, noMore>>
  BY KnownRows
<1>2. Cursor' = Cursor /\ Cursor \in seen \cup {NoId}
  BY <1>1, CursorSeen DEF Cursor
<1>3. n \in Ids /\ n \in noMore /\ state'[n] = "unread" /\ state[n] = "unread"
  BY <1>1, KnownRows DEF Unread
<1>4. Cursor # NoId /\ ~Before(Cursor, n)
  BY <1>1, <1>3 DEF NoMoreInv, Unread
<1>5. /\ Cursor \in Ids
      /\ created'[n] = created[n] /\ created'[Cursor] = created[Cursor]
      /\ state[Cursor] = "read" => state'[Cursor] = "read"
  BY <1>2, <1>3, <1>4, KnownRows DEF TypeOK
<1> QED
  BY <1>1, <1>2, <1>3, <1>4, <1>5 DEF Before, ByTime, IsRead

\* And what is complete stays complete: only rows that were there count.
LEMMA RowStepKeepsComplete ==
    ASSUME TypeOK, HistoryInv, PagingComplete, RowStep
    PROVE  PagingComplete'
<1>1. UNCHANGED <<pager, unreadFirst, start, seen>>
  BY KnownRows
<1>2. (start \cap Visible)' \subseteq start \cap Visible
  BY <1>1, KnownRows DEF Visible
<1> QED
  BY <1>1, <1>2 DEF PagingComplete

-----------------------------------------------------------------------------
(* The steps of the pager.                                                 *)

\* A new paging begins with nothing seen and nothing promised.
LEMMA GetKeeps ==
    ASSUME TypeOK, HistoryInv, NEW lmt \in Limits, NEW urf \in Orders, GetNotifications(lmt, urf)
    PROVE  HistoryInv' /\ ByTimeInv' /\ NoMoreInv' /\ PagingComplete'
<1>1. /\ pager' = "query" /\ after' = NoId /\ page' = <<>>
      /\ start' = Visible /\ seen' = {} /\ noMore' = {} /\ UNCHANGED <<created, state>>
  BY DEF GetNotifications, rowVars
<1>2. Cursor' = NoId
  BY <1>1 DEF Cursor
<1>3. HistoryInv'
  BY <1>1 DEF HistoryInv, Visible
<1>4. ByTimeInv' /\ NoMoreInv' /\ PagingComplete'
  BY <1>1, <1>2 DEF ByTimeInv, NoMoreInv, PagingComplete
<1> QED
  BY <1>3, <1>4

\* The row at the end of a page is at or behind every row of it, and every row that
\* follows the old cursor is on the page or behind that row.
LEMMA PageKeeps ==
    ASSUME TypeOK, HistoryInv, ByTimeInv, NoMoreInv, QueryPage
    PROVE  HistoryInv' /\ ByTimeInv' /\ NoMoreInv' /\ PagingComplete'
<1>1. PICK N \in Nat : \E q \in [1..N -> Following(after)], k \in 0..N :
          /\ Sorted(q)
          /\ \A n \in Following(after) : \E i \in 1..N : q[i] = n
          /\ k <= limit /\ (k = 0 <=> N = 0)
          /\ page' = [i \in 1..k |-> [id |-> q[i], isRead |-> IsRead(q[i])]]
          /\ seen' = seen \cup {q[i] : i \in 1..k}
          /\ hasMore' = (k < N)
          /\ pager' = IF k = 0 THEN "done" ELSE "mur"
  BY PageRows
<1>2. PICK q \in [1..N -> Following(after)], k \in 0..N :
          /\ Sorted(q)
          /\ \A n \in Following(after) : \E i \in 1..N : q[i] = n
          /\ k <= limit /\ (k = 0 <=> N = 0)
          /\ page' = [i \in 1..k |-> [id |-> q[i], isRead |-> IsRead(q[i])]]
          /\ seen' = seen \cup {q[i] : i \in 1..k}
          /\ hasMore' = (k < N)
          /\ pager' = IF k = 0 THEN "done" ELSE "mur"
  BY <1>1
<1>3. /\ pager = "query"
      /\ UNCHANGED <<created, state, limit, unreadFirst, after, start, noMore>>
  BY DEF QueryPage, rowVars
<1>4. /\ Following(after) \subseteq Visible /\ Visible \subseteq Ids
      /\ \A i \in 1..N : q[i] \in Visible /\ q[i] \in Ids
  BY DEF Following, Visible
<1>5. HistoryInv'
  <2>1. \A n \in seen' : state[n] \in {"unread", "read", "deleted"}
    BY <1>2, <1>4 DEF HistoryInv, Visible
  <2>2. \A i \in DOMAIN page' : page'[i].id \in seen'
    BY <1>2
  <2>3. after # NoId => after \in seen'
    BY <1>2 DEF HistoryInv
  <2>4. pager' = "mur" => page' # <<>>
    BY <1>2
  <2> QED
    BY <1>3, <2>1, <2>2, <2>3, <2>4 DEF HistoryInv
<1>6. Cursor = after
  BY <1>3 DEF Cursor
<1>7. after # NoId => after \in Ids
  BY DEF TypeOK
<1>8. CASE k = 0
  <2>1. pager' = "done" /\ seen' = seen /\ Following(after) = {}
    BY <1>2, <1>8
  <2>2. ByTimeInv' /\ NoMoreInv'
    BY <2>1 DEF ByTimeInv, NoMoreInv
  <2>3. ASSUME ~unreadFirst, NEW n \in start \cap Visible PROVE n \in seen
    <3>1. n \in seen \/ after = NoId \/ ByTime(after, n)
      BY <1>3, <1>6, <2>3 DEF ByTimeInv
    <3>2. n \notin Following(after)
      BY <2>1
    <3> QED
      BY <2>3, <3>1, <3>2 DEF Following, Before
  <2>4. PagingComplete'
    BY <1>3, <2>1, <2>3 DEF PagingComplete, Visible
  <2> QED
    BY <1>5, <2>2, <2>4
<1>9. CASE k # 0
  <2>1. k \in 1..N /\ pager' = "mur" /\ Len(page') = k /\ page'[k].id = q[k]
    BY <1>2, <1>9
  <2>2. Cursor' = q[k] /\ q[k] \in Ids /\ q[k] # NoId /\ q[k] \in Following(after)
    BY <1>4, <2>1 DEF Cursor, Ids, NoId
  <2>3. \A i \in 1..N : (i < k => Precedes(q[i], q[k])) /\ (k < i => Precedes(q[k], q[i]))
    BY <1>2, <2>1 DEF Sorted
  <2>4. after # NoId => Precedes(after, q[k])
    BY <1>7, <2>2, BeforeIsPrecedes DEF Following
  <2>5. ByTimeInv'
    <3> SUFFICES ASSUME ~unreadFirst
                 PROVE  /\ \A n \in seen' : n = q[k] \/ ByTime(n, q[k])
                        /\ \A n \in start \cap Visible : n \in seen' \/ ByTime(q[k], n)
                        /\ ~hasMore' => start \cap Visible \subseteq seen'
      <4>1. ByTime(Cursor, Cursor)' \in BOOLEAN /\ Visible' = Visible
        BY <1>3 DEF ByTime, Visible
      <4>2. \A n : ByTime(n, Cursor)' = ByTime(n, q[k]) /\ ByTime(Cursor, n)' = ByTime(q[k], n)
        BY <1>3, <2>2 DEF ByTime
      <4> QED
        BY <1>3, <2>1, <2>2, <4>1, <4>2 DEF ByTimeInv
    <3>1. \A n, m \in Ids : Precedes(n, m) <=> ByTime(n, m)
      BY DEF Precedes
    <3>2. \A n \in seen : n \in Ids /\ after # NoId /\ (n = after \/ ByTime(n, after))
      BY <1>3, <1>6 DEF ByTimeInv, TypeOK
    <3>3. ASSUME NEW n \in seen' PROVE n = q[k] \/ ByTime(n, q[k])
      <4>1. CASE n \in seen
        <5>1. ByTime(after, q[k]) /\ after \in Ids
          BY <1>7, <2>2, <2>4, <3>1, <3>2, <4>1
        <5> QED
          BY <2>2, <3>2, <4>1, <5>1, ByTimeOrder
      <4>2. CASE \E i \in 1..k : n = q[i]
        <5>1. PICK i \in 1..k : n = q[i]
          BY <4>2
        <5>2. i = k \/ (i < k /\ i \in 1..N)
          BY <2>1
        <5> QED
          BY <1>4, <2>2, <2>3, <3>1, <5>1, <5>2
      <4> QED
        BY <1>2, <3>3, <4>1, <4>2
    <3>4. ASSUME NEW n \in start \cap Visible
          PROVE  n \in seen' \/ (k < N /\ ByTime(q[k], n))
      <4>1. CASE n \in seen
        BY <1>2, <4>1
      <4>2. CASE n \notin seen
        <5>1. n \in Following(after)
          BY <1>3, <1>6, <4>2 DEF ByTimeInv, Following, Before
        <5>2. PICK i \in 1..N : q[i] = n
          BY <1>2, <5>1
        <5>3. CASE i <= k
          BY <1>2, <5>2, <5>3
        <5>4. CASE i > k
          BY <1>4, <2>1, <2>2, <2>3, <3>1, <5>2, <5>4
        <5> QED
          BY <2>1, <5>2, <5>3, <5>4
      <4> QED
        BY <4>1, <4>2
    <3>5. ~hasMore' => ~(k < N)
      BY <1>2
    <3> QED
      BY <3>3, <3>4, <3>5
  <2>6. NoMoreInv'
    <3> SUFFICES ASSUME NEW n \in noMore \cap Unread
                 PROVE  ~Before(q[k], n)
      <4>1. Unread' = Unread
        BY <1>3 DEF Unread
      <4>2. \A n : Before(Cursor, n)' = Before(q[k], n)
        BY <1>3, <2>2 DEF Before, ByTime, IsRead
      <4> QED
        BY <1>3, <2>1, <2>2, <4>1, <4>2 DEF NoMoreInv
    <3>1. n \in Ids
      BY DEF Unread
    <3>2. after # NoId /\ ~Before(after, n)
      BY <1>3, <1>6 DEF NoMoreInv
    <3>3. after \in Ids /\ ~Precedes(after, n) /\ Precedes(after, q[k])
      BY <1>7, <2>4, <3>1, <3>2, BeforeIsPrecedes
    <3>4. ~Precedes(q[k], n)
      BY <2>2, <3>1, <3>3, PrecedesOrder
    <3> QED
      BY <2>2, <3>1, <3>4, BeforeIsPrecedes
  <2>7. PagingComplete'
    BY <2>1 DEF PagingComplete
  <2> QED
    BY <1>5, <2>5, <2>6, <2>7
<1> QED
  BY <1>8, <1>9

\* The answer takes the last row of the page as the cursor, and tells of no more
\* unread rows only if none follows it.
LEMMA AnswerKeeps ==
    ASSUME TypeOK, HistoryInv, ByTimeInv, NoMoreInv, QueryUnread
    PROVE  HistoryInv' /\ ByTimeInv' /\ NoMoreInv' /\ PagingComplete'
<1> DEFINE last == page[Len(page)].id
<1>1. /\ pager = "mur" /\ after' = last
      /\ pager' = (IF hasMore THEN "query" ELSE "done")
      /\ noMore' = (IF HasMoreUnread(last) THEN noMore ELSE noMore \cup Visible)
      /\ UNCHANGED <<created, state, limit, unreadFirst, page, hasMore, start, seen>>
  BY DEF QueryUnread, rowVars
<1>2. Cursor = last /\ Cursor' = last /\ last \in seen /\ last \in Ids /\ last # NoId
  <2>1. Cursor = last /\ Cursor' = last
    BY <1>1 DEF Cursor
  <2>2. last \in seen /\ last \in Ids
    BY <1>1, LastOfPage DEF TypeOK
  <2> QED
    BY <2>1, <2>2 DEF Ids, NoId
<1> HIDE DEF last
<1>3. Visible' = Visible /\ Unread' = Unread
  BY <1>1 DEF Visible, Unread
<1>4. /\ \A n : ByTime(n, Cursor)' = ByTime(n, last) /\ ByTime(Cursor, n)' = ByTime(last, n)
      /\ \A n : Before(Cursor, n)' = Before(last, n)
  BY <1>1, <1>2 DEF ByTime, Before, IsRead
<1>5. HistoryInv'
  BY <1>1, <1>2 DEF HistoryInv, Visible
<1>6. ByTimeInv'
  BY <1>1, <1>2, <1>3, <1>4 DEF ByTimeInv
<1>7. NoMoreInv'
  <2> SUFFICES ASSUME NEW n \in noMore' \cap Unread PROVE ~Before(last, n)
    BY <1>2, <1>3, <1>4 DEF NoMoreInv
  <2>1. CASE n \in noMore
    BY <1>1, <1>2, <2>1 DEF NoMoreInv
  <2>2. CASE n \notin noMore
    <3>1. ~HasMoreUnread(last) /\ n \in Visible /\ n \in Unread
      BY <1>1, <2>2
    <3> QED
      BY <1>2, <3>1 DEF HasMoreUnread, Following
  <2> QED
    BY <2>1, <2>2
<1>8. PagingComplete'
  BY <1>1, <1>3 DEF PagingComplete, ByTimeInv
<1> QED
  BY <1>5, <1>6, <1>7, <1>8

-----------------------------------------------------------------------------
(* The theorems.                                                           *)

LEMMA NotificationsInvInit == Init => NotificationsInv
<1> SUFFICES ASSUME Init PROVE NotificationsInv
  OBVIOUS
<1>1. TypeOK
  <2>1. limit \in Nat /\ page \in Seq([id : Ids, isRead : BOOLEAN]) /\ Len(page) <= limit
    BY NotificationsAssumption DEF Init
  <2>2. now \in 0..MaxNow /\ created \in [Ids -> 0..MaxNow]
    BY NotificationsAssumption DEF Init
  <2>3. state \in [Ids -> {"none", "inserting", "unread", "read", "deleted"}]
    BY DEF Init
  <2> QED
    BY <2>1, <2>2, <2>3 DEF Init, TypeOK
<1>2. HistoryInv /\ ByTimeInv /\ NoMoreInv /\ PagingComplete
  BY DEF Init, HistoryInv, ByTimeInv, NoMoreInv, PagingComplete
<1> QED
  BY <1>1, <1>2 DEF NotificationsInv

LEMMA NotificationsInvStep == NotificationsInv /\ Step => NotificationsInv'
<1> SUFFICES ASSUME NotificationsInv, Step PROVE NotificationsInv'
  OBVIOUS
<1>1. TypeOK /\ HistoryInv /\ ByTimeInv /\ NoMoreInv /\ PagingComplete
  BY DEF NotificationsInv
<1>2. TypeOK'
  BY <1>1, TypesStep
<1>3. HistoryInv' /\ ByTimeInv' /\ NoMoreInv' /\ PagingComplete'
  <2>1. CASE RowStep
    BY <1>1, <2>1, RowStepKeepsHistory, RowStepKeepsByTime, RowStepKeepsNoMore,
       RowStepKeepsComplete
  <2>2. CASE \E lmt \in Limits, urf \in Orders : GetNotifications(lmt, urf)
    BY <1>1, <2>2, GetKeeps
  <2>3. CASE QueryPage
    BY <1>1, <2>3, PageKeeps
  <2>4. CASE QueryUnread
    BY <1>1, <2>4, AnswerKeeps
  <2> QED
    BY <2>1, <2>2, <2>3, <2>4 DEF Step, Next, RowStep
<1> QED
  BY <1>2, <1>3 DEF NotificationsInv

\* The inductive invariant, for any number of rows and any limits: what the pager
\* has seen, what is left behind its cursor, and what it was told of unread rows.
THEOREM NotificationsInvariance == Spec => []NotificationsInv
<1>1. Init => NotificationsInv
  BY NotificationsInvInit
<1>2. NotificationsInv /\ [Next]_vars => NotificationsInv'
  BY NotificationsInvStep DEF Step
<1> QED
  BY <1>1, <1>2, PTL DEF Spec

\* Rows, pages and cursors of get_notifications_for_subscriber keep their types; no
\* page has more rows than the limit.
THEOREM NotificationsTypes == Spec => []TypeOK
<1>1. NotificationsInv => TypeOK
  BY DEF NotificationsInv
<1> QED
  BY <1>1, NotificationsInvariance, PTL

\* Paging by time to the end misses no notification that was there all the time,
\* whatever is inserted, committed late or marked between the pages.
THEOREM PagesComplete == Spec => []PagingComplete
<1>1. NotificationsInv => PagingComplete
  BY DEF NotificationsInv
<1> QED
  BY <1>1, NotificationsInvariance, PTL

\* A page that is answered comes from the first query, and its rows follow the cursor.
LEMMA AnsweredPage ==
    ASSUME NotificationsInv, Step, pager = "query", pager' # "query"
    PROVE  \A i \in DOMAIN page' :
              /\ page'[i].id \in Following(after)
              /\ page'[i].isRead = IsRead(page'[i].id)
<1>1. TypeOK /\ HistoryInv
  BY DEF NotificationsInv
<1>2. CASE RowStep
  BY <1>1, <1>2, KnownRows
<1>3. CASE QueryPage
  <2>1. PICK N \in Nat : \E q \in [1..N -> Following(after)], k \in 0..N :
            page' = [i \in 1..k |-> [id |-> q[i], isRead |-> IsRead(q[i])]]
    BY <1>1, <1>3, PageRows
  <2> QED
    BY <2>1
<1>4. CASE QueryUnread
  BY <1>4 DEF QueryUnread
<1>5. CASE \E lmt \in Limits, urf \in Orders : GetNotifications(lmt, urf)
  BY <1>5 DEF GetNotifications
<1> QED
  BY <1>2, <1>3, <1>4, <1>5 DEF Step, Next, RowStep

\* Paging by time gives no notification twice: the rows seen are at or before the
\* cursor of after_clause, and a page has rows behind it only.
THEOREM PagesDistinct == Spec => NoRepeat
<1>1. NotificationsInv /\ [Next]_vars =>
        [~unreadFirst /\ pager = "query" /\ pager' # "query" =>
            \A i \in DOMAIN page' : page'[i].id \notin seen]_vars
  <2> SUFFICES ASSUME NotificationsInv, Step, ~unreadFirst, pager = "query", pager' # "query",
                      NEW i \in DOMAIN page', page'[i].id \in seen
               PROVE  FALSE
    BY DEF Step
  <2> DEFINE n == page'[i].id
  <2>1. TypeOK /\ n \in Ids /\ n \in Following(after)
    BY AnsweredPage DEF NotificationsInv, Following, Visible
  <2>2. after # NoId /\ (n = after \/ ByTime(n, after))
    BY DEF NotificationsInv, ByTimeInv, Cursor
  <2>3. ByTime(after, n) /\ after \in Ids
    BY <2>1, <2>2 DEF Following, Before, TypeOK
  <2> HIDE DEF n
  <2> QED
    BY <2>1, <2>2, <2>3, ByTimeOrder
<1> QED
  BY <1>1, NotificationsInvariance, PTL DEF Spec, NoRepeat

\* has_more_unread can be relied on, in either order: after an answer "no more", no
\* later page has an unread row that was there, also when the cursor has been
\* marked as read in the meantime.
THEOREM NoMoreUnreadHolds == Spec => NoMoreUnreadIsTrue
<1>1. NotificationsInv /\ [Next]_vars =>
        [pager = "query" /\ pager' \in {"mur", "done"} =>
            \A i \in DOMAIN page' : page'[i].id \in noMore => page'[i].isRead]_vars
  <2> SUFFICES ASSUME NotificationsInv, Step, pager = "query", pager' \in {"mur", "done"},
                      NEW i \in DOMAIN page', page'[i].id \in noMore
               PROVE  page'[i].isRead
    BY DEF Step
  <2> DEFINE n == page'[i].id
  <2>1. n \in Following(after) /\ page'[i].isRead = IsRead(n)
    BY AnsweredPage
  <2>2. n \in Ids /\ state[n] \in {"unread", "read"}
    BY <2>1 DEF Following, Visible
  <2>3. ASSUME state[n] = "unread" PROVE FALSE
    <3>1. after # NoId /\ ~Before(after, n)
      BY <2>2, <2>3 DEF NotificationsInv, NoMoreInv, Cursor, Unread
    <3> QED
      BY <2>1, <3>1 DEF Following
  <2> QED
    BY <2>1, <2>2, <2>3 DEF IsRead
<1> QED
  BY <1>1, NotificationsInvariance, PTL DEF Spec, NoMoreUnreadIsTrue
=============================================================================
