-------------------------- MODULE CredentialsProofs --------------------------
(***************************************************************************)
(* How long an answer of the keys server or of the registry is trusted, for *)
(* any CACAOs, number of requests, times to live, delay and faults.        *)
(***************************************************************************)
EXTENDS Credentials, TLAPS

\* Some answer that leads to v has at most age d in ages.
Backed(ages, v, d) == \E a \in Grounds(v) : ages[a] <= d

\* The older the answer in the cache, the shorter the time it has left.
EntryInv ==
    entry.ttl > 0 =>
        /\ entry.value \in Values \ {"notFound"}
        /\ Backed(age, entry.value, TTL + Delay - entry.ttl)

\* A spawned write holds a CACAO no older than the task.
WriteInv ==
    \A s \in Slots : write[s] # NoValue => kind = "identity" /\ age[write[s]] <= late[s]

\* An awaited write holds an answer no older than the wait of its request.
SetInv ==
    \A s \in Slots : pc[s] = "set" =>
        kind = "project" /\ val[s] \in {"valid", "invalid"} /\ Backed(age, val[s], wait[s])

\* What a request decides on comes from the cache, or has just been fetched.
CheckInv ==
    \A s \in Slots : pc[s] = "check" =>
        /\ val[s] \in Values
        /\ Backed(age, val[s], TTL + Delay + wait[s] - 1)
        /\ val[s] = "notFound" => age["notFound"] <= wait[s]

AgeInv == age[upstream] = 0 /\ EntryInv /\ WriteInv /\ SetInv /\ CheckInv

Inv == TypeOK /\ AgeInv

-----------------------------------------------------------------------------
(* Facts about the constants and the operators.                            *)

\* The times to live are positive, and no name stands for two answers.
LEMMA Constants ==
    ASSUME kind \in {"identity", "project"}
    PROVE  /\ TTL \in Nat /\ TTL >= 1 /\ Delay \in Nat /\ Ancient \in Nat
           /\ NoValue \notin Values /\ "valid" # NoValue /\ "invalid" # NoValue
           /\ Cacaos \cap {"notFound", "valid", "invalid", "down"} = {}
           /\ Values \subseteq Answers
BY CredentialsAssumption DEF TTL, Ancient, Values, Answers

\* A value comes from answers of its own service (Validity, keys_server_request).
LEMMA GroundsAreAnswers ==
    ASSUME kind \in {"identity", "project"}, NEW v \in Values
    PROVE  Grounds(v) \subseteq Answers
<1>1. CASE v = "invalid"
  BY <1>1, Constants DEF Values, Answers, Grounds
<1>2. CASE v # "invalid"
  BY <1>2, Constants DEF Grounds
<1> QED
  BY <1>1, <1>2

\* What the state of a step owes to its kind does not change: no action turns an
\* identity key into a secret.
LEMMA KindFixed ==
    ASSUME kind' = kind
    PROVE  Answers' = Answers /\ Values' = Values /\ TTL' = TTL /\ Ancient' = Ancient
BY DEF Answers, Values, TTL, Ancient

\* An answer that backs a value backs it after k units of time, k units later
\* (Tick with k = 1, every other action with k = 0).
LEMMA BackedLater ==
    ASSUME NEW k \in Nat, TypeOK, TypeOK', kind' = kind,
           \A a \in Answers : age'[a] <= age[a] + k,
           NEW v \in Values, NEW d \in Int, NEW e \in Int, d + k <= e, Backed(age, v, d)
    PROVE  Backed(age', v, e)
<1>1. PICK a \in Grounds(v) : age[a] <= d
  BY DEF Backed
<1>2. a \in Answers
  BY <1>1, GroundsAreAnswers DEF TypeOK
<1>3. age[a] \in Int /\ age'[a] \in Int
  BY <1>2, Constants, KindFixed DEF TypeOK
<1>4. age'[a] <= age[a] + k
  BY <1>2
<1>5. age'[a] <= e
  BY <1>1, <1>3, <1>4
<1> QED
  BY <1>1, <1>5 DEF Backed

-----------------------------------------------------------------------------
(* Type correctness.                                                       *)

\* The decision of a request is one of the results (Check).
LEMMA OutcomeType ==
    ASSUME NEW v
    PROVE  Outcome(v) \in {"none", "accepted", "refused", "unregistered", "error"}
BY DEF Outcome

\* Every step of Next keeps the state well typed.
LEMMA TypeStep ==
    ASSUME TypeOK, WriteInv, [Next]_vars
    PROVE  TypeOK' /\ kind' = kind
<1> USE DEF TypeOK
<1>1. TTL \in Nat /\ TTL >= 1 /\ Delay \in Nat /\ Ancient \in Nat
  BY Constants
<1>2. CASE UNCHANGED vars
  BY <1>2, KindFixed DEF vars
<1>3. ASSUME NEW s \in Slots, Begin(s)
      PROVE  TypeOK' /\ kind' = kind
  BY <1>3, KindFixed DEF Begin
<1>4. ASSUME NEW s \in Slots, CacheGet(s)
      PROVE  TypeOK' /\ kind' = kind
  BY <1>1, <1>4, KindFixed DEF CacheGet
<1>5. ASSUME NEW s \in Slots, FetchCacao(s)
      PROVE  TypeOK' /\ kind' = kind
  BY <1>1, <1>5, KindFixed DEF FetchCacao, Answers, Values
<1>6. ASSUME NEW s \in Slots, FetchValidity(s)
      PROVE  TypeOK' /\ kind' = kind
  <2>1. Validity(upstream) \in Values
    BY <1>6 DEF FetchValidity, Validity, Values
  <2> QED
    BY <1>1, <1>6, <2>1, KindFixed DEF FetchValidity
<1>7. ASSUME NEW s \in Slots, CacheSet(s)
      PROVE  TypeOK' /\ kind' = kind
  BY <1>1, <1>7, KindFixed DEF CacheSet, SetEx
<1>8. ASSUME NEW s \in Slots, Check(s)
      PROVE  TypeOK' /\ kind' = kind
  BY <1>1, <1>8, KindFixed, OutcomeType DEF Check, End
<1>9. ASSUME NEW s \in Slots, CacheWrite(s)
      PROVE  TypeOK' /\ kind' = kind
  BY <1>1, <1>9, KindFixed DEF CacheWrite, SetEx, WriteInv, Values
<1>10. ASSUME NEW s \in Slots, RequestErr(s) \/ VerifyErr(s) \/ CacheWriteErr(s)
       PROVE  TypeOK' /\ kind' = kind
  BY <1>1, <1>10, KindFixed, CredentialsAssumption DEF RequestErr, VerifyErr, CacheWriteErr, End
<1>11. CASE Crash
  BY <1>1, <1>11, KindFixed, CredentialsAssumption DEF Crash
<1>12. ASSUME NEW a \in Answers, UpstreamChanges(a)
       PROVE  TypeOK' /\ kind' = kind
  <2>1. kind' = kind /\ upstream' = a
    BY <1>12 DEF UpstreamChanges
  <2>2. age' \in [Answers -> 0..Ancient]
    BY <1>1, <1>12 DEF UpstreamChanges
  <2> QED
    BY <1>12, <2>1, <2>2, KindFixed DEF UpstreamChanges
<1>13. ASSUME NEW c \in Cacaos, WindowMoves(c)
       PROVE  TypeOK' /\ kind' = kind
  BY <1>1, <1>13, KindFixed DEF WindowMoves
<1>14. CASE Tick
  <2>1. kind' = kind /\ upstream' = upstream
    BY <1>14 DEF Tick
  <2>2. age' \in [Answers -> 0..Ancient]
    BY <1>1, <1>14 DEF Tick
  <2>3. entry' \in [value : Values \cup {NoValue}, ttl : 0..TTL]
    BY <1>1, <1>14 DEF Tick, NoEntry
  <2>4. wait' \in [Slots -> 0..Delay] /\ late' \in [Slots -> 0..Delay]
    BY <1>1, <1>14 DEF Tick
  <2> QED
    BY <1>14, <2>1, <2>2, <2>3, <2>4, KindFixed DEF Tick
<1> QED
  BY <1>2, <1>3, <1>4, <1>5, <1>6, <1>7, <1>8, <1>9, <1>10, <1>11, <1>12, <1>13, <1>14
     DEF Next, SlotStep

-----------------------------------------------------------------------------
(* Ages.                                                                   *)

\* The invariant holds before anything has been asked.
LEMMA InitInv == Init => Inv
<1> SUFFICES ASSUME Init PROVE Inv
  OBVIOUS
<1>1. kind \in {"identity", "project"}
  BY DEF Init
<1>2. TTL \in Nat /\ TTL >= 1 /\ Delay \in Nat /\ Ancient \in Nat
  BY <1>1, Constants
<1>3. TypeOK
  BY <1>1, <1>2, CredentialsAssumption DEF Init, TypeOK, NoEntry
<1>4. AgeInv
  BY <1>2 DEF Init, AgeInv, EntryInv, WriteInv, SetInv, CheckInv, NoEntry
<1> QED
  BY <1>3, <1>4 DEF Inv

\* A unit of time adds at most one to an age; no other step adds anything, and
\* the present answer always has age 0.
LEMMA AgeStep ==
    ASSUME Inv, [Next]_vars
    PROVE  /\ \A a \in Answers : age'[a] <= age[a] + (IF Tick THEN 1 ELSE 0)
           /\ age'[upstream'] = 0
<1> USE DEF Inv, AgeInv, TypeOK
<1>1. Ancient \in Nat
  BY Constants
<1>2. CASE Tick
  BY <1>1, <1>2 DEF Tick
<1>3. CASE ~Tick
  <2>1. CASE age' = age /\ upstream' = upstream
    BY <1>1, <1>3, <2>1
  <2>2. ASSUME NEW b \in Answers, UpstreamChanges(b)
        PROVE  /\ \A a \in Answers : age'[a] <= age[a]
               /\ age'[upstream'] = 0
    BY <1>1, <2>2 DEF UpstreamChanges
  <2>3. CASE \E b \in Answers : UpstreamChanges(b)
    BY <1>1, <1>3, <2>2, <2>3
  <2> QED
    BY <1>3, <2>1, <2>3
       DEF Next, SlotStep, vars, Begin, CacheGet, FetchCacao, FetchValidity, CacheSet, Check,
           CacheWrite, RequestErr, VerifyErr, CacheWriteErr, Crash, WindowMoves, End
<1> QED
  BY <1>2, <1>3

\* What every step of the invariant's parts starts from.
LEMMA StepFacts ==
    ASSUME Inv, [Next]_vars
    PROVE  /\ TypeOK /\ TypeOK' /\ kind' = kind /\ Delay \in Nat
           /\ TTL \in Nat /\ TTL >= 1 /\ TTL' = TTL /\ Values' = Values /\ Answers' = Answers
           /\ Tick => \A a \in Answers : age'[a] <= age[a] + 1
           /\ ~Tick => \A a \in Answers : age'[a] <= age[a] + 0
<1>1. TypeOK /\ WriteInv
  BY DEF Inv, AgeInv
<1>2. TypeOK' /\ kind' = kind
  BY <1>1, TypeStep
<1>3. kind \in {"identity", "project"}
  BY <1>1 DEF TypeOK
<1> QED
  BY <1>1, <1>2, <1>3, AgeStep, KindFixed, Constants

\* A write starts a time to live with an answer no older than a delay, and from
\* then on the entry loses as much as the answer ages (SETEX, Tick).
LEMMA EntryStep ==
    ASSUME Inv, [Next]_vars
    PROVE  EntryInv'
<1>1. TypeOK /\ EntryInv /\ WriteInv /\ SetInv
  BY DEF Inv, AgeInv
<1> SUFFICES ASSUME entry'.ttl > 0
             PROVE  /\ entry'.value \in Values \ {"notFound"}
                    /\ Backed(age', entry'.value, TTL + Delay - entry'.ttl)
  BY StepFacts DEF EntryInv
<1>2. CASE entry' = entry /\ ~Tick
  <2>1. TTL + Delay - entry.ttl \in Int
    BY <1>1, StepFacts DEF TypeOK
  <2>2. entry.value \in Values \ {"notFound"} /\ Backed(age, entry.value, TTL + Delay - entry.ttl)
    BY <1>1, <1>2 DEF EntryInv
  <2>3. Backed(age', entry.value, TTL + Delay - entry.ttl)
    BY <1>2, <2>1, <2>2, StepFacts, BackedLater
  <2> QED
    BY <1>2, <2>2, <2>3
<1>3. CASE Tick
  <2>1. entry.ttl \in Int /\ entry.ttl > 1 /\ entry'.ttl = entry.ttl - 1 /\ entry'.value = entry.value
    BY <1>1, <1>3, StepFacts DEF Tick, NoEntry, TypeOK
  <2>2. entry.value \in Values \ {"notFound"} /\ Backed(age, entry.value, TTL + Delay - entry.ttl)
    BY <1>1, <2>1 DEF EntryInv
  <2>3. Backed(age', entry.value, TTL + Delay - (entry.ttl - 1))
    <3>1. /\ TTL + Delay - entry.ttl \in Int
          /\ TTL + Delay - (entry.ttl - 1) \in Int
          /\ (TTL + Delay - entry.ttl) + 1 <= TTL + Delay - (entry.ttl - 1)
      BY <2>1, StepFacts
    <3> QED
      BY <1>3, <2>2, <3>1, StepFacts, BackedLater
  <2> QED
    BY <2>1, <2>2, <2>3
<1>4. ASSUME NEW s \in Slots, CacheWrite(s)
      PROVE  /\ entry'.value \in Values \ {"notFound"}
             /\ Backed(age', entry'.value, TTL + Delay - entry'.ttl)
  <2>1. write[s] \in Cacaos /\ kind = "identity" /\ age[write[s]] <= late[s] /\ age' = age
    BY <1>1, <1>4 DEF CacheWrite, WriteInv, TypeOK
  <2>2. entry'.value = write[s] /\ TTL + Delay - entry'.ttl = Delay
    BY <1>4, StepFacts DEF CacheWrite, SetEx
  <2>3. write[s] \in Values \ {"notFound", "invalid"}
    BY <1>1, <2>1, Constants DEF Values, TypeOK
  <2>4. age[write[s]] <= Delay
    <3>1. write[s] \in Answers
      BY <1>1, <2>3, Constants DEF TypeOK
    <3>2. late[s] \in 0..Delay /\ age[write[s]] \in Int
      BY <1>1, <3>1, Constants DEF TypeOK
    <3> QED
      BY <2>1, <3>2, StepFacts
  <2> QED
    BY <2>1, <2>2, <2>3, <2>4 DEF Backed, Grounds
<1>5. ASSUME NEW s \in Slots, CacheSet(s)
      PROVE  /\ entry'.value \in Values \ {"notFound"}
             /\ Backed(age', entry'.value, TTL + Delay - entry'.ttl)
  <2>1. kind = "project" /\ val[s] \in {"valid", "invalid"} /\ Backed(age, val[s], wait[s]) /\ ~Tick
    BY <1>1, <1>5 DEF CacheSet, SetInv, Tick, TypeOK
  <2>2. entry'.value = val[s] /\ TTL + Delay - entry'.ttl = Delay
    BY <1>5, StepFacts DEF CacheSet, SetEx
  <2>3. val[s] \in Values \ {"notFound"}
    BY <2>1 DEF Values
  <2>4. wait[s] \in Int /\ wait[s] + 0 <= Delay
    BY <1>1, StepFacts DEF TypeOK
  <2>5. Backed(age', val[s], Delay)
    BY <2>1, <2>3, <2>4, StepFacts, BackedLater
  <2> QED
    BY <2>2, <2>3, <2>5
<1> QED
  BY <1>1, <1>2, <1>3, <1>4, <1>5
     DEF Next, SlotStep, vars, Begin, CacheGet, FetchCacao, FetchValidity, Check,
         RequestErr, VerifyErr, CacheWriteErr, Crash, UpstreamChanges, WindowMoves, End

\* A spawned write starts with the answer its request has just got, and ages with
\* it (FetchCacao, Tick).
LEMMA WriteStep ==
    ASSUME Inv, [Next]_vars
    PROVE  WriteInv'
<1>1. TypeOK /\ TypeOK' /\ WriteInv /\ age[upstream] = 0
  BY StepFacts DEF Inv, AgeInv
<1> SUFFICES ASSUME NEW t \in Slots, write'[t] # NoValue
             PROVE  kind = "identity" /\ age'[write'[t]] <= late'[t]
  BY StepFacts DEF WriteInv
<1>2. CASE write'[t] = write[t] /\ late'[t] = late[t] + (IF Tick THEN 1 ELSE 0)
  <2>1. kind = "identity" /\ write[t] \in Cacaos /\ age[write[t]] <= late[t]
    BY <1>1, <1>2 DEF WriteInv, TypeOK
  <2>2. write[t] \in Answers
    BY <2>1 DEF Answers
  <2>3. age[write[t]] \in Int /\ age'[write[t]] \in Int /\ late[t] \in Int
    BY <1>1, <2>2, StepFacts, Constants DEF TypeOK
  <2>4. age'[write[t]] <= age[write[t]] + (IF Tick THEN 1 ELSE 0)
    BY <2>2, StepFacts
  <2> QED
    BY <1>2, <2>1, <2>3, <2>4
<1>3. CASE FetchCacao(t) /\ upstream # "notFound"
  <2>1. kind = "identity" /\ write'[t] = upstream /\ late'[t] = 0 /\ age' = age
    BY <1>1, <1>3 DEF FetchCacao, TypeOK, WriteInv
  <2> QED
    BY <1>1, <2>1
<1> QED
  BY <1>1, <1>2, <1>3
     DEF Next, SlotStep, vars, Begin, CacheGet, FetchCacao, FetchValidity, CacheSet, Check,
         CacheWrite, RequestErr, VerifyErr, CacheWriteErr, Crash, UpstreamChanges, WindowMoves, End, Tick,
         TypeOK

\* A request about to write has the answer the registry has just given, a status
\* that is not a success included (FetchValidity, Tick).
LEMMA SetStep ==
    ASSUME Inv, [Next]_vars
    PROVE  SetInv'
<1>1. TypeOK /\ TypeOK' /\ SetInv /\ age[upstream] = 0
  BY StepFacts DEF Inv, AgeInv
<1> SUFFICES ASSUME NEW t \in Slots, pc'[t] = "set"
             PROVE  /\ kind = "project" /\ val'[t] \in {"valid", "invalid"}
                    /\ Backed(age', val'[t], wait'[t])
  BY StepFacts DEF SetInv
<1>2. CASE pc[t] = "set" /\ val'[t] = val[t] /\ wait'[t] = wait[t] + (IF Tick THEN 1 ELSE 0)
  <2>1. kind = "project" /\ val[t] \in {"valid", "invalid"} /\ Backed(age, val[t], wait[t])
    BY <1>1, <1>2 DEF SetInv
  <2>2. val[t] \in Values
    BY <2>1 DEF Values
  <2>3. wait[t] \in Int /\ wait'[t] \in Int
    BY <1>1, StepFacts DEF TypeOK
  <2>4. CASE Tick
    <3>1. wait[t] + 1 <= wait'[t]
      BY <1>2, <2>3, <2>4
    <3> QED
      BY <1>2, <2>1, <2>2, <2>3, <2>4, <3>1, StepFacts, BackedLater
  <2>5. CASE ~Tick
    <3>1. wait[t] + 0 <= wait'[t]
      BY <1>2, <2>3, <2>5
    <3> QED
      BY <1>2, <2>1, <2>2, <2>3, <2>5, <3>1, StepFacts, BackedLater
  <2> QED
    BY <2>4, <2>5
<1>3. CASE FetchValidity(t)
  <2>1. kind = "project" /\ val'[t] = Validity(upstream) /\ wait'[t] = 0 /\ age' = age
    BY <1>1, <1>3 DEF FetchValidity, TypeOK
  <2>2. Validity(upstream) \in {"valid", "invalid"} /\ upstream \in Grounds(Validity(upstream))
    BY <1>1, <2>1 DEF TypeOK, Answers, Validity, Grounds
  <2> QED
    BY <1>1, <2>1, <2>2 DEF Backed
<1> QED
  BY <1>1, <1>2, <1>3
     DEF Next, SlotStep, vars, Begin, CacheGet, FetchCacao, FetchValidity, CacheSet, Check,
         CacheWrite, RequestErr, VerifyErr, CacheWriteErr, Crash, UpstreamChanges, WindowMoves, End, Tick,
         TypeOK

\* A request decides on an entry that was still alive when it was read, or on the
\* answer it has just got; a "not found" is never an entry (CacheGet, FetchCacao,
\* CacheSet, Tick).
LEMMA CheckStep ==
    ASSUME Inv, [Next]_vars
    PROVE  CheckInv'
<1>1. TypeOK /\ TypeOK' /\ EntryInv /\ SetInv /\ CheckInv /\ age[upstream] = 0
  BY StepFacts DEF Inv, AgeInv
<1> DEFINE Grounded(t) == /\ val'[t] \in Values
                          /\ Backed(age', val'[t], TTL + Delay + wait'[t] - 1)
                          /\ val'[t] = "notFound" => age'["notFound"] <= wait'[t]
<1> SUFFICES ASSUME NEW t \in Slots, pc'[t] = "check"
             PROVE  Grounded(t)
  BY StepFacts DEF CheckInv
<1>2. wait[t] \in Nat /\ wait'[t] \in Nat
  BY <1>1, StepFacts DEF TypeOK
<1>3. CASE pc[t] = "check" /\ val'[t] = val[t] /\ wait'[t] = wait[t] + (IF Tick THEN 1 ELSE 0)
  <2> DEFINE d == TTL + Delay + wait[t] - 1
             e == TTL + Delay + wait'[t] - 1
             k == IF Tick THEN 1 ELSE 0
  <2>1. val[t] \in Values /\ Backed(age, val[t], d)
        /\ (val[t] = "notFound" => age["notFound"] <= wait[t])
    BY <1>1, <1>3 DEF CheckInv
  <2>2. k \in Nat /\ d \in Int /\ e \in Int /\ d + k <= e
    BY <1>2, <1>3, StepFacts
  <2>3. \A a \in Answers : age'[a] <= age[a] + k
    BY StepFacts
  <2>4. Backed(age', val[t], e)
    <3> HIDE DEF d, e, k
    <3> QED
      BY <2>1, <2>2, <2>3, StepFacts, BackedLater
  <2>5. ASSUME val[t] = "notFound"
        PROVE  age'["notFound"] <= wait'[t]
    <3>1. "notFound" \in Answers
      BY <1>1, <2>1, <2>5, Constants DEF TypeOK
    <3>2. age["notFound"] \in Int /\ age'["notFound"] \in Int
      BY <1>1, <3>1, StepFacts, Constants DEF TypeOK
    <3> QED
      BY <1>2, <1>3, <2>1, <2>3, <2>5, <3>1, <3>2
  <2> QED
    BY <1>3, <2>1, <2>4, <2>5
<1>4. CASE CacheGet(t)
  <2>1. entry.ttl > 0 /\ val'[t] = entry.value /\ wait'[t] = 0 /\ age' = age
    BY <1>1, <1>4 DEF CacheGet, TypeOK
  <2>2. entry.value \in Values \ {"notFound"} /\ Backed(age, entry.value, TTL + Delay - entry.ttl)
    BY <1>1, <2>1 DEF EntryInv
  <2>3. PICK a \in Grounds(entry.value) : age[a] <= TTL + Delay - entry.ttl
    BY <2>2 DEF Backed
  <2>4. a \in Answers
    BY <1>1, <2>2, <2>3, GroundsAreAnswers DEF TypeOK
  <2>5. age[a] \in Int /\ entry.ttl \in Int
    BY <1>1, <2>4, StepFacts, Constants DEF TypeOK
  <2>6. age[a] <= TTL + Delay + 0 - 1
    BY <2>1, <2>3, <2>5, StepFacts
  <2> QED
    BY <2>1, <2>2, <2>3, <2>6 DEF Backed
<1>5. CASE FetchCacao(t)
  <2>1. kind = "identity" /\ val'[t] = upstream /\ wait'[t] = 0 /\ age' = age
    BY <1>1, <1>5 DEF FetchCacao, TypeOK
  <2>2. upstream \in Values /\ upstream # "invalid"
    BY <1>1, <2>1, Constants DEF TypeOK, Answers, Values
  <2>3. 0 <= TTL + Delay + 0 - 1
    BY StepFacts
  <2> QED
    <3>1. upstream \in Grounds(upstream)
      BY <2>2 DEF Grounds
    <3>2. Backed(age, upstream, TTL + Delay + 0 - 1)
      BY <1>1, <2>3, <3>1 DEF Backed
    <3>3. upstream = "notFound" => age["notFound"] <= 0
      BY <1>1
    <3> QED
      BY <2>1, <2>2, <3>2, <3>3
<1>6. CASE CacheSet(t)
  <2>1. val'[t] = val[t] /\ wait'[t] = wait[t] /\ age' = age
    BY <1>6 DEF CacheSet
  <2>2. kind = "project" /\ val[t] \in {"valid", "invalid"} /\ Backed(age, val[t], wait[t])
    BY <1>1, <1>6 DEF CacheSet, SetInv
  <2>3. val[t] \in Values
    BY <2>2 DEF Values
  <2>4. PICK a \in Grounds(val[t]) : age[a] <= wait[t]
    BY <2>2 DEF Backed
  <2>5. age[a] \in Int
    BY <1>1, <2>3, <2>4, StepFacts, GroundsAreAnswers, Constants DEF TypeOK
  <2>6. age[a] <= TTL + Delay + wait[t] - 1
    BY <1>2, <2>4, <2>5, StepFacts
  <2> QED
    BY <2>1, <2>2, <2>3, <2>4, <2>6 DEF Backed
<1> QED
  <2> HIDE DEF Grounded
  <2> QED
    BY <1>1, <1>2, <1>3, <1>4, <1>5, <1>6
       DEF Next, SlotStep, vars, Begin, CacheGet, FetchCacao, FetchValidity, CacheSet, Check,
           CacheWrite, RequestErr, VerifyErr, CacheWriteErr, Crash, UpstreamChanges, WindowMoves, End, Tick,
           TypeOK

-----------------------------------------------------------------------------
(* The theorems.                                                           *)

\* The inductive invariant holds in every state: the cache, the spawned and the
\* awaited writes and the requests hold answers of bounded age.
THEOREM CredentialsInvariance == Spec => []Inv
<1>1. Init => Inv
  BY InitInv
<1>2. Inv /\ [Next]_vars => Inv'
  <2> SUFFICES ASSUME Inv, [Next]_vars PROVE Inv'
    OBVIOUS
  <2>1. TypeOK'
    BY StepFacts
  <2>2. AgeInv'
    BY AgeStep, EntryStep, WriteStep, SetStep, CheckStep DEF AgeInv
  <2> QED
    BY <2>1, <2>2 DEF Inv
<1> QED
  BY <1>1, <1>2, PTL DEF Spec

\* Only the decision of a request accepts or refuses it (Check), or a failed call to
\* the chain of a contract wallet refuses it (VerifyErr).
LEMMA Decided ==
    ASSUME Inv, [Next]_vars, NEW s \in Slots, result'[s] # result[s],
           result'[s] \in {"accepted", "refused", "unregistered"}
    PROVE  pc[s] = "check" /\ result'[s] \in {Outcome(val[s]), "refused"}
<1>1. TypeOK
  BY DEF Inv
<1> QED
  BY <1>1
     DEF Next, SlotStep, vars, Begin, CacheGet, FetchCacao, FetchValidity, CacheSet, Check,
         CacheWrite, RequestErr, VerifyErr, CacheWriteErr, Crash, UpstreamChanges, WindowMoves, End, Tick,
         TypeOK

\* A decision rests on an answer that was given recently.
LEMMA DecidedOnRecent ==
    ASSUME Inv, NEW s \in Slots, pc[s] = "check"
    PROVE  /\ \E a \in Grounds(val[s]) : Recent(a)
           /\ val[s] = "notFound" => age["notFound"] <= Delay
<1>1. TypeOK /\ CheckInv
  BY DEF Inv, AgeInv
<1>2. TTL \in Nat /\ Delay \in Nat /\ Ancient \in Nat
  BY <1>1, Constants DEF TypeOK
<1>3. wait[s] \in 0..Delay
  BY <1>1 DEF TypeOK
<1>4. val[s] \in Values /\ Backed(age, val[s], TTL + Delay + wait[s] - 1)
      /\ (val[s] = "notFound" => age["notFound"] <= wait[s])
  BY <1>1 DEF CheckInv
<1>5. PICK a \in Grounds(val[s]) : age[a] <= TTL + Delay + wait[s] - 1
  BY <1>4 DEF Backed
<1>6. a \in Answers
  BY <1>1, <1>4, <1>5, GroundsAreAnswers DEF TypeOK
<1>7. age[a] \in Int
  BY <1>1, <1>2, <1>6 DEF TypeOK
<1>8. Recent(a)
  BY <1>2, <1>3, <1>5, <1>7 DEF Recent
<1>9. ASSUME val[s] = "notFound"
      PROVE  age["notFound"] <= Delay
  <2>1. age["notFound"] \in Int
    BY <1>1, <1>2, <1>4, <1>9, Constants DEF TypeOK
  <2> QED
    BY <1>2, <1>3, <1>4, <1>9, <2>1
<1> QED
  BY <1>5, <1>8, <1>9

\* What the decision says of the answer it was taken on (Outcome).
LEMMA OutcomeMeans ==
    ASSUME NEW v
    PROVE  /\ Outcome(v) = "accepted" => v = "valid" \/ (v \in Cacaos /\ Verified(v))
           /\ Outcome(v) = "unregistered" => v = "notFound"
BY DEF Outcome

\* The cache, the requests and the writes they spawn keep their types: what is
\* written behind a request is a CACAO (keys_server_request_cached), and an entry
\* never outlives its time to live.
THEOREM CredentialsTypes == Spec => []TypeOK
<1>1. Inv => TypeOK
  BY DEF Inv
<1> QED
  BY <1>1, CredentialsInvariance, PTL

\* A request is accepted only on an answer of the keys server or of the registry
\* that is younger than the time to live and two delays, and on a CACAO that has
\* not expired (keys_server_request_cached, is_authenticated_internal).
THEOREM AcceptedIsVouchedFor == Spec => VouchedFor
<1>1. Inv /\ [Next]_vars =>
        [\A s \in Slots :
            result[s] # "accepted" /\ result'[s] = "accepted" =>
                /\ Recent(val[s])
                /\ val[s] \in Cacaos => phase[val[s]] = "live"]_vars
  <2> SUFFICES ASSUME Inv, [Next]_vars, NEW s \in Slots,
                      result[s] # "accepted", result'[s] = "accepted"
               PROVE  /\ Recent(val[s])
                      /\ val[s] \in Cacaos => phase[val[s]] = "live"
    OBVIOUS
  <2>1. pc[s] = "check" /\ Outcome(val[s]) = "accepted"
    BY Decided
  <2>2. val[s] = "valid" \/ (val[s] \in Cacaos /\ Verified(val[s]))
    BY <2>1, OutcomeMeans
  <2>3. val[s] # "invalid" /\ "valid" \notin Cacaos
    BY <2>2, CredentialsAssumption
  <2>4. Recent(val[s])
    BY <2>1, <2>3, DecidedOnRecent DEF Grounds
  <2> QED
    BY <2>2, <2>3, <2>4 DEF Verified
<1> QED
  BY <1>1, CredentialsInvariance, PTL DEF Spec, VouchedFor

\* A request is refused only on an answer that recent, a failure of the registry and
\* a CACAO that its chain could not be asked about included, and a key is unknown only if the keys server has just said so.
THEOREM RefusalsHaveCause == Spec => RejectedForCause
<1>1. Inv /\ [Next]_vars =>
        [\A s \in Slots :
            /\ result[s] # "refused" /\ result'[s] = "refused" =>
                   \E a \in Grounds(val[s]) : Recent(a)
            /\ result[s] # "unregistered" /\ result'[s] = "unregistered" =>
                   age["notFound"] <= Delay]_vars
  <2> SUFFICES ASSUME Inv, [Next]_vars, NEW s \in Slots
               PROVE  /\ result[s] # "refused" /\ result'[s] = "refused" =>
                             \E a \in Grounds(val[s]) : Recent(a)
                      /\ result[s] # "unregistered" /\ result'[s] = "unregistered" =>
                             age["notFound"] <= Delay
    OBVIOUS
  <2>1. ASSUME result[s] # "refused", result'[s] = "refused"
        PROVE  \E a \in Grounds(val[s]) : Recent(a)
    BY <2>1, Decided, DecidedOnRecent
  <2>2. ASSUME result[s] # "unregistered", result'[s] = "unregistered"
        PROVE  age["notFound"] <= Delay
    <3>1. pc[s] = "check" /\ Outcome(val[s]) = "unregistered"
      BY <2>2, Decided
    <3> QED
      BY <3>1, OutcomeMeans, DecidedOnRecent
  <2> QED
    BY <2>1, <2>2
<1> QED
  BY <1>1, CredentialsInvariance, PTL DEF Spec, RejectedForCause
==============================================================================
