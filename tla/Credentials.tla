----------------------------- MODULE Credentials -----------------------------
(***************************************************************************)
(* How the server trusts what other services say of a credential, and how  *)
(* long.  The module follows one credential: either an identity key, whose *)
(* CACAO verify_identity asks of the keys server, or the secret of a       *)
(* project, which AuthedProjectId asks of the registry.  Both keep the     *)
(* answer in Redis.  The keys server's is written by a spawned task, for a *)
(* week, and only if there is a CACAO; the registry's is written before    *)
(* the request goes on, for half an hour, and also if it is negative.      *)
(*                                                                         *)
(* Requests interleave at every await.  A slot is a request together with  *)
(* the cache write it spawns.  Time is kept as ages and remaining times.   *)
(***************************************************************************)
EXTENDS Integers, Sequences

CONSTANTS
    Cacaos,      \* CACAOs that clients register for the identity key
    Cacao,       \* Cacao[c]: the parts of c that verify_identity looks at
    Sub,         \* the account of the message, claim sub
    NoApp,       \* no AuthorizedApp: the CACAO authorizes nothing
    AllApps,     \* AuthorizedApp::Unlimited
    NoValue,     \* nothing in Redis, no value
    Slots,       \* concurrent requests
    KeyTTL,      \* cache_ttl of keys_server_request_cached
    SecretTTL,   \* CACHE_TTL of the registry
    Delay,       \* how long a request or a spawned write may take between two steps
    MaxFaults    \* bound: errors of Redis, of the transport, of a chain, and crashes

ASSUME CredentialsAssumption ==
    /\ {"notFound", "valid", "invalid", "down"} \cap Cacaos = {}
    /\ NoValue \notin Cacaos \cup {"notFound", "valid", "invalid", "down"}
    /\ KeyTTL \in Nat \ {0} /\ SecretTTL \in Nat \ {0}
    /\ Delay \in Nat /\ MaxFaults \in Nat

VARIABLES
    kind,       \* what the credential is: "identity" or "project"
    upstream,   \* what the keys server or the registry answers now
    age,        \* history: age[a], the time since it last answered a, up to Ancient
    phase,      \* phase[c]: whether the time of c is before nbf, right, or past exp
    entry,      \* the value in Redis and its remaining time to live
    pc,         \* the next await of a request
    val,        \* the answer a request works with
    wait,       \* the time a request has spent since its last step
    write,      \* the value a spawned task is to write
    late,       \* the time since that task was spawned
    result,     \* how the last request of a slot ended
    faults      \* number of faults so far

vars == <<kind, upstream, age, phase, entry, pc, val, wait, write, late, result, faults>>

Answers == IF kind = "identity" THEN Cacaos \cup {"notFound"} ELSE {"valid", "invalid", "down"}
Values  == IF kind = "identity" THEN Cacaos \cup {"notFound"} ELSE {"valid", "invalid"}
TTL     == IF kind = "identity" THEN KeyTTL ELSE SecretTTL

\* The age from which answers are not told apart.
Ancient == TTL + 2 * Delay

NoEntry == [value |-> NoValue, ttl |-> 0]

TypeOK ==
    /\ kind \in {"identity", "project"}
    /\ upstream \in Answers
    /\ age \in [Answers -> 0..Ancient]
    /\ phase \in [Cacaos -> {"early", "live", "expired"}]
    /\ entry \in [value : Values \cup {NoValue}, ttl : 0..TTL]
    /\ pc \in [Slots -> {"idle", "get", "fetch", "set", "check"}]
    /\ val \in [Slots -> Values \cup {NoValue}]
    /\ wait \in [Slots -> 0..Delay]
    /\ write \in [Slots -> Cacaos \cup {NoValue}]
    /\ late \in [Slots -> 0..Delay]
    /\ result \in [Slots -> {"none", "accepted", "refused", "unregistered", "error"}]
    /\ faults \in 0..MaxFaults

Init ==
    /\ kind \in {"identity", "project"}
    /\ upstream \in Answers
    /\ age = [a \in Answers |-> IF a = upstream THEN 0 ELSE Ancient]
    /\ phase = [c \in Cacaos |-> IF Cacao[c].nbf THEN "early" ELSE "live"]
    /\ entry = NoEntry
    /\ pc = [s \in Slots |-> "idle"] /\ val = [s \in Slots |-> NoValue]
    /\ wait = [s \in Slots |-> 0]
    /\ write = [s \in Slots |-> NoValue] /\ late = [s \in Slots |-> 0]
    /\ result = [s \in Slots |-> "none"]
    /\ faults = 0

-----------------------------------------------------------------------------
(* What a CACAO authorizes.                                                *)

IsRecap(resource) == resource.recap

\* parse_cacao_statement, for a CACAO without a recap; a statement is the set
\* of the tests it passes.
StatementApp(c) ==
    CASE "limited" \in c.statement   -> c.domain
      [] "limited" \notin c.statement /\ "unlimited" \in c.statement -> AllApps
      [] OTHER -> NoApp

\* The recap, if there is one, is the last resource, is the only one and says
\* what the end of the statement says; its app is NoApp if its single ability
\* is not one to manage notifications.
AuthorizedApp(c) ==
    LET last == c.resources[Len(c.resources)] IN
    IF Len(SelectSeq(c.resources, IsRecap)) > 1 THEN NoApp
    ELSE IF c.resources # <<>> /\ IsRecap(last)
         THEN IF "recap" \in c.statement THEN last.app ELSE NoApp
         ELSE StatementApp(c)

\* The checks of verify_identity that do not depend on time; whether the signature
\* verifies (signed) is taken to be fixed, also where a contract decides it.
Grants(c) ==
    /\ Cacao[c].signed
    /\ Cacao[c].ownKey
    /\ AuthorizedApp(Cacao[c]) # NoApp
    /\ Cacao[c].iss = Sub

\* verify_identity on a CACAO, whether it comes from the server or the cache.
Verified(c) == Grants(c) /\ phase[c] = "live"

-----------------------------------------------------------------------------
(* Requests.                                                               *)

\* A message whose JWT is in order, or an HTTP request with a secret.
Begin(s) ==
    /\ pc[s] = "idle" /\ write[s] = NoValue
    /\ pc' = [pc EXCEPT ![s] = "get"]
    /\ result' = [result EXCEPT ![s] = "none"]
    /\ UNCHANGED <<kind, upstream, age, phase, entry, val, wait, write, late, faults>>

\* Mutant: a hit gives the entry a new time to live.
CacheGetSlides(s) ==
    /\ pc[s] = "get"
    /\ IF entry.ttl > 0
       THEN /\ val' = [val EXCEPT ![s] = entry.value]
            /\ pc' = [pc EXCEPT ![s] = "check"]
            /\ entry' = [entry EXCEPT !.ttl = TTL]
       ELSE pc' = [pc EXCEPT ![s] = "fetch"] /\ UNCHANGED <<val, entry>>
    /\ wait' = [wait EXCEPT ![s] = 0]
    /\ UNCHANGED <<kind, upstream, age, phase, write, late, result, faults>>

\* Redis::get: an entry that is there is used as it is.
CacheGet(s) ==
    /\ pc[s] = "get"
    /\ IF entry.ttl > 0
       THEN /\ val' = [val EXCEPT ![s] = entry.value]
            /\ pc' = [pc EXCEPT ![s] = "check"]
       ELSE pc' = [pc EXCEPT ![s] = "fetch"] /\ UNCHANGED val
    /\ wait' = [wait EXCEPT ![s] = 0]
    /\ UNCHANGED <<kind, upstream, age, phase, entry, write, late, result, faults>>

\* Mutant: a status of the registry that is not a success is passed on.
ValidityOfStatus(answer) == answer

\* RegistryHttpClient::authenticate: the registry says that the secret is not
\* valid, or answers with a status that is not a success.
Validity(answer) == IF answer = "valid" THEN "valid" ELSE "invalid"

\* Mutant: the keys server's "not found" is cached as well.
FetchCacaoCachesMisses(s) ==
    /\ kind = "identity" /\ pc[s] = "fetch"
    /\ val' = [val EXCEPT ![s] = upstream]
    /\ pc' = [pc EXCEPT ![s] = "check"]
    /\ wait' = [wait EXCEPT ![s] = 0]
    /\ write' = [write EXCEPT ![s] = upstream]
    /\ late' = [late EXCEPT ![s] = 0]
    /\ UNCHANGED <<kind, upstream, age, phase, entry, result, faults>>

\* keys_server_request, and on success the spawn of the write.
FetchCacao(s) ==
    /\ kind = "identity" /\ pc[s] = "fetch"
    /\ val' = [val EXCEPT ![s] = upstream]
    /\ pc' = [pc EXCEPT ![s] = "check"]
    /\ wait' = [wait EXCEPT ![s] = 0]
    /\ IF upstream = "notFound"
       THEN UNCHANGED <<write, late>>
       ELSE /\ write' = [write EXCEPT ![s] = upstream]
            /\ late' = [late EXCEPT ![s] = 0]
    /\ UNCHANGED <<kind, upstream, age, phase, entry, result, faults>>

FetchValidity(s) ==
    /\ kind = "project" /\ pc[s] = "fetch"
    /\ val' = [val EXCEPT ![s] = Validity(upstream)]
    /\ pc' = [pc EXCEPT ![s] = "set"]
    /\ wait' = [wait EXCEPT ![s] = 0]
    /\ UNCHANGED <<kind, upstream, age, phase, entry, write, late, result, faults>>

\* Mutant: the times to live of the two caches are swapped.
SetExSwapped(v) == [value |-> v, ttl |-> IF kind = "identity" THEN SecretTTL ELSE KeyTTL]

\* SETEX
SetEx(v) == [value |-> v, ttl |-> TTL]

\* The spawned task that writes the CACAO.
CacheWrite(s) ==
    /\ write[s] # NoValue
    /\ entry' = SetEx(write[s])
    /\ write' = [write EXCEPT ![s] = NoValue]
    /\ late' = [late EXCEPT ![s] = 0]
    /\ UNCHANGED <<kind, upstream, age, phase, pc, val, wait, result, faults>>

\* is_authenticated_internal awaits its write.
CacheSet(s) ==
    /\ pc[s] = "set"
    /\ entry' = SetEx(val[s])
    /\ pc' = [pc EXCEPT ![s] = "check"]
    /\ UNCHANGED <<kind, upstream, age, phase, val, wait, write, late, result, faults>>

\* The end of verify_identity and of from_request_parts.
Outcome(v) ==
    CASE v = "notFound" -> "unregistered"
      [] v = "valid" \/ (v \in Cacaos /\ Verified(v)) -> "accepted"
      [] OTHER -> "refused"

End(s, outcome) ==
    /\ result' = [result EXCEPT ![s] = outcome]
    /\ pc' = [pc EXCEPT ![s] = "idle"]
    /\ val' = [val EXCEPT ![s] = NoValue]
    /\ wait' = [wait EXCEPT ![s] = 0]

Check(s) ==
    /\ pc[s] = "check"
    /\ End(s, Outcome(val[s]))
    /\ UNCHANGED <<kind, upstream, age, phase, entry, write, late, faults>>

\* An error of Redis or of the transport ends the request; of the write of an
\* authentication as well.
RequestErr(s) ==
    /\ faults < MaxFaults
    /\ pc[s] \in {"get", "fetch", "set"}
    /\ End(s, "error")
    /\ faults' = faults + 1
    /\ UNCHANGED <<kind, upstream, age, phase, entry, write, late>>

\* cacao.verify asks the chain of a contract wallet about its signature; an error of
\* that call refuses the request like a bad signature does (CacaoVerification).
VerifyErr(s) ==
    /\ faults < MaxFaults
    /\ kind = "identity" /\ pc[s] = "check"
    /\ val[s] \in Cacaos /\ Cacao[val[s]].contract
    /\ End(s, "refused")
    /\ faults' = faults + 1
    /\ UNCHANGED <<kind, upstream, age, phase, entry, write, late>>

\* The spawned task logs an error of its write.
CacheWriteErr(s) ==
    /\ faults < MaxFaults
    /\ write[s] # NoValue
    /\ write' = [write EXCEPT ![s] = NoValue]
    /\ late' = [late EXCEPT ![s] = 0]
    /\ faults' = faults + 1
    /\ UNCHANGED <<kind, upstream, age, phase, entry, pc, val, wait, result>>

\* The process ends, with its requests and spawned tasks.
Crash ==
    /\ faults < MaxFaults
    /\ pc' = [s \in Slots |-> "idle"] /\ val' = [s \in Slots |-> NoValue]
    /\ wait' = [s \in Slots |-> 0]
    /\ write' = [s \in Slots |-> NoValue] /\ late' = [s \in Slots |-> 0]
    /\ result' = [s \in Slots |-> "none"]
    /\ faults' = faults + 1
    /\ UNCHANGED <<kind, upstream, age, phase, entry>>

-----------------------------------------------------------------------------
(* The keys server, the registry and time.                                 *)

\* A key is registered, registered anew or removed; a secret is issued or
\* revoked; the registry goes down or comes back.
UpstreamChanges(a) ==
    /\ a # upstream
    /\ upstream' = a
    /\ age' = [age EXCEPT ![a] = 0]
    /\ UNCHANGED <<kind, phase, entry, pc, val, wait, write, late, result, faults>>

\* nbf or exp of a CACAO passes.
WindowMoves(c) ==
    /\ \/ phase[c] = "early" /\ phase' = [phase EXCEPT ![c] = "live"]
       \/ phase[c] = "live" /\ Cacao[c].exp /\ phase' = [phase EXCEPT ![c] = "expired"]
    /\ UNCHANGED <<kind, upstream, age, entry, pc, val, wait, write, late, result, faults>>

Tick ==
    /\ \A s \in Slots : (pc[s] # "idle" => wait[s] < Delay) /\ (write[s] # NoValue => late[s] < Delay)
    /\ age' = [a \in Answers |-> IF a = upstream THEN 0
                                 ELSE IF age[a] < Ancient THEN age[a] + 1 ELSE Ancient]
    /\ entry' = IF entry.ttl > 1 THEN [entry EXCEPT !.ttl = @ - 1] ELSE NoEntry
    /\ wait' = [s \in Slots |-> IF pc[s] = "idle" THEN 0 ELSE wait[s] + 1]
    /\ late' = [s \in Slots |-> IF write[s] = NoValue THEN 0 ELSE late[s] + 1]
    /\ UNCHANGED <<kind, upstream, phase, pc, val, write, result, faults>>

-----------------------------------------------------------------------------

SlotStep(s) ==
    \/ CacheGet(s) \/ FetchCacao(s) \/ FetchValidity(s)
    \/ CacheSet(s) \/ Check(s)

Next ==
    \/ \E s \in Slots :
        \/ Begin(s) \/ SlotStep(s) \/ CacheWrite(s)
        \/ RequestErr(s) \/ VerifyErr(s) \/ CacheWriteErr(s)
    \/ Crash
    \/ \E a \in Answers : UpstreamChanges(a)
    \/ \E c \in Cacaos : WindowMoves(c)
    \/ Tick

Spec == Init /\ [][Next]_vars

\* Clients try again, Redis, the services and the chains of contract wallets answer
\* in the end (their errors are bounded by MaxFaults), and time passes.
Fairness ==
    /\ \A s \in Slots : WF_vars(Begin(s)) /\ WF_vars(SlotStep(s)) /\ WF_vars(CacheWrite(s))
    /\ WF_vars(Tick)

FairSpec == Spec /\ Fairness

-----------------------------------------------------------------------------
(* Properties.                                                             *)

\* The answers that a request may have got when it works with v.
Grounds(v) == IF v = "invalid" THEN {"invalid", "down"} ELSE {v}

\* How old the answer behind a decision may be: it reached the cache within one
\* delay, was there for less than the time to live, and is acted on within another.
Recent(a) == age[a] < TTL + 2 * Delay

\* A request is accepted only on what the keys server or the registry still
\* said recently: writes of spawned tasks that come late or out of order, and
\* entries that expire between two requests, do not keep a key that was removed or
\* a revoked secret alive for longer, and a CACAO is not used past its exp.
VouchedFor ==
    [][\A s \in Slots :
        result[s] # "accepted" /\ result'[s] = "accepted" =>
            /\ Recent(val[s])
            /\ val[s] \in Cacaos => phase[val[s]] = "live"]_vars

\* A request is refused only on an answer that was given just as recently: after a
\* failure of the registry its "not valid" is forgotten in half an hour.  The answer
\* need not be at fault: a CACAO that is in order is refused as well when the call to
\* the chain of a contract wallet fails (cacao.verify), which no cache remembers.
\* A key that the keys server does not know is asked for again at once.
RejectedForCause ==
    [][\A s \in Slots :
        /\ result[s] # "refused" /\ result'[s] = "refused" =>
               \E a \in Grounds(val[s]) : Recent(a)
        /\ result[s] # "unregistered" /\ result'[s] = "unregistered" =>
               age["notFound"] <= Delay]_vars

\* The keys server holds a CACAO that is in order, or the registry accepts the secret.
Healthy == upstream = "valid" \/ (upstream \in Cacaos /\ Verified(upstream))

\* Once the credential is and stays in order, clients that try again are accepted
\* again and again: no refusal that was cached, and no CACAO that was replaced,
\* outlives its entry, however often it is read.
Recovers == <>[]Healthy => []<>(\E s \in Slots : result[s] = "accepted")
=============================================================================
