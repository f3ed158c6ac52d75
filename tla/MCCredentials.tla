---------------------------- MODULE MCCredentials ----------------------------
(* Instances of Credentials for TLC. *)
EXTENDS Credentials, TLC

CONSTANTS k1, k2, app1

\* k1 is signed by a contract wallet, authorizes one app by a recap, and expires;
\* k2 was registered by another account, and authorizes all apps by its statement.
Registered ==
    k1 :> [iss |-> Sub, signed |-> TRUE, contract |-> TRUE, ownKey |-> TRUE, domain |-> app1,
           statement |-> {"recap"}, resources |-> <<[recap |-> TRUE, app |-> app1]>>,
           nbf |-> FALSE, exp |-> TRUE]
 @@ k2 :> [iss |-> NoValue, signed |-> TRUE, contract |-> FALSE, ownKey |-> TRUE, domain |-> app1,
           statement |-> {"unlimited"}, resources |-> <<[recap |-> FALSE, app |-> NoApp]>>,
           nbf |-> TRUE, exp |-> FALSE]
==============================================================================
