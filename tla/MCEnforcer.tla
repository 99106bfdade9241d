----------------------------- MODULE MCEnforcer -----------------------------
(***************************************************************************)
(* Values for the constants of Enforcer.                                   *)
(***************************************************************************)
EXTENDS EnforcerProperties, EnforcerRefinement

CONSTANTS
    host, net, priv, home,  \* a public address, a public range, a private
                            \* address and one of an allowed country
    main, api

Block(t, override) == [op |-> "block", ip |-> t, ttl |-> override]
Unblock(t) == [op |-> "unblock", ip |-> t, ttl |-> 0]

\* The operator may ban for ever, for longer than the configured tick, or lift.
NetRequests == {Block(net, -1), Block(net, 2), Unblock(net)}
\* Every kind of target at once.
MixedRequests == {Block(net, -1), Block(priv, -1), Unblock(host)}
=============================================================================
