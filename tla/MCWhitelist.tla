----------------------------- MODULE MCWhitelist -----------------------------
(* An address written in two ways, a range around it, an account, a value   *)
(* that is none of them, a private address.                                 *)
EXTENDS WhitelistProperties, TLC

CONSTANTS host, host32, range, account, bad, near, private

CanonOf == [v \in Values |-> IF v = host THEN host32 ELSE v]
CoversOf == [v \in Values |->
    CASE v = host32 -> {host} [] v = range -> {host, near} [] v = account -> {account}
      [] OTHER -> {}]
Alike == Permutations(Callers) \cup Permutations(Workers)
=============================================================================
