------------------------------ MODULE MCResponse ------------------------------
(***************************************************************************)
(* Entry point of TLC for the response to alerts: two accounts under attack *)
(* from one foreign address, an attack that names no account, one that     *)
(* names nothing, and an address of an allowed country.                    *)
(***************************************************************************)
EXTENDS ResponseProperties, TLC

CONSTANTS i1, i2, a1, a2

Alert(m, act, i, a) == [module |-> m, action |-> act, ip |-> i, account |-> a]

AttackKinds ==
    {Alert("account_takeover", "suspend_account", i1, a1),
     Alert("password_spray", "suspend_account", i1, a2),
     Alert("auth_failed", "block_ip", i1, None),
     Alert("queue_monitor", "notify_only", None, None),
     Alert("account_takeover", "suspend_account", i2, a1)}
AllowedAddresses == {i2}
=============================================================================
