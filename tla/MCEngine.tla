------------------------------ MODULE MCEngine ------------------------------
(***************************************************************************)
(* Values for the constants of Engine.                                     *)
(***************************************************************************)
EXTENDS EngineProperties, TLC

CONSTANTS
    a, b,           \* a foreign address, one of the home country
    p, r,           \* a proxy and a private address
    x, y,           \* accounts
    d, e,           \* their domains
    home, away

Ev(kind, addr, acct, from, to) ==
    [type |-> kind, ip |-> addr, account |-> acct, via |-> from, dest |-> to, ts |-> 0]
Fail(addr, acct) == Ev("auth_failed", addr, acct, "postfix", None)
Login(addr, acct) == Ev("auth_success", addr, acct, "postfix", None)
Queued(acct) == Ev("queue_accepted", None, acct, "postfix", None)

DomainOfAccount == (x :> d) @@ (y :> e)
CountryOfAddress == (a :> away) @@ (b :> home) @@ (p :> away) @@ (r :> None)

\* Thresholds of two or three, so that a window fills, alerts and fills again.
ShortScanTime == [m \in Sliding |-> 1]
LowThreshold == [m \in Sliding |-> IF m = "sasl_connections" THEN 3 ELSE 2]

\* What account_takeover, impossible_traveler and the modules on logins see.
AccessKinds == {Fail(a, x), Fail(a, y), Fail(b, x), Login(a, x), Login(b, x), Queued(x)}
\* What the modules on mail see, and the deliveries and logins they ignore.
Recipient(addr) == Ev("recipient_added", addr, x, "postfix", None)
MailKinds == {Recipient(a), Recipient(p),
              Ev("message_sent", None, x, "external", None),
              Ev("message_sent", None, x, "internal", None),
              Ev("message_bounce", None, x, "postfix", None),
              Ev("message_deferred", None, None, "postfix", d),
              Ev("auth_success", a, x, "mailbox", None)}

\* The same with failures and logins of addresses that nobody may be blamed for.
ExemptKinds == MailKinds \cup {Fail(p, x), Login(p, x), Fail(r, x), Login(r, x), Queued(x)}
=============================================================================
