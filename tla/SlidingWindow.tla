---------------------------- MODULE SlidingWindow ----------------------------
(***************************************************************************)
(* The eight modules that count events per address, account or domain in a *)
(* sliding window.  They are the same code but for the event they act on,  *)
(* the key, what they count and what they do about it.  A key without a    *)
(* window in the Go map has an empty one here.                             *)
(***************************************************************************)
EXTENDS Events

CONSTANTS
    ScanTime,      \* module -> length of its window
    Threshold,     \* module -> records that raise an alert; 0 disables the
                   \* signal of sasl_connections on the total
    MaxUniqueIPs   \* addresses that raise one in sasl_connections, or 0

VARIABLES
    windows,       \* module -> key -> records, oldest arrival first
    callCount,     \* module -> events handled since its last purge
    since          \* history: what arrived since the last alert on the key

windowVars == <<windows, callCount, since>>

Sliding == {"auth_failed", "rcpt_flood", "bounce_rate", "number_messages",
            "queue_monitor", "dist_brute_force", "password_spray", "sasl_connections"}
ByAddress == {"auth_failed", "rcpt_flood", "password_spray"}
Keys == IPs \cup Accounts \cup Domains
Items == IPs \cup Accounts \cup {None}
Entries == [ts : Int, item : Items]

ASSUME SlidingWindowAssumption ==
    /\ ScanTime \in [Sliding -> Nat] /\ Threshold \in [Sliding -> Nat]
    /\ \A m \in Sliding \ {"sasl_connections"} : Threshold[m] > 0
    /\ MaxUniqueIPs \in Nat

WindowsTypeOK ==
    /\ windows \in [Sliding -> [Keys -> Seq(Entries)]]
    /\ callCount \in [Sliding -> 0..(PruneEvery - 1)]
    /\ since \in [Sliding -> [Keys -> Seq(Entries)]]

WindowsInit ==
    /\ windows = [m \in Sliding |-> [k \in Keys |-> <<>>]]
    /\ callCount = [m \in Sliding |-> 0]
    /\ since = [m \in Sliding |-> [k \in Keys |-> <<>>]]

-----------------------------------------------------------------------------

TypeOf ==
    [auth_failed |-> "auth_failed", rcpt_flood |-> "recipient_added",
     bounce_rate |-> "message_bounce", number_messages |-> "message_sent",
     queue_monitor |-> "message_deferred", dist_brute_force |-> "auth_failed",
     password_spray |-> "auth_failed", sasl_connections |-> "auth_success"]

KeyOf(m, ev) ==
    IF m \in ByAddress THEN ev.ip
    ELSE IF m = "queue_monitor" THEN ev.dest ELSE ev.account

\* The other modules keep the timestamp only.
ItemOf(m, ev) ==
    IF m \in {"dist_brute_force", "sasl_connections"} THEN ev.ip
    ELSE IF m = "password_spray" THEN ev.account ELSE None

\* Deliveries to local mailboxes and to internal relays do not count, nor do
\* the logins of mailbox.log.
IsExternalDelivery(ev) == ev.via = "external"
IsMailboxProtocol(ev) == ev.via = "mailbox"

Handles(m, ev) ==
    /\ ev.type = TypeOf[m]
    /\ KeyOf(m, ev) # None
    /\ m \in {"dist_brute_force", "password_spray"} => ItemOf(m, ev) # None
    /\ m = "number_messages" => IsExternalDelivery(ev)
    /\ m = "sasl_connections" => ~IsMailboxProtocol(ev)

ManyAddresses(w, P) == MaxUniqueIPs > 0 /\ Cardinality(Distinct(w, P)) >= MaxUniqueIPs

\* Whether the records of w at the positions P raise an alert.
Suffice(m, w, P) ==
    IF m \in {"dist_brute_force", "password_spray"}
    THEN Cardinality(Distinct(w, P)) >= Threshold[m]
    ELSE \/ m = "sasl_connections" /\ ManyAddresses(w, P)
         \/ Threshold[m] > 0 /\ Cardinality(P) >= Threshold[m]
Reached(m, w) == Suffice(m, w, 1..Len(w))

Entry(m, ev) == [ts |-> ev.ts, item |-> ItemOf(m, ev)]
Cutoff(m, ev) == ev.ts - ScanTime[m]
Current(m, ev) ==
    Append(TrimOld(windows[m][KeyOf(m, ev)], Cutoff(m, ev)), Entry(m, ev))
Fires(m, ev) == Handles(m, ev) /\ Reached(m, Current(m, ev))

\* The lazy purge forgets the keys whose whole window is old.
Prune(ws, cutoff) ==
    [k \in Keys |-> IF TrimOld(ws[k], cutoff) = <<>> THEN <<>> ELSE ws[k]]

Due(m) == callCount[m] + 1 >= PruneEvery

\* An alert deletes the window, so that the key counts from zero again.
KeepWindow(m, ev) ==  \* mutant: the window outlives its alert
    Current(m, ev)
Remaining(m, ev) == IF Fires(m, ev) THEN <<>> ELSE Current(m, ev)

Updated(m, ev) ==
    LET entered == [windows[m] EXCEPT ![KeyOf(m, ev)] = Current(m, ev)]
        pruned == IF Due(m) THEN Prune(entered, Cutoff(m, ev)) ELSE entered
    IN  [pruned EXCEPT ![KeyOf(m, ev)] = Remaining(m, ev)]

HandleWindows(ev) ==
    /\ windows' = [m \in Sliding |-> IF Handles(m, ev) THEN Updated(m, ev) ELSE windows[m]]
    /\ callCount' = [m \in Sliding |->
           IF ~Handles(m, ev) THEN callCount[m] ELSE IF Due(m) THEN 0 ELSE callCount[m] + 1]
    /\ since' = [m \in Sliding |->
           IF ~Handles(m, ev) THEN since[m]
           ELSE [since[m] EXCEPT ![KeyOf(m, ev)] =
                    IF Fires(m, ev) THEN <<>> ELSE Append(@, Entry(m, ev))]]

-----------------------------------------------------------------------------
(* The alerts a module returns.                                            *)

\* The addresses of a window, in order of first appearance.
UniqueIPs(w) ==
    LET first == {i \in 1..Len(w) :
            w[i].item # None /\ \A j \in 1..(i - 1) : w[j].item # w[i].item}
        rank(i) == Cardinality({j \in first : j <= i})
    IN  [n \in 1..Cardinality(first) |-> w[CHOOSE i \in first : rank(i) = n].item]

\* The enforcer spares an account whose alert names an address of an allowed
\* country, so the alert names a foreign one when the window has any.  An
\* address that does not resolve counts as foreign.
LastIP(ips, fallback, lost) == fallback  \* mutant: the address of the last login
TargetIP(ips, fallback, lost) ==
    LET foreign == {n \in 1..Len(ips) : ~IsAllowed(Country(ips[n], lost))}
    IN  IF AllowedCountries = {} \/ foreign = {} THEN fallback
        ELSE ips[CHOOSE n \in foreign : \A k \in foreign : n <= k]

Block(m, ev, acct) == Alert(m, "block_ip", ev.ip, acct)
Suspend(m, ev, addr) == Alert(m, "suspend_account", addr, ev.account)
Notify(m, ev, acct) == Alert(m, "notify_only", ev.ip, acct)

SaslAlerts(ev, lost) ==
    LET w == Current("sasl_connections", ev)
        ips == UniqueIPs(w)
        suspend == Suspend("sasl_connections", ev, TargetIP(ips, ev.ip, lost))
        block(n) == Alert("sasl_connections", "block_ip", ips[n], ev.account)
    IN  IF ManyAddresses(w, 1..Len(w))
        THEN <<suspend>> \o [n \in 1..Len(ips) |-> block(n)] ELSE <<suspend>>

AuthFailedAlerts(ev) == <<Block("auth_failed", ev, None)>>
RcptFloodAlerts(ev) ==
    <<Block("rcpt_flood", ev, ev.account)>>
        \o (IF ev.account = None THEN <<>> ELSE <<Suspend("rcpt_flood", ev, ev.ip)>>)
BounceRateAlerts(ev) == <<Suspend("bounce_rate", ev, ev.ip)>>
NumberMessagesAlerts(ev) == <<Suspend("number_messages", ev, None)>>
QueueMonitorAlerts(ev) == <<Notify("queue_monitor", ev, None)>>
DistBruteAlerts(ev) == <<Notify("dist_brute_force", ev, ev.account)>>
PasswordSprayAlerts(ev) == <<Block("password_spray", ev, ev.account)>>

WindowAlerts(m, ev, lost) ==
    IF ~Fires(m, ev) THEN <<>>
    ELSE CASE m = "auth_failed" -> AuthFailedAlerts(ev)
           [] m = "rcpt_flood" -> RcptFloodAlerts(ev)
           [] m = "bounce_rate" -> BounceRateAlerts(ev)
           [] m = "number_messages" -> NumberMessagesAlerts(ev)
           [] m = "queue_monitor" -> QueueMonitorAlerts(ev)
           [] m = "dist_brute_force" -> DistBruteAlerts(ev)
           [] m = "password_spray" -> PasswordSprayAlerts(ev)
           [] m = "sasl_connections" -> SaslAlerts(ev, lost.sasl)
=============================================================================
