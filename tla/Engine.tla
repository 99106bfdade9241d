------------------------------- MODULE Engine -------------------------------
(***************************************************************************)
(* The engine of internal/detection: one goroutine takes the events the    *)
(* two log watchers put in eventCh, drops those of exempt addresses and    *)
(* accounts, hands the others to the eleven modules and sends their alerts *)
(* to the enforcer over a channel it never waits for.  The enforcer and    *)
(* the API change the whitelist meanwhile.                                 *)
(*                                                                         *)
(* The modules share no state, so what the eleven return for one event is  *)
(* computed in one step; the sends that the code makes in between follow   *)
(* one by one.                                                             *)
(***************************************************************************)
EXTENDS SlidingWindow, DomainDiscovery, AccountTakeover, ImpossibleTraveler

CONSTANTS
    Proxies,      \* addresses of cloud proxies
    Private,      \* addresses of the ranges built into the whitelist
    Operator,     \* addresses and accounts the operator may whitelist
    Kinds,        \* the events that may happen, but for their time
    AlertBuffer,  \* capacity of alertCh
    MaxTime,      \* bound: latest timestamp in the logs
    MaxEvents,    \* bound: events in a behaviour
    MaxChanges    \* bound: changes of the whitelist in a behaviour

ASSUME EngineAssumption ==
    /\ Proxies \subseteq IPs /\ Private \subseteq IPs
    /\ Operator \subseteq IPs \cup Accounts
    /\ Kinds \subseteq EventType
    /\ {AlertBuffer, MaxTime, MaxEvents, MaxChanges} \subseteq Nat

VARIABLES
    now,        \* the latest timestamp read from either log
    event,      \* the event being dispatched
    lost,       \* its look-ups that fail
    pending,    \* the alerts of the event that are yet to be sent
    alertCh,    \* the channel to the enforcer
    whitelist,  \* what the operator has exempted
    silenced,   \* addresses under a ban
    events, changes  \* counters of the bounds

modules == <<windowVars, discoveryVars, takeoverVars, travelVars>>
lists == <<whitelist, silenced, changes>>
vars == <<now, event, lost, events, pending, alertCh, lists, modules>>

NoEvent == [type |-> "message_sent", ip |-> None, account |-> None,
            via |-> "internal", dest |-> None, ts |-> 0]

Modules == Sliding \cup {"domain_discovery", "account_takeover", "impossible_traveler"}
AlertType == [module : Modules, action : {"block_ip", "suspend_account", "notify_only"},
              ip : IPs \cup {None}, account : Accounts \cup {None}]

EngineTypeOK ==
    /\ WindowsTypeOK /\ DiscoveryTypeOK /\ TakeoverTypeOK /\ TravelTypeOK
    /\ now \in 0..MaxTime /\ event \in EventType /\ lost \in LookupFailures
    /\ pending \in Seq(AlertType) /\ alertCh \in Seq(AlertType)
    /\ whitelist \subseteq Operator /\ silenced \subseteq IPs
    /\ events \in 0..MaxEvents /\ changes \in 0..MaxChanges

Init ==
    /\ WindowsInit /\ DiscoveryInit /\ TakeoverInit /\ TravelInit
    /\ now = 0 /\ event = NoEvent /\ lost = AllResolve /\ events = 0
    /\ pending = <<>> /\ alertCh = <<>>
    /\ whitelist = {} /\ silenced = {} /\ changes = 0

-----------------------------------------------------------------------------

ContainsIP(addr) == addr \in Private \cup whitelist \cup silenced
IsWhitelisted(ev) == ContainsIP(ev.ip) \/ ev.account \in whitelist

\* The address of a cloud proxy says nothing about the client.
KeepProxy(ev) == ev  \* mutant
ClearProxy(ev) == IF ev.ip \in Proxies THEN [ev EXCEPT !.ip = None] ELSE ev

\* In the order in which main registers the modules.
Alerts(ev, suspect, fails) ==
    WindowAlerts("auth_failed", ev, fails) \o WindowAlerts("number_messages", ev, fails)
    \o WindowAlerts("sasl_connections", ev, fails) \o TravelAlerts(ev, fails)
    \o WindowAlerts("queue_monitor", ev, fails) \o DiscoveryAlerts(ev)
    \o WindowAlerts("bounce_rate", ev, fails) \o WindowAlerts("rcpt_flood", ev, fails)
    \o WindowAlerts("dist_brute_force", ev, fails) \o WindowAlerts("password_spray", ev, fails)
    \o TakeoverAlerts(ev, suspect)

\* Only the modules on logins look addresses up.
Outcomes(ev) == IF ev.type = "auth_success" THEN LookupFailures ELSE {AllResolve}
Suspects(ev) == IF Sends(ev) THEN Dominant(Recent(ev)) ELSE {None}

\* A log lags behind the other one by Skew at most.
Arrives(kind, at) ==
    /\ pending = <<>> /\ events < MaxEvents
    /\ at \in 0..MaxTime /\ at >= now - Skew
    /\ now' = IF at > now THEN at ELSE now
    /\ events' = events + 1
    /\ event' = [kind EXCEPT !.ts = at]
    /\ UNCHANGED <<alertCh, lists>>

Ignore(kind, at) ==
    /\ Arrives(kind, at)
    /\ IsWhitelisted(event')
    /\ UNCHANGED <<lost, pending, modules>>

Dispatch(kind, at) ==
    /\ Arrives(kind, at)
    /\ ~IsWhitelisted(event')
    /\ LET ev == ClearProxy([kind EXCEPT !.ts = at]) IN
       \E fails \in Outcomes(ev), suspect \in Suspects(ev) :
           /\ lost' = fails
           /\ HandleWindows(ev) /\ HandleDiscovery(ev)
           /\ HandleTakeover(ev) /\ HandleTravel(ev, fails)
           /\ pending' = Alerts(ev, suspect, fails)

\* The engine does not wait: with the channel full the alert is lost.
Send ==
    /\ pending # <<>>
    /\ alertCh' = IF Len(alertCh) < AlertBuffer
                  THEN Append(alertCh, Head(pending)) ELSE alertCh
    /\ pending' = Tail(pending)
    /\ UNCHANGED <<now, event, lost, events, lists, modules>>

\* The enforcer, as far as the engine sees it: an alert with an address may
\* end in a ban, which silences it.
Contain ==
    /\ alertCh # <<>>
    /\ alertCh' = Tail(alertCh)
    /\ \/ UNCHANGED silenced
       \/ /\ Head(alertCh).action # "notify_only"
          /\ Head(alertCh).ip \in IPs \ Private
          /\ silenced' = silenced \cup {Head(alertCh).ip}
    /\ UNCHANGED <<now, event, lost, events, pending, whitelist, changes, modules>>

BanEnds(addr) ==
    /\ addr \in silenced
    /\ silenced' = silenced \ {addr}
    /\ UNCHANGED <<now, event, lost, events, pending, alertCh, whitelist, changes, modules>>

\* POST and DELETE /whitelist/{value}.
Exempt(entry) ==
    /\ changes < MaxChanges /\ changes' = changes + 1
    /\ \/ entry \notin whitelist /\ whitelist' = whitelist \cup {entry}
       \/ entry \in whitelist /\ whitelist' = whitelist \ {entry}
    /\ UNCHANGED <<now, event, lost, events, pending, alertCh, silenced, modules>>

Next ==
    \/ \E kind \in Kinds, at \in 0..MaxTime : Ignore(kind, at) \/ Dispatch(kind, at)
    \/ Send \/ Contain
    \/ \E addr \in IPs : BanEnds(addr)
    \/ \E entry \in Operator : Exempt(entry)

Spec == Init /\ [][Next]_vars
=============================================================================
