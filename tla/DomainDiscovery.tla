--------------------------- MODULE DomainDiscovery ---------------------------
(***************************************************************************)
(* domain_discovery: an address that fails against accounts of many        *)
(* domains.  Its window tumbles: it starts with the first failure and is   *)
(* replaced by a new one when it is over.                                  *)
(***************************************************************************)
EXTENDS Events

CONSTANTS DiscoveryTime, MaxDomains

ASSUME DomainDiscoveryAssumption ==
    DiscoveryTime \in Nat \ {0} /\ MaxDomains \in Nat \ {0}

VARIABLES
    states,          \* address -> start and domains of its window
    discoveryCalls,  \* events handled since the last purge
    attacks          \* history: domains attacked since the last alert

discoveryVars == <<states, discoveryCalls, attacks>>

NoState == [start |-> 0, domains |-> {}]

DiscoveryTypeOK ==
    /\ states \in [IPs -> [start : Int, domains : SUBSET Domains]]
    /\ discoveryCalls \in 0..(PruneEvery - 1)
    /\ attacks \in [IPs -> Seq([ts : Int, item : Domains])]

DiscoveryInit ==
    /\ states = [a \in IPs |-> NoState]
    /\ discoveryCalls = 0
    /\ attacks = [a \in IPs |-> <<>>]

IsAttack(ev) ==
    /\ ev.type = "auth_failed" /\ ev.ip # None /\ ev.account # None
    /\ DomainOf[ev.account] # None

Over(state, at) == at - state.start >= DiscoveryTime

PruneDiscovery(at) ==
    IF discoveryCalls + 1 < PruneEvery THEN states
    ELSE [a \in IPs |-> IF Over(states[a], at) THEN NoState ELSE states[a]]

Window(state, ev) ==
    IF state.domains = {} \/ Over(state, ev.ts)
    THEN [start |-> ev.ts, domains |-> {}] ELSE state

Attacked(ev) ==
    LET w == Window(PruneDiscovery(ev.ts)[ev.ip], ev)
    IN  [w EXCEPT !.domains = @ \cup {DomainOf[ev.account]}]

Discovers(ev) == IsAttack(ev) /\ Cardinality(Attacked(ev).domains) >= MaxDomains

HandleDiscovery(ev) ==
    IF IsAttack(ev)
    THEN /\ states' = [PruneDiscovery(ev.ts) EXCEPT
                          ![ev.ip] = IF Discovers(ev) THEN NoState ELSE Attacked(ev)]
         /\ discoveryCalls' = IF discoveryCalls + 1 < PruneEvery THEN discoveryCalls + 1 ELSE 0
         /\ attacks' = [attacks EXCEPT ![ev.ip] =
                IF Discovers(ev) THEN <<>>
                ELSE Append(@, [ts |-> ev.ts, item |-> DomainOf[ev.account]])]
    ELSE UNCHANGED discoveryVars

DiscoveryAlerts(ev) ==
    IF Discovers(ev) THEN <<Alert("domain_discovery", "block_ip", ev.ip, None)>> ELSE <<>>
=============================================================================
