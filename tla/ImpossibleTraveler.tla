-------------------------- MODULE ImpossibleTraveler --------------------------
(***************************************************************************)
(* impossible_traveler: two logins of an account from different countries  *)
(* within less time than the journey takes.                                *)
(***************************************************************************)
EXTENDS Events

CONSTANTS
    TravelWindow,
    StaleAfter,      \* age at which an account is forgotten
    TrustedProxies,  \* addresses whose logins say nothing about the place
    TrustedOrgs      \* the same, known by their organisation

ASSUME ImpossibleTravelerAssumption ==
    /\ TravelWindow \in Nat \ {0} /\ StaleAfter \in Nat
    /\ TrustedProxies \subseteq IPs /\ TrustedOrgs \subseteq IPs

VARIABLES
    lastLogins,      \* account -> country, address and time of its last login
    travelCalls,     \* logins handled since the last purge
    previous         \* history: the last login as it was, and whether it alerted

travelVars == <<lastLogins, travelCalls, previous>>

NoLogin == [country |-> None, ip |-> None, ts |-> 0]
NoHistory == [country |-> None, ts |-> 0, alerted |-> FALSE]

TravelTypeOK ==
    /\ lastLogins \in [Accounts -> [country : Countries \cup {None}, ip : IPs \cup {None}, ts : Int]]
    /\ travelCalls \in 0..(PruneEvery - 1)
    /\ previous \in [Accounts -> [country : Countries \cup {None}, ts : Int, alerted : BOOLEAN]]

TravelInit ==
    /\ lastLogins = [a \in Accounts |-> NoLogin]
    /\ travelCalls = 0
    /\ previous = [a \in Accounts |-> NoHistory]

-----------------------------------------------------------------------------

IsTrip(ev, lost) ==
    /\ ev.type = "auth_success" /\ ev.account # None /\ ev.ip # None
    /\ ev.ip \notin TrustedProxies \cup (TrustedOrgs \ lost.org)
\* From here on the answer is the country of the address.
Located(ev, lost) == IsTrip(ev, lost) /\ Country(ev.ip, lost.place) # None

PruneStale(ev) ==
    IF travelCalls + 1 < PruneEvery THEN lastLogins
    ELSE [a \in Accounts |->
            IF lastLogins[a].ts < ev.ts - StaleAfter THEN NoLogin ELSE lastLogins[a]]

Apart(t, u) == IF t >= u THEN t - u ELSE u - t
TooFast(from, ev) ==
    /\ from.country \notin {None, CountryOf[ev.ip]}
    /\ Apart(ev.ts, from.ts) < TravelWindow
    /\ ~(IsAllowed(from.country) /\ IsAllowed(CountryOf[ev.ip]))
Impossible(ev, lost) == Located(ev, lost) /\ TooFast(PruneStale(ev)[ev.account], ev)

\* After an alert the login is entered a window in the past: the account's
\* owner may come back without raising another one.
NoRewind(ev, lost) == ev.ts  \* mutant
EnteredAt(ev, lost) == IF Impossible(ev, lost) THEN ev.ts - TravelWindow ELSE ev.ts

HandleTravel(ev, lost) ==
    IF ~IsTrip(ev, lost) THEN UNCHANGED travelVars
    ELSE
        /\ travelCalls' = IF travelCalls + 1 < PruneEvery THEN travelCalls + 1 ELSE 0
        /\ lastLogins' =
              IF ~Located(ev, lost) THEN PruneStale(ev)
              ELSE [PruneStale(ev) EXCEPT ![ev.account] =
                       [country |-> CountryOf[ev.ip], ip |-> ev.ip, ts |-> EnteredAt(ev, lost)]]
        /\ previous' =
              IF ~Located(ev, lost) THEN previous
              ELSE [previous EXCEPT ![ev.account] =
                       [country |-> CountryOf[ev.ip], ts |-> ev.ts, alerted |-> Impossible(ev, lost)]]

\* The foreign addresses among the two logins, the current one first.
Foreigners(ev) ==
    LET last == PruneStale(ev)[ev.account]
        foreign(addr, country) == IF IsAllowed(country) THEN <<>> ELSE <<addr>>
    IN  IF AllowedCountries = {} THEN <<>>
        ELSE foreign(ev.ip, CountryOf[ev.ip]) \o foreign(last.ip, last.country)

TravelAlerts(ev, lost) ==
    LET blamed == IF Foreigners(ev) = <<>> THEN <<ev.ip>> ELSE Foreigners(ev)
        suspend == Alert("impossible_traveler", "suspend_account", blamed[1], ev.account)
        block(n) == Alert("impossible_traveler", "block_ip", blamed[n], ev.account)
    IN  IF ~Impossible(ev, lost) THEN <<>>
        ELSE <<suspend>> \o [n \in 1..(Len(blamed) - 1) |-> block(n + 1)]
=============================================================================
