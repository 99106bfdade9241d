------------------------------- MODULE Events -------------------------------
(***************************************************************************)
(* What the detection modules of internal/detection share: the events the  *)
(* parsers extract from mail.log and mailbox.log, the alerts they answer   *)
(* with, and the trimming of a window.                                     *)
(***************************************************************************)
EXTENDS Integers, Sequences, FiniteSets

CONSTANTS
    IPs, Accounts, Domains, Countries,
    None,              \* an empty field
    DomainOf,          \* account -> its domain, None without an @
    CountryOf,         \* address -> its country, None when nobody knows it
    Failing,           \* addresses whose look-ups may fail
    AllowedCountries,
    Skew,              \* how far a log may lag behind the other one
    PruneEvery         \* events a module handles between two lazy purges

EventTypes == {"auth_failed", "auth_success", "queue_accepted", "message_sent",
               "message_bounce", "message_deferred", "recipient_added"}

\* via: where the event comes from, or whether the delivery left the server;
\* dest: the domain a deferred message was meant for.
EventType == [type : EventTypes, ip : IPs \cup {None}, account : Accounts \cup {None},
              via : {"postfix", "mailbox", "external", "internal"},
              dest : Domains \cup {None}, ts : Int]

ASSUME EventsAssumption ==
    /\ None \notin IPs \cup Accounts \cup Domains \cup Countries
    /\ DomainOf \in [Accounts -> Domains \cup {None}]
    /\ CountryOf \in [IPs -> Countries \cup {None}]
    /\ Failing \subseteq IPs /\ AllowedCountries \subseteq Countries
    /\ Skew \in Nat /\ PruneEvery \in Nat \ {0}

Alert(m, does, addr, acct) ==
    [module |-> m, action |-> does, ip |-> addr, account |-> acct]

\* Every module looks an address up for itself and a failure is not cached:
\* the addresses that fail to resolve while an event is handled, for
\* sasl_connections and, in impossible_traveler, for the name of the
\* organisation and for the country.
LookupFailures == [sasl : SUBSET Failing, org : SUBSET Failing, place : SUBSET Failing]
AllResolve == [sasl |-> {}, org |-> {}, place |-> {}]
Country(addr, lost) == IF addr \in lost THEN None ELSE CountryOf[addr]
IsAllowed(country) == country \in AllowedCountries

\* The records that precede the first one inside the window.  trimOld stops
\* there: it takes the slice to be in chronological order.
OldPrefix(w, cutoff) == {i \in 1..Len(w) : \A j \in 1..i : w[j].ts < cutoff}
TrimInclusive(w, cutoff) ==  \* mutant: the edge of the window is dropped
    SubSeq(w, Cardinality(OldPrefix(w, cutoff + 1)) + 1, Len(w))
TrimOld(w, cutoff) == SubSeq(w, Cardinality(OldPrefix(w, cutoff)) + 1, Len(w))

\* The addresses or accounts of the records at the positions P, blanks aside.
Distinct(w, P) == {w[i].item : i \in P} \ {None}
=============================================================================
