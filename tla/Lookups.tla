------------------------------- MODULE Lookups -------------------------------
(***************************************************************************)
(* The caches of internal/geoip (its HTTP mode) and internal/abuseipdb,    *)
(* asked at once by the detection modules, the enforcer and the API.  A    *)
(* look-up that misses asks the service outside the lock and stores the    *)
(* answer under it; a failed one stores nothing.                           *)
(*                                                                         *)
(* The service's opinion of an address is a member of Opinions and changes *)
(* with time; the organisation of Org comes with the country, so one value *)
(* stands for both.                                                        *)
(***************************************************************************)
EXTENDS Integers, FiniteSets

CONSTANTS
    Clients,        \* the goroutines that look addresses up
    Addresses,
    Private,        \* addresses geoip does not ask about
    Opinions,
    None,
    TTL,            \* CacheTTL
    Timeout,        \* the timeout of the HTTP client
    MaxEntries,     \* maxCacheEntries
    First,          \* address -> the opinion it starts with
    MaxTime,        \* bound: the clock
    MaxChanges,     \* bound: changes of an opinion
    MaxLookups      \* bound: look-ups in a behaviour

ASSUME LookupsAssumption ==
    /\ None \notin Opinions \cup Addresses /\ Private \subseteq Addresses
    /\ First \in [Addresses -> Opinions]
    /\ {TTL, Timeout, MaxEntries, MaxTime, MaxChanges, MaxLookups} \subseteq Nat

VARIABLES
    kind,           \* "geoip" or "abuseipdb": whose cache this is
    now,
    opinion,        \* what the service says of an address at present
    cache,
    pc,             \* client -> its step
    ip, since,      \* client -> the address, and when the request left
    purpose,        \* client -> Country, Check or Org
    fetched,        \* client -> what the service answered
    answer,         \* client -> what the look-up returned
    lookups, changes,
    heldAt,         \* history: when the service last held an opinion
    answeredAt,     \* history: client -> when the look-up returned
    storedAt        \* history: when an answer was last stored

service == <<kind, now, opinion, changes, heldAt>>
request == <<ip, since, purpose, fetched>>
reply == <<answer, answeredAt>>
vars == <<service, cache, pc, request, reply, lookups, storedAt>>

NoEntry == [value |-> None, expiry |-> 0]
Entries == [value : Opinions, expiry : Nat] \cup {NoEntry}
Cached == {a \in Addresses : cache[a] # NoEntry}
Expired(e) == e.expiry < now
AnyHit(a) == cache[a] # NoEntry  \* mutant: entries do not expire
Hit(a) ==
    /\ cache[a] # NoEntry
    /\ IF kind = "geoip" THEN now < cache[a].expiry ELSE ~Expired(cache[a])

Init ==
    /\ kind \in {"geoip", "abuseipdb"} /\ now = 0 /\ opinion = First /\ changes = 0
    /\ cache = [a \in Addresses |-> NoEntry]
    /\ pc = [c \in Clients |-> "idle"] /\ ip = [c \in Clients |-> None]
    /\ since = [c \in Clients |-> 0] /\ fetched = [c \in Clients |-> None]
    /\ purpose = [c \in Clients |-> "check"] /\ answer = [c \in Clients |-> None]
    /\ lookups = 0 /\ storedAt = 0 /\ answeredAt = [c \in Clients |-> 0]
    /\ heldAt = [a \in Addresses |-> [o \in Opinions |-> IF o = opinion[a] THEN 0 ELSE -1]]

Return(c, value) ==
    /\ pc' = [pc EXCEPT ![c] = "idle"] /\ fetched' = [fetched EXCEPT ![c] = None]
    /\ answer' = [answer EXCEPT ![c] = value]
    /\ answeredAt' = [answeredAt EXCEPT ![c] = now]

\* A look-up starts.  Org asks the cache twice before it asks the service, which
\* is the same as asking it once, a little later.
Ask(c, a, what) ==
    /\ pc[c] = "idle" /\ lookups < MaxLookups /\ lookups' = lookups + 1
    /\ what = "org" => kind = "geoip"
    /\ ip' = [ip EXCEPT ![c] = a] /\ purpose' = [purpose EXCEPT ![c] = what]
    /\ since' = [since EXCEPT ![c] = now]
    /\ IF kind = "geoip" /\ a \in Private THEN Return(c, None)
       ELSE IF Hit(a) THEN Return(c, cache[a].value)
       ELSE /\ pc' = [pc EXCEPT ![c] = "fetch"] /\ answer' = [answer EXCEPT ![c] = None]
            /\ UNCHANGED <<fetched, answeredAt>>
    /\ UNCHANGED <<service, cache, storedAt>>

\* The service forms its answer.
Answer(c) ==
    /\ pc[c] = "fetch" /\ pc' = [pc EXCEPT ![c] = "store"]
    /\ fetched' = [fetched EXCEPT ![c] = opinion[ip[c]]]
    /\ UNCHANGED <<service, cache, ip, since, purpose, reply, lookups, storedAt>>

\* Country and Check return what lookupAPI or fetch got them; Org goes on to
\* read the organisation of whatever entry there is.
Finish(c, value) ==
    IF purpose[c] = "org"
    THEN /\ pc' = [pc EXCEPT ![c] = "read"] /\ fetched' = [fetched EXCEPT ![c] = None]
         /\ UNCHANGED reply
    ELSE Return(c, value)

\* The request fails, is refused or takes too long.
FetchFails(c) ==
    /\ pc[c] \in {"fetch", "store"} /\ Finish(c, None)
    /\ UNCHANGED <<service, cache, ip, since, purpose, lookups, storedAt>>

PurgedLate ==  \* mutant: the purge comes one entry late
    [a \in Addresses |-> IF Cardinality(Cached) > MaxEntries /\ Expired(cache[a])
                         THEN NoEntry ELSE cache[a]]
Purged ==
    [a \in Addresses |-> IF Cardinality(Cached) >= MaxEntries /\ Expired(cache[a])
                         THEN NoEntry ELSE cache[a]]
Stored(c) == [value |-> fetched[c], expiry |-> now + TTL]
Store(c) ==
    /\ pc[c] = "store"
    /\ IF kind = "geoip" \/ TTL > 0
       THEN cache' = [Purged EXCEPT ![ip[c]] = Stored(c)] /\ storedAt' = now
       ELSE UNCHANGED <<cache, storedAt>>
    /\ Finish(c, fetched[c])
    /\ UNCHANGED <<service, ip, since, purpose, lookups>>

ReadOrg(c) ==
    /\ pc[c] = "read" /\ Return(c, cache[ip[c]].value)
    /\ UNCHANGED <<service, cache, ip, since, purpose, lookups, storedAt>>

\* An address changes hands.
Change(a, o) ==
    /\ o # opinion[a] /\ changes < MaxChanges /\ changes' = changes + 1
    /\ opinion' = [opinion EXCEPT ![a] = o]
    /\ heldAt' = [heldAt EXCEPT ![a][o] = now]
    /\ UNCHANGED <<kind, now, cache, pc, request, reply, lookups, storedAt>>

\* No request outlives the timeout of the client.
Tick ==
    /\ now < MaxTime /\ now' = now + 1
    /\ \A c \in Clients : pc[c] # "idle" => now < since[c] + Timeout
    /\ heldAt' = [a \in Addresses |-> [heldAt[a] EXCEPT ![opinion[a]] = now + 1]]
    /\ UNCHANGED <<kind, opinion, changes, cache, pc, request, reply, lookups, storedAt>>

Work(c) == Answer(c) \/ FetchFails(c) \/ Store(c) \/ ReadOrg(c)
Next ==
    \/ \E c \in Clients : Work(c)
    \/ \E c \in Clients, a \in Addresses, what \in {"check", "org"} : Ask(c, a, what)
    \/ \E a \in Addresses, o \in Opinions : Change(a, o)
    \/ Tick

Spec == Init /\ [][Next]_vars
-----------------------------------------------------------------------------
LookupsTypeOK ==
    /\ kind \in {"geoip", "abuseipdb"} /\ {now, lookups, changes} \subseteq Nat /\ storedAt \in Nat
    /\ opinion \in [Addresses -> Opinions] /\ cache \in [Addresses -> Entries]
    /\ pc \in [Clients -> {"idle", "fetch", "store", "read"}] /\ ip \in [Clients -> Addresses \cup {None}]
    /\ since \in [Clients -> Nat] /\ purpose \in [Clients -> {"check", "org"}]
    /\ fetched \in [Clients -> Opinions \cup {None}]
    /\ answer \in [Clients -> Opinions \cup {None}]
    /\ answeredAt \in [Clients -> Nat] /\ heldAt \in [Addresses -> [Opinions -> Int]]
=============================================================================
