---------------------------- MODULE LookupsProofs ----------------------------
(***************************************************************************)
(* The caches serve no answer that is too old, and outgrow their limit     *)
(* with valid entries only, for any clients, addresses and times.          *)
(*                                                                         *)
(* An answer under way was the service's opinion since the request left    *)
(* (FetchedIsRecent), and no request outlives the timeout (OnTime); so an  *)
(* entry expires at most TTL and one timeout after the service last held   *)
(* what it says (EntriesAreRecent), even if it overwrote a later answer.   *)
(***************************************************************************)
EXTENDS LookupsProperties, FiniteSetTheorems, TLAPS

HeldInPast ==
    \A x \in Addresses : /\ heldAt[x][opinion[x]] = now
                         /\ \A o \in Opinions : heldAt[x][o] <= now
OnTime ==
    \A c \in Clients : pc[c] # "idle" =>
        ip[c] \in Addresses /\ since[c] <= now /\ now <= since[c] + Timeout
FetchedIsRecent ==
    \A c \in Clients : pc[c] = "store" =>
        fetched[c] \in Opinions /\ since[c] <= heldAt[ip[c]][fetched[c]]
EntriesAreRecent ==
    \A x \in Cached : cache[x].expiry <= heldAt[x][cache[x].value] + TTL + Timeout
AnswersHaveAddress ==
    \A c \in Clients : /\ answer[c] # None => ip[c] \in Addresses
                       /\ pc[c] = "read" => purpose[c] = "org"

RecencyInv ==
    /\ LookupsTypeOK
    /\ HeldInPast /\ OnTime /\ FetchedIsRecent /\ EntriesAreRecent /\ AnswersHaveAddress
    /\ AnswersAreRecent

USE LookupsAssumption

LEMMA InitRecency == Init => RecencyInv
<1> SUFFICES ASSUME Init PROVE RecencyInv
  OBVIOUS
<1>1. LookupsTypeOK
  BY DEF Init, LookupsTypeOK, Entries
<1>2. HeldInPast
  BY DEF Init, HeldInPast
<1>3. OnTime /\ FetchedIsRecent /\ AnswersHaveAddress /\ AnswersAreRecent
  BY DEF Init, OnTime, FetchedIsRecent, AnswersHaveAddress, AnswersAreRecent
<1>4. EntriesAreRecent
  BY DEF Init, EntriesAreRecent, Cached
<1> QED
  BY <1>1, <1>2, <1>3, <1>4 DEF RecencyInv

\* An entry of the cache holds an opinion.
LEMMA CachedEntry ==
    ASSUME LookupsTypeOK, NEW x \in Cached
    PROVE  x \in Addresses /\ cache[x].value \in Opinions /\ cache[x].expiry \in Nat
  BY DEF LookupsTypeOK, Cached, Entries

LEMMA AskStep ==
    ASSUME RecencyInv, NEW c \in Clients, NEW x \in Addresses, NEW what \in {"check", "org"},
           Ask(c, x, what)
    PROVE  RecencyInv'
<1>1. /\ pc[c] = "idle" /\ lookups' = lookups + 1
      /\ ip' = [ip EXCEPT ![c] = x] /\ purpose' = [purpose EXCEPT ![c] = what]
      /\ since' = [since EXCEPT ![c] = now]
      /\ UNCHANGED <<kind, now, opinion, changes, heldAt, cache, storedAt>>
  BY DEF Ask, service
<1>2. CASE /\ pc' = [pc EXCEPT ![c] = "fetch"] /\ answer' = [answer EXCEPT ![c] = None]
           /\ UNCHANGED <<fetched, answeredAt>>
  <2>1. LookupsTypeOK'
    BY <1>1, <1>2 DEF RecencyInv, LookupsTypeOK
  <2>2. HeldInPast' /\ EntriesAreRecent'
    BY <1>1 DEF RecencyInv, HeldInPast, EntriesAreRecent, Cached
  <2>3. OnTime' /\ FetchedIsRecent' /\ AnswersHaveAddress'
    BY <1>1, <1>2 DEF RecencyInv, LookupsTypeOK, OnTime, FetchedIsRecent, AnswersHaveAddress
  <2>4. AnswersAreRecent'
    BY <1>1, <1>2 DEF RecencyInv, LookupsTypeOK, AnswersAreRecent
  <2> QED
    BY <2>1, <2>2, <2>3, <2>4 DEF RecencyInv
<1>3. ASSUME NEW value \in Opinions \cup {None}, Return(c, value),
             value # None => now - heldAt[x][value] <= TTL + Timeout
      PROVE  RecencyInv'
  <2>1. LookupsTypeOK'
    BY <1>1, <1>3 DEF RecencyInv, LookupsTypeOK, Return
  <2>2. HeldInPast' /\ EntriesAreRecent'
    BY <1>1 DEF RecencyInv, HeldInPast, EntriesAreRecent, Cached
  <2>3. OnTime' /\ FetchedIsRecent' /\ AnswersHaveAddress'
    BY <1>1, <1>3 DEF RecencyInv, LookupsTypeOK, OnTime, FetchedIsRecent, AnswersHaveAddress, Return
  <2>4. AnswersAreRecent'
    BY <1>1, <1>3 DEF RecencyInv, LookupsTypeOK, AnswersAreRecent, Return
  <2> QED
    BY <2>1, <2>2, <2>3, <2>4 DEF RecencyInv
<1>4. CASE Return(c, None)
  BY <1>3, <1>4
<1>5. CASE Hit(x) /\ Return(c, cache[x].value)
  <2>1. x \in Cached /\ cache[x].value \in Opinions /\ cache[x].expiry \in Nat
    BY <1>5, CachedEntry DEF Hit, Cached, RecencyInv
  <2>2. cache[x].expiry >= now
    BY <1>5, <2>1 DEF Hit, Expired, RecencyInv, LookupsTypeOK
  <2>3. now - heldAt[x][cache[x].value] <= TTL + Timeout
    BY <2>1, <2>2 DEF RecencyInv, LookupsTypeOK, EntriesAreRecent
  <2> QED
    BY <1>3, <1>5, <2>1, <2>3
<1> QED
  BY <1>2, <1>4, <1>5 DEF Ask

LEMMA AnswerStep ==
    ASSUME RecencyInv, NEW c \in Clients, Answer(c)
    PROVE  RecencyInv'
<1>1. /\ pc[c] = "fetch" /\ pc' = [pc EXCEPT ![c] = "store"]
      /\ fetched' = [fetched EXCEPT ![c] = opinion[ip[c]]]
      /\ UNCHANGED <<kind, now, opinion, changes, heldAt, cache, ip, since, purpose, answer,
                     answeredAt, lookups, storedAt>>
  BY DEF Answer, service, reply
<1>2. ip[c] \in Addresses
  BY <1>1 DEF RecencyInv, OnTime
<1>3. LookupsTypeOK'
  BY <1>1, <1>2 DEF RecencyInv, LookupsTypeOK
<1>4. HeldInPast' /\ EntriesAreRecent' /\ AnswersHaveAddress' /\ AnswersAreRecent'
  BY <1>1 DEF RecencyInv, HeldInPast, EntriesAreRecent, Cached, AnswersHaveAddress, AnswersAreRecent
<1>5. OnTime'
  BY <1>1 DEF RecencyInv, LookupsTypeOK, OnTime
<1>6. FetchedIsRecent'
  <2>1. since[c] <= now
    BY <1>1 DEF RecencyInv, OnTime
  <2> QED
    BY <1>1, <1>2, <2>1 DEF RecencyInv, LookupsTypeOK, FetchedIsRecent, HeldInPast
<1> QED
  BY <1>3, <1>4, <1>5, <1>6 DEF RecencyInv

\* A client that returns, or goes on to read the cache, while nothing else
\* changes: its answer matters only if it is not an organisation.
LEMMA FinishStep ==
    ASSUME RecencyInv, NEW c \in Clients, pc[c] # "idle", NEW value \in Opinions \cup {None},
           Finish(c, value) \/ Return(c, value), Return(c, value) => value = None \/ purpose[c] = "org",
           UNCHANGED <<service, cache, ip, since, purpose, lookups, storedAt>>
    PROVE  RecencyInv'
<1>1. ip[c] \in Addresses /\ purpose[c] \in {"check", "org"}
  BY DEF RecencyInv, OnTime, LookupsTypeOK
<1>2. UNCHANGED <<kind, now, opinion, changes, heldAt, cache, ip, since, purpose, lookups, storedAt>>
  BY DEF service
<1>3. HeldInPast' /\ EntriesAreRecent'
  BY <1>2 DEF RecencyInv, HeldInPast, EntriesAreRecent, Cached
<1>4. CASE /\ purpose[c] = "org" /\ pc' = [pc EXCEPT ![c] = "read"]
           /\ fetched' = [fetched EXCEPT ![c] = None] /\ UNCHANGED <<answer, answeredAt>>
  <2>1. LookupsTypeOK'
    BY <1>2, <1>4 DEF RecencyInv, LookupsTypeOK
  <2>2. OnTime' /\ FetchedIsRecent' /\ AnswersHaveAddress' /\ AnswersAreRecent'
    BY <1>2, <1>4 DEF RecencyInv, LookupsTypeOK, OnTime, FetchedIsRecent, AnswersHaveAddress,
                      AnswersAreRecent
  <2> QED
    BY <1>3, <2>1, <2>2 DEF RecencyInv
<1>5. CASE Return(c, value)
  <2>1. LookupsTypeOK'
    BY <1>2, <1>5 DEF RecencyInv, LookupsTypeOK, Return
  <2>2. OnTime' /\ FetchedIsRecent' /\ AnswersHaveAddress'
    BY <1>1, <1>2, <1>5 DEF RecencyInv, LookupsTypeOK, OnTime, FetchedIsRecent,
                            AnswersHaveAddress, Return
  <2>3. AnswersAreRecent'
    BY <1>2, <1>5 DEF RecencyInv, LookupsTypeOK, AnswersAreRecent, Return
  <2> QED
    BY <1>3, <2>1, <2>2, <2>3 DEF RecencyInv
<1> QED
  BY <1>4, <1>5 DEF Finish, reply

LEMMA FailsStep ==
    ASSUME RecencyInv, NEW c \in Clients, FetchFails(c)
    PROVE  RecencyInv'
  BY FinishStep DEF FetchFails

LEMMA ReadStep ==
    ASSUME RecencyInv, NEW c \in Clients, ReadOrg(c)
    PROVE  RecencyInv'
<1>1. purpose[c] = "org" /\ ip[c] \in Addresses
  BY DEF ReadOrg, RecencyInv, AnswersHaveAddress, OnTime
<1>2. cache[ip[c]].value \in Opinions \cup {None}
  BY <1>1 DEF RecencyInv, LookupsTypeOK, Entries, NoEntry
<1> QED
  BY <1>1, <1>2, FinishStep DEF ReadOrg

LEMMA StoreStep ==
    ASSUME RecencyInv, NEW c \in Clients, Store(c)
    PROVE  RecencyInv'
<1>1. /\ pc[c] = "store" /\ Finish(c, fetched[c])
      /\ UNCHANGED <<kind, now, opinion, changes, heldAt, ip, since, purpose, lookups>>
  BY DEF Store, service
<1> DEFINE Asked == /\ purpose[c] = "org" /\ pc' = [pc EXCEPT ![c] = "read"]
                     /\ fetched' = [fetched EXCEPT ![c] = None]
                     /\ UNCHANGED <<answer, answeredAt>>
<1>0. Asked \/ (purpose[c] # "org" /\ Return(c, fetched[c]))
  BY <1>1 DEF Finish, reply
<1>2. /\ ip[c] \in Addresses /\ fetched[c] \in Opinions /\ now <= since[c] + Timeout
      /\ since[c] <= heldAt[ip[c]][fetched[c]]
  BY <1>1 DEF RecencyInv, OnTime, FetchedIsRecent
<1>3. now <= heldAt[ip[c]][fetched[c]] + Timeout
  BY <1>2 DEF RecencyInv, LookupsTypeOK
<1>4. /\ cache' \in [Addresses -> Entries] /\ storedAt' \in Nat
      /\ \A x \in Addresses : \/ cache'[x] \in {NoEntry, cache[x]}
                              \/ x = ip[c] /\ cache'[x] = Stored(c)
  <2>1. \A x \in Addresses : Purged[x] \in {NoEntry, cache[x]}
    BY DEF Purged
  <2>2. Stored(c) \in Entries
    BY <1>2 DEF Stored, Entries, RecencyInv, LookupsTypeOK
  <2>3. /\ cache \in [Addresses -> Entries] /\ NoEntry \in Entries
        /\ now \in Nat /\ storedAt \in Nat
    BY DEF Entries, RecencyInv, LookupsTypeOK
  <2>4. Purged \in [Addresses -> Entries]
    BY <2>1, <2>3 DEF Purged
  <2>5. CASE cache' = [Purged EXCEPT ![ip[c]] = Stored(c)] /\ storedAt' = now
    BY <1>2, <2>1, <2>2, <2>3, <2>4, <2>5
  <2>6. CASE UNCHANGED <<cache, storedAt>>
    BY <2>3, <2>6
  <2> QED
    BY <2>5, <2>6 DEF Store
<1>5. LookupsTypeOK'
  <2>1. CASE Asked
    BY <1>1, <1>4, <2>1 DEF RecencyInv, LookupsTypeOK
  <2>2. CASE Return(c, fetched[c])
    BY <1>1, <1>2, <1>4, <2>2 DEF RecencyInv, LookupsTypeOK, Return
  <2> QED
    BY <1>0, <2>1, <2>2
<1>6. EntriesAreRecent'
  <2> SUFFICES ASSUME NEW x \in Addresses, cache'[x] # NoEntry
               PROVE  cache'[x].expiry <= heldAt[x][cache'[x].value] + TTL + Timeout
    BY <1>1 DEF EntriesAreRecent, Cached
  <2>1. CASE cache'[x] = cache[x]
    BY <2>1 DEF RecencyInv, EntriesAreRecent, Cached
  <2>2. CASE x = ip[c] /\ cache'[x] = Stored(c)
    <3>1. cache'[x].expiry = now + TTL /\ cache'[x].value = fetched[c]
      BY <2>2 DEF Stored
    <3>2. {now, TTL, Timeout} \subseteq Nat /\ heldAt[x][fetched[c]] \in Int
      BY <1>2 DEF RecencyInv, LookupsTypeOK
    <3> QED
      BY <1>3, <2>2, <3>1, <3>2
  <2> QED
    BY <1>4, <2>1, <2>2
<1>7. HeldInPast'
  BY <1>1 DEF RecencyInv, HeldInPast
<1>8. OnTime' /\ FetchedIsRecent' /\ AnswersHaveAddress'
  <2>1. CASE Asked
    BY <1>1, <2>1 DEF RecencyInv, LookupsTypeOK, OnTime, FetchedIsRecent, AnswersHaveAddress
  <2>2. CASE Return(c, fetched[c])
    BY <1>1, <1>2, <2>2 DEF RecencyInv, LookupsTypeOK, OnTime, FetchedIsRecent,
                            AnswersHaveAddress, Return
  <2> QED
    BY <1>0, <2>1, <2>2
<1>9. AnswersAreRecent'
  <2> SUFFICES ASSUME NEW d \in Clients, purpose'[d] = "check", answer'[d] # None
               PROVE  answeredAt'[d] - heldAt[ip[d]][answer'[d]] <= TTL + Timeout
    BY <1>1 DEF AnswersAreRecent
  <2>1. CASE d = c
    <3>1. answeredAt'[d] = now /\ answer'[d] = fetched[c]
      BY <1>0, <1>1, <2>1 DEF Return, RecencyInv, LookupsTypeOK
    <3>2. {now, TTL, Timeout} \subseteq Nat /\ heldAt[ip[c]][fetched[c]] \in Int
      BY <1>2 DEF RecencyInv, LookupsTypeOK
    <3> QED
      BY <1>3, <2>1, <3>1, <3>2
  <2>2. CASE d # c
    <3>1. answeredAt'[d] = answeredAt[d] /\ answer'[d] = answer[d]
      BY <1>0, <2>2 DEF Return, RecencyInv, LookupsTypeOK
    <3> QED
      BY <1>1, <3>1 DEF RecencyInv, AnswersAreRecent
  <2> QED
    BY <2>1, <2>2
<1> QED
  BY <1>5, <1>6, <1>7, <1>8, <1>9 DEF RecencyInv

\* The service may hold another opinion and time may pass: what it held is
\* remembered, and only ever as later.
LEMMA ServiceStep ==
    ASSUME RecencyInv, Tick \/ \E x \in Addresses, o \in Opinions : Change(x, o)
    PROVE  RecencyInv'
<1> DEFINE Later ==
        /\ UNCHANGED <<kind, cache, pc, ip, since, purpose, fetched, answer, answeredAt, lookups,
                       storedAt>>
        /\ now' \in Nat /\ changes' \in Nat /\ opinion' \in [Addresses -> Opinions]
        /\ heldAt' \in [Addresses -> [Opinions -> Int]]
        /\ \A x \in Addresses, o \in Opinions : heldAt[x][o] <= heldAt'[x][o]
        /\ HeldInPast'
        /\ \/ now' = now
           \/ /\ now' = now + 1
              /\ \A c \in Clients : pc[c] # "idle" => now < since[c] + Timeout
<1>0. /\ now \in Nat /\ changes \in Nat /\ opinion \in [Addresses -> Opinions]
      /\ heldAt \in [Addresses -> [Opinions -> Int]] /\ HeldInPast
  BY DEF RecencyInv, LookupsTypeOK
<1>1. Later
  <2>1. CASE Tick
    <3>1. /\ now' = now + 1 /\ opinion' = opinion /\ changes' = changes
          /\ heldAt' = [x \in Addresses |-> [heldAt[x] EXCEPT ![opinion[x]] = now + 1]]
          /\ UNCHANGED <<kind, cache, pc, ip, since, purpose, fetched, answer, answeredAt, lookups,
                         storedAt>>
          /\ \A c \in Clients : pc[c] # "idle" => now < since[c] + Timeout
      BY <2>1 DEF Tick, request, reply
    <3>2. \A x \in Addresses : /\ heldAt'[x][opinion[x]] = now + 1
                               /\ \A o \in Opinions : heldAt'[x][o] \in {heldAt[x][o], now + 1}
                               /\ \A o \in Opinions : heldAt[x][o] <= now /\ heldAt[x][o] \in Int
      BY <1>0, <3>1 DEF HeldInPast
    <3>3. heldAt' \in [Addresses -> [Opinions -> Int]]
      BY <1>0, <3>1
    <3>4. HeldInPast' /\ \A x \in Addresses, o \in Opinions : heldAt[x][o] <= heldAt'[x][o]
      BY <1>0, <3>1, <3>2 DEF HeldInPast
    <3> QED
      BY <1>0, <3>1, <3>3, <3>4
  <2>2. ASSUME NEW x \in Addresses, NEW o \in Opinions, Change(x, o) PROVE Later
    <3>1. /\ now' = now /\ opinion' = [opinion EXCEPT ![x] = o] /\ changes' = changes + 1
          /\ heldAt' = [heldAt EXCEPT ![x][o] = now]
          /\ UNCHANGED <<kind, cache, pc, ip, since, purpose, fetched, answer, answeredAt, lookups,
                         storedAt>>
      BY <2>2 DEF Change, request, reply
    <3>2. \A y \in Addresses, p \in Opinions :
             /\ heldAt'[y][p] = IF y = x /\ p = o THEN now ELSE heldAt[y][p]
             /\ heldAt[y][p] <= now /\ heldAt[y][p] \in Int
      BY <1>0, <3>1 DEF HeldInPast
    <3>3. heldAt' \in [Addresses -> [Opinions -> Int]]
      BY <1>0, <3>1
    <3>4. HeldInPast' /\ \A y \in Addresses, p \in Opinions : heldAt[y][p] <= heldAt'[y][p]
      BY <1>0, <3>1, <3>2 DEF HeldInPast
    <3> QED
      BY <1>0, <3>1, <3>3, <3>4
  <2> QED
    BY <2>1, <2>2
<1>2. \A x \in Addresses, o \in Opinions : heldAt[x][o] <= heldAt'[x][o]
  BY <1>1
<1>3. HeldInPast'
  BY <1>1
<1>4. now' \in Nat /\ \A c \in Clients : pc[c] # "idle" => since[c] <= now' /\ now' <= since[c] + Timeout
  <2>1. ASSUME NEW c \in Clients, pc[c] # "idle" PROVE since[c] <= now' /\ now' <= since[c] + Timeout
    <3>1. since[c] <= now /\ now <= since[c] + Timeout /\ {now, since[c], Timeout} \subseteq Nat
      BY <2>1 DEF RecencyInv, LookupsTypeOK, OnTime
    <3>2. \/ now' = now
          \/ now' = now + 1 /\ now < since[c] + Timeout
      BY <1>1, <2>1
    <3> QED
      BY <3>1, <3>2
  <2> QED
    BY <1>1, <2>1
<1>5. LookupsTypeOK'
  BY <1>1 DEF RecencyInv, LookupsTypeOK
<1>6. OnTime' /\ AnswersHaveAddress'
  BY <1>1, <1>4 DEF RecencyInv, OnTime, AnswersHaveAddress
<1>7. FetchedIsRecent'
  <2> SUFFICES ASSUME NEW c \in Clients, pc[c] = "store"
               PROVE  fetched[c] \in Opinions /\ since[c] <= heldAt'[ip[c]][fetched[c]]
    BY <1>1 DEF FetchedIsRecent
  <2>1. /\ fetched[c] \in Opinions /\ ip[c] \in Addresses
        /\ since[c] <= heldAt[ip[c]][fetched[c]]
    BY DEF RecencyInv, FetchedIsRecent, OnTime
  <2>2. heldAt[ip[c]][fetched[c]] <= heldAt'[ip[c]][fetched[c]]
    BY <1>2, <2>1
  <2> QED
    BY <1>1, <2>1, <2>2 DEF RecencyInv, LookupsTypeOK
<1>8. EntriesAreRecent'
  <2> SUFFICES ASSUME NEW x \in Cached
               PROVE  cache[x].expiry <= heldAt'[x][cache[x].value] + TTL + Timeout
    BY <1>1 DEF EntriesAreRecent, Cached
  <2>1. x \in Addresses /\ cache[x].value \in Opinions /\ cache[x].expiry \in Nat
    BY CachedEntry DEF RecencyInv
  <2>2. heldAt[x][cache[x].value] <= heldAt'[x][cache[x].value]
    BY <1>2, <2>1
  <2>3. cache[x].expiry <= heldAt[x][cache[x].value] + TTL + Timeout
    BY DEF RecencyInv, EntriesAreRecent
  <2> QED
    BY <1>1, <2>1, <2>2, <2>3 DEF RecencyInv, LookupsTypeOK
<1>9. AnswersAreRecent'
  <2> SUFFICES ASSUME NEW c \in Clients, purpose[c] = "check", answer[c] # None
               PROVE  answeredAt[c] - heldAt'[ip[c]][answer[c]] <= TTL + Timeout
    BY <1>1 DEF AnswersAreRecent
  <2>1. ip[c] \in Addresses /\ answer[c] \in Opinions
    BY DEF RecencyInv, LookupsTypeOK, AnswersHaveAddress
  <2>2. heldAt[ip[c]][answer[c]] <= heldAt'[ip[c]][answer[c]]
    BY <1>2, <2>1
  <2>3. answeredAt[c] - heldAt[ip[c]][answer[c]] <= TTL + Timeout
    BY DEF RecencyInv, AnswersAreRecent
  <2> QED
    BY <1>1, <2>1, <2>2, <2>3 DEF RecencyInv, LookupsTypeOK
<1> QED
  BY <1>3, <1>5, <1>6, <1>7, <1>8, <1>9 DEF RecencyInv

LEMMA RecencyStep == RecencyInv /\ [Next]_vars => RecencyInv'
<1> SUFFICES ASSUME RecencyInv, [Next]_vars PROVE RecencyInv'
  OBVIOUS
<1>1. ASSUME NEW c \in Clients, Work(c) PROVE RecencyInv'
  BY <1>1, AnswerStep, FailsStep, StoreStep, ReadStep DEF Work
<1>2. ASSUME NEW c \in Clients, NEW x \in Addresses, NEW what \in {"check", "org"}, Ask(c, x, what)
      PROVE  RecencyInv'
  BY <1>2, AskStep
<1>3. CASE Tick \/ \E x \in Addresses, o \in Opinions : Change(x, o)
  BY <1>3, ServiceStep
<1>4. CASE UNCHANGED vars
  BY <1>4 DEF vars, service, request, reply, RecencyInv, LookupsTypeOK, HeldInPast, OnTime,
     FetchedIsRecent, EntriesAreRecent, Cached, AnswersHaveAddress, AnswersAreRecent
<1> QED
  BY <1>1, <1>2, <1>3, <1>4 DEF Next

THEOREM RecencyIsKept == Spec => []RecencyInv
  BY InitRecency, RecencyStep, PTL DEF Spec

\* What Country and Check answer is never older than TTL plus one timeout, for
\* any number of clients and any overlap (lookupAPI, geoip.go:137, and Check,
\* abuseipdb.go:65).
THEOREM AnswersStayRecent == Spec => []AnswersAreRecent
<1>1. RecencyInv => AnswersAreRecent
  BY DEF RecencyInv
<1> QED
  BY <1>1, RecencyIsKept, PTL

-----------------------------------------------------------------------------
BoundInv == RecencyInv /\ IsFiniteSet(Cached) /\ CacheIsBounded

LEMMA BoundStep == BoundInv /\ RecencyInv' /\ [Next]_vars => BoundInv'
<1> SUFFICES ASSUME BoundInv, RecencyInv', [Next]_vars PROVE BoundInv'
  OBVIOUS
<1>1. CASE UNCHANGED <<cache, storedAt>>
  BY <1>1 DEF BoundInv, CacheIsBounded, Cached
<1>2. ASSUME NEW c \in Clients, Store(c), ~UNCHANGED <<cache, storedAt>> PROVE BoundInv'
  <2>1. ip[c] \in Addresses /\ fetched[c] \in Opinions
    BY <1>2 DEF Store, BoundInv, RecencyInv, OnTime, FetchedIsRecent
  <2>2. cache' = [Purged EXCEPT ![ip[c]] = Stored(c)] /\ storedAt' = now
    BY <1>2 DEF Store
  <2>3. Cached' \subseteq Cached \cup {ip[c]}
    BY <2>1, <2>2 DEF Cached, Purged
  <2>4. /\ IsFiniteSet(Cached \cup {ip[c]}) /\ Cardinality(Cached) \in Nat
        /\ Cardinality(Cached \cup {ip[c]}) <= Cardinality(Cached) + 1
    <3>1. IsFiniteSet(Cached)
      BY DEF BoundInv
    <3>2. Cardinality(Cached) \in Nat
      BY <3>1, FS_CardinalityType
    <3> HIDE DEF Cached
    <3> QED
      BY <3>1, <3>2, FS_AddElement
  <2>5. /\ IsFiniteSet(Cached') /\ Cardinality(Cached') <= Cardinality(Cached \cup {ip[c]})
        /\ Cardinality(Cached') \in Nat /\ Cardinality(Cached \cup {ip[c]}) \in Nat
    BY <2>3, <2>4, FS_Subset, FS_CardinalityType
  <2>6. CacheIsBounded'
    <3> SUFFICES ASSUME Cardinality(Cached') > MaxEntries, NEW x \in Cached'
                 PROVE  cache'[x].expiry >= storedAt'
      BY DEF CacheIsBounded
    <3>1. Cardinality(Cached) >= MaxEntries
      BY <2>4, <2>5
    <3>2. CASE x = ip[c]
      BY <2>1, <2>2, <3>2 DEF Purged, Stored, BoundInv, RecencyInv, LookupsTypeOK
    <3>3. CASE x # ip[c]
      <4>1. x \in Addresses /\ cache'[x] = Purged[x] /\ cache'[x] # NoEntry
        BY <2>2, <3>3 DEF Cached, Purged
      <4>2. cache'[x] = cache[x] /\ ~Expired(cache[x])
        BY <3>1, <4>1 DEF Purged
      <4>3. cache[x].expiry \in Nat /\ now \in Nat
        BY <4>1, <4>2, CachedEntry DEF Cached, BoundInv, RecencyInv, LookupsTypeOK
      <4> QED
        BY <2>2, <4>2, <4>3 DEF Expired
    <3> QED
      BY <3>2, <3>3
  <2> QED
    BY <2>5, <2>6 DEF BoundInv
<1> QED
  BY <1>1, <1>2 DEF Next, Work, Ask, Answer, FetchFails, ReadOrg, Change, Tick, vars

\* The caches outgrow their limit with valid entries only, for any number of
\* addresses (lookupAPI, geoip.go:151, and toCache, abuseipdb.go:145).
THEOREM CacheStaysBounded == Spec => []CacheIsBounded
<1>1. Init => BoundInv
  <2> SUFFICES ASSUME Init PROVE BoundInv
    OBVIOUS
  <2>1. Cached = {}
    BY DEF Init, Cached
  <2>2. IsFiniteSet(Cached) /\ Cardinality(Cached) = 0
    BY <2>1, FS_EmptySet
  <2> QED
    BY <2>1, <2>2, InitRecency DEF BoundInv, CacheIsBounded
<1>2. RecencyInv /\ [Next]_vars => RecencyInv'
  BY RecencyStep
<1>3. BoundInv => CacheIsBounded /\ RecencyInv
  BY DEF BoundInv
<1> QED
  BY <1>1, <1>2, <1>3, BoundStep, PTL DEF Spec
=============================================================================
