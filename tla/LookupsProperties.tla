-------------------------- MODULE LookupsProperties --------------------------
(***************************************************************************)
(* What the callers of the caches may rely on.                             *)
(***************************************************************************)
EXTENDS Lookups

\* What Country and Check answer was the opinion of the service at some moment
\* of the last TTL plus one timeout, however look-ups of the same address
\* overlap and a slow one overwrites the answer of a later one (geoip.go:152).
AnswersAreRecent ==
    \A c \in Clients :
        purpose[c] = "check" /\ answer[c] # None =>
            answeredAt[c] - heldAt[ip[c]][answer[c]] <= TTL + Timeout

\* The caches outgrow their limit only with entries that were all valid when
\* the last one came in, however many addresses are looked up at once and
\* however old the entries that nobody asks for again (geoip.go:157).
CacheIsBounded ==
    Cardinality(Cached) > MaxEntries => \A a \in Cached : cache[a].expiry >= storedAt
=============================================================================
