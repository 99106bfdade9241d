-------------------------- MODULE EngineProperties --------------------------
(***************************************************************************)
(* What the detection modules promise although the events of the two logs  *)
(* reach them out of order.                                                *)
(***************************************************************************)
EXTENDS Engine

\* An event has just been handed to the modules, as they saw it.
Dispatched == events' # events /\ ~IsWhitelisted(event')
Seen == ClearProxy(event')
Raised == {pending'[i] : i \in 1..Len(pending')}
RaisedBy(m) == {a \in Raised : a.module = m}

\* The records not older than from, however late they came in.
NotBefore(w, from) == {i \in 1..Len(w) : w[i].ts >= from}

\* However late events come in and whenever the lazy purge runs, the events
\* on a key inside the window that ends now, and since its last alert, never
\* amount to the threshold: no module sits on enough evidence (authfailed.go:47
\* and its seven siblings).
NothingIsMissed ==
    \A m \in Sliding, k \in Keys :
        ~Suffice(m, since[m][k], NotBefore(since[m][k], now - ScanTime[m]))

\* What an alert of m rests on: the records since the last alert on its key.
Evidence(m, ev) ==
    IF m = "domain_discovery"
    THEN Append(attacks[ev.ip], [ts |-> ev.ts, item |-> DomainOf[ev.account]])
    ELSE Append(since[m][KeyOf(m, ev)], Entry(m, ev))
Earned(m, ev) ==
    LET w == Evidence(m, ev) IN
    IF m = "domain_discovery"
    THEN Cardinality(Distinct(w, NotBefore(w, ev.ts - DiscoveryTime - Skew))) >= MaxDomains
    ELSE Suffice(m, w, NotBefore(w, ev.ts - ScanTime[m] - Skew))

\* No alert rests on too few events, on events an earlier alert has already
\* counted, or on events older than the window by more than the lag of a log,
\* although trimOld assumes chronological order (authfailed.go:104).
AlertsAreEarned ==
    [][Dispatched =>
        \A m \in Sliding \cup {"domain_discovery"} :
            RaisedBy(m) # {} => Earned(m, Seen)]_vars

\* account_takeover blames an address only for MinFailures failures of its own
\* inside the window.  When its event is not late it blames every such address
\* but those it forgets for another one: of the addresses that failed before a
\* message it blames one with the most failures (accounttakeover.go:168).  The
\* sorting insertion keeps trimOld exact for that (accounttakeover.go:99).
Hits(w, ev, addr) ==
    Cardinality({i \in NotBefore(w, ev.ts - CorrelWindow) : w[i].item = addr})
Guilty(w, ev, addr) ==
    /\ Hits(w, ev, addr) >= MinFailures
    /\ IsMessage(ev) \/ (IsLogin(ev) /\ addr = ev.ip)
Exact(past, ev, blamed) ==
    /\ \A addr \in blamed : Guilty(past, ev, addr)
    /\ ev.ts = now' =>
           \A addr \in IPs : Guilty(past, ev, addr) =>
               \E worst \in blamed : Hits(past, ev, addr) <= Hits(past, ev, worst)
TakeoversAreExact ==
    [][Dispatched /\ (IsLogin(Seen) \/ IsMessage(Seen)) =>
        Exact(attempts[Seen.account], Seen, {a.ip : a \in RaisedBy("account_takeover")})]_vars

\* Each journey between two places that resolved is judged once: the attacker's next logins raise no
\* further alert and neither does the owner's return, unless the return was
\* logged before the attack; a journey too fast between a login that raised
\* none and this one always does (impossibletraveler.go:218).
JudgedOnce(last, ev, alerts) ==
    /\ last.country = CountryOf[ev.ip] => ~alerts
    /\ last.alerted /\ ev.ts >= last.ts => ~alerts
    /\ ~last.alerted => (alerts <=> TooFast(last, ev))
TravelIsJudgedOnce ==
    [][Dispatched /\ Located(Seen, lost') =>
        JudgedOnce(previous[Seen.account], Seen, RaisedBy("impossible_traveler") # {})]_vars

\* A suspension that the enforcer will skip because its address is in an
\* allowed country comes from logins of allowed countries only, unless the
\* look-up of that very address has just failed in sasl_connections, which then
\* counts it as foreign; impossible_traveler never names such an address,
\* whichever look-ups fail (saslconnections.go:18, impossibletraveler.go:245).
NamesForeigner(a, ev, unresolved) ==
    /\ a.module \in {"sasl_connections", "impossible_traveler"}
    /\ a.action = "suspend_account"
    /\ a.ip # None /\ IsAllowed(CountryOf[a.ip])
    => /\ a.module = "sasl_connections"
       /\ \/ a.ip \in unresolved
          \/ LET w == Current(a.module, ev) IN
             \A i \in 1..Len(w) : w[i].item # None => IsAllowed(CountryOf[w[i].item])
SuspensionNamesForeigner ==
    [][Dispatched => \A a \in Raised : NamesForeigner(a, Seen, lost'.sasl)]_vars

\* No alert blames a cloud proxy or an address of a built-in private range,
\* neither as the client nor as an address remembered in a window, among the
\* failures of an account or as its last login (engine.go:276, 318).
ExemptNeverBlamed ==
    /\ \A i \in 1..Len(pending) : pending[i].ip \notin Proxies \cup Private
    /\ \A i \in 1..Len(alertCh) : alertCh[i].ip \notin Proxies \cup Private

-----------------------------------------------------------------------------
(* What the comments say and the code does not keep: BreakInIsReported has *)
(* a run, and TLC refutes ForeignerIsNamed in place of the properties of   *)
(* detect_access (README, section 6).                                      *)

\* "una IP acumula N fallos de autenticación contra una cuenta y luego consigue
\* autenticarse con éxito desde esa misma IP" (accounttakeover.go:2): with the
\* failures since the last alert on the account, such a login raises one.
BreakInIsReported ==
    [][Dispatched /\ Seen.ts = now' /\ IsLogin(Seen)
       /\ Hits(unreported[Seen.account], Seen, Seen.ip) >= MinFailures
       => RaisedBy("account_takeover") # {}]_vars

\* "Con varias IPs en la ventana, la alerta lleva la primera IP de un país NO
\* permitido (si hay Geo configurado); así no depende de cuál login cruzó el
\* umbral" (saslconnections.go:20): with a foreign address in the window, the
\* suspension names one and the enforcer does not skip it.
ForeignerIsNamed ==
    [][Dispatched => \A a \in RaisedBy("sasl_connections") :
         LET w == Current("sasl_connections", Seen) IN
         a.action = "suspend_account"
         /\ (\E i \in 1..Len(w) : w[i].item # None /\ ~IsAllowed(CountryOf[w[i].item]))
         => ~IsAllowed(CountryOf[a.ip])]_vars
=============================================================================
