--------------------------- MODULE AccountTakeover ---------------------------
(***************************************************************************)
(* account_takeover: failures against an account followed by a login from  *)
(* the same address, or by a message the account sends.                    *)
(***************************************************************************)
EXTENDS Events

CONSTANTS CorrelWindow, MinFailures

ASSUME AccountTakeoverAssumption ==
    CorrelWindow \in Nat \ {0} /\ MinFailures \in Nat \ {0}

VARIABLES
    failures,        \* account -> recent failures in chronological order
    takeoverCalls,   \* events seen since the last purge
    attempts,        \* history: failures since the account was last cleared
    unreported       \* history: failures since its last alert

takeoverVars == <<failures, takeoverCalls, attempts, unreported>>

Failures == [ts : Int, item : IPs]

TakeoverTypeOK ==
    /\ failures \in [Accounts -> Seq(Failures)]
    /\ takeoverCalls \in 0..(PruneEvery - 1)
    /\ attempts \in [Accounts -> Seq(Failures)]
    /\ unreported \in [Accounts -> Seq(Failures)]

TakeoverInit ==
    /\ failures = [a \in Accounts |-> <<>>]
    /\ takeoverCalls = 0
    /\ attempts = [a \in Accounts |-> <<>>]
    /\ unreported = [a \in Accounts |-> <<>>]

-----------------------------------------------------------------------------

\* The purge trims every account, at the timestamp of whatever event comes.
Purged(ev) ==
    IF takeoverCalls + 1 < PruneEvery THEN failures
    ELSE [a \in Accounts |-> TrimOld(failures[a], ev.ts - CorrelWindow)]
Recent(ev) == TrimOld(Purged(ev)[ev.account], ev.ts - CorrelWindow)

\* A late failure moves down to its place.
AppendLast(w, r) == Append(w, r)  \* mutant: the order of arrival is kept
InsertInOrder(w, r) ==
    LET later == {i \in 1..Len(w) : \A j \in i..Len(w) : r.ts < w[j].ts}
        n == Len(w) - Cardinality(later)
    IN  SubSeq(w, 1, n) \o <<r>> \o SubSeq(w, n + 1, Len(w))

FailuresFrom(w, addr) == Cardinality({i \in 1..Len(w) : w[i].item = addr})
Attackers(w) == {w[i].item : i \in 1..Len(w)}
\* Map iteration breaks ties at random.
Dominant(w) ==
    {a \in Attackers(w) : \A b \in Attackers(w) : FailuresFrom(w, b) <= FailuresFrom(w, a)}

IsFailure(ev) == ev.type = "auth_failed" /\ ev.ip # None /\ ev.account # None
IsLogin(ev) == ev.type = "auth_success" /\ ev.ip # None /\ ev.account # None
IsMessage(ev) == ev.type = "queue_accepted" /\ ev.account # None

\* Pattern 1: the address that failed gets in.
Breaks(ev) == IsLogin(ev) /\ FailuresFrom(Recent(ev), ev.ip) >= MinFailures
\* Pattern 2: the account sends; one address must have failed often enough
\* by itself, or the whole account is forgotten.
Crowded(ev) == IsMessage(ev) /\ Len(Recent(ev)) >= MinFailures
Sends(ev) ==
    Crowded(ev) /\ \A a \in Dominant(Recent(ev)) : FailuresFrom(Recent(ev), a) >= MinFailures

HandleTakeover(ev) ==
    LET fail == [ts |-> ev.ts, item |-> ev.ip]
        tracked == IsFailure(ev) \/ IsLogin(ev) \/ IsMessage(ev)
        clears == Breaks(ev) \/ Crowded(ev)
        add(w) == IF IsFailure(ev) THEN Append(w, fail) ELSE w
    IN  /\ failures' =
              IF ~tracked THEN Purged(ev)
              ELSE [Purged(ev) EXCEPT ![ev.account] =
                       IF clears THEN <<>>
                       ELSE IF IsFailure(ev) THEN InsertInOrder(Recent(ev), fail) ELSE Recent(ev)]
        /\ takeoverCalls' = IF takeoverCalls + 1 < PruneEvery THEN takeoverCalls + 1 ELSE 0
        /\ attempts' = IF ~tracked THEN attempts
              ELSE [attempts EXCEPT ![ev.account] = IF clears THEN <<>> ELSE add(@)]
        /\ unreported' = IF ~tracked THEN unreported
              ELSE [unreported EXCEPT ![ev.account] =
                       IF Breaks(ev) \/ Sends(ev) THEN <<>> ELSE add(@)]

\* suspect: the address a message's alert blames.
TakeoverAlerts(ev, suspect) ==
    LET suspend(addr) == Alert("account_takeover", "suspend_account", addr, ev.account)
    IN  IF Breaks(ev) THEN <<suspend(ev.ip)>>
        ELSE IF Sends(ev) THEN <<suspend(suspect)>> ELSE <<>>
=============================================================================
