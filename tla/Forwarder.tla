------------------------------ MODULE Forwarder ------------------------------
(***************************************************************************)
(* StoreAndForward: the enforcer saves every alert in the table            *)
(* pending_events of the SQLite store, and a goroutine of                  *)
(* internal/forwarder sends them to the Controller in batches and prunes   *)
(* the table.  The table survives a crash; a request may outlive the       *)
(* client that gave up on it.                                              *)
(***************************************************************************)
EXTENDS Integers, FiniteSets

CONSTANTS
    BatchSize,    \* rows of a request
    Retention,    \* age at which a row goes when there is no Controller
    KeepSynced,   \* age at which a synced row goes
    Modes,        \* whether a Controller is configured, at each start
    Refused,      \* ids of the alerts the Controller never accepts
    MaxAlerts,    \* bound: alerts in a behaviour
    MaxTime,      \* bound: last value of the clock
    Faults,       \* the kinds of faults that may happen
    MaxFaults     \* bound: faults in a behaviour

ASSUME ForwarderAssumption ==
    /\ BatchSize \in Nat \ {0}
    /\ {Retention, KeepSynced, MaxAlerts, MaxTime, MaxFaults} \subseteq Nat
    /\ Modes \subseteq BOOLEAN /\ Modes # {}
    /\ Faults \subseteq {"store", "response", "crash"}

VARIABLES
    now,
    up,          \* the agent is running
    connected,   \* ControllerURL is set
    lastID,      \* AUTOINCREMENT counter of pending_events
    stored,      \* ids of the rows
    synced,      \* the rows marked synced = 1
    createdAt,   \* id -> created_at
    pc, batch,   \* step of syncBatch and the ids it has loaded
    late,        \* requests the client has given up on, numbered
    received,    \* id -> how often the Controller has accepted it
    aged,        \* history: ids dropped by age before they were synced
    faults

table == <<lastID, stored, synced, createdAt>>
sync == <<pc, batch>>
network == <<late, received>>
vars == <<now, up, connected, table, sync, network, aged, faults>>

IDs == 1..MaxAlerts

ForwarderTypeOK ==
    /\ now \in 0..MaxTime /\ up \in BOOLEAN /\ connected \in Modes
    /\ lastID \in 0..MaxAlerts /\ stored \subseteq 1..lastID /\ synced \subseteq stored
    /\ createdAt \in [IDs -> 0..MaxTime]
    /\ pc \in {"idle", "posting", "marking"} /\ batch \subseteq 1..lastID
    /\ late \subseteq [request : 1..MaxFaults, ids : SUBSET (1..lastID)]
    /\ received \in [IDs -> Nat]
    /\ aged \subseteq 1..lastID /\ faults \in 0..MaxFaults

Init ==
    /\ now = 0 /\ up = TRUE /\ connected \in Modes
    /\ lastID = 0 /\ stored = {} /\ synced = {}
    /\ createdAt = [i \in IDs |-> 0]
    /\ pc = "idle" /\ batch = {}
    /\ late = {} /\ received = [i \in IDs |-> 0]
    /\ aged = {} /\ faults = 0

Fault(kind) ==
    /\ kind \in Faults
    /\ faults < MaxFaults
    /\ faults' = faults + 1

-----------------------------------------------------------------------------

\* Called by the enforcer's goroutine.  An INSERT that fails is only logged.
SaveAlert ==
    /\ up /\ lastID < MaxAlerts
    /\ \/ /\ lastID' = lastID + 1
          /\ stored' = stored \cup {lastID'}
          /\ createdAt' = [createdAt EXCEPT ![lastID'] = now]
          /\ UNCHANGED <<synced, faults>>
       \/ Fault("store") /\ UNCHANGED table
    /\ UNCHANGED <<now, up, connected, sync, network, aged>>

Unsynced == stored \ synced
NewestFirst(limit) ==  \* mutant: ORDER BY id DESC
    {i \in Unsynced : Cardinality({j \in Unsynced : j >= i}) <= limit}
LoadUnsynced(limit) ==
    {i \in Unsynced : Cardinality({j \in Unsynced : j <= i}) <= limit}

\* A tick that finds nothing to send, or cannot read the table, has no effect.
StartSync ==
    /\ up /\ connected /\ pc = "idle" /\ Unsynced # {}
    /\ pc' = "posting" /\ batch' = LoadUnsynced(BatchSize)
    /\ UNCHANGED <<now, up, connected, table, network, aged, faults>>

Count(ids) == received' = [i \in IDs |-> IF i \in ids THEN received[i] + 1 ELSE received[i]]
Abandon == late' = late \cup {[request |-> faults', ids |-> batch]}

\* The Controller answers 200 or 204, which it never does to a request with an
\* alert it refuses.
Acceptable(ids) == ids \cap Refused = {}
Accepted ==
    /\ pc = "posting" /\ Acceptable(batch)
    /\ Count(batch)
    /\ pc' = "marking"
    /\ UNCHANGED <<now, up, connected, table, batch, late, aged, faults>>

\* The connection is refused, or the answer is any other status.
MarkedAnyway ==  \* mutant: the status is not looked at
    /\ pc = "posting" /\ pc' = "marking"
    /\ UNCHANGED <<now, up, connected, table, batch, network, aged, faults>>
Rejected ==
    /\ pc = "posting"
    /\ pc' = "idle" /\ batch' = {}
    /\ UNCHANGED <<now, up, connected, table, network, aged, faults>>

\* Timeout, or a connection lost: the request may still arrive.
Unanswered ==
    /\ pc = "posting" /\ Fault("response")
    /\ Abandon
    /\ pc' = "idle" /\ batch' = {}
    /\ UNCHANGED <<now, up, connected, table, received, aged>>

AcceptedLate(r) ==
    /\ r \in late /\ Acceptable(r.ids)
    /\ late' = late \ {r}
    /\ Count(r.ids)
    /\ UNCHANGED <<now, up, connected, table, sync, aged, faults>>

\* One transaction: all of the batch or none of it.
MarkAllButOne(ids) ==  \* mutant
    synced' = synced \cup {i \in ids : \E j \in ids : j > i}
MarkSynced(ids) == synced' = synced \cup (ids \cap stored)
FinishSync ==
    /\ pc = "marking"
    /\ \/ MarkSynced(batch) /\ UNCHANGED faults
       \/ Fault("store") /\ UNCHANGED synced
    /\ pc' = "idle" /\ batch' = {}
    /\ UNCHANGED <<now, up, connected, lastID, stored, createdAt, network, aged>>

\* The tickers share the goroutine with syncBatch.
OlderThan(age) == {i \in stored : createdAt[i] <= now - age}
AnyOld == OlderThan(KeepSynced)  \* mutant: unsynced rows go too
PruneSyncedEvents == OlderThan(KeepSynced) \cap synced
OldSynced == OlderThan(Retention) \cap synced  \* mutant
PruneOldEvents == OlderThan(Retention)

Prune ==
    /\ up /\ pc = "idle"
    /\ LET gone == IF connected THEN PruneSyncedEvents ELSE PruneOldEvents IN
       /\ gone # {}
       /\ stored' = stored \ gone /\ synced' = synced \ gone
       /\ aged' = IF connected THEN aged ELSE aged \cup (gone \ synced)
    /\ UNCHANGED <<now, up, connected, lastID, createdAt, sync, network, faults>>

-----------------------------------------------------------------------------

Crash ==
    /\ up /\ Fault("crash")
    /\ up' = FALSE
    /\ IF pc = "posting" THEN Abandon ELSE UNCHANGED late
    /\ pc' = "idle" /\ batch' = {}
    /\ UNCHANGED <<now, connected, table, received, aged>>

Start ==
    /\ ~up /\ up' = TRUE
    /\ connected' \in Modes
    /\ UNCHANGED <<now, table, sync, network, aged, faults>>

Tick ==
    /\ now < MaxTime /\ now' = now + 1
    /\ UNCHANGED <<up, connected, table, sync, network, aged, faults>>

Next ==
    \/ SaveAlert \/ StartSync \/ Accepted \/ Rejected \/ Unanswered \/ FinishSync
    \/ \E r \in late : AcceptedLate(r)
    \/ Prune \/ Crash \/ Start \/ Tick

Spec == Init /\ [][Next]_vars

(***************************************************************************)
(* The client has a timeout, so that no request goes on for ever, and the  *)
(* tickers of Run recur (select takes the ready ones at random), systemd   *)
(* restarts the agent, time passes.  That the Controller accepts a request *)
(* it is offered again and again, unless it has one of Refused, is an      *)
(* assumption on the Controller.                                           *)
(***************************************************************************)
Fairness ==
    /\ WF_vars(StartSync) /\ SF_vars(Accepted) /\ WF_vars(Rejected) /\ WF_vars(FinishSync)
    /\ SF_vars(Prune) /\ WF_vars(Start) /\ WF_vars(Tick)

FairSpec == Spec /\ Fairness
=============================================================================
