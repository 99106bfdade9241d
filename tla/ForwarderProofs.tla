--------------------------- MODULE ForwarderProofs ---------------------------
(***************************************************************************)
(* Proofs about the store-and-forward for any batch size, retention, mode  *)
(* of operation, number of alerts and sequence of faults.                  *)
(***************************************************************************)
EXTENDS ForwarderProperties, FiniteSetTheorems, TLAPS

-----------------------------------------------------------------------------
(* Type correctness.                                                       *)

\* A batch holds unsynced rows only, and with every row the older ones.
LEMMA BatchIsOldest ==
  ASSUME ForwarderTypeOK
  PROVE  /\ LoadUnsynced(BatchSize) \subseteq Unsynced
         /\ \A i \in LoadUnsynced(BatchSize), j \in Unsynced :
               j < i => j \in LoadUnsynced(BatchSize)
  <1> DEFINE upTo(i) == {j \in Unsynced : j <= i}
  <1>1. Unsynced \subseteq 1..lastID /\ lastID \in Nat
    BY ForwarderAssumption DEF Unsynced, ForwarderTypeOK
  <1>2. ASSUME NEW i \in Unsynced PROVE IsFiniteSet(upTo(i)) /\ Cardinality(upTo(i)) \in Nat
    <2>1. IsFiniteSet(1..lastID)
      BY <1>1, FS_Interval
    <2>2. upTo(i) \subseteq 1..lastID
      BY <1>1
    <2> QED BY <2>1, <2>2, FS_Subset, FS_CardinalityType
  <1>3. ASSUME NEW i \in LoadUnsynced(BatchSize), NEW j \in Unsynced, j < i
        PROVE  j \in LoadUnsynced(BatchSize)
    <2>1. i \in Unsynced /\ Cardinality(upTo(i)) <= BatchSize
      BY DEF LoadUnsynced
    <2>2. upTo(j) \subseteq upTo(i)
      <3> SUFFICES ASSUME NEW k \in Unsynced, k <= j PROVE k <= i
        OBVIOUS
      <3>1. k \in Int /\ j \in Int /\ i \in Int
        BY <1>1, <2>1
      <3> QED BY <1>3, <3>1
    <2>3. Cardinality(upTo(j)) <= Cardinality(upTo(i))
      BY <1>2, <2>1, <2>2, FS_Subset
    <2>4. Cardinality(upTo(j)) \in Nat /\ Cardinality(upTo(i)) \in Nat
      BY <1>2, <2>1
    <2> HIDE DEF upTo
    <2>5. Cardinality(upTo(j)) <= BatchSize
      BY <2>1, <2>3, <2>4, ForwarderAssumption
    <2> QED BY <2>5 DEF LoadUnsynced, upTo
  <1> QED BY <1>3 DEF LoadUnsynced

LEMMA TypeInit == Init => ForwarderTypeOK
  BY ForwarderAssumption DEF Init, ForwarderTypeOK, IDs

LEMMA CountType ==
  ASSUME ForwarderTypeOK, NEW ids, Count(ids)
  PROVE  received' \in [IDs -> Nat]
  BY DEF Count, ForwarderTypeOK

LEMMA AbandonType ==
  ASSUME ForwarderTypeOK, NEW kind, Fault(kind), Abandon
  PROVE  /\ late' \subseteq [request : 1..MaxFaults, ids : SUBSET (1..lastID)]
         /\ faults' \in 0..MaxFaults
  <1>1. faults' \in 1..MaxFaults
    BY ForwarderAssumption DEF Fault, ForwarderTypeOK
  <1>2. [request |-> faults', ids |-> batch] \in [request : 1..MaxFaults, ids : SUBSET (1..lastID)]
    BY <1>1 DEF ForwarderTypeOK
  <1>3. faults' \in 0..MaxFaults
    BY <1>1, ForwarderAssumption
  <1> QED BY <1>2, <1>3 DEF Abandon, ForwarderTypeOK

LEMMA FaultType ==
  ASSUME ForwarderTypeOK, NEW kind, Fault(kind) \/ UNCHANGED faults
  PROVE  faults' \in 0..MaxFaults
  BY ForwarderAssumption DEF Fault, ForwarderTypeOK

LEMMA TypeNext == ForwarderTypeOK /\ [Next]_vars => ForwarderTypeOK'
  <1> SUFFICES ASSUME ForwarderTypeOK, [Next]_vars PROVE ForwarderTypeOK'
    OBVIOUS
  <1> USE ForwarderAssumption
  <1>1. CASE SaveAlert
    <2>1. lastID' \in 0..MaxAlerts /\ lastID <= lastID'
      BY <1>1 DEF SaveAlert, table, ForwarderTypeOK
    <2>2. 1..lastID \subseteq 1..lastID'
      BY <2>1 DEF ForwarderTypeOK
    <2>3. stored' \subseteq 1..lastID' /\ createdAt' \in [IDs -> 0..MaxTime]
      <3>1. CASE UNCHANGED table
        BY <2>2, <3>1 DEF table, ForwarderTypeOK
      <3>2. CASE ~UNCHANGED table
        <4>1. lastID' = lastID + 1 /\ stored' = stored \cup {lastID'}
          BY <1>1, <3>2 DEF SaveAlert
        <4>2. createdAt' = [createdAt EXCEPT ![lastID'] = now]
          BY <1>1, <3>2 DEF SaveAlert
        <4>3. lastID' \in 1..lastID'
          BY <4>1, <2>1 DEF ForwarderTypeOK
        <4> QED BY <2>2, <4>1, <4>2, <4>3 DEF ForwarderTypeOK
      <3> QED BY <3>1, <3>2
    <2>4. synced' \subseteq stored' /\ faults' \in 0..MaxFaults
      BY <1>1, FaultType DEF SaveAlert, table, ForwarderTypeOK
    <2>5. late \subseteq [request : 1..MaxFaults, ids : SUBSET (1..lastID')]
      BY <2>2 DEF ForwarderTypeOK
    <2> QED BY <1>1, <2>1, <2>2, <2>3, <2>4, <2>5 DEF SaveAlert, sync, network, ForwarderTypeOK
  <1>2. CASE StartSync
    <2>1. LoadUnsynced(BatchSize) \subseteq 1..lastID
      BY BatchIsOldest DEF Unsynced, ForwarderTypeOK
    <2> QED BY <1>2, <2>1 DEF StartSync, table, network, ForwarderTypeOK
  <1>3. CASE Accepted
    BY <1>3, CountType DEF Accepted, table, ForwarderTypeOK
  <1>4. CASE Rejected
    BY <1>4 DEF Rejected, table, network, ForwarderTypeOK
  <1>5. CASE Unanswered
    BY <1>5, AbandonType DEF Unanswered, table, ForwarderTypeOK
  <1>6. CASE FinishSync
    <2>1. faults' \in 0..MaxFaults
      BY <1>6, FaultType DEF FinishSync
    <2>2. synced' \subseteq stored
      BY <1>6 DEF FinishSync, MarkSynced, ForwarderTypeOK
    <2> QED BY <1>6, <2>1, <2>2 DEF FinishSync, network, ForwarderTypeOK
  <1>7. ASSUME NEW r \in late, AcceptedLate(r) PROVE ForwarderTypeOK'
    BY <1>7, CountType DEF AcceptedLate, table, sync, ForwarderTypeOK
  <1>8. CASE Prune
    <2>1. /\ stored' \subseteq stored /\ synced' \subseteq stored'
          /\ aged' \subseteq aged \cup stored
      BY <1>8 DEF Prune, PruneSyncedEvents, PruneOldEvents, OlderThan, ForwarderTypeOK
    <2> QED BY <1>8, <2>1 DEF Prune, sync, network, ForwarderTypeOK
  <1>9. CASE Crash
    <2>1. faults' \in 0..MaxFaults
      BY <1>9, FaultType DEF Crash
    <2>2. late' \subseteq [request : 1..MaxFaults, ids : SUBSET (1..lastID)]
      BY <1>9, AbandonType DEF Crash, ForwarderTypeOK
    <2> QED BY <1>9, <2>1, <2>2 DEF Crash, table, ForwarderTypeOK
  <1>10. CASE Start
    BY <1>10 DEF Start, table, sync, network, ForwarderTypeOK
  <1>11. CASE Tick
    BY <1>11 DEF Tick, table, sync, network, ForwarderTypeOK
  <1>12. CASE UNCHANGED vars
    BY <1>12 DEF vars, table, sync, network, ForwarderTypeOK
  <1> QED BY <1>1, <1>2, <1>3, <1>4, <1>5, <1>6, <1>7, <1>8, <1>9, <1>10, <1>11, <1>12 DEF Next

\* Every variable of the forwarder keeps its type, whatever fails.
THEOREM ForwarderTypeCorrect == Spec => []ForwarderTypeOK
  BY TypeInit, TypeNext, PTL DEF Spec

-----------------------------------------------------------------------------
(* What a request in progress rests on.                                    *)

\* A batch is loaded while a Controller is configured, so its rows stay in the
\* table until the request is over; a marked row has been delivered.
SyncInv ==
    /\ pc # "idle" => up /\ connected /\ batch \subseteq Unsynced
    /\ pc = "idle" => batch = {}
    /\ pc = "marking" => batch \subseteq Delivered
    /\ synced \subseteq Delivered
    /\ \A i \in IDs : i > lastID => received[i] = 0

\* Nothing that reached the Controller is ever taken back.
LEMMA DeliveredGrows ==
  ASSUME ForwarderTypeOK, ForwarderTypeOK', SyncInv, [Next]_vars
  PROVE  Delivered \subseteq Delivered' /\ lastID \in Nat /\ lastID' \in Nat /\ lastID <= lastID'
  <1> USE ForwarderAssumption
  <1>1. lastID \in Nat /\ lastID' \in Nat /\ lastID <= lastID'
    BY DEF Next, vars, ForwarderTypeOK, SaveAlert, table, StartSync, Accepted, Rejected,
           Unanswered, FinishSync, AcceptedLate, Prune, Crash, Start, Tick
  <1>2. \/ received' = received
        \/ \E ids \in SUBSET IDs : received' = [i \in IDs |-> IF i \in ids THEN received[i] + 1 ELSE received[i]]
    <2>1. CASE Accepted
      <3>1. batch \subseteq IDs
        BY DEF ForwarderTypeOK, IDs
      <3> QED BY <2>1, <3>1 DEF Accepted, Count
    <2>2. ASSUME NEW r \in late, AcceptedLate(r) PROVE
            \E ids \in SUBSET IDs : received' = [i \in IDs |-> IF i \in ids THEN received[i] + 1 ELSE received[i]]
      <3>1. r.ids \subseteq IDs
        BY DEF ForwarderTypeOK, IDs
      <3> QED BY <2>2, <3>1 DEF AcceptedLate, Count
    <2>3. CASE ~Accepted /\ ~(\E r \in late : AcceptedLate(r))
      BY <2>3 DEF Next, vars, network, SaveAlert, StartSync, Rejected,
                  Unanswered, FinishSync, Prune, Crash, Start, Tick
    <2> QED BY <2>1, <2>2, <2>3
  <1>3. \A i \in IDs : received[i] \in Nat /\ received[i] <= received'[i]
    BY <1>2 DEF ForwarderTypeOK
  <1>4. Delivered \subseteq IDs
    BY <1>1 DEF Delivered, IDs, ForwarderTypeOK
  <1>5. ASSUME NEW i \in Delivered PROVE i \in Delivered'
    <2>1. i \in IDs /\ received[i] > 0 /\ i \in 1..lastID'
      BY <1>1, <1>4 DEF Delivered
    <2>2. received'[i] \in Nat
      BY <2>1 DEF ForwarderTypeOK
    <2>3. received'[i] > 0
      BY <1>3, <2>1, <2>2
    <2> QED BY <2>1, <2>3 DEF Delivered
  <1> QED BY <1>1, <1>5

\* What the Controller has just counted, it has received.
LEMMA CountDelivers ==
  ASSUME ForwarderTypeOK, lastID' = lastID, NEW ids \in SUBSET (1..lastID), Count(ids)
  PROVE  ids \subseteq Delivered' /\ Delivered' = Delivered \cup ids
  <1>1. ids \subseteq IDs /\ lastID \in Nat /\ MaxAlerts \in Nat /\ 1..lastID \subseteq IDs
    BY ForwarderAssumption DEF ForwarderTypeOK, IDs
  <1>2. \A i \in IDs : received[i] \in Nat
    BY DEF ForwarderTypeOK
  <1>3. \A i \in IDs : received'[i] = IF i \in ids THEN received[i] + 1 ELSE received[i]
    BY DEF Count
  <1>4. ASSUME NEW i \in 1..lastID
        PROVE  received'[i] > 0 <=> received[i] > 0 \/ i \in ids
    <2>1. received[i] \in Nat /\ received'[i] = IF i \in ids THEN received[i] + 1 ELSE received[i]
      BY <1>1, <1>2, <1>3
    <2> QED BY <2>1
  <1>5. Delivered' = {i \in 1..lastID : received'[i] > 0}
    BY DEF Delivered
  <1> QED BY <1>4, <1>5 DEF Delivered

LEMMA SyncInit == Init => SyncInv
  BY DEF Init, SyncInv, Unsynced, Delivered

LEMMA SyncNext == ForwarderTypeOK /\ ForwarderTypeOK' /\ SyncInv /\ [Next]_vars => SyncInv'
  <1> SUFFICES ASSUME ForwarderTypeOK, ForwarderTypeOK', SyncInv, [Next]_vars PROVE SyncInv'
    OBVIOUS
  <1> USE ForwarderAssumption
  <1>0. Delivered \subseteq Delivered'
    BY DeliveredGrows
  <1>1. CASE SaveAlert
    <2>1. Unsynced \subseteq Unsynced' /\ synced' = synced
      <3>1. CASE UNCHANGED table
        BY <3>1 DEF table, Unsynced
      <3>2. CASE ~UNCHANGED table
        BY <1>1, <3>2 DEF SaveAlert, Unsynced
      <3> QED BY <3>1, <3>2
    <2>2. \A i \in IDs : i > lastID' => received'[i] = 0
      BY <1>1, DeliveredGrows DEF SaveAlert, network, SyncInv, IDs
    <2> QED BY <1>0, <1>1, <2>1, <2>2 DEF SaveAlert, sync, network, SyncInv
  <1>2. CASE StartSync
    BY <1>0, <1>2, BatchIsOldest DEF StartSync, table, network, SyncInv, Unsynced
  <1>3. CASE Accepted
    <2>1. batch \subseteq Delivered'
      BY <1>3, CountDelivers DEF Accepted, table, ForwarderTypeOK
    <2>2. \A i \in IDs : i > lastID' => received'[i] = 0
      <3> SUFFICES ASSUME NEW i \in IDs, i > lastID PROVE received'[i] = 0
        BY <1>3 DEF Accepted, table
      <3>1. i \notin batch
        BY DEF ForwarderTypeOK, IDs
      <3> QED BY <1>3, <3>1 DEF Accepted, Count, SyncInv
    <2> QED BY <1>0, <1>3, <2>1, <2>2 DEF Accepted, table, SyncInv, Unsynced
  <1>4. CASE Rejected
    BY <1>0, <1>4 DEF Rejected, table, network, SyncInv
  <1>5. CASE Unanswered
    BY <1>0, <1>5 DEF Unanswered, table, SyncInv
  <1>6. CASE FinishSync
    BY <1>0, <1>6 DEF FinishSync, MarkSynced, network, SyncInv
  <1>7. ASSUME NEW r \in late, AcceptedLate(r) PROVE SyncInv'
    <2>1. \A i \in IDs : i > lastID' => received'[i] = 0
      <3> SUFFICES ASSUME NEW i \in IDs, i > lastID PROVE received'[i] = 0
        BY <1>7 DEF AcceptedLate, table
      <3>1. i \notin r.ids
        BY DEF ForwarderTypeOK
      <3> QED BY <1>7, <3>1 DEF AcceptedLate, Count, SyncInv
    <2> QED BY <1>0, <1>7, <2>1 DEF AcceptedLate, table, sync, SyncInv, Unsynced
  <1>8. CASE Prune
    BY <1>0, <1>8 DEF Prune, sync, network, SyncInv
  <1>9. CASE Crash
    BY <1>0, <1>9 DEF Crash, table, SyncInv
  <1>10. CASE Start
    <2>1. pc = "idle"
      BY <1>10 DEF Start, SyncInv, ForwarderTypeOK
    <2> QED BY <1>0, <1>10, <2>1 DEF Start, table, sync, network, SyncInv
  <1>11. CASE Tick
    BY <1>0, <1>11 DEF Tick, table, sync, network, SyncInv, Unsynced
  <1>12. CASE UNCHANGED vars
    BY <1>0, <1>12 DEF vars, table, sync, network, SyncInv, Unsynced
  <1> QED BY <1>1, <1>2, <1>3, <1>4, <1>5, <1>6, <1>7, <1>8, <1>9, <1>10, <1>11, <1>12 DEF Next

-----------------------------------------------------------------------------
(* The promises.                                                           *)

LEMMA NothingLostNext ==
  ASSUME ForwarderTypeOK, ForwarderTypeOK', SyncInv, SyncInv', NothingIsLost, [Next]_vars
  PROVE  NothingIsLost'
  <1> USE ForwarderAssumption
  <1>0. /\ Delivered \subseteq Delivered' /\ lastID \in Nat /\ lastID' \in Nat
        /\ Delivered' \cup Unsynced' \cup aged' \subseteq 1..lastID'
    BY DeliveredGrows DEF ForwarderTypeOK, Unsynced, Delivered
  <1> SUFFICES 1..lastID' \subseteq Delivered' \cup Unsynced' \cup aged'
    BY <1>0 DEF NothingIsLost
  <1>1. CASE SaveAlert
    <2>1. CASE UNCHANGED table
      BY <1>0, <1>1, <2>1 DEF SaveAlert, table, Unsynced, NothingIsLost
    <2>2. CASE ~UNCHANGED table
      <3>1. /\ lastID' = lastID + 1 /\ stored' = stored \cup {lastID'}
            /\ synced' = synced /\ aged' = aged
        BY <1>1, <2>2 DEF SaveAlert
      <3>2. lastID' \notin synced
        BY <1>0, <3>1 DEF ForwarderTypeOK
      <3>3. 1..lastID' = 1..lastID \cup {lastID'}
        BY <1>0, <3>1
      <3> QED BY <1>0, <3>1, <3>2, <3>3 DEF Unsynced, NothingIsLost
    <2> QED BY <2>1, <2>2
  <1>2. CASE FinishSync
    <2>1. synced' \subseteq synced \cup Delivered /\ stored' = stored
      BY <1>2 DEF FinishSync, MarkSynced, SyncInv
    <2> QED BY <1>0, <1>2, <2>1 DEF FinishSync, Unsynced, NothingIsLost
  <1>3. CASE Prune
    BY <1>0, <1>3 DEF Prune, PruneSyncedEvents, Unsynced, SyncInv, NothingIsLost
  <1>4. CASE StartSync \/ Accepted \/ Rejected \/ Unanswered \/ Crash \/ Start \/ Tick
             \/ (\E r \in late : AcceptedLate(r)) \/ UNCHANGED vars
    <2>1. UNCHANGED <<table, aged>>
      BY <1>4 DEF StartSync, Accepted, Rejected, Unanswered, Crash, Start, Tick, AcceptedLate, vars
    <2> QED BY <1>0, <2>1 DEF table, Unsynced, NothingIsLost
  <1> QED BY <1>1, <1>2, <1>3, <1>4 DEF Next

LEMMA SyncCorrect == Spec => [](ForwarderTypeOK /\ SyncInv /\ NothingIsLost)
  <1>1. Init => ForwarderTypeOK /\ SyncInv /\ NothingIsLost
    <2>1. Init => NothingIsLost
      BY DEF Init, NothingIsLost, Delivered, Unsynced
    <2> QED BY <2>1, TypeInit, SyncInit
  <1>2. /\ ForwarderTypeOK /\ SyncInv /\ NothingIsLost /\ [Next]_vars
        => (ForwarderTypeOK /\ SyncInv /\ NothingIsLost)'
    BY TypeNext, SyncNext, NothingLostNext
  <1> QED BY <1>1, <1>2, PTL DEF Spec

\* An alert saved once reaches the Controller, waits, or was dropped by age
\* while no Controller was configured, for any mode, batch size and faults.
THEOREM NothingLost == Spec => []NothingIsLost
  BY SyncCorrect, PTL

\* A request never carries an alert ahead of an older one that still waits.
Ahead(ids) == \A i \in ids : 1..i \subseteq Delivered \cup aged \cup ids
OrderInv ==
    /\ OldestFirst
    /\ Ahead(batch)
    /\ \A r \in late : Ahead(r.ids)

LEMMA OrderNext ==
  ASSUME ForwarderTypeOK, ForwarderTypeOK', SyncInv, NothingIsLost, OrderInv, [Next]_vars
  PROVE  OrderInv'
  <1> USE ForwarderAssumption
  <1>0. /\ Delivered \subseteq Delivered' /\ aged \subseteq aged'
        /\ lastID \in Nat /\ lastID' \in Nat
    <2>1. aged \subseteq aged'
      BY DEF Next, vars, SaveAlert, StartSync, Accepted, Rejected, Unanswered, FinishSync,
             AcceptedLate, Prune, Crash, Start, Tick
    <2> QED BY <2>1, DeliveredGrows
  <1>1. ASSUME NEW ids, Ahead(ids) PROVE Ahead(ids)'
    BY <1>0, <1>1 DEF Ahead
  <1>2. ASSUME Delivered' = Delivered PROVE OldestFirst'
    BY <1>0, <1>2 DEF OrderInv, OldestFirst
  <1>3. ASSUME NEW ids, Ahead(ids), Delivered' = Delivered \cup ids PROVE OldestFirst'
    BY <1>0, <1>3 DEF OrderInv, OldestFirst, Ahead
  <1>4. Ahead({})'
    BY DEF Ahead
  <1>5. CASE StartSync
    <2>1. Delivered' = Delivered /\ late' = late
      BY <1>5 DEF StartSync, network, table, Delivered
    <2>2. ASSUME NEW i \in batch', NEW j \in 1..i PROVE j \in Delivered \cup aged \cup batch'
      <3>1. batch' = LoadUnsynced(BatchSize) /\ i \in 1..lastID
        BY <1>5, BatchIsOldest DEF StartSync, ForwarderTypeOK, Unsynced
      <3>2. j \in 1..lastID /\ (j = i \/ j < i)
        BY <1>0, <3>1
      <3>3. CASE j \in Unsynced
        BY <2>2, <3>1, <3>2, <3>3, BatchIsOldest
      <3>4. CASE j \notin Unsynced
        BY <3>2, <3>4 DEF NothingIsLost
      <3> QED BY <3>3, <3>4
    <2>3. Ahead(batch)'
      BY <1>0, <2>2 DEF Ahead
    <2> QED BY <1>1, <1>2, <2>1, <2>3 DEF OrderInv
  <1>6. CASE Accepted
    <2>1. Delivered' = Delivered \cup batch
      BY <1>6, CountDelivers DEF Accepted, table, ForwarderTypeOK
    <2> QED BY <1>1, <1>3, <1>6, <2>1 DEF Accepted, OrderInv
  <1>7. ASSUME NEW r \in late, AcceptedLate(r) PROVE OrderInv'
    <2>1. r.ids \in SUBSET (1..lastID)
      BY DEF ForwarderTypeOK
    <2>2. Delivered' = Delivered \cup r.ids
      BY <1>7, <2>1, CountDelivers DEF AcceptedLate, table
    <2>3. OldestFirst'
      BY <1>3, <2>2 DEF OrderInv
    <2> QED BY <1>1, <1>7, <2>3 DEF AcceptedLate, sync, OrderInv
  <1>8. CASE Unanswered \/ Crash
    <2>1. Delivered' = Delivered
      BY <1>8 DEF Unanswered, Crash, table, Delivered
    <2>2. \A r \in late' : r \in late \/ r.ids = batch
      BY <1>8 DEF Unanswered, Crash, Abandon
    <2>3. batch' = {}
      BY <1>8 DEF Unanswered, Crash
    <2> QED BY <1>1, <1>2, <1>4, <2>1, <2>2, <2>3 DEF OrderInv
  <1>9. CASE SaveAlert
    <2>1. UNCHANGED <<sync, network>>
      BY <1>9 DEF SaveAlert
    <2>2. Delivered' \subseteq Delivered
      <3> SUFFICES ASSUME NEW i \in 1..lastID', received[i] > 0 PROVE i \in 1..lastID
        BY <2>1 DEF Delivered, network
      <3>1. i \in IDs /\ ~(i > lastID)
        BY DEF ForwarderTypeOK, SyncInv, IDs
      <3> QED BY <1>0, <3>1 DEF IDs
    <2> QED BY <1>0, <1>1, <1>2, <2>1, <2>2 DEF sync, network, OrderInv
  <1>10. CASE Rejected \/ FinishSync \/ Prune \/ Start \/ Tick \/ UNCHANGED vars
    <2>1. Delivered' = Delivered /\ late' = late
      BY <1>10 DEF Rejected, FinishSync, Prune, Start, Tick, vars, network, table, Delivered
    <2>2. batch' \in {batch, {}}
      BY <1>10 DEF Rejected, FinishSync, Prune, Start, Tick, vars, sync
    <2> QED BY <1>1, <1>2, <1>4, <2>1, <2>2 DEF OrderInv
  <1> QED BY <1>5, <1>6, <1>7, <1>8, <1>9, <1>10 DEF Next

\* The Controller never sees an alert for the first time ahead of an older one
\* that still waits, whatever is lost, late, repeated or pruned.
THEOREM DeliveryIsInOrder == Spec => []OldestFirst
  <1>1. Init => OrderInv
    BY DEF Init, OrderInv, OldestFirst, Ahead, Delivered
  <1>2. /\ ForwarderTypeOK /\ SyncInv /\ NothingIsLost /\ OrderInv
        /\ ForwarderTypeOK' /\ [Next]_vars
        => OrderInv'
    BY OrderNext
  <1>3. OrderInv => OldestFirst
    BY DEF OrderInv
  <1> QED BY <1>1, <1>2, <1>3, SyncCorrect, PTL DEF Spec

-----------------------------------------------------------------------------
(* Repeats.                                                                *)

Pending(i) == {r \in late : i \in r.ids}
\* One more receipt is earned when the row is marked, or about to be.
Earned(i) == IF i \in Unsynced /\ ~(pc = "marking" /\ i \in batch) THEN 0 ELSE 1
RepeatInv ==
    /\ IsFiniteSet(late)
    /\ \A r \in late : r.request <= faults
    /\ \A i \in 1..lastID : received[i] + Cardinality(Pending(i)) <= faults + Earned(i)

LEMMA PendingIsFinite ==
  ASSUME RepeatInv, NEW i
  PROVE  IsFiniteSet(Pending(i)) /\ Cardinality(Pending(i)) \in Nat
  <1>1. Pending(i) \subseteq late
    BY DEF Pending
  <1> QED BY <1>1, FS_Subset, FS_CardinalityType DEF RepeatInv

\* A request given up on may add one receipt, and took one fault.
LEMMA AbandonCounts ==
  ASSUME ForwarderTypeOK, SyncInv, RepeatInv, NEW kind, Fault(kind), Abandon, NEW i
  PROVE  /\ IsFiniteSet(late')
         /\ \A r \in late' : r.request <= faults'
         /\ Cardinality(Pending(i)') =
               IF i \in batch THEN Cardinality(Pending(i)) + 1 ELSE Cardinality(Pending(i))
  <1> DEFINE new == [request |-> faults', ids |-> batch]
  <1>1. faults \in Nat /\ faults' = faults + 1
    BY DEF Fault, ForwarderTypeOK
  <1>2. late' = late \cup {new}
    BY DEF Abandon
  <1>3. new \notin late
    BY <1>1 DEF RepeatInv
  <1>4. IsFiniteSet(late')
    BY <1>2, FS_AddElement DEF RepeatInv
  <1>5. ASSUME NEW r \in late' PROVE r.request <= faults'
    <2>1. CASE r \in late
      <3>1. r.request \in Int /\ r.request <= faults
        BY <2>1 DEF RepeatInv, ForwarderTypeOK
      <3> QED BY <1>1, <3>1
    <2>2. CASE r = new
      BY <1>1, <2>2
    <2> QED BY <1>2, <2>1, <2>2
  <1>6. CASE i \in batch
    <2>1. Pending(i)' = Pending(i) \cup {new}
      BY <1>2, <1>6 DEF Pending
    <2>2. new \notin Pending(i)
      BY <1>3 DEF Pending
    <2> QED BY <1>4, <1>5, <1>6, <2>1, <2>2, PendingIsFinite, FS_AddElement
  <1>7. CASE i \notin batch
    <2>1. Pending(i)' = Pending(i)
      BY <1>2, <1>7 DEF Pending
    <2> QED BY <1>4, <1>5, <1>7, <2>1
  <1> QED BY <1>6, <1>7

LEMMA RepeatNext ==
  ASSUME ForwarderTypeOK, ForwarderTypeOK', SyncInv, SyncInv', RepeatInv, [Next]_vars
  PROVE  RepeatInv'
  <1> USE ForwarderAssumption
  <1>0. /\ lastID \in Nat /\ 1..lastID \subseteq IDs /\ faults \in Nat /\ faults' \in Nat
        /\ \A i \in IDs : received[i] \in Nat
        /\ \A i \in IDs : Cardinality(Pending(i)) \in Nat
    BY PendingIsFinite DEF ForwarderTypeOK, IDs
  <1>1. CASE SaveAlert
    <2>1. UNCHANGED <<sync, network>> /\ faults <= faults'
      BY <1>0, <1>1 DEF SaveAlert, Fault
    <2>2. \A r \in late : r.request <= faults'
      <3> SUFFICES ASSUME NEW r \in late PROVE r.request <= faults'
        OBVIOUS
      <3>1. r.request \in Int /\ r.request <= faults
        BY DEF RepeatInv, ForwarderTypeOK
      <3> QED BY <1>0, <2>1, <3>1
    <2>3. ASSUME NEW i \in 1..lastID' PROVE received[i] + Cardinality(Pending(i)) <= faults' + Earned(i)'
      <3>1. CASE i \in 1..lastID
        <4>1. i \in Unsynced' => i \in Unsynced
          <5>1. CASE UNCHANGED table
            BY <5>1 DEF table, Unsynced
          <5>2. CASE ~UNCHANGED table
            <6>1. lastID' = lastID + 1 /\ stored' = stored \cup {lastID'} /\ synced' = synced
              BY <1>1, <5>2 DEF SaveAlert
            <6> QED BY <1>0, <3>1, <6>1 DEF Unsynced
          <5> QED BY <5>1, <5>2
        <4>2. Earned(i) \in {0, 1} /\ Earned(i)' \in {0, 1} /\ Earned(i) <= Earned(i)'
          BY <2>1, <4>1 DEF Earned, sync
        <4>3. received[i] + Cardinality(Pending(i)) <= faults + Earned(i) /\ i \in IDs
          BY <1>0, <3>1 DEF RepeatInv
        <4> QED BY <1>0, <2>1, <4>2, <4>3
      <3>2. CASE i \notin 1..lastID
        <4>1. i \in IDs /\ i > lastID
          BY <1>0, <3>2 DEF ForwarderTypeOK, IDs
        <4>2. Pending(i) = {}
          BY <1>0, <4>1 DEF Pending, ForwarderTypeOK
        <4>3. received[i] = 0 /\ Cardinality(Pending(i)) = 0
          BY <4>1, <4>2, FS_EmptySet DEF SyncInv
        <4>4. Earned(i)' \in {0, 1}
          BY DEF Earned
        <4> QED BY <1>0, <4>3, <4>4
      <3> QED BY <3>1, <3>2
    <2>4. \A i : Pending(i)' = Pending(i)
      BY <2>1 DEF Pending, network
    <2> QED BY <2>1, <2>2, <2>3, <2>4 DEF network, RepeatInv
  <1>2. CASE Accepted
    <2>1. late' = late /\ faults' = faults /\ lastID' = lastID /\ Unsynced' = Unsynced
      BY <1>2 DEF Accepted, table, Unsynced
    <2>2. ASSUME NEW i \in 1..lastID
          PROVE  received'[i] + Cardinality(Pending(i)') <= faults' + Earned(i)'
      <3>1. Pending(i)' = Pending(i) /\ i \in IDs
        BY <1>0, <2>1 DEF Pending
      <3>2. received[i] + Cardinality(Pending(i)) <= faults + Earned(i)
        BY DEF RepeatInv
      <3>3. CASE i \in batch
        <4>1. received'[i] = received[i] + 1
          BY <1>2, <3>1, <3>3 DEF Accepted, Count
        <4>2. Earned(i) = 0 /\ Earned(i)' = 1
          BY <1>2, <3>3, <2>1 DEF Accepted, Earned, SyncInv
        <4> QED BY <1>0, <2>1, <3>1, <3>2, <4>1, <4>2
      <3>4. CASE i \notin batch
        <4>1. received'[i] = received[i]
          BY <1>2, <3>1, <3>4 DEF Accepted, Count
        <4>2. Earned(i)' = Earned(i)
          BY <1>2, <3>4, <2>1 DEF Accepted, Earned
        <4> QED BY <2>1, <3>1, <3>2, <4>1, <4>2
      <3> QED BY <3>3, <3>4
    <2> QED BY <2>1, <2>2 DEF RepeatInv
  <1>3. ASSUME NEW r \in late, AcceptedLate(r) PROVE RepeatInv'
    <2>1. /\ late' = late \ {r} /\ faults' = faults /\ lastID' = lastID
          /\ Unsynced' = Unsynced /\ UNCHANGED sync
      BY <1>3 DEF AcceptedLate, table, Unsynced
    <2>2. IsFiniteSet(late')
      BY <2>1, FS_RemoveElement DEF RepeatInv
    <2>3. ASSUME NEW i \in 1..lastID
          PROVE  received'[i] + Cardinality(Pending(i)') <= faults' + Earned(i)'
      <3>1. received[i] + Cardinality(Pending(i)) <= faults + Earned(i) /\ i \in IDs
        BY <1>0 DEF RepeatInv
      <3>2. Earned(i)' = Earned(i)
        BY <2>1 DEF Earned, sync
      <3>3. CASE i \in r.ids
        <4>1. received'[i] = received[i] + 1
          BY <1>3, <3>1, <3>3 DEF AcceptedLate, Count
        <4>2. Pending(i)' = Pending(i) \ {r} /\ r \in Pending(i)
          BY <2>1, <3>3 DEF Pending
        <4>3. Cardinality(Pending(i)') = Cardinality(Pending(i)) - 1
          BY <4>2, PendingIsFinite, FS_RemoveElement
        <4> QED BY <1>0, <2>1, <3>1, <3>2, <4>1, <4>3
      <3>4. CASE i \notin r.ids
        <4>1. received'[i] = received[i]
          BY <1>3, <3>1, <3>4 DEF AcceptedLate, Count
        <4>2. Pending(i)' = Pending(i)
          BY <2>1, <3>4 DEF Pending
        <4> QED BY <2>1, <3>1, <3>2, <4>1, <4>2
      <3> QED BY <3>3, <3>4
    <2> QED BY <2>1, <2>2, <2>3 DEF RepeatInv
  <1>4. CASE Unanswered \/ (Crash /\ pc = "posting")
    <2>1. /\ \E kind : Fault(kind) /\ Abandon
          /\ received' = received /\ lastID' = lastID /\ Unsynced' = Unsynced
          /\ pc = "posting" /\ pc' = "idle"
      BY <1>4 DEF Unanswered, Crash, table, Unsynced
    <2>2. faults' = faults + 1
      BY <2>1 DEF Fault
    <2>3. IsFiniteSet(late') /\ \A r \in late' : r.request <= faults'
      BY <2>1, AbandonCounts
    <2>4. ASSUME NEW i \in 1..lastID
          PROVE  received'[i] + Cardinality(Pending(i)') <= faults' + Earned(i)'
      <3>1. received[i] + Cardinality(Pending(i)) <= faults + Earned(i) /\ i \in IDs
        BY <1>0 DEF RepeatInv
      <3>2. Earned(i)' = Earned(i) /\ Earned(i) \in {0, 1}
        BY <2>1 DEF Earned
      <3>3. Cardinality(Pending(i)') \in {Cardinality(Pending(i)), Cardinality(Pending(i)) + 1}
        BY <2>1, AbandonCounts
      <3> QED BY <1>0, <2>1, <2>2, <3>1, <3>2, <3>3
    <2> QED BY <2>1, <2>3, <2>4 DEF RepeatInv
  <1>5. CASE FinishSync \/ (Crash /\ pc # "posting")
    <2>1. /\ late' = late /\ received' = received /\ lastID' = lastID
          /\ pc' = "idle" /\ stored' = stored
      BY <1>5 DEF FinishSync, Crash, network, table
    <2>2. \/ faults' = faults + 1 /\ synced' = synced
          \/ faults' = faults /\ synced' = synced \cup (batch \cap stored)
      BY <1>5 DEF FinishSync, Crash, MarkSynced, Fault, table
    <2>3. \A r \in late : r.request <= faults'
      <3> SUFFICES ASSUME NEW r \in late PROVE r.request <= faults'
        OBVIOUS
      <3>1. r.request \in Int /\ r.request <= faults
        BY DEF RepeatInv, ForwarderTypeOK
      <3> QED BY <1>0, <2>2, <3>1
    <2>4. ASSUME NEW i \in 1..lastID
          PROVE  received'[i] + Cardinality(Pending(i)') <= faults' + Earned(i)'
      <3>1. received[i] + Cardinality(Pending(i)) <= faults + Earned(i) /\ i \in IDs
        BY <1>0 DEF RepeatInv
      <3>2. Pending(i)' = Pending(i)
        BY <2>1 DEF Pending
      <3>3. Earned(i) \in {0, 1} /\ Earned(i)' \in {0, 1}
        BY DEF Earned
      <3>4. faults' = faults => Earned(i) <= Earned(i)'
        BY <1>0, <2>1, <2>2, <3>3 DEF Earned, Unsynced, SyncInv
      <3> QED BY <1>0, <2>1, <2>2, <3>1, <3>2, <3>3, <3>4
    <2> QED BY <2>1, <2>3, <2>4 DEF RepeatInv
  <1>6. CASE StartSync \/ Rejected \/ Prune \/ Start \/ Tick \/ UNCHANGED vars
    <2>1. /\ late' = late /\ received' = received /\ lastID' = lastID /\ faults' = faults
          /\ Unsynced' \subseteq Unsynced
      BY <1>6 DEF StartSync, Rejected, Prune, Start, Tick, vars, network, table, Unsynced
    <2>2. pc' = "marking" => pc = "marking" /\ batch' = batch
      BY <1>6 DEF StartSync, Rejected, Prune, Start, Tick, vars, sync
    <2>3. pc = "marking" => pc' = pc /\ batch' = batch
      BY <1>6 DEF StartSync, Rejected, Prune, Start, Tick, vars, sync
    <2>4. ASSUME NEW i \in 1..lastID
          PROVE  received'[i] + Cardinality(Pending(i)') <= faults' + Earned(i)'
      <3>1. received[i] + Cardinality(Pending(i)) <= faults + Earned(i) /\ i \in IDs
        BY <1>0 DEF RepeatInv
      <3>2. Pending(i)' = Pending(i)
        BY <2>1 DEF Pending
      <3>3. Earned(i) \in {0, 1} /\ Earned(i)' \in {0, 1} /\ Earned(i) <= Earned(i)'
        BY <2>1, <2>2, <2>3 DEF Earned
      <3> QED BY <1>0, <2>1, <3>1, <3>2, <3>3
    <2> QED BY <2>1, <2>4 DEF RepeatInv
  <1> QED BY <1>1, <1>2, <1>3, <1>4, <1>5, <1>6 DEF Next

\* The Controller gets an alert at most once more than there were faults, for
\* any batch size, mode, number of alerts and interleaving.
THEOREM RepeatsAreBounded == Spec => []RepeatsNeedFaults
  <1>1. Init => RepeatInv
    BY FS_EmptySet DEF Init, RepeatInv
  <1>2. /\ ForwarderTypeOK /\ SyncInv /\ NothingIsLost /\ RepeatInv
        /\ ForwarderTypeOK' /\ SyncInv' /\ [Next]_vars
        => RepeatInv'
    BY RepeatNext
  <1>3. ForwarderTypeOK /\ SyncInv /\ RepeatInv => RepeatsNeedFaults
    <2> SUFFICES ASSUME ForwarderTypeOK, SyncInv, RepeatInv, NEW i \in IDs
                 PROVE  received[i] <= 1 + faults
      BY DEF RepeatsNeedFaults
    <2>1. received[i] \in Nat /\ faults \in Nat /\ lastID \in Nat /\ Cardinality(Pending(i)) \in Nat
      BY PendingIsFinite DEF ForwarderTypeOK
    <2>2. CASE i > lastID
      BY <2>1, <2>2 DEF SyncInv
    <2>3. CASE ~(i > lastID)
      <3>1. i \in 1..lastID
        BY <2>1, <2>3, ForwarderAssumption DEF IDs
      <3>2. Earned(i) \in {0, 1}
        BY DEF Earned
      <3> QED BY <2>1, <3>1, <3>2 DEF RepeatInv
    <2> QED BY <2>2, <2>3
  <1> QED BY <1>1, <1>2, <1>3, SyncCorrect, PTL DEF Spec
=============================================================================
