------------------------- MODULE ForwarderProperties -------------------------
(***************************************************************************)
(* What the store-and-forward of module Forwarder promises.                *)
(***************************************************************************)
EXTENDS Forwarder

Delivered == {i \in 1..lastID : received[i] > 0}

\* An alert once saved has reached the Controller, or is still to be sent, or
\* grew too old while no Controller was configured: no failed request, crash,
\* pruning or change of configuration loses it (forwarder.go:174, store.go:321).
NothingIsLost == 1..lastID = Delivered \cup Unsynced \cup aged

\* The Controller sees no alert for the first time while an older one waits,
\* although requests time out, arrive late and are repeated (store.go:240).
OldestFirst == \A i \in Delivered : 1..i \subseteq Delivered \cup aged

\* A request is repeated only after a fault: the Controller gets an alert at
\* most once more than there were lost answers, failed writes and crashes
\* (forwarder.go:242).
RepeatsNeedFaults == \A i \in IDs : received[i] <= 1 + faults

\* While a Controller is configured and goes on accepting requests, every saved
\* alert reaches it, whatever arrives meanwhile (forwarder.go:138), unless an
\* alert that it never accepts waits where the same batch or an earlier one has
\* it: the status of the batch is one for all its rows (forwarder.go:235), and
\* what is behind the refused alert stays too.
Stuck(i) == \E r \in Refused \cap Unsynced : r < i + BatchSize
BacklogDrains ==
    \A i \in IDs : (i \in Unsynced /\ connected) ~> (i \in Delivered \/ ~connected \/ Stuck(i))

\* The table stays bounded: a row that is old enough goes, unless it waits for
\* a Controller (forwarder.go:153).
Expendable(i) ==
    /\ i \in stored
    /\ IF connected THEN i \in synced /\ createdAt[i] + KeepSynced <= MaxTime
                    ELSE createdAt[i] + Retention <= MaxTime
TableIsPruned == \A i \in IDs : Expendable(i) ~> ~Expendable(i)
=============================================================================
