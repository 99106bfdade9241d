--------------------------- MODULE MCQueueTracking ---------------------------
(* Accounts and queue ids are alike for the parser. *)
EXTENDS QueueTrackingProperties, TLC

Alike == Permutations(Accounts) \cup Permutations(QueueIds)
=============================================================================
