--------------------------- MODULE EnforcerProofs ---------------------------
(***************************************************************************)
(* Proofs about the ban life cycle for any number of targets and callers,  *)
(* every firewall backend, with or without a store, whatever the requests, *)
(* the faults and the bounds.                                              *)
(***************************************************************************)
EXTENDS EnforcerProperties, EnforcerRefinement, TLAPS

-----------------------------------------------------------------------------
(* Values the helpers compute.                                             *)

\* Durations asked of the firewall are never negative (enforcer.go:1021).
LEMMA DurationsAreNat == Durations \subseteq Nat
  <1>1. BanSeconds \in Nat
    BY EnforcerAssumption
  <1>2. ASSUME NEW r \in Requests PROVE TTLOf(r.ttl) \in Nat
    <2>1. r.ttl \in Int
      BY EnforcerAssumption DEF RequestType
    <2> QED BY <1>1, <2>1 DEF TTLOf
  <1> QED BY <1>1, <1>2 DEF Durations

\* Every new expiry is a positive instant, so it differs from "no entry".
LEMMA ExpiresIsPositive ==
  ASSUME TypeOK, NEW secs \in Nat
  PROVE  Expires(secs) \in Nat /\ Expires(secs) # 0
  BY EnforcerAssumption DEF Expires, TypeOK

\* The firewall commands keep the firewall well typed whatever they are asked.
LEMMA FirewallType ==
  ASSUME TypeOK, NEW t \in Targets, NEW secs \in Int,
         FwBlock(t, secs) \/ FwBlockFails(t, secs) \/ FwUnblock(t)
  PROVE  /\ runtime' \in [Targets -> Nat] /\ permanent' \subseteq Targets
         /\ faults' \in 0..MaxFaults
  <1>1. RuleEnd(secs) \in Nat
    BY EnforcerAssumption DEF RuleEnd, TypeOK
  <1>2. AddRule(t, secs) \in [Targets -> Nat]
    BY <1>1 DEF AddRule, TypeOK
  <1>3. CASE FwBlock(t, secs)
    BY <1>2, <1>3 DEF FwBlock, TypeOK
  <1>4. CASE FwBlockFails(t, secs)
    BY <1>2, <1>4, EnforcerAssumption DEF FwBlockFails, Fault, firewall, TypeOK
  <1>5. CASE FwUnblock(t)
    BY <1>5, EnforcerAssumption DEF FwUnblock, Fault, firewall, TypeOK
  <1> QED BY <1>3, <1>4, <1>5

\* A write leaves the store well typed, and so does a write that fails.
LEMMA StoreType ==
  ASSUME TypeOK, NEW t \in Targets, NEW e \in Nat, WriteBan(t, e)
  PROVE  bans' \in [Targets -> Nat] /\ faults' \in 0..MaxFaults
  BY EnforcerAssumption DEF WriteBan, Fault, TypeOK

LEMMA SnapshotType ==
  ASSUME TypeOK, NEW map \in [Targets -> Nat], Snapshot(map)
  PROVE  work' \subseteq Targets /\ left' \in [Targets -> Nat]
  <1>1. ASSUME NEW t \in Targets, now < map[t] PROVE RemainingSecs(map[t]) \in Nat
    BY <1>1, EnforcerAssumption DEF RemainingSecs, TypeOK
  <1> QED BY <1>1 DEF Snapshot

LEMMA ContinueType ==
  ASSUME TypeOK, NEW missing \in SUBSET Targets, Continue(missing)
  PROVE  /\ work' \subseteq Targets /\ mpc' \in PassSteps
         /\ phase' \in {"down", "loading", "running"} /\ left' \in [Targets -> Nat]
  BY DEF Continue, TypeOK, PassSteps

\* Commands for one target leave the others alone, and a removal adds nothing.
LEMMA FirewallFrame ==
  ASSUME TypeOK, NEW t \in Targets, NEW secs,
         FwBlock(t, secs) \/ FwBlockFails(t, secs) \/ FwUnblock(t)
  PROVE  \A u \in Targets : u # t =>
            runtime'[u] = runtime[u] /\ (u \in permanent' => u \in permanent)
  BY DEF FwBlock, FwBlockFails, FwUnblock, AddRule, Fault, firewall, TypeOK

LEMMA RemovalAddsNothing ==
  ASSUME TypeOK, NEW t \in Targets, FwUnblock(t)
  PROVE  \A u \in Targets : /\ runtime[u] = 0 => runtime'[u] = 0
                            /\ u \in permanent' => u \in permanent
  BY DEF FwUnblock, Fault, firewall, TypeOK

LEMMA StoreFrame ==
  ASSUME TypeOK, NEW t \in Targets, NEW e, WriteBan(t, e)
  PROVE  \A u \in Targets : (u # t \/ e = 0) /\ bans[u] = 0 => bans'[u] = 0
  BY DEF WriteBan, Fault, TypeOK

-----------------------------------------------------------------------------
(* Type correctness.                                                       *)

LEMMA AnyTargetIsTarget == AnyTarget \in Targets
  BY EnforcerAssumption DEF AnyTarget

LEMMA InitType == Init => TypeOK
  BY AnyTargetIsTarget, EnforcerAssumption DEF Init, TypeOK, Replies, PassSteps

LEMMA RequestKeepsType ==
  ASSUME TypeOK, NEW p \in Procs, Request(p)
  PROVE  TypeOK'
  <1> USE DEF TypeOK, Accept, SetFrame, Goto, Frame, calls, loop, agent, firewall,
              Replies, BlockSteps, ExtendSteps, UnblockSteps
  <1>1. PICK t \in Targets :
          \/ StartUnblock(p, t)
          \/ \E secs \in Durations :
                \/ SkipBlock(p, t, secs) \/ DuplicateBlock(p, t, secs)
                \/ StartExtension(p, t, secs) \/ StartBlock(p, t, secs)
    BY DEF Request
  <1>2. requests < MaxRequests => requests + 1 \in 0..MaxRequests
    BY EnforcerAssumption
  <1>3. CASE StartUnblock(p, t)
    BY <1>2, <1>3 DEF StartUnblock, DropEntries, Claim
  <1>4. ASSUME NEW secs \in Durations, SkipBlock(p, t, secs) PROVE TypeOK'
    BY <1>2, <1>4 DEF SkipBlock
  <1>5. ASSUME NEW secs \in Durations, DuplicateBlock(p, t, secs) PROVE TypeOK'
    BY <1>2, <1>5 DEF DuplicateBlock
  <1>6. ASSUME NEW secs \in Durations, StartExtension(p, t, secs) PROVE TypeOK'
    <2>1. secs \in Nat /\ Expires(secs) \in Nat
      BY DurationsAreNat, ExpiresIsPositive
    <2> QED BY <1>2, <1>6, <2>1 DEF StartExtension, Claim
  <1>7. ASSUME NEW secs \in Durations, StartBlock(p, t, secs) PROVE TypeOK'
    <2>1. secs \in Nat /\ Expires(secs) \in Nat
      BY DurationsAreNat, ExpiresIsPositive
    <2> QED BY <1>2, <1>7, <2>1 DEF StartBlock, PutEntry, Claim
  <1> QED BY <1>1, <1>3, <1>4, <1>5, <1>6, <1>7

LEMMA ProcStepKeepsType ==
  ASSUME TypeOK, NEW p \in Procs, ProcStep(p)
  PROVE  TypeOK'
  <1> USE DEF TypeOK, SetFrame, Goto, Reply, Frame, calls, loop, agent, firewall,
              Replies, BlockSteps, ExtendSteps, UnblockSteps
  <1>1. /\ ip[p] \in Targets /\ ttl[p] \in Nat /\ until[p] \in Nat /\ prev[p] \in Nat
        /\ Expires(ttl[p]) \in Nat /\ RemainingSecs(prev[p]) \in Int
        /\ AnyTarget \in Targets
    BY AnyTargetIsTarget, EnforcerAssumption DEF Expires, RemainingSecs
  <1>2. ASSUME NEW e \in Nat, WriteBan(ip[p], e)
        PROVE  bans' \in [Targets -> Nat] /\ faults' \in 0..MaxFaults
    BY <1>1, <1>2, StoreType
  <1>3. ASSUME NEW secs \in Int,
               \/ FwBlock(ip[p], secs) \/ FwBlockFails(ip[p], secs) \/ FwUnblock(ip[p])
        PROVE  /\ runtime' \in [Targets -> Nat] /\ permanent' \subseteq Targets
               /\ faults' \in 0..MaxFaults
    BY <1>1, <1>3, FirewallType
  <1>4. CASE BlockStep(p)
    <2>1. CASE SaveNewBan(p)
      BY <1>1, <1>2, <2>1 DEF SaveNewBan, SaveBan
    <2>2. CASE AddNewRule(p)
      BY <1>1, <1>3, <2>2 DEF AddNewRule
    <2>3. CASE SilenceNewBan(p)
      BY <1>1, <2>3 DEF SilenceNewBan, Silence
    <2>4. CASE UndoMap(p)
      BY <1>1, <2>4 DEF UndoMap, DropEntries
    <2>5. CASE UndoStore(p)
      BY <1>1, <1>2, <2>5 DEF UndoStore, DeleteBan
    <2> QED BY <1>4, <2>1, <2>2, <2>3, <2>4, <2>5 DEF BlockStep
  <1>5. CASE ExtendStep(p)
    <2>1. CASE SaveExtension(p)
      BY <1>1, <1>2, <2>1 DEF SaveExtension, SaveBan
    <2>2. CASE RemoveOldRule(p)
      BY <1>1, <1>3, <2>2 DEF RemoveOldRule
    <2>3. CASE AddLongerRule(p)
      BY <1>1, <1>3, <2>3 DEF AddLongerRule
    <2>4. CASE RestoreRule(p)
      BY <1>1, <1>3, <2>4 DEF RestoreRule
    <2>5. CASE RestoreMap(p)
      BY <1>1, <2>5 DEF RestoreMap
    <2>6. CASE RestoreStore(p)
      BY <1>1, <1>2, <2>6 DEF RestoreStore, SaveBan
    <2> QED BY <1>5, <2>1, <2>2, <2>3, <2>4, <2>5, <2>6 DEF ExtendStep
  <1>6. CASE UnblockStep(p)
    <2>1. CASE UnblockStore(p)
      BY <1>1, <1>2, <2>1 DEF UnblockStore, DeleteBan
    <2>2. CASE UnblockSilence(p)
      BY <1>1, <2>2 DEF UnblockSilence, Unsilence
    <2>3. CASE UnblockRule(p)
      BY <1>1, <1>3, <2>3 DEF UnblockRule
    <2> QED BY <1>6, <2>1, <2>2, <2>3 DEF UnblockStep
  <1> QED BY <1>4, <1>5, <1>6 DEF ProcStep

LEMMA MaintenanceKeepsType ==
  ASSUME TypeOK, CollectExpired \/ StartReconcile \/ PassStep
  PROVE  TypeOK'
  <1> USE DEF TypeOK, calls, loop, agent, firewall, PassSteps
  <1>1. ASSUME NEW t \in Targets, NEW secs \in Int,
               FwBlock(t, secs) \/ FwBlockFails(t, secs) \/ FwUnblock(t)
        PROVE  /\ runtime' \in [Targets -> Nat] /\ permanent' \subseteq Targets
               /\ faults' \in 0..MaxFaults
    BY <1>1, FirewallType
  <1>2. ASSUME NEW missing \in SUBSET Targets, Continue(missing)
        PROVE  /\ work' \subseteq Targets /\ mpc' \in PassSteps
               /\ phase' \in {"down", "loading", "running"} /\ left' \in [Targets -> Nat]
    BY <1>2, ContinueType
  <1>3. CASE CollectExpired
    BY <1>3 DEF CollectExpired, Expired, DropEntries, Claim
  <1>4. CASE StartReconcile
    <2>1. work' \subseteq Targets /\ left' \in [Targets -> Nat]
      BY <1>4, SnapshotType DEF StartReconcile
    <2> QED BY <1>4, <2>1 DEF StartReconcile, Claim
  <1>5. CASE UnsilenceExpired
    BY <1>5 DEF UnsilenceExpired, Unsilence
  <1>6. CASE ListRules
    <2>1. Missing(work) \in SUBSET Targets /\ {} \in SUBSET Targets
      BY DEF Missing
    <2>2. faults' \in 0..MaxFaults
      BY <1>6, EnforcerAssumption DEF ListRules, Fault
    <2> QED BY <1>2, <1>6, <2>1, <2>2 DEF ListRules
  <1>7. CASE ReapplyRule
    <2>1. left[cur] \in Int /\ work \ {cur} \in SUBSET Targets
      OBVIOUS
    <2> QED BY <1>1, <1>2, <1>7, <2>1 DEF ReapplyRule
  <1>8. ASSUME NEW t \in Targets, UnbanRule(t) PROVE TypeOK'
    BY <1>1, <1>8 DEF UnbanRule
  <1>9. ASSUME NEW t \in Targets, ForgetBan(t) PROVE TypeOK'
    <2>1. bans' \in [Targets -> Nat] /\ faults' \in 0..MaxFaults
      BY <1>9, StoreType DEF ForgetBan, DeleteBan
    <2> QED BY <1>9, <2>1 DEF ForgetBan
  <1>10. ASSUME NEW t \in Targets, RecheckTarget(t) PROVE TypeOK'
    <2>1. work \ {t} \in SUBSET Targets
      OBVIOUS
    <2> QED BY <1>2, <1>10, <2>1 DEF RecheckTarget
  <1> QED BY <1>3, <1>4, <1>5, <1>6, <1>7, <1>8, <1>9, <1>10 DEF PassStep

LEMMA EnvironmentKeepsType ==
  ASSUME TypeOK, PruneExpiredBans \/ Flush \/ Crash \/ Load \/ Tick
  PROVE  TypeOK'
  <1> USE DEF TypeOK, calls, loop, agent, firewall, PassSteps, Replies
  <1>1. ASSUME NEW kind, Fault(kind) PROVE faults' \in 0..MaxFaults
    BY <1>1, EnforcerAssumption DEF Fault
  <1>2. ASSUME NEW map \in [Targets -> Nat], Restore(map)
        PROVE  /\ blockedIPs' \in [Targets -> Nat] /\ blockedNets' \subseteq Nets
               /\ silenced' \subseteq Targets
    BY <1>2 DEF Restore
  <1>3. CASE PruneExpiredBans
    BY <1>3 DEF PruneExpiredBans
  <1>4. CASE Flush
    BY <1>1, <1>4, EnforcerAssumption DEF Flush
  <1>5. CASE Crash
    BY <1>1, <1>5, AnyTargetIsTarget DEF Crash
  <1>6. CASE LoadBansFromStore
    <2>1. ActiveBans \in [Targets -> Nat]
      BY DEF ActiveBans
    <2>2. work' \subseteq Targets /\ left' \in [Targets -> Nat]
      BY <1>6, <2>1, SnapshotType DEF LoadBansFromStore
    <2> QED BY <1>2, <1>6, <2>1, <2>2 DEF LoadBansFromStore
  <1>7. CASE LoadBansFromFirewall
    <2>1. Expires(BanSeconds) \in Nat
      BY ExpiresIsPositive, EnforcerAssumption
    <2>2. /\ [t \in Targets |-> IF runtime[t] # 0 THEN Expires(BanSeconds) ELSE 0]
               \in [Targets -> Nat]
          /\ [t \in Targets |-> 0] \in [Targets -> Nat]
      BY <2>1
    <2>3. faults' \in 0..MaxFaults
      BY <1>1, <1>7 DEF LoadBansFromFirewall
    <2> QED BY <1>2, <1>7, <2>2, <2>3 DEF LoadBansFromFirewall
  <1>8. CASE Tick
    BY <1>8, EnforcerAssumption DEF Tick
  <1> QED BY <1>3, <1>4, <1>5, <1>6, <1>7, <1>8 DEF Load

LEMMA NextKeepsType == TypeOK /\ [Next]_vars => TypeOK'
  <1> SUFFICES ASSUME TypeOK, [Next]_vars PROVE TypeOK'
    OBVIOUS
  <1>1. CASE UNCHANGED vars
    BY <1>1 DEF vars, agent, firewall, calls, loop, TypeOK
  <1>2. CASE Next
    BY <1>2, RequestKeepsType, ProcStepKeepsType, MaintenanceKeepsType,
       EnvironmentKeepsType DEF Next
  <1> QED BY <1>1, <1>2

\* Every variable keeps its type: in particular no expiry, row or rule ever
\* becomes negative, through overflowed rollbacks of expired bans included.
THEOREM TypeCorrect == Spec => []TypeOK
  <1>1. Init => TypeOK
    BY InitType
  <1>2. TypeOK /\ [Next]_vars => TypeOK'
    BY NextKeepsType
  <1> QED BY <1>1, <1>2, PTL DEF Spec

-----------------------------------------------------------------------------
(* Who works on a target.  The history variable raced is sound: when a     *)
(* goroutine is inside an operation on a target that is not in it, no other *)
(* goroutine is inside one.  All that follows rests on this.               *)

Exclusion ==
    /\ phase # "running" => \A p \in Procs : Idle(p)
    /\ (phase = "down" => mpc = "idle") /\ (mpc = "idle" => work = {})
    /\ \A p, q \in Procs : p # q /\ ~Idle(p) /\ ~Idle(q) /\ ip[p] = ip[q] => ip[p] \in raced
    /\ \A p \in Procs : ~Idle(p) /\ ip[p] \in work => ip[p] \in raced
    /\ mpc \in {"forget", "unsilence", "reapply"} => cur \in work

LEMMA InitExclusion == Init => Exclusion
  BY DEF Init, Exclusion, Idle, Replies

\* A goroutine inside an operation keeps its target or is done with it, and
\* touches neither the other goroutines nor the history.
LEMMA ProcStepFrame ==
  ASSUME TypeOK, NEW p \in Procs, ProcStep(p)
  PROVE  /\ ~Idle(p)
         /\ \A q \in Procs : q # p => pc'[q] = pc[q] /\ ip'[q] = ip[q]
                                      /\ prev'[q] = prev[q]
         /\ pc'[p] \in Replies \/ (ip'[p] = ip[p] /\ prev'[p] = prev[p])
         /\ UNCHANGED <<now, phase, mpc, work, cur, raced>>
  BY DEF ProcStep, BlockStep, ExtendStep, UnblockStep, SaveNewBan, AddNewRule,
         SilenceNewBan, UndoMap, UndoStore, SaveExtension, RemoveOldRule,
         AddLongerRule, RestoreRule, RestoreMap, RestoreStore, UnblockStore,
         UnblockSilence, UnblockRule, Goto, Reply, SetFrame, Frame, calls, loop,
         TypeOK, Idle, Replies

\* A request claims its target before the goroutine enters the operation.
LEMMA RequestFrame ==
  ASSUME TypeOK, NEW p \in Procs, Request(p)
  PROVE  /\ phase = "running" /\ Idle(p)
         /\ \A q \in Procs : q # p => pc'[q] = pc[q] /\ ip'[q] = ip[q]
                                      /\ prev'[q] = prev[q]
         /\ raced \subseteq raced'
         /\ pc'[p] \in Replies \/ (Busy(ip'[p]) => ip'[p] \in raced')
         /\ UNCHANGED <<now, phase, mpc, work, cur, silenced>>
  BY DEF Request, StartUnblock, SkipBlock, DuplicateBlock, StartExtension, StartBlock,
         Accept, Claim, Goto, SetFrame, Frame, loop, TypeOK, Idle, Replies

LEMMA NextKeepsExclusion == TypeOK /\ Exclusion /\ [Next]_vars => Exclusion'
  <1> SUFFICES ASSUME TypeOK, Exclusion, [Next]_vars PROVE Exclusion'
    OBVIOUS
  <1> USE DEF Exclusion
  <1>1. ASSUME NEW p \in Procs, Request(p) PROVE Exclusion'
    BY <1>1, RequestFrame DEF Idle, Busy
  <1>2. ASSUME NEW p \in Procs, ProcStep(p) PROVE Exclusion'
    BY <1>2, ProcStepFrame DEF Idle
  <1>3. CASE CollectExpired
    BY <1>3 DEF CollectExpired, Claim, Busy, calls, Idle
  <1>4. CASE StartReconcile
    BY <1>4 DEF StartReconcile, Claim, Busy, calls, Idle, Snapshot, Live
  <1>5. CASE PassStep
    BY <1>5 DEF PassStep, UnsilenceExpired, ListRules, ReapplyRule, UnbanRule,
       ForgetBan, RecheckTarget, Continue, Missing, calls, Idle, TypeOK
  <1>6. CASE PruneExpiredBans \/ Flush \/ Crash \/ Tick
    BY <1>6 DEF PruneExpiredBans, Flush, Crash, Tick, calls, loop, Idle, Replies
  <1>7. CASE Load
    BY <1>7 DEF Load, LoadBansFromStore, LoadBansFromFirewall, calls, loop, Idle
  <1>8. CASE UNCHANGED vars
    BY <1>8 DEF vars, calls, loop, Idle
  <1> QED BY <1>1, <1>2, <1>3, <1>4, <1>5, <1>6, <1>7, <1>8 DEF Next

-----------------------------------------------------------------------------
(* The map and its CIDR index.                                             *)

Indexed ==
    /\ IndexAgrees
    /\ \A p \in Procs : pc[p] \in ExtendSteps =>
          prev[p] # 0 /\ (ip[p] \notin raced => blockedIPs[ip[p]] # 0)

LEMMA InitIndexed == Init => Indexed
  BY EnforcerAssumption DEF Init, Indexed, IndexAgrees, Replies, ExtendSteps

LEMMA NextKeepsIndexed == TypeOK /\ Exclusion /\ Indexed /\ [Next]_vars => Indexed'
  <1> SUFFICES ASSUME TypeOK, Exclusion, Indexed, [Next]_vars PROVE Indexed'
    OBVIOUS
  <1> USE DEF Indexed, IndexAgrees, ExtendSteps
  <1>1. ASSUME NEW p \in Procs, Request(p) PROVE Indexed'
    <2>1. \A q \in Procs : q # p => pc'[q] = pc[q] /\ ip'[q] = ip[q] /\ prev'[q] = prev[q]
      BY <1>1, RequestFrame
    <2>2. PICK t \in Targets :
            \/ StartUnblock(p, t)
            \/ \E secs \in Durations :
                  \/ SkipBlock(p, t, secs) \/ DuplicateBlock(p, t, secs)
                  \/ StartExtension(p, t, secs) \/ StartBlock(p, t, secs)
      BY <1>1 DEF Request
    <2>3. CASE StartUnblock(p, t)
      BY <2>1, <2>3, EnforcerAssumption
         DEF StartUnblock, Accept, DropEntries, Claim, Busy, Goto, Idle, Replies, TypeOK
    <2>4. ASSUME NEW secs \in Durations, SkipBlock(p, t, secs) \/ DuplicateBlock(p, t, secs)
          PROVE  Indexed'
      BY <2>1, <2>4 DEF SkipBlock, DuplicateBlock, Goto, Frame, agent, TypeOK
    <2>5. ASSUME NEW secs \in Durations, StartExtension(p, t, secs) PROVE Indexed'
      <3>1. Expires(secs) # 0 /\ blockedIPs[t] # 0
        BY <2>5, DurationsAreNat, ExpiresIsPositive DEF StartExtension, Live, TypeOK
      <3> QED BY <2>1, <2>5, <3>1 DEF StartExtension, Claim, Goto, SetFrame, TypeOK
    <2>6. ASSUME NEW secs \in Durations, StartBlock(p, t, secs) PROVE Indexed'
      <3>1. Expires(secs) # 0
        BY DurationsAreNat, ExpiresIsPositive
      <3> QED BY <2>1, <2>6, <3>1 DEF StartBlock, PutEntry, Claim, Goto, SetFrame, TypeOK
    <2> QED BY <2>2, <2>3, <2>4, <2>5, <2>6
  <1>2. ASSUME NEW p \in Procs, ProcStep(p) PROVE Indexed'
    <2>1. /\ ~Idle(p) /\ UNCHANGED <<raced, work>>
          /\ \A q \in Procs : q # p => pc'[q] = pc[q] /\ ip'[q] = ip[q] /\ prev'[q] = prev[q]
          /\ pc'[p] \in Replies \/ (ip'[p] = ip[p] /\ prev'[p] = prev[p])
      BY <1>2, ProcStepFrame
    <2>2. CASE UndoMap(p)
      BY <2>1, <2>2, EnforcerAssumption
         DEF UndoMap, DropEntries, Goto, Idle, Replies, Exclusion, TypeOK
    <2>3. CASE RestoreMap(p)
      BY <2>1, <2>3 DEF RestoreMap, Goto, Idle, Replies, Exclusion, TypeOK
    <2>4. CASE ~UndoMap(p) /\ ~RestoreMap(p)
      <3>1. UNCHANGED agent /\ (pc'[p] \in ExtendSteps => pc[p] \in ExtendSteps)
        BY <1>2, <2>4 DEF ProcStep, BlockStep, ExtendStep, UnblockStep, SaveNewBan,
           AddNewRule, SilenceNewBan, UndoStore, SaveExtension, RemoveOldRule,
           AddLongerRule, RestoreRule, RestoreStore, UnblockStore, UnblockSilence,
           UnblockRule, Goto, Reply, TypeOK
      <3> QED BY <2>1, <3>1 DEF agent, Replies
    <2> QED BY <2>2, <2>3, <2>4
  <1>3. CASE CollectExpired
    BY <1>3, EnforcerAssumption
       DEF CollectExpired, DropEntries, Claim, Busy, calls, Idle, Replies, TypeOK
  <1>4. CASE StartReconcile
    BY <1>4 DEF StartReconcile, Claim, agent, calls
  <1>5. CASE PassStep
    BY <1>5 DEF PassStep, UnsilenceExpired, ListRules, ReapplyRule, UnbanRule,
       ForgetBan, RecheckTarget, agent, calls
  <1>6. CASE PruneExpiredBans \/ Flush \/ Tick \/ UNCHANGED vars
    BY <1>6 DEF PruneExpiredBans, Flush, Tick, agent, calls, vars
  <1>7. CASE Crash
    BY <1>7, EnforcerAssumption DEF Crash, Replies, TypeOK
  <1>8. CASE Load
    <2>1. phase = "down" /\ UNCHANGED <<raced, pc>> /\ \A p \in Procs : pc[p] \notin ExtendSteps
      BY <1>8 DEF Load, LoadBansFromStore, LoadBansFromFirewall, calls, Exclusion, Idle, Replies
    <2>2. \A t \in blockedNets' : blockedIPs'[t] # 0
      BY <1>8 DEF Load, LoadBansFromStore, LoadBansFromFirewall, Restore
    <2>3. \A t \in Nets : blockedIPs'[t] # 0 => t \in blockedNets'
      BY <1>8 DEF Load, LoadBansFromStore, LoadBansFromFirewall, Restore
    <2> QED BY <2>1, <2>2, <2>3
  <1> QED BY <1>1, <1>2, <1>3, <1>4, <1>5, <1>6, <1>7, <1>8 DEF Next

\* What all the invariants below share.
Sound == TypeOK /\ Exclusion /\ Indexed

LEMMA SoundInvariant == Spec => []Sound
  <1>1. Init => Sound
    BY InitType, InitExclusion, InitIndexed DEF Sound
  <1>2. Sound /\ [Next]_vars => Sound'
    BY NextKeepsType, NextKeepsExclusion, NextKeepsIndexed DEF Sound
  <1> QED BY <1>1, <1>2, PTL DEF Spec

\* The CIDR index of IsBlocked never names a range the map has dropped, and
\* names every banned range that two goroutines never worked on at once, for
\* any number of goroutines and any faults (enforcer.go:745).
THEOREM IndexCorrect == Spec => []IndexAgrees
  <1>1. Sound => IndexAgrees
    BY DEF Sound, Indexed
  <1> QED BY <1>1, SoundInvariant, PTL

-----------------------------------------------------------------------------
(* The map and the silenced list.                                          *)

\* A new ban is silenced last: until then its goroutine stands for it.
Entering(t) == \E p \in Procs : ip[p] = t /\ pc[p] \in {"save", "rule", "silence", "undoMap"}

BansSilenced ==
    \A t \in Targets \ raced :
        /\ blockedIPs[t] # 0 => t \in silenced \/ Entering(t)
        /\ \A p \in Procs : ip[p] = t /\ pc[p] \in {"unStore", "unSilence"} => blockedIPs[t] = 0
        /\ t \in work /\ mpc \in {"unban", "forget", "unsilence"} => blockedIPs[t] = 0

LEMMA InitBansSilenced == Init => BansSilenced
  BY DEF Init, BansSilenced

\* An extension works on a ban whose block was over, hence on a silenced one.
LEMMA ExtendedIsSilenced ==
  ASSUME TypeOK, Exclusion, Indexed, BansSilenced,
         NEW p \in Procs, pc[p] \in ExtendSteps, ip[p] \notin raced
  PROVE  ip[p] \in silenced
  BY DEF TypeOK, Exclusion, Indexed, BansSilenced, Entering, Idle, Replies, ExtendSteps

LEMMA NextKeepsBansSilenced == Sound /\ BansSilenced /\ [Next]_vars => BansSilenced'
  <1> SUFFICES ASSUME Sound, BansSilenced, [Next]_vars PROVE BansSilenced'
    OBVIOUS
  <1> USE DEF Sound, BansSilenced, Entering
  <1>1. ASSUME NEW p \in Procs, Request(p) PROVE BansSilenced'
    <2>1. /\ \A q \in Procs : q # p => pc'[q] = pc[q] /\ ip'[q] = ip[q]
          /\ Idle(p) /\ raced \subseteq raced' /\ UNCHANGED <<mpc, work, silenced>>
          /\ pc'[p] \in Replies \/ (Busy(ip'[p]) => ip'[p] \in raced')
      BY <1>1, RequestFrame
    <2>2. PICK t \in Targets :
            \/ StartUnblock(p, t)
            \/ \E secs \in Durations :
                  \/ SkipBlock(p, t, secs) \/ DuplicateBlock(p, t, secs)
                  \/ StartExtension(p, t, secs) \/ StartBlock(p, t, secs)
      BY <1>1 DEF Request
    <2>3. CASE StartUnblock(p, t)
      BY <2>1, <2>3 DEF StartUnblock, DropEntries, Goto, SetFrame, Idle, Replies, TypeOK
    <2>4. ASSUME NEW secs \in Durations, SkipBlock(p, t, secs) \/ DuplicateBlock(p, t, secs)
          PROVE  BansSilenced'
      BY <2>1, <2>4 DEF SkipBlock, DuplicateBlock, Goto, Frame, agent, Idle, Replies, TypeOK
    <2>5. ASSUME NEW secs \in Durations, StartExtension(p, t, secs) PROVE BansSilenced'
      <3>1. blockedIPs[t] # 0
        BY <2>5 DEF StartExtension, Live, TypeOK
      <3> QED BY <2>1, <2>5, <3>1 DEF StartExtension, Claim, Busy, Goto, SetFrame,
              Idle, Replies, TypeOK
    <2>6. ASSUME NEW secs \in Durations, StartBlock(p, t, secs) PROVE BansSilenced'
      BY <2>1, <2>6 DEF StartBlock, PutEntry, Claim, Busy, Goto, SetFrame, Idle, Replies, TypeOK
    <2> QED BY <2>2, <2>3, <2>4, <2>5, <2>6
  <1>2. ASSUME NEW p \in Procs, ProcStep(p) PROVE BansSilenced'
    <2>1. /\ ~Idle(p) /\ UNCHANGED <<raced, work, mpc>>
          /\ \A q \in Procs : q # p => pc'[q] = pc[q] /\ ip'[q] = ip[q]
          /\ pc'[p] \in Replies \/ ip'[p] = ip[p]
      BY <1>2, ProcStepFrame
    <2>2. CASE UndoMap(p)
      BY <2>1, <2>2 DEF UndoMap, DropEntries, Goto, TypeOK
    <2>3. CASE RestoreMap(p)
      <3>1. ip[p] \notin raced => ip[p] \in silenced
        BY <2>3, ExtendedIsSilenced DEF RestoreMap, ExtendSteps
      <3> QED BY <2>1, <2>3, <3>1 DEF RestoreMap, Goto, Idle, Replies, Exclusion, TypeOK
    <2>4. CASE SilenceNewBan(p)
      BY <2>1, <2>4 DEF SilenceNewBan, Silence, Reply, Goto, agent, Replies, TypeOK
    <2>5. CASE UnblockSilence(p)
      BY <2>1, <2>5 DEF UnblockSilence, Unsilence, Goto, agent, TypeOK
    <2>6. CASE SaveNewBan(p) \/ AddNewRule(p)
      BY <2>1, <2>6 DEF SaveNewBan, AddNewRule, Goto, Frame, agent, TypeOK
    <2>7. CASE \/ UndoStore(p) \/ UnblockStore(p) \/ UnblockRule(p)
               \/ ExtendStep(p) /\ ~RestoreMap(p)
      <3>1. UNCHANGED <<blockedIPs, silenced>>
        BY <2>7 DEF UndoStore, ExtendStep, SaveExtension, RemoveOldRule, AddLongerRule,
           RestoreRule, RestoreStore, UnblockStore, UnblockRule, agent
      <3>2. /\ pc[p] \notin {"save", "rule", "silence", "undoMap"}
            /\ pc'[p] \in {"unStore", "unSilence"} => pc[p] = "unStore"
        BY <2>7 DEF UndoStore, ExtendStep, SaveExtension, RemoveOldRule, AddLongerRule,
           RestoreRule, RestoreStore, UnblockStore, UnblockRule, Goto, Reply, TypeOK
      <3> QED BY <2>1, <3>1, <3>2 DEF Replies
    <2> QED BY <1>2, <2>2, <2>3, <2>4, <2>5, <2>6, <2>7
            DEF ProcStep, BlockStep, UnblockStep
  <1>3. CASE CollectExpired
    BY <1>3 DEF CollectExpired, DropEntries, Claim, calls, TypeOK
  <1>4. CASE StartReconcile
    BY <1>4 DEF StartReconcile, Claim, agent, calls
  <1>5. CASE UnsilenceExpired
    BY <1>5 DEF UnsilenceExpired, Unsilence, Exclusion, agent, calls
  <1>6. CASE PassStep /\ ~UnsilenceExpired
    <2>1. /\ UNCHANGED <<blockedIPs, silenced, pc, ip, raced>> /\ work' \subseteq work
          /\ mpc' \in {"unban", "forget", "unsilence"} => mpc \in {"unban", "forget", "unsilence"}
      BY <1>6 DEF PassStep, ListRules, ReapplyRule, UnbanRule, ForgetBan, RecheckTarget,
         Continue, Missing, agent, calls
    <2> QED BY <2>1
  <1>7. CASE PruneExpiredBans \/ Flush \/ Tick \/ UNCHANGED vars
    BY <1>7 DEF PruneExpiredBans, Flush, Tick, agent, calls, loop, vars
  <1>8. CASE Crash
    BY <1>8 DEF Crash, TypeOK
  <1>9. CASE Load
    <2>1. /\ \A t \in Targets : blockedIPs'[t] # 0 => t \in silenced'
          /\ UNCHANGED <<pc, ip, raced>>
          /\ mpc' \in {"idle", "list"} \/ UNCHANGED <<mpc, work>>
      BY <1>9 DEF Load, LoadBansFromStore, LoadBansFromFirewall, Restore, calls, loop
    <2>2. work = {} /\ \A p \in Procs : pc[p] \notin {"unStore", "unSilence"}
      BY <1>9 DEF Load, LoadBansFromStore, LoadBansFromFirewall, Exclusion, Idle, Replies
    <2> QED BY <2>1, <2>2
  <1> QED BY <1>1, <1>2, <1>3, <1>4, <1>5, <1>6, <1>7, <1>8, <1>9 DEF Next

LEMMA BansSilencedInvariant == Spec => [](Sound /\ BansSilenced)
  <1>1. Init => Sound /\ BansSilenced
    BY InitType, InitExclusion, InitIndexed, InitBansSilenced DEF Sound
  <1>2. Sound /\ BansSilenced /\ [Next]_vars => (Sound /\ BansSilenced)'
    BY NextKeepsType, NextKeepsExclusion, NextKeepsIndexed, NextKeepsBansSilenced DEF Sound
  <1> QED BY <1>1, <1>2, PTL DEF Spec

\* Whatever fails and whatever other goroutines do to other targets, the engine
\* ignores the events of a banned target once its block is over, after a
\* restart included: it is not banned twice (enforcer.go:436, 948, 989).
THEOREM BannedStaysSilenced == Spec => []BannedIsSilenced
  <1>1. Sound /\ BansSilenced => BannedIsSilenced
    BY DEF Sound, BansSilenced, BannedIsSilenced, Settled, Entering, Busy, Idle, Replies, TypeOK
  <1> QED BY <1>1, BansSilencedInvariant, PTL

-----------------------------------------------------------------------------
(* The map and the store.  From here on an operation is followed on its own *)
(* target: the others are out of its reach.                                *)

\* The pass of unbanExpired has taken t out of the map and is not done with it.
Unbanning(t) == t \in work /\ mpc \in {"unban", "forget", "unsilence"}
Owned(t) == Unbanning(t) \/ \E p \in Procs : ~Idle(p) /\ ip[p] = t

RowAgrees(t) ==
    /\ Live(t) => bans[t] >= blockedIPs[t]
    /\ bans[t] > now => blockedIPs[t] # 0

\* The row is at least as long as the entry the goroutine has made.
RowLasts(p) == now < until[p] => bans[ip[p]] >= until[p]

\* How far a block, an extension and an unblock have got.
BlockProgress(p) ==
    /\ pc[p] \in BlockSteps => prev[p] = 0 /\ until[p] # 0
    /\ pc[p] \in {"save", "rule", "silence"} => blockedIPs[ip[p]] = until[p]
    /\ pc[p] \in {"rule", "silence"} => RowLasts(p)
    /\ pc[p] = "undoStore" => blockedIPs[ip[p]] = 0

ExtendProgress(p) ==
    /\ pc[p] \in ExtendSteps => until[p] # 0 /\ until[p] <= Expires(ttl[p])
    /\ pc[p] \in {"extSave", "extRemove", "extRule"} => blockedIPs[ip[p]] = until[p]
    /\ pc[p] \in {"extRemove", "extRule"} => RowLasts(p)
    /\ pc[p] = "extRestoreStore" => blockedIPs[ip[p]] = prev[p]

UnblockProgress(p) ==
    /\ pc[p] \in UnblockSteps => blockedIPs[ip[p]] = 0
    /\ pc[p] \in {"unSilence", "unRule"} => bans[ip[p]] = 0

Progress(p) == BlockProgress(p) /\ ExtendProgress(p) /\ UnblockProgress(p)

StoreTrue ==
    /\ \A t \in Targets \ raced : phase # "down" /\ ~Owned(t) => RowAgrees(t)
    /\ \A p \in Procs : ip[p] \notin raced => Progress(p)
    /\ \A t \in Targets \ raced : Unbanning(t) => blockedIPs[t] = 0
    /\ mpc = "unsilence" /\ cur \notin raced => bans[cur] = 0

LEMMA IdleProgress == ASSUME NEW p \in Procs, Idle(p) PROVE Progress(p)
  BY DEF Idle, Progress, BlockProgress, ExtendProgress, UnblockProgress, Replies,
     BlockSteps, ExtendSteps, UnblockSteps

LEMMA InitStoreTrue == Init => StoreTrue
  <1> SUFFICES ASSUME Init PROVE StoreTrue
    OBVIOUS
  <1>1. \A p \in Procs : Progress(p)
    BY IdleProgress DEF Init, Idle, Replies
  <1>2. \A t \in Targets : RowAgrees(t)
    BY EnforcerAssumption DEF Init, RowAgrees, Live
  <1> QED BY <1>1, <1>2 DEF Init, StoreTrue, Unbanning

\* A step inside an operation changes the entry, the row, the rule and the
\* silence of its own target only.
LEMMA ProcStepLocal ==
  ASSUME TypeOK, NEW p \in Procs, ProcStep(p), NEW t \in Targets, t # ip[p]
  PROVE  /\ blockedIPs'[t] = blockedIPs[t] /\ bans'[t] = bans[t]
         /\ runtime'[t] = runtime[t] /\ (t \in silenced' <=> t \in silenced)
         /\ t \in permanent' => t \in permanent
  <1>1. ip[p] \in Targets
    BY DEF TypeOK
  <1>2. \A e : WriteBan(ip[p], e) => bans'[t] = bans[t]
    BY <1>1 DEF WriteBan, TypeOK
  <1>3. \A secs :
          FwBlock(ip[p], secs) \/ FwBlockFails(ip[p], secs) \/ FwUnblock(ip[p]) =>
             runtime'[t] = runtime[t] /\ (t \in permanent' => t \in permanent)
    BY <1>1, FirewallFrame
  <1>4. CASE BlockStep(p)
    BY <1>1, <1>2, <1>3, <1>4 DEF BlockStep, SaveNewBan, SaveBan, AddNewRule,
       SilenceNewBan, Silence, UndoMap, DropEntries, UndoStore, DeleteBan, agent, firewall, TypeOK
  <1>5. CASE ExtendStep(p)
    BY <1>1, <1>2, <1>3, <1>5 DEF ExtendStep, SaveExtension, SaveBan, RemoveOldRule,
       AddLongerRule, RestoreRule, RestoreMap, RestoreStore, agent, firewall, TypeOK
  <1>6. CASE UnblockStep(p)
    BY <1>1, <1>2, <1>3, <1>6 DEF UnblockStep, UnblockStore, DeleteBan, UnblockSilence,
       Unsilence, UnblockRule, agent, firewall, TypeOK
  <1> QED BY <1>4, <1>5, <1>6 DEF ProcStep

LEMMA ProcStepKeepsFrame ==
  ASSUME TypeOK, NEW p \in Procs, ProcStep(p)
  PROVE  /\ \A q \in Procs : q # p => until'[q] = until[q] /\ ttl'[q] = ttl[q]
         /\ pc'[p] \in Replies \/ (until'[p] = until[p] /\ ttl'[p] = ttl[p])
  BY DEF ProcStep, BlockStep, ExtendStep, UnblockStep, SaveNewBan, AddNewRule,
         SilenceNewBan, UndoMap, UndoStore, SaveExtension, RemoveOldRule,
         AddLongerRule, RestoreRule, RestoreMap, RestoreStore, UnblockStore,
         UnblockSilence, UnblockRule, Goto, Reply, SetFrame, Frame, TypeOK, Replies

\* A goroutine on another target, or idle, has got as far as before.
LEMMA OthersKeepProgress ==
  ASSUME Sound, NEW p \in Procs, ProcStep(p),
         NEW q \in Procs, q # p, ip[q] \notin raced, Progress(q)
  PROVE  Progress(q)'
  <1>1. pc'[q] = pc[q] /\ ip'[q] = ip[q] /\ prev'[q] = prev[q] /\ now' = now /\ ~Idle(p)
    BY ProcStepFrame DEF Sound
  <1>2. until'[q] = until[q] /\ ttl'[q] = ttl[q]
    BY ProcStepKeepsFrame DEF Sound
  <1>3. CASE Idle(q)
    BY <1>1, <1>3 DEF Idle, Progress, BlockProgress, ExtendProgress, UnblockProgress,
       Replies, BlockSteps, ExtendSteps, UnblockSteps
  <1>4. CASE ~Idle(q)
    <2>1. ip[q] # ip[p] /\ ip[q] \in Targets
      BY <1>1, <1>4 DEF Sound, Exclusion, TypeOK
    <2>2. blockedIPs'[ip[q]] = blockedIPs[ip[q]] /\ bans'[ip[q]] = bans[ip[q]]
      BY <2>1, ProcStepLocal DEF Sound
    <2>3. BlockProgress(q)'
      BY <1>1, <1>2, <2>2 DEF Progress, BlockProgress, RowLasts
    <2>4. ExtendProgress(q)'
      BY <1>1, <1>2, <2>2 DEF Progress, ExtendProgress, RowLasts, Expires
    <2>5. UnblockProgress(q)'
      BY <1>1, <1>2, <2>2 DEF Progress, UnblockProgress
    <2> QED BY <2>3, <2>4, <2>5 DEF Progress
  <1> QED BY <1>3, <1>4

\* With a store that works, a write is done.
LEMMA WriteIsDone ==
  ASSUME TypeOK, HasStore, "store" \notin Faults, NEW t \in Targets, NEW e, WriteBan(t, e)
  PROVE  bans'[t] = e
  BY DEF WriteBan, Fault, TypeOK

\* The target of the goroutine that steps: it gets further, or it is done and
\* leaves map and store in agreement.
LEMMA StepKeepsProgress ==
  ASSUME Sound, HasStore, "store" \notin Faults,
         NEW p \in Procs, ProcStep(p), NEW t \in Targets, t = ip[p], t \notin raced,
         Progress(p)
  PROVE  IF pc'[p] \in Replies THEN RowAgrees(t)' ELSE Progress(p)'
  <1>1. TypeOK /\ ip[p] \in Targets
    BY DEF Sound, TypeOK
  <1>2. \A e : WriteBan(ip[p], e) => bans'[ip[p]] = e
    BY <1>1, WriteIsDone
  <1>3. pc[p] \in ExtendSteps => prev[p] # 0
    BY DEF Sound, Indexed
  <1>4. /\ blockedIPs[ip[p]] \in Nat /\ bans[ip[p]] \in Nat /\ until[p] \in Nat
        /\ prev[p] \in Nat /\ now \in Nat /\ Expires(ttl[p]) \in Nat
    BY <1>1, EnforcerAssumption DEF TypeOK, Expires
  <1> USE DEF Progress, BlockProgress, ExtendProgress, UnblockProgress, RowLasts,
              BlockSteps, ExtendSteps, UnblockSteps, Replies
  <1>5. CASE BlockStep(p)
    <2>1. CASE SaveNewBan(p)
      <3>1. bans'[ip[p]] = until[p]
        BY <1>2, <2>1 DEF SaveNewBan, SaveBan
      <3> QED BY <1>1, <1>4, <2>1, <3>1 DEF SaveNewBan, Goto, Frame, agent, TypeOK
    <2>2. CASE AddNewRule(p)
      BY <1>1, <2>2 DEF AddNewRule, Goto, Frame, agent, TypeOK
    <2>3. CASE SilenceNewBan(p)
      <3>1. RowAgrees(t)' /\ pc'[p] = "applied"
        BY <1>1, <1>4, <2>3 DEF SilenceNewBan, Reply, Goto, agent, RowAgrees, Live, TypeOK
      <3> QED BY <3>1
    <2>4. CASE UndoMap(p)
      BY <1>1, <2>4 DEF UndoMap, DropEntries, Goto, Frame, TypeOK
    <2>5. CASE UndoStore(p)
      <3>1. bans'[ip[p]] = 0
        BY <1>2, <2>5 DEF UndoStore, DeleteBan
      <3>2. RowAgrees(t)' /\ pc'[p] = "failed"
        BY <1>1, <1>4, <2>5, <3>1 DEF UndoStore, Reply, Goto, agent, RowAgrees, Live, TypeOK
      <3> QED BY <3>2
    <2> QED BY <1>5, <2>1, <2>2, <2>3, <2>4, <2>5 DEF BlockStep
  <1>6. CASE ExtendStep(p)
    <2>1. CASE SaveExtension(p)
      <3>1. bans'[ip[p]] = Expires(ttl[p])
        BY <1>2, <2>1 DEF SaveExtension, SaveBan
      <3> QED BY <1>1, <1>4, <2>1, <3>1 DEF SaveExtension, Goto, Frame, agent, Expires, TypeOK
    <2>2. CASE RemoveOldRule(p)
      BY <1>1, <2>2 DEF RemoveOldRule, Goto, Frame, agent, Expires, TypeOK
    <2>3. CASE AddLongerRule(p)
      BY <1>1, <1>4, <2>3 DEF AddLongerRule, Reply, Goto, Frame, agent, Expires,
         RowAgrees, Live, TypeOK
    <2>4. CASE RestoreRule(p)
      BY <1>1, <2>4 DEF RestoreRule, Goto, Frame, agent, Expires, TypeOK
    <2>5. CASE RestoreMap(p)
      BY <1>1, <2>5 DEF RestoreMap, Goto, Frame, Expires, TypeOK
    <2>6. CASE RestoreStore(p)
      <3>1. bans'[ip[p]] = prev[p]
        BY <1>2, <2>6 DEF RestoreStore, SaveBan
      <3>2. RowAgrees(t)' /\ pc'[p] = "failed"
        BY <1>1, <1>3, <1>4, <2>6, <3>1
           DEF RestoreStore, Reply, Goto, agent, RowAgrees, Live, TypeOK
      <3> QED BY <3>2
    <2> QED BY <1>6, <2>1, <2>2, <2>3, <2>4, <2>5, <2>6 DEF ExtendStep
  <1>7. CASE UnblockStep(p)
    <2>1. CASE UnblockStore(p)
      <3>1. bans'[ip[p]] = 0
        BY <1>2, <2>1 DEF UnblockStore, DeleteBan
      <3> QED BY <1>1, <2>1, <3>1 DEF UnblockStore, Goto, Frame, agent, TypeOK
    <2>2. CASE UnblockSilence(p)
      BY <1>1, <2>2 DEF UnblockSilence, Goto, Frame, agent, TypeOK
    <2>3. CASE UnblockRule(p)
      <3>1. RowAgrees(t)' /\ pc'[p] = "unblocked"
        BY <1>1, <1>4, <2>3 DEF UnblockRule, Reply, Goto, agent, RowAgrees, Live, TypeOK
      <3> QED BY <3>1
    <2> QED BY <1>7, <2>1, <2>2, <2>3 DEF UnblockStep
  <1> QED BY <1>5, <1>6, <1>7 DEF ProcStep

\* What the goroutine of an accepted request enters.
Enters(p) ==
    LET t == ip'[p] IN
    \/ pc'[p] = "unStore" /\ blockedIPs'[t] = 0
    \/ /\ pc'[p] = "extSave" /\ Live(t)
       /\ blockedIPs'[t] = until'[p] /\ prev'[p] = blockedIPs[t]
       /\ until'[p] > blockedIPs[t]
       /\ ttl'[p] \in Nat /\ until'[p] = Expires(ttl'[p])
    \/ /\ pc'[p] = "save" /\ ~Live(t)
       /\ blockedIPs'[t] = until'[p] /\ prev'[p] = 0
       /\ ttl'[p] \in Nat /\ until'[p] = Expires(ttl'[p])

\* A request is answered on the spot, or claims its target and enters an
\* operation on it; only the map changes, and only there.
LEMMA RequestEffect ==
  ASSUME TypeOK, NEW p \in Procs, Request(p)
  PROVE  /\ UNCHANGED <<bans, silenced, runtime, permanent>>
         /\ \A q \in Procs : q # p => until'[q] = until[q] /\ ttl'[q] = ttl[q]
         /\ \/ pc'[p] \in Replies /\ UNCHANGED <<blockedIPs, raced>>
            \/ /\ ip'[p] \in Targets /\ (Busy(ip'[p]) => ip'[p] \in raced')
               /\ \A u \in Targets : u # ip'[p] => blockedIPs'[u] = blockedIPs[u]
               /\ Enters(p)
  <1> USE DEF Accept, Goto, firewall, agent, Frame, SetFrame, TypeOK
  <1>1. PICK t \in Targets :
          \/ StartUnblock(p, t)
          \/ \E secs \in Durations :
                \/ SkipBlock(p, t, secs) \/ DuplicateBlock(p, t, secs)
                \/ StartExtension(p, t, secs) \/ StartBlock(p, t, secs)
    BY DEF Request
  <1>2. CASE StartUnblock(p, t)
    BY <1>2 DEF StartUnblock, DropEntries, Claim, Enters
  <1>3. ASSUME NEW secs \in Durations, SkipBlock(p, t, secs) \/ DuplicateBlock(p, t, secs)
        PROVE  /\ UNCHANGED <<bans, silenced, runtime, permanent, blockedIPs, raced, until, ttl>>
               /\ pc'[p] \in Replies
    BY <1>3 DEF SkipBlock, DuplicateBlock, Replies
  <1>4. ASSUME NEW secs \in Durations, StartExtension(p, t, secs)
        PROVE  /\ UNCHANGED <<bans, silenced, runtime, permanent>>
               /\ \A q \in Procs : q # p => until'[q] = until[q] /\ ttl'[q] = ttl[q]
               /\ ip'[p] = t /\ (Busy(t) => t \in raced') /\ Enters(p)
               /\ \A u \in Targets : u # t => blockedIPs'[u] = blockedIPs[u]
    <2>1. secs \in Nat /\ Expires(secs) \in Nat /\ Expires(secs) > blockedIPs[t]
      BY <1>4, DurationsAreNat, ExpiresIsPositive, EnforcerAssumption DEF StartExtension
    <2> QED BY <1>4, <2>1 DEF StartExtension, Claim, Enters
  <1>5. ASSUME NEW secs \in Durations, StartBlock(p, t, secs)
        PROVE  /\ UNCHANGED <<bans, silenced, runtime, permanent>>
               /\ \A q \in Procs : q # p => until'[q] = until[q] /\ ttl'[q] = ttl[q]
               /\ ip'[p] = t /\ (Busy(t) => t \in raced') /\ Enters(p)
               /\ \A u \in Targets : u # t => blockedIPs'[u] = blockedIPs[u]
    BY <1>5, DurationsAreNat DEF StartBlock, PutEntry, Claim, Enters
  <1> QED BY <1>1, <1>2, <1>3, <1>4, <1>5

LEMMA RequestKeepsStoreTrue ==
  ASSUME Sound, StoreTrue, NEW p \in Procs, Request(p)
  PROVE  StoreTrue'
  <1> USE DEF Sound
  <1>1. /\ \A q \in Procs : q # p => pc'[q] = pc[q] /\ ip'[q] = ip[q] /\ prev'[q] = prev[q]
                                     /\ until'[q] = until[q] /\ ttl'[q] = ttl[q]
        /\ phase = "running" /\ Idle(p) /\ raced \subseteq raced'
        /\ UNCHANGED <<now, phase, mpc, work, cur, bans>>
    BY RequestFrame, RequestEffect
  <1>2. CASE pc'[p] \in Replies /\ UNCHANGED <<blockedIPs, raced>>
    <2>1. ASSUME NEW q \in Procs, ip'[q] \notin raced' PROVE Progress(q)'
      <3>1. CASE q = p
        BY <1>2, <3>1 DEF Progress, BlockProgress, ExtendProgress, UnblockProgress,
           Replies, BlockSteps, ExtendSteps, UnblockSteps
      <3>2. CASE q # p
        <4>1. Progress(q)
          BY <1>1, <1>2, <2>1, <3>2 DEF StoreTrue
        <4> QED BY <1>1, <1>2, <3>2, <4>1 DEF Progress, BlockProgress, ExtendProgress,
                UnblockProgress, RowLasts, Expires
      <3> QED BY <3>1, <3>2
    <2>2. ASSUME NEW u \in Targets, ~Owned(u)' PROVE ~Owned(u)
      BY <1>1, <2>2 DEF Owned, Unbanning, Idle
    <2> QED BY <1>1, <1>2, <2>1, <2>2 DEF StoreTrue, Unbanning, RowAgrees, Live
  <1>3. CASE /\ ip'[p] \in Targets /\ (Busy(ip'[p]) => ip'[p] \in raced')
             /\ \A u \in Targets : u # ip'[p] => blockedIPs'[u] = blockedIPs[u]
             /\ Enters(p)
    <2>1. ASSUME ip'[p] \notin raced' PROVE Progress(p)'
      <3>1. ttl'[p] \in Nat => Expires(ttl'[p]) \in Nat /\ Expires(ttl'[p]) # 0
        BY ExpiresIsPositive
      <3>2. Expires(ttl[p])' = Expires(ttl'[p])
        BY <1>1 DEF Expires
      <3> QED BY <1>3, <3>1, <3>2 DEF Enters, Progress, BlockProgress, ExtendProgress,
              UnblockProgress, BlockSteps, ExtendSteps, UnblockSteps
    <2>2. ASSUME NEW q \in Procs, q # p, ip'[q] \notin raced' PROVE Progress(q)'
      <3>1. Progress(q)
        BY <1>1, <2>2 DEF StoreTrue
      <3>2. CASE Idle(q)
        BY <1>1, <2>2, <3>2, IdleProgress DEF Idle, Progress, BlockProgress, ExtendProgress,
           UnblockProgress, Replies, BlockSteps, ExtendSteps, UnblockSteps
      <3>3. CASE ~Idle(q)
        <4>1. ip[q] # ip'[p] /\ ip[q] \in Targets
          BY <1>1, <1>3, <2>2, <3>3 DEF Busy, TypeOK
        <4> QED BY <1>1, <1>3, <2>2, <3>1, <4>1 DEF Progress, BlockProgress, ExtendProgress,
                UnblockProgress, RowLasts, Expires
      <3> QED BY <3>2, <3>3
    <2>3. ASSUME NEW u \in Targets, ~Owned(u)' PROVE ~Owned(u) /\ u # ip'[p]
      <3>1. ~Idle(p)'
        BY <1>3 DEF Enters, Idle, Replies
      <3> QED BY <1>1, <2>3, <3>1 DEF Owned, Unbanning, Idle
    <2>4. ASSUME NEW u \in Targets \ raced', Unbanning(u)' PROVE blockedIPs'[u] = 0
      <3>1. u # ip'[p]
        BY <1>1, <1>3, <2>4 DEF Unbanning, Busy
      <3> QED BY <1>1, <1>3, <2>4, <3>1 DEF StoreTrue, Unbanning
    <2> QED BY <1>1, <1>3, <2>1, <2>2, <2>3, <2>4 DEF StoreTrue, RowAgrees, Live
  <1> QED BY <1>2, <1>3, RequestEffect

LEMMA ProcStepKeepsStoreTrue ==
  ASSUME Sound, StoreTrue, HasStore, "store" \notin Faults, NEW p \in Procs, ProcStep(p)
  PROVE  StoreTrue'
  <1> USE DEF Sound
  <1>1. /\ ~Idle(p)
        /\ \A q \in Procs : q # p => pc'[q] = pc[q] /\ ip'[q] = ip[q]
        /\ pc'[p] \in Replies \/ ip'[p] = ip[p]
        /\ UNCHANGED <<now, phase, mpc, work, cur, raced>>
    BY ProcStepFrame
  <1>2. ip[p] \in Targets
    BY DEF TypeOK
  <1>3. \A u \in Targets : u # ip[p] => blockedIPs'[u] = blockedIPs[u] /\ bans'[u] = bans[u]
    BY ProcStepLocal
  <1>4. ip[p] \notin raced =>
          IF pc'[p] \in Replies THEN \A t \in {ip[p]} : RowAgrees(t)' ELSE Progress(p)'
    BY <1>2, StepKeepsProgress DEF StoreTrue
  <1>5. ASSUME NEW q \in Procs, ip'[q] \notin raced' PROVE Progress(q)'
    <2>1. CASE q # p
      BY <1>1, <1>5, <2>1, OthersKeepProgress DEF StoreTrue
    <2>2. CASE q = p /\ pc'[p] \in Replies
      BY <2>2 DEF Progress, BlockProgress, ExtendProgress, UnblockProgress, Replies,
         BlockSteps, ExtendSteps, UnblockSteps
    <2>3. CASE q = p /\ pc'[p] \notin Replies
      BY <1>1, <1>4, <1>5, <2>3
    <2> QED BY <2>1, <2>2, <2>3
  <1>6. ASSUME NEW u \in Targets \ raced', phase' # "down", ~Owned(u)' PROVE RowAgrees(u)'
    <2>1. CASE u = ip[p]
      <3>1. pc'[p] \in Replies
        BY <1>1, <1>6, <2>1 DEF Owned, Idle
      <3> QED BY <1>1, <1>4, <1>6, <2>1, <3>1
    <2>2. CASE u # ip[p]
      <3>1. ~Owned(u)
        BY <1>1, <1>6, <2>2 DEF Owned, Unbanning, Idle
      <3> QED BY <1>1, <1>3, <1>6, <2>2, <3>1 DEF StoreTrue, RowAgrees, Live
    <2> QED BY <2>1, <2>2
  <1>7. ASSUME NEW u \in Targets \ raced', u \in work PROVE u # ip[p]
    BY <1>1, <1>7 DEF Exclusion
  <1>8. mpc = "unsilence" => cur \in work /\ cur \in Targets
    BY DEF Exclusion, TypeOK
  <1> QED BY <1>1, <1>3, <1>5, <1>6, <1>7, <1>8 DEF StoreTrue, Unbanning

\* The maintenance goroutine touches neither the map nor the requests.
LEMMA PassFrame ==
  ASSUME PassStep
  PROVE  /\ UNCHANGED <<now, blockedIPs, blockedNets, pc, ip, ttl, until, prev, raced>>
         /\ work' \subseteq work
         /\ phase' \in {phase, "running"}
  BY DEF PassStep, UnsilenceExpired, ListRules, ReapplyRule, UnbanRule, ForgetBan,
     RecheckTarget, Continue, Missing, agent, calls

LEMMA PassNeedsAgent ==
  ASSUME Exclusion, PassStep
  PROVE  phase # "down" /\ mpc # "idle"
  BY DEF Exclusion, PassStep, UnsilenceExpired, ListRules, ReapplyRule, UnbanRule,
     ForgetBan, RecheckTarget

\* Progress looks at the entry, the row and the request, and time only helps.
LEMMA ProgressIsStable ==
  ASSUME TypeOK, now' \in {now, now + 1}, NEW q \in Procs, Progress(q),
         UNCHANGED <<blockedIPs, pc, ip, ttl, until, prev>>,
         bans'[ip[q]] = bans[ip[q]]
           \/ (bans'[ip[q]] = 0 /\ (bans[ip[q]] <= now \/ Idle(q)))
  PROVE  Progress(q)'
  <1>1. /\ ip[q] \in Targets /\ until[q] \in Nat /\ bans[ip[q]] \in Nat
        /\ now \in Nat /\ ttl[q] \in Nat
    BY EnforcerAssumption DEF TypeOK
  <1>2. Expires(ttl[q]) <= Expires(ttl[q])'
    <2>1. /\ Expires(ttl[q]) = IF ttl[q] > 0 THEN now + ttl[q] ELSE Forever + now
          /\ Expires(ttl[q])' = IF ttl[q] > 0 THEN now' + ttl[q] ELSE Forever + now'
      BY DEF Expires
    <2>2. now' >= now /\ now' \in Nat /\ Forever \in Nat
      BY <1>1, EnforcerAssumption
    <2> QED BY <1>1, <2>1, <2>2
  <1>3. BlockProgress(q)'
    BY <1>1 DEF Progress, BlockProgress, RowLasts, Idle, Replies
  <1>4. ExtendProgress(q)'
    <2>1. Expires(ttl[q]) \in Nat /\ Expires(ttl[q])' \in Nat
      BY <1>1, EnforcerAssumption DEF Expires
    <2> QED BY <1>1, <1>2, <2>1 DEF Progress, ExtendProgress, RowLasts, Idle, Replies
  <1>5. UnblockProgress(q)'
    BY DEF Progress, UnblockProgress
  <1> QED BY <1>3, <1>4, <1>5 DEF Progress

LEMMA PassKeepsStoreTrue ==
  ASSUME Sound, StoreTrue, HasStore, "store" \notin Faults, PassStep
  PROVE  StoreTrue'
  <1> USE DEF Sound
  <1>1. /\ UNCHANGED <<now, blockedIPs, pc, ip, ttl, until, prev, raced>>
        /\ work' \subseteq work /\ phase # "down" /\ phase' # "down"
    BY PassFrame, PassNeedsAgent
  <1>2. CASE UnsilenceExpired
    <2>1. \A u \in Targets : ~Owned(u)' => ~Owned(u) \/ u = cur
      BY <1>1, <1>2 DEF UnsilenceExpired, Owned, Unbanning, Idle
    <2>2. cur \in Targets /\ cur \in work /\ UNCHANGED bans
      BY <1>2 DEF UnsilenceExpired, Exclusion, TypeOK
    <2>3. ASSUME cur \notin raced PROVE RowAgrees(cur)
      <3>1. bans[cur] = 0 /\ blockedIPs[cur] = 0 /\ now \in Nat
        BY <1>2, <2>2, <2>3, EnforcerAssumption DEF UnsilenceExpired, StoreTrue, Unbanning, TypeOK
      <3> QED BY <3>1 DEF RowAgrees, Live
    <2>4. \A u \in Targets \ raced' : phase' # "down" /\ ~Owned(u)' => RowAgrees(u)'
      BY <1>1, <2>1, <2>2, <2>3 DEF StoreTrue, RowAgrees, Live
    <2>5. \A q \in Procs : ip'[q] \notin raced' => Progress(q)'
      BY <1>1, <2>2, ProgressIsStable DEF StoreTrue
    <2>6. mpc' \in {"idle", "unban"}
      BY <1>2 DEF UnsilenceExpired
    <2>7. \A u \in Targets : Unbanning(u)' => Unbanning(u)
      BY <1>1, <1>2 DEF UnsilenceExpired, Unbanning
    <2> QED BY <1>1, <2>2, <2>4, <2>5, <2>6, <2>7 DEF StoreTrue
  <1>3. ASSUME NEW t \in Targets, ForgetBan(t) PROVE StoreTrue'
    <2>1. /\ bans'[t] = 0 /\ \A u \in Targets : u # t => bans'[u] = bans[u]
          /\ t \in work /\ cur' = t /\ mpc' = "unsilence" /\ work' = work
          /\ mpc \in {"unban", "forget"}
      BY <1>3, WriteIsDone DEF ForgetBan, DeleteBan, WriteBan, TypeOK
    <2>2. \A u \in Targets : Unbanning(u)' = Unbanning(u)
      BY <2>1 DEF Unbanning
    <2>3. \A u \in Targets : ~Owned(u)' => ~Owned(u) /\ u # t
      BY <1>1, <2>1, <2>2 DEF Owned, Unbanning, Idle
    <2>4. \A u \in Targets \ raced' : phase' # "down" /\ ~Owned(u)' => RowAgrees(u)'
      BY <1>1, <2>1, <2>3 DEF StoreTrue, RowAgrees, Live
    <2>5. ASSUME NEW q \in Procs, ip'[q] \notin raced' PROVE Progress(q)'
      <3>1. ip[q] = t => Idle(q)
        BY <1>1, <2>1, <2>5 DEF Exclusion
      <3>2. ip[q] \in Targets /\ Progress(q)
        BY <1>1, <2>5 DEF StoreTrue, TypeOK
      <3>3. CASE Idle(q)
        BY <1>1, <3>3 DEF Idle, Progress, BlockProgress, ExtendProgress, UnblockProgress,
           Replies, BlockSteps, ExtendSteps, UnblockSteps
      <3>4. CASE ~Idle(q)
        BY <1>1, <2>1, <3>1, <3>2, <3>4, ProgressIsStable
      <3> QED BY <3>3, <3>4
    <2> QED BY <1>1, <2>1, <2>2, <2>4, <2>5 DEF StoreTrue
  <1>4. CASE ListRules \/ ReapplyRule \/ \E t \in Targets : UnbanRule(t) \/ RecheckTarget(t)
    <2>1. bans' = bans /\ mpc' # "unsilence"
      BY <1>4 DEF ListRules, ReapplyRule, UnbanRule, RecheckTarget, Continue
    <2>2. \A u \in Targets : Unbanning(u)' = Unbanning(u)
      BY <1>4 DEF ListRules, ReapplyRule, UnbanRule, RecheckTarget, Continue, Unbanning
    <2>3. \A u \in Targets : ~Owned(u)' => ~Owned(u)
      BY <1>1, <2>2 DEF Owned, Idle
    <2>4. \A q \in Procs : ip'[q] \notin raced' => Progress(q)'
      BY <1>1, <2>1, ProgressIsStable DEF StoreTrue
    <2> QED BY <1>1, <2>1, <2>2, <2>3, <2>4 DEF StoreTrue, RowAgrees, Live
  <1> QED BY <1>2, <1>3, <1>4 DEF PassStep

\* Everything else: the start of a pass, the clean-up of the store, the firewall,
\* the clock, and the agent going down and coming back.
LEMMA EnvironmentKeepsStoreTrue ==
  ASSUME Sound, StoreTrue, HasStore, "store" \notin Faults,
         \/ CollectExpired \/ StartReconcile \/ PruneExpiredBans \/ Flush \/ Crash
         \/ Load \/ Tick \/ UNCHANGED vars
  PROVE  StoreTrue'
  <1> USE DEF Sound
  <1>1. CASE CollectExpired
    <2>1. /\ UNCHANGED <<now, phase, bans, pc, ip, ttl, until, prev>>
          /\ work' = Expired /\ mpc' = "unban" /\ mpc = "idle" /\ raced \subseteq raced'
          /\ \A u \in Targets : u \in Expired /\ Busy(u) => u \in raced'
          /\ \A u \in Targets : blockedIPs'[u] = IF u \in Expired THEN 0 ELSE blockedIPs[u]
      BY <1>1 DEF CollectExpired, DropEntries, Claim, calls
    <2>2. \A u \in Targets : ~Owned(u)' => ~Owned(u) /\ u \notin Expired
      BY <2>1 DEF Owned, Unbanning, Idle
    <2>3. ASSUME NEW q \in Procs, ip'[q] \notin raced' PROVE Progress(q)'
      <3>1. Progress(q) /\ ip[q] \in Targets
        BY <2>1, <2>3 DEF StoreTrue, TypeOK
      <3>2. CASE Idle(q)
        BY <2>1, <3>2 DEF Idle, Progress, BlockProgress, ExtendProgress, UnblockProgress,
           Replies, BlockSteps, ExtendSteps, UnblockSteps
      <3>3. CASE ~Idle(q)
        <4>1. blockedIPs'[ip[q]] = blockedIPs[ip[q]]
          BY <2>1, <2>3, <3>1, <3>3 DEF Busy
        <4> QED BY <2>1, <3>1, <4>1 DEF Progress, BlockProgress, ExtendProgress,
                UnblockProgress, RowLasts, Expires
      <3> QED BY <3>2, <3>3
    <2> QED BY <2>1, <2>2, <2>3 DEF StoreTrue, RowAgrees, Live, Unbanning
  <1>2. CASE StartReconcile
    <2>1. /\ UNCHANGED <<now, phase, blockedIPs, bans, pc, ip, ttl, until, prev>>
          /\ mpc' = "list" /\ mpc = "idle" /\ raced \subseteq raced'
      BY <1>2 DEF StartReconcile, Claim, agent, calls
    <2>2. \A u \in Targets : ~Owned(u)' => ~Owned(u)
      BY <2>1 DEF Owned, Unbanning, Idle
    <2>3. \A q \in Procs : ip'[q] \notin raced' => Progress(q)'
      BY <2>1, ProgressIsStable DEF StoreTrue
    <2> QED BY <2>1, <2>2, <2>3 DEF StoreTrue, RowAgrees, Live, Unbanning
  <1>3. CASE PruneExpiredBans
    <2>1. /\ UNCHANGED <<now, phase, blockedIPs, pc, ip, ttl, until, prev, mpc, work, cur, raced>>
          /\ \A u \in Targets : bans'[u] = IF bans[u] <= now THEN 0 ELSE bans[u]
      BY <1>3 DEF PruneExpiredBans, agent, calls, loop
    <2>2. \A q \in Procs : ip'[q] \notin raced' => Progress(q)'
      BY <2>1, ProgressIsStable DEF StoreTrue, TypeOK
    <2>3. \A u \in Targets : RowAgrees(u) => RowAgrees(u)'
      BY <2>1, EnforcerAssumption DEF RowAgrees, Live, TypeOK
    <2>4. \A u \in Targets : Owned(u)' = Owned(u) /\ Unbanning(u)' = Unbanning(u)
      BY <2>1 DEF Owned, Unbanning, Idle
    <2>5. cur \in Targets
      BY DEF TypeOK
    <2> QED BY <2>1, <2>2, <2>3, <2>4, <2>5 DEF StoreTrue
  <1>4. CASE Flush \/ Tick \/ UNCHANGED vars
    <2>1. /\ UNCHANGED <<phase, blockedIPs, bans, pc, ip, ttl, until, prev, mpc, work, cur, raced>>
          /\ now' \in {now, now + 1}
      BY <1>4 DEF Flush, Tick, agent, calls, loop, vars
    <2>2. \A q \in Procs : ip'[q] \notin raced' => Progress(q)'
      BY <2>1, ProgressIsStable DEF StoreTrue
    <2>3. \A u \in Targets : RowAgrees(u) => RowAgrees(u)'
      BY <2>1, EnforcerAssumption DEF RowAgrees, Live, TypeOK
    <2>4. \A u \in Targets : Owned(u)' = Owned(u) /\ Unbanning(u)' = Unbanning(u)
      BY <2>1 DEF Owned, Unbanning, Idle
    <2> QED BY <2>1, <2>2, <2>3, <2>4 DEF StoreTrue
  <1>5. CASE Crash
    <2>1. /\ \A q \in Procs : pc'[q] = "idle"
          /\ phase' = "down" /\ mpc' = "idle" /\ work' = {}
      BY <1>5 DEF Crash
    <2>2. \A q \in Procs : Progress(q)'
      BY <2>1 DEF Progress, BlockProgress, ExtendProgress, UnblockProgress,
         BlockSteps, ExtendSteps, UnblockSteps
    <2> QED BY <2>1, <2>2 DEF StoreTrue, Unbanning
  <1>6. CASE Load
    <2>1. LoadBansFromStore
      BY <1>6 DEF Load, LoadBansFromFirewall, Fault
    <2>2. /\ \A u \in Targets : blockedIPs'[u] = IF bans[u] > now THEN bans[u] ELSE 0
          /\ UNCHANGED <<now, bans, pc>> /\ mpc' \in {"idle", "list"} /\ phase = "down"
      BY <2>1 DEF LoadBansFromStore, Restore, ActiveBans, calls
    <2>3. \A u \in Targets : RowAgrees(u)'
      BY <2>2, EnforcerAssumption DEF RowAgrees, Live, TypeOK
    <2>4. \A q \in Procs : Progress(q)'
      BY <2>2 DEF Exclusion, Idle, Progress, BlockProgress, ExtendProgress, UnblockProgress,
         Replies, BlockSteps, ExtendSteps, UnblockSteps
    <2> QED BY <2>2, <2>3, <2>4 DEF StoreTrue, Unbanning
  <1> QED BY <1>1, <1>2, <1>3, <1>4, <1>5, <1>6

LEMMA StoreTrueInvariant ==
  HasStore /\ "store" \notin Faults => (Spec => [](Sound /\ BansSilenced /\ StoreTrue))
  <1> SUFFICES ASSUME HasStore, "store" \notin Faults
               PROVE  Spec => [](Sound /\ BansSilenced /\ StoreTrue)
    OBVIOUS
  <1>1. Init => StoreTrue
    BY InitStoreTrue
  <1>2. Sound /\ StoreTrue /\ [Next]_vars => StoreTrue'
    BY RequestKeepsStoreTrue, ProcStepKeepsStoreTrue, PassKeepsStoreTrue,
       EnvironmentKeepsStoreTrue DEF Next
  <1> QED BY <1>1, <1>2, BansSilencedInvariant, PTL DEF Spec

\* With a store that works, and for a target nobody works on that no two
\* operations ever overlapped on, the row of a live ban lasts at least as long
\* as its entry and a live row belongs to an entry: whatever the firewall does, a
\* restart at such a moment neither shortens a ban nor revives one that was
\* lifted, expired or failed (enforcer.go:392, 821).
THEOREM RestartsAreFaithful ==
  HasStore /\ "store" \notin Faults => (Spec => []StoreAgrees)
  <1> SUFFICES ASSUME HasStore, "store" \notin Faults PROVE Spec => []StoreAgrees
    OBVIOUS
  <1>1. StoreTrue => StoreAgrees
    BY DEF StoreTrue, StoreAgrees, Settled, Busy, Owned, Unbanning, RowAgrees
  <1> QED BY <1>1, StoreTrueInvariant, PTL

LEMMA ReplyIsTrue ==
  ASSUME Sound, BansSilenced, StoreTrue, HasStore, "store" \notin Faults,
         NEW p \in Procs, ProcStep(p), ip[p] \notin raced
  PROVE  TrueReply(p, ip[p])
  <1>1. TypeOK /\ ip[p] \in Targets /\ Progress(p)
    BY DEF Sound, StoreTrue, TypeOK
  <1>2. \A e : WriteBan(ip[p], e) => bans'[ip[p]] = e
    BY <1>1, WriteIsDone
  <1>3. pc[p] \in ExtendSteps => ip[p] \in silenced
    BY ExtendedIsSilenced DEF Sound
  <1> USE DEF Progress, BlockProgress, ExtendProgress, RowLasts, TrueReply,
              BlockSteps, ExtendSteps
  <1>4. CASE SilenceNewBan(p)
    <2>1. pc'[p] = "applied"
      BY <1>1, <1>4 DEF SilenceNewBan, Reply, Goto, TypeOK
    <2> QED BY <1>1, <1>4, <2>1 DEF SilenceNewBan, Silence, agent
  <1>5. CASE UndoStore(p)
    <2>1. pc'[p] = "failed"
      BY <1>1, <1>5 DEF UndoStore, Reply, Goto, TypeOK
    <2> QED BY <1>1, <1>2, <1>5, <2>1 DEF UndoStore, DeleteBan, agent
  <1>6. CASE AddLongerRule(p)
    <2>1. pc'[p] # "failed"
      BY <1>1, <1>6 DEF AddLongerRule, Reply, Goto, TypeOK
    <2> QED BY <1>1, <1>3, <1>6, <2>1 DEF AddLongerRule, agent
  <1>7. CASE RestoreStore(p)
    <2>1. pc'[p] = "failed"
      BY <1>1, <1>7 DEF RestoreStore, Reply, Goto, TypeOK
    <2> QED BY <1>1, <1>2, <1>3, <1>7, <2>1 DEF RestoreStore, SaveBan, agent
  <1>8. CASE ~SilenceNewBan(p) /\ ~UndoStore(p) /\ ~AddLongerRule(p) /\ ~RestoreStore(p)
    <2>1. pc'[p] \notin {"applied", "failed"}
      BY <1>1, <1>8 DEF ProcStep, BlockStep, ExtendStep, UnblockStep, SaveNewBan,
         AddNewRule, UndoMap, SaveExtension, RemoveOldRule, RestoreRule, RestoreMap,
         UnblockStore, UnblockSilence, UnblockRule, Goto, Reply, TypeOK
    <2> QED BY <2>1
  <1> QED BY <1>4, <1>5, <1>6, <1>7, <1>8

\* With a store that works, and unless another operation ever overlapped on the
\* target, a block or an extension that is reported as applied is in the map, in
\* the store and in the silenced list; one that is reported as failed has put
\* back what it found there, whichever firewall command failed (enforcer.go:436,
\* 521).  Of the rule it says nothing: see ExtensionLastsInFirewall.
THEOREM RepliesTellTheTruth ==
  HasStore /\ "store" \notin Faults => (Spec => RepliesAreTrue)
  <1> SUFFICES ASSUME HasStore, "store" \notin Faults PROVE Spec => RepliesAreTrue
    OBVIOUS
  <1>1. Sound /\ BansSilenced /\ StoreTrue /\ [Next]_vars
           => [\A p \in Procs : TrueReply(p, ip[p])]_vars
    <2> SUFFICES ASSUME Sound, BansSilenced, StoreTrue, Next, NEW p \in Procs
                 PROVE  TrueReply(p, ip[p])
      OBVIOUS
    <2>1. CASE ProcStep(p)
      BY <2>1, ReplyIsTrue DEF TrueReply
    <2>2. ASSUME NEW q \in Procs, q # p, Request(q) \/ ProcStep(q)
          PROVE  TrueReply(p, ip[p])
      BY <2>2, RequestFrame, ProcStepFrame DEF Sound, TrueReply, Idle, Replies
    <2>3. CASE Request(p)
      BY <2>3, RequestFrame DEF Sound, TrueReply
    <2>4. CASE CollectExpired \/ StartReconcile \/ PassStep \/ PruneExpiredBans \/ Flush
               \/ Crash \/ Load \/ Tick
      <3>1. pc' = pc \/ phase' = "down"
        BY <2>4, PassFrame DEF CollectExpired, StartReconcile, PruneExpiredBans, Flush,
           Crash, Load, LoadBansFromStore, LoadBansFromFirewall, Tick, calls
      <3> QED BY <3>1 DEF TrueReply, Idle, Replies
    <2> QED BY <2>1, <2>2, <2>3, <2>4 DEF Next
  <1> QED BY <1>1, StoreTrueInvariant, PTL DEF Spec, RepliesAreTrue

-----------------------------------------------------------------------------
(* The refinement: seen target by target, every step is one of BanLifecycle *)
(* or changes nothing.                                                     *)

LEMMA ExpiresIsLater ==
  ASSUME TypeOK, NEW secs \in Nat
  PROVE  Expires(secs) > now
  BY EnforcerAssumption DEF Expires, TypeOK

LEMMA InitFollows == ASSUME Init, NEW t \in Targets PROVE Lifecycle(t)!LifecycleInit
  <1>1. Up(t) = TRUE /\ Open(t) = FALSE /\ Covered(t) = TRUE
    BY DEF Init, Up, Open, Covered, Busy, Idle, Replies
  <1>2. Ban(t) = 0 /\ Kept(t) = 0 /\ Before(t) = 0 /\ now = 0
    BY DEF Init, Ban, Kept, Before, Covered, Extending, ExtendSteps
  <1> QED BY <1>1, <1>2 DEF Lifecycle!LifecycleInit

\* What BanLifecycle sees of a target while the agent is up.
LEMMA ViewWhileUp ==
  ASSUME NEW t \in Targets, t \notin raced, t \notin raced',
         phase # "down", phase' # "down", now' = now
  PROVE  /\ Ban(t) = blockedIPs[t] /\ Ban(t)' = blockedIPs'[t]
         /\ Up(t) /\ Up(t)' /\ (Open(t) <=> Busy(t)) /\ (Open(t)' <=> Busy(t)')
         /\ UNCHANGED <<now, Kept(t), Covered(t)>>
         /\ Extending(t) = {} => Before(t) = 0
         /\ Extending(t)' = {} => Before(t)' = 0
         /\ \A p : Extending(t) = {p} => Before(t) = prev[p]
         /\ \A p : Extending(t)' = {p} => Before(t)' = prev'[p]
         /\ Extending(t)' = Extending(t) /\ (\A p \in Extending(t) : prev'[p] = prev[p])
               => Before(t)' = Before(t)
  <1>1. UNCHANGED <<now, Kept(t), Covered(t)>>
    BY DEF Kept, Covered
  <1>2. /\ \A p : Extending(t) = {p} => Before(t) = prev[p]
        /\ \A p : Extending(t)' = {p} => Before(t)' = prev'[p]
    BY DEF Before, Covered
  <1>3. Extending(t)' = Extending(t) /\ (\A p \in Extending(t) : prev'[p] = prev[p])
               => Before(t)' = Before(t)
    BY DEF Before, Covered
  <1>4. /\ Extending(t) = {} => Before(t) = 0
        /\ Extending(t)' = {} => Before(t)' = 0
    BY DEF Before
  <1>5. /\ Ban(t) = blockedIPs[t] /\ Ban(t)' = blockedIPs'[t]
        /\ Up(t) /\ Up(t)' /\ (Open(t) <=> Busy(t)) /\ (Open(t)' <=> Busy(t)')
    BY DEF Ban, Up, Open, Covered
  <1> QED BY <1>1, <1>2, <1>3, <1>4, <1>5

LEMMA SameView ==
  ASSUME NEW t \in Targets, UNCHANGED <<now, Ban(t), Before(t), Kept(t)>>,
         Up(t)' <=> Up(t), Open(t)' <=> Open(t), Covered(t)' <=> Covered(t)
  PROVE  FollowsLifecycle(t)
  BY DEF FollowsLifecycle, Lifecycle!lifecycleVars, Up, Open, Covered

\* Nothing happens on t: whoever was extending its ban still is.
LEMMA NothingHappens ==
  ASSUME NEW t \in Targets, t \notin raced, t \notin raced',
         phase # "down", phase' # "down", now' = now,
         blockedIPs'[t] = blockedIPs[t], Busy(t)' <=> Busy(t),
         Extending(t)' = Extending(t), \A p \in Extending(t) : prev'[p] = prev[p]
  PROVE  FollowsLifecycle(t)
  <1>1. UNCHANGED <<now, Ban(t), Before(t), Kept(t), Covered(t)>>
    BY ViewWhileUp
  <1>2. (Up(t)' <=> Up(t)) /\ (Open(t)' <=> Open(t))
    BY ViewWhileUp
  <1> QED BY <1>1, <1>2, SameView

\* An idle target is nobody's extension.
LEMMA NotBusyNotExtending ==
  ASSUME NEW t, ~Busy(t) PROVE Extending(t) = {}
  BY DEF Busy, Extending, Idle, Replies, ExtendSteps

LEMMA NotBusyNotExtendingNext ==
  ASSUME NEW t, ~Busy(t)' PROVE Extending(t)' = {}
  BY DEF Busy, Extending, Idle, Replies, ExtendSteps

LEMMA RequestFollows ==
  ASSUME Sound, Exclusion', NEW p \in Procs, Request(p), NEW t \in Targets, t \notin raced'
  PROVE  FollowsLifecycle(t)
  <1> USE DEF Sound
  <1>1. /\ \A q \in Procs : q # p => pc'[q] = pc[q] /\ ip'[q] = ip[q] /\ prev'[q] = prev[q]
        /\ phase = "running" /\ Idle(p) /\ t \notin raced
        /\ UNCHANGED <<now, phase, mpc, work>>
    BY RequestFrame
  <1>2. now \in Nat /\ blockedIPs[t] \in Nat
    BY EnforcerAssumption DEF TypeOK
  <1>3. ASSUME Idle(p)' \/ ip'[p] # t, blockedIPs'[t] = blockedIPs[t]
        PROVE  FollowsLifecycle(t)
    <2>1. Busy(t)' <=> Busy(t)
      BY <1>1, <1>3 DEF Busy, Idle
    <2>2. p \notin Extending(t) /\ p \notin Extending(t)'
      BY <1>1, <1>3 DEF Extending, Idle, Replies, ExtendSteps
    <2>3. Extending(t)' = Extending(t)
      BY <1>1, <2>2 DEF Extending
    <2>4. \A q \in Extending(t) : prev'[q] = prev[q]
      BY <1>1, <2>2 DEF Extending
    <2> QED BY <1>1, <1>3, <2>1, <2>3, <2>4, NothingHappens
  <1>4. CASE pc'[p] \in Replies /\ UNCHANGED <<blockedIPs, raced>>
    BY <1>3, <1>4 DEF Idle
  <1>5. CASE /\ ip'[p] \in Targets /\ (Busy(ip'[p]) => ip'[p] \in raced')
             /\ \A u \in Targets : u # ip'[p] => blockedIPs'[u] = blockedIPs[u]
             /\ Enters(p)
    <2>1. CASE ip'[p] # t
      BY <1>3, <1>5, <2>1
    <2>2. CASE ip'[p] = t
      <3>1. ~Busy(t) /\ Extending(t) = {}
        BY <1>5, <2>2, NotBusyNotExtending
      <3>2. Busy(t)'
        BY <1>5, <2>2 DEF Enters, Busy, Idle, Replies
      <3>3. Extending(t)' = IF pc'[p] = "extSave" THEN {p} ELSE {}
        BY <1>1, <1>5, <2>2, <3>1 DEF Enters, Extending, ExtendSteps
      <3>4. /\ Ban(t) = blockedIPs[t] /\ Ban(t)' = blockedIPs'[t]
            /\ Lifecycle(t)!Begin
            /\ Before(t)' = IF pc'[p] = "extSave" THEN prev'[p] ELSE 0
        BY <1>1, <3>1, <3>2, <3>3, ViewWhileUp DEF Lifecycle!Begin
      <3>5. CASE pc'[p] = "unStore"
        <4>1. Lifecycle(t)!Lift
          BY <1>5, <2>2, <3>4, <3>5 DEF Enters, Lifecycle!Lift
        <4> QED BY <4>1 DEF FollowsLifecycle, Lifecycle!LifecycleNext
      <3>6. CASE pc'[p] = "extSave"
        <4>1. Lifecycle(t)!Extend
          BY <1>2, <1>5, <2>2, <3>4, <3>6 DEF Enters, Live, Lifecycle!Extend
        <4> QED BY <4>1 DEF FollowsLifecycle, Lifecycle!LifecycleNext
      <3>7. CASE pc'[p] = "save"
        <4>1. blockedIPs'[t] > now /\ blockedIPs[t] <= now
          BY <1>2, <1>5, <2>2, <3>7, ExpiresIsLater DEF Enters, Live
        <4>2. Lifecycle(t)!Impose
          BY <3>4, <3>7, <4>1 DEF Lifecycle!Impose
        <4> QED BY <4>2 DEF FollowsLifecycle, Lifecycle!LifecycleNext
      <3> QED BY <1>5, <3>5, <3>6, <3>7 DEF Enters
    <2> QED BY <2>1, <2>2
  <1> QED BY <1>4, <1>5, RequestEffect

LEMMA ProcStepFollows ==
  ASSUME Sound, Exclusion', NEW p \in Procs, ProcStep(p), NEW t \in Targets, t \notin raced
  PROVE  FollowsLifecycle(t)
  <1> USE DEF Sound
  <1>1. /\ ~Idle(p)
        /\ \A q \in Procs : q # p => pc'[q] = pc[q] /\ ip'[q] = ip[q] /\ prev'[q] = prev[q]
        /\ pc'[p] \in Replies \/ (ip'[p] = ip[p] /\ prev'[p] = prev[p])
        /\ UNCHANGED <<now, phase, mpc, work, raced>>
    BY ProcStepFrame
  <1>2. phase = "running" /\ phase' = "running" /\ t \notin raced'
    BY <1>1 DEF Exclusion
  <1>3. CASE ip[p] # t
    <2>1. Idle(p)' \/ ip'[p] # t
      BY <1>1, <1>3 DEF Idle
    <2>2. Busy(t)' <=> Busy(t)
      BY <1>1, <1>3, <2>1 DEF Busy, Idle
    <2>3. p \notin Extending(t) /\ p \notin Extending(t)'
      BY <1>3, <2>1 DEF Extending, Idle, Replies, ExtendSteps
    <2>4. Extending(t)' = Extending(t)
      BY <1>1, <2>3 DEF Extending
    <2>5. \A q \in Extending(t) : prev'[q] = prev[q]
      BY <1>1, <2>3 DEF Extending
    <2>6. blockedIPs'[t] = blockedIPs[t]
      BY <1>3, ProcStepLocal
    <2> QED BY <1>1, <1>2, <2>2, <2>4, <2>5, <2>6, NothingHappens
  <1>4. CASE ip[p] = t
    <2>1. Busy(t) /\ t \notin work /\ \A q \in Procs : q # p => Idle(q) \/ ip[q] # t
      BY <1>1, <1>4 DEF Busy, Exclusion
    <2>2. Extending(t) = IF pc[p] \in ExtendSteps THEN {p} ELSE {}
      BY <1>4, <2>1 DEF Extending, Idle, Replies, ExtendSteps
    <2>3. CASE pc'[p] \in Replies
      <3>1. blockedIPs'[t] = blockedIPs[t]
        BY <1>1, <2>3 DEF ProcStep, BlockStep, ExtendStep, UnblockStep, SaveNewBan,
           AddNewRule, SilenceNewBan, UndoMap, UndoStore, SaveExtension, RemoveOldRule,
           AddLongerRule, RestoreRule, RestoreMap, RestoreStore, UnblockStore,
           UnblockSilence, UnblockRule, Goto, agent, Replies, TypeOK
      <3>2. ~Busy(t)'
        BY <1>1, <2>1, <2>3 DEF Busy, Idle
      <3>3. Extending(t)' = {}
        BY <3>2, NotBusyNotExtendingNext
      <3>4. Lifecycle(t)!Settle
        BY <1>1, <1>2, <2>1, <3>1, <3>2, <3>3, ViewWhileUp
           DEF Lifecycle!Settle, Lifecycle!Within
      <3> QED BY <3>4 DEF FollowsLifecycle, Lifecycle!LifecycleNext
    <2>4. CASE pc'[p] \notin Replies
      <3>1. Busy(t)' /\ ip'[p] = t /\ prev'[p] = prev[p]
        BY <1>1, <1>4, <2>4 DEF Busy, Idle
      <3>2. Extending(t)' = IF pc'[p] \in ExtendSteps THEN {p} ELSE {}
        BY <1>1, <2>1, <3>1 DEF Extending, Idle, Replies, ExtendSteps
      <3>3. pc'[p] \in ExtendSteps <=> pc[p] \in ExtendSteps
        BY <2>4 DEF ProcStep, BlockStep, ExtendStep, UnblockStep, SaveNewBan,
           AddNewRule, SilenceNewBan, UndoMap, UndoStore, SaveExtension, RemoveOldRule,
           AddLongerRule, RestoreRule, RestoreMap, RestoreStore, UnblockStore,
           UnblockSilence, UnblockRule, Goto, Reply, Replies, ExtendSteps, TypeOK
      <3>4. Extending(t)' = Extending(t) /\ \A q \in Extending(t) : prev'[q] = prev[q]
        BY <2>2, <3>1, <3>2, <3>3
      <3>5. CASE blockedIPs'[t] = blockedIPs[t]
        BY <1>1, <1>2, <2>1, <3>1, <3>4, <3>5, NothingHappens
      <3>6. CASE UndoMap(p) \/ RestoreMap(p)
        <4>1. blockedIPs'[t] = IF pc[p] \in ExtendSteps THEN prev[p] ELSE 0
          BY <1>4, <3>6 DEF UndoMap, RestoreMap, DropEntries, ExtendSteps, TypeOK
        <4>2. Before(t) = IF pc[p] \in ExtendSteps THEN prev[p] ELSE 0
          BY <1>1, <1>2, <2>2, ViewWhileUp
        <4>3. Lifecycle(t)!Withdraw
          BY <1>1, <1>2, <2>1, <3>1, <3>4, <4>1, <4>2, ViewWhileUp
             DEF Lifecycle!Withdraw, Lifecycle!Within
        <4> QED BY <4>3 DEF FollowsLifecycle, Lifecycle!LifecycleNext
      <3>7. ~UndoMap(p) /\ ~RestoreMap(p) => blockedIPs' = blockedIPs
        BY DEF ProcStep, BlockStep, ExtendStep, UnblockStep, SaveNewBan, AddNewRule,
           SilenceNewBan, UndoStore, SaveExtension, RemoveOldRule, AddLongerRule,
           RestoreRule, RestoreStore, UnblockStore, UnblockSilence, UnblockRule, agent
      <3> QED BY <3>5, <3>6, <3>7
    <2> QED BY <2>3, <2>4
  <1> QED BY <1>3, <1>4

\* A pass works on t, or is done with it.
LEMMA PassFollows ==
  ASSUME Sound, PassStep, NEW t \in Targets, t \notin raced
  PROVE  FollowsLifecycle(t)
  <1> USE DEF Sound
  <1>1. /\ UNCHANGED <<now, blockedIPs, pc, ip, prev, raced>>
        /\ work' \subseteq work /\ phase # "down" /\ phase' # "down"
    BY PassFrame, PassNeedsAgent
  <1>2. Extending(t)' = Extending(t) /\ \A q \in Extending(t) : prev'[q] = prev[q]
    BY <1>1 DEF Extending
  <1>3. CASE t \in work' \/ t \notin work
    <2>1. Busy(t)' <=> Busy(t)
      BY <1>1, <1>3 DEF Busy, Idle
    <2> QED BY <1>1, <1>2, <2>1, NothingHappens
  <1>4. CASE t \in work /\ t \notin work'
    <2>1. Busy(t) /\ ~Busy(t)'
      BY <1>1, <1>4 DEF Busy, Idle, Exclusion
    <2>2. Extending(t)' = {}
      BY <2>1, NotBusyNotExtendingNext
    <2>3. Lifecycle(t)!Settle
      BY <1>1, <2>1, <2>2, ViewWhileUp DEF Lifecycle!Settle, Lifecycle!Within
    <2> QED BY <2>3 DEF FollowsLifecycle, Lifecycle!LifecycleNext
  <1> QED BY <1>3, <1>4

LEMMA PassStartFollows ==
  ASSUME Sound, CollectExpired \/ StartReconcile, NEW t \in Targets, t \notin raced'
  PROVE  FollowsLifecycle(t)
  <1> USE DEF Sound
  <1> DEFINE Taken == IF CollectExpired THEN Expired ELSE {u \in Targets : Live(u)}
  <1>1. /\ UNCHANGED <<now, phase, pc, ip, prev>> /\ phase = "running"
        /\ t \notin raced /\ work = {} /\ work' = Taken /\ (t \in Taken => ~Busy(t))
    BY DEF CollectExpired, StartReconcile, Claim, Snapshot, calls, Exclusion, Live
  <1>2. blockedIPs'[t] = IF CollectExpired /\ t \in Expired THEN 0 ELSE blockedIPs[t]
    BY DEF CollectExpired, StartReconcile, DropEntries, agent
  <1>3. Extending(t)' = Extending(t) /\ \A q \in Extending(t) : prev'[q] = prev[q]
    BY <1>1 DEF Extending
  <1>4. CASE t \notin Taken
    <2>1. Busy(t)' <=> Busy(t)
      BY <1>1, <1>4 DEF Busy, Idle
    <2>2. blockedIPs'[t] = blockedIPs[t]
      BY <1>2, <1>4
    <2> QED BY <1>1, <1>3, <2>1, <2>2, NothingHappens
  <1>5. CASE t \in Taken
    <2>1. ~Busy(t) /\ Busy(t)'
      BY <1>1, <1>5 DEF Busy
    <2>2. Extending(t)' = {}
      BY <1>3, <2>1, NotBusyNotExtending
    <2>3. /\ Ban(t) = blockedIPs[t] /\ Ban(t)' = blockedIPs'[t]
          /\ Lifecycle(t)!Begin /\ Before(t)' = 0
      BY <1>1, <2>1, <2>2, ViewWhileUp DEF Lifecycle!Begin
    <2>4. CASE CollectExpired
      <3>1. blockedIPs[t] < now /\ blockedIPs'[t] = 0
        BY <1>2, <1>5, <2>4 DEF Expired, Lapsed
      <3>2. Lifecycle(t)!Purge
        BY <2>3, <3>1 DEF Lifecycle!Purge
      <3> QED BY <3>2 DEF FollowsLifecycle, Lifecycle!LifecycleNext
    <2>5. CASE ~CollectExpired
      <3>1. Lifecycle(t)!Inspect
        BY <1>2, <2>3, <2>5 DEF Lifecycle!Inspect
      <3> QED BY <3>1 DEF FollowsLifecycle, Lifecycle!LifecycleNext
    <2> QED BY <2>4, <2>5
  <1> QED BY <1>4, <1>5

\* The agent goes down, comes back from the store, or the world moves on.
LEMMA EnvironmentFollows ==
  ASSUME Sound, StoreTrue, HasStore, "store" \notin Faults,
         PruneExpiredBans \/ Flush \/ Crash \/ Load \/ Tick \/ UNCHANGED vars,
         NEW t \in Targets, t \notin raced
  PROVE  FollowsLifecycle(t)
  <1> USE DEF Sound
  <1>1. CASE PruneExpiredBans \/ Flush \/ UNCHANGED vars
    <2>1. /\ UNCHANGED <<now, phase, blockedIPs, pc, ip, prev, work, raced>>
          /\ phase = "down" => UNCHANGED bans
      BY <1>1 DEF PruneExpiredBans, Flush, agent, calls, loop, vars
    <2>2. UNCHANGED <<Ban(t), Before(t), Kept(t)>>
      BY <2>1 DEF Ban, Before, Kept, Covered, Extending
    <2>3. (Up(t)' <=> Up(t)) /\ (Open(t)' <=> Open(t)) /\ (Covered(t)' <=> Covered(t))
      BY <2>1 DEF Up, Open, Covered, Busy, Idle
    <2> QED BY <2>1, <2>2, <2>3, SameView
  <1>2. CASE Tick
    <2>1. /\ UNCHANGED <<phase, blockedIPs, bans, pc, ip, prev, work, raced>>
          /\ now' = now + 1
      BY <1>2 DEF Tick, agent, calls, loop
    <2>2. UNCHANGED <<Ban(t), Before(t), Kept(t)>>
      BY <2>1 DEF Ban, Before, Kept, Covered, Extending
    <2>3. UNCHANGED <<Up(t), Open(t), Covered(t)>>
      BY <2>1 DEF Up, Open, Covered, Busy, Idle
    <2>4. Lifecycle(t)!Advance
      BY <2>1, <2>2, <2>3 DEF Lifecycle!Advance
    <2> QED BY <2>4 DEF FollowsLifecycle, Lifecycle!LifecycleNext
  <1>3. CASE Crash
    <2>1. /\ phase # "down" /\ phase' = "down" /\ UNCHANGED <<now, bans, raced>>
          /\ blockedIPs'[t] = 0 /\ work' = {} /\ \A q \in Procs : pc'[q] = "idle"
      BY <1>3 DEF Crash
    <2>2. ~Busy(t)'
      BY <2>1 DEF Busy, Idle, Replies
    <2>3. Extending(t)' = {}
      BY <2>2, NotBusyNotExtendingNext
    <2>4. /\ Ban(t) = blockedIPs[t] /\ Ban(t)' = 0 /\ Before(t)' = 0 /\ Kept(t)' = bans[t]
          /\ Up(t) = TRUE /\ Up(t)' = FALSE /\ Open(t) = Busy(t) /\ Open(t)' = FALSE
          /\ UNCHANGED <<now, Covered(t)>>
      BY <2>1, <2>2, <2>3 DEF Ban, Before, Kept, Up, Open, Covered, Busy
    <2>5. ~Busy(t) => RowAgrees(t)
      BY <2>1 DEF StoreTrue, Owned, Unbanning, Busy
    <2>6. ~Open(t) => /\ Ban(t) > now => Kept(t)' >= Ban(t)
                      /\ Kept(t)' > now => Ban(t) # 0
      BY <2>4, <2>5 DEF RowAgrees, Live
    <2>7. Lifecycle(t)!Stop
      BY <2>4, <2>6 DEF Lifecycle!Stop
    <2> QED BY <2>7 DEF FollowsLifecycle, Lifecycle!LifecycleNext
  <1>4. CASE Load
    <2>1. LoadBansFromStore
      BY <1>4 DEF Load, LoadBansFromFirewall, Fault
    <2>2. /\ phase = "down" /\ phase' # "down" /\ UNCHANGED <<now, bans, pc, ip, prev, raced>>
          /\ blockedIPs'[t] = IF bans[t] > now THEN bans[t] ELSE 0
      BY <2>1 DEF LoadBansFromStore, Restore, ActiveBans, calls
    <2>3. Extending(t)' = {}
      BY <2>2 DEF Extending, Exclusion, Idle, Replies, ExtendSteps
    <2>4. /\ Kept(t) = bans[t] /\ Kept(t)' = 0 /\ Ban(t)' = blockedIPs'[t] /\ Before(t)' = 0
          /\ ~Up(t) /\ Up(t)' /\ UNCHANGED <<now, Covered(t)>>
      BY <2>2, <2>3 DEF Ban, Before, Kept, Up, Covered
    <2>5. Lifecycle(t)!Recover
      BY <2>2, <2>4 DEF Lifecycle!Recover
    <2> QED BY <2>5 DEF FollowsLifecycle, Lifecycle!LifecycleNext
  <1> QED BY <1>1, <1>2, <1>3, <1>4

\* Once two goroutines have overlapped on t the view of it is empty, and stays so.
LEMMA RacedFollows ==
  ASSUME Sound, [Next]_vars, NEW t \in Targets, t \in raced'
  PROVE  FollowsLifecycle(t)
  <1>1. ~Up(t)' /\ ~Open(t)' /\ ~Covered(t)' /\ Ban(t)' = 0 /\ Before(t)' = 0 /\ Kept(t)' = 0
    BY DEF Up, Open, Covered, Ban, Before, Kept
  <1>2. CASE t \in raced
    <2>1. ~Up(t) /\ ~Open(t) /\ ~Covered(t) /\ Ban(t) = 0 /\ Before(t) = 0 /\ Kept(t) = 0
      BY <1>2 DEF Up, Open, Covered, Ban, Before, Kept
    <2>2. UNCHANGED <<Ban(t), Before(t), Kept(t)>>
      BY <1>1, <2>1
    <2>3. UNCHANGED <<Up(t), Open(t), Covered(t)>>
      BY <1>1, <2>1 DEF Up, Open, Covered
    <2>4. CASE now' = now
      BY <1>1, <2>1, <2>2, <2>4, SameView
    <2>5. CASE now' = now + 1
      <3>1. Lifecycle(t)!Advance
        BY <2>2, <2>3, <2>5 DEF Lifecycle!Advance
      <3> QED BY <3>1 DEF FollowsLifecycle, Lifecycle!LifecycleNext
    <2>6. now' = now \/ now' = now + 1
      BY RequestFrame, ProcStepFrame, PassFrame
         DEF Sound, Next, CollectExpired, StartReconcile, PruneExpiredBans, Flush, Crash,
             Load, LoadBansFromStore, LoadBansFromFirewall, Tick, vars
    <2> QED BY <2>4, <2>5, <2>6
  <1>3. CASE t \notin raced
    <2>1. now' = now
      BY <1>3, RequestFrame, ProcStepFrame, PassFrame
         DEF Sound, Next, CollectExpired, StartReconcile, PruneExpiredBans, Flush, Crash,
             Load, LoadBansFromStore, LoadBansFromFirewall, Tick, vars
    <2>2. Lifecycle(t)!Disown
      BY <1>1, <1>3, <2>1 DEF Covered, Lifecycle!Disown
    <2> QED BY <2>2 DEF FollowsLifecycle, Lifecycle!LifecycleNext
  <1> QED BY <1>2, <1>3

\* With a store that works the five-way ban state implements BanLifecycle,
\* target by target, up to the first overlap on it: a ban appears, grows, goes
\* back or disappears only as that specification lets the operator rely on, and
\* a restart neither shortens nor revives one (enforcer.go:326, 497, 821).
THEOREM ImplementsLifecycle ==
  HasStore /\ "store" \notin Faults => (Spec => BansFollowLifecycle)
  <1> SUFFICES ASSUME HasStore, "store" \notin Faults PROVE Spec => BansFollowLifecycle
    OBVIOUS
  <1>1. Init => \A t \in Targets : Lifecycle(t)!LifecycleInit
    BY InitFollows
  <1>2. Sound /\ StoreTrue /\ [Next]_vars => [\A t \in Targets : FollowsLifecycle(t)]_vars
    <2> SUFFICES ASSUME Sound, StoreTrue, Next, NEW t \in Targets
                 PROVE  FollowsLifecycle(t)
      OBVIOUS
    <2>1. Exclusion'
      BY NextKeepsExclusion DEF Sound
    <2>2. CASE t \in raced'
      BY <2>2, RacedFollows
    <2>3. CASE t \notin raced'
      <3>1. t \notin raced
        BY <2>3, RequestFrame, ProcStepFrame, PassFrame
           DEF Sound, Next, CollectExpired, StartReconcile, Claim, PruneExpiredBans, Flush,
               Crash, Load, LoadBansFromStore, LoadBansFromFirewall, Tick
      <3> QED BY <2>1, <2>3, <3>1, RequestFollows, ProcStepFollows, PassFollows,
              PassStartFollows, EnvironmentFollows DEF Next
    <2> QED BY <2>2, <2>3
  <1> QED BY <1>1, <1>2, StoreTrueInvariant, PTL DEF Spec, BansFollowLifecycle

-----------------------------------------------------------------------------
(* The silenced list and the map.                                          *)

At(t, steps) == \E p \in Procs : ip[p] = t /\ pc[p] \in steps

UndoSteps == {"undoMap", "undoStore", "extRestoreRule", "extRestoreMap", "extRestoreStore"}

SilenceTrue ==
    /\ \A t \in Targets \ raced : t \in silenced =>
          blockedIPs[t] # 0 \/ Unbanning(t) \/ At(t, {"unStore", "unSilence"})
    /\ \A p \in Procs : pc[p] \in {"save", "rule", "silence"} /\ ip[p] \notin raced =>
          blockedIPs[ip[p]] # 0
    /\ \A p \in Procs : pc[p] \notin UndoSteps

LEMMA InitSilenceTrue == Init => SilenceTrue
  BY DEF Init, SilenceTrue, UndoSteps

LEMMA RequestKeepsSilenceTrue ==
  ASSUME Sound, SilenceTrue, NEW p \in Procs, Request(p)
  PROVE  SilenceTrue'
  <1> USE DEF Sound
  <1>1. /\ \A q \in Procs : q # p => pc'[q] = pc[q] /\ ip'[q] = ip[q]
        /\ Idle(p) /\ raced \subseteq raced'
        /\ UNCHANGED <<mpc, work, silenced>>
    BY RequestFrame
  <1>2. CASE pc'[p] \in Replies /\ UNCHANGED <<blockedIPs, raced>>
    BY <1>1, <1>2 DEF SilenceTrue, At, Unbanning, UndoSteps, Idle, Replies
  <1>3. CASE /\ ip'[p] \in Targets /\ (Busy(ip'[p]) => ip'[p] \in raced')
             /\ \A u \in Targets : u # ip'[p] => blockedIPs'[u] = blockedIPs[u]
             /\ Enters(p)
    <2>1. ttl'[p] \in Nat => Expires(ttl'[p]) # 0
      BY ExpiresIsPositive
    <2>2. ASSUME NEW q \in Procs, q # p, pc'[q] \in {"save", "rule", "silence"},
                 ip'[q] \notin raced'
          PROVE  blockedIPs'[ip'[q]] # 0
      <3>1. ~Idle(q) /\ ip[q] \in Targets
        BY <1>1, <2>2 DEF Idle, Replies, TypeOK
      <3>2. ip[q] # ip'[p]
        BY <1>1, <1>3, <2>2, <3>1 DEF Busy
      <3> QED BY <1>1, <1>3, <2>2, <3>1, <3>2 DEF SilenceTrue
    <2>3. ASSUME NEW u \in Targets \ raced', u \in silenced'
          PROVE  blockedIPs'[u] # 0 \/ Unbanning(u)' \/ At(u, {"unStore", "unSilence"})'
      <3>1. CASE u = ip'[p]
        BY <1>3, <2>1, <3>1 DEF Enters, At
      <3>2. CASE u # ip'[p]
        BY <1>1, <1>3, <2>3, <3>2 DEF SilenceTrue, Unbanning, At, Idle, Replies
      <3> QED BY <3>1, <3>2
    <2>4. pc'[p] \in {"save", "rule", "silence"} => blockedIPs'[ip'[p]] # 0
      BY <1>3, <2>1 DEF Enters
    <2>5. \A q \in Procs : pc'[q] \notin UndoSteps
      BY <1>1, <1>3 DEF SilenceTrue, Enters, UndoSteps
    <2> QED BY <2>2, <2>3, <2>4, <2>5 DEF SilenceTrue
  <1> QED BY <1>2, <1>3, RequestEffect

LEMMA ProcStepKeepsSilenceTrue ==
  ASSUME Sound, SilenceTrue, {"firewall", "permanent"} \cap Faults = {},
         NEW p \in Procs, ProcStep(p)
  PROVE  SilenceTrue'
  <1> USE DEF Sound
  <1>1. /\ ~Idle(p)
        /\ \A q \in Procs : q # p => pc'[q] = pc[q] /\ ip'[q] = ip[q]
        /\ pc'[p] \in Replies \/ ip'[p] = ip[p]
        /\ UNCHANGED <<mpc, work, raced>>
    BY ProcStepFrame
  <1>2. ip[p] \in Targets
    BY DEF TypeOK
  <1>3. \A u \in Targets : u # ip[p] =>
          blockedIPs'[u] = blockedIPs[u] /\ (u \in silenced' <=> u \in silenced)
    BY ProcStepLocal
  <1>4. pc[p] \notin UndoSteps
    BY DEF SilenceTrue
  \* On its own target: no rollback starts, and silence goes with the entry.
  <1>5. /\ pc'[p] \notin UndoSteps
        /\ blockedIPs' = blockedIPs
        /\ pc'[p] \in {"rule", "silence"} => pc[p] \in {"save", "rule"}
        /\ pc'[p] # "save"
        /\ ip[p] \in silenced' =>
              \/ pc[p] = "silence"
              \/ ip[p] \in silenced /\ pc[p] \notin {"unStore", "unSilence"}
              \/ ip[p] \in silenced /\ pc[p] = "unStore" /\ pc'[p] = "unSilence"
    <2>1. CASE BlockStep(p)
      BY <1>2, <1>4, <2>1 DEF BlockStep, SaveNewBan, AddNewRule, FwBlockFails, Fault,
         SilenceNewBan, Silence, UndoMap, UndoStore, Goto, Reply, agent, UndoSteps, TypeOK
    <2>2. CASE ExtendStep(p)
      BY <1>2, <1>4, <2>2 DEF ExtendStep, SaveExtension, RemoveOldRule, AddLongerRule,
         RestoreRule, RestoreMap, RestoreStore, FwBlockFails, Fault, Goto, Reply, agent,
         UndoSteps, TypeOK
    <2>3. CASE UnblockStep(p)
      BY <1>2, <2>3 DEF UnblockStep, UnblockStore, UnblockSilence, Unsilence, UnblockRule,
         Goto, Reply, agent, UndoSteps, TypeOK
    <2> QED BY <2>1, <2>2, <2>3 DEF ProcStep
  <1>6. ASSUME NEW u \in Targets \ raced', u \in silenced'
        PROVE  blockedIPs'[u] # 0 \/ Unbanning(u)' \/ At(u, {"unStore", "unSilence"})'
    <2>1. CASE u = ip[p] /\ pc[p] = "silence"
      BY <1>1, <1>5, <1>6, <2>1 DEF SilenceTrue
    <2>2. CASE u = ip[p] /\ pc[p] = "unStore" /\ pc'[p] = "unSilence"
      BY <1>1, <2>2 DEF At, Replies
    <2>3. CASE u = ip[p] /\ u \in silenced /\ pc[p] \notin {"unStore", "unSilence"}
      <3>1. ~At(u, {"unStore", "unSilence"})
        BY <1>1, <1>6, <2>3 DEF At, Exclusion, Idle, Replies
      <3> QED BY <1>1, <1>5, <1>6, <2>3, <3>1 DEF SilenceTrue, Unbanning
    <2>4. CASE u # ip[p]
      BY <1>1, <1>3, <1>6, <2>4 DEF SilenceTrue, Unbanning, At
    <2> QED BY <1>5, <1>6, <2>1, <2>2, <2>3, <2>4
  <1> QED BY <1>1, <1>5, <1>6 DEF SilenceTrue, Replies

LEMMA OthersKeepSilenceTrue ==
  ASSUME Sound, SilenceTrue,
         \/ PassStep \/ CollectExpired \/ StartReconcile \/ PruneExpiredBans \/ Flush
         \/ Crash \/ Load \/ Tick \/ UNCHANGED vars
  PROVE  SilenceTrue'
  <1> USE DEF Sound
  <1>1. CASE UnsilenceExpired
    BY <1>1 DEF UnsilenceExpired, Unsilence, agent, calls, SilenceTrue, Unbanning, At, TypeOK
  <1>2. CASE PassStep /\ ~UnsilenceExpired
    <2>1. /\ UNCHANGED <<blockedIPs, pc, ip, raced, silenced>>
          /\ \A u \in Targets : Unbanning(u)' = Unbanning(u)
      BY <1>2, PassFrame DEF PassStep, ListRules, ReapplyRule, UnbanRule, ForgetBan,
         RecheckTarget, Continue, Unbanning
    <2> QED BY <2>1 DEF SilenceTrue, At
  <1>3. CASE CollectExpired
    <2>1. /\ UNCHANGED <<silenced, pc, ip>> /\ work' = Expired /\ mpc' = "unban"
          /\ mpc = "idle" /\ raced \subseteq raced'
          /\ \A u \in Targets : u \in Expired /\ Busy(u) => u \in raced'
          /\ \A u \in Targets : blockedIPs'[u] = IF u \in Expired THEN 0 ELSE blockedIPs[u]
      BY <1>3 DEF CollectExpired, DropEntries, Claim, calls
    <2>2. ASSUME NEW q \in Procs, pc[q] \in {"save", "rule", "silence"}, ip[q] \notin raced'
          PROVE  blockedIPs'[ip[q]] # 0
      <3>1. ip[q] \in Targets /\ ~Idle(q)
        BY <2>2 DEF Idle, Replies, TypeOK
      <3> QED BY <2>1, <2>2, <3>1 DEF SilenceTrue, Busy
    <2> QED BY <2>1, <2>2 DEF SilenceTrue, Unbanning, At
  <1>4. CASE StartReconcile
    BY <1>4 DEF StartReconcile, Claim, agent, calls, SilenceTrue, Unbanning, At
  <1>5. CASE PruneExpiredBans \/ Flush \/ Tick \/ UNCHANGED vars
    BY <1>5 DEF PruneExpiredBans, Flush, Tick, agent, calls, loop, vars, SilenceTrue,
       Unbanning, At
  <1>6. CASE Crash
    BY <1>6 DEF Crash, SilenceTrue, UndoSteps
  <1>7. CASE Load
    <2>1. /\ \A u \in silenced' : blockedIPs'[u] # 0
          /\ UNCHANGED <<pc, ip>> /\ phase = "down"
      BY <1>7 DEF Load, LoadBansFromStore, LoadBansFromFirewall, Restore, calls
    <2> QED BY <2>1 DEF SilenceTrue, Exclusion, Idle, Replies
  <1> QED BY <1>1, <1>2, <1>3, <1>4, <1>5, <1>6, <1>7

\* A target without an entry and without an operation in progress is watched
\* again, provided that no two operations ever overlapped on it and that no
\* firewall command fails: a lift that overtakes a block, and a failed block
\* over an expired entry, leave the silence (enforcer.go:439, 420).
THEOREM UnbannedIsWatched ==
  {"firewall", "permanent"} \cap Faults = {} => (Spec => []SilencedIsBanned)
  <1> SUFFICES ASSUME {"firewall", "permanent"} \cap Faults = {}
               PROVE  Spec => []SilencedIsBanned
    OBVIOUS
  <1>1. Init => SilenceTrue
    BY InitSilenceTrue
  <1>2. Sound /\ SilenceTrue /\ [Next]_vars => SilenceTrue'
    BY RequestKeepsSilenceTrue, ProcStepKeepsSilenceTrue, OthersKeepSilenceTrue DEF Next
  <1>3. SilenceTrue => SilencedIsBanned
    BY DEF SilenceTrue, SilencedIsBanned, Settled, Busy, Unbanning, At, Idle, Replies
  <1> QED BY <1>1, <1>2, <1>3, SoundInvariant, PTL DEF Spec

-----------------------------------------------------------------------------
(* The map and the firewall, for the backends whose rules carry no timeout. *)

\* A restart with a store restores bans the firewall may not know of.
Restores == HasStore /\ "crash" \in Faults
RulesAreKept ==
    /\ Explicit /\ "flush" \notin Faults
    /\ Restores => {"firewall", "list"} \cap Faults = {}

RuleTrue ==
    /\ \A t \in Targets : runtime[t] \in {0, Forever}
    /\ phase # "running" => "crash" \in Faults
    /\ phase = "loading" => HasStore
    /\ \A t \in Targets \ raced : phase # "down" /\ Live(t) =>
          \/ runtime[t] # 0
          \/ At(t, {"save", "rule", "undoMap"})
          \/ phase = "loading" /\ t \in work
    /\ \A p \in Procs : ip[p] \notin raced =>
          /\ pc[p] \in ExtendSteps \cup {"silence"} => runtime[ip[p]] # 0
          /\ pc[p] \in UnblockSteps \cup {"undoStore"} => blockedIPs[ip[p]] = 0
    /\ \A p \in Procs : pc[p] \notin {"extRemove", "extRestoreRule"}

LEMMA InitRuleTrue == Init => RuleTrue
  BY EnforcerAssumption
     DEF Init, RuleTrue, Live, ExtendSteps, UnblockSteps

\* Rules without a timeout are there or not, and only a removal takes one away.
LEMMA ExplicitRules ==
  ASSUME TypeOK, Explicit, \A u \in Targets : runtime[u] \in {0, Forever},
         NEW t \in Targets, NEW secs
  PROVE  /\ FwBlock(t, secs) => runtime'[t] # 0
         /\ FwBlockFails(t, secs) => "firewall" \in Faults \/ runtime'[t] # 0
         /\ FwBlock(t, secs) \/ FwBlockFails(t, secs) =>
               \A u \in Targets : runtime[u] # 0 => runtime'[u] # 0
         /\ FwBlock(t, secs) \/ FwBlockFails(t, secs) \/ FwUnblock(t) =>
               \A u \in Targets : runtime'[u] \in {0, Forever}
  <1>1. RuleEnd(secs) = Forever /\ Forever # 0
    BY EnforcerAssumption DEF RuleEnd
  <1> QED BY <1>1 DEF FwBlock, FwBlockFails, FwUnblock, AddRule, Fault, firewall, TypeOK

LEMMA RequestKeepsRuleTrue ==
  ASSUME Sound, RuleTrue, NEW p \in Procs, Request(p)
  PROVE  RuleTrue'
  <1> USE DEF Sound
  <1>1. /\ \A q \in Procs : q # p => pc'[q] = pc[q] /\ ip'[q] = ip[q]
        /\ phase = "running" /\ Idle(p) /\ raced \subseteq raced'
        /\ UNCHANGED <<now, phase, mpc, work, runtime>>
    BY RequestFrame, RequestEffect
  <1>2. CASE pc'[p] \in Replies /\ UNCHANGED <<blockedIPs, raced>>
    BY <1>1, <1>2 DEF RuleTrue, At, Live, Idle, Replies, ExtendSteps, UnblockSteps
  <1>3. CASE /\ ip'[p] \in Targets /\ (Busy(ip'[p]) => ip'[p] \in raced')
             /\ \A u \in Targets : u # ip'[p] => blockedIPs'[u] = blockedIPs[u]
             /\ Enters(p)
    <2>1. ASSUME ip'[p] \notin raced', pc'[p] = "extSave" PROVE runtime[ip'[p]] # 0
      <3>1. Live(ip'[p]) /\ ~Busy(ip'[p])
        BY <1>3, <2>1 DEF Enters
      <3>2. ~At(ip'[p], {"save", "rule", "undoMap"})
        BY <3>1 DEF At, Busy, Idle, Replies
      <3> QED BY <1>1, <1>3, <2>1, <3>1, <3>2 DEF RuleTrue
    <2>2. ASSUME NEW q \in Procs, ip'[q] \notin raced'
          PROVE  /\ pc'[q] \in ExtendSteps \cup {"silence"} => runtime'[ip'[q]] # 0
                 /\ pc'[q] \in UnblockSteps \cup {"undoStore"} => blockedIPs'[ip'[q]] = 0
      <3>1. CASE q = p
        BY <1>1, <1>3, <2>1, <2>2, <3>1 DEF Enters, ExtendSteps, UnblockSteps
      <3>2. CASE q # p /\ Idle(q)
        BY <1>1, <3>2 DEF Idle, Replies, ExtendSteps, UnblockSteps
      <3>3. CASE q # p /\ ~Idle(q)
        <4>1. ip[q] # ip'[p] /\ ip[q] \in Targets
          BY <1>1, <1>3, <2>2, <3>3 DEF Busy, TypeOK
        <4> QED BY <1>1, <1>3, <2>2, <3>3, <4>1 DEF RuleTrue
      <3> QED BY <3>1, <3>2, <3>3
    <2>3. ASSUME NEW u \in Targets \ raced', Live(u)'
          PROVE  runtime'[u] # 0 \/ At(u, {"save", "rule", "undoMap"})'
      <3>1. CASE u = ip'[p] /\ pc'[p] = "unStore"
        BY <1>1, <1>3, <2>3, <3>1, EnforcerAssumption DEF Enters, Live, TypeOK
      <3>2. CASE u = ip'[p] /\ pc'[p] = "extSave"
        BY <1>1, <2>1, <2>3, <3>2
      <3>3. CASE u = ip'[p] /\ pc'[p] = "save"
        BY <3>3 DEF At
      <3>4. CASE u # ip'[p]
        BY <1>1, <1>3, <2>3, <3>4 DEF RuleTrue, Live, At, Idle, Replies
      <3> QED BY <1>3, <3>1, <3>2, <3>3, <3>4 DEF Enters
    <2>4. \A q \in Procs : pc'[q] \notin {"extRemove", "extRestoreRule"}
      BY <1>1, <1>3 DEF RuleTrue, Enters
    <2> QED BY <1>1, <2>2, <2>3, <2>4 DEF RuleTrue
  <1> QED BY <1>2, <1>3, RequestEffect

LEMMA ProcStepKeepsRuleTrue ==
  ASSUME Sound, RuleTrue, Explicit, NEW p \in Procs, ProcStep(p)
  PROVE  RuleTrue'
  <1> USE DEF Sound
  <1>1. /\ ~Idle(p)
        /\ \A q \in Procs : q # p => pc'[q] = pc[q] /\ ip'[q] = ip[q]
        /\ pc'[p] \in Replies \/ ip'[p] = ip[p]
        /\ UNCHANGED <<now, phase, mpc, work, raced>>
    BY ProcStepFrame
  <1>2. ip[p] \in Targets /\ phase = "running"
    BY <1>1 DEF TypeOK, Exclusion
  <1>3. \A u \in Targets : u # ip[p] =>
          blockedIPs'[u] = blockedIPs[u] /\ runtime'[u] = runtime[u]
    BY ProcStepLocal
  <1>4. /\ \A secs : FwBlock(ip[p], secs) => runtime'[ip[p]] # 0
        /\ \A secs : FwBlock(ip[p], secs) \/ FwBlockFails(ip[p], secs) =>
              (runtime[ip[p]] # 0 => runtime'[ip[p]] # 0) /\ runtime'[ip[p]] \in {0, Forever}
        /\ FwUnblock(ip[p]) => runtime'[ip[p]] \in {0, Forever}
    BY <1>2, ExplicitRules DEF RuleTrue
  <1>5. /\ pc[p] \notin {"extRemove", "extRestoreRule"} /\ runtime[ip[p]] \in {0, Forever}
        /\ ip[p] \notin raced =>
              /\ pc[p] \in ExtendSteps \cup {"silence"} => runtime[ip[p]] # 0
              /\ pc[p] \in UnblockSteps \cup {"undoStore"} => blockedIPs[ip[p]] = 0
    BY <1>2 DEF RuleTrue
  \* On its own target: what the step leaves behind.
  <1>6. /\ runtime'[ip[p]] \in {0, Forever}
        /\ pc'[p] \notin {"extRemove", "extRestoreRule"}
        /\ ip[p] \notin raced =>
              \/ pc'[p] \in {"rule", "undoMap"}
              \/ /\ pc'[p] \in ExtendSteps \cup {"silence", "applied"}
                 /\ runtime'[ip[p]] # 0
              \/ pc'[p] = "failed" /\ (runtime'[ip[p]] # 0 \/ blockedIPs'[ip[p]] = 0)
              \/ /\ pc'[p] \in {"undoStore", "unSilence", "unRule", "unblocked"}
                 /\ blockedIPs'[ip[p]] = 0
    <2> USE DEF ExtendSteps, UnblockSteps
    <2>1. CASE BlockStep(p)
      BY <1>2, <1>4, <1>5, <2>1 DEF BlockStep, SaveNewBan, AddNewRule, SilenceNewBan, UndoMap,
         DropEntries, UndoStore, Goto, Reply, agent, firewall, TypeOK
    <2>2. CASE ExtendStep(p)
      BY <1>2, <1>4, <1>5, <2>2 DEF ExtendStep, SaveExtension, RemoveOldRule, AddLongerRule,
         RestoreRule, RestoreMap, RestoreStore, Goto, Reply, firewall, TypeOK
    <2>3. CASE UnblockStep(p)
      BY <1>2, <1>4, <1>5, <2>3 DEF UnblockStep, UnblockStore, UnblockSilence, UnblockRule,
         Goto, Reply, agent, firewall, TypeOK
    <2> QED BY <2>1, <2>2, <2>3 DEF ProcStep
  <1>7. ASSUME NEW u \in Targets \ raced', Live(u)'
        PROVE  runtime'[u] # 0 \/ At(u, {"save", "rule", "undoMap"})'
    <2>1. CASE u = ip[p]
      <3>1. blockedIPs'[ip[p]] # 0
        BY <1>1, <1>7, <2>1, EnforcerAssumption DEF Live, TypeOK
      <3>2. runtime'[ip[p]] # 0 \/ pc'[p] \in {"rule", "undoMap"}
        BY <1>1, <1>6, <1>7, <2>1, <3>1
      <3> QED BY <1>1, <2>1, <3>2 DEF At, Replies
    <2>2. CASE u # ip[p]
      BY <1>1, <1>2, <1>3, <1>7, <2>2 DEF RuleTrue, Live, At
    <2> QED BY <2>1, <2>2
  <1>8. ASSUME NEW q \in Procs, ip'[q] \notin raced'
        PROVE  /\ pc'[q] \in ExtendSteps \cup {"silence"} => runtime'[ip'[q]] # 0
               /\ pc'[q] \in UnblockSteps \cup {"undoStore"} => blockedIPs'[ip'[q]] = 0
    <2>1. CASE q = p
      BY <1>1, <1>6, <1>8, <2>1 DEF Replies, ExtendSteps, UnblockSteps
    <2>2. CASE q # p /\ Idle(q)
      BY <1>1, <2>2 DEF Idle, Replies, ExtendSteps, UnblockSteps
    <2>3. CASE q # p /\ ~Idle(q)
      <3>1. ip[q] # ip[p] /\ ip[q] \in Targets
        BY <1>1, <1>8, <2>3 DEF Exclusion, TypeOK
      <3> QED BY <1>1, <1>3, <1>8, <2>3, <3>1 DEF RuleTrue
    <2> QED BY <2>1, <2>2, <2>3
  <1>9. \A u \in Targets : runtime'[u] \in {0, Forever}
    BY <1>3, <1>6 DEF RuleTrue
  <1> QED BY <1>1, <1>2, <1>6, <1>7, <1>8, <1>9 DEF RuleTrue

LEMMA PassKeepsRuleTrue ==
  ASSUME Sound, BansSilenced, RuleTrue, RulesAreKept, PassStep
  PROVE  RuleTrue'
  <1> USE DEF Sound
  <1>1. /\ UNCHANGED <<now, blockedIPs, pc, ip, raced>>
        /\ work' \subseteq work /\ phase # "down" /\ phase' \in {phase, "running"}
        /\ cur \in Targets /\ work \subseteq Targets
    BY PassFrame, PassNeedsAgent DEF TypeOK
  <1>2. ASSUME NEW q \in Procs, ip'[q] \notin raced', phase' = phase \/ phase' = "running",
               \A u \in Targets : runtime[u] # 0 => runtime'[u] # 0
        PROVE  /\ pc'[q] \in ExtendSteps \cup {"silence"} => runtime'[ip'[q]] # 0
               /\ pc'[q] \in UnblockSteps \cup {"undoStore"} => blockedIPs'[ip'[q]] = 0
    BY <1>1, <1>2 DEF RuleTrue, TypeOK
  <1>3. CASE UnsilenceExpired
    <2>1. cur \in work /\ (cur \notin raced => blockedIPs[cur] = 0)
      BY <1>1, <1>3 DEF UnsilenceExpired, Exclusion, BansSilenced
    <2>2. cur \notin raced => ~Live(cur)
      BY <2>1, EnforcerAssumption DEF Live, TypeOK
    <2>3. UNCHANGED <<runtime, phase>> /\ work' = work \ {cur}
      BY <1>3 DEF UnsilenceExpired, firewall
    <2> QED BY <1>1, <2>2, <2>3 DEF RuleTrue, Live, At
  <1>4. ASSUME NEW t \in Targets, UnbanRule(t) PROVE RuleTrue'
    <2>1. t \in work /\ mpc = "unban" /\ UNCHANGED <<phase, work>> /\ FwUnblock(t)
      BY <1>4 DEF UnbanRule
    <2>2. /\ \A u \in Targets : runtime'[u] \in {0, Forever}
          /\ \A u \in Targets : u # t => runtime'[u] = runtime[u]
      BY <2>1, ExplicitRules, FirewallFrame DEF RuleTrue, RulesAreKept
    <2>3. t \notin raced => blockedIPs[t] = 0
      BY <2>1 DEF BansSilenced
    <2>4. t \notin raced => ~Live(t)
      BY <2>3, EnforcerAssumption DEF Live, TypeOK
    <2>5. ASSUME NEW q \in Procs, ip[q] \notin raced, pc[q] \in ExtendSteps \cup {"silence"}
          PROVE  ip[q] # t
      BY <2>1, <2>5 DEF Exclusion, Idle, Replies, ExtendSteps
    <2>6. \A u \in Targets \ raced' : phase' # "down" /\ Live(u)' =>
            \/ runtime'[u] # 0
            \/ At(u, {"save", "rule", "undoMap"})'
            \/ phase' = "loading" /\ u \in work'
      BY <1>1, <2>1, <2>2, <2>4 DEF RuleTrue, Live, At
    <2>7. \A q \in Procs : ip'[q] \notin raced' =>
            /\ pc'[q] \in ExtendSteps \cup {"silence"} => runtime'[ip'[q]] # 0
            /\ pc'[q] \in UnblockSteps \cup {"undoStore"} => blockedIPs'[ip'[q]] = 0
      BY <1>1, <2>2, <2>5 DEF RuleTrue, TypeOK
    <2> QED BY <1>1, <2>1, <2>2, <2>6, <2>7 DEF RuleTrue
  <1>5. ASSUME NEW t \in Targets, ForgetBan(t) PROVE RuleTrue'
    BY <1>1, <1>5 DEF ForgetBan, firewall, RuleTrue, Live, At
  \* In a pass that restores bans, a target leaves the list with its rule.
  <1>6. ASSUME NEW missing \in SUBSET work, Continue(missing),
               \A u \in Targets : runtime'[u] \in {0, Forever},
               \A u \in Targets : runtime[u] # 0 => runtime'[u] # 0,
               phase = "loading" =>
                  \A u \in work \ missing : u \in raced \/ ~Live(u) \/ runtime'[u] # 0
        PROVE  RuleTrue'
    <2>1. work' = missing /\ phase' = IF missing = {} THEN "running" ELSE phase
      BY <1>6 DEF Continue
    <2>2. \A u \in Targets \ raced' : phase' # "down" /\ Live(u)' =>
            \/ runtime'[u] # 0
            \/ At(u, {"save", "rule", "undoMap"})'
            \/ phase' = "loading" /\ u \in work'
      BY <1>1, <1>6, <2>1 DEF RuleTrue, Live, At
    <2>3. phase' # "running" => phase' = phase
      BY <2>1
    <2> QED BY <1>1, <1>2, <1>6, <2>2, <2>3 DEF RuleTrue
  <1>7. CASE ListRules
    <2>1. UNCHANGED runtime
      BY <1>7 DEF ListRules, firewall
    <2>2. CASE Continue(Missing(work))
      BY <1>1, <1>6, <2>1, <2>2 DEF Missing, RuleTrue
    <2>3. CASE "list" \in Faults /\ Continue({})
      <3>1. phase # "loading"
        BY <2>3 DEF RuleTrue, RulesAreKept, Restores
      <3> QED BY <1>6, <2>1, <2>3, <3>1 DEF RuleTrue
    <2> QED BY <1>7, <2>2, <2>3 DEF ListRules, Fault
  <1>8. ASSUME NEW t \in Targets, RecheckTarget(t) PROVE RuleTrue'
    <2>1. UNCHANGED runtime /\ t \in work
      BY <1>8 DEF RecheckTarget, firewall
    <2>2. CASE UNCHANGED <<phase, work>>
      BY <1>1, <2>1, <2>2 DEF RuleTrue, Live, At
    <2>3. CASE ~Live(t) /\ Continue(work \ {t})
      BY <1>6, <2>1, <2>3 DEF RuleTrue
    <2> QED BY <1>8, <2>2, <2>3 DEF RecheckTarget
  <1>9. CASE ReapplyRule
    <2>1. /\ FwBlock(cur, left[cur]) \/ FwBlockFails(cur, left[cur])
          /\ Continue(work \ {cur})
      BY <1>9 DEF ReapplyRule
    <2>2. phase = "loading" => "firewall" \notin Faults
      BY DEF RuleTrue, RulesAreKept, Restores
    <2>3. /\ \A u \in Targets : runtime'[u] \in {0, Forever}
          /\ \A u \in Targets : runtime[u] # 0 => runtime'[u] # 0
          /\ phase = "loading" => runtime'[cur] # 0
      BY <1>1, <2>1, <2>2, ExplicitRules DEF RuleTrue, RulesAreKept
    <2> QED BY <1>6, <2>1, <2>3
  <1> QED BY <1>3, <1>4, <1>5, <1>7, <1>8, <1>9 DEF PassStep

LEMMA EnvironmentKeepsRuleTrue ==
  ASSUME Sound, RuleTrue, RulesAreKept,
         \/ CollectExpired \/ StartReconcile \/ PruneExpiredBans \/ Flush \/ Crash
         \/ Load \/ Tick \/ UNCHANGED vars
  PROVE  RuleTrue'
  <1> USE DEF Sound
  <1>1. CASE CollectExpired
    <2>1. /\ UNCHANGED <<now, phase, runtime, pc, ip>> /\ phase = "running"
          /\ raced \subseteq raced'
          /\ \A u \in Targets : blockedIPs'[u] = IF u \in Expired THEN 0 ELSE blockedIPs[u]
      BY <1>1 DEF CollectExpired, DropEntries, Claim, firewall, calls
    <2>2. \A u \in Targets : Live(u)' => Live(u)
      BY <2>1, EnforcerAssumption DEF Live, TypeOK
    <2>3. \A q \in Procs : blockedIPs[ip[q]] = 0 => blockedIPs'[ip[q]] = 0
      BY <2>1 DEF TypeOK
    <2> QED BY <2>1, <2>2, <2>3 DEF RuleTrue, At
  <1>2. CASE StartReconcile
    BY <1>2 DEF StartReconcile, Claim, agent, firewall, calls, RuleTrue, Live, At
  <1>3. CASE PruneExpiredBans \/ UNCHANGED vars
    BY <1>3 DEF PruneExpiredBans, agent, firewall, calls, loop, vars, RuleTrue, Live, At
  <1>4. CASE Flush
    BY <1>4 DEF Flush, Fault, RulesAreKept
  <1>5. CASE Tick
    <2>1. \A u \in Targets : runtime'[u] = runtime[u]
      BY <1>5, EnforcerAssumption DEF Tick, RuleTrue, TypeOK
    <2>2. /\ UNCHANGED <<phase, blockedIPs, pc, ip, work, raced>>
          /\ \A u \in Targets : Live(u)' => Live(u)
      BY <1>5, EnforcerAssumption DEF Tick, agent, calls, loop, Live, TypeOK
    <2> QED BY <2>1, <2>2 DEF RuleTrue, At, TypeOK
  <1>6. CASE Crash
    <2>1. /\ "crash" \in Faults /\ phase' = "down" /\ runtime' = runtime
          /\ \A q \in Procs : pc'[q] = "idle"
      BY <1>6 DEF Crash, Fault, firewall
    <2> QED BY <2>1 DEF RuleTrue, ExtendSteps, UnblockSteps
  <1>7. CASE Load
    <2>1. UNCHANGED <<now, runtime, pc>> /\ phase = "down" /\ \A q \in Procs : Idle(q)
      BY <1>7 DEF Load, LoadBansFromStore, LoadBansFromFirewall, calls, firewall, Exclusion
    <2>2. /\ phase' # "running" => phase' = "loading" /\ HasStore
          /\ \A u \in Targets : Live(u)' =>
                runtime[u] # 0 \/ (phase' = "loading" /\ u \in work')
      <3>1. CASE LoadBansFromStore
        BY <2>1, <3>1, EnforcerAssumption
           DEF LoadBansFromStore, Restore, Snapshot, ActiveBans, Live, TypeOK
      <3>2. CASE LoadBansFromFirewall
        BY <2>1, <3>2, EnforcerAssumption DEF LoadBansFromFirewall, Restore, Live, TypeOK
      <3> QED BY <1>7, <3>1, <3>2 DEF Load
    <2> QED BY <2>1, <2>2 DEF RuleTrue, Idle, Replies, ExtendSteps, UnblockSteps
  <1> QED BY <1>1, <1>2, <1>3, <1>4, <1>5, <1>6, <1>7

\* With rules that carry no timeout, a live ban that nothing disturbs has its
\* rule: through failed commands, races on other targets and restarts, as long
\* as nobody flushes the firewall, and the pass that restores the rules of the
\* stored bans goes through (enforcer.go:829, 861).
THEOREM BansAreEnforced == RulesAreKept => (Spec => []RuleWhileBanned)
  <1> SUFFICES ASSUME RulesAreKept PROVE Spec => []RuleWhileBanned
    OBVIOUS
  <1>1. Init => RuleTrue
    BY InitRuleTrue
  <1>2. Sound /\ BansSilenced /\ RuleTrue /\ [Next]_vars => RuleTrue'
    BY RequestKeepsRuleTrue, ProcStepKeepsRuleTrue, PassKeepsRuleTrue,
       EnvironmentKeepsRuleTrue DEF Next, RulesAreKept
  <1>3. RuleTrue => RuleWhileBanned
    BY DEF RuleTrue, RuleWhileBanned, Settled, Busy, At, Idle, Replies
  <1> QED BY <1>1, <1>2, <1>3, BansSilencedInvariant, PTL DEF Spec

\* No firewall command fails, and the agent either never restarts or reads its
\* bans back from the rules it finds.
CommandsSucceed ==
    /\ Explicit /\ {"firewall", "permanent"} \cap Faults = {}
    /\ "crash" \in Faults => ~HasStore /\ "list" \notin Faults

\* A rule belongs to an entry, or to somebody who is about to remove it.
BeingRemoved(t) ==
    \/ At(t, UnblockSteps)
    \/ t \in work /\ mpc = "unban"
    \/ t \in work \ {cur} /\ mpc \in {"forget", "unsilence"}

OrphanFree ==
    /\ phase # "running" => "crash" \in Faults
    /\ \A t \in permanent : runtime[t] # 0
    /\ \A t \in Targets : runtime[t] \in {0, Forever}
    /\ \A t \in Targets \ raced : phase # "down" /\ runtime[t] # 0 =>
          blockedIPs[t] # 0 \/ BeingRemoved(t)
    /\ \A t \in Targets \ raced :
          t \in work /\ mpc \in {"list", "recheck", "reapply"} => blockedIPs[t] # 0
    /\ \A p \in Procs : pc[p] \in {"save", "rule", "silence"} /\ ip[p] \notin raced =>
          blockedIPs[ip[p]] # 0
    /\ \A p \in Procs : pc[p] \notin UndoSteps \cup {"extRemove"}

LEMMA InitOrphanFree == Init => OrphanFree
  BY EnforcerAssumption DEF Init, OrphanFree, UndoSteps

\* A command that succeeds makes the permanent configuration follow the rules.
LEMMA RulesFollowCommands ==
  ASSUME TypeOK, CommandsSucceed, \A u \in permanent : runtime[u] # 0,
         NEW t \in Targets, NEW secs
  PROVE  /\ ~FwBlockFails(t, secs)
         /\ FwBlock(t, secs) \/ FwUnblock(t) => \A u \in permanent' : runtime'[u] # 0
         /\ FwUnblock(t) => runtime'[t] = 0
  <1>1. RuleEnd(secs) # 0
    BY EnforcerAssumption DEF RuleEnd, CommandsSucceed
  <1> QED BY <1>1 DEF FwBlock, FwBlockFails, FwUnblock, AddRule, Fault, CommandsSucceed, TypeOK

LEMMA RequestKeepsOrphanFree ==
  ASSUME Sound, OrphanFree, NEW p \in Procs, Request(p)
  PROVE  OrphanFree'
  <1> USE DEF Sound
  <1>1. /\ \A q \in Procs : q # p => pc'[q] = pc[q] /\ ip'[q] = ip[q]
        /\ phase = "running" /\ Idle(p) /\ raced \subseteq raced'
        /\ UNCHANGED <<now, phase, mpc, work, cur, runtime>>
    BY RequestFrame, RequestEffect
  <1>2. UNCHANGED permanent
    BY RequestEffect
  <1>3. CASE pc'[p] \in Replies /\ UNCHANGED <<blockedIPs, raced>>
    BY <1>1, <1>2, <1>3 DEF OrphanFree, BeingRemoved, At, Idle, Replies, UnblockSteps, UndoSteps
  <1>4. CASE /\ ip'[p] \in Targets /\ (Busy(ip'[p]) => ip'[p] \in raced')
             /\ \A u \in Targets : u # ip'[p] => blockedIPs'[u] = blockedIPs[u]
             /\ Enters(p)
    <2>1. ttl'[p] \in Nat => Expires(ttl'[p]) # 0
      BY ExpiresIsPositive
    <2>2. ASSUME NEW q \in Procs, pc'[q] \in {"save", "rule", "silence"}, ip'[q] \notin raced'
          PROVE  blockedIPs'[ip'[q]] # 0
      <3>1. CASE q = p
        BY <1>4, <2>1, <2>2, <3>1 DEF Enters
      <3>2. CASE q # p
        <4>1. ~Idle(q) /\ ip[q] \in Targets
          BY <1>1, <2>2, <3>2 DEF Idle, Replies, TypeOK
        <4>2. ip[q] # ip'[p]
          BY <1>1, <1>4, <2>2, <3>2, <4>1 DEF Busy
        <4> QED BY <1>1, <1>4, <2>2, <3>2, <4>1, <4>2 DEF OrphanFree
      <3> QED BY <3>1, <3>2
    <2>3. ASSUME NEW u \in Targets \ raced', runtime'[u] # 0
          PROVE  blockedIPs'[u] # 0 \/ BeingRemoved(u)'
      <3>1. CASE u = ip'[p]
        BY <1>4, <2>1, <3>1 DEF Enters, BeingRemoved, At, UnblockSteps
      <3>2. CASE u # ip'[p]
        BY <1>1, <1>4, <2>3, <3>2 DEF OrphanFree, BeingRemoved, At, Idle, Replies, UnblockSteps
      <3> QED BY <3>1, <3>2
    <2>4. ASSUME NEW u \in Targets \ raced', u \in work', mpc' \in {"list", "recheck", "reapply"}
          PROVE  blockedIPs'[u] # 0
      <3>1. u # ip'[p]
        BY <1>1, <1>4, <2>4 DEF Busy
      <3> QED BY <1>1, <1>4, <2>4, <3>1 DEF OrphanFree
    <2>5. \A q \in Procs : pc'[q] \notin UndoSteps \cup {"extRemove"}
      BY <1>1, <1>4 DEF OrphanFree, Enters, UndoSteps
    <2> QED BY <1>1, <1>2, <2>2, <2>3, <2>4, <2>5 DEF OrphanFree
  <1> QED BY <1>3, <1>4, RequestEffect

LEMMA ProcStepKeepsOrphanFree ==
  ASSUME Sound, OrphanFree, CommandsSucceed, NEW p \in Procs, ProcStep(p)
  PROVE  OrphanFree'
  <1> USE DEF Sound
  <1>1. /\ ~Idle(p)
        /\ \A q \in Procs : q # p => pc'[q] = pc[q] /\ ip'[q] = ip[q]
        /\ pc'[p] \in Replies \/ ip'[p] = ip[p]
        /\ UNCHANGED <<now, phase, mpc, work, cur, raced>>
    BY ProcStepFrame
  <1>2. ip[p] \in Targets
    BY DEF TypeOK
  <1>3. \A u \in Targets : u # ip[p] => runtime'[u] = runtime[u]
    BY ProcStepLocal
  <1>4. /\ \A secs : ~FwBlockFails(ip[p], secs)
        /\ \A secs : FwBlock(ip[p], secs) \/ FwUnblock(ip[p]) =>
             /\ \A u \in permanent' : runtime'[u] # 0
             /\ \A u \in Targets : runtime'[u] \in {0, Forever}
        /\ FwUnblock(ip[p]) => runtime'[ip[p]] = 0
    BY <1>2, RulesFollowCommands, ExplicitRules DEF OrphanFree, CommandsSucceed
  <1>5. /\ pc[p] \notin UndoSteps \cup {"extRemove"}
        /\ pc[p] \in {"save", "rule", "silence"} \cup ExtendSteps /\ ip[p] \notin raced =>
              blockedIPs[ip[p]] # 0
    BY <1>2 DEF OrphanFree, Indexed
  \* On its own target: the entry stays with the rule until the rule is removed.
  <1>6. /\ UNCHANGED blockedIPs
        /\ pc'[p] \notin UndoSteps \cup {"extRemove"}
        /\ pc'[p] \in {"rule", "silence"} => pc[p] \in {"save", "rule"}
        /\ pc'[p] # "save"
        /\ \/ pc[p] \in {"save", "rule", "silence"} \cup ExtendSteps
           \/ pc'[p] \in UnblockSteps
           \/ runtime'[ip[p]] = 0
        /\ \A u \in permanent' : runtime'[u] # 0
        /\ \A u \in Targets : runtime'[u] \in {0, Forever}
    <2> USE DEF UndoSteps, ExtendSteps, UnblockSteps
    <2>1. CASE BlockStep(p)
      BY <1>2, <1>4, <1>5, <2>1 DEF BlockStep, SaveNewBan, AddNewRule, SilenceNewBan, UndoMap,
         UndoStore, Goto, Reply, agent, firewall, OrphanFree, TypeOK
    <2>2. CASE ExtendStep(p)
      BY <1>2, <1>4, <1>5, <2>2 DEF ExtendStep, SaveExtension, RemoveOldRule, AddLongerRule,
         RestoreRule, RestoreMap, RestoreStore, Goto, Reply, agent, firewall, CommandsSucceed,
         OrphanFree, TypeOK
    <2>3. CASE UnblockStep(p)
      BY <1>2, <1>4, <1>5, <2>3 DEF UnblockStep, UnblockStore, UnblockSilence, UnblockRule,
         Goto, Reply, agent, firewall, OrphanFree, TypeOK
    <2> QED BY <2>1, <2>2, <2>3 DEF ProcStep
  <1>7. ASSUME NEW u \in Targets \ raced', phase' # "down", runtime'[u] # 0
        PROVE  blockedIPs'[u] # 0 \/ BeingRemoved(u)'
    <2>1. CASE u = ip[p]
      BY <1>1, <1>5, <1>6, <1>7, <2>1 DEF BeingRemoved, At, Replies, UnblockSteps
    <2>2. CASE u # ip[p]
      BY <1>1, <1>3, <1>6, <1>7, <2>2 DEF OrphanFree, BeingRemoved, At
    <2> QED BY <2>1, <2>2
  <1>8. ASSUME NEW q \in Procs, pc'[q] \in {"save", "rule", "silence"}, ip'[q] \notin raced'
        PROVE  blockedIPs'[ip'[q]] # 0
    BY <1>1, <1>5, <1>6, <1>8 DEF OrphanFree, Replies
  <1>9. \A q \in Procs : pc'[q] \notin UndoSteps \cup {"extRemove"}
    BY <1>1, <1>6 DEF OrphanFree
  <1> QED BY <1>1, <1>6, <1>7, <1>8, <1>9 DEF OrphanFree

LEMMA PassKeepsOrphanFree ==
  ASSUME Sound, OrphanFree, CommandsSucceed, PassStep
  PROVE  OrphanFree'
  <1> USE DEF Sound
  <1>1. /\ UNCHANGED <<now, blockedIPs, pc, ip, raced>>
        /\ work' \subseteq work /\ phase # "down" /\ phase' \in {phase, "running"}
        /\ cur \in Targets /\ work \subseteq Targets
    BY PassFrame, PassNeedsAgent DEF TypeOK
  <1>2. /\ \A t \in Targets : \A secs : ~FwBlockFails(t, secs)
        /\ \A t \in Targets : \A secs : FwBlock(t, secs) \/ FwUnblock(t) =>
             /\ \A u \in permanent' : runtime'[u] # 0
             /\ \A u \in Targets : runtime'[u] \in {0, Forever}
             /\ \A u \in Targets : u # t => runtime'[u] = runtime[u]
        /\ \A t \in Targets : FwUnblock(t) => runtime'[t] = 0
    BY RulesFollowCommands, ExplicitRules, FirewallFrame DEF OrphanFree, CommandsSucceed
  <1>3. CASE UnsilenceExpired
    BY <1>1, <1>3 DEF UnsilenceExpired, firewall, OrphanFree, BeingRemoved, At
  <1>4. ASSUME NEW t \in Targets, UnbanRule(t) PROVE OrphanFree'
    <2>1. /\ FwUnblock(t) /\ UNCHANGED <<phase, work>> /\ cur' = t
          /\ mpc = "unban" /\ mpc' = "forget"
      BY <1>4 DEF UnbanRule
    <2>2. ASSUME NEW u \in Targets \ raced, runtime'[u] # 0
          PROVE  blockedIPs'[u] # 0 \/ BeingRemoved(u)'
      <3>1. u # t /\ runtime'[u] = runtime[u]
        BY <1>2, <2>1, <2>2
      <3> QED BY <1>1, <2>1, <2>2, <3>1 DEF OrphanFree, BeingRemoved, At
    <2> QED BY <1>1, <1>2, <2>1, <2>2 DEF OrphanFree
  <1>5. ASSUME NEW t \in Targets, ForgetBan(t) PROVE OrphanFree'
    <2>1. /\ mpc = "forget" /\ t = cur /\ cur' = cur /\ mpc' = "unsilence"
          /\ UNCHANGED <<phase, work, runtime, permanent>>
      BY <1>5 DEF ForgetBan, CommandsSucceed, firewall
    <2> QED BY <1>1, <2>1 DEF OrphanFree, BeingRemoved, At
  <1>6. CASE ListRules \/ \E t \in Targets : RecheckTarget(t)
    <2>1. /\ UNCHANGED <<runtime, permanent>>
          /\ mpc \in {"list", "recheck"} /\ mpc' \in {"idle", "recheck", "reapply"}
          /\ phase' # "running" => phase # "running"
      BY <1>6 DEF ListRules, RecheckTarget, Continue, firewall
    <2> QED BY <1>1, <2>1 DEF OrphanFree, BeingRemoved, At
  <1>7. CASE ReapplyRule
    <2>1. /\ FwBlock(cur, left[cur])
          /\ mpc = "reapply" /\ mpc' \in {"idle", "recheck"} /\ cur \in work
          /\ phase' # "running" => phase # "running"
      BY <1>1, <1>2, <1>7 DEF ReapplyRule, Continue, Exclusion
    <2>2. ASSUME NEW u \in Targets \ raced, runtime'[u] # 0
          PROVE  blockedIPs'[u] # 0 \/ BeingRemoved(u)'
      <3>1. CASE u = cur
        BY <1>1, <2>1, <2>2, <3>1 DEF OrphanFree
      <3>2. CASE u # cur
        BY <1>1, <1>2, <2>1, <2>2, <3>2 DEF OrphanFree, BeingRemoved, At
      <3> QED BY <3>1, <3>2
    <2> QED BY <1>1, <1>2, <2>1, <2>2 DEF OrphanFree
  <1> QED BY <1>3, <1>4, <1>5, <1>6, <1>7 DEF PassStep

LEMMA EnvironmentKeepsOrphanFree ==
  ASSUME Sound, OrphanFree, CommandsSucceed,
         \/ CollectExpired \/ StartReconcile \/ PruneExpiredBans \/ Flush \/ Crash
         \/ Load \/ Tick \/ UNCHANGED vars
  PROVE  OrphanFree'
  <1> USE DEF Sound
  <1>1. CASE CollectExpired
    <2>1. /\ UNCHANGED <<runtime, permanent, phase, pc, ip>> /\ raced \subseteq raced'
          /\ mpc = "idle" /\ mpc' = "unban" /\ work' = Expired
          /\ \A u \in Targets : u \in Expired /\ Busy(u) => u \in raced'
          /\ \A u \in Targets : blockedIPs'[u] = IF u \in Expired THEN 0 ELSE blockedIPs[u]
      BY <1>1 DEF CollectExpired, DropEntries, Claim, firewall, calls
    <2>2. ASSUME NEW q \in Procs, pc[q] \in {"save", "rule", "silence"}, ip[q] \notin raced'
          PROVE  blockedIPs'[ip[q]] # 0
      <3>1. ip[q] \in Targets /\ ~Idle(q)
        BY <2>2 DEF Idle, Replies, TypeOK
      <3> QED BY <2>1, <2>2, <3>1 DEF OrphanFree, Busy
    <2>3. ASSUME NEW u \in Targets \ raced', runtime[u] # 0, phase # "down"
          PROVE  blockedIPs'[u] # 0 \/ BeingRemoved(u)'
      BY <2>1, <2>3 DEF OrphanFree, BeingRemoved, At
    <2> QED BY <2>1, <2>2, <2>3 DEF OrphanFree
  <1>2. CASE StartReconcile
    <2>1. /\ UNCHANGED <<runtime, permanent, phase, pc, ip, blockedIPs>> /\ raced \subseteq raced'
          /\ mpc = "idle" /\ mpc' = "list" /\ \A u \in work' : u \in Targets /\ Live(u)
      BY <1>2 DEF StartReconcile, Snapshot, Claim, agent, firewall, calls, Live
    <2>2. \A u \in Targets : Live(u) => blockedIPs[u] # 0
      BY EnforcerAssumption DEF Live, TypeOK
    <2> QED BY <2>1, <2>2 DEF OrphanFree, BeingRemoved, At
  <1>3. CASE PruneExpiredBans \/ UNCHANGED vars
    BY <1>3 DEF PruneExpiredBans, agent, firewall, calls, loop, vars, OrphanFree, BeingRemoved, At
  <1>4. CASE Flush
    <2>1. /\ UNCHANGED <<phase, blockedIPs, permanent, pc, ip, mpc, work, cur, raced>>
          /\ \A u \in Targets : runtime'[u] = IF u \in permanent THEN Forever ELSE 0
      BY <1>4 DEF Flush, agent, calls, loop
    <2>2. Forever # 0 /\ permanent \subseteq Targets
      BY EnforcerAssumption DEF TypeOK
    <2> QED BY <2>1, <2>2 DEF OrphanFree, BeingRemoved, At
  <1>5. CASE Tick
    <2>1. \A u \in Targets : runtime'[u] = runtime[u]
      BY <1>5, EnforcerAssumption DEF Tick, OrphanFree, TypeOK
    <2>2. UNCHANGED <<phase, blockedIPs, permanent, pc, ip, mpc, work, cur, raced>>
      BY <1>5 DEF Tick, agent, calls, loop
    <2>3. permanent \subseteq Targets
      BY DEF TypeOK
    <2> QED BY <2>1, <2>2, <2>3 DEF OrphanFree, BeingRemoved, At
  <1>6. CASE Crash
    BY <1>6 DEF Crash, Fault, firewall, OrphanFree, UndoSteps
  <1>7. CASE Load
    <2>1. /\ UNCHANGED <<runtime, permanent, pc, ip, raced>> /\ phase = "down"
          /\ ~HasStore /\ "list" \notin Faults
      BY <1>7 DEF Load, LoadBansFromStore, LoadBansFromFirewall, calls, firewall, OrphanFree,
         CommandsSucceed
    <2>2. phase' = "running" /\ UNCHANGED <<mpc, work, cur>>
      BY <1>7, <2>1 DEF Load, LoadBansFromStore, LoadBansFromFirewall, loop
    <2>3. \A u \in Targets : blockedIPs'[u] = IF runtime[u] # 0 THEN Expires(BanSeconds) ELSE 0
      BY <1>7, <2>1 DEF Load, LoadBansFromStore, LoadBansFromFirewall, Restore
    <2>4. Expires(BanSeconds) # 0
      BY ExpiresIsPositive, EnforcerAssumption
    <2> QED BY <2>1, <2>2, <2>3, <2>4 DEF OrphanFree, Exclusion, Idle, Replies
  <1> QED BY <1>1, <1>2, <1>3, <1>4, <1>5, <1>6, <1>7

\* A target nobody works on, and on which no two operations ever overlapped, has
\* no rule the agent has forgotten, provided that commands succeed and that the
\* agent does not restart or, without a store, reads the rules back: the backends
\* whose rules carry no timeout rely on the agent alone to remove them
\* (enforcer.go:208).  With a store a restart forgets rules: NoRuleWithoutBan.
THEOREM RulesHaveOwners == CommandsSucceed => (Spec => []NoOrphanRule)
  <1> SUFFICES ASSUME CommandsSucceed PROVE Spec => []NoOrphanRule
    OBVIOUS
  <1>1. Init => OrphanFree
    BY InitOrphanFree
  <1>2. Sound /\ OrphanFree /\ [Next]_vars => OrphanFree'
    BY RequestKeepsOrphanFree, ProcStepKeepsOrphanFree, PassKeepsOrphanFree,
       EnvironmentKeepsOrphanFree DEF Next
  <1>3. Sound /\ OrphanFree => NoOrphanRule
    BY EnforcerAssumption
       DEF Sound, TypeOK, OrphanFree, BeingRemoved, NoOrphanRule, Settled, Busy, At, Idle,
           Replies, UnblockSteps, CommandsSucceed
  <1> QED BY <1>1, <1>2, <1>3, SoundInvariant, PTL DEF Spec

-----------------------------------------------------------------------------
(* Exempt targets.                                                         *)

Exempted ==
    /\ ExemptUntouched
    /\ \A p \in Procs : pc[p] \in BlockSteps \cup ExtendSteps => ~Exempt(ip[p])
    /\ mpc = "reapply" => ~Exempt(cur)

LEMMA InitExempted == Init => Exempted
  BY EnforcerAssumption
     DEF Init, Exempted, ExemptUntouched, Exempt, Replies, BlockSteps, ExtendSteps

\* The veto of blockIPWithTTL covers every exempt target.
LEMMA ExemptIsVetoed ==
  ASSUME NEW p \in Procs, NEW t \in Targets, NEW secs, Asks(p, t, secs), ~Vetoed(p, t)
  PROVE  ~Exempt(t)
  BY EnforcerAssumption DEF Asks, Vetoed, Exempt, Procs

LEMMA NextKeepsExempted == TypeOK /\ Exempted /\ [Next]_vars => Exempted'
  <1> SUFFICES ASSUME TypeOK, Exempted, [Next]_vars PROVE Exempted'
    OBVIOUS
  <1> DEFINE Clean == \A t \in Targets : Exempt(t) =>
               /\ blockedIPs'[t] = 0 /\ t \notin blockedNets' /\ bans'[t] = 0
               /\ t \notin silenced' /\ runtime'[t] = 0 /\ t \notin permanent'
  <1>0. \A t : Exempt(t)' <=> Exempt(t)
    BY DEF Exempt
  <1> USE DEF Exempted, ExemptUntouched, BlockSteps, ExtendSteps
  <1> HIDE DEF Exempt
  <1>1. ASSUME NEW p \in Procs, Request(p) PROVE Exempted'
    <2>1. \A q \in Procs : q # p => pc'[q] = pc[q] /\ ip'[q] = ip[q]
      BY <1>1, RequestFrame
    <2>2. UNCHANGED <<bans, silenced, runtime, permanent, mpc, cur>>
      BY <1>1 DEF Request, StartUnblock, SkipBlock, DuplicateBlock, StartExtension,
         StartBlock, Accept, firewall, loop
    <2>3. PICK t \in Targets :
            \/ StartUnblock(p, t)
            \/ \E secs \in Durations :
                  \/ SkipBlock(p, t, secs) \/ DuplicateBlock(p, t, secs)
                  \/ StartExtension(p, t, secs) \/ StartBlock(p, t, secs)
      BY <1>1 DEF Request
    <2>4. CASE StartUnblock(p, t)
      BY <1>0, <2>1, <2>2, <2>4 DEF StartUnblock, DropEntries, Goto, TypeOK
    <2>5. ASSUME NEW secs \in Durations, SkipBlock(p, t, secs) \/ DuplicateBlock(p, t, secs)
          PROVE  Exempted'
      BY <1>0, <2>1, <2>2, <2>5 DEF SkipBlock, DuplicateBlock, Goto, agent, TypeOK
    <2>6. ASSUME NEW secs \in Durations, StartExtension(p, t, secs) \/ StartBlock(p, t, secs)
          PROVE  Exempted'
      <3>1. ~Exempt(t)
        BY <2>6, ExemptIsVetoed DEF StartExtension, StartBlock
      <3> QED BY <1>0, <2>1, <2>2, <2>6, <3>1
              DEF StartExtension, StartBlock, PutEntry, Goto, SetFrame, TypeOK
    <2> QED BY <2>3, <2>4, <2>5, <2>6
  <1>2. ASSUME NEW p \in Procs, ProcStep(p) PROVE Exempted'
    <2>1. /\ UNCHANGED <<mpc, cur>>
          /\ \A q \in Procs : q # p => pc'[q] = pc[q] /\ ip'[q] = ip[q]
          /\ pc'[p] \in Replies \/ ip'[p] = ip[p]
      BY <1>2, ProcStepFrame
    <2>2. ip[p] \in Targets /\ \A secs :
             FwBlock(ip[p], secs) \/ FwBlockFails(ip[p], secs) \/ FwUnblock(ip[p]) =>
               \A u \in Targets : u # ip[p] =>
                 runtime'[u] = runtime[u] /\ (u \in permanent' => u \in permanent)
      BY FirewallFrame DEF TypeOK
    <2>3. \A e : WriteBan(ip[p], e) =>
             \A u \in Targets : (u # ip[p] \/ e = 0) /\ bans[u] = 0 => bans'[u] = 0
      BY <2>2, StoreFrame
    <2>4. CASE BlockStep(p)
      <3>1. pc[p] \in BlockSteps /\ ~Exempt(ip[p]) /\ (pc'[p] \in BlockSteps \cup Replies)
        BY <2>4 DEF BlockStep, SaveNewBan, AddNewRule, SilenceNewBan, UndoMap, UndoStore,
           Goto, Reply, Replies, TypeOK
      <3>2. Clean
        BY <2>2, <2>3, <2>4, <3>1 DEF BlockStep, SaveNewBan, SaveBan, AddNewRule,
           SilenceNewBan, Silence, UndoMap, DropEntries, UndoStore, DeleteBan, agent, firewall, TypeOK
      <3> QED BY <1>0, <2>1, <3>1, <3>2 DEF Replies
    <2>5. CASE ExtendStep(p)
      <3>1. pc[p] \in ExtendSteps /\ ~Exempt(ip[p]) /\ (pc'[p] \in ExtendSteps \cup Replies)
        BY <2>5 DEF ExtendStep, SaveExtension, RemoveOldRule, AddLongerRule, RestoreRule,
           RestoreMap, RestoreStore, Goto, Reply, Replies, TypeOK
      <3>2. Clean
        BY <2>2, <2>3, <2>5, <3>1 DEF ExtendStep, SaveExtension, SaveBan, RemoveOldRule,
           AddLongerRule, RestoreRule, RestoreMap, RestoreStore, agent, firewall, TypeOK
      <3> QED BY <1>0, <2>1, <3>1, <3>2 DEF Replies
    <2>6. CASE UnblockStep(p)
      <3>1. pc'[p] \in UnblockSteps \cup Replies
        BY <2>6 DEF UnblockStep, UnblockStore, UnblockSilence, UnblockRule, Goto, Reply,
           Replies, UnblockSteps, TypeOK
      <3>2. Clean
        BY <2>2, <2>3, <2>6, RemovalAddsNothing DEF UnblockStep, UnblockStore, DeleteBan,
           UnblockSilence, Unsilence, UnblockRule, agent, firewall
      <3> QED BY <1>0, <2>1, <3>1, <3>2 DEF Replies, UnblockSteps
    <2> QED BY <1>2, <2>4, <2>5, <2>6 DEF ProcStep
  <1>3. CASE CollectExpired
    BY <1>0, <1>3 DEF CollectExpired, DropEntries, firewall, calls, TypeOK
  <1>4. CASE StartReconcile
    BY <1>0, <1>4 DEF StartReconcile, agent, firewall, calls
  <1>5. CASE PassStep
    <2>0. UNCHANGED <<blockedIPs, blockedNets, pc, ip>>
      BY <1>5 DEF PassStep, UnsilenceExpired, ListRules, ReapplyRule, UnbanRule,
         ForgetBan, RecheckTarget, agent, calls
    <2>1. CASE UnsilenceExpired
      BY <1>0, <2>0, <2>1 DEF UnsilenceExpired, Unsilence, firewall
    <2>2. CASE ListRules
      BY <1>0, <2>0, <2>2 DEF ListRules, Continue, firewall
    <2>3. CASE ReapplyRule
      <3>1. ~Exempt(cur) /\ cur \in Targets
        BY <2>3 DEF ReapplyRule, TypeOK
      <3>2. \A u \in Targets : u # cur =>
               runtime'[u] = runtime[u] /\ (u \in permanent' => u \in permanent)
        BY <2>3, <3>1, FirewallFrame DEF ReapplyRule
      <3> QED BY <1>0, <2>0, <2>3, <3>1, <3>2 DEF ReapplyRule, Continue
    <2>4. ASSUME NEW t \in Targets, UnbanRule(t) PROVE Exempted'
      BY <1>0, <2>0, <2>4, RemovalAddsNothing DEF UnbanRule
    <2>5. ASSUME NEW t \in Targets, ForgetBan(t) PROVE Exempted'
      BY <1>0, <2>0, <2>5, StoreFrame DEF ForgetBan, DeleteBan, firewall
    <2>6. ASSUME NEW t \in Targets, RecheckTarget(t) PROVE Exempted'
      <3>1. Live(t) => ~Exempt(t)
        BY DEF Live, TypeOK
      <3> QED BY <1>0, <2>0, <2>6, <3>1 DEF RecheckTarget, Continue, firewall
    <2> QED BY <1>5, <2>1, <2>2, <2>3, <2>4, <2>5, <2>6 DEF PassStep
  <1>6. CASE PruneExpiredBans \/ UNCHANGED vars
    BY <1>0, <1>6 DEF PruneExpiredBans, agent, firewall, calls, loop, vars
  <1>7. CASE Flush \/ Tick
    BY <1>0, <1>7 DEF Flush, Tick, agent, calls, loop
  <1>8. CASE Crash
    BY <1>0, <1>8, EnforcerAssumption DEF Crash, firewall, TypeOK
  <1>9. CASE Load
    <2>1. UNCHANGED <<bans, runtime, permanent, pc, ip, cur>>
      BY <1>9 DEF Load, LoadBansFromStore, LoadBansFromFirewall, firewall, calls, loop
    <2>2. Clean
      BY <1>9, <2>1, EnforcerAssumption DEF Load, LoadBansFromStore, LoadBansFromFirewall, Restore, ActiveBans, firewall
    <2> QED BY <1>0, <1>9, <2>2
            DEF Load, LoadBansFromStore, LoadBansFromFirewall, calls, loop
  <1> QED BY <1>1, <1>2, <1>3, <1>4, <1>5, <1>6, <1>7, <1>8, <1>9 DEF Next

\* Private ranges are never entered, stored, silenced or blocked, nor are the
\* addresses of an allowed country unless the operator asks for it, and no
\* restart or reconcile pass brings one in (enforcer.go:339, 357).
THEOREM ExemptNeverTouched == Spec => []ExemptUntouched
  <1>1. Init => TypeOK /\ Exempted
    BY InitType, InitExempted
  <1>2. TypeOK /\ Exempted /\ [Next]_vars => (TypeOK /\ Exempted)'
    BY NextKeepsType, NextKeepsExempted
  <1>3. Exempted => ExemptUntouched
    BY DEF Exempted
  <1> QED BY <1>1, <1>2, <1>3, PTL DEF Spec
=============================================================================
