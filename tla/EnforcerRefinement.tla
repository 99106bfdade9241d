------------------------- MODULE EnforcerRefinement -------------------------
(***************************************************************************)
(* The five-way ban state of Enforcer, seen target by target, implements   *)
(* BanLifecycle.                                                           *)
(***************************************************************************)
EXTENDS Enforcer

\* What the operator sees of t, as long as no two goroutines overlap on it.
Covered(t) == t \notin raced
Up(t) == Covered(t) /\ phase # "down"
Ban(t) == IF Covered(t) THEN blockedIPs[t] ELSE 0
Open(t) == Covered(t) /\ Busy(t)
Extending(t) == {p \in Procs : pc[p] \in ExtendSteps /\ ip[p] = t}
Before(t) ==
    IF Covered(t) /\ Extending(t) # {} THEN prev[CHOOSE p \in Extending(t) : TRUE] ELSE 0
Kept(t) == IF Covered(t) /\ phase = "down" THEN bans[t] ELSE 0

Lifecycle(t) == INSTANCE BanLifecycle WITH
    clock <- now, up <- Up(t), ban <- Ban(t), open <- Open(t),
    before <- Before(t), kept <- Kept(t), covered <- Covered(t)

FollowsLifecycle(t) ==
    \/ Lifecycle(t)!LifecycleNext
    \/ UNCHANGED Lifecycle(t)!lifecycleVars

\* Whatever interleaves and fails on other targets, the ban of a target that
\* two goroutines never worked on at once changes only as BanLifecycle allows:
\* a failed extension returns to the previous ban, a restart restores it from
\* the store (enforcer.go:326, 497, 821).
BansFollowLifecycle ==
    /\ \A t \in Targets : Lifecycle(t)!LifecycleInit
    /\ [][\A t \in Targets : FollowsLifecycle(t)]_vars
=============================================================================
