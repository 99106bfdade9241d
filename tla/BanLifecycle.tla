---------------------------- MODULE BanLifecycle ----------------------------
(***************************************************************************)
(* What the operator may rely on about one block target, as seen through   *)
(* BlockedIPs and IsBlocked: when its ban may appear, grow, go back or     *)
(* disappear, and that a restart neither shortens nor revives it.          *)
(***************************************************************************)
EXTENDS Integers

VARIABLES
    clock,
    up,       \* the agent is running
    ban,      \* expiry of the ban, 0 = none
    open,     \* somebody is working on the target
    before,   \* the ban an extension in progress replaced, 0 = none
    kept,     \* what survives a stop, 0 = nothing; meaningful while down
    covered   \* FALSE once two operations overlapped: nothing is promised

lifecycleVars == <<clock, up, ban, open, before, kept, covered>>

LifecycleInit ==
    /\ clock = 0 /\ up = TRUE /\ ban = 0 /\ open = FALSE
    /\ before = 0 /\ kept = 0 /\ covered = TRUE

Begin == up /\ up' /\ ~open /\ open' /\ UNCHANGED <<clock, kept, covered>>
Within == up /\ up' /\ open /\ UNCHANGED <<clock, kept, covered>>

Impose == Begin /\ ban <= clock /\ ban' > clock /\ before' = 0
Extend == Begin /\ ban > clock /\ ban' > ban /\ before' = ban
Lift == Begin /\ ban' = 0 /\ before' = 0
Purge == Begin /\ ban < clock /\ ban' = 0 /\ before' = 0
Inspect == Begin /\ ban' = ban /\ before' = 0

\* A failed operation puts back what it found.
Withdraw == Within /\ open' /\ ban' = before /\ before' = before
Settle == Within /\ ~open' /\ ban' = ban /\ before' = 0

\* An undisturbed live ban is kept whole, and nothing else comes back to life.
Stop ==
    /\ up /\ ~up'
    /\ ~open => /\ ban > clock => kept' >= ban
                /\ kept' > clock => ban # 0
    /\ ban' = 0 /\ open' = FALSE /\ before' = 0
    /\ UNCHANGED <<clock, covered>>

Recover ==
    /\ ~up /\ up'
    /\ ban' = (IF kept > clock THEN kept ELSE 0)
    /\ before' = 0 /\ kept' = 0
    /\ UNCHANGED <<clock, covered>>

Advance ==
    /\ clock' = clock + 1
    /\ UNCHANGED <<up, ban, open, before, kept, covered>>

Disown == covered /\ ~covered' /\ UNCHANGED clock

LifecycleNext ==
    \/ Impose \/ Extend \/ Lift \/ Purge \/ Inspect \/ Withdraw \/ Settle
    \/ Stop \/ Recover \/ Advance \/ Disown

LifecycleSpec == LifecycleInit /\ [][LifecycleNext]_lifecycleVars
=============================================================================
