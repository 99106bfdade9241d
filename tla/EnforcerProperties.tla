------------------------- MODULE EnforcerProperties -------------------------
(***************************************************************************)
(* What the ban life cycle of module Enforcer promises.                    *)
(***************************************************************************)
EXTENDS Enforcer

\* No operation on t is in flight and no two ever overlapped.
Settled(t) == phase = "running" /\ ~Busy(t) /\ t \notin raced

\* The CIDR index consulted by IsBlocked and GetBlockedIP (enforcer.go:743)
\* never names a range that the map has dropped, whatever interleaves; and a
\* range that was never worked on by two goroutines at once is always indexed,
\* through failures, extensions and restarts.
IndexAgrees ==
    /\ \A t \in blockedNets : blockedIPs[t] # 0
    /\ \A t \in Nets : blockedIPs[t] # 0 /\ t \notin raced => t \in blockedNets

\* A banned target is silenced in the engine as soon as its block is over and
\* for as long as its entry stays, whatever fails (enforcer.go:436).
BannedIsSilenced ==
    \A t \in Targets : Settled(t) /\ blockedIPs[t] # 0 => t \in silenced

\* A target without an entry is watched again (enforcer.go:221, 1102), unless
\* two operations ever overlapped on it.  Needs every firewall command to
\* succeed; what happens otherwise is FailedBlockIsWatched.
SilencedIsBanned ==
    \A t \in Targets : Settled(t) /\ t \in silenced => blockedIPs[t] # 0

\* The row of a live ban lasts at least as long as its entry, so a restart
\* never shortens it, and a live row belongs to an entry, so a restart never
\* revives a ban that was lifted or failed (enforcer.go:392, 821); of a target
\* on which two operations overlapped nothing is said: RecordIsKept.
StoreAgrees ==
    \A t \in Targets : Settled(t) =>
        /\ Live(t) => bans[t] >= blockedIPs[t]
        /\ bans[t] > now => blockedIPs[t] # 0

\* On the backends whose rules do not expire by themselves every rule belongs
\* to a ban in the map, also after a restart without a store
\* (enforcer.go:205).  Excepts targets worked on by two at once, and needs
\* every command to succeed.
NoOrphanRule ==
    \A t \in Targets : Settled(t) /\ runtime[t] = Forever => blockedIPs[t] # 0

\* A live ban that nothing disturbs has its rule in the firewall.
RuleWhileBanned ==
    \A t \in Targets : Settled(t) /\ Live(t) => runtime[t] # 0

\* The reply of a block or an extension tells the truth: after "applied" the
\* ban is in the map, the store and the silenced list; after a failed
\* extension the previous ban is back in all of them (enforcer.go:494).  A
\* target on which two operations overlapped is excepted.
TrueReply(p, t) ==
    ~Idle(p) /\ phase' = "running" /\ t \notin raced =>
        /\ pc'[p] = "applied" =>
              /\ blockedIPs'[t] = until[p] /\ t \in silenced'
              /\ now < until[p] => bans'[t] >= until[p]
        /\ pc'[p] = "failed" =>
              /\ blockedIPs'[t] = prev[p] /\ bans'[t] = prev[p]
              /\ prev[p] # 0 => t \in silenced'
RepliesAreTrue == [][\A p \in Procs : TrueReply(p, ip[p])]_vars

\* No attacker stays free and unwatched: a silenced target without a rule gets
\* its rule back or is watched again (enforcer.go:861).
FreeAndUnwatched(t) == t \in silenced /\ runtime[t] = 0
CutOff(t) == now = MaxTime /\ blockedIPs[t] \in MaxTime..(Forever - 1)
NobodyFreeAndUnwatched ==
    \A t \in Targets :
        FreeAndUnwatched(t) ~> (~FreeAndUnwatched(t) \/ t \in raced \/ CutOff(t))

\* A ban whose rule the firewall lost gets it back, or ends, even when the
\* target was raced over (enforcer.go:861).
LostRuleIsRestored ==
    \A t \in Targets :
        (Live(t) /\ runtime[t] = 0) ~> (~Live(t) \/ runtime[t] # 0)

\* Every request is answered and every pass of the maintenance loop ends.
EveryCallReturns ==
    /\ \A p \in Procs : ~Idle(p) ~> Idle(p)
    /\ mpc # "idle" ~> mpc = "idle"

\* A ban that expired is purged and its target watched again, or a further ban
\* of the target holds, silence included (enforcer.go:195, 221), through
\* crashes and failed writes; a target two goroutines worked on at once is
\* excepted, for the purge may end after another block (enforcer.go:218).
Watched(t) == blockedIPs[t] = 0 /\ t \notin silenced
BannedAgain(t) == Settled(t) /\ Live(t) /\ t \in silenced
ExpiredIsPurged ==
    \A t \in Targets :
        Lapsed(t) ~> (Watched(t) \/ BannedAgain(t) \/ t \in raced)

\* Private ranges are banned by nobody, and addresses of an allowed country by
\* the operator only: no map entry, no row, no silence, no rule
\* (enforcer.go:335, 346).
Exempt(t) ==
    \/ t \in Private
    \/ t \in Allowed /\ \A r \in Requests : r.op = "block" => r.ip # t
ExemptUntouched ==
    \A t \in Targets : Exempt(t) =>
        /\ blockedIPs[t] = 0 /\ t \notin blockedNets /\ bans[t] = 0
        /\ t \notin silenced /\ runtime[t] = 0 /\ t \notin permanent
-----------------------------------------------------------------------------
(* What the comments say and the code does not keep: TLC refutes each in   *)
(* place of the properties of ban_recovery (README, section 6).            *)

\* Nobody is inside an operation on t, whatever overlapped before.
Quiet(t) == phase = "running" /\ ~Busy(t)

\* "Silence deja de despachar eventos de una IP/CIDR mientras dura su ban"
\* (engine.go:141).  A lift that overtakes a block leaves the silence without a
\* ban (enforcer.go:439).
SilenceEndsWithBan ==
    \A t \in Targets : Quiet(t) /\ t \in silenced => blockedIPs[t] # 0

\* The same line of a block that failed and that nothing overlapped: its target
\* is watched.  Over an expired entry the block deletes the entry and leaves
\* the silence of the ban before it (enforcer.go:417).
FailedBlockIsWatched ==
    [][\A p \in Procs : UndoStore(p) /\ ip[p] \notin raced =>
           (ip[p] \in silenced' => blockedIPs'[ip[p]] # 0)]_vars

\* "Persistir antes de ejecutar el comando para no perder el registro"
\* (enforcer.go:391).  The purge of an expired ban deletes the row that a block
\* in between has written (enforcer.go:218).
RecordIsKept == \A t \in Targets : Quiet(t) /\ Live(t) => bans[t] # 0

\* "Re-chequear: un Unblock manual pudo quitarla mientras se listaba"
\* (enforcer.go:907).  The lift may also come after the check.
LiftedIsNotReapplied ==
    [][ReapplyRule => runtime' = runtime \/ blockedIPs[cur] # 0]_vars

\* "re-aplicar lo que quede del ban previo" (enforcer.go:520).  Of a ban that
\* expired meanwhile nothing is left, and the rule put back is permanent.
RuleOfTimedBanEnds ==
    \A t \in Targets :
        Quiet(t) /\ runtime[t] = Forever => blockedIPs[t] >= Forever

\* "la regla temporal lleva su propio --timeout, así que se reemplaza"
\* (enforcer.go:493).  The removal of the old rule may fail unseen, and
\* ALREADY_ENABLED then answers for the new one (firewall.go:47, 60): the
\* extension is reported as applied and its rule ends with the old ban.
ExtensionLastsInFirewall ==
    [][\A p \in Procs : pc[p] = "extRule" /\ ip[p] \notin raced =>
           (pc'[p] = "applied" => runtime'[ip[p]] >= until[p])]_vars

\* "0 bans = todos expiraron limpiamente" (enforcer.go:813): with an empty
\* store nobody is kept out.  The rule of a ban that expired while the agent
\* was down stays in ufw.
NoRuleWithoutBan ==
    \A t \in Targets : Quiet(t) /\ runtime[t] # 0 => blockedIPs[t] # 0
=============================================================================
