------------------------------ MODULE Enforcer ------------------------------
(***************************************************************************)
(* The ban life cycle of internal/enforcement.  A ban lives in five places *)
(* that no lock covers together: the map blockedIPs (with its index        *)
(* blockedNets), the bans table of the SQLite store, the silenced list of  *)
(* the engine's whitelist, and the runtime and permanent configuration of  *)
(* the firewall.  The alert handler, the API callers and the maintenance   *)
(* goroutine change them one at a time; each action below is one section   *)
(* under Enforcer.mu or one call made outside it.                          *)
(*                                                                         *)
(* A tick of the clock stands for a span much longer than a second, so the *)
(* second that remainingSecs adds against truncation does not show.        *)
(***************************************************************************)
EXTENDS Integers, FiniteSets

CONSTANTS
    Targets,      \* canonical block targets: addresses and CIDRs
    Nets,         \* the targets that are CIDRs
    Private,      \* the targets in private, loopback or link-local ranges
    Allowed,      \* the targets located in an allowed country
    Handler,      \* the goroutine of Enforcer.Run
    Callers,      \* the HTTP goroutines that may be inside the API
    Backend,      \* "firewalld", "firewalld-ipset" or "ufw"
    HasStore,     \* whether local_db.path is configured
    BanSeconds,   \* configured ban duration in ticks, 0 = permanent
    Alerts,       \* the targets detectors raise alerts about
    Requests,     \* the API calls that may be made
    Slack,        \* the minute a longer ban must win by to be an extension
    Forever,      \* stands for the 100 years of a permanent ban
    MaxTime,      \* bound: last value of the clock
    MaxRequests,  \* bound: alerts and API calls accepted in a behaviour
    Faults,       \* the kinds of faults that may happen
    MaxFaults     \* bound: faults in a behaviour

RequestType == [op : {"block", "unblock"}, ip : Targets, ttl : Int]
FaultKinds == {"firewall", "permanent", "store", "list", "flush", "crash"}

ASSUME EnforcerAssumption ==
    /\ Targets # {} /\ Nets \subseteq Targets /\ Private \subseteq Targets
    /\ Allowed \subseteq Targets /\ Alerts \subseteq Targets
    /\ Handler \notin Callers
    /\ Backend \in {"firewalld", "firewalld-ipset", "ufw"}
    /\ HasStore \in BOOLEAN
    /\ Requests \subseteq RequestType
    /\ {BanSeconds, Slack, MaxTime, MaxRequests, MaxFaults} \subseteq Nat
    /\ Forever \in Nat /\ Forever > MaxTime
    /\ Faults \subseteq FaultKinds

VARIABLES
    now,          \* the clock
    phase,        \* "down", "loading" (LoadExistingBans) or "running"
    blockedIPs,   \* target -> expiry of its entry, 0 = no entry
    blockedNets,  \* the parsed CIDR index used by IsBlocked
    bans,         \* target -> expires_at of its row in the store, 0 = none
    silenced,     \* the targets whose events the engine drops
    runtime,      \* target -> end of its rule in the active firewall, 0 = none
    permanent,    \* the targets in the permanent firewall configuration
    pc,           \* goroutine -> next step, or the reply of its last request
    ip, ttl,      \* goroutine -> target and duration of its request
    until, prev,  \* goroutine -> expiry it entered, and the one it replaced
    mpc, work,    \* maintenance goroutine: next step, targets left to treat
    cur, left,    \* its current target; TTLs of the reconcile snapshot
    raced,        \* history: targets two goroutines have worked on at once
    requests, faults  \* counters of the bounds

agent == <<blockedIPs, blockedNets>>
firewall == <<runtime, permanent>>
calls == <<pc, ip, ttl, until, prev, requests>>
loop == <<mpc, work, cur, left>>
vars == <<now, phase, agent, bans, silenced, firewall, calls, loop, raced, faults>>

Procs == Callers \cup {Handler}
Replies == {"idle", "skipped", "already", "applied", "failed", "unblocked"}
BlockSteps == {"save", "rule", "silence", "undoMap", "undoStore"}
ExtendSteps == {"extSave", "extRemove", "extRule", "extRestoreRule",
                "extRestoreMap", "extRestoreStore"}
UnblockSteps == {"unStore", "unSilence", "unRule"}
PassSteps == {"idle", "unban", "forget", "unsilence", "list", "recheck", "reapply"}

TypeOK ==
    /\ now \in 0..MaxTime
    /\ phase \in {"down", "loading", "running"}
    /\ blockedIPs \in [Targets -> Nat] /\ blockedNets \subseteq Nets
    /\ bans \in [Targets -> Nat] /\ silenced \subseteq Targets
    /\ runtime \in [Targets -> Nat] /\ permanent \subseteq Targets
    /\ pc \in [Procs -> Replies \cup BlockSteps \cup ExtendSteps \cup UnblockSteps]
    /\ ip \in [Procs -> Targets] /\ ttl \in [Procs -> Nat]
    /\ until \in [Procs -> Nat] /\ prev \in [Procs -> Nat]
    /\ mpc \in PassSteps /\ work \subseteq Targets
    /\ cur \in Targets /\ left \in [Targets -> Nat]
    /\ raced \subseteq Targets
    /\ requests \in 0..MaxRequests /\ faults \in 0..MaxFaults

AnyTarget == CHOOSE t \in Targets : TRUE

Init ==
    /\ now = 0 /\ phase = "running"
    /\ blockedIPs = [t \in Targets |-> 0] /\ blockedNets = {}
    /\ bans = [t \in Targets |-> 0] /\ silenced = {}
    /\ runtime = [t \in Targets |-> 0] /\ permanent = {}
    /\ pc = [p \in Procs |-> "idle"]
    /\ ip = [p \in Procs |-> AnyTarget]
    /\ ttl = [p \in Procs |-> 0]
    /\ until = [p \in Procs |-> 0] /\ prev = [p \in Procs |-> 0]
    /\ mpc = "idle" /\ work = {}
    /\ cur = AnyTarget /\ left = [t \in Targets |-> 0]
    /\ raced = {} /\ requests = 0 /\ faults = 0

-----------------------------------------------------------------------------
(* Time, faults and who is working on a target.                            *)

Expires(secs) == IF secs > 0 THEN now + secs ELSE Forever + now
\* Truncation plus one second: never zero at the expiry itself, but zero or
\* less once it is past.
RemainingSecs(e) == IF e >= Forever THEN 0 ELSE IF e = now THEN 1 ELSE e - now
Live(t) == now < blockedIPs[t]
Lapsed(t) == blockedIPs[t] # 0 /\ now > blockedIPs[t]

Fault(kind) ==
    /\ kind \in Faults
    /\ faults < MaxFaults
    /\ faults' = faults + 1

Idle(p) == pc[p] \in Replies
Busy(t) == t \in work \/ \E p \in Procs : ~Idle(p) /\ ip[p] = t
Claim(S) == raced' = raced \cup {t \in S : Busy(t)}

\* The sections under Enforcer.mu that enter and delete ban entries, and the
\* engine's Silence and Unsilence.
PutEntry(t, e) ==
    /\ blockedIPs' = [blockedIPs EXCEPT ![t] = e]
    /\ blockedNets' = blockedNets \cup ({t} \cap Nets)

DropMapOnly(S) ==  \* mutant: the CIDR index keeps the range
    /\ blockedIPs' = [t \in Targets |-> IF t \in S THEN 0 ELSE blockedIPs[t]]
    /\ UNCHANGED blockedNets
DropEntries(S) ==
    /\ blockedIPs' = [t \in Targets |-> IF t \in S THEN 0 ELSE blockedIPs[t]]
    /\ blockedNets' = blockedNets \ S

Silence(t) == silenced' = silenced \cup {t}
NoUnsilence(t) == silenced' = silenced  \* mutant: the target stays silenced
Unsilence(t) == silenced' = silenced \ {t}

-----------------------------------------------------------------------------
(* The firewall commands.  A command that fails changes nothing.  A        *)
(* permanent ban takes two and the second may fail alone; a removal on     *)
(* firewalld takes two and either may.                                     *)

Explicit == Backend \in {"ufw", "firewalld-ipset"}
TimedRuleEnd(secs) ==  \* mutant: every backend is given the timeout
    IF secs > 0 THEN now + secs ELSE Forever
RuleEnd(secs) == IF ~Explicit /\ secs > 0 THEN now + secs ELSE Forever
Durable(secs) ==
    \/ Backend = "ufw"
    \/ Backend = "firewalld" /\ secs <= 0
    \/ Backend = "firewalld-ipset" /\ secs = 0
\* Re-adding a present rule is ALREADY_ENABLED and keeps its own timeout.
AddRule(t, secs) == [runtime EXCEPT ![t] = IF @ # 0 THEN @ ELSE RuleEnd(secs)]

FwBlock(t, secs) ==
    /\ runtime' = AddRule(t, secs)
    /\ permanent' = IF Durable(secs) THEN permanent \cup {t} ELSE permanent
    /\ UNCHANGED faults

FwBlockFails(t, secs) ==
    \/ Fault("firewall") /\ UNCHANGED firewall
    \/ /\ Fault("permanent") /\ Backend # "ufw" /\ Durable(secs)
       /\ runtime' = AddRule(t, secs)
       /\ UNCHANGED permanent

RemoveNothing(t) == UNCHANGED <<firewall, faults>>  \* mutant: rule kept
\* No caller acts on a failed removal: it is ignored or only logged.
FwUnblock(t) ==
    \/ /\ runtime' = [runtime EXCEPT ![t] = 0]
       /\ permanent' = permanent \ {t}
       /\ UNCHANGED faults
    \/ Fault("firewall") /\ UNCHANGED firewall
    \/ /\ Fault("permanent") /\ Backend # "ufw"
       /\ runtime' = [runtime EXCEPT ![t] = 0]
       /\ UNCHANGED permanent
    \/ /\ Fault("firewall") /\ Backend # "ufw"
       /\ permanent' = permanent \ {t}
       /\ UNCHANGED runtime

\* A reload or reboot leaves the permanent configuration only.
Flush ==
    /\ Fault("flush")
    /\ runtime' = [t \in Targets |-> IF t \in permanent THEN Forever ELSE 0]
    /\ runtime' # runtime
    /\ UNCHANGED <<now, phase, agent, bans, silenced, permanent, calls, loop, raced>>

-----------------------------------------------------------------------------
(* The store.  Every caller goes on when a write fails.                    *)

WriteBan(t, e) ==
    \/ /\ bans' = IF HasStore THEN [bans EXCEPT ![t] = e] ELSE bans
       /\ UNCHANGED faults
    \/ HasStore /\ Fault("store") /\ UNCHANGED bans

SaveNothing(t, e) == UNCHANGED <<bans, faults>>  \* mutant: no row is written
SaveBan(t, e) == WriteBan(t, e)
DeleteNothing(t) == UNCHANGED <<bans, faults>>  \* mutant: the row stays
DeleteBan(t) == WriteBan(t, 0)
AllRows == bans  \* mutant: expired rows are loaded too
ActiveBans == [t \in Targets |-> IF bans[t] > now THEN bans[t] ELSE 0]

PruneExpiredBans ==
    /\ phase = "running"
    /\ bans' = [t \in Targets |-> IF bans[t] <= now THEN 0 ELSE bans[t]]
    /\ bans' # bans
    /\ UNCHANGED <<now, phase, agent, silenced, firewall, calls, loop, raced, faults>>

-----------------------------------------------------------------------------
(* Blocking a target: blockIPWithTTL, from an alert or from Block.         *)

Goto(p, step) == pc' = [pc EXCEPT ![p] = step]
Frame == <<ip, ttl, until, prev>>
SetFrame(p, t, secs, new, old) ==
    /\ ip' = [ip EXCEPT ![p] = t] /\ ttl' = [ttl EXCEPT ![p] = secs]
    /\ until' = [until EXCEPT ![p] = new] /\ prev' = [prev EXCEPT ![p] = old]
Reply(p, outcome) == Goto(p, outcome) /\ SetFrame(p, AnyTarget, 0, 0, 0)

\* banSecs as the handler passes it, or as Block derives it from its override.
TTLOf(override) ==
    IF override = -1 THEN 0 ELSE IF override > 0 THEN override ELSE BanSeconds

Asks(p, t, secs) ==
    \/ p = Handler /\ t \in Alerts /\ secs = BanSeconds
    \/ /\ p \in Callers
       /\ \E r \in Requests : r.op = "block" /\ r.ip = t /\ secs = TTLOf(r.ttl)

\* The clock must be able to outlive every temporary ban.
Accept(p, t, secs) ==
    /\ phase = "running" /\ Idle(p)
    /\ requests < MaxRequests /\ requests' = requests + 1
    /\ now + secs < MaxTime
    /\ UNCHANGED <<now, phase, bans, silenced, firewall, loop, faults>>

\* Only the operator may block an address of an allowed country.
Vetoed(p, t) == t \in Private \/ (p = Handler /\ t \in Allowed)

\* The alert gets a skipped effect, the API caller an error.
SkipBlock(p, t, secs) ==
    /\ Accept(p, t, secs) /\ Asks(p, t, secs) /\ Vetoed(p, t)
    /\ Goto(p, "skipped")
    /\ UNCHANGED <<agent, Frame, raced>>

DuplicateBlock(p, t, secs) ==
    /\ Accept(p, t, secs) /\ Asks(p, t, secs) /\ ~Vetoed(p, t)
    /\ Live(t) /\ Expires(secs) <= blockedIPs[t] + Slack
    /\ Goto(p, "already")
    /\ UNCHANGED <<agent, Frame, raced>>

StartExtension(p, t, secs) ==
    /\ Accept(p, t, secs) /\ Asks(p, t, secs) /\ ~Vetoed(p, t)
    /\ Live(t) /\ Expires(secs) > blockedIPs[t] + Slack
    /\ Claim({t})
    /\ blockedIPs' = [blockedIPs EXCEPT ![t] = Expires(secs)]
    /\ SetFrame(p, t, secs, Expires(secs), blockedIPs[t])
    /\ Goto(p, "extSave")
    /\ UNCHANGED blockedNets

StartBlock(p, t, secs) ==
    /\ Accept(p, t, secs) /\ Asks(p, t, secs) /\ ~Vetoed(p, t)
    /\ ~Live(t)
    /\ Claim({t})
    /\ PutEntry(t, Expires(secs))
    /\ SetFrame(p, t, secs, Expires(secs), 0)
    /\ Goto(p, "save")

SaveNewBan(p) ==
    /\ pc[p] = "save"
    /\ SaveBan(ip[p], until[p])
    /\ Goto(p, "rule")
    /\ UNCHANGED <<now, phase, agent, silenced, firewall, Frame, requests, loop, raced>>

AddNewRule(p) ==
    /\ pc[p] = "rule"
    /\ \/ FwBlock(ip[p], ttl[p]) /\ Goto(p, "silence")
       \/ FwBlockFails(ip[p], ttl[p]) /\ Goto(p, "undoMap")
    /\ UNCHANGED <<now, phase, agent, bans, silenced, Frame, requests, loop, raced>>

SilenceNewBan(p) ==
    /\ pc[p] = "silence"
    /\ Silence(ip[p])
    /\ Reply(p, "applied")
    /\ UNCHANGED <<now, phase, agent, bans, firewall, requests, loop, raced, faults>>

\* The failed block removes whatever entry and row the target has by now.
UndoMap(p) ==
    /\ pc[p] = "undoMap"
    /\ DropEntries({ip[p]})
    /\ Goto(p, "undoStore")
    /\ UNCHANGED <<now, phase, bans, silenced, firewall, Frame, requests, loop, raced, faults>>

UndoStore(p) ==
    /\ pc[p] = "undoStore"
    /\ DeleteBan(ip[p])
    /\ Reply(p, "failed")
    /\ UNCHANGED <<now, phase, agent, silenced, firewall, requests, loop, raced>>

-----------------------------------------------------------------------------
(* extendBan: the map already holds the new expiry.                        *)

SaveExtension(p) ==
    /\ pc[p] = "extSave"
    /\ SaveBan(ip[p], Expires(ttl[p]))
    /\ Goto(p, IF Explicit THEN "extRule" ELSE "extRemove")
    /\ UNCHANGED <<now, phase, agent, silenced, firewall, Frame, requests, loop, raced>>

RemoveOldRule(p) ==
    /\ pc[p] = "extRemove"
    /\ FwUnblock(ip[p])
    /\ Goto(p, "extRule")
    /\ UNCHANGED <<now, phase, agent, bans, silenced, Frame, requests, loop, raced>>

AddLongerRule(p) ==
    /\ pc[p] = "extRule"
    /\ \/ FwBlock(ip[p], ttl[p]) /\ Reply(p, "applied")
       \/ /\ FwBlockFails(ip[p], ttl[p])
          /\ Goto(p, IF Explicit THEN "extRestoreMap" ELSE "extRestoreRule")
          /\ UNCHANGED Frame
    /\ UNCHANGED <<now, phase, agent, bans, silenced, requests, loop, raced>>

RestoreRule(p) ==
    /\ pc[p] = "extRestoreRule"
    /\ \/ FwBlock(ip[p], RemainingSecs(prev[p]))
       \/ FwBlockFails(ip[p], RemainingSecs(prev[p]))
    /\ Goto(p, "extRestoreMap")
    /\ UNCHANGED <<now, phase, agent, bans, silenced, Frame, requests, loop, raced>>

RestoreMap(p) ==
    /\ pc[p] = "extRestoreMap"
    /\ blockedIPs' = [blockedIPs EXCEPT ![ip[p]] = prev[p]]
    /\ Goto(p, "extRestoreStore")
    /\ UNCHANGED <<now, phase, blockedNets, bans, silenced, firewall, Frame, requests, loop, raced, faults>>

RestoreStore(p) ==
    /\ pc[p] = "extRestoreStore"
    /\ SaveBan(ip[p], prev[p])
    /\ Reply(p, "failed")
    /\ UNCHANGED <<now, phase, agent, silenced, firewall, requests, loop, raced>>

-----------------------------------------------------------------------------
(* Unblock.                                                                *)

StartUnblock(p, t) ==
    /\ p \in Callers /\ [op |-> "unblock", ip |-> t, ttl |-> 0] \in Requests
    /\ Accept(p, t, 0)
    /\ Claim({t})
    /\ DropEntries({t})
    /\ SetFrame(p, t, 0, 0, 0)
    /\ Goto(p, "unStore")

UnblockStore(p) ==
    /\ pc[p] = "unStore"
    /\ DeleteBan(ip[p])
    /\ Goto(p, "unSilence")
    /\ UNCHANGED <<now, phase, agent, silenced, firewall, Frame, requests, loop, raced>>

UnblockSilence(p) ==
    /\ pc[p] = "unSilence"
    /\ Unsilence(ip[p])
    /\ Goto(p, "unRule")
    /\ UNCHANGED <<now, phase, agent, bans, firewall, Frame, requests, loop, raced, faults>>

UnblockRule(p) ==
    /\ pc[p] = "unRule"
    /\ FwUnblock(ip[p])
    /\ Reply(p, "unblocked")
    /\ UNCHANGED <<now, phase, agent, bans, silenced, requests, loop, raced>>

-----------------------------------------------------------------------------
(* The maintenance goroutine.  unbanExpired empties the map first and then *)
(* walks the expired targets outside the lock.                             *)

ExpiredHosts == {t \in Targets \ Nets : Lapsed(t)}  \* mutant: ranges forgotten
Expired == {t \in Targets : Lapsed(t)}

CollectExpired ==
    /\ phase = "running" /\ mpc = "idle" /\ Expired # {}
    /\ Claim(Expired)
    /\ DropEntries(Expired)
    /\ work' = Expired /\ mpc' = "unban"
    /\ UNCHANGED <<now, phase, bans, silenced, firewall, calls, cur, left, faults>>

UnbanRule(t) ==
    /\ mpc = "unban" /\ t \in work /\ Explicit
    /\ FwUnblock(t)
    /\ cur' = t /\ mpc' = "forget"
    /\ UNCHANGED <<now, phase, agent, bans, silenced, calls, work, left, raced>>

ForgetBan(t) ==
    /\ t \in work
    /\ IF Explicit THEN mpc = "forget" /\ t = cur ELSE mpc = "unban"
    /\ DeleteBan(t)
    /\ cur' = t /\ mpc' = "unsilence"
    /\ UNCHANGED <<now, phase, agent, silenced, firewall, calls, work, left, raced>>

UnsilenceExpired ==
    /\ mpc = "unsilence"
    /\ Unsilence(cur)
    /\ work' = work \ {cur}
    /\ mpc' = IF work' = {} THEN "idle" ELSE "unban"
    /\ UNCHANGED <<now, phase, agent, bans, firewall, calls, cur, left, raced, faults>>

-----------------------------------------------------------------------------
(* reconcileFirewall, on its ticker and at the end of LoadExistingBans.    *)

Snapshot(map) ==
    LET live == {t \in Targets : now < map[t]} IN
    /\ work' = live
    /\ left' = [t \in Targets |-> IF t \in live THEN RemainingSecs(map[t]) ELSE 0]

NeverEnds(missing) ==  \* mutant: the loop waits for more work
    work' = missing /\ mpc' = "recheck" /\ UNCHANGED <<phase, left>>
\* The pass goes on with the targets still missing, or ends.
Continue(missing) ==
    /\ work' = missing
    /\ mpc' = IF missing = {} THEN "idle" ELSE "recheck"
    /\ phase' = IF missing = {} THEN "running" ELSE phase
    /\ left' = IF missing = {} THEN [t \in Targets |-> 0] ELSE left

StartReconcile ==
    /\ phase = "running" /\ mpc = "idle"
    /\ \E t \in Targets : Live(t)
    /\ Snapshot(blockedIPs)
    /\ Claim({t \in Targets : Live(t)})
    /\ mpc' = "list"
    /\ UNCHANGED <<now, phase, agent, bans, silenced, firewall, calls, cur, faults>>

MissingHosts(S) == {t \in S \ Nets : runtime[t] = 0}  \* mutant
Missing(S) == {t \in S : runtime[t] = 0}

\* ensureSetup failing and the listing failing both end the pass.
ListRules ==
    /\ mpc = "list"
    /\ \/ Continue(Missing(work)) /\ UNCHANGED faults
       \/ Fault("list") /\ Continue({})
    /\ UNCHANGED <<now, agent, bans, silenced, firewall, calls, cur, raced>>

RecheckTarget(t) ==
    /\ mpc = "recheck" /\ t \in work
    /\ \/ /\ Live(t)
          /\ cur' = t /\ mpc' = "reapply"
          /\ UNCHANGED <<phase, work, left>>
       \/ ~Live(t) /\ Continue(work \ {t}) /\ UNCHANGED cur
    /\ UNCHANGED <<now, agent, bans, silenced, firewall, calls, raced, faults>>

ReapplyRule ==
    /\ mpc = "reapply"
    /\ FwBlock(cur, left[cur]) \/ FwBlockFails(cur, left[cur])
    /\ Continue(work \ {cur})
    /\ UNCHANGED <<now, agent, bans, silenced, calls, cur, raced>>

-----------------------------------------------------------------------------
(* Stopping and starting the agent.                                        *)

Crash ==
    /\ phase # "down" /\ Fault("crash")
    /\ phase' = "down"
    /\ blockedIPs' = [t \in Targets |-> 0] /\ blockedNets' = {}
    /\ silenced' = {}
    /\ pc' = [p \in Procs |-> "idle"]
    /\ ip' = [p \in Procs |-> AnyTarget]
    /\ ttl' = [p \in Procs |-> 0]
    /\ until' = [p \in Procs |-> 0] /\ prev' = [p \in Procs |-> 0]
    /\ mpc' = "idle" /\ work' = {}
    /\ cur' = AnyTarget /\ left' = [t \in Targets |-> 0]
    /\ UNCHANGED <<now, bans, firewall, requests, raced>>

RestoreUnsilenced(map) ==  \* mutant: restored bans are not silenced
    /\ blockedIPs' = map
    /\ blockedNets' = {t \in Nets : map[t] # 0}
    /\ silenced' = {}
Restore(map) ==
    /\ blockedIPs' = map
    /\ blockedNets' = {t \in Nets : map[t] # 0}
    /\ silenced' = {t \in Targets : map[t] # 0}

LoadBansFromStore ==
    /\ phase = "down" /\ HasStore
    /\ Restore(ActiveBans) /\ Snapshot(ActiveBans)
    /\ phase' = IF work' = {} THEN "running" ELSE "loading"
    /\ mpc' = IF work' = {} THEN "idle" ELSE "list"
    /\ UNCHANGED <<now, bans, firewall, calls, cur, raced, faults>>

\* No store, or LoadActiveBans fails: whatever rules the firewall lists, and
\* nothing when the listing fails too.
LoadBansFromFirewall ==
    /\ phase = "down"
    /\ \/ /\ IF HasStore THEN Fault("store") ELSE UNCHANGED faults
          /\ Restore([t \in Targets |-> IF runtime[t] # 0 THEN Expires(BanSeconds) ELSE 0])
       \/ /\ "list" \in Faults /\ Fault(IF HasStore THEN "store" ELSE "list")
          /\ Restore([t \in Targets |-> 0])
    /\ phase' = "running"
    /\ UNCHANGED <<now, bans, firewall, calls, loop, raced>>

\* Rules with a timeout of their own end with it.
Tick ==
    /\ now < MaxTime
    /\ now' = now + 1
    /\ runtime' = [t \in Targets |-> IF runtime[t] <= now' THEN 0 ELSE runtime[t]]
    /\ UNCHANGED <<phase, agent, bans, silenced, permanent, calls, loop, raced, faults>>

-----------------------------------------------------------------------------

Durations == {BanSeconds} \cup {TTLOf(r.ttl) : r \in Requests}

Request(p) ==
    \E t \in Targets :
        \/ StartUnblock(p, t)
        \/ \E secs \in Durations :
              \/ SkipBlock(p, t, secs) \/ DuplicateBlock(p, t, secs)
              \/ StartExtension(p, t, secs) \/ StartBlock(p, t, secs)

BlockStep(p) ==
    \/ SaveNewBan(p) \/ AddNewRule(p) \/ SilenceNewBan(p)
    \/ UndoMap(p) \/ UndoStore(p)

ExtendStep(p) ==
    \/ SaveExtension(p) \/ RemoveOldRule(p) \/ AddLongerRule(p)
    \/ RestoreRule(p) \/ RestoreMap(p) \/ RestoreStore(p)

UnblockStep(p) == UnblockStore(p) \/ UnblockSilence(p) \/ UnblockRule(p)

ProcStep(p) == BlockStep(p) \/ ExtendStep(p) \/ UnblockStep(p)

PassStep ==
    \/ UnsilenceExpired \/ ListRules \/ ReapplyRule
    \/ \E t \in Targets : UnbanRule(t) \/ ForgetBan(t) \/ RecheckTarget(t)

Load == LoadBansFromStore \/ LoadBansFromFirewall

Next ==
    \/ \E p \in Procs : Request(p) \/ ProcStep(p)
    \/ CollectExpired \/ StartReconcile \/ PassStep
    \/ PruneExpiredBans \/ Flush \/ Crash \/ Load \/ Tick

Spec == Init /\ [][Next]_vars

(***************************************************************************)
(* Every external command runs under actionTimeout (enforcer.go:73), so a  *)
(* goroutine inside an operation always goes on; the tickers of            *)
(* runUnbanLoop keep a pending tick and select chooses among the ready     *)
(* ones at random, so both passes recur although each makes the other      *)
(* wait; systemd restarts the agent; time passes.                          *)
(***************************************************************************)
Fairness ==
    /\ \A p \in Procs : WF_vars(ProcStep(p))
    /\ WF_vars(PassStep) /\ WF_vars(Load) /\ WF_vars(Tick)
    /\ SF_vars(CollectExpired) /\ SF_vars(StartReconcile)

FairSpec == Spec /\ Fairness
=============================================================================
