------------------------------- MODULE Response -------------------------------
(***************************************************************************)
(* What the enforcer's goroutine does about one alert after another: it    *)
(* suspends the account in Zimbra, has the address banned, warns the user  *)
(* and notifies the administrators through a throttle; API calls           *)
(* rehabilitate accounts meanwhile.  The ban of an address is an outcome   *)
(* here, module Enforcer models it; the alert is also saved for the        *)
(* Controller, which is module Forwarder's, and in the audit log, which    *)
(* nothing reads.                                                          *)
(***************************************************************************)
EXTENDS Integers, Sequences, FiniteSets

CONSTANTS
    IPs, Accounts,
    None,
    Kinds,           \* the alerts the engine may send
    Callers,         \* HTTP goroutines inside Unsuspend
    Private,         \* addresses no ban touches
    Allowed,         \* addresses of the allowed countries
    WarnsUser,       \* notify_suspended_user
    NotifyOnActions, \* on_actions, {} for all
    OnlyApplied,     \* only_applied
    Channels,        \* telegram, webhook, email
    KeyCooldown, MaxPerWindow, Window,  \* the throttle, 0 to disable a limit
    PruneEvery,      \* notifications between two prunings of the cooldowns
    MaxKeys,         \* cooldowns that force one
    MaxTime,         \* bound: last value of the clock
    MaxAlerts,       \* bound: alerts in a behaviour
    MaxRequests,     \* bound: API calls in a behaviour
    Faults,          \* the kinds of faults that may happen
    MaxFaults        \* bound: faults in a behaviour

Actions == {"block_ip", "suspend_account", "notify_only"}
Outcomes == {"applied", "already", "skipped", "failed"}

\* The modules send no ban without an address, nor a suspension without an
\* account, so the checks of handle never fire.
ASSUME ResponseAssumption ==
    /\ None \notin IPs \cup Accounts
    /\ Kinds \subseteq [module : STRING, action : Actions, ip : IPs \cup {None},
                        account : Accounts \cup {None}]
    /\ \A k \in Kinds : /\ k.action = "block_ip" => k.ip # None
                        /\ k.action = "suspend_account" => k.account # None
    /\ Private \subseteq IPs /\ Allowed \subseteq IPs /\ Channels # {}
    /\ NotifyOnActions \subseteq Actions /\ {WarnsUser, OnlyApplied} \subseteq BOOLEAN
    /\ {KeyCooldown, MaxPerWindow, MaxTime, MaxAlerts, MaxRequests, MaxFaults} \subseteq Nat
    /\ {Window, PruneEvery, MaxKeys} \subseteq Nat \ {0}
    /\ Faults \subseteq {"zmprov", "killed", "firewall", "mail", "channel", "crash"}

VARIABLES
    now,
    pc, alert,       \* the handler's step and the alert it is about
    effects,         \* the outcomes so far, the main action's first
    locked,          \* the accounts locked in Zimbra
    suspendedAccts,  \* the enforcer's registry of suspended accounts
    forgetting,      \* caller -> the account it rehabilitates, or None
    keys,            \* throttle: key -> last notification, -1 = none
    windowStart, windowCount, pruneCount,
    raced,           \* history: accounts activated between lock and record
    unsure,          \* history: accounts of a command killed after it worked
    notices,         \* history: account -> warnings
    forgotten,       \* history: account -> times the registry has dropped it
    heard,           \* history: alert -> when a channel last delivered it, whether
                     \* another channel failed then and the agent restarted since
    sent,            \* history: when each notification went out, and what the
                     \* limit had let pass for free by then
    free,            \* history: how much it has: a notification some channel
                     \* missed, or, at a restart, a whole limit
    alerts, requests, faults  \* counters of the bounds

handler == <<pc, alert, effects, alerts>>
accounts == <<locked, suspendedAccts>>
throttle == <<keys, windowStart, windowCount, pruneCount>>
history == <<raced, unsure, notices, forgotten, heard, sent, free>>
vars == <<now, handler, accounts, forgetting, requests, throttle, history, faults>>

\* The origin of an alert: with the bare address, the second account suspended
\* from it would go unreported.
AddressKey(a) == a.ip  \* mutant
ThrottleKey(a) ==
    IF a.ip = None /\ a.account = None THEN <<a.action, a.module>>
    ELSE <<a.action, a.ip, a.account>>
Keys == {ThrottleKey(k) : k \in Kinds}
Unheard == [at |-> -1, spoiled |-> FALSE, restarted |-> FALSE]

ResponseTypeOK ==
    /\ now \in 0..MaxTime
    /\ pc \in {"idle", "lock", "record", "ban", "warn", "report", "send"}
    /\ alert \in Kinds \cup {None} /\ effects \in Seq(Outcomes)
    /\ locked \subseteq Accounts /\ suspendedAccts \subseteq Accounts
    /\ forgetting \in [Callers -> Accounts \cup {None}]
    /\ keys \in [Keys -> -1..MaxTime] /\ windowStart \in 0..MaxTime
    /\ windowCount \in Nat /\ pruneCount \in 0..(PruneEvery - 1)
    /\ raced \subseteq Accounts /\ unsure \subseteq Accounts
    /\ notices \in [Accounts -> Nat] /\ forgotten \in [Accounts -> Nat]
    /\ heard \in [Kinds -> [at : -1..MaxTime, spoiled : BOOLEAN, restarted : BOOLEAN]]
    /\ sent \in Seq([at : 0..MaxTime, free : Nat]) /\ free \in Nat
    /\ alerts \in 0..MaxAlerts /\ requests \in 0..MaxRequests /\ faults \in 0..MaxFaults

Init ==
    /\ now = 0
    /\ pc = "idle" /\ alert = None /\ effects = <<>> /\ alerts = 0
    /\ locked = {} /\ suspendedAccts = {}
    /\ forgetting = [p \in Callers |-> None] /\ requests = 0
    /\ keys = [k \in Keys |-> -1]
    /\ windowStart = 0 /\ windowCount = 0 /\ pruneCount = 0
    /\ raced = {} /\ unsure = {}
    /\ notices = [a \in Accounts |-> 0] /\ forgotten = notices
    /\ heard = [k \in Kinds |-> Unheard] /\ sent = <<>> /\ free = 0
    /\ faults = 0

Fault(kind) ==
    /\ kind \in Faults
    /\ faults < MaxFaults
    /\ faults' = faults + 1

-----------------------------------------------------------------------------
(* Taking an alert.                                                        *)

Take(kind, action) ==
    /\ kind \in Kinds /\ kind.action = action
    /\ pc = "idle" /\ alerts < MaxAlerts
    /\ alert' = kind /\ alerts' = alerts + 1
    /\ UNCHANGED <<now, accounts, forgetting, requests, throttle, history, faults>>

Proceed(step, outcomes) == pc' = step /\ effects' = outcomes

TakeNotice(kind) ==
    /\ Take(kind, "notify_only")
    /\ Proceed("report", <<>>)

TakeBlock(kind) ==
    /\ Take(kind, "block_ip")
    /\ Proceed("ban", <<>>)

\* An account whose alert names an address of an allowed country is spared.
SkipSuspension(kind) ==
    /\ Take(kind, "suspend_account") /\ kind.ip \in Allowed
    /\ Proceed("report", <<"skipped">>)

NotKnown(a) == FALSE  \* mutant: no deduplication
Known(a) == a \in suspendedAccts
Resuspend(kind) ==
    /\ Take(kind, "suspend_account") /\ kind.ip \notin Allowed /\ Known(kind.account)
    /\ Proceed(IF kind.ip # None THEN "ban" ELSE "report", <<"already">>)

StartSuspension(kind) ==
    /\ Take(kind, "suspend_account") /\ kind.ip \notin Allowed /\ ~Known(kind.account)
    /\ Proceed("lock", <<>>)

-----------------------------------------------------------------------------
(* Carrying it out.                                                        *)

\* zmprov ma <account> zimbraAccountStatus locked.  A command killed by its
\* timeout fails although it may have worked.
LockAnyway(a) == locked' = locked /\ Proceed("record", <<>>)  \* mutant
LockAccount(a) == locked' = locked \cup {a} /\ Proceed("record", <<>>)
Lock ==
    /\ pc = "lock"
    /\ \/ LockAccount(alert.account) /\ UNCHANGED <<unsure, faults>>
       \/ Fault("zmprov") /\ Proceed("report", <<"failed">>) /\ UNCHANGED <<locked, unsure>>
       \/ /\ Fault("killed") /\ Proceed("report", <<"failed">>)
          /\ locked' = locked \cup {alert.account}
          /\ unsure' = unsure \cup {alert.account}
    /\ UNCHANGED <<now, alert, alerts, suspendedAccts, forgetting, requests,
                   throttle, raced, notices, forgotten, heard, sent, free>>

AfterBan == IF WarnsUser THEN "warn" ELSE "report"
Record ==
    /\ pc = "record"
    /\ suspendedAccts' = suspendedAccts \cup {alert.account}
    /\ Proceed(IF alert.ip # None THEN "ban" ELSE AfterBan, <<"applied">>)
    /\ UNCHANGED <<now, alert, alerts, locked, forgetting, requests, throttle,
                   history, faults>>

\* blockIPWithTTL, whose outcome depends on the bans in force: the operator, the
\* agent and time change them.
BanIP ==
    /\ pc = "ban"
    /\ \E outcome \in Outcomes :
          /\ outcome = "skipped" <=> alert.ip \in Private \cup Allowed
          /\ IF outcome = "failed" THEN Fault("firewall") ELSE UNCHANGED faults
          /\ Proceed(IF effects = <<"applied">> THEN AfterBan ELSE "report",
                     Append(effects, outcome))
    /\ UNCHANGED <<now, alert, alerts, accounts, forgetting, requests, throttle, history>>

WarnUser ==
    /\ pc = "warn"
    /\ \/ /\ Proceed("report", Append(effects, "applied"))
          /\ notices' = [notices EXCEPT ![alert.account] = @ + 1]
          /\ UNCHANGED faults
       \/ /\ Fault("mail")
          /\ Proceed("report", Append(effects, "failed"))
          /\ UNCHANGED notices
    /\ UNCHANGED <<now, alert, alerts, accounts, forgetting, requests, throttle,
                   raced, unsure, forgotten, heard, sent, free>>

-----------------------------------------------------------------------------
(* Notifying.                                                              *)

\* The first effect is the main action's.
Outcome == IF effects = <<>> THEN "none" ELSE effects[1]

Filtered ==
    \/ NotifyOnActions # {} /\ alert.action \notin NotifyOnActions
    \/ OnlyApplied /\ Outcome \in {"skipped", "already"}

Key == ThrottleKey(alert)
Cooling == KeyCooldown > 0 /\ keys[Key] # -1 /\ now - keys[Key] < KeyCooldown
NewWindow == MaxPerWindow > 0 /\ now - windowStart >= Window
Count == IF NewWindow THEN 0 ELSE windowCount
OneMore == MaxPerWindow > 0 /\ Count > MaxPerWindow  \* mutant
Full == MaxPerWindow > 0 /\ Count >= MaxPerWindow

Finish == pc' = "idle" /\ alert' = None /\ effects' = <<>>

Withhold ==
    /\ pc = "report" /\ (Filtered \/ Cooling)
    /\ Finish
    /\ UNCHANGED <<now, alerts, accounts, forgetting, requests, throttle,
                   history, faults>>

Report ==
    /\ pc = "report" /\ ~Filtered /\ ~Cooling
    /\ windowStart' = IF NewWindow THEN now ELSE windowStart
    /\ windowCount' = Count
    /\ IF Full THEN Finish ELSE pc' = "send" /\ UNCHANGED <<alert, effects>>
    /\ UNCHANGED <<now, alerts, accounts, forgetting, requests, keys,
                   pruneCount, history, faults>>

\* Only cooldowns that are over are pruned.
PruneAll(ks) == [k \in Keys |-> -1]  \* mutant
PruneKeys(ks) == [k \in Keys |-> IF ks[k] < now - KeyCooldown THEN -1 ELSE ks[k]]

Used == IF KeyCooldown > 0 THEN [keys EXCEPT ![Key] = now] ELSE keys
PruneDue ==
    \/ pruneCount + 1 >= PruneEvery
    \/ Cardinality({k \in Keys : Used[k] # -1}) >= MaxKeys

Register ==
    /\ windowCount' = IF MaxPerWindow > 0 THEN windowCount + 1 ELSE windowCount
    /\ pruneCount' = IF PruneDue THEN 0 ELSE pruneCount + 1
    /\ keys' = IF PruneDue THEN PruneKeys(Used) ELSE Used
    /\ UNCHANGED windowStart

\* Multi tries every channel and returns the first error; the throttle counts
\* a notification only if none failed.
Deliver(failing) ==
    /\ IF failing = {} THEN UNCHANGED faults ELSE Fault("channel")
    /\ heard' = IF failing = Channels THEN heard
                ELSE [heard EXCEPT ![alert] = [at |-> now, spoiled |-> failing # {},
                                               restarted |-> FALSE]]
    /\ sent' = IF failing = Channels THEN sent
               ELSE Append(sent, [at |-> now, free |-> free])
    /\ free' = IF failing \in {{}, Channels} THEN free ELSE free + 1
    /\ IF failing = {} THEN Register ELSE UNCHANGED throttle

Send ==
    /\ pc = "send"
    /\ \E failing \in SUBSET Channels : Deliver(failing)
    /\ Finish
    /\ UNCHANGED <<now, alerts, accounts, forgetting, requests, raced,
                   unsure, notices, forgotten>>

-----------------------------------------------------------------------------
(* Unsuspend, in two steps: zmprov, then the registry.                     *)

Rehabilitating(a) == \E p \in Callers : forgetting[p] = a
Locking(a) == pc = "record" /\ alert.account = a

Activate(p, a) ==
    /\ forgetting[p] = None
    /\ requests < MaxRequests /\ requests' = requests + 1
    /\ \/ /\ locked' = locked \ {a}
          /\ forgetting' = [forgetting EXCEPT ![p] = a]
          /\ UNCHANGED <<unsure, faults>>
       \/ Fault("zmprov") /\ UNCHANGED <<locked, forgetting, unsure>>
       \/ /\ Fault("killed")
          /\ locked' = locked \ {a} /\ unsure' = unsure \cup {a}
          /\ UNCHANGED forgetting
    /\ raced' = IF Locking(a) THEN raced \cup {a} ELSE raced
    /\ UNCHANGED <<now, handler, suspendedAccts, throttle, notices, forgotten,
                   heard, sent, free>>

ForgetNothing(a) == UNCHANGED suspendedAccts  \* mutant
ForgetAccount(a) == suspendedAccts' = suspendedAccts \ {a}
Forget(p) ==
    /\ forgetting[p] # None
    /\ ForgetAccount(forgetting[p])
    /\ forgotten' = [forgotten EXCEPT ![forgetting[p]] = @ + 1]
    /\ forgetting' = [forgetting EXCEPT ![p] = None]
    /\ UNCHANGED <<now, handler, locked, requests, throttle, raced, unsure,
                   notices, heard, sent, free, faults>>

\* The registry and the throttle are in memory only.
Restart ==
    /\ Fault("crash")
    /\ Finish
    /\ suspendedAccts' = {}
    /\ forgetting' = [p \in Callers |-> None]
    /\ keys' = [k \in Keys |-> -1]
    /\ windowStart' = now /\ windowCount' = 0 /\ pruneCount' = 0
    /\ forgotten' = [a \in Accounts |-> forgotten[a] + 1]
    /\ heard' = [k \in Kinds |-> [heard[k] EXCEPT !.restarted = TRUE]]
    /\ free' = free + MaxPerWindow
    /\ UNCHANGED <<now, alerts, locked, requests, raced, unsure, notices, sent>>

\* The steps before the report do not read the clock: a tick among them is one
\* before the first of them.
Tick ==
    /\ pc \in {"idle", "report", "send"}
    /\ now < MaxTime /\ now' = now + 1
    /\ UNCHANGED <<handler, accounts, forgetting, requests, throttle, history, faults>>

Handle ==
    \/ \E kind \in Kinds :
          \/ TakeNotice(kind) \/ TakeBlock(kind) \/ SkipSuspension(kind)
          \/ Resuspend(kind) \/ StartSuspension(kind)
    \/ Lock \/ Record \/ BanIP \/ WarnUser \/ Withhold \/ Report \/ Send

Next ==
    \/ Handle
    \/ \E p \in Callers : Forget(p) \/ \E a \in Accounts : Activate(p, a)
    \/ Restart \/ Tick

Spec == Init /\ [][Next]_vars
=============================================================================
