---------------------------- MODULE ResponseProofs ----------------------------
(***************************************************************************)
(* Proofs about the response for any alerts, accounts, addresses and        *)
(* callers, every setting of the throttle and any faults.                  *)
(***************************************************************************)
EXTENDS ResponseProperties, SequenceTheorems, TLAPS

-----------------------------------------------------------------------------
(* Types, and that the alert in hand fits the step the handler is at.      *)

HandlerType ==
    /\ now \in 0..MaxTime
    /\ pc \in {"idle", "lock", "record", "ban", "warn", "report", "send"}
    /\ alert \in Kinds \cup {None} /\ effects \in Seq(Outcomes)
    /\ alerts \in 0..MaxAlerts /\ requests \in 0..MaxRequests /\ faults \in 0..MaxFaults

AccountsType ==
    /\ locked \subseteq Accounts /\ suspendedAccts \subseteq Accounts
    /\ forgetting \in [Callers -> Accounts \cup {None}]
    /\ raced \subseteq Accounts /\ unsure \subseteq Accounts
    /\ notices \in [Accounts -> Nat] /\ forgotten \in [Accounts -> Nat]

\* What the history of the notifications holds.
Notifications == [at : 0..MaxTime, free : Nat]

ThrottleType ==
    /\ keys \in [Keys -> -1..MaxTime] /\ windowStart \in 0..MaxTime
    /\ windowCount \in Nat /\ pruneCount \in 0..(PruneEvery - 1)
    /\ heard \in [Kinds -> [at : -1..MaxTime, spoiled : BOOLEAN, restarted : BOOLEAN]]
    /\ sent \in Seq(Notifications) /\ free \in Nat

\* The step of a suspension, from the record of the account to the warning.
Suspending == pc = "warn" \/ (pc = "ban" /\ effects = <<"applied">>)

StepFits ==
    /\ pc # "idle" => alert \in Kinds
    /\ pc \in {"lock", "record"} \/ Suspending => alert.account \in Accounts
    /\ pc \in {"lock", "record"} => alert.account \notin suspendedAccts

ResponseInv == HandlerType /\ AccountsType /\ ThrottleType /\ StepFits

LEMMA Bounds ==
  /\ KeyCooldown \in Nat /\ MaxPerWindow \in Nat /\ MaxTime \in Nat
  /\ MaxAlerts \in Nat /\ MaxRequests \in Nat /\ MaxFaults \in Nat
  /\ Window \in Nat \ {0} /\ PruneEvery \in Nat \ {0} /\ MaxKeys \in Nat \ {0}
  BY ResponseAssumption

LEMMA KindFields ==
  ASSUME NEW k \in Kinds
  PROVE  /\ k.ip \in IPs \cup {None} /\ k.account \in Accounts \cup {None}
         /\ k.action \in Actions
         /\ k.action = "suspend_account" => k.account \in Accounts
         /\ k.action = "block_ip" => k.ip # None
         /\ ThrottleKey(k) \in Keys
  BY ResponseAssumption DEF Keys

LEMMA OneOutcome ==
  /\ <<>> \in Seq(Outcomes)
  /\ \A o \in Outcomes : <<o>> \in Seq(Outcomes)
  /\ <<>> # <<"applied">> /\ <<"skipped">> # <<"applied">> /\ <<"already">> # <<"applied">>
  /\ {"applied", "already", "skipped", "failed"} \subseteq Outcomes
  BY DEF Outcomes

LEMMA FaultType ==
  ASSUME HandlerType, NEW kind, Fault(kind)
  PROVE  faults' \in 0..MaxFaults
  BY Bounds DEF Fault, HandlerType

LEMMA InitResponse == Init => ResponseInv
<1> SUFFICES ASSUME Init PROVE ResponseInv
  OBVIOUS
<1>1. HandlerType
  BY Bounds, OneOutcome DEF Init, HandlerType
<1>2. AccountsType
  BY DEF Init, AccountsType
<1>3. ThrottleType
  BY Bounds DEF Init, ThrottleType, Unheard
<1>4. StepFits
  BY DEF Init, StepFits, Suspending
<1> QED
  BY <1>1, <1>2, <1>3, <1>4 DEF ResponseInv

\* What most steps leave alone.
LEMMA AccountsUntouched ==
  ASSUME AccountsType, UNCHANGED <<accounts, forgetting, raced, unsure, notices, forgotten>>
  PROVE  AccountsType'
  BY DEF AccountsType, accounts

LEMMA ThrottleUntouched ==
  ASSUME ThrottleType, UNCHANGED <<throttle, heard, sent, free>>
  PROVE  ThrottleType'
  BY DEF ThrottleType, throttle

LEMMA TakingStep ==
  ASSUME ResponseInv, NEW kind \in Kinds,
         \/ TakeNotice(kind) \/ TakeBlock(kind) \/ SkipSuspension(kind)
         \/ Resuspend(kind) \/ StartSuspension(kind)
  PROVE  ResponseInv'
<1>1. /\ alert' = kind /\ alerts' \in 0..MaxAlerts
      /\ pc' = "lock" => kind.account \in Accounts \ suspendedAccts
      /\ pc' \in {"report", "ban", "lock"}
      /\ effects' = <<>> \/ effects' = <<"skipped">> \/ effects' = <<"already">>
  BY KindFields, Bounds
     DEF TakeNotice, TakeBlock, SkipSuspension, Resuspend, StartSuspension, Take, Proceed,
         Known, ResponseInv, HandlerType
<1>2. UNCHANGED <<now, accounts, forgetting, requests, throttle, history, faults>>
  BY DEF TakeNotice, TakeBlock, SkipSuspension, Resuspend, StartSuspension, Take
<1>3. effects' \in Seq(Outcomes) /\ effects' # <<"applied">>
  BY <1>1, OneOutcome
<1>4. HandlerType'
  BY <1>1, <1>2, <1>3 DEF ResponseInv, HandlerType
<1>5. AccountsType' /\ ThrottleType'
  BY <1>2, AccountsUntouched, ThrottleUntouched DEF ResponseInv, history
<1>6. StepFits'
  BY <1>1, <1>2, <1>3 DEF StepFits, Suspending, accounts
<1> QED
  BY <1>4, <1>5, <1>6 DEF ResponseInv

LEMMA CarryingOutStep ==
  ASSUME ResponseInv, Lock \/ Record \/ BanIP \/ WarnUser
  PROVE  ResponseInv'
<1>1. \A kind : Fault(kind) => faults' \in 0..MaxFaults
  BY FaultType DEF ResponseInv
<1>2. ThrottleType'
  BY ThrottleUntouched DEF ResponseInv, Lock, Record, BanIP, WarnUser, history
<1>3. CASE Lock
  <2>1. HandlerType'
    BY <1>1, <1>3, OneOutcome DEF ResponseInv, HandlerType, Lock, LockAccount, Proceed
  <2>2. AccountsType'
    BY <1>3 DEF ResponseInv, StepFits, AccountsType, Lock, LockAccount
  <2>3. StepFits'
    BY <1>3 DEF ResponseInv, StepFits, Suspending, Lock, LockAccount, Proceed
  <2> QED
    BY <1>2, <2>1, <2>2, <2>3 DEF ResponseInv
<1>4. CASE Record
  <2>1. pc' \in {"ban", "warn", "report"} /\ alert \in Kinds /\ alert.account \in Accounts
    BY <1>4 DEF ResponseInv, StepFits, Record, Proceed, AfterBan
  <2>2. HandlerType'
    BY <1>4, <2>1, OneOutcome DEF ResponseInv, HandlerType, Record, Proceed
  <2>3. AccountsType'
    BY <1>4, <2>1 DEF ResponseInv, AccountsType, Record, history
  <2>4. StepFits'
    BY <1>4, <2>1 DEF StepFits, Suspending, Record
  <2> QED
    BY <1>2, <2>2, <2>3, <2>4 DEF ResponseInv
<1>5. CASE BanIP
  <2>1. PICK outcome \in Outcomes :
          /\ IF outcome = "failed" THEN Fault("firewall") ELSE UNCHANGED faults
          /\ Proceed(IF effects = <<"applied">> THEN AfterBan ELSE "report",
                     Append(effects, outcome))
          /\ UNCHANGED <<now, alert, alerts, requests, suspendedAccts>> /\ pc = "ban"
    BY <1>5 DEF BanIP, accounts
  <2>2. /\ pc' \in {"warn", "report"}
        /\ pc' = "warn" => Suspending
        /\ effects' \in Seq(Outcomes) /\ faults' \in 0..MaxFaults
    BY <1>1, <2>1 DEF ResponseInv, HandlerType, Proceed, AfterBan, Suspending
  <2>3. HandlerType'
    BY <2>1, <2>2 DEF ResponseInv, HandlerType
  <2>4. AccountsType'
    BY <1>5, AccountsUntouched DEF ResponseInv, BanIP, history
  <2>5. StepFits'
    BY <2>1, <2>2 DEF ResponseInv, StepFits, Suspending
  <2> QED
    BY <1>2, <2>3, <2>4, <2>5 DEF ResponseInv
<1>6. CASE WarnUser
  <2>1. alert.account \in Accounts /\ pc' = "report"
    BY <1>6 DEF ResponseInv, StepFits, WarnUser, Suspending, Proceed
  <2>5. effects \in Seq(Outcomes) /\ {"applied", "failed"} \subseteq Outcomes
    BY OneOutcome DEF ResponseInv, HandlerType
  <2>6. effects' \in Seq(Outcomes)
    <3>1. effects' = Append(effects, "applied") \/ effects' = Append(effects, "failed")
      BY <1>6 DEF WarnUser, Proceed
    <3> QED
      BY <2>5, <3>1, AppendProperties
  <2>7. faults' \in 0..MaxFaults /\ UNCHANGED <<now, alert, alerts, requests>>
    BY <1>1, <1>6 DEF ResponseInv, HandlerType, WarnUser
  <2>2. HandlerType'
    BY <2>1, <2>6, <2>7 DEF ResponseInv, HandlerType
  <2>3. AccountsType'
    BY <1>6, <2>1 DEF ResponseInv, AccountsType, WarnUser, accounts
  <2>4. StepFits'
    BY <1>6, <2>1 DEF ResponseInv, StepFits, WarnUser, Suspending, accounts
  <2> QED
    BY <1>2, <2>2, <2>3, <2>4 DEF ResponseInv
<1> QED
  BY <1>3, <1>4, <1>5, <1>6

LEMMA DeliveryType ==
  ASSUME HandlerType, ThrottleType, alert \in Kinds, NEW failing \in SUBSET Channels,
         Deliver(failing)
  PROVE  ThrottleType' /\ faults' \in 0..MaxFaults
<1>1. faults' \in 0..MaxFaults
  BY FaultType DEF Deliver, HandlerType
<1>2. now \in -1..MaxTime /\ now \in 0..MaxTime
  BY Bounds DEF HandlerType
<1>3. heard' \in [Kinds -> [at : -1..MaxTime, spoiled : BOOLEAN, restarted : BOOLEAN]]
  <2>1. [at |-> now, spoiled |-> failing # {}, restarted |-> FALSE]
           \in [at : -1..MaxTime, spoiled : BOOLEAN, restarted : BOOLEAN]
    BY <1>2
  <2> QED
    BY <2>1 DEF Deliver, ThrottleType
<1>4. sent' \in Seq(Notifications) /\ free' \in Nat
  <2>1. sent' = sent \/ sent' = Append(sent, [at |-> now, free |-> free])
    BY DEF Deliver
  <2>2. sent \in Seq(Notifications) /\ [at |-> now, free |-> free] \in Notifications
    BY <1>2 DEF ThrottleType, Notifications
  <2>3. Append(sent, [at |-> now, free |-> free]) \in Seq(Notifications)
    BY <2>2, AppendProperties
  <2>4. free' \in Nat
    BY DEF Deliver, ThrottleType
  <2> QED
    BY <2>1, <2>2, <2>3, <2>4, Zenon
<1>5. keys' \in [Keys -> -1..MaxTime]
  <2>1. Used \in [Keys -> -1..MaxTime]
    BY <1>2 DEF ThrottleType, Used
  <2>2. PruneKeys(Used) \in [Keys -> -1..MaxTime]
    BY <2>1, Bounds DEF PruneKeys
  <2> QED
    BY <2>1, <2>2 DEF Deliver, Register, ThrottleType, throttle
<1>6. windowStart' \in 0..MaxTime /\ windowCount' \in Nat
  BY DEF Deliver, Register, ThrottleType, throttle
<1>7. pruneCount' \in 0..(PruneEvery - 1)
  <2>1. pruneCount' \in {0, pruneCount} \/ (pruneCount' = pruneCount + 1 /\ ~PruneDue)
    BY DEF Deliver, Register, throttle
  <2>2. pruneCount \in 0..(PruneEvery - 1) /\ (~PruneDue => ~(pruneCount + 1 >= PruneEvery))
    BY DEF ThrottleType, PruneDue
  <2> QED
    BY <2>1, <2>2, Bounds
<1> QED
  BY <1>1, <1>3, <1>4, <1>5, <1>6, <1>7 DEF ThrottleType

LEMMA NotifyingStep ==
  ASSUME ResponseInv, Withhold \/ Report \/ Send
  PROVE  ResponseInv'
<1>1. AccountsType'
  BY AccountsUntouched DEF ResponseInv, Withhold, Report, Send, history
<1>2. CASE Withhold
  <2>1. HandlerType'
    BY <1>2, OneOutcome DEF ResponseInv, HandlerType, Withhold, Finish
  <2>2. ThrottleType'
    BY <1>2, ThrottleUntouched DEF ResponseInv, Withhold, history
  <2>3. StepFits'
    BY <1>2 DEF StepFits, Suspending, Withhold, Finish
  <2> QED
    BY <1>1, <2>1, <2>2, <2>3 DEF ResponseInv
<1>3. CASE Report
  <2>1. HandlerType'
    BY <1>3, OneOutcome DEF ResponseInv, HandlerType, Report, Finish
  <2>2. windowStart' \in 0..MaxTime /\ windowCount' \in Nat
    BY <1>3 DEF ResponseInv, HandlerType, ThrottleType, Report, Count
  <2>3. ThrottleType'
    BY <1>3, <2>2 DEF ResponseInv, ThrottleType, Report, history
  <2>4. StepFits'
    BY <1>3 DEF ResponseInv, StepFits, Suspending, Report, Finish
  <2> QED
    BY <1>1, <2>1, <2>3, <2>4 DEF ResponseInv
<1>4. CASE Send
  <2>1. PICK failing \in SUBSET Channels : Deliver(failing)
    BY <1>4 DEF Send
  <2>2. ThrottleType' /\ faults' \in 0..MaxFaults
    BY <1>4, <2>1, DeliveryType DEF ResponseInv, StepFits, Send
  <2>3. HandlerType'
    BY <1>4, <2>2, OneOutcome DEF ResponseInv, HandlerType, Send, Finish
  <2>4. StepFits'
    BY <1>4 DEF StepFits, Suspending, Send, Finish
  <2> QED
    BY <1>1, <2>2, <2>3, <2>4 DEF ResponseInv
<1> QED
  BY <1>2, <1>3, <1>4

LEMMA RehabilitationStep ==
  ASSUME ResponseInv, NEW p \in Callers,
         Forget(p) \/ \E a \in Accounts : Activate(p, a)
  PROVE  ResponseInv'
<1>1. UNCHANGED <<now, handler, throttle, heard, sent, free>>
  BY DEF Forget, Activate
<1>2. ThrottleType'
  BY <1>1, ThrottleUntouched DEF ResponseInv
<1>3. requests' \in 0..MaxRequests /\ faults' \in 0..MaxFaults
  BY FaultType, Bounds DEF ResponseInv, HandlerType, Forget, Activate
<1>4. HandlerType'
  BY <1>1, <1>3 DEF ResponseInv, HandlerType, handler
<1>5. StepFits'
  BY <1>1 DEF ResponseInv, StepFits, Suspending, handler, Forget, ForgetAccount, Activate
<1>6. AccountsType'
  <2>1. CASE Forget(p)
    BY <2>1 DEF ResponseInv, AccountsType, Forget, ForgetAccount
  <2>2. CASE \E a \in Accounts : Activate(p, a)
    BY <2>2 DEF ResponseInv, AccountsType, Activate
  <2> QED
    BY <2>1, <2>2
<1> QED
  BY <1>2, <1>4, <1>5, <1>6 DEF ResponseInv

LEMMA OutsideStep ==
  ASSUME ResponseInv, Restart \/ Tick \/ UNCHANGED vars
  PROVE  ResponseInv'
<1>1. CASE Restart
  <2>1. HandlerType'
    BY <1>1, FaultType, OneOutcome DEF ResponseInv, HandlerType, Restart, Finish
  <2>2. AccountsType'
    BY <1>1 DEF ResponseInv, AccountsType, Restart
  <2>3. ThrottleType'
    <3>1. heard' \in [Kinds -> [at : -1..MaxTime, spoiled : BOOLEAN, restarted : BOOLEAN]]
      BY <1>1 DEF ResponseInv, ThrottleType, Restart
    <3>2. free' \in Nat /\ sent' \in Seq(Notifications)
      BY <1>1, Bounds DEF ResponseInv, ThrottleType, Restart
    <3>3. keys' \in [Keys -> -1..MaxTime] /\ windowStart' \in 0..MaxTime
      BY <1>1, Bounds DEF ResponseInv, HandlerType, Restart
    <3>4. windowCount' \in Nat /\ pruneCount' \in 0..(PruneEvery - 1)
      BY <1>1, Bounds DEF Restart
    <3> QED
      BY <3>1, <3>2, <3>3, <3>4 DEF ThrottleType
  <2>4. StepFits'
    BY <1>1 DEF StepFits, Suspending, Restart, Finish
  <2> QED
    BY <2>1, <2>2, <2>3, <2>4 DEF ResponseInv
<1>2. CASE Tick \/ UNCHANGED vars
  <2>1. UNCHANGED <<handler, accounts, forgetting, requests, throttle, history, faults>>
    BY <1>2 DEF Tick, vars
  <2>2. now' \in 0..MaxTime
    BY <1>2, Bounds DEF ResponseInv, HandlerType, Tick, vars
  <2>3. HandlerType'
    BY <2>1, <2>2 DEF ResponseInv, HandlerType, handler
  <2>4. AccountsType' /\ ThrottleType'
    BY <2>1, AccountsUntouched, ThrottleUntouched DEF ResponseInv, history
  <2>5. StepFits'
    BY <2>1 DEF ResponseInv, StepFits, Suspending, handler, accounts
  <2> QED
    BY <2>3, <2>4, <2>5 DEF ResponseInv
<1> QED
  BY <1>1, <1>2

LEMMA ResponseStep == ResponseInv /\ [Next]_vars => ResponseInv'
  BY TakingStep, CarryingOutStep, NotifyingStep, RehabilitationStep, OutsideStep
     DEF Next, Handle

LEMMA ResponseInvariant == Spec => []ResponseInv
  BY InitResponse, ResponseStep, PTL DEF Spec

\* Every variable of the response keeps its type, for any alerts, settings and
\* faults; in particular no cooldown is ever in the future (throttle.go:76).
THEOREM ResponseTypeCorrect == Spec => []ResponseTypeOK
<1>1. ResponseInv => ResponseTypeOK
  BY DEF ResponseInv, HandlerType, AccountsType, ThrottleType, Notifications, ResponseTypeOK
<1> QED
  BY <1>1, ResponseInvariant, PTL

-----------------------------------------------------------------------------
(* The registry and Zimbra.                                                *)

\* Between zmprov and the registry the account is locked, unless an Unsuspend
\* came in between.
RegistryTrue ==
    /\ SuspendedIsLocked
    /\ pc = "record" => alert.account \in locked \cup raced

LEMMA RegistryStep == ResponseInv /\ RegistryTrue /\ [Next]_vars => RegistryTrue'
<1> SUFFICES ASSUME ResponseInv, RegistryTrue, [Next]_vars PROVE RegistryTrue'
  OBVIOUS
<1> USE DEF RegistryTrue, SuspendedIsLocked, Rehabilitating
<1>1. ASSUME NEW kind \in Kinds,
             \/ TakeNotice(kind) \/ TakeBlock(kind) \/ SkipSuspension(kind)
             \/ Resuspend(kind) \/ StartSuspension(kind)
      PROVE  RegistryTrue'
  <2>1. pc' # "record" /\ UNCHANGED <<accounts, forgetting, history>>
    BY <1>1 DEF TakeNotice, TakeBlock, SkipSuspension, Resuspend, StartSuspension, Take, Proceed
  <2> QED
    BY <2>1 DEF accounts, history
<1>2. CASE Lock
  BY <1>2 DEF Lock, LockAccount, Proceed
<1>3. CASE Record
  BY <1>3 DEF Record, Proceed, AfterBan, history
<1>4. CASE BanIP \/ WarnUser
  <2>1. pc' # "record" /\ UNCHANGED <<accounts, forgetting, raced, unsure>>
    BY <1>4 DEF BanIP, WarnUser, Proceed, AfterBan, history
  <2> QED
    BY <2>1 DEF accounts
<1>5. CASE Withhold \/ Report \/ Send
  <2>1. pc' # "record" /\ UNCHANGED <<accounts, forgetting, raced, unsure>>
    BY <1>5 DEF Withhold, Report, Send, Finish, history
  <2> QED
    BY <2>1 DEF accounts
<1>6. ASSUME NEW p \in Callers, Forget(p) PROVE RegistryTrue'
  BY <1>6 DEF Forget, ForgetAccount, handler, ResponseInv, AccountsType
<1>7. ASSUME NEW p \in Callers, NEW a \in Accounts, Activate(p, a) PROVE RegistryTrue'
  <2>1. \A b \in Accounts : Rehabilitating(b) => Rehabilitating(b)' \/ b = None
    BY <1>7 DEF Activate, ResponseInv, AccountsType
  <2>2. None \notin Accounts
    BY ResponseAssumption
  <2> QED
    BY <1>7, <2>1, <2>2 DEF Activate, Locking, handler, ResponseInv, AccountsType
<1>8. CASE Restart
  BY <1>8 DEF Restart, Finish
<1>9. CASE Tick \/ UNCHANGED vars
  BY <1>9 DEF Tick, vars, handler, accounts, history
<1> QED
  BY <1>1, <1>2, <1>3, <1>4, <1>5, <1>6, <1>7, <1>8, <1>9 DEF Next, Handle

\* Whom the enforcer remembers as suspended is locked in Zimbra, for any number
\* of alerts, API callers and faults, but for the accounts named in the
\* property (enforcer.go:554).
THEOREM RegistryTellsTruth == Spec => []SuspendedIsLocked
<1>1. Init => RegistryTrue
  BY DEF Init, RegistryTrue, SuspendedIsLocked
<1>2. RegistryTrue => SuspendedIsLocked
  BY DEF RegistryTrue
<1> QED
  BY <1>1, <1>2, ResponseInvariant, RegistryStep, PTL DEF Spec

-----------------------------------------------------------------------------
(* The warnings.                                                           *)

\* An account has a warning to its credit for each time the registry dropped it
\* and for being in it; a suspension in progress has one of them to spend.
Credit(a) == forgotten[a] + (IF a \in suspendedAccts THEN 1 ELSE 0)
WarningsEarned ==
    \A a \in Accounts :
        /\ notices[a] <= Credit(a)
        /\ Suspending /\ alert.account = a => notices[a] < Credit(a)

LEMMA WarningsStep == ResponseInv /\ WarningsEarned /\ [Next]_vars => WarningsEarned'
<1> SUFFICES ASSUME ResponseInv, WarningsEarned, [Next]_vars PROVE WarningsEarned'
  OBVIOUS
<1>0. /\ notices \in [Accounts -> Nat] /\ forgotten \in [Accounts -> Nat]
      /\ suspendedAccts \subseteq Accounts
  BY DEF ResponseInv, AccountsType
<1>1. CASE /\ UNCHANGED <<suspendedAccts, notices, forgotten>>
           /\ Suspending' => Suspending /\ alert' = alert
  BY <1>1 DEF WarningsEarned, Credit
<1>2. ASSUME NEW kind \in Kinds,
             \/ TakeNotice(kind) \/ TakeBlock(kind) \/ SkipSuspension(kind)
             \/ Resuspend(kind) \/ StartSuspension(kind)
      PROVE  WarningsEarned'
  <2>1. ~Suspending' /\ UNCHANGED <<suspendedAccts, notices, forgotten>>
    BY <1>2, OneOutcome
       DEF TakeNotice, TakeBlock, SkipSuspension, Resuspend, StartSuspension, Take, Proceed,
           Suspending, accounts, history
  <2> QED
    BY <1>1, <2>1
<1>3. CASE Lock
  BY <1>1, <1>3 DEF Lock, LockAccount, Proceed, Suspending
<1>4. CASE Record
  <2>1. /\ suspendedAccts' = suspendedAccts \cup {alert.account}
        /\ UNCHANGED <<alert, notices, forgotten>>
        /\ alert.account \notin suspendedAccts
    BY <1>4 DEF Record, history, ResponseInv, StepFits
  <2> QED
    BY <1>0, <2>1 DEF WarningsEarned, Credit
<1>5. CASE BanIP
  BY <1>1, <1>5 DEF BanIP, Proceed, AfterBan, Suspending, accounts, history
<1>6. CASE WarnUser
  <2>1. Suspending /\ ~Suspending' /\ UNCHANGED <<suspendedAccts, forgotten>>
    BY <1>6 DEF WarnUser, Proceed, Suspending, accounts
  <2>2. notices' = notices \/ notices' = [notices EXCEPT ![alert.account] = @ + 1]
    BY <1>6 DEF WarnUser
  <2> QED
    BY <1>0, <2>1, <2>2 DEF WarningsEarned, Credit
<1>7. CASE Withhold \/ Report \/ Send
  BY <1>1, <1>7 DEF Withhold, Report, Send, Finish, Suspending, accounts, history
<1>8. ASSUME NEW p \in Callers, Forget(p) PROVE WarningsEarned'
  <2>1. /\ suspendedAccts' = suspendedAccts \ {forgetting[p]}
        /\ forgotten' = [forgotten EXCEPT ![forgetting[p]] = @ + 1]
        /\ UNCHANGED <<pc, alert, effects, notices>>
    BY <1>8 DEF Forget, ForgetAccount, handler
  <2> QED
    BY <1>0, <2>1 DEF WarningsEarned, Credit, Suspending
<1>9. ASSUME NEW p \in Callers, NEW a \in Accounts, Activate(p, a) PROVE WarningsEarned'
  BY <1>1, <1>9 DEF Activate, Suspending, handler
<1>10. CASE Restart
  <2>1. /\ suspendedAccts' = {} /\ ~Suspending' /\ UNCHANGED notices
        /\ forgotten' = [a \in Accounts |-> forgotten[a] + 1]
    BY <1>10 DEF Restart, Finish, Suspending
  <2> QED
    BY <1>0, <2>1 DEF WarningsEarned, Credit
<1>11. CASE Tick \/ UNCHANGED vars
  BY <1>1, <1>11 DEF Tick, vars, Suspending, handler, accounts, history
<1> QED
  BY <1>2, <1>3, <1>4, <1>5, <1>6, <1>7, <1>8, <1>9, <1>10, <1>11 DEF Next, Handle

\* However long an attack lasts, the user is warned once for each time the
\* account is suspended anew (enforcer.go:555).
THEOREM UsersAreWarnedOnce == Spec => []UserWarnedOnce
<1>1. Init => WarningsEarned
  BY DEF Init, WarningsEarned, Credit, Suspending
<1>2. ResponseInv /\ WarningsEarned => UserWarnedOnce
  BY DEF WarningsEarned, Credit, UserWarnedOnce, ResponseInv, AccountsType
<1> QED
  BY <1>1, <1>2, ResponseInvariant, WarningsStep, PTL DEF Spec

-----------------------------------------------------------------------------
(* The cooldown.                                                           *)

Remembered(k) == ~heard[k].spoiled /\ ~heard[k].restarted

\* A running cooldown and the notifications of its origin name each other.
CooldownTrue ==
    /\ \A k \in Kinds : heard[k].at <= now
    /\ \A k \in Kinds : Recent(k) /\ Remembered(k) =>
          keys[ThrottleKey(k)] # -1 /\ heard[k].at <= keys[ThrottleKey(k)]
    /\ \A q \in Keys : keys[q] # -1 =>
          \E k \in Kinds : ThrottleKey(k) = q /\ keys[q] <= heard[k].at
    /\ pc = "send" => ~Cooling

\* The key of the throttle is the origin of the alert and nothing else.
LEMMA KeyIsOrigin ==
  ASSUME NEW j \in Kinds, NEW k \in Kinds
  PROVE  SameOrigin(j, k) <=> ThrottleKey(j) = ThrottleKey(k)
  BY DEF SameOrigin, ThrottleKey

LEMMA CooldownUntouched ==
  ASSUME ResponseInv, CooldownTrue, UNCHANGED <<keys, heard>>,
         now' \in 0..MaxTime, now <= now',
         pc' = "send" => alert \in Kinds /\ alert' = alert /\ ~Cooling
  PROVE  CooldownTrue'
<1> USE DEF ResponseInv, HandlerType, ThrottleType
<1>1. \A k \in Kinds : heard[k].at \in -1..MaxTime /\ ThrottleKey(k) \in Keys
  BY KindFields
<1>2. \A k \in Kinds : Recent(k)' => Recent(k)
  BY <1>1, Bounds DEF Recent
<1>3. pc' = "send" => ~Cooling'
  <2>1. pc' = "send" => alert \in Kinds /\ Key' = Key
    BY DEF Key, ThrottleKey
  <2>2. pc' = "send" => Key \in Keys /\ ~Cooling
    BY <2>1, KindFields DEF Key
  <2> QED
    BY <2>1, <2>2, Bounds DEF Cooling
<1> QED
  BY <1>1, <1>2, <1>3, Bounds DEF CooldownTrue, Remembered

LEMMA CooldownStep == ResponseInv /\ ResponseInv' /\ CooldownTrue /\ [Next]_vars => CooldownTrue'
<1> SUFFICES ASSUME ResponseInv, ResponseInv', CooldownTrue, [Next]_vars PROVE CooldownTrue'
  OBVIOUS
<1>0. now \in 0..MaxTime /\ now' \in 0..MaxTime /\ now <= now
  BY Bounds DEF ResponseInv, HandlerType
<1>1. ASSUME NEW kind \in Kinds,
             \/ TakeNotice(kind) \/ TakeBlock(kind) \/ SkipSuspension(kind)
             \/ Resuspend(kind) \/ StartSuspension(kind)
      PROVE  CooldownTrue'
  BY <1>0, <1>1, CooldownUntouched
     DEF TakeNotice, TakeBlock, SkipSuspension, Resuspend, StartSuspension, Take, Proceed,
         throttle, history
<1>2. CASE Lock \/ Record \/ BanIP \/ WarnUser
  BY <1>0, <1>2, CooldownUntouched
     DEF Lock, LockAccount, Record, BanIP, WarnUser, Proceed, AfterBan, throttle, history
<1>3. CASE Withhold \/ Report
  BY <1>0, <1>3, CooldownUntouched
     DEF Withhold, Report, Finish, throttle, history, ResponseInv, StepFits
<1>4. CASE Send
  <2>1. PICK failing \in SUBSET Channels : Deliver(failing)
    BY <1>4 DEF Send
  <2>2. alert \in Kinds /\ Key \in Keys /\ pc' = "idle" /\ now' = now
    BY <1>4, KindFields DEF Send, Finish, Key, ResponseInv, StepFits
  <2>3. /\ keys \in [Keys -> -1..MaxTime]
        /\ heard \in [Kinds -> [at : -1..MaxTime, spoiled : BOOLEAN, restarted : BOOLEAN]]
        /\ \A k \in Kinds : heard[k].at \in -1..MaxTime /\ ThrottleKey(k) \in Keys
    BY KindFields DEF ResponseInv, ThrottleType
  <2>4. CASE failing = {}
    <3>1. heard' = [heard EXCEPT ![alert] = [at |-> now, spoiled |-> FALSE,
                                             restarted |-> FALSE]]
      BY <2>1, <2>4, ResponseAssumption DEF Deliver
    <3>2. \A q \in Keys :
             /\ keys'[q] # -1 => keys'[q] = Used[q]
             /\ Used[q] # -1 /\ ~(Used[q] < now - KeyCooldown) => keys'[q] = Used[q]
      BY <2>1, <2>3, <2>4 DEF Deliver, Register, PruneKeys, Used
    <3>3. \A q \in Keys : Used[q] \in -1..MaxTime
      BY <1>0, <2>3 DEF Used
    <3>4. /\ KeyCooldown > 0 => Used[Key] = now
          /\ \A q \in Keys : q # Key \/ ~(KeyCooldown > 0) => Used[q] = keys[q]
      BY <2>2, <2>3 DEF Used
    <3>5. \A k \in Kinds : heard'[k].at <= now' /\ heard[k].at <= heard'[k].at
      BY <1>0, <2>2, <2>3, <3>1 DEF CooldownTrue
    <3>7. \A k \in Kinds : heard'[k].at \in -1..MaxTime
      BY <1>0, <2>3, <3>1
    <3>6. ASSUME NEW k \in Kinds, Recent(k)', Remembered(k)'
          PROVE  keys'[ThrottleKey(k)] # -1 /\ heard'[k].at <= keys'[ThrottleKey(k)]
      <4>1. KeyCooldown > 0 /\ heard'[k].at > now - KeyCooldown
        BY <1>0, <2>2, <2>3, <3>5, <3>6, <3>7, Bounds DEF Recent
      <4>2. Used[ThrottleKey(k)] # -1 /\ heard'[k].at <= Used[ThrottleKey(k)]
        <5>1. CASE ThrottleKey(k) = Key
          BY <1>0, <2>2, <3>4, <3>5, <4>1, <5>1, Bounds
        <5>2. CASE ThrottleKey(k) # Key
          <6>1. k # alert /\ heard'[k] = heard[k]
            BY <2>3, <3>1, <5>2 DEF Key
          <6>2. Recent(k) /\ Remembered(k)
            BY <2>2, <3>6, <6>1 DEF Recent, Remembered
          <6> QED
            BY <2>3, <3>4, <5>2, <6>1, <6>2 DEF CooldownTrue
        <5> QED
          BY <5>1, <5>2
      <4>3. ~(Used[ThrottleKey(k)] < now - KeyCooldown)
        BY <1>0, <2>3, <3>1, <3>3, <4>1, <4>2, Bounds
      <4> QED
        BY <2>3, <3>2, <4>2, <4>3
    <3>8. ASSUME NEW q \in Keys, keys'[q] # -1
          PROVE  \E k \in Kinds : ThrottleKey(k) = q /\ keys'[q] <= heard'[k].at
      <4>1. keys'[q] = Used[q]
        BY <3>2, <3>8
      <4>2. CASE q = Key /\ KeyCooldown > 0
        BY <1>0, <2>2, <2>3, <3>1, <3>4, <4>1, <4>2 DEF Key
      <4>3. CASE q # Key \/ ~(KeyCooldown > 0)
        <5>1. keys'[q] = keys[q]
          BY <3>4, <4>1, <4>3
        <5>2. PICK k \in Kinds : ThrottleKey(k) = q /\ keys[q] <= heard[k].at
          BY <3>8, <5>1 DEF CooldownTrue
        <5>3. keys[q] <= heard'[k].at
          BY <2>3, <1>0, <3>1, <3>5, <5>2
        <5> QED
          BY <5>1, <5>2, <5>3
      <4> QED
        BY <4>2, <4>3
    <3> QED
      BY <2>2, <3>5, <3>6, <3>8 DEF CooldownTrue
  <2>5. CASE failing # {}
    <3>1. UNCHANGED keys
      BY <2>1, <2>5 DEF Deliver, throttle
    <3>2. \A k \in Kinds : \/ heard'[k] = heard[k]
                           \/ heard'[k].at = now /\ heard'[k].spoiled
      BY <2>1, <2>3, <2>5 DEF Deliver
    <3>3. \A k \in Kinds : heard'[k].at <= now' /\ heard[k].at <= heard'[k].at
      BY <1>0, <2>2, <2>3, <3>2 DEF CooldownTrue
    <3>4. \A q \in Keys : keys'[q] # -1 =>
             \E k \in Kinds : ThrottleKey(k) = q /\ keys'[q] <= heard'[k].at
      <4> SUFFICES ASSUME NEW q \in Keys, keys[q] # -1
                   PROVE  \E k \in Kinds : ThrottleKey(k) = q /\ keys[q] <= heard'[k].at
        BY <3>1
      <4>1. PICK k \in Kinds : ThrottleKey(k) = q /\ keys[q] <= heard[k].at
        BY DEF CooldownTrue
      <4>2. keys[q] <= heard'[k].at
        BY <1>0, <2>3, <3>2, <3>3, <4>1
      <4> QED
        BY <4>1, <4>2
    <3>5. \A k \in Kinds : Recent(k)' /\ Remembered(k)' =>
             Recent(k) /\ Remembered(k) /\ heard'[k] = heard[k]
      BY <2>2, <3>2 DEF Recent, Remembered
    <3> QED
      BY <2>2, <3>1, <3>3, <3>4, <3>5 DEF CooldownTrue
  <2> QED
    BY <2>4, <2>5
<1>5. ASSUME NEW p \in Callers, Forget(p) \/ \E a \in Accounts : Activate(p, a)
      PROVE  CooldownTrue'
  <2>1. UNCHANGED <<now, pc, alert, keys, heard>>
    BY <1>5 DEF Forget, Activate, handler, throttle
  <2> QED
    BY <1>0, <2>1, CooldownUntouched DEF CooldownTrue, ResponseInv, StepFits
<1>6. CASE Restart
  <2>1. /\ now' = now /\ pc' = "idle" /\ keys' = [k \in Keys |-> -1]
        /\ heard' = [k \in Kinds |-> [heard[k] EXCEPT !.restarted = TRUE]]
    BY <1>6 DEF Restart, Finish
  <2>2. \A k \in Kinds : heard'[k].at = heard[k].at /\ ~Remembered(k)'
    BY <2>1 DEF ResponseInv, ThrottleType, Remembered
  <2> QED
    BY <2>1, <2>2 DEF CooldownTrue
<1>7. CASE Tick \/ UNCHANGED vars
  <2>1. now <= now' /\ UNCHANGED <<pc, alert, keys, heard>>
    BY <1>0, <1>7 DEF Tick, vars, handler, throttle, history
  <2> QED
    BY <1>0, <2>1, CooldownUntouched DEF CooldownTrue, ResponseInv, StepFits
<1> QED
  BY <1>1, <1>2, <1>3, <1>4, <1>5, <1>6, <1>7 DEF Next, Handle

LEMMA CooldownInvariant == Spec => [](ResponseInv /\ CooldownTrue)
<1>1. Init => CooldownTrue
  BY Bounds DEF Init, CooldownTrue, Recent, Unheard
<1> QED
  BY <1>1, InitResponse, ResponseStep, CooldownStep, PTL DEF Spec

\* No pruning and no slow channel lets an alert through that every channel
\* delivered within the cooldown to administrators of an agent that has not
\* restarted since (throttle.go:82).
THEOREM CooldownIsKept == Spec => []CooldownHolds
<1>1. ASSUME ResponseInv, CooldownTrue PROVE CooldownHolds
  <2> SUFFICES ASSUME pc = "send", NEW k \in Kinds, SameOrigin(k, alert), Recent(k),
                      Remembered(k)
               PROVE  FALSE
    BY DEF CooldownHolds, Remembered
  <2>1. alert \in Kinds /\ ThrottleKey(k) = Key /\ Key \in Keys
    BY <1>1, KeyIsOrigin, KindFields DEF Key, ResponseInv, StepFits
  <2>2. keys[Key] # -1 /\ heard[k].at <= keys[Key] /\ heard[k].at <= now /\ ~Cooling
    BY <1>1, <2>1 DEF CooldownTrue
  <2>3. keys[Key] \in -1..MaxTime /\ heard[k].at \in -1..MaxTime /\ now \in 0..MaxTime
    BY <1>1, <2>1 DEF ResponseInv, HandlerType, ThrottleType
  <2> QED
    BY <2>2, <2>3, Bounds DEF Cooling, Recent
<1> QED
  BY <1>1, CooldownInvariant, PTL

\* The cooldown withholds nothing that the administrators have not heard
\* within it (throttle.go:68).
THEOREM NothingIsWithheldUnheard == Spec => []WithheldWasHeard
<1>1. ASSUME ResponseInv, CooldownTrue PROVE WithheldWasHeard
  <2> SUFFICES ASSUME pc = "report", Cooling
               PROVE  \E k \in Kinds : SameOrigin(k, alert) /\ Recent(k)
    BY DEF WithheldWasHeard
  <2>1. alert \in Kinds /\ Key \in Keys
    BY <1>1, KindFields DEF Key, ResponseInv, StepFits
  <2>2. PICK k \in Kinds : ThrottleKey(k) = Key /\ keys[Key] <= heard[k].at
    BY <1>1, <2>1 DEF Cooling, CooldownTrue
  <2>3. keys[Key] \in -1..MaxTime /\ heard[k].at \in -1..MaxTime /\ now \in 0..MaxTime
    BY <1>1, <2>1 DEF ResponseInv, HandlerType, ThrottleType
  <2>4. SameOrigin(k, alert) /\ Recent(k)
    BY <2>1, <2>2, <2>3, KeyIsOrigin, Bounds DEF Key, Cooling, Recent
  <2> QED
    BY <2>4
<1> QED
  BY <1>1, CooldownInvariant, PTL

-----------------------------------------------------------------------------
(* The limit per window.  A window may still count a notification that a    *)
(* slow channel delivers after its end, so neighbouring windows share no    *)
(* bound; but when one opens, the last but one is over for a whole length.  *)

\* A notification's place among those the limit counts, a restart having
\* thrown a whole limit of places away, and the last place given so far.
Place(s, i) == i - s[i].free
LastPlace == Len(sent) - free

\* The last windowCount places are the open window's; those before are no
\* later than its start, and those of earlier windows than the previous one,
\* which holds at most MaxPerWindow, a window's length earlier.
RateTrue ==
    MaxPerWindow > 0 =>
        /\ windowCount <= MaxPerWindow /\ windowStart <= now
        /\ pc = "send" => windowCount < MaxPerWindow
        /\ \A i \in 1..Len(sent) :
              /\ sent[i].at <= now
              /\ Place(sent, i) <= LastPlace - windowCount => sent[i].at <= windowStart
              /\ Place(sent, i) <= LastPlace - windowCount - MaxPerWindow =>
                    sent[i].at + Window <= windowStart
        /\ \A i, j \in 1..Len(sent) :
              i < j /\ Place(sent, i) + 2 * MaxPerWindow <= Place(sent, j) =>
                  sent[i].at + Window <= sent[j].at

LEMMA RateTypes ==
  ASSUME ResponseInv
  PROVE  /\ now \in 0..MaxTime /\ MaxTime \in Nat
         /\ windowStart \in 0..MaxTime /\ windowCount \in Nat /\ MaxPerWindow \in Nat
         /\ Window \in Nat \ {0} /\ sent \in Seq(Notifications) /\ Len(sent) \in Nat
         /\ free \in Nat /\ LastPlace \in Int
         /\ \A i \in 1..Len(sent) :
               sent[i].at \in 0..MaxTime /\ sent[i].free \in Nat /\ Place(sent, i) \in Int
<1>1. sent \in Seq(Notifications) /\ Len(sent) \in Nat /\ free \in Nat
  BY DEF ResponseInv, ThrottleType
<1>2. \A i \in 1..Len(sent) : sent[i] \in Notifications
  BY <1>1, ElementOfSeq
<1>3. \A i \in 1..Len(sent) : sent[i].at \in 0..MaxTime /\ sent[i].free \in Nat
  BY <1>2 DEF Notifications
<1> QED
  BY <1>1, <1>3, Bounds DEF ResponseInv, HandlerType, ThrottleType, Place, LastPlace

LEMMA RateUntouched ==
  ASSUME ResponseInv, RateTrue, now' \in 0..MaxTime, now <= now',
         pc' = "send" => pc = "send", UNCHANGED <<sent, free, windowStart, windowCount>>
  PROVE  RateTrue'
<1>1. \A i \in 1..Len(sent) : sent[i].at \in 0..MaxTime
  BY RateTypes
<1>2. /\ sent' = sent /\ windowStart' = windowStart /\ windowCount' = windowCount
      /\ now <= now' /\ pc' = "send" => pc = "send"
      /\ LastPlace' = LastPlace /\ \A i : Place(sent', i) = Place(sent, i)
  BY DEF LastPlace, Place
<1> QED
  BY <1>1, <1>2, RateTypes DEF RateTrue

LEMMA RateStep == ResponseInv /\ ResponseInv' /\ RateTrue /\ [Next]_vars => RateTrue'
<1> SUFFICES ASSUME ResponseInv, ResponseInv', RateTrue, [Next]_vars, MaxPerWindow > 0
             PROVE  RateTrue'
  BY DEF RateTrue
<1>0. /\ now \in 0..MaxTime /\ now' \in 0..MaxTime /\ now <= now
      /\ windowStart \in 0..MaxTime /\ windowCount \in Nat /\ MaxPerWindow \in Nat
      /\ Window \in Nat \ {0} /\ sent \in Seq(Notifications) /\ Len(sent) \in Nat
      /\ free \in Nat /\ LastPlace \in Int
      /\ \A i \in 1..Len(sent) : sent[i].at \in 0..MaxTime /\ Place(sent, i) \in Int
  <2>1. now \in 0..MaxTime /\ now' \in 0..MaxTime /\ MaxTime \in Nat
    BY Bounds DEF ResponseInv, HandlerType
  <2>2. now <= now
    BY <2>1
  <2> QED
    BY <2>1, <2>2, RateTypes
<1>1. ASSUME NEW kind \in Kinds,
             \/ TakeNotice(kind) \/ TakeBlock(kind) \/ SkipSuspension(kind)
             \/ Resuspend(kind) \/ StartSuspension(kind)
      PROVE  RateTrue'
  BY <1>0, <1>1, RateUntouched
     DEF TakeNotice, TakeBlock, SkipSuspension, Resuspend, StartSuspension, Take, Proceed,
         throttle, history
<1>2. CASE Lock \/ Record \/ BanIP \/ WarnUser
  BY <1>0, <1>2, RateUntouched
     DEF Lock, LockAccount, Record, BanIP, WarnUser, Proceed, AfterBan, throttle, history
<1>3. CASE Withhold
  BY <1>0, <1>3, RateUntouched DEF Withhold, Finish, throttle, history
<1>4. CASE Report
  <2>1. /\ now' = now /\ sent' = sent /\ LastPlace' = LastPlace /\ \A i : Place(sent', i) = Place(sent, i)
        /\ windowStart' = IF NewWindow THEN now ELSE windowStart
        /\ windowCount' = IF NewWindow THEN 0 ELSE windowCount
        /\ pc' = "send" => ~Full
    BY <1>4 DEF Report, Finish, Count, history, LastPlace, Place
  <2>2. CASE NewWindow
    <3>1. windowStart' = now /\ windowCount' = 0 /\ windowStart + Window <= now
      BY <1>0, <2>1, <2>2 DEF NewWindow
    <3>2. \A i \in 1..Len(sent) :
             /\ sent[i].at <= now
             /\ Place(sent, i) <= LastPlace - MaxPerWindow => sent[i].at + Window <= now
      BY <1>0, <3>1 DEF RateTrue
    <3> QED
      BY <1>0, <2>1, <3>1, <3>2 DEF RateTrue
  <2>3. CASE ~NewWindow
    <3>1. UNCHANGED <<windowStart, windowCount>>
      BY <2>1, <2>3
    <3>2. pc' = "send" => windowCount < MaxPerWindow
      BY <1>0, <2>1, <2>3 DEF Full, Count
    <3> QED
      BY <1>0, <2>1, <3>1, <3>2 DEF RateTrue
  <2> QED
    BY <2>2, <2>3
<1>5. CASE Send
  <2>1. PICK failing \in SUBSET Channels : Deliver(failing)
    BY <1>5 DEF Send
  <2>2. now' = now /\ pc = "send" /\ pc' = "idle" /\ windowCount < MaxPerWindow
    BY <1>5 DEF Send, Finish, RateTrue
  <2>3. CASE failing = Channels
    BY <1>0, <2>1, <2>2, <2>3, RateUntouched, ResponseAssumption DEF Deliver, throttle
  <2>4. CASE failing # Channels
    <3>1. /\ sent' = Append(sent, [at |-> now, free |-> free]) /\ windowStart' = windowStart
          /\ \/ windowCount' = windowCount + 1 /\ free' = free
             \/ windowCount' = windowCount /\ free' = free + 1
      BY <2>1, <2>4, <1>0 DEF Deliver, Register, throttle
    <3>2. /\ Len(sent') = Len(sent) + 1
          /\ sent'[Len(sent) + 1] = [at |-> now, free |-> free]
          /\ \A i \in 1..Len(sent) : sent'[i] = sent[i]
      BY <1>0, <3>1, AppendProperties
    <3>3. /\ sent'[Len(sent) + 1].at = now /\ Place(sent', Len(sent) + 1) = LastPlace + 1
          /\ \A i \in 1..Len(sent) : sent'[i].at = sent[i].at /\ Place(sent', i) = Place(sent, i)
          /\ LastPlace' - windowCount' = LastPlace - windowCount
          /\ windowCount' <= MaxPerWindow
      <4>1. \A i \in 1..Len(sent) : sent'[i].at = sent[i].at /\ Place(sent', i) = Place(sent, i)
        BY <3>2 DEF Place
      <4>2. sent'[Len(sent) + 1].at = now /\ Place(sent', Len(sent) + 1) = LastPlace + 1
        BY <1>0, <3>2 DEF Place, LastPlace
      <4>3. /\ LastPlace' - windowCount' = LastPlace - windowCount
            /\ windowCount' <= MaxPerWindow
        BY <1>0, <2>2, <3>1, <3>2 DEF LastPlace
      <4> QED
        BY <4>1, <4>2, <4>3
    <3>4. ASSUME NEW i \in 1..Len(sent')
          PROVE  /\ sent'[i].at <= now
                 /\ Place(sent', i) <= LastPlace' - windowCount' => sent'[i].at <= windowStart
                 /\ Place(sent', i) <= LastPlace' - windowCount' - MaxPerWindow =>
                       sent'[i].at + Window <= windowStart
      <4>1. CASE i \in 1..Len(sent)
        BY <1>0, <3>3, <4>1 DEF RateTrue
      <4>2. CASE i = Len(sent) + 1
        BY <1>0, <3>3, <4>2
      <4> QED
        BY <1>0, <3>2, <4>1, <4>2
    <3>5. ASSUME NEW i \in 1..Len(sent'), NEW j \in 1..Len(sent'),
                 i < j, Place(sent', i) + 2 * MaxPerWindow <= Place(sent', j)
          PROVE  sent'[i].at + Window <= sent'[j].at
      <4>1. i \in 1..Len(sent)
        BY <1>0, <3>2, <3>5
      <4>2. CASE j \in 1..Len(sent)
        BY <1>0, <3>3, <3>5, <4>1, <4>2 DEF RateTrue
      <4>3. CASE j = Len(sent) + 1
        <5>1. Place(sent, i) <= LastPlace - windowCount - MaxPerWindow
          <6>1. Place(sent', i) = Place(sent, i) /\ Place(sent', j) = LastPlace + 1
            BY <3>3, <4>1, <4>3
          <6>2. Place(sent, i) + 2 * MaxPerWindow <= LastPlace + 1
            BY <3>5, <6>1
          <6> QED
            BY <1>0, <2>2, <4>1, <6>2
        <5>2. sent[i].at + Window <= windowStart /\ windowStart <= now
          BY <1>0, <4>1, <5>1 DEF RateTrue
        <5> QED
          <6>1. sent'[j].at = now /\ sent'[i].at = sent[i].at
            BY <3>3, <4>1, <4>3
          <6> QED
            BY <1>0, <4>1, <5>2, <6>1
      <4> QED
        BY <1>0, <3>2, <4>2, <4>3
    <3>6. pc' # "send" /\ windowStart <= now
      BY <2>2 DEF RateTrue
    <3> QED
      BY <1>0, <2>2, <3>1, <3>3, <3>4, <3>5, <3>6 DEF RateTrue
  <2> QED
    BY <2>3, <2>4
<1>6. ASSUME NEW p \in Callers, Forget(p) \/ \E a \in Accounts : Activate(p, a)
      PROVE  RateTrue'
  <2>1. UNCHANGED <<now, pc, sent, free, windowStart, windowCount>>
    BY <1>6 DEF Forget, Activate, handler, throttle
  <2> QED
    BY <1>0, <2>1, RateUntouched
<1>7. CASE Restart
  <2>1. /\ sent' = sent /\ free' = free + MaxPerWindow
        /\ windowCount' = 0 /\ windowStart' = now /\ now' = now /\ pc' = "idle"
    BY <1>7 DEF Restart, Finish
  <2>2. LastPlace' = LastPlace - MaxPerWindow /\ \A i : Place(sent', i) = Place(sent, i)
    BY <1>0, <2>1 DEF LastPlace, Place
  <2>3. ASSUME NEW i \in 1..Len(sent)
        PROVE  /\ sent[i].at <= now
               /\ Place(sent, i) <= LastPlace - 2 * MaxPerWindow => sent[i].at + Window <= now
    <3>1. Place(sent, i) <= LastPlace - 2 * MaxPerWindow =>
             Place(sent, i) <= LastPlace - windowCount - MaxPerWindow
      BY <1>0 DEF RateTrue
    <3> QED
      BY <1>0, <3>1 DEF RateTrue
  <2>4. ASSUME NEW i \in 1..Len(sent')
        PROVE  /\ sent'[i].at <= now'
               /\ Place(sent', i) <= LastPlace' - windowCount' => sent'[i].at <= windowStart'
               /\ Place(sent', i) <= LastPlace' - windowCount' - MaxPerWindow =>
                     sent'[i].at + Window <= windowStart'
    <3>1. LastPlace' - windowCount' - MaxPerWindow = LastPlace - 2 * MaxPerWindow
      BY <1>0, <2>1, <2>2
    <3>2. sent' = sent /\ windowStart' = now /\ now' = now
      BY <2>1
    <3> QED
      BY <2>3, <3>1, <3>2
  <2>5. /\ windowCount' <= MaxPerWindow /\ windowStart' <= now' /\ pc' # "send"
    BY <1>0, <2>1
  <2> QED
    BY <2>1, <2>4, <2>5 DEF RateTrue
<1>8. CASE Tick \/ UNCHANGED vars
  <2>1. now <= now' /\ UNCHANGED <<pc, sent, free, windowStart, windowCount>>
    BY <1>0, <1>8 DEF Tick, vars, handler, throttle, history
  <2> QED
    BY <1>0, <2>1, RateUntouched
<1> QED
  BY <1>1, <1>2, <1>3, <1>4, <1>5, <1>6, <1>7, <1>8 DEF Next, Handle

\* However slow the channels are, of the notifications that go out within a
\* window's length no more than twice the limit have used a share of it, but
\* for one more limit at each restart (throttle.go:57, 101, 124).
THEOREM RateIsKept == Spec => []RateIsBounded
<1>1. Init => RateTrue
  BY Bounds DEF Init, RateTrue
<1>2. ASSUME ResponseInv, RateTrue PROVE RateIsBounded
  <2> SUFFICES ASSUME MaxPerWindow > 0, NEW i \in 1..Len(sent), NEW j \in 1..Len(sent),
                      i < j, j - i >= 2 * MaxPerWindow + (sent[j].free - sent[i].free)
               PROVE  sent[i].at + Window <= sent[j].at
    BY DEF RateIsBounded
  <2>1. MaxPerWindow \in Nat /\ sent[i].free \in Nat /\ sent[j].free \in Nat
    BY <1>2, RateTypes
  <2>2. Place(sent, i) + 2 * MaxPerWindow <= Place(sent, j)
    BY <2>1 DEF Place
  <2> QED
    BY <1>2, <2>2 DEF RateTrue
<1> QED
  BY <1>1, <1>2, InitResponse, ResponseStep, RateStep, PTL DEF Spec
=============================================================================
