# sendguard verification

TLA+ models of the sendguard agent, the TLC runs that check them on small
instances and the TLAPS proofs of what holds for every instance.  sendguard
follows the mail logs of a Zimbra server, detects abuse of accounts and attacks
on them, and answers by banning addresses, suspending accounts, notifying the
administrators and reporting to a central Controller.

References of the form `enforcer.go:326` are to the files under
`src/internal/<package>/`.

## 1. The system

    mail.log ----> watcher -> parser \                      / firewall, store
                                      eventCh -> engine -> alertCh -> enforcer -- Zimbra
    mailbox.log -> watcher -> parser /      ^                  | \ throttle -> channels
                                            |                  forwarder -> Controller
                              whitelist <---+--- REST API ---+

| Component | State | Operations | What is hard | What makes it correct |
|---|---|---|---|---|
| Watchers (`watcher.go`), one goroutine per log | position in the file, `resumeFromStart` | `Run`, `tail`, `drainLines`, `waitForNewFile` | rotation while reopening, half-written lines, a full `eventCh` | every line once, in order, or dropped knowingly |
| Parsers (`parser.go`) | queue ID → account maps | one per line format | queue IDs used again, entries nothing consumes, lazy purge | a message is attributed to who sent it |
| Engine (`engine.go`) | the whitelist | `Run`, `dispatch`, `Silence`, `AddIP`... | two logs out of step, changes of the whitelist in between | exempt addresses are not blamed |
| Eleven modules (`detection/*`) | a window per address, account or domain | `Handle` | late events, lazy purges, windows cleared by alerts | no evidence ignored, none used twice or too old |
| Enforcer: bans (`enforcer.go`, `firewall*.go`) | `blockedIPs`, `blockedNets`, the `bans` table, the silenced list, two firewall configurations | `Block`, extension, `Unblock`, `unbanExpired`, `reconcileFirewall`, `LoadExistingBans` | five places and no common lock, failing commands, reloads, crashes | the five agree once the operation is over |
| Enforcer: accounts (`enforcer.go`) | `suspendedAccts` (memory only), Zimbra's account status | `suspendAccount`, `Unsuspend` | the status and the registry change in two steps | the registry tells the truth |
| Throttle and channels (`notify/`) | cooldowns, window counter | `Notify` | the lock is released to send, one channel of several fails | no repetition, nothing withheld unheard, bounded rate |
| Forwarder (`forwarder.go`, `store.go`) | `pending_events` | `SaveAlert`, `syncBatch`, `prune` | lost answers, failed writes, crashes | at least once, in order, bounded table |
| Whitelist (`engine.go`, `api.go`, `store.go`) | entries, silences and rows | `AddIP`, `RemoveIP`, `Silence`, `Unsilence`, restore | memory and row change in two steps, one address has several names, a ban and an entry share an address | the engine ignores whom the operator exempted or the enforcer banned, and nobody else |
| Look-ups (`geoip`, `abuseipdb`) | a cache each | `Country`, `Org`, `Check` | the service is asked outside the lock, the limit only purges | no answer too old, no cache full of expired entries |

Goroutines share state through `eventCh` and `alertCh` (bounded, the sender
never waits), `Enforcer.mu`, the whitelist's lock, the throttle's lock and the
SQLite file.  Firewall commands, `zmprov`, HTTP requests and writes to the store
happen outside every lock: that is where operations interleave, and the models
have one action per section under a lock and one per call made outside.

`PROJECT.json` lists every component with what is modelled of it, and the
hazards, each at its line.

## 2. Modules

| Module | Models |
|---|---|
| `Enforcer` | the ban life cycle on the three firewall backends |
| `EnforcerProperties` | its properties |
| `BanLifecycle` | what the operator may rely on about one target (abstract) |
| `EnforcerRefinement` | the mapping of `Enforcer` onto `BanLifecycle`, per target: `Ban`, `Open`, `Extending` and `Kept` say what the abstract variables are in a state of the code, `FollowsLifecycle` what a step may do to them |
| `EnforcerProofs` | theorems about `Enforcer` |
| `Events` | events, alerts, `trimOld`, shared by the detection modules |
| `SlidingWindow` | auth_failed, rcpt_flood, bounce_rate, number_messages, queue_monitor, dist_brute_force, password_spray, sasl_connections |
| `DomainDiscovery`, `AccountTakeover`, `ImpossibleTraveler` | the three modules with a state of their own |
| `Engine` | dispatch, whitelist and channels, composed with all of them |
| `EngineProperties`, `EngineProofs` | its properties and theorems |
| `Response` | `handle`, `suspendAccount`, `Unsuspend`, `Throttle`, `Multi` |
| `ResponseProperties`, `ResponseProofs` | its properties and theorems |
| `Watcher`, `WatcherProperties`, `WatcherProofs` | a watcher, the log it follows and inotify; its properties and theorems |
| `QueueTracking`, `QueueTrackingProperties`, `QueueTrackingProofs` | the parser's maps of queue ids; properties and theorems |
| `Whitelist`, `WhitelistProperties`, `WhitelistProofs` | the whitelist, its rows and the API calls that change them; properties and theorems |
| `Lookups`, `LookupsProperties`, `LookupsProofs` | the caches of geoip and AbuseIPDB; properties and theorems |
| `Forwarder` | store-and-forward |
| `ForwarderProperties`, `ForwarderProofs` | its properties and theorems |
| `MCEnforcer`, `MCEngine`, `MCResponse`, `MCForwarder`, `MCQueueTracking`, `MCWhitelist`, `MCLookups` | values of the constants for TLC |

Variables and actions keep the names of the code where they can.  A definition
marked *mutant* is a plausible bug, used by nothing but the mutation check that
shows a property can fail.

### Enforcer

A target's ban is spread over `blockedIPs`/`blockedNets` (the map and its CIDR
index), `bans` (rows), `silenced` (the engine drops its events), `runtime` and
`permanent` (the firewall).  A goroutine inside an operation is at step `pc[p]`
with its target, duration, new and previous expiry (`ip`, `ttl`, `until`,
`prev`); the maintenance goroutine (`mpc`, `work`, `cur`, `left`) runs the
expiry pass and the reconciliation pass of `runUnbanLoop` one at a time.
`StartBlock`, `SaveNewBan`, `AddNewRule`, `SilenceNewBan`, `UndoMap`,
`UndoStore` are the sections of `blockIPWithTTL`; `StartExtension` ... of
`extendBan`; `StartUnblock` ... of `Unblock`; `CollectExpired`, `UnbanRule`,
`ForgetBan`, `UnsilenceExpired` of `unbanExpired`; `StartReconcile`,
`ListRules`, `RecheckTarget`, `ReapplyRule` of `reconcileFirewall`; `Load*` of
`LoadExistingBans`; `PruneExpiredBans` of the hourly prune in `main`.
`FwBlock` and `FwUnblock` say what the commands of each backend do to the two
configurations.  The environment is `Fault` (a failing command, write or
listing), `Flush` (a firewall reload), `Crash` and `Tick`.  The two removals of a
`FwUnblock` may fail one without the other, which nobody hears of (firewall.go:60).

`raced` records the targets that two goroutines worked on at once.  The code has
no lock per target, and section 6 lists what then goes wrong; the
invariants promise something about the other targets, and about each target in
spite of whatever happens to others.

### Detection

`Dispatch` is `Engine.dispatch` for one event: the whitelist check, the
clearing of a proxy's address, the eleven modules, and the alerts in the order
in which `main` registers the modules.  The modules share no state, so one step
computes them all; `Send` then sends each alert without waiting and drops it
with the channel full.  Events reach the engine from two logs: an event may be
older than the latest one by `Skew`.  The eight window modules are one
parameterised definition: `Handles`, `KeyOf`, `ItemOf`, `Suffice` and the
`...Alerts` operators are what tells them apart.  A key absent from a Go map is a
key with an empty window.  `since`, `attacks` and `unreported` are histories: what
arrived since the last alert, whatever the module kept of it.  The random
order in which Go walks a map decides a tie in `dominantIP`: `Suspects` is the
set of possible answers.  Patterns of account_takeover, the rewind of
impossible_traveler's clock and the lazy purges are modelled as they are.  Every module
looks up the country of an address for itself, a failure is not cached, and so any
look-up of an address of `Failing` may fail on its own: `lost` says which did for the event
at hand, in sasl_connections and in impossible_traveler's two questions.
`impossible_traveler` compares the country it stored with the last login.
`Contain`, `BanEnds` and `Exempt` stand for the enforcer and the API.

### Response

One alert at a time goes through `Take...`, `Lock`, `Record`, `BanIP`,
`WarnUser`, `Report` and `Send`; `Activate` and `Forget` are the two halves of
`Unsuspend`.  The ban of the address is an outcome here.  `zmprov` may fail, or be
killed by its timeout after it worked.  `Report` is the part of
`ThrottledNotifier.Notify` under the first lock, `Send` the channels and the
second lock.  Filters, cooldown, window, pruning by count and by size are as in
the code.  `raced` holds the accounts activated between the lock and the record,
`unsure` those of a killed command.  The histories of what the administrators got outlive a
restart, as the administrators do: `heard` keeps the last delivery of every alert by any
channel, with a mark if another channel failed then and one if the agent has restarted since;
`sent` keeps every notification with what the limit had let pass for free by then (`free`).
The memory of the throttle itself does not outlive it (throttle.go:56).

### Watcher

The log is a sequence of files that have had its name, each with the lines ended in
it; the mail server (`writer`) writes a line in two pieces and goes on in the
renamed file until it is told to `Reopen`.  `Rename` and `Create` are logrotate,
`Replace` a rename over the name, the one way to the `Create` branch of `tail`; the file
it brings is new and empty, as watcher.go:36 takes it.
`queue` is what inotify has ready; there is one instance per run of `tail`,
so events of the time between two runs are lost, as in the code.  `Open`, `Add`,
`Select` are the steps of `tail`, `ReadLine`, `EndOfFile` and `ReadFails` of
`drainLines`; the cursor is the number of lines before it and whether it
is inside one.  What the parser makes of a line and whether `eventCh` takes it
does not come back to the watcher and is not in the model.

`NothingIsSkipped` and `LinesAreRead` make exceptions of what the code does lose;
histories name it: `skipped` (a seek to the end at the start, after an error or a `Restart`,
a failed last read, a replaced file), `late` (ended after the rename) and files not in
`opened`.

### Forwarder

`stored`, `synced` and `createdAt` are the table, `pc` and `batch` the request in
progress.  A request that times out stays in `late` and may still arrive
(`AcceptedLate`).  `MarkSynced` is a transaction.  `Refused` are alerts the Controller never
accepts, nor any batch that has one.  Every restart may connect or
disconnect the Controller, which changes what `Prune` removes.  `received` counts
what the Controller accepted; `aged` what a standalone agent pruned unsent.

### QueueTracking

`ParseLogin`, `ParseRcpt`, `ParseQmgr` and `ParseDelivery` are the branches of
`ParseLine` that read or write the two maps; `Kept` and `Count` are `pruneQueues` and
its counter; `event` is what the line became.  The times in the maps are those of
the lines.  The mail server is the environment: `message` says
which message an id stands for at present.  `Login`, `Incoming` and `Reinject` give
an id to a message, `Activate` is a line of qmgr (again after a deferral), `Sent` and
`Fail` are deliveries, `Finish` frees the id, so that the next message may get it.
`Sent(q, n)` names in its reply the id that the message has at the next server:
the content filter's, or that of a remote server, which may well equal an id in use
here.  Lines come one at a time, as the server logs them; `Lose` is a line dropped
by the watcher.

Four histories say what the parser could know.  `known[q]` is what the lines of the
present message of `q` told it, whatever it has forgotten since.  `muddled` holds the ids for which the parser remembers
somebody else than the present message's sender, or may have been misled to:
an id given again while an entry of its last message is left, an
id named by a foreign server, one that a delivery of such an id names.  An id leaves
`muddled` when the parser has seen its login and the arrival that belongs to it.
`stolen` holds the ids whose sender a delivery of another message has replaced, with a
"queued as" of a remote server that equals the id, or of an id that was itself stolen.
`counted` is the number of `QueueAccepted` events of one message.  The properties make their exceptions
of these and of nothing else, and say which.

### Whitelist

`listed` is `nets` and `accounts`, `silenced` the map of that name, `rows` the table.
Values are what operators and the enforcer write; `Canon` is `parseEntry` and
`canonicalCIDR`, and `Covers` says whom a canonical value matches.  `AddEntry` and `RemoveEntry`
change memory under the lock of the whitelist; `Persist` writes the row later, and
`PersistNothing` is a failed write, which the caller does not hear of, or an agent without
a store.  `Block`, `Silence`, `BlockFails`, `Lift` and `Unsilence` are what the enforcer does to
the silences: it records or drops the ban first (`bans` holds targets as they were written),
and the silence changes in a later step of the operation (`job`), or never when the firewall
refuses the rule.  `Restart` is `main` building the whitelist from
agent.yaml and the rows, `RestartUnread` from agent.yaml alone.  `asked` is the last
call on each value; `unstored` the values whose last row is not written, was written in
another order than memory or failed; `lapsed` those a restart then brought back or
dropped, the entries of agent.yaml the operator had removed among them; `outlived` those whose
silence stayed when their ban had gone, after a failed block over an expired ban or a block
that a lift overtook.

### Lookups

A client at `pc[c]` is in `Country` or `Check` (`purpose` "check") or in `Org` ("org").
`Ask` is the part under the first lock, `Answer` the moment the
service makes up its mind, `Store` the second lock with the purge, `FetchFails` any failure,
`ReadOrg` the third lock of `Org`.  `kind` chooses between the two packages, which
differ in the comparison with the expiry, in private addresses and in what a lifetime of zero
means.  `Change` is an address that changes hands.  `heldAt` is when the service
last held each opinion.

## 3. Runs

| Run | Instance | States | Shows |
|---|---|---|---|
| `ban_recovery` | one range, handler, one API caller, maintenance; rich rules with a store; 3 requests, 2 faults of any kind but failing writes | 880 k | index, silence and rows follow the map; replies are true; the abstract life cycle is implemented |
| `ban_explicit` | four kinds of target; ipset without a store; 3 requests, one crash, no failing command | 308 k | a live ban keeps its rule; of targets nothing overlapped on, no rule and no silence outlives its ban |
| `ban_progress` | one range, with fairness; 2 requests, one fault | 51 k | liveness: what is lost comes back, what expires is watched again |
| `track` | 3 messages, two ids, two accounts, purge at every second line, one lost line, a restart at any moment | 1.2 M | whom a message is attributed to, and how often it counts |
| `whitelist` | 2 callers, 2 requests, 2 operations of the enforcer at once, 2 bans, one fault; five values | 2.7 M | who is ignored |
| `lookup` | 2 clients, 3 look-ups, 3 addresses, limit 1, one change | 2.6 M | staleness and size of the caches |
| `detect_access` | 4 failures, logins and queued messages; four addresses, two accounts, lag 1, look-ups of one address that fail at will | 269 k | the access modules alert exactly when they should |
| `detect_mail` | 4 events on mail, failures or logins, also of a proxy and of a private address; full channel, bans, operator | 345 k | the mail modules sit on no evidence; whom no alert may name |
| `respond` | 3 alerts out of five, one `Unsuspend`, one fault of any kind, a restart among them | 1.8 M | registry, warnings, throttle |
| `forward` | 4 alerts, the last of them refused, batches of 2, 2 faults, restarts | 68 k | nothing lost, order, repeats, liveness |
| `follow` | 3 lines, 3 files, one failure or restart | 589 k | every line once, whole, in order; none slept over |
| `forgotten_break_in` | failures, logins and queued messages | | a counterexample: what `account_takeover` forgets (section 6) |

Why the bounds are enough.  The actions of a target in `Enforcer` touch no other
target but through the maintenance pass, which treats its targets one by one,
so one range already has every interleaving of operations on a target;
`ban_explicit` adds the kinds of target.  Three requests are a ban, its extension
and its lift, with a clock of three ticks in which the short ban ends before the
long one.  Two faults are a failure and the failure of its repair, or a crash
and a reload.  Thresholds of two or three fill a window, fire it and fill it
again within four events; a lag of one tick with windows of one tick makes a late event fall
on either side of the edge.  `PruneEvery` is 2, so purges fall between the events
of a window.  In `respond` two accounts under one address share what the cooldown
must tell apart, a limit of one per window of a tick is exceeded by
three alerts, and a cooldown of three ticks outlasts a restart.  In `follow` three lines are one in each file, or two of which one
is cut by what happens, and three files let a second rotation fall into the reaction
to the first.  In `forward` a backlog of four needs two batches, and the refused alert is alone in its batch, behind
another or behind the end of the queue.
In `track` two ids are a message and what it becomes after the filter, or an id and the
one that a foreign server names; with three messages one of them is given again.  Logins
last one tick, senders two, and the purge comes at every second line, so that an entry
is dropped, kept past its age and used again; ids and accounts are symmetric.  In `whitelist` one address has two names and lies in a range, which is all
the ways in which a removal or a lift may take too much or too little; two requests are an
entry and its removal, in this order or at once, and two workers a lift that overtakes a block.  In `lookup` two of the three look-ups overlap and the third finds what they left.

No run checks for deadlock: the clock, the requests, the events and the faults
are bounded, so every behaviour of a bounded instance stops.  That the loops do
not stop by themselves is what the liveness properties say.

### Fairness

- Every external command runs under `actionTimeout` (enforcer.go:73) and every
  HTTP request under a timeout, so an operation that has begun goes on: weak fairness of
  the steps of a goroutine, of a pass and of a request in progress.
- The tickers of `runUnbanLoop` keep one pending tick each and `select` chooses
  at random, so both passes recur although each keeps the other waiting: strong
  fairness of `CollectExpired` and `StartReconcile`.
- `Forwarder.Run` has two tickers in one `select`: a tick of the sync finds the
  goroutine idle again and again, and so does one of the pruning (strong fairness
  of `Prune`); a Controller that is asked again and again accepts again and
  again (strong fairness of `Accepted`: `BacklogDrains` claims nothing of one that
  refuses for ever, and of one that refuses an alert in particular only what the queue
  then lets through); its client has a timeout (weak fairness of `Rejected`).
- The goroutine of a watcher goes on while it has something to do: a step of
  `tail` waits for events only (weak fairness of `Follow`).  Nothing is assumed
  of the server, of logrotate or of failures.
- systemd restarts the agent, and time passes.
- No fairness of requests, alerts, faults or of an operator.

## 4. Theorems

Proved by TLAPS for every value of the constants that satisfies the named
assumptions (TLC evaluates those on every run).  Every invariant and every action
property that a passing run checks has its theorem, and so has the refinement of
`BanLifecycle`.  Where the table names a hypothesis, the theorem has it as an antecedent: the
paragraphs below say which lines of the code make it necessary.  What a property excepts (`raced`,
`unsure`, `lapsed`...) the theorem excepts too; section 6 has the counterexamples without the
exceptions.

| Theorem | Property | From |
|---|---|---|
| `EnforcerProofs!TypeCorrect` | type correctness | `EnforcerAssumption` |
| `EnforcerProofs!IndexCorrect` | `IndexAgrees` | `Sound`: types, `Exclusion` and `Indexed` |
| `EnforcerProofs!BannedStaysSilenced` | `BannedIsSilenced` | `Sound /\ BansSilenced` |
| `EnforcerProofs!RestartsAreFaithful` | `StoreAgrees` | `StoreTrue`; a store, and no write of it fails |
| `EnforcerProofs!RepliesTellTheTruth` | `RepliesAreTrue` | `Sound /\ StoreTrue`; the same |
| `EnforcerProofs!ImplementsLifecycle` | `BansFollowLifecycle`, the refinement | `Sound /\ StoreTrue`; the same |
| `EnforcerProofs!UnbannedIsWatched` | `SilencedIsBanned` | `SilenceTrue`; no firewall command fails; targets not in `raced` |
| `EnforcerProofs!BansAreEnforced` | `RuleWhileBanned` | `RuleTrue`; `RulesAreKept` |
| `EnforcerProofs!RulesHaveOwners` | `NoOrphanRule` | `OrphanFree`; `CommandsSucceed`; targets not in `raced` |
| `EnforcerProofs!ExemptNeverTouched` | `ExemptUntouched` (proved only) | `Exempted`: no block of an exempt target is ever under way and no pass works on one |
| `EngineProofs!NothingIsEverMissed` | `NothingIsMissed` | `SlidingInv`: every window is the history of its key since the last alert, but for some first records that are old, and is short of an alert |
| `EngineProofs!EngineTypeCorrect` | type correctness | the assumptions of the modules |
| `EngineProofs!TheExemptAreNeverBlamed` | `ExemptNeverBlamed` | `EngineInv`: what the modules remember of addresses is clean |
| `EngineProofs!SuspensionsReachForeigners` | `SuspensionNamesForeigner` | `EngineInv`; any look-up may fail |
| `EngineProofs!JourneysAreJudgedOnce` | `TravelIsJudgedOnce` | `TravelInv`; `StaleAfter >= TravelWindow + Skew` |
| `EngineProofs!AlertsRestOnEvidence` | `AlertsAreEarned` | `SlidingInv /\ EvidenceInv` |
| `EngineProofs!TakeoversAreJust` | `TakeoversAreExact` | `TakeoverInv`: the failures kept are in order, and are all those inside the window |
| `ResponseProofs!ResponseTypeCorrect` | type correctness | `ResponseAssumption` |
| `ResponseProofs!RegistryTellsTruth` | `SuspendedIsLocked` | `RegistryTrue` |
| `ResponseProofs!UsersAreWarnedOnce` | `UserWarnedOnce` | `WarningsEarned` |
| `ResponseProofs!CooldownIsKept` | `CooldownHolds` | `CooldownTrue` |
| `ResponseProofs!NothingIsWithheldUnheard` | `WithheldWasHeard` | `CooldownTrue` |
| `ResponseProofs!RateIsKept` | `RateIsBounded` | `RateTrue` |
| `WatcherProofs!WatcherTypeCorrect` | type correctness | `WatcherInv` |
| `WatcherProofs!LinesStayInOrder` | `InOrderOnce` | `WatcherInv`, conjunct `InOrder` |
| `WatcherProofs!LinesStayWhole` | `LinesAreWhole` | `WatcherInv`, conjunct `MidLine` |
| `WatcherProofs!WakeUpsAreKept` | `NoLostWakeUp` | `WatcherInv`, conjunct `Announced` |
| `WatcherProofs!NothingStaysBehind` | `NothingIsSkipped` | `WatcherInv`, conjunct `Accounted` |
| `QueueTrackingProofs!NobodyIsBlamedInVain` | `BlameIsDeserved` | `TrackingInv`, conjunct `Unmuddled`: what the maps hold of an id outside `muddled` names its sender |
| `QueueTrackingProofs!SendersStayKnown` | `SendersAreKnown` | `LoginKept` and `QueuedKept`: what the parser was told of a young message is in the maps, unless its id is in `stolen` |
| `QueueTrackingProofs!MessagesCountOnce` | `CountedOnce` | `Consumed`, `Uncounted`: a counted message has no login left, and one with a login has not been counted, unless muddled |
| `WhitelistProofs!ExemptStaysIgnored` | `ExemptIsIgnored` | `WhitelistInv`: `MemoryAgrees`, `RowsAgree`, `PendingAgrees`; excepts `lapsed` |
| `WhitelistProofs!NobodyIsIgnoredInVain` | `IgnoredIsJustified` | `WhitelistInv`: `SilenceHasBan`, `ConfiguredIsAsked`; excepts `lapsed` and `outlived` |
| `LookupsProofs!AnswersStayRecent` | `AnswersAreRecent` | `RecencyInv`: an answer under way was held since the request left, an entry expires `TTL + Timeout` after its value was held |
| `LookupsProofs!CacheStaysBounded` | `CacheIsBounded` | `BoundInv`: `RecencyInv` and a finite cache |
| `ForwarderProofs!ForwarderTypeCorrect` | type correctness | `ForwarderAssumption` |
| `ForwarderProofs!NothingLost` | `NothingIsLost` | `SyncInv`: a batch stays unsynced while in progress, a marked row was delivered |
| `ForwarderProofs!DeliveryIsInOrder` | `OldestFirst` | `OrderInv`: no request, in progress or late, carries an alert ahead of an older one that still waits |
| `ForwarderProofs!RepeatsAreBounded` | `RepeatsNeedFaults` | `RepeatInv`: what was received plus the late requests that hold the id is at most the faults, plus one once the row is or is about to be marked |

`BannedIsSilenced` is not inductive: between the entry in the map and
`Silence` the target is banned and not silenced, and a block that fails deletes
an entry that another goroutine may have extended.  Three invariants carry it.
`Exclusion`: two goroutines are at work on one target only if it is in `raced`.
`Indexed`: an entry of a range is in the CIDR index unless the range was raced over.
`BansSilenced`: a target with an entry is silenced unless it was raced over or some
goroutine is `Entering` it, at a step of a first block before `Silence` or at one
of its undoing; an extension, which starts from an entry, therefore finds and leaves the
target silenced.  `NothingIsMissed` speaks of the history alone and needs
`Follows`: trimming, the purge and an alert each leave the window a suffix of the
history (`FollowsRecord`, `FollowsPurge`), what they drop is older than `ScanTime` by
the latest clock and stays so (`FollowsLater`), and a suffix that holds every
recent record has at least their evidence (`FollowsEnough`).  The forwarder's invariants stand on one another in the order
of the table.

`CountedOnce` and the others of `QueueTracking` hold together or not at all: whether a
login is consumed depends on whom it belongs to, and a filtered message inherits
its parent's count (`Kinship`).  The attempt to prove it found a case beyond TLC's three messages: a
message counted twice under a muddled id hands its count on to the id of
the filter, which is muddled therefore.  In `Whitelist` memory follows `asked` at once
(`MemoryAgrees`) and a row does when it is not `unstored` (`RowsAgree`); that the last of
several calls on one entry to write its row leaves the right one needs that the calls in
progress on an entry that is stored ask for what was asked last (`PendingAgrees`).  A silence has
a ban, or a lift on its way to it, or is in `outlived` (`SilenceHasBan`).  A cache entry is as
old as its expiry tells, not as its place in the order of answers: that a slow look-up overwrites a newer
answer does no harm because no request outlives the timeout (`OnTime`).

**Enforcer, the other properties.**  They say something about a target at rest, so their
invariants say what an operation owes while it is under way.  `StoreTrue` gives the row a
meaning at each step: the row of a target nobody works on is the entry in the map
(`RowAgrees`); a block, an extension and an `Unblock` under way have at each step the
row and the entry that step promises (`Progress`); what a
pass of `unbanExpired` has left to do has no entry.  A failed write is logged and
the operation goes on (enforcer.go:395, 1096), hence the hypothesis.  The refinement
follows: `Ban` is the row while there is no entry, the entry otherwise, and every step under
a lock or outside it is a step of `BanLifecycle` or a stutter, up to the first overlap on
the target; the crash keeps what `Kept` says.  `SilenceTrue` says that a silenced
target has an entry or somebody about to unsilence it.  It is false with a failing
firewall: a block over an expired, unpurged entry that fails drops the entry and leaves the
silence (enforcer.go:419), and for a target on which an `Unblock` overtook a block; the theorem
excludes failing commands, and targets in `raced`.
`RulesAreKept` names the conditions of `RuleWhileBanned`: a backend whose rules have no timeout
of their own, that nobody reloads, and, where a restart restores bans from the store, rules
that can be listed and applied: what a reload drops comes back with the next
reconciliation only, which is the liveness property `LostRuleIsRestored`.
`CommandsSucceed` asks of `NoOrphanRule` that no command fails, since a rule whose removal fails is logged and not
tried again (enforcer.go:209, 1105), and that bans after a restart come from the rules and not
from a store, since rules of bans that ended meanwhile are then not looked for (enforcer.go:829).

**Engine.**  `EngineInv` is the types and `Clean`: no window of sasl_connections, failure of
an account, last login or alert holds an exempt address, because `dispatch` drops or clears
it before a module sees it (engine.go:276, 318).  Which alerts are of which module is
`AlertsByModule`, what each module can return `WindowAlertsAre`, `SaslAlertsAre`, `TakeoverAlertsAre`,
`TravelAlertsAre`.  `TargetIsForeign` carries `SuspensionNamesForeigner`: `UniqueIPs` lists
every address of the window, so that the search among them fails only when the window has no foreigner,
and it stops at another only when the look-up of that one has failed.  `attempts`, the history of
`TakeoversAreExact`, is cleared when the module clears the failures of an account; what that forgets
is the run `forgotten_break_in`.

`EvidenceInv` is what the lag means for a history: no record is older than an earlier one by more than
`Skew` (`NearlyOrdered`), and a domain in a window of domain_discovery was attacked no
earlier than the window's start, less the lag (`Attested`).  A window that fires is a suffix of the
history whose first record is inside (`TrimOldIsSuffix`), so every record is at most `Skew` too
old (`FiringIsEarned`), and it has at most the evidence of the history from there on
(`SuffixIsEvidence`).

`TravelInv` compares an account with its history: the same country and moment, or the moment
rewound by the window after an alert, or nothing at all, in which case the last login is older than
`StaleAfter` or raised an alert.  A login forgotten too early would hide a journey that is too fast, so the
theorem needs `StaleAfter >= TravelWindow + Skew`; the code takes 24 h for a window
of minutes (impossibletraveler.go:104).

`TakeoverInv` does not follow positions, for a late failure is sorted in and a purge cuts at
either end.  It counts: for each address and each cutoff, the failures kept since the cutoff are at most
those made, and exactly those when the cutoff is inside the window (`Remembers`).
`TallyOfTrim` and `TallyOfRecord` say how trimming and a sorted insertion count,
`TrimIsExact` and `InsertKeepsOrder` that the order `trimOld` takes for granted is
there, and `EnoughIsSent` that an address with enough failures makes the dominant one
have enough.

**Response.**  `RegistryTrue` adds to `SuspendedIsLocked` that between `zmprov` and the registry the
account is locked, unless an `Unsuspend` came in between.  `WarningsEarned` counts:
an account has a warning to its `Credit` for each time the registry dropped it and for being in it, and a
suspension in progress has one of them to spend.  `CooldownTrue` says that a running cooldown and the last
notification of its origin name each other, unless a channel failed then or the agent has restarted since
(`Remembered`): one direction gives `CooldownHolds`, the other
`WithheldWasHeard`.  `RateTrue` counts the notifications less what the limit let pass for free up to each
(`Place`) and splits them into those the open window counts, at most as many
of the window before, and older ones, which are over by a whole length when a window opens.  A window may
count one that a slow channel delivers after its end, so neighbouring windows share no
better bound, and twice the limit, once more per restart and one per notification that a channel
missed, is what can be proved.

**Watcher.**  The conjuncts of `WatcherInv` are not inductive one by one.  `Placed` says where the
open file is among the files and what the queue has told of it, `InOrder` that what was parsed comes from opened files and from before what
the cursor has ahead, `MidLine` that the line around a cursor is cut and has more to come, `Announced` that what a waiting
watcher has not read was announced to it or ended in a renamed file after its end was announced, and `Accounted` that
every line before the cursor was parsed or is in one of the named exceptions, and so is every line of a
file opened before.

**Only model-checked.**  Liveness, since TLAPS does not do fairness: `NobodyFreeAndUnwatched`,
`LostRuleIsRestored`, `EveryCallReturns`, `ExpiredIsPurged`, `BacklogDrains`,
`TableIsPruned` and `LinesAreRead`.  Every module of
the code that has variables states a type invariant, and all are proved (`BanLifecycle`, the abstract specification, has its
state mapped from the enforcer's).

## 5. What is left out

The regular expressions and the formats of the logs, of the notifications and of the
firewall listings (what a line of mailbox.log yields depends on that line alone); the creation of the ipset; the HTTP layer of the API and its read-only endpoints;
the local database of geoip, which has no state; the text of notifications and effects; the audit log, reports
and statistics, which nothing reads back.  Targets of `Enforcer` are canonical; `Whitelist` has aliases,
but not the two keys of the map and the one rule of the firewall that go with them.  The values
in agent.yaml and the rows of an earlier version are in canonical form.  `Enforcer` takes the
country of an address as resolved, and `Engine` has no cache of countries: an address of
`Failing` may fail at any look-up, after one that worked too.  A tick of the clock stands for much longer than the
second by which `remainingSecs` rounds up.  Timestamps in the logs are not
later than the latest one read so far plus what the bounds allow, and a log
lags by at most `Skew`; a clock set back is not modelled.  A log truncated in
place (`copytruncate`), rotated files moved to another directory and an overflow of
inotify's queue are left out of `Watcher`.

## 6. Counterexamples

The run `forgotten_break_in` (`BreakInIsReported`): a message the account sends clears the failures against
it (accounttakeover.go:181) and the break-in that follows raises nothing.

Properties that say what a comment says and that the code does not keep.  They stand at the end of the
property modules, no run checks them, and TLC refutes each in a few seconds when it takes the place of the
`INVARIANTS` and `PROPERTIES` of a configuration, with the constants given here:

| Property | Configuration | Constants | What happens |
|---|---|---|---|
| `SilenceEndsWithBan` | `ban_recovery` | `Faults = {}` | an `Unblock` that overtakes a block leaves the target silenced without a ban (enforcer.go:439) |
| `FailedBlockIsWatched` | `ban_recovery` | `Callers = {}`, `Faults = {"firewall"}` | a block over an expired, unpurged entry fails, the entry goes and the silence stays until a restart (enforcer.go:417) |
| `RecordIsKept` | `ban_recovery` | `Callers = {}`, `Faults = {}`, `MaxTime = 4` | `unbanExpired` deletes the row after the unlock; a block that enters in between has already saved its own and loses it (enforcer.go:218), although it persists first so as not to lose the ban in a restart |
| `LiftedIsNotReapplied` | `ban_recovery` | `Faults = {"flush"}` | an `Unblock` between the re-check of the reconciliation and its `Block` is undone in the firewall (enforcer.go:915) |
| `RuleOfTimedBanEnds` | `ban_recovery` | `Callers = {}`, `BanSeconds = 2`, `MaxTime = 4`, `Faults = {"firewall"}` | the rollback of an extension re-applies a ban that expired meanwhile with zero seconds or less, which means for ever (enforcer.go:523, firewall.go:87) |
| `ExtensionLastsInFirewall` | `ban_recovery` | `Faults = {"firewall"}` | a firewall that answers ALREADY_ENABLED keeps the old timeout of a rule whose removal failed unseen (firewall.go:47, 60) |
| `NoRuleWithoutBan` | `ban_recovery` | `Callers = {}`, `Backend = "ufw"`, `Faults = {"crash"}` | a ban that expires while the agent is down leaves its ufw rule (enforcer.go:813, 829) |
| `ForeignerIsNamed` | `detect_access` | | the look-up of a home address fails in sasl_connections, which names it for a foreign one (saslconnections.go:180); the enforcer's own look-up works and skips the suspension |
| `CooldownAsDocumented` | `respond` | `Faults = {"channel"}` | while one channel fails, the others repeat every alert, for `Multi` returns the error and no cooldown is used (throttle.go:118) |
| `FailuresAreNotified` | `respond` | `Faults = {"zmprov"}` | a failed suspension within the cooldown of an earlier notice on the account goes unheard although failures are to be notified always (enforcer.go:290, throttle.go:69) |
| `IncomingIsNobodys` | `track` | `MaxLost = 0` | `queueSenders` is emptied by the purge alone, and incoming mail under an id used again is held against the account that had it (parser.go:412) |
| `RelayKeepsSenders` | `track` | `MaxLost = 0` | a remote server's "queued as" that equals a local id overwrites its sender (parser.go:427) |
| `SilencedWhileBanned` | `whitelist` | `Workers = {w1}`, `Faults = {}` | of two names of one address, lifting one ends the silence of the ban under the other (engine.go:163) |
| `LastCallIsStored` | `whitelist` | `Workers = {w1}`, `Faults = {}` | an add and a remove of one entry at once leave the row of the one and the memory of the other (api.go:461) |

Met while modelling, without a property of their own; each is a behaviour of the
models or follows from the lines quoted:

- a batch with one event the Controller refuses blocks it and all that follow for as long as it is
  refused (forwarder.go:235; the exception `Stuck` of `BacklogDrains`);
- an `Unsuspend` between `zmprov` and the registry (enforcer.go:602) leaves an active account
  remembered as suspended, and later alerts on it lock nothing (`SuspendedIsLocked` without `raced`);
- a slow reconciliation gives a rule the TTL of its snapshot (enforcer.go:882);
- a failed extension puts back a ban that was lifted meanwhile (enforcer.go:500);
- an address exempted while its alert waits in `alertCh` is banned all the same
  (the whitelist is consulted at engine.go:321 only);
- a message blames the address with the most failures and clears those of the others
  (accounttakeover.go:168, 186), which then need as many again;
- when `fsw.Add` fails after a rotation, `resumeFromStart` has been cleared
  (watcher.go:95) and the next attempt seeks to the end: the first lines of the new
  file are lost; so are lines ended in the renamed file after the drain at
  watcher.go:134, and a rotation between `os.Open` and `fsw.Add` goes unnoticed, so
  that the new file is not read until another one replaces it;
- a file with contents that is renamed over the log is read from its start, and lines it
  has in common with the old one are handed on twice (watcher.go:91);
- the limit per minute is on tumbling windows, so a minute may see twice the
  limit, and a restart begins a new window and forgets the cooldowns (`RateIsBounded`, `CooldownHolds`);
- after a restart a suspended account is suspended and its user warned again,
  and a killed `zmprov` that worked is reported as "la cuenta sigue activa";
- the login of a session that was dropped counts another or a re-injected message;
- deliveries of a re-injected id logged before the line that names it are attributed to
  nobody, and a message queued more than ten minutes after its login may be (parser.go:375);
- a whitelisted IPv6 address without a prefix gets "/32" (engine.go:132, api.go:534), which exempts
  the whole network of that length around it;
- an entry of agent.yaml removed by the operator is back after a restart, although ctl calls the
  removal persistent (`src/cmd/ctl/main.go:26`); a row that cannot be written is
  answered 200 (api.go:514);
- `Org` returns an expired organisation when the look-up fails (geoip.go:131), where
  its comment says "" (geoip.go:119); the limit of a cache is no cap while its entries are valid;
- a country that cannot be looked up is not an allowed one, so an allowed address may
  be banned while geoip does not answer (enforcer.go:1128);
- events and alerts are dropped when `eventCh` or `alertCh` is full (watcher.go:197,
  engine.go:348), the latter after the module has cleared its window: the attacker starts from
  zero; and a duplicate block is answered "already blocked" while the first may still fail
  (enforcer.go:372).

## 7. Plan

1. *Done*: the ban life cycle with its abstraction, runs and first theorems; the
   engine and its eleven modules with the theorem on `NothingIsMissed`; the response;
   the watcher; the forwarder, the parser's queue ids, the whitelist and the look-ups
   with their proofs.
2. *Done*: the theorems on the remaining safety properties of the enforcer, with the refinement of
   `BanLifecycle`; those of the engine, the response and the watcher.
3. *Done*: look-ups that fail in `Engine`, the silences of `Whitelist` as steps of their own,
   histories that outlive a restart, and a property for what a comment says and the code does not keep.
4. Truncation in `Watcher`; aliases of targets and failing look-ups in `Enforcer`.
5. Proofs: `RepliesAreTrue` and the refinement with failing writes, which needs a `BanLifecycle` whose
   rows may be lost; the steps that the liveness properties rest on (a pass shrinks `work`, a
   drain moves the cursor) as action properties.

## 8. Running

    tlc -workers 2 -config ban_recovery.cfg MCEnforcer
    tlapm EnforcerProofs.tla
