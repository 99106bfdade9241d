------------------------------ MODULE Whitelist ------------------------------
(***************************************************************************)
(* Whom the engine ignores: the whitelist of internal/detection, the calls *)
(* of the REST API that change it and their rows in the store, and the     *)
(* silences of the enforcer, which live in the same structure.             *)
(*                                                                         *)
(* A value is an address, a range or an account as somebody wrote it; the  *)
(* whitelist and the store keep it in its canonical form.  A call changes  *)
(* memory under the lock of the whitelist and the row after it, under      *)
(* none.  The enforcer likewise changes its bans under a lock of its own   *)
(* and the silences later, or not at all when a block fails.  A value that *)
(* looks like an address and is none is refused by handleWhitelistAdd and  *)
(* changes nothing; one that an earlier version stored can still be        *)
(* removed.                                                                *)
(***************************************************************************)
EXTENDS Integers, FiniteSets

CONSTANTS
    Values,         \* what operators and the enforcer name
    Malformed,      \* those that look like an address and are none
    Addresses,      \* those that are an address or a range
    Canon,          \* value -> its canonical form, also a value
    Subjects,       \* addresses and accounts that events are about
    Covers,         \* canonical value -> the subjects it matches
    BuiltinNets,    \* the subjects of the private networks
    Configured,     \* the canonical values in agent.yaml
    Legacy,         \* what an earlier version may have left in the store, in the
                    \* form in which this one writes it
    Callers,        \* requests that may be in progress at once
    Workers,        \* operations of the enforcer that may be in progress at once
    HasStore,
    Faults,         \* the kinds of faults that may happen
    MaxRequests,    \* bound: requests in a behaviour
    MaxFaults,      \* bound: faults in a behaviour
    MaxBans         \* bound: bans in a behaviour

ASSUME WhitelistAssumption ==
    /\ Canon \in [Values -> Values] /\ \A v \in Values : Canon[Canon[v]] = Canon[v]
    /\ \A v \in Malformed : Canon[v] = v
    /\ Malformed \cup Addresses \cup Configured \cup Legacy \subseteq Values
    /\ \A v \in Configured \cup Legacy : Canon[v] = v
    /\ Covers \in [Values -> SUBSET Subjects] /\ BuiltinNets \subseteq Subjects
    /\ HasStore \in BOOLEAN /\ Faults \subseteq {"save", "load"}
    /\ {MaxRequests, MaxFaults, MaxBans} \subseteq Nat

VARIABLES
    listed,     \* nets and accounts
    silenced,
    rows,       \* the table whitelist
    call,       \* caller -> the call whose row is still to be written
    bans,       \* the values in the enforcer's map
    job,        \* worker -> the operation whose silence is still to change
    requests, faults, banned,
    asked,      \* history: value -> the last call on it
    unstored,   \* history: values whose row may differ from the last call
    lapsed,     \* history: values whose last call a restart may have undone
    outlived    \* history: values whose silence may outlive their ban

counters == <<requests, faults, banned>>
histories == <<asked, unstored, lapsed, outlived>>
vars == <<listed, silenced, rows, call, bans, job, counters, histories>>

Idle == [verb |-> "none"]
Calls == [verb : {"add", "remove"}, value : Values]
Jobs == [verb : {"block", "lift"}, value : Addresses]
Forms(s) == {Canon[v] : v \in s}

\* isWhitelisted, for an address or an account
ContainsSubject(s) ==
    s \in BuiltinNets \/ \E e \in listed \cup silenced : s \in Covers[e]

Init ==
    /\ rows \in SUBSET Legacy /\ listed = Configured \cup Forms(rows)
    /\ silenced = {} /\ bans = {} /\ call = [c \in Callers |-> Idle]
    /\ job = [w \in Workers |-> Idle]
    /\ requests = 0 /\ faults = 0 /\ banned = 0
    /\ asked = [v \in Values |-> IF v \in listed THEN "add" ELSE "none"]
    /\ unstored = {} /\ lapsed = {} /\ outlived = {}

-----------------------------------------------------------------------------
(* The API *)

Begin(c, verb, v) ==
    /\ call[c] = Idle /\ requests < MaxRequests /\ requests' = requests + 1
    /\ call' = [call EXCEPT ![c] = [verb |-> verb, value |-> v]]
    /\ asked' = [asked EXCEPT ![Canon[v]] = verb]
    /\ unstored' = unstored \cup {Canon[v]} /\ lapsed' = lapsed \ {Canon[v]}
    /\ UNCHANGED <<silenced, rows, bans, job, faults, banned, outlived>>

AddEntry(c, v) ==
    /\ v \notin Malformed
    /\ Begin(c, "add", v) /\ listed' = listed \cup {Canon[v]}

RemoveEntry(c, v) == Begin(c, "remove", v) /\ listed' = listed \ {Canon[v]}

\* Other calls on the same entry whose rows are still to come.
Contradicted(c) ==
    \E d \in Callers \ {c} :
        /\ call[d] # Idle /\ Canon[call[d].value] = Canon[call[c].value]
        /\ call[d].verb # asked[Canon[call[c].value]]

Row(v) == Canon[v]
Persist(c) ==
    LET e == Row(call[c].value) IN
    /\ call[c] # Idle /\ HasStore
    /\ rows' = IF call[c].verb = "add" THEN rows \cup {e} ELSE rows \ {e}
    /\ call' = [call EXCEPT ![c] = Idle]
    /\ unstored' = IF asked[e] = call[c].verb /\ ~Contradicted(c)
                   THEN unstored \ {e} ELSE unstored \cup {e}
    /\ UNCHANGED <<listed, silenced, bans, job, counters, asked, lapsed, outlived>>

\* The write fails, which the operator does not hear of, or there is no store.
PersistNothing(c) ==
    /\ call[c] # Idle
    /\ \/ ~HasStore /\ UNCHANGED faults
       \/ "save" \in Faults /\ faults < MaxFaults /\ faults' = faults + 1
    /\ call' = [call EXCEPT ![c] = Idle] /\ unstored' = unstored \cup {Canon[call[c].value]}
    /\ UNCHANGED <<listed, silenced, rows, bans, job, requests, banned, asked, lapsed, outlived>>

-----------------------------------------------------------------------------
(* The enforcer, and the start of the agent *)

Aliases(v) == {u \in Values : Canon[u] = Canon[v]}
Finish(w) == job' = [job EXCEPT ![w] = Idle]

\* The ban is recorded first, over an entry that has expired if there is one.
Block(w, v) ==
    /\ job[w] = Idle /\ v \in Addresses /\ banned < MaxBans /\ banned' = banned + 1
    /\ job' = [job EXCEPT ![w] = [verb |-> "block", value |-> v]] /\ bans' = bans \cup {v}
    /\ UNCHANGED <<listed, silenced, rows, call, requests, faults, histories>>

\* The firewall has taken the rule.  The ban may have been lifted meanwhile.
Silence(w) ==
    LET v == job[w].value IN
    /\ job[w] # Idle /\ job[w].verb = "block" /\ Finish(w)
    /\ silenced' = silenced \cup {Canon[v]}
    /\ outlived' = IF v \in bans THEN outlived ELSE outlived \cup {v}
    /\ UNCHANGED <<listed, rows, call, bans, counters, asked, unstored, lapsed>>

\* The firewall refuses the rule: the entry goes, the silence of an expired
\* ban that the entry replaced stays.
BlockFails(w) ==
    LET v == job[w].value IN
    /\ job[w] # Idle /\ job[w].verb = "block" /\ Finish(w)
    /\ bans' = bans \ {v}
    /\ outlived' = IF Canon[v] \in silenced THEN outlived \cup {v} ELSE outlived
    /\ UNCHANGED <<listed, silenced, rows, call, counters, asked, unstored, lapsed>>

\* Unblock, of a ban or of none, or the purge of an expired entry.
Lift(w, v) ==
    /\ job[w] = Idle /\ v \in Addresses
    /\ job' = [job EXCEPT ![w] = [verb |-> "lift", value |-> v]] /\ bans' = bans \ {v}
    /\ UNCHANGED <<listed, silenced, rows, call, counters, histories>>

AsWritten(v) == silenced \ {v}  \* mutant: not in the form in which it was silenced
Unsilenced(v) == silenced \ {Canon[v]}
EndSilence(w) ==
    LET v == job[w].value IN
    /\ job[w] # Idle /\ job[w].verb = "lift" /\ Finish(w)
    /\ silenced' = Unsilenced(v) /\ outlived' = outlived \ Aliases(v)
    /\ UNCHANGED <<rows, call, bans, counters, asked, unstored, lapsed>>
UnsilenceAll(w) ==  \* mutant: the entry of the operator goes with the silence
    EndSilence(w) /\ listed' = listed \ {Canon[job[w].value]}
Unsilence(w) == EndSilence(w) /\ UNCHANGED listed

\* The agent stops at any moment and main builds the whitelist again from
\* agent.yaml and the rows, or from agent.yaml alone when they cannot be read.
\* The enforcer bans again whom it finds banned.
Start(restored) ==
    /\ listed' = Configured \cup restored
    /\ silenced' = {} /\ bans' = {} /\ outlived' = {}
    /\ call' = [c \in Callers |-> Idle] /\ job' = [w \in Workers |-> Idle]
    /\ lapsed' = lapsed \cup unstored \cup (Forms(rows) \ restored)
                     \cup {v \in Configured : asked[v] = "remove"}
    /\ UNCHANGED <<rows, requests, banned, asked, unstored>>

Restart == Start(Forms(rows)) /\ UNCHANGED faults
RestartUnread ==
    /\ "load" \in Faults /\ faults < MaxFaults /\ faults' = faults + 1
    /\ Start({})

Next ==
    \/ \E c \in Callers, v \in Values : AddEntry(c, v) \/ RemoveEntry(c, v)
    \/ \E c \in Callers : Persist(c) \/ PersistNothing(c)
    \/ \E w \in Workers, v \in Values : Block(w, v) \/ Lift(w, v)
    \/ \E w \in Workers : Silence(w) \/ BlockFails(w) \/ Unsilence(w)
    \/ Restart \/ RestartUnread

Spec == Init /\ [][Next]_vars

-----------------------------------------------------------------------------
WhitelistTypeOK ==
    /\ {listed, silenced, rows, bans, unstored, lapsed, outlived} \subseteq SUBSET Values
    /\ call \in [Callers -> Calls \cup {Idle}]
    /\ job \in [Workers -> Jobs \cup {Idle}]
    /\ requests \in Nat /\ faults \in Nat /\ banned \in Nat
    /\ asked \in [Values -> {"none", "add", "remove"}]
=============================================================================
