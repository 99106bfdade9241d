--------------------------- MODULE WhitelistProofs ---------------------------
(***************************************************************************)
(* Whom the engine ignores is whom the operator and the enforcer asked it  *)
(* to ignore, for any values, overlaps, faults and restarts.               *)
(*                                                                         *)
(* Memory follows the last call on every entry that no restart has undone  *)
(* (MemoryAgrees).  A restart replaces memory by the rows, so the rows     *)
(* must follow the last call too, on every entry whose row was written     *)
(* after it (RowsAgree); and for a row to stay right, no call that says    *)
(* otherwise may still be on its way (PendingAgrees).  A silence needs a   *)
(* ban that is in force or just being lifted, or a failed or overtaken     *)
(* block that left it behind (SilenceHasBan).                              *)
(***************************************************************************)
EXTENDS WhitelistProperties, TLAPS

MemoryAgrees == \A e \in Values \ lapsed : asked[e] = "add" <=> e \in listed
RowsAgree ==
    /\ \A e \in rows : Canon[e] = e
    /\ \A e \in Values \ unstored :
          /\ e \in rows => asked[e] = "add"
          /\ asked[e] = "add" => e \in Configured \cup rows
PendingAgrees ==
    \A c \in Callers : call[c] # Idle /\ Canon[call[c].value] \notin unstored
                          => call[c].verb = asked[Canon[call[c].value]]
ConfiguredIsAsked == \A e \in Configured : asked[e] # "none"
SilenceHasBan ==
    \A e \in silenced : \E v \in bans \cup Lifting \cup outlived : Canon[v] = e

WhitelistInv ==
    /\ WhitelistTypeOK
    /\ MemoryAgrees /\ RowsAgree /\ PendingAgrees /\ ConfiguredIsAsked /\ SilenceHasBan

USE WhitelistAssumption

\* A pending call has a verb and a value.
LEMMA PendingCall ==
    ASSUME WhitelistTypeOK, NEW c \in Callers, call[c] # Idle
    PROVE  /\ call[c].verb \in {"add", "remove"}
           /\ call[c].value \in Values /\ Canon[call[c].value] \in Values
  BY DEF WhitelistTypeOK, Calls

\* A worker has an operation on an address.
LEMMA PendingJob ==
    ASSUME WhitelistTypeOK, NEW w \in Workers, job[w] # Idle
    PROVE  /\ job[w].verb \in {"block", "lift"} /\ job[w].value \in Addresses
           /\ job[w].value \in Values /\ Canon[job[w].value] \in Values
  BY DEF WhitelistTypeOK, Jobs

\* Rows in canonical form are the entries they stand for.
LEMMA FormsOfRows ==
    ASSUME WhitelistTypeOK, \A e \in rows : Canon[e] = e
    PROVE  Forms(rows) = rows
  BY DEF Forms

LEMMA InitWhitelist == Init => WhitelistInv
<1> SUFFICES ASSUME Init PROVE WhitelistInv
  OBVIOUS
<1>1. rows \subseteq Values /\ \A e \in rows : Canon[e] = e
  BY DEF Init
<1>2. Forms(rows) = rows
  BY <1>1 DEF Forms
<1>3. listed = Configured \cup rows /\ listed \subseteq Values
  BY <1>1, <1>2 DEF Init
<1>4. WhitelistTypeOK
  BY <1>1, <1>3 DEF Init, WhitelistTypeOK, Calls, Jobs
<1>5. MemoryAgrees /\ RowsAgree /\ ConfiguredIsAsked
  BY <1>1, <1>3 DEF Init, MemoryAgrees, RowsAgree, ConfiguredIsAsked
<1>6. PendingAgrees /\ SilenceHasBan
  BY DEF Init, PendingAgrees, SilenceHasBan
<1> QED
  BY <1>4, <1>5, <1>6 DEF WhitelistInv

\* A call changes memory and the record of the last call at once, and leaves
\* its row open.
LEMMA BeginStep ==
    ASSUME WhitelistInv, NEW c \in Callers, NEW v \in Values, NEW verb \in {"add", "remove"},
           Begin(c, verb, v),
           listed' = IF verb = "add" THEN listed \cup {Canon[v]} ELSE listed \ {Canon[v]}
    PROVE  WhitelistInv'
<1>1. Canon[v] \in Values
  OBVIOUS
<1>2. WhitelistTypeOK'
  BY <1>1 DEF WhitelistInv, WhitelistTypeOK, Begin, Calls
<1>3. MemoryAgrees'
  BY <1>1 DEF WhitelistInv, WhitelistTypeOK, MemoryAgrees, Begin
<1>4. RowsAgree'
  BY <1>1 DEF WhitelistInv, WhitelistTypeOK, RowsAgree, Begin
<1>5. PendingAgrees'
  <2> SUFFICES ASSUME NEW d \in Callers, call'[d] # Idle, Canon[call'[d].value] \notin unstored'
               PROVE  call'[d].verb = asked'[Canon[call'[d].value]]
    BY DEF PendingAgrees
  <2>1. d # c
    BY DEF Begin, WhitelistInv, WhitelistTypeOK
  <2>2. call'[d] = call[d]
    BY <2>1 DEF Begin, WhitelistInv, WhitelistTypeOK
  <2>3. Canon[call[d].value] \in Values /\ Canon[call[d].value] # Canon[v]
    BY <2>2, PendingCall DEF Begin, WhitelistInv
  <2> QED
    BY <2>2, <2>3 DEF Begin, WhitelistInv, WhitelistTypeOK, PendingAgrees
<1>6. ConfiguredIsAsked' /\ SilenceHasBan'
  BY <1>1 DEF WhitelistInv, WhitelistTypeOK, ConfiguredIsAsked, SilenceHasBan, Lifting, Begin
<1> QED
  BY <1>2, <1>3, <1>4, <1>5, <1>6 DEF WhitelistInv

\* A row that is written belongs to the last call, or its entry is unstored.
LEMMA PersistStep ==
    ASSUME WhitelistInv, NEW c \in Callers, Persist(c)
    PROVE  WhitelistInv'
<1> DEFINE e == Canon[call[c].value]
<1>1. /\ call[c] # Idle /\ e \in Values /\ Canon[e] = e
      /\ call[c].verb \in {"add", "remove"} /\ call[c].value \in Values
  BY PendingCall DEF Persist, WhitelistInv
<1>2. /\ rows' = IF call[c].verb = "add" THEN rows \cup {e} ELSE rows \ {e}
      /\ call' = [call EXCEPT ![c] = Idle]
      /\ unstored' = IF asked[e] = call[c].verb /\ ~Contradicted(c)
                     THEN unstored \ {e} ELSE unstored \cup {e}
  BY DEF Persist, Row
<1>3. UNCHANGED <<listed, silenced, bans, job, counters, asked, lapsed, outlived>>
  BY DEF Persist
<1> HIDE DEF e
<1>4. WhitelistTypeOK'
  BY <1>1, <1>2, <1>3 DEF WhitelistInv, WhitelistTypeOK, Calls, counters
<1>5. MemoryAgrees' /\ ConfiguredIsAsked' /\ SilenceHasBan'
  BY <1>3 DEF WhitelistInv, MemoryAgrees, ConfiguredIsAsked, SilenceHasBan, Lifting
<1>6. RowsAgree'
  BY <1>1, <1>2, <1>3 DEF WhitelistInv, WhitelistTypeOK, RowsAgree
<1>7. PendingAgrees'
  <2> SUFFICES ASSUME NEW d \in Callers, call'[d] # Idle, Canon[call'[d].value] \notin unstored'
               PROVE  call'[d].verb = asked'[Canon[call'[d].value]]
    BY DEF PendingAgrees
  <2>1. d # c /\ call'[d] = call[d] /\ call[d] # Idle
    BY <1>2 DEF WhitelistInv, WhitelistTypeOK
  <2>2. CASE Canon[call[d].value] = e
    BY <1>1, <1>2, <1>3, <2>1, <2>2 DEF Contradicted, e
  <2>3. CASE Canon[call[d].value] # e
    BY <1>2, <1>3, <2>1, <2>3 DEF WhitelistInv, PendingAgrees
  <2> QED
    BY <2>2, <2>3
<1> QED
  BY <1>4, <1>5, <1>6, <1>7 DEF WhitelistInv

LEMMA PersistNothingStep ==
    ASSUME WhitelistInv, NEW c \in Callers, PersistNothing(c)
    PROVE  WhitelistInv'
<1>1. call[c] # Idle /\ Canon[call[c].value] \in Values
  BY PendingCall DEF PersistNothing, WhitelistInv
<1>2. WhitelistTypeOK'
  BY <1>1 DEF WhitelistInv, WhitelistTypeOK, Calls, PersistNothing
<1>3. MemoryAgrees' /\ ConfiguredIsAsked' /\ SilenceHasBan' /\ RowsAgree'
  BY DEF WhitelistInv, MemoryAgrees, ConfiguredIsAsked, SilenceHasBan, Lifting, RowsAgree,
         PersistNothing
<1>4. PendingAgrees'
  BY DEF WhitelistInv, WhitelistTypeOK, PendingAgrees, PersistNothing
<1> QED
  BY <1>2, <1>3, <1>4 DEF WhitelistInv

\* What the enforcer does: an operation on v begins or ends in one of these.
Enforces(w, v) ==
    \/ Block(w, v) \/ Lift(w, v)
    \/ job[w] # Idle /\ job[w].value = v /\ (Silence(w) \/ BlockFails(w) \/ Unsilence(w))

\* Bans and lifts touch no entry of the operator, and whatever takes a ban
\* away while its silence stays says so.
LEMMA EnforceStep ==
    ASSUME WhitelistInv, NEW w \in Workers, NEW v \in Values, Enforces(w, v)
    PROVE  WhitelistInv'
<1>1. Canon[v] \in Values /\ WhitelistTypeOK /\ SilenceHasBan
  BY DEF WhitelistInv
<1>2. WhitelistTypeOK'
  <2>1. job' \in [Workers -> Jobs \cup {Idle}]
    BY <1>1 DEF WhitelistTypeOK, Enforces, Block, Lift, Silence, BlockFails, Unsilence, EndSilence, Unsilenced,
                Finish, Jobs
  <2>2. /\ {listed, silenced, rows, bans, unstored, lapsed, outlived}' \subseteq SUBSET Values
        /\ call' = call /\ asked' = asked /\ requests' = requests /\ faults' = faults
        /\ banned' \in Nat
    BY <1>1 DEF WhitelistTypeOK, Enforces, Block, Lift, Silence, BlockFails, Unsilence, EndSilence, Unsilenced,
                histories, counters, Aliases
  <2> QED
    BY <1>1, <2>1, <2>2 DEF WhitelistTypeOK
<1>3. MemoryAgrees' /\ ConfiguredIsAsked' /\ RowsAgree' /\ PendingAgrees'
  BY DEF WhitelistInv, MemoryAgrees, ConfiguredIsAsked, RowsAgree, PendingAgrees, Enforces,
         Block, Lift, Silence, BlockFails, Unsilence, EndSilence, Unsilenced, histories, counters
<1>4. SilenceHasBan'
  <2> SUFFICES ASSUME NEW e \in silenced'
               PROVE  \E u \in bans' \cup Lifting' \cup outlived' : Canon[u] = e
    BY DEF SilenceHasBan
  \* The other workers go on lifting what they lift.
  <2>1. \A u \in Lifting : u \in Lifting' \/ (job[w] # Idle /\ job[w].verb = "lift" /\ u = job[w].value)
    <3> SUFFICES ASSUME NEW x \in Workers, job[x] # Idle, job[x].verb = "lift", x # w
                 PROVE  job[x].value \in Lifting'
      BY DEF Lifting
    <3>1. job'[x] = job[x]
      BY <1>1 DEF WhitelistTypeOK, Enforces, Block, Lift, Silence, BlockFails, Unsilence,
                  EndSilence, Unsilenced, Finish
    <3> QED
      BY <3>1 DEF Lifting
  <2>2. CASE Block(w, v)
    BY <1>1, <2>1, <2>2 DEF SilenceHasBan, Block, histories
  <2>3. CASE Lift(w, v)
    <3>1. v \in Lifting'
      BY <1>1, <2>3 DEF Lift, Lifting, WhitelistTypeOK, Idle
    <3> QED
      BY <1>1, <2>1, <2>3, <3>1 DEF SilenceHasBan, Lift, histories
  <2>4. CASE job[w].value = v /\ Silence(w)
    BY <1>1, <2>1, <2>4 DEF SilenceHasBan, Silence
  <2>5. CASE job[w].value = v /\ BlockFails(w)
    BY <1>1, <2>1, <2>5 DEF SilenceHasBan, BlockFails
  <2>6. CASE job[w].value = v /\ Unsilence(w)
    <3>1. e \in silenced /\ e # Canon[v]
      BY <2>6 DEF Unsilence, EndSilence, Unsilenced
    <3>2. PICK u \in bans \cup Lifting \cup outlived : Canon[u] = e
      BY <1>1, <3>1 DEF SilenceHasBan
    <3> QED
      BY <2>1, <2>6, <3>1, <3>2 DEF Unsilence, EndSilence, Unsilenced, Aliases
  <2> QED
    BY <2>2, <2>3, <2>4, <2>5, <2>6 DEF Enforces
<1> QED
  BY <1>2, <1>3, <1>4 DEF WhitelistInv

\* After a start memory holds agent.yaml and what was read of the rows: what
\* differs from the last call has lapsed.
LEMMA StartStep ==
    ASSUME WhitelistInv, NEW restored \in {Forms(rows), {}}, Start(restored),
           faults' \in Nat
    PROVE  WhitelistInv'
<1>1. Forms(rows) = rows /\ rows \subseteq Values /\ restored \subseteq rows
  BY FormsOfRows DEF WhitelistInv, RowsAgree, WhitelistTypeOK
<1>2. WhitelistTypeOK'
  BY <1>1 DEF WhitelistInv, WhitelistTypeOK, Start, Calls, Jobs
<1>3. MemoryAgrees'
  <2> SUFFICES ASSUME NEW e \in Values, e \notin lapsed'
               PROVE  asked'[e] = "add" <=> e \in listed'
    BY DEF MemoryAgrees
  <2>1. e \notin unstored /\ (e \in rows => e \in restored)
        /\ ~(e \in Configured /\ asked[e] = "remove")
    BY <1>1 DEF Start
  <2>2. asked' = asked /\ listed' = Configured \cup restored
    BY DEF Start
  <2>3. asked[e] \in {"none", "add", "remove"} /\ (e \in Configured => asked[e] # "none")
    BY DEF WhitelistInv, WhitelistTypeOK, ConfiguredIsAsked
  <2>4. /\ e \in rows => asked[e] = "add"
        /\ asked[e] = "add" => e \in Configured \cup rows
    BY <2>1 DEF WhitelistInv, RowsAgree
  <2> QED
    BY <1>1, <2>1, <2>2, <2>3, <2>4
<1>4. RowsAgree' /\ ConfiguredIsAsked'
  BY DEF WhitelistInv, RowsAgree, ConfiguredIsAsked, Start
<1>5. PendingAgrees' /\ SilenceHasBan'
  BY DEF WhitelistInv, WhitelistTypeOK, PendingAgrees, SilenceHasBan, Start
<1> QED
  BY <1>2, <1>3, <1>4, <1>5 DEF WhitelistInv

LEMMA WhitelistStep == WhitelistInv /\ [Next]_vars => WhitelistInv'
<1> SUFFICES ASSUME WhitelistInv, [Next]_vars PROVE WhitelistInv'
  OBVIOUS
<1>1. ASSUME NEW c \in Callers, NEW v \in Values, AddEntry(c, v) \/ RemoveEntry(c, v)
      PROVE  WhitelistInv'
  BY <1>1, BeginStep DEF AddEntry, RemoveEntry
<1>2. ASSUME NEW c \in Callers, Persist(c) \/ PersistNothing(c) PROVE WhitelistInv'
  BY <1>2, PersistStep, PersistNothingStep
<1>3. ASSUME NEW w \in Workers, NEW v \in Values, Block(w, v) \/ Lift(w, v) PROVE WhitelistInv'
  BY <1>3, EnforceStep DEF Enforces
<1>4. ASSUME NEW w \in Workers, Silence(w) \/ BlockFails(w) \/ Unsilence(w) PROVE WhitelistInv'
  <2>1. job[w] # Idle
    BY <1>4 DEF Silence, BlockFails, Unsilence, EndSilence
  <2>2. job[w].value \in Values
    BY <2>1, PendingJob DEF WhitelistInv
  <2> QED
    BY <1>4, <2>1, <2>2, EnforceStep DEF Enforces
<1>5. CASE Restart
  <2>1. Start(Forms(rows)) /\ faults' \in Nat
    BY <1>5 DEF Restart, WhitelistInv, WhitelistTypeOK
  <2> QED
    BY <2>1, StartStep
<1>6. CASE RestartUnread
  <2>1. Start({}) /\ faults' \in Nat
    BY <1>6 DEF RestartUnread, WhitelistInv, WhitelistTypeOK
  <2> QED
    BY <2>1, StartStep
<1>7. CASE UNCHANGED vars
  BY <1>7 DEF vars, counters, histories, WhitelistInv, WhitelistTypeOK, MemoryAgrees, RowsAgree,
              PendingAgrees, ConfiguredIsAsked, SilenceHasBan, Lifting
<1> QED
  BY <1>1, <1>2, <1>3, <1>4, <1>5, <1>6, <1>7 DEF Next

THEOREM WhitelistIsConsistent == Spec => []WhitelistInv
  BY InitWhitelist, WhitelistStep, PTL DEF Spec

-----------------------------------------------------------------------------
\* Whom the operator exempts is ignored until the operator says otherwise, for
\* any values, overlaps, bans and faults, with one exception: a restart undoes
\* a call whose row was not written, not in order, or not read (lapsed;
\* handleWhitelistAdd, api.go:447, persistWhitelist, api.go:514).
THEOREM ExemptStaysIgnored == Spec => []ExemptIsIgnored
<1>1. WhitelistInv => ExemptIsIgnored
  BY DEF WhitelistInv, MemoryAgrees, ExemptIsIgnored, ContainsSubject
<1> QED
  BY <1>1, WhitelistIsConsistent, PTL

\* Nobody is ignored whom neither the operator nor a ban exempts, but for what
\* a restart brings back (lapsed) and the silence that a failed or overtaken
\* block leaves behind (outlived; handleWhitelistRemove, api.go:484, Unsilence,
\* engine.go:156, the failed block, enforcer.go:417).
THEOREM NobodyIsIgnoredInVain == Spec => []IgnoredIsJustified
<1>1. WhitelistInv => IgnoredIsJustified
  <2> SUFFICES ASSUME WhitelistInv, NEW s \in Subjects, ContainsSubject(s), s \notin BuiltinNets
               PROVE  \/ \E e \in Values : s \in Covers[e] /\ (asked[e] = "add" \/ e \in lapsed)
                      \/ \E v \in bans \cup Lifting \cup outlived : s \in Covers[Canon[v]]
    BY DEF IgnoredIsJustified
  <2>1. PICK e \in listed \cup silenced : s \in Covers[e]
    BY DEF ContainsSubject
  <2>2. CASE e \in listed
    BY <2>1, <2>2 DEF WhitelistInv, WhitelistTypeOK, MemoryAgrees
  <2>3. CASE e \in silenced
    BY <2>1, <2>3 DEF WhitelistInv, SilenceHasBan
  <2> QED
    BY <2>1, <2>2, <2>3
<1> QED
  BY <1>1, WhitelistIsConsistent, PTL
=============================================================================
