------------------------- MODULE WhitelistProperties -------------------------
(***************************************************************************)
(* What an operator may rely on about the whitelist.                       *)
(***************************************************************************)
EXTENDS Whitelist

\* Whom the operator exempts the engine ignores, under whatever name, however
\* calls overlap, bans of the same address come and go and the agent restarts;
\* only a call whose row was not written, was written out of order or could
\* not be read is undone by a restart (api.go:464, engine.go:23).
ExemptIsIgnored ==
    \A e \in Values \ lapsed : asked[e] = "add" => \A s \in Covers[e] : ContainsSubject(s)

Lifting == {job[w].value : w \in {u \in Workers : job[u] # Idle /\ job[u].verb = "lift"}}

\* Nobody is ignored without a reason: a private network, an entry that the
\* operator has not removed under any of its names, or a ban that is in force
\* or just being lifted.  Two exceptions: the calls excepted above and the
\* entries of agent.yaml, which come back (lapsed); and the silence that a
\* failed block over an expired ban, or a block overtaken by the lifting of
\* its ban, leaves until the next one is lifted (outlived; api.go:498,
\* engine.go:156, enforcer.go:417, 439).
IgnoredIsJustified ==
    \A s \in Subjects : ContainsSubject(s) =>
        \/ s \in BuiltinNets
        \/ \E e \in Values : s \in Covers[e] /\ (asked[e] = "add" \/ e \in lapsed)
        \/ \E v \in bans \cup Lifting \cup outlived : s \in Covers[Canon[v]]

-----------------------------------------------------------------------------
(* What the comments say and the code does not keep: TLC refutes each in   *)
(* place of the properties of whitelist (README, section 6).               *)

\* Events of an address are not dispatched while its ban lasts (engine.go:141).
\* Two names of one address may be two bans and are one silence: lifting either
\* name ends it for both, without any overlap of operations.
SilencedWhileBanned ==
    (\A w \in Workers : job[w] = Idle) => \A v \in bans : Canon[v] \in silenced

\* A change is stored, so that it survives restarts (README.md:266): once the
\* last call in progress on an entry has written its row, the row says what
\* memory says.  Two calls at once write their rows in either order.
LastCallIsStored ==
    [][\A c \in Callers :
          LET e == Canon[call[c].value] IN
          /\ Persist(c)
          /\ \A d \in Callers \ {c} : call[d] = Idle \/ Canon[call[d].value] # e
          => (e \in rows' <=> asked[e] = "add")]_vars
=============================================================================
