-------------------------- MODULE ResponseProperties --------------------------
(***************************************************************************)
(* What the response of module Response promises.                          *)
(***************************************************************************)
EXTENDS Response

\* An account the enforcer remembers as suspended, so that later alerts leave
\* it alone, is locked in Zimbra, whatever alerts, rehabilitations, failing
\* commands and restarts come in between; except for an account activated
\* while it was being locked, or by a command killed too late
\* (enforcer.go:554).
SuspendedIsLocked ==
    \A a \in suspendedAccts \ (raced \cup unsure) : Rehabilitating(a) \/ a \in locked

\* However many alerts a sustained attack raises, the user gets one warning
\* for each time the account is suspended anew: a first time, and again after
\* a rehabilitation or a restart (enforcer.go:555).
UserWarnedOnce == \A a \in Accounts : notices[a] <= 1 + forgotten[a]

SameOrigin(j, k) ==
    /\ <<j.action, j.ip, j.account>> = <<k.action, k.ip, k.account>>
    /\ j.ip = None /\ j.account = None => j.module = k.module
Recent(k) == heard[k].at # -1 /\ now - heard[k].at < KeyCooldown

\* The administrators get no repetition of an alert of the same origin during
\* the cooldown, however much is pruned meanwhile and whatever else goes out;
\* except when some channel failed the first time, for then nothing is
\* remembered (throttle.go:118), or when the agent has restarted since, which
\* forgets every cooldown (throttle.go:56).
CooldownHolds ==
    pc = "send" =>
        \A k \in Kinds : SameOrigin(k, alert) /\ Recent(k) =>
            heard[k].spoiled \/ heard[k].restarted

\* What the cooldown withholds, the administrators have: a notification of the
\* same action on the same address and account reached them during the
\* cooldown (throttle.go:68).
WithheldWasHeard ==
    pc = "report" /\ Cooling => \E k \in Kinds : SameOrigin(k, alert) /\ Recent(k)

\* The limit per window is on tumbling windows, each opened by a notification
\* or a restart (throttle.go:57, 101), and a notification that some channel
\* missed uses no share of it (throttle.go:118).  So of the notifications that
\* go out within the length of a window, however long a channel takes, there
\* are at most twice the limit, and the limit once more for every restart and
\* one for every such notification among them.
RateIsBounded ==
    MaxPerWindow > 0 =>
        \A i, j \in 1..Len(sent) :
            i < j /\ j - i >= 2 * MaxPerWindow + (sent[j].free - sent[i].free) =>
                sent[i].at + Window <= sent[j].at

\* The minimum time between notifications of the same origin that names an
\* address or an account, as it is documented: "tiempo mínimo entre
\* notificaciones del mismo IP o cuenta" (throttle.go:14).  A channel that fails
\* makes the others repeat every alert (throttle.go:118).
CooldownAsDocumented ==
    pc = "send" /\ (alert.ip # None \/ alert.account # None) =>
        \A k \in Kinds : SameOrigin(k, alert) => ~Recent(k)

\* Failures are always notified (enforcer.go:290, agent.yaml:195).  The
\* cooldown knows nothing of outcomes (throttle.go:69): a suspension that
\* fails after one that worked, within the cooldown, goes unheard.
FailuresAreNotified ==
    pc = "report" /\ Outcome = "failed" => ~Filtered /\ ~Cooling
===============================================================================
