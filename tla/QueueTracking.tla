---------------------------- MODULE QueueTracking ----------------------------
(***************************************************************************)
(* ParseLine of internal/parser follows a message through mail.log by its  *)
(* queue id: from the login that sent it (authedQueues) over its arrival   *)
(* in the queue to its deliveries (queueSenders), and under the id that a  *)
(* content filter gives it when it hands it back.                          *)
(*                                                                         *)
(* The mail server is the environment: it uses ids again, logs several     *)
(* arrivals of one message, and names in a delivery the id that the next   *)
(* server chose.  Each of its actions logs one line at most; the watcher   *)
(* may lose a line.                                                        *)
(***************************************************************************)
EXTENDS Integers, FiniteSets

CONSTANTS
    Accounts,
    QueueIds,
    None,
    QueueTTL, SenderTTL,    \* queueTTL and the 30 minutes of pruneQueues
    PruneEvery,             \* pruneEveryQueues
    MaxTime,                \* bound: the clock of the log
    MaxMessages,            \* bound: messages, re-injected ones included
    MaxLost                 \* bound: lines the parser never gets

ASSUME QueueTrackingAssumption ==
    /\ None \notin Accounts \cup QueueIds
    /\ {QueueTTL, SenderTTL, MaxTime, MaxMessages, MaxLost} \subseteq Nat
    /\ PruneEvery \in Nat \ {0}

VARIABLES
    now,
    message,        \* queue id -> the message that has it at present
    begun, lost,
    authedQueues,   \* queue id -> account and time of its login
    queueSenders,   \* queue id -> account and time of the login, once queued
    queueCallCnt,
    event,          \* what the last line was and whom it is attributed to
    known,          \* history: queue id -> what its lines told the parser, since
                    \* the agent started
    counted,        \* history: queue id -> QueueAccepted events of its message
    muddled,        \* history: ids whose present message the parser may take, or
                    \* may have taken, for another one that it remembers
    stolen          \* history: ids whose sender a delivery of another message
                    \* has replaced since their message was queued

server == <<now, message, begun>>
parser == <<authedQueues, queueSenders, queueCallCnt>>
vars == <<server, lost, parser, event, known, counted, muddled, stolen>>

NoEntry == [account |-> None, ts |-> 0]
Entries == [account : Accounts, ts : Nat] \cup {NoEntry}
Free == [stage |-> "free", sender |-> None, since |-> 0, parent |-> None]
Nothing == [kind |-> "nothing", qid |-> None, account |-> None, known |-> "no"]
Failures == {"bounced", "deferred"}

Alive(q) == message[q].stage # "free"
Age(q) == now - message[q].since

Init ==
    /\ now = 0 /\ message = [q \in QueueIds |-> Free] /\ begun = 0 /\ lost = 0
    /\ authedQueues = [q \in QueueIds |-> NoEntry]
    /\ queueSenders = [q \in QueueIds |-> NoEntry]
    /\ queueCallCnt = 0 /\ event = Nothing
    /\ known = [q \in QueueIds |-> "no"] /\ counted = [q \in QueueIds |-> 0]
    /\ muddled = {} /\ stolen = {}

-----------------------------------------------------------------------------
(* The parser *)

Emit(kind, q, account) ==
    event' = [kind |-> kind, qid |-> q, account |-> account, known |-> known[q]]

\* What pruneQueues leaves of a map, when it is its turn.
Due == queueCallCnt + 1 >= PruneEvery
KeptBriefly(map, ttl) ==  \* mutant: senders go as early as logins
    [q \in QueueIds |-> IF Due /\ map[q].ts < now - QueueTTL THEN NoEntry ELSE map[q]]
Kept(map, ttl) ==
    [q \in QueueIds |-> IF Due /\ map[q].ts < now - ttl THEN NoEntry ELSE map[q]]
Count == queueCallCnt' = IF Due THEN 0 ELSE queueCallCnt + 1

KeepLogin(q, account) ==  \* mutant: a login does not replace what is remembered
    /\ authedQueues' = IF authedQueues[q] # NoEntry THEN authedQueues
                       ELSE [authedQueues EXCEPT ![q] = [account |-> account, ts |-> now]]
    /\ UNCHANGED <<queueSenders, queueCallCnt>>
    /\ Emit("login", q, account)
ParseLogin(q, account) ==
    /\ authedQueues' = [authedQueues EXCEPT ![q] = [account |-> account, ts |-> now]]
    /\ UNCHANGED <<queueSenders, queueCallCnt>>
    /\ Emit("login", q, account)

ParseRcpt(q) ==
    /\ Emit("rcpt", q, authedQueues[q].account)
    /\ UNCHANGED parser

CountAgain(q) ==  \* mutant: the login is not consumed
    /\ Count
    /\ authedQueues' = Kept(authedQueues, QueueTTL)
    /\ queueSenders' = IF authedQueues[q] = NoEntry
                       THEN Kept(queueSenders, SenderTTL)
                       ELSE [Kept(queueSenders, SenderTTL) EXCEPT ![q] = authedQueues[q]]
    /\ Emit("qmgr", q, authedQueues[q].account)
ParseQmgr(q) ==
    /\ Count
    /\ authedQueues' = Kept([authedQueues EXCEPT ![q] = NoEntry], QueueTTL)
    /\ queueSenders' = IF authedQueues[q] = NoEntry
                       THEN Kept(queueSenders, SenderTTL)
                       ELSE [Kept(queueSenders, SenderTTL) EXCEPT ![q] = authedQueues[q]]
    /\ Emit("qmgr", q, authedQueues[q].account)

\* A delivery whose reply names the id next, or None.
ParseDelivery(q, status, next) ==
    LET senders == Kept(queueSenders, SenderTTL)
        chains == status = "sent" /\ next \notin {None, q} /\ senders[q] # NoEntry
    IN  /\ Count
        /\ authedQueues' = Kept(authedQueues, QueueTTL)
        /\ queueSenders' = IF chains THEN [senders EXCEPT ![next] = senders[q]] ELSE senders
        /\ Emit(status, q, senders[q].account)

\* The line is lost, or says nothing the parser looks at.
Unparsed == event' = Nothing /\ UNCHANGED parser
Lose == lost < MaxLost /\ lost' = lost + 1 /\ Unparsed

-----------------------------------------------------------------------------
(* The mail server *)

Begin(q, sender, since, parent) ==
    /\ ~Alive(q) /\ begun < MaxMessages /\ begun' = begun + 1 /\ UNCHANGED now
    /\ message' = [message EXCEPT ![q] =
           [stage |-> "session", sender |-> sender, since |-> since, parent |-> parent]]

Remembered(q) == queueSenders[q] # NoEntry
Expected(q) == authedQueues[q] # NoEntry
Muddle(q, does) == muddled' = IF does THEN muddled \cup {q} ELSE muddled \ {q}

\* A client that has logged in submits a message.
Login(q, a) ==
    /\ Begin(q, a, now, None)
    /\ UNCHANGED <<counted, stolen>>
    /\ \/ /\ ParseLogin(q, a) /\ UNCHANGED lost
          /\ known' = [known EXCEPT ![q] = "login"]
          /\ Muddle(q, Remembered(q))
       \/ /\ Lose /\ UNCHANGED known
          /\ Muddle(q, Remembered(q) \/ Expected(q))

\* Another server delivers a message for one of the users.
Incoming(q) ==
    /\ Begin(q, None, now, None) /\ Unparsed /\ UNCHANGED lost
    /\ UNCHANGED <<known, counted, stolen>>
    /\ Muddle(q, Remembered(q) \/ Expected(q))

\* The content filter hands the message q back under the id n.
Reinject(q, n) ==
    /\ message[q].stage = "queued"
    /\ Begin(n, message[q].sender, message[q].since, q) /\ Unparsed /\ UNCHANGED lost
    /\ counted' = [counted EXCEPT ![n] = counted[q]]
    /\ UNCHANGED <<known, stolen>>
    /\ Muddle(n, Remembered(n) \/ Expected(n) \/ counted[q] > 1)

Recipient(q) ==
    /\ message[q].stage = "session"
    /\ \/ ParseRcpt(q) /\ UNCHANGED lost
       \/ Lose
    /\ UNCHANGED <<server, known, counted, muddled, stolen>>

\* The queue manager takes the message up, first or again after a deferral.
Activate(q) ==
    /\ Alive(q) /\ message' = [message EXCEPT ![q].stage = "queued"]
    /\ UNCHANGED <<now, begun>>
    /\ \/ /\ ParseQmgr(q) /\ UNCHANGED lost
          /\ known' = [known EXCEPT ![q] = IF @ = "login"
                           THEN IF Age(q) <= QueueTTL THEN "queued" ELSE "no" ELSE @]
          /\ counted' = [counted EXCEPT ![q] = IF Expected(q) THEN @ + 1 ELSE @]
          /\ muddled' = IF known[q] = "login" /\ Expected(q) THEN muddled \ {q} ELSE muddled
          /\ stolen' = IF Expected(q) THEN stolen \ {q} ELSE stolen
       \/ Lose /\ UNCHANGED <<known, counted, muddled, stolen>>

Fail(q, status) ==
    /\ message[q].stage = "queued"
    /\ \/ ParseDelivery(q, status, None) /\ UNCHANGED lost
       \/ Lose
    /\ UNCHANGED <<server, known, counted, muddled, stolen>>

\* A recipient is served: by the user's mailbox (n is None), by the content
\* filter or by another server, which names the id the message has there.  That
\* id may be the one of a message here: its sender is replaced all the same.
Sent(q, n) ==
    LET child == n # None /\ message[n].parent = q
        foreign == n \notin {None, q} /\ Alive(n) /\ ~child /\ Remembered(q)
        misled == foreign \/ (child /\ q \in muddled /\ Remembered(q))
        tells == child /\ ~Expected(n) /\ known[q] = "queued" /\ Age(q) <= SenderTTL
    IN  /\ message[q].stage = "queued" /\ UNCHANGED <<server, counted>>
        /\ \/ /\ ParseDelivery(q, "sent", n) /\ UNCHANGED lost
              /\ muddled' = IF misled THEN muddled \cup {n} ELSE muddled
              /\ known' = IF tells THEN [known EXCEPT ![n] = "queued"] ELSE known
              /\ stolen' = IF foreign \/ (child /\ q \in stolen) THEN stolen \cup {n}
                           ELSE IF tells THEN stolen \ {n} ELSE stolen
           \/ Lose /\ UNCHANGED <<known, muddled, stolen>>

\* The session ends without a message, or the queue is done with it.
Finish(q) ==
    /\ Alive(q)
    /\ message' = [n \in QueueIds |-> IF n = q THEN Free
                      ELSE IF message[n].parent = q THEN [message[n] EXCEPT !.parent = None]
                      ELSE message[n]]
    /\ known' = [known EXCEPT ![q] = "no"] /\ counted' = [counted EXCEPT ![q] = 0]
    /\ stolen' = stolen \ {q}
    /\ Muddle(q, FALSE) /\ Unparsed /\ UNCHANGED <<now, begun, lost>>

\* The agent starts again.
Restart ==
    /\ authedQueues' = [q \in QueueIds |-> NoEntry]
    /\ queueSenders' = [q \in QueueIds |-> NoEntry]
    /\ queueCallCnt' = 0 /\ event' = Nothing
    /\ known' = [q \in QueueIds |-> "no"] /\ stolen' = {}
    /\ UNCHANGED <<server, lost, counted, muddled>>

Tick ==
    /\ now < MaxTime /\ now' = now + 1
    /\ Unparsed /\ UNCHANGED <<message, begun, lost, known, counted, muddled, stolen>>

Next ==
    \/ \E q \in QueueIds :
          \/ \E a \in Accounts : Login(q, a)
          \/ Incoming(q) \/ Recipient(q) \/ Activate(q) \/ Finish(q)
          \/ \E n \in QueueIds : Reinject(q, n)
          \/ \E status \in Failures : Fail(q, status)
          \/ \E n \in QueueIds \cup {None} : Sent(q, n)
    \/ Restart \/ Tick

Spec == Init /\ [][Next]_vars

-----------------------------------------------------------------------------
QueueTrackingTypeOK ==
    /\ now \in Nat /\ begun \in Nat /\ lost \in Nat /\ queueCallCnt \in 0..(PruneEvery - 1)
    /\ message \in [QueueIds -> [stage : {"free", "session", "queued"},
           sender : Accounts \cup {None}, since : Nat, parent : QueueIds \cup {None}]]
    /\ authedQueues \in [QueueIds -> Entries] /\ queueSenders \in [QueueIds -> Entries]
    /\ event = Nothing \/ event.qid \in QueueIds
    /\ known \in [QueueIds -> {"no", "login", "queued"}]
    /\ counted \in [QueueIds -> Nat]
    /\ muddled \subseteq QueueIds /\ stolen \subseteq QueueIds
=============================================================================
