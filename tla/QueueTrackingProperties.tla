----------------------- MODULE QueueTrackingProperties -----------------------
(***************************************************************************)
(* Whom the lines of mail.log are attributed to.                           *)
(***************************************************************************)
EXTENDS QueueTracking

Sender(q) == message[q].sender

\* Nobody is blamed for a message that is not theirs, nor for one that came
\* from outside, however ids are used again, sessions are dropped, messages
\* are filtered and lines are lost; except under an id that the parser still
\* remembers from another message, which it forgets as soon as it sees a login
\* and the arrival that belongs to it (parser.go:311).
BlameIsDeserved ==
    event.account # None =>
        event.account = Sender(event.qid) \/ event.qid \in muddled

\* What an account sends is held against it: recipients and the arrival in the
\* queue up to QueueTTL after the login, deliveries up to SenderTTL, also under
\* the id of a content filter and also when the id belonged to another message
\* before, although entries are purged at the lines of other messages
\* (parser.go:386).  Excepts the deliveries of a message whose id a server that
\* took another message has named: that replaces its sender (parser.go:427).
Early == event.kind \in {"rcpt", "qmgr"} /\ event.known = "login"
Late == event.kind \in Failures \cup {"sent"} /\ event.known = "queued"
SendersAreKnown ==
    /\ Early /\ Age(event.qid) <= QueueTTL => event.account = Sender(event.qid)
    /\ Late /\ Age(event.qid) <= SenderTTL /\ event.qid \notin stolen =>
           event.account = Sender(event.qid)

\* However often the queue manager takes up a message, and although a content
\* filter hands it back under another id, it counts once against the account
\* that sent it (parser.go:341); except under an id that the parser still
\* remembers from another message, or whose sender another one has replaced.
CountedOnce == \A q \in QueueIds : counted[q] > 1 => q \in muddled

-----------------------------------------------------------------------------
(* What the comments say and the code does not keep: TLC refutes each in   *)
(* place of the properties of track (README, section 6).                   *)

\* "Solo existe entrada para colas que pasaron por SASL (outbound), nunca para
\* tráfico MX entrante" (parser.go:411): deliveries of a message from outside
\* are nobody's.  The entry of a message that is gone stays for its id.
IncomingIsNobodys ==
    event.kind \in Failures \cup {"sent"} /\ Sender(event.qid) = None =>
        event.account = None

\* "Encadenar el remitente al nuevo queue ID para no perder la cuenta en las
\* entregas" (parser.go:422): no delivery replaces the sender of a message of
\* another account.  The id named may be one of a server elsewhere.
RelayKeepsSenders ==
    [][\A q \in QueueIds :
          /\ known[q] = "queued" /\ known'[q] = "queued" /\ event'.kind = "sent"
          /\ queueSenders[q].account = Sender(q) /\ queueSenders'[q] # NoEntry
          => queueSenders'[q].account = Sender(q)]_vars
=============================================================================
