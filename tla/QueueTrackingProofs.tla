------------------------ MODULE QueueTrackingProofs ------------------------
(***************************************************************************)
(* Whom the parser blames, for any accounts, ids, times and losses.        *)
(*                                                                         *)
(* Under an id that is not muddled both maps hold the login of the message *)
(* that has it, or nothing (Unmuddled).  What the lines have told the      *)
(* parser is still in its maps, until the entry is old or another message  *)
(* has replaced it (LoginKept, QueuedKept), and an id the queue manager was seen to take waits for no  *)
(* login (Consumed).  An id that waits for one has counted nothing yet     *)
(* (Uncounted).  A re-injected message is its parent's, while both last    *)
(* (Kinship).                                                              *)
(***************************************************************************)
EXTENDS QueueTrackingProperties, TLAPS

Own(q) == [account |-> message[q].sender, ts |-> message[q].since]

Unmuddled ==
    \A q \in QueueIds : Alive(q) /\ q \notin muddled =>
        authedQueues[q] \in {NoEntry, Own(q)} /\ queueSenders[q] \in {NoEntry, Own(q)}
LoginKept ==
    \A q \in QueueIds : known[q] = "login" =>
        /\ authedQueues[q] \in {NoEntry, Own(q)} /\ message[q].sender # None
        /\ Age(q) <= QueueTTL => authedQueues[q] = Own(q)
QueuedKept ==
    \A q \in QueueIds : known[q] = "queued" =>
        /\ message[q].sender # None
        /\ q \notin stolen /\ Age(q) <= SenderTTL => queueSenders[q] = Own(q)
Consumed == \A q \in QueueIds : known[q] = "queued" => authedQueues[q] = NoEntry
Uncounted ==
    \A q \in QueueIds : Expected(q) /\ (q \notin muddled \/ known[q] = "login") => counted[q] = 0
Unused == \A q \in QueueIds : ~Alive(q) => known[q] = "no" /\ counted[q] = 0
Kinship ==
    \A q \in QueueIds : message[q].parent # None =>
        /\ Alive(q) /\ Alive(message[q].parent) /\ message[q].parent # q /\ known[q] # "login"
        /\ known[q] = "queued" => known[message[q].parent] = "queued"
        /\ message[message[q].parent].sender = message[q].sender
        /\ message[message[q].parent].since = message[q].since

MapsInv ==
    /\ QueueTrackingTypeOK /\ Unmuddled /\ LoginKept /\ QueuedKept /\ Consumed
    /\ Uncounted /\ Unused /\ Kinship /\ CountedOnce
TrackingInv == MapsInv /\ BlameIsDeserved /\ SendersAreKnown

USE QueueTrackingAssumption

\* Purging only forgets, and forgets no entry that is young enough.
LEMMA KeptForgets ==
    ASSUME QueueTrackingTypeOK, NEW map \in [QueueIds -> Entries], NEW ttl \in Nat
    PROVE  /\ Kept(map, ttl) \in [QueueIds -> Entries]
           /\ \A q \in QueueIds :
                 /\ Kept(map, ttl)[q] \in {NoEntry, map[q]}
                 /\ map[q].ts \in Nat
                 /\ now - map[q].ts <= ttl => Kept(map, ttl)[q] = map[q]
  BY DEF Kept, Entries, NoEntry, QueueTrackingTypeOK

LEMMA InitTracking == Init => TrackingInv
<1> SUFFICES ASSUME Init PROVE TrackingInv
  OBVIOUS
<1>1. QueueTrackingTypeOK
  BY DEF Init, QueueTrackingTypeOK, Free, Nothing, Entries
<1>2. Unmuddled /\ LoginKept /\ QueuedKept /\ Consumed /\ Uncounted /\ Unused /\ Kinship
      /\ CountedOnce
  BY DEF Init, Unmuddled, LoginKept, QueuedKept, Consumed, Uncounted, Unused, Kinship,
         CountedOnce, Alive, Expected, Free
<1>3. BlameIsDeserved /\ SendersAreKnown
  BY DEF Init, BlameIsDeserved, SendersAreKnown, Early, Late, Nothing, Failures
<1> QED
  BY <1>1, <1>2, <1>3 DEF TrackingInv, MapsInv

\* A line that tells the parser nothing blames nobody.
LEMMA NothingSaid == event' = Nothing => BlameIsDeserved' /\ SendersAreKnown'
  BY DEF BlameIsDeserved, SendersAreKnown, Early, Late, Nothing, Failures

\* An event tells the truth if its account is right whenever it should be known.
LEMMA SaysRight ==
    ASSUME NEW q \in QueueIds, NEW kind, NEW account,
           event' = [kind |-> kind, qid |-> q, account |-> account, known |-> known[q]],
           now' = now, message'[q].sender = message[q].sender, message'[q].since = message[q].since,
           kind \in {"rcpt", "qmgr"} /\ known[q] = "login" /\ Age(q) <= QueueTTL
               => account = message[q].sender,
           kind \in Failures \cup {"sent"} /\ q \in stolen => q \in stolen',
           kind \in Failures \cup {"sent"} /\ known[q] = "queued" /\ Age(q) <= SenderTTL
               /\ q \notin stolen => account = message[q].sender
    PROVE  SendersAreKnown'
<1>1. /\ event'.kind = kind /\ event'.qid = q /\ event'.account = account
      /\ event'.known = known[q]
  OBVIOUS
<1>2. now' - message'[q].since = now - message[q].since
  OBVIOUS
<1> QED
  BY <1>1, <1>2 DEF SendersAreKnown, Early, Late, Sender, Age

-----------------------------------------------------------------------------
(* Messages begin and end *)

LEMMA LoginStep ==
    ASSUME TrackingInv, NEW q \in QueueIds, NEW a \in Accounts, Login(q, a)
    PROVE  TrackingInv'
<1>1. ~Alive(q) /\ known[q] = "no" /\ counted[q] = 0 /\ \A n \in QueueIds : message[n].parent # q
  BY DEF TrackingInv, MapsInv, Unused, Kinship, Login, Begin, QueueTrackingTypeOK
<1>2. /\ message' = [message EXCEPT ![q] =
             [stage |-> "session", sender |-> a, since |-> now, parent |-> None]]
      /\ now' = now /\ begun' = begun + 1 /\ counted' = counted /\ stolen' = stolen
  BY DEF Login, Begin
<1>3. CASE /\ ParseLogin(q, a) /\ UNCHANGED lost
           /\ known' = [known EXCEPT ![q] = "login"]
           /\ Muddle(q, Remembered(q))
  <2>1. QueueTrackingTypeOK'
    BY <1>2, <1>3 DEF TrackingInv, MapsInv, QueueTrackingTypeOK, ParseLogin, Emit, Muddle, Entries
  <2>2. Unmuddled' /\ LoginKept' /\ QueuedKept' /\ Consumed'
    BY <1>1, <1>2, <1>3 DEF TrackingInv, MapsInv, QueueTrackingTypeOK, Unmuddled, LoginKept,
       QueuedKept, Consumed, Alive, Own, Age, Muddle, Remembered, ParseLogin
  <2>3. Uncounted' /\ Unused' /\ CountedOnce'
    BY <1>1, <1>2, <1>3 DEF TrackingInv, MapsInv, QueueTrackingTypeOK, Uncounted, Unused,
       CountedOnce, Alive, Expected, Muddle, ParseLogin
  <2>4. Kinship'
    BY <1>1, <1>2, <1>3 DEF TrackingInv, MapsInv, QueueTrackingTypeOK, Kinship, Alive
  <2>5. BlameIsDeserved' /\ SendersAreKnown'
    BY <1>2, <1>3 DEF BlameIsDeserved, SendersAreKnown, Early, Late, Failures, Sender, ParseLogin,
       Emit, TrackingInv, MapsInv, QueueTrackingTypeOK
  <2> QED
    BY <2>1, <2>2, <2>3, <2>4, <2>5 DEF TrackingInv, MapsInv
<1>4. CASE Lose /\ UNCHANGED known /\ Muddle(q, Remembered(q) \/ Expected(q))
  <2>1. QueueTrackingTypeOK'
    BY <1>2, <1>4 DEF TrackingInv, MapsInv, QueueTrackingTypeOK, Lose, Unparsed, Muddle, parser
  <2>2. Unmuddled' /\ LoginKept' /\ QueuedKept' /\ Consumed'
    BY <1>1, <1>2, <1>4 DEF TrackingInv, MapsInv, QueueTrackingTypeOK, Unmuddled, LoginKept,
       QueuedKept, Consumed, Alive, Own, Age, Muddle, Remembered, Expected, Lose, Unparsed, parser
  <2>3. Uncounted' /\ Unused' /\ CountedOnce'
    BY <1>1, <1>2, <1>4 DEF TrackingInv, MapsInv, QueueTrackingTypeOK, Uncounted, Unused,
       CountedOnce, Alive, Expected, Muddle, Lose, Unparsed, parser
  <2>4. Kinship'
    BY <1>1, <1>2, <1>4 DEF TrackingInv, MapsInv, QueueTrackingTypeOK, Kinship, Alive
  <2>5. BlameIsDeserved' /\ SendersAreKnown'
    BY <1>4, NothingSaid DEF Lose, Unparsed
  <2> QED
    BY <2>1, <2>2, <2>3, <2>4, <2>5 DEF TrackingInv, MapsInv
<1> QED
  BY <1>3, <1>4 DEF Login

LEMMA IncomingStep ==
    ASSUME TrackingInv, NEW q \in QueueIds, Incoming(q)
    PROVE  TrackingInv'
<1>1. ~Alive(q) /\ known[q] = "no" /\ counted[q] = 0 /\ \A n \in QueueIds : message[n].parent # q
  BY DEF TrackingInv, MapsInv, Unused, Kinship, Incoming, Begin, QueueTrackingTypeOK
<1>2. /\ message' = [message EXCEPT ![q] =
             [stage |-> "session", sender |-> None, since |-> now, parent |-> None]]
      /\ now' = now /\ begun' = begun + 1
      /\ UNCHANGED <<lost, known, counted, stolen, authedQueues, queueSenders, queueCallCnt>>
      /\ event' = Nothing /\ Muddle(q, Remembered(q) \/ Expected(q))
  BY DEF Incoming, Begin, Unparsed, parser
<1>3. QueueTrackingTypeOK'
  BY <1>2 DEF TrackingInv, MapsInv, QueueTrackingTypeOK, Muddle
<1>4. Unmuddled' /\ LoginKept' /\ QueuedKept' /\ Consumed'
  BY <1>1, <1>2 DEF TrackingInv, MapsInv, QueueTrackingTypeOK, Unmuddled, LoginKept,
     QueuedKept, Consumed, Alive, Own, Age, Muddle, Remembered, Expected
<1>5. Uncounted' /\ Unused' /\ CountedOnce'
  BY <1>1, <1>2 DEF TrackingInv, MapsInv, QueueTrackingTypeOK, Uncounted, Unused,
     CountedOnce, Alive, Expected, Muddle
<1>6. Kinship'
  BY <1>1, <1>2 DEF TrackingInv, MapsInv, QueueTrackingTypeOK, Kinship, Alive
<1>7. BlameIsDeserved' /\ SendersAreKnown'
  BY <1>2, NothingSaid
<1> QED
  BY <1>3, <1>4, <1>5, <1>6, <1>7 DEF TrackingInv, MapsInv

LEMMA ReinjectStep ==
    ASSUME TrackingInv, NEW q \in QueueIds, NEW n \in QueueIds, Reinject(q, n)
    PROVE  TrackingInv'
<1>1. /\ ~Alive(n) /\ known[n] = "no" /\ Alive(q) /\ n # q
      /\ \A m \in QueueIds : message[m].parent # n
  BY DEF TrackingInv, MapsInv, Unused, Kinship, Reinject, Begin, QueueTrackingTypeOK, Alive
<1>2. /\ message' = [message EXCEPT ![n] = [stage |-> "session", sender |-> message[q].sender,
                                            since |-> message[q].since, parent |-> q]]
      /\ now' = now /\ begun' = begun + 1 /\ counted' = [counted EXCEPT ![n] = counted[q]]
      /\ UNCHANGED <<lost, known, stolen, authedQueues, queueSenders, queueCallCnt>>
      /\ event' = Nothing /\ Muddle(n, Remembered(n) \/ Expected(n) \/ counted[q] > 1)
  BY DEF Reinject, Begin, Unparsed, parser
<1>3. QueueTrackingTypeOK'
  BY <1>2 DEF TrackingInv, MapsInv, QueueTrackingTypeOK, Muddle
<1>4. Unmuddled' /\ LoginKept' /\ QueuedKept' /\ Consumed'
  BY <1>1, <1>2 DEF TrackingInv, MapsInv, QueueTrackingTypeOK, Unmuddled, LoginKept,
     QueuedKept, Consumed, Alive, Own, Age, Muddle, Remembered, Expected
<1>5. Uncounted' /\ Unused' /\ CountedOnce'
  BY <1>1, <1>2 DEF TrackingInv, MapsInv, QueueTrackingTypeOK, Uncounted, Unused,
     CountedOnce, Alive, Expected, Muddle
<1>6. Kinship'
  BY <1>1, <1>2 DEF TrackingInv, MapsInv, QueueTrackingTypeOK, Kinship, Alive
<1>7. BlameIsDeserved' /\ SendersAreKnown'
  BY <1>2, NothingSaid
<1> QED
  BY <1>3, <1>4, <1>5, <1>6, <1>7 DEF TrackingInv, MapsInv

LEMMA FinishStep ==
    ASSUME TrackingInv, NEW q \in QueueIds, Finish(q)
    PROVE  TrackingInv'
<1>1. /\ message' = [n \in QueueIds |-> IF n = q THEN Free
                      ELSE IF message[n].parent = q THEN [message[n] EXCEPT !.parent = None]
                      ELSE message[n]]
      /\ known' = [known EXCEPT ![q] = "no"] /\ counted' = [counted EXCEPT ![q] = 0]
      /\ muddled' = muddled \ {q} /\ stolen' = stolen \ {q} /\ event' = Nothing
      /\ UNCHANGED <<now, begun, lost, authedQueues, queueSenders, queueCallCnt>>
  BY DEF Finish, Muddle, Unparsed, parser
<1>2. QueueTrackingTypeOK'
  <2>1. /\ message' \in [QueueIds -> [stage : {"free", "session", "queued"},
             sender : Accounts \cup {None}, since : Nat, parent : QueueIds \cup {None}]]
    BY <1>1 DEF TrackingInv, MapsInv, QueueTrackingTypeOK, Free
  <2>2. /\ known' \in [QueueIds -> {"no", "login", "queued"}] /\ counted' \in [QueueIds -> Nat]
        /\ muddled' \subseteq QueueIds /\ stolen' \subseteq QueueIds
    BY <1>1 DEF TrackingInv, MapsInv, QueueTrackingTypeOK
  <2> QED
    BY <1>1, <2>1, <2>2 DEF TrackingInv, MapsInv, QueueTrackingTypeOK
<1>3. /\ message'[q] = Free
      /\ \A n \in QueueIds \ {q} : /\ message'[n].stage = message[n].stage
                                   /\ message'[n].sender = message[n].sender
                                   /\ message'[n].since = message[n].since
                                   /\ message'[n].parent \in {None, message[n].parent}
                                   /\ message'[n].parent # q
  BY <1>1 DEF TrackingInv, MapsInv, QueueTrackingTypeOK
<1>4. Unmuddled' /\ LoginKept' /\ QueuedKept' /\ Consumed'
  BY <1>1, <1>3 DEF TrackingInv, MapsInv, QueueTrackingTypeOK, Unmuddled, LoginKept,
     QueuedKept, Consumed, Alive, Own, Age, Free
<1>5. Uncounted' /\ Unused' /\ CountedOnce'
  BY <1>1, <1>3 DEF TrackingInv, MapsInv, QueueTrackingTypeOK, Uncounted, Unused,
     CountedOnce, Alive, Expected, Free
<1>6. Kinship'
  BY <1>1, <1>3 DEF TrackingInv, MapsInv, QueueTrackingTypeOK, Kinship, Alive, Free
<1>7. BlameIsDeserved' /\ SendersAreKnown'
  BY <1>1, NothingSaid
<1> QED
  BY <1>2, <1>4, <1>5, <1>6, <1>7 DEF TrackingInv, MapsInv

-----------------------------------------------------------------------------
(* Lines about a message *)

\* A step that touches neither the messages nor what is remembered of them.
LEMMA UntouchedStep ==
    ASSUME TrackingInv, lost' \in Nat,
           UNCHANGED <<server, authedQueues, queueSenders, queueCallCnt, known, counted, muddled, stolen>>,
           event' = Nothing
    PROVE  TrackingInv'
<1>1. QueueTrackingTypeOK'
  BY DEF TrackingInv, MapsInv, QueueTrackingTypeOK, server
<1>2. Unmuddled' /\ LoginKept' /\ QueuedKept' /\ Consumed' /\ Uncounted' /\ Unused' /\ Kinship'
      /\ CountedOnce'
  BY DEF TrackingInv, MapsInv, Unmuddled, LoginKept, QueuedKept, Consumed, Uncounted, Unused,
         Kinship, CountedOnce, Alive, Own, Age, Expected, server
<1>3. BlameIsDeserved' /\ SendersAreKnown'
  BY NothingSaid
<1> QED
  BY <1>1, <1>2, <1>3 DEF TrackingInv, MapsInv

LEMMA RecipientStep ==
    ASSUME TrackingInv, NEW q \in QueueIds, Recipient(q)
    PROVE  TrackingInv'
<1>1. CASE Lose
  BY <1>1, UntouchedStep DEF Recipient, Lose, Unparsed, parser, TrackingInv, MapsInv,
                             QueueTrackingTypeOK
<1>2. CASE ParseRcpt(q) /\ UNCHANGED lost
  <2>1. /\ event' = [kind |-> "rcpt", qid |-> q, account |-> authedQueues[q].account,
                     known |-> known[q]]
        /\ UNCHANGED <<now, message, begun, lost, authedQueues, queueSenders, queueCallCnt,
                       known, counted, muddled, stolen>>
    BY <1>2 DEF Recipient, ParseRcpt, Emit, parser, server
  <2>2. QueueTrackingTypeOK'
    BY <2>1 DEF TrackingInv, MapsInv, QueueTrackingTypeOK
  <2>3. Unmuddled' /\ LoginKept' /\ QueuedKept' /\ Consumed' /\ Uncounted' /\ Unused' /\ Kinship'
        /\ CountedOnce'
    BY <2>1 DEF TrackingInv, MapsInv, Unmuddled, LoginKept, QueuedKept, Consumed, Uncounted, Unused,
         Kinship, CountedOnce, Alive, Own, Age, Expected
  <2>4. Alive(q)
    BY DEF Recipient, Alive
  <2>5. BlameIsDeserved'
    BY <2>1, <2>4 DEF BlameIsDeserved, Sender, TrackingInv, MapsInv, Unmuddled, Own, NoEntry
  <2>6. known[q] = "login" /\ Age(q) <= QueueTTL => authedQueues[q].account = message[q].sender
    BY DEF TrackingInv, MapsInv, LoginKept, Own, Age, QueueTrackingTypeOK
  <2>7. SendersAreKnown'
    BY <2>1, <2>6, SaysRight DEF Failures
  <2> QED
    BY <2>2, <2>3, <2>5, <2>7 DEF TrackingInv, MapsInv
<1> QED
  BY <1>1, <1>2 DEF Recipient

LEMMA RestartStep == ASSUME TrackingInv, Restart PROVE TrackingInv'
<1>1. QueueTrackingTypeOK'
  BY DEF Restart, server, TrackingInv, MapsInv, QueueTrackingTypeOK, Entries
<1>2. Unmuddled' /\ LoginKept' /\ QueuedKept' /\ Consumed' /\ Uncounted' /\ Unused' /\ Kinship'
      /\ CountedOnce'
  BY DEF TrackingInv, MapsInv, Unmuddled, LoginKept, QueuedKept, Consumed, Uncounted, Unused,
         Kinship, CountedOnce, Alive, Own, Age, Expected, server, Restart, QueueTrackingTypeOK
<1>3. BlameIsDeserved' /\ SendersAreKnown'
  BY NothingSaid DEF Restart
<1> QED
  BY <1>1, <1>2, <1>3 DEF TrackingInv, MapsInv

LEMMA TickStep == ASSUME TrackingInv, Tick PROVE TrackingInv'
<1>1. /\ now' = now + 1 /\ event' = Nothing
      /\ UNCHANGED <<message, begun, lost, authedQueues, queueSenders, queueCallCnt,
                     known, counted, muddled, stolen>>
  BY DEF Tick, Unparsed, parser
<1>2. QueueTrackingTypeOK'
  BY <1>1 DEF TrackingInv, MapsInv, QueueTrackingTypeOK
<1>3. \A q \in QueueIds : now - message[q].since <= now' - message'[q].since
  BY <1>1 DEF TrackingInv, MapsInv, QueueTrackingTypeOK
<1>4. Unmuddled' /\ Consumed' /\ Uncounted' /\ Unused' /\ Kinship' /\ CountedOnce'
  BY <1>1 DEF TrackingInv, MapsInv, Unmuddled, Consumed, Uncounted, Unused,
         Kinship, CountedOnce, Alive, Own, Expected
<1>5. LoginKept' /\ QueuedKept'
  BY <1>1 DEF TrackingInv, MapsInv, LoginKept, QueuedKept, Own, Age, QueueTrackingTypeOK
<1>6. BlameIsDeserved' /\ SendersAreKnown'
  BY <1>1, NothingSaid
<1> QED
  BY <1>2, <1>4, <1>5, <1>6 DEF TrackingInv, MapsInv

\* The queue manager's line takes the login from one map and leaves the sender
\* in the other.
LEMMA ActivateStep ==
    ASSUME TrackingInv, NEW q \in QueueIds, Activate(q)
    PROVE  TrackingInv'
<1>1. /\ Alive(q) /\ message' = [message EXCEPT ![q].stage = "queued"]
      /\ now' = now /\ begun' = begun
  BY DEF Activate
<1>2. \A n \in QueueIds : /\ message'[n].sender = message[n].sender
                          /\ message'[n].since = message[n].since
                          /\ message'[n].parent = message[n].parent
                          /\ message'[n].stage # "free" <=> message[n].stage # "free"
  BY <1>1 DEF TrackingInv, MapsInv, QueueTrackingTypeOK, Alive
<1>3. CASE Lose /\ UNCHANGED <<known, counted, muddled, stolen>>
  <2>1. QueueTrackingTypeOK'
    BY <1>1, <1>3 DEF TrackingInv, MapsInv, QueueTrackingTypeOK, Lose, Unparsed, parser
  <2>2. Unmuddled' /\ LoginKept' /\ QueuedKept' /\ Consumed' /\ Uncounted' /\ Unused' /\ Kinship'
        /\ CountedOnce'
    BY <1>1, <1>2, <1>3 DEF TrackingInv, MapsInv, QueueTrackingTypeOK, Unmuddled, LoginKept,
       QueuedKept, Consumed, Uncounted, Unused, Kinship, CountedOnce, Alive, Own, Age, Expected,
       Lose, Unparsed, parser
  <2>3. BlameIsDeserved' /\ SendersAreKnown'
    BY <1>3, NothingSaid DEF Lose, Unparsed
  <2> QED
    BY <2>1, <2>2, <2>3 DEF TrackingInv, MapsInv
<1>4. CASE /\ ParseQmgr(q) /\ UNCHANGED lost
           /\ known' = [known EXCEPT ![q] = IF @ = "login"
                            THEN IF Age(q) <= QueueTTL THEN "queued" ELSE "no" ELSE @]
           /\ counted' = [counted EXCEPT ![q] = IF Expected(q) THEN @ + 1 ELSE @]
           /\ muddled' = IF known[q] = "login" /\ Expected(q) THEN muddled \ {q} ELSE muddled
           /\ stolen' = IF Expected(q) THEN stolen \ {q} ELSE stolen
  <2>0. /\ known' \in [QueueIds -> {"no", "login", "queued"}]
        /\ counted' \in [QueueIds -> Nat] /\ muddled' \subseteq QueueIds /\ lost' = lost
        /\ \A n \in QueueIds : n # q => known'[n] = known[n] /\ counted'[n] = counted[n]
        /\ known'[q] \in {"no", "queued"}
        /\ known'[q] = "queued" => \/ known[q] = "queued"
                                   \/ known[q] = "login" /\ now - message[q].since <= QueueTTL
        /\ known[q] = "queued" => known'[q] = "queued"
        /\ Expected(q) => counted'[q] = counted[q] + 1
        /\ ~Expected(q) => counted'[q] = counted[q]
        /\ known[q] = "login" /\ Expected(q) => muddled' = muddled \ {q}
        /\ ~(known[q] = "login" /\ Expected(q)) => muddled' = muddled
        /\ stolen' = IF Expected(q) THEN stolen \ {q} ELSE stolen
        /\ stolen' \subseteq QueueIds
    BY <1>4 DEF TrackingInv, MapsInv, QueueTrackingTypeOK, Age
  <2> DEFINE rest == [authedQueues EXCEPT ![q] = NoEntry]
  <2>1. rest \in [QueueIds -> Entries] /\ queueSenders \in [QueueIds -> Entries]
        /\ authedQueues \in [QueueIds -> Entries]
    BY DEF TrackingInv, MapsInv, QueueTrackingTypeOK, Entries
  <2>2. /\ authedQueues' \in [QueueIds -> Entries]
        /\ authedQueues'[q] = NoEntry
        /\ \A n \in QueueIds : authedQueues'[n] \in {NoEntry, authedQueues[n]}
        /\ \A n \in QueueIds \ {q} :
              now - authedQueues[n].ts <= QueueTTL => authedQueues'[n] = authedQueues[n]
    <3>1. authedQueues' = Kept(rest, QueueTTL)
      BY <1>4 DEF ParseQmgr
    <3>2. QueueTTL \in Nat /\ QueueTrackingTypeOK
      BY QueueTrackingAssumption DEF TrackingInv, MapsInv
    <3>3. rest[q] = NoEntry /\ \A n \in QueueIds \ {q} : rest[n] = authedQueues[n]
      BY <2>1
    <3>4. /\ Kept(rest, QueueTTL) \in [QueueIds -> Entries]
          /\ \A n \in QueueIds :
                /\ Kept(rest, QueueTTL)[n] \in {NoEntry, rest[n]}
                /\ now - rest[n].ts <= QueueTTL => Kept(rest, QueueTTL)[n] = rest[n]
      <4> HIDE DEF rest
      <4> QED
        BY <2>1, <3>2, KeptForgets
    <3> HIDE DEF rest
    <3> QED
      BY <3>1, <3>3, <3>4
  <2>3. /\ queueSenders' \in [QueueIds -> Entries]
        /\ Expected(q) => queueSenders'[q] = authedQueues[q]
        /\ \A n \in QueueIds : ~(n = q /\ Expected(q)) =>
              /\ queueSenders'[n] \in {NoEntry, queueSenders[n]}
              /\ now - queueSenders[n].ts <= SenderTTL => queueSenders'[n] = queueSenders[n]
    BY <1>4, <2>1, KeptForgets DEF ParseQmgr, TrackingInv, MapsInv, Expected
  <2> HIDE DEF rest
  <2>4. QueueTrackingTypeOK'
    <3>1. queueCallCnt' \in 0..(PruneEvery - 1) /\ event'.qid = q
      BY <1>4 DEF TrackingInv, MapsInv, QueueTrackingTypeOK, ParseQmgr, Count, Due, Emit
    <3> QED
      <4>1. message' \in [QueueIds -> [stage : {"free", "session", "queued"},
               sender : Accounts \cup {None}, since : Nat, parent : QueueIds \cup {None}]]
        BY <1>1 DEF TrackingInv, MapsInv, QueueTrackingTypeOK
      <4>2. now' \in Nat /\ begun' \in Nat /\ lost' \in Nat
        BY <1>1, <2>0 DEF TrackingInv, MapsInv, QueueTrackingTypeOK
      <4> QED
        BY <2>0, <2>2, <2>3, <3>1, <4>1, <4>2 DEF QueueTrackingTypeOK
  <2>5. Unmuddled'
    <3> SUFFICES ASSUME NEW n \in QueueIds, Alive(n), n \notin muddled'
                 PROVE  authedQueues'[n] \in {NoEntry, Own(n)} /\ queueSenders'[n] \in {NoEntry, Own(n)}
      BY <1>2 DEF Unmuddled, Own, Alive
    <3>1. CASE n = q /\ known[q] = "login" /\ Expected(q)
      BY <2>2, <2>3, <3>1 DEF TrackingInv, MapsInv, LoginKept, Expected
    <3>2. CASE ~(n = q /\ known[q] = "login" /\ Expected(q))
      <4>1. n \notin muddled
        BY <2>0, <3>2
      <4> QED
        BY <2>2, <2>3, <4>1 DEF TrackingInv, MapsInv, Unmuddled, Expected
    <3> QED
      BY <3>1, <3>2
  <2>6. LoginKept'
    <3> SUFFICES ASSUME NEW n \in QueueIds, known'[n] = "login"
                 PROVE  /\ authedQueues'[n] \in {NoEntry, Own(n)} /\ message[n].sender # None
                        /\ now - message[n].since <= QueueTTL => authedQueues'[n] = Own(n)
      BY <1>1, <1>2 DEF LoginKept, Own, Age
    <3>1. n # q /\ known[n] = "login"
      BY <2>0
    <3>2. Own(n).ts = message[n].since
      BY DEF Own
    <3> QED
      BY <2>2, <3>1, <3>2 DEF TrackingInv, MapsInv, LoginKept, Age
  <2>7. QueuedKept'
    <3> SUFFICES ASSUME NEW n \in QueueIds, known'[n] = "queued", n \notin stolen',
                        now - message[n].since <= SenderTTL
                 PROVE  queueSenders'[n] = Own(n)
      <4>1. \A n \in QueueIds : known'[n] = "queued" => known[n] \in {"login", "queued"}
        BY <2>0
      <4>2. \A n \in QueueIds : known'[n] = "queued" => message[n].sender # None
        BY <4>1 DEF TrackingInv, MapsInv, LoginKept, QueuedKept, Age
      <4>3. \A n \in QueueIds : message'[n].sender = message[n].sender
                               /\ message'[n].since = message[n].since
        BY <1>2
      <4> QED
        BY <1>1, <4>2, <4>3 DEF QueuedKept, Own, Age
    <3>1. CASE n = q /\ Expected(q)
      <4>1. known[q] = "login" /\ now - message[q].since <= QueueTTL
        BY <2>0, <3>1 DEF TrackingInv, MapsInv, Consumed, Expected
      <4> QED
        BY <2>3, <3>1, <4>1 DEF TrackingInv, MapsInv, LoginKept, Age
    <3>2. CASE ~(n = q /\ Expected(q))
      <4>1. known[n] = "queued"
        <5>1. CASE n # q
          BY <2>0, <5>1
        <5>2. CASE n = q /\ known[q] = "login" /\ now - message[q].since <= QueueTTL
          <6>1. authedQueues[q] = Own(q) /\ authedQueues[q] = NoEntry
            BY <3>2, <5>2 DEF TrackingInv, MapsInv, LoginKept, Age, Expected
          <6>2. message[q].sender = None
            BY <6>1 DEF Own, NoEntry
          <6> QED
            BY <5>2, <6>2 DEF TrackingInv, MapsInv, LoginKept
        <5> QED
          BY <2>0, <5>1, <5>2
      <4>2. queueSenders[n] = Own(n) /\ Own(n).ts = message[n].since
        BY <2>0, <3>2, <4>1 DEF TrackingInv, MapsInv, QueuedKept, Own, Age
      <4> QED
        BY <2>3, <3>2, <4>2
    <3> QED
      BY <3>1, <3>2
  <2>8. Consumed'
    BY <2>0, <2>2 DEF TrackingInv, MapsInv, Consumed
  <2>9. Uncounted' /\ CountedOnce'
    <3>1. ASSUME NEW n \in QueueIds, (Expected(n))', n \notin muddled' \/ known'[n] = "login"
          PROVE  counted'[n] = 0
      <4>1. n # q /\ Expected(n)
        BY <2>2, <3>1 DEF Expected
      <4> QED
        BY <2>0, <3>1, <4>1 DEF TrackingInv, MapsInv, Uncounted
    <3>2. ASSUME NEW n \in QueueIds, counted'[n] > 1 PROVE n \in muddled'
      <4>1. CASE n = q /\ Expected(q)
        BY <2>0, <3>2, <4>1 DEF TrackingInv, MapsInv, Uncounted, QueueTrackingTypeOK
      <4>2. CASE ~(n = q /\ Expected(q))
        BY <2>0, <3>2, <4>2 DEF TrackingInv, MapsInv, CountedOnce
      <4> QED
        BY <4>1, <4>2
    <3> QED
      BY <3>1, <3>2 DEF Uncounted, CountedOnce
  <2>10. Unused' /\ Kinship'
    <3>1. \A n \in QueueIds : /\ known'[n] = "login" => known[n] = "login"
                              /\ known'[n] # "no" => known[n] # "no"
                              /\ known[n] = "queued" => known'[n] = "queued"
      BY <2>0
    <3>2. Unused'
      BY <1>1, <1>2, <2>0, <3>1 DEF TrackingInv, MapsInv, Unused, Alive
    <3>3. Kinship'
      <4> SUFFICES ASSUME NEW n \in QueueIds, message[n].parent # None
                   PROVE  /\ Alive(n) /\ Alive(message[n].parent)
                          /\ message[n].parent # n /\ known'[n] # "login"
                          /\ known'[n] = "queued" => known'[message[n].parent] = "queued"
                          /\ message[message[n].parent].sender = message[n].sender
                          /\ message[message[n].parent].since = message[n].since
        <5>1. \A n \in QueueIds : message[n].parent \in QueueIds \cup {None}
          BY DEF TrackingInv, MapsInv, QueueTrackingTypeOK
        <5> QED
          BY <1>2, <5>1 DEF Kinship, Alive
      <4>1. message[n].parent \in QueueIds
        BY DEF TrackingInv, MapsInv, QueueTrackingTypeOK
      <4>2. known'[n] = "queued" => known[n] = "queued"
        BY <2>0, <3>1 DEF TrackingInv, MapsInv, Kinship
      <4> QED
        BY <3>1, <4>1, <4>2 DEF TrackingInv, MapsInv, Kinship
    <3> QED
      BY <3>2, <3>3
  <2>11. event' = [kind |-> "qmgr", qid |-> q, account |-> authedQueues[q].account,
                   known |-> known[q]]
    BY <1>4 DEF ParseQmgr, Emit
  <2>12. BlameIsDeserved'
    <3>1. CASE known[q] = "login" /\ Expected(q)
      <4>1. authedQueues[q].account = message[q].sender
        <5>1. authedQueues[q] = Own(q)
          BY <3>1 DEF TrackingInv, MapsInv, LoginKept, Expected, Age
        <5> QED
          BY <5>1 DEF Own
      <4> QED
        BY <1>2, <2>11, <4>1 DEF BlameIsDeserved, Sender
    <3>2. CASE ~(known[q] = "login" /\ Expected(q))
      BY <1>1, <1>2, <2>0, <2>11, <3>2 DEF BlameIsDeserved, Sender, TrackingInv, MapsInv, Unmuddled,
         Own, NoEntry
    <3> QED
      BY <3>1, <3>2
  <2>13. known[q] = "login" /\ Age(q) <= QueueTTL => authedQueues[q].account = message[q].sender
    BY DEF TrackingInv, MapsInv, LoginKept, Own, Age, QueueTrackingTypeOK
  <2>14. SendersAreKnown'
    BY <1>1, <1>2, <2>11, <2>13, SaysRight DEF Failures
  <2> QED
    BY <2>4, <2>5, <2>6, <2>7, <2>8, <2>9, <2>10, <2>12, <2>14 DEF TrackingInv, MapsInv
<1> QED
  BY <1>3, <1>4 DEF Activate

\* What a delivery leaves of the maps, but for the id that it names.
LEMMA DeliveryForgets ==
    ASSUME TrackingInv, NEW q \in QueueIds, NEW status, NEW next \in QueueIds \cup {None},
           ParseDelivery(q, status, next)
    PROVE  /\ authedQueues' \in [QueueIds -> Entries]
           /\ queueSenders' \in [QueueIds -> Entries]
           /\ queueCallCnt' \in 0..(PruneEvery - 1)
           /\ \A n \in QueueIds :
                 /\ authedQueues'[n] \in {NoEntry, authedQueues[n]}
                 /\ now - authedQueues[n].ts <= QueueTTL => authedQueues'[n] = authedQueues[n]
           /\ \A n \in QueueIds :
                 \/ /\ n = next /\ status = "sent" /\ next # q /\ queueSenders[q] # NoEntry
                    /\ queueSenders'[n] = queueSenders[q]
                 \/ /\ queueSenders'[n] \in {NoEntry, queueSenders[n]}
                    /\ now - queueSenders[n].ts <= SenderTTL => queueSenders'[n] = queueSenders[n]
           /\ /\ next \in QueueIds /\ status = "sent" /\ next # q /\ queueSenders[q] # NoEntry
              /\ now - queueSenders[q].ts <= SenderTTL
              => queueSenders'[next] = queueSenders[q]
           /\ \E account \in {None, queueSenders[q].account} :
                 /\ event' = [kind |-> status, qid |-> q, account |-> account, known |-> known[q]]
                 /\ now - queueSenders[q].ts <= SenderTTL => account = queueSenders[q].account
<1> DEFINE senders == Kept(queueSenders, SenderTTL)
<1>1. authedQueues \in [QueueIds -> Entries] /\ queueSenders \in [QueueIds -> Entries]
      /\ QueueTrackingTypeOK
  BY DEF TrackingInv, MapsInv, QueueTrackingTypeOK
<1>2. /\ authedQueues' \in [QueueIds -> Entries]
      /\ \A n \in QueueIds :
            /\ authedQueues'[n] \in {NoEntry, authedQueues[n]}
            /\ now - authedQueues[n].ts <= QueueTTL => authedQueues'[n] = authedQueues[n]
  BY <1>1, KeptForgets DEF ParseDelivery
<1>3. /\ senders \in [QueueIds -> Entries]
      /\ \A n \in QueueIds :
            /\ senders[n] \in {NoEntry, queueSenders[n]}
            /\ now - queueSenders[n].ts <= SenderTTL => senders[n] = queueSenders[n]
  BY <1>1, KeptForgets
<1>4. /\ queueSenders' = IF status = "sent" /\ next \notin {None, q} /\ senders[q] # NoEntry
                         THEN [senders EXCEPT ![next] = senders[q]] ELSE senders
      /\ event' = [kind |-> status, qid |-> q, account |-> senders[q].account, known |-> known[q]]
  BY DEF ParseDelivery, Emit
<1>5. queueCallCnt' \in 0..(PruneEvery - 1)
  BY <1>1 DEF ParseDelivery, Count, Due, QueueTrackingTypeOK
<1> HIDE DEF senders
<1>6. queueSenders' \in [QueueIds -> Entries]
  BY <1>3, <1>4
<1>7. senders[q].account \in {None, queueSenders[q].account}
  BY <1>3 DEF NoEntry
<1> QED
  BY <1>2, <1>3, <1>4, <1>5, <1>6, <1>7

LEMMA FailStep ==
    ASSUME TrackingInv, NEW q \in QueueIds, NEW status \in Failures, Fail(q, status)
    PROVE  TrackingInv'
<1>1. CASE Lose
  BY <1>1, UntouchedStep DEF Fail, Lose, Unparsed, parser, TrackingInv, MapsInv,
                             QueueTrackingTypeOK
<1>2. CASE ParseDelivery(q, status, None) /\ UNCHANGED lost
  <2>1. /\ UNCHANGED <<now, message, begun, lost, known, counted, muddled, stolen>>
        /\ status # "sent" /\ status \in {"bounced", "deferred"} /\ Alive(q)
    BY <1>2 DEF Fail, server, Failures, Alive
  <2>2. /\ authedQueues' \in [QueueIds -> Entries] /\ queueSenders' \in [QueueIds -> Entries]
        /\ queueCallCnt' \in 0..(PruneEvery - 1)
        /\ \A n \in QueueIds :
              /\ authedQueues'[n] \in {NoEntry, authedQueues[n]}
              /\ now - authedQueues[n].ts <= QueueTTL => authedQueues'[n] = authedQueues[n]
              /\ queueSenders'[n] \in {NoEntry, queueSenders[n]}
              /\ now - queueSenders[n].ts <= SenderTTL => queueSenders'[n] = queueSenders[n]
    BY <1>2, <2>1, DeliveryForgets
  <2>3. PICK account \in {None, queueSenders[q].account} :
           /\ event' = [kind |-> status, qid |-> q, account |-> account, known |-> known[q]]
           /\ now - queueSenders[q].ts <= SenderTTL => account = queueSenders[q].account
    BY <1>2, DeliveryForgets
  <2>4. QueueTrackingTypeOK'
    BY <2>1, <2>2, <2>3 DEF TrackingInv, MapsInv, QueueTrackingTypeOK
  <2>5. Unmuddled' /\ Consumed' /\ Uncounted' /\ Unused' /\ Kinship' /\ CountedOnce'
    BY <2>1, <2>2 DEF TrackingInv, MapsInv, Unmuddled, Consumed, Uncounted, Unused, Kinship,
       CountedOnce, Alive, Own, Expected
  <2>6. \A n \in QueueIds : Own(n).ts = message[n].since
    BY DEF Own
  <2>7. LoginKept' /\ QueuedKept'
    BY <2>1, <2>2, <2>6 DEF TrackingInv, MapsInv, LoginKept, QueuedKept, Own, Age
  <2>8. BlameIsDeserved'
    BY <2>1, <2>3 DEF BlameIsDeserved, Sender, TrackingInv, MapsInv, Unmuddled, Own, NoEntry
  <2>9. known[q] = "queued" /\ Age(q) <= SenderTTL /\ q \notin stolen
        => account = message[q].sender
    BY <2>3 DEF TrackingInv, MapsInv, QueuedKept, Own, Age, QueueTrackingTypeOK
  <2>10. SendersAreKnown'
    BY <2>1, <2>3, <2>9, SaysRight
  <2> QED
    BY <2>4, <2>5, <2>7, <2>8, <2>10 DEF TrackingInv, MapsInv
<1> QED
  BY <1>1, <1>2 DEF Fail

\* A relayed message takes its sender along; the id of another message that is
\* named is muddled and its sender stolen.
LEMMA SentStep ==
    ASSUME TrackingInv, NEW q \in QueueIds, NEW n \in QueueIds \cup {None}, Sent(q, n)
    PROVE  TrackingInv'
<1> DEFINE child == n # None /\ message[n].parent = q
           foreign == n \notin {None, q} /\ Alive(n) /\ ~child /\ Remembered(q)
           misled == foreign \/ (child /\ q \in muddled /\ Remembered(q))
           tells == child /\ ~Expected(n) /\ known[q] = "queued" /\ Age(q) <= SenderTTL
<1>1. CASE Lose /\ UNCHANGED <<known, muddled, stolen>>
  BY <1>1, UntouchedStep DEF Sent, Lose, Unparsed, parser, TrackingInv, MapsInv,
                             QueueTrackingTypeOK
<1>2. CASE /\ ParseDelivery(q, "sent", n) /\ UNCHANGED lost
           /\ muddled' = IF misled THEN muddled \cup {n} ELSE muddled
           /\ known' = IF tells THEN [known EXCEPT ![n] = "queued"] ELSE known
           /\ stolen' = IF foreign \/ (child /\ q \in stolen) THEN stolen \cup {n}
                        ELSE IF tells THEN stolen \ {n} ELSE stolen
  <2>1. UNCHANGED <<now, message, begun, lost, counted>> /\ Alive(q)
    BY <1>2 DEF Sent, server, Alive
  <2>2. /\ authedQueues' \in [QueueIds -> Entries] /\ queueSenders' \in [QueueIds -> Entries]
        /\ queueCallCnt' \in 0..(PruneEvery - 1)
        /\ \A m \in QueueIds :
              /\ authedQueues'[m] \in {NoEntry, authedQueues[m]}
              /\ now - authedQueues[m].ts <= QueueTTL => authedQueues'[m] = authedQueues[m]
    BY <1>2, DeliveryForgets
  <2>3. \A m \in QueueIds :
           \/ m = n /\ n # q /\ Remembered(q) /\ queueSenders'[m] = queueSenders[q]
           \/ /\ queueSenders'[m] \in {NoEntry, queueSenders[m]}
              /\ now - queueSenders[m].ts <= SenderTTL => queueSenders'[m] = queueSenders[m]
    BY <1>2, DeliveryForgets DEF Remembered
  <2>4. /\ n \in QueueIds /\ n # q /\ Remembered(q) /\ now - queueSenders[q].ts <= SenderTTL
        => queueSenders'[n] = queueSenders[q]
    BY <1>2, DeliveryForgets DEF Remembered
  <2>5. PICK account \in {None, queueSenders[q].account} :
           /\ event' = [kind |-> "sent", qid |-> q, account |-> account, known |-> known[q]]
           /\ now - queueSenders[q].ts <= SenderTTL => account = queueSenders[q].account
    BY <1>2, DeliveryForgets
  <2>6. child => /\ n \in QueueIds /\ n # q /\ Alive(n) /\ known[n] # "login" /\ Own(n) = Own(q)
    <3> SUFFICES ASSUME child
                 PROVE  n \in QueueIds /\ n # q /\ Alive(n) /\ known[n] # "login" /\ Own(n) = Own(q)
      OBVIOUS
    <3>1. n \in QueueIds /\ message[n].parent = q /\ q # None
      OBVIOUS
    <3>2. /\ Alive(n) /\ n # q /\ known[n] # "login"
          /\ message[q].sender = message[n].sender /\ message[q].since = message[n].since
      BY <3>1 DEF TrackingInv, MapsInv, Kinship
    <3>3. Own(n) = Own(q)
      BY <3>2, Zenon DEF Own
    <3> QED
      BY <3>1, <3>2, <3>3
  <2>7. \A m \in QueueIds : Own(m).ts = message[m].since
    BY DEF Own
  <2>8. /\ muddled' \subseteq QueueIds /\ muddled \subseteq muddled'
        /\ misled => n \in QueueIds /\ n \in muddled'
    <3>1. misled => n \in QueueIds
      OBVIOUS
    <3> HIDE DEF misled
    <3> QED
      BY <1>2, <3>1 DEF TrackingInv, MapsInv, QueueTrackingTypeOK
  <2>9. /\ known' \in [QueueIds -> {"no", "login", "queued"}]
        /\ \A m \in QueueIds : known'[m] = known[m] \/ (m = n /\ known'[m] = "queued" /\ tells)
        /\ known'[q] = known[q]
    <3>1. tells => n \in QueueIds /\ n # q
      BY <2>6
    <3>2. known \in [QueueIds -> {"no", "login", "queued"}]
      BY DEF TrackingInv, MapsInv, QueueTrackingTypeOK
    <3> HIDE DEF tells
    <3> QED
      BY <1>2, <3>1, <3>2
  <2> DEFINE taken == foreign \/ (child /\ q \in stolen)
  <2>23. /\ stolen' \subseteq QueueIds
         /\ taken => n \in QueueIds /\ n \in stolen'
         /\ \A m \in QueueIds : m \notin stolen' => m \notin stolen \/ (m = n /\ tells /\ ~taken)
         /\ q \in stolen => q \in stolen'
    <3>1. /\ taken => n \in QueueIds
          /\ tells => n # q
      BY <2>6
    <3>2. stolen \subseteq QueueIds
      BY DEF TrackingInv, MapsInv, QueueTrackingTypeOK
    <3>3. stolen' = IF taken THEN stolen \cup {n} ELSE IF tells THEN stolen \ {n} ELSE stolen
      BY <1>2
    <3> HIDE DEF taken, tells
    <3> QED
      BY <3>1, <3>2, <3>3
  <2>10. Unmuddled'
    <3> SUFFICES ASSUME NEW m \in QueueIds, Alive(m), m \notin muddled'
                 PROVE  authedQueues'[m] \in {NoEntry, Own(m)} /\ queueSenders'[m] \in {NoEntry, Own(m)}
      BY <2>1 DEF Unmuddled, Own, Alive
    <3>1. m \notin muddled /\ (m = n => ~misled)
      BY <2>8
    <3>2. authedQueues[m] \in {NoEntry, Own(m)} /\ queueSenders[m] \in {NoEntry, Own(m)}
      BY <3>1 DEF TrackingInv, MapsInv, Unmuddled
    <3>3. CASE m = n /\ n # q /\ Remembered(q) /\ queueSenders'[m] = queueSenders[q]
      <4>1. child /\ q \notin muddled
        BY <3>1, <3>3
      <4>2. queueSenders[q] \in {NoEntry, Own(q)} /\ Own(n) = Own(q)
        BY <2>1, <2>6, <4>1 DEF TrackingInv, MapsInv, Unmuddled
      <4> QED
        BY <2>2, <3>2, <3>3, <4>2
    <3> QED
      BY <2>2, <2>3, <3>2, <3>3
  <2>11. LoginKept'
    <3> SUFFICES ASSUME NEW m \in QueueIds, known'[m] = "login"
                 PROVE  /\ authedQueues'[m] \in {NoEntry, Own(m)} /\ message[m].sender # None
                        /\ now - message[m].since <= QueueTTL => authedQueues'[m] = Own(m)
      BY <2>1 DEF LoginKept, Own, Age
    <3>1. known[m] = "login"
      BY <2>9
    <3> QED
      BY <2>2, <2>7, <3>1 DEF TrackingInv, MapsInv, LoginKept, Age
  <2>12. QueuedKept'
    <3> SUFFICES ASSUME NEW m \in QueueIds, known'[m] = "queued"
                 PROVE  /\ message[m].sender # None
                        /\ m \notin stolen' /\ now - message[m].since <= SenderTTL
                           => queueSenders'[m] = Own(m)
      BY <2>1 DEF QueuedKept, Own, Age
    <3>1. CASE m = n /\ tells
      <4>1. Own(n) = Own(q) /\ n # q /\ n \in QueueIds
        BY <2>6, <3>1
      <4>2. message[n].sender = message[q].sender /\ message[n].since = message[q].since
        BY <4>1 DEF Own
      <4>3. message[q].sender # None
        BY <3>1 DEF TrackingInv, MapsInv, QueuedKept
      <4>4. ASSUME m \notin stolen' PROVE queueSenders'[m] = Own(m)
        <5>1. q \notin stolen
          BY <2>23, <3>1, <4>4
        <5>2. queueSenders[q] = Own(q)
          BY <3>1, <5>1 DEF TrackingInv, MapsInv, QueuedKept, Age
        <5>3. Remembered(q)
          BY <4>3, <5>2 DEF Own, NoEntry, Remembered
        <5> QED
          BY <2>4, <2>7, <3>1, <4>1, <4>2, <5>2, <5>3 DEF Age
      <4> QED
        BY <3>1, <4>2, <4>3, <4>4
    <3>2. CASE known[m] = "queued" /\ ~(m = n /\ tells)
      <4>1. message[m].sender # None
        BY <3>2 DEF TrackingInv, MapsInv, QueuedKept
      <4>2. ASSUME m \notin stolen', now - message[m].since <= SenderTTL
            PROVE  queueSenders'[m] = Own(m)
        <5>1. m \notin stolen
          BY <2>23, <3>2, <4>2
        <5>2. queueSenders[m] = Own(m)
          BY <3>2, <4>2, <5>1 DEF TrackingInv, MapsInv, QueuedKept, Age
        <5>3. CASE m = n /\ n # q /\ Remembered(q) /\ queueSenders'[m] = queueSenders[q]
          <6>1. Alive(n)
            BY <3>2, <5>3 DEF TrackingInv, MapsInv, Unused
          <6>2. child /\ q \notin stolen
            BY <2>23, <4>2, <5>3, <6>1
          <6>3. known[q] = "queued"
            BY <3>2, <5>3, <6>2 DEF TrackingInv, MapsInv, Kinship
          <6>4. Own(n) = Own(q) /\ message[n].since = message[q].since
            BY <2>6, <6>2 DEF Own
          <6>5. queueSenders[q] = Own(q)
            BY <4>2, <5>3, <6>2, <6>3, <6>4 DEF TrackingInv, MapsInv, QueuedKept, Age
          <6> QED
            BY <5>3, <6>4, <6>5
        <5>4. CASE /\ queueSenders'[m] \in {NoEntry, queueSenders[m]}
                   /\ now - queueSenders[m].ts <= SenderTTL => queueSenders'[m] = queueSenders[m]
          BY <2>7, <4>2, <5>2, <5>4
        <5> QED
          BY <2>3, <5>3, <5>4
      <4> QED
        BY <4>1, <4>2
    <3> QED
      BY <2>9, <3>1, <3>2
  <2>13. Consumed'
    <3> SUFFICES ASSUME NEW m \in QueueIds, known'[m] = "queued" PROVE authedQueues'[m] = NoEntry
      BY DEF Consumed
    <3>1. authedQueues[m] = NoEntry
      BY <2>9 DEF Expected, TrackingInv, MapsInv, Consumed
    <3> QED
      BY <2>2, <3>1
  <2>14. \A m \in QueueIds : (Expected(m))' => Expected(m)
    BY <2>2 DEF Expected
  <2>15. \A m \in QueueIds : known'[m] = "login" => known[m] = "login"
    BY <2>9
  <2>16. Uncounted' /\ CountedOnce'
    BY <2>1, <2>8, <2>14, <2>15 DEF TrackingInv, MapsInv, Uncounted, CountedOnce
  <2>17. Unused'
    <3>1. ASSUME NEW m \in QueueIds, ~(Alive(m))' PROVE known'[m] = "no" /\ counted'[m] = 0
      <4>1. ~Alive(m)
        BY <2>1, <3>1 DEF Alive
      <4> QED
        BY <2>1, <2>6, <2>9, <4>1 DEF TrackingInv, MapsInv, Unused
    <3> QED
      BY <3>1 DEF Unused
  <2>18. Kinship'
    <3> SUFFICES ASSUME NEW m \in QueueIds, message[m].parent # None
                 PROVE  /\ known'[m] # "login"
                        /\ known'[m] = "queued" => known'[message[m].parent] = "queued"
      BY <2>1 DEF TrackingInv, MapsInv, Kinship, Alive
    <3>1. /\ known[m] # "login" /\ message[m].parent \in QueueIds
          /\ known[m] = "queued" => known[message[m].parent] = "queued"
      BY DEF TrackingInv, MapsInv, Kinship, QueueTrackingTypeOK
    <3>2. ASSUME NEW p \in QueueIds, known[p] = "queued" PROVE known'[p] = "queued"
      BY <2>9, <3>2
    <3>3. m = n /\ tells => message[m].parent = q /\ known[q] = "queued"
      OBVIOUS
    <3> HIDE DEF tells
    <3> QED
      BY <2>9, <3>1, <3>2, <3>3
  <2>19. BlameIsDeserved'
    BY <2>1, <2>5, <2>8 DEF BlameIsDeserved, Sender, TrackingInv, MapsInv, Unmuddled, Own, NoEntry
  <2>20. known[q] = "queued" /\ Age(q) <= SenderTTL /\ q \notin stolen
         => account = message[q].sender
    BY <2>5 DEF TrackingInv, MapsInv, QueuedKept, Own, Age, QueueTrackingTypeOK
  <2>21. SendersAreKnown'
    BY <2>1, <2>5, <2>20, <2>23, SaysRight DEF Failures
  <2>22. QueueTrackingTypeOK'
    BY <2>1, <2>2, <2>5, <2>8, <2>9, <2>23, DeliveryForgets, <1>2 DEF TrackingInv, MapsInv, QueueTrackingTypeOK
  <2> QED
    BY <2>10, <2>11, <2>12, <2>13, <2>16, <2>17, <2>18, <2>19, <2>21, <2>22 DEF TrackingInv, MapsInv
<1> QED
  BY <1>1, <1>2 DEF Sent

-----------------------------------------------------------------------------
LEMMA TrackingStep == TrackingInv /\ [Next]_vars => TrackingInv'
<1> SUFFICES ASSUME TrackingInv, [Next]_vars PROVE TrackingInv'
  OBVIOUS
<1>1. ASSUME NEW q \in QueueIds, NEW a \in Accounts, Login(q, a) PROVE TrackingInv'
  BY <1>1, LoginStep
<1>2. ASSUME NEW q \in QueueIds, Incoming(q) \/ Recipient(q) \/ Activate(q) \/ Finish(q)
      PROVE  TrackingInv'
  BY <1>2, IncomingStep, RecipientStep, ActivateStep, FinishStep
<1>3. ASSUME NEW q \in QueueIds, NEW n \in QueueIds, Reinject(q, n) PROVE TrackingInv'
  BY <1>3, ReinjectStep
<1>4. ASSUME NEW q \in QueueIds, NEW status \in Failures, Fail(q, status) PROVE TrackingInv'
  BY <1>4, FailStep
<1>5. ASSUME NEW q \in QueueIds, NEW n \in QueueIds \cup {None}, Sent(q, n) PROVE TrackingInv'
  BY <1>5, SentStep
<1>6. CASE Restart \/ Tick
  BY <1>6, RestartStep, TickStep
<1>7. CASE UNCHANGED vars
  <2>1. /\ UNCHANGED <<now, message, begun, lost, authedQueues, queueSenders, queueCallCnt>>
        /\ UNCHANGED <<event, known, counted, muddled, stolen>>
    BY <1>7 DEF vars, server, parser
  <2>2. QueueTrackingTypeOK' /\ Unmuddled' /\ LoginKept' /\ QueuedKept' /\ Consumed'
        /\ Uncounted' /\ Unused' /\ Kinship' /\ CountedOnce'
    BY <2>1 DEF TrackingInv, MapsInv, QueueTrackingTypeOK, Unmuddled, LoginKept, QueuedKept,
       Consumed, Uncounted, Unused, Kinship, CountedOnce, Alive, Own, Age, Expected
  <2>3. BlameIsDeserved' /\ SendersAreKnown'
    BY <2>1 DEF TrackingInv, BlameIsDeserved, SendersAreKnown, Early, Late, Sender, Age
  <2> QED
    BY <2>2, <2>3 DEF TrackingInv, MapsInv
<1> QED
  BY <1>1, <1>2, <1>3, <1>4, <1>5, <1>6, <1>7 DEF Next

THEOREM TrackingIsConsistent == Spec => []TrackingInv
  BY InitTracking, TrackingStep, PTL DEF Spec

\* Nobody is blamed for a message of somebody else, unless the parser takes it
\* for one that it remembers (parseRcpt, parseQmgr and parseDelivery).
THEOREM NobodyIsBlamedInVain == Spec => []BlameIsDeserved
<1>1. TrackingInv => BlameIsDeserved
  BY DEF TrackingInv
<1> QED
  BY <1>1, TrackingIsConsistent, PTL

\* What the lines have told the parser it still knows, while it is young enough,
\* whatever is purged and whatever ids are used again (pruneQueues, parser.go:378),
\* but for the sender of a message whose id another server named (parser.go:427).
THEOREM SendersStayKnown == Spec => []SendersAreKnown
<1>1. TrackingInv => SendersAreKnown
  BY DEF TrackingInv
<1> QED
  BY <1>1, TrackingIsConsistent, PTL

\* A message counts once, however often the queue manager takes it up and the
\* content filter hands it back, unless the parser takes it for one that it
\* remembers (parser.go:341).
THEOREM MessagesCountOnce == Spec => []CountedOnce
<1>1. TrackingInv => CountedOnce
  BY DEF TrackingInv, MapsInv
<1> QED
  BY <1>1, TrackingIsConsistent, PTL
=============================================================================
