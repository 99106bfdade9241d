----------------------------- MODULE EngineProofs -----------------------------
(***************************************************************************)
(* Theorems about the detection engine, for any thresholds, windows, lag   *)
(* and number of events.                                                   *)
(***************************************************************************)
EXTENDS EngineProperties, FiniteSetTheorems, SequenceTheorems, TLAPS

-----------------------------------------------------------------------------
(* trimOld.                                                                *)

LEMMA RecordTime ==
  ASSUME NEW w \in Seq(Entries), NEW i \in 1..Len(w)
  PROVE  w[i].ts \in Int
  <1>1. w[i] \in Entries
    BY ElementOfSeq
  <1> QED BY <1>1 DEF Entries

\* What trimOld drops is an initial part of the window.
LEMMA OldPrefixIsInterval ==
  ASSUME NEW S, NEW w \in Seq(S), NEW c
  PROVE  /\ Cardinality(OldPrefix(w, c)) \in 0..Len(w)
         /\ OldPrefix(w, c) = 1..Cardinality(OldPrefix(w, c))
  <1> DEFINE P == OldPrefix(w, c)
             n == Cardinality(P)
  <1>0. Len(w) \in Nat
    BY LenProperties
  <1>1. Len(w) \in Nat /\ IsFiniteSet(1..Len(w)) /\ Cardinality(1..Len(w)) = Len(w)
    BY <1>0, FS_Interval
  <1>2. P \subseteq 1..Len(w)
    BY DEF OldPrefix
  <1>3. IsFiniteSet(P) /\ n \in Nat /\ n <= Len(w)
    BY <1>1, <1>2, FS_Subset, FS_CardinalityType
  <1>4. P \subseteq 1..n
    <2> SUFFICES ASSUME NEW i \in P PROVE i \in 1..n
      OBVIOUS
    <2>1. i \in Nat /\ i >= 1
      BY <1>1, <1>2
    <2>2. 1..i \subseteq P
      BY <1>1, <1>2, <2>1 DEF OldPrefix
    <2>3. Cardinality(1..i) = i
      BY <2>1, FS_Interval
    <2>4. Cardinality(1..i) <= Cardinality(P)
      BY <1>3, <2>2, FS_Subset
    <2>5. i <= n
      BY <2>3, <2>4
    <2> QED BY <2>1, <2>5, <1>3
  <1>5. IsFiniteSet(1..n) /\ Cardinality(1..n) = n
    BY <1>3, FS_Interval
  <1>6. P = 1..n
    BY <1>3, <1>4, <1>5, FS_Subset
  <1> QED BY <1>1, <1>3, <1>6

\* The window that is left: a suffix whose first record is inside.
LEMMA TrimOldIsSuffix ==
  ASSUME NEW w \in Seq(Entries), NEW c \in Int
  PROVE  \E n \in 0..Len(w) :
            /\ TrimOld(w, c) \in Seq(Entries)
            /\ Len(TrimOld(w, c)) = Len(w) - n
            /\ \A i \in 1..(Len(w) - n) : TrimOld(w, c)[i] = w[n + i]
            /\ \A i \in 1..n : w[i].ts < c
            /\ n < Len(w) => ~(w[n + 1].ts < c)
  <1> DEFINE n == Cardinality(OldPrefix(w, c))
  <1>1. n \in 0..Len(w) /\ OldPrefix(w, c) = 1..n /\ Len(w) \in Nat
    BY OldPrefixIsInterval
  <1>2. TrimOld(w, c) = SubSeq(w, n + 1, Len(w))
    BY DEF TrimOld
  <1>3. /\ TrimOld(w, c) \in Seq(Entries)
        /\ Len(TrimOld(w, c)) = Len(w) - n
        /\ \A i \in 1..(Len(w) - n) : TrimOld(w, c)[i] = w[n + i]
    BY <1>1, <1>2, SubSeqProperties
  <1>4. \A i \in 1..n : w[i].ts < c
    <2> SUFFICES ASSUME NEW i \in 1..n PROVE w[i].ts < c
      OBVIOUS
    <2>1. i \in OldPrefix(w, c) /\ i \in 1..i
      BY <1>1
    <2> QED BY <2>1 DEF OldPrefix
  <1>5. n < Len(w) => ~(w[n + 1].ts < c)
    <2> SUFFICES ASSUME n < Len(w), w[n + 1].ts < c PROVE FALSE
      OBVIOUS
    <2>1. n + 1 \in 1..Len(w) /\ \A j \in 1..(n + 1) : w[j].ts < c
      BY <1>1, <1>4
    <2>2. n + 1 \in OldPrefix(w, c)
      BY <2>1 DEF OldPrefix
    <2> QED BY <1>1, <2>2
  <1> QED BY <1>1, <1>3, <1>4, <1>5

-----------------------------------------------------------------------------
(* A window against all that arrived on its key since the last alert.      *)

\* w is h without some first records, all of them older than from.
Follows(w, h, from) ==
    \E d \in 0..Len(h) :
        /\ Len(w) = Len(h) - d
        /\ \A i \in 1..(Len(h) - d) : w[i] = h[d + i]
        /\ \A i \in 1..d : h[i].ts < from

\* The clock only moves forward, so what is old stays old.
LEMMA FollowsLater ==
  ASSUME NEW w \in Seq(Entries), NEW h \in Seq(Entries), NEW a \in Int, NEW b \in Int,
         Follows(w, h, a), a <= b
  PROVE  Follows(w, h, b)
  <1>1. PICK d \in 0..Len(h) :
           /\ Len(w) = Len(h) - d
           /\ \A i \in 1..(Len(h) - d) : w[i] = h[d + i]
           /\ \A i \in 1..d : h[i].ts < a
    BY DEF Follows
  <1>2. \A i \in 1..d : h[i].ts < b
    <2> SUFFICES ASSUME NEW i \in 1..d PROVE h[i].ts < b
      OBVIOUS
    <2>1. Len(h) \in Nat /\ i \in 1..Len(h)
      BY LenProperties
    <2>2. h[i].ts \in Int
      BY <2>1, RecordTime
    <2> QED BY <1>1, <2>2
  <1> QED BY <1>1, <1>2 DEF Follows

\* A new record enters both; trimming up to a cutoff before from is allowed.
LEMMA FollowsRecord ==
  ASSUME NEW w \in Seq(Entries), NEW h \in Seq(Entries), NEW from \in Int,
         NEW c \in Int, c <= from, NEW e \in Entries, Follows(w, h, from)
  PROVE  /\ Append(TrimOld(w, c), e) \in Seq(Entries)
         /\ Append(h, e) \in Seq(Entries)
         /\ Follows(Append(TrimOld(w, c), e), Append(h, e), from)
  <1>1. PICK d \in 0..Len(h) :
           /\ Len(w) = Len(h) - d
           /\ \A i \in 1..(Len(h) - d) : w[i] = h[d + i]
           /\ \A i \in 1..d : h[i].ts < from
    BY DEF Follows
  <1>2. PICK n \in 0..Len(w) :
           /\ TrimOld(w, c) \in Seq(Entries)
           /\ Len(TrimOld(w, c)) = Len(w) - n
           /\ \A i \in 1..(Len(w) - n) : TrimOld(w, c)[i] = w[n + i]
           /\ \A i \in 1..n : w[i].ts < c
    BY TrimOldIsSuffix
  <1> DEFINE t == TrimOld(w, c)
             w2 == Append(t, e)
             h2 == Append(h, e)
             d2 == d + n
  <1>3. Len(w) \in Nat /\ Len(h) \in Nat /\ Len(t) \in Nat
    BY <1>2, LenProperties
  <1>4. /\ w2 \in Seq(Entries) /\ Len(w2) = Len(t) + 1
        /\ \A i \in 1..Len(t) : w2[i] = t[i]
        /\ w2[Len(t) + 1] = e
    BY <1>2, AppendProperties
  <1>5. /\ h2 \in Seq(Entries) /\ Len(h2) = Len(h) + 1
        /\ \A i \in 1..Len(h) : h2[i] = h[i]
        /\ h2[Len(h) + 1] = e
    BY AppendProperties
  <1>6. d2 \in 0..Len(h2) /\ Len(w2) = Len(h2) - d2 /\ Len(h2) - d2 = Len(t) + 1
    BY <1>1, <1>2, <1>3, <1>4, <1>5
  <1>7. \A i \in 1..(Len(h2) - d2) : w2[i] = h2[d2 + i]
    <2> SUFFICES ASSUME NEW i \in 1..(Len(t) + 1) PROVE w2[i] = h2[d2 + i]
      BY <1>6
    <2>1. CASE i = Len(t) + 1
      <3>1. d2 + i = Len(h) + 1
        BY <1>1, <1>2, <1>3, <2>1
      <3> QED BY <1>4, <1>5, <2>1, <3>1
    <2>2. CASE i # Len(t) + 1
      <3>1. i \in 1..Len(t) /\ i \in 1..(Len(w) - n) /\ n + i \in 1..(Len(h) - d)
        <4>1. n \in Nat /\ d \in Nat /\ Len(t) = Len(w) - n /\ Len(w) = Len(h) - d
          BY <1>1, <1>2, <1>3
        <4> HIDE DEF t
        <4>2. i \in Nat /\ i >= 1 /\ i <= Len(t)
          BY <1>3, <2>2
        <4> QED BY <1>3, <4>1, <4>2
      <3>2. w2[i] = w[n + i]
        BY <1>2, <1>4, <3>1
      <3>3. w[n + i] = h[d + (n + i)]
        BY <1>1, <3>1
      <3>4. d + (n + i) = d2 + i /\ d2 + i \in 1..Len(h)
        BY <1>1, <1>2, <1>3, <3>1
      <3> QED BY <1>5, <3>2, <3>3, <3>4
    <2> QED BY <2>1, <2>2
  <1>8. \A i \in 1..d2 : h2[i].ts < from
    <2> SUFFICES ASSUME NEW i \in 1..d2 PROVE h2[i].ts < from
      OBVIOUS
    <2>1. i \in 1..Len(h) /\ h2[i] = h[i]
      BY <1>1, <1>2, <1>3, <1>5
    <2>2. CASE i \in 1..d
      BY <1>1, <2>1, <2>2
    <2>3. CASE i \notin 1..d
      <3>1. i - d \in 1..n /\ i - d \in 1..(Len(h) - d) /\ i - d \in 1..Len(w)
        BY <1>1, <1>2, <1>3, <2>3
      <3>2. w[i - d] = h[d + (i - d)] /\ w[i - d].ts < c
        BY <1>1, <1>2, <3>1
      <3>3. d + (i - d) = i
        BY <1>1, <2>1
      <3>4. w[i - d].ts \in Int
        BY <3>1, RecordTime
      <3>5. h2[i].ts = w[i - d].ts
        BY <2>1, <3>2, <3>3
      <3> QED BY <3>2, <3>4, <3>5
    <2> QED BY <2>2, <2>3
  <1> QED BY <1>4, <1>5, <1>6, <1>7, <1>8 DEF Follows

\* The purge may forget a window of which trimming would leave nothing.
LEMMA FollowsPurge ==
  ASSUME NEW w \in Seq(Entries), NEW h \in Seq(Entries), NEW from \in Int,
         NEW c \in Int, c <= from, Follows(w, h, from), TrimOld(w, c) = <<>>
  PROVE  Follows(<<>>, h, from)
  <1>1. PICK d \in 0..Len(h) :
           /\ Len(w) = Len(h) - d
           /\ \A i \in 1..(Len(h) - d) : w[i] = h[d + i]
           /\ \A i \in 1..d : h[i].ts < from
    BY DEF Follows
  <1>2. PICK n \in 0..Len(w) :
           /\ Len(TrimOld(w, c)) = Len(w) - n
           /\ \A i \in 1..n : w[i].ts < c
    BY TrimOldIsSuffix
  <1>3. Len(w) \in Nat /\ Len(h) \in Nat /\ Len(<<>>) = 0
    BY LenProperties, EmptySeq
  <1>4. n = Len(w)
    BY <1>2, <1>3
  <1>5. \A i \in 1..Len(h) : h[i].ts < from
    <2> SUFFICES ASSUME NEW i \in 1..Len(h) PROVE h[i].ts < from
      OBVIOUS
    <2>1. CASE i \in 1..d
      BY <1>1, <2>1
    <2>2. CASE i \notin 1..d
      <3>1. i - d \in 1..n /\ i - d \in 1..(Len(h) - d) /\ i - d \in 1..Len(w)
        BY <1>1, <1>3, <1>4, <2>2
      <3>2. w[i - d] = h[d + (i - d)] /\ w[i - d].ts < c /\ d + (i - d) = i
        BY <1>1, <1>2, <3>1
      <3>3. w[i - d].ts \in Int
        BY <3>1, RecordTime
      <3> QED BY <3>2, <3>3
    <2> QED BY <2>1, <2>2
  <1> QED BY <1>3, <1>5 DEF Follows

-----------------------------------------------------------------------------
(* What raises an alert.                                                   *)

\* A shorter window that holds every record not before from holds at least
\* as much evidence as they are.
LEMMA FollowsEnough ==
  ASSUME NEW m \in Sliding, NEW w \in Seq(Entries), NEW h \in Seq(Entries),
         NEW from \in Int, Follows(w, h, from), Suffice(m, h, NotBefore(h, from))
  PROVE  Reached(m, w)
  <1> DEFINE P == NotBefore(h, from)
             W == 1..Len(w)
  <1>1. PICK d \in 0..Len(h) :
           /\ Len(w) = Len(h) - d
           /\ \A i \in 1..(Len(h) - d) : w[i] = h[d + i]
           /\ \A i \in 1..d : h[i].ts < from
    BY DEF Follows
  <1>2. Len(w) \in Nat /\ Len(h) \in Nat /\ d \in Nat
    BY <1>1, LenProperties
  <1>3. P \subseteq (d + 1)..Len(h)
    <2> SUFFICES ASSUME NEW i \in P PROVE i \in (d + 1)..Len(h)
      OBVIOUS
    <2>1. i \in 1..Len(h) /\ h[i].ts >= from
      BY DEF NotBefore
    <2>2. h[i].ts \in Int
      BY <2>1, RecordTime
    <2>3. i \notin 1..d
      BY <1>1, <2>1, <2>2
    <2> QED BY <1>2, <2>1, <2>3
  <1>4. Distinct(h, P) \subseteq Distinct(w, W)
    <2> SUFFICES ASSUME NEW i \in P, h[i].item # None
                 PROVE  \E j \in W : w[j].item = h[i].item
      BY DEF Distinct
    <2>1. i \in (d + 1)..Len(h)
      BY <1>3
    <2>2. i - d \in W /\ i - d \in 1..(Len(h) - d) /\ d + (i - d) = i
      BY <1>1, <1>2, <2>1
    <2>3. w[i - d] = h[i]
      BY <1>1, <2>2
    <2> QED BY <2>2, <2>3
  <1>5. IsFiniteSet(W) /\ Cardinality(W) = Len(w)
    <2>1. W = 1..Len(w) /\ 1 \in Int /\ Len(w) \in Int
      BY <1>2
    <2>2. IsFiniteSet(1..Len(w))
      BY <2>1, FS_Interval
    <2>3. Cardinality(1..Len(w)) = IF 1 > Len(w) THEN 0 ELSE Len(w) - 1 + 1
      BY <2>1, FS_Interval
    <2> QED BY <1>2, <2>2, <2>3
  <1>6. Cardinality(P) \in Nat /\ Cardinality(P) <= Cardinality(W)
    <2>0. d + 1 \in Int /\ Len(h) \in Int
      BY <1>2
    <2>1. IsFiniteSet((d + 1)..Len(h))
      BY <2>0, FS_Interval
    <2>2. Cardinality((d + 1)..Len(h)) =
             IF d + 1 > Len(h) THEN 0 ELSE Len(h) - (d + 1) + 1
      BY <2>0, FS_Interval
    <2>3. IsFiniteSet(P) /\ Cardinality(P) <= Cardinality((d + 1)..Len(h))
      BY <1>3, <2>1, FS_Subset
    <2>4. Cardinality(P) \in Nat
      BY <2>3, FS_CardinalityType
    <2>5. Cardinality((d + 1)..Len(h)) = Len(w)
      BY <1>1, <1>2, <2>2
    <2> QED BY <1>5, <2>3, <2>4, <2>5
  <1>7. IsFiniteSet(Distinct(w, W))
    <2>1. IsFiniteSet({w[i].item : i \in W})
      <3> DEFINE T == {w[i].item : i \in W}
                 f == [i \in W |-> w[i].item]
      <3>1. f \in Surjection(W, T)
        BY DEF Surjection
      <3> QED BY <1>5, <3>1, FS_Surjection
    <2> QED BY <2>1, FS_Subset DEF Distinct
  <1>8. /\ Cardinality(Distinct(h, P)) <= Cardinality(Distinct(w, W))
        /\ IsFiniteSet(Distinct(h, P))
    BY <1>4, <1>7, FS_Subset
  <1>9. /\ Cardinality(Distinct(h, P)) \in Nat /\ Cardinality(Distinct(w, W)) \in Nat
        /\ Cardinality(W) \in Nat
    BY <1>2, <1>5, <1>7, <1>8, FS_CardinalityType
  <1>10. Threshold[m] \in Nat /\ MaxUniqueIPs \in Nat
    BY SlidingWindowAssumption
  <1> HIDE DEF P, W
  <1>11. Suffice(m, h, P) => Suffice(m, w, W)
    BY <1>6, <1>8, <1>9, <1>10 DEF Suffice, ManyAddresses
  <1> QED BY <1>11 DEF Reached, P, W

\* Nothing is no evidence.
LEMMA EmptyIsNotEnough ==
  ASSUME NEW m \in Sliding
  PROVE  ~Reached(m, <<>>)
  <1>1. 1..Len(<<>>) = {}
    BY EmptySeq
  <1>2. Distinct(<<>>, {}) = {}
    BY DEF Distinct
  <1>3. Cardinality({}) = 0 /\ Cardinality(Distinct(<<>>, {})) = 0
    BY <1>2, FS_EmptySet
  <1>4. Threshold[m] \in Nat /\ MaxUniqueIPs \in Nat
    BY SlidingWindowAssumption
  <1>5. m # "sasl_connections" => Threshold[m] > 0
    BY SlidingWindowAssumption
  <1>6. Suffice(m, <<>>, {}) => FALSE
    <2> DEFINE n == Cardinality(Distinct(<<>>, {}))
               l == Cardinality({})
    <2>1. ~ManyAddresses(<<>>, {})
      <3>1. ~(MaxUniqueIPs > 0 /\ n >= MaxUniqueIPs)
        <4> HIDE DEF n
        <4> QED BY <1>3, <1>4 DEF n
      <3> QED BY <3>1 DEF ManyAddresses
    <2>2. ~(Threshold[m] > 0 /\ l >= Threshold[m])
      <3>1. l = 0
        BY <1>3
      <3> HIDE DEF l
      <3> QED BY <3>1, <1>4
    <2>3. m \in {"dist_brute_force", "password_spray"} => ~(n >= Threshold[m])
      <3>1. n = 0
        BY <1>3
      <3> HIDE DEF n
      <3> QED BY <3>1, <1>4, <1>5
    <2> QED BY <2>1, <2>2, <2>3 DEF Suffice
  <1> QED BY <1>1, <1>6, Zenon DEF Reached

-----------------------------------------------------------------------------
(* The invariant: a window holds what arrived since the last alert, but    *)
(* for records that are old by the latest clock, and is short of an alert. *)

Faithful(m, k) ==
    /\ Follows(windows[m][k], since[m][k], now - ScanTime[m])
    /\ ~Reached(m, windows[m][k])

SlidingInv ==
    /\ now \in Nat
    /\ windows \in [Sliding -> [Keys -> Seq(Entries)]]
    /\ since \in [Sliding -> [Keys -> Seq(Entries)]]
    /\ \A m \in Sliding, k \in Keys : Faithful(m, k)

\* What a module takes from an event it handles.
LEMMA KeyAndEntry ==
  ASSUME NEW m \in Sliding, NEW ev \in EventType, Handles(m, ev)
  PROVE  KeyOf(m, ev) \in Keys /\ Entry(m, ev) \in Entries
  <1>1. /\ ev.ip \in IPs \cup {None} /\ ev.account \in Accounts \cup {None}
        /\ ev.dest \in Domains \cup {None} /\ ev.ts \in Int
    BY DEF EventType
  <1>2. KeyOf(m, ev) # None
    BY DEF Handles
  <1>3. KeyOf(m, ev) \in Keys
    BY <1>1, <1>2 DEF KeyOf, Keys
  <1>4. ItemOf(m, ev) \in Items
    BY <1>1 DEF ItemOf, Items
  <1> QED BY <1>1, <1>3, <1>4 DEF Entry, Entries

\* The windows of a module that handles an event: the key's own, and the
\* others, which only the purge touches.
LEMMA UpdatedWindows ==
  ASSUME NEW m \in Sliding, NEW ev \in EventType, Handles(m, ev),
         windows[m] \in [Keys -> Seq(Entries)]
  PROVE  /\ Updated(m, ev) = [k \in Keys |-> Updated(m, ev)[k]]
         /\ Updated(m, ev)[KeyOf(m, ev)] = Remaining(m, ev)
         /\ \A k \in Keys \ {KeyOf(m, ev)} :
               \/ Updated(m, ev)[k] = windows[m][k]
               \/ /\ Updated(m, ev)[k] = <<>>
                  /\ TrimOld(windows[m][k], Cutoff(m, ev)) = <<>>
  <1> DEFINE key == KeyOf(m, ev)
             entered == [windows[m] EXCEPT ![key] = Current(m, ev)]
             pruned == IF Due(m) THEN Prune(entered, Cutoff(m, ev)) ELSE entered
  <1>1. key \in Keys
    BY KeyAndEntry
  <1>2. Updated(m, ev) = [pruned EXCEPT ![key] = Remaining(m, ev)]
    BY DEF Updated
  <1>3. entered = [k \in Keys |-> entered[k]]
        /\ \A k \in Keys \ {key} : entered[k] = windows[m][k]
    OBVIOUS
  <1>4. DOMAIN pruned = Keys /\ pruned = [k \in Keys |-> pruned[k]]
    BY <1>3 DEF Prune
  <1>5. \A k \in Keys \ {key} :
           \/ pruned[k] = windows[m][k]
           \/ pruned[k] = <<>> /\ TrimOld(windows[m][k], Cutoff(m, ev)) = <<>>
    BY <1>3 DEF Prune
  <1> HIDE DEF pruned
  <1> QED BY <1>1, <1>2, <1>4, <1>5

\* One event, at most as late as the clock says, keeps the invariant.
LEMMA WindowsStep ==
  ASSUME SlidingInv, NEW ev \in EventType, HandleWindows(ev),
         now' \in Nat, now <= now', ev.ts <= now'
  PROVE  SlidingInv'
  <1>1. /\ windows \in [Sliding -> [Keys -> Seq(Entries)]]
        /\ since \in [Sliding -> [Keys -> Seq(Entries)]] /\ now \in Nat
    BY DEF SlidingInv
  <1> DEFINE Good(m, k) == /\ windows'[m][k] \in Seq(Entries)
                           /\ since'[m][k] \in Seq(Entries)
                           /\ Faithful(m, k)'
  <1>2. \A m \in Sliding : ScanTime[m] \in Nat
    BY SlidingWindowAssumption
  <1>3. ASSUME NEW m \in Sliding, NEW k \in Keys
        PROVE  Follows(windows[m][k], since[m][k], now' - ScanTime[m])
    <2>1. Follows(windows[m][k], since[m][k], now - ScanTime[m])
      BY DEF SlidingInv, Faithful
    <2>2. windows[m][k] \in Seq(Entries) /\ since[m][k] \in Seq(Entries)
      BY <1>1
    <2>3. /\ now - ScanTime[m] \in Int /\ now' - ScanTime[m] \in Int
          /\ now - ScanTime[m] <= now' - ScanTime[m]
      BY <1>1, <1>2
    <2> QED BY <2>1, <2>2, <2>3, FollowsLater
  <1>4. ASSUME NEW m \in Sliding, ~Handles(m, ev)
        PROVE  windows'[m] = windows[m] /\ since'[m] = since[m]
    BY <1>4 DEF HandleWindows
  <1>5. ASSUME NEW m \in Sliding, Handles(m, ev)
        PROVE  /\ windows'[m] = Updated(m, ev)
               /\ since'[m] = [since[m] EXCEPT ![KeyOf(m, ev)] =
                     IF Fires(m, ev) THEN <<>> ELSE Append(@, Entry(m, ev))]
    BY <1>5 DEF HandleWindows
  <1>6. ASSUME NEW m \in Sliding, NEW k \in Keys, ~Handles(m, ev)
        PROVE  Good(m, k)
    <2>1. windows'[m][k] = windows[m][k] /\ since'[m][k] = since[m][k]
      BY <1>4, <1>6
    <2>2. windows[m][k] \in Seq(Entries) /\ since[m][k] \in Seq(Entries)
      BY <1>1
    <2>3. ~Reached(m, windows[m][k])
      BY DEF SlidingInv, Faithful
    <2> QED BY <1>3, <2>1, <2>2, <2>3 DEF Faithful, Reached
  <1>7. ASSUME NEW m \in Sliding, NEW k \in Keys, Handles(m, ev), k # KeyOf(m, ev)
        PROVE  Good(m, k)
    <2>0. /\ windows'[m] = Updated(m, ev)
          /\ since'[m] = [since[m] EXCEPT ![KeyOf(m, ev)] =
                IF Fires(m, ev) THEN <<>> ELSE Append(@, Entry(m, ev))]
          /\ windows[m] \in [Keys -> Seq(Entries)] /\ since[m] \in [Keys -> Seq(Entries)]
          /\ KeyOf(m, ev) \in Keys
      BY <1>1, <1>5, <1>7, KeyAndEntry
    <2>1. since'[m][k] = since[m][k]
      BY <1>7, <2>0
    <2>2. windows[m][k] \in Seq(Entries) /\ since[m][k] \in Seq(Entries)
      BY <1>1
    <2>3. \/ windows'[m][k] = windows[m][k]
          \/ windows'[m][k] = <<>> /\ TrimOld(windows[m][k], Cutoff(m, ev)) = <<>>
      BY <1>7, <2>0, UpdatedWindows
    <2>4. CASE windows'[m][k] = windows[m][k]
      <3>1. ~Reached(m, windows[m][k])
        BY DEF SlidingInv, Faithful
      <3> QED BY <1>3, <2>1, <2>2, <2>4, <3>1 DEF Faithful, Reached
    <2>5. CASE windows'[m][k] = <<>> /\ TrimOld(windows[m][k], Cutoff(m, ev)) = <<>>
      <3>1. /\ Cutoff(m, ev) \in Int /\ now' - ScanTime[m] \in Int
            /\ Cutoff(m, ev) <= now' - ScanTime[m]
        BY <1>2 DEF Cutoff, EventType
      <3>2. Follows(<<>>, since[m][k], now' - ScanTime[m])
        BY <1>3, <2>2, <2>5, <3>1, FollowsPurge
      <3>3. ~Reached(m, <<>>) /\ <<>> \in Seq(Entries)
        BY EmptyIsNotEnough, EmptySeq
      <3> QED BY <2>1, <2>2, <2>5, <3>2, <3>3 DEF Faithful, Reached
    <2> QED BY <2>3, <2>4, <2>5
  <1>8. ASSUME NEW m \in Sliding, NEW k \in Keys, Handles(m, ev), k = KeyOf(m, ev)
        PROVE  Good(m, k)
    <2>0. /\ windows'[m] = Updated(m, ev)
          /\ since'[m] = [since[m] EXCEPT ![KeyOf(m, ev)] =
                IF Fires(m, ev) THEN <<>> ELSE Append(@, Entry(m, ev))]
          /\ windows[m] \in [Keys -> Seq(Entries)] /\ since[m] \in [Keys -> Seq(Entries)]
          /\ KeyOf(m, ev) \in Keys
      BY <1>1, <1>5, <1>8, KeyAndEntry
    <2>1. Entry(m, ev) \in Entries
      BY <1>8, KeyAndEntry
    <2>2. windows[m][k] \in Seq(Entries) /\ since[m][k] \in Seq(Entries)
      BY <1>1
    <2>3. /\ windows'[m][k] = Remaining(m, ev)
          /\ since'[m][k] = IF Fires(m, ev) THEN <<>> ELSE Append(since[m][k], Entry(m, ev))
      BY <1>8, <2>0, UpdatedWindows
    <2>4. CASE Fires(m, ev)
      <3>1. windows'[m][k] = <<>> /\ since'[m][k] = <<>>
        BY <2>3, <2>4 DEF Remaining
      <3>2. ~Reached(m, <<>>) /\ <<>> \in Seq(Entries) /\ Len(<<>>) = 0
        BY EmptyIsNotEnough, EmptySeq
      <3>3. Follows(<<>>, <<>>, now' - ScanTime[m])
        BY <3>2 DEF Follows
      <3> QED BY <3>1, <3>2, <3>3 DEF Faithful, Reached
    <2>5. CASE ~Fires(m, ev)
      <3>1. /\ windows'[m][k] = Append(TrimOld(windows[m][k], Cutoff(m, ev)), Entry(m, ev))
            /\ since'[m][k] = Append(since[m][k], Entry(m, ev))
        BY <1>8, <2>3, <2>5 DEF Remaining, Current
      <3>2. /\ Cutoff(m, ev) \in Int /\ now' - ScanTime[m] \in Int
            /\ Cutoff(m, ev) <= now' - ScanTime[m]
        BY <1>2 DEF Cutoff, EventType
      <3>3. /\ windows'[m][k] \in Seq(Entries) /\ since'[m][k] \in Seq(Entries)
            /\ Follows(windows'[m][k], since'[m][k], now' - ScanTime[m])
        BY <1>3, <2>1, <2>2, <3>1, <3>2, FollowsRecord
      <3>4. ~Reached(m, Current(m, ev)) /\ windows'[m][k] = Current(m, ev)
        BY <1>8, <2>3, <2>5 DEF Fires, Remaining
      <3> QED BY <3>3, <3>4 DEF Faithful, Reached
    <2> QED BY <2>4, <2>5
  <1>9. \A m \in Sliding, k \in Keys : Good(m, k)
    BY <1>6, <1>7, <1>8
  <1>10. ASSUME NEW m \in Sliding
         PROVE  /\ windows'[m] = [k \in Keys |-> windows'[m][k]]
                /\ since'[m] = [k \in Keys |-> since'[m][k]]
    <2>1. windows[m] \in [Keys -> Seq(Entries)] /\ since[m] \in [Keys -> Seq(Entries)]
      BY <1>1
    <2> QED BY <1>4, <1>5, <2>1, UpdatedWindows
  <1>11. /\ windows' \in [Sliding -> [Keys -> Seq(Entries)]]
         /\ since' \in [Sliding -> [Keys -> Seq(Entries)]]
    <2>1. windows' = [m \in Sliding |-> windows'[m]] /\ since' = [m \in Sliding |-> since'[m]]
      BY DEF HandleWindows
    <2>2. \A m \in Sliding : windows'[m] \in [Keys -> Seq(Entries)]
                             /\ since'[m] \in [Keys -> Seq(Entries)]
      BY <1>9, <1>10
    <2> QED BY <2>1, <2>2
  <1> QED BY <1>9, <1>11 DEF SlidingInv

\* A step of any other actor.
LEMMA OtherSteps ==
  ASSUME SlidingInv, UNCHANGED <<windows, since>>, now' \in Nat, now <= now'
  PROVE  SlidingInv'
  <1>1. /\ windows \in [Sliding -> [Keys -> Seq(Entries)]]
        /\ since \in [Sliding -> [Keys -> Seq(Entries)]] /\ now \in Nat
    BY DEF SlidingInv
  <1>2. ASSUME NEW m \in Sliding, NEW k \in Keys
        PROVE  Faithful(m, k)'
    <2>1. Follows(windows[m][k], since[m][k], now - ScanTime[m]) /\ ~Reached(m, windows[m][k])
      BY DEF SlidingInv, Faithful
    <2>2. windows[m][k] \in Seq(Entries) /\ since[m][k] \in Seq(Entries)
      BY <1>1
    <2>3. /\ now - ScanTime[m] \in Int /\ now' - ScanTime[m] \in Int
          /\ now - ScanTime[m] <= now' - ScanTime[m]
      BY <1>1, SlidingWindowAssumption
    <2>4. Follows(windows[m][k], since[m][k], now' - ScanTime[m])
      BY <2>1, <2>2, <2>3, FollowsLater
    <2> QED BY <2>1, <2>4 DEF Faithful, Reached
  <1> QED BY <1>1, <1>2 DEF SlidingInv

LEMMA SlidingInvHolds == Spec => []SlidingInv
  <1>1. Init => SlidingInv
    <2> SUFFICES ASSUME Init PROVE SlidingInv
      OBVIOUS
    <2>1. /\ now = 0
          /\ windows = [m \in Sliding |-> [k \in Keys |-> <<>>]]
          /\ since = [m \in Sliding |-> [k \in Keys |-> <<>>]]
      BY DEF Init, WindowsInit
    <2>2. <<>> \in Seq(Entries) /\ Len(<<>>) = 0
      BY EmptySeq
    <2>3. ASSUME NEW m \in Sliding, NEW k \in Keys PROVE Faithful(m, k)
      <3>1. windows[m][k] = <<>> /\ since[m][k] = <<>>
        BY <2>1
      <3>2. Follows(<<>>, <<>>, now - ScanTime[m])
        BY <2>2 DEF Follows
      <3> QED BY <3>1, <3>2, EmptyIsNotEnough DEF Faithful
    <2> QED BY <2>1, <2>2, <2>3 DEF SlidingInv
  <1>2. SlidingInv /\ [Next]_vars => SlidingInv'
    <2> SUFFICES ASSUME SlidingInv, [Next]_vars PROVE SlidingInv'
      OBVIOUS
    <2>1. now \in Nat
      BY DEF SlidingInv
    <2>2. ASSUME NEW kind \in Kinds, NEW at \in 0..MaxTime, Arrives(kind, at)
          PROVE  now' \in Nat /\ now <= now' /\ at <= now' /\ at \in Nat
      BY <2>1, <2>2, EngineAssumption DEF Arrives
    <2>3. ASSUME NEW kind \in Kinds, NEW at \in 0..MaxTime, Ignore(kind, at)
          PROVE  SlidingInv'
      <3>1. UNCHANGED <<windows, since>>
        BY <2>3 DEF Ignore, modules, windowVars
      <3> QED BY <2>2, <2>3, <3>1, OtherSteps DEF Ignore
    <2>4. ASSUME NEW kind \in Kinds, NEW at \in 0..MaxTime, Dispatch(kind, at)
          PROVE  SlidingInv'
      <3> DEFINE ev == ClearProxy([kind EXCEPT !.ts = at])
      <3>1. Arrives(kind, at) /\ HandleWindows(ev)
        BY <2>4 DEF Dispatch
      <3>2. now' \in Nat /\ now <= now' /\ at <= now' /\ at \in Nat
        BY <2>2, <3>1
      <3>3. kind \in EventType
        BY EngineAssumption
      <3>4. ev \in EventType /\ ev.ts = at
        <4> DEFINE entry == [kind EXCEPT !.ts = at]
        <4>1. entry \in EventType /\ entry.ts = at
          BY <3>2, <3>3 DEF EventType
        <4>2. /\ [entry EXCEPT !.ip = None] \in EventType
              /\ [entry EXCEPT !.ip = None].ts = at
          <5> HIDE DEF entry
          <5> QED BY <4>1 DEF EventType
        <4> HIDE DEF entry
        <4>3. ClearProxy(entry) \in EventType /\ ClearProxy(entry).ts = at
          BY <4>1, <4>2 DEF ClearProxy
        <4> QED BY <4>3 DEF entry
      <3> HIDE DEF ev
      <3> QED BY <3>1, <3>2, <3>4, WindowsStep
    <2>5. CASE Send
      BY <2>1, <2>5, OtherSteps DEF Send, modules, windowVars
    <2>6. CASE Contain
      BY <2>1, <2>6, OtherSteps DEF Contain, modules, windowVars
    <2>7. ASSUME NEW addr \in IPs, BanEnds(addr) PROVE SlidingInv'
      BY <2>1, <2>7, OtherSteps DEF BanEnds, modules, windowVars
    <2>8. ASSUME NEW entry \in Operator, Exempt(entry) PROVE SlidingInv'
      BY <2>1, <2>8, OtherSteps DEF Exempt, modules, windowVars
    <2>9. CASE UNCHANGED vars
      BY <2>1, <2>9, OtherSteps DEF vars, modules, windowVars
    <2> QED BY <2>3, <2>4, <2>5, <2>6, <2>7, <2>8, <2>9 DEF Next
  <1> QED BY <1>1, <1>2, PTL DEF Spec

\* The eight modules that count never sit on enough evidence, however late the
\* records come in and whatever the purge forgets: what a window has lost is
\* older than ScanTime by the latest timestamp of either log.
THEOREM NothingIsEverMissed == Spec => []NothingIsMissed
  <1>1. SlidingInv => NothingIsMissed
    <2> SUFFICES ASSUME SlidingInv, NEW m \in Sliding, NEW k \in Keys
                 PROVE  ~Suffice(m, since[m][k], NotBefore(since[m][k], now - ScanTime[m]))
      BY DEF NothingIsMissed
    <2>1. windows[m][k] \in Seq(Entries) /\ since[m][k] \in Seq(Entries)
      BY DEF SlidingInv
    <2>2. now - ScanTime[m] \in Int
      BY SlidingWindowAssumption DEF SlidingInv
    <2>3. Follows(windows[m][k], since[m][k], now - ScanTime[m]) /\ ~Reached(m, windows[m][k])
      BY DEF SlidingInv, Faithful
    <2> QED BY <2>1, <2>2, <2>3, FollowsEnough
  <1> QED BY <1>1, SlidingInvHolds, PTL

-----------------------------------------------------------------------------
(* Sequences: what trimming, sorting in and numbering keep.                *)

LEMMA TrimOldInSeq ==
  ASSUME NEW S, NEW w \in Seq(S), NEW c
  PROVE  /\ TrimOld(w, c) \in Seq(S)
         /\ \E n \in 0..Len(w) :
               /\ Len(TrimOld(w, c)) = Len(w) - n
               /\ \A i \in 1..(Len(w) - n) : TrimOld(w, c)[i] = w[n + i]
  <1> DEFINE n == Cardinality(OldPrefix(w, c))
  <1>1. n \in 0..Len(w)
    BY OldPrefixIsInterval
  <1>2. TrimOld(w, c) = SubSeq(w, n + 1, Len(w)) /\ Len(w) \in Nat
    BY LenProperties DEF TrimOld
  <1> HIDE DEF n
  <1>3. \A i \in (n + 1)..Len(w) : w[i] \in S
    BY <1>1, <1>2, ElementOfSeq
  <1>4. /\ SubSeq(w, n + 1, Len(w)) \in Seq(S)
        /\ Len(SubSeq(w, n + 1, Len(w))) = IF n + 1 <= Len(w) THEN Len(w) - (n + 1) + 1 ELSE 0
        /\ \A i \in 1..(Len(w) - (n + 1) + 1) : SubSeq(w, n + 1, Len(w))[i] = w[n + 1 + i - 1]
    <2>1. n + 1 \in Int /\ Len(w) \in Int
      BY <1>1, <1>2
    <2> QED BY <1>3, <2>1, SubSeqProperties
  <1>5. Len(SubSeq(w, n + 1, Len(w))) = Len(w) - n
    BY <1>1, <1>2, <1>4
  <1>6. \A i \in 1..(Len(w) - n) : SubSeq(w, n + 1, Len(w))[i] = w[n + i]
    BY <1>1, <1>2, <1>4
  <1> QED BY <1>1, <1>2, <1>4, <1>5, <1>6

\* A late record goes before those that are younger, which are the last ones.
LEMMA InsertInOrderPlace ==
  ASSUME NEW S, NEW w \in Seq(S), NEW r \in S
  PROVE  /\ InsertInOrder(w, r) \in Seq(S)
         /\ \E n \in 0..Len(w) :
               /\ Len(InsertInOrder(w, r)) = Len(w) + 1
               /\ \A i \in 1..n : InsertInOrder(w, r)[i] = w[i]
               /\ InsertInOrder(w, r)[n + 1] = r
               /\ \A i \in (n + 1)..Len(w) : InsertInOrder(w, r)[i + 1] = w[i]
               /\ \A i \in (n + 1)..Len(w) : r.ts < w[i].ts
               /\ n > 0 => ~(r.ts < w[n].ts)
  <1> DEFINE later == {i \in 1..Len(w) : \A j \in i..Len(w) : r.ts < w[j].ts}
             c == Cardinality(later)
             n == Len(w) - c
  <1>0. Len(w) \in Nat
    BY LenProperties
  <1>1. IsFiniteSet(1..Len(w)) /\ Cardinality(1..Len(w)) = Len(w)
    BY <1>0, FS_Interval
  <1>2. later \subseteq 1..Len(w)
    OBVIOUS
  <1>3. IsFiniteSet(later) /\ c \in Nat /\ c <= Len(w)
    BY <1>1, <1>2, FS_Subset, FS_CardinalityType
  <1>4. n \in 0..Len(w) /\ n + 1 \in Int /\ Len(w) \in Int
    BY <1>0, <1>3
  <1>5. IsFiniteSet((n + 1)..Len(w)) /\ Cardinality((n + 1)..Len(w)) = c
    <2>1. /\ IsFiniteSet((n + 1)..Len(w))
          /\ Cardinality((n + 1)..Len(w)) = IF n + 1 > Len(w) THEN 0 ELSE Len(w) - (n + 1) + 1
      BY <1>4, FS_Interval
    <2> HIDE DEF c
    <2> QED BY <1>0, <1>3, <2>1
  <1>6. later \subseteq (n + 1)..Len(w)
    <2> SUFFICES ASSUME NEW i \in later PROVE i \in (n + 1)..Len(w)
      OBVIOUS
    <2>1. i \in Int /\ i >= 1 /\ i <= Len(w)
      BY <1>0, <1>2
    <2>2. i..Len(w) \subseteq later
      BY <1>0, <2>1
    <2>3. Cardinality(i..Len(w)) = Len(w) - i + 1
      <3>1. Cardinality(i..Len(w)) = IF i > Len(w) THEN 0 ELSE Len(w) - i + 1
        BY <1>4, <2>1, FS_Interval
      <3> QED BY <1>0, <2>1, <3>1
    <2>4. Cardinality(i..Len(w)) <= c
      BY <1>3, <2>2, FS_Subset
    <2> HIDE DEF c
    <2> QED BY <1>0, <1>3, <2>1, <2>3, <2>4
  <1>7. later = (n + 1)..Len(w)
    <2> HIDE DEF later, n
    <2> QED BY <1>5, <1>6, FS_Subset
  <1>8. \A i \in (n + 1)..Len(w) : r.ts < w[i].ts
    <2> SUFFICES ASSUME NEW i \in later PROVE r.ts < w[i].ts
      BY <1>7
    <2>1. i \in i..Len(w)
      BY <1>0
    <2> QED BY <2>1
  <1>9. n > 0 => ~(r.ts < w[n].ts)
    <2> SUFFICES ASSUME n > 0, r.ts < w[n].ts PROVE FALSE
      OBVIOUS
    <2>1. n \in 1..Len(w) /\ n \notin later
      <3>1. n \notin (n + 1)..Len(w)
        BY <1>4
      <3> QED BY <1>4, <1>7, <3>1
    <2>2. \A j \in n..Len(w) : j = n \/ j \in (n + 1)..Len(w)
      BY <1>4
    <2>3. \A j \in n..Len(w) : r.ts < w[j].ts
      BY <1>8, <2>2
    <2> QED BY <2>1, <2>3
  <1> DEFINE before == SubSeq(w, 1, n)
             after == SubSeq(w, n + 1, Len(w))
  <1>10. InsertInOrder(w, r) = before \o <<r>> \o after
    BY DEF InsertInOrder
  <1> HIDE DEF n
  <1>11. \A i \in 1..Len(w) : w[i] \in S
    BY ElementOfSeq
  <1>12. /\ before \in Seq(S) /\ Len(before) = n
         /\ \A i \in 1..n : before[i] = w[i]
    <2>1. \A i \in 1..n : w[i] \in S
      BY <1>4, <1>11
    <2>2. /\ before \in Seq(S)
          /\ Len(before) = IF 1 <= n THEN n - 1 + 1 ELSE 0
          /\ \A i \in 1..(n - 1 + 1) : before[i] = w[1 + i - 1]
      BY <1>4, <2>1, SubSeqProperties
    <2> QED BY <1>4, <2>2
  <1>13. /\ after \in Seq(S) /\ Len(after) = Len(w) - n
         /\ \A i \in 1..(Len(w) - n) : after[i] = w[n + i]
    <2>1. \A i \in (n + 1)..Len(w) : w[i] \in S
      BY <1>4, <1>11
    <2>2. /\ after \in Seq(S)
          /\ Len(after) = IF n + 1 <= Len(w) THEN Len(w) - (n + 1) + 1 ELSE 0
          /\ \A i \in 1..(Len(w) - (n + 1) + 1) : after[i] = w[n + 1 + i - 1]
      BY <1>4, <2>1, SubSeqProperties
    <2> QED BY <1>4, <2>2
  <1> HIDE DEF before, after
  <1> DEFINE front == Append(before, r)
  <1>14. before \o <<r>> = front
    BY <1>12, AppendIsConcat
  <1>15. /\ front \in Seq(S) /\ Len(front) = n + 1
         /\ \A i \in 1..n : front[i] = w[i]
         /\ front[n + 1] = r
    BY <1>12, AppendProperties
  <1> HIDE DEF front
  <1>16. /\ front \o after \in Seq(S)
         /\ Len(front \o after) = Len(front) + Len(after)
         /\ \A i \in 1..(Len(front) + Len(after)) : (front \o after)[i] =
               IF i <= Len(front) THEN front[i] ELSE after[i - Len(front)]
    BY <1>13, <1>15, ConcatProperties
  <1>17. InsertInOrder(w, r) = front \o after
    BY <1>10, <1>14
  <1>18. Len(front \o after) = Len(w) + 1
    BY <1>0, <1>4, <1>13, <1>15, <1>16
  <1>19. \A i \in 1..(n + 1) : (front \o after)[i] = front[i]
    BY <1>0, <1>4, <1>13, <1>15, <1>16
  <1>20. \A i \in (n + 1)..Len(w) : (front \o after)[i + 1] = w[i]
    <2> SUFFICES ASSUME NEW i \in (n + 1)..Len(w) PROVE (front \o after)[i + 1] = w[i]
      OBVIOUS
    <2>1. i + 1 \in 1..(Len(front) + Len(after)) /\ ~(i + 1 <= Len(front))
      BY <1>0, <1>4, <1>13, <1>15
    <2>2. i + 1 - Len(front) \in 1..(Len(w) - n) /\ n + (i + 1 - Len(front)) = i
      BY <1>0, <1>4, <1>15
    <2> QED BY <1>13, <1>16, <2>1, <2>2
  <1>21. \A i \in 1..n : (front \o after)[i] = w[i]
    BY <1>4, <1>15, <1>19
  <1>22. (front \o after)[n + 1] = r
    BY <1>4, <1>15, <1>19
  <1> QED BY <1>4, <1>8, <1>9, <1>16, <1>17, <1>18, <1>20, <1>21, <1>22

\* A set of naturals that is not empty has a least element.
LEMMA LeastElement ==
  ASSUME NEW P \in SUBSET Nat, P # {}
  PROVE  \E i \in P : \A j \in P : i <= j
  <1>1. PICK i \in P : \A j \in P : ~(<<j, i>> \in OpToRel(<, Nat))
    BY NatLessThanWellFounded, WFMin
  <1>2. ASSUME NEW j \in P PROVE ~(j < i)
    <2>1. ~(<<j, i>> \in {pair \in Nat \X Nat : pair[1] < pair[2]})
      BY <1>1 DEF OpToRel
    <2>2. <<j, i>> \in Nat \X Nat /\ <<j, i>>[1] = j /\ <<j, i>>[2] = i
      OBVIOUS
    <2> QED BY <2>1, <2>2
  <1>3. \A j \in P : i <= j
    <2> SUFFICES ASSUME NEW j \in P PROVE i <= j
      OBVIOUS
    <2>1. i \in Nat /\ j \in Nat
      OBVIOUS
    <2> QED BY <1>2, <2>1
  <1> QED BY <1>3

\* The elements of a finite set of naturals, numbered from the least one.
LEMMA RankIsOnto ==
  ASSUME NEW P \in SUBSET Nat, IsFiniteSet(P), NEW n \in 1..Cardinality(P)
  PROVE  \E i \in P : Cardinality({j \in P : j <= i}) = n
  <1> DEFINE N == Cardinality(P)
             Upto(i) == {j \in P : j <= i}
             rank == [i \in P |-> Cardinality(Upto(i))]
  <1>1. N \in Nat /\ IsFiniteSet(1..N) /\ Cardinality(1..N) = N
    <2>1. N \in Nat
      BY FS_CardinalityType
    <2> QED BY <2>1, FS_Interval
  <1>2. ASSUME NEW i \in P
        PROVE  IsFiniteSet(Upto(i)) /\ Cardinality(Upto(i)) \in 1..N
    <2>1. Upto(i) \subseteq P /\ i \in Upto(i)
      OBVIOUS
    <2> HIDE DEF Upto
    <2>2. IsFiniteSet(Upto(i)) /\ Cardinality(Upto(i)) <= N
      BY <2>1, FS_Subset
    <2>3. Cardinality(Upto(i)) \in Nat /\ Cardinality(Upto(i)) # 0
      BY <2>1, <2>2, FS_CardinalityType, FS_EmptySet
    <2> QED BY <1>1, <2>2, <2>3
  <1>3. ASSUME NEW i \in P, NEW k \in P, i < k
        PROVE  Cardinality(Upto(i)) # Cardinality(Upto(k))
    <2>0. i \in Nat /\ k \in Nat /\ ~(k <= i)
      BY <1>3
    <2>1. Upto(i) \subseteq Upto(k)
      <3> SUFFICES ASSUME NEW j \in P, j <= i PROVE j <= k
        OBVIOUS
      <3>1. j \in Nat
        OBVIOUS
      <3> QED BY <1>3, <2>0, <3>1
    <2>2. k \in Upto(k) /\ k \notin Upto(i)
      BY <2>0
    <2> HIDE DEF Upto
    <2> QED BY <1>2, <2>1, <2>2, FS_Subset
  <1>4. rank \in Injection(P, 1..N)
    <2>1. rank \in [P -> 1..N]
      BY <1>2
    <2>2. ASSUME NEW i \in P, NEW k \in P, rank[i] = rank[k] PROVE i = k
      <3>1. Cardinality(Upto(i)) = Cardinality(Upto(k))
        BY <2>2
      <3>2. ~(i < k) /\ ~(k < i)
        BY <1>3, <3>1
      <3> QED BY <3>2
    <2> HIDE DEF rank
    <2> QED BY <2>1, <2>2 DEF Injection, IsInjective
  <1>5. rank \in Surjection(P, 1..N)
    <2> HIDE DEF rank, N
    <2> QED BY <1>1, <1>4, FS_Injection DEF N
  <1>6. PICK i \in P : rank[i] = n
    <2> HIDE DEF rank
    <2> QED BY <1>5 DEF Surjection
  <1> QED BY <1>6

LEMMA FunctionIsSeq ==
  ASSUME NEW T, NEW N \in Nat, NEW f \in [1..N -> T]
  PROVE  f \in Seq(T) /\ Len(f) = N
  <1>1. f \in Seq(T)
    BY SeqDef
  <1>2. 1..Len(f) = 1..N /\ Len(f) \in Nat
    BY <1>1, LenProperties
  <1>3. \A n \in Nat : Cardinality(1..n) = n
    BY FS_Interval
  <1> QED BY <1>1, <1>2, <1>3

\* The addresses of a window: those of its records, each of them, blanks aside.
LEMMA UniqueIPsAreItems ==
  ASSUME NEW S, NEW w \in Seq(S),
         NEW T, \A i \in 1..Len(w) : w[i].item # None => w[i].item \in T
  PROVE  /\ UniqueIPs(w) \in Seq(T)
         /\ \A i \in 1..Len(w) : w[i].item # None =>
               \E n \in 1..Len(UniqueIPs(w)) : UniqueIPs(w)[n] = w[i].item
  <1> DEFINE first == {i \in 1..Len(w) :
                w[i].item # None /\ \A j \in 1..(i - 1) : w[j].item # w[i].item}
             N == Cardinality(first)
             rank(i) == Cardinality({j \in first : j <= i})
             At(n) == CHOOSE i \in first : rank(i) = n
             ips == [n \in 1..N |-> w[At(n)].item]
  <1>1. UniqueIPs(w) = ips
    BY DEF UniqueIPs
  <1>2. Len(w) \in Nat /\ IsFiniteSet(1..Len(w))
    <2>1. Len(w) \in Nat
      BY LenProperties
    <2> QED BY <2>1, FS_Interval
  <1>3. first \in SUBSET Nat /\ first \subseteq 1..Len(w)
    OBVIOUS
  <1>4. IsFiniteSet(first) /\ N \in Nat
    BY <1>2, <1>3, FS_Subset, FS_CardinalityType
  <1>5. ASSUME NEW n \in 1..N PROVE At(n) \in first /\ rank(At(n)) = n
    <2>1. \E i \in first : rank(i) = n
      BY <1>3, <1>4, <1>5, RankIsOnto
    <2> HIDE DEF first, rank
    <2> QED BY <2>1
  <1>6. ips \in [1..N -> T]
    <2>1. ASSUME NEW n \in 1..N PROVE w[At(n)].item \in T
      BY <1>3, <1>5, <2>1
    <2> HIDE DEF At, N
    <2> QED BY <2>1
  <1>7. ips \in Seq(T) /\ Len(ips) = N
    <2> HIDE DEF ips, N
    <2> QED BY <1>4, <1>6, FunctionIsSeq
  <1>8. ASSUME NEW i \in 1..Len(w), w[i].item # None
        PROVE  \E n \in 1..N : ips[n] = w[i].item
    <2> DEFINE same == {j \in 1..Len(w) : w[j].item = w[i].item}
    <2>1. same \in SUBSET Nat /\ i \in same
      OBVIOUS
    <2>2. PICK k \in same : \A j \in same : k <= j
      <3> HIDE DEF same
      <3> QED BY <2>1, LeastElement
    <2>3. k \in first
      <3>1. k \in 1..Len(w) /\ w[k].item = w[i].item /\ k \in Nat
        BY <1>2
      <3>2. ASSUME NEW j \in 1..(k - 1) PROVE w[j].item # w[k].item
        <4>1. j \in 1..Len(w) /\ ~(k <= j)
          BY <1>2, <3>1
        <4> QED BY <2>2, <3>1, <4>1
      <3> QED BY <1>8, <3>1, <3>2
    <2> DEFINE Upto(l) == {j \in first : j <= l}
    <2>4. ASSUME NEW l \in first PROVE IsFiniteSet(Upto(l)) /\ l \in Upto(l)
      <3>1. Upto(l) \subseteq first /\ l \in Upto(l)
        BY <1>3
      <3> HIDE DEF Upto, first
      <3> QED BY <1>4, <3>1, FS_Subset
    <2>5. rank(k) \in 1..N
      <3>1. Upto(k) \subseteq first
        OBVIOUS
      <3> HIDE DEF first, Upto
      <3>2. Cardinality(Upto(k)) <= N /\ Cardinality(Upto(k)) \in Nat /\ Upto(k) # {}
        BY <1>4, <2>3, <2>4, <3>1, FS_Subset, FS_CardinalityType
      <3>3. Cardinality(Upto(k)) # 0
        BY <2>3, <2>4, <3>2, FS_EmptySet
      <3> QED BY <1>4, <3>2, <3>3 DEF Upto
    <2>6. At(rank(k)) = k
      <3> DEFINE l == At(rank(k))
      <3>1. l \in first /\ rank(l) = rank(k)
        BY <1>5, <2>5
      <3> HIDE DEF l
      <3>2. ASSUME NEW x \in first, NEW y \in first, x < y PROVE rank(x) # rank(y)
        <4>1. x \in Nat /\ y \in Nat
          BY <1>3
        <4>2. Upto(x) \subseteq Upto(y)
          BY <1>3, <3>2, <4>1
        <4>3. y \notin Upto(x)
          BY <3>2, <4>1
        <4>4. Cardinality(Upto(x)) # Cardinality(Upto(y))
          <5> HIDE DEF Upto
          <5> QED BY <2>4, <4>2, <4>3, FS_Subset
        <4> QED BY <4>4
      <3>3. ~(l < k) /\ ~(k < l)
        BY <2>3, <3>1, <3>2
      <3> HIDE DEF rank
      <3>4. l = k
        BY <1>3, <2>3, <3>1, <3>3
      <3> QED BY <3>4 DEF l
    <2>7. ips[rank(k)] = w[k].item
      <3> HIDE DEF rank, At, first, N
      <3> QED BY <2>5, <2>6
    <2>8. w[k].item = w[i].item
      BY <2>2
    <2> HIDE DEF rank, ips, N
    <2> QED BY <2>5, <2>7, <2>8
  <1> HIDE DEF ips, N
  <1> QED BY <1>1, <1>7, <1>8

\* The address a suspension names: a foreign one when there is one.
LEMMA TargetIsForeign ==
  ASSUME NEW T, NEW ips \in Seq(T), NEW fallback, NEW fails
  PROVE  LET target == TargetIP(ips, fallback, fails) IN
         \/ /\ target = fallback
            /\ \/ AllowedCountries = {}
               \/ \A n \in 1..Len(ips) : IsAllowed(CountryOf[ips[n]])
         \/ /\ target \in T
            /\ target \in fails \/ ~IsAllowed(CountryOf[target])
  <1> DEFINE foreign == {n \in 1..Len(ips) : ~IsAllowed(Country(ips[n], fails))}
             least == CHOOSE n \in foreign : \A k \in foreign : n <= k
  <1>1. TargetIP(ips, fallback, fails) =
           IF AllowedCountries = {} \/ foreign = {} THEN fallback ELSE ips[least]
    BY DEF TargetIP
  <1>2. foreign \in SUBSET Nat
    OBVIOUS
  <1>3a. \A addr : IsAllowed(Country(addr, fails)) => IsAllowed(CountryOf[addr])
    BY EventsAssumption DEF IsAllowed, Country
  <1>3b. \A addr : ~IsAllowed(Country(addr, fails)) => addr \in fails \/ ~IsAllowed(CountryOf[addr])
    BY DEF Country
  <1>3. CASE AllowedCountries = {} \/ foreign = {}
    BY <1>1, <1>3a, <1>3
  <1>4. CASE AllowedCountries # {} /\ foreign # {}
    <2>1. \E n \in foreign : \A k \in foreign : n <= k
      <3> HIDE DEF foreign
      <3> QED BY <1>2, <1>4, LeastElement
    <2>2. least \in foreign
      <3> HIDE DEF foreign
      <3> QED BY <2>1
    <2>3. least \in 1..Len(ips) /\ ~IsAllowed(Country(ips[least], fails))
      <3> HIDE DEF least
      <3> QED BY <2>2
    <2>4. ips[least] \in T
      <3> HIDE DEF least
      <3> QED BY <2>3, ElementOfSeq
    <2>5. TargetIP(ips, fallback, fails) = ips[least]
      <3> HIDE DEF least, foreign
      <3> QED BY <1>1, <1>4
    <2> HIDE DEF least
    <2> QED BY <1>3b, <2>3, <2>4, <2>5
  <1> QED BY <1>3, <1>4

-----------------------------------------------------------------------------
(* The alerts of one event.                                                *)

Blameless == Proxies \cup Private
CleanEntries == [ts : Int, item : (IPs \ Blameless) \cup {None}]
CleanFailures == [ts : Int, item : IPs \ Blameless]
CleanAlerts == {al \in AlertType : al.ip \notin Blameless}
AlertsOf(m) == {al \in CleanAlerts : al.module = m}

\* A suspension that names an allowed country comes from allowed countries only,
\* unless its address has just failed to resolve.
Spared(al) == al.action = "suspend_account" /\ al.ip # None /\ IsAllowed(CountryOf[al.ip])
Justified(al, w, fails) ==
    Spared(al) => al.ip \in fails \/ \A i \in 1..Len(w) : w[i].item # None => IsAllowed(CountryOf[w[i].item])

LEMMA AlertFields ==
  ASSUME NEW m \in Modules, NEW does \in {"block_ip", "suspend_account", "notify_only"},
         NEW addr \in (IPs \ Blameless) \cup {None}, NEW acct \in Accounts \cup {None}
  PROVE  /\ Alert(m, does, addr, acct) \in AlertsOf(m)
         /\ Alert(m, does, addr, acct).action = does
         /\ Alert(m, does, addr, acct).ip = addr
  <1>1. None \notin Blameless
    BY EngineAssumption, EventsAssumption DEF Blameless
  <1> QED BY <1>1 DEF Alert, AlertsOf, CleanAlerts, AlertType

\* What a module sees in its window has the key of the event and its entry.
LEMMA CurrentInSeq ==
  ASSUME NEW m \in Sliding, NEW ev \in EventType, Handles(m, ev),
         NEW S, windows[m] \in [Keys -> Seq(S)], Entry(m, ev) \in S
  PROVE  Current(m, ev) \in Seq(S)
  <1>1. KeyOf(m, ev) \in Keys
    BY KeyAndEntry
  <1>2. windows[m][KeyOf(m, ev)] \in Seq(S)
    BY <1>1
  <1>3. TrimOld(windows[m][KeyOf(m, ev)], Cutoff(m, ev)) \in Seq(S)
    BY <1>2, TrimOldInSeq
  <1> QED BY <1>3, AppendProperties DEF Current

LEMMA SaslAlertsAre ==
  ASSUME windows["sasl_connections"] \in [Keys -> Seq(CleanEntries)],
         NEW ev \in EventType, ev.ip \notin Blameless, Handles("sasl_connections", ev),
         NEW fails
  PROVE  SaslAlerts(ev, fails) \in
            Seq({al \in AlertsOf("sasl_connections") :
                    Justified(al, Current("sasl_connections", ev), fails)})
  <1> DEFINE m == "sasl_connections"
             w == Current(m, ev)
             good == {al \in AlertsOf(m) : Justified(al, w, fails)}
             clean == IPs \ Blameless
             ips == UniqueIPs(w)
             target == TargetIP(ips, ev.ip, fails)
             suspend == Suspend(m, ev, target)
             block(n) == Alert(m, "block_ip", ips[n], ev.account)
             blocks == [n \in 1..Len(ips) |-> block(n)]
  <1>1. ev.ip \in clean \cup {None} /\ ev.account \in Accounts \cup {None} /\ ev.ts \in Int
    BY DEF EventType
  <1>2. w \in Seq(CleanEntries)
    <2>1. Entry(m, ev) \in CleanEntries
      BY <1>1 DEF Entry, ItemOf, CleanEntries
    <2> QED BY <2>1, CurrentInSeq DEF Sliding
  <1>3. \A i \in 1..Len(w) : w[i].item # None => w[i].item \in clean
    <2> SUFFICES ASSUME NEW i \in 1..Len(w), w[i].item # None PROVE w[i].item \in clean
      OBVIOUS
    <2>1. w[i] \in CleanEntries
      <3> HIDE DEF w
      <3> QED BY <1>2, ElementOfSeq
    <2> QED BY <2>1 DEF CleanEntries
  <1> HIDE DEF w, clean
  <1>4. /\ ips \in Seq(clean)
        /\ \A i \in 1..Len(w) : w[i].item # None =>
              \E n \in 1..Len(ips) : ips[n] = w[i].item
    BY <1>2, <1>3, UniqueIPsAreItems
  <1> HIDE DEF ips
  <1>5. \/ /\ target = ev.ip
           /\ \/ AllowedCountries = {}
              \/ \A n \in 1..Len(ips) : IsAllowed(CountryOf[ips[n]])
        \/ /\ target \in clean
           /\ target \in fails \/ ~IsAllowed(CountryOf[target])
    BY <1>4, TargetIsForeign
  <1> HIDE DEF target
  <1>6. suspend \in good
    <2>1. target \in clean \cup {None}
      BY <1>1, <1>5
    <2>2. suspend \in AlertsOf(m) /\ suspend.ip = target
      BY <1>1, <2>1, AlertFields DEF Suspend, Modules, Sliding, clean
    <2>3. IsAllowed(CountryOf[target]) /\ target \notin fails =>
             \A i \in 1..Len(w) : w[i].item # None => IsAllowed(CountryOf[w[i].item])
      BY <1>4, <1>5 DEF IsAllowed
    <2> HIDE DEF suspend
    <2> QED BY <2>2, <2>3 DEF Justified, Spared
  <1>7. ASSUME NEW n \in 1..Len(ips) PROVE block(n) \in good
    <2>1. ips[n] \in clean
      BY <1>4, ElementOfSeq
    <2>2. block(n) \in AlertsOf(m) /\ block(n).action = "block_ip"
      BY <1>1, <2>1, AlertFields DEF Modules, Sliding, clean
    <2> HIDE DEF block
    <2> QED BY <2>2 DEF Justified, Spared
  <1>8. <<suspend>> \in Seq(good) /\ blocks \in Seq(good)
    <2> HIDE DEF suspend, block, good
    <2>1. Len(ips) \in Nat /\ blocks \in [1..Len(ips) -> good]
      BY <1>4, <1>7, LenProperties
    <2>2. blocks \in Seq(good)
      <3> HIDE DEF blocks
      <3> QED BY <2>1, FunctionIsSeq
    <2> QED BY <1>6, <2>2
  <1>9. SaslAlerts(ev, fails) = IF ManyAddresses(w, 1..Len(w))
                         THEN <<suspend>> \o blocks ELSE <<suspend>>
    BY DEF SaslAlerts, w, ips, target
  <1> HIDE DEF suspend, blocks, good
  <1>10. <<suspend>> \o blocks \in Seq(good)
    BY <1>8, ConcatProperties
  <1>11. SaslAlerts(ev, fails) \in Seq(good)
    BY <1>8, <1>9, <1>10
  <1> QED BY <1>11 DEF good, w

LEMMA WindowAlertsAre ==
  ASSUME windows["sasl_connections"] \in [Keys -> Seq(CleanEntries)],
         NEW ev \in EventType, ev.ip \notin Blameless, NEW m \in Sliding, NEW fails
  PROVE  /\ WindowAlerts(m, ev, fails) \in Seq(AlertsOf(m))
         /\ WindowAlerts(m, ev, fails) # <<>> => Fires(m, ev)
  <1>1. /\ ev.ip \in (IPs \ Blameless) \cup {None}
        /\ ev.account \in Accounts \cup {None} /\ m \in Modules
    BY DEF EventType, Modules
  <1>2. CASE ~Fires(m, ev)
    <2>1. WindowAlerts(m, ev, fails) = <<>>
      BY <1>2 DEF WindowAlerts
    <2> QED BY <2>1
  <1>3. CASE Fires(m, ev)
    <2>1. /\ Block(m, ev, None) \in AlertsOf(m) /\ Block(m, ev, ev.account) \in AlertsOf(m)
          /\ Suspend(m, ev, ev.ip) \in AlertsOf(m) /\ Suspend(m, ev, None) \in AlertsOf(m)
          /\ Notify(m, ev, None) \in AlertsOf(m) /\ Notify(m, ev, ev.account) \in AlertsOf(m)
      BY <1>1, AlertFields DEF Block, Suspend, Notify
    <2> DEFINE S == AlertsOf(m)
    <2> HIDE DEF S
    <2>2. CASE m = "auth_failed"
      BY <1>3, <2>1, <2>2 DEF WindowAlerts, AuthFailedAlerts, S
    <2>3. CASE m = "rcpt_flood"
      <3>1. /\ Block(m, ev, ev.account) \in S /\ Suspend(m, ev, ev.ip) \in S
        BY <2>1 DEF S
      <3>2. RcptFloodAlerts(ev) \in Seq(S)
        BY <2>3, <3>1 DEF RcptFloodAlerts
      <3>3. WindowAlerts(m, ev, fails) = RcptFloodAlerts(ev)
        BY <1>3, <2>3 DEF WindowAlerts
      <3> QED BY <1>3, <3>2, <3>3 DEF S
    <2>4. CASE m = "bounce_rate"
      BY <1>3, <2>1, <2>4 DEF WindowAlerts, BounceRateAlerts, S
    <2>5. CASE m = "number_messages"
      BY <1>3, <2>1, <2>5 DEF WindowAlerts, NumberMessagesAlerts, S
    <2>6. CASE m = "queue_monitor"
      BY <1>3, <2>1, <2>6 DEF WindowAlerts, QueueMonitorAlerts, S
    <2>7. CASE m = "dist_brute_force"
      BY <1>3, <2>1, <2>7 DEF WindowAlerts, DistBruteAlerts, S
    <2>8. CASE m = "password_spray"
      BY <1>3, <2>1, <2>8 DEF WindowAlerts, PasswordSprayAlerts, S
    <2>9. CASE m = "sasl_connections"
      <3>1. WindowAlerts(m, ev, fails) = SaslAlerts(ev, fails.sasl)
        BY <1>3, <2>9 DEF WindowAlerts
      <3>2. Handles("sasl_connections", ev)
        BY <1>3, <2>9 DEF Fires
      <3> DEFINE T == {al \in AlertsOf("sasl_connections") :
                          Justified(al, Current("sasl_connections", ev), fails.sasl)}
      <3>3. SaslAlerts(ev, fails.sasl) \in Seq(T) /\ T \subseteq AlertsOf(m)
        BY <2>9, <3>2, SaslAlertsAre
      <3> HIDE DEF T
      <3>4. SaslAlerts(ev, fails.sasl) \in Seq(AlertsOf(m))
        BY <3>3, SeqMonotonic
      <3> QED BY <1>3, <3>1, <3>4
    <2> QED BY <2>2, <2>3, <2>4, <2>5, <2>6, <2>7, <2>8, <2>9 DEF Sliding
  <1> QED BY <1>2, <1>3

LEMMA DiscoveryAlertsAre ==
  ASSUME NEW ev \in EventType, ev.ip \notin Blameless
  PROVE  /\ DiscoveryAlerts(ev) \in Seq(AlertsOf("domain_discovery"))
         /\ DiscoveryAlerts(ev) # <<>> => Discovers(ev)
  <1>1. Alert("domain_discovery", "block_ip", ev.ip, None) \in AlertsOf("domain_discovery")
    BY AlertFields DEF EventType, Modules
  <1> DEFINE S == AlertsOf("domain_discovery")
  <1> HIDE DEF S
  <1>2. <<Alert("domain_discovery", "block_ip", ev.ip, None)>> \in Seq(S)
    BY <1>1 DEF S
  <1>3. DiscoveryAlerts(ev) \in Seq(S)
    BY <1>2 DEF DiscoveryAlerts
  <1> QED BY <1>3 DEF DiscoveryAlerts, S

LEMMA TakeoverAlertsAre ==
  ASSUME NEW ev \in EventType, ev.ip \notin Blameless,
         NEW suspect, Sends(ev) => suspect \in IPs \ Blameless
  PROVE  /\ TakeoverAlerts(ev, suspect) \in Seq(AlertsOf("account_takeover"))
         /\ Breaks(ev) => TakeoverAlerts(ev, suspect) =
               <<Alert("account_takeover", "suspend_account", ev.ip, ev.account)>>
         /\ ~Breaks(ev) /\ Sends(ev) => TakeoverAlerts(ev, suspect) =
               <<Alert("account_takeover", "suspend_account", suspect, ev.account)>>
         /\ ~Breaks(ev) /\ ~Sends(ev) => TakeoverAlerts(ev, suspect) = <<>>
  <1> DEFINE S == AlertsOf("account_takeover")
             suspend(addr) == Alert("account_takeover", "suspend_account", addr, ev.account)
  <1>1. suspend(ev.ip) \in S
    BY AlertFields DEF EventType, Modules
  <1>2. Sends(ev) => suspend(suspect) \in S
    BY AlertFields DEF EventType, Modules
  <1>3. TakeoverAlerts(ev, suspect) =
           IF Breaks(ev) THEN <<suspend(ev.ip)>>
           ELSE IF Sends(ev) THEN <<suspend(suspect)>> ELSE <<>>
    BY DEF TakeoverAlerts
  <1> HIDE DEF S, suspend
  <1>4. TakeoverAlerts(ev, suspect) \in Seq(S)
    BY <1>1, <1>2, <1>3
  <1>5. TakeoverAlerts(ev, suspect) \in Seq(AlertsOf("account_takeover"))
    BY <1>4 DEF S
  <1> QED BY <1>3, <1>5 DEF suspend

\* The last login of an account, as far as its place is known.
PlacesTrue ==
    \A a \in Accounts :
        /\ lastLogins[a].ip \notin Blameless
        /\ lastLogins[a].country # None =>
              lastLogins[a].ip \in IPs /\ lastLogins[a].country = CountryOf[lastLogins[a].ip]

\* No suspension of impossible_traveler names an address of an allowed country.
LEMMA TravelAlertsAre ==
  ASSUME TravelTypeOK, PlacesTrue, NEW ev \in EventType, ev.ip \notin Blameless,
         NEW fails
  PROVE  /\ TravelAlerts(ev, fails) \in Seq({al \in AlertsOf("impossible_traveler") : ~Spared(al)})
         /\ TravelAlerts(ev, fails) # <<>> <=> Impossible(ev, fails)
  <1> DEFINE m == "impossible_traveler"
             good == {al \in AlertsOf(m) : ~Spared(al)}
             clean == IPs \ Blameless
             last == PruneStale(ev)[ev.account]
             foreign(addr) == IF IsAllowed(CountryOf[addr]) THEN <<>> ELSE <<addr>>
             blamed == IF Foreigners(ev) = <<>> THEN <<ev.ip>> ELSE Foreigners(ev)
             suspend == Alert(m, "suspend_account", blamed[1], ev.account)
             block(n) == Alert(m, "block_ip", blamed[n], ev.account)
             blocks == [n \in 1..(Len(blamed) - 1) |-> block(n + 1)]
  <1>0. TravelAlerts(ev, fails) = IF ~Impossible(ev, fails) THEN <<>> ELSE <<suspend>> \o blocks
    BY DEF TravelAlerts
  <1>1. CASE ~Impossible(ev, fails)
    <2>1. <<>> \in Seq(good)
      BY EmptySeq
    <2> QED BY <1>0, <1>1, <2>1
  <1>2. CASE Impossible(ev, fails)
    <2>1. /\ ev.account \in Accounts /\ ev.ip \in clean
          /\ last.country # None
          /\ ~(IsAllowed(last.country) /\ IsAllowed(CountryOf[ev.ip]))
      BY <1>2 DEF Impossible, Located, IsTrip, TooFast, EventType
    <2>2. last = lastLogins[ev.account] \/ last = NoLogin
      BY <2>1 DEF PruneStale
    <2>3. last.ip \in clean /\ last.country = CountryOf[last.ip]
      BY <2>1, <2>2 DEF NoLogin, PlacesTrue
    <2>4. Foreigners(ev) = IF AllowedCountries = {} THEN <<>>
                           ELSE foreign(ev.ip) \o foreign(last.ip)
      BY <2>3 DEF Foreigners
    <2> DEFINE alien == {addr \in clean : ~IsAllowed(CountryOf[addr])}
    <2>5. /\ foreign(ev.ip) \in Seq(alien) /\ foreign(last.ip) \in Seq(alien)
          /\ foreign(ev.ip) # <<>> \/ foreign(last.ip) # <<>>
      <3> HIDE DEF last, clean
      <3>1. ev.ip \in alien \/ foreign(ev.ip) = <<>>
        BY <2>1
      <3>2. last.ip \in alien \/ foreign(last.ip) = <<>>
        BY <2>3
      <3>3. ev.ip \in alien \/ last.ip \in alien
        BY <2>1, <2>3
      <3>4. \A addr \in alien : foreign(addr) = <<addr>>
        OBVIOUS
      <3> HIDE DEF alien, foreign
      <3>5. <<>> \in Seq(alien) /\ \A addr \in alien : <<addr>> \in Seq(alien) /\ <<addr>> # <<>>
        OBVIOUS
      <3> QED BY <3>1, <3>2, <3>3, <3>4, <3>5
    <2>6. blamed \in Seq(clean) /\ blamed # <<>>
          /\ ~(blamed[1] # None /\ IsAllowed(CountryOf[blamed[1]]))
      <3> HIDE DEF foreign, last
      <3>1. CASE AllowedCountries = {}
        <4>1. blamed = <<ev.ip>>
          BY <2>4, <3>1
        <4>2. blamed[1] = ev.ip /\ ~IsAllowed(CountryOf[ev.ip])
          BY <3>1, <4>1 DEF IsAllowed
        <4> HIDE DEF blamed, clean
        <4> QED BY <2>1, <4>1, <4>2
      <3>2. CASE AllowedCountries # {}
        <4> DEFINE both == foreign(ev.ip) \o foreign(last.ip)
        <4> HIDE DEF alien
        <4>1. both \in Seq(alien) /\ both # <<>>
          <5>1. both \in Seq(alien) /\ Len(both) = Len(foreign(ev.ip)) + Len(foreign(last.ip))
            BY <2>5, ConcatProperties
          <5>2. /\ Len(foreign(ev.ip)) \in Nat /\ Len(foreign(last.ip)) \in Nat
                /\ Len(foreign(ev.ip)) # 0 \/ Len(foreign(last.ip)) # 0
            BY <2>5, EmptySeq, LenProperties
          <5>3. Len(both) # 0
            <6> HIDE DEF both
            <6> QED BY <5>1, <5>2
          <5>4. Len(<<>>) = 0
            BY EmptySeq
          <5> HIDE DEF both
          <5> QED BY <5>1, <5>3, <5>4
        <4>2. blamed = both
          <5>1. Foreigners(ev) = both
            BY <2>4, <3>2
          <5> HIDE DEF both
          <5> QED BY <4>1, <5>1
        <4> HIDE DEF both, blamed
        <4>3. 1 \in 1..Len(both)
          BY <4>1, EmptySeq
        <4>4. both[1] \in alien
          BY <4>1, <4>3, ElementOfSeq
        <4>5. alien \subseteq clean /\ ~IsAllowed(CountryOf[both[1]])
          BY <4>4 DEF alien
        <4>6. both \in Seq(clean)
          BY <4>1, <4>5, SeqMonotonic
        <4> QED BY <4>1, <4>2, <4>5, <4>6
      <3> QED BY <3>1, <3>2
    <2> HIDE DEF blamed
    <2>7. \A n \in 1..Len(blamed) : blamed[n] \in clean
      BY <2>6, ElementOfSeq
    <2>8. Len(blamed) \in Nat /\ 1 \in 1..Len(blamed)
      BY <2>6, EmptySeq
    <2>fields. ev.account \in Accounts \cup {None} /\ m \in Modules
      BY <2>1 DEF Modules
    <2>9. suspend \in good
      <3>0. blamed[1] \in (IPs \ Blameless) \cup {None}
        BY <2>7, <2>8
      <3>1. suspend \in AlertsOf(m) /\ suspend.ip = blamed[1]
        BY <2>fields, <3>0, AlertFields
      <3> HIDE DEF suspend
      <3> QED BY <2>6, <3>1 DEF Spared
    <2>10. ASSUME NEW n \in 1..(Len(blamed) - 1) PROVE block(n + 1) \in good
      <3>1. blamed[n + 1] \in (IPs \ Blameless) \cup {None}
        BY <2>7, <2>8
      <3>2. block(n + 1) \in AlertsOf(m) /\ block(n + 1).action = "block_ip"
        BY <2>fields, <3>1, AlertFields
      <3> HIDE DEF block
      <3> QED BY <3>2 DEF Spared
    <2> HIDE DEF suspend, block, good
    <2>11. <<suspend>> \in Seq(good) /\ Len(<<suspend>>) = 1
      BY <2>9
    <2>12. blocks \in Seq(good) /\ Len(blocks) \in Nat
      <3>1. blocks \in [1..(Len(blamed) - 1) -> good] /\ Len(blamed) - 1 \in Nat
        BY <2>8, <2>10
      <3> HIDE DEF blocks
      <3>2. blocks \in Seq(good)
        BY <3>1, FunctionIsSeq
      <3> QED BY <3>2, LenProperties
    <2> HIDE DEF blocks
    <2>13. <<suspend>> \o blocks \in Seq(good) /\ Len(<<suspend>> \o blocks) = 1 + Len(blocks)
      BY <2>11, <2>12, ConcatProperties
    <2>14. Len(<<suspend>> \o blocks) # 0 /\ Len(<<>>) = 0
      BY <2>12, <2>13, EmptySeq
    <2>15. TravelAlerts(ev, fails) \in Seq(good) /\ TravelAlerts(ev, fails) # <<>>
      BY <1>0, <1>2, <2>13, <2>14
    <2> QED BY <1>2, <2>15 DEF good
  <1> QED BY <1>1, <1>2

LEMMA RangeOfConcat ==
  ASSUME NEW S, NEW s \in Seq(S), NEW t \in Seq(S)
  PROVE  s \o t \in Seq(S) /\ Range(s \o t) = Range(s) \cup Range(t)
  BY ConcatProperties, RangeConcatenation

LEMMA RangeInSeq ==
  ASSUME NEW S, NEW s \in Seq(S)
  PROVE  Range(s) \subseteq S /\ (s = <<>> <=> Range(s) = {})
  <1>1. Range(s) \subseteq S /\ Range(s) = {s[i] : i \in 1..Len(s)}
    BY RangeOfSeq, RangeEquality
  <1>2. s = <<>> => 1..Len(s) = {}
    BY EmptySeq
  <1>3. s # <<>> => 1 \in 1..Len(s)
    BY EmptySeq
  <1> QED BY <1>1, <1>2, <1>3

\* Every alert comes from the module it names.
LEMMA AlertsByModule ==
  ASSUME windows["sasl_connections"] \in [Keys -> Seq(CleanEntries)],
         TravelTypeOK, PlacesTrue, NEW ev \in EventType, ev.ip \notin Blameless,
         NEW fails, NEW suspect, Sends(ev) => suspect \in IPs \ Blameless
  PROVE  /\ Alerts(ev, suspect, fails) \in Seq(CleanAlerts)
         /\ \A m \in Sliding :
               {al \in Range(Alerts(ev, suspect, fails)) : al.module = m} = Range(WindowAlerts(m, ev, fails))
         /\ {al \in Range(Alerts(ev, suspect, fails)) : al.module = "domain_discovery"}
               = Range(DiscoveryAlerts(ev))
         /\ {al \in Range(Alerts(ev, suspect, fails)) : al.module = "impossible_traveler"}
               = Range(TravelAlerts(ev, fails))
         /\ {al \in Range(Alerts(ev, suspect, fails)) : al.module = "account_takeover"}
               = Range(TakeoverAlerts(ev, suspect))
  <1> DEFINE C == CleanAlerts
             W(m) == WindowAlerts(m, ev, fails)
             s1 == W("auth_failed")
             s2 == s1 \o W("number_messages")
             s3 == s2 \o W("sasl_connections")
             s4 == s3 \o TravelAlerts(ev, fails)
             s5 == s4 \o W("queue_monitor")
             s6 == s5 \o DiscoveryAlerts(ev)
             s7 == s6 \o W("bounce_rate")
             s8 == s7 \o W("rcpt_flood")
             s9 == s8 \o W("dist_brute_force")
             s10 == s9 \o W("password_spray")
             s11 == s10 \o TakeoverAlerts(ev, suspect)
             R == Range(Alerts(ev, suspect, fails))
  <1>0. Alerts(ev, suspect, fails) = s11
    BY DEF Alerts
  <1>1. \A m \in Modules : AlertsOf(m) \subseteq C
    BY DEF AlertsOf
  <1>2. ASSUME NEW m \in Sliding
        PROVE  W(m) \in Seq(C) /\ Range(W(m)) \subseteq AlertsOf(m)
    <2>1. W(m) \in Seq(AlertsOf(m)) /\ m \in Modules
      BY WindowAlertsAre DEF Modules
    <2> HIDE DEF W
    <2> QED BY <1>1, <2>1, RangeInSeq, SeqMonotonic
  <1>3. /\ DiscoveryAlerts(ev) \in Seq(C)
        /\ Range(DiscoveryAlerts(ev)) \subseteq AlertsOf("domain_discovery")
    <2>1. DiscoveryAlerts(ev) \in Seq(AlertsOf("domain_discovery"))
      BY DiscoveryAlertsAre
    <2>2. "domain_discovery" \in Modules
      BY DEF Modules
    <2> QED BY <1>1, <2>1, <2>2, RangeInSeq, SeqMonotonic
  <1>4. /\ TravelAlerts(ev, fails) \in Seq(C)
        /\ Range(TravelAlerts(ev, fails)) \subseteq AlertsOf("impossible_traveler")
    <2> DEFINE T == {al \in AlertsOf("impossible_traveler") : ~Spared(al)}
    <2>1. TravelAlerts(ev, fails) \in Seq(T)
      BY TravelAlertsAre
    <2>2. T \subseteq AlertsOf("impossible_traveler") /\ "impossible_traveler" \in Modules
      BY DEF Modules
    <2> HIDE DEF T
    <2>3. T \subseteq C
      BY <1>1, <2>2
    <2> QED BY <2>1, <2>2, <2>3, RangeInSeq, SeqMonotonic
  <1>5. /\ TakeoverAlerts(ev, suspect) \in Seq(C)
        /\ Range(TakeoverAlerts(ev, suspect)) \subseteq AlertsOf("account_takeover")
    <2>1. TakeoverAlerts(ev, suspect) \in Seq(AlertsOf("account_takeover"))
      BY TakeoverAlertsAre
    <2>2. "account_takeover" \in Modules
      BY DEF Modules
    <2> QED BY <1>1, <2>1, <2>2, RangeInSeq, SeqMonotonic
  <1>6. \A m \in Sliding : W(m) \in Seq(C)
    BY <1>2
  <1> HIDE DEF C, W
  <1>7. s2 \in Seq(C) /\ Range(s2) = Range(W("auth_failed")) \cup Range(W("number_messages"))
    BY <1>6, RangeOfConcat DEF Sliding
  <1> HIDE DEF s2
  <1>8. s3 \in Seq(C) /\ Range(s3) = Range(s2) \cup Range(W("sasl_connections"))
    BY <1>6, <1>7, RangeOfConcat DEF Sliding
  <1> HIDE DEF s3
  <1>9. s4 \in Seq(C) /\ Range(s4) = Range(s3) \cup Range(TravelAlerts(ev, fails))
    BY <1>4, <1>8, RangeOfConcat
  <1> HIDE DEF s4
  <1>10. s5 \in Seq(C) /\ Range(s5) = Range(s4) \cup Range(W("queue_monitor"))
    BY <1>6, <1>9, RangeOfConcat DEF Sliding
  <1> HIDE DEF s5
  <1>11. s6 \in Seq(C) /\ Range(s6) = Range(s5) \cup Range(DiscoveryAlerts(ev))
    BY <1>3, <1>10, RangeOfConcat
  <1> HIDE DEF s6
  <1>12. s7 \in Seq(C) /\ Range(s7) = Range(s6) \cup Range(W("bounce_rate"))
    BY <1>6, <1>11, RangeOfConcat DEF Sliding
  <1> HIDE DEF s7
  <1>13. s8 \in Seq(C) /\ Range(s8) = Range(s7) \cup Range(W("rcpt_flood"))
    BY <1>6, <1>12, RangeOfConcat DEF Sliding
  <1> HIDE DEF s8
  <1>14. s9 \in Seq(C) /\ Range(s9) = Range(s8) \cup Range(W("dist_brute_force"))
    BY <1>6, <1>13, RangeOfConcat DEF Sliding
  <1> HIDE DEF s9
  <1>15. s10 \in Seq(C) /\ Range(s10) = Range(s9) \cup Range(W("password_spray"))
    BY <1>6, <1>14, RangeOfConcat DEF Sliding
  <1> HIDE DEF s10
  <1>16. s11 \in Seq(C) /\ Range(s11) = Range(s10) \cup Range(TakeoverAlerts(ev, suspect))
    BY <1>5, <1>15, RangeOfConcat
  <1> HIDE DEF s11
  <1>17. /\ \A al \in R : \/ \E m \in Sliding : al \in Range(W(m))
                         \/ al \in Range(DiscoveryAlerts(ev)) \/ al \in Range(TravelAlerts(ev, fails))
                         \/ al \in Range(TakeoverAlerts(ev, suspect))
         /\ \A m \in Sliding : Range(W(m)) \subseteq R
         /\ Range(DiscoveryAlerts(ev)) \subseteq R /\ Range(TravelAlerts(ev, fails)) \subseteq R
         /\ Range(TakeoverAlerts(ev, suspect)) \subseteq R
    BY <1>0, <1>7, <1>8, <1>9, <1>10, <1>11, <1>12, <1>13, <1>14, <1>15, <1>16 DEF Sliding
  <1>18. \A m : \A al \in AlertsOf(m) : al.module = m
    BY DEF AlertsOf
  <1>19. "domain_discovery" \notin Sliding /\ "impossible_traveler" \notin Sliding
         /\ "account_takeover" \notin Sliding
    BY DEF Sliding
  <1> HIDE DEF R
  <1> DEFINE D == Range(DiscoveryAlerts(ev))
             T == Range(TravelAlerts(ev, fails))
             A == Range(TakeoverAlerts(ev, suspect))
  <1>20. /\ \A al \in D : al.module = "domain_discovery"
         /\ \A al \in T : al.module = "impossible_traveler"
         /\ \A al \in A : al.module = "account_takeover"
         /\ \A m \in Sliding : \A al \in Range(W(m)) : al.module = m
    BY <1>2, <1>3, <1>4, <1>5, <1>18 DEF W
  <1> HIDE DEF D, T, A
  <1>21. /\ \A al \in R : \/ \E m \in Sliding : al \in Range(W(m))
                         \/ al \in D \/ al \in T \/ al \in A
         /\ \A m \in Sliding : Range(W(m)) \subseteq R
         /\ D \subseteq R /\ T \subseteq R /\ A \subseteq R
    BY <1>17 DEF D, T, A
  <1>22. /\ {al \in R : al.module = "domain_discovery"} = D
         /\ {al \in R : al.module = "impossible_traveler"} = T
         /\ {al \in R : al.module = "account_takeover"} = A
    BY <1>19, <1>20, <1>21
  <1>23. ASSUME NEW m \in Sliding PROVE {al \in R : al.module = m} = Range(W(m))
    <2>1. \A al \in R : al.module = m => al \in Range(W(m))
      BY <1>19, <1>20, <1>21
    <2>2. \A al \in Range(W(m)) : al \in R /\ al.module = m
      BY <1>20, <1>21
    <2> QED BY <2>1, <2>2
  <1> QED BY <1>0, <1>16, <1>22, <1>23 DEF C, W, R, D, T, A

-----------------------------------------------------------------------------
(* Types, and that nothing about an exempt address is kept.                *)

Clean ==
    /\ windows["sasl_connections"] \in [Keys -> Seq(CleanEntries)]
    /\ failures \in [Accounts -> Seq(CleanFailures)]
    /\ PlacesTrue
    /\ pending \in Seq(CleanAlerts) /\ alertCh \in Seq(CleanAlerts)

EngineInv == EngineTypeOK /\ Clean

LEMMA UpdatedInSeq ==
  ASSUME NEW m \in Sliding, NEW ev \in EventType, Handles(m, ev),
         windows[m] \in [Keys -> Seq(Entries)],
         NEW S, windows[m] \in [Keys -> Seq(S)], Entry(m, ev) \in S
  PROVE  Updated(m, ev) \in [Keys -> Seq(S)]
  <1>1. <<>> \in Seq(S) /\ Current(m, ev) \in Seq(S)
    BY CurrentInSeq, EmptySeq
  <1>2. Remaining(m, ev) \in Seq(S)
    BY <1>1 DEF Remaining
  <1>3. \A k \in Keys : Updated(m, ev)[k] \in Seq(S)
    BY <1>1, <1>2, UpdatedWindows
  <1> QED BY <1>3, UpdatedWindows

LEMMA WindowsKeepType ==
  ASSUME WindowsTypeOK, NEW ev \in EventType, HandleWindows(ev)
  PROVE  WindowsTypeOK'
  <1>1. ASSUME NEW m \in Sliding, ~Handles(m, ev)
        PROVE  /\ windows'[m] \in [Keys -> Seq(Entries)]
               /\ since'[m] \in [Keys -> Seq(Entries)]
               /\ callCount'[m] \in 0..(PruneEvery - 1)
    BY <1>1 DEF HandleWindows, WindowsTypeOK
  <1>2. ASSUME NEW m \in Sliding, Handles(m, ev)
        PROVE  /\ windows'[m] \in [Keys -> Seq(Entries)]
               /\ since'[m] \in [Keys -> Seq(Entries)]
               /\ callCount'[m] \in 0..(PruneEvery - 1)
    <2>1. /\ windows[m] \in [Keys -> Seq(Entries)] /\ since[m] \in [Keys -> Seq(Entries)]
          /\ callCount[m] \in 0..(PruneEvery - 1)
      BY DEF WindowsTypeOK
    <2>2. KeyOf(m, ev) \in Keys /\ Entry(m, ev) \in Entries
      BY <1>2, KeyAndEntry
    <2>3. Updated(m, ev) \in [Keys -> Seq(Entries)]
      BY <1>2, <2>1, <2>2, UpdatedInSeq
    <2>4. <<>> \in Seq(Entries) /\ Append(since[m][KeyOf(m, ev)], Entry(m, ev)) \in Seq(Entries)
      BY <2>1, <2>2, AppendProperties
    <2>5. /\ windows'[m] = Updated(m, ev)
          /\ since'[m] = [since[m] EXCEPT ![KeyOf(m, ev)] =
                IF Fires(m, ev) THEN <<>> ELSE Append(@, Entry(m, ev))]
          /\ callCount'[m] = IF Due(m) THEN 0 ELSE callCount[m] + 1
      BY <1>2 DEF HandleWindows
    <2>6. callCount'[m] \in 0..(PruneEvery - 1)
      BY <2>1, <2>5, EventsAssumption DEF Due
    <2> QED BY <2>1, <2>2, <2>3, <2>4, <2>5, <2>6
  <1>3. /\ windows' = [m \in Sliding |-> windows'[m]] /\ since' = [m \in Sliding |-> since'[m]]
        /\ callCount' = [m \in Sliding |-> callCount'[m]]
    BY DEF HandleWindows
  <1>4. \A m \in Sliding : windows'[m] \in [Keys -> Seq(Entries)]
    BY <1>1, <1>2
  <1>5. \A m \in Sliding : since'[m] \in [Keys -> Seq(Entries)]
    BY <1>1, <1>2
  <1>6. \A m \in Sliding : callCount'[m] \in 0..(PruneEvery - 1)
    BY <1>1, <1>2
  <1>7. windows' \in [Sliding -> [Keys -> Seq(Entries)]]
    BY <1>3, <1>4
  <1>8. since' \in [Sliding -> [Keys -> Seq(Entries)]]
    BY <1>3, <1>5
  <1>9. callCount' \in [Sliding -> 0..(PruneEvery - 1)]
    BY <1>3, <1>6
  <1> QED BY <1>7, <1>8, <1>9 DEF WindowsTypeOK

LEMMA LoginsStayClean ==
  ASSUME WindowsTypeOK, windows["sasl_connections"] \in [Keys -> Seq(CleanEntries)],
         NEW ev \in EventType, ev.ip \notin Blameless, HandleWindows(ev)
  PROVE  windows'["sasl_connections"] \in [Keys -> Seq(CleanEntries)]
  <1> DEFINE m == "sasl_connections"
  <1>1. m \in Sliding
    BY DEF Sliding
  <1>2. windows'[m] = IF Handles(m, ev) THEN Updated(m, ev) ELSE windows[m]
    BY <1>1 DEF HandleWindows
  <1>3. CASE Handles(m, ev)
    <2>1. Entry(m, ev) \in CleanEntries
      BY DEF Entry, ItemOf, CleanEntries, EventType
    <2>2. windows[m] \in [Keys -> Seq(Entries)]
      BY <1>1 DEF WindowsTypeOK
    <2>3. Updated(m, ev) \in [Keys -> Seq(CleanEntries)]
      BY <1>1, <1>3, <2>1, <2>2, UpdatedInSeq
    <2> QED BY <1>2, <1>3, <2>3
  <1>4. CASE ~Handles(m, ev)
    BY <1>2, <1>4
  <1> QED BY <1>3, <1>4

LEMMA DiscoveryKeepsType ==
  ASSUME DiscoveryTypeOK, NEW ev \in EventType, HandleDiscovery(ev)
  PROVE  DiscoveryTypeOK'
  <1>1. CASE ~IsAttack(ev)
    BY <1>1 DEF HandleDiscovery, discoveryVars, DiscoveryTypeOK
  <1>2. CASE IsAttack(ev)
    <2> DEFINE State == [start : Int, domains : SUBSET Domains]
               Attack == [ts : Int, item : Domains]
               attack == [ts |-> ev.ts, item |-> DomainOf[ev.account]]
    <2>1. /\ ev.ip \in IPs /\ ev.account \in Accounts /\ ev.ts \in Int
          /\ DomainOf[ev.account] \in Domains
      BY <1>2, EventsAssumption DEF IsAttack, EventType
    <2>2. states \in [IPs -> State] /\ discoveryCalls \in 0..(PruneEvery - 1)
          /\ attacks \in [IPs -> Seq(Attack)]
      BY DEF DiscoveryTypeOK
    <2>3. NoState \in State
      BY DEF NoState
    <2>4. PruneDiscovery(ev.ts) \in [IPs -> State]
      <3> HIDE DEF State
      <3> QED BY <2>2, <2>3 DEF PruneDiscovery
    <2>5. PruneDiscovery(ev.ts)[ev.ip] \in State
      BY <2>1, <2>4
    <2>6. Window(PruneDiscovery(ev.ts)[ev.ip], ev) \in State
      BY <2>1, <2>5 DEF Window
    <2>7. Attacked(ev) \in State
      BY <2>1, <2>6 DEF Attacked
    <2>8. attack \in Attack
      BY <2>1
    <2> HIDE DEF State, Attack, attack
    <2>9. states' \in [IPs -> State]
      BY <1>2, <2>1, <2>3, <2>4, <2>7 DEF HandleDiscovery
    <2>10. discoveryCalls' \in 0..(PruneEvery - 1)
      BY <1>2, <2>2, EventsAssumption DEF HandleDiscovery
    <2>11. attacks' \in [IPs -> Seq(Attack)]
      <3>1. <<>> \in Seq(Attack) /\ Append(attacks[ev.ip], attack) \in Seq(Attack)
        BY <2>1, <2>2, <2>8, AppendProperties
      <3>2. attacks' = [attacks EXCEPT ![ev.ip] =
               IF Discovers(ev) THEN <<>> ELSE Append(@, attack)]
        BY <1>2 DEF HandleDiscovery, attack
      <3> QED BY <2>2, <3>1, <3>2
    <2> QED BY <2>9, <2>10, <2>11 DEF DiscoveryTypeOK, State, Attack
  <1> QED BY <1>1, <1>2

LEMMA PurgedInSeq ==
  ASSUME NEW S, failures \in [Accounts -> Seq(S)], NEW ev
  PROVE  /\ Purged(ev) \in [Accounts -> Seq(S)]
         /\ ev.account \in Accounts => Recent(ev) \in Seq(S)
  <1>1. \A a \in Accounts : TrimOld(failures[a], ev.ts - CorrelWindow) \in Seq(S)
    BY TrimOldInSeq
  <1>2. Purged(ev) \in [Accounts -> Seq(S)]
    BY <1>1 DEF Purged
  <1> QED BY <1>2, TrimOldInSeq DEF Recent

LEMMA FailuresInSeq ==
  ASSUME NEW S, failures \in [Accounts -> Seq(S)], NEW ev, HandleTakeover(ev),
         IsFailure(ev) => [ts |-> ev.ts, item |-> ev.ip] \in S,
         IsFailure(ev) \/ IsLogin(ev) \/ IsMessage(ev) => ev.account \in Accounts
  PROVE  failures' \in [Accounts -> Seq(S)]
  <1> DEFINE fail == [ts |-> ev.ts, item |-> ev.ip]
  <1>1. Purged(ev) \in [Accounts -> Seq(S)]
    BY PurgedInSeq
  <1>2. CASE ~(IsFailure(ev) \/ IsLogin(ev) \/ IsMessage(ev))
    BY <1>1, <1>2 DEF HandleTakeover
  <1>3. CASE IsFailure(ev) \/ IsLogin(ev) \/ IsMessage(ev)
    <2>1. Recent(ev) \in Seq(S) /\ <<>> \in Seq(S)
      BY <1>3, PurgedInSeq
    <2>2. IsFailure(ev) => InsertInOrder(Recent(ev), fail) \in Seq(S)
      BY <2>1, InsertInOrderPlace
    <2>3. failures' = [Purged(ev) EXCEPT ![ev.account] =
                         IF Breaks(ev) \/ Crowded(ev) THEN <<>>
                         ELSE IF IsFailure(ev) THEN InsertInOrder(Recent(ev), fail)
                         ELSE Recent(ev)]
      BY <1>3 DEF HandleTakeover
    <2> HIDE DEF fail
    <2> QED BY <1>1, <2>1, <2>2, <2>3
  <1> QED BY <1>2, <1>3

LEMMA TakeoverKeepsType ==
  ASSUME TakeoverTypeOK, NEW ev \in EventType, HandleTakeover(ev)
  PROVE  TakeoverTypeOK'
  <1> DEFINE fail == [ts |-> ev.ts, item |-> ev.ip]
             tracked == IsFailure(ev) \/ IsLogin(ev) \/ IsMessage(ev)
  <1>1. tracked => ev.account \in Accounts
    BY DEF IsFailure, IsLogin, IsMessage, EventType
  <1>2. IsFailure(ev) => fail \in Failures
    BY DEF IsFailure, EventType, Failures
  <1>3. failures' \in [Accounts -> Seq(Failures)]
    <2>1. failures \in [Accounts -> Seq(Failures)]
      BY DEF TakeoverTypeOK
    <2> QED BY <1>1, <1>2, <2>1, FailuresInSeq
  <1>4. takeoverCalls' \in 0..(PruneEvery - 1)
    BY EventsAssumption DEF HandleTakeover, TakeoverTypeOK
  <1>5. /\ attempts \in [Accounts -> Seq(Failures)] /\ unreported \in [Accounts -> Seq(Failures)]
        /\ <<>> \in Seq(Failures)
    BY DEF TakeoverTypeOK
  <1>6. \A w \in Seq(Failures) : IsFailure(ev) => Append(w, fail) \in Seq(Failures)
    BY <1>2, AppendProperties
  <1>7. attempts' = IF ~tracked THEN attempts
                    ELSE [attempts EXCEPT ![ev.account] =
                             IF Breaks(ev) \/ Crowded(ev) THEN <<>>
                             ELSE IF IsFailure(ev) THEN Append(@, fail) ELSE @]
    BY DEF HandleTakeover
  <1>8. unreported' = IF ~tracked THEN unreported
                      ELSE [unreported EXCEPT ![ev.account] =
                               IF Breaks(ev) \/ Sends(ev) THEN <<>>
                               ELSE IF IsFailure(ev) THEN Append(@, fail) ELSE @]
    BY DEF HandleTakeover
  <1> HIDE DEF fail, tracked
  <1>9. attempts' \in [Accounts -> Seq(Failures)]
    BY <1>1, <1>5, <1>6, <1>7
  <1>10. unreported' \in [Accounts -> Seq(Failures)]
    BY <1>1, <1>5, <1>6, <1>8
  <1> QED BY <1>3, <1>4, <1>9, <1>10 DEF TakeoverTypeOK

LEMMA TravelKeepsType ==
  ASSUME TravelTypeOK, NEW ev \in EventType, NEW fails, HandleTravel(ev, fails)
  PROVE  TravelTypeOK'
  <1>1. CASE ~IsTrip(ev, fails)
    BY <1>1 DEF HandleTravel, travelVars, TravelTypeOK
  <1>2. CASE IsTrip(ev, fails)
    <2> DEFINE Login == [country : Countries \cup {None}, ip : IPs \cup {None}, ts : Int]
               Past == [country : Countries \cup {None}, ts : Int, alerted : BOOLEAN]
    <2>1. ev.account \in Accounts /\ ev.ip \in IPs /\ ev.ts \in Int
          /\ CountryOf[ev.ip] \in Countries \cup {None}
      BY <1>2, EventsAssumption DEF IsTrip, EventType
    <2>2. lastLogins \in [Accounts -> Login] /\ previous \in [Accounts -> Past]
          /\ travelCalls \in 0..(PruneEvery - 1)
      BY DEF TravelTypeOK
    <2>3. NoLogin \in Login
      BY DEF NoLogin
    <2>4. EnteredAt(ev, fails) \in Int
      BY <2>1, ImpossibleTravelerAssumption DEF EnteredAt
    <2>5. [country |-> CountryOf[ev.ip], ip |-> ev.ip, ts |-> EnteredAt(ev, fails)] \in Login
      BY <2>1, <2>4
    <2>6. Impossible(ev, fails) \in BOOLEAN
      BY DEF Impossible, Located, IsTrip, TooFast
    <2>7. [country |-> CountryOf[ev.ip], ts |-> ev.ts, alerted |-> Impossible(ev, fails)] \in Past
      BY <2>1, <2>6
    <2> HIDE DEF Login, Past
    <2>8. PruneStale(ev) \in [Accounts -> Login]
      BY <2>2, <2>3 DEF PruneStale
    <2>9. lastLogins' \in [Accounts -> Login]
      BY <1>2, <2>5, <2>8 DEF HandleTravel
    <2>10. previous' \in [Accounts -> Past]
      BY <1>2, <2>2, <2>7 DEF HandleTravel
    <2>11. travelCalls' \in 0..(PruneEvery - 1)
      BY <1>2, <2>2, EventsAssumption DEF HandleTravel
    <2> QED BY <2>9, <2>10, <2>11 DEF TravelTypeOK, Login, Past
  <1> QED BY <1>1, <1>2

LEMMA PlacesStayTrue ==
  ASSUME TravelTypeOK, PlacesTrue, NEW ev \in EventType, ev.ip \notin Blameless,
         NEW fails, HandleTravel(ev, fails)
  PROVE  PlacesTrue'
  <1>1. CASE ~Located(ev, fails)
    <2>1. \A a \in Accounts : lastLogins'[a] = lastLogins[a] \/ lastLogins'[a] = NoLogin
      BY <1>1 DEF HandleTravel, travelVars, PruneStale, TravelTypeOK
    <2>2. NoLogin.ip \notin Blameless /\ NoLogin.country = None
      BY EngineAssumption, EventsAssumption DEF NoLogin, Blameless
    <2> QED BY <2>1, <2>2 DEF PlacesTrue
  <1>2. CASE Located(ev, fails)
    <2> DEFINE login == [country |-> CountryOf[ev.ip], ip |-> ev.ip, ts |-> EnteredAt(ev, fails)]
    <2>0. ev.account \in Accounts /\ ev.ip \in IPs /\ login.ip = ev.ip
          /\ login.country = CountryOf[ev.ip]
      BY <1>2 DEF Located, IsTrip, EventType
    <2>3. lastLogins' = [PruneStale(ev) EXCEPT ![ev.account] = login]
      BY <1>2 DEF HandleTravel, Located
    <2> HIDE DEF login
    <2>1. \A a \in Accounts : \/ lastLogins'[a] = lastLogins[a] \/ lastLogins'[a] = NoLogin
                              \/ lastLogins'[a] = login
      BY <2>3 DEF PruneStale, TravelTypeOK
    <2>2. NoLogin.ip \notin Blameless /\ NoLogin.country = None
      BY EngineAssumption, EventsAssumption DEF NoLogin, Blameless
    <2> QED BY <2>0, <2>1, <2>2 DEF PlacesTrue
  <1> QED BY <1>1, <1>2

LEMMA SuspectsAreClean ==
  ASSUME failures \in [Accounts -> Seq(CleanFailures)], NEW ev \in EventType,
         NEW suspect \in Suspects(ev), Sends(ev)
  PROVE  suspect \in IPs \ Blameless
  <1>1. ev.account \in Accounts
    BY DEF Sends, Crowded, IsMessage, EventType
  <1>2. Recent(ev) \in Seq(CleanFailures)
    BY <1>1, PurgedInSeq
  <1>3. PICK i \in 1..Len(Recent(ev)) : suspect = Recent(ev)[i].item
    BY DEF Suspects, Dominant, Attackers
  <1>4. Recent(ev)[i] \in CleanFailures
    BY <1>2, ElementOfSeq
  <1> QED BY <1>3, <1>4 DEF CleanFailures

\* An event handed to the modules: not of an exempt address, at most as late
\* as the lag of a log.
LEMMA Dispatching ==
  ASSUME EngineTypeOK, NEW kind \in Kinds, NEW at \in 0..MaxTime, Dispatch(kind, at)
  PROVE  /\ Seen \in EventType /\ Seen.ts = at /\ Seen.ip \notin Blameless
         /\ now' \in 0..MaxTime /\ now <= now' /\ now - Skew <= at /\ at <= now'
         /\ event' \in EventType /\ lost' \in LookupFailures /\ events' \in 0..MaxEvents
         /\ HandleWindows(Seen) /\ HandleDiscovery(Seen)
         /\ HandleTakeover(Seen) /\ HandleTravel(Seen, lost')
         /\ \E suspect \in Suspects(Seen) : pending' = Alerts(Seen, suspect, lost')
         /\ UNCHANGED <<alertCh, lists>>
  <1> DEFINE entry == [kind EXCEPT !.ts = at]
  <1>0. MaxTime \in Nat /\ MaxEvents \in Nat /\ Skew \in Nat /\ kind \in EventType
        /\ at \in Nat /\ at <= MaxTime
    BY EngineAssumption, EventsAssumption
  <1>1. Arrives(kind, at) /\ ~IsWhitelisted(event')
    BY DEF Dispatch
  <1>2. /\ event' = entry /\ at >= now - Skew /\ events < MaxEvents /\ events' = events + 1
        /\ now' = IF at > now THEN at ELSE now
        /\ UNCHANGED <<alertCh, lists>>
    BY <1>1 DEF Arrives
  <1>3. entry \in EventType /\ entry.ts = at
    BY <1>0 DEF EventType
  <1> HIDE DEF entry
  <1>4. Seen = ClearProxy(entry)
    BY <1>2 DEF Seen
  <1>5. [entry EXCEPT !.ip = None] \in EventType /\ [entry EXCEPT !.ip = None].ts = at
        /\ [entry EXCEPT !.ip = None].ip = None
    BY <1>3 DEF EventType
  <1>6. Seen \in EventType /\ Seen.ts = at
    BY <1>3, <1>4, <1>5 DEF ClearProxy
  <1>7. Seen.ip \notin Blameless
    <2>1. entry.ip \notin Private
      BY <1>1, <1>2 DEF IsWhitelisted, ContainsIP
    <2>2. None \notin Blameless
      BY EngineAssumption, EventsAssumption DEF Blameless
    <2> QED BY <1>4, <1>5, <2>1, <2>2 DEF ClearProxy, Blameless
  <1>8. now \in 0..MaxTime /\ events \in 0..MaxEvents
    BY DEF EngineTypeOK
  <1>9. now' \in 0..MaxTime /\ now <= now' /\ now - Skew <= at /\ at <= now'
    BY <1>0, <1>2, <1>8
  <1>10. events' \in 0..MaxEvents
    BY <1>0, <1>2, <1>8
  <1>11. /\ HandleWindows(Seen) /\ HandleDiscovery(Seen)
         /\ HandleTakeover(Seen) /\ HandleTravel(Seen, lost')
         /\ \E suspect \in Suspects(Seen) : pending' = Alerts(Seen, suspect, lost')
         /\ lost' \in LookupFailures
    <2>1. Seen = ClearProxy([kind EXCEPT !.ts = at])
      BY <1>4 DEF entry
    <2>2. PICK fails \in Outcomes(Seen), suspect \in Suspects(Seen) :
             /\ lost' = fails
             /\ HandleWindows(Seen) /\ HandleDiscovery(Seen)
             /\ HandleTakeover(Seen) /\ HandleTravel(Seen, fails)
             /\ pending' = Alerts(Seen, suspect, fails)
      BY <2>1 DEF Dispatch
    <2>3. fails \in LookupFailures
      BY DEF Outcomes, AllResolve, LookupFailures
    <2> QED BY <2>2, <2>3
  <1> QED BY <1>2, <1>3, <1>6, <1>7, <1>9, <1>10, <1>11

\* A step that is not a dispatch.
LEMMA NotDispatching ==
  ASSUME EngineInv, [Next]_vars,
         \A kind \in Kinds, at \in 0..MaxTime : ~Dispatch(kind, at)
  PROVE  /\ UNCHANGED modules
         /\ pending' = pending \/ (pending # <<>> /\ pending' = Tail(pending))
         /\ \/ alertCh' = alertCh \/ (alertCh # <<>> /\ alertCh' = Tail(alertCh))
            \/ pending # <<>> /\ alertCh' = Append(alertCh, Head(pending))
         /\ now' \in 0..MaxTime /\ now <= now'
         /\ event' \in EventType /\ lost' \in LookupFailures /\ events' \in 0..MaxEvents
         /\ whitelist' \subseteq Operator /\ silenced' \subseteq IPs /\ changes' \in 0..MaxChanges
         /\ events' = events \/ IsWhitelisted(event')
  <1>0. MaxTime \in Nat /\ MaxEvents \in Nat /\ MaxChanges \in Nat /\ Skew \in Nat
    BY EngineAssumption, EventsAssumption
  <1>1. /\ now \in 0..MaxTime /\ event \in EventType /\ lost \in LookupFailures /\ events \in 0..MaxEvents
        /\ whitelist \subseteq Operator /\ silenced \subseteq IPs /\ changes \in 0..MaxChanges
    BY DEF EngineInv, EngineTypeOK
  <1>2. ASSUME NEW kind \in Kinds, NEW at \in 0..MaxTime, Ignore(kind, at)
        PROVE  /\ now' \in 0..MaxTime /\ now <= now'
               /\ event' \in EventType /\ lost' \in LookupFailures /\ events' \in 0..MaxEvents
               /\ IsWhitelisted(event')
               /\ UNCHANGED <<pending, alertCh, whitelist, silenced, changes, modules>>
    <2>1. kind \in EventType
      BY EngineAssumption
    <2>2. [kind EXCEPT !.ts = at] \in EventType
      BY <1>0, <2>1 DEF EventType
    <2> QED BY <1>0, <1>1, <1>2, <2>2 DEF Ignore, Arrives, lists
  <1>3. CASE \E kind \in Kinds, at \in 0..MaxTime : Ignore(kind, at)
    BY <1>1, <1>2, <1>3
  <1>4. CASE Send
    BY <1>0, <1>1, <1>4 DEF Send, lists
  <1>5. CASE Contain
    <2>1. silenced' \subseteq IPs
      BY <1>1, <1>5 DEF Contain
    <2> QED BY <1>0, <1>1, <1>5, <2>1 DEF Contain
  <1>6. CASE \E addr \in IPs : BanEnds(addr)
    BY <1>0, <1>1, <1>6 DEF BanEnds
  <1>7. CASE \E entry \in Operator : Exempt(entry)
    BY <1>0, <1>1, <1>7 DEF Exempt
  <1>8. CASE UNCHANGED vars
    BY <1>0, <1>1, <1>8 DEF vars, lists
  <1> QED BY <1>3, <1>4, <1>5, <1>6, <1>7, <1>8 DEF Next

LEMMA DispatchKeepsEngineInv ==
  ASSUME EngineInv, NEW kind \in Kinds, NEW at \in 0..MaxTime, Dispatch(kind, at)
  PROVE  EngineInv'
  <1>0. EngineTypeOK /\ Clean
    BY DEF EngineInv
  <1>1. /\ Seen \in EventType /\ Seen.ip \notin Blameless
        /\ now' \in 0..MaxTime /\ event' \in EventType /\ lost' \in LookupFailures /\ events' \in 0..MaxEvents
        /\ HandleWindows(Seen) /\ HandleDiscovery(Seen)
        /\ HandleTakeover(Seen) /\ HandleTravel(Seen, lost')
        /\ \E suspect \in Suspects(Seen) : pending' = Alerts(Seen, suspect, lost')
        /\ UNCHANGED <<alertCh, lists>>
    BY <1>0, Dispatching
  <1>2. WindowsTypeOK' /\ DiscoveryTypeOK' /\ TakeoverTypeOK' /\ TravelTypeOK'
    BY <1>0, <1>1, WindowsKeepType, DiscoveryKeepsType, TakeoverKeepsType, TravelKeepsType
       DEF EngineTypeOK
  <1>3. /\ windows'["sasl_connections"] \in [Keys -> Seq(CleanEntries)] /\ PlacesTrue'
    BY <1>0, <1>1, LoginsStayClean, PlacesStayTrue DEF EngineTypeOK, Clean
  <1>4. failures' \in [Accounts -> Seq(CleanFailures)]
    <2>1. IsFailure(Seen) => [ts |-> Seen.ts, item |-> Seen.ip] \in CleanFailures
      BY <1>1 DEF IsFailure, EventType, CleanFailures
    <2>2. IsFailure(Seen) \/ IsLogin(Seen) \/ IsMessage(Seen) => Seen.account \in Accounts
      BY <1>1 DEF IsFailure, IsLogin, IsMessage, EventType
    <2> QED BY <1>0, <1>1, <2>1, <2>2, FailuresInSeq DEF Clean
  <1>5. pending' \in Seq(CleanAlerts)
    <2>1. PICK suspect \in Suspects(Seen) : pending' = Alerts(Seen, suspect, lost')
      BY <1>1
    <2>2. Sends(Seen) => suspect \in IPs \ Blameless
      BY <1>0, <1>1, SuspectsAreClean DEF Clean
    <2>3. Alerts(Seen, suspect, lost') \in Seq(CleanAlerts)
      BY <1>0, <1>1, <2>2, AlertsByModule DEF EngineTypeOK, Clean
    <2> QED BY <2>1, <2>3
  <1>6. pending' \in Seq(AlertType)
    <2>1. CleanAlerts \subseteq AlertType
      BY DEF CleanAlerts
    <2> QED BY <1>5, <2>1, SeqMonotonic
  <1>7. UNCHANGED <<alertCh, whitelist, silenced, changes>>
    BY <1>1 DEF lists
  <1>8. EngineTypeOK'
    BY <1>0, <1>1, <1>2, <1>6, <1>7 DEF EngineTypeOK
  <1>9. Clean'
    BY <1>0, <1>3, <1>4, <1>5, <1>7 DEF Clean
  <1> QED BY <1>8, <1>9 DEF EngineInv

LEMMA OthersKeepEngineInv ==
  ASSUME EngineInv, [Next]_vars,
         \A kind \in Kinds, at \in 0..MaxTime : ~Dispatch(kind, at)
  PROVE  EngineInv'
  <1>0. EngineTypeOK /\ Clean
    BY DEF EngineInv
  <1>1. /\ UNCHANGED modules
        /\ pending' = pending \/ (pending # <<>> /\ pending' = Tail(pending))
        /\ \/ alertCh' = alertCh \/ (alertCh # <<>> /\ alertCh' = Tail(alertCh))
           \/ pending # <<>> /\ alertCh' = Append(alertCh, Head(pending))
        /\ now' \in 0..MaxTime
        /\ event' \in EventType /\ lost' \in LookupFailures /\ events' \in 0..MaxEvents
        /\ whitelist' \subseteq Operator /\ silenced' \subseteq IPs /\ changes' \in 0..MaxChanges
    BY NotDispatching
  <1>2. ASSUME NEW S, pending \in Seq(S), alertCh \in Seq(S)
        PROVE  pending' \in Seq(S) /\ alertCh' \in Seq(S)
    <2>1. \A w \in Seq(S) : w # <<>> => Head(w) \in S /\ Tail(w) \in Seq(S)
      BY HeadTailProperties
    <2>2. pending # <<>> => Append(alertCh, Head(pending)) \in Seq(S)
      BY <1>2, <2>1, AppendProperties
    <2> QED BY <1>1, <1>2, <2>1, <2>2
  <1>3. /\ pending' \in Seq(CleanAlerts) /\ alertCh' \in Seq(CleanAlerts)
        /\ pending' \in Seq(AlertType) /\ alertCh' \in Seq(AlertType)
    BY <1>0, <1>2 DEF EngineTypeOK, Clean
  <1>4. /\ WindowsTypeOK' /\ DiscoveryTypeOK' /\ TakeoverTypeOK' /\ TravelTypeOK'
        /\ windows'["sasl_connections"] \in [Keys -> Seq(CleanEntries)]
        /\ failures' \in [Accounts -> Seq(CleanFailures)] /\ PlacesTrue'
    <2>1. UNCHANGED <<windowVars, discoveryVars, takeoverVars, travelVars>>
      BY <1>1 DEF modules
    <2>2. /\ UNCHANGED <<windows, callCount, since>> /\ UNCHANGED <<states, discoveryCalls, attacks>>
          /\ UNCHANGED <<failures, takeoverCalls, attempts, unreported>>
          /\ UNCHANGED <<lastLogins, travelCalls, previous>>
      BY <2>1 DEF windowVars, discoveryVars, takeoverVars, travelVars
    <2> QED BY <1>0, <2>2 DEF EngineTypeOK, Clean, WindowsTypeOK, DiscoveryTypeOK,
                              TakeoverTypeOK, TravelTypeOK, PlacesTrue
  <1> QED BY <1>1, <1>3, <1>4 DEF EngineInv, EngineTypeOK, Clean

LEMMA InitEngineInv == Init => EngineInv
  <1> SUFFICES ASSUME Init PROVE EngineInv
    OBVIOUS
  <1>0. MaxTime \in Nat /\ MaxEvents \in Nat /\ MaxChanges \in Nat /\ PruneEvery \in Nat \ {0}
    BY EngineAssumption, EventsAssumption
  <1>1. \A S : <<>> \in Seq(S)
    BY EmptySeq
  <1>2. WindowsTypeOK /\ windows["sasl_connections"] \in [Keys -> Seq(CleanEntries)]
    <2>1. \A m \in Sliding : windows[m] = [k \in Keys |-> <<>>]
      BY DEF Init, WindowsInit
    <2>2. "sasl_connections" \in Sliding
      BY DEF Sliding
    <2>3. windows["sasl_connections"] \in [Keys -> Seq(CleanEntries)]
      BY <1>1, <2>1, <2>2
    <2> QED BY <1>0, <1>1, <2>3 DEF Init, WindowsInit, WindowsTypeOK
  <1>3. DiscoveryTypeOK
    <2>1. NoState \in [start : Int, domains : SUBSET Domains]
      BY DEF NoState
    <2> QED BY <1>0, <1>1, <2>1 DEF Init, DiscoveryInit, DiscoveryTypeOK
  <1>4. TakeoverTypeOK /\ failures \in [Accounts -> Seq(CleanFailures)]
    BY <1>0, <1>1 DEF Init, TakeoverInit, TakeoverTypeOK
  <1>5. TravelTypeOK /\ PlacesTrue
    <2>1. NoLogin.ip \notin Blameless /\ NoLogin.country = None
      BY EngineAssumption, EventsAssumption DEF NoLogin, Blameless
    <2>2. /\ NoLogin \in [country : Countries \cup {None}, ip : IPs \cup {None}, ts : Int]
          /\ NoHistory \in [country : Countries \cup {None}, ts : Int, alerted : BOOLEAN]
      BY DEF NoLogin, NoHistory
    <2>3. /\ lastLogins = [a \in Accounts |-> NoLogin] /\ travelCalls = 0
          /\ previous = [a \in Accounts |-> NoHistory]
      BY DEF Init, TravelInit
    <2>4. PlacesTrue
      BY <2>1, <2>3 DEF PlacesTrue
    <2> HIDE DEF NoLogin, NoHistory
    <2> QED BY <1>0, <2>2, <2>3, <2>4 DEF TravelTypeOK
  <1>6. NoEvent \in EventType /\ AllResolve \in LookupFailures
    BY DEF NoEvent, EventType, EventTypes, AllResolve, LookupFailures
  <1>7. /\ now = 0 /\ event = NoEvent /\ lost = AllResolve /\ events = 0 /\ pending = <<>> /\ alertCh = <<>>
        /\ whitelist = {} /\ silenced = {} /\ changes = 0
    BY DEF Init
  <1> QED BY <1>0, <1>1, <1>2, <1>3, <1>4, <1>5, <1>6, <1>7 DEF EngineInv, EngineTypeOK, Clean

LEMMA EngineInvHolds == Spec => []EngineInv
  <1>1. EngineInv /\ [Next]_vars => EngineInv'
    BY DispatchKeepsEngineInv, OthersKeepEngineInv
  <1> QED BY <1>1, InitEngineInv, PTL DEF Spec

\* Every variable of the engine keeps its type, for any events, thresholds and
\* lag of the logs.
THEOREM EngineTypeCorrect == Spec => []EngineTypeOK
  <1>1. EngineInv => EngineTypeOK
    BY DEF EngineInv
  <1> QED BY <1>1, EngineInvHolds, PTL

\* No alert blames a cloud proxy or a private address: neither as the address of
\* the event, nor as one that a window of sasl_connections, the failures of an
\* account or its last login has remembered (engine.go:276, 318).
THEOREM TheExemptAreNeverBlamed == Spec => []ExemptNeverBlamed
  <1>1. EngineInv => ExemptNeverBlamed
    <2> SUFFICES ASSUME EngineInv PROVE ExemptNeverBlamed
      OBVIOUS
    <2>1. pending \in Seq(CleanAlerts) /\ alertCh \in Seq(CleanAlerts)
      BY DEF EngineInv, Clean
    <2>2. ASSUME NEW w \in Seq(CleanAlerts), NEW i \in 1..Len(w)
          PROVE  w[i].ip \notin Proxies \cup Private
      <3>1. w[i] \in CleanAlerts
        BY ElementOfSeq
      <3> QED BY <3>1 DEF CleanAlerts, Blameless
    <2> QED BY <2>1, <2>2 DEF ExemptNeverBlamed
  <1> QED BY <1>1, EngineInvHolds, PTL

-----------------------------------------------------------------------------
(* What a dispatch raises.                                                 *)

LEMMA DispatchedStep ==
  ASSUME EngineInv, [Next]_vars, Dispatched
  PROVE  \E kind \in Kinds, at \in 0..MaxTime : Dispatch(kind, at)
  BY NotDispatching DEF Dispatched

LEMMA RaisedByModule ==
  ASSUME EngineInv, NEW kind \in Kinds, NEW at \in 0..MaxTime, Dispatch(kind, at)
  PROVE  /\ \A m \in Sliding : RaisedBy(m) = Range(WindowAlerts(m, Seen, lost'))
         /\ RaisedBy("domain_discovery") = Range(DiscoveryAlerts(Seen))
         /\ RaisedBy("impossible_traveler") = Range(TravelAlerts(Seen, lost'))
         /\ \E suspect \in Suspects(Seen) :
               /\ Sends(Seen) => suspect \in IPs \ Blameless
               /\ RaisedBy("account_takeover") = Range(TakeoverAlerts(Seen, suspect))
         /\ \A al \in Raised : al.module \in Modules /\ al \in RaisedBy(al.module)
  <1>0. EngineTypeOK /\ Clean
    BY DEF EngineInv
  <1>1. /\ Seen \in EventType /\ Seen.ip \notin Blameless
        /\ \E suspect \in Suspects(Seen) : pending' = Alerts(Seen, suspect, lost')
    BY <1>0, Dispatching
  <1>2. PICK suspect \in Suspects(Seen) : pending' = Alerts(Seen, suspect, lost')
    BY <1>1
  <1>3. Sends(Seen) => suspect \in IPs \ Blameless
    BY <1>0, <1>1, SuspectsAreClean DEF Clean
  <1>4. /\ windows["sasl_connections"] \in [Keys -> Seq(CleanEntries)]
        /\ TravelTypeOK /\ PlacesTrue
    BY <1>0 DEF EngineTypeOK, Clean
  <1>5. /\ Alerts(Seen, suspect, lost') \in Seq(CleanAlerts)
        /\ \A m \in Sliding :
              {al \in Range(Alerts(Seen, suspect, lost')) : al.module = m} = Range(WindowAlerts(m, Seen, lost'))
        /\ {al \in Range(Alerts(Seen, suspect, lost')) : al.module = "domain_discovery"}
              = Range(DiscoveryAlerts(Seen))
        /\ {al \in Range(Alerts(Seen, suspect, lost')) : al.module = "impossible_traveler"}
              = Range(TravelAlerts(Seen, lost'))
        /\ {al \in Range(Alerts(Seen, suspect, lost')) : al.module = "account_takeover"}
              = Range(TakeoverAlerts(Seen, suspect))
    BY <1>1, <1>3, <1>4, AlertsByModule
  <1>6. Raised = Range(Alerts(Seen, suspect, lost')) /\ Raised \subseteq CleanAlerts
    BY <1>2, <1>5, RangeEquality, RangeInSeq DEF Raised
  <1>7. \A al \in CleanAlerts : al.module \in Modules
    BY DEF CleanAlerts, AlertType
  <1> QED BY <1>3, <1>5, <1>6, <1>7 DEF RaisedBy

\* A suspension the enforcer will skip, because it names an address of an
\* allowed country, comes from logins of allowed countries only, unless the
\* look-up of that address has just failed in sasl_connections; no failed
\* look-up makes impossible_traveler name one (saslconnections.go:172,
\* impossibletraveler.go:245).
THEOREM SuspensionsReachForeigners == Spec => SuspensionNamesForeigner
  <1>1. EngineInv /\ [Next]_vars =>
           [Dispatched => \A a \in Raised : NamesForeigner(a, Seen, lost'.sasl)]_vars
    <2> SUFFICES ASSUME EngineInv, [Next]_vars, Dispatched, NEW al \in Raised
                 PROVE  NamesForeigner(al, Seen, lost'.sasl)
      OBVIOUS
    <2>0. EngineTypeOK /\ Clean
      BY DEF EngineInv
    <2>1. PICK kind \in Kinds, at \in 0..MaxTime : Dispatch(kind, at)
      BY DispatchedStep
    <2>2. Seen \in EventType /\ Seen.ip \notin Blameless
      BY <2>0, <2>1, Dispatching
    <2>3. CASE al.module = "sasl_connections"
      <3> DEFINE m == "sasl_connections"
                 w == Current(m, Seen)
                 good == {a \in AlertsOf(m) : Justified(a, w, lost'.sasl)}
      <3>1. al \in Range(WindowAlerts(m, Seen, lost')) /\ m \in Sliding
        BY <2>1, <2>3, RaisedByModule DEF Sliding
      <3>2. windows[m] \in [Keys -> Seq(CleanEntries)]
        BY <2>0 DEF Clean
      <3>3. Fires(m, Seen)
        <4>1. WindowAlerts(m, Seen, lost') \in Seq(AlertsOf(m)) /\ (WindowAlerts(m, Seen, lost') # <<>> => Fires(m, Seen))
          BY <2>2, <3>1, <3>2, WindowAlertsAre
        <4> QED BY <3>1, <4>1, RangeInSeq
      <3>4. WindowAlerts(m, Seen, lost') = SaslAlerts(Seen, lost'.sasl) /\ Handles(m, Seen)
        BY <3>3 DEF WindowAlerts, Fires
      <3>5. SaslAlerts(Seen, lost'.sasl) \in Seq(good)
        BY <2>2, <3>2, <3>4, SaslAlertsAre
      <3>6. al \in good
        <4> HIDE DEF good
        <4> QED BY <3>1, <3>4, <3>5, RangeInSeq
      <3> QED BY <2>3, <3>6 DEF NamesForeigner, Justified, Spared
    <2>4. CASE al.module = "impossible_traveler"
      <3> DEFINE good == {a \in AlertsOf("impossible_traveler") : ~Spared(a)}
      <3>1. al \in Range(TravelAlerts(Seen, lost'))
        BY <2>1, <2>4, RaisedByModule
      <3>2. TravelAlerts(Seen, lost') \in Seq(good)
        BY <2>0, <2>2, TravelAlertsAre DEF EngineTypeOK, Clean
      <3>3. al \in good
        <4> HIDE DEF good
        <4> QED BY <3>1, <3>2, RangeInSeq
      <3> QED BY <3>3 DEF NamesForeigner, Spared
    <2>5. CASE al.module \notin {"sasl_connections", "impossible_traveler"}
      BY <2>5 DEF NamesForeigner
    <2> QED BY <2>3, <2>4, <2>5
  <1> QED BY <1>1, EngineInvHolds, PTL DEF Spec, SuspensionNamesForeigner

-----------------------------------------------------------------------------
(* impossible_traveler.                                                    *)

\* What is known of the last login: where it was and, after an alert, a window
\* earlier than when it was.
Remembered(l, p) ==
    /\ l.country = p.country
    /\ l.ts = IF p.alerted THEN p.ts - TravelWindow ELSE p.ts

\* An account that raised no alert is only forgotten once its login is stale.
TravelInv ==
    \A a \in Accounts :
        \/ Remembered(lastLogins[a], previous[a])
        \/ /\ lastLogins[a] = NoLogin
           /\ previous[a].alerted \/ previous[a].ts < now - StaleAfter

\* The same after the purge that an event may run.
LEMMA AfterPurge ==
  ASSUME EngineTypeOK, TravelInv, NEW ev \in EventType, now - Skew <= ev.ts, NEW a \in Accounts
  PROVE  \/ /\ Remembered(PruneStale(ev)[a], previous[a])
            /\ PruneStale(ev)[a] = lastLogins[a]
         \/ /\ PruneStale(ev)[a] = NoLogin
            /\ \/ previous[a].alerted
               \/ previous[a].ts < ev.ts - StaleAfter
               \/ previous[a].ts < now - StaleAfter
  <1> DEFINE l == lastLogins[a]
             p == previous[a]
             q == PruneStale(ev)[a]
  <1>1. /\ l.ts \in Int /\ p.ts \in Int /\ p.alerted \in BOOLEAN /\ ev.ts \in Int
        /\ StaleAfter \in Nat
    BY ImpossibleTravelerAssumption DEF EngineTypeOK, TravelTypeOK, EventType
  <1>2. q = l \/ (q = NoLogin /\ l.ts < ev.ts - StaleAfter)
    BY DEF PruneStale
  <1>3. CASE Remembered(l, p)
    <2>1. l.ts < ev.ts - StaleAfter => p.alerted \/ p.ts < ev.ts - StaleAfter
      <3>1. CASE p.alerted
        BY <3>1
      <3>2. CASE ~p.alerted
        <4>1. l.ts = p.ts
          BY <1>3, <3>2 DEF Remembered
        <4> QED BY <4>1
      <3> QED BY <3>1, <3>2
    <2> HIDE DEF l, p, q
    <2> QED BY <1>2, <1>3, <2>1 DEF l, p, q
  <1>4. CASE l = NoLogin /\ (p.alerted \/ p.ts < now - StaleAfter)
    BY <1>2, <1>4
  <1> QED BY <1>3, <1>4 DEF TravelInv

LEMMA TravelStep ==
  ASSUME EngineTypeOK, TravelInv, NEW ev \in EventType, now - Skew <= ev.ts,
         NEW fails, HandleTravel(ev, fails), now' \in Nat, now <= now', ev.ts <= now'
  PROVE  TravelInv'
  <1>0. /\ now \in Int /\ now' \in Int /\ StaleAfter \in Nat /\ ev.ts \in Int
        /\ \A a \in Accounts : previous[a].ts \in Int
    BY EngineAssumption, ImpossibleTravelerAssumption DEF EngineTypeOK, TravelTypeOK, EventType
  <1> DEFINE Kept(a) ==
        \/ Remembered(lastLogins[a], previous[a]) /\ lastLogins'[a] = lastLogins[a]
        \/ /\ lastLogins'[a] = NoLogin
           /\ previous[a].alerted \/ previous[a].ts < now' - StaleAfter
  <1>1. ASSUME NEW a \in Accounts, lastLogins'[a] = lastLogins[a]
        PROVE  Kept(a)
    <2>1. previous[a].ts < now - StaleAfter => previous[a].ts < now' - StaleAfter
      BY <1>0
    <2> QED BY <1>1, <2>1 DEF TravelInv
  <1>2. ASSUME NEW a \in Accounts, lastLogins'[a] = PruneStale(ev)[a]
        PROVE  Kept(a)
    <2>1. previous[a].ts < ev.ts - StaleAfter \/ previous[a].ts < now - StaleAfter
             => previous[a].ts < now' - StaleAfter
      BY <1>0
    <2>2. \/ /\ Remembered(PruneStale(ev)[a], previous[a])
             /\ PruneStale(ev)[a] = lastLogins[a]
          \/ /\ PruneStale(ev)[a] = NoLogin
             /\ \/ previous[a].alerted
                \/ previous[a].ts < ev.ts - StaleAfter
                \/ previous[a].ts < now - StaleAfter
      BY AfterPurge
    <2> QED BY <1>2, <2>1, <2>2
  <1>3. ASSUME NEW a \in Accounts, previous'[a] = previous[a], Kept(a)
        PROVE  \/ Remembered(lastLogins'[a], previous'[a])
               \/ /\ lastLogins'[a] = NoLogin
                  /\ previous'[a].alerted \/ previous'[a].ts < now' - StaleAfter
    BY <1>3
  <1>4. CASE ~IsTrip(ev, fails)
    <2>1. UNCHANGED <<lastLogins, previous>>
      BY <1>4 DEF HandleTravel, travelVars
    <2>2. \A a \in Accounts : Kept(a)
      BY <1>1, <2>1
    <2> HIDE DEF Kept
    <2> QED BY <1>3, <2>1, <2>2 DEF TravelInv
  <1>5. CASE IsTrip(ev, fails) /\ ~Located(ev, fails)
    <2>1. lastLogins' = PruneStale(ev) /\ previous' = previous
      BY <1>5 DEF HandleTravel
    <2>2. \A a \in Accounts : Kept(a)
      BY <1>2, <2>1
    <2> HIDE DEF Kept
    <2> QED BY <1>3, <2>1, <2>2 DEF TravelInv
  <1>6. CASE Located(ev, fails)
    <2> DEFINE login == [country |-> CountryOf[ev.ip], ip |-> ev.ip, ts |-> EnteredAt(ev, fails)]
               past == [country |-> CountryOf[ev.ip], ts |-> ev.ts, alerted |-> Impossible(ev, fails)]
    <2>1. /\ lastLogins' = [PruneStale(ev) EXCEPT ![ev.account] = login]
          /\ previous' = [previous EXCEPT ![ev.account] = past]
      BY <1>6 DEF HandleTravel, Located
    <2>2. Remembered(login, past)
      BY DEF Remembered, EnteredAt
    <2> HIDE DEF login, past
    <2>3. /\ DOMAIN PruneStale(ev) = Accounts /\ DOMAIN previous = Accounts
      BY DEF PruneStale, EngineTypeOK, TravelTypeOK
    <2>4. ASSUME NEW a \in Accounts, a # ev.account
          PROVE  Kept(a) /\ previous'[a] = previous[a]
      BY <1>2, <2>1, <2>3, <2>4
    <2>5. ASSUME NEW a \in Accounts, a = ev.account
          PROVE  Remembered(lastLogins'[a], previous'[a])
      BY <2>1, <2>2, <2>3, <2>5
    <2> HIDE DEF Kept
    <2> QED BY <1>3, <2>4, <2>5 DEF TravelInv
  <1> QED BY <1>4, <1>5, <1>6 DEF Located

LEMMA TravelInvHolds == Spec => []TravelInv
  <1>1. Init => TravelInv
    BY DEF Init, TravelInit, TravelInv, Remembered, NoLogin, NoHistory
  <1>2. EngineInv /\ TravelInv /\ [Next]_vars => TravelInv'
    <2> SUFFICES ASSUME EngineInv, TravelInv, [Next]_vars PROVE TravelInv'
      OBVIOUS
    <2>0. EngineTypeOK
      BY DEF EngineInv
    <2>1. ASSUME NEW kind \in Kinds, NEW at \in 0..MaxTime, Dispatch(kind, at) PROVE TravelInv'
      <3>1. /\ Seen \in EventType /\ Seen.ts = at /\ HandleTravel(Seen, lost')
            /\ now' \in 0..MaxTime /\ now <= now' /\ now - Skew <= at /\ at <= now'
        BY <2>0, <2>1, Dispatching
      <3>2. now' \in Nat
        BY <3>1, EngineAssumption
      <3> HIDE DEF Seen
      <3> QED BY <2>0, <3>1, <3>2, TravelStep
    <2>2. CASE \A kind \in Kinds, at \in 0..MaxTime : ~Dispatch(kind, at)
      <3>1. UNCHANGED modules /\ now' \in 0..MaxTime /\ now <= now'
        BY <2>2, NotDispatching
      <3>2. UNCHANGED <<lastLogins, previous>>
        BY <3>1 DEF modules, travelVars
      <3>3. \A a \in Accounts : previous[a].ts < now - StaleAfter => previous[a].ts < now' - StaleAfter
        <4>1. \A a \in Accounts : previous[a].ts \in Int
          BY <2>0 DEF EngineTypeOK, TravelTypeOK
        <4>2. now \in Int /\ now' \in Int /\ StaleAfter \in Int
          BY <2>0, <3>1, EngineAssumption, ImpossibleTravelerAssumption DEF EngineTypeOK
        <4> QED BY <3>1, <4>1, <4>2
      <3> QED BY <3>2, <3>3 DEF TravelInv
    <2> QED BY <2>1, <2>2
  <1> QED BY <1>1, <1>2, EngineInvHolds, PTL DEF Spec

\* One suspicious journey raises one alert, neither the attacker's next login
\* nor the owner's return raises another, and no other journey too fast is
\* missed: the purge forgets an account only when nothing can be too fast for it
\* any more, provided that takes longer than the window and the lag of a log
\* together (impossibletraveler.go:104).
THEOREM JourneysAreJudgedOnce ==
  StaleAfter >= TravelWindow + Skew => (Spec => TravelIsJudgedOnce)
  <1> SUFFICES ASSUME StaleAfter >= TravelWindow + Skew PROVE Spec => TravelIsJudgedOnce
    OBVIOUS
  <1>1. EngineInv /\ TravelInv /\ [Next]_vars =>
           [Dispatched /\ Located(Seen, lost') =>
              JudgedOnce(previous[Seen.account], Seen, RaisedBy("impossible_traveler") # {})]_vars
    <2> SUFFICES ASSUME EngineInv, TravelInv, [Next]_vars, Dispatched, Located(Seen, lost')
                 PROVE  JudgedOnce(previous[Seen.account], Seen,
                                   RaisedBy("impossible_traveler") # {})
      OBVIOUS
    <2>0. EngineTypeOK /\ Clean
      BY DEF EngineInv
    <2>1. PICK kind \in Kinds, at \in 0..MaxTime : Dispatch(kind, at)
      BY DispatchedStep
    <2>2. /\ Seen \in EventType /\ Seen.ip \notin Blameless /\ Seen.ts = at /\ now - Skew <= at
      BY <2>0, <2>1, Dispatching
    <2>3. RaisedBy("impossible_traveler") # {} <=> Impossible(Seen, lost')
      <3> DEFINE good == {a \in AlertsOf("impossible_traveler") : ~Spared(a)}
      <3>1. RaisedBy("impossible_traveler") = Range(TravelAlerts(Seen, lost'))
        BY <2>1, RaisedByModule
      <3>2. TravelAlerts(Seen, lost') \in Seq(good) /\ (TravelAlerts(Seen, lost') # <<>> <=> Impossible(Seen, lost'))
        BY <2>0, <2>2, TravelAlertsAre DEF EngineTypeOK, Clean
      <3> HIDE DEF good
      <3> QED BY <3>1, <3>2, RangeInSeq
    <2> DEFINE p == previous[Seen.account]
               q == PruneStale(Seen)[Seen.account]
    <2>4. Seen.account \in Accounts
      BY <2>2 DEF Located, IsTrip, EventType
    <2>5. \/ Remembered(q, p)
          \/ /\ q = NoLogin
             /\ p.alerted \/ p.ts < Seen.ts - StaleAfter \/ p.ts < now - StaleAfter
      BY <2>0, <2>2, <2>4, AfterPurge
    <2>6. Impossible(Seen, lost') <=> TooFast(q, Seen)
      BY DEF Impossible
    <2>7. /\ p.ts \in Int /\ p.alerted \in BOOLEAN /\ Seen.ts \in Int /\ now \in Int
          /\ StaleAfter \in Nat /\ TravelWindow \in Nat /\ Skew \in Nat
      BY <2>0, <2>2, <2>4, ImpossibleTravelerAssumption, EventsAssumption
         DEF EngineTypeOK, TravelTypeOK, EventType
    <2> HIDE DEF p, q, Seen
    <2>8. CASE Remembered(q, p)
      <3>1. q.country = CountryOf[Seen.ip] => ~TooFast(q, Seen)
        BY DEF TooFast
      <3>2. p.alerted /\ Seen.ts >= p.ts => ~TooFast(q, Seen)
        <4> SUFFICES ASSUME p.alerted, Seen.ts >= p.ts PROVE ~(Apart(Seen.ts, q.ts) < TravelWindow)
          BY DEF TooFast
        <4>1. q.ts = p.ts - TravelWindow
          BY <2>8 DEF Remembered
        <4> QED BY <2>7, <4>1 DEF Apart
      <3>3. ~p.alerted => (TooFast(q, Seen) <=> TooFast(p, Seen))
        BY <2>8 DEF Remembered, TooFast
      <3> QED BY <2>3, <2>6, <2>8, <3>1, <3>2, <3>3 DEF JudgedOnce, Remembered, p
    <2>9. CASE /\ q = NoLogin
               /\ p.alerted \/ p.ts < Seen.ts - StaleAfter \/ p.ts < now - StaleAfter
      <3>1. ~TooFast(q, Seen)
        BY <2>9 DEF TooFast, NoLogin
      <3>2. ~p.alerted => ~TooFast(p, Seen)
        <4> SUFFICES ASSUME ~p.alerted PROVE ~(Apart(Seen.ts, p.ts) < TravelWindow)
          BY DEF TooFast
        <4>1. p.ts < Seen.ts + Skew - StaleAfter
          BY <2>2, <2>7, <2>9
        <4> QED BY <2>7, <4>1 DEF Apart
      <3> QED BY <2>3, <2>6, <3>1, <3>2 DEF JudgedOnce, p
    <2> QED BY <2>5, <2>8, <2>9
  <1> QED BY <1>1, EngineInvHolds, TravelInvHolds, PTL DEF Spec, TravelIsJudgedOnce

-----------------------------------------------------------------------------
(* What an alert rests on.                                                 *)

\* A log may lag, but no record is older than an earlier one by more than that.
NearlyOrdered(h) ==
    /\ \A i \in 1..Len(h) : h[i].ts <= now
    /\ \A i, j \in 1..Len(h) : i < j => h[i].ts - Skew <= h[j].ts

\* A window of domain_discovery knows only what was attacked since it started.
Attested(s, h) ==
    s.domains # {} =>
        /\ s.start <= now
        /\ \A dom \in s.domains : \E i \in 1..Len(h) :
              h[i].item = dom /\ h[i].ts >= s.start - Skew

EvidenceInv ==
    /\ \A m \in Sliding, k \in Keys : NearlyOrdered(since[m][k])
    /\ \A a \in IPs : Attested(states[a], attacks[a])

LEMMA FiniteDistinct ==
  ASSUME NEW w, NEW P, IsFiniteSet(P)
  PROVE  IsFiniteSet(Distinct(w, P))
  <1> DEFINE T == {w[i].item : i \in P}
             f == [i \in P |-> w[i].item]
  <1>1. f \in Surjection(P, T)
    BY DEF Surjection
  <1>2. IsFiniteSet(T)
    <2> HIDE DEF f, T
    <2> QED BY <1>1, FS_Surjection
  <1> QED BY <1>2, FS_Subset DEF Distinct

LEMMA FiniteNotBefore ==
  ASSUME NEW S, NEW w \in Seq(S), NEW from
  PROVE  IsFiniteSet(NotBefore(w, from)) /\ NotBefore(w, from) \subseteq 1..Len(w)
  <1>1. Len(w) \in Nat
    BY LenProperties
  <1>2. IsFiniteSet(1..Len(w))
    BY <1>1, FS_Interval
  <1> QED BY <1>2, FS_Subset DEF NotBefore

\* The last records of h, none of them older than from, are evidence in h.
LEMMA SuffixIsEvidence ==
  ASSUME NEW m \in Sliding, NEW w \in Seq(Entries), NEW h \in Seq(Entries), NEW from \in Int,
         NEW d \in 0..Len(h), Len(w) = Len(h) - d,
         \A i \in 1..Len(w) : w[i] = h[d + i] /\ w[i].ts >= from,
         Suffice(m, w, 1..Len(w))
  PROVE  Suffice(m, h, NotBefore(h, from))
  <1> DEFINE P == NotBefore(h, from)
             W == 1..Len(w)
             L == (d + 1)..Len(h)
  <1>1. Len(w) \in Nat /\ Len(h) \in Nat /\ d \in Nat
    BY LenProperties
  <1>2. IsFiniteSet(P)
    BY FiniteNotBefore
  <1>3. \A i \in W : d + i \in P
    <2> SUFFICES ASSUME NEW i \in W PROVE d + i \in 1..Len(h) /\ h[d + i].ts >= from
      BY DEF NotBefore
    <2> QED BY <1>1
  <1>4. L \subseteq P
    <2> SUFFICES ASSUME NEW j \in L PROVE j \in P
      OBVIOUS
    <2>1. j - d \in W /\ d + (j - d) = j
      BY <1>1
    <2> HIDE DEF P
    <2> QED BY <1>3, <2>1
  <1>5. Cardinality(W) = Len(w) /\ Cardinality(L) = Len(w) /\ IsFiniteSet(W)
    <2>0. 1 \in Int /\ Len(w) \in Int /\ d + 1 \in Int /\ Len(h) \in Int
      BY <1>1
    <2>1. /\ Cardinality(W) = IF 1 > Len(w) THEN 0 ELSE Len(w) - 1 + 1
          /\ IsFiniteSet(W)
      <3>1. IsFiniteSet(1..Len(w))
        BY <2>0, FS_Interval
      <3>2. Cardinality(1..Len(w)) = IF 1 > Len(w) THEN 0 ELSE Len(w) - 1 + 1
        BY <2>0, FS_Interval
      <3> QED BY <3>1, <3>2
    <2>2. Cardinality(L) = IF d + 1 > Len(h) THEN 0 ELSE Len(h) - (d + 1) + 1
      BY <2>0, FS_Interval
    <2> HIDE DEF W, L
    <2> QED BY <1>1, <2>1, <2>2
  <1>6. Cardinality(W) <= Cardinality(P)
    <2> HIDE DEF P, L
    <2> QED BY <1>2, <1>4, <1>5, FS_Subset
  <1>7. Distinct(w, W) \subseteq Distinct(h, P)
    <2> SUFFICES ASSUME NEW i \in W, w[i].item # None
                 PROVE  \E j \in P : h[j].item = w[i].item
      BY DEF Distinct
    <2> QED BY <1>3
  <1>8. /\ Cardinality(Distinct(w, W)) <= Cardinality(Distinct(h, P))
        /\ IsFiniteSet(Distinct(w, W)) /\ IsFiniteSet(Distinct(h, P))
    <2> HIDE DEF P, W
    <2> QED BY <1>2, <1>5, <1>7, FiniteDistinct, FS_Subset
  <1>9. /\ Cardinality(Distinct(w, W)) \in Nat /\ Cardinality(Distinct(h, P)) \in Nat
        /\ Cardinality(W) \in Nat /\ Cardinality(P) \in Nat
    BY <1>2, <1>5, <1>8, FS_CardinalityType
  <1>10. Threshold[m] \in Nat /\ MaxUniqueIPs \in Nat
    BY SlidingWindowAssumption
  <1>11. Suffice(m, w, W)
    OBVIOUS
  <1> HIDE DEF P, W
  <1>12. Suffice(m, h, P)
    <2> DEFINE dw == Cardinality(Distinct(w, W))
               dh == Cardinality(Distinct(h, P))
               cw == Cardinality(W)
               cp == Cardinality(P)
    <2>1. dw \in Nat /\ dh \in Nat /\ cw \in Nat /\ cp \in Nat /\ dw <= dh /\ cw <= cp
      BY <1>6, <1>8, <1>9
    <2>2. IF m \in {"dist_brute_force", "password_spray"} THEN dw >= Threshold[m]
          ELSE \/ m = "sasl_connections" /\ MaxUniqueIPs > 0 /\ dw >= MaxUniqueIPs
               \/ Threshold[m] > 0 /\ cw >= Threshold[m]
      BY <1>11 DEF Suffice, ManyAddresses
    <2> HIDE DEF dw, dh, cw, cp
    <2>3. IF m \in {"dist_brute_force", "password_spray"} THEN dh >= Threshold[m]
          ELSE \/ m = "sasl_connections" /\ MaxUniqueIPs > 0 /\ dh >= MaxUniqueIPs
               \/ Threshold[m] > 0 /\ cp >= Threshold[m]
      BY <1>10, <2>1, <2>2
    <2> QED BY <2>3 DEF Suffice, ManyAddresses, dh, cp
  <1> QED BY <1>12 DEF P

\* A new record keeps a history nearly ordered.
LEMMA OrderedAppend ==
  ASSUME NEW S, NEW h \in Seq(S), \A i \in 1..Len(h) : h[i].ts \in Int, NearlyOrdered(h),
         NEW r \in S, r.ts \in Int, now \in Int, now - Skew <= r.ts,
         now' \in Int, now <= now', r.ts <= now'
  PROVE  LET g == Append(h, r) IN
         /\ \A i \in 1..Len(g) : g[i].ts <= now'
         /\ \A i, j \in 1..Len(g) : i < j => g[i].ts - Skew <= g[j].ts
  <1> DEFINE g == Append(h, r)
  <1>1. /\ Len(g) = Len(h) + 1 /\ Len(h) \in Nat
        /\ \A i \in 1..Len(h) : g[i] = h[i]
        /\ g[Len(h) + 1] = r
    BY AppendProperties, LenProperties
  <1>2. Skew \in Nat
    BY EventsAssumption
  <1> HIDE DEF g
  <1>3. \A i \in 1..Len(g) : i \in 1..Len(h) \/ i = Len(h) + 1
    BY <1>1
  <1>4. ASSUME NEW i \in 1..Len(h) PROVE g[i].ts <= now' /\ g[i].ts <= now /\ g[i].ts \in Int
    BY <1>1 DEF NearlyOrdered
  <1>5. ASSUME NEW i \in 1..Len(g), NEW j \in 1..Len(g), i < j
        PROVE  g[i].ts - Skew <= g[j].ts
    <2>1. i \in 1..Len(h)
      BY <1>1, <1>5
    <2>2. CASE j \in 1..Len(h)
      BY <1>1, <1>5, <2>1, <2>2 DEF NearlyOrdered
    <2>3. CASE j = Len(h) + 1
      <3>1. g[j].ts = r.ts /\ g[i].ts <= now /\ g[i].ts \in Int
        BY <1>1, <1>4, <2>1, <2>3
      <3> QED BY <1>2, <3>1
    <2> QED BY <1>3, <2>2, <2>3
  <1>6. \A i \in 1..Len(g) : g[i].ts <= now'
    BY <1>1, <1>3, <1>4
  <1> QED BY <1>5, <1>6 DEF g

LEMMA SinceStaysOrdered ==
  ASSUME WindowsTypeOK, \A m \in Sliding, k \in Keys : NearlyOrdered(since[m][k]),
         NEW ev \in EventType, HandleWindows(ev), now \in Int, now - Skew <= ev.ts,
         now' \in Int, now <= now', ev.ts <= now', NEW m \in Sliding, NEW k \in Keys
  PROVE  NearlyOrdered(since[m][k])'
  <1> DEFINE h == since[m][k]
             g == since'[m][k]
  <1>0. h \in Seq(Entries)
    BY DEF WindowsTypeOK
  <1>1. \A i \in 1..Len(h) : h[i].ts \in Int
    BY <1>0, RecordTime
  <1>2. g = h \/ g = <<>> \/ (Handles(m, ev) /\ g = Append(h, Entry(m, ev)))
    BY DEF HandleWindows, WindowsTypeOK
  <1>3. NearlyOrdered(h)
    OBVIOUS
  <1> HIDE DEF h, g
  <1>4. CASE g = h
    <2>1. \A i \in 1..Len(h) : h[i].ts <= now'
      BY <1>1, <1>3 DEF NearlyOrdered
    <2> QED BY <1>3, <1>4, <2>1 DEF NearlyOrdered, g
  <1>5. CASE g = <<>>
    <2>1. 1..Len(g) = {}
      BY <1>5, EmptySeq
    <2> QED BY <2>1 DEF NearlyOrdered, g
  <1>6. CASE Handles(m, ev) /\ g = Append(h, Entry(m, ev))
    <2>1. Entry(m, ev) \in Entries /\ Entry(m, ev).ts = ev.ts /\ ev.ts \in Int
      BY <1>6, KeyAndEntry DEF Entry, EventType
    <2>2. /\ \A i \in 1..Len(g) : g[i].ts <= now'
          /\ \A i, j \in 1..Len(g) : i < j => g[i].ts - Skew <= g[j].ts
      BY <1>0, <1>1, <1>3, <1>6, <2>1, OrderedAppend
    <2> QED BY <2>2 DEF NearlyOrdered, g
  <1> QED BY <1>2, <1>4, <1>5, <1>6

\* What an address has attacked, this event included.
LEMMA AttackedIsAttested ==
  ASSUME DiscoveryTypeOK, \A a \in IPs : Attested(states[a], attacks[a]),
         NEW ev \in EventType, IsAttack(ev), now \in Int, now - Skew <= ev.ts,
         now' \in Int, now <= now', ev.ts <= now'
  PROVE  LET s == Attacked(ev)
             h == Append(attacks[ev.ip], [ts |-> ev.ts, item |-> DomainOf[ev.account]])
         IN  /\ s.start \in Int /\ s.start <= now' /\ ev.ts - s.start < DiscoveryTime
             /\ h \in Seq([ts : Int, item : Domains])
             /\ \A dom \in s.domains : \E i \in 1..Len(h) :
                   h[i].item = dom /\ h[i].ts >= s.start - Skew
  <1> DEFINE A == [ts : Int, item : Domains]
             r == [ts |-> ev.ts, item |-> DomainOf[ev.account]]
             old == attacks[ev.ip]
             h == Append(old, r)
             s0 == PruneDiscovery(ev.ts)[ev.ip]
             s1 == Window(s0, ev)
             s == Attacked(ev)
  <1>0. /\ ev.ip \in IPs /\ ev.ts \in Int /\ DomainOf[ev.account] \in Domains
        /\ Skew \in Nat /\ DiscoveryTime \in Nat \ {0}
    BY EventsAssumption, DomainDiscoveryAssumption DEF IsAttack, EventType
  <1>1. old \in Seq(A) /\ r \in A /\ r.ts = ev.ts /\ r.item = DomainOf[ev.account]
    BY <1>0 DEF DiscoveryTypeOK
  <1> HIDE DEF A, r
  <1>2. /\ h \in Seq(A) /\ Len(h) = Len(old) + 1 /\ Len(old) \in Nat
        /\ \A i \in 1..Len(old) : h[i] = old[i]
        /\ h[Len(old) + 1] = r
    BY <1>1, AppendProperties, LenProperties
  <1>3. s0 = states[ev.ip] \/ s0 = NoState
    BY <1>0 DEF PruneDiscovery
  <1>4. states[ev.ip] \in [start : Int, domains : SUBSET Domains]
    BY <1>0 DEF DiscoveryTypeOK
  <1>5. \/ s1 = [start |-> ev.ts, domains |-> {}]
        \/ s1 = states[ev.ip] /\ s1.domains # {} /\ ~Over(s1, ev.ts)
    BY <1>3 DEF Window, NoState
  <1>6. s = [s1 EXCEPT !.domains = @ \cup {DomainOf[ev.account]}]
    BY DEF Attacked
  <1>7. Len(old) + 1 \in 1..Len(h)
    BY <1>2
  <1> HIDE DEF s0, s1, s, h
  <1>8. CASE s1 = [start |-> ev.ts, domains |-> {}]
    <2>1. s.start = ev.ts /\ s.domains = {DomainOf[ev.account]}
      BY <1>6, <1>8
    <2>2. r.ts >= s.start - Skew
      BY <1>0, <1>1, <2>1
    <2>3. s.start \in Int /\ s.start <= now' /\ ev.ts - s.start < DiscoveryTime
      BY <1>0, <2>1
    <2>4. \A dom \in s.domains : \E i \in 1..Len(h) : h[i].item = dom /\ h[i].ts >= s.start - Skew
      BY <1>1, <1>2, <1>7, <2>1, <2>2
    <2> QED BY <1>2, <2>3, <2>4 DEF A, h, s, r
  <1>9. CASE s1 = states[ev.ip] /\ s1.domains # {} /\ ~Over(s1, ev.ts)
    <2>1. s.start = states[ev.ip].start
          /\ s.domains = states[ev.ip].domains \cup {DomainOf[ev.account]}
      BY <1>4, <1>6, <1>9
    <2>2. /\ s.start <= now
          /\ \A dom \in states[ev.ip].domains : \E i \in 1..Len(old) :
                old[i].item = dom /\ old[i].ts >= s.start - Skew
      BY <1>0, <1>9, <2>1 DEF Attested
    <2>3. s.start \in Int /\ ev.ts - s.start < DiscoveryTime
      BY <1>0, <1>4, <1>9, <2>1 DEF Over
    <2>4. r.ts >= s.start - Skew /\ s.start <= now'
      BY <1>0, <1>1, <2>2, <2>3
    <2>5. ASSUME NEW dom \in s.domains
          PROVE  \E i \in 1..Len(h) : h[i].item = dom /\ h[i].ts >= s.start - Skew
      <3>1. CASE dom = DomainOf[ev.account]
        BY <1>1, <1>2, <1>7, <2>4, <3>1
      <3>2. CASE dom \in states[ev.ip].domains
        <4>1. PICK i \in 1..Len(old) : old[i].item = dom /\ old[i].ts >= s.start - Skew
          BY <2>2, <3>2
        <4>2. i \in 1..Len(h) /\ h[i] = old[i]
          BY <1>2, <4>1
        <4> QED BY <4>1, <4>2
      <3> QED BY <2>1, <3>1, <3>2
    <2> QED BY <1>2, <2>3, <2>4, <2>5 DEF A, h, s, r
  <1> QED BY <1>5, <1>8, <1>9

\* Time alone disorders nothing.
LEMMA EvidenceAges ==
  ASSUME WindowsTypeOK, DiscoveryTypeOK, EvidenceInv, now \in Int, now' \in Int, now <= now'
  PROVE  /\ \A m \in Sliding, k \in Keys :
               UNCHANGED since => NearlyOrdered(since[m][k])'
         /\ \A a \in IPs : states'[a] = states[a] /\ attacks'[a] = attacks[a]
               => Attested(states[a], attacks[a])'
  <1>1. ASSUME NEW m \in Sliding, NEW k \in Keys, UNCHANGED since
        PROVE  NearlyOrdered(since[m][k])'
    <2>1. NearlyOrdered(since[m][k]) /\ since[m][k] \in Seq(Entries)
      BY DEF EvidenceInv, WindowsTypeOK
    <2>2. \A i \in 1..Len(since[m][k]) : since[m][k][i].ts \in Int
      BY <2>1, RecordTime
    <2>3. \A i \in 1..Len(since[m][k]) : since[m][k][i].ts <= now'
      BY <2>1, <2>2 DEF NearlyOrdered
    <2> QED BY <1>1, <2>1, <2>3 DEF NearlyOrdered
  <1>2. ASSUME NEW a \in IPs, states'[a] = states[a], attacks'[a] = attacks[a]
        PROVE  Attested(states[a], attacks[a])'
    <2>1. Attested(states[a], attacks[a]) /\ states[a].start \in Int
      BY DEF EvidenceInv, DiscoveryTypeOK
    <2>2. states[a].start <= now => states[a].start <= now'
      BY <2>1
    <2> QED BY <1>2, <2>1, <2>2 DEF Attested
  <1> QED BY <1>1, <1>2

LEMMA AttacksStayAttested ==
  ASSUME DiscoveryTypeOK, WindowsTypeOK, EvidenceInv,
         NEW ev \in EventType, HandleDiscovery(ev), now \in Int, now - Skew <= ev.ts,
         now' \in Int, now <= now', ev.ts <= now', NEW a \in IPs
  PROVE  Attested(states[a], attacks[a])'
  <1>1. CASE ~IsAttack(ev)
    <2>1. states' = states /\ attacks' = attacks
      BY <1>1 DEF HandleDiscovery, discoveryVars
    <2> QED BY <2>1, EvidenceAges
  <1>2. CASE IsAttack(ev)
    <2> DEFINE h == Append(attacks[ev.ip], [ts |-> ev.ts, item |-> DomainOf[ev.account]])
    <2>1. /\ states' = [PruneDiscovery(ev.ts) EXCEPT
                          ![ev.ip] = IF Discovers(ev) THEN NoState ELSE Attacked(ev)]
          /\ attacks' = [attacks EXCEPT ![ev.ip] = IF Discovers(ev) THEN <<>> ELSE h]
      BY <1>2 DEF HandleDiscovery
    <2>2. DOMAIN attacks = IPs /\ DOMAIN PruneDiscovery(ev.ts) = IPs /\ ev.ip \in IPs
          /\ \A b \in IPs : \/ PruneDiscovery(ev.ts)[b] = states[b]
                            \/ PruneDiscovery(ev.ts)[b] = NoState
      BY <1>2 DEF DiscoveryTypeOK, PruneDiscovery, IsAttack, EventType
    <2>3. CASE a # ev.ip
      <3>1. attacks'[a] = attacks[a] /\ (states'[a] = states[a] \/ states'[a] = NoState)
        BY <2>1, <2>2, <2>3
      <3>2. CASE states'[a] = NoState
        BY <3>2 DEF Attested, NoState
      <3> QED BY <3>1, <3>2, EvidenceAges
    <2>4. CASE a = ev.ip /\ Discovers(ev)
      <3>1. states'[a] = NoState
        BY <2>1, <2>2, <2>4
      <3> QED BY <3>1 DEF Attested, NoState
    <2>5. CASE a = ev.ip /\ ~Discovers(ev)
      <3>1. states'[a] = Attacked(ev) /\ attacks'[a] = h
        BY <2>1, <2>2, <2>5
      <3>2. \A b \in IPs : Attested(states[b], attacks[b])
        BY DEF EvidenceInv
      <3>3. /\ Attacked(ev).start <= now'
            /\ \A dom \in Attacked(ev).domains : \E i \in 1..Len(h) :
                  h[i].item = dom /\ h[i].ts >= Attacked(ev).start - Skew
        BY <1>2, <3>2, AttackedIsAttested
      <3> HIDE DEF h
      <3> QED BY <3>1, <3>3 DEF Attested
    <2> QED BY <2>3, <2>4, <2>5
  <1> QED BY <1>1, <1>2

LEMMA EvidenceInvHolds == Spec => []EvidenceInv
  <1>1. Init => EvidenceInv
    <2> SUFFICES ASSUME Init PROVE EvidenceInv
      OBVIOUS
    <2>1. /\ \A m \in Sliding, k \in Keys : since[m][k] = <<>>
          /\ \A a \in IPs : states[a] = NoState
      BY DEF Init, WindowsInit, DiscoveryInit
    <2>2. 1..Len(<<>>) = {} /\ NoState.domains = {}
      BY DEF NoState
    <2> QED BY <2>1, <2>2 DEF EvidenceInv, NearlyOrdered, Attested
  <1>2. EngineInv /\ EvidenceInv /\ [Next]_vars => EvidenceInv'
    <2> SUFFICES ASSUME EngineInv, EvidenceInv, [Next]_vars PROVE EvidenceInv'
      OBVIOUS
    <2>0. /\ EngineTypeOK /\ WindowsTypeOK /\ DiscoveryTypeOK
          /\ now \in Int /\ \A t \in 0..MaxTime : t \in Int
      BY EngineAssumption DEF EngineInv, EngineTypeOK
    <2>1. ASSUME NEW kind \in Kinds, NEW at \in 0..MaxTime, Dispatch(kind, at) PROVE EvidenceInv'
      <3>1. /\ Seen \in EventType /\ Seen.ts = at
            /\ HandleWindows(Seen) /\ HandleDiscovery(Seen)
            /\ now' \in 0..MaxTime /\ now <= now' /\ now - Skew <= at /\ at <= now'
        BY <2>0, <2>1, Dispatching
      <3>2. now' \in Int
        BY <2>0, <3>1
      <3>3. \A m \in Sliding, k \in Keys : NearlyOrdered(since[m][k])
        BY DEF EvidenceInv
      <3> HIDE DEF Seen
      <3>4. \A m \in Sliding, k \in Keys : NearlyOrdered(since[m][k])'
        BY <2>0, <3>1, <3>2, <3>3, SinceStaysOrdered
      <3>5. \A a \in IPs : Attested(states[a], attacks[a])'
        BY <2>0, <3>1, <3>2, AttacksStayAttested
      <3> QED BY <3>4, <3>5 DEF EvidenceInv
    <2>2. CASE \A kind \in Kinds, at \in 0..MaxTime : ~Dispatch(kind, at)
      <3>1. UNCHANGED modules /\ now' \in 0..MaxTime /\ now <= now'
        BY <2>2, NotDispatching
      <3>2. UNCHANGED since /\ UNCHANGED <<states, attacks>> /\ now' \in Int
        BY <2>0, <3>1 DEF modules, windowVars, discoveryVars
      <3> QED BY <2>0, <3>1, <3>2, EvidenceAges DEF EvidenceInv
    <2> QED BY <2>1, <2>2
  <1> QED BY <1>1, <1>2, EngineInvHolds, PTL DEF Spec

\* A window that fires holds the last records on its key, and none of them is
\* older than the window by more than the lag: the first one is inside.
LEMMA FiringIsEarned ==
  ASSUME SlidingInv, \A m \in Sliding, k \in Keys : NearlyOrdered(since[m][k]),
         NEW ev \in EventType, NEW m \in Sliding, Fires(m, ev), now - Skew <= ev.ts,
         now' \in Nat, now <= now', ev.ts <= now'
  PROVE  Earned(m, ev)
  <1> DEFINE key == KeyOf(m, ev)
             w == windows[m][key]
             h == since[m][key]
             e == Entry(m, ev)
             c == Cutoff(m, ev)
             g == Append(h, e)
             v == Append(TrimOld(w, c), e)
  <1>0. /\ Handles(m, ev) /\ Reached(m, v)
        /\ now \in Nat /\ Skew \in Nat /\ ScanTime[m] \in Nat /\ ev.ts \in Int
    BY EventsAssumption, SlidingWindowAssumption DEF Fires, Current, SlidingInv, EventType
  <1>1. key \in Keys /\ e \in Entries /\ e.ts = ev.ts
    BY <1>0, KeyAndEntry DEF Entry
  <1>2. w \in Seq(Entries) /\ h \in Seq(Entries) /\ NearlyOrdered(h)
        /\ Follows(w, h, now - ScanTime[m])
    BY <1>1 DEF SlidingInv, Faithful
  <1>3. c = ev.ts - ScanTime[m]
    BY DEF Cutoff
  <1>4. Earned(m, ev) <=> Suffice(m, g, NotBefore(g, ev.ts - ScanTime[m] - Skew))
    BY DEF Earned, Evidence, Sliding
  <1> HIDE DEF key, w, h, e, c
  <1>5. /\ now - ScanTime[m] \in Int /\ now' - ScanTime[m] \in Int
        /\ now - ScanTime[m] <= now' - ScanTime[m] /\ c \in Int /\ c <= now' - ScanTime[m]
    BY <1>0, <1>3
  <1>6. Follows(w, h, now' - ScanTime[m])
    BY <1>2, <1>5, FollowsLater
  <1>7. v \in Seq(Entries) /\ g \in Seq(Entries) /\ Follows(v, g, now' - ScanTime[m])
    BY <1>1, <1>2, <1>5, <1>6, FollowsRecord
  <1>8. \A i, j \in 1..Len(g) : i < j => g[i].ts - Skew <= g[j].ts
    <2>1. \A i \in 1..Len(h) : h[i].ts \in Int
      BY <1>2, RecordTime
    <2>2. now \in Int /\ now' \in Int /\ e.ts \in Int /\ now - Skew <= e.ts /\ e.ts <= now'
      BY <1>0, <1>1
    <2> QED BY <1>1, <1>2, <2>1, <2>2, OrderedAppend
  <1>9. v[1].ts >= c /\ 1 \in 1..Len(v)
    <2>1. PICK n \in 0..Len(w) :
            /\ TrimOld(w, c) \in Seq(Entries)
            /\ Len(TrimOld(w, c)) = Len(w) - n
            /\ \A i \in 1..(Len(w) - n) : TrimOld(w, c)[i] = w[n + i]
            /\ n < Len(w) => ~(w[n + 1].ts < c)
      BY <1>2, <1>5, TrimOldIsSuffix
    <2> DEFINE t == TrimOld(w, c)
    <2> HIDE DEF t
    <2>2. /\ Len(v) = Len(TrimOld(w, c)) + 1 /\ v[Len(TrimOld(w, c)) + 1] = e
          /\ \A i \in 1..Len(TrimOld(w, c)) : v[i] = TrimOld(w, c)[i]
      <3>1. t \in Seq(Entries)
        BY <2>1 DEF t
      <3>2. /\ Len(Append(t, e)) = Len(t) + 1 /\ Append(t, e)[Len(t) + 1] = e
            /\ \A i \in 1..Len(t) : Append(t, e)[i] = t[i]
        BY <1>1, <3>1, AppendProperties
      <3> QED BY <3>2 DEF t
    <2>3. Len(w) \in Nat /\ n \in Nat /\ n <= Len(w)
      BY <1>2, LenProperties
    <2> HIDE DEF v
    <2>4. CASE n = Len(w)
      <3>1. v[1] = e /\ e.ts >= c
        BY <1>0, <1>1, <1>3, <2>1, <2>2, <2>3, <2>4
      <3> QED BY <2>1, <2>2, <2>3, <2>4, <3>1
    <2>5. CASE n < Len(w)
      <3>1. 1 \in 1..(Len(w) - n) /\ 1 \in 1..Len(TrimOld(w, c)) /\ n + 1 \in 1..Len(w)
        BY <2>1, <2>3, <2>5
      <3>2. v[1] = w[n + 1] /\ w[n + 1].ts \in Int
        BY <1>2, <2>1, <2>2, <3>1, RecordTime
      <3>3. 1 \in 1..Len(v)
        BY <2>1, <2>2, <2>3
      <3> QED BY <1>5, <2>1, <2>5, <3>2, <3>3
    <2> QED BY <2>3, <2>4, <2>5
  <1>10. PICK d \in 0..Len(g) :
            Len(v) = Len(g) - d /\ \A i \in 1..(Len(g) - d) : v[i] = g[d + i]
    BY <1>7 DEF Follows
  <1> HIDE DEF v, g
  <1>11. Len(v) \in Nat /\ Len(g) \in Nat /\ d \in Nat
    BY <1>7, LenProperties
  <1>12. ASSUME NEW i \in 1..Len(v) PROVE v[i] = g[d + i] /\ v[i].ts >= c - Skew
    <2>1. v[i] = g[d + i] /\ v[1] = g[d + 1]
      BY <1>9, <1>10
    <2>2. d + i \in 1..Len(g) /\ d + 1 \in 1..Len(g) /\ i \in Nat /\ i >= 1
      BY <1>9, <1>10, <1>11
    <2>3. g[d + i].ts \in Int /\ g[d + 1].ts \in Int
      BY <1>7, <2>2, RecordTime
    <2>4. CASE i = 1
      BY <1>0, <1>5, <1>9, <2>1, <2>3, <2>4
    <2>5. CASE i > 1
      <3>1. g[d + 1].ts - Skew <= g[d + i].ts
        <4>1. d + 1 < d + i
          BY <1>11, <2>2, <2>5
        <4> QED BY <1>8, <2>2, <4>1
      <3>2. g[d + 1].ts >= c /\ c \in Int /\ Skew \in Nat
        BY <1>0, <1>5, <1>9, <2>1
      <3>3. g[d + i].ts >= c - Skew
        BY <2>3, <3>1, <3>2
      <3> QED BY <2>1, <3>3
    <2> QED BY <2>2, <2>4, <2>5
  <1>13. c - Skew \in Int /\ c - Skew = ev.ts - ScanTime[m] - Skew
    BY <1>0, <1>3
  <1>14. Suffice(m, g, NotBefore(g, c - Skew))
    BY <1>0, <1>7, <1>10, <1>12, <1>13, SuffixIsEvidence DEF Reached
  <1> QED BY <1>4, <1>13, <1>14 DEF g

\* A tumbling window is never older than DiscoveryTime, and nothing in it was
\* attacked before it started, but for the lag.
LEMMA DiscoveryIsEarned ==
  ASSUME DiscoveryTypeOK, \A a \in IPs : Attested(states[a], attacks[a]),
         NEW ev \in EventType, Discovers(ev), now \in Int, now - Skew <= ev.ts,
         now' \in Int, now <= now', ev.ts <= now'
  PROVE  Earned("domain_discovery", ev)
  <1> DEFINE s == Attacked(ev)
             h == Append(attacks[ev.ip], [ts |-> ev.ts, item |-> DomainOf[ev.account]])
             A == [ts : Int, item : Domains]
             P == NotBefore(h, ev.ts - DiscoveryTime - Skew)
  <1>1. IsAttack(ev) /\ Cardinality(s.domains) >= MaxDomains
    BY DEF Discovers
  <1>2. /\ s.start \in Int /\ s.start <= now' /\ ev.ts - s.start < DiscoveryTime
        /\ h \in Seq(A)
        /\ \A dom \in s.domains : \E i \in 1..Len(h) :
              h[i].item = dom /\ h[i].ts >= s.start - Skew
    BY <1>1, AttackedIsAttested
  <1>3. Earned("domain_discovery", ev) <=> Cardinality(Distinct(h, P)) >= MaxDomains
    BY DEF Earned, Evidence
  <1>4. ev.ts \in Int /\ Skew \in Nat /\ DiscoveryTime \in Nat /\ MaxDomains \in Nat
    BY EventsAssumption, DomainDiscoveryAssumption DEF EventType
  <1> HIDE DEF s, h
  <1>5. \A i \in 1..Len(h) : h[i] \in A
    BY <1>2, ElementOfSeq
  <1>6. s.domains \subseteq Distinct(h, P)
    <2> SUFFICES ASSUME NEW dom \in s.domains
                 PROVE  dom # None /\ \E i \in P : h[i].item = dom
      BY DEF Distinct
    <2>1. PICK i \in 1..Len(h) : h[i].item = dom /\ h[i].ts >= s.start - Skew
      BY <1>2
    <2>2. h[i].ts \in Int /\ dom \in Domains
      BY <1>5, <2>1
    <2>3. h[i].ts >= ev.ts - DiscoveryTime - Skew
      BY <1>2, <1>4, <2>1, <2>2
    <2> QED BY <2>1, <2>2, <2>3, EventsAssumption DEF NotBefore
  <1>7. IsFiniteSet(P)
    BY <1>2, FiniteNotBefore
  <1> HIDE DEF P
  <1>8. IsFiniteSet(Distinct(h, P))
    BY <1>7, FiniteDistinct
  <1>9. /\ Cardinality(s.domains) <= Cardinality(Distinct(h, P)) /\ IsFiniteSet(s.domains)
    BY <1>6, <1>8, FS_Subset
  <1>10. Cardinality(s.domains) \in Nat /\ Cardinality(Distinct(h, P)) \in Nat
    BY <1>8, <1>9, FS_CardinalityType
  <1>11. Cardinality(Distinct(h, P)) >= MaxDomains
    BY <1>1, <1>4, <1>9, <1>10
  <1> QED BY <1>3, <1>11 DEF P

\* No alert rests on too few events, on events an earlier alert has counted, or
\* on events older than the window by more than the lag of a log.  trimOld stops
\* at the first record inside the window, and what follows it can be older than
\* that record by no more than the lag.
THEOREM AlertsRestOnEvidence == Spec => AlertsAreEarned
  <1>1. EngineInv /\ SlidingInv /\ EvidenceInv /\ [Next]_vars =>
           [Dispatched => \A m \in Sliding \cup {"domain_discovery"} :
                             RaisedBy(m) # {} => Earned(m, Seen)]_vars
    <2> SUFFICES ASSUME EngineInv, SlidingInv, EvidenceInv, [Next]_vars, Dispatched,
                        NEW m \in Sliding \cup {"domain_discovery"}, RaisedBy(m) # {}
                 PROVE  Earned(m, Seen)
      OBVIOUS
    <2>0. EngineTypeOK /\ Clean /\ WindowsTypeOK /\ DiscoveryTypeOK
          /\ windows["sasl_connections"] \in [Keys -> Seq(CleanEntries)]
      BY DEF EngineInv, EngineTypeOK, Clean
    <2>1. PICK kind \in Kinds, at \in 0..MaxTime : Dispatch(kind, at)
      BY DispatchedStep
    <2>2. /\ Seen \in EventType /\ Seen.ip \notin Blameless /\ Seen.ts = at
          /\ now' \in 0..MaxTime /\ now <= now' /\ now - Skew <= at /\ at <= now'
      BY <2>0, <2>1, Dispatching
    <2>3. /\ \A s \in Sliding : RaisedBy(s) = Range(WindowAlerts(s, Seen, lost'))
          /\ RaisedBy("domain_discovery") = Range(DiscoveryAlerts(Seen))
      BY <2>1, RaisedByModule
    <2>4. /\ now \in Nat /\ now' \in Nat /\ now \in Int /\ now' \in Int
          /\ \A s \in Sliding, k \in Keys : NearlyOrdered(since[s][k])
          /\ \A a \in IPs : Attested(states[a], attacks[a])
      BY <2>2, EngineAssumption DEF SlidingInv, EvidenceInv
    <2> HIDE DEF Seen
    <2>5. CASE m \in Sliding
      <3>1. /\ WindowAlerts(m, Seen, lost') \in Seq(AlertsOf(m))
            /\ WindowAlerts(m, Seen, lost') # <<>> => Fires(m, Seen)
        BY <2>0, <2>2, <2>5, WindowAlertsAre
      <3>2. Fires(m, Seen)
        BY <2>3, <2>5, <3>1, RangeInSeq
      <3> QED BY <2>2, <2>4, <2>5, <3>2, FiringIsEarned
    <2>6. CASE m = "domain_discovery"
      <3>1. /\ DiscoveryAlerts(Seen) \in Seq(AlertsOf("domain_discovery"))
            /\ DiscoveryAlerts(Seen) # <<>> => Discovers(Seen)
        BY <2>2, DiscoveryAlertsAre
      <3>2. Discovers(Seen)
        BY <2>3, <2>6, <3>1, RangeInSeq
      <3> QED BY <2>0, <2>2, <2>4, <2>6, <3>2, DiscoveryIsEarned
    <2> QED BY <2>5, <2>6
  <1> QED BY <1>1, EngineInvHolds, SlidingInvHolds, EvidenceInvHolds, PTL
          DEF Spec, AlertsAreEarned

-----------------------------------------------------------------------------
(* The failures of an account.                                             *)

\* The failures of addr that are not older than from, and their number.
Found(w, addr, from) == {i \in 1..Len(w) : w[i].item = addr /\ w[i].ts >= from}
Tally(w, addr, from) == Cardinality(Found(w, addr, from))

\* account_takeover has every failure that is inside the window by the latest
\* clock and none that was never made, in chronological order.
Chronological(w) == \A i, j \in 1..Len(w) : i <= j => w[i].ts <= w[j].ts
Remembers(w, h, from) ==
    \A addr \in IPs, c \in Int :
        /\ Tally(w, addr, c) <= Tally(h, addr, c)
        /\ c >= from => Tally(w, addr, c) = Tally(h, addr, c)
TakeoverInv ==
    \A a \in Accounts :
        /\ Chronological(failures[a])
        /\ Remembers(failures[a], attempts[a], now - CorrelWindow)

LEMMA SameSize ==
  ASSUME NEW S, NEW T, IsFiniteSet(S), NEW g \in [S -> T],
         \A x, y \in S : g[x] = g[y] => x = y, \A t \in T : \E x \in S : g[x] = t
  PROVE  IsFiniteSet(T) /\ Cardinality(T) = Cardinality(S)
  <1>1. g \in Bijection(S, T)
    BY DEF Bijection, Injection, Surjection, IsInjective
  <1>2. ExistsBijection(S, T)
    BY <1>1 DEF ExistsBijection
  <1> QED BY <1>2, FS_Bijection

LEMMA FailureTime ==
  ASSUME NEW w \in Seq(Failures), NEW i \in 1..Len(w)
  PROVE  w[i].ts \in Int /\ w[i].item \in IPs
  <1>1. w[i] \in Failures
    BY ElementOfSeq
  <1> QED BY <1>1 DEF Failures

LEMMA FoundIsFinite ==
  ASSUME NEW S, NEW w \in Seq(S), NEW addr, NEW from
  PROVE  IsFiniteSet(Found(w, addr, from)) /\ Tally(w, addr, from) \in Nat
  <1>1. Len(w) \in Nat
    BY LenProperties
  <1>2. IsFiniteSet(1..Len(w)) /\ Found(w, addr, from) \subseteq 1..Len(w)
    BY <1>1, FS_Interval DEF Found
  <1> QED BY <1>2, FS_Subset, FS_CardinalityType DEF Tally

\* One more record, wherever it goes.
LEMMA TallyOfOneMore ==
  ASSUME NEW S, NEW u \in Seq(S), NEW v \in Seq(S), NEW n \in 0..Len(u), Len(v) = Len(u) + 1,
         \A i \in 1..n : v[i] = u[i], \A i \in (n + 1)..Len(u) : v[i + 1] = u[i],
         NEW addr, NEW from
  PROVE  Tally(v, addr, from) = Tally(u, addr, from)
            + (IF v[n + 1].item = addr /\ v[n + 1].ts >= from THEN 1 ELSE 0)
  <1> DEFINE A == Found(u, addr, from)
             B == Found(v, addr, from)
             C == B \ {n + 1}
             g == [i \in A |-> IF i <= n THEN i ELSE i + 1]
  <1>1. Len(u) \in Nat /\ n \in Nat /\ n <= Len(u) /\ Len(v) = Len(u) + 1
    BY LenProperties
  <1>2. IsFiniteSet(A) /\ Cardinality(A) \in Nat
    BY FoundIsFinite DEF Tally
  <1>3. ASSUME NEW i \in A PROVE i \in Nat /\ g[i] \in C
    <2>1. i \in 1..Len(u) /\ u[i].item = addr /\ u[i].ts >= from
      BY DEF Found
    <2>2. CASE i <= n
      <3>1. i \in 1..n /\ i \in 1..Len(v) /\ i # n + 1
        BY <1>1, <2>1, <2>2
      <3> QED BY <2>1, <2>2, <3>1 DEF Found
    <2>3. CASE ~(i <= n)
      <3>1. i \in (n + 1)..Len(u) /\ i + 1 \in 1..Len(v) /\ i + 1 # n + 1
        BY <1>1, <2>1, <2>3
      <3> QED BY <2>1, <2>3, <3>1 DEF Found
    <2> QED BY <2>1, <2>2, <2>3
  <1>4. g \in [A -> C] /\ \A i \in A : g[i] = IF i <= n THEN i ELSE i + 1
    BY <1>3
  <1>5. ASSUME NEW t \in C PROVE \E i \in A : g[i] = t
    <2>1. t \in 1..Len(v) /\ v[t].item = addr /\ v[t].ts >= from /\ t # n + 1
      BY DEF Found
    <2>2. CASE t <= n
      <3>1. t \in 1..n /\ t \in 1..Len(u)
        BY <1>1, <2>1, <2>2
      <3>2. t \in A
        BY <2>1, <3>1 DEF Found
      <3> QED BY <1>4, <2>2, <3>2
    <2>3. CASE ~(t <= n)
      <3>1. t - 1 \in (n + 1)..Len(u) /\ t - 1 \in 1..Len(u) /\ (t - 1) + 1 = t
        BY <1>1, <2>1, <2>3
      <3>2. v[t] = u[t - 1]
        BY <3>1
      <3>3. t - 1 \in A /\ ~(t - 1 <= n)
        BY <1>1, <2>1, <3>1, <3>2 DEF Found
      <3> QED BY <1>4, <3>1, <3>3
    <2> QED BY <2>2, <2>3
  <1> HIDE DEF g, A, C
  <1>6. \A x, y \in A : g[x] = g[y] => x = y
    BY <1>1, <1>3, <1>4
  <1>7. IsFiniteSet(C) /\ Cardinality(C) = Cardinality(A)
    BY <1>2, <1>4, <1>5, <1>6, SameSize
  <1>8. n + 1 \in B <=> v[n + 1].item = addr /\ v[n + 1].ts >= from
    <2>1. n + 1 \in 1..Len(v)
      BY <1>1
    <2> QED BY <2>1 DEF Found
  <1> HIDE DEF B
  <1>9. CASE n + 1 \in B
    <2>1. B = C \cup {n + 1} /\ n + 1 \notin C
      BY <1>9 DEF C
    <2>2. Cardinality(B) = Cardinality(C) + 1
      BY <1>7, <2>1, FS_AddElement
    <2> QED BY <1>7, <1>8, <1>9, <2>2 DEF A, B, Tally
  <1>10. CASE n + 1 \notin B
    <2>1. B = C
      BY <1>10 DEF C
    <2> QED BY <1>2, <1>7, <1>8, <1>10, <2>1 DEF A, B, Tally
  <1> QED BY <1>9, <1>10

\* A sorted insertion counts like an append.
LEMMA TallyOfRecord ==
  ASSUME NEW w \in Seq(Failures), NEW r \in Failures, NEW addr, NEW from
  PROVE  LET one == IF r.item = addr /\ r.ts >= from THEN 1 ELSE 0 IN
         /\ Tally(Append(w, r), addr, from) = Tally(w, addr, from) + one
         /\ Tally(InsertInOrder(w, r), addr, from) = Tally(w, addr, from) + one
  <1>1. Len(w) \in Nat
    BY LenProperties
  <1>2. Tally(Append(w, r), addr, from) = Tally(w, addr, from)
           + (IF r.item = addr /\ r.ts >= from THEN 1 ELSE 0)
    <2> DEFINE v == Append(w, r)
               n == Len(w)
    <2>1. /\ v \in Seq(Failures) /\ Len(v) = n + 1
          /\ \A i \in 1..n : v[i] = w[i]
          /\ v[n + 1] = r
      BY AppendProperties
    <2>2. n \in 0..Len(w) /\ (n + 1)..Len(w) = {}
      BY <1>1
    <2>3. \A i \in (n + 1)..Len(w) : v[i + 1] = w[i]
      BY <2>2
    <2>4. Len(v) = Len(w) + 1
      BY <2>1
    <2> HIDE DEF v, n
    <2>5. Tally(v, addr, from) = Tally(w, addr, from)
             + (IF v[n + 1].item = addr /\ v[n + 1].ts >= from THEN 1 ELSE 0)
      BY <2>1, <2>2, <2>3, <2>4, TallyOfOneMore
    <2> QED BY <2>1, <2>5 DEF v
  <1>3. Tally(InsertInOrder(w, r), addr, from) = Tally(w, addr, from)
           + (IF r.item = addr /\ r.ts >= from THEN 1 ELSE 0)
    <2> DEFINE v == InsertInOrder(w, r)
    <2>1. /\ v \in Seq(Failures)
          /\ \E n \in 0..Len(w) :
                /\ Len(v) = Len(w) + 1
                /\ \A i \in 1..n : v[i] = w[i]
                /\ v[n + 1] = r
                /\ \A i \in (n + 1)..Len(w) : v[i + 1] = w[i]
                /\ \A i \in (n + 1)..Len(w) : r.ts < w[i].ts
                /\ n > 0 => ~(r.ts < w[n].ts)
      BY InsertInOrderPlace
    <2> HIDE DEF v
    <2>2. PICK n \in 0..Len(w) :
                /\ Len(v) = Len(w) + 1
                /\ \A i \in 1..n : v[i] = w[i]
                /\ v[n + 1] = r
                /\ \A i \in (n + 1)..Len(w) : v[i + 1] = w[i]
      BY <2>1
    <2>3. v \in Seq(Failures) /\ Len(v) = Len(w) + 1
          /\ (\A i \in 1..n : v[i] = w[i]) /\ \A i \in (n + 1)..Len(w) : v[i + 1] = w[i]
      BY <2>1, <2>2
    <2>4. Tally(v, addr, from) = Tally(w, addr, from)
             + (IF v[n + 1].item = addr /\ v[n + 1].ts >= from THEN 1 ELSE 0)
      BY <2>3, TallyOfOneMore
    <2> QED BY <2>2, <2>4 DEF v
  <1> QED BY <1>2, <1>3

\* trimOld counts on what is inside the window and never adds anything.
LEMMA TallyOfTrim ==
  ASSUME NEW w \in Seq(Failures), NEW c \in Int, NEW addr, NEW from \in Int
  PROVE  /\ Tally(TrimOld(w, c), addr, from) <= Tally(w, addr, from)
         /\ from >= c => Tally(TrimOld(w, c), addr, from) = Tally(w, addr, from)
  <1> DEFINE t == TrimOld(w, c)
             n == Cardinality(OldPrefix(w, c))
             A == Found(t, addr, from)
             B == Found(w, addr, from)
             C == B \ 1..n
             g == [i \in A |-> n + i]
  <1>1. n \in 0..Len(w) /\ OldPrefix(w, c) = 1..n /\ Len(w) \in Nat
    BY OldPrefixIsInterval, LenProperties
  <1>2. t = SubSeq(w, n + 1, Len(w))
    BY DEF TrimOld
  <1> HIDE DEF n
  <1>3. /\ t \in Seq(Failures) /\ Len(t) = Len(w) - n
        /\ \A i \in 1..(Len(w) - n) : t[i] = w[n + i]
    BY <1>1, <1>2, SubSeqProperties
  <1> HIDE DEF t
  <1>4. IsFiniteSet(A) /\ Cardinality(A) \in Nat /\ IsFiniteSet(B) /\ Cardinality(B) \in Nat
    BY <1>3, FoundIsFinite DEF Tally
  <1>5. ASSUME NEW i \in A PROVE i \in Nat /\ n + i \in C
    <2>1. i \in 1..Len(t) /\ t[i].item = addr /\ t[i].ts >= from
      BY DEF Found
    <2>2. i \in 1..(Len(w) - n) /\ n + i \in 1..Len(w) /\ n + i \notin 1..n /\ i \in Nat
      BY <1>1, <1>3, <2>1
    <2> QED BY <1>3, <2>1, <2>2 DEF Found
  <1>6. g \in [A -> C] /\ \A i \in A : g[i] = n + i
    BY <1>5
  <1>7. ASSUME NEW j \in C PROVE \E i \in A : g[i] = j
    <2>1. j \in 1..Len(w) /\ w[j].item = addr /\ w[j].ts >= from /\ j \notin 1..n
      BY DEF Found
    <2>2. j - n \in 1..(Len(w) - n) /\ j - n \in 1..Len(t) /\ n + (j - n) = j
      BY <1>1, <1>3, <2>1
    <2>3. t[j - n] = w[j]
      BY <1>3, <2>2
    <2>4. j - n \in A
      BY <2>1, <2>2, <2>3 DEF Found
    <2> QED BY <1>6, <2>2, <2>4
  <1> HIDE DEF g, A, C
  <1>8. \A x, y \in A : g[x] = g[y] => x = y
    BY <1>1, <1>5, <1>6
  <1>9. Cardinality(C) = Cardinality(A)
    BY <1>4, <1>6, <1>7, <1>8, SameSize
  <1>10. Cardinality(C) <= Cardinality(B)
    <2>1. C \subseteq B
      BY DEF C
    <2> HIDE DEF B
    <2> QED BY <1>4, <2>1, FS_Subset
  <1>11. ASSUME from >= c PROVE C = B
    <2> SUFFICES ASSUME NEW i \in B, i \in 1..n PROVE FALSE
      BY DEF C
    <2>1. i \in OldPrefix(w, c) /\ i \in 1..i /\ i \in 1..Len(w)
      BY <1>1
    <2>2. w[i].ts < c
      BY <2>1 DEF OldPrefix
    <2>3. w[i].ts \in Int /\ w[i].ts >= from
      BY <2>1, FailureTime DEF Found
    <2> QED BY <1>11, <2>2, <2>3
  <1> HIDE DEF B
  <1> QED BY <1>4, <1>9, <1>10, <1>11 DEF A, B, t, Tally

\* Trimming a window in order leaves exactly what is inside, in order.
LEMMA TrimIsExact ==
  ASSUME NEW w \in Seq(Failures), Chronological(w), NEW c \in Int
  PROVE  /\ TrimOld(w, c) \in Seq(Failures) /\ Chronological(TrimOld(w, c))
         /\ \A i \in 1..Len(TrimOld(w, c)) : TrimOld(w, c)[i].ts >= c
  <1> DEFINE t == TrimOld(w, c)
             n == Cardinality(OldPrefix(w, c))
  <1>1. n \in 0..Len(w) /\ OldPrefix(w, c) = 1..n /\ Len(w) \in Nat
    BY OldPrefixIsInterval, LenProperties
  <1>2. t = SubSeq(w, n + 1, Len(w))
    BY DEF TrimOld
  <1> HIDE DEF n
  <1>3. /\ t \in Seq(Failures) /\ Len(t) = Len(w) - n
        /\ \A i \in 1..(Len(w) - n) : t[i] = w[n + i]
    BY <1>1, <1>2, SubSeqProperties
  <1> HIDE DEF t
  <1>4. ASSUME NEW i \in 1..Len(t) PROVE t[i] = w[n + i] /\ n + i \in 1..Len(w) /\ i \in Nat
    BY <1>1, <1>3
  <1>5. Chronological(t)
    <2> SUFFICES ASSUME NEW i \in 1..Len(t), NEW j \in 1..Len(t), i <= j
                 PROVE  t[i].ts <= t[j].ts
      BY DEF Chronological
    <2>1. n + i <= n + j
      BY <1>1, <1>4
    <2> QED BY <1>4, <2>1 DEF Chronological
  <1>6. ASSUME NEW i \in 1..Len(t) PROVE t[i].ts >= c
    <2>1. n + 1 \in 1..Len(w) /\ n + i \in 1..Len(w) /\ n + 1 <= n + i
      BY <1>1, <1>3, <1>4
    <2>2. w[n + 1].ts \in Int /\ w[n + i].ts \in Int
      BY <2>1, FailureTime
    <2>3. w[n + 1].ts <= w[n + i].ts
      BY <2>1 DEF Chronological
    <2>4. ~(w[n + 1].ts < c)
      <3> SUFFICES ASSUME w[n + 1].ts < c PROVE FALSE
        OBVIOUS
      <3>1. \A j \in 1..n : w[j].ts < c
        <4> SUFFICES ASSUME NEW j \in 1..n PROVE w[j].ts < c
          OBVIOUS
        <4>1. j \in OldPrefix(w, c) /\ j \in 1..j
          BY <1>1
        <4> QED BY <4>1 DEF OldPrefix
      <3>2. \A j \in 1..(n + 1) : w[j].ts < c
        BY <1>1, <3>1
      <3>3. n + 1 \in OldPrefix(w, c)
        BY <2>1, <3>2 DEF OldPrefix
      <3> QED BY <1>1, <3>3
    <2> QED BY <1>4, <2>2, <2>3, <2>4
  <1> QED BY <1>3, <1>5, <1>6 DEF t

\* A late record is sorted in.
LEMMA InsertKeepsOrder ==
  ASSUME NEW w \in Seq(Failures), Chronological(w), NEW r \in Failures
  PROVE  InsertInOrder(w, r) \in Seq(Failures) /\ Chronological(InsertInOrder(w, r))
  <1> DEFINE v == InsertInOrder(w, r)
  <1>1. /\ v \in Seq(Failures)
        /\ \E n \in 0..Len(w) :
              /\ Len(v) = Len(w) + 1
              /\ \A i \in 1..n : v[i] = w[i]
              /\ v[n + 1] = r
              /\ \A i \in (n + 1)..Len(w) : v[i + 1] = w[i]
              /\ \A i \in (n + 1)..Len(w) : r.ts < w[i].ts
              /\ n > 0 => ~(r.ts < w[n].ts)
    BY InsertInOrderPlace
  <1> HIDE DEF v
  <1>2. PICK n \in 0..Len(w) :
              /\ Len(v) = Len(w) + 1
              /\ \A i \in 1..n : v[i] = w[i]
              /\ v[n + 1] = r
              /\ \A i \in (n + 1)..Len(w) : v[i + 1] = w[i]
              /\ \A i \in (n + 1)..Len(w) : r.ts < w[i].ts
              /\ n > 0 => ~(r.ts < w[n].ts)
    BY <1>1
  <1>3. Len(w) \in Nat /\ n \in Nat /\ n <= Len(w) /\ r.ts \in Int
    BY LenProperties DEF Failures
  <1>4. \A i \in 1..Len(w) : w[i].ts \in Int
    BY FailureTime
  <1>5. ASSUME NEW i \in 1..n PROVE v[i] = w[i] /\ i \in 1..Len(w) /\ w[i].ts <= r.ts
    <2>1. i \in 1..Len(w) /\ n \in 1..Len(w) /\ i <= n /\ n > 0
      BY <1>3
    <2>2. w[i].ts <= w[n].ts /\ ~(r.ts < w[n].ts)
      BY <1>2, <2>1 DEF Chronological
    <2> QED BY <1>2, <1>3, <1>4, <2>1, <2>2
  <1>6. ASSUME NEW i \in (n + 2)..Len(v)
        PROVE  v[i] = w[i - 1] /\ i - 1 \in 1..Len(w) /\ r.ts <= w[i - 1].ts
    <2>1. i - 1 \in (n + 1)..Len(w) /\ i - 1 \in 1..Len(w) /\ (i - 1) + 1 = i
      BY <1>2, <1>3
    <2>2. v[i] = w[i - 1] /\ r.ts < w[i - 1].ts
      BY <1>2, <2>1
    <2> QED BY <1>3, <1>4, <2>1, <2>2
  <1>7. \A i \in 1..Len(v) : i \in 1..n \/ i = n + 1 \/ i \in (n + 2)..Len(v)
    BY <1>2, <1>3
  <1>8. ASSUME NEW i \in 1..Len(v), NEW j \in 1..Len(v), i <= j PROVE v[i].ts <= v[j].ts
    <2>1. CASE i \in 1..n /\ j \in 1..n
      BY <1>5, <1>8, <2>1 DEF Chronological
    <2>2. CASE i \in 1..n /\ j = n + 1
      BY <1>2, <1>5, <2>2
    <2>3. CASE i \in 1..n /\ j \in (n + 2)..Len(v)
      <3>1. i <= j - 1
        BY <1>3, <2>3
      <3>2. i \in 1..Len(w) /\ j - 1 \in 1..Len(w) /\ v[i] = w[i] /\ v[j] = w[j - 1]
        BY <1>5, <1>6, <2>3
      <3> QED BY <3>1, <3>2 DEF Chronological
    <2>4. CASE i = n + 1 /\ j = n + 1
      BY <1>2, <1>3, <2>4
    <2>5. CASE i = n + 1 /\ j \in (n + 2)..Len(v)
      BY <1>2, <1>6, <2>5
    <2>6. CASE i \in (n + 2)..Len(v) /\ j \in (n + 2)..Len(v)
      <3>1. i - 1 <= j - 1
        BY <1>3, <1>8, <2>6
      <3>2. i - 1 \in 1..Len(w) /\ j - 1 \in 1..Len(w) /\ v[i] = w[i - 1] /\ v[j] = w[j - 1]
        BY <1>6, <2>6
      <3> QED BY <3>1, <3>2 DEF Chronological
    <2>7. \/ i \in 1..n /\ j \in 1..n
          \/ i \in 1..n /\ j = n + 1
          \/ i \in 1..n /\ j \in (n + 2)..Len(v)
          \/ i = n + 1 /\ j = n + 1
          \/ i = n + 1 /\ j \in (n + 2)..Len(v)
          \/ i \in (n + 2)..Len(v) /\ j \in (n + 2)..Len(v)
      BY <1>3, <1>7, <1>8
    <2> QED BY <2>1, <2>2, <2>3, <2>4, <2>5, <2>6, <2>7
  <1> QED BY <1>1, <1>8 DEF Chronological, v

\* What is remembered stays so when the clock moves and old records go.
LEMMA RemembersTrimmed ==
  ASSUME NEW w \in Seq(Failures), NEW h \in Seq(Failures), NEW a \in Int, NEW b \in Int,
         Remembers(w, h, a), a <= b, NEW c \in Int, c <= b
  PROVE  Remembers(w, h, b) /\ Remembers(TrimOld(w, c), h, b)
  <1>1. TrimOld(w, c) \in Seq(Failures)
    BY TrimOldInSeq
  <1>2. ASSUME NEW addr \in IPs, NEW from \in Int
        PROVE  /\ Tally(w, addr, from) <= Tally(h, addr, from)
               /\ from >= b => Tally(w, addr, from) = Tally(h, addr, from)
               /\ Tally(TrimOld(w, c), addr, from) <= Tally(h, addr, from)
               /\ from >= b => Tally(TrimOld(w, c), addr, from) = Tally(h, addr, from)
    <2>1. /\ Tally(w, addr, from) <= Tally(h, addr, from)
          /\ from >= a => Tally(w, addr, from) = Tally(h, addr, from)
      BY DEF Remembers
    <2>2. /\ Tally(TrimOld(w, c), addr, from) <= Tally(w, addr, from)
          /\ from >= c => Tally(TrimOld(w, c), addr, from) = Tally(w, addr, from)
      BY TallyOfTrim
    <2>3. /\ Tally(w, addr, from) \in Nat /\ Tally(h, addr, from) \in Nat
          /\ Tally(TrimOld(w, c), addr, from) \in Nat
      BY <1>1, FoundIsFinite
    <2>4. from >= b => from >= a /\ from >= c
      OBVIOUS
    <2> QED BY <2>1, <2>2, <2>3, <2>4
  <1> QED BY <1>2 DEF Remembers

LEMMA RemembersRecord ==
  ASSUME NEW w \in Seq(Failures), NEW h \in Seq(Failures), NEW from, Remembers(w, h, from),
         NEW r \in Failures
  PROVE  Remembers(InsertInOrder(w, r), Append(h, r), from)
  <1>1. ASSUME NEW addr \in IPs, NEW c \in Int
        PROVE  /\ Tally(InsertInOrder(w, r), addr, c) <= Tally(Append(h, r), addr, c)
               /\ c >= from =>
                     Tally(InsertInOrder(w, r), addr, c) = Tally(Append(h, r), addr, c)
    <2> DEFINE one == IF r.item = addr /\ r.ts >= c THEN 1 ELSE 0
    <2>1. Tally(InsertInOrder(w, r), addr, c) = Tally(w, addr, c) + one
      BY TallyOfRecord
    <2>2. Tally(Append(h, r), addr, c) = Tally(h, addr, c) + one
      BY TallyOfRecord
    <2>3. /\ Tally(w, addr, c) <= Tally(h, addr, c)
          /\ c >= from => Tally(w, addr, c) = Tally(h, addr, c)
      BY DEF Remembers
    <2>4. Tally(w, addr, c) \in Nat /\ Tally(h, addr, c) \in Nat /\ one \in Nat
      BY FoundIsFinite
    <2> HIDE DEF one
    <2> QED BY <2>1, <2>2, <2>3, <2>4
  <1> QED BY <1>1 DEF Remembers

LEMMA ClockMoves ==
  ASSUME now \in Nat, now' \in Nat, now <= now', NEW c \in Nat
  PROVE  now - c <= now' - c
  <1> DEFINE past == now
             present == now'
  <1>1. past \in Nat /\ present \in Nat /\ past <= present
    OBVIOUS
  <1> HIDE DEF past, present
  <1>2. past - c <= present - c
    BY <1>1
  <1> QED BY <1>2 DEF past, present

\* The failures a handler finds after the purge and after its own trimming.
LEMMA RecentIsExact ==
  ASSUME TakeoverTypeOK, TakeoverInv, NEW ev \in EventType,
         now \in Nat, now' \in Nat, now <= now', ev.ts <= now', NEW a \in Accounts
  PROVE  LET p == Purged(ev)[a]
             t == TrimOld(p, ev.ts - CorrelWindow)
         IN  /\ p \in Seq(Failures) /\ Chronological(p)
             /\ Remembers(p, attempts[a], now' - CorrelWindow)
             /\ t \in Seq(Failures) /\ Chronological(t)
             /\ Remembers(t, attempts[a], now' - CorrelWindow)
             /\ \A i \in 1..Len(t) : t[i].ts >= ev.ts - CorrelWindow
  <1> DEFINE w == failures[a]
             h == attempts[a]
             c == ev.ts - CorrelWindow
             b == now' - CorrelWindow
             p == Purged(ev)[a]
  <1>1. /\ w \in Seq(Failures) /\ h \in Seq(Failures) /\ Chronological(w)
        /\ Remembers(w, h, now - CorrelWindow)
    BY DEF TakeoverTypeOK, TakeoverInv
  <1>2. /\ now - CorrelWindow \in Int /\ b \in Int /\ c \in Int /\ c <= b
        /\ now - CorrelWindow <= b
    <2>1. ev.ts \in Int
      BY DEF EventType
    <2>2. CorrelWindow \in Nat
      BY AccountTakeoverAssumption
    <2>3. now - CorrelWindow \in Int /\ b \in Int /\ c \in Int
      BY <2>1, <2>2
    <2>4. now - CorrelWindow <= b
      BY <2>2, ClockMoves
    <2>5. c <= b
      BY <2>1, <2>2
    <2> QED BY <2>3, <2>4, <2>5
  <1>3. p = w \/ p = TrimOld(w, c)
    BY DEF Purged
  <1> HIDE DEF w, h, c, b, p
  <1>4. Remembers(w, h, b) /\ Remembers(TrimOld(w, c), h, b)
    BY <1>1, <1>2, RemembersTrimmed
  <1>5. p \in Seq(Failures) /\ Chronological(p) /\ Remembers(p, h, b)
    BY <1>1, <1>2, <1>3, <1>4, TrimIsExact
  <1>6. Remembers(TrimOld(p, c), h, b)
    BY <1>1, <1>2, <1>5, RemembersTrimmed
  <1>7. /\ TrimOld(p, c) \in Seq(Failures) /\ Chronological(TrimOld(p, c))
        /\ \A i \in 1..Len(TrimOld(p, c)) : TrimOld(p, c)[i].ts >= c
    BY <1>2, <1>5, TrimIsExact
  <1> QED BY <1>5, <1>6, <1>7 DEF h, c, b, p

LEMMA TakeoverStep ==
  ASSUME TakeoverTypeOK, TakeoverInv, NEW ev \in EventType, HandleTakeover(ev),
         now \in Nat, now' \in Nat, now <= now', ev.ts <= now', NEW a \in Accounts
  PROVE  /\ Chronological(failures'[a])
         /\ Remembers(failures'[a], attempts'[a], now' - CorrelWindow)
  <1> DEFINE fail == [ts |-> ev.ts, item |-> ev.ip]
             tracked == IsFailure(ev) \/ IsLogin(ev) \/ IsMessage(ev)
             clears == Breaks(ev) \/ Crowded(ev)
             p == Purged(ev)[a]
             t == TrimOld(p, ev.ts - CorrelWindow)
             b == now' - CorrelWindow
  <1>1. /\ p \in Seq(Failures) /\ Chronological(p) /\ Remembers(p, attempts[a], b)
        /\ t \in Seq(Failures) /\ Chronological(t) /\ Remembers(t, attempts[a], b)
    BY RecentIsExact
  <1>2. /\ DOMAIN Purged(ev) = Accounts /\ DOMAIN attempts = Accounts
        /\ attempts[a] \in Seq(Failures)
    BY DEF TakeoverTypeOK, Purged
  <1>3. failures' = IF ~tracked THEN Purged(ev)
                    ELSE [Purged(ev) EXCEPT ![ev.account] =
                             IF clears THEN <<>>
                             ELSE IF IsFailure(ev) THEN InsertInOrder(Recent(ev), fail)
                             ELSE Recent(ev)]
    BY DEF HandleTakeover
  <1>4. attempts' = IF ~tracked THEN attempts
                    ELSE [attempts EXCEPT ![ev.account] =
                             IF clears THEN <<>>
                             ELSE IF IsFailure(ev) THEN Append(@, fail) ELSE @]
    BY DEF HandleTakeover
  <1>5. a = ev.account => Recent(ev) = t
    BY DEF Recent
  <1>6. IsFailure(ev) => fail \in Failures
    BY DEF IsFailure, EventType, Failures
  <1> HIDE DEF fail, tracked, clears, p, t, b
  <1>7. CASE ~tracked \/ a # ev.account
    <2>1. failures'[a] = p /\ attempts'[a] = attempts[a]
      BY <1>2, <1>3, <1>4, <1>7 DEF p
    <2> QED BY <1>1, <2>1 DEF b
  <1>8. CASE tracked /\ a = ev.account /\ clears
    <2>1. failures'[a] = <<>> /\ attempts'[a] = <<>>
      BY <1>2, <1>3, <1>4, <1>8
    <2>2. <<>> \in Seq(Failures) /\ 1..Len(<<>>) = {}
      BY EmptySeq
    <2>3. Chronological(<<>>)
      BY <2>2 DEF Chronological
    <2>4. \A addr, c : Tally(<<>>, addr, c) \in Nat
      BY <2>2, FoundIsFinite
    <2>5. Remembers(<<>>, <<>>, b)
      BY <2>4 DEF Remembers
    <2> QED BY <2>1, <2>3, <2>5 DEF b
  <1>9. CASE tracked /\ a = ev.account /\ ~clears /\ IsFailure(ev)
    <2>1. failures'[a] = InsertInOrder(t, fail) /\ attempts'[a] = Append(attempts[a], fail)
      BY <1>2, <1>3, <1>4, <1>5, <1>9
    <2>2. Chronological(InsertInOrder(t, fail))
      BY <1>1, <1>6, <1>9, InsertKeepsOrder
    <2>3. Remembers(InsertInOrder(t, fail), Append(attempts[a], fail), b)
      BY <1>1, <1>2, <1>6, <1>9, RemembersRecord
    <2> QED BY <2>1, <2>2, <2>3 DEF b
  <1>10. CASE tracked /\ a = ev.account /\ ~clears /\ ~IsFailure(ev)
    <2>1. failures'[a] = t /\ attempts'[a] = attempts[a]
      BY <1>2, <1>3, <1>4, <1>5, <1>10
    <2> QED BY <1>1, <2>1 DEF b
  <1> QED BY <1>7, <1>8, <1>9, <1>10

LEMMA TakeoverInvHolds == Spec => []TakeoverInv
  <1>1. Init => TakeoverInv
    <2> SUFFICES ASSUME Init, NEW a \in Accounts
                 PROVE  /\ Chronological(failures[a])
                        /\ Remembers(failures[a], attempts[a], now - CorrelWindow)
      BY DEF TakeoverInv
    <2>1. failures[a] = <<>> /\ attempts[a] = <<>>
      BY DEF Init, TakeoverInit
    <2>2. <<>> \in Seq(Failures) /\ 1..Len(<<>>) = {}
      BY EmptySeq
    <2>3. \A addr, c : Tally(<<>>, addr, c) \in Nat
      BY <2>2, FoundIsFinite
    <2> QED BY <2>1, <2>2, <2>3 DEF Chronological, Remembers
  <1>2. EngineInv /\ TakeoverInv /\ [Next]_vars => TakeoverInv'
    <2> SUFFICES ASSUME EngineInv, TakeoverInv, [Next]_vars PROVE TakeoverInv'
      OBVIOUS
    <2>0. /\ EngineTypeOK /\ TakeoverTypeOK
          /\ now \in Nat /\ \A t \in 0..MaxTime : t \in Nat
      BY EngineAssumption DEF EngineInv, EngineTypeOK
    <2>1. ASSUME NEW kind \in Kinds, NEW at \in 0..MaxTime, Dispatch(kind, at) PROVE TakeoverInv'
      <3>1. /\ Seen \in EventType /\ Seen.ts = at /\ HandleTakeover(Seen)
            /\ now' \in 0..MaxTime /\ now <= now' /\ at <= now'
        BY <2>0, <2>1, Dispatching
      <3>2. now' \in Nat
        BY <2>0, <3>1
      <3> HIDE DEF Seen
      <3>3. \A a \in Accounts :
              /\ Chronological(failures'[a])
              /\ Remembers(failures'[a], attempts'[a], now' - CorrelWindow)
        BY <2>0, <3>1, <3>2, TakeoverStep
      <3> QED BY <3>3 DEF TakeoverInv, Chronological, Remembers, Tally, Found
    <2>2. CASE \A kind \in Kinds, at \in 0..MaxTime : ~Dispatch(kind, at)
      <3>1. UNCHANGED modules /\ now' \in 0..MaxTime /\ now <= now'
        BY <2>2, NotDispatching
      <3>2. UNCHANGED <<failures, attempts>> /\ now' \in Nat
        BY <2>0, <3>1 DEF modules, takeoverVars
      <3>3. ASSUME NEW a \in Accounts
            PROVE  /\ Chronological(failures'[a])
                   /\ Remembers(failures'[a], attempts'[a], now' - CorrelWindow)
        <4>1. /\ failures[a] \in Seq(Failures) /\ attempts[a] \in Seq(Failures)
              /\ Chronological(failures[a])
              /\ Remembers(failures[a], attempts[a], now - CorrelWindow)
          BY <2>0 DEF TakeoverTypeOK, TakeoverInv
        <4>2. /\ now - CorrelWindow \in Int /\ now' - CorrelWindow \in Int
              /\ now - CorrelWindow <= now' - CorrelWindow
          <5>1. CorrelWindow \in Nat
            BY AccountTakeoverAssumption
          <5>2. now - CorrelWindow \in Int /\ now' - CorrelWindow \in Int
            BY <2>0, <3>2, <5>1
          <5>3. now - CorrelWindow <= now' - CorrelWindow
            BY <2>0, <3>1, <3>2, <5>1, ClockMoves
          <5> QED BY <5>2, <5>3
        <4>3. Remembers(failures[a], attempts[a], now' - CorrelWindow)
          BY <4>1, <4>2, RemembersTrimmed
        <4> QED BY <3>2, <4>1, <4>3
      <3> QED BY <3>3 DEF TakeoverInv, Chronological, Remembers, Tally, Found
    <2> QED BY <2>1, <2>2
  <1> QED BY <1>1, <1>2, EngineInvHolds, PTL DEF Spec

\* The failures a handler counts against an address are failures the address
\* has made inside the window, and all of them when the event is not late.
LEMMA CountIsExact ==
  ASSUME TakeoverTypeOK, TakeoverInv, NEW ev \in EventType, ev.account \in Accounts,
         now \in Nat, now' \in Nat, now <= now', ev.ts <= now', NEW addr \in IPs
  PROVE  /\ FailuresFrom(Recent(ev), addr) \in Nat /\ Hits(attempts[ev.account], ev, addr) \in Nat
         /\ FailuresFrom(Recent(ev), addr) <= Hits(attempts[ev.account], ev, addr)
         /\ ev.ts = now' =>
               FailuresFrom(Recent(ev), addr) = Hits(attempts[ev.account], ev, addr)
  <1> DEFINE t == Recent(ev)
             h == attempts[ev.account]
             c == ev.ts - CorrelWindow
  <1>1. /\ t \in Seq(Failures) /\ Remembers(t, h, now' - CorrelWindow)
        /\ \A i \in 1..Len(t) : t[i].ts >= c
    BY RecentIsExact DEF Recent
  <1>2. h \in Seq(Failures) /\ c \in Int /\ (ev.ts = now' => c >= now' - CorrelWindow)
    BY AccountTakeoverAssumption DEF TakeoverTypeOK, EventType
  <1>3. Hits(h, ev, addr) = Tally(h, addr, c)
    <2>1. {i \in NotBefore(h, c) : h[i].item = addr} = Found(h, addr, c)
      BY DEF NotBefore, Found
    <2> QED BY <2>1 DEF Hits, Tally
  <1> HIDE DEF t, h, c
  <1>4. FailuresFrom(t, addr) = Tally(t, addr, c)
    <2>1. {i \in 1..Len(t) : t[i].item = addr} = Found(t, addr, c)
      BY <1>1 DEF Found
    <2> QED BY <2>1 DEF FailuresFrom, Tally
  <1>5. Tally(t, addr, c) \in Nat /\ Tally(h, addr, c) \in Nat
    BY <1>1, <1>2, FoundIsFinite
  <1>6. /\ Tally(t, addr, c) <= Tally(h, addr, c)
        /\ ev.ts = now' => Tally(t, addr, c) = Tally(h, addr, c)
    BY <1>1, <1>2 DEF Remembers
  <1> QED BY <1>3, <1>4, <1>5, <1>6 DEF t, h

\* An address that has failed often enough makes the account's message an alert.
LEMMA EnoughIsSent ==
  ASSUME NEW ev, IsMessage(ev), NEW S, Recent(ev) \in Seq(S), NEW addr,
         FailuresFrom(Recent(ev), addr) >= MinFailures
  PROVE  Sends(ev) /\ addr \in Attackers(Recent(ev))
  <1> DEFINE t == Recent(ev)
             At(b) == {i \in 1..Len(t) : t[i].item = b}
  <1>1. Len(t) \in Nat /\ MinFailures \in Nat \ {0}
    BY LenProperties, AccountTakeoverAssumption
  <1>2. IsFiniteSet(1..Len(t)) /\ Cardinality(1..Len(t)) = Len(t)
    <2> HIDE DEF t
    <2>1. Len(t) \in Int /\ 1 \in Int
      BY <1>1
    <2>2. IsFiniteSet(1..Len(t))
      BY <2>1, FS_Interval
    <2>3. Cardinality(1..Len(t)) = IF 1 > Len(t) THEN 0 ELSE Len(t) - 1 + 1
      BY <2>1, FS_Interval
    <2> QED BY <1>1, <2>2, <2>3
  <1>3. \A b : /\ At(b) \subseteq 1..Len(t) /\ IsFiniteSet(At(b))
               /\ Cardinality(At(b)) \in Nat /\ Cardinality(At(b)) <= Len(t)
               /\ FailuresFrom(t, b) = Cardinality(At(b))
    <2> TAKE b
    <2>1. At(b) \subseteq 1..Len(t)
      OBVIOUS
    <2>2. IsFiniteSet(At(b)) /\ Cardinality(At(b)) <= Cardinality(1..Len(t))
      BY <1>2, <2>1, FS_Subset
    <2>3. Cardinality(At(b)) \in Nat
      BY <2>2, FS_CardinalityType
    <2> QED BY <1>2, <2>1, <2>2, <2>3 DEF FailuresFrom
  <1>4. addr \in Attackers(t)
    <2>1. Cardinality(At(addr)) # 0
      BY <1>1, <1>3
    <2>2. At(addr) # {}
      BY <2>1, FS_EmptySet
    <2> QED BY <2>2 DEF Attackers
  <1>5. Len(t) >= MinFailures
    <2>1. /\ FailuresFrom(t, addr) \in Nat /\ FailuresFrom(t, addr) <= Len(t)
          /\ FailuresFrom(t, addr) >= MinFailures
      BY <1>3
    <2> HIDE DEF t
    <2> QED BY <1>1, <2>1
  <1>6. \A a \in Dominant(t) : FailuresFrom(t, a) >= MinFailures
    <2> SUFFICES ASSUME NEW a \in Dominant(t) PROVE FailuresFrom(t, a) >= MinFailures
      OBVIOUS
    <2>1. FailuresFrom(t, addr) <= FailuresFrom(t, a)
      BY <1>4 DEF Dominant
    <2>2. FailuresFrom(t, addr) \in Nat /\ FailuresFrom(t, a) \in Nat
      BY <1>3
    <2> HIDE DEF t
    <2> QED BY <1>1, <2>1, <2>2 DEF t
  <1> QED BY <1>4, <1>5, <1>6 DEF Sends, Crowded

\* account_takeover blames an address only for failures of its own inside the
\* window, and when the event is in time it blames an address with at least as
\* many failures as any it could have blamed (the others are forgotten with it,
\* accounttakeover.go:168-186): the sorting insertion keeps what trimOld takes
\* for granted (accounttakeover.go:99).
THEOREM TakeoversAreJust == Spec => TakeoversAreExact
  <1>1. EngineInv /\ TakeoverInv /\ [Next]_vars =>
           [Dispatched /\ (IsLogin(Seen) \/ IsMessage(Seen)) =>
              Exact(attempts[Seen.account], Seen,
                    {a.ip : a \in RaisedBy("account_takeover")})]_vars
    <2> SUFFICES ASSUME EngineInv, TakeoverInv, [Next]_vars, Dispatched,
                        IsLogin(Seen) \/ IsMessage(Seen)
                 PROVE  Exact(attempts[Seen.account], Seen,
                              {a.ip : a \in RaisedBy("account_takeover")})
      OBVIOUS
    <2>0. /\ EngineTypeOK /\ TakeoverTypeOK /\ now \in Nat
          /\ \A t \in 0..MaxTime : t \in Nat
      BY EngineAssumption DEF EngineInv, EngineTypeOK
    <2>1. PICK kind \in Kinds, at \in 0..MaxTime : Dispatch(kind, at)
      BY DispatchedStep
    <2>2. /\ Seen \in EventType /\ Seen.ip \notin Blameless /\ Seen.ts = at
          /\ now' \in 0..MaxTime /\ now <= now' /\ at <= now'
      BY <2>0, <2>1, Dispatching
    <2>3. PICK suspect \in Suspects(Seen) :
             /\ Sends(Seen) => suspect \in IPs \ Blameless
             /\ RaisedBy("account_takeover") = Range(TakeoverAlerts(Seen, suspect))
      BY <2>1, RaisedByModule
    <2> DEFINE raised == RaisedBy("account_takeover")
               blamed == {a.ip : a \in raised}
               h == attempts[Seen.account]
    <2>4. raised = Range(TakeoverAlerts(Seen, suspect))
      BY <2>3
    <2> HIDE DEF Seen, raised
    <2>5. Seen.account \in Accounts /\ now' \in Nat
          /\ (IsLogin(Seen) => Seen.ip \in IPs)
      BY <2>0, <2>2 DEF IsLogin, IsMessage, EventType
    <2>6. /\ Breaks(Seen) => TakeoverAlerts(Seen, suspect) =
                <<Alert("account_takeover", "suspend_account", Seen.ip, Seen.account)>>
          /\ ~Breaks(Seen) /\ Sends(Seen) => TakeoverAlerts(Seen, suspect) =
                <<Alert("account_takeover", "suspend_account", suspect, Seen.account)>>
          /\ ~Breaks(Seen) /\ ~Sends(Seen) => TakeoverAlerts(Seen, suspect) = <<>>
      BY <2>2, <2>3, TakeoverAlertsAre
    <2>7. \A x : Range(<<x>>) = {x}
      BY DEF Range
    <2>8. \A addr : Alert("account_takeover", "suspend_account", addr, Seen.account).ip = addr
      BY DEF Alert
    <2>9. /\ Breaks(Seen) => blamed = {Seen.ip}
          /\ ~Breaks(Seen) /\ Sends(Seen) => blamed = {suspect}
          /\ ~Breaks(Seen) /\ ~Sends(Seen) => blamed = {}
      BY <2>4, <2>6, <2>7, <2>8 DEF Range
    <2>10. ASSUME NEW addr \in IPs
           PROVE  /\ FailuresFrom(Recent(Seen), addr) \in Nat /\ Hits(h, Seen, addr) \in Nat
                  /\ FailuresFrom(Recent(Seen), addr) <= Hits(h, Seen, addr)
                  /\ Seen.ts = now' => FailuresFrom(Recent(Seen), addr) = Hits(h, Seen, addr)
      BY <2>0, <2>2, <2>5, CountIsExact
    <2>11. MinFailures \in Nat
      BY AccountTakeoverAssumption
    <2> HIDE DEF blamed, h
    <2>12. ASSUME NEW addr \in blamed PROVE Guilty(h, Seen, addr)
      <3>1. CASE Breaks(Seen)
        <4>1. addr = Seen.ip /\ IsLogin(Seen) /\ FailuresFrom(Recent(Seen), addr) >= MinFailures
          BY <2>9, <3>1 DEF Breaks
        <4>2. Hits(h, Seen, addr) >= MinFailures
          BY <2>5, <2>10, <2>11, <4>1
        <4> QED BY <4>1, <4>2 DEF Guilty
      <3>2. CASE ~Breaks(Seen) /\ Sends(Seen)
        <4>1. addr = suspect /\ suspect \in Dominant(Recent(Seen)) /\ suspect \in IPs
              /\ IsMessage(Seen)
          BY <2>3, <2>9, <3>2 DEF Suspects, Sends, Crowded
        <4>2. FailuresFrom(Recent(Seen), addr) >= MinFailures
          BY <3>2, <4>1 DEF Sends
        <4>3. Hits(h, Seen, addr) >= MinFailures
          BY <2>10, <2>11, <4>1, <4>2
        <4> QED BY <4>1, <4>3 DEF Guilty
      <3> QED BY <2>9, <3>1, <3>2
    <2>13. ASSUME Seen.ts = now', NEW addr \in IPs, Guilty(h, Seen, addr)
           PROVE  \E worst \in blamed : Hits(h, Seen, addr) <= Hits(h, Seen, worst)
      <3>1. FailuresFrom(Recent(Seen), addr) >= MinFailures
        BY <2>10, <2>13 DEF Guilty
      <3>2. CASE IsMessage(Seen)
        <4>1. Recent(Seen) \in Seq(Failures)
          BY <2>0, <2>5, PurgedInSeq DEF TakeoverTypeOK
        <4>2. Sends(Seen) /\ addr \in Attackers(Recent(Seen))
          BY <3>1, <3>2, <4>1, EnoughIsSent
        <4>3. ~Breaks(Seen)
          BY <3>2 DEF Breaks, IsLogin, IsMessage
        <4>4. suspect \in blamed /\ suspect \in IPs
          BY <2>3, <2>9, <4>2, <4>3
        <4>5. FailuresFrom(Recent(Seen), addr) <= FailuresFrom(Recent(Seen), suspect)
          BY <2>3, <4>2 DEF Suspects, Dominant
        <4>6. Hits(h, Seen, addr) <= Hits(h, Seen, suspect)
          BY <2>10, <2>13, <4>4, <4>5
        <4> QED BY <4>4, <4>6
      <3>3. CASE IsLogin(Seen) /\ addr = Seen.ip
        <4>1. Breaks(Seen)
          BY <3>1, <3>3 DEF Breaks
        <4>2. addr \in blamed
          BY <2>9, <3>3, <4>1
        <4>3. Hits(h, Seen, addr) <= Hits(h, Seen, addr)
          BY <2>10
        <4> QED BY <4>2, <4>3
      <3> QED BY <2>13, <3>2, <3>3 DEF Guilty
    <2>14. Exact(h, Seen, blamed)
      BY <2>12, <2>13 DEF Exact
    <2> QED BY <2>14 DEF h, blamed, raised
  <1> QED BY <1>1, EngineInvHolds, TakeoverInvHolds, PTL DEF Spec, TakeoversAreExact

=============================================================================
