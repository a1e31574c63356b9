----------------------- MODULE UpstreamKeyPoolProofs -----------------------
(***************************************************************************)
(* Proofs about UpstreamKeyPool for any number of callers and keys, any    *)
(* cap and any exclusions.                                                 *)
(*                                                                         *)
(* PoolInv is the inductive invariant.  The counters by themselves are not *)
(* inductive: that a release never finds its counter at zero needs the     *)
(* owners (SlotAccounting) and that only a caller past the wait has a key  *)
(* (HoldersShape); that _waiting never goes below zero needs the two       *)
(* queues to hold every waiting caller exactly once (Lined).               *)
(***************************************************************************)
EXTENDS UpstreamKeyPool, FiniteSetTheorems, SequenceTheorems, TLAPS

Standing == {"idle", "waiting", "delay", "held", "releasing"}

Having == {"delay", "held", "releasing"}

Waiters == {c \in Callers : st[c] = "waiting"}

\* The two queues q and w hold every member of W, once.
Lined(q, w, W) ==
    /\ q \in Seq(Callers) /\ w \in Seq(Callers)
    /\ \A i, j \in 1 .. Len(q) : q[i] = q[j] => i = j
    /\ \A i, j \in 1 .. Len(w) : w[i] = w[j] => i = j
    /\ \A i \in 1 .. Len(q), j \in 1 .. Len(w) : q[i] # w[j]
    /\ \A i \in 1 .. Len(q) : q[i] \in W
    /\ \A i \in 1 .. Len(w) : w[i] \in W
    /\ \A c \in W : (\E i \in 1 .. Len(q) : q[i] = c) \/ (\E i \in 1 .. Len(w) : w[i] = c)

-----------------------------------------------------------------------------
(* Lemmas about the queues                                                 *)

LEMMA RemoveAtProperties ==
    ASSUME NEW S, NEW s \in Seq(S), NEW i \in 1 .. Len(s)
    PROVE  /\ RemoveAt(s, i) \in Seq(S)
           /\ Len(RemoveAt(s, i)) = Len(s) - 1
           /\ \A j \in 1 .. Len(s) - 1 :
                 RemoveAt(s, i)[j] = IF j < i THEN s[j] ELSE s[j + 1]
<1> DEFINE a == SubSeq(s, 1, i - 1)
           b == SubSeq(s, i + 1, Len(s))
<1>1. /\ Len(s) \in Nat /\ i \in Int /\ i - 1 \in Int /\ i + 1 \in Int
      /\ \A j \in 1 .. Len(s) : s[j] \in S
  BY LenProperties, ElementOfSeq
<1>2. /\ a \in Seq(S)
      /\ Len(a) = i - 1
      /\ \A j \in 1 .. i - 1 : a[j] = s[j]
  <2>1. \A j \in 1 .. i - 1 : s[j] \in S
    BY <1>1
  <2>2. /\ a \in Seq(S)
        /\ Len(a) = IF 1 <= i - 1 THEN (i - 1) - 1 + 1 ELSE 0
        /\ \A j \in 1 .. (i - 1) - 1 + 1 : a[j] = s[1 + j - 1]
    BY <1>1, <2>1, SubSeqProperties
  <2>3. \A j \in 1 .. i - 1 : j \in 1 .. (i - 1) - 1 + 1 /\ 1 + j - 1 = j
    BY <1>1
  <2>4. QED
    BY <1>1, <2>2, <2>3
<1>3. /\ b \in Seq(S)
      /\ Len(b) = Len(s) - i
      /\ \A j \in 1 .. Len(s) - i : b[j] = s[i + j]
  <2>1. \A j \in i + 1 .. Len(s) : s[j] \in S
    BY <1>1
  <2>2. /\ b \in Seq(S)
        /\ Len(b) = IF i + 1 <= Len(s) THEN Len(s) - (i + 1) + 1 ELSE 0
        /\ \A j \in 1 .. Len(s) - (i + 1) + 1 : b[j] = s[(i + 1) + j - 1]
    BY <1>1, <2>1, SubSeqProperties
  <2>3. \A j \in 1 .. Len(s) - i :
            j \in 1 .. Len(s) - (i + 1) + 1 /\ (i + 1) + j - 1 = i + j
    BY <1>1
  <2>4. QED
    BY <1>1, <2>2, <2>3
<1>4. /\ a \o b \in Seq(S)
      /\ Len(a \o b) = Len(a) + Len(b)
      /\ \A j \in 1 .. Len(a) + Len(b) :
            (a \o b)[j] = IF j <= Len(a) THEN a[j] ELSE b[j - Len(a)]
  BY <1>2, <1>3, ConcatProperties
<1>5. ASSUME NEW j \in 1 .. Len(s) - 1
      PROVE  (a \o b)[j] = IF j < i THEN s[j] ELSE s[j + 1]
  <2> HIDE DEF a, b
  <2>1. CASE j < i
    <3>1. j \in 1 .. Len(a) + Len(b) /\ j <= Len(a) /\ j \in 1 .. i - 1
      BY <1>1, <1>2, <1>3, <2>1
    <3>2. QED
      BY <3>1, <1>2, <1>4, <2>1
  <2>2. CASE ~(j < i)
    <3>1. /\ j \in 1 .. Len(a) + Len(b) /\ ~(j <= Len(a))
          /\ j - Len(a) \in 1 .. Len(s) - i /\ i + (j - Len(a)) = j + 1
      BY <1>1, <1>2, <1>3, <2>2
    <3>2. QED
      BY <3>1, <1>3, <1>4, <2>2
  <2>3. QED
    BY <2>1, <2>2
<1>6. Len(a \o b) = Len(s) - 1
  <2> HIDE DEF a, b
  <2>1. QED
    BY <1>1, <1>2, <1>3, <1>4
<1>7. QED
  BY <1>4, <1>5, <1>6 DEF RemoveAt

LEMMA LinedTail ==
    ASSUME NEW q, NEW w, NEW W, Lined(q, w, W), w # <<>>
    PROVE  /\ Lined(q, Tail(w), W \ {Head(w)})
           /\ Len(Tail(w)) = Len(w) - 1
           /\ Head(w) \in W
<1>1. w \in Seq(Callers) /\ q \in Seq(Callers) /\ Len(w) \in Nat \ {0} /\ Len(q) \in Nat
  BY EmptySeq, LenProperties DEF Lined
<1>2. /\ Tail(w) \in Seq(Callers) /\ Len(Tail(w)) = Len(w) - 1
      /\ \A i \in 1 .. Len(w) - 1 : Tail(w)[i] = w[i + 1]
  BY <1>1, HeadTailProperties
<1>3. Head(w) = w[1]
  BY <1>1
<1>4. \A i \in 1 .. Len(w) - 1 : i + 1 \in 1 .. Len(w) /\ i + 1 # 1
  BY <1>1
<1>5. \A i \in 1 .. Len(w) : i # 1 => i - 1 \in 1 .. Len(w) - 1 /\ (i - 1) + 1 = i
  BY <1>1
<1>6. 1 \in 1 .. Len(w)
  BY <1>1
<1>7. \A i, j \in 1 .. Len(w) - 1 : i + 1 = j + 1 => i = j
  BY <1>1
<1>8. \A i, j \in 1 .. Len(Tail(w)) : Tail(w)[i] = Tail(w)[j] => i = j
  BY <1>2, <1>4, <1>7 DEF Lined
<1>9. \A c \in W \ {Head(w)} : (\E i \in 1 .. Len(q) : q[i] = c)
                                 \/ \E i \in 1 .. Len(Tail(w)) : Tail(w)[i] = c
  <2> SUFFICES ASSUME NEW c \in W \ {w[1]}, ~ \E i \in 1 .. Len(q) : q[i] = c
               PROVE  \E i \in 1 .. Len(Tail(w)) : Tail(w)[i] = c
    BY <1>3
  <2>1. PICK i \in 1 .. Len(w) : w[i] = c
    BY DEF Lined
  <2>2. i - 1 \in 1 .. Len(w) - 1 /\ Tail(w)[i - 1] = c
    BY <2>1, <1>2, <1>5
  <2>3. QED
    BY <2>2, <1>2
<1>10. /\ \A i \in 1 .. Len(q) : q[i] \in W \ {Head(w)}
       /\ \A i \in 1 .. Len(Tail(w)) : Tail(w)[i] \in W \ {Head(w)}
       /\ \A i \in 1 .. Len(q), j \in 1 .. Len(Tail(w)) : q[i] # Tail(w)[j]
  BY <1>2, <1>3, <1>4, <1>6 DEF Lined
<1>11. QED
  BY <1>1, <1>2, <1>3, <1>6, <1>8, <1>9, <1>10 DEF Lined

LEMMA LinedRemove ==
    ASSUME NEW q, NEW w, NEW W, Lined(q, w, W), NEW k \in 1 .. Len(q)
    PROVE  /\ Lined(RemoveAt(q, k), w, W \ {q[k]})
           /\ Len(RemoveAt(q, k)) = Len(q) - 1
           /\ q[k] \in W
<1> DEFINE r == RemoveAt(q, k)
<1>1. w \in Seq(Callers) /\ q \in Seq(Callers) /\ Len(w) \in Nat /\ Len(q) \in Nat
  BY LenProperties DEF Lined
<1>2. /\ r \in Seq(Callers) /\ Len(r) = Len(q) - 1
      /\ \A i \in 1 .. Len(q) - 1 : r[i] = IF i < k THEN q[i] ELSE q[i + 1]
  BY <1>1, RemoveAtProperties
<1> HIDE DEF r
<1>3. ASSUME NEW i \in 1 .. Len(q) - 1
      PROVE  \E j \in 1 .. Len(q) : j # k /\ r[i] = q[j] /\ j = IF i < k THEN i ELSE i + 1
  <2>1. CASE i < k
    <3>1. i \in 1 .. Len(q) /\ i # k
      BY <1>1, <2>1
    <3>2. QED
      BY <1>2, <2>1, <3>1
  <2>2. CASE ~(i < k)
    <3>1. i + 1 \in 1 .. Len(q) /\ i + 1 # k
      BY <1>1, <2>2
    <3>2. QED
      BY <1>2, <2>2, <3>1
  <2>3. QED
    BY <2>1, <2>2
<1>4. ASSUME NEW j \in 1 .. Len(q), j # k
      PROVE  \E i \in 1 .. Len(q) - 1 : r[i] = q[j]
  <2>1. CASE j < k
    <3>1. j \in 1 .. Len(q) - 1
      BY <1>1, <2>1
    <3>2. QED
      BY <1>2, <2>1, <3>1
  <2>2. CASE ~(j < k)
    <3>1. j - 1 \in 1 .. Len(q) - 1 /\ ~(j - 1 < k) /\ (j - 1) + 1 = j
      BY <1>1, <1>4, <2>2
    <3>2. QED
      BY <1>2, <3>1
  <2>3. QED
    BY <2>1, <2>2
<1>5. \A i, j \in 1 .. Len(r) : r[i] = r[j] => i = j
  <2> SUFFICES ASSUME NEW i \in 1 .. Len(q) - 1, NEW j \in 1 .. Len(q) - 1, r[i] = r[j]
               PROVE  i = j
    BY <1>2
  <2>1. PICK m \in 1 .. Len(q) : r[i] = q[m] /\ m = IF i < k THEN i ELSE i + 1
    BY <1>3
  <2>2. PICK n \in 1 .. Len(q) : r[j] = q[n] /\ n = IF j < k THEN j ELSE j + 1
    BY <1>3
  <2>3. m = n
    BY <2>1, <2>2 DEF Lined
  <2>4. QED
    BY <2>1, <2>2, <2>3, <1>1
<1>6. \A c \in W \ {q[k]} : (\E i \in 1 .. Len(r) : r[i] = c)
                               \/ \E i \in 1 .. Len(w) : w[i] = c
  <2> SUFFICES ASSUME NEW c \in W \ {q[k]}, ~ \E i \in 1 .. Len(w) : w[i] = c
               PROVE  \E i \in 1 .. Len(r) : r[i] = c
    OBVIOUS
  <2>1. PICK j \in 1 .. Len(q) : q[j] = c
    BY DEF Lined
  <2>2. QED
    BY <2>1, <1>2, <1>4
<1>7. /\ \A i \in 1 .. Len(r) : r[i] \in W \ {q[k]}
      /\ \A i \in 1 .. Len(r), j \in 1 .. Len(w) : r[i] # w[j]
  BY <1>2, <1>3 DEF Lined
<1>8. \A i \in 1 .. Len(w) : w[i] \in W \ {q[k]}
  BY DEF Lined
<1>9. q[k] \in W
  BY DEF Lined
<1>10. Lined(r, w, W \ {q[k]})
  BY <1>1, <1>2, <1>5, <1>6, <1>7, <1>8 DEF Lined
<1>11. QED
  BY <1>2, <1>9, <1>10 DEF r

LEMMA LinedAppend ==
    ASSUME NEW q, NEW w, NEW W, Lined(q, w, W), NEW c \in Callers, c \notin W
    PROVE  Lined(Append(q, c), w, W \cup {c}) /\ Len(Append(q, c)) = Len(q) + 1
<1> DEFINE r == Append(q, c)
<1>1. w \in Seq(Callers) /\ q \in Seq(Callers) /\ Len(w) \in Nat /\ Len(q) \in Nat
  BY LenProperties DEF Lined
<1>2. /\ r \in Seq(Callers) /\ Len(r) = Len(q) + 1
      /\ \A i \in 1 .. Len(q) : r[i] = q[i]
      /\ r[Len(q) + 1] = c
  BY <1>1, AppendProperties
<1>3. \A i \in 1 .. Len(q) + 1 : i \in 1 .. Len(q) \/ i = Len(q) + 1
  BY <1>1
<1>4. \A i \in 1 .. Len(q) : i \in 1 .. Len(q) + 1
  BY <1>1
<1>5. Len(q) + 1 \in 1 .. Len(q) + 1
  BY <1>1
<1> HIDE DEF r
<1>6. \A i, j \in 1 .. Len(r) : r[i] = r[j] => i = j
  BY <1>2, <1>3 DEF Lined
<1>7. /\ \A i \in 1 .. Len(r), j \in 1 .. Len(w) : r[i] # w[j]
      /\ \A i \in 1 .. Len(r) : r[i] \in W \cup {c}
  BY <1>2, <1>3 DEF Lined
<1>8. \A d \in W \cup {c} : (\E i \in 1 .. Len(r) : r[i] = d)
                               \/ \E i \in 1 .. Len(w) : w[i] = d
  <2>1. ASSUME NEW d \in W, NEW i \in 1 .. Len(q), q[i] = d
        PROVE  \E k \in 1 .. Len(r) : r[k] = d
    BY <2>1, <1>2, <1>4
  <2>2. \E k \in 1 .. Len(r) : r[k] = c
    BY <1>2, <1>5
  <2>3. QED
    BY <2>1, <2>2 DEF Lined
<1>9. QED
  BY <1>1, <1>2, <1>6, <1>7, <1>8 DEF Lined, r

\* The members of the two queues, for the lemmas that only move callers.
LEMMA LinedSwap ==
    ASSUME NEW q, NEW w, NEW W, Lined(q, w, W)
    PROVE  Lined(w, q, W)
BY DEF Lined

\* notify(1) moves the caller at the head of the queue, if there is one.
LEMMA LinedNotify ==
    ASSUME NEW q, NEW w, NEW W, Lined(q, w, W), NotifyOne(q, w)
    PROVE  Lined(queue', woken', W) /\ Len(queue') + Len(woken') = Len(q) + Len(w)
<1>1. CASE q = <<>>
  BY <1>1 DEF NotifyOne
<1>2. CASE q # <<>>
  <2> DEFINE h == Head(q)
  <2>1. Lined(w, q, W)
    BY LinedSwap
  <2>2. Lined(w, Tail(q), W \ {h}) /\ Len(Tail(q)) = Len(q) - 1 /\ h \in W
    BY <1>2, <2>1, LinedTail
  <2>3. h \in Callers /\ Len(q) \in Nat /\ Len(w) \in Nat
    BY <1>2, HeadTailProperties, LenProperties DEF Lined
  <2>4. /\ Lined(Append(w, h), Tail(q), (W \ {h}) \cup {h})
        /\ Len(Append(w, h)) = Len(w) + 1
    BY <2>2, <2>3, LinedAppend
  <2>5. (W \ {h}) \cup {h} = W
    BY <2>2
  <2>6. queue' = Tail(q) /\ woken' = Append(w, h)
    BY <1>2 DEF NotifyOne
  <2>7. Lined(woken', queue', W)
    BY <2>4, <2>5, <2>6
  <2>8. Lined(queue', woken', W)
    BY <2>7, LinedSwap
  <2>9. Len(queue') = Len(q) - 1 /\ Len(woken') = Len(w) + 1
    BY <2>2, <2>4, <2>6
  <2>10. QED
    BY <2>3, <2>8, <2>9
<1>3. QED
  BY <1>1, <1>2

\* notify_all moves the whole queue behind those already notified.
LEMMA LinedNotifyAll ==
    ASSUME NEW q, NEW w, NEW W, Lined(q, w, W)
    PROVE  Lined(<<>>, w \o q, W) /\ Len(w \o q) = Len(w) + Len(q)
<1> DEFINE r == w \o q
<1>1. w \in Seq(Callers) /\ q \in Seq(Callers) /\ Len(w) \in Nat /\ Len(q) \in Nat
  BY LenProperties DEF Lined
<1>2. /\ r \in Seq(Callers) /\ Len(r) = Len(w) + Len(q)
      /\ \A i \in 1 .. Len(w) + Len(q) :
            r[i] = IF i <= Len(w) THEN w[i] ELSE q[i - Len(w)]
  BY <1>1, ConcatProperties
<1> HIDE DEF r
<1>3. \A i \in 1 .. Len(w) : i \in 1 .. Len(w) + Len(q) /\ r[i] = w[i]
  BY <1>1, <1>2
<1>4. \A i \in 1 .. Len(q) : Len(w) + i \in 1 .. Len(w) + Len(q) /\ r[Len(w) + i] = q[i]
  <2> SUFFICES ASSUME NEW i \in 1 .. Len(q)
               PROVE  Len(w) + i \in 1 .. Len(w) + Len(q) /\ r[Len(w) + i] = q[i]
    OBVIOUS
  <2>1. /\ Len(w) + i \in 1 .. Len(w) + Len(q) /\ ~(Len(w) + i <= Len(w))
        /\ (Len(w) + i) - Len(w) = i
    BY <1>1
  <2>2. QED
    BY <2>1, <1>2
<1>5. ASSUME NEW i \in 1 .. Len(r)
      PROVE  \/ i \in 1 .. Len(w) /\ r[i] = w[i]
             \/ \E k \in 1 .. Len(q) : i = Len(w) + k /\ r[i] = q[k]
  <2>1. CASE i <= Len(w)
    BY <1>1, <1>2, <2>1
  <2>2. CASE ~(i <= Len(w))
    <3>1. i - Len(w) \in 1 .. Len(q) /\ i = Len(w) + (i - Len(w))
      BY <1>1, <1>2, <2>2
    <3>2. QED
      BY <3>1, <1>2, <2>2
  <2>3. QED
    BY <2>1, <2>2
<1>6. \A i, j \in 1 .. Len(r) : r[i] = r[j] => i = j
  BY <1>5 DEF Lined
<1>7. \A i \in 1 .. Len(r) : r[i] \in W
  BY <1>5 DEF Lined
<1>8. ASSUME NEW c \in W
      PROVE  \E i \in 1 .. Len(r) : r[i] = c
  <2>1. CASE \E i \in 1 .. Len(w) : w[i] = c
    BY <2>1, <1>2, <1>3
  <2>2. CASE \E i \in 1 .. Len(q) : q[i] = c
    <3>1. PICK i \in 1 .. Len(q) : q[i] = c
      BY <2>2
    <3>2. Len(w) + i \in 1 .. Len(r) /\ r[Len(w) + i] = c
      BY <3>1, <1>2, <1>4
    <3>3. QED
      BY <3>2
  <2>3. QED
    BY <2>1, <2>2 DEF Lined
<1>9. <<>> \in Seq(Callers) /\ Len(<<>>) = 0
  BY EmptySeq
<1>10. 1 .. 0 = {}
  OBVIOUS
<1>11. Lined(<<>>, r, W)
  BY <1>2, <1>6, <1>7, <1>8, <1>9, <1>10 DEF Lined
<1>12. QED
  BY <1>2, <1>11 DEF r

-----------------------------------------------------------------------------
(* The inductive invariant                                                 *)

HoldersShape == \A c \in Callers : key[c] \in Keys <=> st[c] \in Having

CapInv == Cap > 0 => \A k \in Keys : inFlight[k] <= Cap

SlotTypes ==
    /\ inFlight \in [Keys -> Nat]
    /\ lastAcquired \in Keys \cup {NoKey}
    /\ st \in [Callers -> Standing]
    /\ key \in [Callers -> Keys \cup {NoKey}]

SlotInv == SlotTypes /\ HoldersShape /\ SlotAccounting /\ CapInv

ArgTypes ==
    /\ quarantined \subseteq Keys
    /\ excl \in [Callers -> SUBSET Keys]
    /\ expired \in [Callers -> BOOLEAN]

LineInv == Lined(queue, woken, Waiters) /\ waiting = Len(queue) + Len(woken)

PoolInv == SlotInv /\ ArgTypes /\ LineInv

LEMMA NoKeyIsNoKey == NoKey \notin Keys
BY DEF NoKey, Keys

LEMMA HoldersFinite == \A k : IsFiniteSet(Holders(k)) /\ Cardinality(Holders(k)) \in Nat
BY PoolAssumption, FS_Subset, FS_CardinalityType DEF Holders

\* A caller without a key takes a slot of a free key.
LEMMA TakeKeepsSlots ==
    ASSUME SlotInv, NEW c \in Callers, st[c] \notin Having, NEW S, NEW k \in Picks(S),
           Take(c, k)
    PROVE  SlotInv'
<1> USE DEF Having
<1>1. k \in Keys /\ (Cap = 0 \/ inFlight[k] < Cap)
  BY DEF Picks, LeastLoaded, Free, Selectable
<1>2. SlotTypes'
  BY <1>1 DEF SlotInv, SlotTypes, Take, Standing
<1>3. HoldersShape'
  BY <1>1 DEF SlotInv, SlotTypes, HoldersShape, Take
<1>4. key[c] = NoKey
  BY DEF SlotInv, SlotTypes, HoldersShape
<1>5. SlotAccounting'
  <2> SUFFICES ASSUME NEW j \in Keys
               PROVE  inFlight'[j] = Cardinality(Holders(j)')
    BY DEF SlotAccounting
  <2>1. CASE j = k
    <3>1. Holders(j)' = Holders(j) \cup {c} /\ c \notin Holders(j)
      BY <1>1, <1>4, <2>1, NoKeyIsNoKey DEF Holders, Take, SlotInv, SlotTypes
    <3>2. Cardinality(Holders(j) \cup {c}) = Cardinality(Holders(j)) + 1
      BY <3>1, HoldersFinite, FS_AddElement
    <3>3. inFlight'[j] = inFlight[j] + 1
      BY <2>1, <1>1 DEF Take, SlotInv, SlotTypes
    <3>4. QED
      BY <3>1, <3>2, <3>3 DEF SlotInv, SlotAccounting
  <2>2. CASE j # k
    <3>1. Holders(j)' = Holders(j)
      BY <1>4, <2>2, NoKeyIsNoKey DEF Holders, Take, SlotInv, SlotTypes
    <3>2. inFlight'[j] = inFlight[j]
      BY <2>2 DEF Take, SlotInv, SlotTypes
    <3>3. QED
      BY <3>1, <3>2 DEF SlotInv, SlotAccounting
  <2>3. QED
    BY <2>1, <2>2
<1>6. CapInv'
  BY <1>1, PoolAssumption DEF SlotInv, SlotTypes, CapInv, Take
<1>7. QED
  BY <1>2, <1>3, <1>5, <1>6 DEF SlotInv

\* A step that only moves callers, none of them to or from a slot.
LEMMA MoveKeepsSlots ==
    ASSUME SlotInv, UNCHANGED <<inFlight, lastAcquired, key>>,
           st' \in [Callers -> Standing],
           \A c \in Callers : st'[c] \in Having <=> st[c] \in Having
    PROVE  SlotInv'
BY DEF SlotInv, SlotTypes, HoldersShape, SlotAccounting, CapInv, Holders

\* The shielded release gives back exactly the slot of its caller.
LEMMA ReleaseKeepsSlots ==
    ASSUME SlotInv, NEW c \in Callers, ReleaseLocked(c)
    PROVE  SlotInv'
<1> USE DEF Having
<1> DEFINE k == key[c]
<1>1. k \in Keys /\ st[c] = "releasing"
  BY DEF SlotInv, HoldersShape, ReleaseLocked
<1>2. Cardinality(Holders(k)) \in Nat /\ IsFiniteSet(Holders(k)) /\ c \in Holders(k)
  BY HoldersFinite DEF Holders
<1>3. Cardinality(Holders(k) \ {c}) = Cardinality(Holders(k)) - 1
  BY <1>2, FS_RemoveElement
<1>4. Cardinality(Holders(k) \ {c}) \in Nat
  BY <1>2, FS_RemoveElement, FS_CardinalityType
<1>5. inFlight[k] > 0 /\ inFlight[k] = Cardinality(Holders(k))
  BY <1>1, <1>2, <1>3, <1>4 DEF SlotInv, SlotAccounting
<1>6. inFlight' = [inFlight EXCEPT ![k] = inFlight[k] - 1]
  BY <1>1, <1>5 DEF ReleaseLocked, SlotInv, SlotTypes
<1>7. SlotTypes'
  BY <1>1, <1>5, <1>6 DEF ReleaseLocked, SlotInv, SlotTypes, Standing
<1>8. HoldersShape'
  BY NoKeyIsNoKey DEF ReleaseLocked, SlotInv, SlotTypes, HoldersShape
<1>9. SlotAccounting'
  <2> SUFFICES ASSUME NEW j \in Keys
               PROVE  inFlight'[j] = Cardinality(Holders(j)')
    BY DEF SlotAccounting
  <2>1. CASE j = k
    <3>1. Holders(j)' = Holders(j) \ {c}
      BY <1>1, <2>1, NoKeyIsNoKey DEF Holders, ReleaseLocked, SlotInv, SlotTypes
    <3>2. QED
      BY <1>1, <1>3, <1>5, <1>6, <2>1, <3>1 DEF SlotInv, SlotTypes
  <2>2. CASE j # k
    <3>1. Holders(j)' = Holders(j)
      BY <2>2, NoKeyIsNoKey DEF Holders, ReleaseLocked, SlotInv, SlotTypes
    <3>2. inFlight'[j] = inFlight[j]
      BY <1>6, <2>2 DEF SlotInv, SlotTypes
    <3>3. QED
      BY <3>1, <3>2 DEF SlotInv, SlotAccounting
  <2>3. QED
    BY <2>1, <2>2
<1>10. CapInv'
  BY <1>1, <1>5, <1>6, PoolAssumption DEF SlotInv, SlotTypes, CapInv
<1>11. QED
  BY <1>7, <1>8, <1>9, <1>10 DEF SlotInv

-----------------------------------------------------------------------------
(* One lemma per kind of step for the queues                               *)

LEMMA QueueMember ==
    ASSUME LineInv, NEW c
    PROVE  /\ \A i \in 1 .. Len(queue) : queue[i] = c => c \in Callers /\ st[c] = "waiting"
           /\ Runs(c) => c \in Callers /\ st[c] = "waiting"
<1>1. \A i \in 1 .. Len(queue) : queue[i] \in Waiters
  BY DEF LineInv, Lined
<1>2. woken # <<>> => Head(woken) \in Waiters
  BY LinedTail DEF LineInv
<1>3. QED
  BY <1>1, <1>2 DEF Waiters, Runs

LEMMA QueueLengths == ASSUME LineInv PROVE Len(queue) \in Nat /\ Len(woken) \in Nat
BY LenProperties DEF LineInv, Lined

\* The caller at the head of woken leaves both queues.
LEMMA LeavesLoopLine ==
    ASSUME LineInv, NEW c, Runs(c), LeavesLoop(c), Waiters' = Waiters \ {c}
    PROVE  LineInv'
<1>1. Lined(queue, Tail(woken), Waiters \ {c}) /\ Len(Tail(woken)) = Len(woken) - 1
  BY LinedTail DEF LineInv, Runs
<1>2. Lined(queue', woken', Waiters')
  BY <1>1 DEF LeavesLoop
<1>3. waiting' = Len(queue') + Len(woken')
  <2>1. Len(queue') = Len(queue) /\ Len(woken') = Len(woken) - 1 /\ waiting' = waiting - 1
    BY <1>1 DEF LeavesLoop, LeavesWaiting
  <2>2. Len(queue) \in Nat /\ Len(woken) \in Nat /\ waiting = Len(queue) + Len(woken)
    BY QueueLengths DEF LineInv
  <2>3. QED
    BY <2>1, <2>2
<1>4. QED
  BY <1>2, <1>3 DEF LineInv

LEMMA LeaveWaitLine ==
    ASSUME LineInv, NEW c, LeaveWait(c), Waiters' = Waiters \ {c}
    PROVE  LineInv'
<1>1. CASE Runs(c) /\ NotifyOne(queue, Tail(woken))
  <2>1. Lined(queue, Tail(woken), Waiters \ {c}) /\ Len(Tail(woken)) = Len(woken) - 1
    BY <1>1, LinedTail DEF LineInv, Runs
  <2>2. /\ Lined(queue', woken', Waiters \ {c})
        /\ Len(queue') + Len(woken') = Len(queue) + Len(Tail(woken))
    BY <1>1, <2>1, LinedNotify
  <2>3. Lined(queue', woken', Waiters')
    BY <2>2
  <2>4. waiting' = Len(queue') + Len(woken')
    BY <2>1, <2>2, QueueLengths DEF LineInv, LeaveWait, LeavesWaiting
  <2>5. QED
    BY <2>3, <2>4 DEF LineInv
<1>2. ASSUME NEW i \in 1 .. Len(queue), queue[i] = c, NotifyOne(RemoveAt(queue, i), woken)
      PROVE  LineInv'
  <2>1. /\ Lined(RemoveAt(queue, i), woken, Waiters \ {c})
        /\ Len(RemoveAt(queue, i)) = Len(queue) - 1
    BY <1>2, LinedRemove DEF LineInv
  <2>2. /\ Lined(queue', woken', Waiters \ {c})
        /\ Len(queue') + Len(woken') = Len(RemoveAt(queue, i)) + Len(woken)
    BY <1>2, <2>1, LinedNotify
  <2>3. Lined(queue', woken', Waiters')
    BY <2>2
  <2>4. waiting' = Len(queue') + Len(woken')
    BY <2>1, <2>2, QueueLengths DEF LineInv, LeaveWait, LeavesWaiting
  <2>5. QED
    BY <2>3, <2>4 DEF LineInv
<1>3. QED
  BY <1>1, <1>2 DEF LeaveWait

-----------------------------------------------------------------------------
(* Every step keeps the invariant                                          *)

LEMMA InitPoolInv == PoolInit => PoolInv
<1> SUFFICES ASSUME PoolInit PROVE PoolInv
  OBVIOUS
<1>1. \A k \in Keys : Holders(k) = {}
  BY NoKeyIsNoKey DEF PoolInit, Holders
<1>2. SlotInv
  <2>1. SlotTypes
    BY DEF PoolInit, SlotTypes, Standing
  <2>2. HoldersShape
    BY NoKeyIsNoKey DEF PoolInit, HoldersShape, Having
  <2>3. Cardinality({}) = 0
    BY FS_EmptySet
  <2>4. \A k \in Keys : inFlight[k] = 0
    BY DEF PoolInit
  <2>5. SlotAccounting
    BY <1>1, <2>3, <2>4 DEF SlotAccounting
  <2>6. CapInv
    BY <2>4, PoolAssumption DEF CapInv
  <2>7. QED
    BY <2>1, <2>2, <2>5, <2>6 DEF SlotInv
<1>3. ArgTypes
  BY DEF PoolInit, ArgTypes
<1>4. Waiters = {}
  BY DEF PoolInit, Waiters
<1>5. <<>> \in Seq(Callers) /\ Len(<<>>) = 0 /\ 1 .. 0 = {}
  BY EmptySeq
<1>6. LineInv
  BY <1>4, <1>5 DEF PoolInit, LineInv, Lined
<1>7. QED
  BY <1>2, <1>3, <1>6 DEF PoolInv

\* A step that leaves the queues and the set of waiting callers alone.
LEMMA SameLine ==
    ASSUME LineInv, UNCHANGED <<waiting, queue, woken>>, Waiters' = Waiters
    PROVE  LineInv'
BY DEF LineInv, Lined

LEMMA AcquireTakesInv ==
    ASSUME PoolInv, NEW c \in Callers, NEW S, AcquireTakes(c, S)
    PROVE  PoolInv'
<1>1. PICK k \in Picks(S) : Take(c, k)
  BY DEF AcquireTakes
<1>2. SlotInv'
  BY <1>1, TakeKeepsSlots DEF PoolInv, AcquireTakes, Having
<1>3. ArgTypes'
  BY DEF PoolInv, ArgTypes, AcquireTakes
<1>4. Waiters' = Waiters
  BY <1>1 DEF Waiters, Take, AcquireTakes, PoolInv, SlotInv, SlotTypes
<1>5. LineInv'
  BY <1>4, SameLine DEF PoolInv, AcquireTakes
<1>6. QED
  BY <1>2, <1>3, <1>5 DEF PoolInv

LEMMA AcquireWaitsInv ==
    ASSUME PoolInv, NEW c \in Callers, NEW S \in SUBSET Keys, AcquireWaits(c, S)
    PROVE  PoolInv'
<1> USE DEF AcquireWaits
<1>1. SlotInv'
  <2>1. st' \in [Callers -> Standing]
    BY DEF PoolInv, SlotInv, SlotTypes, Standing
  <2>2. \A d \in Callers : st'[d] \in Having <=> st[d] \in Having
    BY DEF PoolInv, SlotInv, SlotTypes, Having
  <2>3. QED
    BY <2>1, <2>2, MoveKeepsSlots DEF PoolInv
<1>2. ArgTypes'
  BY DEF PoolInv, ArgTypes
<1>3. Waiters' = Waiters \cup {c} /\ c \notin Waiters
  BY DEF Waiters, PoolInv, SlotInv, SlotTypes
<1>4. Lined(Append(queue, c), woken, Waiters \cup {c}) /\ Len(Append(queue, c)) = Len(queue) + 1
  BY <1>3, LinedAppend DEF PoolInv, LineInv
<1>5. Lined(queue', woken', Waiters')
  BY <1>3, <1>4
<1>6. waiting' = Len(queue') + Len(woken')
  BY <1>4, QueueLengths DEF PoolInv, LineInv
<1>7. QED
  BY <1>1, <1>2, <1>5, <1>6 DEF PoolInv, LineInv

LEMMA ResumeTakesInv ==
    ASSUME PoolInv, NEW c \in Callers, ResumeTakes(c)
    PROVE  PoolInv'
<1>1. st[c] = "waiting"
  BY QueueMember DEF PoolInv, ResumeTakes
<1>2. PICK k \in Picks(excl[c]) : Take(c, k)
  BY DEF ResumeTakes
<1>3. SlotInv'
  BY <1>1, <1>2, TakeKeepsSlots DEF PoolInv, Having
<1>4. ArgTypes'
  BY DEF PoolInv, ArgTypes, ResumeTakes, LeavesLoop, LeavesWaiting
<1>5. Waiters' = Waiters \ {c}
  BY <1>2 DEF Waiters, Take, PoolInv, SlotInv, SlotTypes
<1>6. LineInv'
  BY <1>5, LeavesLoopLine DEF PoolInv, ResumeTakes
<1>7. QED
  BY <1>3, <1>4, <1>6 DEF PoolInv

LEMMA ResumeFailsInv ==
    ASSUME PoolInv, NEW c \in Callers, Runs(c), ResumeFails(c)
    PROVE  PoolInv'
<1> USE DEF ResumeFails
<1>1. st[c] = "waiting"
  BY QueueMember DEF PoolInv
<1>2. SlotInv'
  <2>1. st' \in [Callers -> Standing]
    BY DEF PoolInv, SlotInv, SlotTypes, Standing
  <2>2. \A d \in Callers : st'[d] \in Having <=> st[d] \in Having
    BY <1>1 DEF PoolInv, SlotInv, SlotTypes, Having
  <2>3. QED
    BY <2>1, <2>2, MoveKeepsSlots DEF PoolInv
<1>3. ArgTypes'
  BY DEF PoolInv, ArgTypes, LeavesLoop, LeavesWaiting
<1>4. Waiters' = Waiters \ {c}
  BY DEF Waiters, PoolInv, SlotInv, SlotTypes
<1>5. LineInv'
  BY <1>4, LeavesLoopLine DEF PoolInv
<1>6. QED
  BY <1>2, <1>3, <1>5 DEF PoolInv

LEMMA ResumeWaitsInv ==
    ASSUME PoolInv, NEW c \in Callers, ResumeWaits(c)
    PROVE  PoolInv'
<1> USE DEF ResumeWaits
<1>1. SlotInv' /\ ArgTypes'
  BY DEF PoolInv, SlotInv, SlotTypes, HoldersShape, SlotAccounting, CapInv, Holders, ArgTypes
<1>2. /\ Lined(queue, Tail(woken), Waiters \ {c}) /\ Len(Tail(woken)) = Len(woken) - 1
      /\ c \in Waiters
  BY LinedTail DEF PoolInv, LineInv, Runs
<1>3. /\ Lined(Append(queue, c), Tail(woken), (Waiters \ {c}) \cup {c})
      /\ Len(Append(queue, c)) = Len(queue) + 1
  BY <1>2, LinedAppend
<1>4. (Waiters \ {c}) \cup {c} = Waiters /\ Waiters' = Waiters
  BY <1>2 DEF Waiters
<1>5. Lined(queue', woken', Waiters')
  BY <1>3, <1>4
<1>6. waiting' = Len(queue') + Len(woken')
  <2>1. Len(queue') = Len(queue) + 1 /\ Len(woken') = Len(woken) - 1
    BY <1>2, <1>3
  <2>2. Len(queue) \in Nat /\ Len(woken) \in Nat /\ waiting = Len(queue) + Len(woken)
    BY QueueLengths DEF PoolInv, LineInv
  <2>3. waiting' = waiting
    OBVIOUS
  <2> HIDE DEF ResumeWaits
  <2>4. QED
    BY <2>1, <2>2, <2>3
<1>7. QED
  BY <1>1, <1>5, <1>6 DEF PoolInv, LineInv

LEMMA LeaveWaitInv ==
    ASSUME PoolInv, NEW c \in Callers, LeaveWait(c)
    PROVE  PoolInv'
<1>1. st[c] = "waiting"
  BY QueueMember DEF PoolInv, LeaveWait
<1>2. SlotInv'
  <2>1. st' \in [Callers -> Standing]
    BY DEF LeaveWait, PoolInv, SlotInv, SlotTypes, Standing
  <2>2. \A d \in Callers : st'[d] \in Having <=> st[d] \in Having
    BY <1>1 DEF LeaveWait, PoolInv, SlotInv, SlotTypes, Having
  <2>3. QED
    BY <2>1, <2>2, MoveKeepsSlots DEF PoolInv, LeaveWait
<1>3. ArgTypes'
  BY DEF PoolInv, ArgTypes, LeaveWait, LeavesWaiting
<1>4. Waiters' = Waiters \ {c}
  BY DEF Waiters, LeaveWait, PoolInv, SlotInv, SlotTypes
<1>5. LineInv'
  BY <1>4, LeaveWaitLine DEF PoolInv
<1>6. QED
  BY <1>2, <1>3, <1>5 DEF PoolInv

\* DelayEnds, Release and CancelDelay move a caller that keeps its slot.
LEMMA HolderMovesInv ==
    ASSUME PoolInv, NEW c \in Callers, NEW to \in Having, st[c] \in Having,
           st' = [st EXCEPT ![c] = to],
           UNCHANGED <<inFlight, quarantined, lastAcquired, waiting, queue, woken, key, excl,
                       expired>>
    PROVE  PoolInv'
<1> USE DEF Having
<1>1. SlotInv'
  <2>1. st' \in [Callers -> Standing]
    BY DEF PoolInv, SlotInv, SlotTypes, Standing
  <2>2. \A d \in Callers : st'[d] \in Having <=> st[d] \in Having
    BY DEF PoolInv, SlotInv, SlotTypes
  <2>3. QED
    BY <2>1, <2>2, MoveKeepsSlots DEF PoolInv
<1>2. Waiters' = Waiters
  BY DEF Waiters, PoolInv, SlotInv, SlotTypes
<1>3. LineInv'
  BY <1>2, SameLine DEF PoolInv
<1>4. QED
  BY <1>1, <1>3 DEF PoolInv, ArgTypes

LEMMA ReleaseLockedInv ==
    ASSUME PoolInv, NEW c \in Callers, ReleaseLocked(c)
    PROVE  PoolInv'
<1>1. SlotInv'
  BY ReleaseKeepsSlots DEF PoolInv
<1>2. ArgTypes'
  BY DEF PoolInv, ArgTypes, ReleaseLocked
<1>3. Waiters' = Waiters
  BY DEF Waiters, ReleaseLocked, PoolInv, SlotInv, SlotTypes
<1>4. Lined(queue', woken', Waiters) /\ Len(queue') + Len(woken') = Len(queue) + Len(woken)
  BY LinedNotify DEF PoolInv, LineInv, ReleaseLocked
<1>5. Lined(queue', woken', Waiters')
  BY <1>3, <1>4
<1>6. waiting' = Len(queue') + Len(woken')
  BY <1>4 DEF PoolInv, LineInv, ReleaseLocked
<1>7. QED
  BY <1>1, <1>2, <1>5, <1>6 DEF PoolInv, LineInv

LEMMA QuarantineReleaseInv ==
    ASSUME PoolInv, NEW k \in Keys, QuarantineRelease(k)
    PROVE  PoolInv'
<1> USE DEF QuarantineRelease
<1>1. SlotInv' /\ ArgTypes'
  BY DEF PoolInv, SlotInv, SlotTypes, HoldersShape, SlotAccounting, CapInv, Holders, ArgTypes
<1>2. Lined(<<>>, woken \o queue, Waiters) /\ Len(woken \o queue) = Len(woken) + Len(queue)
  BY LinedNotifyAll DEF PoolInv, LineInv
<1>3. Waiters' = Waiters
  BY DEF Waiters
<1>4. Lined(queue', woken', Waiters')
  BY <1>2, <1>3
<1>5. waiting' = Len(queue') + Len(woken')
  BY <1>2, QueueLengths, EmptySeq DEF PoolInv, LineInv
<1>6. QED
  BY <1>1, <1>4, <1>5 DEF PoolInv, LineInv

LEMMA NextPoolInv == PoolInv /\ [PoolNext]_poolVars => PoolInv'
<1> SUFFICES ASSUME PoolInv, [PoolNext]_poolVars PROVE PoolInv'
  OBVIOUS
<1>1. ASSUME NEW c \in Callers, LoopStep(c)
      PROVE  PoolInv'
  <2>1. CASE ResumeTakes(c)
    BY <2>1, ResumeTakesInv
  <2>2. CASE ResumeNoKey(c)
    BY <2>2, ResumeFailsInv DEF ResumeNoKey
  <2>3. CASE ResumeBusy(c)
    BY <2>3, ResumeFailsInv DEF ResumeBusy
  <2>4. CASE ResumeWaits(c)
    BY <2>4, ResumeWaitsInv
  <2>5. CASE Timeout(c)
    BY <2>5, LeaveWaitInv DEF Timeout
  <2>6. CASE DelayEnds(c)
    BY <2>6, HolderMovesInv DEF DelayEnds, Having
  <2>7. CASE ReleaseLocked(c)
    BY <2>7, ReleaseLockedInv
  <2>8. QED
    BY <1>1, <2>1, <2>2, <2>3, <2>4, <2>5, <2>6, <2>7 DEF LoopStep
<1>2. ASSUME NEW c \in Callers, CallerStep(c)
      PROVE  PoolInv'
  <2>1. ASSUME NEW S \in Excludes, AcquireTakes(c, S)
        PROVE  PoolInv'
    BY <2>1, AcquireTakesInv
  <2>2. ASSUME NEW S \in Excludes, AcquireNoKey(c, S) \/ AcquireNoSlot(c, S)
        PROVE  PoolInv'
    <3>1. UNCHANGED poolVars
      BY <2>2 DEF AcquireNoKey, AcquireNoSlot
    <3>2. QED
      BY <3>1 DEF poolVars, PoolInv, SlotInv, SlotTypes, HoldersShape, SlotAccounting, CapInv,
                  Holders, ArgTypes, LineInv, Lined, Waiters
  <2>3. ASSUME NEW S \in Excludes, AcquireWaits(c, S)
        PROVE  PoolInv'
    BY <2>3, AcquireWaitsInv, PoolAssumption
  <2>4. CASE DeadlinePasses(c)
    <3>1. SlotInv' /\ ArgTypes'
      BY <2>4 DEF DeadlinePasses, PoolInv, SlotInv, SlotTypes, HoldersShape, SlotAccounting,
                  CapInv, Holders, ArgTypes
    <3>2. LineInv'
      BY <2>4, SameLine DEF DeadlinePasses, PoolInv, Waiters
    <3>3. QED
      BY <3>1, <3>2 DEF PoolInv
  <2>5. CASE CancelWait(c)
    BY <2>5, LeaveWaitInv DEF CancelWait
  <2>6. CASE CancelDelay(c)
    BY <2>6, HolderMovesInv DEF CancelDelay, StartRelease, Having
  <2>7. CASE Quarantine(c)
    <3>1. key[c] \in Keys
      BY <2>7 DEF Quarantine, PoolInv, SlotInv, HoldersShape, Having
    <3>2. SlotInv' /\ ArgTypes'
      BY <2>7, <3>1 DEF Quarantine, PoolInv, SlotInv, SlotTypes, HoldersShape, SlotAccounting,
                        CapInv, Holders, ArgTypes
    <3>3. LineInv'
      BY <2>7, SameLine DEF Quarantine, PoolInv, Waiters
    <3>4. QED
      BY <3>2, <3>3 DEF PoolInv
  <2>8. CASE Release(c)
    BY <2>8, HolderMovesInv DEF Release, StartRelease, Having
  <2>9. QED
    BY <1>2, <2>1, <2>2, <2>3, <2>4, <2>5, <2>6, <2>7, <2>8 DEF CallerStep
<1>3. ASSUME NEW k \in Keys, QuarantineExpires(k)
      PROVE  PoolInv'
  <2>1. SlotInv' /\ ArgTypes'
    BY <1>3 DEF QuarantineExpires, PoolInv, SlotInv, SlotTypes, HoldersShape, SlotAccounting,
                CapInv, Holders, ArgTypes
  <2>2. LineInv'
    BY <1>3, SameLine DEF QuarantineExpires, PoolInv, Waiters
  <2>3. QED
    BY <2>1, <2>2 DEF PoolInv
<1>4. ASSUME NEW k \in Keys, QuarantineRelease(k)
      PROVE  PoolInv'
  BY <1>4, QuarantineReleaseInv
<1>5. CASE UNCHANGED poolVars
  BY <1>5 DEF poolVars, PoolInv, SlotInv, SlotTypes, HoldersShape, SlotAccounting, CapInv,
              Holders, ArgTypes, LineInv, Lined, Waiters
<1>6. QED
  BY <1>1, <1>2, <1>3, <1>4, <1>5 DEF PoolNext

LEMMA PoolInvariant == PoolSpec => []PoolInv
BY InitPoolInv, NextPoolInv, PTL DEF PoolSpec

-----------------------------------------------------------------------------
(* The theorems                                                            *)

\* Every state of the pool is well typed; in particular _waiting and the
\* in-flight counters never go below zero.
THEOREM PoolTypeCorrect == PoolSpec => []PoolTypeOK
<1>1. PoolInv => PoolTypeOK
  BY QueueLengths DEF PoolInv, SlotInv, SlotTypes, ArgTypes, PoolTypeOK, LineInv, Lined, Standing
<1>2. QED
  BY <1>1, PoolInvariant, PTL

\* The in-flight counter of a key is always the number of callers that have a
\* slot of it: cancellation, time-out and failure leak no slot.
THEOREM PoolSlotsAccounted == PoolSpec => []SlotAccounting
<1>1. PoolInv => SlotAccounting
  BY DEF PoolInv, SlotInv
<1>2. QED
  BY <1>1, PoolInvariant, PTL

\* No key ever serves more than max_concurrent_per_key callers.
THEOREM PoolCapRespected == PoolSpec => []CapRespected
<1>1. PoolInv => CapRespected
  BY DEF PoolInv, SlotInv, CapInv, SlotAccounting, CapRespected
<1>2. QED
  BY <1>1, PoolInvariant, PTL

\* The waiting counter is the number of callers in the condition, and each of
\* them is in exactly one of its two queues, once.
THEOREM PoolWaitingAccounted == PoolSpec => []WaitingAccounting
<1>1. PoolInv => WaitingAccounting
  <2> SUFFICES ASSUME PoolInv PROVE WaitingAccounting
    OBVIOUS
  <2>1. DOMAIN queue = 1 .. Len(queue) /\ DOMAIN woken = 1 .. Len(woken)
    BY LenProperties DEF PoolInv, LineInv, Lined
  <2>2. IsInjective(queue) /\ IsInjective(woken)
    BY <2>1 DEF IsInjective, PoolInv, LineInv, Lined
  <2>3. ToSet(queue) \cap ToSet(woken) = {}
    BY <2>1 DEF ToSet, PoolInv, LineInv, Lined
  <2>4. ToSet(queue) \cup ToSet(woken) = Waiters
    BY <2>1 DEF ToSet, PoolInv, LineInv, Lined
  <2>5. QED
    BY <2>2, <2>3, <2>4 DEF WaitingAccounting, PoolInv, LineInv, Waiters
<1>2. QED
  BY <1>1, PoolInvariant, PTL
\* The prover takes the Cardinality of the instance for an operator of its own.
LEMMA SameCardinality == \A S : Slots!Cardinality(S) = Cardinality(S)
BY DEF Slots!Cardinality, Cardinality

\* The pool implements KeySlots: whatever is cancelled, timed out, notified or
\* quarantined, a slot is granted only within the cap and on a key that is not
\* quarantined, and only its owner gives it back.
THEOREM PoolImplementsKeySlots == PoolSpec => ImplementsKeySlots
<1>1. PoolInit => Slots!SlotInit
  BY DEF PoolInit, Slots!SlotInit
<1>2. ASSUME PoolInv, NEW c \in Callers, NEW S, NEW k \in Picks(S), key[c] = NoKey,
             Take(c, k), UNCHANGED quarantined
      PROVE  Slots!SlotNext
  <2>1. k \in Keys /\ k \notin quarantined /\ (Cap = 0 \/ inFlight[k] < Cap)
    BY DEF Picks, LeastLoaded, Free, Selectable
  <2>2. inFlight[k] = Cardinality(Slots!Owners(k))
    BY <1>2, <2>1 DEF PoolInv, SlotInv, SlotAccounting, Holders, Slots!Owners
  <2>3. Slots!Grant(c, k)
    <3>1. Slots!HasRoom(k)
      BY <2>1, <2>2, SameCardinality DEF Slots!HasRoom
    <3>2. key' = [key EXCEPT ![c] = k] /\ quarantined' = quarantined
      BY <1>2 DEF Take
    <3>3. QED
      BY <1>2, <2>1, <3>1, <3>2 DEF Slots!Grant
  <2>4. QED
    BY <2>1, <2>3 DEF Slots!SlotNext
<1>3. ASSUME PoolInv, NEW c \in Callers, st[c] \notin Having
      PROVE  key[c] = NoKey
  BY <1>3 DEF PoolInv, SlotInv, SlotTypes, HoldersShape
<1>4. ASSUME PoolInv, NEW c \in Callers, LoopStep(c)
      PROVE  Slots!SlotNext \/ UNCHANGED <<key, quarantined>>
  <2>1. CASE ResumeTakes(c)
    <3>1. PICK k \in Picks(excl[c]) : Take(c, k)
      BY <2>1 DEF ResumeTakes
    <3>2. st[c] = "waiting"
      BY <2>1, QueueMember, <1>4 DEF PoolInv, ResumeTakes
    <3>3. key[c] = NoKey
      BY <1>3, <1>4, <3>2 DEF Having
    <3>4. QED
      BY <1>2, <1>4, <2>1, <3>1, <3>3 DEF ResumeTakes, LeavesLoop
  <2>2. CASE ResumeNoKey(c) \/ ResumeBusy(c)
    BY <2>2 DEF ResumeNoKey, ResumeBusy, ResumeFails, LeavesLoop
  <2>3. CASE ResumeWaits(c)
    BY <2>3 DEF ResumeWaits
  <2>4. CASE Timeout(c)
    BY <2>4 DEF Timeout, LeaveWait
  <2>5. CASE DelayEnds(c)
    BY <2>5 DEF DelayEnds
  <2>6. CASE ReleaseLocked(c)
    <3>1. key[c] \in Keys
      BY <1>4, <2>6 DEF PoolInv, SlotInv, HoldersShape, Having, ReleaseLocked
    <3>2. Slots!Return(c)
      BY <2>6, <3>1, NoKeyIsNoKey DEF Slots!Return, ReleaseLocked
    <3>3. QED
      BY <3>2 DEF Slots!SlotNext
  <2>7. QED
    BY <1>4, <2>1, <2>2, <2>3, <2>4, <2>5, <2>6 DEF LoopStep
<1>5. ASSUME PoolInv, NEW c \in Callers, CallerStep(c)
      PROVE  Slots!SlotNext \/ UNCHANGED <<key, quarantined>>
  <2>1. ASSUME NEW S \in Excludes, AcquireTakes(c, S)
        PROVE  Slots!SlotNext
    <3>1. PICK k \in Picks(S) : Take(c, k)
      BY <2>1 DEF AcquireTakes
    <3>2. key[c] = NoKey
      BY <1>3, <1>5, <2>1 DEF Having, AcquireTakes
    <3>3. QED
      BY <1>2, <1>5, <2>1, <3>1, <3>2 DEF AcquireTakes
  <2>2. ASSUME NEW S \in Excludes, AcquireNoKey(c, S) \/ AcquireNoSlot(c, S) \/ AcquireWaits(c, S)
        PROVE  UNCHANGED <<key, quarantined>>
    BY <2>2 DEF AcquireNoKey, AcquireNoSlot, AcquireWaits, poolVars
  <2>3. CASE DeadlinePasses(c) \/ CancelWait(c) \/ CancelDelay(c) \/ Release(c)
    BY <2>3 DEF DeadlinePasses, CancelWait, LeaveWait, CancelDelay, Release, StartRelease
  <2>4. CASE Quarantine(c)
    <3>1. key[c] \in Keys
      BY <1>5, <2>4 DEF Quarantine, PoolInv, SlotInv, HoldersShape, Having
    <3>2. Slots!Bar(key[c])
      BY <2>4, <3>1 DEF Slots!Bar, Slots!Owners, Quarantine
    <3>3. QED
      BY <3>1, <3>2 DEF Slots!SlotNext
  <2>5. QED
    BY <1>5, <2>1, <2>2, <2>3, <2>4 DEF CallerStep
<1>6. ASSUME NEW k \in Keys, QuarantineExpires(k) \/ QuarantineRelease(k)
      PROVE  Slots!SlotNext
  <2>1. Slots!Unbar(k)
    BY <1>6 DEF QuarantineExpires, QuarantineRelease, Slots!Unbar
  <2>2. QED
    BY <2>1 DEF Slots!SlotNext
<1>7. PoolInv /\ [PoolNext]_poolVars => [Slots!SlotNext]_(Slots!slotVars)
  <2> SUFFICES ASSUME PoolInv, [PoolNext]_poolVars
               PROVE  Slots!SlotNext \/ UNCHANGED <<key, quarantined>>
    BY DEF Slots!slotVars
  <2>1. CASE PoolNext
    BY <2>1, <1>4, <1>5, <1>6 DEF PoolNext
  <2>2. CASE UNCHANGED poolVars
    BY <2>2 DEF poolVars
  <2>3. QED
    BY <2>1, <2>2
<1>8. QED
  BY <1>1, <1>7, PoolInvariant, PTL DEF PoolSpec, ImplementsKeySlots, Slots!SlotSpec
-----------------------------------------------------------------------------
(* No wake-up is lost                                                      *)

LEMMA SlotsFinite ==
    /\ IsFiniteSet(FreeSlots) /\ Cardinality(FreeSlots) \in Nat
    /\ IsFiniteSet(FreeSlots') /\ Cardinality(FreeSlots') \in Nat
<1>1. IsFiniteSet(Keys) /\ IsFiniteSet(1 .. Cap)
  BY PoolAssumption, FS_Interval DEF Keys
<1>2. IsFiniteSet(Keys \X (1 .. Cap))
  BY <1>1, FS_Product
<1>3. FreeSlots \subseteq Keys \X (1 .. Cap) /\ FreeSlots' \subseteq Keys \X (1 .. Cap)
  BY DEF FreeSlots
<1>4. IsFiniteSet(FreeSlots) /\ IsFiniteSet(FreeSlots')
  BY <1>2, <1>3, FS_Subset
<1>5. QED
  BY <1>4, FS_CardinalityType

\* A caller that excludes nothing and finds no key free leaves no slot behind.
LEMMA NoneFree ==
    ASSUME inFlight \in [Keys -> Nat], Free({}) = {}
    PROVE  Cardinality(FreeSlots) = 0
<1>1. ASSUME NEW s \in FreeSlots
      PROVE  FALSE
  <2>1. s[1] \in Keys \ quarantined /\ s[2] \in 1 .. Cap /\ inFlight[s[1]] < s[2]
    BY DEF FreeSlots
  <2>2. inFlight[s[1]] < Cap
    BY <2>1, PoolAssumption
  <2>3. s[1] \in Free({})
    BY <2>1, <2>2 DEF Free, Selectable
  <2>4. QED
    BY <2>3
<1>2. FreeSlots = {}
  BY <1>1
<1>3. QED
  BY <1>2, FS_EmptySet

\* Taking a slot takes it out of the free ones.
LEMMA TakeFillsSlot ==
    ASSUME inFlight \in [Keys -> Nat], NEW c, NEW S, NEW k \in Picks(S), Take(c, k),
           UNCHANGED quarantined, Cap > 0
    PROVE  Cardinality(FreeSlots') = Cardinality(FreeSlots) - 1
<1> DEFINE s == <<k, inFlight[k] + 1>>
<1>1. k \in Keys \ quarantined /\ inFlight[k] < Cap /\ inFlight[k] \in Nat
  BY PoolAssumption DEF Picks, LeastLoaded, Free, Selectable
<1>2. s \in FreeSlots
  BY <1>1, PoolAssumption DEF FreeSlots
<1>3. ASSUME NEW x \in Keys \X (1 .. Cap)
      PROVE  inFlight'[x[1]] < x[2] <=> inFlight[x[1]] < x[2] /\ x # s
  <2>1. CASE x[1] = k
    <3>1. inFlight'[k] = inFlight[k] + 1
      BY <1>1 DEF Take
    <3>2. x = s <=> x[2] = inFlight[k] + 1
      BY <2>1
    <3>3. QED
      BY <1>1, <2>1, <3>1, <3>2, PoolAssumption
  <2>2. CASE x[1] # k
    BY <2>2 DEF Take
  <2>3. QED
    BY <2>1, <2>2
<1>4. FreeSlots' = FreeSlots \ {s}
  BY <1>3 DEF FreeSlots
<1>5. QED
  BY <1>2, <1>4, SlotsFinite, FS_RemoveElement

\* Giving a slot back frees one slot at most.
LEMMA ReleaseFreesSlot ==
    ASSUME PoolInv, NEW c \in Callers, ReleaseLocked(c)
    PROVE  Cardinality(FreeSlots') <= Cardinality(FreeSlots) + 1
<1> DEFINE k == key[c]
           s == <<k, inFlight[k]>>
<1>1. inFlight \in [Keys -> Nat] /\ k \in Keys
  BY DEF PoolInv, SlotInv, SlotTypes, HoldersShape, Having, ReleaseLocked
<1>2. ASSUME NEW x \in Keys \X (1 .. Cap), inFlight'[x[1]] < x[2]
      PROVE  inFlight[x[1]] < x[2] \/ x = s
  <2>1. CASE x[1] = k
    <3>1. inFlight'[k] = IF inFlight[k] > 0 THEN inFlight[k] - 1 ELSE inFlight[k]
      BY <1>1 DEF ReleaseLocked
    <3>2. inFlight[k] < x[2] \/ x[2] = inFlight[k]
      BY <1>1, <1>2, <2>1, <3>1, PoolAssumption
    <3>3. QED
      BY <2>1, <3>2
  <2>2. CASE x[1] # k
    BY <1>2, <2>2 DEF ReleaseLocked
  <2>3. QED
    BY <2>1, <2>2
<1>3. FreeSlots' \subseteq FreeSlots \cup {s}
  BY <1>2 DEF FreeSlots, ReleaseLocked
<1>4. IsFiniteSet(FreeSlots) /\ Cardinality(FreeSlots) \in Nat
  BY <1>1, SlotsFinite
<1> HIDE DEF s
<1>5. IsFiniteSet(FreeSlots \cup {s}) /\ Cardinality(FreeSlots \cup {s}) <= Cardinality(FreeSlots) + 1
  <2>1. /\ IsFiniteSet(FreeSlots \cup {s})
        /\ Cardinality(FreeSlots \cup {s})
              = IF s \in FreeSlots THEN Cardinality(FreeSlots) ELSE Cardinality(FreeSlots) + 1
    BY <1>4, FS_AddElement
  <2>2. QED
    BY <1>4, <2>1
<1>6. Cardinality(FreeSlots') <= Cardinality(FreeSlots \cup {s})
  BY <1>3, <1>5, FS_Subset
<1>7. Cardinality(FreeSlots') \in Nat /\ Cardinality(FreeSlots \cup {s}) \in Nat
  <2>1. IsFiniteSet(FreeSlots')
    BY <1>3, <1>5, FS_Subset
  <2>2. QED
    BY <1>5, <2>1, FS_CardinalityType
<1>8. QED
  BY <1>4, <1>5, <1>6, <1>7

\* A notification that leaves callers queued was handed to one of them.
LEMMA NotifyHandsOn ==
    ASSUME NEW q, NEW w, NEW W, Lined(q, w, W), NotifyOne(q, w), queue' # <<>>
    PROVE  q # <<>> /\ Len(woken') = Len(w) + 1
BY AppendProperties, HeadTailProperties DEF NotifyOne, Lined

\* A step attends to its waiters when it leaves them no free slot, or no more free
\* slots without a wake-up than there were.
Attends ==
    queue' # <<>> =>
        \/ Cardinality(FreeSlots') = 0
        \/ /\ queue # <<>>
           /\ Cardinality(FreeSlots') - Len(woken') <= Cardinality(FreeSlots) - Len(woken)

LEMMA FreeSlotsOf ==
    PoolInv =>
        /\ inFlight \in [Keys -> Nat]
        /\ Cardinality(FreeSlots) \in Nat
        /\ Len(queue) \in Nat /\ Len(woken) \in Nat
BY SlotsFinite, QueueLengths DEF PoolInv, SlotInv, SlotTypes

LEMMA SameSlots ==
    ASSUME UNCHANGED <<inFlight, quarantined>>
    PROVE  Cardinality(FreeSlots') = Cardinality(FreeSlots)
BY DEF FreeSlots

\* A step that changes neither the slots nor the condition.
LEMMA QuietAttends ==
    ASSUME PoolInv, UNCHANGED <<inFlight, quarantined, queue, woken>>
    PROVE  Attends
BY SameSlots, FreeSlotsOf DEF Attends

LEMMA TakesAttend ==
    ASSUME PoolInv, NEW c \in Callers, NEW S, AcquireTakes(c, S) \/ ResumeTakes(c)
    PROVE  Attends
<1>1. UNCHANGED <<queue, quarantined>> /\ \E R : \E k \in Picks(R) : Take(c, k)
  BY DEF AcquireTakes, ResumeTakes, LeavesLoop
<1>2. PICK R : \E k \in Picks(R) : Take(c, k)
  BY <1>1
<1>3. CASE Cap = 0
  <2>1. Cardinality(FreeSlots') = 0
    <3>1. FreeSlots' = {}
      BY <1>3 DEF FreeSlots
    <3>2. QED
      BY <3>1, FS_EmptySet
  <2>2. QED
    BY <2>1 DEF Attends
<1>4. CASE Cap > 0
  <2>1. Cardinality(FreeSlots') = Cardinality(FreeSlots) - 1
    <3>1. PICK k \in Picks(R) : Take(c, k)
      BY <1>2
    <3>2. QED
      BY <1>1, <1>4, <3>1, FreeSlotsOf, TakeFillsSlot
  <2>2. Len(woken') \in {Len(woken), Len(woken) - 1}
    BY LinedTail DEF AcquireTakes, ResumeTakes, LeavesLoop, Runs, PoolInv, LineInv
  <2>3. QED
    BY <1>1, <2>1, <2>2, FreeSlotsOf DEF Attends
<1>5. QED
  BY <1>3, <1>4, PoolAssumption

\* The exception that ends a wait hands the wake-up on.
LEMMA LeaveWaitAttends ==
    ASSUME PoolInv, NEW c \in Callers, LeaveWait(c)
    PROVE  Attends
<1> SUFFICES ASSUME queue' # <<>> PROVE queue # <<>> /\ Len(woken') >= Len(woken)
  <2>1. Cardinality(FreeSlots') = Cardinality(FreeSlots) /\ PoolInv'
    BY SameSlots, LeaveWaitInv DEF LeaveWait
  <2>2. Len(woken') \in Nat
    BY <2>1, QueueLengths DEF PoolInv
  <2>3. QED
    BY <2>1, <2>2, FreeSlotsOf DEF Attends
<1>1. CASE Runs(c) /\ NotifyOne(queue, Tail(woken))
  <2>1. Lined(queue, Tail(woken), Waiters \ {Head(woken)}) /\ Len(Tail(woken)) = Len(woken) - 1
    BY <1>1, LinedTail DEF PoolInv, LineInv, Runs
  <2>2. queue # <<>> /\ Len(woken') = Len(Tail(woken)) + 1
    BY <1>1, <2>1, NotifyHandsOn
  <2>3. QED
    BY <2>1, <2>2, FreeSlotsOf
<1>2. ASSUME NEW i \in 1 .. Len(queue), NotifyOne(RemoveAt(queue, i), woken)
      PROVE  queue # <<>> /\ Len(woken') >= Len(woken)
  <2>1. Lined(RemoveAt(queue, i), woken, Waiters \ {queue[i]})
    BY LinedRemove DEF PoolInv, LineInv
  <2>2. Len(woken') = Len(woken) + 1
    BY <1>2, <2>1, NotifyHandsOn
  <2>3. queue # <<>>
    BY FreeSlotsOf
  <2>4. QED
    BY <2>2, <2>3, FreeSlotsOf
<1>3. QED
  BY <1>1, <1>2 DEF LeaveWait

\* A release wakes a waiter for the slot it frees.
LEMMA ReleaseAttends ==
    ASSUME PoolInv, NEW c \in Callers, ReleaseLocked(c)
    PROVE  Attends
<1>1. ASSUME queue' # <<>>
      PROVE  queue # <<>> /\ Len(woken') = Len(woken) + 1
  <2>1. Lined(queue, woken, Waiters) /\ NotifyOne(queue, woken)
    BY DEF PoolInv, LineInv, ReleaseLocked
  <2>2. QED
    BY <1>1, <2>1, NotifyHandsOn
<1>2. Cardinality(FreeSlots') \in Nat
  BY SlotsFinite
<1>3. QED
  BY <1>1, <1>2, ReleaseFreesSlot, FreeSlotsOf DEF Attends

LEMMA QuarantineAttends ==
    ASSUME PoolInv, NEW c \in Callers, Quarantine(c)
    PROVE  Attends
<1>1. FreeSlots' \subseteq FreeSlots /\ inFlight' = inFlight
  BY DEF FreeSlots, Quarantine
<1>2. IsFiniteSet(FreeSlots)
  BY FreeSlotsOf, SlotsFinite
<1>3. Cardinality(FreeSlots') <= Cardinality(FreeSlots) /\ IsFiniteSet(FreeSlots')
  BY <1>1, <1>2, FS_Subset
<1>4. Cardinality(FreeSlots') \in Nat
  BY <1>3, FS_CardinalityType
<1>5. QED
  BY <1>3, <1>4, FreeSlotsOf DEF Attends, Quarantine

\* A caller that excludes nothing sleeps only when no slot is free.
LEMMA SleepsBesideNone ==
    ASSUME PoolInv, NEW c \in Callers, NEW S \in SUBSET Keys, FindsNone(c, S)
    PROVE  S # {} \/ Attends
<1>1. UNCHANGED <<inFlight, quarantined>>
  BY DEF FindsNone, AcquireWaits, ResumeNoKey, ResumeBusy, ResumeWaits, ResumeFails, LeavesLoop
<1>2. Free(S) = {}
  BY DEF FindsNone, AcquireWaits, ResumeNoKey, ResumeBusy, ResumeWaits, Free
<1>3. QED
  BY <1>1, <1>2, NoneFree, SameSlots, FreeSlotsOf DEF Attends

Excused ==
    \/ \E k \in Keys : QuarantineExpires(k)
    \/ \E c \in Callers, S \in (SUBSET Keys) \ {{}} : FindsNone(c, S)

LEMMA StepAttends ==
    ASSUME PoolInv, [PoolNext]_poolVars
    PROVE  Attends \/ Excused
<1>1. ASSUME NEW c \in Callers, NEW S \in SUBSET Keys, FindsNone(c, S)
      PROVE  Attends \/ Excused
  BY <1>1, SleepsBesideNone DEF Excused
<1>2. ASSUME NEW c \in Callers, LoopStep(c)
      PROVE  Attends \/ Excused
  <2>1. CASE ResumeTakes(c)
    BY <2>1, TakesAttend
  <2>2. CASE ResumeNoKey(c) \/ ResumeBusy(c) \/ ResumeWaits(c)
    <3>1. excl[c] \in SUBSET Keys /\ FindsNone(c, excl[c])
      BY <2>2 DEF FindsNone, PoolInv, ArgTypes
    <3>2. QED
      BY <3>1, <1>1
  <2>3. CASE Timeout(c)
    BY <2>3, LeaveWaitAttends DEF Timeout
  <2>4. CASE DelayEnds(c)
    BY <2>4, QuietAttends DEF DelayEnds
  <2>5. CASE ReleaseLocked(c)
    BY <2>5, ReleaseAttends
  <2>6. QED
    BY <1>2, <2>1, <2>2, <2>3, <2>4, <2>5 DEF LoopStep
<1>3. ASSUME NEW c \in Callers, CallerStep(c)
      PROVE  Attends \/ Excused
  <2>1. ASSUME NEW S \in Excludes, AcquireTakes(c, S)
        PROVE  Attends
    BY <2>1, TakesAttend
  <2>2. ASSUME NEW S \in Excludes, AcquireNoKey(c, S) \/ AcquireNoSlot(c, S)
        PROVE  Attends
    BY <2>2, QuietAttends DEF AcquireNoKey, AcquireNoSlot, poolVars
  <2>3. ASSUME NEW S \in Excludes, AcquireWaits(c, S)
        PROVE  Attends \/ Excused
    BY <2>3, <1>1, PoolAssumption DEF FindsNone
  <2>4. CASE DeadlinePasses(c) \/ CancelDelay(c) \/ Release(c)
    BY <2>4, QuietAttends DEF DeadlinePasses, CancelDelay, Release, StartRelease
  <2>5. CASE CancelWait(c)
    BY <2>5, LeaveWaitAttends DEF CancelWait
  <2>6. CASE Quarantine(c)
    BY <2>6, QuarantineAttends
  <2>7. QED
    BY <1>3, <2>1, <2>2, <2>3, <2>4, <2>5, <2>6 DEF CallerStep
<1>4. ASSUME NEW k \in Keys, QuarantineExpires(k)
      PROVE  Excused
  BY <1>4 DEF Excused
<1>5. ASSUME NEW k \in Keys, QuarantineRelease(k)
      PROVE  Attends
  BY <1>5 DEF QuarantineRelease, Attends
<1>6. CASE UNCHANGED poolVars
  BY <1>6, QuietAttends DEF poolVars
<1>7. QED
  BY <1>2, <1>3, <1>4, <1>5, <1>6 DEF PoolNext

\* No wake-up is lost, for any number of callers and keys, any cap and any
\* exclusions: while callers wait, only a quarantine that expires, or the look of a
\* caller that excludes keys, leaves more free slots than wake-ups on their way.
THEOREM PoolLosesNoWakeup == PoolSpec => NoLostWakeup
<1>1. ASSUME PoolInv, [PoolNext]_poolVars, Unattended' > 0, Unattended' > Unattended
      PROVE  Excused
  <2>1. queue' # <<>>
    BY <1>1 DEF Unattended
  <2>2. PoolInv'
    BY <1>1, NextPoolInv
  <2>3. /\ Cardinality(FreeSlots) \in Nat /\ Len(woken) \in Nat
        /\ Cardinality(FreeSlots') \in Nat /\ Len(woken') \in Nat
    <3>1. woken' \in Seq(Callers)
      BY <2>2 DEF PoolInv, LineInv, Lined
    <3>2. QED
      BY <1>1, <3>1, FreeSlotsOf, SlotsFinite, LenProperties
  <2>4. ~Attends
    BY <1>1, <2>1, <2>3 DEF Attends, Unattended
  <2>5. QED
    BY <1>1, <2>4, StepAttends
<1>2. PoolInv /\ [PoolNext]_poolVars =>
         [Unattended' > 0 /\ Unattended' > Unattended =>
             \/ \E k \in Keys : QuarantineExpires(k)
             \/ \E c \in Callers, S \in (SUBSET Keys) \ {{}} : FindsNone(c, S)]_poolVars
  BY <1>1 DEF Excused
<1>3. QED
  BY <1>2, PoolInvariant, PTL DEF PoolSpec, NoLostWakeup
=============================================================================
