--------------------------- MODULE ServicesProofs ---------------------------
(***************************************************************************)
(* Proofs about the calls under /v1 (ApiCalls) and the model documents     *)
(* (ModelDocuments), for any number of calls, keys, documents and editors, *)
(* any tiers and any shelves.                                              *)
(***************************************************************************)
EXTENDS MCServices, RouterMemoryProofs, FunctionTheorems, SequenceTheorems, WellFoundedInduction

-----------------------------------------------------------------------------
(* Arrangements                                                            *)

\* B orders the positions in P strictly.
Orders(B, P) ==
    /\ \A i \in P : <<i, i>> \notin B
    /\ \A i, j, k \in P : <<i, j>> \in B /\ <<j, k>> \in B => <<i, k>> \in B
    /\ \A i, j \in P : i # j => <<i, j>> \in B \/ <<j, i>> \in B

Predecessors(P, B, i) == {j \in P : <<j, i>> \in B}

\* Every position has a place of its own.
LEMMA PlacesDiffer ==
    ASSUME NEW P, IsFiniteSet(P), NEW B, Orders(B, P)
    PROVE  /\ \A i \in P : Cardinality(Predecessors(P, B, i)) \in 0 .. Cardinality(P) - 1
           /\ \A i, j \in P :
                 Cardinality(Predecessors(P, B, i)) = Cardinality(Predecessors(P, B, j)) => i = j
<1> DEFINE below(i) == Predecessors(P, B, i)
<1>1. ASSUME NEW i \in P
      PROVE  /\ IsFiniteSet(below(i))
             /\ Cardinality(below(i)) \in Nat
             /\ Cardinality(below(i)) \in 0 .. Cardinality(P) - 1
  <2>1. below(i) \subseteq P \ {i}
    BY DEF Orders, Predecessors
  <2>2. IsFiniteSet(P \ {i}) /\ Cardinality(P \ {i}) = Cardinality(P) - 1
    BY FS_RemoveElement
  <2>3. IsFiniteSet(below(i)) /\ Cardinality(below(i)) <= Cardinality(P \ {i})
    BY <2>1, <2>2, FS_Subset
  <2>4. Cardinality(below(i)) \in Nat /\ Cardinality(P) \in Nat
    BY <2>3, FS_CardinalityType
  <2>5. QED
    BY <2>2, <2>3, <2>4
<1>2. ASSUME NEW i \in P, NEW j \in P, <<i, j>> \in B
      PROVE  Cardinality(below(i)) # Cardinality(below(j))
  <2>1. below(i) \subseteq below(j)
    BY <1>2 DEF Orders, Predecessors
  <2>2. i \in below(j) /\ i \notin below(i)
    BY <1>2 DEF Orders, Predecessors
  <2>3. below(i) # below(j)
    BY <2>2
  <2>4. QED
    BY <1>1, <2>1, <2>3, FS_Subset
<1>3. ASSUME NEW i \in P, NEW j \in P, Cardinality(below(i)) = Cardinality(below(j))
      PROVE  i = j
  BY <1>2, <1>3 DEF Orders
<1>4. QED
  BY <1>1, <1>3

\* An arrangement shows every position of P exactly once.
LEMMA ArrangedProperties ==
    ASSUME NEW P, IsFiniteSet(P), NEW B, Orders(B, P)
    PROVE  \E f \in Bijection(1 .. Cardinality(P), P) :
              \A s : Arranged(s, P, B) = [n \in 1 .. Cardinality(P) |-> s[f[n]]]
<1> DEFINE N == Cardinality(P)
           place == [i \in P |-> Cardinality(Predecessors(P, B, i)) + 1]
           f == [n \in 1 .. N |-> CHOOSE i \in P : Cardinality(Predecessors(P, B, i)) = n - 1]
<1>1. N \in Nat
  BY FS_CardinalityType
<1>0. \A i \in P : place[i] = Cardinality(Predecessors(P, B, i)) + 1
  OBVIOUS
<1> HIDE DEF N
<1>2. place \in Injection(P, 1 .. N) /\ \A i, j \in P : place[i] = place[j] => i = j
  <2>1. \A i \in P : Cardinality(Predecessors(P, B, i)) \in 0 .. N - 1
    BY PlacesDiffer DEF N
  <2>2. place \in [P -> 1 .. N]
    BY <1>1, <2>1
  <2>3. \A i, j \in P : place[i] = place[j] => i = j
    BY <1>1, <2>1, PlacesDiffer
  <2>4. QED
    BY <2>2, <2>3, Fun_IsInj
<1> HIDE DEF place
<1>3. IsFiniteSet(1 .. N) /\ Cardinality(1 .. N) = N
  BY <1>1, FS_Interval
<1>4. place \in Surjection(P, 1 .. N)
  <2>1. Cardinality(P) = Cardinality(1 .. N)
    BY <1>3 DEF N
  <2>2. QED
    BY <1>2, <1>3, <2>1, FS_Injection
<1>5. ASSUME NEW n \in 1 .. N
      PROVE  f[n] \in P /\ place[f[n]] = n
  <2>1. PICK i \in P : place[i] = n
    BY <1>4 DEF Surjection
  <2>2. Cardinality(Predecessors(P, B, i)) = n - 1
    <3>1. Cardinality(Predecessors(P, B, i)) \in 0 .. N - 1
      BY PlacesDiffer DEF N
    <3>2. QED
      BY <1>0, <1>1, <2>1, <3>1
  <2>3. f[n] \in P /\ Cardinality(Predecessors(P, B, f[n])) = n - 1
    BY <2>2
  <2>4. QED
    BY <1>0, <1>1, <2>3
<1>6. f \in [1 .. N -> P]
  BY <1>5
<1> HIDE DEF f
<1>7. \A m, n \in 1 .. N : f[m] = f[n] => m = n
  BY <1>5
<1>8. \A i \in P : \E n \in 1 .. N : f[n] = i
  <2> SUFFICES ASSUME NEW i \in P PROVE \E n \in 1 .. N : f[n] = i
    OBVIOUS
  <2>1. place[i] \in 1 .. N
    BY <1>2 DEF Injection
  <2>2. place[f[place[i]]] = place[i] /\ f[place[i]] \in P
    BY <1>5, <2>1
  <2>3. f[place[i]] = i
    BY <1>2, <2>2
  <2>4. QED
    BY <2>1, <2>3
<1>9. f \in Bijection(1 .. N, P)
  BY <1>6, <1>7, <1>8, Fun_IsSurj, Fun_IsBij
<1>10. \A s : Arranged(s, P, B) = [n \in 1 .. N |-> s[f[n]]]
  BY DEF Arranged, N, Predecessors, f
<1>11. QED
  BY <1>9, <1>10 DEF N

\* w shows the elements of s at the positions in P: all of them, nothing else, and
\* each once if they differ.
Shows(w, s, P) ==
    /\ Len(w) = Cardinality(P)
    /\ \A n \in 1 .. Len(w) : \E i \in P : w[n] = s[i]
    /\ \A i \in P : \E n \in 1 .. Len(w) : w[n] = s[i]
    /\ (\A i, j \in P : s[i] = s[j] => i = j) => \A m, n \in 1 .. Len(w) : w[m] = w[n] => m = n

LEMMA ArrangedShows ==
    ASSUME NEW S, NEW s \in Seq(S), NEW P \in SUBSET (1 .. Len(s)), NEW B, Orders(B, P)
    PROVE  Arranged(s, P, B) \in Seq(S) /\ Shows(Arranged(s, P, B), s, P)
<1>1. Len(s) \in Nat /\ IsFiniteSet(1 .. Len(s)) /\ \A i \in P : s[i] \in S
  BY LenProperties, ElementOfSeq, FS_Interval
<1>2. IsFiniteSet(P) /\ Cardinality(P) \in Nat
  BY <1>1, FS_Subset, FS_CardinalityType
<1>3. PICK f \in Bijection(1 .. Cardinality(P), P) :
           \A x : Arranged(x, P, B) = [n \in 1 .. Cardinality(P) |-> x[f[n]]]
  BY <1>2, ArrangedProperties
<1> DEFINE a == Arranged(s, P, B)
<1>4. a = [n \in 1 .. Cardinality(P) |-> s[f[n]]]
  BY <1>3
<1>5. /\ f \in [1 .. Cardinality(P) -> P]
      /\ \A m, n \in 1 .. Cardinality(P) : f[m] = f[n] => m = n
      /\ \A i \in P : \E n \in 1 .. Cardinality(P) : f[n] = i
  BY <1>3 DEF Bijection, Injection, Surjection, IsInjective
<1> HIDE DEF a
<1>6. a \in [1 .. Cardinality(P) -> S]
  BY <1>1, <1>4, <1>5
<1>7. a \in Seq(S) /\ Len(a) = Cardinality(P)
  BY <1>2, <1>6, IsASeq, LenProperties
<1>8. \A n \in 1 .. Cardinality(P) : f[n] \in P /\ a[n] = s[f[n]]
  BY <1>4, <1>5
<1>9. Shows(a, s, P)
  <2> DEFINE N == 1 .. Cardinality(P)
  <2>1. 1 .. Len(a) = N
    BY <1>7
  <2> HIDE DEF N
  <2>2. /\ \A n \in N : f[n] \in P /\ a[n] = s[f[n]]
        /\ \A m, n \in N : f[m] = f[n] => m = n
        /\ \A i \in P : \E n \in N : f[n] = i
    BY <1>5, <1>8 DEF N
  <2>3. /\ \A n \in N : \E i \in P : a[n] = s[i]
        /\ \A i \in P : \E n \in N : a[n] = s[i]
    BY <2>2
  <2>4. ASSUME \A i, j \in P : s[i] = s[j] => i = j, NEW m \in N, NEW n \in N, a[m] = a[n]
        PROVE  m = n
    <3>1. f[m] \in P /\ f[n] \in P /\ s[f[m]] = s[f[n]]
      BY <2>2, <2>4
    <3>2. f[m] = f[n]
      BY <2>4, <3>1
    <3>3. QED
      BY <2>2, <3>2
  <2>5. /\ \A n \in 1 .. Len(a) : \E i \in P : a[n] = s[i]
        /\ \A i \in P : \E n \in 1 .. Len(a) : a[n] = s[i]
        /\ (\A i, j \in P : s[i] = s[j] => i = j) => \A m, n \in 1 .. Len(a) : a[m] = a[n] => m = n
    BY <2>1, <2>3, <2>4
  <2>6. QED
    BY <1>7, <2>5 DEF Shows
<1>10. QED
  BY <1>7, <1>9 DEF a

\* A part of a sequence, in its order.
LEMMA AtShows ==
    ASSUME NEW S, NEW s \in Seq(S), NEW P \in SUBSET (1 .. Len(s))
    PROVE  At(s, P) \in Seq(S) /\ Shows(At(s, P), s, P)
<1> DEFINE B == {p \in P \X P : p[1] < p[2]}
<1>1. Orders(B, P)
  BY LenProperties DEF Orders
<1> HIDE DEF B
<1>2. Arranged(s, P, B) \in Seq(S) /\ Shows(Arranged(s, P, B), s, P)
  BY <1>1, ArrangedShows
<1>3. At(s, P) = Arranged(s, P, B)
  BY DEF At, B
<1>4. QED
  BY <1>2, <1>3

-----------------------------------------------------------------------------
(* Tiers and walks                                                         *)

LEMMA TierFacts ==
    /\ Tiers \in Seq(TierSet) /\ Len(Tiers) \in Nat
    /\ \A t \in TierSet : Rank(t) \in 1 .. Len(Tiers) /\ Tiers[Rank(t)] = t
    /\ None \notin TierSet /\ None \notin Models
<1>1. DOMAIN Tiers = 1 .. Len(Tiers) /\ Len(Tiers) \in Nat
  BY ApiAssumption, LenProperties
<1>2. TierSet = {Tiers[i] : i \in DOMAIN Tiers}
  BY DEF TierSet, ToSet
<1>3. \A t \in TierSet : \E i \in DOMAIN Tiers : Tiers[i] = t
  BY <1>2
<1>4. \A t \in TierSet : Rank(t) \in DOMAIN Tiers /\ Tiers[Rank(t)] = t
  BY <1>3 DEF Rank
<1>5. QED
  BY <1>1, <1>2, <1>4, ApiAssumption

\* Among plausible tiers there is a strongest one.
LEMMA StrongestIsThere ==
    ASSUME NEW T \in SUBSET TierSet, T # {}
    PROVE  \E t \in T : \A u \in T : Rank(u) <= Rank(t)
<1> DEFINE weakness(t) == Len(Tiers) - Rank(t)
           W == {weakness(t) : t \in T}
<1>1. \A t \in T : Rank(t) \in 1 .. Len(Tiers) /\ Len(Tiers) \in Nat
  BY TierFacts
<1>2. W \subseteq Nat /\ W # {}
  BY <1>1
<1> HIDE DEF W
<1>3. PICK x \in W : \A y \in W : <<y, x>> \notin OpToRel(<, Nat)
  BY <1>2, NatLessThanWellFounded, WFMin
<1>4. \A y \in W : ~(y < x)
  BY <1>2, <1>3 DEF OpToRel
<1>5. PICK t \in T : x = weakness(t)
  BY <1>3 DEF W
<1>6. \A u \in T : Rank(u) <= Rank(t)
  <2> SUFFICES ASSUME NEW u \in T PROVE Rank(u) <= Rank(t)
    OBVIOUS
  <2>1. weakness(u) \in W
    BY DEF W
  <2>2. ~(weakness(u) < weakness(t))
    BY <1>4, <1>5, <2>1
  <2>3. QED
    BY <1>1, <2>2
<1>7. QED
  BY <1>6

LEMMA StrongestIsTier ==
    ASSUME NEW T \in SUBSET TierSet, NEW plausible \in SUBSET T, NEW own
    PROVE  StrongestPlausible(T, plausible, own) \in TierSet \cup {None}
BY StrongestIsThere DEF StrongestPlausible

\* A document as its save left it.
LEMMA DocumentFacts ==
    ASSUME NEW d \in Documents
    PROVE  /\ d.text \in Seq(Models)
           /\ d.tierOf \in [Models -> TierSet \cup {None}]
           /\ \A s \in Shelves : d.shelf[s] \in Seq(Models)
           /\ OnOneShelf(d)
BY ApiAssumption DEF DocumentType, TierSet, ToSet

LEMMA SelectionTiersAreTiers ==
    ASSUME NEW d \in Documents, NEW ch
    PROVE  SelectionTiers(d, ch) \in SUBSET TierSet
<1>1. \A m \in ToSet(d.text) : d.tierOf[m] \in TierSet \cup {None}
  BY DocumentFacts, LenProperties, ElementOfSeq DEF ToSet
<1>2. QED
  BY <1>1 DEF SelectionTiers

\* The order of a text walk: the tiers in turn, each in shelf order.
LEMMA TurnsOrder ==
    ASSUME NEW d \in Documents, NEW t \in TierSet
    PROVE  LET P == DOMAIN d.text
               turn(i) == Turn(d.tierOf[d.text[i]], t)
           IN  Orders({p \in P \X P : \/ turn(p[1]) < turn(p[2])
                                      \/ (turn(p[1]) = turn(p[2]) /\ p[1] < p[2])}, P)
<1> DEFINE P == DOMAIN d.text
           turn(i) == Turn(d.tierOf[d.text[i]], t)
<1>1. P \subseteq Int
  BY DocumentFacts, LenProperties
<1>2. ASSUME NEW i \in P
      PROVE  turn(i) \in Int
  <2>1. d.tierOf[d.text[i]] \in TierSet \cup {None}
    BY DocumentFacts, LenProperties, ElementOfSeq
  <2> DEFINE u == d.tierOf[d.text[i]]
  <2>2. u = None => turn(i) = Len(Tiers)
    BY DEF Turn
  <2>3. u # None => turn(i) = Rank(u) - Rank(t) \/ turn(i) = Len(Tiers) - Rank(u)
    BY DEF Turn
  <2> HIDE DEF u, turn
  <2>4. Rank(t) \in Int /\ Len(Tiers) \in Int /\ (u # None => Rank(u) \in Int)
    BY <2>1, TierFacts DEF u
  <2>5. QED
    BY <2>2, <2>3, <2>4
<1> HIDE DEF P, turn
<1>3. Orders({p \in P \X P : \/ turn(p[1]) < turn(p[2])
                             \/ (turn(p[1]) = turn(p[2]) /\ p[1] < p[2])}, P)
  BY <1>1, <1>2 DEF Orders
<1>4. QED
  BY <1>3 DEF P, turn

\* A walk ordered by a tier names what the text shelf names, once.
LEMMA WalkIsShelf ==
    ASSUME NEW d \in Documents, NEW t \in TierSet
    PROVE  /\ TierOrderedWalk(d, t) \in Seq(Models)
           /\ Len(TierOrderedWalk(d, t)) = Len(d.text)
           /\ ToSet(TierOrderedWalk(d, t)) = ToSet(d.text)
<1> DEFINE P == DOMAIN d.text
           turn(i) == Turn(d.tierOf[d.text[i]], t)
           B == {p \in P \X P : turn(p[1]) < turn(p[2]) \/ (turn(p[1]) = turn(p[2]) /\ p[1] < p[2])}
           w == Arranged(d.text, P, B)
<1>1. d.text \in Seq(Models) /\ Len(d.text) \in Nat /\ P = 1 .. Len(d.text)
  BY DocumentFacts, LenProperties
<1>2. Orders(B, P)
  BY TurnsOrder
<1>3. TierOrderedWalk(d, t) = w
  BY DEF TierOrderedWalk
<1> HIDE DEF B, P, w
<1>4. w \in Seq(Models) /\ Shows(w, d.text, P)
  <2>1. P \in SUBSET (1 .. Len(d.text))
    BY <1>1
  <2>2. QED
    BY <1>1, <1>2, <2>1, ArrangedShows DEF w
<1>5. Cardinality(P) = Len(d.text)
  BY <1>1, FS_Interval
<1>6. DOMAIN w = 1 .. Len(w)
  BY <1>4, LenProperties
<1>7. ToSet(w) = ToSet(d.text)
  <2>1. ToSet(w) = {w[n] : n \in 1 .. Len(w)} /\ ToSet(d.text) = {d.text[i] : i \in P}
    BY <1>6 DEF ToSet, P
  <2>2. QED
    BY <1>4, <2>1 DEF Shows
<1>8. QED
  BY <1>3, <1>4, <1>5, <1>7 DEF Shows

-----------------------------------------------------------------------------
(* The invariant of the calls                                              *)

CallType ==
    [at : {"idle", "opening", "asking", "serving", "refused", "failed", "ok"},
     key : Keys \cup {None}, end : Endpoints \cup {None}, stream : BOOLEAN,
     model : Models \cup {VcrAuto, None}, question : Questions \cup {None},
     document : Documents \cup {None}, walk : Seq(Models), answered : Models \cup {None},
     kept : BOOLEAN]

UnderWay(r) ==
    /\ r.key \in Keys /\ r.end \in Endpoints
    /\ r.model \in Models \cup {VcrAuto} /\ r.question \in Questions

ApiTypes ==
    /\ key \in [Keys -> {"early", "live", "ended"}] /\ doc \in [Keys -> Documents]
    /\ choice \in {"automatic", "picked", None} /\ logging \in BOOLEAN
    /\ memory \in [MemoryKeys -> TierSet \cup {None}]
    /\ call \in [Calls -> CallType]
    /\ usage \in [Calls -> Seq(Models)] /\ log \in [Calls -> {None, "ok", "rejected"}]
    /\ edits \in 0 .. MaxEdits /\ faults \in 0 .. MaxFaults
    /\ asked \in [MemoryKeys -> SUBSET TierSet] /\ excused \in SUBSET MemoryKeys

NoRows(c) == usage[c] = <<>> /\ log[c] = None

\* What a call knows where it stands; and no call has rows before it is over.
CallSound(c) ==
    LET r == call[c]
    IN  /\ r.at \in {"opening", "asking", "serving"} =>
              UnderWay(r) /\ NoRows(c) /\ (r.kept => key[r.key] = "live")
        /\ r.at = "idle" => NoRows(c)
        /\ r.at = "opening" => r.document = None
        /\ r.at = "asking" => r.document \in Documents
        /\ r.at = "serving" /\ r.document # None =>
              /\ ToSet(r.walk) = ToSet(r.document.text)
              /\ Len(r.walk) = Len(r.document.text)

RowsSound(c) ==
    /\ usage[c] \in {<<>>, <<call[c].answered>>}
    /\ call[c].at = "ok" /\ call[c].kept /\ call[c].end.logged # "never" => usage[c] # <<>>
    /\ log[c] = "ok" => usage[c] # <<>>
    /\ log[c] = "rejected" => usage[c] = <<>> /\ ~call[c].kept

\* A key that is not excused has one tier, the remembered one, and nobody asks
\* for it twice at a time.
MemorySound ==
    \A mk \in MemoryKeys :
        /\ memory[mk] = None => asked[mk] = {}
        /\ mk \notin excused =>
              /\ asked[mk] \subseteq {memory[mk]}
              /\ Asking(mk) # {} => memory[mk] = None
              /\ \A c, d \in Asking(mk) : c = d

ApiInv == ApiTypes /\ (\A c \in Calls : CallSound(c) /\ RowsSound(c)) /\ MemorySound

LEMMA EndpointFacts ==
    ASSUME NEW e \in Endpoints
    PROVE  e.shelf \in Shelves \cup {"text"}
<1>1. e \in {ChatCompletions, Responses, Images, Embeddings, Speech, Transcriptions, Decisions,
             Realtime}
  BY EndpointsAssumption
<1>2. /\ ChatCompletions.shelf = "text" /\ Responses.shelf = "text"
      /\ Images.shelf = "image" /\ Embeddings.shelf = "embeddings" /\ Speech.shelf = "speech"
      /\ Transcriptions.shelf = "transcription" /\ Realtime.shelf = "transcription"
      /\ Decisions.shelf = "decision"
  BY DEF Endpoint, ChatCompletions, Responses, Images, Embeddings, Speech, Transcriptions,
         Decisions, Realtime
<1>3. QED
  BY <1>1, <1>2 DEF Shelves

LEMMA MemoryKeyTyped ==
    ASSUME NEW k \in Keys, NEW q \in Questions, NEW d \in Documents
    PROVE  MemoryKey(k, q, d) \in MemoryKeys
BY DEF MemoryKeys

LEMMA IdleIsCall == Idle \in CallType /\ Idle.at = "idle" /\ Idle.document = None /\ Idle.kept = FALSE
<1>1. <<>> \in Seq(Models)
  BY EmptySeq
<1>2. QED
  BY <1>1 DEF Idle, CallType

LEMMA OverIsCall ==
    ASSUME NEW r \in CallType, NEW how \in {"refused", "failed", "ok"}
    PROVE  /\ Over(r, how) \in CallType
           /\ Over(r, how).at = how /\ Over(r, how).end = r.end
           /\ Over(r, how).answered = r.answered /\ Over(r, how).kept = r.kept
BY IdleIsCall DEF Over, CallType

LEMMA ServingIsCall ==
    ASSUME NEW r \in CallType, NEW ids \in Seq(Models)
    PROVE  /\ Serving(r, ids) \in CallType
           /\ Serving(r, ids) = [r EXCEPT !.at = "serving", !.walk = ids]
BY DEF Serving, CallType

\* What the body of the use case does up to its first await.
LEMMA BegunFacts ==
    ASSUME ApiTypes, NEW r \in CallType, UnderWay(r), r.document = None
    PROVE  LET b == Begun(r)
               d == doc[r.key]
           IN  /\ b \in CallType /\ b.at \in {"asking", "serving"} /\ UnderWay(b)
               /\ b.kept = r.kept /\ b.key = r.key /\ b.question = r.question /\ b.answered = r.answered
               /\ b.at = "asking" =>
                     /\ b.document = d /\ ~Recalls(r)
                     /\ memory[MemoryKey(r.key, r.question, d)] = None
               /\ b.at = "serving" /\ b.document # None =>
                     /\ ToSet(b.walk) = ToSet(b.document.text)
                     /\ Len(b.walk) = Len(b.document.text)
<1> DEFINE b == Begun(r)
           d == doc[r.key]
           mk == MemoryKey(r.key, r.question, d)
           tiers == SelectionTiers(d, ChoiceOf(r.key))
<1>1. d \in Documents /\ r.end.shelf \in Shelves \cup {"text"} /\ r.model \in Models \cup {VcrAuto}
  BY EndpointFacts DEF ApiTypes, UnderWay
<1>2. d.text \in Seq(Models) /\ \A s \in Shelves : d.shelf[s] \in Seq(Models)
  BY <1>1, DocumentFacts
<1>3. memory[mk] \in TierSet \cup {None}
  BY <1>1, MemoryKeyTyped DEF ApiTypes, UnderWay
<1> DEFINE rd == [r EXCEPT !.document = d]
<1>4. /\ rd \in CallType /\ rd.document = d /\ rd.kept = r.kept /\ rd.key = r.key
      /\ rd.question = r.question /\ rd.answered = r.answered /\ UnderWay(rd)
  BY <1>1 DEF CallType, UnderWay
<1> HIDE DEF d, mk, tiers, rd
<1>5. CASE r.model # VcrAuto
  <2>1. <<r.model>> \in Seq(Models)
    BY <1>1, <1>5
  <2>2. b = Serving(r, <<r.model>>)
    BY <1>5 DEF Begun, d
  <2>3. b \in CallType /\ b = [r EXCEPT !.at = "serving", !.walk = <<r.model>>]
    BY <2>1, <2>2, ServingIsCall
  <2>4. QED
    BY <2>3 DEF CallType, UnderWay
<1>6. CASE r.model = VcrAuto /\ r.end.shelf # "text"
  <2> DEFINE ids == d.shelf[r.end.shelf]
  <2>1. ids \in Seq(Models)
    BY <1>1, <1>2, <1>6
  <2>2. b = Serving(r, ids)
    BY <1>6 DEF Begun, d
  <2> HIDE DEF ids, b
  <2>3. b \in CallType /\ b = [r EXCEPT !.at = "serving", !.walk = ids]
    BY <2>1, <2>2, ServingIsCall
  <2>4. QED
    BY <2>3 DEF CallType, UnderWay, b
<1>7. CASE r.model = VcrAuto /\ r.end.shelf = "text" /\ (tiers = {} \/ memory[mk] # None)
  <2> DEFINE ids == IF tiers = {} THEN d.text ELSE TierOrderedWalk(d, memory[mk])
  <2>1. ids \in Seq(Models) /\ ToSet(ids) = ToSet(d.text) /\ Len(ids) = Len(d.text)
    BY <1>1, <1>2, <1>3, <1>7, WalkIsShelf
  <2>2. b = Serving(rd, ids)
    BY <1>7 DEF Begun, d, tiers, mk, rd
  <2> HIDE DEF ids, b
  <2>3. b \in CallType /\ b = [rd EXCEPT !.at = "serving", !.walk = ids]
    BY <1>4, <2>1, <2>2, ServingIsCall
  <2>4. QED
    BY <1>4, <2>1, <2>3 DEF CallType, UnderWay, b
<1>8. CASE r.model = VcrAuto /\ r.end.shelf = "text" /\ tiers # {} /\ memory[mk] = None
  <2>1. b = [rd EXCEPT !.at = "asking"]
    BY <1>8 DEF Begun, d, tiers, mk, rd, CallType
  <2>2. ~Recalls(r)
    BY <1>8 DEF Recalls, mk, d
  <2> HIDE DEF b
  <2>3. b \in CallType
    BY <1>4, <2>1 DEF CallType
  <2>4. QED
    BY <1>4, <1>8, <2>1, <2>2, <2>3 DEF CallType, UnderWay, b, d, mk
<1>9. QED
  BY <1>5, <1>6, <1>7, <1>8

-----------------------------------------------------------------------------
(* The steps of a call                                                     *)

\* A request that may go on: it holds a key that lives unless it lapsed meanwhile.
Fit(r) == r \in CallType /\ UnderWay(r) /\ r.document = None /\ (r.kept => key[r.key] = "live")

LEMMA NoneIsNoStatus == None # "ok" /\ None # "rejected"
BY ApiAssumption

\* A step of one call leaves the others as they are.
LEMMA OtherCalls ==
    ASSUME NEW d \in Calls, CallSound(d), RowsSound(d), UNCHANGED key,
           call'[d] = call[d], usage'[d] = usage[d], log'[d] = log[d]
    PROVE  CallSound(d)' /\ RowsSound(d)'
BY DEF CallSound, RowsSound, NoRows

\* A call without rows that goes on, or ends without rows.
LEMMA WithoutRows ==
    ASSUME NEW c \in Calls, NoRows(c)', call'[c].at # "ok" \/ call'[c].end.logged = "never"
    PROVE  RowsSound(c)'
BY NoneIsNoStatus DEF NoRows, RowsSound

\* Fewer calls that ask never disturb the memory.
LEMMA SameMemory ==
    ASSUME MemorySound, UNCHANGED <<memory, asked, excused>>,
           \A mk \in MemoryKeys : Asking(mk)' \subseteq Asking(mk)
    PROVE  MemorySound'
BY DEF MemorySound

LEMMA OneCallMoves ==
    ASSUME NEW c \in Calls, ApiTypes, call' = [call EXCEPT ![c] = call'[c]]
    PROVE  /\ \A d \in Calls : d # c => call'[d] = call[d]
           /\ \A mk : Asking(mk)' \subseteq Asking(mk) \cup {c}
           /\ call'[c].at # "asking" => \A mk : Asking(mk)' \subseteq Asking(mk)
           /\ \A mk : c \in Asking(mk)' =>
                 mk = MemoryKey(call'[c].key, call'[c].question, call'[c].document)
BY DEF ApiTypes, Asking

LEMMA StartsInv ==
    ASSUME ApiInv, NEW c \in Calls, NEW r, Fit(r), call[c].at \in {"idle", "opening"},
           Starts(c, r), UNCHANGED <<settings, memory, rows>>
    PROVE  ApiInv'
<1> DEFINE b == Begun(r)
           d == doc[r.key]
           mk == MemoryKey(r.key, r.question, d)
<1>0. ApiTypes
  BY DEF ApiInv
<1>1. /\ b \in CallType /\ b.at \in {"asking", "serving"} /\ UnderWay(b)
      /\ b.kept = r.kept /\ b.key = r.key /\ b.question = r.question
      /\ b.at = "asking" => b.document = d /\ ~Recalls(r) /\ memory[mk] = None
      /\ b.at = "serving" /\ b.document # None =>
            /\ ToSet(b.walk) = ToSet(b.document.text)
            /\ Len(b.walk) = Len(b.document.text)
  BY <1>0, BegunFacts DEF Fit
<1>2. d \in Documents /\ mk \in MemoryKeys
  BY <1>0, MemoryKeyTyped DEF ApiTypes, Fit, UnderWay
<1>3. /\ call' = [call EXCEPT ![c] = b]
      /\ asked' = IF Recalls(r) THEN [asked EXCEPT ![mk] = @ \cup {memory[mk]}] ELSE asked
      /\ excused' = IF b.at = "asking" /\ Asking(mk) # {} THEN excused \cup {mk} ELSE excused
  BY DEF Starts, Uses
<1>4. Recalls(r) => memory[mk] # None
  BY DEF Recalls
<1>r. UNCHANGED <<key, doc, choice, logging, edits, memory, usage, log, faults>>
  BY DEF settings, rows
<1> HIDE DEF b, d, mk
<1>5. ApiTypes'
  <2>1. call' \in [Calls -> CallType]
    BY <1>0, <1>1, <1>3 DEF ApiTypes
  <2>2. asked' \in [MemoryKeys -> SUBSET TierSet]
    <3>1. Recalls(r) => memory[mk] \in TierSet
      BY <1>0, <1>2, <1>4 DEF ApiTypes
    <3>2. QED
      BY <1>0, <1>3, <3>1 DEF ApiTypes
  <2>3. excused' \in SUBSET MemoryKeys
    BY <1>0, <1>2, <1>3 DEF ApiTypes
  <2>4. QED
    BY <1>0, <1>r, <2>1, <2>2, <2>3 DEF ApiTypes
<1>6. call'[c] = b /\ call' = [call EXCEPT ![c] = call'[c]]
  BY <1>0, <1>3 DEF ApiTypes
<1>7. NoRows(c) /\ c \notin Asking(mk)
  BY DEF ApiInv, CallSound, Asking
<1>8. ASSUME NEW e \in Calls
      PROVE  CallSound(e)' /\ RowsSound(e)'
  <2>1. CASE e # c
    BY <1>0, <1>6, <1>r, <2>1, OneCallMoves, OtherCalls DEF ApiInv
  <2>2. CASE e = c
    <3>1. NoRows(c)'
      BY <1>7, <1>r DEF NoRows
    <3>2. CallSound(c)'
      BY <1>1, <1>2, <1>6, <1>r, <3>1 DEF CallSound, Fit
    <3>3. QED
      BY <1>1, <1>6, <2>2, <3>1, <3>2, WithoutRows
  <2>3. QED
    BY <2>1, <2>2
<1>9. MemorySound'
  <2>0. MemorySound
    BY DEF ApiInv
  <2>1. CASE b.at = "serving"
    <3>1. \A k \in MemoryKeys : Asking(k)' \subseteq Asking(k)
      BY <1>0, <1>6, <2>1, OneCallMoves
    <3>2. excused' = excused
      BY <1>3, <2>1
    <3>3. ASSUME NEW k \in MemoryKeys
          PROVE  /\ memory'[k] = None => asked'[k] = {}
                 /\ k \notin excused' => asked'[k] \subseteq {memory'[k]}
      BY <1>0, <1>3, <1>4, <1>r, <2>0, <3>2, <3>3 DEF MemorySound, ApiTypes
    <3>4. QED
      BY <1>r, <2>0, <3>1, <3>2, <3>3 DEF MemorySound
  <2>2. CASE b.at = "asking"
    <3>1. asked' = asked /\ memory[mk] = None /\ b.document = d
      BY <1>1, <1>3, <2>2
    <3>2. \A k \in MemoryKeys : Asking(k)' \subseteq Asking(k) \cup {c}
      BY <1>0, <1>6, OneCallMoves
    <3>3. \A k \in MemoryKeys : c \in Asking(k)' => k = mk
      BY <1>0, <1>1, <1>6, <3>1, OneCallMoves DEF mk
    <3>4. Asking(mk) # {} => mk \in excused'
      BY <1>3, <2>2
    <3>5. ASSUME NEW k \in MemoryKeys, k # mk
          PROVE  Asking(k)' \subseteq Asking(k) /\ (k \in excused' <=> k \in excused)
      BY <1>3, <3>2, <3>3, <3>5
    <3>6. ASSUME NEW k \in MemoryKeys
          PROVE  /\ memory'[k] = None => asked'[k] = {}
                 /\ k \notin excused' =>
                       /\ asked'[k] \subseteq {memory'[k]}
                       /\ Asking(k)' # {} => memory'[k] = None
                       /\ \A x, y \in Asking(k)' : x = y
      <4>1. CASE k # mk
        BY <1>r, <2>0, <3>1, <3>5, <4>1 DEF MemorySound
      <4>2. CASE k = mk
        <5>1. k \notin excused' => Asking(k) = {}
          BY <3>4, <4>2
        <5>2. Asking(k)' \subseteq Asking(k) \cup {c}
          BY <3>2
        <5>3. k \notin excused' => \A x, y \in Asking(k)' : x = y
          BY <5>1, <5>2
        <5>4. asked'[k] = {} /\ memory'[k] = None
          BY <1>2, <1>r, <2>0, <3>1, <4>2 DEF MemorySound
        <5>5. QED
          BY <5>3, <5>4
      <4>3. QED
        BY <4>1, <4>2
    <3>7. QED
      BY <3>6 DEF MemorySound
  <2>3. QED
    BY <1>1, <2>1, <2>2
<1>10. QED
  BY <1>5, <1>8, <1>9 DEF ApiInv

\* A call moves on or ends without touching what vcr-auto remembers.
LEMMA CallMoves ==
    ASSUME ApiInv, NEW c \in Calls, NEW r \in CallType, r.at # "asking",
           call' = [call EXCEPT ![c] = r], UNCHANGED <<settings, memory, asked, excused>>,
           usage' \in [Calls -> Seq(Models)], log' \in [Calls -> {None, "ok", "rejected"}],
           faults' \in 0 .. MaxFaults,
           \A e \in Calls : e # c => usage'[e] = usage[e] /\ log'[e] = log[e],
           CallSound(c)', RowsSound(c)'
    PROVE  ApiInv'
<1>1. ApiTypes /\ UNCHANGED <<key, doc, choice, logging, edits>>
  BY DEF ApiInv, settings
<1>2. call'[c] = r /\ call' = [call EXCEPT ![c] = call'[c]]
  BY <1>1 DEF ApiTypes
<1>3. ApiTypes'
  BY <1>1 DEF ApiTypes
<1>4. ASSUME NEW e \in Calls PROVE CallSound(e)' /\ RowsSound(e)'
  BY <1>1, <1>2, OneCallMoves, OtherCalls DEF ApiInv
<1>5. MemorySound'
  <2>1. \A mk \in MemoryKeys : Asking(mk)' \subseteq Asking(mk)
    BY <1>1, <1>2, OneCallMoves
  <2>2. QED
    BY <2>1, SameMemory DEF ApiInv
<1>6. QED
  BY <1>3, <1>4, <1>5 DEF ApiInv

LEMMA RefusesInv ==
    ASSUME ApiInv, NEW c \in Calls, NEW r \in CallType, NoRows(c),
           Refuses(c, r), UNCHANGED <<settings, memory, rows>>
    PROVE  ApiInv'
<1> DEFINE o == Over(r, "refused")
<1>1. o \in CallType /\ o.at = "refused"
  BY OverIsCall
<1>2. call' = [call EXCEPT ![c] = o] /\ UNCHANGED <<settings, memory, asked, excused, usage, log, faults>>
  BY DEF Refuses, rows
<1> HIDE DEF o
<1>3. ApiTypes
  BY DEF ApiInv
<1>4. call'[c] = o
  BY <1>2, <1>3 DEF ApiTypes
<1>5. CallSound(c)'
  BY <1>1, <1>4 DEF CallSound
<1>6. RowsSound(c)'
  <2>1. NoRows(c)'
    BY <1>2 DEF NoRows
  <2>2. QED
    BY <1>1, <1>4, <2>1, WithoutRows
<1>7. QED
  BY <1>1, <1>2, <1>3, <1>5, <1>6, CallMoves DEF ApiTypes

LEMMA WaitsInv ==
    ASSUME ApiInv, NEW c \in Calls, NEW r, Fit(r), NoRows(c),
           Waits(c, r), UNCHANGED <<settings, memory, rows>>
    PROVE  ApiInv'
<1> DEFINE o == [r EXCEPT !.at = "opening"]
<1>1. /\ o \in CallType /\ o.at = "opening" /\ o.kept = r.kept /\ o.key = r.key
      /\ o.document = None /\ UnderWay(o)
  BY DEF Fit, CallType, UnderWay
<1>2. call' = [call EXCEPT ![c] = o] /\ UNCHANGED <<settings, memory, asked, excused, usage, log, faults>>
  BY DEF Waits, rows
<1>3. ApiTypes /\ UNCHANGED key
  BY <1>2 DEF ApiInv, settings
<1> HIDE DEF o
<1>4. call'[c] = o
  BY <1>2, <1>3 DEF ApiTypes
<1>5. NoRows(c)'
  BY <1>2 DEF NoRows
<1>6. CallSound(c)'
  BY <1>1, <1>3, <1>4, <1>5 DEF CallSound, Fit
<1>7. RowsSound(c)'
  BY <1>1, <1>4, <1>5, WithoutRows
<1>8. QED
  BY <1>1, <1>2, <1>3, <1>6, <1>7, CallMoves DEF ApiTypes

LEMMA ArriveInv ==
    ASSUME ApiInv, NEW c \in Calls, NEW k \in Keys, NEW e \in Endpoints, NEW stream \in BOOLEAN,
           NEW m \in Models \cup {VcrAuto}, NEW q \in Questions, Arrive(c, k, e, stream, m, q)
    PROVE  ApiInv'
<1> DEFINE r == [Idle EXCEPT !.key = k, !.end = e, !.stream = stream, !.model = m,
                             !.question = q, !.kept = TRUE]
           refused == key[k] # "live" \/ ((~stream \/ "route" \in e.checks) /\ ~Allowed(k, e.shelf, m))
<1>1. /\ call[c].at = "idle" /\ UNCHANGED <<settings, memory, rows>>
      /\ IF refused THEN Refuses(c, r) ELSE IF stream THEN Waits(c, r) ELSE Starts(c, r)
  BY DEF Arrive
<1>2. r \in CallType /\ UnderWay(r) /\ r.document = None /\ r.key = k
  BY IdleIsCall DEF CallType, UnderWay
<1>3. NoRows(c)
  BY <1>1 DEF ApiInv, CallSound
<1>4. ~refused => key[r.key] = "live"
  BY <1>2
<1> HIDE DEF r, refused
<1>5. CASE refused
  BY <1>1, <1>2, <1>3, <1>5, RefusesInv
<1>6. CASE ~refused /\ stream
  BY <1>1, <1>2, <1>3, <1>4, <1>6, WaitsInv DEF Fit
<1>7. CASE ~refused /\ ~stream
  BY <1>1, <1>2, <1>4, <1>7, StartsInv DEF Fit
<1>8. QED
  BY <1>5, <1>6, <1>7

LEMMA OpenInv ==
    ASSUME ApiInv, NEW c \in Calls, Open(c)
    PROVE  ApiInv'
<1>1. call[c].at = "opening" /\ UNCHANGED <<settings, memory, rows>>
  BY DEF Open
<1>2. call[c] \in CallType /\ NoRows(c) /\ Fit(call[c])
  BY <1>1 DEF ApiInv, ApiTypes, CallSound, Fit
<1>3. Refuses(c, call[c]) \/ Starts(c, call[c])
  BY DEF Open
<1>4. QED
  BY <1>1, <1>2, <1>3, RefusesInv, StartsInv

\* The selector's answer is remembered for a key nobody else asks for, unless it
\* is excused.
LEMMA SelectedInv ==
    ASSUME ApiInv, NEW c \in Calls, Selected(c)
    PROVE  ApiInv'
<1> DEFINE r == call[c]
           d == r.document
           mk == MemoryKey(r.key, r.question, d)
           tiers == SelectionTiers(d, "automatic")
<1>0. ApiTypes /\ MemorySound /\ CallSound(c) /\ r.at = "asking"
  BY DEF ApiInv, Selected
<1>1. r \in CallType /\ UnderWay(r) /\ NoRows(c) /\ d \in Documents /\ (r.kept => key[r.key] = "live")
  BY <1>0 DEF CallSound, ApiTypes
<1>2. mk \in MemoryKeys /\ c \in Asking(mk)
  BY <1>0, <1>1, MemoryKeyTyped DEF UnderWay, Asking
<1>3. UNCHANGED <<key, doc, choice, logging, edits, usage, log, faults, excused>>
  BY DEF Selected, settings, rows
<1>4. PICK plausible \in SUBSET tiers, own \in tiers \cup {None} :
        LET t == StrongestPlausible(tiers, plausible, own)
        IN  /\ memory' = Remembers(mk, t)
            /\ call' = [call EXCEPT ![c] = Serving(r, IF t = None THEN d.text ELSE TierOrderedWalk(d, t))]
            /\ IF t = None THEN asked' = asked ELSE Uses(c, t, mk)
  BY DEF Selected
<1> DEFINE t == StrongestPlausible(tiers, plausible, own)
           ids == IF t = None THEN d.text ELSE TierOrderedWalk(d, t)
           b == Serving(r, ids)
<1>5. t \in TierSet \cup {None}
  BY <1>1, SelectionTiersAreTiers, StrongestIsTier
<1>6. /\ memory' = IF t = None THEN memory ELSE [memory EXCEPT ![mk] = t]
      /\ call' = [call EXCEPT ![c] = b]
      /\ asked' = IF t = None THEN asked ELSE [asked EXCEPT ![mk] = @ \cup {t}]
  BY <1>4 DEF Remembers, Uses
<1> HIDE DEF t
<1>7. ids \in Seq(Models) /\ ToSet(ids) = ToSet(d.text) /\ Len(ids) = Len(d.text)
  BY <1>1, <1>5, DocumentFacts, WalkIsShelf
<1> HIDE DEF ids
<1>8. /\ b \in CallType /\ b.at = "serving" /\ UnderWay(b) /\ b.kept = r.kept /\ b.key = r.key
      /\ b.document = d /\ b.walk = ids
  <2> HIDE DEF r
  <2>1. b \in CallType /\ b = [r EXCEPT !.at = "serving", !.walk = ids]
    BY <1>1, <1>7, ServingIsCall
  <2> HIDE DEF b
  <2>2. QED
    BY <1>1, <2>1 DEF CallType, UnderWay
<1>9. call'[c] = b /\ call' = [call EXCEPT ![c] = call'[c]]
  BY <1>0, <1>6 DEF ApiTypes
<1> HIDE DEF b
<1>10. ApiTypes'
  <2>1. memory' \in [MemoryKeys -> TierSet \cup {None}] /\ asked' \in [MemoryKeys -> SUBSET TierSet]
    BY <1>0, <1>2, <1>5, <1>6 DEF ApiTypes
  <2>2. call' \in [Calls -> CallType]
    BY <1>0, <1>6, <1>8 DEF ApiTypes
  <2>3. QED
    BY <1>0, <1>3, <2>1, <2>2 DEF ApiTypes
<1>11. ASSUME NEW e \in Calls PROVE CallSound(e)' /\ RowsSound(e)'
  <2>1. CASE e # c
    BY <1>0, <1>3, <1>9, <2>1, OneCallMoves, OtherCalls DEF ApiInv
  <2>2. CASE e = c
    <3>1. NoRows(c)'
      BY <1>1, <1>3 DEF NoRows
    <3>2. CallSound(c)'
      BY <1>1, <1>3, <1>7, <1>8, <1>9, <3>1 DEF CallSound
    <3>3. RowsSound(c)'
      BY <1>8, <1>9, <3>1, WithoutRows
    <3>4. QED
      BY <2>2, <3>2, <3>3
  <2>3. QED
    BY <2>1, <2>2
<1>12. MemorySound'
  <2>1. \A k \in MemoryKeys : Asking(k)' \subseteq Asking(k)
    BY <1>0, <1>8, <1>9, OneCallMoves
  <2>2. \A k \in MemoryKeys : c \notin Asking(k)'
    BY <1>8, <1>9 DEF Asking
  <2>3. ASSUME NEW k \in MemoryKeys
        PROVE  /\ memory'[k] = None => asked'[k] = {}
               /\ k \notin excused' =>
                     /\ asked'[k] \subseteq {memory'[k]}
                     /\ Asking(k)' # {} => memory'[k] = None
                     /\ \A x, y \in Asking(k)' : x = y
    <3>1. CASE k # mk \/ t = None
      <4>1. memory'[k] = memory[k] /\ asked'[k] = asked[k]
        BY <1>0, <1>6, <3>1 DEF ApiTypes
      <4>2. QED
        BY <1>0, <1>3, <2>1, <4>1 DEF MemorySound
    <3>2. CASE k = mk /\ t # None
      <4>1. memory'[k] = t /\ asked'[k] = asked[k] \cup {t}
        BY <1>0, <1>2, <1>6, <3>2 DEF ApiTypes
      <4>2. k \notin excused' => Asking(k) = {c} /\ asked[k] = {}
        BY <1>0, <1>2, <1>3, <3>2 DEF MemorySound
      <4>3. k \notin excused' => Asking(k)' = {}
        BY <2>1, <4>2, <1>8, <1>9 DEF Asking
      <4>4. QED
        BY <3>2, <4>1, <4>2, <4>3
    <3>3. QED
      BY <3>1, <3>2
  <2>4. QED
    BY <2>3 DEF MemorySound
<1>13. QED
  BY <1>10, <1>11, <1>12 DEF ApiInv

-----------------------------------------------------------------------------
(* The rows of a call                                                      *)

LEMMA SettlesInv ==
    ASSUME ApiInv, NEW c \in Calls, call[c].at = "serving", NEW m \in Models,
           NEW how \in {"ok", "failed"}, Settles(c, m, how), UNCHANGED <<settings, memory, asked, excused>>
    PROVE  ApiInv'
<1> DEFINE k == call[c].key
           a == [call[c] EXCEPT !.answered = m]
           live == key[k] = "live"
           tally == IF live THEN [usage EXCEPT ![c] = Append(@, m)] ELSE usage
           marked == IF LogsPrompt(k) THEN [log EXCEPT ![c] = IF live THEN "ok" ELSE "rejected"] ELSE log
<1>0. ApiTypes /\ UNCHANGED key
  BY DEF ApiInv, settings
<1>1. call[c] \in CallType /\ NoRows(c) /\ (call[c].kept => live)
  BY <1>0 DEF ApiInv, CallSound, ApiTypes
<1>2. a \in CallType /\ a.answered = m /\ a.kept = call[c].kept /\ a.key = k
  BY <1>1 DEF CallType
<1>3. PICK w \in Writes(c, a.key, m) :
        /\ usage' = w.usage /\ log' = w.log
        /\ faults' = IF w.failed THEN faults + 1 ELSE faults
        /\ call' = [call EXCEPT ![c] = Over(a, IF w.failed THEN "failed" ELSE how)]
  BY DEF Settles
<1> DEFINE o == Over(a, IF w.failed THEN "failed" ELSE how)
<1>4. \/ w.usage = tally /\ w.log = marked /\ w.failed = FALSE
      \/ w.usage \in {tally, usage} /\ w.log = log /\ w.failed = TRUE /\ faults < MaxFaults
  <2>1. w \in Writes(c, k, m)
    BY <1>2, <1>3
  <2>2. \/ w = Writing(tally, marked, FALSE)
        \/ \E u \in {tally, usage} : w = Writing(u, log, TRUE) /\ faults < MaxFaults
    <3> HIDE DEF k
    <3>1. CASE live
      BY <2>1, <3>1 DEF Writes, Counted, Logged, MayFail
    <3>2. CASE ~live
      BY <2>1, <3>2 DEF Writes, Logged, MayFail
    <3>3. QED
      BY <3>1, <3>2
  <2> HIDE DEF tally, marked
  <2>3. QED
    BY <2>2 DEF Writing
<1>5. /\ o \in CallType /\ o.at = (IF w.failed THEN "failed" ELSE how)
      /\ o.answered = m /\ o.kept = call[c].kept
  <2> DEFINE end == IF w.failed THEN "failed" ELSE how
  <2>1. end \in {"refused", "failed", "ok"}
    BY <1>4
  <2> HIDE DEF a, end
  <2>2. /\ Over(a, end) \in CallType /\ Over(a, end).at = end
        /\ Over(a, end).answered = a.answered /\ Over(a, end).kept = a.kept
    BY <1>2, <2>1, OverIsCall
  <2>3. QED
    BY <1>2, <2>2 DEF end
<1> HIDE DEF a, o
<1>6. call' = [call EXCEPT ![c] = o] /\ call'[c] = o
  BY <1>0, <1>3 DEF ApiTypes, o
<1>7. usage[c] = <<>> /\ log[c] = None
  BY <1>1 DEF NoRows
<1>8. /\ tally \in [Calls -> Seq(Models)] /\ tally[c] = (IF live THEN <<m>> ELSE <<>>)
      /\ \A e \in Calls : e # c => tally[e] = usage[e]
  <2>1. Append(usage[c], m) = <<m>> /\ <<m>> \in Seq(Models)
    BY <1>7
  <2>2. QED
    BY <1>0, <1>7, <2>1 DEF ApiTypes
<1>9. /\ marked \in [Calls -> {None, "ok", "rejected"}]
      /\ marked[c] \in (IF live THEN {None, "ok"} ELSE {None, "rejected"})
      /\ \A e \in Calls : e # c => marked[e] = log[e]
  BY <1>0, <1>7 DEF ApiTypes
<1> HIDE DEF tally, marked
<1>10. /\ usage' \in [Calls -> Seq(Models)] /\ log' \in [Calls -> {None, "ok", "rejected"}]
       /\ \A e \in Calls : e # c => usage'[e] = usage[e] /\ log'[e] = log[e]
  BY <1>0, <1>3, <1>4, <1>8, <1>9 DEF ApiTypes
<1>11. faults' \in 0 .. MaxFaults
  BY <1>0, <1>3, <1>4, ApiAssumption DEF ApiTypes
<1>12. CallSound(c)'
  BY <1>5, <1>6 DEF CallSound
<1>13. RowsSound(c)'
  <2>1. CASE w.failed = FALSE
    <3>1. usage'[c] = (IF live THEN <<m>> ELSE <<>>)
      BY <1>3, <1>4, <1>8, <2>1
    <3>2. log'[c] \in (IF live THEN {None, "ok"} ELSE {None, "rejected"})
      BY <1>3, <1>4, <1>9, <2>1
    <3>3. <<m>> # <<>>
      OBVIOUS
    <3>4. QED
      BY <1>1, <1>5, <1>6, <3>1, <3>2, <3>3, NoneIsNoStatus DEF RowsSound
  <2>2. CASE w.failed = TRUE
    <3>1. usage'[c] \in {<<>>, <<m>>} /\ log'[c] = None /\ o.at = "failed"
      BY <1>3, <1>4, <1>5, <1>7, <1>8, <2>2
    <3>2. QED
      BY <1>5, <1>6, <3>1, NoneIsNoStatus DEF RowsSound
  <2>3. QED
    BY <1>4, <2>1, <2>2
<1>14. QED
  BY <1>5, <1>6, <1>10, <1>11, <1>12, <1>13, CallMoves

LEMMA WalkedAreModels ==
    ASSUME ApiInv, NEW c \in Calls, NEW m \in ToSet(call[c].walk)
    PROVE  m \in Models
<1>1. call[c].walk \in Seq(Models)
  BY DEF ApiInv, ApiTypes, CallType
<1>2. QED
  BY <1>1, LenProperties, ElementOfSeq DEF ToSet

\* A call that ends without rows.
LEMMA EndsInv ==
    ASSUME ApiInv, NEW c \in Calls, call[c].at \in {"opening", "asking", "serving"},
           NEW r \in CallType, NEW how \in {"failed", "ok"},
           how # "ok" \/ r.end.logged = "never",
           call' = [call EXCEPT ![c] = Over(r, how)], UNCHANGED <<settings, memory, rows, asked, excused>>
    PROVE  ApiInv'
<1> DEFINE o == Over(r, how)
<1>1. o \in CallType /\ o.at = how /\ o.end = r.end
  BY OverIsCall
<1> HIDE DEF o
<1>2. ApiTypes /\ call' = [call EXCEPT ![c] = o] /\ UNCHANGED <<settings, memory, asked, excused, usage, log, faults>>
  BY DEF ApiInv, o, rows
<1>3. call'[c] = o
  BY <1>2 DEF ApiTypes
<1>4. NoRows(c)'
  BY <1>2 DEF ApiInv, CallSound, NoRows
<1>5. CallSound(c)' /\ RowsSound(c)'
  BY <1>1, <1>3, <1>4, WithoutRows DEF CallSound
<1>6. QED
  BY <1>1, <1>2, <1>5, CallMoves DEF ApiTypes

LEMMA DecidesInv ==
    ASSUME ApiInv, NEW c \in Calls, NEW m \in Models, Decides(c, m)
    PROVE  ApiInv'
<1> DEFINE r == [call[c] EXCEPT !.answered = m]
<1>1. call[c] \in CallType
  BY DEF ApiInv, ApiTypes
<1>2. r \in CallType /\ r.end = call[c].end
  BY <1>1 DEF CallType
<1> HIDE DEF r
<1>3. /\ call[c].at = "serving" /\ call[c].end.logged = "never"
      /\ call' = [call EXCEPT ![c] = Over(r, "ok")] /\ UNCHANGED <<settings, memory, rows, asked, excused>>
  BY DEF Decides, r
<1>4. QED
  BY <1>2, <1>3, EndsInv

LEMMA FailsInv ==
    ASSUME ApiInv, NEW c \in Calls, Fails(c)
    PROVE  ApiInv'
<1>1. call[c] \in CallType
  BY DEF ApiInv, ApiTypes
<1>2. QED
  BY <1>1, EndsInv DEF Fails

LEMMA CallStepInv ==
    ASSUME ApiInv, NEW c \in Calls, CallStep(c)
    PROVE  ApiInv'
<1>1. ASSUME NEW k \in Keys, NEW e \in Endpoints, NEW stream \in BOOLEAN,
             NEW m \in Models \cup {VcrAuto}, NEW q \in Questions, Arrive(c, k, e, stream, m, q)
      PROVE  ApiInv'
  BY <1>1, ArriveInv
<1>2. CASE Open(c)
  BY <1>2, OpenInv
<1>3. CASE Selected(c)
  BY <1>3, SelectedInv
<1>4. ASSUME NEW m \in Models, Answers(c, m)
      PROVE  ApiInv'
  BY <1>4, SettlesInv DEF Answers
<1>5. ASSUME NEW m \in Models, Decides(c, m)
      PROVE  ApiInv'
  BY <1>5, DecidesInv
<1>6. ASSUME NEW m \in Models, SocketEnds(c, m)
      PROVE  ApiInv'
  BY <1>6, SettlesInv DEF SocketEnds
<1>7. CASE Fails(c)
  BY <1>7, FailsInv
<1>8. QED
  BY <1>1, <1>2, <1>3, <1>4, <1>5, <1>6, <1>7 DEF CallStep

-----------------------------------------------------------------------------
(* What teachers and the clock change                                      *)

\* No setting touches a call: a key that lives goes on living.
LEMMA SettingsMove ==
    ASSUME ApiInv, ApiTypes', UNCHANGED <<memory, usage, log, asked, excused, call>>,
           \A k \in Keys : key[k] = "live" => key'[k] = "live"
    PROVE  ApiInv'
<1>1. ASSUME NEW c \in Calls PROVE CallSound(c)' /\ RowsSound(c)'
  BY DEF ApiInv, CallSound, RowsSound, NoRows, UnderWay
<1>2. MemorySound'
  BY DEF ApiInv, MemorySound, Asking
<1>3. QED
  BY <1>1, <1>2 DEF ApiInv

LEMMA KeyStartsInv ==
    ASSUME ApiInv, NEW k \in Keys, KeyStarts(k)
    PROVE  ApiInv'
<1>1. /\ key[k] = "early" /\ key' = [key EXCEPT ![k] = "live"] /\ edits < MaxEdits /\ edits' = edits + 1
      /\ UNCHANGED <<doc, choice, logging, call, memory, usage, log, faults, asked, excused>>
  BY DEF KeyStarts, Edits, rows
<1>2. ApiTypes'
  BY <1>1, ApiAssumption DEF ApiInv, ApiTypes
<1>3. \A j \in Keys : key[j] = "live" => key'[j] = "live"
  BY <1>1 DEF ApiInv, ApiTypes
<1>4. QED
  BY <1>1, <1>2, <1>3, SettingsMove

\* A call under way with the key that ends is no longer kept.
LEMMA KeyEndsInv ==
    ASSUME ApiInv, NEW k \in Keys, KeyEnds(k)
    PROVE  ApiInv'
<1>1. /\ key' = [key EXCEPT ![k] = "ended"] /\ edits < MaxEdits /\ edits' = edits + 1
      /\ call' = [c \in Calls |-> IF call[c].key = k THEN [call[c] EXCEPT !.kept = FALSE] ELSE call[c]]
      /\ UNCHANGED <<doc, choice, logging, memory, usage, log, faults, asked, excused>>
  BY DEF KeyEnds, Edits, rows
<1>2. ApiTypes
  BY DEF ApiInv
<1>3. ASSUME NEW c \in Calls
      PROVE  /\ call[c] \in CallType /\ call'[c] \in CallType
             /\ call'[c].at = call[c].at /\ call'[c].key = call[c].key /\ call'[c].end = call[c].end
             /\ call'[c].model = call[c].model /\ call'[c].question = call[c].question
             /\ call'[c].document = call[c].document /\ call'[c].walk = call[c].walk
             /\ call'[c].answered = call[c].answered
             /\ call'[c].kept => call[c].kept /\ call[c].key # k
  BY <1>1, <1>2 DEF ApiTypes, CallType
<1>4. ApiTypes'
  <2>1. call' \in [Calls -> CallType]
    BY <1>1, <1>3
  <2>2. QED
    BY <1>1, <1>2, <2>1, ApiAssumption DEF ApiTypes
<1>5. ASSUME NEW c \in Calls PROVE CallSound(c)' /\ RowsSound(c)'
  <2>1. CallSound(c) /\ RowsSound(c)
    BY DEF ApiInv
  <2>2. NoRows(c) => NoRows(c)'
    BY <1>1 DEF NoRows
  <2>3. UnderWay(call[c]) => UnderWay(call[c])'
    BY <1>3 DEF UnderWay
  <2>4. call[c].key \in Keys /\ call[c].key # k => key'[call[c].key] = key[call[c].key]
    BY <1>1, <1>2 DEF ApiTypes
  <2>5. CallSound(c)'
    BY <1>3, <2>1, <2>2, <2>3, <2>4 DEF CallSound, UnderWay
  <2>6. RowsSound(c)'
    BY <1>1, <1>3, <2>1 DEF RowsSound
  <2>7. QED
    BY <2>5, <2>6
<1>6. MemorySound'
  <2>1. \A mk \in MemoryKeys : Asking(mk)' \subseteq Asking(mk)
    BY <1>3 DEF Asking
  <2>2. QED
    BY <1>1, <2>1, SameMemory DEF ApiInv
<1>7. QED
  BY <1>4, <1>5, <1>6 DEF ApiInv

\* What is forgotten is remembered anew for the next call.
LEMMA ForgetsInv ==
    ASSUME ApiInv, NEW mk \in MemoryKeys, Forgets(mk)
    PROVE  ApiInv'
<1>1. /\ memory' = [memory EXCEPT ![mk] = None] /\ asked' = [asked EXCEPT ![mk] = {}]
      /\ excused' = IF Asking(mk) = {} THEN excused \ {mk} ELSE excused
      /\ UNCHANGED <<key, doc, choice, logging, edits, usage, log, faults, call>>
  BY DEF Forgets, settings, rows
<1>2. ApiTypes /\ MemorySound
  BY DEF ApiInv
<1>3. ApiTypes'
  BY <1>1, <1>2 DEF ApiTypes
<1>4. ASSUME NEW c \in Calls PROVE CallSound(c)' /\ RowsSound(c)'
  BY <1>1 DEF ApiInv, CallSound, RowsSound, NoRows
<1>5. \A k \in MemoryKeys : Asking(k)' = Asking(k)
  BY <1>1 DEF Asking
<1>6. ASSUME NEW k \in MemoryKeys
      PROVE  /\ memory'[k] = None => asked'[k] = {}
             /\ k \notin excused' =>
                   /\ asked'[k] \subseteq {memory'[k]}
                   /\ Asking(k)' # {} => memory'[k] = None
                   /\ \A x, y \in Asking(k)' : x = y
  <2>1. CASE k # mk
    <3>1. memory'[k] = memory[k] /\ asked'[k] = asked[k] /\ (k \in excused' <=> k \in excused)
      BY <1>1, <1>2, <2>1 DEF ApiTypes
    <3>2. QED
      BY <1>2, <1>5, <3>1 DEF MemorySound
  <2>2. CASE k = mk
    <3>1. memory'[k] = None /\ asked'[k] = {}
      BY <1>1, <1>2, <2>2 DEF ApiTypes
    <3>2. k \notin excused' => k \notin excused \/ Asking(k) = {}
      BY <1>1, <2>2
    <3>3. QED
      BY <1>2, <1>5, <3>1, <3>2 DEF MemorySound
  <2>3. QED
    BY <2>1, <2>2
<1>7. MemorySound'
  BY <1>6 DEF MemorySound
<1>8. QED
  BY <1>3, <1>4, <1>7 DEF ApiInv

LEMMA SettingsStepInv ==
    ASSUME ApiInv, SettingsStep
    PROVE  ApiInv'
<1>1. ASSUME NEW k \in Keys, KeyStarts(k) \/ KeyEnds(k)
      PROVE  ApiInv'
  BY <1>1, KeyStartsInv, KeyEndsInv
<1>2. ASSUME NEW k \in Keys, NEW d \in Documents, SaveDocument(k, d)
      PROVE  ApiInv'
  <2>1. /\ doc' = [doc EXCEPT ![k] = d] /\ edits < MaxEdits /\ edits' = edits + 1
        /\ UNCHANGED <<key, choice, logging, call, memory, usage, log, faults, asked, excused>>
    BY <1>2 DEF SaveDocument, Edits, rows
  <2>2. ApiTypes'
    BY <2>1, ApiAssumption DEF ApiInv, ApiTypes
  <2>3. QED
    BY <2>1, <2>2, SettingsMove
<1>3. ASSUME NEW ch \in {"automatic", "picked"}, SetChoice(ch)
      PROVE  ApiInv'
  <2>1. /\ choice' = ch /\ edits < MaxEdits /\ edits' = edits + 1
        /\ UNCHANGED <<key, doc, logging, call, memory, usage, log, faults, asked, excused>>
    BY <1>3 DEF SetChoice, Edits, rows
  <2>2. ApiTypes'
    BY <2>1, ApiAssumption DEF ApiInv, ApiTypes
  <2>3. QED
    BY <2>1, <2>2, SettingsMove
<1>4. CASE SetLogging
  <2>1. /\ logging' = ~logging /\ edits < MaxEdits /\ edits' = edits + 1
        /\ UNCHANGED <<key, doc, choice, call, memory, usage, log, faults, asked, excused>>
    BY <1>4 DEF SetLogging, Edits, rows
  <2>2. edits' \in 0 .. MaxEdits /\ logging' \in BOOLEAN
    BY <2>1, ApiAssumption DEF ApiInv, ApiTypes
  <2>3. ApiTypes'
    BY <2>1, <2>2 DEF ApiInv, ApiTypes
  <2>4. QED
    BY <2>1, <2>3, SettingsMove
<1>5. ASSUME NEW mk \in MemoryKeys, Forgets(mk)
      PROVE  ApiInv'
  BY <1>5, ForgetsInv
<1>6. QED
  BY <1>1, <1>2, <1>3, <1>4, <1>5 DEF SettingsStep

LEMMA ApiInvInit == ApiInit => ApiInv
<1> SUFFICES ASSUME ApiInit PROVE ApiInv
  OBVIOUS
<1>1. ApiTypes
  BY ApiAssumption, IdleIsCall DEF ApiInit, ApiTypes
<1>2. ASSUME NEW c \in Calls PROVE CallSound(c) /\ RowsSound(c)
  <2>1. call[c] = Idle /\ usage[c] = <<>> /\ log[c] = None
    BY DEF ApiInit
  <2>2. QED
    BY <2>1, IdleIsCall, NoneIsNoStatus DEF CallSound, RowsSound, NoRows
<1>3. \A mk \in MemoryKeys : Asking(mk) = {} /\ asked[mk] = {} /\ memory[mk] = None
  BY IdleIsCall DEF ApiInit, Asking
<1>4. MemorySound
  BY <1>3 DEF MemorySound
<1>5. QED
  BY <1>1, <1>2, <1>4 DEF ApiInv

LEMMA ApiInvStep == ApiInv /\ [ApiNext]_apiVars => ApiInv'
<1> SUFFICES ASSUME ApiInv, [ApiNext]_apiVars PROVE ApiInv'
  OBVIOUS
<1>1. CASE UNCHANGED apiVars
  <2>1. UNCHANGED <<key, doc, choice, logging, memory, call, usage, log, edits, faults, asked, excused>>
    BY <1>1 DEF apiVars
  <2>2. ApiTypes'
    BY <2>1 DEF ApiInv, ApiTypes
  <2>3. QED
    BY <2>1, <2>2, SettingsMove
<1>2. CASE ApiNext
  BY <1>2, CallStepInv, SettingsStepInv DEF ApiNext
<1>3. QED
  BY <1>1, <1>2

\* Every state of the calls satisfies the invariant.
THEOREM ApiInvHolds == ApiSpec => []ApiInv
BY ApiInvInit, ApiInvStep, PTL DEF ApiSpec

\* The types of the API calls (ApiCalls.ApiTypeOK), for any calls, keys and documents.
THEOREM ApiCallsTyped == ApiSpec => []ApiTypeOK
<1>1. ApiInv => ApiTypeOK
  BY DEF ApiInv, ApiTypes, ApiTypeOK, CallType
<1>2. QED
  BY <1>1, ApiInvHolds, PTL

\* A call leaves at most one Token Usage row, with the Model ID that answered; a
\* call answered in full with a key that stayed valid leaves it; the Prompt Log
\* agrees with it (_log_prompt), wherever the database fails or a key ends.
THEOREM CallsCountedIfKept == ApiSpec => []CountedIfKept
<1>1. ApiInv => CountedIfKept
  BY DEF ApiInv, RowsSound, CountedIfKept
<1>2. QED
  BY <1>1, ApiInvHolds, PTL

\* What a list names may be called: the list and the check of a call read the
\* same shelf and the same Classroom Model Choice.
LEMMA WhatIsListed ==
    ASSUME ApiTypes
    PROVE  ListedMayBeCalled
<1> SUFFICES ASSUME NEW k \in Keys, NEW s \in Shelves \cup {"text"}, Shelf(k, s) # {}
             PROVE  ListedTo(k, s) # {} /\ \A m \in ListedTo(k, s) : Allowed(k, s, m)
  BY DEF ListedMayBeCalled
<1>1. doc[k] \in Documents /\ choice \in {"automatic", "picked", None}
  BY DEF ApiTypes
<1>2. Shelf(k, s) \subseteq Models /\ VcrAuto \notin Models
  <2>1. \A i \in DOMAIN doc[k].text : doc[k].text[i] \in Models
    BY <1>1, DocumentFacts, LenProperties, ElementOfSeq
  <2>2. \A t \in Shelves : \A i \in DOMAIN doc[k].shelf[t] : doc[k].shelf[t][i] \in Models
    BY <1>1, DocumentFacts, LenProperties, ElementOfSeq
  <2>3. QED
    BY <2>1, <2>2, ApiAssumption DEF Shelf, ToSet
<1>3. s = "text" => Shelf(k, s) \cap Shelf(k, "decision") = {}
  <2>1. "decision" \in Shelves /\ "decision" # "text"
    BY DEF Shelves
  <2>2. QED
    BY <1>1, <2>1, DocumentFacts DEF OnOneShelf, Shelf
<1>4. CASE Held(k)
  BY <1>4 DEF ListedTo, Allowed, HolderMay
<1>5. CASE ~Held(k) /\ choice = "picked"
  <2>1. ListedTo(k, s) = Shelf(k, s)
    BY <1>5 DEF ListedTo
  <2>2. \A m \in Shelf(k, s) : ChoiceAccepts(m, Shelf(k, s))
    BY <1>5 DEF ChoiceAccepts
  <2>3. \A m \in Shelf(k, s) : s = "text" => TextAllowed(k, m)
    BY <1>2, <1>3, <2>2 DEF TextAllowed
  <2>4. \A m \in Shelf(k, s) : ShelfAllowed(k, s, m)
    BY <2>2 DEF ShelfAllowed
  <2>5. QED
    BY <1>5, <2>1, <2>3, <2>4 DEF Allowed
<1>6. CASE ~Held(k) /\ choice # "picked"
  <2>1. ListedTo(k, s) = {VcrAuto}
    BY <1>6 DEF ListedTo
  <2>2. ChoiceAccepts(VcrAuto, Shelf(k, s))
    BY <1>6 DEF ChoiceAccepts
  <2>3. s = "text" => TextAllowed(k, VcrAuto)
    BY <2>2 DEF TextAllowed
  <2>4. ShelfAllowed(k, s, VcrAuto)
    BY <2>2 DEF ShelfAllowed
  <2>5. QED
    BY <1>6, <2>1, <2>3, <2>4 DEF Allowed
<1>7. QED
  BY <1>4, <1>5, <1>6

\* What vcr-auto offers and selects is sound (the selection memory, the order of
\* the walk, and the model lists): one tier per question unless the selector was
\* asked twice at a time, walks that name the whole text shelf once, and lists
\* whose models may be called.
THEOREM SelectionIsSound == ApiSpec => []SelectionSound
<1>1. ApiInv => OneTierPerQuestion
  <2> SUFFICES ASSUME ApiInv, NEW mk \in MemoryKeys \ excused
               PROVE  Cardinality(asked[mk]) <= 1
    BY DEF OneTierPerQuestion
  <2>1. asked[mk] \subseteq {memory[mk]}
    BY DEF ApiInv, MemorySound
  <2>2. asked[mk] = {} \/ asked[mk] = {memory[mk]}
    BY <2>1
  <2>3. Cardinality({}) = 0 /\ Cardinality({memory[mk]}) = 1
    BY FS_EmptySet, FS_Singleton
  <2>4. QED
    BY <2>2, <2>3
<1>2. ApiInv => WalksWholeShelf
  BY DEF ApiInv, CallSound, WalksWholeShelf
<1>3. ApiInv => ListedMayBeCalled
  BY WhatIsListed DEF ApiInv
<1>4. ApiInv => SelectionSound
  BY <1>1, <1>2, <1>3 DEF SelectionSound
<1>5. QED
  BY <1>4, ApiInvHolds, PTL

-----------------------------------------------------------------------------
(* The invariant of the model documents                                    *)

IdsDiffer(models) == \A i, j \in DOMAIN models : models[i].id = models[j].id => i = j

\* A document that could be saved again as it is.
Holds(d) ==
    /\ \A e \in Text(d) : e.tier \in d.tiers \cup {Missing}
    /\ d.selector # {} => \A e \in Text(d) : e.tier # Missing
    /\ IdsDiffer(d.models)
    /\ \A e \in ToSet(d.models) : Cardinality(e.flags) <= 1
    /\ d.selector \subseteq shown

EditType ==
    {NoEdit}
    \cup [at : {"filtering"}, target : Sittings, ids : SUBSET ModelIds(Starter)]
    \cup [at : {"writing"}, target : Targets, document : DocumentSet]

DocumentTypes ==
    /\ template \in DocumentSet \cup {Missing} /\ sitting \in [Sittings -> DocumentSet \cup {Missing}]
    /\ decisions \subseteq shown
    /\ edit \in [Editors -> EditType]

\* Stored or about to be written, every document holds; and what is to be filtered
\* is stored, since no sitting loses its document.
EditSound(e) ==
    /\ edit[e].at = "writing" => Holds(edit[e].document)
    /\ edit[e].at = "filtering" => sitting[edit[e].target] # Missing

DocumentsInv ==
    /\ DocumentTypes
    /\ \A d \in {template} \cup {sitting[s] : s \in Sittings} : d # Missing => Holds(d)
    /\ \A e \in Editors : EditSound(e)

\* What a document's entries are like.
LEMMA EntryFacts ==
    ASSUME NEW e \in ModelEntry
    PROVE  /\ e.flags \in SUBSET {"decision", "image"} /\ e.tier \in TierIds \cup {Missing}
           /\ Untiered(e) \in ModelEntry
           /\ Untiered(e).id = e.id /\ Untiered(e).flags = e.flags /\ Untiered(e).tier = Missing
BY DEF ModelEntry, Untiered

LEMMA ModelsOf ==
    ASSUME NEW ms \in Seq(ModelEntry)
    PROVE  /\ DOMAIN ms = 1 .. Len(ms) /\ Len(ms) \in Nat /\ \A i \in DOMAIN ms : ms[i] \in ModelEntry
           /\ ToSet(ms) = {ms[i] : i \in DOMAIN ms}
BY LenProperties, ElementOfSeq DEF ToSet

\* The entries of a document that are kept, with the ids they have.
LEMMA PartDiffers ==
    ASSUME NEW ms \in Seq(ModelEntry), NEW P \in SUBSET DOMAIN ms,
           \A i, j \in P : ms[i].id = ms[j].id => i = j
    PROVE  /\ At(ms, P) \in Seq(ModelEntry) /\ IdsDiffer(At(ms, P))
           /\ \A e \in ToSet(At(ms, P)) : \E i \in P : e = ms[i]
<1> DEFINE w == At(ms, P)
<1>1. w \in Seq(ModelEntry) /\ Shows(w, ms, P)
  BY ModelsOf, AtShows
<1> HIDE DEF w
<1>2. DOMAIN w = 1 .. Len(w) /\ ToSet(w) = {w[n] : n \in DOMAIN w}
  BY <1>1, ModelsOf
<1>3. \A n \in DOMAIN w : \E i \in P : w[n] = ms[i]
  BY <1>1, <1>2 DEF Shows
<1>4. \A m, n \in DOMAIN w : w[m] = w[n] => m = n
  BY <1>1, <1>2 DEF Shows
<1>5. ASSUME NEW m \in DOMAIN w, NEW n \in DOMAIN w, w[m].id = w[n].id
      PROVE  m = n
  <2>1. PICK i \in P, j \in P : w[m] = ms[i] /\ w[n] = ms[j]
    BY <1>3
  <2>2. w[m] = w[n]
    BY <1>5, <2>1
  <2>3. QED
    BY <1>4, <2>2
<1>6. IdsDiffer(w)
  BY <1>5 DEF IdsDiffer
<1>7. QED
  BY <1>1, <1>2, <1>3, <1>6 DEF w

\* An entry of every Model ID, and one only.
LEMMA DistinctFacts ==
    ASSUME NEW ms \in Seq(ModelEntry)
    PROVE  Distinct(ms) \in Seq(ModelEntry) /\ IdsDiffer(Distinct(ms))
<1> DEFINE P == {i \in DOMAIN ms : \A j \in 1 .. i - 1 : ms[j].id # ms[i].id}
<1>1. ASSUME NEW i \in P, NEW j \in P, ms[i].id = ms[j].id
      PROVE  i = j
  BY <1>1, ModelsOf
<1>2. P \in SUBSET DOMAIN ms
  OBVIOUS
<1>3. Distinct(ms) = At(ms, P)
  BY DEF Distinct
<1> HIDE DEF P
<1>4. QED
  BY <1>1, <1>2, <1>3, PartDiffers

\* Entry by entry, a document keeps its ids.
LEMMA EachKeepsIds ==
    ASSUME NEW ms \in Seq(ModelEntry), NEW ns, DOMAIN ns = DOMAIN ms,
           ns = [i \in DOMAIN ns |-> ns[i]],
           \A i \in DOMAIN ms : ns[i] \in ModelEntry /\ ns[i].id = ms[i].id
    PROVE  /\ ns \in Seq(ModelEntry) /\ ToSet(ns) = {ns[i] : i \in DOMAIN ms}
           /\ IdsDiffer(ms) => IdsDiffer(ns)
<1>1. DOMAIN ms = 1 .. Len(ms) /\ Len(ms) \in Nat
  BY ModelsOf
<1>2. ns \in [1 .. Len(ms) -> ModelEntry]
  BY <1>1
<1>3. ns \in Seq(ModelEntry)
  BY <1>1, <1>2, IsASeq
<1>4. IdsDiffer(ms) => IdsDiffer(ns)
  BY DEF IdsDiffer
<1>5. QED
  BY <1>3, <1>4 DEF ToSet

LEMMA WithModels ==
    ASSUME NEW d \in DocumentSet, NEW ms \in Seq(ModelEntry)
    PROVE  /\ [d EXCEPT !.models = ms] \in DocumentSet
           /\ [d EXCEPT !.models = ms].models = ms
           /\ [d EXCEPT !.models = ms].tiers = d.tiers
           /\ [d EXCEPT !.models = ms].selector = d.selector
BY DEF DocumentSet

\* What is sent holds once it is accepted.
LEMMA NormalizedFacts ==
    ASSUME NEW d \in DocumentSet, Normalizable(d)
    PROVE  /\ Normalized(d) \in DocumentSet
           /\ IdsDiffer(Normalized(d).models)
           /\ \A e \in ToSet(Normalized(d).models) : Cardinality(e.flags) <= 1
<1> DEFINE D == Distinct(d.models)
           N == [i \in DOMAIN D |-> IF D[i].flags = {} THEN D[i] ELSE Untiered(D[i])]
<1>1. D \in Seq(ModelEntry) /\ IdsDiffer(D)
  BY DistinctFacts DEF DocumentSet
<1>2. \A e \in ToSet(D) : Cardinality(e.flags) <= 1
  BY DEF Normalizable
<1> DEFINE dd == [d EXCEPT !.models = D]
<1>3. Normalized(d) = [dd EXCEPT !.models = N]
  BY <1>1, WithModels DEF Normalized, EachModel
<1> HIDE DEF D
<1>4. dd \in DocumentSet
  BY <1>1, WithModels
<1>5. \A i \in DOMAIN D : D[i] \in ModelEntry /\ D[i] \in ToSet(D)
  BY <1>1, ModelsOf
<1>6. \A i \in DOMAIN D : N[i] \in ModelEntry /\ N[i].id = D[i].id /\ N[i].flags = D[i].flags
  BY <1>5, EntryFacts
<1>7. DOMAIN N = DOMAIN D /\ N = [i \in DOMAIN N |-> N[i]]
  OBVIOUS
<1> HIDE DEF N, dd
<1>8. N \in Seq(ModelEntry) /\ IdsDiffer(N) /\ ToSet(N) = {N[i] : i \in DOMAIN D}
  BY <1>1, <1>6, <1>7, EachKeepsIds
<1>9. \A e \in ToSet(N) : Cardinality(e.flags) <= 1
  BY <1>2, <1>5, <1>6, <1>8
<1>10. QED
  BY <1>3, <1>4, <1>8, <1>9, WithModels

\* A document stays right when an allowlist drops models.
LEMMA FilteredFacts ==
    ASSUME NEW d \in DocumentSet, Holds(d), NEW ids
    PROVE  Filtered(d, ids) \in DocumentSet /\ Holds(Filtered(d, ids))
<1> DEFINE P == {i \in DOMAIN d.models : d.models[i].id \in ids \/ d.models[i].flags # {}}
           w == At(d.models, P)
           f == [d EXCEPT !.models = w]
<1>1. d.models \in Seq(ModelEntry)
  BY DEF DocumentSet
<1>2. f = Filtered(d, ids)
  BY DEF Filtered
<1>3. P \in SUBSET DOMAIN d.models /\ \A i, j \in P : d.models[i].id = d.models[j].id => i = j
  BY DEF Holds, IdsDiffer
<1> HIDE DEF P
<1>4. /\ w \in Seq(ModelEntry) /\ IdsDiffer(w)
      /\ \A e \in ToSet(w) : \E i \in P : e = d.models[i]
  BY <1>1, <1>3, PartDiffers
<1> HIDE DEF w
<1>5. f \in DocumentSet /\ f.models = w /\ f.tiers = d.tiers /\ f.selector = d.selector
  BY <1>4, WithModels
<1> HIDE DEF f
<1>6. ToSet(w) \subseteq ToSet(d.models)
  BY <1>1, <1>3, <1>4, ModelsOf
<1>7. Text(f) \subseteq Text(d)
  BY <1>5, <1>6 DEF Text
<1>8. Holds(f)
  BY <1>4, <1>5, <1>6, <1>7 DEF Holds
<1>9. QED
  BY <1>2, <1>5, <1>8

\* Every upload of a file is a document.
LEMMA UploadedTyped ==
    ASSUME NEW draft \in DocumentSet, NEW file \in DocumentSet, NEW tiers \in SUBSET TierIds
    PROVE  Uploaded(draft, file, tiers) \in DocumentSet
<1> DEFINE D == Distinct(file.models)
           F == [i \in DOMAIN D |-> [D[i] EXCEPT !.flags = {}]]
           N == [i \in DOMAIN F |-> IF F[i].tier \in tiers THEN F[i] ELSE Untiered(F[i])]
           fd == [file EXCEPT !.models = D]
           ff == [fd EXCEPT !.models = F]
           fn == [ff EXCEPT !.models = N]
<1>1. D \in Seq(ModelEntry)
  BY DistinctFacts DEF DocumentSet
<1>2. fd \in DocumentSet /\ fd.models = D
  BY <1>1, WithModels
<1> HIDE DEF D
<1>3. \A i \in DOMAIN D : F[i] \in ModelEntry /\ F[i].id = D[i].id
  BY <1>1, ModelsOf DEF ModelEntry
<1>4. DOMAIN F = DOMAIN D /\ F = [i \in DOMAIN F |-> F[i]]
  OBVIOUS
<1> HIDE DEF F, fd
<1>5. F \in Seq(ModelEntry)
  BY <1>1, <1>3, <1>4, EachKeepsIds
<1>6. ff \in DocumentSet /\ ff.models = F
  BY <1>2, <1>5, WithModels
<1>7. \A i \in DOMAIN F : N[i] \in ModelEntry /\ N[i].id = F[i].id
  BY <1>5, ModelsOf, EntryFacts
<1>8. DOMAIN N = DOMAIN F /\ N = [i \in DOMAIN N |-> N[i]]
  OBVIOUS
<1> HIDE DEF N, ff
<1>9. N \in Seq(ModelEntry)
  BY <1>5, <1>7, <1>8, EachKeepsIds
<1>10. fn.models = N
  BY <1>6, <1>9, WithModels
<1>11. Uploaded(draft, file, tiers) = DocumentOf(N, tiers, draft.selector)
  BY <1>2, <1>6, <1>10 DEF Uploaded, EachModel, D, F, N, fd, ff
<1>12. QED
  BY <1>9, <1>11 DEF DocumentOf, DocumentSet

LEMMA SentTyped == Sent \subseteq DocumentSet
<1>1. Drafts \subseteq DocumentSet /\ Files \subseteq DocumentSet
  BY DocumentsAssumption
<1>2. ASSUME NEW p \in Drafts \X Files, NEW tiers \in {p[1].tiers, p[2].tiers}
      PROVE  Uploaded(p[1], p[2], tiers) \in DocumentSet
  <2>1. p[1] \in DocumentSet /\ p[2] \in DocumentSet
    BY <1>1
  <2>2. tiers \in SUBSET TierIds
    BY <2>1 DEF DocumentSet
  <2>3. QED
    BY <2>1, <2>2, UploadedTyped
<1>3. QED
  BY <1>1, <1>2 DEF Sent

\* Text models without tiers hold where nothing selects.
LEMMA BareHolds ==
    ASSUME NEW d, d.selector = {}, IdsDiffer(d.models),
           \A e \in ToSet(d.models) : e.flags = {} /\ e.tier = Missing
    PROVE  Holds(d)
<1>1. \A e \in Text(d) : e.tier = Missing
  BY DEF Text
<1>2. ASSUME NEW e \in ToSet(d.models)
      PROVE  Cardinality(e.flags) <= 1
  <2>1. e.flags = {}
    OBVIOUS
  <2>2. Cardinality(e.flags) = 0
    BY <2>1, FS_EmptySet
  <2>3. QED
    BY <2>2
<1>3. QED
  BY <1>1, <1>2 DEF Holds

\* The starter, with its tiers or without, is a document that holds.
LEMMA StarterHolds ==
    /\ Starter \in DocumentSet /\ Holds(Starter)
    /\ WithoutAutoTiers(Starter) \in DocumentSet /\ Holds(WithoutAutoTiers(Starter))
<1> DEFINE ms == Starter.models
           ns == [i \in DOMAIN ms |-> Untiered(ms[i])]
           w == WithoutAutoTiers(Starter)
<1>1. Starter \in DocumentSet /\ ms \in Seq(ModelEntry) /\ Starter.selector = {}
  BY DocumentsAssumption DEF DocumentSet
<1>2. \A i \in DOMAIN ms : ms[i] \in ToSet(ms) /\ ms[i].flags = {} /\ ms[i].tier = Missing
  BY <1>1, ModelsOf, DocumentsAssumption
<1>3. IdsDiffer(ms)
  <2> DEFINE g == [i \in DOMAIN ms |-> ms[i].id]
  <2>1. IsInjective(g)
    BY DocumentsAssumption
  <2>2. \A i, j \in DOMAIN ms : g[i] = g[j] => i = j
    BY <2>1 DEF IsInjective
  <2>3. \A i \in DOMAIN ms : g[i] = ms[i].id
    OBVIOUS
  <2> HIDE DEF g
  <2>4. QED
    BY <2>2, <2>3 DEF IdsDiffer
<1>4. \A e \in ToSet(ms) : e.flags = {} /\ e.tier = Missing
  BY <1>1, <1>2, ModelsOf
<1>6. Holds(Starter)
  BY <1>1, <1>3, <1>4, BareHolds
<1>7. \A i \in DOMAIN ms : /\ ns[i] \in ModelEntry /\ ns[i].id = ms[i].id
                           /\ ns[i].flags = {} /\ ns[i].tier = Missing
  BY <1>1, <1>2, ModelsOf, EntryFacts
<1>8. DOMAIN ns = DOMAIN ms /\ ns = [i \in DOMAIN ns |-> ns[i]]
  OBVIOUS
<1>9. w = [[Starter EXCEPT !.tiers = {}] EXCEPT !.models = ns]
  <2>1. [Starter EXCEPT !.tiers = {}].models = ms
    BY <1>1 DEF DocumentSet
  <2>2. QED
    BY <2>1 DEF WithoutAutoTiers, EachModel
<1> HIDE DEF ns, ms, w
<1>10. ns \in Seq(ModelEntry) /\ ToSet(ns) = {ns[i] : i \in DOMAIN ms} /\ IdsDiffer(ns)
  BY <1>1, <1>3, <1>7, <1>8, EachKeepsIds
<1>11. w \in DocumentSet /\ w.models = ns /\ w.selector = {}
  BY <1>1, <1>9, <1>10 DEF DocumentSet
<1>12. \A e \in ToSet(ns) : e.flags = {} /\ e.tier = Missing
  BY <1>7, <1>10
<1>13. Holds(w)
  BY <1>10, <1>11, <1>12, BareHolds
<1>14. QED
  BY <1>1, <1>6, <1>11, <1>13 DEF w

\* The decisions list only ever grows in shown: what holds goes on holding.
LEMMA GoesOnHolding ==
    ASSUME shown \subseteq shown', NEW d, Holds(d)
    PROVE  Holds(d)'
BY DEF Holds, Text

\* What a target stores.
LEMMA StoredFacts ==
    ASSUME DocumentsInv, NEW t \in Targets, StoredFor(t) # Missing
    PROVE  StoredFor(t) \in DocumentSet /\ Holds(StoredFor(t))
BY DEF DocumentsInv, DocumentTypes, StoredFor, Targets

\* An edit begins or goes on; at most the template is created from the starter.
LEMMA EditMoves ==
    ASSUME DocumentsInv, NEW e \in Editors, NEW next \in EditType,
           edit' = [edit EXCEPT ![e] = next], UNCHANGED <<sitting, decisions, shown>>,
           template' \in {template, Starter},
           next.at = "writing" => Holds(next.document),
           next.at = "filtering" => sitting[next.target] # Missing
    PROVE  DocumentsInv'
<1>1. DocumentTypes'
  BY StarterHolds DEF DocumentsInv, DocumentTypes
<1>2. \A d : Holds(d) => Holds(d)'
  BY GoesOnHolding
<1>3. edit'[e] = next /\ \A o \in Editors : o # e => edit'[o] = edit[o]
  BY DEF DocumentsInv, DocumentTypes
<1>4. \A o \in Editors : EditSound(o)'
  BY <1>2, <1>3 DEF DocumentsInv, EditSound
<1>5. \A d \in {template'} \cup {sitting'[s] : s \in Sittings} : d # Missing => Holds(d)'
  BY <1>2, StarterHolds DEF DocumentsInv
<1>6. QED
  BY <1>1, <1>4, <1>5 DEF DocumentsInv

LEMMA ToWriteTyped ==
    ASSUME NEW t \in Targets, NEW d \in DocumentSet
    PROVE  /\ ToWrite(t, d) \in EditType /\ ToWrite(t, d).at = "writing"
           /\ ToWrite(t, d).target = t /\ ToWrite(t, d).document = d
BY DEF ToWrite, EditType

LEMMA BeginSaveInv ==
    ASSUME DocumentsInv, NEW e \in Editors, NEW t \in Targets, NEW d \in Sent, BeginSave(e, t, d)
    PROVE  DocumentsInv'
<1> DEFINE n == Normalized(d)
           stored == StoredFor(t)
<1>1. /\ stored # Missing /\ Normalizable(d) /\ Accepts(n, stored, decisions)
      /\ edit' = [edit EXCEPT ![e] = ToWrite(t, n)] /\ UNCHANGED <<template, sitting, decisions, shown>>
  BY DEF BeginSave, Begins
<1>2. d \in DocumentSet
  BY SentTyped
<1>3. n \in DocumentSet /\ IdsDiffer(n.models) /\ \A m \in ToSet(n.models) : Cardinality(m.flags) <= 1
  BY <1>1, <1>2, NormalizedFacts
<1>4. stored.selector \subseteq shown /\ decisions \subseteq shown
  BY <1>1, StoredFacts DEF DocumentsInv, DocumentTypes, Holds
<1> HIDE DEF n, stored
<1>5. Holds(n)
  BY <1>1, <1>3, <1>4 DEF Accepts, Holds
<1>6. QED
  BY <1>1, <1>3, <1>5, ToWriteTyped, EditMoves

LEMMA BeginAllowlistInv ==
    ASSUME DocumentsInv, NEW e \in Editors, NEW s \in Sittings, NEW ids \in SUBSET ModelIds(Starter),
           BeginAllowlist(e, s, ids)
    PROVE  DocumentsInv'
<1> DEFINE next == [at |-> "filtering", target |-> s, ids |-> ids]
<1>1. next \in EditType /\ next.at = "filtering" /\ next.target = s
  BY DEF EditType
<1>2. sitting[s] # Missing /\ edit' = [edit EXCEPT ![e] = next] /\ UNCHANGED <<template, sitting, decisions, shown>>
  BY DEF BeginAllowlist, Begins
<1> HIDE DEF next
<1>3. QED
  BY <1>1, <1>2, EditMoves

LEMMA ReadToFilterInv ==
    ASSUME DocumentsInv, NEW e \in Editors, ReadToFilter(e)
    PROVE  DocumentsInv'
<1> DEFINE d == sitting[edit[e].target]
           n == Filtered(d, edit[e].ids)
<1>1. /\ edit[e].at = "filtering"
      /\ edit' = [edit EXCEPT ![e] = ToWrite(edit[e].target, n)]
      /\ UNCHANGED <<template, sitting, decisions, shown>>
  BY DEF ReadToFilter, DocumentsInv, DocumentTypes
<1>2. edit[e].target \in Sittings
  <2>1. edit[e] \in EditType
    BY DEF DocumentsInv, DocumentTypes
  <2>2. QED
    BY <1>1, <2>1 DEF EditType, NoEdit
<1>3. d # Missing
  BY <1>1 DEF DocumentsInv, EditSound
<1>4. d \in DocumentSet /\ Holds(d)
  BY <1>2, <1>3 DEF DocumentsInv, DocumentTypes
<1> HIDE DEF d
<1>5. n \in DocumentSet /\ Holds(n)
  BY <1>4, FilteredFacts
<1> HIDE DEF n
<1> DEFINE next == ToWrite(edit[e].target, n)
<1>6. next \in EditType /\ next.at = "writing" /\ next.document = n
  <2>1. edit[e].target \in Targets
    BY <1>2 DEF Targets
  <2>2. QED
    BY <1>5, <2>1, ToWriteTyped
<1>7. edit' = [edit EXCEPT ![e] = next]
  BY <1>1
<1> HIDE DEF next
<1>8. QED
  BY <1>1, <1>5, <1>6, <1>7, EditMoves

LEMMA BeginCreateInv ==
    ASSUME DocumentsInv, NEW e \in Editors, NEW s \in Sittings, BeginCreate(e, s)
    PROVE  DocumentsInv'
<1> DEFINE d == IF template = Missing THEN Starter ELSE template
           next == ToWrite(s, d)
<1>1. /\ template' = d /\ edit' = [edit EXCEPT ![e] = ToWrite(s, template')]
      /\ UNCHANGED <<sitting, decisions, shown>>
  BY DEF BeginCreate, Begins
<1>2. d \in DocumentSet /\ Holds(d) /\ d \in {template, Starter}
  BY StarterHolds DEF DocumentsInv, DocumentTypes
<1> HIDE DEF d
<1>3. next \in EditType /\ next.at = "writing" /\ next.document = d
  BY <1>2, ToWriteTyped DEF Targets
<1>4. edit' = [edit EXCEPT ![e] = next]
  BY <1>1
<1> HIDE DEF next
<1>5. QED
  BY <1>1, <1>2, <1>3, <1>4, EditMoves

LEMMA EnsureTemplateInv ==
    ASSUME DocumentsInv, EnsureTemplate
    PROVE  DocumentsInv'
<1>1. template' = Starter /\ UNCHANGED <<sitting, decisions, edit, shown>>
  BY DEF EnsureTemplate
<1>2. \A d : Holds(d) => Holds(d)'
  BY <1>1, GoesOnHolding
<1>3. DocumentTypes'
  BY <1>1, StarterHolds DEF DocumentsInv, DocumentTypes
<1>4. \A o \in Editors : EditSound(o)'
  BY <1>1, <1>2 DEF DocumentsInv, EditSound
<1>5. \A d \in {template'} \cup {sitting'[s] : s \in Sittings} : d # Missing => Holds(d)'
  BY <1>1, <1>2, StarterHolds DEF DocumentsInv
<1>6. QED
  BY <1>3, <1>4, <1>5 DEF DocumentsInv

\* What was about to be written holds, and no target loses its document.
LEMMA WriteInv ==
    ASSUME DocumentsInv, NEW e \in Editors, Write(e)
    PROVE  DocumentsInv'
<1> DEFINE t == edit[e].target
           d == edit[e].document
<1>1. /\ edit[e].at = "writing" /\ edit' = [edit EXCEPT ![e] = NoEdit] /\ UNCHANGED <<decisions, shown>>
      /\ IF t = "template" THEN template' = d /\ sitting' = sitting
         ELSE sitting' = [sitting EXCEPT ![t] = d] /\ template' = template
  BY DEF Write
<1>2. t \in Targets /\ d \in DocumentSet /\ Holds(d) /\ d # Missing
  <2>1. edit[e] \in EditType
    BY DEF DocumentsInv, DocumentTypes
  <2>2. t \in Targets /\ d \in DocumentSet
    BY <1>1, <2>1 DEF EditType, NoEdit
  <2>3. Holds(d)
    BY <1>1 DEF DocumentsInv, EditSound
  <2>4. d # Missing
    BY <2>2, DocumentsAssumption
  <2>5. QED
    BY <2>2, <2>3, <2>4
<1> HIDE DEF t, d
<1>3. \A x : Holds(x) => Holds(x)'
  BY <1>1, GoesOnHolding
<1>4. NoEdit \in EditType /\ NoEdit.at = "rest"
  BY DEF EditType, NoEdit
<1>5. DocumentTypes'
  BY <1>1, <1>2, <1>4 DEF DocumentsInv, DocumentTypes, Targets
<1>6. \A s \in Sittings : sitting'[s] \in {sitting[s], d}
  BY <1>1 DEF DocumentsInv, DocumentTypes
<1>7. ASSUME NEW o \in Editors
      PROVE  EditSound(o)'
  <2>1. edit'[o] = NoEdit \/ edit'[o] = edit[o]
    BY <1>1 DEF DocumentsInv, DocumentTypes
  <2>2. CASE edit'[o] = NoEdit
    BY <1>4, <2>2 DEF EditSound
  <2>3. CASE edit'[o] = edit[o] /\ edit[o].at = "filtering"
    <3>1. edit[o] \in EditType
      BY DEF DocumentsInv, DocumentTypes
    <3>2. edit[o].target \in Sittings
      BY <2>3, <3>1 DEF EditType, NoEdit
    <3>3. sitting[edit[o].target] # Missing
      BY <2>3 DEF DocumentsInv, EditSound
    <3>4. sitting'[edit[o].target] # Missing
      BY <1>2, <1>6, <3>2, <3>3
    <3>5. QED
      BY <2>3, <3>4 DEF EditSound
  <2>4. CASE edit'[o] = edit[o] /\ edit[o].at # "filtering"
    BY <1>3, <2>4 DEF DocumentsInv, EditSound
  <2>5. QED
    BY <2>1, <2>2, <2>3, <2>4
<1>8. \A x \in {template'} \cup {sitting'[s] : s \in Sittings} : x # Missing => Holds(x)'
  BY <1>1, <1>2, <1>3, <1>6 DEF DocumentsInv
<1>9. QED
  BY <1>5, <1>7, <1>8 DEF DocumentsInv

LEMMA EditFailsInv ==
    ASSUME DocumentsInv, NEW e \in Editors, EditFails(e)
    PROVE  DocumentsInv'
<1>1. NoEdit \in EditType /\ NoEdit.at = "rest"
  BY DEF EditType, NoEdit
<1>2. QED
  BY <1>1, EditMoves DEF EditFails

LEMMA CatalogShowsInv ==
    ASSUME DocumentsInv, NEW listed \in SUBSET DecisionIds, CatalogShows(listed)
    PROVE  DocumentsInv'
<1>1. decisions' = listed /\ shown' = shown \cup listed /\ UNCHANGED <<template, sitting, edit>>
  BY DEF CatalogShows
<1>2. \A d : Holds(d) => Holds(d)'
  BY <1>1, GoesOnHolding
<1>3. DocumentTypes'
  BY <1>1 DEF DocumentsInv, DocumentTypes
<1>4. \A o \in Editors : EditSound(o)'
  BY <1>1, <1>2 DEF DocumentsInv, EditSound
<1>5. \A d \in {template'} \cup {sitting'[s] : s \in Sittings} : d # Missing => Holds(d)'
  BY <1>1, <1>2 DEF DocumentsInv
<1>6. QED
  BY <1>3, <1>4, <1>5 DEF DocumentsInv

LEMMA DocumentsInvStep == DocumentsInv /\ [DocumentsNext]_documentVars => DocumentsInv'
<1> SUFFICES ASSUME DocumentsInv, [DocumentsNext]_documentVars PROVE DocumentsInv'
  OBVIOUS
<1>1. CASE UNCHANGED documentVars
  <2>1. UNCHANGED <<template, sitting, decisions, edit, shown>>
    BY <1>1 DEF documentVars
  <2>2. \A d : Holds(d) => Holds(d)'
    BY <2>1, GoesOnHolding
  <2>3. DocumentTypes'
    BY <2>1 DEF DocumentsInv, DocumentTypes
  <2>4. \A o \in Editors : EditSound(o)'
    BY <2>1, <2>2 DEF DocumentsInv, EditSound
  <2>5. \A d \in {template'} \cup {sitting'[s] : s \in Sittings} : d # Missing => Holds(d)'
    BY <2>1, <2>2 DEF DocumentsInv
  <2>6. QED
    BY <2>3, <2>4, <2>5 DEF DocumentsInv
<1>2. ASSUME NEW e \in Editors, NEW t \in Targets, NEW d \in Sent, BeginSave(e, t, d)
      PROVE  DocumentsInv'
  BY <1>2, BeginSaveInv
<1>3. ASSUME NEW e \in Editors, NEW s \in Sittings, NEW ids \in SUBSET ModelIds(Starter),
             BeginAllowlist(e, s, ids)
      PROVE  DocumentsInv'
  BY <1>3, BeginAllowlistInv
<1>4. ASSUME NEW e \in Editors, NEW s \in Sittings, BeginCreate(e, s)
      PROVE  DocumentsInv'
  BY <1>4, BeginCreateInv
<1>5. ASSUME NEW e \in Editors, ReadToFilter(e) \/ Write(e) \/ EditFails(e)
      PROVE  DocumentsInv'
  BY <1>5, ReadToFilterInv, WriteInv, EditFailsInv
<1>6. CASE EnsureTemplate
  BY <1>6, EnsureTemplateInv
<1>7. ASSUME NEW listed \in SUBSET DecisionIds, CatalogShows(listed)
      PROVE  DocumentsInv'
  BY <1>7, CatalogShowsInv
<1>8. QED
  BY <1>1, <1>2, <1>3, <1>4, <1>5, <1>6, <1>7 DEF DocumentsNext

LEMMA DocumentsInvInit == DocumentsInit => DocumentsInv
<1> SUFFICES ASSUME DocumentsInit PROVE DocumentsInv
  OBVIOUS
<1>1. NoEdit \in EditType /\ NoEdit.at = "rest"
  BY DEF EditType, NoEdit
<1>2. DocumentTypes
  BY <1>1, StarterHolds DEF DocumentsInit, DocumentTypes
<1>3. \A e \in Editors : EditSound(e)
  BY <1>1 DEF DocumentsInit, EditSound
<1>4. \A d \in {template} \cup {sitting[s] : s \in Sittings} : d # Missing => Holds(d)
  BY StarterHolds DEF DocumentsInit
<1>5. QED
  BY <1>2, <1>3, <1>4 DEF DocumentsInv

\* Every state of the documents satisfies the invariant.
THEOREM DocumentsInvHolds == DocumentsSpec => []DocumentsInv
BY DocumentsInvInit, DocumentsInvStep, PTL DEF DocumentsSpec

\* The types of the model documents (ModelDocuments.DocumentsTypeOK).
THEOREM DocumentsTyped == DocumentsSpec => []DocumentsTypeOK
<1>1. DocumentsInv => DocumentsTypeOK
  <2> SUFFICES ASSUME DocumentsInv PROVE DocumentsTypeOK
    OBVIOUS
  <2>1. \A e \in Editors : edit[e].at \in {"rest", "filtering", "writing"}
    <3> SUFFICES ASSUME NEW e \in Editors PROVE edit[e].at \in {"rest", "filtering", "writing"}
      OBVIOUS
    <3>1. edit[e] \in EditType
      BY DEF DocumentsInv, DocumentTypes
    <3>2. QED
      BY <3>1 DEF EditType, NoEdit
  <2>2. QED
    BY <2>1 DEF DocumentsInv, DocumentTypes, DocumentsTypeOK
<1>2. QED
  BY <1>1, DocumentsInvHolds, PTL

\* As many Model IDs as entries.
LEMMA CountsIds ==
    ASSUME NEW d \in DocumentSet, IdsDiffer(d.models)
    PROVE  Cardinality(ModelIds(d)) = Len(d.models)
<1> DEFINE ms == d.models
           N == 1 .. Len(ms)
           g == [i \in N |-> ms[i].id]
           I == ModelIds(d)
<1>1. ms \in Seq(ModelEntry)
  BY DEF DocumentSet
<1>2. DOMAIN ms = N /\ Len(ms) \in Nat /\ ToSet(ms) = {ms[i] : i \in N}
  BY <1>1, ModelsOf
<1>3. I = {ms[i].id : i \in N}
  BY <1>2 DEF ModelIds
<1>4. \A i, j \in N : ms[i].id = ms[j].id => i = j
  BY <1>2 DEF IdsDiffer
<1> HIDE DEF ms, I
<1>5. IsFiniteSet(N) /\ Cardinality(N) = Len(ms)
  <2> DEFINE n == Len(ms)
  <2>1. n \in Nat
    BY <1>2
  <2> HIDE DEF n
  <2>2. IsFiniteSet(1 .. n) /\ Cardinality(1 .. n) = (IF 1 > n THEN 0 ELSE n - 1 + 1)
    BY <2>1, FS_Interval
  <2>3. QED
    BY <2>1, <2>2 DEF n
<1> HIDE DEF N
<1>6. g \in [N -> I] /\ \A i, j \in N : g[i] = g[j] => i = j
  BY <1>3, <1>4
<1>7. \A x \in I : \E i \in N : g[i] = x
  BY <1>3
<1> HIDE DEF g
<1>8. g \in Bijection(N, I)
  BY <1>6, <1>7, Fun_IsInj, Fun_IsSurj, Fun_IsBij
<1>9. ExistsBijection(N, I)
  BY <1>8 DEF ExistsBijection
<1>10. QED
  BY <1>5, <1>9, FS_Bijection DEF I, ms

\* Whatever edits overlap and whatever the decisions list shows by now, a stored
\* document could be saved again as it is (check_auto_tier_document,
\* normalize_session_chat_language_models, filter_chat_language_models).
THEOREM StoredDocumentsCanBeSaved == DocumentsSpec => []StoredDocumentsHold
<1>1. DocumentsInv => StoredDocumentsHold
  <2> SUFFICES ASSUME DocumentsInv, NEW t \in Targets, StoredFor(t) # Missing
               PROVE  LET d == StoredFor(t)
                      IN  /\ \A e \in Text(d) : e.tier \in d.tiers \cup {Missing}
                          /\ d.selector # {} => \A e \in Text(d) : e.tier # Missing
                          /\ Cardinality(ModelIds(d)) = Len(d.models)
                          /\ \A e \in ToSet(d.models) : Cardinality(e.flags) <= 1
                          /\ d.selector \subseteq shown
    BY DEF StoredDocumentsHold
  <2> DEFINE d == StoredFor(t)
  <2>1. d \in DocumentSet /\ Holds(d)
    BY StoredFacts
  <2> HIDE DEF d
  <2>2. Cardinality(ModelIds(d)) = Len(d.models)
    BY <2>1, CountsIds DEF Holds
  <2>3. QED
    BY <2>1, <2>2 DEF Holds, d
<1>2. QED
  BY <1>1, DocumentsInvHolds, PTL

-----------------------------------------------------------------------------
(* The parts together                                                      *)

\* The parts of MCServices share no state: each behaves as its own specification
\* says, whatever the others do, so that each theorem about a part holds here too.
THEOREM ServicesAreTheirParts ==
    ServicesSpec => ApiSpec /\ SessionsSpec /\ ReleaseSpec /\ FiguresSpec /\ CatalogSpec /\ DocumentsSpec
<1>1. ServicesInit => /\ ApiInit /\ SessionsInit /\ ReleaseInit /\ FiguresInit /\ CatalogInit
                      /\ DocumentsInit
  BY DEF ServicesInit
<1>2. [ServicesNext]_allVars =>
          /\ [ApiNext]_apiVars /\ [SessionsNext]_sessionVars /\ [ReleaseNext]_releaseVars
          /\ [FiguresNext]_figureVars /\ [CatalogNext]_catalogVars /\ [DocumentsNext]_documentVars
  BY DEF ServicesNext, allVars
<1>3. QED
  BY <1>1, <1>2, PTL DEF ServicesSpec, ApiSpec, SessionsSpec, ReleaseSpec, FiguresSpec, CatalogSpec,
                         DocumentsSpec

\* The types of every part of MCServices (ServicesTypeOK): sessions and handoffs,
\* releases of a quarantine, figures, the catalog, the calls and the documents.
THEOREM ServicesTyped == ServicesSpec => []ServicesTypeOK
<1>1. SessionsSpec => []SessionsTypeOK
  <2>1. SessionsInv => SessionsTypeOK
    BY DEF SessionsInv, RowsInv, HandoffInv, SessionsTypeOK, UserType, RowType
  <2>2. QED
    BY <2>1, SessionsInvariant, PTL
<1>2. FiguresSpec => []FiguresTypeOK
  <2>1. FigureInv => FiguresTypeOK
    BY DEF FigureInv, FiguresTypeOK, ReaderPlaces
  <2>2. QED
    BY <2>1, FigureInit, FigureStep, PTL DEF FiguresSpec
<1>3. CatalogSpec => []CatalogTypeOK
  <2>1. CatalogInv => CatalogTypeOK
    <3> SUFFICES ASSUME CatalogInv PROVE CatalogTypeOK
      OBVIOUS
    <3>1. \A k \in Kinds : fetch[k] \in FetchPlaces
      BY DEF CatalogInv
    <3>2. elapsed \in Nat
      BY CatalogAssumption DEF CatalogInv
    <3>3. \A ds \in Seq(Nat \ {0}) : ds \in Seq(Nat)
      OBVIOUS
    <3>4. QED
      BY <3>1, <3>2, <3>3 DEF CatalogInv, CatalogTypeOK, FetchPlaces
  <2>2. QED
    BY <2>1, CatalogStart, CatalogStep, PTL DEF CatalogSpec
<1>4. QED
  BY <1>1, <1>2, <1>3, ServicesAreTheirParts, ApiCallsTyped, ReleaseTypes, DocumentsTyped, PTL
     DEF ServicesTypeOK
=============================================================================
