--------------------------- MODULE SessionBoardProofs ---------------------------
(***************************************************************************)
(* Proofs about SessionBoard, for any number of sessions, presets, actions *)
(* and crashes: the cards, the selection, the manifest and the settings    *)
(* agree with what is shown, and the order stays the user's.               *)
(***************************************************************************)
EXTENDS SessionBoard, FiniteSetTheorems, SequenceTheorems,
        WellFoundedInduction, TLAPS

-----------------------------------------------------------------------------
(* Numbers and sequences                                                   *)

(* A set of numbers that is not empty has a least one.                     *)
LessThan == { p \in Nat \X Nat : p[1] < p[2] }

LEMMA LeastElement ==
  ASSUME NEW S \in SUBSET Nat, S # {}
  PROVE  \E n \in S : \A m \in S : n <= m
<1>1. IsWellFoundedOn(LessThan, Nat)
  BY NatLessThanWellFounded DEF OpToRel, LessThan
<1>2. \E n \in S : \A m \in S : ~ (<<m, n>> \in LessThan)
  BY <1>1, WFMin
<1>3. PICK n \in S : \A m \in S : ~ (<<m, n>> \in LessThan)
  BY <1>2
<1>4. \A m \in S : m \in Nat /\ n \in Nat /\ ~ (m < n)
  BY <1>3 DEF LessThan
<1> QED BY <1>4

(* A sequence of all the elements of a set, each once.                     *)
LEMMA Arranged ==
  ASSUME NEW S, IsFiniteSet(S), NEW w \in SetToSeqs(S)
  PROVE  /\ w \in Seq(S) /\ Len(w) = Cardinality(S)
         /\ IsInjective(w) /\ ToSet(w) = S
<1> DEFINE n == Cardinality(S)
<1>1. n \in Nat
  BY FS_CardinalityType
<1>2. w \in [1 .. n -> S] /\ \A i, j \in 1 .. n : i # j => w[i] # w[j]
  BY DEF SetToSeqs
<1>3. w \in Seq(S) /\ Len(w) = n
  BY <1>1, <1>2
<1>4. w \in Injection(1 .. n, S)
  BY <1>2 DEF Injection, IsInjective
<1>5. Cardinality(1 .. n) = n
  BY <1>1, FS_Interval
<1>6. w \in Surjection(1 .. n, S)
  BY <1>4, <1>5, FS_Injection
<1>7. ToSet(w) = S
  BY <1>2, <1>6 DEF Surjection, ToSet
<1> QED BY <1>2, <1>3, <1>7 DEF IsInjective

(* The elements of a finite set can be put into the order of their keys:   *)
(* each has as many before it as have a smaller key.                       *)
LEMMA CanBeOrdered ==
  ASSUME NEW S, IsFiniteSet(S), NEW key, \A s \in S : key[s] \in Nat,
         \A s, t \in S : key[s] = key[t] => s = t
  PROVE  \E w \in SetToSeqs(S) :
           \A i, j \in DOMAIN w : i < j => key[w[i]] < key[w[j]]
<1> DEFINE n == Cardinality(S)
           Below(s) == { t \in S : key[t] < key[s] }
           rank == [s \in S |-> Cardinality(Below(s)) + 1]
<1>1. n \in Nat
  BY FS_CardinalityType
<1>2. \A s \in S : IsFiniteSet(Below(s)) /\ Cardinality(Below(s)) \in Nat
  BY FS_Subset, FS_CardinalityType
<1>3. ASSUME NEW s \in S PROVE rank[s] \in 1 .. n
  <2>1. Below(s) \in SUBSET S /\ Below(s) # S
    BY <1>3
  <2>2. Cardinality(Below(s)) <= n /\ Cardinality(Below(s)) # n
    BY <2>1, FS_Subset
  <2> QED BY <1>1, <1>2, <2>2
<1>4. ASSUME NEW s \in S, NEW t \in S, key[s] < key[t] PROVE rank[s] < rank[t]
  <2>1. Below(s) \in SUBSET Below(t)
    BY <1>4
  <2>2. s \in Below(t) /\ s \notin Below(s)
    BY <1>4
  <2>3. Cardinality(Below(s)) <= Cardinality(Below(t))
        /\ Cardinality(Below(s)) # Cardinality(Below(t))
    BY <1>2, <2>1, <2>2, FS_Subset
  <2> QED BY <1>2, <2>3
<1>5. \A s, t \in S : rank[s] < rank[t] => key[s] < key[t]
  <2> SUFFICES ASSUME NEW s \in S, NEW t \in S, rank[s] < rank[t]
               PROVE  key[s] < key[t]
    OBVIOUS
  <2>1. rank[s] \in Nat /\ rank[t] \in Nat
    BY <1>1, <1>3
  <2>2. key[s] # key[t]
    BY <2>1
  <2>3. ~ (key[t] < key[s])
    BY <1>4, <2>1
  <2> QED BY <2>2, <2>3
<1>6. \A s, t \in S : rank[s] = rank[t] => s = t
  <2> SUFFICES ASSUME NEW s \in S, NEW t \in S, rank[s] = rank[t], s # t
               PROVE  FALSE
    OBVIOUS
  <2>1. rank[s] \in Nat /\ rank[t] \in Nat
    BY <1>1, <1>3
  <2>2. key[s] < key[t] \/ key[t] < key[s]
    OBVIOUS
  <2> QED BY <1>4, <2>1, <2>2
<1>7. rank \in [S -> 1 .. n]
  BY <1>3
<1> HIDE DEF rank
<1>8. rank \in Injection(S, 1 .. n)
  BY <1>6, <1>7 DEF Injection, IsInjective
<1>9. IsFiniteSet(1 .. n) /\ Cardinality(1 .. n) = n
  BY <1>1, FS_Interval
<1>10. rank \in Surjection(S, 1 .. n)
  BY <1>8, <1>9, FS_Injection
<1>11. \A k \in 1 .. n : \E s \in S : rank[s] = k
  BY <1>10 DEF Surjection
<1> DEFINE w == [k \in 1 .. n |-> CHOOSE s \in S : rank[s] = k]
<1>12. \A k \in 1 .. n : w[k] \in S /\ rank[w[k]] = k
  BY <1>11
<1>13. w \in [1 .. n -> S]
  BY <1>12
<1> HIDE DEF w
<1>14. w \in SetToSeqs(S)
  BY <1>12, <1>13 DEF SetToSeqs
<1>15. \A i, j \in DOMAIN w : i < j => key[w[i]] < key[w[j]]
  BY <1>5, <1>12, <1>13
<1> QED BY <1>14, <1>15

LEMMA InOrderIs ==
  ASSUME NEW S, IsFiniteSet(S), NEW key, \A s \in S : key[s] \in Nat,
         \A s, t \in S : key[s] = key[t] => s = t
  PROVE  /\ InOrder(S, key) \in SetToSeqs(S)
         /\ \A i, j \in DOMAIN InOrder(S, key) :
              i < j => key[InOrder(S, key)[i]] < key[InOrder(S, key)[j]]
BY CanBeOrdered DEF InOrder

(* The place of an element of a sequence without repetitions.              *)
LEMMA PlaceInSeq ==
  ASSUME NEW T, NEW w \in Seq(T), IsInjective(w)
  PROVE  /\ \A s \in ToSet(w) : /\ AntiFunction(w)[s] \in 1 .. Len(w)
                                /\ w[AntiFunction(w)[s]] = s
         /\ \A i \in 1 .. Len(w) : AntiFunction(w)[w[i]] = i
         /\ ToSet(w) \subseteq T /\ IsFiniteSet(ToSet(w))
<1>1. DOMAIN w = 1 .. Len(w) /\ Len(w) \in Nat /\ Range(w) = ToSet(w)
  BY DEF Range, ToSet
<1>2. \A s \in ToSet(w) : \E i \in 1 .. Len(w) : w[i] = s
  BY <1>1 DEF ToSet
<1>3. AntiFunction(w) = [t \in ToSet(w) |-> CHOOSE i \in 1 .. Len(w) : t \in ToSet(w) => w[i] = t]
  BY <1>1 DEF AntiFunction, Inverse
<1>4. ASSUME NEW s \in ToSet(w)
      PROVE  AntiFunction(w)[s] \in 1 .. Len(w) /\ w[AntiFunction(w)[s]] = s
  BY <1>2, <1>3, <1>4
<1>5. ASSUME NEW i \in 1 .. Len(w) PROVE AntiFunction(w)[w[i]] = i
  <2>1. w[i] \in ToSet(w)
    BY <1>1 DEF ToSet
  <2> QED BY <1>1, <1>4, <2>1 DEF IsInjective
<1>6. ToSet(w) \subseteq T
  BY <1>1 DEF ToSet
<1>7. IsFiniteSet(ToSet(w))
  <2>1. w \in Surjection(1 .. Len(w), ToSet(w))
    BY <1>1, <1>2 DEF Surjection, ToSet
  <2>2. IsFiniteSet(1 .. Len(w))
    BY <1>1, FS_Interval
  <2> QED BY <2>1, <2>2, FS_Surjection
<1> QED BY <1>4, <1>5, <1>6, <1>7

LEMMA Joined ==
  ASSUME NEW T, NEW a \in Seq(T), NEW b \in Seq(T), IsInjective(a), IsInjective(b),
         ToSet(a) \cap ToSet(b) = {}
  PROVE  /\ a \o b \in Seq(T) /\ Len(a \o b) = Len(a) + Len(b)
         /\ \A i \in 1 .. Len(a) : (a \o b)[i] = a[i]
         /\ IsInjective(a \o b)
         /\ ToSet(a \o b) = ToSet(a) \cup ToSet(b)
<1> DEFINE c == a \o b
<1>1. /\ Len(a) \in Nat /\ DOMAIN a = 1 .. Len(a)
      /\ Len(b) \in Nat /\ DOMAIN b = 1 .. Len(b)
  OBVIOUS
<1>2. /\ c \in Seq(T) /\ Len(c) = Len(a) + Len(b)
      /\ \A i \in 1 .. Len(a) + Len(b) :
           c[i] = IF i <= Len(a) THEN a[i] ELSE b[i - Len(a)]
  BY ConcatProperties
<1> HIDE DEF c
<1>3. DOMAIN c = 1 .. Len(a) + Len(b)
  BY <1>2
<1>4. \A i \in 1 .. Len(a) : c[i] = a[i]
  BY <1>1, <1>2
<1>5. \A i \in 1 .. Len(b) : Len(a) + i \in DOMAIN c /\ c[Len(a) + i] = b[i]
  BY <1>1, <1>2, <1>3
<1>6. ASSUME NEW i \in DOMAIN c
      PROVE  \/ i \in DOMAIN a /\ c[i] = a[i] /\ a[i] \in ToSet(a)
             \/ i - Len(a) \in DOMAIN b /\ c[i] = b[i - Len(a)]
                /\ b[i - Len(a)] \in ToSet(b)
  BY <1>1, <1>2, <1>3 DEF ToSet
<1>7. IsInjective(c)
  <2> SUFFICES ASSUME NEW i \in DOMAIN c, NEW j \in DOMAIN c, c[i] = c[j]
               PROVE  i = j
    BY DEF IsInjective
  <2>1. CASE c[i] \in ToSet(a)
    <3>1. i \in DOMAIN a /\ c[i] = a[i] /\ j \in DOMAIN a /\ c[j] = a[j]
      BY <1>6, <2>1
    <3> QED BY <3>1 DEF IsInjective
  <2>2. CASE c[i] \notin ToSet(a)
    <3>1. /\ i - Len(a) \in DOMAIN b /\ c[i] = b[i - Len(a)]
          /\ j - Len(a) \in DOMAIN b /\ c[j] = b[j - Len(a)]
      BY <1>6, <2>2
    <3>2. i - Len(a) = j - Len(a)
      BY <3>1 DEF IsInjective
    <3> QED BY <1>1, <1>3, <3>2
  <2> QED BY <2>1, <2>2
<1>8. ToSet(c) = ToSet(a) \cup ToSet(b)
  <2>1. ToSet(c) \subseteq ToSet(a) \cup ToSet(b)
    BY <1>6 DEF ToSet
  <2>2. ToSet(a) \subseteq ToSet(c)
    BY <1>1, <1>3, <1>4 DEF ToSet
  <2>3. ToSet(b) \subseteq ToSet(c)
    BY <1>1, <1>5 DEF ToSet
  <2> QED BY <2>1, <2>2, <2>3
<1> QED BY <1>2, <1>4, <1>7, <1>8 DEF c

-----------------------------------------------------------------------------
(* The order and what is presented of it                                   *)

LiveIn(copy) == { s \in Sessions : IsLive(copy[s]) }

Sequence(w) == w \in Seq(Sessions) /\ IsInjective(w)

(* What is live, and only that, is in the new order; what was in the old   *)
(* one keeps its place.                                                    *)
LEMMA NewOrderIs ==
  ASSUME NEW ord, Sequence(ord), NEW copy, NEW o \in NewOrders(ord, copy)
  PROVE  /\ Sequence(o) /\ ToSet(o) = LiveIn(copy)
         /\ \A a, b \in ToSet(o) : Before(ord, a, b) => Before(o, a, b)
<1> DEFINE old == LiveIn(copy) \cap ToSet(ord)
           place == AntiFunction(ord)
           kept == InOrder(old, place)
           rest == LiveIn(copy) \ ToSet(ord)
<1>1. PICK p \in SetToSeqs(rest) : o = kept \o p
  BY DEF NewOrders, LiveIn
<1>2. ord \in Seq(Sessions) /\ IsInjective(ord) /\ Len(ord) \in Nat
  BY DEF Sequence
<1>3. /\ \A s \in ToSet(ord) : place[s] \in 1 .. Len(ord) /\ ord[place[s]] = s
      /\ \A i \in 1 .. Len(ord) : place[ord[i]] = i
      /\ IsFiniteSet(ToSet(ord))
  BY <1>2, PlaceInSeq
<1>4. IsFiniteSet(old) /\ IsFiniteSet(rest)
  <2>1. LiveIn(copy) \subseteq Sessions
    BY DEF LiveIn
  <2>2. old \in SUBSET Sessions /\ rest \in SUBSET Sessions
    BY <2>1
  <2> QED BY <2>2, FS_Subset, SessionAssumption
<1> HIDE DEF place
<1>5. /\ kept \in SetToSeqs(old)
      /\ \A i, j \in DOMAIN kept : i < j => place[kept[i]] < place[kept[j]]
  <2>1. \A s \in old : place[s] \in Nat
    BY <1>2, <1>3
  <2>2. \A s, t \in old : place[s] = place[t] => s = t
    BY <1>3
  <2> HIDE DEF old
  <2> QED BY <1>4, <2>1, <2>2, InOrderIs
<1>6. /\ kept \in Seq(old) /\ IsInjective(kept) /\ ToSet(kept) = old
      /\ p \in Seq(rest) /\ IsInjective(p) /\ ToSet(p) = rest
  <2> HIDE DEF kept, old, rest
  <2> QED BY <1>1, <1>4, <1>5, Arranged
<1>7. kept \in Seq(Sessions) /\ p \in Seq(Sessions)
  <2>1. old \subseteq Sessions /\ rest \subseteq Sessions
    BY DEF LiveIn
  <2> HIDE DEF kept, old, rest
  <2> QED BY <1>6, <2>1
<1> HIDE DEF kept
<1>8. /\ o \in Seq(Sessions) /\ Len(o) = Len(kept) + Len(p)
      /\ \A i \in 1 .. Len(kept) : o[i] = kept[i]
      /\ IsInjective(o) /\ ToSet(o) = old \cup rest
  <2>1. old \cap rest = {}
    OBVIOUS
  <2> HIDE DEF old, rest
  <2> QED BY <1>1, <1>6, <1>7, <2>1, Joined
<1>9. old \cup rest = LiveIn(copy)
  OBVIOUS
<1>10. ASSUME NEW a \in ToSet(o), NEW b \in ToSet(o), Before(ord, a, b)
       PROVE  Before(o, a, b)
  <2>1. PICK i, j \in 1 .. Len(ord) : i < j /\ ord[i] = a /\ ord[j] = b
    BY <1>10 DEF Before
  <2>2. a \in ToSet(ord) /\ b \in ToSet(ord) /\ place[a] < place[b]
    BY <1>2, <1>3, <2>1 DEF ToSet
  <2>3. a \in ToSet(kept) /\ b \in ToSet(kept)
    BY <1>6, <1>8, <1>9, <1>10, <2>2
  <2>4. PICK x, y \in 1 .. Len(kept) : kept[x] = a /\ kept[y] = b
    BY <1>7, <2>3 DEF ToSet
  <2>5. DOMAIN kept = 1 .. Len(kept) /\ Len(kept) \in Nat /\ Len(p) \in Nat
    BY <1>7
  <2>6. place[a] \in Nat /\ place[b] \in Nat
    BY <1>2, <1>3, <2>2
  <2>7. x < y
    <3>1. x # y
      BY <2>2, <2>4, <2>6
    <3>2. ~ (y < x)
      BY <1>5, <2>2, <2>4, <2>5, <2>6
    <3> QED BY <2>5, <3>1, <3>2
  <2>8. x \in 1 .. Len(o) /\ y \in 1 .. Len(o) /\ o[x] = a /\ o[y] = b
    BY <1>8, <2>4, <2>5
  <2> QED BY <2>7, <2>8 DEF Before
<1> QED BY <1>8, <1>9, <1>10 DEF Sequence

LEMMA RankIs ==
  ASSUME NEW state \in SessionStates PROVE Rank(state) \in {0, 1, 2, 3, 4}
<1>1. CASE state = "Idle"
  BY <1>1, Zenon DEF Rank
<1>2. CASE state \in {"WaitingForInput", "AwaitingApproval"}
  <2>1. Rank(state) = 1
    BY <1>2, Zenon DEF Rank
  <2> QED BY <2>1
<1>3. CASE state \in {"Starting", "Backgrounded", "Error"}
  <2>1. Rank(state) = 2
    BY <1>3, Zenon DEF Rank
  <2> QED BY <2>1
<1>4. CASE state \in {"Thinking", "RunningTool"}
  <2>1. Rank(state) = 3
    BY <1>4, Zenon DEF Rank
  <2> QED BY <2>1
<1>5. CASE state = "Exited"
  BY <1>5, Zenon DEF Rank
<1> QED BY <1>1, <1>2, <1>3, <1>4, <1>5 DEF SessionStates

(* Places come before ranks: no two sessions have the same key.            *)
LEMMA PlaceOfKey ==
  ASSUME NEW n \in Nat, NEW q \in {0, 1, 2, 3, 4}, NEW r \in {0, 1, 2, 3, 4},
         NEW x \in 1 .. n, NEW y \in 1 .. n, q * n + x = r * n + y
  PROVE  x = y
<1>1. CASE q = 0
  BY <1>1
<1>2. CASE q = 1
  BY <1>2
<1>3. CASE q = 2
  BY <1>3
<1>4. CASE q = 3
  BY <1>4
<1>5. CASE q = 4
  BY <1>5
<1> QED BY <1>1, <1>2, <1>3, <1>4, <1>5

LEMMA KeyIsNumber ==
  ASSUME NEW n \in Nat, NEW q \in {0, 1, 2, 3, 4}, NEW x \in Nat
  PROVE  q * n + x \in Nat
OBVIOUS

Copies == [Sessions -> {None} \cup Row]

(* The live workers of the order are presented, each once.                 *)
LEMMA PresentedIs ==
  ASSUME NEW copy \in Copies, NEW ord, Sequence(ord), NEW sorted \in BOOLEAN
  PROVE  /\ Sequence(Presented(copy, ord, sorted))
         /\ ToSet(Presented(copy, ord, sorted))
              = { s \in ToSet(ord) : Presentable(copy, s) }
<1> DEFINE ids == { s \in ToSet(ord) : Presentable(copy, s) }
           place == AntiFunction(ord)
           key == [s \in ids |-> IF sorted
                                 THEN Rank(copy[s].state) * Len(ord) + place[s]
                                 ELSE place[s]]
           shownIds == InOrder(ids, key)
<1>1. ord \in Seq(Sessions) /\ IsInjective(ord) /\ Len(ord) \in Nat
  BY DEF Sequence
<1>2. /\ \A s \in ToSet(ord) : place[s] \in 1 .. Len(ord) /\ ord[place[s]] = s
      /\ IsFiniteSet(ToSet(ord)) /\ ToSet(ord) \subseteq Sessions
  BY <1>1, PlaceInSeq
<1>3. IsFiniteSet(ids) /\ ids \subseteq Sessions /\ ids \subseteq ToSet(ord)
  BY <1>2, FS_Subset
<1> HIDE DEF place
<1>4. \A s \in ids : place[s] \in 1 .. Len(ord) /\ place[s] \in Nat
                     /\ ord[place[s]] = s
  BY <1>1, <1>2
<1>5. \A s \in ids : Rank(copy[s].state) \in {0, 1, 2, 3, 4}
  <2> SUFFICES ASSUME NEW s \in ids PROVE Rank(copy[s].state) \in {0, 1, 2, 3, 4}
    OBVIOUS
  <2>1. s \in Sessions /\ IsLive(copy[s])
    BY <1>3 DEF Presentable
  <2>2. copy[s] \in Row
    BY <2>1 DEF IsLive, Copies
  <2>3. copy[s].state \in SessionStates
    BY <2>2, SessionAssumption DEF Row, SessionStates
  <2> QED BY <2>3, RankIs
<1>6. \A s \in ids : key[s] = IF sorted
                              THEN Rank(copy[s].state) * Len(ord) + place[s]
                              ELSE place[s]
  OBVIOUS
<1> HIDE DEF ids, key
<1>7. \A s \in ids : key[s] \in Nat
  BY <1>1, <1>4, <1>5, <1>6, KeyIsNumber
<1>8. ASSUME NEW s \in ids, NEW t \in ids, key[s] = key[t] PROVE s = t
  <2>1. place[s] = place[t]
    <3>1. CASE sorted
      <4>1. Rank(copy[s].state) * Len(ord) + place[s]
              = Rank(copy[t].state) * Len(ord) + place[t]
        BY <1>6, <1>8, <3>1
      <4> QED BY <1>1, <1>4, <1>5, <4>1, PlaceOfKey
    <3>2. CASE ~ sorted
      BY <1>6, <1>8, <3>2
    <3> QED BY <3>1, <3>2
  <2> QED BY <1>4, <2>1
<1>9. shownIds \in SetToSeqs(ids)
  BY <1>3, <1>7, <1>8, InOrderIs
<1>10. shownIds \in Seq(ids) /\ IsInjective(shownIds) /\ ToSet(shownIds) = ids
  <2> HIDE DEF shownIds
  <2> QED BY <1>3, <1>9, Arranged
<1>11. shownIds \in Seq(Sessions)
  <2> HIDE DEF shownIds
  <2> QED BY <1>3, <1>10
<1>12. Presented(copy, ord, sorted) = shownIds
  BY DEF Presented, ids, key, place
<1> QED BY <1>10, <1>11, <1>12 DEF Sequence, ids

-----------------------------------------------------------------------------
(* Cards                                                                   *)

AllLive(copy, ids) == \A i \in 1 .. Len(ids) : IsLive(copy[ids[i]])

LEMMA LiveRow ==
  ASSUME NEW copy \in Copies, NEW s \in Sessions, IsLive(copy[s])
  PROVE  copy[s] \in Row /\ copy[s].state \in LiveStates
                         /\ copy[s].alias \in Aliases
<1>1. copy[s] \in Row /\ copy[s].state # "Exited"
  BY DEF Copies, IsLive
<1> QED BY <1>1 DEF Row

LEMMA CardsAre ==
  ASSUME NEW copy \in Copies, NEW ids \in Seq(Sessions), AllLive(copy, ids),
         NEW sel
  PROVE  CardsOf(copy, ids, sel) \in Seq(Card)
<1> DEFINE n == Len(ids)
           c == CardsOf(copy, ids, sel)
<1>1. n \in Nat
  OBVIOUS
<1>2. c = [i \in 1 .. n |->
             [session |-> ids[i], state |-> copy[ids[i]].state,
              alias |-> copy[ids[i]].alias, selected |-> ids[i] = sel]]
  BY DEF CardsOf
<1>3. ASSUME NEW i \in 1 .. n
      PROVE  [session |-> ids[i], state |-> copy[ids[i]].state,
              alias |-> copy[ids[i]].alias, selected |-> ids[i] = sel] \in Card
  <2>1. ids[i] \in Sessions /\ IsLive(copy[ids[i]])
    BY DEF AllLive
  <2>2. copy[ids[i]].state \in LiveStates /\ copy[ids[i]].alias \in Aliases
    BY <2>1, LiveRow
  <2>3. (ids[i] = sel) \in BOOLEAN
    OBVIOUS
  <2> QED BY <2>1, <2>2, <2>3, Zenon DEF Card
<1> HIDE DEF n, c
<1>4. c \in [1 .. n -> Card]
  BY <1>2, <1>3, Zenon
<1>5. c \in Seq(Card)
  BY <1>1, <1>4
<1> QED BY <1>5 DEF c

(* Every field is compared: what is not replaced is what would replace it. *)
LEMMA EqualCards ==
  ASSUME NEW c \in Card, NEW d \in Card, SameCard(c, d) PROVE c = d
<1>1. c.session = d.session /\ c.state = d.state /\ c.alias = d.alias
  BY DEF SameCard
<1>2. c.selected = d.selected
  BY Zenon DEF SameCard
<1>3. /\ c = [session |-> c.session, state |-> c.state, alias |-> c.alias,
              selected |-> c.selected]
      /\ d = [session |-> d.session, state |-> d.state, alias |-> d.alias,
              selected |-> d.selected]
  BY Zenon DEF Card
<1> QED BY <1>1, <1>2, <1>3, Zenon

LEMMA SetSessionsIs ==
  ASSUME NEW old \in Seq(Card), NEW new \in Seq(Card)
  PROVE  SetSessions(old, new) = new
<1>1. /\ Len(old) \in Nat /\ DOMAIN old = 1 .. Len(old)
      /\ Len(new) \in Nat /\ DOMAIN new = 1 .. Len(new)
      /\ new = [i \in 1 .. Len(new) |-> new[i]]
  OBVIOUS
<1>2. CASE [i \in 1 .. Len(old) |-> old[i].session]
             = [i \in 1 .. Len(new) |-> new[i].session]
  <2>1. 1 .. Len(old) = 1 .. Len(new)
    BY <1>2
  <2>2. ASSUME NEW i \in 1 .. Len(new)
        PROVE  (IF SameCard(old[i], new[i]) THEN old[i] ELSE new[i]) = new[i]
    <3>1. i \in 1 .. Len(old)
      BY <2>1, Zenon
    <3>2. old[i] \in Card /\ new[i] \in Card
      BY <3>1
    <3> QED BY <3>2, EqualCards
  <2>3. [i \in 1 .. Len(new) |-> IF SameCard(old[i], new[i]) THEN old[i]
                                                             ELSE new[i]]
          = [i \in 1 .. Len(new) |-> new[i]]
    BY <2>2, Zenon
  <2>4. SetSessions(old, new)
          = [i \in 1 .. Len(new) |-> IF SameCard(old[i], new[i]) THEN old[i]
                                                                 ELSE new[i]]
    BY <1>2, Zenon DEF SetSessions
  <2> QED BY <1>1, <2>3, <2>4, Zenon
<1>3. CASE [i \in 1 .. Len(old) |-> old[i].session]
             # [i \in 1 .. Len(new) |-> new[i].session]
  BY <1>3, Zenon DEF SetSessions
<1> QED BY <1>2, <1>3

LEMMA MarkedCard ==
  ASSUME NEW c \in Card, NEW sel
  PROVE  /\ [c EXCEPT !.selected = c.session = sel]
              = [session |-> c.session, state |-> c.state, alias |-> c.alias,
                 selected |-> c.session = sel]
         /\ [c EXCEPT !.selected = c.session = sel] \in Card
<1>1. c = [session |-> c.session, state |-> c.state, alias |-> c.alias,
           selected |-> c.selected]
  BY Zenon DEF Card
<1>2. /\ c.session \in Sessions /\ c.state \in LiveStates /\ c.alias \in Aliases
      /\ (c.session = sel) \in BOOLEAN
  BY DEF Card
<1>3. [c EXCEPT !.selected = c.session = sel]
        = [session |-> c.session, state |-> c.state, alias |-> c.alias,
           selected |-> c.session = sel]
  BY <1>1
<1>4. [session |-> c.session, state |-> c.state, alias |-> c.alias,
       selected |-> c.session = sel] \in Card
  BY <1>2, Zenon DEF Card
<1> QED BY <1>3, <1>4, Zenon

LEMMA MarksAre ==
  ASSUME NEW old \in Seq(Card), NEW sel
  PROVE  MarkCards(old, sel) \in Seq(Card)
<1>1. Len(old) \in Nat
  OBVIOUS
<1>2. \A i \in 1 .. Len(old) :
        [old[i] EXCEPT !.selected = old[i].session = sel] \in Card
  <2>1. \A i \in 1 .. Len(old) : old[i] \in Card
    OBVIOUS
  <2> QED BY <2>1, MarkedCard, Zenon
<1>3. MarkCards(old, sel) \in [1 .. Len(old) -> Card]
  BY <1>2, Zenon DEF MarkCards
<1> QED BY <1>1, <1>3

(* Moving the mark gives the cards of the other selection.                 *)
LEMMA MovedMark ==
  ASSUME NEW copy \in Copies, NEW ids \in Seq(Sessions), AllLive(copy, ids),
         NEW old, NEW sel
  PROVE  MarkCards(CardsOf(copy, ids, old), sel) = CardsOf(copy, ids, sel)
<1> DEFINE c == CardsOf(copy, ids, old)
           n == Len(ids)
<1>1. c \in Seq(Card)
  BY CardsAre
<1>2. n \in Nat
  OBVIOUS
<1>3. c = [i \in 1 .. n |->
             [session |-> ids[i], state |-> copy[ids[i]].state,
              alias |-> copy[ids[i]].alias, selected |-> ids[i] = old]]
  BY Zenon DEF CardsOf
<1> HIDE DEF c, n
<1>4. Len(c) = n /\ DOMAIN c = 1 .. n
  BY <1>1, <1>2, <1>3
<1>5. ASSUME NEW i \in 1 .. n
      PROVE  [c[i] EXCEPT !.selected = c[i].session = sel]
               = [session |-> ids[i], state |-> copy[ids[i]].state,
                  alias |-> copy[ids[i]].alias, selected |-> ids[i] = sel]
  <2>1. c[i] \in Card
    BY <1>1, <1>4
  <2>2. c[i] = [session |-> ids[i], state |-> copy[ids[i]].state,
                alias |-> copy[ids[i]].alias, selected |-> ids[i] = old]
    BY <1>3, Zenon
  <2>3. /\ c[i].session = ids[i] /\ c[i].state = copy[ids[i]].state
        /\ c[i].alias = copy[ids[i]].alias
    BY <2>2
  <2>4. [c[i] EXCEPT !.selected = c[i].session = sel]
          = [session |-> c[i].session, state |-> c[i].state,
             alias |-> c[i].alias, selected |-> c[i].session = sel]
    BY <2>1, MarkedCard, Zenon
  <2> QED BY <2>3, <2>4, Zenon
<1>6. [i \in 1 .. n |-> [c[i] EXCEPT !.selected = c[i].session = sel]]
        = [i \in 1 .. n |->
             [session |-> ids[i], state |-> copy[ids[i]].state,
              alias |-> copy[ids[i]].alias, selected |-> ids[i] = sel]]
  BY <1>5, Zenon
<1>7. MarkCards(c, sel)
        = [i \in 1 .. n |-> [c[i] EXCEPT !.selected = c[i].session = sel]]
  BY <1>4, Zenon DEF MarkCards
<1> QED BY <1>6, <1>7, Zenon DEF CardsOf, c, n

-----------------------------------------------------------------------------
(* A sequence with one element less, or one more                           *)

LEMMA TailAfter ==
  ASSUME NEW T, NEW l \in Seq(T), NEW k \in 0 .. Len(l)
  PROVE  LET b == SubSeq(l, k + 1, Len(l))
         IN  /\ b \in Seq(T) /\ Len(b) = Len(l) - k
             /\ \A i \in 1 .. Len(l) - k : b[i] = l[k + i]
<1> DEFINE b == SubSeq(l, k + 1, Len(l))
<1>1. Len(l) \in Nat /\ k \in Nat /\ k <= Len(l)
  OBVIOUS
<1>2. \A i \in k + 1 .. Len(l) : l[i] \in T
  BY <1>1
<1>3. /\ b \in Seq(T)
      /\ Len(b) = IF k + 1 <= Len(l) THEN Len(l) - (k + 1) + 1 ELSE 0
      /\ \A i \in 1 .. Len(l) - (k + 1) + 1 : b[i] = l[(k + 1) + i - 1]
  BY <1>1, <1>2, SubSeqProperties
<1> HIDE DEF b
<1>4. Len(b) = Len(l) - k
  BY <1>1, <1>3
<1>5. \A i \in 1 .. Len(l) - k : b[i] = l[k + i]
  BY <1>1, <1>3
<1> QED BY <1>3, <1>4, <1>5 DEF b

LEMMA Dropped ==
  ASSUME NEW T, NEW l \in Seq(T), NEW k \in 1 .. Len(l)
  PROVE  LET w == RemoveAt(l, k)
         IN /\ w \in Seq(T) /\ Len(w) = Len(l) - 1
            /\ \A m \in 1 .. Len(l) - 1 : w[m] = IF m < k THEN l[m] ELSE l[m + 1]
<1> DEFINE a == SubSeq(l, 1, k - 1)
           b == SubSeq(l, k + 1, Len(l))
<1>1. Len(l) \in Nat /\ k \in Nat /\ 1 <= k /\ k <= Len(l)
  OBVIOUS
<1>2. a \in Seq(T) /\ Len(a) = k - 1 /\ \A i \in 1 .. k - 1 : a[i] = l[i]
  BY <1>1, SubSeqProperties
<1>3. b \in Seq(T) /\ Len(b) = Len(l) - k /\ \A i \in 1 .. Len(l) - k : b[i] = l[k + i]
  BY <1>1, TailAfter
<1>4. RemoveAt(l, k) = a \o b
  BY DEF RemoveAt
<1> HIDE DEF a, b
<1>5. /\ a \o b \in Seq(T) /\ Len(a \o b) = Len(a) + Len(b)
      /\ \A i \in 1 .. Len(a) + Len(b) :
           (a \o b)[i] = IF i <= Len(a) THEN a[i] ELSE b[i - Len(a)]
  BY <1>2, <1>3, ConcatProperties
<1>6. Len(a \o b) = Len(l) - 1
  BY <1>1, <1>2, <1>3, <1>5
<1>7. ASSUME NEW m \in 1 .. Len(l) - 1
      PROVE  (a \o b)[m] = IF m < k THEN l[m] ELSE l[m + 1]
  <2>1. m \in 1 .. Len(a) + Len(b)
    BY <1>1, <1>2, <1>3
  <2>2. (a \o b)[m] = IF m <= Len(a) THEN a[m] ELSE b[m - Len(a)]
    BY <1>5, <2>1
  <2>3. CASE m < k
    BY <1>1, <1>2, <2>2, <2>3
  <2>4. CASE ~(m < k)
    <3>1. /\ m - Len(a) \in 1 .. Len(l) - k /\ k + (m - Len(a)) = m + 1
          /\ ~(m <= Len(a))
      BY <1>1, <1>2, <2>4
    <3> QED BY <1>3, <2>2, <2>4, <3>1
  <2> QED BY <2>3, <2>4
<1> QED BY <1>4, <1>5, <1>6, <1>7

(* What is put in pushes the others back.                                  *)
LEMMA PutIn ==
  ASSUME NEW T, NEW l \in Seq(T), NEW k \in 1 .. Len(l) + 1, NEW x \in T
  PROVE  LET w == InsertAt(l, k, x)
         IN /\ w \in Seq(T) /\ Len(w) = Len(l) + 1 /\ w[k] = x
            /\ \A m \in 1 .. Len(l) : w[IF m < k THEN m ELSE m + 1] = l[m]
<1> DEFINE a == SubSeq(l, 1, k - 1)
           b == SubSeq(l, k, Len(l))
           ax == a \o <<x>>
           w == ax \o b
           n == Len(l)
<1>1. n \in Nat /\ k \in Nat /\ 1 <= k /\ k <= n + 1
  OBVIOUS
<1>2. a \in Seq(T) /\ Len(a) = k - 1 /\ \A i \in 1 .. k - 1 : a[i] = l[i]
  BY <1>1, SubSeqProperties
<1>3. /\ b \in Seq(T) /\ Len(b) = n - (k - 1)
      /\ \A i \in 1 .. n - (k - 1) : b[i] = l[(k - 1) + i]
  <2>1. k - 1 \in 0 .. n /\ (k - 1) + 1 = k
    BY <1>1
  <2> QED BY <2>1, TailAfter
<1>4. InsertAt(l, k, x) = w
  BY DEF InsertAt
<1> HIDE DEF a, b, n
<1>5. /\ ax \in Seq(T) /\ Len(ax) = k /\ ax[k] = x
      /\ \A i \in 1 .. k - 1 : ax[i] = a[i]
  <2>1. <<x>> \in Seq(T) /\ Len(<<x>>) = 1 /\ <<x>>[1] = x
    OBVIOUS
  <2>2. /\ ax \in Seq(T) /\ Len(ax) = Len(a) + 1
        /\ \A i \in 1 .. Len(a) + 1 :
             ax[i] = IF i <= Len(a) THEN a[i] ELSE <<x>>[i - Len(a)]
    BY <1>2, <2>1, ConcatProperties
  <2> HIDE DEF ax
  <2>3. Len(ax) = k
    BY <1>1, <1>2, <2>2
  <2>4. ax[k] = x
    BY <1>1, <1>2, <2>1, <2>2
  <2>5. \A i \in 1 .. k - 1 : ax[i] = a[i]
    BY <1>1, <1>2, <2>2
  <2> QED BY <2>2, <2>3, <2>4, <2>5
<1> HIDE DEF ax
<1>6. /\ w \in Seq(T) /\ Len(w) = Len(ax) + Len(b)
      /\ \A i \in 1 .. Len(ax) + Len(b) :
           w[i] = IF i <= Len(ax) THEN ax[i] ELSE b[i - Len(ax)]
  BY <1>3, <1>5, ConcatProperties
<1> HIDE DEF w
<1>7. Len(w) = n + 1
  BY <1>1, <1>3, <1>5, <1>6
<1>8. w[k] = x
  BY <1>1, <1>3, <1>5, <1>6
<1>9. ASSUME NEW m \in 1 .. n
      PROVE  w[IF m < k THEN m ELSE m + 1] = l[m]
  <2>1. CASE m < k
    <3>1. m \in 1 .. Len(ax) + Len(b) /\ m <= Len(ax) /\ m \in 1 .. k - 1
      BY <1>1, <1>3, <1>5, <2>1
    <3>2. w[m] = ax[m] /\ ax[m] = a[m] /\ a[m] = l[m]
      BY <1>2, <1>5, <1>6, <3>1
    <3> QED BY <2>1, <3>2
  <2>2. CASE ~ (m < k)
    <3>1. /\ m + 1 \in 1 .. Len(ax) + Len(b) /\ ~ (m + 1 <= Len(ax))
          /\ (m + 1) - Len(ax) \in 1 .. n - (k - 1)
          /\ (k - 1) + ((m + 1) - Len(ax)) = m
      BY <1>1, <1>3, <1>5, <2>2
    <3>2. w[m + 1] = b[(m + 1) - Len(ax)]
      BY <1>6, <3>1
    <3>3. b[(m + 1) - Len(ax)] = l[m]
      BY <1>3, <3>1
    <3> QED BY <2>2, <3>2, <3>3
  <2> QED BY <2>1, <2>2
<1> QED BY <1>4, <1>6, <1>7, <1>8, <1>9 DEF n

-----------------------------------------------------------------------------
(* Presets                                                                 *)

LEMMA IndexIs ==
  ASSUME NEW presets \in Seq(Preset), NEW key
  PROVE  \/ CustomIndex(presets, key) = 0 /\ key \notin Keys(presets)
         \/ /\ CustomIndex(presets, key) \in 1 .. Len(presets)
            /\ presets[CustomIndex(presets, key)].key = key
<1> DEFINE found == { i \in 1 .. Len(presets) : presets[i].key = key }
<1>1. CustomIndex(presets, key) = IF found # {} THEN Min(found) ELSE 0
  BY DEF CustomIndex, SelectInSeq
<1>2. CASE found = {}
  <2>1. CustomIndex(presets, key) = 0
    BY <1>1, <1>2
  <2> QED BY <1>2, <2>1 DEF Keys
<1>3. CASE found # {}
  <2>1. found \in SUBSET Nat
    OBVIOUS
  <2>2. \E n \in found : \A m \in found : n <= m
    BY <1>3, <2>1, LeastElement
  <2>3. Min(found) \in found
    BY <2>2 DEF Min
  <2> QED BY <1>1, <1>3, <2>3
<1> QED BY <1>2, <1>3

LEMMA NormalizedKeyIs ==
  ASSUME NEW presets, NEW key
  PROVE  NormalizedKey(presets, key) \in BuiltIn \cup Keys(presets)
BY PresetAssumption DEF NormalizedKey

LEMMA KeysAre ==
  ASSUME NEW presets \in Seq(Preset) PROVE Keys(presets) \subseteq CustomKeys
<1>1. \A i \in 1 .. Len(presets) : presets[i] \in Preset
  OBVIOUS
<1> QED BY <1>1 DEF Keys, Preset

LEMMA SaveKeeps ==
  ASSUME NEW presets \in Seq(Preset), NEW active \in BuiltIn \cup Keys(presets),
         NEW key, NEW prompt \in Prompts \cup {Blank}, NEW fresh \in CustomKeys
  PROVE  LET new == SavePreset(presets, active, key, prompt, fresh)
         IN  /\ new.presets \in Seq(Preset)
             /\ new.active \in BuiltIn \cup Keys(new.presets)
<1> DEFINE i == CustomIndex(presets, key)
           new == SavePreset(presets, active, key, prompt, fresh)
<1>1. i = 0 \/ i \in 1 .. Len(presets)
  BY IndexIs
<1>2. Len(presets) \in Nat /\ DOMAIN presets = 1 .. Len(presets)
  OBVIOUS
<1>3. CASE prompt = Blank
  <2>1. new = [presets |-> presets, active |-> active]
    BY <1>3, Zenon DEF SavePreset
  <2> QED BY <2>1
<1>4. CASE prompt # Blank /\ i # 0
  <2> DEFINE c == [presets EXCEPT ![i].prompt = prompt]
  <2>1. new = [presets |-> c, active |-> active]
    BY <1>4, Zenon DEF SavePreset
  <2>2. prompt \in Prompts /\ i \in 1 .. Len(presets)
    BY <1>1, <1>4
  <2>3. presets[i] \in Preset
    BY <2>2
  <2>4. /\ [presets[i] EXCEPT !.prompt = prompt] \in Preset
        /\ [presets[i] EXCEPT !.prompt = prompt].key = presets[i].key
    BY <2>2, <2>3 DEF Preset
  <2> HIDE DEF i
  <2>5. /\ c \in Seq(Preset) /\ Len(c) = Len(presets)
        /\ \A j \in 1 .. Len(presets) : c[j].key = presets[j].key
    BY <1>2, <2>2, <2>4
  <2> HIDE DEF c
  <2>6. Keys(c) = Keys(presets)
    BY <2>5 DEF Keys
  <2> QED BY <2>1, <2>5, <2>6
<1>5. CASE prompt # Blank /\ i = 0
  <2> DEFINE p == [key |-> fresh, prompt |-> prompt]
             c == Append(presets, p)
  <2>1. new = [presets |-> c, active |-> fresh]
    BY <1>5, Zenon DEF SavePreset
  <2>2. p \in Preset /\ p.key = fresh
    BY <1>5 DEF Preset
  <2> HIDE DEF p
  <2>3. c \in Seq(Preset) /\ Len(c) = Len(presets) + 1 /\ c[Len(presets) + 1] = p
    BY <2>2, AppendProperties
  <2> HIDE DEF c
  <2>4. Len(presets) + 1 \in 1 .. Len(c)
    BY <1>2, <2>3
  <2>5. fresh \in Keys(c)
    BY <2>2, <2>3, <2>4 DEF Keys
  <2> QED BY <2>1, <2>3, <2>5
<1> QED BY <1>3, <1>4, <1>5

LEMMA DeleteKeeps ==
  ASSUME NEW presets \in Seq(Preset), NEW active \in BuiltIn \cup Keys(presets),
         NEW key
  PROVE  LET new == DeletePreset(presets, active, key)
         IN  /\ new.presets \in Seq(Preset)
             /\ new.active \in BuiltIn \cup Keys(new.presets)
<1> DEFINE i == CustomIndex(presets, key)
           c == RemoveAt(presets, i)
           left == IF i = 0 THEN presets ELSE c
           kept == IF i # 0 /\ active = key THEN Standard ELSE active
<1>1. DeletePreset(presets, active, key) = [presets |-> left, active |-> kept]
  BY DEF DeletePreset
<1>2. CASE i = 0
  <2>1. left = presets /\ kept = active
    BY <1>2
  <2> HIDE DEF left, kept
  <2> QED BY <1>1, <2>1
<1>3. CASE i # 0
  <2>1. i \in 1 .. Len(presets) /\ presets[i].key = key
    BY <1>3, IndexIs
  <2> HIDE DEF i
  <2>2. Len(presets) \in Nat
    OBVIOUS
  <2>3. /\ c \in Seq(Preset) /\ Len(c) = Len(presets) - 1
        /\ \A m \in 1 .. Len(presets) - 1 :
             c[m] = IF m < i THEN presets[m] ELSE presets[m + 1]
    BY <2>1, Dropped
  <2> HIDE DEF c
  <2>4. ASSUME active # key, active \notin BuiltIn
        PROVE  active \in Keys(c)
    <3>1. PICK j \in 1 .. Len(presets) : presets[j].key = active
      BY <2>4 DEF Keys
    <3>2. j # i
      BY <2>1, <2>4, <3>1
    <3>3. CASE j < i
      <4>1. j \in 1 .. Len(c) /\ c[j] = presets[j]
        BY <2>1, <2>2, <2>3, <3>3
      <4> QED BY <3>1, <4>1 DEF Keys
    <3>4. CASE i < j
      <4>1. j - 1 \in 1 .. Len(presets) - 1 /\ ~ (j - 1 < i) /\ (j - 1) + 1 = j
        BY <2>1, <2>2, <3>4
      <4>2. j - 1 \in 1 .. Len(c) /\ c[j - 1] = presets[j]
        BY <2>3, <4>1
      <4> QED BY <3>1, <4>2 DEF Keys
    <3> QED BY <2>1, <2>2, <3>2, <3>3, <3>4
  <2>5. left = c /\ kept = IF active = key THEN Standard ELSE active
    BY <1>3
  <2> HIDE DEF left, kept
  <2>6. kept \in BuiltIn \cup Keys(c)
    BY <2>4, <2>5, PresetAssumption
  <2> QED BY <1>1, <2>3, <2>5, <2>6
<1> QED BY <1>2, <1>3

LEMMA NormalizedIs ==
  ASSUME NEW presets \in Seq(Preset), NEW fresh \in CustomKeys
  PROVE  NormalizedPresets(presets, fresh) \in Seq(Preset)
<1> DEFINE prompted == { i \in DOMAIN presets : presets[i].prompt # Blank }
           key == [i \in prompted |-> i]
           kept == InOrder(prompted, key)
           usable(i) == /\ presets[i].key \in CustomKeys
                        /\ \A j \in prompted :
                             j < i => presets[j].key # presets[i].key
<1>1. Len(presets) \in Nat /\ DOMAIN presets = 1 .. Len(presets)
  OBVIOUS
<1>2. IsFiniteSet(prompted)
  <2>1. IsFiniteSet(1 .. Len(presets))
    BY <1>1, FS_Interval
  <2>2. prompted \in SUBSET (1 .. Len(presets))
    BY <1>1
  <2> QED BY <2>1, <2>2, FS_Subset
<1>3. \A i \in prompted : i \in 1 .. Len(presets) /\ key[i] \in Nat /\ key[i] = i
  BY <1>1
<1> HIDE DEF prompted, key
<1>4. kept \in SetToSeqs(prompted)
  BY <1>2, <1>3, InOrderIs
<1> HIDE DEF kept
<1>5. kept \in Seq(prompted)
  BY <1>2, <1>4, Arranged
<1>6. /\ DOMAIN kept = 1 .. Len(kept) /\ Len(kept) \in Nat
      /\ \A n \in 1 .. Len(kept) : kept[n] \in 1 .. Len(presets)
  BY <1>3, <1>5
<1>7. ASSUME NEW n \in DOMAIN kept
      PROVE  (IF usable(kept[n]) THEN presets[kept[n]]
              ELSE [presets[kept[n]] EXCEPT !.key = fresh]) \in Preset
  <2>1. presets[kept[n]] \in Preset
    BY <1>6
  <2>2. [presets[kept[n]] EXCEPT !.key = fresh] \in Preset
    BY <2>1 DEF Preset
  <2> QED BY <2>1, <2>2
<1>8. NormalizedPresets(presets, fresh)
        = [n \in DOMAIN kept |->
             IF usable(kept[n]) THEN presets[kept[n]]
             ELSE [presets[kept[n]] EXCEPT !.key = fresh]]
  BY DEF NormalizedPresets, kept, key, prompted
<1> HIDE DEF usable
<1>9. NormalizedPresets(presets, fresh) \in [1 .. Len(kept) -> Preset]
  BY <1>6, <1>7, <1>8
<1> QED BY <1>6, <1>9

-----------------------------------------------------------------------------
(* Moving a session                                                        *)

(* Where the place i goes when the element at f is moved to t; moving it   *)
(* back is the same with f and t exchanged.                                *)
Forth(f, t, i) ==
  LET j == IF i < f THEN i ELSE i - 1
  IN  IF i = f THEN t ELSE IF j < t THEN j ELSE j + 1

LEMMA ForthIs ==
  ASSUME NEW n \in Nat, NEW f \in 1 .. n, NEW t \in 1 .. n, NEW i \in 1 .. n
  PROVE  /\ Forth(f, t, i) \in 1 .. n
         /\ Forth(t, f, Forth(f, t, i)) = i
         /\ \A k \in 1 .. n : i # f /\ k # f /\ i < k
                              => Forth(f, t, i) < Forth(f, t, k)
BY DEF Forth

LEMMA MovedIs ==
  ASSUME NEW ord, Sequence(ord), NEW f \in 1 .. Len(ord), NEW t \in 1 .. Len(ord)
  PROVE  LET new == InsertAt(RemoveAt(ord, f), t, ord[f])
         IN  /\ Sequence(new) /\ ToSet(new) = ToSet(ord)
             /\ \A a, b \in ToSet(ord) \ {ord[f]} :
                  Before(ord, a, b) => Before(new, a, b)
<1> DEFINE n == Len(ord)
           rest == RemoveAt(ord, f)
           new == InsertAt(rest, t, ord[f])
<1>1. /\ ord \in Seq(Sessions) /\ IsInjective(ord) /\ n \in Nat
      /\ DOMAIN ord = 1 .. n /\ ord[f] \in Sessions
      /\ f \in Nat /\ 1 <= f /\ f <= n /\ t \in Nat /\ 1 <= t /\ t <= n
  BY DEF Sequence
<1>2. /\ rest \in Seq(Sessions) /\ Len(rest) = n - 1
      /\ \A m \in 1 .. n - 1 : rest[m] = IF m < f THEN ord[m] ELSE ord[m + 1]
  BY <1>1, Dropped
<1> HIDE DEF rest
<1>3. t \in 1 .. Len(rest) + 1
  BY <1>1, <1>2
<1>4. /\ new \in Seq(Sessions) /\ Len(new) = Len(rest) + 1 /\ new[t] = ord[f]
      /\ \A m \in 1 .. Len(rest) : new[IF m < t THEN m ELSE m + 1] = rest[m]
  BY <1>1, <1>2, <1>3, PutIn
<1> HIDE DEF new
<1>5. Len(new) = n /\ DOMAIN new = 1 .. n
  BY <1>1, <1>2, <1>4
<1> HIDE DEF n
<1>6. ASSUME NEW i \in 1 .. n PROVE new[Forth(f, t, i)] = ord[i]
  <2>1. CASE i = f
    BY <1>4, <2>1 DEF Forth
  <2>2. CASE i # f
    <3> DEFINE j == IF i < f THEN i ELSE i - 1
    <3>1. j \in 1 .. n - 1 /\ (IF j < f THEN j ELSE j + 1) = i
      BY <1>1, <2>2
    <3>2. Forth(f, t, i) = IF j < t THEN j ELSE j + 1
      BY <2>2 DEF Forth
    <3> HIDE DEF j
    <3>3. rest[j] = ord[i]
      BY <1>2, <3>1
    <3>4. j \in 1 .. Len(rest)
      BY <1>2, <3>1
    <3> QED BY <1>4, <3>2, <3>3, <3>4
  <2> QED BY <2>1, <2>2
<1>7. ASSUME NEW m \in 1 .. n
      PROVE  Forth(t, f, m) \in 1 .. n /\ new[m] = ord[Forth(t, f, m)]
  <2>1. f \in 1 .. n /\ t \in 1 .. n
    BY <1>1
  <2>2. Forth(t, f, m) \in 1 .. n /\ Forth(f, t, Forth(t, f, m)) = m
    BY <1>1, <2>1, ForthIs
  <2> QED BY <1>6, <2>2
<1>8. IsInjective(new)
  <2> SUFFICES ASSUME NEW i \in 1 .. n, NEW j \in 1 .. n, new[i] = new[j]
               PROVE  i = j
    BY <1>5 DEF IsInjective
  <2>1. Forth(t, f, i) = Forth(t, f, j)
    BY <1>1, <1>7 DEF IsInjective
  <2>2. f \in 1 .. n /\ t \in 1 .. n
    BY <1>1
  <2>3. Forth(f, t, Forth(t, f, i)) = i /\ Forth(f, t, Forth(t, f, j)) = j
    BY <1>1, <2>2, ForthIs
  <2> QED BY <2>1, <2>3
<1>9. ToSet(new) = ToSet(ord)
  <2>1. ToSet(new) \subseteq ToSet(ord)
    BY <1>1, <1>5, <1>7 DEF ToSet
  <2>2. \A i \in 1 .. n : Forth(f, t, i) \in 1 .. n
    <3>1. f \in 1 .. n /\ t \in 1 .. n
      BY <1>1
    <3> QED BY <1>1, <3>1, ForthIs
  <2>3. ToSet(ord) \subseteq ToSet(new)
    BY <1>1, <1>5, <1>6, <2>2 DEF ToSet
  <2> QED BY <2>1, <2>3
<1>10. ASSUME NEW a \in ToSet(ord) \ {ord[f]}, NEW b \in ToSet(ord) \ {ord[f]},
              Before(ord, a, b)
       PROVE  Before(new, a, b)
  <2>1. PICK i, k \in 1 .. n : i < k /\ ord[i] = a /\ ord[k] = b
    BY <1>10 DEF Before, n
  <2>2. i # f /\ k # f
    BY <2>1
  <2>3. f \in 1 .. n /\ t \in 1 .. n
    BY <1>1
  <2>4. /\ Forth(f, t, i) \in 1 .. n /\ Forth(f, t, k) \in 1 .. n
        /\ Forth(f, t, i) < Forth(f, t, k)
    BY <1>1, <2>1, <2>2, <2>3, ForthIs
  <2>5. new[Forth(f, t, i)] = a /\ new[Forth(f, t, k)] = b
    BY <1>6, <2>1
  <2> QED BY <1>5, <2>4, <2>5 DEF Before
<1>11. Sequence(new)
  BY <1>4, <1>8 DEF Sequence
<1> QED BY <1>9, <1>10, <1>11 DEF new, rest

-----------------------------------------------------------------------------
(* The invariant                                                           *)

(* The table and the bounds: only sessions that were handed out have rows, *)
(* and no more were handed out than the user acted.                        *)
TableOK ==
  /\ rows \in Copies
  /\ doing \in [Sessions -> LiveStates \cup {"Exited"}]
  /\ up \in BOOLEAN
  /\ born \subseteq Sessions
  /\ actions \in 0 .. MaxActions /\ crashes \in 0 .. MaxCrashes
  /\ \A s \in Sessions : rows[s] # None => s \in born
  /\ Cardinality(born) <= actions

(* What is in memory, and that the order is always the saved one.          *)
MemoryOK ==
  /\ shown \in Copies
  /\ Sequence(order) /\ autosort \in BOOLEAN
  /\ selected \in Sessions \cup {None}
  /\ cards \in Seq(Card) /\ entries \subseteq Sessions
  /\ control \in [ControlKinds -> Sessions \cup {None}]
  /\ manifest.workers \in [Sessions -> {None} \cup Named]
  /\ manifest.control \in [ControlKinds -> Sessions \cup {None}]
  /\ config.presets \in Seq(Preset)
  /\ PresetExists
  /\ saved \in Settings /\ loaded \in BOOLEAN
  /\ saved.order = order /\ saved.autosort = autosort
  /\ \A s \in Sessions : shown[s] # None => s \in born
  /\ ToSet(order) \subseteq born

AgreeOK ==
  BoardIsCurrent /\ SelectionIsLive /\ ManifestListsWorkers /\ SavedIsCurrent

BoardInv == TableOK /\ MemoryOK /\ AgreeOK

LEMMA TypesFollow == ASSUME BoardInv PROVE TypeOK
<1>1. config.active \in BuiltIn \cup CustomKeys
  <2>1. Keys(config.presets) \subseteq CustomKeys
    BY KeysAre DEF BoardInv, MemoryOK
  <2> QED BY <2>1 DEF BoardInv, MemoryOK, PresetExists
<1>2. order \in Seq(Sessions) /\ IsInjective(order)
  BY DEF BoardInv, MemoryOK, Sequence
<1>3. {loaded, up} \subseteq BOOLEAN
  <2>1. loaded \in BOOLEAN /\ up \in BOOLEAN
    BY DEF BoardInv, MemoryOK, TableOK
  <2> QED BY <2>1, Zenon
<1> QED BY <1>1, <1>2, <1>3, Zenon
        DEF BoardInv, TableOK, MemoryOK, TypeOK, Copies

(* Settings with the same signature are the same.                          *)
LEMMA SignatureTells ==
  ASSUME NEW r \in Settings, NEW o, NEW a, NEW s, NEW k, NEW p,
         Signature([order |-> o, autosort |-> a, selected |-> s, active |-> k,
                    presets |-> p]) = Signature(r)
  PROVE  r = [order |-> o, autosort |-> a, selected |-> s, active |-> k,
              presets |-> p]
<1>1. r = [order |-> r.order, autosort |-> r.autosort, selected |-> r.selected,
           active |-> r.active, presets |-> r.presets]
  BY Zenon DEF Settings
<1>2. <<a, s, k, p, o>>
        = <<r.autosort, r.selected, r.active, r.presets, r.order>>
  BY DEF Signature
<1>3. a = r.autosort /\ s = r.selected /\ k = r.active /\ p = r.presets /\ o = r.order
  BY <1>2, Zenon
<1> QED BY <1>1, <1>3, Zenon

LEMMA PersistIs ==
  ASSUME saved \in Settings, Persist
  PROVE  saved' = [order |-> order', autosort |-> autosort',
                   selected |-> selected', active |-> config'.active,
                   presets |-> config'.presets]
<1>1. CASE Signature([order |-> order', autosort |-> autosort',
                      selected |-> selected', active |-> config'.active,
                      presets |-> config'.presets]) = Signature(saved)
  <2>1. saved' = saved
    BY <1>1, Zenon DEF Persist
  <2>2. saved = [order |-> order', autosort |-> autosort',
                 selected |-> selected', active |-> config'.active,
                 presets |-> config'.presets]
    BY <1>1, SignatureTells
  <2> QED BY <2>1, <2>2, Zenon
<1>2. CASE Signature([order |-> order', autosort |-> autosort',
                      selected |-> selected', active |-> config'.active,
                      presets |-> config'.presets]) # Signature(saved)
  BY <1>2, Zenon DEF Persist
<1> QED BY <1>1, <1>2, Zenon

LEMMA SettingsAre ==
  ASSUME NEW o, Sequence(o), NEW a \in BOOLEAN, NEW s \in Sessions \cup {None},
         NEW p \in Seq(Preset), NEW k \in BuiltIn \cup Keys(p)
  PROVE  [order |-> o, autosort |-> a, selected |-> s, active |-> k,
          presets |-> p] \in Settings
<1>1. k \in BuiltIn \cup CustomKeys
  BY KeysAre
<1>2. o \in Seq(Sessions)
  BY DEF Sequence
<1> QED BY <1>1, <1>2, Zenon DEF Settings

LEMMA SetOf ==
  ASSUME NEW T, NEW w \in Seq(T)
  PROVE  /\ Len(w) \in Nat
         /\ \A i \in 1 .. Len(w) : w[i] \in ToSet(w) /\ w[i] \in T
         /\ \A x : Contains(w, x) <=> x \in ToSet(w)
         /\ \A x \in ToSet(w) : \E i \in 1 .. Len(w) : w[i] = x
         /\ ToSet(w) = {} <=> w = <<>>
<1>1. Len(w) \in Nat /\ DOMAIN w = 1 .. Len(w)
  OBVIOUS
<1>2. \A x : x \in ToSet(w) <=> \E i \in 1 .. Len(w) : w[i] = x
  BY <1>1 DEF ToSet
<1>3. ToSet(w) = {} <=> w = <<>>
  <2>1. ASSUME w # <<>> PROVE 1 \in 1 .. Len(w)
    BY <2>1
  <2>2. ASSUME w = <<>> PROVE ~ \E i \in 1 .. Len(w) : TRUE
    BY <2>2
  <2> QED BY <1>2, <2>1, <2>2
<1> QED BY <1>1, <1>2, <1>3 DEF Contains

(* The selection that is resolved is one of the cards, if there is any.    *)
LEMMA ResolvedIs ==
  ASSUME NEW ids \in Seq(Sessions), NEW sel \in Sessions \cup {None}
  PROVE  /\ Resolved(ids, sel) \in Sessions \cup {None}
         /\ Resolved(ids, sel) = None => ids = <<>>
         /\ Resolved(ids, sel) # None => Resolved(ids, sel) \in ToSet(ids)
<1>1. CASE Contains(ids, sel)
  <2>1. Resolved(ids, sel) = sel
    BY <1>1, Zenon DEF Resolved
  <2>2. sel \in ToSet(ids) /\ sel \in Sessions
    BY <1>1, SetOf
  <2> QED BY <2>1, <2>2, SessionAssumption
<1>2. CASE ~ Contains(ids, sel) /\ ids # <<>>
  <2>1. Resolved(ids, sel) = ids[1]
    BY <1>2, Zenon DEF Resolved
  <2>2. 1 \in 1 .. Len(ids)
    BY <1>2
  <2>3. ids[1] \in ToSet(ids) /\ ids[1] \in Sessions
    BY <2>2, SetOf
  <2> QED BY <2>1, <2>3, SessionAssumption
<1>3. CASE ~ Contains(ids, sel) /\ ids = <<>>
  <2>1. Resolved(ids, sel) = None
    BY <1>3, Zenon DEF Resolved
  <2> QED BY <1>3, <2>1
<1> QED BY <1>1, <1>2, <1>3

LEMMA ControlsAre ==
  ASSUME NEW copy, NEW found \in Controls(copy)
  PROVE  found \in [ControlKinds -> Sessions \cup {None}]
<1>1. PICK m \in ControlOf(copy, "Master"), r \in ControlOf(copy, "Router") :
        found = [kind \in ControlKinds |-> IF kind = "Master" THEN m ELSE r]
  BY DEF Controls
<1>2. m \in Sessions \cup {None} /\ r \in Sessions \cup {None}
  BY DEF ControlOf
<1> QED BY <1>1, <1>2

(* A copy with the same live sessions has the same control sessions.       *)
LEMMA SameControls ==
  ASSUME NEW copy, NEW other,
         \A s \in Sessions : IsLive(copy[s]) <=> IsLive(other[s])
  PROVE  Controls(copy) = Controls(other)
<1>1. \A k : ControlOf(copy, k) = ControlOf(other, k)
  <2> SUFFICES ASSUME NEW k PROVE ControlOf(copy, k) = ControlOf(other, k)
    OBVIOUS
  <2>1. { s \in Sessions : IsLive(copy[s]) /\ Kind[s] = k }
          = { s \in Sessions : IsLive(other[s]) /\ Kind[s] = k }
    OBVIOUS
  <2> QED BY <2>1, Zenon DEF ControlOf
<1>2. /\ ControlOf(copy, "Master") = ControlOf(other, "Master")
      /\ ControlOf(copy, "Router") = ControlOf(other, "Router")
  BY <1>1
<1> DEFINE made(M, R) ==
             { [kind \in ControlKinds |-> IF kind = "Master" THEN m ELSE r] :
                 m \in M, r \in R }
<1>3. /\ Controls(copy) = made(ControlOf(copy, "Master"), ControlOf(copy, "Router"))
      /\ Controls(other) = made(ControlOf(other, "Master"), ControlOf(other, "Router"))
  BY DEF Controls
<1> HIDE DEF made
<1> QED BY <1>2, <1>3

(* The manifest that is written has the state of every live worker.        *)
LEMMA ManifestIs ==
  ASSUME NEW copy \in Copies, NEW found
  PROVE  /\ ManifestOf(copy, found).control = found
         /\ ManifestOf(copy, found).workers \in [Sessions -> {None} \cup Named]
         /\ \A s \in Sessions :
              IF Presentable(copy, s)
              THEN /\ ManifestOf(copy, found).workers[s] # None
                   /\ ManifestOf(copy, found).workers[s].state = copy[s].state
              ELSE ManifestOf(copy, found).workers[s] = None
<1> DEFINE w == ManifestOf(copy, found).workers
<1>1. /\ ManifestOf(copy, found).control = found
      /\ w = [s \in Sessions |->
                IF Presentable(copy, s)
                THEN [state |-> copy[s].state, alias |-> copy[s].alias]
                ELSE None]
  BY DEF ManifestOf
<1> HIDE DEF w
<1>2. ASSUME NEW s \in Sessions, Presentable(copy, s)
      PROVE  /\ w[s] \in Named /\ w[s] # None /\ w[s].state = copy[s].state
  <2>1. IsLive(copy[s])
    BY <1>2 DEF Presentable
  <2>2. copy[s].state \in LiveStates /\ copy[s].alias \in Aliases
    BY <2>1, LiveRow
  <2>3. w[s] = [state |-> copy[s].state, alias |-> copy[s].alias]
    BY <1>1, <1>2, Zenon
  <2>4. w[s] \in Named /\ w[s].state = copy[s].state
    BY <2>2, <2>3 DEF Named
  <2> QED BY <2>4, RowAssumption
<1>3. ASSUME NEW s \in Sessions, ~ Presentable(copy, s) PROVE w[s] = None
  BY <1>1, <1>3, Zenon
<1>4. w \in [Sessions -> {None} \cup Named]
  <2>1. DOMAIN w = Sessions
    BY <1>1, Zenon
  <2>2. w = [s \in Sessions |-> w[s]]
    BY <1>1, Zenon
  <2>3. \A s \in Sessions : w[s] \in {None} \cup Named
    BY <1>2, <1>3
  <2> QED BY <2>2, <2>3, Zenon
<1> QED BY <1>1, <1>2, <1>3, <1>4 DEF w

-----------------------------------------------------------------------------
(* What the shared steps leave                                             *)

(* A handler that ends with a new copy leaves everything in agreement with *)
(* it, whatever the copy and the order it starts from.                     *)
LEMMA ShowIs ==
  ASSUME MemoryOK, NEW copy \in Copies, NEW ord, Sequence(ord),
         NEW pick \in Sessions \cup {None}, pick # None => IsLive(copy[pick]),
         \A s \in Sessions : copy[s] # None => s \in born',
         Show(copy, ord, pick)
  PROVE  MemoryOK' /\ AgreeOK' /\ order' \in NewOrders(ord, copy) /\ shown' = copy
<1>1. PICK o \in NewOrders(ord, copy), found \in Controls(copy) :
        LET ids  == Presented(copy, o, autosort)
            kept == Resolved(ids, selected)
            made == SetSessions(MarkCards(cards, kept), CardsOf(copy, ids, kept))
        IN  /\ order' = o
            /\ control' = found
            /\ manifest' = ManifestOf(copy, found)
            /\ selected' = IF pick = None THEN kept ELSE pick
            /\ cards' = IF pick = None THEN made ELSE MarkCards(made, pick)
  BY Zenon DEF Show
<1>2. /\ shown' = copy /\ entries' = EntriesOf(copy) /\ loaded' = TRUE
      /\ autosort' = autosort /\ config' = config /\ Persist
  BY DEF Show
<1>3. /\ Sequence(o) /\ ToSet(o) = LiveIn(copy)
  BY NewOrderIs
<1> DEFINE ids == Presented(copy, o, autosort)
           kept == Resolved(ids, selected)
<1>4. /\ Sequence(ids)
      /\ ToSet(ids) = { s \in ToSet(o) : Presentable(copy, s) }
  BY <1>3, PresentedIs DEF MemoryOK
<1>5. ids \in Seq(Sessions) /\ IsInjective(ids)
  BY <1>4 DEF Sequence
<1> HIDE DEF ids
<1>6. \A s \in ToSet(ids) : IsLive(copy[s])
  BY <1>4 DEF Presentable
<1>7. AllLive(copy, ids)
  BY <1>5, <1>6, SetOf DEF AllLive
<1>8. /\ kept \in Sessions \cup {None}
      /\ kept = None => ids = <<>>
      /\ kept # None => kept \in ToSet(ids)
  BY <1>5, ResolvedIs DEF MemoryOK
<1> HIDE DEF kept
<1>9. SetSessions(MarkCards(cards, kept), CardsOf(copy, ids, kept))
        = CardsOf(copy, ids, kept)
  <2>1. MarkCards(cards, kept) \in Seq(Card)
    BY MarksAre DEF MemoryOK
  <2>2. CardsOf(copy, ids, kept) \in Seq(Card)
    BY <1>5, <1>7, CardsAre
  <2> QED BY <2>1, <2>2, SetSessionsIs
<1>10. /\ order' = o /\ control' = found /\ manifest' = ManifestOf(copy, found)
       /\ selected' = IF pick = None THEN kept ELSE pick
       /\ cards' = IF pick = None THEN CardsOf(copy, ids, kept)
                   ELSE MarkCards(CardsOf(copy, ids, kept), pick)
  BY <1>1, <1>9 DEF ids, kept
<1>11. cards' = CardsOf(copy, ids, selected')
  <2>1. CASE pick = None
    BY <1>10, <2>1
  <2>2. CASE pick # None
    BY <1>5, <1>7, <1>10, <2>2, MovedMark
  <2> QED BY <2>1, <2>2
<1>12. /\ selected' \in Sessions \cup {None}
       /\ selected' = None => cards' = <<>>
       /\ selected' # None => IsLive(copy[selected'])
  <2>1. CASE pick = None
    <3>1. selected' = kept
      BY <1>10, <2>1
    <3>2. kept = None => cards' = <<>>
      <4>1. CardsOf(copy, <<>>, kept) = <<>>
        BY DEF CardsOf
      <4> QED BY <1>8, <1>11, <3>1, <4>1
    <3> QED BY <1>6, <1>8, <3>1, <3>2
  <2>2. CASE pick # None
    BY <1>10, <2>2
  <2> QED BY <2>1, <2>2
<1>13. cards' \in Seq(Card)
  BY <1>5, <1>7, <1>11, CardsAre
<1>14. saved' = [order |-> order', autosort |-> autosort',
                 selected |-> selected', active |-> config'.active,
                 presets |-> config'.presets]
  BY <1>2, PersistIs DEF MemoryOK
<1>15. /\ autosort' \in BOOLEAN /\ config'.presets \in Seq(Preset)
       /\ config'.active \in BuiltIn \cup Keys(config'.presets)
  BY <1>2, Zenon DEF MemoryOK, PresetExists
<1>16. Sequence(order') /\ ToSet(order') = LiveIn(copy)
  BY <1>3, <1>10
<1>17. saved' \in Settings
  BY <1>12, <1>14, <1>15, <1>16, SettingsAre
<1>18. saved'.order = order' /\ saved'.autosort = autosort'
  <2>1. saved'.order = order'
    BY <1>14
  <2>2. saved'.autosort = autosort'
    BY <1>14, Zenon
  <2> QED BY <2>1, <2>2
<1>19. /\ manifest'.control = control'
       /\ manifest'.workers \in [Sessions -> {None} \cup Named]
       /\ \A s \in Sessions :
            IF Presentable(copy, s)
            THEN /\ manifest'.workers[s] # None
                 /\ manifest'.workers[s].state = copy[s].state
            ELSE manifest'.workers[s] = None
  BY <1>10, ManifestIs
<1>20. control' \in Controls(copy) /\ control' \in [ControlKinds -> Sessions \cup {None}]
  BY <1>10, ControlsAre
<1>21. entries' \subseteq Sessions
  BY <1>2 DEF EntriesOf
<1>22. ToSet(order') \subseteq born'
  <2>1. \A s \in LiveIn(copy) : s \in Sessions /\ copy[s] # None
    BY DEF LiveIn, IsLive
  <2> QED BY <1>16, <2>1
<1>23. MemoryOK'
  <2>1. PresetExists'
    BY <1>15 DEF PresetExists
  <2>2. loaded' \in BOOLEAN
    BY <1>2, Zenon
  <2>3. shown' \in Copies /\ \A s \in Sessions : shown'[s] # None => s \in born'
    BY <1>2
  <2>4. manifest'.control \in [ControlKinds -> Sessions \cup {None}]
    BY <1>19, <1>20
  <2> QED BY <1>12, <1>13, <1>15, <1>16, <1>17, <1>18, <1>19, <1>20, <1>21,
             <1>22, <2>1, <2>2, <2>3, <2>4, Zenon DEF MemoryOK
<1>24. AgreeOK'
  <2>1. BoardIsCurrent'
    BY <1>2, <1>10, <1>11, Zenon DEF BoardIsCurrent, ids
  <2>2. SelectionIsLive'
    BY <1>2, <1>12 DEF SelectionIsLive
  <2>3. ManifestListsWorkers'
    BY <1>2, <1>19, <1>20, Zenon DEF ManifestListsWorkers
  <2>4. SavedIsCurrent'
    BY <1>14 DEF SavedIsCurrent
  <2> QED BY <2>1, <2>2, <2>3, <2>4 DEF AgreeOK
<1>25. order' \in NewOrders(ord, copy)
  BY <1>10
<1> QED BY <1>2, <1>23, <1>24, <1>25

(* The cards of a board that is current.                                   *)
LEMMA BoardIs ==
  ASSUME MemoryOK, NEW ord, Sequence(ord), NEW sorted \in BOOLEAN,
         NEW copy \in Copies
  PROVE  LET ids == Presented(copy, ord, sorted)
         IN  /\ ids \in Seq(Sessions) /\ AllLive(copy, ids)
             /\ ToSet(ids) = { s \in ToSet(ord) : Presentable(copy, s) }
             /\ \A sel : CardsOf(copy, ids, sel) \in Seq(Card)
             /\ \A sel : SetSessions(cards, CardsOf(copy, ids, sel))
                           = CardsOf(copy, ids, sel)
             /\ \A sel : CardsOf(copy, ids, sel) = <<>> <=> ids = <<>>
<1> DEFINE ids == Presented(copy, ord, sorted)
<1>1. Sequence(ids) /\ ToSet(ids) = { s \in ToSet(ord) : Presentable(copy, s) }
  BY PresentedIs
<1>2. ids \in Seq(Sessions)
  BY <1>1 DEF Sequence
<1> HIDE DEF ids
<1>3. AllLive(copy, ids)
  <2>1. \A s \in ToSet(ids) : IsLive(copy[s])
    BY <1>1 DEF Presentable
  <2> QED BY <1>2, <2>1, SetOf DEF AllLive
<1>4. \A sel : CardsOf(copy, ids, sel) \in Seq(Card)
  BY <1>2, <1>3, CardsAre
<1>5. \A sel : SetSessions(cards, CardsOf(copy, ids, sel)) = CardsOf(copy, ids, sel)
  BY <1>4, SetSessionsIs DEF MemoryOK
<1>6. ASSUME NEW sel PROVE CardsOf(copy, ids, sel) = <<>> <=> ids = <<>>
  <2>1. Len(ids) \in Nat /\ DOMAIN CardsOf(copy, ids, sel) = 1 .. Len(ids)
    BY <1>2 DEF CardsOf
  <2>2. CardsOf(copy, ids, sel) \in Seq(Card)
    BY <1>4
  <2>3. Len(CardsOf(copy, ids, sel)) = Len(ids)
    BY <2>1, <2>2
  <2> QED BY <1>2, <2>2, <2>3
<1> QED BY <1>1, <1>2, <1>3, <1>4, <1>5, <1>6 DEF ids

(* A presented session is selected.                                        *)
LEMMA SelectIs ==
  ASSUME MemoryOK, AgreeOK, up, up' = up, born' = born, NEW s \in Sessions,
         IsLive(shown[s]), SetSelected(s)
  PROVE  MemoryOK' /\ AgreeOK' /\ order' = order
<1>1. /\ selected' = s /\ cards' = MarkCards(cards, s)
      /\ UNCHANGED <<shown, order, entries, control, manifest, loaded, autosort,
                     config>>
      /\ Persist
  BY DEF SetSelected
<1> DEFINE ids == Presented(shown, order, autosort)
<1>2. cards = CardsOf(shown, ids, selected)
  BY DEF AgreeOK, BoardIsCurrent
<1>3. /\ ids \in Seq(Sessions) /\ AllLive(shown, ids)
      /\ \A sel : CardsOf(shown, ids, sel) \in Seq(Card)
  BY BoardIs DEF MemoryOK
<1> HIDE DEF ids
<1>4. cards' = CardsOf(shown, ids, s)
  BY <1>1, <1>2, <1>3, MovedMark DEF MemoryOK
<1>5. saved' = [order |-> order', autosort |-> autosort',
                selected |-> selected', active |-> config'.active,
                presets |-> config'.presets]
  BY <1>1, PersistIs DEF MemoryOK
<1>6. saved' \in Settings
  <2>1. /\ Sequence(order') /\ autosort' \in BOOLEAN
        /\ selected' \in Sessions \cup {None}
        /\ config'.presets \in Seq(Preset)
        /\ config'.active \in BuiltIn \cup Keys(config'.presets)
    BY <1>1, Zenon DEF MemoryOK, PresetExists
  <2> QED BY <1>5, <2>1, SettingsAre
<1>7. saved'.order = order' /\ saved'.autosort = autosort'
  <2>1. saved'.order = order'
    BY <1>5
  <2>2. saved'.autosort = autosort'
    BY <1>5, Zenon
  <2> QED BY <2>1, <2>2
<1>8. MemoryOK'
  <2>1. cards' \in Seq(Card) /\ selected' \in Sessions \cup {None}
    BY <1>1, <1>3, <1>4
  <2>2. PresetExists'
    BY <1>1 DEF MemoryOK, PresetExists
  <2> QED BY <1>1, <1>6, <1>7, <2>1, <2>2, Zenon DEF MemoryOK
<1>9. AgreeOK'
  <2>1. BoardIsCurrent'
    <3>1. BoardIsCurrent
      BY DEF AgreeOK
    <3> QED BY <1>1, <1>4, <3>1, Zenon DEF BoardIsCurrent, ids
  <2>2. SelectionIsLive'
    <3>1. s # None
      BY SessionAssumption
    <3> QED BY <1>1, <3>1, Zenon DEF SelectionIsLive
  <2>3. ManifestListsWorkers'
    <3>1. ManifestListsWorkers
      BY DEF AgreeOK
    <3> QED BY <1>1, <3>1, Zenon DEF ManifestListsWorkers
  <2>4. SavedIsCurrent'
    BY <1>5 DEF SavedIsCurrent
  <2> QED BY <2>1, <2>2, <2>3, <2>4 DEF AgreeOK
<1> QED BY <1>1, <1>8, <1>9

(* The lists are made anew for an order of the same sessions.              *)
LEMMA ArrangeIs ==
  ASSUME MemoryOK, AgreeOK, up, up' = up, born' = born,
         Sequence(order'), ToSet(order') = ToSet(order), autosort' \in BOOLEAN,
         UNCHANGED <<shown, selected, control, manifest, config, loaded>>,
         Sync, Persist
  PROVE  MemoryOK' /\ AgreeOK'
<1> DEFINE ids == Presented(shown, order, autosort)
           new == Presented(shown', order', autosort')
<1>1. cards = CardsOf(shown, ids, selected) /\ entries = EntriesOf(shown)
  BY DEF AgreeOK, BoardIsCurrent
<1>2. /\ ids \in Seq(Sessions)
      /\ ToSet(ids) = { s \in ToSet(order) : Presentable(shown, s) }
      /\ CardsOf(shown, ids, selected) = <<>> <=> ids = <<>>
  BY BoardIs DEF MemoryOK
<1>3. shown' = shown /\ shown' \in Copies
  BY DEF MemoryOK
<1>4. /\ new \in Seq(Sessions)
      /\ ToSet(new) = { s \in ToSet(order') : Presentable(shown', s) }
      /\ \A sel : CardsOf(shown', new, sel) \in Seq(Card)
      /\ \A sel : SetSessions(cards, CardsOf(shown', new, sel))
                    = CardsOf(shown', new, sel)
      /\ \A sel : CardsOf(shown', new, sel) = <<>> <=> new = <<>>
  BY <1>3, BoardIs
<1>5. /\ cards' = SetSessions(cards, CardsOf(shown', new, selected'))
      /\ entries' = EntriesOf(shown')
  BY DEF Sync
<1> HIDE DEF ids, new
<1>6. cards' = CardsOf(shown', new, selected') /\ cards' \in Seq(Card)
  BY <1>4, <1>5
<1>7. cards = <<>> => cards' = <<>>
  <2> SUFFICES ASSUME cards = <<>> PROVE cards' = <<>>
    OBVIOUS
  <2>1. ToSet(ids) = {}
    BY <1>1, <1>2, SetOf
  <2>2. ToSet(new) = {}
    BY <1>2, <1>3, <1>4, <2>1
  <2>3. new = <<>>
    BY <1>4, <2>2, SetOf
  <2> QED BY <1>4, <1>6, <2>3
<1>8. saved' = [order |-> order', autosort |-> autosort',
                selected |-> selected', active |-> config'.active,
                presets |-> config'.presets]
  BY PersistIs DEF MemoryOK
<1>9. saved' \in Settings
  <2>1. /\ selected' \in Sessions \cup {None}
        /\ config'.presets \in Seq(Preset)
        /\ config'.active \in BuiltIn \cup Keys(config'.presets)
    BY Zenon DEF MemoryOK, PresetExists
  <2> QED BY <1>8, <2>1, SettingsAre
<1>10. saved'.order = order' /\ saved'.autosort = autosort'
  <2>1. saved'.order = order'
    BY <1>8
  <2>2. saved'.autosort = autosort'
    BY <1>8, Zenon
  <2> QED BY <2>1, <2>2
<1>11. MemoryOK'
  <2>1. PresetExists'
    BY DEF MemoryOK, PresetExists
  <2>2. entries' \subseteq Sessions
    BY <1>5 DEF EntriesOf
  <2> QED BY <1>6, <1>9, <1>10, <2>1, <2>2, Zenon DEF MemoryOK
<1>12. AgreeOK'
  <2>1. BoardIsCurrent'
    BY <1>5, <1>6, Zenon DEF BoardIsCurrent, new
  <2>2. SelectionIsLive'
    <3>1. SelectionIsLive
      BY DEF AgreeOK
    <3> QED BY <1>7, <3>1, Zenon DEF SelectionIsLive
  <2>3. ManifestListsWorkers'
    <3>1. ManifestListsWorkers
      BY DEF AgreeOK
    <3> QED BY <3>1, Zenon DEF ManifestListsWorkers
  <2>4. SavedIsCurrent'
    BY <1>8 DEF SavedIsCurrent
  <2> QED BY <2>1, <2>2, <2>3, <2>4 DEF AgreeOK
<1> QED BY <1>11, <1>12

(* Presets change nothing of what is shown.                                *)
LEMMA ConfigureIs ==
  ASSUME MemoryOK, AgreeOK, NEW presets \in Seq(Preset),
         NEW active \in BuiltIn \cup Keys(presets), Configure(presets, active)
  PROVE  MemoryOK' /\ AgreeOK' /\ order' = order
<1>1. /\ config' = [presets |-> presets, active |-> active]
      /\ shown' = shown /\ order' = order /\ selected' = selected
      /\ cards' = cards /\ entries' = entries /\ control' = control
      /\ manifest' = manifest /\ loaded' = loaded /\ autosort' = autosort
      /\ up' = up /\ born' = born /\ Persist
  BY DEF Configure, copies
<1>2. config'.presets = presets /\ config'.active = active
  BY <1>1
<1>3. saved' = [order |-> order', autosort |-> autosort',
                selected |-> selected', active |-> config'.active,
                presets |-> config'.presets]
  BY <1>1, PersistIs DEF MemoryOK
<1>4. saved' \in Settings
  <2>1. /\ Sequence(order') /\ autosort' \in BOOLEAN
        /\ selected' \in Sessions \cup {None}
    BY <1>1, Zenon DEF MemoryOK
  <2> QED BY <1>2, <1>3, <2>1, SettingsAre
<1>5. saved'.order = order' /\ saved'.autosort = autosort'
  <2>1. saved'.order = order'
    BY <1>3
  <2>2. saved'.autosort = autosort'
    BY <1>3, Zenon
  <2> QED BY <2>1, <2>2
<1>6. MemoryOK'
  <2>1. PresetExists' /\ config'.presets \in Seq(Preset)
    BY <1>2 DEF PresetExists
  <2> QED BY <1>1, <1>4, <1>5, <2>1, Zenon DEF MemoryOK
<1>7. AgreeOK'
  <2>1. BoardIsCurrent' /\ SelectionIsLive' /\ ManifestListsWorkers'
    <3>1. BoardIsCurrent /\ SelectionIsLive /\ ManifestListsWorkers
      BY DEF AgreeOK
    <3>2. BoardIsCurrent'
      BY <1>1, <3>1, Zenon DEF BoardIsCurrent
    <3>3. SelectionIsLive'
      BY <1>1, <3>1, Zenon DEF SelectionIsLive
    <3>4. ManifestListsWorkers'
      BY <1>1, <3>1, Zenon DEF ManifestListsWorkers
    <3> QED BY <3>2, <3>3, <3>4
  <2>2. SavedIsCurrent'
    BY <1>3 DEF SavedIsCurrent
  <2> QED BY <2>1, <2>2 DEF AgreeOK
<1> QED BY <1>1, <1>6, <1>7

(* Nothing in memory changes, and the app does not come up.                *)
LEMMA QuietIs ==
  ASSUME MemoryOK, AgreeOK,
         UNCHANGED <<shown, order, autosort, selected, cards, entries, control,
                     manifest, config, saved, loaded, born>>,
         up' => up
  PROVE  MemoryOK' /\ AgreeOK'
<1>1. MemoryOK'
  <2>1. PresetExists'
    BY DEF MemoryOK, PresetExists
  <2> QED BY <2>1, Zenon DEF MemoryOK
<1>2. BoardIsCurrent /\ SelectionIsLive /\ ManifestListsWorkers /\ SavedIsCurrent
  BY DEF AgreeOK
<1>3. BoardIsCurrent'
  BY <1>2, Zenon DEF BoardIsCurrent
<1>4. SelectionIsLive'
  BY <1>2, Zenon DEF SelectionIsLive
<1>5. ManifestListsWorkers'
  BY <1>2, Zenon DEF ManifestListsWorkers
<1>6. SavedIsCurrent'
  BY <1>2, Zenon DEF SavedIsCurrent
<1> QED BY <1>1, <1>3, <1>4, <1>5, <1>6 DEF AgreeOK

(* A name changes neither who is live nor in which state.                  *)
LEMMA RenamedIs ==
  ASSUME NEW copy \in Copies, NEW s \in Sessions, IsLive(copy[s]),
         NEW new \in Copies, new[s] \in Row, new[s].state = copy[s].state,
         \A t \in Sessions \ {s} : new[t] = copy[t]
  PROVE  \A t \in Sessions : /\ new[t] # None <=> copy[t] # None
                             /\ IsLive(new[t]) <=> IsLive(copy[t])
                             /\ IsLive(copy[t]) => new[t].state = copy[t].state
<1>1. copy[s] # None /\ copy[s].state # "Exited" /\ new[s] # None
  BY RowAssumption DEF IsLive
<1> SUFFICES ASSUME NEW t \in Sessions
             PROVE  /\ new[t] # None <=> copy[t] # None
                    /\ IsLive(new[t]) <=> IsLive(copy[t])
                    /\ IsLive(copy[t]) => new[t].state = copy[t].state
  OBVIOUS
<1>2. CASE t = s
  BY <1>1, <1>2 DEF IsLive
<1>3. CASE t # s
  BY <1>3
<1> QED BY <1>2, <1>3

LEMMA RenameIs ==
  ASSUME MemoryOK, AgreeOK, up, up' = up, born' = born, shown' \in Copies,
         \A t \in Sessions : /\ shown'[t] # None <=> shown[t] # None
                             /\ IsLive(shown'[t]) <=> IsLive(shown[t])
                             /\ IsLive(shown[t])
                                => shown'[t].state = shown[t].state,
         UNCHANGED <<order, selected, autosort, control, manifest, config,
                     saved, loaded>>,
         Sync
  PROVE  MemoryOK' /\ AgreeOK'
<1> DEFINE ids == Presented(shown, order, autosort)
           new == Presented(shown', order', autosort')
<1>1. cards = CardsOf(shown, ids, selected) /\ entries = EntriesOf(shown)
  BY DEF AgreeOK, BoardIsCurrent
<1>2. /\ ids \in Seq(Sessions)
      /\ ToSet(ids) = { t \in ToSet(order) : Presentable(shown, t) }
      /\ CardsOf(shown, ids, selected) = <<>> <=> ids = <<>>
  BY BoardIs DEF MemoryOK
<1>3. /\ shown' \in Copies
      /\ \A t \in Sessions : /\ shown'[t] # None <=> shown[t] # None
                             /\ IsLive(shown'[t]) <=> IsLive(shown[t])
                             /\ IsLive(shown[t]) => shown'[t].state = shown[t].state
  OBVIOUS
<1>4. /\ Sequence(order') /\ autosort' \in BOOLEAN
  BY Zenon DEF MemoryOK
<1>5. /\ new \in Seq(Sessions)
      /\ ToSet(new) = { t \in ToSet(order') : Presentable(shown', t) }
      /\ \A sel : CardsOf(shown', new, sel) \in Seq(Card)
      /\ \A sel : SetSessions(cards, CardsOf(shown', new, sel))
                    = CardsOf(shown', new, sel)
      /\ \A sel : CardsOf(shown', new, sel) = <<>> <=> new = <<>>
  <2>1. shown' \in Copies /\ Sequence(order') /\ autosort' \in BOOLEAN
    BY <1>3, <1>4
  <2>2. MemoryOK
    OBVIOUS
  <2> QED BY <2>1, <2>2, BoardIs
<1>6. /\ cards' = SetSessions(cards, CardsOf(shown', new, selected'))
      /\ entries' = EntriesOf(shown')
  BY DEF Sync
<1> HIDE DEF ids, new
<1>7. cards' = CardsOf(shown', new, selected') /\ cards' \in Seq(Card)
  BY <1>5, <1>6
<1>8. cards = <<>> => cards' = <<>>
  <2> SUFFICES ASSUME cards = <<>> PROVE cards' = <<>>
    OBVIOUS
  <2>1. ToSet(ids) = {}
    BY <1>1, <1>2, SetOf
  <2>2. ToSet(order) \subseteq Sessions
    BY PlaceInSeq DEF MemoryOK, Sequence
  <2>3. ToSet(new) = {}
    BY <1>2, <1>3, <1>5, <2>1, <2>2 DEF Presentable
  <2>4. new = <<>>
    BY <1>5, <2>3, SetOf
  <2> QED BY <1>5, <1>7, <2>4
<1>9. MemoryOK'
  <2>1. PresetExists'
    BY DEF MemoryOK, PresetExists
  <2>2. entries' \subseteq Sessions
    BY <1>6 DEF EntriesOf
  <2>3. \A t \in Sessions : shown'[t] # None => t \in born'
    BY <1>3 DEF MemoryOK
  <2> QED BY <1>3, <1>4, <1>7, <2>1, <2>2, <2>3, Zenon DEF MemoryOK
<1>10. AgreeOK'
  <2>1. BoardIsCurrent'
    BY <1>6, <1>7, Zenon DEF BoardIsCurrent, new
  <2>2. SelectionIsLive'
    <3>1. SelectionIsLive
      BY DEF AgreeOK
    <3>2. selected # None => selected \in Sessions
      BY DEF MemoryOK
    <3>3. selected # None => (IsLive(shown'[selected]) <=> IsLive(shown[selected]))
      BY <1>3, <3>2
    <3> QED BY <1>8, <3>1, <3>3, Zenon DEF SelectionIsLive
  <2>3. ManifestListsWorkers'
    <3>1. ManifestListsWorkers
      BY DEF AgreeOK
    <3>2. Controls(shown') = Controls(shown)
      BY <1>3, SameControls
    <3>3. \A t \in Sessions : /\ Presentable(shown', t) <=> Presentable(shown, t)
                              /\ Presentable(shown, t)
                                 => shown'[t].state = shown[t].state
      BY <1>3 DEF Presentable
    <3> QED BY <3>1, <3>2, <3>3 DEF ManifestListsWorkers
  <2>4. SavedIsCurrent'
    <3>1. SavedIsCurrent
      BY DEF AgreeOK
    <3> QED BY <3>1, Zenon DEF SavedIsCurrent
  <2> QED BY <2>1, <2>2, <2>3, <2>4 DEF AgreeOK
<1> QED BY <1>9, <1>10

(* The start takes everything from the settings, and shows nothing yet.    *)
LEMMA StartIs ==
  ASSUME MemoryOK, Start
  PROVE  MemoryOK' /\ AgreeOK' /\ order' = order
<1>1. /\ order' = saved.order /\ autosort' = saved.autosort
      /\ selected' = saved.selected
      /\ shown' = NoRows /\ cards' = <<>> /\ entries' = {}
      /\ control' = NoControl /\ loaded' = FALSE
      /\ manifest' = manifest /\ saved' = saved /\ born' = born
  BY DEF Start
<1>2. PICK fresh \in CustomKeys :
        LET presets == NormalizedPresets(saved.presets, fresh)
        IN  config' = [presets |-> presets,
                       active |-> NormalizedKey(presets, saved.active)]
  BY DEF Start
<1>3. /\ Sequence(saved.order) /\ saved.order = order
      /\ saved.selected \in Sessions \cup {None}
      /\ saved.presets \in Seq(Preset)
  BY Zenon DEF MemoryOK, Settings
<1>4. saved.autosort \in BOOLEAN /\ saved.autosort = autosort
  BY Zenon DEF MemoryOK, Settings
<1>5. config'.presets \in Seq(Preset) /\ PresetExists'
  <2> DEFINE presets == NormalizedPresets(saved.presets, fresh)
  <2>1. presets \in Seq(Preset)
    BY <1>3, NormalizedIs
  <2>2. config' = [presets |-> presets,
                   active |-> NormalizedKey(presets, saved.active)]
    BY <1>2
  <2>3. NormalizedKey(presets, saved.active) \in BuiltIn \cup Keys(presets)
    BY NormalizedKeyIs
  <2> HIDE DEF presets
  <2> QED BY <2>1, <2>2, <2>3 DEF PresetExists
<1>6. NoRows \in Copies /\ \A s \in Sessions : NoRows[s] = None
  BY DEF NoRows, Copies
<1>7. MemoryOK'
  <2>1. cards' \in Seq(Card) /\ entries' \subseteq Sessions
    BY <1>1
  <2>2. control' \in [ControlKinds -> Sessions \cup {None}]
    BY <1>1 DEF NoControl
  <2>3. loaded' \in BOOLEAN
    BY <1>1, Zenon
  <2>4. autosort' \in BOOLEAN /\ saved'.autosort = autosort'
    BY <1>1, <1>4, Zenon
  <2>5. \A s \in Sessions : shown'[s] # None => s \in born'
    BY <1>1, <1>6
  <2>6. order' = order /\ Sequence(order') /\ saved'.order = order'
    BY <1>1, <1>3
  <2>7. /\ manifest'.workers \in [Sessions -> {None} \cup Named]
        /\ manifest'.control \in [ControlKinds -> Sessions \cup {None}]
        /\ saved' \in Settings /\ ToSet(order') \subseteq born'
        /\ selected' \in Sessions \cup {None} /\ shown' \in Copies
    BY <1>1, <1>3, <1>6, <2>6, Zenon DEF MemoryOK
  <2> QED BY <1>5, <2>1, <2>2, <2>3, <2>4, <2>5, <2>6, <2>7, Zenon DEF MemoryOK
<1>8. AgreeOK'
  <2>1. BoardIsCurrent'
    <3> DEFINE ids == Presented(shown', order', autosort')
    <3>1. Sequence(order') /\ autosort' \in BOOLEAN /\ shown' \in Copies
      BY <1>7 DEF MemoryOK
    <3>2. /\ Sequence(ids)
          /\ ToSet(ids) = { s \in ToSet(order') : Presentable(shown', s) }
      BY <3>1, PresentedIs
    <3>3. ToSet(order') \subseteq Sessions
      BY <3>1, PlaceInSeq DEF Sequence
    <3> HIDE DEF ids
    <3>4. ToSet(ids) = {}
      BY <1>1, <1>6, <3>2, <3>3 DEF Presentable, IsLive
    <3>5. ids = <<>>
      BY <3>2, <3>4, SetOf DEF Sequence
    <3>6. CardsOf(shown', ids, selected') = <<>>
      BY <3>5 DEF CardsOf
    <3>7. EntriesOf(shown') = {}
      BY <1>1, <1>6 DEF EntriesOf, IsExited
    <3> QED BY <1>1, <3>6, <3>7, Zenon DEF BoardIsCurrent, ids
  <2>2. SelectionIsLive'
    BY <1>1, Zenon DEF SelectionIsLive
  <2>3. ManifestListsWorkers'
    BY <1>1, Zenon DEF ManifestListsWorkers
  <2>4. SavedIsCurrent'
    BY <1>1, Zenon DEF SavedIsCurrent
  <2> QED BY <2>1, <2>2, <2>3, <2>4 DEF AgreeOK
<1>9. order' = order
  BY <1>1, <1>3
<1> QED BY <1>7, <1>8, <1>9

-----------------------------------------------------------------------------
(* Rows                                                                    *)

LEMMA BornIs ==
  ASSUME TableOK
  PROVE  /\ IsFiniteSet(born) /\ Cardinality(born) \in Nat
         /\ actions \in Nat /\ Cardinality(born) <= actions
<1>1. born \in SUBSET Sessions
  BY DEF TableOK
<1>2. IsFiniteSet(born)
  BY <1>1, FS_Subset, SessionAssumption
<1> QED BY <1>2, FS_CardinalityType, BoardBounds DEF TableOK

(* There is an alias nobody has: no more sessions have rows than the user  *)
(* acted, and the alphabet is longer than that.                            *)
LEMMA NextAliasIs ==
  ASSUME TableOK, actions < MaxActions, NEW table \in Copies,
         \A s \in Sessions : table[s] # None => s \in born
  PROVE  NextAlias(table) \in Aliases
<1> DEFINE live == { t \in Sessions : IsLive(table[t]) }
           taken == { table[s].alias : s \in live }
           f == [s \in live |-> table[s].alias]
<1>1. live \in SUBSET born
  BY DEF IsLive
<1>2. IsFiniteSet(live) /\ Cardinality(live) <= Cardinality(born)
  BY <1>1, BornIs, FS_Subset
<1>3. f \in Surjection(live, taken)
  BY DEF Surjection
<1> HIDE DEF f, live
<1>4. IsFiniteSet(taken) /\ Cardinality(taken) <= Cardinality(live)
  BY <1>2, <1>3, FS_Surjection
<1> HIDE DEF taken
<1>5. LastAlias \in Nat /\ LastAlias >= MaxActions /\ MaxActions \in Nat
  BY BoardBounds
<1>6. Cardinality(Aliases) = LastAlias
  <2>1. Cardinality(1 .. LastAlias) = LastAlias
    BY <1>5, FS_Interval
  <2> QED BY <2>1 DEF Aliases
<1>7. Aliases \ taken # {}
  <2> SUFFICES ASSUME Aliases \ taken = {} PROVE FALSE
    OBVIOUS
  <2>1. Aliases \in SUBSET taken
    OBVIOUS
  <2>2. Cardinality(Aliases) <= Cardinality(taken)
    BY <1>4, <2>1, FS_Subset
  <2>3. /\ Cardinality(taken) \in Nat /\ Cardinality(live) \in Nat
        /\ Cardinality(born) \in Nat /\ actions \in Nat
        /\ Cardinality(born) <= actions
    BY <1>2, <1>4, BornIs, FS_CardinalityType
  <2> QED BY <1>2, <1>4, <1>5, <1>6, <2>2, <2>3
<1>8. Aliases \ taken \in SUBSET Nat
  BY DEF Aliases
<1>9. \E a \in Aliases \ taken : \A b \in Aliases \ taken : a <= b
  BY <1>7, <1>8, LeastElement
<1>10. NextAlias(table)
         = CHOOSE a \in Aliases : a \notin taken
                                  /\ \A b \in Aliases \ taken : a <= b
  BY DEF NextAlias, taken, live
<1> QED BY <1>9, <1>10

LEMMA NewRowIs ==
  ASSUME NEW table, NextAlias(table) \in Aliases, NEW row \in NewRow(table)
  PROVE  row \in Row /\ row # None /\ IsLive(row)
<1>1. PICK t \in {"pending", "found"} :
        row = [state |-> "Starting", alias |-> NextAlias(table), token |-> t]
  BY DEF NewRow
<1>2. "Starting" \in LiveStates
  BY SessionAssumption
<1>3. row \in Row
  BY <1>1, <1>2 DEF Row
<1>4. row # None
  BY <1>3, RowAssumption
<1>5. row.state = "Starting"
  BY <1>1
<1> QED BY <1>3, <1>4, <1>5 DEF IsLive

LEMMA RowChanges ==
  ASSUME NEW r \in Row, NEW state \in LiveStates \cup {"Exited"},
         NEW token \in {"pending", "found"}, NEW alias \in Aliases
  PROVE  /\ [r EXCEPT !.state = state] \in Row
         /\ [r EXCEPT !.state = state, !.token = token] \in Row
         /\ [r EXCEPT !.state = state, !.token = token].state = state
         /\ [r EXCEPT !.alias = alias] \in Row
BY DEF Row

LEMMA ClosedIs ==
  ASSUME NEW r \in Row, NEW closed \in ClosedRows(r)
  PROVE  closed \in Row
<1>1. PICK t \in {r.token, "found"} :
        closed = [r EXCEPT !.state = "Exited", !.token = t]
  BY DEF ClosedRows
<1>2. t \in {"pending", "found"}
  BY DEF Row
<1> QED BY <1>1, <1>2, RowChanges DEF Row

LEMMA ObservedIs ==
  ASSUME TableOK, NEW table \in Copies
  PROVE  /\ Observed(table) \in Copies
         /\ \A s \in Sessions : Observed(table)[s] # None => table[s] # None
<1>1. ASSUME NEW s \in Sessions
      PROVE  /\ Observed(table)[s] \in {None} \cup Row
             /\ Observed(table)[s] # None => table[s] # None
  <2>1. CASE IsLive(table[s])
    <3>1. table[s] \in Row /\ doing[s] \in LiveStates \cup {"Exited"}
      BY <2>1, LiveRow DEF TableOK
    <3>2. Observed(table)[s] = [table[s] EXCEPT !.state = doing[s]]
      BY <2>1, Zenon DEF Observed
    <3>3. [table[s] EXCEPT !.state = doing[s]] \in Row
      BY <3>1 DEF Row
    <3> QED BY <2>1, <3>2, <3>3 DEF IsLive
  <2>2. CASE ~ IsLive(table[s])
    <3>1. Observed(table)[s] = table[s]
      BY <2>2, Zenon DEF Observed
    <3> QED BY <3>1 DEF Copies
  <2> QED BY <2>1, <2>2
<1>2. DOMAIN Observed(table) = Sessions
      /\ Observed(table) = [s \in Sessions |-> Observed(table)[s]]
  BY Zenon DEF Observed
<1>3. Observed(table) \in Copies
  BY <1>1, <1>2, Zenon DEF Copies
<1> QED BY <1>1, <1>3

(* The table after a step that hands no session out.                       *)
LEMMA TableStays ==
  ASSUME TableOK, rows' \in Copies,
         doing' \in [Sessions -> LiveStates \cup {"Exited"}], up' \in BOOLEAN,
         born' = born, \A s \in Sessions : rows'[s] # None => s \in born,
         actions' = actions \/ (actions < MaxActions /\ actions' = actions + 1),
         crashes' \in 0 .. MaxCrashes
  PROVE  TableOK'
<1>1. actions \in 0 .. MaxActions /\ MaxActions \in Nat
  BY BoardBounds DEF TableOK
<1>2. actions' \in 0 .. MaxActions /\ Cardinality(born') <= actions'
  BY <1>1, BornIs
<1>3. born' \subseteq Sessions
  BY DEF TableOK
<1> QED BY <1>2, <1>3, Zenon DEF TableOK

(* The table after a step of the user that hands one out.                  *)
LEMMA TableGrows ==
  ASSUME TableOK, rows' \in Copies,
         doing' \in [Sessions -> LiveStates \cup {"Exited"}], up' \in BOOLEAN,
         NEW n \in Sessions, n \notin born, born' = born \cup {n},
         \A s \in Sessions : rows'[s] # None => s \in born',
         actions < MaxActions, actions' = actions + 1, crashes' = crashes
  PROVE  TableOK'
<1>1. actions \in 0 .. MaxActions /\ MaxActions \in Nat
  BY BoardBounds DEF TableOK
<1>2. Cardinality(born') = Cardinality(born) + 1
  BY BornIs, FS_AddElement
<1>3. actions' \in 0 .. MaxActions /\ Cardinality(born') <= actions'
  BY <1>1, <1>2, BornIs
<1>4. born' \subseteq Sessions /\ crashes' \in 0 .. MaxCrashes
  BY DEF TableOK
<1> QED BY <1>3, <1>4, Zenon DEF TableOK

-----------------------------------------------------------------------------
(* The steps                                                               *)

OrderStep ==
  order' # order =>
    \A a, b \in ToSet(order) \cap ToSet(order') :
      Before(order, a, b)
      => \/ Before(order', a, b)
         \/ \E index \in 1 .. Len(cards) : Move(a, index) \/ Move(b, index)

StepOK == BoardInv' /\ OrderStep

(* A step that ends with a new copy, from the order as it was.             *)
LEMMA ShowStep ==
  ASSUME BoardInv, TableOK', NEW copy \in Copies,
         NEW pick \in Sessions \cup {None}, pick # None => IsLive(copy[pick]),
         \A s \in Sessions : copy[s] # None => s \in born',
         Show(copy, order, pick)
  PROVE  StepOK
<1>1. MemoryOK /\ Sequence(order)
  BY DEF BoardInv, MemoryOK
<1>2. MemoryOK' /\ AgreeOK' /\ order' \in NewOrders(order, copy)
  BY <1>1, ShowIs
<1>3. \A a, b \in ToSet(order') : Before(order, a, b) => Before(order', a, b)
  BY <1>1, <1>2, NewOrderIs
<1> QED BY <1>2, <1>3 DEF StepOK, BoardInv, OrderStep

LEMMA LaunchStep ==
  ASSUME BoardInv, NEW s \in Sessions, Launch(s) PROVE StepOK
<1>1. /\ up /\ actions < MaxActions /\ actions' = actions + 1
      /\ s \notin born /\ born' = born \cup {s}
      /\ doing' = [doing EXCEPT ![s] = "Starting"]
      /\ up' = up /\ crashes' = crashes
  BY DEF Launch, Act
<1>2. PICK row \in NewRow(rows) :
        /\ rows' = [rows EXCEPT ![s] = row]
        /\ Show([shown EXCEPT ![s] = row], order,
                IF Kind[s] = "Worker" THEN s ELSE None)
  BY DEF Launch
<1>3. TableOK /\ MemoryOK
  BY DEF BoardInv
<1>4. NextAlias(rows) \in Aliases
  BY <1>1, <1>3, NextAliasIs DEF TableOK
<1>5. row \in Row /\ row # None /\ IsLive(row)
  BY <1>4, NewRowIs
<1>6. TableOK'
  <2>1. rows' \in Copies
    BY <1>2, <1>3, <1>5 DEF TableOK, Copies
  <2>2. doing' \in [Sessions -> LiveStates \cup {"Exited"}]
    BY <1>1, <1>3, SessionAssumption DEF TableOK
  <2>3. \A t \in Sessions : rows'[t] # None => t \in born'
    BY <1>1, <1>2, <1>3 DEF TableOK, Copies
  <2>4. up' \in BOOLEAN
    BY <1>1, <1>3, Zenon DEF TableOK
  <2> QED BY <1>1, <1>3, <2>1, <2>2, <2>3, <2>4, TableGrows
<1>7. PICK copy : copy = [shown EXCEPT ![s] = row]
  OBVIOUS
<1>8. PICK pick : pick = IF Kind[s] = "Worker" THEN s ELSE None
  OBVIOUS
<1>9. Show(copy, order, pick)
  BY <1>2, <1>7, <1>8
<1>10. copy \in Copies /\ copy[s] = row
  BY <1>3, <1>5, <1>7 DEF MemoryOK, Copies
<1>11. \A t \in Sessions : copy[t] # None => t \in born'
  BY <1>1, <1>3, <1>7 DEF MemoryOK, Copies
<1>12. /\ pick \in Sessions \cup {None}
       /\ pick # None => IsLive(copy[pick])
  BY <1>5, <1>8, <1>10
<1> QED BY <1>6, <1>9, <1>10, <1>11, <1>12, ShowStep

LEMMA ResumeStep ==
  ASSUME BoardInv, NEW s \in Sessions, Resume(s) PROVE StepOK
<1> DEFINE row == [rows[s] EXCEPT !.state = "Starting", !.token = "found"]
<1>1. /\ actions < MaxActions /\ actions' = actions + 1
      /\ s \in entries /\ IsExited(rows[s])
      /\ rows' = [rows EXCEPT ![s] = row]
      /\ Show([shown EXCEPT ![s] = row], order, s)
      /\ doing' = [doing EXCEPT ![s] = "Starting"]
      /\ up' = up /\ born' = born /\ crashes' = crashes
  BY DEF Resume, Act
<1>2. TableOK /\ MemoryOK
  BY DEF BoardInv
<1>3. rows[s] \in Row /\ rows[s] # None
  BY <1>1, <1>2 DEF IsExited, TableOK, Copies
<1>4. row \in Row /\ row.state = "Starting"
  <2>1. "Starting" \in LiveStates
    BY SessionAssumption
  <2> QED BY <1>3, <2>1 DEF Row
<1>5. row # None /\ IsLive(row)
  <2>1. row # None
    BY <1>4, RowAssumption
  <2> HIDE DEF row
  <2> QED BY <1>4, <2>1 DEF IsLive
<1> HIDE DEF row
<1>6. TableOK'
  <2>1. rows' \in Copies
    BY <1>1, <1>2, <1>4 DEF TableOK, Copies
  <2>2. doing' \in [Sessions -> LiveStates \cup {"Exited"}]
    BY <1>1, <1>2, SessionAssumption DEF TableOK
  <2>3. \A t \in Sessions : rows'[t] # None => t \in born
    BY <1>1, <1>2, <1>3 DEF TableOK, Copies
  <2>4. up' \in BOOLEAN /\ crashes' \in 0 .. MaxCrashes
    BY <1>1, <1>2, Zenon DEF TableOK
  <2> QED BY <1>1, <1>2, <2>1, <2>2, <2>3, <2>4, TableStays
<1>7. PICK copy : copy = [shown EXCEPT ![s] = row]
  OBVIOUS
<1>8. Show(copy, order, s)
  BY <1>1, <1>7
<1>9. copy \in Copies /\ copy[s] = row
  BY <1>2, <1>4, <1>7 DEF MemoryOK, Copies
<1>10. \A t \in Sessions : copy[t] # None => t \in born'
  BY <1>1, <1>2, <1>3, <1>7 DEF MemoryOK, TableOK, Copies
<1>11. IsLive(copy[s])
  BY <1>5, <1>9
<1> QED BY <1>6, <1>8, <1>9, <1>10, <1>11, ShowStep

LEMMA TerminateStep ==
  ASSUME BoardInv, NEW s \in Sessions, Terminate(s) PROVE StepOK
<1>1. /\ actions < MaxActions /\ actions' = actions + 1
      /\ rows[s] # None
      /\ doing' = [doing EXCEPT ![s] = "Exited"]
      /\ up' = up /\ born' = born /\ crashes' = crashes
  BY DEF Terminate, Act
<1>2. PICK row \in ClosedRows(rows[s]) :
        /\ rows' = [rows EXCEPT ![s] = row]
        /\ Show([shown EXCEPT ![s] = row], order, None)
  BY DEF Terminate
<1>3. TableOK /\ MemoryOK
  BY DEF BoardInv
<1>4. rows[s] \in Row
  BY <1>1, <1>3 DEF TableOK, Copies
<1>5. row \in Row
  BY <1>4, ClosedIs
<1>6. TableOK'
  <2>1. rows' \in Copies
    BY <1>2, <1>3, <1>5 DEF TableOK, Copies
  <2>2. doing' \in [Sessions -> LiveStates \cup {"Exited"}]
    BY <1>1, <1>3 DEF TableOK
  <2>3. \A t \in Sessions : rows'[t] # None => t \in born
    BY <1>1, <1>2, <1>3 DEF TableOK, Copies
  <2>4. up' \in BOOLEAN /\ crashes' \in 0 .. MaxCrashes
    BY <1>1, <1>3, Zenon DEF TableOK
  <2> QED BY <1>1, <1>3, <2>1, <2>2, <2>3, <2>4, TableStays
<1>7. PICK copy : copy = [shown EXCEPT ![s] = row]
  OBVIOUS
<1>8. Show(copy, order, None)
  BY <1>2, <1>7
<1>9. copy \in Copies
  BY <1>3, <1>5, <1>7 DEF MemoryOK, Copies
<1>10. \A t \in Sessions : copy[t] # None => t \in born'
  BY <1>1, <1>3, <1>7 DEF MemoryOK, TableOK, Copies
<1> QED BY <1>6, <1>8, <1>9, <1>10, ShowStep

(* The whole table is taken for the new copy.                              *)
LEMMA TableShown ==
  ASSUME BoardInv, TableOK', Show(rows', order, None) PROVE StepOK
<1>1. PICK copy : copy = rows'
  OBVIOUS
<1>2. Show(copy, order, None)
  BY <1>1
<1>3. copy \in Copies /\ \A s \in Sessions : copy[s] # None => s \in born'
  BY <1>1 DEF TableOK
<1> QED BY <1>2, <1>3, ShowStep

LEMMA RelaunchFailsStep ==
  ASSUME BoardInv, NEW s \in Sessions, RelaunchFails(s) PROVE StepOK
<1>1. /\ actions < MaxActions /\ actions' = actions + 1
      /\ rows[s] # None /\ Show(rows', order, None)
      /\ up' = up /\ born' = born /\ crashes' = crashes
      /\ \/ /\ rows' = Observed(rows)
            /\ doing' = doing
         \/ \E closed \in ClosedRows(rows[s]) :
              /\ rows' = Observed([rows EXCEPT ![s] = closed])
              /\ doing' = [doing EXCEPT ![s] = "Exited"]
  BY DEF RelaunchFails, Act
<1>2. TableOK
  BY DEF BoardInv
<1>3. doing' \in [Sessions -> LiveStates \cup {"Exited"}]
  BY <1>1, <1>2 DEF TableOK
<1>4. rows' \in Copies /\ \A t \in Sessions : rows'[t] # None => t \in born
  <2>1. CASE rows' = Observed(rows)
    BY <1>2, <2>1, ObservedIs DEF TableOK
  <2>2. ASSUME NEW closed \in ClosedRows(rows[s]),
               rows' = Observed([rows EXCEPT ![s] = closed])
        PROVE  rows' \in Copies /\ \A t \in Sessions : rows'[t] # None => t \in born
    <3>1. closed \in Row
      <4>1. rows[s] \in Row
        BY <1>1, <1>2 DEF TableOK, Copies
      <4> QED BY <2>2, <4>1, ClosedIs
    <3>2. PICK table : table = [rows EXCEPT ![s] = closed]
      OBVIOUS
    <3>3. /\ table \in Copies
          /\ \A t \in Sessions : table[t] # None => rows[t] # None
      BY <1>1, <1>2, <3>1, <3>2 DEF TableOK, Copies
    <3>4. rows' = Observed(table)
      BY <2>2, <3>2
    <3> QED BY <1>2, <3>3, <3>4, ObservedIs DEF TableOK
  <2> QED BY <1>1, <2>1, <2>2
<1>5. TableOK'
  <2>1. up' \in BOOLEAN /\ crashes' \in 0 .. MaxCrashes
    BY <1>1, <1>2, Zenon DEF TableOK
  <2> QED BY <1>1, <1>2, <1>3, <1>4, <2>1, TableStays
<1> QED BY <1>1, <1>5, TableShown

(* Ending, refreshing and launching order the sessions twice.              *)
LEMMA RelaunchStep ==
  ASSUME BoardInv, NEW s \in Sessions, NEW t \in Sessions, Relaunch(s, t)
  PROVE  StepOK
<1>1. /\ actions < MaxActions /\ actions' = actions + 1
      /\ rows[s] # None /\ t \notin born /\ born' = born \cup {t}
      /\ doing' = [doing EXCEPT ![s] = "Exited", ![t] = "Starting"]
      /\ up' = up /\ crashes' = crashes
  BY DEF Relaunch, Act
<1>2. PICK closed \in ClosedRows(rows[s]) :
        LET after == Observed([rows EXCEPT ![s] = closed])
        IN  \E row \in NewRow(after), o \in NewOrders(order, after) :
              /\ rows' = [after EXCEPT ![t] = row]
              /\ Show(rows', o, None)
  BY DEF Relaunch
<1>3. TableOK /\ MemoryOK /\ Sequence(order)
  BY DEF BoardInv, MemoryOK
<1>4. closed \in Row
  <2>1. rows[s] \in Row
    BY <1>1, <1>3 DEF TableOK, Copies
  <2> QED BY <2>1, ClosedIs
<1>5. PICK after : after = Observed([rows EXCEPT ![s] = closed])
  OBVIOUS
<1>6. PICK row \in NewRow(after), o \in NewOrders(order, after) :
        /\ rows' = [after EXCEPT ![t] = row]
        /\ Show(rows', o, None)
  BY <1>2, <1>5
<1>7. after \in Copies /\ \A u \in Sessions : after[u] # None => u \in born
  <2>1. PICK table : table = [rows EXCEPT ![s] = closed]
    OBVIOUS
  <2>2. /\ table \in Copies
        /\ \A u \in Sessions : table[u] # None => rows[u] # None
    BY <1>1, <1>3, <1>4, <2>1 DEF TableOK, Copies
  <2>3. after = Observed(table)
    BY <1>5, <2>1
  <2> QED BY <1>3, <2>2, <2>3, ObservedIs DEF TableOK
<1>8. row \in Row
  <2>1. NextAlias(after) \in Aliases
    BY <1>1, <1>3, <1>7, NextAliasIs
  <2> QED BY <2>1, NewRowIs
<1>9. PICK copy : copy = rows'
  OBVIOUS
<1>10. /\ copy \in Copies
       /\ \A u \in Sessions : u # t => copy[u] = after[u]
       /\ \A u \in Sessions : copy[u] # None => u \in born'
  BY <1>1, <1>6, <1>7, <1>8, <1>9 DEF Copies
<1>11. TableOK'
  <2>1. doing' \in [Sessions -> LiveStates \cup {"Exited"}]
    BY <1>1, <1>3, SessionAssumption DEF TableOK
  <2>2. up' \in BOOLEAN
    BY <1>1, <1>3, Zenon DEF TableOK
  <2>3. rows' \in Copies /\ \A u \in Sessions : rows'[u] # None => u \in born'
    BY <1>9, <1>10
  <2> QED BY <1>1, <1>3, <2>1, <2>2, <2>3, TableGrows
<1>12. /\ Sequence(o) /\ ToSet(o) = LiveIn(after)
       /\ \A a, b \in ToSet(o) : Before(order, a, b) => Before(o, a, b)
  BY <1>3, NewOrderIs
<1>13. Show(copy, o, None)
  BY <1>6, <1>9
<1>14. MemoryOK' /\ AgreeOK' /\ order' \in NewOrders(o, copy)
  BY <1>3, <1>10, <1>12, <1>13, ShowIs
<1>15. /\ ToSet(order') = LiveIn(copy)
       /\ \A a, b \in ToSet(order') : Before(o, a, b) => Before(order', a, b)
  BY <1>12, <1>14, NewOrderIs
<1>16. \A a \in ToSet(order) \cap ToSet(order') : a \in ToSet(o)
  <2>1. ToSet(order) \subseteq born
    BY <1>3 DEF MemoryOK
  <2> QED BY <1>1, <1>10, <1>12, <1>15, <2>1 DEF LiveIn
<1>17. OrderStep
  BY <1>12, <1>15, <1>16 DEF OrderStep
<1> QED BY <1>11, <1>14, <1>17 DEF StepOK, BoardInv

LEMMA DeleteStep ==
  ASSUME BoardInv, NEW ids \in SUBSET Sessions, Delete(ids) PROVE StepOK
<1>1. /\ actions < MaxActions /\ actions' = actions + 1
      /\ rows' = [s \in Sessions |-> IF s \in ids THEN None ELSE rows[s]]
      /\ Show([s \in Sessions |-> IF s \in ids THEN None ELSE shown[s]], order,
              None)
      /\ doing' = doing /\ up' = up /\ born' = born /\ crashes' = crashes
  BY DEF Delete, Act
<1>2. TableOK /\ MemoryOK
  BY DEF BoardInv
<1>3. TableOK'
  <2>1. rows' \in Copies /\ \A t \in Sessions : rows'[t] # None => t \in born
    BY <1>1, <1>2 DEF TableOK, Copies
  <2>2. up' \in BOOLEAN /\ crashes' \in 0 .. MaxCrashes
    BY <1>1, <1>2, Zenon DEF TableOK
  <2>3. doing' \in [Sessions -> LiveStates \cup {"Exited"}]
    BY <1>1, <1>2 DEF TableOK
  <2> QED BY <1>1, <1>2, <2>1, <2>2, <2>3, TableStays
<1>4. PICK copy : copy = [s \in Sessions |-> IF s \in ids THEN None ELSE shown[s]]
  OBVIOUS
<1>5. Show(copy, order, None)
  BY <1>1, <1>4
<1>6. copy \in Copies /\ \A t \in Sessions : copy[t] # None => t \in born'
  BY <1>1, <1>2, <1>4 DEF MemoryOK, Copies
<1> QED BY <1>3, <1>5, <1>6, ShowStep

LEMMA QuitStep ==
  ASSUME BoardInv, Quit PROVE StepOK
<1>1. /\ actions < MaxActions /\ actions' = actions + 1
      /\ Show(rows', order, None)
      /\ up' = FALSE /\ born' = born /\ crashes' = crashes
      /\ doing' = [s \in Sessions |-> "Exited"]
  BY DEF Quit, Act
<1>2. PICK found \in SUBSET LiveRows :
        rows' = [s \in Sessions |->
                   IF ~IsLive(rows[s]) THEN rows[s]
                   ELSE [rows[s] EXCEPT !.state = "Exited",
                           !.token = IF s \in found THEN "found" ELSE @]]
  BY DEF Quit
<1>3. TableOK
  BY DEF BoardInv
<1>4. ASSUME NEW s \in Sessions
      PROVE  rows'[s] \in {None} \cup Row /\ (rows'[s] # None => rows[s] # None)
  <2>1. CASE IsLive(rows[s])
    <3>1. rows[s] \in Row
      BY <1>3, <2>1, LiveRow DEF TableOK
    <3>2. rows'[s] = [rows[s] EXCEPT !.state = "Exited",
                        !.token = IF s \in found THEN "found" ELSE @]
      BY <1>2, <2>1, Zenon
    <3>3. rows'[s] \in Row
      BY <3>1, <3>2 DEF Row
    <3> QED BY <2>1, <3>3 DEF IsLive
  <2>2. CASE ~ IsLive(rows[s])
    <3>1. rows'[s] = rows[s]
      BY <1>2, <2>2, Zenon
    <3> QED BY <1>3, <3>1 DEF TableOK, Copies
  <2> QED BY <2>1, <2>2
<1>5. rows' \in Copies
  <2>1. rows' = [s \in Sessions |-> rows'[s]]
    BY <1>2, Zenon
  <2> QED BY <1>4, <2>1, Zenon DEF Copies
<1>6. TableOK'
  <2>1. doing' \in [Sessions -> LiveStates \cup {"Exited"}]
    BY <1>1
  <2>2. up' \in BOOLEAN /\ crashes' \in 0 .. MaxCrashes
    BY <1>1, <1>3, Zenon DEF TableOK
  <2>3. \A t \in Sessions : rows'[t] # None => t \in born
    BY <1>3, <1>4 DEF TableOK
  <2> QED BY <1>1, <1>3, <1>5, <2>1, <2>2, <2>3, TableStays
<1> QED BY <1>1, <1>6, TableShown

(* What the worker found out is taken for the new copy, or not even looked *)
(* at.                                                                     *)
LEMMA TableObserved ==
  ASSUME BoardInv, rows' = Observed(rows),
         UNCHANGED <<doing, up, born, actions, crashes>>
  PROVE  TableOK'
<1>1. TableOK
  BY DEF BoardInv
<1>2. /\ doing' \in [Sessions -> LiveStates \cup {"Exited"}]
      /\ up' \in BOOLEAN /\ crashes' \in 0 .. MaxCrashes
  BY <1>1, Zenon DEF TableOK
<1>3. rows \in Copies
  BY <1>1 DEF TableOK
<1>4. /\ Observed(rows) \in Copies
      /\ \A s \in Sessions : Observed(rows)[s] # None => rows[s] # None
  BY <1>1, <1>3, ObservedIs
<1>5. rows' \in Copies /\ \A s \in Sessions : rows'[s] # None => s \in born
  BY <1>1, <1>4 DEF TableOK
<1> QED BY <1>1, <1>2, <1>5, TableStays

LEMMA RefreshFinishedStep == ASSUME BoardInv, RefreshFinished PROVE StepOK
<1>1. /\ rows' = Observed(rows) /\ Show(rows', order, None)
      /\ UNCHANGED <<doing, up, born, actions, crashes>>
  BY DEF RefreshFinished
<1>2. TableOK'
  BY <1>1, TableObserved
<1> QED BY <1>1, <1>2, TableShown

(* Only the table changes, or who runs.                                    *)
LEMMA QuietStep ==
  ASSUME BoardInv, TableOK', UNCHANGED <<copies, autosort, config, saved, born>>,
         up' => up
  PROVE  StepOK
<1>1. MemoryOK' /\ AgreeOK'
  BY QuietIs DEF BoardInv, copies
<1>2. order' = order
  BY DEF copies
<1> QED BY <1>1, <1>2 DEF StepOK, BoardInv, OrderStep

LEMMA MonitorFinishedStep == ASSUME BoardInv, MonitorFinished PROVE StepOK
<1>1. /\ rows' = Observed(rows)
      /\ UNCHANGED <<doing, up, born, actions, crashes>>
      /\ \/ UNCHANGED <<copies, autosort, config, saved>>
         \/ Show(rows', order, None)
  BY DEF MonitorFinished
<1>2. TableOK'
  BY <1>1, TableObserved
<1>3. CASE UNCHANGED <<copies, autosort, config, saved>>
  BY <1>1, <1>2, <1>3, QuietStep
<1>4. CASE Show(rows', order, None)
  BY <1>2, <1>4, TableShown
<1> QED BY <1>1, <1>3, <1>4

LEMMA AnswerDroppedStep == ASSUME BoardInv, AnswerDropped PROVE StepOK
<1>1. /\ rows' = Observed(rows)
      /\ UNCHANGED <<doing, up, born, actions, crashes>>
      /\ UNCHANGED <<copies, autosort, config, saved>>
  BY DEF AnswerDropped
<1>2. TableOK'
  BY <1>1, TableObserved
<1> QED BY <1>1, <1>2, QuietStep

LEMMA AgentActsStep ==
  ASSUME BoardInv, NEW s \in Sessions, NEW state \in LiveStates \cup {"Exited"},
         AgentActs(s, state)
  PROVE  StepOK
<1>1. /\ doing' = [doing EXCEPT ![s] = state]
      /\ UNCHANGED <<rows, copies, autosort, config, saved, up, born, actions,
                     crashes>>
  BY DEF AgentActs
<1>2. TableOK'
  <2>1. TableOK
    BY DEF BoardInv
  <2>2. doing' \in [Sessions -> LiveStates \cup {"Exited"}]
    BY <1>1, <2>1 DEF TableOK
  <2>3. /\ rows' \in Copies /\ \A t \in Sessions : rows'[t] # None => t \in born
        /\ up' \in BOOLEAN /\ crashes' \in 0 .. MaxCrashes
    BY <1>1, <2>1, Zenon DEF TableOK
  <2> QED BY <1>1, <2>1, <2>2, <2>3, TableStays
<1> QED BY <1>1, <1>2, QuietStep

LEMMA CrashStep == ASSUME BoardInv, Crash PROVE StepOK
<1>1. /\ up /\ crashes < MaxCrashes /\ crashes' = crashes + 1 /\ up' = FALSE
      /\ UNCHANGED <<rows, doing, copies, autosort, config, saved, born, actions>>
  BY DEF Crash
<1>2. TableOK'
  <2>1. TableOK
    BY DEF BoardInv
  <2>2. crashes' \in 0 .. MaxCrashes
    BY <1>1, <2>1, BoardBounds DEF TableOK
  <2>3. /\ rows' \in Copies /\ \A t \in Sessions : rows'[t] # None => t \in born
        /\ doing' \in [Sessions -> LiveStates \cup {"Exited"}]
    BY <1>1, <2>1, Zenon DEF TableOK
  <2>4. up' \in BOOLEAN
    BY <1>1, Zenon
  <2> QED BY <1>1, <2>1, <2>2, <2>3, <2>4, TableStays
<1>3. up' => up
  BY <1>1
<1> QED BY <1>1, <1>2, <1>3, QuietStep

(* The table of a step that changes memory alone.                          *)
LEMMA TableKept ==
  ASSUME BoardInv, actions < MaxActions, actions' = actions + 1,
         UNCHANGED <<rows, doing, up, born, crashes>>
  PROVE  TableOK'
<1>1. TableOK
  BY DEF BoardInv
<1>2. /\ rows' \in Copies /\ \A t \in Sessions : rows'[t] # None => t \in born
      /\ doing' \in [Sessions -> LiveStates \cup {"Exited"}]
      /\ up' \in BOOLEAN /\ crashes' \in 0 .. MaxCrashes
  BY <1>1, Zenon DEF TableOK
<1> QED BY <1>1, <1>2, TableStays

(* What is presented is live.                                              *)
LEMMA PresentedAreLive ==
  ASSUME BoardInv
  PROVE  LET ids == Presented(shown, order, autosort)
         IN  /\ ids \in Seq(Sessions)
             /\ \A i \in 1 .. Len(ids) : ids[i] \in Sessions /\ IsLive(shown[ids[i]])
<1>1. /\ MemoryOK /\ Sequence(order) /\ autosort \in BOOLEAN /\ shown \in Copies
  BY DEF BoardInv, MemoryOK
<1> DEFINE ids == Presented(shown, order, autosort)
<1>2. ids \in Seq(Sessions) /\ AllLive(shown, ids)
  BY <1>1, BoardIs
<1> HIDE DEF ids
<1> QED BY <1>2 DEF AllLive, ids

LEMMA PickStep ==
  ASSUME BoardInv, NEW s \in Sessions, IsLive(shown[s]), up, SetSelected(s),
         actions < MaxActions, actions' = actions + 1,
         UNCHANGED <<rows, doing, up, born, crashes>>
  PROVE  StepOK
<1>1. TableOK'
  BY TableKept
<1>2. MemoryOK' /\ AgreeOK' /\ order' = order
  BY SelectIs DEF BoardInv
<1> QED BY <1>1, <1>2 DEF StepOK, BoardInv, OrderStep

LEMMA SelectStep ==
  ASSUME BoardInv, NEW s \in Sessions, Select(s) PROVE StepOK
<1>1. /\ up /\ actions < MaxActions /\ actions' = actions + 1
      /\ \E i \in 1 .. Len(cards) : cards[i].session = s
      /\ SetSelected(s)
      /\ UNCHANGED <<rows, doing, up, born, crashes>>
  BY DEF Select, Act
<1> DEFINE ids == Presented(shown, order, autosort)
<1>2. cards = CardsOf(shown, ids, selected)
  BY <1>1 DEF BoardInv, AgreeOK, BoardIsCurrent
<1>3. /\ ids \in Seq(Sessions)
      /\ \A i \in 1 .. Len(ids) : ids[i] \in Sessions /\ IsLive(shown[ids[i]])
  BY PresentedAreLive
<1> HIDE DEF ids
<1>4. cards \in Seq(Card)
  BY DEF BoardInv, MemoryOK
<1>5. DOMAIN cards = 1 .. Len(ids) /\ \A i \in 1 .. Len(ids) : cards[i].session = ids[i]
  BY <1>2 DEF CardsOf
<1>6. Len(cards) = Len(ids)
  BY <1>3, <1>4, <1>5
<1>7. IsLive(shown[s])
  BY <1>1, <1>3, <1>5, <1>6
<1> QED BY <1>1, <1>7, PickStep

LEMMA SelectAdjacentStep ==
  ASSUME BoardInv, NEW delta \in {-1, 1}, SelectAdjacent(delta) PROVE StepOK
<1> DEFINE ids == Presented(shown, order, autosort)
           at  == CASE Contains(ids, selected) ->
                         AntiFunction(ids)[selected]
                    [] ~Contains(ids, selected) /\ delta >= 0 -> 0
                    [] ~Contains(ids, selected) /\ delta < 0 -> Len(ids) + 1
           to  == CASE at + delta < 1 -> 1
                    [] at + delta \in 1..Len(ids) -> at + delta
                    [] at + delta > Len(ids) -> Len(ids)
<1>1. /\ up /\ actions < MaxActions /\ actions' = actions + 1
      /\ ids # <<>> /\ SetSelected(ids[to])
      /\ UNCHANGED <<rows, doing, up, born, crashes>>
  BY DEF SelectAdjacent, Act
<1>2. /\ ids \in Seq(Sessions) /\ Sequence(ids)
      /\ \A i \in 1 .. Len(ids) : ids[i] \in Sessions /\ IsLive(shown[ids[i]])
  <2>1. Sequence(ids)
    BY PresentedIs DEF BoardInv, MemoryOK
  <2> QED BY <2>1, PresentedAreLive
<1> HIDE DEF ids
<1>3. Len(ids) \in Nat /\ Len(ids) >= 1
  BY <1>1, <1>2
<1>4. at \in 0 .. Len(ids) + 1
  <2>1. CASE Contains(ids, selected)
    <3>1. at = AntiFunction(ids)[selected]
      BY <2>1, Zenon
    <3>2. AntiFunction(ids)[selected] \in 1 .. Len(ids)
      BY <1>2, <2>1, SetOf, PlaceInSeq DEF Sequence
    <3> QED BY <1>3, <3>1, <3>2
  <2>2. CASE ~Contains(ids, selected) /\ delta >= 0
    <3>1. at = 0
      <4>1. ~ (delta < 0)
        BY <2>2
      <4> QED BY <2>2, <4>1, Zenon
    <3> QED BY <1>3, <3>1
  <2>3. CASE ~Contains(ids, selected) /\ delta < 0
    <3>1. at = Len(ids) + 1
      <4>1. ~ (delta >= 0)
        BY <2>3
      <4> QED BY <2>3, <4>1, Zenon
    <3> QED BY <1>3, <3>1
  <2> QED BY <2>1, <2>2, <2>3
<1> HIDE DEF at
<1>5. to \in 1 .. Len(ids)
  <2>1. CASE at + delta < 1
    <3>1. ~ (at + delta \in 1 .. Len(ids)) /\ ~ (at + delta > Len(ids))
      BY <1>3, <1>4, <2>1
    <3>2. to = 1
      BY <2>1, <3>1, Zenon
    <3> HIDE DEF to
    <3> QED BY <1>3, <3>2
  <2>2. CASE at + delta \in 1 .. Len(ids)
    <3>1. ~ (at + delta < 1) /\ ~ (at + delta > Len(ids))
      BY <1>3, <1>4, <2>2
    <3>2. to = at + delta
      BY <2>2, <3>1, Zenon
    <3> HIDE DEF to
    <3> QED BY <2>2, <3>2
  <2>3. CASE at + delta > Len(ids)
    <3>1. ~ (at + delta < 1) /\ ~ (at + delta \in 1 .. Len(ids))
      BY <1>3, <1>4, <2>3
    <3>2. to = Len(ids)
      BY <2>3, <3>1, Zenon
    <3> HIDE DEF to
    <3> QED BY <1>3, <3>2
  <2> QED BY <1>3, <1>4, <2>1, <2>2, <2>3
<1> HIDE DEF to
<1>6. ids[to] \in Sessions /\ IsLive(shown[ids[to]])
  BY <1>2, <1>5
<1>7. PICK s : s = ids[to]
  OBVIOUS
<1>8. s \in Sessions /\ IsLive(shown[s]) /\ SetSelected(s)
  BY <1>1, <1>6, <1>7
<1> QED BY <1>1, <1>8, PickStep

LEMMA SetAutosortStep ==
  ASSUME BoardInv, NEW on \in BOOLEAN, SetAutosort(on) PROVE StepOK
<1>1. /\ up /\ actions < MaxActions /\ actions' = actions + 1
      /\ UNCHANGED <<rows, doing, shown, order, selected, control, manifest,
                     config, loaded, up, born, crashes>>
      /\ Sync /\ Persist
  BY DEF SetAutosort, Act
<1>2. autosort' \in BOOLEAN
  <2>1. autosort' = on
    BY Zenon DEF SetAutosort
  <2> QED BY <2>1, Zenon
<1>3. TableOK'
  BY <1>1, TableKept
<1>4. MemoryOK /\ AgreeOK /\ Sequence(order)
  BY DEF BoardInv, MemoryOK
<1>5. Sequence(order') /\ ToSet(order') = ToSet(order)
  BY <1>1, <1>4
<1>6. MemoryOK' /\ AgreeOK'
  BY <1>1, <1>2, <1>4, <1>5, ArrangeIs
<1> QED BY <1>1, <1>3, <1>6 DEF StepOK, BoardInv, OrderStep

LEMMA MoveStep ==
  ASSUME BoardInv, NEW s \in Sessions, NEW index \in 1 .. Len(cards),
         Move(s, index)
  PROVE  StepOK
<1> DEFINE from == AntiFunction(order)[s]
           to == IF index > Len(order) THEN Len(order) ELSE index
<1>1. /\ up /\ actions < MaxActions /\ actions' = actions + 1
      /\ Contains(order, s)
      /\ order' = InsertAt(RemoveAt(order, from), to, s)
      /\ UNCHANGED <<rows, doing, shown, selected, autosort, control, manifest,
                     config, loaded, up, born, crashes>>
      /\ Sync /\ Persist
  BY DEF Move, Act
<1>2. /\ MemoryOK /\ AgreeOK /\ Sequence(order)
      /\ order \in Seq(Sessions) /\ IsInjective(order)
  BY DEF BoardInv, MemoryOK, Sequence
<1>3. from \in 1 .. Len(order) /\ order[from] = s
  BY <1>1, <1>2, SetOf, PlaceInSeq
<1>4. to \in 1 .. Len(order)
  <2>1. Len(order) \in Nat /\ index \in Nat /\ index >= 1
    <3>1. cards \in Seq(Card)
      BY <1>2 DEF MemoryOK
    <3> QED BY <1>2, <3>1
  <2> QED BY <1>3, <2>1
<1> HIDE DEF from, to
<1>5. /\ Sequence(order') /\ ToSet(order') = ToSet(order)
      /\ \A a, b \in ToSet(order) \ {s} :
           Before(order, a, b) => Before(order', a, b)
  BY <1>1, <1>2, <1>3, <1>4, MovedIs
<1>6. TableOK'
  BY <1>1, TableKept
<1>7. autosort' \in BOOLEAN
  BY <1>1, <1>2, Zenon DEF MemoryOK
<1>8. MemoryOK' /\ AgreeOK'
  BY <1>1, <1>2, <1>5, <1>7, ArrangeIs
<1>9. OrderStep
  <2> SUFFICES ASSUME NEW a \in ToSet(order) \cap ToSet(order'),
                      NEW b \in ToSet(order) \cap ToSet(order'),
                      Before(order, a, b)
               PROVE  \/ Before(order', a, b)
                      \/ \E i \in 1 .. Len(cards) : Move(a, i) \/ Move(b, i)
    BY DEF OrderStep
  <2>1. CASE a = s \/ b = s
    BY <2>1
  <2>2. CASE a # s /\ b # s
    BY <1>5, <2>2
  <2> QED BY <2>1, <2>2
<1> QED BY <1>6, <1>8, <1>9 DEF StepOK, BoardInv

LEMMA RenameStep ==
  ASSUME BoardInv, NEW s \in Sessions, NEW alias \in Aliases, Rename(s, alias)
  PROVE  StepOK
<1>1. /\ up /\ actions < MaxActions /\ actions' = actions + 1
      /\ IsLive(shown[s]) /\ rows[s] # None
      /\ rows' = [rows EXCEPT ![s].alias = alias]
      /\ shown' = [shown EXCEPT ![s].alias = alias]
      /\ UNCHANGED <<doing, order, selected, autosort, control, manifest, config,
                     saved, loaded, up, born, crashes>>
      /\ Sync
  BY DEF Rename, Act
<1>2. TableOK /\ MemoryOK /\ AgreeOK
  BY DEF BoardInv
<1>3. PICK new : new = [shown EXCEPT ![s].alias = alias]
  OBVIOUS
<1>4. shown \in Copies /\ shown[s] \in Row
  BY <1>1, <1>2, LiveRow DEF MemoryOK
<1>5. /\ new \in Copies
      /\ \A t \in Sessions : /\ new[t] # None <=> shown[t] # None
                             /\ IsLive(new[t]) <=> IsLive(shown[t])
                             /\ IsLive(shown[t]) => new[t].state = shown[t].state
  <2>1. /\ [shown[s] EXCEPT !.alias = alias] \in Row
        /\ [shown[s] EXCEPT !.alias = alias].state = shown[s].state
    BY <1>4 DEF Row
  <2>2. /\ new \in Copies /\ new[s] \in Row /\ new[s].state = shown[s].state
        /\ \A t \in Sessions \ {s} : new[t] = shown[t]
    BY <1>3, <1>4, <2>1 DEF Copies
  <2>3. IsLive(shown[s])
    BY <1>1
  <2> QED BY <1>4, <2>2, <2>3, RenamedIs
<1>6. shown' = new
  BY <1>1, <1>3
<1>7. /\ shown' \in Copies
      /\ \A t \in Sessions : /\ shown'[t] # None <=> shown[t] # None
                             /\ IsLive(shown'[t]) <=> IsLive(shown[t])
                             /\ IsLive(shown[t]) => shown'[t].state = shown[t].state
  BY <1>5, <1>6
<1>8. MemoryOK' /\ AgreeOK'
  BY <1>1, <1>2, <1>7, RenameIs
<1>9. TableOK'
  <2>1. rows[s] \in Row
    BY <1>1, <1>2 DEF TableOK, Copies
  <2>2. [rows[s] EXCEPT !.alias = alias] \in Row
    BY <2>1 DEF Row
  <2>3. rows' \in Copies /\ \A t \in Sessions : rows'[t] # None => t \in born
    BY <1>1, <1>2, <2>2 DEF TableOK, Copies
  <2>4. /\ doing' \in [Sessions -> LiveStates \cup {"Exited"}]
        /\ up' \in BOOLEAN /\ crashes' \in 0 .. MaxCrashes
    BY <1>1, <1>2, Zenon DEF TableOK
  <2> QED BY <1>1, <1>2, <2>3, <2>4, TableStays
<1> QED BY <1>1, <1>8, <1>9 DEF StepOK, BoardInv, OrderStep

(* A step of the user that only concerns the presets.                      *)
LEMMA PresetStep ==
  ASSUME BoardInv, Act, NEW presets \in Seq(Preset),
         NEW active \in BuiltIn \cup Keys(presets), Configure(presets, active)
  PROVE  StepOK
<1>1. /\ actions < MaxActions /\ actions' = actions + 1
      /\ UNCHANGED <<rows, doing, up, born, crashes>>
  BY DEF Act, Configure
<1>2. TableOK'
  BY <1>1, TableKept
<1>3. MemoryOK' /\ AgreeOK' /\ order' = order
  BY ConfigureIs DEF BoardInv
<1> QED BY <1>2, <1>3 DEF StepOK, BoardInv, OrderStep

LEMMA PickPresetStep ==
  ASSUME BoardInv, NEW key, PickPreset(key) PROVE StepOK
<1>1. Act /\ Configure(config.presets, NormalizedKey(config.presets, key))
  BY DEF PickPreset
<1>2. /\ config.presets \in Seq(Preset)
      /\ NormalizedKey(config.presets, key) \in BuiltIn \cup Keys(config.presets)
  BY NormalizedKeyIs DEF BoardInv, MemoryOK
<1>3. PICK p, k : p = config.presets /\ k = NormalizedKey(config.presets, key)
  OBVIOUS
<1>4. Configure(p, k)
  BY <1>1, <1>3
<1>5. p \in Seq(Preset) /\ k \in BuiltIn \cup Keys(p)
  BY <1>2, <1>3
<1> QED BY <1>1, <1>4, <1>5, PresetStep

LEMMA StorePresetStep ==
  ASSUME BoardInv, NEW key, NEW prompt \in Prompts \cup {Blank},
         StorePreset(key, prompt)
  PROVE  StepOK
<1>1. Act
  BY DEF StorePreset
<1>2. PICK fresh \in FreshKeys :
        LET new == SavePreset(config.presets, config.active, key, prompt, fresh)
        IN  Configure(new.presets, new.active)
  BY DEF StorePreset
<1>3. PICK new : new = SavePreset(config.presets, config.active, key, prompt, fresh)
  OBVIOUS
<1>4. PICK p, k : p = new.presets /\ k = new.active
  OBVIOUS
<1>5. Configure(p, k)
  BY <1>2, <1>3, <1>4
<1>6. /\ config.presets \in Seq(Preset)
      /\ config.active \in BuiltIn \cup Keys(config.presets)
      /\ fresh \in CustomKeys
  BY DEF BoardInv, MemoryOK, PresetExists, FreshKeys
<1>7. p \in Seq(Preset) /\ k \in BuiltIn \cup Keys(p)
  BY <1>3, <1>4, <1>6, SaveKeeps
<1> QED BY <1>1, <1>5, <1>7, PresetStep

LEMMA RemovePresetStep ==
  ASSUME BoardInv, NEW key, RemovePreset(key) PROVE StepOK
<1>1. Act
  BY DEF RemovePreset
<1>2. PICK new : new = DeletePreset(config.presets, config.active, key)
  OBVIOUS
<1>3. PICK p, k : p = new.presets /\ k = new.active
  OBVIOUS
<1>4. Configure(p, k)
  BY <1>2, <1>3 DEF RemovePreset
<1>5. /\ config.presets \in Seq(Preset)
      /\ config.active \in BuiltIn \cup Keys(config.presets)
  BY DEF BoardInv, MemoryOK, PresetExists
<1>6. p \in Seq(Preset) /\ k \in BuiltIn \cup Keys(p)
  BY <1>2, <1>3, <1>5, DeleteKeeps
<1> QED BY <1>1, <1>4, <1>6, PresetStep

LEMMA StartStep == ASSUME BoardInv, Start PROVE StepOK
<1>1. up' = TRUE /\ UNCHANGED <<born, actions, crashes>>
  BY DEF Start
<1>2. PICK ended \in SUBSET LiveRows :
        /\ rows' = [s \in Sessions |-> IF s \in ended
                                       THEN [rows[s] EXCEPT !.state = "Exited"]
                                       ELSE rows[s]]
        /\ doing' = [s \in Sessions |-> IF s \in ended THEN "Exited"
                                        ELSE doing[s]]
  BY DEF Start
<1>3. TableOK /\ MemoryOK
  BY DEF BoardInv
<1>4. ASSUME NEW s \in Sessions
      PROVE  rows'[s] \in {None} \cup Row /\ (rows'[s] # None => rows[s] # None)
  <2>1. CASE s \in ended
    <3>1. IsLive(rows[s])
      BY <2>1 DEF LiveRows
    <3>2. rows[s] \in Row
      BY <1>3, <3>1, LiveRow DEF TableOK
    <3>3. rows'[s] = [rows[s] EXCEPT !.state = "Exited"]
      BY <1>2, <2>1, Zenon
    <3>4. rows'[s] \in Row
      BY <3>2, <3>3 DEF Row
    <3> QED BY <3>1, <3>4 DEF IsLive
  <2>2. CASE s \notin ended
    <3>1. rows'[s] = rows[s]
      BY <1>2, <2>2, Zenon
    <3> QED BY <1>3, <3>1 DEF TableOK, Copies
  <2> QED BY <2>1, <2>2
<1>5. TableOK'
  <2>1. rows' \in Copies
    <3>1. rows' = [s \in Sessions |-> rows'[s]]
      BY <1>2, Zenon
    <3> QED BY <1>4, <3>1, Zenon DEF Copies
  <2>2. \A s \in Sessions : rows'[s] # None => s \in born
    BY <1>3, <1>4 DEF TableOK
  <2>3. doing' \in [Sessions -> LiveStates \cup {"Exited"}]
    BY <1>2, <1>3 DEF TableOK
  <2>4. up' \in BOOLEAN /\ crashes' \in 0 .. MaxCrashes
    BY <1>1, <1>3, Zenon DEF TableOK
  <2> QED BY <1>1, <1>3, <2>1, <2>2, <2>3, <2>4, TableStays
<1>6. MemoryOK' /\ AgreeOK' /\ order' = order
  BY <1>3, StartIs
<1> QED BY <1>5, <1>6 DEF StepOK, BoardInv, OrderStep

-----------------------------------------------------------------------------
(* The theorems                                                            *)

LEMMA BoardInit == Init => BoardInv
<1> SUFFICES ASSUME Init PROVE BoardInv
  OBVIOUS
<1>1. TableOK
  <2>1. rows \in Copies /\ \A s \in Sessions : rows[s] = None
    BY DEF Init, NoRows, Copies
  <2>2. doing \in [Sessions -> LiveStates \cup {"Exited"}]
    BY DEF Init
  <2>3. up \in BOOLEAN
    BY Zenon DEF Init
  <2>4. /\ born \subseteq Sessions /\ actions \in 0 .. MaxActions
        /\ crashes \in 0 .. MaxCrashes /\ Cardinality(born) <= actions
    BY FS_EmptySet, BoardBounds DEF Init
  <2> QED BY <2>1, <2>2, <2>3, <2>4 DEF TableOK
<1>2. shown \in Copies /\ \A s \in Sessions : shown[s] = None
  BY DEF Init, NoRows, Copies
<1>3. Sequence(order) /\ ToSet(order) = {}
  BY DEF Init, Sequence, IsInjective, ToSet
<1>4. MemoryOK
  <2>1. autosort \in BOOLEAN /\ loaded \in BOOLEAN
    BY Zenon DEF Init
  <2>2. /\ selected \in Sessions \cup {None} /\ cards \in Seq(Card)
        /\ entries \subseteq Sessions
        /\ control \in [ControlKinds -> Sessions \cup {None}]
        /\ manifest.workers \in [Sessions -> {None} \cup Named]
        /\ manifest.control \in [ControlKinds -> Sessions \cup {None}]
    BY DEF Init, NoControl, NoRows
  <2>3. config.presets \in Seq(Preset) /\ PresetExists
    BY PresetAssumption DEF Init, PresetExists
  <2>4. saved \in Settings
    <3>1. Standard \in BuiltIn \cup CustomKeys /\ <<>> \in Seq(Sessions)
          /\ <<>> \in Seq(Preset)
      BY PresetAssumption
    <3> QED BY <3>1, Zenon DEF Init, Settings
  <2>5. saved.order = order
    BY DEF Init
  <2>6. saved.autosort = autosort
    <3>1. saved.autosort = FALSE
      BY Zenon DEF Init
    <3>2. autosort = FALSE
      BY Zenon DEF Init
    <3> QED BY <3>1, <3>2, Zenon
  <2>7. \A s \in Sessions : shown[s] # None => s \in born
    BY <1>2
  <2> QED BY <1>2, <1>3, <2>1, <2>2, <2>3, <2>4, <2>5, <2>6, <2>7 DEF MemoryOK
<1>5. AgreeOK
  <2>1. BoardIsCurrent
    <3> DEFINE ids == Presented(shown, order, autosort)
    <3>1. autosort \in BOOLEAN
      BY Zenon DEF Init
    <3>2. /\ Sequence(ids)
          /\ ToSet(ids) = { s \in ToSet(order) : Presentable(shown, s) }
      BY <1>2, <1>3, <3>1, PresentedIs
    <3> HIDE DEF ids
    <3>3. ids = <<>>
      BY <1>3, <3>2, SetOf DEF Sequence
    <3>4. CardsOf(shown, ids, selected) = <<>>
      BY <3>3 DEF CardsOf
    <3>5. EntriesOf(shown) = {}
      BY <1>2 DEF EntriesOf, IsExited
    <3>6. cards = <<>> /\ entries = {}
      BY DEF Init
    <3> QED BY <3>4, <3>5, <3>6, Zenon DEF BoardIsCurrent, ids
  <2>2. ~ loaded
    BY Zenon DEF Init
  <2> QED BY <2>1, <2>2, Zenon
          DEF AgreeOK, SelectionIsLive, ManifestListsWorkers, SavedIsCurrent
<1> QED BY <1>1, <1>4, <1>5 DEF BoardInv

LEMMA BoardNext == BoardInv /\ [Next]_vars => StepOK
<1> SUFFICES ASSUME BoardInv, [Next]_vars PROVE StepOK
  OBVIOUS
<1>1. CASE UserAction
  <2>1. ASSUME NEW s \in Sessions, Launch(s) \/ Resume(s) \/ Terminate(s) \/ Select(s)
        PROVE  StepOK
    BY <2>1, LaunchStep, ResumeStep, TerminateStep, SelectStep
  <2>2. ASSUME NEW s \in Sessions, NEW t \in Sessions, Relaunch(s, t)
        PROVE  StepOK
    BY <2>2, RelaunchStep
  <2>3. ASSUME NEW s \in Sessions, RelaunchFails(s) PROVE StepOK
    BY <2>3, RelaunchFailsStep
  <2>4. ASSUME NEW ids \in SUBSET Sessions, Delete(ids) PROVE StepOK
    BY <2>4, DeleteStep
  <2>5. ASSUME NEW delta \in {-1, 1}, SelectAdjacent(delta) PROVE StepOK
    BY <2>5, SelectAdjacentStep
  <2>6. ASSUME NEW on \in BOOLEAN, SetAutosort(on) PROVE StepOK
    BY <2>6, SetAutosortStep
  <2>7. ASSUME NEW s \in Sessions, NEW index \in 1 .. Len(cards), Move(s, index)
        PROVE  StepOK
    BY <2>7, MoveStep
  <2>8. ASSUME NEW s \in Sessions, NEW alias \in Aliases, Rename(s, alias)
        PROVE  StepOK
    BY <2>8, RenameStep
  <2>9. ASSUME NEW key, PickPreset(key) PROVE StepOK
    BY <2>9, PickPresetStep
  <2>10. ASSUME NEW key, RemovePreset(key) PROVE StepOK
    BY <2>10, RemovePresetStep
  <2>11. ASSUME NEW key, NEW prompt \in Prompts \cup {Blank}, StorePreset(key, prompt)
         PROVE  StepOK
    BY <2>11, StorePresetStep
  <2>12. CASE Quit
    BY <2>12, QuitStep
  <2> QED BY <1>1, <2>1, <2>2, <2>3, <2>4, <2>5, <2>6, <2>7, <2>8, <2>9, <2>10,
             <2>11, <2>12 DEF UserAction
<1>2. ASSUME NEW s \in Sessions, NEW state \in LiveStates \cup {"Exited"},
             AgentActs(s, state)
      PROVE  StepOK
  BY <1>2, AgentActsStep
<1>3. CASE MonitorFinished
  BY <1>3, MonitorFinishedStep
<1>4. CASE AnswerDropped
  BY <1>4, AnswerDroppedStep
<1>5. CASE RefreshFinished
  BY <1>5, RefreshFinishedStep
<1>6. CASE Crash
  BY <1>6, CrashStep
<1>7. CASE Start
  BY <1>7, StartStep
<1>8. CASE UNCHANGED vars
  <2>1. /\ UNCHANGED <<rows, doing, up, born, actions, crashes>>
        /\ UNCHANGED <<copies, autosort, config, saved, born>>
    BY <1>8 DEF vars
  <2>2. TableOK'
    BY <2>1, Zenon DEF BoardInv, TableOK
  <2> QED BY <2>1, <2>2, QuietStep
<1> QED BY <1>1, <1>2, <1>3, <1>4, <1>5, <1>6, <1>7, <1>8 DEF Next

LEMMA BoardAlways == Spec => []BoardInv
<1>1. BoardInv /\ [Next]_vars => BoardInv'
  BY BoardNext DEF StepOK
<1> QED BY <1>1, BoardInit, PTL DEF Spec

(* Every variable keeps its type; in particular there is always an alias   *)
(* left to give (generateNextAlias), and no session is in the order twice  *)
(* (normalizeSessionManualOrder).                                          *)
THEOREM BoardTypes == Spec => []TypeOK
<1>1. BoardInv => TypeOK
  BY TypesFollow
<1> QED BY <1>1, BoardAlways, PTL

(* The cards and the entries are those of the copy, in the user's order,   *)
(* however many sessions come, go, are moved, renamed or selected.         *)
(* (SessionListModel::setSessions, setSelectedSessionId.)                  *)
THEOREM BoardStaysCurrent == Spec => []BoardIsCurrent
<1>1. BoardInv => BoardIsCurrent
  BY DEF BoardInv, AgreeOK
<1> QED BY <1>1, BoardAlways, PTL

(* What is selected is live; nothing is selected only when there is no     *)
(* card.  (resolveSelectedSession.)                                        *)
THEOREM SelectionStaysLive == Spec => []SelectionIsLive
<1>1. BoardInv => SelectionIsLive
  BY DEF BoardInv, AgreeOK
<1> QED BY <1>1, BoardAlways, PTL

(* The manifest lists the live workers with the states that are shown, and *)
(* the live router and master.  (writeSessionManifest.)                    *)
THEOREM ManifestStaysCurrent == Spec => []ManifestListsWorkers
<1>1. BoardInv => ManifestListsWorkers
  BY DEF BoardInv, AgreeOK
<1> QED BY <1>1, BoardAlways, PTL

(* The active preset exists, whatever presets are saved and deleted.       *)
(* (saveCustomRouterPreset, deleteCustomRouterPreset.)                     *)
THEOREM PresetStaysThere == Spec => []PresetExists
<1>1. BoardInv => PresetExists
  BY DEF BoardInv, MemoryOK
<1> QED BY <1>1, BoardAlways, PTL

(* The settings file has what is in memory after every handler, although   *)
(* it is only written when the signature differs.                          *)
(* (persistSelectionState.)                                                *)
THEOREM SettingsStayCurrent == Spec => []SavedIsCurrent
<1>1. BoardInv => SavedIsCurrent
  BY DEF BoardInv, AgreeOK
<1> QED BY <1>1, BoardAlways, PTL

(* Only a move of one of the two changes the order of two sessions that    *)
(* stay, over answers, relaunches and restarts.                            *)
(* (normalizeSessionManualOrder, moveSessionToIndex.)                      *)
THEOREM OrderStaysTheUsers == Spec => OrderIsTheUsers
<1>1. BoardInv /\ [Next]_vars =>
        (order' # order =>
           \A a, b \in ToSet(order) \cap ToSet(order') :
             Before(order, a, b)
             => \/ Before(order', a, b)
                \/ \E index \in 1..Len(cards) : Move(a, index) \/ Move(b, index))
  BY BoardNext DEF StepOK, OrderStep
<1> QED BY <1>1, BoardAlways, PTL DEF Spec, OrderIsTheUsers

===============================================================================
