------------------------- MODULE XercesDocument_proofs -------------------------
(***************************************************************************)
(* Proofs about XercesDocument: the nodes of the documents form forests     *)
(* inside their documents' heaps, whatever calls are made and whichever of  *)
(* them throw; and a document that is only given what XmlDocument gives it  *)
(* has one root, which is the one it caches.                                *)
(***************************************************************************)
EXTENDS XercesDocument, Integers, TLAPS

-----------------------------------------------------------------------------
(***************************************************************************)
(* Child lists: what removing and placing do to the members and their order.*)
(***************************************************************************)

(* Two lists without repetition and without common members, one behind the  *)
(* other.                                                                   *)
LEMMA ConcatMembers ==
  ASSUME NEW S, NEW s \in Seq(S), NEW t \in Seq(S)
  PROVE  /\ s \o t \in Seq(S)
         /\ ToSet(s \o t) = ToSet(s) \cup ToSet(t)
         /\ IsInjective(s) /\ IsInjective(t) /\ ToSet(s) \cap ToSet(t) = {}
              => IsInjective(s \o t)
<1> DEFINE c == s \o t
<1>1. /\ c \in Seq(S) /\ Len(c) = Len(s) + Len(t)
      /\ \A i \in 1 .. Len(s) + Len(t) :
            c[i] = IF i <= Len(s) THEN s[i] ELSE t[i - Len(s)]
  OBVIOUS
<1>2. /\ Len(s) \in Nat /\ Len(t) \in Nat
      /\ DOMAIN s = 1 .. Len(s) /\ DOMAIN t = 1 .. Len(t)
      /\ DOMAIN c = 1 .. Len(s) + Len(t)
  BY <1>1
<1> HIDE DEF c
<1>3. ASSUME NEW i \in DOMAIN c
      PROVE  c[i] \in ToSet(s) \cup ToSet(t)
  <2>1. CASE i <= Len(s)
    BY <1>1, <1>2, <2>1 DEF ToSet
  <2>2. CASE i > Len(s)
    BY <1>1, <1>2, <2>2 DEF ToSet
  <2> QED BY <1>2, <2>1, <2>2
<1>4. ASSUME NEW i \in DOMAIN s
      PROVE  i \in DOMAIN c /\ c[i] = s[i]
  BY <1>1, <1>2
<1>5. ASSUME NEW i \in DOMAIN t
      PROVE  Len(s) + i \in DOMAIN c /\ c[Len(s) + i] = t[i]
  BY <1>1, <1>2
<1>6. ToSet(c) = ToSet(s) \cup ToSet(t)
  BY <1>3, <1>4, <1>5 DEF ToSet
<1>7. ASSUME IsInjective(s), IsInjective(t), ToSet(s) \cap ToSet(t) = {},
             NEW i \in DOMAIN c, NEW j \in DOMAIN c, c[i] = c[j]
      PROVE  i = j
  <2>1. CASE i <= Len(s) /\ j <= Len(s)
    BY <1>1, <1>2, <1>7, <2>1 DEF IsInjective
  <2>2. CASE i > Len(s) /\ j > Len(s)
    <3>1. i - Len(s) \in DOMAIN t /\ j - Len(s) \in DOMAIN t
      BY <1>2, <2>2
    <3>2. t[i - Len(s)] = t[j - Len(s)]
      BY <1>1, <1>2, <1>7, <2>2
    <3>3. i - Len(s) = j - Len(s)
      BY <1>7, <3>1, <3>2 DEF IsInjective
    <3> QED BY <1>2, <3>3
  <2>3. ASSUME NEW k \in DOMAIN c, k <= Len(s)
        PROVE  c[k] \in ToSet(s)
    <3>1. k \in DOMAIN s /\ c[k] = s[k]
      BY <1>1, <1>2, <2>3
    <3> QED BY <3>1 DEF ToSet
  <2>4. ASSUME NEW k \in DOMAIN c, k > Len(s)
        PROVE  c[k] \in ToSet(t)
    <3>1. k - Len(s) \in DOMAIN t /\ c[k] = t[k - Len(s)]
      BY <1>1, <1>2, <2>4
    <3> QED BY <3>1 DEF ToSet
  <2>5. ~(i <= Len(s) /\ j > Len(s)) /\ ~(i > Len(s) /\ j <= Len(s))
    BY <1>7, <2>3, <2>4
  <2> QED BY <1>2, <2>1, <2>2, <2>5
<1>8. IsInjective(s) /\ IsInjective(t) /\ ToSet(s) \cap ToSet(t) = {} => IsInjective(c)
  BY <1>7 DEF IsInjective
<1> QED BY <1>1, <1>6, <1>8 DEF c

(* A list cut behind its n-th member.                                       *)
LEMMA CutMembers ==
  ASSUME NEW S, NEW s \in Seq(S), NEW n \in 0 .. Len(s)
  PROVE  LET a == SubSeq(s, 1, n)
             b == SubSeq(s, n + 1, Len(s))
         IN  /\ a \in Seq(S) /\ b \in Seq(S)
             /\ ToSet(a) = {s[i] : i \in 1 .. n}
             /\ ToSet(a) \cup ToSet(b) = ToSet(s)
             /\ IsInjective(s) =>
                  IsInjective(a) /\ IsInjective(b) /\ ToSet(a) \cap ToSet(b) = {}
<1> DEFINE a == SubSeq(s, 1, n)
           b == SubSeq(s, n + 1, Len(s))
<1>1. /\ a \in Seq(S) /\ Len(a) = n /\ \A i \in 1 .. n : a[i] = s[i]
      /\ DOMAIN a = 1 .. n
  OBVIOUS
<1>2. /\ b \in Seq(S) /\ Len(b) = Len(s) - n
      /\ \A i \in 1 .. Len(s) - n : b[i] = s[n + i]
      /\ DOMAIN b = 1 .. Len(s) - n
  OBVIOUS
<1>3. n \in Nat /\ n <= Len(s) /\ Len(s) \in Nat /\ DOMAIN s = 1 .. Len(s)
  OBVIOUS
<1> HIDE DEF a, b
<1>4. ToSet(a) = {s[i] : i \in 1 .. n}
  BY <1>1 DEF ToSet
<1>5. ASSUME NEW i \in DOMAIN s
      PROVE  s[i] \in ToSet(a) \cup ToSet(b)
  <2>1. CASE i <= n
    BY <1>1, <1>3, <2>1 DEF ToSet
  <2>2. CASE i > n
    <3>1. i - n \in 1 .. Len(s) - n /\ n + (i - n) = i
      BY <1>3, <2>2
    <3> QED BY <1>2, <3>1 DEF ToSet
  <2> QED BY <1>3, <2>1, <2>2
<1>6. \A i \in DOMAIN a : i \in DOMAIN s /\ a[i] = s[i]
  BY <1>1, <1>3
<1>7. \A i \in DOMAIN b : n + i \in DOMAIN s /\ b[i] = s[n + i]
  BY <1>2, <1>3
<1>8. ToSet(a) \cup ToSet(b) = ToSet(s)
  BY <1>5, <1>6, <1>7 DEF ToSet
<1>9. ASSUME IsInjective(s)
      PROVE  IsInjective(a) /\ IsInjective(b) /\ ToSet(a) \cap ToSet(b) = {}
  <2>1. IsInjective(a)
    BY <1>6, <1>9 DEF IsInjective
  <2>2. ASSUME NEW i \in DOMAIN b, NEW j \in DOMAIN b, b[i] = b[j]
        PROVE  i = j
    <3>1. n + i = n + j
      BY <1>7, <1>9, <2>2 DEF IsInjective
    <3> QED BY <1>2, <1>3, <3>1
  <2>3. ASSUME NEW i \in DOMAIN a, NEW j \in DOMAIN b, a[i] = b[j]
        PROVE  FALSE
    <3>1. i = n + j
      BY <1>6, <1>7, <1>9, <2>3 DEF IsInjective
    <3> QED BY <1>1, <1>2, <1>3, <3>1
  <2> QED BY <2>1, <2>2, <2>3 DEF IsInjective, ToSet
<1> QED BY <1>1, <1>2, <1>4, <1>8, <1>9 DEF a, b

(* A member of a list stands at its position.                               *)
LEMMA PositionOfMember ==
  ASSUME NEW s, NEW x \in ToSet(s)
  PROVE  Position(s, x) \in DOMAIN s /\ s[Position(s, x)] = x
BY DEF Position, ToSet

(* removeChild: the list loses the one member.                              *)
LEMMA RemoveMembers ==
  ASSUME NEW S, NEW s \in Seq(S), IsInjective(s), NEW x \in ToSet(s)
  PROVE  LET t == RemoveAt(s, Position(s, x))
         IN  t \in Seq(S) /\ ToSet(t) = ToSet(s) \ {x} /\ IsInjective(t)
<1> DEFINE i == Position(s, x)
           a == SubSeq(s, 1, i - 1)
           m == SubSeq(s, i, Len(s))
           h == SubSeq(s, 1, i)
           b == SubSeq(s, i + 1, Len(s))
<1>1. i \in DOMAIN s /\ s[i] = x
  BY PositionOfMember
<1>2. DOMAIN s = 1 .. Len(s) /\ Len(s) \in Nat
  OBVIOUS
<1> HIDE DEF i
<1>3. i \in 0 .. Len(s) /\ i - 1 \in 0 .. Len(s) /\ (i - 1) + 1 = i /\ i \in Nat
  BY <1>1, <1>2
<1>4. /\ a \in Seq(S) /\ IsInjective(a) /\ ToSet(a) = {s[j] : j \in 1 .. i - 1}
  BY <1>3, CutMembers
<1>5. /\ b \in Seq(S) /\ IsInjective(b) /\ ToSet(h) = {s[j] : j \in 1 .. i}
      /\ ToSet(h) \cup ToSet(b) = ToSet(s) /\ ToSet(h) \cap ToSet(b) = {}
  BY <1>3, CutMembers
<1>6. ToSet(h) = ToSet(a) \cup {x}
  <2>1. 1 .. i = (1 .. i - 1) \cup {i}
    BY <1>1, <1>2
  <2> QED BY <1>1, <1>4, <1>5, <2>1
<1>7. x \notin ToSet(a)
  <2> SUFFICES ASSUME NEW j \in 1 .. i - 1, s[j] = x PROVE FALSE
    BY <1>4
  <2>1. j \in DOMAIN s /\ j # i
    BY <1>1, <1>2
  <2> QED BY <1>1, <2>1 DEF IsInjective
<1>8. ToSet(a) \cap ToSet(b) = {} /\ ToSet(a) \cup ToSet(b) = ToSet(s) \ {x}
  BY <1>5, <1>6, <1>7
<1> HIDE DEF a, b
<1>9. a \o b \in Seq(S) /\ ToSet(a \o b) = ToSet(s) \ {x} /\ IsInjective(a \o b)
  BY <1>4, <1>5, <1>8, ConcatMembers
<1>10. RemoveAt(s, i) = a \o b
  BY DEF RemoveAt, a, b
<1> QED BY <1>9, <1>10 DEF i

(* insertBefore: the list gains the arrivals, wherever they are placed.     *)
LEMMA PlacedMembers ==
  ASSUME NEW S, NEW s \in Seq(S), NEW ms \in Seq(S), IsInjective(s), IsInjective(ms),
         ToSet(s) \cap ToSet(ms) = {}, NEW r, r # Nil => r \in ToSet(s)
  PROVE  /\ Placed(s, ms, r) \in Seq(S)
         /\ ToSet(Placed(s, ms, r)) = ToSet(s) \cup ToSet(ms)
         /\ IsInjective(Placed(s, ms, r))
<1>1. CASE r = Nil
  BY <1>1, ConcatMembers DEF Placed
<1>2. CASE r # Nil
  <2> DEFINE i == Position(s, r)
             a == SubSeq(s, 1, i - 1)
             b == SubSeq(s, i, Len(s))
  <2>1. i \in DOMAIN s
    BY <1>2, PositionOfMember
  <2>2. DOMAIN s = 1 .. Len(s) /\ Len(s) \in Nat
    OBVIOUS
  <2> HIDE DEF i
  <2>3. i - 1 \in 0 .. Len(s) /\ (i - 1) + 1 = i
    BY <2>1, <2>2
  <2>4. /\ a \in Seq(S) /\ b \in Seq(S) /\ IsInjective(a) /\ IsInjective(b)
        /\ ToSet(a) \cup ToSet(b) = ToSet(s) /\ ToSet(a) \cap ToSet(b) = {}
    BY <2>3, CutMembers
  <2> HIDE DEF a, b
  <2>5. /\ a \o ms \in Seq(S) /\ ToSet(a \o ms) = ToSet(a) \cup ToSet(ms)
        /\ IsInjective(a \o ms)
    BY <2>4, ConcatMembers
  <2> DEFINE am == a \o ms
  <2> HIDE DEF am
  <2>6. /\ am \in Seq(S) /\ ToSet(am) = ToSet(a) \cup ToSet(ms) /\ IsInjective(am)
    BY <2>5 DEF am
  <2>7. ToSet(am) \cap ToSet(b) = {}
    BY <2>4, <2>6
  <2>8. /\ am \o b \in Seq(S) /\ ToSet(am \o b) = ToSet(am) \cup ToSet(b)
        /\ IsInjective(am \o b)
    BY <2>4, <2>6, <2>7, ConcatMembers
  <2>9. Placed(s, ms, r) = am \o b
    BY <1>2 DEF Placed, am, a, b, i
  <2> QED BY <2>4, <2>6, <2>8, <2>9
<1> QED BY <1>1, <1>2

(* Two lists one behind the other.                                          *)
LEMMA OrderOfConcat ==
  ASSUME NEW S, NEW s \in Seq(S), NEW t \in Seq(S), NEW x, NEW y,
         \/ Precedes(s, x, y) \/ Precedes(t, x, y)
         \/ x \in ToSet(s) /\ y \in ToSet(t)
  PROVE  Precedes(s \o t, x, y)
<1> DEFINE c == s \o t
<1>1. /\ \A i \in 1 .. Len(s) : i \in DOMAIN c /\ c[i] = s[i]
      /\ \A i \in 1 .. Len(t) : Len(s) + i \in DOMAIN c /\ c[Len(s) + i] = t[i]
      /\ Len(s) \in Nat /\ DOMAIN s = 1 .. Len(s) /\ DOMAIN t = 1 .. Len(t)
  OBVIOUS
<1> HIDE DEF c
<1>2. CASE Precedes(s, x, y)
  <2>1. PICK i, j \in 1 .. Len(s) : i < j /\ s[i] = x /\ s[j] = y
    BY <1>1, <1>2 DEF Precedes
  <2>2. i \in DOMAIN c /\ j \in DOMAIN c /\ i < j /\ c[i] = x /\ c[j] = y
    BY <1>1, <2>1
  <2> QED BY <2>2 DEF Precedes, c
<1>3. CASE Precedes(t, x, y)
  <2>1. PICK i, j \in 1 .. Len(t) : i < j /\ t[i] = x /\ t[j] = y
    BY <1>1, <1>3 DEF Precedes
  <2>2. /\ Len(s) + i \in DOMAIN c /\ Len(s) + j \in DOMAIN c /\ Len(s) + i < Len(s) + j
        /\ c[Len(s) + i] = x /\ c[Len(s) + j] = y
    BY <1>1, <2>1
  <2> QED BY <2>2 DEF Precedes, c
<1>4. CASE x \in ToSet(s) /\ y \in ToSet(t)
  <2>1. PICK i \in 1 .. Len(s) : s[i] = x
    BY <1>1, <1>4 DEF ToSet
  <2>2. PICK j \in 1 .. Len(t) : t[j] = y
    BY <1>1, <1>4 DEF ToSet
  <2>3. /\ i \in DOMAIN c /\ Len(s) + j \in DOMAIN c /\ i < Len(s) + j
        /\ c[i] = x /\ c[Len(s) + j] = y
    BY <1>1, <2>1, <2>2
  <2> QED BY <2>3 DEF Precedes, c
<1> QED BY <1>2, <1>3, <1>4

(* A list cut behind its n-th member.                                       *)
LEMMA OrderOfCut ==
  ASSUME NEW S, NEW s \in Seq(S), NEW n \in 0 .. Len(s), NEW x, NEW y, Precedes(s, x, y)
  PROVE  LET a == SubSeq(s, 1, n)
             b == SubSeq(s, n + 1, Len(s))
         IN  /\ \/ Precedes(a, x, y) \/ Precedes(b, x, y)
                \/ x \in ToSet(a) /\ y \in ToSet(b)
             /\ IsInjective(s) => /\ x \in ToSet(a) /\ y \in ToSet(a) => Precedes(a, x, y)
                                  /\ x \in ToSet(b) /\ y \in ToSet(b) => Precedes(b, x, y)
<1> DEFINE a == SubSeq(s, 1, n)
           b == SubSeq(s, n + 1, Len(s))
<1>1. /\ n \in Nat /\ Len(s) \in Nat /\ DOMAIN s = 1 .. Len(s) /\ n <= Len(s)
      /\ DOMAIN a = 1 .. n /\ \A i \in 1 .. n : a[i] = s[i]
      /\ DOMAIN b = 1 .. Len(s) - n /\ \A i \in 1 .. Len(s) - n : b[i] = s[n + i]
  OBVIOUS
<1>2. IsInjective(s) => ToSet(a) \cap ToSet(b) = {}
  BY CutMembers
<1> HIDE DEF a, b
<1>3. PICK i, j \in 1 .. Len(s) : i < j /\ s[i] = x /\ s[j] = y
  BY <1>1 DEF Precedes
<1>4. \A k \in 1 .. Len(s) : k > n => k - n \in DOMAIN b /\ b[k - n] = s[k]
  BY <1>1
<1>5. \A k \in 1 .. Len(s) : k <= n => k \in DOMAIN a /\ a[k] = s[k]
  BY <1>1
<1>6. CASE j <= n
  <2>1. i \in DOMAIN a /\ j \in DOMAIN a /\ a[i] = x /\ a[j] = y
    BY <1>1, <1>3, <1>5, <1>6
  <2>2. Precedes(a, x, y) /\ x \in ToSet(a)
    BY <1>3, <2>1 DEF Precedes, ToSet
  <2> QED BY <1>2, <2>2 DEF a, b
<1>7. CASE i > n
  <2>1. /\ i - n \in DOMAIN b /\ j - n \in DOMAIN b /\ b[i - n] = x /\ b[j - n] = y
        /\ i - n < j - n
    BY <1>1, <1>3, <1>4, <1>7
  <2>2. Precedes(b, x, y) /\ x \in ToSet(b)
    BY <2>1 DEF Precedes, ToSet
  <2> QED BY <1>2, <2>2 DEF a, b
<1>8. CASE i <= n /\ j > n
  <2>1. i \in DOMAIN a /\ j - n \in DOMAIN b /\ a[i] = x /\ b[j - n] = y
    BY <1>1, <1>3, <1>4, <1>5, <1>8
  <2>2. x \in ToSet(a) /\ y \in ToSet(b)
    BY <2>1 DEF ToSet
  <2> QED BY <1>2, <2>2 DEF a, b
<1> QED BY <1>1, <1>6, <1>7, <1>8

(* removeChild: the other members keep their order.                         *)
LEMMA OrderOfRemoved ==
  ASSUME NEW S, NEW s \in Seq(S), IsInjective(s), NEW c \in ToSet(s),
         NEW x, NEW y, x # c, y # c, Precedes(s, x, y)
  PROVE  Precedes(RemoveAt(s, Position(s, c)), x, y)
<1> DEFINE i == Position(s, c)
           a == SubSeq(s, 1, i - 1)
           h == SubSeq(s, 1, i)
           b == SubSeq(s, i + 1, Len(s))
<1>1. i \in DOMAIN s /\ s[i] = c
  BY PositionOfMember
<1>2. DOMAIN s = 1 .. Len(s) /\ Len(s) \in Nat
  OBVIOUS
<1>3. RemoveAt(s, i) = a \o b
  BY DEF RemoveAt
<1> HIDE DEF i
<1>4. /\ i \in 0 .. Len(s) /\ i \in Nat /\ i - 1 \in 0 .. Len(s) /\ DOMAIN a = 1 .. i - 1
      /\ DOMAIN h = 1 .. i /\ (\A k \in 1 .. i - 1 : a[k] = s[k]) /\ (\A k \in 1 .. i : h[k] = s[k])
      /\ a \in Seq(S) /\ b \in Seq(S)
  BY <1>1, <1>2
<1>5. Precedes(h, x, y) \/ Precedes(b, x, y) \/ (x \in ToSet(h) /\ y \in ToSet(b))
  BY <1>4, OrderOfCut
<1> HIDE DEF a, b, h
<1>6. \A k \in 1 .. i : h[k] # c => k \in DOMAIN a /\ a[k] = h[k]
  BY <1>1, <1>4
<1>7. Precedes(h, x, y) => Precedes(a, x, y)
  BY <1>4, <1>6 DEF Precedes
<1>8. x \in ToSet(h) => x \in ToSet(a)
  BY <1>4, <1>6 DEF ToSet
<1>9. Precedes(a \o b, x, y)
  BY <1>4, <1>5, <1>7, <1>8, OrderOfConcat
<1> QED BY <1>3, <1>9 DEF i

(* insertBefore: the old members keep their order, and so do the arrivals.  *)
LEMMA OrderOfPlaced ==
  ASSUME NEW S, NEW s \in Seq(S), NEW ms \in Seq(S), NEW r, r # Nil => r \in ToSet(s),
         NEW x, NEW y, Precedes(s, x, y) \/ Precedes(ms, x, y)
  PROVE  Precedes(Placed(s, ms, r), x, y)
<1>1. CASE r = Nil
  BY <1>1, OrderOfConcat DEF Placed
<1>2. CASE r # Nil
  <2> DEFINE i == Position(s, r)
             a == SubSeq(s, 1, i - 1)
             b == SubSeq(s, i, Len(s))
             am == a \o ms
  <2>1. i \in DOMAIN s /\ DOMAIN s = 1 .. Len(s) /\ Len(s) \in Nat
    BY <1>2, PositionOfMember
  <2>2. Placed(s, ms, r) = am \o b
    BY <1>2 DEF Placed
  <2> HIDE DEF i
  <2>3. i - 1 \in 0 .. Len(s) /\ (i - 1) + 1 = i
    BY <2>1
  <2>4. a \in Seq(S) /\ b \in Seq(S)
    BY <2>3, CutMembers
  <2>5. Precedes(s, x, y) =>
          Precedes(a, x, y) \/ Precedes(b, x, y) \/ (x \in ToSet(a) /\ y \in ToSet(b))
    BY <2>3, OrderOfCut
  <2> HIDE DEF a, b
  <2>6. /\ am \in Seq(S) /\ ToSet(am) = ToSet(a) \cup ToSet(ms)
        /\ Precedes(a, x, y) \/ Precedes(ms, x, y) => Precedes(am, x, y)
    BY <2>4, ConcatMembers, OrderOfConcat
  <2> HIDE DEF am
  <2>7. Precedes(am \o b, x, y)
    BY <2>4, <2>5, <2>6, OrderOfConcat
  <2> QED BY <2>2, <2>7
<1> QED BY <1>1, <1>2

-----------------------------------------------------------------------------
(***************************************************************************)
(* Forests: child lists ks and parent pointers u that agree and have no     *)
(* cycle but of a node that is its own parent. The DOM calls are made of three changes to one: nodes lose their  *)
(* parent, parentless nodes get one, nodes are freed.                       *)
(***************************************************************************)

Forest(u, ks) ==
  /\ u \in [Container -> Container \cup {Nil}]
  /\ ks \in [Container -> Seq(Node)]
  /\ \A x, n \in Container : u[n] = x <=> n \in ToSet(ks[x])
  /\ \A x \in Container : IsInjective(ks[x])
  /\ OnlySelfLoops(u)

(* The invariant makes the nodes a forest.                                  *)
LEMMA ForestOfInv == ForestInv => Forest(up, kids)
BY DEF ForestInv, TypeOK, ListsMirrorParents, Forest

(* Taking parents away makes no cycle.                                      *)
LEMMA FewerParents ==
  ASSUME NEW u \in [Container -> Container \cup {Nil}], OnlySelfLoops(u),
         NEW v \in [Container -> Container \cup {Nil}],
         \A x \in Container : v[x] = u[x] \/ v[x] = Nil
  PROVE  OnlySelfLoops(v)
<1> SUFFICES ASSUME NEW S \in SUBSET Container, S # {}
             PROVE  \E x \in S : v[x] \notin S \ {x}
  BY DEF OnlySelfLoops
<1>1. PICK x \in S : u[x] \notin S \ {x}
  BY DEF OnlySelfLoops
<1> QED BY <1>1, NodeAssumption

(* Nodes M get the parent p; A holds p and all above it, and none of M.     *)
LEMMA NewParents ==
  ASSUME NEW u, NEW v, NEW A, NEW M, NEW p,
         u \in [Container -> Container \cup {Nil}], OnlySelfLoops(u),
         A \in SUBSET Container, M \in SUBSET Container, p \in A,
         \A x \in A : u[x] # Nil => u[x] \in A,
         M \cap A = {},
         \A x \in Container : v[x] = IF x \in M THEN p ELSE u[x]
  PROVE  OnlySelfLoops(v)
<1> SUFFICES ASSUME NEW S \in SUBSET Container, S # {},
                    \A x \in S : v[x] \in S \ {x}
             PROVE  FALSE
  BY DEF OnlySelfLoops
<1>1. CASE S \cap M = {}
  <2>1. \A x \in S : v[x] = u[x]
    BY <1>1
  <2> QED BY <2>1 DEF OnlySelfLoops
<1>2. CASE S \cap M # {}
  <2>1. p \in S
    <3>1. PICK m \in S : m \in M
      BY <1>2
    <3>2. v[m] = p
      BY <3>1
    <3> QED BY <3>1, <3>2
  <2>2. S \cap A \in SUBSET Container /\ S \cap A # {}
    BY <2>1
  <2>3. PICK x \in S \cap A : u[x] \notin (S \cap A) \ {x}
    BY <2>2 DEF OnlySelfLoops
  <2>4. v[x] = u[x] /\ v[x] \in S \ {x}
    BY <2>3
  <2>5. u[x] \in Container
    BY <2>4
  <2> QED BY <2>3, <2>4, <2>5, NodeAssumption
<1> QED BY <1>1, <1>2

(* removeChild on a parent found by getParentNode.                          *)
LEMMA DetachKeepsForest ==
  ASSUME NEW u, NEW ks, Forest(u, ks), NEW c \in Container
  PROVE  Forest([u EXCEPT ![c] = Nil], KidsWithout(ks, u, c))
<1> DEFINE v == [u EXCEPT ![c] = Nil]
           ls == KidsWithout(ks, u, c)
<1>1. /\ u \in [Container -> Container \cup {Nil}]
      /\ ks \in [Container -> Seq(Node)]
      /\ \A x, n \in Container : u[n] = x <=> n \in ToSet(ks[x])
      /\ \A x \in Container : IsInjective(ks[x])
      /\ OnlySelfLoops(u)
  BY DEF Forest
<1>2. v \in [Container -> Container \cup {Nil}] /\ OnlySelfLoops(v)
  BY <1>1, FewerParents
<1>3. CASE u[c] = Nil
  BY <1>1, <1>2, <1>3 DEF Forest, KidsWithout
<1>4. CASE u[c] # Nil
  <2> DEFINE p == u[c]
             t == RemoveAt(ks[p], Position(ks[p], c))
  <2>1. p \in Container /\ c \in ToSet(ks[p]) /\ ks[p] \in Seq(Node)
    BY <1>1, <1>4
  <2>2. t \in Seq(Node) /\ ToSet(t) = ToSet(ks[p]) \ {c} /\ IsInjective(t)
    BY <1>1, <2>1, RemoveMembers
  <2>3. ls = [ks EXCEPT ![p] = t]
    BY <1>4 DEF KidsWithout
  <2> HIDE DEF t, ls
  <2>4. ls \in [Container -> Seq(Node)] /\ \A x \in Container : IsInjective(ls[x])
    BY <1>1, <2>2, <2>3
  <2>5. ASSUME NEW x \in Container, NEW n \in Container
        PROVE  v[n] = x <=> n \in ToSet(ls[x])
    <3>1. CASE x = p
      BY <1>1, <2>1, <2>2, <2>3, <3>1, NodeAssumption
    <3>2. CASE x # p
      BY <1>1, <2>1, <2>3, <3>2, NodeAssumption
    <3> QED BY <3>1, <3>2
  <2> HIDE DEF v
  <2> QED BY <1>2, <2>4, <2>5 DEF Forest, ls, v
<1> QED BY <1>3, <1>4

(* Parentless nodes ms are placed before r; v is u with their new parent.   *)
LEMMA AttachKeepsForest ==
  ASSUME NEW u, NEW ks, Forest(u, ks),
         NEW p \in Container, NEW ms \in Seq(Node), IsInjective(ms),
         NEW r, r # Nil => r \in ToSet(ks[p]),
         \A n \in ToSet(ms) : u[n] = Nil,
         NEW v, v = [x \in Container |-> IF x \in ToSet(ms) THEN p ELSE u[x]],
         OnlySelfLoops(v)
  PROVE  Forest(v, [ks EXCEPT ![p] = Placed(@, ms, r)])
<1> DEFINE M == ToSet(ms)
           t == Placed(ks[p], ms, r)
           ls == [ks EXCEPT ![p] = t]
<1>1. /\ u \in [Container -> Container \cup {Nil}]
      /\ ks \in [Container -> Seq(Node)]
      /\ \A x, n \in Container : u[n] = x <=> n \in ToSet(ks[x])
      /\ \A x \in Container : IsInjective(ks[x])
  BY DEF Forest
<1>2. M \subseteq Container
  BY DEF ToSet, Container
<1>3. \A x \in Container : v[x] = IF x \in M THEN p ELSE u[x]
  OBVIOUS
<1>4. ToSet(ks[p]) \cap M = {}
  BY <1>1, <1>2, NodeAssumption
<1>5. t \in Seq(Node) /\ ToSet(t) = ToSet(ks[p]) \cup M /\ IsInjective(t)
  <2>1. ks[p] \in Seq(Node) /\ IsInjective(ks[p])
    BY <1>1
  <2> QED BY <1>4, <2>1, PlacedMembers
<1> HIDE DEF t, M
<1>6. ls \in [Container -> Seq(Node)] /\ \A x \in Container : IsInjective(ls[x])
  BY <1>1, <1>5
<1>7. ASSUME NEW x \in Container, NEW n \in Container
      PROVE  v[n] = x <=> n \in ToSet(ls[x])
  <2>1. CASE x = p
    BY <1>1, <1>3, <1>5, <2>1
  <2>2. CASE x # p
    <3>1. u[n] = x => n \notin M
      BY NodeAssumption DEF M
    <3> QED BY <1>1, <1>3, <2>2, <3>1
  <2> QED BY <2>1, <2>2
<1>8. v \in [Container -> Container \cup {Nil}]
  BY <1>1
<1> QED BY <1>6, <1>7, <1>8 DEF Forest, t

(* Nodes are freed with all that hangs below them.                          *)
LEMMA FreeKeepsForest ==
  ASSUME NEW u, NEW ks, Forest(u, ks), NEW S,
         \A x \in Container : u[x] # Nil => (x \in S <=> u[x] \in S)
  PROVE  Forest([x \in Container |-> IF x \in S THEN Nil ELSE u[x]],
                [x \in Container |-> IF x \in S THEN << >> ELSE ks[x]])
<1> DEFINE v == [x \in Container |-> IF x \in S THEN Nil ELSE u[x]]
           ls == [x \in Container |-> IF x \in S THEN << >> ELSE ks[x]]
<1>1. /\ u \in [Container -> Container \cup {Nil}]
      /\ ks \in [Container -> Seq(Node)]
      /\ \A x, n \in Container : u[n] = x <=> n \in ToSet(ks[x])
      /\ \A x \in Container : IsInjective(ks[x])
      /\ OnlySelfLoops(u)
  BY DEF Forest
<1>2. v \in [Container -> Container \cup {Nil}] /\ OnlySelfLoops(v)
  BY <1>1, FewerParents
<1>3. << >> \in Seq(Node) /\ ToSet(<< >>) = {} /\ IsInjective(<< >>)
  BY DEF ToSet, IsInjective
<1>4. ls \in [Container -> Seq(Node)] /\ \A x \in Container : IsInjective(ls[x])
  BY <1>1, <1>3
<1>5. \A x, n \in Container : v[n] = x <=> n \in ToSet(ls[x])
  BY <1>1, <1>3, NodeAssumption
<1> QED BY <1>2, <1>4, <1>5 DEF Forest

-----------------------------------------------------------------------------
(***************************************************************************)
(* Walking up and down                                                      *)
(***************************************************************************)

(* Whatever is above p or above an ancestor of p is an ancestor of p.       *)
LEMMA AncestorsClosed ==
  ASSUME NEW u \in [Container -> Container \cup {Nil}], NEW p \in Container,
         NEW y \in Ancestors(u, p) \cup {p}, u[y] # Nil
  PROVE  u[y] \in Ancestors(u, p)
<1>1. y \in Container /\ u[y] \in Container
  BY DEF Ancestors
<1> SUFFICES ASSUME NEW S \in SUBSET Container,
                    \A z \in S \cup {p} : u[z] # Nil => u[z] \in S
             PROVE  u[y] \in S
  BY <1>1 DEF Ancestors
<1>2. y \in S \cup {p}
  BY DEF Ancestors
<1> QED BY <1>2

(* Ancestors is the least set that is closed in this way.                   *)
LEMMA AncestorsLeast ==
  ASSUME NEW u, NEW p, NEW S \in SUBSET Container,
         \A z \in S \cup {p} : u[z] # Nil => u[z] \in S
  PROVE  Ancestors(u, p) \subseteq S
BY DEF Ancestors

(* x, every child list below it, and nothing else, for an x that is not its *)
(* own parent: another node is in the subtree exactly when its parent is.   *)
LEMMA SubtreeOfRoot ==
  ASSUME Forest(up, kids), NEW x \in Container, up[x] # x
  PROVE  /\ x \in Subtree(x) /\ Subtree(x) \subseteq Container
         /\ up[x] \notin Subtree(x)
         /\ \A y \in Container \ {x} : up[y] # Nil =>
               (y \in Subtree(x) <=> up[y] \in Subtree(x))
         /\ \A y \in Subtree(x) \ {x} : up[y] \in Subtree(x)
<1> DEFINE T == Subtree(x)
<1>1. /\ up \in [Container -> Container \cup {Nil}]
      /\ kids \in [Container -> Seq(Node)]
      /\ \A z, n \in Container : up[n] = z <=> n \in ToSet(kids[z])
      /\ OnlySelfLoops(up)
  BY DEF Forest
<1>2. x \in T /\ T \subseteq Container
  BY DEF Subtree
<1>3. ASSUME NEW y \in T, NEW k \in ToSet(kids[y])
      PROVE  k \in T
  <2>1. k \in Container
    <3>1. y \in Container
      BY <1>2
    <3>2. kids[y] \in Seq(Node)
      BY <1>1, <3>1
    <3> QED BY <3>2 DEF ToSet, Container
  <2> SUFFICES ASSUME NEW S \in SUBSET Container, x \in S,
                      \A z \in S : ToSet(kids[z]) \subseteq S
               PROVE  k \in S
    BY <2>1 DEF Subtree
  <2>2. y \in S
    BY DEF Subtree
  <2> QED BY <2>2
<1> HIDE DEF T
<1> DEFINE Z == {y \in T : y = x \/ up[y] \in T}
<1>4. T \subseteq Z
  <2>1. Z \in SUBSET Container /\ x \in Z
    BY <1>2
  <2>2. ASSUME NEW z \in Z, NEW k \in ToSet(kids[z])
        PROVE  k \in Z
    <3>1. z \in T
      OBVIOUS
    <3>2. k \in T /\ k \in Container
      BY <1>2, <1>3, <3>1
    <3>3. up[k] = z
      BY <1>1, <1>2, <3>1, <3>2
    <3> QED BY <3>1, <3>2, <3>3
  <2>3. \A z \in Z : ToSet(kids[z]) \subseteq Z
    BY <2>2
  <2> HIDE DEF Z
  <2> QED BY <2>1, <2>3 DEF T, Subtree
<1>5. \A y \in T \ {x} : up[y] \in T
  BY <1>4
<1>6. up[x] \notin T
  <2> SUFFICES ASSUME up[x] \in T PROVE FALSE
    OBVIOUS
  <2>1. ASSUME NEW y \in T \ {x}, up[y] = y
        PROVE  FALSE
    <3> DEFINE S == T \ {y}
    <3>1. S \in SUBSET Container /\ x \in S
      BY <1>2
    <3>2. ASSUME NEW z \in S, NEW k \in ToSet(kids[z])
          PROVE  k \in S
      <4>1. k \in T /\ z \in Container
        BY <1>2, <1>3
      <4>2. up[k] = z
        BY <1>1, <1>2, <4>1
      <4> QED BY <2>1, <4>1, <4>2
    <3>3. \A z \in S : ToSet(kids[z]) \subseteq S
      BY <3>2
    <3> HIDE DEF S
    <3>4. T \subseteq S
      BY <3>1, <3>3 DEF T, Subtree
    <3> QED BY <2>1, <3>4 DEF S
  <2>2. \A y \in T : up[y] \in T \ {y}
    BY <1>5, <2>1
  <2> QED BY <1>1, <1>2, <2>2 DEF OnlySelfLoops
<1>7. ASSUME NEW y \in Container \ {x}, up[y] # Nil
      PROVE  y \in T <=> up[y] \in T
  <2>1. up[y] \in Container
    BY <1>1, <1>7
  <2>2. y \in ToSet(kids[up[y]])
    BY <1>1, <2>1
  <2> QED BY <1>3, <1>5, <2>2
<1> QED BY <1>2, <1>5, <1>6, <1>7 DEF T

(* What OnlySelfInsertionCycles says, for any such parent pointers.         *)
LEMMA AboveItselfIsOwnParent ==
  ASSUME NEW u \in [Container -> Container \cup {Nil}], OnlySelfLoops(u),
         NEW x \in Container, x \in Ancestors(u, x)
  PROVE  u[x] = x
<1> SUFFICES ASSUME u[x] # x PROVE FALSE
  OBVIOUS
<1> DEFINE S == {y \in Ancestors(u, x) : x \in Ancestors(u, y)}
<1>1. S \subseteq Container /\ x \in S
  BY DEF Ancestors
<1>2. ASSUME NEW y \in S
      PROVE  u[y] \in S \ {y}
  <2>1. y \in Container /\ x \in Ancestors(u, y) /\ y \in Ancestors(u, x)
    BY <1>1
  <2>2. u[y] # Nil
    <3> SUFFICES ASSUME u[y] = Nil PROVE FALSE
      OBVIOUS
    <3> DEFINE E == {n \in Container : FALSE}
    <3>1. E \in SUBSET Container /\ E = {} /\ \A z \in E \cup {y} : u[z] = Nil
      OBVIOUS
    <3> HIDE DEF E
    <3>2. Ancestors(u, y) \subseteq E
      BY <3>1, AncestorsLeast
    <3> QED BY <2>1, <3>1, <3>2
  <2> DEFINE z == u[y]
  <2>3. z \in Container /\ z \in Ancestors(u, x)
    BY <2>1, <2>2, AncestorsClosed
  <2>4. Ancestors(u, y) \subseteq {z} \cup Ancestors(u, z)
    <3> DEFINE R == {z} \cup Ancestors(u, z)
    <3>1. R \in SUBSET Container
      BY <2>3 DEF Ancestors
    <3>2. \A w \in R \cup {y} : u[w] # Nil => u[w] \in R
      BY <2>3, AncestorsClosed
    <3> HIDE DEF R
    <3>3. Ancestors(u, y) \subseteq R
      BY <3>1, <3>2, AncestorsLeast
    <3> QED BY <3>3 DEF R
  <2>5. z \in S
    <3>1. CASE x = z
      BY <1>1, <3>1
    <3>2. CASE x # z
      BY <2>1, <2>3, <2>4, <3>2
    <3> QED BY <3>1, <3>2
  <2>6. ASSUME z = y PROVE FALSE
    <3>1. {y} \in SUBSET Container /\ \A w \in {y} \cup {y} : u[w] # Nil => u[w] \in {y}
      BY <2>1, <2>6
    <3>2. Ancestors(u, y) \subseteq {y}
      BY <3>1, AncestorsLeast
    <3> QED BY <2>1, <2>6, <3>2
  <2> QED BY <2>5, <2>6
<1> QED BY <1>1, <1>2 DEF OnlySelfLoops

-----------------------------------------------------------------------------
(***************************************************************************)
(* insertBefore                                                             *)
(***************************************************************************)

(* A call that DOMParentNode::insertBefore does not refuse at once, and of  *)
(* which the target takes n arrivals.                                       *)
Takes(p, c, r, n) ==
  /\ p \in Parent /\ c \in Allocated /\ r \in Allocated \cup {Nil}
  /\ c \in Fragment => p # c
  /\ ~Refused(p, c, r)
  /\ n \in 0 .. Len(Arriving(c))
  /\ c \notin Fragment => n = 1

(* The nodes a call moves: the one it names, or the first of a fragment.    *)
LEMMA MovedNodes ==
  ASSUME ForestInv, NEW p, NEW c, NEW r, NEW n, Takes(p, c, r, n)
  PROVE  LET ms == SubSeq(Arriving(c), 1, n)
         IN  /\ Arriving(c) \in Seq(Node) /\ IsInjective(Arriving(c))
             /\ ms \in Seq(Node) /\ IsInjective(ms)
             /\ ToSet(ms) = {Arriving(c)[i] : i \in 1 .. n}
             /\ c \notin Fragment => ToSet(ms) = {c}
             /\ c \in Fragment => \A x \in ToSet(ms) : up[x] = c
<1> DEFINE a == Arriving(c)
           ms == SubSeq(a, 1, n)
           rest == SubSeq(a, n + 1, Len(a))
<1>1. c \in Node /\ c \in Container
  BY DEF Takes, Allocated, Container
<1>2. a \in Seq(Node) /\ IsInjective(a)
  <2>1. CASE c \in Fragment
    BY <1>1, <2>1 DEF Arriving, ForestInv, TypeOK, ListsMirrorParents
  <2>2. CASE c \notin Fragment
    BY <1>1, <2>2 DEF Arriving, IsInjective
  <2> QED BY <2>1, <2>2
<1> HIDE DEF a
<1>3. n \in 0 .. Len(a) /\ (c \notin Fragment => n = 1)
  BY DEF Takes, a
<1>4. /\ ms \in Seq(Node) /\ IsInjective(ms) /\ ToSet(ms) = {a[i] : i \in 1 .. n}
      /\ ToSet(ms) \cup ToSet(rest) = ToSet(a)
  BY <1>2, <1>3, CutMembers
<1> HIDE DEF ms, rest
<1>5. ASSUME c \notin Fragment
      PROVE  ToSet(ms) = {c}
  BY <1>3, <1>4, <1>5 DEF a, Arriving
<1>6. ASSUME c \in Fragment, NEW x \in ToSet(ms)
      PROVE  up[x] = c
  <2>1. x \in ToSet(kids[c])
    BY <1>4, <1>6 DEF a, Arriving
  <2>2. x \in Container
    BY <1>4 DEF ToSet, Container
  <2> QED BY <1>1, <2>1, <2>2 DEF ForestInv, ListsMirrorParents
<1> QED BY <1>2, <1>4, <1>5, <1>6 DEF a, ms

(* What HIERARCHY_REQUEST_ERR is thrown for: no moved node is above p, and   *)
(* if one is p itself it is all that is moved.                              *)
LEMMA MovedNodesAreBelow ==
  ASSUME ForestInv, NEW p, NEW c, NEW r, NEW n, Takes(p, c, r, n)
  PROVE  OnlySelfLoops(UpAfter(p, c, n))
<1> DEFINE A == {p} \cup Ancestors(up, p)
           M == {Arriving(c)[i] : i \in 1 .. n}
           v == UpAfter(p, c, n)
<1>1. /\ up \in [Container -> Container \cup {Nil}] /\ OnlySelfLoops(up)
      /\ kids \in [Container -> Seq(Node)]
      /\ \A x, y \in Container : up[y] = x <=> y \in ToSet(kids[x])
  BY DEF ForestInv, TypeOK, ListsMirrorParents
<1>2. /\ p \in Container /\ c \in Container
      /\ kids[c] = << >> \/ c \notin Ancestors(up, p)
  BY DEF Takes, Refused, Parent, Allocated, Container, ForestInv, TypeOK, Node
<1>10. CASE p = c
  <2>1. c \notin Fragment
    BY <1>10 DEF Takes
  <2>2. M = {c}
    BY <2>1 DEF Takes, Arriving
  <2>3. \A x \in Container : v[x] = IF x = c THEN c ELSE up[x]
    BY <1>10, <2>2 DEF UpAfter
  <2> HIDE DEF M, v
  <2> SUFFICES ASSUME NEW S \in SUBSET Container, S # {},
                      \A x \in S : v[x] \in S \ {x}
               PROVE  FALSE
    BY DEF OnlySelfLoops, v
  <2>4. c \notin S
    BY <2>3
  <2>5. \A x \in S : up[x] \in S \ {x}
    BY <2>3, <2>4
  <2> QED BY <1>1, <2>5 DEF OnlySelfLoops
<1>11. CASE p # c
  <2>3. \A x \in A : up[x] # Nil => up[x] \in A
    BY <1>1, <1>2, AncestorsClosed
  <2>4. c \notin A
    <3> DEFINE T == {y \in Container : kids[y] # << >>}
    <3>1. \A z \in T \cup {p} : up[z] # Nil => up[z] \in T
      <4> SUFFICES ASSUME NEW z \in Container, up[z] # Nil PROVE up[z] \in T
        BY <1>2
      <4>1. up[z] \in Container /\ z \in ToSet(kids[up[z]])
        BY <1>1
      <4>2. kids[up[z]] # << >>
        BY <4>1 DEF ToSet
      <4> QED BY <4>1, <4>2
    <3>2. T \in SUBSET Container
      OBVIOUS
    <3> HIDE DEF T
    <3>3. Ancestors(up, p) \subseteq T
      BY <3>1, <3>2, AncestorsLeast
    <3> QED BY <1>2, <1>11, <3>3 DEF T
  <2>5. M \cap A = {} /\ M \in SUBSET Container
    <3>1. /\ M \subseteq Node
          /\ c \notin Fragment => M = {c}
          /\ c \in Fragment => \A x \in M : up[x] = c
      <4> DEFINE ms == SubSeq(Arriving(c), 1, n)
      <4>1. /\ ms \in Seq(Node) /\ ToSet(ms) = M
            /\ c \notin Fragment => ToSet(ms) = {c}
            /\ c \in Fragment => \A x \in ToSet(ms) : up[x] = c
        BY MovedNodes
      <4> HIDE DEF ms, M
      <4>2. ToSet(ms) \subseteq Node
        BY <4>1 DEF ToSet
      <4> QED BY <4>1, <4>2
    <3> HIDE DEF M, A
    <3>2. CASE c \notin Fragment
      BY <1>2, <2>4, <3>1, <3>2
    <3>3. CASE c \in Fragment
      <4> SUFFICES ASSUME NEW x \in M, x \in A PROVE FALSE
        BY <3>1 DEF Container
      <4>1. up[x] = c
        BY <3>1, <3>3
      <4> QED BY <1>2, <2>3, <2>4, <4>1, NodeAssumption
    <3> QED BY <3>2, <3>3
  <2>6. \A x \in Container : v[x] = IF x \in M THEN p ELSE up[x]
    BY DEF UpAfter
  <2>7. A \in SUBSET Container /\ p \in A
    BY <1>2 DEF Ancestors
  <2>8. up \in [Container -> Container \cup {Nil}] /\ OnlySelfLoops(up)
    BY <1>1
  <2> HIDE DEF A, M, v
  <2>9. OnlySelfLoops(v)
    BY <2>3, <2>5, <2>6, <2>7, <2>8, NewParents
  <2> QED BY <2>9 DEF v
<1> QED BY <1>10, <1>11

(* insertBefore on a target that takes the first n arrivals.                *)
LEMMA InsertKeepsForest ==
  ASSUME ForestInv, NEW p, NEW c, NEW r, NEW n, Takes(p, c, r, n)
  PROVE  Forest(UpAfter(p, c, n), KidsAfter(p, c, r, n))
<1> DEFINE ms == SubSeq(Arriving(c), 1, n)
           v == UpAfter(p, c, n)
<1>1. /\ up \in [Container -> Container \cup {Nil}]
      /\ kids \in [Container -> Seq(Node)]
      /\ \A x, y \in Container : up[y] = x <=> y \in ToSet(kids[x])
      /\ \A x \in Container : IsInjective(kids[x])
      /\ OnlySelfLoops(up) /\ Forest(up, kids)
  BY ForestOfInv DEF ForestInv, TypeOK, ListsMirrorParents
<1>2. /\ p \in Container /\ c \in Container /\ r \in Container \cup {Nil}
      /\ c \in Fragment => p # c
  BY DEF Takes, Parent, Allocated, Container, ForestInv, TypeOK, Node
<1>3. r # Nil => up[r] = p
  BY DEF Takes, Refused
<1>4. OnlySelfLoops(v)
  BY MovedNodesAreBelow
<1>5. /\ ms \in Seq(Node) /\ IsInjective(ms)
      /\ ToSet(ms) = {Arriving(c)[i] : i \in 1 .. n}
      /\ c \notin Fragment => ToSet(ms) = {c}
      /\ c \in Fragment => \A x \in ToSet(ms) : up[x] = c
  BY MovedNodes
<1>6. v = [x \in Container |-> IF x \in ToSet(ms) THEN p ELSE up[x]]
  BY <1>5 DEF UpAfter
<1> HIDE DEF v, ms
<1>7. CASE c = r
  <2>1. up[c] = p /\ c \notin Fragment
    BY <1>2, <1>3, <1>7, NodeAssumption DEF ForestInv, FragmentsStayOut
  <2>2. v = up
    BY <1>1, <1>5, <1>6, <2>1
  <2> QED BY <1>1, <1>7, <2>2 DEF KidsAfter, v
<1>8. CASE c # r /\ c \notin Fragment
  <2> DEFINE u1 == [up EXCEPT ![c] = Nil]
             k1 == KidsWithout(kids, up, c)
  <2>1. Forest(u1, k1)
    BY <1>1, <1>2, DetachKeepsForest
  <2>2. r # Nil => r \in ToSet(k1[p])
    <3>1. r # Nil => u1[r] = p
      BY <1>1, <1>2, <1>3, <1>8
    <3> HIDE DEF u1, k1
    <3> QED BY <1>2, <2>1, <3>1 DEF Forest
  <2>3. ToSet(ms) = {c}
    BY <1>5, <1>8
  <2>4. \A x \in ToSet(ms) : u1[x] = Nil
    BY <1>1, <1>2, <2>3
  <2>5. v = [x \in Container |-> IF x \in ToSet(ms) THEN p ELSE u1[x]]
    BY <1>1, <1>6, <2>3
  <2> HIDE DEF u1, k1
  <2>6. Forest(v, [k1 EXCEPT ![p] = Placed(@, ms, r)])
    BY <1>2, <1>4, <1>5, <2>1, <2>2, <2>4, <2>5, AttachKeepsForest
  <2> QED BY <1>8, <2>6 DEF KidsAfter, v, k1, ms
<1>9. CASE c # r /\ c \in Fragment
  <2> DEFINE M == ToSet(ms)
             s == SubSeq(kids[c], n + 1, Len(kids[c]))
             u1 == [x \in Container |-> IF x \in M THEN Nil ELSE up[x]]
             k1 == [kids EXCEPT ![c] = s]
  <2>1. /\ s \in Seq(Node) /\ IsInjective(s) /\ M \cap ToSet(s) = {}
        /\ M \cup ToSet(s) = ToSet(kids[c])
    <3>1. /\ Arriving(c) = kids[c] /\ kids[c] \in Seq(Node) /\ IsInjective(kids[c])
          /\ n \in 0 .. Len(kids[c])
      BY <1>1, <1>2, <1>9 DEF Takes, Arriving
    <3> HIDE DEF M, s
    <3> QED BY <3>1, CutMembers DEF M, s, ms
  <2>2. \A x \in M : up[x] = c
    BY <1>5, <1>9
  <2> HIDE DEF s, M
  <2>3. u1 \in [Container -> Container \cup {Nil}] /\ OnlySelfLoops(u1)
    BY <1>1, FewerParents
  <2>4. k1 \in [Container -> Seq(Node)] /\ \A x \in Container : IsInjective(k1[x])
    BY <1>1, <2>1
  <2>5. ASSUME NEW x \in Container, NEW y \in Container
        PROVE  u1[y] = x <=> y \in ToSet(k1[x])
    <3>1. CASE x = c
      BY <1>1, <2>1, <2>2, <3>1, NodeAssumption
    <3>2. CASE x # c
      BY <1>1, <2>2, <3>2, NodeAssumption
    <3> QED BY <3>1, <3>2
  <2>6. \A x \in Container : x \in M => u1[x] = Nil
    OBVIOUS
  <2>7. \A x \in M : u1[x] = Nil
    BY <1>5, <2>6 DEF M, ToSet, Container
  <2>8. v = [x \in Container |-> IF x \in M THEN p ELSE u1[x]]
    BY <1>6 DEF M
  <2>9. r # Nil => u1[r] = p
    BY <1>2, <1>3, <1>9, <2>2
  <2> HIDE DEF u1, k1
  <2>10. Forest(u1, k1)
    BY <2>3, <2>4, <2>5 DEF Forest
  <2>11. r # Nil => r \in ToSet(k1[p])
    BY <1>2, <2>9, <2>10 DEF Forest
  <2>12. Forest(v, [k1 EXCEPT ![p] = Placed(@, ms, r)])
    BY <1>2, <1>4, <1>5, <2>7, <2>8, <2>10, <2>11, AttachKeepsForest DEF M
  <2> QED BY <1>9, <2>12 DEF KidsAfter, v, k1, ms, s
<1> QED BY <1>7, <1>8, <1>9 DEF v

-----------------------------------------------------------------------------
(***************************************************************************)
(* ForestInv, call by call                                                  *)
(***************************************************************************)

(* Calls that allocate and free nothing: a node keeps its parent, loses it, *)
(* or gets one in its own document.                                         *)
LEMMA RelinkingKeepsInv ==
  ASSUME ForestInv, Forest(up', kids'),
         \A x \in Container :
            \/ up'[x] = up[x]
            \/ up'[x] = Nil
            \/ /\ x \in Allocated \ Fragment
               /\ up'[x] \in docs \cup Allocated
               /\ DocumentOf(up'[x]) = DocumentOf(x),
         docElement' \in [Document -> Element \cup {Nil}], outcome' \in Outcome,
         docs' = docs, owner' = owner
  PROVE  ForestInv'
<1>1. TypeOK'
  BY DEF ForestInv, TypeOK, Forest
<1>2. ListsMirrorParents' /\ OnlySelfLoops(up')
  BY DEF Forest, ListsMirrorParents
<1>3. LinksStayInDocument'
  BY DEF ForestInv, LinksStayInDocument, Allocated, DocumentOf
<1>4. FragmentsStayOut'
  BY DEF ForestInv, FragmentsStayOut, Container, Node
<1> QED BY <1>1, <1>2, <1>3, <1>4 DEF ForestInv

(* WRONG_DOCUMENT_ERR: what is moved stays in its document.                 *)
LEMMA MovedNodesStayInDocument ==
  ASSUME ForestInv, NEW p, NEW c, NEW r, NEW n, Takes(p, c, r, n),
         NEW x \in Container
  PROVE  LET v == UpAfter(p, c, n)
         IN  \/ v[x] = up[x]
             \/ /\ x \in Allocated \ Fragment
                /\ v[x] \in docs \cup Allocated
                /\ DocumentOf(v[x]) = DocumentOf(x)
<1> DEFINE M == {Arriving(c)[i] : i \in 1 .. n}
           v == UpAfter(p, c, n)
<1>1. v[x] = IF x \in M THEN p ELSE up[x]
  BY DEF UpAfter
<1>2. /\ p \in docs \cup Allocated /\ c \in Allocated
      /\ DocumentOf(p) = owner[c] /\ c \in Node
  BY DEF Takes, Refused, Parent, Allocated
<1>3. DocumentOf(c) = owner[c]
  BY <1>2, NodeAssumption DEF DocumentOf
<1>4. /\ c \notin Fragment => M = {c}
      /\ c \in Fragment => \A y \in M : up[y] = c
  <2> DEFINE ms == SubSeq(Arriving(c), 1, n)
  <2>1. /\ ToSet(ms) = M
        /\ c \notin Fragment => ToSet(ms) = {c}
        /\ c \in Fragment => \A y \in ToSet(ms) : up[y] = c
    BY MovedNodes
  <2> HIDE DEF ms, M
  <2> QED BY <2>1
<1> HIDE DEF M, v
<1>5. ASSUME x \in M
      PROVE  /\ x \in Allocated \ Fragment
             /\ v[x] \in docs \cup Allocated
             /\ DocumentOf(v[x]) = DocumentOf(x)
  <2>1. CASE c \notin Fragment
    BY <1>1, <1>2, <1>3, <1>4, <1>5, <2>1
  <2>2. CASE c \in Fragment
    <3>1. up[x] = c /\ c # Nil
      BY <1>2, <1>4, <1>5, <2>2, NodeAssumption DEF Container
    <3>2. x \in Allocated /\ DocumentOf(c) = DocumentOf(x)
      BY <3>1 DEF ForestInv, LinksStayInDocument
    <3>3. x \notin Fragment
      BY <3>1 DEF ForestInv, FragmentsStayOut
    <3> QED BY <1>1, <1>2, <1>3, <1>5, <3>2, <3>3
  <2> QED BY <2>1, <2>2
<1> QED BY <1>1, <1>5 DEF v

(* Removing a node leaves an element or null in each cache.                 *)
LEMMA UncachedType ==
  ASSUME NEW cache \in [Document -> Element \cup {Nil}], NEW p, NEW c
  PROVE  Uncached(cache, p, c) \in [Document -> Element \cup {Nil}]
BY DEF Uncached

(* So does inserting nodes.                                                 *)
LEMMA CacheAfterType ==
  ASSUME NEW cache \in [Document -> Element \cup {Nil}], NEW p, NEW c, NEW n
  PROVE  CacheAfter(cache, p, c, n) \in [Document -> Element \cup {Nil}]
<1> DEFINE left == IF up[c] = Nil THEN cache ELSE Uncached(cache, up[c], c)
           new  == {Arriving(c)[i] : i \in 1 .. n} \cap Element
           e    == CHOOSE x \in new : TRUE
<1>1. left \in [Document -> Element \cup {Nil}]
  BY UncachedType
<1>2. new # {} => e \in Element
  OBVIOUS
<1>3. CacheAfter(cache, p, c, n) =
        IF p \in Document /\ new # {} THEN [left EXCEPT ![p] = e] ELSE left
  BY DEF CacheAfter
<1> HIDE DEF left, new, e
<1> QED BY <1>1, <1>2, <1>3

(* insertBefore keeps the invariant, however many nodes have arrived.       *)
LEMMA InsertKeepsInv ==
  ASSUME ForestInv, NEW p, NEW c, NEW r, NEW n, Takes(p, c, r, n),
         up' = UpAfter(p, c, n), kids' = KidsAfter(p, c, r, n),
         docElement' = CacheAfter(docElement, p, c, n),
         outcome' \in Outcome, docs' = docs, owner' = owner
  PROVE  ForestInv'
<1>1. Forest(up', kids')
  BY InsertKeepsForest
<1>2. docElement' \in [Document -> Element \cup {Nil}]
  BY CacheAfterType DEF ForestInv, TypeOK
<1>3. \A x \in Container :
         \/ up'[x] = up[x]
         \/ /\ x \in Allocated \ Fragment
            /\ up'[x] \in docs \cup Allocated
            /\ DocumentOf(up'[x]) = DocumentOf(x)
  BY MovedNodesStayInDocument
<1> QED BY <1>1, <1>2, <1>3, RelinkingKeepsInv

(* replaceChild inserts and then removes r, wherever r is by then.          *)
LEMMA ReplaceKeepsInv ==
  ASSUME ForestInv, NEW p, NEW c, NEW r, NEW n, Takes(p, c, r, n), r # Nil,
         up' = [UpAfter(p, c, n) EXCEPT ![r] = Nil],
         kids' = KidsWithout(KidsAfter(p, c, r, n), UpAfter(p, c, n), r),
         docElement' \in [Document -> Element \cup {Nil}],
         outcome' \in Outcome, docs' = docs, owner' = owner
  PROVE  ForestInv'
<1> DEFINE v == UpAfter(p, c, n)
<1>1. Forest(v, KidsAfter(p, c, r, n))
  BY InsertKeepsForest
<1>2. r \in Container
  BY DEF Takes, Allocated, Container
<1>3. Forest(up', kids')
  BY <1>1, <1>2, DetachKeepsForest
<1>4. \A x \in Container :
         \/ v[x] = up[x]
         \/ /\ x \in Allocated \ Fragment
            /\ v[x] \in docs \cup Allocated
            /\ DocumentOf(v[x]) = DocumentOf(x)
  BY MovedNodesStayInDocument
<1>5. v \in [Container -> Container \cup {Nil}]
  BY <1>1 DEF Forest
<1> HIDE DEF v
<1>6. \A x \in Container : up'[x] = v[x] \/ up'[x] = Nil
  BY <1>2, <1>5 DEF v
<1>7. \A x \in Container :
         \/ up'[x] = up[x]
         \/ up'[x] = Nil
         \/ /\ x \in Allocated \ Fragment
            /\ up'[x] \in docs \cup Allocated
            /\ DocumentOf(up'[x]) = DocumentOf(x)
  BY <1>4, <1>6
<1> QED BY <1>3, <1>7, RelinkingKeepsInv

(* release, and the release of a document: the nodes S are freed, and every *)
(* node outside S keeps its document.                                       *)
LEMMA FreeingKeepsInv ==
  ASSUME ForestInv, NEW S,
         \A x \in Container : up[x] # Nil => (x \in S <=> up[x] \in S),
         Freed(S), docs' \subseteq docs, docs \ S \subseteq docs',
         \A n \in Allocated \ S : owner[n] \in docs',
         docElement' \in [Document -> Element \cup {Nil}], outcome' \in Outcome
  PROVE  ForestInv'
<1>1. /\ owner' = [n \in Node |-> IF n \in S THEN Nil ELSE owner[n]]
      /\ up' = [x \in Container |-> IF x \in S THEN Nil ELSE up[x]]
      /\ kids' = [x \in Container |-> IF x \in S THEN << >> ELSE kids[x]]
  BY DEF Freed
<1>2. Forest(up', kids')
  BY <1>1, ForestOfInv, FreeKeepsForest
<1>3. TypeOK'
  <2>1. owner' \in [Node -> Document \cup {Nil}]
    BY <1>1 DEF ForestInv, TypeOK
  <2> QED BY <1>2, <2>1 DEF ForestInv, TypeOK, Forest
<1>4. ListsMirrorParents' /\ OnlySelfLoops(up')
  BY <1>2 DEF Forest, ListsMirrorParents
<1>5. Allocated' = Allocated \ S
  BY <1>1 DEF Allocated
<1>6. LinksStayInDocument'
  <2>1. \A n \in Allocated' : owner'[n] \in docs'
    BY <1>1, <1>5 DEF Allocated
  <2>2. ASSUME NEW x \in Container, up'[x] # Nil
        PROVE  /\ x \in Allocated'
               /\ up'[x] \in docs' \cup Allocated'
               /\ DocumentOf(up[x])' = DocumentOf(x)'
    <3>1. up'[x] = up[x] /\ x \notin S /\ up[x] \notin S
      BY <1>1, <2>2
    <3>2. /\ x \in Allocated /\ up[x] \in docs \cup Allocated
          /\ DocumentOf(up[x]) = DocumentOf(x)
      BY <2>2, <3>1 DEF ForestInv, LinksStayInDocument
    <3>3. \A y \in (docs \cup Allocated) \ S :
             y \in docs' \cup Allocated' /\ DocumentOf(y)' = DocumentOf(y)
      BY <1>1, <1>5 DEF DocumentOf, Allocated, ForestInv, TypeOK
    <3> QED BY <1>5, <3>1, <3>2, <3>3
  <2> QED BY <2>1, <2>2 DEF LinksStayInDocument
<1>7. FragmentsStayOut'
  BY <1>1 DEF ForestInv, FragmentsStayOut, Container, Node
<1> QED BY <1>3, <1>4, <1>6, <1>7 DEF ForestInv

(* release of a node without parent: its subtree goes, nothing else.        *)
LEMMA ReleaseKeepsInv ==
  ASSUME ForestInv, NEW n \in Allocated, Release(n)
  PROVE  ForestInv'
<1> DEFINE S == Subtree(n)
<1>1. n \in Container /\ up[n] = Nil /\ up[n] # n
  BY NodeAssumption DEF Release, Allocated, Container
<1>2. \A x \in Container : up[x] # Nil => (x \in S <=> up[x] \in S)
  BY <1>1, ForestOfInv, SubtreeOfRoot
<1>3. Freed(S) /\ docs' = docs /\ docElement' = docElement /\ outcome' \in Outcome
  BY DEF Release, Outcome
<1> HIDE DEF S
<1>4. \A x \in Allocated \ S : owner[x] \in docs'
  BY <1>3 DEF ForestInv, LinksStayInDocument
<1>5. docElement' \in [Document -> Element \cup {Nil}]
  BY <1>3 DEF ForestInv, TypeOK
<1> QED BY <1>2, <1>3, <1>4, <1>5, FreeingKeepsInv

(* release of a document: every node of its heap goes, attached or not.     *)
LEMMA ReleaseDocumentKeepsInv ==
  ASSUME ForestInv, NEW d \in docs, ReleaseDocument(d)
  PROVE  ForestInv'
<1> DEFINE S == Heap(d)
<1>1. d \in Document
  BY DEF ForestInv, TypeOK
<1>2. ASSUME NEW y \in docs \cup Allocated
      PROVE  y \in S <=> DocumentOf(y) = d
  BY <1>1, NodeAssumption DEF Heap, DocumentOf, Allocated, ForestInv, TypeOK
<1>3. \A x \in Container : up[x] # Nil => (x \in S <=> up[x] \in S)
  BY <1>2 DEF ForestInv, LinksStayInDocument
<1>4. /\ Freed(S) /\ docs' = docs \ {d} /\ outcome' \in Outcome
      /\ docElement' \in [Document -> Element \cup {Nil}]
  BY DEF ReleaseDocument, Outcome, ForestInv, TypeOK
<1>5. d \in S
  BY DEF Heap
<1>6. \A x \in Allocated \ S : owner[x] \in docs'
  BY <1>4 DEF ForestInv, LinksStayInDocument, Heap, Allocated
<1> HIDE DEF S
<1>7. docs' \subseteq docs /\ docs \ S \subseteq docs'
  BY <1>4, <1>5
<1> QED BY <1>3, <1>4, <1>6, <1>7, FreeingKeepsInv

(* Nothing leads to a cell that is not in use, and nothing leads from it.   *)
LEMMA UnusedCells ==
  ASSUME ForestInv, NEW x \in Container, x \notin docs \cup Allocated
  PROVE  /\ up[x] = Nil /\ kids[x] = << >>
         /\ \A y \in Container : up[y] # x
<1>1. \A y \in Container : up[y] # x
  BY NodeAssumption DEF ForestInv, LinksStayInDocument
<1>2. up[x] = Nil
  BY DEF ForestInv, LinksStayInDocument
<1>3. kids[x] = << >>
  <2>1. kids[x] \in Seq(Node) /\ \A y \in ToSet(kids[x]) : y \notin Container
    BY <1>1 DEF ForestInv, TypeOK, ListsMirrorParents
  <2> SUFFICES ASSUME Len(kids[x]) # 0 PROVE FALSE
    BY <2>1
  <2>2. 1 \in DOMAIN kids[x] /\ kids[x][1] \in Node
    BY <2>1
  <2> QED BY <2>1, <2>2 DEF ToSet, Container
<1> QED BY <1>1, <1>2, <1>3

(* A new document keeps the invariant.                                      *)
LEMMA CreateDocumentKeepsInv ==
  ASSUME ForestInv, NEW d \in Document, CreateDocument(d)
  PROVE  ForestInv'
<1>1. /\ docs' = docs \cup {d} /\ outcome' \in Outcome /\ owner' = owner
      /\ up' = up /\ kids' = kids /\ docElement' = docElement
  BY DEF CreateDocument, Outcome
<1>2. TypeOK'
  BY <1>1 DEF ForestInv, TypeOK
<1>3. ListsMirrorParents' /\ OnlySelfLoops(up') /\ FragmentsStayOut'
  BY <1>1 DEF ForestInv, ListsMirrorParents, FragmentsStayOut
<1>4. LinksStayInDocument'
  BY <1>1 DEF ForestInv, LinksStayInDocument, Allocated, DocumentOf
<1> QED BY <1>2, <1>3, <1>4 DEF ForestInv

(* A new node without parent keeps the invariant.                           *)
LEMMA CreateNodeKeepsInv ==
  ASSUME ForestInv, NEW d \in docs, NEW n \in Node, CreateNode(d, n)
  PROVE  ForestInv'
<1>1. /\ n \notin Allocated /\ owner' = [owner EXCEPT ![n] = d]
      /\ outcome' \in Outcome /\ docs' = docs
      /\ up' = up /\ kids' = kids /\ docElement' = docElement
  BY DEF CreateNode, Outcome
<1>2. TypeOK'
  BY <1>1 DEF ForestInv, TypeOK
<1>3. ListsMirrorParents' /\ OnlySelfLoops(up') /\ FragmentsStayOut'
  BY <1>1 DEF ForestInv, ListsMirrorParents, FragmentsStayOut
<1>4. /\ \A x \in Allocated : x \in Allocated' /\ owner'[x] = owner[x]
      /\ \A x \in Allocated' : owner'[x] \in docs
  BY <1>1, NodeAssumption DEF Allocated, ForestInv, TypeOK, LinksStayInDocument, Container
<1>5. \A x \in docs \cup Allocated : DocumentOf(x)' = DocumentOf(x)
  BY <1>4 DEF DocumentOf, ForestInv, TypeOK
<1>6. LinksStayInDocument'
  BY <1>1, <1>4, <1>5 DEF ForestInv, LinksStayInDocument
<1> QED BY <1>2, <1>3, <1>6 DEF ForestInv

(* createDocument with a qualified name keeps the invariant.                *)
LEMMA CreateDocumentWithRootKeepsInv ==
  ASSUME ForestInv, NEW d \in Document, NEW e \in Element, CreateDocumentWithRoot(d, e)
  PROVE  ForestInv'
<1>1. /\ d \notin docs /\ e \notin Allocated /\ docs' = docs \cup {d}
      /\ owner' = [owner EXCEPT ![e] = d] /\ up' = [up EXCEPT ![e] = d]
      /\ kids' = [kids EXCEPT ![d] = <<e>>]
      /\ docElement' = [docElement EXCEPT ![d] = e] /\ outcome' \in Outcome
  BY DEF CreateDocumentWithRoot, Outcome
<1>2. /\ d \in Container /\ e \in Container /\ d # e /\ e \in Node /\ d # Nil
      /\ d \notin docs \cup Allocated /\ e \notin docs \cup Allocated
  BY <1>1, NodeAssumption DEF Container, Node, Allocated, ForestInv, TypeOK
<1>3. /\ up[d] = Nil /\ kids[d] = << >> /\ up[e] = Nil
      /\ \A y \in Container : up[y] # d /\ up[y] # e
  BY <1>2, UnusedCells
<1>4. up \in [Container -> Container \cup {Nil}] /\ OnlySelfLoops(up) /\ Forest(up, kids)
  BY ForestOfInv DEF ForestInv, TypeOK
<1>5. Forest(up', kids')
  <2> DEFINE ms == <<e>>
             v == [x \in Container |-> IF x \in ToSet(ms) THEN d ELSE up[x]]
  <2>1. /\ ms \in Seq(Node) /\ ToSet(ms) = {e} /\ IsInjective(ms)
        /\ << >> \o ms = ms
    BY <1>2 DEF ToSet, IsInjective
  <2>2. up' = v
    BY <1>1, <1>2, <1>4, <2>1
  <2>3. OnlySelfLoops(v)
    <3>1. \A x \in Container : v[x] = IF x = e THEN d ELSE up[x]
      BY <2>1
    <3> HIDE DEF v
    <3> SUFFICES ASSUME NEW S \in SUBSET Container, S # {}
                 PROVE  \E x \in S : v[x] \notin S \ {x}
      BY DEF OnlySelfLoops
    <3>2. CASE d \in S
      BY <1>2, <1>3, <3>1, <3>2, NodeAssumption
    <3>3. CASE d \notin S
      <4>1. PICK x \in S : up[x] \notin S \ {x}
        BY <1>4 DEF OnlySelfLoops
      <4> QED BY <3>1, <3>3, <4>1
    <3> QED BY <3>2, <3>3
  <2>4. kids' = [kids EXCEPT ![d] = Placed(@, ms, Nil)]
    BY <1>1, <1>3, <2>1 DEF Placed
  <2>5. \A x \in ToSet(ms) : up[x] = Nil
    BY <1>3, <2>1
  <2> HIDE DEF ms
  <2>6. Forest(v, [kids EXCEPT ![d] = Placed(@, ms, Nil)])
    BY <1>2, <1>4, <2>1, <2>3, <2>5, AttachKeepsForest
  <2> QED BY <2>2, <2>4, <2>6
<1>6. TypeOK'
  <2>1. owner' \in [Node -> Document \cup {Nil}]
    BY <1>1 DEF ForestInv, TypeOK
  <2>2. docElement' \in [Document -> Element \cup {Nil}] /\ docs' \subseteq Document
    BY <1>1 DEF ForestInv, TypeOK
  <2> QED BY <1>1, <1>5, <2>1, <2>2 DEF TypeOK, Forest
<1>7. ListsMirrorParents' /\ OnlySelfLoops(up')
  BY <1>5 DEF Forest, ListsMirrorParents
<1>8. /\ \A x \in Allocated : x \in Allocated' /\ owner'[x] = owner[x]
      /\ \A x \in Allocated' : owner'[x] \in docs'
      /\ e \in Allocated' /\ owner'[e] = d
  BY <1>1, <1>2 DEF Allocated, ForestInv, TypeOK, LinksStayInDocument
<1>9. /\ \A x \in docs \cup Allocated : DocumentOf(x)' = DocumentOf(x)
      /\ DocumentOf(e)' = d /\ DocumentOf(d)' = d
  BY <1>2, <1>8, NodeAssumption DEF DocumentOf, ForestInv, TypeOK
<1>10. \A x \in Container : up'[x] = IF x = e THEN d ELSE up[x]
  BY <1>1, <1>4
<1>11. LinksStayInDocument'
  BY <1>1, <1>8, <1>9, <1>10 DEF ForestInv, LinksStayInDocument
<1>12. FragmentsStayOut'
  BY <1>1, <1>10, NodeAssumption DEF ForestInv, FragmentsStayOut, Container, Node
<1> QED BY <1>6, <1>7, <1>11, <1>12 DEF ForestInv

-----------------------------------------------------------------------------
(***************************************************************************)
(* importNode: f copies S, which is n alone or its subtree, into new cells. *)
(***************************************************************************)

Copies(n, S, f) ==
  /\ n \in S /\ S \subseteq Allocated
  /\ \A m \in S \ {n} : up[m] \in S
  /\ S = {n} \/ up[n] \notin S
  /\ S # {n} => \A m \in S : ToSet(kids[m]) \subseteq S
  /\ f \in [S -> Node \ Allocated]
  /\ IsImport(f)

(* What importNode copies, deep or not, fits Copies.                        *)
LEMMA ImportedNodes ==
  ASSUME ForestInv, NEW n \in Allocated, NEW deep \in BOOLEAN,
         deep => n \notin ToSet(kids[n]),
         NEW f \in [Imported(n, deep) -> Node \ Allocated], IsImport(f)
  PROVE  Copies(n, Imported(n, deep), f)
<1> DEFINE S == Imported(n, deep)
<1>1. /\ n \in Container /\ n \in Allocated
      /\ up \in [Container -> Container \cup {Nil}]
      /\ kids \in [Container -> Seq(Node)]
      /\ \A x, y \in Container : up[y] = x <=> y \in ToSet(kids[x])
      /\ OnlySelfLoops(up)
  BY DEF Allocated, Container, ForestInv, TypeOK, ListsMirrorParents
<1>2. CASE ~deep
  <2>1. S = {n}
    BY <1>2 DEF Imported
  <2> QED BY <1>1, <2>1 DEF Copies
<1>3. CASE deep
  <2>1. S = Subtree(n)
    BY <1>3 DEF Imported
  <2>7. up[n] # n
    BY <1>1, <1>3
  <2>2. /\ n \in S /\ S \subseteq Container /\ up[n] \notin S
        /\ \A y \in Container \ {n} : up[y] # Nil => (y \in S <=> up[y] \in S)
        /\ \A y \in S \ {n} : up[y] \in S
    BY <1>1, <2>1, <2>7, ForestOfInv, SubtreeOfRoot
  <2> HIDE DEF S
  <2>3. S \subseteq Allocated
    BY <1>1, <2>2, NodeAssumption DEF ForestInv, LinksStayInDocument
  <2>4. ASSUME NEW m \in S, NEW k \in ToSet(kids[m])
        PROVE  k \in S
    <3>1. m \in Container /\ kids[m] \in Seq(Node)
      BY <1>1, <2>2
    <3>2. k \in Container
      BY <3>1 DEF ToSet, Container
    <3>3. up[k] = m /\ m # Nil
      BY <1>1, <3>1, <3>2, NodeAssumption
    <3> QED BY <2>2, <3>2, <3>3
  <2>5. \A m \in S : ToSet(kids[m]) \subseteq S
    BY <2>4
  <2>6. f \in [S -> Node \ Allocated] /\ IsImport(f)
    BY DEF S
  <2> QED BY <2>2, <2>3, <2>5, <2>6 DEF Copies, S
<1> QED BY <1>2, <1>3

(* importNode keeps the invariant: the copies form a tree of their own.     *)
LEMMA ImportKeepsInv ==
  ASSUME ForestInv, NEW d \in docs, NEW n, NEW S, NEW f, Copies(n, S, f),
         ImportNode(d, n, f)
  PROVE  ForestInv'
<1> DEFINE new == {f[m] : m \in S}
<1>1. /\ n \in S /\ S \subseteq Allocated /\ S \subseteq Node
      /\ S \subseteq Container
      /\ S = {n} \/ up[n] \notin S
      /\ \A m \in S \ {n} : up[m] \in S
      /\ S # {n} => \A m \in S : ToSet(kids[m]) \subseteq S
  BY DEF Copies, Allocated, Container
<1>2. /\ f \in [S -> Node \ Allocated]
      /\ \A m, k \in S : f[m] = f[k] => m = k
      /\ \A m \in S : m \in Fragment <=> f[m] \in Fragment
  BY DEF Copies, IsImport, IsInjective
<1>3. /\ up \in [Container -> Container \cup {Nil}] /\ OnlySelfLoops(up)
      /\ kids \in [Container -> Seq(Node)]
      /\ \A x, y \in Container : up[y] = x <=> y \in ToSet(kids[x])
      /\ \A x \in Container : IsInjective(kids[x])
      /\ docs \subseteq Document /\ owner \in [Node -> Document \cup {Nil}]
      /\ docElement \in [Document -> Element \cup {Nil}]
  BY DEF ForestInv, TypeOK, ListsMirrorParents
<1>4. \A m \in S : Original(f, f[m]) = m
  BY <1>2 DEF Original
<1>5. new \subseteq Node \ Allocated /\ new \subseteq Container
  BY <1>2 DEF Container
<1>6. \A x \in new : x \notin docs \cup Allocated
  BY <1>3, <1>5, NodeAssumption
<1>7. /\ \A x \in new : up[x] = Nil /\ kids[x] = << >>
      /\ \A x \in new, y \in Container : up[y] # x
  BY <1>5, <1>6, UnusedCells
<1>8. DOMAIN f = S /\ {f[m] : m \in DOMAIN f} = new
  BY <1>2
<1>9. /\ owner' = [x \in Node |-> IF x \in new THEN d ELSE owner[x]]
      /\ up' = [x \in Container |->
                  IF x \in new \ {f[n]} THEN f[up[Original(f, x)]] ELSE up[x]]
      /\ kids' = [x \in Container |->
                  IF x \in new /\ S # {n}
                  THEN [i \in DOMAIN kids[Original(f, x)] |-> f[kids[Original(f, x)][i]]]
                  ELSE kids[x]]
      /\ outcome' \in Outcome /\ docs' = docs /\ docElement' = docElement
  BY <1>8 DEF ImportNode, Outcome
<1>10. /\ \A x \in Container \ new : up'[x] = up[x] /\ kids'[x] = kids[x]
       /\ \A m \in S \ {n} : up'[f[m]] = f[up[m]]
       /\ up'[f[n]] = Nil
  <2>1. \A m \in S : f[m] \in new /\ f[m] \in Container
    BY <1>5
  <2>2. \A m \in S \ {n} : f[m] # f[n]
    BY <1>1, <1>2
  <2> HIDE DEF new
  <2>3. ASSUME NEW m \in S \ {n}
        PROVE  up'[f[m]] = f[up[m]]
    BY <1>4, <1>9, <2>1, <2>2
  <2>4. up'[f[n]] = Nil
    BY <1>1, <1>7, <1>9, <2>1
  <2>5. \A x \in Container \ new : up'[x] = up[x] /\ kids'[x] = kids[x]
    BY <1>9
  <2> QED BY <2>3, <2>4, <2>5
<1>11. ASSUME NEW m \in S
       PROVE  /\ kids'[f[m]] \in Seq(Node) /\ IsInjective(kids'[f[m]])
              /\ ToSet(kids'[f[m]]) \subseteq new
              /\ \A k \in S : f[k] \in ToSet(kids'[f[m]]) <=> k # n /\ up[k] = m
  <2>1. f[m] \in new /\ f[m] \in Container /\ m \in Container
    BY <1>1, <1>5
  <2>2. CASE S = {n}
    <3>1. kids'[f[m]] = << >>
      BY <1>7, <1>9, <2>1, <2>2
    <3>2. << >> \in Seq(Node) /\ ToSet(<< >>) = {} /\ IsInjective(<< >>)
      BY DEF ToSet, IsInjective
    <3> HIDE DEF new
    <3> QED BY <2>2, <3>1, <3>2
  <2>3. CASE S # {n}
    <3> DEFINE ks == kids[m]
               t == [i \in DOMAIN ks |-> f[ks[i]]]
    <3>1. ks \in Seq(Node) /\ IsInjective(ks) /\ ToSet(ks) \subseteq S
      BY <1>1, <1>3, <2>1, <2>3
    <3>2. kids'[f[m]] = t
      <4> HIDE DEF new
      <4> QED BY <1>4, <1>9, <2>1, <2>3
    <3> HIDE DEF ks
    <3>3. DOMAIN ks = 1 .. Len(ks) /\ Len(ks) \in Nat /\ \A i \in DOMAIN ks : ks[i] \in S
      BY <3>1 DEF ToSet
    <3>4. t \in Seq(Node) /\ DOMAIN t = DOMAIN ks /\ \A i \in DOMAIN ks : t[i] = f[ks[i]]
      BY <1>2, <3>3
    <3> HIDE DEF t
    <3>5. IsInjective(t)
      BY <1>2, <3>1, <3>3, <3>4 DEF IsInjective
    <3>6. ToSet(t) = {f[k] : k \in ToSet(ks)}
      BY <3>4 DEF ToSet
    <3>7. ToSet(t) \subseteq new
      BY <3>1, <3>6
    <3>8. \A k \in S : f[k] \in ToSet(t) <=> k \in ToSet(ks)
      BY <1>2, <3>1, <3>6
    <3>9. \A k \in S : k \in ToSet(ks) <=> up[k] = m
      BY <1>1, <1>3, <2>1 DEF ks
    <3>10. up[n] # m
      BY <1>1, <2>3
    <3> HIDE DEF new
    <3> QED BY <3>2, <3>4, <3>5, <3>7, <3>8, <3>9, <3>10
  <2> QED BY <2>2, <2>3
<1>12. \A x \in Container : \/ x \notin new
                            \/ \E m \in S : x = f[m]
  OBVIOUS
<1>13. /\ \A m \in S : f[m] \in new /\ f[m] \in Container
       /\ \A m \in S \ {n} : f[up[m]] \in new /\ f[m] # f[n]
  BY <1>1, <1>2, <1>5
<1>14. f[n] # Nil /\ Nil \notin Container
  BY <1>1, <1>13, NodeAssumption
<1> HIDE DEF new
<1>15. up' \in [Container -> Container \cup {Nil}]
  <2>1. ASSUME NEW x \in Container
        PROVE  up'[x] \in Container \cup {Nil}
    <3>1. CASE x \notin new
      BY <1>3, <1>10, <3>1
    <3>2. ASSUME NEW m \in S, x = f[m]
          PROVE  up'[x] \in Container \cup {Nil}
      BY <1>1, <1>10, <1>13, <1>5, <3>2
    <3> QED BY <1>12, <3>1, <3>2
  <2>2. up' = [x \in Container |-> up'[x]]
    BY <1>9
  <2> QED BY <2>1, <2>2
<1>16. /\ kids' \in [Container -> Seq(Node)]
       /\ \A x \in Container : IsInjective(kids'[x])
  <2>1. ASSUME NEW x \in Container
        PROVE  kids'[x] \in Seq(Node) /\ IsInjective(kids'[x])
    <3>1. CASE x \notin new
      BY <1>3, <1>10, <3>1
    <3> QED BY <1>11, <1>12, <3>1
  <2>2. kids' = [x \in Container |-> kids'[x]]
    BY <1>9
  <2> QED BY <2>1, <2>2
<1>17. ASSUME NEW x \in Container, NEW y \in Container
       PROVE  up'[y] = x <=> y \in ToSet(kids'[x])
  <2>1. CASE x \notin new /\ y \notin new
    BY <1>3, <1>10, <2>1
  <2>2. CASE x \notin new /\ y \in new
    <3>1. up'[y] # x
      <4>1. PICK m \in S : y = f[m]
        BY <1>12, <2>2
      <4> QED BY <1>1, <1>10, <1>13, <1>14, <2>2, <4>1
    <3>2. y \notin ToSet(kids[x])
      BY <1>3, <1>7, <1>14, <2>2
    <3> QED BY <1>10, <2>2, <3>1, <3>2
  <2>3. CASE x \in new /\ y \notin new
    <3>1. up'[y] # x
      BY <1>7, <1>10, <2>3
    <3>2. y \notin ToSet(kids'[x])
      BY <1>11, <1>12, <2>3
    <3> QED BY <3>1, <3>2
  <2>4. CASE x \in new /\ y \in new
    <3>1. PICK m \in S : x = f[m]
      BY <1>12, <2>4
    <3>2. PICK k \in S : y = f[k]
      BY <1>12, <2>4
    <3>3. y \in ToSet(kids'[x]) <=> k # n /\ up[k] = m
      BY <1>11, <3>1, <3>2
    <3>4. CASE k = n
      BY <1>10, <1>14, <3>2, <3>3, <3>4
    <3>5. CASE k # n
      <4>1. up'[y] = f[up[k]] /\ up[k] \in S
        BY <1>1, <1>10, <3>2, <3>5
      <4> QED BY <1>2, <3>1, <3>3, <3>5, <4>1
    <3> QED BY <3>4, <3>5
  <2> QED BY <2>1, <2>2, <2>3, <2>4
<1>18. OnlySelfLoops(up')
  <2> SUFFICES ASSUME NEW C \in SUBSET Container, C # {},
                      \A x \in C : up'[x] \in C \ {x}
               PROVE  FALSE
    BY DEF OnlySelfLoops
  <2> DEFINE O == {m \in S : f[m] \in C}
  <2>1. CASE O = {}
    <3>1. \A x \in C : x \notin new
      BY <1>12, <2>1
    <3>2. \A x \in C : up[x] \in C \ {x}
      BY <1>10, <3>1
    <3> QED BY <1>3, <3>2 DEF OnlySelfLoops
  <2>2. CASE O # {}
    <3>1. O \in SUBSET Container
      BY <1>1
    <3>2. \A m \in O : up[m] \in O \ {m}
      BY <1>1, <1>10, <1>14
    <3> HIDE DEF O
    <3> QED BY <1>3, <2>2, <3>1, <3>2 DEF OnlySelfLoops
  <2> QED BY <2>1, <2>2
<1>19. TypeOK'
  <2>1. owner' \in [Node -> Document \cup {Nil}]
    BY <1>3, <1>9
  <2> QED BY <1>3, <1>9, <1>15, <1>16, <2>1 DEF TypeOK
<1>20. /\ \A x \in Allocated : x \in Allocated' /\ owner'[x] = owner[x]
       /\ \A x \in Allocated' : owner'[x] \in docs
       /\ \A x \in new : x \in Allocated' /\ owner'[x] = d
  <2>1. d # Nil /\ new \subseteq Node \ Allocated
    BY <1>3, <1>5, NodeAssumption DEF Container
  <2> QED BY <1>9, <2>1 DEF Allocated, ForestInv, LinksStayInDocument
<1>21. /\ \A x \in docs \cup Allocated : DocumentOf(x)' = DocumentOf(x)
       /\ \A x \in new : DocumentOf(x)' = d
  BY <1>3, <1>5, <1>20, NodeAssumption DEF DocumentOf
<1>22. LinksStayInDocument'
  <2> SUFFICES ASSUME NEW x \in Container, up'[x] # Nil
               PROVE  /\ x \in Allocated' /\ up'[x] \in docs' \cup Allocated'
                      /\ DocumentOf(up[x])' = DocumentOf(x)'
    BY <1>9, <1>20 DEF LinksStayInDocument
  <2>1. CASE x \notin new
    <3>1. up'[x] = up[x]
      BY <1>10, <2>1
    <3>2. /\ x \in Allocated /\ up[x] \in docs \cup Allocated
          /\ DocumentOf(up[x]) = DocumentOf(x)
      BY <2>1, <3>1 DEF ForestInv, LinksStayInDocument
    <3>3. \A y : up'[x] = y => DocumentOf(up[x])' = DocumentOf(y)'
      BY DEF DocumentOf
    <3> QED BY <1>9, <1>20, <1>21, <3>1, <3>2, <3>3
  <2>2. CASE x \in new
    <3>1. up'[x] \in new
      <4>1. PICK m \in S : x = f[m]
        BY <1>12, <2>2
      <4> QED BY <1>10, <1>13, <4>1
    <3>2. \A y : up'[x] = y => DocumentOf(up[x])' = DocumentOf(y)'
      BY DEF DocumentOf
    <3> QED BY <1>9, <1>20, <1>21, <2>2, <3>1, <3>2
  <2> QED BY <2>1, <2>2
<1>23. FragmentsStayOut'
  <2> SUFFICES ASSUME NEW x \in Fragment PROVE up'[x] = Nil
    BY DEF FragmentsStayOut
  <2>1. x \in Container /\ up[x] = Nil
    BY DEF Container, Node, ForestInv, FragmentsStayOut
  <2>2. CASE x \notin new
    BY <1>10, <2>1, <2>2
  <2>3. CASE x \in new
    <3>1. PICK m \in S : x = f[m]
      BY <1>12, <2>1, <2>3
    <3>2. m \in Fragment
      BY <1>2, <3>1
    <3>3. up[m] = Nil
      BY <3>2 DEF ForestInv, FragmentsStayOut
    <3>4. m = n
      BY <1>1, <1>14, <3>3
    <3> QED BY <1>10, <3>1, <3>4
  <2> QED BY <2>2, <2>3
<1>24. ListsMirrorParents'
  BY <1>16, <1>17 DEF ListsMirrorParents
<1> QED BY <1>18, <1>19, <1>22, <1>23, <1>24 DEF ForestInv

-----------------------------------------------------------------------------
(***************************************************************************)
(* The invariant                                                            *)
(***************************************************************************)

(* The invariant holds before the first document is created.                *)
LEMMA InitForestInv == Init => ForestInv
<1> SUFFICES ASSUME Init PROVE ForestInv
  OBVIOUS
<1>1. << >> \in Seq(Node) /\ ToSet(<< >>) = {} /\ IsInjective(<< >>)
  BY DEF ToSet, IsInjective
<1>2. TypeOK
  BY <1>1 DEF Init, TypeOK, Outcome
<1>3. ListsMirrorParents
  BY <1>1, NodeAssumption DEF Init, ListsMirrorParents
<1>4. LinksStayInDocument /\ FragmentsStayOut
  BY DEF Init, LinksStayInDocument, FragmentsStayOut, Allocated, Container, Node
<1>5. OnlySelfLoops(up)
  BY NodeAssumption DEF Init, OnlySelfLoops
<1> QED BY <1>2, <1>3, <1>4, <1>5 DEF ForestInv

(* Calls that leave every list alone.                                       *)
LEMMA NothingMoves ==
  ASSUME ForestInv, treeVars' = treeVars, outcome' \in Outcome
  PROVE  ForestInv'
BY DEF ForestInv, TypeOK, ListsMirrorParents, LinksStayInDocument,
       FragmentsStayOut, Allocated, DocumentOf, treeVars

(* A call moves the node it names, or the children of the fragment.         *)
LEMMA ArrivingLength ==
  ASSUME ForestInv, NEW c \in Allocated
  PROVE  /\ Len(Arriving(c)) \in Nat
         /\ c \notin Fragment => Len(Arriving(c)) = 1
         /\ c \in Fragment => Arriving(c) = kids[c]
<1>1. c \in Container
  BY DEF Allocated, Container
<1>2. kids[c] \in Seq(Node)
  BY <1>1 DEF ForestInv, TypeOK
<1> QED BY <1>2 DEF Arriving

(* Creation keeps the invariant.                                            *)
LEMMA CreationKeepsInv == ForestInv /\ Creation => ForestInv'
BY CreateDocumentKeepsInv, CreateDocumentWithRootKeepsInv, CreateNodeKeepsInv
   DEF Creation

(* Importing keeps the invariant.                                           *)
LEMMA ImportingKeepsInv == ForestInv /\ Importing => ForestInv'
<1> SUFFICES ASSUME ForestInv, NEW d \in docs, NEW n \in Allocated,
                    NEW deep \in BOOLEAN,
                    NEW f \in [Imported(n, deep) -> Node \ Allocated],
                    deep => n \notin ToSet(kids[n]),
                    IsImport(f), ImportNode(d, n, f)
             PROVE  ForestInv'
  BY DEF Importing
<1>1. Copies(n, Imported(n, deep), f)
  BY ImportedNodes
<1> QED BY <1>1, ImportKeepsInv

(* insertBefore keeps the invariant when it returns, throws or stops.       *)
LEMMA InsertionKeepsInv == ForestInv /\ Insertion => ForestInv'
<1> SUFFICES ASSUME ForestInv, NEW p \in Parent, NEW c \in Allocated,
                    NEW r \in Allocated \cup {Nil},
                    \/ InsertBefore(p, c, r)
                    \/ InsertBeforeThrows(p, c, r)
                    \/ \E n \in 0 .. Len(kids[c]) : InsertBeforeStops(p, c, r, n)
             PROVE  ForestInv'
  BY DEF Insertion
<1>1. CASE InsertBefore(p, c, r)
  <2> DEFINE n == Len(Arriving(c))
  <2>1. Takes(p, c, r, n)
    BY <1>1, ArrivingLength DEF InsertBefore, Takes
  <2>2. /\ up' = UpAfter(p, c, n) /\ kids' = KidsAfter(p, c, r, n)
        /\ docElement' = CacheAfter(docElement, p, c, n)
        /\ outcome' \in Outcome /\ docs' = docs /\ owner' = owner
    BY <1>1 DEF InsertBefore, Outcome
  <2> HIDE DEF n
  <2> QED BY <2>1, <2>2, InsertKeepsInv
<1>2. CASE InsertBeforeThrows(p, c, r)
  BY <1>2, NothingMoves DEF InsertBeforeThrows, Outcome
<1>3. ASSUME NEW n \in 0 .. Len(kids[c]), InsertBeforeStops(p, c, r, n)
      PROVE  ForestInv'
  <2>1. Takes(p, c, r, n)
    BY <1>3, ArrivingLength DEF InsertBeforeStops, Takes
  <2>2. /\ up' = UpAfter(p, c, n) /\ kids' = KidsAfter(p, c, r, n)
        /\ docElement' = CacheAfter(docElement, p, c, n)
        /\ outcome' \in Outcome /\ docs' = docs /\ owner' = owner
    BY <1>3 DEF InsertBeforeStops, Outcome
  <2> QED BY <2>1, <2>2, InsertKeepsInv
<1> QED BY <1>1, <1>2, <1>3

(* removeChild keeps the invariant.                                         *)
LEMMA RemovalKeepsInv == ForestInv /\ Removal => ForestInv'
<1> SUFFICES ASSUME ForestInv, NEW p \in Parent, NEW c \in Allocated,
                    RemoveChild(p, c) \/ RemoveChildThrows(p, c)
             PROVE  ForestInv'
  BY DEF Removal
<1>1. CASE RemoveChild(p, c)
  <2>1. /\ up' = [up EXCEPT ![c] = Nil] /\ kids' = KidsWithout(kids, up, c)
        /\ docElement' = Uncached(docElement, p, c)
        /\ outcome' \in Outcome /\ docs' = docs /\ owner' = owner
    BY <1>1 DEF RemoveChild, Outcome
  <2>2. c \in Container
    BY DEF Allocated, Container
  <2>3. Forest(up', kids')
    BY <2>1, <2>2, ForestOfInv, DetachKeepsForest
  <2>4. \A x \in Container : up'[x] = up[x] \/ up'[x] = Nil
    BY <2>1 DEF ForestInv, TypeOK
  <2>5. docElement' \in [Document -> Element \cup {Nil}]
    BY <2>1, UncachedType DEF ForestInv, TypeOK
  <2> QED BY <2>1, <2>3, <2>4, <2>5, RelinkingKeepsInv
<1>2. CASE RemoveChildThrows(p, c)
  BY <1>2, NothingMoves DEF RemoveChildThrows, Outcome
<1> QED BY <1>1, <1>2

(* Releasing nodes and documents keeps the invariant.                       *)
LEMMA DestructionKeepsInv == ForestInv /\ Destruction => ForestInv'
<1> SUFFICES ASSUME ForestInv, Destruction PROVE ForestInv'
  OBVIOUS
<1>1. ASSUME NEW n \in Allocated, ReleaseThrows(n)
      PROVE  ForestInv'
  BY <1>1, NothingMoves DEF ReleaseThrows, Outcome
<1> QED BY <1>1, ReleaseKeepsInv, ReleaseDocumentKeepsInv DEF Destruction

(* replaceChild on an element or a fragment keeps the invariant.            *)
LEMMA ReplaceChildKeepsInv ==
  ASSUME ForestInv, NEW p \in Parent, NEW c \in Allocated, NEW r \in Allocated,
         ReplaceChild(p, c, r)
  PROVE  ForestInv'
<1> DEFINE n == Len(Arriving(c))
<1>1. Takes(p, c, r, n) /\ r # Nil
  BY ArrivingLength DEF ReplaceChild, Takes
<1>2. /\ up' = [UpAfter(p, c, n) EXCEPT ![r] = Nil]
      /\ kids' = KidsWithout(KidsAfter(p, c, r, n), UpAfter(p, c, n), r)
      /\ outcome' \in Outcome /\ docs' = docs /\ owner' = owner
  BY DEF ReplaceChild, Outcome
<1>3. docElement' \in [Document -> Element \cup {Nil}]
  BY CacheAfterType DEF ReplaceChild, ForestInv, TypeOK
<1> HIDE DEF n
<1> QED BY <1>1, <1>2, <1>3, ReplaceKeepsInv

(* replaceChild on a document keeps the invariant.                          *)
LEMMA ReplaceDocumentChildKeepsInv ==
  ASSUME ForestInv, NEW d \in docs, NEW c \in Allocated, NEW r \in Allocated,
         ReplaceDocumentChild(d, c, r)
  PROVE  ForestInv'
<1> DEFINE n == Len(Arriving(c))
<1>1. d \in Parent /\ d # c
  BY NodeAssumption DEF Parent, Allocated, ForestInv, TypeOK
<1>2. Takes(d, c, r, n) /\ r # Nil
  BY <1>1, ArrivingLength DEF ReplaceDocumentChild, Takes
<1>3. /\ up' = [UpAfter(d, c, n) EXCEPT ![r] = Nil]
      /\ kids' = KidsWithout(KidsAfter(d, c, r, n), UpAfter(d, c, n), r)
      /\ outcome' \in Outcome /\ docs' = docs /\ owner' = owner
  BY DEF ReplaceDocumentChild, Outcome
<1>4. docElement' \in [Document -> Element \cup {Nil}]
  BY CacheAfterType, UncachedType
     DEF ReplaceDocumentChild, Replaced, Forgotten, ForestInv, TypeOK
<1> HIDE DEF n
<1> QED BY <1>2, <1>3, <1>4, ReplaceKeepsInv

(* The half of a fragment that arrived stays linked like any other nodes.   *)
LEMMA ReplaceDocumentChildStopsKeepsInv ==
  ASSUME ForestInv, NEW d \in docs, NEW c \in Allocated, NEW r \in Allocated,
         NEW n \in Nat, ReplaceDocumentChildStops(d, c, r, n)
  PROVE  ForestInv'
<1>1. CASE c \notin Fragment
  BY <1>1, NothingMoves DEF ReplaceDocumentChildStops, Outcome, treeVars
<1>2. CASE c \in Fragment
  <2>1. d \in Parent /\ d # c
    BY NodeAssumption DEF Parent, Allocated, ForestInv, TypeOK
  <2>2. Takes(d, c, r, n)
    BY <1>2, <2>1, ArrivingLength DEF ReplaceDocumentChildStops, StopsAt, Takes
  <2>3. /\ up' = UpAfter(d, c, n) /\ kids' = KidsAfter(d, c, r, n)
        /\ docElement' = docElement
        /\ outcome' \in Outcome /\ docs' = docs /\ owner' = owner
    BY <1>2 DEF ReplaceDocumentChildStops, Outcome
  <2>4. Forest(up', kids')
    BY <2>2, <2>3, InsertKeepsForest
  <2>5. \A x \in Container :
           \/ up'[x] = up[x]
           \/ /\ x \in Allocated \ Fragment
              /\ up'[x] \in docs \cup Allocated
              /\ DocumentOf(up'[x]) = DocumentOf(x)
    BY <2>2, <2>3, MovedNodesStayInDocument
  <2>6. docElement' \in [Document -> Element \cup {Nil}]
    BY <2>3 DEF ForestInv, TypeOK
  <2> QED BY <2>3, <2>4, <2>5, <2>6, RelinkingKeepsInv
<1> QED BY <1>1, <1>2

(* Replacing by another node keeps the invariant.                           *)
LEMMA ReplaceByNodeKeepsInv == ForestInv /\ ReplaceByNode => ForestInv'
<1> SUFFICES ASSUME ForestInv, NEW p \in Parent, NEW c \in Allocated,
                    NEW r \in Allocated,
                    \/ ReplaceChild(p, c, r)
                    \/ ReplaceChildThrows(p, c, r)
                    \/ /\ p \in Document
                       /\ \/ ReplaceDocumentChild(p, c, r)
                          \/ ReplaceDocumentChildStops(p, c, r, 0)
             PROVE  ForestInv'
  BY DEF ReplaceByNode
<1>1. CASE ReplaceChild(p, c, r)
  BY <1>1, ReplaceChildKeepsInv
<1>2. CASE ReplaceChildThrows(p, c, r)
  BY <1>2, NothingMoves DEF ReplaceChildThrows, Outcome
<1>3. ASSUME p \in Document
      PROVE  p \in docs
  BY <1>3, NodeAssumption DEF Parent, Allocated
<1>4. 0 \in Nat
  OBVIOUS
<1> QED BY <1>1, <1>2, <1>3, <1>4, ReplaceDocumentChildKeepsInv,
           ReplaceDocumentChildStopsKeepsInv

(* Replacing by any node, fragments too, keeps the invariant.               *)
LEMMA ReplaceByAnythingKeepsInv == ForestInv /\ ReplaceByAnything => ForestInv'
<1> SUFFICES ASSUME ForestInv, NEW d \in docs, NEW c \in Allocated,
                    NEW r \in Allocated,
                    \/ ReplaceDocumentChild(d, c, r)
                    \/ \E n \in 0 .. Len(kids[c]) :
                          ReplaceDocumentChildStops(d, c, r, n)
             PROVE  ForestInv'
  BY DEF ReplaceByAnything
<1>1. \A n \in 0 .. Len(kids[c]) : n \in Nat
  OBVIOUS
<1> QED BY <1>1, ReplaceDocumentChildKeepsInv, ReplaceDocumentChildStopsKeepsInv

(* A fragment inserted into itself keeps the invariant.                     *)
LEMMA HangKeepsInv == ForestInv /\ Hang => ForestInv'
BY NothingMoves DEF Hang, WalkWithoutEnd, ImportWithoutEnd, InsertIntoItself, Outcome

(* Every step keeps the invariant.                                          *)
LEMMA NextForestInv == ForestInv /\ [Next]_vars => ForestInv'
<1>1. ForestInv /\ CarefulNext => ForestInv'
  BY CreationKeepsInv, ImportingKeepsInv, InsertionKeepsInv, RemovalKeepsInv,
     DestructionKeepsInv, ReplaceByNodeKeepsInv, HangKeepsInv DEF CarefulNext
<1>2. ForestInv /\ UNCHANGED vars => ForestInv'
  BY NothingMoves DEF vars, treeVars, ForestInv, TypeOK
<1> QED BY <1>1, <1>2, ReplaceByAnythingKeepsInv DEF Next

(* Child lists and parent pointers agree, every link lies inside one        *)
(* document's heap, and no parents go round in a circle but those of nodes  *)
(* put into themselves, whatever DOM calls are made in whatever order, an   *)
(* element's insertion into itself included, and whichever of them throw.   *)
THEOREM DocumentsAreForests == Spec => []ForestInv
<1>1. Init => ForestInv
  BY InitForestInv
<1>2. ForestInv /\ [Next]_vars => ForestInv'
  BY NextForestInv
<1> QED BY <1>1, <1>2, PTL DEF Spec

(* No call links a node in use to a freed one or to another document.       *)
THEOREM LinksNeverDangle == Spec => []LinksStayInDocument
<1>1. ForestInv => LinksStayInDocument
  BY DEF ForestInv
<1> QED BY <1>1, DocumentsAreForests, PTL

(* A node is above itself only as its own parent, which it becomes by being *)
(* inserted into itself; the walks up, copies and releases end elsewhere.   *)
THEOREM OnlySelfInsertionMakesCycles == Spec => []OnlySelfInsertionCycles
<1>1. ForestInv => OnlySelfInsertionCycles
  BY AboveItselfIsOwnParent DEF ForestInv, TypeOK, OnlySelfInsertionCycles
<1> QED BY <1>1, DocumentsAreForests, PTL

-----------------------------------------------------------------------------
(***************************************************************************)
(* The cached document element                                              *)
(***************************************************************************)

(* RootIsCached, said with the parent pointers u and the cache.             *)
Rooted(u, cache) ==
  \A d \in Document, e \in Element : u[e] = d <=> cache[d] = e

(* Rooted is RootIsCached, read from the child list.                        *)
LEMMA RootedIsCached ==
  ASSUME ForestInv, Rooted(up, docElement)
  PROVE  RootIsCached
<1> SUFFICES ASSUME NEW d \in Document
             PROVE  ToSet(kids[d]) \cap Element = {docElement[d]} \ {Nil}
  BY DEF RootIsCached
<1>1. d \in Container /\ Element \subseteq Container /\ Nil \notin Element
  BY NodeAssumption DEF Container, Node
<1>2. \A e \in Element : e \in ToSet(kids[d]) <=> docElement[d] = e
  BY <1>1 DEF Rooted, ForestInv, ListsMirrorParents
<1>3. docElement[d] \in Element \cup {Nil}
  BY DEF ForestInv, TypeOK
<1> QED BY <1>1, <1>2, <1>3

(* A child leaves its document; or its new parent's document has no element.*)
LEMMA DetachKeepsRooted ==
  ASSUME NEW u \in [Container -> Container \cup {Nil}],
         NEW cache \in [Document -> Element \cup {Nil}], Rooted(u, cache),
         NEW c \in Container, NEW d, u[c] = d
  PROVE  Rooted([u EXCEPT ![c] = Nil], Uncached(cache, d, c))
<1> SUFFICES ASSUME NEW b \in Document, NEW e \in Element
             PROVE  [u EXCEPT ![c] = Nil][e] = b <=> Uncached(cache, d, c)[b] = e
  BY DEF Rooted
<1>1. e \in Container /\ b \in Container /\ e # Nil /\ b # Nil
  BY NodeAssumption DEF Container, Node
<1>2. u[e] = b <=> cache[b] = e
  BY DEF Rooted
<1>3. c \in Element => (u[c] = b <=> cache[b] = c)
  BY DEF Rooted
<1>4. [u EXCEPT ![c] = Nil][e] = IF e = c THEN Nil ELSE u[e]
  BY <1>1
<1>5. Uncached(cache, d, c)[b] =
        IF d = b /\ c \in Element THEN Nil ELSE cache[b]
  BY DEF Uncached
<1> QED BY <1>1, <1>2, <1>3, <1>4, <1>5

(* A node c that is not a fragment moves to p.                              *)
LEMMA MoveKeepsRooted ==
  ASSUME NEW u, NEW cache, NEW c, NEW p, NEW v, NEW after,
         Rooted(u, cache),
         p \in Document /\ c \in Element => cache[p] = Nil,
         \A x \in Container : v[x] = IF x = c THEN p ELSE u[x],
         \A b \in Document :
            after[b] = IF c \notin Element THEN cache[b]
                       ELSE IF b = p THEN c ELSE IF b = u[c] THEN Nil ELSE cache[b]
  PROVE  Rooted(v, after)
<1> SUFFICES ASSUME NEW b \in Document, NEW e \in Element
             PROVE  v[e] = b <=> after[b] = e
  BY DEF Rooted
<1>1. e \in Container /\ b \in Container /\ e # Nil /\ b # Nil
  BY NodeAssumption DEF Container, Node
<1>2. /\ u[e] = b <=> cache[b] = e
      /\ c \in Element => (u[c] = b <=> cache[b] = c)
      /\ p \in Document => (u[e] = p <=> cache[p] = e)
  BY DEF Rooted
<1>3. v[e] = IF e = c THEN p ELSE u[e]
  BY <1>1
<1> QED BY <1>1, <1>2, <1>3

(* The nodes M leave a fragment for p, at most one element among them when  *)
(* p is a document, and then one without an element.                        *)
LEMMA GatherKeepsRooted ==
  ASSUME NEW u, NEW cache, NEW p, NEW M, NEW v, NEW after, NEW k,
         Rooted(u, cache),
         \A x \in M : u[x] \notin Document,
         p \in Document /\ M \cap Element # {} =>
            cache[p] = Nil /\ M \cap Element = {k},
         \A x \in Container : v[x] = IF x \in M THEN p ELSE u[x],
         \A b \in Document :
            after[b] = IF p = b /\ M \cap Element # {} THEN k ELSE cache[b]
  PROVE  Rooted(v, after)
<1> SUFFICES ASSUME NEW b \in Document, NEW e \in Element
             PROVE  v[e] = b <=> after[b] = e
  BY DEF Rooted
<1>1. e \in Container /\ b \in Container /\ e # Nil /\ b # Nil
  BY NodeAssumption DEF Container, Node
<1>2. u[e] = b <=> cache[b] = e
  BY DEF Rooted
<1>3. v[e] = IF e \in M THEN p ELSE u[e]
  BY <1>1
<1> QED BY <1>1, <1>2, <1>3

(* Where the cache of a document stands after a node that is no fragment    *)
(* has moved from its old parent q to p.                                    *)
LEMMA CacheAfterMove ==
  ASSUME NEW cache \in [Document -> Element \cup {Nil}],
         NEW p, NEW c, Arriving(c) = <<c>>, NEW b \in Document
  PROVE  CacheAfter(cache, p, c, 1)[b] =
           IF c \notin Element THEN cache[b]
           ELSE IF b = p THEN c ELSE IF b = up[c] THEN Nil ELSE cache[b]
<1> DEFINE left == IF up[c] = Nil THEN cache ELSE Uncached(cache, up[c], c)
           new  == {Arriving(c)[i] : i \in 1 .. 1} \cap Element
           e    == CHOOSE x \in new : TRUE
<1>1. left \in [Document -> Element \cup {Nil}]
  BY UncachedType
<1>2. left[b] = IF c \in Element /\ b = up[c] THEN Nil ELSE cache[b]
  BY NodeAssumption DEF Uncached, Container
<1>3. CacheAfter(cache, p, c, 1)[b] = IF b = p /\ new # {} THEN e ELSE left[b]
  <2>1. CacheAfter(cache, p, c, 1) =
          IF p \in Document /\ new # {} THEN [left EXCEPT ![p] = e] ELSE left
    BY DEF CacheAfter
  <2> HIDE DEF left, new, e
  <2> QED BY <1>1, <2>1
<1>4. new = {c} \cap Element
  OBVIOUS
<1>5. c \in Element => new = {c} /\ e = c
  <2> SUFFICES ASSUME c \in Element PROVE new = {c} /\ e = c
    OBVIOUS
  <2>1. new = {c}
    BY <1>4
  <2> HIDE DEF new
  <2> QED BY <2>1
<1> HIDE DEF left, new, e
<1> QED BY <1>2, <1>3, <1>4, <1>5

(* A document lets the first n arrivals in.                                 *)
Admits(p, c, n) ==
  p \in Document => \A i \in 1 .. n : Accepts(docElement[p], p, Arriving(c), i)

(* insertBefore caches the element that arrives.                            *)
LEMMA InsertKeepsRooted ==
  ASSUME ForestInv, Rooted(up, docElement),
         NEW p, NEW c, NEW r, NEW n, Takes(p, c, r, n), Admits(p, c, n)
  PROVE  Rooted(UpAfter(p, c, n), CacheAfter(docElement, p, c, n))
<1> DEFINE M == {Arriving(c)[i] : i \in 1 .. n}
           v == UpAfter(p, c, n)
           after == CacheAfter(docElement, p, c, n)
<1>1. /\ up \in [Container -> Container \cup {Nil}]
      /\ docElement \in [Document -> Element \cup {Nil}]
      /\ c \in Container /\ c \in Node
      /\ n \in Nat
      /\ c \notin Fragment => n = 1 /\ Arriving(c) = <<c>> /\ M = {c}
  BY DEF ForestInv, TypeOK, Takes, Allocated, Container, Arriving
<1>2. \A x \in Container : v[x] = IF x \in M THEN p ELSE up[x]
  BY DEF UpAfter
<1>3. CASE c \notin Fragment
  <2>1. p \in Document /\ c \in Element => docElement[p] = Nil
    BY <1>1, <1>3 DEF Admits, Accepts
  <2>2. \A x \in Container : v[x] = IF x = c THEN p ELSE up[x]
    BY <1>1, <1>2, <1>3
  <2>3. \A b \in Document :
           after[b] = IF c \notin Element THEN docElement[b]
                      ELSE IF b = p THEN c
                      ELSE IF b = up[c] THEN Nil ELSE docElement[b]
    BY <1>1, <1>3, CacheAfterMove
  <2> HIDE DEF v, after, M
  <2>4. Rooted(v, after)
    BY <2>1, <2>2, <2>3, MoveKeepsRooted
  <2> QED BY <2>4 DEF v, after
<1>4. CASE c \in Fragment
  <2>1. up[c] = Nil /\ c \notin Document
    BY <1>1, <1>4, NodeAssumption DEF ForestInv, FragmentsStayOut
  <2>2. after = IF p \in Document /\ M \cap Element # {}
                THEN [docElement EXCEPT ![p] = CHOOSE e \in M \cap Element : TRUE]
                ELSE docElement
    BY <2>1 DEF CacheAfter
  <2>3. \A x \in M : up[x] \notin Document
    <3> DEFINE ms == SubSeq(Arriving(c), 1, n)
    <3>1. ToSet(ms) = M /\ \A y \in ToSet(ms) : up[y] = c
      BY <1>4, MovedNodes
    <3> HIDE DEF ms, M
    <3> QED BY <2>1, <3>1
  <2>4. p \in Document /\ M \cap Element # {} => docElement[p] = Nil
    BY DEF Admits, Accepts
  <2>5. ASSUME p \in Document, NEW x \in M \cap Element, NEW y \in M \cap Element
        PROVE  x = y
    <3>1. PICK i \in 1 .. n : x = Arriving(c)[i]
      OBVIOUS
    <3>2. PICK j \in 1 .. n : y = Arriving(c)[j]
      OBVIOUS
    <3>3. ~(i < j) /\ ~(j < i)
      BY <1>1, <2>5, <3>1, <3>2 DEF Admits, Accepts
    <3>4. i = j
      BY <1>1, <3>3
    <3> QED BY <3>1, <3>2, <3>4
  <2> DEFINE k == CHOOSE e \in M \cap Element : TRUE
  <2>6. p \in Document /\ M \cap Element # {} =>
           docElement[p] = Nil /\ M \cap Element = {k}
    BY <2>4, <2>5
  <2>7. \A b \in Document :
           after[b] = IF p = b /\ M \cap Element # {} THEN k ELSE docElement[b]
    BY <1>1, <2>2
  <2> HIDE DEF v, after, M, k
  <2>8. Rooted(v, after)
    BY <1>2, <2>3, <2>6, <2>7, GatherKeepsRooted
  <2> QED BY <2>8 DEF v, after
<1> QED BY <1>3, <1>4

(* A child of a node that is no document is replaced.                       *)
LEMMA ReplaceChildKeepsRooted ==
  ASSUME ForestInv, Rooted(up, docElement), NEW p \in Parent, NEW c \in Allocated,
         NEW r \in Allocated, ReplaceChild(p, c, r)
  PROVE  Rooted(up', docElement')
<1> DEFINE n == Len(Arriving(c))
           v == UpAfter(p, c, n)
<1>1. Takes(p, c, r, n) /\ r # Nil /\ p \notin Document
  BY ArrivingLength DEF ReplaceChild, Takes
<1>2. /\ up' = [v EXCEPT ![r] = Nil]
      /\ docElement' = CacheAfter(docElement, p, c, n)
  BY DEF ReplaceChild
<1> HIDE DEF n
<1>3. Rooted(v, docElement')
  BY <1>1, <1>2, InsertKeepsRooted DEF Admits
<1>4. r \in Container /\ up[r] = p
  BY <1>1 DEF Takes, Refused, Allocated, Container
<1>5. v[r] = p /\ v = [x \in Container |-> v[x]]
  BY <1>4 DEF UpAfter
<1> HIDE DEF v
<1>6. \A e \in Element : up'[e] = IF e = r THEN Nil ELSE v[e]
  BY <1>2, <1>5 DEF Container, Node
<1> SUFFICES ASSUME NEW b \in Document, NEW e \in Element
             PROVE  up'[e] = b <=> docElement'[b] = e
  BY DEF Rooted
<1>7. v[e] = b <=> docElement'[b] = e
  BY <1>3 DEF Rooted
<1> QED BY <1>1, <1>5, <1>6, <1>7, NodeAssumption DEF Container

(* A child of a document is replaced by another node that is no fragment.   *)
ReplaceAsXmlDocument(d, c, r) ==
  /\ d \in Document /\ c \in Allocated /\ r \in Allocated
  /\ c # r /\ c \notin Fragment
  /\ ReplaceDocumentChild(d, c, r)

(* replaceChild by another node, no fragment, keeps the cache right.        *)
LEMMA ReplaceDocumentChildKeepsRooted ==
  ASSUME ForestInv, Rooted(up, docElement),
         NEW d, NEW c, NEW r, ReplaceAsXmlDocument(d, c, r)
  PROVE  Rooted(up', docElement')
<1> DEFINE u1 == [up EXCEPT ![r] = Nil]
           cache == Forgotten(d, r)
           v == [u1 EXCEPT ![c] = d]
           after == CacheAfter(cache, d, c, 1)
<1>1. /\ up \in [Container -> Container \cup {Nil}]
      /\ docElement \in [Document -> Element \cup {Nil}]
      /\ c \in Container /\ r \in Container /\ r # Nil /\ up[r] = d
      /\ d \in Document /\ c # r /\ c \notin Fragment
  BY NodeAssumption DEF ForestInv, TypeOK, Allocated, Container,
       ReplaceAsXmlDocument, ReplaceDocumentChild, Refused
<1>2. /\ Arriving(c) = <<c>> /\ Len(Arriving(c)) = 1
      /\ {Arriving(c)[i] : i \in 1 .. 1} = {c}
  BY <1>1 DEF Arriving
<1>3. /\ up' = [UpAfter(d, c, 1) EXCEPT ![r] = Nil]
      /\ docElement' = after
      /\ TakesAll(cache[d], d, <<c>>)
  BY <1>2 DEF ReplaceAsXmlDocument, ReplaceDocumentChild, Replaced
<1>4. u1 \in [Container -> Container \cup {Nil}] /\ u1[c] = up[c]
  BY <1>1
<1>5. cache \in [Document -> Element \cup {Nil}]
  BY <1>1, UncachedType DEF Forgotten
<1>6. Rooted(u1, cache)
  BY <1>1, DetachKeepsRooted DEF Forgotten
<1>7. d \in Document /\ c \in Element => cache[d] = Nil
  <2>1. Accepts(cache[d], d, <<c>>, 1)
    BY <1>3 DEF TakesAll
  <2> QED BY <2>1 DEF Accepts
<1>8. up' = v
  <2>1. UpAfter(d, c, 1) = [up EXCEPT ![c] = d]
    BY <1>1, <1>2 DEF UpAfter
  <2> QED BY <1>1, <1>3, <2>1
<1> HIDE DEF cache
<1>9. \A b \in Document :
         after[b] = IF c \notin Element THEN cache[b]
                    ELSE IF b = d THEN c
                    ELSE IF b = u1[c] THEN Nil ELSE cache[b]
  BY <1>1, <1>2, <1>4, <1>5, CacheAfterMove
<1>10. \A x \in Container : v[x] = IF x = c THEN d ELSE u1[x]
  BY <1>4
<1> HIDE DEF u1, v, after
<1>11. Rooted(v, after)
  BY <1>6, <1>7, <1>9, <1>10, MoveKeepsRooted, Z3
<1> QED BY <1>3, <1>8, <1>11

(* createDocument with a qualified name caches the root.                    *)
LEMMA CreateDocumentWithRootKeepsRooted ==
  ASSUME ForestInv, Rooted(up, docElement), NEW d \in Document, NEW e \in Element,
         CreateDocumentWithRoot(d, e)
  PROVE  Rooted(up', docElement')
<1>1. /\ d \notin docs /\ e \notin Allocated
      /\ up' = [up EXCEPT ![e] = d] /\ docElement' = [docElement EXCEPT ![d] = e]
  BY DEF CreateDocumentWithRoot
<1>2. /\ d \in Container /\ e \in Container
      /\ d \notin docs \cup Allocated /\ e \notin docs \cup Allocated
  BY <1>1, NodeAssumption DEF Container, Node, Allocated, ForestInv, TypeOK
<1>3. up[e] = Nil /\ \A y \in Container : up[y] # d
  BY <1>2, UnusedCells
<1>4. /\ up \in [Container -> Container \cup {Nil}]
      /\ docElement \in [Document -> Element \cup {Nil}]
  BY DEF ForestInv, TypeOK
<1> SUFFICES ASSUME NEW b \in Document, NEW x \in Element
             PROVE  up'[x] = b <=> docElement'[b] = x
  BY DEF Rooted
<1>5. up[x] = b <=> docElement[b] = x
  BY DEF Rooted
<1>6. docElement[b] = e <=> up[e] = b
  BY DEF Rooted
<1>7. x \in Container /\ b # Nil
  BY NodeAssumption DEF Container, Node
<1> QED BY <1>1, <1>2, <1>3, <1>4, <1>5, <1>6, <1>7

(* importNode puts nothing into a document's child list.                    *)
LEMMA ImportKeepsRooted ==
  ASSUME ForestInv, Rooted(up, docElement), NEW d \in docs, NEW n, NEW S, NEW f,
         Copies(n, S, f), ImportNode(d, n, f)
  PROVE  Rooted(up', docElement')
<1> DEFINE new == {f[m] : m \in S}
<1>1. /\ f \in [S -> Node \ Allocated] /\ S \subseteq Node /\ n \in S
      /\ \A m, k \in S : f[m] = f[k] => m = k
      /\ \A m \in S \ {n} : up[m] \in S
  BY DEF Copies, IsImport, IsInjective, Allocated
<1>2. DOMAIN f = S /\ {f[m] : m \in DOMAIN f} = new
  BY <1>1
<1>3. \A m \in S : Original(f, f[m]) = m
  BY <1>1 DEF Original
<1>4. /\ up' = [x \in Container |->
                  IF x \in new \ {f[n]} THEN f[up[Original(f, x)]] ELSE up[x]]
      /\ docElement' = docElement
  BY <1>2 DEF ImportNode
<1>5. /\ \A x \in Container : x \notin new => up'[x] = up[x]
      /\ up'[f[n]] = up[f[n]]
  BY <1>1, <1>4 DEF Container
<1>6. ASSUME NEW m \in S \ {n}
      PROVE  up'[f[m]] \in Node /\ up[f[m]] = Nil
  <2>1. f[m] \in new \ {f[n]} /\ f[m] \in Container /\ f[up[m]] \in Node
    BY <1>1 DEF Container
  <2>2. up'[f[m]] = f[up[m]]
    BY <1>3, <1>4, <2>1
  <2>3. f[m] \notin docs \cup Allocated
    BY <1>1, NodeAssumption DEF ForestInv, TypeOK
  <2> QED BY <2>1, <2>2, <2>3, UnusedCells
<1> SUFFICES ASSUME NEW b \in Document, NEW e \in Element
             PROVE  up'[e] = b <=> docElement'[b] = e
  BY DEF Rooted
<1>7. up[e] = b <=> docElement[b] = e
  BY DEF Rooted
<1>8. e \in Container /\ b \notin Node /\ b # Nil
  BY NodeAssumption DEF Container, Node
<1>9. up'[e] = b <=> up[e] = b
  <2>1. CASE e \notin new
    BY <1>5, <1>8, <2>1
  <2>2. ASSUME NEW m \in S, e = f[m]
        PROVE  up'[e] = b <=> up[e] = b
    BY <1>5, <1>6, <1>8, <2>2
  <2> QED BY <2>1, <2>2
<1> QED BY <1>4, <1>7, <1>9

(* A node without parent is no document's element, nor is any node below it.*)
LEMMA ReleaseKeepsRooted ==
  ASSUME ForestInv, Rooted(up, docElement), NEW n \in Allocated, Release(n)
  PROVE  Rooted(up', docElement')
<1> DEFINE S == Subtree(n)
<1>1. n \in Container /\ n \in Node /\ up[n] = Nil /\ up[n] # n
  BY NodeAssumption DEF Release, Allocated, Container
<1>2. \A y \in S \ {n} : up[y] \in S
  BY <1>1, ForestOfInv, SubtreeOfRoot
<1>3. S \subseteq Container
  BY DEF Subtree
<1>4. /\ up' = [x \in Container |-> IF x \in S THEN Nil ELSE up[x]]
      /\ docElement' = docElement
  BY DEF Release, Freed
<1> HIDE DEF S
<1>5. \A b \in Document : b \notin S
  <2> SUFFICES ASSUME NEW b \in Document, b \in S PROVE FALSE
    OBVIOUS
  <2>1. b # n /\ b \in Container /\ b \notin Allocated
    BY <1>1, NodeAssumption DEF Container, Allocated
  <2>2. up[b] \in Container
    BY <1>2, <1>3, <2>1
  <2> QED BY <2>1, <2>2, NodeAssumption DEF ForestInv, LinksStayInDocument
<1> SUFFICES ASSUME NEW b \in Document, NEW e \in Element
             PROVE  up'[e] = b <=> docElement'[b] = e
  BY DEF Rooted
<1>6. up[e] = b <=> docElement[b] = e
  BY DEF Rooted
<1>7. e \in Container /\ b # Nil
  BY NodeAssumption DEF Container, Node
<1> QED BY <1>1, <1>2, <1>4, <1>5, <1>6, <1>7

(* A document released and its heap take nothing from another's cache.      *)
LEMMA ReleaseDocumentKeepsRooted ==
  ASSUME ForestInv, Rooted(up, docElement), NEW d \in docs, ReleaseDocument(d)
  PROVE  Rooted(up', docElement')
<1>1. /\ up' = [x \in Container |-> IF x \in Heap(d) THEN Nil ELSE up[x]]
      /\ docElement' = [docElement EXCEPT ![d] = Nil]
      /\ docElement \in [Document -> Element \cup {Nil}]
  BY DEF ReleaseDocument, Freed, ForestInv, TypeOK
<1> SUFFICES ASSUME NEW b \in Document, NEW e \in Element
             PROVE  up'[e] = b <=> docElement'[b] = e
  BY DEF Rooted
<1>2. up[e] = b <=> docElement[b] = e
  BY DEF Rooted
<1>3. /\ e \in Container /\ e \in Node /\ e \notin Document
      /\ b # Nil /\ e # Nil /\ d \in Document
  BY NodeAssumption DEF Container, Node, ForestInv, TypeOK
<1>4. up[e] = b => (e \in Heap(d) <=> b = d)
  BY <1>3 DEF ForestInv, LinksStayInDocument, DocumentOf, Heap
<1> QED BY <1>1, <1>2, <1>3, <1>4

(* insertBefore keeps the cache right when it returns, throws or stops.     *)
LEMMA InsertionKeepsRooted ==
  ASSUME ForestInv, Rooted(up, docElement), Insertion
  PROVE  Rooted(up', docElement')
<1> SUFFICES ASSUME NEW p \in Parent, NEW c \in Allocated,
                    NEW r \in Allocated \cup {Nil},
                    \/ InsertBefore(p, c, r)
                    \/ InsertBeforeThrows(p, c, r)
                    \/ \E n \in 0 .. Len(kids[c]) : InsertBeforeStops(p, c, r, n)
             PROVE  Rooted(up', docElement')
  BY DEF Insertion
<1>1. CASE InsertBefore(p, c, r)
  <2> DEFINE n == Len(Arriving(c))
  <2>1. Takes(p, c, r, n)
    BY <1>1, ArrivingLength DEF InsertBefore, Takes
  <2>2. Admits(p, c, n)
    <3>1. Arriving(c) \in Seq(Node)
      BY DEF Arriving, Allocated, ForestInv, TypeOK, Container
    <3>2. DOMAIN Arriving(c) = 1 .. n
      BY <3>1
    <3> HIDE DEF n
    <3> QED BY <1>1, <3>2 DEF InsertBefore, TakesAll, RootOf, Admits
  <2>3. up' = UpAfter(p, c, n) /\ docElement' = CacheAfter(docElement, p, c, n)
    BY <1>1 DEF InsertBefore
  <2> HIDE DEF n
  <2> QED BY <2>1, <2>2, <2>3, InsertKeepsRooted
<1>2. CASE InsertBeforeThrows(p, c, r)
  BY <1>2 DEF InsertBeforeThrows, treeVars
<1>3. ASSUME NEW n \in 0 .. Len(kids[c]), InsertBeforeStops(p, c, r, n)
      PROVE  Rooted(up', docElement')
  <2>1. Takes(p, c, r, n)
    BY <1>3, ArrivingLength DEF InsertBeforeStops, Takes
  <2>2. Admits(p, c, n)
    BY <1>3 DEF InsertBeforeStops, StopsAt, RootOf, Admits, Arriving
  <2>3. up' = UpAfter(p, c, n) /\ docElement' = CacheAfter(docElement, p, c, n)
    BY <1>3 DEF InsertBeforeStops
  <2> QED BY <2>1, <2>2, <2>3, InsertKeepsRooted
<1> QED BY <1>1, <1>2, <1>3

(* Replacing by another node keeps the cache right.                         *)
LEMMA ReplaceByNodeKeepsRooted ==
  ASSUME ForestInv, Rooted(up, docElement), ReplaceByNode
  PROVE  Rooted(up', docElement')
<1> SUFFICES ASSUME NEW p \in Parent, NEW c \in Allocated, NEW r \in Allocated,
                    \/ ReplaceChild(p, c, r)
                    \/ ReplaceChildThrows(p, c, r)
                    \/ /\ p \in Document /\ c # r /\ c \notin Fragment
                       /\ \/ ReplaceDocumentChild(p, c, r)
                          \/ ReplaceDocumentChildStops(p, c, r, 0)
             PROVE  Rooted(up', docElement')
  BY DEF ReplaceByNode
<1>1. CASE ReplaceChild(p, c, r)
  BY <1>1, ReplaceChildKeepsRooted
<1>2. CASE ReplaceChildThrows(p, c, r)
  BY <1>2 DEF ReplaceChildThrows, treeVars
<1>3. ASSUME p \in Document, c # r, c \notin Fragment, ReplaceDocumentChild(p, c, r)
      PROVE  Rooted(up', docElement')
  <2>1. ReplaceAsXmlDocument(p, c, r)
    BY <1>3 DEF ReplaceAsXmlDocument
  <2> QED BY <2>1, ReplaceDocumentChildKeepsRooted
<1>4. ASSUME c \notin Fragment, ReplaceDocumentChildStops(p, c, r, 0)
      PROVE  Rooted(up', docElement')
  BY <1>4 DEF ReplaceDocumentChildStops
<1> QED BY <1>1, <1>2, <1>3, <1>4

(* The cache follows the child list, call by call, for documents that are   *)
(* given what XmlDocument gives them.                                       *)
LEMMA CarefulNextKeepsRooted ==
  ASSUME ForestInv, Rooted(up, docElement), CarefulNext
  PROVE  Rooted(up', docElement')
<1>1. CASE Creation
  <2>1. ASSUME NEW d \in Document, NEW e \in Element, CreateDocumentWithRoot(d, e)
        PROVE  Rooted(up', docElement')
    BY <2>1, CreateDocumentWithRootKeepsRooted
  <2>2. ASSUME NEW d \in Document, CreateDocument(d)
        PROVE  Rooted(up', docElement')
    BY <2>2 DEF CreateDocument
  <2>3. ASSUME NEW d \in docs, NEW n \in Node, CreateNode(d, n)
        PROVE  Rooted(up', docElement')
    BY <2>3 DEF CreateNode
  <2> QED BY <1>1, <2>1, <2>2, <2>3 DEF Creation
<1>2. CASE Importing
  <2> SUFFICES ASSUME NEW d \in docs, NEW n \in Allocated, NEW deep \in BOOLEAN,
                      NEW f \in [Imported(n, deep) -> Node \ Allocated],
                      deep => n \notin ToSet(kids[n]),
                      IsImport(f), ImportNode(d, n, f)
               PROVE  Rooted(up', docElement')
    BY <1>2 DEF Importing
  <2>1. Copies(n, Imported(n, deep), f)
    BY ImportedNodes
  <2> QED BY <2>1, ImportKeepsRooted
<1>3. CASE Removal
  <2> SUFFICES ASSUME NEW p \in Parent, NEW c \in Allocated,
                      RemoveChild(p, c) \/ RemoveChildThrows(p, c)
               PROVE  Rooted(up', docElement')
    BY <1>3 DEF Removal
  <2>1. CASE RemoveChildThrows(p, c)
    BY <2>1 DEF RemoveChildThrows, treeVars
  <2>2. CASE RemoveChild(p, c)
    <3>1. /\ up' = [up EXCEPT ![c] = Nil] /\ docElement' = Uncached(docElement, p, c)
          /\ up[c] = p /\ c \in Container
      BY <2>2 DEF RemoveChild, Allocated, Container
    <3>2. /\ up \in [Container -> Container \cup {Nil}]
          /\ docElement \in [Document -> Element \cup {Nil}]
      BY DEF ForestInv, TypeOK
    <3> QED BY <3>1, <3>2, DetachKeepsRooted
  <2> QED BY <2>1, <2>2
<1>4. CASE Destruction
  <2>1. ASSUME NEW n \in Allocated, ReleaseThrows(n)
        PROVE  Rooted(up', docElement')
    BY <2>1 DEF ReleaseThrows, treeVars
  <2> QED BY <1>4, <2>1, ReleaseKeepsRooted, ReleaseDocumentKeepsRooted DEF Destruction
<1>5. CASE Hang
  BY <1>5 DEF Hang, WalkWithoutEnd, ImportWithoutEnd, InsertIntoItself, treeVars
<1> QED BY <1>1, <1>2, <1>3, <1>4, <1>5, InsertionKeepsRooted,
           ReplaceByNodeKeepsRooted DEF CarefulNext

(* The forest and the cache, of documents whose children are replaced only  *)
(* as XmlDocument replaces them.                                            *)
CacheInv == ForestInv /\ Rooted(up, docElement)

LEMMA CachedInvariant == CarefulSpec => []CacheInv
<1>1. Init => CacheInv
  <2>1. Init => Rooted(up, docElement)
    BY NodeAssumption DEF Init, Rooted, Container, Node
  <2> QED BY <2>1, InitForestInv DEF CacheInv
<1>2. CacheInv /\ [CarefulNext]_vars => CacheInv'
  <2> SUFFICES ASSUME CacheInv, [CarefulNext]_vars PROVE CacheInv'
    OBVIOUS
  <2> USE DEF CacheInv
  <2>1. ForestInv'
    BY NextForestInv DEF Next
  <2>2. CASE CarefulNext
    <3>1. Rooted(up', docElement')
      BY <2>2, CarefulNextKeepsRooted
    <3> QED BY <2>1, <3>1 DEF Rooted
  <2>3. CASE UNCHANGED vars
    BY <2>1, <2>3 DEF vars, treeVars, Rooted
  <2> QED BY <2>2, <2>3
<1> QED BY <1>1, <1>2, PTL DEF CarefulSpec

(* Such a document has at most one element, and that is the one             *)
(* getDocumentElement returns.                                              *)
THEOREM TheRootIsCached == CarefulSpec => []RootIsCached
<1>1. CacheInv => RootIsCached
  BY RootedIsCached DEF CacheInv
<1> QED BY <1>1, CachedInvariant, PTL

-----------------------------------------------------------------------------
(***************************************************************************)
(* The order of children                                                    *)
(***************************************************************************)

(* OrderIsKept, of the lists ks before and the lists ls after a call that   *)
(* names c.                                                                 *)
OrderKept(ks, ls, c) ==
  \A p, q \in Container :
     \A x, y \in (ToSet(ks[p]) \cap ToSet(ls[q])) \ {c} :
        Precedes(ks[p], x, y) => Precedes(ls[q], x, y)

(* The lists lose members and nothing else.                                 *)
Thinned(ks, ls) ==
  \A q \in Container :
     /\ ToSet(ls[q]) \subseteq ToSet(ks[q])
     /\ \A x, y \in ToSet(ls[q]) : Precedes(ks[q], x, y) => Precedes(ls[q], x, y)

(* In a forest no node is in two lists, so that such lists keep the order.  *)
LEMMA ThinnedKeepsOrder ==
  ASSUME NEW u, NEW ks, NEW ls, Forest(u, ks), Thinned(ks, ls), NEW c
  PROVE  OrderKept(ks, ls, c)
<1> SUFFICES ASSUME NEW p \in Container, NEW q \in Container,
                    NEW x \in (ToSet(ks[p]) \cap ToSet(ls[q])) \ {c},
                    NEW y \in (ToSet(ks[p]) \cap ToSet(ls[q])) \ {c},
                    Precedes(ks[p], x, y)
             PROVE  Precedes(ls[q], x, y)
  BY DEF OrderKept
<1>1. x \in Container
  BY DEF Forest, ToSet, Container
<1>2. x \in ToSet(ks[q])
  BY DEF Thinned
<1>3. p = q
  BY <1>1, <1>2 DEF Forest
<1> QED BY <1>3 DEF Thinned

(* removeChild only thins.                                                  *)
LEMMA DetachThins ==
  ASSUME NEW u, NEW ks, Forest(u, ks), NEW c \in Container
  PROVE  Thinned(ks, KidsWithout(ks, u, c))
<1> DEFINE ls == KidsWithout(ks, u, c)
<1>1. CASE u[c] = Nil
  BY <1>1 DEF Thinned, KidsWithout
<1>2. CASE u[c] # Nil
  <2> DEFINE o == u[c]
             t == RemoveAt(ks[o], Position(ks[o], c))
  <2>1. o \in Container /\ c \in ToSet(ks[o]) /\ ks[o] \in Seq(Node) /\ IsInjective(ks[o])
    BY <1>2 DEF Forest
  <2>2. ToSet(t) = ToSet(ks[o]) \ {c}
    BY <2>1, RemoveMembers
  <2>3. \A x, y \in ToSet(t) : Precedes(ks[o], x, y) => Precedes(t, x, y)
    BY <2>1, <2>2, OrderOfRemoved
  <2>4. ls = [ks EXCEPT ![o] = t] /\ DOMAIN ks = Container
    BY <1>2 DEF KidsWithout, Forest
  <2> HIDE DEF t, ls, o
  <2>5. \A q \in Container : ls[q] = IF q = o THEN t ELSE ks[q]
    BY <2>1, <2>4
  <2>6. Thinned(ks, ls)
    BY <2>2, <2>3, <2>5 DEF Thinned
  <2> QED BY <2>6 DEF ls
<1> QED BY <1>1, <1>2

(* What is inserted and then thinned.                                       *)
LEMMA OrderThenThin ==
  ASSUME NEW ks, NEW ls, NEW ms, NEW c, OrderKept(ks, ls, c), Thinned(ls, ms)
  PROVE  OrderKept(ks, ms, c)
BY DEF OrderKept, Thinned

(* Lists are thinned, and one of them takes arrivals: c itself, or nodes    *)
(* that stood in one other list in the same order.                          *)
Joins(ks, k1, p, c, ms, r) ==
  /\ k1 \in [Container -> Seq(Node)] /\ Thinned(ks, k1)
  /\ p \in Container /\ IsInjective(k1[p])
  /\ ms \in Seq(Node) /\ IsInjective(ms)
  /\ ToSet(k1[p]) \cap ToSet(ms) = {}
  /\ r # Nil => r \in ToSet(k1[p])
  /\ \A x \in ToSet(ms) \ {c} : x \notin ToSet(ks[p])
  /\ \A q \in Container : \A x, y \in ToSet(ms) \ {c} :
        Precedes(ks[q], x, y) => Precedes(ms, x, y)

LEMMA ArrivalsKeepOrder ==
  ASSUME NEW u, NEW ks, NEW k1, NEW p, NEW c, NEW ms, NEW r,
         Forest(u, ks), Joins(ks, k1, p, c, ms, r)
  PROVE  OrderKept(ks, [k1 EXCEPT ![p] = Placed(@, ms, r)], c)
<1> USE DEF Joins
<1> DEFINE t == Placed(k1[p], ms, r)
           ls == [k1 EXCEPT ![p] = t]
<1>1. k1[p] \in Seq(Node) /\ p \in Container
  OBVIOUS
<1>2. ToSet(t) = ToSet(k1[p]) \cup ToSet(ms)
  BY <1>1, PlacedMembers
<1>3. \A x, y : Precedes(k1[p], x, y) \/ Precedes(ms, x, y) => Precedes(t, x, y)
  BY <1>1, OrderOfPlaced
<1> HIDE DEF t
<1>4. \A q \in Container : ls[q] = IF q = p THEN t ELSE k1[q]
  OBVIOUS
<1> HIDE DEF ls
<1>5. OrderKept(ks, k1, c)
  BY ThinnedKeepsOrder
<1>6. ASSUME NEW q \in Container, NEW x \in (ToSet(ks[q]) \cap ToSet(t)) \ {c},
             NEW y \in (ToSet(ks[q]) \cap ToSet(t)) \ {c}, Precedes(ks[q], x, y)
      PROVE  Precedes(t, x, y)
  <2>1. CASE x \in ToSet(k1[p]) /\ y \in ToSet(k1[p])
    BY <1>3, <1>5, <1>6, <2>1 DEF OrderKept
  <2>2. CASE x \in ToSet(ms) /\ y \in ToSet(ms)
    BY <1>3, <1>6, <2>2
  <2>3. CASE \/ x \in ToSet(k1[p]) /\ y \in ToSet(ms)
             \/ x \in ToSet(ms) /\ y \in ToSet(k1[p])
    <3>1. x \in Container /\ y \in Container
      BY <1>6 DEF Forest, ToSet, Container
    <3>2. x \in ToSet(ks[p]) \/ y \in ToSet(ks[p])
      BY <2>3 DEF Thinned
    <3>3. q = p
      BY <1>6, <3>1, <3>2 DEF Forest
    <3> QED BY <1>6, <2>3, <3>3
  <2>4. /\ x \in ToSet(k1[p]) \/ x \in ToSet(ms)
        /\ y \in ToSet(k1[p]) \/ y \in ToSet(ms)
    BY <1>2, <1>6
  <2> QED BY <2>1, <2>2, <2>3, <2>4
<1>7. OrderKept(ks, ls, c)
  BY <1>4, <1>5, <1>6 DEF OrderKept
<1> QED BY <1>7 DEF ls, t

(* insertBefore, however many nodes have arrived.                           *)
LEMMA InsertKeepsOrder ==
  ASSUME ForestInv, NEW p, NEW c, NEW r, NEW n, Takes(p, c, r, n)
  PROVE  OrderKept(kids, KidsAfter(p, c, r, n), c)
<1> DEFINE ms == SubSeq(Arriving(c), 1, n)
<1>1. /\ up \in [Container -> Container \cup {Nil}]
      /\ kids \in [Container -> Seq(Node)]
      /\ \A x, y \in Container : up[y] = x <=> y \in ToSet(kids[x])
      /\ \A x \in Container : IsInjective(kids[x])
      /\ Forest(up, kids)
  BY ForestOfInv DEF ForestInv, TypeOK, ListsMirrorParents
<1>2. /\ p \in Container /\ c \in Container /\ r \in Container \cup {Nil}
      /\ c \in Fragment => p # c
  BY DEF Takes, Parent, Allocated, Container, ForestInv, TypeOK, Node
<1>3. r # Nil => up[r] = p
  BY DEF Takes, Refused
<1>4. /\ ms \in Seq(Node) /\ IsInjective(ms)
      /\ c \notin Fragment => ToSet(ms) = {c}
      /\ c \in Fragment => \A x \in ToSet(ms) : up[x] = c
  BY MovedNodes
<1> HIDE DEF ms
<1>5. CASE c = r
  <2>1. KidsAfter(p, c, r, n) = kids
    BY <1>5 DEF KidsAfter
  <2>2. Thinned(kids, kids)
    BY DEF Thinned
  <2> QED BY <1>1, <2>1, <2>2, ThinnedKeepsOrder
<1>6. CASE c # r /\ c \notin Fragment
  <2> DEFINE k1 == KidsWithout(kids, up, c)
             u1 == [up EXCEPT ![c] = Nil]
  <2>1. Thinned(kids, k1) /\ Forest(u1, k1)
    BY <1>1, <1>2, DetachThins, DetachKeepsForest
  <2>2. u1[c] = Nil /\ (r # Nil => u1[r] = p)
    BY <1>1, <1>2, <1>3, <1>6
  <2>3. KidsAfter(p, c, r, n) = [k1 EXCEPT ![p] = Placed(@, ms, r)]
    BY <1>6 DEF KidsAfter, ms
  <2> HIDE DEF k1, u1
  <2>4. /\ k1 \in [Container -> Seq(Node)] /\ IsInjective(k1[p])
        /\ c \notin ToSet(k1[p]) /\ (r # Nil => r \in ToSet(k1[p]))
    BY <1>2, <2>1, <2>2, NodeAssumption DEF Forest
  <2>5. ToSet(ms) \ {c} = {} /\ ToSet(k1[p]) \cap ToSet(ms) = {}
    BY <1>4, <1>6, <2>4
  <2>6. Joins(kids, k1, p, c, ms, r)
    BY <1>2, <1>4, <2>1, <2>4, <2>5 DEF Joins
  <2>7. OrderKept(kids, [k1 EXCEPT ![p] = Placed(@, ms, r)], c)
    BY <1>1, <2>6, ArrivalsKeepOrder
  <2> QED BY <2>3, <2>7
<1>7. CASE c # r /\ c \in Fragment
  <2> DEFINE s == SubSeq(kids[c], n + 1, Len(kids[c]))
             k1 == [kids EXCEPT ![c] = s]
  <2>1. /\ Arriving(c) = kids[c] /\ kids[c] \in Seq(Node) /\ IsInjective(kids[c])
        /\ n \in 0 .. Len(kids[c]) /\ ms = SubSeq(kids[c], 1, n)
    BY <1>1, <1>2, <1>7 DEF Takes, Arriving, ms
  <2>2. s \in Seq(Node) /\ ToSet(ms) \cup ToSet(s) = ToSet(kids[c])
    BY <2>1, CutMembers
  <2>3. \A x, y \in ToSet(s) : Precedes(kids[c], x, y) => Precedes(s, x, y)
    BY <2>1, OrderOfCut
  <2>4. \A x, y \in ToSet(ms) : Precedes(kids[c], x, y) => Precedes(ms, x, y)
    BY <2>1, OrderOfCut
  <2>5. KidsAfter(p, c, r, n) = [k1 EXCEPT ![p] = Placed(@, ms, r)]
    BY <1>7, <2>1 DEF KidsAfter
  <2> HIDE DEF s
  <2>6. k1 \in [Container -> Seq(Node)] /\ \A q \in Container : k1[q] = IF q = c THEN s ELSE kids[q]
    BY <1>1, <1>2, <2>2
  <2> HIDE DEF k1
  <2>7. Thinned(kids, k1)
    BY <2>2, <2>3, <2>6 DEF Thinned
  <2>8. k1[p] = kids[p] /\ IsInjective(k1[p]) /\ (r # Nil => r \in ToSet(k1[p]))
    BY <1>1, <1>2, <1>3, <1>7, <2>6
  <2>9. \A x \in ToSet(ms) : x \notin ToSet(kids[p])
    <3> SUFFICES ASSUME NEW x \in ToSet(ms) PROVE x \notin ToSet(kids[p])
      OBVIOUS
    <3>1. up[x] = c /\ x \in Container
      BY <1>4, <1>7 DEF ToSet, Container
    <3> QED BY <1>1, <1>2, <1>7, <3>1
  <2>10. ToSet(k1[p]) \cap ToSet(ms) = {}
    BY <2>8, <2>9
  <2>11. ASSUME NEW q \in Container, NEW x \in ToSet(ms), NEW y \in ToSet(ms),
                Precedes(kids[q], x, y)
         PROVE  Precedes(ms, x, y)
    <3>1. up[x] = c /\ x \in Container
      BY <1>4, <1>7 DEF ToSet, Container
    <3>2. x \in ToSet(kids[q])
      BY <2>11 DEF Precedes, ToSet
    <3>3. q = c
      BY <1>1, <3>1, <3>2
    <3> QED BY <2>4, <2>11, <3>3
  <2>12. Joins(kids, k1, p, c, ms, r)
    BY <1>2, <1>4, <2>6, <2>7, <2>8, <2>9, <2>10, <2>11 DEF Joins
  <2>13. OrderKept(kids, [k1 EXCEPT ![p] = Placed(@, ms, r)], c)
    BY <1>1, <2>12, ArrivalsKeepOrder
  <2> QED BY <2>5, <2>13
<1> QED BY <1>5, <1>6, <1>7

(* What one call does to the lists.                                         *)
OrderedStep == \E c \in Node \cup {Nil} : OrderKept(kids, kids', c)

(* A call that only thins the lists, or leaves them alone.                  *)
LEMMA ThinnedIsOrdered ==
  ASSUME ForestInv, Thinned(kids, kids')
  PROVE  OrderedStep
<1>1. OrderKept(kids, kids', Nil)
  BY ForestOfInv, ThinnedKeepsOrder
<1> QED BY <1>1 DEF OrderedStep

(* A call that leaves the lists alone.                                     *)
LEMMA SameListsAreOrdered ==
  ASSUME ForestInv, kids' = kids
  PROVE  OrderedStep
BY ThinnedIsOrdered DEF Thinned

(* insertBefore.                                                            *)
LEMMA InsertIsOrdered ==
  ASSUME ForestInv, NEW p, NEW c, NEW r, NEW n, Takes(p, c, r, n),
         kids' = KidsAfter(p, c, r, n)
  PROVE  OrderedStep
<1>1. c \in Node
  BY DEF Takes, Allocated
<1> QED BY <1>1, InsertKeepsOrder DEF OrderedStep

(* replaceChild.                                                            *)
LEMMA ReplaceIsOrdered ==
  ASSUME ForestInv, NEW p, NEW c, NEW r, NEW n, Takes(p, c, r, n), r # Nil,
         kids' = KidsWithout(KidsAfter(p, c, r, n), UpAfter(p, c, n), r)
  PROVE  OrderedStep
<1> DEFINE ls == KidsAfter(p, c, r, n)
           v == UpAfter(p, c, n)
<1>1. c \in Node /\ r \in Container
  BY DEF Takes, Allocated, Container
<1>2. Forest(v, ls) /\ OrderKept(kids, ls, c)
  BY InsertKeepsForest, InsertKeepsOrder
<1> HIDE DEF ls, v
<1>3. Thinned(ls, KidsWithout(ls, v, r))
  BY <1>1, <1>2, DetachThins
<1>4. OrderKept(kids, KidsWithout(ls, v, r), c)
  BY <1>2, <1>3, OrderThenThin
<1> QED BY <1>1, <1>4 DEF OrderedStep, ls, v

(* release.                                                                 *)
LEMMA FreedIsOrdered ==
  ASSUME ForestInv, NEW S, Freed(S)
  PROVE  OrderedStep
<1>1. \A q \in Container : kids'[q] = kids[q] \/ kids'[q] = << >>
  BY DEF Freed
<1>2. Thinned(kids, kids')
  BY <1>1 DEF Thinned, ToSet
<1> QED BY <1>2, ThinnedIsOrdered

(* createDocument with a root: a list of one, and that one new.             *)
LEMMA RootIsOrdered ==
  ASSUME ForestInv, NEW d \in Document, NEW e \in Element,
         CreateDocumentWithRoot(d, e)
  PROVE  OrderedStep
<1>1. /\ e \in Node /\ e \in Container /\ d \in Container
      /\ e \notin docs \cup Allocated
  BY NodeAssumption DEF CreateDocumentWithRoot, Container, Node, ForestInv, TypeOK
<1>2. up[e] = Nil
  BY <1>1, UnusedCells
<1>3. \A p \in Container : e \notin ToSet(kids[p])
  BY <1>1, <1>2, NodeAssumption DEF ForestInv, ListsMirrorParents
<1>4. \A q \in Container : kids'[q] = IF q = d THEN <<e>> ELSE kids[q]
  BY <1>1 DEF CreateDocumentWithRoot, ForestInv, TypeOK
<1>5. ToSet(<<e>>) = {e}
  BY DEF ToSet
<1>6. Thinned(kids, kids)
  BY DEF Thinned
<1>7. OrderKept(kids, kids, Nil)
  BY <1>6, ForestOfInv, ThinnedKeepsOrder
<1>8. OrderKept(kids, kids', Nil)
  BY <1>3, <1>4, <1>5, <1>7 DEF OrderKept
<1> QED BY <1>8 DEF OrderedStep

(* importNode: the lists it writes hold new nodes only.                     *)
LEMMA ImportIsOrdered ==
  ASSUME ForestInv, NEW d \in docs, NEW n, NEW S, NEW f, Copies(n, S, f),
         ImportNode(d, n, f)
  PROVE  OrderedStep
<1> DEFINE new == {f[m] : m \in S}
<1>1. /\ f \in [S -> Node \ Allocated] /\ S \subseteq Node /\ n \in S
      /\ \A m, k \in S : f[m] = f[k] => m = k
      /\ S # {n} => \A m \in S : ToSet(kids[m]) \subseteq S
      /\ S \subseteq Container
  BY DEF Copies, IsImport, IsInjective, Allocated, Container
<1>2. DOMAIN f = S /\ {f[m] : m \in DOMAIN f} = new
  BY <1>1
<1>3. \A m \in S : Original(f, f[m]) = m
  BY <1>1 DEF Original
<1>4. \A q \in Container :
         kids'[q] = IF q \in new /\ S # {n}
                    THEN [i \in DOMAIN kids[Original(f, q)] |->
                             f[kids[Original(f, q)][i]]]
                    ELSE kids[q]
  BY <1>2 DEF ImportNode
<1>5. ASSUME NEW x \in new, NEW p \in Container
      PROVE  x \notin ToSet(kids[p])
  <2>1. x \in Container /\ x \notin docs \cup Allocated
    BY <1>1, NodeAssumption DEF Container, ForestInv, TypeOK
  <2>2. up[x] = Nil
    BY <2>1, UnusedCells
  <2> QED BY <2>1, <2>2, NodeAssumption DEF ForestInv, ListsMirrorParents
<1>6. ASSUME NEW m \in S, S # {n},
             NEW x \in ToSet([i \in DOMAIN kids[m] |-> f[kids[m][i]]])
      PROVE  x \in new
  <2>1. ToSet(kids[m]) \subseteq S
    BY <1>1, <1>6
  <2>2. PICK i \in DOMAIN kids[m] : x = f[kids[m][i]]
    BY <1>6 DEF ToSet
  <2>3. kids[m][i] \in S
    BY <2>1, <2>2 DEF ToSet
  <2> QED BY <2>2, <2>3
<1>7. \A q \in Container : kids'[q] = kids[q] \/ ToSet(kids'[q]) \subseteq new
  <2> SUFFICES ASSUME NEW q \in Container, NEW m \in S, q = f[m], S # {n}
               PROVE  ToSet(kids'[q]) \subseteq new
    BY <1>4
  <2>1. kids'[q] = [i \in DOMAIN kids[m] |-> f[kids[m][i]]]
    BY <1>3, <1>4
  <2> QED BY <1>6, <2>1
<1> HIDE DEF new
<1>8. Thinned(kids, kids)
  BY DEF Thinned
<1>9. OrderKept(kids, kids, Nil)
  BY <1>8, ForestOfInv, ThinnedKeepsOrder
<1>10. OrderKept(kids, kids', Nil)
  BY <1>5, <1>7, <1>9 DEF OrderKept
<1> QED BY <1>10 DEF OrderedStep

(* Creation.                                                                *)
LEMMA CreationIsOrdered == ForestInv /\ Creation => OrderedStep
<1> SUFFICES ASSUME ForestInv, Creation PROVE OrderedStep
  OBVIOUS
<1>1. ASSUME NEW d \in Document, NEW e \in Element, CreateDocumentWithRoot(d, e)
      PROVE  OrderedStep
  BY <1>1, RootIsOrdered
<1>2. ASSUME NEW d \in Document, CreateDocument(d)
      PROVE  OrderedStep
  BY <1>2, SameListsAreOrdered DEF CreateDocument
<1>3. ASSUME NEW d \in docs, NEW n \in Node, CreateNode(d, n)
      PROVE  OrderedStep
  BY <1>3, SameListsAreOrdered DEF CreateNode
<1> QED BY <1>1, <1>2, <1>3 DEF Creation

(* importNode, deep or not.                                                 *)
LEMMA ImportingIsOrdered == ForestInv /\ Importing => OrderedStep
<1> SUFFICES ASSUME ForestInv, NEW d \in docs, NEW n \in Allocated,
                    NEW deep \in BOOLEAN,
                    NEW f \in [Imported(n, deep) -> Node \ Allocated],
                    deep => n \notin ToSet(kids[n]),
                    IsImport(f), ImportNode(d, n, f)
             PROVE  OrderedStep
  BY DEF Importing
<1>1. Copies(n, Imported(n, deep), f)
  BY ImportedNodes
<1> QED BY <1>1, ImportIsOrdered

(* insertBefore that returns, throws or stops.                              *)
LEMMA InsertionIsOrdered == ForestInv /\ Insertion => OrderedStep
<1> SUFFICES ASSUME ForestInv, NEW p \in Parent, NEW c \in Allocated,
                    NEW r \in Allocated \cup {Nil},
                    \/ InsertBefore(p, c, r)
                    \/ InsertBeforeThrows(p, c, r)
                    \/ \E n \in 0 .. Len(kids[c]) : InsertBeforeStops(p, c, r, n)
             PROVE  OrderedStep
  BY DEF Insertion
<1>1. CASE InsertBefore(p, c, r)
  <2> DEFINE n == Len(Arriving(c))
  <2>1. Takes(p, c, r, n)
    BY <1>1, ArrivingLength DEF InsertBefore, Takes
  <2>2. kids' = KidsAfter(p, c, r, n)
    BY <1>1 DEF InsertBefore
  <2> HIDE DEF n
  <2> QED BY <2>1, <2>2, InsertIsOrdered
<1>2. CASE InsertBeforeThrows(p, c, r)
  BY <1>2, SameListsAreOrdered DEF InsertBeforeThrows, treeVars
<1>3. ASSUME NEW n \in 0 .. Len(kids[c]), InsertBeforeStops(p, c, r, n)
      PROVE  OrderedStep
  <2>1. Takes(p, c, r, n)
    BY <1>3, ArrivingLength DEF InsertBeforeStops, Takes
  <2>2. kids' = KidsAfter(p, c, r, n)
    BY <1>3 DEF InsertBeforeStops
  <2> QED BY <2>1, <2>2, InsertIsOrdered
<1> QED BY <1>1, <1>2, <1>3

(* removeChild.                                                             *)
LEMMA RemovalIsOrdered == ForestInv /\ Removal => OrderedStep
<1> SUFFICES ASSUME ForestInv, NEW p \in Parent, NEW c \in Allocated,
                    RemoveChild(p, c) \/ RemoveChildThrows(p, c)
             PROVE  OrderedStep
  BY DEF Removal
<1>1. CASE RemoveChild(p, c)
  <2>1. kids' = KidsWithout(kids, up, c) /\ c \in Container
    BY <1>1 DEF RemoveChild, Allocated, Container
  <2> QED BY <2>1, ForestOfInv, DetachThins, ThinnedIsOrdered
<1>2. CASE RemoveChildThrows(p, c)
  BY <1>2, SameListsAreOrdered DEF RemoveChildThrows, treeVars
<1> QED BY <1>1, <1>2

(* release, of a node and of a document.                                    *)
LEMMA DestructionIsOrdered == ForestInv /\ Destruction => OrderedStep
<1> SUFFICES ASSUME ForestInv, Destruction PROVE OrderedStep
  OBVIOUS
<1>1. ASSUME NEW n \in Allocated, Release(n)
      PROVE  OrderedStep
  BY <1>1, FreedIsOrdered DEF Release
<1>2. ASSUME NEW n \in Allocated, ReleaseThrows(n)
      PROVE  OrderedStep
  BY <1>2, SameListsAreOrdered DEF ReleaseThrows, treeVars
<1>3. ASSUME NEW d \in docs, ReleaseDocument(d)
      PROVE  OrderedStep
  BY <1>3, FreedIsOrdered DEF ReleaseDocument
<1> QED BY <1>1, <1>2, <1>3 DEF Destruction

(* replaceChild on an element or a fragment.                                *)
LEMMA ReplaceChildIsOrdered ==
  ASSUME ForestInv, NEW p \in Parent, NEW c \in Allocated, NEW r \in Allocated,
         ReplaceChild(p, c, r)
  PROVE  OrderedStep
<1> DEFINE n == Len(Arriving(c))
<1>1. Takes(p, c, r, n) /\ r # Nil
  BY ArrivingLength DEF ReplaceChild, Takes
<1>2. kids' = KidsWithout(KidsAfter(p, c, r, n), UpAfter(p, c, n), r)
  BY DEF ReplaceChild
<1> HIDE DEF n
<1> QED BY <1>1, <1>2, ReplaceIsOrdered

(* replaceChild on a document.                                              *)
LEMMA ReplaceDocumentChildIsOrdered ==
  ASSUME ForestInv, NEW d \in docs, NEW c \in Allocated, NEW r \in Allocated,
         ReplaceDocumentChild(d, c, r)
  PROVE  OrderedStep
<1> DEFINE n == Len(Arriving(c))
<1>1. d \in Parent /\ d # c
  BY NodeAssumption DEF Parent, Allocated, ForestInv, TypeOK
<1>2. Takes(d, c, r, n) /\ r # Nil
  BY <1>1, ArrivingLength DEF ReplaceDocumentChild, Takes
<1>3. kids' = KidsWithout(KidsAfter(d, c, r, n), UpAfter(d, c, n), r)
  BY DEF ReplaceDocumentChild
<1> HIDE DEF n
<1> QED BY <1>2, <1>3, ReplaceIsOrdered

(* replaceChild on a document that refuses part of a fragment.              *)
LEMMA ReplaceDocumentChildStopsIsOrdered ==
  ASSUME ForestInv, NEW d \in docs, NEW c \in Allocated, NEW r \in Allocated,
         NEW n \in Nat, ReplaceDocumentChildStops(d, c, r, n)
  PROVE  OrderedStep
<1>1. CASE c \notin Fragment
  BY <1>1, SameListsAreOrdered DEF ReplaceDocumentChildStops
<1>2. CASE c \in Fragment
  <2>1. d \in Parent /\ d # c
    BY NodeAssumption DEF Parent, Allocated, ForestInv, TypeOK
  <2>2. Takes(d, c, r, n)
    BY <1>2, <2>1, ArrivingLength DEF ReplaceDocumentChildStops, StopsAt, Takes
  <2>3. kids' = KidsAfter(d, c, r, n)
    BY <1>2 DEF ReplaceDocumentChildStops
  <2> QED BY <2>2, <2>3, InsertIsOrdered
<1> QED BY <1>1, <1>2

(* replaceChild as XmlDocument uses it.                                     *)
LEMMA ReplaceByNodeIsOrdered == ForestInv /\ ReplaceByNode => OrderedStep
<1> SUFFICES ASSUME ForestInv, NEW p \in Parent, NEW c \in Allocated,
                    NEW r \in Allocated,
                    \/ ReplaceChild(p, c, r)
                    \/ ReplaceChildThrows(p, c, r)
                    \/ /\ p \in Document
                       /\ \/ ReplaceDocumentChild(p, c, r)
                          \/ ReplaceDocumentChildStops(p, c, r, 0)
             PROVE  OrderedStep
  BY DEF ReplaceByNode
<1>1. CASE ReplaceChildThrows(p, c, r)
  BY <1>1, SameListsAreOrdered DEF ReplaceChildThrows, treeVars
<1>2. ASSUME p \in Document
      PROVE  p \in docs
  BY <1>2, NodeAssumption DEF Parent, Allocated
<1>3. 0 \in Nat
  OBVIOUS
<1> QED BY <1>1, <1>2, <1>3, ReplaceChildIsOrdered, ReplaceDocumentChildIsOrdered,
           ReplaceDocumentChildStopsIsOrdered

(* replaceChild as any program may use it.                                  *)
LEMMA ReplaceByAnythingIsOrdered == ForestInv /\ ReplaceByAnything => OrderedStep
<1> SUFFICES ASSUME ForestInv, NEW d \in docs, NEW c \in Allocated,
                    NEW r \in Allocated,
                    \/ ReplaceDocumentChild(d, c, r)
                    \/ \E n \in 0 .. Len(kids[c]) :
                          ReplaceDocumentChildStops(d, c, r, n)
             PROVE  OrderedStep
  BY DEF ReplaceByAnything
<1>1. \A n \in 0 .. Len(kids[c]) : n \in Nat
  OBVIOUS
<1> QED BY <1>1, ReplaceDocumentChildIsOrdered, ReplaceDocumentChildStopsIsOrdered

(* A fragment inserted into itself.                                         *)
LEMMA HangIsOrdered == ForestInv /\ Hang => OrderedStep
BY SameListsAreOrdered DEF Hang, WalkWithoutEnd, ImportWithoutEnd, InsertIntoItself, treeVars

(* Every step.                                                              *)
LEMMA NextIsOrdered == ForestInv /\ Next => OrderedStep
BY CreationIsOrdered, ImportingIsOrdered, InsertionIsOrdered, RemovalIsOrdered,
   DestructionIsOrdered, ReplaceByNodeIsOrdered, ReplaceByAnythingIsOrdered,
   HangIsOrdered DEF Next, CarefulNext

(* No call of the DOM reorders the children it does not name, and the       *)
(* children a fragment gives up arrive in the order they had in it.         *)
THEOREM ChildrenStayInOrder == Spec => OrderIsKept
<1>1. ForestInv /\ [Next]_vars =>
        [\E c \in Node \cup {Nil} : \A p, q \in Container :
           \A x, y \in (ToSet(kids[p]) \cap ToSet(kids'[q])) \ {c} :
              Precedes(kids[p], x, y) => Precedes(kids'[q], x, y)]_vars
  BY NextIsOrdered DEF OrderedStep, OrderKept
<1> QED BY <1>1, DocumentsAreForests, PTL DEF Spec, OrderIsKept

-----------------------------------------------------------------------------
(***************************************************************************)
(* A call that throws                                                       *)
(***************************************************************************)

(* What a call may have changed when it throws: a document has taken some   *)
(* children of a fragment, and refused the element that is first now.       *)
RefusedLate ==
  \E d \in docs, f \in Allocated \cap Fragment :
     /\ kids'[f] # << >> /\ Head(kids'[f]) \in Element
     /\ ToSet(kids'[d]) \cap Element # {}
     /\ \A x \in Container \ {d, f} : kids'[x] = kids[x]
     /\ ToSet(kids'[d]) \cup ToSet(kids'[f]) = ToSet(kids[d]) \cup ToSet(kids[f])

(* The look at all children of a fragment before the first is moved leaves  *)
(* one reason to stop: a document has an element, its own or one that has   *)
(* arrived.                                                                 *)
LEMMA OnlyElementsStop ==
  ASSUME ForestInv, NEW p \in Parent, NEW f \in Allocated,
         NEW r \in Allocated \cup {Nil}, NEW n \in 0 .. Len(kids[f]),
         InsertBeforeStops(p, f, r, n)
  PROVE  /\ p \in docs /\ f # r
         /\ n < Len(kids[f]) /\ kids[f][n + 1] \in Element
         /\ \/ docElement[p] # Nil
            \/ \E j \in 1 .. n : kids[f][j] \in Element
<1> DEFINE ms == kids[f]
<1>1. /\ f \in Fragment /\ f \in Container /\ p \in Container /\ p # f /\ p # Nil
  BY NodeAssumption DEF InsertBeforeStops, Parent, Allocated, Container, ForestInv, TypeOK
<1>2. ms \in Seq(Node) /\ up[f] = Nil
  BY <1>1 DEF ForestInv, TypeOK, FragmentsStayOut
<1>3. f # r
  BY <1>1, <1>2, NodeAssumption DEF InsertBeforeStops, Refused
<1>4. n < Len(ms) /\ n + 1 \in DOMAIN ms
  BY <1>2 DEF InsertBeforeStops, StopsAt
<1>5. Arriving(f) = ms
  BY <1>1 DEF Arriving
<1> HIDE DEF ms
<1>6. IsKidOK(p, ms[n + 1])
  BY <1>3, <1>4, <1>5 DEF InsertBeforeStops, Refused
<1>7. ~Accepts(RootOf(p), p, ms, n + 1)
  BY DEF InsertBeforeStops, StopsAt, ms
<1>8. /\ p \in Document /\ ms[n + 1] \in Element
      /\ RootOf(p) # Nil \/ \E j \in 1 .. (n + 1) - 1 : ms[j] \in Element
  BY <1>6, <1>7 DEF Accepts
<1>9. p \in docs /\ (n + 1) - 1 = n
  BY <1>8, NodeAssumption DEF Parent, Allocated
<1> QED BY <1>3, <1>4, <1>8, <1>9 DEF RootOf, ms

(* insertBefore that stops.                                                 *)
LEMMA StopsLate ==
  ASSUME ForestInv, Rooted(up, docElement), NEW p \in Parent, NEW f \in Allocated,
         NEW r \in Allocated \cup {Nil}, NEW n \in 0 .. Len(kids[f]),
         InsertBeforeStops(p, f, r, n)
  PROVE  RefusedLate
<1> DEFINE s  == kids[f]
           ms == SubSeq(s, 1, n)
           t  == SubSeq(s, n + 1, Len(s))
           w  == Placed(kids[p], ms, r)
<1>1. /\ p \in docs /\ f # r /\ n < Len(s) /\ s[n + 1] \in Element
      /\ docElement[p] # Nil \/ \E j \in 1 .. n : s[j] \in Element
  BY OnlyElementsStop
<1>2. /\ f \in Fragment /\ f \in Container /\ p \in Container /\ p # f
      /\ p \in Document
  BY <1>1 DEF InsertBeforeStops, Allocated, Container, ForestInv, TypeOK
<1>3. /\ kids \in [Container -> Seq(Node)] /\ s \in Seq(Node)
      /\ kids[p] \in Seq(Node)
      /\ \A x, y \in Container : up[y] = x <=> y \in ToSet(kids[x])
      /\ \A x \in Container : IsInjective(kids[x])
      /\ docElement[p] \in Element \cup {Nil}
  BY <1>2 DEF ForestInv, TypeOK, ListsMirrorParents
<1>4. /\ ms \in Seq(Node) /\ ToSet(ms) = {s[i] : i \in 1 .. n} /\ IsInjective(ms)
      /\ t \in Seq(Node) /\ ToSet(ms) \cup ToSet(t) = ToSet(s)
  BY <1>2, <1>3, CutMembers
<1>5. t # << >> /\ Head(t) = s[n + 1]
  <2>1. n \in Nat /\ Len(s) \in Nat /\ n + 1 \in 1 .. Len(s)
    BY <1>1, <1>3
  <2>2. Len(t) = Len(s) - n /\ t[1] = s[n + 1]
    BY <1>3, <2>1
  <2>3. t \in Seq(Node) /\ Len(t) # 0
    BY <1>4, <2>1, <2>2
  <2> HIDE DEF s, t
  <2>4. Head(t) = t[1] /\ t # << >>
    BY <2>3
  <2> QED BY <2>2, <2>4
<1>6. kids' = [[kids EXCEPT ![f] = t] EXCEPT ![p] = Placed(@, ms, r)]
  BY <1>1, <1>2 DEF InsertBeforeStops, KidsAfter, Arriving
<1>7. ToSet(kids[p]) \cap ToSet(ms) = {}
  <2> SUFFICES ASSUME NEW x \in ToSet(ms), x \in ToSet(kids[p]) PROVE FALSE
    OBVIOUS
  <2>1. x \in ToSet(kids[f]) /\ x \in Container
    BY <1>4 DEF ToSet, Container
  <2> QED BY <1>2, <1>3, <2>1
<1>8. r # Nil => r \in ToSet(kids[p])
  <2>1. r # Nil => up[r] = p /\ r \in Container
    BY DEF InsertBeforeStops, Refused, Allocated, Container
  <2> QED BY <1>2, <1>3, <2>1
<1>9. ToSet(w) = ToSet(kids[p]) \cup ToSet(ms)
  <2>1. PICK l \in Seq(Node) : l = kids[p]
    BY <1>3
  <2>2. IsInjective(l)
    BY <1>2, <1>3, <2>1
  <2> HIDE DEF s, t, ms
  <2>3. ms \in Seq(Node) /\ IsInjective(ms) /\ ToSet(l) \cap ToSet(ms) = {}
    BY <1>4, <1>7, <2>1
  <2>4. r # Nil => r \in ToSet(l)
    BY <1>8, <2>1
  <2>5. ToSet(Placed(l, ms, r)) = ToSet(l) \cup ToSet(ms)
    BY ONLY <2>2, <2>3, <2>4, PlacedMembers
  <2> QED BY <2>1, <2>5 DEF w
<1> HIDE DEF t, ms, w
<1>10. \A x \in Container : kids'[x] = IF x = p THEN w ELSE IF x = f THEN t ELSE kids[x]
  BY <1>2, <1>3, <1>6 DEF w
<1>11. ToSet(w) \cap Element # {}
  <2>1. CASE docElement[p] # Nil
    <3>1. up[docElement[p]] = p /\ docElement[p] \in Container /\ docElement[p] \in Element
      BY <1>2, <1>3, <2>1 DEF Rooted, Container, Node
    <3> QED BY <1>2, <1>3, <1>9, <3>1
  <2>2. CASE \E j \in 1 .. n : s[j] \in Element
    BY <1>4, <1>9, <2>2
  <2> QED BY <1>1, <2>1, <2>2
<1>12. ToSet(w) \cup ToSet(t) = ToSet(kids[p]) \cup ToSet(kids[f])
  BY <1>4, <1>9
<1> QED BY <1>1, <1>2, <1>5, <1>10, <1>11, <1>12 DEF RefusedLate

(* Every other call that throws leaves the trees alone.                     *)
LEMMA NextThrowsLate ==
  ASSUME ForestInv, Rooted(up, docElement), CarefulNext,
         outcome' = "threw", treeVars' # treeVars
  PROVE  RefusedLate
<1>1. CASE Insertion
  <2> SUFFICES ASSUME NEW p \in Parent, NEW c \in Allocated,
                      NEW r \in Allocated \cup {Nil},
                      \/ InsertBefore(p, c, r)
                      \/ InsertBeforeThrows(p, c, r)
                      \/ \E n \in 0 .. Len(kids[c]) : InsertBeforeStops(p, c, r, n)
               PROVE  RefusedLate
    BY <1>1 DEF Insertion
  <2>1. ~InsertBefore(p, c, r) /\ ~InsertBeforeThrows(p, c, r)
    BY DEF InsertBefore, InsertBeforeThrows
  <2> QED BY <2>1, StopsLate
<1>2. ~Creation /\ ~Importing
  BY DEF Creation, CreateDocument, CreateDocumentWithRoot, CreateNode, Importing,
         ImportNode
<1>3. ~Removal /\ ~Destruction
  BY DEF Removal, RemoveChild, RemoveChildThrows, Destruction, Release,
         ReleaseThrows, ReleaseDocument
<1>4. ~ReplaceByNode
  BY DEF ReplaceByNode, ReplaceChild, ReplaceChildThrows, ReplaceDocumentChild,
         ReplaceDocumentChildStops, treeVars
<1>5. ~Hang
  BY DEF Hang, WalkWithoutEnd, ImportWithoutEnd, InsertIntoItself
<1> QED BY <1>1, <1>2, <1>3, <1>4, <1>5 DEF CarefulNext

(* A call that throws has changed nothing, unless a document was given a    *)
(* fragment with one element too many: then the fragment is left with that  *)
(* element in front, and no node is lost or doubled.                        *)
THEOREM ThrowsChangeNothingElse == CarefulSpec => OnlyRootsAreRefusedLate
<1>1. CarefulSpec => []CacheInv
  BY CachedInvariant
<1>2. CacheInv /\ [CarefulNext]_vars =>
        [outcome' = "threw" /\ treeVars' # treeVars =>
           \E d \in docs, f \in Allocated \cap Fragment :
              /\ kids'[f] # << >> /\ Head(kids'[f]) \in Element
              /\ ToSet(kids'[d]) \cap Element # {}
              /\ \A x \in Container \ {d, f} : kids'[x] = kids[x]
              /\ ToSet(kids'[d]) \cup ToSet(kids'[f]) = ToSet(kids[d]) \cup ToSet(kids[f])]_vars
  BY NextThrowsLate DEF RefusedLate, CacheInv
<1> QED BY <1>1, <1>2, PTL DEF CarefulSpec, OnlyRootsAreRefusedLate

=============================================================================
