------------------------ MODULE TinyXmlDocument_proofs ------------------------
(***************************************************************************)
(* Proofs about TinyXmlDocument: whatever is called and whatever is parsed, *)
(* the document can find every node it has allocated, _unlinked is exactly  *)
(* the nodes without parent, and the counts of the pools drift away from it *)
(* only in a parse that fails.                                              *)
(***************************************************************************)
EXTENDS TinyXmlDocument, Integers, TLAPS

-----------------------------------------------------------------------------
(***************************************************************************)
(* Lists: what the calls on child lists and on _unlinked do to the members. *)
(***************************************************************************)

(* Two lists without repetition and without common members, one behind the  *)
(* other.                                                                   *)
LEMMA ConcatMembers ==
  ASSUME NEW S, NEW s \in Seq(S), NEW t \in Seq(S)
  PROVE  /\ s \o t \in Seq(S)
         /\ ToSet(s \o t) = ToSet(s) \cup ToSet(t)
         /\ IsInjective(s) /\ IsInjective(t) /\ ToSet(s) \cap ToSet(t) = {}
              => IsInjective(s \o t)
<1> DEFINE c == s \o t
<1>1. /\ c \in Seq(S) /\ Len(c) = Len(s) + Len(t)
      /\ \A i \in 1 .. Len(s) + Len(t) :
            c[i] = IF i <= Len(s) THEN s[i] ELSE t[i - Len(s)]
  OBVIOUS
<1>2. /\ Len(s) \in Nat /\ Len(t) \in Nat
      /\ DOMAIN s = 1 .. Len(s) /\ DOMAIN t = 1 .. Len(t)
      /\ DOMAIN c = 1 .. Len(s) + Len(t)
  BY <1>1
<1> HIDE DEF c
<1>3. ASSUME NEW i \in DOMAIN c
      PROVE  c[i] \in ToSet(s) \cup ToSet(t)
  <2>1. CASE i <= Len(s)
    BY <1>1, <1>2, <2>1 DEF ToSet
  <2>2. CASE i > Len(s)
    BY <1>1, <1>2, <2>2 DEF ToSet
  <2> QED BY <1>2, <2>1, <2>2
<1>4. ASSUME NEW i \in DOMAIN s
      PROVE  i \in DOMAIN c /\ c[i] = s[i]
  BY <1>1, <1>2
<1>5. ASSUME NEW i \in DOMAIN t
      PROVE  Len(s) + i \in DOMAIN c /\ c[Len(s) + i] = t[i]
  BY <1>1, <1>2
<1>6. ToSet(c) = ToSet(s) \cup ToSet(t)
  BY <1>3, <1>4, <1>5 DEF ToSet
<1>7. ASSUME IsInjective(s), IsInjective(t), ToSet(s) \cap ToSet(t) = {},
             NEW i \in DOMAIN c, NEW j \in DOMAIN c, c[i] = c[j]
      PROVE  i = j
  <2>1. CASE i <= Len(s) /\ j <= Len(s)
    BY <1>1, <1>2, <1>7, <2>1 DEF IsInjective
  <2>2. CASE i > Len(s) /\ j > Len(s)
    <3>1. i - Len(s) \in DOMAIN t /\ j - Len(s) \in DOMAIN t
      BY <1>2, <2>2
    <3>2. t[i - Len(s)] = t[j - Len(s)]
      BY <1>1, <1>2, <1>7, <2>2
    <3>3. i - Len(s) = j - Len(s)
      BY <1>7, <3>1, <3>2 DEF IsInjective
    <3> QED BY <1>2, <3>3
  <2>3. ASSUME NEW k \in DOMAIN c, k <= Len(s)
        PROVE  c[k] \in ToSet(s)
    <3>1. k \in DOMAIN s /\ c[k] = s[k]
      BY <1>1, <1>2, <2>3
    <3> QED BY <3>1 DEF ToSet
  <2>4. ASSUME NEW k \in DOMAIN c, k > Len(s)
        PROVE  c[k] \in ToSet(t)
    <3>1. k - Len(s) \in DOMAIN t /\ c[k] = t[k - Len(s)]
      BY <1>1, <1>2, <2>4
    <3> QED BY <3>1 DEF ToSet
  <2>5. ~(i <= Len(s) /\ j > Len(s)) /\ ~(i > Len(s) /\ j <= Len(s))
    BY <1>7, <2>3, <2>4
  <2> QED BY <1>2, <2>1, <2>2, <2>5
<1>8. IsInjective(s) /\ IsInjective(t) /\ ToSet(s) \cap ToSet(t) = {} => IsInjective(c)
  BY <1>7 DEF IsInjective
<1> QED BY <1>1, <1>6, <1>8 DEF c

(* A list cut behind its n-th member.                                       *)
LEMMA CutMembers ==
  ASSUME NEW S, NEW s \in Seq(S), NEW n \in 0 .. Len(s)
  PROVE  LET a == SubSeq(s, 1, n)
             b == SubSeq(s, n + 1, Len(s))
         IN  /\ a \in Seq(S) /\ b \in Seq(S)
             /\ ToSet(a) = {s[i] : i \in 1 .. n}
             /\ ToSet(a) \cup ToSet(b) = ToSet(s)
             /\ IsInjective(s) =>
                  IsInjective(a) /\ IsInjective(b) /\ ToSet(a) \cap ToSet(b) = {}
<1> DEFINE a == SubSeq(s, 1, n)
           b == SubSeq(s, n + 1, Len(s))
<1>1. /\ a \in Seq(S) /\ Len(a) = n /\ \A i \in 1 .. n : a[i] = s[i]
      /\ DOMAIN a = 1 .. n
  OBVIOUS
<1>2. /\ b \in Seq(S) /\ Len(b) = Len(s) - n
      /\ \A i \in 1 .. Len(s) - n : b[i] = s[n + i]
      /\ DOMAIN b = 1 .. Len(s) - n
  OBVIOUS
<1>3. n \in Nat /\ n <= Len(s) /\ Len(s) \in Nat /\ DOMAIN s = 1 .. Len(s)
  OBVIOUS
<1> HIDE DEF a, b
<1>4. ToSet(a) = {s[i] : i \in 1 .. n}
  BY <1>1 DEF ToSet
<1>5. ASSUME NEW i \in DOMAIN s
      PROVE  s[i] \in ToSet(a) \cup ToSet(b)
  <2>1. CASE i <= n
    BY <1>1, <1>3, <2>1 DEF ToSet
  <2>2. CASE i > n
    <3>1. i - n \in 1 .. Len(s) - n /\ n + (i - n) = i
      BY <1>3, <2>2
    <3> QED BY <1>2, <3>1 DEF ToSet
  <2> QED BY <1>3, <2>1, <2>2
<1>6. \A i \in DOMAIN a : i \in DOMAIN s /\ a[i] = s[i]
  BY <1>1, <1>3
<1>7. \A i \in DOMAIN b : n + i \in DOMAIN s /\ b[i] = s[n + i]
  BY <1>2, <1>3
<1>8. ToSet(a) \cup ToSet(b) = ToSet(s)
  BY <1>5, <1>6, <1>7 DEF ToSet
<1>9. ASSUME IsInjective(s)
      PROVE  IsInjective(a) /\ IsInjective(b) /\ ToSet(a) \cap ToSet(b) = {}
  <2>1. IsInjective(a)
    BY <1>6, <1>9 DEF IsInjective
  <2>2. ASSUME NEW i \in DOMAIN b, NEW j \in DOMAIN b, b[i] = b[j]
        PROVE  i = j
    <3>1. n + i = n + j
      BY <1>7, <1>9, <2>2 DEF IsInjective
    <3> QED BY <1>2, <1>3, <3>1
  <2>3. ASSUME NEW i \in DOMAIN a, NEW j \in DOMAIN b, a[i] = b[j]
        PROVE  FALSE
    <3>1. i = n + j
      BY <1>6, <1>7, <1>9, <2>3 DEF IsInjective
    <3> QED BY <1>1, <1>2, <1>3, <3>1
  <2> QED BY <2>1, <2>2, <2>3 DEF IsInjective, ToSet
<1> QED BY <1>1, <1>2, <1>4, <1>8, <1>9 DEF a, b

(* A list that loses its i-th member.                                       *)
LEMMA RemoveAtMembers ==
  ASSUME NEW S, NEW s \in Seq(S), IsInjective(s), NEW i \in DOMAIN s
  PROVE  LET t == RemoveAt(s, i)
         IN  t \in Seq(S) /\ ToSet(t) = ToSet(s) \ {s[i]} /\ IsInjective(t)
<1> DEFINE x == s[i]
           a == SubSeq(s, 1, i - 1)
           m == SubSeq(s, i, Len(s))
           h == SubSeq(s, 1, i)
           b == SubSeq(s, i + 1, Len(s))
<1>1. i \in DOMAIN s /\ s[i] = x
  OBVIOUS
<1>2. DOMAIN s = 1 .. Len(s) /\ Len(s) \in Nat
  OBVIOUS
<1> HIDE DEF x
<1>3. i \in 0 .. Len(s) /\ i - 1 \in 0 .. Len(s) /\ (i - 1) + 1 = i /\ i \in Nat
  BY <1>1, <1>2
<1>4. /\ a \in Seq(S) /\ IsInjective(a) /\ ToSet(a) = {s[j] : j \in 1 .. i - 1}
  BY <1>3, CutMembers
<1>5. /\ b \in Seq(S) /\ IsInjective(b) /\ ToSet(h) = {s[j] : j \in 1 .. i}
      /\ ToSet(h) \cup ToSet(b) = ToSet(s) /\ ToSet(h) \cap ToSet(b) = {}
  BY <1>3, CutMembers
<1>6. ToSet(h) = ToSet(a) \cup {x}
  <2>1. 1 .. i = (1 .. i - 1) \cup {i}
    BY <1>1, <1>2
  <2> QED BY <1>1, <1>4, <1>5, <2>1
<1>7. x \notin ToSet(a)
  <2> SUFFICES ASSUME NEW j \in 1 .. i - 1, s[j] = x PROVE FALSE
    BY <1>4
  <2>1. j \in DOMAIN s /\ j # i
    BY <1>1, <1>2
  <2> QED BY <1>1, <2>1 DEF IsInjective
<1>8. ToSet(a) \cap ToSet(b) = {} /\ ToSet(a) \cup ToSet(b) = ToSet(s) \ {x}
  BY <1>5, <1>6, <1>7
<1> HIDE DEF a, b
<1>9. a \o b \in Seq(S) /\ ToSet(a \o b) = ToSet(s) \ {x} /\ IsInjective(a \o b)
  BY <1>4, <1>5, <1>8, ConcatMembers
<1>10. RemoveAt(s, i) = a \o b
  BY DEF RemoveAt, a, b
<1> QED BY <1>9, <1>10 DEF x

(* A list that gains n, at any place.                                       *)
LEMMA InsertMembers ==
  ASSUME NEW S, NEW s \in Seq(S), IsInjective(s), NEW n \in S, n \notin ToSet(s),
         NEW i \in 1 .. Len(s) + 1
  PROVE  LET t == InsertAt(s, i, n)
         IN  t \in Seq(S) /\ ToSet(t) = ToSet(s) \cup {n} /\ IsInjective(t)
<1> DEFINE a == SubSeq(s, 1, i - 1)
           b == SubSeq(s, i, Len(s))
           m == <<n>>
<1>1. i - 1 \in 0 .. Len(s) /\ (i - 1) + 1 = i
  OBVIOUS
<1>2. /\ a \in Seq(S) /\ b \in Seq(S) /\ IsInjective(a) /\ IsInjective(b)
      /\ ToSet(a) \cup ToSet(b) = ToSet(s) /\ ToSet(a) \cap ToSet(b) = {}
  BY <1>1, CutMembers
<1>3. m \in Seq(S) /\ ToSet(m) = {n} /\ IsInjective(m)
  BY DEF ToSet, IsInjective
<1> HIDE DEF a, b, m
<1> DEFINE am == a \o m
<1>4. am \in Seq(S) /\ ToSet(am) = ToSet(a) \cup {n} /\ IsInjective(am)
  BY <1>2, <1>3, ConcatMembers
<1> HIDE DEF am
<1>5. /\ am \o b \in Seq(S) /\ ToSet(am \o b) = ToSet(am) \cup ToSet(b)
      /\ IsInjective(am \o b)
  BY <1>2, <1>4, ConcatMembers
<1>6. InsertAt(s, i, n) = am \o b
  BY DEF InsertAt, am, a, b, m
<1> QED BY <1>2, <1>4, <1>5, <1>6

(* A list that gains n behind its last member.                              *)
LEMMA AppendMembers ==
  ASSUME NEW S, NEW s \in Seq(S), IsInjective(s), NEW n \in S, n \notin ToSet(s)
  PROVE  /\ Append(s, n) \in Seq(S) /\ Len(Append(s, n)) = Len(s) + 1
         /\ ToSet(Append(s, n)) = ToSet(s) \cup {n}
         /\ IsInjective(Append(s, n))
<1> DEFINE m == <<n>>
<1>1. m \in Seq(S) /\ ToSet(m) = {n} /\ IsInjective(m) /\ Len(m) = 1
  BY DEF ToSet, IsInjective
<1>2. Append(s, n) = s \o m /\ Len(Append(s, n)) = Len(s) + 1
  OBVIOUS
<1> HIDE DEF m
<1> QED BY <1>1, <1>2, ConcatMembers

(* A list that gains n before its first member.                             *)
LEMMA PrependMembers ==
  ASSUME NEW S, NEW s \in Seq(S), IsInjective(s), NEW n \in S, n \notin ToSet(s)
  PROVE  /\ <<n>> \o s \in Seq(S)
         /\ ToSet(<<n>> \o s) = ToSet(s) \cup {n}
         /\ IsInjective(<<n>> \o s)
<1> DEFINE m == <<n>>
<1>1. m \in Seq(S) /\ ToSet(m) = {n} /\ IsInjective(m)
  BY DEF ToSet, IsInjective
<1> HIDE DEF m
<1>2. m \o s \in Seq(S) /\ ToSet(m \o s) = ToSet(s) \cup {n} /\ IsInjective(m \o s)
  BY <1>1, ConcatMembers
<1> QED BY <1>2 DEF m

(* The places of a list that is not empty.                                 *)
LEMMA LengthOfList ==
  ASSUME NEW S, NEW s \in Seq(S), s # << >>
  PROVE  Len(s) \in Nat \ {0} /\ DOMAIN s = 1 .. Len(s)
OBVIOUS

(* A list that loses its last member.                                       *)
LEMMA FrontMembers ==
  ASSUME NEW S, NEW s \in Seq(S), IsInjective(s), s # << >>
  PROVE  /\ Last(s) \in S /\ Last(s) \in ToSet(s)
         /\ Front(s) \in Seq(S) /\ Len(Front(s)) = Len(s) - 1
         /\ ToSet(Front(s)) = ToSet(s) \ {Last(s)}
         /\ IsInjective(Front(s))
<1> DEFINE L == Len(s)
           f == Front(s)
<1>1. L \in Nat \ {0} /\ DOMAIN s = 1 .. L
  OBVIOUS
<1>2. /\ f \in Seq(S) /\ DOMAIN f = 1 .. L - 1 /\ Len(f) = L - 1
      /\ \A i \in 1 .. L - 1 : f[i] = s[i]
  BY <1>1 DEF Front
<1>3. Last(s) = s[L] /\ L \in DOMAIN s
  BY <1>1 DEF Last
<1> HIDE DEF f, L
<1>4. \A i \in DOMAIN f : i \in DOMAIN s /\ f[i] = s[i] /\ i # L
  BY <1>1, <1>2
<1>5. \A i \in DOMAIN s : i # L => i \in DOMAIN f
  BY <1>1, <1>2
<1>6. ToSet(f) = ToSet(s) \ {Last(s)}
  BY <1>3, <1>4, <1>5 DEF ToSet, IsInjective
<1>7. IsInjective(f)
  BY <1>4 DEF IsInjective
<1>8. Last(s) \in S /\ Last(s) \in ToSet(s)
  BY <1>1, <1>3 DEF ToSet
<1> QED BY <1>2, <1>6, <1>7, <1>8 DEF f, L

(* A member of a list stands at its position.                               *)
LEMMA PositionOfMember ==
  ASSUME NEW s, NEW x \in ToSet(s)
  PROVE  Position(s, x) \in DOMAIN s /\ s[Position(s, x)] = x
BY DEF Position, ToSet

(* XMLNode::Unlink: the list loses the one member.                          *)
LEMMA RemoveMembers ==
  ASSUME NEW S, NEW s \in Seq(S), IsInjective(s), NEW x \in ToSet(s)
  PROVE  LET t == RemoveAt(s, Position(s, x))
         IN  t \in Seq(S) /\ ToSet(t) = ToSet(s) \ {x} /\ IsInjective(t)
BY PositionOfMember, RemoveAtMembers

(* MarkInUse takes n out of the list, wherever it stands, and nothing else. *)
LEMMA MarkedMembers ==
  ASSUME NEW S, NEW s \in Seq(S), IsInjective(s), NEW n
  PROVE  /\ MarkInUse(s, n) \in Seq(S)
         /\ ToSet(MarkInUse(s, n)) = ToSet(s) \ {n}
         /\ IsInjective(MarkInUse(s, n))
         /\ Len(MarkInUse(s, n)) = IF n \in ToSet(s) THEN Len(s) - 1 ELSE Len(s)
<1>1. CASE n \notin ToSet(s)
  BY <1>1 DEF MarkInUse
<1>2. CASE n \in ToSet(s)
  <2> DEFINE p == Position(s, n)
             L == Len(s)
             t == [s EXCEPT ![p] = Last(s)]
  <2>1. p \in DOMAIN s /\ s[p] = n
    BY <1>2, PositionOfMember
  <2>2. DOMAIN s = 1 .. L /\ L \in Nat
    OBVIOUS
  <2> HIDE DEF p
  <2>3. L \in DOMAIN s /\ L \in Nat \ {0} /\ Last(s) = s[L]
    BY <2>1, <2>2 DEF Last
  <2>4. s[L] \in S
    BY <2>3
  <2>5. t \in Seq(S) /\ Len(t) = L /\ DOMAIN t = 1 .. L
    BY <2>1, <2>2, <2>3, <2>4
  <2>6. \A i \in 1 .. L : t[i] = IF i = p THEN s[L] ELSE s[i]
    BY <2>1, <2>2, <2>3
  <2> HIDE DEF t, L
  <2> DEFINE f == Front(t)
  <2>7. /\ f \in Seq(S) /\ DOMAIN f = 1 .. L - 1 /\ Len(f) = L - 1
        /\ \A i \in 1 .. L - 1 : f[i] = t[i]
    BY <2>3, <2>5 DEF Front
  <2>8. f = MarkInUse(s, n)
    BY <1>2 DEF f, t, p, MarkInUse
  <2> HIDE DEF f
  <2>9. \A i \in DOMAIN f :
           /\ i \in DOMAIN s /\ i # L
           /\ f[i] = IF i = p THEN s[L] ELSE s[i]
    BY <2>2, <2>3, <2>6, <2>7
  <2>10. \A i \in DOMAIN s : i # L => i \in DOMAIN f
    BY <2>2, <2>7
  <2>11. IsInjective(f)
    BY <2>1, <2>3, <2>9 DEF IsInjective
  <2>12. \A i \in DOMAIN f : f[i] \in ToSet(s) /\ f[i] # n
    BY <2>1, <2>3, <2>9 DEF IsInjective, ToSet
  <2>13. ASSUME NEW i \in DOMAIN s, s[i] # n
         PROVE  \E j \in DOMAIN f : f[j] = s[i]
    <3>1. CASE i # L
      BY <2>1, <2>9, <2>10, <2>13, <3>1
    <3>2. CASE i = L
      BY <2>1, <2>9, <2>10, <2>13, <3>2
    <3> QED BY <3>1, <3>2
  <2>14. ToSet(f) = ToSet(s) \ {n}
    BY <2>12, <2>13 DEF ToSet
  <2> QED BY <1>2, <2>7, <2>8, <2>11, <2>14 DEF L
<1> QED BY <1>1, <1>2

-----------------------------------------------------------------------------
(***************************************************************************)
(* Trees: the nodes L, their parents u and the child lists ks. Lists and    *)
(* parents agree, a node's parent is a node of L or the document, and no    *)
(* node is above itself: every set of nodes has a member whose parent is    *)
(* outside.                                                                 *)
(***************************************************************************)

Grounded(u) == \A S \in SUBSET Node : S # {} => \E n \in S : u[n] \notin S

ListsMirror(L, u, ks) ==
  \A x \in Container : IsInjective(ks[x]) /\ ToSet(ks[x]) = {n \in L : u[n] = x}

ParentsLive(L, u) ==
  /\ \A n \in Node : u[n] # Nil => n \in L
  /\ \A n \in Node : u[n] \in Element => u[n] \in L

Trees(L, u, ks) ==
  /\ L \in SUBSET Node
  /\ u \in [Node -> Container \cup {Nil}]
  /\ ks \in [Container -> Seq(Node)]
  /\ ListsMirror(L, u, ks)
  /\ ParentsLive(L, u)
  /\ Grounded(u)

(* The document is no node, null is neither.                                *)
LEMMA Kinds ==
  /\ Element \subseteq Node /\ Container = Element \cup {Doc}
  /\ Doc \notin Node /\ Nil \notin Node /\ Nil # Doc /\ Nil \notin Container
BY TinyAssumption DEF Node, Container

(* What ~XMLNode deletes with x: x, and with every node its children, each  *)
(* of which is there because its parent is.                                 *)
LEMMA SubtreeClosed ==
  ASSUME Trees(live, up, kids), NEW x \in Node \cup {Doc}
  PROVE  /\ x \in Subtree(x) /\ Subtree(x) \subseteq {x} \cup live
         /\ \A y \in Subtree(x) \cap Container : ToSet(kids[y]) \subseteq Subtree(x)
         /\ \A n \in Subtree(x) \ {x} :
              n \in live /\ up[n] \in Subtree(x) \cap Container
<1> DEFINE E == ElementsBelow(x)
           K == UNION {ToSet(kids[y]) : y \in {x} \cup E}
<1>1. CASE x \notin Container
  BY <1>1 DEF Subtree
<1>2. CASE x \in Container
  <2>1. Subtree(x) = {x} \cup K
    BY <1>2 DEF Subtree
  <2>2. E \subseteq Element
    BY DEF ElementsBelow
  <2>3. ASSUME NEW e \in E, NEW S \in SUBSET Element,
               \A y \in S \cup {x} : ToSet(kids[y]) \cap Element \subseteq S
        PROVE  e \in S
    BY <2>3 DEF ElementsBelow
  <2>4. ASSUME NEW e \in Element,
               \A S \in SUBSET Element :
                 (\A y \in S \cup {x} : ToSet(kids[y]) \cap Element \subseteq S) => e \in S
        PROVE  e \in E
    BY <2>4 DEF ElementsBelow
  <2> HIDE DEF E
  <2>5. ASSUME NEW y \in {x} \cup E, NEW e \in ToSet(kids[y]) \cap Element
        PROVE  e \in E
    <3> SUFFICES ASSUME NEW S \in SUBSET Element,
                        \A z \in S \cup {x} : ToSet(kids[z]) \cap Element \subseteq S
                 PROVE  e \in S
      BY <2>4
    <3>1. y \in S \cup {x}
      BY <2>3
    <3> QED BY <2>5, <3>1
  <2>6. K \cap Element \subseteq E
    BY <2>5
  <2>7. E \subseteq K
    <3> SUFFICES ASSUME NEW e \in E PROVE e \in K
      OBVIOUS
    <3> DEFINE S == K \cap Element
    <3>1. S \in SUBSET Element
      OBVIOUS
    <3>2. \A y \in S \cup {x} : ToSet(kids[y]) \cap Element \subseteq S
      BY <2>6
    <3> HIDE DEF S
    <3>3. e \in S
      BY <2>3, <3>1, <3>2
    <3> QED BY <3>3 DEF S
  <2>8. \A y \in Container : ToSet(kids[y]) = {n \in live : up[n] = y}
    BY DEF Trees, ListsMirror
  <2>9. {x} \cup E \subseteq Container
    BY <1>2, <2>2, Kinds
  <2>10. \A n \in K : \E y \in {x} \cup E : n \in ToSet(kids[y])
    OBVIOUS
  <2>11. \A y \in {x} \cup E : ToSet(kids[y]) \subseteq K
    OBVIOUS
  <2> HIDE DEF K
  <2>12. ASSUME NEW n \in Subtree(x) \ {x}
         PROVE  n \in live /\ up[n] \in Subtree(x) \cap Container
    BY <2>1, <2>7, <2>8, <2>9, <2>10
  <2>13. ASSUME NEW y \in Subtree(x) \cap Container
         PROVE  ToSet(kids[y]) \subseteq Subtree(x)
    <3>1. y \in {x} \cup E
      <4>1. CASE y \in Element
        BY <2>1, <2>6, <4>1
      <4>2. CASE y = Doc
        <5>1. live \subseteq Node
          BY DEF Trees
        <5> QED BY <2>12, <4>2, <5>1, Kinds
      <4> QED BY <4>1, <4>2, Kinds
    <3> QED BY <2>1, <2>11, <3>1
  <2> QED BY <2>1, <2>12, <2>13
<1> QED BY <1>1, <1>2

(* Nothing is below itself.                                                 *)
LEMMA NotBelowItself ==
  ASSUME Trees(live, up, kids), NEW x \in Node \cup {Doc},
         NEW y \in Subtree(x) \cap Container
  PROVE  x \notin ToSet(kids[y])
<1> SUFFICES ASSUME x \in ToSet(kids[y]) PROVE FALSE
  OBVIOUS
<1>1. x \in Node /\ up[x] = y
  BY Kinds DEF Trees, ListsMirror
<1>2. Subtree(x) \in SUBSET Node /\ Subtree(x) # {}
  BY <1>1, SubtreeClosed DEF Trees
<1>3. \A n \in Subtree(x) : up[n] \in Subtree(x)
  BY <1>1, SubtreeClosed
<1> QED BY <1>2, <1>3 DEF Trees, Grounded

(* A node gets a parent that is not in a set B which holds the node and     *)
(* the children of its members.                                             *)
LEMMA NewParent ==
  ASSUME NEW u \in [Node -> Container \cup {Nil}], Grounded(u),
         NEW n \in Node, NEW p, NEW B, n \in B, p \notin B,
         \A m \in Node : u[m] \in B => m \in B
  PROVE  Grounded([u EXCEPT ![n] = p])
<1> DEFINE v == [u EXCEPT ![n] = p]
<1> SUFFICES ASSUME NEW S \in SUBSET Node, S # {}, \A m \in S : v[m] \in S
             PROVE  FALSE
  BY DEF Grounded
<1>1. CASE n \notin S
  <2>1. \A m \in S : v[m] = u[m]
    BY <1>1
  <2> QED BY <2>1 DEF Grounded
<1>2. CASE n \in S
  <2>1. p \in S \ B
    BY <1>2
  <2>2. ASSUME NEW m \in S \ B
        PROVE  u[m] \in S \ B
    <3>1. v[m] = u[m]
      OBVIOUS
    <3> QED BY <3>1
  <2>3. S \ B \in SUBSET Node /\ S \ B # {}
    BY <2>1
  <2> QED BY <2>2, <2>3 DEF Grounded
<1> QED BY <1>1, <1>2

(* Nodes lose their parents.                                                *)
LEMMA FewerParents ==
  ASSUME NEW u \in [Node -> Container \cup {Nil}], Grounded(u), NEW v,
         \A n \in Node : v[n] = u[n] \/ v[n] = Nil
  PROVE  Grounded(v)
<1> SUFFICES ASSUME NEW S \in SUBSET Node, S # {}
             PROVE  \E n \in S : v[n] \notin S
  BY DEF Grounded
<1>1. PICK n \in S : u[n] \notin S
  BY DEF Grounded
<1> QED BY <1>1, Kinds

-----------------------------------------------------------------------------
(***************************************************************************)
(* The three changes the calls are made of: nodes are destroyed, a node is  *)
(* allocated, a node gets a parent.                                         *)
(***************************************************************************)

(* XMLNode::Unlink leaves n out of all child lists.                         *)
LEMMA UnlinkedLists ==
  ASSUME Trees(live, up, kids), NEW n \in live
  PROVE  /\ Unlinked(kids, n) \in [Container -> Seq(Node)]
         /\ \A x \in Container :
              /\ IsInjective(Unlinked(kids, n)[x])
              /\ ToSet(Unlinked(kids, n)[x]) = ToSet(kids[x]) \ {n}
<1>1. /\ kids \in [Container -> Seq(Node)] /\ n \in Node
      /\ up[n] \in Container \cup {Nil}
      /\ \A x \in Container :
           IsInjective(kids[x]) /\ ToSet(kids[x]) = {m \in live : up[m] = x}
  BY DEF Trees, ListsMirror
<1>2. CASE up[n] = Nil
  BY <1>1, <1>2, Kinds DEF Unlinked
<1>3. CASE up[n] # Nil
  <2> DEFINE p == up[n]
             t == RemoveAt(kids[p], Position(kids[p], n))
  <2>1. p \in Container /\ n \in ToSet(kids[p]) /\ kids[p] \in Seq(Node)
    BY <1>1, <1>3
  <2>2. t \in Seq(Node) /\ ToSet(t) = ToSet(kids[p]) \ {n} /\ IsInjective(t)
    BY <1>1, <2>1, RemoveMembers
  <2>3. Unlinked(kids, n) = [kids EXCEPT ![p] = t]
    BY <1>3 DEF Unlinked
  <2> HIDE DEF t
  <2>4. \A x \in Container : x # p => n \notin ToSet(kids[x])
    BY <1>1
  <2> HIDE DEF p
  <2> QED BY <1>1, <2>1, <2>2, <2>3, <2>4
<1> QED BY <1>2, <1>3

(* Destroying a set of nodes that holds the children of its members.        *)
LEMMA DestroyedKeepsTrees ==
  ASSUME Trees(live, up, kids), NEW dead \in SUBSET Node,
         \A y \in dead \cap Container : ToSet(kids[y]) \subseteq dead,
         NEW ks \in [Container -> Seq(Node)],
         \A x \in Container \ dead :
           IsInjective(ks[x]) /\ ToSet(ks[x]) = ToSet(kids[x]) \ dead,
         Destroyed(dead, ks)
  PROVE  Trees(live', up', kids')
<1>1. /\ live' = live \ dead
      /\ up' = [m \in Node |-> IF m \in dead THEN Nil ELSE up[m]]
      /\ kids' = [x \in Container |-> IF x \in dead THEN << >> ELSE ks[x]]
  BY DEF Destroyed
<1>2. /\ live \in SUBSET Node
      /\ up \in [Node -> Container \cup {Nil}]
      /\ ListsMirror(live, up, kids) /\ ParentsLive(live, up) /\ Grounded(up)
  BY DEF Trees
<1>3. /\ live' \in SUBSET Node
      /\ up' \in [Node -> Container \cup {Nil}]
      /\ kids' \in [Container -> Seq(Node)]
  BY <1>1, <1>2
<1>4. ASSUME NEW n \in live \ dead
      PROVE  up[n] \notin dead
  <2> SUFFICES ASSUME up[n] \in dead PROVE FALSE
    OBVIOUS
  <2>1. up[n] \in Container
    BY <1>2, <1>4, Kinds
  <2>2. n \in ToSet(kids[up[n]])
    BY <1>2, <1>4, <2>1 DEF ListsMirror
  <2> QED BY <1>4, <2>1, <2>2
<1>5. ListsMirror(live', up', kids')
  <2> SUFFICES ASSUME NEW x \in Container
               PROVE  IsInjective(kids'[x]) /\ ToSet(kids'[x]) = {n \in live' : up'[n] = x}
    BY DEF ListsMirror
  <2>1. CASE x \in dead
    <3>1. kids'[x] = << >>
      BY <1>1, <2>1
    <3>2. IsInjective(<< >>) /\ ToSet(<< >>) = {}
      BY DEF IsInjective, ToSet
    <3>3. \A n \in live' : up'[n] # x
      BY <1>1, <1>2, <1>4, <2>1
    <3> QED BY <3>1, <3>2, <3>3
  <2>2. CASE x \notin dead
    <3>1. kids'[x] = ks[x]
      BY <1>1, <2>2
    <3>2. {n \in live' : up'[n] = x} = {n \in live : up[n] = x} \ dead
      BY <1>1, <1>2
    <3> QED BY <1>2, <2>2, <3>1, <3>2 DEF ListsMirror
  <2> QED BY <2>1, <2>2
<1>6. ParentsLive(live', up')
  BY <1>1, <1>2, <1>4, Kinds DEF ParentsLive
<1>7. Grounded(up')
  BY <1>1, <1>2, FewerParents
<1> QED BY <1>3, <1>5, <1>6, <1>7 DEF Trees

(* DeleteNode takes its node and what is below it.                          *)
LEMMA DeleteKeepsTrees ==
  ASSUME Trees(live, up, kids), NEW n \in live,
         Destroyed(Subtree(n), Unlinked(kids, n))
  PROVE  Trees(live', up', kids')
<1> DEFINE dead == Subtree(n)
           ks == Unlinked(kids, n)
<1>1. live \in SUBSET Node /\ n \in Node
  BY DEF Trees
<1>2. /\ n \in dead /\ dead \subseteq {n} \cup live
      /\ \A y \in dead \cap Container : ToSet(kids[y]) \subseteq dead
      /\ \A m \in dead \ {n} : m \in live /\ up[m] \in dead \cap Container
  BY <1>1, SubtreeClosed
<1>3. /\ ks \in [Container -> Seq(Node)]
      /\ \A x \in Container :
           IsInjective(ks[x]) /\ ToSet(ks[x]) = ToSet(kids[x]) \ {n}
  BY UnlinkedLists
<1>4. Destroyed(dead, ks)
  OBVIOUS
<1> HIDE DEF dead, ks
<1>5. ASSUME NEW x \in Container \ dead
      PROVE  ToSet(ks[x]) = ToSet(kids[x]) \ dead
  <2>1. \A m \in ToSet(kids[x]) : up[m] = x
    BY DEF Trees, ListsMirror
  <2> QED BY <1>2, <1>3, <2>1
<1>6. dead \in SUBSET Node
  BY <1>1, <1>2
<1> QED BY <1>2, <1>3, <1>4, <1>5, <1>6, DestroyedKeepsTrees

(* DeleteChildren takes what is below x.                                    *)
LEMMA EmptiedKeepsTrees ==
  ASSUME Trees(live, up, kids), NEW x \in Container, Emptied(x)
  PROVE  Trees(live', up', kids')
<1> DEFINE dead == Subtree(x) \ {x}
           ks == [kids EXCEPT ![x] = << >>]
<1>1. /\ live \in SUBSET Node /\ x \in Node \cup {Doc}
      /\ kids \in [Container -> Seq(Node)]
      /\ \A y \in Container :
           IsInjective(kids[y]) /\ ToSet(kids[y]) = {m \in live : up[m] = y}
  BY Kinds DEF Trees, ListsMirror
<1>2. /\ x \in Subtree(x) /\ Subtree(x) \subseteq {x} \cup live
      /\ \A y \in Subtree(x) \cap Container : ToSet(kids[y]) \subseteq Subtree(x)
      /\ \A m \in Subtree(x) \ {x} : m \in live /\ up[m] \in Subtree(x) \cap Container
  BY <1>1, SubtreeClosed
<1>3. \A y \in Subtree(x) \cap Container : x \notin ToSet(kids[y])
  BY <1>1, NotBelowItself
<1>4. Destroyed(dead, ks)
  BY DEF Emptied
<1>5. ks \in [Container -> Seq(Node)]
  BY <1>1
<1>6. ASSUME NEW y \in Container \ dead
      PROVE  IsInjective(ks[y]) /\ ToSet(ks[y]) = ToSet(kids[y]) \ dead
  <2>1. CASE y = x
    <3>1. ks[y] = << >>
      BY <1>1, <2>1
    <3>2. IsInjective(<< >>) /\ ToSet(<< >>) = {}
      BY DEF IsInjective, ToSet
    <3>3. ToSet(kids[y]) \subseteq dead
      BY <1>2, <1>3, <2>1
    <3> QED BY <3>1, <3>2, <3>3
  <2>2. CASE y # x
    <3>1. ks[y] = kids[y] /\ y \notin Subtree(x)
      BY <1>1, <1>6, <2>2
    <3>2. \A m \in ToSet(kids[y]) : up[m] = y
      BY <1>1
    <3>3. ToSet(kids[y]) \cap dead = {}
      BY <1>2, <3>1, <3>2
    <3> QED BY <1>1, <3>1, <3>3
  <2> QED BY <2>1, <2>2
<1>7. \A y \in dead \cap Container : ToSet(kids[y]) \subseteq dead
  BY <1>2, <1>3
<1>8. dead \in SUBSET Node
  BY <1>1, <1>2
<1> HIDE DEF dead, ks
<1> QED BY <1>4, <1>5, <1>6, <1>7, <1>8, DestroyedKeepsTrees

(* A node is allocated, without parent or children.                         *)
LEMMA NewNodeKeepsTrees ==
  ASSUME NEW L, NEW u, NEW ks, Trees(L, u, ks), NEW n \in Node \ L
  PROVE  Trees(L \cup {n}, u, ks)
<1>1. u[n] = Nil
  BY DEF Trees, ParentsLive
<1>2. ListsMirror(L \cup {n}, u, ks)
  BY <1>1, Kinds DEF Trees, ListsMirror
<1> QED BY <1>2 DEF Trees, ParentsLive

(* A node gets a parent, or another one, that is not below it.              *)
LEMMA LinkKeepsTrees ==
  ASSUME NEW L, NEW u, NEW ks, Trees(L, u, ks),
         NEW p \in (L \cap Element) \cup {Doc}, NEW n \in L,
         NEW B, n \in B, p \notin B, \A m \in Node : u[m] \in B => m \in B,
         NEW ls \in [Container -> Seq(Node)],
         \A x \in Container :
           /\ IsInjective(ls[x])
           /\ ToSet(ls[x]) = IF x = p THEN ToSet(ks[x]) \cup {n} ELSE ToSet(ks[x]) \ {n}
  PROVE  Trees(L, [u EXCEPT ![n] = p], ls)
<1> DEFINE v == [u EXCEPT ![n] = p]
<1>1. /\ L \in SUBSET Node /\ u \in [Node -> Container \cup {Nil}] /\ n \in Node
      /\ p \in Container /\ p # Nil
      /\ ListsMirror(L, u, ks) /\ ParentsLive(L, u) /\ Grounded(u)
  BY Kinds DEF Trees
<1>2. v \in [Node -> Container \cup {Nil}]
      /\ \A m \in Node : v[m] = IF m = n THEN p ELSE u[m]
  BY <1>1
<1>3. Grounded(v)
  BY <1>1, NewParent
<1> HIDE DEF v
<1>4. ListsMirror(L, v, ls)
  <2> SUFFICES ASSUME NEW x \in Container
               PROVE  ToSet(ls[x]) = {m \in L : v[m] = x}
    BY DEF ListsMirror
  <2>1. ToSet(ks[x]) = {m \in L : u[m] = x}
    BY <1>1 DEF ListsMirror
  <2>2. CASE x = p
    BY <1>1, <1>2, <2>1, <2>2
  <2>3. CASE x # p
    BY <1>1, <1>2, <2>1, <2>3
  <2> QED BY <2>2, <2>3
<1>5. ParentsLive(L, v)
  BY <1>1, <1>2, Kinds DEF ParentsLive
<1> QED BY <1>1, <1>2, <1>3, <1>4, <1>5 DEF Trees, v

-----------------------------------------------------------------------------
(***************************************************************************)
(* The nodes with _unlinked and the counts of the pools.                    *)
(***************************************************************************)

NodesInv ==
  /\ Trees(live, up, kids)
  /\ UnlinkedIsExact
  /\ unlinked \in Seq(Node)
  /\ untracked \in Nat
  /\ Len(unlinked) <= untracked

(* CreateUnlinkedNode.                                                      *)
LEMMA AllocateKeepsInv ==
  ASSUME NodesInv, NEW n \in Node \ live,
         live' = live \cup {n}, unlinked' = Append(unlinked, n),
         untracked' = untracked + 1, UNCHANGED <<up, kids>>
  PROVE  NodesInv' /\ Lost' = Lost /\ ToSet(unlinked') = ToSet(unlinked) \cup {n}
<1>1. Trees(live', up', kids')
  BY NewNodeKeepsTrees DEF NodesInv
<1>2. up[n] = Nil
  BY DEF NodesInv, Trees, ParentsLive
<1>3. /\ IsInjective(unlinked) /\ unlinked \in Seq(Node) /\ n \notin ToSet(unlinked)
      /\ ToSet(unlinked) = {m \in live : up[m] = Nil}
  BY DEF NodesInv, UnlinkedIsExact
<1>4. /\ unlinked' \in Seq(Node) /\ Len(unlinked') = Len(unlinked) + 1
      /\ ToSet(unlinked') = ToSet(unlinked) \cup {n} /\ IsInjective(unlinked')
  BY <1>3, AppendMembers
<1>5. ToSet(unlinked') = {m \in live' : up'[m] = Nil}
  BY <1>2, <1>3, <1>4
<1>6. /\ untracked' \in Nat /\ Len(unlinked') <= untracked'
      /\ untracked' - Len(unlinked') = untracked - Len(unlinked)
  BY <1>3, <1>4 DEF NodesInv
<1> QED BY <1>1, <1>4, <1>5, <1>6 DEF NodesInv, UnlinkedIsExact, Lost

(* A new node that is inserted at once.                                     *)
LEMMA NewChildKeepsInv ==
  ASSUME NodesInv, NEW n \in Node \ live, NEW p \in Parent,
         NEW ks \in Seq(Node), IsInjective(ks), ToSet(ks) = ToSet(kids[p]) \cup {n},
         live' = live \cup {n}, up' = [up EXCEPT ![n] = p],
         kids' = [kids EXCEPT ![p] = ks], UNCHANGED <<unlinked, untracked>>
  PROVE  NodesInv'
<1> DEFINE L == live \cup {n}
<1>1. /\ Trees(live, up, kids) /\ kids \in [Container -> Seq(Node)]
      /\ up \in [Node -> Container \cup {Nil}] /\ live \in SUBSET Node
      /\ ListsMirror(live, up, kids) /\ ParentsLive(live, up)
  BY DEF NodesInv, Trees
<1>2. Trees(L, up, kids)
  BY <1>1, NewNodeKeepsTrees
<1>3. p \in (L \cap Element) \cup {Doc} /\ p \in Container /\ p # n /\ p # Nil
  BY Kinds DEF Parent
<1>4. up[n] = Nil /\ \A m \in Node : up[m] # n
  <2>1. \A m \in Node : up[m] # Nil /\ up[m] # Doc => up[m] \in live
    BY <1>1, Kinds DEF ParentsLive
  <2> QED BY <1>1, <2>1, Kinds DEF ParentsLive
<1>5. kids' \in [Container -> Seq(Node)]
  BY <1>1, <1>3
<1>6. ASSUME NEW x \in Container
      PROVE  /\ IsInjective(kids'[x])
             /\ ToSet(kids'[x]) =
                  IF x = p THEN ToSet(kids[x]) \cup {n} ELSE ToSet(kids[x]) \ {n}
  <2>1. IsInjective(kids[x]) /\ n \notin ToSet(kids[x])
    BY <1>1 DEF ListsMirror
  <2> QED BY <1>1, <1>3, <2>1
<1>7. n \in L
  OBVIOUS
<1> HIDE DEF L
<1>8. Trees(L, [up EXCEPT ![n] = p], kids')
  <2> DEFINE B == {n}
  <2>1. n \in B /\ p \notin B /\ \A m \in Node : up[m] \in B => m \in B
    BY <1>3, <1>4
  <2> HIDE DEF B
  <2> QED BY <1>2, <1>3, <1>5, <1>6, <1>7, <2>1, LinkKeepsTrees
<1>9. Trees(live', up', kids')
  BY <1>8 DEF L
<1>10. {m \in live' : up'[m] = Nil} = {m \in live : up[m] = Nil}
  BY <1>1, <1>3
<1> QED BY <1>9, <1>10 DEF NodesInv, UnlinkedIsExact

(* InsertChildPreamble and the new list.                                    *)
LEMMA InsertKeepsInv ==
  ASSUME NodesInv, NEW n \in live, NEW p \in Parent, p \notin Subtree(n),
         NEW ks \in Seq(Node), IsInjective(ks),
         ToSet(ks) = ToSet(Unlinked(kids, n)[p]) \cup {n},
         Insert(p, n, ks), live' = live
  PROVE  NodesInv' /\ Lost' = Lost /\ ToSet(unlinked') = ToSet(unlinked) \ {n}
<1> DEFINE B == Subtree(n)
           ls == [Unlinked(kids, n) EXCEPT ![p] = ks]
<1>1. /\ Trees(live, up, kids)
      /\ up \in [Node -> Container \cup {Nil}] /\ live \in SUBSET Node /\ n \in Node
      /\ ListsMirror(live, up, kids) /\ ParentsLive(live, up)
  BY DEF NodesInv, Trees
<1>2. /\ Unlinked(kids, n) \in [Container -> Seq(Node)]
      /\ \A x \in Container :
           /\ IsInjective(Unlinked(kids, n)[x])
           /\ ToSet(Unlinked(kids, n)[x]) = ToSet(kids[x]) \ {n}
  BY <1>1, UnlinkedLists
<1>3. p \in (live \cap Element) \cup {Doc} /\ p \in Container /\ p # Nil
  BY Kinds DEF Parent
<1>4. ls \in [Container -> Seq(Node)]
  BY <1>2, <1>3
<1>5. \A x \in Container :
        /\ IsInjective(ls[x])
        /\ ToSet(ls[x]) = IF x = p THEN ToSet(kids[x]) \cup {n} ELSE ToSet(kids[x]) \ {n}
  BY <1>2, <1>3
<1>6. n \in B /\ p \notin B
  BY <1>1, SubtreeClosed
<1>7. ASSUME NEW m \in Node, up[m] \in B
      PROVE  m \in B
  <2>1. B \subseteq Node
    BY <1>1, SubtreeClosed
  <2>2. up[m] \in Container /\ m \in live
    BY <1>1, <1>7, <2>1, Kinds DEF ParentsLive
  <2>3. m \in ToSet(kids[up[m]])
    BY <1>1, <2>2 DEF ListsMirror
  <2> QED BY <1>1, <1>7, <2>2, <2>3, SubtreeClosed
<1>8. up' = [up EXCEPT ![n] = p] /\ kids' = ls
  BY DEF Insert
<1> HIDE DEF B, ls
<1>9. Trees(live', up', kids')
  BY <1>1, <1>3, <1>4, <1>5, <1>6, <1>7, <1>8, LinkKeepsTrees
<1>10. {m \in live' : up'[m] = Nil} = {m \in live : up[m] = Nil} \ {n}
  BY <1>1, <1>3, <1>8
<1>11. /\ IsInjective(unlinked) /\ unlinked \in Seq(Node)
       /\ ToSet(unlinked) = {m \in live : up[m] = Nil}
       /\ untracked \in Nat /\ Len(unlinked) <= untracked /\ Len(unlinked) \in Nat
  BY DEF NodesInv, UnlinkedIsExact
<1>12. /\ unlinked' \in Seq(Node) /\ ToSet(unlinked') = ToSet(unlinked) \ {n}
       /\ IsInjective(unlinked')
       /\ Len(unlinked') = IF up[n] = Nil THEN Len(unlinked) - 1 ELSE Len(unlinked)
  <2>1. CASE up[n] = Nil
    <3>1. unlinked' = MarkInUse(unlinked, n) /\ n \in ToSet(unlinked)
      BY <1>11, <2>1 DEF Insert
    <3> QED BY <1>11, <2>1, <3>1, MarkedMembers
  <2>2. CASE up[n] # Nil
    <3>1. unlinked' = unlinked /\ n \notin ToSet(unlinked)
      BY <1>11, <2>2 DEF Insert
    <3> QED BY <1>11, <2>2, <3>1
  <2> QED BY <2>1, <2>2
<1>13. untracked' = IF up[n] = Nil THEN untracked - 1 ELSE untracked
  BY DEF Insert, SetTracked
<1>14. Len(unlinked') \in Nat
  BY <1>12
<1>15. /\ untracked' \in Nat /\ Len(unlinked') <= untracked'
       /\ untracked' - Len(unlinked') = untracked - Len(unlinked)
  BY <1>11, <1>12, <1>13, <1>14
<1> QED BY <1>9, <1>10, <1>11, <1>12, <1>15 DEF NodesInv, UnlinkedIsExact, Lost

(* XMLNode::DeleteNode.                                                     *)
LEMMA DeleteKeepsInv ==
  ASSUME NodesInv, NEW n \in live, Delete(n)
  PROVE  /\ Trees(live', up', kids') /\ UnlinkedIsExact'
         /\ unlinked' \in Seq(Node) /\ ToSet(unlinked') = ToSet(unlinked) \ {n}
         /\ Len(unlinked') = IF up[n] = Nil THEN Len(unlinked) - 1 ELSE Len(unlinked)
<1>1. /\ Trees(live, up, kids) /\ n \in Node /\ live \in SUBSET Node
      /\ IsInjective(unlinked) /\ unlinked \in Seq(Node)
      /\ ToSet(unlinked) = {m \in live : up[m] = Nil}
  BY DEF NodesInv, UnlinkedIsExact, Trees
<1>2. /\ live' = live \ Subtree(n)
      /\ up' = [m \in Node |-> IF m \in Subtree(n) THEN Nil ELSE up[m]]
      /\ unlinked' = MarkInUse(unlinked, n)
  BY DEF Delete, Destroyed
<1>3. Trees(live', up', kids')
  BY <1>1, DeleteKeepsTrees DEF Delete
<1>4. /\ n \in Subtree(n)
      /\ \A m \in Subtree(n) \ {n} : m \in live /\ up[m] \in Container
  BY <1>1, SubtreeClosed
<1>5. {m \in live' : up'[m] = Nil} = {m \in live : up[m] = Nil} \ {n}
  BY <1>1, <1>2, <1>4, Kinds
<1> QED BY <1>1, <1>2, <1>3, <1>5, MarkedMembers DEF UnlinkedIsExact

(* DeleteNode with SetTracked.                                              *)
LEMMA TrackedDeleteKeepsInv ==
  ASSUME NodesInv, NEW n \in live, Delete(n), SetTracked(n)
  PROVE  NodesInv' /\ Lost' = Lost /\ ToSet(unlinked') = ToSet(unlinked) \ {n}
<1>1. /\ Trees(live', up', kids') /\ UnlinkedIsExact'
      /\ unlinked' \in Seq(Node) /\ ToSet(unlinked') = ToSet(unlinked) \ {n}
      /\ Len(unlinked') = IF up[n] = Nil THEN Len(unlinked) - 1 ELSE Len(unlinked)
  BY DeleteKeepsInv
<1>2. untracked' = IF up[n] = Nil THEN untracked - 1 ELSE untracked
  BY DEF SetTracked
<1>3. untracked \in Nat /\ Len(unlinked) \in Nat /\ Len(unlinked) <= untracked
      /\ Len(unlinked') \in Nat
  BY <1>1 DEF NodesInv
<1>4. /\ untracked' \in Nat /\ Len(unlinked') <= untracked'
      /\ untracked' - Len(unlinked') = untracked - Len(unlinked)
  BY <1>1, <1>2, <1>3
<1> QED BY <1>1, <1>4 DEF NodesInv, Lost

(* DeleteChildren.                                                          *)
LEMMA EmptiedKeepsInv ==
  ASSUME NodesInv, NEW x \in Container, Emptied(x), UNCHANGED unlinked
  PROVE  Trees(live', up', kids') /\ UnlinkedIsExact'
<1>1. /\ Trees(live, up, kids) /\ live \in SUBSET Node /\ x \in Node \cup {Doc}
      /\ ToSet(unlinked) = {m \in live : up[m] = Nil} /\ IsInjective(unlinked)
  BY Kinds DEF NodesInv, UnlinkedIsExact, Trees
<1>2. Trees(live', up', kids')
  BY <1>1, EmptiedKeepsTrees
<1>3. /\ live' = live \ (Subtree(x) \ {x})
      /\ up' = [m \in Node |-> IF m \in Subtree(x) \ {x} THEN Nil ELSE up[m]]
  BY DEF Emptied, Destroyed
<1>4. \A m \in Subtree(x) \ {x} : m \in live /\ up[m] \in Container
  BY <1>1, SubtreeClosed
<1>5. {m \in live' : up'[m] = Nil} = {m \in live : up[m] = Nil}
  BY <1>1, <1>3, <1>4, Kinds
<1> QED BY <1>1, <1>2, <1>5 DEF UnlinkedIsExact

-----------------------------------------------------------------------------
(***************************************************************************)
(* The inductive invariant. While a document is read, and while a parse     *)
(* that failed unwinds, the unlinked nodes are the open elements: nothing   *)
(* else is without parent, and no open element has one yet.                 *)
(***************************************************************************)

OpenAreUnlinked ==
  /\ open \in Seq(Element)
  /\ IsInjective(open)
  /\ IF phase \in {"reading", "failing"} THEN ToSet(unlinked) = ToSet(open)
     ELSE open = << >>

TinyInv ==
  /\ NodesInv
  /\ OpenAreUnlinked
  /\ error \in BOOLEAN
  /\ call \in Call
  /\ phase \in Phase

(* How far the counts of the pools may move away from _unlinked in a step.  *)
Drift ==
  \/ Lost' = Lost
  \/ Lost' = Lost + 1 /\ phase' = "failing"
  \/ Lost' = 0 /\ phase = "failing" /\ call = "Parse"

LEMMA InitTinyInv == Init => TinyInv
<1> SUFFICES ASSUME Init PROVE TinyInv
  OBVIOUS
<1>1. ToSet(<< >>) = {} /\ IsInjective(<< >>)
  BY DEF ToSet, IsInjective
<1>2. Trees(live, up, kids)
  <2>1. live \in SUBSET Node /\ up \in [Node -> Container \cup {Nil}]
    BY DEF Init
  <2>2. kids \in [Container -> Seq(Node)]
    BY DEF Init
  <2>3. ListsMirror(live, up, kids)
    BY <1>1 DEF Init, ListsMirror
  <2>4. ParentsLive(live, up)
    BY Kinds DEF Init, ParentsLive
  <2>5. Grounded(up)
    <3> SUFFICES ASSUME NEW S \in SUBSET Node, S # {}
                 PROVE  \E n \in S : up[n] \notin S
      BY DEF Grounded
    <3>1. PICK n \in S : TRUE
      OBVIOUS
    <3>2. up[n] = Nil
      BY DEF Init
    <3> QED BY <3>1, <3>2, Kinds
  <2> QED BY <2>1, <2>2, <2>3, <2>4, <2>5 DEF Trees
<1>3. NodesInv
  BY <1>1, <1>2 DEF Init, NodesInv, UnlinkedIsExact
<1>4. open = << >> /\ phase = "idle" /\ error = FALSE /\ call = "none"
  BY DEF Init
<1>5. << >> \in Seq(Element)
  OBVIOUS
<1>6. OpenAreUnlinked
  <2>1. phase \notin {"reading", "failing"}
    BY <1>4
  <2> QED BY <1>1, <1>4, <1>5, <2>1 DEF OpenAreUnlinked
<1> QED BY <1>3, <1>4, <1>6 DEF TinyInv, Call, Phase

(* Between two calls no element is open.                                    *)
LEMMA IdleKeepsOpen ==
  ASSUME TinyInv, Idle, phase' \in {"idle", "crashed"}
  PROVE  OpenAreUnlinked' /\ call' \in Call /\ phase' \in Phase
BY DEF TinyInv, Idle, OpenAreUnlinked, Phase

(* The list of p that an insertion makes.                                   *)
LEMMA InsertedList ==
  ASSUME NodesInv, NEW n \in live, NEW p \in Parent
  PROVE  LET ks == Unlinked(kids, n)[p]
         IN  /\ ks \in Seq(Node) /\ IsInjective(ks)
             /\ ToSet(ks) = ToSet(kids[p]) \ {n} /\ n \in Node
<1>1. p \in Container
  BY Kinds DEF Parent
<1>2. Trees(live, up, kids) /\ n \in Node
  BY DEF NodesInv, Trees
<1> QED BY <1>1, <1>2, UnlinkedLists

LEMMA NewNodeKeepsInv ==
  ASSUME TinyInv, NEW n \in Node, NewNode(n)
  PROVE  TinyInv' /\ Drift
<1>1. NodesInv' /\ Lost' = Lost
  BY AllocateKeepsInv DEF NewNode, TinyInv
<1>2. OpenAreUnlinked' /\ call' \in Call /\ phase' \in Phase
  BY IdleKeepsOpen DEF NewNode, Idle
<1> QED BY <1>1, <1>2 DEF NewNode, TinyInv, Drift

LEMMA InsertEndChildKeepsInv ==
  ASSUME TinyInv, NEW p \in Container, NEW n \in Node,
         InsertEndChild(p, n) \/ InsertFirstChild(p, n)
  PROVE  TinyInv' /\ Drift
<1> DEFINE ks == Unlinked(kids, n)[p]
<1>1. NodesInv /\ p \in Parent /\ n \in live /\ p \notin Subtree(n)
  BY DEF TinyInv, InsertEndChild, InsertFirstChild, CanInsert
<1>2. ks \in Seq(Node) /\ IsInjective(ks) /\ n \notin ToSet(ks)
  BY <1>1, InsertedList
<1>3. PICK ls : /\ ls \in {Append(ks, n), <<n>> \o ks} /\ Insert(p, n, ls)
                /\ live' = live /\ error' = error /\ phase' = phase /\ Idle
  BY DEF InsertEndChild, InsertFirstChild
<1> HIDE DEF ks
<1>4. ls \in Seq(Node) /\ IsInjective(ls) /\ ToSet(ls) = ToSet(ks) \cup {n}
  <2>1. /\ Append(ks, n) \in Seq(Node) /\ IsInjective(Append(ks, n))
        /\ ToSet(Append(ks, n)) = ToSet(ks) \cup {n}
    BY <1>2, AppendMembers
  <2>2. /\ <<n>> \o ks \in Seq(Node) /\ IsInjective(<<n>> \o ks)
        /\ ToSet(<<n>> \o ks) = ToSet(ks) \cup {n}
    BY <1>2, PrependMembers
  <2>3. ls = Append(ks, n) \/ ls = <<n>> \o ks
    BY <1>3
  <2>4. CASE ls = Append(ks, n)
    BY <2>1, <2>4
  <2>5. CASE ls = <<n>> \o ks
    BY <2>2, <2>5
  <2> QED BY <2>3, <2>4, <2>5
<1>5. NodesInv' /\ Lost' = Lost
  BY <1>1, <1>3, <1>4, InsertKeepsInv DEF ks
<1>6. OpenAreUnlinked' /\ call' \in Call /\ phase' \in Phase
  BY <1>3, IdleKeepsOpen DEF Idle
<1> QED BY <1>3, <1>5, <1>6 DEF TinyInv, Drift

LEMMA InsertAfterChildKeepsInv ==
  ASSUME TinyInv, NEW p \in Container, NEW a \in Node, NEW n \in Node,
         InsertAfterChild(p, a, n)
  PROVE  TinyInv' /\ Drift
<1> DEFINE ks == Unlinked(kids, n)[p]
           i == Position(ks, a) + 1
<1>1. NodesInv /\ p \in Parent /\ n \in live /\ p \notin Subtree(n) /\ Idle
  BY DEF TinyInv, InsertAfterChild, CanInsert
<1>2. CASE phase' = "crashed" /\ UNCHANGED <<nodeVars, error>>
  <2>1. NodesInv' /\ Lost' = Lost
    BY <1>1, <1>2 DEF NodesInv, nodeVars, Lost, UnlinkedIsExact
  <2>2. OpenAreUnlinked' /\ call' \in Call /\ phase' \in Phase
    BY <1>1, <1>2, IdleKeepsOpen
  <2> QED BY <1>2, <2>1, <2>2 DEF TinyInv, Drift
<1>3. CASE Insert(p, n, InsertAt(ks, i, n)) /\ UNCHANGED <<live, error, phase>>
  <2>1. ks \in Seq(Node) /\ IsInjective(ks) /\ ToSet(ks) = ToSet(kids[p]) \ {n} /\ n \in Node
    BY <1>1, InsertedList
  <2>2. a \in ToSet(ks) /\ n \notin ToSet(ks)
    BY <2>1 DEF InsertAfterChild
  <2> HIDE DEF ks
  <2>3. Position(ks, a) \in DOMAIN ks
    BY <2>2, PositionOfMember
  <2>4. i \in 1 .. Len(ks) + 1
    BY <2>1, <2>3
  <2> HIDE DEF i
  <2> DEFINE ls == InsertAt(ks, i, n)
  <2>5. ls \in Seq(Node) /\ IsInjective(ls) /\ ToSet(ls) = ToSet(ks) \cup {n}
    BY <2>1, <2>2, <2>4, InsertMembers
  <2>6. Insert(p, n, ls)
    BY <1>3
  <2> HIDE DEF ls
  <2>7. NodesInv' /\ Lost' = Lost
    BY <1>1, <1>3, <2>5, <2>6, InsertKeepsInv DEF ks
  <2>8. OpenAreUnlinked' /\ call' \in Call /\ phase' \in Phase
    BY <1>1, <1>3, IdleKeepsOpen DEF Idle
  <2> QED BY <1>3, <2>7, <2>8 DEF TinyInv, Drift
<1> QED BY <1>2, <1>3 DEF InsertAfterChild

LEMMA SetTextKeepsInv ==
  ASSUME TinyInv, NEW e \in Element, NEW t \in Text, SetText(e, t)
  PROVE  TinyInv' /\ Drift
<1> DEFINE ks == <<t>> \o kids[e]
<1>1. /\ NodesInv /\ e \in Parent /\ t \in Node \ live /\ Idle
      /\ live' = live \cup {t} /\ up' = [up EXCEPT ![t] = e]
      /\ kids' = [kids EXCEPT ![e] = ks]
      /\ UNCHANGED <<unlinked, untracked, error, phase>>
  BY DEF TinyInv, SetText, Parent, Node
<1>2. /\ kids[e] \in Seq(Node) /\ IsInjective(kids[e]) /\ t \notin ToSet(kids[e])
  BY <1>1, Kinds DEF NodesInv, Trees, ListsMirror
<1>3. ks \in Seq(Node) /\ IsInjective(ks) /\ ToSet(ks) = ToSet(kids[e]) \cup {t}
  BY <1>1, <1>2, PrependMembers
<1> HIDE DEF ks
<1>4. NodesInv' /\ Lost' = Lost
  BY <1>1, <1>3, NewChildKeepsInv DEF Lost
<1>5. OpenAreUnlinked' /\ call' \in Call /\ phase' \in Phase
  BY <1>1, IdleKeepsOpen DEF Idle
<1> QED BY <1>1, <1>4, <1>5 DEF TinyInv, Drift

LEMMA DeletionKeepsInv ==
  ASSUME TinyInv, \/ \E n \in Node : DeleteNode(n)
                  \/ \E x \in Container : DeleteChildren(x)
  PROVE  TinyInv' /\ Drift
<1>1. ASSUME NEW n \in Node, DeleteNode(n)
      PROVE  NodesInv' /\ Lost' = Lost
  BY <1>1, TrackedDeleteKeepsInv DEF DeleteNode, TinyInv
<1>2. ASSUME NEW x \in Container, DeleteChildren(x)
      PROVE  NodesInv' /\ Lost' = Lost
  BY <1>2, EmptiedKeepsInv DEF DeleteChildren, TinyInv, NodesInv, Lost
<1>3. Idle /\ error' = error /\ phase' = phase
  BY DEF DeleteNode, DeleteChildren
<1>4. OpenAreUnlinked' /\ call' \in Call /\ phase' \in Phase
  BY <1>3, IdleKeepsOpen DEF Idle
<1> QED BY <1>1, <1>2, <1>3, <1>4 DEF TinyInv, Drift

(* Calls that leave the nodes alone.                                        *)
LEMMA NodesStay ==
  ASSUME TinyInv, UNCHANGED nodeVars
  PROVE  NodesInv' /\ Lost' = Lost /\ unlinked' = unlinked
BY DEF TinyInv, NodesInv, nodeVars, Lost, UnlinkedIsExact

LEMMA SaveOrBeginKeepsInv ==
  ASSUME TinyInv, \/ \E fails \in BOOLEAN : SaveFile(fails)
                  \/ \E c \in Call \ {"none"} : Begin(c)
  PROVE  TinyInv' /\ Drift
<1>1. /\ UNCHANGED <<nodeVars, open>> /\ error' \in BOOLEAN /\ phase = "idle"
      /\ call' \in Call /\ phase' \in {"idle", "clearing"}
  BY DEF TinyInv, SaveFile, Begin, Idle
<1>2. NodesInv' /\ Lost' = Lost
  BY <1>1, NodesStay
<1>3. OpenAreUnlinked'
  BY <1>1 DEF TinyInv, OpenAreUnlinked
<1> QED BY <1>1, <1>2, <1>3 DEF TinyInv, Drift, Phase

LEMMA ClearNodeKeepsInv ==
  ASSUME TinyInv, ClearNode
  PROVE  TinyInv' /\ Drift
<1> DEFINE n == IF kids[Doc] # << >> THEN Head(kids[Doc]) ELSE Head(unlinked)
<1>1. /\ phase = "clearing" /\ Delete(n) /\ SetTracked(n)
      /\ UNCHANGED <<error, open, call, phase>>
      /\ kids[Doc] # << >> \/ unlinked # << >>
  BY DEF ClearNode
<1>2. n \in live
  <2>1. /\ kids[Doc] \in Seq(Node) /\ ToSet(kids[Doc]) \subseteq live
        /\ unlinked \in Seq(Node) /\ ToSet(unlinked) \subseteq live
    BY Kinds DEF TinyInv, NodesInv, Trees, ListsMirror, UnlinkedIsExact
  <2>2. ASSUME NEW s \in Seq(Node), s # << >>
        PROVE  Head(s) \in ToSet(s)
    <3>1. 1 \in DOMAIN s /\ Head(s) = s[1]
      BY <2>2
    <3> QED BY <3>1 DEF ToSet
  <2> QED BY <1>1, <2>1, <2>2
<1> HIDE DEF n
<1>3. NodesInv' /\ Lost' = Lost
  BY <1>1, <1>2, TrackedDeleteKeepsInv DEF TinyInv
<1>4. OpenAreUnlinked'
  BY <1>1 DEF TinyInv, OpenAreUnlinked
<1> QED BY <1>1, <1>3, <1>4 DEF TinyInv, Drift

LEMMA ClearDoneKeepsInv ==
  ASSUME TinyInv, ClearDone
  PROVE  TinyInv' /\ Drift
<1>1. /\ UNCHANGED <<nodeVars, open>> /\ phase = "clearing" /\ unlinked = << >>
      /\ error' \in BOOLEAN /\ call' \in Call
      /\ phase' \in {"idle", "gone", "clearing", "reading"}
  BY DEF TinyInv, ClearDone, Cleared, Call
<1>2. NodesInv' /\ Lost' = Lost /\ unlinked' = unlinked
  BY <1>1, NodesStay
<1>3. open = << >> /\ open' = << >>
  BY <1>1 DEF TinyInv, OpenAreUnlinked
<1>4. OpenAreUnlinked'
  BY <1>1, <1>2, <1>3 DEF TinyInv, OpenAreUnlinked
<1> QED BY <1>1, <1>2, <1>4 DEF TinyInv, Drift, Phase

(* The frame that runs is the document's or that of a live element.         *)
LEMMA TopIsParent ==
  ASSUME TinyInv, phase \in {"reading", "failing"}
  PROVE  /\ Top \in Parent
         /\ open # << >> => /\ Last(open) \in Element \cap live
                            /\ Last(open) \in ToSet(unlinked) /\ up[Last(open)] = Nil
<1>1. /\ open \in Seq(Element) /\ IsInjective(open) /\ ToSet(unlinked) = ToSet(open)
      /\ ToSet(unlinked) = {m \in live : up[m] = Nil}
  BY DEF TinyInv, OpenAreUnlinked, NodesInv, UnlinkedIsExact
<1>2. CASE open = << >>
  BY <1>2 DEF Top, Parent
<1>3. CASE open # << >>
  BY <1>1, <1>3, FrontMembers DEF Top, Parent
<1> QED BY <1>2, <1>3

LEMMA ReadLeafKeepsInv ==
  ASSUME TinyInv, NEW n \in Node, ReadLeaf(n)
  PROVE  TinyInv' /\ Drift
<1> DEFINE ks == Append(kids[Top], n)
<1>1. /\ phase = "reading" /\ n \in Node \ live
      /\ live' = live \cup {n} /\ up' = [up EXCEPT ![n] = Top]
      /\ kids' = [kids EXCEPT ![Top] = ks]
      /\ UNCHANGED <<unlinked, untracked, error, open, call, phase>>
  BY DEF ReadLeaf
<1>2. Top \in Parent /\ Top \in Container
  BY <1>1, TopIsParent, Kinds DEF Parent
<1>3. kids[Top] \in Seq(Node) /\ IsInjective(kids[Top]) /\ n \notin ToSet(kids[Top])
  BY <1>1, <1>2 DEF TinyInv, NodesInv, Trees, ListsMirror
<1>4. ks \in Seq(Node) /\ IsInjective(ks) /\ ToSet(ks) = ToSet(kids[Top]) \cup {n}
  BY <1>1, <1>3, AppendMembers
<1> HIDE DEF ks
<1>5. NodesInv' /\ Lost' = Lost
  BY <1>1, <1>2, <1>4, NewChildKeepsInv DEF TinyInv, Lost
<1>6. OpenAreUnlinked'
  BY <1>1 DEF TinyInv, OpenAreUnlinked
<1> QED BY <1>1, <1>5, <1>6 DEF TinyInv, Drift

LEMMA ReadLeafFailsKeepsInv ==
  ASSUME TinyInv, NEW n \in Node, ReadLeafFails(n)
  PROVE  TinyInv' /\ Drift
<1>1. /\ phase = "reading" /\ phase' = "failing" /\ error' = TRUE
      /\ untracked' = untracked + 1
      /\ UNCHANGED <<live, up, kids, unlinked, open, call>>
  BY DEF ReadLeafFails
<1>2. untracked \in Nat /\ Len(unlinked) \in Nat /\ Len(unlinked) <= untracked
  BY DEF TinyInv, NodesInv
<1>3. /\ untracked' \in Nat /\ Len(unlinked') <= untracked'
      /\ untracked' - Len(unlinked') = (untracked - Len(unlinked)) + 1
  BY <1>1, <1>2
<1>4. NodesInv'
  BY <1>1, <1>3 DEF TinyInv, NodesInv, UnlinkedIsExact
<1>5. OpenAreUnlinked'
  BY <1>1 DEF TinyInv, OpenAreUnlinked
<1> QED BY <1>1, <1>3, <1>4, <1>5 DEF TinyInv, Drift, Phase, Lost

LEMMA ReadStartTagKeepsInv ==
  ASSUME TinyInv, NEW e \in Element, ReadStartTag(e)
  PROVE  TinyInv' /\ Drift
<1>1. /\ phase = "reading" /\ phase' \in {"reading", "failing"} /\ error' \in BOOLEAN
      /\ e \in Node \ live /\ open' = Append(open, e) /\ call' = call
  BY Kinds DEF ReadStartTag, TooDeep
<1>2. NodesInv' /\ Lost' = Lost /\ ToSet(unlinked') = ToSet(unlinked) \cup {e}
  BY <1>1, AllocateKeepsInv DEF ReadStartTag, TinyInv
<1>3. /\ open \in Seq(Element) /\ IsInjective(open) /\ ToSet(unlinked) = ToSet(open)
      /\ ToSet(unlinked) \subseteq live
  BY <1>1 DEF TinyInv, OpenAreUnlinked, NodesInv, UnlinkedIsExact
<1>4. /\ open' \in Seq(Element) /\ IsInjective(open')
      /\ ToSet(open') = ToSet(open) \cup {e}
  BY <1>1, <1>3, AppendMembers
<1>5. OpenAreUnlinked'
  BY <1>1, <1>2, <1>3, <1>4 DEF OpenAreUnlinked
<1> QED BY <1>1, <1>2, <1>5 DEF TinyInv, Drift, Phase

(* The end tag that matches: the element gets its parent, which is no node  *)
(* below it, because every open element is without parent still.            *)
LEMMA MatchedEndTag ==
  ASSUME TinyInv, ReadEndTag(TRUE)
  PROVE  LET e == Last(open)
             p == IF Len(open) = 1 THEN Doc ELSE open[Len(open) - 1]
         IN  /\ e \in Element \cap live /\ up[e] = Nil
             /\ p \in Parent /\ p \in Container /\ p \notin Subtree(e)
             /\ Unlinked(kids, e) = kids
             /\ Insert(p, e, Append(kids[p], e))
<1> DEFINE e == Last(open)
           p == IF Len(open) = 1 THEN Doc ELSE open[Len(open) - 1]
<1>1. /\ phase = "reading" /\ open # << >> /\ Insert(p, e, Append(kids[p], e))
  BY DEF ReadEndTag
<1>2. /\ open \in Seq(Element) /\ IsInjective(open) /\ ToSet(unlinked) = ToSet(open)
      /\ ToSet(unlinked) = {m \in live : up[m] = Nil}
      /\ Trees(live, up, kids) /\ live \in SUBSET Node
  BY <1>1 DEF TinyInv, OpenAreUnlinked, NodesInv, UnlinkedIsExact, Trees
<1>3. e \in Element \cap live /\ up[e] = Nil /\ e \in Node
  BY <1>1, TopIsParent, Kinds
<1>4. p = Doc \/ (p \in Element \cap live /\ p # e /\ up[p] = Nil)
  <2>1. CASE Len(open) = 1
    BY <2>1
  <2>2. CASE Len(open) # 1
    <3>1. /\ Len(open) - 1 \in DOMAIN open /\ Len(open) \in DOMAIN open
          /\ Len(open) - 1 # Len(open)
      <4>1. open \in Seq(Element) /\ open # << >>
        BY <1>1, <1>2
      <4>2. Len(open) \in Nat \ {0} /\ DOMAIN open = 1 .. Len(open)
        BY <4>1, LengthOfList
      <4>3. \A L \in Nat \ {0, 1} : L - 1 \in 1 .. L /\ L \in 1 .. L /\ L - 1 # L
        OBVIOUS
      <4>4. Len(open) \in Nat \ {0, 1}
        BY <2>2, <4>2
      <4> QED BY Zenon, <4>2, <4>3, <4>4
    <3>2. p = open[Len(open) - 1] /\ e = open[Len(open)]
      BY <2>2 DEF Last
    <3>3. p # e
      BY <1>2, <3>1, <3>2 DEF IsInjective
    <3>4. p \in Element
      BY <1>2, <3>1, <3>2
    <3>5. p \in ToSet(open)
      BY <3>1, <3>2 DEF ToSet
    <3> QED BY <1>2, <3>3, <3>4, <3>5
  <2> QED BY <2>1, <2>2
<1>5. Unlinked(kids, e) = kids
  BY <1>3 DEF Unlinked
<1>6. /\ Subtree(e) \subseteq {e} \cup live
      /\ \A m \in Subtree(e) \ {e} : up[m] \in Container
  BY <1>2, <1>3, SubtreeClosed
<1>7. p \notin Subtree(e)
  <2>1. Doc \notin live /\ Doc # e
    BY <1>2, <1>3, Kinds
  <2> QED BY <1>4, <1>6, <2>1, Kinds
<1>8. p \in Parent /\ p \in Container
  BY <1>4, Kinds DEF Parent
<1> QED BY <1>1, <1>3, <1>5, <1>7, <1>8

LEMMA ReadEndTagKeepsInv ==
  ASSUME TinyInv, NEW matches \in BOOLEAN, ReadEndTag(matches)
  PROVE  TinyInv' /\ Drift
<1>1. CASE matches = FALSE
  <2>1. /\ phase = "reading" /\ phase' = "failing" /\ error' = TRUE
        /\ UNCHANGED <<nodeVars, open, call>>
    BY <1>1 DEF ReadEndTag, nodeVars
  <2>2. NodesInv' /\ Lost' = Lost /\ unlinked' = unlinked
    BY <2>1, NodesStay
  <2>3. OpenAreUnlinked'
    BY <2>1, <2>2 DEF TinyInv, OpenAreUnlinked
  <2> QED BY <2>1, <2>2, <2>3 DEF TinyInv, Drift, Phase
<1>2. CASE matches = TRUE
  <2> DEFINE e == Last(open)
             p == IF Len(open) = 1 THEN Doc ELSE open[Len(open) - 1]
             ks == Append(kids[p], e)
  <2>1. /\ phase = "reading" /\ open # << >> /\ open' = Front(open)
        /\ live' = live /\ UNCHANGED <<error, call, phase>>
    BY <1>2 DEF ReadEndTag
  <2>2. /\ e \in Element \cap live /\ up[e] = Nil
        /\ p \in Parent /\ p \in Container /\ p \notin Subtree(e)
        /\ Unlinked(kids, e) = kids /\ Insert(p, e, ks)
    BY <1>2, MatchedEndTag
  <2> HIDE DEF p
  <2>3. /\ kids[p] \in Seq(Node) /\ IsInjective(kids[p]) /\ e \notin ToSet(kids[p])
        /\ e \in Node
    BY <2>2, Kinds DEF TinyInv, NodesInv, Trees, ListsMirror
  <2>4. ks \in Seq(Node) /\ IsInjective(ks) /\ ToSet(ks) = ToSet(kids[p]) \cup {e}
    BY <2>3, AppendMembers
  <2> HIDE DEF ks
  <2>5. e \in live /\ ToSet(ks) = ToSet(Unlinked(kids, e)[p]) \cup {e}
    BY <2>2, <2>4
  <2>6. /\ open \in Seq(Element) /\ IsInjective(open) /\ ToSet(unlinked) = ToSet(open)
    BY <2>1 DEF TinyInv, OpenAreUnlinked
  <2>7. /\ Front(open) \in Seq(Element) /\ IsInjective(Front(open))
        /\ ToSet(Front(open)) = ToSet(open) \ {e}
    BY <2>1, <2>6, FrontMembers
  <2> HIDE DEF e
  <2>8. NodesInv' /\ Lost' = Lost /\ ToSet(unlinked') = ToSet(unlinked) \ {e}
    BY <2>1, <2>2, <2>4, <2>5, InsertKeepsInv DEF TinyInv
  <2>9. OpenAreUnlinked'
    BY <2>1, <2>6, <2>7, <2>8 DEF OpenAreUnlinked
  <2> QED BY <2>1, <2>8, <2>9 DEF TinyInv, Drift
<1> QED BY <1>1, <1>2

LEMMA ReadEndKeepsInv ==
  ASSUME TinyInv, ReadEnd
  PROVE  TinyInv' /\ Drift
<1>1. /\ UNCHANGED <<nodeVars, open>> /\ phase = "reading"
      /\ phase' = "failing" \/ (phase' = "idle" /\ open = << >>)
      /\ error' \in BOOLEAN /\ call' \in Call
  BY DEF TinyInv, ReadEnd, Call
<1>2. NodesInv' /\ Lost' = Lost /\ unlinked' = unlinked
  BY <1>1, NodesStay
<1>3. OpenAreUnlinked'
  BY <1>1, <1>2 DEF TinyInv, OpenAreUnlinked
<1> QED BY <1>1, <1>2, <1>3 DEF TinyInv, Drift, Phase

(* A frame is left after a failure: its element is deleted and the pool not *)
(* told.                                                                    *)
LEMMA UnwindKeepsInv ==
  ASSUME TinyInv, Unwind
  PROVE  TinyInv' /\ Drift
<1> DEFINE e == Last(open)
<1>1. /\ phase = "failing" /\ open # << >> /\ Delete(e) /\ open' = Front(open)
      /\ UNCHANGED <<untracked, error, call, phase>>
  BY DEF Unwind
<1>2. e \in live /\ up[e] = Nil
  BY <1>1, TopIsParent
<1>3. /\ open \in Seq(Element) /\ IsInjective(open) /\ ToSet(unlinked) = ToSet(open)
  BY <1>1 DEF TinyInv, OpenAreUnlinked
<1>4. /\ Front(open) \in Seq(Element) /\ IsInjective(Front(open))
      /\ ToSet(Front(open)) = ToSet(open) \ {e}
  BY <1>1, <1>3, FrontMembers
<1> HIDE DEF e
<1>5. /\ Trees(live', up', kids') /\ UnlinkedIsExact'
      /\ unlinked' \in Seq(Node) /\ ToSet(unlinked') = ToSet(unlinked) \ {e}
      /\ Len(unlinked') = Len(unlinked) - 1
  BY <1>1, <1>2, DeleteKeepsInv DEF TinyInv
<1>6. untracked \in Nat /\ Len(unlinked) \in Nat /\ Len(unlinked) <= untracked
  BY DEF TinyInv, NodesInv
<1>7. /\ Len(unlinked') <= untracked' /\ untracked' \in Nat
      /\ untracked' - Len(unlinked') = (untracked - Len(unlinked)) + 1
  BY <1>1, <1>5, <1>6
<1>8. OpenAreUnlinked'
  BY <1>1, <1>3, <1>4, <1>5 DEF OpenAreUnlinked
<1> QED BY <1>1, <1>5, <1>7, <1>8 DEF TinyInv, NodesInv, Drift, Lost

(* Nothing is unlinked when the last frame has been left: the pools can be  *)
(* emptied.                                                                 *)
LEMMA ReadFailedKeepsInv ==
  ASSUME TinyInv, ReadFailed
  PROVE  TinyInv' /\ Drift
<1>1. /\ phase = "failing" /\ open = << >> /\ phase' = "idle" /\ call' = "none"
      /\ UNCHANGED <<error, open>>
  BY DEF ReadFailed
<1>2. OpenAreUnlinked' /\ call' \in Call /\ phase' \in Phase /\ error' \in BOOLEAN
  BY <1>1 DEF TinyInv, OpenAreUnlinked, Call, Phase
<1>3. CASE call = "Parse"
  <2>1. Emptied(Doc) /\ unlinked' = unlinked /\ untracked' = 0
    BY <1>3 DEF ReadFailed, CleanUp
  <2>2. Trees(live', up', kids') /\ UnlinkedIsExact'
    BY <2>1, EmptiedKeepsInv, Kinds DEF TinyInv
  <2>3. Len(unlinked) = 0 /\ unlinked \in Seq(Node)
    <3>1. unlinked \in Seq(Node) /\ ToSet(unlinked) = ToSet(open) /\ DOMAIN open = {}
      BY <1>1 DEF TinyInv, NodesInv, OpenAreUnlinked
    <3>2. ToSet(unlinked) = {}
      BY <3>1 DEF ToSet
    <3>3. DOMAIN unlinked = {}
      BY <3>2 DEF ToSet
    <3> QED BY <3>1, <3>3
  <2>4. Len(unlinked') <= untracked' /\ untracked' \in Nat /\ untracked' - Len(unlinked') = 0
    BY <2>1, <2>3
  <2> QED BY <1>1, <1>2, <1>3, <2>1, <2>2, <2>3, <2>4 DEF TinyInv, NodesInv, Drift, Lost
<1>4. CASE call # "Parse"
  <2>1. UNCHANGED nodeVars
    BY <1>4 DEF ReadFailed
  <2>2. NodesInv' /\ Lost' = Lost
    BY <2>1, NodesStay
  <2> QED BY <1>2, <2>2 DEF TinyInv, Drift
<1> QED BY <1>3, <1>4

LEMMA NextTinyInv == TinyInv /\ [Next]_vars => TinyInv' /\ [Drift]_vars
<1> SUFFICES ASSUME TinyInv, [Next]_vars PROVE TinyInv' /\ [Drift]_vars
  OBVIOUS
<1>1. CASE Editing
  BY <1>1, NewNodeKeepsInv, DeletionKeepsInv, InsertEndChildKeepsInv,
     InsertAfterChildKeepsInv, SetTextKeepsInv DEF Editing
<1>2. CASE Saving \/ \E c \in Call \ {"none"} : Begin(c)
  BY <1>2, SaveOrBeginKeepsInv DEF Saving
<1>3. CASE Clearing
  BY <1>3, ClearNodeKeepsInv, ClearDoneKeepsInv DEF Clearing
<1>4. CASE Reading
  BY <1>4, ReadLeafKeepsInv, ReadLeafFailsKeepsInv, ReadStartTagKeepsInv,
     ReadEndTagKeepsInv, ReadEndKeepsInv, UnwindKeepsInv, ReadFailedKeepsInv DEF Reading
<1>5. CASE UNCHANGED vars
  <2>1. UNCHANGED <<nodeVars, error, open, call, phase>>
    BY <1>5 DEF vars
  <2>2. NodesInv' /\ unlinked' = unlinked
    BY <2>1, NodesStay
  <2>3. OpenAreUnlinked'
    BY <2>1, <2>2 DEF TinyInv, OpenAreUnlinked
  <2> QED BY <1>5, <2>1, <2>2, <2>3 DEF TinyInv
<1> QED BY <1>1, <1>2, <1>3, <1>4, <1>5 DEF Next

-----------------------------------------------------------------------------
(***************************************************************************)
(* The theorems                                                             *)
(***************************************************************************)

(* Lists and parents agree, nothing is above itself, _unlinked is the nodes *)
(* without parent, and a parser holds no other node: in every state.        *)
THEOREM TreesAndUnlinked == Spec => []TinyInv
<1>1. Init => TinyInv
  BY InitTinyInv
<1>2. TinyInv /\ [Next]_vars => TinyInv'
  BY NextTinyInv
<1> QED BY <1>1, <1>2, PTL DEF Spec

(* Every variable keeps to its type; in particular _nUntracked never falls  *)
(* below zero, whatever SetTracked is told.                                 *)
THEOREM TinyTypeCorrect == Spec => []TypeOK
<1>1. TinyInv => TypeOK
  BY DEF TinyInv, NodesInv, Trees, OpenAreUnlinked, TypeOK
<1> QED BY <1>1, TreesAndUnlinked, PTL

(* _unlinked is exactly the nodes without parent, in every state of every   *)
(* call.                                                                    *)
THEOREM UnlinkedStaysExact == Spec => []UnlinkedIsExact
<1>1. TinyInv => UnlinkedIsExact
  BY DEF TinyInv, NodesInv
<1> QED BY <1>1, TreesAndUnlinked, PTL

(* Climbing from a node ends at the document or at an unlinked node: those  *)
(* that could not be found from there would be a set closed under parents.  *)
LEMMA FoundFromAbove == TinyInv => NothingLost
<1> SUFFICES ASSUME TinyInv PROVE NothingLost
  OBVIOUS
<1> DEFINE R == {Doc} \cup ToSet(unlinked)
           F == UNION {Subtree(r) : r \in R}
<1>1. /\ Trees(live, up, kids) /\ live \in SUBSET Node
      /\ up \in [Node -> Container \cup {Nil}]
      /\ ListsMirror(live, up, kids) /\ ParentsLive(live, up) /\ Grounded(up)
      /\ ToSet(unlinked) = {m \in live : up[m] = Nil}
  BY DEF TinyInv, NodesInv, Trees, UnlinkedIsExact
<1>2. R \subseteq Node \cup {Doc}
  BY <1>1
<1>3. ASSUME NEW r \in R
      PROVE  /\ r \in Subtree(r) /\ Subtree(r) \subseteq {r} \cup live
             /\ \A y \in Subtree(r) \cap Container : ToSet(kids[y]) \subseteq Subtree(r)
  BY <1>1, <1>2, SubtreeClosed
<1>4. F \subseteq live \cup {Doc}
  <2>1. R \subseteq live \cup {Doc}
    BY <1>1
  <2> QED BY <1>3, <2>1
<1>5. live \subseteq F
  <2> SUFFICES ASSUME live \ F # {} PROVE FALSE
    OBVIOUS
  <2>1. PICK n \in live \ F : up[n] \notin live \ F
    <3> DEFINE S == live \ F
    <3>1. S \in SUBSET Node /\ S # {}
      BY <1>1
    <3> HIDE DEF S
    <3>2. \E n \in S : up[n] \notin S
      BY <1>1, <3>1 DEF Grounded
    <3> QED BY <3>2 DEF S
  <2>2. CASE up[n] = Nil
    <3>1. n \in R
      BY <1>1, <2>1, <2>2
    <3> QED BY <1>3, <2>1, <3>1
  <2>3. CASE up[n] # Nil
    <3>1. up[n] \in Container /\ n \in ToSet(kids[up[n]])
      BY <1>1, <2>1, <2>3, Kinds DEF ListsMirror
    <3>2. \E r \in R : up[n] \in Subtree(r)
      <4>1. CASE up[n] = Doc
        BY <1>3, <4>1
      <4>2. CASE up[n] # Doc
        <5>1. up[n] \in live
          BY <1>1, <2>1, <3>1, <4>2, Kinds DEF ParentsLive
        <5> QED BY <2>1, <5>1
      <4> QED BY <4>1, <4>2
    <3> QED BY <1>3, <2>1, <3>1, <3>2
  <2> QED BY <2>2, <2>3
<1>6. live = F \ {Doc}
  BY <1>1, <1>4, <1>5, Kinds
<1>7. \A x \in Container : IsInjective(kids[x]) /\ ToSet(kids[x]) = {m \in live : up[m] = x}
  BY <1>1 DEF ListsMirror
<1>8. live = (UNION {Subtree(r) : r \in {Doc} \cup ToSet(unlinked)}) \ {Doc}
  BY Zenon, <1>6
<1> HIDE DEF F, R
<1> QED BY Zenon, <1>7, <1>8 DEF NothingLost

(* Every node that is allocated is below the document or an unlinked node,  *)
(* and in one list only: Clear and the destructor find it.                  *)
THEOREM NothingIsLost == Spec => []NothingLost
BY FoundFromAbove, TreesAndUnlinked, PTL

(* Only a parse that fails moves the counts of the pools away from the      *)
(* number of unlinked nodes.                                                *)
THEOREM CountsDriftByFailureOnly == Spec => DriftOnlyByFailure
<1>1. TinyInv /\ [Next]_vars => [Drift]_vars
  BY NextTinyInv
<1>2. Drift <=> \/ Lost' = Lost
                \/ Lost' = Lost + 1 /\ phase' = "failing"
                \/ Lost' = 0 /\ phase = "failing" /\ call = "Parse"
  BY DEF Drift
<1>3. TinyInv /\ [Next]_vars
        => [\/ Lost' = Lost
            \/ Lost' = Lost + 1 /\ phase' = "failing"
            \/ Lost' = 0 /\ phase = "failing" /\ call = "Parse"]_vars
  BY <1>1, <1>2
<1> QED BY <1>3, TreesAndUnlinked, PTL DEF Spec, DriftOnlyByFailure

-----------------------------------------------------------------------------
(***************************************************************************)
(* Declarations                                                             *)
(***************************************************************************)

(* Nothing is allocated when Clear has come to its end.                     *)
LEMMA ClearedIsEmpty ==
  ASSUME TinyInv, Cleared
  PROVE  live = {} /\ \A n \in Node : up[n] = Nil
<1>1. /\ live \in SUBSET Node /\ up \in [Node -> Container \cup {Nil}]
      /\ ListsMirror(live, up, kids) /\ ParentsLive(live, up) /\ Grounded(up)
      /\ ToSet(unlinked) = {m \in live : up[m] = Nil}
  BY DEF TinyInv, NodesInv, Trees, UnlinkedIsExact
<1>2. ToSet(unlinked) = {} /\ ToSet(kids[Doc]) = {}
  BY DEF Cleared, ToSet
<1>3. live = {}
  <2> SUFFICES ASSUME live # {} PROVE FALSE
    OBVIOUS
  <2>1. PICK n \in live : up[n] \notin live
    BY <1>1 DEF Grounded
  <2>2. up[n] # Nil
    BY <1>1, <1>2, <2>1
  <2>3. up[n] # Doc
    BY <1>1, <1>2, <2>1, Kinds DEF ListsMirror
  <2> QED BY <1>1, <2>1, <2>2, <2>3, Kinds DEF ParentsLive
<1> QED BY <1>1, <1>3 DEF ParentsLive

(* Appending keeps declarations first if it appends one behind a            *)
(* declaration only.                                                        *)
LEMMA AppendDeclaration ==
  ASSUME NEW s \in Seq(Node), NEW n \in Node,
         \A i, j \in DOMAIN s : i < j /\ s[j] \in Declaration => s[i] \in Declaration,
         n \in Declaration /\ s # << >> => Last(s) \in Declaration
  PROVE  LET t == Append(s, n)
         IN  \A i, j \in DOMAIN t :
               i < j /\ t[j] \in Declaration => t[i] \in Declaration
<1> DEFINE t == Append(s, n)
           L == Len(s)
<1>1. L \in Nat /\ DOMAIN s = 1 .. L /\ DOMAIN t = 1 .. L + 1
  OBVIOUS
<1>2. (\A i \in 1 .. L : t[i] = s[i]) /\ t[L + 1] = n
  OBVIOUS
<1>3. Last(s) = s[L]
  BY DEF Last
<1>4. L # 0 => s # << >>
  OBVIOUS
<1> HIDE DEF t, L
<1>5. ASSUME NEW i \in DOMAIN t, NEW j \in DOMAIN t, i < j, t[j] \in Declaration
      PROVE  t[i] \in Declaration
  <2>1. i \in 1 .. L
    BY <1>1, <1>5
  <2>2. CASE j \in 1 .. L
    BY <1>1, <1>2, <1>5, <2>1, <2>2
  <2>3. CASE j = L + 1
    <3>1. s[L] \in Declaration /\ L \in 1 .. L
      BY <1>1, <1>2, <1>3, <1>4, <1>5, <2>1, <2>3
    <3>2. CASE i = L
      BY <1>2, <2>1, <3>1, <3>2
    <3>3. CASE i # L
      <4>1. i < L /\ i \in DOMAIN s /\ L \in DOMAIN s
        BY <1>1, <2>1, <3>1, <3>3
      <4> QED BY <1>2, <2>1, <3>1, <4>1
    <3> QED BY <3>2, <3>3
  <2> QED BY <1>1, <1>5, <2>2, <2>3
<1> QED BY <1>5 DEF t

LEMMA ReadLeafKeepsDeclarations ==
  ASSUME TinyInv, DeclarationsFirst, NEW n \in Node, ReadLeaf(n)
  PROVE  DeclarationsFirst'
<1>1. /\ phase = "reading" /\ WellLocated(n) /\ n \in Node
      /\ up' = [up EXCEPT ![n] = Top]
      /\ kids' = [kids EXCEPT ![Top] = Append(kids[Top], n)]
  BY DEF ReadLeaf
<1>2. /\ up \in [Node -> Container \cup {Nil}] /\ kids \in [Container -> Seq(Node)]
      /\ Top \in Container
  BY <1>1, TopIsParent, Kinds DEF TinyInv, NodesInv, Trees, Parent
<1>3. /\ \A m \in Declaration : up[m] \in {Doc, Nil}
      /\ \A i, j \in DOMAIN kids[Doc] :
           i < j /\ kids[Doc][j] \in Declaration => kids[Doc][i] \in Declaration
  BY <1>1 DEF DeclarationsFirst
<1>4. n \in Declaration =>
        Top = Doc /\ (kids[Doc] # << >> => Last(kids[Doc]) \in Declaration)
  BY <1>1 DEF WellLocated
<1>5. \A m \in Declaration : up'[m] \in {Doc, Nil}
  <2>1. Declaration \subseteq Node
    BY DEF Node
  <2> QED BY <1>1, <1>2, <1>3, <1>4, <2>1
<1>6. \A i, j \in DOMAIN kids'[Doc] :
        i < j /\ kids'[Doc][j] \in Declaration => kids'[Doc][i] \in Declaration
  <2>1. CASE Top = Doc
    <3>1. kids'[Doc] = Append(kids[Doc], n) /\ kids[Doc] \in Seq(Node)
      BY <1>1, <1>2, <2>1
    <3> QED BY <1>1, <1>3, <1>4, <3>1, AppendDeclaration
  <2>2. CASE Top # Doc
    <3>1. kids'[Doc] = kids[Doc]
      BY <1>1, <1>2, <2>2, Kinds
    <3> QED BY <1>3, <3>1
  <2> QED BY <2>1, <2>2
<1> QED BY <1>5, <1>6 DEF DeclarationsFirst

LEMMA ReadEndTagKeepsDeclarations ==
  ASSUME TinyInv, DeclarationsFirst, NEW matches \in BOOLEAN, ReadEndTag(matches)
  PROVE  DeclarationsFirst'
<1>1. CASE matches = FALSE
  <2>1. phase' = "failing"
    BY <1>1 DEF ReadEndTag
  <2> QED BY <2>1 DEF DeclarationsFirst
<1>2. CASE matches = TRUE
  <2> DEFINE e == Last(open)
             p == IF Len(open) = 1 THEN Doc ELSE open[Len(open) - 1]
  <2>1. /\ e \in Element /\ p \in Container
        /\ Unlinked(kids, e) = kids /\ Insert(p, e, Append(kids[p], e))
    BY <1>2, MatchedEndTag
  <2> HIDE DEF e, p
  <2>2. /\ up \in [Node -> Container \cup {Nil}] /\ kids \in [Container -> Seq(Node)]
        /\ e \in Node
    BY <2>1, Kinds DEF TinyInv, NodesInv, Trees
  <2>3. /\ up' = [up EXCEPT ![e] = p]
        /\ kids' = [kids EXCEPT ![p] = Append(kids[p], e)]
    BY <2>1 DEF Insert
  <2>4. phase = "reading"
    BY <1>2 DEF ReadEndTag
  <2>5. /\ \A m \in Declaration : up[m] \in {Doc, Nil}
        /\ \A i, j \in DOMAIN kids[Doc] :
             i < j /\ kids[Doc][j] \in Declaration => kids[Doc][i] \in Declaration
    BY <2>4 DEF DeclarationsFirst
  <2>6. e \notin Declaration /\ Declaration \subseteq Node
    BY <2>1, TinyAssumption DEF Node
  <2>7. \A m \in Declaration : up'[m] \in {Doc, Nil}
    BY <2>2, <2>3, <2>5, <2>6
  <2>8. \A i, j \in DOMAIN kids'[Doc] :
          i < j /\ kids'[Doc][j] \in Declaration => kids'[Doc][i] \in Declaration
    <3>1. CASE p = Doc
      <4>1. kids'[Doc] = Append(kids[Doc], e) /\ kids[Doc] \in Seq(Node)
        BY <2>1, <2>2, <2>3, <3>1
      <4> QED BY <2>2, <2>5, <2>6, <4>1, AppendDeclaration
    <3>2. CASE p # Doc
      <4>1. kids'[Doc] = kids[Doc]
        BY <2>1, <2>2, <2>3, <3>2, Kinds
      <4> QED BY <2>5, <4>1
    <3> QED BY <3>1, <3>2
  <2> QED BY <2>7, <2>8 DEF DeclarationsFirst
<1> QED BY <1>1, <1>2

(* The steps behind which a document is being read.                         *)
LEMMA NextKeepsDeclarations ==
  TinyInv /\ DeclarationsFirst /\ [Next]_vars => DeclarationsFirst'
<1> SUFFICES ASSUME TinyInv, DeclarationsFirst, [Next]_vars, phase' = "reading"
             PROVE  DeclarationsFirst'
  BY DEF DeclarationsFirst
<1>1. ASSUME phase = "reading", UNCHANGED <<up, kids>>
      PROVE  DeclarationsFirst'
  BY <1>1 DEF DeclarationsFirst
<1>2. ~Editing
  BY DEF Editing, NewNode, DeleteNode, InsertEndChild, InsertFirstChild,
         InsertAfterChild, SetText, DeleteChildren, Idle
<1>3. ~Saving /\ \A c \in Call : ~Begin(c)
  BY DEF Saving, SaveFile, Idle, Begin
<1>4. CASE Clearing
  <2>1. Cleared /\ UNCHANGED <<up, kids>>
    BY <1>4 DEF Clearing, ClearNode, ClearDone, nodeVars
  <2>2. /\ \A n \in Node : up'[n] = Nil
        /\ kids'[Doc] = << >>
    BY <2>1, ClearedIsEmpty DEF Cleared
  <2> QED BY <2>2 DEF DeclarationsFirst, Node
<1>5. CASE Reading
  <2>1. ASSUME NEW n \in Node, ReadLeaf(n)
        PROVE  DeclarationsFirst'
    BY <2>1, ReadLeafKeepsDeclarations
  <2>2. ASSUME NEW e \in Element, ReadStartTag(e)
        PROVE  DeclarationsFirst'
    BY <1>1, <2>2 DEF ReadStartTag
  <2>3. ASSUME NEW matches \in BOOLEAN, ReadEndTag(matches)
        PROVE  DeclarationsFirst'
    BY <2>3, ReadEndTagKeepsDeclarations
  <2>4. ~ReadEnd /\ ~Unwind /\ ~ReadFailed /\ \A n \in Node : ~ReadLeafFails(n)
    BY DEF ReadEnd, Unwind, ReadFailed, ReadLeafFails
  <2> QED BY <1>5, <2>1, <2>2, <2>3, <2>4 DEF Reading
<1>6. CASE UNCHANGED vars
  BY <1>1, <1>6 DEF vars, nodeVars
<1> QED BY <1>2, <1>3, <1>4, <1>5, <1>6 DEF Next

(* Looking at the first and the last child of the document is enough to     *)
(* keep declarations in front of everything else.                           *)
THEOREM DeclarationsComeFirst == Spec => []DeclarationsFirst
<1>1. Init => TinyInv /\ DeclarationsFirst
  BY InitTinyInv DEF Init, DeclarationsFirst
<1>2. TinyInv /\ DeclarationsFirst /\ [Next]_vars => TinyInv' /\ DeclarationsFirst'
  BY NextTinyInv, NextKeepsDeclarations
<1> QED BY <1>1, <1>2, PTL DEF Spec

-----------------------------------------------------------------------------
(***************************************************************************)
(* Nesting                                                                  *)
(***************************************************************************)

(* A leaf hangs one below the innermost open element, and that is at the    *)
(* place of its frame.                                                      *)
LEMMA ReadLeafKeepsDepth ==
  ASSUME TinyInv, DepthBounded, NEW n \in Node, ReadLeaf(n)
  PROVE  DepthBounded'
<1>1. /\ phase = "reading" /\ n \in Node \ live
      /\ live' = live \cup {n} /\ up' = [up EXCEPT ![n] = Top] /\ open' = open
  BY DEF ReadLeaf
<1>2. /\ open \in Seq(Element) /\ IsInjective(open) /\ ToSet(open) \subseteq live
      /\ up \in [Node -> Container \cup {Nil}] /\ ParentsLive(live, up)
      /\ live \in SUBSET Node
  BY <1>1 DEF TinyInv, OpenAreUnlinked, NodesInv, UnlinkedIsExact, Trees
<1>3. Len(open) \in Nat /\ Len(open) + 1 < MaxDepth /\ MaxDepth \in Nat
  BY <1>1, <1>2, TinyAssumption DEF DepthBounded
<1>4. PICK lv \in [Element -> 1 .. MaxDepth - 1] : IsLevel(lv)
  BY <1>1 DEF DepthBounded
<1>5. /\ \A i \in DOMAIN open : lv[open[i]] = i
      /\ \A x \in (live \cap Element) \ ToSet(open) :
           lv[x] = IF up[x] \in Element THEN lv[up[x]] + 1 ELSE 1
  BY <1>4 DEF IsLevel
<1> DEFINE k == Len(open) + 1
<1>6. k \in 1 .. MaxDepth - 1
  BY <1>3
<1>7. [lv EXCEPT ![n] = k] \in [Element -> 1 .. MaxDepth - 1]
  BY <1>4, <1>6
<1>8. PICK new \in [Element -> 1 .. MaxDepth - 1] :
         \A x \in Element : new[x] = IF x = n THEN k ELSE lv[x]
  BY <1>4, <1>7
<1>9. \A i \in DOMAIN open' : new[open'[i]] = i
  <2> SUFFICES ASSUME NEW i \in DOMAIN open PROVE new[open[i]] = i
    BY <1>1
  <2>1. open[i] \in Element /\ open[i] \in ToSet(open)
    BY <1>2 DEF ToSet
  <2>2. open[i] # n
    BY <1>1, <1>2, <2>1
  <2> QED BY <1>5, <1>8, <2>1, <2>2
<1>10. ASSUME NEW x \in (live' \cap Element) \ ToSet(open')
       PROVE  new[x] = IF up'[x] \in Element THEN new[up'[x]] + 1 ELSE 1
  <2>1. CASE x = n
    <3>1. up'[x] = Top /\ new[x] = k
      BY <1>1, <1>2, <1>8, <2>1
    <3>2. CASE open = << >>
      BY <3>1, <3>2, Kinds DEF Top
    <3>3. CASE open # << >>
      <4>1. /\ Top = open[Len(open)] /\ Len(open) \in DOMAIN open
            /\ Top \in Element /\ Top \in live
        BY <1>1, <1>2, <3>3, TopIsParent DEF Top, Last
      <4>2. lv[Top] = Len(open) /\ new[Top] = lv[Top]
        BY <1>1, <1>5, <1>8, <4>1
      <4> QED BY <3>1, <4>1, <4>2
    <3> QED BY <3>2, <3>3
  <2>2. CASE x # n
    <3>1. x \in (live \cap Element) \ ToSet(open) /\ up'[x] = up[x] /\ new[x] = lv[x]
      BY <1>1, <1>2, <1>8, <1>10, <2>2
    <3>2. up[x] \in Element => up[x] # n
      BY <1>1, <1>2, <3>1 DEF ParentsLive
    <3> QED BY <1>5, <1>8, <3>1, <3>2
  <2> QED BY <2>1, <2>2
<1>11. IsLevel(new)'
  BY <1>9, <1>10 DEF IsLevel
<1> QED BY <1>1, <1>3, <1>8, <1>11 DEF DepthBounded

(* A start tag opens a frame only while the limit is not reached.           *)
LEMMA ReadStartTagKeepsDepth ==
  ASSUME TinyInv, DepthBounded, NEW e \in Element, ReadStartTag(e)
  PROVE  DepthBounded'
<1> SUFFICES ASSUME phase' = "reading" PROVE DepthBounded'
  BY DEF DepthBounded
<1>1. /\ phase = "reading" /\ e \in Node \ live
      /\ live' = live \cup {e} /\ up' = up /\ open' = Append(open, e)
      /\ Len(open) + 2 # MaxDepth
  BY Kinds DEF ReadStartTag, TooDeep
<1>2. /\ open \in Seq(Element) /\ ToSet(open) \subseteq live
      /\ up \in [Node -> Container \cup {Nil}] /\ ParentsLive(live, up)
  BY <1>1 DEF TinyInv, OpenAreUnlinked, NodesInv, UnlinkedIsExact, Trees
<1>3. Len(open) \in Nat /\ Len(open) + 1 < MaxDepth /\ MaxDepth \in Nat
  BY <1>1, <1>2, TinyAssumption DEF DepthBounded
<1>4. PICK lv \in [Element -> 1 .. MaxDepth - 1] : IsLevel(lv)
  BY <1>1 DEF DepthBounded
<1>5. /\ \A i \in DOMAIN open : lv[open[i]] = i
      /\ \A x \in (live \cap Element) \ ToSet(open) :
           lv[x] = IF up[x] \in Element THEN lv[up[x]] + 1 ELSE 1
  BY <1>4 DEF IsLevel
<1> DEFINE k == Len(open) + 1
<1>6. /\ k \in 1 .. MaxDepth - 1 /\ DOMAIN open' = 1 .. k /\ open'[k] = e
      /\ DOMAIN open = 1 .. k - 1 /\ \A i \in 1 .. k - 1 : open'[i] = open[i]
      /\ Len(open') = k /\ k + 1 < MaxDepth
  BY <1>1, <1>2, <1>3
<1>7. [lv EXCEPT ![e] = k] \in [Element -> 1 .. MaxDepth - 1]
  BY <1>4, <1>6
<1>8. PICK new \in [Element -> 1 .. MaxDepth - 1] :
         \A x \in Element : new[x] = IF x = e THEN k ELSE lv[x]
  BY <1>4, <1>7
<1>9. ToSet(open) \cup {e} = ToSet(open')
  BY <1>6, <1>1, <1>2 DEF ToSet
<1> HIDE DEF k
<1>10. \A i \in DOMAIN open' : new[open'[i]] = i
  <2> SUFFICES ASSUME NEW i \in 1 .. k PROVE new[open'[i]] = i
    BY <1>6
  <2>1. CASE i = k
    BY <1>6, <1>8, <2>1
  <2>2. CASE i # k
    <3>1. i \in 1 .. k - 1
      BY <1>6, <2>2
    <3>2. /\ open[i] \in Element /\ open[i] \in ToSet(open)
          /\ open'[i] = open[i] /\ i \in DOMAIN open
      <4>1. i \in DOMAIN open /\ open'[i] = open[i]
        BY <1>6, <3>1
      <4>2. open[i] \in Element
        BY <1>2, <4>1
      <4> QED BY <4>1, <4>2 DEF ToSet
    <3>3. open[i] # e
      BY <1>1, <1>2, <3>2
    <3>4. lv[open[i]] = i
      BY <1>5, <3>2
    <3> QED BY <1>8, <3>2, <3>3, <3>4
  <2> QED BY <2>1, <2>2
<1>11. ASSUME NEW x \in (live' \cap Element) \ ToSet(open')
       PROVE  new[x] = IF up'[x] \in Element THEN new[up'[x]] + 1 ELSE 1
  <2>1. x \in (live \cap Element) \ ToSet(open) /\ x # e /\ up'[x] = up[x]
    BY <1>1, <1>9
  <2>2. up[x] \in Element => up[x] # e
    BY <1>1, <1>2, <2>1, Kinds DEF ParentsLive
  <2> QED BY <1>5, <1>8, <2>1, <2>2
<1>12. IsLevel(new)'
  BY <1>10, <1>11 DEF IsLevel
<1> QED BY <1>6, <1>8, <1>12 DEF DepthBounded

(* An end tag leaves every element at its level: the one that is inserted   *)
(* hangs below the frame outside its own.                                   *)
LEMMA ReadEndTagKeepsDepth ==
  ASSUME TinyInv, DepthBounded, ReadEndTag(TRUE)
  PROVE  DepthBounded'
<1> DEFINE e == Last(open)
           L == Len(open)
           p == IF L = 1 THEN Doc ELSE open[L - 1]
<1>1. /\ phase = "reading" /\ open # << >> /\ open' = Front(open) /\ live' = live
      /\ up' = [up EXCEPT ![e] = p]
  BY DEF ReadEndTag, Insert
<1>2. /\ open \in Seq(Element) /\ IsInjective(open) /\ ToSet(open) \subseteq live
      /\ up \in [Node -> Container \cup {Nil}]
      /\ \A x \in ToSet(open) : up[x] = Nil
  BY <1>1 DEF TinyInv, OpenAreUnlinked, NodesInv, UnlinkedIsExact, Trees
<1>3. L \in Nat \ {0} /\ DOMAIN open = 1 .. L /\ L + 1 < MaxDepth /\ MaxDepth \in Nat
  BY <1>1, <1>2, LengthOfList, TinyAssumption DEF DepthBounded
<1>4. PICK lv \in [Element -> 1 .. MaxDepth - 1] : IsLevel(lv)
  BY <1>1 DEF DepthBounded
<1>5. /\ \A i \in DOMAIN open : lv[open[i]] = i
      /\ \A x \in (live \cap Element) \ ToSet(open) :
           lv[x] = IF up[x] \in Element THEN lv[up[x]] + 1 ELSE 1
  BY <1>4 DEF IsLevel
<1>6. /\ e \in Element /\ e \in ToSet(open) /\ e = open[L] /\ lv[e] = L
      /\ open' \in Seq(Element) /\ Len(open') = L - 1 /\ ToSet(open') = ToSet(open) \ {e}
  <2>1. e = open[L] /\ L \in DOMAIN open
    BY <1>3 DEF Last
  <2> QED BY <1>1, <1>2, <1>5, <2>1, FrontMembers
<1>7. DOMAIN open' = 1 .. L - 1 /\ \A i \in 1 .. L - 1 : open'[i] = open[i]
  <2>1. open' = SubSeq(open, 1, L - 1)
    BY <1>1 DEF Front
  <2> QED BY <1>2, <1>3, <2>1
<1>8. \/ p = Doc /\ L = 1
      \/ p \in Element /\ lv[p] = L - 1 /\ L # 1
  <2>1. CASE L # 1
    <3>1. L - 1 \in DOMAIN open
      BY <1>3, <2>1
    <3>2. open[L - 1] \in Element /\ lv[open[L - 1]] = L - 1
      BY <1>2, <1>5, <3>1
    <3> QED BY <2>1, <3>2
  <2> QED BY <2>1
<1> HIDE DEF e, L, p
<1>9. \A i \in DOMAIN open' : lv[open'[i]] = i
  BY <1>3, <1>5, <1>7
<1>10. ASSUME NEW x \in (live' \cap Element) \ ToSet(open')
       PROVE  lv[x] = IF up'[x] \in Element THEN lv[up'[x]] + 1 ELSE 1
  <2>1. CASE x = e
    <3>1. up'[x] = p
      BY <1>1, <1>2, <1>6, <2>1, Kinds
    <3> QED BY <1>3, <1>6, <1>8, <2>1, <3>1, Kinds
  <2>2. CASE x # e
    <3>1. x \in (live \cap Element) \ ToSet(open)
      BY <1>1, <1>6, <1>10, <2>2
    <3>2. up'[x] = up[x]
      BY <1>1, <1>2, <2>2, <3>1, Kinds
    <3> QED BY <1>5, <3>1, <3>2
  <2> QED BY <2>1, <2>2
<1>11. IsLevel(lv)'
  BY <1>9, <1>10 DEF IsLevel
<1>12. Len(open') + 1 < MaxDepth
  BY <1>3, <1>6
<1> QED BY <1>4, <1>11, <1>12 DEF DepthBounded

(* Each step behind which a document is being read.                         *)
LEMMA NextKeepsDepth == TinyInv /\ DepthBounded /\ [Next]_vars => DepthBounded'
<1> SUFFICES ASSUME TinyInv, DepthBounded, [Next]_vars, phase' = "reading"
             PROVE  DepthBounded'
  BY DEF DepthBounded
<1>1. ~Editing
  BY DEF Editing, NewNode, DeleteNode, InsertEndChild, InsertFirstChild,
         InsertAfterChild, SetText, DeleteChildren, Idle
<1>2. ~Saving /\ \A c \in Call : ~Begin(c)
  BY DEF Saving, SaveFile, Idle, Begin
<1>3. CASE Clearing
  <2>1. Cleared /\ UNCHANGED <<live, open>> /\ phase = "clearing"
    BY <1>3 DEF Clearing, ClearNode, ClearDone, nodeVars, Cleared
  <2>2. live' = {} /\ open' = << >>
    BY <2>1, ClearedIsEmpty DEF TinyInv, OpenAreUnlinked
  <2>3. Len(open') = 0 /\ DOMAIN open' = {} /\ 1 \in 1 .. MaxDepth - 1 /\ 0 + 1 < MaxDepth
    BY <2>2, TinyAssumption
  <2> DEFINE lv == [e \in Element |-> 1]
  <2>4. lv \in [Element -> 1 .. MaxDepth - 1]
    BY <2>3
  <2>5. IsLevel(lv)'
    BY <2>2, <2>3 DEF IsLevel
  <2> QED BY <2>3, <2>4, <2>5 DEF DepthBounded
<1>4. CASE Reading
  <2>1. ASSUME NEW n \in Node, ReadLeaf(n)
        PROVE  DepthBounded'
    BY <2>1, ReadLeafKeepsDepth
  <2>2. ASSUME NEW e \in Element, ReadStartTag(e)
        PROVE  DepthBounded'
    BY <2>2, ReadStartTagKeepsDepth
  <2>3. ASSUME NEW matches \in BOOLEAN, ReadEndTag(matches)
        PROVE  DepthBounded'
    <3>1. matches = TRUE
      BY <2>3 DEF ReadEndTag
    <3> QED BY <2>3, <3>1, ReadEndTagKeepsDepth
  <2>4. ~ReadEnd /\ ~Unwind /\ ~ReadFailed /\ \A n \in Node : ~ReadLeafFails(n)
    BY DEF ReadEnd, Unwind, ReadFailed, ReadLeafFails
  <2> QED BY <1>4, <2>1, <2>2, <2>3, <2>4 DEF Reading
<1>5. CASE UNCHANGED vars
  BY <1>5 DEF vars, nodeVars, DepthBounded, IsLevel
<1> QED BY <1>1, <1>2, <1>3, <1>4, <1>5 DEF Next

(* The limit of the parser's own recursion bounds the depth of the tree it  *)
(* builds, whatever the limit is and however long the input.                *)
THEOREM NestingIsBounded == Spec => []DepthBounded
<1>1. Init => TinyInv /\ DepthBounded
  BY InitTinyInv DEF Init, DepthBounded
<1>2. TinyInv /\ DepthBounded /\ [Next]_vars => TinyInv' /\ DepthBounded'
  BY NextTinyInv, NextKeepsDepth
<1> QED BY <1>1, <1>2, PTL DEF Spec
=============================================================================
