--------------------------- MODULE PocoNodes_proofs ---------------------------
(***************************************************************************)
(* Proofs about PocoNodes: for every number of nodes, every bound and       *)
(* every sequence of calls the counts are exact, nothing dangles, nothing   *)
(* leaks, and the tree frees nothing.                                       *)
(*                                                                          *)
(* The argument is about one graph, from each object to what its destructor *)
(* releases. A call regrafts it, skips a cell of a chain or prunes it; the  *)
(* first part of the module says what each of the three does to a graph in  *)
(* which every object has at most one holder and no cycle is held by itself.*)
(***************************************************************************)
EXTENDS PocoNodes, Integers, FiniteSetTheorems, TLAPS

(* What the destructors release, as one function.                           *)
Graph == [x \in Object |-> Refs(x)]

(* Nobody is released by two destructors.                                   *)
OneHolder(R) == \A x, y, z \in Object : x \in R[y] /\ x \in R[z] => y = z

(* Every set has a member that no member releases.                          *)
Acyclic(R) == \A S \in SUBSET Object : S # {} => \E x \in S : \A y \in S : x \notin R[y]

(* The owners x has in the graph.                                           *)
Owned(R, x) == IF \E y \in Object : x \in R[y] THEN 1 ELSE 0

(* p takes over the members of N; the others of M are left to nobody.       *)
Regrafted(R, R2, p, M, N) ==
  /\ R \in [Object -> SUBSET Object]
  /\ R2 \in [Object -> SUBSET Object]
  /\ p \in Object
  /\ N \subseteq M /\ N \subseteq Object
  /\ \A y \in Object : R2[y] = (R[y] \ M) \cup (IF y = p THEN N ELSE {})

(* After a regraft every object has one holder at most, and it is clear who *)
(* has one.                                                                 *)
LEMMA RegraftHolders ==
  ASSUME NEW R, NEW R2, NEW p, NEW M, NEW N, Regrafted(R, R2, p, M, N), OneHolder(R)
  PROVE  /\ OneHolder(R2)
         /\ \A x \in Object :
              Owned(R2, x) = IF x \in N THEN 1 ELSE IF x \in M THEN 0 ELSE Owned(R, x)
<1>1. ASSUME NEW x \in Object, NEW y \in Object
      PROVE  x \in R2[y] <=> (x \in R[y] /\ x \notin M) \/ (y = p /\ x \in N)
  BY DEF Regrafted
<1>2. N \subseteq M /\ p \in Object
  BY DEF Regrafted
<1>3. OneHolder(R2)
  BY <1>1, <1>2 DEF OneHolder
<1>4. ASSUME NEW x \in Object
      PROVE  Owned(R2, x) = IF x \in N THEN 1 ELSE IF x \in M THEN 0 ELSE Owned(R, x)
  BY <1>1, <1>2 DEF Owned
<1> QED BY <1>3, <1>4

(* A regraft closes no cycle if p is outside a set that holds N and all     *)
(* that is below it.                                                        *)
LEMMA RegraftAcyclic ==
  ASSUME NEW R, NEW R2, NEW p, NEW M, NEW N, Regrafted(R, R2, p, M, N), Acyclic(R),
         NEW K, N \subseteq K, p \notin K, \A y \in Object \cap K : R[y] \subseteq K
  PROVE  Acyclic(R2)
<1> SUFFICES ASSUME NEW S \in SUBSET Object, S # {},
                    \A x \in S : \E y \in S : x \in R2[y]
             PROVE  FALSE
  BY DEF Acyclic
<1>1. ASSUME NEW x \in Object, NEW y \in Object
      PROVE  x \in R2[y] <=> (x \in R[y] /\ x \notin M) \/ (y = p /\ x \in N)
  BY DEF Regrafted
<1>2. PICK x0 \in S : \A y \in S : x0 \notin R[y]
  BY DEF Acyclic
<1>3. p \in S
  BY <1>1, <1>2
<1> DEFINE T == S \ K
<1>4. T \in SUBSET Object /\ T # {}
  BY <1>3
<1>5. PICK x \in T : \A y \in T : x \notin R[y]
  BY <1>4 DEF Acyclic
<1>6. PICK y \in S : x \in R2[y]
  BY <1>5
<1>7. x \in R[y] /\ x \notin K
  BY <1>1, <1>5, <1>6
<1>8. y \notin K
  BY <1>7
<1> QED BY <1>5, <1>7, <1>8

(* Nor does a step past o, from its holder p to what o releases.            *)
LEMMA SkipAcyclic ==
  ASSUME NEW R, NEW R2, NEW p, NEW o \in Object, NEW N, NEW M, M = N \cup {o},
         Regrafted(R, R2, p, M, N), Acyclic(R), o \in R[p], N \subseteq R[o]
  PROVE  Acyclic(R2)
<1> SUFFICES ASSUME NEW S \in SUBSET Object, S # {},
                    \A x \in S : \E y \in S : x \in R2[y]
             PROVE  FALSE
  BY DEF Acyclic
<1>1. ASSUME NEW x \in Object, NEW y \in Object
      PROVE  x \in R2[y] <=> (x \in R[y] /\ x \notin M) \/ (y = p /\ x \in N)
  BY DEF Regrafted
<1>2. PICK x0 \in S : \A y \in S : x0 \notin R[y]
  BY DEF Acyclic
<1>3. p \in S
  BY <1>1, <1>2
<1> DEFINE T == S \cup {o}
<1>4. T \in SUBSET Object /\ T # {}
  OBVIOUS
<1>5. PICK x \in T : \A y \in T : x \notin R[y]
  BY <1>4 DEF Acyclic
<1>6. x \in S /\ x # o
  BY <1>3, <1>5
<1>7. PICK y \in S : x \in R2[y]
  BY <1>6
<1>8. x \in R[y] \/ x \in N
  BY <1>1, <1>7
<1> QED BY <1>5, <1>6, <1>8

(* What has fewer edges has no more holders and no more cycles.             *)
LEMMA PrunedGraph ==
  ASSUME NEW R, NEW R2, \A y \in Object : R2[y] \subseteq R[y]
  PROVE  (OneHolder(R) => OneHolder(R2)) /\ (Acyclic(R) => Acyclic(R2))
<1>1. OneHolder(R) => OneHolder(R2)
  BY DEF OneHolder
<1>2. Acyclic(R) => Acyclic(R2)
  <2> SUFFICES ASSUME Acyclic(R), NEW S \in SUBSET Object, S # {}
               PROVE  \E x \in S : \A y \in S : x \notin R2[y]
    BY DEF Acyclic
  <2>1. PICK x \in S : \A y \in S : x \notin R[y]
    BY DEF Acyclic
  <2> QED BY <2>1
<1> QED BY <1>1, <1>2

-----------------------------------------------------------------------------
(***************************************************************************)
(* The invariant                                                            *)
(***************************************************************************)

(* The counts, with the graph's owners for the number of holders.           *)
CountsMatch ==
  \A x \in Object :
    /\ rc[x] = held[x] + (IF x = Doc THEN 0 ELSE pool[x]) + Owned(Graph, x)
    /\ x \in alive <=> rc[x] > 0

(* Parents and lists of children agree, and a node without an element is in *)
(* no chain of attributes.                                                  *)
LinksMatch ==
  /\ \A p \in Container : IsInjective(kids[p]) /\ \A c \in ToSet(kids[p]) : up[c] = p
  /\ \A n \in Child \cup Fragment :
       up[n] # Nil => up[n] \in Container /\ n \in ToSet(kids[up[n]])
  /\ \A a \in Attr :
       up[a] = Nil => nextAttr[a] = Nil /\ \A y \in Object : a \notin Graph[y]

(* What is deleted, or not yet constructed, has nothing and is nowhere.     *)
DeadIsBare ==
  \A x \in Object \ alive : Graph[x] = {} /\ (x \in Node => up[x] = Nil)

(* Only a living document pools anything.                                   *)
PoolHasDocument == \A n \in Node : pool[n] > 0 => Doc \in alive

(* The inductive invariant.                                                 *)
OwnershipInv ==
  /\ TypeOK
  /\ CountsMatch
  /\ LinksMatch
  /\ DeadIsBare
  /\ PoolHasDocument
  /\ OneHolder(Graph)
  /\ Acyclic(Graph)

-----------------------------------------------------------------------------
(***************************************************************************)
(* Lists of children                                                        *)
(***************************************************************************)

(* Two lists without repetition and without common members, one behind the  *)
(* other.                                                                   *)
LEMMA ConcatMembers ==
  ASSUME NEW S, NEW s \in Seq(S), NEW t \in Seq(S)
  PROVE  /\ s \o t \in Seq(S)
         /\ ToSet(s \o t) = ToSet(s) \cup ToSet(t)
         /\ IsInjective(s) /\ IsInjective(t) /\ ToSet(s) \cap ToSet(t) = {}
              => IsInjective(s \o t)
<1> DEFINE c == s \o t
<1>1. /\ c \in Seq(S) /\ Len(c) = Len(s) + Len(t)
      /\ \A i \in 1 .. Len(s) + Len(t) :
            c[i] = IF i <= Len(s) THEN s[i] ELSE t[i - Len(s)]
  OBVIOUS
<1>2. /\ Len(s) \in Nat /\ Len(t) \in Nat
      /\ DOMAIN s = 1 .. Len(s) /\ DOMAIN t = 1 .. Len(t)
      /\ DOMAIN c = 1 .. Len(s) + Len(t)
  BY <1>1
<1> HIDE DEF c
<1>3. ASSUME NEW i \in DOMAIN c
      PROVE  c[i] \in ToSet(s) \cup ToSet(t)
  <2>1. CASE i <= Len(s)
    BY <1>1, <1>2, <2>1 DEF ToSet
  <2>2. CASE i > Len(s)
    BY <1>1, <1>2, <2>2 DEF ToSet
  <2> QED BY <1>2, <2>1, <2>2
<1>4. ASSUME NEW i \in DOMAIN s
      PROVE  i \in DOMAIN c /\ c[i] = s[i]
  BY <1>1, <1>2
<1>5. ASSUME NEW i \in DOMAIN t
      PROVE  Len(s) + i \in DOMAIN c /\ c[Len(s) + i] = t[i]
  BY <1>1, <1>2
<1>6. ToSet(c) = ToSet(s) \cup ToSet(t)
  BY <1>3, <1>4, <1>5 DEF ToSet
<1>7. ASSUME IsInjective(s), IsInjective(t), ToSet(s) \cap ToSet(t) = {},
             NEW i \in DOMAIN c, NEW j \in DOMAIN c, c[i] = c[j]
      PROVE  i = j
  <2>1. CASE i <= Len(s) /\ j <= Len(s)
    BY <1>1, <1>2, <1>7, <2>1 DEF IsInjective
  <2>2. CASE i > Len(s) /\ j > Len(s)
    <3>1. i - Len(s) \in DOMAIN t /\ j - Len(s) \in DOMAIN t
      BY <1>2, <2>2
    <3>2. t[i - Len(s)] = t[j - Len(s)]
      BY <1>1, <1>2, <1>7, <2>2
    <3>3. i - Len(s) = j - Len(s)
      BY <1>7, <3>1, <3>2 DEF IsInjective
    <3> QED BY <1>2, <3>3
  <2>3. ASSUME NEW k \in DOMAIN c, k <= Len(s)
        PROVE  c[k] \in ToSet(s)
    <3>1. k \in DOMAIN s /\ c[k] = s[k]
      BY <1>1, <1>2, <2>3
    <3> QED BY <3>1 DEF ToSet
  <2>4. ASSUME NEW k \in DOMAIN c, k > Len(s)
        PROVE  c[k] \in ToSet(t)
    <3>1. k - Len(s) \in DOMAIN t /\ c[k] = t[k - Len(s)]
      BY <1>1, <1>2, <2>4
    <3> QED BY <3>1 DEF ToSet
  <2>5. ~(i <= Len(s) /\ j > Len(s)) /\ ~(i > Len(s) /\ j <= Len(s))
    BY <1>7, <2>3, <2>4
  <2> QED BY <1>2, <2>1, <2>2, <2>5
<1>8. IsInjective(s) /\ IsInjective(t) /\ ToSet(s) \cap ToSet(t) = {} => IsInjective(c)
  BY <1>7 DEF IsInjective
<1> QED BY <1>1, <1>6, <1>8 DEF c

(* A list cut behind its n-th member.                                       *)
LEMMA CutMembers ==
  ASSUME NEW S, NEW s \in Seq(S), NEW n \in 0 .. Len(s)
  PROVE  LET a == SubSeq(s, 1, n)
             b == SubSeq(s, n + 1, Len(s))
         IN  /\ a \in Seq(S) /\ b \in Seq(S)
             /\ ToSet(a) = {s[i] : i \in 1 .. n}
             /\ ToSet(a) \cup ToSet(b) = ToSet(s)
             /\ IsInjective(s) =>
                  IsInjective(a) /\ IsInjective(b) /\ ToSet(a) \cap ToSet(b) = {}
<1> DEFINE a == SubSeq(s, 1, n)
           b == SubSeq(s, n + 1, Len(s))
<1>1. /\ a \in Seq(S) /\ Len(a) = n /\ \A i \in 1 .. n : a[i] = s[i]
      /\ DOMAIN a = 1 .. n
  OBVIOUS
<1>2. /\ b \in Seq(S) /\ Len(b) = Len(s) - n
      /\ \A i \in 1 .. Len(s) - n : b[i] = s[n + i]
      /\ DOMAIN b = 1 .. Len(s) - n
  OBVIOUS
<1>3. n \in Nat /\ n <= Len(s) /\ Len(s) \in Nat /\ DOMAIN s = 1 .. Len(s)
  OBVIOUS
<1> HIDE DEF a, b
<1>4. ToSet(a) = {s[i] : i \in 1 .. n}
  BY <1>1 DEF ToSet
<1>5. ASSUME NEW i \in DOMAIN s
      PROVE  s[i] \in ToSet(a) \cup ToSet(b)
  <2>1. CASE i <= n
    BY <1>1, <1>3, <2>1 DEF ToSet
  <2>2. CASE i > n
    <3>1. i - n \in 1 .. Len(s) - n /\ n + (i - n) = i
      BY <1>3, <2>2
    <3> QED BY <1>2, <3>1 DEF ToSet
  <2> QED BY <1>3, <2>1, <2>2
<1>6. \A i \in DOMAIN a : i \in DOMAIN s /\ a[i] = s[i]
  BY <1>1, <1>3
<1>7. \A i \in DOMAIN b : n + i \in DOMAIN s /\ b[i] = s[n + i]
  BY <1>2, <1>3
<1>8. ToSet(a) \cup ToSet(b) = ToSet(s)
  BY <1>5, <1>6, <1>7 DEF ToSet
<1>9. ASSUME IsInjective(s)
      PROVE  IsInjective(a) /\ IsInjective(b) /\ ToSet(a) \cap ToSet(b) = {}
  <2>1. IsInjective(a)
    BY <1>6, <1>9 DEF IsInjective
  <2>2. ASSUME NEW i \in DOMAIN b, NEW j \in DOMAIN b, b[i] = b[j]
        PROVE  i = j
    <3>1. n + i = n + j
      BY <1>7, <1>9, <2>2 DEF IsInjective
    <3> QED BY <1>2, <1>3, <3>1
  <2>3. ASSUME NEW i \in DOMAIN a, NEW j \in DOMAIN b, a[i] = b[j]
        PROVE  FALSE
    <3>1. i = n + j
      BY <1>6, <1>7, <1>9, <2>3 DEF IsInjective
    <3> QED BY <1>1, <1>2, <1>3, <3>1
  <2> QED BY <2>1, <2>2, <2>3 DEF IsInjective, ToSet
<1> QED BY <1>1, <1>2, <1>4, <1>8, <1>9 DEF a, b

(* A list that loses its i-th member.                                       *)
LEMMA RemoveAtMembers ==
  ASSUME NEW S, NEW s \in Seq(S), IsInjective(s), NEW i \in DOMAIN s
  PROVE  LET t == RemoveAt(s, i)
         IN  t \in Seq(S) /\ ToSet(t) = ToSet(s) \ {s[i]} /\ IsInjective(t)
<1> DEFINE x == s[i]
           a == SubSeq(s, 1, i - 1)
           m == SubSeq(s, i, Len(s))
           h == SubSeq(s, 1, i)
           b == SubSeq(s, i + 1, Len(s))
<1>1. i \in DOMAIN s /\ s[i] = x
  OBVIOUS
<1>2. DOMAIN s = 1 .. Len(s) /\ Len(s) \in Nat
  OBVIOUS
<1> HIDE DEF x
<1>3. i \in 0 .. Len(s) /\ i - 1 \in 0 .. Len(s) /\ (i - 1) + 1 = i /\ i \in Nat
  BY <1>1, <1>2
<1>4. /\ a \in Seq(S) /\ IsInjective(a) /\ ToSet(a) = {s[j] : j \in 1 .. i - 1}
  BY <1>3, CutMembers
<1>5. /\ b \in Seq(S) /\ IsInjective(b) /\ ToSet(h) = {s[j] : j \in 1 .. i}
      /\ ToSet(h) \cup ToSet(b) = ToSet(s) /\ ToSet(h) \cap ToSet(b) = {}
  BY <1>3, CutMembers
<1>6. ToSet(h) = ToSet(a) \cup {x}
  <2>1. 1 .. i = (1 .. i - 1) \cup {i}
    BY <1>1, <1>2
  <2> QED BY <1>1, <1>4, <1>5, <2>1
<1>7. x \notin ToSet(a)
  <2> SUFFICES ASSUME NEW j \in 1 .. i - 1, s[j] = x PROVE FALSE
    BY <1>4
  <2>1. j \in DOMAIN s /\ j # i
    BY <1>1, <1>2
  <2> QED BY <1>1, <2>1 DEF IsInjective
<1>8. ToSet(a) \cap ToSet(b) = {} /\ ToSet(a) \cup ToSet(b) = ToSet(s) \ {x}
  BY <1>5, <1>6, <1>7
<1> HIDE DEF a, b
<1>9. a \o b \in Seq(S) /\ ToSet(a \o b) = ToSet(s) \ {x} /\ IsInjective(a \o b)
  BY <1>4, <1>5, <1>8, ConcatMembers
<1>10. RemoveAt(s, i) = a \o b
  BY DEF RemoveAt, a, b
<1> QED BY <1>9, <1>10 DEF x

(* A member of a list stands at its position.                               *)
LEMMA PositionOfMember ==
  ASSUME NEW s, NEW x \in ToSet(s)
  PROVE  Position(s, x) \in DOMAIN s /\ s[Position(s, x)] = x
BY DEF Position, ToSet

(* removeChild: the list loses the one member.                              *)
LEMMA RemoveMembers ==
  ASSUME NEW S, NEW s \in Seq(S), IsInjective(s), NEW x \in ToSet(s)
  PROVE  LET t == RemoveAt(s, Position(s, x))
         IN  t \in Seq(S) /\ ToSet(t) = ToSet(s) \ {x} /\ IsInjective(t)
BY PositionOfMember, RemoveAtMembers

(* insertBefore: the list gains the arrivals, wherever they are placed.     *)
LEMMA PlacedMembers ==
  ASSUME NEW S, NEW s \in Seq(S), NEW ms \in Seq(S), IsInjective(s), IsInjective(ms),
         ToSet(s) \cap ToSet(ms) = {}, NEW r, r # Nil => r \in ToSet(s)
  PROVE  /\ Placed(s, ms, r) \in Seq(S)
         /\ ToSet(Placed(s, ms, r)) = ToSet(s) \cup ToSet(ms)
         /\ IsInjective(Placed(s, ms, r))
<1>1. CASE r = Nil
  BY <1>1, ConcatMembers DEF Placed
<1>2. CASE r # Nil
  <2> DEFINE i == Position(s, r)
             a == SubSeq(s, 1, i - 1)
             b == SubSeq(s, i, Len(s))
             am == a \o ms
  <2>1. i \in DOMAIN s
    BY <1>2, PositionOfMember
  <2>2. DOMAIN s = 1 .. Len(s) /\ Len(s) \in Nat
    OBVIOUS
  <2> HIDE DEF i
  <2>3. i - 1 \in 0 .. Len(s) /\ (i - 1) + 1 = i
    BY <2>1, <2>2
  <2>4. /\ a \in Seq(S) /\ b \in Seq(S) /\ IsInjective(a) /\ IsInjective(b)
        /\ ToSet(a) \cup ToSet(b) = ToSet(s) /\ ToSet(a) \cap ToSet(b) = {}
    BY <2>3, CutMembers
  <2> HIDE DEF a, b
  <2>5. am \in Seq(S) /\ ToSet(am) = ToSet(a) \cup ToSet(ms) /\ IsInjective(am)
    BY <2>4, ConcatMembers
  <2> HIDE DEF am
  <2>6. /\ am \o b \in Seq(S) /\ ToSet(am \o b) = ToSet(am) \cup ToSet(b)
        /\ IsInjective(am \o b)
    BY <2>4, <2>5, ConcatMembers
  <2>7. Placed(s, ms, r) = am \o b
    BY <1>2 DEF Placed, am, a, b, i
  <2> QED BY <2>4, <2>5, <2>6, <2>7
<1> QED BY <1>1, <1>2

(* replaceChild: one member takes the place of another.                     *)
LEMMA ReplacedMembers ==
  ASSUME NEW S, NEW s \in Seq(S), IsInjective(s), NEW x \in ToSet(s),
         NEW n \in S, n \notin ToSet(s)
  PROVE  LET t == [s EXCEPT ![Position(s, x)] = n]
         IN  t \in Seq(S) /\ ToSet(t) = (ToSet(s) \ {x}) \cup {n} /\ IsInjective(t)
<1> DEFINE i == Position(s, x)
           t == [s EXCEPT ![i] = n]
<1>1. i \in DOMAIN s /\ s[i] = x
  BY PositionOfMember
<1> HIDE DEF i
<1>2. t \in Seq(S) /\ DOMAIN t = DOMAIN s
  BY <1>1
<1>3. \A j \in DOMAIN s : t[j] = IF j = i THEN n ELSE s[j]
  OBVIOUS
<1> HIDE DEF t
<1>4. ToSet(t) = (ToSet(s) \ {x}) \cup {n}
  BY <1>1, <1>2, <1>3 DEF ToSet, IsInjective
<1>5. IsInjective(t)
  BY <1>1, <1>2, <1>3 DEF ToSet, IsInjective
<1> QED BY <1>2, <1>4, <1>5 DEF t, i

-----------------------------------------------------------------------------
(***************************************************************************)
(* The graph and the counts                                                 *)
(***************************************************************************)

(* Who releases what, link by link.                                         *)
GraphOfLinks ==
  \A x, y \in Object :
    y \in Graph[x] <=>
      \/ x \in Container /\ y \in ToSet(kids[x])
      \/ x \in Element /\ y = firstAttr[x]
      \/ x \in Attr /\ y = nextAttr[x]

(* The graph has the links of the lists and of the attribute chains.        *)
LEMMA Edges == GraphOfLinks
<1> SUFFICES ASSUME NEW x \in Object, NEW y \in Object
             PROVE  y \in Graph[x] <=>
                      \/ x \in Container /\ y \in ToSet(kids[x])
                      \/ x \in Element /\ y = firstAttr[x]
                      \/ x \in Attr /\ y = nextAttr[x]
  BY DEF GraphOfLinks
<1>1. Graph[x] = Refs(x)
  BY DEF Graph
<1> QED BY <1>1, PocoAssumption DEF Refs

(* Children are in lists only, attributes in chains only.                   *)
LEMMA EdgesByKind ==
  TypeOK => \A x, y \in Object :
    /\ y \in Child => (y \in Graph[x] <=> x \in Container /\ y \in ToSet(kids[x]))
    /\ y \notin Child =>
         (y \in Graph[x] <=> (x \in Element /\ y = firstAttr[x]) \/ (x \in Attr /\ y = nextAttr[x]))
    /\ y \in Fragment \cup {Doc} => y \notin Graph[x]
<1> SUFFICES ASSUME TypeOK, NEW x \in Object, NEW y \in Object
             PROVE  /\ y \in Child => (y \in Graph[x] <=> x \in Container /\ y \in ToSet(kids[x]))
                    /\ y \notin Child =>
                         (y \in Graph[x] <=> (x \in Element /\ y = firstAttr[x])
                                               \/ (x \in Attr /\ y = nextAttr[x]))
                    /\ y \in Fragment \cup {Doc} => y \notin Graph[x]
  OBVIOUS
<1>1. y \in Graph[x] <=>
        \/ x \in Container /\ y \in ToSet(kids[x])
        \/ x \in Element /\ y = firstAttr[x]
        \/ x \in Attr /\ y = nextAttr[x]
  BY Edges DEF GraphOfLinks
<1>2. x \in Container => ToSet(kids[x]) \subseteq Child
  BY DEF TypeOK, ToSet
<1>3. (x \in Element => firstAttr[x] \in Attr \cup {Nil}) /\ (x \in Attr => nextAttr[x] \in Attr \cup {Nil})
  BY DEF TypeOK
<1>4. y # Nil /\ Child \cap Attr = {} /\ (y \in Fragment \cup {Doc} => y \notin Child \cup Attr)
  BY PocoAssumption DEF Child, Node
<1> QED BY <1>1, <1>2, <1>3, <1>4

(* The kinds of objects, and where each may stand.                          *)
LEMMA GraphType ==
  TypeOK => /\ Graph \in [Object -> SUBSET Object]
            /\ \A x \in Container : ToSet(kids[x]) \subseteq Child
<1> SUFFICES ASSUME TypeOK
             PROVE  /\ Graph \in [Object -> SUBSET Object]
                    /\ \A x \in Container : ToSet(kids[x]) \subseteq Child
  OBVIOUS
<1>1. ASSUME NEW x \in Container
      PROVE  ToSet(kids[x]) \subseteq Child
  BY <1>1 DEF TypeOK, ToSet
<1>2. ASSUME NEW x \in Object
      PROVE  Refs(x) \subseteq Object
  BY <1>1, <1>2 DEF TypeOK, Refs, Object, Node
<1> QED BY <1>1, <1>2 DEF Graph

(* The holders of an object among the members of a set: one or none.        *)
LEMMA HoldersOf ==
  ASSUME OneHolder(Graph), NEW S \in SUBSET Object, NEW x \in Object
  PROVE  Cardinality(Holders(S, x)) = IF \E y \in S : x \in Graph[y] THEN 1 ELSE 0
<1>1. Holders(S, x) = {y \in S : x \in Graph[y]}
  BY DEF Holders, Graph
<1>2. CASE \E y \in S : x \in Graph[y]
  <2>1. PICK y \in S : x \in Graph[y]
    BY <1>2
  <2>2. Holders(S, x) = {y}
    BY <1>1, <2>1 DEF OneHolder
  <2> QED BY <1>2, <2>2, FS_Singleton
<1>3. CASE ~ \E y \in S : x \in Graph[y]
  <2>1. Holders(S, x) = {}
    BY <1>1, <1>3
  <2> QED BY <1>3, <2>1, FS_EmptySet
<1> QED BY <1>2, <1>3

(* An object with an owner of any sort is alive, and so is what it releases.*)
LEMMA OwnersAndOwned ==
  ASSUME OwnershipInv
  PROVE  /\ \A x \in Object : held[x] > 0 => x \in alive
         /\ \A n \in Node : pool[n] > 0 => n \in alive
         /\ \A x, y \in Object : y \in Graph[x] => x \in alive /\ y \in alive
<1>1. ASSUME NEW x \in Object
      PROVE  /\ held[x] \in Nat /\ rc[x] \in Nat /\ Owned(Graph, x) \in {0, 1}
             /\ x # Doc => pool[x] \in Nat
  BY DEF OwnershipInv, TypeOK, Owned, Object
<1>2. ASSUME NEW x \in Object, held[x] > 0 \/ (x # Doc /\ pool[x] > 0) \/ Owned(Graph, x) = 1
      PROVE  x \in alive
  BY <1>1, <1>2 DEF OwnershipInv, CountsMatch
<1>3. ASSUME NEW x \in Object, NEW y \in Object, y \in Graph[x]
      PROVE  x \in alive /\ y \in alive
  <2>1. Owned(Graph, y) = 1
    BY <1>3 DEF Owned
  <2> QED BY <1>2, <1>3, <2>1 DEF OwnershipInv, DeadIsBare
<1> QED BY <1>2, <1>3, PocoAssumption DEF Object

(* A child has the one parent that lists it, or none.                       *)
LEMMA ParentOfChild ==
  ASSUME OwnershipInv
  PROVE  /\ \A c \in Child : Owned(Graph, c) = IF up[c] = Nil THEN 0 ELSE 1
         /\ \A p \in Container, c \in Child : c \in ToSet(kids[p]) <=> up[c] = p
         /\ \A c \in Child : up[c] # Nil => c \in alive /\ up[c] \in alive \cap Container
<1>1. Nil \notin Container /\ Container \subseteq Object /\ Child \subseteq Object
      /\ Child \cap Attr = {}
  BY PocoAssumption DEF Container, Object, Node, Child
<1>2. ASSUME NEW p \in Container, NEW c \in Child
      PROVE  c \in ToSet(kids[p]) <=> up[c] = p
  BY <1>1, <1>2 DEF OwnershipInv, LinksMatch
<1>3. ASSUME NEW c \in Child, NEW y \in Object
      PROVE  c \in Graph[y] <=> y \in Container /\ c \in ToSet(kids[y])
  BY <1>1, EdgesByKind DEF OwnershipInv
<1>4. ASSUME NEW c \in Child, up[c] # Nil
      PROVE  up[c] \in Container
  BY <1>4 DEF OwnershipInv, LinksMatch
<1>5. ASSUME NEW c \in Child
      PROVE  Owned(Graph, c) = IF up[c] = Nil THEN 0 ELSE 1
  <2>1. CASE up[c] = Nil
    <3>1. \A y \in Object : c \notin Graph[y]
      BY <1>1, <1>2, <1>3, <2>1
    <3> QED BY <2>1, <3>1 DEF Owned
  <2>2. CASE up[c] # Nil
    <3>1. up[c] \in Object /\ c \in Graph[up[c]]
      BY <1>1, <1>2, <1>3, <1>4, <2>2
    <3> QED BY <2>2, <3>1 DEF Owned
  <2> QED BY <2>1, <2>2
<1>6. ASSUME NEW c \in Child, up[c] # Nil
      PROVE  c \in alive /\ up[c] \in alive
  <2>1. up[c] \in Object /\ c \in Graph[up[c]] /\ c \in Object
    BY <1>1, <1>2, <1>3, <1>4, <1>6
  <2> QED BY <2>1, OwnersAndOwned
<1> QED BY <1>2, <1>4, <1>5, <1>6

(* The children are relinked: the lists lose the members of M and p gains N,*)
(* and the counts follow.                                                   *)
Relinked(p, M, N) ==
  /\ M \subseteq Child /\ N \subseteq M /\ N \subseteq alive /\ p \in alive \cap Container
  /\ \A x \in Container :
       /\ IsInjective(kids'[x])
       /\ ToSet(kids'[x]) = (ToSet(kids[x]) \ M) \cup (IF x = p THEN N ELSE {})
  /\ \A n \in Node :
       /\ up'[n] = IF n \in N THEN p ELSE IF n \in M THEN Nil ELSE up[n]
       /\ rc'[n] - pool'[n] = IF n \in N THEN held[n] + 1
                              ELSE IF n \in M THEN held[n] ELSE rc[n] - pool[n]
       /\ rc'[n] > 0 <=> rc[n] > 0
  /\ rc'[Doc] = rc[Doc]
  /\ Doc \in alive
  /\ UNCHANGED <<alive, held, firstAttr, nextAttr>>

(* Relinking keeps the invariant, if what p gains has p nowhere below it.   *)
LEMMA RelinkedChildren ==
  ASSUME OwnershipInv, TypeOK', NEW p, NEW M, NEW N, Relinked(p, M, N),
         NEW K, N \subseteq K, p \notin K, \A y \in Object \cap K : Graph[y] \subseteq K
  PROVE  OwnershipInv'
<1> USE DEF Relinked
<1>1. /\ Container \subseteq Object /\ Child \subseteq Node /\ Node \subseteq Object
      /\ Child \cap Attr = {} /\ Doc \notin Node /\ Object = Node \cup {Doc}
      /\ Element \subseteq Container /\ Attr \subseteq Node /\ Nil \notin Object
      /\ Fragment \subseteq Node /\ Fragment \cap Child = {}
  BY PocoAssumption DEF Container, Object, Node, Child
<1>2. TypeOK /\ CountsMatch /\ LinksMatch /\ DeadIsBare /\ OneHolder(Graph) /\ Acyclic(Graph)
  BY DEF OwnershipInv
<1>3. Graph \in [Object -> SUBSET Object] /\ Graph' \in [Object -> SUBSET Object]
  <2>1. TypeOK' => (Graph \in [Object -> SUBSET Object])'
    BY GraphType, PTL
  <2> QED BY <1>2, <2>1, GraphType
<1>4. ASSUME NEW x \in Object, NEW y \in Object
      PROVE  y \in Graph'[x] <=> (y \in Graph[x] /\ y \notin M) \/ (x = p /\ y \in N)
  <2>1. y \in Graph[x] <=>
          \/ x \in Container /\ y \in ToSet(kids[x])
          \/ x \in Element /\ y = firstAttr[x]
          \/ x \in Attr /\ y = nextAttr[x]
    BY Edges DEF GraphOfLinks
  <2>2. y \in Graph'[x] <=>
          \/ x \in Container /\ y \in ToSet(kids'[x])
          \/ x \in Element /\ y = firstAttr[x]
          \/ x \in Attr /\ y = nextAttr[x]
    <3>1. GraphOfLinks'
      BY Edges, PTL
    <3> QED BY <3>1 DEF GraphOfLinks
  <2>3. x \in Element => firstAttr[x] \notin Child
    BY <1>1, <1>2, PocoAssumption DEF TypeOK
  <2>4. x \in Attr => nextAttr[x] \notin Child
    BY <1>1, <1>2, PocoAssumption DEF TypeOK
  <2> QED BY <1>1, <2>1, <2>2, <2>3, <2>4
<1>5. Regrafted(Graph, Graph', p, M, N)
  BY <1>1, <1>3, <1>4 DEF Regrafted
<1>6. /\ OneHolder(Graph')
      /\ \A x \in Object :
           Owned(Graph', x) = IF x \in N THEN 1 ELSE IF x \in M THEN 0 ELSE Owned(Graph, x)
  BY <1>2, <1>5, RegraftHolders
<1>7. Acyclic(Graph')
  BY <1>2, <1>5, RegraftAcyclic
<1>8. CountsMatch'
  <2>1. ASSUME NEW x \in Object
        PROVE  /\ rc'[x] = held'[x] + (IF x = Doc THEN 0 ELSE pool'[x]) + Owned(Graph', x)
               /\ x \in alive' <=> rc'[x] > 0
    <3>1. /\ rc[x] = held[x] + (IF x = Doc THEN 0 ELSE pool[x]) + Owned(Graph, x)
          /\ x \in alive <=> rc[x] > 0
      BY <1>2 DEF CountsMatch
    <3>2. /\ held[x] \in Nat /\ rc[x] \in Nat /\ rc'[x] \in Nat /\ Owned(Graph, x) \in Nat
          /\ x \in Node => pool[x] \in Nat /\ pool'[x] \in Nat
      BY <1>2 DEF TypeOK, Owned
    <3>3. held'[x] = held[x] /\ alive' = alive
      OBVIOUS
    <3>4. CASE x = Doc
      BY <1>1, <1>6, <3>1, <3>3, <3>4
    <3>5. CASE x \in Node
      <4> DEFINE o == Owned(Graph, x)
                 o2 == Owned(Graph', x)
      <4>1. /\ o2 = IF x \in N THEN 1 ELSE IF x \in M THEN 0 ELSE o
            /\ o \in Nat /\ o2 \in Nat
        BY <1>1, <1>6, <3>2
      <4>2. rc[x] = held[x] + pool[x] + o
        BY <1>1, <3>1, <3>5
      <4>3. rc'[x] - pool'[x] = IF x \in N THEN held[x] + 1
                                ELSE IF x \in M THEN held[x] ELSE rc[x] - pool[x]
        BY <3>5
      <4> HIDE DEF o, o2
      <4>4. rc'[x] = held'[x] + pool'[x] + o2
        BY <1>1, <3>2, <3>3, <3>5, <4>1, <4>2, <4>3
      <4>5. x \in alive' <=> rc'[x] > 0
        BY <3>1, <3>3, <3>5
      <4> QED BY <1>1, <3>5, <4>4, <4>5 DEF o2
    <3> QED BY <1>1, <3>4, <3>5
  <2> QED BY <2>1 DEF CountsMatch
<1>9. LinksMatch'
  <2>1. ASSUME NEW x \in Container, NEW c \in ToSet(kids'[x])
        PROVE  up'[c] = x
    <3>1. c \in Child /\ c \in Node
      BY <1>1, <1>2, GraphType, <2>1
    <3>2. CASE c \in N
      <4>1. x = p
        BY <2>1, <3>2
      <4> QED BY <3>1, <3>2, <4>1
    <3>3. CASE c \notin N
      <4>1. c \in ToSet(kids[x]) /\ c \notin M
        BY <2>1, <3>3
      <4>2. up[c] = x
        BY <1>2, <4>1 DEF LinksMatch
      <4> QED BY <3>1, <3>3, <4>1, <4>2
    <3> QED BY <3>2, <3>3
  <2>2. ASSUME NEW n \in Child \cup Fragment, up'[n] # Nil
        PROVE  up'[n] \in Container /\ n \in ToSet(kids'[up'[n]])
    <3>1. CASE n \in N
      BY <1>1, <3>1
    <3>2. CASE n \notin N
      <4>1. n \notin M /\ up'[n] = up[n]
        BY <1>1, <2>2, <3>2
      <4>2. up[n] \in Container /\ n \in ToSet(kids[up[n]])
        BY <1>2, <2>2, <4>1 DEF LinksMatch
      <4> QED BY <4>1, <4>2
    <3> QED BY <3>1, <3>2
  <2>3. ASSUME NEW a \in Attr, up'[a] = Nil
        PROVE  nextAttr'[a] = Nil /\ \A y \in Object : a \notin Graph'[y]
    <3>1. a \notin M /\ a \notin N
      BY <1>1
    <3>2. up[a] = Nil
      BY <1>1, <2>3, <3>1
    <3> QED BY <1>1, <1>2, <1>4, <3>1, <3>2 DEF LinksMatch
  <2> QED BY <2>1, <2>2, <2>3 DEF LinksMatch
<1>10. DeadIsBare'
  <2> SUFFICES ASSUME NEW x \in Object, x \notin alive
               PROVE  Graph'[x] = {} /\ (x \in Node => up'[x] = Nil)
    BY DEF DeadIsBare
  <2>1. Graph[x] = {} /\ (x \in Node => up[x] = Nil)
    BY <1>2 DEF DeadIsBare
  <2>2. x # p /\ x \notin N
    OBVIOUS
  <2> QED BY <1>3, <1>4, <2>1, <2>2
<1> QED BY <1>6, <1>7, <1>8, <1>9, <1>10 DEF OwnershipInv, PoolHasDocument

-----------------------------------------------------------------------------
(***************************************************************************)
(* AbstractContainerNode                                                    *)
(***************************************************************************)

(* CanTake: some set has n and all below it, and not p.                     *)
LEMMA TakenFromElsewhere ==
  ASSUME OwnershipInv, NEW p \in Container, NEW n \in Child \cup Fragment, CanTake(p, n)
  PROVE  \E K : n \in K /\ p \notin K /\ \A y \in Object \cap K : Graph[y] \subseteq K
<1>1. TypeOK /\ Graph \in [Object -> SUBSET Object]
  BY GraphType DEF OwnershipInv
<1>2. Container \subseteq Object /\ Leaf \cap Container = {} /\ Leaf \subseteq Object
      /\ Fragment \subseteq Container /\ Child \ Leaf \subseteq Container
  BY PocoAssumption DEF Container, Object, Node, Child
<1>3. CASE n \notin Container
  <2>1. n \in Leaf
    BY <1>2, <1>3
  <2>2. \A y \in Object : y \notin Graph[n]
    BY <1>2, <2>1, Edges, PocoAssumption DEF GraphOfLinks
  <2>3. Graph[n] = {}
    BY <1>1, <1>2, <2>1, <2>2
  <2> DEFINE K == {n}
  <2>4. n \in K /\ p \notin K /\ \A y \in Object \cap K : Graph[y] \subseteq K
    BY <1>3, <2>3
  <2> QED BY <2>4
<1>4. CASE n \in Container
  <2>1. PICK S \in SUBSET Container :
          /\ n \in S
          /\ \A y \in S : ToSet(kids[y]) \cap Container \subseteq S
          /\ p \notin S
    BY <1>4 DEF CanTake, Within
  <2> DEFINE K == S \cup (Object \ Container)
  <2>2. n \in K /\ p \notin K
    BY <2>1
  <2>3. ASSUME NEW y \in Object \cap K, NEW x \in Graph[y]
        PROVE  x \in K
    <3>1. x \in Object
      BY <1>1, <2>3
    <3>2. CASE x \in Child
      <4>1. y \in Container /\ x \in ToSet(kids[y])
        BY <1>1, <2>3, <3>1, <3>2, EdgesByKind
      <4> QED BY <2>1, <3>1, <4>1
    <3>3. CASE x \notin Child
      <4>1. x \in Attr
        BY <1>1, <2>3, <3>1, <3>3, EdgesByKind DEF Object, Node
      <4> QED BY <3>1, <4>1, PocoAssumption DEF Container, Object, Node
    <3> QED BY <3>2, <3>3
  <2> QED BY <2>2, <2>3
<1> QED BY <1>3, <1>4

(* removeChild of c, wherever it is.                                        *)
LEMMA WithoutLists ==
  ASSUME OwnershipInv, NEW c \in Child
  PROVE  /\ Without(c) \in [Container -> Seq(Child)]
         /\ \A x \in Container :
              /\ IsInjective(Without(c)[x])
              /\ ToSet(Without(c)[x]) = ToSet(kids[x]) \ {c}
<1>1. kids \in [Container -> Seq(Child)] /\ \A x \in Container : IsInjective(kids[x])
  BY DEF OwnershipInv, TypeOK, LinksMatch
<1>2. ASSUME NEW x \in Container
      PROVE  /\ Without(c)[x] \in Seq(Child) /\ IsInjective(Without(c)[x])
             /\ ToSet(Without(c)[x]) = ToSet(kids[x]) \ {c}
  <2>1. c \in ToSet(kids[x]) <=> up[c] = x
    BY ParentOfChild
  <2>2. CASE x = up[c]
    <3>1. Without(c)[x] = RemoveAt(kids[x], Position(kids[x], c))
      BY <2>2 DEF Without
    <3> QED BY <1>1, <2>1, <2>2, <3>1, RemoveMembers
  <2>3. CASE x # up[c]
    <3>1. Without(c)[x] = kids[x]
      BY <2>3 DEF Without
    <3> QED BY <1>1, <2>1, <2>3, <3>1
  <2> QED BY <2>2, <2>3
<1> QED BY <1>2 DEF Without

(* The pool after a child has left its parent, if it had one.               *)
LEMMA PooledCounts ==
  ASSUME OwnershipInv, NEW bag \in [Node -> Nat], NEW c \in Child
  PROVE  /\ PooledIfAttached(bag, c) \in [Node -> Nat]
         /\ PooledIfAttached(bag, c)[c] = bag[c] + Owned(Graph, c)
         /\ \A n \in Node \ {c} : PooledIfAttached(bag, c)[n] = bag[n]
<1>1. c \in Node
  BY DEF Node
<1>2. Owned(Graph, c) = IF up[c] = Nil THEN 0 ELSE 1
  BY ParentOfChild
<1> QED BY <1>1, <1>2 DEF PooledIfAttached, Pooled

(* The count of a node is what the caller, the pool and its holder have.    *)
LEMMA CountOfNode ==
  ASSUME OwnershipInv, NEW n \in Node
  PROVE  /\ rc[n] = held[n] + pool[n] + Owned(Graph, n)
         /\ n \in alive <=> rc[n] > 0
         /\ rc[n] \in Nat /\ held[n] \in Nat /\ pool[n] \in Nat /\ Owned(Graph, n) \in {0, 1}
<1>1. n \in Object /\ n # Doc
  BY PocoAssumption DEF Object
<1> QED BY <1>1 DEF OwnershipInv, TypeOK, CountsMatch, Owned

(* insertBefore keeps the invariant.                                        *)
LEMMA InsertBeforeKeepsInv ==
  ASSUME OwnershipInv, NEW p \in Container, NEW c \in Child, NEW r \in Child \cup {Nil},
         InsertBefore(p, c, r)
  PROVE  OwnershipInv'
<1> DEFINE W == Without(c)
<1>1. c \in Node /\ c \in Object /\ Nil \notin Child /\ p \in Object /\ Doc \notin Node
      /\ c \in alive /\ p \in alive /\ c # Doc
  BY PocoAssumption DEF Child, Node, Object, Container, InsertBefore, CanTake
<1>2. TypeOK /\ W \in [Container -> Seq(Child)]
      /\ \A x \in Container : IsInjective(W[x]) /\ ToSet(W[x]) = ToSet(kids[x]) \ {c}
  BY WithoutLists DEF OwnershipInv
<1>3. kids' = [W EXCEPT ![p] = Placed(@, <<c>>, r)]
  BY DEF InsertBefore
<1> HIDE DEF W
<1> DEFINE m == <<c>>
<1>4. m \in Seq(Child) /\ IsInjective(m) /\ ToSet(m) = {c}
  BY DEF IsInjective, ToSet
<1>5. kids' = [W EXCEPT ![p] = Placed(@, m, r)]
  BY <1>3
<1> HIDE DEF m
<1>6. /\ Placed(W[p], m, r) \in Seq(Child)
      /\ ToSet(Placed(W[p], m, r)) = ToSet(W[p]) \cup {c}
      /\ IsInjective(Placed(W[p], m, r))
  <2>1. r # Nil => r \in ToSet(W[p])
    BY <1>2 DEF InsertBefore
  <2> QED BY <1>2, <1>4, <2>1, PlacedMembers
<1>7. kids' \in [Container -> Seq(Child)]
      /\ \A x \in Container :
           /\ IsInjective(kids'[x])
           /\ ToSet(kids'[x]) = (ToSet(kids[x]) \ {c}) \cup (IF x = p THEN {c} ELSE {})
  BY <1>2, <1>5, <1>6
<1>8. /\ pool' \in [Node -> Nat] /\ pool'[c] = pool[c] + Owned(Graph, c)
      /\ \A n \in Node \ {c} : pool'[n] = pool[n]
  BY <1>2, PooledCounts DEF InsertBefore, TypeOK
<1>9. /\ rc' \in [Object -> Nat] /\ rc'[c] = rc[c] + 1
      /\ \A x \in Object \ {c} : rc'[x] = rc[x]
  BY <1>1, <1>2 DEF InsertBefore, Counted, TypeOK
<1>10. /\ up' \in [Node -> Object \cup {Nil}]
       /\ \A n \in Node : up'[n] = IF n = c THEN p ELSE up[n]
  BY <1>1, <1>2 DEF InsertBefore, TypeOK
<1>11. UNCHANGED <<alive, held, firstAttr, nextAttr>>
  BY DEF InsertBefore
<1>12. TypeOK'
  BY <1>2, <1>7, <1>8, <1>9, <1>10, <1>11 DEF TypeOK
<1>13. PICK K : c \in K /\ p \notin K /\ \A y \in Object \cap K : Graph[y] \subseteq K
  BY TakenFromElsewhere DEF InsertBefore
<1>14. ASSUME NEW n \in Node
       PROVE  /\ rc'[n] - pool'[n] = IF n = c THEN held[n] + 1 ELSE rc[n] - pool[n]
              /\ rc'[n] > 0 <=> rc[n] > 0
  BY <1>1, <1>8, <1>9, CountOfNode DEF Object
<1>15. Relinked(p, {c}, {c})
  <2>1. Doc \in alive
    BY DEF InsertBefore, CanTake
  <2> QED BY <2>1, <1>1, <1>7, <1>9, <1>10, <1>11, <1>14 DEF Relinked, Object
<1>16. {c} \subseteq K
  BY <1>13
<1> QED BY <1>12, <1>13, <1>15, <1>16, RelinkedChildren


(* removeChild keeps the invariant.                                         *)
LEMMA RemoveChildKeepsInv ==
  ASSUME OwnershipInv, NEW p \in Container, NEW c \in Child, RemoveChild(p, c)
  PROVE  OwnershipInv'
<1>1. c \in Node /\ Nil \notin Container /\ Doc \notin Node /\ c \in ToSet(kids[p]) /\ up[c] = p
  BY ParentOfChild, PocoAssumption DEF Container, Child, Node, Object, RemoveChild
<1>2. TypeOK /\ kids' \in [Container -> Seq(Child)]
      /\ \A x \in Container :
           /\ IsInjective(kids'[x])
           /\ ToSet(kids'[x]) = (ToSet(kids[x]) \ {c}) \cup (IF x = p THEN {} ELSE {})
  BY WithoutLists DEF RemoveChild, OwnershipInv
<1>3. /\ pool' \in [Node -> Nat] /\ pool'[c] = pool[c] + 1
      /\ \A n \in Node \ {c} : pool'[n] = pool[n]
  BY <1>1, <1>2 DEF RemoveChild, Pooled, TypeOK
<1>4. /\ up' \in [Node -> Object \cup {Nil}]
      /\ \A n \in Node : up'[n] = IF n = c THEN Nil ELSE up[n]
  BY <1>1, <1>2 DEF RemoveChild, TypeOK
<1>5. UNCHANGED <<alive, rc, held, firstAttr, nextAttr>>
  BY DEF RemoveChild
<1>6. TypeOK'
  BY <1>2, <1>3, <1>4, <1>5 DEF TypeOK
<1>7. p \in alive /\ Owned(Graph, c) = 1
  BY <1>1, ParentOfChild
<1>8. ASSUME NEW n \in Node
      PROVE  /\ rc'[n] - pool'[n] = IF n = c THEN held[n] ELSE rc[n] - pool[n]
             /\ rc'[n] > 0 <=> rc[n] > 0
  BY <1>3, <1>5, <1>7, CountOfNode
<1>9. Relinked(p, {c}, {})
  <2>1. Doc \in alive
    BY DEF RemoveChild
  <2> QED BY <2>1, <1>1, <1>2, <1>4, <1>5, <1>7, <1>8 DEF Relinked
<1>10. {} \subseteq {} /\ p \notin {} /\ \A y \in Object \cap {} : Graph[y] \subseteq {}
  OBVIOUS
<1> QED BY <1>6, <1>9, <1>10, RelinkedChildren

(* replaceChild by a node keeps the invariant.                              *)
LEMMA ReplaceChildKeepsInv ==
  ASSUME OwnershipInv, NEW p \in Container, NEW new \in Child, NEW old \in Child,
         ReplaceChild(p, new, old)
  PROVE  OwnershipInv'
<1> DEFINE W == Without(new)
<1>1. /\ new \in Node /\ old \in Node /\ new # old /\ Nil \notin Child /\ p \in Object
      /\ Doc \notin Node /\ new \in alive /\ p \in alive /\ old \in ToSet(kids[p])
  BY PocoAssumption DEF Child, Node, Object, Container, ReplaceChild, CanTake
<1>2. TypeOK /\ W \in [Container -> Seq(Child)]
      /\ \A x \in Container : IsInjective(W[x]) /\ ToSet(W[x]) = ToSet(kids[x]) \ {new}
  BY WithoutLists DEF OwnershipInv
<1>3. kids' = [W EXCEPT ![p] = [W[p] EXCEPT ![Position(W[p], old)] = new]]
  BY DEF ReplaceChild
<1> HIDE DEF W
<1> DEFINE t == [W[p] EXCEPT ![Position(W[p], old)] = new]
<1>4. /\ t \in Seq(Child) /\ IsInjective(t)
      /\ ToSet(t) = (ToSet(W[p]) \ {old}) \cup {new}
  <2>1. W[p] \in Seq(Child) /\ IsInjective(W[p]) /\ old \in ToSet(W[p]) /\ new \notin ToSet(W[p])
    BY <1>1, <1>2
  <2> QED BY <2>1, ReplacedMembers
<1>5. kids' = [W EXCEPT ![p] = t]
  BY <1>3
<1> HIDE DEF t
<1>6. up[old] = p /\ Owned(Graph, old) = 1
  BY <1>1, ParentOfChild, PocoAssumption DEF Container, Object
<1>7. \A x \in Container \ {p} : old \notin ToSet(kids[x])
  BY <1>6, ParentOfChild
<1>8. kids' \in [Container -> Seq(Child)]
      /\ \A x \in Container :
           /\ IsInjective(kids'[x])
           /\ ToSet(kids'[x]) = (ToSet(kids[x]) \ {new, old}) \cup (IF x = p THEN {new} ELSE {})
  BY <1>2, <1>4, <1>5, <1>7
<1> DEFINE bag == PooledIfAttached(pool, new)
<1>9. /\ bag \in [Node -> Nat] /\ bag[new] = pool[new] + Owned(Graph, new)
      /\ \A n \in Node \ {new} : bag[n] = pool[n]
  BY <1>2, PooledCounts DEF TypeOK
<1>10. pool' = [bag EXCEPT ![old] = @ + 1]
  BY DEF ReplaceChild, Pooled
<1> HIDE DEF bag
<1>11. /\ pool' \in [Node -> Nat] /\ pool'[new] = pool[new] + Owned(Graph, new)
       /\ pool'[old] = pool[old] + 1
       /\ \A n \in Node \ {new, old} : pool'[n] = pool[n]
  BY <1>1, <1>9, <1>10
<1>12. /\ rc' \in [Object -> Nat] /\ rc'[new] = rc[new] + 1
       /\ \A x \in Object \ {new} : rc'[x] = rc[x]
  BY <1>1, <1>2 DEF ReplaceChild, Counted, TypeOK, Object
<1>13. /\ up' \in [Node -> Object \cup {Nil}]
       /\ \A n \in Node : up'[n] = IF n = new THEN p ELSE IF n = old THEN Nil ELSE up[n]
  BY <1>1, <1>2 DEF ReplaceChild, TypeOK
<1>14. UNCHANGED <<alive, held, firstAttr, nextAttr>>
  BY DEF ReplaceChild
<1>15. TypeOK'
  BY <1>2, <1>8, <1>11, <1>12, <1>13, <1>14 DEF TypeOK
<1>16. PICK K : new \in K /\ p \notin K /\ \A y \in Object \cap K : Graph[y] \subseteq K
  BY TakenFromElsewhere DEF ReplaceChild
<1>17. ASSUME NEW n \in Node
       PROVE  /\ rc'[n] - pool'[n] = IF n = new THEN held[n] + 1
                                     ELSE IF n = old THEN held[n] ELSE rc[n] - pool[n]
              /\ rc'[n] > 0 <=> rc[n] > 0
  BY <1>1, <1>6, <1>11, <1>12, CountOfNode DEF Object
<1>18. Relinked(p, {new, old}, {new})
  <2>1. Doc \in alive
    BY DEF ReplaceChild, CanTake
  <2> QED BY <2>1, <1>1, <1>8, <1>12, <1>13, <1>14, <1>17 DEF Relinked, Object
<1>19. {new} \subseteq K
  BY <1>16
<1> QED BY <1>15, <1>16, <1>18, <1>19, RelinkedChildren

(* What a fragment has, when it can be taken.                               *)
LEMMA FragmentChildren ==
  ASSUME OwnershipInv, NEW p \in Container, NEW f \in Fragment, CanTake(p, f)
  PROVE  /\ f # p /\ f \in Container /\ p \in alive
         /\ ToSet(kids[f]) \subseteq Child /\ ToSet(kids[f]) \subseteq alive
         /\ ToSet(kids[f]) \cap ToSet(kids[p]) = {}
         /\ \A c \in ToSet(kids[f]) : up[c] = f /\ Owned(Graph, c) = 1
         /\ \E K : /\ ToSet(kids[f]) \subseteq K /\ p \notin K
                   /\ \A y \in Object \cap K : Graph[y] \subseteq K
<1>1. f \in Container /\ f \in Object /\ p \in alive /\ Nil \notin Container
  <2>1. p \in alive
    BY DEF CanTake
  <2>2. f \in Container /\ f \in Object /\ Container \subseteq Object
    BY DEF Container, Object, Node, Child
  <2>3. Nil \notin Object
    BY PocoAssumption
  <2> QED BY <2>1, <2>2, <2>3
<1>2. ToSet(kids[f]) \subseteq Child /\ TypeOK
  BY <1>1, GraphType DEF OwnershipInv
<1>3. \A c \in ToSet(kids[f]) : up[c] = f /\ Owned(Graph, c) = 1 /\ c \in alive
  BY <1>1, <1>2, ParentOfChild
<1>4. PICK K : f \in K /\ p \notin K /\ \A y \in Object \cap K : Graph[y] \subseteq K
  BY TakenFromElsewhere
<1>5. ToSet(kids[f]) \subseteq K
  <2> SUFFICES ASSUME NEW c \in ToSet(kids[f]) PROVE c \in K
    OBVIOUS
  <2>1. c \in Object
    BY <1>2 DEF Object, Node
  <2>2. c \in Graph[f]
    BY <1>1, <2>1, Edges DEF GraphOfLinks
  <2> QED BY <1>1, <1>4, <2>2
<1>6. ToSet(kids[f]) \cap ToSet(kids[p]) = {}
  BY <1>2, <1>3, <1>4, ParentOfChild
<1> QED BY <1>1, <1>2, <1>3, <1>4, <1>5, <1>6

(* insertBefore of a fragment keeps the invariant.                          *)
LEMMA InsertFragmentKeepsInv ==
  ASSUME OwnershipInv, NEW p \in Container, NEW f \in Fragment, NEW r \in Child \cup {Nil},
         InsertFragment(p, f, r)
  PROVE  OwnershipInv'
<1> DEFINE N == ToSet(kids[f])
<1>1. /\ f # p /\ f \in Container /\ p \in alive /\ p \in Object
      /\ N \subseteq Child /\ N \subseteq alive /\ N \cap ToSet(kids[p]) = {}
      /\ \A c \in N : up[c] = f /\ Owned(Graph, c) = 1
      /\ Nil \notin Child /\ r \in {Nil} \cup ToSet(kids[p])
  BY FragmentChildren, PocoAssumption DEF InsertFragment, Container, Object, Node, Child
<1>2. PICK K : N \subseteq K /\ p \notin K /\ \A y \in Object \cap K : Graph[y] \subseteq K
  BY FragmentChildren DEF InsertFragment
<1>3. TypeOK /\ \A x \in Container : IsInjective(kids[x])
  BY DEF OwnershipInv, LinksMatch
<1> DEFINE t == Placed(kids[p], kids[f], r)
<1>4. t \in Seq(Child) /\ ToSet(t) = ToSet(kids[p]) \cup N /\ IsInjective(t)
  <2>1. kids[p] \in Seq(Child) /\ kids[f] \in Seq(Child)
    BY <1>1, <1>3 DEF TypeOK
  <2> QED BY <1>1, <1>3, <2>1, PlacedMembers
<1>5. kids' = [kids EXCEPT ![p] = t, ![f] = << >>]
  BY DEF InsertFragment
<1> HIDE DEF t
<1>6. << >> \in Seq(Child) /\ ToSet(<< >>) = {} /\ IsInjective(<< >>)
  BY DEF ToSet, IsInjective
<1>7. \A x \in Container \ {f} : ToSet(kids[x]) \cap N = {}
  BY <1>1, ParentOfChild
<1>8. kids' \in [Container -> Seq(Child)]
      /\ \A x \in Container :
           /\ IsInjective(kids'[x])
           /\ ToSet(kids'[x]) = (ToSet(kids[x]) \ N) \cup (IF x = p THEN N ELSE {})
  BY <1>1, <1>3, <1>4, <1>5, <1>6, <1>7 DEF TypeOK
<1>9. UNCHANGED <<alive, rc, held, pool, firstAttr, nextAttr>>
  BY DEF InsertFragment, counts
<1>10. /\ up' \in [Node -> Object \cup {Nil}]
       /\ \A n \in Node : up'[n] = IF n \in N THEN p ELSE up[n]
  BY <1>1, <1>3 DEF InsertFragment, TypeOK
<1>11. TypeOK'
  BY <1>3, <1>8, <1>9, <1>10 DEF TypeOK
<1>12. ASSUME NEW n \in Node
       PROVE  /\ rc'[n] - pool'[n] = IF n \in N THEN held[n] + 1 ELSE rc[n] - pool[n]
              /\ rc'[n] > 0 <=> rc[n] > 0
  BY <1>1, <1>9, CountOfNode
<1> HIDE DEF N
<1>13. Relinked(p, N, N)
  <2>1. Doc \in alive
    BY DEF InsertFragment, CanTake
  <2> QED BY <2>1, <1>1, <1>8, <1>9, <1>10, <1>12 DEF Relinked
<1> QED BY <1>2, <1>11, <1>13, RelinkedChildren

(* replaceChild by a fragment keeps the invariant.                          *)
LEMMA ReplaceByFragmentKeepsInv ==
  ASSUME OwnershipInv, NEW p \in Container, NEW f \in Fragment, NEW old \in Child,
         ReplaceByFragment(p, f, old)
  PROVE  OwnershipInv'
<1> DEFINE N == ToSet(kids[f])
           M == N \cup {old}
<1>1. /\ f # p /\ f \in Container /\ p \in alive /\ p \in Object
      /\ N \subseteq Child /\ N \subseteq alive /\ N \cap ToSet(kids[p]) = {}
      /\ \A c \in N : up[c] = f /\ Owned(Graph, c) = 1
      /\ Nil \notin Child /\ old \in ToSet(kids[p]) /\ old \in Node
  BY FragmentChildren, PocoAssumption DEF ReplaceByFragment, Container, Object, Node, Child
<1>2. PICK K : N \subseteq K /\ p \notin K /\ \A y \in Object \cap K : Graph[y] \subseteq K
  BY FragmentChildren DEF ReplaceByFragment
<1>3. TypeOK /\ \A x \in Container : IsInjective(kids[x])
  BY DEF OwnershipInv, LinksMatch
<1>4. up[old] = p /\ Owned(Graph, old) = 1 /\ old \notin N
  BY <1>1, ParentOfChild, PocoAssumption DEF Container, Object
<1> DEFINE ks == Placed(kids[p], kids[f], old)
           t == RemoveAt(ks, Position(ks, old))
<1>5. ks \in Seq(Child) /\ ToSet(ks) = ToSet(kids[p]) \cup N /\ IsInjective(ks)
  <2>1. kids[p] \in Seq(Child) /\ kids[f] \in Seq(Child)
    BY <1>1, <1>3 DEF TypeOK
  <2> QED BY <1>1, <1>3, <2>1, PlacedMembers
<1>6. kids' = [kids EXCEPT ![p] = t, ![f] = << >>]
  BY DEF ReplaceByFragment
<1> HIDE DEF ks
<1>7. t \in Seq(Child) /\ ToSet(t) = (ToSet(kids[p]) \cup N) \ {old} /\ IsInjective(t)
  BY <1>1, <1>5, RemoveMembers
<1> HIDE DEF t
<1>8. << >> \in Seq(Child) /\ ToSet(<< >>) = {} /\ IsInjective(<< >>)
  BY DEF ToSet, IsInjective
<1>9. /\ \A x \in Container \ {f} : ToSet(kids[x]) \cap N = {}
      /\ \A x \in Container \ {p} : old \notin ToSet(kids[x])
  BY <1>1, <1>4, ParentOfChild
<1>10. kids' \in [Container -> Seq(Child)]
       /\ \A x \in Container :
            /\ IsInjective(kids'[x])
            /\ ToSet(kids'[x]) = (ToSet(kids[x]) \ M) \cup (IF x = p THEN N ELSE {})
  <2>1. \A x \in Container : kids'[x] = IF x = f THEN << >> ELSE IF x = p THEN t ELSE kids[x]
    BY <1>1, <1>3, <1>6 DEF TypeOK
  <2>2. kids' \in [Container -> Seq(Child)]
    BY <1>1, <1>3, <1>6, <1>7, <1>8 DEF TypeOK
  <2>3. ASSUME NEW x \in Container
        PROVE  /\ IsInjective(kids'[x])
               /\ ToSet(kids'[x]) = (ToSet(kids[x]) \ M) \cup (IF x = p THEN N ELSE {})
    <3>1. CASE x = f
      BY <1>1, <1>8, <2>1, <3>1
    <3>2. CASE x = p
      BY <1>1, <1>4, <1>7, <2>1, <3>2
    <3>3. CASE x # f /\ x # p
      BY <1>3, <1>9, <2>1, <3>3
    <3> QED BY <3>1, <3>2, <3>3
  <2> QED BY <2>2, <2>3
<1>11. UNCHANGED <<alive, rc, held, firstAttr, nextAttr>>
  BY DEF ReplaceByFragment
<1>12. /\ up' \in [Node -> Object \cup {Nil}]
       /\ \A n \in Node : up'[n] = IF n \in N THEN p ELSE IF n = old THEN Nil ELSE up[n]
  BY <1>1, <1>3 DEF ReplaceByFragment, TypeOK
<1>13. /\ pool' \in [Node -> Nat] /\ pool'[old] = pool[old] + 1
       /\ \A n \in Node \ {old} : pool'[n] = pool[n]
  BY <1>1, <1>3 DEF ReplaceByFragment, Pooled, TypeOK
<1>14. TypeOK'
  BY <1>3, <1>10, <1>11, <1>12, <1>13 DEF TypeOK
<1>15. ASSUME NEW n \in Node
       PROVE  /\ rc'[n] - pool'[n] = IF n \in N THEN held[n] + 1
                                     ELSE IF n = old THEN held[n] ELSE rc[n] - pool[n]
              /\ rc'[n] > 0 <=> rc[n] > 0
  BY <1>1, <1>4, <1>11, <1>13, CountOfNode
<1> HIDE DEF N
<1>16. Relinked(p, M, N)
  <2>1. Doc \in alive
    BY DEF ReplaceByFragment, CanTake
  <2> QED BY <2>1, <1>1, <1>4, <1>10, <1>11, <1>12, <1>15 DEF Relinked
<1> HIDE DEF M
<1> QED BY <1>2, <1>14, <1>16, RelinkedChildren

-----------------------------------------------------------------------------
(***************************************************************************)
(* Owners, and what happens when the last one goes                          *)
(***************************************************************************)

(* The more is deleted, the more is released.                               *)
LEMMA ReleasedGrows ==
  ASSUME OneHolder(Graph), TypeOK, NEW drop \in [Object -> Nat],
         NEW T \in SUBSET Object, NEW S \in SUBSET T, NEW x \in Object
  PROVE  /\ Released(drop, S, x) \in Nat /\ Released(drop, T, x) \in Nat
         /\ Released(drop, S, x) <= Released(drop, T, x)
<1> DEFINE h(A) == IF \E y \in A : x \in Graph[y] THEN 1 ELSE 0
           q(A) == IF Doc \in A /\ x \in Node THEN pool[x] ELSE 0
<1>1. Cardinality(Holders(S, x)) = h(S) /\ Cardinality(Holders(T, x)) = h(T)
  BY HoldersOf
<1>2. h(S) \in {0, 1} /\ h(T) \in {0, 1} /\ h(S) <= h(T)
  OBVIOUS
<1>3. q(S) \in Nat /\ q(T) \in Nat /\ q(S) <= q(T)
  BY DEF TypeOK
<1>4. Released(drop, S, x) = drop[x] + h(S) + q(S) /\ Released(drop, T, x) = drop[x] + h(T) + q(T)
  BY <1>1 DEF Released
<1> HIDE DEF h, q
<1> QED BY <1>2, <1>3, <1>4

(* Deleted are exactly the objects that lose their last count, those        *)
(* included that lose it because others are deleted.                        *)
LEMMA DeletedLosesAll ==
  ASSUME OwnershipInv, NEW drop \in [Object -> Nat]
  PROVE  /\ Deleted(drop) \subseteq alive
         /\ \A x \in alive : x \in Deleted(drop) <=> rc[x] <= Released(drop, Deleted(drop), x)
<1> DEFINE Ripe == {x \in alive : rc[x] <= Released(drop, alive, x)}
           Closed == {S \in SUBSET Ripe : \A x \in Ripe : rc[x] <= Released(drop, S, x) => x \in S}
           D == Deleted(drop)
<1>1. D = {x \in Ripe : \A S \in Closed : x \in S}
  BY DEF Deleted
<1> HIDE DEF D
<1>2. TypeOK /\ OneHolder(Graph) /\ alive \subseteq Object /\ D \subseteq alive
  BY <1>1 DEF OwnershipInv, TypeOK
<1>3. ASSUME NEW T \in SUBSET alive, NEW S \in SUBSET T, NEW x \in alive,
             rc[x] <= Released(drop, S, x)
      PROVE  rc[x] <= Released(drop, T, x)
  <2>1. /\ Released(drop, S, x) \in Nat /\ Released(drop, T, x) \in Nat
        /\ Released(drop, S, x) <= Released(drop, T, x)
    BY <1>2, ReleasedGrows
  <2>2. rc[x] \in Nat
    BY <1>2 DEF TypeOK
  <2> QED BY <1>3, <2>1, <2>2
<1>4. ASSUME NEW x \in alive, rc[x] <= Released(drop, D, x)
      PROVE  x \in D
  <2>1. x \in Ripe
    BY <1>2, <1>3, <1>4
  <2>2. ASSUME NEW S \in Closed
        PROVE  x \in S
    <3>1. D \subseteq S /\ S \subseteq alive
      BY <1>1
    <3> QED BY <1>3, <1>4, <2>1, <3>1
  <2> QED BY <1>1, <2>1, <2>2
<1>5. ASSUME NEW x \in D
      PROVE  rc[x] <= Released(drop, D, x)
  <2> DEFINE E == {y \in D : rc[y] <= Released(drop, D, y)}
  <2>1. E \subseteq D /\ E \subseteq Ripe
    BY <1>1
  <2>2. ASSUME NEW y \in Ripe, rc[y] <= Released(drop, E, y)
        PROVE  y \in E
    <3>1. rc[y] <= Released(drop, D, y)
      BY <1>2, <1>3, <2>1, <2>2
    <3> QED BY <1>4, <3>1
  <2>3. E \in Closed
    BY <2>1, <2>2
  <2> QED BY <1>1, <2>3
<1> QED BY <1>2, <1>4, <1>5 DEF D

(* What the caller and the pool own of x.                                   *)
Outside(x) == held[x] + (IF x = Doc THEN 0 ELSE pool[x])

(* A release keeps the invariant, if what the caller and the pool give up   *)
(* is what is released, and a document that goes takes its pool with it.    *)
LEMMA ReleaseKeepsInv ==
  ASSUME OwnershipInv, NEW drop \in [Object -> Nat], Release(drop),
         held' \in [Object -> 0..MaxHeld], pool' \in [Node -> Nat],
         \A n \in Node : pool'[n] > 0 => Doc \in alive',
         \A x \in Object :
           Outside(x)' + drop[x] + (IF Doc \in Deleted(drop) /\ x \in Node THEN pool[x] ELSE 0)
             = Outside(x)
  PROVE  OwnershipInv'
<1> DEFINE D == Deleted(drop)
<1>1. /\ alive' = alive \ D
      /\ rc' = [x \in Object |-> IF x \in alive \ D THEN rc[x] - Released(drop, D, x) ELSE 0]
      /\ up' = [n \in Node |-> IF n \in Orphans(D) \cup D THEN Nil ELSE up[n]]
      /\ kids' = [x \in Container |-> IF x \in D THEN << >> ELSE kids[x]]
      /\ firstAttr' = [e \in Element |-> IF e \in D THEN Nil ELSE firstAttr[e]]
      /\ nextAttr' = [a \in Attr |-> IF a \in D THEN Nil ELSE nextAttr[a]]
  BY DEF Release
<1>2. D \subseteq alive /\ \A x \in alive : x \in D <=> rc[x] <= Released(drop, D, x)
  BY DeletedLosesAll
<1>3. /\ TypeOK /\ CountsMatch /\ LinksMatch /\ DeadIsBare
      /\ OneHolder(Graph) /\ Acyclic(Graph) /\ alive \subseteq Object
  BY DEF OwnershipInv, TypeOK
<1>4. /\ Container \subseteq Object /\ Child \subseteq Node /\ Node \subseteq Object
      /\ Doc \notin Node /\ Object = Node \cup {Doc} /\ Element \subseteq Container
      /\ Attr \subseteq Node /\ Nil \notin Object /\ Fragment \subseteq Node
      /\ Element \subseteq Node /\ Child \cap Attr = {}
  BY PocoAssumption DEF Container, Object, Node, Child
<1>5. \A x \in Object :
        Outside(x)' + drop[x] + (IF Doc \in D /\ x \in Node THEN pool[x] ELSE 0) = Outside(x)
  OBVIOUS
<1> HIDE DEF D
<1>6. ASSUME NEW x \in Object
      PROVE  Released(drop, D, x) \in Nat
  <2>1. D \in SUBSET Object
    BY <1>2, <1>3
  <2> QED BY <1>3, <2>1, ReleasedGrows
<1>7. TypeOK'
  <2>1. alive' \subseteq Object
    BY <1>1, <1>3
  <2>2. rc' \in [Object -> Nat]
    BY <1>1, <1>2, <1>3, <1>6 DEF TypeOK
  <2>3. up' \in [Node -> Object \cup {Nil}]
    BY <1>1, <1>3 DEF TypeOK
  <2>4. kids' \in [Container -> Seq(Child)]
    BY <1>1, <1>3 DEF TypeOK
  <2>5. firstAttr' \in [Element -> Attr \cup {Nil}] /\ nextAttr' \in [Attr -> Attr \cup {Nil}]
    BY <1>1, <1>3 DEF TypeOK
  <2> QED BY <2>1, <2>2, <2>3, <2>4, <2>5 DEF TypeOK
<1>8. Graph \in [Object -> SUBSET Object] /\ Graph' \in [Object -> SUBSET Object]
  <2>1. TypeOK' => (Graph \in [Object -> SUBSET Object])'
    BY GraphType, PTL
  <2> QED BY <1>3, <1>7, <2>1, GraphType
<1>9. ASSUME NEW x \in Object, NEW y \in Object
      PROVE  y \in Graph'[x] <=> x \notin D /\ y \in Graph[x]
  <2>1. y \in Graph[x] <=>
          \/ x \in Container /\ y \in ToSet(kids[x])
          \/ x \in Element /\ y = firstAttr[x]
          \/ x \in Attr /\ y = nextAttr[x]
    BY Edges DEF GraphOfLinks
  <2>2. y \in Graph'[x] <=>
          \/ x \in Container /\ y \in ToSet(kids'[x])
          \/ x \in Element /\ y = firstAttr'[x]
          \/ x \in Attr /\ y = nextAttr'[x]
    <3>1. GraphOfLinks'
      BY Edges, PTL
    <3> QED BY <3>1 DEF GraphOfLinks
  <2>3. ToSet(<< >>) = {} /\ y # Nil
    BY <1>4 DEF ToSet
  <2>4. CASE x \in D
    BY <1>1, <2>2, <2>3, <2>4
  <2>5. CASE x \notin D
    <3>1. /\ x \in Container => kids'[x] = kids[x]
          /\ x \in Element => firstAttr'[x] = firstAttr[x]
          /\ x \in Attr => nextAttr'[x] = nextAttr[x]
      BY <1>1, <2>5
    <3> QED BY <2>1, <2>2, <2>5, <3>1
  <2> QED BY <2>4, <2>5
<1>10. OneHolder(Graph') /\ Acyclic(Graph')
  <2>1. \A y \in Object : Graph'[y] \subseteq Graph[y]
    BY <1>8, <1>9
  <2> QED BY <1>3, <2>1, PrunedGraph
<1>11. ASSUME NEW x \in Object
       PROVE  Owned(Graph', x) + Cardinality(Holders(D, x)) = Owned(Graph, x)
  <2>1. Cardinality(Holders(D, x)) = IF \E y \in D : x \in Graph[y] THEN 1 ELSE 0
    BY <1>2, <1>3, HoldersOf
  <2>2. CASE \E y \in D : x \in Graph[y]
    <3>1. Owned(Graph, x) = 1
      BY <1>2, <1>3, <2>2 DEF Owned
    <3>2. \A y \in Object : x \notin Graph'[y]
      BY <1>2, <1>3, <1>9, <2>2 DEF OneHolder
    <3> QED BY <2>1, <2>2, <3>1, <3>2 DEF Owned
  <2>3. CASE ~ \E y \in D : x \in Graph[y]
    <3>1. \A y \in Object : x \in Graph'[y] <=> x \in Graph[y]
      BY <1>9, <2>3
    <3>2. Owned(Graph', x) = Owned(Graph, x) /\ Owned(Graph, x) \in Nat
      BY <3>1 DEF Owned
    <3> QED BY <2>1, <2>3, <3>2
  <2> QED BY <2>2, <2>3
<1>12. ASSUME NEW x \in Object
       PROVE  /\ rc'[x] = Outside(x)' + Owned(Graph', x)
              /\ x \in alive' <=> rc'[x] > 0
  <2> DEFINE o == Owned(Graph, x)
             o2 == Owned(Graph', x)
             h == Cardinality(Holders(D, x))
             q == IF Doc \in D /\ x \in Node THEN pool[x] ELSE 0
             w == Outside(x)
             w2 == Outside(x)'
             l == Released(drop, D, x)
  <2>1. /\ rc[x] = w + o
        /\ x \in alive <=> rc[x] > 0
    BY <1>3 DEF CountsMatch, Outside
  <2>2. o2 + h = o /\ o \in Nat /\ o2 \in Nat
    BY <1>11 DEF Owned
  <2>3. h \in Nat
    BY <1>2, <1>3, HoldersOf
  <2>4. q \in Nat /\ w \in Nat /\ w2 \in Nat /\ rc[x] \in Nat /\ drop[x] \in Nat
    BY <1>3, <1>4, <1>7 DEF TypeOK, Outside
  <2>5. w2 + drop[x] + q = w
    BY <1>5
  <2>6. l = drop[x] + h + q
    BY DEF Released
  <2>7. rc'[x] = IF x \in alive \ D THEN rc[x] - l ELSE 0
    BY <1>1
  <2>8. x \in alive => (x \in D <=> rc[x] <= l)
    BY <1>2
  <2>9. x \in alive' <=> x \in alive /\ x \notin D
    BY <1>1
  <2> HIDE DEF o, o2, h, q, w, w2, l
  <2>10. rc'[x] = w2 + o2 /\ (x \in alive' <=> rc'[x] > 0)
    <3>1. CASE x \in alive /\ x \notin D
      BY <2>1, <2>2, <2>3, <2>4, <2>5, <2>6, <2>7, <2>8, <2>9, <3>1
    <3>2. CASE x \in alive /\ x \in D
      <4>1. w + o <= drop[x] + h + q
        BY <2>1, <2>6, <2>8, <3>2
      <4>2. w2 + o2 = 0
        BY <2>2, <2>3, <2>4, <2>5, <4>1
      <4> QED BY <2>7, <2>9, <3>2, <4>2
    <3>3. CASE x \notin alive
      <4>1. w = 0 /\ o = 0
        BY <2>1, <2>2, <2>4, <3>3
      <4>2. w2 + o2 = 0
        BY <2>2, <2>3, <2>4, <2>5, <4>1
      <4> QED BY <2>7, <2>9, <3>3, <4>2
    <3> QED BY <3>1, <3>2, <3>3
  <2> QED BY <2>10 DEF w2, o2
<1>13. CountsMatch'
  BY <1>12 DEF CountsMatch, Outside
<1>14. ASSUME NEW x \in D, NEW y \in Object
       PROVE  x \notin Graph'[y]
  <2>1. x \in Object /\ rc'[x] = 0
    BY <1>1, <1>2, <1>3
  <2>2. Outside(x)' \in Nat /\ Owned(Graph', x) \in Nat
    BY <1>4, <1>7, <2>1 DEF TypeOK, Outside, Owned
  <2>3. Owned(Graph', x) = 0
    BY <1>12, <2>1, <2>2
  <2> QED BY <2>3 DEF Owned
<1>15. LinksMatch'
  <2>1. ASSUME NEW p \in Container
        PROVE  IsInjective(kids'[p]) /\ \A c \in ToSet(kids'[p]) : up'[c] = p
    <3>1. CASE p \in D
      BY <1>1, <3>1 DEF ToSet, IsInjective
    <3>2. CASE p \notin D
      <4>1. kids'[p] = kids[p]
        BY <1>1, <3>2
      <4>2. ASSUME NEW c \in ToSet(kids[p])
            PROVE  up'[c] = p
        <5>1. c \in Child /\ up[c] = p
          BY <1>3, GraphType DEF LinksMatch
        <5>2. c \notin Orphans(D)
          BY <1>3, <3>2, <5>1 DEF Orphans, LinksMatch
        <5>3. c \in Graph'[p]
          BY <1>4, <1>9, <3>2, <5>1, Edges DEF GraphOfLinks
        <5>4. c \notin D
          BY <1>4, <1>14, <5>3
        <5> QED BY <1>1, <1>4, <5>1, <5>2, <5>4
      <4> QED BY <1>3, <4>1, <4>2 DEF LinksMatch
    <3> QED BY <3>1, <3>2
  <2>2. ASSUME NEW n \in Child \cup Fragment, up'[n] # Nil
        PROVE  up'[n] \in Container /\ n \in ToSet(kids'[up'[n]])
    <3>1. n \in Node
      BY <1>4
    <3>2. n \notin Orphans(D) \cup D /\ up'[n] = up[n]
      BY <1>1, <2>2, <3>1
    <3>3. up[n] \in Container /\ n \in ToSet(kids[up[n]])
      BY <1>3, <2>2, <3>2 DEF LinksMatch
    <3>4. up[n] \notin D
      BY <3>2, <3>3 DEF Orphans
    <3> QED BY <1>1, <3>2, <3>3, <3>4
  <2>3. ASSUME NEW a \in Attr, up'[a] = Nil
        PROVE  nextAttr'[a] = Nil /\ \A y \in Object : a \notin Graph'[y]
    <3>1. a \notin Orphans(D)
      <4>1. \A x \in D \cap Container : ToSet(kids[x]) \subseteq Child
        BY <1>3, GraphType
      <4> QED BY <1>4, <4>1 DEF Orphans
    <3>2. CASE a \in D
      BY <1>1, <1>14, <3>2
    <3>3. CASE a \notin D
      <4>1. up[a] = Nil
        BY <1>1, <1>4, <2>3, <3>1, <3>3
      <4>2. nextAttr[a] = Nil /\ \A y \in Object : a \notin Graph[y]
        BY <1>3, <4>1 DEF LinksMatch
      <4> QED BY <1>1, <1>4, <1>9, <3>3, <4>2
    <3> QED BY <3>2, <3>3
  <2> QED BY <2>1, <2>2, <2>3 DEF LinksMatch
<1>16. DeadIsBare'
  <2> SUFFICES ASSUME NEW x \in Object, x \notin alive'
               PROVE  Graph'[x] = {} /\ (x \in Node => up'[x] = Nil)
    BY DEF DeadIsBare
  <2>1. CASE x \in D
    BY <1>1, <1>8, <1>9, <2>1
  <2>2. CASE x \notin alive
    <3>1. Graph[x] = {} /\ (x \in Node => up[x] = Nil)
      BY <1>3, <2>2 DEF DeadIsBare
    <3> QED BY <1>1, <1>8, <1>9, <3>1
  <2> QED BY <1>1, <2>1, <2>2
<1> QED BY <1>7, <1>10, <1>13, <1>15, <1>16 DEF OwnershipInv, PoolHasDocument

(* An owner goes: what it was the last to hold is deleted.                  *)
LEMMA DropHandleKeepsInv ==
  ASSUME OwnershipInv, NEW x \in Object, DropHandle(x)
  PROVE  OwnershipInv'
<1> DEFINE drop == [y \in Object |-> IF y = x THEN 1 ELSE 0]
<1>1. drop \in [Object -> Nat] /\ \A y \in Object : drop[y] = IF y = x THEN 1 ELSE 0
  OBVIOUS
<1>2. Release(drop)
  BY DEF DropHandle
<1> HIDE DEF drop
<1>3. /\ held[x] > 0 /\ held' = [held EXCEPT ![x] = @ - 1]
      /\ pool' = [n \in Node |-> IF Doc \in alive' THEN pool[n] ELSE 0]
      /\ TypeOK /\ PoolHasDocument
  BY DEF DropHandle, OwnershipInv
<1>4. held' \in [Object -> 0..MaxHeld] /\ pool' \in [Node -> Nat]
      /\ \A n \in Node : pool'[n] > 0 => Doc \in alive'
  BY <1>3, PocoAssumption DEF TypeOK
<1>5. Deleted(drop) \subseteq alive /\ alive' = alive \ Deleted(drop)
  BY <1>1, <1>2, DeletedLosesAll DEF Release
<1>6. ASSUME NEW y \in Object
      PROVE  Outside(y)' + drop[y] + (IF Doc \in Deleted(drop) /\ y \in Node THEN pool[y] ELSE 0)
               = Outside(y)
  <2>1. held[y] \in Nat /\ held'[y] + drop[y] = held[y] /\ held'[y] \in Nat /\ drop[y] \in Nat
    BY <1>1, <1>3, <1>4 DEF TypeOK
  <2>2. CASE y = Doc
    BY <2>1, <2>2, PocoAssumption DEF Outside
  <2>3. CASE y \in Node
    <3>1. y # Doc /\ pool[y] \in Nat
      BY <1>3, <2>3, PocoAssumption DEF TypeOK
    <3>2. CASE Doc \in alive'
      BY <1>3, <1>5, <2>1, <2>3, <3>1, <3>2 DEF Outside
    <3>3. CASE Doc \notin alive'
      <4>1. pool'[y] = 0 /\ (Doc \notin alive => pool[y] = 0)
        BY <1>3, <2>3, <3>1, <3>3 DEF PoolHasDocument
      <4> QED BY <1>5, <2>1, <2>3, <3>1, <3>3, <4>1 DEF Outside
    <3> QED BY <3>2, <3>3
  <2> QED BY <2>2, <2>3 DEF Object
<1> QED BY <1>1, <1>2, <1>4, <1>6, ReleaseKeepsInv

(* The pool gives up all it has; nobody releases the document.              *)
LEMMA CollectGarbageKeepsInv ==
  ASSUME OwnershipInv, CollectGarbage
  PROVE  OwnershipInv'
<1> DEFINE drop == [y \in Object |-> IF y = Doc THEN 0 ELSE pool[y]]
<1>1. TypeOK /\ CountsMatch /\ OneHolder(Graph) /\ Doc \in alive /\ Doc \in Object
  BY DEF OwnershipInv, CollectGarbage, Object
<1>2. drop \in [Object -> Nat] /\ \A y \in Object : drop[y] = IF y = Doc THEN 0 ELSE pool[y]
  BY <1>1 DEF TypeOK, Object
<1>3. Release(drop) /\ pool' = [n \in Node |-> 0] /\ held' = held
  BY DEF CollectGarbage
<1> HIDE DEF drop
<1>4. held' \in [Object -> 0..MaxHeld] /\ pool' \in [Node -> Nat]
      /\ \A n \in Node : pool'[n] > 0 => Doc \in alive'
  BY <1>1, <1>3 DEF TypeOK
<1>5. Doc \notin Deleted(drop)
  <2> DEFINE D == Deleted(drop)
  <2>1. \A y \in Object : Doc \notin Graph[y]
    BY <1>1, EdgesByKind
  <2>2. D \subseteq alive /\ (Doc \in D <=> rc[Doc] <= Released(drop, D, Doc))
    BY <1>1, <1>2, DeletedLosesAll
  <2> HIDE DEF D
  <2>3. D \in SUBSET Object
    BY <1>1, <2>2 DEF TypeOK
  <2>4. Cardinality(Holders(D, Doc)) = 0
    BY <1>1, <2>1, <2>3, HoldersOf
  <2>5. Released(drop, D, Doc) = 0
    BY <1>1, <1>2, <2>4, PocoAssumption DEF Released
  <2>6. rc[Doc] > 0 /\ rc[Doc] \in Nat
    BY <1>1 DEF CountsMatch, TypeOK
  <2> QED BY <2>2, <2>5, <2>6 DEF D
<1>6. ASSUME NEW y \in Object
      PROVE  Outside(y)' + drop[y] + (IF Doc \in Deleted(drop) /\ y \in Node THEN pool[y] ELSE 0)
               = Outside(y)
  <2>1. held[y] \in Nat /\ held'[y] = held[y]
    BY <1>1, <1>3 DEF TypeOK
  <2>2. CASE y = Doc
    BY <1>2, <1>5, <2>1, <2>2 DEF Outside
  <2>3. CASE y # Doc
    <3>1. y \in Node /\ pool[y] \in Nat /\ pool'[y] = 0
      BY <1>1, <1>3, <2>3 DEF Object, TypeOK
    <3> QED BY <1>2, <1>5, <2>1, <2>3, <3>1 DEF Outside
  <2> QED BY <2>2, <2>3
<1> QED BY <1>2, <1>3, <1>4, <1>6, ReleaseKeepsInv

(* The owners of one object change, the tree does not, and the counts       *)
(* follow.                                                                  *)
LEMMA RecountKeepsInv ==
  ASSUME OwnershipInv, TypeOK', UNCHANGED links, Doc \in alive \/ pool' = pool,
         alive \subseteq alive', Doc \in alive <=> Doc \in alive',
         \A x \in Object : /\ rc'[x] - Outside(x)' = rc[x] - Outside(x)
                           /\ x \in alive' <=> rc'[x] > 0
  PROVE  OwnershipInv'
<1>1. /\ TypeOK /\ CountsMatch /\ LinksMatch /\ DeadIsBare /\ PoolHasDocument
      /\ OneHolder(Graph) /\ Acyclic(Graph)
  BY DEF OwnershipInv
<1>2. Graph' = Graph
  BY DEF Graph, Refs, links
<1>3. CountsMatch'
  <2> SUFFICES ASSUME NEW x \in Object
               PROVE  /\ rc'[x] = Outside(x)' + Owned(Graph, x)
                      /\ x \in alive' <=> rc'[x] > 0
    BY <1>2 DEF CountsMatch, Outside
  <2>1. rc[x] = Outside(x) + Owned(Graph, x)
    BY <1>1 DEF CountsMatch, Outside
  <2>2. /\ rc[x] \in Nat /\ rc'[x] \in Nat /\ Outside(x) \in Nat /\ Outside(x)' \in Nat
        /\ Owned(Graph, x) \in Nat
    <3>1. CASE x = Doc
      BY <1>1, <3>1 DEF TypeOK, Outside, Owned
    <3>2. CASE x \in Node
      BY <1>1, <3>2, PocoAssumption DEF TypeOK, Outside, Owned
    <3> QED BY <3>1, <3>2 DEF Object
  <2> QED BY <2>1, <2>2
<1>4. LinksMatch' /\ DeadIsBare'
  BY <1>1, <1>2 DEF LinksMatch, DeadIsBare, links
<1>5. PoolHasDocument'
  BY <1>1 DEF PoolHasDocument
<1> QED BY <1>1, <1>2, <1>3, <1>4, <1>5 DEF OwnershipInv

(* Document::create*, copies of AutoPtrs and autoRelease.                   *)
LEMMA OwningKeepsInv ==
  OwnershipInv /\ Owning => OwnershipInv'
<1> SUFFICES ASSUME OwnershipInv, Owning PROVE OwnershipInv'
  OBVIOUS
<1>1. TypeOK /\ MaxHeld \in Nat \ {0} /\ Doc \notin Node /\ Object = Node \cup {Doc}
  BY PocoAssumption DEF OwnershipInv, Object
<1>2. ASSUME NEW n \in Node, CreateNode(n)
      PROVE  OwnershipInv'
  <2>1. rc[n] = 0 /\ held[n] = 0 /\ pool[n] = 0
    BY <1>2, CountOfNode DEF CreateNode
  <2>2. /\ alive' = alive \cup {n} /\ rc' = [rc EXCEPT ![n] = 1] /\ held' = [held EXCEPT ![n] = 1]
        /\ pool' = pool /\ UNCHANGED links /\ Doc \in alive
    BY <1>2 DEF CreateNode
  <2>3. TypeOK'
    BY <1>1, <2>2 DEF TypeOK, links
  <2>4. ASSUME NEW x \in Object
        PROVE  rc'[x] - Outside(x)' = rc[x] - Outside(x) /\ (x \in alive' <=> rc'[x] > 0)
    <3>1. CASE x = n
      BY <1>1, <2>1, <2>2, <3>1 DEF TypeOK, Outside
    <3>2. CASE x # n
      BY <1>1, <2>2, <3>2 DEF TypeOK, Outside, OwnershipInv, CountsMatch
    <3> QED BY <3>1, <3>2
  <2> QED BY <2>2, <2>3, <2>4, RecountKeepsInv
<1>3. ASSUME NEW x \in Object, Duplicate(x)
      PROVE  OwnershipInv'
  <2>1. /\ x \in alive /\ held[x] < MaxHeld /\ rc' = [rc EXCEPT ![x] = @ + 1]
        /\ held' = [held EXCEPT ![x] = @ + 1] /\ UNCHANGED <<alive, pool, links>>
    BY <1>3 DEF Duplicate
  <2>2. TypeOK'
    BY <1>1, <2>1 DEF TypeOK, links
  <2>3. ASSUME NEW y \in Object
        PROVE  rc'[y] - Outside(y)' = rc[y] - Outside(y) /\ (y \in alive' <=> rc'[y] > 0)
    <3>1. /\ rc[y] \in Nat /\ held[y] \in Nat /\ (y \in alive <=> rc[y] > 0)
          /\ y # Doc => pool[y] \in Nat
      BY <1>1 DEF TypeOK, OwnershipInv, CountsMatch
    <3>2. CASE x = y
      <4>1. rc'[y] = rc[y] + 1 /\ held'[y] = held[y] + 1
        BY <1>1, <2>1, <3>2 DEF TypeOK
      <4>2. alive' = alive /\ pool' = pool /\ y \in alive
        BY <2>1, <3>2
      <4> QED BY <3>1, <4>1, <4>2 DEF Outside
    <3>3. CASE x # y
      BY <1>1, <2>1, <3>1, <3>3 DEF TypeOK, Outside
    <3> QED BY <3>2, <3>3
  <2> QED BY <2>1, <2>2, <2>3, RecountKeepsInv
<1>4. ASSUME NEW n \in Node, AutoRelease(n)
      PROVE  OwnershipInv'
  <2>1. /\ Doc \in alive /\ held[n] > 0 /\ held' = [held EXCEPT ![n] = @ - 1]
        /\ pool' = [pool EXCEPT ![n] = @ + 1] /\ UNCHANGED <<alive, rc, links>>
    BY <1>4 DEF AutoRelease
  <2>2. TypeOK'
    BY <1>1, <2>1 DEF TypeOK, links
  <2>3. ASSUME NEW y \in Object
        PROVE  rc'[y] - Outside(y)' = rc[y] - Outside(y) /\ (y \in alive' <=> rc'[y] > 0)
    <3>1. /\ rc[y] \in Nat /\ held[y] \in Nat /\ (y \in alive <=> rc[y] > 0)
          /\ y # Doc => pool[y] \in Nat
      BY <1>1 DEF TypeOK, OwnershipInv, CountsMatch
    <3>2. CASE n = y
      BY <1>1, <2>1, <3>1, <3>2 DEF TypeOK, Outside
    <3>3. CASE n # y
      BY <1>1, <2>1, <3>1, <3>3 DEF TypeOK, Outside
    <3> QED BY <3>2, <3>3
  <2> QED BY <2>1, <2>2, <2>3, RecountKeepsInv
<1> QED BY <1>2, <1>3, <1>4, DropHandleKeepsInv, CollectGarbageKeepsInv DEF Owning

-----------------------------------------------------------------------------
(***************************************************************************)
(* Attributes                                                               *)
(***************************************************************************)

(* The chain of an element: closed, and every member is first or behind a   *)
(* member, so it has a holder, an element and a life.                       *)
LEMMA ChainMembers ==
  ASSUME OwnershipInv, NEW e \in Element
  PROVE  /\ AttrsOf(e) \subseteq Attr
         /\ firstAttr[e] # Nil => firstAttr[e] \in AttrsOf(e)
         /\ \A a \in AttrsOf(e) : nextAttr[a] # Nil => nextAttr[a] \in AttrsOf(e)
         /\ \A a \in AttrsOf(e) :
              /\ a = firstAttr[e] \/ \E b \in AttrsOf(e) : nextAttr[b] = a
              /\ up[a] # Nil /\ a \in alive /\ firstAttr[e] # Nil
<1> DEFINE A == AttrsOf(e)
           Closed == {S \in SUBSET Attr :
                        /\ firstAttr[e] # Nil => firstAttr[e] \in S
                        /\ \A a \in S : nextAttr[a] # Nil => nextAttr[a] \in S}
<1>1. A = {a \in Attr : \A S \in Closed : a \in S}
  BY DEF AttrsOf
<1> HIDE DEF A
<1>2. firstAttr[e] \in Attr \cup {Nil} /\ \A a \in Attr : nextAttr[a] \in Attr \cup {Nil}
  BY DEF OwnershipInv, TypeOK
<1>3. A \subseteq Attr /\ (firstAttr[e] # Nil => firstAttr[e] \in A)
  BY <1>1, <1>2
<1>4. ASSUME NEW a \in A, nextAttr[a] # Nil
      PROVE  nextAttr[a] \in A
  BY <1>1, <1>2, <1>3, <1>4
<1>5. ASSUME NEW a \in A
      PROVE  a = firstAttr[e] \/ \E b \in A : nextAttr[b] = a
  <2> SUFFICES ASSUME a # firstAttr[e], \A b \in A : nextAttr[b] # a
               PROVE  FALSE
    OBVIOUS
  <2> DEFINE S == A \ {a}
  <2>1. S \in Closed
    BY <1>3, <1>4
  <2>2. a \in S
    BY <1>1, <2>1
  <2> QED BY <2>2
<1>6. ASSUME NEW a \in A
      PROVE  up[a] # Nil /\ a \in alive
  <2>1. Attr \subseteq Object /\ Element \subseteq Object
    BY DEF Object, Node, Child
  <2>2. \E y \in Object : a \in Graph[y]
    <3>1. CASE a = firstAttr[e]
      BY <1>3, <2>1, <3>1, Edges DEF GraphOfLinks
    <3>2. CASE \E b \in A : nextAttr[b] = a
      BY <1>3, <2>1, <3>2, Edges DEF GraphOfLinks
    <3> QED BY <1>5, <3>1, <3>2
  <2> QED BY <1>3, <2>1, <2>2, OwnersAndOwned DEF OwnershipInv, LinksMatch
<1>7. ASSUME NEW a \in A
      PROVE  firstAttr[e] # Nil
  <2> SUFFICES ASSUME firstAttr[e] = Nil PROVE FALSE
    OBVIOUS
  <2>1. {} \in Closed
    OBVIOUS
  <2> QED BY <1>1, <2>1
<1> QED BY <1>3, <1>4, <1>5, <1>6, <1>7 DEF A

(* A chain that begins ends: otherwise the links would map the finitely     *)
(* many members one to one onto themselves, and the first member would have *)
(* a second holder.                                                         *)
LEMMA ChainEnds ==
  ASSUME OwnershipInv, NEW e \in Element, firstAttr[e] # Nil
  PROVE  \E b \in AttrsOf(e) : nextAttr[b] = Nil
<1> DEFINE A == AttrsOf(e)
           f == [a \in A |-> nextAttr[a]]
<1> SUFFICES ASSUME \A b \in A : nextAttr[b] # Nil
             PROVE  FALSE
  OBVIOUS
<1>1. /\ A \subseteq Attr /\ firstAttr[e] \in A /\ Attr \subseteq Object /\ e \in Object
      /\ e \notin Attr
      /\ \A a \in A : nextAttr[a] \in A
  BY ChainMembers, PocoAssumption DEF Object, Node, Child
<1> HIDE DEF A
<1>2. \A a \in A : a \in Object /\ nextAttr[a] \in Object /\ nextAttr[a] \in Graph[a]
  BY <1>1, Edges DEF GraphOfLinks
<1>3. firstAttr[e] \in Graph[e]
  BY <1>1, Edges DEF GraphOfLinks
<1>4. OneHolder(Graph)
  BY DEF OwnershipInv
<1>5. f \in [A -> A]
  BY <1>1
<1>6. \A a, b \in A : f[a] = f[b] => a = b
  BY <1>2, <1>4 DEF OneHolder
<1>7. f \in Injection(A, A)
  BY <1>5, <1>6 DEF Injection, IsInjective
<1>8. IsFiniteSet(A)
  BY <1>1, PocoAssumption, FS_Subset
<1>9. f \in Surjection(A, A)
  BY <1>7, <1>8, FS_Injection
<1>10. PICK b \in A : f[b] = firstAttr[e]
  BY <1>1, <1>9 DEF Surjection
<1>11. firstAttr[e] \in Graph[b]
  BY <1>2, <1>10
<1> QED BY <1>1, <1>2, <1>3, <1>4, <1>11 DEF OneHolder

(* The graph of a heap whose attributes are linked by fa and na.            *)
Linked(fa, na) ==
  [x \in Object |->
     (IF x \in Container THEN ToSet(kids[x]) ELSE {})
       \cup (IF x \in Element THEN {fa[x]} \ {Nil} ELSE {})
       \cup (IF x \in Attr THEN {na[x]} \ {Nil} ELSE {})]

(* Its edges, link by link.                                                 *)
LEMMA LinkedEdges ==
  ASSUME TypeOK, NEW fa \in [Element -> Attr \cup {Nil}], NEW na \in [Attr -> Attr \cup {Nil}]
  PROVE  /\ Linked(fa, na) \in [Object -> SUBSET Object]
         /\ \A x, y \in Object :
              y \in Linked(fa, na)[x] <=>
                \/ x \in Container /\ y \in ToSet(kids[x])
                \/ x \in Element /\ y = fa[x]
                \/ x \in Attr /\ y = na[x]
<1> DEFINE G == Linked(fa, na)
<1>1. ASSUME NEW x \in Object
      PROVE  G[x] = (IF x \in Container THEN ToSet(kids[x]) ELSE {})
                      \cup (IF x \in Element THEN {fa[x]} \ {Nil} ELSE {})
                      \cup (IF x \in Attr THEN {na[x]} \ {Nil} ELSE {})
  BY DEF Linked
<1>2. ASSUME NEW x \in Object
      PROVE  G[x] \subseteq Object
  <2>1. x \in Container => ToSet(kids[x]) \subseteq Object
    BY GraphType DEF Object, Node
  <2>2. x \in Element => {fa[x]} \ {Nil} \subseteq Object
    BY DEF Object, Node
  <2>3. x \in Attr => {na[x]} \ {Nil} \subseteq Object
    BY DEF Object, Node
  <2> QED BY <1>1, <2>1, <2>2, <2>3
<1>3. G \in [Object -> SUBSET Object]
  BY <1>2 DEF Linked
<1>4. ASSUME NEW x \in Object, NEW y \in Object
      PROVE  y \in G[x] <=>
               \/ x \in Container /\ y \in ToSet(kids[x])
               \/ x \in Element /\ y = fa[x]
               \/ x \in Attr /\ y = na[x]
  <2>1. y # Nil
    BY PocoAssumption
  <2> QED BY <1>1, <2>1
<1> QED BY <1>3, <1>4

(* removeAttributeNode of old: what is before old in the chain goes on to   *)
(* what is behind it.                                                       *)
LEMMA SkippedAttribute ==
  ASSUME OwnershipInv, NEW e \in Element, NEW old \in AttrsOf(e)
  PROVE  LET fa == [firstAttr EXCEPT ![e] = FirstWithout(e, old)]
             na == NextWithout(old)
             G  == Linked(fa, na)
         IN  /\ fa \in [Element -> Attr \cup {Nil}] /\ na \in [Attr -> Attr \cup {Nil}]
             /\ OneHolder(G) /\ Acyclic(G)
             /\ \A x \in Object : Owned(G, x) = IF x = old THEN 0 ELSE Owned(Graph, x)
             /\ \A x \in Object : G[x] # {} => x \in alive
             /\ fa[e] # Nil => \E b \in AttrsOf(e) \ {old} : na[b] = Nil
<1> DEFINE fa == [firstAttr EXCEPT ![e] = FirstWithout(e, old)]
           na == NextWithout(old)
           G  == Linked(fa, na)
           A  == AttrsOf(e)
<1>1. /\ TypeOK /\ OneHolder(Graph) /\ Acyclic(Graph) /\ Graph \in [Object -> SUBSET Object]
      /\ \A x \in Object \ alive : Graph[x] = {}
  BY GraphType DEF OwnershipInv, DeadIsBare
<1>2. /\ A \subseteq Attr /\ old \in Attr /\ old \in Object /\ e \in Object
      /\ Attr \cap Child = {} /\ Attr \cap Element = {} /\ Attr \subseteq Object
      /\ Element \subseteq Object /\ Nil \notin Object /\ Attr \cap Container = {}
  BY ChainMembers, PocoAssumption DEF Object, Node, Child, Container
<1>3. nextAttr[old] \in Attr \cup {Nil} /\ firstAttr[e] \in Attr \cup {Nil} /\ firstAttr[e] # Nil
  BY <1>1, <1>2, ChainMembers DEF TypeOK
<1>4. fa \in [Element -> Attr \cup {Nil}] /\ na \in [Attr -> Attr \cup {Nil}]
  BY <1>1, <1>2, <1>3 DEF TypeOK, FirstWithout, NextWithout
<1>5. /\ \A y \in Element : fa[y] = IF firstAttr[y] = old /\ y = e THEN nextAttr[old] ELSE firstAttr[y]
      /\ \A b \in Attr : na[b] = IF b = old THEN Nil
                                 ELSE IF nextAttr[b] = old THEN nextAttr[old] ELSE nextAttr[b]
  BY <1>1 DEF TypeOK, FirstWithout, NextWithout
<1> HIDE DEF fa, na
<1>6. G \in [Object -> SUBSET Object]
      /\ \A x, y \in Object :
           y \in G[x] <=>
             \/ x \in Container /\ y \in ToSet(kids[x])
             \/ x \in Element /\ y = fa[x]
             \/ x \in Attr /\ y = na[x]
  BY <1>1, <1>4, LinkedEdges
<1> HIDE DEF G
<1>7. \A x, y \in Object :
        y \in Graph[x] <=>
          \/ x \in Container /\ y \in ToSet(kids[x])
          \/ x \in Element /\ y = firstAttr[x]
          \/ x \in Attr /\ y = nextAttr[x]
  BY Edges DEF GraphOfLinks
<1>8. PICK p \in Object : /\ old \in Graph[p]
                          /\ (p = e /\ firstAttr[e] = old) \/ (p \in A /\ nextAttr[p] = old)
  <2>1. old = firstAttr[e] \/ \E b \in A : nextAttr[b] = old
    BY ChainMembers
  <2> QED BY <1>2, <1>7, <2>1
<1>9. p # old
  <2> SUFFICES ASSUME p = old PROVE FALSE
    OBVIOUS
  <2>1. {old} \in SUBSET Object /\ {old} # {} /\ \A x \in {old} : \E y \in {old} : x \in Graph[y]
    BY <1>2, <1>8
  <2> QED BY <1>1, <2>1 DEF Acyclic
<1> DEFINE N == {nextAttr[old]} \ {Nil}
           M == N \cup {old}
<1>10. N \subseteq Graph[old] /\ N \subseteq Object /\ N \subseteq Attr
  BY <1>2, <1>3, <1>7
<1>11. ASSUME NEW x \in Object, NEW y \in Object
       PROVE  y \in G[x] <=> (y \in Graph[x] /\ y \notin M) \/ (x = p /\ y \in N)
  <2>1. \A z \in Object : old \in Graph[z] => z = p
    BY <1>1, <1>2, <1>8 DEF OneHolder
  <2>2. \A z \in Object : nextAttr[old] # Nil /\ nextAttr[old] \in Graph[z] => z = old
    BY <1>1, <1>2, <1>3, <1>10 DEF OneHolder
  <2>3. x \in Container => ToSet(kids[x]) \subseteq Child
    BY <1>1, GraphType
  <2>4. CASE x \in Attr
    <3>1. (y \in G[x] <=> y = na[x]) /\ (y \in Graph[x] <=> y = nextAttr[x])
      BY <1>2, <1>6, <1>7, <2>4
    <3>2. p \in Element => p = e
      BY <1>2, <1>8
    <3>3. CASE x = old
      BY <1>2, <1>5, <1>9, <3>1, <3>3
    <3>4. CASE x # old /\ nextAttr[x] = old
      <4>1. x = p
        BY <1>2, <1>7, <2>1, <2>4, <3>4
      <4> QED BY <1>2, <1>5, <2>4, <3>1, <3>4, <4>1
    <3>5. CASE x # old /\ nextAttr[x] # old
      <4>1. x # p
        BY <1>2, <1>8, <2>4, <3>5
      <4>2. nextAttr[x] # Nil => nextAttr[x] # nextAttr[old]
        BY <1>1, <1>2, <1>7, <2>2, <2>4, <3>5 DEF TypeOK
      <4> QED BY <1>2, <1>5, <2>4, <3>1, <3>5, <4>1, <4>2
    <3> QED BY <3>3, <3>4, <3>5
  <2>5. CASE x \in Element
    <3>1. /\ y \in G[x] <=> (x \in Container /\ y \in ToSet(kids[x])) \/ y = fa[x]
          /\ y \in Graph[x] <=> (x \in Container /\ y \in ToSet(kids[x])) \/ y = firstAttr[x]
      BY <1>2, <1>6, <1>7, <2>5
    <3>2. CASE firstAttr[x] = old
      <4>1. x = p /\ x = e
        BY <1>2, <1>7, <1>8, <2>1, <2>5, <3>2
      <4> QED BY <1>2, <1>5, <1>10, <2>3, <2>5, <3>1, <3>2, <4>1
    <3>3. CASE firstAttr[x] # old
      <4>1. x # p
        BY <1>2, <1>8, <2>5, <3>3
      <4>2. firstAttr[x] # Nil => firstAttr[x] # nextAttr[old]
        BY <1>1, <1>2, <1>7, <2>2, <2>5 DEF TypeOK
      <4> QED BY <1>2, <1>5, <1>10, <2>3, <2>5, <3>1, <3>3, <4>1, <4>2
    <3> QED BY <3>2, <3>3
  <2>6. CASE x \notin Attr /\ x \notin Element
    <3>1. x # p
      BY <1>2, <1>8, <2>6
    <3> QED BY <1>2, <1>6, <1>7, <1>10, <2>3, <2>6, <3>1
  <2> QED BY <2>4, <2>5, <2>6
<1>12. Regrafted(Graph, G, p, M, N)
  BY <1>1, <1>6, <1>8, <1>10, <1>11 DEF Regrafted
<1>13. Acyclic(G)
  BY <1>1, <1>2, <1>8, <1>10, <1>12, SkipAcyclic
<1>14. OneHolder(G)
       /\ \A x \in Object : Owned(G, x) = IF x \in N THEN 1 ELSE IF x \in M THEN 0 ELSE Owned(Graph, x)
  BY <1>1, <1>12, RegraftHolders
<1>15. \A x \in N : x # old /\ Owned(Graph, x) = 1
  <2> SUFFICES ASSUME NEW x \in N PROVE x # old /\ Owned(Graph, x) = 1
    OBVIOUS
  <2>1. x \in Graph[old]
    BY <1>10
  <2>2. x # old
    BY <1>1, <1>2, <1>8, <1>9, <2>1 DEF OneHolder
  <2> QED BY <1>2, <2>1, <2>2 DEF Owned
<1>16. \A x \in Object : Owned(G, x) = IF x = old THEN 0 ELSE Owned(Graph, x)
  BY <1>14, <1>15
<1>17. \A x \in Object : G[x] # {} => x \in alive
  <2> SUFFICES ASSUME NEW x \in Object, NEW y \in G[x] PROVE x \in alive
    OBVIOUS
  <2>1. y \in Graph[x] \/ x = p
    BY <1>6, <1>11
  <2> QED BY <1>1, <1>8, <2>1
<1>18. ASSUME fa[e] # Nil
       PROVE  \E b \in A \ {old} : na[b] = Nil
  <2>1. PICK b \in A : nextAttr[b] = Nil
    BY <1>3, ChainEnds
  <2>2. CASE b # old
    BY <1>2, <1>5, <2>1, <2>2
  <2>3. CASE b = old
    <3>1. firstAttr[e] # old
      BY <1>5, <1>18, <2>1, <2>3
    <3>2. p \in A /\ nextAttr[p] = old
      BY <1>8, <3>1
    <3>3. na[p] = Nil
      BY <1>2, <1>5, <1>9, <2>1, <2>3, <3>2
    <3> QED BY <1>9, <3>2, <3>3
  <2> QED BY <2>2, <2>3
<1> QED BY <1>4, <1>13, <1>14, <1>16, <1>17, <1>18 DEF G, fa, na

(* The chain of e, if it has one, ends in all, and a is not in it.          *)
Unchained(fa, na, e, a, all) ==
  /\ fa \in [Element -> Attr \cup {Nil}] /\ na \in [Attr -> Attr \cup {Nil}]
  /\ OneHolder(Linked(fa, na)) /\ Acyclic(Linked(fa, na))
  /\ na[a] = Nil /\ a \notin all
  /\ \A y \in Object : a \notin Linked(fa, na)[y]
  /\ fa[e] # Nil => \E b \in all : na[b] = Nil

(* The links with a behind that end.                                        *)
Appended(fa, na, e, a, all, fa2, na2) ==
  /\ fa[e] = Nil => fa2 = [fa EXCEPT ![e] = a] /\ na2 = na
  /\ fa[e] # Nil => fa2 = fa /\ na2 = [na EXCEPT ![CHOOSE b \in all : na[b] = Nil] = a]

(* setAttributeNode of a, which is in no chain: the end of the chain of e,  *)
(* or e itself, gains it.                                                   *)
LEMMA ChainedAttribute ==
  ASSUME TypeOK, NEW fa, NEW na, NEW e \in Element, NEW a \in Attr, NEW all \in SUBSET Attr,
         Unchained(fa, na, e, a, all), NEW fa2, NEW na2, Appended(fa, na, e, a, all, fa2, na2)
  PROVE  LET G == Linked(fa, na)
             G2 == Linked(fa2, na2)
         IN  /\ fa2 \in [Element -> Attr \cup {Nil}] /\ na2 \in [Attr -> Attr \cup {Nil}]
             /\ OneHolder(G2) /\ Acyclic(G2)
             /\ \A x \in Object : Owned(G2, x) = IF x = a THEN 1 ELSE Owned(G, x)
             /\ \A x \in Object : G2[x] # {} => G[x] # {} \/ x = e \/ x \in all
             /\ \A b \in Attr : na2[b] = na[b] \/ b \in all
<1> DEFINE G == Linked(fa, na)
           G2 == Linked(fa2, na2)
<1> USE DEF Unchained, Appended
<1>1. /\ a \in Object /\ e \in Object /\ Attr \subseteq Object /\ Attr \cap Element = {}
      /\ Attr \cap Container = {} /\ a \notin Child /\ Element \subseteq Object
      /\ a # Nil /\ Nil \notin Object
  BY PocoAssumption DEF Object, Node, Child, Container
<1>2. PICK p \in Object :
        /\ p = e \/ p \in all
        /\ p = e => fa[e] = Nil /\ fa2 = [fa EXCEPT ![e] = a] /\ na2 = na
        /\ p \in all => fa2 = fa /\ na2 = [na EXCEPT ![p] = a] /\ na[p] = Nil
  <2>1. CASE fa[e] = Nil
    BY <1>1, <2>1
  <2>2. CASE fa[e] # Nil
    <3> DEFINE b == CHOOSE b \in all : na[b] = Nil
    <3>1. b \in all /\ na[b] = Nil
      BY <2>2
    <3>2. fa2 = fa /\ na2 = [na EXCEPT ![b] = a]
      BY <2>2
    <3> HIDE DEF b
    <3>3. b \in Object /\ b # e
      BY <1>1, <3>1
    <3> QED BY <3>1, <3>2, <3>3
  <2> QED BY <2>1, <2>2
<1>3. fa2 \in [Element -> Attr \cup {Nil}] /\ na2 \in [Attr -> Attr \cup {Nil}]
  BY <1>2
<1>4. /\ G \in [Object -> SUBSET Object] /\ G2 \in [Object -> SUBSET Object]
      /\ \A x, y \in Object :
           /\ y \in G[x] <=> \/ x \in Container /\ y \in ToSet(kids[x])
                             \/ x \in Element /\ y = fa[x]
                             \/ x \in Attr /\ y = na[x]
           /\ y \in G2[x] <=> \/ x \in Container /\ y \in ToSet(kids[x])
                              \/ x \in Element /\ y = fa2[x]
                              \/ x \in Attr /\ y = na2[x]
  BY <1>3, LinkedEdges
<1>5. OneHolder(G) /\ Acyclic(G) /\ \A y \in Object : a \notin G[y]
  OBVIOUS
<1> HIDE DEF G, G2
<1>6. ASSUME NEW x \in Object, NEW y \in Object
      PROVE  y \in G2[x] <=> (y \in G[x] /\ y \notin {a}) \/ (x = p /\ y \in {a})
  <2>1. x \in Container => a \notin ToSet(kids[x])
    BY <1>1, GraphType
  <2>2. CASE p = e
    <3>1. fa2 = [fa EXCEPT ![e] = a] /\ na2 = na /\ fa[e] = Nil
      BY <1>2, <2>2
    <3> QED BY <1>1, <1>4, <1>5, <2>1, <2>2, <3>1
  <2>3. CASE p \in all
    <3>1. fa2 = fa /\ na2 = [na EXCEPT ![p] = a] /\ na[p] = Nil
      BY <1>2, <2>3
    <3> QED BY <1>1, <1>4, <1>5, <2>1, <2>3, <3>1
  <2> QED BY <1>2, <2>2, <2>3
<1>7. Regrafted(G, G2, p, {a}, {a})
  BY <1>1, <1>4, <1>6 DEF Regrafted
<1>8. Acyclic(G2)
  <2> DEFINE K == {a}
  <2>1. p # a
    BY <1>1, <1>2
  <2>2. G[a] = {}
    BY <1>1, <1>4
  <2>3. {a} \subseteq K /\ p \notin K /\ \A y \in Object \cap K : G[y] \subseteq K
    BY <2>1, <2>2
  <2> HIDE DEF K
  <2> QED BY <1>5, <1>7, <2>3, RegraftAcyclic
<1>9. OneHolder(G2)
      /\ \A x \in Object :
           Owned(G2, x) = IF x \in {a} THEN 1 ELSE IF x \in {a} THEN 0 ELSE Owned(G, x)
  BY <1>5, <1>7, RegraftHolders
<1>10. \A x \in Object : Owned(G2, x) = IF x = a THEN 1 ELSE Owned(G, x)
  BY <1>9
<1>11. ASSUME NEW x \in Object, G2[x] # {}
       PROVE  G[x] # {} \/ x = e \/ x \in all
  <2>1. PICK y \in Object : y \in G2[x]
    BY <1>4, <1>11
  <2>2. y \in G[x] \/ x = p
    BY <1>6, <2>1
  <2> QED BY <1>2, <2>2
<1>12. \A b \in Attr : na2[b] = na[b] \/ b \in all
  BY <1>1, <1>2
<1> QED BY <1>3, <1>8, <1>9, <1>10, <1>11, <1>12 DEF G, G2

(* The chains change: e gains the members of N, what M has beside is left   *)
(* to the pool, and the counts follow.                                      *)
Rechained(e, M, N) ==
  /\ UNCHANGED <<held, kids>>
  /\ Doc \in alive /\ e \in alive /\ alive' = alive \cup N
  /\ OneHolder(Graph') /\ Acyclic(Graph')
  /\ \A x \in Object :
       /\ Owned(Graph', x) = IF x \in N THEN 1 ELSE IF x \in M THEN 0 ELSE Owned(Graph, x)
       /\ Graph'[x] # {} => x \in alive
  /\ \A n \in Node :
       /\ up'[n] = IF n \in N THEN e ELSE IF n \in M THEN Nil ELSE up[n]
       /\ rc'[n] - pool'[n] = IF n \in N THEN held[n] + 1
                              ELSE IF n \in M THEN held[n] ELSE rc[n] - pool[n]
       /\ rc'[n] > 0 <=> n \in alive'
  /\ rc'[Doc] = rc[Doc]
  /\ \A b \in Attr : up'[b] = Nil => nextAttr'[b] = Nil

(* Such a step keeps the invariant.                                         *)
LEMMA AttributesKeepInv ==
  ASSUME OwnershipInv, TypeOK', NEW e \in Element, NEW M \in SUBSET Attr, NEW N \in SUBSET M,
         Rechained(e, M, N)
  PROVE  OwnershipInv'
<1> USE DEF Rechained
<1>1. /\ TypeOK /\ CountsMatch /\ LinksMatch /\ DeadIsBare /\ PoolHasDocument
      /\ OneHolder(Graph) /\ Acyclic(Graph)
  BY DEF OwnershipInv
<1>2. /\ Container \subseteq Object /\ Child \subseteq Node /\ Node \subseteq Object
      /\ Child \cap Attr = {} /\ Doc \notin Node /\ Object = Node \cup {Doc}
      /\ Element \subseteq Container /\ Attr \subseteq Node /\ Nil \notin Object
      /\ Fragment \subseteq Node /\ Fragment \cap Attr = {}
  BY PocoAssumption DEF Container, Object, Node, Child
<1>3. CountsMatch'
  <2> SUFFICES ASSUME NEW x \in Object
               PROVE  /\ rc'[x] = held'[x] + (IF x = Doc THEN 0 ELSE pool'[x]) + Owned(Graph', x)
                      /\ x \in alive' <=> rc'[x] > 0
    BY DEF CountsMatch
  <2> DEFINE o == Owned(Graph, x)
             o2 == Owned(Graph', x)
  <2>1. /\ o2 = IF x \in N THEN 1 ELSE IF x \in M THEN 0 ELSE o
        /\ o \in Nat /\ o2 \in Nat
    BY DEF Owned
  <2>2. /\ rc[x] = held[x] + (IF x = Doc THEN 0 ELSE pool[x]) + o
        /\ x \in alive <=> rc[x] > 0
    BY <1>1 DEF CountsMatch
  <2>3. /\ held[x] \in Nat /\ rc[x] \in Nat /\ rc'[x] \in Nat /\ held'[x] = held[x]
        /\ x \in Node => pool[x] \in Nat /\ pool'[x] \in Nat
    BY <1>1 DEF TypeOK
  <2> HIDE DEF o, o2
  <2>4. CASE x = Doc
    BY <1>2, <2>1, <2>2, <2>3, <2>4 DEF o2
  <2>5. CASE x \in Node
    <3>1. /\ rc'[x] - pool'[x] = IF x \in N THEN held[x] + 1
                                 ELSE IF x \in M THEN held[x] ELSE rc[x] - pool[x]
          /\ rc'[x] > 0 <=> x \in alive'
      BY <2>5
    <3>2. x # Doc
      BY <1>2, <2>5
    <3> HIDE DEF Rechained
    <3>3. rc'[x] = held'[x] + pool'[x] + o2
      BY <2>1, <2>2, <2>3, <2>5, <3>1, <3>2
    <3> QED BY <3>1, <3>2, <3>3 DEF o2
  <2> QED BY <1>2, <2>4, <2>5
<1>4. LinksMatch'
  <2>1. \A c \in Child \cup Fragment : up'[c] = up[c]
    BY <1>2
  <2>2. \A x \in Container : ToSet(kids[x]) \subseteq Child
    BY <1>1, GraphType
  <2>3. \A x \in Container : IsInjective(kids'[x]) /\ \A c \in ToSet(kids'[x]) : up'[c] = x
    BY <1>1, <2>1, <2>2 DEF LinksMatch
  <2>4. \A n \in Child \cup Fragment :
          up'[n] # Nil => up'[n] \in Container /\ n \in ToSet(kids'[up'[n]])
    BY <1>1, <2>1 DEF LinksMatch
  <2>5. ASSUME NEW a \in Attr, up'[a] = Nil, NEW y \in Object
        PROVE  a \notin Graph'[y]
    <3>1. a \notin N
      BY <1>2, <2>5
    <3>2. a \in M \/ up[a] = Nil
      BY <1>2, <2>5, <3>1
    <3>3. up[a] = Nil => Owned(Graph, a) = 0
      BY <1>1, <1>2 DEF LinksMatch, Owned
    <3>4. Owned(Graph', a) = 0
      BY <1>2, <3>1, <3>2, <3>3
    <3> QED BY <3>4 DEF Owned
  <2> QED BY <2>3, <2>4, <2>5 DEF LinksMatch
<1>5. DeadIsBare'
  <2> SUFFICES ASSUME NEW x \in Object, x \notin alive'
               PROVE  Graph'[x] = {} /\ (x \in Node => up'[x] = Nil)
    BY DEF DeadIsBare
  <2>1. x \in Node => up[x] = Nil
    BY <1>1 DEF DeadIsBare
  <2> QED BY <2>1
<1>6. PoolHasDocument'
  BY DEF PoolHasDocument
<1> QED BY <1>3, <1>4, <1>5, <1>6 DEF OwnershipInv

(* A member of a chain has an owner there, and an attribute without an      *)
(* element is in no chain and has none behind it.                           *)
LEMMA InOrOutOfChains ==
  ASSUME OwnershipInv, NEW e \in Element, NEW a \in Attr
  PROVE  /\ a \in AttrsOf(e) => Owned(Graph, a) = 1 /\ up[a] # Nil
         /\ up[a] = Nil => /\ Owned(Graph, a) = 0
                           /\ nextAttr[a] = Nil
                           /\ a \notin AttrsOf(e)
                           /\ \A y \in Object : a \notin Graph[y]
<1>1. Attr \subseteq Object /\ Element \subseteq Object /\ e \notin Attr
  BY PocoAssumption DEF Object, Node, Child
<1>2. ASSUME a \in AttrsOf(e)
      PROVE  Owned(Graph, a) = 1 /\ up[a] # Nil
  <2>1. /\ AttrsOf(e) \subseteq Attr /\ up[a] # Nil
        /\ a = firstAttr[e] \/ \E b \in AttrsOf(e) : nextAttr[b] = a
    BY <1>2, ChainMembers
  <2>2. \E y \in Object : a \in Graph[y]
    BY <1>1, <2>1, Edges DEF GraphOfLinks
  <2> QED BY <2>1, <2>2 DEF Owned
<1>3. ASSUME up[a] = Nil
      PROVE  nextAttr[a] = Nil /\ \A y \in Object : a \notin Graph[y]
  BY <1>3 DEF OwnershipInv, LinksMatch
<1> QED BY <1>2, <1>3 DEF Owned

(* The graph is that of its lists and its chains.                           *)
LEMMA GraphIsLinked == Graph = Linked(firstAttr, nextAttr)
BY DEF Graph, Refs, Linked

(* removeAttributeNode keeps the invariant.                                 *)
LEMMA RemoveAttributeKeepsInv ==
  ASSUME OwnershipInv, NEW e \in Element, NEW old \in Attr, RemoveAttributeNode(e, old)
  PROVE  OwnershipInv'
<1> DEFINE fa == [firstAttr EXCEPT ![e] = FirstWithout(e, old)]
           na == NextWithout(old)
           G  == Linked(fa, na)
<1>1. /\ Doc \in alive /\ e \in alive /\ old \in AttrsOf(e) /\ TypeOK /\ LinksMatch
      /\ firstAttr' = fa /\ nextAttr' = na /\ up' = [up EXCEPT ![old] = Nil]
      /\ pool' = [pool EXCEPT ![old] = @ + 1] /\ UNCHANGED <<alive, rc, held, kids>>
  BY DEF RemoveAttributeNode, Pooled, OwnershipInv
<1>2. /\ fa \in [Element -> Attr \cup {Nil}] /\ na \in [Attr -> Attr \cup {Nil}]
      /\ OneHolder(G) /\ Acyclic(G)
      /\ \A x \in Object : Owned(G, x) = IF x = old THEN 0 ELSE Owned(Graph, x)
      /\ \A x \in Object : G[x] # {} => x \in alive
  BY <1>1, SkippedAttribute
<1>3. \A b \in Attr : na[b] = IF b = old THEN Nil
                             ELSE IF nextAttr[b] = old THEN nextAttr[old] ELSE nextAttr[b]
  BY DEF NextWithout
<1>4. Graph' = G
  BY <1>1 DEF Graph, Refs, Linked
<1> HIDE DEF fa, na, G
<1>5. old \in Node /\ Nil \notin Attr /\ Doc \notin Node
  BY PocoAssumption DEF Object, Node
<1>6. TypeOK'
  BY <1>1, <1>2, <1>5 DEF TypeOK
<1>7. ASSUME NEW n \in Node
      PROVE  /\ up'[n] = IF n = old THEN Nil ELSE up[n]
             /\ rc'[n] - pool'[n] = IF n = old THEN held[n] ELSE rc[n] - pool[n]
             /\ rc'[n] > 0 <=> n \in alive'
  <2>1. /\ rc[n] = held[n] + pool[n] + Owned(Graph, n) /\ (n \in alive <=> rc[n] > 0)
        /\ rc[n] \in Nat /\ held[n] \in Nat /\ pool[n] \in Nat
    BY CountOfNode
  <2>2. Owned(Graph, old) = 1
    BY <1>1, InOrOutOfChains
  <2>3. /\ up'[n] = IF n = old THEN Nil ELSE up[n]
        /\ pool'[n] = IF n = old THEN pool[n] + 1 ELSE pool[n]
        /\ rc'[n] = rc[n] /\ alive' = alive
    BY <1>1, <1>5 DEF TypeOK
  <2> QED BY <2>1, <2>2, <2>3
<1>8. \A b \in Attr : up'[b] = Nil => nextAttr'[b] = Nil
  <2> SUFFICES ASSUME NEW b \in Attr, up'[b] = Nil PROVE nextAttr'[b] = Nil
    OBVIOUS
  <2>1. b = old \/ up[b] = Nil
    BY <1>5, <1>7 DEF Node
  <2>2. up[b] = Nil => nextAttr[b] = Nil
    BY <1>1 DEF LinksMatch
  <2> QED BY <1>1, <1>3, <1>5, <2>1, <2>2
<1>9. Rechained(e, {old}, {})
  BY <1>1, <1>2, <1>4, <1>7, <1>8 DEF Rechained
<1>10. {old} \in SUBSET Attr /\ {} \in SUBSET {old}
  OBVIOUS
<1> QED BY <1>6, <1>9, <1>10, AttributesKeepInv

(* What becomes of the graph when a is chained to e, as it is and as        *)
(* removeAttributeNode of old leaves it.                                    *)
ChainGrown(e, a, old) ==
  /\ firstAttr' \in [Element -> Attr \cup {Nil}] /\ nextAttr' \in [Attr -> Attr \cup {Nil}]
  /\ OneHolder(Graph') /\ Acyclic(Graph')
  /\ \A x \in Object :
       /\ Owned(Graph', x) = IF x = a THEN 1 ELSE IF x = old THEN 0 ELSE Owned(Graph, x)
       /\ Graph'[x] # {} => x \in alive
  /\ \A b \in Attr : up[b] = Nil \/ b = old => b = a \/ nextAttr'[b] = Nil

(* The chain of e ends with a.                                              *)
LEMMA AppendedAttribute ==
  ASSUME OwnershipInv, NEW e \in Element, e \in alive, NEW a \in Attr, up[a] = Nil,
         Chained(e, a, firstAttr[e], nextAttr, AttrsOf(e)), kids' = kids
  PROVE  ChainGrown(e, a, Nil)
<1> DEFINE G2 == Linked(firstAttr', nextAttr')
<1>1. /\ TypeOK /\ OneHolder(Graph) /\ Acyclic(Graph) /\ DeadIsBare
      /\ firstAttr \in [Element -> Attr \cup {Nil}] /\ nextAttr \in [Attr -> Attr \cup {Nil}]
  BY DEF OwnershipInv, TypeOK
<1>2. Graph = Linked(firstAttr, nextAttr)
  BY GraphIsLinked
<1>3. Graph' = G2
  BY DEF Graph, Refs, Linked
<1>4. /\ nextAttr[a] = Nil /\ a \notin AttrsOf(e) /\ AttrsOf(e) \subseteq Attr
      /\ \A y \in Object : a \notin Graph[y]
      /\ firstAttr[e] # Nil => \E b \in AttrsOf(e) : nextAttr[b] = Nil
  BY InOrOutOfChains, ChainMembers, ChainEnds
<1>5. /\ firstAttr[e] = Nil => firstAttr' = [firstAttr EXCEPT ![e] = a] /\ nextAttr' = nextAttr
      /\ firstAttr[e] # Nil =>
           /\ firstAttr' = firstAttr
           /\ nextAttr' = [nextAttr EXCEPT ![CHOOSE b \in AttrsOf(e) : nextAttr[b] = Nil] = a]
  BY <1>1 DEF Chained
<1>6. /\ firstAttr' \in [Element -> Attr \cup {Nil}] /\ nextAttr' \in [Attr -> Attr \cup {Nil}]
      /\ OneHolder(G2) /\ Acyclic(G2)
      /\ \A x \in Object : Owned(G2, x) = IF x = a THEN 1 ELSE Owned(Graph, x)
      /\ \A x \in Object : G2[x] # {} => Graph[x] # {} \/ x = e \/ x \in AttrsOf(e)
      /\ \A b \in Attr : nextAttr'[b] = nextAttr[b] \/ b \in AttrsOf(e)
  <2> DEFINE G == Linked(firstAttr, nextAttr)
  <2>1. /\ Unchained(firstAttr, nextAttr, e, a, AttrsOf(e))
        /\ Appended(firstAttr, nextAttr, e, a, AttrsOf(e), firstAttr', nextAttr')
    BY <1>1, <1>2, <1>4, <1>5 DEF Unchained, Appended
  <2>2. /\ firstAttr' \in [Element -> Attr \cup {Nil}] /\ nextAttr' \in [Attr -> Attr \cup {Nil}]
        /\ OneHolder(G2) /\ Acyclic(G2)
        /\ \A x \in Object : Owned(G2, x) = IF x = a THEN 1 ELSE Owned(G, x)
        /\ \A x \in Object : G2[x] # {} => G[x] # {} \/ x = e \/ x \in AttrsOf(e)
        /\ \A b \in Attr : nextAttr'[b] = nextAttr[b] \/ b \in AttrsOf(e)
    BY <1>1, <1>4, <2>1, ChainedAttribute
  <2> HIDE DEF G2
  <2> QED BY <1>2, <2>2
<1> HIDE DEF G2
<1>7. \A x \in Object : G2[x] # {} => x \in alive
  BY <1>1, <1>6, ChainMembers DEF DeadIsBare
<1>8. \A b \in Attr : up[b] = Nil => nextAttr'[b] = Nil
  BY <1>6, InOrOutOfChains
<1>9. Nil \notin Object /\ Nil \notin Attr
  BY PocoAssumption DEF Object, Node
<1> QED BY <1>3, <1>6, <1>7, <1>8, <1>9 DEF ChainGrown

(* The same when the attribute of that name goes first.                     *)
LEMMA ExchangedAttribute ==
  ASSUME OwnershipInv, NEW e \in Element, e \in alive, NEW a \in Attr, up[a] = Nil,
         NEW old \in AttrsOf(e), kids' = kids,
         Chained(e, a, FirstWithout(e, old), NextWithout(old), AttrsOf(e) \ {old})
  PROVE  ChainGrown(e, a, old)
<1> DEFINE fa == [firstAttr EXCEPT ![e] = FirstWithout(e, old)]
           na == NextWithout(old)
           G  == Linked(fa, na)
           G2 == Linked(firstAttr', nextAttr')
           all == AttrsOf(e) \ {old}
<1>1. TypeOK /\ firstAttr \in [Element -> Attr \cup {Nil}] /\ DeadIsBare
  BY DEF OwnershipInv, TypeOK
<1>2. Graph' = G2
  BY DEF Graph, Refs, Linked
<1>3. /\ fa \in [Element -> Attr \cup {Nil}] /\ na \in [Attr -> Attr \cup {Nil}]
      /\ OneHolder(G) /\ Acyclic(G)
      /\ \A x \in Object : Owned(G, x) = IF x = old THEN 0 ELSE Owned(Graph, x)
      /\ \A x \in Object : G[x] # {} => x \in alive
      /\ fa[e] # Nil => \E b \in all : na[b] = Nil
  BY SkippedAttribute
<1>4. \A b \in Attr : na[b] = IF b = old THEN Nil
                             ELSE IF nextAttr[b] = old THEN nextAttr[old] ELSE nextAttr[b]
  BY DEF NextWithout
<1>5. /\ old \in Attr /\ old # a /\ AttrsOf(e) \subseteq Attr /\ a \in Object /\ old # Nil
      /\ nextAttr[a] = Nil /\ a \notin AttrsOf(e) /\ Owned(Graph, a) = 0
  BY InOrOutOfChains, ChainMembers, PocoAssumption DEF Object, Node
<1>6. na[a] = Nil /\ (\A y \in Object : a \notin G[y]) /\ a \notin all /\ all \in SUBSET Attr
  <2>1. Owned(G, a) = 0
    BY <1>3, <1>5
  <2>2. na[a] = Nil
    BY <1>4, <1>5
  <2> HIDE DEF G, na
  <2>3. \A y \in Object : a \notin G[y]
    BY <2>1 DEF Owned
  <2> QED BY <1>5, <2>2, <2>3
<1>7. /\ fa[e] = Nil => firstAttr' = [fa EXCEPT ![e] = a] /\ nextAttr' = na
      /\ fa[e] # Nil => /\ firstAttr' = fa
                        /\ nextAttr' = [na EXCEPT ![CHOOSE b \in all : na[b] = Nil] = a]
  <2>1. fa[e] = FirstWithout(e, old) /\ \A v : [fa EXCEPT ![e] = v] = [firstAttr EXCEPT ![e] = v]
    BY <1>1
  <2> HIDE DEF na
  <2> QED BY <2>1 DEF Chained, na
<1> HIDE DEF fa, na
<1>8. /\ firstAttr' \in [Element -> Attr \cup {Nil}] /\ nextAttr' \in [Attr -> Attr \cup {Nil}]
      /\ OneHolder(G2) /\ Acyclic(G2)
      /\ \A x \in Object : Owned(G2, x) = IF x = a THEN 1 ELSE Owned(G, x)
      /\ \A x \in Object : G2[x] # {} => G[x] # {} \/ x = e \/ x \in all
      /\ \A b \in Attr : nextAttr'[b] = na[b] \/ b \in all
  <2>1. Unchained(fa, na, e, a, all) /\ Appended(fa, na, e, a, all, firstAttr', nextAttr')
    BY <1>3, <1>6, <1>7 DEF Unchained, Appended
  <2> HIDE DEF all
  <2> QED BY <1>1, <1>6, <2>1, ChainedAttribute
<1> HIDE DEF G, G2
<1>9. \A x \in Object : G2[x] # {} => x \in alive
  BY <1>3, <1>8, ChainMembers
<1>10. \A b \in Attr : up[b] = Nil \/ b = old => nextAttr'[b] = Nil
  <2> SUFFICES ASSUME NEW b \in Attr, up[b] = Nil \/ b = old PROVE nextAttr'[b] = Nil
    OBVIOUS
  <2>1. b \notin all
    BY InOrOutOfChains
  <2>2. na[b] = Nil
    BY <1>4, <1>5, InOrOutOfChains
  <2> QED BY <1>8, <2>1, <2>2
<1>11. \A x \in Object : Owned(G2, x) = IF x = a THEN 1 ELSE IF x = old THEN 0 ELSE Owned(Graph, x)
  BY <1>3, <1>8
<1> QED BY <1>2, <1>8, <1>9, <1>10, <1>11 DEF ChainGrown

(* setAttributeNode keeps the invariant.                                    *)
LEMMA SetAttributeNodeKeepsInv ==
  ASSUME OwnershipInv, NEW e \in Element, NEW a \in Attr, NEW old \in Attr \cup {Nil},
         SetAttributeNode(e, a, old)
  PROVE  OwnershipInv'
<1>1. /\ Doc \in alive /\ e \in alive /\ a \in alive /\ up[a] = Nil /\ old \in AttrsOf(e) \cup {Nil}
      /\ up' = [n \in Node |-> IF n = a THEN e ELSE IF n = old THEN Nil ELSE up[n]]
      /\ rc' = [rc EXCEPT ![a] = @ + 1] /\ UNCHANGED <<alive, held, kids>> /\ TypeOK
      /\ pool' = IF old = Nil THEN pool ELSE [pool EXCEPT ![old] = @ + 1]
  BY DEF SetAttributeNode, Counted, Pooled, OwnershipInv
<1>2. /\ a \in Node /\ a \in Object /\ Doc # a /\ Nil \notin Node /\ e \in Object /\ e # Nil
      /\ Attr \subseteq Node
  BY PocoAssumption DEF Object, Node, Child
<1>3. ChainGrown(e, a, old)
  BY <1>1, AppendedAttribute, ExchangedAttribute DEF SetAttributeNode
<1>4. /\ old \in Attr => Owned(Graph, old) = 1 /\ up[old] # Nil /\ old # a
      /\ Owned(Graph, a) = 0
  BY <1>1, <1>2, InOrOutOfChains
<1>5. TypeOK'
  <2>1. rc' \in [Object -> Nat] /\ pool' \in [Node -> Nat] /\ up' \in [Node -> Object \cup {Nil}]
    BY <1>1, <1>2 DEF TypeOK
  <2> QED BY <1>1, <1>3, <2>1 DEF TypeOK, ChainGrown
<1>6. ASSUME NEW n \in Node
      PROVE  /\ up'[n] = IF n = a THEN e ELSE IF n = old THEN Nil ELSE up[n]
             /\ rc'[n] - pool'[n] = IF n = a THEN held[n] + 1
                                    ELSE IF n = old THEN held[n] ELSE rc[n] - pool[n]
             /\ rc'[n] > 0 <=> n \in alive'
  <2>1. /\ rc[n] = held[n] + pool[n] + Owned(Graph, n) /\ (n \in alive <=> rc[n] > 0)
        /\ rc[n] \in Nat /\ held[n] \in Nat /\ pool[n] \in Nat /\ n \in Object
    BY CountOfNode DEF Object
  <2>2. /\ up'[n] = IF n = a THEN e ELSE IF n = old THEN Nil ELSE up[n]
        /\ pool'[n] = IF n = old THEN pool[n] + 1 ELSE pool[n]
        /\ rc'[n] = (IF n = a THEN rc[n] + 1 ELSE rc[n]) /\ alive' = alive
    BY <1>1, <1>2, <2>1 DEF TypeOK
  <2> QED BY <1>1, <1>2, <1>4, <2>1, <2>2
<1> DEFINE M == {a, old} \ {Nil}
<1>7. M \in SUBSET Attr /\ {a} \in SUBSET M
  BY <1>1, <1>2
<1>8. Rechained(e, M, {a})
  <2>1. \A x \in Object : /\ x \in M <=> x = a \/ x = old
                          /\ x \in {a} <=> x = a
    BY <1>2, PocoAssumption
  <2>2. Node \subseteq Object /\ Attr \subseteq Object
    BY <1>2 DEF Object
  <2> HIDE DEF M
  <2>3. \A b \in Attr : up'[b] = Nil => nextAttr'[b] = Nil
    BY <1>2, <1>3, <1>6 DEF ChainGrown
  <2>4. \A x \in Object :
          /\ Owned(Graph', x) = IF x \in {a} THEN 1 ELSE IF x \in M THEN 0 ELSE Owned(Graph, x)
          /\ Graph'[x] # {} => x \in alive
    BY <1>3, <2>1 DEF ChainGrown
  <2>5. OneHolder(Graph') /\ Acyclic(Graph')
    BY <1>3 DEF ChainGrown
  <2>6. \A n \in Node :
          /\ up'[n] = IF n \in {a} THEN e ELSE IF n \in M THEN Nil ELSE up[n]
          /\ rc'[n] - pool'[n] = IF n \in {a} THEN held[n] + 1
                                 ELSE IF n \in M THEN held[n] ELSE rc[n] - pool[n]
          /\ rc'[n] > 0 <=> n \in alive'
    BY <1>6, <2>1, <2>2
  <2>7. rc'[Doc] = rc[Doc] /\ alive' = alive \cup {a} /\ UNCHANGED <<held, kids>>
    BY <1>1, <1>2 DEF TypeOK, Object
  <2> QED BY <1>1, <2>3, <2>4, <2>5, <2>6, <2>7 DEF Rechained
<1> HIDE DEF M
<1> QED BY <1>5, <1>7, <1>8, AttributesKeepInv

(* setAttribute keeps the invariant.                                        *)
LEMMA SetAttributeKeepsInv ==
  ASSUME OwnershipInv, NEW e \in Element, NEW a \in Attr, SetAttribute(e, a)
  PROVE  OwnershipInv'
<1>1. /\ Doc \in alive /\ e \in alive /\ a \notin alive /\ alive' = alive \cup {a}
      /\ rc' = [rc EXCEPT ![a] = 1] /\ up' = [up EXCEPT ![a] = e]
      /\ UNCHANGED <<held, pool, kids>> /\ TypeOK
      /\ Chained(e, a, firstAttr[e], nextAttr, AttrsOf(e))
  BY DEF SetAttribute, OwnershipInv
<1>2. /\ a \in Node /\ a \in Object /\ Doc # a /\ Nil \notin Node /\ e \in Object /\ e # Nil
      /\ Node \subseteq Object
  BY PocoAssumption DEF Object, Node, Child
<1>3. up[a] = Nil
  BY <1>1, <1>2 DEF OwnershipInv, DeadIsBare
<1>4. ChainGrown(e, a, Nil)
  BY <1>1, <1>3, AppendedAttribute
<1>5. TypeOK'
  <2>1. rc' \in [Object -> Nat] /\ up' \in [Node -> Object \cup {Nil}] /\ alive' \subseteq Object
    BY <1>1, <1>2 DEF TypeOK
  <2> QED BY <1>1, <1>4, <2>1 DEF TypeOK, ChainGrown
<1>6. ASSUME NEW n \in Node
      PROVE  /\ up'[n] = IF n \in {a} THEN e ELSE IF n \in {a} THEN Nil ELSE up[n]
             /\ rc'[n] - pool'[n] = IF n \in {a} THEN held[n] + 1
                                    ELSE IF n \in {a} THEN held[n] ELSE rc[n] - pool[n]
             /\ rc'[n] > 0 <=> n \in alive'
  <2>1. /\ rc[n] = held[n] + pool[n] + Owned(Graph, n) /\ (n \in alive <=> rc[n] > 0)
        /\ rc[n] \in Nat /\ held[n] \in Nat /\ pool[n] \in Nat /\ Owned(Graph, n) \in {0, 1}
    BY CountOfNode
  <2>2. /\ up'[n] = IF n = a THEN e ELSE up[n]
        /\ rc'[n] = (IF n = a THEN 1 ELSE rc[n]) /\ pool'[n] = pool[n]
    BY <1>1, <1>2 DEF TypeOK
  <2>3. n \in alive' <=> n \in alive \/ n = a
    BY <1>1
  <2>4. CASE n = a
    <3>1. rc[n] = 0
      BY <1>1, <2>1, <2>4
    <3>2. held[n] = 0 /\ pool[n] = 0
      BY <2>1, <3>1
    <3> QED BY <2>2, <2>3, <2>4, <3>2
  <2>5. CASE n # a
    BY <2>1, <2>2, <2>3, <2>5
  <2> QED BY <2>4, <2>5
<1>7. Rechained(e, {a}, {a})
  <2>1. \A b \in Attr : up'[b] = Nil => nextAttr'[b] = Nil
    BY <1>2, <1>4, <1>6 DEF ChainGrown, Node
  <2>2. \A x \in Object :
          /\ Owned(Graph', x) = IF x \in {a} THEN 1 ELSE IF x \in {a} THEN 0 ELSE Owned(Graph, x)
          /\ Graph'[x] # {} => x \in alive
    BY <1>4, PocoAssumption DEF ChainGrown
  <2>3. OneHolder(Graph') /\ Acyclic(Graph')
    BY <1>4 DEF ChainGrown
  <2>4. rc'[Doc] = rc[Doc] /\ UNCHANGED <<held, kids>>
    BY <1>1, <1>2 DEF TypeOK, Object
  <2> QED BY <1>1, <1>6, <2>1, <2>2, <2>3, <2>4 DEF Rechained
<1>8. {a} \in SUBSET Attr /\ {a} \in SUBSET {a}
  OBVIOUS
<1> QED BY <1>5, <1>7, <1>8, AttributesKeepInv

-----------------------------------------------------------------------------
(***************************************************************************)
(* The theorems                                                             *)
(***************************************************************************)

(* A new document is as the invariant says.                                 *)
LEMMA InitInv == Init => OwnershipInv
<1> SUFFICES ASSUME Init PROVE OwnershipInv
  OBVIOUS
<1>1. /\ Container \subseteq Object /\ Node \subseteq Object /\ Doc \notin Node
      /\ Object = Node \cup {Doc} /\ Nil \notin Object /\ Fragment \cup Child \cup Attr \subseteq Node
  BY PocoAssumption DEF Container, Object, Node, Child
<1>2. MaxHeld \in Nat /\ MaxHeld >= 1
  BY PocoAssumption
<1>3. TypeOK
  <2>1. << >> \in Seq(Child)
    OBVIOUS
  <2> QED BY <1>1, <1>2, <2>1 DEF Init, TypeOK
<1>4. \A x \in Container : kids[x] = << >> /\ ToSet(kids[x]) = {}
  BY DEF Init, ToSet
<1>5. \A x, y \in Object : y \notin Graph[x]
  BY <1>1, <1>4, Edges DEF GraphOfLinks, Init
<1>6. Graph \in [Object -> SUBSET Object]
  BY <1>3, GraphType
<1>7. CountsMatch
  <2> SUFFICES ASSUME NEW x \in Object
               PROVE  /\ rc[x] = held[x] + (IF x = Doc THEN 0 ELSE pool[x]) + Owned(Graph, x)
                      /\ x \in alive <=> rc[x] > 0
    BY DEF CountsMatch
  <2>1. Owned(Graph, x) = 0
    BY <1>5 DEF Owned
  <2>2. /\ rc[x] = (IF x = Doc THEN 1 ELSE 0) /\ held[x] = (IF x = Doc THEN 1 ELSE 0)
        /\ x # Doc => pool[x] = 0
        /\ x \in alive <=> x = Doc
    BY <1>1 DEF Init
  <2> QED BY <2>1, <2>2
<1>8. LinksMatch
  <2>1. \A p \in Container : IsInjective(kids[p]) /\ \A c \in ToSet(kids[p]) : up[c] = p
    BY <1>4 DEF IsInjective
  <2>2. \A n \in Node : up[n] = Nil
    BY DEF Init
  <2>3. \A a \in Attr : nextAttr[a] = Nil /\ a \in Object
    BY <1>1 DEF Init
  <2> QED BY <1>1, <1>5, <2>1, <2>2, <2>3 DEF LinksMatch
<1>9. DeadIsBare
  BY <1>5, <1>6 DEF DeadIsBare, Init
<1>10. PoolHasDocument
  BY DEF PoolHasDocument, Init
<1>11. OneHolder(Graph) /\ Acyclic(Graph)
  BY <1>5 DEF OneHolder, Acyclic
<1> QED BY <1>3, <1>7, <1>8, <1>9, <1>10, <1>11 DEF OwnershipInv

(* Every call keeps it.                                                     *)
LEMMA NextInv == OwnershipInv /\ [Next]_vars => OwnershipInv'
<1> SUFFICES ASSUME OwnershipInv, [Next]_vars PROVE OwnershipInv'
  OBVIOUS
<1>1. CASE Owning
  BY <1>1, OwningKeepsInv
<1>2. CASE Editing
  <2>1. PICK p \in Container :
          \/ \E c \in Child, r \in Child \cup {Nil} : InsertBefore(p, c, r)
          \/ \E f \in Fragment, r \in Child \cup {Nil} : InsertFragment(p, f, r)
          \/ \E c \in Child : RemoveChild(p, c)
          \/ \E new, old \in Child : ReplaceChild(p, new, old)
          \/ \E f \in Fragment, old \in Child : ReplaceByFragment(p, f, old)
    BY <1>2 DEF Editing
  <2>2. ASSUME NEW c \in Child, NEW r \in Child \cup {Nil}, InsertBefore(p, c, r)
        PROVE  OwnershipInv'
    BY <2>2, InsertBeforeKeepsInv
  <2>3. ASSUME NEW f \in Fragment, NEW r \in Child \cup {Nil}, InsertFragment(p, f, r)
        PROVE  OwnershipInv'
    BY <2>3, InsertFragmentKeepsInv
  <2>4. ASSUME NEW c \in Child, RemoveChild(p, c)
        PROVE  OwnershipInv'
    BY <2>4, RemoveChildKeepsInv
  <2>5. ASSUME NEW new \in Child, NEW old \in Child, ReplaceChild(p, new, old)
        PROVE  OwnershipInv'
    BY <2>5, ReplaceChildKeepsInv
  <2>6. ASSUME NEW f \in Fragment, NEW old \in Child, ReplaceByFragment(p, f, old)
        PROVE  OwnershipInv'
    BY <2>6, ReplaceByFragmentKeepsInv
  <2> QED BY <2>1, <2>2, <2>3, <2>4, <2>5, <2>6
<1>3. CASE Attributing
  <2>1. PICK e \in Element, a \in Attr :
          \/ \E old \in Attr \cup {Nil} : SetAttributeNode(e, a, old)
          \/ SetAttribute(e, a)
          \/ RemoveAttributeNode(e, a)
    BY <1>3 DEF Attributing
  <2>2. ASSUME NEW old \in Attr \cup {Nil}, SetAttributeNode(e, a, old)
        PROVE  OwnershipInv'
    BY <2>2, SetAttributeNodeKeepsInv
  <2>3. CASE SetAttribute(e, a)
    BY <2>3, SetAttributeKeepsInv
  <2>4. CASE RemoveAttributeNode(e, a)
    BY <2>4, RemoveAttributeKeepsInv
  <2> QED BY <2>1, <2>2, <2>3, <2>4
<1>4. CASE UNCHANGED vars
  <2>1. UNCHANGED <<alive, rc, held, pool, up, kids, firstAttr, nextAttr>>
    BY <1>4 DEF vars, counts, links
  <2>2. Graph' = Graph
    BY <2>1 DEF Graph, Refs
  <2> QED BY <2>1, <2>2 DEF OwnershipInv, TypeOK, CountsMatch, LinksMatch, DeadIsBare, PoolHasDocument
<1> QED BY <1>1, <1>2, <1>3, <1>4 DEF Next

(* Hence it always holds.                                                   *)
LEMMA AlwaysOwnershipInv == Spec => []OwnershipInv
BY InitInv, NextInv, PTL DEF Spec

(* At every moment the count of each object is the number of its owners:    *)
(* the caller's AutoPtrs, the entries of the pool and the one node that has *)
(* it attached, and an object lives exactly as long as it has one.          *)
THEOREM CountsAreAlwaysExact == Spec => []CountingInv
<1>1. OwnershipInv => CountingInv
  <2> SUFFICES ASSUME OwnershipInv PROVE CountingInv
    OBVIOUS
  <2>1. TypeOK /\ CountsMatch /\ OneHolder(Graph) /\ alive \in SUBSET Object
    BY DEF OwnershipInv, TypeOK
  <2> SUFFICES ASSUME NEW x \in Object
               PROVE  /\ rc[x] = held[x] + (IF x = Doc THEN 0 ELSE pool[x])
                                   + Cardinality(Holders(alive, x))
                      /\ x \in alive <=> rc[x] > 0
    BY <2>1 DEF CountingInv, CountsAreExact
  <2>2. (\E y \in alive : x \in Graph[y]) <=> (\E y \in Object : x \in Graph[y])
    BY <2>1, OwnersAndOwned
  <2>3. Cardinality(Holders(alive, x)) = Owned(Graph, x)
    BY <2>1, <2>2, HoldersOf DEF Owned
  <2> QED BY <2>1, <2>3 DEF CountsMatch
<1> QED BY <1>1, AlwaysOwnershipInv, PTL

(* Whatever is released, removed or replaced, no living node has a child, a *)
(* parent, a first or a next attribute that is deleted, and a child points  *)
(* to the parent that has it. The pointer from an attribute to its element  *)
(* is not part of this: it can be left pointing to a deleted element        *)
(* (Element.cpp:52).                                                        *)
THEOREM NothingEverDangles == Spec => []NothingDangles
<1>1. OwnershipInv => NothingDangles
  <2> SUFFICES ASSUME OwnershipInv, NEW x \in alive
               PROVE  /\ Refs(x) \subseteq alive
                      /\ x \in Child \cup Fragment =>
                           (up[x] # Nil => up[x] \in alive /\ x \in ToSet(kids[up[x]]))
    BY DEF NothingDangles
  <2>1. TypeOK /\ LinksMatch /\ x \in Object /\ Graph \in [Object -> SUBSET Object]
    BY GraphType DEF OwnershipInv, TypeOK
  <2>2. Refs(x) = Graph[x]
    BY <2>1 DEF Graph
  <2>3. Refs(x) \subseteq alive
    BY <2>1, <2>2, OwnersAndOwned
  <2>4. ASSUME x \in Child \cup Fragment, up[x] # Nil
        PROVE  up[x] \in alive /\ x \in ToSet(kids[up[x]])
    <3>1. up[x] \in Container /\ x \in ToSet(kids[up[x]])
      BY <2>1, <2>4 DEF LinksMatch
    <3>2. up[x] \in Object /\ x \in Graph[up[x]]
      BY <2>1, <3>1, Edges DEF GraphOfLinks, Container, Object, Node, Child
    <3> QED BY <2>1, <3>1, <3>2, OwnersAndOwned
  <2> QED BY <2>3, <2>4
<1> QED BY <1>1, AlwaysOwnershipInv, PTL

(* Every living object is owned by the caller or the pool, or hangs below   *)
(* one that is: whoever lets go of all it owns has freed everything. A heap *)
(* in which all counts are exact could still keep a ring of nodes alive;    *)
(* that no call makes one is what Acyclic adds.                             *)
THEOREM NothingEverLeaks == Spec => []NothingLeaks
<1>1. OwnershipInv => NothingLeaks
  <2> SUFFICES ASSUME OwnershipInv, NEW S \in SUBSET alive,
                      \A x \in alive : held[x] > 0 \/ (x # Doc /\ pool[x] > 0) => x \in S,
                      \A y \in S : Refs(y) \subseteq S
               PROVE  S = alive
    BY DEF NothingLeaks
  <2>1. TypeOK /\ CountsMatch /\ Acyclic(Graph) /\ alive \subseteq Object
    BY DEF OwnershipInv, TypeOK
  <2>2. SUFFICES ASSUME alive \ S # {} PROVE FALSE
    OBVIOUS
  <2>3. PICK x \in alive \ S : \A y \in alive \ S : x \notin Graph[y]
    BY <2>1, <2>2 DEF Acyclic
  <2>4. /\ rc[x] > 0 /\ rc[x] = held[x] + (IF x = Doc THEN 0 ELSE pool[x]) + Owned(Graph, x)
        /\ held[x] \in Nat /\ (x # Doc => pool[x] \in Nat) /\ Owned(Graph, x) \in {0, 1}
    BY <2>1, <2>3 DEF CountsMatch, TypeOK, Owned, Object
  <2>5. Owned(Graph, x) = 1
    <3>1. held[x] = 0 /\ (x # Doc => pool[x] = 0)
      BY <2>3, <2>4
    <3> QED BY <2>4, <3>1
  <2>6. PICK y \in Object : x \in Graph[y]
    BY <2>5 DEF Owned
  <2>7. y \in S
    BY <2>1, <2>3, <2>6, OwnersAndOwned
  <2>8. Graph[y] = Refs(y)
    BY DEF Graph
  <2> QED BY <2>3, <2>6, <2>7, <2>8
<1> QED BY <1>1, AlwaysOwnershipInv, PTL

(* Only letting go frees: a step in which neither the caller nor the pool   *)
(* gives anything up deletes nothing, so the node that removeChild or       *)
(* replaceChild takes out of the tree outlives the call.                    *)
THEOREM EditingNeverFrees == Spec => EditingFreesNothing
<1>1. OwnershipInv /\ [Next]_vars =>
        [(\A x \in Object : held'[x] >= held[x]) /\ (\A n \in Node : pool'[n] >= pool[n])
           => alive \subseteq alive']_vars
  <2> SUFFICES ASSUME OwnershipInv, Next,
                      \A x \in Object : held'[x] >= held[x],
                      \A n \in Node : pool'[n] >= pool[n]
               PROVE  alive \subseteq alive'
    OBVIOUS
  <2>1. TypeOK
    BY DEF OwnershipInv
  <2>2. ASSUME NEW x \in Object, DropHandle(x)
        PROVE  FALSE
    <3>1. held'[x] = held[x] - 1 /\ held[x] \in Nat
      BY <2>1, <2>2 DEF DropHandle, TypeOK
    <3>2. held'[x] >= held[x]
      OBVIOUS
    <3> QED BY <3>1, <3>2
  <2>3. ASSUME CollectGarbage
        PROVE  FALSE
    <3>1. PICK n \in Node : pool[n] > 0
      BY <2>3 DEF CollectGarbage
    <3>2. pool'[n] = 0 /\ pool'[n] >= pool[n] /\ pool[n] \in Nat
      BY <2>1, <2>3 DEF CollectGarbage, TypeOK
    <3> QED BY <3>1, <3>2
  <2>4. CASE Owning
    BY <2>2, <2>3, <2>4 DEF Owning, CreateNode, AutoRelease, Duplicate
  <2>5. CASE Editing
    BY <2>5 DEF Editing, InsertBefore, InsertFragment, RemoveChild, ReplaceChild, ReplaceByFragment, counts
  <2>6. CASE Attributing
    BY <2>6 DEF Attributing, SetAttributeNode, SetAttribute, RemoveAttributeNode
  <2> QED BY <2>4, <2>5, <2>6 DEF Next
<1> QED BY <1>1, AlwaysOwnershipInv, PTL DEF Spec, EditingFreesNothing

=============================================================================
