------------------------ MODULE XercesAdapter_proofs ------------------------
(***************************************************************************)
(* Proofs about XercesAdapter, for any set of cells, documents, texts,      *)
(* names and values: type correctness and the ownership structure first,    *)
(* then what rests on it - when a call never returns, what a document's     *)
(* copy shows of its root, and that XercesAdapter implements XmlOwnership:  *)
(* step by step the wrappers and the DOM pool do to the elements what the   *)
(* abstract specification says, or nothing.                                 *)
(***************************************************************************)
EXTENDS XercesAdapter, TLAPS

-----------------------------------------------------------------------------
(***************************************************************************)
(* Lemmas about child lists                                                 *)
(***************************************************************************)

(* InsertAt gives the sequence with c at position i.                        *)
LEMMA InsertAtElements ==
  ASSUME NEW S, NEW s \in Seq(S), NEW c \in S, NEW i \in 1 .. Len(s) + 1
  PROVE  /\ InsertAt(s, i, c) \in Seq(S)
         /\ Len(InsertAt(s, i, c)) = Len(s) + 1
         /\ \A j \in 1 .. Len(s) + 1 :
               InsertAt(s, i, c)[j] =
                 IF j < i THEN s[j] ELSE IF j = i THEN c ELSE s[j - 1]
<1> DEFINE a == SubSeq(s, 1, i - 1)
           b == SubSeq(s, i, Len(s))
<1>1. a \in Seq(S) /\ Len(a) = i - 1 /\ \A j \in 1 .. i - 1 : a[j] = s[j]
  OBVIOUS
<1>2. /\ b \in Seq(S) /\ Len(b) = Len(s) - i + 1
      /\ \A j \in 1 .. Len(s) - i + 1 : b[j] = s[i + j - 1]
  OBVIOUS
<1>3. InsertAt(s, i, c) = a \o <<c>> \o b
  BY DEF InsertAt
<1>4. /\ <<c>> \in Seq(S) /\ Len(<<c>>) = 1 /\ <<c>>[1] = c
  OBVIOUS
<1> DEFINE m == <<c>>
<1> HIDE DEF a, b, m
<1>5. /\ a \o m \in Seq(S) /\ Len(a \o m) = i
      /\ \A j \in 1 .. i : (a \o m)[j] = IF j <= i - 1 THEN a[j] ELSE m[j - (i - 1)]
  BY <1>1, <1>4 DEF m
<1> DEFINE am == a \o m
<1> HIDE DEF am
<1>6. am \in Seq(S) /\ Len(am) = i
  BY <1>5 DEF am
<1>7. i + (Len(s) - i + 1) = Len(s) + 1
  OBVIOUS
<1> DEFINE t == am \o b
<1>8. /\ t \in Seq(S)
      /\ Len(t) = i + Len(b)
      /\ \A j \in 1 .. i + Len(b) : t[j] = IF j <= Len(am) THEN am[j] ELSE b[j - Len(am)]
  BY <1>2, <1>6
<1> HIDE DEF t
<1>9. /\ t \in Seq(S) /\ Len(t) = Len(s) + 1
      /\ \A j \in 1 .. Len(s) + 1 : t[j] = IF j <= i THEN am[j] ELSE b[j - i]
  BY <1>2, <1>6, <1>7, <1>8
<1>10. ASSUME NEW j \in 1 .. Len(s) + 1
       PROVE  t[j] = IF j < i THEN s[j] ELSE IF j = i THEN c ELSE s[j - 1]
  <2>1. CASE j < i
    BY <1>1, <1>5, <1>9, <2>1 DEF am
  <2>2. CASE j = i
    BY <1>4, <1>5, <1>9, <2>2 DEF am, m
  <2>3. CASE j > i
    <3>1. j - i \in 1 .. Len(s) - i + 1 /\ i + (j - i) - 1 = j - 1
      BY <2>3
    <3>2. b[j - i] = s[j - 1]
      BY <1>2, <3>1
    <3>3. QED
      BY <1>9, <2>3, <3>2
  <2>4. QED
    BY <2>1, <2>2, <2>3
<1>11. InsertAt(s, i, c) = t
  BY <1>3 DEF t, am, m
<1>12. QED
  BY <1>9, <1>10, <1>11

(* After inserting c, not in the list before, the list holds c and what it  *)
(* held, still without repetition.                                          *)
LEMMA InsertAtRange ==
  ASSUME NEW S, NEW s \in Seq(S), NEW c \in S, NEW i \in 1 .. Len(s) + 1,
         IsInjective(s), c \notin ToSet(s)
  PROVE  /\ ToSet(InsertAt(s, i, c)) = ToSet(s) \cup {c}
         /\ IsInjective(InsertAt(s, i, c))
<1> DEFINE t == InsertAt(s, i, c)
<1>1. /\ t \in Seq(S) /\ Len(t) = Len(s) + 1
      /\ \A j \in 1 .. Len(s) + 1 :
            t[j] = IF j < i THEN s[j] ELSE IF j = i THEN c ELSE s[j - 1]
  BY InsertAtElements
<1> HIDE DEF t
<1>2. \A j \in 1 .. Len(s) : s[j] \in ToSet(s) /\ s[j] # c
  BY DEF ToSet
<1>3. ToSet(t) \subseteq ToSet(s) \cup {c}
  BY <1>1, <1>2 DEF ToSet
<1>4. ToSet(s) \cup {c} \subseteq ToSet(t)
  <2>1. c = t[i] /\ i \in DOMAIN t
    BY <1>1
  <2>2. ASSUME NEW j \in 1 .. Len(s) PROVE \E k \in DOMAIN t : t[k] = s[j]
    <3>1. CASE j < i
      <4>1. t[j] = s[j] /\ j \in DOMAIN t
        BY <1>1, <3>1
      <4>2. QED
        BY <4>1
    <3>2. CASE j >= i
      <4>1. j + 1 \in 1 .. Len(s) + 1 /\ ~(j + 1 < i) /\ j + 1 # i /\ (j + 1) - 1 = j
        BY <3>2
      <4>2. t[j + 1] = s[j] /\ j + 1 \in DOMAIN t
        BY <1>1, <4>1
      <4>3. QED
        BY <4>2
    <3>3. QED
      BY <3>1, <3>2
  <2>3. QED
    BY <2>1, <2>2 DEF ToSet
<1>5. IsInjective(t)
  <2>1. \A j, k \in 1 .. Len(s) : s[j] = s[k] => j = k
    BY DEF IsInjective
  <2>2. DOMAIN t = 1 .. Len(s) + 1
    BY <1>1
  <2>3. SUFFICES ASSUME NEW j \in 1 .. Len(s) + 1, NEW k \in 1 .. Len(s) + 1, t[j] = t[k]
                 PROVE  j = k
    BY <2>2 DEF IsInjective
  <2>4. \A x \in 1 .. Len(s) + 1 : x < i => x \in 1 .. Len(s) /\ t[x] = s[x]
    BY <1>1
  <2>5. \A x \in 1 .. Len(s) + 1 : x > i => x - 1 \in 1 .. Len(s) /\ t[x] = s[x - 1]
    BY <1>1
  <2>6. t[i] = c
    BY <1>1
  <2>7. CASE j = i \/ k = i
    BY <1>2, <2>3, <2>4, <2>5, <2>6, <2>7
  <2>8. CASE j < i /\ k < i
    BY <2>1, <2>3, <2>4, <2>8
  <2>9. CASE j > i /\ k > i
    <3>1. s[j - 1] = s[k - 1] /\ j - 1 \in 1 .. Len(s) /\ k - 1 \in 1 .. Len(s)
      BY <2>3, <2>5, <2>9
    <3>2. j - 1 = k - 1
      BY <2>1, <3>1
    <3>3. QED
      BY <3>2
  <2>10. CASE j < i /\ k > i
    <3>1. s[j] = s[k - 1] /\ j \in 1 .. Len(s) /\ k - 1 \in 1 .. Len(s)
      BY <2>3, <2>4, <2>5, <2>10
    <3>2. j = k - 1
      BY <2>1, <3>1
    <3>3. QED
      BY <2>10, <3>2
  <2>11. CASE j > i /\ k < i
    <3>1. s[k] = s[j - 1] /\ k \in 1 .. Len(s) /\ j - 1 \in 1 .. Len(s)
      BY <2>3, <2>4, <2>5, <2>11
    <3>2. k = j - 1
      BY <2>1, <3>1
    <3>3. QED
      BY <2>11, <3>2
  <2>12. QED
    BY <2>7, <2>8, <2>9, <2>10, <2>11
<1>6. QED
  BY <1>3, <1>4, <1>5 DEF t

(* The same for an append.                                                  *)
LEMMA AppendRange ==
  ASSUME NEW S, NEW s \in Seq(S), NEW c \in S, IsInjective(s), c \notin ToSet(s)
  PROVE  /\ Append(s, c) \in Seq(S)
         /\ ToSet(Append(s, c)) = ToSet(s) \cup {c}
         /\ IsInjective(Append(s, c))
<1> DEFINE t == Append(s, c)
<1>1. /\ t \in Seq(S) /\ Len(t) = Len(s) + 1
      /\ \A j \in 1 .. Len(s) : t[j] = s[j]
      /\ t[Len(s) + 1] = c
  OBVIOUS
<1> HIDE DEF t
<1>2. \A j \in 1 .. Len(s) : s[j] \in ToSet(s) /\ s[j] # c
  BY DEF ToSet
<1>3. ToSet(t) = ToSet(s) \cup {c}
  BY <1>1 DEF ToSet
<1>4. IsInjective(t)
  <2>1. \A j, k \in 1 .. Len(s) : s[j] = s[k] => j = k
    BY DEF IsInjective
  <2>2. QED
    BY <1>1, <1>2, <2>1 DEF IsInjective
<1>5. QED
  BY <1>1, <1>3, <1>4 DEF t

(* Position finds an element that is there.                                 *)
LEMMA PositionInRange ==
  ASSUME NEW S, NEW s \in Seq(S), NEW e \in ToSet(s)
  PROVE  Position(s, e) \in 1 .. Len(s) /\ s[Position(s, e)] = e
BY DEF ToSet, Position

-----------------------------------------------------------------------------
(***************************************************************************)
(* Lemmas about the closures                                                *)
(***************************************************************************)

(* Subtree(ks, e) contains e and the children of its members.               *)
LEMMA SubtreeClosed ==
  ASSUME NEW ks \in [Element -> Seq(Element)], NEW e \in Element
  PROVE  /\ Subtree(ks, e) \subseteq Element
         /\ e \in Subtree(ks, e)
         /\ \A y \in Subtree(ks, e) : ToSet(ks[y]) \subseteq Subtree(ks, e)
<1>1. ASSUME NEW y \in Subtree(ks, e), NEW z \in ToSet(ks[y])
      PROVE  z \in Subtree(ks, e)
  <2>1. z \in Element
    BY DEF ToSet, Subtree
  <2>2. QED
    BY <2>1 DEF Subtree
<1>2. QED
  BY <1>1 DEF Subtree

(* It is the least such set.                                                *)
LEMMA SubtreeLeast ==
  ASSUME NEW ks, NEW e, NEW S \in SUBSET Element,
         e \in S, \A y \in S : ToSet(ks[y]) \subseteq S
  PROVE  Subtree(ks, e) \subseteq S
BY DEF Subtree
(* UpChain(um, e) contains e and the parents of its members ...             *)
LEMMA UpChainClosed ==
  ASSUME NEW um \in [Element -> Element \cup {Nil}], NEW e \in Element
  PROVE  /\ UpChain(um, e) \subseteq Element
         /\ e \in UpChain(um, e)
         /\ \A y \in UpChain(um, e) : um[y] # Nil => um[y] \in UpChain(um, e)
<1>1. ASSUME NEW y \in UpChain(um, e), um[y] # Nil
      PROVE  um[y] \in UpChain(um, e)
  <2>1. um[y] \in Element
    BY <1>1 DEF UpChain
  <2>2. QED
    BY <1>1, <2>1 DEF UpChain
<1>2. QED
  BY <1>1 DEF UpChain

(* ... and is the least such set.                                           *)
LEMMA UpChainLeast ==
  ASSUME NEW um, NEW e, NEW S \in SUBSET Element,
         e \in S, \A y \in S : um[y] # Nil => um[y] \in S
  PROVE  UpChain(um, e) \subseteq S
BY DEF UpChain

(* The chain above e is e and its ancestors.                                *)
LEMMA UpChainAncestors ==
  ASSUME NEW um \in [Element -> Element \cup {Nil}], NEW e \in Element
  PROVE  UpChain(um, e) \subseteq {e} \cup Ancestors(um, e)
<1> DEFINE S == {e} \cup Ancestors(um, e)
<1>1. S \subseteq Element
  BY DEF Ancestors, UpChain
<1>2. ASSUME NEW y \in S, um[y] # Nil PROVE um[y] \in S
  <2>1. CASE y = e
    BY <1>2, <2>1, UpChainClosed DEF Ancestors
  <2>2. CASE y \in Ancestors(um, e)
    BY <1>2, <2>2, UpChainClosed DEF Ancestors
  <2>3. QED
    BY <2>1, <2>2
<1>3. QED
  BY <1>1, <1>2, UpChainLeast

-----------------------------------------------------------------------------
(***************************************************************************)
(* Lemmas about insertBefore and setAttribute                               *)
(***************************************************************************)

(* Inserting c, which has no parent, into p's child list changes that list  *)
(* only, and adds c to it once.                                             *)
LEMMA InsertKids ==
  ASSUME NEW ks \in [Element -> Seq(Element)], NEW um,
         NEW p \in Element, NEW c \in Element, NEW r,
         um[c] = Nil, c # r, c \notin ToSet(ks[p]), IsInjective(ks[p]),
         r # Nil => r \in ToSet(ks[p])
  PROVE  /\ KidsAfterInsert(ks, um, p, c, r) \in [Element -> Seq(Element)]
         /\ \A e \in Element \ {p} : KidsAfterInsert(ks, um, p, c, r)[e] = ks[e]
         /\ ToSet(KidsAfterInsert(ks, um, p, c, r)[p]) = ToSet(ks[p]) \cup {c}
         /\ IsInjective(KidsAfterInsert(ks, um, p, c, r)[p])
<1> DEFINE i == Position(ks[p], r)
           t == IF r = Nil THEN Append(ks[p], c) ELSE InsertAt(ks[p], i, c)
<1>1. KidsAfterInsert(ks, um, p, c, r) = [ks EXCEPT ![p] = t]
  BY DEF KidsAfterInsert, KidsWithout, KidsWith
<1>2. t \in Seq(Element) /\ ToSet(t) = ToSet(ks[p]) \cup {c} /\ IsInjective(t)
  <2>0. ks[p] \in Seq(Element)
    OBVIOUS
  <2>1. CASE r = Nil
    BY <2>0, <2>1, AppendRange
  <2>2. CASE r # Nil
    <3>1. i \in 1 .. Len(ks[p]) + 1
      BY <2>0, <2>2, PositionInRange
    <3>2. InsertAt(ks[p], i, c) \in Seq(Element)
      BY <2>0, <3>1, InsertAtElements
    <3>3. /\ ToSet(InsertAt(ks[p], i, c)) = ToSet(ks[p]) \cup {c}
          /\ IsInjective(InsertAt(ks[p], i, c))
      BY <2>0, <3>1, InsertAtRange
    <3>4. QED
      BY <2>2, <3>2, <3>3
  <2>3. QED
    BY <2>1, <2>2
<1> HIDE DEF t
<1>3. QED
  BY <1>1, <1>2

(* The positions of the texts stay natural numbers.                         *)
LEMMA InsertTextsType ==
  ASSUME NEW ts \in [Element -> Seq(TextNode)], NEW ks, NEW um,
         NEW p \in Element, NEW c, NEW r, um[c] = Nil
  PROVE  TextsAfterInsert(ts, ks, um, p, c, r) \in [Element -> Seq(TextNode)]
<1>1. CASE c = r \/ r = Nil
  BY <1>1 DEF TextsAfterInsert, TextsWith, TextsWithout
<1>2. CASE c # r /\ r # Nil
  <2> DEFINE i == Position(ks[p], r)
             g == MoveDown(ts[p], i)
  <2>1. TextsAfterInsert(ts, ks, um, p, c, r) = [ts EXCEPT ![p] = g]
    BY <1>2 DEF TextsAfterInsert, TextsWith, TextsWithout, KidsWithout
  <2>2. ASSUME NEW x \in TextNode PROVE [x EXCEPT !.at = @ + 1] \in TextNode
    BY DEF TextNode
  <2>3. g \in [1 .. Len(ts[p]) -> TextNode]
    BY <2>2 DEF MoveDown
  <2>4. g \in Seq(TextNode)
    BY <2>3
  <2> HIDE DEF g
  <2>5. QED
    BY <2>1, <2>4
<1>3. QED
  BY <1>1, <1>2

(* An attribute map stays one, whatever part of the new entries is accepted. *)
LEMMA SetAllType ==
  ASSUME NEW old \in Attributes, NEW new \in XmlAttributes
  PROVE  SetAll(old, new) \in Attributes
BY DEF SetAll, Accepted, Attributes, XmlAttributes

(* An element without attributes has an attribute map.                      *)
LEMMA NoAttributesType == NoAttributes \in Attributes
BY DEF NoAttributes, Attributes

(* An imported tree maps the cells it copies to their content.              *)
LEMMA ImportNodeType ==
  ASSUME NEW ks \in [Element -> Seq(Element)], NEW ts \in [Element -> Seq(TextNode)],
         NEW as \in [Element -> Attributes], NEW e
  PROVE  \E S \in SUBSET Element : ImportNode(ks, ts, as, e) \in [S -> Content]
<1>1. Subtree(ks, e) \in SUBSET Element
  BY DEF Subtree
<1>2. ASSUME NEW n \in Element
      PROVE  [kids |-> ks[n], texts |-> ts[n], attrs |-> as[n]] \in Content
  BY DEF Content
<1>3. ImportNode(ks, ts, as, e) \in [Subtree(ks, e) -> Content]
  BY <1>1, <1>2 DEF ImportNode
<1>4. QED
  BY <1>1, <1>3

-----------------------------------------------------------------------------
(* Every node of a subtree but its top has its parent in the subtree.       *)
LEMMA SubtreeParents ==
  ASSUME TypeOK, KidsMirrorUp, NEW e \in Element,
         NEW n \in Subtree(kids, e), n # e
  PROVE  up[n] \in Subtree(kids, e) /\ n \in ToSet(kids[up[n]])
<1> DEFINE T == Subtree(kids, e)
           S == {y \in T : y = e \/ up[y] \in T}
<1>0. kids \in [Element -> Seq(Element)]
  BY DEF TypeOK
<1>1. /\ T \subseteq Element /\ e \in T
      /\ \A y \in T : ToSet(kids[y]) \subseteq T
  BY <1>0, SubtreeClosed
<1> HIDE DEF T
<1>2. \A y \in S : ToSet(kids[y]) \subseteq S
  BY <1>1 DEF KidsMirrorUp
<1>3. T \subseteq S
  BY <1>1, <1>2, SubtreeLeast DEF T
<1>4. n \in T /\ up[n] \in T
  BY <1>3 DEF T
<1>5. n \in ToSet(kids[up[n]])
  BY <1>1, <1>4 DEF KidsMirrorUp
<1>6. QED
  BY <1>4, <1>5 DEF T

(* Reached downwards from e, e is reached upwards.                          *)
LEMMA SubtreeUpChain ==
  ASSUME TypeOK, KidsMirrorUp, NEW e \in Element, NEW n \in Subtree(kids, e)
  PROVE  e \in UpChain(up, n)
<1> DEFINE S == {y \in Element : e \in UpChain(up, y)}
<1>0. up \in [Element -> Element \cup {Nil}]
  BY DEF TypeOK
<1>1. e \in S
  BY <1>0, UpChainClosed
<1>2. ASSUME NEW y \in S, NEW z \in ToSet(kids[y]) PROVE z \in S
  <2>1. z \in Element /\ up[z] = y /\ y \in Element
    <3>1. z \in Element
      BY DEF TypeOK, ToSet
    <3>2. QED
      BY <3>1 DEF KidsMirrorUp
  <2>2. /\ UpChain(up, z) \subseteq Element /\ z \in UpChain(up, z)
        /\ \A x \in UpChain(up, z) : up[x] # Nil => up[x] \in UpChain(up, z)
    BY <1>0, <2>1, UpChainClosed
  <2>3. UpChain(up, y) \subseteq UpChain(up, z)
    BY <2>1, <2>2, UpChainLeast, DomAssumption
  <2>4. QED
    BY <2>1, <2>3
<1>3. \A y \in S : ToSet(kids[y]) \subseteq S
  BY <1>2
<1> HIDE DEF S
<1>4. Subtree(kids, e) \subseteq S
  BY <1>1, <1>3, SubtreeLeast DEF S
<1>5. QED
  BY <1>4 DEF S

(* Destroyed(n) holds no wrapper the caller keeps, and with a wrapper all   *)
(* of its owners.                                                           *)
LEMMA DestroyedOwners ==
  ASSUME NEW n
  PROVE  /\ Destroyed(n) \subseteq live
         /\ Destroyed(n) \cap (held \ {n}) = {}
         /\ \A z \in Destroyed(n) : Owners(z) \subseteq Destroyed(n)
<1> DEFINE D == Destroyed(n)
           Closed(S) == \A y \in live :
                           y \notin held \ {n} /\ Owners(y) \subseteq S => y \in S
           U == {y \in live : y \notin held \ {n}}
           O == {z \in D : Owners(z) \subseteq D}
<1>1. D = {z \in live : \A S \in SUBSET live : Closed(S) => z \in S}
  BY DEF Destroyed
<1> HIDE DEF D
<1>2. \A S \in SUBSET live : Closed(S) => D \subseteq S
  BY <1>1
<1>3. Closed(D)
  <2>1. SUFFICES ASSUME NEW y \in live, y \notin held \ {n}, Owners(y) \subseteq D,
                        NEW S \in SUBSET live, Closed(S)
                 PROVE  y \in S
    BY <1>1
  <2>2. Owners(y) \subseteq S
    BY <1>2, <2>1
  <2>3. QED
    BY <2>1, <2>2
<1>4. D \subseteq U
  <2>1. Closed(U)
    OBVIOUS
  <2>2. QED
    BY <1>2, <2>1
<1>5. D \subseteq O
  <2>1. Closed(O)
    BY <1>3
  <2>2. O \in SUBSET live
    BY <1>1
  <2>3. QED
    BY <1>2, <2>1, <2>2
<1>6. QED
  BY <1>1, <1>4, <1>5 DEF D
-----------------------------------------------------------------------------
(***************************************************************************)
(* Lemmas about the documents' copies                                       *)
(***************************************************************************)

CopyType(cp) ==
  /\ cp = [d \in Document |-> cp[d]]
  /\ \A d \in Document :
        cp[d] = Nil \/ \E S \in SUBSET Element : cp[d] \in [S -> Content]

(* A refreshed copy is an imported tree.                                    *)
LEMMA RefreshedType ==
  ASSUME NEW ks \in [Element -> Seq(Element)], NEW ts \in [Element -> Seq(TextNode)],
         NEW as \in [Element -> Attributes], NEW old, NEW r,
         old = Nil \/ \E S \in SUBSET Element : old \in [S -> Content]
  PROVE  \/ Refreshed(old, ks, ts, as, r) = Nil
         \/ \E S \in SUBSET Element : Refreshed(old, ks, ts, as, r) \in [S -> Content]
<1>1. Refreshed(old, ks, ts, as, r) \in {old, ImportNode(ks, ts, as, r)}
  BY DEF Refreshed
<1>2. \E S \in SUBSET Element : ImportNode(ks, ts, as, r) \in [S -> Content]
  BY ImportNodeType
<1>3. QED
  BY <1>1, <1>2

(* NotifyDeepValueChanged leaves a tree or nothing in each document.        *)
LEMMA AfterNotifyType ==
  ASSUME TypeOK, NEW par, NEW e,
         NEW ks \in [Element -> Seq(Element)], NEW ts \in [Element -> Seq(TextNode)],
         NEW as \in [Element -> Attributes]
  PROVE  CopyType(AfterNotify(par, ks, ts, as, e))
<1> DEFINE v(d) == IF d \in Notified(par, e)
                   THEN Refreshed(copy[d], ks, ts, as, root[d]) ELSE copy[d]
<1>1. AfterNotify(par, ks, ts, as, e) = [d \in Document |-> v(d)]
  BY DEF AfterNotify
<1>2. ASSUME NEW d \in Document
      PROVE  v(d) = Nil \/ \E S \in SUBSET Element : v(d) \in [S -> Content]
  <2>1. copy[d] = Nil \/ \E S \in SUBSET Element : copy[d] \in [S -> Content]
    BY DEF TypeOK
  <2>2. QED
    BY <2>1, RefreshedType
<1> HIDE DEF v
<1>3. QED
  BY <1>1, <1>2 DEF CopyType

-----------------------------------------------------------------------------
(***************************************************************************)
(* The ownership structure is inductive                                     *)
(***************************************************************************)

(* The invariant holds when the program starts.                             *)
LEMMA InitOwnership == Init => OwnershipInv
<1> SUFFICES ASSUME Init PROVE OwnershipInv
  OBVIOUS
<1>1. TypeOK
  <2>1. << >> \in Seq(Element) /\ << >> \in Seq(TextNode)
    OBVIOUS
  <2>2. QED
    BY <2>1, NoAttributesType DEF Init, TypeOK, Status, Outcome
<1>2. KidsMirrorUp
  BY DomAssumption DEF Init, KidsMirrorUp, ToSet, IsInjective
<1>3. NoCycleWhileRunning
  BY DomAssumption DEF Init, NoCycleWhileRunning, Subtree
<1>4. QED
  BY <1>1, <1>2, <1>3
  DEF Init, OwnershipInv, WrapperMirrorsDom, DocumentOwnsRoot, NoDanglingWrapper,
      DestructorNeverThrows, OwnersAreLive, DeadWrappersOwnNothing,
      LinkedCellsInUse, LiveDocumentsInUse

(* A step that leaves the nodes' links and the wrappers alone keeps it.     *)
LEMMA SameStructure ==
  ASSUME OwnershipInv, TypeOK', domDocs \subseteq domDocs',
         UNCHANGED <<alloc, up, kids, live, parent, root, status>>
  PROVE  OwnershipInv'
<1>1. WrapperMirrorsDom' /\ KidsMirrorUp' /\ DocumentOwnsRoot'
  BY DEF OwnershipInv, WrapperMirrorsDom, KidsMirrorUp, DocumentOwnsRoot
<1>2. NoDanglingWrapper' /\ DestructorNeverThrows' /\ LinkedCellsInUse'
  BY DEF OwnershipInv, NoDanglingWrapper, DestructorNeverThrows, LinkedCellsInUse, Running
<1>3. OwnersAreLive' /\ DeadWrappersOwnNothing' /\ LiveDocumentsInUse'
  BY DEF OwnershipInv, OwnersAreLive, DeadWrappersOwnNothing, LiveDocumentsInUse
<1>4. NoCycleWhileRunning'
  BY DEF OwnershipInv, NoCycleWhileRunning, Running
<1>5. QED
  BY <1>1, <1>2, <1>3, <1>4 DEF OwnershipInv

(* A step that changes nothing keeps the invariant.                         *)
LEMMA StutterOwnership ==
  ASSUME OwnershipInv, UNCHANGED vars
  PROVE  OwnershipInv'
<1>1. TypeOK'
  BY DEF OwnershipInv, TypeOK, vars, domVars, docVars, wrapVars
<1>2. QED
  BY <1>1, SameStructure DEF vars, domVars, docVars, wrapVars

(* The calls that change an element's content.                              *)
LEMMA SetTextOwnership ==
  ASSUME OwnershipInv, NEW e \in Element, NEW text \in Text, SetXmlElementText(e, text)
  PROVE  OwnershipInv'
<1>0. TypeOK
  BY DEF OwnershipInv
<1>1. texts' \in [Element -> Seq(TextNode)]
  <2> DEFINE x == [value |-> text, at |-> Len(kids[e])]
  <2>1. x \in TextNode
    BY <1>0 DEF TypeOK, TextNode
  <2>2. Append(<< >>, x) \in Seq(TextNode)
    BY <2>1
  <2>3. QED
    BY <1>0, <2>2 DEF SetXmlElementText, ClearTextAndCData, TypeOK
<1>2. CopyType(copy')
  BY <1>0, <1>1, AfterNotifyType DEF SetXmlElementText, TypeOK
<1>3. TypeOK'
  BY <1>0, <1>1, <1>2
  DEF SetXmlElementText, TypeOK, CopyType, Returns, wrapVars, Outcome
<1>4. QED
  BY <1>3, SameStructure DEF SetXmlElementText, Returns, wrapVars

(* SetXmlElementAttributes keeps the invariant.                             *)
LEMMA SetAttributesOwnership ==
  ASSUME OwnershipInv, NEW e \in Element, NEW new \in XmlAttributes,
         SetXmlElementAttributes(e, new)
  PROVE  OwnershipInv'
<1>0. TypeOK
  BY DEF OwnershipInv
<1>1. attrs' \in [Element -> Attributes]
  <2>1. SetAll(NoAttributes, new) \in Attributes
    BY SetAllType, NoAttributesType
  <2>2. QED
    BY <1>0, <2>1 DEF SetXmlElementAttributes, ClearAttributes, TypeOK
<1>2. CopyType(copy')
  BY <1>0, <1>1, AfterNotifyType DEF SetXmlElementAttributes, TypeOK
<1>3. TypeOK'
  BY <1>0, <1>1, <1>2
  DEF SetXmlElementAttributes, TypeOK, CopyType, Returns, wrapVars, Outcome
<1>4. QED
  BY <1>3, SameStructure DEF SetXmlElementAttributes, Returns, wrapVars

(* So does SetXmlElementAttributes when it stops at a refused name.         *)
LEMMA SetAttributesSwallowsOwnership ==
  ASSUME OwnershipInv, NEW e \in Element, NEW new \in XmlAttributes,
         SetXmlElementAttributesSwallows(e, new)
  PROVE  OwnershipInv'
<1>0. TypeOK
  BY DEF OwnershipInv
<1>1. attrs' \in [Element -> Attributes]
  <2>1. SetAll(NoAttributes, new) \in Attributes
    BY SetAllType, NoAttributesType
  <2>2. QED
    BY <1>0, <2>1 DEF SetXmlElementAttributesSwallows, ClearAttributes, TypeOK
<1>2. TypeOK'
  BY <1>0, <1>1
  DEF SetXmlElementAttributesSwallows, TypeOK, Returns, docVars, wrapVars, Outcome
<1>3. QED
  BY <1>2, SameStructure DEF SetXmlElementAttributesSwallows, Returns, docVars, wrapVars

(* SetXmlElementAttribute keeps the invariant.                              *)
LEMMA SetAttributeOwnership ==
  ASSUME OwnershipInv, NEW e \in Element, NEW name \in Name, NEW value \in Value,
         SetXmlElementAttribute(e, name, value)
  PROVE  OwnershipInv'
<1>0. TypeOK
  BY DEF OwnershipInv
<1>1. attrs' \in [Element -> Attributes]
  BY <1>0 DEF SetXmlElementAttribute, TypeOK, Attributes
<1>2. CopyType(copy')
  BY <1>0, <1>1, AfterNotifyType DEF SetXmlElementAttribute, TypeOK
<1>3. TypeOK'
  BY <1>0, <1>1, <1>2
  DEF SetXmlElementAttribute, TypeOK, CopyType, Returns, wrapVars, Outcome
<1>4. QED
  BY <1>3, SameStructure DEF SetXmlElementAttribute, Returns, wrapVars

(* The getters, and the calls that fail before they change a node.          *)
LEMMA GetterOwnership ==
  ASSUME OwnershipInv, NEW n \in live,
         held' = held \cup {n}, Returns("ok"), UNCHANGED <<domVars, docVars, wrapVars>>
  PROVE  OwnershipInv'
<1>1. TypeOK'
  BY DEF OwnershipInv, TypeOK, Returns, domVars, docVars, wrapVars, Outcome
<1>2. QED
  BY <1>1, SameStructure DEF Returns, domVars, docVars, wrapVars

(* A handle to a document's root keeps the invariant.                       *)
LEMMA GetRootOwnership ==
  ASSUME OwnershipInv, NEW d \in held \cap Document, GetXmlRootElement(d)
  PROVE  OwnershipInv'
<1>1. root[d] \in live
  BY DEF OwnershipInv, TypeOK, DocumentOwnsRoot
<1>2. QED
  BY <1>1, GetterOwnership DEF GetXmlRootElement

(* A handle to the parent of a held element keeps the invariant.            *)
LEMMA GetParentOwnership ==
  ASSUME OwnershipInv, NEW e \in held \cap Element, GetParent(e)
  PROVE  OwnershipInv'
<1>1. parent[e] \in live
  BY DEF OwnershipInv, TypeOK, OwnersAreLive, GetParent, HasParent
<1>2. QED
  BY <1>1, GetterOwnership DEF GetParent

(* Calls that fail keep the invariant, lost DOMDocuments included.          *)
LEMMA RefusalOwnership ==
  ASSUME OwnershipInv, NEW result \in Outcome, Returns(result),
         domDocs' \in SUBSET Document, domDocs \subseteq domDocs',
         UNCHANGED <<domVars, copy, wrapVars, held>>
  PROVE  OwnershipInv'
<1>1. TypeOK'
  BY DEF OwnershipInv, TypeOK, Returns, domVars, wrapVars
<1>2. QED
  BY <1>1, SameStructure DEF Returns, domVars, wrapVars

(* Nothing hangs below a cell that is not in use.                           *)
LEMMA FreeCellIsAlone ==
  ASSUME OwnershipInv, Running, NEW e \in Element \ alloc
  PROVE  /\ up[e] = Nil /\ parent[e] = Nil /\ e \notin live
         /\ ToSet(kids[e]) = {}
         /\ Subtree(kids, e) = {e}
         /\ \A y \in Element : up[y] # e
<1>1. \A y \in Element : up[y] # e /\ up[e] = Nil
  BY DomAssumption DEF OwnershipInv, LinkedCellsInUse, TypeOK
<1>2. kids[e] \in Seq(Element)
  BY DEF OwnershipInv, TypeOK
<1>3. ToSet(kids[e]) = {}
  BY <1>1, <1>2 DEF OwnershipInv, KidsMirrorUp, ToSet
<1>4. Subtree(kids, e) = {e}
  <2>1. {e} \in SUBSET Element /\ \A y \in {e} : ToSet(kids[y]) \subseteq {e}
    BY <1>3
  <2>2. Subtree(kids, e) \subseteq {e}
    BY <2>1, SubtreeLeast
  <2>3. QED
    BY <2>2, SubtreeClosed DEF OwnershipInv, TypeOK
<1>5. e \notin live /\ parent[e] = Nil
  BY DEF OwnershipInv, NoDanglingWrapper, DeadWrappersOwnNothing
<1>6. QED
  BY <1>1, <1>3, <1>4, <1>5

(* CreateXmlElement keeps the invariant when it throws.                     *)
LEMMA CreateElementThrowsOwnership ==
  ASSUME OwnershipInv, Running, NEW e \in Element \ alloc, NEW tagIsValid, NEW new,
         CreateXmlElementThrows(e, tagIsValid, new)
  PROVE  OwnershipInv'
<1>1. Unwound(e) = alloc
  BY FreeCellIsAlone DEF Unwound
<1>2. UNCHANGED <<domVars, domDocs, copy, wrapVars, held>> /\ Returns("threw")
  BY <1>1 DEF CreateXmlElementThrows, domVars, docVars
<1>3. domDocs' \in SUBSET Document /\ "threw" \in Outcome
  BY <1>2 DEF OwnershipInv, TypeOK, Outcome
<1>4. QED
  BY <1>2, <1>3, RefusalOwnership

(* CreateXmlElement: one more wrapper, for a node that stands alone.        *)
LEMMA CreateElementOwnership ==
  ASSUME OwnershipInv, Running, NEW e \in Element \ alloc, NEW tagIsValid,
         NEW text \in Text, NEW new \in XmlAttributes,
         CreateXmlElement(e, tagIsValid, text, new)
  PROVE  OwnershipInv'
<1> USE DEF CreateXmlElement, Returns, docVars
<1>0. /\ TypeOK
      /\ up[e] = Nil /\ parent[e] = Nil /\ e \notin live
  BY FreeCellIsAlone DEF OwnershipInv
<1>1. TypeOK'
  <2>1. <<[value |-> text, at |-> 0]>> \in Seq(TextNode)
    BY DEF TextNode
  <2>2. SetAll(NoAttributes, new) \in Attributes
    BY SetAllType, NoAttributesType
  <2>3. texts' \in [Element -> Seq(TextNode)] /\ attrs' \in [Element -> Attributes]
    BY <1>0, <2>1, <2>2 DEF TypeOK
  <2>4. alloc' \subseteq Element /\ live' \subseteq Node /\ held' \subseteq live'
    BY <1>0 DEF TypeOK, Node
  <2>5. QED
    BY <1>0, <2>3, <2>4 DEF TypeOK, Outcome
<1>2. WrapperMirrorsDom' /\ KidsMirrorUp'
  BY <1>0, DomAssumption DEF OwnershipInv, WrapperMirrorsDom, KidsMirrorUp
<1>3. DocumentOwnsRoot' /\ LiveDocumentsInUse'
  BY DocumentAssumption DEF OwnershipInv, DocumentOwnsRoot, LiveDocumentsInUse
<1>4. NoDanglingWrapper' /\ DestructorNeverThrows' /\ LinkedCellsInUse'
  BY DEF OwnershipInv, NoDanglingWrapper, DestructorNeverThrows, LinkedCellsInUse, Running
<1>5. OwnersAreLive' /\ DeadWrappersOwnNothing'
  BY <1>0, DocumentAssumption DEF OwnershipInv, OwnersAreLive, DeadWrappersOwnNothing
<1>6. NoCycleWhileRunning'
  BY DEF OwnershipInv, NoCycleWhileRunning, Running
<1>7. QED
  BY <1>1, <1>2, <1>3, <1>4, <1>5, <1>6 DEF OwnershipInv

(* CreateXmlDocument: one more wrapper, owned by and owning a parentless    *)
(* element.                                                                 *)
LEMMA CreateDocumentOwnership ==
  ASSUME OwnershipInv, Running, NEW d \in Document \ domDocs, NEW r \in held \cap Element,
         NEW version, CreateXmlDocument(d, r, version)
  PROVE  OwnershipInv'
<1> USE DEF CreateXmlDocument, Returns, domVars
<1>0. /\ TypeOK /\ r \in live \cap Element /\ parent[r] = Nil
      /\ d \notin live /\ d \notin Element /\ r \notin Document /\ d # Nil
  BY DocumentAssumption DEF OwnershipInv, TypeOK, LiveDocumentsInUse, HasParent
<1>1. TypeOK'
  <2>1. CopyType(copy')
    <3> DEFINE v == Refreshed(copy[d], kids, texts, attrs, r)
    <3>1. v = Nil \/ \E S \in SUBSET Element : v \in [S -> Content]
      BY <1>0, RefreshedType DEF TypeOK
    <3>2. copy' = [copy EXCEPT ![d] = v]
      OBVIOUS
    <3> HIDE DEF v
    <3>3. QED
      BY <1>0, <3>1, <3>2 DEF TypeOK, CopyType
  <2>2. /\ live' \subseteq Node /\ held' \subseteq live' /\ domDocs' \subseteq Document
        /\ parent' \in [Element -> Node \cup {Nil}]
        /\ root' \in [Document -> Element \cup {Nil}]
    BY <1>0 DEF TypeOK, Node
  <2>3. QED
    BY <1>0, <2>1, <2>2 DEF TypeOK, CopyType, Outcome
<1>2. WrapperMirrorsDom' /\ KidsMirrorUp'
  BY <1>0 DEF OwnershipInv, TypeOK, WrapperMirrorsDom, KidsMirrorUp
<1>3. DocumentOwnsRoot' /\ LiveDocumentsInUse'
  <2>1. \A x \in live \cap Document : root[x] # r
    BY <1>0, DocumentAssumption DEF OwnershipInv, DocumentOwnsRoot
  <2>2. QED
    BY <1>0, <2>1 DEF OwnershipInv, TypeOK, DocumentOwnsRoot, LiveDocumentsInUse
<1>4. NoDanglingWrapper' /\ DestructorNeverThrows' /\ LinkedCellsInUse'
  BY <1>0 DEF OwnershipInv, NoDanglingWrapper, DestructorNeverThrows, LinkedCellsInUse, Running
<1>5. OwnersAreLive' /\ DeadWrappersOwnNothing'
  BY <1>0 DEF OwnershipInv, TypeOK, OwnersAreLive, DeadWrappersOwnNothing
<1>6. NoCycleWhileRunning'
  BY DEF OwnershipInv, NoCycleWhileRunning, Running
<1>7. QED
  BY <1>1, <1>2, <1>3, <1>4, <1>5, <1>6 DEF OwnershipInv

(* The end of main keeps the invariant.                                     *)
LEMMA ExitOwnership ==
  ASSUME OwnershipInv, Exit
  PROVE  OwnershipInv'
<1> USE DEF Exit, docVars, wrapVars
<1>1. TypeOK'
  BY DEF OwnershipInv, TypeOK, Status, Outcome
<1>2. WrapperMirrorsDom' /\ KidsMirrorUp' /\ DocumentOwnsRoot'
  BY DEF OwnershipInv, WrapperMirrorsDom, KidsMirrorUp, DocumentOwnsRoot
<1>3. /\ NoDanglingWrapper' /\ DestructorNeverThrows'
      /\ LinkedCellsInUse' /\ NoCycleWhileRunning'
  BY DEF NoDanglingWrapper, DestructorNeverThrows, LinkedCellsInUse, NoCycleWhileRunning,
         Running
<1>4. OwnersAreLive' /\ DeadWrappersOwnNothing' /\ LiveDocumentsInUse'
  BY DEF OwnershipInv, OwnersAreLive, DeadWrappersOwnNothing, LiveDocumentsInUse
<1>5. QED
  BY <1>1, <1>2, <1>3, <1>4 DEF OwnershipInv

(* What AddXmlChildElement lets through puts c, the top of a tree, below an *)
(* element of another tree, unless p is c.                                  *)
LEMMA InsertedFromOutside ==
  ASSUME TypeOK, KidsMirrorUp, NEW p \in Element, NEW c \in Element, NEW r,
         CanInsert(p, c, r), p # c
  PROVE  p \notin Subtree(kids, c)
<1>0. up \in [Element -> Element \cup {Nil}] /\ kids \in [Element -> Seq(Element)]
  BY DEF TypeOK
<1> SUFFICES ASSUME p \in Subtree(kids, c) PROVE FALSE
  OBVIOUS
<1>1. CASE HasChildNodes(kids, texts, c)
  <2>1. c \notin Ancestors(up, p)
    BY <1>1 DEF CanInsert, InsertAllowed
  <2>2. c \in UpChain(up, p)
    BY SubtreeUpChain
  <2>3. QED
    BY <1>0, <2>1, <2>2, UpChainAncestors
<1>2. CASE ~HasChildNodes(kids, texts, c)
  <2>1. {c} \in SUBSET Element /\ \A y \in {c} : ToSet(kids[y]) \subseteq {c}
    BY <1>2 DEF HasChildNodes, ToSet
  <2>2. Subtree(kids, c) \subseteq {c}
    BY <2>1, SubtreeLeast
  <2>3. QED
    BY <2>2
<1>3. QED
  BY <1>1, <1>2

(* AddXmlChildElement keeps the invariant: the DOM link and _parent agree.  *)
LEMMA AddChildOwnership ==
  ASSUME OwnershipInv, Running, NEW p \in held \cap Element, NEW c \in held \cap Element,
         NEW r \in (held \cap Element) \cup {Nil}, AddXmlChildElement(p, c, r)
  PROVE  OwnershipInv'
<1>0. /\ TypeOK /\ KidsMirrorUp /\ p \in Element /\ c \in Element
      /\ p \in live /\ c \in live /\ p \in alloc /\ c \in alloc
      /\ up \in [Element -> Element \cup {Nil}] /\ kids \in [Element -> Seq(Element)]
      /\ p # Nil /\ p \notin Document /\ c \notin Document
  BY DomAssumption, DocumentAssumption DEF OwnershipInv, TypeOK, NoDanglingWrapper
<1>1. parent[c] = Nil /\ up[c] = Nil
  BY <1>0, DomAssumption
  DEF AddXmlChildElement, CanInsert, HasParent, OwnershipInv, WrapperMirrorsDom
<1>2. c # r /\ c \notin ToSet(kids[p]) /\ IsInjective(kids[p])
      /\ (r # Nil => r \in ToSet(kids[p]))
  <2>1. r # Nil => r \in Element /\ up[r] = p
    BY DEF AddXmlChildElement, CanInsert, InsertAllowed
  <2>2. c # r
    BY <1>0, <1>1, <2>1, DomAssumption
  <2>3. c \notin ToSet(kids[p]) /\ IsInjective(kids[p])
    BY <1>0, <1>1 DEF KidsMirrorUp
  <2>4. r # Nil => r \in ToSet(kids[p])
    BY <1>0, <2>1 DEF KidsMirrorUp
  <2>5. QED
    BY <2>2, <2>3, <2>4
<1>3. /\ kids' \in [Element -> Seq(Element)]
      /\ \A e \in Element \ {p} : kids'[e] = kids[e]
      /\ ToSet(kids'[p]) = ToSet(kids[p]) \cup {c}
      /\ IsInjective(kids'[p])
  <2> DEFINE new == KidsAfterInsert(kids, up, p, c, r)
  <2>1. /\ new \in [Element -> Seq(Element)]
        /\ \A e \in Element \ {p} : new[e] = kids[e]
        /\ ToSet(new[p]) = ToSet(kids[p]) \cup {c}
        /\ IsInjective(new[p])
    BY <1>0, <1>1, <1>2, InsertKids
  <2>2. kids' = new
    BY DEF AddXmlChildElement
  <2> HIDE DEF new
  <2>3. QED
    BY <2>1, <2>2
<1>4. /\ up' = [up EXCEPT ![c] = p] /\ parent' = [parent EXCEPT ![c] = p]
      /\ UNCHANGED <<alloc, attrs, domDocs, live, root, held>>
      /\ status' = status \/ status' = "hung"
      /\ outcome' \in Outcome
  BY DEF AddXmlChildElement, UpAfterInsert, Returns, Outcome
<1>5. TypeOK'
  <2>1. texts' \in [Element -> Seq(TextNode)]
    BY <1>0, <1>1, InsertTextsType DEF AddXmlChildElement, TypeOK
  <2>2. CopyType(copy')
    BY <1>0, <1>3, <2>1, AfterNotifyType DEF AddXmlChildElement, TypeOK
  <2>3. QED
    BY <1>0, <1>3, <1>4, <2>1, <2>2 DEF TypeOK, CopyType, Status, Node
<1>6. WrapperMirrorsDom'
  BY <1>0, <1>4 DEF OwnershipInv, TypeOK, WrapperMirrorsDom
<1>7. KidsMirrorUp'
  <2> SUFFICES ASSUME NEW e \in Element
               PROVE  /\ \A x \in Element : x \in ToSet(kids'[e]) <=> up'[x] = e
                      /\ IsInjective(kids'[e])
    BY DEF KidsMirrorUp
  <2>1. /\ \A x \in Element : x \in ToSet(kids[e]) <=> up[x] = e
        /\ IsInjective(kids[e])
    BY <1>0 DEF KidsMirrorUp
  <2>2. \A x \in Element : up'[x] = IF x = c THEN p ELSE up[x]
    BY <1>0, <1>4
  <2>3. CASE e = p
    BY <1>0, <1>1, <1>3, <2>1, <2>2, <2>3, DomAssumption
  <2>4. CASE e # p
    BY <1>0, <1>1, <1>3, <2>1, <2>2, <2>4, DomAssumption
  <2>5. QED
    BY <2>3, <2>4
<1>8. DocumentOwnsRoot' /\ LiveDocumentsInUse'
  BY <1>1, <1>4, DocumentAssumption
  DEF OwnershipInv, TypeOK, DocumentOwnsRoot, LiveDocumentsInUse
<1>9. NoDanglingWrapper' /\ DestructorNeverThrows'
  BY <1>4 DEF OwnershipInv, NoDanglingWrapper, DestructorNeverThrows, Running
<1>10. LinkedCellsInUse'
  BY <1>0, <1>4 DEF OwnershipInv, LinkedCellsInUse, Running
<1>11. OwnersAreLive' /\ DeadWrappersOwnNothing'
  BY <1>0, <1>4 DEF OwnershipInv, TypeOK, OwnersAreLive, DeadWrappersOwnNothing
<1>12. NoCycleWhileRunning'
  <2> SUFFICES ASSUME Running', NEW e \in Element
               PROVE  up'[e] \notin Subtree(kids', e)
    BY DEF NoCycleWhileRunning
  <2> DEFINE T(x) == Subtree(kids, x)
  <2>1. p # c
    <3>1. c \notin ParentChain(parent, p)
      BY DEF AddXmlChildElement, Running
    <3>2. p \in ParentChain(parent, p)
      BY <1>0 DEF ParentChain, Node
    <3>3. QED
      BY <3>1, <3>2
  <2>2. p \notin T(c)
    BY <1>0, <2>1, InsertedFromOutside DEF AddXmlChildElement
  <2>3. \A x \in Element : /\ T(x) \subseteq Element /\ x \in T(x)
                          /\ \A y \in T(x) : ToSet(kids[y]) \subseteq T(x)
    BY <1>0, SubtreeClosed
  <2>4. up[e] \notin T(e)
    BY DEF OwnershipInv, NoCycleWhileRunning
  <2> HIDE DEF T
  <2>5. CASE p \notin T(e)
    <3>1. \A y \in T(e) : ToSet(kids'[y]) \subseteq T(e)
      BY <1>3, <2>3, <2>5
    <3>2. Subtree(kids', e) \subseteq T(e)
      BY <2>3, <3>1, SubtreeLeast
    <3>3. QED
      BY <1>0, <1>4, <2>4, <2>5, <3>2
  <2>6. CASE p \in T(e)
    <3>1. e # c
      BY <2>2, <2>6
    <3>2. \A y \in T(e) \cup T(c) : ToSet(kids'[y]) \subseteq T(e) \cup T(c)
      BY <1>0, <1>3, <2>3
    <3>3. Subtree(kids', e) \subseteq T(e) \cup T(c)
      BY <1>0, <2>3, <3>2, SubtreeLeast
    <3>4. up[e] \notin T(c)
      <4> SUFFICES ASSUME up[e] \in T(c) PROVE FALSE
        OBVIOUS
      <4>1. e \in ToSet(kids[up[e]])
        BY <1>0, <2>3 DEF KidsMirrorUp
      <4>2. e \in T(c)
        BY <1>0, <2>3, <4>1
      <4>3. T(e) \subseteq T(c)
        <5>1. T(c) \in SUBSET Element /\ \A y \in T(c) : ToSet(kids[y]) \subseteq T(c)
          BY <1>0, <2>3
        <5>2. Subtree(kids, e) \subseteq T(c)
          BY <4>2, <5>1, SubtreeLeast
        <5>3. QED
          BY <5>2 DEF T
      <4>4. QED
        BY <2>2, <2>6, <4>3
    <3>5. QED
      BY <1>0, <1>4, <2>4, <3>1, <3>3, <3>4
  <2>7. QED
    BY <2>5, <2>6
<1>13. QED
  BY <1>5, <1>6, <1>7, <1>8, <1>9, <1>10, <1>11, <1>12 DEF OwnershipInv

(* Drop: the destroyed wrappers form a set closed under "owned by", and the *)
(* nodes they release are whole trees without another live wrapper in them. *)
LEMMA DropOwnership ==
  ASSUME OwnershipInv, Running, NEW n \in held, Drop(n)
  PROVE  OwnershipInv'
<1> DEFINE D == Destroyed(n)
           F == UNION {ReleasedBy(e) : e \in D \cap Element}
           T == {y \in Element : y \notin live \/ y \in D}
<1>0. /\ TypeOK /\ KidsMirrorUp /\ Nil \notin Element /\ Nil \notin Document
      /\ Document \cap Element = {}
      /\ up \in [Element -> Element \cup {Nil}] /\ kids \in [Element -> Seq(Element)]
      /\ parent \in [Element -> Node \cup {Nil}]
      /\ root \in [Document -> Element \cup {Nil}]
  BY DomAssumption, DocumentAssumption DEF OwnershipInv, TypeOK
<1>1. /\ D \subseteq live
      /\ D \cap (held \ {n}) = {}
      /\ \A z \in D : Owners(z) \subseteq D
  BY DestroyedOwners
<1>2. \A e \in D \cap Element : ~ReleaseRefused(e)
  BY <1>0, <1>1 DEF ReleaseRefused, HasParent, OwnershipInv, WrapperMirrorsDom
<1>3. /\ held' = held \ {n} /\ live' = live \ D
      /\ parent' = [e \in Element |-> IF e \in D THEN Nil ELSE parent[e]]
      /\ root' = [d \in Document |-> IF d \in D THEN Nil ELSE root[d]]
      /\ domDocs' = domDocs \ D
      /\ copy' = [d \in Document |-> IF d \in D THEN Nil ELSE copy[d]]
      /\ alloc' = alloc \ F
      /\ up' = [e \in Element |-> IF e \in F THEN Nil ELSE up[e]]
      /\ kids' = [e \in Element |-> IF e \in F THEN << >> ELSE kids[e]]
      /\ texts' = [e \in Element |-> IF e \in F THEN << >> ELSE texts[e]]
      /\ attrs' = [e \in Element |-> IF e \in F THEN NoAttributes ELSE attrs[e]]
      /\ status' = status /\ outcome' = "ok"
  BY <1>2 DEF Drop
<1>4. \A y \in T : ToSet(kids[y]) \subseteq T
  <2> SUFFICES ASSUME NEW y \in T, NEW z \in ToSet(kids[y]), z \in live
               PROVE  z \in D
    BY <1>0 DEF ToSet
  <2>1. z \in Element
    BY <1>0 DEF ToSet
  <2>2. up[z] = y
    BY <1>0, <2>1 DEF KidsMirrorUp
  <2>3. parent[z] = y
    BY <1>0, <2>1, <2>2 DEF OwnershipInv, WrapperMirrorsDom
  <2>4. y \in live
    BY <1>0, <2>1, <2>3 DEF OwnershipInv, OwnersAreLive
  <2>5. z \in Owners(y)
    BY <2>1, <2>3 DEF Owners, Owns
  <2>6. QED
    BY <1>1, <2>4, <2>5
<1> HIDE DEF D
<1>5. \A x \in Element : /\ Subtree(kids, x) \subseteq Element /\ x \in Subtree(kids, x)
                        /\ \A y \in Subtree(kids, x) : ToSet(kids[y]) \subseteq Subtree(kids, x)
  BY <1>0, SubtreeClosed
<1>6. F \subseteq T /\ F \subseteq Element
  <2>1. ASSUME NEW e \in D \cap Element PROVE Subtree(kids, e) \subseteq T
    BY <1>4, <2>1, SubtreeLeast
  <2>2. QED
    BY <2>1 DEF ReleasedBy
<1>7. \A y \in F : ToSet(kids[y]) \subseteq F
  BY <1>5 DEF ReleasedBy
<1>8. ASSUME NEW y \in F, up[y] # Nil PROVE up[y] \in F
  <2>1. PICK e \in D \cap Element : y \in ReleasedBy(e)
    OBVIOUS
  <2>2. ReleasedBy(e) = Subtree(kids, e) /\ parent[e] = Nil
    BY <2>1 DEF ReleasedBy, HasParent
  <2>3. up[e] = Nil
    BY <1>0, <1>1, <2>2 DEF OwnershipInv, WrapperMirrorsDom
  <2>4. up[y] \in Subtree(kids, e)
    BY <1>0, <1>8, <2>1, <2>2, <2>3, SubtreeParents
  <2>5. QED
    BY <2>2, <2>4
<1> HIDE DEF F
<1>9. live' \cap F = {}
  BY <1>3, <1>6
<1> HIDE DEF T
<1>10. TypeOK'
  <2>1. /\ alloc' \subseteq Element
        /\ up' \in [Element -> Element \cup {Nil}]
        /\ kids' \in [Element -> Seq(Element)]
        /\ texts' \in [Element -> Seq(TextNode)]
        /\ attrs' \in [Element -> Attributes]
    BY <1>3, NoAttributesType DEF OwnershipInv, TypeOK
  <2>2. domDocs' \subseteq Document /\ CopyType(copy')
    BY <1>0, <1>3 DEF TypeOK, CopyType
  <2>3. /\ live' \subseteq Node /\ held' \subseteq live'
        /\ parent' \in [Element -> Node \cup {Nil}]
        /\ root' \in [Document -> Element \cup {Nil}]
    BY <1>0, <1>1, <1>3 DEF TypeOK
  <2>4. status' \in Status /\ outcome' \in Outcome
    BY <1>0, <1>3 DEF TypeOK, Outcome
  <2>5. QED
    BY <2>1, <2>2, <2>3, <2>4 DEF TypeOK, CopyType
<1>11. WrapperMirrorsDom'
  BY <1>0, <1>3, <1>9 DEF OwnershipInv, WrapperMirrorsDom
<1>12. KidsMirrorUp'
  <2> SUFFICES ASSUME NEW e \in Element
               PROVE  /\ \A x \in Element : x \in ToSet(kids'[e]) <=> up'[x] = e
                      /\ IsInjective(kids'[e])
    BY DEF KidsMirrorUp
  <2>1. /\ \A x \in Element : x \in ToSet(kids[e]) <=> up[x] = e
        /\ IsInjective(kids[e])
    BY <1>0 DEF KidsMirrorUp
  <2>2. CASE e \in F
    <3>1. ToSet(kids'[e]) = {} /\ IsInjective(kids'[e])
      BY <1>3, <2>2 DEF ToSet, IsInjective
    <3>2. \A x \in Element : up'[x] # e
      BY <1>0, <1>3, <1>7, <2>1, <2>2
    <3>3. QED
      BY <3>1, <3>2
  <2>3. CASE e \notin F
    <3>1. kids'[e] = kids[e]
      BY <1>3, <2>3
    <3>2. \A x \in Element : up'[x] = e <=> up[x] = e
      BY <1>0, <1>3, <1>8, <2>3
    <3>3. QED
      BY <2>1, <3>1, <3>2
  <2>4. QED
    BY <2>2, <2>3
<1>13. DocumentOwnsRoot'
  <2> SUFFICES ASSUME NEW d \in live' \cap Document
               PROVE  root'[d] \in live' \cap Element /\ parent'[root'[d]] = d
    BY DEF DocumentOwnsRoot
  <2>1. root[d] \in live \cap Element /\ parent[root[d]] = d /\ d \in live /\ d \notin D
    BY <1>3 DEF OwnershipInv, DocumentOwnsRoot
  <2>2. d \in Owners(root[d])
    BY <1>0, <2>1 DEF Owners, Owns
  <2>3. root[d] \notin D
    BY <1>1, <2>1, <2>2
  <2>4. QED
    BY <1>3, <2>1, <2>3
<1>14. OwnersAreLive'
  <2> SUFFICES ASSUME NEW e \in live' \cap Element, parent'[e] # Nil
               PROVE  /\ parent'[e] \in live'
                      /\ parent'[e] \in Document => root'[parent'[e]] = e
    BY <1>0 DEF OwnersAreLive
  <2>1. parent'[e] = parent[e] /\ e \in live /\ e \notin D
    BY <1>3
  <2>2. /\ parent[e] \in live
        /\ parent[e] \in Document => root[parent[e]] = e
    BY <2>1 DEF OwnershipInv, OwnersAreLive
  <2>3. e \in Owners(parent[e])
    BY <2>1 DEF Owners, Owns
  <2>4. parent[e] \notin D
    BY <1>1, <2>1, <2>3
  <2>5. QED
    BY <1>3, <2>1, <2>2, <2>4
<1>15. DeadWrappersOwnNothing'
  BY <1>3 DEF OwnershipInv, DeadWrappersOwnNothing
<1>16. NoDanglingWrapper' /\ DestructorNeverThrows' /\ LiveDocumentsInUse'
  BY <1>3, <1>9
  DEF OwnershipInv, NoDanglingWrapper, DestructorNeverThrows, LiveDocumentsInUse, Running
<1>17. LinkedCellsInUse'
  <2> SUFFICES ASSUME NEW e \in Element, up'[e] # Nil
               PROVE  e \in alloc' /\ up'[e] \in alloc'
    BY DEF LinkedCellsInUse
  <2>1. e \notin F /\ up'[e] = up[e]
    BY <1>3
  <2>2. e \in alloc /\ up[e] \in alloc /\ up[e] \in Element
    BY <1>0, <2>1 DEF OwnershipInv, LinkedCellsInUse
  <2>3. up[e] \notin F
    BY <1>0, <1>7, <2>1, <2>2 DEF KidsMirrorUp
  <2>4. QED
    BY <1>3, <2>1, <2>2, <2>3
<1>18. NoCycleWhileRunning'
  <2> SUFFICES ASSUME NEW e \in Element PROVE up'[e] \notin Subtree(kids', e)
    BY DEF NoCycleWhileRunning
  <2>1. \A y \in Subtree(kids, e) : ToSet(kids'[y]) \subseteq Subtree(kids, e)
    BY <1>3, <1>5 DEF ToSet
  <2>2. Subtree(kids', e) \subseteq Subtree(kids, e)
    BY <1>5, <2>1, SubtreeLeast
  <2>3. up[e] \notin Subtree(kids, e)
    BY DEF OwnershipInv, NoCycleWhileRunning
  <2>4. QED
    BY <1>0, <1>3, <1>5, <2>2, <2>3
<1>19. QED
  BY <1>10, <1>11, <1>12, <1>13, <1>14, <1>15, <1>16, <1>17, <1>18 DEF OwnershipInv

(* CopyXmlElement: the copied cells, free before, take over the shape of the *)
(* original's tree, cut off from everything else.                           *)
LEMMA CopyOwnership ==
  ASSUME OwnershipInv, Running, NEW o \in held \cap Element,
         NEW f \in Injection(Subtree(kids, o), Element \ alloc), CopyXmlElement(o, f)
  PROVE  OwnershipInv'
<1> DEFINE M == Subtree(kids, o)
           N == {f[m] : m \in M}
<1>0. /\ TypeOK /\ KidsMirrorUp /\ Nil \notin Element /\ o \in Element /\ o \in live
      /\ up \in [Element -> Element \cup {Nil}] /\ kids \in [Element -> Seq(Element)]
      /\ Document \cap Element = {}
  BY DomAssumption, DocumentAssumption DEF OwnershipInv, TypeOK
<1>1. \A x \in Element : /\ Subtree(kids, x) \subseteq Element /\ x \in Subtree(kids, x)
                        /\ \A y \in Subtree(kids, x) : ToSet(kids[y]) \subseteq Subtree(kids, x)
  BY <1>0, SubtreeClosed
<1>2. /\ M \subseteq Element /\ o \in M
      /\ \A y \in M : ToSet(kids[y]) \subseteq M
  BY <1>0, <1>1
<1>3. /\ f \in [M -> Element \ alloc]
      /\ \A m1, m2 \in M : f[m1] = f[m2] => m1 = m2
  BY DEF Injection, IsInjective
<1>4. \A m \in M \ {o} : up[m] \in M
  BY <1>0, SubtreeParents
<1>5. up[o] \notin M
  BY <1>0 DEF OwnershipInv, NoCycleWhileRunning
<1> HIDE DEF M
<1>6. N \subseteq Element \ alloc /\ f[o] \in N /\ \A m \in M : f[m] \in N
  BY <1>2, <1>3
<1>7. \A m \in M : Original(f, f[m]) = m
  BY <1>3 DEF Original
<1>8. \A n \in N : \E m \in M : n = f[m]
  OBVIOUS
<1>9. /\ alloc' = alloc \cup N
      /\ up' = [n \in Element |->
                  IF n \notin N THEN up[n]
                  ELSE IF n = f[o] THEN Nil ELSE f[up[Original(f, n)]]]
      /\ kids' = [n \in Element |->
                    IF n \notin N THEN kids[n]
                    ELSE [i \in DOMAIN kids[Original(f, n)] |-> f[kids[Original(f, n)][i]]]]
      /\ texts' = [n \in Element |-> IF n \in N THEN texts[Original(f, n)] ELSE texts[n]]
      /\ attrs' = [n \in Element |-> IF n \in N THEN attrs[Original(f, n)] ELSE attrs[n]]
      /\ live' = live \cup {f[o]} /\ held' = held \cup {f[o]}
      /\ status' = status /\ outcome' = "ok"
      /\ UNCHANGED <<domDocs, copy, parent, root>>
  <2>1. N = {f[m] : m \in DOMAIN f}
    BY <1>3
  <2>2. QED
    BY <2>1 DEF CopyXmlElement, Returns, docVars
<1> HIDE DEF N
<1>10. \A n \in N : /\ up[n] = Nil /\ parent[n] = Nil /\ n \notin live
                    /\ \A y \in Element : up[y] # n
  BY <1>6, FreeCellIsAlone
<1>11. \A n \in Element \ N : up'[n] = up[n] /\ kids'[n] = kids[n]
  BY <1>9
<1>12. \A m \in M : up'[f[m]] = IF m = o THEN Nil ELSE f[up[m]]
  <2> TAKE m \in M
  <2>1. f[m] \in N /\ f[m] \in Element /\ Original(f, f[m]) = m /\ (f[m] = f[o] <=> m = o)
    BY <1>2, <1>3, <1>6, <1>7
  <2>2. QED
    BY <1>9, <2>1
<1>12a. \A n \in N : up'[n] \in N \cup {Nil}
  <2> TAKE n \in N
  <2>1. PICK m \in M : n = f[m]
    BY <1>8
  <2>2. m # o => f[up[m]] \in N
    BY <1>4, <1>6
  <2>3. QED
    BY <1>12, <2>1, <2>2
<1>13. ASSUME NEW m \in M
       PROVE  /\ kids'[f[m]] \in Seq(Element)
              /\ ToSet(kids'[f[m]]) = {f[z] : z \in ToSet(kids[m])}
              /\ IsInjective(kids'[f[m]])
  <2> DEFINE t == [i \in DOMAIN kids[m] |-> f[kids[m][i]]]
  <2>1. kids'[f[m]] = t
    BY <1>6, <1>7, <1>9
  <2>2. kids[m] \in Seq(Element) /\ m \in Element
    BY <1>0, <1>2
  <2>3. \A i \in 1 .. Len(kids[m]) : kids[m][i] \in M
    BY <1>2, <2>2 DEF ToSet
  <2>4. t \in [1 .. Len(kids[m]) -> Element]
    BY <1>3, <2>2, <2>3
  <2>5. t \in Seq(Element)
    BY <2>2, <2>4
  <2>6. ToSet(t) = {f[z] : z \in ToSet(kids[m])}
    BY <2>2 DEF ToSet
  <2>7. IsInjective(t)
    <3>1. IsInjective(kids[m])
      BY <1>0, <2>2 DEF KidsMirrorUp
    <3>2. QED
      BY <1>3, <2>2, <2>3, <3>1 DEF IsInjective
  <2> HIDE DEF t
  <2>8. QED
    BY <2>1, <2>5, <2>6, <2>7
<1>14. TypeOK'
  <2>1. up' \in [Element -> Element \cup {Nil}]
    <3>1. \A n \in Element : up'[n] \in Element \cup {Nil}
      BY <1>0, <1>6, <1>11, <1>12a
    <3>2. QED
      BY <1>9, <3>1
  <2>2. kids' \in [Element -> Seq(Element)]
    <3>1. \A n \in Element : kids'[n] \in Seq(Element)
      BY <1>0, <1>8, <1>11, <1>13
    <3>2. QED
      BY <1>9, <3>1
  <2>3. \A n \in N : Original(f, n) \in Element
    BY <1>2, <1>7, <1>8
  <2>4. texts' \in [Element -> Seq(TextNode)] /\ attrs' \in [Element -> Attributes]
    BY <1>0, <1>9, <2>3 DEF TypeOK
  <2>5. alloc' \subseteq Element /\ live' \subseteq Node /\ held' \subseteq live'
    BY <1>0, <1>6, <1>9 DEF TypeOK, Node
  <2>6. QED
    BY <1>0, <1>9, <2>1, <2>2, <2>4, <2>5 DEF TypeOK, Outcome
<1>15. WrapperMirrorsDom'
  <2>1. up'[f[o]] = Nil /\ parent'[f[o]] = Nil /\ f[o] \in Element
    BY <1>2, <1>6, <1>9, <1>10, <1>12
  <2>2. \A e \in live \cap Element : up'[e] = up[e] /\ parent'[e] = parent[e]
    BY <1>9, <1>10, <1>11
  <2>3. QED
    BY <1>0, <1>9, <2>1, <2>2 DEF OwnershipInv, WrapperMirrorsDom
<1>16. \A e \in Element : ToSet(kids[e]) \cap N = {}
  BY <1>0, <1>6, <1>10 DEF KidsMirrorUp
<1>17. KidsMirrorUp'
  <2> SUFFICES ASSUME NEW e \in Element
               PROVE  /\ \A x \in Element : x \in ToSet(kids'[e]) <=> up'[x] = e
                      /\ IsInjective(kids'[e])
    BY DEF KidsMirrorUp
  <2>1. /\ \A y \in Element : \A x \in Element : x \in ToSet(kids[y]) <=> up[x] = y
        /\ IsInjective(kids[e])
    BY <1>0 DEF KidsMirrorUp
  <2>2. CASE e \notin N
    <3>1. kids'[e] = kids[e]
      BY <1>11, <2>2
    <3>2. ASSUME NEW x \in Element PROVE x \in ToSet(kids[e]) <=> up'[x] = e
      <4>1. CASE x \notin N
        BY <1>11, <2>1, <4>1
      <4>2. CASE x \in N
        <5>1. x \notin ToSet(kids[e])
          BY <1>16, <4>2
        <5>2. up'[x] \in N \cup {Nil}
          BY <1>12a, <4>2
        <5>3. QED
          BY <1>0, <2>2, <5>1, <5>2
      <4>3. QED
        BY <4>1, <4>2
    <3>3. QED
      BY <2>1, <3>1, <3>2
  <2>3. CASE e \in N
    <3>1. PICK m \in M : e = f[m]
      BY <1>8, <2>3
    <3>2. ToSet(kids'[e]) = {f[z] : z \in ToSet(kids[m])} /\ IsInjective(kids'[e])
      BY <1>13, <3>1
    <3>3. m \in Element /\ ToSet(kids[m]) \subseteq M
      BY <1>2
    <3>4. ASSUME NEW x \in Element PROVE x \in ToSet(kids'[e]) <=> up'[x] = e
      <4>1. CASE x \notin N
        <5>1. up'[x] # e
          BY <1>10, <1>11, <2>3, <4>1
        <5>2. x \notin ToSet(kids'[e])
          BY <1>6, <3>2, <3>3, <4>1
        <5>3. QED
          BY <5>1, <5>2
      <4>2. CASE x \in N
        <5>1. PICK k \in M : x = f[k]
          BY <1>8, <4>2
        <5>2. x \in ToSet(kids'[e]) <=> up[k] = m
          <6>1. x \in ToSet(kids'[e]) <=> k \in ToSet(kids[m])
            BY <1>3, <3>2, <3>3, <5>1
          <6>2. QED
            BY <1>2, <2>1, <3>3, <6>1
        <5>3. CASE k = o
          BY <1>0, <1>5, <1>12, <5>1, <5>2, <5>3
        <5>4. CASE k # o
          <6>1. up'[x] = f[up[k]] /\ up[k] \in M
            BY <1>4, <1>12, <5>1, <5>4
          <6>2. f[up[k]] = f[m] <=> up[k] = m
            BY <1>3, <6>1
          <6>3. QED
            BY <3>1, <5>2, <6>1, <6>2
        <5>5. QED
          BY <5>3, <5>4
      <4>3. QED
        BY <4>1, <4>2
    <3>5. QED
      BY <3>2, <3>4
  <2>4. QED
    BY <2>2, <2>3
<1>18. DocumentOwnsRoot' /\ LiveDocumentsInUse'
  BY <1>0, <1>6, <1>9 DEF OwnershipInv, DocumentOwnsRoot, LiveDocumentsInUse
<1>19. NoDanglingWrapper' /\ DestructorNeverThrows'
  BY <1>6, <1>9 DEF OwnershipInv, NoDanglingWrapper, DestructorNeverThrows, Running
<1>20. OwnersAreLive' /\ DeadWrappersOwnNothing'
  <2>1. parent[f[o]] = Nil /\ f[o] \in Element
    BY <1>6, <1>10
  <2>2. OwnersAreLive /\ DeadWrappersOwnNothing
    BY DEF OwnershipInv
  <2>3. OwnersAreLive'
    <3> SUFFICES ASSUME NEW e \in live' \cap Element, parent'[e] # Nil
                 PROVE  /\ parent'[e] \in live'
                        /\ parent'[e] \in Document => root'[parent'[e]] = e
      BY DocumentAssumption DEF OwnersAreLive
    <3>1. parent'[e] = parent[e] /\ e \in live
      BY <1>9, <2>1
    <3>2. QED
      BY <1>9, <2>2, <3>1 DEF OwnersAreLive
  <2>4. DeadWrappersOwnNothing'
    BY <1>0, <1>9, <2>2 DEF DeadWrappersOwnNothing
  <2>5. QED
    BY <2>3, <2>4
<1>21. LinkedCellsInUse'
  <2> SUFFICES ASSUME NEW e \in Element, up'[e] # Nil
               PROVE  e \in alloc' /\ up'[e] \in alloc'
    BY DEF LinkedCellsInUse
  <2>1. CASE e \notin N
    BY <1>9, <1>11, <2>1 DEF OwnershipInv, LinkedCellsInUse
  <2>2. CASE e \in N
    BY <1>9, <1>12a, <2>2
  <2>3. QED
    BY <2>1, <2>2
<1>22. NoCycleWhileRunning'
  <2> SUFFICES ASSUME NEW e \in Element PROVE up'[e] \notin Subtree(kids', e)
    BY DEF NoCycleWhileRunning
  <2>1. \A x \in Element : up[x] \notin Subtree(kids, x)
    BY DEF OwnershipInv, NoCycleWhileRunning
  <2>2. CASE e \notin N
    <3> DEFINE S == Subtree(kids, e) \ N
    <3>1. \A y \in S : ToSet(kids'[y]) \subseteq S
      BY <1>1, <1>11, <1>16
    <3>2. S \in SUBSET Element /\ e \in S
      BY <1>1, <2>2
    <3> HIDE DEF S
    <3>3. Subtree(kids', e) \subseteq S
      BY <3>1, <3>2, SubtreeLeast
    <3>4. QED
      BY <1>11, <2>1, <2>2, <3>3 DEF S
  <2>3. CASE e \in N
    <3>1. PICK m \in M : e = f[m]
      BY <1>8, <2>3
    <3> DEFINE S == {f[y] : y \in Subtree(kids, m)}
    <3>2. m \in Element /\ Subtree(kids, m) \subseteq M
      BY <1>2, SubtreeLeast
    <3>3. ASSUME NEW y \in Subtree(kids, m) PROVE ToSet(kids'[f[y]]) \subseteq S
      <4>1. y \in M /\ ToSet(kids[y]) \subseteq Subtree(kids, m)
        BY <1>1, <3>2
      <4>2. QED
        BY <1>13, <4>1
    <3>4. S \in SUBSET Element /\ e \in S
      BY <1>1, <1>3, <3>1, <3>2
    <3>5. Subtree(kids', e) \subseteq S
      <4>1. \A y \in S : ToSet(kids'[y]) \subseteq S
        BY <3>3
      <4> HIDE DEF S
      <4>2. QED
        BY <3>4, <4>1, SubtreeLeast
    <3>6. CASE m = o
      BY <1>0, <1>12, <3>1, <3>4, <3>5, <3>6
    <3>7. CASE m # o
      <4>1. up'[e] = f[up[m]] /\ up[m] \in M
        BY <1>4, <1>12, <3>1, <3>7
      <4>2. up[m] \notin Subtree(kids, m)
        BY <2>1, <3>2
      <4>3. f[up[m]] \notin S
        BY <1>3, <3>2, <4>1, <4>2
      <4>4. QED
        BY <3>5, <4>1, <4>3
    <3>8. QED
      BY <3>6, <3>7
  <2>4. QED
    BY <2>2, <2>3
<1>23. QED
  BY <1>14, <1>15, <1>17, <1>18, <1>19, <1>20, <1>21, <1>22 DEF OwnershipInv

-----------------------------------------------------------------------------
(***************************************************************************)
(* Theorems                                                                 *)
(***************************************************************************)

(* Every step keeps the invariant.                                          *)
LEMMA NextOwnership ==
  ASSUME OwnershipInv, Next
  PROVE  OwnershipInv'
<1>0. Running /\ TypeOK /\ held \subseteq live
  BY DEF Next, Running, OwnershipInv, TypeOK
<1>1. ASSUME NEW e \in Element \ alloc, NEW tagIsValid \in BOOLEAN, NEW new \in XmlAttributes,
             \/ \E text \in Text : CreateXmlElement(e, tagIsValid, text, new)
             \/ CreateXmlElementThrows(e, tagIsValid, new)
      PROVE  OwnershipInv'
  BY <1>0, <1>1, CreateElementOwnership, CreateElementThrowsOwnership
<1>2. ASSUME NEW o \in Elements, NEW f \in Injection(Subtree(kids, o), Element \ alloc),
             CopyXmlElement(o, f)
      PROVE  OwnershipInv'
  BY <1>0, <1>2, CopyOwnership DEF Elements
<1>3. ASSUME NEW p \in Elements, NEW c \in Elements, NEW r \in Elements \cup {Nil},
             AddXmlChildElement(p, c, r) \/ AddXmlChildElementRefused(p, c, r)
      PROVE  OwnershipInv'
  <2>1. CASE AddXmlChildElement(p, c, r)
    BY <1>0, <2>1, AddChildOwnership DEF Elements
  <2>2. CASE AddXmlChildElementRefused(p, c, r)
    <3>1. Returns("addSwallowed") /\ UNCHANGED <<domVars, domDocs, copy, wrapVars, held>>
      BY <2>2 DEF AddXmlChildElementRefused, docVars
    <3>2. "addSwallowed" \in Outcome /\ domDocs' \in SUBSET Document
      BY <1>0, <3>1 DEF Outcome, TypeOK
    <3>3. QED
      BY <3>1, <3>2, RefusalOwnership
  <2>3. QED
    BY <1>3, <2>1, <2>2
<1>4. ASSUME NEW e \in Elements, NEW text \in Text, SetXmlElementText(e, text)
      PROVE  OwnershipInv'
  BY <1>4, SetTextOwnership DEF Elements
<1>5. ASSUME NEW e \in Elements, NEW new \in XmlAttributes,
             \/ SetXmlElementAttributes(e, new)
             \/ SetXmlElementAttributesSwallows(e, new)
      PROVE  OwnershipInv'
  BY <1>5, SetAttributesOwnership, SetAttributesSwallowsOwnership DEF Elements
<1>6. ASSUME NEW e \in Elements, NEW name \in Name,
             \/ \E value \in Value : SetXmlElementAttribute(e, name, value)
             \/ SetXmlElementAttributeThrows(e, name)
      PROVE  OwnershipInv'
  <2>1. ASSUME NEW value \in Value, SetXmlElementAttribute(e, name, value)
        PROVE  OwnershipInv'
    BY <2>1, SetAttributeOwnership DEF Elements
  <2>2. CASE SetXmlElementAttributeThrows(e, name)
    <3>1. Returns("threw") /\ UNCHANGED <<domVars, domDocs, copy, wrapVars, held>>
      BY <2>2 DEF SetXmlElementAttributeThrows, docVars
    <3>2. "threw" \in Outcome /\ domDocs' \in SUBSET Document
      BY <1>0, <3>1 DEF Outcome, TypeOK
    <3>3. QED
      BY <3>1, <3>2, RefusalOwnership
  <2>3. QED
    BY <1>6, <2>1, <2>2
<1>7. ASSUME NEW e \in Elements, GetParent(e)
      PROVE  OwnershipInv'
  BY <1>7, GetParentOwnership DEF Elements
<1>8. ASSUME NEW r \in Elements, NEW version \in Version,
             \/ \E d \in Document \ domDocs : \/ CreateXmlDocument(d, r, version)
                                           \/ CreateXmlDocumentThrows(d, r, version)
             \/ CreateXmlDocumentRejects(version)
      PROVE  OwnershipInv'
  <2>1. ASSUME NEW d \in Document \ domDocs, CreateXmlDocument(d, r, version)
        PROVE  OwnershipInv'
    BY <1>0, <2>1, CreateDocumentOwnership DEF Elements
  <2>2. ASSUME NEW d \in Document \ domDocs, CreateXmlDocumentThrows(d, r, version)
        PROVE  OwnershipInv'
    <3>1. /\ Returns("threw") /\ UNCHANGED <<domVars, copy, wrapVars, held>>
          /\ domDocs' = domDocs \cup {d}
      BY <2>2 DEF CreateXmlDocumentThrows
    <3>2. "threw" \in Outcome /\ domDocs' \in SUBSET Document
      BY <1>0, <3>1 DEF Outcome, TypeOK
    <3>3. QED
      BY <3>1, <3>2, RefusalOwnership
  <2>3. CASE CreateXmlDocumentRejects(version)
    <3>1. Returns("threw") /\ UNCHANGED <<domVars, domDocs, copy, wrapVars, held>>
      BY <2>3 DEF CreateXmlDocumentRejects, docVars
    <3>2. "threw" \in Outcome /\ domDocs' \in SUBSET Document
      BY <1>0, <3>1 DEF Outcome, TypeOK
    <3>3. QED
      BY <3>1, <3>2, RefusalOwnership
  <2>4. QED
    BY <1>8, <2>1, <2>2, <2>3
<1>9. ASSUME NEW d \in Documents, GetXmlRootElement(d)
      PROVE  OwnershipInv'
  BY <1>9, GetRootOwnership DEF Documents
<1>10. ASSUME NEW n \in held, Drop(n)
       PROVE  OwnershipInv'
  BY <1>0, <1>10, DropOwnership
<1>11. CASE Exit
  BY <1>11, ExitOwnership
<1>12. QED
  BY <1>1, <1>2, <1>3, <1>4, <1>5, <1>6, <1>7, <1>8, <1>9, <1>10, <1>11 DEF Next

(* Every behaviour of the adapter keeps the ownership structure: the tree,  *)
(* the wrappers' _parent and _rootElement, and what is in use fit together. *)
THEOREM OwnershipStructure == Spec => []OwnershipInv
<1>1. Init => OwnershipInv
  BY InitOwnership
<1>2. OwnershipInv /\ [Next]_vars => OwnershipInv'
  BY NextOwnership, StutterOwnership
<1>3. QED
  BY <1>1, <1>2, PTL DEF Spec

(* The type invariant: handles are only ever to live wrappers, _parent and  *)
(* _rootElement to wrappers or null.                                        *)
THEOREM TypeCorrect == Spec => []TypeOK
<1>1. OwnershipInv => TypeOK
  BY DEF OwnershipInv
<1>2. QED
  BY <1>1, OwnershipStructure, PTL

(* No order in which the caller drops its handles leaves a wrapper pointing *)
(* at a node that has been released.                                        *)
THEOREM WrappersNeverDangle == Spec => []NoDanglingWrapper
<1>1. OwnershipInv => NoDanglingWrapper
  BY DEF OwnershipInv
<1>2. QED
  BY <1>1, OwnershipStructure, PTL

(* ~XmlElement never asks the DOM to release a node that has a parent, so   *)
(* no exception leaves a destructor.                                        *)
THEOREM DestructorsNeverThrow == Spec => []DestructorNeverThrows
<1>1. OwnershipInv => DestructorNeverThrows
  BY DEF OwnershipInv
<1>2. QED
  BY <1>1, OwnershipStructure, PTL

(* A document and its root point at each other, and no root has two         *)
(* documents.                                                               *)
THEOREM DocumentsOwnTheirRoots == Spec => []DocumentOwnsRoot
<1>1. OwnershipInv => DocumentOwnsRoot
  BY DEF OwnershipInv
<1>2. QED
  BY <1>1, OwnershipStructure, PTL

(* Wrapper parents mirror DOM parents, and child lists mirror both.         *)
THEOREM WrappersMirrorTheDom == Spec => [](WrapperMirrorsDom /\ KidsMirrorUp)
<1>1. OwnershipInv => WrapperMirrorsDom /\ KidsMirrorUp
  BY DEF OwnershipInv
<1>2. QED
  BY <1>1, OwnershipStructure, PTL

(* An element with a parent keeps it until its wrapper is destroyed.        *)
THEOREM AttachmentIsForGood == Spec => AttachedForGood
<1> DEFINE P == \A e \in Element : HasParent(e) /\ e \in live' => parent'[e] = parent[e]
<1>1. ASSUME OwnershipInv, Next PROVE P
  <2>0. parent \in [Element -> Node \cup {Nil}]
    BY <1>1 DEF OwnershipInv, TypeOK
  <2>1. ASSUME NEW p \in Elements, NEW c \in Elements, NEW r \in Elements \cup {Nil},
               AddXmlChildElement(p, c, r)
        PROVE  P
    BY <2>0, <2>1 DEF AddXmlChildElement, CanInsert, HasParent
  <2>2. ASSUME NEW r \in Elements, NEW version \in Version, NEW d \in Document \ domDocs,
               CreateXmlDocument(d, r, version)
        PROVE  P
    BY <2>0, <2>2 DEF CreateXmlDocument, HasParent
  <2>3. ASSUME NEW n \in held, Drop(n)
        PROVE  P
    BY <2>3 DEF Drop
  <2>4. CASE parent' = parent
    BY <2>4
  <2>5. QED
    BY <1>1, <2>1, <2>2, <2>3, <2>4
    DEF Next, CreateXmlElement, CreateXmlElementThrows, CopyXmlElement,
        AddXmlChildElementRefused, SetXmlElementText, SetXmlElementAttributes,
        SetXmlElementAttributesSwallows, SetXmlElementAttribute,
        SetXmlElementAttributeThrows, CreateXmlDocumentThrows, CreateXmlDocumentRejects,
        GetXmlRootElement, GetParent, Exit, wrapVars
<1>2. OwnershipInv /\ [Next]_vars => [P]_vars
  BY <1>1
<1> HIDE DEF P
<1>3. Spec => [][P]_vars
  BY <1>2, OwnershipStructure, PTL DEF Spec
<1>4. QED
  BY <1>3 DEF P, AttachedForGood

(* A call that throws, or that AddXmlChildElement swallows, leaves the      *)
(* nodes, the documents' contents and the wrappers as they were. The        *)
(* DOMDocument of a failed CreateXmlDocument, which is lost, is no part of  *)
(* this.                                                                    *)
THEOREM FailuresChangeNothing == Spec => FailureChangesNothing
<1> DEFINE P == outcome' \in {"threw", "addSwallowed"}
                  => UNCHANGED <<domVars, copy, wrapVars, held>>
<1>1. ASSUME OwnershipInv, Next PROVE P
  <2>0. Running
    BY <1>1 DEF Next, Running
  <2>1. ASSUME NEW e \in Element \ alloc, NEW tagIsValid, NEW new,
               CreateXmlElementThrows(e, tagIsValid, new)
        PROVE  P
    <3>1. Unwound(e) = alloc
      BY <1>1, <2>0, FreeCellIsAlone DEF Unwound
    <3>2. QED
      BY <2>1, <3>1 DEF CreateXmlElementThrows, domVars, docVars
  <2>2. ASSUME UNCHANGED <<domVars, copy, wrapVars, held>>
        PROVE  P
    BY <2>2
  <2>3. ASSUME outcome' \in {"ok", "noReturn", "setSwallowed"}
        PROVE  P
    BY <2>3
  <2> HIDE DEF P
  <2>4. QED
    BY <1>1, <2>1, <2>2, <2>3
    DEF Next, CreateXmlElement, CopyXmlElement, AddXmlChildElement,
        AddXmlChildElementRefused, SetXmlElementText, SetXmlElementAttributes,
        SetXmlElementAttributesSwallows, SetXmlElementAttribute,
        SetXmlElementAttributeThrows, CreateXmlDocument, CreateXmlDocumentThrows,
        CreateXmlDocumentRejects, GetXmlRootElement, GetParent, Drop, Exit, Returns, docVars
<1>2. OwnershipInv /\ [Next]_vars => [P]_vars
  BY <1>1
<1> HIDE DEF P
<1>3. Spec => [][P]_vars
  BY <1>2, OwnershipStructure, PTL DEF Spec
<1>4. QED
  BY <1>3 DEF P, FailureChangesNothing

-----------------------------------------------------------------------------
(***************************************************************************)
(* Hanging                                                                  *)
(***************************************************************************)

(* Reached upwards from n, x is reached downwards: x's subtree has n.       *)
LEMMA UpChainSubtree ==
  ASSUME TypeOK, KidsMirrorUp, NEW n \in Element, NEW x \in UpChain(up, n)
  PROVE  n \in Subtree(kids, x)
<1> DEFINE S == {y \in Element : n \in Subtree(kids, y)}
<1>0. up \in [Element -> Element \cup {Nil}] /\ kids \in [Element -> Seq(Element)]
  BY DEF TypeOK
<1>1. n \in S
  BY <1>0, SubtreeClosed
<1>2. ASSUME NEW y \in S, up[y] # Nil PROVE up[y] \in S
  <2>1. up[y] \in Element /\ y \in ToSet(kids[up[y]])
    BY <1>0, <1>2 DEF KidsMirrorUp
  <2>2. /\ up[y] \in Subtree(kids, up[y]) /\ Subtree(kids, up[y]) \subseteq Element
        /\ \A z \in Subtree(kids, up[y]) : ToSet(kids[z]) \subseteq Subtree(kids, up[y])
    BY <1>0, <2>1, SubtreeClosed
  <2>3. Subtree(kids, y) \subseteq Subtree(kids, up[y])
    BY <2>1, <2>2, SubtreeLeast
  <2>4. QED
    BY <2>1, <2>3
<1> HIDE DEF S
<1>3. UpChain(up, n) \subseteq S
  BY <1>1, <1>2, UpChainLeast DEF S
<1>4. QED
  BY <1>3 DEF S

(* While the program runs no element is its own ancestor.                   *)
LEMMA NoSelfAncestor ==
  ASSUME OwnershipInv, Running, NEW e \in Element
  PROVE  e \notin Ancestors(up, e) /\ up[e] # e
<1>0. TypeOK /\ KidsMirrorUp /\ up \in [Element -> Element \cup {Nil}]
  BY DEF OwnershipInv, TypeOK
<1>1. e \notin Ancestors(up, e)
  <2> SUFFICES ASSUME up[e] # Nil, e \in UpChain(up, up[e]) PROVE FALSE
    BY DEF Ancestors
  <2>1. up[e] \in Element
    BY <1>0
  <2>2. up[e] \in Subtree(kids, e)
    BY <1>0, <2>1, UpChainSubtree
  <2>3. QED
    BY <2>2 DEF OwnershipInv, NoCycleWhileRunning
<1>2. up[e] # e
  <2>1. e \in UpChain(up, e)
    BY <1>0, UpChainClosed
  <2>2. QED
    BY <1>1, <2>1, DomAssumption DEF Ancestors
<1>3. QED
  BY <1>1, <1>2

(* The notification runs into c from p only when c is p: a parentless c     *)
(* above p would have p in its subtree, which is refused.                   *)
LEMMA LoopIsSelfInsertion ==
  ASSUME OwnershipInv, NEW p \in held \cap Element, NEW c \in held \cap Element, NEW r,
         CanInsert(p, c, r), c \in ParentChain(parent, p)
  PROVE  p = c
<1> SUFFICES ASSUME p # c PROVE FALSE
  OBVIOUS
<1>0. /\ TypeOK /\ KidsMirrorUp /\ p \in live /\ c \notin Document
      /\ kids \in [Element -> Seq(Element)] /\ parent \in [Element -> Node \cup {Nil}]
  BY DocumentAssumption DEF OwnershipInv, TypeOK
<1>1. p \notin Subtree(kids, c)
  BY <1>0, InsertedFromOutside
<1> DEFINE S == Document \cup {y \in live \cap Element : p \in Subtree(kids, y)}
<1>2. p \in S
  BY <1>0, SubtreeClosed
<1>3. ASSUME NEW y \in S \cap Element, parent[y] # Nil PROVE parent[y] \in S
  <2>1. y \in live /\ p \in Subtree(kids, y)
    BY <1>3, DocumentAssumption
  <2>2. parent[y] \in live /\ parent[y] \in Node
    BY <1>0, <1>3, <2>1 DEF OwnershipInv, OwnersAreLive
  <2>3. CASE parent[y] \in Element
    <3>1. up[y] = parent[y]
      BY <2>1, <2>3 DEF OwnershipInv, WrapperMirrorsDom
    <3>2. y \in ToSet(kids[parent[y]])
      BY <1>0, <2>3, <3>1 DEF KidsMirrorUp
    <3>3. /\ parent[y] \in Subtree(kids, parent[y])
          /\ Subtree(kids, parent[y]) \subseteq Element
          /\ \A z \in Subtree(kids, parent[y]) :
                ToSet(kids[z]) \subseteq Subtree(kids, parent[y])
      BY <1>0, <2>3, SubtreeClosed
    <3>4. Subtree(kids, y) \subseteq Subtree(kids, parent[y])
      BY <3>2, <3>3, SubtreeLeast
    <3>5. QED
      BY <2>1, <2>2, <2>3, <3>4
  <2>4. QED
    BY <2>2, <2>3 DEF Node
<1>4. S \in SUBSET Node
  BY DEF Node
<1> HIDE DEF S
<1>5. c \in S
  BY <1>2, <1>3, <1>4 DEF ParentChain
<1>6. QED
  BY <1>0, <1>1, <1>5 DEF S

(* After the step that hangs, the only cycle is the element appended to     *)
(* itself.                                                                  *)
LEMMA HangIsSelfInsertion ==
  ASSUME OwnershipInv, Running,
         NEW p \in held \cap Element, NEW c \in held \cap Element, NEW r,
         AddXmlChildElement(p, c, r), status' = "hung"
  PROVE  OnlySelfInsertionHangs'
<1>0. up \in [Element -> Element \cup {Nil}] /\ Nil \notin Element
  BY DomAssumption DEF OwnershipInv, TypeOK
<1>1. p = c
  BY LoopIsSelfInsertion DEF AddXmlChildElement, Returns, Running
<1>2. up' = [up EXCEPT ![c] = c]
  BY <1>1 DEF AddXmlChildElement, UpAfterInsert
<1>3. up'[c] = c
  BY <1>0, <1>2
<1>4. ASSUME NEW e \in Element, e # c PROVE e \notin Ancestors(up', e)
  <2>1. up'[e] = up[e]
    BY <1>0, <1>2, <1>4
  <2>2. CASE up[e] = Nil
    BY <2>1, <2>2 DEF Ancestors
  <2>3. CASE up[e] # Nil
    <3> DEFINE A == UpChain(up, up[e])
    <3>1. /\ A \subseteq Element /\ up[e] \in A
          /\ \A y \in A : up[y] # Nil => up[y] \in A
      BY <1>0, <2>3, UpChainClosed
    <3>2. e \notin A
      BY <2>3, NoSelfAncestor DEF Ancestors
    <3> HIDE DEF A
    <3>3. \A y \in A : up'[y] # Nil => up'[y] \in A
      BY <1>0, <1>2, <3>1
    <3>4. UpChain(up', up[e]) \subseteq A
      BY <3>1, <3>3, UpChainLeast
    <3>5. QED
      BY <2>1, <2>3, <3>2, <3>4 DEF Ancestors
  <2>4. QED
    BY <2>2, <2>3
<1>5. QED
  BY <1>3, <1>4 DEF OnlySelfInsertionHangs

(* A call of the adapter never returns, and an element is its own ancestor, *)
(* only when an element has been appended to itself.                        *)
THEOREM HangsByItselfOnly == Spec => []OnlySelfInsertionHangs
<1>1. OwnershipInv /\ Running => OnlySelfInsertionHangs
  <2> SUFFICES ASSUME OwnershipInv, Running PROVE OnlySelfInsertionHangs
    OBVIOUS
  <2>1. status # "hung"
    BY DEF Running
  <2>2. QED
    BY <2>1, NoSelfAncestor DEF OnlySelfInsertionHangs
<1>2. OwnershipInv /\ OnlySelfInsertionHangs /\ [Next]_vars
        => OnlySelfInsertionHangs' \/ Running'
  <2> SUFFICES ASSUME OwnershipInv, OnlySelfInsertionHangs, [Next]_vars, ~Running'
               PROVE  OnlySelfInsertionHangs'
    OBVIOUS
  <2>1. CASE UNCHANGED vars
    BY <2>1 DEF OnlySelfInsertionHangs, vars, domVars, Ancestors
  <2>2. CASE Next
    <3>0. Running
      BY <2>2 DEF Next, Running
    <3>1. ASSUME NEW p \in Elements, NEW c \in Elements, NEW r \in Elements \cup {Nil},
                 AddXmlChildElement(p, c, r)
          PROVE  OnlySelfInsertionHangs'
      <4>1. status' = "hung"
        BY <3>0, <3>1 DEF AddXmlChildElement, Returns, Running
      <4>2. QED
        BY <3>0, <3>1, <4>1, HangIsSelfInsertion DEF Elements
    <3>2. ASSUME NEW n \in held, Drop(n) PROVE FALSE
      <4>1. \A e \in Destroyed(n) \cap Element : ~ReleaseRefused(e)
        BY DestroyedOwners
        DEF ReleaseRefused, HasParent, OwnershipInv, WrapperMirrorsDom
      <4>2. QED
        BY <3>0, <3>2, <4>1 DEF Drop, Running
    <3>3. CASE Exit
      <4>1. up' = up /\ status' = "exited"
        BY <3>3 DEF Exit
      <4>2. QED
        BY <3>0, <4>1, NoSelfAncestor DEF OnlySelfInsertionHangs, Ancestors
    <3>4. CASE status' = status
      BY <3>0, <3>4 DEF Running
    <3>5. QED
      BY <2>2, <3>1, <3>2, <3>3, <3>4
      DEF Next, CreateXmlElement, CreateXmlElementThrows, CopyXmlElement,
          AddXmlChildElementRefused, SetXmlElementText, SetXmlElementAttributes,
          SetXmlElementAttributesSwallows, SetXmlElementAttribute,
          SetXmlElementAttributeThrows, CreateXmlDocument, CreateXmlDocumentThrows,
          CreateXmlDocumentRejects, GetXmlRootElement, GetParent, Returns
  <2>3. QED
    BY <2>1, <2>2
<1>3. Init => Running
  BY DEF Init, Running
<1>4. QED
  BY <1>1, <1>2, <1>3, OwnershipStructure, PTL DEF Spec

-----------------------------------------------------------------------------
(***************************************************************************)
(* Documents and their copies                                               *)
(***************************************************************************)

(* What an import sees is what is below its root.                           *)
LEMMA SameImport ==
  ASSUME kids \in [Element -> Seq(Element)], kids' \in [Element -> Seq(Element)],
         NEW r \in Element,
         \A y \in Subtree(kids, r) :
            kids'[y] = kids[y] /\ texts'[y] = texts[y] /\ attrs'[y] = attrs[y]
  PROVE  ImportNode(kids', texts', attrs', r) = ImportNode(kids, texts, attrs, r)
<1> DEFINE T  == Subtree(kids, r)
           T2 == Subtree(kids', r)
<1>1. /\ T \subseteq Element /\ r \in T
      /\ \A y \in T : ToSet(kids[y]) \subseteq T
  BY SubtreeClosed
<1>2. /\ T2 \subseteq Element /\ r \in T2
      /\ \A y \in T2 : ToSet(kids'[y]) \subseteq T2
  BY SubtreeClosed
<1>3. T2 \subseteq T
  <2>1. \A y \in T : ToSet(kids'[y]) \subseteq T
    BY <1>1
  <2> HIDE DEF T
  <2>2. QED
    BY <1>1, <2>1, SubtreeLeast
<1>4. T \subseteq T2
  <2>1. \A y \in T2 : ToSet(kids[y]) \subseteq T2
    BY <1>2, <1>3
  <2> HIDE DEF T2
  <2>2. QED
    BY <1>2, <2>1, SubtreeLeast
<1>5. T2 = T
  BY <1>3, <1>4
<1>6. QED
  BY <1>5 DEF ImportNode

(* The notification from an element below a document's root comes to the    *)
(* document; par is _parent, perhaps with c, a parentless element, just set. *)
LEMMA BelowRootNotifies ==
  ASSUME OwnershipInv, NEW d \in live \cap Document,
         NEW e \in Subtree(kids, root[d]), e \in live,
         NEW par, \A y \in live \cap Element : parent[y] # Nil => par[y] = parent[y]
  PROVE  d \in Notified(par, e)
<1> DEFINE S == {y \in Element : y \in live => d \in ParentChain(par, y)}
<1>0. /\ kids \in [Element -> Seq(Element)] /\ d # Nil /\ d \notin Element
      /\ root[d] \in live \cap Element /\ parent[root[d]] = d
      /\ Nil \notin Element
  BY DocumentAssumption, DomAssumption DEF OwnershipInv, TypeOK, DocumentOwnsRoot
<1>1. root[d] \in S
  <2>1. par[root[d]] = d
    BY <1>0
  <2>2. QED
    BY <1>0, <2>1 DEF ParentChain, Node
<1>2. ASSUME NEW y \in S, NEW z \in ToSet(kids[y]), z \in live PROVE d \in ParentChain(par, z)
  <2>1. z \in Element /\ y \in Element
    BY <1>0 DEF ToSet
  <2>2. up[z] = y
    BY <2>1 DEF OwnershipInv, KidsMirrorUp
  <2>3. parent[z] = y /\ y \in live
    BY <1>0, <1>2, <2>1, <2>2 DEF OwnershipInv, WrapperMirrorsDom, OwnersAreLive
  <2>4. par[z] = y
    BY <1>0, <1>2, <2>1, <2>3
  <2>5. d \in ParentChain(par, y)
    BY <2>3
  <2>6. QED
    BY <1>0, <2>1, <2>4, <2>5 DEF ParentChain
<1>3. \A y \in S : ToSet(kids[y]) \subseteq S
  BY <1>0, <1>2 DEF ToSet
<1>4. S \in SUBSET Element
  OBVIOUS
<1> HIDE DEF S
<1>5. Subtree(kids, root[d]) \subseteq S
  BY <1>1, <1>3, <1>4, SubtreeLeast
<1>6. QED
  BY <1>5 DEF S, Notified

(* Below a node in use there are only nodes in use.                         *)
LEMMA TreeInUse ==
  ASSUME OwnershipInv, Running, NEW e \in alloc
  PROVE  Subtree(kids, e) \subseteq alloc
<1>0. /\ kids \in [Element -> Seq(Element)] /\ alloc \in SUBSET Element
      /\ Nil \notin Element
  BY DomAssumption DEF OwnershipInv, TypeOK
<1>1. ASSUME NEW y \in alloc, NEW z \in ToSet(kids[y]) PROVE z \in alloc
  <2>1. z \in Element /\ y \in Element
    BY <1>0 DEF ToSet
  <2>2. up[z] = y
    BY <2>1 DEF OwnershipInv, KidsMirrorUp
  <2>3. QED
    BY <1>0, <2>1, <2>2 DEF OwnershipInv, LinkedCellsInUse
<1>2. \A y \in alloc : ToSet(kids[y]) \subseteq alloc
  BY <1>1
<1>3. QED
  BY <1>0, <1>2, SubtreeLeast

(* So the tree of a document's root has only nodes in use.                  *)
LEMMA RootTreeInUse ==
  ASSUME OwnershipInv, Running, NEW d \in live \cap Document
  PROVE  root[d] \in Element /\ Subtree(kids, root[d]) \subseteq alloc
<1>1. root[d] \in Element /\ root[d] \in alloc
  BY DEF OwnershipInv, DocumentOwnsRoot, NoDanglingWrapper
<1>2. QED
  BY <1>1, TreeInUse

(* Two trees with different tops share no node.                             *)
LEMMA TreesAreDisjoint ==
  ASSUME TypeOK, KidsMirrorUp, NEW a \in Element, NEW b \in Element,
         up[a] = Nil, up[b] = Nil, a # b
  PROVE  Subtree(kids, a) \cap Subtree(kids, b) = {}
<1> DEFINE A == Subtree(kids, a)
           B == Subtree(kids, b)
<1>0. kids \in [Element -> Seq(Element)] /\ Nil \notin Element
  BY DomAssumption DEF TypeOK
<1>1. /\ A \subseteq Element /\ a \in A /\ \A y \in A : ToSet(kids[y]) \subseteq A
      /\ B \subseteq Element
  BY <1>0, SubtreeClosed
<1>2. \A n \in B : n # b => up[n] \in B
  BY SubtreeParents
<1>3. a \notin B
  BY <1>0, <1>1, <1>2
<1>4. ASSUME NEW y \in A \ B, NEW z \in ToSet(kids[y]) PROVE z \in A \ B
  <2>1. z \in A /\ z \in Element /\ up[z] = y
    BY <1>1 DEF KidsMirrorUp
  <2>2. QED
    BY <1>0, <1>1, <1>2, <2>1
<1> DEFINE S == A \ B
<1>5. \A y \in S : ToSet(kids[y]) \subseteq S
  BY <1>4
<1>6. S \in SUBSET Element /\ a \in S
  BY <1>1, <1>3
<1> HIDE DEF S
<1>7. Subtree(kids, a) \subseteq S
  BY <1>5, <1>6, SubtreeLeast
<1>8. QED
  BY <1>7 DEF S

(* A document and its root own each other, so neither is ever destroyed.    *)
LEMMA DocumentsStay ==
  ASSUME OwnershipInv, NEW n, NEW d \in live \cap Document
  PROVE  d \notin Destroyed(n) /\ root[d] \notin Destroyed(n)
<1> DEFINE S == live \ {d, root[d]}
<1>0. root[d] \in live \cap Element /\ parent[root[d]] = d /\ d \notin Element
  BY DocumentAssumption DEF OwnershipInv, DocumentOwnsRoot
<1>1. root[d] \in Owners(d) /\ d \in Owners(root[d])
  BY <1>0 DEF Owners, Owns
<1>2. \A y \in live : y \notin held \ {n} /\ Owners(y) \subseteq S => y \in S
  BY <1>1
<1>3. S \in SUBSET live
  OBVIOUS
<1>4. Destroyed(n) \subseteq S
  BY <1>2, <1>3 DEF Destroyed
<1>5. QED
  BY <1>4

(* What a step may do to a document d: leave it equal to its root, change   *)
(* neither of the two, or be a SetXmlElementAttributes cut short.           *)
DocumentFollows(d) ==
  \/ Current(d)'
  \/ /\ ImportNode(kids, texts, attrs, root[d])' = ImportNode(kids, texts, attrs, root[d])
     /\ copy'[d] = copy[d]
  \/ outcome' = "setSwallowed"

(* A call that changes e and then notifies from e.                          *)
LEMMA NotifiedFollows ==
  ASSUME OwnershipInv, NEW d \in live \cap Document, NEW e \in live \cap Element,
         NEW par, \A y \in live \cap Element : parent[y] # Nil => par[y] = parent[y],
         kids' \in [Element -> Seq(Element)], root' = root,
         \A y \in Element \ {e} :
            kids'[y] = kids[y] /\ texts'[y] = texts[y] /\ attrs'[y] = attrs[y],
         copy' = AfterNotify(par, kids', texts', attrs', e)
  PROVE  DocumentFollows(d)
<1>0. root[d] \in Element /\ kids \in [Element -> Seq(Element)]
  BY DEF OwnershipInv, TypeOK, DocumentOwnsRoot
<1> DEFINE new == ImportNode(kids', texts', attrs', root[d])
<1>1. CASE d \in Notified(par, e)
  <2>1. copy'[d] = Refreshed(copy[d], kids', texts', attrs', root[d])
    BY <1>1 DEF AfterNotify
  <2>2. copy'[d] = new
    BY <2>1 DEF Refreshed
  <2>3. QED
    BY <2>2 DEF DocumentFollows, Current
<1>2. CASE d \notin Notified(par, e)
  <2>1. e \notin Subtree(kids, root[d])
    BY <1>2, BelowRootNotifies
  <2>2. \A y \in Subtree(kids, root[d]) :
           kids'[y] = kids[y] /\ texts'[y] = texts[y] /\ attrs'[y] = attrs[y]
    BY <2>1 DEF Subtree
  <2>3. new = ImportNode(kids, texts, attrs, root[d])
    BY <1>0, <2>2, SameImport
  <2>4. copy'[d] = copy[d]
    BY <1>2 DEF AfterNotify
  <2>5. QED
    BY <2>3, <2>4 DEF DocumentFollows
<1>3. QED
  BY <1>1, <1>2

(* A call that changes no node of a document's tree, nor the document.      *)
LEMMA UntouchedFollows ==
  ASSUME OwnershipInv, NEW d \in live \cap Document,
         kids' \in [Element -> Seq(Element)], root'[d] = root[d], copy'[d] = copy[d],
         \A y \in Subtree(kids, root[d]) :
            kids'[y] = kids[y] /\ texts'[y] = texts[y] /\ attrs'[y] = attrs[y]
  PROVE  DocumentFollows(d)
<1>0. root[d] \in Element /\ kids \in [Element -> Seq(Element)]
  BY DEF OwnershipInv, TypeOK, DocumentOwnsRoot
<1>1. ImportNode(kids', texts', attrs', root[d]) = ImportNode(kids, texts, attrs, root[d])
  BY <1>0, SameImport
<1>2. QED
  BY <1>1 DEF DocumentFollows

(* AddXmlChildElement: the notification starts at p, whose chain does not   *)
(* go through the child.                                                    *)
LEMMA AddChildFollows ==
  ASSUME OwnershipInv, OwnershipInv', NEW d \in live \cap Document,
         NEW p \in held \cap Element, NEW c \in held \cap Element,
         NEW r \in (held \cap Element) \cup {Nil}, AddXmlChildElement(p, c, r)
  PROVE  DocumentFollows(d)
<1>0. /\ up \in [Element -> Element \cup {Nil}] /\ kids \in [Element -> Seq(Element)]
      /\ texts \in [Element -> Seq(TextNode)]
      /\ parent \in [Element -> Node \cup {Nil}] /\ p \in live /\ c \in live
      /\ kids' \in [Element -> Seq(Element)]
  BY DEF OwnershipInv, TypeOK
<1>1. parent[c] = Nil /\ up[c] = Nil
  BY <1>0, DomAssumption
  DEF AddXmlChildElement, CanInsert, HasParent, OwnershipInv, WrapperMirrorsDom
<1>2. ASSUME NEW y \in Element \ {p} PROVE kids'[y] = kids[y] /\ texts'[y] = texts[y]
  <2>1. KidsWithout(kids, up, c) = kids /\ TextsWithout(texts, kids, up, c) = texts
    BY <1>1 DEF KidsWithout, TextsWithout
  <2>2. KidsWith(kids, p, c, r)[y] = kids[y] /\ TextsWith(texts, kids, p, r)[y] = texts[y]
    BY <1>0, <1>2 DEF KidsWith, TextsWith
  <2>3. QED
    BY <2>1, <2>2 DEF AddXmlChildElement, KidsAfterInsert, TextsAfterInsert
<1>3. \A y \in live \cap Element : parent[y] # Nil => parent'[y] = parent[y]
  BY <1>0, <1>1 DEF AddXmlChildElement
<1>4. /\ attrs' = attrs /\ root' = root
      /\ copy' = AfterNotify(parent', kids', texts', attrs', p)
  BY DEF AddXmlChildElement
<1>5. QED
  BY <1>0, <1>2, <1>3, <1>4, NotifiedFollows

(* CopyXmlElement writes free cells only.                                   *)
LEMMA CopyFollows ==
  ASSUME OwnershipInv, OwnershipInv', Running, NEW d \in live \cap Document,
         NEW o \in held \cap Element,
         NEW f \in Injection(Subtree(kids, o), Element \ alloc), CopyXmlElement(o, f)
  PROVE  DocumentFollows(d)
<1> DEFINE N == {f[m] : m \in DOMAIN f}
<1>1. N \cap alloc = {}
  BY DEF Injection
<1>2. \A y \in Subtree(kids, root[d]) : y \in Element /\ y \notin N
  BY <1>1, RootTreeInUse DEF Subtree
<1>3. \A y \in Element \ N :
         kids'[y] = kids[y] /\ texts'[y] = texts[y] /\ attrs'[y] = attrs[y]
  BY DEF CopyXmlElement
<1>4. kids' \in [Element -> Seq(Element)] /\ root' = root /\ copy' = copy
  BY DEF OwnershipInv, TypeOK, CopyXmlElement, docVars
<1> HIDE DEF N
<1>5. QED
  BY <1>2, <1>3, <1>4, UntouchedFollows

(* What Drop releases is whole trees of parentless elements, and a          *)
(* document's root is not one of them.                                      *)
LEMMA DropFollows ==
  ASSUME OwnershipInv, OwnershipInv', NEW d \in live \cap Document,
         NEW n \in held, Drop(n)
  PROVE  DocumentFollows(d)
<1> DEFINE D == Destroyed(n)
           F == UNION {ReleasedBy(e) : e \in D \cap Element}
<1>0. /\ TypeOK /\ KidsMirrorUp /\ d \in Document /\ d # Nil
      /\ root[d] \in live \cap Element /\ parent[root[d]] = d /\ d \notin Element
      /\ kids' \in [Element -> Seq(Element)]
  BY DocumentAssumption DEF OwnershipInv, TypeOK, DocumentOwnsRoot
<1>1. d \notin D /\ root[d] \notin D /\ D \subseteq live
  BY DocumentsStay, DestroyedOwners
<1>2. up[root[d]] = Nil
  BY <1>0 DEF OwnershipInv, WrapperMirrorsDom
<1>3. ASSUME NEW e \in D \cap Element PROVE ReleasedBy(e) \cap Subtree(kids, root[d]) = {}
  <2>1. CASE HasParent(e)
    BY <2>1 DEF ReleasedBy
  <2>2. CASE ~HasParent(e)
    <3>1. up[e] = Nil /\ e # root[d]
      BY <1>1, <2>2, DomAssumption DEF HasParent, OwnershipInv, WrapperMirrorsDom
    <3>2. QED
      BY <1>0, <1>2, <2>2, <3>1, TreesAreDisjoint DEF ReleasedBy
  <2>3. QED
    BY <2>1, <2>2
<1>4. \A y \in Subtree(kids, root[d]) : y \in Element /\ y \notin F
  BY <1>3 DEF Subtree
<1>5. /\ kids' = [e \in Element |-> IF e \in F THEN << >> ELSE kids[e]]
      /\ texts' = [e \in Element |-> IF e \in F THEN << >> ELSE texts[e]]
      /\ attrs' = [e \in Element |-> IF e \in F THEN NoAttributes ELSE attrs[e]]
      /\ root' = [x \in Document |-> IF x \in D THEN Nil ELSE root[x]]
      /\ copy' = [x \in Document |-> IF x \in D THEN Nil ELSE copy[x]]
  BY DEF Drop
<1> HIDE DEF D, F
<1>6. root'[d] = root[d] /\ copy'[d] = copy[d]
  BY <1>0, <1>1, <1>5
<1>7. QED
  BY <1>0, <1>4, <1>5, <1>6, UntouchedFollows

(* Every step of the adapter.                                               *)
LEMMA NextFollows ==
  ASSUME OwnershipInv, OwnershipInv', Next, NEW d \in live \cap Document
  PROVE  DocumentFollows(d)
<1>0. /\ Running /\ held \subseteq live
      /\ kids \in [Element -> Seq(Element)] /\ kids' \in [Element -> Seq(Element)]
      /\ texts \in [Element -> Seq(TextNode)] /\ attrs \in [Element -> Attributes]
  BY DEF Next, Running, OwnershipInv, TypeOK
<1>1. ASSUME NEW e \in Element \ alloc, NEW tagIsValid, NEW text, NEW new,
             CreateXmlElement(e, tagIsValid, text, new)
      PROVE  DocumentFollows(d)
  <2>1. \A y \in Subtree(kids, root[d]) : y \in Element /\ y # e
    BY <1>0, RootTreeInUse DEF Subtree
  <2>2. QED
    BY <1>0, <1>1, <2>1, UntouchedFollows DEF CreateXmlElement, docVars
<1>2. ASSUME NEW o \in Elements, NEW f \in Injection(Subtree(kids, o), Element \ alloc),
             CopyXmlElement(o, f)
      PROVE  DocumentFollows(d)
  BY <1>0, <1>2, CopyFollows DEF Elements
<1>3. ASSUME NEW p \in Elements, NEW c \in Elements, NEW r \in Elements \cup {Nil},
             AddXmlChildElement(p, c, r)
      PROVE  DocumentFollows(d)
  BY <1>3, AddChildFollows DEF Elements
<1>4. ASSUME NEW e \in Elements, NEW text, SetXmlElementText(e, text)
      PROVE  DocumentFollows(d)
  <2>1. /\ kids' = kids /\ attrs' = attrs /\ root' = root
        /\ copy' = AfterNotify(parent, kids', texts', attrs', e)
        /\ \A y \in Element \ {e} : texts'[y] = texts[y]
    BY <1>0, <1>4 DEF SetXmlElementText, wrapVars
  <2>2. QED
    BY <1>0, <2>1, NotifiedFollows DEF Elements
<1>5. ASSUME NEW e \in Elements, NEW new,
             SetXmlElementAttributes(e, new)
      PROVE  DocumentFollows(d)
  <2>1. /\ kids' = kids /\ texts' = texts /\ root' = root
        /\ copy' = AfterNotify(parent, kids', texts', attrs', e)
        /\ \A y \in Element \ {e} : attrs'[y] = attrs[y]
    BY <1>0, <1>5 DEF SetXmlElementAttributes, wrapVars
  <2>2. QED
    BY <1>0, <2>1, NotifiedFollows DEF Elements
<1>6. ASSUME NEW e \in Elements, NEW name, NEW value, SetXmlElementAttribute(e, name, value)
      PROVE  DocumentFollows(d)
  <2>1. /\ kids' = kids /\ texts' = texts /\ root' = root
        /\ copy' = AfterNotify(parent, kids', texts', attrs', e)
        /\ \A y \in Element \ {e} : attrs'[y] = attrs[y]
    BY <1>0, <1>6 DEF SetXmlElementAttribute, wrapVars
  <2>2. QED
    BY <1>0, <2>1, NotifiedFollows DEF Elements
<1>7. ASSUME NEW r \in Elements, NEW version, NEW x \in Document \ domDocs,
             CreateXmlDocument(x, r, version)
      PROVE  DocumentFollows(d)
  <2>1. x # d
    BY DEF OwnershipInv, LiveDocumentsInUse
  <2>2. /\ kids' = kids /\ texts' = texts /\ attrs' = attrs
        /\ root'[d] = root[d] /\ copy'[d] = copy[d]
    BY <1>7, <2>1 DEF CreateXmlDocument, domVars, OwnershipInv, TypeOK
  <2>3. QED
    BY <1>0, <2>2, UntouchedFollows
<1>8. ASSUME NEW n \in held, Drop(n) PROVE DocumentFollows(d)
  BY <1>8, DropFollows
<1>9. CASE UNCHANGED <<kids, texts, attrs, root, copy>>
  BY <1>9 DEF DocumentFollows
<1>10. CASE outcome' = "setSwallowed"
  BY <1>10 DEF DocumentFollows
<1>11. ASSUME NEW e, NEW tagIsValid, NEW new, CreateXmlElementThrows(e, tagIsValid, new)
       PROVE  DocumentFollows(d)
  BY <1>9, <1>11 DEF CreateXmlElementThrows, docVars, wrapVars
<1> HIDE DEF DocumentFollows
<1>12. QED
  BY <1>1, <1>2, <1>3, <1>4, <1>5, <1>6, <1>7, <1>8, <1>9, <1>10, <1>11
  DEF Next, AddXmlChildElementRefused, SetXmlElementAttributesSwallows,
      SetXmlElementAttributeThrows, CreateXmlDocumentThrows, CreateXmlDocumentRejects,
      GetXmlRootElement, GetParent, Exit, Returns, domVars, docVars, wrapVars

(* Steps of the specification, the invariant before and after.              *)
LEMMA StepFollows ==
  ASSUME OwnershipInv, OwnershipInv', [Next]_vars, NEW d \in live \cap Document
  PROVE  DocumentFollows(d)
<1>1. CASE Next
  BY <1>1, NextFollows
<1>2. CASE UNCHANGED vars
  BY <1>2 DEF DocumentFollows, vars, domVars, docVars, wrapVars
<1>3. QED
  BY <1>1, <1>2

(* A document equal to its root stops being so only by a                    *)
(* SetXmlElementAttributes whose exception was swallowed.                   *)
THEOREM StaleOnlyBySwallowing == Spec => StaleOnlyWhenSwallowed
<1> DEFINE P == \A d \in live \cap Document :
                   Running /\ Current(d) /\ ~Current(d)' => outcome' = "setSwallowed"
<1>1. OwnershipInv /\ OwnershipInv' /\ [Next]_vars => [P]_vars
  <2> SUFFICES ASSUME OwnershipInv, OwnershipInv', [Next]_vars,
                      NEW d \in live \cap Document, Current(d)
               PROVE  Current(d)' \/ outcome' = "setSwallowed"
    OBVIOUS
  <2>1. DocumentFollows(d)
    BY StepFollows
  <2>2. QED
    BY <2>1 DEF DocumentFollows, Current
<1> HIDE DEF P
<1>2. Spec => [][P]_vars
  BY <1>1, OwnershipStructure, PTL DEF Spec
<1>3. QED
  BY <1>2 DEF P, StaleOnlyWhenSwallowed

(* What a call that returns normally changes below a document's root, the   *)
(* document has too: whatever was lost before is caught up with.            *)
THEOREM ChangesReachTheDocument == Spec => ChangesReachDocument
<1> DEFINE P == \A d \in live \cap Document :
                   /\ ImportNode(kids, texts, attrs, root[d])
                        # ImportNode(kids, texts, attrs, root[d])'
                   /\ outcome' = "ok" /\ status' = "running"
                   => Current(d)'
<1>1. OwnershipInv /\ OwnershipInv' /\ [Next]_vars => [P]_vars
  <2> SUFFICES ASSUME OwnershipInv, OwnershipInv', [Next]_vars,
                      NEW d \in live \cap Document,
                      ImportNode(kids, texts, attrs, root[d])
                        # ImportNode(kids, texts, attrs, root[d])',
                      outcome' = "ok"
               PROVE  Current(d)'
    OBVIOUS
  <2>1. DocumentFollows(d)
    BY StepFollows
  <2>2. QED
    BY <2>1 DEF DocumentFollows
<1> HIDE DEF P
<1>2. Spec => [][P]_vars
  BY <1>1, OwnershipStructure, PTL DEF Spec
<1>3. QED
  BY <1>2 DEF P, ChangesReachDocument

-----------------------------------------------------------------------------
(***************************************************************************)
(* The text of an element                                                   *)
(***************************************************************************)

(* Inserting an element child moves a text child behind it by one.          *)
LEMMA AddChildText ==
  ASSUME OwnershipInv, OneTextChild, Running,
         NEW p \in held \cap Element, NEW c \in held \cap Element,
         NEW r \in (held \cap Element) \cup {Nil}, AddXmlChildElement(p, c, r)
  PROVE  OneTextChild'
<1>0. /\ up \in [Element -> Element \cup {Nil}] /\ kids \in [Element -> Seq(Element)]
      /\ texts \in [Element -> Seq(TextNode)] /\ p \in Element /\ c \in Element
      /\ alloc \subseteq Element /\ p \in alloc /\ p \in live /\ c \in live
      /\ alloc' = alloc
  BY DEF OwnershipInv, TypeOK, NoDanglingWrapper, AddXmlChildElement
<1>1. up[c] = Nil
  BY <1>0, DomAssumption
  DEF AddXmlChildElement, CanInsert, HasParent, OwnershipInv, WrapperMirrorsDom
<1>2. c # r /\ (r # Nil => up[r] = p)
  BY <1>0, <1>1, DomAssumption DEF AddXmlChildElement, CanInsert, InsertAllowed
<1>3. kids' = KidsWith(kids, p, c, r) /\ texts' = TextsWith(texts, kids, p, r)
  BY <1>1, <1>2
  DEF AddXmlChildElement, KidsAfterInsert, TextsAfterInsert, KidsWithout, TextsWithout
<1>4. ASSUME NEW e \in alloc, e # p
      PROVE  Len(texts'[e]) = 1 /\ texts'[e][1].at <= Len(kids'[e])
  <2>1. kids'[e] = kids[e] /\ texts'[e] = texts[e]
    BY <1>0, <1>3, <1>4 DEF KidsWith, TextsWith
  <2>2. QED
    BY <1>4, <2>1 DEF OneTextChild
<1>5. Len(texts'[p]) = 1 /\ texts'[p][1].at <= Len(kids'[p])
  <2> DEFINE ts == texts[p]
             ks == kids[p]
  <2>1. /\ ts \in Seq(TextNode) /\ ks \in Seq(Element)
        /\ Len(ts) = 1 /\ ts[1].at <= Len(ks)
    BY <1>0 DEF OneTextChild
  <2> HIDE DEF ts, ks
  <2>2. ts[1] \in TextNode /\ ts[1].at \in Nat
    <3>1. ts[1] \in TextNode
      <4>1. ts \in Seq(TextNode) /\ Len(ts) = 1
        BY <2>1
      <4>2. QED
        BY <4>1
    <3>2. QED
      BY <3>1 DEF TextNode
  <2>3. CASE r = Nil
    <3>1. kids'[p] = Append(ks, c) /\ texts'[p] = ts
      BY <1>0, <1>3, <2>3 DEF KidsWith, TextsWith, ks, ts
    <3>2. Len(Append(ks, c)) = Len(ks) + 1
      BY <2>1
    <3>3. QED
      BY <2>1, <2>2, <3>1, <3>2
  <2>4. CASE r # Nil
    <3> DEFINE i == Position(ks, r)
    <3>1. kids'[p] = InsertAt(ks, i, c) /\ texts'[p] = MoveDown(ts, i)
      BY <1>0, <1>3, <2>4 DEF KidsWith, TextsWith, ks, ts
    <3>2. r \in ToSet(ks)
      BY <1>0, <1>2, <2>4 DEF OwnershipInv, KidsMirrorUp, ks
    <3>3. i \in 1 .. Len(ks)
      BY <2>1, <3>2, PositionInRange
    <3> HIDE DEF i
    <3>4. Len(InsertAt(ks, i, c)) = Len(ks) + 1
      BY <1>0, <2>1, <3>3, InsertAtElements
    <3>5. /\ Len(MoveDown(ts, i)) = 1
          /\ MoveDown(ts, i)[1].at \in {ts[1].at, ts[1].at + 1}
      <4>1. DOMAIN ts = 1 .. 1
        BY <2>1
      <4>2. MoveDown(ts, i)
              = [j \in 1 .. 1 |-> IF ts[j].at >= i THEN [ts[j] EXCEPT !.at = @ + 1] ELSE ts[j]]
        BY <4>1 DEF MoveDown
      <4>3. MoveDown(ts, i)[1]
              = IF ts[1].at >= i THEN [ts[1] EXCEPT !.at = @ + 1] ELSE ts[1]
        BY <4>2
      <4>4. [ts[1] EXCEPT !.at = @ + 1].at = ts[1].at + 1
        BY <2>2 DEF TextNode
      <4>5. Len(MoveDown(ts, i)) = 1
        BY <4>2
      <4>6. QED
        BY <4>3, <4>4, <4>5
    <3>6. QED
      BY <2>1, <2>2, <3>1, <3>3, <3>4, <3>5
  <2>5. QED
    BY <2>3, <2>4
<1>6. QED
  BY <1>0, <1>4, <1>5 DEF OneTextChild

(* A copy has the texts of its original, before as many children.           *)
LEMMA CopyText ==
  ASSUME OwnershipInv, OneTextChild, Running, NEW o \in held \cap Element,
         NEW f \in Injection(Subtree(kids, o), Element \ alloc), CopyXmlElement(o, f)
  PROVE  OneTextChild'
<1> DEFINE M == Subtree(kids, o)
           N == {f[m] : m \in DOMAIN f}
<1>1. f \in [M -> Element \ alloc] /\ \A m1, m2 \in M : f[m1] = f[m2] => m1 = m2
  BY DEF Injection, IsInjective
<1>2. o \in alloc
  BY DEF OwnershipInv, TypeOK, NoDanglingWrapper
<1>3. M \subseteq alloc
  BY <1>2, TreeInUse
<1>4. /\ kids \in [Element -> Seq(Element)] /\ alloc \subseteq Element
  BY DEF OwnershipInv, TypeOK
<1>5. \A m \in M : Original(f, f[m]) = m
  BY <1>1 DEF Original
<1>6. /\ alloc' = alloc \cup N
      /\ kids' = [n \in Element |->
                    IF n \notin N THEN kids[n]
                    ELSE [i \in DOMAIN kids[Original(f, n)] |-> f[kids[Original(f, n)][i]]]]
      /\ texts' = [n \in Element |-> IF n \in N THEN texts[Original(f, n)] ELSE texts[n]]
  BY DEF CopyXmlElement
<1> HIDE DEF M
<1>7. N \cap alloc = {} /\ N \subseteq Element /\ \A m \in M : f[m] \in N
  BY <1>1
<1>8. \A n \in N : \E m \in M : n = f[m]
  BY <1>1
<1> HIDE DEF N
<1>9. ASSUME NEW e \in alloc PROVE Len(texts'[e]) = 1 /\ texts'[e][1].at <= Len(kids'[e])
  BY <1>4, <1>6, <1>7 DEF OneTextChild
<1>10. ASSUME NEW e \in N PROVE Len(texts'[e]) = 1 /\ texts'[e][1].at <= Len(kids'[e])
  <2>1. PICK m \in M : e = f[m]
    BY <1>8
  <2>2. m \in alloc /\ kids[m] \in Seq(Element) /\ Original(f, e) = m
    BY <1>3, <1>4, <1>5, <2>1
  <2> DEFINE t == [i \in DOMAIN kids[m] |-> f[kids[m][i]]]
  <2>3. texts'[e] = texts[m] /\ kids'[e] = t
    BY <1>6, <1>7, <2>2
  <2>4. Len(t) = Len(kids[m])
    BY <2>2
  <2> HIDE DEF t
  <2>5. Len(texts[m]) = 1 /\ texts[m][1].at <= Len(kids[m])
    BY <2>2 DEF OneTextChild
  <2>6. QED
    BY <2>3, <2>4, <2>5
<1>11. QED
  BY <1>6, <1>9, <1>10 DEF OneTextChild

(* Every element in use has one text child, at a place its child list has.  *)
THEOREM EveryElementHasOneText == Spec => []OneTextChild
<1>1. Init => OneTextChild
  BY DEF Init, OneTextChild
<1>2. OwnershipInv /\ OneTextChild /\ [Next]_vars => OneTextChild'
  <2> SUFFICES ASSUME OwnershipInv, OneTextChild, [Next]_vars, Running'
               PROVE  OneTextChild'
    BY DEF OneTextChild
  <2>0. /\ kids \in [Element -> Seq(Element)] /\ texts \in [Element -> Seq(TextNode)]
        /\ alloc \subseteq Element /\ held \subseteq live
    BY DEF OwnershipInv, TypeOK
  <2>1. CASE UNCHANGED vars
    BY <2>1 DEF OneTextChild, Running, vars, domVars
  <2>2. CASE Next
    <3>0. Running
      BY <2>2 DEF Next, Running
    <3>1. ASSUME NEW e \in Element \ alloc, NEW tagIsValid, NEW text, NEW new,
                 CreateXmlElement(e, tagIsValid, text, new)
          PROVE  OneTextChild'
      <4>1. \A y \in alloc : texts'[y] = texts[y] /\ kids'[y] = kids[y]
        BY <2>0, <3>1 DEF CreateXmlElement
      <4>2. texts'[e] = <<[value |-> text, at |-> 0]>> /\ kids'[e] \in Seq(Element)
        BY <2>0, <3>1 DEF CreateXmlElement
      <4>3. Len(texts'[e]) = 1 /\ texts'[e][1].at = 0
        BY <4>2
      <4>4. Len(kids'[e]) \in Nat
        BY <4>2
      <4>5. texts'[e][1].at <= Len(kids'[e])
        BY <4>3, <4>4
      <4>6. QED
        BY <3>0, <3>1, <4>1, <4>3, <4>5 DEF CreateXmlElement, OneTextChild
    <3>2. ASSUME NEW o \in Elements, NEW f \in Injection(Subtree(kids, o), Element \ alloc),
                 CopyXmlElement(o, f)
          PROVE  OneTextChild'
      BY <3>0, <3>2, CopyText DEF Elements
    <3>3. ASSUME NEW p \in Elements, NEW c \in Elements, NEW r \in Elements \cup {Nil},
                 AddXmlChildElement(p, c, r)
          PROVE  OneTextChild'
      BY <3>0, <3>3, AddChildText DEF Elements
    <3>4. ASSUME NEW e \in Elements, NEW text, SetXmlElementText(e, text)
          PROVE  OneTextChild'
      <4>1. texts'[e] = <<[value |-> text, at |-> Len(kids[e])]>> /\ kids' = kids
        BY <2>0, <3>4 DEF SetXmlElementText, ClearTextAndCData, Elements
      <4>2. Len(texts'[e]) = 1 /\ texts'[e][1].at = Len(kids'[e])
        BY <4>1
      <4>3. Len(kids'[e]) \in Nat
        BY <2>0, <4>1 DEF Elements
      <4>4. \A y \in alloc \ {e} : texts'[y] = texts[y]
        BY <2>0, <3>4 DEF SetXmlElementText
      <4>5. QED
        BY <3>0, <3>4, <4>1, <4>2, <4>3, <4>4 DEF SetXmlElementText, OneTextChild
    <3>5. ASSUME NEW n \in held, Drop(n) PROVE OneTextChild'
      <4> DEFINE F == UNION {ReleasedBy(x) : x \in Destroyed(n) \cap Element}
      <4>1. \A y \in alloc \ F : texts'[y] = texts[y] /\ kids'[y] = kids[y]
        BY <2>0, <3>5 DEF Drop
      <4>2. alloc' = alloc \ F
        BY <3>5 DEF Drop
      <4> HIDE DEF F
      <4>3. QED
        BY <3>0, <4>1, <4>2 DEF OneTextChild
    <3>6. CASE UNCHANGED <<alloc, kids, texts>>
      BY <3>0, <3>6 DEF OneTextChild
    <3>7. CASE Exit
      BY <3>7 DEF Exit, Running
    <3>8. ASSUME NEW e \in Element \ alloc, NEW tagIsValid, NEW new,
                 CreateXmlElementThrows(e, tagIsValid, new)
          PROVE  OneTextChild'
      <4>1. alloc' = alloc
        BY <3>0, <3>8, FreeCellIsAlone DEF CreateXmlElementThrows, Unwound
      <4>2. QED
        BY <3>6, <3>8, <4>1 DEF CreateXmlElementThrows
    <3>9. QED
      BY <2>2, <3>1, <3>2, <3>3, <3>4, <3>5, <3>6, <3>7, <3>8
      DEF Next, AddXmlChildElementRefused, SetXmlElementAttributes,
          SetXmlElementAttributesSwallows, SetXmlElementAttribute,
          SetXmlElementAttributeThrows, CreateXmlDocument, CreateXmlDocumentThrows,
          CreateXmlDocumentRejects, GetXmlRootElement, GetParent, domVars
  <2>3. QED
    BY <2>1, <2>2
<1>3. QED
  BY <1>1, <1>2, OwnershipStructure, PTL DEF Spec

-----------------------------------------------------------------------------
(***************************************************************************)
(* What stays alive without handles                                         *)
(***************************************************************************)

(* Each wrapper alive has a shared_ptr to it.                               *)
Counted == \A z \in live : z \in held \/ Owners(z) # {}

(* No chain of element wrappers owns itself: among any of them is one that  *)
(* none of the others points to.                                            *)
NoLoopOfOwners ==
  Running =>
    \A S \in SUBSET (live \cap Element) :
       S # {} => \E y \in S : \A x \in S : parent[x] # y

(* A new wrapper that nobody points to, held by the caller.                 *)
LEMMA NewWrapperCounted ==
  ASSUME OwnershipInv, Running, Counted, NoLoopOfOwners, NEW e \in Element \ live,
         live' = live \cup {e}, held' = held \cup {e}, UNCHANGED <<parent, root, status>>
  PROVE  Counted' /\ NoLoopOfOwners'
<1>0. parent[e] = Nil /\ Nil \notin Element
  BY DomAssumption DEF OwnershipInv, DeadWrappersOwnNothing
<1>1. Counted'
  BY DEF Counted, Owners, Owns
<1>2. NoLoopOfOwners'
  <2> SUFFICES ASSUME NEW S \in SUBSET (live' \cap Element), S # {}
               PROVE  \E y \in S : \A x \in S : parent[x] # y
    BY DEF NoLoopOfOwners
  <2>1. CASE S = {e}
    BY <1>0, <2>1
  <2>2. CASE S # {e}
    <3> DEFINE U == S \ {e}
    <3>1. U \in SUBSET (live \cap Element) /\ U # {}
      BY <2>2
    <3>2. PICK y \in U : \A x \in U : parent[x] # y
      BY <3>1 DEF NoLoopOfOwners
    <3>3. \A x \in S : parent[x] # y
      BY <1>0, <3>2
    <3>4. QED
      BY <3>2, <3>3
  <2>3. QED
    BY <2>1, <2>2
<1>3. QED
  BY <1>1, <1>2

(* AddXmlChildElement: c owns p from now on. A loop would go through c, and  *)
(* the wrappers of it whose chain of _parent comes to c were a loop before.  *)
LEMMA AddChildCounted ==
  ASSUME OwnershipInv, Running, Counted, NoLoopOfOwners,
         NEW p \in held \cap Element, NEW c \in held \cap Element, NEW r,
         AddXmlChildElement(p, c, r)
  PROVE  Counted' /\ NoLoopOfOwners'
<1>0. /\ parent \in [Element -> Node \cup {Nil}] /\ parent[c] = Nil
      /\ live \subseteq Node /\ c \in live /\ p \in live
      /\ Nil \notin Element /\ Nil \notin Document /\ Nil \notin Node
  BY DomAssumption, DocumentAssumption
  DEF AddXmlChildElement, CanInsert, HasParent, OwnershipInv, TypeOK, Node
<1>1. /\ live' = live /\ held' = held /\ root' = root
      /\ parent' = [parent EXCEPT ![c] = p]
  BY DEF AddXmlChildElement
<1>2. Counted'
  <2> SUFFICES ASSUME NEW z \in live, z \notin held PROVE Owners(z)' # {}
    BY <1>1 DEF Counted
  <2>1. PICK x \in live : Owns(x, z)
    BY DEF Counted, Owners
  <2>2. x # c
    BY <1>0, <2>1 DEF Owns
  <2>3. Owns(x, z)'
    BY <1>0, <1>1, <2>1, <2>2 DEF Owns
  <2>4. QED
    BY <1>1, <2>3 DEF Owners
<1>3. NoLoopOfOwners'
  <2> SUFFICES ASSUME Running', NEW S \in SUBSET (live \cap Element), S # {},
                      \A y \in S : \E x \in S : parent'[x] = y
               PROVE  FALSE
    BY <1>1 DEF NoLoopOfOwners
  <2>1. c \notin ParentChain(parent, p)
    BY DEF AddXmlChildElement, Running
  <2> DEFINE U == {y \in S : c \in ParentChain(parent, y)}
  <2>2. ASSUME NEW y \in U PROVE \E x \in U : parent[x] = y
    <3>1. y # p /\ y \in S /\ c \in ParentChain(parent, y)
      BY <2>1
    <3>2. PICK x \in S : parent'[x] = y
      BY <3>1
    <3>3. x # c /\ parent[x] = y
      BY <1>0, <1>1, <3>1, <3>2
    <3>4. c \in ParentChain(parent, x)
      BY <1>0, <3>1, <3>3 DEF ParentChain
    <3>5. QED
      BY <3>3, <3>4
  <2>3. U = {}
    <3>1. U \in SUBSET (live \cap Element)
      OBVIOUS
    <3> HIDE DEF U
    <3>2. QED
      BY <2>2, <3>1 DEF NoLoopOfOwners
  <2>4. c \notin S
    <3>1. c \in ParentChain(parent, c)
      BY <1>0 DEF ParentChain
    <3>2. QED
      BY <2>3, <3>1
  <2>5. \A y \in S : \E x \in S : parent[x] = y
    BY <1>0, <1>1, <2>4
  <2>6. QED
    BY <2>5 DEF NoLoopOfOwners
<1>4. QED
  BY <1>2, <1>3

(* CreateXmlDocument: the document and its root own each other.             *)
LEMMA CreateDocumentCounted ==
  ASSUME OwnershipInv, Running, Counted, NoLoopOfOwners,
         NEW d \in Document \ domDocs, NEW r \in held \cap Element, NEW version,
         CreateXmlDocument(d, r, version)
  PROVE  Counted' /\ NoLoopOfOwners'
<1>0. /\ parent \in [Element -> Node \cup {Nil}] /\ parent[r] = Nil
      /\ root \in [Document -> Element \cup {Nil}]
      /\ live \subseteq Node /\ d \notin live /\ d \notin Element
      /\ Nil \notin Node /\ Nil \notin Element
  BY DomAssumption, DocumentAssumption
  DEF CreateXmlDocument, HasParent, OwnershipInv, TypeOK, Node, LiveDocumentsInUse
<1>1. /\ live' = live \cup {d} /\ held' = held \cup {d} /\ status' = status
      /\ parent' = [parent EXCEPT ![r] = d] /\ root' = [root EXCEPT ![d] = r]
  BY DEF CreateXmlDocument, Returns
<1>2. Counted'
  <2> SUFFICES ASSUME NEW z \in live, z \notin held PROVE Owners(z)' # {}
    BY <1>1 DEF Counted
  <2>1. PICK x \in live : Owns(x, z)
    BY DEF Counted, Owners
  <2>2. x # r /\ x # d
    BY <1>0, <2>1 DEF Owns
  <2>3. x \in Node
    BY <1>0
  <2>4. Owns(x, z)'
    BY <1>0, <1>1, <2>1, <2>2, <2>3 DEF Owns, Node
  <2>5. QED
    BY <1>1, <2>4 DEF Owners
<1>3. NoLoopOfOwners'
  <2> SUFFICES ASSUME NEW S \in SUBSET (live' \cap Element), S # {}
               PROVE  \E y \in S : \A x \in S : parent'[x] # y
    BY DEF NoLoopOfOwners
  <2>1. S \in SUBSET (live \cap Element)
    BY <1>0, <1>1
  <2>2. PICK y \in S : \A x \in S : parent[x] # y
    BY <2>1 DEF NoLoopOfOwners
  <2>3. \A x \in S : parent'[x] # y
    BY <1>0, <1>1, <2>1, <2>2
  <2>4. QED
    BY <2>3
<1>4. QED
  BY <1>2, <1>3

(* What is left without a shared_ptr is destroyed.                          *)
LEMMA DestroyedIsClosed ==
  ASSUME NEW n, NEW z \in live, z \notin held \ {n}, Owners(z) \subseteq Destroyed(n)
  PROVE  z \in Destroyed(n)
BY DEF Destroyed

(* Drop: a wrapper that stays is held, or one that owns it stays.           *)
LEMMA DropCounted ==
  ASSUME OwnershipInv, Running, Counted, NoLoopOfOwners, NEW n \in held, Drop(n)
  PROVE  Counted' /\ NoLoopOfOwners'
<1> DEFINE D == Destroyed(n)
<1>0. /\ parent \in [Element -> Node \cup {Nil}]
      /\ root \in [Document -> Element \cup {Nil}] /\ live \subseteq Node
  BY DEF OwnershipInv, TypeOK
<1>1. /\ live' = live \ D /\ held' = held \ {n}
      /\ parent' = [e \in Element |-> IF e \in D THEN Nil ELSE parent[e]]
      /\ root' = [d \in Document |-> IF d \in D THEN Nil ELSE root[d]]
  BY DEF Drop
<1>2. \A z \in live : z \notin held \ {n} /\ Owners(z) \subseteq D => z \in D
  BY DestroyedIsClosed
<1> HIDE DEF D
<1>3. Counted'
  <2> SUFFICES ASSUME NEW z \in live \ D, z \notin held \ {n} PROVE Owners(z)' # {}
    BY <1>1 DEF Counted
  <2>1. PICK x \in Owners(z) : x \notin D
    BY <1>2
  <2>2. x \in live /\ x \in Node /\ Owns(x, z)
    BY <1>0 DEF Owners
  <2>3. Owns(x, z)'
    BY <1>0, <1>1, <2>1, <2>2 DEF Owns, Node
  <2>4. QED
    BY <1>1, <2>1, <2>2, <2>3 DEF Owners
<1>4. NoLoopOfOwners'
  <2> SUFFICES ASSUME NEW S \in SUBSET (live' \cap Element), S # {}
               PROVE  \E y \in S : \A x \in S : parent'[x] # y
    BY DEF NoLoopOfOwners
  <2>1. S \in SUBSET (live \cap Element) /\ S \cap D = {}
    BY <1>1
  <2>2. PICK y \in S : \A x \in S : parent[x] # y
    BY <2>1 DEF NoLoopOfOwners
  <2>3. \A x \in S : parent'[x] # y
    BY <1>1, <2>1, <2>2
  <2>4. QED
    BY <2>3
<1>5. QED
  BY <1>3, <1>4

(* Calls that leave the wrappers alone and take no handle away.             *)
LEMMA SameCounted ==
  ASSUME Counted, NoLoopOfOwners, held \subseteq held', UNCHANGED <<live, parent, root>>,
         Running' => Running
  PROVE  Counted' /\ NoLoopOfOwners'
<1>1. Counted'
  BY DEF Counted, Owners, Owns
<1>2. NoLoopOfOwners'
  BY DEF NoLoopOfOwners
<1>3. QED
  BY <1>1, <1>2

(* Every step of the adapter.                                               *)
LEMMA NextCounted ==
  ASSUME OwnershipInv, Counted, NoLoopOfOwners, Next
  PROVE  Counted' /\ NoLoopOfOwners'
<1>0. Running /\ live \cap Element \subseteq alloc
  BY DEF Next, Running, OwnershipInv, NoDanglingWrapper
<1>1. ASSUME NEW e \in Element \ alloc, NEW tagIsValid, NEW text, NEW new,
             CreateXmlElement(e, tagIsValid, text, new)
      PROVE  Counted' /\ NoLoopOfOwners'
  BY <1>0, <1>1, NewWrapperCounted DEF CreateXmlElement, Returns
<1>2. ASSUME NEW o \in Elements, NEW f \in Injection(Subtree(kids, o), Element \ alloc),
             CopyXmlElement(o, f)
      PROVE  Counted' /\ NoLoopOfOwners'
  <2>1. o \in Subtree(kids, o)
    BY SubtreeClosed DEF OwnershipInv, TypeOK, Elements
  <2>2. f[o] \in Element \ live
    BY <1>0, <2>1 DEF Injection
  <2>3. QED
    BY <1>0, <1>2, <2>2, NewWrapperCounted DEF CopyXmlElement, Returns
<1>3. ASSUME NEW p \in Elements, NEW c \in Elements, NEW r,
             AddXmlChildElement(p, c, r)
      PROVE  Counted' /\ NoLoopOfOwners'
  BY <1>0, <1>3, AddChildCounted DEF Elements
<1>4. ASSUME NEW r \in Elements, NEW version, NEW d \in Document \ domDocs,
             CreateXmlDocument(d, r, version)
      PROVE  Counted' /\ NoLoopOfOwners'
  BY <1>0, <1>4, CreateDocumentCounted DEF Elements
<1>5. ASSUME NEW n \in held, Drop(n) PROVE Counted' /\ NoLoopOfOwners'
  BY <1>0, <1>5, DropCounted
<1>6. CASE held \subseteq held' /\ UNCHANGED <<live, parent, root>>
  BY <1>0, <1>6, SameCounted
<1>7. QED
  BY <1>1, <1>2, <1>3, <1>4, <1>5, <1>6
  DEF Next, CreateXmlElementThrows, AddXmlChildElementRefused, SetXmlElementText,
      SetXmlElementAttributes, SetXmlElementAttributesSwallows, SetXmlElementAttribute,
      SetXmlElementAttributeThrows, CreateXmlDocumentThrows, CreateXmlDocumentRejects,
      GetXmlRootElement, GetParent, Exit, wrapVars

(* When the caller holds nothing, the element wrappers that stay are the    *)
(* documents' roots.                                                        *)
LEMMA OnlyRootsAreKept ==
  ASSUME OwnershipInv, Counted, NoLoopOfOwners, Running, held = {}
  PROVE  live \cap Element = {root[d] : d \in live \cap Document}
<1> DEFINE S == {e \in live \cap Element : parent[e] \notin Document}
<1>0. live \subseteq Node
  BY DEF OwnershipInv, TypeOK
<1>1. ASSUME NEW y \in S PROVE \E x \in S : parent[x] = y
  <2>1. PICK x \in live : Owns(x, y)
    BY DEF Counted, Owners
  <2>2. x \notin Document
    BY <2>1, DocumentAssumption DEF Owns, OwnershipInv, DocumentOwnsRoot
  <2>3. x \in Element /\ parent[x] = y
    BY <1>0, <2>1, <2>2 DEF Owns, Node
  <2>4. QED
    BY <2>3, DocumentAssumption
<1>2. S = {}
  <2>1. S \in SUBSET (live \cap Element)
    OBVIOUS
  <2> HIDE DEF S
  <2>2. QED
    BY <1>1, <2>1 DEF NoLoopOfOwners
<1>3. ASSUME NEW e \in live \cap Element PROVE \E d \in live \cap Document : e = root[d]
  <2>1. parent[e] \in Document
    BY <1>2
  <2>2. QED
    BY <2>1, DocumentAssumption DEF OwnershipInv, OwnersAreLive
<1>4. \A d \in live \cap Document : root[d] \in live \cap Element
  BY DEF OwnershipInv, DocumentOwnsRoot
<1>5. QED
  BY <1>3, <1>4

(* Handles given up, only documents and their roots are kept alive: by each *)
(* other, and nothing else is in a cycle of shared_ptr.                     *)
THEOREM DocumentsAreTheOnlyLeak == Spec => []OnlyDocumentsLeak
<1>1. Init => Counted /\ NoLoopOfOwners
  BY DEF Init, Counted, NoLoopOfOwners
<1>2. OwnershipInv /\ Counted /\ NoLoopOfOwners /\ [Next]_vars
        => Counted' /\ NoLoopOfOwners'
  <2> SUFFICES ASSUME OwnershipInv, Counted, NoLoopOfOwners, [Next]_vars
               PROVE  Counted' /\ NoLoopOfOwners'
    OBVIOUS
  <2>1. CASE Next
    BY <2>1, NextCounted
  <2>2. CASE UNCHANGED vars
    BY <2>2, SameCounted DEF vars, wrapVars, Running
  <2>3. QED
    BY <2>1, <2>2
<1>3. OwnershipInv /\ Counted /\ NoLoopOfOwners => OnlyDocumentsLeak
  BY OnlyRootsAreKept DEF OnlyDocumentsLeak
<1>4. QED
  BY <1>1, <1>2, <1>3, OwnershipStructure, PTL DEF Spec

-----------------------------------------------------------------------------
(***************************************************************************)
(* The top of a tree                                                        *)
(***************************************************************************)

(* Going up ends: every set of elements has one whose parent is outside.    *)
UpEnds ==
  Running => \A S \in SUBSET Element : S # {} => \E y \in S : up[y] \notin S

(* A copied set without a way out would be the image of one.                *)
LEMMA CopyUpEnds ==
  ASSUME OwnershipInv, Running, UpEnds, NEW o \in held \cap Element,
         NEW f \in Injection(Subtree(kids, o), Element \ alloc), CopyXmlElement(o, f)
  PROVE  UpEnds'
<1> DEFINE M == Subtree(kids, o)
           N == {f[m] : m \in M}
<1>0. /\ TypeOK /\ KidsMirrorUp /\ Nil \notin Element /\ o \in Element
      /\ up \in [Element -> Element \cup {Nil}] /\ kids \in [Element -> Seq(Element)]
  BY DomAssumption DEF OwnershipInv, TypeOK
<1>1. /\ f \in [M -> Element \ alloc]
      /\ \A m1, m2 \in M : f[m1] = f[m2] => m1 = m2
  BY DEF Injection, IsInjective
<1>2. o \in M /\ M \subseteq Element /\ \A m \in M : m # o => up[m] \in M
  BY <1>0, SubtreeClosed, SubtreeParents
<1> HIDE DEF M
<1>3. \A m \in M : Original(f, f[m]) = m
  BY <1>1 DEF Original
<1>4. /\ \A n \in Element \ N : up'[n] = up[n]
      /\ \A m \in M : up'[f[m]] = IF m = o THEN Nil ELSE f[up[m]]
  <2>1. up' = [n \in Element |->
                 IF n \notin N THEN up[n]
                 ELSE IF n = f[o] THEN Nil ELSE f[up[Original(f, n)]]]
    <3>1. N = {f[m] : m \in DOMAIN f}
      BY <1>1
    <3>2. QED
      BY <3>1 DEF CopyXmlElement
  <2>2. \A m \in M : f[m] \in N /\ f[m] \in Element
    BY <1>1
  <2>3. QED
    BY <1>1, <1>2, <1>3, <2>1, <2>2
<1>5. N \subseteq Element \ alloc
  BY <1>1
<1>6. \A n \in N : \A y \in Element : up[y] # n
  BY <1>5, FreeCellIsAlone
<1>7. \A n \in N : \E m \in M : n = f[m]
  OBVIOUS
<1> HIDE DEF N
<1> SUFFICES ASSUME NEW S \in SUBSET Element, S # {}, \A y \in S : up'[y] \in S
             PROVE  FALSE
  BY DEF UpEnds
<1>8. S \ N = {}
  <2> DEFINE U == S \ N
  <2>1. \A y \in U : up[y] \in U
    BY <1>4, <1>6
  <2>2. U \in SUBSET Element
    OBVIOUS
  <2> HIDE DEF U
  <2>3. U = {}
    BY <2>1, <2>2 DEF UpEnds
  <2>4. QED
    BY <2>3 DEF U
<1> DEFINE W == {m \in M : f[m] \in S}
<1>9. ASSUME NEW m \in W PROVE up[m] \in W
  <2>1. up'[f[m]] \in S /\ up'[f[m]] # Nil
    BY <1>0
  <2>2. m # o /\ up'[f[m]] = f[up[m]]
    BY <1>4, <2>1
  <2>3. QED
    BY <1>2, <2>1, <2>2
<1>10. W # {}
  BY <1>7, <1>8
<1>11. W \in SUBSET Element
  BY <1>2
<1> HIDE DEF W
<1>12. QED
  BY <1>9, <1>10, <1>11 DEF UpEnds

(* A set without a way out that has the new child has its parent too, and   *)
(* with it the chain above the parent, where the child is not.              *)
LEMMA AddChildUpEnds ==
  ASSUME OwnershipInv, Running, UpEnds,
         NEW p \in held \cap Element, NEW c \in held \cap Element, NEW r,
         AddXmlChildElement(p, c, r)
  PROVE  UpEnds'
<1>0. /\ TypeOK /\ KidsMirrorUp /\ Nil \notin Element
      /\ up \in [Element -> Element \cup {Nil}] /\ kids \in [Element -> Seq(Element)]
      /\ parent \in [Element -> Node \cup {Nil}] /\ p \in Node
  BY DomAssumption DEF OwnershipInv, TypeOK, Node
<1>1. up' = [up EXCEPT ![c] = p]
  BY DEF AddXmlChildElement, UpAfterInsert
<1> SUFFICES ASSUME Running', NEW S \in SUBSET Element, S # {}, \A y \in S : up'[y] \in S
             PROVE  FALSE
  BY DEF UpEnds
<1>2. p # c
  <2>1. c \notin ParentChain(parent, p)
    BY DEF AddXmlChildElement, Running
  <2>2. QED
    BY <1>0, <2>1 DEF ParentChain
<1>3. c \notin UpChain(up, p)
  <2>1. p \notin Subtree(kids, c)
    BY <1>0, <1>2, InsertedFromOutside DEF AddXmlChildElement
  <2>2. QED
    BY <1>0, <2>1, UpChainSubtree
<1> DEFINE A == UpChain(up, p)
           U == S \cap A
<1>4. /\ p \in A /\ A \subseteq Element
      /\ \A y \in A : up[y] # Nil => up[y] \in A
  BY <1>0, UpChainClosed
<1> HIDE DEF A
<1>5. CASE c \notin S
  <2>1. \A y \in S : up[y] \in S
    BY <1>0, <1>1, <1>5
  <2>2. QED
    BY <2>1 DEF UpEnds
<1>6. CASE c \in S
  <2>1. p \in U
    BY <1>0, <1>1, <1>4, <1>6
  <2>2. \A y \in U : up[y] \in U
    BY <1>0, <1>1, <1>3, <1>4 DEF A
  <2>3. U \in SUBSET Element
    OBVIOUS
  <2> HIDE DEF U
  <2>4. QED
    BY <2>1, <2>2, <2>3 DEF UpEnds
<1>7. QED
  BY <1>5, <1>6

(* Every step.                                                              *)
LEMMA NextUpEnds ==
  ASSUME OwnershipInv, UpEnds, Next
  PROVE  UpEnds'
<1>0. Running /\ up \in [Element -> Element \cup {Nil}] /\ Nil \notin Element
  BY DomAssumption DEF Next, Running, OwnershipInv, TypeOK
<1>1. ASSUME NEW o \in Elements, NEW f \in Injection(Subtree(kids, o), Element \ alloc),
             CopyXmlElement(o, f)
      PROVE  UpEnds'
  BY <1>0, <1>1, CopyUpEnds DEF Elements
<1>2. ASSUME NEW p \in Elements, NEW c \in Elements, NEW r,
             AddXmlChildElement(p, c, r)
      PROVE  UpEnds'
  BY <1>0, <1>2, AddChildUpEnds DEF Elements
<1>3. ASSUME NEW n \in held, Drop(n) PROVE UpEnds'
  <2>1. \A e \in Element : up'[e] \in {Nil, up[e]}
    BY <1>0, <1>3 DEF Drop
  <2>2. QED
    BY <1>0, <2>1 DEF UpEnds
<1>4. CASE up' = up
  BY <1>0, <1>4 DEF UpEnds
<1>5. QED
  BY <1>1, <1>2, <1>3, <1>4
  DEF Next, CreateXmlElement, CreateXmlElementThrows, AddXmlChildElementRefused,
      SetXmlElementText, SetXmlElementAttributes, SetXmlElementAttributesSwallows,
      SetXmlElementAttribute, SetXmlElementAttributeThrows, CreateXmlDocument,
      CreateXmlDocumentThrows, CreateXmlDocumentRejects, GetXmlRootElement, GetParent,
      Exit, domVars

(* Above a live element is a live one without a parent, whose subtree it is *)
(* in.                                                                      *)
LEMMA TopOfTree ==
  ASSUME OwnershipInv, Running, UpEnds, NEW e \in live \cap Element
  PROVE  \E t \in live \cap Element : up[t] = Nil /\ e \in Subtree(kids, t)
<1> DEFINE A == UpChain(up, e)
           L == live \cap Element
<1>0. TypeOK /\ KidsMirrorUp /\ up \in [Element -> Element \cup {Nil}]
  BY DEF OwnershipInv, TypeOK
<1>1. /\ e \in A /\ A \subseteq Element
      /\ \A y \in A : up[y] # Nil => up[y] \in A
  BY <1>0, UpChainClosed
<1>2. A \subseteq L
  <2>1. \A y \in L : up[y] # Nil => up[y] \in L
    BY DEF OwnershipInv, WrapperMirrorsDom, OwnersAreLive
  <2>2. L \in SUBSET Element /\ e \in L
    OBVIOUS
  <2> HIDE DEF L
  <2>3. QED
    BY <2>1, <2>2, UpChainLeast
<1>3. \A t \in A : e \in Subtree(kids, t)
  BY <1>0, UpChainSubtree
<1> HIDE DEF A
<1>4. PICK t \in A : up[t] \notin A
  BY <1>1 DEF UpEnds
<1>5. QED
  BY <1>1, <1>2, <1>3, <1>4

-----------------------------------------------------------------------------
(***************************************************************************)
(* The abstract view                                                        *)
(***************************************************************************)

(* The parent links XmlOwnership sees.                                      *)
SeenUp == [e \in Element |-> IF up[e] = e THEN Nil ELSE up[e]]

(* The roots of documents.                                                  *)
Roots == {root[d] : d \in live \cap Document}

(* While the program runs, it sees them all.                                *)
LEMMA AllLinksSeen ==
  ASSUME OwnershipInv, Running
  PROVE  SeenUp = up
BY NoSelfAncestor DEF SeenUp, OwnershipInv, TypeOK

(* The abstract tree of an element is what is below the top of its tree.    *)
LEMMA TreeOfTop ==
  ASSUME OwnershipInv, Running, NEW t \in Element, up[t] = Nil,
         NEW e \in Subtree(kids, t)
  PROVE  Ownership!Tree(e) = Subtree(kids, t)
<1> DEFINE T == Subtree(kids, t)
           Both(S) == \A y \in Element : up[y] # Nil => (y \in S <=> up[y] \in S)
<1>0. /\ TypeOK /\ KidsMirrorUp /\ Nil \notin Element
      /\ up \in [Element -> Element \cup {Nil}] /\ kids \in [Element -> Seq(Element)]
  BY DomAssumption DEF OwnershipInv, TypeOK
<1>1. /\ t \in T /\ T \subseteq Element
      /\ \A y \in T : ToSet(kids[y]) \subseteq T
  BY <1>0, SubtreeClosed
<1>2. \A y \in T : y # t => up[y] \in T
  BY <1>0, SubtreeParents
<1>3. t \in UpChain(up, e)
  BY <1>0, SubtreeUpChain
<1>4. Ownership!Tree(e) = {n \in Element : \A S \in SUBSET Element : e \in S /\ Both(S) => n \in S}
  BY AllLinksSeen DEF Ownership!Tree, SeenUp
<1>5. Ownership!Tree(e) \subseteq T
  <2> HIDE DEF T
  <2>1. Both(T)
    BY <1>0, <1>1, <1>2 DEF KidsMirrorUp
  <2>2. e \in T
    BY DEF T
  <2> HIDE DEF Both
  <2>3. QED
    BY <1>1, <1>4, <2>1, <2>2
<1>6. ASSUME NEW S \in SUBSET Element, e \in S, Both(S) PROVE T \subseteq S
  <2>1. \A y \in S : up[y] # Nil => up[y] \in S
    BY <1>6
  <2>2. t \in S
    <3>1. UpChain(up, e) \subseteq S
      BY <1>6, <2>1, UpChainLeast
    <3>2. QED
      BY <1>3, <3>1
  <2>3. ASSUME NEW y \in S, NEW z \in ToSet(kids[y]) PROVE z \in S
    <3>1. z \in Element /\ y \in Element
      BY <1>0 DEF ToSet
    <3>2. up[z] = y
      BY <1>0, <3>1 DEF KidsMirrorUp
    <3>3. QED
      BY <1>0, <1>6, <3>1, <3>2
  <2>4. \A y \in S : ToSet(kids[y]) \subseteq S
    BY <2>3
  <2>5. QED
    BY <2>2, <2>4, SubtreeLeast
<1> HIDE DEF T, Both
<1>7. T \subseteq Ownership!Tree(e)
  BY <1>1, <1>4, <1>6
<1>8. QED
  BY <1>5, <1>7 DEF T

(* What is below an element in the abstract is its subtree.                 *)
LEMMA BelowIsSubtree ==
  ASSUME OwnershipInv, Running, NEW o \in Element
  PROVE  Ownership!Below(o) = Subtree(kids, o)
<1> DEFINE T == Subtree(kids, o)
           Down(S) == \A y \in Element : up[y] \in S => y \in S
<1>0. KidsMirrorUp /\ kids \in [Element -> Seq(Element)]
  BY DEF OwnershipInv, TypeOK
<1>1. /\ o \in T /\ T \subseteq Element
      /\ \A y \in T : ToSet(kids[y]) \subseteq T
  BY <1>0, SubtreeClosed
<1>2. Ownership!Below(o) = {n \in Element : \A S \in SUBSET Element : o \in S /\ Down(S) => n \in S}
  BY AllLinksSeen DEF Ownership!Below, SeenUp
<1> HIDE DEF T
<1>3. Down(T)
  BY <1>0, <1>1 DEF KidsMirrorUp
<1>4. ASSUME NEW S \in SUBSET Element, o \in S, Down(S) PROVE T \subseteq S
  <2>1. ASSUME NEW y \in S, NEW z \in ToSet(kids[y]) PROVE z \in S
    <3>1. z \in Element /\ y \in Element
      BY <1>0 DEF ToSet
    <3>2. up[z] = y
      BY <1>0, <3>1 DEF KidsMirrorUp
    <3>3. QED
      BY <1>4, <3>1, <3>2
  <2>2. \A y \in S : ToSet(kids[y]) \subseteq S
    BY <2>1
  <2>3. QED
    BY <1>4, <2>2, SubtreeLeast DEF T
<1> HIDE DEF Down
<1>5. QED
  BY <1>1, <1>2, <1>3, <1>4 DEF T

(* A tree without a document and with no handle but one is destroyed whole  *)
(* with that handle.                                                        *)
LEMMA UnheldTreeDies ==
  ASSUME OwnershipInv, Running, NoLoopOfOwners, NEW n \in held,
         NEW t \in live \cap Element, up[t] = Nil,
         Subtree(kids, t) \cap ((held \ {n}) \cup Roots) = {}
  PROVE  t \in Destroyed(n) /\ parent[t] = Nil
<1> DEFINE T == Subtree(kids, t)
           U == (live \cap T) \ Destroyed(n)
<1>0. /\ TypeOK /\ KidsMirrorUp /\ live \subseteq Node /\ Document \cap Element = {}
      /\ kids \in [Element -> Seq(Element)] /\ parent \in [Element -> Node \cup {Nil}]
  BY DocumentAssumption DEF OwnershipInv, TypeOK
<1>1. /\ t \in T /\ T \subseteq Element
      /\ \A y \in T : ToSet(kids[y]) \subseteq T
  BY <1>0, SubtreeClosed
<1>2. T \cap ((held \ {n}) \cup Roots) = {}
  OBVIOUS
<1> HIDE DEF T
<1>3. ASSUME NEW y \in U PROVE \E x \in U : parent[x] = y
  <2>1. y \in live /\ y \in T /\ y \notin held \ {n} /\ y \notin Roots /\ y \in Element
    BY <1>1, <1>2
  <2>2. PICK x \in Owners(y) : x \notin Destroyed(n)
    BY <2>1, DestroyedIsClosed
  <2>3. x \in live /\ Owns(x, y)
    BY <2>2 DEF Owners
  <2>4. x \notin Document
    BY <1>0, <2>1, <2>3 DEF Owns, Roots
  <2>5. x \in Element /\ parent[x] = y
    BY <1>0, <2>3, <2>4 DEF Owns, Node
  <2>6. up[x] = y
    BY <2>1, <2>3, <2>5 DEF OwnershipInv, WrapperMirrorsDom
  <2>7. x \in T
    BY <1>0, <1>1, <2>1, <2>5, <2>6 DEF KidsMirrorUp
  <2>8. QED
    BY <2>2, <2>3, <2>5, <2>7
<1>4. U = {}
  <2>1. U \in SUBSET (live \cap Element)
    BY <1>1
  <2> HIDE DEF U
  <2>2. QED
    BY <1>3, <2>1 DEF NoLoopOfOwners
<1>5. t \in Destroyed(n)
  BY <1>1, <1>4
<1>6. parent[t] = Nil
  <2>1. parent[t] \notin Element
    BY DomAssumption DEF OwnershipInv, WrapperMirrorsDom
  <2>2. parent[t] \notin Document
    BY <1>0, <1>1, <1>2, DocumentAssumption DEF Roots, OwnershipInv, OwnersAreLive
  <2>3. QED
    BY <1>0, <2>1, <2>2 DEF Node
<1>7. QED
  BY <1>5, <1>6

(* What is destroyed with a handle to e is in the tree of e.                *)
LEMMA DeathStaysInTree ==
  ASSUME OwnershipInv, Running, Counted, NEW e \in held \cap Element,
         NEW t \in Element, up[t] = Nil, e \in Subtree(kids, t)
  PROVE  Destroyed(e) \subseteq Subtree(kids, t)
<1> DEFINE T == Subtree(kids, t)
           S == (live \cap T) \ Roots
<1>0. /\ TypeOK /\ KidsMirrorUp /\ live \subseteq Node /\ Document \cap Element = {}
      /\ kids \in [Element -> Seq(Element)] /\ Nil \notin Element
  BY DocumentAssumption, DomAssumption DEF OwnershipInv, TypeOK
<1>1. T \subseteq Element /\ \A y \in T : y # t => up[y] \in T
  BY <1>0, SubtreeClosed, SubtreeParents
<1>2. e \in T
  OBVIOUS
<1> HIDE DEF T
<1>3. ASSUME NEW z \in live, z \notin held \ {e}, Owners(z) \subseteq S PROVE z \in S
  <2>1. z \notin Roots
    <3> SUFFICES ASSUME NEW d \in live \cap Document, z = root[d] PROVE FALSE
      BY DEF Roots
    <3>1. d \in Owners(z)
      BY <1>0 DEF Owners, Owns
    <3>2. QED
      BY <1>0, <1>1, <1>3, <3>1
  <2>2. CASE z \in held
    BY <1>2, <1>3, <2>1, <2>2
  <2>3. CASE z \notin held
    <3>1. PICK x \in Owners(z) : x \in S
      BY <1>3, <2>3 DEF Counted
    <3>2. x \in live \cap Element /\ x \in T /\ parent[x] = z /\ x \notin Roots
      BY <1>0, <1>1, <3>1 DEF Owners, Owns
    <3>3. z \in Element
      BY <1>0, <3>2 DEF OwnershipInv, OwnersAreLive, Roots, Node
    <3>4. up[x] = z
      BY <3>2, <3>3 DEF OwnershipInv, WrapperMirrorsDom
    <3>5. z \in T
      BY <1>0, <1>1, <3>2, <3>3, <3>4
    <3>6. QED
      BY <2>1, <3>5
  <2>4. QED
    BY <2>2, <2>3
<1>4. S \in SUBSET live
  OBVIOUS
<1>5. Destroyed(e) \subseteq S
  <2> HIDE DEF S
  <2>1. QED
    BY <1>3, <1>4 DEF Destroyed
<1>6. QED
  BY <1>5 DEF T

-----------------------------------------------------------------------------
(***************************************************************************)
(* Every step is a step of XmlOwnership, or changes nothing it sees         *)
(***************************************************************************)

(* What a destructor run frees: the tree of the element given up, or none.  *)
Freed(n) == UNION {ReleasedBy(e) : e \in Destroyed(n) \cap Element}

LEMMA FreedIsLost ==
  ASSUME OwnershipInv, Running, UpEnds, Counted, NoLoopOfOwners, NEW e \in held \cap Element
  PROVE  Freed(e) = Ownership!Lost(e)
<1>0. /\ TypeOK /\ KidsMirrorUp /\ e \in live /\ Nil \notin Element
      /\ kids \in [Element -> Seq(Element)] /\ live \subseteq Node
  BY DomAssumption DEF OwnershipInv, TypeOK
<1>1. PICK t \in live \cap Element : up[t] = Nil /\ e \in Subtree(kids, t)
  BY <1>0, TopOfTree
<1> DEFINE T == Subtree(kids, t)
           others == ((held \cap Element) \ {e}) \cup Roots
<1>2. Ownership!Tree(e) = T
  BY <1>1, TreeOfTop
<1>3. Ownership!Lost(e) = IF T \cap others = {} THEN T ELSE {}
  BY <1>2 DEF Ownership!Lost, Roots
<1>4. Destroyed(e) \subseteq T /\ T \subseteq Element /\ t \in T
  BY <1>0, <1>1, DeathStaysInTree, SubtreeClosed
<1>5. /\ Destroyed(e) \subseteq live
      /\ Destroyed(e) \cap (held \ {e}) = {}
      /\ \A z \in Destroyed(e) : Owners(z) \subseteq Destroyed(e)
  BY DestroyedOwners
<1>6. \A x \in T : x # t => up[x] # Nil
  BY <1>0, <1>1, <1>4, SubtreeParents
<1>7. ASSUME NEW x \in Destroyed(e) \cap Element, ~HasParent(x) PROVE x = t
  BY <1>0, <1>4, <1>5, <1>6, <1>7 DEF HasParent, OwnershipInv, WrapperMirrorsDom
<1>8. Freed(e) \subseteq T
  BY <1>7 DEF Freed, ReleasedBy
<1>9. ASSUME Freed(e) # {} PROVE Freed(e) = T /\ T \cap others = {}
  <2>1. PICK x \in Destroyed(e) \cap Element : ReleasedBy(x) # {}
    BY <1>9 DEF Freed
  <2>2. t \in Destroyed(e) /\ ReleasedBy(t) = T
    BY <1>7, <2>1 DEF ReleasedBy
  <2>3. T \subseteq Freed(e)
    BY <2>2 DEF Freed
  <2> DEFINE S == {y \in Element : y \in live => y \in Destroyed(e)}
  <2>4. ASSUME NEW y \in S, NEW z \in ToSet(kids[y]), z \in live PROVE z \in Destroyed(e)
    <3>1. z \in Element /\ y \in Element
      BY <1>0 DEF ToSet
    <3>2. up[z] = y
      BY <1>0, <3>1 DEF KidsMirrorUp
    <3>3. parent[z] = y
      BY <1>0, <2>4, <3>1, <3>2 DEF OwnershipInv, WrapperMirrorsDom
    <3>4. y \in live
      BY <1>0, <2>4, <3>1, <3>3 DEF OwnershipInv, OwnersAreLive
    <3>5. z \in Owners(y)
      BY <2>4, <3>1, <3>3 DEF Owners, Owns
    <3>6. QED
      BY <1>5, <3>4, <3>5
  <2>5. \A y \in S : ToSet(kids[y]) \subseteq S
    BY <1>0, <2>4 DEF ToSet
  <2>6. S \in SUBSET Element /\ t \in S
    BY <2>2
  <2> HIDE DEF S
  <2>7. T \subseteq S
    BY <2>5, <2>6, SubtreeLeast
  <2>8. \A h \in Roots : h \in live /\ h \notin Destroyed(e)
    BY DocumentsStay DEF Roots, OwnershipInv, DocumentOwnsRoot
  <2>9. \A h \in held \ {e} : h \in live /\ h \notin Destroyed(e)
    BY <1>5 DEF OwnershipInv, TypeOK
  <2>10. T \cap others = {}
    BY <2>7, <2>8, <2>9 DEF S
  <2>11. QED
    BY <1>8, <2>3, <2>10
<1>10. ASSUME T \cap others = {} PROVE Freed(e) # {}
  <2>1. T \cap ((held \ {e}) \cup Roots) = {}
    BY <1>4, <1>10
  <2>2. t \in Destroyed(e) /\ parent[t] = Nil
    BY <1>1, <2>1, UnheldTreeDies
  <2>3. t \in ReleasedBy(t)
    BY <1>4, <2>2 DEF ReleasedBy, HasParent
  <2>4. QED
    BY <2>2, <2>3 DEF Freed
<1> HIDE DEF T, others
<1>11. QED
  BY <1>3, <1>9, <1>10

(* Without an element handle nothing is destroyed: a document stays with    *)
(* its root.                                                                *)
LEMMA DocumentHandleFreesNothing ==
  ASSUME OwnershipInv, Counted, NEW n \in held \cap Document
  PROVE  Destroyed(n) = {}
<1>1. n \in live /\ root[n] \in Owners(n)
  BY DocumentAssumption
  DEF OwnershipInv, TypeOK, DocumentOwnsRoot, Owners, Owns
<1>2. \A z \in live : z \notin held \ {n} /\ Owners(z) \subseteq {} => z \in {}
  BY <1>1 DEF Counted
<1>3. {} \in SUBSET live
  OBVIOUS
<1>4. QED
  BY <1>2, <1>3 DEF Destroyed

(* No element is its own parent after a step, unless the program hangs.     *)
LEMMA LinksSeenAfter ==
  ASSUME OwnershipInv', Running'
  PROVE  SeenUp' = up'
<1>0. /\ up' \in [Element -> Element \cup {Nil}] /\ kids' \in [Element -> Seq(Element)]
  BY DEF OwnershipInv, TypeOK
<1>1. ASSUME NEW e \in Element PROVE up'[e] # e
  <2>1. e \in Subtree(kids', e)
    BY <1>0, SubtreeClosed
  <2>2. QED
    BY <2>1 DEF OwnershipInv, NoCycleWhileRunning
<1>2. QED
  BY <1>0, <1>1 DEF SeenUp

Ended == status # "running"

(* A step that changes nothing the abstract specification sees.             *)
SeenUnchanged ==
  /\ alloc' = alloc /\ SeenUp' = SeenUp /\ (held \cap Element)' = held \cap Element
  /\ Roots' = Roots /\ Ended' = Ended

(* Dropping the last handle to an element.                                  *)
LEMMA DropElementIsDrop ==
  ASSUME OwnershipInv, OwnershipInv', Running, UpEnds, Counted, NoLoopOfOwners,
         NEW e \in held \cap Element, Drop(e)
  PROVE  Ownership!Drop(e) /\ Running'
<1> DEFINE D == Destroyed(e)
           F == Freed(e)
<1>0. /\ root \in [Document -> Element \cup {Nil}] /\ live \subseteq Node
      /\ up \in [Element -> Element \cup {Nil}] /\ Document \cap Element = {}
  BY DocumentAssumption DEF OwnershipInv, TypeOK
<1>1. F = Ownership!Lost(e)
  BY FreedIsLost
<1>2. \A x \in D \cap Element : ~ReleaseRefused(x)
  BY DestroyedOwners DEF ReleaseRefused, HasParent, OwnershipInv, WrapperMirrorsDom
<1>3. /\ held' = held \ {e} /\ live' = live \ D
      /\ root' = [d \in Document |-> IF d \in D THEN Nil ELSE root[d]]
      /\ alloc' = alloc \ F
      /\ up' = [x \in Element |-> IF x \in F THEN Nil ELSE up[x]]
      /\ status' = status
  BY <1>2 DEF Drop, Freed
<1>4. \A d \in live \cap Document : d \notin D
  BY DocumentsStay
<1> HIDE DEF D, F
<1>5. Roots' = Roots
  <2>1. live' \cap Document = live \cap Document
    BY <1>3, <1>4
  <2>2. \A d \in live \cap Document : root'[d] = root[d]
    BY <1>3, <1>4
  <2>3. QED
    BY <2>1, <2>2 DEF Roots
<1>6. SeenUp = up /\ SeenUp' = up' /\ Running'
  <2>1. Running'
    BY <1>3 DEF Running
  <2>2. QED
    BY <2>1, AllLinksSeen, LinksSeenAfter
<1>7. SeenUp' = [n \in Element |-> IF n \in F THEN Nil ELSE SeenUp[n]]
  BY <1>3, <1>6
<1>8. (held \cap Element)' = (held \cap Element) \ {e}
  BY <1>3
<1>9. QED
  BY <1>1, <1>3, <1>5, <1>6, <1>7, <1>8
  DEF Ownership!Drop, SeenUp, Roots, Running

(* CopyXmlElement copies what is below the original, into free cells.       *)
LEMMA CopyIsCopy ==
  ASSUME OwnershipInv, OwnershipInv', Running, NEW o \in held \cap Element,
         NEW f \in Injection(Subtree(kids, o), Element \ alloc), CopyXmlElement(o, f)
  PROVE  Ownership!Copy(o, f) /\ Running'
<1>0. /\ Running' /\ SeenUp = up /\ SeenUp' = up'
      /\ up \in [Element -> Element \cup {Nil}]
  <2>1. Running'
    BY DEF CopyXmlElement, Returns, Running
  <2>2. QED
    BY <2>1, AllLinksSeen, LinksSeenAfter DEF OwnershipInv, TypeOK
<1>1. /\ f \in [Subtree(kids, o) -> Element \ alloc]
      /\ \A m1, m2 \in Subtree(kids, o) : f[m1] = f[m2] => m1 = m2
      /\ o \in Subtree(kids, o)
  BY SubtreeClosed DEF Injection, IsInjective, OwnershipInv, TypeOK
<1> DEFINE N == {f[m] : m \in DOMAIN f}
           Source(n) == CHOOSE m \in DOMAIN f : f[m] = n
<1>2. /\ alloc' = alloc \cup N /\ held' = held \cup {f[o]} /\ live' = live \cup {f[o]}
      /\ root' = root
      /\ up' = [n \in Element |->
                  IF n \notin N THEN up[n]
                  ELSE IF n = f[o] THEN Nil ELSE f[up[Source(n)]]]
  BY DEF CopyXmlElement, Original
<1>3. f[o] \in Element \ alloc /\ up[f[o]] = Nil /\ f[o] \notin Document
  BY <1>1, FreeCellIsAlone, DocumentAssumption
<1>4. \A n \in Element : (\E m \in DOMAIN f \ {o} : f[m] = n) <=> n \in N /\ n # f[o]
  BY <1>1
<1> HIDE DEF Source
<1>5. up' = [n \in Element |->
               IF \E m \in DOMAIN f \ {o} : f[m] = n THEN f[up[Source(n)]] ELSE up[n]]
  <2> DEFINE g(n) == IF n \notin N THEN up[n]
                     ELSE IF n = f[o] THEN Nil ELSE f[up[Source(n)]]
             h(n) == IF \E m \in DOMAIN f \ {o} : f[m] = n THEN f[up[Source(n)]] ELSE up[n]
  <2>1. \A n \in Element : g(n) = h(n)
    BY <1>3, <1>4
  <2> HIDE DEF h
  <2>2. [n \in Element |-> g(n)] = [n \in Element |-> h(n)]
    BY <2>1
  <2>3. QED
    BY <1>2, <2>2 DEF h
<1>6. (held \cap Element)' = (held \cap Element) \cup {f[o]}
  BY <1>2, <1>3
<1>7. Roots' = Roots
  BY <1>2, <1>3 DEF Roots
<1>8. SeenUp' = [n \in Element |->
                   IF \E m \in DOMAIN f \ {o} : f[m] = n
                   THEN f[SeenUp[CHOOSE m \in DOMAIN f : f[m] = n]] ELSE SeenUp[n]]
  BY <1>0, <1>5 DEF Source
<1>9. QED
  BY <1>0, <1>2, <1>6, <1>7, <1>8 DEF Ownership!Copy, SeenUp, Roots, Running

(* AddXmlChildElement attaches a tree that no document has to another tree. *)
LEMMA AddChildIsAttach ==
  ASSUME OwnershipInv, OwnershipInv', Running, Running',
         NEW p \in held \cap Element, NEW c \in held \cap Element, NEW r,
         AddXmlChildElement(p, c, r)
  PROVE  Ownership!Attach(p, c)
<1>0. /\ SeenUp = up /\ SeenUp' = up' /\ TypeOK /\ KidsMirrorUp /\ Nil \notin Document
      /\ parent[c] = Nil /\ up[c] = Nil /\ c \in live
      /\ parent \in [Element -> Node \cup {Nil}] /\ p \in Node
  BY AllLinksSeen, LinksSeenAfter, DomAssumption, DocumentAssumption
  DEF AddXmlChildElement, CanInsert, HasParent, OwnershipInv, WrapperMirrorsDom, TypeOK, Node
<1>1. c \notin Roots
  BY <1>0 DEF Roots, OwnershipInv, DocumentOwnsRoot
<1>2. p # c
  <2>1. c \notin ParentChain(parent, p)
    BY DEF AddXmlChildElement, Running
  <2>2. QED
    BY <1>0, <2>1 DEF ParentChain
<1>3. p \notin Ownership!Tree(c)
  <2>1. p \notin Subtree(kids, c)
    BY <1>0, <1>2, InsertedFromOutside DEF AddXmlChildElement
  <2>2. c \in Subtree(kids, c)
    BY SubtreeClosed DEF OwnershipInv, TypeOK
  <2>3. QED
    BY <1>0, <2>1, <2>2, TreeOfTop
<1>4. /\ up' = [up EXCEPT ![c] = p]
      /\ UNCHANGED <<alloc, live, root, held>>
  BY DEF AddXmlChildElement, UpAfterInsert
<1>5. SeenUp[c] = Nil /\ SeenUp' = [SeenUp EXCEPT ![c] = p]
  BY <1>0, <1>4
<1>6. QED
  BY <1>1, <1>3, <1>4, <1>5 DEF Ownership!Attach, SeenUp, Roots, Running

(* An element appended to itself hangs the program; the abstract tree does  *)
(* not show the link.                                                       *)
LEMMA SelfInsertionIsHang ==
  ASSUME OwnershipInv, Running, ~Running',
         NEW p \in held \cap Element, NEW c \in held \cap Element, NEW r,
         AddXmlChildElement(p, c, r)
  PROVE  Ownership!Hang
<1>1. p = c
  BY LoopIsSelfInsertion DEF AddXmlChildElement, Returns, Running
<1>2. /\ up \in [Element -> Element \cup {Nil}] /\ up[c] = Nil
  BY DomAssumption
  DEF AddXmlChildElement, CanInsert, HasParent, OwnershipInv, WrapperMirrorsDom, TypeOK
<1>3. /\ up' = [up EXCEPT ![c] = c] /\ UNCHANGED <<alloc, live, root, held>>
  BY <1>1 DEF AddXmlChildElement, UpAfterInsert
<1>4. SeenUp' = SeenUp
  BY <1>2, <1>3 DEF SeenUp
<1>5. QED
  BY <1>3, <1>4 DEF Ownership!Hang, SeenUp, Running

(* CreateXmlDocument pins the root.                                         *)
LEMMA CreateDocumentIsPin ==
  ASSUME OwnershipInv, Running, NEW d \in Document \ domDocs, NEW r \in held \cap Element,
         NEW version, CreateXmlDocument(d, r, version)
  PROVE  Ownership!Pin(r) /\ Running'
<1>0. /\ SeenUp = up /\ parent[r] = Nil /\ up[r] = Nil
      /\ root \in [Document -> Element \cup {Nil}] /\ d \notin live /\ d \notin Element
  BY AllLinksSeen, DomAssumption, DocumentAssumption
  DEF CreateXmlDocument, HasParent, OwnershipInv, WrapperMirrorsDom, TypeOK,
      LiveDocumentsInUse
<1>1. r \notin Roots
  BY <1>0, DocumentAssumption DEF Roots, OwnershipInv, DocumentOwnsRoot
<1>2. /\ live' = live \cup {d} /\ held' = held \cup {d} /\ root' = [root EXCEPT ![d] = r]
      /\ up' = up /\ alloc' = alloc /\ status' = status
  BY DEF CreateXmlDocument, Returns, domVars
<1>3. Roots' = Roots \cup {r}
  <2>1. \A x \in live \cap Document : root'[x] = root[x]
    BY <1>0, <1>2
  <2>2. root'[d] = r
    BY <1>0, <1>2
  <2>3. live' \cap Document = (live \cap Document) \cup {d}
    BY <1>2
  <2>4. QED
    BY <2>1, <2>2, <2>3 DEF Roots
<1>4. (held \cap Element)' = held \cap Element
  BY <1>0, <1>2
<1>5. QED
  BY <1>0, <1>1, <1>2, <1>3, <1>4 DEF Ownership!Pin, SeenUp, Roots, Running

(* GetRootElement and GetParent: another handle to a root or to a parent.   *)
LEMMA GetterIsAcquire ==
  ASSUME OwnershipInv, Running, NEW e \in live \cap Element,
         e \in Roots \/ \E c \in held \cap Element : up[c] = e,
         held' = held \cup {e}, Returns("ok"), UNCHANGED <<domVars, docVars, wrapVars>>
  PROVE  Ownership!Acquire(e) /\ Running'
<1>1. SeenUp = up /\ e \in live
  BY AllLinksSeen
<1>2. /\ alloc' = alloc /\ SeenUp' = SeenUp /\ Roots' = Roots /\ status' = status
      /\ (held \cap Element)' = (held \cap Element) \cup {e}
  BY DEF Returns, domVars, wrapVars, SeenUp, Roots
<1>3. QED
  BY <1>1, <1>2 DEF Ownership!Acquire, SeenUp, Roots, Running

(* Every step of the adapter.                                               *)
LEMMA NextIsOwnershipStep ==
  ASSUME OwnershipInv, OwnershipInv', UpEnds, Counted, NoLoopOfOwners, Next
  PROVE  Ownership!Next \/ SeenUnchanged
<1>0. /\ Running /\ SeenUp = up /\ held \subseteq live /\ live \cap Element \subseteq alloc
      /\ live \subseteq Node /\ Document \cap Element = {} /\ alloc \subseteq Element
  BY AllLinksSeen, DocumentAssumption
  DEF Next, Running, OwnershipInv, TypeOK, NoDanglingWrapper
<1>1. ASSUME NEW e \in Element \ alloc, NEW tagIsValid, NEW text, NEW new,
             CreateXmlElement(e, tagIsValid, text, new)
      PROVE  Ownership!Next
  <2>1. /\ alloc' = alloc \cup {e} /\ held' = held \cup {e} /\ live' = live \cup {e}
        /\ up' = up /\ root' = root /\ status' = status
    BY <1>1 DEF CreateXmlElement, Returns
  <2>2. /\ (held \cap Element)' = (held \cap Element) \cup {e}
        /\ SeenUp' = SeenUp /\ Roots' = Roots
    BY <1>0, <2>1 DEF SeenUp, Roots
  <2>3. Ownership!Create(e)
    BY <2>1, <2>2 DEF Ownership!Create, SeenUp, Roots
  <2>4. QED
    BY <1>0, <2>3 DEF Ownership!Next, Running
<1>2. ASSUME NEW o \in Elements, NEW f \in Injection(Subtree(kids, o), Element \ alloc),
             CopyXmlElement(o, f)
      PROVE  Ownership!Next
  <2>1. Ownership!Copy(o, f)
    BY <1>0, <1>2, CopyIsCopy DEF Elements
  <2>2. f \in Ownership!Injection(Ownership!Below(o), Element \ alloc)
    BY <1>0, <1>2, BelowIsSubtree
    DEF Elements, Injection, IsInjective, Ownership!Injection, Ownership!IsInjective
  <2>3. QED
    BY <1>0, <2>1, <2>2 DEF Ownership!Next, Elements, Running
<1>3. ASSUME NEW p \in Elements, NEW c \in Elements, NEW r,
             AddXmlChildElement(p, c, r)
      PROVE  Ownership!Next
  <2>1. Ownership!Attach(p, c) \/ Ownership!Hang
    BY <1>0, <1>3, AddChildIsAttach, SelfInsertionIsHang DEF Elements
  <2>2. QED
    BY <1>0, <2>1 DEF Ownership!Next, Elements, Running
<1>4. ASSUME NEW r \in Elements, NEW version, NEW d \in Document \ domDocs,
             CreateXmlDocument(d, r, version)
      PROVE  Ownership!Next
  <2>1. Ownership!Pin(r)
    BY <1>0, <1>4, CreateDocumentIsPin DEF Elements
  <2>2. QED
    BY <1>0, <2>1 DEF Ownership!Next, Elements, Running
<1>5. ASSUME NEW d \in Documents, GetXmlRootElement(d)
      PROVE  Ownership!Next
  <2>1. root[d] \in Roots /\ root[d] \in live \cap Element
    BY <1>0 DEF Documents, Roots, OwnershipInv, DocumentOwnsRoot
  <2>2. Ownership!Acquire(root[d])
    BY <1>0, <1>5, <2>1, GetterIsAcquire DEF GetXmlRootElement
  <2>3. QED
    BY <1>0, <2>1, <2>2 DEF Ownership!Next, Running
<1>6. ASSUME NEW e \in Elements, GetParent(e)
      PROVE  Ownership!Next \/ SeenUnchanged
  <2>1. parent[e] \in live
    BY <1>0, <1>6 DEF Elements, GetParent, HasParent, OwnershipInv, OwnersAreLive
  <2>2. CASE parent[e] \in Element
    <3>1. up[e] = parent[e]
      BY <1>0, <2>2 DEF Elements, OwnershipInv, WrapperMirrorsDom
    <3>2. Ownership!Acquire(parent[e])
      BY <1>0, <1>6, <2>1, <2>2, <3>1, GetterIsAcquire DEF GetParent, Elements
    <3>3. QED
      BY <1>0, <2>1, <2>2, <3>2 DEF Ownership!Next, Running
  <2>3. CASE parent[e] \notin Element
    BY <1>6, <2>3
    DEF GetParent, Returns, domVars, wrapVars, SeenUnchanged, SeenUp, Roots, Ended
  <2>4. QED
    BY <2>2, <2>3
<1>7. ASSUME NEW n \in held, Drop(n)
      PROVE  Ownership!Next \/ SeenUnchanged
  <2>1. CASE n \in Element
    <3>1. Ownership!Drop(n)
      BY <1>0, <1>7, <2>1, DropElementIsDrop
    <3>2. QED
      BY <1>0, <2>1, <3>1 DEF Ownership!Next, Running
  <2>2. CASE n \in Document
    <3>1. Destroyed(n) = {}
      BY <2>2, DocumentHandleFreesNothing
    <3>2. /\ held' = held \ {n} /\ live' = live /\ alloc' = alloc /\ status' = status
          /\ up' = [e \in Element |-> up[e]] /\ root' = [d \in Document |-> root[d]]
      BY <1>7, <3>1 DEF Drop
    <3>3. (held \cap Element)' = held \cap Element
      BY <1>0, <2>2, <3>2
    <3>4. SeenUp' = SeenUp /\ Roots' = Roots
      BY <3>2 DEF SeenUp, Roots
    <3>5. QED
      BY <3>2, <3>3, <3>4 DEF SeenUnchanged, Ended
  <2>3. QED
    BY <1>0, <2>1, <2>2 DEF Node
<1>8. CASE Exit
  <2>1. Ownership!Exit
    BY <1>8 DEF Exit, Ownership!Exit, wrapVars
  <2>2. QED
    BY <1>0, <2>1 DEF Ownership!Next, Running
<1>9. CASE UNCHANGED <<alloc, up, live, root, held, status>>
  BY <1>9 DEF SeenUnchanged, SeenUp, Roots, Ended
<1>10. ASSUME NEW e \in Element \ alloc, NEW tagIsValid, NEW new,
              CreateXmlElementThrows(e, tagIsValid, new)
       PROVE  Ownership!Next \/ SeenUnchanged
  <2>1. alloc' = alloc
    BY <1>0, <1>10, FreeCellIsAlone DEF CreateXmlElementThrows, Unwound
  <2>2. UNCHANGED <<alloc, up, live, root, held, status>>
    BY <1>10, <2>1 DEF CreateXmlElementThrows, Returns, wrapVars
  <2>3. QED
    BY <1>9, <2>2
<1>11. QED
  BY <1>1, <1>2, <1>3, <1>4, <1>5, <1>6, <1>7, <1>8, <1>9, <1>10
  DEF Next, AddXmlChildElementRefused, SetXmlElementText, SetXmlElementAttributes,
      SetXmlElementAttributesSwallows, SetXmlElementAttribute,
      SetXmlElementAttributeThrows, CreateXmlDocumentThrows, CreateXmlDocumentRejects,
      Returns, domVars, wrapVars

-----------------------------------------------------------------------------
(***************************************************************************)
(* Trees live and die whole                                                 *)
(***************************************************************************)

(* The top of every tree in use has a wrapper.                              *)
TopsAreWrapped == Running => \A a \in alloc : up[a] = Nil => a \in live

(* Every step keeps it: of a copy only the top is without parent, and a     *)
(* parentless wrapper takes its tree with it.                               *)
LEMMA NextTopsAreWrapped ==
  ASSUME OwnershipInv, TopsAreWrapped, Next
  PROVE  TopsAreWrapped'
<1>0. /\ Running /\ up \in [Element -> Element \cup {Nil}] /\ Nil \notin Element
      /\ kids \in [Element -> Seq(Element)] /\ parent \in [Element -> Node \cup {Nil}]
      /\ alloc \subseteq Element /\ TypeOK /\ KidsMirrorUp
  BY DomAssumption DEF Next, Running, OwnershipInv, TypeOK
<1>1. ASSUME NEW o \in Elements, NEW f \in Injection(Subtree(kids, o), Element \ alloc),
             CopyXmlElement(o, f)
      PROVE  TopsAreWrapped'
  <2> DEFINE M == Subtree(kids, o)
             N == {f[m] : m \in M}
  <2>1. /\ f \in [M -> Element \ alloc]
        /\ \A m1, m2 \in M : f[m1] = f[m2] => m1 = m2
    BY DEF Injection, IsInjective
  <2>2. o \in M /\ M \subseteq Element /\ \A m \in M : m # o => up[m] \in M
    BY <1>0, SubtreeClosed, SubtreeParents DEF Elements
  <2> HIDE DEF M
  <2>3. \A m \in M : Original(f, f[m]) = m
    BY <2>1 DEF Original
  <2>4. /\ alloc' = alloc \cup N /\ live' = live \cup {f[o]}
        /\ up' = [n \in Element |->
                    IF n \notin N THEN up[n]
                    ELSE IF n = f[o] THEN Nil ELSE f[up[Original(f, n)]]]
    <3>1. N = {f[m] : m \in DOMAIN f}
      BY <2>1
    <3>2. QED
      BY <1>1, <3>1 DEF CopyXmlElement
  <2>5. N \subseteq Element \ alloc /\ \A n \in N : \E m \in M : n = f[m]
    BY <2>1
  <2>6. \A m \in M : f[m] \in Element
    BY <2>1
  <2> HIDE DEF N
  <2>7. ASSUME NEW n \in N, n # f[o] PROVE up'[n] # Nil
    <3>1. PICK m \in M : n = f[m]
      BY <2>5
    <3>2. m # o /\ Original(f, n) = m
      BY <2>3, <2>7, <3>1
    <3>3. up'[n] = f[up[m]] /\ up[m] \in M
      BY <2>2, <2>4, <2>5, <2>7, <3>2
    <3>4. QED
      BY <1>0, <2>6, <3>3
  <2>8. \A a \in alloc : up'[a] = up[a]
    BY <1>0, <2>4, <2>5
  <2>9. QED
    BY <1>0, <2>4, <2>7, <2>8 DEF TopsAreWrapped
<1>2. ASSUME NEW n \in held, Drop(n) PROVE TopsAreWrapped'
  <2> DEFINE D == Destroyed(n)
             F == UNION {ReleasedBy(e) : e \in D \cap Element}
  <2>1. /\ alloc' = alloc \ F /\ live' = live \ D
        /\ up' = [e \in Element |-> IF e \in F THEN Nil ELSE up[e]]
    BY <1>2 DEF Drop
  <2>2. ASSUME NEW a \in D \cap Element, up[a] = Nil PROVE a \in F
    <3>1. a \in live /\ parent[a] \notin Element
      BY <1>0, <2>2, DestroyedOwners DEF OwnershipInv, WrapperMirrorsDom
    <3>2. parent[a] \notin Document
      BY <2>2, <3>1, DocumentsStay, DocumentAssumption DEF OwnershipInv, OwnersAreLive
    <3>3. parent[a] = Nil
      BY <1>0, <3>1, <3>2 DEF Node
    <3>4. a \in ReleasedBy(a)
      BY <1>0, <3>3, SubtreeClosed DEF ReleasedBy, HasParent
    <3>5. QED
      BY <2>2, <3>4
  <2> HIDE DEF D, F
  <2>3. \A a \in alloc' : up'[a] = up[a] /\ a \in alloc /\ a \notin F
    BY <1>0, <2>1
  <2>4. QED
    BY <1>0, <2>1, <2>2, <2>3 DEF TopsAreWrapped
<1>3. ASSUME NEW p \in Elements, NEW c \in Elements, NEW r,
             AddXmlChildElement(p, c, r)
      PROVE  TopsAreWrapped'
  <2>1. /\ up' = [up EXCEPT ![c] = p] /\ alloc' = alloc /\ live' = live
        /\ p # Nil /\ c \in Element
    BY <1>0, <1>3 DEF AddXmlChildElement, UpAfterInsert, Elements
  <2>2. \A a \in alloc : up'[a] = Nil => up[a] = Nil
    BY <1>0, <2>1
  <2>3. QED
    BY <1>0, <2>1, <2>2 DEF TopsAreWrapped
<1>4. CASE /\ up' = up /\ live \subseteq live'
           /\ alloc' \subseteq alloc \cup (live' \ live)
  BY <1>0, <1>4 DEF TopsAreWrapped
<1>5. ASSUME NEW e \in Element \ alloc, NEW tagIsValid, NEW new,
             CreateXmlElementThrows(e, tagIsValid, new)
      PROVE  TopsAreWrapped'
  <2>1. alloc' = alloc
    BY <1>0, <1>5, FreeCellIsAlone DEF CreateXmlElementThrows, Unwound
  <2>2. up' = up /\ live' = live
    BY <1>5 DEF CreateXmlElementThrows, wrapVars
  <2>3. QED
    BY <1>4, <2>1, <2>2
<1>6. ASSUME NEW e \in Element \ alloc, NEW tagIsValid, NEW text, NEW new,
             CreateXmlElement(e, tagIsValid, text, new)
      PROVE  TopsAreWrapped'
  <2>1. e \notin live
    BY <1>0 DEF OwnershipInv, NoDanglingWrapper
  <2>2. QED
    BY <1>4, <1>6, <2>1 DEF CreateXmlElement
<1>7. CASE Exit
  BY <1>7 DEF Exit, TopsAreWrapped
<1>8. CASE UNCHANGED <<up, live, alloc>>
  BY <1>4, <1>8
<1>9. ASSUME NEW d, NEW r, NEW version, CreateXmlDocument(d, r, version)
      PROVE  TopsAreWrapped'
  BY <1>4, <1>9 DEF CreateXmlDocument, domVars
<1>10. QED
  BY <1>1, <1>2, <1>3, <1>5, <1>6, <1>7, <1>8, <1>9
  DEF Next, AddXmlChildElementRefused, SetXmlElementText, SetXmlElementAttributes,
      SetXmlElementAttributesSwallows, SetXmlElementAttribute,
      SetXmlElementAttributeThrows, CreateXmlDocumentThrows, CreateXmlDocumentRejects,
      GetXmlRootElement, GetParent, domVars, wrapVars

(* The ownership structure with what makes destruction complete.            *)
LifeInv == OwnershipInv /\ UpEnds /\ Counted /\ NoLoopOfOwners /\ TopsAreWrapped

LEMMA LifeInvariant == Spec => []LifeInv
<1>1. Init => UpEnds /\ Counted /\ NoLoopOfOwners /\ TopsAreWrapped
  BY DomAssumption DEF Init, UpEnds, Counted, NoLoopOfOwners, TopsAreWrapped
<1>2. LifeInv /\ [Next]_vars => UpEnds' /\ Counted' /\ NoLoopOfOwners' /\ TopsAreWrapped'
  <2> SUFFICES ASSUME LifeInv, [Next]_vars
               PROVE  UpEnds' /\ Counted' /\ NoLoopOfOwners' /\ TopsAreWrapped'
    OBVIOUS
  <2>1. CASE Next
    BY <2>1, NextUpEnds, NextCounted, NextTopsAreWrapped DEF LifeInv
  <2>2. CASE UNCHANGED vars
    BY <2>2, SameCounted
    DEF LifeInv, vars, domVars, wrapVars, Running, UpEnds, TopsAreWrapped
  <2>3. QED
    BY <2>1, <2>2
<1>3. LifeInv <=> /\ OwnershipInv
                  /\ UpEnds /\ Counted /\ NoLoopOfOwners /\ TopsAreWrapped
  BY DEF LifeInv
<1>4. QED
  BY <1>1, <1>2, <1>3, OwnershipStructure, PTL DEF Spec

(* In the tree of a parentless wrapper an element is held or a root.        *)
LEMMA TreeIsKept ==
  ASSUME OwnershipInv, Running, Counted, NoLoopOfOwners,
         NEW t \in live \cap Element
  PROVE  Subtree(kids, t) \cap ((held \cap Element) \cup Roots) # {}
<1> DEFINE T == Subtree(kids, t)
           U == live \cap T
<1>0. /\ KidsMirrorUp /\ live \subseteq Node /\ kids \in [Element -> Seq(Element)]
  BY DEF OwnershipInv, TypeOK
<1>1. /\ t \in T /\ T \subseteq Element
      /\ \A y \in T : ToSet(kids[y]) \subseteq T
  BY <1>0, SubtreeClosed
<1> HIDE DEF T
<1>2. PICK y \in U : \A x \in U : parent[x] # y
  <2>1. U \in SUBSET (live \cap Element) /\ U # {}
    BY <1>1
  <2> HIDE DEF U
  <2>2. QED
    BY <2>1 DEF NoLoopOfOwners
<1>3. CASE y \in held
  BY <1>1, <1>2, <1>3 DEF T
<1>4. CASE y \notin held
  <2>1. PICK x \in live : Owns(x, y)
    BY <1>2, <1>4 DEF Counted, Owners
  <2>2. CASE x \in Element
    <3>1. parent[x] = y /\ up[x] = y
      BY <1>1, <1>2, <2>1, <2>2 DEF Owns, OwnershipInv, WrapperMirrorsDom
    <3>2. x \in T
      BY <1>0, <1>1, <1>2, <2>2, <3>1 DEF KidsMirrorUp
    <3>3. QED
      BY <1>2, <2>1, <3>1, <3>2
  <2>3. CASE x \notin Element
    <3>1. x \in Document /\ root[x] = y
      BY <1>0, <2>1, <2>3 DEF Owns, Node
    <3>2. y \in Roots
      BY <2>1, <3>1 DEF Roots
    <3>3. QED
      BY <1>2, <3>2 DEF T
  <2>4. QED
    BY <2>2, <2>3
<1>5. QED
  BY <1>3, <1>4

(* Every element in use is below a parentless one in use.                   *)
LEMMA TopOfCell ==
  ASSUME OwnershipInv, Running, UpEnds, NEW a \in alloc
  PROVE  \E t \in alloc : up[t] = Nil /\ a \in Subtree(kids, t)
<1> DEFINE A == UpChain(up, a)
<1>0. /\ TypeOK /\ KidsMirrorUp /\ up \in [Element -> Element \cup {Nil}]
      /\ alloc \in SUBSET Element /\ a \in Element
  BY DEF OwnershipInv, TypeOK
<1>1. /\ a \in A /\ A \subseteq Element
      /\ \A y \in A : up[y] # Nil => up[y] \in A
  BY <1>0, UpChainClosed
<1>2. A \subseteq alloc
  <2>1. \A y \in alloc : up[y] # Nil => up[y] \in alloc
    BY <1>0 DEF OwnershipInv, LinkedCellsInUse
  <2>2. QED
    BY <1>0, <2>1, UpChainLeast
<1>3. \A t \in A : a \in Subtree(kids, t)
  BY <1>0, UpChainSubtree
<1> HIDE DEF A
<1>4. PICK t \in A : up[t] \notin A
  BY <1>1 DEF UpEnds
<1>5. QED
  BY <1>1, <1>2, <1>3, <1>4

(* The adapter keeps what XmlOwnership promises: each of its calls, with    *)
(* the destructors and the notification it runs, is one step of it or none. *)
THEOREM AdapterImplementsOwnership == Spec => ImplementsOwnership
<1>1. Init => Ownership!Init
  BY DomAssumption DEF Init, Ownership!Init
<1>2. LifeInv /\ LifeInv' /\ [Next]_vars => [Ownership!Next]_(Ownership!vars)
  <2> SUFFICES ASSUME LifeInv, LifeInv', [Next]_vars
               PROVE  [Ownership!Next]_(Ownership!vars)
    OBVIOUS
  <2>1. CASE Next
    <3>1. SeenUnchanged => UNCHANGED Ownership!vars
      BY DEF SeenUnchanged, SeenUp, Roots, Ended, Ownership!vars
    <3>2. QED
      BY <2>1, <3>1, NextIsOwnershipStep DEF LifeInv
  <2>2. CASE UNCHANGED vars
    BY <2>2 DEF vars, domVars, wrapVars, Ownership!vars
  <2>3. QED
    BY <2>1, <2>2
<1>3. QED
  BY <1>1, <1>2, LifeInvariant, PTL
  DEF Spec, ImplementsOwnership, Ownership!Spec

(* There are exactly the elements of the trees in which the caller holds an *)
(* element, and of the documents' trees: nothing is leaked, nothing is      *)
(* freed in part.                                                           *)
THEOREM NoTreeIsLostOrTorn == Spec => []TreesLiveAndDieWhole
<1>1. LifeInv => TreesLiveAndDieWhole
  <2> SUFFICES ASSUME LifeInv, Running
               PROVE  alloc = UNION {Ownership!Tree(e) : e \in (held \cap Element) \cup Roots}
    BY DEF TreesLiveAndDieWhole, Ownership!TreesLiveAndDieWhole, Roots, Running
  <2>0. /\ OwnershipInv /\ UpEnds /\ Counted /\ NoLoopOfOwners /\ TopsAreWrapped
        /\ held \subseteq live /\ live \cap Element \subseteq alloc
        /\ alloc \subseteq Element
    BY DEF LifeInv, OwnershipInv, TypeOK, NoDanglingWrapper
  <2>1. ASSUME NEW e \in (held \cap Element) \cup Roots PROVE Ownership!Tree(e) \subseteq alloc
    <3>1. e \in live \cap Element
      BY <2>0 DEF Roots, OwnershipInv, DocumentOwnsRoot
    <3>2. PICK t \in live \cap Element : up[t] = Nil /\ e \in Subtree(kids, t)
      BY <2>0, <3>1, TopOfTree
    <3>3. Ownership!Tree(e) = Subtree(kids, t)
      BY <2>0, <3>2, TreeOfTop
    <3>4. QED
      BY <2>0, <3>3, TreeInUse
  <2>2. ASSUME NEW a \in alloc
        PROVE  \E e \in (held \cap Element) \cup Roots : a \in Ownership!Tree(e)
    <3>1. PICK t \in alloc : up[t] = Nil /\ a \in Subtree(kids, t)
      BY <2>0, TopOfCell
    <3>2. t \in live \cap Element
      BY <2>0, <3>1 DEF TopsAreWrapped
    <3>3. PICK e \in (held \cap Element) \cup Roots : e \in Subtree(kids, t)
      BY <2>0, <3>2, TreeIsKept
    <3>4. Ownership!Tree(e) = Subtree(kids, t)
      BY <2>0, <3>1, <3>2, <3>3, TreeOfTop
    <3>5. QED
      BY <3>1, <3>3, <3>4
  <2>3. QED
    BY <2>1, <2>2
<1>2. QED
  BY <1>1, LifeInvariant, PTL

=============================================================================
