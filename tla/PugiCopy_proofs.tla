---------------------------- MODULE PugiCopy_proofs ----------------------------
(***************************************************************************)
(* Proofs about PugiCopy, for any documents, nodes and names: the pointers  *)
(* of node_copy_tree stay together, and the copy is the original.           *)
(***************************************************************************)
EXTENDS PugiCopy, TLAPS

TypeOK ==
  /\ name \in [Node -> Name \cup {Nil}]
  /\ up \in [Node -> Inner \cup {Nil}]
  /\ kids \in [Inner -> Seq(Node)]
  /\ onward \in BOOLEAN /\ complete \in BOOLEAN

(* Children and parents are two views of one forest, which ends upwards:    *)
(* every set of nodes has one whose parent is outside.                      *)
TreeOK ==
  /\ \A x \in Inner : IsInjective(kids[x]) /\ ToSet(kids[x]) = {n \in Node : up[n] = x}
  /\ \A n \in Node : IF n \in Exists THEN up[n] \in Exists \cup Document ELSE up[n] = Nil
  /\ \A S \in SUBSET Node : S # {} => \E n \in S : up[n] \notin S

(* What holds of the trees while node_copy_tree runs, wherever it is.       *)
CallOK ==
  /\ dn \in Exists \cup Document /\ sn \in Exists \cup Document
  /\ before.name \in [Node -> Name \cup {Nil}] /\ before.kids \in [Inner -> Seq(Node)]
  /\ Original \subseteq Exists \cup Document
  /\ \A y \in Original : Kept(y)
  /\ dn \in Node /\ sn \in Node => name[dn] = name[sn]

(* V are the nodes of the original that have a copy, t takes each to it.    *)
Twins(V, t) ==
  /\ V \subseteq Original /\ sn \in V /\ t[sn] = dn
  /\ \A y \in V : /\ t[y] \in Subtree(dn)
                  /\ y \in Node /\ t[y] \in Node => name[t[y]] = name[y]
  /\ \A y \in V \ {sn} : up[y] \in V /\ t[y] \in Node /\ up[t[y]] = t[up[y]]
  /\ \A y, z \in V : t[y] = t[z] => y = z

(* P are the nodes on the way from sn to the parent of sit; the way goes    *)
(* through the child of y at pos[y], and behind it nothing has been copied. *)
Path(V, P, t, pos) ==
  /\ P \subseteq V
  /\ IF sit = sn
     THEN dit = Parent(dn) /\ P = {}
     ELSE /\ sit \in Node /\ sit \in Original \cup {dn} /\ sit \notin P
          /\ up[sit] \in P /\ kids[up[sit]][pos[up[sit]]] = sit
          /\ dit = t[up[sit]]
          /\ ~onward => sit \notin V
  /\ \A y \in P \ {sn} : up[y] \in P /\ kids[up[y]][pos[up[y]]] = y
  /\ \A y \in P :
       /\ pos[y] \in DOMAIN kids[y]
       /\ \A i \in DOMAIN kids[y] : i > pos[y] => kids[y][i] \notin V

(* If no allocation has failed, what the walk has passed has been copied,   *)
(* and the children of a copy are the copies of the first children.         *)
Passed(V, P, pos, y, i) ==
  y \in P => i < pos[y] \/ (i = pos[y] /\ (kids[y][i] # sit \/ onward))

Exact(V, P, t, pos) ==
  \A y \in V :
    /\ \A i \in DOMAIN kids[y] : Passed(V, P, pos, y, i) => kids[y][i] \in V \cup {dn}
    /\ Len(kids[t[y]]) <= Len(before.kids[y])
    /\ \A i \in DOMAIN before.kids[y] :
         IF i <= Len(kids[t[y]])
         THEN before.kids[y][i] \in V /\ kids[t[y]][i] = t[before.kids[y][i]]
         ELSE before.kids[y][i] \notin V

Walk(V, P, t, pos) ==
  /\ Twins(V, t)
  /\ Path(V, P, t, pos)
  /\ complete => Exact(V, P, t, pos)

(* Where the two pointers are.                                              *)
WalkOK ==
  /\ onward => Walking
  /\ IF sit = Nil
     THEN kids[sn] = << >> /\ kids[dn] = << >> /\ before.kids[sn] = << >>
     ELSE /\ Original \cap Subtree(dn) = {}
          /\ \E V, P \in SUBSET Inner : \E t \in [Inner -> Inner], pos \in [Inner -> Nat] :
               Walk(V, P, t, pos)

(* The inductive invariant.                                                 *)
CopyInv == TypeOK /\ TreeOK /\ (Idle \/ (CallOK /\ WalkOK))

-----------------------------------------------------------------------------
(***************************************************************************)
(* Lists and what is reached along them                                     *)
(***************************************************************************)

(* InsertAt gives the sequence with c at position i.                        *)
LEMMA InsertAtElements ==
  ASSUME NEW S, NEW s \in Seq(S), NEW c \in S, NEW i \in 1 .. Len(s) + 1
  PROVE  /\ InsertAt(s, i, c) \in Seq(S)
         /\ Len(InsertAt(s, i, c)) = Len(s) + 1
         /\ \A j \in 1 .. Len(s) + 1 :
               InsertAt(s, i, c)[j] =
                 IF j < i THEN s[j] ELSE IF j = i THEN c ELSE s[j - 1]
<1> DEFINE a == SubSeq(s, 1, i - 1)
           b == SubSeq(s, i, Len(s))
<1>1. a \in Seq(S) /\ Len(a) = i - 1 /\ \A j \in 1 .. i - 1 : a[j] = s[j]
  OBVIOUS
<1>2. /\ b \in Seq(S) /\ Len(b) = Len(s) - i + 1
      /\ \A j \in 1 .. Len(s) - i + 1 : b[j] = s[i + j - 1]
  OBVIOUS
<1>3. InsertAt(s, i, c) = a \o <<c>> \o b
  BY DEF InsertAt
<1>4. /\ <<c>> \in Seq(S) /\ Len(<<c>>) = 1 /\ <<c>>[1] = c
  OBVIOUS
<1> DEFINE m == <<c>>
<1> HIDE DEF a, b, m
<1>5. /\ a \o m \in Seq(S) /\ Len(a \o m) = i
      /\ \A j \in 1 .. i : (a \o m)[j] = IF j <= i - 1 THEN a[j] ELSE m[j - (i - 1)]
  BY <1>1, <1>4 DEF m
<1> DEFINE am == a \o m
<1> HIDE DEF am
<1>6. am \in Seq(S) /\ Len(am) = i
  BY <1>5 DEF am
<1>7. i + (Len(s) - i + 1) = Len(s) + 1
  OBVIOUS
<1> DEFINE t == am \o b
<1>8. /\ t \in Seq(S)
      /\ Len(t) = i + Len(b)
      /\ \A j \in 1 .. i + Len(b) : t[j] = IF j <= Len(am) THEN am[j] ELSE b[j - Len(am)]
  BY <1>2, <1>6
<1> HIDE DEF t
<1>9. /\ t \in Seq(S) /\ Len(t) = Len(s) + 1
      /\ \A j \in 1 .. Len(s) + 1 : t[j] = IF j <= i THEN am[j] ELSE b[j - i]
  BY <1>2, <1>6, <1>7, <1>8
<1>10. ASSUME NEW j \in 1 .. Len(s) + 1
       PROVE  t[j] = IF j < i THEN s[j] ELSE IF j = i THEN c ELSE s[j - 1]
  <2>1. CASE j < i
    BY <1>1, <1>5, <1>9, <2>1 DEF am
  <2>2. CASE j = i
    BY <1>4, <1>5, <1>9, <2>2 DEF am, m
  <2>3. CASE j > i
    <3>1. j - i \in 1 .. Len(s) - i + 1 /\ i + (j - i) - 1 = j - 1
      BY <2>3
    <3>2. b[j - i] = s[j - 1]
      BY <1>2, <3>1
    <3>3. QED
      BY <1>9, <2>3, <3>2
  <2>4. QED
    BY <2>1, <2>2, <2>3
<1>11. InsertAt(s, i, c) = t
  BY <1>3 DEF t, am, m
<1>12. QED
  BY <1>9, <1>10, <1>11

(* After inserting c, not in the list before, the list holds c and what it  *)
(* held, still without repetition.                                          *)
LEMMA InsertAtRange ==
  ASSUME NEW S, NEW s \in Seq(S), NEW c \in S, NEW i \in 1 .. Len(s) + 1,
         IsInjective(s), c \notin ToSet(s)
  PROVE  /\ ToSet(InsertAt(s, i, c)) = ToSet(s) \cup {c}
         /\ IsInjective(InsertAt(s, i, c))
<1> DEFINE t == InsertAt(s, i, c)
<1>1. /\ t \in Seq(S) /\ Len(t) = Len(s) + 1
      /\ \A j \in 1 .. Len(s) + 1 :
            t[j] = IF j < i THEN s[j] ELSE IF j = i THEN c ELSE s[j - 1]
  BY InsertAtElements
<1> HIDE DEF t
<1>2. \A j \in 1 .. Len(s) : s[j] \in ToSet(s) /\ s[j] # c
  BY DEF ToSet
<1>3. ToSet(t) \subseteq ToSet(s) \cup {c}
  BY <1>1, <1>2 DEF ToSet
<1>4. ToSet(s) \cup {c} \subseteq ToSet(t)
  <2>1. c = t[i] /\ i \in DOMAIN t
    BY <1>1
  <2>2. ASSUME NEW j \in 1 .. Len(s) PROVE \E k \in DOMAIN t : t[k] = s[j]
    <3>1. CASE j < i
      <4>1. t[j] = s[j] /\ j \in DOMAIN t
        BY <1>1, <3>1
      <4>2. QED
        BY <4>1
    <3>2. CASE j >= i
      <4>1. j + 1 \in 1 .. Len(s) + 1 /\ ~(j + 1 < i) /\ j + 1 # i /\ (j + 1) - 1 = j
        BY <3>2
      <4>2. t[j + 1] = s[j] /\ j + 1 \in DOMAIN t
        BY <1>1, <4>1
      <4>3. QED
        BY <4>2
    <3>3. QED
      BY <3>1, <3>2
  <2>3. QED
    BY <2>1, <2>2 DEF ToSet
<1>5. IsInjective(t)
  <2>1. \A j, k \in 1 .. Len(s) : s[j] = s[k] => j = k
    BY DEF IsInjective
  <2>2. DOMAIN t = 1 .. Len(s) + 1
    BY <1>1
  <2>3. SUFFICES ASSUME NEW j \in 1 .. Len(s) + 1, NEW k \in 1 .. Len(s) + 1, t[j] = t[k]
                 PROVE  j = k
    BY <2>2 DEF IsInjective
  <2>4. \A x \in 1 .. Len(s) + 1 : x < i => x \in 1 .. Len(s) /\ t[x] = s[x]
    BY <1>1
  <2>5. \A x \in 1 .. Len(s) + 1 : x > i => x - 1 \in 1 .. Len(s) /\ t[x] = s[x - 1]
    BY <1>1
  <2>6. t[i] = c
    BY <1>1
  <2>7. CASE j = i \/ k = i
    BY <1>2, <2>3, <2>4, <2>5, <2>6, <2>7
  <2>8. CASE j < i /\ k < i
    BY <2>1, <2>3, <2>4, <2>8
  <2>9. CASE j > i /\ k > i
    <3>1. s[j - 1] = s[k - 1] /\ j - 1 \in 1 .. Len(s) /\ k - 1 \in 1 .. Len(s)
      BY <2>3, <2>5, <2>9
    <3>2. j - 1 = k - 1
      BY <2>1, <3>1
    <3>3. QED
      BY <3>2
  <2>10. CASE j < i /\ k > i
    <3>1. s[j] = s[k - 1] /\ j \in 1 .. Len(s) /\ k - 1 \in 1 .. Len(s)
      BY <2>3, <2>4, <2>5, <2>10
    <3>2. j = k - 1
      BY <2>1, <3>1
    <3>3. QED
      BY <2>10, <3>2
  <2>11. CASE j > i /\ k < i
    <3>1. s[k] = s[j - 1] /\ k \in 1 .. Len(s) /\ j - 1 \in 1 .. Len(s)
      BY <2>3, <2>4, <2>5, <2>11
    <3>2. k = j - 1
      BY <2>1, <3>1
    <3>3. QED
      BY <2>11, <3>2
  <2>12. QED
    BY <2>7, <2>8, <2>9, <2>10, <2>11
<1>6. QED
  BY <1>3, <1>4, <1>5 DEF t

(* x is reached from itself, and what is reached is closed under children.  *)
LEMMA ReachedClosed ==
  ASSUME NEW ks \in [Inner -> Seq(Node)], NEW x \in Inner
  PROVE  /\ x \in Reached(ks, x) /\ Reached(ks, x) \subseteq Inner
         /\ Reached(ks, x) \ {x} \subseteq Node
         /\ \A y \in Reached(ks, x) : ToSet(ks[y]) \subseteq Reached(ks, x)
<1> DEFINE Closed == {S \in SUBSET Node : \A y \in S \cup {x} : ToSet(ks[y]) \subseteq S}
           R == {x} \cup {n \in Node : \A S \in Closed : n \in S}
<1>1. Reached(ks, x) = R
  BY DEF Reached
<1>2. ASSUME NEW y \in R, NEW n \in ToSet(ks[y]) PROVE n \in R
  <2>1. y \in Inner
    BY DEF Inner
  <2>2. n \in Node
    BY <1>2, <2>1 DEF ToSet
  <2>3. ASSUME NEW S \in Closed PROVE n \in S
    <3>1. y \in S \cup {x}
      OBVIOUS
    <3> QED BY <1>2, <3>1
  <2> QED BY <2>2, <2>3
<1> QED BY <1>1, <1>2 DEF Inner

(* What is closed under children and has those of x has all that is reached *)
(* from x.                                                                  *)
LEMMA ReachedLeast ==
  ASSUME NEW ks, NEW x, NEW S \in SUBSET Node,
         \A y \in S \cup {x} : ToSet(ks[y]) \subseteq S
  PROVE  Reached(ks, x) \subseteq S \cup {x}
BY DEF Reached

(* What is reached is reached through a parent.                             *)
LEMMA ReachedThrough ==
  ASSUME NEW ks \in [Inner -> Seq(Node)], NEW x \in Inner,
         NEW n \in Reached(ks, x), n # x
  PROVE  \E y \in Reached(ks, x) : n \in ToSet(ks[y])
<1> DEFINE R == Reached(ks, x)
           S == (R \cap Node) \ {n}
<1>1. /\ x \in R /\ R \subseteq Inner /\ R \ {x} \subseteq Node
      /\ \A y \in R : ToSet(ks[y]) \subseteq R
  BY ReachedClosed
<1>2. SUFFICES ASSUME \A y \in R : n \notin ToSet(ks[y]) PROVE FALSE
  OBVIOUS
<1>3. \A y \in Inner : ToSet(ks[y]) \subseteq Node
  BY DEF ToSet
<1> HIDE DEF R
<1>4. \A y \in S \cup {x} : ToSet(ks[y]) \subseteq S
  BY <1>1, <1>2, <1>3
<1>5. R \subseteq S \cup {x}
  <2>1. S \in SUBSET Node
    OBVIOUS
  <2> HIDE DEF S
  <2> QED BY <1>4, <2>1, ReachedLeast DEF R
<1>6. n \in R /\ n \notin S
  BY DEF R
<1> QED BY <1>5, <1>6

(* A new leaf m below p, which is reached from x.                           *)
NewLeaf(ks, ks2, x, p, m) ==
  /\ ks \in [Inner -> Seq(Node)] /\ ks2 \in [Inner -> Seq(Node)]
  /\ x \in Inner /\ p \in Reached(ks, x) /\ m \in Node /\ m # x /\ m # p
  /\ ToSet(ks[m]) = {} /\ ToSet(ks2[p]) = ToSet(ks[p]) \cup {m}
  /\ \A y \in Inner : y # p => ToSet(ks2[y]) = ToSet(ks[y])

LEMMA ReachedWithLeaf ==
  ASSUME NEW ks, NEW ks2, NEW x, NEW p, NEW m, NewLeaf(ks, ks2, x, p, m)
  PROVE  /\ Reached(ks2, x) \subseteq Reached(ks, x) \cup {m}
         /\ Reached(ks, x) \subseteq Reached(ks2, x)
         /\ m \in Reached(ks2, x)
<1> DEFINE R == Reached(ks, x)
           R2 == Reached(ks2, x)
<1>0. /\ ks \in [Inner -> Seq(Node)] /\ ks2 \in [Inner -> Seq(Node)]
      /\ x \in Inner /\ p \in R /\ m \in Node /\ m # x /\ m # p
      /\ ToSet(ks[m]) = {} /\ ToSet(ks2[p]) = ToSet(ks[p]) \cup {m}
      /\ \A y \in Inner : y # p => ToSet(ks2[y]) = ToSet(ks[y])
  BY DEF NewLeaf
<1>1. /\ x \in R /\ R \subseteq Inner /\ R \ {x} \subseteq Node
      /\ \A y \in R : ToSet(ks[y]) \subseteq R
  BY <1>0, ReachedClosed
<1>2. /\ x \in R2 /\ R2 \subseteq Inner /\ R2 \ {x} \subseteq Node
      /\ \A y \in R2 : ToSet(ks2[y]) \subseteq R2
  BY <1>0, ReachedClosed
<1>3. \A y \in Inner : ToSet(ks[y]) \subseteq Node /\ ToSet(ks2[y]) \subseteq Node
  BY <1>0 DEF ToSet
<1>4. m \in Inner
  BY <1>0 DEF Inner
<1> HIDE DEF R, R2
<1>5. R2 \subseteq R \cup {m}
  <2> DEFINE S == (R \cup {m}) \cap Node
  <2>1. \A y \in S \cup {x} : ToSet(ks2[y]) \subseteq S
    BY <1>0, <1>1, <1>3, <1>4
  <2>2. R2 \subseteq S \cup {x}
    <3>1. S \in SUBSET Node
      OBVIOUS
    <3> HIDE DEF S
    <3> QED BY <2>1, <3>1, ReachedLeast DEF R2
  <2> QED BY <1>1, <2>2
<1>6. R \subseteq R2
  <2> DEFINE S == R2 \cap Node
  <2>1. \A y \in S \cup {x} : ToSet(ks[y]) \subseteq S
    BY <1>0, <1>2, <1>3
  <2>2. R \subseteq S \cup {x}
    <3>1. S \in SUBSET Node
      OBVIOUS
    <3> HIDE DEF S
    <3> QED BY <2>1, <3>1, ReachedLeast DEF R
  <2> QED BY <1>2, <2>2
<1>7. m \in R2
  BY <1>0, <1>1, <1>2, <1>6
<1> QED BY <1>5, <1>6, <1>7 DEF R, R2

-----------------------------------------------------------------------------
(***************************************************************************)
(* The forest                                                               *)
(***************************************************************************)

(* A new node at place i of x, in terms of the maps.                        *)
LEMMA AddedMaps ==
  ASSUME TypeOK, TreeOK, MayAllocate, NEW x \in Exists \cup Document,
         NEW i \in 1 .. Len(kids[x]) + 1, NEW c \in Name, Added(x, i, c)
  PROVE  LET m == NewNode
         IN  /\ m \in Node /\ m \notin Exists /\ m # x /\ kids[m] = << >>
             /\ name' = [name EXCEPT ![m] = c]
             /\ up' = [up EXCEPT ![m] = x]
             /\ kids' = [kids EXCEPT ![x] = InsertAt(kids[x], i, m)]
             /\ Exists' = Exists \cup {m}
             /\ kids' \in [Inner -> Seq(Node)]
             /\ Len(kids'[x]) = Len(kids[x]) + 1
             /\ \A j \in 1 .. Len(kids[x]) + 1 :
                   kids'[x][j] = IF j < i THEN kids[x][j]
                                 ELSE IF j = i THEN m ELSE kids[x][j - 1]
             /\ IsInjective(kids'[x])
             /\ \A y \in Inner : y # x => kids'[y] = kids[y]
             /\ \A y \in Inner :
                   ToSet(kids'[y]) = ToSet(kids[y]) \cup (IF y = x THEN {m} ELSE {})
<1> DEFINE m == NewNode
           s == kids[x]
           t == InsertAt(s, i, m)
<1>1. m \in Node /\ m \notin Exists
  <2>1. Exists \subseteq Node
    BY DEF Exists
  <2>2. \E n \in Node : n \notin Exists
    BY <2>1 DEF MayAllocate
  <2> QED BY <2>2 DEF NewNode
<1>2. x \in Inner /\ s \in Seq(Node) /\ m \in Inner
  BY <1>1 DEF TypeOK, Inner, Exists
<1>3. m # x /\ up[m] = Nil
  BY <1>1, CopyAssumption DEF Inner, TreeOK
<1>4. IsInjective(s) /\ ToSet(s) = {n \in Node : up[n] = x}
  BY <1>2 DEF TreeOK
<1>5. m \notin ToSet(s)
  BY <1>2, <1>3, <1>4, CopyAssumption
<1>6. ToSet(kids[m]) = {}
  <2>1. ToSet(kids[m]) = {n \in Node : up[n] = m}
    BY <1>2 DEF TreeOK
  <2>2. ASSUME NEW n \in Node, up[n] = m PROVE FALSE
    BY <1>1, <2>2, CopyAssumption DEF TreeOK, Inner
  <2> QED BY <2>1, <2>2
<1>7. kids[m] = << >>
  <2>1. kids[m] \in Seq(Node)
    BY <1>2 DEF TypeOK
  <2>2. kids[m] # << >> => kids[m][1] \in ToSet(kids[m])
    BY <2>1 DEF ToSet
  <2> QED BY <1>6, <2>2
<1>8. /\ name' = [name EXCEPT ![m] = c] /\ up' = [up EXCEPT ![m] = x]
      /\ kids' = [kids EXCEPT ![x] = t]
  BY DEF Added
<1>9. Exists' = Exists \cup {m}
  <2>1. name' = [name EXCEPT ![m] = c] /\ c # Nil /\ name \in [Node -> Name \cup {Nil}]
    BY <1>8, CopyAssumption DEF TypeOK
  <2> HIDE DEF m
  <2> QED BY <1>1, <2>1 DEF Exists
<1> HIDE DEF m
<1>10. /\ t \in Seq(Node) /\ Len(t) = Len(s) + 1
       /\ \A j \in 1 .. Len(s) + 1 :
             t[j] = IF j < i THEN s[j] ELSE IF j = i THEN m ELSE s[j - 1]
  <2>1. s \in Seq(Node) /\ m \in Node /\ i \in 1 .. Len(s) + 1
    BY <1>1, <1>2
  <2> HIDE DEF s
  <2> QED BY <2>1, InsertAtElements
<1>11. ToSet(t) = ToSet(s) \cup {m} /\ IsInjective(t)
  BY <1>1, <1>2, <1>4, <1>5, InsertAtRange
<1> HIDE DEF t
<1>12. /\ kids' \in [Inner -> Seq(Node)] /\ kids'[x] = t
       /\ \A y \in Inner : y # x => kids'[y] = kids[y]
  BY <1>2, <1>8, <1>10 DEF TypeOK
<1>13. \A y \in Inner :
          ToSet(kids'[y]) = ToSet(kids[y]) \cup (IF y = x THEN {m} ELSE {})
  BY <1>11, <1>12
<1> QED BY <1>1, <1>3, <1>7, <1>8, <1>9, <1>10, <1>11, <1>12, <1>13 DEF m, t

(* It leaves a forest.                                                      *)
LEMMA AddedKeepsTree ==
  ASSUME TypeOK, TreeOK, MayAllocate, NEW x \in Exists \cup Document,
         NEW i \in 1 .. Len(kids[x]) + 1, NEW c \in Name, Added(x, i, c)
  PROVE  TreeOK' /\ name' \in [Node -> Name \cup {Nil}] /\ up' \in [Node -> Inner \cup {Nil}]
<1> DEFINE m == NewNode
<1>1. /\ m \in Node /\ m \notin Exists /\ m # x /\ kids[m] = << >>
      /\ name' = [name EXCEPT ![m] = c]
      /\ up' = [up EXCEPT ![m] = x]
      /\ Exists' = Exists \cup {m}
      /\ IsInjective(kids'[x])
      /\ \A y \in Inner : y # x => kids'[y] = kids[y]
      /\ \A y \in Inner :
            ToSet(kids'[y]) = ToSet(kids[y]) \cup (IF y = x THEN {m} ELSE {})
  BY AddedMaps
<1> HIDE DEF m
<1>2. x \in Inner
  BY DEF Inner, Exists
<1>3. up' \in [Node -> Inner \cup {Nil}] /\ up'[m] = x /\ \A n \in Node : n # m => up'[n] = up[n]
  BY <1>1, <1>2 DEF TypeOK
<1>4. name' \in [Node -> Name \cup {Nil}]
  BY <1>1 DEF TypeOK
<1>5. up[m] = Nil /\ Nil \notin Inner
  BY <1>1, CopyAssumption DEF TreeOK
<1>6. ASSUME NEW y \in Inner
      PROVE  IsInjective(kids'[y]) /\ ToSet(kids'[y]) = {n \in Node : up'[n] = y}
  <2>1. IsInjective(kids[y]) /\ ToSet(kids[y]) = {n \in Node : up[n] = y}
    BY DEF TreeOK
  <2>2. CASE y = x
    BY <1>1, <1>3, <1>5, <2>1, <2>2
  <2>3. CASE y # x
    BY <1>1, <1>3, <1>5, <2>1, <2>3
  <2> QED BY <2>2, <2>3
<1>7. ASSUME NEW n \in Node
      PROVE  IF n \in Exists' THEN up'[n] \in Exists' \cup Document ELSE up'[n] = Nil
  <2>1. IF n \in Exists THEN up[n] \in Exists \cup Document ELSE up[n] = Nil
    BY DEF TreeOK
  <2> QED BY <1>1, <1>3, <2>1
<1>8. ASSUME NEW S \in SUBSET Node, S # {} PROVE \E n \in S : up'[n] \notin S
  <2>1. CASE S = {m}
    BY <1>1, <1>3, <2>1
  <2>2. CASE S # {m}
    <3>1. S \ {m} # {}
      BY <1>8, <2>2
    <3>2. PICK n \in S \ {m} : up[n] \notin S \ {m}
      BY <3>1 DEF TreeOK
    <3>3. up[n] # m
      <4>1. IF n \in Exists THEN up[n] \in Exists \cup Document ELSE up[n] = Nil
        BY DEF TreeOK
      <4> QED BY <1>1, <1>5, <4>1, CopyAssumption DEF Inner
    <3> QED BY <1>3, <3>2, <3>3
  <2> QED BY <2>1, <2>2
<1> QED BY <1>3, <1>4, <1>6, <1>7, <1>8 DEF TreeOK

(* What is below anything in use is in use.                                 *)
LEMMA BelowIsInUse ==
  ASSUME TypeOK, TreeOK, NEW x \in Exists \cup Document
  PROVE  Subtree(x) \subseteq Exists \cup {x}
<1>1. Exists \subseteq Node /\ x \in Inner
  BY DEF Exists, Inner
<1>2. ASSUME NEW y \in Exists \cup {x}, NEW n \in ToSet(kids[y]) PROVE n \in Exists
  <2>1. y \in Inner
    BY <1>1 DEF Inner
  <2>2. n \in Node /\ up[n] = y
    BY <1>2, <2>1 DEF TreeOK
  <2>3. up[n] # Nil
    BY <2>1, <2>2, CopyAssumption
  <2> QED BY <2>2, <2>3 DEF TreeOK
<1>3. Exists \in SUBSET Node /\ \A y \in Exists \cup {x} : ToSet(kids[y]) \subseteq Exists
  BY <1>1, <1>2
<1> QED BY <1>3, ReachedLeast DEF Subtree

-----------------------------------------------------------------------------
(***************************************************************************)
(* The original                                                             *)
(***************************************************************************)

(* The original is closed under the children it had.                        *)
LEMMA OriginalIs ==
  ASSUME CallOK
  PROVE  /\ sn \in Inner /\ dn \in Inner /\ sn \in Original
         /\ Original \subseteq Inner /\ Original \ {sn} \subseteq Node
         /\ \A y \in Original : ToSet(before.kids[y]) \subseteq Original
         /\ \A y \in Original : before.kids[y] \in Seq(Node)
<1>1. sn \in Inner /\ dn \in Inner /\ before.kids \in [Inner -> Seq(Node)]
  BY DEF CallOK, Exists, Inner
<1> QED BY <1>1, ReachedClosed DEF Original

(* It still has them, in the same order, and the copy perhaps.              *)
Embeds(g, y) ==
  /\ g \in [DOMAIN before.kids[y] -> DOMAIN kids[y]]
  /\ \A i \in DOMAIN before.kids[y] : kids[y][g[i]] = before.kids[y][i]
  /\ \A i, j \in DOMAIN before.kids[y] : i < j => g[i] < g[j]
  /\ \A j \in DOMAIN kids[y] :
       kids[y][j] = dn \/ \E i \in DOMAIN before.kids[y] : g[i] = j

LEMMA KeptEmbeds ==
  ASSUME TypeOK, CallOK, NEW y \in Original
  PROVE  \E g : Embeds(g, y)
<1> DEFINE b == before.kids[y]
           k == kids[y]
<1>1. /\ b \in Seq(Node) /\ y \in Inner /\ dn \in Inner /\ k \in Seq(Node)
  BY OriginalIs DEF TypeOK
<1>2. k = b \/ \E i \in 1 .. Len(b) + 1 : k = InsertAt(b, i, dn)
  BY DEF CallOK, Kept
<1>3. SUFFICES \E g : /\ g \in [DOMAIN b -> DOMAIN k]
                      /\ \A i \in DOMAIN b : k[g[i]] = b[i]
                      /\ \A i, j \in DOMAIN b : i < j => g[i] < g[j]
                      /\ \A j \in DOMAIN k : k[j] = dn \/ \E i \in DOMAIN b : g[i] = j
  BY DEF Embeds
<1> HIDE DEF b, k
<1>4. DOMAIN b = 1 .. Len(b) /\ Len(b) \in Nat /\ DOMAIN k = 1 .. Len(k)
  BY <1>1
<1>5. CASE k = b
  <2> DEFINE g == [i \in DOMAIN b |-> i]
  <2>1. /\ g \in [DOMAIN b -> DOMAIN k] /\ \A i \in DOMAIN b : k[g[i]] = b[i]
        /\ \A i, j \in DOMAIN b : i < j => g[i] < g[j]
        /\ \A j \in DOMAIN k : k[j] = dn \/ \E i \in DOMAIN b : g[i] = j
    BY <1>5
  <2> QED BY <2>1
<1>6. ASSUME NEW p \in 1 .. Len(b) + 1, k = InsertAt(b, p, dn)
      PROVE  \E g : /\ g \in [DOMAIN b -> DOMAIN k]
                    /\ \A i \in DOMAIN b : k[g[i]] = b[i]
                    /\ \A i, j \in DOMAIN b : i < j => g[i] < g[j]
                    /\ \A j \in DOMAIN k : k[j] = dn \/ \E i \in DOMAIN b : g[i] = j
  <2> DEFINE g == [i \in DOMAIN b |-> IF i < p THEN i ELSE i + 1]
  <2>1. b \in Seq(Inner)
    BY <1>1 DEF Inner
  <2>2. /\ Len(k) = Len(b) + 1
        /\ \A j \in 1 .. Len(b) + 1 :
              k[j] = IF j < p THEN b[j] ELSE IF j = p THEN dn ELSE b[j - 1]
    <3>1. p \in 1 .. Len(b) + 1 /\ dn \in Inner
      BY <1>1, <1>6
    <3>2. /\ Len(InsertAt(b, p, dn)) = Len(b) + 1
          /\ \A j \in 1 .. Len(b) + 1 :
                InsertAt(b, p, dn)[j] =
                  IF j < p THEN b[j] ELSE IF j = p THEN dn ELSE b[j - 1]
      BY <2>1, <3>1, InsertAtElements
    <3> QED BY <1>6, <3>2
  <2>3. \A i \in DOMAIN b : g[i] \in DOMAIN k /\ k[g[i]] = b[i]
    BY <1>4, <2>2
  <2>4. \A i, j \in DOMAIN b : i < j => g[i] < g[j]
    BY <1>4
  <2>5. ASSUME NEW j \in DOMAIN k
        PROVE  k[j] = dn \/ \E i \in DOMAIN b : g[i] = j
    <3>1. CASE j < p
      <4>1. j \in DOMAIN b /\ g[j] = j
        BY <1>4, <2>2, <3>1
      <4> QED BY <4>1
    <3>2. CASE j = p
      BY <1>4, <2>2, <3>2
    <3>3. CASE j > p
      <4>1. j - 1 \in DOMAIN b /\ ~(j - 1 < p) /\ (j - 1) + 1 = j
        BY <1>4, <2>2, <3>3
      <4>2. g[j - 1] = j
        BY <4>1
      <4> QED BY <4>1, <4>2
    <3> QED BY <1>4, <3>1, <3>2, <3>3
  <2>6. g \in [DOMAIN b -> DOMAIN k]
    BY <2>3
  <2> HIDE DEF g
  <2> QED BY <2>3, <2>4, <2>5, <2>6
<1> QED BY <1>2, <1>5, <1>6

LEMMA KeptMembers ==
  ASSUME TypeOK, CallOK, NEW y \in Original
  PROVE  /\ ToSet(before.kids[y]) \subseteq ToSet(kids[y])
         /\ ToSet(kids[y]) \subseteq ToSet(before.kids[y]) \cup {dn}
<1>1. PICK g : Embeds(g, y)
  BY KeptEmbeds
<1>2. /\ \A i \in DOMAIN before.kids[y] : g[i] \in DOMAIN kids[y] /\ kids[y][g[i]] = before.kids[y][i]
      /\ \A j \in DOMAIN kids[y] :
           kids[y][j] = dn \/ \E i \in DOMAIN before.kids[y] : g[i] = j
  BY <1>1 DEF Embeds
<1> QED BY <1>2 DEF ToSet

(* A node of the original below its root has its parent in the original.    *)
LEMMA UpInOriginal ==
  ASSUME TypeOK, TreeOK, CallOK, NEW n \in Original, n # sn
  PROVE  n \in Node /\ up[n] \in Original
<1>1. sn \in Inner /\ before.kids \in [Inner -> Seq(Node)]
  BY OriginalIs DEF CallOK
<1>2. PICK y \in Original : n \in ToSet(before.kids[y])
  BY <1>1, ReachedThrough DEF Original
<1>3. n \in ToSet(kids[y]) /\ y \in Inner
  BY <1>2, KeptMembers, OriginalIs
<1> QED BY <1>3 DEF TreeOK

(* The root of the original is not below it.                                *)
LEMMA RootOutside ==
  ASSUME TypeOK, TreeOK, CallOK, sn \in Node
  PROVE  up[sn] \notin Original
<1>1. SUFFICES ASSUME up[sn] \in Original PROVE FALSE
  OBVIOUS
<1>2. \A n \in Original : n \in Node /\ up[n] \in Original
  BY <1>1, UpInOriginal
<1>3. Original \in SUBSET Node /\ Original # {}
  BY <1>2, OriginalIs
<1> QED BY <1>2, <1>3 DEF TreeOK

LEMMA OriginalBelowRoot ==
  ASSUME TypeOK, CallOK
  PROVE  Original \subseteq Subtree(sn)
<1> DEFINE S == Original \cap Subtree(sn) \cap Node
<1>1. sn \in Inner /\ kids \in [Inner -> Seq(Node)]
  BY OriginalIs DEF TypeOK
<1>2. /\ sn \in Subtree(sn) /\ \A y \in Subtree(sn) : ToSet(kids[y]) \subseteq Subtree(sn)
  BY <1>1, ReachedClosed DEF Subtree
<1>3. ASSUME NEW y \in S \cup {sn}, NEW n \in ToSet(before.kids[y]) PROVE n \in S
  <2>1. y \in Original /\ y \in Subtree(sn)
    BY <1>2, OriginalIs
  <2>2. n \in Original /\ n \in Subtree(sn)
    BY <1>2, <1>3, <2>1, KeptMembers, OriginalIs
  <2>3. before.kids[y] \in Seq(Node)
    BY <2>1, OriginalIs
  <2>4. n \in Node
    BY <1>3, <2>3 DEF ToSet
  <2> QED BY <2>2, <2>4
<1>4. S \in SUBSET Node /\ \A y \in S \cup {sn} : ToSet(before.kids[y]) \subseteq S
  BY <1>3
<1> HIDE DEF S
<1>5. Original \subseteq S \cup {sn}
  BY <1>4, ReachedLeast DEF Original
<1> QED BY <1>2, <1>5 DEF S

-----------------------------------------------------------------------------
(***************************************************************************)
(* What the invariant says                                                  *)
(***************************************************************************)

LEMMA PointersStayTogether == CopyInv => LoopInvariant
<1> SUFFICES ASSUME CopyInv PROVE LoopInvariant
  OBVIOUS
<1>1. CASE Idle
  BY <1>1 DEF LoopInvariant, Walking
<1>2. CASE ~Idle /\ sit = Nil
  BY <1>2 DEF LoopInvariant, Walking
<1>3. CASE ~Idle /\ sit # Nil
  <2>1. TypeOK /\ TreeOK /\ CallOK /\ WalkOK
    BY <1>3 DEF CopyInv
  <2>2. /\ Original \cap Subtree(dn) = {}
        /\ \E V, P \in SUBSET Inner : \E t \in [Inner -> Inner], pos \in [Inner -> Nat] :
             Walk(V, P, t, pos)
    BY <1>3, <2>1 DEF WalkOK
  <2>3. PICK V \in SUBSET Inner, P \in SUBSET Inner, t \in [Inner -> Inner], pos \in [Inner -> Nat] :
          Walk(V, P, t, pos)
    BY <2>2
  <2>4. Twins(V, t) /\ Path(V, P, t, pos)
    BY <2>3 DEF Walk
  <2>5. CASE sit = sn
    BY <1>3, <2>4, <2>5 DEF LoopInvariant, Walking, Path
  <2>6. CASE sit # sn
    <3>1. /\ sit \in Node /\ sit \in Original \cup {dn} /\ up[sit] \in V
          /\ dit = t[up[sit]] /\ V \subseteq Original
      BY <2>4, <2>6 DEF Path, Twins
    <3>2. dit \in Subtree(dn)
      BY <2>4, <3>1 DEF Twins
    <3>3. sit \notin Subtree(dn) \ {dn}
      BY <2>2, <3>1
    <3>4. up[sit] \in Subtree(sn) /\ up[sit] \in Inner
      BY <2>1, <3>1, OriginalBelowRoot, OriginalIs
    <3>5. sit \in ToSet(kids[up[sit]])
      BY <2>1, <3>1, <3>4 DEF TreeOK
    <3>6. \A y \in Subtree(sn) : ToSet(kids[y]) \subseteq Subtree(sn)
      BY <2>1, OriginalIs, ReachedClosed DEF TypeOK, Subtree
    <3>7. sit \in Subtree(sn)
      BY <3>4, <3>5, <3>6
    <3> QED BY <2>6, <3>2, <3>3, <3>7 DEF LoopInvariant, Walking
  <2> QED BY <2>5, <2>6
<1> QED BY <1>1, <1>2, <1>3

LEMMA CopyIsOriginal == CopyInv => CopyIsExact
<1> SUFFICES ASSUME CopyInv, ~Idle PROVE CopyIsExact
  BY DEF CopyIsExact
<1>1. TypeOK /\ TreeOK /\ CallOK /\ WalkOK
  BY DEF CopyInv
<1>2. \A y \in Original : Kept(y)
  BY <1>1 DEF CallOK
<1>3. /\ sn \in Inner /\ dn \in Inner /\ sn \in Original
      /\ Original \subseteq Inner /\ Original \ {sn} \subseteq Node
      /\ \A y \in Original : ToSet(before.kids[y]) \subseteq Original
      /\ \A y \in Original : before.kids[y] \in Seq(Node)
  BY <1>1, OriginalIs
<1>4. dn \in Subtree(dn) /\ Subtree(dn) \subseteq Inner
  BY <1>1, <1>3, ReachedClosed DEF Subtree, TypeOK
<1>5. ASSUME ~Walking, complete
      PROVE  \E f \in [Original -> Subtree(dn)] : IsCopy(f)
  <2>1. CASE sit = Nil
    <3>1. kids[sn] = << >> /\ kids[dn] = << >> /\ before.kids[sn] = << >>
      BY <1>1, <2>1 DEF WalkOK
    <3>2. Original \subseteq {} \cup {sn}
      <4>1. \A y \in {} \cup {sn} : ToSet(before.kids[y]) \subseteq {}
        BY <3>1 DEF ToSet
      <4> QED BY <4>1, ReachedLeast DEF Original
    <3> DEFINE f == [y \in Original |-> dn]
    <3>3. f \in [Original -> Subtree(dn)] /\ f[sn] = dn
      BY <1>3, <1>4
    <3>4. ASSUME NEW y \in Original
          PROVE  /\ y \in Node /\ f[y] \in Node => name[f[y]] = before.name[y]
                 /\ kids[f[y]] = [i \in DOMAIN before.kids[y] |-> f[before.kids[y][i]]]
      <4>1. y = sn
        BY <3>2
      <4>2. y \in Node => name[y] = before.name[y]
        BY <1>2 DEF Kept
      <4>3. sn \in Node /\ dn \in Node => name[dn] = name[sn]
        BY <1>1 DEF CallOK
      <4>4. DOMAIN before.kids[y] = {}
        BY <3>1, <4>1
      <4>5. [i \in DOMAIN before.kids[y] |-> f[before.kids[y][i]]] = << >>
        BY <4>4
      <4> QED BY <3>1, <4>1, <4>2, <4>3, <4>5
    <3> HIDE DEF f
    <3> QED BY <3>3, <3>4 DEF IsCopy
  <2>2. CASE sit # Nil
    <3>1. sit = sn
      BY <1>5, <2>2 DEF Walking
    <3>2. PICK V \in SUBSET Inner, P \in SUBSET Inner, t \in [Inner -> Inner], pos \in [Inner -> Nat] :
            Walk(V, P, t, pos)
      BY <1>1, <2>2 DEF WalkOK
    <3>3. Original \cap Subtree(dn) = {}
      BY <1>1, <2>2 DEF WalkOK
    <3>4. Twins(V, t) /\ Path(V, P, t, pos) /\ Exact(V, P, t, pos)
      BY <1>5, <3>2 DEF Walk
    <3>5. P = {} /\ sn \in V /\ V \subseteq Original /\ t[sn] = dn
      BY <3>1, <3>4 DEF Path, Twins
    <3>6. ASSUME NEW y \in V PROVE ToSet(before.kids[y]) \subseteq V
      <4>1. y \in Original
        BY <3>5
      <4>2. \A i \in DOMAIN kids[y] : kids[y][i] \in V \cup {dn}
        BY <3>4, <3>5 DEF Exact, Passed
      <4>3. dn \notin Original
        BY <1>4, <3>3
      <4>4. ToSet(before.kids[y]) \subseteq ToSet(kids[y]) /\ ToSet(before.kids[y]) \subseteq Original
        BY <1>1, <1>3, <4>1, KeptMembers
      <4> QED BY <4>2, <4>3, <4>4 DEF ToSet
    <3>7. Original \subseteq V
      <4> DEFINE S == V \cap Node
      <4>1. \A y \in V : ToSet(before.kids[y]) \subseteq Node
        BY <1>3, <3>5 DEF ToSet
      <4>2. S \in SUBSET Node /\ \A y \in S \cup {sn} : ToSet(before.kids[y]) \subseteq S
        BY <3>5, <3>6, <4>1
      <4> HIDE DEF S
      <4>3. Original \subseteq S \cup {sn}
        BY <4>2, ReachedLeast DEF Original
      <4> QED BY <3>5, <4>3 DEF S
    <3> DEFINE f == [y \in Original |-> t[y]]
    <3>8. f \in [Original -> Subtree(dn)] /\ f[sn] = dn
      BY <1>3, <3>4, <3>5, <3>7 DEF Twins
    <3>9. ASSUME NEW y \in Original
          PROVE  /\ y \in Node /\ f[y] \in Node => name[f[y]] = before.name[y]
                 /\ kids[f[y]] = [i \in DOMAIN before.kids[y] |-> f[before.kids[y][i]]]
      <4> DEFINE b == before.kids[y]
                 k == kids[t[y]]
      <4>1. y \in V /\ f[y] = t[y]
        BY <3>7
      <4>2. y \in Node => name[y] = before.name[y]
        BY <1>2 DEF Kept
      <4>3. y \in Node /\ t[y] \in Node => name[t[y]] = name[y]
        BY <3>4, <4>1 DEF Twins
      <4>4. b \in Seq(Node) /\ k \in Seq(Node) /\ ToSet(b) \subseteq Original
        BY <1>1, <1>3 DEF TypeOK
      <4>5. /\ Len(k) <= Len(b)
            /\ \A i \in DOMAIN b : IF i <= Len(k) THEN b[i] \in V /\ k[i] = t[b[i]]
                                   ELSE b[i] \notin V
        BY <3>4, <4>1 DEF Exact
      <4>6. \A i \in DOMAIN b : b[i] \in Original
        BY <4>4 DEF ToSet
      <4> HIDE DEF b, k
      <4>7. DOMAIN b = 1 .. Len(b) /\ DOMAIN k = 1 .. Len(k) /\ Len(b) \in Nat /\ Len(k) \in Nat
        BY <4>4
      <4>8. Len(k) = Len(b)
        <5>1. ASSUME Len(k) < Len(b) PROVE FALSE
          <6>1. Len(b) \in DOMAIN b /\ ~(Len(b) <= Len(k))
            BY <4>7, <5>1
          <6>2. b[Len(b)] \notin V
            BY <4>5, <6>1
          <6> QED BY <3>7, <4>6, <6>1, <6>2
        <5>2. Len(k) <= Len(b) /\ Len(k) \in Nat /\ Len(b) \in Nat
          BY <4>5, <4>7
        <5> QED BY <5>1, <5>2
      <4>9. k = [i \in DOMAIN b |-> f[b[i]]]
        <5>1. \A i \in DOMAIN b : k[i] = f[b[i]]
          BY <4>5, <4>6, <4>7, <4>8
        <5>2. DOMAIN k = DOMAIN b /\ k = [i \in DOMAIN k |-> k[i]]
          BY <4>4, <4>7, <4>8
        <5> HIDE DEF f
        <5> QED BY <5>1, <5>2
      <4> QED BY <4>1, <4>2, <4>3, <4>9 DEF b, k
    <3> HIDE DEF f
    <3> QED BY <3>8, <3>9 DEF IsCopy
  <2> QED BY <2>1, <2>2
<1> QED BY <1>2, <1>5 DEF CopyIsExact

-----------------------------------------------------------------------------
(***************************************************************************)
(* The walk                                                                 *)
(***************************************************************************)

(* A child exists, is below its parent and is not its own.                  *)
LEMMA ChildIs ==
  ASSUME TypeOK, TreeOK, NEW y \in Inner, NEW j \in DOMAIN kids[y]
  PROVE  /\ kids[y][j] \in Exists /\ kids[y][j] \in Node
         /\ up[kids[y][j]] = y /\ kids[y][j] # y
<1> DEFINE n == kids[y][j]
<1>1. n \in ToSet(kids[y])
  BY DEF ToSet
<1>2. n \in Node /\ up[n] = y
  BY <1>1 DEF TreeOK
<1>3. n \in Exists
  BY <1>2, CopyAssumption DEF TreeOK
<1>4. n # y
  <2>1. {n} \in SUBSET Node /\ {n} # {}
    BY <1>2
  <2>2. \E k \in {n} : up[k] \notin {n}
    BY <2>1 DEF TreeOK
  <2> QED BY <1>2, <2>2
<1> QED BY <1>2, <1>3, <1>4

(* The children of the original are in it, apart from the copy.             *)
LEMMA ChildOfOriginal ==
  ASSUME TypeOK, TreeOK, CallOK, NEW y \in Original, NEW j \in DOMAIN kids[y]
  PROVE  kids[y][j] \in Original \cup {dn} /\ kids[y][j] # sn
<1>1. y \in Inner
  BY OriginalIs
<1>2. kids[y][j] \in ToSet(kids[y])
  BY DEF ToSet
<1>3. kids[y][j] \in Original \cup {dn}
  BY <1>2, KeptMembers, OriginalIs
<1>4. kids[y][j] \in Node /\ up[kids[y][j]] = y
  BY <1>1, ChildIs
<1>5. kids[y][j] # sn
  BY <1>4, RootOutside
<1> QED BY <1>3, <1>5

(* Where sit is on its way.                                                 *)
LEMMA SitIs ==
  ASSUME TypeOK, TreeOK, CallOK, sit # sn, NEW V, NEW P, NEW t, NEW pos,
         Twins(V, t), Path(V, P, t, pos)
  PROVE  /\ sit \in Node /\ up[sit] \in P /\ up[sit] \in V /\ up[sit] \in Original
         /\ up[sit] \in Inner /\ up[sit] # sit
         /\ pos[up[sit]] \in DOMAIN kids[up[sit]] /\ kids[up[sit]][pos[up[sit]]] = sit
         /\ \A j \in DOMAIN kids[up[sit]] : kids[up[sit]][j] = sit => j = pos[up[sit]]
<1>1. /\ sit \in Node /\ up[sit] \in P /\ up[sit] \in V /\ up[sit] \in Original
      /\ pos[up[sit]] \in DOMAIN kids[up[sit]] /\ kids[up[sit]][pos[up[sit]]] = sit
  BY DEF Twins, Path
<1>2. up[sit] \in Inner
  BY <1>1, OriginalIs
<1>3. up[sit] # sit
  BY <1>1, <1>2, ChildIs
<1>4. \A j \in DOMAIN kids[up[sit]] : kids[up[sit]][j] = sit => j = pos[up[sit]]
  BY <1>1, <1>2 DEF TreeOK, IsInjective
<1> QED BY <1>1, <1>2, <1>3, <1>4

(* next_sibling is what follows in the list.                                *)
LEMMA NextIs ==
  ASSUME TypeOK, TreeOK, CallOK, sit # sn, NEW V, NEW P, NEW t, NEW pos,
         Twins(V, t), Path(V, P, t, pos)
  PROVE  LET ks == kids[up[sit]]
             i == pos[up[sit]]
         IN  /\ ks \in Seq(Node) /\ i \in 1 .. Len(ks)
             /\ NextOf(sit) = IF i = Len(ks) THEN Nil ELSE ks[i + 1]
             /\ NextOf(sit) = Nil <=> i = Len(ks)
<1> DEFINE ks == kids[up[sit]]
           i == pos[up[sit]]
<1>1. /\ up[sit] \in Inner /\ i \in DOMAIN ks /\ ks[i] = sit
      /\ \A j \in DOMAIN ks : ks[j] = sit => j = i
  BY SitIs
<1>2. ks \in Seq(Node) /\ DOMAIN ks = 1 .. Len(ks)
  BY <1>1 DEF TypeOK
<1>3. (CHOOSE j \in DOMAIN ks : ks[j] = sit) = i
  BY <1>1
<1>4. NextOf(sit) = IF i = Len(ks) THEN Nil ELSE ks[i + 1]
  <2> DEFINE c == CHOOSE j \in DOMAIN ks : ks[j] = sit
  <2>1. NextOf(sit) = IF c = Len(ks) THEN Nil ELSE ks[c + 1]
    BY Zenon DEF NextOf
  <2>2. c = i
    BY <1>3
  <2> HIDE DEF c
  <2> QED BY <2>1, <2>2
<1>5. i # Len(ks) => ks[i + 1] \in Node
  BY <1>1, <1>2
<1>6. Nil \notin Node
  BY CopyAssumption DEF Inner
<1> QED BY <1>1, <1>2, <1>4, <1>5, <1>6

(* The walk begins at the first child.                                      *)
WalkStart ==
  /\ TypeOK /\ TreeOK /\ CallOK
  /\ ~onward /\ dit = dn /\ sit = First(sn)
  /\ kids[dn] = << >>
  /\ kids[sn] # << >> => dn \notin Original

LEMMA WalkBegins == WalkStart => WalkOK
<1> SUFFICES ASSUME WalkStart PROVE WalkOK
  OBVIOUS
<1> USE DEF WalkStart
<1>1. /\ sn \in Inner /\ dn \in Inner /\ sn \in Original
      /\ kids[sn] \in Seq(Node) /\ Nil \notin Node
  BY OriginalIs, CopyAssumption DEF TypeOK, Inner
<1>2. CASE kids[sn] = << >>
  <2>1. sit = Nil
    BY <1>2 DEF First
  <2>2. ToSet(before.kids[sn]) = {}
    <3>1. ToSet(kids[sn]) = {}
      BY <1>2 DEF ToSet
    <3> QED BY <1>1, <3>1, KeptMembers
  <2>3. before.kids[sn] = << >>
    <3>1. before.kids[sn] \in Seq(Node)
      BY <1>1, OriginalIs
    <3> DEFINE b == before.kids[sn]
    <3>2. \A i \in DOMAIN b : b[i] \in ToSet(b)
      BY DEF ToSet
    <3>3. 1 \notin DOMAIN b /\ b \in Seq(Node)
      BY <2>2, <3>1, <3>2
    <3> HIDE DEF b
    <3>4. b = << >>
      BY <3>3
    <3> QED BY <3>4 DEF b
  <2> QED BY <1>2, <2>1, <2>3 DEF WalkOK
<1>3. CASE kids[sn] # << >>
  <2>1. 1 \in DOMAIN kids[sn] /\ sit = kids[sn][1]
    BY <1>1, <1>3 DEF First
  <2>2. /\ sit \in Node /\ up[sit] = sn /\ sit # sn /\ sit # Nil
        /\ sit \in Original \cup {dn}
    BY <1>1, <2>1, ChildIs, ChildOfOriginal
  <2>3. Subtree(dn) = {dn}
    <3>1. \A y \in {} \cup {dn} : ToSet(kids[y]) \subseteq {}
      BY DEF ToSet
    <3>2. Subtree(dn) \subseteq {} \cup {dn}
      BY <3>1, ReachedLeast DEF Subtree
    <3> QED BY <1>1, <3>2, ReachedClosed DEF Subtree, TypeOK
  <2>4. Original \cap Subtree(dn) = {}
    BY <1>3, <2>3
  <2> DEFINE V == {sn}
             t == [y \in Inner |-> dn]
             pos == [y \in Inner |-> 1]
  <2>5. /\ V \in SUBSET Inner /\ t \in [Inner -> Inner] /\ pos \in [Inner -> Nat]
        /\ t[sn] = dn /\ pos[sn] = 1
    BY <1>1
  <2> HIDE DEF t, pos
  <2>6. Twins(V, t)
    BY <1>1, <2>3, <2>5 DEF Twins, CallOK
  <2>7. \A j \in DOMAIN kids[sn] : kids[sn][j] # sn
    BY <1>1, ChildIs
  <2>8. Path(V, V, t, pos)
    BY <2>1, <2>2, <2>5, <2>7 DEF Path
  <2>9. Exact(V, V, t, pos)
    <3>1. before.kids[sn] \in Seq(Node) /\ Len(kids[dn]) = 0
      BY <1>1, OriginalIs
    <3>2. \A i \in DOMAIN before.kids[sn] : before.kids[sn][i] # sn
      BY <1>1, <2>7, KeptMembers DEF ToSet
    <3>3. \A i \in DOMAIN kids[sn] : ~Passed(V, V, pos, sn, i)
      BY <1>1, <2>1, <2>5 DEF Passed
    <3>5. \A i \in DOMAIN before.kids[sn] : i \in Nat /\ i >= 1 /\ ~(i <= Len(kids[dn]))
      BY <3>1
    <3>6. Len(kids[dn]) <= Len(before.kids[sn])
      BY <3>1
    <3>7. SUFFICES ASSUME NEW y \in V
                   PROVE  /\ \A i \in DOMAIN kids[y] :
                               Passed(V, V, pos, y, i) => kids[y][i] \in V \cup {dn}
                          /\ Len(kids[t[y]]) <= Len(before.kids[y])
                          /\ \A i \in DOMAIN before.kids[y] :
                               IF i <= Len(kids[t[y]])
                               THEN before.kids[y][i] \in V /\ kids[t[y]][i] = t[before.kids[y][i]]
                               ELSE before.kids[y][i] \notin V
      BY DEF Exact
    <3>8. y = sn /\ t[y] = dn
      BY <2>5
    <3> QED BY <3>2, <3>3, <3>5, <3>6, <3>8
  <2>10. Walk(V, V, t, pos)
    BY <2>6, <2>8, <2>9 DEF Walk
  <2> QED BY <2>2, <2>4, <2>5, <2>10 DEF WalkOK
<1> QED BY <1>2, <1>3

LEMMA WalkBeginsNext == WalkStart' => WalkOK'
BY WalkBegins, PTL

-----------------------------------------------------------------------------
(***************************************************************************)
(* Steps that leave the tree alone                                          *)
(***************************************************************************)

(* What is said of the tree and of the call stays true.                     *)
LEMMA SameTree ==
  ASSUME TypeOK, TreeOK, CallOK, UNCHANGED <<tree, dn, sn, before>>,
         onward' \in BOOLEAN, complete' \in BOOLEAN
  PROVE  /\ TypeOK' /\ TreeOK' /\ CallOK'
         /\ Original' = Original /\ Subtree(dn)' = Subtree(dn)
<1>1. /\ name' = name /\ up' = up /\ kids' = kids
      /\ dn' = dn /\ sn' = sn /\ before' = before
  BY DEF tree
<1>2. TypeOK'
  BY <1>1 DEF TypeOK
<1>3. Exists' = Exists
  BY <1>1 DEF Exists
<1>4. Original' = Original /\ Subtree(dn)' = Subtree(dn)
  BY <1>1 DEF Original, Subtree
<1>5. TreeOK'
  BY <1>1, <1>3 DEF TreeOK
<1>6. ASSUME NEW y \in Original PROVE Kept(y)'
  <2>1. Kept(y)
    BY DEF CallOK
  <2> QED BY <1>1, <2>1 DEF Kept
<1>7. CallOK'
  BY <1>1, <1>3, <1>4, <1>6 DEF CallOK
<1> QED BY <1>2, <1>4, <1>5, <1>7

(* A witness of the walk after such a step.                                 *)
LEMMA SameTwins ==
  ASSUME UNCHANGED <<tree, dn, sn, before>>, NEW V, NEW t, Twins(V, t),
         Original' = Original, Subtree(dn)' = Subtree(dn)
  PROVE  Twins(V, t)'
BY DEF tree, Twins

(* A node is left out, and the walk goes on behind it.                      *)
LEMMA LeavesOut ==
  ASSUME TypeOK, TreeOK, CallOK, WalkOK, Walking, ~onward,
         UNCHANGED <<tree, dn, sn, dit, sit, before>>, onward' = TRUE,
         complete' \in BOOLEAN, complete' => complete /\ sit = dn
  PROVE  TypeOK' /\ TreeOK' /\ CallOK' /\ WalkOK'
<1>1. /\ name' = name /\ up' = up /\ kids' = kids /\ dit' = dit /\ sit' = sit
      /\ dn' = dn /\ sn' = sn /\ before' = before
  BY DEF tree
<1>2. /\ TypeOK' /\ TreeOK' /\ CallOK'
      /\ Original' = Original /\ Subtree(dn)' = Subtree(dn)
  BY SameTree
<1>3. sit # Nil /\ sit # sn /\ Walking'
  BY <1>1 DEF Walking, Idle
<1>4. PICK V \in SUBSET Inner, P \in SUBSET Inner, t \in [Inner -> Inner], pos \in [Inner -> Nat] :
        Walk(V, P, t, pos)
  BY <1>3 DEF WalkOK
<1>5. Twins(V, t) /\ Path(V, P, t, pos) /\ (complete => Exact(V, P, t, pos))
  BY <1>4 DEF Walk
<1>6. Twins(V, t)'
  BY <1>2, <1>5, SameTwins
<1>7. Path(V, P, t, pos)'
  BY <1>1, <1>2, <1>3, <1>5 DEF Path
<1>8. ASSUME complete' PROVE Exact(V, P, t, pos)'
  <2>1. Exact(V, P, t, pos) /\ sit = dn
    BY <1>5, <1>8
  <2>2. ASSUME NEW y \in V, NEW i \in DOMAIN kids[y], Passed(V, P, pos, y, i)'
        PROVE  kids[y][i] \in V \cup {dn}
    <3>1. CASE Passed(V, P, pos, y, i)
      BY <2>1, <3>1 DEF Exact
    <3>2. CASE ~Passed(V, P, pos, y, i)
      BY <1>1, <2>1, <2>2, <3>2 DEF Passed
    <3> QED BY <3>1, <3>2
  <2> QED BY <1>1, <2>1, <2>2 DEF Exact
<1>9. Walk(V, P, t, pos)'
  BY <1>6, <1>7, <1>8 DEF Walk
<1>10. Original' \cap Subtree(dn)' = {}
  BY <1>2, <1>3 DEF WalkOK
<1>11. WalkOK'
  BY <1>1, <1>3, <1>9, <1>10 DEF WalkOK
<1> QED BY <1>2, <1>11

(* On to the next sibling.                                                  *)
LEMMA NextSiblingKeeps ==
  ASSUME TypeOK, TreeOK, CallOK, WalkOK, NextSibling
  PROVE  TypeOK' /\ TreeOK' /\ CallOK' /\ WalkOK'
<1>1. /\ name' = name /\ up' = up /\ kids' = kids /\ dit' = dit
      /\ dn' = dn /\ sn' = sn /\ before' = before /\ complete' = complete
      /\ sit' = NextOf(sit) /\ NextOf(sit) # Nil /\ onward = TRUE /\ onward' = FALSE
  BY DEF NextSibling, tree, ghosts, TypeOK
<1>2. /\ TypeOK' /\ TreeOK' /\ CallOK'
      /\ Original' = Original /\ Subtree(dn)' = Subtree(dn)
  <2>1. UNCHANGED <<tree, dn, sn, before>> /\ onward' \in BOOLEAN /\ complete' \in BOOLEAN
    BY <1>1 DEF tree, TypeOK
  <2> QED BY <2>1, SameTree
<1>3. sit # Nil /\ sit # sn
  BY DEF NextSibling, Walking
<1>4. PICK V \in SUBSET Inner, P \in SUBSET Inner, t \in [Inner -> Inner], pos \in [Inner -> Nat] :
        Walk(V, P, t, pos)
  BY <1>3 DEF WalkOK
<1>5. Twins(V, t) /\ Path(V, P, t, pos) /\ (complete => Exact(V, P, t, pos))
  BY <1>4 DEF Walk
<1> DEFINE u == up[sit]
           ks == kids[up[sit]]
<1>6. /\ sit \in Node /\ u \in P /\ u \in V /\ u \in Original /\ u \in Inner
      /\ pos[u] \in DOMAIN ks /\ ks[pos[u]] = sit
      /\ \A j \in DOMAIN ks : ks[j] = sit => j = pos[u]
  BY <1>3, <1>5, SitIs
<1>7. /\ ks \in Seq(Node) /\ pos[u] \in 1 .. Len(ks) /\ pos[u] # Len(ks)
      /\ sit' = ks[pos[u] + 1]
  BY <1>1, <1>3, <1>5, NextIs
<1>8. pos[u] + 1 \in DOMAIN ks /\ pos[u] + 1 > pos[u]
  BY <1>7
<1>9. /\ sit' \in Node /\ up[sit'] = u /\ sit' \in Original \cup {dn} /\ sit' # sn
  BY <1>6, <1>7, <1>8, ChildIs, ChildOfOriginal
<1>10. sit' \notin V
  BY <1>5, <1>6, <1>7, <1>8 DEF Path
<1>11. PICK pos2 \in [Inner -> Nat] :
          /\ pos2[u] = pos[u] + 1
          /\ \A y \in Inner : y # u => pos2[y] = pos[y]
  <2> DEFINE q == [pos EXCEPT ![u] = pos[u] + 1]
  <2>1. /\ q \in [Inner -> Nat] /\ q[u] = pos[u] + 1
        /\ \A y \in Inner : y # u => q[y] = pos[y]
    BY <1>6, <1>8
  <2> HIDE DEF q
  <2> QED BY <2>1
<1>12. /\ P \subseteq V /\ sit \notin P /\ dit = t[u]
       /\ \A y \in P \ {sn} : up[y] \in P /\ kids[up[y]][pos[up[y]]] = y
       /\ \A y \in P : /\ pos[y] \in DOMAIN kids[y]
                       /\ \A i \in DOMAIN kids[y] : i > pos[y] => kids[y][i] \notin V
  BY <1>3, <1>5 DEF Path
<1>13. ASSUME NEW y \in P \ {sn} PROVE up[y] \in P /\ kids[up[y]][pos2[up[y]]] = y
  <2>1. up[y] \in P /\ kids[up[y]][pos[up[y]]] = y
    BY <1>12
  <2>2. up[y] # u
    BY <1>6, <1>12, <2>1
  <2>3. up[y] \in Inner
    BY <2>1
  <2> QED BY <1>11, <2>1, <2>2, <2>3
<1>14. ASSUME NEW y \in P
       PROVE  /\ pos2[y] \in DOMAIN kids[y]
              /\ \A i \in DOMAIN kids[y] : i > pos2[y] => kids[y][i] \notin V
  <2>1. CASE y = u
    BY <1>7, <1>8, <1>11, <1>12, <2>1
  <2>2. CASE y # u
    BY <1>11, <1>12, <2>2
  <2> QED BY <2>1, <2>2
<1>15. Path(V, P, t, pos2)'
  <2>1. sit' \notin P
    BY <1>10, <1>12
  <2>2. /\ up'[sit'] \in P /\ kids'[up'[sit']][pos2[up'[sit']]] = sit' /\ dit' = t[up'[sit']]
    BY <1>1, <1>6, <1>7, <1>9, <1>11, <1>12
  <2>3. sit' \in Original' \cup {dn'} /\ sit' # sn'
    BY <1>1, <1>2, <1>9
  <2> QED BY <1>1, <1>9, <1>10, <1>12, <1>13, <1>14, <2>1, <2>2, <2>3 DEF Path
<1>16. ASSUME complete' PROVE Exact(V, P, t, pos2)'
  <2>1. Exact(V, P, t, pos)
    BY <1>1, <1>5, <1>16
  <2>2. ASSUME NEW y \in V, NEW i \in DOMAIN kids[y], Passed(V, P, pos2, y, i)'
        PROVE  Passed(V, P, pos, y, i)
    <3>1. CASE y = u
      <4>1. i \in 1 .. Len(ks) /\ pos[u] \in Nat
        BY <1>7, <3>1
      <4>2. i < pos[u] + 1
        BY <1>1, <1>6, <1>7, <1>11, <2>2, <3>1 DEF Passed
      <4>3. i < pos[u] \/ i = pos[u]
        BY <4>1, <4>2
      <4> QED BY <1>1, <3>1, <4>3 DEF Passed
    <3>2. CASE y # u
      BY <1>1, <1>11, <2>2, <3>2 DEF Passed
    <3> QED BY <3>1, <3>2
  <2> QED BY <1>1, <2>1, <2>2 DEF Exact
<1>17. Twins(V, t)'
  <2>1. UNCHANGED <<tree, dn, sn, before>>
    BY <1>1 DEF tree
  <2> QED BY <1>2, <1>5, <2>1, SameTwins
<1>18. Walk(V, P, t, pos2)'
  BY <1>15, <1>16, <1>17 DEF Walk
<1>19. Original' \cap Subtree(dn)' = {}
  BY <1>2, <1>3 DEF WalkOK
<1>20. sit' # Nil
  BY <1>1
<1>21. WalkOK'
  BY <1>1, <1>11, <1>18, <1>19, <1>20 DEF WalkOK
<1> QED BY <1>2, <1>21

(* Up with both pointers.                                                   *)
LEMMA GoUpKeeps ==
  ASSUME TypeOK, TreeOK, CallOK, WalkOK, GoUp
  PROVE  TypeOK' /\ TreeOK' /\ CallOK' /\ WalkOK'
<1>1. /\ name' = name /\ up' = up /\ kids' = kids /\ dit' = Parent(dit)
      /\ dn' = dn /\ sn' = sn /\ before' = before /\ complete' = complete
      /\ sit' = Parent(sit) /\ NextOf(sit) = Nil /\ onward = TRUE /\ onward' = (sit' # sn)
  BY DEF GoUp, tree, ghosts, TypeOK
<1>2. /\ TypeOK' /\ TreeOK' /\ CallOK'
      /\ Original' = Original /\ Subtree(dn)' = Subtree(dn)
  <2>1. UNCHANGED <<tree, dn, sn, before>> /\ onward' \in BOOLEAN /\ complete' \in BOOLEAN
    BY <1>1 DEF tree, TypeOK
  <2> QED BY <2>1, SameTree
<1>3. sit # Nil /\ sit # sn /\ ~Idle
  BY DEF GoUp, Walking
<1>4. PICK V \in SUBSET Inner, P \in SUBSET Inner, t \in [Inner -> Inner], pos \in [Inner -> Nat] :
        Walk(V, P, t, pos)
  BY <1>3 DEF WalkOK
<1>5. Twins(V, t) /\ Path(V, P, t, pos) /\ (complete => Exact(V, P, t, pos))
  BY <1>4 DEF Walk
<1> DEFINE u == up[sit]
           ks == kids[up[sit]]
<1>6. /\ sit \in Node /\ u \in P /\ u \in V /\ u \in Original /\ u \in Inner
      /\ pos[u] \in DOMAIN ks /\ ks[pos[u]] = sit /\ u # sit
  BY <1>3, <1>5, SitIs
<1>7. ks \in Seq(Node) /\ pos[u] = Len(ks)
  BY <1>1, <1>3, <1>5, NextIs
<1>8. /\ P \subseteq V /\ sit \notin P /\ dit = t[u]
      /\ \A y \in P \ {sn} : up[y] \in P /\ kids[up[y]][pos[up[y]]] = y
      /\ \A y \in P : /\ pos[y] \in DOMAIN kids[y]
                      /\ \A i \in DOMAIN kids[y] : i > pos[y] => kids[y][i] \notin V
  BY <1>3, <1>5 DEF Path
<1>9. sit' = u
  BY <1>1, <1>6, CopyAssumption DEF Parent
<1>10. u # Nil
  BY <1>6, CopyAssumption
<1>11. PICK P2 \in SUBSET Inner : P2 = P \ {u}
  OBVIOUS
<1>12. \A y \in P \ {sn} : up[y] # u
  BY <1>6, <1>8
<1>13. Twins(V, t)'
  <2>1. UNCHANGED <<tree, dn, sn, before>>
    BY <1>1 DEF tree
  <2> QED BY <1>2, <1>5, <2>1, SameTwins
<1>14. Path(V, P2, t, pos)'
  <2>1. /\ \A y \in P2 \ {sn} : up[y] \in P2 /\ kids[up[y]][pos[up[y]]] = y
        /\ \A y \in P2 : /\ pos[y] \in DOMAIN kids[y]
                         /\ \A i \in DOMAIN kids[y] : i > pos[y] => kids[y][i] \notin V
        /\ P2 \subseteq V
    BY <1>8, <1>11, <1>12
  <2>2. CASE u = sn
    <3>1. dit = dn
      BY <1>5, <1>8, <2>2 DEF Twins
    <3>2. dit' = Parent(dn)' /\ sit' = sn'
      BY <1>1, <1>9, <2>2, <3>1 DEF Parent
    <3>3. P2 = {}
      <4>1. \A y \in P2 : up[y] \in P2
        BY <2>1, <2>2, <1>11
      <4>2. P2 \in SUBSET Node
        <5>1. P2 \subseteq Original \ {sn}
          BY <1>5, <1>11, <2>1, <2>2 DEF Twins
        <5> QED BY <5>1, OriginalIs
      <4> QED BY <4>1, <4>2 DEF TreeOK
    <3> QED BY <1>1, <3>2, <3>3 DEF Path
  <2>3. CASE u # sn
    <3>1. u \in Node /\ up[u] \in P /\ kids[up[u]][pos[up[u]]] = u
      BY <1>6, <1>8, <2>3, UpInOriginal
    <3>2. up[u] \in P2
      BY <1>6, <1>11, <1>12, <2>3, <3>1
    <3>3. t[u] \in Node /\ up[t[u]] = t[up[u]]
      BY <1>5, <1>6, <2>3 DEF Twins
    <3>4. dit' = t[up[u]]
      BY <1>1, <1>8, <3>3, CopyAssumption DEF Parent
    <3>5. u \notin P2
      BY <1>11
    <3>6. onward' /\ sit' # sn' /\ sit' \in Node /\ sit' \in Original' \cup {dn'} /\ sit' \notin P2
      BY <1>1, <1>2, <1>6, <1>9, <2>3, <3>1, <3>5
    <3>7. /\ up'[sit'] \in P2 /\ kids'[up'[sit']][pos[up'[sit']]] = sit' /\ dit' = t[up'[sit']]
      BY <1>1, <1>9, <3>1, <3>2, <3>4
    <3> QED BY <1>1, <2>1, <3>6, <3>7 DEF Path
  <2> QED BY <2>2, <2>3
<1>15. ASSUME complete' PROVE Exact(V, P2, t, pos)'
  <2>1. Exact(V, P, t, pos)
    BY <1>1, <1>5, <1>15
  <2>2. ASSUME NEW y \in V, NEW i \in DOMAIN kids[y], Passed(V, P2, pos, y, i)'
        PROVE  Passed(V, P, pos, y, i)
    <3>1. CASE y = u
      <4>1. i \in 1 .. Len(ks)
        BY <1>7, <3>1
      <4>2. i < pos[u] \/ i = pos[u]
        BY <1>7, <4>1
      <4> QED BY <1>1, <3>1, <4>2 DEF Passed
    <3>2. CASE y # u
      BY <1>1, <1>11, <2>2, <3>2 DEF Passed
    <3> QED BY <3>1, <3>2
  <2> QED BY <1>1, <2>1, <2>2 DEF Exact
<1>16. Walk(V, P2, t, pos)'
  BY <1>13, <1>14, <1>15 DEF Walk
<1>17. Original' \cap Subtree(dn)' = {}
  BY <1>2, <1>3 DEF WalkOK
<1>18. sit' # Nil /\ (onward' => Walking')
  BY <1>1, <1>3, <1>9, <1>10 DEF Walking, Idle
<1>19. WalkOK'
  BY <1>16, <1>17, <1>18 DEF WalkOK
<1> QED BY <1>2, <1>19

-----------------------------------------------------------------------------
(***************************************************************************)
(* Steps that add a node                                                    *)
(***************************************************************************)

(* The new node m at place i of x, node by node.                            *)
AddedAs(m, x, i, c) ==
  /\ m \in Node /\ m \notin Exists /\ m # x /\ kids[m] = << >>
  /\ Exists' = Exists \cup {m}
  /\ name'[m] = c /\ \A n \in Node : n # m => name'[n] = name[n]
  /\ up'[m] = x /\ \A n \in Node : n # m => up'[n] = up[n]
  /\ kids' \in [Inner -> Seq(Node)]
  /\ Len(kids'[x]) = Len(kids[x]) + 1
  /\ \A j \in 1 .. Len(kids[x]) + 1 :
       kids'[x][j] = IF j < i THEN kids[x][j] ELSE IF j = i THEN m ELSE kids[x][j - 1]
  /\ \A y \in Inner : y # x => kids'[y] = kids[y]
  /\ \A y \in Inner : ToSet(kids'[y]) = ToSet(kids[y]) \cup (IF y = x THEN {m} ELSE {})

LEMMA AddedIs ==
  ASSUME TypeOK, TreeOK, MayAllocate, NEW x \in Exists \cup Document,
         NEW i \in 1 .. Len(kids[x]) + 1, NEW c \in Name, Added(x, i, c)
  PROVE  /\ AddedAs(NewNode, x, i, c)
         /\ TreeOK' /\ name' \in [Node -> Name \cup {Nil}] /\ up' \in [Node -> Inner \cup {Nil}]
<1>1. TreeOK' /\ name' \in [Node -> Name \cup {Nil}] /\ up' \in [Node -> Inner \cup {Nil}]
  BY AddedKeepsTree
<1> DEFINE m == NewNode
<1>2. /\ m \in Node /\ m \notin Exists /\ m # x /\ kids[m] = << >>
      /\ name' = [name EXCEPT ![m] = c]
      /\ up' = [up EXCEPT ![m] = x]
      /\ Exists' = Exists \cup {m}
      /\ kids' \in [Inner -> Seq(Node)]
      /\ Len(kids'[x]) = Len(kids[x]) + 1
      /\ \A j \in 1 .. Len(kids[x]) + 1 :
            kids'[x][j] = IF j < i THEN kids[x][j]
                          ELSE IF j = i THEN m ELSE kids[x][j - 1]
      /\ \A y \in Inner : y # x => kids'[y] = kids[y]
      /\ \A y \in Inner :
            ToSet(kids'[y]) = ToSet(kids[y]) \cup (IF y = x THEN {m} ELSE {})
  BY AddedMaps
<1> HIDE DEF m
<1>3. name'[m] = c /\ \A n \in Node : n # m => name'[n] = name[n]
  BY <1>2 DEF TypeOK
<1>4. up'[m] = x /\ \A n \in Node : n # m => up'[n] = up[n]
  BY <1>2 DEF TypeOK
<1>5. AddedAs(m, x, i, c)
  BY <1>2, <1>3, <1>4 DEF AddedAs
<1> QED BY <1>1, <1>5 DEF m

(* What is in use keeps its name and its place.                             *)
LEMMA AddedKeeps ==
  ASSUME TypeOK, NEW m, NEW x, NEW i, NEW c, AddedAs(m, x, i, c),
         NEW n \in Exists \cup Document
  PROVE  n # m /\ n \in (Exists \cup Document)' /\ (n \in Node => name'[n] = name[n] /\ up'[n] = up[n])
<1>1. n # m
  BY CopyAssumption DEF AddedAs
<1> QED BY <1>1 DEF AddedAs

(* A user adds a node while nothing is copied.                              *)
LEMMA AddChildKeeps ==
  ASSUME TypeOK, TreeOK, NEW x \in Inner, NEW i \in 1 .. Len(kids[x]) + 1, NEW c \in Name,
         AddChild(x, i, c)
  PROVE  TypeOK' /\ TreeOK' /\ Idle'
<1>1. /\ Idle /\ x \in Exists \cup Document /\ MayAllocate /\ Added(x, i, c)
      /\ dn' = dn /\ onward' = onward /\ complete' = complete
  BY DEF AddChild, MayCall, loop, ghosts
<1>2. /\ AddedAs(NewNode, x, i, c) /\ TreeOK'
      /\ name' \in [Node -> Name \cup {Nil}] /\ up' \in [Node -> Inner \cup {Nil}]
  BY <1>1, AddedIs
<1> QED BY <1>1, <1>2 DEF AddedAs, TypeOK, Idle

(* append_copy.                                                             *)
LEMMA CopyChildKeeps ==
  ASSUME TypeOK, TreeOK, NEW x \in Inner, NEW i \in 1 .. Len(kids[x]) + 1,
         NEW proto \in Node, CopyChild(x, i, proto)
  PROVE  TypeOK' /\ TreeOK' /\ CallOK' /\ WalkOK'
<1>1. /\ x \in Exists \cup Document /\ proto \in Exists /\ MayAllocate
      /\ Added(x, i, name[proto])
      /\ dn' = NewNode /\ dit' = NewNode /\ sn' = proto /\ sit' = First(proto)'
      /\ onward' = FALSE /\ complete' = TRUE
      /\ before' = [name |-> name, kids |-> kids]
  BY DEF CopyChild
<1>2. PICK c \in Name : c = name[proto]
  BY <1>1 DEF Exists, TypeOK
<1>3. /\ AddedAs(NewNode, x, i, c) /\ TreeOK'
      /\ name' \in [Node -> Name \cup {Nil}] /\ up' \in [Node -> Inner \cup {Nil}]
  BY <1>1, <1>2, AddedIs
<1>4. PICK m \in Node : m = NewNode
  BY <1>3 DEF AddedAs
<1>5. AddedAs(m, x, i, c)
  BY <1>3, <1>4
<1>6. TypeOK'
  BY <1>1, <1>3, <1>5 DEF AddedAs, TypeOK
<1>7. /\ dn' = m /\ dit' = m /\ before'.name = name /\ before'.kids = kids
      /\ m \notin Exists /\ m \notin Document /\ m # proto /\ m # x
  BY <1>1, <1>4, <1>5, CopyAssumption DEF AddedAs
<1>8. Original' = Subtree(proto)
  BY <1>1, <1>7 DEF Original, Subtree
<1>9. Subtree(proto) \subseteq Exists
  BY <1>1, BelowIsInUse
<1>10. Exists' = Exists \cup {m} /\ m \in Exists' /\ proto \in Exists'
  BY <1>1, <1>5 DEF AddedAs
<1>11. ASSUME NEW y \in Original' PROVE Kept(y)'
  <2>1. y \in Exists /\ y \in Node /\ y \in Inner
    BY <1>8, <1>9 DEF Exists, Inner
  <2>2. name'[y] = name[y]
    BY <1>5, <2>1, AddedKeeps
  <2>3. CASE y = x
    <3>1. kids'[y] = InsertAt(kids[y], i, dn')
      <4>1. kids' = [kids EXCEPT ![x] = InsertAt(@, i, NewNode)]
        BY <1>1 DEF Added
      <4> QED BY <1>1, <2>1, <2>3, <4>1 DEF TypeOK
    <3>2. i \in 1 .. Len(before'.kids[y]) + 1
      BY <1>7, <2>3
    <3> QED BY <1>7, <2>2, <3>1, <3>2 DEF Kept
  <2>4. CASE y # x
    <3>1. kids'[y] = kids[y]
      BY <1>5, <2>1, <2>4 DEF AddedAs
    <3> QED BY <1>7, <2>2, <3>1 DEF Kept
  <2> QED BY <2>3, <2>4
<1>12. name'[m] = name'[proto]
  <2>1. name'[m] = c
    BY <1>5 DEF AddedAs
  <2>2. proto \in Exists \cup Document
    BY <1>1
  <2>3. name'[proto] = name[proto]
    BY <1>5, <2>2, AddedKeeps
  <2> QED BY <1>2, <2>1, <2>3
<1>13. CallOK'
  <2>1. /\ before'.name \in [Node -> Name \cup {Nil}]
        /\ before'.kids \in [Inner -> Seq(Node)]
    BY <1>7 DEF TypeOK
  <2>2. Original' \subseteq Exists' \cup Document
    BY <1>8, <1>9, <1>10
  <2>3. dn' \in Exists' \cup Document /\ sn' \in Exists' \cup Document
    BY <1>1, <1>7, <1>10
  <2>4. name'[dn'] = name'[sn']
    BY <1>1, <1>7, <1>12
  <2> QED BY <1>11, <2>1, <2>2, <2>3, <2>4 DEF CallOK
<1>14. WalkOK'
  <2>1. kids'[dn'] = << >>
    BY <1>5, <1>7 DEF AddedAs, Inner
  <2>2. dn' \notin Original'
    BY <1>7, <1>8, <1>9
  <2>3. sit' = First(sn)'
    BY <1>1 DEF First
  <2>4. WalkStart'
    BY <1>1, <1>3, <1>6, <1>7, <1>13, <2>1, <2>2, <2>3 DEF WalkStart
  <2> QED BY <2>4, WalkBeginsNext
<1> QED BY <1>3, <1>6, <1>13, <1>14

(* reset(proto) of a document.                                              *)
LEMMA CopyDocumentKeeps ==
  ASSUME TypeOK, TreeOK, NEW d \in Document, NEW proto \in Document, CopyDocument(d, proto)
  PROVE  TypeOK' /\ TreeOK' /\ CallOK' /\ WalkOK'
<1>1. /\ kids[d] = << >> /\ dn' = d /\ dit' = d /\ sn' = proto /\ sit' = First(proto)
      /\ onward' = FALSE /\ complete' = TRUE
      /\ before' = [name |-> name, kids |-> kids]
      /\ name' = name /\ up' = up /\ kids' = kids
  BY DEF CopyDocument, tree
<1>2. TypeOK'
  BY <1>1 DEF TypeOK
<1>3. Exists' = Exists
  BY <1>1 DEF Exists
<1>4. TreeOK'
  BY <1>1, <1>3 DEF TreeOK
<1>5. before'.name = name /\ before'.kids = kids
  BY <1>1
<1>6. Original' = Subtree(proto)
  BY <1>1, <1>5 DEF Original, Subtree
<1>7. Subtree(proto) \subseteq Exists \cup {proto}
  BY BelowIsInUse
<1>8. d \notin Node /\ proto \notin Node /\ d \in Inner /\ proto \in Inner
  BY CopyAssumption DEF Inner
<1>9. CallOK'
  <2>1. ASSUME NEW y \in Original' PROVE Kept(y)'
    BY <1>1, <1>5 DEF Kept
  <2>2. /\ before'.name \in [Node -> Name \cup {Nil}]
        /\ before'.kids \in [Inner -> Seq(Node)]
    BY <1>5 DEF TypeOK
  <2>3. Original' \subseteq Exists' \cup Document
    BY <1>3, <1>6, <1>7
  <2>4. dn' \in Document /\ sn' \in Document /\ dn' \notin Node
    BY <1>1, <1>8
  <2> QED BY <2>1, <2>2, <2>3, <2>4 DEF CallOK
<1>10. kids'[sn'] # << >> => dn' \notin Original'
  <2>1. Exists \subseteq Node
    BY DEF Exists
  <2> QED BY <1>1, <1>6, <1>7, <1>8, <2>1
<1>11. sit' = First(sn)'
  BY <1>1 DEF First
<1>12. WalkStart'
  BY <1>1, <1>2, <1>4, <1>9, <1>10, <1>11 DEF WalkStart
<1> QED BY <1>2, <1>4, <1>9, <1>12, WalkBeginsNext

(* Where the copy of a node goes is where it was: the next child that the   *)
(* original of its parent had is the node that is copied.                   *)
StillToCopy(V, P, t, pos, u) ==
  /\ t \in [Inner -> Inner] /\ pos \in [Inner -> Nat]
  /\ u \in Original /\ u \in V /\ u \in P /\ dn \notin Original
  /\ Exact(V, P, t, pos)
  /\ pos[u] \in DOMAIN kids[u] /\ kids[u][pos[u]] \notin V /\ kids[u][pos[u]] # dn

LEMMA CopyIsNext ==
  ASSUME TypeOK, TreeOK, CallOK, NEW V, NEW P, NEW t, NEW pos, NEW u,
         StillToCopy(V, P, t, pos, u)
  PROVE  LET L == Len(kids[t[u]])
         IN  /\ L + 1 \in DOMAIN before.kids[u]
             /\ before.kids[u][L + 1] = kids[u][pos[u]]
             /\ \A i \in DOMAIN before.kids[u] :
                  before.kids[u][i] = kids[u][pos[u]] => i = L + 1
<1> DEFINE L == Len(kids[t[u]])
           s == kids[u][pos[u]]
           b == before.kids[u]
           k == kids[u]
<1>0. /\ t \in [Inner -> Inner] /\ pos \in [Inner -> Nat]
      /\ u \in Original /\ u \in V /\ u \in P /\ dn \notin Original
      /\ Exact(V, P, t, pos)
      /\ pos[u] \in DOMAIN k /\ s \notin V /\ s # dn
  BY DEF StillToCopy
<1>1. PICK g : Embeds(g, u)
  BY <1>0, KeptEmbeds
<1>2. /\ \A i \in DOMAIN b : g[i] \in DOMAIN k /\ k[g[i]] = b[i]
      /\ \A i, j \in DOMAIN b : i < j => g[i] < g[j]
      /\ \A j \in DOMAIN k : k[j] = dn \/ \E i \in DOMAIN b : g[i] = j
  BY <1>1 DEF Embeds
<1>3. /\ u \in Inner /\ b \in Seq(Node) /\ k \in Seq(Node) /\ kids[t[u]] \in Seq(Node)
      /\ \A i \in DOMAIN b : b[i] \in Original
  BY <1>0, OriginalIs DEF TypeOK, ToSet
<1>4. /\ DOMAIN b = 1 .. Len(b) /\ Len(b) \in Nat /\ L \in Nat /\ DOMAIN k = 1 .. Len(k)
  BY <1>3
<1>5. \A i, j \in DOMAIN k : k[i] = k[j] => i = j
  BY <1>3 DEF TreeOK, IsInjective
<1>6. /\ \A i \in DOMAIN k : i < pos[u] => k[i] \in V \cup {dn}
      /\ \A i \in DOMAIN b : IF i <= L THEN b[i] \in V ELSE b[i] \notin V
  BY <1>0 DEF Exact, Passed
<1>7. PICK j \in DOMAIN b : g[j] = pos[u]
  BY <1>0, <1>2
<1>8. b[j] = s
  BY <1>2, <1>7
<1> HIDE DEF L, b, k
<1>9. j > L
  BY <1>0, <1>4, <1>6, <1>8
<1>10. j = L + 1
  <2>1. ASSUME j > L + 1 PROVE FALSE
    <3>1. L + 1 \in DOMAIN b /\ L + 1 < j /\ ~(L + 1 <= L)
      BY <1>4, <2>1
    <3>2. g[L + 1] < pos[u] /\ g[L + 1] \in DOMAIN k /\ k[g[L + 1]] = b[L + 1]
      BY <1>2, <1>7, <3>1
    <3>3. b[L + 1] \in V \cup {dn} /\ b[L + 1] \notin V
      BY <1>6, <3>1, <3>2
    <3>4. b[L + 1] # dn
      BY <1>0, <1>3, <3>1
    <3> QED BY <3>3, <3>4
  <2> QED BY <1>4, <1>9, <2>1
<1>11. ASSUME NEW i \in DOMAIN b, b[i] = s PROVE i = L + 1
  <2>1. g[i] = g[j]
    <3>1. g[i] \in DOMAIN k /\ g[j] \in DOMAIN k /\ k[g[i]] = k[g[j]]
      BY <1>2, <1>8, <1>11
    <3> QED BY <1>5, <3>1
  <2>2. g[i] \in Nat
    BY <1>2, <1>4
  <2>3. ~(i < j) /\ ~(j < i)
    <3>1. ~(g[i] < g[j]) /\ ~(g[j] < g[i])
      BY <2>1, <2>2
    <3> QED BY <1>2, <3>1
  <2> QED BY <1>4, <1>10, <2>3
<1>12. L + 1 \in DOMAIN b /\ b[L + 1] = s
  BY <1>8, <1>10
<1> QED BY <1>11, <1>12 DEF L, b

(* A node is copied, and the walk goes on below or behind it.               *)
LEMMA CopyNodeKeeps ==
  ASSUME TypeOK, TreeOK, CallOK, WalkOK, CopyNode
  PROVE  TypeOK' /\ TreeOK' /\ CallOK' /\ WalkOK'
<1>1. /\ sit # Nil /\ sit # sn /\ ~Idle /\ onward = FALSE /\ sit # dn /\ MayAllocate
      /\ Added(dit, Len(kids[dit]) + 1, name[sit])
      /\ dn' = dn /\ sn' = sn /\ before' = before /\ complete' = complete
      /\ IF kids[sit] # << >>
         THEN dit' = NewNode /\ sit' = First(sit) /\ onward' = FALSE
         ELSE onward' = TRUE /\ dit' = dit /\ sit' = sit
  BY DEF CopyNode, Walking, Skipped, ghosts, TypeOK
<1>2. /\ sn \in Inner /\ dn \in Inner /\ sn \in Original /\ Original \subseteq Inner
      /\ Original \subseteq Exists \cup Document
  BY OriginalIs DEF CallOK
<1>3. Original \cap Subtree(dn) = {}
  BY <1>1 DEF WalkOK
<1>4. PICK V \in SUBSET Inner, P \in SUBSET Inner, t \in [Inner -> Inner], pos \in [Inner -> Nat] :
        Walk(V, P, t, pos)
  BY <1>1 DEF WalkOK
<1>5. Twins(V, t) /\ Path(V, P, t, pos) /\ (complete => Exact(V, P, t, pos))
  BY <1>4 DEF Walk
<1>6. PICK s \in Node : s = sit
  BY <1>1, <1>5, SitIs
<1>7. PICK u \in Inner : u = up[s]
  BY <1>1, <1>5, <1>6, SitIs
<1>8. /\ u \in P /\ u \in V /\ u \in Original /\ u # s
      /\ pos[u] \in DOMAIN kids[u] /\ kids[u][pos[u]] = s
      /\ \A j \in DOMAIN kids[u] : kids[u][j] = s => j = pos[u]
  BY <1>1, <1>5, <1>6, <1>7, SitIs
<1>9. /\ P \subseteq V /\ s \in Original /\ s # sn /\ s \notin P /\ s \notin V /\ dit = t[u]
      /\ \A y \in P \ {sn} : up[y] \in P /\ kids[up[y]][pos[up[y]]] = y
      /\ \A y \in P : /\ pos[y] \in DOMAIN kids[y]
                      /\ \A i \in DOMAIN kids[y] : i > pos[y] => kids[y][i] \notin V
  BY <1>1, <1>5, <1>6, <1>7 DEF Path
<1>10. /\ V \subseteq Original /\ sn \in V /\ t[sn] = dn
       /\ \A y \in V : /\ t[y] \in Subtree(dn)
                       /\ y \in Node /\ t[y] \in Node => name[t[y]] = name[y]
       /\ \A y \in V \ {sn} : up[y] \in V /\ t[y] \in Node /\ up[t[y]] = t[up[y]]
       /\ \A y, z \in V : t[y] = t[z] => y = z
  BY <1>5 DEF Twins
<1>11. Subtree(dn) \subseteq Exists \cup Document
  BY BelowIsInUse DEF CallOK
<1>12. PICK d \in Exists \cup Document : d = dit
  BY <1>8, <1>9, <1>10, <1>11
<1>13. d = t[u] /\ d \in Subtree(dn) /\ d \notin Original /\ d \in Inner
  BY <1>3, <1>8, <1>9, <1>10, <1>12 DEF Exists, Inner
<1>14. s \in Exists
  BY <1>2, <1>9, CopyAssumption
<1>15. PICK c \in Name : c = name[s]
  BY <1>14 DEF Exists, TypeOK
<1>16. PICK L \in Nat : L = Len(kids[d])
  BY <1>13 DEF TypeOK
<1>17. PICK m \in Node : AddedAs(m, d, L + 1, c) /\ m = NewNode
  <2>1. Added(d, L + 1, c) /\ L + 1 \in 1 .. Len(kids[d]) + 1
    BY <1>1, <1>6, <1>12, <1>15, <1>16
  <2>2. AddedAs(NewNode, d, L + 1, c)
    BY <1>1, <2>1, AddedIs
  <2> QED BY <2>2 DEF AddedAs
<1>18. /\ TreeOK' /\ name' \in [Node -> Name \cup {Nil}] /\ up' \in [Node -> Inner \cup {Nil}]
  <2>1. Added(d, L + 1, c) /\ L + 1 \in 1 .. Len(kids[d]) + 1
    BY <1>1, <1>6, <1>12, <1>15, <1>16
  <2> QED BY <1>1, <2>1, AddedIs
<1>19. /\ m \notin Exists /\ m # d /\ kids[m] = << >> /\ m \in Inner
       /\ Exists' = Exists \cup {m} /\ name'[m] = c /\ up'[m] = d
       /\ kids' \in [Inner -> Seq(Node)] /\ Len(kids'[d]) = L + 1
       /\ \A j \in 1 .. L + 1 :
            kids'[d][j] = IF j < L + 1 THEN kids[d][j] ELSE IF j = L + 1 THEN m ELSE kids[d][j - 1]
       /\ \A y \in Inner : y # d => kids'[y] = kids[y]
       /\ \A y \in Inner : ToSet(kids'[y]) = ToSet(kids[y]) \cup (IF y = d THEN {m} ELSE {})
  BY <1>16, <1>17 DEF AddedAs, Inner
<1>20. /\ kids'[d][L + 1] = m
       /\ \A j \in 1 .. L : kids'[d][j] = kids[d][j]
  BY <1>19
<1>21. \A n \in Exists \cup Document :
          n # m /\ (n \in Node => name'[n] = name[n] /\ up'[n] = up[n])
  BY <1>17, AddedKeeps
<1>22. TypeOK'
  BY <1>1, <1>18, <1>19 DEF TypeOK
<1>23. /\ m \notin Original /\ m # dn
       /\ \A y \in Original : /\ kids'[y] = kids[y]
                              /\ y \in Node => name'[y] = name[y] /\ up'[y] = up[y]
  BY <1>2, <1>13, <1>19, <1>21 DEF CallOK
<1>24. Original' = Original
  BY <1>1 DEF Original
<1>25. /\ Subtree(dn)' \subseteq Subtree(dn) \cup {m}
       /\ Subtree(dn) \subseteq Subtree(dn)' /\ m \in Subtree(dn)'
  <2>1. PICK r \in Inner : r = dn
    BY <1>2
  <2>2. PICK ks \in [Inner -> Seq(Node)], ks2 \in [Inner -> Seq(Node)] : ks = kids /\ ks2 = kids'
    BY <1>19 DEF TypeOK
  <2>3. ToSet(ks[m]) = {}
    BY <1>19, <2>2 DEF ToSet
  <2>4. /\ ToSet(ks2[d]) = ToSet(ks[d]) \cup {m}
        /\ \A y \in Inner : y # d => ToSet(ks2[y]) = ToSet(ks[y])
    BY <1>13, <1>19, <2>2
  <2>5. d \in Reached(ks, r) /\ m # r /\ m # d /\ d \in Inner
    BY <1>13, <1>19, <1>23, <2>1, <2>2 DEF Subtree
  <2>6. /\ Reached(ks2, r) \subseteq Reached(ks, r) \cup {m}
        /\ Reached(ks, r) \subseteq Reached(ks2, r)
        /\ m \in Reached(ks2, r)
    <3>1. NewLeaf(ks, ks2, r, d, m)
      BY <2>3, <2>4, <2>5 DEF NewLeaf
    <3> QED BY <3>1, ReachedWithLeaf
  <2> QED BY <1>1, <2>1, <2>2, <2>6 DEF Subtree
<1>26. Original' \cap Subtree(dn)' = {}
  BY <1>3, <1>23, <1>24, <1>25
<1>27. CallOK'
  <2>1. ASSUME NEW y \in Original PROVE Kept(y)'
    <3>1. Kept(y)
      BY DEF CallOK
    <3> QED BY <1>1, <1>23, <3>1 DEF Kept
  <2>2. dn' \in Exists' \cup Document /\ sn' \in Exists' \cup Document
    BY <1>1, <1>19 DEF CallOK
  <2>3. dn' \in Node /\ sn' \in Node => name'[dn'] = name'[sn']
    BY <1>1, <1>21 DEF CallOK
  <2>4. Original' \subseteq Exists' \cup Document
    BY <1>2, <1>19, <1>24
  <2> QED BY <1>1, <1>24, <2>1, <2>2, <2>3, <2>4 DEF CallOK
<1>28. PICK V2 \in SUBSET Inner : V2 = V \cup {s}
  BY DEF Inner
<1>29. PICK t2 \in [Inner -> Inner] : t2[s] = m /\ \A y \in Inner : y # s => t2[y] = t[y]
  <2> DEFINE q == [t EXCEPT ![s] = m]
  <2>1. q \in [Inner -> Inner] /\ q[s] = m /\ \A y \in Inner : y # s => q[y] = t[y]
    BY <1>19 DEF Inner
  <2> HIDE DEF q
  <2> QED BY <2>1
<1>30. \A y \in V : t2[y] = t[y] /\ y \in Inner /\ t[y] \in Exists \cup Document /\ t[y] # m
  BY <1>9, <1>10, <1>11, <1>21, <1>29
<1>31. Twins(V2, t2)'
  <2>1. V2 \subseteq Original' /\ sn' \in V2 /\ t2[sn'] = dn'
    BY <1>1, <1>9, <1>10, <1>24, <1>28, <1>30
  <2>2. ASSUME NEW y \in V2
        PROVE  /\ t2[y] \in Subtree(dn)'
               /\ y \in Node /\ t2[y] \in Node => name'[t2[y]] = name'[y]
    <3>1. CASE y = s
      BY <1>9, <1>15, <1>19, <1>23, <1>25, <1>29, <3>1
    <3>2. CASE y # s
      BY <1>10, <1>21, <1>23, <1>25, <1>28, <1>30, <3>2
    <3> QED BY <3>1, <3>2
  <2>3. ASSUME NEW y \in V2 \ {sn'}
        PROVE  up'[y] \in V2 /\ t2[y] \in Node /\ up'[t2[y]] = t2[up'[y]]
    <3>1. CASE y = s
      <4>1. up'[y] = u /\ up'[m] = t2[u] /\ t2[y] = m
        BY <1>7, <1>8, <1>9, <1>13, <1>19, <1>23, <1>29, <1>30, <3>1
      <4> QED BY <1>8, <1>28, <4>1
    <3>2. CASE y # s
      <4>1. y \in V \ {sn} /\ y \in Node
        BY <1>1, <1>10, <1>28, <3>2, OriginalIs
      <4>2. up[y] \in V /\ t[y] \in Node /\ up[t[y]] = t[up[y]]
        BY <1>10, <4>1
      <4>3. up'[y] = up[y] /\ up'[t[y]] = up[t[y]]
        BY <1>10, <1>21, <1>23, <1>30, <4>1, <4>2
      <4> QED BY <1>28, <1>30, <4>1, <4>2, <4>3
    <3> QED BY <3>1, <3>2
  <2>4. ASSUME NEW y \in V2, NEW z \in V2, t2[y] = t2[z] PROVE y = z
    BY <1>10, <1>28, <1>29, <1>30, <2>4
  <2> QED BY <2>1, <2>2, <2>3, <2>4 DEF Twins
<1>32. \A i \in DOMAIN kids[s] :
          /\ kids[s][i] \in Node /\ up[kids[s][i]] = s /\ kids[s][i] # s
          /\ kids[s][i] \in Original \cup {dn} /\ kids[s][i] # sn /\ kids[s][i] \notin V2
          /\ kids[s][i] \in Exists
  <2>1. \A i \in DOMAIN kids[s] :
          /\ kids[s][i] \in Exists /\ kids[s][i] \in Node /\ up[kids[s][i]] = s /\ kids[s][i] # s
          /\ kids[s][i] \in Original \cup {dn} /\ kids[s][i] # sn
    BY <1>2, <1>9, ChildIs, ChildOfOriginal
  <2> QED BY <1>9, <1>10, <1>28, <2>1
<1>33. ASSUME NEW y \in P, NEW i \in DOMAIN kids[y], i > pos[y] PROVE kids[y][i] \notin V2
  <2>1. kids[y][i] \notin V
    BY <1>9, <1>33
  <2>2. kids[y][i] # s
    <3>1. y \in Inner /\ pos[y] \in Nat
      OBVIOUS
    <3>2. up[kids[y][i]] = y
      BY <3>1, ChildIs
    <3>3. kids[y][i] = s => y = u /\ i = pos[u]
      BY <1>7, <1>8, <3>2
    <3> QED BY <1>33, <3>1, <3>3
  <2> QED BY <1>28, <2>1, <2>2
<1>34. ASSUME complete, NEW y \in V2
       PROVE  /\ Len(kids'[t2[y]]) <= Len(before.kids[y])
              /\ \A i \in DOMAIN before.kids[y] :
                   IF i <= Len(kids'[t2[y]])
                   THEN before.kids[y][i] \in V2 /\ kids'[t2[y]][i] = t2[before.kids[y][i]]
                   ELSE before.kids[y][i] \notin V2
  <2>1. Exact(V, P, t, pos)
    BY <1>5, <1>34
  <2>2. y \in Original /\ y \in Inner /\ before.kids[y] \in Seq(Node)
    BY <1>9, <1>10, <1>28, OriginalIs
  <2>3. \A i \in DOMAIN before.kids[y] : \E j \in DOMAIN kids[y] : before.kids[y][i] = kids[y][j]
    <3>1. ToSet(before.kids[y]) \subseteq ToSet(kids[y])
      BY <2>2, KeptMembers
    <3> QED BY <3>1 DEF ToSet
  <2>4. CASE y = s
    <3>1. kids'[t2[y]] = << >>
      BY <1>19, <1>29, <2>4
    <3>2. \A i \in DOMAIN before.kids[y] : before.kids[y][i] \notin V2
      BY <1>32, <2>3, <2>4
    <3>3. /\ Len(before.kids[y]) \in Nat
          /\ \A i \in DOMAIN before.kids[y] : i \in Nat /\ ~(i <= 0)
      BY <2>2
    <3>4. Len(kids'[t2[y]]) = 0
      BY <3>1
    <3> QED BY <3>2, <3>3, <3>4
  <2>5. CASE y = u
    <3>1. /\ t2[y] = d /\ Len(kids'[d]) = L + 1 /\ kids'[d][L + 1] = m
          /\ \A j \in 1 .. L : kids'[d][j] = kids[d][j]
      BY <1>8, <1>13, <1>19, <1>20, <1>30, <2>5
    <3>2. dn \notin Original /\ kids[u][pos[u]] \notin V /\ kids[u][pos[u]] # dn
      <4>1. dn \in Subtree(dn)
        BY <1>2, ReachedClosed DEF Subtree, TypeOK
      <4> QED BY <1>1, <1>3, <1>6, <1>8, <1>9, <4>1
    <3>3. /\ L + 1 \in DOMAIN before.kids[u] /\ before.kids[u][L + 1] = s
          /\ \A i \in DOMAIN before.kids[u] : before.kids[u][i] = s => i = L + 1
      <4>1. Len(kids[t[u]]) = L /\ kids[u][pos[u]] = s
        BY <1>8, <1>13, <1>16
      <4>2. u \in Original /\ u \in V /\ u \in P /\ pos[u] \in DOMAIN kids[u]
        BY <1>8
      <4>3. LET K == Len(kids[t[u]])
            IN  /\ K + 1 \in DOMAIN before.kids[u]
                /\ before.kids[u][K + 1] = kids[u][pos[u]]
                /\ \A i \in DOMAIN before.kids[u] :
                     before.kids[u][i] = kids[u][pos[u]] => i = K + 1
        <5>1. StillToCopy(V, P, t, pos, u)
          BY <2>1, <3>2, <4>2 DEF StillToCopy
        <5> QED BY <5>1, CopyIsNext
      <4> QED BY <4>1, <4>3
    <3>4. \A i \in DOMAIN before.kids[u] :
             IF i <= L THEN before.kids[u][i] \in V /\ kids[d][i] = t[before.kids[u][i]]
             ELSE before.kids[u][i] \notin V
      BY <1>8, <1>13, <1>16, <2>1 DEF Exact
    <3>5. ASSUME NEW i \in DOMAIN before.kids[u]
          PROVE  IF i <= L + 1
                 THEN before.kids[u][i] \in V2 /\ kids'[d][i] = t2[before.kids[u][i]]
                 ELSE before.kids[u][i] \notin V2
      <4>1. i \in Nat /\ i >= 1
        BY <2>2, <2>5
      <4>2. CASE i <= L
        BY <1>28, <1>30, <3>1, <3>4, <4>1, <4>2
      <4>3. CASE i = L + 1
        BY <1>28, <1>29, <3>1, <3>3, <4>3
      <4>4. CASE i > L + 1
        <5>1. ~(i <= L) /\ ~(i <= L + 1) /\ i # L + 1
          BY <4>1, <4>4
        <5> QED BY <1>28, <3>3, <3>4, <5>1
      <4> QED BY <4>1, <4>2, <4>3, <4>4
    <3>6. L + 1 <= Len(before.kids[u])
      BY <2>2, <2>5, <3>3
    <3> QED BY <2>5, <3>1, <3>5, <3>6
  <2>6. CASE y # s /\ y # u
    <3>1. y \in V /\ t2[y] = t[y] /\ t[y] # d /\ t[y] \in Inner
      BY <1>8, <1>10, <1>13, <1>28, <1>30, <2>6
    <3>2. kids'[t2[y]] = kids[t[y]]
      BY <1>19, <3>1
    <3>3. \A i \in DOMAIN before.kids[y] : before.kids[y][i] # s
      <4>1. \A j \in DOMAIN kids[y] : up[kids[y][j]] = y
        BY <2>2, ChildIs
      <4> QED BY <1>7, <2>3, <2>6, <4>1
    <3>4. /\ Len(kids[t[y]]) <= Len(before.kids[y])
          /\ \A i \in DOMAIN before.kids[y] :
               IF i <= Len(kids[t[y]])
               THEN before.kids[y][i] \in V /\ kids[t[y]][i] = t[before.kids[y][i]]
               ELSE before.kids[y][i] \notin V
      BY <2>1, <3>1 DEF Exact
    <3> QED BY <1>28, <1>30, <3>2, <3>3, <3>4
  <2> QED BY <2>4, <2>5, <2>6
<1>35. CASE kids[s] # << >>
  <2>1. dit' = m /\ sit' = kids[s][1] /\ onward' = FALSE /\ 1 \in DOMAIN kids[s]
    <3>1. kids[s] \in Seq(Node)
      BY <1>2, <1>9 DEF TypeOK
    <3> QED BY <1>1, <1>6, <1>17, <1>35, <3>1 DEF First
  <2>2. PICK f \in Node : f = kids[s][1]
    BY <1>32, <2>1
  <2>3. /\ up[f] = s /\ f # s /\ f \in Original \cup {dn} /\ f # sn /\ f \notin V2 /\ f \in Exists
        /\ sit' = f
    BY <1>32, <2>1, <2>2
  <2>4. PICK P2 \in SUBSET Inner : P2 = P \cup {s}
    BY DEF Inner
  <2>5. PICK pos2 \in [Inner -> Nat] : pos2[s] = 1 /\ \A y \in Inner : y # s => pos2[y] = pos[y]
    <3> DEFINE q == [pos EXCEPT ![s] = 1]
    <3>1. q \in [Inner -> Nat] /\ q[s] = 1 /\ \A y \in Inner : y # s => q[y] = pos[y]
      BY DEF Inner
    <3> HIDE DEF q
    <3> QED BY <3>1
  <2>6. Path(V2, P2, t2, pos2)'
    <3>1. P2 \subseteq V2 /\ f \notin P2
      BY <1>9, <1>28, <2>3, <2>4
    <3>2. up'[f] = s /\ up'[s] = u /\ kids'[s] = kids[s] /\ kids'[u] = kids[u]
      BY <1>7, <1>8, <1>9, <1>21, <1>23, <2>3
    <3>3. ASSUME NEW y \in P2 \ {sn} PROVE up'[y] \in P2 /\ kids'[up'[y]][pos2[up'[y]]] = y
      <4>1. CASE y = s
        BY <1>8, <2>4, <2>5, <3>2, <4>1
      <4>2. CASE y # s
        <5>1. y \in P \ {sn}
          BY <2>4, <4>2
        <5>2. up[y] \in P /\ kids[up[y]][pos[up[y]]] = y
          BY <1>9, <5>1
        <5>3. y \in Original /\ y \in Node /\ up[y] \in Original /\ up[y] # s /\ up[y] \in Inner
          BY <1>9, <1>10, <5>1, <5>2, OriginalIs
        <5>4. up'[y] = up[y] /\ kids'[up[y]] = kids[up[y]]
          BY <1>23, <5>3
        <5> QED BY <2>4, <2>5, <5>2, <5>3, <5>4
      <4> QED BY <4>1, <4>2
    <3>4. ASSUME NEW y \in P2
          PROVE  /\ pos2[y] \in DOMAIN kids'[y]
                 /\ \A i \in DOMAIN kids'[y] : i > pos2[y] => kids'[y][i] \notin V2
      <4>1. CASE y = s
        BY <1>32, <2>1, <2>5, <3>2, <4>1
      <4>2. CASE y # s
        <5>1. y \in P /\ y \in Original
          BY <1>9, <1>10, <2>4, <4>2
        <5>2. kids'[y] = kids[y] /\ pos2[y] = pos[y]
          BY <1>23, <2>5, <4>2, <5>1
        <5> QED BY <1>9, <1>33, <5>1, <5>2
      <4> QED BY <4>1, <4>2
    <3>5. /\ f \in Original' \cup {dn'} /\ f # sn' /\ up'[f] \in P2
          /\ kids'[up'[f]][pos2[up'[f]]] = f /\ dit' = t2[up'[f]]
      BY <1>1, <1>24, <1>29, <2>1, <2>2, <2>3, <2>4, <2>5, <3>2
    <3> QED BY <1>1, <2>1, <2>3, <3>1, <3>3, <3>4, <3>5 DEF Path
  <2>7. ASSUME NEW y \in V2, NEW i \in DOMAIN kids'[y], complete, Passed(V2, P2, pos2, y, i)'
        PROVE  kids'[y][i] \in V2 \cup {dn}
    <3>1. y \in Original /\ kids'[y] = kids[y]
      BY <1>9, <1>10, <1>23, <1>28
    <3>2. CASE y = s
      <4>1. kids[s] \in Seq(Node)
        BY <1>2, <1>9 DEF TypeOK
      <4>2. i \in 1 .. Len(kids[s])
        BY <3>1, <3>2, <4>1
      <4> QED BY <2>1, <2>4, <2>5, <2>7, <3>1, <3>2, <4>2 DEF Passed
    <3>3. CASE y # s
      <4>1. y \in V /\ i \in DOMAIN kids[y]
        BY <1>28, <3>1, <3>3
      <4>2. CASE Passed(V, P, pos, y, i)
        BY <1>5, <1>28, <2>7, <3>1, <4>1, <4>2 DEF Exact
      <4>3. CASE ~Passed(V, P, pos, y, i)
        <5>1. y \in P /\ (i < pos[y] \/ i = pos[y])
          BY <2>4, <2>5, <2>7, <3>3, <4>1, <4>3 DEF Passed
        <5>2. kids[y][i] = s
          BY <1>6, <4>3, <5>1 DEF Passed
        <5> QED BY <1>28, <3>1, <5>2
      <4> QED BY <4>2, <4>3
    <3> QED BY <3>2, <3>3
  <2>8. complete' => Exact(V2, P2, t2, pos2)'
    BY <1>1, <1>34, <2>7 DEF Exact
  <2>9. Walk(V2, P2, t2, pos2)'
    BY <1>31, <2>6, <2>8 DEF Walk
  <2>10. sit' # Nil /\ ~onward'
    BY <2>1, <2>3, CopyAssumption DEF Inner
  <2> QED BY <1>22, <1>18, <1>26, <1>27, <2>9, <2>10 DEF WalkOK
<1>36. CASE kids[s] = << >>
  <2>1. dit' = dit /\ sit' = s /\ onward' = TRUE
    BY <1>1, <1>6, <1>36
  <2>2. Path(V2, P, t2, pos)'
    <3>1. P \subseteq V2
      BY <1>9, <1>28
    <3>2. up'[s] = u /\ kids'[u] = kids[u] /\ t2[u] = t[u]
      BY <1>7, <1>8, <1>9, <1>23, <1>30
    <3>3. ASSUME NEW y \in P \ {sn} PROVE up'[y] \in P /\ kids'[up'[y]][pos[up'[y]]] = y
      <4>1. up[y] \in P /\ kids[up[y]][pos[up[y]]] = y
        BY <1>9
      <4>2. y \in Original /\ y \in Node /\ up[y] \in Original
        BY <1>9, <1>10, <4>1, OriginalIs
      <4>3. up'[y] = up[y] /\ kids'[up[y]] = kids[up[y]]
        BY <1>23, <4>2
      <4> QED BY <4>1, <4>3
    <3>4. ASSUME NEW y \in P
          PROVE  /\ pos[y] \in DOMAIN kids'[y]
                 /\ \A i \in DOMAIN kids'[y] : i > pos[y] => kids'[y][i] \notin V2
      <4>1. kids'[y] = kids[y]
        BY <1>9, <1>10, <1>23
      <4> QED BY <1>9, <1>33, <4>1
    <3>5. /\ s \in Original' \cup {dn'} /\ s # sn' /\ up'[s] \in P
          /\ kids'[up'[s]][pos[up'[s]]] = s /\ dit' = t2[up'[s]]
      BY <1>1, <1>8, <1>9, <1>24, <2>1, <3>2
    <3> QED BY <1>1, <1>9, <2>1, <3>1, <3>3, <3>4, <3>5 DEF Path
  <2>3. ASSUME NEW y \in V2, NEW i \in DOMAIN kids'[y], complete, Passed(V2, P, pos, y, i)'
        PROVE  kids'[y][i] \in V2 \cup {dn}
    <3>1. y \in Original /\ kids'[y] = kids[y]
      BY <1>9, <1>10, <1>23, <1>28
    <3>2. y # s
      BY <1>36, <3>1
    <3>3. y \in V /\ i \in DOMAIN kids[y]
      BY <1>28, <3>1, <3>2
    <3>4. CASE Passed(V, P, pos, y, i)
      BY <1>5, <1>28, <2>3, <3>1, <3>3, <3>4 DEF Exact
    <3>5. CASE ~Passed(V, P, pos, y, i)
      <4>1. y \in P /\ (i < pos[y] \/ i = pos[y])
        BY <2>3, <3>5 DEF Passed
      <4>2. kids[y][i] = s
        BY <1>6, <3>5, <4>1 DEF Passed
      <4> QED BY <1>28, <3>1, <4>2
    <3> QED BY <3>4, <3>5
  <2>4. complete' => Exact(V2, P, t2, pos)'
    BY <1>1, <1>34, <2>3 DEF Exact
  <2>5. Walk(V2, P, t2, pos)'
    BY <1>31, <2>2, <2>4 DEF Walk
  <2>6. sit' # Nil /\ Walking'
    BY <1>1, <1>6, <2>1, <1>9, CopyAssumption DEF Inner, Walking, Idle
  <2> QED BY <1>22, <1>18, <1>26, <1>27, <2>5, <2>6 DEF WalkOK
<1> QED BY <1>35, <1>36

-----------------------------------------------------------------------------
(***************************************************************************)
(* Theorems                                                                 *)
(***************************************************************************)

LEMMA NothingRunsAtFirst == Init => CopyInv
<1> SUFFICES ASSUME Init PROVE CopyInv
  OBVIOUS
<1>1. /\ name = [n \in Node |-> Nil] /\ up = [n \in Node |-> Nil]
      /\ kids = [x \in Inner |-> << >>]
      /\ dn = Nil /\ onward = FALSE /\ complete = TRUE
  BY DEF Init
<1>2. Nil \notin Node /\ Nil \notin Inner
  BY CopyAssumption DEF Inner
<1>3. Exists = {}
  BY <1>1 DEF Exists
<1>4. TypeOK
  <2>1. << >> \in Seq(Node)
    OBVIOUS
  <2>2. kids \in [Inner -> Seq(Node)]
    BY <1>1, <2>1
  <2> QED BY <1>1, <2>2 DEF TypeOK
<1>5. ASSUME NEW x \in Inner
      PROVE  IsInjective(kids[x]) /\ ToSet(kids[x]) = {n \in Node : up[n] = x}
  <2>1. kids[x] = << >>
    BY <1>1
  <2>2. IsInjective(kids[x]) /\ ToSet(kids[x]) = {}
    BY <2>1 DEF IsInjective, ToSet
  <2>3. \A n \in Node : up[n] # x
    BY <1>1, <1>2
  <2> QED BY <2>2, <2>3
<1>6. ASSUME NEW S \in SUBSET Node, S # {} PROVE \E n \in S : up[n] \notin S
  BY <1>1, <1>2, <1>6
<1>7. TreeOK
  BY <1>1, <1>3, <1>5, <1>6 DEF TreeOK
<1> QED BY <1>1, <1>4, <1>7 DEF CopyInv, Idle

LEMMA StepKeepsCopyInv == CopyInv /\ [Next]_vars => CopyInv'
<1> SUFFICES ASSUME CopyInv, [Next]_vars PROVE CopyInv'
  OBVIOUS
<1>1. TypeOK /\ TreeOK /\ (Idle \/ (CallOK /\ WalkOK))
  BY DEF CopyInv
<1>2. ASSUME NEW x \in Inner, NEW i \in 1 .. Len(kids[x]) + 1, NEW c \in Name, AddChild(x, i, c)
      PROVE  CopyInv'
  BY <1>1, <1>2, AddChildKeeps DEF CopyInv
<1>3. ASSUME NEW x \in Inner, NEW i \in 1 .. Len(kids[x]) + 1, NEW proto \in Node,
             CopyChild(x, i, proto)
      PROVE  CopyInv'
  BY <1>1, <1>3, CopyChildKeeps DEF CopyInv
<1>4. ASSUME NEW d \in Document, NEW proto \in Document, CopyDocument(d, proto)
      PROVE  CopyInv'
  BY <1>1, <1>4, CopyDocumentKeeps DEF CopyInv
<1>5. CASE CopyNode
  <2>1. CallOK /\ WalkOK
    BY <1>1, <1>5 DEF CopyNode, Walking
  <2> QED BY <1>1, <1>5, <2>1, CopyNodeKeeps DEF CopyInv
<1>6. CASE CopyFails
  <2>1. /\ CallOK /\ WalkOK /\ Walking /\ ~onward /\ onward' = TRUE /\ complete' = FALSE
        /\ UNCHANGED <<tree, dn, sn, dit, sit, before>>
    BY <1>1, <1>6 DEF CopyFails, Walking
  <2> QED BY <1>1, <2>1, LeavesOut DEF CopyInv
<1>7. CASE SkipCopy
  <2>1. /\ CallOK /\ WalkOK /\ Walking /\ ~onward /\ onward' = TRUE /\ complete' = complete
        /\ sit = dn /\ complete \in BOOLEAN
        /\ UNCHANGED <<tree, dn, sn, dit, sit, before>>
    BY <1>1, <1>7 DEF SkipCopy, Walking, Skipped, ghosts, TypeOK
  <2> QED BY <1>1, <2>1, LeavesOut DEF CopyInv
<1>8. CASE NextSibling
  <2>1. CallOK /\ WalkOK
    BY <1>1, <1>8 DEF NextSibling, Walking
  <2> QED BY <1>1, <1>8, <2>1, NextSiblingKeeps DEF CopyInv
<1>9. CASE GoUp
  <2>1. CallOK /\ WalkOK
    BY <1>1, <1>9 DEF GoUp, Walking
  <2> QED BY <1>1, <1>9, <2>1, GoUpKeeps DEF CopyInv
<1>10. CASE CopyDone
  <2>1. /\ name' = name /\ up' = up /\ kids' = kids
        /\ dn' = Nil /\ onward' = FALSE /\ complete' = TRUE
    BY <1>10 DEF CopyDone, tree
  <2>2. TypeOK' /\ Exists' = Exists
    BY <1>1, <2>1 DEF TypeOK, Exists
  <2>3. TreeOK'
    BY <1>1, <2>1, <2>2 DEF TreeOK
  <2> QED BY <2>1, <2>2, <2>3 DEF CopyInv, Idle
<1>11. CASE UNCHANGED vars
  <2>1. /\ UNCHANGED <<tree, dn, sn, before>> /\ dit' = dit /\ sit' = sit
        /\ onward' = onward /\ complete' = complete
    BY <1>11 DEF vars, loop, ghosts
  <2>2. /\ name' = name /\ up' = up /\ kids' = kids /\ dn' = dn /\ sn' = sn /\ before' = before
    BY <2>1 DEF tree
  <2>3. CASE Idle
    <3>1. TypeOK' /\ Exists' = Exists /\ Idle'
      BY <1>1, <2>1, <2>2, <2>3 DEF TypeOK, Exists, Idle
    <3>2. TreeOK'
      BY <1>1, <2>2, <3>1 DEF TreeOK
    <3> QED BY <3>1, <3>2 DEF CopyInv
  <2>4. CASE CallOK /\ WalkOK
    <3>1. /\ TypeOK' /\ TreeOK' /\ CallOK'
          /\ Original' = Original /\ Subtree(dn)' = Subtree(dn)
      BY <1>1, <2>1, <2>4, SameTree DEF TypeOK
    <3>2. Walking' <=> Walking
      BY <2>1, <2>2 DEF Walking, Idle
    <3>3. ASSUME NEW V \in SUBSET Inner, NEW P \in SUBSET Inner, NEW t \in [Inner -> Inner],
                 NEW pos \in [Inner -> Nat], Walk(V, P, t, pos)
          PROVE  Walk(V, P, t, pos)'
      <4>1. Twins(V, t)'
        BY <2>1, <3>1, <3>3, SameTwins DEF Walk
      <4>2. Path(V, P, t, pos)'
        BY <2>1, <2>2, <3>1, <3>3 DEF Walk, Path, Parent
      <4>3. complete => Exact(V, P, t, pos)'
        BY <2>1, <2>2, <3>3 DEF Walk, Exact, Passed
      <4> QED BY <2>1, <4>1, <4>2, <4>3 DEF Walk
    <3>4. WalkOK'
      BY <2>1, <2>2, <2>4, <3>1, <3>2, <3>3 DEF WalkOK
    <3> QED BY <3>1, <3>4 DEF CopyInv
  <2> QED BY <1>1, <2>3, <2>4
<1> QED BY <1>2, <1>3, <1>4, <1>5, <1>6, <1>7, <1>8, <1>9, <1>10, <1>11 DEF Next, Copying

(* The trees are a forest, and while node_copy_tree runs the two pointers   *)
(* are at a node of the original and at its copy.                           *)
THEOREM CopyStaysInOrder == Spec => []CopyInv
BY NothingRunsAtFirst, StepKeepsCopyInv, PTL DEF Spec

(* dit is inside the copy while sit is inside the original, and at the end  *)
(* dit has gone up as far as sit (pugixml.cpp:4471, 4477).                  *)
THEOREM PointersKeepTogether == Spec => []LoopInvariant
BY CopyStaysInOrder, PointersStayTogether, PTL

(* The copy is what the original was when the call began, unless an         *)
(* allocation failed, and the original keeps what it had                    *)
(* (pugixml.cpp:4426-4478).                                                 *)
THEOREM CopiesAreExact == Spec => []CopyIsExact
BY CopyStaysInOrder, CopyIsOriginal, PTL

=============================================================================
