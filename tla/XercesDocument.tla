---------------------------- MODULE XercesDocument ----------------------------
(***************************************************************************)
(* Raw Xerces-C documents, as TestXerces and XmlDocument use them: creating,*)
(* importing, inserting, removing, replacing and releasing nodes, document  *)
(* fragments, and the pointer to the document element that DOMDocumentImpl  *)
(* caches beside its child list.                                            *)
(*                                                                          *)
(* Everything runs in one thread and an action is one call. A call that     *)
(* throws may be caught, as CreateAndPrint does, so it is a step like the    *)
(* others. An element may be inserted into itself: nothing refuses that, and *)
(* what then never returns ends the run of the program here.                 *)
(***************************************************************************)
EXTENDS Naturals, FiniteSets, Sequences, SequencesExt

CONSTANTS
  Document,     (* DOMDocument objects                                      *)
  Fragment,     (* cells for DOMDocumentFragment nodes                      *)
  Element,      (* cells for DOMElement nodes                               *)
  Misc,         (* processing instructions, comments, blank text            *)
  Text,         (* text that is not blank, CDATA sections                   *)
  Nil           (* the null pointer                                         *)

Node      == Fragment \cup Element \cup Misc \cup Text
Container == Node \cup Document

ASSUME NodeAssumption ==
  /\ Nil \notin Container
  /\ Document \cap Node = {}
  /\ Fragment \cap (Element \cup Misc \cup Text) = {}
  /\ Element \cap (Misc \cup Text) = {}
  /\ Misc \cap Text = {}

VARIABLES
  docs,         (* the documents not released                               *)
  owner,        (* fOwnerDocument; Nil while the cell is free               *)
  up,           (* getParentNode: fOwnerNode if isOwned                     *)
  kids,         (* fFirstChild and the nextSibling chain                    *)
  docElement,   (* DOMDocumentImpl::fDocElement                             *)
  outcome       (* how the last call ended                                  *)

treeVars == <<docs, owner, up, kids, docElement>>
vars == <<treeVars, outcome>>

Outcome == {"ok", "threw", "noReturn"}

TypeOK ==
  /\ docs \subseteq Document
  /\ owner \in [Node -> Document \cup {Nil}]
  /\ up \in [Container -> Container \cup {Nil}]
  /\ kids \in [Container -> Seq(Node)]
  /\ docElement \in [Document -> Element \cup {Nil}]
  /\ outcome \in Outcome

Init ==
  /\ docs = {}
  /\ owner = [n \in Node |-> Nil]
  /\ up = [x \in Container |-> Nil]
  /\ kids = [x \in Container |-> << >>]
  /\ docElement = [d \in Document |-> Nil]
  /\ outcome = "ok"

Allocated == {n \in Node : owner[n] # Nil}

(* The document a node or a document itself belongs to.                     *)
DocumentOf(x) == IF x \in Document THEN x ELSE owner[x]

(* DOMParentNode's subclasses; the leaf nodes refuse every child.           *)
Parent == docs \cup (Allocated \cap (Element \cup Fragment))

(* The nodes reached from x by getParentNode, x excluded.                   *)
Ancestors(u, x) ==
  {a \in Container :
     \A S \in SUBSET Container :
        (\A y \in S \cup {x} : u[y] # Nil => u[y] \in S) => a \in S}

(* The nodes reached from x through child lists, x included.                *)
Subtree(x) ==
  {n \in Container :
     \A S \in SUBSET Container :
        (x \in S /\ \A y \in S : ToSet(kids[y]) \subseteq S) => n \in S}

-----------------------------------------------------------------------------
(***************************************************************************)
(* Creation. A released cell may be used again for a node of its kind.      *)
(***************************************************************************)

CreateDocument(d) ==
  /\ d \notin docs
  /\ docs' = docs \cup {d}
  /\ outcome' = "ok"
  /\ UNCHANGED <<owner, up, kids, docElement>>

(* createDocument with a qualified name: the root comes with it.            *)
CreateDocumentWithRoot(d, e) ==
  /\ d \notin docs
  /\ e \notin Allocated
  /\ docs' = docs \cup {d}
  /\ owner' = [owner EXCEPT ![e] = d]
  /\ up' = [up EXCEPT ![e] = d]
  /\ kids' = [kids EXCEPT ![d] = <<e>>]
  /\ docElement' = [docElement EXCEPT ![d] = e]
  /\ outcome' = "ok"

CreateNode(d, n) ==
  /\ d \in docs
  /\ n \notin Allocated
  /\ owner' = [owner EXCEPT ![n] = d]
  /\ outcome' = "ok"
  /\ UNCHANGED <<docs, up, kids, docElement>>

(* importNode: f gives the cell of each copy; the copy of n has no parent.  *)
Imported(n, deep) == IF deep THEN Subtree(n) ELSE {n}

IsImport(f) ==
  /\ IsInjective(f)
  /\ \A m \in DOMAIN f :
        /\ f[m] \in Node \ Allocated
        /\ \A Kind \in {Fragment, Element, Misc, Text} : m \in Kind <=> f[m] \in Kind

Original(f, x) == CHOOSE m \in DOMAIN f : f[m] = x

ImportNode(d, n, f) ==
  LET new == {f[m] : m \in DOMAIN f} IN
  /\ owner' = [x \in Node |-> IF x \in new THEN d ELSE owner[x]]
  /\ up' = [x \in Container |->
              IF x \in new \ {f[n]} THEN f[up[Original(f, x)]] ELSE up[x]]
  /\ kids' = [x \in Container |->
                IF x \in new /\ DOMAIN f # {n}
                THEN LET ks == kids[Original(f, x)] IN [i \in DOMAIN ks |-> f[ks[i]]]
                ELSE kids[x]]
  /\ outcome' = "ok"
  /\ UNCHANGED <<docs, docElement>>

(* The deep copy of a node that is its own child goes on until the stack    *)
(* is used up. No other node has such a node below it.                      *)
ImportWithoutEnd(n) ==
  /\ n \in ToSet(kids[n])
  /\ outcome' = "noReturn"
  /\ UNCHANGED treeVars

-----------------------------------------------------------------------------
(***************************************************************************)
(* removeChild                                                              *)
(***************************************************************************)

Position(s, x) == CHOOSE i \in DOMAIN s : s[i] = x

(* DOMParentNode::removeChild on the old parent of c, if it has one.        *)
KidsWithout(ks, u, c) ==
  IF u[c] = Nil THEN ks
  ELSE [ks EXCEPT ![u[c]] = RemoveAt(@, Position(@, c))]

(* Fault: the document element stays cached when it is removed.             *)
StillCached(cache, p, c) == cache

(* DOMDocumentImpl::removeChild: whichever element goes, the cache goes.    *)
Uncached(cache, p, c) ==
  IF p \in Document /\ c \in Element THEN [cache EXCEPT ![p] = Nil] ELSE cache

RemoveChild(p, c) ==
  /\ up[c] = p
  /\ up' = [up EXCEPT ![c] = Nil]
  /\ kids' = KidsWithout(kids, up, c)
  /\ docElement' = Uncached(docElement, p, c)
  /\ outcome' = "ok"
  /\ UNCHANGED <<docs, owner>>

RemoveChildThrows(p, c) ==
  /\ up[c] # p
  /\ outcome' = "threw"
  /\ UNCHANGED treeVars

-----------------------------------------------------------------------------
(***************************************************************************)
(* insertBefore(c, r), r = Nil for appendChild. A fragment is emptied child *)
(* by child through the virtual insertBefore of the target, which for a     *)
(* document refuses an element once there is a document element.            *)
(***************************************************************************)

IsKidOK(p, c) ==
  /\ c \notin Fragment
  /\ p \in Document => c \notin Text

Arriving(c) == IF c \in Fragment THEN kids[c] ELSE <<c>>

(* Faults: no walk up the ancestors; no look at the children of a fragment  *)
(* before the first is moved.                                               *)
RefusedUpwards(p, c, r) ==
  \/ owner[c] # DocumentOf(p)
  \/ r # Nil /\ up[r] # p
  \/ c # r /\ \E i \in DOMAIN Arriving(c) : ~IsKidOK(p, Arriving(c)[i])

RefusedUnscanned(p, c, r) ==
  \/ owner[c] # DocumentOf(p)
  \/ kids[c] # << >> /\ c \in Ancestors(up, p)
  \/ r # Nil /\ up[r] # p
  \/ c # r /\ c \notin Fragment /\ ~IsKidOK(p, c)

(* What DOMParentNode::insertBefore refuses before it changes anything.     *)
Refused(p, c, r) ==
  \/ owner[c] # DocumentOf(p)
  \/ kids[c] # << >> /\ c \in Ancestors(up, p)
  \/ r # Nil /\ up[r] # p
  \/ c # r /\ \E i \in DOMAIN Arriving(c) : ~IsKidOK(p, Arriving(c)[i])

(* The i-th arrival, when those before it are in place: root is the element *)
(* the document had before the first.                                       *)
Accepts(root, p, ms, i) ==
  /\ IsKidOK(p, ms[i])
  /\ p \in Document /\ ms[i] \in Element =>
        root = Nil /\ \A j \in 1 .. i - 1 : ms[j] \notin Element

(* The arrivals all get in, or only the first n of them do.                 *)
TakesAll(root, p, ms) == \A i \in DOMAIN ms : Accepts(root, p, ms, i)

StopsAt(root, p, ms, n) ==
  /\ n < Len(ms)
  /\ \A i \in 1 .. n : Accepts(root, p, ms, i)
  /\ ~Accepts(root, p, ms, n + 1)

(* Fault: each child of a fragment goes to the front.                       *)
PlacedInFront(s, ms, r) == Reverse(ms) \o s

Placed(s, ms, r) ==
  IF r = Nil THEN s \o ms
  ELSE LET i == Position(s, r)
       IN  SubSeq(s, 1, i - 1) \o ms \o SubSeq(s, i, Len(s))

(* The child lists once the first n arrivals are in place.                  *)
KidsAfter(p, c, r, n) ==
  LET left == IF c \in Fragment
              THEN [kids EXCEPT ![c] = SubSeq(@, n + 1, Len(@))]
              ELSE KidsWithout(kids, up, c)
  IN  IF c = r THEN kids
      ELSE [left EXCEPT ![p] = Placed(@, SubSeq(Arriving(c), 1, n), r)]

UpAfter(p, c, n) ==
  [x \in Container |->
     IF \E i \in 1 .. n : x = Arriving(c)[i] THEN p ELSE up[x]]

(* The cache: uncached where an element leaves, cached where one arrives.   *)
CacheAfter(cache, p, c, n) ==
  LET left == IF up[c] = Nil THEN cache ELSE Uncached(cache, up[c], c)
      new  == {Arriving(c)[i] : i \in 1 .. n} \cap Element
  IN  IF p \in Document /\ new # {}
      THEN [left EXCEPT ![p] = CHOOSE e \in new : TRUE]
      ELSE left

RootOf(p) == IF p \in Document THEN docElement[p] ELSE Nil

(* The walk up from p that a c with children is looked for in: it begins    *)
(* above p, so that an element is never found to be inserted into itself,   *)
(* and where a node is its own parent it has no end.                        *)
Endless(p, c) ==
  /\ owner[c] = DocumentOf(p)
  /\ kids[c] # << >>
  /\ c \notin Ancestors(up, p)
  /\ \A a \in Ancestors(up, p) \cup {p} : up[a] # Nil

InsertBefore(p, c, r) ==
  LET n == Len(Arriving(c)) IN
  /\ c \in Fragment => p # c
  /\ ~Endless(p, c)
  /\ ~Refused(p, c, r)
  /\ TakesAll(RootOf(p), p, Arriving(c))
  /\ up' = UpAfter(p, c, n)
  /\ kids' = KidsAfter(p, c, r, n)
  /\ docElement' = CacheAfter(docElement, p, c, n)
  /\ outcome' = "ok"
  /\ UNCHANGED <<docs, owner>>

InsertBeforeThrows(p, c, r) ==
  /\ ~Endless(p, c)
  /\ \/ Refused(p, c, r)
     \/ c \notin Fragment /\ ~TakesAll(RootOf(p), p, <<c>>)
  /\ outcome' = "threw"
  /\ UNCHANGED treeVars

(* A document that takes the first n children of a fragment and refuses the *)
(* next: the exception leaves the two halves where they are.                *)
InsertBeforeStops(p, f, r, n) ==
  /\ f \in Fragment
  /\ p # f
  /\ ~Refused(p, f, r)
  /\ StopsAt(RootOf(p), p, kids[f], n)
  /\ up' = UpAfter(p, f, n)
  /\ kids' = KidsAfter(p, f, r, n)
  /\ docElement' = CacheAfter(docElement, p, f, n)
  /\ outcome' = "threw"
  /\ UNCHANGED <<docs, owner>>

(* A fragment inserted into itself always has a child left to move; before  *)
(* a child that replaceChild is to remove from it, too.                     *)
InsertIntoItself(f, r) ==
  /\ f \in Fragment
  /\ ~Refused(f, f, r)
  /\ outcome' = IF kids[f] = << >> THEN "ok" ELSE "noReturn"
  /\ UNCHANGED treeVars

(* insertBefore, or replaceChild, that never comes to the end of its walk.  *)
WalkWithoutEnd(p, c) ==
  /\ Endless(p, c)
  /\ outcome' = "noReturn"
  /\ UNCHANGED treeVars

-----------------------------------------------------------------------------
(***************************************************************************)
(* replaceChild: an insertion before r, then the removal of r.              *)
(***************************************************************************)

ReplaceChild(p, c, r) ==
  LET n == Len(Arriving(c)) IN
  /\ p \notin Document
  /\ c \in Fragment => p # c
  /\ r # Nil
  /\ ~Endless(p, c)
  /\ ~Refused(p, c, r)
  /\ up' = [UpAfter(p, c, n) EXCEPT ![r] = Nil]
  /\ kids' = KidsWithout(KidsAfter(p, c, r, n), UpAfter(p, c, n), r)
  /\ docElement' = CacheAfter(docElement, p, c, n)
  /\ outcome' = "ok"
  /\ UNCHANGED <<docs, owner>>

(* The document forgets its element first, when that is what goes.          *)
Forgotten(d, r) == Uncached(docElement, d, r)

Replaced(d, c, r, n) == CacheAfter(Forgotten(d, r), d, c, n)

ReplaceDocumentChild(d, c, r) ==
  LET n == Len(Arriving(c)) IN
  /\ r # Nil
  /\ ~Refused(d, c, r)
  /\ TakesAll(Forgotten(d, r)[d], d, Arriving(c))
  /\ up' = [UpAfter(d, c, n) EXCEPT ![r] = Nil]
  /\ kids' = KidsWithout(KidsAfter(d, c, r, n), UpAfter(d, c, n), r)
  /\ docElement' = Replaced(d, c, r, n)
  /\ outcome' = "ok"
  /\ UNCHANGED <<docs, owner>>

(* catch (...) puts the old element back into the cache, whatever part of a *)
(* fragment has arrived.                                                    *)
ReplaceDocumentChildStops(d, c, r, n) ==
  /\ r # Nil
  /\ ~Refused(d, c, r)
  /\ StopsAt(Forgotten(d, r)[d], d, Arriving(c), n)
  /\ IF c \in Fragment
     THEN up' = UpAfter(d, c, n) /\ kids' = KidsAfter(d, c, r, n)
     ELSE UNCHANGED <<up, kids>>
  /\ outcome' = "threw"
  /\ UNCHANGED <<docs, owner, docElement>>

ReplaceChildThrows(p, c, r) ==
  /\ r # Nil
  /\ ~Endless(p, c)
  /\ Refused(p, c, r)
  /\ outcome' = "threw"
  /\ UNCHANGED treeVars

-----------------------------------------------------------------------------
(***************************************************************************)
(* release                                                                  *)
(***************************************************************************)

Freed(S) ==
  /\ owner' = [n \in Node |-> IF n \in S THEN Nil ELSE owner[n]]
  /\ up' = [x \in Container |-> IF x \in S THEN Nil ELSE up[x]]
  /\ kids' = [x \in Container |-> IF x \in S THEN << >> ELSE kids[x]]

(* Fault: release does not ask whether a parent owns the node.              *)
ReleaseOwned(n) ==
  /\ Freed(Subtree(n))
  /\ outcome' = "ok"
  /\ UNCHANGED <<docs, docElement>>

Release(n) ==
  /\ up[n] = Nil
  /\ Freed(Subtree(n))
  /\ outcome' = "ok"
  /\ UNCHANGED <<docs, docElement>>

ReleaseThrows(n) ==
  /\ up[n] # Nil
  /\ outcome' = "threw"
  /\ UNCHANGED treeVars

(* Every node the document created lives in its heap, attached or not.      *)
Heap(d) == {n \in Node : owner[n] = d} \cup {d}

ReleaseDocument(d) ==
  /\ docs' = docs \ {d}
  /\ Freed(Heap(d))
  /\ docElement' = [docElement EXCEPT ![d] = Nil]
  /\ outcome' = "ok"

-----------------------------------------------------------------------------
Creation ==
  \/ \E d \in Document :
        CreateDocument(d) \/ \E e \in Element : CreateDocumentWithRoot(d, e)
  \/ \E d \in docs, n \in Node : CreateNode(d, n)

Importing ==
  \E d \in docs, n \in Allocated, deep \in BOOLEAN :
     /\ deep => n \notin ToSet(kids[n])
     /\ \E f \in [Imported(n, deep) -> Node \ Allocated] :
        IsImport(f) /\ ImportNode(d, n, f)

Insertion ==
  \E p \in Parent, c \in Allocated, r \in Allocated \cup {Nil} :
     \/ InsertBefore(p, c, r)
     \/ InsertBeforeThrows(p, c, r)
     \/ \E n \in 0 .. Len(kids[c]) : InsertBeforeStops(p, c, r, n)

Removal ==
  \E p \in Parent, c \in Allocated : RemoveChild(p, c) \/ RemoveChildThrows(p, c)

Destruction ==
  \/ \E n \in Allocated : Release(n) \/ ReleaseThrows(n)
  \/ \E d \in docs : ReleaseDocument(d)

(* A child of a document is replaced as XmlDocument does it: by another     *)
(* node, and that no fragment.                                              *)
ReplaceByNode ==
  \E p \in Parent, c \in Allocated, r \in Allocated :
     \/ ReplaceChild(p, c, r)
     \/ ReplaceChildThrows(p, c, r)
     \/ /\ p \in Document /\ c # r /\ c \notin Fragment
        /\ ReplaceDocumentChild(p, c, r) \/ ReplaceDocumentChildStops(p, c, r, 0)

ReplaceByAnything ==
  \E d \in docs, c \in Allocated, r \in Allocated :
     \/ ReplaceDocumentChild(d, c, r)
     \/ \E n \in 0 .. Len(kids[c]) : ReplaceDocumentChildStops(d, c, r, n)

Hang ==
  \/ \E f \in Allocated, r \in Allocated \cup {Nil} : InsertIntoItself(f, r)
  \/ \E p \in Parent, c \in Allocated : WalkWithoutEnd(p, c)
  \/ \E n \in Allocated : ImportWithoutEnd(n)

CarefulNext ==
  /\ outcome # "noReturn"
  /\ \/ Creation \/ Importing \/ Insertion \/ Removal
     \/ Destruction \/ ReplaceByNode \/ Hang

Next == CarefulNext \/ (outcome # "noReturn" /\ ReplaceByAnything)

CarefulSpec == Init /\ [][CarefulNext]_vars

Spec == Init /\ [][Next]_vars

-----------------------------------------------------------------------------
(* A child list and the parent pointers of its members agree, and no list   *)
(* has a node twice: insertBefore and removeChild write both sides.         *)
ListsMirrorParents ==
  /\ \A x, n \in Container : up[n] = x <=> n \in ToSet(kids[x])
  /\ \A x \in Container : IsInjective(kids[x])

(* No node in use is linked to a freed one, or to one of another document's *)
(* heap, which would go away with that document: isOwned guards release,    *)
(* WRONG_DOCUMENT_ERR guards insertBefore, importNode copies.               *)
LinksStayInDocument ==
  /\ \A n \in Allocated : owner[n] \in docs
  /\ \A x \in Container : up[x] # Nil =>
        /\ x \in Allocated
        /\ up[x] \in docs \cup Allocated
        /\ DocumentOf(up[x]) = DocumentOf(x)

(* The one cycle of parents is that of a node inserted into itself,         *)
(* which no check stops; insertBefore's walk up refuses every longer one.   *)
(* Where no element is its own parent, release, importNode and the walk end.*)
OnlySelfInsertionCycles ==
  \A x \in Container : x \in Ancestors(up, x) => up[x] = x

(* What makes these inductive: a fragment is never a child, and every set   *)
(* of nodes has one whose parent is outside, or is the node itself.         *)
FragmentsStayOut == \A f \in Fragment : up[f] = Nil

OnlySelfLoops(u) ==
  \A S \in SUBSET Container : S # {} => \E x \in S : u[x] \notin S \ {x}

ForestInv ==
  /\ TypeOK
  /\ ListsMirrorParents
  /\ LinksStayInDocument
  /\ FragmentsStayOut
  /\ OnlySelfLoops(up)

(* fDocElement is the one element in a document's child list, or null when  *)
(* there is none.                                                           *)
RootIsCached ==
  \A d \in Document :
     ToSet(kids[d]) \cap Element = {docElement[d]} \ {Nil}

(* The nodes of a list after a call stand in the order they had before it,  *)
(* in their old list or in the fragment they came from: one call moves at   *)
(* most the one node it names, or all it takes from a fragment.             *)
Precedes(s, x, y) ==
  \E i, j \in DOMAIN s : i < j /\ s[i] = x /\ s[j] = y

OrderIsKept ==
  [][\E c \in Node \cup {Nil} : \A p, q \in Container :
        \A x, y \in (ToSet(kids[p]) \cap ToSet(kids'[q])) \ {c} :
           Precedes(kids[p], x, y) => Precedes(kids'[q], x, y)]_vars

(* A call that throws changes nothing, but for a document that is given a   *)
(* fragment: it keeps the children it took, and the first of those left is  *)
(* the element it refused.                                                  *)
OnlyRootsAreRefusedLate ==
  [][outcome' = "threw" /\ treeVars' # treeVars =>
       \E d \in docs, f \in Allocated \cap Fragment :
          /\ kids'[f] # << >> /\ Head(kids'[f]) \in Element
          /\ ToSet(kids'[d]) \cap Element # {}
          /\ \A x \in Container \ {d, f} : kids'[x] = kids[x]
          /\ ToSet(kids'[d]) \cup ToSet(kids'[f]) = ToSet(kids[d]) \cup ToSet(kids[f])]_vars
=============================================================================
