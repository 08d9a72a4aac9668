------------------------------ MODULE XercesDom ------------------------------
(***************************************************************************)
(* The part of the Xerces-C DOM that the wrappers of XercesSingleton stand  *)
(* on: the element nodes of one DOMDocument pool, as functions over cells.  *)
(*                                                                          *)
(*   up[e]     the parent element, or Nil         (fOwnerNode + isOwned)    *)
(*   kids[e]   the element children in order      (fFirstChild/nextSibling) *)
(*   texts[e]  the text children, each with the number of element children  *)
(*             that precede it, so that kids and texts together are the     *)
(*             whole child list                                             *)
(*   attrs[e]  the attribute map                  (DOMAttrMapImpl)          *)
(*                                                                          *)
(* The operators are the DOM calls: each takes the maps it reads and gives  *)
(* the new value of the map it writes. Strings are abstracted: a text or an *)
(* attribute value is a model value; an attribute name is its rank in the   *)
(* order of std::map<std::string, ...>, and InvalidName holds the names     *)
(* that DOMDocumentImpl::isXMLName refuses.                                 *)
(***************************************************************************)
EXTENDS Naturals, Sequences, SequencesExt

CONSTANTS
  Element,      (* memory cells for DOM element nodes                       *)
  Text,         (* character data                                           *)
  Name,         (* attribute names, by their rank in std::map order         *)
  InvalidName,  (* the names isXMLName refuses                              *)
  Value,        (* attribute values                                         *)
  Absent,       (* "no such attribute"                                      *)
  Nil           (* the null pointer                                         *)

ASSUME DomAssumption ==
  /\ Name \subseteq Nat
  /\ InvalidName \subseteq Name
  /\ Absent \notin Value
  /\ Nil \notin Element

TextNode   == [value : Text, at : Nat]
Attributes == [Name -> Value \cup {Absent}]
Content    == [kids : Seq(Element), texts : Seq(TextNode), attrs : Attributes]

NoAttributes == [n \in Name |-> Absent]

(***************************************************************************)
(* Navigation. Both closures are the least set with the property, so a      *)
(* cyclic structure has a (finite) answer too.                              *)
(***************************************************************************)

(* The nodes reached from e through child lists, e included: what release, *)
(* cloneNode(deep), importNode(deep) and isEqualNode walk over.            *)
Subtree(kids, e) ==
  {n \in Element :
     \A S \in SUBSET Element :
        (e \in S /\ \A y \in S : ToSet(kids[y]) \subseteq S) => n \in S}

(* The nodes reached from e through getParentNode, e included.             *)
UpChain(up, e) ==
  {n \in Element :
     \A S \in SUBSET Element :
        (e \in S /\ \A y \in S : up[y] # Nil => up[y] \in S) => n \in S}

Ancestors(up, e) == IF up[e] = Nil THEN {} ELSE UpChain(up, up[e])

(* A deep import of e into another document: the nodes below e and all     *)
(* they contain. isEqualNode(copy, e) compares exactly this.               *)
ImportNode(kids, texts, attrs, e) ==
  [n \in Subtree(kids, e) |->
     [kids |-> kids[n], texts |-> texts[n], attrs |-> attrs[n]]]

(***************************************************************************)
(* insertBefore(child, ref), ref = Nil for an append.                       *)
(***************************************************************************)

HasChildNodes(kids, texts, e) == kids[e] # << >> \/ texts[e] # << >>

(* Fault: insertBefore without the walk that prevents cycles.              *)
InsertAllowedUnchecked(up, kids, texts, p, c, r) == r # Nil => up[r] = p

(* The checks of DOMParentNode::insertBefore, in its order. The ancestor   *)
(* walk starts at the PARENT of p: p itself is not compared with c.        *)
InsertAllowed(up, kids, texts, p, c, r) ==
  /\ HasChildNodes(kids, texts, c) => c \notin Ancestors(up, p)
  /\ r # Nil => up[r] = p

Position(seq, e) == CHOOSE i \in DOMAIN seq : seq[i] = e

(* The texts with i elements or more before them get one more, or one less. *)
MoveDown(ts, i) ==
  [j \in DOMAIN ts |->
     IF ts[j].at >= i THEN [ts[j] EXCEPT !.at = @ + 1] ELSE ts[j]]

MoveUp(ts, i) ==
  [j \in DOMAIN ts |->
     IF ts[j].at >= i THEN [ts[j] EXCEPT !.at = @ - 1] ELSE ts[j]]

(* oldparent->removeChild(newChild), when there is an old parent. The text *)
(* children behind the removed element have one element less before them.  *)
KidsWithout(kids, up, c) ==
  IF up[c] = Nil THEN kids
  ELSE [kids EXCEPT ![up[c]] = RemoveAt(@, Position(@, c))]

TextsWithout(texts, kids, up, c) ==
  IF up[c] = Nil THEN texts
  ELSE [texts EXCEPT ![up[c]] = MoveUp(@, Position(kids[up[c]], c))]

(* The attachment proper: c goes before r, or behind every child if r = Nil; *)
(* a text child behind the insertion point has one more element before it. *)
KidsWith(kids, p, c, r) ==
  IF r = Nil
  THEN [kids EXCEPT ![p] = Append(@, c)]
  ELSE [kids EXCEPT ![p] = InsertAt(@, Position(@, r), c)]

TextsWith(texts, kids, p, r) ==
  IF r = Nil THEN texts
  ELSE [texts EXCEPT ![p] = MoveDown(@, Position(kids[p], r))]

KidsAfterInsert(kids, up, p, c, r) ==
  IF c = r THEN kids ELSE KidsWith(KidsWithout(kids, up, c), p, c, r)

TextsAfterInsert(texts, kids, up, p, c, r) ==
  IF c = r THEN texts
  ELSE TextsWith(TextsWithout(texts, kids, up, c), KidsWithout(kids, up, c), p, r)

UpAfterInsert(up, p, c) == [up EXCEPT ![c] = p]

(***************************************************************************)
(* setAttribute and XmlAttributes (std::map<std::string, std::string>).     *)
(***************************************************************************)

XmlAttributes == UNION {[S -> Value] : S \in SUBSET Name}

(* Setting the entries in map order: the first name that createAttribute   *)
(* refuses throws, and the entries behind it are never reached.            *)
Accepted(new) ==
  {n \in DOMAIN new : \A m \in DOMAIN new : m <= n => m \notin InvalidName}

SetAll(old, new) ==
  [n \in Name |-> IF n \in Accepted(new) THEN new[n] ELSE old[n]]

Throws(new) == Accepted(new) # DOMAIN new
=============================================================================
