------------------------------ MODULE PocoNodes ------------------------------
(***************************************************************************)
(* The reference-counted nodes of one Poco document, as TestPocoXml uses    *)
(* them. A node is owned by whoever counts it: the caller's AutoPtrs, raw   *)
(* owners and node lists (held), the parent or the element it is attached   *)
(* to, and the document's pool of auto-released nodes, which takes over     *)
(* what the tree gives up until collectGarbage or the end of the document.  *)
(*                                                                          *)
(* An action is one call, or one AutoPtr that comes or goes; everything     *)
(* runs in one thread. The caller keeps the rules of DOMObject.h: it        *)
(* releases what it owns and nothing else, and uses no node's document      *)
(* after it is gone. Two calls the library does not look for are left out   *)
(* as the caller's mistakes: a node inserted below itself, and an empty     *)
(* fragment, whose null first child replaces the child list it goes to.     *)
(* Names and values are left out, and so are events: nobody listens.        *)
(***************************************************************************)
EXTENDS Naturals, FiniteSets, Sequences, SequencesExt

CONSTANTS
  Element,      (* cells for Element nodes                                  *)
  Leaf,         (* cells for texts, comments, processing instructions       *)
  Fragment,     (* cells for DocumentFragment nodes                         *)
  Attr,         (* cells for Attr nodes                                     *)
  Doc,          (* the Document                                             *)
  MaxHeld,      (* bound: the owners the caller has of one object           *)
  MaxPooled,    (* bound: the entries one node has in the pool              *)
  Nil           (* the null pointer                                         *)

Child     == Element \cup Leaf
Node      == Child \cup Fragment \cup Attr
Object    == Node \cup {Doc}
Container == Element \cup Fragment \cup {Doc}

ASSUME PocoAssumption ==
  /\ Nil \notin Object
  /\ Doc \notin Node
  /\ Element \cap (Leaf \cup Fragment \cup Attr) = {}
  /\ Leaf \cap (Fragment \cup Attr) = {}
  /\ Fragment \cap Attr = {}
  /\ IsFiniteSet(Attr)
  /\ MaxHeld \in Nat \ {0}
  /\ MaxPooled \in Nat \ {0}

VARIABLES
  alive,        (* the objects constructed and not deleted                  *)
  rc,           (* DOMObject::_rc                                           *)
  held,         (* the caller's owners: AutoPtrs, raw owners, node lists    *)
  pool,         (* Document::_autoReleasePool, a bag                        *)
  up,           (* AbstractNode::_pParent                                   *)
  kids,         (* _pFirstChild and the _pNext chain                        *)
  firstAttr,    (* Element::_pFirstAttr                                     *)
  nextAttr      (* _pNext of an attribute                                   *)

counts == <<rc, held, pool>>
links  == <<up, kids, firstAttr, nextAttr>>
vars == <<alive, counts, links>>

TypeOK ==
  /\ alive \subseteq Object
  /\ rc \in [Object -> Nat]
  /\ held \in [Object -> 0..MaxHeld]
  /\ pool \in [Node -> Nat]
  /\ up \in [Node -> Object \cup {Nil}]
  /\ kids \in [Container -> Seq(Child)]
  /\ firstAttr \in [Element -> Attr \cup {Nil}]
  /\ nextAttr \in [Attr -> Attr \cup {Nil}]

(* new Document: the count starts at one, for the caller.                   *)
Init ==
  /\ alive = {Doc}
  /\ rc = [x \in Object |-> IF x = Doc THEN 1 ELSE 0]
  /\ held = [x \in Object |-> IF x = Doc THEN 1 ELSE 0]
  /\ pool = [n \in Node |-> 0]
  /\ up = [n \in Node |-> Nil]
  /\ kids = [x \in Container |-> << >>]
  /\ firstAttr = [e \in Element |-> Nil]
  /\ nextAttr = [a \in Attr |-> Nil]

-----------------------------------------------------------------------------
(***************************************************************************)
(* Destruction                                                              *)
(***************************************************************************)

(* What the destructor of x releases beside the pool: its children, the     *)
(* first of its attributes, and for an attribute the next one.              *)
Refs(x) ==
  (IF x \in Container THEN ToSet(kids[x]) ELSE {})
    \cup (IF x \in Element THEN {firstAttr[x]} \ {Nil} ELSE {})
    \cup (IF x \in Attr THEN {nextAttr[x]} \ {Nil} ELSE {})

Holders(S, x) == {y \in S : x \in Refs(y)}

(* What happens to the count of x when drop is released and S is deleted.   *)
Released(drop, S, x) ==
  drop[x] + Cardinality(Holders(S, x))
    + (IF Doc \in S /\ x \in Node THEN pool[x] ELSE 0)

(* The objects whose count comes down to zero, one deletion bringing on the *)
(* next: the least set that has every object it releases for the last time. *)
(* Only those can be in it that have no owner beside drop and the living.   *)
Deleted(drop) ==
  LET Ripe == {x \in alive : rc[x] <= Released(drop, alive, x)}
      Closed == {S \in SUBSET Ripe :
                   \A x \in Ripe : rc[x] <= Released(drop, S, x) => x \in S} IN
  {x \in Ripe : \A S \in Closed : x \in S}

(* Fault: the destructor leaves the children's parent as it was.            *)
NoOrphans(dead) == {}

(* A destructor clears the parent of the children it releases, not the      *)
(* element of the attributes.                                               *)
Orphans(dead) == UNION {ToSet(kids[x]) : x \in dead \cap Container}

(* release() of every object, as often as drop says.                        *)
Release(drop) ==
  \E dead \in {Deleted(drop)} :
  /\ alive' = alive \ dead
  /\ rc' = [x \in Object |->
              IF x \in alive \ dead THEN rc[x] - Released(drop, dead, x) ELSE 0]
  /\ up' = [n \in Node |-> IF n \in Orphans(dead) \cup dead THEN Nil ELSE up[n]]
  /\ kids' = [x \in Container |-> IF x \in dead THEN << >> ELSE kids[x]]
  /\ firstAttr' = [e \in Element |-> IF e \in dead THEN Nil ELSE firstAttr[e]]
  /\ nextAttr' = [a \in Attr |-> IF a \in dead THEN Nil ELSE nextAttr[a]]

(* An AutoPtr goes out of scope, a raw owner or the owner of a node list    *)
(* calls release.                                                           *)
DropHandle(x) ==
  /\ held[x] > 0
  /\ held' = [held EXCEPT ![x] = @ - 1]
  /\ Release([y \in Object |-> IF y = x THEN 1 ELSE 0])
  /\ pool' = [n \in Node |-> IF Doc \in alive' THEN pool[n] ELSE 0]

CollectGarbage ==
  /\ Doc \in alive
  /\ \E n \in Node : pool[n] > 0
  /\ Release([x \in Object |-> IF x = Doc THEN 0 ELSE pool[x]])
  /\ pool' = [n \in Node |-> 0]
  /\ UNCHANGED held

-----------------------------------------------------------------------------
(***************************************************************************)
(* Owners                                                                   *)
(***************************************************************************)

(* Document::create*: the count starts at one, for the caller.              *)
CreateNode(n) ==
  /\ Doc \in alive
  /\ n \notin alive
  /\ alive' = alive \cup {n}
  /\ rc' = [rc EXCEPT ![n] = 1]
  /\ held' = [held EXCEPT ![n] = 1]
  /\ UNCHANGED <<pool, links>>

(* duplicate: an AutoPtr is copied, or childNodes and attributes return a   *)
(* list that owns its node until the list is released.                      *)
Duplicate(x) ==
  /\ x \in alive
  /\ held[x] < MaxHeld
  /\ rc' = [rc EXCEPT ![x] = @ + 1]
  /\ held' = [held EXCEPT ![x] = @ + 1]
  /\ UNCHANGED <<alive, pool, links>>

(* autoRelease: the caller's count is left to the document.                 *)
AutoRelease(n) ==
  /\ Doc \in alive
  /\ held[n] > 0
  /\ held' = [held EXCEPT ![n] = @ - 1]
  /\ pool' = [pool EXCEPT ![n] = @ + 1]
  /\ UNCHANGED <<alive, rc, links>>

-----------------------------------------------------------------------------
(***************************************************************************)
(* AbstractContainerNode                                                    *)
(***************************************************************************)

Position(s, x) == CHOOSE i \in DOMAIN s : s[i] = x

(* p is n, or is below it.                                                  *)
Within(p, n) ==
  \A S \in SUBSET Container :
    /\ n \in S
    /\ \A y \in S : ToSet(kids[y]) \cap Container \subseteq S
    => p \in S

CanTake(p, n) ==
  /\ {Doc, p, n} \subseteq alive
  /\ n \in Container => ~Within(p, n)

Without(c) ==
  [x \in Container |-> IF x = up[c] THEN RemoveAt(kids[x], Position(kids[x], c)) ELSE kids[x]]

(* Fault: the count a removed node had from its parent is simply kept.      *)
NotPooled(bag, n) == bag

(* removeChild leaves the parent's count to the pool.                       *)
Pooled(bag, n) == [bag EXCEPT ![n] = @ + 1]

PooledIfAttached(bag, c) == IF up[c] = Nil THEN bag ELSE Pooled(bag, c)

(* The list s goes before r, or behind everything if r is Nil.              *)
Placed(ks, s, r) ==
  IF r = Nil THEN ks \o s
  ELSE LET i == Position(ks, r) IN SubSeq(ks, 1, i - 1) \o s \o SubSeq(ks, i, Len(ks))

(* newChild->duplicate(), for the new parent.                               *)
Counted(c) == [rc EXCEPT ![c] = @ + 1]

(* insertBefore and appendChild of a child that is no fragment.             *)
InsertBefore(p, c, r) ==
  /\ r \in ({Nil} \cup ToSet(kids[p])) \ {c}
  /\ CanTake(p, c)
  /\ rc' = Counted(c)
  /\ pool' = PooledIfAttached(pool, c)
  /\ up' = [up EXCEPT ![c] = p]
  /\ kids' = [Without(c) EXCEPT ![p] = Placed(@, <<c>>, r)]
  /\ UNCHANGED <<alive, held, firstAttr, nextAttr>>

(* The children of a fragment are moved with the counts they have.          *)
InsertFragment(p, f, r) ==
  /\ kids[f] # << >>
  /\ r \in {Nil} \cup ToSet(kids[p])
  /\ CanTake(p, f)
  /\ up' = [n \in Node |-> IF n \in ToSet(kids[f]) THEN p ELSE up[n]]
  /\ kids' = [kids EXCEPT ![p] = Placed(@, kids[f], r), ![f] = << >>]
  /\ UNCHANGED <<alive, counts, firstAttr, nextAttr>>

(* Fault: the parent's count is released at once.                           *)
RemoveChildAtOnce(p, c) ==
  /\ Doc \in alive
  /\ c \in ToSet(kids[p])
  /\ rc' = [rc EXCEPT ![c] = @ - 1]
  /\ alive' = IF rc[c] = 1 THEN alive \ {c} ELSE alive
  /\ up' = [up EXCEPT ![c] = Nil]
  /\ kids' = Without(c)
  /\ UNCHANGED <<held, pool, firstAttr, nextAttr>>

RemoveChild(p, c) ==
  /\ Doc \in alive
  /\ c \in ToSet(kids[p])
  /\ pool' = Pooled(pool, c)
  /\ up' = [up EXCEPT ![c] = Nil]
  /\ kids' = Without(c)
  /\ UNCHANGED <<alive, rc, held, firstAttr, nextAttr>>

(* replaceChild with a node that is no fragment: the new child leaves its   *)
(* parent, which may be p, and takes the place of the old one.              *)
ReplaceChild(p, new, old) ==
  /\ old \in ToSet(kids[p]) \ {new}
  /\ CanTake(p, new)
  /\ rc' = Counted(new)
  /\ pool' = Pooled(PooledIfAttached(pool, new), old)
  /\ up' = [up EXCEPT ![new] = p, ![old] = Nil]
  /\ kids' = [Without(new) EXCEPT ![p] = [@ EXCEPT ![Position(@, old)] = new]]
  /\ UNCHANGED <<alive, held, firstAttr, nextAttr>>

(* replaceChild with a fragment: insertBefore, then removeChild.            *)
ReplaceByFragment(p, f, old) ==
  /\ kids[f] # << >>
  /\ old \in ToSet(kids[p])
  /\ CanTake(p, f)
  /\ pool' = Pooled(pool, old)
  /\ up' = [n \in Node |->
              IF n \in ToSet(kids[f]) THEN p ELSE IF n = old THEN Nil ELSE up[n]]
  /\ kids' = [kids EXCEPT ![p] = LET ks == Placed(@, kids[f], old) IN RemoveAt(ks, Position(ks, old)),
                          ![f] = << >>]
  /\ UNCHANGED <<alive, rc, held, firstAttr, nextAttr>>

-----------------------------------------------------------------------------
(***************************************************************************)
(* Attributes                                                               *)
(***************************************************************************)

(* The attributes of e, from the first along the chain.                     *)
AttrsOf(e) ==
  LET Closed == {S \in SUBSET Attr :
                   /\ firstAttr[e] # Nil => firstAttr[e] \in S
                   /\ \A a \in S : nextAttr[a] # Nil => nextAttr[a] \in S} IN
  {a \in Attr : \A S \in Closed : a \in S}

(* removeAttributeNode: the one before old, or the element, skips it.       *)
FirstWithout(e, old) == IF firstAttr[e] = old THEN nextAttr[old] ELSE firstAttr[e]
NextWithout(old) ==
  [a \in Attr |-> IF a = old THEN Nil ELSE IF nextAttr[a] = old THEN nextAttr[old] ELSE nextAttr[a]]

RemoveAttributeNode(e, old) ==
  /\ Doc \in alive
  /\ e \in alive
  /\ old \in AttrsOf(e)
  /\ firstAttr' = [firstAttr EXCEPT ![e] = FirstWithout(e, old)]
  /\ nextAttr' = NextWithout(old)
  /\ up' = [up EXCEPT ![old] = Nil]
  /\ pool' = Pooled(pool, old)
  /\ UNCHANGED <<alive, rc, held, kids>>

(* a becomes the last in the chain of e, given the chain's links.           *)
Chained(e, a, first, next, all) ==
  IF first = Nil
  THEN firstAttr' = [firstAttr EXCEPT ![e] = a] /\ nextAttr' = next
  ELSE /\ firstAttr' = [firstAttr EXCEPT ![e] = first]
       /\ nextAttr' = [next EXCEPT ![CHOOSE b \in all : next[b] = Nil] = a]

(* setAttributeNode: an attribute in use is refused (INUSE_ATTRIBUTE_ERR);  *)
(* old is the attribute of the same name, or Nil.                           *)
SetAttributeNode(e, a, old) ==
  /\ Doc \in alive
  /\ e \in alive
  /\ a \in alive
  /\ up[a] = Nil
  /\ old \in AttrsOf(e) \cup {Nil}
  /\ IF old = Nil
     THEN /\ Chained(e, a, firstAttr[e], nextAttr, AttrsOf(e))
          /\ UNCHANGED pool
     ELSE /\ Chained(e, a, FirstWithout(e, old), NextWithout(old), AttrsOf(e) \ {old})
          /\ pool' = Pooled(pool, old)
  /\ up' = [n \in Node |-> IF n = a THEN e ELSE IF n = old THEN Nil ELSE up[n]]
  /\ rc' = Counted(a)
  /\ UNCHANGED <<alive, held, kids>>

(* Fault: the reference of createAttribute is kept.                         *)
SetAttributeKept(e, a) ==
  /\ Doc \in alive
  /\ e \in alive
  /\ a \notin alive
  /\ alive' = alive \cup {a}
  /\ rc' = [rc EXCEPT ![a] = 2]
  /\ Chained(e, a, firstAttr[e], nextAttr, AttrsOf(e))
  /\ up' = [up EXCEPT ![a] = e]
  /\ UNCHANGED <<held, pool, kids>>

(* setAttribute of a new name: createAttribute, setAttributeNode, release.  *)
(* Of a name that exists it changes the value only.                         *)
SetAttribute(e, a) ==
  /\ Doc \in alive
  /\ e \in alive
  /\ a \notin alive
  /\ alive' = alive \cup {a}
  /\ rc' = [rc EXCEPT ![a] = 1]
  /\ Chained(e, a, firstAttr[e], nextAttr, AttrsOf(e))
  /\ up' = [up EXCEPT ![a] = e]
  /\ UNCHANGED <<held, pool, kids>>

-----------------------------------------------------------------------------
Owning ==
  \/ \E n \in Node : CreateNode(n) \/ AutoRelease(n)
  \/ \E x \in Object : Duplicate(x) \/ DropHandle(x)
  \/ CollectGarbage

Editing ==
  \E p \in Container :
    \/ \E c \in Child, r \in Child \cup {Nil} : InsertBefore(p, c, r)
    \/ \E f \in Fragment, r \in Child \cup {Nil} : InsertFragment(p, f, r)
    \/ \E c \in Child : RemoveChild(p, c)
    \/ \E new, old \in Child : ReplaceChild(p, new, old)
    \/ \E f \in Fragment, old \in Child : ReplaceByFragment(p, f, old)

Attributing ==
  \E e \in Element, a \in Attr :
    \/ \E old \in Attr \cup {Nil} : SetAttributeNode(e, a, old)
    \/ SetAttribute(e, a)
    \/ RemoveAttributeNode(e, a)

PoolBound == \A n \in Node : pool'[n] <= MaxPooled

Next == (Owning \/ Editing \/ Attributing) /\ PoolBound

Spec == Init /\ [][Next]_vars

-----------------------------------------------------------------------------
(***************************************************************************)
(* Properties                                                               *)
(***************************************************************************)

(* The count of an object is the number of its owners: the caller's, the    *)
(* pool's entries and the one node that has it attached. Every call moves   *)
(* counts between the three without counting twice (DOMObject.h:34).        *)
CountsAreExact ==
  \A x \in Object :
    /\ rc[x] = held[x] + (IF x = Doc THEN 0 ELSE pool[x]) + Cardinality(Holders(alive, x))
    /\ x \in alive <=> rc[x] > 0

(* No link of a living node leads to a deleted one: not to a child, not     *)
(* along an attribute chain, and not to a parent that does not have it as a *)
(* child. The element of an attribute is left out: ~Element does not clear  *)
(* it, and an attribute the caller holds outlives its element               *)
(* (Element.cpp:52).                                                        *)
NothingDangles ==
  \A x \in alive :
    /\ Refs(x) \subseteq alive
    /\ x \in Child \cup Fragment => (up[x] # Nil => up[x] \in alive /\ x \in ToSet(kids[up[x]]))

(* Nothing is lost: every living object is owned by the caller or the pool, *)
(* or is below one that is. A caller that has released what it owned has    *)
(* freed everything (DOMObject.h:39, the memory test of TestPocoXml.cpp:152).*)
NothingLeaks ==
  \A S \in SUBSET alive :
    /\ \A x \in alive : held[x] > 0 \/ (x # Doc /\ pool[x] > 0) => x \in S
    /\ \A y \in S : Refs(y) \subseteq S
    => S = alive

(* The tree frees nothing: a node that removeChild or replaceChild returns  *)
(* stays valid until the caller releases something or collects the garbage, *)
(* although nobody has taken ownership of it (AbstractContainerNode.cpp:264).*)
EditingFreesNothing ==
  [][(\A x \in Object : held'[x] >= held[x]) /\ (\A n \in Node : pool'[n] >= pool[n])
       => alive \subseteq alive']_vars

(* Types, and that every count is exact.                                    *)
CountingInv ==
  /\ TypeOK
  /\ CountsAreExact

=============================================================================
