---------------------------- MODULE XercesAdapter ----------------------------
(***************************************************************************)
(* ParsingXml/XercesSingleton: XmlElement and XmlDocument wrappers held by  *)
(* std::shared_ptr, the singleton XercesAdapter that creates and links      *)
(* them, and the DOM nodes behind them in the pool of _dummyDoc.            *)
(*                                                                          *)
(* A wrapper and the DOM node it wraps share one name: a wrapper is made    *)
(* once, for a node just allocated, and never re-seated, so "the wrapper of *)
(* e" is well defined as long as no wrapper outlives its node, which is the *)
(* invariant NoDanglingWrapper. The program is single-threaded: an action   *)
(* is one call of the adapter's interface, with every destructor it runs.   *)
(***************************************************************************)
EXTENDS XercesDom

CONSTANTS
  Document      (* DOMDocument objects; a bound on CreateXmlDocument calls  *)

ASSUME DocumentAssumption ==
  /\ Document \cap Element = {}
  /\ Nil \notin Document

VARIABLES
  (* the DOM nodes of _dummyDoc *)
  alloc,        (* cells in use                                             *)
  up, kids, texts, attrs,
  (* the DOMDocuments made by CreateEmptyDOMDocument *)
  domDocs,      (* those not released                                       *)
  copy,         (* the imported tree under the document, or Nil             *)
  (* the C++ wrapper objects *)
  live,         (* constructed and not destroyed                            *)
  parent,       (* XmlElement::_parent                                      *)
  root,         (* XmlDocument::_rootElement                                *)
  (* the caller *)
  held,         (* wrappers the caller has a shared_ptr to                  *)
  status,       (* running, or how it stopped                               *)
  outcome       (* how the last call ended                                  *)

domVars  == <<alloc, up, kids, texts, attrs>>
docVars  == <<domDocs, copy>>
wrapVars == <<live, parent, root>>
vars == <<domVars, docVars, wrapVars, held, status, outcome>>

Node    == Element \cup Document
Status  == {"running", "hung", "terminated", "exited"}
Outcome == {"ok", "threw", "addSwallowed", "setSwallowed", "noReturn"}

TypeOK ==
  /\ alloc \subseteq Element
  /\ up \in [Element -> Element \cup {Nil}]
  /\ kids \in [Element -> Seq(Element)]
  /\ texts \in [Element -> Seq(TextNode)]
  /\ attrs \in [Element -> Attributes]
  /\ domDocs \subseteq Document
  /\ copy = [d \in Document |-> copy[d]]
  /\ \A d \in Document :
        copy[d] = Nil \/ \E S \in SUBSET Element : copy[d] \in [S -> Content]
  /\ live \subseteq Node
  /\ parent \in [Element -> Node \cup {Nil}]
  /\ root \in [Document -> Element \cup {Nil}]
  /\ held \subseteq live
  /\ status \in Status
  /\ outcome \in Outcome

Init ==
  /\ alloc = {}
  /\ up = [e \in Element |-> Nil]
  /\ kids = [e \in Element |-> << >>]
  /\ texts = [e \in Element |-> << >>]
  /\ attrs = [e \in Element |-> NoAttributes]
  /\ domDocs = {}
  /\ copy = [d \in Document |-> Nil]
  /\ live = {}
  /\ parent = [e \in Element |-> Nil]
  /\ root = [d \in Document |-> Nil]
  /\ held = {}
  /\ status = "running"
  /\ outcome = "ok"

Returns(result) == outcome' = result /\ status' = status

HasParent(e) == parent[e] # Nil

(***************************************************************************)
(* NotifyDeepValueChanged: up the _parent chain to a document, which then   *)
(* imports the root's tree again unless its copy is equal to it. The chain  *)
(* ends at an element without parent, so at most one document is reached.   *)
(* The new maps are parameters: the call comes last in each operation.      *)
(***************************************************************************)

ParentChain(par, e) ==
  {x \in Node :
     \A S \in SUBSET Node :
        (e \in S /\ \A y \in S \cap Element : par[y] # Nil => par[y] \in S)
           => x \in S}

(* Fault: the notification stops at the element's own parent.              *)
NotifiedParentOnly(par, e) == {par[e]} \cap Document

Notified(par, e) == ParentChain(par, e) \cap Document

(* Fault: only a document that is still empty imports the root.            *)
RefreshedOnce(old, ks, ts, as, r) ==
  IF old = Nil THEN ImportNode(ks, ts, as, r) ELSE old

Refreshed(old, ks, ts, as, r) ==
  LET current == ImportNode(ks, ts, as, r) IN
  IF old = Nil \/ old # current THEN current ELSE old

AfterNotify(par, ks, ts, as, e) ==
  [d \in Document |->
     IF d \in Notified(par, e) THEN Refreshed(copy[d], ks, ts, as, root[d])
     ELSE copy[d]]

(***************************************************************************)
(* CreateXmlElement. An invalid tag name throws before anything exists; a   *)
(* refused attribute throws with the wrapper already made: unwinding runs   *)
(* its destructor, which releases the parentless node with its text and the *)
(* attributes set so far.                                                   *)
(***************************************************************************)

CreateXmlElement(e, tagIsValid, text, new) ==
  /\ tagIsValid /\ ~Throws(new)
  /\ alloc' = alloc \cup {e}
  /\ texts' = [texts EXCEPT ![e] = <<[value |-> text, at |-> 0]>>]
  /\ attrs' = [attrs EXCEPT ![e] = SetAll(NoAttributes, new)]
  /\ live' = live \cup {e}
  /\ held' = held \cup {e}
  /\ Returns("ok")
  /\ UNCHANGED <<up, kids, docVars, parent, root>>

(* Fault: the node is wrapped last, so unwinding releases nothing.         *)
UnwoundUnwrapped(e) == alloc \cup {e}

Unwound(e) == (alloc \cup {e}) \ Subtree(kids, e)

CreateXmlElementThrows(e, tagIsValid, new) ==
  /\ ~tagIsValid \/ Throws(new)
  /\ alloc' = IF tagIsValid THEN Unwound(e) ELSE alloc
  /\ Returns("threw")
  /\ UNCHANGED <<up, kids, texts, attrs, docVars, wrapVars, held>>

(***************************************************************************)
(* CopyXmlElement: cloneNode(true) in the same pool; f gives the cell of    *)
(* each cloned node. Only the top of the clone gets a wrapper.              *)
(***************************************************************************)

Original(f, n) == CHOOSE m \in DOMAIN f : f[m] = n

CopyXmlElement(o, f) ==
  LET new == {f[m] : m \in DOMAIN f} IN
  /\ alloc' = alloc \cup new
  /\ up' = [n \in Element |->
              IF n \notin new THEN up[n]
              ELSE IF n = f[o] THEN Nil ELSE f[up[Original(f, n)]]]
  /\ kids' = [n \in Element |->
                IF n \notin new THEN kids[n]
                ELSE LET ks == kids[Original(f, n)]
                     IN  [i \in DOMAIN ks |-> f[ks[i]]]]
  /\ texts' = [n \in Element |-> IF n \in new THEN texts[Original(f, n)] ELSE texts[n]]
  /\ attrs' = [n \in Element |-> IF n \in new THEN attrs[Original(f, n)] ELSE attrs[n]]
  /\ live' = live \cup {f[o]}
  /\ held' = held \cup {f[o]}
  /\ Returns("ok")
  /\ UNCHANGED <<docVars, parent, root>>

(***************************************************************************)
(* AddXmlChildElement(p, c, r), r = Nil when insertBefore is not given.     *)
(* InsertChildBefore refuses a child that has a parent; the DOM refuses the *)
(* rest; catch (...) swallows both, with nothing changed yet. SetParent     *)
(* precedes the notification, so a child that is p itself closes the        *)
(* _parent chain into a cycle that NotifyDeepValueChanged never leaves.     *)
(***************************************************************************)

CanInsert(p, c, r) ==
  /\ ~HasParent(c)
  /\ InsertAllowed(up, kids, texts, p, c, r)

AddXmlChildElement(p, c, r) ==
  /\ CanInsert(p, c, r)
  /\ up' = UpAfterInsert(up, p, c)
  /\ kids' = KidsAfterInsert(kids, up, p, c, r)
  /\ texts' = TextsAfterInsert(texts, kids, up, p, c, r)
  /\ parent' = [parent EXCEPT ![c] = p]
  /\ copy' = AfterNotify(parent', kids', texts', attrs, p)
  /\ IF c \in ParentChain(parent, p)
     THEN status' = "hung" /\ outcome' = "noReturn"
     ELSE Returns("ok")
  /\ UNCHANGED <<alloc, attrs, domDocs, live, root, held>>

AddXmlChildElementRefused(p, c, r) ==
  /\ ~CanInsert(p, c, r)
  /\ Returns("addSwallowed")
  /\ UNCHANGED <<domVars, docVars, wrapVars, held>>

(***************************************************************************)
(* Changing the content of an element.                                      *)
(***************************************************************************)

(* Fault: SetText appends to the old text.                                 *)
KeepTextAndCData(ts) == ts

ClearTextAndCData(ts) == << >>

SetXmlElementText(e, text) ==
  /\ texts' = [texts EXCEPT ![e] =
                 Append(ClearTextAndCData(@), [value |-> text, at |-> Len(kids[e])])]
  /\ copy' = AfterNotify(parent, kids, texts', attrs, e)
  /\ Returns("ok")
  /\ UNCHANGED <<alloc, up, kids, attrs, domDocs, wrapVars, held>>

ClearAttributes(as) == NoAttributes

SetXmlElementAttributes(e, new) ==
  /\ ~Throws(new)
  /\ attrs' = [attrs EXCEPT ![e] = SetAll(ClearAttributes(@), new)]
  /\ copy' = AfterNotify(parent, kids, texts, attrs', e)
  /\ Returns("ok")
  /\ UNCHANGED <<alloc, up, kids, texts, domDocs, wrapVars, held>>

(* A refused name throws out of SetAttributes: the attributes are cleared   *)
(* and partly set, the notification is skipped, catch (...) hides it.       *)
SetXmlElementAttributesSwallows(e, new) ==
  /\ Throws(new)
  /\ attrs' = [attrs EXCEPT ![e] = SetAll(ClearAttributes(@), new)]
  /\ Returns("setSwallowed")
  /\ UNCHANGED <<alloc, up, kids, texts, docVars, wrapVars, held>>

SetXmlElementAttribute(e, name, value) ==
  /\ name \notin InvalidName
  /\ attrs' = [attrs EXCEPT ![e][name] = value]
  /\ copy' = AfterNotify(parent, kids, texts, attrs', e)
  /\ Returns("ok")
  /\ UNCHANGED <<alloc, up, kids, texts, domDocs, wrapVars, held>>

SetXmlElementAttributeThrows(e, name) ==
  /\ name \in InvalidName
  /\ Returns("threw")
  /\ UNCHANGED <<domVars, docVars, wrapVars, held>>

(***************************************************************************)
(* CreateXmlDocument. A version is one of four classes: "listed" is "1.0"   *)
(* or "1.1"; "prefix" is another string that std::stol reads as 1, such as  *)
(* "1.5"; "number" is read as another number, so the default replaces it;   *)
(* on "text" std::stol throws.                                              *)
(***************************************************************************)

Version == {"listed", "prefix", "number", "text"}

CreateXmlDocument(d, r, version) ==
  /\ version \in {"listed", "number"}
  /\ ~HasParent(r)
  /\ domDocs' = domDocs \cup {d}
  /\ live' = live \cup {d}
  /\ held' = held \cup {d}
  /\ root' = [root EXCEPT ![d] = r]
  /\ parent' = [parent EXCEPT ![r] = d]
  /\ copy' = [copy EXCEPT ![d] = Refreshed(@, kids, texts, attrs, r)]
  /\ Returns("ok")
  /\ UNCHANGED domVars

(* setXmlVersion refuses "prefix", the XmlDocument constructor refuses a    *)
(* root with a parent: either way nothing owns the new DOMDocument.         *)
CreateXmlDocumentThrows(d, r, version) ==
  /\ version = "prefix" \/ (version # "text" /\ HasParent(r))
  /\ domDocs' = domDocs \cup {d}
  /\ Returns("threw")
  /\ UNCHANGED <<domVars, copy, wrapVars, held>>

CreateXmlDocumentRejects(version) ==
  /\ version = "text"
  /\ Returns("threw")
  /\ UNCHANGED <<domVars, docVars, wrapVars, held>>

(***************************************************************************)
(* Getters that hand out another shared_ptr.                                *)
(***************************************************************************)

GetXmlRootElement(d) ==
  /\ held' = held \cup {root[d]}
  /\ Returns("ok")
  /\ UNCHANGED <<domVars, docVars, wrapVars>>

GetParent(e) ==
  /\ HasParent(e)
  /\ held' = held \cup {parent[e]}
  /\ Returns("ok")
  /\ UNCHANGED <<domVars, docVars, wrapVars>>

(***************************************************************************)
(* The caller gives up its last shared_ptr to n. A wrapper is destroyed     *)
(* when the caller does not hold it and everything that owned it is being   *)
(* destroyed; a cycle of owners is never destroyed.                         *)
(***************************************************************************)

(* Faults: a parent that also owns its children; a document that does not  *)
(* own its root.                                                           *)
OwnsBothWays(x, z) ==
  IF x \in Element
  THEN parent[x] = z \/ (z \in Element /\ parent[z] = x)
  ELSE root[x] = z

OwnsUpwardsOnly(x, z) == x \in Element /\ parent[x] = z

Owns(x, z) == IF x \in Element THEN parent[x] = z ELSE root[x] = z

Owners(z) == {x \in live : Owns(x, z)}

(* Fault: the wrapper goes with the caller's handle, whoever else owns it. *)
DestroyedAtOnce(n) == live \cap {n}

Destroyed(n) ==
  {z \in live :
     \A S \in SUBSET live :
        (\A y \in live : y \notin held \ {n} /\ Owners(y) \subseteq S => y \in S)
           => z \in S}

(* Fault: the node is released without what is below it.                   *)
ReleasedAlone(e) == IF HasParent(e) THEN {} ELSE {e}

(* ~XmlElement releases the node of an element that has no parent.          *)
ReleasedBy(e) == IF HasParent(e) THEN {} ELSE Subtree(kids, e)

(* DOMElementImpl::release refuses a node that still has a DOM parent; the  *)
(* exception leaves a destructor, so the program is terminated.             *)
ReleaseRefused(e) == ~HasParent(e) /\ up[e] # Nil

Drop(n) ==
  LET dying == Destroyed(n)
      freed == UNION {ReleasedBy(e) : e \in dying \cap Element}
  IN
  /\ held' = held \ {n}
  /\ live' = live \ dying
  /\ parent' = [e \in Element |-> IF e \in dying THEN Nil ELSE parent[e]]
  /\ root' = [d \in Document |-> IF d \in dying THEN Nil ELSE root[d]]
  /\ domDocs' = domDocs \ dying
  /\ copy' = [d \in Document |-> IF d \in dying THEN Nil ELSE copy[d]]
  /\ alloc' = alloc \ freed
  /\ up' = [e \in Element |-> IF e \in freed THEN Nil ELSE up[e]]
  /\ kids' = [e \in Element |-> IF e \in freed THEN << >> ELSE kids[e]]
  /\ texts' = [e \in Element |-> IF e \in freed THEN << >> ELSE texts[e]]
  /\ attrs' = [e \in Element |-> IF e \in freed THEN NoAttributes ELSE attrs[e]]
  /\ status' = IF \E e \in dying \cap Element : ReleaseRefused(e)
               THEN "terminated" ELSE status
  /\ outcome' = "ok"

(* main has returned, its handles are gone: ~XercesAdapter releases         *)
(* _dummyDoc with its whole pool, then XMLPlatformUtils::Terminate.         *)
Exit ==
  /\ held = {}
  /\ alloc' = {}
  /\ status' = "exited"
  /\ outcome' = "ok"
  /\ UNCHANGED <<up, kids, texts, attrs, docVars, wrapVars, held>>

-----------------------------------------------------------------------------

Elements  == held \cap Element
Documents == held \cap Document

Next ==
  /\ status = "running"
  /\ \/ \E e \in Element \ alloc, tagIsValid \in BOOLEAN, new \in XmlAttributes :
          \/ \E text \in Text : CreateXmlElement(e, tagIsValid, text, new)
          \/ CreateXmlElementThrows(e, tagIsValid, new)
     \/ \E o \in Elements :
          \E f \in Injection(Subtree(kids, o), Element \ alloc) : CopyXmlElement(o, f)
     \/ \E p, c \in Elements, r \in Elements \cup {Nil} :
          \/ AddXmlChildElement(p, c, r)
          \/ AddXmlChildElementRefused(p, c, r)
     \/ \E e \in Elements :
          \/ \E text \in Text : SetXmlElementText(e, text)
          \/ \E new \in XmlAttributes :
               \/ SetXmlElementAttributes(e, new)
               \/ SetXmlElementAttributesSwallows(e, new)
          \/ \E name \in Name :
               \/ \E value \in Value : SetXmlElementAttribute(e, name, value)
               \/ SetXmlElementAttributeThrows(e, name)
          \/ GetParent(e)
     \/ \E r \in Elements, version \in Version :
          \/ \E d \in Document \ domDocs :
               \/ CreateXmlDocument(d, r, version)
               \/ CreateXmlDocumentThrows(d, r, version)
          \/ CreateXmlDocumentRejects(version)
     \/ \E d \in Documents : GetXmlRootElement(d)
     \/ \E n \in held : Drop(n)
     \/ Exit

Spec == Init /\ [][Next]_vars

-----------------------------------------------------------------------------
(***************************************************************************)
(* Invariants                                                               *)
(***************************************************************************)

Running == status = "running"

(* A wrapper's _parent and its node's DOM parent agree: an element wrapper  *)
(* is parentless, or a document's root, exactly when its node has no DOM    *)
(* parent. ~XmlElement, which looks at one to release the other, and        *)
(* InsertChildBefore, which checks one before changing the other, rely on it. *)
WrapperMirrorsDom ==
  \A e \in live \cap Element :
     up[e] = IF parent[e] \in Element THEN parent[e] ELSE Nil

(* No wrapper's _internalElement points to a released node, whatever the    *)
(* order in which the caller gives up its handles.                          *)
NoDanglingWrapper == Running => live \cap Element \subseteq alloc

(* A destructor never makes DOMElementImpl::release throw INVALID_ACCESS.   *)
DestructorNeverThrows == status # "terminated"

(* Child lists and parent pointers are two views of one tree.               *)
KidsMirrorUp ==
  \A e \in Element :
     /\ \A c \in Element : c \in ToSet(kids[e]) <=> up[c] = e
     /\ IsInjective(kids[e])

(* Every element keeps exactly one text child, somewhere in its child list. *)
OneTextChild ==
  Running => \A e \in alloc : Len(texts[e]) = 1 /\ texts[e][1].at <= Len(kids[e])

(* Only appending an element to itself makes the program hang, and it is    *)
(* the only way a node gets to be its own ancestor.                         *)
OnlySelfInsertionHangs ==
  /\ \A e \in Element : e \in Ancestors(up, e) => up[e] = e
  /\ status = "hung" <=> \E e \in Element : up[e] = e

(* A document and its root point to each other, and no two documents share  *)
(* a root: the copy a notification refreshes is the right one.              *)
DocumentOwnsRoot ==
  \A d \in live \cap Document : root[d] \in live \cap Element /\ parent[root[d]] = d

(* Without handles only the documents and their roots stay alive: nothing   *)
(* else is kept by a cycle of shared_ptr.                                   *)
OnlyDocumentsLeak ==
  Running /\ held = {} =>
     live \cap Element = {root[d] : d \in live \cap Document}

(***************************************************************************)
(* The inductive invariant: the properties above that it contains, and what *)
(* they need to be preserved by every step.                                 *)
(***************************************************************************)

(* What a live element wrapper points to is a live wrapper; a document it   *)
(* points to has it as root.                                                *)
OwnersAreLive ==
  \A e \in live \cap Element :
     /\ parent[e] # Nil => parent[e] \in live
     /\ parent[e] \in Document => root[parent[e]] = e

DeadWrappersOwnNothing ==
  /\ \A e \in Element \ live : parent[e] = Nil
  /\ \A d \in Document \ live : root[d] = Nil

LinkedCellsInUse ==
  Running => \A e \in Element : up[e] # Nil => e \in alloc /\ up[e] \in alloc

LiveDocumentsInUse == live \cap Document \subseteq domDocs

NoCycleWhileRunning ==
  Running => \A e \in Element : up[e] \notin Subtree(kids, e)

(* The ownership structure: everything the destructors rely on.             *)
OwnershipInv ==
  /\ TypeOK
  /\ WrapperMirrorsDom
  /\ KidsMirrorUp
  /\ DocumentOwnsRoot
  /\ NoDanglingWrapper
  /\ DestructorNeverThrows
  /\ OwnersAreLive
  /\ DeadWrappersOwnNothing
  /\ LinkedCellsInUse
  /\ LiveDocumentsInUse
  /\ NoCycleWhileRunning

(***************************************************************************)
(* Action properties                                                        *)
(***************************************************************************)

(* An attached element is never moved to another parent or made a root:     *)
(* adding it a second time, or making a document of it, is refused.         *)
AttachedForGood ==
  [][\A e \in Element :
        HasParent(e) /\ e \in live' => parent'[e] = parent[e]]_vars

(* A call that throws to its caller, and a refused AddXmlChildElement, leave *)
(* every element, link and document content as it was. Not domDocs: the     *)
(* DOMDocument of a failed CreateXmlDocument is lost (Entry.cpp:627).       *)
FailureChangesNothing ==
  [][outcome' \in {"threw", "addSwallowed"} =>
        UNCHANGED <<domVars, copy, wrapVars, held>>]_vars

Current(d) == copy[d] = ImportNode(kids, texts, attrs, root[d])

(* A document falls behind its root only by a SetXmlElementAttributes whose *)
(* exception was swallowed.                                                 *)
StaleOnlyWhenSwallowed ==
  [][\A d \in live \cap Document :
        Running /\ Current(d) /\ ~Current(d)' => outcome' = "setSwallowed"]_vars

(* A call that changes anything below a document's root and returns         *)
(* normally leaves the document equal to its root, stale before or not.     *)
ChangesReachDocument ==
  [][\A d \in live \cap Document :
        /\ ImportNode(kids, texts, attrs, root[d])
             # ImportNode(kids, texts, attrs, root[d])'
        /\ outcome' = "ok" /\ status' = "running"
        => Current(d)']_vars

(***************************************************************************)
(* Refinement: the wrappers, their reference counts and the DOM pool keep   *)
(* the promise of XmlOwnership. A node appended to itself never comes back  *)
(* to the caller, so the abstract tree does not show that link.             *)
(***************************************************************************)

Ownership == INSTANCE XmlOwnership WITH
  exists <- alloc,
  up     <- [e \in Element |-> IF up[e] = e THEN Nil ELSE up[e]],
  held   <- held \cap Element,
  pinned <- {root[d] : d \in live \cap Document},
  ended  <- status # "running"

ImplementsOwnership == Ownership!Spec

(* Seen that way, there are exactly the nodes of the trees of which the     *)
(* caller holds a wrapper, and of the documents' trees: the shared_ptr from *)
(* child to parent and the release in ~XmlElement leave and take no part.   *)
TreesLiveAndDieWhole == Ownership!TreesLiveAndDieWhole

(***************************************************************************)
(* What the sources say, and the code does not do                           *)
(***************************************************************************)

(* program-dom.xml: "Users must call the release() function when finished   *)
(* using any objects that were created by the DOMImplementation": the        *)
(* documents the caller was given, when the program is over.                *)
DocumentsReleasedAtExit == status = "exited" => domDocs \cap live = {}

=============================================================================
