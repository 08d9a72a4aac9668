--------------------------- MODULE TinyXmlDocument ---------------------------
(***************************************************************************)
(* One TinyXML-2 document, as TestTinyXml2 uses it: nodes are created by    *)
(* the document and inserted, moved and deleted by hand or by the parser.   *)
(*                                                                          *)
(* A node that has never been inserted stands in _unlinked, and only this   *)
(* list lets Clear and the destructor find it: createDoc relies on it for   *)
(* its declaration and its "FloatValue" element. Each memory pool counts    *)
(* the nodes that were allocated and never put into use (_nUntracked), and  *)
(* a debug build compares that with what is left after Clear; the model     *)
(* keeps the sum over the pools.                                            *)
(*                                                                          *)
(* Calls that loop - Clear and the parser - are modelled step by step; the  *)
(* program is one thread, so nothing runs between the steps of a call.      *)
(* Names, values, attributes and line numbers are left out: whether a tag   *)
(* is well formed or an end tag matches is a choice of the input.           *)
(***************************************************************************)
EXTENDS Naturals, FiniteSets, Sequences, SequencesExt

CONSTANTS
  Element,      (* cells of _elementPool                                    *)
  Declaration,  (* cells of _commentPool that hold a declaration            *)
  Comment,      (* cells of _commentPool that hold a comment or an unknown  *)
  Text,         (* cells of _textPool                                       *)
  Doc,          (* the XMLDocument itself                                   *)
  MaxDepth,     (* TINYXML2_MAX_ELEMENT_DEPTH                               *)
  MaxLost,      (* bound: no file is loaded with more nodes lost in failed  *)
                (* parses, by the count of the pools                        *)
  Nil           (* the null pointer                                         *)

Node      == Element \cup Declaration \cup Comment \cup Text
Container == Element \cup {Doc}

ASSUME TinyAssumption ==
  /\ Nil \notin Node \cup {Doc}
  /\ Doc \notin Node
  /\ Element \cap (Declaration \cup Comment \cup Text) = {}
  /\ Declaration \cap (Comment \cup Text) = {}
  /\ Comment \cap Text = {}
  /\ MaxDepth \in Nat \ {0, 1}
  /\ MaxLost \in Nat

VARIABLES
  live,         (* the nodes allocated and not freed                        *)
  up,           (* _parent                                                  *)
  kids,         (* _firstChild and the _next chain; only the document and   *)
                (* elements are given children                              *)
  unlinked,     (* XMLDocument::_unlinked                                   *)
  untracked,    (* MemPoolT::_nUntracked, summed over the pools             *)
  error,        (* _errorID is not XML_SUCCESS                              *)
  open,         (* the elements whose content the parser is reading         *)
  call,         (* the call the document is in                              *)
  phase         (* how far it is                                            *)

nodeVars == <<live, up, kids, unlinked, untracked>>
vars == <<nodeVars, error, open, call, phase>>

Call  == {"none", "Clear", "LoadFile", "LoadFilePointer", "Parse", "Delete"}
Phase == {"idle", "clearing", "reading", "failing", "gone", "crashed"}

TypeOK ==
  /\ live \subseteq Node
  /\ up \in [Node -> Container \cup {Nil}]
  /\ kids \in [Container -> Seq(Node)]
  /\ unlinked \in Seq(Node)
  /\ untracked \in Nat
  /\ error \in BOOLEAN
  /\ open \in Seq(Element)
  /\ call \in Call
  /\ phase \in Phase

Init ==
  /\ live = {}
  /\ up = [n \in Node |-> Nil]
  /\ kids = [x \in Container |-> << >>]
  /\ unlinked = << >>
  /\ untracked = 0
  /\ error = FALSE
  /\ open = << >>
  /\ call = "none"
  /\ phase = "idle"

-----------------------------------------------------------------------------
(***************************************************************************)
(* The lists                                                                *)
(***************************************************************************)

Position(s, n) == CHOOSE i \in DOMAIN s : s[i] = n

(* Fault: the last entry is dropped instead of the one that was found.      *)
LastMarked(s, n) == IF n \in ToSet(s) THEN Front(s) ELSE s

(* MarkInUse: the last entry takes the place of n.                          *)
MarkInUse(s, n) ==
  IF n \in ToSet(s) THEN Front([s EXCEPT ![Position(s, n)] = Last(s)]) ELSE s

(* Fault: a node that moves stays in the list of its old parent.            *)
StillLinked(ks, n) == ks

(* XMLNode::Unlink, for a node that has a parent.                           *)
Unlinked(ks, n) ==
  IF up[n] = Nil THEN ks
  ELSE [ks EXCEPT ![up[n]] = RemoveAt(@, Position(@, n))]

(* The elements below x: in every set of elements that has those among the  *)
(* children of x and of its own members.                                    *)
ElementsBelow(x) ==
  {e \in Element :
     \A S \in SUBSET Element :
       (\A y \in S \cup {x} : ToSet(kids[y]) \cap Element \subseteq S) => e \in S}

(* x and what is below it: what ~XMLNode deletes with x.                    *)
Subtree(x) ==
  IF x \in Container
  THEN {x} \cup UNION {ToSet(kids[y]) : y \in {x} \cup ElementsBelow(x)}
  ELSE {x}

(* SetTracked, for a node that was in use or is known never to be.          *)
SetTracked(n) == untracked' = IF up[n] = Nil THEN untracked - 1 ELSE untracked

(* ~XMLNode and MemPoolT::Free for every node of dead; ks are the lists     *)
(* that are left.                                                           *)
Destroyed(dead, ks) ==
  /\ live' = live \ dead
  /\ up' = [m \in Node |-> IF m \in dead THEN Nil ELSE up[m]]
  /\ kids' = [x \in Container |-> IF x \in dead THEN << >> ELSE ks[x]]

(* XMLNode::DeleteNode, behind Unlink if n has a parent.                    *)
Delete(n) ==
  /\ Destroyed(Subtree(n), Unlinked(kids, n))
  /\ unlinked' = MarkInUse(unlinked, n)

(* DeleteChildren of x.                                                     *)
Emptied(x) == Destroyed(Subtree(x) \ {x}, [kids EXCEPT ![x] = << >>])

-----------------------------------------------------------------------------
(***************************************************************************)
(* The program's own calls                                                  *)
(***************************************************************************)

Idle == phase = "idle" /\ UNCHANGED <<open, call>>

(* CreateUnlinkedNode, behind NewElement, NewText, NewComment, NewUnknown   *)
(* and NewDeclaration.                                                      *)
NewNode(n) ==
  /\ Idle
  /\ n \notin live
  /\ live' = live \cup {n}
  /\ unlinked' = Append(unlinked, n)
  /\ untracked' = untracked + 1
  /\ UNCHANGED <<up, kids, error, phase>>

(* The library does not look at ancestors: a node inserted below itself is  *)
(* the caller's mistake and is not modelled.                                *)
Parent == (live \cap Element) \cup {Doc}
CanInsert(p, n) == p \in Parent /\ n \in live /\ p \notin Subtree(n)

(* InsertChildPreamble, then the list of p becomes ks.                      *)
Insert(p, n, ks) ==
  /\ up' = [up EXCEPT ![n] = p]
  /\ kids' = [Unlinked(kids, n) EXCEPT ![p] = ks]
  /\ unlinked' = IF up[n] = Nil THEN MarkInUse(unlinked, n) ELSE unlinked
  /\ SetTracked(n)

InsertEndChild(p, n) ==
  /\ Idle
  /\ CanInsert(p, n)
  /\ Insert(p, n, Append(Unlinked(kids, n)[p], n))
  /\ UNCHANGED <<live, error, phase>>

InsertFirstChild(p, n) ==
  /\ Idle
  /\ CanInsert(p, n)
  /\ Insert(p, n, <<n>> \o Unlinked(kids, n)[p])
  /\ UNCHANGED <<live, error, phase>>

(* With a as the last child this is InsertEndChild. Otherwise a->_next is   *)
(* used after the preamble has unlinked n: if n was a's only follower there *)
(* is none, and a null pointer is dereferenced.                             *)
InsertAfterChild(p, a, n) ==
  LET ks == Unlinked(kids, n)[p] IN
  /\ Idle
  /\ a \in ToSet(kids[p]) \ {n}
  /\ CanInsert(p, n)
  /\ IF Last(ks) = a /\ Last(kids[p]) # a
     THEN phase' = "crashed" /\ UNCHANGED <<nodeVars, error>>
     ELSE /\ Insert(p, n, InsertAt(ks, Position(ks, a) + 1, n))
          /\ UNCHANGED <<live, error, phase>>

(* SetText where the first child is not a text: NewText and                 *)
(* InsertFirstChild, by which the new entry of _unlinked comes and goes.    *)
(* With a text there, only its value changes.                               *)
SetText(e, t) ==
  /\ Idle
  /\ e \in live \cap Element
  /\ kids[e] # << >> => Head(kids[e]) \notin Text
  /\ t \in Text \ live
  /\ live' = live \cup {t}
  /\ up' = [up EXCEPT ![t] = e]
  /\ kids' = [kids EXCEPT ![e] = <<t>> \o @]
  /\ UNCHANGED <<unlinked, untracked, error, phase>>

(* XMLDocument::DeleteNode, and DeleteChild, to which it leaves a node that *)
(* has a parent.                                                            *)
DeleteNode(n) ==
  /\ Idle
  /\ n \in live
  /\ Delete(n)
  /\ SetTracked(n)
  /\ UNCHANGED <<error, phase>>

DeleteChildren(x) ==
  /\ Idle
  /\ x \in Parent
  /\ kids[x] # << >>
  /\ Emptied(x)
  /\ UNCHANGED <<unlinked, untracked, error, phase>>

(* SaveFile clears the last error, or sets one if the file cannot be        *)
(* opened; printing changes nothing.                                        *)
SaveFile(fails) ==
  /\ Idle
  /\ error' = fails
  /\ UNCHANGED <<nodeVars, phase>>

(* What the pools count as untracked beside the unlinked nodes.             *)
Lost == untracked - Len(unlinked)

(* Clear, LoadFile, Parse and the destructor all begin with Clear.          *)
Begin(c) ==
  /\ phase = "idle"
  /\ c \in {"LoadFile", "LoadFilePointer"} => Lost <= MaxLost
  /\ call' = c
  /\ phase' = "clearing"
  /\ UNCHANGED <<nodeVars, error, open>>

-----------------------------------------------------------------------------
(***************************************************************************)
(* Clear                                                                    *)
(***************************************************************************)

(* Fault: the node is destroyed and its entry of _unlinked left.            *)
ClearNodeUnmarked ==
  LET n == IF kids[Doc] # << >> THEN Head(kids[Doc]) ELSE Head(unlinked) IN
  /\ phase = "clearing"
  /\ kids[Doc] # << >> \/ unlinked # << >>
  /\ Destroyed(Subtree(n), Unlinked(kids, n))
  /\ UNCHANGED <<unlinked, untracked, error, open, call, phase>>

ClearNode ==
  LET n == IF kids[Doc] # << >> THEN Head(kids[Doc]) ELSE Head(unlinked) IN
  /\ phase = "clearing"
  /\ kids[Doc] # << >> \/ unlinked # << >>
  /\ Delete(n)
  /\ SetTracked(n)
  /\ UNCHANGED <<error, open, call, phase>>

(* Fault: only the children of the document are looked at.                  *)
ClearedChildren == phase = "clearing" /\ kids[Doc] = << >>

Cleared == phase = "clearing" /\ kids[Doc] = << >> /\ unlinked = << >>

(* What follows Clear: nothing, the end of the document, or the input. The  *)
(* file may be missing, unreadable or empty, the text empty. LoadFile opens *)
(* the file and calls the LoadFile that takes a FILE*, which clears again.  *)
ClearDone ==
  /\ Cleared
  /\ \/ /\ call = "Clear"
        /\ phase' = "idle" /\ call' = "none" /\ error' = FALSE
     \/ /\ call = "Delete"
        /\ phase' = "gone" /\ call' = "none" /\ error' = FALSE
     \/ /\ call = "LoadFile"
        /\ call' = "LoadFilePointer" /\ error' = FALSE /\ UNCHANGED phase
     \/ /\ call \in {"LoadFilePointer", "Parse"}
        /\ phase' = "reading" /\ error' = FALSE /\ UNCHANGED call
     \/ /\ call \in {"LoadFile", "LoadFilePointer", "Parse"}
        /\ phase' = "idle" /\ call' = "none" /\ error' = TRUE
  /\ UNCHANGED <<nodeVars, open>>

-----------------------------------------------------------------------------
(***************************************************************************)
(* XMLNode::ParseDeep. open is its stack of frames; the loop that runs is   *)
(* the one of the innermost open element, or of the document.               *)
(***************************************************************************)

Top == IF open = << >> THEN Doc ELSE Last(open)

(* Fault: a declaration is accepted behind any first declaration.           *)
LocatedByFirst(n) ==
  n \in Declaration =>
    Top = Doc /\ (kids[Doc] # << >> => Head(kids[Doc]) \in Declaration)

(* Declarations stand at document level, before anything else.              *)
WellLocated(n) ==
  n \in Declaration =>
    /\ Top = Doc
    /\ kids[Doc] # << >> =>
         Head(kids[Doc]) \in Declaration /\ Last(kids[Doc]) \in Declaration

(* A node without content - a text, a comment, a declaration or an element  *)
(* that closes itself - is allocated, read and inserted; its entry of       *)
(* _unlinked comes and goes.                                                *)
ReadLeaf(n) ==
  /\ phase = "reading"
  /\ n \notin live
  /\ WellLocated(n)
  /\ live' = live \cup {n}
  /\ up' = [up EXCEPT ![n] = Top]
  /\ kids' = [kids EXCEPT ![Top] = Append(@, n)]
  /\ UNCHANGED <<unlinked, untracked, error, open, call, phase>>

(* It is not well formed, or a declaration in a wrong place: DeleteNode,    *)
(* which does not tell the pool, and the loop is left.                      *)
ReadLeafFails(n) ==
  /\ phase = "reading"
  /\ n \notin live
  /\ untracked' = untracked + 1
  /\ error' = TRUE
  /\ phase' = "failing"
  /\ UNCHANGED <<live, up, kids, unlinked, open, call>>

(* Fault: nesting is not counted.                                           *)
NeverTooDeep(d) == FALSE

(* PushDepth for frame number d.                                            *)
TooDeep(d) == d = MaxDepth

(* A start tag: the element stays in _unlinked until its end tag is read.   *)
(* The frame for its content is frame Len(open) + 2, the document's is 1.   *)
ReadStartTag(e) ==
  /\ phase = "reading"
  /\ e \notin live
  /\ live' = live \cup {e}
  /\ unlinked' = Append(unlinked, e)
  /\ untracked' = untracked + 1
  /\ open' = Append(open, e)
  /\ error' = TooDeep(Len(open) + 2)
  /\ phase' = IF error' THEN "failing" ELSE "reading"
  /\ UNCHANGED <<up, kids, call>>

(* The end tag is a node of its own, tracked and deleted at once. If it     *)
(* matches, the element is inserted; if not, its loop is left.              *)
ReadEndTag(matches) ==
  /\ phase = "reading"
  /\ open # << >>
  /\ IF matches
     THEN LET e == Last(open)
              p == IF Len(open) = 1 THEN Doc ELSE open[Len(open) - 1] IN
          /\ Insert(p, e, Append(kids[p], e))
          /\ open' = Front(open)
          /\ UNCHANGED <<error, phase>>
     ELSE /\ error' = TRUE
          /\ phase' = "failing"
          /\ UNCHANGED <<up, kids, unlinked, untracked, open>>
  /\ UNCHANGED <<live, call>>

(* The input ends, or an end tag comes where no element is open, which the  *)
(* document's own frame returns without an error.                           *)
ReadEnd ==
  /\ phase = "reading"
  /\ IF open = << >>
     THEN phase' = "idle" /\ call' = "none" /\ UNCHANGED error
     ELSE phase' = "failing" /\ error' = TRUE /\ UNCHANGED call
  /\ UNCHANGED <<nodeVars, open>>

(* ParseDeep returns null: the frame above deletes its node and leaves too. *)
Unwind ==
  /\ phase = "failing"
  /\ open # << >>
  /\ Delete(Last(open))
  /\ open' = Front(open)
  /\ UNCHANGED <<untracked, error, call, phase>>

(* Parse cleans up after a failure: DeleteChildren, and the pools are       *)
(* emptied. LoadFile keeps what was read before it.                         *)
CleanUp ==
  /\ Emptied(Doc)
  /\ UNCHANGED unlinked

ReadFailed ==
  /\ phase = "failing"
  /\ open = << >>
  /\ IF call = "Parse"
     THEN CleanUp /\ untracked' = 0
     ELSE UNCHANGED nodeVars
  /\ phase' = "idle"
  /\ call' = "none"
  /\ UNCHANGED <<error, open>>

-----------------------------------------------------------------------------
Editing ==
  \/ \E n \in Node : NewNode(n) \/ DeleteNode(n)
  \/ \E p \in Container, n \in Node : InsertEndChild(p, n) \/ InsertFirstChild(p, n)
  \/ \E p \in Container, a, n \in Node : InsertAfterChild(p, a, n)
  \/ \E e \in Element, t \in Text : SetText(e, t)
  \/ \E x \in Container : DeleteChildren(x)

Saving == \E fails \in BOOLEAN : SaveFile(fails)

Clearing == ClearNode \/ ClearDone

Reading ==
  \/ \E n \in Node : ReadLeaf(n) \/ ReadLeafFails(n)
  \/ \E e \in Element : ReadStartTag(e)
  \/ \E matches \in BOOLEAN : ReadEndTag(matches)
  \/ ReadEnd
  \/ Unwind
  \/ ReadFailed

Next ==
  \/ Editing
  \/ Saving
  \/ \E c \in Call \ {"none"} : Begin(c)
  \/ Clearing
  \/ Reading

(* A call that has begun goes on: there is one thread and nothing in it     *)
(* blocks. What the program calls next, and whether it calls at all, is not *)
(* fair. The input is finite: every step of the parser consumes some of it, *)
(* and the cells of Node bound the nodes it makes.                          *)
Fairness == WF_vars(Clearing) /\ WF_vars(Reading)

Spec == Init /\ [][Next]_vars /\ Fairness

-----------------------------------------------------------------------------
(***************************************************************************)
(* Properties                                                               *)
(***************************************************************************)

(* _unlinked holds every node without parent, once, and no other: no freed  *)
(* node and none that is in the tree. Every insertion, every deletion and   *)
(* the parser, on its way in and on every way out, must keep it so          *)
(* (MarkInUse, tinyxml2.cpp:2104).                                          *)
UnlinkedIsExact ==
  /\ IsInjective(unlinked)
  /\ ToSet(unlinked) = {n \in live : up[n] = Nil}

(* Whatever is allocated is found from the document: below it, or below an  *)
(* entry of _unlinked, and in one place only. Clear deletes nothing else    *)
(* (tinyxml2.cpp:2117).                                                     *)
NothingLost ==
  /\ live = (UNION {Subtree(r) : r \in {Doc} \cup ToSet(unlinked)}) \ {Doc}
  /\ \A x \in Container :
       /\ IsInjective(kids[x])
       /\ ToSet(kids[x]) = {n \in live : up[n] = x}

(* The pools' count of nodes never used is the number of unlinked nodes,    *)
(* and only a parse that fails moves the two apart: it deletes nodes        *)
(* without SetTracked (tinyxml2.cpp:1047, 1081, 1115); emptying the pools   *)
(* brings them together again (2376).                                       *)
DriftOnlyByFailure ==
  [][\/ Lost' = Lost
     \/ Lost' = Lost + 1 /\ phase' = "failing"
     \/ Lost' = 0 /\ phase = "failing" /\ call = "Parse"]_vars

(* While a document is read, declarations stand before everything else and  *)
(* only at the top, although the parser looks at the first and the last     *)
(* child only (tinyxml2.cpp:1060).                                          *)
DeclarationsFirst ==
  phase = "reading" =>
    /\ \A n \in Declaration : up[n] \in {Doc, Nil}
    /\ \A i, j \in DOMAIN kids[Doc] :
         i < j /\ kids[Doc][j] \in Declaration => kids[Doc][i] \in Declaration

(* lv says how deeply each element is nested, the elements being read       *)
(* included. Nothing is above itself: of the live, only one lv says it.     *)
IsLevel(lv) ==
  /\ \A i \in DOMAIN open : lv[open[i]] = i
  /\ \A e \in (live \cap Element) \ ToSet(open) :
       lv[e] = IF up[e] \in Element THEN lv[up[e]] + 1 ELSE 1

(* What the parser builds, in the tree and on its stack, is nested less     *)
(* deeply than the limit: the recursion of the destructor and the printer   *)
(* is bounded with that of the parser (tinyxml2.cpp:2466).                  *)
DepthBounded ==
  phase = "reading" =>
    /\ Len(open) + 1 < MaxDepth
    /\ \E lv \in [Element -> 1 .. MaxDepth - 1] : IsLevel(lv)

(* A call that loops over nodes or input returns once begun: Clear finds an *)
(* end although it takes the head of a list that every deletion reorders,   *)
(* and a parse that fails unwinds (tinyxml2.cpp:2120, 1046). No such call   *)
(* is InsertAfterChild, which may crash ("crashed").                        *)
CallsReturn == (phase \in {"clearing", "reading", "failing"}) ~> (phase \in {"idle", "gone"})

(* When the document's destructor has run, every node it ever allocated has *)
(* been freed, whether it was inserted or not (tinyxml2.cpp:2098).          *)
FreedWithDocument == (call = "Delete") ~> (phase = "gone" /\ live = {})

=============================================================================
