------------------------------- MODULE PugiCopy -------------------------------
(***************************************************************************)
(* append_copy of pugixml, which TestPugiXml uses where append_move is      *)
(* refused. A new node is put into the tree first and then filled by        *)
(* node_copy_tree, which walks the original with one pointer and the copy   *)
(* with another, without a stack. The new node may be inside the very tree  *)
(* that is copied, and an allocation may fail on the way.                   *)
(*                                                                          *)
(* One step is one turn of the outer loop or of the inner one; nothing else *)
(* runs between two of them.                                                *)
(* A node's name stands for its contents, and every node is an element.     *)
(* Moving and removing nodes is in PugiPages.                               *)
(***************************************************************************)
EXTENDS Naturals, Sequences, FiniteSets, SequencesExt

CONSTANTS
  Document,     (* the document nodes                                       *)
  Node,         (* cells for nodes below them                               *)
  Name,         (* what a node contains                                     *)
  Nil,          (* the null pointer                                         *)
  MaxBefore     (* bound: how many nodes may exist when a call begins       *)

Inner == Node \cup Document

ASSUME CopyAssumption ==
  /\ Nil \notin Inner \cup Name
  /\ Document \cap Node = {}
  /\ MaxBefore \in Nat

VARIABLES
  name,         (* the contents of a node, Nil if it does not exist         *)
  up,           (* parent                                                   *)
  kids,         (* first_child and the next_sibling chain                   *)
  dn, sn,       (* the parameters of node_copy_tree, Nil if it is not       *)
                (* running: the copy and the original                       *)
  dit, sit,     (* its two pointers                                         *)
  onward,       (* it is in the inner loop, looking for what comes next     *)
  before,       (* ghost: names and children when the call began            *)
  complete      (* ghost: no allocation of this call has failed             *)

tree   == <<name, up, kids>>
loop   == <<dn, sn, dit, sit, onward>>
ghosts == <<before, complete>>
vars   == <<tree, loop, ghosts>>

Init ==
  /\ name = [n \in Node |-> Nil]
  /\ up = [n \in Node |-> Nil]
  /\ kids = [x \in Inner |-> << >>]
  /\ dn = Nil /\ sn = Nil /\ dit = Nil /\ sit = Nil /\ onward = FALSE
  /\ before = Nil
  /\ complete = TRUE

Exists == {n \in Node : name[n] # Nil}
Idle == dn = Nil
MayCall == Idle /\ Cardinality(Exists) <= MaxBefore

(* allocate_node takes any cell; which one does not matter.                 *)
MayAllocate == Exists # Node
NewNode == CHOOSE n \in Node : n \notin Exists

(* A new node at place i of x: append_child, prepend_child and the          *)
(* insert_child functions, and their copying counterparts.                  *)
Added(x, i, contents) ==
  /\ name' = [name EXCEPT ![NewNode] = contents]
  /\ up' = [up EXCEPT ![NewNode] = x]
  /\ kids' = [kids EXCEPT ![x] = InsertAt(@, i, NewNode)]

AddChild(x, i, contents) ==
  /\ MayCall
  /\ x \in Exists \cup Document
  /\ MayAllocate
  /\ Added(x, i, contents)
  /\ UNCHANGED <<loop, ghosts>>

Parent(x) == IF x \in Document THEN Nil ELSE up[x]
First(x) == IF kids[x] = << >> THEN Nil ELSE Head(kids[x])

(* append_copy, prepend_copy and the insert_copy functions: the new node is *)
(* in the tree before sit is set to the first child of the original.        *)
CopyChild(x, i, proto) ==
  /\ MayCall
  /\ x \in Exists \cup Document
  /\ proto \in Exists
  /\ MayAllocate
  /\ Added(x, i, name[proto])
  /\ dn' = NewNode /\ dit' = NewNode
  /\ sn' = proto
  /\ sit' = First(proto)' /\ onward' = FALSE
  /\ before' = [name |-> name, kids |-> kids]
  /\ complete' = TRUE

(* reset(proto) of a document without children, where reset() does nothing. *)
CopyDocument(d, proto) ==
  /\ MayCall
  /\ kids[d] = << >>
  /\ dn' = d /\ dit' = d
  /\ sn' = proto
  /\ sit' = First(proto) /\ onward' = FALSE
  /\ before' = [name |-> name, kids |-> kids]
  /\ complete' = TRUE
  /\ UNCHANGED tree

(* Fault: the copy is copied along if it is found in the original.          *)
NeverSkipped(s) == FALSE

Skipped(s) == s = dn

(* Fault: the chain of siblings is taken for a circle.                      *)
NextInCircle(s) ==
  LET ks == kids[up[s]]
      i == CHOOSE j \in DOMAIN ks : ks[j] = s IN
  IF i = Len(ks) THEN ks[1] ELSE ks[i + 1]

(* next_sibling                                                             *)
NextOf(s) ==
  LET ks == kids[up[s]]
      i == CHOOSE j \in DOMAIN ks : ks[j] = s IN
  IF i = Len(ks) THEN Nil ELSE ks[i + 1]

Walking == ~Idle /\ sit # Nil /\ sit # sn

(* A node of the original is copied and its children come next. The node    *)
(* gets none of its own by that: dit is not in the original.                *)
CopyNode ==
  /\ Walking /\ ~onward
  /\ ~Skipped(sit)
  /\ MayAllocate
  /\ Added(dit, Len(kids[dit]) + 1, name[sit])
  /\ IF kids[sit] # << >>
     THEN dit' = NewNode /\ sit' = First(sit) /\ onward' = FALSE
     ELSE onward' = TRUE /\ UNCHANGED <<dit, sit>>
  /\ UNCHANGED <<dn, sn, ghosts>>

(* The allocation fails: the node is left out, with what is below it.       *)
CopyFails ==
  /\ Walking /\ ~onward
  /\ ~Skipped(sit)
  /\ onward' = TRUE
  /\ complete' = FALSE
  /\ UNCHANGED <<tree, dn, sn, dit, sit, before>>

(* The copy itself, met in the original.                                    *)
SkipCopy ==
  /\ Walking /\ ~onward
  /\ Skipped(sit)
  /\ onward' = TRUE
  /\ UNCHANGED <<tree, dn, sn, dit, sit, ghosts>>

(* The do loop: on to the next sibling, or up with both pointers.           *)
NextSibling ==
  /\ Walking /\ onward
  /\ NextOf(sit) # Nil
  /\ sit' = NextOf(sit)
  /\ onward' = FALSE
  /\ UNCHANGED <<tree, dn, sn, dit, ghosts>>

(* Fault: only the pointer into the original goes up.                       *)
GoUpOneSided ==
  /\ Walking /\ onward
  /\ NextOf(sit) = Nil
  /\ sit' = Parent(sit)
  /\ onward' = (sit' # sn)
  /\ UNCHANGED <<tree, dn, sn, dit, ghosts>>

GoUp ==
  /\ Walking /\ onward
  /\ NextOf(sit) = Nil
  /\ sit' = Parent(sit)
  /\ dit' = Parent(dit)
  /\ onward' = (sit' # sn)
  /\ UNCHANGED <<tree, dn, sn, ghosts>>

CopyDone ==
  /\ ~Idle
  /\ ~Walking
  /\ dn' = Nil /\ sn' = Nil /\ dit' = Nil /\ sit' = Nil /\ onward' = FALSE
  /\ before' = Nil
  /\ complete' = TRUE
  /\ UNCHANGED tree

Copying == CopyNode \/ CopyFails \/ SkipCopy \/ NextSibling \/ GoUp \/ CopyDone

Next ==
  \/ \E x \in Inner : \E i \in 1..(Len(kids[x]) + 1) :
       \/ \E contents \in Name : AddChild(x, i, contents)
       \/ \E proto \in Node : CopyChild(x, i, proto)
  \/ \E d, proto \in Document : CopyDocument(d, proto)
  \/ Copying

(* The call goes on once it has begun: one thread, and nothing in the loop  *)
(* waits.                                                                   *)
Spec == Init /\ [][Next]_vars /\ WF_vars(Copying)

-----------------------------------------------------------------------------
(***************************************************************************)
(* Properties                                                               *)
(***************************************************************************)

(* x and what is below it where children are ks: x and what every set has    *)
(* that is closed under children and has those of x.                        *)
Reached(ks, x) ==
  LET Closed == {S \in SUBSET Node : \A y \in S \cup {x} : ToSet(ks[y]) \subseteq S} IN
  {x} \cup {n \in Node : \A S \in Closed : n \in S}

Subtree(x) == Reached(kids, x)

(* What the comments and assertions in the loop say: dit is inside the copy *)
(* while sit is inside the original, and in the end dit has gone up as far  *)
(* as sit. Beyond that, sit never enters the copy, although the copy may be *)
(* in the original (pugixml.cpp:4438, 4441, 4471, 4477).                    *)
LoopInvariant ==
  /\ Walking => /\ dit \in Subtree(dn)
                /\ sit \in Subtree(sn)
                /\ sit \notin Subtree(dn) \ {dn}
  /\ ~Idle /\ ~Walking => sit = Nil \/ dit = Parent(dn)

(* The original: what was below sn when the call began.                     *)
Original == Reached(before.kids, sn)

(* y is as it was, but for the copy that may be among its children.         *)
Kept(y) ==
  /\ y \in Node => name[y] = before.name[y]
  /\ \/ kids[y] = before.kids[y]
     \/ \E i \in 1..(Len(before.kids[y]) + 1) : kids[y] = InsertAt(before.kids[y], i, dn)

(* f takes every node of the original to its copy: the same name, and the   *)
(* copies of the same children in the same order.                           *)
IsCopy(f) ==
  /\ f[sn] = dn
  /\ \A y \in Original :
       /\ y \in Node /\ f[y] \in Node => name[f[y]] = before.name[y]
       /\ kids[f[y]] = [i \in DOMAIN before.kids[y] |-> f[before.kids[y][i]]]

(* A copy that is made inside its original, or anywhere else, ends up with  *)
(* what the original had when the call began, in the same order; and the    *)
(* original keeps it (pugixml.cpp:4426-4478).                               *)
CopyIsExact ==
  ~Idle =>
    /\ \A y \in Original : Kept(y)
    /\ ~Walking /\ complete => \E f \in [Original -> Subtree(dn)] : IsCopy(f)

(* The call returns, although the tree it walks grows under it, and whether *)
(* or not allocations fail (pugixml.cpp:4441).                              *)
CopyEnds == ~Idle ~> Idle
=============================================================================
