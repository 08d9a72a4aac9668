------------------------------ MODULE PugiPages ------------------------------
(***************************************************************************)
(* The memory of pugixml documents, as TestPugiXml uses them: nodes and     *)
(* strings are blocks on pages, the pages of a document hang off a page     *)
(* embedded in the document object, and a page is given back when nothing   *)
(* is left on it. ParseFile returns a document by value, and a document     *)
(* that is moved takes its pages along.                                     *)
(*                                                                          *)
(* Sizes count units of one node. A node's string stands for its name and   *)
(* its value; attributes, which are blocks like any other, the buffer of a  *)
(* parsed file and the order of siblings are left out. The parser, the      *)
(* insert_ and prepend_ forms and append_copy allocate as AppendChild and   *)
(* SetString do. Compact mode is not compiled in, and memory does not run   *)
(* out. A call is one step, but for those that destroy nodes: they give     *)
(* back one block at a time.                                                *)
(***************************************************************************)
EXTENDS Naturals, FiniteSets

CONSTANTS
  Document,     (* cells for xml_document objects                           *)
  Node,         (* cells for nodes below a document                         *)
  Page,         (* cells for pages on the heap                              *)
  PageSize,     (* xml_memory_page_size, in nodes                           *)
  StringSize,   (* the sizes a string can have, in nodes                    *)
  Nil           (* the null pointer                                         *)

(* The page embedded in a document is named by the document.                *)
Block == Page \cup Document
Inner == Node \cup Document

ASSUME PugiAssumption ==
  /\ Nil \notin Block \cup Node
  /\ Document \cap (Page \cup Node) = {}
  /\ IsFiniteSet(Node)
  /\ PageSize \in Nat /\ PageSize >= 4
  /\ StringSize \subseteq Nat \ {0}

VARIABLES
  docs,         (* the documents constructed and not destroyed              *)
  up,           (* xml_node_struct::parent                                  *)
  page,         (* the page a node is on, Nil if it does not exist          *)
  text,         (* the page and the size of its string, size 0 for none     *)
  mem,          (* the pages, see Memory                                    *)
  doomed,       (* the nodes a running call is to destroy                   *)
  alloc         (* the allocator that is passed to destroy_node             *)

vars == <<docs, up, page, text, mem, doomed, alloc>>
call == <<doomed, alloc>>

NoText == [page |-> Nil, size |-> 0]

Memory ==
  [heap  : SUBSET Page,                       \* allocate_page, deallocate_page
   owner : [Page -> Document \cup {Nil}],     \* xml_memory_page::allocator
   next  : [Block -> Page \cup {Nil}],
   prev  : [Block -> Block \cup {Nil}],
   busy  : [Page -> Nat],                     \* busy_size
   freed : [Page -> Nat],                     \* freed_size
   root  : [Document -> Block],               \* xml_allocator::_root
   top   : [Document -> 0..PageSize]]         \* xml_allocator::_busy_size

TypeOK ==
  /\ docs \subseteq Document
  /\ up \in [Node -> Inner \cup {Nil}]
  /\ page \in [Node -> Page \cup {Nil}]
  /\ text \in [Node -> [page : Page \cup {Nil}, size : {0} \cup StringSize]]
  /\ mem \in Memory
  /\ doomed \subseteq Node
  /\ alloc \in Document \cup {Nil}

Init ==
  /\ docs = {}
  /\ up = [n \in Node |-> Nil]
  /\ page = [n \in Node |-> Nil]
  /\ text = [n \in Node |-> NoText]
  /\ mem = [heap  |-> {},
            owner |-> [p \in Page |-> Nil],
            next  |-> [b \in Block |-> Nil],
            prev  |-> [b \in Block |-> Nil],
            busy  |-> [p \in Page |-> 0],
            freed |-> [p \in Page |-> 0],
            root  |-> [d \in Document |-> d],
            top   |-> [d \in Document |-> PageSize]]
  /\ doomed = {}
  /\ alloc = Nil

-----------------------------------------------------------------------------
(***************************************************************************)
(* xml_allocator                                                            *)
(***************************************************************************)

(* get_allocator: the document that b, or the page of x, belongs to.        *)
Allocator(m, b) == IF b \in Document THEN b ELSE m.owner[b]
AllocatorOf(x) == Allocator(mem, IF x \in Document THEN x ELSE page[x])

Fits(m, a, k) == m.top[a] + k <= PageSize

(* A large block gets a page of its own, in front of the last one.          *)
Large(k) == k > PageSize \div 4

(* allocate_memory, where q is the page it takes from the heap if the block *)
(* does not fit on the last one.                                            *)
Allocated(m, a, k, q) ==
  LET last == m.root[a]
      new == [m EXCEPT !.heap = @ \cup {q}, !.owner[q] = Allocator(m, last)] IN
  IF Fits(m, a, k) THEN [m EXCEPT !.top[a] = @ + k]
  ELSE IF Large(k)
  THEN [new EXCEPT !.prev[q] = m.prev[last], !.next[q] = last,
                   !.next[m.prev[last]] = q, !.prev[last] = q,
                   !.busy[q] = k]
  ELSE [new EXCEPT !.busy = [p \in Page |-> IF p = last THEN m.top[a] ELSE @[p]],
                   !.prev[q] = last, !.next[last] = q,
                   !.root[a] = q, !.top[a] = k]

PageFor(m, a, k, q) == IF Fits(m, a, k) THEN m.root[a] ELSE q
CanAllocate(m, a, k, q) == q \in Page \ m.heap \/ Fits(m, a, k)

(* Fault: the size on the last page is not brought up to date.              *)
BusyStored(m, a, p) == m.busy[p]

(* busy_size of the last page is kept in the allocator.                     *)
Busy(m, a, p) == IF p = m.root[a] THEN m.top[a] ELSE m.busy[p]

LinkedAround(m, p) ==
  [m EXCEPT !.next[m.prev[p]] = m.next[p], !.prev[m.next[p]] = m.prev[p]]

(* A page that goes back to the heap.                                       *)
Returned(m, S) ==
  [m EXCEPT !.heap  = @ \ S,
            !.owner = [p \in Page |-> IF p \in S THEN Nil ELSE @[p]],
            !.next  = [b \in Block |-> IF b \in S THEN Nil ELSE @[b]],
            !.prev  = [b \in Block |-> IF b \in S THEN Nil ELSE @[b]],
            !.busy  = [p \in Page |-> IF p \in S THEN 0 ELSE @[p]],
            !.freed = [p \in Page |-> IF p \in S THEN 0 ELSE @[p]]]

(* deallocate_memory: an empty page is given back, the last one is reused.  *)
Deallocated(m, a, p, k) ==
  IF m.freed[p] + k < Busy(m, a, p)
  THEN [m EXCEPT !.busy[p] = Busy(m, a, p), !.freed[p] = @ + k]
  ELSE IF m.next[p] = Nil
  THEN [m EXCEPT !.busy[p] = 0, !.freed[p] = 0, !.top[a] = 0]
  ELSE Returned(LinkedAround(m, p), {p})

WithoutText(m, a, n) ==
  IF text[n].size = 0 THEN m ELSE Deallocated(m, a, text[n].page, text[n].size)

-----------------------------------------------------------------------------
(***************************************************************************)
(* Nodes                                                                    *)
(***************************************************************************)

Exists == {n \in Node : page[n] # Nil}

(* Everything below x: what every set has that is closed downwards and has *)
(* the children of x.                                                       *)
Below(x) ==
  LET Closed == {S \in SUBSET Node : \A n \in Exists : up[n] \in S \cup {x} => n \in S} IN
  {n \in Node : \A S \in Closed : n \in S}

(* Between two calls: no node is being destroyed.                           *)
Idle == doomed = {}

(* What the program may have a handle of.                                   *)
Handles == docs \cup Exists

(* append_child of an element.                                              *)
AppendChild(x, n, q) ==
  LET a == AllocatorOf(x) IN
  /\ Idle
  /\ x \in Handles
  /\ n \in Node \ Exists
  /\ CanAllocate(mem, a, 1, q)
  /\ mem' = Allocated(mem, a, 1, q)
  /\ up' = [up EXCEPT ![n] = x]
  /\ page' = [page EXCEPT ![n] = PageFor(mem, a, 1, q)]
  /\ UNCHANGED <<docs, text, call>>

(* strcpy_insitu where the old string cannot be reused: the new one is      *)
(* allocated before the old one is given back. Otherwise only characters    *)
(* change.                                                                  *)
SetString(n, k, q) ==
  LET a == AllocatorOf(n) IN
  /\ Idle
  /\ n \in Exists
  /\ k # text[n].size
  /\ CanAllocate(mem, a, k, q)
  /\ text' = [text EXCEPT ![n] = [page |-> PageFor(mem, a, k, q), size |-> k]]
  /\ mem' = WithoutText(Allocated(mem, a, k, q), a, n)
  /\ UNCHANGED <<docs, up, page, call>>

(* strcpy_insitu of an empty string.                                        *)
ClearString(n) ==
  /\ Idle
  /\ n \in Exists
  /\ text[n].size > 0
  /\ mem' = WithoutText(mem, AllocatorOf(n), n)
  /\ text' = [text EXCEPT ![n] = NoText]
  /\ UNCHANGED <<docs, up, page, call>>

(* remove_child: the node is unlinked, then destroyed.                      *)
RemoveChild(n) ==
  /\ Idle
  /\ n \in Exists
  /\ up' = [up EXCEPT ![n] = Nil]
  /\ doomed' = {n} \cup Below(n)
  /\ alloc' = AllocatorOf(up[n])
  /\ UNCHANGED <<docs, page, text, mem>>

(* remove_children: x has no first child when all of them are destroyed.    *)
RemoveChildren(x) ==
  /\ Idle
  /\ x \in Handles
  /\ Below(x) # {}
  /\ doomed' = Below(x)
  /\ alloc' = AllocatorOf(x)
  /\ UNCHANGED <<docs, up, page, text, mem>>

(* destroy_node gives back the string of a node, then its children, then    *)
(* the node. Siblings are destroyed in any order.                           *)
DestroyString(n) ==
  /\ n \in doomed
  /\ text[n].size > 0
  /\ up[n] \in doomed => text[up[n]].size = 0
  /\ mem' = WithoutText(mem, alloc, n)
  /\ text' = [text EXCEPT ![n] = NoText]
  /\ UNCHANGED <<docs, up, page, call>>

DestroyNode(n) ==
  /\ n \in doomed
  /\ text[n].size = 0
  /\ \A c \in Exists : up[c] # n
  /\ mem' = Deallocated(mem, alloc, page[n], 1)
  /\ up' = [up EXCEPT ![n] = Nil]
  /\ page' = [page EXCEPT ![n] = Nil]
  /\ doomed' = doomed \ {n}
  /\ alloc' = IF doomed' = {} THEN Nil ELSE alloc
  /\ UNCHANGED <<docs, text>>

(* Fault: nodes may change their document.                                  *)
AllowMoveBetween(x, n) == x \notin {n} \cup Below(n)

(* allow_move: within a document, which is found through the page, and not  *)
(* below the node itself.                                                   *)
AllowMove(x, n) ==
  /\ AllocatorOf(x) = AllocatorOf(n)
  /\ x \notin {n} \cup Below(n)

(* append_move; a refused one changes nothing and returns a null handle.    *)
AppendMove(x, n) ==
  /\ Idle
  /\ x \in Handles
  /\ n \in Exists
  /\ AllowMove(x, n)
  /\ up' = [up EXCEPT ![n] = x]
  /\ UNCHANGED <<docs, page, text, mem, call>>

-----------------------------------------------------------------------------
(***************************************************************************)
(* Documents                                                                *)
(***************************************************************************)

(* The pages behind the one embedded in d.                                  *)
Chain(m, d) ==
  LET Closed == {S \in SUBSET Page :
                   \A b \in S \cup {d} : m.next[b] # Nil => m.next[b] \in S} IN
  {p \in Page : \A S \in Closed : p \in S}

(* _destroy and _create.                                                    *)
Reset(m, d) ==
  [Returned(m, Chain(m, d)) EXCEPT !.next[d] = Nil, !.prev[d] = Nil,
                                   !.root[d] = d, !.top[d] = PageSize]

(* The nodes on pages that are given back are gone with them.               *)
Gone(S) ==
  /\ up' = [n \in Node |-> IF n \in S THEN Nil ELSE up[n]]
  /\ page' = [n \in Node |-> IF n \in S THEN Nil ELSE page[n]]
  /\ text' = [n \in Node |-> IF n \in S THEN NoText ELSE text[n]]

NodesOn(d) == {n \in Exists : page[n] \in Chain(mem, d)}

Construct(d) ==
  /\ Idle
  /\ d \notin docs
  /\ docs' = docs \cup {d}
  /\ mem' = Reset(mem, d)
  /\ UNCHANGED <<up, page, text, call>>

Destruct(d) ==
  /\ Idle
  /\ d \in docs
  /\ docs' = docs \ {d}
  /\ Gone(NodesOn(d))
  /\ mem' = Reset(mem, d)
  /\ UNCHANGED call

(* reset, with which every load begins.                                     *)
ResetDocument(d) ==
  /\ Idle
  /\ d \in docs
  /\ Gone(NodesOn(d))
  /\ mem' = Reset(mem, d)
  /\ UNCHANGED <<docs, call>>

(* Fault: the pages are not told of their new document.                     *)
NotReowned(m, from, to) == m.owner

Reowned(m, from, to) ==
  [p \in Page |-> IF p \in Chain(m, from) THEN to ELSE m.owner[p]]

(* _move: to has just been created. It takes the allocation state, and the  *)
(* pages are linked behind its own embedded page.                           *)
Moved(m, from, to) ==
  LET first == m.next[from]
      taken == [m EXCEPT !.root[to] = m.root[from], !.top[to] = m.top[from],
                         !.next[to] = first, !.owner = Reowned(m, from, to),
                         !.prev = [b \in Block |-> IF b = first THEN to ELSE @[b]]] IN
  [taken EXCEPT !.next[from] = Nil, !.root[from] = from, !.top[from] = PageSize]

(* The move constructor, and move assignment, which destroys first. The     *)
(* children of the document get the new one as their parent.                *)
MoveDocument(from, to) ==
  LET old == NodesOn(to) IN
  /\ Idle
  /\ from \in docs
  /\ from # to
  /\ docs' = docs \cup {to}
  /\ up' = [n \in Node |-> IF n \in old THEN Nil ELSE IF up[n] = from THEN to ELSE up[n]]
  /\ page' = [n \in Node |-> IF n \in old THEN Nil ELSE page[n]]
  /\ text' = [n \in Node |-> IF n \in old THEN NoText ELSE text[n]]
  /\ mem' = Moved(Reset(mem, to), from, to)
  /\ UNCHANGED call

-----------------------------------------------------------------------------
Editing ==
  \/ \E n \in Node, q \in Page : \/ \E x \in Inner : AppendChild(x, n, q)
                                 \/ \E k \in StringSize : SetString(n, k, q)
  \/ \E n \in Node : ClearString(n) \/ RemoveChild(n) \/ DestroyString(n) \/ DestroyNode(n)
  \/ \E x \in Inner : RemoveChildren(x)
  \/ \E x \in Inner, n \in Node : AppendMove(x, n)

(* A caller that moves no document from which nothing was ever allocated:   *)
(* such a move breaks the properties below (pugixml.cpp:7079).              *)
CarefulNext ==
  \/ Editing
  \/ \E d \in Document : Construct(d) \/ Destruct(d) \/ ResetDocument(d)
  \/ \E from, to \in Document : mem.root[from] # from /\ MoveDocument(from, to)

Next ==
  \/ CarefulNext
  \/ \E from, to \in Document : MoveDocument(from, to)

CarefulSpec == Init /\ [][CarefulNext]_vars
Spec == Init /\ [][Next]_vars

-----------------------------------------------------------------------------
(***************************************************************************)
(* Properties                                                               *)
(***************************************************************************)

(* A node and its string are on pages of the document the node is in: the   *)
(* allocator found through the page is the one that will be asked to give   *)
(* the block back, after moves of nodes and of documents. While a subtree   *)
(* is destroyed, the allocator passed down is that of every page it meets   *)
(* (pugixml.cpp:1156, 1202, 4364, 7105). It holds under CarefulSpec only:   *)
(* the move of a document from which nothing was allocated takes the page   *)
(* embedded in the old object for the new document's root (line 7079), and  *)
(* what is allocated then is on pages of the old one.                       *)
NodesOnOwnPages ==
  \A n \in Exists :
    \E d \in docs :
      /\ IF n \in doomed THEN d = alloc ELSE n \in Below(d)
      /\ mem.owner[page[n]] = d
      /\ text[n].size > 0 => mem.owner[text[n].page] = d

(* What lives on page p, in units: nodes, and the strings of nodes.         *)
NodesAt(p) == {n \in Node : page[n] = p}
TextsAt(p) == UNION {{n} \X (1 .. text[n].size) : n \in {m \in Node : text[m].page = p}}
InUse(p) == Cardinality(NodesAt(p)) + Cardinality(TextsAt(p))

(* The two sizes of a page say what is left on it, although the one of the  *)
(* last page is kept elsewhere and copied back now and then; and only the   *)
(* last page of a document is kept empty (pugixml.cpp:595, 601, 605).       *)
SizesAreExact ==
  \A p \in mem.heap :
    LET a == mem.owner[p] IN
    /\ Busy(mem, a, p) = mem.freed[p] + InUse(p)
    /\ InUse(p) = 0 => p = mem.root[a]

(* Every page is found from the document that owns it, which gives it back  *)
(* in the end, and the last in the chain is the one the allocator fills; so *)
(* the assertions about links at pugixml.cpp:607, 624, 625 and 730 hold.    *)
PagesAreChained ==
  \A d \in docs :
    /\ Chain(mem, d) = {p \in mem.heap : mem.owner[p] = d}
    /\ mem.prev[d] = Nil
    /\ mem.next[mem.root[d]] = Nil
    /\ \A b \in Chain(mem, d) : mem.next[mem.prev[b]] = b
    /\ mem.root[d] \in Chain(mem, d) \cup {d}

(* Nodes that are in one document stay in one as long as neither of them is *)
(* destroyed: a node is moved between documents only with the whole         *)
(* document (TestPugiXml.cpp:110-118). Under CarefulSpec, as above.         *)
DocumentsMoveWhole ==
  [][\A d \in docs :
       LET kept == Below(d) \cap (Exists \ doomed)' IN
       kept # {} => \E e \in docs' : kept \subseteq Below(e)']_vars

(* What the allocators of all documents keep: types, sizes and chains.      *)
MemoryInv ==
  /\ TypeOK
  /\ SizesAreExact
  /\ PagesAreChained

=============================================================================
