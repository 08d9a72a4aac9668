---------------------------- MODULE PugiPages_proofs ----------------------------
(***************************************************************************)
(* What is proved about PugiPages: an invariant that gives MemoryInv,       *)
(* NodesOnOwnPages and DocumentsMoveWhole, for callers that move no         *)
(* document from which nothing was allocated.                               *)
(*                                                                          *)
(* The allocator's part of it is about a memory and what is in use on each  *)
(* of its pages, not about a state, so that it can be followed through a    *)
(* call that allocates one block and gives back another.                    *)
(***************************************************************************)
EXTENDS PugiPages, FiniteSetTheorems, TLAPS

-----------------------------------------------------------------------------
(***************************************************************************)
(* The invariant                                                            *)
(***************************************************************************)

(* A page on the heap belongs to one of the documents D, and nothing is     *)
(* left of the others.                                                      *)
HeapOK(m, D) ==
  \A p \in Page :
    IF p \in m.heap
    THEN m.owner[p] \in D
    ELSE m.owner[p] = Nil /\ m.next[p] = Nil /\ m.prev[p] = Nil /\ m.freed[p] = 0

(* The page an allocator fills is its own. It is the embedded one, which    *)
(* counts as full, as long as there is no other.                            *)
RootsOK(m) ==
  /\ \A d \in Document :
       IF m.root[d] = d THEN m.top[d] = PageSize
       ELSE m.root[d] \in m.heap /\ m.owner[m.root[d]] = d
  /\ \A p \in m.heap : m.root[m.owner[p]] # m.owner[p]

(* The pages of an allocator are linked both ways, from the embedded one to *)
(* the one it fills.                                                        *)
LinksOK(m) ==
  /\ \A d \in Document : m.prev[d] = Nil
  /\ \A p \in m.heap :
       /\ m.prev[p] \in m.heap \cup Document
       /\ m.next[m.prev[p]] = p
       /\ Allocator(m, m.prev[p]) = m.owner[p]
  /\ \A b \in m.heap \cup Document :
       IF m.next[b] = Nil THEN b = m.root[Allocator(m, b)]
       ELSE m.next[b] \in m.heap /\ m.prev[m.next[b]] = b
  /\ \A d \in Document : m.next[m.root[d]] = Nil

(* Going back along the links ends: every set has a page whose predecessor  *)
(* is outside.                                                              *)
LinksEnd(m) == \A S \in SUBSET Page : S # {} => \E p \in S : m.prev[p] \notin S

(* The sizes of each page give what is in use on it, and only the page that *)
(* is filled may be empty, as if it were new.                               *)
SizesOK(m, used) ==
  \A p \in Page :
    IF p \in m.heap
    THEN /\ Busy(m, m.owner[p], p) = m.freed[p] + used[p]
         /\ used[p] = 0 => p = m.root[m.owner[p]] /\ m.freed[p] = 0
    ELSE used[p] = 0

(* A memory in order, for the documents D.                                  *)
MemOK(m, D, used) ==
  /\ m \in Memory
  /\ HeapOK(m, D)
  /\ RootsOK(m)
  /\ LinksOK(m)
  /\ LinksEnd(m)
  /\ SizesOK(m, used)

(* What is in use, page by page.                                            *)
Used == [p \in Page |-> InUse(p)]

(* What does not exist has nothing.                                         *)
AbsentIsBare == \A n \in Node \ Exists : up[n] = Nil /\ text[n].size = 0

(* A node, its string and its parent have one allocator; only what is being *)
(* destroyed has no parent.                                                 *)
OneAllocator ==
  \A n \in Exists :
    /\ text[n].size > 0 => /\ text[n].page # Nil
                           /\ mem.owner[text[n].page] = mem.owner[page[n]]
    /\ IF up[n] = Nil THEN n \in doomed
       ELSE up[n] \in docs \cup Exists /\ AllocatorOf(up[n]) = mem.owner[page[n]]

(* What is destroyed is destroyed with all below it, and given back to the  *)
(* allocator it came from.                                                  *)
DoomedOK ==
  /\ doomed \subseteq Exists
  /\ \A n \in Exists : up[n] \in doomed => n \in doomed
  /\ \A n \in doomed : mem.owner[page[n]] = alloc

(* Every set of nodes has one whose parent is outside.                      *)
ParentsEnd == \A S \in SUBSET Node : S # {} => \E n \in S : up[n] \notin S

(* The inductive invariant.                                                 *)
PageInv ==
  /\ TypeOK
  /\ MemOK(mem, docs, Used)
  /\ AbsentIsBare
  /\ OneAllocator
  /\ DoomedOK
  /\ ParentsEnd

-----------------------------------------------------------------------------
(***************************************************************************)
(* xml_allocator                                                            *)
(***************************************************************************)

(* A function keeps its type when a value of the type is put in.            *)
LEMMA UpdateType ==
  ASSUME NEW S, NEW T, NEW f \in [S -> T], NEW x, NEW v \in T
  PROVE  [f EXCEPT ![x] = v] \in [S -> T]
OBVIOUS

(* A node is not large, and what is not large fits on a page.               *)
LEMMA SmallBlocks ==
  /\ ~Large(1)
  /\ \A k \in Nat : ~Large(k) => k <= PageSize
BY PugiAssumption DEF Large

(* Every block has an allocator, if it is embedded or on the heap.          *)
LEMMA AllocatorType ==
  ASSUME NEW m \in Memory, NEW D \in SUBSET Document, HeapOK(m, D),
         NEW b \in m.heap \cup Document
  PROVE  /\ Allocator(m, b) \in Document
         /\ b \in Block
         /\ b \in m.heap => b \notin Document /\ Allocator(m, b) = m.owner[b]
BY PugiAssumption DEF Memory, HeapOK, Allocator, Block

(* The pages that _destroy finds behind the embedded one are those of the   *)
(* document.                                                                *)
LEMMA ChainIsOwned ==
  ASSUME NEW m, NEW D \in SUBSET Document, NEW used, MemOK(m, D, used),
         NEW d \in Document
  PROVE  Chain(m, d) = {p \in m.heap : m.owner[p] = d}
<1> DEFINE Own == {p \in m.heap : m.owner[p] = d}
<1>1. /\ m \in Memory /\ m.heap \subseteq Page /\ Nil \notin Page /\ d \notin Page
      /\ Own \subseteq Page /\ Document \cap Page = {}
      /\ \A b \in Own \cup {d} : Allocator(m, b) = d /\ b \in m.heap \cup Document
  BY PugiAssumption DEF MemOK, Memory, Allocator, Block
<1>2. ASSUME NEW b \in Own \cup {d}, m.next[b] # Nil
      PROVE  m.next[b] \in Own
  <2>1. m.next[b] \in m.heap /\ m.prev[m.next[b]] = b
    BY <1>1, <1>2 DEF MemOK, LinksOK
  <2>2. m.owner[m.next[b]] = d
    BY <1>1, <2>1 DEF MemOK, LinksOK
  <2> QED BY <2>1, <2>2
<1>3. ASSUME NEW S \in SUBSET Page, \A b \in S \cup {d} : m.next[b] # Nil => m.next[b] \in S
      PROVE  Own \subseteq S
  <2> SUFFICES ASSUME Own \ S # {} PROVE FALSE
    OBVIOUS
  <2>1. PICK p \in Own \ S : m.prev[p] \notin Own \ S
    BY <1>1 DEF MemOK, LinksEnd
  <2>2. /\ m.prev[p] \in m.heap \cup Document
        /\ m.next[m.prev[p]] = p
        /\ Allocator(m, m.prev[p]) = d
    BY DEF MemOK, LinksOK
  <2>3. m.prev[p] \in S \cup {d}
    BY <1>1, <2>1, <2>2 DEF Allocator
  <2> QED BY <1>1, <1>3, <2>2, <2>3
<1>4. Own \in SUBSET Page /\ \A b \in Own \cup {d} : m.next[b] # Nil => m.next[b] \in Own
  BY <1>1, <1>2
<1> HIDE DEF Own
<1>5. Chain(m, d) \subseteq Own
  BY <1>4 DEF Chain
<1>6. Own \subseteq Chain(m, d)
  BY <1>1, <1>3 DEF Chain
<1> QED BY <1>5, <1>6 DEF Own

(* A memory in order satisfies what the run checks of sizes and chains.     *)
LEMMA OrderIsEnough ==
  ASSUME MemOK(mem, docs, Used), docs \subseteq Document
  PROVE  SizesAreExact /\ PagesAreChained
<1>1. SizesAreExact
  <2> SUFFICES ASSUME NEW p \in mem.heap
               PROVE  /\ Busy(mem, mem.owner[p], p) = mem.freed[p] + InUse(p)
                      /\ InUse(p) = 0 => p = mem.root[mem.owner[p]]
    BY DEF SizesAreExact
  <2>1. p \in Page /\ Used[p] = InUse(p)
    BY DEF MemOK, Memory, Used
  <2> QED BY <2>1 DEF MemOK, SizesOK
<1>2. ASSUME NEW d \in docs
      PROVE  /\ Chain(mem, d) = {p \in mem.heap : mem.owner[p] = d}
             /\ mem.prev[d] = Nil
             /\ mem.next[mem.root[d]] = Nil
             /\ \A b \in Chain(mem, d) : mem.next[mem.prev[b]] = b
             /\ mem.root[d] \in Chain(mem, d) \cup {d}
  <2>1. d \in Document /\ Chain(mem, d) = {p \in mem.heap : mem.owner[p] = d}
    BY ChainIsOwned
  <2> QED BY <2>1 DEF MemOK, LinksOK, RootsOK
<1> QED BY <1>1, <1>2 DEF PagesAreChained

(* What an allocation of k units from a in a memory in order is given.      *)
MayTake(m, D, used, a, k, q) ==
  /\ D \subseteq Document
  /\ used \in [Page -> Nat]
  /\ MemOK(m, D, used)
  /\ a \in D
  /\ k \in Nat \ {0}
  /\ Large(k) => m.root[a] # a
  /\ q \in Page
  /\ CanAllocate(m, a, k, q)

(* What it leaves: a memory in order with k units more in use on page p of  *)
(* a; no page goes back or changes hands.                                   *)
Taken(m, m2, D, used, a, k, p) ==
  /\ MemOK(m2, D, [used EXCEPT ![p] = @ + k])
  /\ p \in m2.heap /\ m2.owner[p] = a
  /\ \A r \in m.heap : r \in m2.heap /\ m2.owner[r] = m.owner[r]

(* The last page has room.                                                  *)
LEMMA TakenFromLast ==
  ASSUME NEW m, NEW D, NEW used, NEW a, NEW k, NEW q,
         MayTake(m, D, used, a, k, q), Fits(m, a, k)
  PROVE  Taken(m, Allocated(m, a, k, q), D, used, a, k, PageFor(m, a, k, q))
<1> DEFINE m2 == [m EXCEPT !.top[a] = @ + k]
           p  == m.root[a]
           u2 == [used EXCEPT ![p] = @ + k]
<1>1. /\ m \in Memory /\ a \in Document /\ k \in Nat /\ k > 0 /\ used \in [Page -> Nat]
      /\ D \subseteq Document /\ PageSize \in Nat
      /\ m.top[a] \in 0 .. PageSize /\ m.top[a] + k <= PageSize
  BY PugiAssumption DEF MayTake, MemOK, Memory, Fits
<1>2. p # a /\ p \in m.heap /\ p \in Page /\ m.owner[p] = a
  BY <1>1 DEF MayTake, MemOK, RootsOK, Memory
<1>3. /\ m2.heap = m.heap /\ m2.owner = m.owner /\ m2.next = m.next /\ m2.prev = m.prev
      /\ m2.busy = m.busy /\ m2.freed = m.freed /\ m2.root = m.root
      /\ m2.top = [m.top EXCEPT ![a] = @ + k]
  BY <1>1 DEF Memory
<1>4. m2 \in Memory
  BY <1>1 DEF Memory
<1>5. /\ Allocated(m, a, k, q) = m2
      /\ PageFor(m, a, k, q) = p
  BY DEF Allocated, PageFor
<1> HIDE DEF m2
<1>6. HeapOK(m2, D) /\ LinksOK(m2) /\ LinksEnd(m2)
  BY <1>3 DEF MayTake, MemOK, HeapOK, LinksOK, LinksEnd, Allocator
<1>7. RootsOK(m2)
  BY <1>1, <1>2, <1>3 DEF MayTake, MemOK, RootsOK, Memory
<1>8. SizesOK(m2, u2)
  <2> SUFFICES ASSUME NEW r \in Page
               PROVE  IF r \in m.heap
                      THEN /\ Busy(m2, m.owner[r], r) = m.freed[r] + u2[r]
                           /\ u2[r] = 0 => r = m.root[m.owner[r]] /\ m.freed[r] = 0
                      ELSE u2[r] = 0
    BY <1>3 DEF SizesOK
  <2>1. /\ r \in m.heap => /\ Busy(m, m.owner[r], r) = m.freed[r] + used[r]
                           /\ used[r] = 0 => r = m.root[m.owner[r]] /\ m.freed[r] = 0
                           /\ m.owner[r] \in Document
        /\ r \notin m.heap => used[r] = 0
        /\ used[r] \in Nat /\ m.freed[r] \in Nat
    BY <1>1 DEF MayTake, MemOK, SizesOK, HeapOK, Memory
  <2>2. CASE r = p
    <3>1. Busy(m, a, r) = m.top[a] /\ Busy(m2, a, r) = m.top[a] + k /\ u2[r] = used[r] + k
      BY <1>1, <1>3, <2>2 DEF Busy, Memory
    <3> QED BY <1>1, <1>2, <2>1, <2>2, <3>1
  <2>3. CASE r # p
    <3>1. r \in m.heap => Busy(m2, m.owner[r], r) = Busy(m, m.owner[r], r)
      BY <1>1, <1>3, <2>1, <2>3 DEF Busy, Memory
    <3>2. u2[r] = used[r]
      BY <1>1, <2>3
    <3> QED BY <2>1, <3>1, <3>2
  <2> QED BY <2>2, <2>3
<1>9. MemOK(m2, D, u2)
  BY <1>4, <1>6, <1>7, <1>8 DEF MemOK
<1> QED BY <1>2, <1>3, <1>5, <1>9 DEF Taken

(* The block goes to a new page behind the last, which becomes the last.    *)
LEMMA TakenFromNew ==
  ASSUME NEW m, NEW D, NEW used, NEW a, NEW k, NEW q,
         MayTake(m, D, used, a, k, q), ~Fits(m, a, k), ~Large(k)
  PROVE  Taken(m, Allocated(m, a, k, q), D, used, a, k, PageFor(m, a, k, q))
<1> DEFINE last == m.root[a]
           m2 == Allocated(m, a, k, q)
           u2 == [used EXCEPT ![q] = @ + k]
<1>1. /\ m \in Memory /\ a \in Document /\ k \in Nat /\ k > 0 /\ used \in [Page -> Nat]
      /\ D \subseteq Document /\ PageSize \in Nat /\ k <= PageSize
      /\ q \in Page /\ q \notin m.heap /\ a \in D /\ q \notin Document /\ Nil \notin Block
      /\ HeapOK(m, D) /\ m.heap \subseteq Page
  BY PugiAssumption, SmallBlocks DEF MayTake, MemOK, Memory, CanAllocate, Block
<1>2. /\ last \in m.heap \cup Document /\ last \in Block /\ last # q
      /\ Allocator(m, last) = a
  BY <1>1, PugiAssumption DEF MayTake, MemOK, RootsOK, Memory, Allocator, Block
<1>3. /\ m2.heap = m.heap \cup {q}
      /\ m2.owner = [m.owner EXCEPT ![q] = a]
      /\ m2.next = [m.next EXCEPT ![last] = q]
      /\ m2.prev = [m.prev EXCEPT ![q] = last]
      /\ m2.busy = [p \in Page |-> IF p = last THEN m.top[a] ELSE m.busy[p]]
      /\ m2.freed = m.freed
      /\ m2.root = [m.root EXCEPT ![a] = q]
      /\ m2.top = [m.top EXCEPT ![a] = k]
  BY <1>1, <1>2 DEF Memory, Allocated
<1> DEFINE hp == m.heap  ow == m.owner  nx == m.next  pv == m.prev  rt == m.root
<1>6. /\ hp \subseteq Page /\ ow \in [Page -> Document \cup {Nil}]
      /\ nx \in [Block -> Page \cup {Nil}] /\ pv \in [Block -> Block \cup {Nil}]
      /\ rt \in [Document -> Block] /\ m.busy \in [Page -> Nat] /\ m.freed \in [Page -> Nat]
      /\ m.top \in [Document -> 0 .. PageSize]
      /\ Block = Page \cup Document /\ Page \cap Document = {}
  BY <1>1, PugiAssumption DEF Memory, Block
<1>4. m2 \in Memory
  <2>1. m2 = [heap |-> m2.heap, owner |-> m2.owner, next |-> m2.next, prev |-> m2.prev,
              busy |-> m2.busy, freed |-> m2.freed, root |-> m2.root, top |-> m2.top]
    BY <1>1 DEF Memory, Allocated
  <2> HIDE DEF m2
  <2>2. /\ m2.heap \in SUBSET Page /\ m2.owner \in [Page -> Document \cup {Nil}]
        /\ m2.next \in [Block -> Page \cup {Nil}] /\ m2.prev \in [Block -> Block \cup {Nil}]
    BY <1>1, <1>2, <1>3, <1>6
  <2>3. /\ m2.busy \in [Page -> Nat] /\ m2.freed \in [Page -> Nat]
        /\ m2.root \in [Document -> Block] /\ m2.top \in [Document -> 0 .. PageSize]
    BY <1>1, <1>2, <1>3, <1>6
  <2> QED BY <2>1, <2>2, <2>3 DEF Memory
<1>5. PageFor(m, a, k, q) = q
  BY DEF PageFor
<1> HIDE DEF m2
<1>7. HeapOK(m2, D)
  BY <1>1, <1>2, <1>3, <1>6 DEF HeapOK
<1>8. RootsOK(m2)
  <2>1. ASSUME NEW d \in Document
        PROVE  IF m2.root[d] = d THEN m2.top[d] = PageSize
               ELSE m2.root[d] \in m2.heap /\ m2.owner[m2.root[d]] = d
    BY <1>1, <1>3, <1>6 DEF MayTake, MemOK, RootsOK
  <2>2. ASSUME NEW p \in m2.heap
        PROVE  m2.root[m2.owner[p]] # m2.owner[p]
    <3>1. CASE p = q
      BY <1>1, <1>3, <1>6, <3>1
    <3>2. CASE p \in hp
      <4>1. ow[p] \in Document /\ rt[ow[p]] # ow[p] /\ p # q
        BY <1>1, <3>2 DEF HeapOK, MayTake, MemOK, RootsOK
      <4> QED BY <1>1, <1>3, <1>6, <4>1
    <3> QED BY <1>3, <3>1, <3>2
  <2> QED BY <2>1, <2>2 DEF RootsOK
<1>9. \A b \in hp \cup Document : Allocator(m2, b) = Allocator(m, b) /\ b # q
  BY <1>1, <1>3, <1>6 DEF Allocator
<1>10. Allocator(m2, q) = a
  BY <1>1, <1>3, <1>6 DEF Allocator
<1>11. nx[last] = Nil /\ \A b \in hp \cup Document : nx[b] # Nil => nx[b] \in hp /\ b # last
  BY <1>1, <1>2 DEF MayTake, MemOK, LinksOK
<1>12. pv[q] = Nil /\ nx[q] = Nil
  BY <1>1 DEF HeapOK
<1>13. LinksOK(m2)
  <2>1. ASSUME NEW d \in Document PROVE m2.prev[d] = Nil
    BY <1>1, <1>3, <1>6 DEF MayTake, MemOK, LinksOK
  <2>2. ASSUME NEW p \in m2.heap
        PROVE  /\ m2.prev[p] \in m2.heap \cup Document
               /\ m2.next[m2.prev[p]] = p
               /\ Allocator(m2, m2.prev[p]) = m2.owner[p]
    <3>1. CASE p = q
      BY <1>1, <1>2, <1>3, <1>6, <1>9, <3>1
    <3>2. CASE p \in hp
      <4>1. pv[p] \in hp \cup Document /\ nx[pv[p]] = p /\ Allocator(m, pv[p]) = ow[p] /\ p # q /\ p # Nil
        BY <1>1, <3>2 DEF MayTake, MemOK, LinksOK, Block
      <4>2. m2.prev[p] = pv[p] /\ m2.owner[p] = ow[p] /\ pv[p] # last
        BY <1>1, <1>3, <1>6, <1>11, <4>1
      <4> QED BY <1>3, <1>6, <1>9, <4>1, <4>2
    <3> QED BY <1>3, <3>1, <3>2
  <2>3. ASSUME NEW b \in m2.heap \cup Document
        PROVE  IF m2.next[b] = Nil THEN b = m2.root[Allocator(m2, b)]
               ELSE m2.next[b] \in m2.heap /\ m2.prev[m2.next[b]] = b
    <3>1. CASE b = q
      BY <1>1, <1>2, <1>3, <1>6, <1>10, <1>12, <3>1
    <3>2. CASE b = last
      BY <1>1, <1>2, <1>3, <1>6, <3>2
    <3>3. CASE b \in hp \cup Document /\ b # last
      <4>1. /\ nx[b] = Nil => b = rt[Allocator(m, b)]
            /\ nx[b] # Nil => nx[b] \in hp /\ pv[nx[b]] = b
        BY <3>3 DEF MayTake, MemOK, LinksOK
      <4>2. Allocator(m, b) \in Document
        BY <1>1, <3>3, AllocatorType
      <4>3. m2.next[b] = nx[b] /\ Allocator(m2, b) = Allocator(m, b) /\ b # q
        BY <1>3, <1>6, <1>9, <3>3
      <4> QED BY <1>1, <1>3, <1>6, <3>3, <4>1, <4>2, <4>3
    <3> QED BY <1>3, <3>1, <3>2, <3>3
  <2>4. ASSUME NEW d \in Document PROVE m2.next[m2.root[d]] = Nil
    <3>1. CASE d = a
      BY <1>1, <1>2, <1>3, <1>6, <1>12, <3>1
    <3>2. CASE d # a
      <4>1. nx[rt[d]] = Nil /\ rt[d] \in hp \cup Document /\ Allocator(m, rt[d]) = d
        BY <1>6, <3>2 DEF MayTake, MemOK, LinksOK, RootsOK, Allocator
      <4> QED BY <1>2, <1>3, <1>6, <3>2, <4>1
    <3> QED BY <3>1, <3>2
  <2> QED BY <2>1, <2>2, <2>3, <2>4 DEF LinksOK
<1>14. LinksEnd(m2)
  <2> SUFFICES ASSUME NEW S \in SUBSET Page, S # {}
               PROVE  \E p \in S : m2.prev[p] \notin S
    BY DEF LinksEnd
  <2>1. ASSUME NEW p \in S, p # q PROVE m2.prev[p] = pv[p] /\ pv[p] # q
    <3>1. pv[p] = Nil \/ pv[p] \in hp \cup Document
      BY <1>1, <1>6, <2>1 DEF HeapOK, MayTake, MemOK, LinksOK
    <3> QED BY <1>1, <1>3, <1>6, <2>1, <3>1 DEF Block
  <2>2. CASE S = {q}
    BY <1>2, <1>3, <1>6, <2>2
  <2>3. CASE S # {q}
    <3>1. PICK p \in S \ {q} : pv[p] \notin S \ {q}
      BY <2>3 DEF MayTake, MemOK, LinksEnd
    <3> QED BY <2>1, <3>1
  <2> QED BY <2>2, <2>3
<1>15. SizesOK(m2, u2)
  <2> SUFFICES ASSUME NEW r \in Page
               PROVE  IF r \in m2.heap
                      THEN /\ Busy(m2, m2.owner[r], r) = m2.freed[r] + u2[r]
                           /\ u2[r] = 0 => r = m2.root[m2.owner[r]] /\ m2.freed[r] = 0
                      ELSE u2[r] = 0
    BY DEF SizesOK
  <2>1. /\ r \in hp => /\ Busy(m, ow[r], r) = m.freed[r] + used[r]
                       /\ used[r] = 0 => r = rt[ow[r]] /\ m.freed[r] = 0
                       /\ ow[r] \in Document
        /\ r \notin hp => used[r] = 0 /\ m.freed[r] = 0
        /\ used[r] \in Nat /\ m.freed[r] \in Nat
    BY <1>1, <1>6 DEF MayTake, MemOK, SizesOK, HeapOK
  <2>2. CASE r = q
    <3>1. m2.owner[r] = a /\ m2.root[a] = r /\ m2.top[a] = k /\ u2[r] = k /\ m2.freed[r] = 0 /\ r \in m2.heap
      BY <1>1, <1>3, <1>6, <2>1, <2>2
    <3> QED BY <1>1, <3>1 DEF Busy
  <2>3. CASE r # q /\ r \in hp
    <3>1. /\ m2.owner[r] = ow[r] /\ u2[r] = used[r] /\ m2.freed[r] = m.freed[r]
          /\ r \in m2.heap
      BY <1>1, <1>3, <1>6, <2>3
    <3>2. CASE r = last
      <4>1. ow[r] = a /\ Busy(m, a, r) = m.top[a] /\ m2.busy[r] = m.top[a] /\ m.top[a] \in Nat
        BY <1>1, <1>2, <1>3, <1>6, <2>3, <3>2 DEF Allocator, Busy
      <4>2. m.top[a] + k > PageSize
        BY <1>1, <4>1 DEF Fits
      <4>3. used[r] # 0
        BY <1>1, <2>1, <2>3, <4>1, <4>2
      <4>4. m2.root[a] # r
        BY <1>1, <1>3, <1>6, <2>3
      <4>5. Busy(m2, a, r) = m.top[a]
        BY <4>1, <4>4 DEF Busy
      <4> QED BY <2>1, <2>3, <3>1, <4>1, <4>3, <4>5
    <3>3. CASE r # last
      <4>1. m2.busy[r] = m.busy[r] /\ m2.root[ow[r]] = (IF ow[r] = a THEN q ELSE rt[ow[r]])
        BY <1>1, <1>3, <1>6, <2>1, <2>3, <3>3
      <4>2. r # rt[ow[r]] \/ ow[r] # a
        BY <3>3
      <4>3. Busy(m2, ow[r], r) = Busy(m, ow[r], r)
        <5>1. m2.top[ow[r]] = m.top[ow[r]] \/ ow[r] = a
          BY <1>1, <1>3, <1>6, <2>1, <2>3
        <5> QED BY <2>3, <3>3, <4>1, <5>1 DEF Busy
      <4>4. used[r] = 0 => ow[r] # a
        BY <2>1, <2>3, <3>3
      <4> QED BY <2>1, <2>3, <3>1, <4>1, <4>3, <4>4
    <3> QED BY <3>2, <3>3
  <2>4. CASE r \notin m2.heap
    BY <1>1, <1>3, <2>1, <2>4
  <2> QED BY <1>3, <2>2, <2>3, <2>4
<1>16. MemOK(m2, D, u2)
  BY <1>4, <1>7, <1>8, <1>13, <1>14, <1>15 DEF MemOK
<1>17. q \in m2.heap /\ m2.owner[q] = a /\ \A r \in hp : r \in m2.heap /\ m2.owner[r] = ow[r]
  BY <1>1, <1>3, <1>6
<1> QED BY <1>5, <1>16, <1>17 DEF Taken, m2, u2

(* The block is large: its page goes in front of the last.                  *)
LEMMA TakenForLarge ==
  ASSUME NEW m, NEW D, NEW used, NEW a, NEW k, NEW q,
         MayTake(m, D, used, a, k, q), ~Fits(m, a, k), Large(k)
  PROVE  Taken(m, Allocated(m, a, k, q), D, used, a, k, PageFor(m, a, k, q))
<1> DEFINE last == m.root[a]
           front == m.prev[last]
           m2 == Allocated(m, a, k, q)
           u2 == [used EXCEPT ![q] = @ + k]
           hp == m.heap  ow == m.owner  nx == m.next  pv == m.prev  rt == m.root
<1>1. /\ m \in Memory /\ a \in Document /\ k \in Nat /\ k > 0 /\ used \in [Page -> Nat]
      /\ D \subseteq Document
      /\ q \in Page /\ q \notin hp /\ a \in D /\ q \notin Document /\ Nil \notin Block
      /\ HeapOK(m, D) /\ hp \subseteq Page /\ last # a
  BY PugiAssumption DEF MayTake, MemOK, Memory, CanAllocate, Block
<1>2. /\ hp \subseteq Page /\ ow \in [Page -> Document \cup {Nil}]
      /\ nx \in [Block -> Page \cup {Nil}] /\ pv \in [Block -> Block \cup {Nil}]
      /\ rt \in [Document -> Block] /\ m.busy \in [Page -> Nat] /\ m.freed \in [Page -> Nat]
      /\ m.top \in [Document -> 0 .. PageSize]
      /\ Block = Page \cup Document /\ Page \cap Document = {}
  BY <1>1, PugiAssumption DEF Memory, Block
<1>3. last \in hp /\ last # q /\ ow[last] = a
  BY <1>1 DEF MayTake, MemOK, RootsOK
<1>4. /\ front \in hp \cup Document /\ front # q /\ front # last
      /\ nx[front] = last /\ nx[last] = Nil /\ Allocator(m, front) = a
  <2>1. nx[last] = Nil /\ nx[front] = last /\ front \in hp \cup Document /\ Allocator(m, front) = a
    BY <1>1, <1>3 DEF MayTake, MemOK, LinksOK
  <2> QED BY <1>1, <1>2, <1>3, <2>1
<1>5. /\ m2.heap = hp \cup {q}
      /\ m2.owner = [ow EXCEPT ![q] = a]
      /\ m2.next = [[nx EXCEPT ![q] = last] EXCEPT ![front] = q]
      /\ m2.prev = [[pv EXCEPT ![q] = front] EXCEPT ![last] = q]
      /\ m2.busy = [m.busy EXCEPT ![q] = k]
      /\ m2.freed = m.freed
      /\ m2.root = rt
      /\ m2.top = m.top
  <2>1. Allocator(m, last) = a
    BY <1>2, <1>3 DEF Allocator
  <2> QED BY <1>1, <2>1 DEF Memory, Allocated
<1>6. m2 \in Memory
  <2>1. m2 = [heap |-> m2.heap, owner |-> m2.owner, next |-> m2.next, prev |-> m2.prev,
              busy |-> m2.busy, freed |-> m2.freed, root |-> m2.root, top |-> m2.top]
    BY <1>1 DEF Memory, Allocated
  <2> HIDE DEF m2
  <2>2. m2.heap \in SUBSET Page /\ m2.owner \in [Page -> Document \cup {Nil}]
    BY <1>1, <1>2, <1>5
  <2>3. m2.next \in [Block -> Page \cup {Nil}] /\ m2.prev \in [Block -> Block \cup {Nil}]
    <3>1. /\ last \in Page \cup {Nil} /\ q \in Page \cup {Nil}
          /\ front \in Block \cup {Nil} /\ q \in Block \cup {Nil}
      BY <1>1, <1>2, <1>3, <1>4
    <3> HIDE DEF last, front
    <3> DEFINE n1 == [nx EXCEPT ![q] = last]
               p1 == [pv EXCEPT ![q] = front]
    <3>2. n1 \in [Block -> Page \cup {Nil}] /\ p1 \in [Block -> Block \cup {Nil}]
      BY <1>2, <3>1, UpdateType
    <3>3. m2.next = [n1 EXCEPT ![front] = q] /\ m2.prev = [p1 EXCEPT ![last] = q]
      BY <1>5
    <3> HIDE DEF n1, p1
    <3>4. [n1 EXCEPT ![front] = q] \in [Block -> Page \cup {Nil}]
      BY <3>1, <3>2, UpdateType
    <3>5. [p1 EXCEPT ![last] = q] \in [Block -> Block \cup {Nil}]
      BY <3>1, <3>2, UpdateType
    <3> QED BY <3>3, <3>4, <3>5
  <2>4. /\ m2.busy \in [Page -> Nat] /\ m2.freed \in [Page -> Nat]
        /\ m2.root \in [Document -> Block] /\ m2.top \in [Document -> 0 .. PageSize]
    BY <1>1, <1>2, <1>5
  <2> QED BY <2>1, <2>2, <2>3, <2>4 DEF Memory
<1>7. PageFor(m, a, k, q) = q
  BY DEF PageFor
<1> HIDE DEF m2
<1>8. HeapOK(m2, D)
  BY <1>1, <1>2, <1>3, <1>4, <1>5 DEF HeapOK
<1>9. /\ \A d \in Document : IF rt[d] = d THEN m.top[d] = PageSize ELSE rt[d] \in hp /\ ow[rt[d]] = d
      /\ \A p \in hp : rt[ow[p]] # ow[p]
  BY DEF MayTake, MemOK, RootsOK
<1>10. RootsOK(m2)
  BY <1>1, <1>2, <1>5, <1>9 DEF RootsOK
<1>11. \A b \in hp \cup Document : Allocator(m2, b) = Allocator(m, b) /\ b # q
  BY <1>1, <1>2, <1>5 DEF Allocator
<1>12. Allocator(m2, q) = a
  BY <1>1, <1>2, <1>5 DEF Allocator
<1>13. LinksOK(m2)
  <2>1. ASSUME NEW d \in Document PROVE m2.prev[d] = Nil
    <3>1. pv[d] = Nil /\ d # q /\ d # last /\ d \in Block
      BY <1>1, <1>2, <1>3 DEF MayTake, MemOK, LinksOK
    <3> QED BY <1>2, <1>5, <3>1
  <2>2. ASSUME NEW p \in m2.heap
        PROVE  /\ m2.prev[p] \in m2.heap \cup Document
               /\ m2.next[m2.prev[p]] = p
               /\ Allocator(m2, m2.prev[p]) = m2.owner[p]
    <3>1. CASE p = q
      <4>1. m2.prev[p] = front /\ m2.next[front] = q /\ m2.owner[p] = a
        BY <1>1, <1>2, <1>3, <1>4, <1>5, <3>1
      <4> QED BY <1>4, <1>5, <1>11, <3>1, <4>1
    <3>2. CASE p = last
      <4>1. m2.prev[p] = q /\ m2.next[q] = last /\ m2.owner[p] = a
        BY <1>1, <1>2, <1>3, <1>4, <1>5, <3>2
      <4> QED BY <1>5, <1>12, <3>2, <4>1
    <3>3. CASE p \in hp /\ p # last
      <4>1. pv[p] \in hp \cup Document /\ nx[pv[p]] = p /\ Allocator(m, pv[p]) = ow[p] /\ p # q
        BY <1>1, <3>3 DEF MayTake, MemOK, LinksOK
      <4>2. m2.prev[p] = pv[p] /\ m2.owner[p] = ow[p] /\ pv[p] # front /\ pv[p] # q
        BY <1>1, <1>2, <1>4, <1>5, <3>3, <4>1
      <4>3. m2.next[pv[p]] = p
        BY <1>2, <1>5, <4>1, <4>2
      <4> QED BY <1>5, <1>11, <4>1, <4>2, <4>3
    <3> QED BY <1>5, <3>1, <3>2, <3>3
  <2>3. ASSUME NEW b \in m2.heap \cup Document
        PROVE  IF m2.next[b] = Nil THEN b = m2.root[Allocator(m2, b)]
               ELSE m2.next[b] \in m2.heap /\ m2.prev[m2.next[b]] = b
    <3>1. CASE b = q
      <4>1. m2.next[b] = last /\ m2.prev[last] = q /\ last # Nil
        BY <1>1, <1>2, <1>3, <1>4, <1>5, <3>1
      <4> QED BY <1>3, <1>5, <3>1, <4>1
    <3>2. CASE b = front
      <4>1. m2.next[b] = q /\ m2.prev[q] = front /\ q # Nil
        BY <1>1, <1>2, <1>3, <1>4, <1>5, <3>2
      <4> QED BY <1>5, <3>2, <4>1
    <3>3. CASE b \in hp \cup Document /\ b # front
      <4>1. /\ nx[b] = Nil => b = rt[Allocator(m, b)]
            /\ nx[b] # Nil => nx[b] \in hp /\ pv[nx[b]] = b
        BY <3>3 DEF MayTake, MemOK, LinksOK
      <4>2. m2.next[b] = nx[b] /\ Allocator(m2, b) = Allocator(m, b)
        BY <1>2, <1>5, <1>11, <3>3
      <4>3. nx[b] # Nil => nx[b] # q /\ nx[b] # last
        BY <1>1, <3>3, <4>1
      <4>4. nx[b] # Nil => m2.prev[nx[b]] = pv[nx[b]]
        BY <1>2, <1>5, <4>1, <4>3
      <4> QED BY <1>5, <4>1, <4>2, <4>4
    <3> QED BY <1>5, <3>1, <3>2, <3>3
  <2>4. ASSUME NEW d \in Document PROVE m2.next[m2.root[d]] = Nil
    <3>1. nx[rt[d]] = Nil /\ rt[d] \in hp \cup Document
      BY <1>9 DEF MayTake, MemOK, LinksOK
    <3>2. rt[d] # front /\ rt[d] # q
      BY <1>1, <1>2, <1>3, <1>4, <3>1
    <3> QED BY <1>2, <1>5, <3>1, <3>2
  <2> QED BY <2>1, <2>2, <2>3, <2>4 DEF LinksOK
<1>14. LinksEnd(m2)
  <2> SUFFICES ASSUME NEW S \in SUBSET Page, S # {}
               PROVE  \E p \in S : m2.prev[p] \notin S
    BY DEF LinksEnd
  <2>1. m2.prev[q] = front /\ m2.prev[last] = q
    BY <1>1, <1>2, <1>3, <1>4, <1>5
  <2>2. ASSUME NEW p \in S, p # q, p # last PROVE m2.prev[p] = pv[p] /\ pv[p] # q
    <3>1. pv[p] = Nil \/ pv[p] \in hp \cup Document
      BY <1>1, <1>2, <2>2 DEF HeapOK, MayTake, MemOK, LinksOK
    <3> QED BY <1>1, <1>2, <1>5, <2>2, <3>1 DEF Block
  <2>3. CASE S = {q}
    BY <1>4, <2>1, <2>3
  <2>4. CASE S # {q}
    <3>1. PICK p \in S \ {q} : pv[p] \notin S \ {q}
      BY <2>4 DEF MayTake, MemOK, LinksEnd
    <3>2. CASE p = last
      <4>1. front \notin S
        BY <1>4, <3>1, <3>2
      <4> QED BY <2>1, <3>1, <3>2, <4>1
    <3>3. CASE p # last
      BY <2>2, <3>1, <3>3
    <3> QED BY <3>2, <3>3
  <2> QED BY <2>3, <2>4
<1>15. SizesOK(m2, u2)
  <2> SUFFICES ASSUME NEW r \in Page
               PROVE  IF r \in m2.heap
                      THEN /\ Busy(m2, m2.owner[r], r) = m2.freed[r] + u2[r]
                           /\ u2[r] = 0 => r = m2.root[m2.owner[r]] /\ m2.freed[r] = 0
                      ELSE u2[r] = 0
    BY DEF SizesOK
  <2>1. /\ r \in hp => /\ Busy(m, ow[r], r) = m.freed[r] + used[r]
                       /\ used[r] = 0 => r = rt[ow[r]] /\ m.freed[r] = 0
                       /\ ow[r] \in Document
        /\ r \notin hp => used[r] = 0 /\ m.freed[r] = 0
        /\ used[r] \in Nat /\ m.freed[r] \in Nat
    BY <1>1, <1>2 DEF MayTake, MemOK, SizesOK, HeapOK
  <2>2. CASE r = q
    <3>1. /\ m2.owner[r] = a /\ m2.root[a] # r /\ m2.busy[r] = k /\ u2[r] = k
          /\ m2.freed[r] = 0 /\ r \in m2.heap
      BY <1>1, <1>2, <1>3, <1>5, <2>1, <2>2
    <3>2. Busy(m2, a, r) = k
      BY <3>1 DEF Busy
    <3> QED BY <1>1, <3>1, <3>2
  <2>3. CASE r # q /\ r \in hp
    <3>1. /\ m2.owner[r] = ow[r] /\ u2[r] = used[r] /\ m2.freed[r] = m.freed[r]
          /\ m2.busy[r] = m.busy[r] /\ r \in m2.heap
      BY <1>1, <1>2, <1>5, <2>3
    <3>2. Busy(m2, ow[r], r) = Busy(m, ow[r], r)
      BY <1>5, <3>1 DEF Busy
    <3> QED BY <1>5, <2>1, <2>3, <3>1, <3>2
  <2>4. CASE r \notin m2.heap
    BY <1>1, <1>5, <2>1, <2>4
  <2> QED BY <1>5, <2>2, <2>3, <2>4
<1>16. MemOK(m2, D, u2)
  BY <1>6, <1>8, <1>10, <1>13, <1>14, <1>15 DEF MemOK
<1>17. q \in m2.heap /\ m2.owner[q] = a /\ \A r \in hp : r \in m2.heap /\ m2.owner[r] = ow[r]
  BY <1>1, <1>2, <1>5
<1> QED BY <1>7, <1>16, <1>17 DEF Taken, m2, u2

(* allocate_memory, wherever the block goes.                                *)
LEMMA AllocationIsTaken ==
  ASSUME NEW m, NEW D, NEW used, NEW a, NEW k, NEW q, MayTake(m, D, used, a, k, q)
  PROVE  Taken(m, Allocated(m, a, k, q), D, used, a, k, PageFor(m, a, k, q))
BY TakenFromLast, TakenFromNew, TakenForLarge

(* What giving back k units of page p to a is given.                        *)
MayGive(m, D, used, a, p, k) ==
  /\ D \subseteq Document
  /\ used \in [Page -> Nat]
  /\ MemOK(m, D, used)
  /\ p \in m.heap /\ m.owner[p] = a
  /\ k \in Nat \ {0} /\ k <= used[p]

(* What it leaves: a memory in order with k units less in use on p; no page *)
(* comes in or changes hands.                                               *)
Given(m, m2, D, used, p, k) ==
  /\ MemOK(m2, D, [used EXCEPT ![p] = @ - k])
  /\ \A r \in m2.heap : r \in m.heap /\ m2.owner[r] = m.owner[r]

(* Something is left on the page, or it is the one that is filled.          *)
LEMMA GivenToPage ==
  ASSUME NEW m, NEW D, NEW used, NEW a, NEW p, NEW k, MayGive(m, D, used, a, p, k),
         m.freed[p] + k < Busy(m, a, p) \/ m.next[p] = Nil
  PROVE  Given(m, Deallocated(m, a, p, k), D, used, p, k)
<1> DEFINE left == m.freed[p] + k < Busy(m, a, p)
           m2 == IF left
                 THEN [m EXCEPT !.busy[p] = Busy(m, a, p), !.freed[p] = @ + k]
                 ELSE [m EXCEPT !.busy[p] = 0, !.freed[p] = 0, !.top[a] = 0]
           u2 == [used EXCEPT ![p] = @ - k]
           hp == m.heap  ow == m.owner  rt == m.root
<1>1. Deallocated(m, a, p, k) = m2
  BY DEF Deallocated
<1>2. /\ m \in Memory /\ hp \subseteq Page /\ ow \in [Page -> Document \cup {Nil}]
      /\ rt \in [Document -> Block] /\ m.busy \in [Page -> Nat] /\ m.freed \in [Page -> Nat]
      /\ m.top \in [Document -> 0 .. PageSize] /\ PageSize \in Nat
      /\ used \in [Page -> Nat] /\ k \in Nat /\ k > 0 /\ p \in hp /\ p \in Page /\ ow[p] = a
      /\ k <= used[p] /\ Page \cap Document = {} /\ a \in Document
  BY PugiAssumption DEF MayGive, MemOK, HeapOK, Memory, Block
<1>3. /\ Busy(m, a, p) = m.freed[p] + used[p] /\ Busy(m, a, p) \in Nat
  BY <1>2 DEF MayGive, MemOK, SizesOK
<1>4. left <=> k < used[p]
  BY <1>2, <1>3
<1>5. ~left => rt[a] = p /\ used[p] = k
  <2>1. m.next[p] = Nil => rt[a] = p
    BY <1>2 DEF MayGive, MemOK, LinksOK, Allocator
  <2> QED BY <1>2, <1>4, <2>1
<1>6. /\ m2.heap = hp /\ m2.owner = ow /\ m2.next = m.next /\ m2.prev = m.prev /\ m2.root = rt
      /\ m2.busy = [m.busy EXCEPT ![p] = IF left THEN Busy(m, a, p) ELSE 0]
      /\ m2.freed = [m.freed EXCEPT ![p] = IF left THEN @ + k ELSE 0]
      /\ m2.top = IF left THEN m.top ELSE [m.top EXCEPT ![a] = 0]
  BY <1>2 DEF Memory
<1>7. m2 \in Memory
  <2>1. m2 = [heap |-> m2.heap, owner |-> m2.owner, next |-> m2.next, prev |-> m2.prev,
              busy |-> m2.busy, freed |-> m2.freed, root |-> m2.root, top |-> m2.top]
    BY <1>2 DEF Memory
  <2> HIDE DEF m2, left
  <2>2. /\ m2.heap \in SUBSET Page /\ m2.owner \in [Page -> Document \cup {Nil}]
        /\ m2.next \in [Block -> Page \cup {Nil}] /\ m2.prev \in [Block -> Block \cup {Nil}]
        /\ m2.root \in [Document -> Block]
    BY <1>2, <1>6 DEF Memory
  <2>3. m2.busy \in [Page -> Nat] /\ m2.freed \in [Page -> Nat]
    BY <1>2, <1>3, <1>6
  <2>4. m2.top \in [Document -> 0 .. PageSize]
    BY <1>2, <1>6
  <2> QED BY <2>1, <2>2, <2>3, <2>4 DEF Memory
<1> HIDE DEF m2, left
<1>8. /\ \A d \in Document : IF rt[d] = d THEN m.top[d] = PageSize ELSE rt[d] \in hp /\ ow[rt[d]] = d
      /\ \A r \in hp : rt[ow[r]] # ow[r]
  BY DEF MayGive, MemOK, RootsOK
<1>9. HeapOK(m2, D)
  BY <1>2, <1>6 DEF HeapOK, MayGive, MemOK
<1>10. RootsOK(m2)
  <2>1. ASSUME NEW d \in Document, rt[d] = d PROVE m2.top[d] = PageSize
    <3>1. d # a
      BY <1>2, <1>8, <2>1
    <3> QED BY <1>2, <1>6, <1>8, <2>1, <3>1
  <2> QED BY <1>6, <1>8, <2>1 DEF RootsOK
<1>11. LinksOK(m2) /\ LinksEnd(m2)
  BY <1>6 DEF MayGive, MemOK, LinksOK, LinksEnd, Allocator
<1>12. SizesOK(m2, u2)
  <2> SUFFICES ASSUME NEW r \in Page
               PROVE  IF r \in hp
                      THEN /\ Busy(m2, ow[r], r) = m2.freed[r] + u2[r]
                           /\ u2[r] = 0 => r = rt[ow[r]] /\ m2.freed[r] = 0
                      ELSE u2[r] = 0
    BY <1>6 DEF SizesOK
  <2>1. /\ r \in hp => /\ Busy(m, ow[r], r) = m.freed[r] + used[r]
                       /\ used[r] = 0 => r = rt[ow[r]] /\ m.freed[r] = 0
                       /\ ow[r] \in Document
        /\ r \notin hp => used[r] = 0
    BY <1>2 DEF MayGive, MemOK, SizesOK, HeapOK
  <2>2. CASE r # p
    <3>1. u2[r] = used[r] /\ m2.freed[r] = m.freed[r] /\ m2.busy[r] = m.busy[r]
      BY <1>2, <1>6, <2>2
    <3>2. CASE r \in hp
      <4>1. m2.top[ow[r]] = m.top[ow[r]] \/ (ow[r] = a /\ rt[a] = p)
        BY <1>2, <1>5, <1>6, <2>1, <3>2
      <4>2. Busy(m2, ow[r], r) = Busy(m, ow[r], r)
        BY <1>6, <2>2, <3>1, <4>1 DEF Busy
      <4> QED BY <2>1, <3>1, <3>2, <4>2
    <3> QED BY <2>1, <3>1, <3>2
  <2>3. CASE r = p /\ left
    <3>1. /\ u2[r] = used[r] - k /\ m2.freed[r] = m.freed[r] + k
          /\ m2.busy[r] = Busy(m, a, r) /\ m2.top = m.top
      BY <1>2, <1>6, <2>3
    <3>2. Busy(m2, a, r) = Busy(m, a, r)
      BY <1>6, <3>1 DEF Busy
    <3>3. used[r] \in Nat /\ m.freed[r] \in Nat /\ k < used[r] /\ ow[r] = a /\ r \in hp
      BY <1>2, <1>4, <2>3
    <3> QED BY <1>2, <1>3, <2>3, <3>1, <3>2, <3>3
  <2>4. CASE r = p /\ ~left
    <3>1. u2[r] = 0 /\ m2.freed[r] = 0 /\ m2.top[a] = 0 /\ rt[a] = r /\ ow[r] = a
      BY <1>2, <1>5, <1>6, <2>4
    <3>2. Busy(m2, a, r) = 0
      BY <1>6, <3>1 DEF Busy
    <3> QED BY <1>2, <2>4, <3>1, <3>2
  <2> QED BY <2>2, <2>3, <2>4
<1>13. MemOK(m2, D, u2)
  BY <1>7, <1>9, <1>10, <1>11, <1>12 DEF MemOK
<1> QED BY <1>1, <1>6, <1>13 DEF Given

(* The page is empty and there is one behind it: it goes back to the heap.  *)
LEMMA GivenToHeap ==
  ASSUME NEW m, NEW D, NEW used, NEW a, NEW p, NEW k, MayGive(m, D, used, a, p, k),
         ~(m.freed[p] + k < Busy(m, a, p)), m.next[p] # Nil
  PROVE  Given(m, Deallocated(m, a, p, k), D, used, p, k)
<1> DEFINE m2 == Deallocated(m, a, p, k)
           front == m.prev[p]
           behind == m.next[p]
           u2 == [used EXCEPT ![p] = @ - k]
           hp == m.heap  ow == m.owner  nx == m.next  pv == m.prev  rt == m.root
<1>1. /\ m \in Memory /\ hp \subseteq Page /\ ow \in [Page -> Document \cup {Nil}]
      /\ nx \in [Block -> Page \cup {Nil}] /\ pv \in [Block -> Block \cup {Nil}]
      /\ rt \in [Document -> Block] /\ m.busy \in [Page -> Nat] /\ m.freed \in [Page -> Nat]
      /\ m.top \in [Document -> 0 .. PageSize]
      /\ used \in [Page -> Nat] /\ k \in Nat /\ k > 0 /\ p \in hp /\ p \in Page /\ ow[p] = a
      /\ k <= used[p] /\ Page \cap Document = {} /\ a \in Document /\ Block = Page \cup Document
      /\ Nil \notin Block
  BY PugiAssumption DEF MayGive, MemOK, HeapOK, Memory, Block
<1>2. used[p] = k /\ u2[p] = 0
  <2>1. Busy(m, a, p) = m.freed[p] + used[p]
    BY <1>1 DEF MayGive, MemOK, SizesOK
  <2>2. used[p] \in Nat /\ m.freed[p] \in Nat /\ u2[p] = used[p] - k
    BY <1>1
  <2> QED BY <1>1, <2>1, <2>2
<1>3. /\ \A b \in hp : /\ pv[b] \in hp \cup Document /\ nx[pv[b]] = b
                       /\ Allocator(m, pv[b]) = ow[b]
      /\ \A b \in hp \cup Document : IF nx[b] = Nil THEN b = rt[Allocator(m, b)]
                                     ELSE nx[b] \in hp /\ pv[nx[b]] = b
      /\ \A d \in Document : pv[d] = Nil /\ nx[rt[d]] = Nil
  BY DEF MayGive, MemOK, LinksOK
<1>4. \A b \in Page : pv[b] # b
  <2> SUFFICES ASSUME NEW b \in Page PROVE pv[b] # b
    OBVIOUS
  <2>1. {b} \in SUBSET Page /\ {b} # {}
    OBVIOUS
  <2>2. PICK c \in {b} : pv[c] \notin {b}
    BY <2>1 DEF MayGive, MemOK, LinksEnd
  <2> QED BY <2>2
<1>5. /\ front \in hp \cup Document /\ nx[front] = p /\ Allocator(m, front) = a
      /\ behind \in hp /\ pv[behind] = p /\ front # p /\ behind # p /\ front \in Block
      /\ behind \in Page /\ ow[behind] = a
  <2>1. behind \in hp /\ pv[behind] = p
    BY <1>1, <1>3
  <2>2. ow[behind] = a
    BY <1>1, <1>3, <2>1 DEF Allocator
  <2> QED BY <1>1, <1>3, <1>4, <2>1, <2>2
<1>6. rt[a] # p /\ \A d \in Document : rt[d] # p
  BY <1>1, <1>3
<1>7. /\ m2.heap = hp \ {p}
      /\ m2.owner = [r \in Page |-> IF r = p THEN Nil ELSE ow[r]]
      /\ m2.next = [b \in Block |-> IF b = p THEN Nil ELSE IF b = front THEN behind ELSE nx[b]]
      /\ m2.prev = [b \in Block |-> IF b = p THEN Nil ELSE IF b = behind THEN front ELSE pv[b]]
      /\ m2.busy = [r \in Page |-> IF r = p THEN 0 ELSE m.busy[r]]
      /\ m2.freed = [r \in Page |-> IF r = p THEN 0 ELSE m.freed[r]]
      /\ m2.root = rt /\ m2.top = m.top
  <2> DEFINE m1 == LinkedAround(m, p)
  <2>1. /\ m1.heap = hp /\ m1.owner = ow /\ m1.busy = m.busy /\ m1.freed = m.freed
        /\ m1.root = rt /\ m1.top = m.top
        /\ m1.next = [nx EXCEPT ![front] = behind] /\ m1.prev = [pv EXCEPT ![behind] = front]
    BY <1>1 DEF LinkedAround, Memory
  <2>2. m2 = Returned(m1, {p})
    BY <1>1, <1>5 DEF Deallocated
  <2>3. m1 = [heap |-> m1.heap, owner |-> m1.owner, next |-> m1.next, prev |-> m1.prev,
              busy |-> m1.busy, freed |-> m1.freed, root |-> m1.root, top |-> m1.top]
    <3>1. m = [heap |-> hp, owner |-> ow, next |-> nx, prev |-> pv,
               busy |-> m.busy, freed |-> m.freed, root |-> rt, top |-> m.top]
      BY <1>1 DEF Memory
    <3>2. m1 = [[m EXCEPT !.next = [nx EXCEPT ![front] = behind]]
                  EXCEPT !.prev = [pv EXCEPT ![behind] = front]]
      BY <3>1 DEF LinkedAround
    <3> QED BY <3>1, <3>2, <2>1
  <2> HIDE DEF m1, m2
  <2>4. /\ m2.heap = m1.heap \ {p}
        /\ m2.owner = [r \in Page |-> IF r \in {p} THEN Nil ELSE m1.owner[r]]
        /\ m2.next = [b \in Block |-> IF b \in {p} THEN Nil ELSE m1.next[b]]
        /\ m2.prev = [b \in Block |-> IF b \in {p} THEN Nil ELSE m1.prev[b]]
        /\ m2.busy = [r \in Page |-> IF r \in {p} THEN 0 ELSE m1.busy[r]]
        /\ m2.freed = [r \in Page |-> IF r \in {p} THEN 0 ELSE m1.freed[r]]
        /\ m2.root = m1.root /\ m2.top = m1.top
    BY <2>2, <2>3 DEF Returned
  <2>5. \A b \in Block : m1.next[b] = IF b = front THEN behind ELSE nx[b]
    BY <1>1, <2>1
  <2>6. \A b \in Block : m1.prev[b] = IF b = behind THEN front ELSE pv[b]
    BY <1>1, <2>1
  <2>7. \A b \in Block : b \in {p} <=> b = p
    OBVIOUS
  <2> QED BY <2>1, <2>4, <2>5, <2>6
<1>8. m2 \in Memory
  <2>1. m2 = [heap |-> m2.heap, owner |-> m2.owner, next |-> m2.next, prev |-> m2.prev,
              busy |-> m2.busy, freed |-> m2.freed, root |-> m2.root, top |-> m2.top]
    BY <1>1 DEF Memory, Deallocated, Returned, LinkedAround
  <2> HIDE DEF m2, front, behind
  <2>2. /\ m2.heap \in SUBSET Page /\ m2.owner \in [Page -> Document \cup {Nil}]
        /\ m2.busy \in [Page -> Nat] /\ m2.freed \in [Page -> Nat]
        /\ m2.root \in [Document -> Block] /\ m2.top \in [Document -> 0 .. PageSize]
    BY <1>1, <1>7
  <2>3. m2.next \in [Block -> Page \cup {Nil}]
    BY <1>1, <1>5, <1>7
  <2>4. m2.prev \in [Block -> Block \cup {Nil}]
    BY <1>1, <1>5, <1>7
  <2> QED BY <2>1, <2>2, <2>3, <2>4 DEF Memory
<1> HIDE DEF m2
<1>9. HeapOK(m2, D)
  BY <1>1, <1>5, <1>7 DEF HeapOK, MayGive, MemOK
<1>10. RootsOK(m2)
  <2>1. /\ \A d \in Document : IF rt[d] = d THEN m.top[d] = PageSize ELSE rt[d] \in hp /\ ow[rt[d]] = d
        /\ \A r \in hp : rt[ow[r]] # ow[r]
    BY DEF MayGive, MemOK, RootsOK
  <2> QED BY <1>1, <1>6, <1>7, <2>1 DEF RootsOK
<1>11. \A b \in (hp \ {p}) \cup Document : b \in Block /\ b # p /\ Allocator(m2, b) = Allocator(m, b)
  BY <1>1, <1>7 DEF Allocator
<1>12. LinksOK(m2)
  <2>1. ASSUME NEW d \in Document PROVE m2.prev[d] = Nil
    BY <1>1, <1>3, <1>5, <1>7
  <2>2. ASSUME NEW b \in m2.heap
        PROVE  /\ m2.prev[b] \in m2.heap \cup Document
               /\ m2.next[m2.prev[b]] = b
               /\ Allocator(m2, m2.prev[b]) = m2.owner[b]
    <3>1. b \in hp /\ b # p /\ b \in Page /\ b \in Block /\ m2.owner[b] = ow[b]
      BY <1>1, <1>7
    <3>2. CASE b = behind
      <4>1. m2.prev[b] = front /\ m2.next[front] = behind
        BY <1>1, <1>5, <1>7, <3>1, <3>2
      <4> QED BY <1>5, <1>7, <1>11, <3>1, <3>2, <4>1
    <3>3. CASE b # behind
      <4>1. m2.prev[b] = pv[b]
        BY <1>7, <3>1, <3>3
      <4>2. pv[b] \in hp \cup Document /\ nx[pv[b]] = b /\ Allocator(m, pv[b]) = ow[b]
        BY <1>3, <3>1
      <4>3. pv[b] # p /\ pv[b] # front
        BY <1>5, <3>1, <3>3, <4>2
      <4>4. m2.next[pv[b]] = b
        BY <1>1, <1>7, <4>2, <4>3
      <4> QED BY <1>7, <1>11, <3>1, <4>1, <4>2, <4>3, <4>4
    <3> QED BY <3>2, <3>3
  <2>3. ASSUME NEW b \in m2.heap \cup Document
        PROVE  IF m2.next[b] = Nil THEN b = m2.root[Allocator(m2, b)]
               ELSE m2.next[b] \in m2.heap /\ m2.prev[m2.next[b]] = b
    <3>1. b \in hp \cup Document /\ b # p /\ b \in Block /\ Allocator(m2, b) = Allocator(m, b)
      BY <1>7, <1>11
    <3>2. CASE b = front
      <4>1. m2.next[b] = behind /\ m2.prev[behind] = front /\ behind # Nil
        BY <1>1, <1>5, <1>7, <3>1, <3>2
      <4> QED BY <1>5, <1>7, <3>2, <4>1
    <3>3. CASE b # front
      <4>1. m2.next[b] = nx[b]
        BY <1>7, <3>1, <3>3
      <4>2. nx[b] # Nil => nx[b] \in hp /\ pv[nx[b]] = b /\ nx[b] # p /\ nx[b] # behind
        BY <1>3, <1>5, <3>1, <3>3
      <4>3. nx[b] # Nil => m2.prev[nx[b]] = b
        BY <1>1, <1>7, <4>2
      <4>4. nx[b] = Nil => b = rt[Allocator(m, b)]
        BY <1>3, <3>1
      <4> QED BY <1>7, <3>1, <4>1, <4>2, <4>3, <4>4
    <3> QED BY <3>2, <3>3
  <2>4. ASSUME NEW d \in Document PROVE m2.next[m2.root[d]] = Nil
    <3>1. rt[d] \in Block /\ nx[rt[d]] = Nil /\ rt[d] # p /\ rt[d] # front
      BY <1>1, <1>3, <1>5, <1>6
    <3> QED BY <1>7, <3>1
  <2> QED BY <2>1, <2>2, <2>3, <2>4 DEF LinksOK
<1>13. LinksEnd(m2)
  <2> SUFFICES ASSUME NEW S \in SUBSET Page, S # {}
               PROVE  \E b \in S : m2.prev[b] \notin S
    BY DEF LinksEnd
  <2>1. CASE p \in S
    BY <1>1, <1>7, <2>1
  <2>2. CASE p \notin S
    <3> DEFINE T == IF behind \in S THEN S \cup {p} ELSE S
    <3>1. T \in SUBSET Page /\ T # {}
      BY <1>1
    <3>2. PICK c \in T : pv[c] \notin T
      BY <3>1 DEF MayGive, MemOK, LinksEnd
    <3>3. CASE c = p
      <4>1. behind \in S /\ front \notin S
        BY <2>2, <3>2, <3>3
      <4>2. m2.prev[behind] = front
        BY <1>1, <1>5, <1>7
      <4> QED BY <4>1, <4>2
    <3>4. CASE c # p
      <4>1. c \in S /\ c # behind /\ c \in Block
        BY <1>1, <1>5, <3>2, <3>4
      <4>2. m2.prev[c] = pv[c]
        BY <1>7, <3>4, <4>1
      <4> QED BY <3>2, <4>1, <4>2
    <3> QED BY <3>3, <3>4
  <2> QED BY <2>1, <2>2
<1>14. SizesOK(m2, u2)
  <2> SUFFICES ASSUME NEW r \in Page
               PROVE  IF r \in m2.heap
                      THEN /\ Busy(m2, m2.owner[r], r) = m2.freed[r] + u2[r]
                           /\ u2[r] = 0 => r = m2.root[m2.owner[r]] /\ m2.freed[r] = 0
                      ELSE u2[r] = 0
    BY DEF SizesOK
  <2>1. /\ r \in hp => /\ Busy(m, ow[r], r) = m.freed[r] + used[r]
                       /\ used[r] = 0 => r = rt[ow[r]] /\ m.freed[r] = 0
        /\ r \notin hp => used[r] = 0
    BY <1>1 DEF MayGive, MemOK, SizesOK
  <2>2. CASE r = p
    BY <1>2, <1>7, <2>2
  <2>3. CASE r # p
    <3>1. /\ u2[r] = used[r] /\ m2.owner[r] = ow[r] /\ m2.busy[r] = m.busy[r]
          /\ m2.freed[r] = m.freed[r] /\ (r \in m2.heap <=> r \in hp)
      BY <1>1, <1>7, <2>3
    <3>2. Busy(m2, ow[r], r) = Busy(m, ow[r], r)
      BY <1>7, <3>1 DEF Busy
    <3> QED BY <1>7, <2>1, <3>1, <3>2
  <2> QED BY <2>2, <2>3
<1>15. MemOK(m2, D, u2)
  BY <1>8, <1>9, <1>10, <1>12, <1>13, <1>14 DEF MemOK
<1>16. \A r \in m2.heap : r \in hp /\ m2.owner[r] = ow[r]
  BY <1>1, <1>7
<1> QED BY <1>15, <1>16 DEF Given, m2, u2

(* deallocate_memory, whatever becomes of the page.                         *)
LEMMA BlockIsGiven ==
  ASSUME NEW m, NEW D, NEW used, NEW a, NEW p, NEW k, MayGive(m, D, used, a, p, k)
  PROVE  Given(m, Deallocated(m, a, p, k), D, used, p, k)
BY GivenToPage, GivenToHeap

-----------------------------------------------------------------------------
(***************************************************************************)
(* Documents                                                                *)
(***************************************************************************)

(* Giving pages back leaves the eight fields of a memory.                   *)
LEMMA ReturnedIsRecord ==
  ASSUME NEW m \in Memory, NEW S
  PROVE  LET m1 == Returned(m, S)
         IN  m1 = [heap |-> m1.heap, owner |-> m1.owner, next |-> m1.next, prev |-> m1.prev,
                   busy |-> m1.busy, freed |-> m1.freed, root |-> m1.root, top |-> m1.top]
<1>1. m = [heap |-> m.heap, owner |-> m.owner, next |-> m.next, prev |-> m.prev,
           busy |-> m.busy, freed |-> m.freed, root |-> m.root, top |-> m.top]
  BY DEF Memory
<1>2. PICK h, o, n, p, b, f, r, t :
        m = [heap |-> h, owner |-> o, next |-> n, prev |-> p,
             busy |-> b, freed |-> f, root |-> r, top |-> t]
  BY <1>1
<1> DEFINE hS == h \ S
           oS == [x \in Page |-> IF x \in S THEN Nil ELSE o[x]]
           nS == [x \in Block |-> IF x \in S THEN Nil ELSE n[x]]
           pS == [x \in Block |-> IF x \in S THEN Nil ELSE p[x]]
           bS == [x \in Page |-> IF x \in S THEN 0 ELSE b[x]]
           fS == [x \in Page |-> IF x \in S THEN 0 ELSE f[x]]
<1>3. Returned(m, S) = [m EXCEPT !.heap = hS, !.owner = oS, !.next = nS,
                                 !.prev = pS, !.busy = bS, !.freed = fS]
  BY <1>2 DEF Returned
<1> HIDE DEF hS, oS, nS, pS, bS, fS
<1>4. Returned(m, S) = [heap |-> hS, owner |-> oS, next |-> nS, prev |-> pS,
                        busy |-> bS, freed |-> fS, root |-> r, top |-> t]
  BY <1>2, <1>3
<1> QED BY <1>4

(* What is in use when the pages in S have gone.                            *)
Spared(used, S) == [p \in Page |-> IF p \in S THEN 0 ELSE used[p]]

(* What _destroy and _create of d are given, and leave: a memory in order,  *)
(* in which d has no page; whether d is among the documents makes no        *)
(* difference.                                                              *)
MayReset(m, D, used, d, D1) ==
  /\ D \in SUBSET Document /\ D1 \in SUBSET Document /\ D \ {d} \subseteq D1
  /\ d \in Document /\ used \in [Page -> Nat]
  /\ MemOK(m, D, used)

WasReset(m, m2, used, d, D1) ==
  /\ MemOK(m2, D1, Spared(used, Chain(m, d)))
  /\ m2.heap = m.heap \ Chain(m, d)
  /\ \A r \in m2.heap : m2.owner[r] = m.owner[r]
  /\ m2.root = [m.root EXCEPT ![d] = d]

(* They do leave it.                                                        *)
LEMMA ResetKeepsOrder ==
  ASSUME NEW m, NEW D, NEW used, NEW d, NEW D1, MayReset(m, D, used, d, D1)
  PROVE  WasReset(m, Reset(m, d), used, d, D1)
<1> DEFINE m2 == Reset(m, d)
           Own == Chain(m, d)
           u2 == Spared(used, Own)
           hp == m.heap  ow == m.owner  nx == m.next  pv == m.prev  rt == m.root
<1>0. /\ D \in SUBSET Document /\ D1 \in SUBSET Document /\ D \ {d} \subseteq D1
      /\ d \in Document /\ used \in [Page -> Nat]
      /\ MemOK(m, D, used)
  BY DEF MayReset
<1>1. /\ m \in Memory /\ hp \subseteq Page /\ ow \in [Page -> Document \cup {Nil}]
      /\ nx \in [Block -> Page \cup {Nil}] /\ pv \in [Block -> Block \cup {Nil}]
      /\ rt \in [Document -> Block] /\ m.busy \in [Page -> Nat] /\ m.freed \in [Page -> Nat]
      /\ m.top \in [Document -> 0 .. PageSize] /\ PageSize \in Nat
      /\ Page \cap Document = {} /\ Block = Page \cup Document
      /\ Nil \notin Block /\ d \in Block
  BY <1>0, PugiAssumption DEF MemOK, Memory, Block
<1>2. Own = {p \in hp : ow[p] = d}
  BY <1>0, ChainIsOwned
<1>3. /\ \A b \in hp : /\ pv[b] \in hp \cup Document /\ nx[pv[b]] = b
                       /\ Allocator(m, pv[b]) = ow[b]
      /\ \A b \in hp \cup Document : IF nx[b] = Nil THEN b = rt[Allocator(m, b)]
                                     ELSE nx[b] \in hp /\ pv[nx[b]] = b
      /\ \A c \in Document : pv[c] = Nil /\ nx[rt[c]] = Nil
  BY <1>0 DEF MemOK, LinksOK
<1>4. /\ \A c \in Document : IF rt[c] = c THEN m.top[c] = PageSize ELSE rt[c] \in hp /\ ow[rt[c]] = c
      /\ \A r \in hp : rt[ow[r]] # ow[r]
      /\ \A r \in hp : ow[r] \in D /\ ow[r] \in Document
      /\ \A r \in Page \ hp : ow[r] = Nil /\ nx[r] = Nil /\ pv[r] = Nil /\ m.freed[r] = 0
  <2>1. \A r \in hp : r \in Page /\ ow[r] \in D
    BY <1>0, <1>1 DEF MemOK, HeapOK
  <2>2. \A r \in Page \ hp : ow[r] = Nil /\ nx[r] = Nil /\ pv[r] = Nil /\ m.freed[r] = 0
    BY <1>0 DEF MemOK, HeapOK
  <2> QED BY <1>0, <2>1, <2>2 DEF MemOK, RootsOK
<1>5. /\ m2.heap = hp \ Own
      /\ m2.owner = [r \in Page |-> IF r \in Own THEN Nil ELSE ow[r]]
      /\ m2.next = [b \in Block |-> IF b \in Own \cup {d} THEN Nil ELSE nx[b]]
      /\ m2.prev = [b \in Block |-> IF b \in Own \cup {d} THEN Nil ELSE pv[b]]
      /\ m2.busy = [r \in Page |-> IF r \in Own THEN 0 ELSE m.busy[r]]
      /\ m2.freed = [r \in Page |-> IF r \in Own THEN 0 ELSE m.freed[r]]
      /\ m2.root = [rt EXCEPT ![d] = d]
      /\ m2.top = [m.top EXCEPT ![d] = PageSize]
      /\ m2 = [heap |-> m2.heap, owner |-> m2.owner, next |-> m2.next, prev |-> m2.prev,
               busy |-> m2.busy, freed |-> m2.freed, root |-> m2.root, top |-> m2.top]
  <2> DEFINE m1 == Returned(m, Own)
  <2>1. m2 = [heap |-> m2.heap, owner |-> m2.owner, next |-> m2.next, prev |-> m2.prev,
              busy |-> m2.busy, freed |-> m2.freed, root |-> m2.root, top |-> m2.top]
    <3>1. m1 = [heap |-> m1.heap, owner |-> m1.owner, next |-> m1.next, prev |-> m1.prev,
                busy |-> m1.busy, freed |-> m1.freed, root |-> m1.root, top |-> m1.top]
      BY <1>0, <1>1, ReturnedIsRecord
    <3>2. m2 = [m1 EXCEPT !.next[d] = Nil, !.prev[d] = Nil, !.root[d] = d, !.top[d] = PageSize]
      BY DEF Reset
    <3> HIDE DEF m1, m2
    <3> QED BY <1>0, <3>1, <3>2
  <2>2. /\ m1.heap = hp \ Own
        /\ m1.owner = [r \in Page |-> IF r \in Own THEN Nil ELSE ow[r]]
        /\ m1.next = [b \in Block |-> IF b \in Own THEN Nil ELSE nx[b]]
        /\ m1.prev = [b \in Block |-> IF b \in Own THEN Nil ELSE pv[b]]
        /\ m1.busy = [r \in Page |-> IF r \in Own THEN 0 ELSE m.busy[r]]
        /\ m1.freed = [r \in Page |-> IF r \in Own THEN 0 ELSE m.freed[r]]
        /\ m1.root = rt /\ m1.top = m.top
    BY <1>0, <1>1 DEF Memory, Returned
  <2>3. /\ m2.heap = m1.heap /\ m2.owner = m1.owner
        /\ m2.next = [m1.next EXCEPT ![d] = Nil] /\ m2.prev = [m1.prev EXCEPT ![d] = Nil]
        /\ m2.busy = m1.busy /\ m2.freed = m1.freed
        /\ m2.root = [rt EXCEPT ![d] = d] /\ m2.top = [m.top EXCEPT ![d] = PageSize]
    BY <1>0, <1>1 DEF Memory, Reset, Returned
  <2> HIDE DEF m1, m2
  <2>4. [m1.next EXCEPT ![d] = Nil] = [b \in Block |-> IF b \in Own \cup {d} THEN Nil ELSE nx[b]]
    BY <1>0, <1>1, <2>2
  <2>5. [m1.prev EXCEPT ![d] = Nil] = [b \in Block |-> IF b \in Own \cup {d} THEN Nil ELSE pv[b]]
    BY <1>0, <1>1, <2>2
  <2> QED BY <1>0, <2>1, <2>2, <2>3, <2>4, <2>5
<1> HIDE DEF m2, Own
<1>6. m2 \in Memory
  <2>1. /\ m2.heap \in SUBSET Page /\ m2.owner \in [Page -> Document \cup {Nil}]
        /\ m2.busy \in [Page -> Nat] /\ m2.freed \in [Page -> Nat]
    BY <1>0, <1>1, <1>5
  <2>2. m2.next \in [Block -> Page \cup {Nil}] /\ m2.prev \in [Block -> Block \cup {Nil}]
    BY <1>0, <1>1, <1>5
  <2>3. m2.root \in [Document -> Block] /\ m2.top \in [Document -> 0 .. PageSize]
    BY <1>0, <1>1, <1>5
  <2> QED BY <1>0, <1>5, <2>1, <2>2, <2>3 DEF Memory
<1>7. \A r \in m2.heap : r \in hp /\ r \in Page /\ r \notin Own /\ m2.owner[r] = ow[r] /\ ow[r] # d
  BY <1>0, <1>1, <1>2, <1>5
<1>8. HeapOK(m2, D1)
  <2> SUFFICES ASSUME NEW r \in Page
               PROVE  IF r \in m2.heap THEN m2.owner[r] \in D1
                      ELSE m2.owner[r] = Nil /\ m2.next[r] = Nil /\ m2.prev[r] = Nil /\ m2.freed[r] = 0
    BY DEF HeapOK
  <2>1. CASE r \in m2.heap
    BY <1>0, <1>4, <1>7, <2>1
  <2>2. CASE r \notin m2.heap
    BY <1>0, <1>1, <1>4, <1>5, <2>2
  <2> QED BY <1>0, <2>1, <2>2
<1>9. RootsOK(m2)
  <2>1. ASSUME NEW c \in Document
        PROVE  IF m2.root[c] = c THEN m2.top[c] = PageSize
               ELSE m2.root[c] \in m2.heap /\ m2.owner[m2.root[c]] = c
    <3>1. CASE c = d
      BY <1>0, <1>1, <1>5, <3>1
    <3>2. CASE c # d
      <4>1. m2.root[c] = rt[c] /\ m2.top[c] = m.top[c]
        BY <1>0, <1>1, <1>5, <3>2
      <4>2. rt[c] # c => rt[c] \in hp \ Own /\ ow[rt[c]] = c
        BY <1>0, <1>2, <1>4, <3>2
      <4> QED BY <1>0, <1>4, <1>5, <1>7, <4>1, <4>2
    <3> QED BY <1>0, <3>1, <3>2
  <2>2. ASSUME NEW r \in m2.heap PROVE m2.root[m2.owner[r]] # m2.owner[r]
    <3>1. m2.owner[r] = ow[r] /\ ow[r] # d /\ ow[r] \in Document /\ rt[ow[r]] # ow[r]
      BY <1>0, <1>4, <1>7
    <3>2. m2.root[ow[r]] = rt[ow[r]]
      BY <1>0, <1>1, <1>5, <3>1
    <3> QED BY <1>0, <3>1, <3>2
  <2> QED BY <1>0, <2>1, <2>2 DEF RootsOK
<1>10. \A b \in m2.heap \cup Document : /\ Allocator(m2, b) = Allocator(m, b)
                                        /\ b \in hp \cup Document /\ b \in Block /\ b \notin Own
                                        /\ b # d => Allocator(m, b) # d
  BY <1>0, <1>1, <1>2, <1>7 DEF Allocator
<1>11. \A b \in hp \cup Document : b \notin Own \cup {d} <=> Allocator(m, b) # d
  BY <1>0, <1>1, <1>2 DEF Allocator
<1>12. LinksOK(m2)
  <2>1. ASSUME NEW c \in Document PROVE m2.prev[c] = Nil
    BY <1>0, <1>1, <1>3, <1>5
  <2>2. ASSUME NEW b \in m2.heap
        PROVE  /\ m2.prev[b] \in m2.heap \cup Document
               /\ m2.next[m2.prev[b]] = b
               /\ Allocator(m2, m2.prev[b]) = m2.owner[b]
    <3>1. b \in hp /\ b \in Block /\ b \notin Own \cup {d} /\ m2.owner[b] = ow[b] /\ ow[b] # d
      BY <1>0, <1>1, <1>7
    <3>2. pv[b] \in hp \cup Document /\ nx[pv[b]] = b /\ Allocator(m, pv[b]) = ow[b]
      BY <1>0, <1>3, <3>1
    <3>3. m2.prev[b] = pv[b]
      BY <1>0, <1>5, <3>1
    <3>4. pv[b] \notin Own \cup {d} /\ pv[b] \in Block
      BY <1>0, <1>1, <1>11, <3>1, <3>2
    <3>5. m2.next[pv[b]] = b
      BY <1>0, <1>5, <3>2, <3>4
    <3> QED BY <1>0, <1>5, <1>10, <3>1, <3>2, <3>3, <3>4, <3>5
  <2>3. ASSUME NEW b \in m2.heap \cup Document
        PROVE  IF m2.next[b] = Nil THEN b = m2.root[Allocator(m2, b)]
               ELSE m2.next[b] \in m2.heap /\ m2.prev[m2.next[b]] = b
    <3>1. CASE b = d
      <4>1. m2.next[d] = Nil /\ Allocator(m2, d) = d /\ m2.root[d] = d
        BY <1>0, <1>1, <1>5 DEF Allocator
      <4> QED BY <1>0, <3>1, <4>1
    <3>2. CASE b # d
      <4>1. /\ Allocator(m2, b) = Allocator(m, b) /\ Allocator(m, b) # d
            /\ b \in hp \cup Document /\ b \in Block /\ b \notin Own
        BY <1>0, <1>10, <3>2
      <4>2. m2.next[b] = nx[b]
        BY <1>0, <1>5, <3>2, <4>1
      <4>3. CASE nx[b] = Nil
        <5>1. b = rt[Allocator(m, b)]
          BY <1>0, <1>3, <4>1, <4>3
        <5>2. Allocator(m, b) \in Document
          BY <1>0, <1>4, <4>1 DEF Allocator
        <5> QED BY <1>0, <1>1, <1>5, <4>1, <4>2, <4>3, <5>1, <5>2
      <4>4. CASE nx[b] # Nil
        <5>1. nx[b] \in hp /\ pv[nx[b]] = b
          BY <1>0, <1>3, <4>1, <4>4
        <5>2. ow[nx[b]] = Allocator(m, b)
          BY <1>0, <1>3, <5>1
        <5>3. nx[b] \notin Own \cup {d} /\ nx[b] \in Block
          BY <1>0, <1>1, <1>2, <4>1, <5>1, <5>2
        <5>4. m2.prev[nx[b]] = b
          BY <1>0, <1>5, <5>1, <5>3
        <5> QED BY <1>0, <1>5, <4>2, <4>4, <5>1, <5>3, <5>4
      <4> QED BY <1>0, <4>3, <4>4
    <3> QED BY <1>0, <3>1, <3>2
  <2>4. ASSUME NEW c \in Document PROVE m2.next[m2.root[c]] = Nil
    <3>1. CASE c = d
      BY <1>0, <1>1, <1>5, <3>1
    <3>2. CASE c # d
      <4>1. m2.root[c] = rt[c] /\ rt[c] \in Block /\ nx[rt[c]] = Nil
        BY <1>0, <1>1, <1>3, <1>5, <3>2
      <4> QED BY <1>0, <1>5, <4>1
    <3> QED BY <1>0, <3>1, <3>2
  <2> QED BY <1>0, <2>1, <2>2, <2>3, <2>4 DEF LinksOK
<1>13. LinksEnd(m2)
  <2> SUFFICES ASSUME NEW S \in SUBSET Page, S # {}
               PROVE  \E b \in S : m2.prev[b] \notin S
    BY DEF LinksEnd
  <2>1. PICK c \in S : pv[c] \notin S
    BY <1>0 DEF MemOK, LinksEnd
  <2> QED BY <1>0, <1>1, <1>5, <2>1
<1>14. SizesOK(m2, u2)
  <2> SUFFICES ASSUME NEW r \in Page
               PROVE  IF r \in m2.heap
                      THEN /\ Busy(m2, m2.owner[r], r) = m2.freed[r] + u2[r]
                           /\ u2[r] = 0 => r = m2.root[m2.owner[r]] /\ m2.freed[r] = 0
                      ELSE u2[r] = 0
    BY DEF SizesOK
  <2>1. /\ r \in hp => /\ Busy(m, ow[r], r) = m.freed[r] + used[r]
                       /\ used[r] = 0 => r = rt[ow[r]] /\ m.freed[r] = 0
        /\ r \notin hp => used[r] = 0
    BY <1>0 DEF MemOK, SizesOK
  <2>2. CASE r \in Own
    BY <1>0, <1>5, <2>2 DEF Spared
  <2>3. CASE r \notin Own
    <3>1. u2[r] = used[r] /\ m2.busy[r] = m.busy[r] /\ m2.freed[r] = m.freed[r]
      BY <1>0, <1>5, <2>3 DEF Spared
    <3>2. CASE r \in hp
      <4>1. r \in m2.heap /\ m2.owner[r] = ow[r] /\ ow[r] # d /\ ow[r] \in Document
        BY <1>0, <1>4, <1>5, <1>7, <2>3, <3>2
      <4>2. m2.root[ow[r]] = rt[ow[r]] /\ m2.top[ow[r]] = m.top[ow[r]]
        BY <1>0, <1>1, <1>5, <4>1
      <4>3. Busy(m2, ow[r], r) = Busy(m, ow[r], r)
        BY <1>0, <3>1, <4>2 DEF Busy
      <4> QED BY <1>0, <2>1, <3>1, <3>2, <4>1, <4>2, <4>3
    <3>3. CASE r \notin hp
      BY <1>0, <1>5, <2>1, <3>1, <3>3
    <3> QED BY <1>0, <3>2, <3>3
  <2> QED BY <1>0, <2>2, <2>3
<1>15. MemOK(m2, D1, u2)
  BY <1>0, <1>6, <1>8, <1>9, <1>12, <1>13, <1>14 DEF MemOK
<1> QED BY <1>5, <1>7, <1>15 DEF m2, u2, Own, WasReset

(* A memory in which five fields are new.                                   *)
LEMMA FiveFields ==
  ASSUME NEW h, NEW o, NEW n, NEW p, NEW b, NEW f, NEW r, NEW t,
         NEW o1, NEW n1, NEW p1, NEW r1, NEW t1, NEW m, NEW m1,
         m = [heap |-> h, owner |-> o, next |-> n, prev |-> p,
              busy |-> b, freed |-> f, root |-> r, top |-> t],
         m1 = [m EXCEPT !.root = r1, !.top = t1, !.next = n1, !.owner = o1, !.prev = p1]
  PROVE  m1 = [heap |-> h, owner |-> o1, next |-> n1, prev |-> p1,
               busy |-> b, freed |-> f, root |-> r1, top |-> t1]
OBVIOUS

(* What _move is given, where to has no page and from has some, and leaves: *)
(* a memory in order, in which all pages of from belong to to.              *)
MayMove(m, D, used, from, to) ==
  /\ D \in SUBSET Document /\ MemOK(m, D, used)
  /\ from \in D /\ to \in Document /\ from # to
  /\ m.root[from] # from /\ m.root[to] = to

WasMoved(m, m2, D, used, from, to) ==
  /\ MemOK(m2, D \cup {to}, used)
  /\ m2.heap = m.heap
  /\ \A r \in m.heap : m2.owner[r] = IF m.owner[r] = from THEN to ELSE m.owner[r]

(* It does leave it.                                                        *)
LEMMA MoveKeepsOrder ==
  ASSUME NEW m, NEW D, NEW used, NEW from, NEW to, MayMove(m, D, used, from, to)
  PROVE  WasMoved(m, Moved(m, from, to), D, used, from, to)
<1> DEFINE m2 == Moved(m, from, to)
           Own == Chain(m, from)
           first == m.next[from]
           hp == m.heap  ow == m.owner  nx == m.next  pv == m.prev  rt == m.root
<1>0. /\ D \in SUBSET Document /\ MemOK(m, D, used)
      /\ from \in D /\ to \in Document /\ from # to
      /\ m.root[from] # from /\ m.root[to] = to
  BY DEF MayMove
<1>1. /\ m \in Memory /\ hp \subseteq Page /\ ow \in [Page -> Document \cup {Nil}]
      /\ nx \in [Block -> Page \cup {Nil}] /\ pv \in [Block -> Block \cup {Nil}]
      /\ rt \in [Document -> Block] /\ m.busy \in [Page -> Nat] /\ m.freed \in [Page -> Nat]
      /\ m.top \in [Document -> 0 .. PageSize] /\ PageSize \in Nat
      /\ Page \cap Document = {} /\ Block = Page \cup Document
      /\ Nil \notin Block /\ from \in Block /\ to \in Block /\ from \in Document
  BY <1>0, PugiAssumption DEF MemOK, Memory, Block
<1>2. Own = {p \in hp : ow[p] = from}
  BY <1>0, ChainIsOwned
<1>3. /\ \A b \in hp : /\ pv[b] \in hp \cup Document /\ nx[pv[b]] = b
                       /\ Allocator(m, pv[b]) = ow[b]
      /\ \A b \in hp \cup Document : IF nx[b] = Nil THEN b = rt[Allocator(m, b)]
                                     ELSE nx[b] \in hp /\ pv[nx[b]] = b
      /\ \A c \in Document : pv[c] = Nil /\ nx[rt[c]] = Nil
  BY <1>0 DEF MemOK, LinksOK
<1>4. /\ \A c \in Document : IF rt[c] = c THEN m.top[c] = PageSize ELSE rt[c] \in hp /\ ow[rt[c]] = c
      /\ \A r \in hp : rt[ow[r]] # ow[r]
      /\ \A r \in hp : ow[r] \in D /\ ow[r] \in Document
      /\ \A r \in Page \ hp : ow[r] = Nil /\ nx[r] = Nil /\ pv[r] = Nil /\ m.freed[r] = 0
  <2>1. \A r \in hp : r \in Page /\ ow[r] \in D
    BY <1>0, <1>1 DEF MemOK, HeapOK
  <2>2. \A r \in Page \ hp : ow[r] = Nil /\ nx[r] = Nil /\ pv[r] = Nil /\ m.freed[r] = 0
    BY <1>0 DEF MemOK, HeapOK
  <2> QED BY <1>0, <2>1, <2>2 DEF MemOK, RootsOK
<1>5. \A r \in hp : ow[r] # to
  BY <1>0, <1>4
<1>6. /\ first \in hp /\ first \in Block /\ first # from /\ first # to /\ pv[first] = from
      /\ ow[first] = from /\ rt[from] \in hp /\ ow[rt[from]] = from
      /\ first \in Page /\ first # Nil
  <2>1. first # Nil
    BY <1>0, <1>1, <1>3 DEF Allocator
  <2>2. first \in hp /\ pv[first] = from
    BY <1>0, <1>1, <1>3, <2>1
  <2>3. ow[first] = from
    BY <1>0, <1>1, <1>3, <2>2 DEF Allocator
  <2> QED BY <1>0, <1>1, <1>4, <2>1, <2>2, <2>3
<1>7. /\ m2.heap = hp
      /\ m2.owner = [r \in Page |-> IF r \in Own THEN to ELSE ow[r]]
      /\ m2.next = [[nx EXCEPT ![to] = first] EXCEPT ![from] = Nil]
      /\ m2.prev = [b \in Block |-> IF b = first THEN to ELSE pv[b]]
      /\ m2.busy = m.busy /\ m2.freed = m.freed
      /\ m2.root = [[rt EXCEPT ![to] = rt[from]] EXCEPT ![from] = from]
      /\ m2.top = [[m.top EXCEPT ![to] = m.top[from]] EXCEPT ![from] = PageSize]
      /\ m2 = [heap |-> m2.heap, owner |-> m2.owner, next |-> m2.next, prev |-> m2.prev,
               busy |-> m2.busy, freed |-> m2.freed, root |-> m2.root, top |-> m2.top]
  <2>1. PICK h, o, n, p, b, f, r, t :
          m = [heap |-> h, owner |-> o, next |-> n, prev |-> p,
               busy |-> b, freed |-> f, root |-> r, top |-> t]
    <3>1. m = [heap |-> hp, owner |-> ow, next |-> nx, prev |-> pv,
               busy |-> m.busy, freed |-> m.freed, root |-> rt, top |-> m.top]
      BY <1>0, <1>1 DEF Memory
    <3> QED BY <1>0, <3>1
  <2> DEFINE r1 == [r EXCEPT ![to] = r[from]]
             t1 == [t EXCEPT ![to] = t[from]]
             n1 == [n EXCEPT ![to] = n[from]]
             o1 == [x \in Page |-> IF x \in Own THEN to ELSE o[x]]
             p1 == [x \in Block |-> IF x = n[from] THEN to ELSE p[x]]
             m1 == [m EXCEPT !.root = r1, !.top = t1, !.next = n1, !.owner = o1, !.prev = p1]
  <2>2. m2 = [m1 EXCEPT !.next[from] = Nil, !.root[from] = from, !.top[from] = PageSize]
    BY <1>0, <2>1 DEF Moved, Reowned
  <2> HIDE DEF r1, t1, n1, o1, p1, m2
  <2>3. m1 = [heap |-> h, owner |-> o1, next |-> n1, prev |-> p1,
              busy |-> b, freed |-> f, root |-> r1, top |-> t1]
    <3>1. PICK mm : mm = m1
      OBVIOUS
    <3>2. mm = [m EXCEPT !.root = r1, !.top = t1, !.next = n1, !.owner = o1, !.prev = p1]
      BY <1>0, <3>1
    <3> HIDE DEF m1
    <3>3. mm = [heap |-> h, owner |-> o1, next |-> n1, prev |-> p1,
                busy |-> b, freed |-> f, root |-> r1, top |-> t1]
      BY <1>0, <2>1, <3>2, FiveFields
    <3> QED BY <1>0, <3>1, <3>3
  <2> HIDE DEF m1
  <2>4. m2 = [heap |-> h, owner |-> o1, next |-> [n1 EXCEPT ![from] = Nil], prev |-> p1,
              busy |-> b, freed |-> f, root |-> [r1 EXCEPT ![from] = from],
              top |-> [t1 EXCEPT ![from] = PageSize]]
    BY <1>0, <2>2, <2>3
  <2>5. hp = h /\ ow = o /\ nx = n /\ pv = p /\ m.busy = b /\ m.freed = f /\ rt = r /\ m.top = t
    BY <1>0, <2>1
  <2>6. first = n[from]
    BY <1>0, <2>5
  <2> QED BY <1>0, <2>4, <2>5, <2>6 DEF r1, t1, n1, o1, p1
<1> HIDE DEF m2, Own, first
<1>8. /\ \A r \in Page : m2.owner[r] = IF r \in Own THEN to ELSE ow[r]
      /\ \A b \in Block : m2.next[b] = IF b = from THEN Nil ELSE IF b = to THEN first ELSE nx[b]
      /\ \A b \in Block : m2.prev[b] = IF b = first THEN to ELSE pv[b]
      /\ \A c \in Document : m2.root[c] = IF c = from THEN from ELSE IF c = to THEN rt[from] ELSE rt[c]
      /\ \A c \in Document : m2.top[c] = IF c = from THEN PageSize
                                         ELSE IF c = to THEN m.top[from] ELSE m.top[c]
  BY <1>0, <1>1, <1>7
<1>9. m2 \in Memory
  <2>1. /\ m2.heap \in SUBSET Page /\ m2.owner \in [Page -> Document \cup {Nil}]
        /\ m2.busy \in [Page -> Nat] /\ m2.freed \in [Page -> Nat]
    BY <1>0, <1>1, <1>7
  <2>2. m2.next \in [Block -> Page \cup {Nil}] /\ m2.prev \in [Block -> Block \cup {Nil}]
    <3>1. [nx EXCEPT ![to] = first] \in [Block -> Page \cup {Nil}]
      BY <1>1, <1>6
    <3>2. [[nx EXCEPT ![to] = first] EXCEPT ![from] = Nil] \in [Block -> Page \cup {Nil}]
      BY <3>1, UpdateType
    <3>3. [b \in Block |-> IF b = first THEN to ELSE pv[b]] \in [Block -> Block \cup {Nil}]
      BY <1>1
    <3> QED BY <1>7, <3>2, <3>3
  <2>3. m2.root \in [Document -> Block]
    <3>1. [rt EXCEPT ![to] = rt[from]] \in [Document -> Block]
      BY <1>0, <1>1
    <3>2. [[rt EXCEPT ![to] = rt[from]] EXCEPT ![from] = from] \in [Document -> Block]
      BY <1>0, <1>1, <3>1, UpdateType
    <3> QED BY <1>0, <1>7, <3>2
  <2>4. m2.top \in [Document -> 0 .. PageSize]
    <3>1. [m.top EXCEPT ![to] = m.top[from]] \in [Document -> 0 .. PageSize]
      BY <1>0, <1>1
    <3>2. PageSize \in 0 .. PageSize
      BY <1>0, <1>1
    <3>3. [[m.top EXCEPT ![to] = m.top[from]] EXCEPT ![from] = PageSize] \in [Document -> 0 .. PageSize]
      BY <1>0, <3>1, <3>2, UpdateType
    <3> QED BY <1>0, <1>7, <3>3
  <2> QED BY <1>0, <1>7, <2>1, <2>2, <2>3, <2>4 DEF Memory
<1>10. \A r \in hp : r \in Page /\ m2.owner[r] = IF ow[r] = from THEN to ELSE ow[r]
  BY <1>0, <1>1, <1>2, <1>8
<1>11. HeapOK(m2, D \cup {to})
  BY <1>0, <1>1, <1>2, <1>4, <1>6, <1>7, <1>8, <1>10 DEF HeapOK
<1>12. RootsOK(m2)
  <2>1. ASSUME NEW c \in Document
        PROVE  IF m2.root[c] = c THEN m2.top[c] = PageSize
               ELSE m2.root[c] \in m2.heap /\ m2.owner[m2.root[c]] = c
    <3>1. CASE c = from
      BY <1>0, <1>8, <3>1
    <3>2. CASE c = to
      <4>1. m2.root[c] = rt[from] /\ rt[from] # c /\ rt[from] \in hp /\ ow[rt[from]] = from
        BY <1>0, <1>1, <1>6, <1>8, <3>2
      <4>2. m2.owner[rt[from]] = c
        BY <1>0, <1>10, <3>2, <4>1
      <4> QED BY <1>0, <1>7, <4>1, <4>2
    <3>3. CASE c # from /\ c # to
      <4>1. m2.root[c] = rt[c] /\ m2.top[c] = m.top[c]
        BY <1>0, <1>8, <3>3
      <4>2. rt[c] # c => rt[c] \in hp /\ ow[rt[c]] = c
        BY <1>0, <1>4
      <4>3. rt[c] # c => m2.owner[rt[c]] = c
        BY <1>0, <1>10, <3>3, <4>2
      <4> QED BY <1>0, <1>4, <1>7, <4>1, <4>2, <4>3
    <3> QED BY <1>0, <3>1, <3>2, <3>3
  <2>2. ASSUME NEW r \in m2.heap PROVE m2.root[m2.owner[r]] # m2.owner[r]
    <3>0. r \in hp
      BY <1>0, <1>7
    <3>1. CASE ow[r] = from
      <4>1. m2.owner[r] = to /\ m2.root[to] = rt[from] /\ rt[from] # to
        BY <1>0, <1>1, <1>6, <1>8, <1>10, <3>0, <3>1
      <4> QED BY <1>0, <4>1
    <3>2. CASE ow[r] # from
      <4>1. m2.owner[r] = ow[r] /\ ow[r] # to /\ ow[r] \in Document /\ rt[ow[r]] # ow[r]
        BY <1>0, <1>4, <1>5, <1>10, <3>0, <3>2
      <4>2. m2.root[ow[r]] = rt[ow[r]]
        BY <1>0, <1>8, <3>2, <4>1
      <4> QED BY <1>0, <4>1, <4>2
    <3> QED BY <1>0, <3>1, <3>2
  <2> QED BY <1>0, <2>1, <2>2 DEF RootsOK
<1>13. \A b \in hp \cup Document :
         /\ b \in Block
         /\ b # from /\ b # to => Allocator(m2, b) = IF Allocator(m, b) = from THEN to ELSE Allocator(m, b)
         /\ b \in Document => Allocator(m2, b) = b /\ Allocator(m, b) = b
         /\ Allocator(m, b) = to => b = to
         /\ Allocator(m, b) \in Document
  BY <1>0, <1>1, <1>4, <1>5, <1>10 DEF Allocator
<1>14. LinksOK(m2)
  <2>1. ASSUME NEW c \in Document PROVE m2.prev[c] = Nil
    BY <1>0, <1>1, <1>3, <1>6, <1>8
  <2>2. ASSUME NEW b \in m2.heap
        PROVE  /\ m2.prev[b] \in m2.heap \cup Document
               /\ m2.next[m2.prev[b]] = b
               /\ Allocator(m2, m2.prev[b]) = m2.owner[b]
    <3>1. b \in hp /\ b \in Block
      BY <1>0, <1>1, <1>7
    <3>2. CASE b = first
      <4>1. m2.prev[b] = to /\ m2.next[to] = b /\ m2.owner[b] = to
        BY <1>0, <1>1, <1>6, <1>8, <1>10, <3>1, <3>2
      <4> QED BY <1>0, <1>13, <4>1
    <3>3. CASE b # first
      <4>1. m2.prev[b] = pv[b]
        BY <1>0, <1>8, <3>1, <3>3
      <4>2. pv[b] \in hp \cup Document /\ nx[pv[b]] = b /\ Allocator(m, pv[b]) = ow[b]
        BY <1>0, <1>3, <3>1
      <4>3. pv[b] # from /\ pv[b] # to
        BY <1>0, <1>5, <1>13, <3>1, <3>3, <4>2 DEF first
      <4>4. m2.next[pv[b]] = b
        BY <1>0, <1>8, <1>13, <4>2, <4>3
      <4>5. Allocator(m2, pv[b]) = m2.owner[b]
        BY <1>0, <1>10, <1>13, <3>1, <4>2, <4>3
      <4> QED BY <1>0, <1>7, <4>1, <4>2, <4>4, <4>5
    <3> QED BY <1>0, <3>2, <3>3
  <2>3. ASSUME NEW b \in m2.heap \cup Document
        PROVE  IF m2.next[b] = Nil THEN b = m2.root[Allocator(m2, b)]
               ELSE m2.next[b] \in m2.heap /\ m2.prev[m2.next[b]] = b
    <3>1. b \in hp \cup Document /\ b \in Block
      BY <1>0, <1>7, <1>13
    <3>2. CASE b = from
      BY <1>0, <1>8, <1>13, <3>1, <3>2
    <3>3. CASE b = to
      BY <1>0, <1>6, <1>7, <1>8, <3>1, <3>3
    <3>4. CASE b # from /\ b # to
      <4>1. m2.next[b] = nx[b]
        BY <1>0, <1>8, <3>1, <3>4
      <4>2. CASE nx[b] = Nil
        <5>1. b = rt[Allocator(m, b)] /\ Allocator(m, b) # to /\ Allocator(m, b) \in Document
          BY <1>0, <1>3, <1>13, <3>1, <3>4, <4>2
        <5>2. m2.root[Allocator(m2, b)] = rt[Allocator(m, b)]
          BY <1>0, <1>1, <1>8, <1>13, <3>1, <3>4, <5>1
        <5> QED BY <1>0, <4>1, <4>2, <5>1, <5>2
      <4>3. CASE nx[b] # Nil
        <5>1. nx[b] \in hp /\ pv[nx[b]] = b
          BY <1>0, <1>3, <3>1, <4>3
        <5>2. nx[b] # first /\ nx[b] \in Block
          BY <1>0, <1>1, <1>6, <3>4, <5>1
        <5> QED BY <1>0, <1>7, <1>8, <4>1, <4>3, <5>1, <5>2
      <4> QED BY <1>0, <4>2, <4>3
    <3> QED BY <1>0, <3>2, <3>3, <3>4
  <2>4. ASSUME NEW c \in Document PROVE m2.next[m2.root[c]] = Nil
    <3>1. CASE c = from
      BY <1>0, <1>1, <1>8, <3>1
    <3>2. CASE c = to
      <4>1. m2.root[c] = rt[from] /\ rt[from] # from /\ rt[from] # to /\ rt[from] \in Block
        BY <1>0, <1>1, <1>6, <1>8, <3>2
      <4> QED BY <1>0, <1>1, <1>3, <1>8, <4>1
    <3>3. CASE c # from /\ c # to
      <4>1. m2.root[c] = rt[c] /\ rt[c] \in Block /\ nx[rt[c]] = Nil
        BY <1>0, <1>1, <1>3, <1>8, <3>3
      <4>2. rt[c] # from /\ rt[c] # to
        BY <1>0, <1>1, <1>4, <3>3
      <4> QED BY <1>0, <1>8, <4>1, <4>2
    <3> QED BY <1>0, <3>1, <3>2, <3>3
  <2> QED BY <1>0, <2>1, <2>2, <2>3, <2>4 DEF LinksOK
<1>15. LinksEnd(m2)
  <2> SUFFICES ASSUME NEW S \in SUBSET Page, S # {}
               PROVE  \E b \in S : m2.prev[b] \notin S
    BY DEF LinksEnd
  <2>1. PICK c \in S : pv[c] \notin S
    BY <1>0 DEF MemOK, LinksEnd
  <2>2. c \in Block /\ to \notin S
    BY <1>0, <1>1
  <2> QED BY <1>0, <1>8, <2>1, <2>2
<1>16. SizesOK(m2, used)
  <2> SUFFICES ASSUME NEW r \in Page
               PROVE  IF r \in hp
                      THEN /\ Busy(m2, m2.owner[r], r) = m.freed[r] + used[r]
                           /\ used[r] = 0 => r = m2.root[m2.owner[r]] /\ m.freed[r] = 0
                      ELSE used[r] = 0
    BY <1>0, <1>7 DEF SizesOK
  <2>1. /\ r \in hp => /\ Busy(m, ow[r], r) = m.freed[r] + used[r]
                       /\ used[r] = 0 => r = rt[ow[r]] /\ m.freed[r] = 0
        /\ r \notin hp => used[r] = 0
    BY <1>0 DEF MemOK, SizesOK
  <2>2. ASSUME r \in hp
        PROVE  m2.root[m2.owner[r]] = rt[ow[r]] /\ m2.top[m2.owner[r]] = m.top[ow[r]]
    <3>1. CASE ow[r] = from
      BY <1>0, <1>8, <1>10, <2>2, <3>1
    <3>2. CASE ow[r] # from
      BY <1>0, <1>4, <1>5, <1>8, <1>10, <2>2, <3>2
    <3> QED BY <1>0, <3>1, <3>2
  <2>3. r \in hp => Busy(m2, m2.owner[r], r) = Busy(m, ow[r], r)
    BY <1>0, <1>7, <2>2 DEF Busy
  <2> QED BY <1>0, <2>1, <2>2, <2>3
<1>17. MemOK(m2, D \cup {to}, used)
  BY <1>0, <1>9, <1>11, <1>12, <1>14, <1>15, <1>16 DEF MemOK
<1> QED BY <1>7, <1>10, <1>17 DEF m2, WasMoved

-----------------------------------------------------------------------------
(***************************************************************************)
(* What is in use                                                           *)
(***************************************************************************)

(* The nodes and the units of strings on page r, for any places of nodes    *)
(* and of strings.                                                          *)
NodesOf(pg, r) == {n \in Node : pg[n] = r}
OwnUnits(t, n) == {n} \X (1 .. t[n].size)
UnitsOf(t, r) == UNION {OwnUnits(t, n) : n \in {m \in Node : t[m].page = r}}
UsedBy(pg, t) == [r \in Page |-> Cardinality(NodesOf(pg, r)) + Cardinality(UnitsOf(t, r))]

(* Those units that are not of the string of n.                             *)
OthersOf(t, r, n) == {u \in UnitsOf(t, r) : u[1] # n}

Texts == [Node -> [page : Page \cup {Nil}, size : Nat]]
SizeOn(t, n, r) == IF t[n].page = r THEN t[n].size ELSE 0

(* The places of nodes and strings, in a state.                             *)
LEMMA UsedIsUsedBy == \A pg, t : pg = page /\ t = text => Used = UsedBy(pg, t)
<1>1. ASSUME NEW r \in Page PROVE InUse(r) = Cardinality(NodesOf(page, r)) + Cardinality(UnitsOf(text, r))
  BY DEF InUse, NodesAt, TextsAt, NodesOf, UnitsOf, OwnUnits
<1> QED BY <1>1 DEF Used, UsedBy

(* A memory in order, in a state.                                           *)
LEMMA MemoryIs ==
  \A m, D, u : m = mem /\ D = docs /\ u = Used => (MemOK(m, D, u) <=> MemOK(mem, docs, Used))
OBVIOUS

(* The same in the next state.                                              *)
LEMMA UsedNext == \A pg, t : pg = page' /\ t = text' => Used' = UsedBy(pg, t)
<1>1. (\A pg, t : pg = page /\ t = text => Used = UsedBy(pg, t))'
  BY UsedIsUsedBy, PTL
<1> QED BY <1>1

LEMMA MemoryNext ==
  \A m, D, u : m = mem' /\ D = docs' /\ u = Used' => (MemOK(m, D, u) <=> MemOK(mem, docs, Used)')
<1>1. (\A m, D, u : m = mem /\ D = docs /\ u = Used => (MemOK(m, D, u) <=> MemOK(mem, docs, Used)))'
  BY MemoryIs, PTL
<1> QED BY <1>1

(* The types of what is counted.                                            *)
LEMMA TextsType == TypeOK => text \in Texts
<1> SUFFICES ASSUME TypeOK PROVE text \in Texts
  OBVIOUS
<1>1. {0} \cup StringSize \subseteq Nat
  BY PugiAssumption
<1>2. ASSUME NEW n \in Node PROVE text[n] \in [page : Page \cup {Nil}, size : Nat]
  BY <1>1 DEF TypeOK
<1>3. text = [n \in Node |-> text[n]]
  BY DEF TypeOK
<1> QED BY <1>2, <1>3 DEF Texts

(* What is in the units on a page.                                          *)
LEMMA UnitOf ==
  ASSUME NEW t, NEW r, NEW u
  PROVE  u \in UnitsOf(t, r) <=> \E n \in Node : t[n].page = r /\ u \in OwnUnits(t, n)
BY DEF UnitsOf

(* A string has as many units as its size.                                  *)
LEMMA OwnUnitsCount ==
  ASSUME NEW t \in Texts, NEW n \in Node
  PROVE  /\ IsFiniteSet(OwnUnits(t, n))
         /\ Cardinality(OwnUnits(t, n)) = t[n].size
         /\ \A u \in OwnUnits(t, n) : u[1] = n /\ t[n].size > 0
<1>1. PICK k \in Nat : k = t[n].size
  BY DEF Texts
<1>2. IsFiniteSet(1 .. k) /\ Cardinality(1 .. k) = k
  <2>1. /\ IsFiniteSet(1 .. k)
        /\ Cardinality(1 .. k) = IF 1 > k THEN 0 ELSE k - 1 + 1
    BY FS_Interval
  <2> QED BY <2>1
<1>3. IsFiniteSet({n}) /\ Cardinality({n}) = 1
  BY FS_Singleton
<1>4. /\ IsFiniteSet({n} \X (1 .. k))
      /\ Cardinality({n} \X (1 .. k)) = 1 * k
  BY <1>2, <1>3, FS_Product
<1>5. \A u \in {n} \X (1 .. k) : u[1] = n /\ k > 0
  OBVIOUS
<1> QED BY <1>1, <1>4, <1>5 DEF OwnUnits

(* There are finitely many.                                                 *)
LEMMA UnitsAreFinite ==
  ASSUME NEW t \in Texts, NEW r
  PROVE  IsFiniteSet(UnitsOf(t, r))
<1> DEFINE f == [n \in Node |-> OwnUnits(t, n)]
           F == {OwnUnits(t, n) : n \in Node}
           G == {OwnUnits(t, n) : n \in {m \in Node : t[m].page = r}}
<1>1. f \in Surjection(Node, F)
  BY DEF Surjection
<1>2. IsFiniteSet(F)
  BY <1>1, FS_Surjection, PugiAssumption
<1>3. G \in SUBSET F
  OBVIOUS
<1>4. IsFiniteSet(G)
  BY <1>2, <1>3, FS_Subset
<1>5. \A T \in G : IsFiniteSet(T)
  BY OwnUnitsCount
<1> HIDE DEF G
<1>6. IsFiniteSet(UNION G)
  BY <1>4, <1>5, FS_UNION
<1> QED BY <1>6 DEF G, UnitsOf

(* Units on a page are those of one node and those of the others.           *)
LEMMA UnitsSplit ==
  ASSUME NEW t \in Texts, NEW r, NEW n \in Node
  PROVE  /\ IsFiniteSet(UnitsOf(t, r)) /\ IsFiniteSet(OthersOf(t, r, n))
         /\ Cardinality(OthersOf(t, r, n)) \in Nat
         /\ SizeOn(t, n, r) \in Nat
         /\ Cardinality(UnitsOf(t, r)) = Cardinality(OthersOf(t, r, n)) + SizeOn(t, n, r)
<1> DEFINE Own == IF t[n].page = r THEN OwnUnits(t, n) ELSE {}
           Others == OthersOf(t, r, n)
<1>1. IsFiniteSet(UnitsOf(t, r))
  BY UnitsAreFinite
<1>2. IsFiniteSet(Others)
  BY <1>1, FS_Subset DEF OthersOf
<1>3. IsFiniteSet(Own) /\ Cardinality(Own) = SizeOn(t, n, r) /\ \A u \in Own : u[1] = n
  BY OwnUnitsCount, FS_EmptySet DEF SizeOn
<1>4. UnitsOf(t, r) = Others \cup Own
  <2>1. ASSUME NEW u \in UnitsOf(t, r) PROVE u \in Others \cup Own
    <3>1. PICK m \in Node : t[m].page = r /\ u \in OwnUnits(t, m)
      BY UnitOf
    <3>2. u[1] = m
      BY <3>1, OwnUnitsCount
    <3> QED BY <3>1, <3>2 DEF OthersOf
  <2>2. ASSUME NEW u \in Own PROVE u \in UnitsOf(t, r)
    <3>1. t[n].page = r /\ u \in OwnUnits(t, n)
      OBVIOUS
    <3> QED BY <3>1, UnitOf
  <2>3. Others \subseteq UnitsOf(t, r)
    BY DEF OthersOf
  <2> QED BY <2>1, <2>2, <2>3
<1>5. Others \cap Own = {}
  BY <1>3 DEF OthersOf
<1>6. Cardinality(Others) \in Nat /\ Cardinality(Own) \in Nat
  BY <1>2, <1>3, FS_CardinalityType
<1> HIDE DEF Own, Others
<1>7. Cardinality(Others \cup Own) = Cardinality(Others) + Cardinality(Own) - Cardinality(Others \cap Own)
  BY <1>2, <1>3, FS_Union
<1>8. Cardinality(Others \cap Own) = 0
  BY <1>5, FS_EmptySet
<1>9. Cardinality(UnitsOf(t, r)) = Cardinality(Others) + SizeOn(t, n, r)
  BY <1>3, <1>4, <1>6, <1>7, <1>8
<1>10. SizeOn(t, n, r) \in Nat
  BY <1>3, <1>6
<1> QED BY <1>1, <1>2, <1>6, <1>9, <1>10 DEF Others

(* A string that changes leaves those of the others.                        *)
LEMMA OthersStay ==
  ASSUME NEW t \in Texts, NEW r, NEW n \in Node, NEW t2 \in Texts,
         \A m \in Node \ {n} : t2[m] = t[m]
  PROVE  OthersOf(t2, r, n) = OthersOf(t, r, n)
<1>1. ASSUME NEW ta \in Texts, NEW tb \in Texts, \A m \in Node \ {n} : ta[m] = tb[m],
             NEW u \in OthersOf(ta, r, n)
      PROVE  u \in OthersOf(tb, r, n)
  <2>1. u[1] # n /\ u \in UnitsOf(ta, r)
    BY DEF OthersOf
  <2>2. PICK m \in Node : ta[m].page = r /\ u \in OwnUnits(ta, m)
    BY <2>1, UnitOf
  <2>3. m # n
    BY <2>1, <2>2, OwnUnitsCount
  <2>4. tb[m].page = r /\ u \in OwnUnits(tb, m)
    BY <1>1, <2>2, <2>3 DEF OwnUnits
  <2>5. u \in UnitsOf(tb, r)
    BY <2>4, UnitOf
  <2> QED BY <2>1, <2>5 DEF OthersOf
<1>2. OthersOf(t2, r, n) \subseteq OthersOf(t, r, n)
  BY <1>1
<1>3. OthersOf(t, r, n) \subseteq OthersOf(t2, r, n)
  BY <1>1
<1> QED BY <1>2, <1>3

(* A new string in place of the old one: the units of the new one come, and *)
(* those of the old one go.                                                 *)
LEMMA UnitsChange ==
  ASSUME NEW t \in Texts, NEW r, NEW n \in Node, NEW t2 \in Texts,
         \A m \in Node \ {n} : t2[m] = t[m]
  PROVE  /\ Cardinality(UnitsOf(t2, r)) + SizeOn(t, n, r) = Cardinality(UnitsOf(t, r)) + SizeOn(t2, n, r)
         /\ Cardinality(UnitsOf(t2, r)) \in Nat /\ Cardinality(UnitsOf(t, r)) \in Nat
         /\ SizeOn(t, n, r) \in Nat /\ SizeOn(t2, n, r) \in Nat
         /\ SizeOn(t, n, r) <= Cardinality(UnitsOf(t, r))
<1>1. OthersOf(t2, r, n) = OthersOf(t, r, n)
  BY OthersStay
<1>2. /\ Cardinality(OthersOf(t, r, n)) \in Nat
      /\ SizeOn(t, n, r) \in Nat
      /\ Cardinality(UnitsOf(t, r)) = Cardinality(OthersOf(t, r, n)) + SizeOn(t, n, r)
  BY UnitsSplit
<1>3. /\ SizeOn(t2, n, r) \in Nat
      /\ Cardinality(UnitsOf(t2, r)) = Cardinality(OthersOf(t2, r, n)) + SizeOn(t2, n, r)
  BY UnitsSplit
<1> QED BY <1>1, <1>2, <1>3

(* What is counted are numbers.                                             *)
LEMMA CountsType ==
  ASSUME NEW pg, NEW t \in Texts
  PROVE  /\ UsedBy(pg, t) \in [Page -> Nat]
         /\ \A r : /\ IsFiniteSet(NodesOf(pg, r))
                   /\ Cardinality(NodesOf(pg, r)) \in Nat
                   /\ Cardinality(UnitsOf(t, r)) \in Nat
<1>1. ASSUME NEW r
      PROVE  /\ IsFiniteSet(NodesOf(pg, r))
             /\ Cardinality(NodesOf(pg, r)) \in Nat
             /\ Cardinality(UnitsOf(t, r)) \in Nat
  <2>1. NodesOf(pg, r) \in SUBSET Node
    BY DEF NodesOf
  <2>2. IsFiniteSet(NodesOf(pg, r))
    BY <2>1, FS_Subset, PugiAssumption
  <2>3. IsFiniteSet(UnitsOf(t, r))
    BY UnitsAreFinite
  <2> QED BY <2>2, <2>3, FS_CardinalityType
<1> QED BY <1>1 DEF UsedBy

(* A page on which something is, is in use.                                 *)
LEMMA InUseIsCounted ==
  ASSUME NEW pg, NEW t \in Texts, NEW n \in Node
  PROVE  /\ pg[n] \in Page => UsedBy(pg, t)[pg[n]] >= 1
         /\ t[n].page \in Page => UsedBy(pg, t)[t[n].page] >= t[n].size
<1>1. \A r : /\ IsFiniteSet(NodesOf(pg, r))
             /\ Cardinality(NodesOf(pg, r)) \in Nat
             /\ Cardinality(UnitsOf(t, r)) \in Nat
  BY CountsType
<1>2. ASSUME pg[n] \in Page PROVE Cardinality(NodesOf(pg, pg[n])) >= 1
  <2>1. n \in NodesOf(pg, pg[n])
    BY DEF NodesOf
  <2>2. Cardinality(NodesOf(pg, pg[n])) # 0
    BY <1>1, <2>1, FS_EmptySet
  <2> QED BY <1>1, <2>2
<1>3. Cardinality(UnitsOf(t, t[n].page)) >= t[n].size /\ t[n].size \in Nat
  <2>1. SizeOn(t, n, t[n].page) = t[n].size
    BY DEF SizeOn
  <2>2. /\ SizeOn(t, n, t[n].page) <= Cardinality(UnitsOf(t, t[n].page))
        /\ SizeOn(t, n, t[n].page) \in Nat
    BY UnitsChange
  <2> QED BY <1>1, <2>1, <2>2
<1> QED BY <1>1, <1>2, <1>3 DEF UsedBy

(* A node that comes, or goes.                                              *)
LEMMA NodeComes ==
  ASSUME NEW pg \in [Node -> Page \cup {Nil}], NEW t \in Texts, NEW n \in Node, NEW p \in Page,
         pg[n] = Nil, NEW pg2, pg2[n] = p, \A m \in Node \ {n} : pg2[m] = pg[m]
  PROVE  UsedBy(pg2, t) = [UsedBy(pg, t) EXCEPT ![p] = UsedBy(pg, t)[p] + 1]
<1>1. /\ \A r : IsFiniteSet(NodesOf(pg, r)) /\ Cardinality(NodesOf(pg, r)) \in Nat
                /\ Cardinality(UnitsOf(t, r)) \in Nat
      /\ Nil \notin Page
  BY CountsType, PugiAssumption DEF Block
<1>2. \A r \in Page \ {p} : NodesOf(pg2, r) = NodesOf(pg, r)
  BY <1>1 DEF NodesOf
<1>3. NodesOf(pg2, p) = NodesOf(pg, p) \cup {n} /\ n \notin NodesOf(pg, p)
  BY <1>1 DEF NodesOf
<1>4. Cardinality(NodesOf(pg2, p)) = Cardinality(NodesOf(pg, p)) + 1
  BY <1>1, <1>3, FS_AddElement
<1>5. ASSUME NEW r \in Page
      PROVE  UsedBy(pg2, t)[r] = [UsedBy(pg, t) EXCEPT ![p] = @ + 1][r]
  <2>1. CASE r = p
    BY <1>1, <1>4, <2>1 DEF UsedBy
  <2>2. CASE r # p
    BY <1>2, <2>2 DEF UsedBy
  <2> QED BY <2>1, <2>2
<1> QED BY <1>5 DEF UsedBy

LEMMA NodeGoes ==
  ASSUME NEW pg \in [Node -> Page \cup {Nil}], NEW t \in Texts, NEW n \in Node, NEW p \in Page,
         pg[n] = p, NEW pg2, pg2[n] = Nil, \A m \in Node \ {n} : pg2[m] = pg[m]
  PROVE  UsedBy(pg2, t) = [UsedBy(pg, t) EXCEPT ![p] = UsedBy(pg, t)[p] - 1]
<1>1. /\ \A r : IsFiniteSet(NodesOf(pg, r)) /\ Cardinality(NodesOf(pg, r)) \in Nat
                /\ Cardinality(UnitsOf(t, r)) \in Nat
      /\ Nil \notin Page
  BY CountsType, PugiAssumption DEF Block
<1>2. \A r \in Page \ {p} : NodesOf(pg2, r) = NodesOf(pg, r)
  BY <1>1 DEF NodesOf
<1>3. NodesOf(pg2, p) = NodesOf(pg, p) \ {n} /\ n \in NodesOf(pg, p)
  BY <1>1 DEF NodesOf
<1>4. Cardinality(NodesOf(pg2, p)) = Cardinality(NodesOf(pg, p)) - 1
  <2>1. PICK S : S = NodesOf(pg, p)
    OBVIOUS
  <2>2. Cardinality(S \ {n}) = IF n \in S THEN Cardinality(S) - 1 ELSE Cardinality(S)
    BY <1>1, <2>1, FS_RemoveElement
  <2> QED BY <1>3, <2>1, <2>2
<1>5. ASSUME NEW r \in Page
      PROVE  UsedBy(pg2, t)[r] = [UsedBy(pg, t) EXCEPT ![p] = @ - 1][r]
  <2>1. CASE r = p
    BY <1>1, <1>4, <2>1 DEF UsedBy
  <2>2. CASE r # p
    BY <1>2, <2>2 DEF UsedBy
  <2> QED BY <2>1, <2>2
<1> QED BY <1>5 DEF UsedBy

(* A string that comes where there was none.                                *)
LEMMA TextComes ==
  ASSUME NEW pg, NEW t \in Texts, NEW n \in Node, NEW p \in Page, NEW k \in Nat,
         t[n].size = 0, NEW t2 \in Texts, t2[n].page = p, t2[n].size = k,
         \A m \in Node \ {n} : t2[m] = t[m]
  PROVE  UsedBy(pg, t2) = [UsedBy(pg, t) EXCEPT ![p] = UsedBy(pg, t)[p] + k]
<1>3. \A r : Cardinality(NodesOf(pg, r)) \in Nat
  BY CountsType
<1>4. ASSUME NEW r \in Page
      PROVE  UsedBy(pg, t2)[r] = [UsedBy(pg, t) EXCEPT ![p] = @ + k][r]
  <2>1. SizeOn(t, n, r) = 0 /\ SizeOn(t2, n, r) = IF r = p THEN k ELSE 0
    BY DEF SizeOn
  <2>2. /\ Cardinality(UnitsOf(t2, r)) + SizeOn(t, n, r) = Cardinality(UnitsOf(t, r)) + SizeOn(t2, n, r)
        /\ Cardinality(UnitsOf(t2, r)) \in Nat /\ Cardinality(UnitsOf(t, r)) \in Nat
    BY UnitsChange
  <2>3. Cardinality(UnitsOf(t2, r)) = Cardinality(UnitsOf(t, r)) + IF r = p THEN k ELSE 0
    BY <2>1, <2>2
  <2> QED BY <1>3, <2>2, <2>3 DEF UsedBy
<1> QED BY <1>4 DEF UsedBy

(* A string that goes.                                                      *)
LEMMA TextGoes ==
  ASSUME NEW pg, NEW t \in Texts, NEW n \in Node, NEW p \in Page, t[n].page = p,
         NEW t2 \in Texts, t2[n] = NoText, \A m \in Node \ {n} : t2[m] = t[m]
  PROVE  UsedBy(pg, t2) = [UsedBy(pg, t) EXCEPT ![p] = UsedBy(pg, t)[p] - t[n].size]
<1>2. t2[n] = NoText /\ Nil \notin Page /\ t[n].size \in Nat
  BY PugiAssumption DEF Texts, Block
<1>3. \A r : Cardinality(NodesOf(pg, r)) \in Nat
  BY CountsType
<1>4. ASSUME NEW r \in Page
      PROVE  UsedBy(pg, t2)[r] = [UsedBy(pg, t) EXCEPT ![p] = UsedBy(pg, t)[p] - t[n].size][r]
  <2>1. SizeOn(t2, n, r) = 0 /\ SizeOn(t, n, r) = IF r = p THEN t[n].size ELSE 0
    BY <1>2 DEF SizeOn, NoText
  <2>2. /\ Cardinality(UnitsOf(t2, r)) + SizeOn(t, n, r) = Cardinality(UnitsOf(t, r)) + SizeOn(t2, n, r)
        /\ Cardinality(UnitsOf(t2, r)) \in Nat /\ Cardinality(UnitsOf(t, r)) \in Nat
    BY UnitsChange
  <2>3. Cardinality(UnitsOf(t2, r)) + (IF r = p THEN t[n].size ELSE 0) = Cardinality(UnitsOf(t, r))
    BY <2>1, <2>2
  <2>4. CASE r = p
    BY <1>2, <1>3, <2>2, <2>3, <2>4 DEF UsedBy
  <2>5. CASE r # p
    BY <1>3, <2>2, <2>3, <2>5 DEF UsedBy
  <2> QED BY <2>4, <2>5
<1> QED BY <1>4 DEF UsedBy

(* Nodes that are gone with all pages in C they are on.                     *)
GoneWith(pg, t, pg2, t2, S, C) ==
  /\ pg \in [Node -> Page \cup {Nil}] /\ t \in Texts /\ t2 \in Texts
  /\ S \in SUBSET Node /\ C \in SUBSET Page
  /\ \A n \in Node : pg[n] \in C <=> n \in S
  /\ \A n \in Node : t[n].size > 0 => (t[n].page \in C <=> n \in S)
  /\ \A n \in Node : pg2[n] = IF n \in S THEN Nil ELSE pg[n]
  /\ \A n \in Node : t2[n] = IF n \in S THEN NoText ELSE t[n]

(* Then nothing is in use on those pages, and as much on the others.        *)
LEMMA AllGo ==
  ASSUME NEW pg, NEW t, NEW pg2, NEW t2, NEW S, NEW C, GoneWith(pg, t, pg2, t2, S, C)
  PROVE  UsedBy(pg2, t2) = Spared(UsedBy(pg, t), C)
<1>0. /\ pg \in [Node -> Page \cup {Nil}] /\ t \in Texts /\ t2 \in Texts
      /\ S \in SUBSET Node /\ C \in SUBSET Page
      /\ \A n \in Node : pg[n] \in C <=> n \in S
      /\ \A n \in Node : t[n].size > 0 => (t[n].page \in C <=> n \in S)
      /\ \A n \in Node : pg2[n] = IF n \in S THEN Nil ELSE pg[n]
      /\ \A n \in Node : t2[n] = IF n \in S THEN NoText ELSE t[n]
  BY DEF GoneWith
<1>1. Nil \notin Page /\ t2 \in Texts /\ \A n \in Node : t[n].size \in Nat
  BY <1>0, PugiAssumption DEF Block, Texts, NoText
<1>2. ASSUME NEW r \in C
      PROVE  UsedBy(pg2, t2)[r] = 0
  <2>1. NodesOf(pg2, r) = {}
    BY <1>0, <1>1 DEF NodesOf
  <2>2. UnitsOf(t2, r) = {}
    <3> SUFFICES ASSUME NEW u \in UnitsOf(t2, r) PROVE FALSE
      OBVIOUS
    <3>1. PICK n \in Node : t2[n].page = r /\ u \in OwnUnits(t2, n)
      BY <1>0, UnitOf
    <3>2. n \notin S
      BY <1>0, <1>1, <3>1 DEF NoText
    <3>3. t[n].page \in C /\ u \in OwnUnits(t, n)
      BY <1>0, <3>1, <3>2 DEF OwnUnits
    <3>4. t[n].size > 0
      BY <1>0, <3>3, OwnUnitsCount
    <3>5. n \in S
      BY <1>0, <3>3, <3>4
    <3> QED BY <1>0, <3>2, <3>5
  <2>3. Cardinality(NodesOf(pg2, r)) = 0 /\ Cardinality(UnitsOf(t2, r)) = 0
    BY <1>0, <2>1, <2>2, FS_EmptySet
  <2>4. UsedBy(pg2, t2)[r] = 0 + 0
    BY <1>0, <2>3 DEF UsedBy
  <2> QED BY <1>0, <2>4
<1>3. ASSUME NEW r \in Page \ C
      PROVE  UsedBy(pg2, t2)[r] = UsedBy(pg, t)[r]
  <2>1. NodesOf(pg2, r) = NodesOf(pg, r)
    BY <1>0, <1>1 DEF NodesOf
  <2>2. ASSUME NEW u \in UnitsOf(t2, r) PROVE u \in UnitsOf(t, r)
    <3>1. PICK n \in Node : t2[n].page = r /\ u \in OwnUnits(t2, n)
      BY <1>0, UnitOf
    <3>2. n \notin S
      BY <1>0, <1>1, <3>1 DEF NoText
    <3>3. t[n].page = r /\ u \in OwnUnits(t, n)
      BY <1>0, <3>1, <3>2 DEF OwnUnits
    <3> QED BY <1>0, <3>3, UnitOf
  <2>3. ASSUME NEW u \in UnitsOf(t, r) PROVE u \in UnitsOf(t2, r)
    <3>1. PICK n \in Node : t[n].page = r /\ u \in OwnUnits(t, n)
      BY <1>0, UnitOf
    <3>2. t[n].size > 0
      BY <1>0, <3>1, OwnUnitsCount
    <3>3. n \notin S
      BY <1>0, <3>1, <3>2
    <3>4. t2[n].page = r /\ u \in OwnUnits(t2, n)
      BY <1>0, <3>1, <3>3 DEF OwnUnits
    <3> QED BY <1>0, <3>4, UnitOf
  <2>4. UnitsOf(t2, r) = UnitsOf(t, r)
    BY <1>0, <2>2, <2>3
  <2> QED BY <1>0, <2>1, <2>4 DEF UsedBy
<1>4. ASSUME NEW r \in Page PROVE UsedBy(pg2, t2)[r] = Spared(UsedBy(pg, t), C)[r]
  BY <1>0, <1>2, <1>3 DEF Spared
<1> QED BY <1>0, <1>4 DEF UsedBy, Spared

-----------------------------------------------------------------------------
(***************************************************************************)
(* Where things are                                                         *)
(***************************************************************************)

(* The allocator of a document, and of a node.                              *)
LEMMA AllocatorOfWhat ==
  TypeOK => /\ \A x \in Document : AllocatorOf(x) = x
            /\ \A n \in Exists : AllocatorOf(n) = mem.owner[page[n]] /\ page[n] \in Page
BY PugiAssumption DEF TypeOK, AllocatorOf, Allocator, Exists

(* What exists is on the heap, on pages of documents that exist, and        *)
(* documents with pages fill another than the embedded one.                 *)
LEMMA Places ==
  TypeOK /\ MemOK(mem, docs, Used) =>
    /\ \A n \in Exists : /\ page[n] \in Page /\ page[n] \in mem.heap
                         /\ mem.owner[page[n]] \in docs
                         /\ mem.root[mem.owner[page[n]]] # mem.owner[page[n]]
                         /\ AllocatorOf(n) = mem.owner[page[n]]
    /\ \A n \in Node : text[n].size > 0 /\ text[n].page # Nil => text[n].page \in mem.heap
<1> SUFFICES ASSUME TypeOK, MemOK(mem, docs, Used)
             PROVE  /\ \A n \in Exists : /\ page[n] \in Page /\ page[n] \in mem.heap
                                         /\ mem.owner[page[n]] \in docs
                                         /\ mem.root[mem.owner[page[n]]] # mem.owner[page[n]]
                                         /\ AllocatorOf(n) = mem.owner[page[n]]
                    /\ \A n \in Node : text[n].size > 0 /\ text[n].page # Nil => text[n].page \in mem.heap
  OBVIOUS
<1>1. text \in Texts
  BY TextsType
<1>2. \A r \in Page : r \notin mem.heap => UsedBy(page, text)[r] = 0
  BY UsedIsUsedBy DEF MemOK, SizesOK
<1>3. ASSUME NEW n \in Exists
      PROVE  /\ page[n] \in Page /\ page[n] \in mem.heap
             /\ mem.owner[page[n]] \in docs
             /\ mem.root[mem.owner[page[n]]] # mem.owner[page[n]]
             /\ AllocatorOf(n) = mem.owner[page[n]]
  <2>1. n \in Node /\ page[n] \in Page /\ AllocatorOf(n) = mem.owner[page[n]]
    BY AllocatorOfWhat DEF Exists
  <2>2. UsedBy(page, text)[page[n]] >= 1
    BY <1>1, <2>1, InUseIsCounted
  <2>3. page[n] \in mem.heap
    BY <1>2, <2>1, <2>2
  <2> QED BY <2>1, <2>3 DEF MemOK, HeapOK, RootsOK
<1>4. ASSUME NEW n \in Node, text[n].size > 0, text[n].page # Nil
      PROVE  text[n].page \in mem.heap
  <2>1. text[n].page \in Page /\ text[n].size \in Nat
    BY <1>1, <1>4 DEF Texts
  <2>2. UsedBy(page, text)[text[n].page] >= text[n].size
    BY <1>1, <2>1, InUseIsCounted
  <2>3. UsedBy(page, text)[text[n].page] # 0
    BY <1>1, <1>4, <2>1, <2>2, CountsType
  <2> QED BY <1>2, <2>1, <2>3
<1> QED BY <1>3, <1>4

(* The same in the next state.                                              *)
LEMMA PlacesNext ==
  TypeOK' /\ MemOK(mem, docs, Used)' =>
    /\ \A n \in Exists' : /\ page'[n] \in Page /\ page'[n] \in mem'.heap
                          /\ mem'.owner[page'[n]] \in docs'
                          /\ AllocatorOf(n)' = mem'.owner[page'[n]]
    /\ \A n \in Node : text'[n].size > 0 /\ text'[n].page # Nil => text'[n].page \in mem'.heap
    /\ \A x \in Document : AllocatorOf(x)' = x
<1>1. (TypeOK /\ MemOK(mem, docs, Used) =>
    /\ \A n \in Exists : /\ page[n] \in Page /\ page[n] \in mem.heap
                         /\ mem.owner[page[n]] \in docs
                         /\ mem.root[mem.owner[page[n]]] # mem.owner[page[n]]
                         /\ AllocatorOf(n) = mem.owner[page[n]]
    /\ \A n \in Node : text[n].size > 0 /\ text[n].page # Nil => text[n].page \in mem.heap)'
  BY Places, PTL
<1>2. (TypeOK => /\ \A x \in Document : AllocatorOf(x) = x
            /\ \A n \in Exists : AllocatorOf(n) = mem.owner[page[n]] /\ page[n] \in Page)'
  BY AllocatorOfWhat, PTL
<1> QED BY <1>1, <1>2

(* What is below x exists and has the allocator of x; it is closed          *)
(* downwards, and the least such.                                           *)
LEMMA BelowIs ==
  ASSUME TypeOK, OneAllocator, NEW x \in Inner
  PROVE  /\ \A n \in Exists : up[n] \in {x} \cup Below(x) => n \in Below(x)
         /\ \A n \in Below(x) : n \in Exists /\ AllocatorOf(n) = AllocatorOf(x)
<1> DEFINE Same == {n \in Exists : AllocatorOf(n) = AllocatorOf(x)}
<1>1. ASSUME NEW n \in Exists, up[n] \in {x} \cup Below(x) PROVE n \in Below(x)
  BY <1>1 DEF Below, Exists
<1>2. ASSUME NEW n \in Exists, up[n] \in Same \cup {x} PROVE n \in Same
  <2>1. up[n] # Nil
    BY <1>2, PugiAssumption DEF Exists, Inner, Block
  <2>2. AllocatorOf(up[n]) = mem.owner[page[n]]
    BY <2>1 DEF OneAllocator
  <2>3. AllocatorOf(n) = mem.owner[page[n]]
    BY AllocatorOfWhat
  <2> QED BY <1>2, <2>2, <2>3
<1>3. Same \in SUBSET Node
  BY DEF Exists
<1> HIDE DEF Same
<1>4. Below(x) \subseteq Same
  BY <1>2, <1>3 DEF Below
<1> QED BY <1>1, <1>4 DEF Same

(* A node that is not being destroyed is below its document.                *)
LEMMA InItsDocument ==
  ASSUME PageInv
  PROVE  \A n \in Exists \ doomed : n \in Below(mem.owner[page[n]])
<1> DEFINE Lost == {n \in Exists \ doomed : n \notin Below(mem.owner[page[n]])}
<1> SUFFICES ASSUME Lost # {} PROVE FALSE
  OBVIOUS
<1>1. PICK n \in Lost : up[n] \notin Lost
  <2>1. Lost \in SUBSET Node
    BY DEF Exists
  <2> HIDE DEF Lost
  <2> QED BY <2>1 DEF PageInv, ParentsEnd
<1>2. /\ n \in Exists \ doomed /\ n \notin Below(mem.owner[page[n]])
      /\ up[n] \in docs \cup Exists /\ AllocatorOf(up[n]) = mem.owner[page[n]]
  BY DEF PageInv, OneAllocator
<1>3. CASE up[n] \in docs
  <2>1. AllocatorOf(up[n]) = up[n] /\ up[n] \in Inner
    BY <1>3, AllocatorOfWhat DEF PageInv, TypeOK, Inner
  <2>2. n \in Below(up[n])
    BY <1>2, <2>1, BelowIs DEF PageInv
  <2> QED BY <1>2, <2>1, <2>2
<1>4. CASE up[n] \in Exists
  <2>1. up[n] \notin doomed
    BY <1>2 DEF PageInv, DoomedOK
  <2>2. up[n] \in Below(mem.owner[page[up[n]]])
    BY <1>1, <1>4, <2>1
  <2>3. mem.owner[page[up[n]]] = mem.owner[page[n]]
    BY <1>2, <1>4, AllocatorOfWhat DEF PageInv
  <2>4. mem.owner[page[n]] \in Inner
    BY <1>2, Places DEF PageInv, TypeOK, Inner
  <2> QED BY <1>2, <2>2, <2>3, <2>4, BelowIs DEF PageInv
<1> QED BY <1>2, <1>3, <1>4

(* The same in the next state.                                              *)
LEMMA InItsDocumentNext ==
  PageInv' => \A e : \A n \in (Exists \ doomed)' : mem'.owner[page'[n]] = e => n \in Below(e)'
<1>1. PageInv => \A e : \A n \in Exists \ doomed : mem.owner[page[n]] = e => n \in Below(e)
  BY InItsDocument
<1>2. (PageInv => \A e : \A n \in Exists \ doomed : mem.owner[page[n]] = e => n \in Below(e))'
  BY <1>1, PTL
<1> QED BY <1>2

(* So the invariant gives what the run checks.                              *)
LEMMA InvariantIsEnough ==
  PageInv => MemoryInv /\ NodesOnOwnPages
<1> SUFFICES ASSUME PageInv PROVE MemoryInv /\ NodesOnOwnPages
  OBVIOUS
<1>1. MemoryInv
  BY OrderIsEnough DEF PageInv, MemoryInv, TypeOK
<1>2. ASSUME NEW n \in Exists
      PROVE  \E d \in docs :
               /\ IF n \in doomed THEN d = alloc ELSE n \in Below(d)
               /\ mem.owner[page[n]] = d
               /\ text[n].size > 0 => mem.owner[text[n].page] = d
  <2>1. mem.owner[page[n]] \in docs
    BY Places DEF PageInv
  <2>2. n \in doomed => mem.owner[page[n]] = alloc
    BY DEF PageInv, DoomedOK
  <2>3. n \notin doomed => n \in Below(mem.owner[page[n]])
    BY InItsDocument
  <2>4. text[n].size > 0 => mem.owner[text[n].page] = mem.owner[page[n]]
    BY DEF PageInv, OneAllocator
  <2> QED BY <2>1, <2>2, <2>3, <2>4
<1> QED BY <1>1, <1>2 DEF NodesOnOwnPages

-----------------------------------------------------------------------------
(***************************************************************************)
(* The steps                                                                *)
(***************************************************************************)

(* What exists before and after a step stays where it is, on pages of the   *)
(* document they were of.                                                   *)
OwnersStay ==
  \A n \in Exists : page'[n] # Nil => /\ page'[n] = page[n]
                                      /\ mem'.owner[page[n]] = mem.owner[page[n]]

(* Then so do allocators.                                                   *)
LEMMA AllocatorsStay ==
  ASSUME PageInv, TypeOK', MemOK(mem, docs, Used)', OwnersStay
  PROVE  /\ \A k \in Exists : k \in Exists' => AllocatorOf(k)' = AllocatorOf(k)
         /\ \A d \in Document : AllocatorOf(d)' = AllocatorOf(d)
BY Places, PlacesNext, AllocatorOfWhat DEF PageInv, OwnersStay, Exists

(* A node that is created is on a page of the document of its parent.       *)
LEMMA AppendChildKeeps ==
  ASSUME PageInv, NEW x \in Inner, NEW n \in Node, NEW q \in Page, AppendChild(x, n, q)
  PROVE  PageInv' /\ OwnersStay
<1>0. PICK a, p : a = AllocatorOf(x) /\ p = PageFor(mem, a, 1, q)
  OBVIOUS
<1>1. /\ TypeOK /\ MemOK(mem, docs, Used) /\ AbsentIsBare /\ OneAllocator /\ ParentsEnd
      /\ text \in Texts /\ docs \subseteq Document /\ doomed = {}
  BY TextsType DEF PageInv, AppendChild, Idle, TypeOK
<1>2. /\ x \in docs \cup Exists /\ n \in Node \ Exists /\ page[n] = Nil
      /\ mem' = Allocated(mem, a, 1, q) /\ CanAllocate(mem, a, 1, q)
      /\ up' = [up EXCEPT ![n] = x] /\ page' = [page EXCEPT ![n] = p]
      /\ docs' = docs /\ text' = text /\ doomed' = doomed /\ alloc' = alloc
  BY <1>0 DEF AppendChild, Handles, Exists, call
<1>3. a \in docs
  BY <1>0, <1>1, <1>2, AllocatorOfWhat, Places
<1>4. MayTake(mem, docs, Used, a, 1, q)
  <2>1. Used \in [Page -> Nat]
    BY <1>1, CountsType, UsedIsUsedBy
  <2> QED BY <1>1, <1>2, <1>3, <2>1, SmallBlocks DEF MayTake
<1>5. Taken(mem, mem', docs, Used, a, 1, p)
  BY <1>0, <1>2, <1>4, AllocationIsTaken
<1>6. /\ p \in mem'.heap /\ p \in Page /\ mem'.owner[p] = a
      /\ \A r \in mem.heap : r \in mem'.heap /\ mem'.owner[r] = mem.owner[r]
      /\ mem' \in Memory
  BY <1>5 DEF Taken, MemOK, Memory
<1>7. MemOK(mem, docs, Used)'
  <2>1. PICK pg, pg2, t, m2, u2 : pg = page /\ pg2 = page' /\ t = text /\ m2 = mem' /\ u2 = Used'
    OBVIOUS
  <2>3. u2 = UsedBy(pg2, t) /\ Used = UsedBy(pg, t)
    BY <1>2, <2>1, UsedNext, UsedIsUsedBy
  <2>4. /\ pg2[n] = p /\ \A m \in Node \ {n} : pg2[m] = pg[m]
        /\ pg \in [Node -> Page \cup {Nil}] /\ pg[n] = Nil /\ t \in Texts
    BY <1>1, <1>2, <2>1 DEF TypeOK
  <2>5. u2 = [UsedBy(pg, t) EXCEPT ![p] = UsedBy(pg, t)[p] + 1]
    BY <1>6, <2>3, <2>4, NodeComes
  <2>6. MemOK(m2, docs, [Used EXCEPT ![p] = @ + 1])
    BY <1>5, <2>1 DEF Taken
  <2>7. MemOK(m2, docs, u2)
    BY <2>3, <2>5, <2>6
  <2> QED BY <1>2, <2>1, <2>7, MemoryNext
<1>8. TypeOK'
  BY <1>1, <1>2, <1>6 DEF TypeOK
<1>9. /\ Exists' = Exists \cup {n} /\ page'[n] = p
      /\ \A k \in Exists : page'[k] = page[k] /\ k # n
  BY <1>1, <1>2, <1>6, PugiAssumption DEF Exists, TypeOK, Block
<1>10. OwnersStay
  BY <1>1, <1>6, <1>9, Places DEF OwnersStay
<1>11. AbsentIsBare'
  BY <1>1, <1>2, <1>9 DEF AbsentIsBare, TypeOK
<1>12. /\ \A k \in Exists : AllocatorOf(k)' = AllocatorOf(k)
       /\ \A d \in Document : AllocatorOf(d)' = AllocatorOf(d)
  BY <1>1, <1>6, <1>7, <1>8, <1>9, Places, PlacesNext, AllocatorOfWhat
<1>13. OneAllocator'
  <2> SUFFICES ASSUME NEW k \in Exists'
               PROVE  /\ text'[k].size > 0 => /\ text'[k].page # Nil
                                              /\ mem'.owner[text'[k].page] = mem'.owner[page'[k]]
                      /\ IF up'[k] = Nil THEN k \in doomed'
                         ELSE up'[k] \in (docs \cup Exists)' /\ AllocatorOf(up[k])' = mem'.owner[page'[k]]
    BY DEF OneAllocator
  <2>1. CASE k = n
    <3>1. text'[k].size = 0
      BY <1>1, <1>2, <2>1 DEF AbsentIsBare, NoText
    <3>2. up'[k] = x /\ x # Nil
      BY <1>1, <1>2, <2>1, PugiAssumption DEF TypeOK, Inner, Block, Exists
    <3>3. AllocatorOf(x)' = AllocatorOf(x)
      BY <1>1, <1>2, <1>12
    <3> QED BY <1>2, <1>6, <1>9, <2>1, <3>1, <3>2, <3>3, <1>0
  <2>2. CASE k \in Exists
    <3>1. /\ text[k].size > 0 => text[k].page # Nil /\ mem.owner[text[k].page] = mem.owner[page[k]]
          /\ IF up[k] = Nil THEN k \in doomed
             ELSE up[k] \in docs \cup Exists /\ AllocatorOf(up[k]) = mem.owner[page[k]]
      BY <1>1, <2>2 DEF OneAllocator
    <3>2. /\ up'[k] = up[k] /\ text'[k] = text[k] /\ page'[k] = page[k]
          /\ mem'.owner[page[k]] = mem.owner[page[k]]
      BY <1>1, <1>2, <1>6, <1>9, <2>2, Places DEF TypeOK, Exists
    <3>3. text[k].size > 0 => mem'.owner[text[k].page] = mem.owner[text[k].page]
      BY <1>1, <1>6, <2>2, <3>1, Places DEF Exists
    <3>4. up[k] # Nil => AllocatorOf(up[k])' = AllocatorOf(up[k])
      BY <1>1, <1>2, <1>12, <3>1, <3>2
    <3> QED BY <1>2, <1>9, <3>1, <3>2, <3>3, <3>4
  <2> QED BY <1>9, <2>1, <2>2
<1>14. DoomedOK'
  BY <1>1, <1>2 DEF DoomedOK
<1>15. ParentsEnd'
  <2> SUFFICES ASSUME NEW S \in SUBSET Node, S # {}
               PROVE  \E k \in S : up'[k] \notin S
    BY DEF ParentsEnd
  <2>1. CASE S \ {n} = {}
    <3>1. S = {n} /\ up'[n] = x /\ x # n
      BY <1>1, <1>2, <2>1, PugiAssumption DEF TypeOK, Exists
    <3> QED BY <3>1
  <2>2. CASE S \ {n} # {}
    <3>1. PICK k \in S \ {n} : up[k] \notin S \ {n}
      BY <1>1, <2>2 DEF ParentsEnd
    <3>2. up[k] # n
      BY <1>1, <1>2, <3>1, PugiAssumption DEF OneAllocator, AbsentIsBare, TypeOK, Block
    <3> QED BY <1>1, <1>2, <3>1, <3>2 DEF TypeOK
  <2> QED BY <2>1, <2>2
<1> QED BY <1>7, <1>8, <1>10, <1>11, <1>13, <1>14, <1>15 DEF PageInv

(* A new string is on a page of the document of its node, and the old one   *)
(* is given back to where it was from.                                      *)
LEMMA SetStringKeeps ==
  ASSUME PageInv, NEW n \in Node, NEW k \in StringSize, NEW q \in Page, SetString(n, k, q)
  PROVE  PageInv' /\ OwnersStay
<1>0. PICK a, p, m, m1, t, t2, u, u1, tp, ts :
        /\ a = AllocatorOf(n) /\ p = PageFor(mem, a, k, q) /\ m = mem
        /\ m1 = Allocated(mem, a, k, q) /\ t = text /\ t2 = text'
        /\ u = Used /\ u1 = [u EXCEPT ![p] = @ + k]
        /\ tp = text[n].page /\ ts = text[n].size
  OBVIOUS
<1>1. /\ TypeOK /\ MemOK(mem, docs, Used) /\ AbsentIsBare /\ OneAllocator /\ ParentsEnd
      /\ t \in Texts /\ docs \subseteq Document /\ doomed = {} /\ k \in Nat \ {0} /\ ts \in Nat
      /\ n \in Exists /\ page \in [Node -> Page \cup {Nil}]
  <2>1. text \in Texts
    BY TextsType DEF PageInv
  <2>2. ts \in Nat
    BY <1>0, <2>1 DEF Texts
  <2> QED BY <1>0, <2>1, <2>2, PugiAssumption DEF PageInv, SetString, Idle, TypeOK
<1>2. /\ mem' = IF ts = 0 THEN m1 ELSE Deallocated(m1, a, tp, ts)
      /\ CanAllocate(m, a, k, q)
      /\ text' = [text EXCEPT ![n] = [page |-> p, size |-> k]]
      /\ docs' = docs /\ up' = up /\ page' = page /\ doomed' = doomed /\ alloc' = alloc
  BY <1>0 DEF SetString, WithoutText, call
<1>3. /\ a \in docs /\ m.root[a] # a /\ a = m.owner[page[n]]
      /\ MemOK(m, docs, u) /\ u \in [Page -> Nat]
  <2>1. u \in [Page -> Nat]
    BY <1>0, <1>1, CountsType, UsedIsUsedBy
  <2> QED BY <1>0, <1>1, <2>1, Places
<1>4. MayTake(m, docs, u, a, k, q)
  BY <1>1, <1>2, <1>3 DEF MayTake
<1>5. Taken(m, m1, docs, u, a, k, p)
  BY <1>0, <1>4, AllocationIsTaken
<1>6. /\ p \in m1.heap /\ p \in Page /\ m1.owner[p] = a
      /\ \A r \in m.heap : r \in m1.heap /\ m1.owner[r] = m.owner[r]
      /\ MemOK(m1, docs, u1) /\ u1 \in [Page -> Nat]
  <2>1. MemOK(m1, docs, u1) /\ p \in m1.heap /\ m1.owner[p] = a
    BY <1>0, <1>5 DEF Taken
  <2>2. p \in Page
    BY <2>1 DEF MemOK, Memory
  <2>3. u1 \in [Page -> Nat]
    BY <1>0, <1>1, <1>3, <2>2
  <2> QED BY <1>5, <2>1, <2>2, <2>3 DEF Taken
<1>7. /\ t2 \in Texts /\ t2[n].page = p /\ t2[n].size = k
      /\ \A j \in Node \ {n} : t2[j] = t[j]
  BY <1>0, <1>1, <1>2, <1>6 DEF Texts
<1>8. ts > 0 => /\ tp \in Page /\ tp \in m.heap /\ m.owner[tp] = a /\ ts <= u[tp]
  <2>1. ASSUME ts > 0 PROVE tp # Nil /\ m.owner[tp] = a /\ tp \in m.heap
    BY <1>0, <1>1, <1>3, <2>1, Places DEF OneAllocator
  <2>2. tp \in m.heap => tp \in Page
    BY <1>3 DEF MemOK, Memory
  <2>3. tp \in Page => ts <= u[tp]
    <3>1. tp \in Page => UsedBy(page, t)[tp] >= ts
      BY <1>0, <1>1, InUseIsCounted
    <3>2. UsedBy(page, t) = u
      BY <1>0, UsedIsUsedBy
    <3> QED BY <1>1, <1>3, <3>1, <3>2
  <2> QED BY <2>1, <2>2, <2>3
<1>9. /\ MemOK(mem, docs, Used)'
      /\ \A r \in mem'.heap : r \in m1.heap /\ mem'.owner[r] = m1.owner[r]
  <2>1. PICK pg, m2, u2 : pg = page /\ m2 = mem' /\ u2 = Used'
    OBVIOUS
  <2>2. u2 = UsedBy(pg, t2) /\ u = UsedBy(pg, t)
    BY <1>0, <1>2, <2>1, UsedNext, UsedIsUsedBy
  <2>3. CASE ts = 0
    <3>1. m2 = m1
      BY <1>2, <2>1, <2>3
    <3>2. t[n].size = 0
      BY <1>0, <2>3
    <3>3. UsedBy(pg, t2) = [UsedBy(pg, t) EXCEPT ![p] = UsedBy(pg, t)[p] + k]
      BY <1>1, <1>6, <1>7, <3>2, TextComes
    <3>4. u2 = u1
      BY <1>0, <2>2, <3>3
    <3>5. MemOK(m2, docs, u2)
      BY <1>6, <3>1, <3>4
    <3> QED BY <1>2, <2>1, <3>1, <3>5, MemoryNext
  <2>4. CASE ts # 0
    <3>1. m2 = Deallocated(m1, a, tp, ts)
      BY <1>2, <2>1, <2>4
    <3>2. tp \in Page /\ tp \in m1.heap /\ m1.owner[tp] = a /\ ts <= u1[tp] /\ ts \in Nat \ {0}
      BY <1>0, <1>1, <1>3, <1>6, <1>8, <2>4
    <3>3. MayGive(m1, docs, u1, a, tp, ts)
      BY <1>1, <1>6, <3>2 DEF MayGive
    <3>4. Given(m1, m2, docs, u1, tp, ts)
      BY <3>1, <3>3, BlockIsGiven
    <3>5. PICK t1, v : t1 = [t EXCEPT ![n] = NoText] /\ v = UsedBy(pg, t1)
      OBVIOUS
    <3>6. t1 \in Texts /\ t1[n] = NoText /\ \A j \in Node \ {n} : t1[j] = t[j]
      BY <1>1, <3>5 DEF Texts, NoText
    <3>7. t[n].page = tp /\ t[n].size = ts
      BY <1>0
    <3>8. v = [u EXCEPT ![tp] = u[tp] - ts]
      <4>1. UsedBy(pg, t1) = [UsedBy(pg, t) EXCEPT ![tp] = UsedBy(pg, t)[tp] - t[n].size]
        BY <1>1, <3>2, <3>6, <3>7, TextGoes
      <4> QED BY <2>2, <3>5, <3>7, <4>1
    <3>9. t1[n].size = 0 /\ \A j \in Node \ {n} : t2[j] = t1[j]
      BY <1>7, <3>6 DEF NoText
    <3>10. u2 = [v EXCEPT ![p] = v[p] + k]
      <4>1. UsedBy(pg, t2) = [UsedBy(pg, t1) EXCEPT ![p] = UsedBy(pg, t1)[p] + k]
        BY <1>1, <1>6, <1>7, <3>6, <3>9, TextComes
      <4> QED BY <2>2, <3>5, <4>1
    <3>11. u2 = [u1 EXCEPT ![tp] = u1[tp] - ts]
      <4>1. ASSUME NEW r \in Page PROVE u2[r] = [u1 EXCEPT ![tp] = u1[tp] - ts][r]
        <5>1. v[r] = IF r = tp THEN u[tp] - ts ELSE u[r]
          BY <1>3, <3>2, <3>8
        <5>2. u2[r] = IF r = p THEN v[p] + k ELSE v[r]
          BY <1>3, <1>6, <3>8, <3>10
        <5>3. u1[r] = IF r = p THEN u[p] + k ELSE u[r]
          BY <1>0, <1>3, <1>6
        <5>4. u[r] \in Nat /\ k \in Nat /\ ts \in Nat
          BY <1>1, <1>3
        <5>5. [u1 EXCEPT ![tp] = u1[tp] - ts][r] = IF r = tp THEN u1[r] - ts ELSE u1[r]
          BY <1>6
        <5> QED BY <5>1, <5>2, <5>3, <5>4, <5>5
      <4>2. u2 = [r \in Page |-> u2[r]]
        BY <2>2 DEF UsedBy
      <4> QED BY <1>6, <4>1, <4>2
    <3>12. MemOK(m2, docs, u2)
      BY <3>4, <3>11 DEF Given
    <3>13. \A r \in m2.heap : r \in m1.heap /\ m2.owner[r] = m1.owner[r]
      BY <3>4 DEF Given
    <3> QED BY <1>2, <2>1, <3>12, <3>13, MemoryNext
  <2> QED BY <2>3, <2>4
<1>10. TypeOK'
  <2>1. mem' \in Memory
    BY <1>9 DEF MemOK
  <2>2. text' \in [Node -> [page : Page \cup {Nil}, size : {0} \cup StringSize]]
    BY <1>1, <1>2, <1>6 DEF TypeOK
  <2> QED BY <1>1, <1>2, <2>1, <2>2 DEF TypeOK
<1>11. Exists' = Exists /\ \A j \in Exists : page'[j] = page[j]
  BY <1>2 DEF Exists
<1>12. \A r \in m.heap : r \in mem'.heap => mem'.owner[r] = m.owner[r]
  BY <1>6, <1>9
<1>13. OwnersStay
  BY <1>0, <1>1, <1>9, <1>10, <1>11, <1>12, Places, PlacesNext DEF OwnersStay
<1>14. AbsentIsBare'
  BY <1>1, <1>2, <1>11 DEF AbsentIsBare, TypeOK
<1>15. OneAllocator'
  <2> SUFFICES ASSUME NEW j \in Exists
               PROVE  /\ text'[j].size > 0 => /\ text'[j].page # Nil
                                              /\ mem'.owner[text'[j].page] = mem'.owner[page'[j]]
                      /\ IF up'[j] = Nil THEN j \in doomed'
                         ELSE up'[j] \in (docs \cup Exists)' /\ AllocatorOf(up[j])' = mem'.owner[page'[j]]
    BY <1>11 DEF OneAllocator
  <2>1. /\ text[j].size > 0 => text[j].page # Nil /\ m.owner[text[j].page] = m.owner[page[j]]
        /\ IF up[j] = Nil THEN j \in doomed
           ELSE up[j] \in docs \cup Exists /\ AllocatorOf(up[j]) = m.owner[page[j]]
        /\ j \in Node
    BY <1>0, <1>1 DEF OneAllocator, Exists
  <2>2. mem'.owner[page'[j]] = m.owner[page[j]]
    BY <1>0, <1>1, <1>11, <1>13, PugiAssumption DEF OwnersStay, Exists, Block
  <2>3. up[j] # Nil => AllocatorOf(up[j])' = AllocatorOf(up[j])
    BY <1>1, <1>2, <1>9, <1>10, <1>11, <1>13, <2>1, AllocatorsStay
  <2>4. CASE j = n
    <3>1. text'[j].page = p /\ text'[j].size = k /\ p # Nil /\ k > 0
      BY <1>0, <1>1, <1>6, <1>7, <2>4, PugiAssumption DEF Block
    <3>2. p \in mem'.heap
      BY <1>9, <1>10, <2>1, <3>1, PlacesNext
    <3>3. mem'.owner[p] = a
      BY <1>6, <1>9, <3>2
    <3> QED BY <1>2, <1>3, <1>11, <2>1, <2>2, <2>3, <2>4, <3>1, <3>3
  <2>5. CASE j # n
    <3>1. text'[j] = text[j]
      BY <1>0, <1>7, <2>1, <2>5
    <3>2. text[j].size > 0 => text[j].page \in m.heap /\ text[j].page \in mem'.heap
      BY <1>0, <1>1, <1>9, <1>10, <2>1, <3>1, Places, PlacesNext
    <3>3. text[j].size > 0 => mem'.owner[text[j].page] = m.owner[text[j].page]
      BY <1>12, <3>2
    <3> QED BY <1>2, <1>11, <2>1, <2>2, <2>3, <3>1, <3>3
  <2> QED BY <2>4, <2>5
<1>16. DoomedOK' /\ ParentsEnd'
  BY <1>1, <1>2 DEF DoomedOK, ParentsEnd
<1> QED BY <1>9, <1>10, <1>13, <1>14, <1>15, <1>16 DEF PageInv

(* A string that is given back goes to the allocator of its node.           *)
LEMMA TextGivenKeeps ==
  ASSUME PageInv, NEW n \in Exists, NEW a, a = mem.owner[page[n]], text[n].size > 0,
         mem' = WithoutText(mem, a, n), text' = [text EXCEPT ![n] = NoText],
         UNCHANGED <<docs, up, page, call>>
  PROVE  PageInv' /\ OwnersStay
<1>0. PICK m, t, t2, u, tp, ts :
        m = mem /\ t = text /\ t2 = text' /\ u = Used /\ tp = text[n].page /\ ts = text[n].size
  OBVIOUS
<1>1. /\ TypeOK /\ MemOK(mem, docs, Used) /\ AbsentIsBare /\ OneAllocator /\ ParentsEnd /\ DoomedOK
      /\ t \in Texts /\ docs \subseteq Document /\ ts \in Nat \ {0}
      /\ n \in Node /\ page \in [Node -> Page \cup {Nil}] /\ u \in [Page -> Nat]
      /\ MemOK(m, docs, u)
  <2>1. text \in Texts
    BY TextsType DEF PageInv
  <2>2. ts \in Nat \ {0}
    BY <1>0, <2>1 DEF Texts, Exists
  <2>3. Used \in [Page -> Nat]
    BY <2>1, CountsType, UsedIsUsedBy
  <2> QED BY <1>0, <2>1, <2>2, <2>3 DEF PageInv, TypeOK, Exists
<1>2. /\ mem' = Deallocated(m, a, tp, ts)
      /\ text' = [text EXCEPT ![n] = NoText]
      /\ docs' = docs /\ up' = up /\ page' = page /\ doomed' = doomed /\ alloc' = alloc
  BY <1>0 DEF WithoutText, call
<1>3. /\ t2 \in Texts /\ t2[n] = NoText /\ \A j \in Node \ {n} : t2[j] = t[j]
  BY <1>0, <1>1, <1>2 DEF Texts, NoText
<1>4. tp \in Page /\ tp \in m.heap /\ m.owner[tp] = a /\ ts <= u[tp]
  <2>1. tp # Nil /\ m.owner[tp] = a /\ tp \in m.heap
    BY <1>0, <1>1, Places DEF OneAllocator
  <2>2. tp \in Page
    BY <1>1, <2>1 DEF MemOK, Memory
  <2>3. ts <= u[tp]
    <3>1. UsedBy(page, t)[tp] >= ts
      BY <1>0, <1>1, <2>2, InUseIsCounted
    <3>2. UsedBy(page, t) = u
      BY <1>0, UsedIsUsedBy
    <3> QED BY <1>1, <2>2, <3>1, <3>2
  <2> QED BY <2>1, <2>2, <2>3
<1>5. /\ MemOK(mem, docs, Used)'
      /\ \A r \in mem'.heap : r \in m.heap /\ mem'.owner[r] = m.owner[r]
  <2>1. PICK pg, m2, u2 : pg = page /\ m2 = mem' /\ u2 = Used'
    OBVIOUS
  <2>2. u2 = UsedBy(pg, t2) /\ u = UsedBy(pg, t)
    BY <1>0, <1>2, <2>1, UsedNext, UsedIsUsedBy
  <2>3. MayGive(m, docs, u, a, tp, ts)
    BY <1>1, <1>4 DEF MayGive
  <2>4. Given(m, m2, docs, u, tp, ts)
    BY <1>2, <2>1, <2>3, BlockIsGiven
  <2>5. t[n].page = tp /\ t[n].size = ts
    BY <1>0
  <2>6. UsedBy(pg, t2) = [UsedBy(pg, t) EXCEPT ![tp] = UsedBy(pg, t)[tp] - t[n].size]
    BY <1>1, <1>3, <1>4, <2>5, TextGoes
  <2>7. u2 = [u EXCEPT ![tp] = @ - ts]
    BY <2>2, <2>5, <2>6
  <2>8. MemOK(m2, docs, u2) /\ \A r \in m2.heap : r \in m.heap /\ m2.owner[r] = m.owner[r]
    BY <2>4, <2>7 DEF Given
  <2> QED BY <1>2, <2>1, <2>8, MemoryNext
<1>6. TypeOK'
  <2>1. mem' \in Memory
    BY <1>5 DEF MemOK
  <2>2. text' \in [Node -> [page : Page \cup {Nil}, size : {0} \cup StringSize]]
    BY <1>1, <1>2 DEF TypeOK, NoText
  <2> QED BY <1>1, <1>2, <2>1, <2>2 DEF TypeOK
<1>7. Exists' = Exists /\ \A j \in Exists : page'[j] = page[j]
  BY <1>2 DEF Exists
<1>8. OwnersStay
  BY <1>0, <1>1, <1>5, <1>6, <1>7, PlacesNext DEF OwnersStay
<1>9. AbsentIsBare'
  BY <1>1, <1>2, <1>7 DEF AbsentIsBare, TypeOK
<1>10. \A j \in Exists : mem'.owner[page'[j]] = m.owner[page[j]]
  BY <1>0, <1>7, <1>8 DEF OwnersStay, Exists
<1>11. OneAllocator'
  <2> SUFFICES ASSUME NEW j \in Exists
               PROVE  /\ text'[j].size > 0 => /\ text'[j].page # Nil
                                              /\ mem'.owner[text'[j].page] = mem'.owner[page'[j]]
                      /\ IF up'[j] = Nil THEN j \in doomed'
                         ELSE up'[j] \in (docs \cup Exists)' /\ AllocatorOf(up[j])' = mem'.owner[page'[j]]
    BY <1>7 DEF OneAllocator
  <2>1. /\ text[j].size > 0 => text[j].page # Nil /\ m.owner[text[j].page] = m.owner[page[j]]
        /\ IF up[j] = Nil THEN j \in doomed
           ELSE up[j] \in docs \cup Exists /\ AllocatorOf(up[j]) = m.owner[page[j]]
        /\ j \in Node
    BY <1>0, <1>1 DEF OneAllocator, Exists
  <2>2. up[j] # Nil => AllocatorOf(up[j])' = AllocatorOf(up[j])
    BY <1>1, <1>2, <1>5, <1>6, <1>7, <1>8, <2>1, AllocatorsStay
  <2>3. CASE j = n
    <3>1. text'[j].size = 0
      BY <1>0, <1>3, <2>3 DEF NoText
    <3> QED BY <1>2, <1>7, <1>10, <2>1, <2>2, <3>1
  <2>4. CASE j # n
    <3>1. text'[j] = text[j]
      BY <1>0, <1>3, <2>1, <2>4
    <3>2. text[j].size > 0 => text[j].page \in mem'.heap
      BY <1>0, <1>1, <1>5, <1>6, <2>1, <3>1, PlacesNext
    <3>3. text[j].size > 0 => mem'.owner[text[j].page] = m.owner[text[j].page]
      BY <1>5, <3>2
    <3> QED BY <1>2, <1>7, <1>10, <2>1, <2>2, <3>1, <3>3
  <2> QED BY <2>3, <2>4
<1>12. DoomedOK'
  BY <1>0, <1>1, <1>2, <1>7, <1>10 DEF DoomedOK
<1>13. ParentsEnd'
  BY <1>1, <1>2 DEF ParentsEnd
<1> QED BY <1>5, <1>6, <1>8, <1>9, <1>11, <1>12, <1>13 DEF PageInv

(* The two steps that only give a string back.                              *)
LEMMA ClearStringKeeps ==
  ASSUME PageInv, NEW n \in Node, ClearString(n)
  PROVE  PageInv' /\ OwnersStay
<1>1. PICK a : a = mem.owner[page[n]]
  OBVIOUS
<1>2. n \in Exists /\ AllocatorOf(n) = a
  BY <1>1, Places DEF ClearString, PageInv
<1>3. /\ text[n].size > 0 /\ mem' = WithoutText(mem, a, n) /\ text' = [text EXCEPT ![n] = NoText]
      /\ UNCHANGED <<docs, up, page, call>>
  BY <1>2 DEF ClearString
<1> QED BY <1>1, <1>2, <1>3, TextGivenKeeps

LEMMA DestroyStringKeeps ==
  ASSUME PageInv, NEW n \in Node, DestroyString(n)
  PROVE  PageInv' /\ OwnersStay
<1>1. PICK a : a = mem.owner[page[n]]
  OBVIOUS
<1>2. n \in Exists /\ alloc = a
  BY <1>1 DEF DestroyString, PageInv, DoomedOK
<1>3. /\ text[n].size > 0 /\ mem' = WithoutText(mem, a, n) /\ text' = [text EXCEPT ![n] = NoText]
      /\ UNCHANGED <<docs, up, page, call>>
  BY <1>2 DEF DestroyString
<1> QED BY <1>1, <1>2, <1>3, TextGivenKeeps

(* Steps that leave the memory alone.                                       *)
LEMMA MemoryStays ==
  ASSUME PageInv, UNCHANGED <<docs, page, text, mem>>
  PROVE  /\ MemOK(mem, docs, Used)' /\ OwnersStay
         /\ Exists' = Exists
         /\ \A k \in Document \cup Exists : AllocatorOf(k)' = AllocatorOf(k)
<1>1. PICK pg, t, m, u, u2 : pg = page /\ t = text /\ m = mem /\ u = Used /\ u2 = Used'
  OBVIOUS
<1>2. u2 = UsedBy(pg, t) /\ u = UsedBy(pg, t)
  BY <1>1, UsedNext, UsedIsUsedBy
<1>3. MemOK(m, docs, u)
  BY <1>1 DEF PageInv
<1>4. MemOK(mem, docs, Used)'
  BY <1>1, <1>2, <1>3, MemoryNext
<1> QED BY <1>4 DEF OwnersStay, Exists, AllocatorOf, Allocator

(* A node that is unlinked is destroyed with all below it.                  *)
LEMMA RemoveChildKeeps ==
  ASSUME PageInv, NEW n \in Node, RemoveChild(n)
  PROVE  PageInv' /\ OwnersStay
<1>1. /\ TypeOK /\ AbsentIsBare /\ OneAllocator /\ ParentsEnd /\ doomed = {}
      /\ n \in Exists /\ up' = [up EXCEPT ![n] = Nil]
      /\ doomed' = {n} \cup Below(n) /\ alloc' = AllocatorOf(up[n])
      /\ docs' = docs /\ page' = page /\ text' = text /\ mem' = mem
  BY DEF PageInv, RemoveChild, Idle
<1>2. /\ MemOK(mem, docs, Used)' /\ OwnersStay
      /\ Exists' = Exists
      /\ \A k \in Document \cup Exists : AllocatorOf(k)' = AllocatorOf(k)
  BY <1>1, MemoryStays
<1>3. /\ \A j \in Exists : up[j] \in {n} \cup Below(n) => j \in Below(n)
      /\ \A j \in Below(n) : j \in Exists /\ AllocatorOf(j) = AllocatorOf(n)
  BY <1>1, BelowIs DEF Inner
<1>4. \A j \in Exists : AllocatorOf(j) = mem.owner[page[j]] /\ mem.owner[page[j]] \in docs
  BY Places DEF PageInv
<1>5. up[n] \in docs \cup Exists /\ AllocatorOf(up[n]) = mem.owner[page[n]]
  BY <1>1 DEF OneAllocator
<1>6. TypeOK'
  BY <1>1, <1>3, <1>4, <1>5 DEF TypeOK, Exists
<1>7. AbsentIsBare'
  BY <1>1, <1>2 DEF AbsentIsBare, TypeOK
<1>8. \A j \in Exists : up'[j] = IF j = n THEN Nil ELSE up[j]
  BY <1>1 DEF TypeOK, Exists
<1>9. OneAllocator'
  <2> SUFFICES ASSUME NEW j \in Exists
               PROVE  /\ text'[j].size > 0 => /\ text'[j].page # Nil
                                              /\ mem'.owner[text'[j].page] = mem'.owner[page'[j]]
                      /\ IF up'[j] = Nil THEN j \in doomed'
                         ELSE up'[j] \in (docs \cup Exists)' /\ AllocatorOf(up[j])' = mem'.owner[page'[j]]
    BY <1>2 DEF OneAllocator
  <2>1. /\ text[j].size > 0 => text[j].page # Nil /\ mem.owner[text[j].page] = mem.owner[page[j]]
        /\ up[j] \in docs \cup Exists /\ AllocatorOf(up[j]) = mem.owner[page[j]]
    BY <1>1 DEF OneAllocator
  <2>2. CASE j = n
    <3>1. Nil \notin docs \cup Exists
      BY <1>1, PugiAssumption DEF TypeOK, Exists, Block
    <3> QED BY <1>1, <1>8, <2>1, <2>2
  <2>3. CASE j # n
    <3>1. up'[j] = up[j] /\ AllocatorOf(up[j])' = AllocatorOf(up[j])
      BY <1>1, <1>2, <1>8, <2>1, <2>3 DEF TypeOK
    <3> QED BY <1>1, <1>2, <2>1, <2>3, <3>1, PugiAssumption DEF TypeOK, Exists, Block
  <2> QED BY <2>2, <2>3
<1>10. DoomedOK'
  <2>1. doomed' \subseteq Exists'
    BY <1>1, <1>2, <1>3
  <2>2. ASSUME NEW j \in Exists', up'[j] \in doomed' PROVE j \in doomed'
    BY <1>1, <1>2, <1>3, <1>8, <2>2
  <2>3. ASSUME NEW j \in doomed' PROVE mem'.owner[page'[j]] = alloc'
    BY <1>1, <1>2, <1>3, <1>4, <1>5, <2>3
  <2> QED BY <2>1, <2>2, <2>3 DEF DoomedOK
<1>11. ParentsEnd'
  <2> SUFFICES ASSUME NEW S \in SUBSET Node, S # {}
               PROVE  \E k \in S : up'[k] \notin S
    BY DEF ParentsEnd
  <2>1. PICK k \in S : up[k] \notin S
    BY <1>1 DEF ParentsEnd
  <2>2. up'[k] = Nil \/ up'[k] = up[k]
    BY <1>1 DEF TypeOK
  <2> QED BY <2>1, <2>2, PugiAssumption
<1> QED BY <1>2, <1>6, <1>7, <1>9, <1>10, <1>11 DEF PageInv

(* So are all children of a node or document.                               *)
LEMMA RemoveChildrenKeeps ==
  ASSUME PageInv, NEW x \in Inner, RemoveChildren(x)
  PROVE  PageInv' /\ OwnersStay
<1>1. /\ TypeOK /\ AbsentIsBare /\ OneAllocator /\ ParentsEnd /\ doomed = {}
      /\ x \in docs \cup Exists
      /\ doomed' = Below(x) /\ alloc' = AllocatorOf(x)
      /\ docs' = docs /\ up' = up /\ page' = page /\ text' = text /\ mem' = mem
  BY DEF PageInv, RemoveChildren, Idle, Handles
<1>2. /\ MemOK(mem, docs, Used)' /\ OwnersStay
      /\ Exists' = Exists
      /\ \A k \in Document \cup Exists : AllocatorOf(k)' = AllocatorOf(k)
  BY <1>1, MemoryStays
<1>3. /\ \A j \in Exists : up[j] \in {x} \cup Below(x) => j \in Below(x)
      /\ \A j \in Below(x) : j \in Exists /\ AllocatorOf(j) = AllocatorOf(x)
  BY <1>1, BelowIs
<1>4. \A j \in Exists : AllocatorOf(j) = mem.owner[page[j]] /\ mem.owner[page[j]] \in docs
  BY Places DEF PageInv
<1>5. AllocatorOf(x) \in docs
  BY <1>1, <1>4, AllocatorOfWhat DEF TypeOK
<1>6. TypeOK' /\ AbsentIsBare' /\ ParentsEnd'
  <2>1. TypeOK'
    BY <1>1, <1>3, <1>5 DEF TypeOK, Exists
  <2> QED BY <1>1, <1>2, <2>1 DEF AbsentIsBare, ParentsEnd
<1>7. OneAllocator'
  <2> SUFFICES ASSUME NEW j \in Exists
               PROVE  /\ text'[j].size > 0 => /\ text'[j].page # Nil
                                              /\ mem'.owner[text'[j].page] = mem'.owner[page'[j]]
                      /\ IF up'[j] = Nil THEN j \in doomed'
                         ELSE up'[j] \in (docs \cup Exists)' /\ AllocatorOf(up[j])' = mem'.owner[page'[j]]
    BY <1>2 DEF OneAllocator
  <2>1. /\ text[j].size > 0 => text[j].page # Nil /\ mem.owner[text[j].page] = mem.owner[page[j]]
        /\ up[j] # Nil /\ up[j] \in docs \cup Exists /\ AllocatorOf(up[j]) = mem.owner[page[j]]
    BY <1>1 DEF OneAllocator
  <2>2. AllocatorOf(up[j])' = AllocatorOf(up[j])
    BY <1>1, <1>2, <2>1 DEF TypeOK
  <2> QED BY <1>1, <1>2, <2>1, <2>2
<1>8. DoomedOK'
  <2>1. doomed' \subseteq Exists'
    BY <1>1, <1>2, <1>3
  <2>2. ASSUME NEW j \in Exists', up'[j] \in doomed' PROVE j \in doomed'
    BY <1>1, <1>2, <1>3, <2>2
  <2>3. ASSUME NEW j \in doomed' PROVE mem'.owner[page'[j]] = alloc'
    BY <1>1, <1>2, <1>3, <1>4, <2>3
  <2> QED BY <2>1, <2>2, <2>3 DEF DoomedOK
<1> QED BY <1>2, <1>6, <1>7, <1>8 DEF PageInv

(* A node is destroyed when nothing is left below it.                       *)
LEMMA DestroyNodeKeeps ==
  ASSUME PageInv, NEW n \in Node, DestroyNode(n)
  PROVE  PageInv' /\ OwnersStay
<1>0. PICK m, u, p, a : m = mem /\ u = Used /\ p = page[n] /\ a = alloc
  OBVIOUS
<1>1. /\ TypeOK /\ MemOK(mem, docs, Used) /\ AbsentIsBare /\ OneAllocator /\ ParentsEnd /\ DoomedOK
      /\ text \in Texts /\ docs \subseteq Document /\ page \in [Node -> Page \cup {Nil}]
      /\ u \in [Page -> Nat] /\ MemOK(m, docs, u)
  <2>1. text \in Texts
    BY TextsType DEF PageInv
  <2>2. Used \in [Page -> Nat]
    BY <2>1, CountsType, UsedIsUsedBy
  <2> QED BY <1>0, <2>1, <2>2 DEF PageInv, TypeOK
<1>2. /\ n \in Exists /\ n \in doomed /\ text[n].size = 0 /\ \A c \in Exists : up[c] # n
      /\ mem' = Deallocated(m, a, p, 1)
      /\ up' = [up EXCEPT ![n] = Nil] /\ page' = [page EXCEPT ![n] = Nil]
      /\ doomed' = doomed \ {n} /\ (alloc' = alloc \/ (alloc' = Nil /\ doomed' = {}))
      /\ docs' = docs /\ text' = text
  <2>1. mem' = Deallocated(m, a, p, 1)
    BY <1>0 DEF DestroyNode
  <2>2. doomed' = doomed \ {n} /\ (alloc' = alloc \/ (alloc' = Nil /\ doomed' = {}))
    BY DEF DestroyNode
  <2>3. /\ n \in doomed /\ text[n].size = 0 /\ \A c \in Exists : up[c] # n
        /\ up' = [up EXCEPT ![n] = Nil] /\ page' = [page EXCEPT ![n] = Nil]
        /\ docs' = docs /\ text' = text
    BY DEF DestroyNode
  <2> QED BY <1>1, <2>1, <2>2, <2>3 DEF DoomedOK
<1>3. p \in Page /\ p \in m.heap /\ m.owner[p] = a /\ 1 <= u[p]
  <2>1. p \in Page /\ p \in m.heap /\ m.owner[p] = a
    BY <1>0, <1>1, <1>2, Places DEF DoomedOK
  <2>2. UsedBy(page, text)[p] >= 1
    BY <1>0, <1>1, <2>1, InUseIsCounted
  <2>3. UsedBy(page, text) = u
    BY <1>0, UsedIsUsedBy
  <2> QED BY <1>1, <2>1, <2>2, <2>3
<1>4. /\ MemOK(mem, docs, Used)'
      /\ \A r \in mem'.heap : r \in m.heap /\ mem'.owner[r] = m.owner[r]
  <2>1. PICK pg, pg2, t, m2, u2 : pg = page /\ pg2 = page' /\ t = text /\ m2 = mem' /\ u2 = Used'
    OBVIOUS
  <2>2. u2 = UsedBy(pg2, t) /\ u = UsedBy(pg, t)
    BY <1>0, <1>2, <2>1, UsedNext, UsedIsUsedBy
  <2>3. MayGive(m, docs, u, a, p, 1)
    BY <1>1, <1>3 DEF MayGive
  <2>4. Given(m, m2, docs, u, p, 1)
    BY <1>2, <2>1, <2>3, BlockIsGiven
  <2>5. /\ pg2[n] = Nil /\ \A j \in Node \ {n} : pg2[j] = pg[j]
        /\ pg \in [Node -> Page \cup {Nil}] /\ pg[n] = p /\ t \in Texts
    BY <1>0, <1>1, <1>2, <2>1
  <2>6. UsedBy(pg2, t) = [UsedBy(pg, t) EXCEPT ![p] = UsedBy(pg, t)[p] - 1]
    BY <1>3, <2>5, NodeGoes
  <2>7. u2 = [u EXCEPT ![p] = @ - 1]
    BY <2>2, <2>6
  <2>8. MemOK(m2, docs, u2) /\ \A r \in m2.heap : r \in m.heap /\ m2.owner[r] = m.owner[r]
    BY <2>4, <2>7 DEF Given
  <2> QED BY <1>2, <2>1, <2>8, MemoryNext
<1>5. TypeOK'
  <2>1. mem' \in Memory
    BY <1>4 DEF MemOK
  <2> QED BY <1>1, <1>2, <2>1 DEF TypeOK
<1>6. /\ Exists' = Exists \ {n}
      /\ \A j \in Exists' : page'[j] = page[j] /\ up'[j] = up[j] /\ j \in Node
  BY <1>1, <1>2 DEF Exists, TypeOK
<1>7. OwnersStay
  BY <1>0, <1>1, <1>4, <1>5, <1>6, PlacesNext DEF OwnersStay, Exists
<1>8. AbsentIsBare'
  BY <1>1, <1>2, <1>6 DEF AbsentIsBare, TypeOK
<1>9. \A j \in Exists' : mem'.owner[page[j]] = m.owner[page[j]]
  BY <1>0, <1>1, <1>4, <1>5, <1>6, PlacesNext
<1>10. OneAllocator'
  <2> SUFFICES ASSUME NEW j \in Exists'
               PROVE  /\ text'[j].size > 0 => /\ text'[j].page # Nil
                                              /\ mem'.owner[text'[j].page] = mem'.owner[page'[j]]
                      /\ IF up'[j] = Nil THEN j \in doomed'
                         ELSE up'[j] \in (docs \cup Exists)' /\ AllocatorOf(up[j])' = mem'.owner[page'[j]]
    BY DEF OneAllocator
  <2>1. /\ text[j].size > 0 => text[j].page # Nil /\ m.owner[text[j].page] = m.owner[page[j]]
        /\ IF up[j] = Nil THEN j \in doomed
           ELSE up[j] \in docs \cup Exists /\ AllocatorOf(up[j]) = m.owner[page[j]]
        /\ j \in Node /\ j \in Exists /\ j # n
    BY <1>0, <1>1, <1>6 DEF OneAllocator
  <2>2. up[j] # Nil => up[j] \in docs \cup Exists'
    BY <1>2, <1>6, <2>1
  <2>3. up[j] # Nil => AllocatorOf(up[j])' = AllocatorOf(up[j])
    BY <1>1, <1>4, <1>5, <1>6, <1>7, <2>1, <2>2, AllocatorsStay
  <2>4. text[j].size > 0 => mem'.owner[text[j].page] = m.owner[text[j].page]
    BY <1>2, <1>4, <1>5, <2>1, PlacesNext
  <2> QED BY <1>2, <1>6, <1>9, <2>1, <2>2, <2>3, <2>4
<1>11. DoomedOK'
  <2>1. doomed' \subseteq Exists'
    BY <1>1, <1>2, <1>6 DEF DoomedOK
  <2>2. ASSUME NEW j \in Exists', up'[j] \in doomed' PROVE j \in doomed'
    BY <1>1, <1>2, <1>6, <2>2 DEF DoomedOK
  <2>3. ASSUME NEW j \in doomed' PROVE mem'.owner[page'[j]] = alloc'
    BY <1>0, <1>1, <1>2, <1>6, <1>9, <2>1, <2>3 DEF DoomedOK
  <2> QED BY <2>1, <2>2, <2>3 DEF DoomedOK
<1>12. ParentsEnd'
  <2> SUFFICES ASSUME NEW S \in SUBSET Node, S # {}
               PROVE  \E k \in S : up'[k] \notin S
    BY DEF ParentsEnd
  <2>1. PICK k \in S : up[k] \notin S
    BY <1>1 DEF ParentsEnd
  <2>2. up'[k] = Nil \/ up'[k] = up[k]
    BY <1>1, <1>2 DEF TypeOK
  <2> QED BY <2>1, <2>2, PugiAssumption
<1> QED BY <1>4, <1>5, <1>7, <1>8, <1>10, <1>11, <1>12 DEF PageInv

(* A node moves to another parent of its document, which is not below it.   *)
LEMMA AppendMoveKeeps ==
  ASSUME PageInv, NEW x \in Inner, NEW n \in Node, AppendMove(x, n)
  PROVE  PageInv' /\ OwnersStay
<1>1. /\ TypeOK /\ AbsentIsBare /\ OneAllocator /\ ParentsEnd /\ doomed = {}
      /\ x \in docs \cup Exists /\ n \in Exists
      /\ AllocatorOf(x) = AllocatorOf(n) /\ x \notin {n} \cup Below(n)
      /\ up' = [up EXCEPT ![n] = x] /\ doomed' = doomed /\ alloc' = alloc
      /\ docs' = docs /\ page' = page /\ text' = text /\ mem' = mem
  BY DEF PageInv, AppendMove, AllowMove, Idle, Handles, call
<1>2. /\ MemOK(mem, docs, Used)' /\ OwnersStay
      /\ Exists' = Exists
      /\ \A k \in Document \cup Exists : AllocatorOf(k)' = AllocatorOf(k)
  BY <1>1, MemoryStays
<1>3. \A j \in Exists : up[j] \in {n} \cup Below(n) => j \in Below(n)
  BY <1>1, BelowIs DEF Inner
<1>4. \A j \in Exists : AllocatorOf(j) = mem.owner[page[j]]
  BY Places DEF PageInv
<1>5. \A j \in Node : up'[j] = IF j = n THEN x ELSE up[j]
  BY <1>1 DEF TypeOK
<1>6. TypeOK' /\ AbsentIsBare' /\ DoomedOK'
  BY <1>1, <1>2 DEF TypeOK, AbsentIsBare, DoomedOK
<1>7. OneAllocator'
  <2> SUFFICES ASSUME NEW j \in Exists
               PROVE  /\ text'[j].size > 0 => /\ text'[j].page # Nil
                                              /\ mem'.owner[text'[j].page] = mem'.owner[page'[j]]
                      /\ IF up'[j] = Nil THEN j \in doomed'
                         ELSE up'[j] \in (docs \cup Exists)' /\ AllocatorOf(up[j])' = mem'.owner[page'[j]]
    BY <1>2 DEF OneAllocator
  <2>1. /\ text[j].size > 0 => text[j].page # Nil /\ mem.owner[text[j].page] = mem.owner[page[j]]
        /\ up[j] # Nil /\ up[j] \in docs \cup Exists /\ AllocatorOf(up[j]) = mem.owner[page[j]]
        /\ j \in Node
    BY <1>1 DEF OneAllocator, Exists
  <2>2. up'[j] \in docs \cup Exists /\ AllocatorOf(up'[j]) = mem.owner[page[j]]
    BY <1>1, <1>4, <1>5, <2>1
  <2>3. PICK y : y = up'[j]
    OBVIOUS
  <2>4. AllocatorOf(y)' = AllocatorOf(y)
    BY <1>1, <1>2, <2>2, <2>3 DEF TypeOK
  <2>5. y # Nil
    BY <1>1, <2>2, <2>3, PugiAssumption DEF TypeOK, Exists, Block
  <2> QED BY <1>1, <1>2, <2>1, <2>2, <2>3, <2>4, <2>5
<1>8. ParentsEnd'
  <2> SUFFICES ASSUME NEW S \in SUBSET Node, S # {}
               PROVE  \E k \in S : up'[k] \notin S
    BY DEF ParentsEnd
  <2> DEFINE T == S \ ({n} \cup Below(n))
  <2>1. CASE T # {}
    <3>1. PICK k \in T : up[k] \notin T
      BY <1>1, <2>1 DEF ParentsEnd
    <3>2. k \in S /\ k # n /\ k \notin Below(n) /\ k \in Node
      BY <3>1
    <3>3. up[k] \notin S
      <4>1. CASE k \in Exists
        BY <1>3, <3>1, <3>2, <4>1
      <4>2. CASE k \notin Exists
        BY <1>1, <3>2, <4>2, PugiAssumption DEF AbsentIsBare
      <4> QED BY <4>1, <4>2
    <3> QED BY <1>5, <3>2, <3>3
  <2>2. CASE T = {} /\ n \in S
    BY <1>1, <1>5, <2>2
  <2>3. CASE T = {} /\ n \notin S
    <3>1. PICK k \in S : up[k] \notin S
      BY <1>1 DEF ParentsEnd
    <3> QED BY <1>5, <2>3, <3>1
  <2> QED BY <2>1, <2>2, <2>3
<1> QED BY <1>2, <1>6, <1>7, <1>8 DEF PageInv

(* What is left of the nodes when the pages in C have gone: those that were *)
(* on other pages, with their strings and parents.                          *)
LEMMA Survivors ==
  ASSUME PageInv, NEW d \in Document,
         NEW S, S = NodesOn(d),
         page' = [n \in Node |-> IF n \in S THEN Nil ELSE page[n]]
  PROVE  /\ S \subseteq Exists
         /\ Exists' = Exists \ S
         /\ \A n \in Exists : n \in S <=> mem.owner[page[n]] = d
         /\ \A n \in Node : page[n] \in Chain(mem, d) <=> n \in S
         /\ \A n \in Node : text[n].size > 0 => (text[n].page \in Chain(mem, d) <=> n \in S)
         /\ \A n \in Exists \ S : page'[n] = page[n]
<1>0. PICK C : C = Chain(mem, d)
  OBVIOUS
<1>1. C = {p \in mem.heap : mem.owner[p] = d} /\ mem.heap \subseteq Page
  <2>1. PICK m, D, u : m = mem /\ D = docs /\ u = Used
    OBVIOUS
  <2>2. MemOK(m, D, u) /\ D \in SUBSET Document
    BY <2>1 DEF PageInv, TypeOK
  <2>3. Chain(m, d) = {p \in m.heap : m.owner[p] = d}
    BY <2>2, ChainIsOwned
  <2>4. m.heap \subseteq Page
    BY <2>2 DEF MemOK, Memory
  <2> QED BY <1>0, <2>1, <2>3, <2>4
<1>2. \A n \in Exists : /\ page[n] \in mem.heap /\ n \in Node
                        /\ text[n].size > 0 => /\ text[n].page \in mem.heap
                                               /\ mem.owner[text[n].page] = mem.owner[page[n]]
  BY Places DEF PageInv, OneAllocator, Exists
<1>3. \A n \in Node \ Exists : page[n] = Nil /\ text[n].size = 0
  BY DEF PageInv, AbsentIsBare, Exists
<1>4. Nil \notin C
  BY <1>1, PugiAssumption DEF Block
<1>5. S = {n \in Exists : page[n] \in C}
  BY <1>0 DEF NodesOn
<1>6. \A n \in Exists : n \in S <=> mem.owner[page[n]] = d
  BY <1>1, <1>2, <1>5
<1>7. \A n \in Node : page[n] \in C <=> n \in S
  BY <1>3, <1>4, <1>5
<1>8. ASSUME NEW n \in Node, text[n].size > 0 PROVE text[n].page \in C <=> n \in S
  <2>1. n \in Exists
    BY <1>3, <1>8
  <2> QED BY <1>1, <1>2, <1>6, <1>8, <2>1
<1>9. Exists' = Exists \ S /\ \A n \in Exists \ S : page'[n] = page[n]
  BY <1>5 DEF Exists
<1> QED BY <1>0, <1>5, <1>6, <1>7, <1>8, <1>9

(* A document without its pages, whether it is then there or not.           *)
LEMMA GoneKeeps ==
  ASSUME PageInv, doomed = {}, NEW d \in Document,
         docs' \in SUBSET Document, docs \ {d} \subseteq docs',
         Gone(NodesOn(d)), mem' = Reset(mem, d), UNCHANGED call
  PROVE  PageInv' /\ OwnersStay
<1>0. PICK m, u, S, C, D, D1, t, t2 :
        /\ m = mem /\ u = Used /\ S = NodesOn(d) /\ C = Chain(mem, d) /\ D = docs /\ D1 = docs'
        /\ t = text /\ t2 = text'
  OBVIOUS
<1>1. /\ TypeOK /\ AbsentIsBare /\ OneAllocator /\ ParentsEnd
      /\ t \in Texts /\ D \in SUBSET Document /\ page \in [Node -> Page \cup {Nil}]
      /\ u \in [Page -> Nat] /\ MemOK(m, D, u) /\ D1 \in SUBSET Document /\ D \ {d} \subseteq D1
  <2>1. text \in Texts
    BY TextsType DEF PageInv
  <2>2. Used \in [Page -> Nat]
    BY <2>1, CountsType, UsedIsUsedBy
  <2>3. MemOK(m, D, u)
    BY <1>0 DEF PageInv
  <2> QED BY <1>0, <2>1, <2>2, <2>3 DEF PageInv, TypeOK
<1>2. /\ up' = [n \in Node |-> IF n \in S THEN Nil ELSE up[n]]
      /\ page' = [n \in Node |-> IF n \in S THEN Nil ELSE page[n]]
      /\ text' = [n \in Node |-> IF n \in S THEN NoText ELSE text[n]]
      /\ doomed' = doomed /\ alloc' = alloc
  BY <1>0 DEF Gone, call
<1>3. /\ S \subseteq Exists
      /\ Exists' = Exists \ S
      /\ \A n \in Exists : n \in S <=> mem.owner[page[n]] = d
      /\ \A n \in Node : page[n] \in C <=> n \in S
      /\ \A n \in Node : text[n].size > 0 => (text[n].page \in C <=> n \in S)
      /\ \A n \in Exists \ S : page'[n] = page[n]
  BY <1>0, <1>2, Survivors
<1>4. /\ MemOK(Reset(m, d), D1, Spared(u, Chain(m, d)))
      /\ Reset(m, d).heap = m.heap \ Chain(m, d)
      /\ \A r \in Reset(m, d).heap : Reset(m, d).owner[r] = m.owner[r]
  <2>1. MayReset(m, D, u, d, D1)
    BY <1>1 DEF MayReset
  <2>2. WasReset(m, Reset(m, d), u, d, D1)
    BY <2>1, ResetKeepsOrder
  <2> QED BY <2>2 DEF WasReset
<1>5. /\ MemOK(mem, docs, Used)'
      /\ mem'.heap = m.heap \ C /\ \A r \in mem'.heap : mem'.owner[r] = m.owner[r]
      /\ t2 \in Texts
  <2>1. PICK pg, pg2, m2, u2 : pg = page /\ pg2 = page' /\ m2 = mem' /\ u2 = Used'
    OBVIOUS
  <2>2. u2 = UsedBy(pg2, t2) /\ u = UsedBy(pg, t)
    BY <1>0, <1>2, <2>1, UsedNext, UsedIsUsedBy
  <2>3. m2 = Reset(m, d) /\ C = Chain(m, d)
    BY <1>0, <2>1
  <2>4. t2 \in Texts
    BY <1>0, <1>1, <1>2 DEF Texts, NoText
  <2>5. C \in SUBSET Page /\ S \in SUBSET Node
    BY <1>3, <2>3 DEF Chain, Exists
  <2>6. /\ \A n \in Node : pg2[n] = IF n \in S THEN Nil ELSE pg[n]
        /\ \A n \in Node : t2[n] = IF n \in S THEN NoText ELSE t[n]
    BY <1>0, <1>2, <2>1
  <2>7. /\ \A n \in Node : pg[n] \in C <=> n \in S
        /\ \A n \in Node : t[n].size > 0 => (t[n].page \in C <=> n \in S)
        /\ pg \in [Node -> Page \cup {Nil}]
    BY <1>0, <1>1, <1>3, <2>1
  <2>8. UsedBy(pg2, t2) = Spared(UsedBy(pg, t), C)
    <3>1. GoneWith(pg, t, pg2, t2, S, C)
      BY <1>1, <2>4, <2>5, <2>6, <2>7 DEF GoneWith
    <3> QED BY <3>1, AllGo
  <2>9. MemOK(m2, D1, u2)
    BY <1>4, <2>2, <2>3, <2>8
  <2> QED BY <1>0, <1>4, <2>1, <2>3, <2>4, <2>9, MemoryNext
<1>6. TypeOK'
  <2>1. mem' \in Memory
    BY <1>5 DEF MemOK
  <2>2. text' \in [Node -> [page : Page \cup {Nil}, size : {0} \cup StringSize]]
    BY <1>1, <1>2 DEF TypeOK, NoText
  <2> QED BY <1>0, <1>1, <1>2, <2>1, <2>2 DEF TypeOK
<1>7. OwnersStay
  BY <1>0, <1>3, <1>5, <1>6, PlacesNext DEF OwnersStay, Exists
<1>8. AbsentIsBare'
  BY <1>1, <1>2, <1>3 DEF AbsentIsBare, NoText
<1>9. \A j \in Exists' : /\ j \in Exists /\ j \in Node /\ j \notin S /\ m.owner[page[j]] # d
                         /\ up'[j] = up[j] /\ text'[j] = text[j] /\ page'[j] = page[j]
                         /\ mem'.owner[page[j]] = m.owner[page[j]]
  BY <1>0, <1>2, <1>3, <1>5, <1>6, PlacesNext DEF Exists
<1>10. OneAllocator'
  <2> SUFFICES ASSUME NEW j \in Exists'
               PROVE  /\ text'[j].size > 0 => /\ text'[j].page # Nil
                                              /\ mem'.owner[text'[j].page] = mem'.owner[page'[j]]
                      /\ IF up'[j] = Nil THEN j \in doomed'
                         ELSE up'[j] \in (docs \cup Exists)' /\ AllocatorOf(up[j])' = mem'.owner[page'[j]]
    BY DEF OneAllocator
  <2>1. /\ text[j].size > 0 => text[j].page # Nil /\ m.owner[text[j].page] = m.owner[page[j]]
        /\ up[j] # Nil /\ up[j] \in docs \cup Exists /\ AllocatorOf(up[j]) = m.owner[page[j]]
    BY <1>0, <1>1, <1>9 DEF OneAllocator
  <2>2. up[j] \in docs => up[j] \in docs' /\ up[j] \in Document
    BY <1>0, <1>1, <1>9, <2>1, AllocatorOfWhat
  <2>3. up[j] \in Exists => up[j] \in Exists'
    BY <1>0, <1>1, <1>3, <1>9, <2>1, AllocatorOfWhat
  <2>4. AllocatorOf(up[j])' = AllocatorOf(up[j])
    BY <1>2, <1>5, <1>6, <1>7, <1>9, <2>1, <2>2, <2>3, AllocatorsStay
  <2>5. text[j].size > 0 => mem'.owner[text[j].page] = m.owner[text[j].page]
    BY <1>5, <1>6, <1>9, <2>1, PlacesNext
  <2> QED BY <1>9, <2>1, <2>2, <2>3, <2>4, <2>5
<1>11. DoomedOK'
  BY <1>2 DEF DoomedOK
<1>12. ParentsEnd'
  <2> SUFFICES ASSUME NEW T \in SUBSET Node, T # {}
               PROVE  \E k \in T : up'[k] \notin T
    BY DEF ParentsEnd
  <2>1. PICK k \in T : up[k] \notin T
    BY <1>1 DEF ParentsEnd
  <2>2. up'[k] = Nil \/ up'[k] = up[k]
    BY <1>2
  <2> QED BY <2>1, <2>2, PugiAssumption
<1> QED BY <1>5, <1>6, <1>7, <1>8, <1>10, <1>11, <1>12 DEF PageInv

(* The three that are of this kind.                                         *)
LEMMA ConstructKeeps ==
  ASSUME PageInv, NEW d \in Document, Construct(d)
  PROVE  PageInv' /\ OwnersStay
<1>1. /\ doomed = {} /\ d \notin docs /\ docs' = docs \cup {d} /\ docs \subseteq Document
      /\ mem' = Reset(mem, d) /\ UNCHANGED call
      /\ up' = up /\ page' = page /\ text' = text
  BY DEF Construct, Idle, PageInv, TypeOK
<1>2. NodesOn(d) = {}
  <2>1. PICK m, D, u : m = mem /\ D = docs /\ u = Used
    OBVIOUS
  <2>2. MemOK(m, D, u) /\ D \in SUBSET Document
    BY <2>1 DEF PageInv, TypeOK
  <2>3. Chain(m, d) = {p \in m.heap : m.owner[p] = d}
    BY <2>2, ChainIsOwned
  <2>4. Chain(m, d) = {}
    BY <1>1, <2>1, <2>2, <2>3 DEF MemOK, HeapOK, Memory
  <2> QED BY <2>1, <2>4 DEF NodesOn
<1>3. Gone(NodesOn(d))
  BY <1>1, <1>2 DEF Gone, PageInv, TypeOK
<1> QED BY <1>1, <1>3, GoneKeeps

LEMMA DestructKeeps ==
  ASSUME PageInv, NEW d \in Document, Destruct(d)
  PROVE  PageInv' /\ OwnersStay
<1>1. /\ doomed = {} /\ docs' \in SUBSET Document /\ docs \ {d} \subseteq docs'
      /\ mem' = Reset(mem, d) /\ UNCHANGED call /\ Gone(NodesOn(d))
  BY DEF Destruct, Idle, PageInv, TypeOK
<1> QED BY <1>1, GoneKeeps

LEMMA ResetDocumentKeeps ==
  ASSUME PageInv, NEW d \in Document, ResetDocument(d)
  PROVE  PageInv' /\ OwnersStay
<1>1. /\ doomed = {} /\ docs' \in SUBSET Document /\ docs \ {d} \subseteq docs'
      /\ mem' = Reset(mem, d) /\ UNCHANGED call /\ Gone(NodesOn(d))
  BY DEF ResetDocument, Idle, PageInv, TypeOK
<1> QED BY <1>1, GoneKeeps

(* A document that is moved takes its nodes along.                          *)
OwnersMove(from, to) ==
  \A n \in Exists : page'[n] # Nil =>
    /\ page'[n] = page[n]
    /\ mem'.owner[page[n]] = IF mem.owner[page[n]] = from THEN to ELSE mem.owner[page[n]]

(* What was in the new document is gone, and what was in the old one is in  *)
(* the new one.                                                             *)
LEMMA MoveDocumentKeeps ==
  ASSUME PageInv, NEW from \in Document, NEW to \in Document,
         mem.root[from] # from, MoveDocument(from, to)
  PROVE  PageInv' /\ OwnersMove(from, to)
<1>0. PICK m, m1, u, S, C, D, t, t2 :
        /\ m = mem /\ m1 = Reset(mem, to) /\ u = Used /\ S = NodesOn(to) /\ C = Chain(mem, to)
        /\ D = docs /\ t = text /\ t2 = text'
  OBVIOUS
<1>1. /\ TypeOK /\ AbsentIsBare /\ OneAllocator /\ ParentsEnd
      /\ t \in Texts /\ D \in SUBSET Document /\ page \in [Node -> Page \cup {Nil}]
      /\ u \in [Page -> Nat] /\ MemOK(m, D, u)
  <2>1. text \in Texts
    BY TextsType DEF PageInv
  <2>2. Used \in [Page -> Nat]
    BY <2>1, CountsType, UsedIsUsedBy
  <2>3. MemOK(m, D, u)
    BY <1>0 DEF PageInv
  <2> QED BY <1>0, <2>1, <2>2, <2>3 DEF PageInv, TypeOK
<1>2. /\ up' = [n \in Node |-> IF n \in S THEN Nil ELSE IF up[n] = from THEN to ELSE up[n]]
      /\ page' = [n \in Node |-> IF n \in S THEN Nil ELSE page[n]]
      /\ text' = [n \in Node |-> IF n \in S THEN NoText ELSE text[n]]
      /\ doomed = {} /\ doomed' = {} /\ alloc' = alloc
      /\ from \in docs /\ from # to /\ docs' = docs \cup {to}
      /\ mem' = Moved(m1, from, to)
  BY <1>0 DEF MoveDocument, call, Idle
<1>3. /\ S \subseteq Exists
      /\ Exists' = Exists \ S
      /\ \A n \in Exists : n \in S <=> mem.owner[page[n]] = to
      /\ \A n \in Node : page[n] \in C <=> n \in S
      /\ \A n \in Node : text[n].size > 0 => (text[n].page \in C <=> n \in S)
      /\ \A n \in Exists \ S : page'[n] = page[n]
  BY <1>0, <1>2, Survivors
<1>4. /\ MemOK(m1, D, Spared(u, C))
      /\ m1.heap = m.heap \ C
      /\ \A r \in m1.heap : m1.owner[r] = m.owner[r]
      /\ m1.root[from] # from /\ m1.root[to] = to
  <2>1. MayReset(m, D, u, to, D) /\ m1 = Reset(m, to) /\ C = Chain(m, to)
    BY <1>0, <1>1 DEF MayReset
  <2>2. WasReset(m, m1, u, to, D)
    BY <2>1, ResetKeepsOrder
  <2>3. m1.root = [m.root EXCEPT ![to] = to] /\ m.root \in [Document -> Block] /\ m.root[from] # from
    BY <1>0, <1>1, <2>2 DEF WasReset, MemOK, Memory
  <2>4. m1.root[from] # from /\ m1.root[to] = to
    BY <1>2, <2>3
  <2> QED BY <2>1, <2>2, <2>4 DEF WasReset
<1>5. /\ MemOK(mem, docs, Used)'
      /\ mem'.heap = m.heap \ C
      /\ \A r \in mem'.heap : mem'.owner[r] = IF m.owner[r] = from THEN to ELSE m.owner[r]
      /\ t2 \in Texts
  <2>1. PICK pg, pg2, m2, u2 : pg = page /\ pg2 = page' /\ m2 = mem' /\ u2 = Used'
    OBVIOUS
  <2>2. u2 = UsedBy(pg2, t2) /\ u = UsedBy(pg, t)
    BY <1>0, <1>2, <2>1, UsedNext, UsedIsUsedBy
  <2>3. t2 \in Texts
    BY <1>0, <1>1, <1>2 DEF Texts, NoText
  <2>4. C \in SUBSET Page /\ S \in SUBSET Node
    BY <1>0, <1>3 DEF Chain, Exists
  <2>5. GoneWith(pg, t, pg2, t2, S, C)
    <3>1. /\ \A n \in Node : pg2[n] = IF n \in S THEN Nil ELSE pg[n]
          /\ \A n \in Node : t2[n] = IF n \in S THEN NoText ELSE t[n]
      BY <1>0, <1>2, <2>1
    <3>2. /\ \A n \in Node : pg[n] \in C <=> n \in S
          /\ \A n \in Node : t[n].size > 0 => (t[n].page \in C <=> n \in S)
          /\ pg \in [Node -> Page \cup {Nil}]
      BY <1>0, <1>1, <1>3, <2>1
    <3> QED BY <1>1, <2>3, <2>4, <3>1, <3>2 DEF GoneWith
  <2>6. UsedBy(pg2, t2) = Spared(UsedBy(pg, t), C)
    BY <2>5, AllGo
  <2>7. MemOK(m1, D, u2)
    BY <1>4, <2>2, <2>6
  <2>8. MayMove(m1, D, u2, from, to)
    BY <1>0, <1>1, <1>2, <1>4, <2>7 DEF MayMove
  <2>9. WasMoved(m1, m2, D, u2, from, to)
    BY <1>2, <2>1, <2>8, MoveKeepsOrder
  <2>10. MemOK(m2, D \cup {to}, u2)
    BY <2>9 DEF WasMoved
  <2>11. /\ m2.heap = m.heap \ C
         /\ \A r \in m2.heap : m2.owner[r] = IF m.owner[r] = from THEN to ELSE m.owner[r]
    BY <1>4, <2>9 DEF WasMoved
  <2> QED BY <1>0, <1>2, <2>1, <2>3, <2>10, <2>11, MemoryNext
<1>6. TypeOK'
  <2>1. mem' \in Memory
    BY <1>5 DEF MemOK
  <2>2. text' \in [Node -> [page : Page \cup {Nil}, size : {0} \cup StringSize]]
    BY <1>1, <1>2 DEF TypeOK, NoText
  <2>3. up' \in [Node -> Inner \cup {Nil}]
    BY <1>1, <1>2 DEF TypeOK, Inner
  <2> QED BY <1>0, <1>1, <1>2, <2>1, <2>2, <2>3 DEF TypeOK
<1>7. OwnersMove(from, to)
  BY <1>0, <1>3, <1>5, <1>6, PlacesNext DEF OwnersMove, Exists
<1>8. AbsentIsBare'
  <2> SUFFICES ASSUME NEW j \in Node \ Exists' PROVE up'[j] = Nil /\ text'[j].size = 0
    BY DEF AbsentIsBare
  <2>1. CASE j \in S
    BY <1>2, <2>1 DEF NoText
  <2>2. CASE j \notin S
    <3>1. up[j] = Nil /\ text[j].size = 0
      BY <1>1, <1>3, <2>2 DEF AbsentIsBare
    <3>2. from # Nil
      BY PugiAssumption DEF Block
    <3> QED BY <1>2, <2>2, <3>1, <3>2
  <2> QED BY <2>1, <2>2
<1>9. \A j \in Exists' : /\ j \in Exists /\ j \in Node /\ j \notin S /\ m.owner[page[j]] # to
                         /\ up'[j] = IF up[j] = from THEN to ELSE up[j]
                         /\ text'[j] = text[j] /\ page'[j] = page[j]
                         /\ mem'.owner[page[j]] = IF m.owner[page[j]] = from THEN to ELSE m.owner[page[j]]
  <2> SUFFICES ASSUME NEW j \in Exists'
               PROVE  /\ j \in Exists /\ j \in Node /\ j \notin S /\ m.owner[page[j]] # to
                      /\ up'[j] = IF up[j] = from THEN to ELSE up[j]
                      /\ text'[j] = text[j] /\ page'[j] = page[j]
                      /\ mem'.owner[page[j]] = IF m.owner[page[j]] = from THEN to ELSE m.owner[page[j]]
    OBVIOUS
  <2>1. j \in Exists /\ j \in Node /\ j \notin S /\ m.owner[page[j]] # to /\ page'[j] = page[j]
    BY <1>0, <1>3 DEF Exists
  <2>2. page[j] \in mem'.heap
    BY <1>5, <1>6, <2>1, PlacesNext
  <2> QED BY <1>2, <1>5, <2>1, <2>2
<1>10. OneAllocator'
  <2> SUFFICES ASSUME NEW j \in Exists'
               PROVE  /\ text'[j].size > 0 => /\ text'[j].page # Nil
                                              /\ mem'.owner[text'[j].page] = mem'.owner[page'[j]]
                      /\ IF up'[j] = Nil THEN j \in doomed'
                         ELSE up'[j] \in (docs \cup Exists)' /\ AllocatorOf(up[j])' = mem'.owner[page'[j]]
    BY DEF OneAllocator
  <2>1. /\ text[j].size > 0 => text[j].page # Nil /\ m.owner[text[j].page] = m.owner[page[j]]
        /\ up[j] # Nil /\ up[j] \in docs \cup Exists /\ AllocatorOf(up[j]) = m.owner[page[j]]
    BY <1>0, <1>1, <1>2, <1>9 DEF OneAllocator
  <2>2. PICK y, z : y = up[j] /\ z = up'[j]
    OBVIOUS
  <2>3. /\ \A k \in Document : AllocatorOf(k)' = k
        /\ \A k \in Exists' : AllocatorOf(k)' = mem'.owner[page'[k]]
    BY <1>5, <1>6, PlacesNext
  <2>4. ASSUME y \in docs
        PROVE  up'[j] # Nil /\ up'[j] \in docs' \cup Exists' /\ AllocatorOf(up[j])' = mem'.owner[page'[j]]
    <3>1. AllocatorOf(y) = y /\ y = m.owner[page[j]] /\ y \in Document
      BY <1>0, <1>1, <2>1, <2>2, <2>4, AllocatorOfWhat
    <3>2. z = IF y = from THEN to ELSE y
      BY <1>9, <2>2
    <3>3. z \in docs' /\ z \in Document
      BY <1>2, <2>4, <3>1, <3>2
    <3>4. AllocatorOf(z)' = z
      BY <2>3, <3>3
    <3>5. z = mem'.owner[page'[j]]
      BY <1>9, <3>1, <3>2
    <3>6. z # Nil
      BY <3>3, PugiAssumption DEF Block
    <3> QED BY <2>2, <3>3, <3>4, <3>5, <3>6
  <2>5. ASSUME y \in Exists
        PROVE  up'[j] # Nil /\ up'[j] \in docs' \cup Exists' /\ AllocatorOf(up[j])' = mem'.owner[page'[j]]
    <3>1. AllocatorOf(y) = m.owner[page[y]] /\ y \in Node /\ m.owner[page[y]] = m.owner[page[j]]
      BY <1>0, <1>1, <2>1, <2>2, <2>5, AllocatorOfWhat DEF Exists
    <3>2. y \in Exists'
      BY <1>0, <1>3, <1>9, <2>5, <3>1
    <3>3. y # from /\ z = y
      BY <1>9, <2>2, <3>1, PugiAssumption
    <3>4. AllocatorOf(z)' = mem'.owner[page'[y]]
      BY <2>3, <3>2, <3>3
    <3>5. mem'.owner[page'[y]] = mem'.owner[page'[j]]
      BY <1>9, <3>1, <3>2
    <3>6. z # Nil
      BY <3>1, <3>3, PugiAssumption
    <3> QED BY <2>2, <3>2, <3>3, <3>4, <3>5, <3>6
  <2>6. /\ up'[j] # Nil /\ up'[j] \in docs' \cup Exists'
        /\ AllocatorOf(up[j])' = mem'.owner[page'[j]]
    BY <2>1, <2>2, <2>4, <2>5
  <2>7. ASSUME text'[j].size > 0
        PROVE  text'[j].page # Nil /\ mem'.owner[text'[j].page] = mem'.owner[page'[j]]
    <3>1. /\ text[j].page # Nil /\ text'[j].page = text[j].page
          /\ m.owner[text[j].page] = m.owner[page[j]]
      BY <1>9, <2>1, <2>7
    <3>2. text[j].page \in mem'.heap
      BY <1>5, <1>6, <1>9, <2>7, <3>1, PlacesNext
    <3>3. mem'.owner[text[j].page] = IF m.owner[page[j]] = from THEN to ELSE m.owner[page[j]]
      BY <1>5, <3>1, <3>2
    <3> QED BY <1>9, <3>1, <3>3
  <2> QED BY <2>6, <2>7
<1>11. DoomedOK'
  BY <1>2 DEF DoomedOK
<1>12. ParentsEnd'
  <2> SUFFICES ASSUME NEW T \in SUBSET Node, T # {}
               PROVE  \E k \in T : up'[k] \notin T
    BY DEF ParentsEnd
  <2>1. PICK k \in T : up[k] \notin T
    BY <1>1 DEF ParentsEnd
  <2>2. up'[k] \in {Nil, to, up[k]}
    BY <1>2
  <2> QED BY <2>1, <2>2, PugiAssumption
<1> QED BY <1>5, <1>6, <1>7, <1>8, <1>10, <1>11, <1>12 DEF PageInv

-----------------------------------------------------------------------------
(***************************************************************************)
(* The invariant, and what follows                                          *)
(***************************************************************************)

(* At first there is nothing.                                               *)
LEMMA InvariantAtFirst == Init => PageInv
<1> SUFFICES ASSUME Init PROVE PageInv
  OBVIOUS
<1>1. /\ Exists = {} /\ docs = {} /\ doomed = {} /\ Nil \notin Page
      /\ Document \subseteq Block /\ Page \subseteq Block /\ PageSize \in Nat
  BY PugiAssumption DEF Init, Exists, Block
<1>2. mem \in Memory
  BY <1>1 DEF Init, Memory
<1>3. TypeOK
  <2>1. text \in [Node -> [page : Page \cup {Nil}, size : {0} \cup StringSize]]
    BY DEF Init, NoText
  <2> QED BY <1>2, <2>1 DEF Init, TypeOK
<1>4. AbsentIsBare
  BY DEF Init, AbsentIsBare, NoText
<1>5. OneAllocator /\ DoomedOK
  BY <1>1 DEF OneAllocator, DoomedOK
<1>6. ParentsEnd
  BY PugiAssumption DEF Init, ParentsEnd
<1>7. ASSUME NEW r \in Page PROVE Used[r] = 0
  <2>1. PICK t, pg : t = text /\ pg = page
    OBVIOUS
  <2>2. t \in Texts
    BY <1>3, <2>1, TextsType
  <2>3. NodesOf(pg, r) = {}
    BY <1>1, <2>1 DEF Init, NodesOf
  <2>4. UnitsOf(t, r) = {}
    <3>1. ASSUME NEW n \in Node PROVE t[n].page # r
      BY <1>1, <2>1 DEF Init, NoText
    <3> QED BY <3>1, UnitOf
  <2>5. Cardinality(NodesOf(pg, r)) = 0 /\ Cardinality(UnitsOf(t, r)) = 0
    BY <2>3, <2>4, FS_EmptySet
  <2>6. Used = UsedBy(pg, t)
    BY <2>1, UsedIsUsedBy
  <2>7. UsedBy(pg, t)[r] = 0 + 0
    BY <2>5 DEF UsedBy
  <2> QED BY <2>6, <2>7
<1>8. HeapOK(mem, docs)
  BY <1>1 DEF Init, HeapOK
<1>9. RootsOK(mem)
  BY <1>1 DEF Init, RootsOK
<1>10. LinksOK(mem)
  <2>1. mem.heap = {} /\ \A d \in Document : mem.prev[d] = Nil /\ mem.next[d] = Nil /\ mem.root[d] = d
    BY <1>1 DEF Init
  <2> QED BY <2>1 DEF LinksOK, Allocator
<1>11. LinksEnd(mem)
  <2>1. \A p \in Page : mem.prev[p] = Nil
    BY <1>1 DEF Init
  <2> QED BY <1>1, <2>1 DEF LinksEnd
<1>12. SizesOK(mem, Used)
  <2>1. mem.heap = {}
    BY DEF Init
  <2> QED BY <1>7, <2>1 DEF SizesOK
<1> QED BY <1>2, <1>3, <1>4, <1>5, <1>6, <1>8, <1>9, <1>10, <1>11, <1>12 DEF MemOK, PageInv

(* Where the nodes of one document are after a step: in one document.       *)
KeptTogether ==
  \A d \in docs : \E e : \A n \in Exists :
    mem.owner[page[n]] = d /\ page'[n] # Nil => page'[n] = page[n] /\ mem'.owner[page[n]] = e

(* The steps of a careful caller, one by one.                               *)
LEMMA StepKeeps ==
  ASSUME PageInv, CarefulNext
  PROVE  PageInv' /\ KeptTogether
<1>1. OwnersStay => KeptTogether
  BY DEF OwnersStay, KeptTogether
<1>2. ASSUME NEW from \in Document, NEW to \in Document, OwnersMove(from, to) PROVE KeptTogether
  <2>1. ASSUME NEW d \in docs
        PROVE  \E e : \A n \in Exists :
                 mem.owner[page[n]] = d /\ page'[n] # Nil => page'[n] = page[n] /\ mem'.owner[page[n]] = e
    <3>1. PICK e : e = IF d = from THEN to ELSE d
      OBVIOUS
    <3>2. \A n \in Exists :
            mem.owner[page[n]] = d /\ page'[n] # Nil => page'[n] = page[n] /\ mem'.owner[page[n]] = e
      BY <1>2, <3>1 DEF OwnersMove
    <3> QED BY <3>2
  <2> QED BY <2>1 DEF KeptTogether
<1>3. ASSUME NEW n \in Node, NEW q \in Page, NEW x \in Inner, AppendChild(x, n, q)
      PROVE  PageInv' /\ KeptTogether
  BY <1>1, <1>3, AppendChildKeeps
<1>4. ASSUME NEW n \in Node, NEW q \in Page, NEW k \in StringSize, SetString(n, k, q)
      PROVE  PageInv' /\ KeptTogether
  BY <1>1, <1>4, SetStringKeeps
<1>5. ASSUME NEW n \in Node, ClearString(n) PROVE PageInv' /\ KeptTogether
  BY <1>1, <1>5, ClearStringKeeps
<1>6. ASSUME NEW n \in Node, RemoveChild(n) PROVE PageInv' /\ KeptTogether
  BY <1>1, <1>6, RemoveChildKeeps
<1>7. ASSUME NEW n \in Node, DestroyString(n) PROVE PageInv' /\ KeptTogether
  BY <1>1, <1>7, DestroyStringKeeps
<1>8. ASSUME NEW n \in Node, DestroyNode(n) PROVE PageInv' /\ KeptTogether
  BY <1>1, <1>8, DestroyNodeKeeps
<1>9. ASSUME NEW x \in Inner, RemoveChildren(x) PROVE PageInv' /\ KeptTogether
  BY <1>1, <1>9, RemoveChildrenKeeps
<1>10. ASSUME NEW x \in Inner, NEW n \in Node, AppendMove(x, n) PROVE PageInv' /\ KeptTogether
  BY <1>1, <1>10, AppendMoveKeeps
<1>11. ASSUME NEW d \in Document, Construct(d) PROVE PageInv' /\ KeptTogether
  BY <1>1, <1>11, ConstructKeeps
<1>12. ASSUME NEW d \in Document, Destruct(d) PROVE PageInv' /\ KeptTogether
  BY <1>1, <1>12, DestructKeeps
<1>13. ASSUME NEW d \in Document, ResetDocument(d) PROVE PageInv' /\ KeptTogether
  BY <1>1, <1>13, ResetDocumentKeeps
<1>14. ASSUME NEW from \in Document, NEW to \in Document, mem.root[from] # from, MoveDocument(from, to)
       PROVE  PageInv' /\ KeptTogether
  BY <1>2, <1>14, MoveDocumentKeeps
<1>15. CASE Editing
  BY <1>3, <1>4, <1>5, <1>6, <1>7, <1>8, <1>9, <1>10, <1>15 DEF Editing
<1>16. CASE \E d \in Document : Construct(d) \/ Destruct(d) \/ ResetDocument(d)
  BY <1>11, <1>12, <1>13, <1>16
<1>17. CASE \E from, to \in Document : mem.root[from] # from /\ MoveDocument(from, to)
  BY <1>14, <1>17
<1> QED BY <1>15, <1>16, <1>17 DEF CarefulNext

(* A step in which nothing changes.                                         *)
LEMMA StutterKeeps ==
  ASSUME PageInv, UNCHANGED vars
  PROVE  PageInv' /\ KeptTogether
<1>1. /\ docs' = docs /\ up' = up /\ page' = page /\ text' = text /\ mem' = mem
      /\ doomed' = doomed /\ alloc' = alloc
  BY DEF vars
<1>2. /\ MemOK(mem, docs, Used)' /\ OwnersStay /\ Exists' = Exists
      /\ \A k \in Document \cup Exists : AllocatorOf(k)' = AllocatorOf(k)
  BY <1>1, MemoryStays
<1>3. TypeOK' /\ AbsentIsBare' /\ DoomedOK' /\ ParentsEnd'
  BY <1>1, <1>2 DEF PageInv, TypeOK, AbsentIsBare, DoomedOK, ParentsEnd
<1>4. OneAllocator'
  BY <1>1, <1>2 DEF PageInv, TypeOK, OneAllocator
<1>5. KeptTogether
  BY <1>2 DEF OwnersStay, KeptTogether
<1> QED BY <1>2, <1>3, <1>4, <1>5 DEF PageInv

(* The memory of every document is always in order: each page is linked     *)
(* into the chain of the document that owns it, its sizes give what lives   *)
(* on it, every node and string is on pages of its document, and what a     *)
(* call destroys goes back to the allocator it came from; provided that no  *)
(* document is moved from which nothing was allocated (CarefulSpec).        *)
THEOREM MemoryStaysInOrder == CarefulSpec => []PageInv
<1>1. PageInv /\ [CarefulNext]_vars => PageInv'
  BY StepKeeps, StutterKeeps
<1> QED BY InvariantAtFirst, <1>1, PTL DEF CarefulSpec

(* The two sizes of a page say what is left on it, every page is found from *)
(* its document, and the pages are linked both ways (pugixml.cpp:595-730).  *)
THEOREM SizesAndChainsHold == CarefulSpec => []MemoryInv
<1>1. PageInv => MemoryInv
  BY InvariantIsEnough
<1> QED BY MemoryStaysInOrder, <1>1, PTL

(* A node and its string are on pages of the document the node is in,       *)
(* through moves of nodes and of documents from which something was         *)
(* allocated; so the allocator found through the page, or passed down in    *)
(* destroy_node, is the right one (pugixml.cpp:1156, 1202, 4364, 7105).     *)
(* Without that restriction it is false of the code (line 7079).            *)
THEOREM NodesStayOnOwnPages == CarefulSpec => []NodesOnOwnPages
<1>1. PageInv => NodesOnOwnPages
  BY InvariantIsEnough
<1> QED BY MemoryStaysInOrder, <1>1, PTL

(* Nodes of one document that outlive a step are in one document after it,  *)
(* as long as no document is moved from which nothing was allocated.        *)
THEOREM NodesMoveTogether == CarefulSpec => DocumentsMoveWhole
<1> DEFINE Step == \A d \in docs :
                     LET kept == Below(d) \cap (Exists \ doomed)' IN
                     kept # {} => \E e \in docs' : kept \subseteq Below(e)'
<1>1. ASSUME PageInv, PageInv', KeptTogether PROVE Step
  <2> SUFFICES ASSUME NEW d \in docs, NEW x, x \in Below(d) \cap (Exists \ doomed)'
               PROVE  \E e \in docs' : Below(d) \cap (Exists \ doomed)' \subseteq Below(e)'
    OBVIOUS
  <2>1. \A n \in Below(d) : n \in Exists /\ mem.owner[page[n]] = d
    <3>1. d \in Inner /\ AllocatorOf(d) = d
      BY <1>1, AllocatorOfWhat DEF PageInv, TypeOK, Inner
    <3>2. \A n \in Below(d) : n \in Exists /\ AllocatorOf(n) = AllocatorOf(d)
      BY <1>1, <3>1, BelowIs DEF PageInv
    <3> QED BY <1>1, <3>1, <3>2, AllocatorOfWhat DEF PageInv
  <2>2. PICK e : \A n \in Exists :
          mem.owner[page[n]] = d /\ page'[n] # Nil => page'[n] = page[n] /\ mem'.owner[page[n]] = e
    BY <1>1 DEF KeptTogether
  <2>3. \A n \in Exists' : mem'.owner[page'[n]] \in docs' /\ page'[n] # Nil
    BY <1>1, PlacesNext, PugiAssumption DEF PageInv, Block
  <2>4. \A n \in Below(d) \cap (Exists \ doomed)' : mem'.owner[page'[n]] = e
    BY <2>1, <2>2, <2>3
  <2>5. e \in docs'
    BY <2>3, <2>4
  <2>7. \A n \in Below(d) \cap (Exists \ doomed)' : n \in Below(e)'
    BY <1>1, <2>4, InItsDocumentNext
  <2> QED BY <2>5, <2>7
<1>2. PageInv /\ [CarefulNext]_vars => Step
  BY <1>1, StepKeeps, StutterKeeps
<1>3. PageInv /\ [CarefulNext]_vars => [Step]_vars
  BY <1>2
<1> HIDE DEF Step
<1>4. CarefulSpec => [][Step]_vars
  BY <1>3, MemoryStaysInOrder, PTL DEF CarefulSpec
<1> QED BY <1>4 DEF Step, DocumentsMoveWhole

=============================================================================
