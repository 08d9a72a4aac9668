------------------------------ MODULE XercesPool ------------------------------
(***************************************************************************)
(* The memory of one Xerces-C document: DOMDocumentImpl hands out pieces of *)
(* heap blocks and keeps large pieces in blocks of their own; the cells of  *)
(* released nodes and the buffers of released texts wait to be used again.  *)
(* Everything the adapter's elements and the documents of TestXerces are    *)
(* made of lies here.                                                       *)
(*                                                                          *)
(* Elements and texts stand for the kinds of nodes: attributes and comments *)
(* take cells and buffers the same way. Which node is below which is the    *)
(* matter of XercesDocument, where releasing a tree is a sequence of the    *)
(* releases here. The memory manager can run out: it throws when all of     *)
(* Block is given out. The stacks of released cells and buffers come from   *)
(* the memory manager too, and are always had.                              *)
(***************************************************************************)
EXTENDS Integers, SequencesExt

CONSTANTS
  Node,         (* addresses of node objects                                *)
  Buffer,       (* addresses of DOMBuffer objects                           *)
  Name,         (* element names                                            *)
  Block,        (* what the memory manager can give                         *)
  Nil,          (* the null pointer                                         *)
  Length,       (* lengths of strings passed by callers, in characters      *)
  MaxLength,    (* bound: no text gets longer                               *)
  BlockSize,    (* sizes callers ask for with setMemoryAllocationBlockSize  *)
  Alignment,    (* XML_PLATFORM_NEW_BLOCK_ALIGNMENT                         *)
  PointerSize, TableSize, ElementSize, TextSize, MapSize, EntrySize, BufferSize,
                (* sizeof of a pointer, the name table, DOMElementImpl,     *)
                (* DOMTextImpl, DOMAttrMapImpl, a name's entry, DOMBuffer   *)
  Slack,        (* what a new buffer has beyond its text, 15 in the code    *)
  InitialHeapAllocSize, MaxHeapAllocSize, MaxSubAllocationSize,
  WordSize      (* 2 to the width of XMLSize_t                              *)

CharSize == 2   \* sizeof(XMLCh)

(* alignPointerForNewBlockAllocation.                                       *)
Aligned(k) == IF k % Alignment = 0 THEN k ELSE k + Alignment - (k % Alignment)

Header == Aligned(PointerSize)

Kind == {"element", "text"}   \* what a node can be

ASSUME PoolAssumption ==
  /\ Nil \notin Block \cup Buffer \cup Kind
  /\ Length \subseteq Nat /\ BlockSize \subseteq Nat
  /\ {MaxLength, Slack, InitialHeapAllocSize, MaxHeapAllocSize, MaxSubAllocationSize} \subseteq Nat
  /\ {Alignment, PointerSize, TableSize, ElementSize, TextSize, MapSize, EntrySize, BufferSize,
      WordSize} \subseteq Nat \ {0}
  /\ Slack > 0
  /\ WordSize > Header /\ WordSize > MaxSubAllocationSize
  /\ Block # {}

VARIABLES
  pool,         (* blocks and pieces, see Pool                              *)
  kind,         (* what lives in a node's cell                              *)
  buf,          (* DOMCharacterDataImpl::fDataBuf of a text                 *)
  text,         (* fCapacity and fIndex of a buffer                         *)
  waiting,      (* fRecycleNodePtr: the cells of released nodes             *)
  spare,        (* fRecycleBufferPtr: the buffers of released texts         *)
  handed,       (* history: the blocks with strings a node gave its user    *)
  document      (* "live" or "released"                                     *)

vars == <<pool, kind, buf, text, waiting, spare, handed, document>>

(* The pointers that pieces of memory hang on: a node's this, fAttributes   *)
(* and fDefaultAttributes, a buffer's this and fBuffer, the entries of the  *)
(* name table, and fNameTable.                                              *)
Cell(n) == <<"cell", n>>
Attributes(n) == <<"attributes", n>>
Defaults(n) == <<"defaults", n>>
Object(b) == <<"object", b>>
Data(b) == <<"data", b>>
Entry(a) == <<"entry", a>>
NameTable == <<"table", Nil>>

Slot ==
  (UNION {{Cell(n), Attributes(n), Defaults(n)} : n \in Node})
    \cup (UNION {{Object(b), Data(b)} : b \in Buffer})
    \cup {Entry(a) : a \in Name} \cup {NameTable}

NoPiece == [block |-> Nil, at |-> 0, size |-> 0]
Piece == [block : Block, at : Nat, size : Nat]

Pool ==
  [taken   : SUBSET Block,                    \* given by the memory manager
   size    : [Block -> Nat],
   heap    : Seq(Block),                      \* fCurrentBlock and its links
   singles : Seq(Block),                      \* fCurrentSingletonBlock
   at      : Nat,                             \* fFreePtr
   left    : Nat,                             \* fFreeBytesRemaining
   next    : Nat,                             \* fHeapAllocSize
   piece   : [Slot -> Piece \cup {NoPiece}]]

TypeOK ==
  /\ pool \in Pool
  /\ kind \in [Node -> Kind \cup {Nil}]
  /\ buf \in [Node -> Buffer \cup {Nil}]
  /\ text \in [Buffer -> [cap : Nat, len : Nat]]
  /\ waiting \in [Kind -> Seq(Node)]
  /\ spare \in Seq(Buffer)
  /\ handed \in [Node -> SUBSET Block]
  /\ document \in {"live", "released"}

-----------------------------------------------------------------------------
(***************************************************************************)
(* DOMDocumentImpl::allocate, and release of a piece                        *)
(***************************************************************************)

Has(p, s) == p.piece[s] # NoPiece

NewBlock(p) == CHOOSE b \in Block \ p.taken : TRUE

(* Fault: the new block is linked in, and the old ones are not.             *)
LinkedAlone(list, b) == IF list = <<>> THEN <<b>> ELSE <<Head(list), b>>

(* "Link it into the list beyond current block".                            *)
LinkedBeyond(list, b) == IF list = <<>> THEN <<b>> ELSE InsertAt(list, 2, b)

(* A largish piece, which has a block of its own.                           *)
Singleton(p, s, k) ==
  LET b == NewBlock(p) IN
  [p EXCEPT !.taken = @ \cup {b},
            !.size[b] = Header + k,
            !.singles = LinkedBeyond(@, b),
            !.piece[s] = [block |-> b, at |-> Header, size |-> k]]

(* XMLSize_t is unsigned.                                                   *)
Minus(x, y) == IF y <= x THEN x - y ELSE x - y + WordSize

(* Fault: the header is not taken off what is free.                         *)
ExtendedByAll(p) ==
  LET b == NewBlock(p) IN
  [p EXCEPT !.taken = @ \cup {b},
            !.size[b] = p.next,
            !.heap = <<b>> \o @,
            !.at = Header,
            !.left = p.next,
            !.next = IF @ < MaxHeapAllocSize THEN 2 * @ ELSE @]

(* A new current block; the next one will be twice as large. A block that   *)
(* was asked for with a size just above MaxSubAllocationSize may be too     *)
(* small, with its header, for the request it is made for.                  *)
Extended(p) ==
  LET b == NewBlock(p) IN
  [p EXCEPT !.taken = @ \cup {b},
            !.size[b] = p.next,
            !.heap = <<b>> \o @,
            !.at = Header,
            !.left = Minus(p.next, Header),
            !.next = IF @ < MaxHeapAllocSize THEN 2 * @ ELSE @]

(* Fault: the free part is cut, and its start stays.                        *)
SubdividedInPlace(p, s, k) ==
  [p EXCEPT !.left = Minus(@, k),
            !.piece[s] = [block |-> Head(p.heap), at |-> p.at, size |-> k]]

Subdivided(p, s, k) ==
  [p EXCEPT !.at = @ + k,
            !.left = Minus(@, k),
            !.piece[s] = [block |-> Head(p.heap), at |-> p.at, size |-> k]]

Allocate(p, s, amount) ==
  LET k == Aligned(amount) IN
  IF k > MaxSubAllocationSize THEN Singleton(p, s, k)
  ELSE Subdivided(IF k > p.left THEN Extended(p) ELSE p, s, k)

(* Otherwise the memory manager throws OutOfMemoryException.                *)
CanAllocate(p, amount) ==
  \/ p.taken # Block
  \/ Aligned(amount) <= MaxSubAllocationSize /\ Aligned(amount) <= p.left

(* A piece that may be there already: the cell of a released node, the      *)
(* entry of a name that has been used before.                               *)
Given(p, s, amount) == IF Has(p, s) THEN p ELSE Allocate(p, s, amount)
CanGive(p, s, amount) == Has(p, s) \/ CanAllocate(p, amount)

(* Nothing points to these pieces any more; they are not used again.        *)
Lost(p, S) == [p EXCEPT !.piece = [s \in Slot |-> IF s \in S THEN NoPiece ELSE p.piece[s]]]

(* release of a piece: only a block with one piece in it goes back.         *)
Released(p, piece) ==
  IF piece.block \in ToSet(p.singles) /\ piece.at = Header
  THEN [p EXCEPT !.taken = @ \ {piece.block},
                 !.singles = RemoveFirst(@, piece.block)]
  ELSE p

-----------------------------------------------------------------------------
(***************************************************************************)
(* Documents and elements                                                   *)
(***************************************************************************)

NoBlocks ==
  [taken |-> {}, size |-> [b \in Block |-> 0], heap |-> <<>>, singles |-> <<>>,
   at |-> 0, left |-> 0, next |-> InitialHeapAllocSize, piece |-> [s \in Slot |-> NoPiece]]

(* createDocument: the constructor allocates the name table.                *)
Init ==
  /\ pool = Allocate(NoBlocks, NameTable, TableSize)
  /\ kind = [n \in Node |-> Nil]
  /\ buf = [n \in Node |-> Nil]
  /\ text = [b \in Buffer |-> [cap |-> 0, len |-> 0]]
  /\ waiting = [k \in Kind |-> <<>>]
  /\ spare = <<>>
  /\ handed = [n \in Node |-> {}]
  /\ document = "live"

(* Where operator new puts a node of kind k: into the cell that was         *)
(* released last, or into new memory.                                       *)
IsNext(n, k) ==
  IF waiting[k] = <<>> THEN kind[n] = Nil /\ ~Has(pool, Cell(n)) ELSE n = Last(waiting[k])

TakeCell(k) ==
  waiting' = IF waiting[k] = <<>> THEN waiting ELSE [waiting EXCEPT ![k] = Front(@)]

(* A new element takes its cell, the entry of its name and two attribute    *)
(* maps, in this order: the pool after the first i of these.                *)
AfterPieces(n, a, i) ==
  LET p1 == Given(pool, Cell(n), ElementSize)
      p2 == Given(p1, Entry(a), EntrySize)
      p3 == Given(p2, Defaults(n), MapSize) IN
  CASE i = 0 -> pool
    [] i = 1 -> p1
    [] i = 2 -> p2
    [] i = 3 -> p3
    [] i = 4 -> Given(p3, Attributes(n), MapSize)

(* Memory suffices for the first i.                                         *)
RoomForPieces(n, a, i) ==
  /\ i >= 1 => CanGive(pool, Cell(n), ElementSize)
  /\ i >= 2 => CanGive(AfterPieces(n, a, 1), Entry(a), EntrySize)
  /\ i >= 3 => CanGive(AfterPieces(n, a, 2), Defaults(n), MapSize)
  /\ i >= 4 => CanGive(AfterPieces(n, a, 3), Attributes(n), MapSize)

CreateElement(n, a) ==
  /\ document = "live"
  /\ IsNext(n, "element")
  /\ RoomForPieces(n, a, 4)
  /\ pool' = AfterPieces(n, a, 4)
  /\ kind' = [kind EXCEPT ![n] = "element"]
  /\ TakeCell("element")
  /\ UNCHANGED <<buf, text, spare, handed, document>>

(* "memory will not be freed if initialization throws": the cell and the    *)
(* maps are lost, the name stays in the table.                              *)
CreateElementThrows(n, a, i) ==
  /\ document = "live"
  /\ IsNext(n, "element")
  /\ RoomForPieces(n, a, i)
  /\ ~RoomForPieces(n, a, i + 1)
  /\ pool' = Lost(AfterPieces(n, a, i), {Cell(n), Defaults(n), Attributes(n)})
  /\ TakeCell("element")
  /\ UNCHANGED <<kind, buf, text, spare, handed, document>>

(* The attribute maps are not recycled with the cell.                       *)
ReleaseElement(n) ==
  /\ document = "live"
  /\ kind[n] = "element"
  /\ kind' = [kind EXCEPT ![n] = Nil]
  /\ waiting' = [waiting EXCEPT !["element"] = Append(@, n)]
  /\ pool' = Lost(pool, {Defaults(n), Attributes(n)})
  /\ UNCHANGED <<buf, text, spare, handed, document>>

-----------------------------------------------------------------------------
(***************************************************************************)
(* Texts and their buffers                                                  *)
(***************************************************************************)

(* expandCapacity: a quarter more than is needed.                           *)
GrownCapacity(b, len, extra) == ((len + extra) * 5) \div 4

BytesFor(cap) == (cap + 1) * CharSize

(* The old data stays where it is, unless it may be released.               *)
Expanded(p, b, cap, releasePrevious) ==
  LET new == Allocate(p, Data(b), BytesFor(cap)) IN
  IF releasePrevious THEN Released(new, p.piece[Data(b)]) ELSE new

(* Fault: a text fits when the terminating zero and one more do not.        *)
FitsIn(b, count) == count <= text[b].cap + 1

(* append and set: the text that will be there needs a larger buffer.       *)
Fits(b, count) == count < text[b].cap

(* popBuffer: from the last to the second, the first that is large enough,  *)
(* or else the last.                                                        *)
PopIndex(min) ==
  LET S == {i \in 2 .. Len(spare) : text[spare[i]].cap >= min} IN
  IF S = {} THEN Len(spare) ELSE CHOOSE i \in S : \A j \in S : j <= i

(* Fault: the buffer is used and stays on the stack.                        *)
WithoutSpareKept(i) == spare

WithoutSpare(i) == RemoveAt(spare, i)

(* What a new text and its buffer lose when memory does not suffice.        *)
Abandoned(p, n, b) == Lost(p, {Cell(n), Object(b), Data(b)})

(* A text with a new buffer.                                                *)
CreateText(n, b, l) ==
  LET p1 == Given(pool, Cell(n), TextSize)
      p2 == Allocate(p1, Object(b), BufferSize) IN
  /\ document = "live"
  /\ IsNext(n, "text")
  /\ spare = <<>>
  /\ ~Has(pool, Object(b))
  /\ CanGive(pool, Cell(n), TextSize)
  /\ CanAllocate(p1, BufferSize)
  /\ CanAllocate(p2, BytesFor(l + Slack))
  /\ pool' = Allocate(p2, Data(b), BytesFor(l + Slack))
  /\ kind' = [kind EXCEPT ![n] = "text"]
  /\ buf' = [buf EXCEPT ![n] = b]
  /\ text' = [text EXCEPT ![b] = [cap |-> l + Slack, len |-> l]]
  /\ TakeCell("text")
  /\ UNCHANGED <<spare, handed, document>>

CreateTextThrows(n, b, l) ==
  LET p1 == Given(pool, Cell(n), TextSize)
      p2 == Allocate(p1, Object(b), BufferSize) IN
  /\ document = "live"
  /\ IsNext(n, "text")
  /\ spare = <<>>
  /\ ~Has(pool, Object(b))
  /\ CanGive(pool, Cell(n), TextSize)
  /\ \/ ~CanAllocate(p1, BufferSize) /\ pool' = Abandoned(p1, n, b)
     \/ /\ CanAllocate(p1, BufferSize)
        /\ ~CanAllocate(p2, BytesFor(l + Slack))
        /\ pool' = Abandoned(p2, n, b)
  /\ TakeCell("text")
  /\ UNCHANGED <<kind, buf, text, spare, handed, document>>

(* A text in the buffer of a released one, which grows if it has to.        *)
CreateTextInSpare(n, l) ==
  LET i   == PopIndex(l + 1)
      b   == spare[i]
      p1  == Given(pool, Cell(n), TextSize)
      cap == IF Fits(b, l) THEN text[b].cap ELSE GrownCapacity(b, 0, l) IN
  /\ document = "live"
  /\ IsNext(n, "text")
  /\ spare # <<>>
  /\ CanGive(pool, Cell(n), TextSize)
  /\ Fits(b, l) \/ CanAllocate(p1, BytesFor(cap))
  /\ pool' = IF Fits(b, l) THEN p1 ELSE Expanded(p1, b, cap, FALSE)
  /\ kind' = [kind EXCEPT ![n] = "text"]
  /\ buf' = [buf EXCEPT ![n] = b]
  /\ text' = [text EXCEPT ![b] = [cap |-> cap, len |-> l]]
  /\ spare' = WithoutSpare(i)
  /\ TakeCell("text")
  /\ UNCHANGED <<handed, document>>

CreateTextInSpareThrows(n, l) ==
  LET i  == PopIndex(l + 1)
      b  == spare[i]
      p1 == Given(pool, Cell(n), TextSize) IN
  /\ document = "live"
  /\ IsNext(n, "text")
  /\ spare # <<>>
  /\ CanGive(pool, Cell(n), TextSize)
  /\ ~Fits(b, l)
  /\ ~CanAllocate(p1, BytesFor(GrownCapacity(b, 0, l)))
  /\ pool' = Abandoned(p1, n, b)
  /\ spare' = WithoutSpare(i)
  /\ TakeCell("text")
  /\ UNCHANGED <<kind, buf, text, handed, document>>

(* setNodeValue.                                                            *)
SetData(n, l) ==
  LET b   == buf[n]
      cap == IF Fits(b, l) THEN text[b].cap ELSE GrownCapacity(b, 0, l) IN
  /\ document = "live"
  /\ kind[n] = "text"
  /\ Fits(b, l) \/ CanAllocate(pool, BytesFor(cap))
  /\ pool' = IF Fits(b, l) THEN pool ELSE Expanded(pool, b, cap, FALSE)
  /\ text' = [text EXCEPT ![b] = [cap |-> cap, len |-> l]]
  /\ UNCHANGED <<kind, buf, waiting, spare, handed, document>>

(* The old text is forgotten before the buffer grows.                       *)
SetDataThrows(n, l) ==
  LET b == buf[n] IN
  /\ document = "live"
  /\ kind[n] = "text"
  /\ ~Fits(b, l)
  /\ ~CanAllocate(pool, BytesFor(GrownCapacity(b, 0, l)))
  /\ text' = [text EXCEPT ![b].len = 0]
  /\ UNCHANGED <<pool, kind, buf, waiting, spare, handed, document>>

(* Behind what is there. If memory does not suffice nothing changes.        *)
Appended(n, l, releasePrevious) ==
  LET b   == buf[n]
      len == text[b].len
      cap == IF Fits(b, len + l) THEN text[b].cap ELSE GrownCapacity(b, len, l) IN
  /\ document = "live"
  /\ kind[n] = "text"
  /\ len + l <= MaxLength
  /\ Fits(b, len + l) \/ CanAllocate(pool, BytesFor(cap))
  /\ pool' = IF Fits(b, len + l) THEN pool ELSE Expanded(pool, b, cap, releasePrevious)
  /\ text' = [text EXCEPT ![b] = [cap |-> cap, len |-> len + l]]
  /\ UNCHANGED <<kind, buf, waiting, spare, handed, document>>

(* Fault: the old data is released, whoever has been given it.              *)
AppendDataInPlace(n, l) == Appended(n, l, TRUE)

AppendData(n, l) == Appended(n, l, FALSE)

(* A parser adds to a text it is building. "nobody has ever received a      *)
(* pointer to the current content", from this node at least.                *)
AppendDataFast(n, l) == handed[n] = {} /\ Appended(n, l, TRUE)

GetNodeValue(n) ==
  LET data == pool.piece[Data(buf[n])].block IN
  /\ document = "live"
  /\ kind[n] = "text"
  /\ handed' = [handed EXCEPT ![n] = @ \cup {data}]
  /\ UNCHANGED <<pool, kind, buf, text, waiting, spare, document>>

ReleaseText(n) ==
  /\ document = "live"
  /\ kind[n] = "text"
  /\ kind' = [kind EXCEPT ![n] = Nil]
  /\ buf' = [buf EXCEPT ![n] = Nil]
  /\ spare' = Append(spare, buf[n])
  /\ waiting' = [waiting EXCEPT !["text"] = Append(@, n)]
  /\ handed' = [handed EXCEPT ![n] = {}]
  /\ UNCHANGED <<pool, text, document>>

-----------------------------------------------------------------------------
(* "the new size must be bigger than the maximum amount of each allocation" *)
SetMemoryAllocationBlockSize(size) ==
  /\ document = "live"
  /\ size > MaxSubAllocationSize
  /\ pool' = [pool EXCEPT !.next = size]
  /\ UNCHANGED <<kind, buf, text, waiting, spare, handed, document>>

(* release of the document: deleteHeap walks both lists.                    *)
ReleaseDocument ==
  /\ document = "live"
  /\ document' = "released"
  /\ pool' = [NoBlocks EXCEPT !.taken = pool.taken \ (ToSet(pool.heap) \cup ToSet(pool.singles))]
  /\ kind' = [n \in Node |-> Nil]
  /\ buf' = [n \in Node |-> Nil]
  /\ waiting' = [k \in Kind |-> <<>>]
  /\ spare' = <<>>
  /\ handed' = [n \in Node |-> {}]
  /\ text' = [b \in Buffer |-> [cap |-> 0, len |-> 0]]

Elements ==
  \E n \in Node :
    \/ \E a \in Name : CreateElement(n, a) \/ \E i \in 0 .. 3 : CreateElementThrows(n, a, i)
    \/ ReleaseElement(n)

Texts ==
  \E n \in Node :
    \/ \E l \in Length :
         \/ \E b \in Buffer : CreateText(n, b, l) \/ CreateTextThrows(n, b, l)
         \/ CreateTextInSpare(n, l) \/ CreateTextInSpareThrows(n, l)
         \/ SetData(n, l) \/ SetDataThrows(n, l)
         \/ AppendData(n, l) \/ AppendDataFast(n, l)
    \/ GetNodeValue(n) \/ ReleaseText(n)

(* fFreePtr is not behind the end of the current block. Once it is, a piece *)
(* has left its block and what is written to it damages other memory: what  *)
(* the program does then is undefined, and the model stops.                 *)
InBlock == pool.heap # <<>> => pool.at <= pool.size[Head(pool.heap)]

Next ==
  /\ InBlock
  /\ \/ Elements
     \/ Texts
     \/ \E size \in BlockSize : SetMemoryAllocationBlockSize(size)
     \/ ReleaseDocument

Spec == Init /\ [][Next]_vars

-----------------------------------------------------------------------------
(***************************************************************************)
(* Properties                                                               *)
(***************************************************************************)

InUse(n) == kind[n] # Nil

(* A block with room for its header and for the largest piece that is cut   *)
(* from blocks.                                                             *)
IsRoomy(size) == size >= Header + MaxSubAllocationSize

(* Every piece lies behind the header of a block that the document has, and *)
(* ends within it, after every growth of the blocks and of the buffers. The *)
(* only blocks a piece may leave are those that were asked for with a size  *)
(* of more than the largest piece and less than that and the header:        *)
(* setMemoryAllocationBlockSize takes such a size (DOMDocumentImpl.cpp:833),*)
(* and in the block that gets it fFreeBytesRemaining wraps around           *)
(* (DOMDocumentImpl::allocate).                                             *)
PiecesInside ==
  \A s \in Slot : Has(pool, s) =>
    LET piece == pool.piece[s] IN
    /\ piece.block \in pool.taken
    /\ Header <= piece.at
    /\ IsRoomy(pool.size[piece.block]) => piece.at + piece.size <= pool.size[piece.block]

(* No two pieces that are still pointed to share a byte, whichever were cut *)
(* from a common block, given back and had again (DOMDocumentImpl::allocate *)
(* and release).                                                            *)
PiecesApart ==
  \A s, t \in Slot :
    LET p == pool.piece[s]  q == pool.piece[t] IN
    s # t /\ Has(pool, s) /\ Has(pool, t) /\ p.block = q.block
      => p.at + p.size <= q.at \/ q.at + q.size <= p.at

(* A block is in one of the two lists, once, as long as the document has    *)
(* it, and the document ends with none: otherwise deleteHeap loses it or    *)
(* gives it back twice.                                                     *)
BlocksListed ==
  /\ pool.taken = ToSet(pool.heap \o pool.singles)
  /\ IsInjective(pool.heap \o pool.singles)
  /\ document = "released" => pool.taken = {}

(* A cell is used by one node or waits once; a buffer belongs to one text   *)
(* or waits once (DOMDocumentImpl::release, releaseBuffer and popBuffer).   *)
OneUserEach ==
  /\ \A k \in Kind : IsInjective(waiting[k]) /\ \A n \in ToSet(waiting[k]) : ~InUse(n)
  /\ ToSet(waiting["element"]) \cap ToSet(waiting["text"]) = {}
  /\ IsInjective(spare)
  /\ \A n, m \in Node : buf[n] # Nil => buf[n] \notin ToSet(spare) /\ (buf[n] = buf[m] => n = m)

SizeOf(k) == IF k = "element" THEN ElementSize ELSE TextSize

(* The cell of a node, used or waiting, has room for a node of its kind:    *)
(* the constructor writes over the cell of whatever was released.           *)
CellsFit ==
  \A n \in Node, k \in Kind : kind[n] = k \/ n \in ToSet(waiting[k])
    => pool.piece[Cell(n)].size >= SizeOf(k)

(* A text and the zero behind it lie within the buffer's memory, for the    *)
(* texts in use and for the buffers that wait (DOMBuffer::append, set and   *)
(* getRawBuffer, which writes the zero again).                              *)
TextsFit ==
  \A b \in Buffer : b \in Range(buf) \cup ToSet(spare) =>
    /\ text[b].len <= text[b].cap
    /\ BytesFor(text[b].cap) <= pool.piece[Data(b)].size

(* A buffer gets new memory only when that holds all of the old: memcpy     *)
(* copies fCapacity characters, however many are in use                     *)
(* (DOMBuffer::expandCapacity).                                             *)
BuffersOnlyGrow ==
  [][\A b \in Buffer : Has(pool, Object(b)) /\ Has(pool', Object(b))
       => text'[b].cap >= text[b].cap]_vars

(* The strings a node has given its user stay in memory as long as the node *)
(* does, whatever is appended to it and to the texts that use the memory of *)
(* others (DOMBuffer::expandCapacity, DOMCharacterDataImpl::appendDataFast).*)
NodeStringsStay == \A n \in Node : handed[n] \subseteq pool.taken

=============================================================================
