# TLA+ verification of TestXmlParser

TestXmlParser tries out four C++ XML libraries (Xerces-C 3.2.2, pugixml 1.10,
Poco 1.9.4, TinyXML-2, all vendored under `lib/`) and contains one real
component, `ParsingXml/XercesSingleton`: a wrapper layer that hands out
`std::shared_ptr`s to elements and documents and keeps a Xerces DOM behind them.
This directory holds its specification: TLA+ modules translated from the C++
source, TLC configurations that check them on small instances, and theorems
that TLAPS proves for every instance.

## 1. Inventory

Everything in the repository is single-threaded. What is hard here is lifetime
(reference-counted wrappers around manually managed nodes), calls that fail half
way, and copies that go stale.

### 1.1 XercesSingleton (`ParsingXml/XercesSingleton/Entry.cpp`, `Entry.h`)

| part | state | operations |
|---|---|---|
| `XercesAdapter` (singleton) | `_domImpl`, `_dummyDoc`: the document whose pool holds every element node | `CreateXmlElement`, `CopyXmlElement`, `AddXmlChildElement`, `SetXmlElementText/Attributes/Attribute`, `CreateXmlDocument`, getters, `NodeToString` |
| `XmlElement` | `_internalElement` (node in `_dummyDoc`), `_parent` (shared_ptr to an element or a document) | `SetParent`, `InsertChildBefore`, `SetText`, `SetAttributes`, `CopyElement`, `NotifyDeepValueChanged`; the destructor releases the node of an element without parent |
| `XmlDocument` | `_internalDocument` (own `DOMDocument`), `_rootElement` (shared_ptr), `_encoding` | the constructor refuses a root with a parent; `NotifyDeepValueChanged` imports the root's tree again when the copy differs; the destructor releases the `DOMDocument` |
| `XercesXmlWriter` | serializer, output, error handler that is never installed | `WriteToString` |
| `StringToXmlCh`, `XmlChToString` | a transcoded buffer | constructor, destructor, `Get` |
| `XmlLib` | none | stubs |

How they interact: the adapter creates nodes in `_dummyDoc` and wraps them; a
child wrapper owns its parent's wrapper (never the reverse); a document and its
root own each other. A change to an element calls `NotifyDeepValueChanged`,
which climbs the `_parent` chain and ends in the document, if there is one; the
document then copies the whole tree into its own `DOMDocument`. Every failure is
a C++ exception, and three of the operations swallow it.

What makes it correct: no wrapper points to a released node; no destructor lets
an exception out; the wrapper links and the DOM links agree; nothing is left in
the pool that no wrapper can reach; a failed call changes nothing; a document
shows its root's current tree.

### 1.2 The Xerces-C DOM the wrappers stand on (`lib/xerces-c-3.2.2/src/xercesc/dom/impl`)

State: the nodes of a document's pool, their parents, child lists, attribute
maps. Operations used: `createElement`, `createTextNode`, `insertBefore` (with
its cycle, owner and reference checks), `removeChild`, `replaceChild`,
`setAttribute`, `cloneNode`, `importNode`, `isEqualNode`, `release`. Correct when
children and parents are two views of one forest and `release` frees whole trees.
A document also keeps `fDocElement`, a pointer to the one element among its
children, and a heap of every node it created, which goes when it is released.
That heap is memory the document manages itself (`DOMDocumentImpl::allocate`): pieces
cut from blocks that double in size, blocks of their own for large pieces, stacks
of cells and text buffers to be used again. Correct when pieces lie inside blocks
and apart, nothing is used twice, and every block goes back once.
Below all of this is the platform (`XMLPlatformUtils`): `gInitFlag` counts the calls of
`Initialize`, of which the first sets up services and static data in eleven steps and
the last matching `Terminate` takes them down; a memory manager is the library's or
the caller's. Correct when nothing is left after the last, nothing is missing before
it, and every manager goes to its owner, also when a step throws.

### 1.3 The other programs

* `TestXerces` uses the Xerces DOM directly: documents, fragments appended to a
  document, nodes released while owned, importing between documents, a parser
  with an error handler, a serializer. State: the documents' trees and raw
  pointers of which some must be released by hand. Correct when no link leads
  into freed memory, when the order of moved nodes survives, when a document has
  at most one element and `fDocElement` is it, and when a call that throws has
  changed nothing.
* `TestPugiXml` uses pugixml 1.10. State: documents with an embedded first page and
  a chain of heap pages, nodes and strings as blocks on them, the allocator's last
  page. Nodes are handles. Moving a node to another document is refused, copying
  works (`node_copy_tree`), `ParseFile` returns a document by value. Correct when
  every block is on a page of its own document, a page is given back exactly when
  nothing is left on it, and a copy made anywhere, inside its own original too, ends
  and is the original.
* `TestTinyXml2` uses TinyXML-2. State: the document's tree, `_unlinked` (nodes
  created and never inserted), the pools' `_nUntracked`. Nodes are created by the
  document and inserted later, or never; the document frees both kinds. Correct
  when `_unlinked` is exactly the nodes without parent in every state, a failed parse
  included, and the destructor frees all.
* `TestPocoXml` uses the Poco DOM. State: a reference count per node, the document's
  pool of auto-released nodes, child lists, attribute chains. Correct when a count
  is the number of owners, and nothing dangles or leaks.
* The rest of `lib/`, and `others/`: third-party code the programs do not call, and
  sample data; not modelled.

### 1.4 Hard behaviours

`PROJECT.json` lists them at their lines under "hazards". The main ones: any
order of dropping handles to the wrappers of one tree; the shared_ptr cycle
between a document and its root; exceptions between two steps of
`CreateXmlElement`, `SetXmlElementAttributes` and `CreateXmlDocument`; the cycle
check of `insertBefore`; the notification of documents through wrappers that
were linked before or after the document was made; fragments that are emptied
child by child into a document that refuses one of the children; the document
element, which is kept twice; a list of parentless nodes that every insertion,
deletion and failing parse must keep in step with the tree; a parser that unwinds
from any depth; counts that three kinds of owners share; pages that are given back
while documents exchange them; a copy that grows inside the tree it walks; cells and
buffers handed from node to node while callers still have pointers to old strings,
and allocations that fail between two of them; an initialisation that fails half way
and is counted all the same.

## 2. Modules

| module | models | state and actions |
|---|---|---|
| `XercesDom` | the DOM operations of 1.2 | operators over the maps `up`, `kids`, `texts`, `attrs`; no variables of its own |
| `XercesAdapter` | 1.1 without the writer and the converters | one action for each way a call can end |
| `XmlOwnership` | what `XercesAdapter` promises about lifetime | elements, parents, held elements, documents' roots |
| `XercesDocument` | raw Xerces documents, as `TestXerces` (1.3) and `XmlDocument` use them | owners, parents, child lists, documents' cached elements; one action for each way a call can end |
| `TinyXmlDocument` | a TinyXML-2 document (1.3): nodes made and moved by hand, `Clear`, `LoadFile`, `Parse` and the destructor step by step | tree, `_unlinked`, `_nUntracked`, the parser's stack, the call that runs |
| `PocoNodes` | Poco DOM nodes (1.3) and everybody who counts them | counts, the caller's owners, the pool, trees, attribute chains |
| `PugiPages` | pugixml's page allocator under nodes, strings and documents (1.3) | pages and their links and sizes; which page a node and its string are on; the nodes a call is destroying and the allocator it passes down |
| `PugiCopy` | `append_copy` and its kin: `node_copy_tree` one turn of its two loops at a time (1.3) | the tree, the loops' two pointers, which loop it is in, what the tree was |
| `MC*` | small instances for TLC | symmetry sets where no liveness is checked |
| `XercesPool` | the memory below a Xerces document (1.2): blocks, pieces, cells, text buffers | the allocator's record `pool`; which piece every pointer has; the stacks `waiting` and `spare`; strings a node gave to callers |
| `XercesPlatform` | `Initialize`, `Terminate` and those who call them, the adapter's constructor and destructor among them (1.1, 1.2) | `gInitFlag`, what is set up, the memory manager, open calls by caller, documents |
| `XercesAdapter_proofs`, `XercesDocument_proofs`, `TinyXmlDocument_proofs`, `PocoNodes_proofs`, `PugiPages_proofs`, `PugiCopy_proofs`, `XercesPool_proofs`, `XercesPlatform_proofs` | the theorems about these modules; the first has lemmas about the operators of `XercesDom` and the refinement of `XmlOwnership` | each states the facts about lists that it needs and can be read by itself |

**Names for nodes.** An element is a memory cell of `_dummyDoc`'s pool (constant
`Element`); a released cell can be used again. A wrapper has the name of the node
it wraps: it is made for a node just allocated and never re-seated. The model
therefore must show that no wrapper outlives its node, which is the invariant
`NoDanglingWrapper`.

**State.** `alloc, up, kids, texts, attrs` are the DOM nodes; `domDocs, copy` the
unreleased `DOMDocument`s and the tree each holds; `live, parent, root` the
wrappers that exist with `_parent` and `_rootElement`; `held` the wrappers the
caller has a `shared_ptr` to. `status` says whether the program runs, never
returned from a call (unbounded recursion in `NotifyDeepValueChanged`, which is
undefined behaviour in practice ended by a stack overflow), was terminated by an
exception out of a destructor, or returned from `main`. `outcome` is how the last
call ended: normally, with an exception, or with an exception swallowed.

**Actions.** Each is a whole call. `AddXmlChildElement` for instance contains
`InsertChildBefore`, `insertBefore` with its checks, `SetParent` and the
notification with the documents' import; `AddXmlChildElementRefused` is the path
through `catch (...)`. `Drop(n)` is the caller's last `shared_ptr` to `n` going
out of scope: it destroys the wrappers that nothing owns any more (`Destroyed`,
the least set closed under "everything that owned it is destroyed", so that a
cycle of owners survives), releases the nodes of the parentless ones and the
`DOMDocument`s. `Exit` is the end of `main`: no handle is left and the
singleton's destructor releases `_dummyDoc`.

**Data.** A text or a value is a model value. An attribute name is a number: its
rank in the order of `std::map`, because `SetAttributes` sets the entries in that
order and stops at the first name `isXMLName` refuses (`InvalidName`). A version
string is one of the four classes `IsValidXmlVersion` and `setXmlVersion` tell
apart. A tag name is valid or not. The copy in a document is the imported tree
as a function from the original's cells to their content; since a call never
exchanges two equal nodes below a root, comparing these functions and
`isEqualNode` give the same answer.

**Raw documents.** `XercesDocument` stands beside `XercesAdapter` rather than
below it: the adapter keeps all its elements in one document and never uses
fragments, the tests use several documents and fragments and no wrappers. Its
state is `docs` (unreleased documents), `owner` (`fOwnerDocument`; null for a free
cell), `up`, `kids` and `docElement` (`fDocElement`). Nodes are cells of four
kinds, which is what `isKidOK` and the cache tell apart: fragments, elements,
nodes a document accepts as children (`Misc`: processing instructions, comments,
blank text) and nodes it refuses (`Text`). `insertBefore` ends in one of three
ways: done, refused before anything moved (`InsertBeforeThrows`), or stopped
after the first *n* children of a fragment (`InsertBeforeStops`). For this the
loop in `DOMParentNode::insertBefore`, which calls the virtual `insertBefore` of
the document and the virtual `removeChild` of the fragment for each child, is
replaced by its result: child *i* gets in when `isKidOK` holds and, in a document,
when it is no element or there is no document element yet (`Accepts`). An
exception is a step, not an end, because `CreateAndPrint` catches it and goes on.
The check against cycles starts at the parent of the node that gets the child and is
skipped for a childless child, so an element can be inserted into itself and is its own
parent then: a step like any other. What walks up (`Endless`) or down (`ImportWithoutEnd`)
such a loop, and a fragment inserted into itself, never returns (`Hang`).

`CarefulSpec` is every call except one: a document's child is replaced by another
node that is no fragment, which is how `XmlDocument` and the tests use
`replaceChild`. `Spec` has that call too, with any arguments. The two differ
because `fDocElement` is right only under the first.

**TinyXML-2.** A call made by the program (`NewNode`, `InsertEndChild`,
`InsertFirstChild`, `InsertAfterChild`, `SetText`, `DeleteNode`, `DeleteChildren`,
`SaveFile`) is one action. `Clear`, `LoadFile`, `Parse` and the destructor loop, and
are taken apart: `Begin(c)`, then `ClearNode` until `ClearDone` decides what follows
(for `LoadFile` that is the second `LoadFile`, which clears again), then the parser:
`ReadLeaf`, `ReadStartTag`, `ReadEndTag`, `ReadEnd`, and behind a failure `Unwind`
frame by frame and `ReadFailed`. `open` is the parser's recursion: one element per
frame of `ParseDeep`. `phase` keeps the program from calling anything in between.
`Subtree(x)` is what `~XMLNode` deletes with `x`, as a least closed set; `Destroyed`
is the destructor and `MemPoolT::Free`, `Delete` adds `MarkInUse`. Input is chosen
freely: which node comes next, whether it is well formed, whether an end tag
matches.

**Poco.** `rc` is what the code counts; `held` (the caller's AutoPtrs, raw owners and
node lists) and `pool` say for whom. `Release(drop)` is `release()` with everything it
sets off: `Deleted` is the least set that has what the released counts and the
destructors of its own members bring down to zero; destructors release children, first attribute, next attribute, and in the end the
pool. Fragments hand over their children without touching counts; attributes
form a chain through `nextAttr`, in which each link is an owner.

**pugixml.** `PugiPages` has the allocator's record `mem`: `heap`, `owner`, `next`,
`prev`, `busy`, `freed` per page, `root` and `top` per document (`_root`, and the
`_busy_size` the allocator keeps for the last page). Sizes are in nodes; a page holds
four, a string of three is "large" and gets a page of its own in front of the last.
The page embedded in a document has the document's name, so that `root[d] = d` is
an allocator from which nothing was allocated. `CarefulSpec` moves no such
document; `Spec` does. `remove_child` and `remove_children` only choose what is
`doomed` and the allocator `alloc` that goes down the recursion of `destroy_node`;
then `DestroyString` and `DestroyNode` give back one block at a time, a node's string
before what is below it and the node behind that, siblings in any order. A document
that is destroyed or reset does not look at nodes: it gives back its pages (`Chain`),
and the nodes on them are gone (`NodesOn`). `PugiCopy` has the loops of `node_copy_tree`,
one turn to a step: `CopyNode`, `CopyFails` (no memory) and `SkipCopy` (the copy met in
the original) are a turn of the outer one, `NextSibling` and `GoUp` of the inner one,
in which `onward` is true; `CopyDone` is the return. `before`, the names and children
when the call began, and `complete` are ghosts that only the properties read.

**Memory of a Xerces document.** In `XercesPool` a piece is a block, an offset and a size,
and hangs on the pointer that has it (`Slot`: a node's `this`, its attribute maps, a
`DOMBuffer` and its `fBuffer`, an entry of the name table, the table). `Allocate` is
`DOMDocumentImpl::allocate` with its three ways, on unsigned sizes; `Released` is the
`release` that gives back only blocks of one piece. Elements and texts stand for the
node types; `IsNext` chooses the cell as `operator new` does. `CreateElement` and
`CreateText` are the constructors with all their allocations in order, and the
`...Throws` actions what is left when the memory manager refuses one of them. `handed`
is a ghost: the blocks with the strings `getNodeValue` of a node returned.
`AppendDataFast` is what parsers call; it lets old data go unless its own text gave
it away. Of a released node's cell nothing is read, of its buffer everything stays.

**Platform.** `XercesPlatform` has callers in one thread that keep to the manual: they
match each `Initialize`, also one that threw, and release their documents before.
`have` is the set of steps that have been done; `InitializeThrows` stops behind any
step from which an exception gets out, `InitializePanics` where the code panics,
which ends the program. `status` tells apart a null pointer in `Terminate`, one in a
use of the library, and the end of `main`. `GetInstance` is the adapter's constructor,
which the language runs again if it has thrown; `Exit` is its destructor. A caller
may bring a memory manager and sizes for the DOM heap, the constants that
`XercesPool` is about. The library's own document `sDocument` is part of the last step;
it is made before the sizes of the same call take effect, so `SizesStayForDocuments`
speaks of the callers' documents only.

**Faults.** An operator introduced by "Fault:" is a plausible mistake in the
definition that follows it. It is used by no specification; it documents which
property notices the mistake (section 3).

## 3. What the runs check

| run | bounds | shows |
|---|---|---|
| `adapter_trees` | 4 cells, 2 documents, 1 text, no attributes | `OwnershipInv`, the inductive invariant of section 4, with `NoDanglingWrapper`, `WrapperMirrorsDom` and `DestructorNeverThrows` among its parts; `OneTextChild`, `OnlySelfInsertionHangs`, `OnlyDocumentsLeak`; `ImplementsOwnership`: the adapter refines `XmlOwnership`, and `TreesLiveAndDieWhole`: exactly the trees somebody holds, and the documents' trees, exist |
| `adapter_content` | 3 cells, 1 document, attribute names 1 and 2 of which 2 is refused | `FailureChangesNothing`, `StaleOnlyWhenSwallowed`, `ChangesReachDocument` |
| `document_trees` | 2 documents, 1 fragment, 3 elements; `Spec` | `ForestInv`, the inductive invariant of section 4, with `LinksStayInDocument` among its parts, and `OnlySelfInsertionCycles`, when either document may be released |
| `document_fragments` | 1 document, 2 fragments, 2 elements, 1 misc, 1 text; `CarefulSpec` | `OrderIsKept`, `OnlyRootsAreRefusedLate`, `RootIsCached` |
| `tiny_document` | 2 elements, 2 declarations, 1 text; depth limit 3; no load while the pools count a lost node | `UnlinkedIsExact`, `NothingLost`, `DeclarationsFirst`, `DepthBounded`; liveness: `CallsReturn`, `FreedWithDocument` |
| `poco_nodes` | 1 element, 1 leaf, 1 fragment, 2 attributes; 1 owner of the caller and 1 pool entry per node | `CountingInv` (types, and `CountsAreExact`), `NothingDangles`, `NothingLeaks`, `EditingFreesNothing` |
| `pugi_pages` | 2 documents, 3 nodes, 3 pages of 4 units, strings of 1 and 3; `CarefulSpec` | `NodesOnOwnPages`, `MemoryInv` (types, `SizesAreExact`, `PagesAreChained`), `DocumentsMoveWhole` |
| `pugi_copy` | 2 documents, 6 nodes, 2 contents; a call begins with at most 3 nodes (`MaxBefore`) | `LoopInvariant`, `CopyIsExact`; liveness: `CopyEnds` |
| `xerces_pool` | 2 nodes, 2 buffers, 1 name, 4 blocks of 40 to 160; texts of 4 and 16, appended up to 20; block sizes 16 (refused), 40 (accepted, and too small for header and largest piece) and 64 | `PiecesInside`, `PiecesApart`, `BlocksListed`, `OneUserEach`, `TextsFit`, `NodeStringsStay` |
| `xerces_platform` | 2 clients and the adapter with 2 open calls each, 1 plugged-in manager, 3 of the library's own, 2 documents, 1 size | `NothingLeftWhenMatched`, `ManagersGoToOwners`, `DocumentsKeepManager`, `SizesStayForDocuments` |

Some properties that are proved (section 4) are not in the runs: the types of
`TinyXmlDocument`, `XercesPool` and `XercesPlatform`, `AttachedForGood`, `DriftOnlyByFailure`, `CellsFit` and
`BuffersOnlyGrow`.

`CHECK_DEADLOCK FALSE` because the programs really stop (exit, termination, a crash,
the last document gone).

**Fairness.** Two modules state it. `TinyXmlDocument` has weak fairness of `Clearing`
and of `Reading`, `PugiCopy` of `Copying`: a call that has begun goes on, since there
is one thread and nothing in these loops waits for anything. No fairness is assumed
of the program: it need not make another call. In TinyXML-2 the input is finite: each
step of the parser consumes some of it, and the finite set of node cells stands for
that bound. Without the fairness `CallsReturn` fails by stuttering only; with it, it
fails for a `Clear` that leaves its entry in `_unlinked` (`ClearNodeUnmarked`). The
other modules have actions that are whole calls, and nothing obliges a caller to make
a next one, so they claim no liveness.

**Why the bounds are enough.** Four cells allow a chain of three with a sibling, an
insertion before an existing child, a copy of a two-element tree beside it, and a
cell that is released and used again; the attempt to attach an ancestor needs two
elements and its refusal deeper down three. Attribute failures need one accepted
name before a refused one. Two documents are needed only to compete for one root.
For raw documents, three elements and a fragment give a fragment whose second
element is refused while the first is in place and a third is the old root, and
an ancestor two levels up. Two fragments with nodes of three kinds give the moves
from fragment to fragment, to an element and to a document, and a fragment of
which a document takes one node before it refuses the element behind. Two
documents give an insertion into the wrong one, and a copy imported from a
document that is released afterwards.

TinyXML-2: five nodes give an unlinked tree of two levels beside a linked one, so
that `_unlinked` has entries before and behind the one `MarkInUse` swaps; two
declarations can stand in a right and a wrong order; a depth limit of three lets a
frame be opened, closed and refused. `MaxLost = 0` keeps the pools' count finite: a
failed `LoadFile` leaves it too high, and one such load shows the drift. Poco: one
element and a fragment give every way a leaf can change hands, two attributes a
chain of which either end is removed; with one owner and one pool entry each, a
node can have all three kinds of owners at once. pugixml: three nodes and a string
of one unit fill the first page, three-unit strings make large pages in front of it,
three pages give a middle one to take out, and three nodes a parent with two
children or a chain, destroyed while a sibling or the other document stays. `xerces_pool`: sizes keep the order of the code's
(headers, cells and buffers below the limit for pieces, a short text below it, a
long one above), a block holds two or three pieces, so that blocks are filled,
doubled and extended while half full; two texts compete for a waiting buffer; four
blocks run out at every allocation of every constructor. Of the block sizes, 16 is
below the limit for pieces and refused, 40 between that limit (32) and the limit plus a
header (48), and 64 above both. A copy of up to three nodes, in six cells, can be of a
chain or of siblings, be made at either end, in the middle or below any node of its own
original, and be complete or lose a node at any turn. `xerces_platform`: two clients
let one end while the other goes on, with the adapter as a third; two open calls each
nest; three managers of the library's own and one plugged in follow each other in
either order.

Where no liveness is checked, nodes and documents of a kind are interchangeable and
the runs use symmetry.

Two runs end in a violation. Each shows the code departing from what a source of
the repository says:

* `document_leak`: a document and its root own each other; `~XmlDocument` never
  runs and the `DOMDocument` is never released, although the Xerces guide says
  that users must. `OnlyDocumentsLeak` shows that nothing else leaks this way.
* `platform_use`: the adapter's constructor swallows what `Initialize` throws and uses
  the registry. A failed `Initialize` is also counted, so that the next one, the
  adapter's included, returns normally with nothing set up.

Other departures are kept in the models as behaviour, without a run of their own.
Some are bounded by a passing property:

* `SetXmlElementAttributes` with a refused name changes the root and skips the
  notification; a document falls behind in no other way (`StaleOnlyWhenSwallowed`).
* An element inserted into itself becomes its own parent and the notification never
  returns; no other call does this (`OnlySelfInsertionHangs`). In raw documents it is the
  one way to a cycle (`OnlySelfInsertionCycles`).
* A fragment's second element is refused when the first has been transferred; nothing
  else is refused late (`OnlyRootsAreRefusedLate`).
* A text's buffer may come from a released text, and `appendDataFast` then gives back
  memory to which that text's user has a pointer. `NodeStringsStay` claims the strings
  of nodes in use only.

Others are steps of the models, or calls that a careful caller leaves out:

* When `_dummyDoc` cannot be made, the constructor's `Initialize` is never matched and
  the next `GetInstance` initialises again (`GetInstanceThrows`).
* An `Initialize` that throws before its last step leaves no `sDocument`, and the
  `Terminate` that must match it (program.xml:59) releases it all the same
  (`ClientTerminate`, "lostInTerminate").
* `setXmlVersion` or the `XmlDocument` constructor throws and the `DOMDocument` made
  just before is lost (`CreateXmlDocumentThrows`).
* TinyXML-2's `InsertAfterChild` unlinks the only sibling behind the node it is to
  follow and dereferences a null `_next`, although tinyxml2.h:852 says that the node is
  moved ("crashed").
* Moving an `xml_document` from which nothing was allocated makes the new one chain its
  pages behind the page embedded in the old one, which gives them back with live nodes
  on them: the calls that `CarefulSpec` of `PugiPages` leaves out. After one, all three
  properties of `pugi_pages` are false of the code.
* `replaceChild` with a fragment as above, or of the root by itself, leaves a wrong
  element cached: the calls that `CarefulSpec` of `XercesDocument` leaves out, under
  which `RootIsCached` is a theorem.
* `popBuffer` never looks at the buffer that was released first: the range of its
  search in `XercesPool`.
* `setMemoryAllocationBlockSize` accepts every size above the largest piece, as
  DOMMemoryManager.hpp:106 says (more than 4 KB), but a block has a header too: in a block
  with a size up to that header too small, `fFreeBytesRemaining` wraps around and pieces
  leave the block. `PiecesInside` claims the end of a piece for larger blocks (`IsRoomy`)
  only. Having written behind a block the program may do anything, and the model stops
  (`InBlock`).
* An attribute keeps a pointer to its element after that is deleted (Poco,
  Element.cpp:52); `NothingDangles` leaves that pointer out.

For each property of a passing run, `PROJECT.json` names a fault ("mutants") that
the property detects; for example a parent that owns its children too
(`OwnsBothWays`) is caught by `OnlyDocumentsLeak`, a wrapper destroyed while a
child still owns it (`DestroyedAtOnce`) by `OwnershipInv`, whose part `NoDanglingWrapper`
it breaks.

## 4. What is proved

`XercesAdapter_proofs` proves, for any sets of cells, documents, texts, names and
values that satisfy `DomAssumption` and `DocumentAssumption` (null is not a cell,
documents and elements are different objects, names are ordered like numbers):

* `OwnershipStructure`: `Spec => []OwnershipInv`, and from it `TypeCorrect`,
  `WrappersNeverDangle`, `DestructorsNeverThrow`, `DocumentsOwnTheirRoots`,
  `WrappersMirrorTheDom`;
* `AttachmentIsForGood` and `FailuresChangeNothing`, action properties that use it.

The argument. `NoDanglingWrapper` is not inductive: to know that releasing a tree
frees no node with a live wrapper, one must know that DOM children of a node have
wrappers which own that node's wrapper (`WrapperMirrorsDom`, `KidsMirrorUp`), that
owners of live wrappers are live (`OwnersAreLive`), and that dead wrappers and
free cells are linked to nothing (`DeadWrappersOwnNothing`, `LinkedCellsInUse`).
`OwnershipInv` is the conjunction. The step `Drop` then rests on one idea: the
cells without a wrapper that survives form a set closed under child lists, so the
least closed set above a dying root, its `Subtree`, lies inside it
(`SubtreeLeast`). `AddXmlChildElement` needs that the new parent is not below the
child: by `SubtreeUpChain` the child would be among the parent's ancestors, which
`insertBefore` checks. `CopyXmlElement` maps the links through an injection into
free cells. The lemmas about sequences, child lists and closures come first in the
module.

From `OwnershipInv` the same module proves `HangsByItselfOnly`,
`StaleOnlyBySwallowing`, `ChangesReachTheDocument`, `EveryElementHasOneText` and
`DocumentsAreTheOnlyLeak`.

The argument. *Hanging*: what is reached upwards from `n` has `n` in its subtree
(`UpChainSubtree`), so a link that made an element its own ancestor would go to one
of its own descendants, which `insertBefore` refuses unless it is the element itself
(`LoopIsSelfInsertion`). *Documents*: the climb of `NotifyDeepValueChanged` from any
element below a document's root passes that root (`BelowRootNotifies`); a call that
touches nothing in the root's subtree leaves its import as it is (`SameImport`), and
trees of different roots are disjoint (`TreesAreDisjoint`). *Leaks*: two more
invariants. `Counted` says that a live wrapper has a handle or an owner;
`NoLoopOfOwners`, that among any live elements is one that none of them points to
as its parent. Without handles, take the live elements that are no roots: that one
would have neither a handle nor an owner.

The last part of the module proves `AdapterImplementsOwnership`, the refinement
`Spec => ImplementsOwnership` that the run checks on its instance, and
`NoTreeIsLostOrTorn`. The mapping shows `alloc` as the elements that exist, `up`
without a link to oneself as their parents, `held` without documents, and the roots
of documents as pinned. The abstract specification speaks of trees by their top,
the code frees by walking wrappers and child lists; so one needs that going up ends
(`UpEnds`: every set of elements has one whose parent is outside; it gives each
element its top, `TopOfTree`), that the abstract tree of a top is `Subtree` of it
(`TreeOfTop`), and that the cells whose wrappers die with the last handle to a tree
are that tree (`UnheldTreeDies`, `DeathStaysInTree`, together `FreedIsLost`). For
`NoTreeIsLostOrTorn`, `TopsAreWrapped` says that a parentless node has a wrapper,
which by `Counted` and `NoLoopOfOwners` is reached from a handle or a document.

`XercesDocument_proofs` proves, for any sets of documents and nodes that satisfy
`NodeAssumption` (the kinds of nodes, the documents and null are disjoint):

* `DocumentsAreForests`: `Spec => []ForestInv`, and from it `LinksNeverDangle` and
  `OnlySelfInsertionMakesCycles`;
* `ChildrenStayInOrder`: the action property `OrderIsKept` of `Spec`;
* `TheRootIsCached`: `CarefulSpec => []RootIsCached`;
* `ThrowsChangeNothingElse`: the action property `OnlyRootsAreRefusedLate` of
  `CarefulSpec`.

The argument. `LinksStayInDocument` needs that lists mirror parents (so that what
`release` frees by walking child lists is closed under the parent pointers too),
and that fragments are never children. Absence of cycles cannot be carried by
induction on the length of a path, which is out of the prover's reach; instead
`OnlySelfLoops` says that every set of nodes has a member whose parent is outside or is
the member itself.
Taking a node out keeps this. Putting nodes without a parent under `p` keeps it when
none of them is `p` or an ancestor of `p`, which is what `insertBefore` checks: a
set closed under the new parents that has a moved node has `p` too, and its part
among `p` and the ancestors of `p` would be closed under the old ones
(`NewParents`); a node put under itself is the member that is its own parent.
`OnlySelfInsertionCycles` follows by taking the ancestors of a node as the set. All
calls reduce to three lemma families, for detaching a node, attaching a sequence of
nodes before another, and freeing a set that is closed under child lists. A fragment that is taken half way is the same lemma for a
shorter sequence. For the cache, the invariant is `ForestInv` with `Rooted`: the
cached element is a child of its document and no other element is, in terms of
parents, which the list form follows from. *Order*: what every call does to a list is
to take one member out, to cut it in two and put new members between, or to drop it;
each keeps the order of any two members that were there before and still are
(`OrderOfRemoved`, `OrderOfCut`, `OrderOfPlaced`, `OrderOfConcat`), and the arrivals
come from one place in their order. *Late refusal*: a call that throws after it moved
something is a fragment's, stopped at an element (`StopsLate`), because `isKidOK` was
asked for all nodes of the fragment before the first was moved, and `CacheInv` says
that the document then has an element.

`TinyXmlDocument_proofs` proves, for any sets of elements, declarations, comments and
texts and any depth limit that satisfy `TinyAssumption` (kinds, document and null are
disjoint, the limit is at least 2):

* `TreesAndUnlinked`: `Spec => []TinyInv`, and from it `TinyTypeCorrect`,
  `UnlinkedStaysExact`, `NothingIsLost`, `CountsDriftByFailureOnly`;
* `DeclarationsComeFirst` and `NestingIsBounded` (`DepthBounded`).

The argument. `UnlinkedIsExact` alone is not inductive: deleting a node deletes what is
below it, and one must know that what is below has a parent and so no entry in
`_unlinked`, which needs that lists mirror parents (`Trees`). `Delete`, `Emptied`,
insertion and allocation are four lemmas about trees; `SubtreeClosed` says of the
least set `Subtree(x)` that it is closed under children and that everything in it but
`x` has its parent in it. For the parser, `OpenAreUnlinked` says that while it reads or
unwinds the unlinked nodes are the open elements: so an element whose end tag comes
is inserted under another open element that cannot be below it (`MatchedEndTag`),
every `Unwind` finds its node in `_unlinked`, and when the last frame is left nothing
is unlinked and the pools can be emptied. `NothingLost` follows from absence of
cycles, again as "every set of nodes has one whose parent is outside": the nodes
that could not be found would be a set closed under parents (`FoundFromAbove`).
`DeclarationsFirst` is inductive beside `TinyInv`; when reading begins, `ClearedIsEmpty`
gives an empty document. `DepthBounded` says that some function gives every element
a level: one above its parent's, below the limit, and as high as the stack for the
element on its top. The witness changes with the element that is attached or opened
only, since the parser attaches a node under the innermost open element.

`PocoNodes_proofs` proves, for any sets of elements, leaves, fragments and attributes that
satisfy `PocoAssumption` (the kinds, the document and null are disjoint, attributes are
finitely many), every property of the run: `CountsAreAlwaysExact`, `NothingEverDangles`,
`NothingEverLeaks` and `EditingNeverFrees`.

The argument. None of the invariants is inductive by itself: that counts are exact after
a release depends on how often destructors release each object. `Graph` has an edge from
each object to what its destructor releases. `OneHolder` says that no two destructors
release the same object and `Acyclic` that every set has a member nobody in the set
releases; with them the number of owners in a count is 0 or 1 (`HoldersOf`), and no
induction over data is needed. The calls change the graph in three ways: a set of nodes is
taken from their holders and given to one holder outside what is below them (`Regraft`,
which is what `CanTake` checks), an attribute is skipped in its chain, edges of what is
deleted go (`PrunedGraph`). `Deleted` is what the model says it is, the least set of
objects brought down to zero: what survives a release has an owner left
that survives too, so counts stay exact and nothing that lives has a link into the
deleted (`NothingDangles`). `NothingLeaks` needs `Acyclic` once more: of the objects
that would be lost one is released by none of the others, and its count, not being zero,
must come from the caller or the pool.

`PugiPages_proofs` proves, for any sets of documents, pages and nodes and any sizes that
satisfy `PugiAssumption` (null is none of them, documents are no pages and no nodes,
nodes are finitely many, a page holds at least four nodes, no string has size zero), of
`CarefulSpec`:

* `MemoryStaysInOrder`: `CarefulSpec => []PageInv`, and from it `SizesAndChainsHold`
  (`MemoryInv`) and `NodesStayOnOwnPages`;
* `NodesMoveTogether`: the action property `DocumentsMoveWhole`.

The argument. `MemOK(m, D, used)` is about a memory and a count of the units in use on
each page, not about a state: what is on the heap has an owner, roots are the last
pages of their documents, links mirror each other, and `busy` minus `freed` is the
count. Allocation, the return of a block, the return of all pages and the move each
keep it (`AllocationIsTaken`, `BlockIsGiven`, `ResetKeepsOrder`, `MoveKeepsOrder`),
whatever the state above looks like. The counts are cardinalities of nodes and of
pairs of a node and a unit of its string, which change by one node's share when one
node changes (`NodeComes`, `NodeGoes`, `TextComes`, `TextGoes`). That going back along
the links ends is said without induction (`LinksEnd`: every set of pages has one whose
predecessor is outside), from which every page of a document is found from it; trees
likewise (`ParentsEnd`). `OneAllocator` ties trees to pages: a node and its parent are
on pages of one owner. Hence everything below a document is on its pages and the
reverse (`Places`, `BelowIs`, `InItsDocument`), a moved document takes exactly its own
nodes with it, and the allocator passed to `destroy_node` is that of all it meets
(`DoomedOK`). A document from which nothing was allocated has no page of its own to
hand over; with it `MoveKeepsOrder` is false, which is the departure that section 3
describes and why these theorems are about `CarefulSpec`.

`XercesPool_proofs` proves, for any sets of nodes, buffers, names and blocks and any
sizes that satisfy `PoolAssumption` (null is none of them, sizes are not zero, a header
and the largest piece are below the range of `XMLSize_t`; of the sizes of blocks nothing
is assumed): `MemoryIsInOrder`: `Spec => []PoolInv`,
and from it type correctness, every property of the run and three more:
`PoolTypeCorrect`, `FreeBytesNeverWrap` (in blocks with room for a header and the largest
piece), `PiecesLieInside`,
`PiecesLieApart`, `BlocksGoBackOnce`, `NothingIsUsedTwice`, `CellsAreLargeEnough`,
`TextsStayInside`, `StringsOfNodesStay`, `BuffersGetNoSmaller`.

The argument. A call allocates several times, so the allocator's invariant `PoolOK` is
about a pool, not about a state, and each operator keeps it. Pieces stay apart
because what is free of the current block lies behind all its pieces (`Room`) and a
block of the second list has one piece (`Alone`), which is also why it may go back.
`Grown(p, q, S)` says what the rest of a state needs to know of any sequence of
allocations and losses: only the pointers in `S` changed, nothing went back, and
what got a block of its own got a new one. It composes (`GrownTwice`), so a
constructor that fails half way is the same lemma as one that succeeds. `PoolInv`
adds `CellsOK`, `BuffersOK` and `StringsOK`. The last is why `appendDataFast` is safe
for texts in use: a string in a block of its own, in which a buffer still has its
data, was given away by the text with that buffer, so when that text gave none
away, nobody in use reads what it releases.

`XercesPlatform_proofs` proves, for any clients beside the adapter and any
memory managers, documents and sizes that satisfy `PlatformAssumption`:
`PlatformIsSound`: `Spec => []PlatformInv`, and from it type correctness and
every property of the run: `PlatformTypeCorrect`, `NothingIsLeft`,
`ManagersAreReturned`, `DocumentsAreCovered`, `SizesAreStable`.

The argument. `Counted` says what `gInitFlag` counts: it is the cardinality of the set
of open calls, numbered per caller. Whoever still has a call open is in that set, so
another caller's `Terminate` finds at least 1 left and takes nothing down
(`Covered`: a document goes with an open call of whoever made it, the adapter's
document with the adapter's). With no call open nothing is set up and no manager
is in use (`Clean`), so the first `Initialize` after it finds neither a document nor
a manager; `Managed` says that the library's own managers are deleted exactly
when they are no longer in use.

`PugiCopy_proofs` proves, for any sets of documents, nodes and names that satisfy
`CopyAssumption` (null is none of them, documents are no nodes), whatever is copied, to
whatever place, and whichever allocations fail:

* `CopyStaysInOrder`: `Spec => []CopyInv`;
* `PointersKeepTogether`: `LoopInvariant`, what the comments and the assertions in the
  loop say;
* `CopiesAreExact`: `CopyIsExact`.

The argument. That the copy is inside the original is what makes it hard: the tree that
is walked changes under the walk. `CallOK` compares with what was there when the call began:
every node of the original still has the children it had, in order, and the copy perhaps
among them (`Kept`, and as positions `Embeds`). Original and copy stay apart
(`WalkOK`): all that is made is below the copy. How far the walk has come is said by what
exists, not by induction over the tree: there are a set `V` of nodes that have a twin
and the twins `t` (`Twins`), and a set `P` of nodes on the way from the root of the original
to the parent of `sit`, with the position `pos` at which the way leaves each of them
(`Path`); behind that position nothing has a twin yet. Each step gives the new witnesses:
`CopyNode` adds `sit` to `V` and, if it goes down, to `P`; `NextSibling` moves one
position; `GoUp` takes one node from `P`. `Exact` is what holds as long as no allocation
has failed: what the walk has passed has a twin, and the children of a twin are the
twins of the first children. That a new node then goes to the place of its original is
`CopyIsNext`: whatever stands before it has been passed. At the end `P` is empty, so
all that is reached from the root has a twin, and `t` is the map `CopyIsExact` asks for.

So every safety property that a run finds to hold is proved too. Only model-checked: the
liveness of `TinyXmlDocument` and `PugiCopy`. Liveness under fairness, `ENABLED`,
induction over data and recursive operators are out of the prover's reach; closures and
levels in the modules with theorems are therefore least sets and functions said to
exist, not recursive definitions.

## 5. Not modelled, and the plan

Not modelled:

* XercesSingleton: `XercesXmlWriter` and the string converters, which keep no state
  beyond one call (the serializer is given the document's encoding and its bytes are
  always decoded as UTF-8, Entry.cpp:468; `adopt` at line 478 leaks a buffer per call);
  wrappers in static objects that are destroyed after the singleton; the getters that
  are stubs; text beyond one value per node; the memory a replaced copy keeps in its
  document's pool until the document goes (line 147). That `CreateXmlDocument` loses its
  `DOMDocument` when a later step throws (line 627) is modelled, and no source claims
  the contrary.
* Memory of Xerces documents: string concatenation in attributes, ranges of a text
  that are deleted or replaced in place, node types besides elements and texts (they
  take cells and buffers the same way), the constructor of a document that fails (it
  catches and throws on without giving its blocks back, DOMDocumentImpl.cpp:168).
* Xerces-C: features the wrappers never use (ranges, iterators, namespaces, user
  data), document types and entity references, `createDocument` with a malformed
  name, parsers and serializers and who releases them
  (`TestParserFromFile` returns past the `delete` of its parser after an error,
  TestXerces.cpp:720). A fragment inserted into itself never ends (DOMParentNode.cpp:225);
  the step is modelled as the caller's error.
* Xerces-C's platform: user panic handlers, locales, callers on several threads, the
  overflow of `gInitFlag`, callers that give up without `Terminate`.
* TinyXML-2: attributes and their pool, cloning, the printer, the text of names and
  values. A node inserted below itself is the caller's error.
* Poco: `cloneNode`, `importNode`, `normalize`, document types, events, parser and writer.
  An empty fragment, whose null first child replaces the list it goes to, and a node
  inserted below itself are the caller's errors. An attribute that outlives its element
  keeps a pointer to it (Element.cpp:52); `NothingDangles` leaves that pointer out.
* pugixml: parser and printer, XPath, attributes (blocks like nodes), strings shared
  between a copy and its original, `append_buffer`, compact mode (not compiled in),
  handles used after their document (the caller's error, as the test's own comment
  says).
* Everything else under `lib/`: about a million lines of third-party code (Poco's
  network, data and PDF libraries, its bundled C libraries, Xerces-C's validators and
  transcoders) that no program of the repository calls. This is why the mapped share
  of all source lines is small although the repository's own state-changing code is
  covered.

Done: `XercesDom`, `XercesAdapter`, `XmlOwnership`, `XercesDocument`, `TinyXmlDocument`,
`PocoNodes`, `PugiPages`, `PugiCopy`, `XercesPool`, `XercesPlatform`; the inductive
invariants of all of these; every safety property that their runs find to hold, the
refinement included, as a theorem.

Left, most important first:

1. `XercesPlatform` composed with `XercesAdapter`, and parsers and writers released by
   hand below it.
2. TinyXML-2's attribute pool and `DeepClone` between documents.
