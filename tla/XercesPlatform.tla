--------------------------- MODULE XercesPlatform ---------------------------
(***************************************************************************)
(* XMLPlatformUtils: what Initialize sets up and Terminate takes down, for   *)
(* the parts of a program that call them in turn, from one thread. One of    *)
(* them is XercesAdapter, the singleton that initialises in its constructor  *)
(* and terminates in its destructor; the others keep to the manual: every    *)
(* Initialize, also one that threw, is matched by a Terminate, and documents *)
(* are released before it.                                                   *)
(***************************************************************************)
EXTENDS Naturals, Sequences, Functions

CONSTANTS
  Client,       (* parts of the program other than the adapter              *)
  Adapter,
  Plugged,      (* memory managers a client may bring                       *)
  Default,      (* MemoryManagerImpl objects; a bound on how many are made  *)
  Document,
  Sizes,        (* parameters of the DOM heap a client may ask for          *)
  FactorySizes, (* those the library starts with                            *)
  MaxCalls,     (* bound on the open Initialize calls of one part           *)
  Nil

ASSUME PlatformAssumption ==
  /\ Adapter \notin Client
  /\ Plugged \cap Default = {}
  /\ Nil \notin Plugged \cup Default \cup Sizes
  /\ FactorySizes # Nil
  /\ MaxCalls \in Nat \ {0}

VARIABLES
  gInitFlag,        (* Initialize calls that are not matched yet             *)
  have,             (* what Initialize has set up                            *)
  fgMemoryManager,
  fgMemMgrAdopted,
  made,             (* default managers that were created                    *)
  deleted,          (* managers that were deleted                            *)
  sizes,            (* the parameters of the DOM heap                        *)
  calls,            (* open Initialize calls, by caller                      *)
  returned,         (* callers with an open call that returned normally      *)
  docs,             (* unreleased documents: maker and manager, or Nil       *)
  adapter,          (* "none", "made" or "over": the singleton               *)
  status            (* "running", or how the program ended                   *)

manager == <<fgMemoryManager, fgMemMgrAdopted, made, deleted>>
counts == <<calls, returned>>
vars == <<gInitFlag, have, manager, sizes, counts, docs, adapter, status>>

Caller == Client \cup {Adapter}

(* What Initialize sets up, in this order. The last step makes the registry, *)
(* the DOM implementation and a document of the library's own.               *)
Steps ==
  <<"panicHandler", "mutexMgr", "fileMgr", "syncMutex", "atomicMutex",
    "transServiceData", "transService", "transcoder", "netAccessor",
    "locale", "staticData">>

(* Where an exception gets out: static data and the two missing services     *)
(* panic instead, which ends the program.                                    *)
ThrowingStep == {i \in DOMAIN Steps : Steps[i] # "staticData"}
PanicStep == {i \in DOMAIN Steps :
                Steps[i] \in {"transService", "transcoder", "staticData"}}

SetUpTo(i) == {Steps[j] : j \in 1 .. i}

Ready == "staticData" \in have

Init ==
  /\ gInitFlag = 0
  /\ have = {}
  /\ fgMemoryManager = Nil /\ fgMemMgrAdopted = TRUE
  /\ made = {} /\ deleted = {}
  /\ sizes = FactorySizes
  /\ calls = [p \in Caller |-> 0]
  /\ returned = {}
  /\ docs = [d \in Document |-> Nil]
  /\ adapter = "none"
  /\ status = "running"

-----------------------------------------------------------------------------
(* Initialize                                                                *)

(* The caller's manager, or a new one; it stays if there is one already.     *)
SetManager(m) ==
  IF fgMemoryManager # Nil THEN UNCHANGED manager
  ELSE IF m # Nil
       THEN /\ fgMemoryManager' = m
            /\ fgMemMgrAdopted' = FALSE
            /\ UNCHANGED <<made, deleted>>
       ELSE \E n \in Default \ made :
              /\ fgMemoryManager' = n
              /\ made' = made \cup {n}
              /\ UNCHANGED <<fgMemMgrAdopted, deleted>>

Called(p) ==
  /\ calls[p] < MaxCalls
  /\ calls' = [calls EXCEPT ![p] = @ + 1]
  /\ gInitFlag' = gInitFlag + 1

(* Only the first call sets up anything; the others count.                   *)
Initialize(p, m) ==
  /\ Called(p)
  /\ returned' = returned \cup {p}
  /\ IF gInitFlag = 0
     THEN SetManager(m) /\ have' = SetUpTo(Len(Steps))
     ELSE UNCHANGED <<manager, have>>

(* The first call throws after some steps, and is counted all the same.      *)
InitializeThrows(p, m) ==
  /\ gInitFlag = 0
  /\ Called(p)
  /\ \/ SetManager(m) /\ \E i \in ThrowingStep : have' = SetUpTo(i - 1)
     \/ m = Nil /\ have' = {} /\ UNCHANGED manager
  /\ UNCHANGED <<returned, sizes>>

(* Fault: a later call changes the sizes, too.                               *)
SizesAfterAnyCall(s) == IF s # Nil THEN s ELSE sizes

(* The DOM heap takes the caller's sizes if nobody else has initialised.     *)
SizesAfter(s) == IF s # Nil /\ gInitFlag' = 1 THEN s ELSE sizes

ClientInitialize(c, m, s) ==
  /\ Initialize(c, m)
  /\ sizes' = SizesAfter(s)
  /\ UNCHANGED <<docs, adapter, status>>

ClientInitializeThrows(c, m) ==
  /\ InitializeThrows(c, m)
  /\ UNCHANGED <<docs, adapter, status>>

(* DefaultPanicHandler::panic ends the program.                              *)
InitializePanics(p) ==
  /\ gInitFlag = 0
  /\ p = Adapter => adapter = "none"
  /\ \E i \in PanicStep : have' = SetUpTo(i - 1)
  /\ SetManager(Nil)
  /\ status' = "panicked"
  /\ UNCHANGED <<gInitFlag, sizes, counts, docs, adapter>>

-----------------------------------------------------------------------------
(* Terminate                                                                 *)

(* Fault: the net accessor is forgotten.                                     *)
ReleasedButAccessor == Range(Steps) \ {"netAccessor"}

Released == Range(Steps)

(* Fault: fgMemMgrAdopted is not set again after a plugged-in manager.       *)
CleanUpKeepsFlag ==
  /\ have' = have \ Released
  /\ deleted' = IF fgMemMgrAdopted THEN deleted \cup ({fgMemoryManager} \ {Nil})
                ELSE deleted
  /\ fgMemoryManager' = Nil
  /\ UNCHANGED <<made, fgMemMgrAdopted>>

(* Takes down what there is. The memory manager is deleted only if the       *)
(* library made it.                                                          *)
CleanUp ==
  /\ have' = have \ Released
  /\ deleted' = IF fgMemMgrAdopted THEN deleted \cup ({fgMemoryManager} \ {Nil})
                ELSE deleted
  /\ fgMemMgrAdopted' = TRUE
  /\ fgMemoryManager' = Nil
  /\ UNCHANGED made

(* Fault: the first Terminate cleans up, whoever else has initialised.       *)
IsAny == gInitFlag > 0

IsLast == gInitFlag = 1

(* The last call releases sDocument before anything else, and without asking *)
(* whether Initialize got as far as making it.                               *)
Terminate(p) ==
  /\ calls[p] > 0
  /\ calls' = [calls EXCEPT ![p] = @ - 1]
  /\ returned' = IF calls[p] = 1 THEN returned \ {p} ELSE returned
  /\ gInitFlag' = gInitFlag - 1
  /\ IF IsLast /\ Ready THEN CleanUp ELSE UNCHANGED <<have, manager>>
  /\ UNCHANGED sizes

ClientTerminate(c) ==
  /\ calls[c] = 1 => \A d \in Document : docs[d] # Nil => docs[d].by # c
  /\ Terminate(c)
  /\ status' = IF IsLast /\ ~Ready THEN "lostInTerminate" ELSE status
  /\ UNCHANGED <<docs, adapter>>

-----------------------------------------------------------------------------
(* Documents. createDocument takes the manager of the moment.                *)

MakeDocument(p, d) ==
  docs' = [docs EXCEPT ![d] = [by |-> p, mgr |-> fgMemoryManager']]

(* A client that had a normal return uses the library.                       *)
NewDocument(c, d) ==
  /\ c \in returned
  /\ docs[d] = Nil
  /\ UNCHANGED <<gInitFlag, have, manager, sizes, counts, adapter>>
  /\ IF Ready THEN MakeDocument(c, d) /\ UNCHANGED status
     ELSE status' = "lostInUse" /\ UNCHANGED docs

ReleaseDocument(c, d) ==
  /\ docs[d] # Nil
  /\ docs[d].by = c
  /\ docs' = [docs EXCEPT ![d] = Nil]
  /\ UNCHANGED <<gInitFlag, have, manager, sizes, counts, adapter, status>>

-----------------------------------------------------------------------------
(* XercesAdapter. The first use of GetInstance constructs it; when the       *)
(* constructor throws, the next use tries again.                             *)

GetInstance(d) ==
  /\ adapter = "none" /\ docs[d] = Nil
  /\ Initialize(Adapter, Nil) /\ UNCHANGED sizes
  /\ IF Ready'
     THEN MakeDocument(Adapter, d) /\ adapter' = "made" /\ UNCHANGED status
     ELSE status' = "lostInUse" /\ UNCHANGED <<docs, adapter>>

(* Initialize throws, the constructor swallows it and asks the registry,     *)
(* which locks a mutex that was never made.                                  *)
GetInstanceSwallows ==
  /\ adapter = "none"
  /\ InitializeThrows(Adapter, Nil)
  /\ status' = "lostInUse"
  /\ UNCHANGED <<docs, adapter>>

(* createDocument runs out of memory: the exception leaves the constructor,  *)
(* and no destructor will match its Initialize.                              *)
GetInstanceThrows ==
  /\ adapter = "none"
  /\ Initialize(Adapter, Nil)
  /\ Ready'
  /\ UNCHANGED <<sizes, docs, adapter, status>>

(* main returns when the clients have matched their calls. The destructor of *)
(* the singleton, if there is one, releases _dummyDoc and terminates.        *)
Exit ==
  /\ \A c \in Client : calls[c] = 0
  /\ status' = "exited"
  /\ IF adapter = "made"
     THEN /\ docs' = [d \in Document |-> Nil]
          /\ adapter' = "over"
          /\ Terminate(Adapter)
     ELSE UNCHANGED <<gInitFlag, have, manager, sizes, counts, docs, adapter>>

-----------------------------------------------------------------------------
Next ==
  /\ status = "running"
  /\ \/ \E c \in Client : \/ \E m \in Plugged \cup {Nil}, s \in Sizes \cup {Nil} :
                               ClientInitialize(c, m, s)
                          \/ \E m \in Plugged \cup {Nil} :
                               ClientInitializeThrows(c, m)
                          \/ ClientTerminate(c)
                          \/ \E d \in Document : \/ NewDocument(c, d)
                                                 \/ ReleaseDocument(c, d)
     \/ \E p \in Caller : InitializePanics(p)
     \/ \E d \in Document : GetInstance(d)
     \/ GetInstanceSwallows
     \/ GetInstanceThrows
     \/ Exit

Spec == Init /\ [][Next]_vars

-----------------------------------------------------------------------------
(* Types.                                                                    *)
TypeOK ==
  /\ gInitFlag \in Nat
  /\ have \subseteq Range(Steps)
  /\ fgMemoryManager \in Plugged \cup Default \cup {Nil}
  /\ fgMemMgrAdopted \in BOOLEAN
  /\ made \subseteq Default
  /\ deleted \subseteq Plugged \cup Default
  /\ sizes \in Sizes \cup {FactorySizes}
  /\ calls \in [Caller -> 0 .. MaxCalls]
  /\ returned \subseteq Caller
  /\ docs \in [Document -> [by : Caller, mgr : Plugged \cup Default] \cup {Nil}]
  /\ adapter \in {"none", "made", "over"}
  /\ status \in {"running", "panicked", "lostInTerminate", "lostInUse", "exited"}

(* When every call is matched, nothing the library set up is left, whoever   *)
(* called first and last and in between: Terminate undoes each step of       *)
(* Initialize. Left out is the program that a Terminate has crashed, which   *)
(* matched an Initialize that threw before sDocument was made                *)
(* (DOMDocumentTypeImpl.cpp:53).                                             *)
NothingLeftWhenMatched ==
  status \in {"running", "exited"} /\ (\A p \in Caller : calls[p] = 0) =>
     have = {} /\ fgMemoryManager = Nil

(* fgMemMgrAdopted is right through every change from a manager of the       *)
(* library's own to a plugged-in one and back: the library's own managers    *)
(* are deleted when they go out of use, and plugged-in ones never are.       *)
ManagersGoToOwners ==
  /\ deleted \cap Plugged = {}
  /\ made \ deleted = {fgMemoryManager} \cap Default

(* The manager a document took its memory from lives as long as the          *)
(* document, whatever other parts of the program terminate meanwhile.        *)
DocumentsKeepManager ==
  \A d \in Document : docs[d] # Nil =>
     Ready /\ docs[d].mgr = fgMemoryManager /\ docs[d].mgr \notin deleted

(* The parameters of the DOM heap do not change below a document of the      *)
(* program, which reads them at every growth. (The library's own sDocument,  *)
(* made within Initialize, is older than the sizes of that call.)            *)
SizesStayForDocuments ==
  [][(\E d \in Document : docs[d] # Nil) => sizes' = sizes]_vars

(* The program uses the library only when it is initialised.                 *)
UsedWhenInitialized == status # "lostInUse"

=============================================================================
