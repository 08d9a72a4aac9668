------------------------ MODULE XercesPlatform_proofs ------------------------
(***************************************************************************)
(* Proofs about XercesPlatform, for any callers, managers, documents and     *)
(* sizes. The count is the number of open calls; as soon as somebody has     *)
(* one, the platform is not taken down, and whoever has a document has one.  *)
(***************************************************************************)
EXTENDS XercesPlatform, FiniteSetTheorems, TLAPS

-----------------------------------------------------------------------------
(* The open calls, one by one.                                               *)
Open == {x \in Caller \X Nat : x[2] \in 1 .. calls[x[1]]}

(* gInitFlag is the number of open calls.                                    *)
Counted == IsFiniteSet(Open) /\ gInitFlag = Cardinality(Open)

(* The library's own managers: made before deleted, the one in use not yet;  *)
(* the flag is down exactly while a plugged-in one is in use.                *)
Managed ==
  /\ deleted \subseteq made
  /\ made \ deleted = {fgMemoryManager} \cap Default
  /\ fgMemMgrAdopted = (fgMemoryManager \notin Plugged)

(* Without an open call nothing is set up.                                   *)
Clean ==
  status \in {"running", "exited"} /\ gInitFlag = 0 =>
     have = {} /\ fgMemoryManager = Nil

HaveManager == Ready => fgMemoryManager # Nil

(* Documents, the adapter and normal returns go with an open call.           *)
Covered ==
  /\ \A d \in Document : docs[d] # Nil =>
       /\ Ready /\ docs[d].mgr = fgMemoryManager
       /\ calls[docs[d].by] > 0
       /\ docs[d].by = Adapter => adapter = "made"
  /\ adapter = "made" => Ready /\ calls[Adapter] > 0
  /\ \A p \in returned : calls[p] > 0

PlatformInv ==
  TypeOK /\ Counted /\ Managed /\ Clean /\ HaveManager /\ Covered

-----------------------------------------------------------------------------
(* The steps                                                                 *)

LEMMA StepsInOrder ==
  /\ Len(Steps) = 11
  /\ DOMAIN Steps = 1 .. 11
  /\ Steps[11] = "staticData"
  /\ \A i \in 1 .. 10 : Steps[i] # "staticData"
  /\ Range(Steps) = SetUpTo(11)
<1>1. Len(Steps) = 11 /\ DOMAIN Steps = 1 .. 11
  BY DEF Steps
<1>2. Steps[11] = "staticData"
  BY DEF Steps
<1>3. ASSUME NEW i \in 1 .. 10
      PROVE  Steps[i] # "staticData"
  <2>1. i \in {1, 2, 3, 4, 5, 6, 7, 8, 9, 10}
    OBVIOUS
  <2>2. QED
    BY <2>1 DEF Steps
<1>4. Range(Steps) = SetUpTo(11)
  BY <1>1 DEF Range, SetUpTo
<1>5. QED
  BY <1>1, <1>2, <1>3, <1>4

(* Everything is set up, or so little that static data is missing.           *)
LEMMA SetUp ==
  /\ SetUpTo(Len(Steps)) = Range(Steps)
  /\ "staticData" \in SetUpTo(Len(Steps))
  /\ \A i \in DOMAIN Steps : /\ SetUpTo(i - 1) \subseteq Range(Steps)
                             /\ "staticData" \notin SetUpTo(i - 1)
<1>1. "staticData" \in SetUpTo(11)
  BY StepsInOrder, 11 \in 1 .. 11 DEF SetUpTo
<1>2. ASSUME NEW i \in 1 .. 11
      PROVE  /\ SetUpTo(i - 1) \subseteq SetUpTo(11)
             /\ "staticData" \notin SetUpTo(i - 1)
  <2>1. \A j \in 1 .. i - 1 : j \in 1 .. 10 /\ j \in 1 .. 11
    OBVIOUS
  <2>2. QED
    BY <2>1, StepsInOrder DEF SetUpTo
<1>3. QED
  BY <1>1, <1>2, StepsInOrder
-----------------------------------------------------------------------------
(* Counting                                                                  *)

(* One more call, one more open.                                             *)
LEMMA OneMore ==
  ASSUME TypeOK, Counted, NEW p \in Caller, Called(p)
  PROVE  Counted' /\ gInitFlag' \in Nat \ {0} /\ gInitFlag' = gInitFlag + 1
         /\ calls' \in [Caller -> 0 .. MaxCalls] /\ calls'[p] > 0
         /\ \A q \in Caller : calls'[q] >= calls[q]
<1> DEFINE x == <<p, calls[p] + 1>>
<1>0. /\ calls \in [Caller -> 0 .. MaxCalls] /\ MaxCalls \in Nat
      /\ gInitFlag \in Nat
  BY PlatformAssumption DEF TypeOK
<1>1. calls' = [calls EXCEPT ![p] = @ + 1] /\ calls[p] < MaxCalls
      /\ gInitFlag' = gInitFlag + 1
  BY DEF Called
<1>2. calls' \in [Caller -> 0 .. MaxCalls] /\ calls'[p] = calls[p] + 1
      /\ \A q \in Caller \ {p} : calls'[q] = calls[q]
  BY <1>0, <1>1
<1>3. Open' = Open \cup {x}
  BY <1>0, <1>1, <1>2 DEF Open
<1>4. x \notin Open
  BY <1>0 DEF Open
<1>5. IsFiniteSet(Open') /\ Cardinality(Open') = Cardinality(Open) + 1
  BY <1>3, <1>4, FS_AddElement DEF Counted
<1>6. QED
  BY <1>0, <1>1, <1>2, <1>5 DEF Counted

(* One call matched, one less open.                                          *)
LEMMA OneLess ==
  ASSUME TypeOK, Counted, NEW p \in Caller, Terminate(p)
  PROVE  /\ Counted' /\ gInitFlag' \in Nat /\ gInitFlag \in Nat \ {0}
         /\ calls' \in [Caller -> 0 .. MaxCalls] /\ calls'[p] = calls[p] - 1
         /\ \A q \in Caller \ {p} : calls'[q] = calls[q]
<1> DEFINE x == <<p, calls[p]>>
<1>0. /\ calls \in [Caller -> 0 .. MaxCalls] /\ MaxCalls \in Nat
      /\ gInitFlag \in Nat
  BY PlatformAssumption DEF TypeOK
<1>1. calls' = [calls EXCEPT ![p] = @ - 1] /\ calls[p] > 0
      /\ gInitFlag' = gInitFlag - 1
  BY DEF Terminate
<1>2. calls' \in [Caller -> 0 .. MaxCalls] /\ calls'[p] = calls[p] - 1
      /\ \A q \in Caller \ {p} : calls'[q] = calls[q]
  BY <1>0, <1>1
<1>3. Open' = Open \ {x}
  BY <1>0, <1>1, <1>2 DEF Open
<1>4. x \in Open
  BY <1>0, <1>1 DEF Open
<1>5. IsFiniteSet(Open') /\ Cardinality(Open') = Cardinality(Open) - 1
  BY <1>3, <1>4, FS_RemoveElement DEF Counted
<1>6. Cardinality(Open) # 0
  BY <1>4, FS_EmptySet DEF Counted
<1>7. QED
  BY <1>0, <1>1, <1>2, <1>5, <1>6, FS_CardinalityType DEF Counted

(* Who has an open call keeps the count above zero; the only one to have a   *)
(* call open when the count is one has one.                                  *)
LEMMA OpenCounts ==
  ASSUME TypeOK, Counted
  PROVE  /\ \A p \in Caller : calls[p] > 0 => gInitFlag # 0
         /\ gInitFlag = 0 => \A p \in Caller : calls[p] = 0
         /\ (\A p \in Caller : calls[p] = 0) => gInitFlag = 0
         /\ \A p, q \in Caller :
              gInitFlag = 1 /\ calls[p] > 0 /\ calls[q] > 0 =>
                p = q /\ calls[p] = 1
<1>0. calls \in [Caller -> 0 .. MaxCalls] /\ MaxCalls \in Nat
  BY PlatformAssumption DEF TypeOK
<1>1. ASSUME NEW p \in Caller, calls[p] > 0
      PROVE  <<p, 1>> \in Open /\ <<p, calls[p]>> \in Open
  BY <1>0, <1>1 DEF Open
<1>2. gInitFlag = 0 <=> Open = {}
  BY FS_EmptySet DEF Counted
<1>3. (\A p \in Caller : calls[p] = 0) => Open = {}
  BY <1>0 DEF Open
<1>4. gInitFlag = 1 => \E x : Open = {x}
  BY FS_Singleton DEF Counted
<1>5. ASSUME NEW p \in Caller, NEW q \in Caller,
             gInitFlag = 1, calls[p] > 0, calls[q] > 0
      PROVE  p = q /\ calls[p] = 1
  <2>1. PICK x : Open = {x}
    BY <1>4, <1>5
  <2>2. <<p, 1>> = <<q, 1>> /\ <<p, 1>> = <<p, calls[p]>>
    BY <2>1, <1>1, <1>5
  <2>3. QED
    BY <2>2
<1>6. \A p \in Caller : ~(calls[p] > 0) => calls[p] = 0
  BY <1>0
<1>7. QED
  BY <1>1, <1>2, <1>3, <1>5, <1>6

-----------------------------------------------------------------------------
(* Managers                                                                  *)

LEMMA ManagerSet ==
  ASSUME TypeOK, Managed, NEW m \in Plugged \cup {Nil}, SetManager(m)
  PROVE  /\ Managed'
         /\ fgMemoryManager' \in Plugged \cup Default
         /\ fgMemMgrAdopted' \in BOOLEAN
         /\ made' \subseteq Default /\ deleted' \subseteq Plugged \cup Default
         /\ fgMemoryManager # Nil => fgMemoryManager' = fgMemoryManager
<1> USE PlatformAssumption
<1>1. CASE fgMemoryManager # Nil
  BY <1>1 DEF SetManager, manager, TypeOK, Managed
<1>2. CASE fgMemoryManager = Nil /\ m # Nil
  <2>1. /\ fgMemoryManager' = m /\ m \in Plugged /\ m \notin Default
        /\ fgMemMgrAdopted' = FALSE /\ made' = made /\ deleted' = deleted
    BY <1>2 DEF SetManager
  <2>2. made \ deleted = {}
    BY <1>2 DEF Managed
  <2>3. QED
    BY <1>2, <2>1, <2>2 DEF TypeOK, Managed
<1>3. CASE fgMemoryManager = Nil /\ m = Nil
  <2>1. PICK n \in Default \ made :
          /\ fgMemoryManager' = n /\ made' = made \cup {n}
          /\ fgMemMgrAdopted' = fgMemMgrAdopted /\ deleted' = deleted
    BY <1>3 DEF SetManager
  <2>2. made \ deleted = {} /\ n \notin deleted /\ n \notin Plugged
    BY <1>3 DEF Managed
  <2>3. fgMemMgrAdopted = TRUE
    BY <1>3 DEF Managed
  <2>4. QED
    BY <1>3, <2>1, <2>2, <2>3 DEF TypeOK, Managed
<1>4. QED
  BY <1>1, <1>2, <1>3

LEMMA CleanedUp ==
  ASSUME TypeOK, Managed, CleanUp
  PROVE  /\ Managed'
         /\ have' = {} /\ fgMemoryManager' = Nil
         /\ fgMemMgrAdopted' \in BOOLEAN
         /\ made' \subseteq Default /\ deleted' \subseteq Plugged \cup Default
<1> USE PlatformAssumption
<1>1. have' = {} /\ fgMemoryManager' = Nil /\ fgMemMgrAdopted' = TRUE
      /\ made' = made
  BY DEF CleanUp, TypeOK, Released
<1>2. CASE fgMemMgrAdopted
  <2>1. deleted' = deleted \cup ({fgMemoryManager} \ {Nil})
    BY <1>2 DEF CleanUp
  <2>2. fgMemoryManager \in Default \cup {Nil}
    BY <1>2 DEF Managed, TypeOK
  <2>3. fgMemoryManager # Nil => fgMemoryManager \in made
    BY <2>2 DEF Managed
  <2>4. QED
    BY <1>1, <2>1, <2>2, <2>3 DEF Managed, TypeOK
<1>3. CASE ~fgMemMgrAdopted
  <2>1. deleted' = deleted
    BY <1>3 DEF CleanUp
  <2>2. fgMemoryManager \in Plugged
    BY <1>3 DEF Managed
  <2>3. QED
    BY <1>1, <2>1, <2>2 DEF Managed, TypeOK
<1>4. QED
  BY <1>2, <1>3

-----------------------------------------------------------------------------
(* The calls                                                                 *)

(* What the caller's part of a call leaves to be shown.                      *)
CallTypes ==
  /\ gInitFlag \in Nat
  /\ have \subseteq Range(Steps)
  /\ fgMemoryManager \in Plugged \cup Default \cup {Nil}
  /\ fgMemMgrAdopted \in BOOLEAN
  /\ made \subseteq Default
  /\ deleted \subseteq Plugged \cup Default
  /\ calls \in [Caller -> 0 .. MaxCalls]
  /\ returned \subseteq Caller

(* The first Initialize finds nothing set up.                                *)
LEMMA FirstFindsNothing ==
  ASSUME PlatformInv, status = "running", gInitFlag = 0
  PROVE  /\ have = {} /\ fgMemoryManager = Nil /\ ~Ready
         /\ docs = [d \in Document |-> Nil]
         /\ adapter # "made" /\ returned = {}
<1>1. have = {} /\ fgMemoryManager = Nil
  BY DEF PlatformInv, Clean
<1>2. ~Ready
  BY <1>1 DEF Ready
<1>3. \A d \in Document : docs[d] = Nil
  BY <1>2 DEF PlatformInv, Covered
<1>4. docs = [d \in Document |-> Nil]
  BY <1>3 DEF PlatformInv, TypeOK
<1>5. returned = {}
  BY OpenCounts DEF PlatformInv, Covered, TypeOK
<1>6. QED
  BY <1>1, <1>2, <1>4, <1>5 DEF PlatformInv, Covered

LEMMA InitializeKeeps ==
  ASSUME PlatformInv, status = "running", NEW p \in Caller,
         NEW m \in Plugged \cup {Nil}, Initialize(p, m)
  PROVE  /\ CallTypes' /\ Counted' /\ Managed' /\ HaveManager'
         /\ gInitFlag' # 0 /\ gInitFlag' = gInitFlag + 1
         /\ gInitFlag # 0 => have' = have /\ fgMemoryManager' = fgMemoryManager
         /\ \A q \in returned' : calls'[q] > 0
         /\ \A q \in Caller : calls[q] > 0 => calls'[q] > 0
         /\ calls'[p] > 0
<1>1. /\ Counted' /\ gInitFlag' \in Nat \ {0} /\ gInitFlag' = gInitFlag + 1
      /\ calls' \in [Caller -> 0 .. MaxCalls] /\ calls'[p] > 0
      /\ \A q \in Caller : calls'[q] >= calls[q]
  BY OneMore DEF PlatformInv, Initialize
<1>2. \A q \in Caller : calls[q] > 0 => calls'[q] > 0
  BY <1>1, PlatformAssumption DEF PlatformInv, TypeOK
<1>3. returned' = returned \cup {p} /\ returned \subseteq Caller
  BY DEF Initialize, PlatformInv, TypeOK
<1>4. \A q \in returned' : calls'[q] > 0
  BY <1>1, <1>2, <1>3 DEF PlatformInv, Covered
<1>5. CASE gInitFlag = 0
  <2>1. SetManager(m) /\ have' = SetUpTo(Len(Steps))
    BY <1>5 DEF Initialize
  <2>2. /\ Managed' /\ fgMemoryManager' \in Plugged \cup Default
        /\ fgMemMgrAdopted' \in BOOLEAN
        /\ made' \subseteq Default /\ deleted' \subseteq Plugged \cup Default
    BY <2>1, ManagerSet DEF PlatformInv
  <2>3. have' \subseteq Range(Steps)
    BY <2>1, SetUp
  <2>4. HaveManager'
    BY <2>2, PlatformAssumption DEF HaveManager
  <2>5. QED
    BY <1>1, <1>2, <1>3, <1>4, <1>5, <2>2, <2>3, <2>4 DEF CallTypes
<1>6. CASE gInitFlag # 0
  <2>1. UNCHANGED <<manager, have>>
    BY <1>6 DEF Initialize
  <2>2. QED
    BY <1>1, <1>2, <1>3, <1>4, <2>1
    DEF CallTypes, PlatformInv, TypeOK, Managed, HaveManager, Ready, manager
<1>7. QED
  BY <1>5, <1>6

LEMMA InitializeThrowsKeeps ==
  ASSUME PlatformInv, status = "running", NEW p \in Caller,
         NEW m \in Plugged \cup {Nil}, InitializeThrows(p, m)
  PROVE  /\ CallTypes' /\ Counted' /\ Managed' /\ HaveManager'
         /\ gInitFlag' # 0 /\ gInitFlag = 0
         /\ returned' = {} /\ sizes' = sizes
<1>1. /\ Counted' /\ gInitFlag' \in Nat \ {0}
      /\ calls' \in [Caller -> 0 .. MaxCalls]
  BY OneMore DEF PlatformInv, InitializeThrows
<1>2. gInitFlag = 0 /\ returned' = returned /\ sizes' = sizes
  BY DEF InitializeThrows
<1>3. /\ have = {} /\ fgMemoryManager = Nil /\ returned = {}
  BY <1>2, FirstFindsNothing
<1>4. /\ Managed' /\ have' \subseteq Range(Steps) /\ "staticData" \notin have'
      /\ fgMemoryManager' \in Plugged \cup Default \cup {Nil}
      /\ fgMemMgrAdopted' \in BOOLEAN
      /\ made' \subseteq Default /\ deleted' \subseteq Plugged \cup Default
  <2>1. CASE SetManager(m) /\ \E i \in ThrowingStep : have' = SetUpTo(i - 1)
    <3>1. \A i \in ThrowingStep : i \in DOMAIN Steps
      BY DEF ThrowingStep
    <3>2. have' \subseteq Range(Steps) /\ "staticData" \notin have'
      BY <2>1, <3>1, SetUp
    <3>3. QED
      BY <2>1, <3>2, ManagerSet DEF PlatformInv
  <2>2. CASE m = Nil /\ have' = {} /\ UNCHANGED manager
    BY <2>2 DEF PlatformInv, TypeOK, Managed, manager
  <2>3. QED
    BY <2>1, <2>2 DEF InitializeThrows
<1>5. QED
  BY <1>1, <1>2, <1>3, <1>4 DEF CallTypes, HaveManager, Ready

(* What Terminate counts, whatever it takes down.                            *)
LEMMA TerminateCounts ==
  ASSUME PlatformInv, NEW p \in Caller, Terminate(p)
  PROVE  /\ Counted' /\ gInitFlag' \in Nat
         /\ gInitFlag' = 0 <=> IsLast
         /\ calls' \in [Caller -> 0 .. MaxCalls] /\ calls'[p] = calls[p] - 1
         /\ \A q \in Caller \ {p} : calls'[q] = calls[q]
         /\ returned' \subseteq Caller
         /\ \A q \in returned' : calls'[q] > 0
         /\ sizes' = sizes
<1>1. /\ Counted' /\ gInitFlag' \in Nat /\ gInitFlag \in Nat \ {0}
      /\ calls' \in [Caller -> 0 .. MaxCalls] /\ calls'[p] = calls[p] - 1
      /\ \A q \in Caller \ {p} : calls'[q] = calls[q]
  BY OneLess DEF PlatformInv
<1>2. gInitFlag' = gInitFlag - 1 /\ sizes' = sizes
  BY DEF Terminate
<1>3. gInitFlag' = 0 <=> IsLast
  BY <1>1, <1>2 DEF IsLast
<1>4. /\ returned' \subseteq returned
      /\ calls[p] = 1 => p \notin returned'
      /\ returned \subseteq Caller
      /\ calls[p] \in Nat /\ calls[p] > 0
  BY PlatformAssumption DEF Terminate, PlatformInv, TypeOK
<1>5. \A q \in returned' : calls'[q] > 0
  BY <1>1, <1>4 DEF PlatformInv, Covered
<1>6. QED
  BY <1>1, <1>2, <1>3, <1>4, <1>5

(* Terminate takes everything down in the last call, and nothing before it.  *)
LEMMA TerminateKeeps ==
  ASSUME PlatformInv, NEW p \in Caller, Terminate(p),
         IsLast => Ready
  PROVE  /\ CallTypes' /\ Managed' /\ HaveManager'
         /\ IsLast => have' = {} /\ fgMemoryManager' = Nil
         /\ ~IsLast => have' = have /\ fgMemoryManager' = fgMemoryManager
<1>1. /\ gInitFlag' \in Nat /\ calls' \in [Caller -> 0 .. MaxCalls]
      /\ returned' \subseteq Caller
  BY TerminateCounts
<1>2. CASE IsLast
  <2>1. CleanUp
    BY <1>2 DEF Terminate
  <2>2. QED
    BY <1>1, <1>2, <2>1, CleanedUp
    DEF PlatformInv, CallTypes, HaveManager, Ready
<1>3. CASE ~IsLast
  <2>1. UNCHANGED <<have, manager>>
    BY <1>3 DEF Terminate
  <2>2. QED
    BY <1>1, <1>3, <2>1
    DEF PlatformInv, TypeOK, CallTypes, Managed, HaveManager, Ready, manager
<1>4. QED
  BY <1>2, <1>3

-----------------------------------------------------------------------------
(* Every step keeps the invariant                                            *)

LEMMA InitHasIt == Init => PlatformInv
<1> SUFFICES ASSUME Init PROVE PlatformInv
  OBVIOUS
<1>1. TypeOK
  BY PlatformAssumption DEF Init, TypeOK
<1>2. Open = {}
  BY DEF Init, Open
<1>3. Counted
  BY <1>2, FS_EmptySet DEF Init, Counted
<1>4. Managed /\ Clean /\ HaveManager /\ Covered
  BY PlatformAssumption DEF Init, Managed, Clean, HaveManager, Ready, Covered
<1>5. QED
  BY <1>1, <1>3, <1>4 DEF PlatformInv

LEMMA ClientInitializeKeepsIt ==
  ASSUME PlatformInv, status = "running", NEW c \in Client,
         NEW m \in Plugged \cup {Nil}, NEW s \in Sizes \cup {Nil},
         ClientInitialize(c, m, s)
  PROVE  PlatformInv'
<1>1. c \in Caller
  BY DEF Caller
<1>2. Initialize(c, m) /\ sizes' = SizesAfter(s) /\ UNCHANGED <<docs, adapter, status>>
  BY DEF ClientInitialize
<1>3. /\ CallTypes' /\ Counted' /\ Managed' /\ HaveManager'
      /\ gInitFlag' # 0
      /\ gInitFlag # 0 => have' = have /\ fgMemoryManager' = fgMemoryManager
      /\ \A q \in returned' : calls'[q] > 0
      /\ \A q \in Caller : calls[q] > 0 => calls'[q] > 0
  BY <1>1, <1>2, InitializeKeeps
<1>4. TypeOK'
  BY <1>2, <1>3 DEF CallTypes, TypeOK, PlatformInv, SizesAfter
<1>5. Clean'
  BY <1>3 DEF Clean
<1>6. Covered'
  <2>1. CASE gInitFlag = 0
    BY <2>1, <1>2, <1>3, FirstFindsNothing DEF Covered
  <2>2. CASE gInitFlag # 0
    <3>1. \A d \in Document : docs[d] # Nil => docs[d].by \in Caller
      BY DEF PlatformInv, TypeOK
    <3>2. Adapter \in Caller
      BY DEF Caller
    <3>3. QED
      BY <2>2, <3>1, <3>2, <1>2, <1>3 DEF PlatformInv, Covered, Ready
  <2>3. QED
    BY <2>1, <2>2
<1>7. QED
  BY <1>3, <1>4, <1>5, <1>6 DEF PlatformInv

(* A failed first call leaves nobody with anything but open calls.           *)
LEMMA ThrowKeepsIt ==
  ASSUME PlatformInv, status = "running", NEW p \in Caller,
         NEW m \in Plugged \cup {Nil}, InitializeThrows(p, m),
         UNCHANGED <<docs, adapter>>,
         status' \in {"running", "lostInUse"}
  PROVE  PlatformInv'
<1>1. /\ CallTypes' /\ Counted' /\ Managed' /\ HaveManager'
      /\ gInitFlag' # 0 /\ gInitFlag = 0 /\ returned' = {} /\ sizes' = sizes
  BY InitializeThrowsKeeps
<1>2. docs = [d \in Document |-> Nil] /\ adapter # "made"
  BY <1>1, FirstFindsNothing
<1>3. TypeOK'
  BY <1>1 DEF CallTypes, TypeOK, PlatformInv
<1>4. Clean' /\ Covered'
  BY <1>1, <1>2 DEF Clean, Covered
<1>5. QED
  BY <1>1, <1>3, <1>4 DEF PlatformInv

LEMMA PanicKeepsIt ==
  ASSUME PlatformInv, status = "running", NEW p \in Caller, InitializePanics(p)
  PROVE  PlatformInv'
<1>1. /\ gInitFlag = 0 /\ SetManager(Nil) /\ status' = "panicked"
      /\ UNCHANGED <<gInitFlag, sizes, calls, returned, docs, adapter>>
      /\ \E i \in PanicStep : have' = SetUpTo(i - 1)
  BY DEF InitializePanics, counts
<1>2. docs = [d \in Document |-> Nil] /\ adapter # "made" /\ returned = {}
  BY <1>1, FirstFindsNothing
<1>3. have' \subseteq Range(Steps) /\ "staticData" \notin have'
  BY <1>1, SetUp DEF PanicStep
<1>4. /\ Managed' /\ fgMemoryManager' \in Plugged \cup Default
      /\ fgMemMgrAdopted' \in BOOLEAN
      /\ made' \subseteq Default /\ deleted' \subseteq Plugged \cup Default
  BY <1>1, ManagerSet DEF PlatformInv
<1>5. TypeOK'
  BY <1>1, <1>3, <1>4 DEF PlatformInv, TypeOK
<1>6. Counted'
  BY <1>1 DEF PlatformInv, Counted, Open
<1>7. Clean' /\ HaveManager' /\ Covered'
  BY <1>1, <1>2, <1>3 DEF Clean, HaveManager, Ready, Covered
<1>8. QED
  BY <1>4, <1>5, <1>6, <1>7 DEF PlatformInv

(* The last open call of a client that keeps to the manual, and so of        *)
(* anybody: there are no documents, and no adapter.                          *)
LEMMA LastIsAlone ==
  ASSUME PlatformInv, NEW c \in Client, IsLast, calls[c] > 0,
         calls[c] = 1 => \A d \in Document : docs[d] # Nil => docs[d].by # c
  PROVE  docs = [d \in Document |-> Nil] /\ adapter # "made"
<1>1. c \in Caller /\ Adapter \in Caller /\ c # Adapter
  BY PlatformAssumption DEF Caller
<1>2. gInitFlag = 1
  BY DEF IsLast
<1>3. \A q \in Caller : calls[q] > 0 => q = c /\ calls[c] = 1
  BY <1>1, <1>2, OpenCounts DEF PlatformInv
<1>4. ASSUME NEW d \in Document, docs[d] # Nil
      PROVE  FALSE
  <2>1. docs[d].by \in Caller /\ calls[docs[d].by] > 0
    BY <1>4 DEF PlatformInv, TypeOK, Covered
  <2>2. docs[d].by = c /\ calls[c] = 1
    BY <2>1, <1>3
  <2>3. QED
    BY <2>2, <1>4
<1>5. docs = [d \in Document |-> Nil]
  BY <1>4 DEF PlatformInv, TypeOK
<1>6. QED
  BY <1>1, <1>3, <1>5 DEF PlatformInv, Covered

LEMMA ClientTerminateKeepsIt ==
  ASSUME PlatformInv, status = "running", NEW c \in Client, ClientTerminate(c)
  PROVE  PlatformInv'
<1>1. /\ c \in Caller /\ c # Adapter /\ Adapter \in Caller
  BY PlatformAssumption DEF Caller
<1>2. /\ Terminate(c) /\ UNCHANGED <<docs, adapter>>
      /\ status' = IF IsLast /\ ~Ready THEN "lostInTerminate" ELSE status
      /\ calls[c] > 0
      /\ calls[c] = 1 => \A d \in Document : docs[d] # Nil => docs[d].by # c
  BY DEF ClientTerminate, Terminate
<1>3. /\ Counted' /\ gInitFlag' \in Nat
      /\ gInitFlag' = 0 <=> IsLast
      /\ calls' \in [Caller -> 0 .. MaxCalls] /\ calls'[c] = calls[c] - 1
      /\ \A q \in Caller \ {c} : calls'[q] = calls[q]
      /\ returned' \subseteq Caller
      /\ \A q \in returned' : calls'[q] > 0
      /\ sizes' = sizes
  BY <1>1, <1>2, TerminateCounts
<1>4. CASE IsLast
  <2>1. docs = [d \in Document |-> Nil] /\ adapter # "made"
    BY <1>2, <1>4, LastIsAlone
  <2>2. Covered'
    BY <2>1, <1>2, <1>3 DEF Covered
  <2>3. CASE Ready
    <3>1. /\ CallTypes' /\ Managed' /\ HaveManager'
          /\ have' = {} /\ fgMemoryManager' = Nil
      BY <1>1, <1>2, <1>4, <2>3, TerminateKeeps
    <3>2. TypeOK' /\ Clean'
      BY <1>2, <1>3, <3>1 DEF CallTypes, TypeOK, PlatformInv, Clean
    <3>3. QED
      BY <1>3, <2>2, <3>1, <3>2 DEF PlatformInv
  <2>4. CASE ~Ready
    <3>1. UNCHANGED <<have, manager>> /\ status' = "lostInTerminate"
      BY <1>2, <1>4, <2>4 DEF Terminate
    <3>2. TypeOK' /\ Clean' /\ Managed' /\ HaveManager'
      BY <1>2, <1>3, <3>1
      DEF TypeOK, PlatformInv, Clean, Managed, HaveManager, Ready, manager
    <3>3. QED
      BY <1>3, <2>2, <3>2 DEF PlatformInv
  <2>5. QED
    BY <2>3, <2>4
<1>5. CASE ~IsLast
  <2>1. /\ CallTypes' /\ Managed' /\ HaveManager'
        /\ have' = have /\ fgMemoryManager' = fgMemoryManager
    BY <1>1, <1>2, <1>5, TerminateKeeps
  <2>2. TypeOK' /\ Clean'
    BY <1>2, <1>3, <1>5, <2>1 DEF CallTypes, TypeOK, PlatformInv, Clean
  <2>3. ASSUME NEW d \in Document, docs[d] # Nil
        PROVE  calls'[docs[d].by] > 0
    <3>1. docs[d].by \in Caller /\ calls[docs[d].by] > 0
      BY <2>3 DEF PlatformInv, TypeOK, Covered
    <3>2. CASE docs[d].by = c
      <4>1. calls[c] # 1 /\ calls[c] \in Nat
        BY <1>1, <1>2, <3>2, <2>3, PlatformAssumption DEF PlatformInv, TypeOK
      <4>2. QED
        BY <4>1, <1>2, <1>3, <3>2
    <3>3. QED
      BY <1>3, <3>1, <3>2
  <2>4. Covered'
    BY <1>1, <1>2, <1>3, <2>1, <2>3 DEF PlatformInv, Covered, Ready
  <2>5. QED
    BY <1>3, <2>1, <2>2, <2>4 DEF PlatformInv
<1>6. QED
  BY <1>4, <1>5

LEMMA DocumentKeepsIt ==
  ASSUME PlatformInv, status = "running", NEW c \in Client, NEW d \in Document,
         NewDocument(c, d) \/ ReleaseDocument(c, d)
  PROVE  PlatformInv'
<1>1. c \in Caller /\ c # Adapter
  BY PlatformAssumption DEF Caller
<1>2. UNCHANGED <<gInitFlag, have, fgMemoryManager, fgMemMgrAdopted, made,
                  deleted, sizes, calls, returned, adapter>>
  BY DEF NewDocument, ReleaseDocument, manager, counts
<1>3. Counted' /\ Managed' /\ HaveManager'
  BY <1>2 DEF PlatformInv, Counted, Open, Managed, HaveManager, Ready
<1>4. CASE NewDocument(c, d) /\ Ready
  <2>1. /\ docs' = [docs EXCEPT ![d] = [by |-> c, mgr |-> fgMemoryManager]]
        /\ status' = status /\ c \in returned
    BY <1>2, <1>4 DEF NewDocument, MakeDocument
  <2>2. fgMemoryManager \in Plugged \cup Default
    BY <1>4 DEF PlatformInv, HaveManager, TypeOK
  <2>3. TypeOK'
    BY <1>1, <1>2, <2>1, <2>2 DEF PlatformInv, TypeOK
  <2>4. Clean'
    BY <1>2, <2>1 DEF PlatformInv, Clean
  <2>5. Covered'
    BY <1>1, <1>2, <1>4, <2>1 DEF PlatformInv, Covered, TypeOK, Ready
  <2>6. QED
    BY <1>3, <2>3, <2>4, <2>5 DEF PlatformInv
<1>5. CASE NewDocument(c, d) /\ ~Ready
  <2>1. docs' = docs /\ status' = "lostInUse"
    BY <1>5 DEF NewDocument
  <2>2. TypeOK' /\ Clean' /\ Covered'
    BY <1>2, <2>1 DEF PlatformInv, TypeOK, Clean, Covered, Ready
  <2>3. QED
    BY <1>3, <2>2 DEF PlatformInv
<1>6. CASE ReleaseDocument(c, d)
  <2>1. docs' = [docs EXCEPT ![d] = Nil] /\ status' = status
    BY <1>6 DEF ReleaseDocument
  <2>2. TypeOK' /\ Clean' /\ Covered'
    BY <1>2, <2>1 DEF PlatformInv, TypeOK, Clean, Covered, Ready
  <2>3. QED
    BY <1>3, <2>2 DEF PlatformInv
<1>7. QED
  BY <1>4, <1>5, <1>6

-----------------------------------------------------------------------------
(* The adapter                                                               *)

LEMMA GetInstanceKeepsIt ==
  ASSUME PlatformInv, status = "running",
         GetInstanceThrows \/ \E d \in Document : GetInstance(d)
  PROVE  PlatformInv'
<1>1. Adapter \in Caller /\ Nil \in Plugged \cup {Nil}
  BY DEF Caller
<1>2. Initialize(Adapter, Nil) /\ sizes' = sizes /\ adapter = "none"
  BY DEF GetInstance, GetInstanceThrows
<1>3. /\ CallTypes' /\ Counted' /\ Managed' /\ HaveManager'
      /\ gInitFlag' # 0
      /\ gInitFlag # 0 => have' = have /\ fgMemoryManager' = fgMemoryManager
      /\ \A q \in returned' : calls'[q] > 0
      /\ \A q \in Caller : calls[q] > 0 => calls'[q] > 0
      /\ calls'[Adapter] > 0
  BY <1>1, <1>2, InitializeKeeps
<1>4. Clean'
  BY <1>3 DEF Clean
<1>5. ASSUME NEW e \in Document, docs[e] # Nil
      PROVE  /\ Ready' /\ docs[e].mgr = fgMemoryManager'
             /\ calls'[docs[e].by] > 0 /\ docs[e].by # Adapter
  <2>1. gInitFlag # 0
    BY <1>5, FirstFindsNothing
  <2>2. docs[e].by \in Caller
    BY <1>5 DEF PlatformInv, TypeOK
  <2>3. QED
    BY <1>2, <1>3, <1>5, <2>1, <2>2 DEF PlatformInv, Covered, Ready
<1>6. CASE \E d \in Document : GetInstance(d) /\ Ready'
  <2>1. PICK d \in Document : GetInstance(d) /\ Ready'
    BY <1>6
  <2>2. /\ docs' = [docs EXCEPT ![d] = [by |-> Adapter, mgr |-> fgMemoryManager']]
        /\ adapter' = "made" /\ status' = status
    BY <2>1 DEF GetInstance, MakeDocument
  <2>3. fgMemoryManager' \in Plugged \cup Default
    BY <1>3, <2>1 DEF HaveManager, CallTypes
  <2>4. TypeOK'
    BY <1>1, <1>2, <1>3, <2>2, <2>3 DEF PlatformInv, TypeOK, CallTypes
  <2>5. Covered'
    BY <1>3, <1>5, <2>1, <2>2 DEF PlatformInv, Covered, TypeOK
  <2>6. QED
    BY <1>3, <1>4, <2>4, <2>5 DEF PlatformInv
<1>7. CASE GetInstanceThrows \/ \E d \in Document : GetInstance(d) /\ ~Ready'
  <2>1. docs' = docs /\ adapter' = adapter
        /\ status' \in {"running", "lostInUse"}
    BY <1>7 DEF GetInstanceThrows, GetInstance
  <2>2. TypeOK'
    BY <1>2, <1>3, <2>1 DEF PlatformInv, TypeOK, CallTypes
  <2>3. Covered'
    BY <1>2, <1>3, <1>5, <2>1 DEF Covered
  <2>4. QED
    BY <1>3, <1>4, <2>2, <2>3 DEF PlatformInv
<1>8. QED
  BY <1>6, <1>7

LEMMA ExitKeepsIt ==
  ASSUME PlatformInv, status = "running", Exit
  PROVE  PlatformInv'
<1>1. status' = "exited" /\ Adapter \in Caller
  BY DEF Exit, Caller
<1>2. CASE adapter = "made"
  <2>1. /\ docs' = [d \in Document |-> Nil] /\ adapter' = "over"
        /\ Terminate(Adapter)
    BY <1>2 DEF Exit
  <2>2. Ready
    BY <1>2 DEF PlatformInv, Covered
  <2>3. /\ Counted' /\ gInitFlag' \in Nat
        /\ gInitFlag' = 0 <=> IsLast
        /\ \A q \in returned' : calls'[q] > 0
        /\ sizes' = sizes
    BY <1>1, <2>1, TerminateCounts
  <2>4. /\ CallTypes' /\ Managed' /\ HaveManager'
        /\ IsLast => have' = {} /\ fgMemoryManager' = Nil
    BY <1>1, <2>1, <2>2, TerminateKeeps
  <2>5. TypeOK' /\ Clean' /\ Covered'
    BY <1>1, <2>1, <2>3, <2>4
    DEF PlatformInv, TypeOK, CallTypes, Clean, Covered
  <2>6. QED
    BY <2>3, <2>4, <2>5 DEF PlatformInv
<1>3. CASE adapter # "made"
  <2>1. UNCHANGED <<gInitFlag, have, fgMemoryManager, fgMemMgrAdopted, made,
                    deleted, sizes, calls, returned, docs, adapter>>
    BY <1>3 DEF Exit, manager, counts
  <2>2. QED
    BY <1>1, <2>1
    DEF PlatformInv, TypeOK, Counted, Open, Managed, Clean, HaveManager,
        Covered, Ready
<1>4. QED
  BY <1>2, <1>3

-----------------------------------------------------------------------------
(* The invariant, and what follows from it                                   *)

LEMMA StepKeepsIt == PlatformInv /\ [Next]_vars => PlatformInv'
<1> SUFFICES ASSUME PlatformInv, [Next]_vars PROVE PlatformInv'
  OBVIOUS
<1>1. CASE UNCHANGED vars
  BY <1>1 DEF vars, manager, counts, PlatformInv, TypeOK, Counted, Open,
              Managed, Clean, HaveManager, Covered, Ready
<1>2. CASE Next
  <2>1. status = "running" /\ Adapter \in Caller
        /\ \A c \in Client : c \in Caller
    BY <1>2 DEF Next, Caller
  <2>2. ASSUME NEW c \in Client, NEW m \in Plugged \cup {Nil},
               ClientInitializeThrows(c, m)
        PROVE  PlatformInv'
    BY <2>1, <2>2, ThrowKeepsIt DEF ClientInitializeThrows
  <2>3. ASSUME GetInstanceSwallows
        PROVE  PlatformInv'
    BY <2>1, <2>3, ThrowKeepsIt, Nil \in Plugged \cup {Nil}
    DEF GetInstanceSwallows
  <2>4. QED
    BY <1>2, <2>1, <2>2, <2>3, ClientInitializeKeepsIt, ClientTerminateKeepsIt,
       DocumentKeepsIt, PanicKeepsIt, GetInstanceKeepsIt, ExitKeepsIt
    DEF Next
<1>3. QED
  BY <1>1, <1>2

(* What makes the platform right in every state, whoever calls it.           *)
THEOREM PlatformIsSound == Spec => []PlatformInv
<1>1. QED
  BY InitHasIt, StepKeepsIt, PTL DEF Spec

(* Type correctness of XMLPlatformUtils and its callers.                     *)
THEOREM PlatformTypeCorrect == Spec => []TypeOK
<1>1. PlatformInv => TypeOK
  BY DEF PlatformInv
<1>2. QED
  BY <1>1, PlatformIsSound, PTL

(* When every Initialize is matched, Terminate has undone every step of it,  *)
(* if it did not crash on one that was half done.                            *)
THEOREM NothingIsLeft == Spec => []NothingLeftWhenMatched
<1>1. PlatformInv => NothingLeftWhenMatched
  BY OpenCounts DEF PlatformInv, Clean, NothingLeftWhenMatched
<1>2. QED
  BY <1>1, PlatformIsSound, PTL

(* The library deletes its own memory managers, and those only.              *)
THEOREM ManagersAreReturned == Spec => []ManagersGoToOwners
<1>1. PlatformInv => ManagersGoToOwners
  BY PlatformAssumption
  DEF PlatformInv, TypeOK, Managed, ManagersGoToOwners
<1>2. QED
  BY <1>1, PlatformIsSound, PTL

(* Nobody's Terminate takes the memory manager from under a document.        *)
THEOREM DocumentsAreCovered == Spec => []DocumentsKeepManager
<1>1. ASSUME PlatformInv
      PROVE  DocumentsKeepManager
  <2>1. ASSUME NEW d \in Document, docs[d] # Nil
        PROVE  /\ Ready /\ docs[d].mgr = fgMemoryManager
               /\ docs[d].mgr \notin deleted
    <3>1. /\ Ready /\ docs[d].mgr = fgMemoryManager
          /\ docs[d].mgr \in Plugged \cup Default
      BY <1>1, <2>1 DEF PlatformInv, Covered, TypeOK
    <3>2. QED
      BY <1>1, <3>1, PlatformAssumption DEF PlatformInv, Managed, TypeOK
  <2>2. QED
    BY <2>1 DEF DocumentsKeepManager
<1>2. QED
  BY <1>1, PlatformIsSound, PTL

(* The sizes of the DOM heap do not change below a document.                 *)
THEOREM SizesAreStable == Spec => SizesStayForDocuments
<1>1. ASSUME PlatformInv, [Next]_vars, NEW d \in Document, docs[d] # Nil
      PROVE  sizes' = sizes
  <2>1. CASE UNCHANGED vars
    BY <2>1 DEF vars
  <2>2. ASSUME NEW c \in Client, NEW m \in Plugged \cup {Nil},
               NEW s \in Sizes \cup {Nil}, ClientInitialize(c, m, s),
               status = "running"
        PROVE  sizes' = sizes
    <3>1. gInitFlag # 0 /\ gInitFlag \in Nat
      BY <1>1, <2>2, FirstFindsNothing DEF PlatformInv, TypeOK
    <3>2. gInitFlag' = gInitFlag + 1 /\ sizes' = SizesAfter(s)
      BY <2>2 DEF ClientInitialize, Initialize, Called
    <3>3. QED
      BY <3>1, <3>2 DEF SizesAfter
  <2>3. QED
    BY <1>1, <2>1, <2>2
    DEF Next, ClientInitializeThrows, InitializeThrows, ClientTerminate,
        Terminate, NewDocument, ReleaseDocument, InitializePanics, GetInstance,
        GetInstanceSwallows, GetInstanceThrows, Exit
<1>2. PlatformInv /\ [Next]_vars =>
        [(\E d \in Document : docs[d] # Nil) => sizes' = sizes]_vars
  BY <1>1
<1>3. QED
  BY <1>2, PlatformIsSound, PTL DEF Spec, SizesStayForDocuments
=============================================================================
