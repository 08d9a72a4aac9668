---------------------------- MODULE XmlOwnership ----------------------------
(***************************************************************************)
(* What XercesAdapter promises about lifetime, without wrappers, reference  *)
(* counts, DOM pools or exceptions: elements form trees that only grow, and *)
(* a tree lives exactly as long as somebody holds an element of it or it    *)
(* has been made a document.                                                *)
(***************************************************************************)
EXTENDS Functions

CONSTANTS Element, Nil

VARIABLES
  exists,   (* the elements there are                                       *)
  up,       (* the parent of each, or Nil                                   *)
  held,     (* the elements the caller holds                                *)
  pinned,   (* the roots of documents                                       *)
  ended     (* the program has stopped                                      *)

vars == <<exists, up, held, pinned, ended>>

Init ==
  /\ exists = {}
  /\ up = [e \in Element |-> Nil]
  /\ held = {}
  /\ pinned = {}
  /\ ended = FALSE

(* The elements connected to e by parent links, in either direction.       *)
Tree(e) ==
  {n \in Element :
     \A S \in SUBSET Element :
        /\ e \in S
        /\ \A y \in Element : up[y] # Nil => (y \in S <=> up[y] \in S)
        => n \in S}

Below(e) ==
  {n \in Element :
     \A S \in SUBSET Element :
        (e \in S /\ \A y \in Element : up[y] \in S => y \in S) => n \in S}

Create(e) ==
  /\ e \notin exists
  /\ exists' = exists \cup {e}
  /\ held' = held \cup {e}
  /\ UNCHANGED <<up, pinned, ended>>

(* A copy of o and of all below it: a tree of its own, of the same shape.   *)
Copy(o, f) ==
  /\ exists' = exists \cup {f[m] : m \in DOMAIN f}
  /\ up' = [n \in Element |->
              IF \E m \in DOMAIN f \ {o} : f[m] = n
              THEN f[up[CHOOSE m \in DOMAIN f : f[m] = n]]
              ELSE up[n]]
  /\ held' = held \cup {f[o]}
  /\ UNCHANGED <<pinned, ended>>

(* c, the top of a tree that is not a document, goes below p, which is in   *)
(* another tree.                                                            *)
Attach(p, c) ==
  /\ up[c] = Nil
  /\ c \notin pinned
  /\ p \notin Tree(c)
  /\ up' = [up EXCEPT ![c] = p]
  /\ UNCHANGED <<exists, held, pinned, ended>>

Pin(e) ==
  /\ up[e] = Nil
  /\ e \notin pinned
  /\ pinned' = pinned \cup {e}
  /\ UNCHANGED <<exists, up, held, ended>>

(* A handle to the parent of a held element, or to the root of a document.  *)
Acquire(e) ==
  /\ e \in pinned \/ \E c \in held : up[c] = e
  /\ held' = held \cup {e}
  /\ UNCHANGED <<exists, up, pinned, ended>>

Lost(e) ==
  IF Tree(e) \cap ((held \ {e}) \cup pinned) = {} THEN Tree(e) ELSE {}

Drop(e) ==
  /\ held' = held \ {e}
  /\ exists' = exists \ Lost(e)
  /\ up' = [n \in Element |-> IF n \in Lost(e) THEN Nil ELSE up[n]]
  /\ UNCHANGED <<pinned, ended>>

Hang ==
  /\ ended' = TRUE
  /\ UNCHANGED <<exists, up, held, pinned>>

Exit ==
  /\ held = {}
  /\ exists' = {}
  /\ ended' = TRUE
  /\ UNCHANGED <<up, held, pinned>>

Next ==
  /\ ~ended
  /\ \/ \E e \in Element : Create(e)
     \/ \E o \in held : \E f \in Injection(Below(o), Element \ exists) : Copy(o, f)
     \/ \E p, c \in held : Attach(p, c)
     \/ \E e \in held : Pin(e) \/ Drop(e)
     \/ \E e \in exists : Acquire(e)
     \/ Hang
     \/ Exit

Spec == Init /\ [][Next]_vars

-----------------------------------------------------------------------------
(* What lifetime means to a caller: there are exactly the elements of the   *)
(* trees in which an element is held, and of the documents' trees; ~XmlElement *)
(* takes the others, and no tree is ever taken in part.                     *)
TreesLiveAndDieWhole ==
  ~ended => exists = UNION {Tree(e) : e \in held \cup pinned}
=============================================================================
