-------------------------- MODULE XercesPool_proofs --------------------------
(***************************************************************************)
(* Proofs about XercesPool: whatever is allocated, used again and released  *)
(* in whatever order, and wherever memory runs out, the pieces the document *)
(* has handed out lie within their blocks and apart, and every block is     *)
(* given back once.                                                         *)
(***************************************************************************)
EXTENDS XercesPool, WellFoundedInduction, TLAPS

-----------------------------------------------------------------------------
(***************************************************************************)
(* Lists of blocks and of cells: what is done to the members.               *)
(***************************************************************************)

(* Two lists without repetition and without common members, one behind the  *)
(* other.                                                                   *)
LEMMA ConcatMembers ==
  ASSUME NEW S, NEW s \in Seq(S), NEW t \in Seq(S)
  PROVE  /\ s \o t \in Seq(S)
         /\ ToSet(s \o t) = ToSet(s) \cup ToSet(t)
         /\ IsInjective(s) /\ IsInjective(t) /\ ToSet(s) \cap ToSet(t) = {}
              => IsInjective(s \o t)
<1> DEFINE c == s \o t
<1>1. /\ c \in Seq(S) /\ Len(c) = Len(s) + Len(t)
      /\ \A i \in 1 .. Len(s) + Len(t) :
            c[i] = IF i <= Len(s) THEN s[i] ELSE t[i - Len(s)]
  OBVIOUS
<1>2. /\ Len(s) \in Nat /\ Len(t) \in Nat
      /\ DOMAIN s = 1 .. Len(s) /\ DOMAIN t = 1 .. Len(t)
      /\ DOMAIN c = 1 .. Len(s) + Len(t)
  BY <1>1
<1> HIDE DEF c
<1>3. ASSUME NEW i \in DOMAIN c
      PROVE  c[i] \in ToSet(s) \cup ToSet(t)
  <2>1. CASE i <= Len(s)
    BY <1>1, <1>2, <2>1 DEF ToSet
  <2>2. CASE i > Len(s)
    BY <1>1, <1>2, <2>2 DEF ToSet
  <2> QED BY <1>2, <2>1, <2>2
<1>4. ASSUME NEW i \in DOMAIN s
      PROVE  i \in DOMAIN c /\ c[i] = s[i]
  BY <1>1, <1>2
<1>5. ASSUME NEW i \in DOMAIN t
      PROVE  Len(s) + i \in DOMAIN c /\ c[Len(s) + i] = t[i]
  BY <1>1, <1>2
<1>6. ToSet(c) = ToSet(s) \cup ToSet(t)
  BY <1>3, <1>4, <1>5 DEF ToSet
<1>7. ASSUME IsInjective(s), IsInjective(t), ToSet(s) \cap ToSet(t) = {},
             NEW i \in DOMAIN c, NEW j \in DOMAIN c, c[i] = c[j]
      PROVE  i = j
  <2>1. CASE i <= Len(s) /\ j <= Len(s)
    BY <1>1, <1>2, <1>7, <2>1 DEF IsInjective
  <2>2. CASE i > Len(s) /\ j > Len(s)
    <3>1. i - Len(s) \in DOMAIN t /\ j - Len(s) \in DOMAIN t
      BY <1>2, <2>2
    <3>2. t[i - Len(s)] = t[j - Len(s)]
      BY <1>1, <1>2, <1>7, <2>2
    <3>3. i - Len(s) = j - Len(s)
      BY <1>7, <3>1, <3>2 DEF IsInjective
    <3> QED BY <1>2, <3>3
  <2>3. ASSUME NEW k \in DOMAIN c, k <= Len(s)
        PROVE  c[k] \in ToSet(s)
    <3>1. k \in DOMAIN s /\ c[k] = s[k]
      BY <1>1, <1>2, <2>3
    <3> QED BY <3>1 DEF ToSet
  <2>4. ASSUME NEW k \in DOMAIN c, k > Len(s)
        PROVE  c[k] \in ToSet(t)
    <3>1. k - Len(s) \in DOMAIN t /\ c[k] = t[k - Len(s)]
      BY <1>1, <1>2, <2>4
    <3> QED BY <3>1 DEF ToSet
  <2>5. ~(i <= Len(s) /\ j > Len(s)) /\ ~(i > Len(s) /\ j <= Len(s))
    BY <1>7, <2>3, <2>4
  <2> QED BY <1>2, <2>1, <2>2, <2>5
<1>8. IsInjective(s) /\ IsInjective(t) /\ ToSet(s) \cap ToSet(t) = {} => IsInjective(c)
  BY <1>7 DEF IsInjective
<1> QED BY <1>1, <1>6, <1>8 DEF c

(* A list cut behind its n-th member.                                       *)
LEMMA CutMembers ==
  ASSUME NEW S, NEW s \in Seq(S), NEW n \in 0 .. Len(s)
  PROVE  LET a == SubSeq(s, 1, n)
             b == SubSeq(s, n + 1, Len(s))
         IN  /\ a \in Seq(S) /\ b \in Seq(S)
             /\ ToSet(a) = {s[i] : i \in 1 .. n}
             /\ ToSet(a) \cup ToSet(b) = ToSet(s)
             /\ IsInjective(s) =>
                  IsInjective(a) /\ IsInjective(b) /\ ToSet(a) \cap ToSet(b) = {}
<1> DEFINE a == SubSeq(s, 1, n)
           b == SubSeq(s, n + 1, Len(s))
<1>1. /\ a \in Seq(S) /\ Len(a) = n /\ \A i \in 1 .. n : a[i] = s[i]
      /\ DOMAIN a = 1 .. n
  OBVIOUS
<1>2. /\ b \in Seq(S) /\ Len(b) = Len(s) - n
      /\ \A i \in 1 .. Len(s) - n : b[i] = s[n + i]
      /\ DOMAIN b = 1 .. Len(s) - n
  OBVIOUS
<1>3. n \in Nat /\ n <= Len(s) /\ Len(s) \in Nat /\ DOMAIN s = 1 .. Len(s)
  OBVIOUS
<1> HIDE DEF a, b
<1>4. ToSet(a) = {s[i] : i \in 1 .. n}
  BY <1>1 DEF ToSet
<1>5. ASSUME NEW i \in DOMAIN s
      PROVE  s[i] \in ToSet(a) \cup ToSet(b)
  <2>1. CASE i <= n
    BY <1>1, <1>3, <2>1 DEF ToSet
  <2>2. CASE i > n
    <3>1. i - n \in 1 .. Len(s) - n /\ n + (i - n) = i
      BY <1>3, <2>2
    <3> QED BY <1>2, <3>1 DEF ToSet
  <2> QED BY <1>3, <2>1, <2>2
<1>6. \A i \in DOMAIN a : i \in DOMAIN s /\ a[i] = s[i]
  BY <1>1, <1>3
<1>7. \A i \in DOMAIN b : n + i \in DOMAIN s /\ b[i] = s[n + i]
  BY <1>2, <1>3
<1>8. ToSet(a) \cup ToSet(b) = ToSet(s)
  BY <1>5, <1>6, <1>7 DEF ToSet
<1>9. ASSUME IsInjective(s)
      PROVE  IsInjective(a) /\ IsInjective(b) /\ ToSet(a) \cap ToSet(b) = {}
  <2>1. IsInjective(a)
    BY <1>6, <1>9 DEF IsInjective
  <2>2. ASSUME NEW i \in DOMAIN b, NEW j \in DOMAIN b, b[i] = b[j]
        PROVE  i = j
    <3>1. n + i = n + j
      BY <1>7, <1>9, <2>2 DEF IsInjective
    <3> QED BY <1>2, <1>3, <3>1
  <2>3. ASSUME NEW i \in DOMAIN a, NEW j \in DOMAIN b, a[i] = b[j]
        PROVE  FALSE
    <3>1. i = n + j
      BY <1>6, <1>7, <1>9, <2>3 DEF IsInjective
    <3> QED BY <1>1, <1>2, <1>3, <3>1
  <2> QED BY <2>1, <2>2, <2>3 DEF IsInjective, ToSet
<1> QED BY <1>1, <1>2, <1>4, <1>8, <1>9 DEF a, b

(* A list that loses its i-th member.                                       *)
LEMMA RemoveAtMembers ==
  ASSUME NEW S, NEW s \in Seq(S), IsInjective(s), NEW i \in DOMAIN s
  PROVE  LET t == RemoveAt(s, i)
         IN  t \in Seq(S) /\ ToSet(t) = ToSet(s) \ {s[i]} /\ IsInjective(t)
<1> DEFINE x == s[i]
           a == SubSeq(s, 1, i - 1)
           m == SubSeq(s, i, Len(s))
           h == SubSeq(s, 1, i)
           b == SubSeq(s, i + 1, Len(s))
<1>1. i \in DOMAIN s /\ s[i] = x
  OBVIOUS
<1>2. DOMAIN s = 1 .. Len(s) /\ Len(s) \in Nat
  OBVIOUS
<1> HIDE DEF x
<1>3. i \in 0 .. Len(s) /\ i - 1 \in 0 .. Len(s) /\ (i - 1) + 1 = i /\ i \in Nat
  BY <1>1, <1>2
<1>4. /\ a \in Seq(S) /\ IsInjective(a) /\ ToSet(a) = {s[j] : j \in 1 .. i - 1}
  BY <1>3, CutMembers
<1>5. /\ b \in Seq(S) /\ IsInjective(b) /\ ToSet(h) = {s[j] : j \in 1 .. i}
      /\ ToSet(h) \cup ToSet(b) = ToSet(s) /\ ToSet(h) \cap ToSet(b) = {}
  BY <1>3, CutMembers
<1>6. ToSet(h) = ToSet(a) \cup {x}
  <2>1. 1 .. i = (1 .. i - 1) \cup {i}
    BY <1>1, <1>2
  <2> QED BY <1>1, <1>4, <1>5, <2>1
<1>7. x \notin ToSet(a)
  <2> SUFFICES ASSUME NEW j \in 1 .. i - 1, s[j] = x PROVE FALSE
    BY <1>4
  <2>1. j \in DOMAIN s /\ j # i
    BY <1>1, <1>2
  <2> QED BY <1>1, <2>1 DEF IsInjective
<1>8. ToSet(a) \cap ToSet(b) = {} /\ ToSet(a) \cup ToSet(b) = ToSet(s) \ {x}
  BY <1>5, <1>6, <1>7
<1> HIDE DEF a, b
<1>9. a \o b \in Seq(S) /\ ToSet(a \o b) = ToSet(s) \ {x} /\ IsInjective(a \o b)
  BY <1>4, <1>5, <1>8, ConcatMembers
<1>10. RemoveAt(s, i) = a \o b
  BY DEF RemoveAt, a, b
<1> QED BY <1>9, <1>10 DEF x

(* A list that gains n, at any place.                                       *)
LEMMA InsertMembers ==
  ASSUME NEW S, NEW s \in Seq(S), IsInjective(s), NEW n \in S, n \notin ToSet(s),
         NEW i \in 1 .. Len(s) + 1
  PROVE  LET t == InsertAt(s, i, n)
         IN  t \in Seq(S) /\ ToSet(t) = ToSet(s) \cup {n} /\ IsInjective(t)
<1> DEFINE a == SubSeq(s, 1, i - 1)
           b == SubSeq(s, i, Len(s))
           m == <<n>>
<1>1. i - 1 \in 0 .. Len(s) /\ (i - 1) + 1 = i
  OBVIOUS
<1>2. /\ a \in Seq(S) /\ b \in Seq(S) /\ IsInjective(a) /\ IsInjective(b)
      /\ ToSet(a) \cup ToSet(b) = ToSet(s) /\ ToSet(a) \cap ToSet(b) = {}
  BY <1>1, CutMembers
<1>3. m \in Seq(S) /\ ToSet(m) = {n} /\ IsInjective(m)
  BY DEF ToSet, IsInjective
<1> HIDE DEF a, b, m
<1> DEFINE am == a \o m
<1>4. am \in Seq(S) /\ ToSet(am) = ToSet(a) \cup {n} /\ IsInjective(am)
  BY <1>2, <1>3, ConcatMembers
<1> HIDE DEF am
<1>5. /\ am \o b \in Seq(S) /\ ToSet(am \o b) = ToSet(am) \cup ToSet(b)
      /\ IsInjective(am \o b)
  BY <1>2, <1>4, ConcatMembers
<1>6. InsertAt(s, i, n) = am \o b
  BY DEF InsertAt, am, a, b, m
<1> QED BY <1>2, <1>4, <1>5, <1>6

(* A list that gains n behind its last member.                              *)
LEMMA AppendMembers ==
  ASSUME NEW S, NEW s \in Seq(S), IsInjective(s), NEW n \in S, n \notin ToSet(s)
  PROVE  /\ Append(s, n) \in Seq(S) /\ Len(Append(s, n)) = Len(s) + 1
         /\ ToSet(Append(s, n)) = ToSet(s) \cup {n}
         /\ IsInjective(Append(s, n))
<1> DEFINE m == <<n>>
<1>1. m \in Seq(S) /\ ToSet(m) = {n} /\ IsInjective(m) /\ Len(m) = 1
  BY DEF ToSet, IsInjective
<1>2. Append(s, n) = s \o m /\ Len(Append(s, n)) = Len(s) + 1
  OBVIOUS
<1> HIDE DEF m
<1> QED BY <1>1, <1>2, ConcatMembers

(* A list that gains n before its first member.                             *)
LEMMA PrependMembers ==
  ASSUME NEW S, NEW s \in Seq(S), IsInjective(s), NEW n \in S, n \notin ToSet(s)
  PROVE  /\ <<n>> \o s \in Seq(S)
         /\ ToSet(<<n>> \o s) = ToSet(s) \cup {n}
         /\ IsInjective(<<n>> \o s)
<1> DEFINE m == <<n>>
<1>1. m \in Seq(S) /\ ToSet(m) = {n} /\ IsInjective(m)
  BY DEF ToSet, IsInjective
<1> HIDE DEF m
<1>2. m \o s \in Seq(S) /\ ToSet(m \o s) = ToSet(s) \cup {n} /\ IsInjective(m \o s)
  BY <1>1, ConcatMembers
<1> QED BY <1>2 DEF m

(* The places of a list that is not empty.                                 *)
LEMMA LengthOfList ==
  ASSUME NEW S, NEW s \in Seq(S), s # << >>
  PROVE  Len(s) \in Nat \ {0} /\ DOMAIN s = 1 .. Len(s)
OBVIOUS

(* A list that loses its last member.                                       *)
LEMMA FrontMembers ==
  ASSUME NEW S, NEW s \in Seq(S), IsInjective(s), s # << >>
  PROVE  /\ Last(s) \in S /\ Last(s) \in ToSet(s)
         /\ Front(s) \in Seq(S) /\ Len(Front(s)) = Len(s) - 1
         /\ ToSet(Front(s)) = ToSet(s) \ {Last(s)}
         /\ IsInjective(Front(s))
<1> DEFINE L == Len(s)
           f == Front(s)
<1>1. L \in Nat \ {0} /\ DOMAIN s = 1 .. L
  OBVIOUS
<1>2. /\ f \in Seq(S) /\ DOMAIN f = 1 .. L - 1 /\ Len(f) = L - 1
      /\ \A i \in 1 .. L - 1 : f[i] = s[i]
  BY <1>1 DEF Front
<1>3. Last(s) = s[L] /\ L \in DOMAIN s
  BY <1>1 DEF Last
<1> HIDE DEF f, L
<1>4. \A i \in DOMAIN f : i \in DOMAIN s /\ f[i] = s[i] /\ i # L
  BY <1>1, <1>2
<1>5. \A i \in DOMAIN s : i # L => i \in DOMAIN f
  BY <1>1, <1>2
<1>6. ToSet(f) = ToSet(s) \ {Last(s)}
  BY <1>3, <1>4, <1>5 DEF ToSet, IsInjective
<1>7. IsInjective(f)
  BY <1>4 DEF IsInjective
<1>8. Last(s) \in S /\ Last(s) \in ToSet(s)
  BY <1>1, <1>3 DEF ToSet
<1> QED BY <1>2, <1>6, <1>7, <1>8 DEF f, L

(* A list that loses a member, wherever it stands.                          *)
LEMMA RemoveFirstMembers ==
  ASSUME NEW S, NEW s \in Seq(S), IsInjective(s), NEW x \in ToSet(s)
  PROVE  LET t == RemoveFirst(s, x)
         IN  t \in Seq(S) /\ ToSet(t) = ToSet(s) \ {x} /\ IsInjective(t)
<1> DEFINE I == {i \in 1 .. Len(s) : s[i] = x}
           k == CHOOSE i \in I : \A j \in I : i <= j
<1>1. DOMAIN s = 1 .. Len(s) /\ Len(s) \in Nat
  OBVIOUS
<1>2. PICK i \in DOMAIN s : s[i] = x
  BY DEF ToSet
<1>3. \A j \in I : j = i
  BY <1>1, <1>2 DEF IsInjective
<1>4. i \in I /\ \A j \in I : i <= j
  BY <1>1, <1>2, <1>3
<1>5. k = i
  BY <1>3, <1>4
<1>6. RemoveFirst(s, x) = RemoveAt(s, k)
  BY <1>1, <1>2, <1>4 DEF RemoveFirst, SelectInSeq, Min
<1>7. RemoveFirst(s, x) = RemoveAt(s, i)
  BY <1>5, <1>6
<1> QED BY <1>2, <1>7, RemoveAtMembers

-----------------------------------------------------------------------------
(***************************************************************************)
(* The invariant of the allocator. It is about a pool, not about a state,   *)
(* since most actions allocate several times.                               *)
(***************************************************************************)

Listed(p) ==
  /\ IsInjective(p.heap) /\ IsInjective(p.singles)
  /\ ToSet(p.heap) \cap ToSet(p.singles) = {}
  /\ p.taken = ToSet(p.heap) \cup ToSet(p.singles)

Inside(p) ==
  \A s \in Slot : Has(p, s) =>
    /\ p.piece[s].block \in p.taken
    /\ Header <= p.piece[s].at
    /\ IsRoomy(p.size[p.piece[s].block])
         => p.piece[s].at + p.piece[s].size <= p.size[p.piece[s].block]

Apart(p) ==
  \A s, t \in Slot :
    s # t /\ Has(p, s) /\ Has(p, t) /\ p.piece[s].block = p.piece[t].block
      => \/ p.piece[s].at + p.piece[s].size <= p.piece[t].at
         \/ p.piece[t].at + p.piece[t].size <= p.piece[s].at

(* What is free of the current block lies behind all of its pieces. In a    *)
(* block with room for the largest piece it is what is left of the block;   *)
(* in a smaller one fFreeBytesRemaining may have wrapped around.            *)
Room(p) ==
  IF p.heap = <<>> THEN p.left = 0
  ELSE /\ Header <= p.at
       /\ IsRoomy(p.size[Head(p.heap)]) => p.at + p.left = p.size[Head(p.heap)]
       /\ \A s \in Slot : Has(p, s) /\ p.piece[s].block = Head(p.heap)
            => p.piece[s].at + p.piece[s].size <= p.at

(* A block in the second list has one piece at most.                        *)
Alone(p) ==
  \A s, t \in Slot :
    Has(p, s) /\ Has(p, t) /\ p.piece[s].block \in ToSet(p.singles)
      /\ p.piece[t].block = p.piece[s].block => s = t

PoolOK(p) ==
  /\ p \in Pool
  /\ Listed(p) /\ Inside(p) /\ Apart(p) /\ Room(p) /\ Alone(p)

LEMMA Constants ==
  /\ MaxLength \in Nat /\ Slack \in Nat \ {0} /\ InitialHeapAllocSize \in Nat
  /\ MaxHeapAllocSize \in Nat /\ MaxSubAllocationSize \in Nat
  /\ Alignment \in Nat \ {0} /\ PointerSize \in Nat \ {0} /\ TableSize \in Nat \ {0}
  /\ ElementSize \in Nat \ {0} /\ TextSize \in Nat \ {0} /\ MapSize \in Nat \ {0}
  /\ EntrySize \in Nat \ {0} /\ BufferSize \in Nat \ {0} /\ WordSize \in Nat \ {0}
BY PoolAssumption

LEMMA AlignedSize ==
  ASSUME NEW k \in Nat
  PROVE  Aligned(k) \in Nat /\ Aligned(k) >= k
BY Constants DEF Aligned

LEMMA HeaderSize == Header \in Nat
BY Constants, AlignedSize DEF Header

LEMMA Slots ==
  /\ \A n \in Node : Cell(n) \in Slot /\ Attributes(n) \in Slot /\ Defaults(n) \in Slot
  /\ \A b \in Buffer : Object(b) \in Slot /\ Data(b) \in Slot
  /\ \A a \in Name : Entry(a) \in Slot
  /\ NameTable \in Slot
<1>1. ASSUME NEW n \in Node
      PROVE  Cell(n) \in Slot /\ Attributes(n) \in Slot /\ Defaults(n) \in Slot
  <2>1. {Cell(n), Attributes(n), Defaults(n)}
          \in {{Cell(m), Attributes(m), Defaults(m)} : m \in Node}
    OBVIOUS
  <2> QED BY <2>1 DEF Slot
<1>2. ASSUME NEW b \in Buffer
      PROVE  Object(b) \in Slot /\ Data(b) \in Slot
  <2>1. {Object(b), Data(b)} \in {{Object(c), Data(c)} : c \in Buffer}
    OBVIOUS
  <2> QED BY <2>1 DEF Slot
<1>3. NameTable \in Slot /\ \A a \in Name : Entry(a) \in Slot
  BY DEF Slot
<1> QED BY <1>1, <1>2, <1>3

LEMMA Fields ==
  ASSUME NEW p \in Pool
  PROVE  /\ p.taken \in SUBSET Block /\ p.size \in [Block -> Nat]
         /\ p.heap \in Seq(Block) /\ p.singles \in Seq(Block)
         /\ p.at \in Nat /\ p.left \in Nat /\ p.next \in Nat
         /\ p.piece \in [Slot -> Piece \cup {NoPiece}]
BY DEF Pool

(* A piece is a piece of a block, or none.                                  *)
LEMMA Pieces ==
  ASSUME NEW p \in Pool, NEW s \in Slot
  PROVE  /\ p.piece[s].at \in Nat /\ p.piece[s].size \in Nat
         /\ Has(p, s) <=> p.piece[s].block \in Block
         /\ Has(p, s) => p.piece[s] \in Piece
<1>1. p.piece[s] \in Piece \cup {NoPiece}
  BY Fields
<1>2. CASE p.piece[s] \in Piece
  BY <1>2, PoolAssumption DEF Piece, NoPiece, Has
<1>3. CASE p.piece[s] = NoPiece
  BY <1>3, PoolAssumption DEF Piece, NoPiece, Has
<1> QED BY <1>1, <1>2, <1>3

LEMMA NewBlockIsNew ==
  ASSUME NEW p \in Pool, p.taken # Block
  PROVE  NewBlock(p) \in Block /\ NewBlock(p) \notin p.taken
<1>1. \E b \in Block : b \notin p.taken
  BY Fields
<1> QED BY <1>1 DEF NewBlock

(* A difference of numbers of the width of XMLSize_t.                       *)
LEMMA MinusIsNat ==
  ASSUME NEW x \in Nat, NEW y \in Nat, y < WordSize
  PROVE  Minus(x, y) \in Nat
BY Constants DEF Minus

(* A new current block.                                                     *)
LEMMA ExtendedKeepsPool ==
  ASSUME NEW p, PoolOK(p), p.taken # Block
  PROVE  LET q == Extended(p) IN
         /\ PoolOK(q) /\ q.heap # <<>>
         /\ IsRoomy(q.size[Head(q.heap)]) => q.left >= MaxSubAllocationSize
         /\ q.piece = p.piece /\ q.singles = p.singles /\ p.taken \subseteq q.taken
         /\ ToSet(p.heap) \subseteq ToSet(q.heap)
<1> DEFINE b == NewBlock(p)
           q == Extended(p)
<1>1. p \in Pool
  BY DEF PoolOK
<1>2. b \in Block /\ b \notin p.taken
  BY <1>1, NewBlockIsNew
<1> HIDE DEF b
<1>3. /\ p.next \in Nat /\ Header \in Nat /\ MaxSubAllocationSize \in Nat
      /\ Minus(p.next, Header) \in Nat
      /\ IsRoomy(p.next) => /\ Header + Minus(p.next, Header) = p.next
                            /\ Minus(p.next, Header) >= MaxSubAllocationSize
  <2>1. p.next \in Nat /\ Header \in Nat
    BY <1>1, Fields, HeaderSize
  <2>2. MaxSubAllocationSize \in Nat /\ Header < WordSize /\ WordSize \in Nat
    BY Constants, PoolAssumption, <2>1
  <2>3. Minus(p.next, Header) \in Nat
    BY <2>1, <2>2, MinusIsNat
  <2>4. IsRoomy(p.next) => /\ Header + Minus(p.next, Header) = p.next
                           /\ Minus(p.next, Header) >= MaxSubAllocationSize
    BY <2>1, <2>2 DEF Minus, IsRoomy
  <2> QED BY <2>1, <2>2, <2>3, <2>4
<1>4. /\ q.taken = p.taken \cup {b}
      /\ q.size = [p.size EXCEPT ![b] = p.next]
      /\ q.heap = <<b>> \o p.heap
      /\ q.singles = p.singles
      /\ q.at = Header
      /\ q.left = Minus(p.next, Header)
      /\ q.next = (IF p.next < MaxHeapAllocSize THEN 2 * p.next ELSE p.next)
      /\ q.piece = p.piece
  BY <1>1, Fields DEF Extended, Pool, b
<1>5. q.next \in Nat
  BY <1>3, <1>4, Constants
<1>6. /\ q.heap \in Seq(Block) /\ ToSet(q.heap) = ToSet(p.heap) \cup {b}
      /\ IsInjective(q.heap)
  BY <1>1, <1>2, <1>4, Fields, PrependMembers DEF PoolOK, Listed
<1>7. q.heap # <<>> /\ Head(q.heap) = b
  BY <1>1, <1>2, <1>4, Fields
<1>8. q \in Pool
  <2>1. /\ p.taken \cup {b} \in SUBSET Block /\ [p.size EXCEPT ![b] = p.next] \in [Block -> Nat]
        /\ <<b>> \o p.heap \in Seq(Block) /\ Header \in Nat /\ Minus(p.next, Header) \in Nat
        /\ (IF p.next < MaxHeapAllocSize THEN 2 * p.next ELSE p.next) \in Nat
    BY <1>1, <1>2, <1>3, <1>4, <1>5, <1>6, Fields
  <2> QED BY <1>1, <2>1 DEF Extended, Pool, b
<1> HIDE DEF q
<1>9. \A s \in Slot : (Has(q, s) <=> Has(p, s)) /\ (Has(p, s) => p.piece[s].block # b)
  BY <1>2, <1>4 DEF Has, PoolOK, Inside
<1>10. Listed(q)
  BY <1>2, <1>4, <1>6 DEF PoolOK, Listed
<1>11. Inside(q)
  <2>1. \A s \in Slot : Has(p, s) => /\ p.piece[s].block \in Block
                                     /\ q.size[p.piece[s].block] = p.size[p.piece[s].block]
    BY <1>1, <1>2, <1>4, <1>9, Fields, Pieces
  <2> QED BY <1>4, <1>9, <2>1 DEF PoolOK, Inside
<1>12. Apart(q) /\ Alone(q)
  BY <1>4, <1>9 DEF PoolOK, Apart, Alone
<1>13. q.size[Head(q.heap)] = p.next
  BY <1>1, <1>2, <1>4, <1>7, Fields
<1>14. Room(q)
  BY <1>3, <1>4, <1>7, <1>9, <1>13 DEF Room
<1> QED
  BY <1>3, <1>4, <1>6, <1>7, <1>8, <1>10, <1>11, <1>12, <1>13, <1>14 DEF PoolOK, q

(* A piece in a block of its own.                                           *)
LEMMA SingletonKeepsPool ==
  ASSUME NEW p, PoolOK(p), p.taken # Block, NEW s \in Slot, NEW k \in Nat
  PROVE  LET q == Singleton(p, s, k) IN
         /\ PoolOK(q) /\ Has(q, s) /\ q.piece[s].size = k
         /\ \A t \in Slot \ {s} : q.piece[t] = p.piece[t]
         /\ p.taken \subseteq q.taken /\ ToSet(p.singles) \subseteq ToSet(q.singles)
         /\ q.piece[s].block \notin p.taken /\ q.heap = p.heap
<1> DEFINE b == NewBlock(p)
           q == Singleton(p, s, k)
           new == [block |-> b, at |-> Header, size |-> k]
<1>1. p \in Pool
  BY DEF PoolOK
<1>2. b \in Block /\ b \notin p.taken
  BY <1>1, NewBlockIsNew
<1> HIDE DEF b
<1>3. Header \in Nat /\ Header + k \in Nat
  BY HeaderSize
<1>4. new \in Piece /\ new # NoPiece /\ new.block = b /\ new.at = Header /\ new.size = k
  BY <1>2, <1>3, PoolAssumption DEF Piece, NoPiece
<1> HIDE DEF new
<1>5. /\ q.taken = p.taken \cup {b}
      /\ q.size = [p.size EXCEPT ![b] = Header + k]
      /\ q.heap = p.heap
      /\ q.singles = LinkedBeyond(p.singles, b)
      /\ q.at = p.at /\ q.left = p.left /\ q.next = p.next
      /\ q.piece = [p.piece EXCEPT ![s] = new]
  BY <1>1, Fields DEF Singleton, Pool, b, new
<1>6. /\ LinkedBeyond(p.singles, b) \in Seq(Block)
      /\ ToSet(LinkedBeyond(p.singles, b)) = ToSet(p.singles) \cup {b}
      /\ IsInjective(LinkedBeyond(p.singles, b))
  <2>1. p.singles \in Seq(Block) /\ IsInjective(p.singles) /\ b \notin ToSet(p.singles)
    BY <1>1, <1>2, Fields DEF PoolOK, Listed
  <2>2. CASE p.singles = <<>>
    BY <1>2, <2>2 DEF LinkedBeyond, ToSet, IsInjective
  <2>3. CASE p.singles # <<>>
    <3>1. 2 \in 1 .. Len(p.singles) + 1
      BY <2>1, <2>3, LengthOfList
    <3> QED BY <1>2, <2>1, <2>3, <3>1, InsertMembers DEF LinkedBeyond
  <2> QED BY <2>2, <2>3
<1>7. q \in Pool
  <2>1. /\ p.taken \cup {b} \in SUBSET Block
        /\ [p.size EXCEPT ![b] = Header + k] \in [Block -> Nat]
        /\ [p.piece EXCEPT ![s] = new] \in [Slot -> Piece \cup {NoPiece}]
    BY <1>1, <1>2, <1>3, <1>4, Fields
  <2> QED BY <1>1, <1>6, <2>1 DEF Singleton, Pool, b, new
<1> HIDE DEF q
<1>8. Has(q, s) /\ q.piece[s] = new
  BY <1>1, <1>4, <1>5, Fields DEF Has
<1>9. \A t \in Slot \ {s} :
        /\ q.piece[t] = p.piece[t] /\ (Has(q, t) <=> Has(p, t))
        /\ Has(p, t) => p.piece[t].block # b
  BY <1>1, <1>2, <1>5, Fields DEF Has, PoolOK, Inside
<1>10. Listed(q)
  BY <1>2, <1>5, <1>6 DEF PoolOK, Listed
<1>11. Inside(q)
  <2> SUFFICES ASSUME NEW t \in Slot, Has(q, t)
               PROVE  /\ q.piece[t].block \in q.taken
                      /\ Header <= q.piece[t].at
                      /\ IsRoomy(q.size[q.piece[t].block])
                           => q.piece[t].at + q.piece[t].size <= q.size[q.piece[t].block]
    BY DEF Inside
  <2>1. CASE t = s
    BY <1>1, <1>2, <1>3, <1>4, <1>5, <1>8, <2>1, Fields
  <2>2. CASE t # s
    <3>1. Has(p, t) /\ q.piece[t] = p.piece[t]
      BY <1>9, <2>2
    <3>2. /\ p.piece[t].block \in Block
          /\ q.size[p.piece[t].block] = p.size[p.piece[t].block]
      BY <1>1, <1>2, <1>5, <1>9, <2>2, <3>1, Fields, Pieces
    <3> QED BY <1>5, <3>1, <3>2 DEF PoolOK, Inside
  <2> QED BY <2>1, <2>2
<1>12. Apart(q)
  BY <1>4, <1>8, <1>9 DEF PoolOK, Apart
<1>13. Alone(q)
  BY <1>4, <1>5, <1>6, <1>8, <1>9 DEF PoolOK, Alone
<1>14. Room(q)
  <2>1. CASE p.heap = <<>>
    BY <1>5, <2>1 DEF PoolOK, Room
  <2>2. CASE p.heap # <<>>
    <3>1. Head(p.heap) # b /\ Head(p.heap) \in Block
      <4>1. p.heap \in Seq(Block)
        BY <1>1, Fields
      <4>2. Head(p.heap) = p.heap[1] /\ 1 \in DOMAIN p.heap
        BY <2>2, <4>1
      <4> QED BY <1>1, <1>2, <4>2, Fields DEF PoolOK, Listed, ToSet
    <3>2. q.size[Head(p.heap)] = p.size[Head(p.heap)]
      BY <1>1, <1>5, <3>1, Fields
    <3> QED BY <1>4, <1>5, <1>8, <1>9, <2>2, <3>1, <3>2 DEF PoolOK, Room
  <2> QED BY <2>1, <2>2
<1> QED
  BY <1>2, <1>4, <1>5, <1>6, <1>7, <1>8, <1>9, <1>10, <1>11, <1>12, <1>13, <1>14
     DEF PoolOK, q

(* A piece cut from the current block. Only a block that is too small for   *)
(* its header and the largest piece may have no room for it.                *)
LEMMA SubdividedKeepsPool ==
  ASSUME NEW p, PoolOK(p), p.heap # <<>>, NEW s \in Slot, NEW k \in Nat,
         k <= MaxSubAllocationSize, IsRoomy(p.size[Head(p.heap)]) => k <= p.left
  PROVE  LET q == Subdivided(p, s, k) IN
         /\ PoolOK(q) /\ Has(q, s) /\ q.piece[s].size = k
         /\ \A t \in Slot \ {s} : q.piece[t] = p.piece[t]
         /\ p.taken = q.taken /\ q.singles = p.singles
         /\ q.piece[s].block \notin ToSet(q.singles) /\ q.heap = p.heap
<1> DEFINE h == Head(p.heap)
           q == Subdivided(p, s, k)
           new == [block |-> h, at |-> p.at, size |-> k]
<1>1. p \in Pool
  BY DEF PoolOK
<1>2. h \in Block /\ h \in ToSet(p.heap)
  <2>1. p.heap \in Seq(Block)
    BY <1>1, Fields
  <2>2. Head(p.heap) = p.heap[1] /\ 1 \in DOMAIN p.heap
    BY <2>1
  <2> QED BY <1>1, <2>2, Fields DEF ToSet
<1>3. h \in p.taken /\ h \notin ToSet(p.singles)
  BY <1>2 DEF PoolOK, Listed
<1>4. /\ Header \in Nat /\ p.at \in Nat /\ p.left \in Nat /\ Header <= p.at
      /\ IsRoomy(p.size[h]) => p.at + p.left = p.size[h] /\ k <= p.left
      /\ \A t \in Slot : Has(p, t) /\ p.piece[t].block = h
            => p.piece[t].at + p.piece[t].size <= p.at
  BY <1>1, HeaderSize, Fields DEF PoolOK, Room
<1> HIDE DEF h
<1>5. /\ Minus(p.left, k) \in Nat
      /\ IsRoomy(p.size[h]) => p.at + k + Minus(p.left, k) = p.size[h]
  BY <1>4, Constants, PoolAssumption, MinusIsNat DEF Minus
<1>6. new \in Piece /\ new # NoPiece /\ new.block = h /\ new.at = p.at /\ new.size = k
  BY <1>2, <1>4, PoolAssumption DEF Piece, NoPiece
<1> HIDE DEF new
<1>7. /\ q.taken = p.taken /\ q.size = p.size /\ q.heap = p.heap /\ q.singles = p.singles
      /\ q.at = p.at + k /\ q.left = Minus(p.left, k) /\ q.next = p.next
      /\ q.piece = [p.piece EXCEPT ![s] = new]
  BY <1>1, Fields DEF Subdivided, Pool, h, new
<1>8. q \in Pool
  <2>1. /\ p.at + k \in Nat /\ Minus(p.left, k) \in Nat
        /\ [p.piece EXCEPT ![s] = new] \in [Slot -> Piece \cup {NoPiece}]
    BY <1>1, <1>4, <1>5, <1>6, Fields
  <2> QED BY <1>1, <2>1 DEF Subdivided, Pool, h, new
<1> HIDE DEF q
<1>9. Has(q, s) /\ q.piece[s] = new
  BY <1>1, <1>6, <1>7, Fields DEF Has
<1>10. \A t \in Slot \ {s} : q.piece[t] = p.piece[t] /\ (Has(q, t) <=> Has(p, t))
  BY <1>1, <1>7, Fields DEF Has
<1>11. \A t \in Slot : p.piece[t].at \in Nat /\ p.piece[t].size \in Nat
  BY <1>1, Pieces
<1>12. Listed(q)
  BY <1>7 DEF PoolOK, Listed
<1>13. Inside(q)
  BY <1>3, <1>4, <1>6, <1>7, <1>9, <1>10 DEF PoolOK, Inside
<1>14. Apart(q)
  BY <1>4, <1>6, <1>9, <1>10, <1>11 DEF PoolOK, Apart
<1>15. Alone(q)
  <2>1. \A t \in Slot : Has(q, t) /\ q.piece[t].block \in ToSet(q.singles) => t # s
    BY <1>3, <1>6, <1>7, <1>9
  <2>2. \A t, u \in Slot : Has(p, t) /\ Has(p, u) /\ p.piece[t].block \in ToSet(p.singles)
          /\ p.piece[u].block = p.piece[t].block => t = u
    BY DEF PoolOK, Alone
  <2>3. ASSUME NEW t \in Slot, NEW u \in Slot, Has(q, t), Has(q, u),
               q.piece[t].block \in ToSet(q.singles), q.piece[u].block = q.piece[t].block
        PROVE  t = u
    <3>1. t # s /\ u # s
      BY <2>1, <2>3
    <3> QED BY <1>7, <1>10, <2>2, <2>3, <3>1
  <2> QED BY <2>3 DEF Alone
<1>16. Room(q)
  <2>1. q.heap = p.heap /\ Header <= q.at /\ (IsRoomy(q.size[h]) => q.at + q.left = q.size[h])
    BY <1>4, <1>5, <1>7
  <2>2. ASSUME NEW t \in Slot, Has(q, t), q.piece[t].block = h
        PROVE  q.piece[t].at + q.piece[t].size <= q.at
    <3>1. CASE t = s
      BY <1>4, <1>6, <1>7, <1>9, <3>1
    <3>2. CASE t # s
      <4>1. q.piece[t] = p.piece[t] /\ Has(p, t)
        BY <1>10, <2>2, <3>2
      <4>2. p.piece[t].at + p.piece[t].size <= p.at
        BY <1>4, <2>2, <4>1
      <4> QED BY <1>4, <1>7, <1>11, <4>1, <4>2
    <3> QED BY <3>1, <3>2
  <2> QED BY <2>1, <2>2 DEF Room, h
<1> QED
  BY <1>3, <1>6, <1>7, <1>8, <1>9, <1>10, <1>12, <1>13, <1>14, <1>15, <1>16 DEF PoolOK, q

(* A request, whatever its size, that memory suffices for. The pieces of    *)
(* others stay as they are, and what the slot pointed to has been forgotten.*)
LEMMA AllocateKeepsPool ==
  ASSUME NEW p, PoolOK(p), NEW s \in Slot, NEW amount \in Nat \ {0}, CanAllocate(p, amount)
  PROVE  LET q == Allocate(p, s, amount) IN
         /\ PoolOK(q) /\ Has(q, s) /\ q.piece[s].size >= amount
         /\ \A t \in Slot \ {s} : q.piece[t] = p.piece[t]
         /\ p.taken \subseteq q.taken /\ ToSet(p.singles) \subseteq ToSet(q.singles)
         /\ ToSet(p.heap) \subseteq ToSet(q.heap)
         /\ q.piece[s].block \in ToSet(q.singles) => q.piece[s].block \notin p.taken
<1> DEFINE k == Aligned(amount)
<1>1. k \in Nat /\ k >= amount /\ MaxSubAllocationSize \in Nat
  BY AlignedSize, Constants
<1>2. CanAllocate(p, amount) <=> p.taken # Block \/ (k <= MaxSubAllocationSize /\ k <= p.left)
  BY DEF CanAllocate
<1>3. /\ k > MaxSubAllocationSize => Allocate(p, s, amount) = Singleton(p, s, k)
      /\ ~(k > MaxSubAllocationSize) /\ k > p.left
           => Allocate(p, s, amount) = Subdivided(Extended(p), s, k)
      /\ ~(k > MaxSubAllocationSize) /\ ~(k > p.left)
           => Allocate(p, s, amount) = Subdivided(p, s, k)
  BY DEF Allocate
<1> HIDE DEF k
<1>4. p \in Pool /\ p.left \in Nat
  BY Fields DEF PoolOK
<1>5. CASE k > MaxSubAllocationSize
  <2> DEFINE q == Singleton(p, s, k)
  <2>1. p.taken # Block
    BY <1>1, <1>2, <1>5
  <2>2. /\ PoolOK(q) /\ Has(q, s) /\ q.piece[s].size = k
        /\ \A t \in Slot \ {s} : q.piece[t] = p.piece[t]
        /\ p.taken \subseteq q.taken /\ ToSet(p.singles) \subseteq ToSet(q.singles)
        /\ q.piece[s].block \notin p.taken /\ q.heap = p.heap
    BY <1>1, <2>1, SingletonKeepsPool
  <2>3. Allocate(p, s, amount) = q
    BY <1>3, <1>5
  <2> HIDE DEF q
  <2>4. q.piece[s].size >= amount
    BY <1>1, <2>2
  <2> QED BY <2>2, <2>3, <2>4
<1>6. CASE ~(k > MaxSubAllocationSize) /\ k > p.left
  <2> DEFINE e == Extended(p)
  <2>1. p.taken # Block
    BY <1>1, <1>2, <1>4, <1>6
  <2>2. /\ PoolOK(e) /\ e.heap # <<>>
        /\ IsRoomy(e.size[Head(e.heap)]) => e.left >= MaxSubAllocationSize
        /\ e.piece = p.piece /\ e.singles = p.singles /\ p.taken \subseteq e.taken
        /\ ToSet(p.heap) \subseteq ToSet(e.heap)
    BY <2>1, ExtendedKeepsPool
  <2>3. Allocate(p, s, amount) = Subdivided(e, s, k)
    BY <1>3, <1>6
  <2> HIDE DEF e
  <2>4. e.left \in Nat
    BY <2>2, Fields DEF PoolOK
  <2>5. k <= MaxSubAllocationSize /\ (IsRoomy(e.size[Head(e.heap)]) => k <= e.left)
    BY <1>1, <1>6, <2>2, <2>4
  <2> QED BY <1>1, <2>2, <2>3, <2>5, SubdividedKeepsPool
<1>7. CASE ~(k > MaxSubAllocationSize) /\ ~(k > p.left)
  <2>1. k <= p.left /\ p.heap # <<>> /\ k <= MaxSubAllocationSize
    BY <1>1, <1>4, <1>7 DEF PoolOK, Room
  <2> QED BY <1>1, <1>3, <1>7, <2>1, SubdividedKeepsPool
<1> QED BY <1>5, <1>6, <1>7

(* What a call leaves of the pool that it gives pieces of, or forgets some:  *)
(* only the slots in S change, no block goes back, and what gets a block of  *)
(* its own gets a new one.                                                   *)
Grown(p, q, S) ==
  /\ PoolOK(q)
  /\ \A t \in Slot : t \notin S => q.piece[t] = p.piece[t]
  /\ p.taken \subseteq q.taken
  /\ ToSet(p.heap) \subseteq ToSet(q.heap)
  /\ \A t \in Slot : q.piece[t] = p.piece[t] \/ q.piece[t].block \notin ToSet(q.singles) \cap p.taken

LEMMA GrownStays ==
  ASSUME NEW p, PoolOK(p)
  PROVE  \A S : Grown(p, p, S)
BY DEF Grown

(* The blocks that hold one piece are the old ones and new ones.            *)
LEMMA GrownSingles ==
  ASSUME NEW p, NEW q, NEW S, PoolOK(p), Grown(p, q, S)
  PROVE  ToSet(q.singles) \cap p.taken \subseteq ToSet(p.singles)
BY DEF Grown, PoolOK, Listed

LEMMA GrownTwice ==
  ASSUME NEW p, NEW q, NEW r, NEW S, NEW T, PoolOK(p), Grown(p, q, S), Grown(q, r, T)
  PROVE  Grown(p, r, S \cup T)
<1>1. \A t \in Slot : r.piece[t] = p.piece[t] \/ r.piece[t].block \notin ToSet(r.singles) \cap p.taken
  <2> SUFFICES ASSUME NEW t \in Slot, r.piece[t] # p.piece[t]
               PROVE  r.piece[t].block \notin ToSet(r.singles) \cap p.taken
    OBVIOUS
  <2>1. CASE r.piece[t] # q.piece[t]
    BY <2>1 DEF Grown
  <2>2. CASE r.piece[t] = q.piece[t]
    <3>1. q.piece[t].block \notin ToSet(q.singles) \cap p.taken
      BY <2>2 DEF Grown
    <3>2. ToSet(r.singles) \cap q.taken \subseteq ToSet(q.singles)
      BY GrownSingles DEF Grown
    <3> QED BY <2>2, <3>1, <3>2 DEF Grown
  <2> QED BY <2>1, <2>2
<1> QED BY <1>1 DEF Grown

LEMMA GrownWider ==
  ASSUME NEW p, NEW q, NEW S, NEW T, Grown(p, q, S), S \subseteq T
  PROVE  Grown(p, q, T)
BY DEF Grown

LEMMA AllocateGrows ==
  ASSUME NEW p, PoolOK(p), NEW s \in Slot, NEW amount \in Nat \ {0}, CanAllocate(p, amount)
  PROVE  LET q == Allocate(p, s, amount) IN
         /\ Grown(p, q, {s}) /\ Has(q, s) /\ q.piece[s].size >= amount
         /\ q.piece[s].block \notin ToSet(q.singles) \cap p.taken
<1> DEFINE q == Allocate(p, s, amount)
<1>1. /\ PoolOK(q) /\ Has(q, s) /\ q.piece[s].size >= amount
      /\ \A t \in Slot \ {s} : q.piece[t] = p.piece[t]
      /\ p.taken \subseteq q.taken
      /\ ToSet(p.heap) \subseteq ToSet(q.heap)
      /\ q.piece[s].block \in ToSet(q.singles) => q.piece[s].block \notin p.taken
  BY AllocateKeepsPool
<1> HIDE DEF q
<1>2. Grown(p, q, {s})
  BY <1>1 DEF Grown
<1> QED BY <1>1, <1>2 DEF q

LEMMA GivenGrows ==
  ASSUME NEW p, PoolOK(p), NEW s \in Slot, NEW amount \in Nat \ {0}, CanGive(p, s, amount)
  PROVE  LET q == Given(p, s, amount) IN
         /\ Grown(p, q, {s}) /\ Has(q, s)
         /\ Has(p, s) => q.piece[s] = p.piece[s]
         /\ ~Has(p, s) => q.piece[s].size >= amount
<1>1. CASE Has(p, s)
  BY <1>1, GrownStays DEF Given
<1>2. CASE ~Has(p, s)
  BY <1>2, AllocateGrows DEF Given, CanGive
<1> QED BY <1>1, <1>2

(* Pieces that are forgotten.                                               *)
LEMMA LostGrows ==
  ASSUME NEW p, PoolOK(p), NEW S
  PROVE  LET q == Lost(p, S) IN
         /\ Grown(p, q, S)
         /\ \A t \in Slot : q.piece[t] = IF t \in S THEN NoPiece ELSE p.piece[t]
<1> DEFINE q == Lost(p, S)
           f == [s \in Slot |-> IF s \in S THEN NoPiece ELSE p.piece[s]]
<1>1. p \in Pool
  BY DEF PoolOK
<1>2. f \in [Slot -> Piece \cup {NoPiece}]
  BY <1>1, Fields
<1>3. /\ q.taken = p.taken /\ q.size = p.size /\ q.heap = p.heap /\ q.singles = p.singles
      /\ q.at = p.at /\ q.left = p.left /\ q.next = p.next /\ q.piece = f
  BY <1>1, Fields DEF Lost, Pool
<1>4. q \in Pool
  BY <1>1, <1>2 DEF Lost, Pool
<1> HIDE DEF q
<1>5. \A t \in Slot : q.piece[t] = IF t \in S THEN NoPiece ELSE p.piece[t]
  BY <1>3
<1>6. \A t \in Slot : Has(q, t) => Has(p, t) /\ q.piece[t] = p.piece[t]
  BY <1>5 DEF Has
<1>7. Listed(q) /\ Inside(q) /\ Apart(q) /\ Room(q) /\ Alone(q)
  BY <1>3, <1>6 DEF PoolOK, Listed, Inside, Apart, Room, Alone
<1>8. PoolOK(q)
  BY <1>3, <1>4, <1>7 DEF PoolOK
<1>9. \A t \in Slot : q.piece[t] = p.piece[t] \/ q.piece[t].block \notin p.taken
  <2>1. Nil \notin p.taken
    BY <1>1, Fields, PoolAssumption
  <2> QED BY <1>5, <2>1 DEF NoPiece
<1>10. Grown(p, q, S)
  BY <1>3, <1>5, <1>8, <1>9 DEF Grown
<1> QED BY <1>5, <1>10 DEF q

(* A piece that nobody points to and that has a block of its own goes back. *)
LEMMA ReleasedKeepsPool ==
  ASSUME NEW p, PoolOK(p), NEW piece,
         \A s \in Slot : Has(p, s) /\ piece.block \in ToSet(p.singles)
           => p.piece[s].block # piece.block
  PROVE  LET q == Released(p, piece) IN
         /\ PoolOK(q) /\ q.piece = p.piece
         /\ p.taken \ q.taken \subseteq {piece.block} \cap ToSet(p.singles)
         /\ ToSet(q.singles) \subseteq ToSet(p.singles) /\ q.heap = p.heap
         /\ piece.block \notin ToSet(p.singles) => q = p
<1> DEFINE q == Released(p, piece)
           b == piece.block
<1>1. CASE ~(b \in ToSet(p.singles) /\ piece.at = Header)
  BY <1>1 DEF Released
<1>2. CASE b \in ToSet(p.singles) /\ piece.at = Header
  <2>1. p \in Pool
    BY DEF PoolOK
  <2>2. /\ q.taken = p.taken \ {b} /\ q.size = p.size /\ q.heap = p.heap
        /\ q.singles = RemoveFirst(p.singles, b)
        /\ q.at = p.at /\ q.left = p.left /\ q.next = p.next /\ q.piece = p.piece
    BY <1>2, <2>1, Fields DEF Released, Pool
  <2>3. /\ RemoveFirst(p.singles, b) \in Seq(Block)
        /\ ToSet(RemoveFirst(p.singles, b)) = ToSet(p.singles) \ {b}
        /\ IsInjective(RemoveFirst(p.singles, b))
    BY <1>2, <2>1, Fields, RemoveFirstMembers DEF PoolOK, Listed
  <2>4. q \in Pool
    <3>1. p.taken \ {b} \in SUBSET Block
      BY <2>1, Fields
    <3> QED BY <1>2, <2>1, <2>3, <3>1 DEF Released, Pool
  <2> HIDE DEF q
  <2>5. \A s \in Slot : Has(q, s) <=> Has(p, s)
    BY <2>2 DEF Has
  <2>6. Listed(q)
    BY <1>2, <2>2, <2>3 DEF PoolOK, Listed
  <2>7. Inside(q)
    BY <1>2, <2>2, <2>5 DEF PoolOK, Inside
  <2>8. Apart(q) /\ Room(q)
    BY <2>2, <2>5 DEF PoolOK, Apart, Room
  <2>9. Alone(q)
    BY <2>2, <2>3, <2>5 DEF PoolOK, Alone
  <2> QED BY <1>2, <2>2, <2>3, <2>4, <2>6, <2>7, <2>8, <2>9 DEF PoolOK, q
<1> QED BY <1>1, <1>2

(* A buffer that grows. If the old block goes back, nobody points into it.  *)
LEMMA ExpandedKeepsPool ==
  ASSUME NEW p, PoolOK(p), NEW b \in Buffer, NEW cap \in Nat, NEW release \in BOOLEAN,
         CanAllocate(p, BytesFor(cap))
  PROVE  LET q == Expanded(p, b, cap, release) IN
         /\ PoolOK(q) /\ Has(q, Data(b)) /\ q.piece[Data(b)].size >= BytesFor(cap)
         /\ \A t \in Slot \ {Data(b)} : q.piece[t] = p.piece[t]
         /\ ToSet(p.heap) \subseteq ToSet(q.heap)
         /\ p.taken \ q.taken \subseteq {p.piece[Data(b)].block} \cap ToSet(p.singles)
         /\ q.piece[Data(b)].block \notin ToSet(q.singles) \cap p.taken
         /\ ~release => Grown(p, q, {Data(b)})
<1> DEFINE new == Allocate(p, Data(b), BytesFor(cap))
           old == p.piece[Data(b)]
<1>1. Data(b) \in Slot
  BY Slots
<1>2. BytesFor(cap) \in Nat \ {0}
  BY DEF BytesFor, CharSize
<1>3. /\ Grown(p, new, {Data(b)}) /\ Has(new, Data(b))
      /\ new.piece[Data(b)].size >= BytesFor(cap)
      /\ new.piece[Data(b)].block \notin ToSet(new.singles) \cap p.taken
  BY <1>1, <1>2, AllocateGrows
<1>4. Expanded(p, b, cap, release) = IF release THEN Released(new, old) ELSE new
  BY DEF Expanded
<1> HIDE DEF new
<1>5. /\ PoolOK(new) /\ p.taken \subseteq new.taken /\ ToSet(p.heap) \subseteq ToSet(new.heap)
      /\ \A t \in Slot \ {Data(b)} : new.piece[t] = p.piece[t]
      /\ ToSet(new.singles) \cap p.taken \subseteq ToSet(p.singles)
  BY <1>3, GrownSingles DEF Grown
<1>6. CASE ~release
  BY <1>3, <1>4, <1>5, <1>6
<1>7. CASE release /\ ~Has(p, Data(b))
  <2>1. old.block = Nil
    BY <1>7 DEF Has, NoPiece
  <2>2. old.block \notin ToSet(new.singles)
    <3>1. ToSet(new.singles) \subseteq Block
      BY <1>5, Fields DEF PoolOK, Listed
    <3> QED BY <2>1, <3>1, PoolAssumption
  <2>3. Released(new, old) = new
    BY <2>2 DEF Released
  <2> QED BY <1>3, <1>4, <1>5, <1>7, <2>3
<1>8. CASE release /\ Has(p, Data(b))
  <2>1. old.block \in p.taken
    BY <1>1, <1>8 DEF PoolOK, Inside
  <2>2. ASSUME NEW s \in Slot, Has(new, s), old.block \in ToSet(new.singles)
        PROVE  new.piece[s].block # old.block
    <3>1. CASE s = Data(b)
      BY <1>3, <2>1, <2>2, <3>1
    <3>2. CASE s # Data(b)
      <4>1. new.piece[s] = p.piece[s] /\ Has(p, s) /\ old.block \in ToSet(p.singles)
        BY <1>5, <2>1, <2>2, <3>2 DEF Has
      <4> QED BY <1>1, <1>8, <3>2, <4>1 DEF PoolOK, Alone
    <3> QED BY <3>1, <3>2
  <2> DEFINE q == Released(new, old)
  <2>3. /\ PoolOK(q) /\ q.piece = new.piece /\ q.heap = new.heap
        /\ new.taken \ q.taken \subseteq {old.block} \cap ToSet(new.singles)
        /\ ToSet(q.singles) \subseteq ToSet(new.singles)
    BY <1>5, <2>2, ReleasedKeepsPool
  <2>4. Expanded(p, b, cap, release) = q
    BY <1>4, <1>8
  <2> HIDE DEF q
  <2>5. p.taken \ q.taken \subseteq {old.block} \cap ToSet(p.singles)
    BY <1>5, <2>3
  <2> QED BY <1>3, <1>5, <1>8, <2>3, <2>4, <2>5 DEF Has
<1> QED BY <1>6, <1>7, <1>8

-----------------------------------------------------------------------------
(***************************************************************************)
(* The invariant of the document: who uses the pieces                       *)
(***************************************************************************)

(* Every cell is used by one node or waits once, and is large enough.       *)
CellsOK ==
  /\ kind \in [Node -> Kind \cup {Nil}]
  /\ waiting \in [Kind -> Seq(Node)]
  /\ \A k \in Kind : IsInjective(waiting[k]) /\ \A n \in ToSet(waiting[k]) : kind[n] = Nil
  /\ \A n \in ToSet(waiting["element"]) : n \notin ToSet(waiting["text"])
  /\ CellsFit

Used(b) == b \in ToSet(spare) \/ \E n \in Node : buf[n] = b

(* Every buffer of a text or of the stack is there, and is nobody else's.   *)
BuffersOK ==
  /\ buf \in [Node -> Buffer \cup {Nil}]
  /\ text \in [Buffer -> [cap : Nat, len : Nat]]
  /\ spare \in Seq(Buffer) /\ IsInjective(spare)
  /\ \A n \in Node : kind[n] = "text" <=> buf[n] # Nil
  /\ \A n, m \in Node : buf[n] # Nil => buf[n] \notin ToSet(spare) /\ (buf[n] = buf[m] => n = m)
  /\ \A b \in Buffer : Used(b) =>
       /\ Has(pool, Object(b))
       /\ text[b].len <= text[b].cap
       /\ BytesFor(text[b].cap) <= pool.piece[Data(b)].size

(* A string that was given to a user and has a block of its own, which the  *)
(* data of a buffer still is in, was given by the text with that buffer.    *)
StringsOK ==
  /\ handed \in [Node -> SUBSET Block]
  /\ NodeStringsStay
  /\ \A n \in Node : handed[n] # {} => buf[n] # Nil
  /\ \A n \in Node, b \in Buffer :
       Has(pool, Data(b)) /\ pool.piece[Data(b)].block \in handed[n] \cap ToSet(pool.singles)
         => buf[n] = b

PoolInv ==
  /\ PoolOK(pool)
  /\ CellsOK
  /\ BuffersOK
  /\ StringsOK
  /\ document \in {"live", "released"}
  /\ document = "released" => pool.taken = {}

LEMMA SlotsApart ==
  /\ \A n, m \in Node :
       /\ Cell(n) = Cell(m) => n = m
       /\ Cell(n) # Attributes(m) /\ Cell(n) # Defaults(m)
  /\ \A n \in Node, b \in Buffer :
       /\ Cell(n) # Object(b) /\ Cell(n) # Data(b)
       /\ Attributes(n) # Object(b) /\ Attributes(n) # Data(b)
       /\ Defaults(n) # Object(b) /\ Defaults(n) # Data(b)
  /\ \A b, c \in Buffer :
       /\ Object(b) # Data(c)
       /\ Object(b) = Object(c) => b = c
       /\ Data(b) = Data(c) => b = c
  /\ \A a \in Name :
       /\ \A n \in Node : Entry(a) # Cell(n)
       /\ \A b \in Buffer : Entry(a) # Object(b) /\ Entry(a) # Data(b)
BY DEF Cell, Attributes, Defaults, Object, Data, Entry

LEMMA SizesOfKinds == \A k \in Kind : SizeOf(k) \in Nat \ {0}
BY Constants DEF SizeOf

LEMMA KindsAreNotNil == Nil \notin Block /\ Nil \notin Buffer /\ Nil # "element" /\ Nil # "text"
BY PoolAssumption DEF Kind

LEMMA SmallestOfSet ==
  ASSUME NEW T \in SUBSET Nat, T # {}
  PROVE  \E x \in T : \A y \in T : x <= y
<1> DEFINE R == {ss \in Nat \X Nat : ss[1] < ss[2]}
<1>1. IsWellFoundedOn(R, Nat)
  BY NatLessThanWellFounded DEF OpToRel
<1> HIDE DEF R
<1>2. \E x \in T : \A y \in T : ~ (<<y, x>> \in R)
  BY <1>1, WFMin
<1>3. \A x, y \in Nat : ~(<<y, x>> \in R) => x <= y
  BY DEF R
<1> QED BY <1>2, <1>3

(* popBuffer returns one of the stack.                                      *)
LEMMA PopIndexInStack ==
  ASSUME spare \in Seq(Buffer), spare # << >>, NEW min
  PROVE  PopIndex(min) \in DOMAIN spare
<1> DEFINE S == {i \in 2 .. Len(spare) : text[spare[i]].cap >= min}
           T == {Len(spare) - i : i \in S}
<1>1. Len(spare) \in Nat \ {0} /\ DOMAIN spare = 1 .. Len(spare)
  BY LengthOfList
<1>2. CASE S = {}
  BY <1>1, <1>2 DEF PopIndex
<1>3. CASE S # {}
  <2>1. T \in SUBSET Nat /\ T # {}
    BY <1>1, <1>3
  <2>2. PICK x \in T : \A y \in T : x <= y
    BY <2>1, SmallestOfSet
  <2>3. PICK i \in S : x = Len(spare) - i
    BY <2>2
  <2>4. ASSUME NEW j \in S PROVE j <= i
    <3>1. Len(spare) - j \in T
      OBVIOUS
    <3>2. x <= Len(spare) - j
      BY <2>2, <3>1
    <3>3. i \in Int /\ j \in Int
      BY <2>3
    <3> HIDE DEF S, T
    <3> QED BY <1>1, <2>3, <3>2, <3>3
  <2>5. (CHOOSE l \in S : \A j \in S : j <= l) \in S
    BY <2>3, <2>4
  <2>6. PopIndex(min) \in S
    BY <1>3, <2>5 DEF PopIndex
  <2> QED BY <1>1, <2>6
<1> QED BY <1>2, <1>3

(* A node that is put in a cell, or loses it again.                         *)
LEMMA CellTaken ==
  ASSUME CellsOK, PoolOK(pool), PoolOK(pool'),
         NEW n \in Node, NEW k \in Kind, IsNext(n, k), TakeCell(k),
         kind' = kind \/ kind' = [kind EXCEPT ![n] = k],
         \A m \in Node \ {n} : pool'.piece[Cell(m)] = pool.piece[Cell(m)],
         kind'[n] = k => pool'.piece[Cell(n)].size >= SizeOf(k)
  PROVE  CellsOK' /\ kind[n] = Nil
<1>1. /\ kind \in [Node -> Kind \cup {Nil}] /\ waiting \in [Kind -> Seq(Node)]
      /\ k \in {"element", "text"}
  BY DEF CellsOK, Kind
<1>2. kind[n] = Nil /\ (waiting[k] = << >> => pool.piece[Cell(n)].size = 0)
  <2>1. CASE waiting[k] = << >>
    BY <2>1 DEF IsNext, Has, NoPiece
  <2>2. CASE waiting[k] # << >>
    <3>1. n \in ToSet(waiting[k])
      BY <1>1, <2>2, FrontMembers DEF IsNext, CellsOK
    <3> QED BY <2>2, <3>1 DEF CellsOK
  <2> QED BY <2>1, <2>2
<1>3. n \notin ToSet(waiting'[k])
      /\ waiting' \in [Kind -> Seq(Node)]
      /\ \A j \in Kind : /\ ToSet(waiting'[j]) \subseteq ToSet(waiting[j])
                         /\ IsInjective(waiting'[j])
  <2>1. CASE waiting[k] = << >>
    BY <1>1, <2>1 DEF TakeCell, CellsOK, ToSet
  <2>2. CASE waiting[k] # << >>
    <3>1. waiting' = [waiting EXCEPT ![k] = Front(waiting[k])] /\ n = Last(waiting[k])
      BY <2>2 DEF TakeCell, IsNext
    <3>2. /\ Front(waiting[k]) \in Seq(Node) /\ IsInjective(Front(waiting[k]))
          /\ ToSet(Front(waiting[k])) = ToSet(waiting[k]) \ {n}
      BY <1>1, <2>2, <3>1, FrontMembers DEF CellsOK
    <3>3. \A j \in Kind : waiting'[j] = IF j = k THEN Front(waiting[k]) ELSE waiting[j]
      BY <1>1, <3>1
    <3> QED BY <1>1, <3>1, <3>2, <3>3 DEF CellsOK
  <2> QED BY <2>1, <2>2
<1>4. \A j \in Kind : n \notin ToSet(waiting'[j])
  <2>1. ASSUME NEW j \in Kind, j # k, n \in ToSet(waiting[j])
        PROVE  FALSE
    <3>1. CASE waiting[k] = << >>
      <4>1. pool.piece[Cell(n)].size >= SizeOf(j)
        BY <2>1 DEF CellsOK, CellsFit
      <4> QED BY <1>2, <3>1, <4>1, SizesOfKinds
    <3>2. CASE waiting[k] # << >>
      <4>1. n \in ToSet(waiting[k])
        BY <1>1, <3>2, FrontMembers DEF IsNext, CellsOK
      <4> QED BY <1>1, <2>1, <4>1 DEF CellsOK, Kind
    <3> QED BY <3>1, <3>2
  <2> QED BY <1>3, <2>1
<1>5. kind' \in [Node -> Kind \cup {Nil}]
  BY <1>1
<1>6. \A m \in Node \ {n} : kind'[m] = kind[m]
  BY <1>1
<1>7. CellsFit'
  <2> SUFFICES ASSUME NEW m \in Node, NEW j \in Kind, kind'[m] = j \/ m \in ToSet(waiting'[j])
               PROVE  pool'.piece[Cell(m)].size >= SizeOf(j)
    BY DEF CellsFit, SizeOf
  <2>1. CASE m = n
    BY <1>1, <1>2, <1>4, <2>1, KindsAreNotNil DEF Kind
  <2>2. CASE m # n
    BY <1>3, <1>6, <2>2 DEF CellsOK, CellsFit
  <2> QED BY <2>1, <2>2
<1>8. \A j \in Kind : \A m \in ToSet(waiting'[j]) : kind'[m] = Nil
  <2> SUFFICES ASSUME NEW j \in Kind, NEW m \in ToSet(waiting'[j]) PROVE kind'[m] = Nil
    OBVIOUS
  <2>1. m \in Node /\ m # n /\ m \in ToSet(waiting[j])
    <3>1. ToSet(waiting[j]) \subseteq Node
      <4>1. waiting[j] \in Seq(Node)
        BY <1>1
      <4> QED BY <4>1 DEF ToSet
    <3> QED BY <1>3, <1>4, <3>1
  <2> QED BY <1>6, <2>1 DEF CellsOK
<1>9. \A m \in ToSet(waiting'["element"]) : m \notin ToSet(waiting'["text"])
  BY <1>3 DEF CellsOK, Kind
<1> QED BY <1>2, <1>3, <1>5, <1>7, <1>8, <1>9 DEF CellsOK

(* A node that is released, and whose cell waits.                           *)
LEMMA CellReturned ==
  ASSUME CellsOK, NEW n \in Node, NEW k \in Kind, kind[n] = k,
         kind' = [kind EXCEPT ![n] = Nil],
         waiting' = [waiting EXCEPT ![k] = Append(@, n)],
         \A m \in Node : pool'.piece[Cell(m)] = pool.piece[Cell(m)]
  PROVE  CellsOK'
<1>1. /\ kind \in [Node -> Kind \cup {Nil}] /\ waiting \in [Kind -> Seq(Node)]
      /\ k \in {"element", "text"} /\ k # Nil
  BY KindsAreNotNil DEF CellsOK, Kind
<1>2. \A j \in Kind : waiting[j] \in Seq(Node) /\ IsInjective(waiting[j]) /\ n \notin ToSet(waiting[j])
  BY <1>1 DEF CellsOK
<1>3. /\ Append(waiting[k], n) \in Seq(Node) /\ IsInjective(Append(waiting[k], n))
      /\ ToSet(Append(waiting[k], n)) = ToSet(waiting[k]) \cup {n}
  BY <1>2, AppendMembers
<1>4. \A j \in Kind : waiting'[j] = IF j = k THEN Append(waiting[k], n) ELSE waiting[j]
  BY <1>1
<1>5. kind' \in [Node -> Kind \cup {Nil}] /\ waiting' \in [Kind -> Seq(Node)]
  BY <1>1, <1>3
<1>6. \A j \in Kind : IsInjective(waiting'[j])
  BY <1>2, <1>3, <1>4
<1>7. \A j \in Kind :
        ToSet(waiting'[j]) = IF j = k THEN ToSet(waiting[k]) \cup {n} ELSE ToSet(waiting[j])
  <2> TAKE j \in Kind
  <2>1. waiting'[j] = IF j = k THEN Append(waiting[k], n) ELSE waiting[j]
    BY <1>4
  <2>2. CASE j = k
    BY <1>3, <2>1, <2>2
  <2>3. CASE j # k
    BY <2>1, <2>3
  <2> QED BY <2>2, <2>3
<1>8. \A j \in Kind : ToSet(waiting[j]) \subseteq Node
  BY <1>2 DEF ToSet
<1>9. \A j \in Kind : \A m \in ToSet(waiting'[j]) : kind'[m] = Nil
  <2> SUFFICES ASSUME NEW j \in Kind, NEW m \in ToSet(waiting'[j]) PROVE kind'[m] = Nil
    OBVIOUS
  <2>1. m \in Node /\ (m \in ToSet(waiting[j]) \/ m = n)
    BY <1>7, <1>8
  <2>2. kind'[m] = IF m = n THEN Nil ELSE kind[m]
    BY <1>1, <2>1
  <2> QED BY <2>1, <2>2 DEF CellsOK
<1>10. \A m \in ToSet(waiting'["element"]) : m \notin ToSet(waiting'["text"])
  BY <1>1, <1>2, <1>7 DEF CellsOK, Kind
<1>11. CellsFit'
  <2> SUFFICES ASSUME NEW m \in Node, NEW j \in Kind, kind'[m] = j \/ m \in ToSet(waiting'[j])
               PROVE  pool'.piece[Cell(m)].size >= SizeOf(j)
    BY DEF CellsFit, SizeOf
  <2>1. kind[m] = j \/ m \in ToSet(waiting[j])
    BY <1>1, <1>7, KindsAreNotNil DEF Kind
  <2> QED BY <2>1 DEF CellsOK, CellsFit
<1> QED BY <1>5, <1>6, <1>9, <1>10, <1>11 DEF CellsOK

(* The cells stay as they are.                                              *)
LEMMA CellsStay ==
  ASSUME CellsOK, kind' = kind, waiting' = waiting,
         \A m \in Node : pool'.piece[Cell(m)] = pool.piece[Cell(m)]
  PROVE  CellsOK'
BY DEF CellsOK, CellsFit, SizeOf

BufferFits(b) ==
  /\ Has(pool, Object(b))
  /\ text[b].len <= text[b].cap
  /\ BytesFor(text[b].cap) <= pool.piece[Data(b)].size

(* What a buffer that is not touched has from before.                       *)
LEMMA StillFits ==
  ASSUME BuffersOK, NEW c \in Buffer, Used(c), text'[c] = text[c],
         pool'.piece[Object(c)] = pool.piece[Object(c)],
         pool'.piece[Data(c)] = pool.piece[Data(c)]
  PROVE  BufferFits(c)'
BY DEF BuffersOK, BufferFits, Has, BytesFor

(* The buffers stay where they are, whatever else changes.                  *)
LEMMA BuffersStay ==
  ASSUME BuffersOK, UNCHANGED <<buf, text, spare>>,
         \A m \in Node : kind'[m] = "text" <=> kind[m] = "text",
         \A c \in Buffer : /\ pool'.piece[Object(c)] = pool.piece[Object(c)]
                           /\ pool'.piece[Data(c)] = pool.piece[Data(c)]
  PROVE  BuffersOK'
<1>1. \A c \in Buffer : Used(c)' => BufferFits(c)'
  <2> SUFFICES ASSUME NEW c \in Buffer, Used(c)' PROVE BufferFits(c)'
    OBVIOUS
  <2>1. Used(c)
    BY DEF Used
  <2> QED BY <2>1, StillFits
<1> QED BY <1>1 DEF BuffersOK, BufferFits

(* A text that comes to life with a buffer nobody else uses.                *)
LEMMA BufferTaken ==
  ASSUME BuffersOK, NEW n \in Node, NEW b \in Buffer, NEW cap \in Nat, NEW len \in Nat,
         kind[n] = Nil, kind' = [kind EXCEPT ![n] = "text"], kind \in [Node -> Kind \cup {Nil}],
         \A m \in Node : buf[m] # b,
         buf' = [buf EXCEPT ![n] = b],
         text' = [text EXCEPT ![b] = [cap |-> cap, len |-> len]], len <= cap,
         spare' \in Seq(Buffer), IsInjective(spare'), ToSet(spare') = ToSet(spare) \ {b},
         Has(pool', Object(b)), BytesFor(cap) <= pool'.piece[Data(b)].size,
         \A c \in Buffer \ {b} : /\ pool'.piece[Object(c)] = pool.piece[Object(c)]
                                 /\ pool'.piece[Data(c)] = pool.piece[Data(c)]
  PROVE  BuffersOK'
<1>1. /\ buf \in [Node -> Buffer \cup {Nil}] /\ text \in [Buffer -> [cap : Nat, len : Nat]]
      /\ buf[n] = Nil /\ b # Nil
  BY KindsAreNotNil DEF BuffersOK
<1>2. buf' \in [Node -> Buffer \cup {Nil}] /\ text' \in [Buffer -> [cap : Nat, len : Nat]]
  BY <1>1
<1>3. \A m \in Node : buf'[m] = IF m = n THEN b ELSE buf[m]
  BY <1>1
<1>4. \A m \in Node : kind'[m] = "text" <=> buf'[m] # Nil
  BY <1>1, <1>3 DEF BuffersOK
<1>5. \A m, o \in Node : buf'[m] # Nil => buf'[m] \notin ToSet(spare') /\ (buf'[m] = buf'[o] => m = o)
  BY <1>1, <1>3 DEF BuffersOK
<1>6. BufferFits(b)'
  BY <1>1 DEF BufferFits
<1>7. \A c \in Buffer \ {b} : text'[c] = text[c] /\ (Used(c)' => Used(c))
  BY <1>1, <1>3 DEF Used
<1>8. \A c \in Buffer : Used(c)' => BufferFits(c)'
  BY <1>6, <1>7, StillFits
<1> QED BY <1>2, <1>4, <1>5, <1>8 DEF BuffersOK, BufferFits

(* A buffer that is on the stack, or nowhere, and is lost.                  *)
LEMMA BufferLost ==
  ASSUME BuffersOK, NEW b \in Buffer, UNCHANGED <<kind, buf, text>>,
         \A m \in Node : buf[m] # b,
         spare' \in Seq(Buffer), IsInjective(spare'), ToSet(spare') = ToSet(spare) \ {b},
         \A c \in Buffer \ {b} : /\ pool'.piece[Object(c)] = pool.piece[Object(c)]
                                 /\ pool'.piece[Data(c)] = pool.piece[Data(c)]
  PROVE  BuffersOK'
<1>1. \A c \in Buffer \ {b} : Used(c)' => Used(c)
  BY DEF Used
<1>2. ~Used(b)'
  BY DEF Used
<1>3. \A c \in Buffer : Used(c)' => BufferFits(c)'
  BY <1>1, <1>2, StillFits
<1> QED BY <1>3 DEF BuffersOK, BufferFits

(* The text in a buffer changes, and the buffer may grow.                   *)
LEMMA BufferWritten ==
  ASSUME BuffersOK, NEW n \in Node, buf[n] \in Buffer, NEW cap \in Nat, NEW len \in Nat,
         UNCHANGED <<kind, buf, spare>>,
         text' = [text EXCEPT ![buf[n]] = [cap |-> cap, len |-> len]], len <= cap,
         BytesFor(cap) <= pool'.piece[Data(buf[n])].size,
         pool'.piece[Object(buf[n])] = pool.piece[Object(buf[n])],
         \A c \in Buffer \ {buf[n]} : /\ pool'.piece[Object(c)] = pool.piece[Object(c)]
                                      /\ pool'.piece[Data(c)] = pool.piece[Data(c)]
  PROVE  BuffersOK'
<1>1. text \in [Buffer -> [cap : Nat, len : Nat]]
  BY DEF BuffersOK
<1>2. text' \in [Buffer -> [cap : Nat, len : Nat]]
  BY <1>1
<1>3. BufferFits(buf[n])'
  <2>1. Has(pool, Object(buf[n]))
    BY DEF BuffersOK, Used
  <2> QED BY <1>1, <2>1 DEF BufferFits, Has
<1>4. \A c \in Buffer \ {buf[n]} : text'[c] = text[c]
  BY <1>1
<1>5. \A c \in Buffer : Used(c)' <=> Used(c)
  BY DEF Used
<1>6. ASSUME NEW c \in Buffer, Used(c)' PROVE BufferFits(c)'
  <2>1. CASE c = buf[n]
    BY <1>3, <2>1 DEF BufferFits
  <2>2. CASE c # buf[n]
    BY <1>4, <1>5, <1>6, <2>2, StillFits
  <2> QED BY <2>1, <2>2
<1> QED BY <1>2, <1>6 DEF BuffersOK, BufferFits

(* A text that is released leaves its buffer on the stack.                  *)
LEMMA BufferReturned ==
  ASSUME BuffersOK, NEW n \in Node, kind[n] = "text", kind \in [Node -> Kind \cup {Nil}],
         kind' = [kind EXCEPT ![n] = Nil], buf' = [buf EXCEPT ![n] = Nil],
         spare' = Append(spare, buf[n]), UNCHANGED <<pool, text>>
  PROVE  BuffersOK'
<1>1. /\ buf \in [Node -> Buffer \cup {Nil}] /\ buf[n] \in Buffer /\ buf[n] \notin ToSet(spare)
      /\ spare \in Seq(Buffer) /\ IsInjective(spare)
  BY DEF BuffersOK
<1>2. /\ spare' \in Seq(Buffer) /\ IsInjective(spare')
      /\ ToSet(spare') = ToSet(spare) \cup {buf[n]}
  BY <1>1, AppendMembers
<1>3. \A m \in Node : buf'[m] = IF m = n THEN Nil ELSE buf[m]
  BY <1>1
<1>4. buf' \in [Node -> Buffer \cup {Nil}]
  BY <1>1
<1>5. \A m \in Node : kind'[m] = "text" <=> buf'[m] # Nil
  BY <1>3, KindsAreNotNil DEF BuffersOK
<1>6. \A m, o \in Node : buf'[m] # Nil => buf'[m] \notin ToSet(spare') /\ (buf'[m] = buf'[o] => m = o)
  BY <1>1, <1>2, <1>3 DEF BuffersOK
<1>7. \A c \in Buffer : Used(c)' => Used(c)
  BY <1>1, <1>2, <1>3, KindsAreNotNil DEF Used
<1>8. \A c \in Buffer : Used(c)' => BufferFits(c)'
  <2> SUFFICES ASSUME NEW c \in Buffer, Used(c)' PROVE BufferFits(c)'
    OBVIOUS
  <2>1. Used(c)
    BY <1>7
  <2> QED BY <2>1, StillFits
<1> QED BY <1>2, <1>4, <1>5, <1>6, <1>8 DEF BuffersOK, BufferFits

(* The strings that were given away, when no block goes back.               *)
LEMMA StringsKept ==
  ASSUME PoolOK(pool), StringsOK, NEW S, Grown(pool, pool', S), handed' = handed,
         \A m \in Node : handed[m] # {} => buf'[m] = buf[m]
  PROVE  StringsOK'
<1>1. NodeStringsStay'
  BY DEF StringsOK, NodeStringsStay, Grown
<1>2. \A m \in Node : handed'[m] # {} => buf'[m] # Nil
  BY DEF StringsOK
<1>3. ASSUME NEW m \in Node, NEW b \in Buffer, Has(pool', Data(b)),
             pool'.piece[Data(b)].block \in handed[m] \cap ToSet(pool'.singles)
      PROVE  buf'[m] = b
  <2> DEFINE x == pool'.piece[Data(b)].block
  <2>1. x \in pool.taken
    BY <1>3 DEF StringsOK, NodeStringsStay
  <2>2. pool'.piece[Data(b)] = pool.piece[Data(b)]
    BY <1>3, <2>1, Slots DEF Grown
  <2>3. x \in ToSet(pool.singles)
    BY <1>3, <2>1, GrownSingles
  <2>4. buf[m] = b
    BY <1>3, <2>2, <2>3 DEF StringsOK, Has
  <2> QED BY <1>3, <2>4
<1> QED BY <1>1, <1>2, <1>3 DEF StringsOK

-----------------------------------------------------------------------------
(***************************************************************************)
(* Every action keeps the invariant                                         *)
(***************************************************************************)

(* Expanding: a buffer that is too small gets no smaller, and large enough. *)
LEMMA Capacity ==
  ASSUME BuffersOK, NEW b \in Buffer, NEW len \in Nat, NEW l \in Nat
  PROVE  LET cap == IF Fits(b, len + l) THEN text[b].cap ELSE GrownCapacity(b, len, l) IN
         cap \in Nat /\ len + l <= cap /\ text[b].cap <= cap
<1>1. text[b].cap \in Nat
  BY DEF BuffersOK
<1>2. CASE Fits(b, len + l)
  BY <1>1, <1>2 DEF Fits
<1>3. CASE ~Fits(b, len + l)
  <2>1. /\ GrownCapacity(b, len, l) \in Nat /\ len + l <= GrownCapacity(b, len, l)
        /\ text[b].cap <= len + l
    BY <1>1, <1>3 DEF Fits, GrownCapacity
  <2> QED BY <1>1, <1>3, <2>1
<1> QED BY <1>2, <1>3

(* The cell a new node is put in is large enough for it.                    *)
LEMMA CellGiven ==
  ASSUME PoolInv, NEW n \in Node, NEW k \in Kind, IsNext(n, k), CanGive(pool, Cell(n), SizeOf(k))
  PROVE  LET q == Given(pool, Cell(n), SizeOf(k)) IN
         Grown(pool, q, {Cell(n)}) /\ q.piece[Cell(n)].size >= SizeOf(k)
<1> DEFINE q == Given(pool, Cell(n), SizeOf(k))
<1>1. /\ Grown(pool, q, {Cell(n)})
      /\ Has(pool, Cell(n)) => q.piece[Cell(n)] = pool.piece[Cell(n)]
      /\ ~Has(pool, Cell(n)) => q.piece[Cell(n)].size >= SizeOf(k)
  BY GivenGrows, Slots, SizesOfKinds DEF PoolInv
<1> HIDE DEF q
<1>2. CASE Has(pool, Cell(n))
  <2>1. waiting[k] \in Seq(Node) /\ IsInjective(waiting[k]) /\ waiting[k] # << >>
    BY <1>2 DEF IsNext, PoolInv, CellsOK
  <2>2. n \in ToSet(waiting[k])
    BY <2>1, FrontMembers DEF IsNext
  <2>3. pool.piece[Cell(n)].size >= SizeOf(k)
    BY <2>2 DEF PoolInv, CellsOK, CellsFit
  <2> QED BY <1>1, <1>2, <2>3 DEF q
<1> QED BY <1>1, <1>2 DEF q

ElementSlots(n, a) == {Cell(n), Entry(a), Defaults(n), Attributes(n)}

(* As far as the pieces of a new element have been given.                   *)
LEMMA PiecesGrow ==
  ASSUME PoolInv, NEW n \in Node, NEW a \in Name, IsNext(n, "element"), NEW i \in 0 .. 4,
         RoomForPieces(n, a, i)
  PROVE  /\ Grown(pool, AfterPieces(n, a, i), ElementSlots(n, a))
         /\ i >= 1 => AfterPieces(n, a, i).piece[Cell(n)].size >= ElementSize
<1> DEFINE P(j) == AfterPieces(n, a, j)
           S == ElementSlots(n, a)
<1>1. /\ P(0) = pool
      /\ P(1) = Given(pool, Cell(n), ElementSize)
      /\ P(2) = Given(P(1), Entry(a), EntrySize)
      /\ P(3) = Given(P(2), Defaults(n), MapSize)
      /\ P(4) = Given(P(3), Attributes(n), MapSize)
  BY DEF AfterPieces
<1>2. /\ i >= 1 => CanGive(pool, Cell(n), ElementSize)
      /\ i >= 2 => CanGive(P(1), Entry(a), EntrySize)
      /\ i >= 3 => CanGive(P(2), Defaults(n), MapSize)
      /\ i >= 4 => CanGive(P(3), Attributes(n), MapSize)
  BY DEF RoomForPieces
<1>3. /\ Cell(n) \in Slot /\ Entry(a) \in Slot /\ Defaults(n) \in Slot /\ Attributes(n) \in Slot
      /\ Entry(a) # Cell(n) /\ Cell(n) # Defaults(n) /\ Cell(n) # Attributes(n)
      /\ {Cell(n)} \subseteq S /\ {Entry(a)} \subseteq S /\ {Defaults(n)} \subseteq S
      /\ {Attributes(n)} \subseteq S
  BY Slots, SlotsApart DEF ElementSlots
<1>4. PoolOK(pool) /\ SizeOf("element") = ElementSize /\ "element" \in Kind
  BY DEF PoolInv, SizeOf, Kind
<1> HIDE DEF P, S
<1>5. Grown(pool, P(0), S)
  BY <1>1, <1>4, GrownStays
<1>6. ASSUME i >= 1
      PROVE  Grown(pool, P(1), S) /\ P(1).piece[Cell(n)].size >= ElementSize
  <2>1. Grown(pool, P(1), {Cell(n)}) /\ P(1).piece[Cell(n)].size >= ElementSize
    BY <1>1, <1>2, <1>4, <1>6, CellGiven
  <2> QED BY <1>3, <2>1, GrownWider
<1>7. ASSUME NEW p, NEW q, NEW s \in Slot, NEW size \in Nat \ {0}, {s} \subseteq S, s # Cell(n),
             Grown(pool, p, S), p.piece[Cell(n)].size >= ElementSize,
             q = Given(p, s, size), CanGive(p, s, size)
      PROVE  Grown(pool, q, S) /\ q.piece[Cell(n)].size >= ElementSize
  <2>1. Grown(p, q, {s})
    BY <1>7, GivenGrows DEF Grown
  <2>2. Grown(pool, q, S \cup {s}) /\ S \cup {s} = S
    BY <1>4, <1>7, <2>1, GrownTwice
  <2>3. q.piece[Cell(n)] = p.piece[Cell(n)]
    BY <1>3, <1>7, <2>1 DEF Grown
  <2> QED BY <1>7, <2>2, <2>3
<1>8. EntrySize \in Nat \ {0} /\ MapSize \in Nat \ {0}
  BY Constants
<1>9. ASSUME i >= 2
      PROVE  Grown(pool, P(2), S) /\ P(2).piece[Cell(n)].size >= ElementSize
  BY <1>1, <1>2, <1>3, <1>6, <1>7, <1>8, <1>9
<1>10. ASSUME i >= 3
       PROVE  Grown(pool, P(3), S) /\ P(3).piece[Cell(n)].size >= ElementSize
  BY <1>1, <1>2, <1>3, <1>7, <1>8, <1>9, <1>10
<1>11. ASSUME i >= 4
       PROVE  Grown(pool, P(4), S) /\ P(4).piece[Cell(n)].size >= ElementSize
  BY <1>1, <1>2, <1>3, <1>7, <1>8, <1>10, <1>11
<1>12. i = 0 \/ i = 1 \/ i = 2 \/ i = 3 \/ i = 4
  OBVIOUS
<1> QED BY <1>5, <1>6, <1>9, <1>10, <1>11, <1>12 DEF P, S

(* An element, whatever becomes of it: the buffers and the strings stay.    *)
LEMMA ElementStep ==
  ASSUME PoolInv, NEW n \in Node, NEW S, document = "live",
         Grown(pool, pool', S), CellsOK',
         \A b \in Buffer : Object(b) \notin S /\ Data(b) \notin S,
         \A m \in Node : kind'[m] = "text" <=> kind[m] = "text",
         UNCHANGED <<buf, text, spare, handed, document>>
  PROVE  PoolInv'
<1>1. BuffersOK'
  <2>1. \A c \in Buffer : /\ pool'.piece[Object(c)] = pool.piece[Object(c)]
                          /\ pool'.piece[Data(c)] = pool.piece[Data(c)]
    BY Slots DEF Grown
  <2> QED BY <2>1, BuffersStay DEF PoolInv
<1>2. StringsOK'
  BY StringsKept DEF PoolInv
<1> QED BY <1>1, <1>2 DEF PoolInv, Grown

LEMMA CreateElementKeeps ==
  ASSUME PoolInv, NEW n \in Node, NEW a \in Name, CreateElement(n, a)
  PROVE  PoolInv'
<1>1. /\ Grown(pool, pool', ElementSlots(n, a)) /\ pool'.piece[Cell(n)].size >= ElementSize
      /\ document = "live" /\ IsNext(n, "element") /\ TakeCell("element")
      /\ kind' = [kind EXCEPT ![n] = "element"]
      /\ UNCHANGED <<buf, text, spare, handed, document>>
  BY PiecesGrow DEF CreateElement
<1>2. CellsOK' /\ kind[n] = Nil
  <2>1. \A m \in Node \ {n} : pool'.piece[Cell(m)] = pool.piece[Cell(m)]
    BY <1>1, Slots, SlotsApart DEF Grown, ElementSlots
  <2>2. "element" \in Kind /\ SizeOf("element") = ElementSize
    BY DEF Kind, SizeOf
  <2> QED BY <1>1, <2>1, <2>2, CellTaken DEF PoolInv, Grown
<1>3. \A m \in Node : kind'[m] = "text" <=> kind[m] = "text"
  BY <1>1, <1>2, KindsAreNotNil DEF PoolInv, CellsOK
<1>4. \A b \in Buffer : Object(b) \notin ElementSlots(n, a) /\ Data(b) \notin ElementSlots(n, a)
  BY SlotsApart DEF ElementSlots
<1> QED BY <1>1, <1>2, <1>3, <1>4, ElementStep

LEMMA CreateElementThrowsKeeps ==
  ASSUME PoolInv, NEW n \in Node, NEW a \in Name, NEW i \in 0 .. 3, CreateElementThrows(n, a, i)
  PROVE  PoolInv'
<1> DEFINE S == ElementSlots(n, a)
           T == {Cell(n), Defaults(n), Attributes(n)}
<1>1. /\ RoomForPieces(n, a, i) /\ pool' = Lost(AfterPieces(n, a, i), T)
      /\ document = "live" /\ IsNext(n, "element") /\ TakeCell("element")
      /\ UNCHANGED <<kind, buf, text, spare, handed, document>>
  BY DEF CreateElementThrows
<1>2. S \cup T = S
  BY DEF ElementSlots
<1>3. Grown(pool, pool', S)
  <2>1. Grown(pool, AfterPieces(n, a, i), S)
    BY <1>1, PiecesGrow
  <2>2. Grown(AfterPieces(n, a, i), pool', T)
    BY <1>1, <2>1, LostGrows DEF Grown
  <2> HIDE DEF S, T
  <2> QED BY <1>2, <2>1, <2>2, GrownTwice DEF PoolInv
<1>4. CellsOK'
  <2>1. \A m \in Node \ {n} : pool'.piece[Cell(m)] = pool.piece[Cell(m)]
    BY <1>3, Slots, SlotsApart DEF Grown, ElementSlots
  <2>2. "element" \in Kind /\ kind[n] # "element"
    <3>1. kind[n] = Nil
      <4>1. waiting["element"] \in Seq(Node) /\ IsInjective(waiting["element"])
        BY DEF PoolInv, CellsOK, Kind
      <4> QED BY <1>1, <4>1, FrontMembers DEF IsNext, PoolInv, CellsOK, Kind
    <3> QED BY <3>1, KindsAreNotNil DEF Kind
  <2> QED BY <1>1, <1>3, <2>1, <2>2, CellTaken DEF PoolInv, Grown
<1>5. \A b \in Buffer : Object(b) \notin S /\ Data(b) \notin S
  BY SlotsApart DEF ElementSlots
<1> QED BY <1>1, <1>3, <1>4, <1>5, ElementStep

LEMMA ReleaseElementKeeps ==
  ASSUME PoolInv, NEW n \in Node, ReleaseElement(n)
  PROVE  PoolInv'
<1> DEFINE S == {Defaults(n), Attributes(n)}
<1>1. /\ pool' = Lost(pool, S) /\ document = "live" /\ kind[n] = "element"
      /\ kind' = [kind EXCEPT ![n] = Nil]
      /\ waiting' = [waiting EXCEPT !["element"] = Append(@, n)]
      /\ UNCHANGED <<buf, text, spare, handed, document>>
  BY DEF ReleaseElement
<1>2. Grown(pool, pool', S)
  BY <1>1, LostGrows DEF PoolInv
<1>3. CellsOK'
  <2>1. \A m \in Node : pool'.piece[Cell(m)] = pool.piece[Cell(m)]
    BY <1>2, Slots, SlotsApart DEF Grown
  <2> QED BY <1>1, <2>1, CellReturned DEF PoolInv, Kind
<1>4. \A m \in Node : kind'[m] = "text" <=> kind[m] = "text"
  BY <1>1, KindsAreNotNil DEF PoolInv, CellsOK
<1>5. \A b \in Buffer : Object(b) \notin S /\ Data(b) \notin S
  BY SlotsApart
<1> QED BY <1>1, <1>2, <1>3, <1>4, <1>5, ElementStep

LEMMA BytesArePositive == \A cap \in Nat : BytesFor(cap) \in Nat \ {0}
BY DEF BytesFor, CharSize

(* The cell and the kind of a new text, however its buffer came about.      *)
LEMMA NewTextCell ==
  ASSUME PoolInv, NEW n \in Node, IsNext(n, "text"), TakeCell("text"),
         PoolOK(pool'), kind' = kind \/ kind' = [kind EXCEPT ![n] = "text"],
         \A m \in Node \ {n} : pool'.piece[Cell(m)] = pool.piece[Cell(m)],
         kind' # kind => pool'.piece[Cell(n)].size >= TextSize
  PROVE  CellsOK' /\ kind[n] = Nil /\ buf[n] = Nil /\ handed[n] = {}
<1>1. "text" \in Kind /\ SizeOf("text") = TextSize
  BY DEF Kind, SizeOf
<1>2. kind[n] = Nil
  <2>1. waiting["text"] \in Seq(Node) /\ IsInjective(waiting["text"])
    BY <1>1 DEF PoolInv, CellsOK
  <2> QED BY <1>1, <2>1, FrontMembers DEF IsNext, PoolInv, CellsOK
<1>3. kind'[n] = "text" => pool'.piece[Cell(n)].size >= SizeOf("text")
  BY <1>1, <1>2, KindsAreNotNil
<1>4. CellsOK'
  BY <1>1, <1>3, CellTaken DEF PoolInv
<1> QED BY <1>2, <1>4, KindsAreNotNil DEF PoolInv, BuffersOK, StringsOK

LEMMA CreateTextKeeps ==
  ASSUME PoolInv, NEW n \in Node, NEW b \in Buffer, NEW l \in Length, CreateText(n, b, l)
  PROVE  PoolInv'
<1> DEFINE p1 == Given(pool, Cell(n), TextSize)
           p2 == Allocate(p1, Object(b), BufferSize)
           p3 == Allocate(p2, Data(b), BytesFor(l + Slack))
           S == {Cell(n), Object(b), Data(b)}
<1>1. /\ document = "live" /\ IsNext(n, "text") /\ spare = << >> /\ ~Has(pool, Object(b))
      /\ CanGive(pool, Cell(n), TextSize) /\ CanAllocate(p1, BufferSize)
      /\ CanAllocate(p2, BytesFor(l + Slack)) /\ pool' = p3
      /\ kind' = [kind EXCEPT ![n] = "text"] /\ buf' = [buf EXCEPT ![n] = b]
      /\ text' = [text EXCEPT ![b] = [cap |-> l + Slack, len |-> l]] /\ TakeCell("text")
      /\ UNCHANGED <<spare, handed, document>>
  BY DEF CreateText
<1>2. l \in Nat /\ l + Slack \in Nat /\ l <= l + Slack
  BY PoolAssumption, Constants
<1>3. Grown(pool, p1, {Cell(n)}) /\ p1.piece[Cell(n)].size >= TextSize
  BY <1>1, CellGiven DEF Kind, SizeOf
<1> HIDE DEF p1
<1>4. Grown(p1, p2, {Object(b)}) /\ Has(p2, Object(b))
  BY <1>1, <1>3, Slots, Constants, AllocateGrows DEF Grown
<1> HIDE DEF p2
<1>5. Grown(p2, p3, {Data(b)}) /\ p3.piece[Data(b)].size >= BytesFor(l + Slack)
  BY <1>1, <1>2, <1>4, Slots, BytesArePositive, AllocateGrows DEF Grown
<1> HIDE DEF p3
<1>6. Grown(pool, pool', S)
  <2>1. Grown(pool, p2, {Cell(n)} \cup {Object(b)})
    BY <1>3, <1>4, GrownTwice DEF PoolInv
  <2>2. Grown(pool, p3, ({Cell(n)} \cup {Object(b)}) \cup {Data(b)})
    BY <1>5, <2>1, GrownTwice DEF PoolInv
  <2>3. ({Cell(n)} \cup {Object(b)}) \cup {Data(b)} \subseteq S
    OBVIOUS
  <2> QED BY <1>1, <2>2, <2>3, GrownWider
<1>7. pool'.piece[Cell(n)].size >= TextSize /\ Has(pool', Object(b))
  BY <1>1, <1>3, <1>4, <1>5, Slots, SlotsApart DEF Grown, Has
<1>8. /\ \A m \in Node \ {n} : pool'.piece[Cell(m)] = pool.piece[Cell(m)]
      /\ \A c \in Buffer \ {b} : /\ pool'.piece[Object(c)] = pool.piece[Object(c)]
                                 /\ pool'.piece[Data(c)] = pool.piece[Data(c)]
  BY <1>6, Slots, SlotsApart DEF Grown
<1>9. CellsOK' /\ kind[n] = Nil /\ buf[n] = Nil /\ handed[n] = {}
  BY <1>1, <1>6, <1>7, <1>8, NewTextCell DEF Grown
<1>10. BuffersOK'
  <2>1. ~Used(b)
    BY <1>1 DEF PoolInv, BuffersOK
  <2>2. /\ spare' \in Seq(Buffer) /\ IsInjective(spare') /\ ToSet(spare') = ToSet(spare) \ {b}
        /\ \A m \in Node : buf[m] # b
    BY <1>1, <2>1 DEF PoolInv, BuffersOK, Used
  <2>3. BytesFor(l + Slack) <= pool'.piece[Data(b)].size
    <3>1. pool'.piece[Data(b)].size \in Nat
      BY <1>6, Slots, Pieces DEF Grown, PoolOK
    <3> QED BY <1>1, <1>2, <1>5, <3>1, BytesArePositive
  <2>4. kind \in [Node -> Kind \cup {Nil}]
    BY DEF PoolInv, CellsOK
  <2> QED BY <1>1, <1>2, <1>7, <1>8, <1>9, <2>2, <2>3, <2>4, BufferTaken DEF PoolInv
<1>11. StringsOK'
  <2>1. \A m \in Node : handed[m] # {} => buf'[m] = buf[m]
    BY <1>1, <1>9 DEF PoolInv, BuffersOK
  <2> QED BY <1>1, <1>6, <2>1, StringsKept DEF PoolInv
<1> QED BY <1>1, <1>6, <1>9, <1>10, <1>11 DEF PoolInv, Grown

(* What is left when memory does not suffice for a text and its buffer.     *)
LEMMA AbandonedKeeps ==
  ASSUME PoolInv, NEW n \in Node, NEW b \in Buffer, NEW p, NEW S, Grown(pool, p, S),
         S \subseteq {Cell(n), Object(b), Data(b)}, pool' = Abandoned(p, n, b),
         IsNext(n, "text"), TakeCell("text"), document = "live",
         \A m \in Node : buf[m] # b,
         spare' \in Seq(Buffer), IsInjective(spare'), ToSet(spare') = ToSet(spare) \ {b},
         UNCHANGED <<kind, buf, text, handed, document>>
  PROVE  PoolInv'
<1> DEFINE T == {Cell(n), Object(b), Data(b)}
<1>1. Grown(p, pool', T)
  BY LostGrows DEF Abandoned, Grown
<1>2. Grown(pool, pool', T)
  <2>1. S \cup T = T
    OBVIOUS
  <2> HIDE DEF T
  <2> QED BY <1>1, <2>1, GrownTwice DEF PoolInv
<1>3. /\ \A m \in Node \ {n} : pool'.piece[Cell(m)] = pool.piece[Cell(m)]
      /\ \A c \in Buffer \ {b} : /\ pool'.piece[Object(c)] = pool.piece[Object(c)]
                                 /\ pool'.piece[Data(c)] = pool.piece[Data(c)]
  BY <1>2, Slots, SlotsApart DEF Grown
<1>4. CellsOK'
  BY <1>2, <1>3, NewTextCell DEF Grown
<1>5. BuffersOK'
  BY <1>3, BufferLost DEF PoolInv
<1>6. StringsOK'
  BY <1>2, StringsKept DEF PoolInv
<1> QED BY <1>2, <1>4, <1>5, <1>6 DEF PoolInv, Grown

LEMMA CreateTextThrowsKeeps ==
  ASSUME PoolInv, NEW n \in Node, NEW b \in Buffer, NEW l \in Length, CreateTextThrows(n, b, l)
  PROVE  PoolInv'
<1> DEFINE p1 == Given(pool, Cell(n), TextSize)
           p2 == Allocate(p1, Object(b), BufferSize)
           S == {Cell(n), Object(b), Data(b)}
<1>1. /\ document = "live" /\ IsNext(n, "text") /\ spare = << >> /\ ~Has(pool, Object(b))
      /\ CanGive(pool, Cell(n), TextSize)
      /\ \/ pool' = Abandoned(p1, n, b)
         \/ /\ CanAllocate(p1, BufferSize)
            /\ pool' = Abandoned(p2, n, b)
      /\ TakeCell("text") /\ UNCHANGED <<kind, buf, text, spare, handed, document>>
  BY DEF CreateTextThrows
<1>2. Grown(pool, p1, {Cell(n)})
  BY <1>1, CellGiven DEF Kind, SizeOf
<1> HIDE DEF p1
<1>3. CanAllocate(p1, BufferSize) => Grown(pool, p2, {Cell(n)} \cup {Object(b)})
  <2> SUFFICES ASSUME CanAllocate(p1, BufferSize)
               PROVE  Grown(pool, p2, {Cell(n)} \cup {Object(b)})
    OBVIOUS
  <2>1. Grown(p1, p2, {Object(b)})
    BY <1>2, Slots, Constants, AllocateGrows DEF Grown
  <2> HIDE DEF p2
  <2> QED BY <1>2, <2>1, GrownTwice DEF PoolInv
<1> HIDE DEF p2
<1>4. ~Used(b)
  BY <1>1 DEF PoolInv, BuffersOK
<1>5. /\ spare' \in Seq(Buffer) /\ IsInjective(spare') /\ ToSet(spare') = ToSet(spare) \ {b}
      /\ \A m \in Node : buf[m] # b
  BY <1>1, <1>4 DEF PoolInv, BuffersOK, Used
<1>6. CASE pool' = Abandoned(p1, n, b)
  <2>1. {Cell(n)} \subseteq {Cell(n), Object(b), Data(b)}
    OBVIOUS
  <2> QED BY <1>1, <1>2, <1>5, <1>6, <2>1, AbandonedKeeps
<1>7. CASE CanAllocate(p1, BufferSize) /\ pool' = Abandoned(p2, n, b)
  <2>1. {Cell(n)} \cup {Object(b)} \subseteq {Cell(n), Object(b), Data(b)}
    OBVIOUS
  <2> QED BY <1>1, <1>3, <1>5, <1>7, <2>1, AbandonedKeeps
<1> QED BY <1>1, <1>6, <1>7

(* A buffer of the stack is nobody's, and leaves the stack for good.        *)
LEMMA SpareTaken ==
  ASSUME PoolInv, spare # << >>, NEW min
  PROVE  LET b == spare[PopIndex(min)]
             rest == WithoutSpare(PopIndex(min)) IN
         /\ b \in Buffer /\ Used(b) /\ \A m \in Node : buf[m] # b
         /\ rest \in Seq(Buffer) /\ IsInjective(rest) /\ ToSet(rest) = ToSet(spare) \ {b}
<1> DEFINE i == PopIndex(min)
<1>1. spare \in Seq(Buffer) /\ IsInjective(spare)
  BY DEF PoolInv, BuffersOK
<1>2. i \in DOMAIN spare
  BY <1>1, PopIndexInStack
<1> HIDE DEF i
<1>3. spare[i] \in Buffer /\ spare[i] \in ToSet(spare)
  BY <1>1, <1>2 DEF ToSet
<1>4. \A m \in Node : buf[m] # spare[i]
  BY <1>3, KindsAreNotNil DEF PoolInv, BuffersOK
<1>5. /\ RemoveAt(spare, i) \in Seq(Buffer) /\ IsInjective(RemoveAt(spare, i))
      /\ ToSet(RemoveAt(spare, i)) = ToSet(spare) \ {spare[i]}
  BY <1>1, <1>2, RemoveAtMembers
<1> QED BY <1>3, <1>4, <1>5 DEF i, WithoutSpare, Used

LEMMA CreateTextInSpareThrowsKeeps ==
  ASSUME PoolInv, NEW n \in Node, NEW l \in Length, CreateTextInSpareThrows(n, l)
  PROVE  PoolInv'
<1> DEFINE b == spare[PopIndex(l + 1)]
           p1 == Given(pool, Cell(n), TextSize)
<1>1. /\ document = "live" /\ IsNext(n, "text") /\ spare # << >>
      /\ CanGive(pool, Cell(n), TextSize)
      /\ pool' = Abandoned(p1, n, b) /\ spare' = WithoutSpare(PopIndex(l + 1))
      /\ TakeCell("text") /\ UNCHANGED <<kind, buf, text, handed, document>>
  BY DEF CreateTextInSpareThrows
<1>2. Grown(pool, p1, {Cell(n)})
  BY <1>1, CellGiven DEF Kind, SizeOf
<1>3. /\ b \in Buffer /\ \A m \in Node : buf[m] # b
      /\ spare' \in Seq(Buffer) /\ IsInjective(spare') /\ ToSet(spare') = ToSet(spare) \ {b}
  BY <1>1, SpareTaken
<1> HIDE DEF b, p1
<1>4. {Cell(n)} \subseteq {Cell(n), Object(b), Data(b)}
  OBVIOUS
<1>5. PICK c \in Buffer : c = b
  BY <1>3
<1> QED BY <1>1, <1>2, <1>3, <1>4, <1>5, AbandonedKeeps

LEMMA UsedHasData ==
  ASSUME BuffersOK, NEW b \in Buffer, Used(b)
  PROVE  Has(pool, Data(b)) /\ Has(pool, Object(b))
<1>1. text[b].cap \in Nat /\ BytesFor(text[b].cap) <= pool.piece[Data(b)].size
  BY DEF BuffersOK
<1>2. pool.piece[Data(b)] # NoPiece
  BY <1>1, BytesArePositive DEF NoPiece
<1> QED BY <1>2 DEF BuffersOK, Has

(* The same for a text that replaces what was there.                        *)
LEMMA NewCapacity ==
  ASSUME BuffersOK, NEW b \in Buffer, NEW l \in Nat
  PROVE  LET cap == IF Fits(b, l) THEN text[b].cap ELSE GrownCapacity(b, 0, l) IN
         cap \in Nat /\ l <= cap /\ text[b].cap <= cap
<1>1. text[b].cap \in Nat
  BY DEF BuffersOK
<1>2. CASE Fits(b, l)
  BY <1>1, <1>2 DEF Fits
<1>3. CASE ~Fits(b, l)
  <2>1. /\ GrownCapacity(b, 0, l) \in Nat /\ l <= GrownCapacity(b, 0, l) /\ text[b].cap <= l
    BY <1>1, <1>3 DEF Fits, GrownCapacity
  <2> QED BY <1>1, <1>3, <2>1
<1> QED BY <1>2, <1>3

(* A buffer that holds cap characters, or grows to hold them.               *)
LEMMA RoomMade ==
  ASSUME NEW p, PoolOK(p), NEW b \in Buffer, NEW count, NEW cap \in Nat,
         Fits(b, count) => BytesFor(cap) <= p.piece[Data(b)].size,
         Fits(b, count) \/ CanAllocate(p, BytesFor(cap))
  PROVE  LET q == IF Fits(b, count) THEN p ELSE Expanded(p, b, cap, FALSE) IN
         Grown(p, q, {Data(b)}) /\ BytesFor(cap) <= q.piece[Data(b)].size
<1>1. CASE Fits(b, count)
  BY <1>1, GrownStays
<1>2. CASE ~Fits(b, count)
  <2> DEFINE q == Expanded(p, b, cap, FALSE)
  <2>1. PoolOK(q) /\ q.piece[Data(b)].size >= BytesFor(cap) /\ Grown(p, q, {Data(b)})
    BY <1>2, ExpandedKeepsPool
  <2>2. q.piece[Data(b)].size \in Nat
    BY <2>1, Slots, Pieces DEF PoolOK
  <2> HIDE DEF q
  <2>3. BytesFor(cap) <= q.piece[Data(b)].size
    BY <2>1, <2>2, BytesArePositive
  <2> QED BY <1>2, <2>1, <2>3 DEF q
<1> QED BY <1>1, <1>2

LEMMA CreateTextInSpareKeeps ==
  ASSUME PoolInv, NEW n \in Node, NEW l \in Length, CreateTextInSpare(n, l)
  PROVE  PoolInv'
<1> DEFINE b == spare[PopIndex(l + 1)]
           p1 == Given(pool, Cell(n), TextSize)
           cap == IF Fits(b, l) THEN text[b].cap ELSE GrownCapacity(b, 0, l)
           q == IF Fits(b, l) THEN p1 ELSE Expanded(p1, b, cap, FALSE)
           S == {Cell(n)} \cup {Data(b)}
<1>1. /\ document = "live" /\ IsNext(n, "text") /\ spare # << >>
      /\ CanGive(pool, Cell(n), TextSize)
      /\ Fits(b, l) \/ CanAllocate(p1, BytesFor(cap))
      /\ pool' = q
      /\ kind' = [kind EXCEPT ![n] = "text"] /\ buf' = [buf EXCEPT ![n] = b]
      /\ text' = [text EXCEPT ![b] = [cap |-> cap, len |-> l]]
      /\ spare' = WithoutSpare(PopIndex(l + 1))
      /\ TakeCell("text") /\ UNCHANGED <<handed, document>>
  BY DEF CreateTextInSpare
<1>2. /\ b \in Buffer /\ Used(b) /\ \A m \in Node : buf[m] # b
      /\ spare' \in Seq(Buffer) /\ IsInjective(spare') /\ ToSet(spare') = ToSet(spare) \ {b}
  BY <1>1, SpareTaken
<1> HIDE DEF b
<1>3. l \in Nat /\ cap \in Nat /\ l <= cap
  BY <1>2, NewCapacity, PoolAssumption DEF PoolInv
<1>4. Fits(b, l) => cap = text[b].cap
  OBVIOUS
<1> HIDE DEF cap
<1>5. Grown(pool, p1, {Cell(n)}) /\ p1.piece[Cell(n)].size >= TextSize
  BY <1>1, CellGiven DEF Kind, SizeOf
<1> HIDE DEF p1
<1>6. p1.piece[Data(b)] = pool.piece[Data(b)]
  BY <1>2, <1>5, Slots, SlotsApart DEF Grown
<1>7. Fits(b, l) => BytesFor(cap) <= p1.piece[Data(b)].size
  BY <1>2, <1>4, <1>6 DEF PoolInv, BuffersOK
<1>8. Grown(p1, q, {Data(b)}) /\ BytesFor(cap) <= q.piece[Data(b)].size
  BY <1>1, <1>2, <1>3, <1>5, <1>7, RoomMade DEF Grown
<1> HIDE DEF q
<1>9. Grown(pool, pool', S)
  BY <1>1, <1>5, <1>8, GrownTwice DEF PoolInv
<1>10. /\ \A m \in Node \ {n} : pool'.piece[Cell(m)] = pool.piece[Cell(m)]
       /\ pool'.piece[Object(b)] = pool.piece[Object(b)]
       /\ \A c \in Buffer \ {b} : /\ pool'.piece[Object(c)] = pool.piece[Object(c)]
                                  /\ pool'.piece[Data(c)] = pool.piece[Data(c)]
  BY <1>2, <1>9, Slots, SlotsApart DEF Grown
<1>11. pool'.piece[Cell(n)].size >= TextSize
  BY <1>1, <1>2, <1>5, <1>8, Slots, SlotsApart DEF Grown
<1>12. CellsOK' /\ kind[n] = Nil /\ buf[n] = Nil /\ handed[n] = {}
  BY <1>1, <1>9, <1>10, <1>11, NewTextCell DEF Grown
<1>13. BuffersOK'
  <2>1. Has(pool', Object(b))
    BY <1>2, <1>10, UsedHasData DEF PoolInv, Has
  <2>2. kind \in [Node -> Kind \cup {Nil}]
    BY DEF PoolInv, CellsOK
  <2>3. PICK c \in Buffer : c = b
    BY <1>2
  <2> QED BY <1>1, <1>2, <1>3, <1>8, <1>10, <1>12, <2>1, <2>2, <2>3, BufferTaken DEF PoolInv
<1>14. StringsOK'
  <2>1. \A m \in Node : handed[m] # {} => buf'[m] = buf[m]
    BY <1>1, <1>12 DEF PoolInv, BuffersOK
  <2> QED BY <1>1, <1>9, <2>1, StringsKept DEF PoolInv
<1> QED BY <1>1, <1>9, <1>12, <1>13, <1>14 DEF PoolInv, Grown

LEMMA SetDataKeeps ==
  ASSUME PoolInv, NEW n \in Node, NEW l \in Length, SetData(n, l)
  PROVE  PoolInv'
<1> DEFINE b == buf[n]
           cap == IF Fits(b, l) THEN text[b].cap ELSE GrownCapacity(b, 0, l)
<1>1. /\ document = "live" /\ kind[n] = "text"
      /\ Fits(b, l) \/ CanAllocate(pool, BytesFor(cap))
      /\ pool' = IF Fits(b, l) THEN pool ELSE Expanded(pool, b, cap, FALSE)
      /\ text' = [text EXCEPT ![b] = [cap |-> cap, len |-> l]]
      /\ UNCHANGED <<kind, buf, waiting, spare, handed, document>>
  BY DEF SetData
<1>2. b \in Buffer /\ Used(b)
  BY <1>1 DEF PoolInv, BuffersOK, Used
<1>3. l \in Nat /\ cap \in Nat /\ l <= cap
  BY <1>2, NewCapacity, PoolAssumption DEF PoolInv
<1>4. Fits(b, l) => BytesFor(cap) <= pool.piece[Data(b)].size
  BY <1>2 DEF PoolInv, BuffersOK
<1> HIDE DEF cap
<1>5. Grown(pool, pool', {Data(b)}) /\ BytesFor(cap) <= pool'.piece[Data(b)].size
  BY <1>1, <1>2, <1>3, <1>4, RoomMade DEF PoolInv
<1>6. /\ \A m \in Node : pool'.piece[Cell(m)] = pool.piece[Cell(m)]
      /\ pool'.piece[Object(b)] = pool.piece[Object(b)]
      /\ \A c \in Buffer \ {b} : /\ pool'.piece[Object(c)] = pool.piece[Object(c)]
                                 /\ pool'.piece[Data(c)] = pool.piece[Data(c)]
  BY <1>2, <1>5, Slots, SlotsApart DEF Grown
<1>7. CellsOK'
  BY <1>1, <1>6, CellsStay DEF PoolInv
<1>8. BuffersOK'
  BY <1>1, <1>2, <1>3, <1>5, <1>6, BufferWritten DEF PoolInv
<1>9. StringsOK'
  BY <1>1, <1>5, StringsKept DEF PoolInv
<1> QED BY <1>1, <1>5, <1>7, <1>8, <1>9 DEF PoolInv, Grown

LEMMA SetDataThrowsKeeps ==
  ASSUME PoolInv, NEW n \in Node, NEW l \in Length, SetDataThrows(n, l)
  PROVE  PoolInv'
<1> DEFINE b == buf[n]
<1>1. /\ document = "live" /\ kind[n] = "text" /\ text' = [text EXCEPT ![b].len = 0]
      /\ UNCHANGED <<pool, kind, buf, waiting, spare, handed, document>>
  BY DEF SetDataThrows
<1>2. /\ b \in Buffer /\ text[b] \in [cap : Nat, len : Nat]
      /\ BytesFor(text[b].cap) <= pool.piece[Data(b)].size
  BY <1>1 DEF PoolInv, BuffersOK, Used
<1>3. text' = [text EXCEPT ![b] = [cap |-> text[b].cap, len |-> 0]]
  <2>1. [text[b] EXCEPT !.len = 0] = [cap |-> text[b].cap, len |-> 0]
    BY <1>2
  <2> QED BY <1>1, <2>1
<1>4. BuffersOK'
  <2>1. PICK cap \in Nat : cap = text[b].cap
    BY <1>2
  <2>2. text' = [text EXCEPT ![b] = [cap |-> cap, len |-> 0]] /\ 0 \in Nat /\ 0 <= cap
    BY <1>3, <2>1
  <2> QED BY <1>1, <1>2, <2>1, <2>2, BufferWritten DEF PoolInv
<1>5. Grown(pool, pool', {})
  BY <1>1, GrownStays DEF PoolInv
<1>6. CellsOK' /\ StringsOK'
  <2>1. CellsOK'
    BY <1>1, CellsStay DEF PoolInv
  <2>2. StringsOK'
    BY <1>1, <1>5, StringsKept DEF PoolInv
  <2> QED BY <2>1, <2>2
<1> QED BY <1>1, <1>4, <1>6 DEF PoolInv

(* A text that grows. Only if nobody has a string of it may the memory of   *)
(* the old text go back, and then nobody else has one that lies there.      *)
LEMMA AppendedKeeps ==
  ASSUME PoolInv, NEW n \in Node, NEW l \in Length, NEW release \in BOOLEAN,
         release => handed[n] = {}, Appended(n, l, release)
  PROVE  PoolInv'
<1> DEFINE b == buf[n]
           len == text[b].len
           cap == IF Fits(b, len + l) THEN text[b].cap ELSE GrownCapacity(b, len, l)
           old == pool.piece[Data(b)].block
<1>1. /\ document = "live" /\ kind[n] = "text"
      /\ Fits(b, len + l) \/ CanAllocate(pool, BytesFor(cap))
      /\ pool' = IF Fits(b, len + l) THEN pool ELSE Expanded(pool, b, cap, release)
      /\ text' = [text EXCEPT ![b] = [cap |-> cap, len |-> len + l]]
      /\ UNCHANGED <<kind, buf, waiting, spare, handed, document>>
  BY DEF Appended
<1>2. b \in Buffer /\ Used(b) /\ Has(pool, Data(b)) /\ PoolOK(pool)
  BY <1>1, UsedHasData DEF PoolInv, BuffersOK, Used
<1>3. len \in Nat /\ len + l \in Nat /\ cap \in Nat /\ len + l <= cap
  <2>1. l \in Nat /\ len \in Nat
    BY <1>2, PoolAssumption DEF PoolInv, BuffersOK
  <2>2. BuffersOK /\ Used(b) /\ b \in Buffer
    BY <1>2 DEF PoolInv
  <2>3. cap = IF Fits(b, len + l) THEN text[b].cap ELSE GrownCapacity(b, len, l)
    OBVIOUS
  <2> HIDE DEF b, len, cap
  <2>4. cap \in Nat /\ len + l <= cap
    BY <2>1, <2>2, <2>3, Capacity
  <2> QED BY <2>1, <2>4
<1>4. Fits(b, len + l) => BytesFor(cap) <= pool.piece[Data(b)].size
  BY <1>2 DEF PoolInv, BuffersOK
<1> HIDE DEF cap, len
<1>5. /\ PoolOK(pool') /\ BytesFor(cap) <= pool'.piece[Data(b)].size
      /\ \A t \in Slot \ {Data(b)} : pool'.piece[t] = pool.piece[t]
      /\ ToSet(pool.heap) \subseteq ToSet(pool'.heap)
      /\ pool.taken \ pool'.taken \subseteq {old} \cap ToSet(pool.singles)
      /\ pool'.taken = pool.taken \/ release \/ pool.taken \subseteq pool'.taken
      /\ pool'.piece[Data(b)] = pool.piece[Data(b)]
           \/ pool'.piece[Data(b)].block \notin ToSet(pool'.singles) \cap pool.taken
  <2>1. CASE Fits(b, len + l)
    BY <1>1, <1>2, <1>4, <2>1
  <2>2. CASE ~Fits(b, len + l)
    <3> DEFINE q == Expanded(pool, b, cap, release)
    <3>1. /\ PoolOK(q) /\ q.piece[Data(b)].size >= BytesFor(cap)
          /\ \A t \in Slot \ {Data(b)} : q.piece[t] = pool.piece[t]
          /\ ToSet(pool.heap) \subseteq ToSet(q.heap)
          /\ pool.taken \ q.taken \subseteq {old} \cap ToSet(pool.singles)
          /\ q.piece[Data(b)].block \notin ToSet(q.singles) \cap pool.taken
          /\ ~release => Grown(pool, q, {Data(b)})
      <4>1. CanAllocate(pool, BytesFor(cap)) /\ cap \in Nat /\ b \in Buffer /\ PoolOK(pool)
        BY <1>1, <1>2, <1>3, <2>2
      <4>2. q = Expanded(pool, b, cap, release) /\ old = pool.piece[Data(b)].block
        OBVIOUS
      <4> HIDE DEF b, q, old
      <4> QED BY <4>1, <4>2, ExpandedKeepsPool, SMTT(60)
    <3>2. pool' = q
      BY <1>1, <2>2
    <3> HIDE DEF q
    <3>3. q.piece[Data(b)].size \in Nat
      BY <1>2, <3>1, Slots, Pieces DEF PoolOK
    <3>4. BytesFor(cap) <= q.piece[Data(b)].size
      BY <1>3, <3>1, <3>3, BytesArePositive
    <3> QED BY <3>1, <3>2, <3>4 DEF Grown
  <2> QED BY <2>1, <2>2
<1>6. /\ \A m \in Node : pool'.piece[Cell(m)] = pool.piece[Cell(m)]
      /\ pool'.piece[Object(b)] = pool.piece[Object(b)]
      /\ \A c \in Buffer \ {b} : /\ pool'.piece[Object(c)] = pool.piece[Object(c)]
                                 /\ pool'.piece[Data(c)] = pool.piece[Data(c)]
  BY <1>2, <1>5, Slots, SlotsApart
<1>7. CellsOK'
  BY <1>1, <1>6, CellsStay DEF PoolInv
<1>8. BuffersOK'
  BY <1>1, <1>2, <1>3, <1>5, <1>6, BufferWritten DEF PoolInv
<1>9. StringsOK'
  <2>1. NodeStringsStay'
    <3> SUFFICES ASSUME NEW m \in Node, NEW x \in handed[m], x \notin pool'.taken
                 PROVE  FALSE
      BY <1>1 DEF NodeStringsStay
    <3>1. x \in pool.taken
      BY DEF PoolInv, StringsOK, NodeStringsStay
    <3>2. x = old /\ x \in ToSet(pool.singles) /\ release
      BY <1>5, <3>1
    <3>3. buf[m] = b
      BY <1>2, <3>2 DEF PoolInv, StringsOK
    <3>4. m = n
      BY <1>2, <3>3, KindsAreNotNil DEF PoolInv, BuffersOK
    <3> QED BY <3>2, <3>4
  <2>2. ASSUME NEW m \in Node, NEW c \in Buffer, Has(pool', Data(c)),
               pool'.piece[Data(c)].block \in handed[m] \cap ToSet(pool'.singles)
        PROVE  buf[m] = c
    <3> DEFINE x == pool'.piece[Data(c)].block
    <3>1. x \in pool.taken
      BY <2>2 DEF PoolInv, StringsOK, NodeStringsStay
    <3>2. pool'.piece[Data(c)] = pool.piece[Data(c)]
      <4>1. CASE c = b
        BY <1>5, <2>2, <3>1, <4>1
      <4>2. CASE c # b
        BY <1>6, <4>2
      <4> QED BY <4>1, <4>2
    <3>3. x \in ToSet(pool.singles)
      BY <1>2, <1>5, <2>2, <3>1 DEF PoolOK, Listed
    <3> QED BY <2>2, <3>2, <3>3 DEF PoolInv, StringsOK, Has
  <2> QED BY <1>1, <2>1, <2>2 DEF PoolInv, StringsOK
<1> QED BY <1>1, <1>5, <1>7, <1>8, <1>9 DEF PoolInv

LEMMA GetNodeValueKeeps ==
  ASSUME PoolInv, NEW n \in Node, GetNodeValue(n)
  PROVE  PoolInv'
<1> DEFINE x == pool.piece[Data(buf[n])].block
<1>1. /\ document = "live" /\ kind[n] = "text"
      /\ handed' = [handed EXCEPT ![n] = @ \cup {x}]
      /\ UNCHANGED <<pool, kind, buf, text, waiting, spare, document>>
  BY DEF GetNodeValue
<1>2. /\ buf[n] \in Buffer /\ buf[n] # Nil /\ Has(pool, Data(buf[n]))
      /\ handed \in [Node -> SUBSET Block]
  BY <1>1, UsedHasData, KindsAreNotNil DEF PoolInv, BuffersOK, StringsOK, Used
<1>3. x \in Block /\ x \in pool.taken
  BY <1>2, Slots, Pieces DEF PoolInv, PoolOK, Inside
<1>4. \A c \in Buffer : Has(pool, Data(c)) /\ pool.piece[Data(c)].block = x
                          /\ x \in ToSet(pool.singles) => c = buf[n]
  BY <1>2, Slots, SlotsApart DEF PoolInv, PoolOK, Alone
<1> HIDE DEF x
<1>5. /\ handed' \in [Node -> SUBSET Block]
      /\ \A m \in Node : handed'[m] = IF m = n THEN handed[n] \cup {x} ELSE handed[m]
  BY <1>1, <1>2, <1>3
<1>6. StringsOK'
  <2>1. NodeStringsStay'
    BY <1>1, <1>3, <1>5 DEF PoolInv, StringsOK, NodeStringsStay
  <2>2. \A m \in Node : handed'[m] # {} => buf'[m] # Nil
    BY <1>1, <1>2, <1>5 DEF PoolInv, StringsOK
  <2>3. ASSUME NEW m \in Node, NEW c \in Buffer, Has(pool, Data(c)),
               pool.piece[Data(c)].block \in handed'[m] \cap ToSet(pool.singles)
        PROVE  buf[m] = c
    <3>1. pool.piece[Data(c)].block \in handed[m] \/ (m = n /\ pool.piece[Data(c)].block = x)
      BY <1>5, <2>3
    <3> QED BY <1>4, <2>3, <3>1 DEF PoolInv, StringsOK
  <2> QED BY <1>1, <1>5, <2>1, <2>2, <2>3 DEF StringsOK, Has
<1>7. CellsOK' /\ BuffersOK'
  BY <1>1, CellsStay, BuffersStay DEF PoolInv
<1> QED BY <1>1, <1>3, <1>6, <1>7 DEF PoolInv

LEMMA ReleaseTextKeeps ==
  ASSUME PoolInv, NEW n \in Node, ReleaseText(n)
  PROVE  PoolInv'
<1>1. /\ document = "live" /\ kind[n] = "text" /\ kind' = [kind EXCEPT ![n] = Nil]
      /\ buf' = [buf EXCEPT ![n] = Nil] /\ spare' = Append(spare, buf[n])
      /\ waiting' = [waiting EXCEPT !["text"] = Append(@, n)]
      /\ handed' = [handed EXCEPT ![n] = {}]
      /\ UNCHANGED <<pool, text, document>>
  BY DEF ReleaseText
<1>2. CellsOK'
  BY <1>1, CellReturned DEF PoolInv, Kind
<1>3. BuffersOK'
  BY <1>1, BufferReturned DEF PoolInv, CellsOK
<1>4. StringsOK'
  <2>1. handed \in [Node -> SUBSET Block] /\ buf \in [Node -> Buffer \cup {Nil}]
    BY DEF PoolInv, StringsOK, BuffersOK
  <2>2. /\ handed' \in [Node -> SUBSET Block]
        /\ \A m \in Node : handed'[m] = {} \/ (handed'[m] = handed[m] /\ buf'[m] = buf[m])
    BY <1>1, <2>1
  <2>3. NodeStringsStay'
    BY <1>1, <2>2 DEF PoolInv, StringsOK, NodeStringsStay
  <2> QED BY <1>1, <2>2, <2>3 DEF PoolInv, StringsOK, Has
<1> QED BY <1>1, <1>2, <1>3, <1>4 DEF PoolInv

LEMMA SetMemoryAllocationBlockSizeKeeps ==
  ASSUME PoolInv, NEW size \in BlockSize, SetMemoryAllocationBlockSize(size)
  PROVE  PoolInv'
<1>1. /\ document = "live" /\ pool' = [pool EXCEPT !.next = size]
      /\ UNCHANGED <<kind, buf, text, waiting, spare, handed, document>>
  BY DEF SetMemoryAllocationBlockSize
<1>2. size \in Nat
  BY PoolAssumption
<1>3. pool \in Pool /\ PoolOK(pool)
  BY DEF PoolInv, PoolOK
<1>4. /\ pool'.taken = pool.taken /\ pool'.size = pool.size /\ pool'.heap = pool.heap
      /\ pool'.singles = pool.singles /\ pool'.at = pool.at /\ pool'.left = pool.left
      /\ pool'.next = size /\ pool'.piece = pool.piece
  BY <1>1, <1>3, Fields DEF Pool
<1>5. pool' \in Pool
  BY <1>1, <1>2, <1>3 DEF Pool
<1>6. PoolOK(pool')
  BY <1>2, <1>3, <1>4, <1>5 DEF PoolOK, Listed, Inside, Apart, Room, Alone, Has
<1>7. Grown(pool, pool', {})
  BY <1>4, <1>6 DEF Grown
<1>8. CellsOK'
  BY <1>1, <1>4, CellsStay DEF PoolInv
<1>9. BuffersOK'
  BY <1>1, <1>4, BuffersStay DEF PoolInv
<1>10. StringsOK'
  BY <1>1, <1>7, StringsKept DEF PoolInv
<1> QED BY <1>1, <1>6, <1>8, <1>9, <1>10 DEF PoolInv

LEMMA NoBlocksOK ==
  /\ PoolOK(NoBlocks) /\ NoBlocks.taken = {}
  /\ \A s \in Slot : NoBlocks.piece[s] = NoPiece
<1>1. /\ NoBlocks.taken = {} /\ NoBlocks.heap = << >> /\ NoBlocks.singles = << >>
      /\ NoBlocks.left = 0 /\ NoBlocks.next = InitialHeapAllocSize
      /\ NoBlocks.piece = [s \in Slot |-> NoPiece]
  BY DEF NoBlocks
<1>2. NoBlocks \in Pool
  <2>1. << >> \in Seq(Block) /\ [b \in Block |-> 0] \in [Block -> Nat]
        /\ [s \in Slot |-> NoPiece] \in [Slot -> Piece \cup {NoPiece}] /\ {} \in SUBSET Block
        /\ InitialHeapAllocSize \in Nat
    BY Constants
  <2> QED BY <2>1 DEF NoBlocks, Pool
<1>3. \A s \in Slot : NoBlocks.piece[s] = NoPiece /\ ~Has(NoBlocks, s)
  BY <1>1 DEF Has
<1>4. Listed(NoBlocks) /\ Inside(NoBlocks) /\ Apart(NoBlocks) /\ Room(NoBlocks) /\ Alone(NoBlocks)
  <2>1. Listed(NoBlocks)
    BY <1>1 DEF Listed, ToSet, IsInjective
  <2> QED BY <1>1, <1>3, <2>1 DEF Inside, Apart, Room, Alone
<1> QED BY <1>1, <1>2, <1>3, <1>4, PoolAssumption DEF PoolOK

(* A document without nodes and buffers.                                    *)
Empty ==
  /\ kind = [n \in Node |-> Nil] /\ waiting = [k \in Kind |-> << >>]
  /\ buf = [n \in Node |-> Nil] /\ text = [b \in Buffer |-> [cap |-> 0, len |-> 0]]
  /\ spare = << >> /\ handed = [n \in Node |-> {}]

LEMMA EmptyDocument == Empty => CellsOK /\ BuffersOK /\ StringsOK
<1> SUFFICES ASSUME Empty PROVE CellsOK /\ BuffersOK /\ StringsOK
  OBVIOUS
<1>1. << >> \in Seq(Node) /\ << >> \in Seq(Buffer) /\ IsInjective(<< >>) /\ ToSet(<< >>) = {}
  BY DEF IsInjective, ToSet
<1>2. CellsOK
  <2>1. CellsFit
    BY <1>1, KindsAreNotNil DEF CellsFit, Kind, Empty
  <2> QED BY <1>1, <2>1 DEF CellsOK, Kind, Empty
<1>3. BuffersOK
  <2>1. \A c \in Buffer : ~Used(c)
    BY <1>1, KindsAreNotNil DEF Used, Empty
  <2> QED BY <1>1, <2>1, KindsAreNotNil DEF BuffersOK, Empty
<1>4. StringsOK
  BY DEF StringsOK, NodeStringsStay, Empty
<1> QED BY <1>2, <1>3, <1>4

LEMMA ReleaseDocumentKeeps ==
  ASSUME PoolInv, ReleaseDocument
  PROVE  PoolInv' /\ pool'.taken = {} /\ \A s \in Slot : pool'.piece[s] = NoPiece
<1>1. pool.taken \ (ToSet(pool.heap) \cup ToSet(pool.singles)) = {}
  BY DEF PoolInv, PoolOK, Listed
<1>2. pool' = [NoBlocks EXCEPT !.taken = {}]
  BY <1>1 DEF ReleaseDocument
<1>3. pool' = NoBlocks
  BY <1>2 DEF NoBlocks
<1>4. CellsOK' /\ BuffersOK' /\ StringsOK'
  <2>1. Empty'
    BY DEF ReleaseDocument, Empty
  <2> QED BY <2>1, EmptyDocument, PTL
<1> QED BY <1>3, <1>4, NoBlocksOK DEF PoolInv, ReleaseDocument

LEMMA InitPoolInv == Init => PoolInv
<1> SUFFICES ASSUME Init PROVE PoolInv
  OBVIOUS
<1>1. CanAllocate(NoBlocks, TableSize)
  BY NoBlocksOK, PoolAssumption DEF CanAllocate
<1>2. PoolOK(pool)
  BY <1>1, NoBlocksOK, Slots, Constants, AllocateGrows DEF Init, Grown
<1>3. CellsOK /\ BuffersOK /\ StringsOK
  BY EmptyDocument DEF Init, Empty
<1> QED BY <1>2, <1>3 DEF Init, PoolInv

LEMMA StutterKeeps == ASSUME PoolInv, UNCHANGED vars PROVE PoolInv'
<1>1. Grown(pool, pool', {})
  BY GrownStays DEF PoolInv, vars
<1>2. CellsOK'
  BY CellsStay DEF PoolInv, vars
<1>3. BuffersOK'
  BY BuffersStay DEF PoolInv, vars
<1>4. StringsOK'
  BY <1>1, StringsKept DEF PoolInv, vars
<1> QED BY <1>1, <1>2, <1>3, <1>4 DEF PoolInv, Grown, vars

LEMMA NextPoolInv == PoolInv /\ [Next]_vars => PoolInv'
<1> SUFFICES ASSUME PoolInv, [Next]_vars PROVE PoolInv'
  OBVIOUS
<1>1. CASE Elements
  BY <1>1, CreateElementKeeps, CreateElementThrowsKeeps, ReleaseElementKeeps DEF Elements
<1>2. ASSUME NEW n \in Node, NEW l \in Length,
             \/ \E b \in Buffer : CreateText(n, b, l) \/ CreateTextThrows(n, b, l)
             \/ CreateTextInSpare(n, l) \/ CreateTextInSpareThrows(n, l)
             \/ SetData(n, l) \/ SetDataThrows(n, l)
             \/ AppendData(n, l) \/ AppendDataFast(n, l)
      PROVE  PoolInv'
  <2>1. CASE \E b \in Buffer : CreateText(n, b, l) \/ CreateTextThrows(n, b, l)
    BY <2>1, CreateTextKeeps, CreateTextThrowsKeeps
  <2>2. CASE CreateTextInSpare(n, l) \/ CreateTextInSpareThrows(n, l)
    BY <2>2, CreateTextInSpareKeeps, CreateTextInSpareThrowsKeeps
  <2>3. CASE SetData(n, l) \/ SetDataThrows(n, l)
    BY <2>3, SetDataKeeps, SetDataThrowsKeeps
  <2>4. CASE AppendData(n, l)
    <3>1. l \in Nat /\ Appended(n, l, FALSE)
      BY <2>4, PoolAssumption DEF AppendData
    <3> QED BY <3>1, AppendedKeeps
  <2>5. CASE AppendDataFast(n, l)
    <3>1. l \in Nat /\ Appended(n, l, TRUE) /\ handed[n] = {}
      BY <2>5, PoolAssumption DEF AppendDataFast
    <3> QED BY <3>1, AppendedKeeps
  <2> QED BY <1>2, <2>1, <2>2, <2>3, <2>4, <2>5
<1>3. CASE Texts
  BY <1>2, <1>3, GetNodeValueKeeps, ReleaseTextKeeps DEF Texts
<1>4. CASE \E size \in BlockSize : SetMemoryAllocationBlockSize(size)
  BY <1>4, SetMemoryAllocationBlockSizeKeeps
<1>5. CASE ReleaseDocument
  BY <1>5, ReleaseDocumentKeeps
<1>6. CASE UNCHANGED vars
  BY <1>6, StutterKeeps
<1> QED BY <1>1, <1>3, <1>4, <1>5, <1>6 DEF Next

-----------------------------------------------------------------------------
(***************************************************************************)
(* Theorems                                                                 *)
(***************************************************************************)

(* The invariant holds in every state, whatever sizes are asked for. Of a   *)
(* current block too small for its header and the largest piece it does not *)
(* say that pieces end within it: the code lets them leave it.              *)
THEOREM MemoryIsInOrder == Spec => []PoolInv
<1>1. Init => PoolInv
  BY InitPoolInv
<1>2. PoolInv /\ [Next]_vars => PoolInv'
  BY NextPoolInv
<1> QED BY <1>1, <1>2, PTL DEF Spec

(* Every variable keeps to its type.                                        *)
THEOREM PoolTypeCorrect == Spec => []TypeOK
<1>1. PoolInv => TypeOK
  BY DEF PoolInv, PoolOK, CellsOK, BuffersOK, StringsOK, TypeOK
<1> QED BY <1>1, MemoryIsInOrder, PTL

(* What fFreeBytesRemaining says is free behind fFreePtr, in a current block*)
(* with room for its header and the largest piece.                          *)
FreeBytesExact ==
  pool.heap # <<>> /\ IsRoomy(pool.size[Head(pool.heap)])
    => pool.at + pool.left = pool.size[Head(pool.heap)]

(* In every such block fFreeBytesRemaining is exactly what lies between     *)
(* fFreePtr and the end of the block, and never wraps around, after any     *)
(* requests and growths (DOMDocumentImpl::allocate). In a block that was    *)
(* asked for with a size that leaves no room for the header it does.        *)
THEOREM FreeBytesNeverWrap == Spec => []FreeBytesExact
<1>1. PoolInv => FreeBytesExact
  BY DEF PoolInv, PoolOK, Room, FreeBytesExact
<1> QED BY <1>1, MemoryIsInOrder, PTL

(* Whatever is asked for, however small or large, lies within a block the   *)
(* document has, if that is a block with room for its header and the largest*)
(* piece, as all are but those asked for with a size just above the largest *)
(* piece (DOMDocumentImpl::allocate, setMemoryAllocationBlockSize).         *)
THEOREM PiecesLieInside == Spec => []PiecesInside
<1>1. PoolInv => PiecesInside
  BY DEF PoolInv, PoolOK, Inside, PiecesInside
<1> QED BY <1>1, MemoryIsInOrder, PTL

(* No two pieces share a byte (DOMDocumentImpl::allocate and release).      *)
THEOREM PiecesLieApart == Spec => []PiecesApart
<1>1. PoolInv => PiecesApart
  BY DEF PoolInv, PoolOK, Apart, PiecesApart
<1> QED BY <1>1, MemoryIsInOrder, PTL

(* Every block the document has is in its lists once, and none is left      *)
(* after its release (DOMDocumentImpl::deleteHeap).                         *)
THEOREM BlocksGoBackOnce == Spec => []BlocksListed
<1>1. PoolInv => BlocksListed
  <2> SUFFICES ASSUME PoolInv PROVE BlocksListed
    OBVIOUS
  <2>1. /\ pool.heap \in Seq(Block) /\ pool.singles \in Seq(Block) /\ Listed(pool)
        /\ document = "released" => pool.taken = {}
    BY Fields DEF PoolInv, PoolOK
  <2> QED BY <2>1, ConcatMembers DEF Listed, BlocksListed
<1> QED BY <1>1, MemoryIsInOrder, PTL

(* No cell and no buffer is used twice, or used while it waits              *)
(* (DOMDocumentImpl::release, releaseBuffer and popBuffer).                 *)
THEOREM NothingIsUsedTwice == Spec => []OneUserEach
<1>1. PoolInv => OneUserEach
  <2> SUFFICES ASSUME PoolInv PROVE OneUserEach
    OBVIOUS
  <2>1. \A k \in Kind : IsInjective(waiting[k]) /\ \A n \in ToSet(waiting[k]) : ~InUse(n)
    BY DEF PoolInv, CellsOK, InUse
  <2>2. ToSet(waiting["element"]) \cap ToSet(waiting["text"]) = {}
    BY DEF PoolInv, CellsOK
  <2>3. IsInjective(spare) /\ \A n, m \in Node :
          buf[n] # Nil => buf[n] \notin ToSet(spare) /\ (buf[n] = buf[m] => n = m)
    BY DEF PoolInv, BuffersOK
  <2> QED BY <2>1, <2>2, <2>3 DEF OneUserEach
<1> QED BY <1>1, MemoryIsInOrder, PTL

(* The cells that are used again have room for the new nodes (operator new  *)
(* of DOMDocumentImpl.hpp).                                                 *)
THEOREM CellsAreLargeEnough == Spec => []CellsFit
<1>1. PoolInv => CellsFit
  BY DEF PoolInv, CellsOK
<1> QED BY <1>1, MemoryIsInOrder, PTL

(* No text is written behind the memory of its buffer (DOMBuffer::append,   *)
(* set and expandCapacity).                                                 *)
THEOREM TextsStayInside == Spec => []TextsFit
<1>1. PoolInv => TextsFit
  <2> SUFFICES ASSUME PoolInv, NEW b \in Buffer, b \in Range(buf) \cup ToSet(spare)
               PROVE  /\ text[b].len <= text[b].cap
                      /\ BytesFor(text[b].cap) <= pool.piece[Data(b)].size
    BY DEF TextsFit
  <2>1. Used(b)
    BY DEF Used, Range, PoolInv, BuffersOK
  <2> QED BY <2>1 DEF PoolInv, BuffersOK
<1> QED BY <1>1, MemoryIsInOrder, PTL

(* A string a text has given away stays in memory as long as the text does  *)
(* (DOMBuffer::expandCapacity, DOMCharacterDataImpl::appendDataFast).       *)
THEOREM StringsOfNodesStay == Spec => []NodeStringsStay
<1>1. PoolInv => NodeStringsStay
  BY DEF PoolInv, StringsOK
<1> QED BY <1>1, MemoryIsInOrder, PTL

Larger ==
  \A b \in Buffer : Has(pool, Object(b)) /\ Has(pool', Object(b)) => text'[b].cap >= text[b].cap

(* One text is written, and its capacity becomes no smaller.                *)
LEMMA WrittenIsLarger ==
  ASSUME BuffersOK, NEW b \in Buffer, NEW cap \in Nat, NEW len, text[b].cap <= cap,
         text' = [text EXCEPT ![b] = [cap |-> cap, len |-> len]]
  PROVE  Larger
<1> SUFFICES ASSUME NEW c \in Buffer PROVE text'[c].cap >= text[c].cap
  BY DEF Larger
<1>1. text \in [Buffer -> [cap : Nat, len : Nat]] /\ text[c].cap \in Nat
  BY DEF BuffersOK
<1>2. text'[c] = IF c = b THEN [cap |-> cap, len |-> len] ELSE text[c]
  BY <1>1
<1> QED BY <1>1, <1>2

LEMMA SameIsLarger == ASSUME BuffersOK, text' = text PROVE Larger
<1>1. \A b \in Buffer : text[b].cap \in Nat
  BY DEF BuffersOK
<1> QED BY <1>1 DEF Larger

LEMMA NextIsLarger == ASSUME PoolInv, Next PROVE Larger
<1>1. BuffersOK
  BY DEF PoolInv
<1>2. CASE Elements
  BY <1>1, <1>2, SameIsLarger DEF Elements, CreateElement, CreateElementThrows, ReleaseElement
<1>3. ASSUME NEW n \in Node, NEW l \in Length, NEW b \in Buffer, CreateText(n, b, l)
      PROVE  Larger
  <2>1. text' = [text EXCEPT ![b] = [cap |-> l + Slack, len |-> l]] /\ ~Has(pool, Object(b))
    BY <1>3 DEF CreateText
  <2>2. \A c \in Buffer \ {b} : text'[c] = text[c] /\ text[c].cap \in Nat
    BY <1>1, <2>1 DEF BuffersOK
  <2> QED BY <2>1, <2>2 DEF Larger
<1>4. ASSUME NEW n \in Node, NEW l \in Length, CreateTextInSpare(n, l)
      PROVE  Larger
  <2> DEFINE b == spare[PopIndex(l + 1)]
             cap == IF Fits(b, l) THEN text[b].cap ELSE GrownCapacity(b, 0, l)
  <2>1. text' = [text EXCEPT ![b] = [cap |-> cap, len |-> l]] /\ spare # << >>
    BY <1>4 DEF CreateTextInSpare
  <2>2. b \in Buffer
    BY <2>1, SpareTaken
  <2> HIDE DEF b
  <2>3. cap \in Nat /\ text[b].cap <= cap
    BY <1>1, <2>2, NewCapacity, PoolAssumption
  <2> HIDE DEF cap
  <2> QED BY <1>1, <2>1, <2>2, <2>3, WrittenIsLarger
<1>5. ASSUME NEW n \in Node, NEW l \in Length, SetData(n, l)
      PROVE  Larger
  <2> DEFINE b == buf[n]
             cap == IF Fits(b, l) THEN text[b].cap ELSE GrownCapacity(b, 0, l)
  <2>1. text' = [text EXCEPT ![b] = [cap |-> cap, len |-> l]] /\ kind[n] = "text"
    BY <1>5 DEF SetData
  <2>2. b \in Buffer
    BY <1>1, <2>1 DEF BuffersOK
  <2> HIDE DEF b
  <2>3. cap \in Nat /\ text[b].cap <= cap
    BY <1>1, <2>2, NewCapacity, PoolAssumption
  <2> HIDE DEF cap
  <2> QED BY <1>1, <2>1, <2>2, <2>3, WrittenIsLarger
<1>6. ASSUME NEW n \in Node, NEW l \in Length, SetDataThrows(n, l)
      PROVE  Larger
  <2>1. buf[n] \in Buffer /\ text[buf[n]] \in [cap : Nat, len : Nat]
        /\ text' = [text EXCEPT ![buf[n]].len = 0]
    BY <1>1, <1>6 DEF SetDataThrows, BuffersOK
  <2>2. \A c \in Buffer : text'[c].cap = text[c].cap /\ text[c].cap \in Nat
    BY <1>1, <2>1 DEF BuffersOK
  <2> QED BY <2>2 DEF Larger
<1>7. ASSUME NEW n \in Node, NEW l \in Length, NEW release \in BOOLEAN, Appended(n, l, release)
      PROVE  Larger
  <2> DEFINE b == buf[n]
             len == text[b].len
             cap == IF Fits(b, len + l) THEN text[b].cap ELSE GrownCapacity(b, len, l)
  <2>1. text' = [text EXCEPT ![b] = [cap |-> cap, len |-> len + l]] /\ kind[n] = "text"
    BY <1>7 DEF Appended
  <2>2. b \in Buffer /\ len \in Nat /\ l \in Nat
    BY <1>1, <2>1, PoolAssumption DEF BuffersOK
  <2> HIDE DEF b, len
  <2>3. cap \in Nat /\ text[b].cap <= cap
    BY <1>1, <2>2, Capacity
  <2> HIDE DEF cap
  <2> QED BY <1>1, <2>1, <2>2, <2>3, WrittenIsLarger
<1>8. CASE Texts
  <2>1. ASSUME NEW n \in Node, GetNodeValue(n) \/ ReleaseText(n)
        PROVE  Larger
    BY <1>1, <2>1, SameIsLarger DEF GetNodeValue, ReleaseText
  <2>2. ASSUME NEW n \in Node, NEW l \in Length, NEW b \in Buffer, CreateTextThrows(n, b, l)
        PROVE  Larger
    BY <1>1, <2>2, SameIsLarger DEF CreateTextThrows
  <2>3. ASSUME NEW n \in Node, NEW l \in Length, CreateTextInSpareThrows(n, l)
        PROVE  Larger
    BY <1>1, <2>3, SameIsLarger DEF CreateTextInSpareThrows
  <2>4. ASSUME NEW n \in Node, NEW l \in Length, AppendData(n, l) \/ AppendDataFast(n, l)
        PROVE  Larger
    BY <1>7, <2>4 DEF AppendData, AppendDataFast
  <2> QED BY <1>3, <1>4, <1>5, <1>6, <1>8, <2>1, <2>2, <2>3, <2>4 DEF Texts
<1>9. CASE \E size \in BlockSize : SetMemoryAllocationBlockSize(size)
  BY <1>1, <1>9, SameIsLarger DEF SetMemoryAllocationBlockSize
<1>10. CASE ReleaseDocument
  BY <1>10, ReleaseDocumentKeeps, Slots DEF Larger, Has
<1> QED BY <1>2, <1>8, <1>9, <1>10 DEF Next

(* A buffer never gets memory that is smaller than what memcpy copies into  *)
(* it (DOMBuffer::expandCapacity).                                          *)
THEOREM BuffersGetNoSmaller == Spec => BuffersOnlyGrow
<1>1. PoolInv /\ [Next]_vars => [Larger]_vars
  BY NextIsLarger
<1> QED BY <1>1, MemoryIsInOrder, PTL DEF Spec, BuffersOnlyGrow, Larger

=============================================================================
