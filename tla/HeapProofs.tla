----------------------------- MODULE HeapProofs -----------------------------
(***************************************************************************)
(* Proofs about Heap, for every size of the headers, the alignment, the    *)
(* pages and the window, and every set of requests.                        *)
(***************************************************************************)
EXTENDS Heap, Lemmas

-----------------------------------------------------------------------------
(* The inductive invariant, over a table of majors and one of minors        *)

NextOf(table) == [b \in DOMAIN table |-> table[b].next]
PrevOf(table) == [b \in DOMAIN table |-> table[b].prev]
Ident(table) == [b \in DOMAIN table |-> b]
InBlock(min, m) == { a \in DOMAIN min : min[a].block = m }
EndOf(min, a) == a + MinorHdr + min[a].size

MajorHeader == [prev : Nat, next : Nat, first : Nat, pages : Nat \ {0}, size : Nat,
                usage : Int]
MinorHeader == [block : Nat, prev : Nat, next : Nat, size : Nat, req : Nat]

Typed(maj, min) ==
    /\ IsFiniteSet(DOMAIN maj) /\ DOMAIN maj \subseteq Nat \ {0}
    /\ \A m \in DOMAIN maj : maj[m] \in MajorHeader
    /\ IsFiniteSet(DOMAIN min) /\ DOMAIN min \subseteq Nat \ {0}
    /\ \A a \in DOMAIN min : min[a] \in MinorHeader

(* Every major lies in a run of granted pages of its own. *)
RunOf(maj, m) == PageRun(m \div PageSize, maj[m].pages)

OwnRuns(maj, granted) ==
    /\ granted \subseteq 1 .. HeapPages
    /\ \A m \in DOMAIN maj : /\ m = (m \div PageSize) * PageSize
                             /\ maj[m].size = maj[m].pages * PageSize
                             /\ RunOf(maj, m) \subseteq granted
    /\ \A m, n \in DOMAIN maj : m # n => RunOf(maj, m) \cap RunOf(maj, n) = {}

(* Every chunk lies in its major behind the header, clear of the others. *)
Chunked(maj, min) ==
    /\ \A a \in DOMAIN min :
          /\ min[a].block \in DOMAIN maj
          /\ min[a].block + MajorHdr <= a
          /\ EndOf(min, a) <= min[a].block + maj[min[a].block].size
          /\ Size(min[a].req) <= min[a].size
    /\ \A a, b \in DOMAIN min :
          min[a].block = min[b].block /\ a < b => EndOf(min, a) <= b

(* The chunks of a major are linked in address order. *)
ChunksLinked(maj, min) ==
    \A m \in DOMAIN maj :
        Linked(InBlock(min, m), Ident(min), NextOf(min), PrevOf(min), maj[m].first)

(* The majors are linked in some order. *)
InOrder(maj, root, pos, last) ==
    /\ last \in Nat /\ \A m \in DOMAIN maj : pos[m] <= last
    /\ Linked(DOMAIN maj, pos, NextOf(maj), PrevOf(maj), root)

MajorsLinked(maj, root) == \E pos, last : InOrder(maj, root, pos, last)

(* What the callers hold are the chunks there are. *)
Held(min, held) == held = { User(a, min[a].req) : a \in DOMAIN min }

Tables(maj, min) == Typed(maj, min) /\ Chunked(maj, min) /\ ChunksLinked(maj, min)

HeapInv ==
    /\ Tables(major, minor)
    /\ OwnRuns(major, pages)
    /\ MajorsLinked(major, l_memRoot)
    /\ \A m \in DOMAIN major : major[m].first # NULL
    /\ Held(minor, users)
    /\ pending \subseteq users
    /\ BestBetIsLive

-----------------------------------------------------------------------------
(* Where things lie *)

LEMMA Sizes ==
    /\ MajorHdr \in Nat /\ MajorHdr > 0 /\ MinorHdr \in Nat /\ MinorHdr > 0
    /\ Alignment \in Nat /\ Alignment > 0 /\ AlignInfo \in Nat /\ AlignInfo > 0
    /\ PageSize \in Nat /\ PageSize > 0 /\ PageCount \in Nat /\ PageCount > 0
    /\ HeapPages \in Nat /\ MaxUsers \in Nat
  BY LiballocAssumption, HeapAssumption

(* Majors do not overlap, and end before the window does. *)
LEMMA MajorsApart ==
    ASSUME NEW maj, NEW min, Typed(maj, min), NEW granted, OwnRuns(maj, granted)
    PROVE  /\ \A m \in DOMAIN maj : /\ m + maj[m].size <= (HeapPages + 1) * PageSize
                                    /\ m >= PageSize
           /\ \A m, n \in DOMAIN maj : m < n => m + maj[m].size <= n
<1>1. \A m \in DOMAIN maj :
         /\ m \in Nat /\ m \div PageSize \in Nat /\ maj[m].pages \in Nat /\ maj[m].pages > 0
         /\ m = (m \div PageSize) * PageSize
         /\ maj[m].size = maj[m].pages * PageSize
  <2> TAKE m \in DOMAIN maj
  <2>1. m \in Nat /\ maj[m] \in MajorHeader
    BY DEF Typed
  <2>2. m \div PageSize \in Nat
    BY <2>1, Sizes, DivModNat
  <2>3. maj[m].pages \in Nat /\ maj[m].pages > 0
    BY <2>1 DEF MajorHeader
  <2> QED
    BY <2>1, <2>2, <2>3 DEF OwnRuns
<1>2. ASSUME NEW m \in DOMAIN maj
      PROVE  m + maj[m].size <= (HeapPages + 1) * PageSize /\ m >= PageSize
  <2>1. PICK f \in Nat, k \in Nat : f = m \div PageSize /\ k = maj[m].pages /\ k > 0
    BY <1>1
  <2>2. f \in RunOf(maj, m) /\ f + k - 1 \in RunOf(maj, m)
    BY <2>1 DEF RunOf, PageRun
  <2>3. f >= 1 /\ f + k <= HeapPages + 1
    BY <2>1, <2>2, Sizes DEF OwnRuns
  <2>4. m = f * PageSize /\ maj[m].size = k * PageSize
    BY <1>1, <2>1
  <2>5. (f + k) * PageSize <= (HeapPages + 1) * PageSize /\ 1 * PageSize <= f * PageSize
    BY <2>3, Sizes, MulMono
  <2>6. (f + k) * PageSize = f * PageSize + k * PageSize /\ 1 * PageSize = PageSize
    BY Sizes
  <2> QED
    BY <2>4, <2>5, <2>6
<1>3. ASSUME NEW m \in DOMAIN maj, NEW n \in DOMAIN maj, m < n
      PROVE  m + maj[m].size <= n
  <2>1. PICK f \in Nat, k \in Nat : f = m \div PageSize /\ k = maj[m].pages /\ k > 0
    BY <1>1
  <2>2. PICK g \in Nat, l \in Nat : g = n \div PageSize /\ l = maj[n].pages /\ l > 0
    BY <1>1
  <2>3. m = f * PageSize /\ n = g * PageSize /\ maj[m].size = k * PageSize
    BY <1>1, <2>1, <2>2
  <2>4. ~ g <= f
    <3> SUFFICES ASSUME g <= f PROVE FALSE
      OBVIOUS
    <3>1. g * PageSize <= f * PageSize
      BY Sizes, MulMono
    <3>2. m \in Nat /\ n \in Nat
      BY <1>1
    <3> QED
      BY <1>3, <2>3, <3>1, <3>2
  <2>5. f + k <= g
    <3> SUFFICES ASSUME ~ f + k <= g PROVE FALSE
      OBVIOUS
    <3>1. g \in RunOf(maj, m) /\ g \in RunOf(maj, n)
      BY <2>1, <2>2, <2>4 DEF RunOf, PageRun
    <3>2. m # n
      BY <1>1, <1>3
    <3> QED
      BY <3>1, <3>2 DEF OwnRuns
  <2>6. (f + k) * PageSize <= g * PageSize
    BY <2>5, Sizes, MulMono
  <2>7. (f + k) * PageSize = f * PageSize + k * PageSize
    BY Sizes
  <2> QED
    BY <2>3, <2>6, <2>7
<1> QED
  BY <1>2, <1>3

(* A chunk is in the major whose bytes hold its address. *)
LEMMA BlockOf ==
    ASSUME NEW maj, NEW min, Tables(maj, min), NEW granted, OwnRuns(maj, granted),
           NEW a \in DOMAIN min, NEW m \in DOMAIN maj, m <= a, a < m + maj[m].size
    PROVE  min[a].block = m
<1>1. PICK n \in DOMAIN maj : n = min[a].block
  BY DEF Tables, Chunked
<1>2. a \in Nat /\ m \in Nat /\ n \in Nat /\ min[a].size \in Nat
      /\ maj[n].size \in Nat /\ maj[m].size \in Nat
  BY DEF Tables, Typed, MajorHeader, MinorHeader
<1>3. n + MajorHdr <= a /\ a + MinorHdr + min[a].size <= n + maj[n].size
  BY <1>1 DEF Tables, Chunked, EndOf
<1>4. n <= a /\ a < n + maj[n].size
  BY <1>2, <1>3, Sizes
<1>5. (m < n => m + maj[m].size <= n) /\ (n < m => n + maj[n].size <= m)
  BY MajorsApart DEF Tables
<1> QED
  BY <1>1, <1>2, <1>4, <1>5

(* No two chunks overlap. *)
LEMMA ChunksApart ==
    ASSUME NEW maj, NEW min, Tables(maj, min), NEW granted, OwnRuns(maj, granted),
           NEW a \in DOMAIN min, NEW b \in DOMAIN min, a < b
    PROVE  EndOf(min, a) <= b
<1>1. PICK m \in DOMAIN maj : m = min[a].block
  BY DEF Tables, Chunked
<1>2. a \in Nat /\ b \in Nat /\ m \in Nat /\ min[a].size \in Nat /\ maj[m].size \in Nat
  BY DEF Tables, Typed, MajorHeader, MinorHeader
<1>3. m + MajorHdr <= a /\ EndOf(min, a) <= m + maj[m].size
  BY <1>1 DEF Tables, Chunked
<1>4. EndOf(min, a) \in Nat
  BY <1>2, Sizes DEF EndOf
<1>5. CASE b < m + maj[m].size
  <2>1. m <= b
    BY <1>2, <1>3, Sizes
  <2>2. min[b].block = m
    BY <1>5, <2>1, BlockOf
  <2> QED
    BY <1>1, <2>2 DEF Tables, Chunked
<1>6. CASE ~ b < m + maj[m].size
  BY <1>2, <1>3, <1>4, <1>6
<1> QED
  BY <1>5, <1>6

(* The pointer of a chunk lies in it, behind its header, and leads back.    *)
LEMMA UserLies ==
    ASSUME NEW a \in Nat, NEW r \in Nat
    PROVE  LET u == User(a, r)
           IN  /\ u.ptr \in Nat /\ u.ptr % Alignment = 0 /\ u.req = r
               /\ a + MinorHdr + AlignInfo <= u.ptr
               /\ u.ptr + r < a + MinorHdr + Size(r)
               /\ MinorOf(u) = a
               /\ \A s : [u EXCEPT !.req = s] = User(a, s)
<1> DEFINE p == a + MinorHdr + AlignInfo
           d == IF p % Alignment = 0 THEN 0 ELSE Alignment - (p % Alignment)
<1>1. p \in Nat
  BY Sizes
<1>2. PICK q \in Nat, z \in 0 .. (Alignment - 1) :
         q = p \div Alignment /\ z = p % Alignment /\ p = q * Alignment + z
  <2>1. Alignment \in Nat \ {0}
    BY Sizes
  <2> HIDE DEF p
  <2> QED
    BY <1>1, <2>1, DivModNat
<1> HIDE DEF p
<1>3. PICK e \in Nat : e = d /\ e < Alignment /\ e = (IF z = 0 THEN 0 ELSE Alignment - z)
  BY <1>2, Sizes
<1>4. User(a, r) = [ptr |-> p + e, diff |-> e + AlignInfo, req |-> r]
  BY <1>3 DEF User, p
<1>5. (p + e) % Alignment = 0
  <2>1. CASE z = 0
    <3>1. p + e = p
      BY <1>1, <1>3, <2>1
    <3> QED
      BY <1>2, <2>1, <3>1
  <2>2. CASE z # 0
    <3>1. p + e = (q + 1) * Alignment + 0
      BY <1>2, <1>3, <2>2, Sizes
    <3>2. q + 1 \in Nat /\ Alignment \in Nat \ {0} /\ 0 \in 0 .. (Alignment - 1)
      BY Sizes
    <3> QED
      BY <3>1, <3>2, DivExact
  <2> QED
    BY <2>1, <2>2
<1>6. p + e \in Nat /\ p <= p + e /\ p + e + r < p + Alignment + r
  BY <1>1, <1>3, Sizes
<1>7. p + Alignment + r = a + MinorHdr + Size(r)
  BY Sizes DEF p, Size
<1>8. MinorOf(User(a, r)) = a
  <2>1. e + AlignInfo < Alignment + AlignInfo
    BY <1>3, Sizes
  <2>2. MinorOf(User(a, r)) = ((p + e) - (e + AlignInfo)) - MinorHdr
    BY <1>4, <2>1 DEF MinorOf
  <2> QED
    BY <1>3, <2>2, Sizes DEF p
<1>9. \A s : [User(a, r) EXCEPT !.req = s] = User(a, s)
  BY <1>3, <1>4 DEF User, p
<1> QED
  BY <1>4, <1>5, <1>6, <1>7, <1>8, <1>9 DEF p


-----------------------------------------------------------------------------
(* The walks along the lists *)

MajorChain(f) ==
    f = [a \in DOMAIN major \cup {NULL} |->
            IF a = NULL THEN <<>> ELSE <<a>> \o f[major[a].next]]

MinorChain(f) ==
    f = [a \in DOMAIN minor \cup {NULL} |->
            IF a = NULL THEN <<>> ELSE <<a>> \o f[minor[a].next]]

(* MajorsFrom returns the majors from its argument to the end of the list.  *)
LEMMA MajorWalk ==
    ASSUME NEW pos, NEW last, Typed(major, minor), InOrder(major, l_memRoot, pos, last)
    PROVE  /\ MajorsFrom(NULL) = <<>>
           /\ \A m \in DOMAIN major :
                 Listed(DOMAIN major, pos, NextOf(major), m, MajorsFrom(m))
<1> DEFINE D == DOMAIN major
           nxt == NextOf(major)
<1>1. Upward(D, nxt, pos, last)
  BY DEF InOrder, Linked, After, Upward, Typed
<1>2. PICK g : Chain(D, nxt, g)
  BY <1>1, ChainExists
<1>3. \A f : MajorChain(f) <=> Chain(D, nxt, f)
  <2>1. \A a \in D : nxt[a] = major[a].next
    BY DEF NextOf
  <2>2. \A f : [a \in D \cup {0} |-> IF a = 0 THEN <<>> ELSE <<a>> \o f[nxt[a]]]
               = [a \in D \cup {0} |-> IF a = 0 THEN <<>> ELSE <<a>> \o f[major[a].next]]
    <3> TAKE f
    <3>1. \A a \in D \cup {0} : (IF a = 0 THEN <<>> ELSE <<a>> \o f[nxt[a]])
                                  = (IF a = 0 THEN <<>> ELSE <<a>> \o f[major[a].next])
      <4> HIDE DEF nxt
      <4> QED
        BY <2>1
    <3> HIDE DEF nxt, D
    <3> QED
      BY <3>1, Zenon
  <2> HIDE DEF nxt
  <2> QED
    BY <2>2 DEF MajorChain, Chain, NULL
<1> DEFINE f == CHOOSE f : MajorChain(f)
<1>4. MajorChain(f)
  <2>1. MajorChain(g)
    BY <1>2, <1>3
  <2> QED
    BY <2>1, Zenon
<1>5. \A a : MajorsFrom(a) = f[a]
  BY Zenon DEF MajorsFrom, MajorChain
<1> HIDE DEF f
<1>6. Chain(D, nxt, f)
  BY <1>3, <1>4
<1>7. f[0] = <<>> /\ \A m \in D : Listed(D, pos, nxt, m, f[m])
  <2>1. Linked(D, pos, nxt, PrevOf(major), l_memRoot) /\ D \in SUBSET D
    BY DEF InOrder
  <2> HIDE DEF D, nxt
  <2> QED
    BY <1>1, <1>6, <2>1, ChainLists
<1> QED
  BY <1>5, <1>7 DEF NULL

(* MinorsFrom returns the chunks of a major from its argument on.           *)
LEMMA MinorWalk ==
    ASSUME Tables(major, minor), OwnRuns(major, pages)
    PROVE  /\ MinorsFrom(NULL) = <<>>
           /\ \A m \in DOMAIN major : \A a \in InBlock(minor, m) :
                 Listed(InBlock(minor, m), Ident(minor), NextOf(minor), a, MinorsFrom(a))
<1> DEFINE D == DOMAIN minor
           nxt == NextOf(minor)
           pos == Ident(minor)
<1>1. PICK last \in Nat : last = (HeapPages + 1) * PageSize
  BY Sizes
<1>2. Upward(D, nxt, pos, last)
  <2>1. 0 \notin D
    BY DEF Tables, Typed
  <2>2. ASSUME NEW a \in D
        PROVE  pos[a] \in 0 .. last /\ nxt[a] \in D \cup {0} /\ (nxt[a] # 0 => pos[a] < pos[nxt[a]])
    <3>1. PICK m \in DOMAIN major : m = minor[a].block
      BY DEF Tables, Chunked
    <3>2. a \in Nat /\ m \in Nat /\ minor[a].size \in Nat /\ major[m].size \in Nat
      BY DEF Tables, Typed, MajorHeader, MinorHeader
    <3>3. EndOf(minor, a) <= m + major[m].size /\ m + major[m].size <= last
      BY <1>1, <3>1, MajorsApart DEF Tables, Chunked
    <3>4. a <= last
      BY <3>2, <3>3, Sizes DEF EndOf
    <3>5. a \in InBlock(minor, m) /\ InBlock(minor, m) \subseteq D
      BY <3>1 DEF InBlock
    <3>6. After(InBlock(minor, m), pos, a, nxt[a])
      BY <3>5 DEF Tables, ChunksLinked, Linked
    <3>7. nxt[a] \in D \cup {0} /\ (nxt[a] # 0 => pos[a] < pos[nxt[a]])
      BY <3>5, <3>6 DEF After
    <3> QED
      BY <3>2, <3>4, <3>7 DEF Ident
  <2> QED
    BY <2>1, <2>2 DEF Upward
<1>3. PICK g : Chain(D, nxt, g)
  BY <1>2, ChainExists
<1>4. \A f : MinorChain(f) <=> Chain(D, nxt, f)
  <2>1. \A a \in D : nxt[a] = minor[a].next
    BY DEF NextOf
  <2>2. \A f : [a \in D \cup {0} |-> IF a = 0 THEN <<>> ELSE <<a>> \o f[nxt[a]]]
               = [a \in D \cup {0} |-> IF a = 0 THEN <<>> ELSE <<a>> \o f[minor[a].next]]
    <3> TAKE f
    <3>1. \A a \in D \cup {0} : (IF a = 0 THEN <<>> ELSE <<a>> \o f[nxt[a]])
                                  = (IF a = 0 THEN <<>> ELSE <<a>> \o f[minor[a].next])
      <4> HIDE DEF nxt
      <4> QED
        BY <2>1
    <3> HIDE DEF nxt, D
    <3> QED
      BY <3>1, Zenon
  <2> HIDE DEF nxt
  <2> QED
    BY <2>2 DEF MinorChain, Chain, NULL
<1> DEFINE f == CHOOSE f : MinorChain(f)
<1>5. MinorChain(f)
  <2>1. MinorChain(g)
    BY <1>3, <1>4
  <2> QED
    BY <2>1, Zenon
<1>6. \A a : MinorsFrom(a) = f[a]
  BY Zenon DEF MinorsFrom, MinorChain
<1> HIDE DEF f
<1>7. Chain(D, nxt, f)
  BY <1>4, <1>5
<1>8. f[0] = <<>>
  BY <1>7 DEF Chain
<1>9. ASSUME NEW m \in DOMAIN major, NEW a \in InBlock(minor, m)
      PROVE  Listed(InBlock(minor, m), pos, nxt, a, f[a])
  <2>1. InBlock(minor, m) \in SUBSET D
    BY DEF InBlock
  <2>2. Linked(InBlock(minor, m), pos, nxt, PrevOf(minor), major[m].first)
    BY DEF Tables, ChunksLinked
  <2> HIDE DEF D, nxt, pos
  <2> QED
    BY <1>2, <1>7, <2>1, <2>2, ChainLists
<1> QED
  BY <1>6, <1>8, <1>9 DEF NULL


-----------------------------------------------------------------------------
(* What the invariant says of the properties *)

(* The bytes of a caller lie behind the header of its chunk, in granted     *)
(* pages, and the headers lie elsewhere.                                    *)
LEMMA SeparateUsers ==
    ASSUME HeapInv
    PROVE  UsersAreSeparate
<1> USE DEF NULL
<1>1. Tables(major, minor) /\ OwnRuns(major, pages) /\ Typed(major, minor)
  BY DEF HeapInv, Tables
<1> DEFINE Mine(u) == UserBytes(u) \cup {InfoByte(u)}
<1>2. ASSUME NEW a \in DOMAIN minor
      PROVE  LET u == User(a, minor[a].req)
             IN  /\ u.ptr % Alignment = 0
                 /\ \A x \in Mine(u) : x \in Int /\ a + MinorHdr <= x /\ x < EndOf(minor, a)
  <2>1. a \in Nat /\ minor[a].req \in Nat /\ minor[a].size \in Nat
        /\ Size(minor[a].req) <= minor[a].size
    BY <1>1 DEF Typed, Tables, Chunked, MinorHeader
  <2>2. PICK u : u = User(a, minor[a].req)
    OBVIOUS
  <2>3. /\ u.ptr \in Nat /\ u.ptr % Alignment = 0 /\ u.req = minor[a].req
        /\ a + MinorHdr + AlignInfo <= u.ptr
        /\ u.ptr + minor[a].req < a + MinorHdr + Size(minor[a].req)
    BY <2>1, <2>2, UserLies
  <2>4. PICK r \in Nat, p \in Nat : r = minor[a].req /\ p = u.ptr
    BY <2>1, <2>3
  <2>5. Size(r) = r + Alignment + AlignInfo
    BY DEF Size
  <2>6. Mine(u) = (p .. (p + r - 1)) \cup {p - AlignInfo}
    BY <2>3, <2>4 DEF UserBytes, Bytes, InfoByte
  <2>7. p + r < EndOf(minor, a) /\ a + MinorHdr + AlignInfo <= p
    BY <2>1, <2>3, <2>4, <2>5, Sizes DEF EndOf
  <2>8. EndOf(minor, a) \in Nat
    BY <2>1, Sizes DEF EndOf
  <2>9. ASSUME NEW x \in Mine(u) PROVE x \in Int /\ a + MinorHdr <= x /\ x < EndOf(minor, a)
    <3>1. CASE x \in p .. (p + r - 1)
      BY <2>1, <2>7, <2>8, <3>1, Sizes
    <3>2. CASE x = p - AlignInfo
      BY <2>1, <2>4, <2>7, <2>8, <3>2, Sizes
    <3> QED
      BY <2>6, <2>9, <3>1, <3>2
  <2> HIDE DEF Mine
  <2> QED
    BY <2>2, <2>3, <2>9
<1>3. ASSUME NEW a \in DOMAIN minor, NEW x \in Int, a + MinorHdr <= x, x < EndOf(minor, a)
      PROVE  x \in GrantedBytes \ HeaderBytes
  <2>1. PICK m \in DOMAIN major : m = minor[a].block
    BY <1>1 DEF Tables, Chunked
  <2>2. a \in Nat /\ m \in Nat /\ minor[a].size \in Nat /\ major[m].size \in Nat
    BY <1>1 DEF Typed, MajorHeader, MinorHeader
  <2>3. m + MajorHdr <= a /\ EndOf(minor, a) <= m + major[m].size
    BY <1>1, <2>1 DEF Tables, Chunked
  <2>4. EndOf(minor, a) \in Nat
    BY <2>2, Sizes DEF EndOf
  <2>5. x \in Nat /\ m + MajorHdr <= x /\ x < m + major[m].size
    BY <1>3, <2>2, <2>3, <2>4, Sizes
  <2>6. x \in GrantedBytes
    <3>1. PICK f \in Nat, k \in Nat :
             f = m \div PageSize /\ k = major[m].pages /\ m = f * PageSize
             /\ major[m].size = k * PageSize
      <4>1. m \div PageSize \in Nat
        BY <2>2, Sizes, DivModNat
      <4>2. major[m].pages \in Nat
        BY <1>1 DEF Typed, MajorHeader
      <4> QED
        BY <1>1, <4>1, <4>2 DEF OwnRuns
    <3>2. PICK q \in Nat, z \in 0 .. (PageSize - 1) : x = q * PageSize + z
      <4>1. PageSize \in Nat \ {0} /\ x \in Nat
        BY <2>5, Sizes
      <4>2. /\ x \div PageSize \in Nat /\ x % PageSize \in 0 .. (PageSize - 1)
            /\ x = (x \div PageSize) * PageSize + (x % PageSize)
        BY <4>1, DivModNat
      <4> QED
        BY <4>2
    <3>3. f <= q
      <4> SUFFICES ASSUME q + 1 <= f PROVE FALSE
        OBVIOUS
      <4>1. (q + 1) * PageSize <= f * PageSize
        BY Sizes, MulMono
      <4>2. (q + 1) * PageSize = q * PageSize + PageSize
        BY Sizes
      <4>3. PICK b \in Nat, c \in Nat : b = q * PageSize /\ c = f * PageSize
        BY Sizes
      <4> QED
        BY <2>5, <3>1, <3>2, <4>1, <4>2, <4>3, Sizes
    <3>4. q < f + k
      <4> SUFFICES ASSUME f + k <= q PROVE FALSE
        OBVIOUS
      <4>1. (f + k) * PageSize <= q * PageSize
        BY Sizes, MulMono
      <4>2. (f + k) * PageSize = f * PageSize + k * PageSize
        BY Sizes
      <4>3. PICK b \in Nat, c \in Nat, d \in Nat :
               b = q * PageSize /\ c = f * PageSize /\ d = k * PageSize
        BY Sizes
      <4>4. c + d <= b /\ x = b + z /\ x < c + d
        BY <2>5, <3>1, <3>2, <4>1, <4>2, <4>3
      <4> QED
        BY <4>4
    <3>5. q \in RunOf(major, m)
      BY <3>1, <3>3, <3>4 DEF RunOf, PageRun
    <3>6. q \in pages
      BY <1>1, <3>5 DEF OwnRuns
    <3>7. x \in Bytes(q * PageSize, PageSize)
      <4>1. PICK b \in Nat : b = q * PageSize
        BY Sizes
      <4> QED
        BY <3>2, <4>1, Sizes DEF Bytes
    <3> QED
      BY <3>6, <3>7 DEF GrantedBytes
  <2>7. ASSUME NEW n \in DOMAIN major, x \in Bytes(n, MajorHdr) PROVE FALSE
    <3>1. n \in Nat /\ n <= x /\ x < n + MajorHdr
      BY <1>1, <2>7, Sizes DEF Typed, Bytes
    <3>2. /\ m < n => m + major[m].size <= n
          /\ n < m => n + major[n].size <= m
      BY <1>1, MajorsApart
    <3>3. n < m
      BY <2>2, <2>5, <3>1, <3>2, Sizes
    <3>4. PICK b \in InBlock(minor, n) : TRUE
      BY <1>1 DEF HeapInv, Tables, ChunksLinked, Linked, First
    <3>5. n + MajorHdr <= b /\ EndOf(minor, b) <= n + major[n].size
          /\ b \in Nat /\ minor[b].size \in Nat /\ major[n].size \in Nat
      BY <1>1, <3>4 DEF InBlock, Tables, Chunked, Typed, MajorHeader, MinorHeader
    <3>6. n + MajorHdr <= n + major[n].size
      BY <3>1, <3>5, Sizes DEF EndOf
    <3> QED
      BY <2>2, <2>5, <3>1, <3>2, <3>3, <3>5, <3>6, Sizes
  <2>8. ASSUME NEW b \in DOMAIN minor, x \in Bytes(b, MinorHdr) PROVE FALSE
    <3>1. b \in Nat /\ b <= x /\ x < b + MinorHdr /\ minor[b].size \in Nat
      BY <1>1, <2>8, Sizes DEF Typed, Bytes, MinorHeader
    <3>2. /\ a < b => EndOf(minor, a) <= b
          /\ b < a => EndOf(minor, b) <= a
      BY <1>1, ChunksApart
    <3>3. b < a
      BY <1>3, <2>2, <2>4, <3>1, <3>2, Sizes
    <3>4. b + MinorHdr <= a
      BY <2>2, <3>1, <3>2, <3>3, Sizes DEF EndOf
    <3> QED
      BY <1>3, <2>2, <3>1, <3>4, Sizes
  <2> QED
    BY <2>6, <2>7, <2>8 DEF HeaderBytes
<1>4. ASSUME NEW u \in users
      PROVE  \E a \in DOMAIN minor : u = User(a, minor[a].req)
  BY DEF HeapInv, Held
<1>5. ASSUME NEW u \in users, NEW v \in users \ {u}
      PROVE  Mine(u) \cap Mine(v) = {}
  <2>1. PICK a \in DOMAIN minor : u = User(a, minor[a].req)
    BY <1>4
  <2>2. PICK b \in DOMAIN minor : v = User(b, minor[b].req)
    BY <1>4
  <2>3. a # b
    BY <1>5, <2>1, <2>2
  <2>4. a \in Nat /\ b \in Nat /\ minor[a].size \in Nat /\ minor[b].size \in Nat
    BY <1>1 DEF Typed, MinorHeader
  <2>5. (a < b => EndOf(minor, a) <= b) /\ (b < a => EndOf(minor, b) <= a)
    BY <1>1, ChunksApart
  <2>6. \A x \in Mine(u) : x \in Int /\ a + MinorHdr <= x /\ x < EndOf(minor, a)
    <3> HIDE DEF Mine
    <3> QED
      BY <1>2, <2>1
  <2>7. \A x \in Mine(v) : x \in Int /\ b + MinorHdr <= x /\ x < EndOf(minor, b)
    <3> HIDE DEF Mine
    <3> QED
      BY <1>2, <2>2
  <2>8. EndOf(minor, a) \in Nat /\ EndOf(minor, b) \in Nat
    BY <2>4, Sizes DEF EndOf
  <2> HIDE DEF Mine
  <2> QED
    BY <2>3, <2>4, <2>5, <2>6, <2>7, <2>8, Sizes
<1>6. ASSUME NEW u \in users
      PROVE  u.ptr % Alignment = 0 /\ Mine(u) \subseteq GrantedBytes \ HeaderBytes
  <2>1. PICK a \in DOMAIN minor : u = User(a, minor[a].req)
    BY <1>4
  <2> HIDE DEF Mine
  <2> QED
    BY <1>2, <1>3, <2>1
<1> QED
  BY <1>5, <1>6 DEF UsersAreSeparate


(* Each user leads to a chunk of its own, and each chunk has one.           *)
LEMMA HeadersFound ==
    ASSUME HeapInv
    PROVE  UsersHaveHeaders
<1>1. Typed(major, minor)
  BY DEF HeapInv, Tables
<1>2. \A a \in DOMAIN minor :
         /\ MinorOf(User(a, minor[a].req)) = a /\ User(a, minor[a].req).req = minor[a].req
  <2> TAKE a \in DOMAIN minor
  <2>1. a \in Nat /\ minor[a].req \in Nat
    BY <1>1 DEF Typed, MinorHeader
  <2> QED
    BY <2>1, UserLies
<1>3. users = { User(a, minor[a].req) : a \in DOMAIN minor }
  BY DEF HeapInv, Held
<1>4. \A u \in users : MinorOf(u) \in DOMAIN minor /\ minor[MinorOf(u)].req = u.req
  BY <1>2, <1>3
<1>5. Cardinality(users) = Cardinality(DOMAIN minor)
  <2> DEFINE f == [a \in DOMAIN minor |-> User(a, minor[a].req)]
  <2>1. f \in [DOMAIN minor -> users] /\ \A a \in DOMAIN minor : f[a] = User(a, minor[a].req)
    BY <1>3
  <2>2. \A a, b \in DOMAIN minor : f[a] = f[b] => a = b
    <3> HIDE DEF f
    <3> QED
      BY <1>2, <2>1
  <2>3. \A u \in users : \E a \in DOMAIN minor : f[a] = u
    <3> HIDE DEF f
    <3> QED
      BY <1>3, <2>1
  <2> HIDE DEF f
  <2>4. f \in Bijection(DOMAIN minor, users)
    BY <2>1, <2>2, <2>3 DEF Bijection, Injection, Surjection, IsInjective
  <2>5. ExistsBijection(DOMAIN minor, users)
    BY <2>4 DEF ExistsBijection
  <2> QED
    BY <1>1, <2>5, FS_Bijection DEF Typed
<1> QED
  BY <1>4, <1>5 DEF UsersHaveHeaders

(* Walking the lists finds every live header, in order, and no overlap.     *)
LEMMA SoundLists ==
    ASSUME HeapInv
    PROVE  ListsAreSound
<1> USE DEF NULL
<1>1. /\ Tables(major, minor) /\ OwnRuns(major, pages) /\ Typed(major, minor)
      /\ Chunked(major, minor) /\ ChunksLinked(major, minor)
  BY DEF HeapInv, Tables
<1>2. PICK pos, last : InOrder(major, l_memRoot, pos, last)
  BY DEF HeapInv, MajorsLinked
<1>3. LET majors == MajorsFrom(l_memRoot)
      IN  /\ Len(majors) = Cardinality(DOMAIN major)
          /\ \A i \in 1 .. Len(majors) :
                major[majors[i]].prev = IF i = 1 THEN NULL ELSE majors[i - 1]
  <2> PICK s : s = MajorsFrom(l_memRoot)
    OBVIOUS
  <2>1. CASE l_memRoot = 0
    <3>1. s = <<>> /\ DOMAIN major = {}
      BY <1>1, <1>2, <2>1, MajorWalk DEF InOrder, Linked, First
    <3>2. Len(s) = 0
      BY <3>1
    <3>3. Cardinality(DOMAIN major) = 0
      BY <3>1, FS_EmptySet
    <3> QED
      BY <3>2, <3>3
  <2>2. CASE l_memRoot # 0
    <3>1. Linked(DOMAIN major, pos, NextOf(major), PrevOf(major), l_memRoot)
      BY <1>2 DEF InOrder
    <3>2. l_memRoot \in DOMAIN major
      BY <2>2, <3>1 DEF Linked, First
    <3>3. Listed(DOMAIN major, pos, NextOf(major), l_memRoot, s)
      BY <1>1, <1>2, <3>2, MajorWalk
    <3>4. /\ DOMAIN major = { s[i] : i \in 1 .. Len(s) }
          /\ Len(s) = Cardinality(DOMAIN major)
          /\ \A i \in 1 .. Len(s) : PrevOf(major)[s[i]] = IF i = 1 THEN 0 ELSE s[i - 1]
      <4> PICK D : D = DOMAIN major
        OBVIOUS
      <4> PICK nxt, prv : nxt = NextOf(major) /\ prv = PrevOf(major)
        OBVIOUS
      <4>1. /\ D = { s[i] : i \in 1 .. Len(s) } /\ Len(s) = Cardinality(D)
            /\ \A i \in 1 .. Len(s) : prv[s[i]] = IF i = 1 THEN 0 ELSE s[i - 1]
        <5>1. Linked(D, pos, nxt, prv, l_memRoot) /\ Listed(D, pos, nxt, l_memRoot, s)
          BY <3>1, <3>3
        <5> QED
          BY ONLY <2>2, <5>1, ListedWhole
      <4> QED
        BY <4>1
    <3>5. \A i \in 1 .. Len(s) : PrevOf(major)[s[i]] = major[s[i]].prev
      BY <3>4 DEF PrevOf
    <3> QED
      BY <3>4, <3>5
  <2> QED
    BY <2>1, <2>2
<1>4. ASSUME NEW m \in DOMAIN major
      PROVE  LET minors == MinorsFrom(major[m].first)
             IN  /\ ToSet(minors) = { a \in DOMAIN minor : minor[a].block = m }
                 /\ \A i \in 1 .. Len(minors) :
                       /\ minor[minors[i]].prev = IF i = 1 THEN NULL ELSE minors[i - 1]
                       /\ GapAfter(m, minors[i]) >= 0
  <2> DEFINE S == InBlock(minor, m)
  <2> PICK s : s = MinorsFrom(major[m].first)
    OBVIOUS
  <2>1. Linked(S, Ident(minor), NextOf(minor), PrevOf(minor), major[m].first)
        /\ major[m].first # 0
    BY <1>1 DEF ChunksLinked, HeapInv
  <2>2. major[m].first \in S
    BY <2>1 DEF Linked, First
  <2>3. Listed(S, Ident(minor), NextOf(minor), major[m].first, s)
    BY <1>1, <2>2, MinorWalk
  <2>4. /\ S = { s[i] : i \in 1 .. Len(s) }
        /\ \A i \in 1 .. Len(s) : PrevOf(minor)[s[i]] = IF i = 1 THEN 0 ELSE s[i - 1]
    BY <2>1, <2>3, ListedWhole
  <2>5. ToSet(s) = S
    <3>1. DOMAIN s = 1 .. Len(s)
      BY <2>3 DEF Listed
    <3> QED
      BY <2>4, <3>1 DEF ToSet
  <2>6. \A i \in 1 .. Len(s) : s[i] \in S /\ minor[s[i]].prev = IF i = 1 THEN 0 ELSE s[i - 1]
    BY <2>4 DEF PrevOf, InBlock
  <2>7. ASSUME NEW b \in S PROVE GapAfter(m, b) >= 0
    <3>1. b \in DOMAIN minor /\ minor[b].block = m
      BY DEF InBlock
    <3>2. b \in Nat /\ m \in Nat /\ minor[b].size \in Nat /\ minor[b].next \in Nat
          /\ major[m].size \in Nat /\ b # 0
      BY <1>1, <3>1 DEF Typed, MajorHeader, MinorHeader
    <3>3. After(S, Ident(minor), b, minor[b].next)
      BY <2>1, <3>1 DEF Linked, NextOf
    <3>4. PICK e \in Nat : e = EndOf(minor, b)
      BY <3>2, Sizes DEF EndOf
    <3>5. GapAfter(m, b) = (IF minor[b].next = 0 THEN m + major[m].size ELSE minor[b].next) - e
      BY <3>2, <3>4 DEF GapAfter, EndOf
    <3>6. e <= m + major[m].size
      BY <1>1, <3>1, <3>4 DEF Chunked
    <3>7. minor[b].next # 0 => e <= minor[b].next
      <4> SUFFICES ASSUME minor[b].next # 0 PROVE e <= minor[b].next
        OBVIOUS
      <4>1. minor[b].next \in DOMAIN minor /\ minor[minor[b].next].block = m /\ b < minor[b].next
        BY <3>1, <3>3 DEF After, Ident, InBlock
      <4> QED
        BY <1>1, <3>1, <3>4, <4>1 DEF Chunked
    <3> QED
      BY <3>2, <3>5, <3>6, <3>7
  <2>8. S = { a \in DOMAIN minor : minor[a].block = m }
    BY DEF InBlock
  <2> HIDE DEF S
  <2> QED
    BY <2>5, <2>6, <2>7, <2>8
<1> QED
  BY <1>3, <1>4 DEF ListsAreSound


-----------------------------------------------------------------------------
(* A chunk goes into a gap *)

AddedTo(min, m, p, n, a, r) ==
    [b \in DOMAIN min \cup {a} |->
        IF b = a THEN Header(m, p, n, r)
        ELSE [min[b] EXCEPT !.next = IF b = p THEN a ELSE @,
                            !.prev = IF b = n THEN a ELSE @]]

CountedIn(maj, m, p, a, r) ==
    [maj EXCEPT ![m].first = IF p = 0 THEN a ELSE @, ![m].usage = @ + Need(r)]

(* In major m, from a to the chunk n or to the end, is room for r bytes.    *)
Gap(maj, min, m, p, n, a, r) ==
    /\ m \in DOMAIN maj /\ p \in InBlock(min, m) \cup {0}
    /\ a = IF p = 0 THEN m + MajorHdr ELSE EndOf(min, p)
    /\ n = IF p = 0 THEN maj[m].first ELSE min[p].next
    /\ a + Need(r) <= IF n = 0 THEN m + maj[m].size ELSE n

(* How the tables differ then. *)
Grown(maj, min, maj2, min2, m, p, n, a, r) ==
    /\ a \notin DOMAIN min /\ a \in Nat /\ a # 0
    /\ DOMAIN maj2 = DOMAIN maj /\ DOMAIN min2 = DOMAIN min \cup {a}
    /\ \A b \in DOMAIN maj :
          /\ maj2[b].next = maj[b].next /\ maj2[b].prev = maj[b].prev
          /\ maj2[b].size = maj[b].size /\ maj2[b].pages = maj[b].pages
          /\ maj2[b].first = IF b = m /\ p = 0 THEN a ELSE maj[b].first
          /\ maj2[b].usage = IF b = m THEN maj[b].usage + Need(r) ELSE maj[b].usage
    /\ min2[a] = Header(m, p, n, r)
    /\ \A b \in DOMAIN min :
          /\ min2[b].block = min[b].block /\ min2[b].size = min[b].size
          /\ min2[b].req = min[b].req

(* A chunk put into a gap that is large enough keeps the tables. *)
LEMMA ChunkAdded ==
    ASSUME NEW maj, NEW min, Tables(maj, min), NEW granted, OwnRuns(maj, granted),
           NEW m, NEW p, NEW n, NEW a, NEW r \in Nat, Gap(maj, min, m, p, n, a, r),
           NEW min2, min2 = AddedTo(min, m, p, n, a, r),
           NEW maj2, maj2 = CountedIn(maj, m, p, a, r)
    PROVE  /\ Tables(maj2, min2) /\ OwnRuns(maj2, granted)
           /\ Grown(maj, min, maj2, min2, m, p, n, a, r)
<1> SUFFICES ASSUME m \in DOMAIN maj, p \in InBlock(min, m) \cup {0},
                    a = IF p = 0 THEN m + MajorHdr ELSE EndOf(min, p),
                    n = IF p = 0 THEN maj[m].first ELSE min[p].next,
                    a + Need(r) <= IF n = 0 THEN m + maj[m].size ELSE n
             PROVE  /\ Tables(maj2, min2) /\ OwnRuns(maj2, granted)
                    /\ Grown(maj, min, maj2, min2, m, p, n, a, r)
  BY DEF Gap
<1>1. /\ Typed(maj, min) /\ Chunked(maj, min) /\ ChunksLinked(maj, min)
  BY DEF Tables
<1>2. m \in Nat /\ m # 0 /\ maj[m] \in MajorHeader /\ maj[m].size \in Nat
  BY <1>1 DEF Typed, MajorHeader
<1>3. \A b \in DOMAIN min : b \in Nat /\ b # 0 /\ min[b] \in MinorHeader
                            /\ min[b].size \in Nat /\ EndOf(min, b) \in Nat /\ b < EndOf(min, b)
  BY <1>1, Sizes DEF Typed, MinorHeader, EndOf
<1> DEFINE S == InBlock(min, m)
<1>4. \A b \in S : b \in DOMAIN min /\ min[b].block = m
  BY DEF InBlock
<1>5. \A b \in DOMAIN min : min[b].block = m => b \in S
  BY DEF InBlock
<1>6. Linked(S, Ident(min), NextOf(min), PrevOf(min), maj[m].first)
  BY <1>1 DEF ChunksLinked
<1>7. \A b \in S : Ident(min)[b] = b /\ NextOf(min)[b] = min[b].next /\ PrevOf(min)[b] = min[b].prev
  BY <1>4 DEF Ident, NextOf, PrevOf
<1>8. n \in S \cup {0} /\ n \in Nat
  <2>1. CASE p = 0
    <3>1. First(S, Ident(min), n)
      BY <1>6, <2>1 DEF Linked
    <3> HIDE DEF S
    <3>2. n \in S \cup {0}
      BY <3>1 DEF First
    <3> QED
      BY <1>3, <1>4, <3>2
  <2>2. CASE p # 0
    <3>1. p \in S /\ n = NextOf(min)[p]
      BY <1>7, <2>2
    <3> HIDE DEF S
    <3> QED
      BY <1>3, <1>4, <1>6, <3>1 DEF Linked, After
  <2> QED
    BY <2>1, <2>2
<1> HIDE DEF S
<1>9. \A b \in S : \/ p # 0 /\ b <= p
                   \/ n # 0 /\ n <= b
  <2> TAKE b \in S
  <2>1. CASE p = 0
    <3>1. First(S, Ident(min), n)
      BY <1>6, <2>1 DEF Linked
    <3> QED
      BY <1>7, <3>1 DEF First
  <2>2. CASE p # 0
    <3>1. p \in S /\ n = NextOf(min)[p]
      BY <1>7, <2>2 DEF S
    <3>2. After(S, Ident(min), p, n)
      BY <1>6, <3>1 DEF Linked
    <3> QED
      BY <1>7, <2>2, <3>1, <3>2 DEF After
  <2> QED
    BY <2>1, <2>2
<1>10. p # 0 => p \in S /\ a = EndOf(min, p) /\ p < a
  BY <1>3, <1>4 DEF S
<1>11. a \in Nat /\ m + MajorHdr <= a
  <2>1. CASE p = 0
    BY <1>2, <2>1, Sizes
  <2>2. CASE p # 0
    <3>1. m + MajorHdr <= p /\ p \in Nat
      BY <1>1, <1>3, <1>4, <1>10, <2>2 DEF Chunked
    <3> QED
      BY <1>2, <1>3, <1>4, <1>10, <2>2, <3>1, Sizes
  <2> QED
    BY <2>1, <2>2
<1>12. PICK w \in Nat : w = Size(r) /\ w > 0 /\ Need(r) = w + MinorHdr
  BY Sizes DEF Size, Need
<1>13. n # 0 => a + MinorHdr + w <= n
  BY <1>8, <1>11, <1>12, Sizes
<1>14. a + MinorHdr + w <= m + maj[m].size
  <2>1. CASE n = 0
    BY <1>2, <1>11, <1>12, <2>1, Sizes
  <2>2. CASE n # 0
    <3>1. n \in S /\ EndOf(min, n) <= m + maj[m].size /\ n < EndOf(min, n) /\ EndOf(min, n) \in Nat
      BY <1>1, <1>3, <1>4, <1>8, <2>2 DEF Chunked
    <3> QED
      BY <1>2, <1>8, <1>11, <1>13, <2>2, <3>1, Sizes
  <2> QED
    BY <2>1, <2>2
<1>15. \A b \in S : \/ p # 0 /\ b <= p /\ EndOf(min, b) <= a
                    \/ n # 0 /\ n <= b /\ a + MinorHdr + w <= b
  <2> TAKE b \in S
  <2>1. CASE p # 0 /\ b <= p
    <3>1. b \in Nat /\ p \in Nat /\ p \in S /\ a = EndOf(min, p)
      BY <1>3, <1>4, <1>10, <2>1
    <3>2. CASE b = p
      BY <1>3, <1>4, <2>1, <3>1, <3>2
    <3>3. CASE b < p
      <4>1. EndOf(min, b) <= p /\ p < EndOf(min, p) /\ EndOf(min, b) \in Nat
        BY <1>1, <1>3, <1>4, <3>1, <3>3 DEF Chunked
      <4> QED
        BY <1>11, <2>1, <3>1, <4>1
    <3> QED
      BY <2>1, <3>1, <3>2, <3>3
  <2>2. CASE n # 0 /\ n <= b
    BY <1>3, <1>4, <1>8, <1>11, <1>13, <2>2, Sizes
  <2> QED
    BY <1>9, <2>1, <2>2
<1>16. a \notin DOMAIN min
  <2> SUFFICES ASSUME a \in DOMAIN min PROVE FALSE
    OBVIOUS
  <2>1. m <= a /\ a < m + maj[m].size
    BY <1>2, <1>11, <1>12, <1>14, Sizes
  <2>2. a \in S
    BY <1>5, <2>1, BlockOf
  <2>3. a < EndOf(min, a)
    BY <1>3
  <2> QED
    BY <1>3, <1>11, <1>12, <1>15, <2>2, <2>3, Sizes
<1>17. a # 0
  BY <1>2, <1>11, Sizes
<1> DEFINE D == DOMAIN min \cup {a}
<1>18. /\ DOMAIN min2 = D /\ min2[a] = Header(m, p, n, r)
       /\ \A b \in DOMAIN min :
             min2[b] = [min[b] EXCEPT !.next = IF b = p THEN a ELSE @,
                                      !.prev = IF b = n THEN a ELSE @]
  BY <1>16 DEF AddedTo
<1>19. \A b \in DOMAIN min :
          /\ min2[b] \in MinorHeader
          /\ min2[b].block = min[b].block /\ min2[b].size = min[b].size
          /\ min2[b].req = min[b].req
          /\ min2[b].next = IF b = p THEN a ELSE min[b].next
          /\ min2[b].prev = IF b = n THEN a ELSE min[b].prev
  <2> TAKE b \in DOMAIN min
  <2>1. PICK nx \in Nat, pv \in Nat : nx = (IF b = p THEN a ELSE min[b].next)
                                   /\ pv = (IF b = n THEN a ELSE min[b].prev)
    <3>1. min[b].next \in Nat /\ min[b].prev \in Nat
      BY <1>3 DEF MinorHeader
    <3> QED
      BY <1>11, <3>1
  <2>2. min2[b] = [min[b] EXCEPT !.next = nx, !.prev = pv]
    BY <1>18, <2>1
  <2>3. PICK x, y : x \in MinorHeader /\ x = min[b] /\ y = min2[b]
    BY <1>3
  <2>4. y = [x EXCEPT !.next = nx, !.prev = pv]
    BY <2>2, <2>3
  <2>5. /\ y \in MinorHeader /\ y.next = nx /\ y.prev = pv
        /\ y.block = x.block /\ y.size = x.size /\ y.req = x.req
    BY ONLY <2>3, <2>4 DEF MinorHeader
  <2> QED
    BY <2>1, <2>3, <2>5
<1>20. /\ min2[a].block = m /\ min2[a].prev = p /\ min2[a].next = n
       /\ min2[a].size = w /\ min2[a].req = r /\ min2[a] \in MinorHeader
  <2>1. p \in Nat
    BY <1>3, <1>4, <1>10
  <2>2. min2[a] = [block |-> m, prev |-> p, next |-> n, size |-> w, req |-> r]
    BY <1>12, <1>18 DEF Header
  <2>3. [block |-> m, prev |-> p, next |-> n, size |-> w, req |-> r] \in MinorHeader
    BY <1>2, <1>8, <2>1 DEF MinorHeader
  <2> QED
    BY <2>2, <2>3
<1>21. /\ DOMAIN maj2 = DOMAIN maj
       /\ \A b \in DOMAIN maj :
             /\ maj2[b].next = maj[b].next /\ maj2[b].prev = maj[b].prev
             /\ maj2[b].size = maj[b].size /\ maj2[b].pages = maj[b].pages
             /\ maj2[b].first = IF b = m /\ p = 0 THEN a ELSE maj[b].first
             /\ maj2[b].usage = IF b = m THEN maj[b].usage + Need(r) ELSE maj[b].usage
             /\ maj2[b] \in MajorHeader
  <2>1. \A b \in DOMAIN maj : maj[b] \in MajorHeader
    BY <1>1 DEF Typed
  <2>2. DOMAIN maj2 = DOMAIN maj /\ \A b \in DOMAIN maj : b # m => maj2[b] = maj[b]
    BY DEF CountedIn
  <2>3. PICK f \in Nat, c \in Int : f = (IF p = 0 THEN a ELSE maj[m].first)
                                /\ c = maj[m].usage + Need(r)
    <3>1. maj[m].first \in Nat /\ maj[m].usage \in Int /\ Need(r) \in Int
      BY <1>2, <1>12, Sizes DEF MajorHeader
    <3> QED
      BY <1>11, <3>1
  <2>4. maj2[m] = [maj[m] EXCEPT !.first = f, !.usage = c]
    BY <2>3 DEF CountedIn
  <2>5. /\ maj2[m] \in MajorHeader /\ maj2[m].first = f /\ maj2[m].usage = c
        /\ maj2[m].next = maj[m].next /\ maj2[m].prev = maj[m].prev
        /\ maj2[m].size = maj[m].size /\ maj2[m].pages = maj[m].pages
    <3>1. PICK x, y : x \in MajorHeader /\ x = maj[m] /\ y = maj2[m]
      BY <1>2
    <3>2. y = [x EXCEPT !.first = f, !.usage = c]
      BY <2>4, <3>1
    <3>3. /\ y \in MajorHeader /\ y.first = f /\ y.usage = c
          /\ y.next = x.next /\ y.prev = x.prev /\ y.size = x.size /\ y.pages = x.pages
      BY ONLY <3>1, <3>2 DEF MajorHeader
    <3> QED
      BY <3>1, <3>3
  <2> QED
    BY <2>1, <2>2, <2>3, <2>5
<1>22. Typed(maj2, min2)
  <2>1. IsFiniteSet(D) /\ D \subseteq Nat \ {0}
    BY <1>1, <1>11, <1>17, FS_AddElement DEF Typed
  <2> QED
    BY <1>1, <1>18, <1>19, <1>20, <1>21, <2>1 DEF Typed
<1>23. OwnRuns(maj2, granted)
  <2>1. \A b \in DOMAIN maj : RunOf(maj2, b) = RunOf(maj, b)
    BY <1>21 DEF RunOf
  <2> QED
    BY <1>21, <2>1 DEF OwnRuns
<1>24. /\ \A b \in DOMAIN min : EndOf(min2, b) = EndOf(min, b)
       /\ EndOf(min2, a) = a + MinorHdr + w
  BY <1>19, <1>20 DEF EndOf
<1>25. Chunked(maj2, min2)
  <2>1. ASSUME NEW b \in D
        PROVE  /\ min2[b].block \in DOMAIN maj2
               /\ min2[b].block + MajorHdr <= b
               /\ EndOf(min2, b) <= min2[b].block + maj2[min2[b].block].size
               /\ Size(min2[b].req) <= min2[b].size
    <3>1. CASE b = a
      BY <1>11, <1>12, <1>14, <1>20, <1>21, <1>24, <3>1
    <3>2. CASE b # a
      <4>1. b \in DOMAIN min
        BY <3>2
      <4>2. /\ min[b].block \in DOMAIN maj
            /\ min[b].block + MajorHdr <= b
            /\ EndOf(min, b) <= min[b].block + maj[min[b].block].size
            /\ Size(min[b].req) <= min[b].size
        BY <1>1, <4>1 DEF Chunked
      <4> QED
        BY <1>19, <1>21, <1>24, <4>1, <4>2
    <3> QED
      BY <3>1, <3>2
  <2>2. ASSUME NEW b \in D, NEW c \in D, min2[b].block = min2[c].block, b < c
        PROVE  EndOf(min2, b) <= c
    <3>1. CASE b = a
      <4>1. c \in S
        BY <1>5, <1>11, <1>19, <1>20, <2>2, <3>1
      <4>2. c \in Nat /\ c < EndOf(min, c) /\ EndOf(min, c) \in Nat
        BY <1>3, <1>4, <4>1
      <4> QED
        BY <1>11, <1>12, <1>15, <1>24, <2>2, <3>1, <4>1, <4>2, Sizes
    <3>2. CASE c = a
      <4>1. b \in S
        BY <1>5, <1>11, <1>19, <1>20, <2>2, <3>2
      <4>2. b \in DOMAIN min /\ b \in Nat /\ b < EndOf(min, b) /\ EndOf(min, b) \in Nat
        BY <1>3, <1>4, <4>1
      <4> QED
        BY <1>11, <1>12, <1>15, <1>24, <2>2, <3>2, <4>1, <4>2, Sizes
    <3>3. CASE b # a /\ c # a
      BY <1>1, <1>19, <1>24, <2>2, <3>3 DEF Chunked
    <3> QED
      BY <3>1, <3>2, <3>3
  <2> QED
    BY <1>18, <2>1, <2>2 DEF Chunked
<1>26. ASSUME NEW k \in DOMAIN maj
       PROVE  Linked(InBlock(min2, k), Ident(min2), NextOf(min2), PrevOf(min2), maj2[k].first)
  <2>1. \A b \in D : Ident(min2)[b] = b /\ NextOf(min2)[b] = min2[b].next /\ PrevOf(min2)[b] = min2[b].prev
    BY <1>18 DEF Ident, NextOf, PrevOf
  <2>2. \A b \in DOMAIN min : Ident(min)[b] = b /\ NextOf(min)[b] = min[b].next /\ PrevOf(min)[b] = min[b].prev
    BY DEF Ident, NextOf, PrevOf
  <2>3. CASE k = m
    <3>1. InBlock(min2, k) = S \cup {a}
      <4>1. InBlock(min2, k) = { b \in D : min2[b].block = m }
        BY <1>18, <2>3 DEF InBlock
      <4>2. \A b \in D : min2[b].block = m <=> b \in S \cup {a}
        BY <1>4, <1>5, <1>19, <1>20
      <4> QED
        BY <1>4, <4>1, <4>2
    <3>2. p \in S \cup {0} /\ a \notin S \cup {0}
      BY <1>4, <1>16, <1>17 DEF S
    <3>3. n = IF p = 0 THEN maj[m].first ELSE NextOf(min)[p]
      BY <1>7, <1>10
    <3>4. Ident(min2)[a] \in Nat /\ \A b \in S : Ident(min2)[b] = Ident(min)[b]
      BY <1>4, <1>11, <2>1, <2>2
    <3>5. (p # 0 => Ident(min)[p] < Ident(min2)[a]) /\ (n # 0 => Ident(min2)[a] < Ident(min)[n])
      <4>1. n # 0 => n \in S /\ a < n
        BY <1>8, <1>11, <1>12, <1>13, Sizes
      <4> QED
        BY <1>4, <1>10, <2>1, <2>2, <4>1
    <3>6. NextOf(min2)[a] = n /\ \A b \in S : NextOf(min2)[b] = IF b = p THEN a ELSE NextOf(min)[b]
      BY <1>4, <1>19, <1>20, <2>1, <2>2
    <3>7. PrevOf(min2)[a] = p /\ \A b \in S : PrevOf(min2)[b] = IF b = n THEN a ELSE PrevOf(min)[b]
      BY <1>4, <1>19, <1>20, <2>1, <2>2
    <3>8. PICK pos, pos2, nxt, nxt2, prv, prv2, f, f2 :
             /\ pos = Ident(min) /\ pos2 = Ident(min2) /\ nxt = NextOf(min) /\ nxt2 = NextOf(min2)
             /\ prv = PrevOf(min) /\ prv2 = PrevOf(min2)
             /\ f = maj[m].first /\ f2 = maj2[m].first
      OBVIOUS
    <3>9. Linked(S, pos, nxt, prv, f)
      BY <1>6, <3>8
    <3>10. f2 = IF p = 0 THEN a ELSE f
      BY <1>21, <3>8
    <3>11. Linked(S \cup {a}, pos2, nxt2, prv2, f2)
      <4>1. /\ n = IF p = 0 THEN f ELSE nxt[p]
            /\ pos2[a] \in Nat /\ \A b \in S : pos2[b] = pos[b]
            /\ p # 0 => pos[p] < pos2[a]
            /\ n # 0 => pos2[a] < pos[n]
            /\ nxt2[a] = n /\ \A b \in S : nxt2[b] = IF b = p THEN a ELSE nxt[b]
            /\ prv2[a] = p /\ \A b \in S : prv2[b] = IF b = n THEN a ELSE prv[b]
        BY <3>3, <3>4, <3>5, <3>6, <3>7, <3>8
      <4>2. Inserts(S, pos, nxt, prv, f, p, a, n, pos2, nxt2, prv2)
        BY <3>2, <4>1 DEF Inserts
      <4>3. PICK T : T = S \cup {a}
        OBVIOUS
      <4>4. Linked(T, pos2, nxt2, prv2, f2)
        BY ONLY <3>9, <3>10, <4>2, <4>3, LinkedInsert
      <4> QED
        BY <4>3, <4>4
    <3> QED
      BY <2>3, <3>1, <3>8, <3>11
  <2>4. CASE k # m
    <3>1. InBlock(min2, k) = InBlock(min, k)
      <4>1. InBlock(min2, k) = { b \in D : min2[b].block = k }
        BY <1>18 DEF InBlock
      <4>2. \A b \in D : min2[b].block = k <=> b \in DOMAIN min /\ min[b].block = k
        BY <1>16, <1>19, <1>20, <2>4
      <4> QED
        BY <4>1, <4>2 DEF InBlock
    <3>2. \A b \in InBlock(min, k) : b \in DOMAIN min /\ b # p /\ b # n
      <4>1. \A b \in InBlock(min, k) : b \in DOMAIN min /\ b # 0 /\ b \notin S
        BY <1>3, <1>4, <2>4 DEF InBlock
      <4> QED
        BY <1>8, <1>10, <4>1
    <3>3. \A b \in InBlock(min, k) : /\ Ident(min2)[b] = Ident(min)[b]
                                     /\ NextOf(min2)[b] = NextOf(min)[b]
                                     /\ PrevOf(min2)[b] = PrevOf(min)[b]
      BY <1>19, <2>1, <2>2, <3>2
    <3>4. Linked(InBlock(min, k), Ident(min), NextOf(min), PrevOf(min), maj[k].first)
      BY <1>1 DEF ChunksLinked
    <3>5. PICK T, pos, pos2, nxt, nxt2, prv, prv2, f :
             /\ T = InBlock(min, k)
             /\ pos = Ident(min) /\ pos2 = Ident(min2) /\ nxt = NextOf(min) /\ nxt2 = NextOf(min2)
             /\ prv = PrevOf(min) /\ prv2 = PrevOf(min2) /\ f = maj[k].first
      OBVIOUS
    <3>6. Linked(T, pos2, nxt2, prv2, f)
      BY ONLY <3>3, <3>4, <3>5, LinkedSame
    <3> QED
      BY <1>21, <2>4, <3>1, <3>5, <3>6
  <2> QED
    BY <2>3, <2>4
<1>27. Tables(maj2, min2)
  BY <1>21, <1>22, <1>25, <1>26 DEF Tables, ChunksLinked
<1> QED
  BY <1>11, <1>16, <1>17, <1>18, <1>19, <1>21, <1>23, <1>27 DEF Grown


-----------------------------------------------------------------------------
(* A chunk goes *)

(* A table of majors with the same runs and chains, but for the head of m. *)
SameRuns(maj2, maj, D) ==
    /\ DOMAIN maj2 = D
    /\ \A b \in D : /\ maj2[b] \in MajorHeader
                    /\ maj2[b].size = maj[b].size /\ maj2[b].pages = maj[b].pages

(* The tables without the chunk a of major m. *)
Shrunk(maj, min, a, m, maj2, min2) ==
    /\ a \in DOMAIN min /\ m = min[a].block
    /\ min2 = Unlink(min, a)
    /\ SameRuns(maj2, maj, DOMAIN maj)
    /\ \A b \in DOMAIN maj : maj2[b].first =
          IF b = m /\ min[a].prev = 0 THEN min[a].next ELSE maj[b].first

(* How the minors differ then. *)
Gone(min, a, m, min2) ==
    /\ DOMAIN min2 = DOMAIN min \ {a}
    /\ \A b \in DOMAIN min2 :
          /\ min2[b].block = min[b].block /\ min2[b].size = min[b].size
          /\ min2[b].req = min[b].req
    /\ min[a].prev = 0 /\ min[a].next = 0 => InBlock(min, m) = {a}

(* A chunk taken out of its major's list keeps the tables. *)
LEMMA ChunkRemoved ==
    ASSUME NEW maj, NEW min, Tables(maj, min), NEW a, NEW m, NEW maj2, NEW min2,
           Shrunk(maj, min, a, m, maj2, min2)
    PROVE  Tables(maj2, min2) /\ Gone(min, a, m, min2)
<1> SUFFICES ASSUME a \in DOMAIN min, m = min[a].block, min2 = Unlink(min, a),
                    SameRuns(maj2, maj, DOMAIN maj),
                    \A b \in DOMAIN maj : maj2[b].first =
                       IF b = m /\ min[a].prev = 0 THEN min[a].next ELSE maj[b].first
             PROVE  /\ Tables(maj2, min2) /\ DOMAIN min2 = DOMAIN min \ {a}
                    /\ \A b \in DOMAIN min2 :
                          /\ min2[b].block = min[b].block /\ min2[b].size = min[b].size
                          /\ min2[b].req = min[b].req
                    /\ min[a].prev = 0 /\ min[a].next = 0 => InBlock(min, m) = {a}
  BY DEF Shrunk, Gone
<1>1. /\ Typed(maj, min) /\ Chunked(maj, min) /\ ChunksLinked(maj, min)
  BY DEF Tables
<1>2. m \in DOMAIN maj
  BY <1>1 DEF Chunked
<1>3. \A b \in DOMAIN min : b \in Nat /\ b # 0 /\ min[b] \in MinorHeader
                            /\ min[b].next \in Nat /\ min[b].prev \in Nat
  BY <1>1 DEF Typed, MinorHeader
<1> PICK S : S = InBlock(min, m)
  OBVIOUS
<1>4. \A b : b \in S <=> b \in DOMAIN min /\ min[b].block = m
  BY DEF InBlock
<1>5. a \in S
  BY <1>4
<1>6. Linked(S, Ident(min), NextOf(min), PrevOf(min), maj[m].first)
  BY <1>1, <1>2 DEF ChunksLinked
<1>7. \A b \in DOMAIN min : Ident(min)[b] = b /\ NextOf(min)[b] = min[b].next /\ PrevOf(min)[b] = min[b].prev
  BY DEF Ident, NextOf, PrevOf
<1>8. /\ After(S, Ident(min), a, min[a].next) /\ Before(S, Ident(min), a, min[a].prev)
      /\ min[a].next \in S \cup {0} /\ min[a].prev \in S \cup {0}
  BY <1>5, <1>6, <1>7 DEF Linked, After, Before
<1>9. DOMAIN min2 = DOMAIN min \ {a}
      /\ \A b \in DOMAIN min \ {a} :
            min2[b] = [min[b] EXCEPT !.next = IF b = min[a].prev THEN min[a].next ELSE @,
                                     !.prev = IF b = min[a].next THEN min[a].prev ELSE @]
  BY DEF Unlink
<1>10. \A b \in DOMAIN min \ {a} :
          /\ min2[b] \in MinorHeader
          /\ min2[b].block = min[b].block /\ min2[b].size = min[b].size
          /\ min2[b].req = min[b].req
          /\ min2[b].next = IF b = min[a].prev THEN min[a].next ELSE min[b].next
          /\ min2[b].prev = IF b = min[a].next THEN min[a].prev ELSE min[b].prev
  <2> TAKE b \in DOMAIN min \ {a}
  <2>1. PICK nx \in Nat, pv \in Nat :
           /\ nx = (IF b = min[a].prev THEN min[a].next ELSE min[b].next)
           /\ pv = (IF b = min[a].next THEN min[a].prev ELSE min[b].prev)
    BY <1>3
  <2>2. min2[b] = [min[b] EXCEPT !.next = nx, !.prev = pv]
    BY <1>9, <2>1
  <2>3. PICK x, y : x \in MinorHeader /\ x = min[b] /\ y = min2[b]
    BY <1>3
  <2>4. y = [x EXCEPT !.next = nx, !.prev = pv]
    BY <2>2, <2>3
  <2>5. /\ y \in MinorHeader /\ y.next = nx /\ y.prev = pv
        /\ y.block = x.block /\ y.size = x.size /\ y.req = x.req
    BY ONLY <2>3, <2>4 DEF MinorHeader
  <2> QED
    BY <2>1, <2>3, <2>5
<1>11. Typed(maj2, min2)
  <2>1. IsFiniteSet(DOMAIN min2)
    BY <1>1, <1>9, FS_RemoveElement DEF Typed
  <2> QED
    BY <1>1, <1>9, <1>10, <2>1 DEF Typed, SameRuns
<1>12. Chunked(maj2, min2)
  <2>1. \A b \in DOMAIN min2 : EndOf(min2, b) = EndOf(min, b)
    BY <1>9, <1>10 DEF EndOf
  <2>2. ASSUME NEW b \in DOMAIN min2
        PROVE  /\ min2[b].block \in DOMAIN maj2
               /\ min2[b].block + MajorHdr <= b
               /\ EndOf(min2, b) <= min2[b].block + maj2[min2[b].block].size
               /\ Size(min2[b].req) <= min2[b].size
    <3>1. /\ min[b].block \in DOMAIN maj
          /\ min[b].block + MajorHdr <= b
          /\ EndOf(min, b) <= min[b].block + maj[min[b].block].size
          /\ Size(min[b].req) <= min[b].size
      BY <1>1, <1>9 DEF Chunked
    <3>2. min2[b].block = min[b].block /\ min2[b].size = min[b].size /\ min2[b].req = min[b].req
      BY <1>9, <1>10
    <3>3. min[b].block \in DOMAIN maj2 /\ maj2[min[b].block].size = maj[min[b].block].size
      BY <3>1 DEF SameRuns
    <3> QED
      BY <2>1, <3>1, <3>2, <3>3
  <2>3. ASSUME NEW b \in DOMAIN min2, NEW c \in DOMAIN min2,
               min2[b].block = min2[c].block, b < c
        PROVE  EndOf(min2, b) <= c
    BY <1>1, <1>9, <1>10, <2>1, <2>3 DEF Chunked
  <2> QED
    BY <2>2, <2>3 DEF Chunked
<1>13. ASSUME NEW k \in DOMAIN maj
       PROVE  Linked(InBlock(min2, k), Ident(min2), NextOf(min2), PrevOf(min2), maj2[k].first)
  <2>1. \A b \in DOMAIN min2 : Ident(min2)[b] = b /\ NextOf(min2)[b] = min2[b].next
                               /\ PrevOf(min2)[b] = min2[b].prev
    BY DEF Ident, NextOf, PrevOf
  <2>2. PICK T, pos, pos2, nxt, nxt2, prv, prv2, f, f2 :
           /\ T = InBlock(min2, k)
           /\ pos = Ident(min) /\ pos2 = Ident(min2) /\ nxt = NextOf(min) /\ nxt2 = NextOf(min2)
           /\ prv = PrevOf(min) /\ prv2 = PrevOf(min2)
           /\ f = maj[k].first /\ f2 = maj2[k].first
    OBVIOUS
  <2>3. \A b : b \in T <=> b \in DOMAIN min /\ b # a /\ min[b].block = k
    BY <1>9, <1>10, <2>2 DEF InBlock
  <2>4. \A b \in T : pos2[b] = pos[b] /\ b \in DOMAIN min \ {a}
    <3> TAKE b \in T
    <3>1. b \in DOMAIN min /\ b \in DOMAIN min \ {a} /\ b \in DOMAIN min2
      BY <1>9, <2>3
    <3>2. pos[b] = b /\ pos2[b] = b
      BY <1>7, <2>1, <2>2, <3>1
    <3> QED
      BY <3>1, <3>2
  <2>5. CASE k = m
    <3>1. T = S \ {a}
      BY <1>4, <2>3, <2>5
    <3>2. Removes(S, nxt, prv, a, nxt2, prv2)
      <4>1. \A b \in S \ {a} : b \in DOMAIN min \ {a} /\ b \in DOMAIN min2
        BY <1>4, <1>9
      <4>2. \A b \in S \ {a} : nxt2[b] = IF b = prv[a] THEN nxt[a] ELSE nxt[b]
        BY <1>7, <1>10, <2>1, <2>2, <4>1
      <4>3. \A b \in S \ {a} : prv2[b] = IF b = nxt[a] THEN prv[a] ELSE prv[b]
        BY <1>7, <1>10, <2>1, <2>2, <4>1
      <4> QED
        BY <1>5, <4>2, <4>3 DEF Removes
    <3>3. f2 = IF prv[a] = 0 THEN nxt[a] ELSE f
      BY <1>7, <2>2, <2>5
    <3>4. Linked(S, pos, nxt, prv, f)
      BY <1>6, <2>2, <2>5
    <3>5. Linked(T, pos, nxt2, prv2, f2)
      BY ONLY <3>1, <3>2, <3>3, <3>4, LinkedRemove
    <3>6. Linked(T, pos2, nxt2, prv2, f2)
      BY ONLY <2>4, <3>5, LinkedSame
    <3> QED
      BY <2>2, <3>6
  <2>6. CASE k # m
    <3>1. \A b \in T : b # min[a].next /\ b # min[a].prev /\ b \in DOMAIN min2
      <4> TAKE b \in T
      <4>1. b \in DOMAIN min2 /\ b \in DOMAIN min /\ min[b].block # m
        BY <1>9, <2>3, <2>6
      <4>2. b \notin S \cup {0}
        BY <1>3, <1>4, <4>1
      <4> QED
        BY <1>8, <4>1, <4>2
    <3>2. \A b \in T : nxt2[b] = nxt[b] /\ prv2[b] = prv[b]
      BY <1>7, <1>10, <2>1, <2>2, <2>4, <3>1
    <3>3. T = InBlock(min, k)
      BY <1>4, <1>5, <2>3, <2>6 DEF InBlock
    <3>4. Linked(T, pos, nxt, prv, f)
      BY <1>1, <2>2, <3>3 DEF ChunksLinked
    <3>5. Linked(T, pos2, nxt2, prv2, f)
      BY ONLY <2>4, <3>2, <3>4, LinkedSame
    <3>6. f2 = f
      BY <2>2, <2>6
    <3> QED
      BY <2>2, <3>5, <3>6
  <2> QED
    BY <2>5, <2>6
<1>14. Tables(maj2, min2)
  BY <1>11, <1>12, <1>13 DEF Tables, ChunksLinked, SameRuns
<1>15. ASSUME min[a].prev = 0, min[a].next = 0 PROVE S = {a}
  <2>1. \A b \in S : b <= a /\ a <= b
    BY <1>4, <1>5, <1>7, <1>8, <1>15 DEF After, Before
  <2> QED
    BY <1>3, <1>4, <1>5, <2>1
<1> QED
  BY <1>9, <1>10, <1>14, <1>15

(* A major without chunks goes. *)
LEMMA MajorRemoved ==
    ASSUME NEW maj, NEW min, Tables(maj, min), NEW granted, OwnRuns(maj, granted),
           NEW m \in DOMAIN maj, InBlock(min, m) = {},
           NEW maj2, SameRuns(maj2, maj, DOMAIN maj \ {m}),
           \A b \in DOMAIN maj2 : maj2[b].first = maj[b].first
    PROVE  Tables(maj2, min) /\ OwnRuns(maj2, granted \ RunOf(maj, m))
<1>1. /\ Typed(maj, min) /\ Chunked(maj, min) /\ ChunksLinked(maj, min)
  BY DEF Tables
<1>2. \A a \in DOMAIN min : min[a].block \in DOMAIN maj \ {m}
  BY <1>1 DEF Chunked, InBlock
<1>3. Typed(maj2, min)
  <2>1. IsFiniteSet(DOMAIN maj2)
    BY <1>1, FS_RemoveElement DEF Typed, SameRuns
  <2> QED
    BY <1>1, <2>1 DEF Typed, SameRuns
<1>4. Chunked(maj2, min)
  BY <1>1, <1>2 DEF Chunked, SameRuns
<1>5. ChunksLinked(maj2, min)
  BY <1>1 DEF ChunksLinked, SameRuns
<1>6. OwnRuns(maj2, granted \ RunOf(maj, m))
  <2>1. \A b \in DOMAIN maj2 : RunOf(maj2, b) = RunOf(maj, b)
    BY DEF RunOf, SameRuns
  <2> QED
    BY <2>1 DEF OwnRuns, SameRuns
<1> QED
  BY <1>3, <1>4, <1>5, <1>6 DEF Tables


-----------------------------------------------------------------------------
(* The search of kmalloc *)

(* The search visits every major there is, and the last one is the last of  *)
(* the list.                                                                *)
LEMMA OrderVisitsAll ==
    ASSUME HeapInv, l_memRoot # NULL, NEW req
    PROVE  /\ SearchOrder(req) \in Seq(DOMAIN major) /\ Len(SearchOrder(req)) > 0
           /\ \A m \in DOMAIN major : \E i \in 1 .. Len(SearchOrder(req)) : SearchOrder(req)[i] = m
           /\ major[SearchOrder(req)[Len(SearchOrder(req))]].next = NULL
<1> USE DEF NULL
<1>1. PICK pos, last : InOrder(major, l_memRoot, pos, last)
  BY DEF HeapInv, MajorsLinked
<1>2. Linked(DOMAIN major, pos, NextOf(major), PrevOf(major), l_memRoot)
  BY <1>1 DEF InOrder
<1>3. l_memRoot \in DOMAIN major /\ \A m \in DOMAIN major : pos[l_memRoot] <= pos[m]
  BY <1>2 DEF Linked, First
<1>4. \A m \in DOMAIN major : Listed(DOMAIN major, pos, NextOf(major), m, MajorsFrom(m))
  BY <1>1, MajorWalk DEF HeapInv, Tables
<1> PICK t : t = MajorsFrom(l_memRoot)
  OBVIOUS
<1>5. Listed(DOMAIN major, pos, NextOf(major), l_memRoot, t)
  BY <1>3, <1>4
<1>6. PICK n \in Nat : n = Len(t) /\ n > 0
  BY <1>5 DEF Listed
<1>7. t \in Seq(DOMAIN major) /\ (\A i \in 1 .. n : t[i] \in DOMAIN major)
      /\ \A m \in DOMAIN major : \E i \in 1 .. n : t[i] = m
  BY <1>3, <1>5, <1>6 DEF Listed
<1>8. major[t[n]].next = 0
  <2>1. NextOf(major)[t[n]] = 0
    BY <1>5, <1>6 DEF Listed
  <2>2. t[n] \in DOMAIN major
    <3>1. n \in 1 .. n
      BY <1>6
    <3> QED
      BY <1>7, <3>1
  <2> QED
    BY <2>1, <2>2 DEF NextOf
<1>9. CASE ~ StartedBet(req)
  <2>1. SearchOrder(req) = t
    BY <1>9 DEF SearchOrder
  <2> QED
    BY <1>6, <1>7, <1>8, <2>1
<1>10. CASE StartedBet(req)
  <2>1. l_bestBet \in DOMAIN major
    BY <1>10 DEF StartedBet, HeapInv, BestBetIsLive
  <2>2. PICK q \in Seq(DOMAIN major) : q = MajorsFrom(l_bestBet)
    BY <1>4, <2>1 DEF Listed
  <2>3. SearchOrder(req) = q \o t
    BY <1>10, <2>2 DEF SearchOrder
  <2>4. PICK k \in Nat : k = Len(q)
    OBVIOUS
  <2>5. /\ q \o t \in Seq(DOMAIN major) /\ Len(q \o t) = k + n
        /\ \A i \in 1 .. k + n : (q \o t)[i] = IF i <= k THEN q[i] ELSE t[i - k]
    BY <1>6, <1>7, <2>4, ConcatProperties
  <2>6. \A j \in 1 .. n : j + k \in 1 .. k + n /\ (q \o t)[j + k] = t[j]
    <3> TAKE j \in 1 .. n
    <3>1. j + k \in 1 .. k + n /\ ~ j + k <= k /\ (j + k) - k = j
      OBVIOUS
    <3> QED
      BY <2>5, <3>1
  <2>7. (q \o t)[k + n] = t[n]
    <3>1. n \in 1 .. n /\ n + k = k + n
      BY <1>6
    <3> QED
      BY <2>6, <3>1
  <2>8. k + n > 0
    BY <1>6
  <2>9. \A m \in DOMAIN major : \E i \in 1 .. k + n : (q \o t)[i] = m
    <3> TAKE m \in DOMAIN major
    <3>1. PICK j \in 1 .. n : t[j] = m
      BY <1>7
    <3> QED
      BY <2>6, <3>1
  <2>10. PICK s : s = SearchOrder(req)
    OBVIOUS
  <2>11. s \in Seq(DOMAIN major) /\ Len(s) = k + n /\ s[k + n] = t[n]
         /\ \A m \in DOMAIN major : \E i \in 1 .. k + n : s[i] = m
    <3> HIDE DEF NULL
    <3> QED
      BY <2>3, <2>5, <2>7, <2>9, <2>10
  <2> QED
    BY <1>8, <2>8, <2>10, <2>11
<1> QED
  BY <1>9, <1>10

(* The place the search finds is a place, with room.                        *)
LEMMA PlaceHasRoom ==
    ASSUME HeapInv, NEW m \in DOMAIN major, NEW req, Place(m, req) # 0,
           NEW p, p = Spots(m)[Place(m, req)]
    PROVE  p \in InBlock(minor, m) \cup {0} /\ GapAfter(m, p) >= Need(req)
<1> USE DEF NULL
<1> DEFINE S == InBlock(minor, m)
<1>1. major[m].first \in S
  BY DEF HeapInv, Tables, ChunksLinked, Linked, First
<1>2. PICK t : t = MinorsFrom(major[m].first)
  OBVIOUS
<1>3. t \in Seq(S)
  <2>1. Listed(S, Ident(minor), NextOf(minor), major[m].first, t)
    BY <1>1, <1>2, MinorWalk DEF HeapInv
  <2> QED
    BY <2>1 DEF Listed
<1> PICK T : T = S \cup {0}
  OBVIOUS
<1>4. Spots(m) = <<0>> \o t
  BY <1>2 DEF Spots
<1>5. Spots(m) \in Seq(T)
  <2>1. <<0>> \in Seq(T)
    OBVIOUS
  <2>2. t \in Seq(T)
    <3>1. PICK k \in Nat : k = Len(t)
      BY <1>3
    <3>2. t \in [1 .. k -> S]
      BY <1>3, <3>1
    <3>3. t \in [1 .. k -> T]
      <4> HIDE DEF S
      <4> QED
        BY <3>2
    <3> QED
      BY <3>3
  <2> QED
    BY <1>4, <2>1, <2>2, ConcatProperties
<1> DEFINE I == { i \in 1 .. Len(Spots(m)) : GapAfter(m, Spots(m)[i]) >= Need(req) }
<1>6. Place(m, req) = IF I # {} THEN Min(I) ELSE 0
  BY DEF Place, SelectInSeq
<1>7. I \subseteq Nat
  BY <1>5
<1>8. Place(m, req) \in I
  <2> HIDE DEF I
  <2> QED
    BY <1>6, <1>7, MinOfNaturals
<1> QED
  BY <1>5, <1>8

(* The best bet stays among the majors.                                     *)
LEMMA BestIsLive ==
    ASSUME HeapInv, NEW visited \in Seq(DOMAIN major)
    PROVE  BestAfter(visited) \in DOMAIN major \cup {NULL}
<1> DEFINE had == IF l_bestBet = NULL THEN 0 ELSE FreeBytes(l_bestBet)
           F == { FreeBytes(m) : m \in ToSet(visited) }
           most == Max(F \cup {had})
<1>1. \A m \in DOMAIN major : FreeBytes(m) \in Int
  BY DEF HeapInv, Tables, Typed, MajorHeader, FreeBytes
<1>2. had \in Int
  BY <1>1 DEF HeapInv, BestBetIsLive
<1>3. PICK n \in Nat : n = Len(visited)
  OBVIOUS
<1>4. visited \in [1 .. n -> DOMAIN major]
  BY <1>3
<1>5. F = { FreeBytes(visited[i]) : i \in 1 .. n }
  BY <1>4 DEF ToSet
<1>6. F \subseteq Int
  BY <1>1, <1>4, <1>5
<1>7. IsFiniteSet(F)
  <2> DEFINE f == [i \in 1 .. n |-> FreeBytes(visited[i])]
  <2>1. f \in [1 .. n -> F] /\ \A y \in F : \E i \in 1 .. n : f[i] = y
    BY <1>5
  <2> HIDE DEF f, F
  <2>2. f \in Surjection(1 .. n, F)
    BY <2>1 DEF Surjection
  <2>3. ExistsSurjection(1 .. n, F)
    BY <2>2 DEF ExistsSurjection
  <2> QED
    BY <2>3, FS_NatSurjection
<1>8. most \in F \cup {had}
  <2>1. IsFiniteSet(F \cup {had})
    BY <1>7, FS_AddElement
  <2> HIDE DEF F, had
  <2>2. F \cup {had} \in SUBSET Int /\ F \cup {had} # {}
    BY <1>2, <1>6
  <2> QED
    BY <2>1, <2>2, MaxOfFinite
<1>9. BestAfter(visited) = IF most = had THEN l_bestBet
                           ELSE visited[SelectInSeq(visited, LAMBDA m : FreeBytes(m) = most)]
  BY Zenon DEF BestAfter
<1>10. CASE most = had
  BY <1>9, <1>10 DEF HeapInv, BestBetIsLive
<1>11. CASE most # had
  <2> DEFINE I == { i \in 1 .. Len(visited) : FreeBytes(visited[i]) = most }
  <2> HIDE DEF most, had
  <2>1. I # {} /\ I \subseteq 1 .. n /\ I \subseteq Nat
    <3>1. most \in F
      <4> HIDE DEF F
      <4> QED
        BY <1>8, <1>11
    <3>2. PICK i \in 1 .. n : FreeBytes(visited[i]) = most
      <4>1. F = { FreeBytes(visited[j]) : j \in 1 .. n }
        BY <1>5
      <4> HIDE DEF F
      <4> QED
        BY <3>1, <4>1
    <3> QED
      BY <1>3, <3>2
  <2>2. SelectInSeq(visited, LAMBDA m : FreeBytes(m) = most) = Min(I)
    BY <2>1 DEF SelectInSeq
  <2>3. Min(I) \in 1 .. n
    <3> HIDE DEF I
    <3> QED
      BY <2>1, MinOfNaturals
  <2> HIDE DEF I
  <2> QED
    BY <1>4, <1>9, <1>11, <2>2, <2>3
<1> QED
  BY <1>10, <1>11


-----------------------------------------------------------------------------
(* kmalloc keeps the invariant *)

LEMMA MajorsSame ==
    ASSUME NEW maj, NEW root, MajorsLinked(maj, root),
           NEW maj2, DOMAIN maj2 = DOMAIN maj,
           \A b \in DOMAIN maj : maj2[b].next = maj[b].next /\ maj2[b].prev = maj[b].prev
    PROVE  MajorsLinked(maj2, root)
<1>1. PICK pos, last : InOrder(maj, root, pos, last)
  BY DEF MajorsLinked
<1>2. \A b \in DOMAIN maj : NextOf(maj2)[b] = NextOf(maj)[b] /\ PrevOf(maj2)[b] = PrevOf(maj)[b]
  BY DEF NextOf, PrevOf
<1>3. PICK D, nxt, nxt2, prv, prv2 :
         /\ D = DOMAIN maj /\ nxt = NextOf(maj) /\ nxt2 = NextOf(maj2)
         /\ prv = PrevOf(maj) /\ prv2 = PrevOf(maj2)
  OBVIOUS
<1>4. Linked(D, pos, nxt, prv, root) /\ \A b \in D : nxt2[b] = nxt[b] /\ prv2[b] = prv[b]
  BY <1>1, <1>2, <1>3 DEF InOrder
<1>5. Linked(D, pos, nxt2, prv2, root)
  <2>1. \A b \in D : pos[b] = pos[b]
    OBVIOUS
  <2> QED
    BY ONLY <1>4, <2>1, LinkedSame
<1>6. InOrder(maj2, root, pos, last)
  BY <1>1, <1>3, <1>5 DEF InOrder
<1> QED
  BY <1>6 DEF MajorsLinked

(* One more holder, one more chunk. *)
LEMMA HeldAdded ==
    ASSUME NEW min, NEW held, Held(min, held), NEW a, NEW r, NEW min2,
           DOMAIN min2 = DOMAIN min \cup {a}, a \notin DOMAIN min, min2[a].req = r,
           \A b \in DOMAIN min : min2[b].req = min[b].req
    PROVE  Held(min2, held \cup {User(a, r)})
<1>1. \A b \in DOMAIN min : User(b, min2[b].req) = User(b, min[b].req)
  OBVIOUS
<1>2. { User(b, min2[b].req) : b \in DOMAIN min2 }
        = { User(b, min[b].req) : b \in DOMAIN min } \cup {User(a, r)}
  BY <1>1
<1> QED
  BY <1>2 DEF Held

(* The chunk of size r went into major m of maj behind p, at address a. *)
Placed(maj, m, p, n, a, r) ==
    /\ Gap(maj, minor, m, p, n, a, r)
    /\ minor' = AddedTo(minor, m, p, n, a, r)
    /\ major' = CountedIn(maj, m, p, a, r)
    /\ l_inuse' = l_inuse + Size(r)
    /\ users' = users \cup {User(a, r)}

(* Where the search inserts a chunk there is a gap for it. *)
LEMMA InsertPlaces ==
    ASSUME NEW maj, NEW m \in DOMAIN maj, NEW p \in InBlock(minor, m) \cup {0}, NEW r,
           Insert(maj, m, p, r), NEW a, a = IF p = 0 THEN m + MajorHdr ELSE EndOf(minor, p),
           NEW n, n = IF p = 0 THEN maj[m].first ELSE minor[p].next,
           a + Need(r) <= IF n = 0 THEN m + maj[m].size ELSE n
    PROVE  Placed(maj, m, p, n, a, r)
<1>1. a = IF p = NULL THEN m + MajorHdr ELSE p + MinorHdr + minor[p].size
  BY DEF EndOf, NULL
<1>2. n = IF p = NULL THEN maj[m].first ELSE minor[p].next
  BY DEF NULL
<1>3. /\ minor' = [b \in DOMAIN minor \cup {a} |->
                     IF b = a THEN Header(m, p, n, r)
                     ELSE [minor[b] EXCEPT !.next = IF b = p THEN a ELSE @,
                                           !.prev = IF b = n THEN a ELSE @]]
      /\ major' = [maj EXCEPT ![m].first = IF p = NULL THEN a ELSE @,
                              ![m].usage = @ + Need(r)]
      /\ l_inuse' = l_inuse + Size(r) /\ users' = users \cup {User(a, r)}
  BY ONLY <1>1, <1>2, Insert(maj, m, p, r) DEF Insert
<1> QED
  BY <1>3 DEF Placed, Gap, AddedTo, CountedIn, NULL

(* An allocation without new pages puts one chunk into one gap. *)
LEMMA FitsPlaces ==
    ASSUME HeapInv, NEW req \in Requests, kmalloc_fits(req)
    PROVE  /\ \E m, p, n, a : Placed(major, m, p, n, a, req)
           /\ l_bestBet' \in DOMAIN major \cup {NULL}
           /\ UNCHANGED <<l_memRoot, l_allocated>>
<1> USE DEF NULL
<1> PICK order : order = SearchOrder(req)
  OBVIOUS
<1>0. PICK i : i = SelectInSeq(order, LAMBDA m : FitsIn(m, req))
  OBVIOUS
<1>1. /\ l_memRoot # 0 /\ i # 0
      /\ Insert(major, order[i], Spots(order[i])[Place(order[i], req)], req)
      /\ l_bestBet' = BestAfter(SubSeq(order, 1, i))
      /\ UNCHANGED <<l_memRoot, l_allocated>>
  BY <1>0 DEF kmalloc_fits
<1>2. order \in Seq(DOMAIN major)
  BY <1>1, OrderVisitsAll
<1>4. i \in 1 .. Len(order) /\ FitsIn(order[i], req)
  <2> DEFINE I == { j \in 1 .. Len(order) : FitsIn(order[j], req) }
  <2>1. I \subseteq Nat
    BY <1>2
  <2>2. i = IF I # {} THEN Min(I) ELSE 0
    BY <1>0 DEF SelectInSeq
  <2>3. i \in I
    <3> HIDE DEF I
    <3> QED
      BY <1>1, <2>1, <2>2, MinOfNaturals
  <2> QED
    BY <2>3
<1>9. i \in Nat /\ order[i] \in DOMAIN major /\ \A j \in 1 .. i : order[j] \in DOMAIN major
  <2>1. PICK k \in Nat : k = Len(order)
    BY <1>2
  <2>2. \A j \in 1 .. k : order[j] \in DOMAIN major
    BY <1>2, <2>1
  <2> QED
    BY <1>4, <2>1, <2>2
<1>5. l_bestBet' \in DOMAIN major \cup {0}
  <2>1. i \in Int /\ 1 \in Int /\ \A j \in 1 .. i : order[j] \in DOMAIN major
    BY <1>9
  <2>2. PICK D : D = DOMAIN major
    OBVIOUS
  <2>3. SubSeq(order, 1, i) \in Seq(D)
    BY ONLY <2>1, <2>2, SubSeqProperties
  <2> QED
    BY <1>1, <2>2, <2>3, BestIsLive
<1> PICK m \in DOMAIN major : m = order[i]
  BY <1>9
<1> PICK p : p = Spots(m)[Place(m, req)]
  OBVIOUS
<1>6. p \in InBlock(minor, m) \cup {0} /\ GapAfter(m, p) >= Need(req)
  BY <1>4, PlaceHasRoom DEF FitsIn
<1> PICK a : a = IF p = 0 THEN m + MajorHdr ELSE EndOf(minor, p)
  OBVIOUS
<1> PICK n : n = IF p = 0 THEN major[m].first ELSE minor[p].next
  OBVIOUS
<1>7. a + Need(req) <= IF n = 0 THEN m + major[m].size ELSE n
  <2>1. GapAfter(m, p) = (IF n = 0 THEN m + major[m].size ELSE n) - a
    BY DEF GapAfter, EndOf
  <2>2. m \in Nat /\ major[m].size \in Nat /\ major[m].first \in Nat
    BY DEF HeapInv, Tables, Typed, MajorHeader
  <2>3. p # 0 => p \in Nat /\ minor[p].size \in Nat /\ minor[p].next \in Nat
    BY <1>6 DEF HeapInv, Tables, Typed, MinorHeader, InBlock
  <2>4. a \in Nat /\ n \in Nat
    BY <2>2, <2>3, Sizes DEF EndOf
  <2>5. Need(req) \in Nat
    <3>1. req \in Nat
      BY HeapAssumption
    <3> QED
      BY <3>1, Sizes DEF Need, Size
  <2> QED
    BY <1>6, <2>1, <2>2, <2>4, <2>5
<1>8. Placed(major, m, p, n, a, req)
  <2>1. Insert(major, m, p, req)
    BY <1>1
  <2> QED
    BY ONLY <1>6, <1>7, <2>1, InsertPlaces, m \in DOMAIN major,
       a = IF p = 0 THEN m + MajorHdr ELSE EndOf(minor, p),
       n = IF p = 0 THEN major[m].first ELSE minor[p].next
<1> QED
  BY <1>1, <1>5, <1>8

(* What holds after a chunk was placed. *)
LEMMA PlacedKeeps ==
    ASSUME NEW maj, Tables(maj, minor), NEW granted, OwnRuns(maj, granted),
           NEW root, MajorsLinked(maj, root), Held(minor, users),
           NEW m, \A b \in DOMAIN maj \ {m} : maj[b].first # 0,
           maj[m].first # 0 \/ InBlock(minor, m) = {},
           NEW p, NEW n, NEW a, NEW req \in Requests, Placed(maj, m, p, n, a, req)
    PROVE  /\ Tables(major', minor') /\ OwnRuns(major', granted)
           /\ MajorsLinked(major', root) /\ Held(minor', users')
           /\ \A b \in DOMAIN major' : major'[b].first # 0
           /\ DOMAIN major' = DOMAIN maj
           /\ Grown(maj, minor, major', minor', m, p, n, a, req)
<1>1. PICK maj2, min2 : maj2 = major' /\ min2 = minor'
  OBVIOUS
<1>2. /\ Gap(maj, minor, m, p, n, a, req) /\ req \in Nat
      /\ min2 = AddedTo(minor, m, p, n, a, req)
      /\ maj2 = CountedIn(maj, m, p, a, req)
      /\ users' = users \cup {User(a, req)}
  BY <1>1, HeapAssumption DEF Placed
<1>3. PICK min : min = minor
  OBVIOUS
<1>4. /\ Tables(maj2, min2) /\ OwnRuns(maj2, granted)
      /\ Grown(maj, min, maj2, min2, m, p, n, a, req)
  <2>1. /\ Tables(maj, min) /\ OwnRuns(maj, granted) /\ Gap(maj, min, m, p, n, a, req)
        /\ req \in Nat /\ min2 = AddedTo(min, m, p, n, a, req)
        /\ maj2 = CountedIn(maj, m, p, a, req)
    BY <1>2, <1>3
  <2> QED
    BY ONLY <2>1, ChunkAdded
<1>5. MajorsLinked(maj2, root)
  BY <1>4, MajorsSame DEF Grown
<1>6. Held(min2, users \cup {User(a, req)})
  <2>1. min2[a].req = req
    BY <1>4 DEF Grown, Header
  <2>2. Held(min, users)
    BY <1>3
  <2> QED
    BY ONLY <1>4, <2>1, <2>2, HeldAdded DEF Grown
<1>7. \A b \in DOMAIN maj2 : maj2[b].first # 0
  <2>1. \A b \in DOMAIN maj \ {m} : maj2[b].first # 0
    BY <1>4 DEF Grown
  <2>2. maj2[m].first # 0
    <3>1. p # 0 => maj[m].first # 0
      BY <1>2 DEF Gap
    <3> QED
      BY <1>2, <1>4, <3>1 DEF Gap, Grown
  <2> QED
    BY <1>4, <2>1, <2>2 DEF Grown
<1> QED
  <2>1. Grown(maj, minor, major', minor', m, p, n, a, req)
    BY <1>1, <1>3, <1>4
  <2> QED
    BY <1>1, <1>2, <1>4, <1>5, <1>6, <1>7, <2>1 DEF Grown


-----------------------------------------------------------------------------
(* A new major *)

(* The pages for a request hold both headers and the chunk.                 *)
LEMMA PagesSuffice ==
    ASSUME NEW req \in Nat
    PROVE  /\ PagesFor(req) \in Nat \ {0}
           /\ MajorHdr + Need(req) <= PagesFor(req) * PageSize
<1>1. PICK st \in Nat : st = Need(req) + MajorHdr
  BY Sizes DEF Need, Size
<1>2. PICK k \in Nat, z \in 0 .. (PageSize - 1) :
         k = (st + PageSize - 1) \div PageSize /\ st + PageSize - 1 = k * PageSize + z
  <2>1. st + PageSize - 1 \in Nat /\ PageSize \in Nat \ {0}
    BY <1>1, Sizes
  <2> QED
    BY <2>1, DivModNat
<1>3. st <= k * PageSize
  <2>1. PICK w \in Nat : w = k * PageSize
    BY Sizes
  <2> QED
    BY <1>1, <1>2, <2>1, Sizes
<1>4. PagesFor(req) = Max({PageCount, k})
  BY <1>1, <1>2 DEF PagesFor
<1>5. PICK n \in {PageCount, k} : n >= PageCount /\ n >= k
  BY Sizes
<1>6. PagesFor(req) \in {PageCount, k} /\ PagesFor(req) >= PageCount /\ PagesFor(req) >= k
  <2>1. Max({PageCount, k}) \in {PageCount, k} /\ \A y \in {PageCount, k} : Max({PageCount, k}) >= y
    BY <1>5 DEF Max
  <2> QED
    BY <1>4, <2>1
<1>7. PICK g \in Nat : g = PagesFor(req) /\ g > 0 /\ k <= g
  BY <1>6, Sizes
<1>8. k * PageSize <= g * PageSize
  BY <1>7, Sizes, MulMono
<1>9. PICK v \in Nat, w \in Nat : v = k * PageSize /\ w = g * PageSize
  BY Sizes
<1>10. MajorHdr + Need(req) = st
  BY <1>1, Sizes DEF Need, Size
<1> QED
  BY <1>3, <1>7, <1>8, <1>9, <1>10

(* The table with a new major behind the last one. *)
Extended(maj, base, last, new) ==
    [m \in DOMAIN maj \cup {base} |->
        IF m = base THEN new
        ELSE [maj[m] EXCEPT !.next = IF m = last THEN base ELSE @]]

(* The header of a new major in k free pages from page f on.                *)
FreshMajor(maj, granted, root, f, k, last, base, new, maj2, granted2, root2) ==
    /\ f \in Nat /\ k \in Nat \ {0}
    /\ (root = 0 /\ last = 0) \/ (last \in DOMAIN maj /\ maj[last].next = 0)
    /\ PageRun(f, k) \subseteq 1 .. HeapPages /\ PageRun(f, k) \cap granted = {}
    /\ base = f * PageSize
    /\ new \in MajorHeader
    /\ new.prev = last /\ new.next = 0 /\ new.first = 0
    /\ new.pages = k /\ new.size = k * PageSize
    /\ maj2 = Extended(maj, base, last, new)
    /\ granted2 = granted \cup PageRun(f, k)
    /\ root2 = IF root = 0 THEN base ELSE root

(* A run of new pages becomes the last major of the list. *)
LEMMA MajorAdded ==
    ASSUME NEW maj, NEW min, Tables(maj, min), NEW granted, OwnRuns(maj, granted),
           NEW root, MajorsLinked(maj, root),
           NEW f, NEW k, NEW last, NEW base, NEW new,
           NEW maj2, NEW granted2, NEW root2,
           FreshMajor(maj, granted, root, f, k, last, base, new, maj2, granted2, root2)
    PROVE  /\ base \notin DOMAIN maj /\ base \in Nat /\ base # 0
           /\ Tables(maj2, min) /\ OwnRuns(maj2, granted2)
           /\ MajorsLinked(maj2, root2)
           /\ DOMAIN maj2 = DOMAIN maj \cup {base} /\ maj2[base] = new
           /\ \A b \in DOMAIN maj :
                 /\ maj2[b].first = maj[b].first /\ maj2[b].usage = maj[b].usage
                 /\ maj2[b].size = maj[b].size /\ maj2[b].pages = maj[b].pages
           /\ InBlock(min, base) = {}
<1> SUFFICES ASSUME f \in Nat, k \in Nat \ {0}, (root = 0 /\ last = 0) \/ (last \in DOMAIN maj /\ maj[last].next = 0),
                    PageRun(f, k) \subseteq 1 .. HeapPages, PageRun(f, k) \cap granted = {},
                    base = f * PageSize, new \in MajorHeader, new.prev = last, new.next = 0,
                    new.first = 0, new.pages = k, new.size = k * PageSize,
                    maj2 = Extended(maj, base, last, new), granted2 = granted \cup PageRun(f, k),
                    root2 = IF root = 0 THEN base ELSE root
             PROVE  /\ base \notin DOMAIN maj /\ base \in Nat /\ base # 0
                    /\ Tables(maj2, min) /\ OwnRuns(maj2, granted2)
                    /\ MajorsLinked(maj2, root2)
                    /\ DOMAIN maj2 = DOMAIN maj \cup {base} /\ maj2[base] = new
                    /\ \A b \in DOMAIN maj :
                          /\ maj2[b].first = maj[b].first /\ maj2[b].usage = maj[b].usage
                          /\ maj2[b].size = maj[b].size /\ maj2[b].pages = maj[b].pages
                    /\ InBlock(min, base) = {}
  BY DEF FreshMajor
<1>1. Typed(maj, min) /\ Chunked(maj, min) /\ ChunksLinked(maj, min)
  BY DEF Tables
<1>2. f \in PageRun(f, k) /\ f >= 1
  <2>1. f \in PageRun(f, k)
    BY DEF PageRun
  <2> QED
    BY <2>1, Sizes
<1>3. base \in Nat /\ base # 0 /\ base \div PageSize = f
  <2>1. 0 \in 0 .. (PageSize - 1) /\ PageSize \in Nat \ {0}
    BY Sizes
  <2>2. (f * PageSize + 0) \div PageSize = f
    BY <2>1, DivExact
  <2>3. 1 * PageSize <= f * PageSize /\ f * PageSize \in Nat
    BY <1>2, Sizes, MulMono
  <2> QED
    BY <2>2, <2>3, Sizes
<1>4. base \notin DOMAIN maj
  <2> SUFFICES ASSUME base \in DOMAIN maj PROVE FALSE
    OBVIOUS
  <2>1. maj[base].pages \in Nat \ {0}
    BY <1>1 DEF Typed, MajorHeader
  <2>2. f \in RunOf(maj, base)
    BY <1>3, <2>1 DEF RunOf, PageRun
  <2> QED
    BY <1>2, <2>2 DEF OwnRuns
<1>5. DOMAIN maj2 = DOMAIN maj \cup {base} /\ maj2[base] = new
      /\ \A b \in DOMAIN maj : maj2[b] = [maj[b] EXCEPT !.next = IF b = last THEN base ELSE @]
  BY <1>4 DEF Extended
<1>6. \A b \in DOMAIN maj :
         /\ maj2[b] \in MajorHeader
         /\ maj2[b].first = maj[b].first /\ maj2[b].usage = maj[b].usage
         /\ maj2[b].size = maj[b].size /\ maj2[b].pages = maj[b].pages
         /\ maj2[b].prev = maj[b].prev
         /\ maj2[b].next = IF b = last THEN base ELSE maj[b].next
  <2> TAKE b \in DOMAIN maj
  <2>1. PICK x, y : x \in MajorHeader /\ x = maj[b] /\ y = maj2[b]
    BY <1>1 DEF Typed
  <2>2. PICK nx \in Nat : nx = IF b = last THEN base ELSE maj[b].next
    <3>1. maj[b].next \in Nat
      BY <2>1 DEF MajorHeader
    <3> QED
      BY <1>3, <3>1
  <2>3. y = [x EXCEPT !.next = nx]
    BY <1>5, <2>1, <2>2
  <2>4. /\ y \in MajorHeader /\ y.next = nx /\ y.prev = x.prev /\ y.first = x.first
        /\ y.usage = x.usage /\ y.size = x.size /\ y.pages = x.pages
    BY ONLY <2>1, <2>3 DEF MajorHeader
  <2> QED
    BY <2>1, <2>2, <2>4
<1>7. InBlock(min, base) = {}
  BY <1>1, <1>4 DEF Chunked, InBlock
<1>8. Typed(maj2, min)
  <2>1. IsFiniteSet(DOMAIN maj \cup {base})
    BY <1>1, FS_AddElement DEF Typed
  <2> QED
    BY <1>1, <1>3, <1>5, <1>6, <2>1 DEF Typed
<1>9. Chunked(maj2, min)
  <2>1. \A a \in DOMAIN min : min[a].block \in DOMAIN maj2
                              /\ maj2[min[a].block].size = maj[min[a].block].size
    BY <1>1, <1>5, <1>6 DEF Chunked
  <2> QED
    BY <1>1, <2>1 DEF Chunked
<1>10. ChunksLinked(maj2, min)
  <2>1. Linked(InBlock(min, base), Ident(min), NextOf(min), PrevOf(min), maj2[base].first)
    BY <1>5, <1>7 DEF Linked, First
  <2>2. \A b \in DOMAIN maj :
           Linked(InBlock(min, b), Ident(min), NextOf(min), PrevOf(min), maj2[b].first)
    BY <1>1, <1>6 DEF ChunksLinked
  <2> QED
    BY <1>5, <2>1, <2>2 DEF ChunksLinked
<1>11. OwnRuns(maj2, granted2)
  <2>1. \A b \in DOMAIN maj : RunOf(maj2, b) = RunOf(maj, b) /\ RunOf(maj, b) \subseteq granted
    BY <1>6 DEF RunOf, OwnRuns
  <2>2. RunOf(maj2, base) = PageRun(f, k)
    BY <1>3, <1>5 DEF RunOf
  <2>3. \A b \in DOMAIN maj2 : /\ b = (b \div PageSize) * PageSize
                               /\ maj2[b].size = maj2[b].pages * PageSize
                               /\ RunOf(maj2, b) \subseteq granted \cup PageRun(f, k)
    <3>1. \A b \in DOMAIN maj : /\ b = (b \div PageSize) * PageSize
                                /\ maj2[b].size = maj2[b].pages * PageSize
      BY <1>6 DEF OwnRuns
    <3>2. base = (base \div PageSize) * PageSize /\ maj2[base].size = maj2[base].pages * PageSize
      BY <1>3, <1>5
    <3> QED
      BY <1>5, <2>1, <2>2, <3>1, <3>2
  <2>4. ASSUME NEW b \in DOMAIN maj2, NEW c \in DOMAIN maj2, b # c
        PROVE  RunOf(maj2, b) \cap RunOf(maj2, c) = {}
    <3>1. CASE b = base
      BY <1>5, <2>1, <2>2, <2>4, <3>1
    <3>2. CASE c = base
      BY <1>5, <2>1, <2>2, <2>4, <3>2
    <3>3. CASE b # base /\ c # base
      <4>1. b \in DOMAIN maj /\ c \in DOMAIN maj
        BY <1>5, <3>3
      <4> QED
        BY <2>1, <2>4, <4>1 DEF OwnRuns
    <3> QED
      BY <3>1, <3>2, <3>3
  <2>5. granted2 \subseteq 1 .. HeapPages
    BY DEF OwnRuns
  <2> QED
    BY <2>3, <2>4, <2>5 DEF OwnRuns
<1>12. MajorsLinked(maj2, root2)
  <2>1. PICK pos, end : InOrder(maj, root, pos, end)
    BY DEF MajorsLinked
  <2> DEFINE pos2 == [m \in DOMAIN maj \cup {base} |-> IF m = base THEN end + 1 ELSE pos[m]]
  <2>2. end \in Nat /\ \A m \in DOMAIN maj : pos[m] <= end /\ pos[m] \in Nat
    BY <2>1 DEF InOrder, Linked
  <2>3. pos2[base] = end + 1 /\ \A m \in DOMAIN maj : pos2[m] = pos[m]
    BY <1>4
  <2> HIDE DEF pos2
  <2>4. PICK S, nxt, nxt2, prv, prv2, T, first2 :
           /\ S = DOMAIN maj /\ nxt = NextOf(maj) /\ nxt2 = NextOf(maj2)
           /\ prv = PrevOf(maj) /\ prv2 = PrevOf(maj2)
           /\ T = S \cup {base} /\ first2 = IF last = 0 THEN base ELSE root
    OBVIOUS
  <2>5. Linked(S, pos, nxt, prv, root)
    BY <2>1, <2>4 DEF InOrder
  <2>6. last = 0 <=> root = 0
    <3>1. 0 \notin S
      BY <2>5 DEF Linked
    <3>2. root = 0 => S = {}
      BY <2>5 DEF Linked, First
    <3> QED
      BY <2>4, <3>1, <3>2
  <2>7. /\ \A m \in S : /\ nxt[m] = maj[m].next /\ prv[m] = maj[m].prev
                        /\ nxt2[m] = (IF m = last THEN base ELSE nxt[m]) /\ prv2[m] = prv[m]
        /\ nxt2[base] = 0 /\ prv2[base] = last
    BY <1>5, <1>6, <2>4 DEF NextOf, PrevOf
  <2>8. Inserts(S, pos, nxt, prv, root, last, base, 0, pos2, nxt2, prv2)
    <3>1. last \in S \cup {0} /\ base \notin S \cup {0}
      BY <1>3, <1>4, <2>4
    <3>2. 0 = IF last = 0 THEN root ELSE nxt[last]
      BY <2>4, <2>6, <2>7
    <3>3. last # 0 => pos[last] < pos2[base]
      BY <2>2, <2>3, <2>4, <3>1
    <3>4. \A b \in S : b # 0
      BY <2>5 DEF Linked
    <3> QED
      BY <2>2, <2>3, <2>4, <2>7, <3>1, <3>2, <3>3, <3>4 DEF Inserts
  <2>9. Linked(T, pos2, nxt2, prv2, first2)
    BY ONLY <2>4, <2>5, <2>8, LinkedInsert
  <2>10. end + 1 \in Nat /\ \A m \in DOMAIN maj2 : pos2[m] <= end + 1
    BY <1>5, <2>2, <2>3
  <2>11. InOrder(maj2, first2, pos2, end + 1)
    BY <1>5, <2>4, <2>9, <2>10 DEF InOrder
  <2>12. first2 = root2
    BY <2>4, <2>6
  <2> QED
    BY <2>11, <2>12 DEF MajorsLinked
<1> QED
  BY <1>3, <1>4, <1>5, <1>6, <1>7, <1>8, <1>9, <1>10, <1>11, <1>12 DEF Tables



(* The table with a new, empty major at base, as a request needs it.        *)
Enlarged(maj, base, req) ==
    /\ base \notin DOMAIN major /\ DOMAIN maj = DOMAIN major \cup {base}
    /\ maj[base].usage = MajorHdr /\ maj[base].pages = PagesFor(req)
    /\ maj[base].size = PagesFor(req) * PageSize
    /\ \A b \in DOMAIN major :
          /\ maj[b].first = major[b].first /\ maj[b].usage = major[b].usage
          /\ maj[b].size = major[b].size /\ maj[b].pages = major[b].pages
    /\ l_allocated' = l_allocated + PagesFor(req) * PageSize
    /\ \E f \in Nat : /\ pages' = pages \cup PageRun(f, PagesFor(req))
                      /\ pages \cap PageRun(f, PagesFor(req)) = {}

(* When no major has room, the chunk is placed in a new one, linked behind  *)
(* the last.                                                                *)
LEMMA GrowsPlaces ==
    ASSUME HeapInv, NEW req \in Requests, Grow(req)
    PROVE  \E maj, base :
              /\ Enlarged(maj, base, req)
              /\ Tables(maj, minor) /\ OwnRuns(maj, pages') /\ MajorsLinked(maj, l_memRoot')
              /\ InBlock(minor, base) = {}
              /\ Placed(maj, base, 0, 0, base + MajorHdr, req)
              /\ l_bestBet' \in DOMAIN maj \cup {NULL}
<1> USE DEF NULL
<1>0. req \in Nat
  BY HeapAssumption
<1>1. PICK k \in Nat \ {0} : k = PagesFor(req) /\ MajorHdr + Need(req) <= k * PageSize
  BY <1>0, PagesSuffice
<1>2. PICK runs : runs = FreeRuns(PagesFor(req))
  OBVIOUS
<1>3. PICK f : f = Min(runs)
  OBVIOUS
<1>4. /\ f \in Nat /\ f >= 1 /\ f + k - 1 <= HeapPages /\ PageRun(f, k) \cap pages = {}
      /\ kmalloc_grows(req, f * PageSize) /\ pages' = pages \cup PageRun(f, k)
  <2>1. /\ runs # {} /\ kmalloc_grows(req, f * PageSize)
        /\ pages' = pages \cup PageRun(f, k)
    BY <1>1, <1>2, <1>3 DEF Grow
  <2>2. runs \subseteq Nat
    BY <1>2, Sizes DEF FreeRuns
  <2>3. f \in runs
    BY <1>3, <2>1, <2>2, MinOfNaturals
  <2>4. f \in 1 .. HeapPages /\ f + k - 1 <= HeapPages /\ PageRun(f, k) \cap pages = {}
    BY <1>1, <1>2, <2>3 DEF FreeRuns
  <2> QED
    BY <2>1, <2>4, Sizes
<1>5. PageRun(f, k) \subseteq 1 .. HeapPages
  BY <1>4, Sizes DEF PageRun
<1>6. PICK base : base = f * PageSize
  OBVIOUS
<1>7. PICK order : order = IF l_memRoot = NULL THEN <<>> ELSE SearchOrder(req)
  OBVIOUS
<1>8. PICK last : last = LastOf(order)
  OBVIOUS
<1>9. /\ order \in Seq(DOMAIN major)
      /\ (l_memRoot = 0 /\ last = 0) \/ (last \in DOMAIN major /\ major[last].next = 0)
      /\ last \in Nat
  <2>1. CASE l_memRoot = 0
    <3>1. order = <<>> /\ <<>> \in Seq(DOMAIN major)
      BY <1>7, <2>1
    <3> QED
      BY <1>8, <2>1, <3>1 DEF LastOf
  <2>2. CASE l_memRoot # 0
    <3>1. order = SearchOrder(req)
      BY <1>7, <2>2
    <3>2. order \in Seq(DOMAIN major) /\ Len(order) > 0 /\ major[order[Len(order)]].next = 0
      BY <2>2, <3>1, OrderVisitsAll
    <3>3. last = order[Len(order)] /\ last \in DOMAIN major
      BY <1>8, <3>2 DEF LastOf, Last
    <3>4. DOMAIN major \subseteq Nat
      BY DEF HeapInv, Tables, Typed
    <3> QED
      BY <3>2, <3>3, <3>4
  <2> QED
    BY <2>1, <2>2
<1>10. PICK new : new = [prev |-> last, next |-> 0, first |-> 0, pages |-> k,
                         size |-> k * PageSize, usage |-> MajorHdr]
  OBVIOUS
<1>11. new \in MajorHeader
  BY <1>9, <1>10, Sizes DEF MajorHeader
<1>12. /\ new.prev = last /\ new.next = 0 /\ new.first = 0 /\ new.pages = k
       /\ new.size = k * PageSize /\ new.usage = MajorHdr
  BY ONLY <1>10
<1>13. PICK maj : maj = Extended(major, base, last, new)
  OBVIOUS
<1>14. /\ Insert(maj, base, 0, req)
       /\ l_memRoot' = IF l_memRoot = 0 THEN base ELSE l_memRoot
       /\ l_allocated' = l_allocated + k * PageSize
       /\ l_bestBet' \in {base, BestAfter(order)}
  <2>1. kmalloc_grows(req, base)
    BY <1>4, <1>6
  <2>2. maj = [m \in DOMAIN major \cup {base} |->
                  IF m = base THEN [prev |-> last, next |-> 0, first |-> 0, pages |-> PagesFor(req),
                         size |-> PagesFor(req) * PageSize, usage |-> MajorHdr]
                  ELSE [major[m] EXCEPT !.next = IF m = last THEN base ELSE @]]
    BY <1>1, <1>10, <1>13 DEF Extended
  <2>3. /\ Insert([m \in DOMAIN major \cup {base} |->
                  IF m = base THEN [prev |-> LastOf(order), next |-> 0, first |-> 0, pages |-> PagesFor(req),
                         size |-> PagesFor(req) * PageSize, usage |-> MajorHdr]
                  ELSE [major[m] EXCEPT !.next = IF m = LastOf(order) THEN base ELSE @]], base, 0, req)
        /\ l_memRoot' = IF l_memRoot = 0 THEN base ELSE l_memRoot
        /\ l_allocated' = l_allocated + PagesFor(req) * PageSize
        /\ l_bestBet' \in {base, BestAfter(order)}
    BY <1>7, <2>1 DEF kmalloc_grows
  <2> QED
    BY <1>1, <1>8, <2>2, <2>3
<1>15. PICK rt : rt = IF l_memRoot = 0 THEN base ELSE l_memRoot
  OBVIOUS
<1>16. PICK min : min = minor
  OBVIOUS
<1>21. PICK granted2 : granted2 = pages \cup PageRun(f, k)
  OBVIOUS
<1>17. /\ base \notin DOMAIN major /\ base \in Nat /\ base # 0
       /\ Tables(maj, min) /\ OwnRuns(maj, granted2)
       /\ MajorsLinked(maj, rt)
       /\ DOMAIN maj = DOMAIN major \cup {base} /\ maj[base] = new
       /\ \A b \in DOMAIN major :
             /\ maj[b].first = major[b].first /\ maj[b].usage = major[b].usage
             /\ maj[b].size = major[b].size /\ maj[b].pages = major[b].pages
       /\ InBlock(min, base) = {}
  <2>1. PICK mj, gr, ro : mj = major /\ gr = pages /\ ro = l_memRoot
    OBVIOUS
  <2>2. Tables(mj, min) /\ OwnRuns(mj, gr) /\ MajorsLinked(mj, ro)
    BY <1>16, <2>1 DEF HeapInv
  <2>3. FreshMajor(mj, gr, ro, f, k, last, base, new, maj, granted2, rt)
    BY <1>4, <1>5, <1>6, <1>9, <1>11, <1>12, <1>13, <1>15, <1>21, <2>1 DEF FreshMajor
  <2>5. /\ base \notin DOMAIN mj /\ base \in Nat /\ base # 0
        /\ Tables(maj, min) /\ OwnRuns(maj, granted2)
        /\ MajorsLinked(maj, rt)
        /\ DOMAIN maj = DOMAIN mj \cup {base} /\ maj[base] = new
        /\ \A b \in DOMAIN mj :
              /\ maj[b].first = mj[b].first /\ maj[b].usage = mj[b].usage
              /\ maj[b].size = mj[b].size /\ maj[b].pages = mj[b].pages
        /\ InBlock(min, base) = {}
    BY ONLY <2>2, <2>3, MajorAdded
  <2> QED
    BY <2>1, <2>5
<1>18. Placed(maj, base, 0, 0, base + MajorHdr, req)
  <2>1. base \in DOMAIN maj /\ 0 \in InBlock(minor, base) \cup {0}
    BY <1>17
  <2>2. maj[base].first = 0 /\ maj[base].size = k * PageSize
    BY <1>12, <1>17
  <2>3. base + MajorHdr + Need(req) <= base + maj[base].size
    <3>1. PICK v \in Nat, w \in Nat : v = k * PageSize /\ w = Need(req)
      BY <1>0, Sizes DEF Need, Size
    <3> QED
      BY <1>1, <1>17, <2>2, <3>1, Sizes
  <2>4. PICK a : a = base + MajorHdr
    OBVIOUS
  <2> QED
    BY ONLY <1>14, <2>1, <2>2, <2>3, <2>4, InsertPlaces
<1>19. l_bestBet' \in DOMAIN maj \cup {0}
  BY <1>9, <1>14, <1>17, BestIsLive
<1>20. Enlarged(maj, base, req)
  BY <1>1, <1>4, <1>12, <1>14, <1>17 DEF Enlarged
<1> QED
  BY <1>4, <1>14, <1>15, <1>16, <1>17, <1>18, <1>19, <1>20, <1>21



-----------------------------------------------------------------------------
(* A chunk goes, and perhaps its major *)

LEMMA RunsSame ==
    ASSUME NEW maj, NEW granted, OwnRuns(maj, granted),
           NEW maj2, SameRuns(maj2, maj, DOMAIN maj)
    PROVE  OwnRuns(maj2, granted)
<1>1. \A b \in DOMAIN maj : RunOf(maj2, b) = RunOf(maj, b)
  BY DEF SameRuns, RunOf
<1> QED
  BY <1>1 DEF OwnRuns, SameRuns

(* A major is taken out of the list.                                        *)
Unlinked(maj, m, root, maj2, root2) ==
    /\ m \in DOMAIN maj /\ maj2 = Unlink(maj, m)
    /\ root2 = IF root = m THEN maj[m].next ELSE root

(* A major taken out of the list leaves the others as they were. *)
LEMMA MajorUnlinked ==
    ASSUME NEW maj, NEW min, Typed(maj, min), NEW root, MajorsLinked(maj, root),
           NEW m, NEW maj2, NEW root2, Unlinked(maj, m, root, maj2, root2)
    PROVE  /\ MajorsLinked(maj2, root2)
           /\ SameRuns(maj2, maj, DOMAIN maj \ {m})
           /\ \A b \in DOMAIN maj2 : maj2[b].first = maj[b].first /\ maj2[b].usage = maj[b].usage
<1> SUFFICES ASSUME m \in DOMAIN maj, maj2 = Unlink(maj, m),
                    root2 = IF root = m THEN maj[m].next ELSE root
             PROVE  /\ MajorsLinked(maj2, root2)
                    /\ SameRuns(maj2, maj, DOMAIN maj \ {m})
                    /\ \A b \in DOMAIN maj2 :
                          maj2[b].first = maj[b].first /\ maj2[b].usage = maj[b].usage
  BY DEF Unlinked
<1>1. DOMAIN maj2 = DOMAIN maj \ {m}
  BY DEF Unlink
<1>2. ASSUME NEW b \in DOMAIN maj \ {m}
      PROVE  /\ maj2[b] \in MajorHeader
             /\ maj2[b].size = maj[b].size /\ maj2[b].pages = maj[b].pages
             /\ maj2[b].first = maj[b].first /\ maj2[b].usage = maj[b].usage
             /\ maj2[b].next = IF b = maj[m].prev THEN maj[m].next ELSE maj[b].next
             /\ maj2[b].prev = IF b = maj[m].next THEN maj[m].prev ELSE maj[b].prev
  <2>1. PICK nx \in Nat, pv \in Nat :
           /\ nx = IF b = maj[m].prev THEN maj[m].next ELSE maj[b].next
           /\ pv = IF b = maj[m].next THEN maj[m].prev ELSE maj[b].prev
    <3>1. maj[m] \in MajorHeader /\ maj[b] \in MajorHeader
      BY DEF Typed
    <3>2. maj[m].next \in Nat /\ maj[m].prev \in Nat /\ maj[b].next \in Nat /\ maj[b].prev \in Nat
      BY <3>1 DEF MajorHeader
    <3> QED
      BY <3>2
  <2>2. PICK x, y : x \in MajorHeader /\ x = maj[b] /\ y = maj2[b]
    BY DEF Typed
  <2>3. y = [x EXCEPT !.next = nx, !.prev = pv]
    BY <2>1, <2>2 DEF Unlink
  <2>4. /\ y \in MajorHeader /\ y.next = nx /\ y.prev = pv
        /\ y.first = x.first /\ y.usage = x.usage /\ y.size = x.size /\ y.pages = x.pages
    BY ONLY <2>2, <2>3 DEF MajorHeader
  <2> QED
    BY <2>1, <2>2, <2>4
<1>3. SameRuns(maj2, maj, DOMAIN maj \ {m})
  BY <1>1, <1>2 DEF SameRuns
<1>4. MajorsLinked(maj2, root2)
  <2>1. PICK pos, end : InOrder(maj, root, pos, end)
    BY DEF MajorsLinked
  <2>2. PICK S, T, nxt, nxt2, prv, prv2 :
           /\ S = DOMAIN maj /\ T = S \ {m}
           /\ nxt = NextOf(maj) /\ nxt2 = NextOf(maj2)
           /\ prv = PrevOf(maj) /\ prv2 = PrevOf(maj2)
    OBVIOUS
  <2>3. Linked(S, pos, nxt, prv, root)
    BY <2>1, <2>2 DEF InOrder
  <2>4. /\ \A b \in S : nxt[b] = maj[b].next /\ prv[b] = maj[b].prev
        /\ \A b \in T : nxt2[b] = maj2[b].next /\ prv2[b] = maj2[b].prev
    BY <1>1, <2>2 DEF NextOf, PrevOf
  <2>5. Removes(S, nxt, prv, m, nxt2, prv2)
    BY <1>2, <2>2, <2>4 DEF Removes
  <2>6. PICK first2 : first2 = IF prv[m] = 0 THEN nxt[m] ELSE root
    OBVIOUS
  <2>7. Linked(T, pos, nxt2, prv2, first2) /\ (prv[m] = 0 <=> root = m)
    BY ONLY <2>2, <2>3, <2>5, <2>6, LinkedRemove
  <2>8. first2 = root2
    BY <2>2, <2>4, <2>6, <2>7
  <2>9. InOrder(maj2, root2, pos, end)
    BY <1>1, <2>1, <2>2, <2>7, <2>8 DEF InOrder
  <2> QED
    BY <2>9 DEF MajorsLinked
<1> QED
  BY <1>1, <1>2, <1>3, <1>4

(* How kfree changes the tables, for the chunk a of the caller u.           *)
Freed(u, a, m) ==
    /\ a \in DOMAIN minor /\ m \in DOMAIN major /\ m = minor[a].block
    /\ u = User(a, minor[a].req) /\ MinorOf(u) = a
    /\ DOMAIN minor' = DOMAIN minor \ {a}
    /\ \A b \in DOMAIN minor' : /\ minor'[b].block = minor[b].block
                                /\ minor'[b].size = minor[b].size
    /\ \A b \in DOMAIN major' : /\ b \in DOMAIN major
                                /\ major'[b].size = major[b].size
                                /\ major'[b].pages = major[b].pages
    /\ l_inuse' = l_inuse - minor[a].size
    /\ \/ /\ DOMAIN major' = DOMAIN major /\ pages' = pages
          /\ l_allocated' = l_allocated
          /\ \A b \in DOMAIN major : major'[b].usage =
                IF b = m THEN major[m].usage - (minor[a].size + MinorHdr) ELSE major[b].usage
       \/ /\ DOMAIN major' = DOMAIN major \ {m} /\ pages' = pages \ RunOf(major, m)
          /\ l_allocated' = l_allocated - major[m].size
          /\ \A b \in DOMAIN major' : major'[b].usage = major[b].usage

(* kfree keeps every part of the invariant, and takes away one chunk. *)
LEMMA KfreeKeeps ==
    ASSUME HeapInv, NEW u \in users, kfree(u), Release(u)
    PROVE  /\ Tables(major', minor') /\ OwnRuns(major', pages')
           /\ MajorsLinked(major', l_memRoot')
           /\ \A b \in DOMAIN major' : major'[b].first # 0
           /\ Held(minor', users')
           /\ l_bestBet' \in DOMAIN major' \cup {0}
           /\ \E a, m : Freed(u, a, m)
<1> USE DEF NULL
<1>1. PICK a \in DOMAIN minor : u = User(a, minor[a].req)
  BY DEF HeapInv, Held
<1>2. \A b \in DOMAIN minor : /\ b \in Nat /\ minor[b].req \in Nat
                              /\ minor[b].prev \in Nat /\ minor[b].next \in Nat
  BY DEF HeapInv, Tables, Typed, MinorHeader
<1>3. \A b \in DOMAIN minor : MinorOf(User(b, minor[b].req)) = b
  BY <1>2, UserLies
<1>4. MinorOf(u) = a
  BY <1>1, <1>3
<1>5. PICK m \in DOMAIN major : m = minor[a].block
  BY DEF HeapInv, Tables, Chunked
<1>6. PICK min, maj, min2, maj2, gr :
         min = minor /\ maj = major /\ min2 = minor' /\ maj2 = major' /\ gr = pages
  OBVIOUS
<1>7. /\ min2 = Unlink(min, a) /\ users' = users \ {u}
      /\ l_inuse' = l_inuse - min[a].size
  BY <1>4, <1>6 DEF kfree
<1>8. /\ Tables(maj, min) /\ OwnRuns(maj, gr) /\ MajorsLinked(maj, l_memRoot)
      /\ \A b \in DOMAIN maj : maj[b].first # 0
      /\ l_bestBet \in DOMAIN maj \cup {0}
      /\ Held(min, users) /\ a \in DOMAIN min /\ m \in DOMAIN maj /\ m = min[a].block
  BY <1>5, <1>6 DEF HeapInv, BestBetIsLive
<1>9. Held(min2, users') /\ DOMAIN min2 = DOMAIN min \ {a}
  <2>1. DOMAIN min2 = DOMAIN min \ {a} /\ \A b \in DOMAIN min2 : min2[b].req = min[b].req
    <3>1. DOMAIN min2 = DOMAIN min \ {a}
      BY <1>7 DEF Unlink
    <3>2. ASSUME NEW b \in DOMAIN min2 PROVE min2[b].req = min[b].req
      <4>1. PICK x, y : x \in MinorHeader /\ x = min[b] /\ y = min2[b]
        BY <1>8, <3>1 DEF Tables, Typed
      <4>2. PICK nx, pv : y = [x EXCEPT !.next = nx, !.prev = pv]
        BY <1>7, <3>1, <4>1 DEF Unlink
      <4>3. y.req = x.req
        BY ONLY <4>1, <4>2 DEF MinorHeader
      <4> QED
        BY <4>1, <4>3
    <3> QED
      BY <3>1, <3>2
  <2>2. \A b \in DOMAIN min \ {a} : User(b, min[b].req) # u
    BY <1>1, <1>3, <1>4, <1>6
  <2>3. users = { User(b, min[b].req) : b \in DOMAIN min }
    BY <1>8 DEF Held
  <2>4. u = User(a, min[a].req)
    BY <1>1, <1>6
  <2>5. users \ {u} = { User(b, min[b].req) : b \in DOMAIN min \ {a} }
    BY <2>2, <2>3, <2>4
  <2>6. { User(b, min[b].req) : b \in DOMAIN min \ {a} } = { User(b, min2[b].req) : b \in DOMAIN min2 }
    BY <2>1
  <2> QED
    BY <1>7, <2>1, <2>5, <2>6 DEF Held
<1>10. CASE Emptied(u) = {}
  <2>1. /\ maj2 = [maj EXCEPT ![m].first = IF min[a].prev = 0 THEN min[a].next ELSE @,
                              ![m].usage = maj[m].usage - (min[a].size + MinorHdr)]
        /\ l_bestBet' \in {m, l_bestBet} /\ l_memRoot' = l_memRoot
        /\ l_allocated' = l_allocated /\ pages' = gr
        /\ ~ (min[a].prev = 0 /\ min[a].next = 0)
    BY <1>4, <1>5, <1>6, <1>10 DEF kfree, Release, Emptied, UsageWithout
  <2>2. PICK f \in Nat, c \in Int :
           /\ f = IF min[a].prev = 0 THEN min[a].next ELSE maj[m].first
           /\ c = maj[m].usage - (min[a].size + MinorHdr)
    <3>1. maj[m] \in MajorHeader /\ min[a] \in MinorHeader
      BY <1>8 DEF Tables, Typed
    <3>2. maj[m].first \in Nat /\ maj[m].usage \in Int /\ min[a].next \in Nat /\ min[a].size \in Nat
      BY <3>1 DEF MajorHeader, MinorHeader
    <3> QED
      BY <3>2, Sizes
  <2>3. DOMAIN maj2 = DOMAIN maj /\ \A b \in DOMAIN maj \ {m} : maj2[b] = maj[b]
    BY <2>1
  <2>4. /\ maj2[m] \in MajorHeader /\ maj2[m].first = f /\ maj2[m].usage = c
        /\ maj2[m].next = maj[m].next /\ maj2[m].prev = maj[m].prev
        /\ maj2[m].size = maj[m].size /\ maj2[m].pages = maj[m].pages
    <3>1. PICK x, y : x \in MajorHeader /\ x = maj[m] /\ y = maj2[m]
      BY <1>8 DEF Tables, Typed
    <3>2. y = [x EXCEPT !.first = f, !.usage = c]
      BY <1>8, <2>1, <2>2, <3>1
    <3>3. /\ y \in MajorHeader /\ y.first = f /\ y.usage = c
          /\ y.next = x.next /\ y.prev = x.prev /\ y.size = x.size /\ y.pages = x.pages
      BY ONLY <3>1, <3>2, f \in Nat, c \in Int DEF MajorHeader
    <3> QED
      BY <3>1, <3>3
  <2>5. SameRuns(maj2, maj, DOMAIN maj)
    BY <1>8, <2>3, <2>4 DEF SameRuns, Tables, Typed
  <2>6. \A b \in DOMAIN maj : maj2[b].first =
           IF b = m /\ min[a].prev = 0 THEN min[a].next ELSE maj[b].first
    BY <2>2, <2>3, <2>4
  <2>7. /\ Tables(maj2, min2)
        /\ \A b \in DOMAIN min2 : min2[b].block = min[b].block /\ min2[b].size = min[b].size
    <3>1. Shrunk(maj, min, a, m, maj2, min2)
      BY <1>7, <1>8, <2>5, <2>6 DEF Shrunk
    <3>2. Tables(maj, min)
      BY <1>8
    <3>3. Tables(maj2, min2) /\ Gone(min, a, m, min2)
      BY ONLY <3>1, <3>2, ChunkRemoved
    <3> QED
      BY <3>3 DEF Gone
  <2>8. OwnRuns(maj2, gr)
    BY ONLY <1>8, <2>5, RunsSame
  <2>9. MajorsLinked(maj2, l_memRoot)
    <3>1. \A b \in DOMAIN maj : maj2[b].next = maj[b].next /\ maj2[b].prev = maj[b].prev
      BY <2>3, <2>4
    <3> QED
      BY <1>8, <2>3, <3>1, MajorsSame
  <2>10. \A b \in DOMAIN maj2 : maj2[b].first # 0
    BY <1>8, <2>1, <2>3, <2>6
  <2>11. Freed(u, a, m)
    <3>1. \A b \in DOMAIN maj2 : /\ b \in DOMAIN maj /\ maj2[b].size = maj[b].size
                                 /\ maj2[b].pages = maj[b].pages
      BY <2>3, <2>5 DEF SameRuns
    <3>2. \A b \in DOMAIN maj : maj2[b].usage =
             IF b = m THEN maj[m].usage - (min[a].size + MinorHdr) ELSE maj[b].usage
      BY <2>2, <2>3, <2>4
    <3> QED
      BY <1>1, <1>4, <1>5, <1>6, <1>7, <1>9, <2>1, <2>3, <2>7, <3>1, <3>2 DEF Freed
  <2> QED
    BY <1>6, <1>8, <1>9, <2>1, <2>3, <2>7, <2>8, <2>9, <2>10, <2>11
<1>11. CASE Emptied(u) # {}
  <2>1. /\ maj2 = Unlink(maj, m) /\ l_memRoot' = (IF l_memRoot = m THEN maj[m].next ELSE l_memRoot)
        /\ l_bestBet' = (IF l_bestBet = m THEN 0 ELSE l_bestBet)
        /\ l_allocated' = l_allocated - maj[m].size
        /\ min[a].prev = 0 /\ min[a].next = 0
    BY <1>4, <1>5, <1>6, <1>11 DEF kfree, Emptied, RootWithout, BetWithout
  <2>2. Emptied(u) = {m}
    BY <1>4, <1>5, <1>6, <2>1 DEF Emptied
  <2>3. pages' = gr \ RunOf(maj, m)
    BY <1>6, <2>2 DEF Release, RunOf
  <2>4. PICK maj3 : maj3 = [maj EXCEPT ![m].first = 0]
    OBVIOUS
  <2>5. DOMAIN maj3 = DOMAIN maj /\ \A b \in DOMAIN maj \ {m} : maj3[b] = maj[b]
    BY <2>4
  <2>6. /\ maj3[m] \in MajorHeader /\ maj3[m].first = 0
        /\ maj3[m].size = maj[m].size /\ maj3[m].pages = maj[m].pages
    <3>1. PICK x, y : x \in MajorHeader /\ x = maj[m] /\ y = maj3[m]
      BY <1>8 DEF Tables, Typed
    <3>2. y = [x EXCEPT !.first = 0]
      BY <1>8, <2>4, <3>1
    <3>3. y \in MajorHeader /\ y.first = 0 /\ y.size = x.size /\ y.pages = x.pages
      BY ONLY <3>1, <3>2 DEF MajorHeader
    <3> QED
      BY <3>1, <3>3
  <2>7. SameRuns(maj3, maj, DOMAIN maj)
    BY <1>8, <2>5, <2>6 DEF SameRuns, Tables, Typed
  <2>8. \A b \in DOMAIN maj : maj3[b].first =
           IF b = m /\ min[a].prev = 0 THEN min[a].next ELSE maj[b].first
    BY <2>1, <2>5, <2>6
  <2>9. /\ Tables(maj3, min2)
        /\ \A b \in DOMAIN min2 : min2[b].block = min[b].block /\ min2[b].size = min[b].size
        /\ InBlock(min, m) = {a}
    <3>1. Shrunk(maj, min, a, m, maj3, min2)
      BY <1>7, <1>8, <2>7, <2>8 DEF Shrunk
    <3>2. Tables(maj, min) /\ min[a].prev = 0 /\ min[a].next = 0
      BY <1>8, <2>1
    <3>3. Tables(maj3, min2) /\ Gone(min, a, m, min2)
      BY ONLY <3>1, <3>2, ChunkRemoved
    <3> QED
      BY <3>2, <3>3 DEF Gone
  <2>10. InBlock(min2, m) = {}
    BY <1>9, <2>9 DEF InBlock
  <2>11. OwnRuns(maj3, gr)
    BY ONLY <1>8, <2>7, RunsSame
  <2>12. PICK root2 : root2 = IF l_memRoot = m THEN maj[m].next ELSE l_memRoot
    OBVIOUS
  <2>13. /\ MajorsLinked(maj2, root2) /\ SameRuns(maj2, maj, DOMAIN maj \ {m})
         /\ \A b \in DOMAIN maj2 : maj2[b].first = maj[b].first /\ maj2[b].usage = maj[b].usage
    <3>1. Typed(maj, min) /\ Unlinked(maj, m, l_memRoot, maj2, root2)
      BY <1>8, <2>1, <2>12 DEF Tables, Unlinked
    <3> QED
      BY ONLY <1>8, <3>1, MajorUnlinked
  <2>14. SameRuns(maj2, maj3, DOMAIN maj3 \ {m}) /\ \A b \in DOMAIN maj2 : maj2[b].first = maj3[b].first
    BY <2>5, <2>13 DEF SameRuns
  <2>15. RunOf(maj3, m) = RunOf(maj, m)
    BY <2>6 DEF RunOf
  <2>16. Tables(maj2, min2) /\ OwnRuns(maj2, gr \ RunOf(maj3, m))
    <3>1. m \in DOMAIN maj3
      BY <1>8, <2>5
    <3> QED
      BY ONLY <2>9, <2>10, <2>11, <2>14, <3>1, MajorRemoved
  <2>17. DOMAIN maj2 = DOMAIN maj \ {m}
    BY <2>13 DEF SameRuns
  <2>18. Freed(u, a, m)
    <3>1. \A b \in DOMAIN maj2 : /\ b \in DOMAIN maj /\ maj2[b].size = maj[b].size
                                 /\ maj2[b].pages = maj[b].pages
      BY <2>13 DEF SameRuns
    <3> QED
      BY <1>1, <1>4, <1>5, <1>6, <1>7, <1>9, <2>1, <2>3, <2>9, <2>13, <2>17, <3>1 DEF Freed
  <2> QED
    BY <1>6, <1>8, <1>9, <2>1, <2>3, <2>12, <2>13, <2>15, <2>16, <2>17, <2>18
<1> QED
  BY <1>10, <1>11



-----------------------------------------------------------------------------
(* A chunk shrinks in place *)

LEMMA ShrinkKeeps ==
    ASSUME HeapInv, NEW u \in users, NEW req \in Nat, krealloc_shrinks(u, req)
    PROVE  /\ Tables(major, minor') /\ Held(minor', users')
           /\ DOMAIN minor' = DOMAIN minor
           /\ \A b \in DOMAIN minor : minor'[b].block = minor[b].block
                                      /\ minor'[b].size = minor[b].size
<1>1. PICK a \in DOMAIN minor : u = User(a, minor[a].req)
  BY DEF HeapInv, Held
<1>2. \A b \in DOMAIN minor : b \in Nat /\ minor[b] \in MinorHeader /\ minor[b].req \in Nat
  BY DEF HeapInv, Tables, Typed, MinorHeader
<1>3. \A b \in DOMAIN minor : MinorOf(User(b, minor[b].req)) = b
  BY <1>2, UserLies
<1>4. MinorOf(u) = a /\ u.req = minor[a].req /\ [u EXCEPT !.req = req] = User(a, req)
  BY <1>1, <1>2, UserLies
<1>5. PICK min, min2, maj : min = minor /\ min2 = minor' /\ maj = major
  OBVIOUS
<1>6. /\ min2 = [min EXCEPT ![a].req = req] /\ req <= min[a].req
      /\ users' = (users \ {u}) \cup {User(a, req)}
  BY <1>4, <1>5 DEF krealloc_shrinks
<1>7. DOMAIN min2 = DOMAIN min /\ \A b \in DOMAIN min \ {a} : min2[b] = min[b]
  BY <1>6
<1>8. /\ min2[a] \in MinorHeader /\ min2[a].req = req
      /\ min2[a].block = min[a].block /\ min2[a].size = min[a].size
      /\ min2[a].prev = min[a].prev /\ min2[a].next = min[a].next
  <2>1. PICK x, y : x \in MinorHeader /\ x = min[a] /\ y = min2[a]
    BY <1>2, <1>5
  <2>2. y = [x EXCEPT !.req = req]
    BY <1>1, <1>5, <1>6, <2>1
  <2>3. /\ y \in MinorHeader /\ y.req = req /\ y.block = x.block /\ y.size = x.size
        /\ y.prev = x.prev /\ y.next = x.next
    BY ONLY <2>1, <2>2, req \in Nat DEF MinorHeader
  <2> QED
    BY <2>1, <2>3
<1>9. \A b \in DOMAIN min : /\ min2[b] \in MinorHeader
                            /\ min2[b].block = min[b].block /\ min2[b].size = min[b].size
                            /\ min2[b].prev = min[b].prev /\ min2[b].next = min[b].next
  BY <1>2, <1>5, <1>7, <1>8
<1>10. Typed(maj, min) /\ Chunked(maj, min) /\ ChunksLinked(maj, min)
  BY <1>5 DEF HeapInv, Tables
<1>11. Typed(maj, min2)
  BY <1>7, <1>9, <1>10 DEF Typed
<1>12. Chunked(maj, min2)
  <2>1. \A b \in DOMAIN min : EndOf(min2, b) = EndOf(min, b)
    BY <1>9 DEF EndOf
  <2>2. Size(min2[a].req) <= min2[a].size
    <3>1. Size(min[a].req) <= min[a].size
      BY <1>1, <1>5, <1>10 DEF Chunked
    <3>2. PICK q \in Nat, z \in Nat : q = min[a].req /\ z = min[a].size
      BY <1>1, <1>2, <1>5 DEF MinorHeader
    <3> QED
      BY <1>6, <1>8, <3>1, <3>2, Sizes DEF Size
  <2>3. \A b \in DOMAIN min : Size(min2[b].req) <= min2[b].size
    <3>1. \A b \in DOMAIN min \ {a} : Size(min2[b].req) <= min2[b].size
      BY <1>7, <1>10 DEF Chunked
    <3> QED
      BY <2>2, <3>1
  <2> QED
    BY <1>7, <1>9, <1>10, <2>1, <2>3 DEF Chunked
<1>13. ChunksLinked(maj, min2)
  <2> SUFFICES ASSUME NEW m \in DOMAIN maj
               PROVE  Linked(InBlock(min2, m), Ident(min2), NextOf(min2), PrevOf(min2), maj[m].first)
    BY DEF ChunksLinked
  <2>1. PICK S, pos, nxt, prv, pos2, nxt2, prv2 :
           /\ S = InBlock(min, m) /\ pos = Ident(min) /\ nxt = NextOf(min) /\ prv = PrevOf(min)
           /\ pos2 = Ident(min2) /\ nxt2 = NextOf(min2) /\ prv2 = PrevOf(min2)
    OBVIOUS
  <2>2. InBlock(min2, m) = S
    BY <1>7, <1>9, <2>1 DEF InBlock
  <2>3. S \subseteq DOMAIN min
    BY <2>1 DEF InBlock
  <2>4. \A b \in S : pos2[b] = pos[b] /\ nxt2[b] = nxt[b] /\ prv2[b] = prv[b]
    BY <1>7, <1>9, <2>1, <2>3 DEF Ident, NextOf, PrevOf
  <2>5. Linked(S, pos, nxt, prv, maj[m].first)
    BY <1>10, <2>1 DEF ChunksLinked
  <2>6. Linked(S, pos2, nxt2, prv2, maj[m].first)
    BY <2>4, <2>5, LinkedSame
  <2> QED
    BY <2>1, <2>2, <2>6
<1>14. Held(min2, users')
  <2>1. users = { User(b, min[b].req) : b \in DOMAIN min } /\ u = User(a, min[a].req)
    BY <1>1, <1>5 DEF HeapInv, Held
  <2>2. \A b \in DOMAIN min \ {a} : User(b, min[b].req) # u
    BY <1>1, <1>3, <1>4, <1>5
  <2>3. users \ {u} = { User(b, min[b].req) : b \in DOMAIN min \ {a} }
    BY <2>1, <2>2
  <2>4. { User(b, min2[b].req) : b \in DOMAIN min2 }
          = { User(b, min[b].req) : b \in DOMAIN min \ {a} } \cup {User(a, req)}
    BY <1>1, <1>5, <1>7, <1>8
  <2> QED
    BY <1>6, <2>3, <2>4 DEF Held
<1> QED
  BY <1>5, <1>7, <1>9, <1>11, <1>12, <1>13, <1>14 DEF Tables

-----------------------------------------------------------------------------
(* The invariant *)

LEMMA HeapStarts ==
    ASSUME Init
    PROVE  HeapInv
<1>1. /\ major = <<>> /\ minor = <<>> /\ l_memRoot = 0 /\ l_bestBet = 0
      /\ users = {} /\ pending = {} /\ pages = {} /\ DOMAIN major = {} /\ DOMAIN minor = {}
  BY DEF Init, LiballocInit, NULL
<1>2. Tables(major, minor)
  <2>1. Typed(major, minor)
    BY <1>1, FS_EmptySet DEF Typed
  <2> QED
    BY <1>1, <2>1 DEF Tables, Chunked, ChunksLinked
<1>3. MajorsLinked(major, l_memRoot)
  <2>1. InOrder(major, l_memRoot, <<>>, 0)
    BY <1>1 DEF InOrder, Linked, First
  <2> QED
    BY <2>1 DEF MajorsLinked
<1>4. Held(minor, users)
  BY <1>1 DEF Held
<1>5. OwnRuns(major, pages)
  BY <1>1 DEF OwnRuns
<1> QED
  BY <1>1, <1>2, <1>3, <1>4, <1>5 DEF HeapInv, BestBetIsLive, NULL

(* kmalloc, alone or in a krealloc. *)
Allocates(req) ==
    \/ kmalloc_fits(req) /\ UNCHANGED pages
    \/ Grow(req)
    \/ kmalloc_fails(req) /\ UNCHANGED pages

(* kmalloc keeps every part of the invariant, whichever way it finds room. *)
LEMMA AllocKeeps ==
    ASSUME HeapInv, NEW req \in Requests, Allocates(req)
    PROVE  /\ Tables(major', minor') /\ OwnRuns(major', pages')
           /\ MajorsLinked(major', l_memRoot')
           /\ \A b \in DOMAIN major' : major'[b].first # 0
           /\ Held(minor', users') /\ users \subseteq users'
           /\ l_bestBet' \in DOMAIN major' \cup {0}
<1> USE DEF NULL
<1>1. PICK maj, gr, ro : maj = major /\ gr = pages /\ ro = l_memRoot
  OBVIOUS
<1>2. /\ Tables(maj, minor) /\ OwnRuns(maj, gr) /\ MajorsLinked(maj, ro)
      /\ Held(minor, users) /\ \A b \in DOMAIN maj : maj[b].first # 0
  BY <1>1 DEF HeapInv
<1>3. CASE kmalloc_fits(req) /\ UNCHANGED pages
  <2>1. PICK m, p, n, a : Placed(maj, m, p, n, a, req)
    BY <1>1, <1>3, FitsPlaces
  <2>2. m \in DOMAIN maj /\ users \subseteq users'
    BY <2>1 DEF Placed, Gap
  <2>3. /\ \A b \in DOMAIN maj \ {m} : maj[b].first # 0
        /\ maj[m].first # 0 \/ InBlock(minor, m) = {}
    BY <1>2, <2>2
  <2>4. /\ Tables(major', minor') /\ OwnRuns(major', gr)
        /\ MajorsLinked(major', ro) /\ Held(minor', users')
        /\ \A b \in DOMAIN major' : major'[b].first # 0
        /\ DOMAIN major' = DOMAIN maj
    BY ONLY <1>2, <2>1, <2>3, PlacedKeeps, req \in Requests
  <2>5. l_bestBet' \in DOMAIN maj \cup {0} /\ l_memRoot' = l_memRoot
    BY <1>1, <1>3, FitsPlaces
  <2> QED
    BY <1>1, <1>3, <2>2, <2>4, <2>5
<1>4. CASE Grow(req)
  <2>1. PICK mj, base :
              /\ Enlarged(mj, base, req)
              /\ Tables(mj, minor) /\ OwnRuns(mj, pages') /\ MajorsLinked(mj, l_memRoot')
              /\ InBlock(minor, base) = {}
              /\ Placed(mj, base, 0, 0, base + MajorHdr, req)
              /\ l_bestBet' \in DOMAIN mj \cup {0}
    BY <1>4, GrowsPlaces
  <2>2. users \subseteq users'
    BY <2>1 DEF Placed
  <2>3. /\ \A b \in DOMAIN mj \ {base} : mj[b].first # 0
        /\ mj[base].first # 0 \/ InBlock(minor, base) = {}
    BY <1>1, <1>2, <2>1 DEF Enlarged
  <2>4. PICK gr2, ro2, z, a : gr2 = pages' /\ ro2 = l_memRoot' /\ z = 0 /\ a = base + MajorHdr
    OBVIOUS
  <2>5. /\ Tables(mj, minor) /\ OwnRuns(mj, gr2) /\ MajorsLinked(mj, ro2)
        /\ Held(minor, users) /\ Placed(mj, base, z, z, a, req)
    BY <1>2, <2>1, <2>4
  <2>6. /\ Tables(major', minor') /\ OwnRuns(major', gr2)
        /\ MajorsLinked(major', ro2) /\ Held(minor', users')
        /\ \A b \in DOMAIN major' : major'[b].first # 0
        /\ DOMAIN major' = DOMAIN mj
    BY ONLY <2>3, <2>5, PlacedKeeps, req \in Requests
  <2> QED
    BY <2>1, <2>2, <2>4, <2>6
<1>5. CASE kmalloc_fails(req) /\ UNCHANGED pages
  <2>1. PICK order : order = IF l_memRoot = NULL THEN <<>> ELSE SearchOrder(req)
    OBVIOUS
  <2>2. /\ UNCHANGED <<major, minor, l_memRoot, users, pages>>
        /\ l_bestBet' = BestAfter(order)
    BY <1>5, <2>1 DEF kmalloc_fails
  <2>3. order \in Seq(DOMAIN major)
    <3>1. <<>> \in Seq(DOMAIN major)
      OBVIOUS
    <3> QED
      BY <2>1, <3>1, OrderVisitsAll
  <2> QED
    BY <1>1, <1>2, <2>2, <2>3, BestIsLive
<1> QED
  BY <1>3, <1>4, <1>5 DEF Allocates

(* Every step of every caller keeps the invariant. *)
LEMMA HeapStays ==
    ASSUME HeapInv, [Next]_vars
    PROVE  HeapInv'
<1> USE DEF NULL
<1>1. CASE UNCHANGED vars
  <2>1. UNCHANGED <<major, minor, l_memRoot, l_bestBet, users, pending, pages>>
    BY <1>1 DEF vars
  <2> QED
    BY <2>1 DEF HeapInv, BestBetIsLive
<1>2. ASSUME NEW req \in Requests, Kmalloc(req)
      PROVE  HeapInv'
  <2>1. Allocates(req) /\ UNCHANGED pending
    BY <1>2 DEF Kmalloc, Allocates
  <2> QED
    BY <2>1, AllocKeeps DEF HeapInv, BestBetIsLive
<1>3. ASSUME NEW u \in users, Kfree(u)
      PROVE  HeapInv'
  <2>1. kfree(u) /\ Release(u) /\ pending' = {}
    BY <1>3 DEF Kfree, Idle
  <2> QED
    BY <2>1, KfreeKeeps DEF HeapInv, BestBetIsLive
<1>4. ASSUME NEW u \in users, NEW req \in Requests, KreallocShrink(u, req)
      PROVE  HeapInv'
  <2>1. /\ krealloc_shrinks(u, req) /\ pending' = {} /\ req \in Nat
        /\ UNCHANGED <<major, l_memRoot, l_bestBet, pages>>
    BY <1>4, HeapAssumption DEF KreallocShrink, Idle, krealloc_shrinks
  <2>2. Tables(major, minor') /\ Held(minor', users')
    BY <2>1, ShrinkKeeps
  <2> QED
    BY <2>1, <2>2 DEF HeapInv, BestBetIsLive
<1>5. ASSUME NEW u \in users, NEW req \in Requests, KreallocAlloc(u, req)
      PROVE  HeapInv'
  <2>1. Allocates(req) /\ pending' = {u}
    BY <1>5 DEF KreallocAlloc, Allocates
  <2> QED
    BY <2>1, AllocKeeps DEF HeapInv, BestBetIsLive
<1>6. CASE KreallocFree
  <2>1. PICK u \in pending : kfree(u) /\ Release(u) /\ pending' = {}
    BY <1>6 DEF KreallocFree
  <2>2. u \in users
    BY DEF HeapInv
  <2> QED
    BY <2>1, <2>2, KfreeKeeps DEF HeapInv, BestBetIsLive
<1> QED
  BY <1>1, <1>2, <1>3, <1>4, <1>5, <1>6 DEF Next

(* Through any sequence of kmalloc, krealloc and kfree the majors lie in    *)
(* granted runs of their own, the chunks in their majors without overlap,   *)
(* both kinds of lists are linked both ways in order, no major is empty,    *)
(* and the callers hold exactly the chunks there are.                       *)
THEOREM HeapInvariant == Spec => []HeapInv
<1>1. Init => HeapInv
  BY HeapStarts
<1>2. HeapInv /\ [Next]_vars => HeapInv'
  BY HeapStays
<1> QED
  BY <1>1, <1>2, PTL DEF Spec

(* What kmalloc and krealloc hand out is aligned, granted, and clear of     *)
(* every header, other caller and info byte.                                *)
THEOREM HeapUsersSeparate == Spec => []UsersAreSeparate
<1>1. HeapInv => UsersAreSeparate
  BY SeparateUsers
<1> QED
  BY <1>1, HeapInvariant, PTL

(* kfree and krealloc find the header of the chunk a caller holds.          *)
THEOREM HeapUsersHaveHeaders == Spec => []UsersHaveHeaders
<1>1. HeapInv => UsersHaveHeaders
  BY HeadersFound
<1> QED
  BY <1>1, HeapInvariant, PTL

(* The lists of the heap are linked both ways, complete, and in address     *)
(* order without overlap.                                                   *)
THEOREM HeapListsSound == Spec => []ListsAreSound
<1>1. HeapInv => ListsAreSound
  BY SoundLists
<1> QED
  BY <1>1, HeapInvariant, PTL

(* The best bet never dangles.                                              *)
THEOREM HeapBestBetLive == Spec => []BestBetIsLive
<1>1. HeapInv => BestBetIsLive
  BY DEF HeapInv
<1> QED
  BY <1>1, HeapInvariant, PTL

-----------------------------------------------------------------------------
(* The counts *)

SizesOf(table) == [b \in DOMAIN table |-> table[b].size]
PagesOf(maj) == [m \in DOMAIN maj |-> maj[m].pages]
SpentOf(min) == [a \in DOMAIN min |-> min[a].size + MinorHdr]

UsageExact(maj, min) ==
    \A m \in DOMAIN maj : maj[m].usage = MajorHdr + SumOf(SpentOf(min), InBlock(min, m))

(* The usage of a major, the two totals and the pages held agree with the   *)
(* tables.                                                                  *)
CountInv ==
    /\ UsageExact(major, minor)
    /\ l_inuse = SumOf(SizesOf(minor), DOMAIN minor)
    /\ l_allocated = SumOf(SizesOf(major), DOMAIN major)
    /\ Cardinality(pages) = SumOf(PagesOf(major), DOMAIN major)

(* What is summed are naturals, over finite sets. *)
LEMMA Summands ==
    ASSUME NEW maj, NEW min, Typed(maj, min)
    PROVE  /\ \A a \in DOMAIN min : /\ SizesOf(min)[a] = min[a].size /\ min[a].size \in Nat
                                    /\ SpentOf(min)[a] = min[a].size + MinorHdr
                                    /\ min[a].size + MinorHdr \in Nat
           /\ \A m \in DOMAIN maj : /\ SizesOf(maj)[m] = maj[m].size /\ maj[m].size \in Nat
                                    /\ PagesOf(maj)[m] = maj[m].pages /\ maj[m].pages \in Nat
                                    /\ IsFiniteSet(InBlock(min, m))
           /\ IsFiniteSet(DOMAIN maj) /\ IsFiniteSet(DOMAIN min)
<1>1. /\ \A a \in DOMAIN min : min[a].size \in Nat
      /\ \A m \in DOMAIN maj : maj[m].size \in Nat /\ maj[m].pages \in Nat
  BY DEF Typed, MinorHeader, MajorHeader
<1>2. IsFiniteSet(DOMAIN maj) /\ IsFiniteSet(DOMAIN min)
  BY DEF Typed
<1>3. ASSUME NEW m PROVE IsFiniteSet(InBlock(min, m))
  <2>1. InBlock(min, m) \in SUBSET DOMAIN min
    BY DEF InBlock
  <2> QED
    BY <1>2, <2>1, FS_Subset
<1>4. \A a \in DOMAIN min : min[a].size + MinorHdr \in Nat
  BY <1>1, Sizes
<1> QED
  BY <1>1, <1>2, <1>3, <1>4 DEF SizesOf, SpentOf, PagesOf

(* The sums the properties speak of are the sums above.                     *)
LEMMA SumIterAll ==
    ASSUME NEW g, NEW S, IsFiniteSet(S), \A x \in S : g[x] \in Int,
           NEW it, SumIter(g, S, it)
    PROVE  it[S] = SumOf(g, S)
<1>1. PICK jt : SumIter(g, S, jt) /\ SumOf(g, S) = jt[S]
  BY SumIsIter
<1>2. \A T \in SUBSET S : T \subseteq S /\ (\A x \in T : g[x] = g[x]) => it[T] = jt[T]
  BY <1>1, SumIterSame
<1> QED
  BY <1>1, <1>2

SpentIter(S, f) ==
    f = [s \in SUBSET S |->
            IF s = {} THEN 0
            ELSE (minor[CHOOSE x \in s : TRUE].size + MinorHdr) + f[s \ {CHOOSE x \in s : TRUE}]]

(* The sums of Heap, with LAMBDA, are those of the lemmas, over functions:  *)
(* the bytes of chunks and headers ...                                      *)
LEMMA SpentSum ==
    ASSUME Typed(major, minor), NEW S \in SUBSET DOMAIN minor
    PROVE  MapThenSumSet(LAMBDA a : minor[a].size + MinorHdr, S) = SumOf(SpentOf(minor), S)
<1> PICK g : g = SpentOf(minor)
  OBVIOUS
<1>1. IsFiniteSet(S) /\ \A x \in S : g[x] \in Int /\ g[x] = minor[x].size + MinorHdr
  BY Summands, FS_Subset
<1>2. ASSUME NEW f PROVE SpentIter(S, f) <=> SumIter(g, S, f)
  <2>1. \A s \in SUBSET S :
           (IF s = {} THEN 0
            ELSE (minor[CHOOSE x \in s : TRUE].size + MinorHdr) + f[s \ {CHOOSE x \in s : TRUE}])
           = (IF s = {} THEN 0
              ELSE g[CHOOSE x \in s : TRUE] + f[s \ {CHOOSE x \in s : TRUE}])
    <3> TAKE s \in SUBSET S
    <3>1. PICK w : w = CHOOSE x \in s : TRUE
      OBVIOUS
    <3>2. s # {} => w \in s /\ w \in S
      BY <3>1
    <3> QED
      BY <1>1, <3>1, <3>2
  <2> QED
    BY <2>1, Zenon DEF SpentIter, SumIter
<1> DEFINE f == CHOOSE f : SpentIter(S, f)
<1>3. SpentIter(S, f)
  <2>1. \E it : SumIter(g, S, it)
    BY <1>1, SumIterExists
  <2> QED
    BY <1>2, <2>1, Zenon
<1>4. MapThenSumSet(LAMBDA a : minor[a].size + MinorHdr, S) = f[S]
  BY Zenon DEF MapThenSumSet, MapThenFoldSet, SpentIter
<1> HIDE DEF f
<1>5. SumIter(g, S, f)
  BY <1>2, <1>3
<1>6. f[S] = SumOf(g, S)
  BY <1>1, <1>5, SumIterAll
<1> QED
  BY <1>4, <1>6


InUseIter(S, f) ==
    f = [s \in SUBSET S |->
            IF s = {} THEN 0
            ELSE minor[CHOOSE x \in s : TRUE].size + f[s \ {CHOOSE x \in s : TRUE}]]

(* ... the bytes in use ... *)
LEMMA InUseSum ==
    ASSUME Typed(major, minor), NEW S, S = DOMAIN minor
    PROVE  MapThenSumSet(LAMBDA a : minor[a].size, S) = SumOf(SizesOf(minor), S)
<1> PICK g : g = SizesOf(minor)
  OBVIOUS
<1>1. IsFiniteSet(S) /\ \A x \in S : g[x] \in Int /\ g[x] = minor[x].size
  BY Summands
<1>2. ASSUME NEW f PROVE InUseIter(S, f) <=> SumIter(g, S, f)
  <2>1. \A s \in SUBSET S :
           (IF s = {} THEN 0
            ELSE minor[CHOOSE x \in s : TRUE].size + f[s \ {CHOOSE x \in s : TRUE}])
           = (IF s = {} THEN 0
              ELSE g[CHOOSE x \in s : TRUE] + f[s \ {CHOOSE x \in s : TRUE}])
    <3> TAKE s \in SUBSET S
    <3>1. PICK w : w = CHOOSE x \in s : TRUE
      OBVIOUS
    <3>2. s # {} => w \in s /\ w \in S
      BY <3>1
    <3> QED
      BY <1>1, <3>1, <3>2
  <2> QED
    BY <2>1, Zenon DEF InUseIter, SumIter
<1> DEFINE f == CHOOSE f : InUseIter(S, f)
<1>3. InUseIter(S, f)
  <2>1. \E it : SumIter(g, S, it)
    BY <1>1, SumIterExists
  <2> QED
    BY <1>2, <2>1, Zenon
<1>4. MapThenSumSet(LAMBDA a : minor[a].size, S) = f[S]
  BY Zenon DEF MapThenSumSet, MapThenFoldSet, InUseIter
<1> HIDE DEF f
<1>5. SumIter(g, S, f)
  BY <1>2, <1>3
<1>6. f[S] = SumOf(g, S)
  BY <1>1, <1>5, SumIterAll
<1> QED
  BY <1>4, <1>6

AllocatedIter(S, f) ==
    f = [s \in SUBSET S |->
            IF s = {} THEN 0
            ELSE major[CHOOSE x \in s : TRUE].size + f[s \ {CHOOSE x \in s : TRUE}]]

(* ... the bytes of the majors ... *)
LEMMA AllocatedSum ==
    ASSUME Typed(major, minor), NEW S, S = DOMAIN major
    PROVE  MapThenSumSet(LAMBDA a : major[a].size, S) = SumOf(SizesOf(major), S)
<1> PICK g : g = SizesOf(major)
  OBVIOUS
<1>1. IsFiniteSet(S) /\ \A x \in S : g[x] \in Int /\ g[x] = major[x].size
  BY Summands
<1>2. ASSUME NEW f PROVE AllocatedIter(S, f) <=> SumIter(g, S, f)
  <2>1. \A s \in SUBSET S :
           (IF s = {} THEN 0
            ELSE major[CHOOSE x \in s : TRUE].size + f[s \ {CHOOSE x \in s : TRUE}])
           = (IF s = {} THEN 0
              ELSE g[CHOOSE x \in s : TRUE] + f[s \ {CHOOSE x \in s : TRUE}])
    <3> TAKE s \in SUBSET S
    <3>1. PICK w : w = CHOOSE x \in s : TRUE
      OBVIOUS
    <3>2. s # {} => w \in s /\ w \in S
      BY <3>1
    <3> QED
      BY <1>1, <3>1, <3>2
  <2> QED
    BY <2>1, Zenon DEF AllocatedIter, SumIter
<1> DEFINE f == CHOOSE f : AllocatedIter(S, f)
<1>3. AllocatedIter(S, f)
  <2>1. \E it : SumIter(g, S, it)
    BY <1>1, SumIterExists
  <2> QED
    BY <1>2, <2>1, Zenon
<1>4. MapThenSumSet(LAMBDA a : major[a].size, S) = f[S]
  BY Zenon DEF MapThenSumSet, MapThenFoldSet, AllocatedIter
<1> HIDE DEF f
<1>5. SumIter(g, S, f)
  BY <1>2, <1>3
<1>6. f[S] = SumOf(g, S)
  BY <1>1, <1>5, SumIterAll
<1> QED
  BY <1>4, <1>6

PagesIter(S, f) ==
    f = [s \in SUBSET S |->
            IF s = {} THEN 0
            ELSE major[CHOOSE x \in s : TRUE].pages + f[s \ {CHOOSE x \in s : TRUE}]]

(* ... and the pages. *)
LEMMA PagesSum ==
    ASSUME Typed(major, minor), NEW S, S = DOMAIN major
    PROVE  MapThenSumSet(LAMBDA a : major[a].pages, S) = SumOf(PagesOf(major), S)
<1> PICK g : g = PagesOf(major)
  OBVIOUS
<1>1. IsFiniteSet(S) /\ \A x \in S : g[x] \in Int /\ g[x] = major[x].pages
  BY Summands
<1>2. ASSUME NEW f PROVE PagesIter(S, f) <=> SumIter(g, S, f)
  <2>1. \A s \in SUBSET S :
           (IF s = {} THEN 0
            ELSE major[CHOOSE x \in s : TRUE].pages + f[s \ {CHOOSE x \in s : TRUE}])
           = (IF s = {} THEN 0
              ELSE g[CHOOSE x \in s : TRUE] + f[s \ {CHOOSE x \in s : TRUE}])
    <3> TAKE s \in SUBSET S
    <3>1. PICK w : w = CHOOSE x \in s : TRUE
      OBVIOUS
    <3>2. s # {} => w \in s /\ w \in S
      BY <3>1
    <3> QED
      BY <1>1, <3>1, <3>2
  <2> QED
    BY <2>1, Zenon DEF PagesIter, SumIter
<1> DEFINE f == CHOOSE f : PagesIter(S, f)
<1>3. PagesIter(S, f)
  <2>1. \E it : SumIter(g, S, it)
    BY <1>1, SumIterExists
  <2> QED
    BY <1>2, <2>1, Zenon
<1>4. MapThenSumSet(LAMBDA a : major[a].pages, S) = f[S]
  BY Zenon DEF MapThenSumSet, MapThenFoldSet, PagesIter
<1> HIDE DEF f
<1>5. SumIter(g, S, f)
  BY <1>2, <1>3
<1>6. f[S] = SumOf(g, S)
  BY <1>1, <1>5, SumIterAll
<1> QED
  BY <1>4, <1>6


(* The counts of the headers are the sums, so a major that counts as empty  *)
(* has no chunk.                                                            *)
LEMMA CountsFollow ==
    ASSUME HeapInv, CountInv
    PROVE  CountsAreExact /\ EmptyMajorsGoBack
<1>1. Typed(major, minor)
  BY DEF HeapInv, Tables
<1>2. ASSUME NEW m \in DOMAIN major
      PROVE  major[m].usage = MajorHdr +
                MapThenSumSet(LAMBDA a : minor[a].size + MinorHdr,
                              { a \in DOMAIN minor : minor[a].block = m })
  <2>1. PICK S : S = InBlock(minor, m)
    OBVIOUS
  <2>2. S \in SUBSET DOMAIN minor /\ S = { a \in DOMAIN minor : minor[a].block = m }
    BY <2>1 DEF InBlock
  <2>3. major[m].usage = MajorHdr + SumOf(SpentOf(minor), S)
    BY <2>1 DEF CountInv, UsageExact
  <2>4. MapThenSumSet(LAMBDA a : minor[a].size + MinorHdr, S) = SumOf(SpentOf(minor), S)
    BY <1>1, <2>2, SpentSum
  <2> QED
    BY <2>2, <2>3, <2>4
<1>3. l_inuse = MapThenSumSet(LAMBDA a : minor[a].size, DOMAIN minor)
  BY <1>1, InUseSum DEF CountInv
<1>4. l_allocated = MapThenSumSet(LAMBDA m : major[m].size, DOMAIN major)
  BY <1>1, AllocatedSum DEF CountInv
<1>5. Cardinality(pages) = MapThenSumSet(LAMBDA m : major[m].pages, DOMAIN major)
  BY <1>1, PagesSum DEF CountInv
<1>6. \A m \in DOMAIN major : major[m].first # NULL
  BY DEF HeapInv
<1> QED
  BY <1>2, <1>3, <1>4, <1>5, <1>6 DEF CountsAreExact, EmptyMajorsGoBack


(* The counts after a chunk was placed. *)
LEMMA GrownCounts ==
    ASSUME NEW maj, NEW min, Typed(maj, min), UsageExact(maj, min), NEW maj2, NEW min2,
           NEW m, NEW p, NEW n, NEW a, NEW r, r \in Nat,
           Grown(maj, min, maj2, min2, m, p, n, a, r)
    PROVE  /\ UsageExact(maj2, min2)
           /\ SumOf(SizesOf(min2), DOMAIN min2) = SumOf(SizesOf(min), DOMAIN min) + Size(r)
           /\ SumOf(SizesOf(maj2), DOMAIN maj2) = SumOf(SizesOf(maj), DOMAIN maj)
           /\ SumOf(PagesOf(maj2), DOMAIN maj2) = SumOf(PagesOf(maj), DOMAIN maj)
<1>1. /\ a \notin DOMAIN min /\ DOMAIN maj2 = DOMAIN maj /\ DOMAIN min2 = DOMAIN min \cup {a}
      /\ \A b \in DOMAIN maj :
            /\ maj2[b].size = maj[b].size /\ maj2[b].pages = maj[b].pages
            /\ maj2[b].usage = IF b = m THEN maj[b].usage + Need(r) ELSE maj[b].usage
      /\ min2[a].block = m /\ min2[a].size = Size(r)
      /\ \A b \in DOMAIN min : min2[b].block = min[b].block /\ min2[b].size = min[b].size
  BY DEF Grown, Header
<1>2. PICK g, h : g = SpentOf(min) /\ h = SpentOf(min2)
  OBVIOUS
<1>3. PICK w \in Nat : w = Size(r) + MinorHdr /\ w = Need(r)
  BY Sizes DEF Size, Need
<1>4. h[a] = w /\ \A b \in DOMAIN min : g[b] \in Int /\ h[b] = g[b]
  BY <1>1, <1>2, <1>3, Summands DEF SpentOf
<1>5. ASSUME NEW b \in DOMAIN maj, b # m
      PROVE  maj2[b].usage = MajorHdr + SumOf(h, InBlock(min2, b))
  <2>1. InBlock(min2, b) = InBlock(min, b) /\ InBlock(min, b) \subseteq DOMAIN min
    BY <1>1, <1>5 DEF InBlock
  <2>2. SumOf(g, InBlock(min, b)) = SumOf(h, InBlock(min, b))
    <3>1. IsFiniteSet(InBlock(min, b)) /\ \A x \in InBlock(min, b) : g[x] = h[x]
      BY <1>4, <2>1, Summands
    <3> QED
      BY <3>1, SumSame
  <2>3. maj[b].usage = MajorHdr + SumOf(g, InBlock(min, b))
    BY <1>2 DEF UsageExact
  <2> QED
    BY <1>1, <1>5, <2>1, <2>2, <2>3
<1>6. ASSUME m \in DOMAIN maj
      PROVE  maj2[m].usage = MajorHdr + SumOf(h, InBlock(min2, m))
  <2>1. PICK S : S = InBlock(min, m)
    OBVIOUS
  <2>2. InBlock(min2, m) = S \cup {a} /\ S \subseteq DOMAIN min /\ a \notin S
    BY <1>1, <2>1 DEF InBlock
  <2>3. /\ IsFiniteSet(S) /\ \A x \in S : g[x] \in Int /\ h[x] = g[x]
        /\ h[a] \in Int
    BY <1>3, <1>4, <1>6, <2>1, <2>2, Summands
  <2>4. SumOf(h, S \cup {a}) = SumOf(g, S) + h[a] /\ SumOf(g, S) \in Int
    BY <2>2, <2>3, SumAdd
  <2>5. maj[m].usage = MajorHdr + SumOf(g, S)
    BY <1>2, <1>6, <2>1 DEF UsageExact
  <2> QED
    BY <1>1, <1>3, <1>4, <1>6, <2>2, <2>4, <2>5, Sizes
<1>7. UsageExact(maj2, min2)
  BY <1>1, <1>2, <1>5, <1>6 DEF UsageExact
<1>8. SumOf(SizesOf(min2), DOMAIN min2) = SumOf(SizesOf(min), DOMAIN min) + Size(r)
  <2>1. PICK G, H, S : G = SizesOf(min) /\ H = SizesOf(min2) /\ S = DOMAIN min
    OBVIOUS
  <2>2. Size(r) \in Nat
    BY Sizes DEF Size
  <2>3. /\ IsFiniteSet(S) /\ a \notin S /\ H[a] = Size(r)
        /\ \A x \in S : G[x] \in Int /\ H[x] = G[x]
    BY <1>1, <2>1, Summands DEF SizesOf
  <2>4. SumOf(H, S \cup {a}) = SumOf(G, S) + H[a]
    <3>1. /\ IsFiniteSet(S) /\ a \notin S /\ \A x \in S : G[x] \in Int
          /\ H[a] \in Int /\ \A x \in S : H[x] = G[x]
      BY <2>2, <2>3
    <3> QED
      BY ONLY <3>1, SumAdd
  <2> QED
    BY <1>1, <2>1, <2>3, <2>4
<1>9. /\ SumOf(SizesOf(maj2), DOMAIN maj2) = SumOf(SizesOf(maj), DOMAIN maj)
      /\ SumOf(PagesOf(maj2), DOMAIN maj2) = SumOf(PagesOf(maj), DOMAIN maj)
  <2>1. PICK G, H, P, Q, S : /\ G = SizesOf(maj) /\ H = SizesOf(maj2)
                             /\ P = PagesOf(maj) /\ Q = PagesOf(maj2) /\ S = DOMAIN maj
    OBVIOUS
  <2>2. IsFiniteSet(S) /\ \A x \in S : G[x] = H[x] /\ P[x] = Q[x]
    BY <1>1, <2>1, Summands DEF SizesOf, PagesOf
  <2>3. SumOf(G, S) = SumOf(H, S) /\ SumOf(P, S) = SumOf(Q, S)
    BY <2>2, SumSame
  <2> QED
    BY <1>1, <2>1, <2>3
<1> QED
  BY <1>7, <1>8, <1>9

(* A run of k pages has k pages. *)
LEMMA RunCount ==
    ASSUME NEW f \in Nat, NEW k \in Nat
    PROVE  IsFiniteSet(PageRun(f, k)) /\ Cardinality(PageRun(f, k)) = k
<1>1. PICK e \in Int : e = f + k - 1
  OBVIOUS
<1>2. IsFiniteSet(f .. e) /\ Cardinality(f .. e) = IF f > e THEN 0 ELSE e - f + 1
  BY FS_Interval
<1>3. PageRun(f, k) = f .. e
  BY <1>1 DEF PageRun
<1> QED
  BY <1>1, <1>2, <1>3

(* The counts after an empty major was added. *)
LEMMA EnlargedCounts ==
    ASSUME HeapInv, CountInv, NEW req \in Nat, NEW maj, NEW base, Enlarged(maj, base, req),
           Tables(maj, minor), InBlock(minor, base) = {}
    PROVE  /\ UsageExact(maj, minor)
           /\ l_allocated' = SumOf(SizesOf(maj), DOMAIN maj)
           /\ Cardinality(pages') = SumOf(PagesOf(maj), DOMAIN maj)
<1>1. Typed(major, minor) /\ Typed(maj, minor)
  BY DEF HeapInv, Tables
<1>2. PICK k \in Nat : k = PagesFor(req)
  BY PagesSuffice
<1>3. /\ base \notin DOMAIN major /\ DOMAIN maj = DOMAIN major \cup {base}
      /\ maj[base].usage = MajorHdr /\ maj[base].pages = k /\ maj[base].size = k * PageSize
      /\ \A b \in DOMAIN major :
            /\ maj[b].usage = major[b].usage
            /\ maj[b].size = major[b].size /\ maj[b].pages = major[b].pages
      /\ l_allocated' = l_allocated + k * PageSize
  BY <1>2 DEF Enlarged
<1>4. PICK f \in Nat : pages' = pages \cup PageRun(f, k) /\ pages \cap PageRun(f, k) = {}
  BY <1>2 DEF Enlarged
<1>5. UsageExact(maj, minor)
  <2>1. maj[base].usage = MajorHdr + SumOf(SpentOf(minor), InBlock(minor, base))
    BY <1>3, SumEmpty, Sizes
  <2> QED
    BY <1>3, <2>1 DEF CountInv, UsageExact
<1>6. PICK G, H, P, Q, S : /\ G = SizesOf(major) /\ H = SizesOf(maj)
                           /\ P = PagesOf(major) /\ Q = PagesOf(maj) /\ S = DOMAIN major
  OBVIOUS
<1>7. k * PageSize \in Nat
  BY Sizes
<1>8. /\ IsFiniteSet(S) /\ base \notin S
      /\ \A x \in S : /\ G[x] \in Int /\ H[x] = G[x] /\ P[x] \in Int /\ Q[x] = P[x]
      /\ H[base] = k * PageSize /\ Q[base] = k
  BY <1>1, <1>3, <1>6, Summands DEF SizesOf, PagesOf
<1>9. SumOf(H, S \cup {base}) = SumOf(G, S) + H[base]
  <2>1. /\ IsFiniteSet(S) /\ base \notin S /\ \A x \in S : G[x] \in Int
        /\ H[base] \in Int /\ \A x \in S : H[x] = G[x]
    BY <1>7, <1>8
  <2> QED
    BY ONLY <2>1, SumAdd
<1>10. SumOf(Q, S \cup {base}) = SumOf(P, S) + Q[base]
  <2>1. /\ IsFiniteSet(S) /\ base \notin S /\ \A x \in S : P[x] \in Int
        /\ Q[base] \in Int /\ \A x \in S : Q[x] = P[x]
    BY <1>8
  <2> QED
    BY ONLY <2>1, SumAdd
<1>11. Cardinality(pages') = Cardinality(pages) + k
  <2>1. IsFiniteSet(pages)
    <3>1. IsFiniteSet(1 .. HeapPages) /\ pages \in SUBSET (1 .. HeapPages)
      BY FS_Interval, Sizes DEF HeapInv, OwnRuns
    <3> QED
      BY <3>1, FS_Subset
  <2>2. IsFiniteSet(PageRun(f, k)) /\ Cardinality(PageRun(f, k)) = k
    BY RunCount
  <2>3. Cardinality(pages \cup PageRun(f, k)) = Cardinality(pages) + Cardinality(PageRun(f, k))
           - Cardinality(pages \cap PageRun(f, k))
    BY <2>1, <2>2, FS_Union
  <2>4. Cardinality(pages \cap PageRun(f, k)) = 0
    BY <1>4, FS_EmptySet
  <2>5. Cardinality(pages) \in Nat
    BY <2>1, FS_CardinalityType
  <2> QED
    BY <1>4, <2>2, <2>3, <2>4, <2>5
<1> QED
  BY <1>3, <1>5, <1>6, <1>8, <1>9, <1>10, <1>11 DEF CountInv


(* The counts after kfree.                                                  *)
LEMMA FreedCounts ==
    ASSUME HeapInv, CountInv, NEW u, NEW a, NEW m, Freed(u, a, m),
           Tables(major', minor')
    PROVE  CountInv'
<1>1. PICK maj, min, maj2, min2 : maj = major /\ min = minor /\ maj2 = major' /\ min2 = minor'
  OBVIOUS
<1>2. Typed(maj, min) /\ Typed(maj2, min2) /\ Chunked(maj2, min2) /\ UsageExact(maj, min)
  BY <1>1 DEF HeapInv, Tables, CountInv
<1>3. /\ a \in DOMAIN min /\ m \in DOMAIN maj /\ m = min[a].block
      /\ DOMAIN min2 = DOMAIN min \ {a}
      /\ \A b \in DOMAIN min2 : min2[b].block = min[b].block /\ min2[b].size = min[b].size
      /\ \A b \in DOMAIN maj2 : /\ b \in DOMAIN maj /\ maj2[b].size = maj[b].size
                                /\ maj2[b].pages = maj[b].pages
      /\ l_inuse' = l_inuse - min[a].size
  BY <1>1 DEF Freed
<1>4. PICK g, h : g = SpentOf(min) /\ h = SpentOf(min2)
  OBVIOUS
<1>5. \A b \in DOMAIN min : g[b] = min[b].size + MinorHdr /\ g[b] \in Int
  BY <1>2, <1>4, Summands
<1>6. \A b \in DOMAIN min2 : h[b] = g[b]
  BY <1>2, <1>3, <1>4, Summands
<1>7. ASSUME NEW b \in DOMAIN maj
      PROVE  SumOf(h, InBlock(min2, b)) = SumOf(g, InBlock(min2, b))
  <2>1. InBlock(min2, b) \subseteq DOMAIN min2 /\ InBlock(min2, b) \in SUBSET DOMAIN min
    BY <1>3 DEF InBlock
  <2>2. IsFiniteSet(InBlock(min2, b))
    BY <1>2, <2>1, FS_Subset DEF Typed
  <2>3. \A x \in InBlock(min2, b) : h[x] = g[x]
    BY <1>6, <2>1
  <2> QED
    BY <2>2, <2>3, SumSame
<1>8. \A b \in DOMAIN maj : b # m => InBlock(min2, b) = InBlock(min, b)
  BY <1>3 DEF InBlock
<1>9. InBlock(min2, m) = InBlock(min, m) \ {a} /\ a \in InBlock(min, m)
  BY <1>3 DEF InBlock
<1>10. /\ SumOf(g, InBlock(min2, m)) = SumOf(g, InBlock(min, m)) - g[a]
       /\ SumOf(g, InBlock(min2, m)) \in Int
  <2>1. PICK S : S = InBlock(min, m)
    OBVIOUS
  <2>2. IsFiniteSet(S) /\ \A x \in S : g[x] \in Int
    BY <1>2, <1>3, <1>5, <2>1, Summands DEF InBlock
  <2>3. SumOf(g, S \ {a}) = SumOf(g, S) - g[a] /\ SumOf(g, S \ {a}) \in Int
    BY <1>9, <2>1, <2>2, SumMinus
  <2> QED
    BY <1>9, <2>1, <2>3
<1>11. \A b \in DOMAIN maj : maj[b].usage = MajorHdr + SumOf(g, InBlock(min, b))
  BY <1>2, <1>4 DEF UsageExact
<1>12. l_inuse' = SumOf(SizesOf(min2), DOMAIN min2)
  <2>1. PICK G, H, S, T : /\ G = SizesOf(min) /\ H = SizesOf(min2)
                          /\ S = DOMAIN min /\ T = S \ {a}
    OBVIOUS
  <2>2. /\ IsFiniteSet(S) /\ IsFiniteSet(T) /\ \A x \in S : G[x] \in Int
        /\ \A x \in T : G[x] = H[x]
        /\ G[a] = min[a].size
    BY <1>2, <1>3, <2>1, Summands, FS_RemoveElement
  <2>3. SumOf(G, S \ {a}) = SumOf(G, S) - G[a]
    BY <1>3, <2>1, <2>2, SumMinus
  <2>4. SumOf(G, T) = SumOf(H, T)
    BY <2>2, SumSame
  <2>5. l_inuse = SumOf(G, S)
    BY <1>1, <2>1 DEF CountInv
  <2> QED
    BY <1>3, <2>1, <2>2, <2>3, <2>4, <2>5
<1>13. PICK G, H, P, Q, S : /\ G = SizesOf(maj) /\ H = SizesOf(maj2)
                            /\ P = PagesOf(maj) /\ Q = PagesOf(maj2) /\ S = DOMAIN maj
  OBVIOUS
<1>14. /\ IsFiniteSet(S) /\ \A x \in S : /\ G[x] = maj[x].size /\ G[x] \in Int
                                        /\ P[x] = maj[x].pages /\ P[x] \in Int
       /\ \A x \in DOMAIN maj2 : G[x] = H[x] /\ P[x] = Q[x]
  BY <1>2, <1>3, <1>13, Summands
<1>15. l_allocated = SumOf(G, S) /\ Cardinality(pages) = SumOf(P, S)
  BY <1>1, <1>13 DEF CountInv
<1>16. CASE /\ DOMAIN major' = DOMAIN major /\ pages' = pages
            /\ l_allocated' = l_allocated
            /\ \A b \in DOMAIN major : major'[b].usage =
                  IF b = m THEN major[m].usage - (minor[a].size + MinorHdr) ELSE major[b].usage
  <2>1. UsageExact(maj2, min2)
    <3>1. ASSUME NEW b \in DOMAIN maj, b # m
          PROVE  maj2[b].usage = MajorHdr + SumOf(h, InBlock(min2, b))
      BY <1>1, <1>7, <1>8, <1>11, <1>16, <3>1
    <3>2. maj2[m].usage = MajorHdr + SumOf(h, InBlock(min2, m))
      <4>1. maj2[m].usage = maj[m].usage - g[a] /\ g[a] \in Int
        BY <1>1, <1>3, <1>5, <1>16
      <4>2. PICK s, t, d : s = SumOf(g, InBlock(min, m)) /\ t = SumOf(g, InBlock(min2, m)) /\ d = g[a]
        OBVIOUS
      <4>3. maj[m].usage = MajorHdr + s /\ t = s - d /\ t \in Int /\ d \in Int
        BY <1>3, <1>10, <1>11, <4>1, <4>2
      <4>4. s \in Int
        <5>1. \A x \in InBlock(min, m) : g[x] \in Nat
          BY <1>2, <1>4, Summands DEF InBlock
        <5>2. IsFiniteSet(InBlock(min, m))
          BY <1>2, <1>3, Summands
        <5> QED
          BY <4>2, <5>1, <5>2, SumType
      <4> QED
        <5>1. SumOf(h, InBlock(min2, m)) = t /\ maj2[m].usage = maj[m].usage - d
          BY <1>3, <1>7, <4>1, <4>2
        <5>2. PICK us, us2 : us = maj[m].usage /\ us2 = maj2[m].usage
          OBVIOUS
        <5>3. us2 = us - d /\ us = MajorHdr + s /\ t = s - d
          BY <4>3, <5>1, <5>2
        <5>4. us2 = MajorHdr + t
          BY ONLY <4>3, <4>4, <5>3, Sizes
        <5> QED
          BY <5>1, <5>2, <5>4
    <3> QED
      BY <1>1, <1>4, <1>16, <3>1, <3>2 DEF UsageExact
  <2>2. SumOf(G, S) = SumOf(H, S) /\ SumOf(P, S) = SumOf(Q, S)
    BY <1>1, <1>13, <1>14, <1>16, SumSame
  <2> QED
    BY <1>1, <1>12, <1>13, <1>15, <1>16, <2>1, <2>2 DEF CountInv
<1>17. CASE /\ DOMAIN major' = DOMAIN major \ {m} /\ pages' = pages \ RunOf(major, m)
            /\ l_allocated' = l_allocated - major[m].size
            /\ \A b \in DOMAIN major' : major'[b].usage = major[b].usage
  <2>1. UsageExact(maj2, min2)
    BY <1>1, <1>4, <1>7, <1>8, <1>11, <1>17 DEF UsageExact
  <2>2. PICK T : T = S \ {m}
    OBVIOUS
  <2>3. T = DOMAIN maj2 /\ IsFiniteSet(T) /\ m \in S
    BY <1>1, <1>3, <1>13, <1>14, <1>17, <2>2, FS_RemoveElement
  <2>4. SumOf(G, T) = SumOf(H, T) /\ SumOf(P, T) = SumOf(Q, T)
    BY <1>14, <2>3, SumSame
  <2>5. SumOf(G, S \ {m}) = SumOf(G, S) - G[m]
    BY <1>14, <2>3, SumMinus
  <2>6. SumOf(P, S \ {m}) = SumOf(P, S) - P[m]
    BY <1>14, <2>3, SumMinus
  <2>7. Cardinality(pages') = Cardinality(pages) - P[m]
    <3>1. IsFiniteSet(pages)
      <4>1. IsFiniteSet(1 .. HeapPages) /\ pages \in SUBSET (1 .. HeapPages)
        BY FS_Interval, Sizes DEF HeapInv, OwnRuns
      <4> QED
        BY <4>1, FS_Subset
    <3>2. RunOf(maj, m) \subseteq pages
      BY <1>1, <1>3 DEF HeapInv, OwnRuns
    <3>3. Cardinality(RunOf(maj, m)) = P[m]
      <4>1. m \div PageSize \in Nat /\ maj[m].pages \in Nat
        <5>1. m \in Nat /\ maj[m].pages \in Nat
          BY <1>2, <1>3, Summands DEF Typed
        <5>2. PageSize \in Nat \ {0}
          BY Sizes
        <5> QED
          BY <5>1, <5>2, DivModNat
      <4> QED
        BY <1>3, <1>13, <1>14, <4>1, RunCount DEF RunOf
    <3>4. Cardinality(pages \ RunOf(maj, m)) = Cardinality(pages) - Cardinality(pages \cap RunOf(maj, m))
      BY <3>1, FS_Difference
    <3>5. pages \cap RunOf(maj, m) = RunOf(maj, m)
      BY <3>2
    <3> QED
      BY <1>1, <1>17, <3>3, <3>4, <3>5
  <2> QED
    BY <1>1, <1>3, <1>12, <1>13, <1>14, <1>15, <1>17, <2>1, <2>2, <2>3, <2>4, <2>5, <2>6, <2>7 DEF CountInv
<1> QED
  BY <1>16, <1>17 DEF Freed


(* The counts after kmalloc.                                                *)
LEMMA AllocCounts ==
    ASSUME HeapInv, CountInv, NEW req \in Requests, Allocates(req)
    PROVE  CountInv'
<1> USE DEF NULL
<1>0. req \in Nat
  BY HeapAssumption
<1>1. PICK maj, min, maj2, min2, gr : /\ maj = major /\ min = minor /\ maj2 = major'
                                      /\ min2 = minor' /\ gr = pages
  OBVIOUS
<1>2. /\ Tables(maj, min) /\ Typed(maj, min) /\ OwnRuns(maj, gr) /\ MajorsLinked(maj, l_memRoot)
      /\ Held(minor, users) /\ \A b \in DOMAIN maj : maj[b].first # 0
      /\ UsageExact(maj, min) /\ l_inuse = SumOf(SizesOf(min), DOMAIN min)
      /\ l_allocated = SumOf(SizesOf(maj), DOMAIN maj)
      /\ Cardinality(gr) = SumOf(PagesOf(maj), DOMAIN maj)
  BY <1>1 DEF HeapInv, Tables, CountInv
<1>3. CASE kmalloc_fits(req) /\ UNCHANGED pages
  <2>1. PICK m, p, n, a : Placed(maj, m, p, n, a, req)
    BY <1>1, <1>3, FitsPlaces
  <2>2. m \in DOMAIN maj /\ l_inuse' = l_inuse + Size(req)
    BY <2>1 DEF Placed, Gap
  <2>3. /\ \A b \in DOMAIN maj \ {m} : maj[b].first # 0
        /\ maj[m].first # 0 \/ InBlock(minor, m) = {}
    BY <1>2, <2>2
  <2>4. Grown(maj, min, maj2, min2, m, p, n, a, req)
    <3>1. Tables(maj, minor)
      BY <1>1, <1>2
    <3>2. Grown(maj, minor, major', minor', m, p, n, a, req)
      BY ONLY <1>2, <2>1, <2>3, <3>1, PlacedKeeps, req \in Requests
    <3> QED
      BY <1>1, <3>2
  <2>5. /\ UsageExact(maj2, min2)
        /\ SumOf(SizesOf(min2), DOMAIN min2) = SumOf(SizesOf(min), DOMAIN min) + Size(req)
        /\ SumOf(SizesOf(maj2), DOMAIN maj2) = SumOf(SizesOf(maj), DOMAIN maj)
        /\ SumOf(PagesOf(maj2), DOMAIN maj2) = SumOf(PagesOf(maj), DOMAIN maj)
    BY ONLY <1>0, <1>2, <2>4, GrownCounts
  <2>6. l_allocated' = l_allocated
    BY <1>3, FitsPlaces
  <2> QED
    BY <1>1, <1>2, <1>3, <2>2, <2>5, <2>6 DEF CountInv
<1>4. CASE Grow(req)
  <2>1. PICK mj, base :
              /\ Enlarged(mj, base, req)
              /\ Tables(mj, minor) /\ OwnRuns(mj, pages') /\ MajorsLinked(mj, l_memRoot')
              /\ InBlock(minor, base) = {}
              /\ Placed(mj, base, 0, 0, base + MajorHdr, req)
    BY <1>4, GrowsPlaces
  <2>2. /\ UsageExact(mj, min)
        /\ l_allocated' = SumOf(SizesOf(mj), DOMAIN mj)
        /\ Cardinality(pages') = SumOf(PagesOf(mj), DOMAIN mj)
    BY <1>0, <1>1, <2>1, EnlargedCounts
  <2>3. /\ \A b \in DOMAIN mj \ {base} : mj[b].first # 0
        /\ mj[base].first # 0 \/ InBlock(minor, base) = {}
    BY <1>1, <1>2, <2>1 DEF Enlarged
  <2>4. PICK gr2, ro2, z, a : gr2 = pages' /\ ro2 = l_memRoot' /\ z = 0 /\ a = base + MajorHdr
    OBVIOUS
  <2>5. /\ Tables(mj, minor) /\ OwnRuns(mj, gr2) /\ MajorsLinked(mj, ro2)
        /\ Held(minor, users) /\ Placed(mj, base, z, z, a, req)
    BY <1>2, <2>1, <2>4
  <2>6. Grown(mj, min, maj2, min2, base, z, z, a, req)
    <3>1. Grown(mj, minor, major', minor', base, z, z, a, req)
      BY ONLY <2>3, <2>5, PlacedKeeps, req \in Requests
    <3> QED
      BY <1>1, <3>1
  <2>7. Typed(mj, min)
    BY <1>1, <2>1 DEF Tables
  <2>8. /\ UsageExact(maj2, min2)
        /\ SumOf(SizesOf(min2), DOMAIN min2) = SumOf(SizesOf(min), DOMAIN min) + Size(req)
        /\ SumOf(SizesOf(maj2), DOMAIN maj2) = SumOf(SizesOf(mj), DOMAIN mj)
        /\ SumOf(PagesOf(maj2), DOMAIN maj2) = SumOf(PagesOf(mj), DOMAIN mj)
    BY ONLY <1>0, <2>2, <2>6, <2>7, GrownCounts
  <2>9. l_inuse' = l_inuse + Size(req)
    BY <2>1 DEF Placed
  <2> QED
    BY <1>1, <1>2, <2>2, <2>8, <2>9 DEF CountInv
<1>5. CASE kmalloc_fails(req) /\ UNCHANGED pages
  <2>1. UNCHANGED <<major, minor, l_inuse, l_allocated, pages>>
    BY <1>5 DEF kmalloc_fails
  <2> QED
    BY <2>1 DEF CountInv
<1> QED
  BY <1>3, <1>4, <1>5 DEF Allocates

(* krealloc to a smaller size changes no count. *)
LEMMA ShrinkCounts ==
    ASSUME HeapInv, CountInv, NEW u \in users, NEW req \in Nat, krealloc_shrinks(u, req),
           UNCHANGED pages
    PROVE  CountInv'
<1>1. PICK min, min2 : min = minor /\ min2 = minor'
  OBVIOUS
<1>2. /\ DOMAIN min2 = DOMAIN min
      /\ \A b \in DOMAIN min : min2[b].block = min[b].block /\ min2[b].size = min[b].size
  BY <1>1, ShrinkKeeps
<1>3. SpentOf(min2) = SpentOf(min)
  BY <1>2 DEF SpentOf
<1>4. SizesOf(min2) = SizesOf(min)
  BY <1>2 DEF SizesOf
<1>5. \A m : InBlock(min2, m) = InBlock(min, m)
  BY <1>2 DEF InBlock
<1>6. UNCHANGED <<major, l_allocated, l_inuse, pages>>
  BY DEF krealloc_shrinks
<1>7. UsageExact(major, min2)
  BY <1>1, <1>3, <1>5 DEF CountInv, UsageExact
<1> QED
  BY <1>1, <1>2, <1>4, <1>6, <1>7 DEF CountInv

LEMMA CountsStart ==
    ASSUME Init
    PROVE  CountInv
<1>1. /\ major = <<>> /\ minor = <<>> /\ DOMAIN major = {} /\ DOMAIN minor = {}
      /\ l_inuse = 0 /\ l_allocated = 0 /\ pages = {}
  BY DEF Init, LiballocInit
<1>2. Cardinality(pages) = 0
  BY <1>1, FS_EmptySet
<1> QED
  BY <1>1, <1>2, SumEmpty DEF CountInv, UsageExact

(* Every step keeps the counts equal to the sums. *)
LEMMA CountsStay ==
    ASSUME HeapInv, CountInv, [Next]_vars
    PROVE  CountInv'
<1>1. CASE UNCHANGED vars
  <2>1. UNCHANGED <<major, minor, l_inuse, l_allocated, pages>>
    BY <1>1 DEF vars
  <2> QED
    BY <2>1 DEF CountInv
<1>2. ASSUME NEW req \in Requests, Kmalloc(req)
      PROVE  CountInv'
  BY <1>2, AllocCounts DEF Kmalloc, Allocates
<1>3. ASSUME NEW u \in users, kfree(u), Release(u)
      PROVE  CountInv'
  BY <1>3, KfreeKeeps, FreedCounts
<1>4. ASSUME NEW u \in users, NEW req \in Requests, KreallocShrink(u, req)
      PROVE  CountInv'
  <2>1. krealloc_shrinks(u, req) /\ req \in Nat /\ UNCHANGED pages
    BY <1>4, HeapAssumption DEF KreallocShrink
  <2> QED
    BY <2>1, ShrinkCounts
<1>5. ASSUME NEW u \in users, NEW req \in Requests, KreallocAlloc(u, req)
      PROVE  CountInv'
  BY <1>5, AllocCounts DEF KreallocAlloc, Allocates
<1>6. CASE \E u \in users : Kfree(u)
  BY <1>3, <1>6 DEF Kfree
<1>7. CASE KreallocFree
  BY <1>3, <1>7 DEF KreallocFree, HeapInv
<1> QED
  BY <1>1, <1>2, <1>4, <1>5, <1>6, <1>7 DEF Next

(* The usage of each major, the bytes in use, the bytes allocated and the   *)
(* number of pages held are what the tables add up to.                      *)
THEOREM CountInvariant == Spec => []CountInv
<1>1. Init => CountInv
  BY CountsStart
<1>2. HeapInv /\ CountInv /\ [Next]_vars => CountInv'
  BY CountsStay
<1> QED
  BY <1>1, <1>2, HeapInvariant, PTL DEF Spec

(* The byte counts that steer the search agree with the lists.              *)
THEOREM HeapCountsExact == Spec => []CountsAreExact
<1>1. HeapInv /\ CountInv => CountsAreExact
  BY CountsFollow
<1> QED
  BY <1>1, HeapInvariant, CountInvariant, PTL

(* No major stays behind empty, and the pages held are those of the majors. *)
THEOREM HeapGivesBack == Spec => []EmptyMajorsGoBack
<1>1. HeapInv /\ CountInv => EmptyMajorsGoBack
  BY CountsFollow
<1> QED
  BY <1>1, HeapInvariant, CountInvariant, PTL


(* The counts never go below zero, since they are sums. *)
LEMMA TypeFollows ==
    ASSUME HeapInv, CountInv
    PROVE  TypeOK
<1> USE DEF NULL
<1>1. Tables(major, minor) /\ Typed(major, minor) /\ OwnRuns(major, pages)
  BY DEF HeapInv, Tables
<1>2. PICK limit \in Nat : limit = (HeapPages + 1) * PageSize
  BY Sizes
<1>3. Addr = 0 .. limit
  BY <1>2 DEF Addr
<1>4. \A m \in DOMAIN major : m \in Nat /\ m # 0 /\ major[m] \in MajorHeader
  BY <1>1 DEF Typed
<1>5. \A m \in DOMAIN major : /\ major[m].size \in Nat /\ major[m].pages \in Nat
                              /\ major[m].usage \in Int
  BY <1>4 DEF MajorHeader
<1>6. \A a \in DOMAIN minor : a \in Nat /\ a # 0 /\ minor[a] \in MinorHeader
  BY <1>1 DEF Typed
<1>7. \A a \in DOMAIN minor : minor[a].size \in Nat /\ minor[a].req \in Nat
  BY <1>6 DEF MinorHeader
<1>8. \A m \in DOMAIN major : m + major[m].size <= limit
  BY <1>1, <1>2, MajorsApart
<1>9. DOMAIN major \subseteq Addr \ {0}
  BY <1>3, <1>4, <1>5, <1>8
<1>10. ASSUME NEW a \in DOMAIN minor
       PROVE  a \in Addr \ {0} /\ minor[a].block \in Addr /\ minor[a].block \in DOMAIN major
  <2>1. PICK m \in DOMAIN major : m = minor[a].block
    BY <1>1 DEF Tables, Chunked
  <2>2. EndOf(minor, a) <= m + major[m].size
    BY <1>1, <2>1 DEF Tables, Chunked
  <2>3. a + MinorHdr + minor[a].size <= m + major[m].size /\ m + major[m].size <= limit
    BY <1>8, <2>2 DEF EndOf
  <2>4. a <= limit
    BY <1>4, <1>5, <1>6, <1>7, <2>3, Sizes
  <2> QED
    BY <1>3, <1>6, <1>9, <2>1, <2>4
<1>11. 0 \in Addr
  BY <1>3
<1>12. /\ l_memRoot \in DOMAIN major \cup {0}
       /\ \A m \in DOMAIN major : /\ major[m].next \in DOMAIN major \cup {0}
                                  /\ major[m].prev \in DOMAIN major \cup {0}
  <2>1. PICK pos, last : InOrder(major, l_memRoot, pos, last)
    BY DEF HeapInv, MajorsLinked
  <2>2. PICK S, nxt, prv : S = DOMAIN major /\ nxt = NextOf(major) /\ prv = PrevOf(major)
    OBVIOUS
  <2>3. Linked(S, pos, nxt, prv, l_memRoot)
    BY <2>1, <2>2 DEF InOrder
  <2>4. /\ l_memRoot \in S \cup {0}
        /\ \A m \in S : nxt[m] \in S \cup {0} /\ prv[m] \in S \cup {0}
    BY <2>3 DEF Linked, First, After, Before
  <2>5. \A m \in S : nxt[m] = major[m].next /\ prv[m] = major[m].prev
    BY <2>2 DEF NextOf, PrevOf
  <2> QED
    BY <2>2, <2>4, <2>5
<1>13. ASSUME NEW m \in DOMAIN major
       PROVE  /\ major[m].first \in DOMAIN minor \cup {0}
              /\ \A a \in InBlock(minor, m) : /\ minor[a].next \in DOMAIN minor \cup {0}
                                              /\ minor[a].prev \in DOMAIN minor \cup {0}
  <2>1. PICK S, pos, nxt, prv : /\ S = InBlock(minor, m) /\ pos = Ident(minor)
                                /\ nxt = NextOf(minor) /\ prv = PrevOf(minor)
    OBVIOUS
  <2>2. Linked(S, pos, nxt, prv, major[m].first)
    BY <1>1, <2>1 DEF Tables, ChunksLinked
  <2>3. /\ major[m].first \in S \cup {0}
        /\ \A a \in S : nxt[a] \in S \cup {0} /\ prv[a] \in S \cup {0}
    BY <2>2 DEF Linked, First, After, Before
  <2>4. S \subseteq DOMAIN minor /\ \A a \in S : nxt[a] = minor[a].next /\ prv[a] = minor[a].prev
    BY <2>1 DEF InBlock, NextOf, PrevOf
  <2> QED
    BY <2>1, <2>3, <2>4
<1>14. \A m \in DOMAIN major : major[m].usage \in Nat
  <2> TAKE m \in DOMAIN major
  <2>1. SumOf(SpentOf(minor), InBlock(minor, m)) \in Nat
    <3>1. PICK g, S : g = SpentOf(minor) /\ S = InBlock(minor, m)
      OBVIOUS
    <3>2. \A x \in DOMAIN minor : g[x] \in Nat
      BY <1>1, <3>1, Summands
    <3>3. IsFiniteSet(S)
      BY <1>1, <3>1, Summands
    <3>4. \A x \in S : g[x] \in Nat
      BY <3>1, <3>2 DEF InBlock
    <3> QED
      BY <3>1, <3>3, <3>4, SumType
  <2>2. major[m].usage = MajorHdr + SumOf(SpentOf(minor), InBlock(minor, m))
    BY DEF CountInv, UsageExact
  <2> QED
    BY <2>1, <2>2, Sizes
<1>15. l_inuse \in Nat /\ l_allocated \in Nat
  <2>1. PICK g, h, S, T : /\ g = SizesOf(minor) /\ h = SizesOf(major)
                          /\ S = DOMAIN minor /\ T = DOMAIN major
    OBVIOUS
  <2>2. /\ IsFiniteSet(S) /\ \A x \in S : g[x] \in Nat
        /\ IsFiniteSet(T) /\ \A x \in T : h[x] \in Nat
    BY <1>1, <2>1, Summands
  <2>3. SumOf(g, S) \in Nat /\ SumOf(h, T) \in Nat
    BY <2>2, SumType
  <2> QED
    BY <2>1, <2>3 DEF CountInv
<1>16. ASSUME NEW m \in DOMAIN major
       PROVE  major[m] \in [prev : Addr, next : Addr, first : Addr,
                            pages : Nat, size : Nat, usage : Nat]
  <2>1. PICK x : x = major[m] /\ x \in MajorHeader
    BY <1>4
  <2>2. /\ x.prev \in Addr /\ x.next \in Addr /\ x.first \in Addr
        /\ x.pages \in Nat /\ x.size \in Nat /\ x.usage \in Nat
    BY <1>5, <1>9, <1>10, <1>11, <1>12, <1>13, <1>14, <2>1
  <2>3. x \in [prev : Addr, next : Addr, first : Addr, pages : Nat, size : Nat, usage : Nat]
    BY ONLY <2>1, <2>2 DEF MajorHeader
  <2> QED
    BY <2>1, <2>3
<1>17. ASSUME NEW a \in DOMAIN minor
       PROVE  minor[a] \in [block : Addr, prev : Addr, next : Addr, size : Nat, req : Nat]
  <2>1. PICK x : x = minor[a] /\ x \in MinorHeader
    BY <1>6
  <2>2. minor[a].next \in DOMAIN minor \cup {0} /\ minor[a].prev \in DOMAIN minor \cup {0}
    <3>1. a \in InBlock(minor, minor[a].block) /\ minor[a].block \in DOMAIN major
      BY <1>10 DEF InBlock
    <3> QED
      BY <1>13, <3>1
  <2>3. /\ x.prev \in Addr /\ x.next \in Addr /\ x.block \in Addr
        /\ x.size \in Nat /\ x.req \in Nat
    BY <1>7, <1>10, <1>11, <2>1, <2>2
  <2>4. x \in [block : Addr, prev : Addr, next : Addr, size : Nat, req : Nat]
    BY ONLY <2>1, <2>3 DEF MinorHeader
  <2> QED
    BY <2>1, <2>4
<1>18. pages \subseteq 1 .. HeapPages /\ pending \subseteq users
  BY DEF HeapInv, OwnRuns
<1>19. DOMAIN minor \subseteq Addr \ {0}
  BY <1>10
<1> QED
  BY <1>9, <1>12, <1>15, <1>16, <1>17, <1>18, <1>19 DEF TypeOK

(* The tables hold headers at addresses of the window.                      *)
THEOREM HeapTypeOK == Spec => []TypeOK
<1>1. HeapInv /\ CountInv => TypeOK
  BY TypeFollows
<1> QED
  BY <1>1, HeapInvariant, CountInvariant, PTL


-----------------------------------------------------------------------------
(* When the heap grows *)

(* The chunks of a major, so its header lies in it.                         *)
LEMMA MajorRoom ==
    ASSUME HeapInv, NEW m \in DOMAIN major
    PROVE  m + MajorHdr <= m + major[m].size
<1>1. Tables(major, minor) /\ major[m].first # 0
  BY DEF HeapInv, NULL
<1>2. PICK a \in DOMAIN minor : minor[a].block = m
  BY <1>1 DEF Tables, ChunksLinked, Linked, First, InBlock
<1>3. m + MajorHdr <= a /\ EndOf(minor, a) <= m + major[m].size
  BY <1>1, <1>2 DEF Tables, Chunked
<1>4. a \in Nat /\ minor[a].size \in Nat /\ m \in Nat /\ major[m].size \in Nat
  BY <1>1, Summands DEF Tables, Typed
<1> QED
  BY <1>3, <1>4, Sizes DEF EndOf

(* A gap is never wider than what the counts say is free.                   *)
LEMMA GapWithinFree ==
    ASSUME HeapInv, CountInv, NEW m \in DOMAIN major, NEW p \in InBlock(minor, m) \cup {0}
    PROVE  GapAfter(m, p) \in Int /\ GapAfter(m, p) <= FreeBytes(m)
<1> USE DEF NULL
<1>1. /\ Tables(major, minor) /\ Typed(major, minor) /\ OwnRuns(major, pages)
      /\ Chunked(major, minor)
  BY DEF HeapInv, Tables
<1>2. PICK S, g : S = InBlock(minor, m) /\ g = SpentOf(minor)
  OBVIOUS
<1>3. PICK lo \in Nat, hi \in Nat : lo = m + MajorHdr /\ hi = m + major[m].size
  <2>1. m \in Nat /\ major[m].size \in Nat
    BY <1>1, Summands DEF Typed
  <2> QED
    BY <2>1, Sizes
<1>4. /\ IsFiniteSet(S)
      /\ \A x \in S : x \in Nat /\ x # 0 /\ g[x] \in Nat /\ x + g[x] = EndOf(minor, x)
  <2>1. S \subseteq DOMAIN minor /\ IsFiniteSet(S)
    BY <1>1, <1>2, Summands DEF InBlock
  <2>2. \A x \in DOMAIN minor : /\ x \in Nat /\ x # 0 /\ minor[x].size \in Nat
                                /\ g[x] = minor[x].size + MinorHdr /\ g[x] \in Nat
    <3>1. \A x \in DOMAIN minor : x \in Nat /\ x # 0
      BY <1>1 DEF Typed
    <3>2. \A x \in DOMAIN minor : /\ minor[x].size \in Nat /\ minor[x].size + MinorHdr \in Nat
                                  /\ g[x] = minor[x].size + MinorHdr
      BY <1>1, <1>2, Summands
    <3> QED
      BY <3>1, <3>2
  <2>3. \A x \in DOMAIN minor : x + g[x] = EndOf(minor, x)
    BY <2>2, Sizes DEF EndOf
  <2> QED
    BY <2>1, <2>2, <2>3
<1>5. /\ \A x \in S : lo <= x /\ x + g[x] <= hi
      /\ \A x, y \in S : x < y => x + g[x] <= y
  <2>1. \A x \in S : x \in DOMAIN minor /\ minor[x].block = m
    BY <1>2 DEF InBlock
  <2> QED
    BY <1>1, <1>3, <1>4, <2>1 DEF Chunked
<1>6. PICK start : start = IF p = 0 THEN lo ELSE p + g[p]
  OBVIOUS
<1>7. PICK nx : nx = IF p = 0 THEN major[m].first ELSE minor[p].next
  OBVIOUS
<1>8. /\ nx \in S \cup {0} /\ start \in Nat /\ lo <= start
      /\ \A x \in S : x < start \/ start <= x
      /\ \A x \in S : x < start => x + g[x] <= start
      /\ \A x \in S : start <= x => nx # 0 /\ nx <= x
      /\ start <= IF nx = 0 THEN hi ELSE nx
  <2>1. PICK pos, nxt, prv : pos = Ident(minor) /\ nxt = NextOf(minor) /\ prv = PrevOf(minor)
    OBVIOUS
  <2>2. Linked(S, pos, nxt, prv, major[m].first)
    BY <1>1, <1>2, <2>1 DEF Tables, ChunksLinked
  <2>3. \A x \in S : pos[x] = x /\ nxt[x] = minor[x].next
    BY <1>2, <2>1 DEF InBlock, Ident, NextOf
  <2>4. CASE p = 0
    <3>1. start = lo /\ nx = major[m].first /\ First(S, pos, nx)
      BY <1>6, <1>7, <2>2, <2>4 DEF Linked
    <3>2. nx \in S \cup {0} /\ \A x \in S : nx # 0 /\ nx <= x
      BY <2>3, <3>1 DEF First
    <3>3. lo <= hi
      BY <1>3, MajorRoom
    <3> QED
      BY <1>3, <1>4, <1>5, <3>1, <3>2, <3>3
  <2>5. CASE p # 0
    <3>1. p \in S
      BY <1>2, <2>5
    <3>2. start = p + g[p] /\ nx = minor[p].next /\ After(S, pos, p, nx)
      BY <1>6, <1>7, <2>2, <2>3, <2>5, <3>1 DEF Linked
    <3>3. nx \in S \cup {0} /\ (nx # 0 => p < nx)
      BY <2>3, <3>1, <3>2 DEF After
    <3>4. \A x \in S : x <= p \/ (nx # 0 /\ nx <= x)
      BY <2>3, <3>1, <3>2 DEF After
    <3>5. g[p] > 0
      BY <1>1, <1>2, <3>1, Summands, Sizes DEF InBlock
    <3>6. \A x \in S : x < start => x + g[x] <= start
      <4> TAKE x \in S
      <4>1. CASE x < p
        BY <1>4, <1>5, <3>1, <3>2, <4>1
      <4>2. CASE x = p
        BY <1>4, <3>1, <3>2, <4>2
      <4>3. CASE p < x
        BY <1>4, <1>5, <3>1, <3>2, <4>3
      <4> QED
        BY <1>4, <3>1, <4>1, <4>2, <4>3
    <3>7. \A x \in S : start <= x => nx # 0 /\ nx <= x
      BY <1>4, <3>1, <3>2, <3>4, <3>5
    <3>8. start <= IF nx = 0 THEN hi ELSE nx
      BY <1>4, <1>5, <3>1, <3>2, <3>3
    <3>9. start \in Nat /\ lo <= start
      BY <1>3, <1>4, <1>5, <3>1, <3>2
    <3> QED
      BY <1>4, <3>3, <3>6, <3>7, <3>8, <3>9
  <2> QED
    BY <2>4, <2>5
<1>9. PICK stop \in Nat : stop = (IF nx = 0 THEN hi ELSE nx) /\ start <= stop
  BY <1>3, <1>4, <1>8
<1>10. stop <= hi
  <2>1. nx # 0 => nx <= hi
    BY <1>3, <1>4, <1>5, <1>8
  <2> QED
    BY <1>9, <1>3, <2>1
<1>11. GapAfter(m, p) = stop - start
  <2>1. p # 0 => p + MinorHdr + minor[p].size = p + g[p]
    BY <1>2, <1>4 DEF EndOf
  <2> QED
    BY <1>3, <1>6, <1>7, <1>9, <2>1 DEF GapAfter
<1>12. PICK sum \in Nat : sum = SumOf(g, S)
  BY <1>4, SumType
<1>13. FreeBytes(m) = hi - lo - sum
  <2>1. major[m].usage = MajorHdr + sum
    BY <1>2, <1>12 DEF CountInv, UsageExact
  <2>2. major[m].size \in Nat /\ m \in Nat
    BY <1>1, Summands DEF Typed
  <2> QED
    BY <1>3, <2>1, <2>2, Sizes DEF FreeBytes
<1>14. CASE start = stop
  <2>1. sum <= hi - lo
    <3>1. S \in SUBSET Int /\ lo <= hi
      BY <1>4, <1>8, <1>9, <1>10
    <3>2. \A x \in S : g[x] \in Nat
      BY <1>4
    <3> QED
      BY <1>4, <1>5, <1>12, <3>1, <3>2, SumSpan
  <2> QED
    BY <1>11, <1>13, <1>14, <2>1
<1>15. CASE start # stop
  <2>1. start \notin S
    <3> SUFFICES ASSUME start \in S PROVE FALSE
      OBVIOUS
    <3>1. nx # 0 /\ nx <= start
      BY <1>8
    <3> QED
      BY <1>4, <1>8, <1>9, <1>15, <3>1
  <2>2. PICK T : T = S \cup {start}
    OBVIOUS
  <2>3. PICK gap \in Nat : gap = stop - start
    <3>1. start \in Nat /\ start <= stop
      BY <1>8, <1>9
    <3>2. stop - start \in Nat
      BY <3>1
    <3> QED
      BY <3>2
  <2>4. PICK h : h = [x \in T |-> IF x = start THEN gap ELSE g[x]]
    OBVIOUS
  <2>5. h[start] = gap /\ \A x \in S : h[x] = g[x]
    BY <2>1, <2>2, <2>4
  <2>6. SumOf(h, T) = sum + gap
    <3>1. /\ IsFiniteSet(S) /\ start \notin S /\ \A x \in S : g[x] \in Int
          /\ h[start] \in Int /\ \A x \in S : h[x] = g[x]
      BY <1>4, <2>1, <2>3, <2>5
    <3> PICK z : z = start
      OBVIOUS
    <3>2. /\ IsFiniteSet(S) /\ z \notin S /\ \A x \in S : g[x] \in Int
          /\ h[z] \in Int /\ \A x \in S : h[x] = g[x]
      BY <3>1
    <3>3. SumOf(h, S \cup {z}) = SumOf(h, S) + h[z]
      <4>1. IsFiniteSet(S) /\ z \notin S /\ \A x \in S \cup {z} : h[x] \in Int
        BY <3>2
      <4> QED
        BY ONLY <4>1, SumPlus
    <3>4. SumOf(g, S) = SumOf(h, S)
      <4>1. IsFiniteSet(S) /\ \A x \in S : g[x] = h[x]
        BY <3>2
      <4> QED
        BY ONLY <4>1, SumSame
    <3> QED
      BY <1>12, <2>2, <2>5, <3>3, <3>4
  <2>7. T \in SUBSET Int /\ IsFiniteSet(T) /\ \A x \in T : h[x] \in Nat
    BY <1>4, <1>8, <2>2, <2>5, FS_AddElement
  <2>8. \A x \in T : lo <= x /\ x + h[x] <= hi
    <3>1. lo <= start /\ start + h[start] <= hi
      BY <1>8, <1>10, <2>3, <2>5
    <3>2. \A x \in S : lo <= x /\ x + h[x] <= hi
      BY <1>5, <2>5
    <3> QED
      BY <2>2, <3>1, <3>2
  <2>9. \A x, y \in T : x < y => x + h[x] <= y
    <3>1. ASSUME NEW y \in S, start < y PROVE start + h[start] <= y
      <4>1. nx # 0 /\ nx <= y
        BY <1>4, <1>8, <3>1
      <4> QED
        <5>1. stop <= y /\ start \in Nat /\ y \in Nat /\ h[start] = gap
          BY <1>4, <1>8, <1>9, <2>5, <4>1
        <5>2. start + gap = stop
          BY <2>3, <5>1
        <5> QED
          BY <5>1, <5>2
    <3>2. \A x \in S : x < start => x + h[x] <= start
      BY <1>8, <2>5
    <3>3. \A x, y \in S : x < y => x + h[x] <= y
      BY <1>5, <2>5
    <3>4. ~ start < start
      BY <1>8
    <3> QED
      BY <2>2, <3>1, <3>2, <3>3, <3>4
  <2>10. SumOf(h, T) <= hi - lo
    <3>1. lo \in Int /\ hi \in Int /\ lo <= hi
      BY <1>8, <1>9, <1>10
    <3> QED
      BY ONLY <2>7, <2>8, <2>9, <3>1, SumSpan
  <2> QED
    BY <1>11, <1>13, <2>3, <2>6, <2>10
<1> QED
  BY <1>14, <1>15


(* When the search has failed, no gap of any major holds the chunk.         *)
LEMMA NoGapHolds ==
    ASSUME HeapInv, CountInv, NEW req \in Nat, NeedsPages(req),
           NEW m \in DOMAIN major, NEW p \in InBlock(minor, m) \cup {0}
    PROVE  GapAfter(m, p) < Need(req)
<1> USE DEF NULL
<1>1. GapAfter(m, p) \in Int /\ GapAfter(m, p) <= FreeBytes(m)
  BY GapWithinFree
<1>2. Need(req) \in Nat /\ FreeBytes(m) \in Int
  <2>1. major[m].size \in Nat /\ major[m].usage \in Int
    BY DEF HeapInv, Tables, Typed, MajorHeader
  <2> QED
    BY <2>1, Sizes DEF Need, Size, FreeBytes
<1>3. ~ FitsIn(m, req)
  <2>1. l_memRoot # 0
    BY DEF HeapInv, MajorsLinked, InOrder, Linked, First
  <2>2. PICK s : s = SearchOrder(req)
    OBVIOUS
  <2>3. \E i \in 1 .. Len(s) : s[i] = m
    BY <2>1, <2>2, OrderVisitsAll
  <2>4. m \in ToSet(s)
    BY <2>3 DEF ToSet
  <2> QED
    BY <2>1, <2>2, <2>4 DEF NeedsPages
<1>4. CASE FreeBytes(m) < Need(req)
  BY <1>1, <1>2, <1>4
<1>5. CASE ~ FreeBytes(m) < Need(req)
  <2>1. Place(m, req) = 0
    BY <1>2, <1>3, <1>5 DEF FitsIn
  <2>2. PICK S, first : S = InBlock(minor, m) /\ first = major[m].first
    OBVIOUS
  <2>3. PICK t : t = MinorsFrom(first)
    OBVIOUS
  <2>4. Linked(S, Ident(minor), NextOf(minor), PrevOf(minor), first) /\ first # 0
    BY <2>2 DEF HeapInv, Tables, ChunksLinked
  <2>5. first \in S /\ \A b \in S : Ident(minor)[first] <= Ident(minor)[b]
    BY <2>4 DEF Linked, First
  <2>6. Listed(S, Ident(minor), NextOf(minor), first, t)
    BY <2>2, <2>3, <2>5, MinorWalk DEF HeapInv
  <2>7. t \in Seq(S) /\ \A b \in S : \E i \in 1 .. Len(t) : t[i] = b
    BY <2>5, <2>6 DEF Listed
  <2>8. PICK s : s = Spots(m) /\ s = <<0>> \o t
    BY <2>2, <2>3 DEF Spots
  <2>9. \E i \in 1 .. Len(s) : s[i] = p
    <3>1. PICK n \in Nat : n = Len(t)
      BY <2>7
    <3> PICK T : T = S \cup {0}
      OBVIOUS
    <3>2. <<0>> \in Seq(T) /\ t \in Seq(T)
      <4>1. t \in [1 .. n -> S]
        BY <2>7, <3>1
      <4>2. t \in [1 .. n -> T]
        BY <4>1
      <4>3. t \in Seq(T)
        BY <4>2
      <4>4. <<0>> \in Seq(T)
        OBVIOUS
      <4> QED
        BY <4>3, <4>4
    <3>3. /\ Len(s) = Len(<<0>>) + n
          /\ \A i \in 1 .. Len(<<0>>) + n :
                s[i] = IF i <= Len(<<0>>) THEN <<0>>[i] ELSE t[i - Len(<<0>>)]
      BY <2>8, <3>1, <3>2, ConcatProperties
    <3>4. Len(s) = n + 1 /\ s[1] = 0 /\ \A i \in 1 .. n : i + 1 \in 1 .. n + 1 /\ s[i + 1] = t[i]
      BY <3>3
    <3>5. CASE p = 0
      BY <3>4, <3>5
    <3>6. CASE p \in S
      <4>1. PICK i \in 1 .. n : t[i] = p
        BY <2>7, <3>1, <3>6
      <4> QED
        BY <3>4, <4>1
    <3> QED
      BY <2>2, <3>5, <3>6
  <2> DEFINE I == { i \in 1 .. Len(s) : GapAfter(m, s[i]) >= Need(req) }
  <2>10. Place(m, req) = IF I # {} THEN Min(I) ELSE 0
    BY <2>8 DEF Place, SelectInSeq
  <2>11. I = {}
    <3> SUFFICES ASSUME I # {} PROVE FALSE
      OBVIOUS
    <3>1. I \subseteq Nat \ {0}
      OBVIOUS
    <3>2. Min(I) \in I
      <4>1. I \subseteq Nat
        BY <3>1
      <4> HIDE DEF I
      <4> QED
        BY <4>1, MinOfNaturals
    <3> HIDE DEF I
    <3> QED
      BY <2>1, <2>10, <3>1, <3>2
  <2>12. ~ GapAfter(m, p) >= Need(req)
    BY <2>9, <2>11
  <2> QED
    BY <1>1, <1>2, <2>12
<1> QED
  BY <1>4, <1>5

(* When kmalloc takes new pages, no gap of any major had room for the       *)
(* chunk.                                                                   *)
LEMMA GrowsWhenFull ==
    ASSUME HeapInv, CountInv, [Next]_vars,
           NEW a \in DOMAIN minor' \ DOMAIN minor, pages' # pages,
           NEW m \in DOMAIN major, NEW p \in DOMAIN minor \cup {NULL},
           p = NULL \/ minor[p].block = m
    PROVE  GapAfter(m, p) < minor'[a].size + MinorHdr
<1> USE DEF NULL
<1>1. ASSUME NEW req \in Requests, Allocates(req)
      PROVE  GapAfter(m, p) < minor'[a].size + MinorHdr
  <2>1. Grow(req)
    BY <1>1 DEF Allocates, kmalloc_fails
  <2>2. NeedsPages(req) /\ req \in Nat
    BY <2>1, HeapAssumption DEF Grow
  <2>3. PICK maj, base : Placed(maj, base, 0, 0, base + MajorHdr, req)
    BY <2>1, GrowsPlaces
  <2>4. PICK b : b = base + MajorHdr /\ minor' = AddedTo(minor, base, 0, 0, b, req)
    BY <2>3 DEF Placed
  <2>5. a = b /\ minor'[a] = Header(base, 0, 0, req)
    BY <2>4 DEF AddedTo
  <2>6. minor'[a].size + MinorHdr = Need(req)
    BY <2>5 DEF Header, Need
  <2>7. p \in InBlock(minor, m) \cup {0}
    BY DEF InBlock
  <2> QED
    BY <2>2, <2>6, <2>7, NoGapHolds
<1>2. ASSUME NEW u, kfree(u) PROVE FALSE
  BY <1>2 DEF kfree, Unlink
<1>3. ASSUME NEW u, NEW req, krealloc_shrinks(u, req) PROVE FALSE
  BY <1>3 DEF krealloc_shrinks
<1>4. ~ UNCHANGED vars
  BY DEF vars
<1> QED
  BY <1>1, <1>2, <1>3, <1>4
     DEF Next, Kmalloc, Kfree, KreallocShrink, KreallocAlloc, KreallocFree, Allocates

(* The heap asks the hook for more pages only when no gap of any major      *)
(* holds the chunk, although the search starts at the best bet and skips    *)
(* the majors whose free bytes are too few.                                 *)
THEOREM HeapGrowsWhenFull == Spec => GrowsOnlyWhenFull
<1>1. HeapInv /\ CountInv /\ [Next]_vars =>
        [\A a \in DOMAIN minor' \ DOMAIN minor :
          pages' # pages =>
            \A m \in DOMAIN major, p \in DOMAIN minor \cup {NULL} :
              p = NULL \/ minor[p].block = m
                => GapAfter(m, p) < minor'[a].size + MinorHdr]_vars
  BY GrowsWhenFull
<1> QED
  BY <1>1, HeapInvariant, CountInvariant, PTL DEF Spec, GrowsOnlyWhenFull
=============================================================================
