---------------------------- MODULE MemoryPages -----------------------------
(***************************************************************************)
(* Proofs about the operators of Memory that work on one page, one table   *)
(* entry or one object of the heap, for every number of pages and every    *)
(* size of tables and objects: what memory_alloc_page, walk_pt,            *)
(* memory_alloc_and_map_page, memory_set_page_flags, kmalloc and a round   *)
(* of memory_space_clone do to ram. MemoryProofs builds on them.           *)
(*                                                                         *)
(* Owned is what they all keep as long as the kernel does not panic: no    *)
(* page is two of free, mapped by an entry, mapped by another entry and    *)
(* the heap's. Hence no table belongs to two roots or to two places of one *)
(* (Tree), and a write to an entry of one address space leaves the others. *)
(***************************************************************************)
EXTENDS Memory, TLAPS

Flag == {"V", "R", "W", "X", "U"}
Pte == [ppn : Page, flags : SUBSET Flag]
Value == {"fresh", "zero"} \cup Stored \cup {s.value : s \in Segments}
Block == Page \cup {HEAP}
Object == [block : Block, off : Nat, size : Nat \ {0}]
Ram == [free_list : Seq(Page), table : [Page -> [Index -> Pte]], data : [Page -> Value],
        heap : [block : Block, room : Nat], objs : Seq(Object), panic : BOOLEAN]

Panicked(m) == m.panic

(* What the pages are used for in ram, apart from roots and stacks.          *)
Free(m) == {m.free_list[k] : k \in 1 .. Len(m.free_list)}
Mapped(m) == {p \in Page : \E t \in Page, i \in Index :
                             Valid(m.table[t][i]) /\ m.table[t][i].ppn = p}
Heap(m) == {b \in Block : b = m.heap.block \/ \E k \in 1 .. Len(m.objs) : m.objs[k].block = b}
Taken(m) == Free(m) \cup Mapped(m) \cup Heap(m)

HeapApart(m) ==
  LET room == [block |-> m.heap.block, off |-> 0, size |-> m.heap.room]
  IN \A k \in DOMAIN m.objs :
       LET a == m.objs[k]
       IN /\ a.off >= 0
          /\ a.off + a.size <= IF a.block = HEAP THEN HEAP_INIT ELSE PAGE_SIZE
          /\ ~Overlap(a, room)
          /\ \A j \in DOMAIN m.objs : j # k => ~Overlap(a, m.objs[j])

(* Every page ram knows of has one use, and pages on the free list hold no   *)
(* entries.                                                                  *)
Owned(m) ==
  /\ \A k, j \in 1 .. Len(m.free_list) : m.free_list[k] = m.free_list[j] => k = j
  /\ main_pt2 \notin Taken(m)
  /\ Free(m) \cap Mapped(m) = {} /\ Free(m) \cap Heap(m) = {} /\ Mapped(m) \cap Heap(m) = {}
  /\ \A t, u \in Page : \A i, j \in Index :
       /\ Valid(m.table[t][i]) /\ Valid(m.table[u][j])
       /\ m.table[t][i].ppn = m.table[u][j].ppn
       => t = u /\ i = j
  /\ \A p \in Free(m), i \in Index : m.table[p][i] = null_pte
  /\ m.heap.room <= IF m.heap.block = HEAP THEN HEAP_INIT ELSE PAGE_SIZE
  /\ HeapApart(m)
-----------------------------------------------------------------------------
LEMMA Sizes ==
  /\ NPROC \in Nat /\ NPROC > 0 /\ NPAGES \in Nat /\ NPAGES > 0
  /\ PTE_PER_LEVEL \in Nat /\ PTE_PER_LEVEL > 0 /\ NVPN \in Nat /\ NVPN > 0
  /\ PAGE_SIZE \in Nat /\ PAGE_SIZE > 0 /\ HEAP_INIT \in Nat /\ HEAP_INIT > 0
  /\ PROC_SIZE \in 1 .. PAGE_SIZE /\ THR_SIZE \in 1 .. PAGE_SIZE
  /\ NVPN <= PTE_PER_LEVEL * PTE_PER_LEVEL
  /\ StackPages \subseteq Vpn
  BY MemoryAssumption DEF Vpn

(* memory_alloc_page *)
LEMMA AllocFields ==
  ASSUME NEW m \in Ram
  PROVE  LET n == memory_alloc_page(m)
         IN /\ n \in Ram /\ Popped(m) \in Page
            /\ n.table = m.table /\ n.data = m.data /\ n.heap = m.heap /\ n.objs = m.objs
            /\ m.free_list = <<>> => Panicked(n)
            /\ m.free_list # <<>> => /\ Panicked(n) <=> Panicked(m)
                                     /\ n.free_list = Tail(m.free_list)
                                     /\ Popped(m) = m.free_list[1]
<1> DEFINE n == memory_alloc_page(m)
<1>1. CASE m.free_list = <<>>
  <2>1. n = [m EXCEPT !.panic = TRUE] /\ Popped(m) = 0 /\ 0 \in Page
    BY <1>1, Sizes DEF memory_alloc_page, Popped, Page
  <2> HIDE DEF n
  <2>2. /\ n \in Ram
        /\ n.table = m.table /\ n.data = m.data /\ n.heap = m.heap /\ n.objs = m.objs
    BY Zenon, <2>1 DEF Ram
  <2>3. n.panic = TRUE
    BY Zenon, <2>1 DEF Ram
  <2> QED BY <1>1, <2>1, <2>2, <2>3, Zenon DEF n, Panicked
<1>2. CASE m.free_list # <<>>
  <2>1. n = [m EXCEPT !.free_list = Tail(m.free_list)] /\ Popped(m) = Head(m.free_list)
    BY Zenon, <1>2 DEF memory_alloc_page, Popped
  <2>2. m.free_list \in Seq(Page)
    BY Zenon DEF Ram
  <2>3. /\ Tail(m.free_list) \in Seq(Page) /\ Head(m.free_list) = m.free_list[1]
        /\ m.free_list[1] \in Page
    BY <1>2, <2>2
  <2> HIDE DEF n
  <2>4. /\ n \in Ram
        /\ n.table = m.table /\ n.data = m.data /\ n.heap = m.heap /\ n.objs = m.objs
        /\ n.free_list = Tail(m.free_list)
    BY Zenon, <2>1, <2>3 DEF Ram
  <2>5. n.panic = m.panic
    BY Zenon, <2>1 DEF Ram
  <2> QED BY <1>2, <2>1, <2>3, <2>4, <2>5, Zenon DEF n, Panicked
<1> QED BY Zenon, <1>1, <1>2

LEMMA SetEntryFields ==
  ASSUME NEW m \in Ram, NEW t \in Page, NEW i \in Index, NEW e \in Pte
  PROVE  LET n == SetEntry(m, t, i, e)
         IN /\ n \in Ram
            /\ n.free_list = m.free_list /\ n.data = m.data /\ n.heap = m.heap /\ n.objs = m.objs
            /\ (Panicked(n) <=> Panicked(m))
            /\ n.table[t][i] = e
            /\ \A u \in Page, j \in Index : u # t \/ j # i => n.table[u][j] = m.table[u][j]
<1> DEFINE n == SetEntry(m, t, i, e)
<1>1. /\ n \in Ram
      /\ n.free_list = m.free_list /\ n.data = m.data /\ n.heap = m.heap /\ n.objs = m.objs
      /\ n.panic = m.panic
      /\ n.table[t][i] = e
      /\ \A u \in Page, j \in Index : u # t \/ j # i => n.table[u][j] = m.table[u][j]
  BY Zenon DEF Ram, SetEntry
<1> QED BY <1>1, Zenon DEF Panicked

(* memory_alloc_page takes the page it returns out of the free list, and no  *)
(* other use of a page changes.                                              *)
LEMMA AllocOwned ==
  ASSUME NEW m \in Ram, Owned(m), m.free_list # <<>>
  PROVE  LET n == memory_alloc_page(m)
             p == Popped(m)
         IN /\ Owned(n) /\ p \in Free(m) /\ p \in Page /\ p # main_pt2
            /\ Free(n) = Free(m) \ {p} /\ Mapped(n) = Mapped(m) /\ Heap(n) = Heap(m)
            /\ p \notin Taken(n) /\ Taken(n) \subseteq Taken(m)
            /\ \A i \in Index : n.table[p][i] = null_pte
<1> DEFINE n == memory_alloc_page(m)
           p == Popped(m)
           s == m.free_list
<1>1. /\ n \in Ram /\ p \in Page
      /\ n.table = m.table /\ n.data = m.data /\ n.heap = m.heap /\ n.objs = m.objs
      /\ n.free_list = Tail(s) /\ p = s[1]
  BY Zenon, AllocFields
<1>2. s \in Seq(Page) /\ Len(s) \in Nat /\ Len(s) > 0
  BY DEF Ram
<1>3. Len(Tail(s)) = Len(s) - 1 /\ \A k \in 1 .. Len(s) - 1 : Tail(s)[k] = s[k + 1]
  BY <1>2
<1> HIDE DEF n, p
<1>4. \A k, j \in 1 .. Len(s) : s[k] = s[j] => k = j
  BY Zenon DEF Owned
<1>5. Mapped(n) = Mapped(m)
  BY Zenon, <1>1 DEF Mapped
<1>6. Heap(n) = Heap(m)
  BY Zenon, <1>1 DEF Heap
<1>7. Free(n) = Free(m) \ {p}
  <2>1. Free(m) = {s[k] : k \in 1 .. Len(s)}
    BY Zenon DEF Free
  <2>2. Free(n) = {s[k + 1] : k \in 1 .. Len(s) - 1}
    BY Zenon, <1>1, <1>3 DEF Free
  <2> HIDE DEF s
  <2>3. ASSUME NEW x \in Free(n) PROVE x \in Free(m) \ {p}
    <3>1. PICK k \in 1 .. Len(s) - 1 : x = s[k + 1]
      BY Zenon, <2>2
    <3>2. k + 1 \in 1 .. Len(s) /\ 1 \in 1 .. Len(s) /\ k + 1 # 1
      BY <1>2
    <3> QED BY Zenon, <1>1, <1>4, <2>1, <3>1, <3>2
  <2>4. ASSUME NEW x \in Free(m) \ {p} PROVE x \in Free(n)
    <3>1. PICK k \in 1 .. Len(s) : x = s[k]
      BY Zenon, <2>1
    <3>2. k # 1
      BY Zenon, <1>1, <3>1
    <3>3. k - 1 \in 1 .. Len(s) - 1 /\ (k - 1) + 1 = k
      BY <1>2, <3>2
    <3> QED BY Zenon, <2>2, <3>1, <3>3
  <2> QED BY Zenon, <2>3, <2>4
<1>8. p \in Free(m)
  <2>1. 1 \in 1 .. Len(s)
    BY <1>2
  <2> QED BY Zenon, <1>1, <2>1 DEF Free
<1>9. p # main_pt2 /\ p \notin Taken(n) /\ Taken(n) \subseteq Taken(m)
  BY Zenon, <1>5, <1>6, <1>7, <1>8 DEF Owned, Taken
<1>10. \A i \in Index : n.table[p][i] = null_pte
  BY Zenon, <1>1, <1>8 DEF Owned
<1>11. Owned(n)
  <2>1. ASSUME NEW k \in 1 .. Len(n.free_list), NEW j \in 1 .. Len(n.free_list),
               n.free_list[k] = n.free_list[j]
        PROVE  k = j
    <3>1. /\ k \in 1 .. Len(s) - 1 /\ j \in 1 .. Len(s) - 1
          /\ k + 1 \in 1 .. Len(s) /\ j + 1 \in 1 .. Len(s)
      BY <1>1, <1>2, <1>3
    <3>2. s[k + 1] = s[j + 1]
      BY Zenon, <1>1, <1>3, <2>1, <3>1
    <3>3. k + 1 = j + 1
      BY Zenon, <1>4, <3>1, <3>2
    <3> QED BY <3>1, <3>3
  <2>2. HeapApart(n)
    BY Zenon, <1>1 DEF Owned, HeapApart
  <2> QED BY <1>1, <1>5, <1>6, <1>7, <1>9, <2>1, <2>2 DEF Owned, Taken
<1> QED BY Zenon, <1>1, <1>5, <1>6, <1>7, <1>8, <1>9, <1>10, <1>11 DEF n, p

(* A page nobody uses is put into a table entry.                             *)
LEMMA SetOwned ==
  ASSUME NEW m \in Ram, Owned(m), NEW t \in Page \ Free(m), NEW i \in Index, NEW e \in Pte,
         Valid(e), e.ppn \notin Taken(m) \/ (Valid(m.table[t][i]) /\ m.table[t][i].ppn = e.ppn),
         e.ppn # main_pt2
  PROVE  LET n == SetEntry(m, t, i, e)
         IN /\ Owned(n) /\ Free(n) = Free(m) /\ Heap(n) = Heap(m)
            /\ Taken(n) \subseteq Taken(m) \cup {e.ppn}
<1> DEFINE n == SetEntry(m, t, i, e)
<1>1. /\ n \in Ram
      /\ n.free_list = m.free_list /\ n.heap = m.heap /\ n.objs = m.objs
      /\ n.table[t][i] = e
      /\ \A u \in Page, j \in Index : u # t \/ j # i => n.table[u][j] = m.table[u][j]
  BY SetEntryFields
<1> HIDE DEF n
<1>2. Free(n) = Free(m) /\ Heap(n) = Heap(m)
  BY <1>1 DEF Free, Heap
<1>3. Mapped(n) \subseteq Mapped(m) \cup {e.ppn}
  BY <1>1 DEF Mapped
<1>4. \A u \in Page, j \in Index : Valid(m.table[u][j]) => m.table[u][j].ppn \in Mapped(m)
  BY SMTT(30) DEF Mapped, Ram, Pte
<1>5. HeapApart(n)
  BY Zenon, <1>1 DEF Owned, HeapApart
<1>6. e.ppn \in Mapped(m) \/ e.ppn \notin Taken(m)
  BY Zenon, <1>4
<1>7. ASSUME NEW u \in Page, NEW v \in Page, NEW j \in Index, NEW k \in Index,
             Valid(n.table[u][j]), Valid(n.table[v][k]), n.table[u][j].ppn = n.table[v][k].ppn
      PROVE  u = v /\ j = k
  <2>1. CASE (u # t \/ j # i) /\ (v # t \/ k # i)
    BY <1>1, <1>7, <2>1 DEF Owned
  <2>2. CASE (u = t /\ j = i) /\ (v # t \/ k # i)
    <3>1. m.table[v][k].ppn = e.ppn /\ Valid(m.table[v][k])
      BY Zenon, <1>1, <1>7, <2>2
    <3>2. e.ppn \in Taken(m)
      BY Zenon, <1>4, <3>1 DEF Taken
    <3> QED BY <2>2, <3>1, <3>2 DEF Owned
  <2>3. CASE (u # t \/ j # i) /\ (v = t /\ k = i)
    <3>1. m.table[u][j].ppn = e.ppn /\ Valid(m.table[u][j])
      BY Zenon, <1>1, <1>7, <2>3
    <3>2. e.ppn \in Taken(m)
      BY Zenon, <1>4, <3>1 DEF Taken
    <3> QED BY <2>3, <3>1, <3>2 DEF Owned
  <2> QED BY Zenon, <2>1, <2>2, <2>3
<1>8. \A p \in Free(n), j \in Index : n.table[p][j] = null_pte
  <2>1. Free(m) \subseteq Page
    BY DEF Free, Ram
  <2> QED BY <1>1, <1>2, <2>1 DEF Owned
<1>9. \A k, j \in 1 .. Len(n.free_list) : n.free_list[k] = n.free_list[j] => k = j
  BY Zenon, <1>1 DEF Owned
<1>10. /\ main_pt2 \notin Taken(n) /\ Taken(n) \subseteq Taken(m) \cup {e.ppn}
       /\ Free(n) \cap Mapped(n) = {} /\ Free(n) \cap Heap(n) = {} /\ Mapped(n) \cap Heap(n) = {}
  BY <1>2, <1>3, <1>6 DEF Owned, Taken
<1>11. n.heap.room <= IF n.heap.block = HEAP THEN HEAP_INIT ELSE PAGE_SIZE
  BY Zenon, <1>1 DEF Owned
<1>12. Owned(n)
  BY <1>5, <1>7, <1>8, <1>9, <1>10, <1>11 DEF Owned
<1> QED BY Zenon, <1>2, <1>10, <1>12 DEF n
-----------------------------------------------------------------------------
(* Page tables as trees. User space lies below one entry of the root.        *)

LEMMA VpnFacts ==
  ASSUME NEW v \in Vpn
  PROVE  VPN2(v) = 0 /\ VPN1(v) \in Index /\ VPN0(v) \in Index /\ 0 \in Index
<1> DEFINE P == PTE_PER_LEVEL
           PP == P * P
<1>1. v \in Nat /\ P \in Nat /\ P > 0 /\ PP \in Nat /\ v < PP
  BY Sizes, SMTT(30) DEF Vpn
<1>2. v \div PP = 0
  <2> HIDE DEF PP
  <2> QED BY <1>1, SMTT(30)
<1>3. v % P \in 0 .. P - 1 /\ (v \div P) % P \in 0 .. P - 1 /\ 0 \in 0 .. P - 1
  <2>1. v \div P \in Nat
    BY <1>1, SMTT(30)
  <2>2. \A x \in Nat : x % P \in 0 .. P - 1
    BY <1>1, SMTT(30)
  <2> QED BY <1>1, <2>1, <2>2
<1> QED BY Zenon, <1>2, <1>3 DEF VPN2, VPN1, VPN0, Index

(* Pages of user space that have the same indices are the same.              *)
LEMMA VpnInjective ==
  ASSUME NEW u \in Vpn, NEW v \in Vpn, VPN1(u) = VPN1(v), VPN0(u) = VPN0(v)
  PROVE  u = v
<1> DEFINE P == PTE_PER_LEVEL
           PP == P * P
<1>1. P \in Nat /\ P > 0 /\ PP \in Nat /\ NVPN <= PP
  BY Sizes, SMTT(30)
<1>2. ASSUME NEW x \in Vpn
      PROVE  x = (P * VPN1(x)) + VPN0(x)
  <2> DEFINE q == x \div P
             r == x % P
  <2>1. x \in Nat /\ x < PP
    BY <1>1, Sizes DEF Vpn
  <2>2. x = (P * q) + r /\ r \in 0 .. P - 1 /\ q \in Nat
    BY <1>1, <2>1, SMTT(30)
  <2> HIDE DEF q, r
  <2>3. q < P
    <3>1. SUFFICES ASSUME q >= P PROVE FALSE
      BY <1>1, <2>2
    <3>2. P * q >= P * P
      BY <1>1, <2>2, <3>1, SMTT(30)
    <3>3. P * q \in Nat
      BY <1>1, <2>2, SMTT(30)
    <3> QED BY <1>1, <2>1, <2>2, <3>2, <3>3
  <2>4. q % P = q
    BY <1>1, <2>2, <2>3, SMTT(30)
  <2> QED BY Zenon, <2>2, <2>4 DEF VPN1, VPN0, q, r
<1>3. u = (P * VPN1(u)) + VPN0(u) /\ v = (P * VPN1(v)) + VPN0(v)
  BY Zenon, <1>2
<1> QED BY Zenon, <1>3

(* The tables below a root, and the entry of a page.                         *)
Pt1(m, r) == m.table[r][0].ppn
Pt0(m, r, v) == m.table[Pt1(m, r)][VPN1(v)].ppn
HasPt1(m, r) == Valid(m.table[r][0])
HasPt0(m, r, v) == HasPt1(m, r) /\ Valid(m.table[Pt1(m, r)][VPN1(v)])

LEMMA EntryIs ==
  ASSUME NEW m, NEW r, NEW v \in Vpn
  PROVE  Entry(m, r, v) = IF HasPt0(m, r, v) THEN m.table[Pt0(m, r, v)][VPN0(v)] ELSE null_pte
  BY Zenon, VpnFacts DEF Entry, HasPt0, HasPt1, Pt0, Pt1

(* Tables are mapped pages, roots are not, and no table belongs to two roots *)
(* or to two places of one.                                                  *)
LEMMA Tree ==
  ASSUME NEW m \in Ram, Owned(m),
         NEW q \in Page \ Taken(m), NEW r \in Page \ Taken(m), NEW u \in Vpn, NEW v \in Vpn
  PROVE  /\ HasPt1(m, r) => Pt1(m, r) \in Mapped(m) /\ Pt1(m, r) \in Page
         /\ HasPt0(m, r, v) => Pt0(m, r, v) \in Mapped(m) /\ Pt0(m, r, v) \in Page
         /\ HasPt1(m, q) /\ HasPt1(m, r) /\ Pt1(m, q) = Pt1(m, r) => q = r
         /\ HasPt0(m, q, u) /\ HasPt0(m, r, v) /\ Pt0(m, q, u) = Pt0(m, r, v)
              => q = r /\ VPN1(u) = VPN1(v)
         /\ HasPt0(m, q, u) /\ HasPt1(m, r) => Pt0(m, q, u) # Pt1(m, r)
<1>1. /\ VPN1(u) \in Index /\ VPN1(v) \in Index /\ 0 \in Index
  BY Zenon, VpnFacts
<1>2. ASSUME NEW t \in Page, NEW i \in Index, Valid(m.table[t][i])
      PROVE  m.table[t][i].ppn \in Mapped(m) /\ m.table[t][i].ppn \in Page
  BY <1>2 DEF Mapped, Ram, Pte
<1>3. ASSUME NEW t \in Page, NEW w \in Page, NEW i \in Index, NEW j \in Index,
             Valid(m.table[t][i]), Valid(m.table[w][j]), m.table[t][i].ppn = m.table[w][j].ppn
      PROVE  t = w /\ i = j
  BY <1>3 DEF Owned
<1>4. Mapped(m) \subseteq Taken(m)
  BY Zenon DEF Taken
<1>5. ASSUME NEW x \in Page, HasPt1(m, x) PROVE Pt1(m, x) \in Mapped(m) /\ Pt1(m, x) \in Page
  BY Zenon, <1>1, <1>2, <1>5 DEF HasPt1, Pt1
<1>6. ASSUME NEW x \in Page, NEW y \in Vpn, HasPt0(m, x, y)
      PROVE  Pt0(m, x, y) \in Mapped(m) /\ Pt0(m, x, y) \in Page
  <2>1. VPN1(y) \in Index
    BY Zenon, VpnFacts
  <2>2. Pt1(m, x) \in Page /\ Valid(m.table[Pt1(m, x)][VPN1(y)])
    BY Zenon, <1>5, <1>6 DEF HasPt0
  <2> QED BY Zenon, <1>2, <2>1, <2>2 DEF Pt0
<1>7. HasPt1(m, q) /\ HasPt1(m, r) /\ Pt1(m, q) = Pt1(m, r) => q = r
  BY Zenon, <1>1, <1>3 DEF HasPt1, Pt1
<1>8. HasPt0(m, q, u) /\ HasPt0(m, r, v) /\ Pt0(m, q, u) = Pt0(m, r, v)
        => q = r /\ VPN1(u) = VPN1(v)
  <2> SUFFICES ASSUME HasPt0(m, q, u), HasPt0(m, r, v), Pt0(m, q, u) = Pt0(m, r, v)
               PROVE  q = r /\ VPN1(u) = VPN1(v)
    BY Zenon
  <2>1. HasPt1(m, q) /\ HasPt1(m, r)
    BY Zenon DEF HasPt0
  <2>2. Pt1(m, q) = Pt1(m, r) /\ VPN1(u) = VPN1(v)
    BY Zenon, <1>1, <1>3, <1>5, <2>1 DEF HasPt0, Pt0
  <2> QED BY Zenon, <1>7, <2>1, <2>2
<1>9. HasPt0(m, q, u) /\ HasPt1(m, r) => Pt0(m, q, u) # Pt1(m, r)
  <2> SUFFICES ASSUME HasPt0(m, q, u), HasPt1(m, r), Pt0(m, q, u) = Pt1(m, r)
               PROVE  FALSE
    BY Zenon
  <2>1. HasPt1(m, q) /\ Pt1(m, q) \in Page /\ Pt1(m, q) \in Taken(m)
    BY Zenon, <1>4, <1>5 DEF HasPt0
  <2>2. Pt1(m, q) = r
    BY Zenon, <1>1, <1>3, <2>1 DEF HasPt0, HasPt1, Pt0, Pt1
  <2> QED BY Zenon, <2>1, <2>2
<1> QED BY Zenon, <1>5, <1>6, <1>7, <1>8, <1>9

(* What a write to one entry does to the pages other walks find: n is m      *)
(* with another entry at place i of table t.                                 *)
Differ(m, n, t, i) ==
  /\ n \in Ram
  /\ \A x \in Page, j \in Index : x # t \/ j # i => n.table[x][j] = m.table[x][j]

(* The entry of a page is written: no other page of any space is affected.   *)
LEMMA LeafWrite ==
  ASSUME NEW m \in Ram, Owned(m), NEW n, NEW r \in Page \ Taken(m), NEW v \in Vpn,
         HasPt0(m, r, v), Differ(m, n, Pt0(m, r, v), VPN0(v)),
         NEW q \in Page \ Taken(m), NEW u \in Vpn
  PROVE  /\ HasPt0(n, q, u) <=> HasPt0(m, q, u)
         /\ Entry(n, q, u) = IF q = r /\ u = v THEN n.table[Pt0(m, r, v)][VPN0(v)]
                             ELSE Entry(m, q, u)
<1>1. /\ VPN1(u) \in Index /\ VPN1(v) \in Index /\ 0 \in Index
      /\ VPN0(u) \in Index /\ VPN0(v) \in Index
  BY Zenon, VpnFacts
<1>2. HasPt1(m, r) /\ Pt0(m, r, v) \in Page /\ Pt0(m, r, v) \in Taken(m)
  BY Zenon, Tree DEF HasPt0, Taken
<1>3. n.table[q][0] = m.table[q][0]
  BY Zenon, <1>1, <1>2 DEF Differ
<1>4. (HasPt1(n, q) <=> HasPt1(m, q)) /\ Pt1(n, q) = Pt1(m, q)
  BY Zenon, <1>3 DEF HasPt1, Pt1
<1>5. HasPt1(m, q) => Pt1(m, q) \in Page /\ Pt1(m, q) # Pt0(m, r, v)
  BY Zenon, Tree
<1>6. HasPt1(m, q) => n.table[Pt1(m, q)][VPN1(u)] = m.table[Pt1(m, q)][VPN1(u)]
  BY Zenon, <1>1, <1>2, <1>5 DEF Differ
<1>7. HasPt0(n, q, u) <=> HasPt0(m, q, u)
  BY Zenon, <1>4, <1>6 DEF HasPt0
<1>8. HasPt0(m, q, u) => Pt0(n, q, u) = Pt0(m, q, u) /\ Pt0(m, q, u) \in Page
  BY Zenon, <1>4, <1>6, Tree DEF HasPt0, Pt0
<1>9. CASE ~HasPt0(m, q, u)
  BY Zenon, <1>7, <1>9, EntryIs
<1>10. CASE HasPt0(m, q, u) /\ q = r /\ u = v
  BY Zenon, <1>7, <1>8, <1>10, EntryIs
<1>11. CASE HasPt0(m, q, u) /\ ~(q = r /\ u = v)
  <2>1. Pt0(m, q, u) # Pt0(m, r, v) \/ VPN0(u) # VPN0(v)
    BY <1>11, Tree, VpnInjective
  <2>2. n.table[Pt0(m, q, u)][VPN0(u)] = m.table[Pt0(m, q, u)][VPN0(u)]
    BY Zenon, <1>1, <1>2, <1>8, <1>11, <2>1 DEF Differ
  <2> QED BY Zenon, <1>7, <1>8, <1>11, <2>2, EntryIs
<1> QED BY Zenon, <1>7, <1>9, <1>10, <1>11

(* walk_pt puts an empty table below a root: no page is affected.            *)
LEMMA RootWrite ==
  ASSUME NEW m \in Ram, Owned(m), NEW n, NEW r \in Page \ Taken(m), ~HasPt1(m, r),
         Differ(m, n, r, 0), n.table[r][0].ppn \in Page \ {r},
         \A i \in Index : m.table[n.table[r][0].ppn][i] = null_pte,
         NEW q \in Page \ Taken(m), NEW u \in Vpn
  PROVE  /\ HasPt0(n, q, u) <=> HasPt0(m, q, u)
         /\ Entry(n, q, u) = Entry(m, q, u)
<1>1. VPN1(u) \in Index /\ 0 \in Index /\ VPN0(u) \in Index
  BY Zenon, VpnFacts
<1>2. ~Valid(null_pte)
  BY Zenon DEF Valid, null_pte
<1>3. CASE q = r
  <2>1. ~HasPt0(m, q, u)
    BY Zenon, <1>3 DEF HasPt0
  <2>2. Pt1(n, q) = n.table[r][0].ppn /\ Pt1(n, q) \in Page /\ Pt1(n, q) # r
    BY Zenon, <1>3 DEF Pt1
  <2>3. n.table[Pt1(n, q)][VPN1(u)] = null_pte
    BY <1>1, <2>2 DEF Differ
  <2>4. ~HasPt0(n, q, u)
    BY Zenon, <1>2, <2>3 DEF HasPt0
  <2> QED BY Zenon, <2>1, <2>4, EntryIs
<1>4. CASE q # r
  <2>1. n.table[q][0] = m.table[q][0]
    BY Zenon, <1>1, <1>4 DEF Differ
  <2>2. (HasPt1(n, q) <=> HasPt1(m, q)) /\ Pt1(n, q) = Pt1(m, q)
    BY Zenon, <2>1 DEF HasPt1, Pt1
  <2>3. HasPt1(m, q) => Pt1(m, q) \in Page /\ Pt1(m, q) # r
    BY Tree DEF Taken
  <2>4. HasPt1(m, q) => n.table[Pt1(m, q)][VPN1(u)] = m.table[Pt1(m, q)][VPN1(u)]
    BY Zenon, <1>1, <2>3 DEF Differ
  <2>5. HasPt0(n, q, u) <=> HasPt0(m, q, u)
    BY Zenon, <2>2, <2>4 DEF HasPt0
  <2>6. HasPt0(m, q, u) => /\ Pt0(n, q, u) = Pt0(m, q, u) /\ Pt0(m, q, u) \in Page
                           /\ Pt0(m, q, u) # r
    BY Zenon, <2>2, <2>4, Tree DEF HasPt0, Pt0, Taken
  <2>7. HasPt0(m, q, u) =>
          n.table[Pt0(m, q, u)][VPN0(u)] = m.table[Pt0(m, q, u)][VPN0(u)]
    BY Zenon, <1>1, <2>6 DEF Differ
  <2> QED BY Zenon, <2>5, <2>6, <2>7, EntryIs
<1> QED BY Zenon, <1>3, <1>4

LEMMA TableWrite ==
  ASSUME NEW m \in Ram, Owned(m), NEW n, NEW r \in Page \ Taken(m), NEW v \in Vpn,
         HasPt1(m, r), ~HasPt0(m, r, v),
         Differ(m, n, Pt1(m, r), VPN1(v)), n.table[Pt1(m, r)][VPN1(v)].ppn \in Page \ {Pt1(m, r)},
         \A i \in Index : m.table[n.table[Pt1(m, r)][VPN1(v)].ppn][i] = null_pte,
         NEW q \in Page \ Taken(m), NEW u \in Vpn
  PROVE  /\ HasPt0(m, q, u) => HasPt0(n, q, u)
         /\ Entry(n, q, u) = Entry(m, q, u)
<1>1. VPN1(u) \in Index /\ VPN1(v) \in Index /\ 0 \in Index /\ VPN0(u) \in Index
  BY Zenon, VpnFacts
<1>2. Pt1(m, r) \in Page /\ Pt1(m, r) \in Taken(m)
  BY Zenon, Tree DEF Taken
<1>3. n.table[q][0] = m.table[q][0]
  BY Zenon, <1>1, <1>2 DEF Differ
<1>4. (HasPt1(n, q) <=> HasPt1(m, q)) /\ Pt1(n, q) = Pt1(m, q)
  BY Zenon, <1>3 DEF HasPt1, Pt1
<1>5. CASE q = r /\ VPN1(u) = VPN1(v)
  <2>1. ~HasPt0(m, q, u)
    BY Zenon, <1>5 DEF HasPt0
  <2>2. Pt0(n, q, u) = n.table[Pt1(m, r)][VPN1(v)].ppn
    BY Zenon, <1>4, <1>5 DEF Pt0
  <2>3. n.table[Pt0(n, q, u)][VPN0(u)] = null_pte
    BY <1>1, <2>2 DEF Differ
  <2> QED BY Zenon, <2>1, <2>3, EntryIs
<1>6. CASE ~(q = r /\ VPN1(u) = VPN1(v))
  <2>1. HasPt1(m, q) => /\ Pt1(m, q) \in Page
                        /\ Pt1(m, q) # Pt1(m, r) \/ VPN1(u) # VPN1(v)
    BY Zenon, <1>6, Tree
  <2>2. HasPt1(m, q) => n.table[Pt1(m, q)][VPN1(u)] = m.table[Pt1(m, q)][VPN1(u)]
    BY Zenon, <1>1, <1>2, <2>1 DEF Differ
  <2>3. HasPt0(n, q, u) <=> HasPt0(m, q, u)
    BY Zenon, <1>4, <2>2 DEF HasPt0
  <2>4. HasPt0(m, q, u) => /\ Pt0(n, q, u) = Pt0(m, q, u) /\ Pt0(m, q, u) \in Page
                           /\ Pt0(m, q, u) # Pt1(m, r)
    BY Zenon, <1>4, <2>2, Tree DEF HasPt0, Pt0
  <2>5. HasPt0(m, q, u) =>
          n.table[Pt0(m, q, u)][VPN0(u)] = m.table[Pt0(m, q, u)][VPN0(u)]
    BY Zenon, <1>1, <1>2, <2>4 DEF Differ
  <2> QED BY Zenon, <2>3, <2>4, <2>5, EntryIs
<1> QED BY Zenon, <1>5, <1>6
-----------------------------------------------------------------------------
(* A page from the free list is put into a table entry.                      *)
LEMMA PutPage ==
  ASSUME NEW m \in Ram, NEW t \in Page, NEW i \in Index, NEW F \in SUBSET Flag, "V" \in F
  PROVE  LET p == Popped(m)
             n == EnterPage(m, t, i, F)
         IN /\ n \in Ram /\ Differ(m, n, t, i) /\ n.table[t][i] = [ppn |-> p, flags |-> F]
            /\ p \in Page /\ n.data = m.data /\ n.heap = m.heap /\ n.objs = m.objs
            /\ Panicked(m) => Panicked(n)
            /\ ~Panicked(n) /\ Owned(m) /\ t \notin Free(m) =>
                 /\ Owned(n) /\ Taken(n) \subseteq Taken(m) /\ Free(n) \subseteq Free(m)
                 /\ p \in Free(m) /\ p # t /\ \A j \in Index : m.table[p][j] = null_pte
<1> DEFINE p == Popped(m)
           a == memory_alloc_page(m)
           e == [ppn |-> p, flags |-> F]
           n == SetEntry(a, t, i, e)
<1>1. /\ a \in Ram /\ p \in Page
      /\ a.table = m.table /\ a.data = m.data /\ a.heap = m.heap /\ a.objs = m.objs
      /\ m.free_list = <<>> => Panicked(a)
      /\ m.free_list # <<>> => (Panicked(a) <=> Panicked(m))
  BY Zenon, AllocFields
<1>2. e \in Pte /\ Valid(e) /\ e.ppn = p
  BY Zenon, <1>1 DEF Pte, Valid
<1> HIDE DEF a, p, e
<1>3. /\ n \in Ram
      /\ n.free_list = a.free_list /\ n.data = a.data /\ n.heap = a.heap /\ n.objs = a.objs
      /\ (Panicked(n) <=> Panicked(a))
      /\ n.table[t][i] = e
      /\ \A u \in Page, j \in Index : u # t \/ j # i => n.table[u][j] = a.table[u][j]
  BY <1>1, <1>2, SetEntryFields
<1> HIDE DEF n
<1>4. Differ(m, n, t, i)
  BY Zenon, <1>1, <1>3 DEF Differ
<1>5. Panicked(m) => Panicked(n)
  BY <1>1, <1>3, Zenon
<1>6. ASSUME ~Panicked(n), Owned(m), t \notin Free(m)
      PROVE  /\ Owned(n) /\ Taken(n) \subseteq Taken(m) /\ Free(n) \subseteq Free(m)
             /\ p \in Free(m) /\ p # t /\ \A j \in Index : m.table[p][j] = null_pte
  <2>1. m.free_list # <<>>
    BY <1>1, <1>3, <1>6, Zenon
  <2>2. /\ Owned(a) /\ p \in Free(m) /\ p # main_pt2
        /\ Free(a) = Free(m) \ {p} /\ Mapped(a) = Mapped(m) /\ Heap(a) = Heap(m)
        /\ p \notin Taken(a) /\ Taken(a) \subseteq Taken(m)
        /\ \A j \in Index : a.table[p][j] = null_pte
    BY Zenon, <1>6, <2>1, AllocOwned DEF a, p
  <2>3. t \in Page \ Free(a) /\ e.ppn \notin Taken(a) /\ e.ppn # main_pt2
    BY Zenon, <1>2, <1>6, <2>2
  <2>4. Owned(n) /\ Free(n) = Free(a) /\ Taken(n) \subseteq Taken(a) \cup {e.ppn}
    BY <1>1, <1>2, <2>2, <2>3, SetOwned, Zenon DEF n
  <2> QED BY Zenon, <1>1, <1>2, <1>6, <2>2, <2>4 DEF Taken
<1>7. n = EnterPage(m, t, i, F)
  BY Zenon DEF EnterPage, n, a, p, e
<1> QED BY Zenon, <1>1, <1>3, <1>4, <1>5, <1>6, <1>7 DEF p, e

(* What page-table operations keep: pages have one use, no page is added to  *)
(* those in use or free, what is mapped stays mapped, and no root gets an    *)
(* entry that walk_and_free_user would follow.                               *)
Mono(m, n) ==
  \A q \in Page \ Taken(m), u \in Vpn : HasPt0(m, q, u) => HasPt0(n, q, u)
Same(m, n) == \A q \in Page \ Taken(m), u \in Vpn : Entry(n, q, u) = Entry(m, q, u)
Marked(m, q) == \E i \in Index : Descends(m.table[q][i])
Clean(m, n) == \A q \in Page \ Taken(m) : Marked(n, q) => Marked(m, q)
Fine(m, n) ==
  /\ Owned(n) /\ Taken(n) \subseteq Taken(m) /\ Free(n) \subseteq Free(m)
  /\ Mono(m, n) /\ Clean(m, n)

LEMMA FineTrans ==
  ASSUME NEW m, NEW n, NEW o, Fine(m, n), Fine(n, o)
  PROVE  Fine(m, o)
  BY Zenon DEF Fine, Mono, Clean

(* One level of walk_pt. *)
LEMMA DescendFields ==
  ASSUME NEW m \in Ram, NEW t \in Page, NEW i \in Index
  PROVE  LET d == Descend(m, t, i)
         IN /\ d.m \in Ram /\ d.pt \in Page
            /\ d.m.data = m.data /\ d.m.heap = m.heap /\ d.m.objs = m.objs
            /\ Panicked(m) => Panicked(d.m)
<1>1. CASE Valid(m.table[t][i])
  <2>1. m.table[t][i].ppn \in Page
    BY DEF Ram, Pte
  <2> QED BY Zenon, <1>1, <2>1 DEF Descend
<1>2. CASE ~Valid(m.table[t][i])
  <2> DEFINE F == {"V"}
             n == EnterPage(m, t, i, F)
  <2>1. F \in SUBSET Flag /\ "V" \in F
    BY Zenon DEF Flag
  <2> HIDE DEF F
  <2>2. /\ n \in Ram /\ Popped(m) \in Page /\ n.data = m.data /\ n.heap = m.heap /\ n.objs = m.objs
        /\ Panicked(m) => Panicked(n)
    BY ZenonT(30), <2>1, PutPage
  <2> HIDE DEF n
  <2>3. Descend(m, t, i) = [m |-> n, pt |-> Popped(m)]
    BY Zenon, <1>2 DEF Descend, n, F
  <2>4. Descend(m, t, i).m = n /\ Descend(m, t, i).pt = Popped(m)
    BY <2>3
  <2> QED BY <2>2, <2>4, Zenon
<1> QED BY Zenon, <1>1, <1>2

(* walk_pt at the root: no space changes.                                    *)
LEMMA DescendRoot ==
  ASSUME NEW m \in Ram, Owned(m), NEW r \in Page \ Taken(m), ~Panicked(Descend(m, r, 0).m)
  PROVE  LET d == Descend(m, r, 0)
         IN /\ Fine(m, d.m) /\ Same(m, d.m)
            /\ HasPt1(d.m, r) /\ Pt1(d.m, r) = d.pt
            /\ HasPt1(m, r) => d.m = m
<1> DEFINE d == Descend(m, r, 0)
<1>0. 0 \in Index /\ r \in Page /\ r \notin Free(m)
  BY Sizes DEF Index, Taken
<1>1. CASE HasPt1(m, r)
  <2>1. d.m = m /\ d.pt = Pt1(m, r)
    BY Zenon, <1>1 DEF Descend, HasPt1, Pt1
  <2> HIDE DEF d
  <2>2. Fine(m, d.m) /\ Same(m, d.m)
    BY Zenon, <2>1 DEF Fine, Same, Mono, Clean
  <2> QED BY Zenon, <1>1, <2>1, <2>2 DEF d
<1>2. CASE ~HasPt1(m, r)
  <2> DEFINE F == {"V"}
             n == EnterPage(m, r, 0, F)
             p == Popped(m)
  <2>1. F \in SUBSET Flag /\ "V" \in F
    BY Zenon DEF Flag
  <2>2. d = [m |-> n, pt |-> p]
    BY Zenon, <1>2 DEF Descend, HasPt1
  <2>3. d.m = n /\ d.pt = p
    BY <2>2
  <2> HIDE DEF F, d
  <2>4. /\ n \in Ram /\ Differ(m, n, r, 0) /\ n.table[r][0] = [ppn |-> p, flags |-> F] /\ p \in Page
        /\ ~Panicked(n) /\ Owned(m) /\ r \notin Free(m) =>
                 /\ Owned(n) /\ Taken(n) \subseteq Taken(m) /\ Free(n) \subseteq Free(m)
                 /\ p \in Free(m) /\ p # r /\ \A j \in Index : m.table[p][j] = null_pte
    BY <1>0, <2>1, PutPage
  <2>5. /\ Owned(n) /\ Taken(n) \subseteq Taken(m) /\ Free(n) \subseteq Free(m)
        /\ p \in Page \ {r} /\ \A j \in Index : m.table[p][j] = null_pte
    BY Zenon, <1>0, <2>3, <2>4 DEF d
  <2>6. HasPt1(n, r) /\ Pt1(n, r) = p
    BY <2>1, <2>4 DEF HasPt1, Pt1, Valid
  <2> HIDE DEF n, p
  <2>7. ASSUME NEW q \in Page \ Taken(m), NEW u \in Vpn
        PROVE  (HasPt0(n, q, u) <=> HasPt0(m, q, u)) /\ Entry(n, q, u) = Entry(m, q, u)
    <3>1. n.table[r][0].ppn = p
      BY <2>4
    <3> QED BY <1>2, <2>4, <2>5, <3>1, RootWrite
  <2>8. Clean(m, n)
    <3>1. ASSUME NEW q \in Page, NEW j \in Index, Descends(n.table[q][j])
          PROVE  Descends(m.table[q][j])
      <4>1. ~Descends(n.table[r][0])
        BY <2>4 DEF Descends, F
      <4> QED BY Zenon, <2>4, <3>1, <4>1 DEF Differ
    <3> QED BY Zenon, <3>1 DEF Clean, Marked
  <2>9. Fine(m, n) /\ Same(m, n)
    BY Zenon, <2>5, <2>7, <2>8 DEF Fine, Same, Mono
  <2> QED BY Zenon, <1>2, <2>3, <2>6, <2>9 DEF d
<1> QED BY Zenon, <1>1, <1>2

(* walk_pt at the second table: no space changes.                            *)
LEMMA DescendTable ==
  ASSUME NEW m \in Ram, Owned(m), NEW r \in Page \ Taken(m), NEW v \in Vpn, HasPt1(m, r),
         ~Panicked(Descend(m, Pt1(m, r), VPN1(v)).m)
  PROVE  LET d == Descend(m, Pt1(m, r), VPN1(v))
         IN /\ Fine(m, d.m) /\ Same(m, d.m)
            /\ HasPt0(d.m, r, v) /\ Pt0(d.m, r, v) = d.pt
            /\ HasPt0(m, r, v) => d.m = m
<1> DEFINE t == Pt1(m, r)
           i == VPN1(v)
           d == Descend(m, t, i)
<1>0. i \in Index /\ 0 \in Index /\ t \in Page /\ t \in Mapped(m) /\ t \notin Free(m) /\ t # r
  BY VpnFacts, Tree DEF Owned, Taken
<1>1. CASE HasPt0(m, r, v)
  <2>1. d.m = m /\ d.pt = Pt0(m, r, v)
    BY Zenon, <1>1 DEF Descend, HasPt0, Pt0
  <2> HIDE DEF d
  <2>2. Fine(m, d.m) /\ Same(m, d.m)
    BY Zenon, <2>1 DEF Fine, Same, Mono, Clean
  <2> QED BY Zenon, <1>1, <2>1, <2>2 DEF d
<1>2. CASE ~HasPt0(m, r, v)
  <2> DEFINE F == {"V"}
             n == EnterPage(m, t, i, F)
             p == Popped(m)
  <2>1. F \in SUBSET Flag /\ "V" \in F
    BY Zenon DEF Flag
  <2>2. d = [m |-> n, pt |-> p]
    BY Zenon, <1>2 DEF Descend, HasPt0
  <2>3. d.m = n /\ d.pt = p
    BY <2>2
  <2> HIDE DEF F, d, t, i
  <2>4. /\ n \in Ram /\ Differ(m, n, t, i) /\ n.table[t][i] = [ppn |-> p, flags |-> F] /\ p \in Page
        /\ ~Panicked(n) /\ Owned(m) /\ t \notin Free(m) =>
                 /\ Owned(n) /\ Taken(n) \subseteq Taken(m) /\ Free(n) \subseteq Free(m)
                 /\ p \in Free(m) /\ p # t /\ \A j \in Index : m.table[p][j] = null_pte
    BY <1>0, <2>1, PutPage
  <2>5. /\ Owned(n) /\ Taken(n) \subseteq Taken(m) /\ Free(n) \subseteq Free(m)
        /\ p \in Page \ {t} /\ \A j \in Index : m.table[p][j] = null_pte
    BY Zenon, <1>0, <2>3, <2>4 DEF d, t, i
  <2> HIDE DEF n, p
  <2>6. HasPt0(n, r, v) /\ Pt0(n, r, v) = p
    <3>1. n.table[r][0] = m.table[r][0]
      BY Zenon, <1>0, <2>4 DEF Differ
    <3>2. HasPt1(n, r) /\ Pt1(n, r) = t
      BY ZenonT(30), <3>1 DEF HasPt1, Pt1, t
    <3> QED BY <2>1, <2>4, <3>2 DEF HasPt0, Pt0, Valid, i
  <2>7. ASSUME NEW q \in Page \ Taken(m), NEW u \in Vpn
        PROVE  (HasPt0(m, q, u) => HasPt0(n, q, u)) /\ Entry(n, q, u) = Entry(m, q, u)
    <3>1. n.table[t][i].ppn = p
      BY SMTT(30), <2>4
    <3>2. Differ(m, n, Pt1(m, r), VPN1(v))
      BY Zenon, <2>4 DEF t, i
    <3>3. n.table[Pt1(m, r)][VPN1(v)].ppn = p
      BY Zenon, <3>1 DEF t, i
    <3>4. n.table[Pt1(m, r)][VPN1(v)].ppn \in Page \ {Pt1(m, r)}
      BY Zenon, <2>5, <3>3 DEF t
    <3>5. \A j \in Index : m.table[n.table[Pt1(m, r)][VPN1(v)].ppn][j] = null_pte
      BY Zenon, <2>5, <3>3
    <3> QED BY SMTT(30), <1>2, <3>2, <3>4, <3>5, TableWrite
  <2>8. Clean(m, n)
    BY Zenon, <1>0, <2>4 DEF Differ, Clean, Marked, Taken
  <2>9. Fine(m, n) /\ Same(m, n)
    BY Zenon, <2>5, <2>7, <2>8 DEF Fine, Same, Mono
  <2> QED BY Zenon, <1>2, <2>3, <2>6, <2>9 DEF d, t, i
<1> QED BY Zenon, <1>1, <1>2

LEMMA WalkFields ==
  ASSUME NEW m \in Ram, NEW r \in Page, NEW v \in Vpn
  PROVE  LET w == walk_pt(m, r, v)
         IN /\ w.m \in Ram /\ w.pt \in Page
            /\ w.m.data = m.data /\ w.m.heap = m.heap /\ w.m.objs = m.objs
            /\ Panicked(m) => Panicked(w.m)
<1> DEFINE d == Descend(m, r, 0)
           w == Descend(d.m, d.pt, VPN1(v))
<1>1. walk_pt(m, r, v) = w
  BY Zenon, VpnFacts DEF walk_pt
<1>2. /\ d.m \in Ram /\ d.pt \in Page
      /\ d.m.data = m.data /\ d.m.heap = m.heap /\ d.m.objs = m.objs
      /\ Panicked(m) => Panicked(d.m)
  BY Zenon, VpnFacts, DescendFields
<1> HIDE DEF d
<1>3. /\ w.m \in Ram /\ w.pt \in Page
      /\ w.m.data = d.m.data /\ w.m.heap = d.m.heap /\ w.m.objs = d.m.objs
      /\ Panicked(d.m) => Panicked(w.m)
  BY Zenon, <1>2, VpnFacts, DescendFields
<1> QED BY Zenon, <1>1, <1>2, <1>3

(* walk_pt makes the tables for a page, and no page of any space changes.    *)
LEMMA Walk ==
  ASSUME NEW m \in Ram, Owned(m), NEW r \in Page \ Taken(m), NEW v \in Vpn,
         ~Panicked(walk_pt(m, r, v).m)
  PROVE  LET w == walk_pt(m, r, v)
         IN /\ Fine(m, w.m) /\ Same(m, w.m)
            /\ HasPt0(w.m, r, v) /\ Pt0(w.m, r, v) = w.pt
            /\ HasPt0(m, r, v) => w.m = m
<1> DEFINE d == Descend(m, r, 0)
           w == Descend(d.m, d.pt, VPN1(v))
<1>1. walk_pt(m, r, v) = w
  BY Zenon, VpnFacts DEF walk_pt
<1>2. d.m \in Ram /\ d.pt \in Page
  BY Zenon, VpnFacts, DescendFields
<1>3. ~Panicked(d.m) /\ ~Panicked(w.m)
  <2> HIDE DEF d
  <2>1. Panicked(d.m) => Panicked(w.m)
    BY Zenon, <1>2, VpnFacts, DescendFields
  <2> QED BY Zenon, <1>1, <2>1
<1>4. /\ Fine(m, d.m) /\ Same(m, d.m) /\ HasPt1(d.m, r) /\ Pt1(d.m, r) = d.pt
      /\ HasPt1(m, r) => d.m = m
  BY Zenon, <1>3, DescendRoot
<1> HIDE DEF d
<1>5. Owned(d.m) /\ r \in Page \ Taken(d.m) /\ Taken(d.m) \subseteq Taken(m)
  BY Zenon, <1>4 DEF Fine
<1>6. /\ Fine(d.m, w.m) /\ Same(d.m, w.m) /\ HasPt0(w.m, r, v) /\ Pt0(w.m, r, v) = w.pt
      /\ HasPt0(d.m, r, v) => w.m = d.m
  BY <1>2, <1>3, <1>4, <1>5, DescendTable
<1> HIDE DEF w
<1>7. Fine(m, w.m)
  BY Zenon, <1>4, <1>6, FineTrans
<1>8. Same(m, w.m)
  BY Zenon, <1>4, <1>5, <1>6 DEF Same
<1>9. HasPt0(m, r, v) => w.m = m
  BY Zenon, <1>4, <1>6 DEF HasPt0
<1> QED BY Zenon, <1>1, <1>6, <1>7, <1>8, <1>9

(* memory_alloc_and_map_page: the entry of the page and no other changes, to *)
(* a page of the free list.                                                  *)
LEMMA MapPage ==
  ASSUME NEW m \in Ram, NEW r \in Page, NEW v \in Vpn, NEW fl \in SUBSET Flag
  PROVE  LET n == memory_alloc_and_map_page(m, r, v, fl)
         IN /\ n \in Ram /\ n.data = m.data /\ n.heap = m.heap /\ n.objs = m.objs
            /\ Panicked(m) => Panicked(n)
            /\ ~Panicked(n) /\ Owned(m) /\ r \notin Taken(m) =>
                 /\ Fine(m, n) /\ HasPt0(n, r, v)
                 /\ Entry(n, r, v).ppn \in Free(m)
                 /\ Entry(n, r, v).flags = Entry(m, r, v).flags \cup {"V"} \cup fl
                 /\ \A q \in Page \ Taken(m), u \in Vpn :
                      q # r \/ u # v => Entry(n, q, u) = Entry(m, q, u)
<1> DEFINE w == walk_pt(m, r, v)
           i == VPN0(v)
           F == w.m.table[w.pt][i].flags \cup {"V"} \cup fl
           n == EnterPage(w.m, w.pt, i, F)
           p == Popped(w.m)
<1>0. memory_alloc_and_map_page(m, r, v, fl) = n
  BY Zenon DEF memory_alloc_and_map_page
<1>1. /\ w.m \in Ram /\ w.pt \in Page
      /\ w.m.data = m.data /\ w.m.heap = m.heap /\ w.m.objs = m.objs
      /\ Panicked(m) => Panicked(w.m)
  BY Zenon, WalkFields
<1>2. ~Panicked(w.m) /\ Owned(m) /\ r \notin Taken(m) =>
         /\ Fine(m, w.m) /\ Same(m, w.m)
         /\ HasPt0(w.m, r, v) /\ Pt0(w.m, r, v) = w.pt
  BY Zenon, Walk
<1> HIDE DEF w
<1>3. i \in Index /\ VPN1(v) \in Index
  BY Zenon, VpnFacts
<1>4. F \in SUBSET Flag /\ "V" \in F
  <2> HIDE DEF i
  <2>1. w.m.table[w.pt][i] \in Pte
    BY <1>1, <1>3 DEF Ram
  <2>2. w.m.table[w.pt][i].flags \subseteq Flag
    BY Zenon, <2>1 DEF Pte
  <2> QED BY Zenon, <2>2 DEF Flag
<1> HIDE DEF F, i
<1>5. /\ n \in Ram /\ Differ(w.m, n, w.pt, i) /\ n.table[w.pt][i] = [ppn |-> p, flags |-> F]
      /\ p \in Page /\ n.data = w.m.data /\ n.heap = w.m.heap /\ n.objs = w.m.objs
      /\ Panicked(w.m) => Panicked(n)
      /\ ~Panicked(n) /\ Owned(w.m) /\ w.pt \notin Free(w.m) =>
           /\ Owned(n) /\ Taken(n) \subseteq Taken(w.m) /\ Free(n) \subseteq Free(w.m)
           /\ p \in Free(w.m) /\ p # w.pt
  BY SMTT(30), <1>1, <1>3, <1>4, PutPage
<1> HIDE DEF n, p
<1>6. ASSUME ~Panicked(n), Owned(m), r \notin Taken(m)
      PROVE  /\ Fine(m, n) /\ HasPt0(n, r, v)
             /\ Entry(n, r, v).ppn \in Free(m)
             /\ Entry(n, r, v).flags = Entry(m, r, v).flags \cup {"V"} \cup fl
             /\ \A q \in Page \ Taken(m), u \in Vpn :
                  q # r \/ u # v => Entry(n, q, u) = Entry(m, q, u)
  <2>1. /\ Fine(m, w.m) /\ Same(m, w.m)
        /\ HasPt0(w.m, r, v) /\ Pt0(w.m, r, v) = w.pt
    BY Zenon, <1>2, <1>5, <1>6
  <2>2. /\ Owned(w.m) /\ r \in Page \ Taken(w.m) /\ Taken(w.m) \subseteq Taken(m)
        /\ Free(w.m) \subseteq Free(m)
    BY ZenonT(30), <1>6, <2>1 DEF Fine
  <2>3. w.pt \in Mapped(w.m) /\ w.pt \notin Free(w.m)
    BY SMTT(30), <1>1, <2>1, <2>2, Tree DEF Owned
  <2>4. /\ Owned(n) /\ Taken(n) \subseteq Taken(w.m) /\ Free(n) \subseteq Free(w.m)
        /\ p \in Free(w.m)
    BY Zenon, <1>5, <1>6, <2>2, <2>3
  <2>5. ASSUME NEW q \in Page \ Taken(w.m), NEW u \in Vpn
        PROVE  /\ HasPt0(n, q, u) <=> HasPt0(w.m, q, u)
               /\ Entry(n, q, u) = IF q = r /\ u = v THEN n.table[w.pt][i] ELSE Entry(w.m, q, u)
    BY SMTT(30), <1>1, <1>5, <2>1, <2>2, LeafWrite DEF i
  <2>6. Fine(w.m, n)
    <3>1. Clean(w.m, n)
      BY Zenon, <1>5, <2>3 DEF Differ, Clean, Marked, Taken
    <3> QED BY Zenon, <2>4, <2>5, <3>1 DEF Fine, Mono
  <2>7. Entry(w.m, r, v).flags = w.m.table[w.pt][i].flags
    BY Zenon, <2>1, EntryIs DEF i
  <2>8. Entry(n, r, v) = [ppn |-> p, flags |-> F]
    BY Zenon, <1>5, <2>2, <2>5
  <2>9. Entry(w.m, r, v) = Entry(m, r, v)
    BY Zenon, <1>6, <2>1 DEF Same
  <2>10. ASSUME NEW q \in Page \ Taken(m), NEW u \in Vpn, q # r \/ u # v
         PROVE  Entry(n, q, u) = Entry(m, q, u)
    BY Zenon, <2>1, <2>2, <2>5, <2>10 DEF Same
  <2> QED BY <2>1, <2>2, <2>4, <2>5, <2>6, <2>7, <2>8, <2>9, <2>10, FineTrans DEF F
<1> QED BY Zenon, <1>0, <1>1, <1>5, <1>6
-----------------------------------------------------------------------------
Room(m) == [block |-> m.heap.block, off |-> 0, size |-> m.heap.room]
Limit(b) == IF b = HEAP THEN HEAP_INIT ELSE PAGE_SIZE

LEMMA ApartIs ==
  ASSUME NEW m
  PROVE  HeapApart(m) <=>
           \A k \in DOMAIN m.objs :
             /\ m.objs[k].off >= 0 /\ m.objs[k].off + m.objs[k].size <= Limit(m.objs[k].block)
             /\ ~Overlap(m.objs[k], Room(m))
             /\ \A j \in DOMAIN m.objs : j # k => ~Overlap(m.objs[k], m.objs[j])
  BY Zenon DEF HeapApart, Room, Limit

LEMMA OverlapSym ==
  ASSUME NEW a, NEW b, Overlap(a, b)
  PROVE  Overlap(b, a)
  BY Zenon DEF Overlap

(* A new object that is apart from the others and from the room.             *)
LEMMA ApartAppend ==
  ASSUME NEW m \in Ram, HeapApart(m), NEW n, NEW o \in Object, n.objs = Append(m.objs, o),
         o.off + o.size <= Limit(o.block), ~Overlap(o, Room(n)),
         \A k \in 1 .. Len(m.objs) : ~Overlap(m.objs[k], Room(n)) /\ ~Overlap(m.objs[k], o)
  PROVE  HeapApart(n)
<1> DEFINE s == m.objs
           t == n.objs
           L == Len(s)
<1>1. s \in Seq(Object) /\ L \in Nat /\ DOMAIN s = 1 .. L
  BY DEF Ram
<1>2. DOMAIN t = 1 .. L + 1 /\ t[L + 1] = o /\ \A k \in 1 .. L : t[k] = s[k]
  BY <1>1
<1>3. \A k \in 1 .. L :
        /\ s[k].off >= 0 /\ s[k].off + s[k].size <= Limit(s[k].block)
        /\ \A j \in 1 .. L : j # k => ~Overlap(s[k], s[j])
  BY Zenon, <1>1, ApartIs
<1>4. o.off >= 0
  BY DEF Object
<1> HIDE DEF s, t, L
<1>5. ASSUME NEW k \in DOMAIN t
      PROVE  /\ t[k].off >= 0 /\ t[k].off + t[k].size <= Limit(t[k].block)
             /\ ~Overlap(t[k], Room(n))
             /\ \A j \in DOMAIN t : j # k => ~Overlap(t[k], t[j])
  <2>1. \A j \in 1 .. L : ~Overlap(s[j], Room(n)) /\ ~Overlap(s[j], o) /\ ~Overlap(o, s[j])
    BY Zenon, OverlapSym DEF s, L
  <2>2. \A j \in DOMAIN t : j \in 1 .. L \/ (j = L + 1 /\ j \notin 1 .. L)
    BY <1>1, <1>2
  <2>3. CASE k \in 1 .. L
    BY Zenon, <1>2, <1>3, <2>1, <2>2, <2>3
  <2>4. CASE k = L + 1
    BY Zenon, <1>2, <1>4, <2>1, <2>2, <2>4
  <2> QED BY Zenon, <2>2, <2>3, <2>4
<1> QED BY Zenon, <1>5, ApartIs DEF t

LEMMA HeapAppend ==
  ASSUME NEW m \in Ram, NEW n \in Ram, NEW o \in Object, n.objs = Append(m.objs, o)
  PROVE  Heap(n) \subseteq Heap(m) \cup {n.heap.block, o.block}
<1>1. m.objs \in Seq(Object) /\ Len(m.objs) \in Nat
  BY DEF Ram
<1>2. /\ Len(n.objs) = Len(m.objs) + 1 /\ n.objs[Len(m.objs) + 1] = o
      /\ \A k \in 1 .. Len(m.objs) : n.objs[k] = m.objs[k]
  BY <1>1
<1>3. \A k \in 1 .. Len(n.objs) : k = Len(m.objs) + 1 \/ k \in 1 .. Len(m.objs)
  BY <1>1, <1>2
<1> QED BY Zenon, <1>2, <1>3 DEF Heap

(* The heap grows by an object, in its block or in a page of the free list.  *)
LEMMA HeapOwned ==
  ASSUME NEW m \in Ram, Owned(m), NEW n \in Ram, NEW o \in Object, n.objs = Append(m.objs, o),
         n.free_list = m.free_list, n.table = m.table,
         {n.heap.block, o.block} \ Heap(m) \subseteq Page \ (Taken(m) \cup {main_pt2}),
         n.heap.room <= Limit(n.heap.block), HeapApart(n)
  PROVE  /\ Owned(n) /\ Free(n) = Free(m) /\ Mapped(n) = Mapped(m)
         /\ Heap(n) \subseteq Heap(m) \cup {n.heap.block, o.block}
<1>1. Free(n) = Free(m)
  BY Zenon DEF Free
<1>2. Mapped(n) = Mapped(m)
  BY Zenon DEF Mapped
<1>3. Heap(n) \subseteq Heap(m) \cup {n.heap.block, o.block}
  BY Zenon, HeapAppend
<1>4. \A b \in Heap(n) : b \notin Free(m) /\ b \notin Mapped(m) /\ b # main_pt2
  BY Zenon, <1>3 DEF Owned, Taken
<1>5. /\ main_pt2 \notin Taken(n)
      /\ Free(n) \cap Mapped(n) = {} /\ Free(n) \cap Heap(n) = {} /\ Mapped(n) \cap Heap(n) = {}
  BY Zenon, <1>1, <1>2, <1>4 DEF Owned, Taken
<1>6. /\ \A k, j \in 1 .. Len(n.free_list) : n.free_list[k] = n.free_list[j] => k = j
      /\ \A t, u \in Page : \A i, j \in Index :
           /\ Valid(n.table[t][i]) /\ Valid(n.table[u][j])
           /\ n.table[t][i].ppn = n.table[u][j].ppn
           => t = u /\ i = j
      /\ \A p \in Free(n), i \in Index : n.table[p][i] = null_pte
  BY <1>1 DEF Owned
<1>7. n.heap.room <= IF n.heap.block = HEAP THEN HEAP_INIT ELSE PAGE_SIZE
  BY Zenon DEF Limit
<1> QED BY Zenon, <1>1, <1>2, <1>3, <1>5, <1>6, <1>7 DEF Owned

(* kmalloc: objects and room stay apart, in pages of the free list.          *)
LEMMA Kmalloc ==
  ASSUME NEW m \in Ram, NEW size \in 1 .. PAGE_SIZE
  PROVE  LET n == kmalloc(m, size)
         IN /\ n \in Ram /\ n.table = m.table /\ n.data = m.data
            /\ Panicked(m) => Panicked(n)
            /\ ~Panicked(n) /\ Owned(m) =>
                 Owned(n) /\ Taken(n) \subseteq Taken(m) /\ Free(n) \subseteq Free(m)
<1> DEFINE n == kmalloc(m, size)
           a == memory_alloc_page(m)
           p == Popped(m)
           room == m.heap.room
           b == m.heap.block
<1>0. /\ room \in Nat /\ b \in Block /\ m.objs \in Seq(Object)
      /\ PAGE_SIZE \in Nat /\ size \in Nat \ {0} /\ PAGE_SIZE - size \in Nat
      /\ b \in Heap(m)
  BY Sizes DEF Ram, Heap
<1>1. /\ a \in Ram /\ p \in Page /\ p \in Block
      /\ a.table = m.table /\ a.data = m.data /\ a.heap = m.heap /\ a.objs = m.objs
      /\ m.free_list = <<>> => Panicked(a)
      /\ m.free_list # <<>> => (Panicked(a) <=> Panicked(m))
  BY Zenon, AllocFields DEF Block
<1>2. Owned(m) /\ m.free_list # <<>> =>
        /\ Owned(a) /\ p \in Free(m) /\ p # main_pt2
        /\ Free(a) = Free(m) \ {p} /\ Mapped(a) = Mapped(m) /\ Heap(a) = Heap(m)
        /\ p \notin Taken(a) /\ Taken(a) \subseteq Taken(m)
  BY Zenon, AllocOwned
<1>3. p # HEAP
  BY <1>1, Sizes DEF Page, HEAP
<1>4. \A k \in 1 .. Len(m.objs) : m.objs[k] \in Object /\ m.objs[k].block \in Heap(m)
  <2>1. ASSUME NEW k \in 1 .. Len(m.objs) PROVE m.objs[k] \in Object
    BY <1>0
  <2>2. ASSUME NEW k \in 1 .. Len(m.objs) PROVE m.objs[k].block \in Block
    BY Zenon, <2>1 DEF Object
  <2> QED BY Zenon, <2>1, <2>2 DEF Heap
<1>5. Owned(m) => /\ HeapApart(m) /\ room <= Limit(b)
                  /\ \A k \in 1 .. Len(m.objs) : ~Overlap(m.objs[k], Room(m))
  BY <1>0, ApartIs DEF Owned, Limit
<1>6. CASE size <= room
  <2> DEFINE o == [block |-> b, off |-> room - size, size |-> size]
             h == [block |-> b, room |-> room - size]
  <2>1. n = [m EXCEPT !.heap = h, !.objs = Append(m.objs, o)]
    <3>1. h = [m.heap EXCEPT !.room = room - size] /\ m \in Ram
      BY DEF Ram
    <3>2. n = [m EXCEPT !.heap.room = room - size, !.objs = Append(m.objs, o)]
      BY Zenon, <1>6 DEF kmalloc, HeapEnd
    <3> HIDE DEF h, o, n
    <3> QED BY Zenon, <3>1, <3>2 DEF Ram
  <2>2. o \in Object /\ h \in [block : Block, room : Nat]
    BY <1>0, <1>6 DEF Object
  <2>3. Append(m.objs, o) \in Seq(Object)
    BY <1>0, <2>2
  <2> HIDE DEF n, o, h
  <2>4. /\ n \in Ram /\ n.table = m.table /\ n.data = m.data /\ n.free_list = m.free_list
        /\ n.heap = h /\ n.objs = Append(m.objs, o)
    BY Zenon, <2>1, <2>2, <2>3 DEF Ram
  <2>5. n.panic = m.panic
    BY Zenon, <2>1 DEF Ram
  <2>6. Panicked(n) <=> Panicked(m)
    BY <2>5, Zenon DEF Panicked
  <2>7. ASSUME Owned(m)
        PROVE  Owned(n) /\ Taken(n) \subseteq Taken(m) /\ Free(n) \subseteq Free(m)
    <3>1. /\ o.off + o.size <= Limit(o.block) /\ ~Overlap(o, Room(n))
      BY <1>0, <1>5, <1>6, <2>4, <2>7 DEF Overlap, Room, o, h
    <3>2. ASSUME NEW k \in 1 .. Len(m.objs)
          PROVE  ~Overlap(m.objs[k], Room(n)) /\ ~Overlap(m.objs[k], o)
      <4>1. m.objs[k] \in Object /\ ~Overlap(m.objs[k], Room(m))
        BY Zenon, <1>4, <1>5, <2>7
      <4> DEFINE c == m.objs[k]
      <4> HIDE DEF c
      <4>2. c.off \in Nat /\ c.size \in Nat \ {0} /\ (c.block = b => c.off >= room)
        BY SMTT(30), <1>0, <4>1 DEF Overlap, Room, Object, c
      <4>3. Room(n) = [block |-> b, off |-> 0, size |-> room - size]
        BY <2>4 DEF Room, h
      <4>4. ~Overlap(c, o)
        BY <1>0, <1>6, <4>2 DEF Overlap, o
      <4>5. ~Overlap(c, Room(n))
        BY <1>0, <1>6, <4>2, <4>3 DEF Overlap
      <4> QED BY Zenon, <4>4, <4>5 DEF c
    <3>3. HeapApart(n)
      BY Zenon, <1>5, <2>2, <2>4, <2>7, <3>1, <3>2, ApartAppend
    <3>4. n.heap.block = b /\ o.block = b /\ n.heap.room <= Limit(b)
      <4>1. Limit(b) \in Nat /\ room <= Limit(b)
        BY Zenon, <1>5, <2>7, Sizes DEF Limit
      <4> QED BY <1>0, <1>6, <2>4, <4>1 DEF o, h
    <3>5. Owned(n) /\ Free(n) = Free(m) /\ Mapped(n) = Mapped(m) /\ Heap(n) \subseteq Heap(m) \cup {b}
      BY <1>0, <2>2, <2>4, <2>7, <3>3, <3>4, HeapOwned
    <3> QED BY Zenon, <1>0, <3>5 DEF Taken
  <2> QED BY Zenon, <2>4, <2>6, <2>7 DEF n
<1>7. ASSUME room < size, NEW h \in [block : Block, room : Nat], NEW o \in Object,
             n = [a EXCEPT !.heap = h, !.objs = Append(m.objs, o)],
             o.block = p, o.off + o.size <= PAGE_SIZE,
             (h.block = p /\ h.room <= o.off) \/ h = m.heap
      PROVE  /\ n \in Ram /\ n.table = m.table /\ n.data = m.data
             /\ Panicked(m) => Panicked(n)
             /\ ~Panicked(n) /\ Owned(m) =>
                  Owned(n) /\ Taken(n) \subseteq Taken(m) /\ Free(n) \subseteq Free(m)
  <2>1. Append(m.objs, o) \in Seq(Object)
    BY <1>0, <1>7
  <2> HIDE DEF n, a, p
  <2>2. /\ n \in Ram /\ n.table = m.table /\ n.data = m.data /\ n.free_list = a.free_list
        /\ n.heap = h /\ n.objs = Append(m.objs, o)
    BY Zenon, <1>1, <1>7, <2>1 DEF Ram
  <2>3. n.panic = a.panic
    BY Zenon, <1>1, <1>7 DEF Ram
  <2>4. (Panicked(n) <=> Panicked(a)) /\ (Panicked(m) => Panicked(a))
    BY <1>1, <2>3, Zenon DEF Panicked
  <2>5. ASSUME ~Panicked(n), Owned(m)
        PROVE  Owned(n) /\ Taken(n) \subseteq Taken(m) /\ Free(n) \subseteq Free(m)
    <3>1. /\ Owned(a) /\ p \in Free(m) /\ p # main_pt2 /\ p \notin Heap(m)
          /\ Free(a) = Free(m) \ {p} /\ Mapped(a) = Mapped(m) /\ Heap(a) = Heap(m)
          /\ p \notin Taken(a) /\ Taken(a) \subseteq Taken(m)
      BY Zenon, <1>1, <1>2, <2>4, <2>5 DEF Owned
    <3>2. o.off \in Nat /\ o.size \in Nat \ {0} /\ h.room \in Nat
      BY Zenon, <1>7 DEF Object
    <3>3. b # p /\ m.heap.block = b /\ m.heap.room = room
      BY Zenon, <1>0, <3>1
    <3>4. o.off + o.size <= Limit(o.block) /\ ~Overlap(o, Room(n))
      BY <1>3, <1>7, <2>2, <3>2, <3>3 DEF Limit, Overlap, Room
    <3>5. ASSUME NEW k \in 1 .. Len(m.objs)
          PROVE  ~Overlap(m.objs[k], Room(n)) /\ ~Overlap(m.objs[k], o)
      <4>1. m.objs[k].block # p /\ ~Overlap(m.objs[k], Room(m))
        BY Zenon, <1>4, <1>5, <2>5, <3>1
      <4> QED BY Zenon, <1>7, <2>2, <4>1 DEF Overlap, Room
    <3>6. HeapApart(n)
      BY Zenon, <1>5, <1>7, <2>2, <2>5, <3>4, <3>5, ApartAppend
    <3>7. n.heap.room <= Limit(n.heap.block)
      <4>1. room <= Limit(b) /\ Limit(p) = PAGE_SIZE
        BY Zenon, <1>3, <1>5, <2>5 DEF Limit
      <4>2. h.block = p /\ h.room <= o.off => h.room <= PAGE_SIZE
        BY <1>0, <1>7, <3>2
      <4> QED BY Zenon, <1>7, <2>2, <4>1, <4>2
    <3>8. {n.heap.block, o.block} \ Heap(a) \subseteq Page \ (Taken(a) \cup {main_pt2})
      BY <1>0, <1>1, <1>7, <2>2, <3>1
    <3>9. /\ Owned(n) /\ Free(n) = Free(a) /\ Mapped(n) = Mapped(a)
          /\ Heap(n) \subseteq Heap(a) \cup {n.heap.block, o.block}
      BY ZenonT(30), <1>1, <1>7, <2>2, <3>1, <3>6, <3>7, <3>8, HeapOwned
    <3> QED BY <1>0, <1>7, <2>2, <3>1, <3>9 DEF Taken
  <2> QED BY Zenon, <2>2, <2>4, <2>5
<1>8. CASE room < size /\ NewBlock(m, size)
  <2> DEFINE o == [block |-> p, off |-> PAGE_SIZE - size, size |-> size]
             h == [block |-> p, room |-> PAGE_SIZE - size]
  <2>1. n = [a EXCEPT !.heap = h, !.objs = Append(m.objs, o)]
    BY <1>0, <1>1, <1>8 DEF kmalloc
  <2>2. o \in Object /\ h \in [block : Block, room : Nat]
    BY Zenon, <1>0, <1>1 DEF Object
  <2>3. o.block = p /\ o.off + o.size <= PAGE_SIZE /\ h.block = p /\ h.room <= o.off
    BY <1>0
  <2> HIDE DEF n, o, h, a
  <2> QED BY Zenon, <1>7, <1>8, <2>1, <2>2, <2>3 DEF n
<1>9. CASE room < size /\ ~NewBlock(m, size)
  <2> DEFINE o == [block |-> p, off |-> 0, size |-> size]
             h == m.heap
  <2>1. n = [a EXCEPT !.objs = Append(m.objs, o)]
    BY <1>0, <1>1, <1>9 DEF kmalloc
  <2>2. n = [a EXCEPT !.heap = h, !.objs = Append(m.objs, o)]
    BY Zenon, <1>1, <2>1 DEF Ram
  <2>3. o \in Object /\ h \in [block : Block, room : Nat]
    BY Zenon, <1>0, <1>1 DEF Object, Ram
  <2>4. o.block = p /\ o.off + o.size <= PAGE_SIZE
    BY <1>0
  <2> HIDE DEF n, o, h, a
  <2> QED BY Zenon, <1>7, <1>9, <2>2, <2>3, <2>4 DEF n, h
<1> QED BY <1>0, <1>6, <1>8, <1>9
-----------------------------------------------------------------------------
(* A step that leaves the tables alone leaves every space alone.             *)
LEMMA TableSame ==
  ASSUME NEW m, NEW n, n.table = m.table, Owned(n), Taken(n) \subseteq Taken(m), Free(n) \subseteq Free(m)
  PROVE  Fine(m, n) /\ \A q, u : Entry(n, q, u) = Entry(m, q, u)
<1>1. Mono(m, n)
  BY Zenon DEF Mono, HasPt0, HasPt1, Pt1
<1>2. Clean(m, n)
  BY Zenon DEF Clean, Marked
<1>3. \A q, u : Entry(n, q, u) = Entry(m, q, u)
  BY Zenon DEF Entry
<1> QED BY Zenon, <1>1, <1>2, <1>3 DEF Fine

LEMMA KmallocFine ==
  ASSUME NEW m \in Ram, NEW size \in 1 .. PAGE_SIZE, Owned(m), ~Panicked(kmalloc(m, size))
  PROVE  LET n == kmalloc(m, size)
         IN Fine(m, n) /\ \A q, u : Entry(n, q, u) = Entry(m, q, u)
<1>1. LET n == kmalloc(m, size)
      IN /\ n.table = m.table /\ Owned(n) /\ Taken(n) \subseteq Taken(m) /\ Free(n) \subseteq Free(m)
  BY Zenon, Kmalloc
<1> QED BY Zenon, <1>1, TableSame

LEMMA AllocFine ==
  ASSUME NEW m \in Ram, Owned(m), ~Panicked(memory_alloc_page(m))
  PROVE  LET n == memory_alloc_page(m)
             p == Popped(m)
         IN /\ Fine(m, n) /\ \A q, u : Entry(n, q, u) = Entry(m, q, u)
            /\ p \in Free(m) /\ p \in Page \ Taken(n) /\ p # main_pt2
            /\ \A i \in Index : n.table[p][i] = null_pte
<1> DEFINE n == memory_alloc_page(m)
           p == Popped(m)
<1>1. n.table = m.table /\ m.free_list # <<>>
  BY Zenon, AllocFields
<1>2. /\ Owned(n) /\ p \in Free(m) /\ p \in Page /\ p # main_pt2 /\ Free(n) = Free(m) \ {p}
      /\ p \notin Taken(n) /\ Taken(n) \subseteq Taken(m)
      /\ \A i \in Index : n.table[p][i] = null_pte
  BY Zenon, <1>1, AllocOwned
<1> HIDE DEF n, p
<1>3. Fine(m, n) /\ \A q, u : Entry(n, q, u) = Entry(m, q, u)
  <2>1. Free(n) \subseteq Free(m)
    BY Zenon, <1>2
  <2> QED BY Zenon, <1>1, <1>2, <2>1, TableSame
<1> QED BY Zenon, <1>2, <1>3 DEF n, p

(* A write to a user page. *)
LEMMA DataWrite ==
  ASSUME NEW m \in Ram, NEW p \in Page, NEW x \in Value
  PROVE  LET n == [m EXCEPT !.data[p] = x]
         IN /\ n \in Ram /\ n.table = m.table /\ n.heap = m.heap /\ n.objs = m.objs
            /\ n.data[p] = x /\ \A q \in Page : q # p => n.data[q] = m.data[q]
            /\ Panicked(n) <=> Panicked(m)
            /\ Free(n) = Free(m) /\ Taken(n) = Taken(m)
            /\ Owned(m) => Fine(m, n)
            /\ \A q, u : Entry(n, q, u) = Entry(m, q, u)
<1> DEFINE n == [m EXCEPT !.data[p] = x]
<1>1. /\ n \in Ram /\ n.table = m.table /\ n.heap = m.heap /\ n.objs = m.objs
      /\ n.free_list = m.free_list
      /\ n.data[p] = x /\ \A q \in Page : q # p => n.data[q] = m.data[q]
  BY Zenon DEF Ram
<1>2. n.panic = m.panic
  BY Zenon DEF Ram
<1>3. Panicked(n) <=> Panicked(m)
  BY <1>2, Zenon DEF Panicked
<1> HIDE DEF n
<1>4. Free(n) = Free(m) /\ Mapped(n) = Mapped(m) /\ Heap(n) = Heap(m)
  BY Zenon, <1>1 DEF Free, Mapped, Heap
<1>5. Taken(n) = Taken(m)
  BY Zenon, <1>4 DEF Taken
<1>6. HeapApart(n) <=> HeapApart(m)
  BY Zenon, <1>1 DEF HeapApart
<1>7. Owned(n) <=> Owned(m)
  BY <1>1, <1>4, <1>5, <1>6 DEF Owned
<1>8. \A q, u : Entry(n, q, u) = Entry(m, q, u)
  BY Zenon, <1>1 DEF Entry
<1>9. Owned(m) => Fine(m, n)
  BY Zenon, <1>1, <1>4, <1>5, <1>7, TableSame
<1> QED BY Zenon, <1>1, <1>3, <1>4, <1>5, <1>8, <1>9 DEF n

LEMMA EntryTyped ==
  ASSUME NEW m \in Ram, NEW r \in Page, NEW v \in Vpn
  PROVE  Entry(m, r, v) \in Pte
<1>1. 0 \in Index /\ VPN1(v) \in Index /\ VPN0(v) \in Index /\ VPN2(v) = 0
  BY Zenon, VpnFacts
<1>2. \A t \in Page, i \in Index : m.table[t][i] \in Pte /\ m.table[t][i].ppn \in Page
  BY DEF Ram, Pte
<1>3. null_pte \in Pte
  BY Sizes DEF null_pte, Pte, Page
<1> QED BY Zenon, <1>1, <1>2, <1>3 DEF Entry

(* A user page is mapped at one place of one space.                          *)
LEMMA EntryInjective ==
  ASSUME NEW m \in Ram, Owned(m), NEW q \in Page \ Taken(m), NEW r \in Page \ Taken(m),
         NEW u \in Vpn, NEW v \in Vpn, Valid(Entry(m, q, u))
  PROVE  /\ HasPt0(m, q, u) /\ Entry(m, q, u).ppn \in Mapped(m) /\ Entry(m, q, u).ppn \in Page
         /\ Valid(Entry(m, r, v)) /\ Entry(m, q, u).ppn = Entry(m, r, v).ppn => q = r /\ u = v
<1>1. VPN0(u) \in Index /\ VPN0(v) \in Index
  BY Zenon, VpnFacts
<1>2. ~Valid(null_pte)
  BY Zenon DEF Valid, null_pte
<1>3. HasPt0(m, q, u) /\ Entry(m, q, u) = m.table[Pt0(m, q, u)][VPN0(u)]
  BY Zenon, <1>2, EntryIs
<1>4. Pt0(m, q, u) \in Page
  BY Zenon, <1>3, Tree
<1>5. Entry(m, q, u).ppn \in Page
  BY Zenon, EntryTyped DEF Pte
<1>6. Entry(m, q, u).ppn \in Mapped(m)
  BY Zenon, <1>1, <1>3, <1>4, <1>5 DEF Mapped
<1>7. ASSUME Valid(Entry(m, r, v)), Entry(m, q, u).ppn = Entry(m, r, v).ppn
      PROVE  q = r /\ u = v
  <2>1. HasPt0(m, r, v) /\ Entry(m, r, v) = m.table[Pt0(m, r, v)][VPN0(v)]
    BY Zenon, <1>2, <1>7, EntryIs
  <2>2. Pt0(m, r, v) \in Page
    BY Zenon, <2>1, Tree
  <2>3. Pt0(m, q, u) = Pt0(m, r, v) /\ VPN0(u) = VPN0(v)
    BY <1>1, <1>3, <1>4, <1>7, <2>1, <2>2 DEF Owned
  <2>4. q = r /\ VPN1(u) = VPN1(v)
    BY Zenon, <1>3, <2>1, <2>3, Tree
  <2> QED BY Zenon, <2>3, <2>4, VpnInjective
<1> QED BY Zenon, <1>3, <1>5, <1>6, <1>7

LEMMA WalkIs ==
  ASSUME NEW m, NEW r, NEW v \in Vpn, HasPt0(m, r, v)
  PROVE  walk_pt(m, r, v) = [m |-> m, pt |-> Pt0(m, r, v)]
<1> DEFINE d == Descend(m, r, 0)
<1>1. d = [m |-> m, pt |-> Pt1(m, r)]
  BY Zenon DEF Descend, HasPt0, HasPt1, Pt1
<1>2. d.m = m /\ d.pt = Pt1(m, r)
  BY <1>1
<1>3. walk_pt(m, r, v) = Descend(d.m, d.pt, VPN1(v))
  BY Zenon, VpnFacts DEF walk_pt
<1>4. walk_pt(m, r, v) = Descend(m, Pt1(m, r), VPN1(v))
  BY Zenon, <1>2, <1>3
<1> QED BY Zenon, <1>4 DEF Descend, HasPt0, Pt0

(* memory_set_page_flags: the flags of a mapped page, and no other entry.    *)
LEMMA SetFlags ==
  ASSUME NEW m \in Ram, NEW r \in Page, NEW v \in Vpn, NEW fl \in SUBSET Flag
  PROVE  LET n == memory_set_page_flags(m, r, v, fl)
         IN /\ n \in Ram /\ n.data = m.data /\ (Panicked(n) <=> Panicked(m))
            /\ Owned(m) /\ r \notin Taken(m) /\ Valid(Entry(m, r, v)) =>
                 /\ Fine(m, n)
                 /\ Entry(n, r, v) = [ppn |-> Entry(m, r, v).ppn, flags |-> fl \cup {"V"}]
                 /\ \A q \in Page \ Taken(m), u \in Vpn :
                      q # r \/ u # v => Entry(n, q, u) = Entry(m, q, u)
<1> DEFINE t == walk_pt(m, r, v).pt
           i == VPN0(v)
           e == [ppn |-> m.table[t][i].ppn, flags |-> fl \cup {"V"}]
           n == SetEntry(m, t, i, e)
<1>0. memory_set_page_flags(m, r, v, fl) = n
  BY Zenon DEF memory_set_page_flags
<1>1. t \in Page /\ i \in Index
  BY Zenon, WalkFields, VpnFacts
<1>2. e \in Pte /\ Valid(e)
  <2> HIDE DEF t, i
  <2>1. m.table[t][i] \in Pte
    BY <1>1 DEF Ram
  <2>2. m.table[t][i].ppn \in Page
    BY Zenon, <2>1 DEF Pte
  <2> QED BY Zenon, <2>2 DEF Pte, Flag, Valid
<1>3. Valid(Entry(m, r, v)) => HasPt0(m, r, v)
  BY EntryIs DEF Valid, null_pte
<1>4. HasPt0(m, r, v) => t = Pt0(m, r, v)
  BY WalkIs
<1> HIDE DEF t, e, i
<1>5. /\ n \in Ram /\ n.data = m.data /\ (Panicked(n) <=> Panicked(m))
      /\ n.table[t][i] = e
      /\ \A x \in Page, j \in Index : x # t \/ j # i => n.table[x][j] = m.table[x][j]
  BY <1>1, <1>2, SetEntryFields
<1>6. ASSUME Owned(m), r \notin Taken(m), Valid(Entry(m, r, v))
      PROVE  /\ Fine(m, n)
             /\ Entry(n, r, v) = [ppn |-> Entry(m, r, v).ppn, flags |-> fl \cup {"V"}]
             /\ \A q \in Page \ Taken(m), u \in Vpn :
                  q # r \/ u # v => Entry(n, q, u) = Entry(m, q, u)
  <2>1. HasPt0(m, r, v) /\ t = Pt0(m, r, v) /\ Entry(m, r, v) = m.table[t][i]
    BY Zenon, <1>3, <1>4, <1>6, EntryIs DEF i
  <2>2. Entry(m, r, v).ppn \in Mapped(m)
    BY Zenon, <1>6, EntryInjective
  <2>3. e.ppn = m.table[t][i].ppn /\ e.ppn \in Mapped(m) /\ e.ppn # main_pt2
    BY Zenon, <1>6, <2>1, <2>2 DEF e, Owned, Taken
  <2>4. t \in Mapped(m) /\ t \notin Free(m)
    <3>1. t \in Mapped(m)
      BY Zenon, <1>6, <2>1, Tree
    <3>2. Free(m) \cap Mapped(m) = {}
      BY Zenon, <1>6 DEF Owned
    <3> QED BY Zenon, <3>1, <3>2
  <2>5. Owned(n) /\ Free(n) = Free(m) /\ Taken(n) \subseteq Taken(m)
    <3>1. Owned(n) /\ Free(n) = Free(m) /\ Taken(n) \subseteq Taken(m) \cup {e.ppn}
      BY <1>1, <1>2, <1>6, <2>1, <2>3, <2>4, SetOwned
    <3> QED BY Zenon, <2>3, <3>1 DEF Taken
  <2> HIDE DEF n
  <2>6. Differ(m, n, Pt0(m, r, v), VPN0(v))
    BY Zenon, <1>5, <2>1 DEF Differ, i
  <2>7. ASSUME NEW q \in Page \ Taken(m), NEW u \in Vpn
        PROVE  /\ HasPt0(n, q, u) <=> HasPt0(m, q, u)
               /\ Entry(n, q, u) = IF q = r /\ u = v THEN n.table[t][i] ELSE Entry(m, q, u)
    BY <1>6, <2>1, <2>6, LeafWrite DEF i
  <2>8. Clean(m, n)
    BY Zenon, <1>5, <2>4 DEF Clean, Marked, Taken
  <2>9. Fine(m, n)
    BY Zenon, <2>5, <2>7, <2>8 DEF Fine, Mono
  <2>10. Entry(n, r, v) = e
    BY Zenon, <1>5, <1>6, <2>7
  <2> QED BY Zenon, <2>1, <2>7, <2>9, <2>10 DEF e
<1> QED BY Zenon, <1>0, <1>5, <1>6

(* A round of memory_space_clone: a user page is copied to a page of the     *)
(* free list, which the new space gets with the flags of the old one.        *)
Copies(m, r, v) == Valid(Entry(m, r, v)) /\ "U" \in Entry(m, r, v).flags

LEMMA Clone ==
  ASSUME NEW m \in Ram, NEW r \in Page, NEW new \in Page, NEW v \in Vpn
  PROVE  LET n == ClonePage(m, r, new, v)
         IN /\ n \in Ram /\ (Panicked(m) => Panicked(n))
            /\ ~Copies(m, r, v) => n = m
            /\ /\ Copies(m, r, v) /\ ~Panicked(n) /\ Owned(m)
               /\ r \notin Taken(m) /\ new \notin Taken(m)
               => /\ Fine(m, n)
                  /\ Entry(n, new, v).flags = Entry(m, r, v).flags
                  /\ Entry(n, new, v).ppn \in Free(m)
                  /\ n.data[Entry(n, new, v).ppn] = m.data[Entry(m, r, v).ppn]
                  /\ \A x \in Page \ Free(m) : n.data[x] = m.data[x]
                  /\ \A q \in Page \ Taken(m), u \in Vpn :
                       q # new \/ u # v => Entry(n, q, u) = Entry(m, q, u)
<1>0. CASE ~Copies(m, r, v)
  BY Zenon, <1>0 DEF ClonePage, Copies
<1>1. CASE Copies(m, r, v)
  <2> DEFINE e == Entry(m, r, v)
             a == memory_alloc_page(m)
             p == Popped(m)
             x0 == a.data[e.ppn]
             c == [a EXCEPT !.data[p] = x0]
             w == walk_pt(c, new, v)
             g == w.m
             t == w.pt
             i == VPN0(v)
             f == [ppn |-> p, flags |-> e.flags]
             n == SetEntry(g, t, i, f)
  <2>0. ClonePage(m, r, new, v) = n
    BY Zenon, <1>1 DEF ClonePage, Copies, Copied
  <2>1. e \in Pte /\ e.ppn \in Page /\ e.flags \subseteq Flag /\ Valid(e)
    BY Zenon, <1>1, EntryTyped DEF Pte, Copies
  <2>2. /\ a \in Ram /\ p \in Page /\ a.data = m.data
        /\ Panicked(m) => Panicked(a)
    BY Zenon, AllocFields
  <2>3. ~Panicked(a) /\ Owned(m) =>
          /\ Fine(m, a) /\ \A q, u : Entry(a, q, u) = Entry(m, q, u)
          /\ p \in Free(m) /\ p \notin Taken(a) /\ p # main_pt2
    BY Zenon, AllocFine
  <2> HIDE DEF a, p, e
  <2>4. x0 \in Value /\ x0 = m.data[e.ppn]
    BY Zenon, <2>1, <2>2 DEF Ram
  <2> HIDE DEF x0
  <2>5. /\ c \in Ram /\ c.data[p] = x0 /\ \A q \in Page : q # p => c.data[q] = a.data[q]
        /\ Panicked(c) <=> Panicked(a)
        /\ Free(c) = Free(a) /\ Taken(c) = Taken(a)
        /\ Owned(a) => Fine(a, c)
        /\ \A q, u : Entry(c, q, u) = Entry(a, q, u)
    BY <2>2, <2>4, DataWrite
  <2> HIDE DEF c
  <2>6. g \in Ram /\ t \in Page /\ g.data = c.data /\ (Panicked(c) => Panicked(g))
    BY Zenon, <2>5, WalkFields
  <2>7. ~Panicked(g) /\ Owned(c) /\ new \notin Taken(c) =>
          Fine(c, g) /\ Same(c, g) /\ HasPt0(g, new, v) /\ Pt0(g, new, v) = t
    BY Zenon, <2>5, Walk
  <2> HIDE DEF w, g, t
  <2>8. i \in Index /\ f \in Pte /\ Valid(f) /\ f.ppn = p /\ f.flags = e.flags
    BY Zenon, <2>1, <2>2, VpnFacts DEF Pte, Valid
  <2> HIDE DEF f, i
  <2>9. /\ n \in Ram /\ n.data = g.data /\ (Panicked(n) <=> Panicked(g))
        /\ n.table[t][i] = f
        /\ \A x \in Page, j \in Index : x # t \/ j # i => n.table[x][j] = g.table[x][j]
    BY <2>6, <2>8, SetEntryFields
  <2>10. ASSUME ~Panicked(n), Owned(m), r \notin Taken(m), new \notin Taken(m)
         PROVE  /\ Fine(m, n)
                /\ Entry(n, new, v) = f /\ p \in Free(m)
                /\ n.data[p] = m.data[e.ppn]
                /\ \A x \in Page \ Free(m) : n.data[x] = m.data[x]
                /\ \A q \in Page \ Taken(m), u \in Vpn :
                     q # new \/ u # v => Entry(n, q, u) = Entry(m, q, u)
    <3>1. /\ Fine(m, a) /\ \A q, u : Entry(a, q, u) = Entry(m, q, u)
          /\ p \in Free(m) /\ p \notin Taken(a) /\ p # main_pt2
      BY Zenon, <2>3, <2>5, <2>6, <2>9, <2>10
    <3>2. Fine(a, c)
      BY Zenon, <2>5, <3>1 DEF Fine
    <3>3. Owned(c) /\ new \notin Taken(c) /\ Taken(c) \subseteq Taken(m) /\ p \notin Taken(c)
      BY Zenon, <2>5, <2>10, <3>1, <3>2 DEF Fine
    <3>4. Fine(c, g) /\ Same(c, g) /\ HasPt0(g, new, v) /\ Pt0(g, new, v) = t
      BY Zenon, <2>7, <2>9, <2>10, <3>3
    <3>5. Fine(m, g)
      BY Zenon, <3>1, <3>2, <3>4, FineTrans
    <3>6. Owned(g) /\ Taken(g) \subseteq Taken(c) /\ new \in Page \ Taken(g) /\ p \notin Taken(g)
      BY Zenon, <3>3, <3>4 DEF Fine
    <3>7. t \in Mapped(g) /\ t \in Page \ Free(g)
      <4>1. t \in Mapped(g) /\ t \in Page
        BY ZenonT(30), <2>6, <3>4, <3>6, Tree
      <4> QED BY Zenon, <3>6, <4>1 DEF Owned
    <3>8. Owned(n) /\ Free(n) = Free(g) /\ Taken(n) \subseteq Taken(g) \cup {p}
      BY <2>6, <2>8, <3>1, <3>6, <3>7, SetOwned
    <3> HIDE DEF n
    <3>9. Differ(g, n, Pt0(g, new, v), VPN0(v))
      BY Zenon, <2>9, <3>4 DEF Differ, i
    <3>10. ASSUME NEW q \in Page \ Taken(g), NEW u \in Vpn
           PROVE  /\ HasPt0(n, q, u) <=> HasPt0(g, q, u)
                  /\ Entry(n, q, u) = IF q = new /\ u = v THEN n.table[t][i] ELSE Entry(g, q, u)
      <4>1. g \in Ram /\ Owned(g) /\ new \in Page \ Taken(g) /\ HasPt0(g, new, v) /\ Pt0(g, new, v) = t
        BY Zenon, <2>6, <3>4, <3>6
      <4>2. (HasPt0(n, q, u) <=> HasPt0(g, q, u))
        BY Zenon, <3>9, <4>1, LeafWrite
      <4>3. Entry(n, q, u) = IF q = new /\ u = v THEN n.table[t][i] ELSE Entry(g, q, u)
        BY SMTT(30), <3>9, <4>1, LeafWrite DEF i
      <4> QED BY Zenon, <4>2, <4>3
    <3>11. Clean(m, n)
      <4>1. Clean(g, n)
        BY Zenon, <2>9, <3>7 DEF Clean, Marked, Taken
      <4> QED BY Zenon, <3>5, <4>1 DEF Fine, Clean
    <3>12. Mono(m, n)
      BY Zenon, <3>5, <3>10 DEF Fine, Mono
    <3>13. Fine(m, n)
      <4>1. Taken(n) \subseteq Taken(m) /\ Free(n) \subseteq Free(m)
        BY Zenon, <3>1, <3>3, <3>5, <3>6, <3>8 DEF Fine, Taken
      <4> QED BY Zenon, <3>8, <3>11, <3>12, <4>1 DEF Fine
    <3>14. Entry(n, new, v) = f
      BY Zenon, <2>9, <3>6, <3>10
    <3>15. n.data[p] = m.data[e.ppn]
      BY Zenon, <2>4, <2>5, <2>6, <2>9
    <3>16. ASSUME NEW x \in Page \ Free(m) PROVE n.data[x] = m.data[x]
      BY Zenon, <2>2, <2>5, <2>6, <2>9, <3>1
    <3>17. ASSUME NEW q \in Page \ Taken(m), NEW u \in Vpn, q # new \/ u # v
           PROVE  Entry(n, q, u) = Entry(m, q, u)
      <4>1. q \in Page \ Taken(g) /\ q \in Page \ Taken(c)
        BY Zenon, <3>3, <3>6
      <4>2. Entry(n, q, u) = Entry(g, q, u)
        BY Zenon, <3>10, <3>17, <4>1
      <4>3. Entry(g, q, u) = Entry(c, q, u)
        BY Zenon, <3>4, <4>1 DEF Same
      <4> QED BY Zenon, <2>5, <3>1, <4>2, <4>3
    <3> QED BY Zenon, <3>1, <3>13, <3>14, <3>15, <3>16, <3>17
  <2> QED BY ZenonT(30), <1>1, <2>0, <2>2, <2>5, <2>6, <2>8, <2>9, <2>10 DEF e
<1> QED BY Zenon, <1>0, <1>1
-----------------------------------------------------------------------------
(* What each round of a loop keeps, the loop keeps.                          *)
LOCAL INSTANCE WellFoundedInduction

LEMMA LeastOf ==
  ASSUME NEW S, S \subseteq Nat, S # {}
  PROVE  \E a \in S : \A b \in S : a <= b
<1> DEFINE Less == OpToRel(<, Nat)
<1>1. IsWellFoundedOn(Less, Nat)
  BY NatLessThanWellFounded, Zenon
<1>2. \E x \in S : \A y \in S : ~ (<<y, x>> \in Less)
  BY <1>1, WFMin, Zenon
<1>3. \A x, y \in Nat : <<x, y>> \in Less <=> x < y
  BY Zenon DEF OpToRel
<1> HIDE DEF Less
<1>4. PICK a \in S : \A b \in S : ~ (<<b, a>> \in Less)
  BY Zenon, <1>2
<1>5. ASSUME NEW b \in S PROVE a <= b
  <2>1. a \in Nat /\ b \in Nat /\ ~ (b < a)
    BY Zenon, <1>3, <1>4
  <2> QED BY <2>1
<1> QED BY Zenon, <1>4, <1>5

LEMMA Rounds ==
  ASSUME NEW n \in Nat, NEW S, 0 \in S, \A k \in 1 .. n : k - 1 \in S => k \in S
  PROVE  \A k \in 0 .. n : k \in S
<1> DEFINE B == {k \in 0 .. n : k \notin S}
<1>1. SUFFICES ASSUME B # {} PROVE FALSE
  BY Zenon
<1>2. B \subseteq Nat
  OBVIOUS
<1>3. PICK a \in B : \A b \in B : a <= b
  <2> HIDE DEF B
  <2> QED BY Zenon, <1>1, <1>2, LeastOf
<1>4. a \in 1 .. n /\ a - 1 \in 0 .. n /\ a \notin S /\ ~ (a <= a - 1)
  BY <1>3
<1> QED BY Zenon, <1>3, <1>4
=============================================================================
