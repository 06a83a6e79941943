---------------------------- MODULE MemoryProofs ----------------------------
(***************************************************************************)
(* Proofs about Memory, for every number of processes and pages, every     *)
(* size of tables and heap objects and every set of programs: the          *)
(* invariant MemInv is inductive, pages have one use (PagesOwned), the     *)
(* objects of the heap lie apart (HeapDisjoint), and the page tables       *)
(* implement separate address spaces (ImplementsAddrSpaces).               *)
(*                                                                         *)
(* The loops over pages come first (what a whole                           *)
(* memory_alloc_and_map_range, memory_set_range_flags, elf_load of a       *)
(* segment and memory_space_clone do to ram, from what one round does),    *)
(* then each action of Memory, as a step of MemInv and of AddrSpaces at    *)
(* once.                                                                   *)
(***************************************************************************)
EXTENDS MemoryPages, TLAPS

-----------------------------------------------------------------------------
(* Loops over pages.                                                         *)

Runs(f, n, x, g) == f = [k \in 0 .. n |-> IF k = 0 THEN x ELSE g[k][f[k - 1]]]

LEMMA RunExists ==
  ASSUME NEW n \in Nat, NEW x, NEW g
  PROVE  \E f : Runs(f, n, x, g)
<1> DEFINE S == {k \in Nat : \E f : Runs(f, k, x, g)}
<1>1. 0 \in S
  <2> DEFINE f == [k \in 0 .. 0 |-> x]
  <2>1. Runs(f, 0, x, g)
    BY DEF Runs
  <2> QED BY Zenon, <2>1
<1>2. ASSUME NEW a \in 1 .. n, a - 1 \in S PROVE a \in S
  <2>1. a - 1 \in Nat /\ a \in Nat /\ a # 0
    OBVIOUS
  <2>2. PICK f : Runs(f, a - 1, x, g)
    BY Zenon, <1>2
  <2> DEFINE h == [k \in 0 .. a |-> IF k = a THEN g[a][f[a - 1]] ELSE f[k]]
  <2>3. /\ f[0] = x /\ \A k \in 1 .. a - 1 : f[k] = g[k][f[k - 1]]
    BY <2>1, <2>2 DEF Runs
  <2>4. \A k \in 0 .. a : h[k] = IF k = 0 THEN x ELSE g[k][h[k - 1]]
    BY <2>1, <2>3
  <2>5. Runs(h, a, x, g)
    BY <2>4, Zenon DEF Runs
  <2> QED BY Zenon, <2>1, <2>5
<1> HIDE DEF S
<1>3. n \in S
  BY <1>1, <1>2, Rounds
<1> QED BY Zenon, <1>3 DEF S

(* A loop whose rounds give a state of ram for each one.                     *)
LEMMA RunTyped ==
  ASSUME NEW n \in Nat, NEW x \in Ram, NEW g, NEW f, Runs(f, n, x, g),
         \A k \in 1 .. n : \A y \in Ram : g[k][y] \in Ram
  PROVE  f[0] = x /\ (\A k \in 1 .. n : f[k] = g[k][f[k - 1]]) /\ \A k \in 0 .. n : f[k] \in Ram
<1>1. f[0] = x /\ \A k \in 1 .. n : f[k] = g[k][f[k - 1]]
  BY DEF Runs
<1> DEFINE S == {k \in 0 .. n : f[k] \in Ram}
<1>2. 0 \in S
  BY <1>1
<1>3. ASSUME NEW k \in 1 .. n, k - 1 \in S PROVE k \in S
  BY <1>1, <1>3
<1> HIDE DEF S
<1>4. \A k \in 0 .. n : k \in S
  BY Zenon, <1>2, <1>3, Rounds
<1> QED BY Zenon, <1>1, <1>4 DEF S

LEMMA SegmentTyped ==
  ASSUME NEW s \in Segments
  PROVE  /\ s.lo \in Int /\ s.memsz \in Nat /\ s.filesz \in Nat /\ s.filesz <= s.memsz
         /\ s.flags \subseteq {"R", "W", "X"}
<1>1. PICK prog \in Program : \E k \in DOMAIN prog : s = prog[k]
  BY Zenon DEF Segments
<1>2. PICK k \in DOMAIN prog : s = prog[k]
  BY Zenon, <1>1
<1> DEFINE T == [lo : Int, memsz : Nat, filesz : Nat, flags : SUBSET {"R", "W", "X"},
                 value : {prog[j].value : j \in DOMAIN prog}]
<1>3. prog \in Seq(T) /\ prog[k].filesz <= prog[k].memsz
  BY Zenon, MemoryAssumption
<1>4. prog[k] \in T
  <2> HIDE DEF T
  <2> QED BY <1>3
<1> QED BY Zenon, <1>2, <1>3, <1>4

(* A page of a segment is filled. *)
LEMMA Fill ==
  ASSUME NEW m \in Ram, NEW r \in Page, NEW v \in Vpn, NEW x \in Value
  PROVE  LET n == FillPage(m, r, v, x)
             p == Entry(m, r, v).ppn
         IN /\ n \in Ram /\ p \in Page /\ n.table = m.table
            /\ n.data[p] = x /\ \A q \in Page : q # p => n.data[q] = m.data[q]
            /\ Panicked(n) <=> Panicked(m)
            /\ Owned(m) => Fine(m, n)
            /\ \A q, u : Entry(n, q, u) = Entry(m, q, u)
<1>1. Entry(m, r, v).ppn \in Page
  BY Zenon, EntryTyped DEF Pte
<1> DEFINE p == Entry(m, r, v).ppn
           n == [m EXCEPT !.data[p] = x]
<1>2. FillPage(m, r, v, x) = n
  BY Zenon DEF FillPage
<1> HIDE DEF p
<1>3. p \in Page
  BY Zenon, <1>1 DEF p
<1>4. /\ n \in Ram /\ n.table = m.table
      /\ n.data[p] = x /\ \A q \in Page : q # p => n.data[q] = m.data[q]
      /\ Panicked(n) <=> Panicked(m)
      /\ Owned(m) => Fine(m, n)
      /\ \A q, u : Entry(n, q, u) = Entry(m, q, u)
  BY <1>3, DataWrite
<1> QED BY Zenon, <1>2, <1>3, <1>4 DEF p

(* The rounds of memory_alloc_and_map_range. *)
MapRounds(f, m, r, lo, n, fl) ==
  /\ f[0] = m /\ f[n] = memory_alloc_and_map_range(m, r, lo, n, fl)
  /\ \A k \in 1 .. n : f[k] = memory_alloc_and_map_page(f[k - 1], r, lo + k - 1, fl)
  /\ \A k \in 0 .. n : f[k] \in Ram

LEMMA MapRuns ==
  ASSUME NEW m \in Ram, NEW r \in Page, NEW lo \in Nat, NEW n \in Nat, lo + n <= NVPN,
         NEW fl \in SUBSET Flag
  PROVE  \E f : MapRounds(f, m, r, lo, n, fl)
<1> DEFINE x == m
           Step(y, k) == memory_alloc_and_map_page(y, r, lo + k - 1, fl)
           Rec(h) == h = [k \in 0 .. n |-> IF k = 0 THEN x ELSE Step(h[k - 1], k)]
           f == CHOOSE h : Rec(h)
<1>1. memory_alloc_and_map_range(m, r, lo, n, fl) = f[n]
  BY Zenon DEF memory_alloc_and_map_range
<1>2. n \in Nat /\ x \in Ram /\ \A k \in 1 .. n : \A y \in Ram : Step(y, k) \in Ram
  <2>1. n \in Nat /\ \A k \in 1 .. n : lo + k - 1 \in Vpn
    BY Sizes DEF Vpn
  <2> QED BY Zenon, <2>1, MapPage
<1> HIDE DEF x, Step
<1>3. \E h : Rec(h)
  <2> DEFINE g == [k \in 1 .. n |-> [y \in Ram |-> Step(y, k)]]
  <2>1. PICK h : Runs(h, n, x, g)
    BY Zenon, <1>2, RunExists
  <2>2. \A k \in 1 .. n : \A y \in Ram : g[k][y] = Step(y, k) /\ g[k][y] \in Ram
    BY Zenon, <1>2
  <2> HIDE DEF g
  <2>3. /\ \A k \in 1 .. n : h[k] = g[k][h[k - 1]]
        /\ \A k \in 0 .. n : h[k] \in Ram
    BY <1>2, <2>1, <2>2, RunTyped
  <2>4. \A k \in 0 .. n : k # 0 => g[k][h[k - 1]] = Step(h[k - 1], k)
    BY <1>2, <2>2, <2>3
  <2>5. Rec(h)
    BY Zenon, <2>1, <2>4 DEF Runs
  <2> QED BY Zenon, <2>5
<1>4. Rec(f)
  BY Zenon, <1>3
<1> HIDE DEF f
<1> DEFINE g == [k \in 1 .. n |-> [y \in Ram \cup {f[k - 1]} |-> Step(y, k)]]
<1>5. /\ \A k \in 0 .. n : k # 0 => g[k][f[k - 1]] = Step(f[k - 1], k)
      /\ \A k \in 1 .. n : \A y \in Ram : g[k][y] \in Ram
  BY <1>2
<1> HIDE DEF g
<1>6. Runs(f, n, x, g)
  BY Zenon, <1>4, <1>5 DEF Runs
<1>7. /\ f[0] = x /\ \A k \in 1 .. n : f[k] = g[k][f[k - 1]]
      /\ \A k \in 0 .. n : f[k] \in Ram
  BY Zenon, <1>2, <1>5, <1>6, RunTyped
<1>8. \A k \in 1 .. n : f[k] = Step(f[k - 1], k)
  BY <1>2, <1>5, <1>7
<1>9. MapRounds(f, m, r, lo, n, fl)
  BY Zenon, <1>1, <1>7, <1>8 DEF x, Step, MapRounds
<1> QED BY Zenon, <1>9

(* The rounds of memory_set_range_flags. *)
FlagRounds(f, m, r, lo, n, fl) ==
  /\ f[0] = m /\ f[n] = memory_set_range_flags(m, r, lo, n, fl)
  /\ \A k \in 1 .. n : f[k] = memory_set_page_flags(f[k - 1], r, lo + k - 1, fl)
  /\ \A k \in 0 .. n : f[k] \in Ram

LEMMA FlagRuns ==
  ASSUME NEW m \in Ram, NEW r \in Page, NEW lo \in Nat, NEW n \in Nat, lo + n <= NVPN,
         NEW fl \in SUBSET Flag
  PROVE  \E f : FlagRounds(f, m, r, lo, n, fl)
<1> DEFINE x == m
           Step(y, k) == memory_set_page_flags(y, r, lo + k - 1, fl)
           Rec(h) == h = [k \in 0 .. n |-> IF k = 0 THEN x ELSE Step(h[k - 1], k)]
           f == CHOOSE h : Rec(h)
<1>1. memory_set_range_flags(m, r, lo, n, fl) = f[n]
  BY DEF memory_set_range_flags
<1>2. n \in Nat /\ x \in Ram /\ \A k \in 1 .. n : \A y \in Ram : Step(y, k) \in Ram
  <2>1. n \in Nat /\ \A k \in 1 .. n : lo + k - 1 \in Vpn
    BY Sizes DEF Vpn
  <2> QED BY Zenon, <2>1, SetFlags
<1> HIDE DEF x, Step
<1>3. \E h : Rec(h)
  <2> DEFINE g == [k \in 1 .. n |-> [y \in Ram |-> Step(y, k)]]
  <2>1. PICK h : Runs(h, n, x, g)
    BY Zenon, <1>2, RunExists
  <2>2. \A k \in 1 .. n : \A y \in Ram : g[k][y] = Step(y, k) /\ g[k][y] \in Ram
    BY SMTT(30), <1>2
  <2> HIDE DEF g
  <2>3. /\ \A k \in 1 .. n : h[k] = g[k][h[k - 1]]
        /\ \A k \in 0 .. n : h[k] \in Ram
    BY <1>2, <2>1, <2>2, RunTyped
  <2>4. \A k \in 0 .. n : k # 0 => g[k][h[k - 1]] = Step(h[k - 1], k)
    BY <1>2, <2>2, <2>3
  <2>5. Rec(h)
    BY <2>1, <2>4 DEF Runs
  <2> QED BY <2>5
<1>4. Rec(f)
  BY SMTT(30), <1>3
<1> HIDE DEF f
<1> DEFINE g == [k \in 1 .. n |-> [y \in Ram \cup {f[k - 1]} |-> Step(y, k)]]
<1>5. /\ \A k \in 0 .. n : k # 0 => g[k][f[k - 1]] = Step(f[k - 1], k)
      /\ \A k \in 1 .. n : \A y \in Ram : g[k][y] \in Ram
  BY <1>2
<1> HIDE DEF g
<1>6. Runs(f, n, x, g)
  BY <1>4, <1>5 DEF Runs
<1>7. /\ f[0] = x /\ \A k \in 1 .. n : f[k] = g[k][f[k - 1]]
      /\ \A k \in 0 .. n : f[k] \in Ram
  BY <1>2, <1>5, <1>6, RunTyped
<1>8. \A k \in 1 .. n : f[k] = Step(f[k - 1], k)
  BY <1>2, <1>5, <1>7
<1>9. FlagRounds(f, m, r, lo, n, fl)
  BY <1>1, <1>7, <1>8 DEF x, Step, FlagRounds
<1> QED BY <1>9

(* The rounds that fill a segment. *)
FillRounds(f, m, r, s, n) ==
  /\ f[0] = m /\ f[n] = Filled(m, r, s, n)
  /\ \A k \in 1 .. n : f[k] = FillPage(f[k - 1], r, s.lo + k - 1, FileValue(s, s.lo + k - 1))
  /\ \A k \in 0 .. n : f[k] \in Ram

LEMMA FillRuns ==
  ASSUME NEW m \in Ram, NEW r \in Page, NEW s \in Segments, InBounds(s),
         NEW n \in 0 .. s.memsz
  PROVE  \E f : FillRounds(f, m, r, s, n)
<1> DEFINE x == m
           Step(y, k) == FillPage(y, r, s.lo + k - 1, FileValue(s, s.lo + k - 1))
           Rec(h) == h = [k \in 0 .. n |-> IF k = 0 THEN x ELSE Step(h[k - 1], k)]
           f == CHOOSE h : Rec(h)
<1>1. Filled(m, r, s, n) = f[n]
  BY Zenon DEF Filled
<1>2. n \in Nat /\ x \in Ram /\ \A k \in 1 .. n : \A y \in Ram : Step(y, k) \in Ram
  <2>1. s.lo \in Int /\ s.memsz \in Nat /\ s.filesz \in Nat /\ s.filesz <= s.memsz
    BY Zenon, SegmentTyped
  <2>2. n \in Nat /\ \A k \in 1 .. n : s.lo + k - 1 \in Vpn
    BY <2>1, Sizes DEF Vpn, InBounds
  <2>3. \A v : FileValue(s, v) \in Value
    BY Zenon DEF FileValue, Value
  <2> QED BY Zenon, <2>2, <2>3, Fill
<1> HIDE DEF x, Step
<1>3. \E h : Rec(h)
  <2> DEFINE g == [k \in 1 .. n |-> [y \in Ram |-> Step(y, k)]]
  <2>1. PICK h : Runs(h, n, x, g)
    BY Zenon, <1>2, RunExists
  <2>2. \A k \in 1 .. n : \A y \in Ram : g[k][y] = Step(y, k) /\ g[k][y] \in Ram
    BY Zenon, <1>2
  <2> HIDE DEF g
  <2>3. /\ \A k \in 1 .. n : h[k] = g[k][h[k - 1]]
        /\ \A k \in 0 .. n : h[k] \in Ram
    BY <1>2, <2>1, <2>2, RunTyped
  <2>4. \A k \in 0 .. n : k # 0 => g[k][h[k - 1]] = Step(h[k - 1], k)
    BY <1>2, <2>2, <2>3
  <2>5. Rec(h)
    BY Zenon, <2>1, <2>4 DEF Runs
  <2> QED BY Zenon, <2>5
<1>4. Rec(f)
  BY Zenon, <1>3
<1> HIDE DEF f
<1> DEFINE g == [k \in 1 .. n |-> [y \in Ram \cup {f[k - 1]} |-> Step(y, k)]]
<1>5. /\ \A k \in 0 .. n : k # 0 => g[k][f[k - 1]] = Step(f[k - 1], k)
      /\ \A k \in 1 .. n : \A y \in Ram : g[k][y] \in Ram
  BY <1>2
<1> HIDE DEF g
<1>6. Runs(f, n, x, g)
  BY Zenon, <1>4, <1>5 DEF Runs
<1>7. /\ f[0] = x /\ \A k \in 1 .. n : f[k] = g[k][f[k - 1]]
      /\ \A k \in 0 .. n : f[k] \in Ram
  BY Zenon, <1>2, <1>5, <1>6, RunTyped
<1>8. \A k \in 1 .. n : f[k] = Step(f[k - 1], k)
  BY <1>2, <1>5, <1>7
<1>9. FillRounds(f, m, r, s, n)
  BY Zenon, <1>1, <1>7, <1>8 DEF x, Step, FillRounds
<1> QED BY Zenon, <1>9

(* The rounds of memory_space_clone. *)
CloneRounds(f, m, r) ==
  /\ f[0] = memory_alloc_page(m) /\ f[NVPN] = memory_space_clone(m, r)
  /\ \A k \in 1 .. NVPN : f[k] = ClonePage(f[k - 1], r, Popped(m), k - 1)
  /\ \A k \in 0 .. NVPN : f[k] \in Ram

LEMMA CloneRuns ==
  ASSUME NEW m \in Ram, NEW r \in Page
  PROVE  \E f : CloneRounds(f, m, r)
<1> DEFINE x == memory_alloc_page(m)
           Step(y, k) == ClonePage(y, r, Popped(m), k - 1)
           Rec(h) == h = [k \in 0 .. NVPN |-> IF k = 0 THEN x ELSE Step(h[k - 1], k)]
           f == CHOOSE h : Rec(h)
<1>1. memory_space_clone(m, r) = f[NVPN]
  BY Zenon DEF memory_space_clone
<1>2. NVPN \in Nat /\ x \in Ram /\ \A k \in 1 .. NVPN : \A y \in Ram : Step(y, k) \in Ram
  <2>1. NVPN \in Nat /\ \A k \in 1 .. NVPN : k - 1 \in Vpn
    BY Sizes DEF Vpn
  <2> QED BY Zenon, <2>1, AllocFields, Clone
<1> HIDE DEF x, Step
<1>3. \E h : Rec(h)
  <2> DEFINE g == [k \in 1 .. NVPN |-> [y \in Ram |-> Step(y, k)]]
  <2>1. PICK h : Runs(h, NVPN, x, g)
    BY Zenon, <1>2, RunExists
  <2>2. \A k \in 1 .. NVPN : \A y \in Ram : g[k][y] = Step(y, k) /\ g[k][y] \in Ram
    BY Zenon, <1>2
  <2> HIDE DEF g
  <2>3. /\ \A k \in 1 .. NVPN : h[k] = g[k][h[k - 1]]
        /\ \A k \in 0 .. NVPN : h[k] \in Ram
    BY <1>2, <2>1, <2>2, RunTyped
  <2>4. \A k \in 0 .. NVPN : k # 0 => g[k][h[k - 1]] = Step(h[k - 1], k)
    BY <1>2, <2>2, <2>3
  <2>5. Rec(h)
    BY Zenon, <2>1, <2>4 DEF Runs
  <2> QED BY Zenon, <2>5
<1>4. Rec(f)
  BY Zenon, <1>3
<1> HIDE DEF f
<1> DEFINE g == [k \in 1 .. NVPN |-> [y \in Ram \cup {f[k - 1]} |-> Step(y, k)]]
<1>5. /\ \A k \in 0 .. NVPN : k # 0 => g[k][f[k - 1]] = Step(f[k - 1], k)
      /\ \A k \in 1 .. NVPN : \A y \in Ram : g[k][y] \in Ram
  BY <1>2
<1> HIDE DEF g
<1>6. Runs(f, NVPN, x, g)
  BY Zenon, <1>4, <1>5 DEF Runs
<1>7. /\ f[0] = x /\ \A k \in 1 .. NVPN : f[k] = g[k][f[k - 1]]
      /\ \A k \in 0 .. NVPN : f[k] \in Ram
  BY Zenon, <1>2, <1>5, <1>6, RunTyped
<1>8. \A k \in 1 .. NVPN : f[k] = Step(f[k - 1], k)
  BY <1>2, <1>5, <1>7
<1>9. CloneRounds(f, m, r)
  BY Zenon, <1>1, <1>7, <1>8 DEF x, Step, CloneRounds
<1> QED BY Zenon, <1>9
-----------------------------------------------------------------------------
Within(u, lo, hi) == lo <= u /\ u < hi

(* Pages lo .. hi - 1 of the space r have been mapped.                       *)
Ranged(m, n, r, lo, hi, fl) ==
  /\ Fine(m, n)
  /\ \A q \in Page \ Taken(m), u \in Vpn :
       q # r \/ ~Within(u, lo, hi) => Entry(n, q, u) = Entry(m, q, u)
  /\ \A u \in Vpn : Within(u, lo, hi) =>
       Entry(n, r, u).flags = Entry(m, r, u).flags \cup {"V"} \cup fl

LEMMA MapRange ==
  ASSUME NEW m \in Ram, NEW r \in Page, NEW lo \in Nat, NEW n \in Nat, lo + n <= NVPN,
         NEW fl \in SUBSET Flag
  PROVE  LET z == memory_alloc_and_map_range(m, r, lo, n, fl)
         IN /\ z \in Ram /\ z.data = m.data
            /\ ~Panicked(z) /\ Owned(m) /\ r \notin Taken(m) => Ranged(m, z, r, lo, lo + n, fl)
<1>r. PICK f : MapRounds(f, m, r, lo, n, fl)
  BY Zenon, MapRuns
<1>1. /\ f[0] = m /\ f[n] = memory_alloc_and_map_range(m, r, lo, n, fl)
      /\ \A k \in 1 .. n : f[k] = memory_alloc_and_map_page(f[k - 1], r, lo + k - 1, fl)
      /\ \A k \in 0 .. n : f[k] \in Ram
  BY Zenon, <1>r DEF MapRounds
<1> DEFINE Good(k) == /\ f[k].data = m.data
                      /\ ~Panicked(f[k]) /\ Owned(m) /\ r \notin Taken(m) =>
                           Ranged(m, f[k], r, lo, lo + k, fl)
           S == {k \in 0 .. n : Good(k)}
<1>2. 0 \in S
  <2>1. Owned(m) => Fine(m, m)
    BY Zenon DEF Fine, Mono, Clean
  <2>2. \A u \in Vpn : ~Within(u, lo, lo + 0)
    BY Sizes DEF Within, Vpn
  <2>3. Owned(m) => Ranged(m, m, r, lo, lo + 0, fl)
    BY Zenon, <2>1, <2>2 DEF Ranged
  <2> QED BY <1>1, <2>3
<1>3. ASSUME NEW k \in 1 .. n, k - 1 \in S PROVE k \in S
  <2> DEFINE x == f[k - 1]
             y == f[k]
             v == lo + k - 1
  <2>1. v \in Vpn /\ x \in Ram /\ k - 1 \in 0 .. n /\ k \in 0 .. n
        /\ lo + k = v + 1 /\ lo + (k - 1) = v
    BY <1>1, Sizes DEF Vpn
  <2>2. y = memory_alloc_and_map_page(x, r, v, fl)
    BY Zenon, <1>1
  <2>3. Good(k - 1)
    BY Zenon, <1>3
  <2>4. /\ x.data = m.data
        /\ ~Panicked(x) /\ Owned(m) /\ r \notin Taken(m) => Ranged(m, x, r, lo, v, fl)
    BY Zenon, <2>1, <2>3
  <2> HIDE DEF x, y, v
  <2>5. /\ y \in Ram /\ y.data = x.data
        /\ Panicked(x) => Panicked(y)
        /\ ~Panicked(y) /\ Owned(x) /\ r \notin Taken(x) =>
             /\ Fine(x, y)
             /\ Entry(y, r, v).flags = Entry(x, r, v).flags \cup {"V"} \cup fl
             /\ \A q \in Page \ Taken(x), u \in Vpn :
                  q # r \/ u # v => Entry(y, q, u) = Entry(x, q, u)
    BY <2>1, <2>2, MapPage
  <2>6. ASSUME ~Panicked(y), Owned(m), r \notin Taken(m)
        PROVE  Ranged(m, y, r, lo, v + 1, fl)
    <3>1. Ranged(m, x, r, lo, v, fl)
      BY Zenon, <2>4, <2>5, <2>6
    <3>2. Fine(m, x) /\ Owned(x) /\ Taken(x) \subseteq Taken(m)
      BY Zenon, <3>1 DEF Ranged, Fine
    <3>3. /\ Fine(x, y)
          /\ Entry(y, r, v).flags = Entry(x, r, v).flags \cup {"V"} \cup fl
          /\ \A q \in Page \ Taken(x), u \in Vpn :
               q # r \/ u # v => Entry(y, q, u) = Entry(x, q, u)
      BY Zenon, <2>5, <2>6, <3>2
    <3>4. Fine(m, y)
      BY Zenon, <3>2, <3>3, FineTrans
    <3>5. ASSUME NEW u \in Vpn
          PROVE  /\ Within(u, lo, v + 1) <=> (Within(u, lo, v) \/ u = v)
                 /\ ~Within(v, lo, v)
      BY <2>1 DEF Within, Vpn, v
    <3>6. ASSUME NEW q \in Page \ Taken(m), NEW u \in Vpn, q # r \/ ~Within(u, lo, v + 1)
          PROVE  Entry(y, q, u) = Entry(m, q, u)
      BY Zenon, <3>1, <3>2, <3>3, <3>5, <3>6 DEF Ranged
    <3>7. ASSUME NEW u \in Vpn, Within(u, lo, v + 1)
          PROVE  Entry(y, r, u).flags = Entry(m, r, u).flags \cup {"V"} \cup fl
      <4>1. CASE u = v
        <5>1. Entry(x, r, v) = Entry(m, r, v)
          BY Zenon, <2>1, <2>6, <3>1, <3>5 DEF Ranged
        <5> QED BY Zenon, <3>3, <4>1, <5>1
      <4>2. CASE u # v
        <5>1. Within(u, lo, v)
          BY Zenon, <3>5, <3>7, <4>2
        <5> QED BY Zenon, <2>6, <3>1, <3>2, <3>3, <4>2, <5>1 DEF Ranged
      <4> QED BY Zenon, <4>1, <4>2
    <3> QED BY Zenon, <3>4, <3>6, <3>7 DEF Ranged
  <2>7. y.data = m.data /\ (~Panicked(y) /\ Owned(m) /\ r \notin Taken(m) =>
                              Ranged(m, y, r, lo, lo + k, fl))
    BY Zenon, <2>1, <2>4, <2>5, <2>6
  <2> QED BY Zenon, <2>1, <2>7 DEF y
<1> HIDE DEF S
<1>4. n \in S
  BY <1>2, <1>3, Rounds
<1>5. Good(n)
  BY Zenon, <1>4 DEF S
<1> QED BY <1>1, <1>5

(* Pages lo .. hi - 1 of the space r have got the flags fl.                  *)
Flagged(m, n, r, lo, hi, fl) ==
  /\ Fine(m, n)
  /\ \A q \in Page \ Taken(m), u \in Vpn :
       q # r \/ ~Within(u, lo, hi) => Entry(n, q, u) = Entry(m, q, u)
  /\ \A u \in Vpn : Within(u, lo, hi) =>
       Entry(n, r, u) = [ppn |-> Entry(m, r, u).ppn, flags |-> fl \cup {"V"}]

LEMMA FlagRange ==
  ASSUME NEW m \in Ram, NEW r \in Page, NEW lo \in Nat, NEW n \in Nat, lo + n <= NVPN,
         NEW fl \in SUBSET Flag, Owned(m), r \notin Taken(m),
         \A u \in Vpn : Within(u, lo, lo + n) => Valid(Entry(m, r, u))
  PROVE  LET z == memory_set_range_flags(m, r, lo, n, fl)
         IN z \in Ram /\ z.data = m.data /\ Flagged(m, z, r, lo, lo + n, fl)
<1>r. PICK f : FlagRounds(f, m, r, lo, n, fl)
  BY Zenon, FlagRuns
<1>1. /\ f[0] = m /\ f[n] = memory_set_range_flags(m, r, lo, n, fl)
      /\ \A k \in 1 .. n : f[k] = memory_set_page_flags(f[k - 1], r, lo + k - 1, fl)
      /\ \A k \in 0 .. n : f[k] \in Ram
  BY Zenon, <1>r DEF FlagRounds
<1> DEFINE Good(k) == f[k].data = m.data /\ Flagged(m, f[k], r, lo, lo + k, fl)
           S == {k \in 0 .. n : Good(k)}
<1>2. 0 \in S
  <2>1. Fine(m, m)
    BY Zenon DEF Fine, Mono, Clean
  <2>2. \A u \in Vpn : ~Within(u, lo, lo + 0)
    BY Sizes DEF Within, Vpn
  <2>3. Flagged(m, m, r, lo, lo + 0, fl)
    BY Zenon, <2>1, <2>2 DEF Flagged
  <2> QED BY <1>1, <2>3
<1>3. ASSUME NEW k \in 1 .. n, k - 1 \in S PROVE k \in S
  <2> DEFINE x == f[k - 1]
             y == f[k]
             v == lo + k - 1
  <2>1. v \in Vpn /\ x \in Ram /\ k - 1 \in 0 .. n /\ k \in 0 .. n
        /\ lo + k = v + 1 /\ lo + (k - 1) = v /\ Within(v, lo, lo + n)
    BY <1>1, Sizes DEF Vpn, Within
  <2>2. y = memory_set_page_flags(x, r, v, fl)
    BY Zenon, <1>1
  <2>3. Good(k - 1)
    BY Zenon, <1>3
  <2>4. x.data = m.data /\ Flagged(m, x, r, lo, v, fl)
    BY Zenon, <2>1, <2>3
  <2>5. ASSUME NEW u \in Vpn
        PROVE  /\ Within(u, lo, v + 1) <=> (Within(u, lo, v) \/ u = v)
               /\ ~Within(v, lo, v)
    BY <2>1 DEF Within, Vpn, v
  <2> HIDE DEF x, y, v
  <2>6. Fine(m, x) /\ Owned(x) /\ Taken(x) \subseteq Taken(m) /\ r \notin Taken(x)
    BY Zenon, <2>4 DEF Flagged, Fine
  <2>7. Entry(x, r, v) = Entry(m, r, v) /\ Valid(Entry(m, r, v))
    BY Zenon, <2>1, <2>4, <2>5 DEF Flagged
  <2>8. /\ y.data = x.data /\ Fine(x, y)
        /\ Entry(y, r, v) = [ppn |-> Entry(x, r, v).ppn, flags |-> fl \cup {"V"}]
        /\ \A q \in Page \ Taken(x), u \in Vpn :
             q # r \/ u # v => Entry(y, q, u) = Entry(x, q, u)
    BY <2>1, <2>2, <2>6, <2>7, SetFlags
  <2>9. Fine(m, y)
    BY Zenon, <2>6, <2>8, FineTrans
  <2>10. ASSUME NEW q \in Page \ Taken(m), NEW u \in Vpn, q # r \/ ~Within(u, lo, v + 1)
         PROVE  Entry(y, q, u) = Entry(m, q, u)
    BY Zenon, <2>4, <2>5, <2>6, <2>8, <2>10 DEF Flagged
  <2>11. ASSUME NEW u \in Vpn, Within(u, lo, v + 1)
         PROVE  Entry(y, r, u) = [ppn |-> Entry(m, r, u).ppn, flags |-> fl \cup {"V"}]
    <3>1. CASE u = v
      BY Zenon, <2>7, <2>8, <3>1
    <3>2. CASE u # v
      <4>1. Within(u, lo, v) /\ Entry(y, r, u) = Entry(x, r, u)
        BY Zenon, <2>5, <2>6, <2>8, <2>11, <3>2
      <4> QED BY Zenon, <2>4, <4>1 DEF Flagged
    <3> QED BY Zenon, <3>1, <3>2
  <2>12. y.data = m.data /\ Flagged(m, y, r, lo, lo + k, fl)
    BY Zenon, <2>1, <2>4, <2>8, <2>9, <2>10, <2>11 DEF Flagged
  <2> QED BY Zenon, <2>1, <2>12 DEF y
<1> HIDE DEF S
<1>4. n \in S
  BY <1>2, <1>3, Rounds
<1>5. Good(n)
  BY Zenon, <1>4 DEF S
<1> QED BY <1>1, <1>5

(* Pages lo .. hi - 1 of the space r have been filled from the segment s.    *)
Loaded(m, n, r, s, hi) ==
  /\ Fine(m, n) /\ (Panicked(n) <=> Panicked(m)) /\ n.table = m.table
  /\ \A q, u : Entry(n, q, u) = Entry(m, q, u)
  /\ \A u \in Vpn : Within(u, s.lo, hi) => n.data[Entry(m, r, u).ppn] = FileValue(s, u)
  /\ \A p \in Page : n.data[p] = m.data[p] \/ \E u \in Vpn : Within(u, s.lo, hi) /\ p = Entry(m, r, u).ppn

LEMMA FillRange ==
  ASSUME NEW m \in Ram, NEW r \in Page, NEW s \in Segments, InBounds(s), NEW n \in 0 .. s.memsz,
         Owned(m), r \notin Taken(m),
         \A u \in Vpn : Within(u, s.lo, s.lo + s.memsz) => Valid(Entry(m, r, u))
  PROVE  LET z == Filled(m, r, s, n)
         IN z \in Ram /\ Loaded(m, z, r, s, s.lo + n)
<1>0. /\ s.lo \in Nat /\ s.memsz \in Nat /\ s.lo + s.memsz <= NVPN
      /\ NVPN \in Nat /\ Vpn = 0 .. NVPN - 1 /\ n \in Nat
  BY SegmentTyped, Sizes DEF InBounds, Vpn
<1>r. PICK f : FillRounds(f, m, r, s, n)
  BY Zenon, FillRuns
<1>1. /\ f[0] = m /\ f[n] = Filled(m, r, s, n)
      /\ \A k \in 1 .. n :
           f[k] = FillPage(f[k - 1], r, s.lo + k - 1, FileValue(s, s.lo + k - 1))
      /\ \A k \in 0 .. n : f[k] \in Ram
  BY Zenon, <1>r DEF FillRounds
<1> DEFINE S == {k \in 0 .. n : Loaded(m, f[k], r, s, s.lo + k)}
<1>2. 0 \in S
  <2>1. Fine(m, m)
    BY Zenon DEF Fine, Mono, Clean
  <2>2. \A u \in Vpn : ~Within(u, s.lo, s.lo + 0)
    BY <1>0 DEF Within
  <2>3. Loaded(m, m, r, s, s.lo + 0)
    BY Zenon, <2>1, <2>2 DEF Loaded
  <2> QED BY <1>0, <1>1, <2>3
<1>3. ASSUME NEW k \in 1 .. n, k - 1 \in S PROVE k \in S
  <2> DEFINE x == f[k - 1]
             y == f[k]
             v == s.lo + k - 1
             a == FileValue(s, v)
             p == Entry(m, r, v).ppn
  <2>1. v \in Vpn /\ x \in Ram /\ k - 1 \in 0 .. n /\ k \in 0 .. n
        /\ s.lo + k = v + 1 /\ s.lo + (k - 1) = v /\ Within(v, s.lo, s.lo + s.memsz)
    BY SMTT(30), <1>0, <1>1 DEF Within
  <2>2. y = FillPage(x, r, v, a)
    BY Zenon, <1>1
  <2>3. Loaded(m, x, r, s, v)
    BY Zenon, <1>3, <2>1
  <2>4. ASSUME NEW u \in Vpn
        PROVE  /\ Within(u, s.lo, v + 1) <=> (Within(u, s.lo, v) \/ u = v)
               /\ Within(u, s.lo, v + 1) => Within(u, s.lo, s.lo + s.memsz)
               /\ ~Within(v, s.lo, v)
    <3>1. u \in Int /\ v \in Int /\ s.lo \in Int /\ s.memsz \in Int
          /\ s.lo <= v /\ v < s.lo + s.memsz
      BY <1>0, <2>1 DEF Within
    <3> HIDE DEF v
    <3> QED BY <3>1 DEF Within
  <2>5. a \in Value
    BY Zenon DEF FileValue, Value
  <2> HIDE DEF x, y, v, a, p
  <2>6. Fine(m, x) /\ Owned(x) /\ Entry(x, r, v).ppn = p
    BY Zenon, <2>3 DEF Loaded, Fine, p
  <2>7. /\ y.table = x.table /\ p \in Page /\ Fine(x, y) /\ (Panicked(y) <=> Panicked(x))
        /\ y.data[p] = a /\ \A q \in Page : q # p => y.data[q] = x.data[q]
        /\ \A q, u : Entry(y, q, u) = Entry(x, q, u)
    BY <2>1, <2>2, <2>5, <2>6, Fill
  <2>8. Fine(m, y)
    BY Zenon, <2>6, <2>7, FineTrans
  <2>9. y.table = m.table /\ (Panicked(y) <=> Panicked(m)) /\ \A q, u : Entry(y, q, u) = Entry(m, q, u)
    BY Zenon, <2>3, <2>7 DEF Loaded
  <2>10. ASSUME NEW u \in Vpn, Within(u, s.lo, v + 1)
         PROVE  y.data[Entry(m, r, u).ppn] = FileValue(s, u)
    <3>1. CASE u = v
      BY Zenon, <2>7, <3>1 DEF p, a
    <3>2. CASE u # v
      <4>1. Within(u, s.lo, v) /\ Valid(Entry(m, r, u)) /\ Valid(Entry(m, r, v))
        BY Zenon, <2>1, <2>4, <2>10, <3>2
      <4>2. Entry(m, r, u).ppn # p /\ Entry(m, r, u).ppn \in Page
        BY <2>1, <3>2, <4>1, EntryInjective DEF p
      <4> QED BY Zenon, <2>3, <2>7, <4>1, <4>2 DEF Loaded
    <3> QED BY Zenon, <3>1, <3>2
  <2>11. ASSUME NEW q \in Page
         PROVE  y.data[q] = m.data[q] \/ \E u \in Vpn : Within(u, s.lo, v + 1) /\ q = Entry(m, r, u).ppn
    <3>1. CASE q = p
      BY Zenon, <2>1, <2>4, <3>1 DEF p
    <3>2. CASE q # p
      BY Zenon, <2>3, <2>4, <2>7, <3>2 DEF Loaded
    <3> QED BY Zenon, <3>1, <3>2
  <2>12. Loaded(m, y, r, s, s.lo + k)
    BY Zenon, <2>1, <2>8, <2>9, <2>10, <2>11 DEF Loaded
  <2> QED BY Zenon, <2>1, <2>12 DEF y
<1> HIDE DEF S
<1>4. n \in S
  <2>1. n \in Nat /\ n \in 0 .. n
    BY <1>0
  <2>2. \A k \in 1 .. n : k - 1 \in S => k \in S
    BY Zenon, <1>3
  <2> QED BY Zenon, <1>2, <2>1, <2>2, Rounds
<1> QED BY Zenon, <1>0, <1>1, <1>4 DEF S

(* Page u of the new space, as memory_space_clone leaves it.                 *)
CopyOf(m, n, r, new, u) ==
  IF Copies(m, r, u)
  THEN /\ Entry(n, new, u).flags = Entry(m, r, u).flags
       /\ n.data[Entry(n, new, u).ppn] = m.data[Entry(m, r, u).ppn]
  ELSE Entry(n, new, u) = Entry(m, new, u)

(* The first k pages of the space r have been copied.                        *)
Cloned(m, n, r, new, k) ==
  /\ Fine(m, n)
  /\ \A q \in Page \ Taken(m), u \in Vpn :
       q # new \/ u >= k => Entry(n, q, u) = Entry(m, q, u)
  /\ \A x \in Page \ Free(m) : n.data[x] = m.data[x]
  /\ \A u \in Vpn : u < k => CopyOf(m, n, r, new, u)

LEMMA CloneRound ==
  ASSUME NEW m \in Ram, NEW x \in Ram, NEW r \in Page \ Taken(m), NEW new \in Page \ Taken(m),
         NEW v \in Vpn, Owned(m), r # new, Cloned(m, x, r, new, v), ~Panicked(ClonePage(x, r, new, v))
  PROVE  Cloned(m, ClonePage(x, r, new, v), r, new, v + 1)
<1> DEFINE y == ClonePage(x, r, new, v)
<1>1. /\ Fine(m, x) /\ Owned(x) /\ Taken(x) \subseteq Taken(m) /\ Free(x) \subseteq Free(m)
      /\ r \notin Taken(x) /\ new \notin Taken(x)
  BY Zenon DEF Cloned, Fine
<1>2. v \in Nat /\ ~(v < v) /\ v >= v /\ \A u \in Vpn : u \in Nat /\ (u < v + 1 <=> (u < v \/ u = v))
                                   /\ (u >= v + 1 => u >= v /\ u # v)
  BY Sizes DEF Vpn
<1>3. Entry(x, r, v) = Entry(m, r, v) /\ Entry(x, new, v) = Entry(m, new, v)
  BY Zenon, <1>2 DEF Cloned
<1>4. Copies(x, r, v) <=> Copies(m, r, v)
  BY Zenon, <1>3 DEF Copies
<1>5. /\ ~Copies(x, r, v) => y = x
      /\ Copies(x, r, v) =>
           /\ Fine(x, y)
           /\ Entry(y, new, v).flags = Entry(x, r, v).flags
           /\ y.data[Entry(y, new, v).ppn] = x.data[Entry(x, r, v).ppn]
           /\ \A z \in Page \ Free(x) : y.data[z] = x.data[z]
           /\ \A q \in Page \ Taken(x), u \in Vpn :
                q # new \/ u # v => Entry(y, q, u) = Entry(x, q, u)
  BY Zenon, <1>1, Clone
<1> HIDE DEF y
<1>6. CASE ~Copies(m, r, v)
  <2>1. y = x
    BY Zenon, <1>4, <1>5, <1>6
  <2>2. CopyOf(m, x, r, new, v)
    BY Zenon, <1>3, <1>6 DEF CopyOf
  <2>3. \A u \in Vpn : u < v + 1 => CopyOf(m, x, r, new, u)
    BY Zenon, <1>2, <2>2 DEF Cloned
  <2>4. \A q \in Page \ Taken(m), u \in Vpn :
          q # new \/ u >= v + 1 => Entry(x, q, u) = Entry(m, q, u)
    BY Zenon, <1>2 DEF Cloned
  <2>5. Cloned(m, x, r, new, v + 1)
    BY Zenon, <1>1, <2>3, <2>4 DEF Cloned
  <2> QED BY Zenon, <2>1, <2>5 DEF y
<1>7. CASE Copies(m, r, v)
  <2>1. /\ Fine(x, y)
        /\ Entry(y, new, v).flags = Entry(m, r, v).flags
        /\ y.data[Entry(y, new, v).ppn] = x.data[Entry(m, r, v).ppn]
        /\ \A z \in Page \ Free(x) : y.data[z] = x.data[z]
        /\ \A q \in Page \ Taken(x), u \in Vpn :
             q # new \/ u # v => Entry(y, q, u) = Entry(x, q, u)
    BY Zenon, <1>3, <1>4, <1>5, <1>7
  <2>2. Fine(m, y)
    BY Zenon, <1>1, <2>1, FineTrans
  <2>3. ASSUME NEW q \in Page \ Taken(m), NEW u \in Vpn, q # new \/ u >= v + 1
        PROVE  Entry(y, q, u) = Entry(m, q, u)
    <3>1. q \in Page \ Taken(x) /\ (q # new \/ u # v) /\ (q # new \/ u >= v)
      BY Zenon, <1>1, <1>2, <2>3
    <3>2. Entry(y, q, u) = Entry(x, q, u)
      BY Zenon, <2>1, <3>1
    <3>3. Entry(x, q, u) = Entry(m, q, u)
      BY Zenon, <3>1 DEF Cloned
    <3> QED BY Zenon, <3>2, <3>3
  <2>4. ASSUME NEW z \in Page \ Free(m) PROVE y.data[z] = m.data[z]
    BY Zenon, <1>1, <2>1 DEF Cloned
  <2>5. CopyOf(m, y, r, new, v)
    <3>1. Entry(m, r, v).ppn \in Mapped(m) /\ Entry(m, r, v).ppn \in Page
      BY Zenon, <1>7, EntryInjective DEF Copies
    <3>2. x.data[Entry(m, r, v).ppn] = m.data[Entry(m, r, v).ppn]
      BY Zenon, <3>1 DEF Owned, Cloned
    <3> QED BY Zenon, <1>7, <2>1, <3>2 DEF CopyOf
  <2>6. ASSUME NEW u \in Vpn, u < v PROVE CopyOf(m, y, r, new, u)
    <3>1. CopyOf(m, x, r, new, u)
      BY Zenon, <2>6 DEF Cloned
    <3>2. u # v
      BY Zenon, <1>2, <2>6
    <3>3. Entry(y, new, u) = Entry(x, new, u)
      BY Zenon, <1>1, <2>1, <3>2
    <3>4. CASE Copies(m, r, u)
      <4>1. /\ Entry(x, new, u).flags = Entry(m, r, u).flags
            /\ x.data[Entry(x, new, u).ppn] = m.data[Entry(m, r, u).ppn]
        BY Zenon, <3>1, <3>4 DEF CopyOf
      <4>2. Valid(Entry(x, new, u))
        BY Zenon, <3>4, <4>1 DEF Copies, Valid
      <4>3. Entry(x, new, u).ppn \in Mapped(x) /\ Entry(x, new, u).ppn \in Page
        BY Zenon, <1>1, <4>2, EntryInjective
      <4>4. Entry(x, new, u).ppn \in Page \ Free(x)
        BY Zenon, <1>1, <4>3 DEF Owned
      <4> QED BY Zenon, <2>1, <3>3, <3>4, <4>1, <4>4 DEF CopyOf
    <3>5. CASE ~Copies(m, r, u)
      BY Zenon, <3>1, <3>3, <3>5 DEF CopyOf
    <3> QED BY Zenon, <3>4, <3>5
  <2>7. \A u \in Vpn : u < v + 1 => CopyOf(m, y, r, new, u)
    BY Zenon, <1>2, <2>5, <2>6
  <2>8. Cloned(m, y, r, new, v + 1)
    BY Zenon, <2>2, <2>3, <2>4, <2>7 DEF Cloned
  <2> QED BY Zenon, <2>8 DEF y
<1> QED BY Zenon, <1>6, <1>7

(* memory_space_clone: the new root is a page of the free list, its space is *)
(* a copy, and no other space changes.                                       *)
LEMMA CloneRange ==
  ASSUME NEW m \in Ram, NEW r \in Page
  PROVE  LET z == memory_space_clone(m, r)
             a == memory_alloc_page(m)
         IN /\ z \in Ram /\ (Panicked(m) => Panicked(z))
            /\ ~Panicked(z) /\ Owned(m) /\ r \notin Taken(m) =>
                 ~Panicked(a) /\ Cloned(a, z, r, Popped(m), NVPN)
<1> DEFINE a == memory_alloc_page(m)
           new == Popped(m)
<1>r. PICK f : CloneRounds(f, m, r)
  BY Zenon, CloneRuns
<1>1. /\ f[0] = a /\ f[NVPN] = memory_space_clone(m, r)
      /\ \A k \in 1 .. NVPN : f[k] = ClonePage(f[k - 1], r, new, k - 1)
      /\ \A k \in 0 .. NVPN : f[k] \in Ram
  BY Zenon, <1>r DEF CloneRounds
<1>2. NVPN \in Nat /\ \A k \in 1 .. NVPN : k - 1 \in Vpn /\ k - 1 \in 0 .. NVPN /\ k \in 0 .. NVPN /\ (k - 1) + 1 = k
  BY Sizes DEF Vpn
<1>3. a \in Ram /\ new \in Page /\ (Panicked(m) => Panicked(a))
  BY Zenon, AllocFields
<1>4. Owned(m) /\ ~Panicked(a) /\ r \notin Taken(m) =>
        Owned(a) /\ new \notin Taken(a) /\ r \notin Taken(a) /\ r # new
  BY AllocFine DEF Fine, Taken
<1> HIDE DEF a, new
<1> DEFINE Good(k) == /\ Panicked(a) => Panicked(f[k])
                      /\ ~Panicked(f[k]) /\ Owned(m) /\ r \notin Taken(m) =>
                           Cloned(a, f[k], r, new, k)
           S == {k \in 0 .. NVPN : Good(k)}
<1>5. 0 \in S
  <2>1. ASSUME Owned(m), ~Panicked(a), r \notin Taken(m) PROVE Cloned(a, a, r, new, 0)
    <3>1. Fine(a, a)
      BY Zenon, <1>4, <2>1 DEF Fine, Mono, Clean
    <3>2. \A u \in Vpn : ~(u < 0)
      BY Sizes DEF Vpn
    <3> QED BY Zenon, <3>1, <3>2 DEF Cloned
  <2> QED BY <1>1, <1>2, <2>1
<1>6. ASSUME NEW k \in 1 .. NVPN, k - 1 \in S PROVE k \in S
  <2> DEFINE x == f[k - 1]
             y == f[k]
             v == k - 1
  <2>1. v \in Vpn /\ x \in Ram /\ v + 1 = k /\ k \in 0 .. NVPN /\ y = ClonePage(x, r, new, v)
    BY Zenon, <1>1, <1>2
  <2>2. /\ Panicked(a) => Panicked(x)
        /\ ~Panicked(x) /\ Owned(m) /\ r \notin Taken(m) => Cloned(a, x, r, new, v)
    BY Zenon, <1>6
  <2> HIDE DEF x, y, v
  <2>3. Panicked(x) => Panicked(y)
    BY Zenon, <1>3, <2>1, Clone
  <2>4. ASSUME ~Panicked(y), Owned(m), r \notin Taken(m)
        PROVE  Cloned(a, y, r, new, v + 1)
    <3>1. Cloned(a, x, r, new, v) /\ ~Panicked(a)
      BY Zenon, <2>2, <2>3, <2>4
    <3>2. Owned(a) /\ new \in Page \ Taken(a) /\ r \in Page \ Taken(a) /\ r # new
      BY Zenon, <1>3, <1>4, <2>4, <3>1
    <3> QED BY Zenon, <1>3, <2>1, <2>4, <3>1, <3>2, CloneRound
  <2> QED BY Zenon, <2>1, <2>2, <2>3, <2>4 DEF y
<1> HIDE DEF S
<1>7. NVPN \in S
  BY <1>2, <1>5, <1>6, Rounds
<1>8. Good(NVPN)
  BY Zenon, <1>7 DEF S
<1>9. f[NVPN] \in Ram
  BY <1>1, <1>2
<1>10. Owned(m) /\ r \notin Taken(m) /\ ~Panicked(f[NVPN]) => ~Panicked(a)
  BY Zenon, <1>8
<1> QED BY Zenon, <1>1, <1>3, <1>8, <1>9, <1>10 DEF a, new

(* walk_and_free_user finds nothing to free under a root without PTE_U.      *)
LEMMA FreesNothing ==
  ASSUME NEW m, NEW t, ~Marked(m, t)
  PROVE  walk_and_free_user(m, t) = m
<1> DEFINE N == PTE_PER_LEVEL
           Step(y, k) == LET e == y.table[t][k - 1]
                         IN FreeEntry(y, e, FreeUserTables(y, e.ppn))
           Rec(h) == h = [k \in 0 .. N |-> IF k = 0 THEN m ELSE Step(h[k - 1], k)]
           f == CHOOSE h : Rec(h)
<1>1. walk_and_free_user(m, t) = f[N]
  BY Zenon DEF walk_and_free_user
<1>2. N \in Nat /\ \A k \in 1 .. N : k - 1 \in 0 .. N /\ k - 1 \in Index
  BY Sizes DEF Index
<1>3. ASSUME NEW k \in 1 .. N PROVE Step(m, k) = m
  <2>1. ~Descends(m.table[t][k - 1])
    BY Zenon, <1>2 DEF Marked
  <2> QED BY Zenon, <2>1 DEF FreeEntry
<1> HIDE DEF N, Step
<1>4. Rec([k \in 0 .. N |-> m])
  <2> DEFINE h == [k \in 0 .. N |-> m]
  <2>1. ASSUME NEW k \in 0 .. N PROVE (IF k = 0 THEN m ELSE Step(h[k - 1], k)) = m
    <3>1. CASE k = 0
      BY Zenon, <3>1
    <3>2. CASE k # 0
      <4>1. k \in 1 .. N
        BY <1>2, <3>2
      <4>2. h[k - 1] = m
        BY Zenon, <1>2, <4>1
      <4> QED BY Zenon, <1>3, <3>2, <4>1, <4>2
    <3> QED BY Zenon, <3>1, <3>2
  <2> QED BY Zenon, <2>1
<1>5. Rec(f)
  BY Zenon, <1>4
<1> HIDE DEF f
<1> DEFINE S == {k \in 0 .. N : f[k] = m}
<1>6. 0 \in S
  BY <1>2, <1>5
<1>7. ASSUME NEW k \in 1 .. N, k - 1 \in S PROVE k \in S
  <2>1. k \in 0 .. N /\ f[k] = Step(f[k - 1], k) /\ f[k - 1] = m
    BY <1>2, <1>5, <1>7
  <2> QED BY Zenon, <1>3, <2>1
<1> HIDE DEF S
<1>8. N \in S
  BY <1>2, <1>6, <1>7, Rounds
<1> QED BY Zenon, <1>1, <1>8 DEF S
-----------------------------------------------------------------------------
(* The invariant. Roots and stacks of live processes are pages ram does not  *)
(* know of, each has one use, and no root leads walk_and_free_user anywhere. *)
ProcInv ==
  /\ ram \in Ram /\ Owned(ram) /\ ~Panicked(ram)
  /\ proctab \in [Pid -> BOOLEAN] /\ MAIN_PID \in Live
  /\ mtag \in [Pid -> Page] /\ stack \in [Pid -> Page] /\ satp \in Page
  /\ cur \in Live \cup {IDLE} /\ (cur # IDLE => satp = mtag[cur])
  /\ \A q \in Live : /\ mtag[q] \notin Taken(ram) /\ ~Marked(ram, mtag[q])
                     /\ stack[q] # 0 => stack[q] \notin Taken(ram)
  /\ \A p, q \in Live : /\ p # q => mtag[p] # mtag[q] /\ (stack[p] # stack[q] \/ stack[p] = 0)
                        /\ mtag[p] # stack[q] \/ stack[q] = 0

(* A segment that was mapped is there for elf_load to fill.                  *)
LoadRec == [prog : Program, seg : Nat, mapped : BOOLEAN]
SegReady(m, r, s) ==
  \A u \in Vpn : Within(u, s.lo, s.lo + s.memsz) => {"V", "U", "R", "W"} \subseteq Entry(m, r, u).flags
Ready(p) == SegReady(ram, mtag[p], Seg(p))
LoadInv ==
  /\ load \in [Pid -> LoadRec \cup {NoLoad}]
  /\ \A p \in Pid : load[p] # NoLoad =>
       /\ p \in Live /\ load[p].seg \in 1 .. Len(load[p].prog)
       /\ load[p].mapped => InBounds(Seg(p)) /\ Ready(p)

MemInv == ProcInv /\ LoadInv

LEMMA LiveTyped ==
  ASSUME ProcInv
  PROVE  Live \subseteq Pid /\ IDLE \notin Pid /\ IDLE \notin Live
  BY Sizes DEF Live, Pid, IDLE

LEMMA Running ==
  ASSUME ProcInv, cur # IDLE
  PROVE  /\ cur \in Live /\ cur \in Pid /\ satp = mtag[cur]
         /\ satp \in Page \ Taken(ram) /\ ~Marked(ram, satp)
  BY Zenon, LiveTyped DEF ProcInv

LEMMA PutIs ==
  ASSUME NEW m, Put(m)
  PROVE  ram' = m /\ ~Panicked(m)
  BY Zenon DEF Put, Panicked

(* A step of the running process on ram alone.                               *)
LEMMA FineKeeps ==
  ASSUME ProcInv, ram' \in Ram, Fine(ram, ram'), ~Panicked(ram'), UNCHANGED <<procs, cur, satp>>
  PROVE  ProcInv'
<1>1. Live' = Live /\ mtag' = mtag /\ stack' = stack /\ cur' = cur /\ satp' = satp /\ proctab' = proctab
  BY Zenon DEF Live, procs
<1>2. Owned(ram') /\ Taken(ram') \subseteq Taken(ram)
  BY Zenon DEF Fine
<1>3. ~Panicked(ram)'
  BY Zenon DEF Panicked
<1>4. \A q \in Live : mtag[q] \in Page
  BY Zenon, LiveTyped DEF ProcInv
<1>5. \A q \in Live : ~Marked(ram', mtag[q])
  BY Zenon, <1>4 DEF ProcInv, Fine, Clean
<1>6. \A q \in Live : mtag[q] \notin Taken(ram') /\ (stack[q] # 0 => stack[q] \notin Taken(ram'))
  BY Zenon, <1>2 DEF ProcInv
<1> QED BY Zenon, <1>1, <1>2, <1>3, <1>5, <1>6 DEF ProcInv

(* A segment of a program that is being loaded.                              *)
LEMMA SegTyped ==
  ASSUME ProcInv, LoadInv, NEW p \in Pid, load[p] # NoLoad
  PROVE  /\ Seg(p) \in Segments /\ load[p] \in LoadRec /\ load[p].prog \in Program
         /\ load[p].seg \in 1 .. Len(load[p].prog) /\ Len(load[p].prog) \in Nat /\ p \in Live
         /\ load[p].mapped => InBounds(Seg(p)) /\ Ready(p)
<1>1. load[p] \in LoadRec
  BY Zenon DEF LoadInv
<1>2. load[p].prog \in Program
  BY Zenon, <1>1 DEF LoadRec
<1>3. DOMAIN load[p].prog = 1 .. Len(load[p].prog) /\ Len(load[p].prog) \in Nat
  <2>1. PICK T : load[p].prog \in Seq(T)
    BY Zenon, <1>2, MemoryAssumption
  <2> QED BY <2>1
<1>4. load[p].seg \in 1 .. Len(load[p].prog) /\ p \in Live
  BY Zenon DEF LoadInv
<1>5. Seg(p) \in Segments
  BY SMTT(30), <1>2, <1>3, <1>4 DEF Seg, Segments
<1>6. load[p].mapped => InBounds(Seg(p)) /\ Ready(p)
  BY Zenon DEF LoadInv
<1> QED BY Zenon, <1>1, <1>2, <1>3, <1>4, <1>5, <1>6

-----------------------------------------------------------------------------
(* What the process with root r finds at page u, and when a step leaves it.  *)
PageOf(m, r, u) ==
  LET e == Entry(m, r, u)
  IN IF {"V", "U"} \subseteq e.flags
     THEN [value |-> m.data[e.ppn], flags |-> e.flags \ {"V", "U"}] ELSE Unmapped
SameAt(m, n, q, u) ==
  /\ Entry(n, q, u) = Entry(m, q, u)
  /\ Valid(Entry(m, q, u)) => n.data[Entry(m, q, u).ppn] = m.data[Entry(m, q, u).ppn]
Apart(m, n, r) == \A q \in Page \ Taken(m), u \in Vpn : q # r => SameAt(m, n, q, u)

LEMMA SamePage ==
  ASSUME NEW m, NEW n, NEW q, NEW u, SameAt(m, n, q, u)
  PROVE  PageOf(n, q, u) = PageOf(m, q, u)
  BY Zenon DEF SameAt, PageOf, Valid

LEMMA SpaceIs ==
  /\ \A p : SpaceOf(p) = [v \in Vpn |-> IF proctab[p] THEN PageOf(ram, mtag[p], v) ELSE Unmapped]
  /\ \A p : SpaceOf(p)' = [v \in Vpn |-> IF proctab'[p] THEN PageOf(ram', mtag'[p], v) ELSE Unmapped]
<1>1. ASSUME NEW p, NEW v \in Vpn
      PROVE  SpaceOf(p)[v] = (IF proctab[p] THEN PageOf(ram, mtag[p], v) ELSE Unmapped)
  BY Zenon DEF SpaceOf, PageOf
<1>2. ASSUME NEW p, NEW v \in Vpn
      PROVE  SpaceOf(p)'[v] = (IF proctab'[p] THEN PageOf(ram', mtag'[p], v) ELSE Unmapped)
  BY Zenon DEF SpaceOf, PageOf
<1> QED BY Zenon, <1>1, <1>2 DEF SpaceOf

(* The space of the running process.                                         *)
LEMMA CurSpace ==
  ASSUME ProcInv, NEW c, c = cur, cur # IDLE
  PROVE  /\ proctab[c] /\ c \in Pid /\ c \in Live
         /\ SpaceOf(c) = [v \in Vpn |-> PageOf(ram, satp, v)]
<1>1. c \in Live /\ c \in Pid /\ satp = mtag[c]
  BY Zenon, Running
<1>2. proctab[c]
  BY <1>1, Zenon DEF Live
<1> QED BY Zenon, <1>1, <1>2, SpaceIs

(* A step on ram that leaves every space but that of the running process.    *)
LEMMA CurStep ==
  ASSUME MemInv, cur # IDLE, NEW c, c = cur, ram' \in Ram, Fine(ram, ram'), ~Panicked(ram'),
         Apart(ram, ram', satp), UNCHANGED <<procs, cur, satp>>,
         NEW l \in LoadRec \cup {NoLoad}, load' = [load EXCEPT ![cur] = l],
         l # NoLoad => /\ l.seg \in 1 .. Len(l.prog)
                       /\ l.mapped => /\ InBounds(l.prog[l.seg])
                                      /\ SegReady(ram', satp, l.prog[l.seg])
  PROVE  /\ MemInv' /\ Live' = Live /\ c \in Live /\ c \in Pid
         /\ SpaceOf(c) = [v \in Vpn |-> PageOf(ram, satp, v)]
         /\ SpaceOf(c)' = [v \in Vpn |-> PageOf(ram', satp, v)]
         /\ \A p \in Pid : p # c => SpaceOf(p)' = SpaceOf(p)
<1>1. /\ cur \in Live /\ cur \in Pid /\ satp = mtag[cur] /\ satp \in Page \ Taken(ram)
  BY Zenon, Running DEF MemInv
<1>2. Live' = Live /\ mtag' = mtag /\ stack' = stack /\ proctab' = proctab
  BY Zenon DEF Live, procs
<1>3. ProcInv'
  BY Zenon, FineKeeps DEF MemInv
<1>4. ASSUME NEW p \in Live, p # cur
      PROVE  mtag[p] \in Page \ Taken(ram) /\ mtag[p] # satp
  BY Zenon, <1>1, <1>4, LiveTyped DEF MemInv, ProcInv
<1>5. ASSUME NEW p \in Pid, load'[p] # NoLoad
      PROVE  /\ p \in Live' /\ load'[p].seg \in 1 .. Len(load'[p].prog)
             /\ load'[p].mapped => InBounds(Seg(p)') /\ SegReady(ram', mtag'[p], Seg(p)')
  <2>1. CASE p = cur
    <3>1. load'[p] = l /\ Seg(p)' = l.prog[l.seg]
      BY Zenon, <2>1 DEF MemInv, LoadInv, Seg
    <3> QED BY Zenon, <1>1, <1>2, <1>5, <2>1, <3>1
  <2>2. CASE p # cur
    <3>1. load'[p] = load[p] /\ Seg(p)' = Seg(p)
      BY Zenon, <2>2 DEF MemInv, LoadInv, Seg
    <3>2. /\ p \in Live /\ load[p].seg \in 1 .. Len(load[p].prog)
          /\ load[p].mapped => InBounds(Seg(p)) /\ SegReady(ram, mtag[p], Seg(p))
      BY Zenon, <1>5, <3>1 DEF MemInv, LoadInv, Ready
    <3>3. \A u \in Vpn : Entry(ram', mtag[p], u) = Entry(ram, mtag[p], u)
      BY Zenon, <1>4, <2>2, <3>2 DEF Apart, SameAt
    <3>4. SegReady(ram, mtag[p], Seg(p)) => SegReady(ram', mtag[p], Seg(p))
      BY Zenon, <3>3 DEF SegReady
    <3> QED BY Zenon, <1>2, <3>1, <3>2, <3>4
  <2> QED BY Zenon, <2>1, <2>2
<1>6. load' \in [Pid -> LoadRec \cup {NoLoad}]
  BY Zenon, <1>1 DEF MemInv, LoadInv
<1>7. LoadInv'
  BY Zenon, <1>5, <1>6 DEF LoadInv, Ready, InBounds
<1>8. \A p \in Pid : SpaceOf(p)' = [v \in Vpn |-> IF proctab[p] THEN PageOf(ram', mtag[p], v)
                                                   ELSE Unmapped]
  BY Zenon, <1>2, SpaceIs
<1>9. ASSUME NEW p \in Pid, p # cur PROVE SpaceOf(p)' = SpaceOf(p)
  <2>1. CASE p \in Live
    <3>1. ASSUME NEW v \in Vpn PROVE PageOf(ram', mtag[p], v) = PageOf(ram, mtag[p], v)
      BY <1>4, <1>9, <2>1, SamePage DEF Apart
    <3> QED BY Zenon, <1>8, <3>1, SpaceIs
  <2>2. CASE p \notin Live
    <3>1. ~proctab[p]
      BY <2>2, Zenon DEF Live
    <3> QED BY Zenon, <1>8, <3>1, SpaceIs
  <2> QED BY Zenon, <2>1, <2>2
<1>10. /\ proctab[c] /\ c \in Pid /\ c \in Live /\ satp = mtag[c]
       /\ SpaceOf(c) = [v \in Vpn |-> PageOf(ram, satp, v)]
  BY Zenon, <1>1, CurSpace DEF MemInv
<1>11. SpaceOf(c)' = [v \in Vpn |-> PageOf(ram', satp, v)]
  BY Zenon, <1>8, <1>10
<1> QED BY Zenon, <1>2, <1>3, <1>7, <1>9, <1>10, <1>11 DEF MemInv

(* A data page of one space is written.                                      *)
LEMMA WriteApart ==
  ASSUME NEW m \in Ram, Owned(m), NEW r \in Page \ Taken(m), NEW v \in Vpn, Valid(Entry(m, r, v)),
         NEW x \in Value
  PROVE  LET n == [m EXCEPT !.data[Entry(m, r, v).ppn] = x]
         IN /\ n \in Ram /\ Fine(m, n) /\ (Panicked(n) <=> Panicked(m)) /\ Apart(m, n, r)
            /\ \A u \in Vpn : u # v => SameAt(m, n, r, u)
            /\ Entry(n, r, v) = Entry(m, r, v) /\ n.data[Entry(n, r, v).ppn] = x
<1> DEFINE p == Entry(m, r, v).ppn
           n == [m EXCEPT !.data[p] = x]
<1>1. p \in Page
  BY Zenon, EntryInjective
<1>2. /\ n \in Ram /\ n.data[p] = x /\ (Panicked(n) <=> Panicked(m)) /\ Fine(m, n)
      /\ \A q \in Page : q # p => n.data[q] = m.data[q]
      /\ \A q, u : Entry(n, q, u) = Entry(m, q, u)
  BY SMTT(30), <1>1, DataWrite
<1> HIDE DEF n
<1>3. ASSUME NEW q \in Page \ Taken(m), NEW u \in Vpn, q # r \/ u # v PROVE SameAt(m, n, q, u)
  <2>1. ASSUME Valid(Entry(m, q, u)) PROVE Entry(m, q, u).ppn \in Page /\ Entry(m, q, u).ppn # p
    BY <1>3, <2>1, EntryInjective
  <2> HIDE DEF p
  <2> QED BY Zenon, <1>2, <2>1 DEF SameAt
<1>4. Apart(m, n, r)
  BY Zenon, <1>3 DEF Apart
<1>5. \A u \in Vpn : u # v => SameAt(m, n, r, u)
  BY Zenon, <1>3
<1> QED BY Zenon, <1>2, <1>4, <1>5 DEF n

(* A store changes the page it names in the space of the running process.    *)
LEMMA StoreStep ==
  ASSUME MemInv, NEW v \in Vpn, NEW x \in Stored, Store(v, x)
  PROVE  MemInv' /\ AS!Store(v, x)
<1> DEFINE e == Entry(ram, satp, v)
           sp == [p \in Pid |-> SpaceOf(p)]
<1>1. /\ cur # IDLE /\ load[cur] = NoLoad /\ {"V", "U", "W"} \subseteq e.flags
      /\ ram' = [ram EXCEPT !.data[e.ppn] = x] /\ UNCHANGED <<procs, cur, satp>> /\ load' = load
  BY Zenon DEF Store, InUser
<1>2. /\ ram \in Ram /\ Owned(ram) /\ ~Panicked(ram) /\ satp \in Page \ Taken(ram)
  BY Zenon, <1>1, Running DEF MemInv, ProcInv
<1>3. Valid(e) /\ x \in Value
  BY Zenon, <1>1 DEF Valid, Value
<1>4. /\ ram' \in Ram /\ Fine(ram, ram') /\ (Panicked(ram') <=> Panicked(ram)) /\ Apart(ram, ram', satp)
      /\ \A u \in Vpn : u # v => SameAt(ram, ram', satp, u)
      /\ Entry(ram', satp, v) = e /\ ram'.data[e.ppn] = x
  BY <1>1, <1>2, <1>3, WriteApart
<1>5. load' = [load EXCEPT ![cur] = NoLoad]
  BY Zenon, <1>1 DEF MemInv, LoadInv
<1>6. PICK c : c = cur
  BY Zenon
<1>7. ~Panicked(ram') /\ NoLoad \in LoadRec \cup {NoLoad}
  BY <1>2, <1>4, Zenon
<1>8. /\ MemInv' /\ Live' = Live /\ c \in Live /\ c \in Pid
      /\ SpaceOf(c) = [u \in Vpn |-> PageOf(ram, satp, u)]
      /\ SpaceOf(c)' = [u \in Vpn |-> PageOf(ram', satp, u)]
      /\ \A p \in Pid : p # c => SpaceOf(p)' = SpaceOf(p)
  BY <1>1, <1>4, <1>5, <1>6, <1>7, CurStep, Zenon
<1>9. /\ PageOf(ram, satp, v) = [value |-> ram.data[e.ppn], flags |-> e.flags \ {"V", "U"}]
      /\ PageOf(ram', satp, v) = [value |-> x, flags |-> e.flags \ {"V", "U"}]
  BY Zenon, <1>1, <1>4 DEF PageOf
<1>10. SpaceOf(c)[v] # Unmapped /\ "W" \in SpaceOf(c)[v].flags
  BY <1>1, <1>8, <1>9 DEF Unmapped
<1>11. \A u \in Vpn : u # v => PageOf(ram', satp, u) = PageOf(ram, satp, u)
  BY <1>4, SamePage
<1> HIDE DEF e
<1>12. SpaceOf(c)' = [SpaceOf(c) EXCEPT ![v].value = x]
  BY <1>8, <1>9, <1>11
<1>13. sp' = [sp EXCEPT ![c] = [sp[c] EXCEPT ![v].value = x]]
  BY Zenon, <1>8, <1>12
<1> QED BY Zenon, <1>1, <1>6, <1>8, <1>10, <1>13 DEF AS!Store, AS!Mine

(* A step of the running process c that maps the pages of S to write to.     *)
LEMMA FreshStep ==
  ASSUME NEW c \in Pid, c = cur, c \in Live, Live' = Live, cur' = cur, NEW S \in SUBSET Vpn,
         SpaceOf(c) = [v \in Vpn |-> PageOf(ram, satp, v)],
         SpaceOf(c)' = [v \in Vpn |-> PageOf(ram', satp, v)],
         \A p \in Pid : p # c => SpaceOf(p)' = SpaceOf(p),
         \A v \in Vpn \ S : PageOf(ram', satp, v) = PageOf(ram, satp, v),
         \A v \in S : {"V", "U", "R", "W"} \subseteq Entry(ram', satp, v).flags
  PROVE  AS!Fresh(S)
<1> DEFINE sp == [p \in Pid |-> SpaceOf(p)]
<1>1. \A p \in Pid \ {c} : sp'[p] = sp[p]
  BY Zenon
<1>2. \A v \in Vpn \ S : sp'[c][v] = sp[c][v]
  OBVIOUS
<1>3. ASSUME NEW v \in S PROVE sp'[c][v] # Unmapped /\ {"R", "W"} \subseteq sp'[c][v].flags
  <2> DEFINE e == Entry(ram', satp, v)
  <2>1. v \in Vpn /\ {"V", "U", "R", "W"} \subseteq e.flags
    BY Zenon
  <2>2. PageOf(ram', satp, v) = [value |-> ram'.data[e.ppn], flags |-> e.flags \ {"V", "U"}]
    BY Zenon, <2>1 DEF PageOf
  <2>3. sp'[c][v] = PageOf(ram', satp, v)
    BY Zenon, <2>1
  <2> HIDE DEF e, sp
  <2> QED BY <2>1, <2>2, <2>3 DEF Unmapped
<1> QED BY Zenon, <1>1, <1>2, <1>3 DEF AS!Fresh

(* A fault maps the page of the stack pointer, and no other space sees it.   *)
LEMMA PageFaultStep ==
  ASSUME MemInv, NEW v \in Vpn, NEW sp \in StackPages, PageFault(v, sp)
  PROVE  MemInv' /\ AS!Fresh({sp}) /\ sp \in Vpn
<1> DEFINE fl == {"R", "W", "U"}
           n == memory_alloc_and_map_page(ram, satp, sp, fl)
<1>1. /\ cur # IDLE /\ load[cur] = NoLoad
      /\ ram' = n /\ ~Panicked(n) /\ UNCHANGED <<procs, cur, satp>> /\ load' = load
  BY Zenon, PutIs DEF PageFault, InUser, memory_handle_page_fault
<1>2. /\ ram \in Ram /\ Owned(ram) /\ satp \in Page \ Taken(ram)
  BY Zenon, <1>1, Running DEF MemInv, ProcInv
<1>3. sp \in Vpn /\ fl \in SUBSET Flag
  BY Zenon, Sizes DEF Flag
<1> HIDE DEF fl
<1>4. /\ n \in Ram /\ n.data = ram.data
      /\ Fine(ram, n)
      /\ Entry(n, satp, sp).flags = Entry(ram, satp, sp).flags \cup {"V"} \cup fl
      /\ \A q \in Page \ Taken(ram), u \in Vpn :
           q # satp \/ u # sp => Entry(n, q, u) = Entry(ram, q, u)
  BY Zenon, <1>1, <1>2, <1>3, MapPage
<1> HIDE DEF n
<1>5. \A q \in Page \ Taken(ram), u \in Vpn : q # satp \/ u # sp => SameAt(ram, n, q, u)
  BY Zenon, <1>4 DEF SameAt
<1>6. Apart(ram, n, satp)
  BY Zenon, <1>5 DEF Apart
<1>7. load' = [load EXCEPT ![cur] = NoLoad] /\ NoLoad \in LoadRec \cup {NoLoad}
  BY Zenon, <1>1 DEF MemInv, LoadInv
<1>8. PICK c : c = cur
  OBVIOUS
<1>9. /\ MemInv' /\ Live' = Live /\ c \in Live /\ c \in Pid
      /\ SpaceOf(c) = [u \in Vpn |-> PageOf(ram, satp, u)]
      /\ SpaceOf(c)' = [u \in Vpn |-> PageOf(ram', satp, u)]
      /\ \A p \in Pid : p # c => SpaceOf(p)' = SpaceOf(p)
  BY <1>1, <1>4, <1>6, <1>7, <1>8, CurStep, Zenon
<1>10. \A u \in Vpn \ {sp} : PageOf(ram', satp, u) = PageOf(ram, satp, u)
  BY <1>1, <1>2, <1>5, SamePage
<1>11. \A u \in {sp} : {"V", "U", "R", "W"} \subseteq Entry(ram', satp, u).flags
  BY Zenon, <1>1, <1>4 DEF fl
<1>12. AS!Fresh({sp})
  BY ZenonT(30), <1>1, <1>3, <1>8, <1>9, <1>10, <1>11, FreshStep
<1> QED BY Zenon, <1>3, <1>9, <1>12

(* The pages of a segment that lies in user space.                           *)
LEMMA SegPages ==
  ASSUME NEW s \in Segments, InBounds(s)
  PROVE  /\ s.lo \in Nat /\ s.memsz \in Nat /\ s.filesz \in Nat /\ s.filesz <= s.memsz
         /\ s.lo + s.memsz <= NVPN
         /\ Promised(s).pages \subseteq Vpn
         /\ \A u \in Vpn : u \in Promised(s).pages <=> Within(u, s.lo, s.lo + s.memsz)
  BY SegmentTyped, Sizes DEF InBounds, Promised, Vpn, Within

(* elf_load maps a segment: its pages are there to write, nothing else has   *)
(* changed.                                                                  *)
LEMMA MapSegmentStep ==
  ASSUME MemInv, MapSegment
  PROVE  MemInv' /\ \E s \in Segments : InBounds(s) /\ AS!Fresh(Promised(s).pages)
<1> DEFINE fl == {"U", "R", "W"}
           s == Seg(cur)
           n == memory_alloc_and_map_range(ram, satp, s.lo, s.memsz, fl)
           l == [load[cur] EXCEPT !.mapped = TRUE]
<1>1. /\ cur # IDLE /\ load[cur] # NoLoad /\ InBounds(s)
      /\ ram' = n /\ ~Panicked(n) /\ UNCHANGED <<procs, cur, satp>> /\ load' = [load EXCEPT ![cur] = l]
  BY Zenon, PutIs DEF MapSegment, Loading, Progress
<1>2. /\ ram \in Ram /\ Owned(ram) /\ satp \in Page \ Taken(ram) /\ cur \in Pid
  BY Zenon, <1>1, Running DEF MemInv, ProcInv
<1>3. /\ s \in Segments /\ load[cur] \in LoadRec /\ load[cur].seg \in 1 .. Len(load[cur].prog)
  BY Zenon, <1>1, <1>2, SegTyped DEF MemInv
<1>4. l \in LoadRec /\ l.seg = load[cur].seg /\ l.prog = load[cur].prog
  BY Zenon, <1>3 DEF LoadRec
<1>5. l.prog[l.seg] = s /\ l.seg \in 1 .. Len(l.prog)
  BY Zenon, <1>3, <1>4 DEF Seg
<1>6. /\ s.lo \in Nat /\ s.memsz \in Nat /\ s.lo + s.memsz <= NVPN /\ fl \in SUBSET Flag
      /\ Promised(s).pages \subseteq Vpn
      /\ \A u \in Vpn : u \in Promised(s).pages <=> Within(u, s.lo, s.lo + s.memsz)
  BY ZenonT(30), <1>1, <1>3, SegPages DEF Flag
<1> HIDE DEF fl, s, l
<1>7. n \in Ram /\ n.data = ram.data /\ Ranged(ram, n, satp, s.lo, s.lo + s.memsz, fl)
  BY SMTT(30), <1>1, <1>2, <1>6, MapRange
<1> HIDE DEF n
<1>8. /\ Fine(ram, n)
      /\ \A q \in Page \ Taken(ram), u \in Vpn :
           q # satp \/ u \notin Promised(s).pages => SameAt(ram, n, q, u)
      /\ \A u \in Vpn : Within(u, s.lo, s.lo + s.memsz) => {"V", "U", "R", "W"} \subseteq Entry(n, satp, u).flags
  BY Zenon, <1>6, <1>7 DEF Ranged, SameAt, fl
<1>9. Apart(ram, n, satp) /\ SegReady(ram', satp, s)
  BY Zenon, <1>1, <1>8 DEF Apart, SegReady
<1>10. PICK c : c = cur
  BY Zenon
<1>11. /\ MemInv' /\ Live' = Live /\ c \in Live /\ c \in Pid
       /\ SpaceOf(c) = [u \in Vpn |-> PageOf(ram, satp, u)]
       /\ SpaceOf(c)' = [u \in Vpn |-> PageOf(ram', satp, u)]
       /\ \A p \in Pid : p # c => SpaceOf(p)' = SpaceOf(p)
  <2>1. l \in LoadRec \cup {NoLoad} /\ InBounds(l.prog[l.seg]) /\ SegReady(ram', satp, l.prog[l.seg])
    BY ZenonT(30), <1>1, <1>4, <1>5, <1>9
  <2> QED BY <1>1, <1>5, <1>7, <1>8, <1>9, <1>10, <2>1, CurStep, Zenon
<1>12. \A u \in Vpn \ Promised(s).pages : PageOf(ram', satp, u) = PageOf(ram, satp, u)
  BY <1>1, <1>2, <1>8, SamePage
<1>13. \A u \in Promised(s).pages : {"V", "U", "R", "W"} \subseteq Entry(ram', satp, u).flags
  BY Zenon, <1>1, <1>6, <1>8
<1>14. AS!Fresh(Promised(s).pages)
  BY Zenon, <1>1, <1>6, <1>10, <1>11, <1>12, <1>13, FreshStep
<1> QED BY Zenon, <1>1, <1>3, <1>11, <1>14

(* Filling pages of a segment leaves the other pages and spaces.             *)
LEMMA FillApart ==
  ASSUME NEW m \in Ram, NEW r \in Page \ Taken(m), NEW s \in Segments, InBounds(s), NEW n \in 0 .. s.memsz,
         Owned(m), \A u \in Vpn : Within(u, s.lo, s.lo + s.memsz) => Valid(Entry(m, r, u))
  PROVE  LET z == Filled(m, r, s, n)
         IN /\ z \in Ram /\ Fine(m, z) /\ (Panicked(z) <=> Panicked(m))
            /\ \A q, u : Entry(z, q, u) = Entry(m, q, u)
            /\ \A q \in Page \ Taken(m), u \in Vpn :
                 q # r \/ ~Within(u, s.lo, s.lo + n) => SameAt(m, z, q, u)
            /\ \A u \in Vpn : Within(u, s.lo, s.lo + n) => z.data[Entry(m, r, u).ppn] = FileValue(s, u)
<1> DEFINE z == Filled(m, r, s, n)
<1>1. z \in Ram /\ Loaded(m, z, r, s, s.lo + n)
  BY Zenon, FillRange
<1> HIDE DEF z
<1>2. \A u \in Vpn : Within(u, s.lo, s.lo + n) => Valid(Entry(m, r, u))
  BY SegPages DEF Within, Vpn
<1>3. ASSUME NEW q \in Page \ Taken(m), NEW u \in Vpn, q # r \/ ~Within(u, s.lo, s.lo + n)
      PROVE  SameAt(m, z, q, u)
  <2>1. ASSUME Valid(Entry(m, q, u))
        PROVE  z.data[Entry(m, q, u).ppn] = m.data[Entry(m, q, u).ppn]
    <3> DEFINE p == Entry(m, q, u).ppn
    <3>1. p \in Page /\ \A v \in Vpn : Valid(Entry(m, r, v)) /\ p = Entry(m, r, v).ppn => q = r /\ u = v
      BY Zenon, <2>1, EntryInjective
    <3>2. ~ \E v \in Vpn : Within(v, s.lo, s.lo + n) /\ p = Entry(m, r, v).ppn
      BY Zenon, <1>2, <1>3, <3>1
    <3> HIDE DEF p
    <3>3. z.data[p] = m.data[p]
      BY Zenon, <1>1, <3>1, <3>2 DEF Loaded
    <3> QED BY Zenon, <3>3 DEF p
  <2>2. Entry(z, q, u) = Entry(m, q, u)
    BY Zenon, <1>1 DEF Loaded
  <2> QED BY Zenon, <2>1, <2>2 DEF SameAt
<1>4. /\ Fine(m, z) /\ (Panicked(z) <=> Panicked(m))
      /\ \A q, u : Entry(z, q, u) = Entry(m, q, u)
      /\ \A u \in Vpn : Within(u, s.lo, s.lo + n) => z.data[Entry(m, r, u).ppn] = FileValue(s, u)
  BY Zenon, <1>1 DEF Loaded
<1> QED BY Zenon, <1>1, <1>3, <1>4 DEF z

(* elf_load fails: the pages of the segment may have been written.           *)
LEMMA LoadFailsStep ==
  ASSUME MemInv, LoadFails
  PROVE  /\ MemInv'
         /\ \/ \E s \in Segments : InBounds(s) /\ AS!Fresh(Promised(s).pages)
            \/ UNCHANGED AS!vars
<1> DEFINE s == Seg(cur)
<1>1. /\ cur # IDLE /\ load[cur] # NoLoad
      /\ UNCHANGED <<procs, cur, satp>> /\ load' = [load EXCEPT ![cur] = NoLoad]
      /\ \/ ram' = ram
         \/ load[cur].mapped /\ \E k \in 0 .. s.filesz : Put(Filled(ram, satp, s, k))
  BY Zenon DEF LoadFails, Loading, Progress
<1>2. /\ ram \in Ram /\ Owned(ram) /\ ~Panicked(ram) /\ satp \in Page \ Taken(ram) /\ cur \in Pid
      /\ satp = mtag[cur]
  BY Zenon, <1>1, Running DEF MemInv, ProcInv
<1>3. s \in Segments /\ (load[cur].mapped => InBounds(s) /\ SegReady(ram, satp, s))
  BY Zenon, <1>1, <1>2, SegTyped DEF MemInv, Ready
<1>4. PICK c : c = cur
  OBVIOUS
<1>5. ASSUME ram' \in Ram, Fine(ram, ram'), ~Panicked(ram'), Apart(ram, ram', satp)
      PROVE  /\ MemInv' /\ Live' = Live /\ c \in Live /\ c \in Pid
             /\ SpaceOf(c) = [u \in Vpn |-> PageOf(ram, satp, u)]
             /\ SpaceOf(c)' = [u \in Vpn |-> PageOf(ram', satp, u)]
             /\ \A p \in Pid : p # c => SpaceOf(p)' = SpaceOf(p)
  <2>1. NoLoad \in LoadRec \cup {NoLoad}
    BY Zenon
  <2> QED BY <1>1, <1>4, <1>5, <2>1, CurStep, Zenon
<1>6. CASE ram' = ram
  <2>1. ram' \in Ram /\ Fine(ram, ram') /\ ~Panicked(ram') /\ Apart(ram, ram', satp)
    BY Zenon, <1>2, <1>6 DEF Fine, Mono, Clean, Apart, SameAt
  <2>2. MemInv' /\ Live' = Live /\ \A p \in Pid : SpaceOf(p)' = SpaceOf(p)
    BY Zenon, <1>5, <1>6, <2>1
  <2>3. UNCHANGED AS!vars
    BY Zenon, <1>1, <2>2 DEF AS!vars
  <2> QED BY Zenon, <2>2, <2>3
<1>7. CASE load[cur].mapped /\ \E k \in 0 .. s.filesz : Put(Filled(ram, satp, s, k))
  <2>1. PICK k \in 0 .. s.filesz : Put(Filled(ram, satp, s, k))
    BY Zenon, <1>7
  <2> DEFINE n == Filled(ram, satp, s, k)
  <2>2. ram' = n /\ ~Panicked(n)
    BY Zenon, <2>1, PutIs
  <2>3. InBounds(s) /\ k \in 0 .. s.memsz /\ Promised(s).pages \subseteq Vpn
        /\ \A u \in Vpn : /\ u \in Promised(s).pages <=> Within(u, s.lo, s.lo + s.memsz)
                          /\ Within(u, s.lo, s.lo + k) => Within(u, s.lo, s.lo + s.memsz)
    BY <1>3, <1>7, SegPages DEF Within, Vpn
  <2>4. \A u \in Vpn : Within(u, s.lo, s.lo + s.memsz) => {"V", "U", "R", "W"} \subseteq Entry(ram, satp, u).flags
    BY ZenonT(30), <1>3, <1>7 DEF SegReady
  <2> HIDE DEF s
  <2>5. /\ n \in Ram /\ Fine(ram, n)
        /\ \A q, u : Entry(n, q, u) = Entry(ram, q, u)
        /\ \A q \in Page \ Taken(ram), u \in Vpn :
             q # satp \/ ~Within(u, s.lo, s.lo + k) => SameAt(ram, n, q, u)
    <3>1. \A u \in Vpn : Within(u, s.lo, s.lo + s.memsz) => Valid(Entry(ram, satp, u))
      BY Zenon, <2>4 DEF Valid
    <3> QED BY SMTT(30), <1>2, <1>3, <2>3, <3>1, FillApart
  <2> HIDE DEF n
  <2>6. Apart(ram, n, satp)
    BY Zenon, <2>5 DEF Apart
  <2>7. /\ MemInv' /\ Live' = Live /\ c \in Live /\ c \in Pid
        /\ SpaceOf(c) = [u \in Vpn |-> PageOf(ram, satp, u)]
        /\ SpaceOf(c)' = [u \in Vpn |-> PageOf(ram', satp, u)]
        /\ \A p \in Pid : p # c => SpaceOf(p)' = SpaceOf(p)
    BY ZenonT(30), <1>5, <2>2, <2>5, <2>6
  <2>8. \A u \in Vpn \ Promised(s).pages : PageOf(ram', satp, u) = PageOf(ram, satp, u)
    BY <1>2, <2>2, <2>3, <2>5, SamePage
  <2>9. \A u \in Promised(s).pages : {"V", "U", "R", "W"} \subseteq Entry(ram', satp, u).flags
    BY Zenon, <2>2, <2>3, <2>4, <2>5
  <2>10. AS!Fresh(Promised(s).pages)
    BY Zenon, <1>1, <1>4, <2>3, <2>7, <2>8, <2>9, FreshStep
  <2> QED BY Zenon, <1>3, <2>3, <2>7, <2>10
<1> QED BY Zenon, <1>1, <1>6, <1>7

(* elf_load has read a segment: its pages hold the file's content and zeroes *)
(* and have the permissions of the header.                                   *)
LEMMA ReadSegmentStep ==
  ASSUME MemInv, ReadSegment
  PROVE  MemInv' /\ \E s \in Segments : InBounds(s) /\ AS!Load(Promised(s))
<1> DEFINE s == Seg(cur)
           fl == {"U"} \cup s.flags
           y == Filled(ram, satp, s, s.memsz)
           n == memory_set_range_flags(y, satp, s.lo, s.memsz, fl)
           l == IF load[cur].seg = Len(load[cur].prog) THEN NoLoad
                ELSE [prog |-> load[cur].prog, seg |-> load[cur].seg + 1, mapped |-> FALSE]
           hi == s.lo + s.memsz
<1>1. /\ cur # IDLE /\ load[cur] # NoLoad /\ load[cur].mapped
      /\ ram' = n /\ ~Panicked(n) /\ UNCHANGED <<procs, cur, satp>> /\ load' = [load EXCEPT ![cur] = l]
  BY Zenon, PutIs DEF ReadSegment, Loading, Progress
<1>2. /\ ram \in Ram /\ Owned(ram) /\ ~Panicked(ram) /\ satp \in Page \ Taken(ram) /\ cur \in Pid
      /\ satp = mtag[cur]
  BY Zenon, <1>1, Running DEF MemInv, ProcInv
<1>3. /\ s \in Segments /\ InBounds(s) /\ SegReady(ram, satp, s)
      /\ load[cur] \in LoadRec /\ load[cur].seg \in 1 .. Len(load[cur].prog) /\ Len(load[cur].prog) \in Nat
  BY Zenon, <1>1, <1>2, SegTyped DEF MemInv, Ready
<1>4. l \in LoadRec \cup {NoLoad} /\ (l # NoLoad => l.seg \in 1 .. Len(l.prog) /\ ~l.mapped)
  <2>1. CASE load[cur].seg = Len(load[cur].prog)
    BY Zenon, <2>1
  <2>2. CASE load[cur].seg # Len(load[cur].prog)
    <3> DEFINE j == load[cur].seg + 1
               k == [prog |-> load[cur].prog, seg |-> j, mapped |-> FALSE]
    <3>0. j \in Nat
      BY <1>3
    <3> HIDE DEF j
    <3>1. k \in LoadRec /\ k.seg = j /\ k.prog = load[cur].prog
      BY Zenon, <1>3, <3>0 DEF LoadRec
    <3>2. ~k.mapped
      BY Zenon
    <3>3. j \in 1 .. Len(load[cur].prog)
      BY <1>3, <2>2 DEF j
    <3>4. l = k
      BY Zenon, <2>2 DEF k, j, l
    <3> HIDE DEF k, l
    <3> QED BY Zenon, <3>1, <3>2, <3>3, <3>4
  <2> QED BY Zenon, <2>1, <2>2
<1>5. /\ s.lo \in Nat /\ s.memsz \in Nat /\ hi <= NVPN /\ s.memsz \in 0 .. s.memsz
      /\ Promised(s).pages \subseteq Vpn
      /\ \A u \in Vpn : u \in Promised(s).pages <=> Within(u, s.lo, hi)
  BY <1>3, SegPages
<1>6. s.flags \subseteq {"R", "W", "X"} /\ fl \in SUBSET Flag
  BY Zenon, <1>3, SegmentTyped DEF Flag
<1>7. \A u \in Vpn : Within(u, s.lo, hi) => Valid(Entry(ram, satp, u))
  BY ZenonT(30), <1>3 DEF SegReady, Valid
<1> HIDE DEF s, l
<1>8. /\ y \in Ram /\ Fine(ram, y)
      /\ \A q, u : Entry(y, q, u) = Entry(ram, q, u)
      /\ \A q \in Page \ Taken(ram), u \in Vpn : q # satp \/ ~Within(u, s.lo, hi) => SameAt(ram, y, q, u)
      /\ \A u \in Vpn : Within(u, s.lo, hi) => y.data[Entry(ram, satp, u).ppn] = FileValue(s, u)
  BY <1>2, <1>3, <1>5, <1>7, FillApart
<1> HIDE DEF y, fl
<1>9. Owned(y) /\ satp \in Page \ Taken(y) /\ Taken(y) \subseteq Taken(ram)
  BY Zenon, <1>2, <1>8 DEF Fine
<1>10. n \in Ram /\ n.data = y.data /\ Flagged(y, n, satp, s.lo, hi, fl)
  BY SMTT(30), <1>5, <1>6, <1>7, <1>8, <1>9, FlagRange
<1> HIDE DEF n, hi
<1>11. /\ Fine(y, n)
       /\ \A q \in Page \ Taken(ram), u \in Vpn :
            q # satp \/ ~Within(u, s.lo, hi) => Entry(n, q, u) = Entry(y, q, u)
       /\ \A u \in Vpn : Within(u, s.lo, hi) =>
            Entry(n, satp, u) = [ppn |-> Entry(ram, satp, u).ppn, flags |-> fl \cup {"V"}]
  BY Zenon, <1>8, <1>9, <1>10 DEF Flagged
<1>12. Fine(ram, n)
  BY Zenon, <1>8, <1>11, FineTrans
<1>13. \A q \in Page \ Taken(ram), u \in Vpn : q # satp \/ ~Within(u, s.lo, hi) => SameAt(ram, n, q, u)
  BY <1>8, <1>10, <1>11 DEF SameAt
<1>14. Apart(ram, n, satp)
  BY Zenon, <1>13 DEF Apart
<1>15. PICK c : c = cur
  OBVIOUS
<1>16. /\ MemInv' /\ Live' = Live /\ c \in Live /\ c \in Pid
       /\ SpaceOf(c) = [u \in Vpn |-> PageOf(ram, satp, u)]
       /\ SpaceOf(c)' = [u \in Vpn |-> PageOf(ram', satp, u)]
       /\ \A p \in Pid : p # c => SpaceOf(p)' = SpaceOf(p)
  BY <1>1, <1>4, <1>10, <1>12, <1>14, <1>15, CurStep, Zenon
<1>17. ASSUME NEW u \in Vpn, u \notin Promised(s).pages PROVE PageOf(ram', satp, u) = PageOf(ram, satp, u)
  BY SMTT(30), <1>1, <1>2, <1>5, <1>13, <1>17, SamePage
<1>18. ASSUME NEW u \in Vpn, u \in Promised(s).pages
       PROVE  PageOf(ram', satp, u) = [value |-> Promised(s).value[u], flags |-> Promised(s).flags]
  <2>1. Within(u, s.lo, hi)
    BY Zenon, <1>5, <1>18
  <2>2. Entry(n, satp, u) = [ppn |-> Entry(ram, satp, u).ppn, flags |-> fl \cup {"V"}]
    BY Zenon, <1>11, <2>1
  <2>3. n.data[Entry(n, satp, u).ppn] = FileValue(s, u)
    BY <1>8, <1>10, <2>1, <2>2
  <2>4. FileValue(s, u) = Promised(s).value[u]
    <3>1. u < s.lo + s.filesz <=> u - s.lo < s.filesz
      BY SMTT(30), <1>3, <1>5, SegPages, Sizes DEF Vpn
    <3> QED BY Zenon, <1>18, <3>1 DEF FileValue, Promised
  <2>5. {"V", "U"} \subseteq fl \cup {"V"} /\ (fl \cup {"V"}) \ {"V", "U"} = s.flags
    BY Zenon, <1>6 DEF fl
  <2>6. PageOf(n, satp, u) = [value |-> FileValue(s, u), flags |-> s.flags]
    BY <2>2, <2>3, <2>5 DEF PageOf
  <2>7. Promised(s).flags = s.flags
    BY Zenon DEF Promised
  <2> QED BY Zenon, <1>1, <2>4, <2>6, <2>7
<1>19. AS!Load(Promised(s))
  <2> DEFINE sp == [p \in Pid |-> SpaceOf(p)]
             g == [u \in Vpn |-> IF u \in Promised(s).pages
                                 THEN [value |-> Promised(s).value[u], flags |-> Promised(s).flags]
                                 ELSE sp[c][u]]
  <2>1. SpaceOf(c)' = g
    BY <1>16, <1>17, <1>18
  <2>2. sp' = [sp EXCEPT ![c] = g]
    BY Zenon, <1>16, <2>1
  <2> QED BY Zenon, <1>1, <1>15, <1>16, <2>2 DEF AS!Load, AS!Mine
<1> QED BY Zenon, <1>3, <1>16, <1>19

(* What fork does to ram: the child's root and stack are pages of the free   *)
(* list, its space is a copy, and no space there was changes.                *)
Forked(m, n, r, new, st) ==
  /\ n \in Ram /\ Fine(m, n) /\ new # st
  /\ new \in Free(m) /\ new \in Page \ Taken(n) /\ new # 0 /\ ~Marked(n, new)
  /\ st \in Free(m) /\ st \in Page \ Taken(n) /\ st # 0
  /\ \A q \in Page \ Taken(m), u \in Vpn : SameAt(m, n, q, u)
  /\ \A u \in Vpn : PageOf(n, new, u) = PageOf(m, r, u)

LEMMA ForkRam ==
  ASSUME NEW m \in Ram, Owned(m), NEW r \in Page \ Taken(m),
         NEW m1, m1 = kmalloc(m, PROC_SIZE), NEW z, z = memory_space_clone(m1, r),
         NEW m2, m2 = kmalloc(z, THR_SIZE), NEW n, n = memory_alloc_page(m2), ~Panicked(n),
         NEW new, new = Popped(m1), NEW st, st = Popped(m2)
  PROVE  Forked(m, n, r, new, st)
<1> DEFINE a == memory_alloc_page(m1)
<1>0. PROC_SIZE \in 1 .. PAGE_SIZE /\ THR_SIZE \in 1 .. PAGE_SIZE /\ NVPN \in Nat
      /\ \A u \in Vpn : u < NVPN
  BY Sizes DEF Vpn
<1>1. m1 \in Ram /\ m1.data = m.data
  BY Zenon, <1>0, Kmalloc
<1>2. z \in Ram /\ (Panicked(m1) => Panicked(z))
  BY Zenon, <1>1, CloneRange
<1>3. m2 \in Ram /\ m2.data = z.data /\ (Panicked(z) => Panicked(m2))
  BY Zenon, <1>0, <1>2, Kmalloc
<1>4. n \in Ram /\ n.data = m2.data /\ (Panicked(m2) => Panicked(n))
  BY Zenon, <1>3, AllocFields
<1>5. a \in Ram /\ a.data = m1.data /\ a.table = m1.table /\ new \in Page
  BY Zenon, <1>1, AllocFields
<1>6. ~Panicked(m1) /\ ~Panicked(z) /\ ~Panicked(m2)
  BY Zenon, <1>2, <1>3, <1>4
<1>7. Fine(m, m1) /\ \A q, u : Entry(m1, q, u) = Entry(m, q, u)
  BY <1>0, <1>6, KmallocFine
<1>8. Owned(m1) /\ r \in Page \ Taken(m1)
  BY Zenon, <1>7 DEF Fine
<1>9. ~Panicked(a) /\ Cloned(a, z, r, new, NVPN)
  BY Zenon, <1>1, <1>6, <1>8, CloneRange
<1>10. /\ Fine(m1, a) /\ \A q, u : Entry(a, q, u) = Entry(m1, q, u)
       /\ new \in Free(m1) /\ new \in Page \ Taken(a) /\ new # main_pt2
       /\ \A i \in Index : a.table[new][i] = null_pte
  BY Zenon, <1>1, <1>8, <1>9, AllocFine
<1> HIDE DEF a
<1>11. Fine(a, z) /\ Owned(z)
  BY Zenon, <1>9 DEF Cloned, Fine
<1>12. Fine(z, m2) /\ \A q, u : Entry(m2, q, u) = Entry(z, q, u)
  BY SMTT(30), <1>0, <1>2, <1>6, <1>11, KmallocFine
<1>13. Owned(m2)
  BY Zenon, <1>12 DEF Fine
<1>14. /\ Fine(m2, n) /\ \A q, u : Entry(n, q, u) = Entry(m2, q, u)
       /\ st \in Free(m2) /\ st \in Page \ Taken(n) /\ st # main_pt2
  BY <1>3, <1>13, AllocFine
<1>15. /\ Fine(m, a) /\ Fine(a, m2) /\ Fine(a, n) /\ Fine(m, n)
  BY Zenon, <1>7, <1>10, <1>11, <1>12, <1>14, FineTrans
<1>16. /\ new \in Free(m) /\ new \in Page \ Taken(n) /\ new # 0
       /\ st \in Free(m) /\ st # 0 /\ new # st
  <2>1. new \in Free(m) /\ new \in Page \ Taken(n)
    BY Zenon, <1>7, <1>10, <1>15 DEF Fine
  <2>2. st \in Free(m2) /\ st \in Free(m) /\ new \notin Free(m2)
    BY Zenon, <1>10, <1>14, <1>7, <1>15 DEF Fine, Taken
  <2> QED BY Zenon, <1>10, <1>14, <2>1, <2>2 DEF main_pt2
<1>17. ~Marked(n, new)
  <2>1. ~Marked(a, new)
    BY <1>10 DEF Marked, Descends, null_pte
  <2> QED BY ZenonT(30), <1>10, <1>15, <2>1 DEF Fine, Clean
<1>18. \A q, u : Entry(a, q, u) = Entry(m, q, u) /\ Entry(n, q, u) = Entry(z, q, u)
  BY SMTT(30), <1>7, <1>10, <1>12, <1>14
<1>19. n.data = z.data /\ a.data = m.data
  BY Zenon, <1>1, <1>3, <1>4, <1>5
<1>20. ASSUME NEW q \in Page \ Taken(m), NEW u \in Vpn PROVE SameAt(m, n, q, u)
  <2>1. q \in Page \ Taken(a) /\ q # new
    BY Zenon, <1>15, <1>16 DEF Fine, Taken
  <2>2. Entry(n, q, u) = Entry(m, q, u) /\ Entry(a, q, u) = Entry(m, q, u)
    BY <1>9, <1>18, <2>1 DEF Cloned
  <2>3. ASSUME Valid(Entry(m, q, u)) PROVE n.data[Entry(m, q, u).ppn] = m.data[Entry(m, q, u).ppn]
    <3> DEFINE x == Entry(m, q, u).ppn
    <3>1. x \in Mapped(a) /\ x \in Page /\ Owned(a)
      BY Zenon, <1>5, <1>15, <2>1, <2>2, <2>3, EntryInjective DEF Fine
    <3> HIDE DEF x
    <3>2. z.data[x] = a.data[x]
      BY Zenon, <1>9, <3>1 DEF Cloned, Owned
    <3> QED BY Zenon, <1>19, <3>2 DEF x
  <2> QED BY Zenon, <2>2, <2>3 DEF SameAt
<1>21. ASSUME NEW u \in Vpn PROVE PageOf(n, new, u) = PageOf(m, r, u)
  <2>1. CopyOf(a, z, r, new, u)
    BY Zenon, <1>0, <1>9 DEF Cloned
  <2>2. Copies(a, r, u) <=> {"V", "U"} \subseteq Entry(m, r, u).flags
    BY Zenon, <1>18 DEF Copies, Valid
  <2>3. CASE Copies(a, r, u)
    <3>1. /\ Entry(n, new, u).flags = Entry(m, r, u).flags
          /\ n.data[Entry(n, new, u).ppn] = m.data[Entry(m, r, u).ppn]
      BY SMTT(30), <1>18, <1>19, <2>1, <2>3 DEF CopyOf
    <3> QED BY ZenonT(30), <2>2, <2>3, <3>1 DEF PageOf
  <2>4. CASE ~Copies(a, r, u)
    <3>1. Entry(n, new, u) = Entry(a, new, u)
      BY ZenonT(30), <1>18, <2>1, <2>4 DEF CopyOf
    <3>2. ~HasPt0(a, new, u)
      BY SMTT(30), <1>10, VpnFacts DEF HasPt0, HasPt1, Valid, null_pte
    <3>3. Entry(n, new, u).flags = {}
      BY <3>1, <3>2, EntryIs DEF null_pte
    <3>4. PageOf(n, new, u) = Unmapped
      BY Zenon, <3>3 DEF PageOf
    <3>5. PageOf(m, r, u) = Unmapped
      BY Zenon, <2>2, <2>4 DEF PageOf
    <3> QED BY Zenon, <3>4, <3>5
  <2> QED BY Zenon, <2>3, <2>4
<1> QED BY Zenon, <1>4, <1>14, <1>15, <1>16, <1>17, <1>20, <1>21 DEF Forked

(* fork: the child has a root and a stack of its own, and the pages of its   *)
(* parent.                                                                   *)
LEMMA ForkStep ==
  ASSUME MemInv, Fork
  PROVE  MemInv' /\ \E c \in Pid : AS!Fork(c)
<1> DEFINE free == {p \in Pid : ~proctab[p]}
           m1 == kmalloc(ram, PROC_SIZE)
           z == memory_space_clone(m1, satp)
           m2 == kmalloc(z, THR_SIZE)
           new == Popped(m1)
           st == Popped(m2)
<1>1. PICK c : c = CHOOSE p \in free : \A q \in free : p <= q
  BY Zenon
<1>2. /\ cur # IDLE /\ free # {} /\ ram' = memory_alloc_page(m2) /\ ~Panicked(ram')
      /\ proctab' = [proctab EXCEPT ![c] = TRUE]
      /\ mtag' = [mtag EXCEPT ![c] = new] /\ stack' = [stack EXCEPT ![c] = st]
      /\ \E q \in Live' : Resume(q, satp)
      /\ load' = load
  BY Zenon, <1>1, PutIs DEF Fork, InUser
<1>3. c \in Pid /\ c \notin Live
  <2>1. free \subseteq Nat
    BY Sizes DEF Pid
  <2>2. \E p \in free : \A q \in free : p <= q
    BY Zenon, <1>2, <2>1, LeastOf
  <2>3. c \in free
    BY Zenon, <1>1, <2>2
  <2> QED BY <2>3, Zenon DEF Live
<1>4. /\ ram \in Ram /\ Owned(ram) /\ satp \in Page \ Taken(ram) /\ cur \in Live /\ cur \in Pid
      /\ satp = mtag[cur]
  BY Zenon, <1>2, Running DEF MemInv, ProcInv
<1>5. /\ ram' \in Ram /\ Fine(ram, ram') /\ new # st
      /\ new \in Free(ram) /\ new \in Page \ Taken(ram') /\ new # 0 /\ ~Marked(ram', new)
      /\ st \in Free(ram) /\ st \in Page \ Taken(ram') /\ st # 0
      /\ \A q \in Page \ Taken(ram), u \in Vpn : SameAt(ram, ram', q, u)
      /\ \A u \in Vpn : PageOf(ram', new, u) = PageOf(ram, satp, u)
  <2>1. Forked(ram, ram', satp, new, st)
    BY Zenon, <1>2, <1>4, ForkRam
  <2> QED BY Zenon, <2>1 DEF Forked
<1> HIDE DEF free, m1, z, m2, new, st
<1>6. Live' = Live \cup {c} /\ proctab' \in [Pid -> BOOLEAN]
  <2>1. proctab \in [Pid -> BOOLEAN]
    BY Zenon DEF MemInv, ProcInv
  <2>2. \A p \in Pid : proctab'[p] <=> proctab[p] \/ p = c
    BY Zenon, <1>2, <2>1
  <2>3. proctab' \in [Pid -> BOOLEAN]
    BY Zenon, <1>2, <2>1
  <2>4. Live' = {p \in Pid : proctab'[p]}
    BY Zenon DEF Live
  <2> QED BY <1>3, <2>2, <2>3, <2>4, Zenon DEF Live
<1>7. /\ mtag' \in [Pid -> Page] /\ stack' \in [Pid -> Page] /\ mtag'[c] = new /\ stack'[c] = st
      /\ \A p \in Pid : p # c => mtag'[p] = mtag[p] /\ stack'[p] = stack[p]
  BY Zenon, <1>2, <1>3, <1>5 DEF MemInv, ProcInv
<1>8. ASSUME NEW q \in Live
      PROVE  /\ q \in Pid /\ q # c /\ mtag[q] \in Page \ Taken(ram) /\ ~Marked(ram, mtag[q])
             /\ stack[q] # 0 => stack[q] \in Page \ Taken(ram)
             /\ mtag'[q] = mtag[q] /\ stack'[q] = stack[q]
             /\ mtag[q] \notin {new, st} /\ stack[q] \notin {new, st}
  <2>1. /\ q \in Pid /\ q # c /\ mtag[q] \in Page \ Taken(ram) /\ ~Marked(ram, mtag[q])
        /\ stack[q] # 0 => stack[q] \in Page \ Taken(ram)
    BY Zenon, <1>3, LiveTyped DEF MemInv, ProcInv
  <2> QED BY Zenon, <1>5, <1>7, <2>1 DEF Taken
<1>9. cur' \in Live' /\ satp' = mtag'[cur'] /\ satp' \in Page
  <2>1. PICK q \in Live' : Resume(q, satp)
    BY Zenon, <1>2
  <2>2. q \in Pid /\ q # IDLE
    BY SMTT(30), <1>3, <1>6, <1>8, Sizes DEF IDLE, Pid
  <2> QED BY Zenon, <1>7, <2>1, <2>2 DEF Resume
<1>10. ProcInv'
  <2>1. ASSUME NEW q \in Live'
        PROVE  /\ mtag'[q] \notin Taken(ram') /\ ~Marked(ram', mtag'[q])
               /\ stack'[q] # 0 => stack'[q] \notin Taken(ram')
    BY Zenon, <1>5, <1>6, <1>7, <1>8 DEF Fine, Clean
  <2>2. ASSUME NEW p \in Live', NEW q \in Live'
        PROVE  /\ p # q => mtag'[p] # mtag'[q] /\ (stack'[p] # stack'[q] \/ stack'[p] = 0)
               /\ mtag'[p] # stack'[q] \/ stack'[q] = 0
    <3>1. ASSUME p \in Live, q \in Live
          PROVE  /\ p # q => mtag[p] # mtag[q] /\ (stack[p] # stack[q] \/ stack[p] = 0)
                 /\ mtag[p] # stack[q] \/ stack[q] = 0
      BY Zenon, <3>1 DEF MemInv, ProcInv
    <3> QED BY Zenon, <1>5, <1>6, <1>7, <1>8, <3>1
  <2>3. Owned(ram)' /\ ~Panicked(ram)' /\ MAIN_PID \in Live'
    <3>1. ~Panicked(ram)'
      BY <1>2, Zenon DEF Panicked
    <3>2. MAIN_PID \in Live'
      BY Zenon, <1>6 DEF MemInv, ProcInv
    <3> QED BY Zenon, <1>5, <3>1, <3>2 DEF Fine
  <2> QED BY Zenon, <1>5, <1>6, <1>7, <1>9, <2>1, <2>2, <2>3 DEF ProcInv
<1>11. LoadInv'
  <2>1. ASSUME NEW p \in Pid, load'[p] # NoLoad
        PROVE  /\ p \in Live' /\ load'[p].seg \in 1 .. Len(load'[p].prog)
               /\ load'[p].mapped => InBounds(Seg(p)') /\ SegReady(ram', mtag'[p], Seg(p)')
    <3>1. load'[p] = load[p] /\ Seg(p)' = Seg(p)
      BY Zenon, <1>2 DEF Seg
    <3>2. /\ p \in Live /\ load[p].seg \in 1 .. Len(load[p].prog)
          /\ load[p].mapped => InBounds(Seg(p)) /\ SegReady(ram, mtag[p], Seg(p))
      BY Zenon, <2>1, <3>1 DEF MemInv, LoadInv, Ready
    <3>3. \A u \in Vpn : Entry(ram', mtag[p], u) = Entry(ram, mtag[p], u)
      BY Zenon, <1>5, <1>8, <3>2 DEF SameAt
    <3>4. SegReady(ram, mtag[p], Seg(p)) => SegReady(ram', mtag[p], Seg(p))
      BY Zenon, <3>3 DEF SegReady
    <3> QED BY Zenon, <1>6, <1>8, <3>1, <3>2, <3>4
  <2>2. load' \in [Pid -> LoadRec \cup {NoLoad}]
    BY Zenon, <1>2 DEF MemInv, LoadInv
  <2> QED BY Zenon, <2>1, <2>2 DEF LoadInv, Ready, InBounds
<1>12. ASSUME NEW p \in Pid, p # c PROVE SpaceOf(p)' = SpaceOf(p)
  <2>1. CASE p \in Live
    <3>1. \A v \in Vpn : PageOf(ram', mtag'[p], v) = PageOf(ram, mtag[p], v)
      BY SMTT(30), <1>5, <1>8, <2>1, SamePage
    <3>2. proctab[p] /\ proctab'[p]
      BY <1>6, <2>1, Zenon DEF Live
    <3> QED BY ZenonT(30), <3>1, <3>2, SpaceIs
  <2>2. CASE p \notin Live
    <3>1. ~proctab[p] /\ ~proctab'[p]
      <4>1. p \notin Live'
        BY Zenon, <1>6, <1>12, <2>2
      <4> QED BY <2>2, <4>1, Zenon DEF Live
    <3> QED BY Zenon, <3>1, SpaceIs
  <2> QED BY Zenon, <2>1, <2>2
<1>13. PICK d : d = cur
  OBVIOUS
<1>14. SpaceOf(c)' = SpaceOf(d)
  <2>1. SpaceOf(d) = [v \in Vpn |-> PageOf(ram, satp, v)]
    BY Zenon, <1>2, <1>13, CurSpace DEF MemInv
  <2>2. proctab'[c]
    BY <1>6, Zenon DEF Live
  <2>3. SpaceOf(c)' = [v \in Vpn |-> PageOf(ram', new, v)]
    BY Zenon, <1>7, <2>2, SpaceIs
  <2> QED BY Zenon, <1>5, <2>1, <2>3
<1>15. AS!Fork(c)
  <2> DEFINE sp == [p \in Pid |-> SpaceOf(p)]
  <2>1. sp' = [sp EXCEPT ![c] = sp[d]]
    BY Zenon, <1>3, <1>4, <1>12, <1>13, <1>14
  <2> QED BY Zenon, <1>3, <1>4, <1>6, <1>9, <1>13, <2>1 DEF AS!Fork
<1> QED BY Zenon, <1>3, <1>10, <1>11, <1>15 DEF MemInv

(* exit: no page is returned, no other space changes.                        *)
LEMMA ExitStep ==
  ASSUME MemInv, Exit
  PROVE  MemInv' /\ AS!Exit
<1>1. PICK c : c = cur
  OBVIOUS
<1>2. /\ c # IDLE /\ load[c] = NoLoad /\ c # MAIN_PID
      /\ ram' = walk_and_free_user(walk_and_free_user(ram, satp), satp)
      /\ proctab' = [proctab EXCEPT ![c] = FALSE]
      /\ mtag' = mtag /\ stack' = stack /\ load' = load
      /\ \E q \in Live' \cup {IDLE} : Resume(q, main_pt2)
  BY Zenon, <1>1, PutIs DEF Exit, InUser, memory_space_reclaim
<1>3. ~Marked(ram, satp) /\ c \in Live /\ c \in Pid
  BY Zenon, <1>1, <1>2, Running DEF MemInv
<1>4. ram' = ram
  BY Zenon, <1>2, <1>3, FreesNothing
<1>5. Live' = Live \ {c} /\ proctab' \in [Pid -> BOOLEAN]
  <2>1. proctab \in [Pid -> BOOLEAN]
    BY DEF MemInv, ProcInv
  <2>2. \A p \in Pid : proctab'[p] <=> proctab[p] /\ p # c
    BY Zenon, <1>2, <2>1
  <2>3. proctab' \in [Pid -> BOOLEAN]
    BY Zenon, <1>2, <2>1
  <2>4. Live' = {p \in Pid : proctab'[p]}
    BY DEF Live
  <2> QED BY <2>2, <2>3, <2>4, Zenon DEF Live
<1>6. /\ cur' \in Live' \cup {IDLE} /\ (cur' # IDLE => satp' = mtag'[cur']) /\ satp' \in Page
  <2>1. PICK q \in Live' \cup {IDLE} : Resume(q, main_pt2)
    BY Zenon, <1>2
  <2>2. main_pt2 \in Page /\ (q # IDLE => mtag'[q] \in Page)
    BY SMTT(30), <1>2, <1>5, Sizes, LiveTyped DEF MemInv, ProcInv, main_pt2, Page
  <2> QED BY Zenon, <2>1, <2>2 DEF Resume
<1>7. ProcInv'
  BY <1>2, <1>4, <1>5, <1>6 DEF MemInv, ProcInv
<1>8. LoadInv'
  <2>1. ASSUME NEW p \in Pid, load[p] # NoLoad PROVE p \in Live'
    BY Zenon, <1>2, <1>5, <2>1 DEF MemInv, LoadInv
  <2>2. \A p \in Pid : (Ready(p)' <=> Ready(p)) /\ Seg(p)' = Seg(p)
    BY Zenon, <1>2, <1>4 DEF Ready, Seg
  <2> QED BY Zenon, <1>2, <2>1, <2>2 DEF MemInv, LoadInv, InBounds
<1>9. ASSUME NEW p \in Pid, p # c PROVE SpaceOf(p)' = SpaceOf(p)
  <2>1. proctab'[p] <=> proctab[p]
    BY Zenon, <1>2, <1>9 DEF MemInv, ProcInv
  <2> QED BY Zenon, <1>2, <1>4, <2>1, SpaceIs
<1>10. SpaceOf(c)' = [v \in Vpn |-> Unmapped]
  <2>1. ~proctab'[c]
    BY <1>5, <1>3, Zenon DEF Live
  <2> QED BY Zenon, <2>1, SpaceIs
<1>11. AS!Exit
  <2> DEFINE sp == [p \in Pid |-> SpaceOf(p)]
  <2>1. sp' = [sp EXCEPT ![c] = [v \in Vpn |-> Unmapped]]
    BY Zenon, <1>3, <1>9, <1>10
  <2> QED BY Zenon, <1>1, <1>3, <1>5, <1>6, <2>1 DEF AS!Exit
<1> QED BY Zenon, <1>7, <1>8, <1>11 DEF MemInv

(* exec unmaps nothing: the program starts to load over what there was.      *)
LEMMA ExecStep ==
  ASSUME MemInv, NEW prog \in Program, Exec(prog)
  PROVE  MemInv' /\ UNCHANGED AS!vars
<1> DEFINE l == [prog |-> prog, seg |-> 1, mapped |-> FALSE]
<1>1. /\ cur # IDLE /\ ram' = walk_and_free_user(ram, satp) /\ load' = [load EXCEPT ![cur] = l]
      /\ UNCHANGED <<procs, cur, satp>>
  BY Zenon, PutIs DEF Exec, InUser
<1>2. ~Marked(ram, satp) /\ ram \in Ram /\ Owned(ram) /\ ~Panicked(ram)
  BY Zenon, <1>1, Running DEF MemInv, ProcInv
<1>3. ram' = ram
  BY Zenon, <1>1, <1>2, FreesNothing
<1>4. ram' \in Ram /\ Fine(ram, ram') /\ ~Panicked(ram') /\ Apart(ram, ram', satp)
  BY Zenon, <1>2, <1>3 DEF Fine, Mono, Clean, Apart, SameAt
<1>5. l \in LoadRec /\ l.seg = 1 /\ l.prog = prog
  BY Zenon DEF LoadRec
<1>6. ~l.mapped
  BY Zenon
<1>7. l.seg \in 1 .. Len(l.prog)
  <2>1. PICK T : prog \in Seq(T) /\ prog # <<>>
    BY Zenon, MemoryAssumption
  <2> QED BY <1>5, <2>1
<1> HIDE DEF l
<1>8. PICK c : c = cur
  BY Zenon
<1>9. /\ MemInv' /\ Live' = Live /\ c \in Live /\ c \in Pid
      /\ SpaceOf(c) = [u \in Vpn |-> PageOf(ram, satp, u)]
      /\ SpaceOf(c)' = [u \in Vpn |-> PageOf(ram', satp, u)]
      /\ \A p \in Pid : p # c => SpaceOf(p)' = SpaceOf(p)
  <2>1. l \in LoadRec \cup {NoLoad}
    BY Zenon, <1>5
  <2> QED BY <1>1, <1>4, <1>6, <1>7, <1>8, <2>1, CurStep, Zenon
<1>10. \A p \in Pid : SpaceOf(p)' = SpaceOf(p)
  BY Zenon, <1>3, <1>9
<1> QED BY Zenon, <1>1, <1>9, <1>10 DEF AS!vars

(* A switch brings the space of the thread that is resumed.                  *)
LEMMA SwitchStep ==
  ASSUME MemInv, NEW q, Switch(q)
  PROVE  MemInv' /\ AS!Switch
<1>1. /\ q \in Live \cup {IDLE} /\ cur' = q /\ satp' = (IF q = IDLE THEN satp ELSE mtag'[q])
      /\ ram' = ram /\ proctab' = proctab /\ mtag' = mtag /\ stack' = stack /\ load' = load
  BY Zenon DEF Switch, Resume, procs
<1>2. Live' = Live
  BY Zenon, <1>1 DEF Live
<1>3. ProcInv'
  <2>1. satp' \in Page /\ (cur' # IDLE => satp' = mtag[cur'])
    BY Zenon, <1>1, LiveTyped DEF MemInv, ProcInv
  <2> QED BY Zenon, <1>1, <1>2, <2>1 DEF MemInv, ProcInv
<1>4. LoadInv'
  <2>1. \A p \in Pid : (Ready(p)' <=> Ready(p)) /\ Seg(p)' = Seg(p)
    BY Zenon, <1>1 DEF Ready, Seg
  <2> QED BY Zenon, <1>1, <1>2, <2>1 DEF MemInv, LoadInv, InBounds
<1>5. \A p \in Pid : SpaceOf(p)' = SpaceOf(p)
  BY Zenon, <1>1, SpaceIs
<1>6. AS!Switch
  BY Zenon, <1>1, <1>2, <1>5 DEF AS!Switch
<1> QED BY Zenon, <1>3, <1>4, <1>6 DEF MemInv

-----------------------------------------------------------------------------
(* memory_init puts every page it manages on the free list, once.            *)
LEMMA InitRam ==
  ASSUME Init
  PROVE  /\ ram \in Ram /\ Owned(ram) /\ ~Panicked(ram)
         /\ \A q \in Page : ~Marked(ram, q)
         /\ \A q \in Page, u \in Vpn : Entry(ram, q, u) = null_pte
<1> DEFINE fl == [i \in 1 .. NPAGES |-> i]
           tb == [p \in Page |-> [i \in Index |-> null_pte]]
<1>1. /\ ram.free_list = fl /\ ram.table = tb /\ ram.data = [p \in Page |-> "fresh"]
      /\ ram.heap = [block |-> HEAP, room |-> HEAP_INIT] /\ ram.objs = <<>>
  BY Zenon DEF Init
<1>2. ~Panicked(ram)
  BY Zenon DEF Init, Panicked
<1>3. NPAGES \in Nat /\ NPAGES > 0 /\ HEAP_INIT \in Nat
  BY Zenon, Sizes
<1>4. fl \in Seq(Page) /\ Len(fl) = NPAGES
  BY <1>3 DEF Page
<1>5. null_pte \in Pte /\ 0 \in Page
  BY <1>3 DEF null_pte, Pte, Page, Flag
<1>6. tb \in [Page -> [Index -> Pte]] /\ [p \in Page |-> "fresh"] \in [Page -> Value]
  BY Zenon, <1>5 DEF Value
<1>7. [block |-> HEAP, room |-> HEAP_INIT] \in [block : Block, room : Nat] /\ <<>> \in Seq(Object)
  BY <1>3 DEF Block
<1> HIDE DEF fl, tb
<1>8. ram \in Ram
  BY <1>4, <1>6, <1>7, Zenon DEF Init, Ram, fl, tb
<1>9. \A p \in Page, i \in Index : ram.table[p][i] = null_pte
  BY <1>1 DEF tb
<1>10. ~Valid(null_pte) /\ ~Descends(null_pte)
  BY Zenon DEF Valid, Descends, null_pte
<1>11. Free(ram) = 1 .. NPAGES
  BY <1>1, <1>3, <1>4 DEF Free, fl
<1>12. Mapped(ram) = {}
  BY Zenon, <1>9, <1>10 DEF Mapped
<1>13. Heap(ram) = {HEAP}
  BY <1>1 DEF Heap, Block
<1>14. Owned(ram)
  <2>1. \A k, j \in 1 .. Len(ram.free_list) : ram.free_list[k] = ram.free_list[j] => k = j
    BY Zenon, <1>1, <1>4 DEF fl
  <2>2. /\ main_pt2 \notin Taken(ram)
        /\ Free(ram) \cap Mapped(ram) = {} /\ Free(ram) \cap Heap(ram) = {} /\ Mapped(ram) \cap Heap(ram) = {}
    BY SMTT(30), <1>3, <1>11, <1>12, <1>13 DEF Taken, main_pt2, HEAP
  <2>3. \A t, u \in Page : \A i, j \in Index :
          /\ Valid(ram.table[t][i]) /\ Valid(ram.table[u][j])
          /\ ram.table[t][i].ppn = ram.table[u][j].ppn
          => t = u /\ i = j
    BY Zenon, <1>9, <1>10
  <2>4. \A p \in Free(ram), i \in Index : ram.table[p][i] = null_pte
    BY SMTT(30), <1>3, <1>9, <1>11 DEF Page
  <2>5. ram.heap.room <= IF ram.heap.block = HEAP THEN HEAP_INIT ELSE PAGE_SIZE
    BY <1>1, <1>3
  <2>6. HeapApart(ram)
    BY <1>1 DEF HeapApart
  <2> QED BY Zenon, <2>1, <2>2, <2>3, <2>4, <2>5, <2>6 DEF Owned
<1>15. \A q \in Page : ~Marked(ram, q)
  BY Zenon, <1>9, <1>10 DEF Marked
<1>16. ASSUME NEW q \in Page, NEW u \in Vpn PROVE Entry(ram, q, u) = null_pte
  <2>1. ~HasPt0(ram, q, u)
    BY Zenon, <1>9, <1>10, VpnFacts DEF HasPt0, HasPt1
  <2> QED BY Zenon, <2>1, EntryIs
<1> QED BY Zenon, <1>2, <1>8, <1>14, <1>15, <1>16

LEMMA InitStep ==
  ASSUME Init
  PROVE  MemInv /\ AS!Init
<1>1. /\ ram \in Ram /\ Owned(ram) /\ ~Panicked(ram) /\ \A q \in Page : ~Marked(ram, q)
      /\ \A q \in Page, u \in Vpn : Entry(ram, q, u) = null_pte
  BY Zenon, InitRam
<1>2. /\ MAIN_PID \in Pid /\ main_pt2 \in Page /\ 0 \in Page /\ main_pt2 = 0
  BY Sizes DEF MAIN_PID, Pid, main_pt2, Page
<1>3. proctab \in [Pid -> BOOLEAN] /\ Live = {MAIN_PID}
  <2>1. proctab \in [Pid -> BOOLEAN]
    BY Zenon DEF Init
  <2>2. \A p \in Pid : proctab[p] <=> p = MAIN_PID
    BY Zenon DEF Init
  <2> QED BY Zenon, <1>2, <2>1, <2>2 DEF Live
<1>4. /\ mtag = [p \in Pid |-> main_pt2] /\ stack = [p \in Pid |-> 0] /\ load = [p \in Pid |-> NoLoad]
      /\ cur = MAIN_PID /\ satp = main_pt2
  BY Zenon DEF Init
<1>5. main_pt2 \notin Taken(ram)
  BY Zenon, <1>1 DEF Owned
<1>6. ProcInv
  BY Zenon, <1>1, <1>2, <1>3, <1>4, <1>5 DEF ProcInv
<1>7. LoadInv
  BY Zenon, <1>4 DEF LoadInv
<1>8. ASSUME NEW p \in Pid PROVE SpaceOf(p) = [v \in Vpn |-> Unmapped]
  <2>1. \A v \in Vpn : PageOf(ram, mtag[p], v) = Unmapped
    BY <1>1, <1>2, <1>4 DEF PageOf, null_pte
  <2> QED BY Zenon, <2>1, SpaceIs
<1>9. AS!Init
  BY Zenon, <1>3, <1>4, <1>8 DEF AS!Init
<1> QED BY Zenon, <1>6, <1>7, <1>9 DEF MemInv

(* Every step of the kernel keeps the invariant and is a step of AddrSpaces. *)
LEMMA NextStep ==
  ASSUME MemInv, [Next]_vars
  PROVE  MemInv' /\ [AS!Next]_(AS!vars)
<1>1. ASSUME NEW q, Switch(q) PROVE MemInv' /\ AS!Next
  BY Zenon, <1>1, SwitchStep DEF AS!Next
<1>2. ASSUME NEW v \in Vpn, NEW x \in Stored, Store(v, x) PROVE MemInv' /\ AS!Next
  BY Zenon, <1>2, StoreStep DEF AS!Next
<1>3. ASSUME NEW v \in Vpn, NEW sp \in StackPages, PageFault(v, sp) PROVE MemInv' /\ AS!Next
  BY Zenon, <1>3, PageFaultStep DEF AS!Next
<1>4. CASE Fork
  BY Zenon, <1>4, ForkStep DEF AS!Next
<1>5. CASE Exit
  BY Zenon, <1>5, ExitStep DEF AS!Next
<1>6. ASSUME NEW prog \in Program, Exec(prog) PROVE MemInv' /\ UNCHANGED AS!vars
  BY Zenon, <1>6, ExecStep
<1>7. ASSUME NEW s \in Segments, InBounds(s), AS!Fresh(Promised(s).pages) \/ AS!Load(Promised(s))
      PROVE  AS!Next
  BY Zenon, <1>7 DEF AS!Next
<1>8. CASE MapSegment
  <2>1. MemInv' /\ \E s \in Segments : InBounds(s) /\ AS!Fresh(Promised(s).pages)
    BY Zenon, <1>8, MapSegmentStep
  <2> QED BY Zenon, <1>7, <2>1
<1>9. CASE ReadSegment
  <2>1. MemInv' /\ \E s \in Segments : InBounds(s) /\ AS!Load(Promised(s))
    BY Zenon, <1>9, ReadSegmentStep
  <2> QED BY Zenon, <1>7, <2>1
<1>10. CASE LoadFails
  <2>1. /\ MemInv'
        /\ \/ \E s \in Segments : InBounds(s) /\ AS!Fresh(Promised(s).pages)
           \/ UNCHANGED AS!vars
    BY Zenon, <1>10, LoadFailsStep
  <2> QED BY Zenon, <1>7, <2>1
<1>11. CASE UNCHANGED vars
  <2>1. UNCHANGED <<ram, proctab, mtag, stack, load, cur, satp>>
    BY Zenon, <1>11 DEF vars, procs
  <2>2. Live' = Live /\ \A p \in Pid : SpaceOf(p)' = SpaceOf(p)
    BY Zenon, <2>1, SpaceIs DEF Live
  <2>3. MemInv'
    <3>1. ProcInv'
      BY Zenon, <2>1, <2>2 DEF MemInv, ProcInv
    <3>2. \A p \in Pid : (Ready(p)' <=> Ready(p)) /\ Seg(p)' = Seg(p)
      BY Zenon, <2>1 DEF Ready, Seg
    <3>3. LoadInv'
      BY Zenon, <2>1, <2>2, <3>2 DEF MemInv, LoadInv, InBounds
    <3> QED BY Zenon, <3>1, <3>3 DEF MemInv
  <2>4. UNCHANGED AS!vars
    BY Zenon, <2>1, <2>2 DEF AS!vars
  <2> QED BY Zenon, <2>3, <2>4
<1> QED BY <1>1, <1>2, <1>3, <1>4, <1>5, <1>6, <1>8, <1>9, <1>10, <1>11, Zenon DEF Next

(* The invariant holds for every number of processes and pages, every size   *)
(* of the tables, of the heap's block and objects, and every set of programs *)
(* the loader is given: pages have one use, the objects of the heap lie      *)
(* apart, the active space is the running process's own, and a segment       *)
(* elf_load is to fill is mapped.                                            *)
THEOREM MemInvHolds == Spec => []MemInv
<1>1. Init => MemInv
  BY Zenon, InitStep
<1>2. MemInv /\ [Next]_vars => MemInv'
  BY Zenon, NextStep
<1> QED BY <1>1, <1>2, PTL DEF Spec

(* The page tables implement separate address spaces, for every size: each   *)
(* of the kernel's steps, with all its loops over pages, is one step of      *)
(* AddrSpaces on the memory of the running process, of a child that fork     *)
(* makes, or no step at all.                                                 *)
THEOREM ImplementsAddrSpacesHolds == Spec => ImplementsAddrSpaces
<1>1. Init => MemInv /\ AS!Init
  BY Zenon, InitStep
<1>2. MemInv /\ [Next]_vars => MemInv' /\ [AS!Next]_(AS!vars)
  BY Zenon, NextStep
<1> QED BY <1>1, <1>2, PTL DEF Spec, ImplementsAddrSpaces, AS!Spec

(* What kmalloc hands out lies within the heap, apart from its other objects *)
(* and from the room it still has, for every size of pages and objects.      *)
THEOREM HeapDisjointHolds == Spec => []HeapDisjoint
<1>1. MemInv => HeapDisjoint
  BY Zenon DEF MemInv, ProcInv, Owned, HeapApart, HeapDisjoint
<1> QED BY <1>1, MemInvHolds, PTL

(* A set without two elements. *)
LEMMA AtMostOne ==
  ASSUME NEW S, \A x, y \in S : x = y
  PROVE  Cardinality(S) = IF S = {} THEN 0 ELSE 1
<1> DEFINE Less(T) == T \ {CHOOSE x : x \in T}
           Rec(h) == h = [T \in SUBSET S |-> IF T = {} THEN 0 ELSE 1 + h[Less(T)]]
           f == CHOOSE h : Rec(h)
           g == [T \in SUBSET S |-> IF T = {} THEN 0 ELSE 1]
<1>1. Cardinality(S) = f[S]
  BY Zenon DEF Cardinality
<1>2. ASSUME NEW T \in SUBSET S, T # {} PROVE Less(T) = {} /\ Less(T) \in SUBSET S
  <2>1. (CHOOSE x : x \in T) \in T
    BY Zenon, <1>2
  <2> QED BY Zenon, <2>1
<1> HIDE DEF Less
<1>3. Rec(g)
  <2>1. \A T \in SUBSET S : g[T] = IF T = {} THEN 0 ELSE 1 + g[Less(T)]
    BY <1>2
  <2> QED BY Zenon, <2>1
<1>4. Rec(f)
  BY Zenon, <1>3
<1> HIDE DEF f
<1>5. f[{}] = 0 /\ (S # {} => f[S] = 1 + f[Less(S)])
  <2>1. {} \in SUBSET S /\ S \in SUBSET S
    BY Zenon
  <2> QED BY Zenon, <1>4, <2>1
<1>6. S # {} => f[S] = 1
  BY <1>2, <1>5
<1> QED BY Zenon, <1>1, <1>5, <1>6

(* Tables are pages ram has entries for.                                     *)
LEMMA TablesArePages ==
  ASSUME ProcInv
  PROVE  Tables \subseteq Page
<1>1. Roots \subseteq Page
  BY LiveTyped DEF ProcInv, Roots
<1>2. \A t \in Page, i \in Index : ram.table[t][i].ppn \in Page
  BY DEF ProcInv, Ram, Pte
<1>3. ASSUME NEW S \in SUBSET Page PROVE Below(S) \subseteq Page
  BY Zenon, <1>2 DEF Below, Entries
<1> QED BY Zenon, <1>1, <1>3 DEF Tables

(* No page serves two purposes, for every number of processes, pages and     *)
(* entries of a table, whatever is forked, loaded, faulted in and ended: a   *)
(* page is on the free list once, or is one process's root or kernel stack,  *)
(* or is mapped at one place of one table, or is the heap's.                 *)
THEOREM PagesOwnedHolds == Spec => []PagesOwned
<1>1. ASSUME MemInv, NEW p \in Page \ {main_pt2} PROVE Uses(p, Entries(Tables)) <= 1
  <2> DEFINE A == {k \in DOMAIN ram.free_list : ram.free_list[k] = p}
             B == {x \in Entries(Tables) : ram.table[x[1]][x[2]].ppn = p}
             C == {q \in Live : mtag[q] = p}
             D == {q \in Live : stack[q] = p}
             e == IF p \in HeapPages THEN 1 ELSE 0
  <2>1. ProcInv /\ ram \in Ram /\ Owned(ram) /\ p # 0
    BY Zenon, <1>1 DEF MemInv, ProcInv, main_pt2
  <2>2. DOMAIN ram.free_list = 1 .. Len(ram.free_list) /\ DOMAIN ram.objs = 1 .. Len(ram.objs)
    BY <2>1 DEF Ram
  <2>3. (\A k, j \in A : k = j) /\ (A # {} => p \in Free(ram))
    BY Zenon, <2>1, <2>2 DEF Owned, Free
  <2>4. (\A x, y \in B : x = y) /\ (B # {} => p \in Mapped(ram))
    <3>1. ASSUME NEW x \in B
          PROVE  /\ x = <<x[1], x[2]>> /\ x[1] \in Page /\ x[2] \in Index
                 /\ Valid(ram.table[x[1]][x[2]]) /\ ram.table[x[1]][x[2]].ppn = p
      BY <2>1, TablesArePages DEF Entries
    <3>2. ASSUME NEW x \in B, NEW y \in B PROVE x = y
      <4>1. x[1] = y[1] /\ x[2] = y[2]
        BY <2>1, <3>1 DEF Owned
      <4> QED BY ZenonT(30), <3>1, <4>1
    <3>3. ASSUME NEW x \in B PROVE p \in Mapped(ram)
      BY Zenon, <3>1 DEF Mapped
    <3> QED BY Zenon, <3>2, <3>3
  <2>5. (\A q, r \in C : q = r) /\ (C # {} => p \notin Taken(ram))
    BY Zenon, <2>1 DEF ProcInv
  <2>6. (\A q, r \in D : q = r) /\ (D # {} => p \notin Taken(ram) /\ C = {})
    BY Zenon, <2>1 DEF ProcInv
  <2>7. p \in HeapPages => p \in Heap(ram)
    BY Zenon, <2>2 DEF HeapPages, Heap, Block
  <2>8. Uses(p, Entries(Tables)) = Cardinality(A) + Cardinality(B) + Cardinality(C) + Cardinality(D) + e
    BY Zenon DEF Uses
  <2> HIDE DEF A, B, C, D
  <2>9. /\ Cardinality(A) = (IF A = {} THEN 0 ELSE 1) /\ Cardinality(B) = (IF B = {} THEN 0 ELSE 1)
        /\ Cardinality(C) = (IF C = {} THEN 0 ELSE 1) /\ Cardinality(D) = (IF D = {} THEN 0 ELSE 1)
    BY Zenon, <2>3, <2>4, <2>5, <2>6, AtMostOne
  <2>10. /\ A # {} => B = {} /\ C = {} /\ D = {} /\ p \notin HeapPages
         /\ B # {} => C = {} /\ D = {} /\ p \notin HeapPages
         /\ C # {} => D = {} /\ p \notin HeapPages
         /\ D # {} => p \notin HeapPages
    BY Zenon, <2>1, <2>3, <2>4, <2>5, <2>6, <2>7 DEF Owned, Taken
  <2> QED BY <2>8, <2>9, <2>10
<1>2. MemInv => PagesOwned
  BY Zenon, <1>1 DEF PagesOwned
<1> QED BY <1>2, MemInvHolds, PTL
=============================================================================
