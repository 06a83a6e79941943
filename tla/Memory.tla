------------------------------ MODULE Memory --------------------------------
(***************************************************************************)
(* Virtual memory: the page allocator and the page tables (memory.c), the  *)
(* kernel heap that feeds on the same pages (ezheap.c), the loading of     *)
(* programs (elf.c, process_exec), page faults (excp.c), and the switch of *)
(* the active space with the thread (thread.c).                            *)
(*                                                                         *)
(* ram is what the kernel works on. A page that serves as a table has      *)
(* entries, one that holds user data a value. The handlers run one at a    *)
(* time; elf_load waits for the disk inside each ioread, and there other   *)
(* processes run. A handler that panics (no free page, a fault outside     *)
(* user space) stops the machine: its step is not taken.                   *)
(*                                                                         *)
(* Only the entries for user space are kept: the others are the same in    *)
(* every root. No page is ever freed: walk_and_free_user finds none, and   *)
(* the stacks of ended threads are not returned (StacksAccounted in        *)
(* Threads).                                                               *)
(*                                                                         *)
(* Definitions marked "faulty variant" are no part of Next: each is a bug  *)
(* that one of the properties below rules out.                             *)
(***************************************************************************)
EXTENDS Integers, Sequences, FiniteSets

CONSTANTS
  NPROC,
  NPAGES,               \* pages on the free list after memory_init
  PTE_PER_LEVEL,
  NVPN,                 \* pages from USER_START_VMA to USER_END_VMA
  PAGE_SIZE, HEAP_INIT, \* in units of the heap, 16 bytes
  PROC_SIZE, THR_SIZE,  \* struct process, struct thread, rounded up
  Program,              \* sequences of segments [lo, memsz, filesz, flags, value]
  MAXEXEC,              \* bound: programs loaded
  Stored,               \* values user programs store
  StackPages            \* pages a user stack pointer may be in

ASSUME MemoryAssumption ==
  /\ {NPROC, NPAGES, PTE_PER_LEVEL, NVPN, PAGE_SIZE, HEAP_INIT} \subseteq Nat \ {0}
  /\ {PROC_SIZE, THR_SIZE} \subseteq 1 .. PAGE_SIZE
  /\ NVPN <= PTE_PER_LEVEL * PTE_PER_LEVEL
  /\ StackPages \subseteq 0 .. NVPN - 1 /\ MAXEXEC \in Nat
  /\ \A prog \in Program :
       prog \in Seq([lo : Int, memsz : Nat, filesz : Nat, flags : SUBSET {"R", "W", "X"},
                    value : {prog[k].value : k \in DOMAIN prog}]) \ {<<>>}
  \* ELF asks for this; what a file that breaks it does is not modelled
  /\ \A prog \in Program : \A k \in DOMAIN prog : prog[k].filesz <= prog[k].memsz

Pid == 0 .. NPROC - 1
MAIN_PID == 0
IDLE == NPROC                    \* cur while the idle thread runs: it has no process
Vpn == 0 .. NVPN - 1
main_pt2 == 0                    \* the root table of the boot image
Page == 0 .. NPAGES
HEAP == NPAGES + 1               \* the heap's block after boot
Index == 0 .. PTE_PER_LEVEL - 1

VPN2(v) == v \div (PTE_PER_LEVEL * PTE_PER_LEVEL)
VPN1(v) == (v \div PTE_PER_LEVEL) % PTE_PER_LEVEL
VPN0(v) == v % PTE_PER_LEVEL

null_pte == [ppn |-> 0, flags |-> {}]
NoLoad == [prog |-> <<>>, seg |-> 0, mapped |-> FALSE]

VARIABLES
  ram,            \* free_list, table, data, heap, objs, panic
  proctab,        \* [Pid -> BOOLEAN], not NULL
  mtag,           \* [Pid -> root page]
  stack,          \* [Pid -> page of its thread's stack; 0: not from the allocator]
  load,           \* [Pid -> progress of elf_load]
  cur, satp,      \* the process that runs, the root of the active space
  execs           \* calls of process_exec, for the bound

procs == <<proctab, mtag, stack>>
vars == <<ram, procs, load, cur, satp, execs>>

(* memory_init, heap_init, procmgr_init *)
Init ==
  /\ ram = [free_list |-> [i \in 1 .. NPAGES |-> i],
            table |-> [p \in Page |-> [i \in Index |-> null_pte]],
            data |-> [p \in Page |-> "fresh"],
            heap |-> [block |-> HEAP, room |-> HEAP_INIT],
            objs |-> <<>>, panic |-> FALSE]
  /\ proctab = [p \in Pid |-> p = MAIN_PID]
  /\ mtag = [p \in Pid |-> main_pt2]
  /\ stack = [p \in Pid |-> 0]
  /\ load = [p \in Pid |-> NoLoad]
  /\ cur = MAIN_PID /\ satp = main_pt2 /\ execs = 0
-----------------------------------------------------------------------------
(* Each of these takes a state m of ram and gives the one it leaves.         *)

(* memory_alloc_page: the head of the list; the caller gets Popped(m).       *)
Popped(m) == IF m.free_list = <<>> THEN 0 ELSE Head(m.free_list)
memory_alloc_page(m) ==
  IF m.free_list = <<>> THEN [m EXCEPT !.panic = TRUE]
  ELSE [m EXCEPT !.free_list = Tail(@)]

memory_free_page(m, p) == [m EXCEPT !.free_list = <<p>> \o @]

(* kmalloc: from the end of the heap's block, or of a new page that becomes  *)
(* the block if more of it is left; else the new page is for this one        *)
(* object.                                                                   *)
(* Faulty variant: heap_end is returned before it is moved. *)
HeapEndEarly(m, size) == m.heap.room
HeapEnd(m, size) == m.heap.room - size
NewBlock(m, size) == m.heap.room < PAGE_SIZE - size
kmalloc(m, size) ==
  LET obj(b, off) == [block |-> b, off |-> off, size |-> size]
      n == memory_alloc_page(m)
      p == Popped(m)
  IN IF size <= m.heap.room
     THEN [m EXCEPT !.heap.room = @ - size,
                    !.objs = Append(@, obj(m.heap.block, HeapEnd(m, size)))]
     ELSE IF NewBlock(m, size)
     THEN [n EXCEPT !.heap = [block |-> p, room |-> PAGE_SIZE - size],
                    !.objs = Append(@, obj(p, PAGE_SIZE - size))]
     ELSE [n EXCEPT !.objs = Append(@, obj(p, 0))]

Valid(e) == "V" \in e.flags

(* walk_pt without create: the entry of the page, null_pte if a table is     *)
(* missing.                                                                  *)
Entry(m, root, v) ==
  LET e2 == m.table[root][VPN2(v)]
      e1 == m.table[e2.ppn][VPN1(v)]
  IN IF Valid(e2) /\ Valid(e1) THEN m.table[e1.ppn][VPN0(v)] ELSE null_pte

SetEntry(m, t, i, e) == [m EXCEPT !.table[t][i] = e]

(* A new page is put into an entry. *)
EnterPage(m, t, i, flags) ==
  SetEntry(memory_alloc_page(m), t, i, [ppn |-> Popped(m), flags |-> flags])

(* One level of walk_pt with create, and both. New tables are not cleared.   *)
Descend(m, t, i) ==
  IF Valid(m.table[t][i]) THEN [m |-> m, pt |-> m.table[t][i].ppn]
  ELSE [m |-> EnterPage(m, t, i, {"V"}), pt |-> Popped(m)]
walk_pt(m, root, v) ==
  LET d == Descend(m, root, VPN2(v)) IN Descend(d.m, d.pt, VPN1(v))

(* memory_alloc_and_map_page: a page that was mapped there is forgotten.     *)
memory_alloc_and_map_page(m, root, v, flags) ==
  LET w == walk_pt(m, root, v)
      old == w.m.table[w.pt][VPN0(v)].flags
  IN EnterPage(w.m, w.pt, VPN0(v), old \cup {"V"} \cup flags)

(* The loops over pages: after[k] is what k rounds leave.                    *)
memory_alloc_and_map_range(m, root, lo, n, flags) ==
  LET after[k \in 0 .. n] ==
        IF k = 0 THEN m ELSE memory_alloc_and_map_page(after[k - 1], root, lo + k - 1, flags)
  IN after[n]

memory_set_page_flags(m, root, v, flags) ==
  LET pt0 == walk_pt(m, root, v).pt
  IN SetEntry(m, pt0, VPN0(v), [ppn |-> m.table[pt0][VPN0(v)].ppn, flags |-> flags \cup {"V"}])
memory_set_range_flags(m, root, lo, n, flags) ==
  LET after[k \in 0 .. n] ==
        IF k = 0 THEN m ELSE memory_set_page_flags(after[k - 1], root, lo + k - 1, flags)
  IN after[n]

(* walk_and_free_user: only entries with PTE_U are looked at, and walk_pt    *)
(* gives entries that lead to a table no PTE_U. Entries are not cleared.     *)
(* Faulty variant: every valid entry is freed. *)
DescendsAll(e) == Valid(e)
Descends(e) == "U" \in e.flags
Recurses(e) == Valid(e) /\ e.flags \cap {"R", "W", "X"} = {}
FreeEntry(m, e, sub) ==
  IF Descends(e) THEN memory_free_page(IF Recurses(e) THEN sub ELSE m, e.ppn) ELSE m

(* The recursion, level by level; sub is what the call one level down leaves, *)
(* and a page of the last level has no table.                                *)
FreeUserPages(m, t) ==
  LET after[k \in 0 .. PTE_PER_LEVEL] ==
        IF k = 0 THEN m ELSE FreeEntry(after[k - 1], after[k - 1].table[t][k - 1], after[k - 1])
  IN after[PTE_PER_LEVEL]
FreeUserTables(m, t) ==
  LET after[k \in 0 .. PTE_PER_LEVEL] ==
        IF k = 0 THEN m
        ELSE LET e == after[k - 1].table[t][k - 1]
             IN FreeEntry(after[k - 1], e, FreeUserPages(after[k - 1], e.ppn))
  IN after[PTE_PER_LEVEL]
walk_and_free_user(m, t) ==
  LET after[k \in 0 .. PTE_PER_LEVEL] ==
        IF k = 0 THEN m
        ELSE LET e == after[k - 1].table[t][k - 1]
             IN FreeEntry(after[k - 1], e, FreeUserTables(after[k - 1], e.ppn))
  IN after[PTE_PER_LEVEL]

(* memory_space_clone: a new root and a copy of every mapped user page.      *)
Copied(m, e, p) == [m EXCEPT !.data[p] = m.data[e.ppn]]
ClonePage(m, root, new, v) ==
  LET e == Entry(m, root, v)
      w == walk_pt(Copied(memory_alloc_page(m), e, Popped(m)), new, v)
  IN IF ~(Valid(e) /\ "U" \in e.flags) THEN m
     ELSE SetEntry(w.m, w.pt, VPN0(v), [ppn |-> Popped(m), flags |-> e.flags])
memory_space_clone(m, root) ==
  LET after[k \in 0 .. NVPN] ==
        IF k = 0 THEN memory_alloc_page(m) ELSE ClonePage(after[k - 1], root, Popped(m), k - 1)
  IN after[NVPN]
-----------------------------------------------------------------------------
Put(m) == ~m.panic /\ ram' = m

(* suspend_self: the thread resumed brings its memory space, the idle thread *)
(* keeps the active one, here was.                                           *)
(* Faulty variant: the active space stays. *)
ResumeStale(q, was) == cur' = q /\ satp' = was
Resume(q, was) ==
  /\ cur' = q
  /\ satp' = IF q = IDLE THEN was ELSE mtag'[q]

Live == {p \in Pid : proctab[p]}

(* The running process is in user mode. *)
InUser == cur # IDLE /\ load[cur] = NoLoad

Switch(q) ==
  /\ q # cur /\ q \in Live \cup {IDLE}
  /\ UNCHANGED <<ram, procs, load, execs>>
  /\ Resume(q, satp)

(* A load or a store of the user program. The hardware walks the tables. *)
Store(v, x) ==
  LET e == Entry(ram, satp, v)
  IN /\ InUser /\ {"V", "U", "W"} \subseteq e.flags
     /\ ram' = [ram EXCEPT !.data[e.ppn] = x]
     /\ UNCHANGED <<procs, load, cur, satp, execs>>

memory_handle_page_fault(m, root, v) ==
  memory_alloc_and_map_page(m, root, v, {"R", "W", "U"})

(* umode_excp_handler: a load or store faults, and the page of the stack     *)
(* pointer is mapped, whatever the address was.                              *)
PageFault(v, sp) ==
  /\ InUser /\ ~({"V", "U", "W"} \subseteq Entry(ram, satp, v).flags)
  /\ Put(memory_handle_page_fault(ram, satp, sp))
  /\ UNCHANGED <<procs, load, cur, satp, execs>>

(* process_fork and thread_fork_to_user, which allocates the thread and its  *)
(* stack, and yields.                                                        *)
Fork ==
  LET free == {p \in Pid : ~proctab[p]}
      c == CHOOSE p \in free : \A q \in free : p <= q
      m1 == kmalloc(ram, PROC_SIZE)
      m2 == kmalloc(memory_space_clone(m1, satp), THR_SIZE)
  IN /\ InUser /\ free # {}
     /\ Put(memory_alloc_page(m2))
     /\ proctab' = [proctab EXCEPT ![c] = TRUE]
     /\ mtag' = [mtag EXCEPT ![c] = Popped(m1)]
     /\ stack' = [stack EXCEPT ![c] = Popped(m2)]
     /\ \E q \in Live' : Resume(q, satp)
     /\ UNCHANGED <<load, execs>>

(* process_exit: memory_unmap_and_free_user, memory_space_reclaim (the same  *)
(* again, and the switch to the main space), and the thread ends. The end of *)
(* main halts.                                                               *)
memory_space_reclaim(m, root) == walk_and_free_user(m, root)
Exit ==
  /\ InUser /\ cur # MAIN_PID
  /\ Put(memory_space_reclaim(walk_and_free_user(ram, satp), satp))
  /\ proctab' = [proctab EXCEPT ![cur] = FALSE]
  /\ UNCHANGED <<mtag, stack, load, execs>>
  /\ \E q \in Live' \cup {IDLE} : Resume(q, main_pt2)
-----------------------------------------------------------------------------
(* process_exec: what was mapped stays mapped. A header elf_load cannot read *)
(* or does not accept ends it.                                               *)
Exec(prog) ==
  /\ InUser /\ execs < MAXEXEC /\ execs' = execs + 1
  /\ Put(walk_and_free_user(ram, satp))
  /\ load' = [load EXCEPT ![cur] = [prog |-> prog, seg |-> 1, mapped |-> FALSE]]
  /\ UNCHANGED <<procs, cur, satp>>

Seg(p) == load[p].prog[load[p].seg]
Progress(p, l) == load' = [load EXCEPT ![p] = l]
Loading == cur # IDLE /\ load[cur] # NoLoad

(* elf_load has the header of the segment: a segment within user space is    *)
(* mapped, for the loader to write.                                          *)
InBounds(s) == 0 <= s.lo /\ s.lo + s.memsz <= NVPN
MapSegment ==
  /\ Loading /\ ~load[cur].mapped /\ InBounds(Seg(cur))
  /\ Put(memory_alloc_and_map_range(ram, satp, Seg(cur).lo, Seg(cur).memsz, {"U", "R", "W"}))
  /\ Progress(cur, [load[cur] EXCEPT !.mapped = TRUE])
  /\ UNCHANGED <<procs, cur, satp, execs>>

(* ioread_full has read the segment: the rest is filled with zeroes and the  *)
(* permissions of the header take the place of the loader's. After the last  *)
(* segment the program starts.                                               *)
FileValue(s, v) == IF v < s.lo + s.filesz THEN s.value ELSE "zero"
FillPage(m, root, v, x) == [m EXCEPT !.data[Entry(m, root, v).ppn] = x]
Filled(m, root, s, n) ==
  LET after[k \in 0 .. n] ==
        IF k = 0 THEN m
        ELSE FillPage(after[k - 1], root, s.lo + k - 1, FileValue(s, s.lo + k - 1))
  IN after[n]
ReadSegment ==
  LET s == Seg(cur)
  IN /\ Loading /\ load[cur].mapped
     /\ Put(memory_set_range_flags(Filled(ram, satp, s, s.memsz), satp, s.lo, s.memsz,
                                   {"U"} \cup s.flags))
     /\ Progress(cur, IF load[cur].seg = Len(load[cur].prog) THEN NoLoad
                      ELSE [prog |-> load[cur].prog, seg |-> load[cur].seg + 1, mapped |-> FALSE])
     /\ UNCHANGED <<procs, cur, satp, execs>>

(* A seek or a read fails, or a segment is out of bounds: process_exec       *)
(* returns the error to the program that called it. Pages of the segment may *)
(* have been read.                                                           *)
LoadFails ==
  LET s == Seg(cur)
  IN /\ Loading
     /\ \/ ~load[cur].mapped /\ UNCHANGED ram
        \/ load[cur].mapped /\ \E k \in 0 .. s.filesz : Put(Filled(ram, satp, s, k))
     /\ Progress(cur, NoLoad)
     /\ UNCHANGED <<procs, cur, satp, execs>>

Next ==
  \/ \E q \in Pid \cup {IDLE} : Switch(q)
  \/ \E v \in Vpn : (\E x \in Stored : Store(v, x)) \/ (\E sp \in StackPages : PageFault(v, sp))
  \/ Fork \/ Exit
  \/ (\E prog \in Program : Exec(prog)) \/ MapSegment \/ ReadSegment \/ LoadFails

Spec == Init /\ [][Next]_vars
-----------------------------------------------------------------------------
Roots == {mtag[p] : p \in Live}
Entries(S) == {x \in S \X Index : Valid(ram.table[x[1]][x[2]])}
Below(S) == {ram.table[x[1]][x[2]].ppn : x \in Entries(S)}
Tables == Roots \cup Below(Roots) \cup Below(Below(Roots))
HeapPages == {ram.heap.block} \cup {ram.objs[k].block : k \in DOMAIN ram.objs}

(* The ways page p is in use, given the entries of the tables in use. *)
Uses(p, entries) ==
    Cardinality({k \in DOMAIN ram.free_list : ram.free_list[k] = p})
  + Cardinality({x \in entries : ram.table[x[1]][x[2]].ppn = p})
  + Cardinality({q \in Live : mtag[q] = p})
  + Cardinality({q \in Live : stack[q] = p})
  + (IF p \in HeapPages THEN 1 ELSE 0)

(* No page serves two purposes: whatever processes fork, load, fault and end, *)
(* a page is on the free list once, or is one process's root, table, user     *)
(* page or kernel stack, mapped at one place of one space, or heap.           *)
PagesOwned ==
  \A p \in Page \ {main_pt2} : Uses(p, Entries(Tables)) <= 1

Overlap(a, b) == a.block = b.block /\ a.off < b.off + b.size /\ b.off < a.off + a.size

(* Objects kmalloc hands out lie within the heap, apart from each other and   *)
(* from the room it still has to give, whichever block it switched to.        *)
HeapDisjoint ==
  LET room == [block |-> ram.heap.block, off |-> 0, size |-> ram.heap.room]
  IN \A k \in DOMAIN ram.objs :
       LET a == ram.objs[k]
       IN /\ a.off >= 0
          /\ a.off + a.size <= IF a.block = HEAP THEN HEAP_INIT ELSE PAGE_SIZE
          /\ ~Overlap(a, room)
          /\ \A j \in DOMAIN ram.objs : j # k => ~Overlap(a, ram.objs[j])

Unmapped == [value |-> "none", flags |-> {}]

SpaceOf(p) ==
  [v \in Vpn |->
     LET e == Entry(ram, mtag[p], v)
     IN IF proctab[p] /\ {"V", "U"} \subseteq e.flags
        THEN [value |-> ram.data[e.ppn], flags |-> e.flags \ {"V", "U"}] ELSE Unmapped]

Promised(s) ==
  LET pages == s.lo .. s.lo + s.memsz - 1
  IN [pages |-> pages, flags |-> s.flags,
      value |-> [v \in pages |-> IF v - s.lo < s.filesz THEN s.value ELSE "zero"]]

Segments == UNION {{prog[k] : k \in DOMAIN prog} : prog \in Program}

AS == INSTANCE AddrSpaces WITH
  Proc <- Pid, Nobody <- IDLE, First <- MAIN_PID,
  Segment <- {Promised(s) : s \in {t \in Segments : InBounds(t)}},
  live <- Live,
  space <- [p \in Pid |-> SpaceOf(p)]

(* The page tables implement separate address spaces: a store, a fault or the *)
(* loading of a program, in the active space the scheduler left, shows in the *)
(* memory of the running process alone; fork gives the child the pages the    *)
(* parent has, with their content and permissions, and a loaded segment is    *)
(* the file's, zero-filled, with the permissions of its header.               *)
ImplementsAddrSpaces == AS!Spec
=============================================================================
