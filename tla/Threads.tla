------------------------------ MODULE Threads ------------------------------
(***************************************************************************)
(* The thread manager of the kernel (thread.c, thrasm.s, lock.h, intr.c)   *)
(* on its single hart: the thread table, the ready list, conditions and    *)
(* their wait lists, spawning, forking, joining and exiting, the idle      *)
(* thread, sleep locks, and the two kinds of blocking wait that use them:  *)
(* lock_acquire (woken by a thread) and operation_single_blk (woken by an  *)
(* interrupt service routine).                                             *)
(*                                                                         *)
(* Threads do not preempt one another inside the kernel: intr_handler      *)
(* yields only when the trap came from U mode. What interleaves with a     *)
(* kernel thread is an interrupt service routine, and only while sie       *)
(* (sstatus.SIE) is set. A step of the model is therefore the code between *)
(* two points at which an interrupt or a switch can be observed; hart says *)
(* where in condition_wait and suspend_self the current thread is, and     *)
(* pc[t] where thread t continues once it runs.                            *)
(*                                                                         *)
(* Definitions marked "faulty variant" are no part of Next: each is a bug  *)
(* that one of the properties below rules out.                             *)
(***************************************************************************)
EXTENDS Integers, Sequences, FiniteSets

CONSTANTS
  NTHR,      \* size of thrtab; slot 0 is main, slot NTHR-1 is idle
  NPAGES,    \* pages memory_alloc_page can hand out as thread stacks
  KTHREADS   \* TRUE: kernel threads are spawned (main_shell.c); FALSE: main.c

ASSUME ConstantsAssumption ==
  /\ NTHR \in Nat /\ NTHR >= 2
  /\ NPAGES \in Nat
  /\ KTHREADS \in BOOLEAN

MAIN_TID == 0
IDLE_TID == NTHR - 1
Tid == 0 .. NTHR - 1
NoTid == -1

(* The two sleep locks; a thread takes them in this order. *)
KFS_LOCK == 1
VIO_LOCK == 2
Lock == {KFS_LOCK, VIO_LOCK}

(* The conditions: one child_exit per thread, one per lock, and used_updated *)
(* of the block device, the one an interrupt service routine signals.        *)
ChildExit(t) == <<"child_exit", t>>
LockCond(l) == <<"lock", l>>
UsedUpdated == <<"used_updated", 0>>
NoCond == <<"none", 0>>
Cond == ({"child_exit"} \X Tid) \cup ({"lock"} \X Lock) \cup {UsedUpdated}

(* A thrtab entry that is NULL is "UNINITIALIZED". *)
ThreadState == {"UNINITIALIZED", "WAITING", "RUNNING", "READY", "EXITED"}

VARIABLES
  state,       \* thrtab[t]->state
  parent,      \* thrtab[t]->parent (NoTid for main)
  wait_cond,   \* thrtab[t]->wait_cond
  ready_list,  \* ready_list, a sequence of thread ids
  wait_list,   \* cond->wait_list of every condition
  tp,          \* CURTHR, the tp register
  hart,        \* "run", or where in condition_wait/suspend_self tp is
  next_thread, \* local of suspend_self
  sie,         \* sstatus.SIE
  saved,       \* saved_intr_state of t's suspend_self frame
  dsaved,      \* saved_intr_state of t's operation_single_blk frame
  pc,          \* where t continues
  arg,         \* the tid joined or the lock wanted by t
  user,        \* t runs a user process (enters the kernel by a trap)
  lk,          \* lk->tid of every lock
  holds,       \* the locks whose critical section t is in
  blk,         \* the disk request: "idle", "busy", or "done" (irq pending)
  stack,       \* stack_base of t is a page of memory_alloc_page
  free_pages,  \* pages left for memory_alloc_page
  halted       \* "no", "success" (halt_success), "panic" or "spurious"

schedVars == <<state, wait_cond, ready_list, wait_list>>
famVars == <<parent, user, stack, free_pages>>
intrVars == <<sie, saved, dsaved>>
lockVars == <<lk, holds>>
vars == <<state, wait_cond, ready_list, wait_list, parent, user, stack,
          free_pages, sie, saved, dsaved, lk, holds, tp, hart, next_thread,
          pc, arg, blk, halted>>

(* The threads on a list. *)
Elems(s) == {s[i] : i \in 1 .. Len(s)}

(* The threads of thrtab whose parent is t, as the joins scan for them. *)
Children(t) == {c \in 1 .. NTHR - 1 : state[c] # "UNINITIALIZED" /\ parent[c] = t}
(* Faulty variant: the scan for exited children stops one slot early. *)
ExitedChildrenButLast(t) ==
  {c \in Children(t) : state[c] = "EXITED" /\ c < NTHR - 2}
ExitedChildren(t) == {c \in Children(t) : state[c] = "EXITED"}
FreeSlots == {t \in 1 .. NTHR - 1 : state[t] = "UNINITIALIZED"}
Least(S) == CHOOSE x \in S : \A y \in S : x <= y

(* tp executes ordinary kernel code (or, with pc "user", its user program). *)
At(label) == halted = "no" /\ hart = "run" /\ pc[tp] = label
-----------------------------------------------------------------------------
(* After thread_init and intr_enable: main runs, idle is on the ready list. *)
Init ==
  /\ state = [t \in Tid |-> IF t = MAIN_TID THEN "RUNNING"
                            ELSE IF t = IDLE_TID THEN "READY"
                            ELSE "UNINITIALIZED"]
  /\ parent = [t \in Tid |-> IF t = IDLE_TID THEN MAIN_TID ELSE NoTid]
  /\ wait_cond = [t \in Tid |-> NoCond]
  /\ ready_list = <<IDLE_TID>>
  /\ wait_list = [c \in Cond |-> <<>>]
  /\ tp = MAIN_TID
  /\ hart = "run"
  /\ next_thread = MAIN_TID
  /\ sie = TRUE
  /\ saved = [t \in Tid |-> TRUE]
  /\ dsaved = [t \in Tid |-> TRUE]
  /\ pc = [t \in Tid |-> IF t = MAIN_TID THEN "kern" ELSE "fresh"]
  /\ arg = [t \in Tid |-> 0]
  /\ user = [t \in Tid |-> FALSE]
  /\ lk = [l \in Lock |-> -1]
  /\ holds = [t \in Tid |-> {}]
  /\ blk = "idle"
  /\ stack = [t \in Tid |-> FALSE]
  /\ free_pages = NPAGES
  /\ halted = "no"

Panic ==
  /\ halted' = "panic"
  /\ UNCHANGED <<schedVars, famVars, intrVars, lockVars, tp, hart,
                 next_thread, pc, arg, blk>>
-----------------------------------------------------------------------------
(* Faulty variant: the wait list is not emptied. *)
BroadcastKeepsList(c, st) ==
  /\ state' = [t \in Tid |-> IF t \in Elems(wait_list[c]) THEN "READY" ELSE st[t]]
  /\ wait_cond' = [t \in Tid |-> IF t \in Elems(wait_list[c]) THEN NoCond ELSE wait_cond[t]]
  /\ ready_list' = ready_list \o wait_list[c]
  /\ UNCHANGED wait_list

(* condition_broadcast(c) on top of the thread states st: every waiter     *)
(* becomes READY and the wait list moves, in order, behind the ready list. *)
condition_broadcast(c, st) ==
  LET woken == Elems(wait_list[c])
  IN /\ state' = [t \in Tid |-> IF t \in woken THEN "READY" ELSE st[t]]
     /\ wait_cond' = [t \in Tid |-> IF t \in woken THEN NoCond ELSE wait_cond[t]]
     /\ ready_list' = ready_list \o wait_list[c]
     /\ wait_list' = [wait_list EXCEPT ![c] = <<>>]

(* condition_wait(c) up to its intr_disable: the thread is WAITING but not *)
(* yet on the list, so an interrupt here does not find it.                 *)
condition_wait(c) ==
  /\ state' = [state EXCEPT ![tp] = "WAITING"]
  /\ wait_cond' = [wait_cond EXCEPT ![tp] = c]
  /\ hart' = "cwait"
  /\ UNCHANGED <<ready_list, wait_list>>

(* The rest of condition_wait before suspend_self: tlinsert. *)
CondInsert ==
  /\ halted = "no" /\ hart = "cwait"
  /\ wait_list' = [wait_list EXCEPT ![wait_cond[tp]] = Append(@, tp)]
  /\ hart' = "susp"
  /\ UNCHANGED <<state, wait_cond, ready_list, famVars, intrVars, lockVars, tp,
                 next_thread, pc, arg, blk, halted>>

(* Faulty variant: the suspended thread stays RUNNING. *)
SuspendSelfStaysRunning ==
  /\ halted = "no" /\ hart = "susp"
  /\ next_thread' = Head(ready_list)
  /\ state' = [state EXCEPT ![Head(ready_list)] = "RUNNING"]
  /\ ready_list' = IF state[tp] = "RUNNING" THEN Append(Tail(ready_list), tp)
                                            ELSE Tail(ready_list)
  /\ saved' = [saved EXCEPT ![tp] = sie]
  /\ sie' = TRUE
  /\ hart' = "swtch"
  /\ UNCHANGED <<wait_cond, wait_list, famVars, dsaved, lockVars, tp, pc, arg,
                 blk, halted>>

(* Faulty variant: the suspended thread goes to the front of the ready list. *)
SuspendSelfToFront ==
  /\ halted = "no" /\ hart = "susp"
  /\ next_thread' = Head(ready_list)
  /\ IF state[tp] = "RUNNING"
     THEN /\ state' = [state EXCEPT ![Head(ready_list)] = "RUNNING", ![tp] = "READY"]
          /\ ready_list' = <<tp>> \o Tail(ready_list)
     ELSE /\ state' = [state EXCEPT ![Head(ready_list)] = "RUNNING"]
          /\ ready_list' = Tail(ready_list)
  /\ saved' = [saved EXCEPT ![tp] = sie]
  /\ sie' = TRUE
  /\ hart' = "swtch"
  /\ UNCHANGED <<wait_cond, wait_list, famVars, dsaved, lockVars, tp, pc, arg,
                 blk, halted>>

(* suspend_self from its intr_disable to its intr_enable: the head of the  *)
(* ready list is taken, and the current thread, if it is still RUNNING,    *)
(* goes behind it.                                                         *)
SuspendSelf ==
  /\ halted = "no" /\ hart = "susp"
  /\ next_thread' = Head(ready_list)
  /\ LET st == [state EXCEPT ![Head(ready_list)] = "RUNNING"]
     IN IF st[tp] = "RUNNING"
        THEN /\ state' = [st EXCEPT ![tp] = "READY"]
             /\ ready_list' = Append(Tail(ready_list), tp)
        ELSE /\ state' = st
             /\ ready_list' = Tail(ready_list)
  /\ saved' = [saved EXCEPT ![tp] = sie]
  /\ sie' = TRUE
  /\ hart' = "swtch"
  /\ UNCHANGED <<wait_cond, wait_list, famVars, dsaved, lockVars, tp, pc, arg,
                 blk, halted>>

(* What _thread_swtch returns to the thread it resumes. The routine loads  *)
(* the callee-saved registers, sp and ra; a0 still holds its argument.     *)
SwtchResult == next_thread

(* Faulty variant: the interrupt state is not restored. *)
SwitchKeepsEnabled ==
  /\ halted = "no" /\ hart = "swtch"
  /\ tp' = next_thread
  /\ hart' = "run"
  /\ pc' = [pc EXCEPT ![next_thread] =
              IF @ = "forked" THEN "user"
              ELSE IF @ \in {"fresh", "fork", "yield"} THEN "kern"
              ELSE @]
  /\ saved' = [saved EXCEPT ![next_thread] = TRUE]
  /\ UNCHANGED <<schedVars, famVars, sie, dsaved, lockVars, next_thread, arg,
                 blk, halted>>

(* _thread_swtch and what the resumed thread does first. A thread that has *)
(* run before is inside suspend_self: it frees the stack of an EXITED      *)
(* predecessor and restores its interrupt state. A new thread runs the     *)
(* glue of _thread_setup instead: a spawned one starts in the kernel, a    *)
(* forked one goes through _thread_finish_fork to U mode. (Locals of a     *)
(* frame that has returned are reset, here and below: they are dead.)      *)
Switch ==
  /\ halted = "no" /\ hart = "swtch"
  /\ tp' = next_thread
  /\ hart' = "run"
  /\ LET new == pc[next_thread] \in {"fresh", "forked"}
         reclaim == ~new /\ state[SwtchResult] = "EXITED"
     IN /\ sie' = (new \/ saved[next_thread])
        /\ free_pages' = IF reclaim THEN free_pages + 1 ELSE free_pages
        /\ stack' = IF reclaim THEN [stack EXCEPT ![SwtchResult] = FALSE] ELSE stack
  /\ pc' = [pc EXCEPT ![next_thread] =
              IF @ = "forked" THEN "user"
              ELSE IF @ \in {"fresh", "fork", "yield"} THEN "kern"
              ELSE @]
  /\ saved' = [saved EXCEPT ![next_thread] = TRUE]
  /\ UNCHANGED <<schedVars, parent, user, dsaved, lockVars, next_thread, arg,
                 blk, halted>>
-----------------------------------------------------------------------------
(* create_thread: the lowest free slot, a stack page, READY, on the list.  *)
(* It panics when thrtab is full, and memory_alloc_page when no page is    *)
(* left. label is where the child starts, u whether it is a user thread.   *)
CreateThread(label, u) ==
  LET child == Least(FreeSlots)
  IN /\ state' = [state EXCEPT ![child] = "READY"]
     /\ parent' = [parent EXCEPT ![child] = tp]
     /\ ready_list' = Append(ready_list, child)
     /\ wait_list' = [wait_list EXCEPT ![ChildExit(child)] = <<>>]
     /\ user' = [user EXCEPT ![child] = u]
     /\ stack' = [stack EXCEPT ![child] = TRUE]
     /\ free_pages' = free_pages - 1
     /\ pc' = [pc EXCEPT ![child] = label, ![tp] = IF u THEN "fork" ELSE @]
     /\ UNCHANGED wait_cond

(* Faulty variant: a failed page allocation is not noticed. *)
NoThreadIgnoresPages == FreeSlots = {}

NoThread == FreeSlots = {} \/ free_pages = 0

ThreadSpawn ==
  /\ KTHREADS /\ At("kern") /\ ~user[tp] /\ tp # IDLE_TID /\ holds[tp] = {}
  /\ ~NoThread
  /\ CreateThread("fresh", FALSE)
  /\ UNCHANGED <<intrVars, lockVars, tp, hart, next_thread, arg, blk, halted>>

(* thread_fork_to_user: the child is queued, then the parent yields. *)
ThreadFork ==
  /\ At("kern") /\ user[tp] /\ holds[tp] = {}
  /\ ~NoThread
  /\ CreateThread("forked", TRUE)
  /\ hart' = "susp"
  /\ UNCHANGED <<intrVars, lockVars, tp, next_thread, arg, blk, halted>>

(* panic("Too many threads"), or memory_alloc_page with an empty free list. *)
CreatePanics ==
  /\ At("kern") /\ (user[tp] \/ KTHREADS) /\ tp # IDLE_TID /\ holds[tp] = {}
  /\ NoThread
  /\ Panic

ThreadYield ==
  /\ At("kern") /\ ~user[tp] /\ tp \notin {MAIN_TID, IDLE_TID} /\ holds[tp] = {}
  /\ pc' = [pc EXCEPT ![tp] = "yield"]
  /\ hart' = "susp"
  /\ UNCHANGED <<schedVars, famVars, intrVars, lockVars, tp, next_thread, arg,
                 blk, halted>>

MainExit ==
  /\ At("kern") /\ tp = MAIN_TID /\ user[tp] /\ holds[tp] = {}
  /\ halted' = "success"
  /\ UNCHANGED <<schedVars, famVars, intrVars, lockVars, tp, hart, next_thread,
                 pc, arg, blk>>

(* Faulty variant: no broadcast to the parent. *)
ThreadExitSilent ==
  /\ At("kern") /\ tp \notin {MAIN_TID, IDLE_TID} /\ holds[tp] = {}
  /\ state' = [state EXCEPT ![tp] = "EXITED"]
  /\ pc' = [pc EXCEPT ![tp] = "exit"]
  /\ hart' = "susp"
  /\ UNCHANGED <<wait_cond, ready_list, wait_list, famVars, intrVars, lockVars, tp,
                 next_thread, arg, blk, halted>>

ThreadExit ==
  /\ At("kern") /\ tp \notin {MAIN_TID, IDLE_TID} /\ holds[tp] = {}
  /\ condition_broadcast(ChildExit(parent[tp]), [state EXCEPT ![tp] = "EXITED"])
  /\ pc' = [pc EXCEPT ![tp] = "exit"]
  /\ hart' = "susp"
  /\ UNCHANGED <<famVars, intrVars, lockVars, tp, next_thread, arg, blk, halted>>
-----------------------------------------------------------------------------
(* Faulty variant: the children keep their old parent. *)
RecycleOrphans(tid) ==
  /\ parent' = [parent EXCEPT ![tid] = NoTid]
  /\ state' = [state EXCEPT ![tid] = "UNINITIALIZED"]
  /\ stack' = [stack EXCEPT ![tid] = FALSE]
  /\ pc' = [pc EXCEPT ![tid] = "fresh", ![tp] = "kern"]
  /\ arg' = [arg EXCEPT ![tp] = 0]
  /\ UNCHANGED <<wait_cond, ready_list, wait_list, user, free_pages, hart>>

(* recycle_thread(tid): its children go to its parent, its slot is NULL.   *)
(* The struct and with it stack_base are gone.                             *)
recycle_thread(tid) ==
  /\ parent' = [c \in Tid |-> IF c = tid THEN NoTid
                              ELSE IF c \in Children(tid) THEN parent[tid]
                              ELSE parent[c]]
  /\ state' = [state EXCEPT ![tid] = "UNINITIALIZED"]
  /\ stack' = [stack EXCEPT ![tid] = FALSE]
  /\ pc' = [pc EXCEPT ![tid] = "fresh", ![tp] = "kern"]
  /\ arg' = [arg EXCEPT ![tp] = 0]
  /\ UNCHANGED <<wait_cond, ready_list, wait_list, user, free_pages, hart>>

(* The thread sleeps on its own child_exit and continues at label. *)
WaitChild(label, tid) ==
  /\ condition_wait(ChildExit(tp))
  /\ pc' = [pc EXCEPT ![tp] = label]
  /\ arg' = [arg EXCEPT ![tp] = tid]
  /\ UNCHANGED famVars

(* syswait calls the joins for a user thread, main_shell.c for main. *)
MayJoin == tp # IDLE_TID /\ (user[tp] \/ KTHREADS) /\ holds[tp] = {}

(* thread_join_any: an exited child is joined at once; otherwise the thread *)
(* waits once. No child at all is a panic.                                  *)
ThreadJoinAny ==
  /\ At("kern") /\ MayJoin
  /\ \/ /\ ExitedChildren(tp) # {}
        /\ recycle_thread(Least(ExitedChildren(tp)))
        /\ UNCHANGED halted
     \/ /\ Children(tp) = {}
        /\ halted' = "panic"
        /\ UNCHANGED <<schedVars, famVars, hart, pc, arg>>
     \/ /\ Children(tp) # {} /\ ExitedChildren(tp) = {}
        /\ WaitChild("join_any", 0)
        /\ UNCHANGED halted
  /\ UNCHANGED <<intrVars, lockVars, tp, next_thread, blk>>

(* thread_join_any after its condition_wait: the first exited child; finding *)
(* none is panic("spurious child_exit signal").                              *)
JoinAnyResume ==
  /\ At("join_any")
  /\ \/ /\ ExitedChildren(tp) # {}
        /\ recycle_thread(Least(ExitedChildren(tp)))
        /\ UNCHANGED halted
     \/ /\ ExitedChildren(tp) = {}
        /\ halted' = "spurious"
        /\ UNCHANGED <<schedVars, famVars, hart, pc, arg>>
  /\ UNCHANGED <<intrVars, lockVars, tp, next_thread, blk>>

(* One turn of the loop of thread_join(tid). *)
JoinLoop(tid) ==
  \/ /\ state[tid] = "EXITED"
     /\ recycle_thread(tid)
  \/ /\ state[tid] # "EXITED"
     /\ WaitChild("join", tid)

(* thread_join(tid) returns -1 for a tid that is not a child of the caller. *)
ThreadJoin(tid) ==
  /\ At("kern") /\ MayJoin
  /\ \/ /\ tid \notin Children(tp)
        /\ UNCHANGED <<schedVars, famVars, hart, pc, arg>>
     \/ /\ tid \in Children(tp)
        /\ JoinLoop(tid)
  /\ UNCHANGED <<intrVars, lockVars, tp, next_thread, blk, halted>>

JoinResume ==
  /\ At("join")
  /\ JoinLoop(arg[tp])
  /\ UNCHANGED <<intrVars, lockVars, tp, next_thread, blk, halted>>
-----------------------------------------------------------------------------
(* One turn of the loop of lock_acquire(l). *)
LockLoop(l) ==
  \/ /\ lk[l] = -1
     /\ lk' = [lk EXCEPT ![l] = tp]
     /\ holds' = [holds EXCEPT ![tp] = @ \cup {l}]
     /\ pc' = [pc EXCEPT ![tp] = "kern"]
     /\ arg' = [arg EXCEPT ![tp] = 0]
     /\ UNCHANGED <<schedVars, hart>>
  \/ /\ lk[l] # -1
     /\ condition_wait(LockCond(l))
     /\ pc' = [pc EXCEPT ![tp] = "lock"]
     /\ arg' = [arg EXCEPT ![tp] = l]
     /\ UNCHANGED lockVars

(* kfs.c takes kfs_lock first and vioblk.c vio_lock inside it (fs_mount    *)
(* takes only vio_lock).                                                   *)
LockAcquire(l) ==
  /\ At("kern") /\ tp # IDLE_TID
  /\ \A m \in holds[tp] : m < l
  /\ LockLoop(l)
  /\ UNCHANGED <<famVars, intrVars, tp, next_thread, blk, halted>>

(* Faulty variant: the lock is taken after the wait without a second test. *)
LockResumeNoRetest ==
  /\ At("lock")
  /\ lk' = [lk EXCEPT ![arg[tp]] = tp]
  /\ holds' = [holds EXCEPT ![tp] = @ \cup {arg[tp]}]
  /\ pc' = [pc EXCEPT ![tp] = "kern"]
  /\ arg' = [arg EXCEPT ![tp] = 0]
  /\ UNCHANGED <<schedVars, hart, famVars, intrVars, tp, next_thread, blk, halted>>

LockResume ==
  /\ At("lock")
  /\ LockLoop(arg[tp])
  /\ UNCHANGED <<famVars, intrVars, tp, next_thread, blk, halted>>

(* Faulty variant: no broadcast to the waiters. *)
LockReleaseSilent(l) ==
  /\ At("kern") /\ l \in holds[tp] /\ \A m \in holds[tp] : m <= l
  /\ lk' = [lk EXCEPT ![l] = -1]
  /\ holds' = [holds EXCEPT ![tp] = @ \ {l}]
  /\ UNCHANGED <<schedVars, famVars, intrVars, tp, hart, next_thread, pc, arg, blk,
                 halted>>

LockRelease(l) ==
  /\ At("kern") /\ l \in holds[tp] /\ \A m \in holds[tp] : m <= l
  /\ lk' = [lk EXCEPT ![l] = -1]
  /\ holds' = [holds EXCEPT ![tp] = @ \ {l}]
  /\ condition_broadcast(LockCond(l), state)
  /\ UNCHANGED <<famVars, intrVars, tp, hart, next_thread, pc, arg, blk, halted>>
-----------------------------------------------------------------------------
(* Faulty variant: interrupts stay enabled around the notification. *)
BlkOpEnabled ==
  /\ At("kern") /\ VIO_LOCK \in holds[tp]
  /\ dsaved' = [dsaved EXCEPT ![tp] = sie]
  /\ blk' = "busy"
  /\ condition_wait(UsedUpdated)
  /\ pc' = [pc EXCEPT ![tp] = "used"]
  /\ UNCHANGED <<famVars, sie, saved, lockVars, tp, next_thread, arg, halted>>

(* operation_single_blk: with interrupts disabled the device is notified   *)
(* and the thread waits for used_updated, once.                            *)
BlkOp ==
  /\ At("kern") /\ VIO_LOCK \in holds[tp]
  /\ dsaved' = [dsaved EXCEPT ![tp] = sie]
  /\ sie' = FALSE
  /\ blk' = "busy"
  /\ condition_wait(UsedUpdated)
  /\ pc' = [pc EXCEPT ![tp] = "used"]
  /\ UNCHANGED <<famVars, saved, lockVars, tp, next_thread, arg, halted>>

BlkResume ==
  /\ At("used")
  /\ sie' = dsaved[tp]
  /\ dsaved' = [dsaved EXCEPT ![tp] = TRUE]
  /\ pc' = [pc EXCEPT ![tp] = "kern"]
  /\ UNCHANGED <<schedVars, famVars, saved, lockVars, tp, hart,
                 next_thread, arg, blk, halted>>

(* The device finishes the request and raises its interrupt. *)
BlkComplete ==
  /\ halted = "no" /\ blk = "busy"
  /\ blk' = "done"
  /\ UNCHANGED <<schedVars, famVars, intrVars, lockVars, tp, hart, next_thread,
                 pc, arg, halted>>

InUserMode == hart = "run" /\ pc[tp] = "user"

(* An interrupt is taken while sie is set: vioblk_isr broadcasts, and      *)
(* intr_handler returns to the interrupted kernel code.                    *)
BlkIntr ==
  /\ halted = "no" /\ sie /\ blk = "done" /\ ~InUserMode
  /\ blk' = "idle"
  /\ condition_broadcast(UsedUpdated, state)
  /\ UNCHANGED <<famVars, intrVars, lockVars, tp, hart, next_thread, pc, arg,
                 halted>>

(* The same interrupt from U mode: intr_handler then yields. *)
BlkIntrUser ==
  /\ halted = "no" /\ blk = "done" /\ InUserMode
  /\ blk' = "idle"
  /\ condition_broadcast(UsedUpdated, state)
  /\ sie' = FALSE
  /\ pc' = [pc EXCEPT ![tp] = "yield"]
  /\ hart' = "susp"
  /\ UNCHANGED <<famVars, saved, dsaved, lockVars, tp, next_thread, arg, halted>>

(* A timer interrupt from U mode: the thread is preempted. *)
Preempt ==
  /\ halted = "no" /\ InUserMode
  /\ sie' = FALSE
  /\ pc' = [pc EXCEPT ![tp] = "yield"]
  /\ hart' = "susp"
  /\ UNCHANGED <<schedVars, famVars, saved, dsaved, lockVars, tp, next_thread,
                 arg, blk, halted>>

(* A system call enters the kernel with interrupts disabled and sret       *)
(* enables them again; a trap holds no lock when it returns.               *)
Ecall ==
  /\ At("user")
  /\ sie' = FALSE
  /\ pc' = [pc EXCEPT ![tp] = "kern"]
  /\ UNCHANGED <<schedVars, famVars, saved, dsaved, lockVars, tp, hart,
                 next_thread, arg, blk, halted>>

Sret ==
  /\ At("kern") /\ user[tp] /\ holds[tp] = {}
  /\ sie' = TRUE
  /\ pc' = [pc EXCEPT ![tp] = "user"]
  /\ UNCHANGED <<schedVars, famVars, saved, dsaved, lockVars, tp, hart,
                 next_thread, arg, blk, halted>>

(* main's process_exec: thread_jump_to_user makes main a user thread. *)
ExecInit ==
  /\ At("kern") /\ tp = MAIN_TID /\ ~user[tp] /\ holds[tp] = {}
  /\ user' = [user EXCEPT ![tp] = TRUE]
  /\ sie' = TRUE
  /\ pc' = [pc EXCEPT ![tp] = "user"]
  /\ UNCHANGED <<schedVars, parent, stack, free_pages, saved, dsaved, lockVars,
                 tp, hart, next_thread, arg, blk, halted>>
-----------------------------------------------------------------------------
(* Faulty variant: yield without looking at the ready list. *)
IdleYieldAlways ==
  /\ At("kern") /\ tp = IDLE_TID
  /\ pc' = [pc EXCEPT ![tp] = "yield"]
  /\ hart' = "susp"
  /\ UNCHANGED <<schedVars, famVars, intrVars, lockVars, tp, next_thread, arg,
                 blk, halted>>

(* idle_thread_func: yield while the ready list is not empty; once it is   *)
(* seen empty an interrupt may still come; then disable interrupts, look   *)
(* again, and wfi only if it is still empty.                               *)
IdleYield ==
  /\ At("kern") /\ tp = IDLE_TID /\ ready_list # <<>>
  /\ pc' = [pc EXCEPT ![tp] = "yield"]
  /\ hart' = "susp"
  /\ UNCHANGED <<schedVars, famVars, intrVars, lockVars, tp, next_thread, arg,
                 blk, halted>>

IdleGoto(label, enable) ==
  /\ pc' = [pc EXCEPT ![tp] = label]
  /\ sie' = enable
  /\ UNCHANGED <<schedVars, famVars, saved, dsaved, lockVars, tp, hart,
                 next_thread, arg, blk, halted>>

IdleEmpty ==
  /\ At("kern") /\ tp = IDLE_TID /\ ready_list = <<>>
  /\ IdleGoto("idle", TRUE)

(* Faulty variant: no second look at the ready list. *)
IdleCheckOnce ==
  At("idle") /\ IdleGoto("wfi", FALSE)

IdleCheck ==
  /\ At("idle")
  /\ \/ ready_list = <<>> /\ IdleGoto("wfi", FALSE)
     \/ ready_list # <<>> /\ IdleGoto("kern", TRUE)

(* wfi ends when an interrupt is pending, the timer tick at the latest. *)
IdleWake ==
  /\ At("wfi")
  /\ IdleGoto("kern", TRUE)

(* halt_success, halt_failure and panic do not return. *)
Halted == halted # "no" /\ UNCHANGED vars
-----------------------------------------------------------------------------
Next ==
  \/ CondInsert \/ SuspendSelf \/ Switch
  \/ ThreadSpawn \/ ThreadFork \/ CreatePanics \/ ThreadYield
  \/ MainExit \/ ThreadExit
  \/ ThreadJoinAny \/ JoinAnyResume
  \/ \E tid \in Tid : ThreadJoin(tid)
  \/ JoinResume
  \/ \E l \in Lock : LockAcquire(l)
  \/ LockResume
  \/ \E l \in Lock : LockRelease(l)
  \/ BlkOp \/ BlkResume \/ BlkComplete \/ BlkIntr \/ BlkIntrUser
  \/ Preempt \/ Ecall \/ Sret \/ ExecInit
  \/ IdleYield \/ IdleEmpty \/ IdleCheck \/ IdleWake
  \/ Halted

Spec == Init /\ [][Next]_vars

(* Steps the hart takes by itself once the thread is there. *)
HartStep ==
  \/ CondInsert \/ SuspendSelf \/ Switch
  \/ JoinAnyResume \/ JoinResume \/ LockResume \/ BlkResume
  \/ IdleYield \/ IdleEmpty \/ IdleCheck \/ IdleWake

BlkInterrupt == BlkIntr \/ BlkIntrUser

(* Kernel code runs on (HartStep); a system call is straight-line code that *)
(* releases its locks and returns, and so is main's boot code, which ends   *)
(* in process_exec; the timer ticks, so a thread that keeps coming back to  *)
(* U mode is preempted there; the disk answers, and a pending interrupt is  *)
(* taken when interrupts keep being enabled.                                *)
Fairness ==
  /\ WF_vars(HartStep)
  /\ SF_vars(Sret) /\ SF_vars(ExecInit) /\ SF_vars(Preempt)
  /\ \A l \in Lock : SF_vars(LockRelease(l))
  /\ WF_vars(BlkComplete) /\ SF_vars(BlkInterrupt)

FairSpec == Spec /\ Fairness
-----------------------------------------------------------------------------
PC == {"kern", "user", "fresh", "forked", "fork", "yield", "exit", "join",
       "join_any", "lock", "used", "idle", "wfi"}

(* Every variable has its type. *)
TypeOK ==
  /\ state \in [Tid -> ThreadState]
  /\ parent \in [Tid -> Tid \cup {NoTid}]
  /\ wait_cond \in [Tid -> Cond \cup {NoCond}]
  /\ ready_list \in Seq(Tid)
  /\ wait_list \in [Cond -> Seq(Tid)]
  /\ tp \in Tid /\ next_thread \in Tid
  /\ hart \in {"run", "cwait", "susp", "swtch"}
  /\ sie \in BOOLEAN /\ saved \in [Tid -> BOOLEAN] /\ dsaved \in [Tid -> BOOLEAN]
  /\ pc \in [Tid -> PC]
  /\ arg \in [Tid -> Tid \cup Lock]
  /\ user \in [Tid -> BOOLEAN]
  /\ lk \in [Lock -> Tid \cup {-1}]
  /\ holds \in [Tid -> SUBSET Lock]
  /\ blk \in {"idle", "busy", "done"}
  /\ stack \in [Tid -> BOOLEAN]
  /\ free_pages \in Nat
  /\ halted \in {"no", "success", "panic", "spurious"}

NoDup(s) == \A i, j \in 1 .. Len(s) : s[i] = s[j] => i = j

(* The intrusive lists agree with the thread states: a thread is on the     *)
(* ready list exactly when it is READY, and then once; every thread on a    *)
(* condition's wait list is WAITING for that condition, once; and a WAITING *)
(* thread is on the list of its wait_cond, except inside condition_wait     *)
(* before tlinsert. A thread on two lists would corrupt both through        *)
(* list_next.                                                               *)
ListsExact ==
  /\ NoDup(ready_list)
  /\ \A t \in Tid : state[t] = "READY" <=> t \in Elems(ready_list)
  /\ \A c \in Cond :
       /\ NoDup(wait_list[c])
       /\ \A t \in Elems(wait_list[c]) : state[t] = "WAITING" /\ wait_cond[t] = c
  /\ \A t \in Tid : state[t] = "WAITING" =>
       \/ hart = "cwait" /\ t = tp
       \/ wait_cond[t] \in Cond /\ t \in Elems(wait_list[wait_cond[t]])

(* One hart, one running thread: the RUNNING thread is the current one, or, *)
(* between suspend_self's choice and _thread_swtch, the chosen one; and none*)
(* is RUNNING while the current thread is on its way to sleep. thread_yield *)
(* and condition_wait assert the first part.                                *)
OneRunning ==
  \A t \in Tid : state[t] = "RUNNING" <=>
    \/ hart = "run" /\ t = tp
    \/ hart = "swtch" /\ t = next_thread
    \/ hart = "susp" /\ t = tp /\ pc[t] \in {"yield", "fork"}

(* suspend_self's assertions: there is always a thread to switch to, and    *)
(* the head of the ready list is READY. The comment there says why: the     *)
(* idle thread is always runnable.                                          *)
SuspendAsserts ==
  hart = "susp" => ready_list # <<>> /\ state[Head(ready_list)] = "READY"

(* thread_join_any never reaches panic("spurious child_exit signal").       *)
NoSpuriousChildExit == halted # "spurious"

(* A free slot of thrtab is nobody's parent, on no list and owns no lock:   *)
(* recycle_thread leaves no reference to the thread it frees, so a thread   *)
(* created in the slot later inherits nothing.                              *)
FreeSlotUnreferenced ==
  \A t \in Tid : state[t] = "UNINITIALIZED" =>
    /\ \A c \in Tid : parent[c] # t
    /\ t \notin Elems(ready_list)
    /\ \A c \in Cond : t \notin Elems(wait_list[c])
    /\ wait_list[ChildExit(t)] = <<>>
    /\ \A l \in Lock : lk[l] # t

(* lock_acquire excludes: at most one thread is between acquire and release *)
(* of a lock, and lk->tid names it (lock_release asserts this).             *)
MutualExclusion ==
  \A l \in Lock, t \in Tid : l \in holds[t] => lk[l] = t

(* No wake-up of a lock is lost: while a thread sleeps on the lock, somebody*)
(* holds it and will broadcast, although lock_acquire restores interrupts   *)
(* between its test and condition_wait.                                     *)
NoLostUnlock ==
  \A l \in Lock :
    Elems(wait_list[LockCond(l)]) # {} => \E t \in Tid : l \in holds[t]

(* No exit of a child is lost: while a thread sleeps in thread_join the     *)
(* child it joins has not exited and is still its child, and while it       *)
(* sleeps in thread_join_any no child of it has exited.                     *)
NoLostExit ==
  \A t \in Tid : t \in Elems(wait_list[ChildExit(t)]) =>
    /\ pc[t] = "join" => arg[t] \in Children(t) \ ExitedChildren(t)
    /\ pc[t] = "join_any" => ExitedChildren(t) = {}

(* No completion is lost: while a thread sleeps in operation_single_blk the *)
(* request is in flight or its interrupt is pending; and when it resumes,   *)
(* after its single condition_wait, the request is complete.                *)
NoLostCompletion ==
  /\ \A t \in Tid : state[t] = "WAITING" /\ pc[t] = "used" => blk # "idle"
  /\ \A t \in Tid : state[t] \in {"READY", "RUNNING"} /\ pc[t] = "used" => blk = "idle"

(* A forked child starts from its parent's trap frame, which lives on the   *)
(* parent's kernel stack: until the child has run _thread_finish_fork the   *)
(* parent is still inside the thread_yield of thread_fork_to_user.          *)
ForkFrameIntact ==
  \A t \in Tid : state[t] # "UNINITIALIZED" /\ pc[t] = "forked" =>
    pc[parent[t]] = "fork"

(* thread.h on condition_wait: it "will restore interrupt enable/disable    *)
(* state to its value when called". In kernel code interrupts are enabled   *)
(* exactly for threads that did not enter by a trap, after every switch.    *)
InterruptsRestored ==
  hart = "run" /\ pc[tp] = "kern" => (sie <=> ~user[tp])

(* The idle thread never sleeps in wfi while a thread is ready (the race    *)
(* its comment describes).                                                  *)
NoSleepWhileReady ==
  hart = "run" /\ pc[tp] = "wfi" => ready_list = <<>>

(* The page of every stack is either free or the stack of a thread that is  *)
(* still in thrtab: an exited thread's page goes back when the next thread  *)
(* resumes, which is what suspend_self does with the thread that, as        *)
(* thrasm.s says, _thread_swtch returns: the previously-scheduled one.      *)
StacksAccounted ==
  free_pages + Cardinality({t \in Tid : stack[t]}) = NPAGES

(* Every ready thread eventually runs (round robin, and the timer preempts  *)
(* user code).                                                              *)
ReadyRuns ==
  \A t \in Tid : state[t] = "READY" ~> (state[t] = "RUNNING" \/ halted # "no")

(* A thread waiting for the disk eventually continues.                      *)
DiskWaitReturns ==
  \A t \in Tid : pc[t] = "used" ~> (pc[t] = "kern" \/ halted # "no")

(* A thread in thread_join whose child has exited eventually returns.       *)
JoinReturns ==
  \A t \in Tid :
    pc[t] = "join" /\ state[arg[t]] = "EXITED" ~> (pc[t] = "kern" \/ halted # "no")
=============================================================================
