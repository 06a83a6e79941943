---------------------------- MODULE ThreadsWaits ----------------------------
(***************************************************************************)
(* Proofs about the blocking operations of Threads, from the invariant of  *)
(* the scheduler that ThreadsProofs establishes: the joins, the wait for   *)
(* the disk, the fork, the idle thread and the interrupt state a thread    *)
(* gets back after a switch.                                               *)
(***************************************************************************)
EXTENDS ThreadsProofs, TLAPS

-----------------------------------------------------------------------------
(* What a step does to the threads, in eight shapes. Most actions are quiet, *)
(* block the current thread, or wake the threads of one condition.           *)

(* No list and no family changes: the current thread goes on or yields. *)
Quiet ==
  /\ UNCHANGED <<state, wait_cond, ready_list, wait_list, parent, tp, next_thread>>
  /\ \A t \in Tid \ {tp} :
       pc'[t] = pc[t] /\ arg'[t] = arg[t] /\ holds'[t] = holds[t]
  /\ blk' = "idle" <=> blk = "idle"
  /\ \/ UNCHANGED <<pc, arg, holds, hart, sie>>
     \/ /\ hart = "run" /\ pc[tp] \notin {"fork", "forked"}
        /\ \/ hart' = "run" /\ pc'[tp] \in {"kern", "user", "idle", "wfi"}
           \/ hart' = "susp" /\ pc'[tp] = "yield"

(* The current thread is inside condition_wait, for the reason its pc tells. *)
Waits ==
  /\ hart = "run" /\ hart' = "cwait" /\ pc[tp] \notin {"fork", "forked"}
  /\ UNCHANGED <<ready_list, wait_list, parent, holds, tp, next_thread>>
  /\ \A t \in Tid \ {tp} : /\ state'[t] = state[t] /\ wait_cond'[t] = wait_cond[t]
                           /\ pc'[t] = pc[t] /\ arg'[t] = arg[t]
  /\ state'[tp] = "WAITING"
  /\ \/ /\ pc'[tp] = "join" /\ wait_cond'[tp] = ChildExit(tp)
        /\ state[arg'[tp]] # "EXITED"
     \/ /\ pc'[tp] = "join_any" /\ wait_cond'[tp] = ChildExit(tp)
        /\ ExitedChildren(tp) = {}
     \/ /\ pc'[tp] = "lock" /\ wait_cond'[tp] = LockCond(arg'[tp])
     \/ /\ pc'[tp] = "used" /\ wait_cond'[tp] = UsedUpdated
        /\ VIO_LOCK \in holds[tp]
  /\ IF pc'[tp] = "used" THEN blk' # "idle" /\ ~sie' ELSE blk' = blk

(* A join frees the slot of an exited child of the current thread. *)
Recycles(tid) ==
  /\ state[tid] = "EXITED" /\ parent[tid] = tp /\ tid # tp
  /\ hart = "run" /\ pc[tp] \notin {"fork", "forked"}
  /\ UNCHANGED <<wait_cond, ready_list, wait_list, holds, hart, tp, next_thread, blk>>
  /\ state'[tid] = "UNINITIALIZED" /\ parent'[tid] = NoTid /\ pc'[tid] = "fresh"
  /\ pc'[tp] = "kern"
  /\ \A t \in Tid \ {tid} :
       /\ state'[t] = state[t]
       /\ parent'[t] = IF t \in Children(tid) THEN tp ELSE parent[t]
  /\ \A t \in Tid \ {tp, tid} : pc'[t] = pc[t]
  /\ \A t \in Tid \ {tp} : arg'[t] = arg[t]

(* A thread is created in a free slot; a parent that forks yields. *)
Creates(child, forks) ==
  /\ state[child] = "UNINITIALIZED" /\ child \notin {tp, MAIN_TID}
  /\ hart = "run" /\ pc[tp] = "kern"
  /\ UNCHANGED <<wait_cond, holds, arg, tp, next_thread, blk>>
  /\ state'[child] = "READY" /\ parent'[child] = tp
  /\ ready_list' = Append(ready_list, child)
  /\ IF forks THEN hart' = "susp" /\ pc'[tp] = "fork" /\ pc'[child] = "forked"
              ELSE hart' = "run" /\ pc'[tp] = "kern" /\ pc'[child] = "fresh"
  /\ \A t \in Tid \ {child} : state'[t] = state[t] /\ parent'[t] = parent[t]
  /\ \A t \in Tid \ {child, tp} : pc'[t] = pc[t]

(* condition_broadcast(c), by a service routine, lock_release or thread_exit. *)
Wakes(c, exits) ==
  /\ UNCHANGED <<parent, arg, tp, next_thread>>
  /\ blk' = IF c = UsedUpdated THEN "idle" ELSE blk
  /\ ready_list' = ready_list \o wait_list[c]
  /\ \A t \in Tid \ {tp} : pc'[t] = pc[t] /\ holds'[t] = holds[t]
  /\ \A t \in Tid :
       /\ wait_cond'[t] = IF t \in Elems(wait_list[c]) THEN NoCond ELSE wait_cond[t]
       /\ state'[t] = IF t \in Elems(wait_list[c]) THEN "READY"
                      ELSE IF exits /\ t = tp THEN "EXITED" ELSE state[t]
  /\ IF exits
     THEN /\ c = ChildExit(parent[tp]) /\ parent[tp] \in Tid /\ tp # MAIN_TID
          /\ hart = "run" /\ pc[tp] = "kern" /\ holds[tp] = {} /\ holds' = holds
          /\ pc'[tp] = "exit" /\ hart' = "susp"
     ELSE \/ c = UsedUpdated /\ sie /\ UNCHANGED <<holds, pc, hart>>
          \/ /\ c = UsedUpdated /\ hart = "run" /\ pc[tp] = "user" /\ holds' = holds
             /\ pc'[tp] = "yield" /\ hart' = "susp"
          \/ /\ \E l \in Lock : c = LockCond(l)
             /\ hart = "run" /\ pc[tp] = "kern" /\ UNCHANGED <<pc, hart>>

(* Every step has one of these shapes, or is one of the three steps inside   *)
(* condition_wait and suspend_self.                                          *)
LEMMA StepShape ==
  ASSUME SchedInv, [Next]_vars
  PROVE  \/ Quiet \/ Waits
         \/ \E tid \in Tid : Recycles(tid)
         \/ \E child \in Tid, forks \in BOOLEAN : Creates(child, forks)
         \/ \E c \in Cond, exits \in BOOLEAN : Wakes(c, exits)
         \/ CondInsert \/ SuspendSelf \/ Switch
<1> DEFINE Goal == \/ Quiet \/ Waits
                   \/ \E tid \in Tid : Recycles(tid)
                   \/ \E child \in Tid, forks \in BOOLEAN : Creates(child, forks)
                   \/ \E c \in Cond, exits \in BOOLEAN : Wakes(c, exits)
                   \/ CondInsert \/ SuspendSelf \/ Switch
<1> USE TidFacts, CondFacts
<1>0. /\ TypeOK /\ tp \in Tid /\ IdleInv
      /\ hart = "run" => state[tp] = "RUNNING"
                         /\ \A c \in Cond : tp \notin Elems(wait_list[c])
  BY IdleReady, ZenonT(60) DEF SchedInv, TypeOK
<1>a. /\ state \in [Tid -> ThreadState] /\ wait_cond \in [Tid -> Cond \cup {NoCond}]
      /\ pc \in [Tid -> PC] /\ arg \in [Tid -> Tid \cup Lock]
      /\ holds \in [Tid -> SUBSET Lock] /\ parent \in [Tid -> Tid \cup {NoTid}]
  BY Zenon, <1>0 DEF TypeOK
<1>1. CASE \/ UNCHANGED vars \/ Halted \/ CreatePanics \/ MainExit \/ BlkComplete
  <2>1. /\ UNCHANGED <<schedVars, parent, holds, tp, hart, next_thread, pc, arg, sie>>
        /\ blk' = blk \/ (blk = "busy" /\ blk' = "done")
    BY Zenon, <1>1 DEF vars, Halted, CreatePanics, Panic, MainExit, BlkComplete, schedVars,
                famVars, lockVars, intrVars
  <2> QED BY Zenon, <2>1 DEF Quiet, schedVars
<1>2. CASE ThreadYield \/ IdleYield \/ Preempt
  <2>1. /\ hart = "run" /\ hart' = "susp" /\ pc[tp] \in {"kern", "user"}
        /\ pc' = [pc EXCEPT ![tp] = "yield"]
        /\ UNCHANGED <<schedVars, parent, holds, tp, next_thread, arg, blk>>
    BY Zenon, <1>2 DEF ThreadYield, IdleYield, Preempt, At, InUserMode, famVars, lockVars
  <2> QED BY Zenon, <1>0, <1>a, <2>1 DEF Quiet, schedVars
<1>3. CASE BlkResume \/ Ecall \/ Sret \/ ExecInit
  <2>1. /\ hart = "run" /\ hart' = "run" /\ pc[tp] \in {"kern", "user", "used"}
        /\ \E l \in {"kern", "user"} : pc' = [pc EXCEPT ![tp] = l]
        /\ UNCHANGED <<schedVars, parent, holds, tp, next_thread, arg, blk>>
    BY <1>3, ZenonT(60)
       DEF BlkResume, Ecall, Sret, ExecInit, At, famVars, lockVars
  <2> QED BY Zenon, <1>0, <1>a, <2>1 DEF Quiet, schedVars
<1>4. CASE IdleEmpty \/ IdleCheck \/ IdleWake
  <2>1. /\ hart = "run" /\ hart' = "run" /\ pc[tp] \in {"kern", "idle", "wfi"}
        /\ \E l \in {"kern", "idle", "wfi"} : pc' = [pc EXCEPT ![tp] = l]
        /\ UNCHANGED <<schedVars, parent, holds, tp, next_thread, arg, blk>>
    BY <1>4, ZenonT(60)
       DEF IdleEmpty, IdleCheck, IdleWake, IdleGoto, At, famVars, lockVars
  <2> QED BY Zenon, <1>0, <1>a, <2>1 DEF Quiet, schedVars
<1>5. CASE ThreadSpawn \/ ThreadFork
  <2> DEFINE child == Least(FreeSlots)
  <2>1. /\ ~NoThread /\ hart = "run" /\ pc[tp] = "kern"
        /\ UNCHANGED <<holds, arg, tp, next_thread, blk>>
        /\ \/ CreateThread("fresh", FALSE) /\ hart' = "run"
           \/ CreateThread("forked", TRUE) /\ hart' = "susp"
    BY Zenon, <1>5 DEF ThreadSpawn, ThreadFork, At, lockVars
  <2>2. child \in Tid /\ child # MAIN_TID /\ state[child] = "UNINITIALIZED" /\ child # tp
    BY <1>0, <2>1, ChildFacts, ZenonT(60)
  <2> HIDE DEF child
  <2>3. ASSUME NEW u \in BOOLEAN, NEW l \in PC, CreateThread(l, u)
        PROVE  /\ state'[child] = "READY" /\ parent'[child] = tp
               /\ ready_list' = Append(ready_list, child) /\ wait_cond' = wait_cond
               /\ pc'[child] = l /\ pc'[tp] = IF u THEN "fork" ELSE pc[tp]
               /\ \A t \in Tid \ {child} : state'[t] = state[t] /\ parent'[t] = parent[t]
               /\ \A t \in Tid \ {child, tp} : pc'[t] = pc[t]
    <3>1. /\ state' = [state EXCEPT ![child] = "READY"]
          /\ parent' = [parent EXCEPT ![child] = tp]
          /\ ready_list' = Append(ready_list, child) /\ wait_cond' = wait_cond
          /\ pc' = [pc EXCEPT ![child] = l, ![tp] = IF u THEN "fork" ELSE @]
      BY <2>3, Zenon DEF CreateThread, child
    <3> QED BY Zenon, <1>0, <1>a, <2>2, <3>1
  <2>4. CASE CreateThread("fresh", FALSE) /\ hart' = "run"
    <3>1. FALSE \in BOOLEAN /\ "fresh" \in PC
      BY Zenon DEF PC
    <3>2. Creates(child, FALSE)
      BY Zenon, <2>1, <2>2, <2>3, <2>4, <3>1 DEF Creates
    <3> QED BY Zenon, <2>2, <3>2
  <2>5. CASE CreateThread("forked", TRUE) /\ hart' = "susp"
    <3>1. TRUE \in BOOLEAN /\ "forked" \in PC
      BY Zenon DEF PC
    <3>2. Creates(child, TRUE)
      BY Zenon, <2>1, <2>2, <2>3, <2>5, <3>1 DEF Creates
    <3> QED BY Zenon, <2>2, <3>2
  <2> QED BY Zenon, <2>1, <2>4, <2>5
<1>6. ASSUME NEW c \in Cond, condition_wait(c)
      PROVE  /\ hart' = "cwait" /\ ready_list' = ready_list /\ wait_list' = wait_list
             /\ state'[tp] = "WAITING" /\ wait_cond'[tp] = c
             /\ \A t \in Tid \ {tp} : state'[t] = state[t] /\ wait_cond'[t] = wait_cond[t]
  BY Zenon, <1>0, <1>a, <1>6 DEF condition_wait
<1>7. ASSUME hart = "run", NEW tid \in Tid, state[tid] = "EXITED", parent[tid] = tp,
             recycle_thread(tid), pc[tp] \notin {"fork", "forked"},
             UNCHANGED <<holds, tp, next_thread, blk>>
      PROVE  Recycles(tid)
  <2>1. tid # tp
    BY Zenon, <1>0, <1>7
  <2>2. /\ parent' = [c \in Tid |-> IF c = tid THEN NoTid
                                    ELSE IF c \in Children(tid) THEN parent[tid]
                                    ELSE parent[c]]
        /\ state' = [state EXCEPT ![tid] = "UNINITIALIZED"]
        /\ pc' = [pc EXCEPT ![tid] = "fresh", ![tp] = "kern"]
        /\ arg' = [arg EXCEPT ![tp] = 0]
        /\ UNCHANGED <<wait_cond, ready_list, wait_list, hart>>
    BY <1>7, Zenon DEF recycle_thread
  <2>3. /\ state'[tid] = "UNINITIALIZED" /\ pc'[tid] = "fresh" /\ pc'[tp] = "kern"
        /\ \A t \in Tid \ {tid} : state'[t] = state[t]
        /\ \A t \in Tid \ {tp, tid} : pc'[t] = pc[t]
        /\ \A t \in Tid \ {tp} : arg'[t] = arg[t]
    BY Zenon, <1>0, <1>a, <2>1, <2>2
  <2>4. /\ parent'[tid] = NoTid
        /\ \A t \in Tid \ {tid} : parent'[t] = IF t \in Children(tid) THEN tp ELSE parent[t]
    BY Zenon, <1>7, <2>2
  <2> QED BY Zenon, <1>7, <2>1, <2>2, <2>3, <2>4 DEF Recycles
<1>8. ASSUME hart = "run", pc[tp] \notin {"fork", "forked"},
             NEW tid \in Tid, parent[tid] = tp, JoinLoop(tid),
             UNCHANGED <<holds, tp, next_thread, blk>>
      PROVE  Goal
  <2>1. CASE state[tid] = "EXITED" /\ recycle_thread(tid)
    BY Zenon, <1>7, <1>8, <2>1
  <2>2. CASE state[tid] # "EXITED" /\ WaitChild("join", tid)
    <3>1. /\ condition_wait(ChildExit(tp)) /\ parent' = parent
          /\ pc'[tp] = "join" /\ arg'[tp] = tid
          /\ \A t \in Tid \ {tp} : pc'[t] = pc[t] /\ arg'[t] = arg[t]
      BY Zenon, <1>0, <1>a, <2>2 DEF WaitChild, famVars
    <3>2. ChildExit(tp) \in Cond
      BY Zenon, <1>0
    <3> QED BY Zenon, <1>0, <1>6, <1>8, <2>2, <3>1, <3>2 DEF Waits
  <2> QED BY Zenon, <1>8, <2>1, <2>2 DEF JoinLoop
<1>9. ASSUME NEW tid \in Tid, ThreadJoin(tid) PROVE Goal
  <2>1. /\ hart = "run" /\ pc[tp] = "kern"
        /\ UNCHANGED <<holds, tp, next_thread, blk, sie>>
    BY Zenon, <1>9 DEF ThreadJoin, At, lockVars, intrVars
  <2>2. CASE UNCHANGED <<schedVars, famVars, hart, pc, arg>>
    BY Zenon, <2>1, <2>2 DEF Quiet, schedVars, famVars
  <2>3. CASE tid \in Children(tp) /\ JoinLoop(tid)
    BY Zenon, <1>8, <2>1, <2>3 DEF Children
  <2> QED BY Zenon, <1>9, <2>2, <2>3 DEF ThreadJoin
<1>10. CASE JoinResume
  <2>1. /\ hart = "run" /\ pc[tp] = "join" /\ JoinLoop(arg[tp])
        /\ UNCHANGED <<holds, tp, next_thread, blk>>
    BY Zenon, <1>10 DEF JoinResume, At, lockVars
  <2>2. arg[tp] \in Tid /\ parent[arg[tp]] = tp
    BY Zenon, <1>0, <2>1 DEF SchedInv, ArgInv
  <2> QED BY Zenon, <1>8, <2>1, <2>2
<1>11. CASE ThreadJoinAny \/ JoinAnyResume
  <2>1. /\ hart = "run" /\ pc[tp] \in {"kern", "join_any"}
        /\ UNCHANGED <<holds, tp, next_thread, blk, sie>>
    BY Zenon, <1>11 DEF ThreadJoinAny, JoinAnyResume, At, lockVars, intrVars
  <2>2. CASE ExitedChildren(tp) # {} /\ recycle_thread(Least(ExitedChildren(tp)))
    BY Zenon, <1>0, <1>7, <2>1, <2>2, ExitedChildFacts
  <2>3. CASE UNCHANGED <<schedVars, famVars, hart, pc, arg>>
    BY Zenon, <2>1, <2>3 DEF Quiet, schedVars, famVars
  <2>4. CASE ExitedChildren(tp) = {} /\ WaitChild("join_any", 0)
    <3>1. /\ condition_wait(ChildExit(tp)) /\ parent' = parent
          /\ pc'[tp] = "join_any"
          /\ \A t \in Tid \ {tp} : pc'[t] = pc[t] /\ arg'[t] = arg[t]
      BY Zenon, <1>0, <1>a, <2>4 DEF WaitChild, famVars
    <3>2. ChildExit(tp) \in Cond
      BY Zenon, <1>0
    <3> QED BY Zenon, <1>0, <1>6, <2>1, <2>4, <3>1, <3>2 DEF Waits
  <2> QED BY Zenon, <1>11, <2>2, <2>3, <2>4 DEF ThreadJoinAny, JoinAnyResume
<1>12. ASSUME hart = "run", pc[tp] \in {"kern", "lock"}, NEW l \in Lock, LockLoop(l),
              UNCHANGED <<parent, tp, next_thread, blk>>
       PROVE  Goal
  <2>1. CASE lk[l] = -1
    <3>1. /\ holds' = [holds EXCEPT ![tp] = @ \cup {l}]
          /\ pc' = [pc EXCEPT ![tp] = "kern"] /\ arg' = [arg EXCEPT ![tp] = 0]
          /\ UNCHANGED <<schedVars, hart>>
      BY <1>12, <2>1, Zenon DEF LockLoop
    <3> QED BY Zenon, <1>0, <1>a, <1>12, <3>1 DEF Quiet, schedVars
  <2>2. CASE lk[l] # -1
    <3>1. /\ condition_wait(LockCond(l)) /\ pc' = [pc EXCEPT ![tp] = "lock"]
          /\ arg' = [arg EXCEPT ![tp] = l] /\ UNCHANGED lockVars
      BY <1>12, <2>2, Zenon DEF LockLoop
    <3>2. /\ pc'[tp] = "lock" /\ arg'[tp] = l /\ holds' = holds
          /\ \A t \in Tid \ {tp} : pc'[t] = pc[t] /\ arg'[t] = arg[t]
      BY Zenon, <1>0, <1>a, <3>1 DEF lockVars
    <3> QED BY Zenon, <1>0, <1>6, <1>12, <3>1, <3>2 DEF Waits
  <2> QED BY Zenon, <2>1, <2>2
<1>13. ASSUME NEW l \in Lock, LockAcquire(l) PROVE Goal
  BY Zenon, <1>12, <1>13 DEF LockAcquire, At, famVars
<1>14. CASE LockResume
  <2>1. /\ hart = "run" /\ pc[tp] = "lock" /\ LockLoop(arg[tp])
        /\ UNCHANGED <<parent, tp, next_thread, blk>>
    BY Zenon, <1>14 DEF LockResume, At, famVars
  <2>2. arg[tp] \in Lock
    BY Zenon, <1>0, <2>1 DEF SchedInv, ArgInv
  <2> QED BY Zenon, <1>12, <2>1, <2>2
<1>15. CASE BlkOp
  <2>1. /\ hart = "run" /\ pc[tp] = "kern" /\ condition_wait(UsedUpdated)
        /\ VIO_LOCK \in holds[tp] /\ pc' = [pc EXCEPT ![tp] = "used"]
        /\ blk' = "busy" /\ ~sie'
        /\ UNCHANGED <<parent, holds, tp, next_thread, arg>>
    BY Zenon, <1>15 DEF BlkOp, At, famVars, lockVars
  <2> QED BY Zenon, <1>0, <1>a, <1>6, <2>1 DEF Waits
<1>16. ASSUME NEW c \in Cond, NEW st \in [Tid -> ThreadState], condition_broadcast(c, st)
       PROVE  /\ ready_list' = ready_list \o wait_list[c]
              /\ \A t \in Tid :
                   /\ wait_cond'[t] = IF t \in Elems(wait_list[c]) THEN NoCond
                                                                  ELSE wait_cond[t]
                   /\ state'[t] = IF t \in Elems(wait_list[c]) THEN "READY" ELSE st[t]
  BY <1>16, Zenon DEF condition_broadcast
<1>17. ASSUME NEW l \in Lock, LockRelease(l) PROVE Goal
  <2>1. /\ hart = "run" /\ pc[tp] = "kern" /\ condition_broadcast(LockCond(l), state)
        /\ holds' = [holds EXCEPT ![tp] = @ \ {l}]
        /\ UNCHANGED <<parent, tp, hart, next_thread, pc, arg, blk>>
    BY Zenon, <1>17 DEF LockRelease, At, famVars
  <2>2. LockCond(l) \in Cond /\ FALSE \in BOOLEAN /\ LockCond(l) # UsedUpdated
    BY Zenon DEF LockCond, UsedUpdated
  <2>3. Wakes(LockCond(l), FALSE)
    BY <1>0, <1>a, <1>16, <2>1, <2>2 DEF Wakes
  <2> QED BY Zenon, <2>2, <2>3
<1>18. CASE BlkIntr
  <2>1. /\ condition_broadcast(UsedUpdated, state) /\ sie /\ blk' = "idle"
        /\ UNCHANGED <<parent, holds, tp, hart, next_thread, pc, arg>>
    BY Zenon, <1>18 DEF BlkIntr, famVars, lockVars
  <2>2. Wakes(UsedUpdated, FALSE)
    BY <1>0, <1>a, <1>16, <2>1 DEF Wakes
  <2> QED BY Zenon, <2>2
<1>19. CASE BlkIntrUser
  <2>1. /\ condition_broadcast(UsedUpdated, state) /\ hart = "run" /\ pc[tp] = "user"
        /\ pc' = [pc EXCEPT ![tp] = "yield"] /\ hart' = "susp" /\ blk' = "idle"
        /\ UNCHANGED <<parent, holds, tp, next_thread, arg>>
    BY Zenon, <1>19 DEF BlkIntrUser, InUserMode, famVars, lockVars
  <2>2. Wakes(UsedUpdated, FALSE)
    BY <1>0, <1>a, <1>16, <2>1 DEF Wakes
  <2> QED BY Zenon, <2>2
<1>20. CASE ThreadExit
  <2>1. /\ condition_broadcast(ChildExit(parent[tp]), [state EXCEPT ![tp] = "EXITED"])
        /\ hart = "run" /\ pc[tp] = "kern" /\ tp # MAIN_TID /\ holds[tp] = {}
        /\ pc' = [pc EXCEPT ![tp] = "exit"] /\ hart' = "susp"
        /\ UNCHANGED <<parent, holds, tp, next_thread, arg, blk>>
    BY Zenon, <1>20 DEF ThreadExit, At, famVars, lockVars
  <2>2. /\ parent[tp] \in Tid /\ ChildExit(parent[tp]) \in Cond
        /\ ChildExit(parent[tp]) # UsedUpdated
        /\ [state EXCEPT ![tp] = "EXITED"] \in [Tid -> ThreadState]
    BY Zenon, <1>0, <1>a, <2>1 DEF SchedInv, FamilyInv, ThreadState, ChildExit, UsedUpdated
  <2>3. /\ ready_list' = ready_list \o wait_list[ChildExit(parent[tp])]
        /\ \A t \in Tid :
             /\ wait_cond'[t] = IF t \in Elems(wait_list[ChildExit(parent[tp])])
                                THEN NoCond ELSE wait_cond[t]
             /\ state'[t] = IF t \in Elems(wait_list[ChildExit(parent[tp])]) THEN "READY"
                            ELSE IF t = tp THEN "EXITED" ELSE state[t]
    <3> DEFINE st == [state EXCEPT ![tp] = "EXITED"]
    <3>1. \A t \in Tid : st[t] = IF t = tp THEN "EXITED" ELSE state[t]
      BY <1>a, Zenon
    <3>2. condition_broadcast(ChildExit(parent[tp]), st) /\ st \in [Tid -> ThreadState]
      BY Zenon, <2>1, <2>2
    <3> HIDE DEF st
    <3>3. /\ ready_list' = ready_list \o wait_list[ChildExit(parent[tp])]
          /\ \A t \in Tid :
               /\ wait_cond'[t] = IF t \in Elems(wait_list[ChildExit(parent[tp])])
                                  THEN NoCond ELSE wait_cond[t]
               /\ state'[t] = IF t \in Elems(wait_list[ChildExit(parent[tp])])
                              THEN "READY" ELSE st[t]
      BY <1>16, <2>2, <3>2, Zenon
    <3> QED BY <3>1, <3>3, Zenon
  <2>4. Wakes(ChildExit(parent[tp]), TRUE)
    BY Zenon, <1>0, <1>a, <2>1, <2>2, <2>3 DEF Wakes
  <2> QED BY Zenon, <2>2, <2>4
<1> HIDE DEF Goal
<1>21. Goal
  BY Zenon, <1>1, <1>2, <1>3, <1>4, <1>5, <1>9, <1>10, <1>11, <1>13, <1>14, <1>15, <1>17,
     <1>18, <1>19, <1>20 DEF Next, Goal
<1> QED BY Zenon, <1>21 DEF Goal

-----------------------------------------------------------------------------
(* The order of the ready list, which is what keeps a forked child's trap    *)
(* frame alive.                                                              *)

(* x is on the list s ahead of y. *)
Ahead(s, x, y) ==
  \E i, j \in 1 .. Len(s) : i < j /\ s[i] = x /\ s[j] = y

(* tlinsert keeps the order of a list and puts the new thread behind every   *)
(* other.                                                                    *)
LEMMA AheadAppend ==
  ASSUME NEW s \in Seq(Tid), NEW x \in Tid, NEW a, NEW b
  PROVE  /\ Ahead(s, a, b) => Ahead(Append(s, x), a, b)
         /\ a \in Elems(s) => Ahead(Append(s, x), a, x)
<1>1. /\ Len(s) \in Nat /\ Len(Append(s, x)) = Len(s) + 1
      /\ \A i \in 1 .. Len(s) : Append(s, x)[i] = s[i] /\ i \in 1 .. Len(s) + 1
      /\ Append(s, x)[Len(s) + 1] = x /\ Len(s) + 1 \in 1 .. Len(s) + 1
  BY ListAppend, ListLen
<1>2. ASSUME Ahead(s, a, b) PROVE Ahead(Append(s, x), a, b)
  BY Zenon, <1>1, <1>2 DEF Ahead
<1>3. ASSUME a \in Elems(s) PROVE Ahead(Append(s, x), a, x)
  <2>1. PICK i \in 1 .. Len(s) : s[i] = a
    BY Zenon, <1>3 DEF Elems
  <2>2. i < Len(s) + 1
    BY <1>1
  <2> QED BY <1>1, <2>1, <2>2, ZenonT(60) DEF Ahead
<1> QED BY Zenon, <1>2, <1>3

(* The same for tlappend. *)
LEMMA AheadConcat ==
  ASSUME NEW s \in Seq(Tid), NEW u \in Seq(Tid), NEW a, NEW b, Ahead(s, a, b)
  PROVE  Ahead(s \o u, a, b)
<1>1. /\ Len(s) \in Nat /\ Len(u) \in Nat /\ Len(s \o u) = Len(s) + Len(u)
      /\ \A i \in 1 .. Len(s) + Len(u) :
           (s \o u)[i] = IF i <= Len(s) THEN s[i] ELSE u[i - Len(s)]
  BY Zenon, ListConcat, ListLen
<1>2. \A i \in 1 .. Len(s) : (s \o u)[i] = s[i] /\ i \in 1 .. Len(s) + Len(u)
  BY <1>1
<1> QED BY Zenon, <1>1, <1>2 DEF Ahead

(* Taking the head off keeps the order of the others. *)
LEMMA AheadTail ==
  ASSUME NEW s \in Seq(Tid), NEW a, NEW b, Ahead(s, a, b)
  PROVE  /\ a \in Elems(s) /\ b \in Elems(s)
         /\ b \in Elems(Tail(s))
         /\ a = Head(s) \/ Ahead(Tail(s), a, b)
<1>1. PICK i, j \in 1 .. Len(s) : i < j /\ s[i] = a /\ s[j] = b
  BY Zenon DEF Ahead
<1>2. Len(s) \in Nat /\ Len(s) # 0 /\ s # <<>>
  BY <1>1, ListLen
<1>3. /\ Len(Tail(s)) = Len(s) - 1 /\ Head(s) = s[1]
      /\ \A k \in 1 .. Len(s) - 1 : Tail(s)[k] = s[k + 1]
  BY <1>2, ListTail
<1>4. j - 1 \in 1 .. Len(s) - 1 /\ Tail(s)[j - 1] = b
  BY <1>1, <1>2, <1>3
<1>5. CASE i = 1
  BY <1>1, <1>2, <1>3, <1>4, <1>5, ZenonT(60) DEF Elems
<1>6. CASE i # 1
  <2>1. i - 1 \in 1 .. Len(s) - 1 /\ Tail(s)[i - 1] = a /\ i - 1 < j - 1
    BY <1>1, <1>2, <1>3, <1>6
  <2>2. Ahead(Tail(s), a, b)
    BY <1>3, <1>4, <2>1, ZenonT(60) DEF Ahead
  <2>3. b \in Elems(Tail(s))
    BY <1>3, <1>4, ZenonT(60) DEF Elems
  <2> QED BY <1>1, <2>2, <2>3, ZenonT(60) DEF Elems
<1> QED BY Zenon, <1>5, <1>6

-----------------------------------------------------------------------------
(* What a slot's state says about its thread, and why a thread waits.        *)

(* A free slot has no parent and no lock; an exited thread has no lock, so   *)
(* recycle_thread leaves none behind.                                        *)
SlotInv ==
  /\ parent[MAIN_TID] = NoTid
  /\ \A t \in Tid :
       /\ state[t] = "UNINITIALIZED" =>
            pc[t] = "fresh" /\ parent[t] = NoTid /\ holds[t] = {}
       /\ state[t] = "EXITED" => pc[t] = "exit" /\ holds[t] = {}

(* A thread waits in a join, in lock_acquire or for the disk, and wait_cond  *)
(* is the condition of that operation.                                       *)
WaitInv ==
  \A t \in Tid : state[t] = "WAITING" =>
    /\ pc[t] \in {"join", "join_any", "lock", "used"}
    /\ pc[t] \in {"join", "join_any"} => wait_cond[t] = ChildExit(t)
    /\ pc[t] = "lock" => wait_cond[t] = LockCond(arg[t])
    /\ pc[t] = "used" => wait_cond[t] = UsedUpdated

(* NoLostExit is not inductive: before tlinsert the thread is on no list, so *)
(* the invariant is about every WAITING thread. thread_join_any waits once,  *)
(* so a thread it wakes must find an exited child when it runs, and only     *)
(* that thread itself may have freed one.                                    *)
JoinInv ==
  \A t \in Tid :
    /\ pc[t] = "join" /\ state[t] = "WAITING" => state[arg[t]] # "EXITED"
    /\ pc[t] = "join_any" => (state[t] = "WAITING" <=> ExitedChildren(t) = {})

(* The parent of a forked child is behind it on the ready list from the      *)
(* moment the parent yields until the child is switched to.                  *)
ForkInv ==
  \A t \in Tid : state[t] # "UNINITIALIZED" /\ pc[t] = "forked" =>
    /\ parent[t] \in Tid /\ pc[parent[t]] = "fork"
    /\ \/ hart = "susp" /\ tp = parent[t] /\ t \in Elems(ready_list)
       \/ Ahead(ready_list, t, parent[t])
       \/ hart = "swtch" /\ next_thread = t

FamInv == SlotInv /\ WaitInv /\ JoinInv /\ ForkInv

(* The exited children of a thread are the same when no exited thread changes *)
(* its state or its parent.                                                   *)
LEMMA ExitedChildrenIs ==
  ASSUME NEW t \in Tid
  PROVE  /\ ExitedChildren(t) =
              {c \in 1 .. NTHR - 1 : state[c] = "EXITED" /\ parent[c] = t}
         /\ ExitedChildren(t)' =
              {c \in 1 .. NTHR - 1 : state'[c] = "EXITED" /\ parent'[c] = t}
BY Zenon DEF ExitedChildren, Children

(* A quiet step keeps the invariant. *)
LEMMA FamQuiet ==
  ASSUME SchedInv, FamInv, Quiet
  PROVE  FamInv'
<1> USE TidFacts
<1>1. /\ UNCHANGED <<state, wait_cond, ready_list, wait_list, parent, tp, next_thread>>
      /\ tp \in Tid /\ (hart = "run" => state[tp] = "RUNNING")
  BY IdleReady, ZenonT(60) DEF Quiet, SchedInv, TypeOK
<1>2. \A t \in Tid : \/ pc'[t] = pc[t] /\ arg'[t] = arg[t] /\ holds'[t] = holds[t]
                     \/ /\ t = tp /\ state[t] = "RUNNING"
                        /\ pc[t] \notin {"fork", "forked"}
                        /\ pc'[t] \in {"kern", "user", "idle", "wfi", "yield"}
  BY Zenon, <1>1 DEF Quiet
<1>3. SlotInv'
  BY Zenon, <1>1, <1>2 DEF FamInv, SlotInv
<1>4. WaitInv'
  BY Zenon, <1>1, <1>2 DEF FamInv, WaitInv
<1>5. JoinInv'
  <2>1. \A t \in Tid : ExitedChildren(t)' = ExitedChildren(t)
    BY Zenon, <1>1, ExitedChildrenIs
  <2>2. ASSUME NEW t \in Tid, pc'[t] = "join", state'[t] = "WAITING"
        PROVE  state'[arg'[t]] # "EXITED"
    BY Zenon, <1>1, <1>2, <2>2 DEF FamInv, JoinInv
  <2>3. ASSUME NEW t \in Tid, pc'[t] = "join_any"
        PROVE  state'[t] = "WAITING" <=> ExitedChildren(t)' = {}
    BY Zenon, <1>1, <1>2, <2>1, <2>3 DEF FamInv, JoinInv
  <2> QED BY Zenon, <2>2, <2>3 DEF JoinInv
<1>6. ForkInv'
  <2>1. hart' = hart \/ (hart = "run")
    BY Zenon DEF Quiet
  <2> QED BY ZenonT(30), <1>1, <1>2, <2>1 DEF FamInv, ForkInv
<1> QED BY Zenon, <1>3, <1>4, <1>5, <1>6 DEF FamInv

(* condition_wait keeps the invariant: each operation waits only while what  *)
(* it waits for has not happened.                                            *)
LEMMA FamWaits ==
  ASSUME SchedInv, SchedInv', FamInv, Waits
  PROVE  FamInv'
<1> USE TidFacts
<1>1. /\ UNCHANGED <<ready_list, wait_list, parent, holds, tp, next_thread>>
      /\ tp \in Tid /\ state[tp] = "RUNNING" /\ state'[tp] = "WAITING"
      /\ hart = "run" /\ hart' = "cwait" /\ pc[tp] \notin {"fork", "forked"}
  BY IdleReady, ZenonT(60) DEF Waits, SchedInv, TypeOK
<1>2. \A t \in Tid \ {tp} : /\ state'[t] = state[t] /\ wait_cond'[t] = wait_cond[t]
                            /\ pc'[t] = pc[t] /\ arg'[t] = arg[t]
  BY Zenon DEF Waits
<1>3. SlotInv'
  BY Zenon, <1>1, <1>2 DEF FamInv, SlotInv
<1>4. WaitInv'
  <2>1. /\ pc'[tp] \in {"join", "join_any", "lock", "used"}
        /\ pc'[tp] \in {"join", "join_any"} => wait_cond'[tp] = ChildExit(tp)
        /\ pc'[tp] = "lock" => wait_cond'[tp] = LockCond(arg'[tp])
        /\ pc'[tp] = "used" => wait_cond'[tp] = UsedUpdated
    BY Zenon DEF Waits
  <2> QED BY Zenon, <1>1, <1>2, <2>1 DEF FamInv, WaitInv
<1>5. JoinInv'
  <2>0. \A t \in Tid : state'[t] = "EXITED" <=> state[t] = "EXITED"
    BY Zenon, <1>1, <1>2
  <2>1. \A t \in Tid : ExitedChildren(t)' = ExitedChildren(t)
    BY <1>1, <2>0, ExitedChildrenIs
  <2>2. ASSUME NEW t \in Tid, pc'[t] = "join", state'[t] = "WAITING"
        PROVE  state'[arg'[t]] # "EXITED"
    <3>1. arg'[t] \in Tid => state[arg'[t]] # "EXITED"
      BY Zenon, <1>1, <1>2, <2>2 DEF FamInv, JoinInv, Waits
    <3>2. arg'[t] \in Tid
      BY Zenon, <2>2 DEF SchedInv, ArgInv
    <3> QED BY Zenon, <2>0, <3>1, <3>2
  <2>3. ASSUME NEW t \in Tid, pc'[t] = "join_any"
        PROVE  state'[t] = "WAITING" <=> ExitedChildren(t)' = {}
    BY Zenon, <1>1, <1>2, <2>1, <2>3 DEF FamInv, JoinInv, Waits
  <2> QED BY Zenon, <2>2, <2>3 DEF JoinInv
<1>6. ForkInv'
  <2>1. ASSUME NEW t \in Tid, state'[t] # "UNINITIALIZED", pc'[t] = "forked"
        PROVE  /\ parent[t] \in Tid /\ pc'[parent[t]] = "fork"
               /\ Ahead(ready_list, t, parent[t])
    <3>1. t # tp /\ state[t] # "UNINITIALIZED" /\ pc[t] = "forked"
      BY Zenon, <1>1, <1>2, <2>1 DEF Waits
    <3>2. /\ parent[t] \in Tid /\ pc[parent[t]] = "fork"
          /\ Ahead(ready_list, t, parent[t])
      BY Zenon, <1>1, <3>1 DEF FamInv, ForkInv
    <3> QED BY Zenon, <1>1, <1>2, <3>2
  <2> QED BY Zenon, <1>1, <2>1 DEF ForkInv
<1> QED BY Zenon, <1>3, <1>4, <1>5, <1>6 DEF FamInv

(* recycle_thread keeps the invariant: the slot is empty afterwards, and the *)
(* children it hands on go to the thread that joined, which waits no more.   *)
LEMMA FamRecycles ==
  ASSUME SchedInv, SchedInv', FamInv, NEW tid \in Tid, Recycles(tid)
  PROVE  FamInv'
<1> USE TidFacts
<1>1. /\ UNCHANGED <<wait_cond, ready_list, wait_list, holds, hart, tp, next_thread>>
      /\ tp \in Tid /\ state[tp] = "RUNNING" /\ tid # tp /\ tid # MAIN_TID
      /\ state[tid] = "EXITED" /\ parent[tid] = tp
      /\ hart = "run" /\ pc[tp] \notin {"fork", "forked"}
      /\ state'[tid] = "UNINITIALIZED" /\ parent'[tid] = NoTid /\ pc'[tid] = "fresh"
      /\ pc'[tp] = "kern"
  BY IdleReady, ZenonT(60) DEF Recycles, SchedInv, TypeOK, FamilyInv
<1>2. /\ \A t \in Tid \ {tid} :
           /\ state'[t] = state[t]
           /\ parent'[t] = IF t \in Children(tid) THEN tp ELSE parent[t]
      /\ \A t \in Tid \ {tp, tid} : pc'[t] = pc[t]
      /\ \A t \in Tid \ {tp} : arg'[t] = arg[t]
  BY Zenon DEF Recycles
<1>3. \A t \in Tid : t \in Children(tid) => t # MAIN_TID /\ state[t] # "UNINITIALIZED"
                                            /\ parent[t] = tid
  BY Zenon DEF Children
<1>4. SlotInv'
  <2>1. SlotInv
    BY Zenon DEF FamInv
  <2>2. parent'[MAIN_TID] = NoTid
    BY Zenon, <1>1, <1>2, <1>3, <2>1 DEF SlotInv
  <2>3. ASSUME NEW t \in Tid
        PROVE  /\ state'[t] = "UNINITIALIZED" =>
                    pc'[t] = "fresh" /\ parent'[t] = NoTid /\ holds'[t] = {}
               /\ state'[t] = "EXITED" => pc'[t] = "exit" /\ holds'[t] = {}
    <3>1. CASE t = tid
      BY Zenon, <1>1, <2>1, <3>1 DEF SlotInv
    <3>2. CASE t = tp
      BY Zenon, <1>1, <1>2, <3>2
    <3>3. CASE t \notin {tp, tid}
      BY ZenonT(60), <1>1, <1>2, <1>3, <2>1, <3>3 DEF SlotInv
    <3> QED BY Zenon, <3>1, <3>2, <3>3
  <2> QED BY Zenon, <2>2, <2>3 DEF SlotInv
<1>5. WaitInv'
  <2>1. ASSUME NEW t \in Tid, state'[t] = "WAITING"
        PROVE  /\ state[t] = "WAITING" /\ pc'[t] = pc[t] /\ arg'[t] = arg[t]
               /\ wait_cond'[t] = wait_cond[t]
    <3>1. t # tp /\ t # tid
      BY <1>1, <1>2, <2>1
    <3> QED BY Zenon, <1>1, <1>2, <2>1, <3>1
  <2> QED BY Zenon, <2>1 DEF FamInv, WaitInv
<1>6. JoinInv'
  <2>1. ASSUME NEW t \in Tid \ {tp, tid} PROVE ExitedChildren(t)' = ExitedChildren(t)
    <3>1. ASSUME NEW c \in 1 .. NTHR - 1
          PROVE  state'[c] = "EXITED" /\ parent'[c] = t <=>
                 state[c] = "EXITED" /\ parent[c] = t
      <4>1. CASE c = tid
        BY Zenon, <1>1, <4>1
      <4>2. CASE c # tid
        BY Zenon, <1>1, <1>2, <1>3, <4>2
      <4> QED BY Zenon, <4>1, <4>2
    <3> QED BY <3>1, ExitedChildrenIs
  <2>2. ASSUME NEW t \in Tid, pc'[t] = "join", state'[t] = "WAITING"
        PROVE  state'[arg'[t]] # "EXITED"
    <3>1. t # tp /\ t # tid /\ arg'[t] \in Tid /\ arg'[t] = arg[t]
      BY Zenon, <1>1, <1>2, <2>2 DEF SchedInv, ArgInv
    <3>2. state[arg[t]] # "EXITED"
      BY Zenon, <1>2, <2>2, <3>1 DEF FamInv, JoinInv
    <3> QED BY Zenon, <1>1, <1>2, <3>1, <3>2
  <2>3. ASSUME NEW t \in Tid, pc'[t] = "join_any"
        PROVE  state'[t] = "WAITING" <=> ExitedChildren(t)' = {}
    <3>1. t \in Tid \ {tp, tid}
      BY Zenon, <1>1, <2>3
    <3> QED BY Zenon, <1>2, <2>1, <2>3, <3>1 DEF FamInv, JoinInv
  <2> QED BY Zenon, <2>2, <2>3 DEF JoinInv
<1>7. ForkInv'
  <2>1. ASSUME NEW t \in Tid, state'[t] # "UNINITIALIZED", pc'[t] = "forked"
        PROVE  /\ parent'[t] \in Tid /\ pc'[parent'[t]] = "fork"
               /\ Ahead(ready_list, t, parent'[t])
    <3>1. t # tp /\ t # tid /\ state[t] # "UNINITIALIZED" /\ pc[t] = "forked"
      BY Zenon, <1>1, <1>2, <2>1
    <3>2. /\ parent[t] \in Tid /\ pc[parent[t]] = "fork"
          /\ Ahead(ready_list, t, parent[t])
      BY Zenon, <1>1, <3>1 DEF FamInv, ForkInv
    <3>3. parent[t] # tid /\ parent[t] # tp
      BY Zenon, <1>1, <3>2 DEF FamInv, SlotInv
    <3> QED BY Zenon, <1>2, <1>3, <3>1, <3>2, <3>3
  <2> QED BY Zenon, <1>1, <2>1 DEF ForkInv
<1> QED BY Zenon, <1>4, <1>5, <1>6, <1>7 DEF FamInv

(* create_thread keeps the invariant: nobody is the parent of a free slot or *)
(* joins it, and a forked child is queued before its parent yields.          *)
LEMMA FamCreates ==
  ASSUME SchedInv, SchedInv', FamInv, NEW child \in Tid, NEW forks \in BOOLEAN,
         Creates(child, forks)
  PROVE  FamInv'
<1> USE TidFacts
<1>1. /\ UNCHANGED <<wait_cond, holds, arg, tp, next_thread>>
      /\ state[child] = "UNINITIALIZED" /\ child # tp /\ child # MAIN_TID
      /\ tp \in Tid /\ state[tp] = "RUNNING" /\ hart = "run" /\ pc[tp] = "kern"
      /\ state'[child] = "READY" /\ parent'[child] = tp
      /\ ready_list' = Append(ready_list, child) /\ ready_list \in Seq(Tid)
      /\ \/ hart' = "susp" /\ pc'[tp] = "fork" /\ pc'[child] = "forked"
         \/ hart' = "run" /\ pc'[tp] = "kern" /\ pc'[child] = "fresh"
  BY IdleReady, ZenonT(60) DEF Creates, SchedInv, TypeOK
<1>2. /\ \A t \in Tid \ {child} : state'[t] = state[t] /\ parent'[t] = parent[t]
      /\ \A t \in Tid \ {child, tp} : pc'[t] = pc[t]
  BY Zenon DEF Creates
<1>3. SlotInv'
  <2>1. SlotInv
    BY Zenon DEF FamInv
  <2>2. parent'[MAIN_TID] = NoTid
    BY Zenon, <1>1, <1>2, <2>1 DEF SlotInv
  <2>3. ASSUME NEW t \in Tid
        PROVE  /\ state'[t] = "UNINITIALIZED" =>
                    pc'[t] = "fresh" /\ parent'[t] = NoTid /\ holds'[t] = {}
               /\ state'[t] = "EXITED" => pc'[t] = "exit" /\ holds'[t] = {}
    <3>1. CASE t = child
      BY Zenon, <1>1, <3>1
    <3>2. CASE t = tp
      BY Zenon, <1>1, <1>2, <3>2
    <3>3. CASE t \notin {tp, child}
      BY ZenonT(60), <1>1, <1>2, <2>1, <3>3 DEF SlotInv
    <3> QED BY Zenon, <3>1, <3>2, <3>3
  <2> QED BY Zenon, <2>2, <2>3 DEF SlotInv
<1>4. WaitInv'
  <2>1. ASSUME NEW t \in Tid, state'[t] = "WAITING"
        PROVE  /\ state[t] = "WAITING" /\ pc'[t] = pc[t] /\ arg'[t] = arg[t]
               /\ wait_cond'[t] = wait_cond[t]
    <3>1. t # tp /\ t # child
      BY <1>1, <1>2, <2>1
    <3> QED BY Zenon, <1>1, <1>2, <2>1, <3>1
  <2> QED BY Zenon, <2>1 DEF FamInv, WaitInv
<1>5. JoinInv'
  <2>1. ASSUME NEW t \in Tid PROVE ExitedChildren(t)' = ExitedChildren(t)
    <3>1. \A c \in 1 .. NTHR - 1 : state'[c] = "EXITED" /\ parent'[c] = t <=>
                                   state[c] = "EXITED" /\ parent[c] = t
      BY Zenon, <1>1, <1>2
    <3> QED BY Zenon, <3>1, ExitedChildrenIs
  <2>2. ASSUME NEW t \in Tid, pc'[t] = "join", state'[t] = "WAITING"
        PROVE  state'[arg'[t]] # "EXITED"
    <3>1. t # tp /\ t # child /\ arg'[t] \in Tid /\ arg'[t] = arg[t]
      BY Zenon, <1>1, <1>2, <2>2 DEF SchedInv, ArgInv
    <3>2. state[arg[t]] # "EXITED"
      BY Zenon, <1>2, <2>2, <3>1 DEF FamInv, JoinInv
    <3> QED BY Zenon, <1>1, <1>2, <3>1, <3>2
  <2>3. ASSUME NEW t \in Tid, pc'[t] = "join_any"
        PROVE  state'[t] = "WAITING" <=> ExitedChildren(t)' = {}
    <3>1. t # tp /\ t # child
      BY Zenon, <1>1, <2>3
    <3> QED BY Zenon, <1>2, <2>1, <2>3, <3>1 DEF FamInv, JoinInv
  <2> QED BY Zenon, <2>2, <2>3 DEF JoinInv
<1>6. ForkInv'
  <2>1. ASSUME NEW t \in Tid, state'[t] # "UNINITIALIZED", pc'[t] = "forked"
        PROVE  /\ parent'[t] \in Tid /\ pc'[parent'[t]] = "fork"
               /\ \/ hart' = "susp" /\ tp = parent'[t] /\ t \in Elems(ready_list')
                  \/ Ahead(ready_list', t, parent'[t])
    <3>1. CASE t = child
      <4>1. child \in Elems(ready_list')
        BY <1>1, ElemsAppend, SMT, Zenon
      <4> QED BY Zenon, <1>1, <2>1, <3>1, <4>1
    <3>2. CASE t # child
      <4>1. t # tp /\ state[t] # "UNINITIALIZED" /\ pc[t] = "forked"
        BY Zenon, <1>1, <1>2, <2>1, <3>2
      <4>2. /\ parent[t] \in Tid /\ pc[parent[t]] = "fork"
            /\ Ahead(ready_list, t, parent[t])
        BY Zenon, <1>1, <4>1 DEF FamInv, ForkInv
      <4>3. parent[t] # child /\ parent[t] # tp /\ parent'[t] = parent[t]
        BY Zenon, <1>1, <1>2, <3>2, <4>2 DEF FamInv, SlotInv
      <4>4. Ahead(ready_list', t, parent[t])
        BY Zenon, <1>1, <4>2, AheadAppend
      <4> QED BY Zenon, <1>2, <4>2, <4>3, <4>4
    <3> QED BY Zenon, <3>1, <3>2
  <2> QED BY Zenon, <1>1, <2>1 DEF ForkInv
<1> QED BY Zenon, <1>3, <1>4, <1>5, <1>6 DEF FamInv

(* condition_broadcast keeps the invariant. A thread that exits wakes its    *)
(* parent out of either join, and is the exited child thread_join_any then   *)
(* finds; the other broadcasts wake nobody out of a join.                    *)
LEMMA FamWakes ==
  ASSUME SchedInv, SchedInv', FamInv, NEW c \in Cond, NEW exits \in BOOLEAN,
         Wakes(c, exits)
  PROVE  FamInv'
<1> USE TidFacts, CondFacts
<1> DEFINE W == Elems(wait_list[c])
<1>1. /\ UNCHANGED <<parent, arg, tp, next_thread>> /\ tp \in Tid
      /\ ready_list' = ready_list \o wait_list[c]
      /\ ready_list \in Seq(Tid) /\ wait_list[c] \in Seq(Tid)
      /\ hart = "run" => state[tp] = "RUNNING" /\ tp \notin W
  BY IdleReady, ZenonT(60) DEF Wakes, SchedInv, TypeOK
<1>2. \A t \in W : t \in Tid /\ state[t] = "WAITING" /\ wait_cond[t] = c
  BY <1>1, ListFacts, ZenonT(60) DEF SchedInv, ListsExact
<1> HIDE DEF W
<1>3. \A t \in Tid :
        /\ wait_cond'[t] = IF t \in W THEN NoCond ELSE wait_cond[t]
        /\ state'[t] = IF t \in W THEN "READY"
                       ELSE IF exits /\ t = tp THEN "EXITED" ELSE state[t]
  BY Zenon DEF Wakes, W
<1>4. /\ \A t \in Tid \ {tp} : pc'[t] = pc[t] /\ holds'[t] = holds[t]
      /\ exits => /\ c = ChildExit(parent[tp]) /\ parent[tp] \in Tid /\ tp # MAIN_TID
                  /\ hart = "run" /\ pc[tp] = "kern" /\ holds[tp] = {} /\ holds' = holds
                  /\ pc'[tp] = "exit" /\ hart' = "susp"
      /\ ~exits => /\ \A t \in Tid : c # ChildExit(t)
                   /\ \/ pc' = pc /\ hart' = hart
                      \/ /\ hart = "run" /\ pc[tp] = "user"
                         /\ pc'[tp] = "yield" /\ hart' = "susp"
                   /\ holds' = holds \/ hart = "run"
  <2>1. \A t \in Tid \ {tp} : pc'[t] = pc[t] /\ holds'[t] = holds[t]
    BY Zenon DEF Wakes
  <2>2. CASE exits
    BY <2>1, <2>2, Zenon DEF Wakes
  <2>3. CASE ~exits
    BY Zenon, <2>1, <2>3 DEF Wakes
  <2> QED BY Zenon, <2>2, <2>3
<1>5. \A t \in Tid : state'[t] \in {"UNINITIALIZED", "WAITING"} =>
                       state'[t] = state[t] /\ t \notin W
  BY Zenon, <1>3
<1>6. SlotInv'
  <2>1. ASSUME NEW t \in Tid, state'[t] = "UNINITIALIZED"
        PROVE  pc'[t] = "fresh" /\ parent'[t] = NoTid /\ holds'[t] = {}
    <3>1. state[t] = "UNINITIALIZED"
      BY Zenon, <1>5, <2>1
    <3>2. pc[t] = "fresh" /\ parent[t] = NoTid /\ holds[t] = {}
      BY Zenon, <3>1 DEF FamInv, SlotInv
    <3>3. t = tp => hart # "run"
      BY Zenon, <1>1, <3>1
    <3> QED BY <1>1, <1>4, <3>2, <3>3, ZenonT(60)
  <2>2. ASSUME NEW t \in Tid, state'[t] = "EXITED"
        PROVE  pc'[t] = "exit" /\ holds'[t] = {}
    <3>1. CASE exits /\ t = tp
      BY Zenon, <1>1, <1>4, <3>1
    <3>2. CASE ~ (exits /\ t = tp)
      <4>1. state[t] = "EXITED"
        BY Zenon, <1>3, <2>2, <3>2
      <4>2. pc[t] = "exit" /\ holds[t] = {}
        BY Zenon, <4>1 DEF FamInv, SlotInv
      <4>3. t = tp => hart # "run"
        BY Zenon, <1>1, <4>1
      <4> QED BY <1>1, <1>4, <3>2, <4>2, <4>3, ZenonT(60)
    <3> QED BY Zenon, <3>1, <3>2
  <2> QED BY Zenon, <1>1, <2>1, <2>2 DEF FamInv, SlotInv
<1>7. ASSUME NEW t \in Tid, state'[t] = "WAITING"
      PROVE  state[t] = "WAITING" /\ pc'[t] = pc[t] /\ wait_cond'[t] = wait_cond[t]
             /\ t \notin W
  <2>1. state[t] = "WAITING" /\ t \notin W
    BY Zenon, <1>5, <1>7
  <2>2. t = tp => hart # "run"
    BY Zenon, <1>1, <2>1
  <2> QED BY <1>3, <1>4, <2>1, <2>2, ZenonT(60)
<1>8. WaitInv'
  BY Zenon, <1>1, <1>7 DEF FamInv, WaitInv
<1>9. ASSUME NEW t \in Tid, state[t] = "WAITING", pc[t] \in {"join", "join_any"},
             hart = "run"
      PROVE  t \in Elems(wait_list[ChildExit(t)])
  BY Zenon, <1>1, <1>9 DEF FamInv, WaitInv, SchedInv, ListsExact
<1>10. JoinInv'
  <2>1. ASSUME NEW t \in Tid, pc'[t] = "join", state'[t] = "WAITING",
               state'[arg'[t]] = "EXITED"
        PROVE  FALSE
    <3>1. state[t] = "WAITING" /\ pc[t] = "join" /\ t \notin W /\ arg'[t] = arg[t]
      BY Zenon, <1>1, <1>7, <2>1
    <3>2. arg[t] \in Tid /\ parent[arg[t]] = t /\ state[arg[t]] # "EXITED"
      BY Zenon, <3>1 DEF SchedInv, ArgInv, FamInv, JoinInv
    <3>3. exits /\ arg[t] = tp
      BY Zenon, <1>3, <2>1, <3>1, <3>2
    <3> QED BY Zenon, <1>4, <1>9, <3>1, <3>2, <3>3 DEF W
  <2>2. ASSUME NEW t \in Tid, pc'[t] = "join_any"
        PROVE  state'[t] = "WAITING" <=> ExitedChildren(t)' = {}
    <3>1. pc[t] = "join_any" /\ (exits => t # tp)
      BY Zenon, <1>4, <2>2
    <3>2. state[t] = "WAITING" <=> ExitedChildren(t) = {}
      BY Zenon, <3>1 DEF FamInv, JoinInv
    <3>3. CASE exits /\ t = parent[tp]
      <4>1. tp \in 1 .. NTHR - 1 /\ state'[tp] = "EXITED" /\ parent'[tp] = t
        BY <1>1, <1>3, <1>4, <3>3, ConstantsAssumption DEF Tid, MAIN_TID
      <4>2. ExitedChildren(t)' # {}
        BY Zenon, <4>1, ExitedChildrenIs
      <4>3. state'[t] # "WAITING"
        BY Zenon, <1>4, <1>7, <1>9, <3>1, <3>3 DEF W
      <4> QED BY Zenon, <4>2, <4>3
    <3>4. CASE ~ (exits /\ t = parent[tp])
      <4>1. t \notin W
        <5>1. SUFFICES ASSUME t \in W PROVE FALSE
          BY Zenon
        <5>2. wait_cond[t] = c /\ wait_cond[t] = ChildExit(t)
          BY Zenon, <1>2, <3>1, <5>1 DEF FamInv, WaitInv
        <5> QED BY Zenon, <1>4, <3>4, <5>2
      <4>2. state'[t] = state[t]
        BY Zenon, <1>3, <3>1, <4>1
      <4>3. \A x \in 1 .. NTHR - 1 : state'[x] = "EXITED" /\ parent'[x] = t <=>
                                     state[x] = "EXITED" /\ parent[x] = t
        BY Zenon, <1>1, <1>2, <1>3, <3>4
      <4>4. ExitedChildren(t)' = ExitedChildren(t)
        BY Zenon, <4>3, ExitedChildrenIs
      <4> QED BY Zenon, <3>2, <4>2, <4>4
    <3> QED BY Zenon, <3>3, <3>4
  <2> QED BY Zenon, <2>1, <2>2 DEF JoinInv
<1>11. ForkInv'
  <2>1. ASSUME NEW t \in Tid, state'[t] # "UNINITIALIZED", pc'[t] = "forked"
        PROVE  /\ parent[t] \in Tid /\ pc'[parent[t]] = "fork"
               /\ \/ hart' = "susp" /\ tp = parent[t] /\ t \in Elems(ready_list')
                  \/ Ahead(ready_list', t, parent[t])
                  \/ hart' = "swtch" /\ next_thread = t
    <3>1. pc[t] = "forked" /\ state[t] # "UNINITIALIZED"
      BY Zenon, <1>2, <1>3, <1>4, <2>1
    <3>2. /\ parent[t] \in Tid /\ pc[parent[t]] = "fork"
          /\ \/ hart = "susp" /\ tp = parent[t] /\ t \in Elems(ready_list)
             \/ Ahead(ready_list, t, parent[t])
             \/ hart = "swtch" /\ next_thread = t
      BY Zenon, <3>1 DEF FamInv, ForkInv
    <3>3. pc'[parent[t]] = "fork" /\ (hart # "run" => hart' = hart)
      BY Zenon, <1>4, <3>2
    <3>4. Elems(ready_list) \subseteq Elems(ready_list')
      BY <1>1, ElemsConcat, SMT, Zenon
    <3>5. Ahead(ready_list, t, parent[t]) => Ahead(ready_list', t, parent[t])
      BY Zenon, <1>1, AheadConcat
    <3> QED BY Zenon, <3>2, <3>3, <3>4, <3>5
  <2> QED BY Zenon, <1>1, <2>1 DEF ForkInv
<1> QED BY Zenon, <1>6, <1>8, <1>10, <1>11 DEF FamInv

(* tlinsert keeps the invariant. *)
LEMMA FamInsert ==
  ASSUME SchedInv, FamInv, CondInsert
  PROVE  FamInv'
<1>1. /\ hart = "cwait" /\ hart' = "susp"
      /\ UNCHANGED <<state, wait_cond, ready_list, parent, holds, tp, next_thread, pc, arg>>
  BY Zenon DEF CondInsert, famVars, lockVars
<1>2. SlotInv' /\ WaitInv'
  BY Zenon, <1>1 DEF FamInv, SlotInv, WaitInv
<1>3. JoinInv'
  <2>1. \A t \in Tid : ExitedChildren(t)' = ExitedChildren(t)
    BY Zenon, <1>1, ExitedChildrenIs
  <2> QED BY Zenon, <1>1, <2>1 DEF FamInv, JoinInv
<1>4. ForkInv'
  BY Zenon, <1>1 DEF FamInv, ForkInv
<1> QED BY Zenon, <1>2, <1>3, <1>4 DEF FamInv

(* suspend_self keeps the invariant: a thread in thread_fork_to_user goes    *)
(* behind its child, and the head of the list leaves the order of the others.*)
LEMMA FamSuspend ==
  ASSUME SchedInv, FamInv, SuspendSelf
  PROVE  FamInv'
<1> USE TidFacts
<1> DEFINE h == Head(ready_list)
           T == Tail(ready_list)
<1>1. /\ hart = "susp" /\ hart' = "swtch" /\ next_thread' = h
      /\ UNCHANGED <<wait_cond, parent, holds, tp, pc, arg>>
      /\ ready_list # <<>> /\ h # tp /\ tp \in Tid
      /\ ready_list \in Seq(Tid) /\ NoDup(ready_list)
  BY Zenon DEF SuspendSelf, famVars, lockVars, SchedInv, SuspInv, TypeOK, ListsExact
<1>2. /\ h \in Tid /\ h \in Elems(ready_list) /\ state[h] = "READY"
      /\ T \in Seq(Tid) /\ Elems(T) = Elems(ready_list) \ {h}
  <2>1. /\ h \in Tid /\ h \in Elems(ready_list)
        /\ T \in Seq(Tid) /\ Elems(T) = Elems(ready_list) \ {h}
    BY Zenon, <1>1, ListFacts
  <2> QED BY Zenon, <2>1 DEF SchedInv, ListsExact
<1>3. \A t \in Tid : state'[t] = IF t = h THEN "RUNNING"
                                 ELSE IF t = tp /\ state[tp] = "RUNNING" THEN "READY"
                                 ELSE state[t]
  BY <1>1, <1>2, ZenonT(60) DEF SuspendSelf, SchedInv, TypeOK
<1>4. ready_list' = IF state[tp] = "RUNNING" THEN Append(T, tp) ELSE T
  BY Zenon, <1>1, <1>2 DEF SuspendSelf, SchedInv, TypeOK
<1> HIDE DEF h, T
<1>5. \A t \in Tid : /\ state'[t] = "UNINITIALIZED" <=> state[t] = "UNINITIALIZED"
                     /\ state'[t] = "EXITED" <=> state[t] = "EXITED"
                     /\ state'[t] = "WAITING" <=> state[t] = "WAITING"
  BY Zenon, <1>2, <1>3
<1>6. SlotInv' /\ WaitInv'
  BY Zenon, <1>1, <1>5 DEF FamInv, SlotInv, WaitInv
<1>7. JoinInv'
  <2>1. \A t \in Tid : ExitedChildren(t)' = ExitedChildren(t)
    BY Zenon, <1>1, <1>5, ExitedChildrenIs
  <2>2. \A t \in Tid : pc[t] = "join" => arg[t] \in Tid
    BY Zenon DEF SchedInv, ArgInv
  <2> QED BY Zenon, <1>1, <1>5, <2>1, <2>2 DEF FamInv, JoinInv
<1>8. ForkInv'
  <2>1. ASSUME NEW t \in Tid, state'[t] # "UNINITIALIZED", pc'[t] = "forked"
        PROVE  /\ parent[t] \in Tid /\ pc[parent[t]] = "fork"
               /\ Ahead(ready_list', t, parent[t]) \/ h = t
    <3>1. /\ parent[t] \in Tid /\ pc[parent[t]] = "fork"
          /\ \/ tp = parent[t] /\ t \in Elems(ready_list)
             \/ Ahead(ready_list, t, parent[t])
      BY Zenon, <1>1, <1>5, <2>1 DEF FamInv, ForkInv
    <3>2. CASE tp = parent[t] /\ t \in Elems(ready_list) /\ h # t
      <4>1. state[tp] = "RUNNING"
        BY Zenon, <1>1, <3>1, <3>2 DEF SchedInv, OneRunning
      <4>2. t \in Elems(T)
        BY Zenon, <1>2, <3>2
      <4> QED BY Zenon, <1>1, <1>2, <1>4, <3>1, <3>2, <4>1, <4>2, AheadAppend
    <3>3. CASE Ahead(ready_list, t, parent[t]) /\ h # t
      <4>1. Ahead(T, t, parent[t])
        BY Zenon, <1>1, <3>3, AheadTail DEF h, T
      <4> QED BY Zenon, <1>1, <1>2, <1>4, <3>1, <4>1, AheadAppend
    <3> QED BY Zenon, <3>1, <3>2, <3>3
  <2> QED BY Zenon, <1>1, <2>1 DEF ForkInv
<1> QED BY Zenon, <1>6, <1>7, <1>8 DEF FamInv

(* _thread_swtch keeps the invariant: a forked child leaves its parent's     *)
(* frame when it is switched to, and the parent is not switched to before.   *)
LEMMA FamSwitch ==
  ASSUME SchedInv, FamInv, Switch
  PROVE  FamInv'
<1> USE TidFacts
<1>1. /\ hart = "swtch" /\ hart' = "run" /\ tp' = next_thread
      /\ UNCHANGED <<state, wait_cond, ready_list, wait_list, parent, holds, arg,
                     next_thread>>
  BY Zenon DEF Switch, schedVars, lockVars
<1>2. next_thread \in Tid /\ state[next_thread] = "RUNNING"
  BY Zenon, <1>1 DEF SchedInv, TypeOK, OneRunning
<1>3. /\ \A t \in Tid \ {next_thread} : pc'[t] = pc[t]
      /\ pc'[next_thread] = IF pc[next_thread] = "forked" THEN "user"
                            ELSE IF pc[next_thread] \in {"fresh", "fork", "yield"}
                            THEN "kern" ELSE pc[next_thread]
  BY Zenon, <1>2 DEF Switch, SchedInv, TypeOK
<1>4. SlotInv'
  BY Zenon, <1>1, <1>2, <1>3 DEF FamInv, SlotInv
<1>5. WaitInv'
  BY Zenon, <1>1, <1>2, <1>3 DEF FamInv, WaitInv
<1>6. JoinInv'
  <2>1. \A t \in Tid : ExitedChildren(t)' = ExitedChildren(t)
    BY Zenon, <1>1, ExitedChildrenIs
  <2>2. \A t \in Tid : pc'[t] \in {"join", "join_any"} => pc'[t] = pc[t]
    BY Zenon, <1>3
  <2> QED BY Zenon, <1>1, <2>1, <2>2 DEF FamInv, JoinInv
<1>7. ForkInv'
  <2>1. ASSUME NEW t \in Tid, state'[t] # "UNINITIALIZED", pc'[t] = "forked"
        PROVE  /\ parent[t] \in Tid /\ pc'[parent[t]] = "fork"
               /\ Ahead(ready_list, t, parent[t])
    <3>1. t # next_thread /\ pc[t] = "forked"
      BY Zenon, <1>3, <2>1
    <3>2. /\ parent[t] \in Tid /\ pc[parent[t]] = "fork"
          /\ Ahead(ready_list, t, parent[t])
      BY Zenon, <1>1, <2>1, <3>1 DEF FamInv, ForkInv
    <3>3. ready_list \in Seq(Tid)
      BY Zenon DEF SchedInv, TypeOK
    <3>4. parent[t] \in Elems(ready_list)
      BY Zenon, <3>2, <3>3, AheadTail
    <3>5. parent[t] # next_thread
      BY Zenon, <1>2, <3>2, <3>4 DEF SchedInv, ListsExact
    <3> QED BY Zenon, <1>3, <3>2, <3>5
  <2> QED BY Zenon, <1>1, <2>1 DEF ForkInv
<1> QED BY Zenon, <1>4, <1>5, <1>6, <1>7 DEF FamInv

(* Every step keeps the invariant. *)
LEMMA FamStep ==
  ASSUME SchedInv, FamInv, [Next]_vars
  PROVE  FamInv'
<1>1. SchedInv'
  BY Zenon, SchedStep
<1>2. \/ Quiet \/ Waits
      \/ \E tid \in Tid : Recycles(tid)
      \/ \E child \in Tid, forks \in BOOLEAN : Creates(child, forks)
      \/ \E c \in Cond, exits \in BOOLEAN : Wakes(c, exits)
      \/ CondInsert \/ SuspendSelf \/ Switch
  BY Zenon, StepShape
<1> QED BY Zenon, <1>1, <1>2, FamQuiet, FamWaits, FamRecycles, FamCreates, FamWakes,
           FamInsert, FamSuspend, FamSwitch

(* Initially nobody waits and nobody has been forked. *)
LEMMA FamInit == Init => FamInv
<1> SUFFICES ASSUME Init PROVE FamInv
  BY Zenon
<1> USE TidFacts
<1>1. \A t \in Tid : /\ pc[t] \in {"kern", "fresh"} /\ holds[t] = {}
                     /\ state[t] \notin {"WAITING", "EXITED"}
  BY Zenon DEF Init
<1>2. SlotInv
  BY Zenon, <1>1 DEF Init, SlotInv
<1> QED BY Zenon, <1>1, <1>2 DEF FamInv, WaitInv, JoinInv, ForkInv

(* No exit of a child is lost, for every number of threads: a thread that    *)
(* sleeps in thread_join or thread_join_any has nothing to collect.          *)
THEOREM ExitCorrect == Spec => []NoLostExit
<1>1. SchedInv /\ FamInv => NoLostExit
  <2> SUFFICES ASSUME SchedInv, FamInv, NEW t \in Tid,
                      t \in Elems(wait_list[ChildExit(t)])
               PROVE  /\ pc[t] = "join" => arg[t] \in Children(t) \ ExitedChildren(t)
                      /\ pc[t] = "join_any" => ExitedChildren(t) = {}
    BY Zenon DEF NoLostExit
  <2>1. state[t] = "WAITING"
    BY Zenon, CondFacts DEF SchedInv, ListsExact
  <2>2. ASSUME pc[t] = "join" PROVE arg[t] \in Children(t) \ ExitedChildren(t)
    <3>1. /\ arg[t] \in Tid /\ parent[arg[t]] = t /\ state[arg[t]] # "UNINITIALIZED"
          /\ state[arg[t]] # "EXITED"
      BY Zenon, <2>1, <2>2 DEF SchedInv, ArgInv, FamInv, JoinInv
    <3>2. arg[t] # MAIN_TID
      BY Zenon, <3>1, TidFacts DEF FamInv, SlotInv
    <3>3. arg[t] \in 1 .. NTHR - 1
      BY <3>1, <3>2, ConstantsAssumption DEF Tid, MAIN_TID
    <3> QED BY Zenon, <3>1, <3>3 DEF Children, ExitedChildren
  <2> QED BY Zenon, <2>1, <2>2 DEF FamInv, JoinInv
<1> QED BY SchedInit, SchedStep, FamInit, FamStep, <1>1, PTL DEF Spec

(* A forked child runs before its parent leaves thread_fork_to_user, so the  *)
(* trap frame it starts from is intact, for every number of threads and      *)
(* whatever the disk and other threads do in between.                        *)
THEOREM ForkCorrect == Spec => []ForkFrameIntact
<1>1. FamInv => ForkFrameIntact
  BY Zenon DEF FamInv, ForkInv, ForkFrameIntact
<1> QED BY SchedInit, SchedStep, FamInit, FamStep, <1>1, PTL DEF Spec

(* A slot that recycle_thread has emptied is nobody's parent, on no list and *)
(* owns no lock, for every number of threads.                                *)
THEOREM SlotCorrect == Spec => []FreeSlotUnreferenced
<1>1. SchedInv /\ LockInv /\ FamInv => FreeSlotUnreferenced
  <2> SUFFICES ASSUME SchedInv, LockInv, FamInv, NEW t \in Tid,
                      state[t] = "UNINITIALIZED"
               PROVE  /\ \A c \in Tid : parent[c] # t
                      /\ t \notin Elems(ready_list)
                      /\ \A c \in Cond : t \notin Elems(wait_list[c])
                      /\ wait_list[ChildExit(t)] = <<>>
                      /\ \A l \in Lock : lk[l] # t
    BY Zenon DEF FreeSlotUnreferenced
  <2>1. \A c \in Tid : parent[c] # t
    BY Zenon, TidFacts DEF SchedInv, FamilyInv, FamInv, SlotInv
  <2>2. t \notin Elems(ready_list) /\ \A c \in Cond : t \notin Elems(wait_list[c])
    BY Zenon DEF SchedInv, ListsExact
  <2>3. ChildExit(t) \in Cond /\ wait_list[ChildExit(t)] \in Seq(Tid)
    BY Zenon, CondFacts DEF SchedInv, TypeOK
  <2>4. ASSUME NEW x \in Elems(wait_list[ChildExit(t)]) PROVE FALSE
    <3>1. x \in Tid
      BY Zenon, <2>3, ListFacts
    <3>2. wait_cond[x] = ChildExit(t) /\ state[x] = "WAITING"
      BY Zenon, <2>3 DEF SchedInv, ListsExact
    <3>3. t = x
      BY Zenon, <3>1, <3>2 DEF SchedInv, ArgInv
    <3> QED BY Zenon, <3>2, <3>3
  <2>5. wait_list[ChildExit(t)] = <<>>
    BY ZenonT(30), <2>3, <2>4, ListFacts
  <2>6. \A l \in Lock : lk[l] # t
    BY ConstantsAssumption DEF LockInv, FamInv, SlotInv, Tid
  <2> QED BY Zenon, <2>1, <2>2, <2>5, <2>6
<1> QED BY SchedInit, SchedStep, LockInit, LockStep, FamInit, FamStep, <1>1, PTL DEF Spec

(* thread_join_any never panics with a spurious child_exit signal, although  *)
(* it waits only once: for every number of threads the child whose exit woke *)
(* it is still there when it runs.                                           *)
THEOREM SignalCorrect == Spec => []NoSpuriousChildExit
<1>1. Init => NoSpuriousChildExit
  BY Zenon DEF Init, NoSpuriousChildExit
<1>2. SchedInv /\ FamInv /\ NoSpuriousChildExit /\ [Next]_vars => NoSpuriousChildExit'
  <2> SUFFICES ASSUME SchedInv, FamInv, halted # "spurious", [Next]_vars,
                      halted' = "spurious"
               PROVE  FALSE
    BY Zenon DEF NoSpuriousChildExit
  <2>1. JoinAnyResume /\ ExitedChildren(tp) = {}
    BY Zenon DEF Next, vars, Panic, CondInsert, SuspendSelf, Switch, ThreadSpawn, ThreadFork,
           CreatePanics, ThreadYield, MainExit, ThreadExit, ThreadJoinAny, JoinAnyResume,
           ThreadJoin, JoinResume, LockAcquire, LockResume, LockRelease, BlkOp, BlkResume,
           BlkComplete, BlkIntr, BlkIntrUser, Preempt, Ecall, Sret, ExecInit, IdleYield,
           IdleEmpty, IdleCheck, IdleWake, IdleGoto, Halted
  <2>2. tp \in Tid /\ state[tp] = "RUNNING" /\ pc[tp] = "join_any"
    BY <2>1, IdleReady, ZenonT(60) DEF JoinAnyResume, At, SchedInv, TypeOK
  <2> QED BY Zenon, <2>1, <2>2 DEF FamInv, JoinInv
<1> QED BY SchedInit, SchedStep, FamInit, FamStep, <1>1, <1>2, PTL DEF Spec

-----------------------------------------------------------------------------
(* Where the hart is and with which interrupt state.                         *)

(* Only the thread the hart executes is in U mode or in plain kernel code;   *)
(* a thread in U mode is a user thread and a spawned one is not; wfi is      *)
(* reached with interrupts disabled and nothing ready.                       *)
ModeInv ==
  \A t \in Tid :
    /\ pc[t] \in {"kern", "user", "idle", "wfi"} => t = tp /\ hart = "run"
    /\ pc[t] \in {"idle", "wfi"} => t = IDLE_TID
    /\ pc[t] \in {"user", "forked"} => user[t]
    /\ pc[t] = "fresh" /\ state[t] # "UNINITIALIZED" => ~user[t]
    /\ pc[t] = "wfi" => ~sie /\ ready_list = <<>>

(* InterruptsRestored is not inductive: the interrupt state a thread gets    *)
(* back is the one in its suspend_self frame (or, after the disk wait, in    *)
(* its operation_single_blk frame), so the invariant is about these too.     *)
IntrInv ==
  \A t \in Tid :
    /\ pc[t] \in {"kern", "yield", "fork", "join", "join_any", "lock"} =>
         IF t = tp /\ hart # "swtch" THEN sie <=> ~user[t] ELSE saved[t] <=> ~user[t]
    /\ pc[t] = "used" => (dsaved[t] <=> ~user[t])

CpuInv == ModeInv /\ IntrInv

(* What kernel code of the current thread must see to, apart from a switch:  *)
(* it may also empty a slot or fill one.                                     *)
LEMMA CpuLocal ==
  ASSUME SchedInv, CpuInv, hart = "run", tp' = tp, saved' = saved,
         hart' \in {"run", "cwait", "susp"},
         \A t \in Tid \ {tp} :
           \/ /\ pc'[t] = pc[t] /\ user'[t] = user[t] /\ dsaved'[t] = dsaved[t]
              /\ state'[t] # "UNINITIALIZED" => state[t] # "UNINITIALIZED"
           \/ pc'[t] = "fresh" /\ (state'[t] = "UNINITIALIZED" \/ ~user'[t])
           \/ pc'[t] = "forked" /\ user'[t],
         pc'[tp] \notin {"fresh", "forked"},
         pc'[tp] \in {"kern", "user", "idle", "wfi"} => hart' = "run",
         pc'[tp] \in {"idle", "wfi"} => tp = IDLE_TID,
         pc'[tp] = "user" => user'[tp],
         pc'[tp] = "wfi" => ~sie' /\ ready_list' = <<>>,
         pc'[tp] \in {"kern", "yield", "fork", "join", "join_any", "lock"} =>
           (sie' <=> ~user'[tp]),
         pc'[tp] = "used" => (dsaved'[tp] <=> ~user'[tp])
  PROVE  CpuInv'
<1>1. tp \in Tid
  BY Zenon DEF SchedInv, TypeOK
<1>2. ModeInv'
  <2> SUFFICES ASSUME NEW t \in Tid
               PROVE  /\ pc'[t] \in {"kern", "user", "idle", "wfi"} => t = tp' /\ hart' = "run"
                      /\ pc'[t] \in {"idle", "wfi"} => t = IDLE_TID
                      /\ pc'[t] \in {"user", "forked"} => user'[t]
                      /\ pc'[t] = "fresh" /\ state'[t] # "UNINITIALIZED" => ~user'[t]
                      /\ pc'[t] = "wfi" => ~sie' /\ ready_list' = <<>>
    BY Zenon DEF ModeInv
  <2>1. CASE t = tp
    BY Zenon, <2>1
  <2>2. CASE t # tp
    BY Zenon, <2>2 DEF CpuInv, ModeInv
  <2> QED BY Zenon, <2>1, <2>2
<1>3. IntrInv'
  <2> SUFFICES ASSUME NEW t \in Tid
               PROVE  /\ pc'[t] \in {"kern", "yield", "fork", "join", "join_any", "lock"} =>
                           IF t = tp' /\ hart' # "swtch" THEN sie' <=> ~user'[t]
                                                         ELSE saved'[t] <=> ~user'[t]
                      /\ pc'[t] = "used" => (dsaved'[t] <=> ~user'[t])
    BY Zenon DEF IntrInv
  <2>1. CASE t = tp
    BY Zenon, <2>1
  <2>2. CASE t # tp
    BY Zenon, <2>2 DEF CpuInv, IntrInv
  <2> QED BY Zenon, <2>1, <2>2
<1> QED BY Zenon, <1>2, <1>3 DEF CpuInv

(* Every step keeps the invariant. *)
LEMMA CpuStep ==
  ASSUME SchedInv, FamInv, CpuInv, [Next]_vars
  PROVE  CpuInv'
<1> USE TidFacts, CondFacts
<1>0. /\ tp \in Tid /\ next_thread \in Tid /\ TypeOK
      /\ (hart = "run" => state[tp] = "RUNNING") /\ ~user[IDLE_TID]
  BY IdleReady, ZenonT(60) DEF SchedInv, TypeOK, IdleInv
<1>a. /\ pc \in [Tid -> PC] /\ user \in [Tid -> BOOLEAN] /\ dsaved \in [Tid -> BOOLEAN]
      /\ saved \in [Tid -> BOOLEAN] /\ state \in [Tid -> ThreadState] /\ sie \in BOOLEAN
  BY Zenon, <1>0 DEF TypeOK
<1>b. hart = "run" /\ pc[tp] \in {"kern", "join", "join_any", "lock"} => (sie <=> ~user[tp])
  BY Zenon, <1>0 DEF CpuInv, IntrInv
<1>1. ASSUME UNCHANGED <<state, ready_list, tp, hart, pc, user, sie, saved, dsaved>>
      PROVE  CpuInv'
  BY <1>1, ZenonT(60) DEF CpuInv, ModeInv, IntrInv
<1>2. CASE \/ UNCHANGED vars \/ Halted \/ CreatePanics \/ MainExit \/ BlkComplete
  <2>1. UNCHANGED <<state, ready_list, tp, hart, pc, user, sie, saved, dsaved>>
    BY Zenon, <1>2 DEF vars, Halted, CreatePanics, Panic, MainExit, BlkComplete, schedVars,
                famVars, intrVars
  <2> QED BY Zenon, <1>1, <2>1
<1>3. CASE ThreadYield \/ IdleYield
  <2>1. /\ hart = "run" /\ hart' = "susp" /\ pc[tp] = "kern"
        /\ pc' = [pc EXCEPT ![tp] = "yield"]
        /\ UNCHANGED <<state, user, sie, saved, dsaved, tp>>
    BY Zenon, <1>3 DEF ThreadYield, IdleYield, At, schedVars, famVars, intrVars
  <2>2. pc'[tp] = "yield" /\ \A t \in Tid \ {tp} : pc'[t] = pc[t]
    BY Zenon, <1>0, <1>a, <2>1
  <2>3. sie' <=> ~user'[tp]
    BY <1>b, <2>1, Zenon
  <2> QED BY Zenon, <2>1, <2>2, <2>3, CpuLocal
<1>4. CASE Preempt \/ BlkIntrUser
  <2>1. /\ hart = "run" /\ hart' = "susp" /\ pc[tp] = "user"
        /\ pc' = [pc EXCEPT ![tp] = "yield"] /\ sie' = FALSE
        /\ UNCHANGED <<user, saved, dsaved, tp>>
    BY <1>4, Zenon DEF Preempt, BlkIntrUser, InUserMode, famVars
  <2>2. pc'[tp] = "yield" /\ \A t \in Tid \ {tp} : pc'[t] = pc[t]
    BY Zenon, <1>0, <1>a, <2>1
  <2>3. sie' <=> ~user'[tp]
    <3>1. user[tp]
      BY Zenon, <1>0, <2>1 DEF CpuInv, ModeInv
    <3> QED BY <2>1, <3>1, Zenon
  <2>4. ASSUME NEW t \in Tid, state'[t] # "UNINITIALIZED"
        PROVE  state[t] # "UNINITIALIZED"
    <3>1. CASE Preempt
      BY Zenon, <2>4, <3>1 DEF Preempt, schedVars
    <3>2. CASE BlkIntrUser
      <4>1. state'[t] = state[t] \/ t \in Elems(wait_list[UsedUpdated])
        BY <3>2, Zenon DEF BlkIntrUser, condition_broadcast
      <4> QED BY Zenon, <2>4, <4>1 DEF SchedInv, ListsExact
    <3> QED BY Zenon, <1>4, <3>1, <3>2
  <2> QED BY Zenon, <2>1, <2>2, <2>3, <2>4, CpuLocal
<1>5. CASE BlkResume
  <2>1. /\ hart = "run" /\ hart' = "run" /\ pc[tp] = "used"
        /\ pc' = [pc EXCEPT ![tp] = "kern"] /\ sie' = dsaved[tp]
        /\ dsaved' = [dsaved EXCEPT ![tp] = TRUE]
        /\ UNCHANGED <<state, user, saved, tp>>
    BY <1>5, Zenon DEF BlkResume, At, schedVars, famVars
  <2>2. /\ pc'[tp] = "kern"
        /\ \A t \in Tid \ {tp} : pc'[t] = pc[t] /\ dsaved'[t] = dsaved[t]
    BY Zenon, <1>0, <1>a, <2>1
  <2>3. sie' <=> ~user'[tp]
    <3>1. dsaved[tp] <=> ~user[tp]
      BY Zenon, <1>0, <2>1 DEF CpuInv, IntrInv
    <3> QED BY <2>1, <3>1, Zenon
  <2> QED BY Zenon, <2>1, <2>2, <2>3, CpuLocal
<1>6. CASE Ecall
  <2>1. /\ hart = "run" /\ hart' = "run" /\ pc[tp] = "user"
        /\ pc' = [pc EXCEPT ![tp] = "kern"] /\ sie' = FALSE
        /\ UNCHANGED <<state, user, saved, dsaved, tp>>
    BY <1>6, Zenon DEF Ecall, At, schedVars, famVars
  <2>2. pc'[tp] = "kern" /\ \A t \in Tid \ {tp} : pc'[t] = pc[t]
    BY Zenon, <1>0, <1>a, <2>1
  <2>3. sie' <=> ~user'[tp]
    <3>1. user[tp]
      BY Zenon, <1>0, <2>1 DEF CpuInv, ModeInv
    <3> QED BY <2>1, <3>1, Zenon
  <2> QED BY Zenon, <2>1, <2>2, <2>3, CpuLocal
<1>7. CASE Sret \/ ExecInit
  <2>1. /\ hart = "run" /\ hart' = "run" /\ pc' = [pc EXCEPT ![tp] = "user"]
        /\ (user' = user /\ user[tp]) \/ user' = [user EXCEPT ![tp] = TRUE]
        /\ UNCHANGED <<state, saved, dsaved, tp>>
    BY <1>7, Zenon DEF Sret, ExecInit, At, schedVars, famVars
  <2>2. /\ pc'[tp] = "user" /\ user'[tp]
        /\ \A t \in Tid \ {tp} : pc'[t] = pc[t] /\ user'[t] = user[t]
    BY Zenon, <1>0, <1>a, <2>1
  <2> QED BY Zenon, <2>1, <2>2, CpuLocal
<1>8. CASE IdleEmpty \/ IdleCheck \/ IdleWake
  <2>1. tp = IDLE_TID
    BY Zenon, <1>0, <1>8 DEF IdleEmpty, IdleCheck, IdleWake, At, CpuInv, ModeInv
  <2>2. /\ hart = "run" /\ hart' = "run"
        /\ UNCHANGED <<state, ready_list, user, saved, dsaved, tp>>
    BY <1>8, Zenon DEF IdleEmpty, IdleCheck, IdleWake, IdleGoto, At, schedVars, famVars
  <2>3. \/ pc' = [pc EXCEPT ![tp] = "wfi"] /\ sie' = FALSE /\ ready_list = <<>>
        \/ pc' = [pc EXCEPT ![tp] = "idle"]
        \/ pc' = [pc EXCEPT ![tp] = "kern"] /\ sie' = TRUE
    BY <1>8, Zenon DEF IdleEmpty, IdleCheck, IdleWake, IdleGoto
  <2>4. /\ pc'[tp] \in {"wfi", "idle", "kern"}
        /\ \A t \in Tid \ {tp} : pc'[t] = pc[t]
    BY Zenon, <1>0, <1>a, <2>3
  <2>5. pc'[tp] = "wfi" => ~sie' /\ ready_list' = <<>>
    BY Zenon, <1>0, <1>a, <2>2, <2>3
  <2>6. pc'[tp] = "kern" => (sie' <=> ~user'[tp])
    BY Zenon, <1>0, <1>a, <2>1, <2>2, <2>3
  <2> QED BY Zenon, <2>1, <2>2, <2>4, <2>5, <2>6, CpuLocal
<1>9. ASSUME hart = "run", pc[tp] \in {"kern", "join", "join_any", "lock"},
             \E l \in {"join", "join_any", "lock"} : pc' = [pc EXCEPT ![tp] = l],
             NEW c \in Cond, condition_wait(c),
             UNCHANGED <<user, sie, saved, dsaved, tp>>
      PROVE  CpuInv'
  <2>1. /\ pc'[tp] \in {"join", "join_any", "lock"} /\ hart' = "cwait"
        /\ \A t \in Tid \ {tp} : pc'[t] = pc[t] /\ state'[t] = state[t]
    BY Zenon, <1>0, <1>a, <1>9 DEF condition_wait
  <2>2. sie' <=> ~user'[tp]
    BY <1>b, <1>9, Zenon
  <2> QED BY Zenon, <1>9, <2>1, <2>2, CpuLocal
<1>10. ASSUME hart = "run", pc[tp] \in {"kern", "join", "join_any", "lock"},
              NEW tid \in Tid, state[tid] = "EXITED", recycle_thread(tid),
              UNCHANGED <<sie, saved, dsaved, tp>>
       PROVE  CpuInv'
  <2>1. tid # tp
    BY Zenon, <1>0, <1>10
  <2>2. /\ state' = [state EXCEPT ![tid] = "UNINITIALIZED"]
        /\ pc' = [pc EXCEPT ![tid] = "fresh", ![tp] = "kern"]
        /\ UNCHANGED <<user, hart>>
    BY <1>10, Zenon DEF recycle_thread
  <2>3. /\ pc'[tp] = "kern" /\ pc'[tid] = "fresh" /\ state'[tid] = "UNINITIALIZED"
        /\ \A t \in Tid \ {tp, tid} : pc'[t] = pc[t] /\ state'[t] = state[t]
    BY Zenon, <1>0, <1>a, <2>1, <2>2
  <2>4. sie' <=> ~user'[tp]
    BY <1>b, <1>10, <2>2, Zenon
  <2> QED BY Zenon, <1>10, <2>2, <2>3, <2>4, CpuLocal
<1>11. ASSUME hart = "run", pc[tp] \in {"kern", "join"}, NEW tid \in Tid, JoinLoop(tid),
              UNCHANGED <<intrVars, tp>>
       PROVE  CpuInv'
  <2>0. UNCHANGED <<sie, saved, dsaved, tp>> /\ ChildExit(tp) \in Cond
    BY Zenon, <1>0, <1>11 DEF intrVars
  <2>1. CASE state[tid] = "EXITED" /\ recycle_thread(tid)
    BY Zenon, <1>10, <1>11, <2>0, <2>1
  <2>2. CASE WaitChild("join", tid)
    <3>1. /\ condition_wait(ChildExit(tp)) /\ pc' = [pc EXCEPT ![tp] = "join"]
          /\ user' = user
      BY <2>2, Zenon DEF WaitChild, famVars
    <3> QED BY <1>9, <1>11, <2>0, <3>1, ZenonT(60)
  <2> QED BY Zenon, <1>11, <2>1, <2>2 DEF JoinLoop
<1>12. ASSUME NEW tid \in Tid, ThreadJoin(tid) PROVE CpuInv'
  <2>1. hart = "run" /\ pc[tp] = "kern" /\ UNCHANGED <<intrVars, tp>>
    BY <1>12, Zenon DEF ThreadJoin, At
  <2>2. CASE UNCHANGED <<schedVars, famVars, hart, pc, arg>>
    <3>1. UNCHANGED <<state, ready_list, tp, hart, pc, user, sie, saved, dsaved>>
      BY <2>1, <2>2, Zenon DEF schedVars, famVars, intrVars
    <3> QED BY Zenon, <1>1, <3>1
  <2>3. CASE JoinLoop(tid)
    BY Zenon, <1>11, <2>1, <2>3
  <2> QED BY Zenon, <1>12, <2>2, <2>3 DEF ThreadJoin
<1>13. CASE JoinResume
  <2>1. /\ hart = "run" /\ pc[tp] = "join" /\ JoinLoop(arg[tp])
        /\ UNCHANGED <<intrVars, tp>>
    BY <1>13, Zenon DEF JoinResume, At
  <2>2. arg[tp] \in Tid
    BY Zenon, <1>0, <2>1 DEF SchedInv, ArgInv
  <2> QED BY Zenon, <1>11, <2>1, <2>2
<1>14. CASE ThreadJoinAny \/ JoinAnyResume
  <2>1. /\ hart = "run" /\ pc[tp] \in {"kern", "join_any"}
        /\ UNCHANGED <<sie, saved, dsaved, tp>> /\ ChildExit(tp) \in Cond
    BY Zenon, <1>0, <1>14 DEF ThreadJoinAny, JoinAnyResume, At, intrVars
  <2>2. CASE ExitedChildren(tp) # {} /\ recycle_thread(Least(ExitedChildren(tp)))
    BY Zenon, <1>0, <1>10, <2>1, <2>2, ExitedChildFacts
  <2>3. CASE UNCHANGED <<schedVars, famVars, hart, pc, arg>>
    <3>1. UNCHANGED <<state, ready_list, tp, hart, pc, user, sie, saved, dsaved>>
      BY <2>1, <2>3, Zenon DEF schedVars, famVars
    <3> QED BY <1>1, <3>1
  <2>4. CASE WaitChild("join_any", 0)
    <3>1. /\ condition_wait(ChildExit(tp)) /\ pc' = [pc EXCEPT ![tp] = "join_any"]
          /\ user' = user
      BY <2>4, Zenon DEF WaitChild, famVars
    <3> QED BY <1>9, <2>1, <3>1, ZenonT(60)
  <2> QED BY Zenon, <1>14, <2>2, <2>3, <2>4 DEF ThreadJoinAny, JoinAnyResume
<1>15. ASSUME hart = "run", pc[tp] \in {"kern", "lock"}, NEW l \in Lock, LockLoop(l),
              UNCHANGED <<user, sie, saved, dsaved, tp>>
       PROVE  CpuInv'
  <2>1. CASE lk[l] = -1
    <3>1. pc' = [pc EXCEPT ![tp] = "kern"] /\ UNCHANGED <<state, hart>>
      BY <1>15, <2>1, Zenon DEF LockLoop, schedVars
    <3>2. pc'[tp] = "kern" /\ \A t \in Tid \ {tp} : pc'[t] = pc[t]
      BY Zenon, <1>0, <1>a, <3>1
    <3>3. sie' <=> ~user'[tp]
      BY <1>b, <1>15, Zenon
    <3> QED BY Zenon, <1>15, <3>1, <3>2, <3>3, CpuLocal
  <2>2. CASE lk[l] # -1
    <3>1. condition_wait(LockCond(l)) /\ pc' = [pc EXCEPT ![tp] = "lock"]
      BY <1>15, <2>2, Zenon DEF LockLoop
    <3> QED BY <1>9, <1>15, <3>1, ZenonT(60)
  <2> QED BY Zenon, <2>1, <2>2
<1>16. ASSUME NEW l \in Lock, LockAcquire(l) PROVE CpuInv'
  <2>1. /\ hart = "run" /\ pc[tp] = "kern" /\ LockLoop(l)
        /\ UNCHANGED <<user, sie, saved, dsaved, tp>>
    BY <1>16, Zenon DEF LockAcquire, At, famVars, intrVars
  <2> QED BY Zenon, <1>15, <2>1
<1>17. CASE LockResume
  <2>1. /\ hart = "run" /\ pc[tp] = "lock" /\ LockLoop(arg[tp])
        /\ UNCHANGED <<user, sie, saved, dsaved, tp>>
    BY <1>17, Zenon DEF LockResume, At, famVars, intrVars
  <2>2. arg[tp] \in Lock
    BY Zenon, <1>0, <2>1 DEF SchedInv, ArgInv
  <2> QED BY Zenon, <1>15, <2>1, <2>2
<1>18. CASE BlkOp
  <2>1. /\ hart = "run" /\ pc[tp] = "kern" /\ condition_wait(UsedUpdated)
        /\ pc' = [pc EXCEPT ![tp] = "used"] /\ dsaved' = [dsaved EXCEPT ![tp] = sie]
        /\ UNCHANGED <<user, saved, tp>>
    BY <1>18, Zenon DEF BlkOp, At, famVars
  <2>2. /\ pc'[tp] = "used" /\ hart' = "cwait" /\ dsaved'[tp] = sie
        /\ \A t \in Tid \ {tp} : /\ pc'[t] = pc[t] /\ state'[t] = state[t]
                                 /\ dsaved'[t] = dsaved[t]
    BY Zenon, <1>0, <1>a, <2>1 DEF condition_wait
  <2>3. dsaved'[tp] <=> ~user'[tp]
    BY <1>b, <2>1, <2>2, Zenon
  <2> QED BY Zenon, <2>1, <2>2, <2>3, CpuLocal
<1>19. ASSUME NEW c \in Cond, NEW st, condition_broadcast(c, st),
              NEW t \in Tid, st[t] = state[t], state'[t] # "UNINITIALIZED"
       PROVE  state[t] # "UNINITIALIZED"
  <2>1. state'[t] = st[t] \/ t \in Elems(wait_list[c])
    BY <1>19, Zenon DEF condition_broadcast
  <2> QED BY Zenon, <1>19, <2>1 DEF SchedInv, ListsExact
<1>20. ASSUME NEW l \in Lock, LockRelease(l) PROVE CpuInv'
  <2>1. /\ hart = "run" /\ pc[tp] = "kern" /\ condition_broadcast(LockCond(l), state)
        /\ UNCHANGED <<user, sie, saved, dsaved, tp, hart, pc>>
    BY <1>20, Zenon DEF LockRelease, At, famVars, intrVars
  <2>2. sie' <=> ~user'[tp]
    BY <1>b, <2>1, Zenon
  <2>3. \A t \in Tid : state'[t] # "UNINITIALIZED" => state[t] # "UNINITIALIZED"
    BY Zenon, <1>19, <2>1
  <2> QED BY Zenon, <2>1, <2>2, <2>3, CpuLocal
<1>21. CASE BlkIntr
  <2>1. /\ sie /\ condition_broadcast(UsedUpdated, state)
        /\ UNCHANGED <<user, sie, saved, dsaved, tp, hart, pc>>
    BY <1>21, Zenon DEF BlkIntr, famVars, intrVars
  <2>2. \A t \in Tid : state'[t] # "UNINITIALIZED" => state[t] # "UNINITIALIZED"
    BY Zenon, <1>19, <2>1
  <2>3. ModeInv'
    BY Zenon, <2>1, <2>2 DEF CpuInv, ModeInv
  <2>4. IntrInv'
    BY Zenon, <2>1 DEF CpuInv, IntrInv
  <2> QED BY Zenon, <2>3, <2>4 DEF CpuInv
<1>22. CASE ThreadExit
  <2>1. /\ hart = "run" /\ hart' = "susp" /\ pc[tp] = "kern" /\ tp # MAIN_TID
        /\ condition_broadcast(ChildExit(parent[tp]), [state EXCEPT ![tp] = "EXITED"])
        /\ pc' = [pc EXCEPT ![tp] = "exit"]
        /\ UNCHANGED <<user, sie, saved, dsaved, tp>>
    BY <1>22, Zenon DEF ThreadExit, At, famVars, intrVars
  <2>2. pc'[tp] = "exit" /\ \A t \in Tid \ {tp} : pc'[t] = pc[t]
    BY Zenon, <1>0, <1>a, <2>1
  <2>3. ChildExit(parent[tp]) \in Cond
    BY Zenon, <1>0, <2>1 DEF SchedInv, FamilyInv
  <2>4. \A t \in Tid \ {tp} : [state EXCEPT ![tp] = "EXITED"][t] = state[t]
    BY Zenon, <1>a
  <2>5. \A t \in Tid \ {tp} : state'[t] # "UNINITIALIZED" => state[t] # "UNINITIALIZED"
    BY Zenon, <1>19, <2>1, <2>3, <2>4
  <2> QED BY Zenon, <2>1, <2>2, <2>5, CpuLocal
<1>23. CASE ThreadSpawn \/ ThreadFork
  <2> DEFINE child == Least(FreeSlots)
  <2>1. /\ ~NoThread /\ hart = "run" /\ pc[tp] = "kern"
        /\ UNCHANGED <<sie, saved, dsaved, tp>>
        /\ \/ CreateThread("fresh", FALSE) /\ hart' = "run"
           \/ CreateThread("forked", TRUE) /\ hart' = "susp"
    BY <1>23, ZenonT(60) DEF ThreadSpawn, ThreadFork, At, intrVars
  <2>2. child \in Tid /\ child # tp
    BY <1>0, <2>1, ChildFacts, ZenonT(60)
  <2>3. /\ state' = [state EXCEPT ![child] = "READY"]
        /\ \/ /\ pc' = [pc EXCEPT ![child] = "fresh", ![tp] = @]
              /\ user' = [user EXCEPT ![child] = FALSE] /\ hart' = "run"
           \/ /\ pc' = [pc EXCEPT ![child] = "forked", ![tp] = "fork"]
              /\ user' = [user EXCEPT ![child] = TRUE] /\ hart' = "susp"
    BY <2>1, Zenon DEF CreateThread
  <2> HIDE DEF child
  <2>4. /\ \A t \in Tid \ {child, tp} : /\ pc'[t] = pc[t] /\ state'[t] = state[t]
                                        /\ user'[t] = user[t]
        /\ \/ pc'[child] = "fresh" /\ ~user'[child] /\ pc'[tp] = "kern" /\ hart' = "run"
           \/ pc'[child] = "forked" /\ user'[child] /\ pc'[tp] = "fork" /\ hart' = "susp"
        /\ user'[tp] = user[tp]
    BY Zenon, <1>0, <1>a, <2>1, <2>2, <2>3
  <2>5. sie' <=> ~user'[tp]
    BY <1>b, <2>1, <2>4, Zenon
  <2> QED BY Zenon, <2>1, <2>2, <2>4, <2>5, CpuLocal
<1>24. CASE CondInsert
  <2>1. /\ hart = "cwait" /\ hart' = "susp"
        /\ UNCHANGED <<state, ready_list, tp, pc, user, sie, saved, dsaved>>
    BY <1>24, Zenon DEF CondInsert, famVars, intrVars
  <2>2. ModeInv'
    BY Zenon, <2>1 DEF CpuInv, ModeInv
  <2>3. IntrInv'
    BY Zenon, <2>1 DEF CpuInv, IntrInv
  <2> QED BY <2>2, <2>3 DEF CpuInv
<1>25. CASE SuspendSelf
  <2>1. /\ hart = "susp" /\ hart' = "swtch" /\ UNCHANGED <<tp, pc, user, dsaved>>
        /\ saved' = [saved EXCEPT ![tp] = sie]
    BY <1>25, Zenon DEF SuspendSelf, famVars
  <2>2. saved'[tp] = sie /\ \A t \in Tid \ {tp} : saved'[t] = saved[t]
    BY Zenon, <1>0, <1>a, <2>1
  <2>3. \A t \in Tid : state'[t] # "UNINITIALIZED" => state[t] # "UNINITIALIZED"
    <3>1. ready_list # <<>> /\ ready_list \in Seq(Tid) /\ NoDup(ready_list)
      BY Zenon, <2>1 DEF SchedInv, SuspInv, TypeOK, ListsExact
    <3>2. Head(ready_list) \in Tid /\ Head(ready_list) \in Elems(ready_list)
      BY Zenon, <3>1, ListFacts
    <3>3. state[Head(ready_list)] = "READY"
      BY Zenon, <3>2 DEF SchedInv, ListsExact
    <3> QED BY Zenon, <1>0, <1>a, <1>25, <3>2, <3>3 DEF SuspendSelf
  <2>4. ModeInv'
    BY Zenon, <2>1, <2>3 DEF CpuInv, ModeInv
  <2>5. IntrInv'
    BY Zenon, <1>0, <2>1, <2>2 DEF CpuInv, IntrInv
  <2> QED BY <2>4, <2>5 DEF CpuInv
<1>26. CASE Switch
  <2> DEFINE n == next_thread
  <2>1. /\ hart = "swtch" /\ hart' = "run" /\ tp' = n
        /\ UNCHANGED <<state, ready_list, user, dsaved>>
        /\ sie' = (pc[n] \in {"fresh", "forked"} \/ saved[n])
        /\ saved' = [saved EXCEPT ![n] = TRUE]
    BY <1>26, Zenon DEF Switch, schedVars
  <2>2. /\ \A t \in Tid \ {n} : pc'[t] = pc[t] /\ saved'[t] = saved[t]
        /\ pc'[n] = IF pc[n] = "forked" THEN "user"
                    ELSE IF pc[n] \in {"fresh", "fork", "yield"} THEN "kern" ELSE pc[n]
    BY Zenon, <1>0, <1>a, <1>26 DEF Switch
  <2>3. state[n] = "RUNNING"
    BY Zenon, <1>0, <2>1 DEF SchedInv, OneRunning
  <2>4. pc[n] \notin {"kern", "user", "idle", "wfi"}
    BY Zenon, <1>0, <2>1 DEF CpuInv, ModeInv
  <2>5. ModeInv'
    BY Zenon, <1>0, <2>1, <2>2, <2>4 DEF CpuInv, ModeInv
  <2>6. pc'[n] \in {"kern", "yield", "fork", "join", "join_any", "lock"} =>
          (sie' <=> ~user'[n])
    <3>1. CASE pc[n] = "fresh"
      <4>1. ~user[n]
        BY Zenon, <1>0, <2>3, <3>1 DEF CpuInv, ModeInv
      <4> QED BY <2>1, <3>1, <4>1, Zenon
    <3>2. CASE pc[n] \in {"yield", "fork", "join", "join_any", "lock"}
      <4>1. saved[n] <=> ~user[n]
        BY Zenon, <1>0, <2>1, <3>2 DEF CpuInv, IntrInv
      <4>2. pc[n] \notin {"fresh", "forked"}
        BY Zenon, <3>2
      <4> QED BY <2>1, <4>1, <4>2, Zenon
    <3> QED BY Zenon, <2>2, <2>4, <3>1, <3>2
  <2>7. IntrInv'
    <3> HIDE DEF n
    <3>1. \A t \in Tid \ {n} :
            pc[t] \in {"kern", "yield", "fork", "join", "join_any", "lock"} =>
              (saved[t] <=> ~user[t])
      BY Zenon, <2>1 DEF CpuInv, IntrInv
    <3>2. \A t \in Tid : pc'[t] = "used" => pc[t] = "used"
      BY Zenon, <2>2
    <3>3. \A t \in Tid : pc[t] = "used" => (dsaved[t] <=> ~user[t])
      BY Zenon DEF CpuInv, IntrInv
    <3> QED BY Zenon, <2>1, <2>2, <2>6, <3>1, <3>2, <3>3 DEF IntrInv
  <2> QED BY <2>5, <2>7 DEF CpuInv
<1> QED
  BY Zenon, <1>2, <1>3, <1>4, <1>5, <1>6, <1>7, <1>8, <1>12, <1>13, <1>14, <1>16, <1>17,
     <1>18, <1>20, <1>21, <1>22, <1>23, <1>24, <1>25, <1>26 DEF Next

LEMMA CpuInit == Init => CpuInv
<1> SUFFICES ASSUME Init PROVE CpuInv
  OBVIOUS
<1> USE TidFacts
<1>1. /\ sie /\ tp = MAIN_TID /\ hart = "run"
      /\ \A t \in Tid : ~user[t] /\ saved[t]
      /\ \A t \in Tid : pc[t] = IF t = MAIN_TID THEN "kern" ELSE "fresh"
  BY Zenon DEF Init
<1>2. ModeInv
  BY Zenon, <1>1 DEF ModeInv
<1>3. IntrInv
  BY Zenon, <1>1 DEF IntrInv
<1> QED BY Zenon, <1>2, <1>3 DEF CpuInv

(* Kernel code always runs with the interrupt state it left: enabled in      *)
(* kernel threads, disabled in system calls, for every number of threads and *)
(* through every wait, fork and exec.                                        *)
THEOREM InterruptsCorrect == Spec => []InterruptsRestored
<1>1. SchedInv /\ CpuInv => InterruptsRestored
  BY Zenon DEF SchedInv, TypeOK, CpuInv, IntrInv, InterruptsRestored
<1> QED BY SchedInit, SchedStep, FamInit, FamStep, CpuInit, CpuStep, <1>1, PTL DEF Spec

(* The idle thread never executes wfi while another thread is ready: the     *)
(* second test of the ready list, with interrupts disabled, closes the race. *)
THEOREM IdleCorrect == Spec => []NoSleepWhileReady
<1>1. SchedInv /\ CpuInv => NoSleepWhileReady
  BY Zenon DEF SchedInv, TypeOK, CpuInv, ModeInv, NoSleepWhileReady
<1> QED BY SchedInit, SchedStep, FamInit, FamStep, CpuInit, CpuStep, <1>1, PTL DEF Spec

-----------------------------------------------------------------------------
(* The wait for the disk.                                                    *)

(* NoLostCompletion is not inductive: it needs that the request is under     *)
(* vio_lock, so that one thread waits at most, and that interrupts stay      *)
(* disabled from the notification until the thread is on the wait list.      *)
DiskInv ==
  /\ \A t \in Tid : pc[t] = "used" =>
       /\ VIO_LOCK \in holds[t]
       /\ state[t] = "WAITING" <=> blk # "idle"
  /\ hart = "cwait" /\ pc[tp] = "used" => ~sie

LEMMA DiskStep ==
  ASSUME SchedInv, LockInv, FamInv, DiskInv, [Next]_vars
  PROVE  DiskInv'
<1> USE TidFacts, CondFacts
<1>0. /\ TypeOK /\ tp \in Tid
      /\ hart = "run" => state[tp] = "RUNNING"
  BY IdleReady, ZenonT(60) DEF SchedInv, TypeOK
<1>1. ASSUME blk' = "idle" <=> blk = "idle",
             \A t \in Tid : pc'[t] = "used" =>
               /\ pc[t] = "used" /\ holds[t] \subseteq holds'[t]
               /\ state'[t] = "WAITING" <=> state[t] = "WAITING",
             hart' = "cwait" /\ pc'[tp'] = "used" => hart = "cwait" /\ tp' = tp /\ ~sie'
      PROVE  DiskInv'
  BY Zenon, <1>1 DEF DiskInv
<1>2. CASE Quiet
  <2>1. CASE UNCHANGED <<pc, arg, holds, hart, sie>>
    BY Zenon, <1>1, <1>2, <2>1 DEF Quiet, DiskInv
  <2>2. CASE ~UNCHANGED <<pc, arg, holds, hart, sie>>
    <3>1. pc'[tp] # "used" /\ hart' # "cwait"
      BY Zenon, <1>2, <2>2 DEF Quiet
    <3> QED BY Zenon, <1>1, <1>2, <3>1 DEF Quiet
  <2> QED BY Zenon, <2>1, <2>2
<1>3. CASE Waits
  <2>1. CASE pc'[tp] # "used"
    BY Zenon, <1>1, <1>3, <2>1 DEF Waits
  <2>2. CASE pc'[tp] = "used"
    <3>1. /\ VIO_LOCK \in holds[tp] /\ holds' = holds /\ tp' = tp
          /\ state'[tp] = "WAITING" /\ blk' # "idle" /\ ~sie'
          /\ \A t \in Tid \ {tp} : pc'[t] = pc[t]
      BY Zenon, <1>3, <2>2 DEF Waits
    <3>2. \A t \in Tid \ {tp} : VIO_LOCK \notin holds[t]
      BY Zenon, <1>0, <3>1 DEF LockInv, MutualExclusion, Lock
    <3>3. \A t \in Tid \ {tp} : pc'[t] # "used"
      BY Zenon, <3>1, <3>2 DEF DiskInv
    <3> QED BY Zenon, <3>1, <3>3 DEF DiskInv
  <2> QED BY Zenon, <2>1, <2>2
<1>4. ASSUME NEW tid \in Tid, Recycles(tid) PROVE DiskInv'
  BY Zenon, <1>1, <1>4 DEF Recycles
<1>5. ASSUME NEW child \in Tid, NEW forks \in BOOLEAN, Creates(child, forks) PROVE DiskInv'
  <2>1. pc'[child] # "used" /\ pc'[tp] # "used" /\ hart' # "cwait"
    BY Zenon, <1>5 DEF Creates
  <2> QED BY Zenon, <1>1, <1>5, <2>1 DEF Creates
<1>6. ASSUME NEW c \in Cond, NEW exits \in BOOLEAN, Wakes(c, exits) PROVE DiskInv'
  <2>1. \A t \in Tid : pc'[t] = "used" => pc[t] = "used" /\ holds'[t] = holds[t]
    BY Zenon, <1>0, <1>6 DEF Wakes
  <2>2. \A t \in Elems(wait_list[c]) : state[t] = "WAITING" /\ wait_cond[t] = c
    BY Zenon DEF SchedInv, ListsExact
  <2>3. hart' = "cwait" => c = UsedUpdated /\ sie /\ hart = "cwait" /\ pc' = pc
    BY Zenon, <1>6 DEF Wakes
  <2>4. CASE c = UsedUpdated
    <3>1. ~(hart = "cwait" /\ pc[tp] = "used")
      BY Zenon, <1>6, <2>4 DEF Wakes, DiskInv, UsedUpdated, LockCond, ChildExit
    <3>2. \A t \in Tid : pc[t] = "used" /\ state[t] = "WAITING" => t \in Elems(wait_list[c])
      BY Zenon, <2>4, <3>1 DEF SchedInv, ListsExact, FamInv, WaitInv
    <3>3. \A t \in Tid : pc'[t] = "used" => state'[t] # "WAITING"
      BY Zenon, <1>6, <2>1, <2>4, <3>2 DEF Wakes
    <3>4. blk' = "idle" /\ tp' = tp
      BY Zenon, <1>6, <2>4 DEF Wakes
    <3> QED BY Zenon, <2>1, <2>3, <3>1, <3>3, <3>4 DEF DiskInv
  <2>5. CASE c # UsedUpdated
    <3>1. \A t \in Elems(wait_list[c]) \cap Tid : pc[t] # "used"
      BY Zenon, <2>2, <2>5 DEF FamInv, WaitInv
    <3>2. blk' = blk
      BY Zenon, <1>6, <2>5 DEF Wakes
    <3>3. \A t \in Tid : pc'[t] = "used" => state'[t] = state[t]
      BY Zenon, <1>0, <1>6, <2>1, <3>1 DEF Wakes
    <3> QED BY Zenon, <1>1, <2>1, <2>3, <2>5, <3>2, <3>3
  <2> QED BY Zenon, <2>4, <2>5
<1>7. CASE CondInsert
  BY Zenon, <1>1, <1>7 DEF CondInsert, lockVars, famVars
<1>8. CASE SuspendSelf
  <2>1. Head(ready_list) \in Tid /\ state[Head(ready_list)] = "READY"
    <3>1. ready_list # <<>> /\ ready_list \in Seq(Tid) /\ NoDup(ready_list)
      BY Zenon, <1>8 DEF SuspendSelf, SchedInv, SuspInv, TypeOK, ListsExact
    <3>2. Head(ready_list) \in Tid /\ Head(ready_list) \in Elems(ready_list)
      BY Zenon, <3>1, ListFacts
    <3> QED BY Zenon, <3>2 DEF SchedInv, ListsExact
  <2>2. /\ hart' = "swtch" /\ UNCHANGED <<pc, holds, blk>>
        /\ \A t \in Tid : state'[t] = "WAITING" <=> state[t] = "WAITING"
    BY <1>0, <1>8, <2>1 DEF SuspendSelf, lockVars, TypeOK
  <2> QED BY Zenon, <1>1, <2>2
<1>9. CASE Switch
  <2>1. /\ hart' = "run" /\ UNCHANGED <<state, holds, blk>>
        /\ \A t \in Tid : pc'[t] = "used" => pc[t] = "used"
    BY Zenon, <1>0, <1>9 DEF Switch, lockVars, schedVars, TypeOK
  <2> QED BY Zenon, <1>1, <2>1
<1> QED BY Zenon, StepShape, <1>2, <1>3, <1>4, <1>5, <1>6, <1>7, <1>8, <1>9

LEMMA DiskInit == Init => DiskInv
<1> SUFFICES ASSUME Init PROVE DiskInv
  OBVIOUS
<1> QED BY Zenon, TidFacts DEF Init, DiskInv

(* A thread that sleeps in operation_single_blk has a request in flight or   *)
(* an interrupt pending, and one that resumes there has its answer: the      *)
(* single condition_wait is enough, for every number of threads.             *)
THEOREM CompletionCorrect == Spec => []NoLostCompletion
<1>1. DiskInv => NoLostCompletion
  BY Zenon DEF DiskInv, NoLostCompletion
<1> QED
  BY SchedInit, SchedStep, LockInit, LockStep, FamInit, FamStep, DiskInit, DiskStep, <1>1,
     PTL DEF Spec
=============================================================================
