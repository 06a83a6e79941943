--------------------------- MODULE ThreadsProofs ----------------------------
(***************************************************************************)
(* Proofs about Threads, for every size of the thread table: the scheduler *)
(* and the sleep locks of lock.h (ThreadsWaits goes on with the operations *)
(* that block). The module has two parts.                                  *)
(*   1. Facts about lists of threads, the inductive invariant SchedInv of  *)
(*      the scheduler, that every step keeps the types, and what each      *)
(*      operation of thread.c does to the invariant.                       *)
(*   2. The theorems: the lists agree with the thread states, one thread   *)
(*      runs, suspend_self's assertions hold, lock_acquire excludes, and   *)
(*      no lock_release is lost on a sleeper.                              *)
(***************************************************************************)
EXTENDS Threads, TLAPS

-----------------------------------------------------------------------------
(* Facts about lists.                                                      *)

(* Lists, their heads and tails, what Append and \o do.                   *)
LEMMA ListLen ==
  ASSUME NEW S, NEW s \in Seq(S)
  PROVE  /\ Len(s) \in Nat /\ DOMAIN s = 1 .. Len(s) /\ s \in [1 .. Len(s) -> S]
         /\ s # <<>> <=> Len(s) # 0
         /\ <<>> \in Seq(S) /\ Len(<<>>) = 0
  OBVIOUS

LEMMA ListAppend ==
  ASSUME NEW S, NEW s \in Seq(S), NEW x \in S
  PROVE  LET t == Append(s, x)
         IN /\ t \in Seq(S) /\ t # <<>> /\ Len(t) = Len(s) + 1 /\ t[Len(s) + 1] = x
            /\ \A k \in 1 .. Len(s) : t[k] = s[k]
  OBVIOUS

LEMMA ListConcat ==
  ASSUME NEW S, NEW s \in Seq(S), NEW t \in Seq(S)
  PROVE  LET u == s \o t
         IN /\ u \in Seq(S) /\ Len(u) = Len(s) + Len(t)
            /\ \A k \in 1 .. Len(u) : u[k] = IF k <= Len(s) THEN s[k] ELSE t[k - Len(s)]
  OBVIOUS

LEMMA ListTail ==
  ASSUME NEW S, NEW s \in Seq(S), s # <<>>
  PROVE  /\ Head(s) \in S /\ Tail(s) \in Seq(S) /\ Len(Tail(s)) = Len(s) - 1
         /\ \A k \in 1 .. Len(Tail(s)) : Tail(s)[k] = s[k + 1]
  OBVIOUS

(* tlinsert adds one thread to a list. *)
LEMMA ElemsAppend ==
  \A S : \A s \in Seq(S), x \in S : Elems(Append(s, x)) = Elems(s) \cup {x}
<1> SUFFICES ASSUME NEW S, NEW s \in Seq(S), NEW x \in S
             PROVE  Elems(Append(s, x)) = Elems(s) \cup {x}
  BY Zenon
<1>1. /\ Len(s) \in Nat
      /\ Len(Append(s, x)) = Len(s) + 1
      /\ \A i \in 1 .. Len(s) : Append(s, x)[i] = s[i]
      /\ Append(s, x)[Len(s) + 1] = x
  BY ListAppend, ListLen
<1>2. \A i \in 1 .. Len(s) + 1 : i \in 1 .. Len(s) \/ i = Len(s) + 1
  BY <1>1
<1> QED BY <1>1, <1>2 DEF Elems

(* tlinsert keeps a list free of duplicates if the thread is new to it. *)
LEMMA NoDupAppend ==
  \A S : \A s \in Seq(S), x \in S :
    NoDup(s) /\ x \notin Elems(s) => NoDup(Append(s, x))
<1> SUFFICES ASSUME NEW S, NEW s \in Seq(S), NEW x \in S,
                    NoDup(s), x \notin Elems(s)
             PROVE  NoDup(Append(s, x))
  BY Zenon
<1>1. /\ Len(s) \in Nat
      /\ Len(Append(s, x)) = Len(s) + 1
      /\ \A i \in 1 .. Len(s) : Append(s, x)[i] = s[i]
      /\ Append(s, x)[Len(s) + 1] = x
  BY ListAppend, ListLen
<1>2. \A i \in 1 .. Len(s) + 1 : i \in 1 .. Len(s) \/ i = Len(s) + 1
  BY <1>1
<1> QED BY Zenon, <1>1, <1>2 DEF Elems, NoDup

(* tlappend moves every thread of the second list behind the first. *)
LEMMA ElemsConcat ==
  \A S : \A s, u \in Seq(S) : Elems(s \o u) = Elems(s) \cup Elems(u)
<1> SUFFICES ASSUME NEW S, NEW s \in Seq(S), NEW u \in Seq(S)
             PROVE  Elems(s \o u) = Elems(s) \cup Elems(u)
  BY Zenon
<1>1. /\ Len(s) \in Nat /\ Len(u) \in Nat
      /\ Len(s \o u) = Len(s) + Len(u)
      /\ \A i \in 1 .. Len(s) + Len(u) :
           (s \o u)[i] = IF i <= Len(s) THEN s[i] ELSE u[i - Len(s)]
  BY ListConcat, ListLen
<1>2. Elems(s \o u) \subseteq Elems(s) \cup Elems(u)
  BY <1>1 DEF Elems
<1>3. \A i \in 1 .. Len(s) : i \in 1 .. Len(s) + Len(u) /\ (s \o u)[i] = s[i]
  BY <1>1
<1>4. \A i \in 1 .. Len(u) : /\ Len(s) + i \in 1 .. Len(s) + Len(u)
                             /\ (s \o u)[Len(s) + i] = u[i]
  BY <1>1
<1>5. Elems(s) \subseteq Elems(s \o u)
  BY Zenon, <1>1, <1>3 DEF Elems
<1>6. Elems(u) \subseteq Elems(s \o u)
  BY <1>1, <1>4 DEF Elems
<1> QED BY Zenon, <1>2, <1>5, <1>6

(* tlappend of disjoint lists makes no duplicate. *)
LEMMA NoDupConcat ==
  \A S : \A s, u \in Seq(S) :
    NoDup(s) /\ NoDup(u) /\ Elems(s) \cap Elems(u) = {} => NoDup(s \o u)
<1> SUFFICES ASSUME NEW S, NEW s \in Seq(S), NEW u \in Seq(S),
                    NoDup(s), NoDup(u), Elems(s) \cap Elems(u) = {},
                    NEW i \in 1 .. Len(s \o u), NEW j \in 1 .. Len(s \o u),
                    (s \o u)[i] = (s \o u)[j]
             PROVE  i = j
  BY Zenon DEF NoDup
<1>1. /\ Len(s) \in Nat /\ Len(u) \in Nat
      /\ Len(s \o u) = Len(s) + Len(u)
      /\ \A k \in 1 .. Len(s) + Len(u) :
           (s \o u)[k] = IF k <= Len(s) THEN s[k] ELSE u[k - Len(s)]
  BY ListConcat, ListLen
<1>2. \A k \in 1 .. Len(s), m \in 1 .. Len(u) : s[k] # u[m]
  BY Zenon DEF Elems
<1>3. CASE i <= Len(s) /\ j <= Len(s)
  BY <1>1, <1>3 DEF NoDup
<1>4. CASE i > Len(s) /\ j > Len(s)
  <2>1. i - Len(s) \in 1 .. Len(u) /\ j - Len(s) \in 1 .. Len(u)
    BY <1>1, <1>4
  <2>2. u[i - Len(s)] = u[j - Len(s)]
    BY <1>1, <1>4
  <2>3. i - Len(s) = j - Len(s)
    BY Zenon, <2>1, <2>2 DEF NoDup
  <2> QED BY <1>1, <2>3
<1>5. CASE i <= Len(s) /\ j > Len(s)
  BY <1>1, <1>2, <1>5
<1>6. CASE i > Len(s) /\ j <= Len(s)
  BY <1>1, <1>2, <1>6
<1> QED BY <1>1, <1>3, <1>4, <1>5, <1>6

(* tlremove takes exactly the head off a list without duplicates. *)
LEMMA TakeHead ==
  \A S : \A s \in Seq(S) : s # <<>> /\ NoDup(s) =>
    /\ Head(s) \in S /\ Head(s) \in Elems(s)
    /\ Tail(s) \in Seq(S)
    /\ Elems(Tail(s)) = Elems(s) \ {Head(s)}
    /\ NoDup(Tail(s))
<1> SUFFICES ASSUME NEW S, NEW s \in Seq(S), s # <<>>, NoDup(s)
             PROVE  /\ Head(s) \in S /\ Head(s) \in Elems(s)
                    /\ Tail(s) \in Seq(S)
                    /\ Elems(Tail(s)) = Elems(s) \ {Head(s)}
                    /\ NoDup(Tail(s))
  BY Zenon
<1>1. /\ Len(s) \in Nat \ {0}
      /\ Head(s) \in S
      /\ Tail(s) \in Seq(S)
      /\ Len(Tail(s)) = Len(s) - 1
      /\ \A i \in 1 .. Len(s) - 1 : Tail(s)[i] = s[i + 1]
  BY Zenon, ListTail, ListLen
<1>2. Head(s) = s[1]
  OBVIOUS
<1>3. Head(s) \in Elems(s)
  BY <1>1, <1>2 DEF Elems
<1>4. \A i \in 1 .. Len(s) - 1 : i + 1 \in 1 .. Len(s) /\ i + 1 # 1
  BY <1>1
<1>5. Elems(Tail(s)) \subseteq Elems(s) \ {Head(s)}
  BY <1>1, <1>2, <1>4 DEF Elems, NoDup
<1>6. ASSUME NEW x \in Elems(s), x # Head(s) PROVE x \in Elems(Tail(s))
  <2>1. PICK i \in 1 .. Len(s) : x = s[i]
    BY Zenon DEF Elems
  <2>2. i # 1 /\ i - 1 \in 1 .. Len(s) - 1
    BY <1>1, <1>2, <1>6, <2>1
  <2>3. Tail(s)[i - 1] = x
    BY <1>1, <2>1, <2>2
  <2> QED BY <1>1, <2>2, <2>3, ZenonT(60) DEF Elems
<1>7. NoDup(Tail(s))
  BY <1>1, <1>4 DEF NoDup
<1> QED BY Zenon, <1>1, <1>3, <1>5, <1>6, <1>7

(* tlempty: a list is empty exactly when no thread is on it. *)
LEMMA EmptyElems ==
  /\ Elems(<<>>) = {} /\ NoDup(<<>>)
  /\ \A S : \A s \in Seq(S) : s # <<>> <=> Elems(s) # {}
<1>1. Elems(<<>>) = {} /\ NoDup(<<>>)
  BY DEF Elems, NoDup
<1>2. ASSUME NEW S, NEW s \in Seq(S), s # <<>> PROVE Elems(s) # {}
  <2>1. Len(s) \in Nat \ {0}
    BY Zenon, <1>2, ListLen
  <2>2. s[1] \in Elems(s)
    BY <2>1 DEF Elems
  <2> QED BY Zenon, <2>2
<1> QED BY Zenon, <1>1, <1>2

(* A list holds threads. *)
LEMMA ElemsType ==
  \A S : \A s \in Seq(S) : Elems(s) \subseteq S
BY DEF Elems

(* The head of a nonempty list stays the head when a list is appended. *)
LEMMA HeadConcat ==
  \A S : \A s, u \in Seq(S) : s # <<>> => s \o u # <<>> /\ Head(s \o u) = Head(s)
<1> SUFFICES ASSUME NEW S, NEW s \in Seq(S), NEW u \in Seq(S), s # <<>>
             PROVE  s \o u # <<>> /\ Head(s \o u) = Head(s)
  BY Zenon
<1>1. /\ Len(s) \in Nat \ {0} /\ Len(u) \in Nat
      /\ s \o u \in Seq(S)
      /\ Len(s \o u) = Len(s) + Len(u)
      /\ (s \o u)[1] = s[1]
  BY ListConcat, ListLen
<1> QED BY <1>1

-----------------------------------------------------------------------------
(* The inductive invariant. ListsExact and OneRunning are not inductive by  *)
(* themselves: suspend_self takes the head of the ready list unconditionally,*)
(* so the list must be nonempty and its head another thread, which rests on  *)
(* the idle thread never waiting or exiting; thread_exit reads the parent, so*)
(* every thread but main must have one; and create_thread empties the        *)
(* child_exit of a slot, so nobody may wait on it.                           *)

(* The idle thread is always runnable, and does nothing but yield and wfi. *)
IdleInv ==
  /\ state[IDLE_TID] \in {"READY", "RUNNING"}
  /\ pc[IDLE_TID] \in {"fresh", "kern", "yield", "idle", "wfi"}
  /\ ~user[IDLE_TID] /\ holds[IDLE_TID] = {}

(* Every thread but main has a parent in thrtab. *)
FamilyInv ==
  /\ state[MAIN_TID] \notin {"UNINITIALIZED", "EXITED"}
  /\ \A t \in Tid : state[t] # "UNINITIALIZED" /\ t # MAIN_TID =>
       parent[t] \in Tid /\ state[parent[t]] # "UNINITIALIZED"

(* A thread in thread_join waits for a child of its own, one in lock_acquire *)
(* for a lock; only t waits on the child_exit of t.                          *)
ArgInv ==
  \A t \in Tid :
    /\ pc[t] = "join" => /\ arg[t] \in Tid /\ parent[arg[t]] = t
                         /\ state[arg[t]] # "UNINITIALIZED"
    /\ pc[t] = "lock" => arg[t] \in Lock
    /\ \A x \in Tid : wait_cond[t] = ChildExit(x) => x = t

(* Inside condition_wait before tlinsert the thread is on no list, and at *)
(* the head of suspend_self another thread is next.                       *)
SuspInv ==
  /\ hart = "cwait" => /\ state[tp] = "WAITING" /\ wait_cond[tp] \in Cond
                       /\ pc[tp] \notin {"yield", "fork"}
                       /\ \A c \in Cond : tp \notin Elems(wait_list[c])
  /\ hart = "susp" => ready_list # <<>> /\ Head(ready_list) # tp

SchedInv ==
  TypeOK /\ ListsExact /\ OneRunning /\ IdleInv /\ FamilyInv /\ ArgInv /\ SuspInv

(* tlappend, for lists of threads. *)
LEMMA ConcatFacts ==
  ASSUME NEW s \in Seq(Tid), NEW u \in Seq(Tid), NoDup(s), NoDup(u),
         Elems(s) \cap Elems(u) = {}
  PROVE  /\ Elems(s \o u) = Elems(s) \cup Elems(u) /\ NoDup(s \o u)
         /\ s # <<>> => s \o u # <<>> /\ Head(s \o u) = Head(s)
<1>1. Elems(s \o u) = Elems(s) \cup Elems(u)
  BY ElemsConcat, SMT, Zenon
<1>2. NoDup(s \o u)
  BY NoDupConcat, SMT, Zenon
<1>3. s # <<>> => s \o u # <<>> /\ Head(s \o u) = Head(s)
  BY HeadConcat, SMT, Zenon
<1> QED BY Zenon, <1>1, <1>2, <1>3

(* tlinsert, for lists of threads. *)
LEMMA AppendFacts ==
  ASSUME NEW s \in Seq(Tid), NEW x \in Tid, NoDup(s), x \notin Elems(s)
  PROVE  Elems(Append(s, x)) = Elems(s) \cup {x} /\ NoDup(Append(s, x))
<1>1. Elems(Append(s, x)) = Elems(s) \cup {x}
  BY ElemsAppend, SMT, Zenon
<1>2. NoDup(Append(s, x))
  BY NoDupAppend, SMT, Zenon
<1> QED BY Zenon, <1>1, <1>2

(* The facts about lists, for lists of threads. *)
LEMMA ListFacts ==
  /\ \A s \in Seq(Tid) : /\ Elems(s) \subseteq Tid
                         /\ s # <<>> <=> Elems(s) # {}
  /\ Elems(<<>>) = {} /\ NoDup(<<>>) /\ <<>> \in Seq(Tid)
  /\ \A s \in Seq(Tid), x \in Tid :
       /\ Append(s, x) \in Seq(Tid)
       /\ Elems(Append(s, x)) = Elems(s) \cup {x}
       /\ NoDup(s) /\ x \notin Elems(s) => NoDup(Append(s, x))
  /\ \A s, u \in Seq(Tid) :
       /\ s \o u \in Seq(Tid)
       /\ Elems(s \o u) = Elems(s) \cup Elems(u)
       /\ NoDup(s) /\ NoDup(u) /\ Elems(s) \cap Elems(u) = {} => NoDup(s \o u)
       /\ s # <<>> => s \o u # <<>> /\ Head(s \o u) = Head(s)
  /\ \A s \in Seq(Tid) : s # <<>> /\ NoDup(s) =>
       /\ Head(s) \in Tid /\ Head(s) \in Elems(s)
       /\ Tail(s) \in Seq(Tid)
       /\ Elems(Tail(s)) = Elems(s) \ {Head(s)}
       /\ NoDup(Tail(s))
<1>1. \A s \in Seq(Tid) : Elems(s) \subseteq Tid /\ (s # <<>> <=> Elems(s) # {})
  BY ElemsType, EmptyElems, Zenon
<1>2. Elems(<<>>) = {} /\ NoDup(<<>>) /\ <<>> \in Seq(Tid)
  BY EmptyElems
<1>3. \A s \in Seq(Tid), x \in Tid :
        /\ Append(s, x) \in Seq(Tid)
        /\ Elems(Append(s, x)) = Elems(s) \cup {x}
        /\ NoDup(s) /\ x \notin Elems(s) => NoDup(Append(s, x))
  <2>1. \A s \in Seq(Tid), x \in Tid : Append(s, x) \in Seq(Tid)
    OBVIOUS
  <2> QED BY <2>1, ElemsAppend, NoDupAppend, ZenonT(30)
<1>4. \A s, u \in Seq(Tid) :
        /\ s \o u \in Seq(Tid)
        /\ Elems(s \o u) = Elems(s) \cup Elems(u)
        /\ NoDup(s) /\ NoDup(u) /\ Elems(s) \cap Elems(u) = {} => NoDup(s \o u)
        /\ s # <<>> => s \o u # <<>> /\ Head(s \o u) = Head(s)
  BY ElemsConcat, NoDupConcat, ListConcat, HeadConcat, ZenonT(60)
<1>5. \A s \in Seq(Tid) : s # <<>> /\ NoDup(s) =>
        /\ Head(s) \in Tid /\ Head(s) \in Elems(s)
        /\ Tail(s) \in Seq(Tid)
        /\ Elems(Tail(s)) = Elems(s) \ {Head(s)}
        /\ NoDup(Tail(s))
  BY TakeHead, Zenon
<1> QED BY <1>1, <1>2, <1>3, <1>4, <1>5, Zenon

(* Conditions are told apart by their kind and owner. *)
LEMMA CondFacts ==
  /\ \A t \in Tid : ChildExit(t) \in Cond
  /\ \A l \in Lock : LockCond(l) \in Cond
  /\ UsedUpdated \in Cond /\ NoCond \notin Cond
  /\ \A t, u \in Tid : ChildExit(t) = ChildExit(u) => t = u
  /\ \A t \in Tid, l \in Lock : ChildExit(t) # LockCond(l)
  /\ \A t \in Tid : ChildExit(t) # UsedUpdated /\ ChildExit(t) # NoCond
BY Zenon DEF Cond, ChildExit, LockCond, UsedUpdated, NoCond

(* The thread table has a slot for main and another for idle. *)
LEMMA TidFacts ==
  /\ MAIN_TID \in Tid /\ IDLE_TID \in Tid /\ MAIN_TID # IDLE_TID
  /\ NoTid \notin Tid /\ Tid \subseteq Nat
  /\ \A t \in 1 .. NTHR - 1 : t \in Tid /\ t # MAIN_TID
BY ConstantsAssumption DEF Tid, MAIN_TID, IDLE_TID, NoTid

(* The state main leaves after thread_init satisfies the invariant. *)
LEMMA SchedInit == Init => SchedInv
<1> SUFFICES ASSUME Init PROVE SchedInv
  BY Zenon
<1> USE TidFacts, CondFacts, ListFacts, ConstantsAssumption DEF Init
<1>1. TypeOK
  BY DEF TypeOK, ThreadState, PC, Lock, KFS_LOCK, VIO_LOCK, MAIN_TID, NoTid
<1>2. ListsExact
  <2>1. Elems(ready_list) = {IDLE_TID} /\ NoDup(ready_list)
    BY DEF Elems, NoDup
  <2> QED BY <2>1, ZenonT(60) DEF ListsExact
<1>3. OneRunning
  BY Zenon DEF OneRunning
<1>4. IdleInv /\ FamilyInv /\ ArgInv /\ SuspInv
  BY Zenon DEF IdleInv, FamilyInv, ArgInv, SuspInv
<1> QED BY Zenon, <1>1, <1>2, <1>3, <1>4 DEF SchedInv

(* create_thread and thread_join_any scan thrtab upwards: the slot they stop *)
(* at satisfies the test.                                                    *)
LEMMA LeastOf ==
  ASSUME NEW S \in SUBSET Nat, NEW R,
         \E x \in S : \A y \in S : ~ (<<y, x>> \in R),
         \A x, y \in Nat : <<x, y>> \in R <=> x < y
  PROVE  \E x \in S : \A y \in S : x <= y
<1>3. PICK x \in S : \A y \in S : ~ (<<y, x>> \in R)
  BY Zenon
<1>4. ASSUME NEW y \in S PROVE x <= y
  <2>1. x \in Nat /\ y \in Nat BY Zenon
  <2>2. ~ (y < x) BY <1>3, <2>1, ZenonT(60)
  <2> QED BY <2>1, <2>2
<1> QED BY Zenon, <1>4

LOCAL INSTANCE WellFoundedInduction

(* The slot found by a scan is one of the slots that satisfy its test. *)
LEMMA LeastIn ==
  ASSUME NEW S \in SUBSET Nat, S # {}
  PROVE  Least(S) \in S /\ \A y \in S : Least(S) <= y
<1> DEFINE R == OpToRel(<, Nat)
<1>1. IsWellFoundedOn(R, Nat)
  BY NatLessThanWellFounded, Zenon
<1>2. \E x \in S : \A y \in S : ~ (<<y, x>> \in R)
  BY <1>1, WFMin, Zenon
<1>3. \A x, y \in Nat : <<x, y>> \in R <=> x < y
  BY Zenon DEF OpToRel
<1> HIDE DEF R
<1>4. \E x \in S : \A y \in S : x <= y
  BY <1>2, <1>3, LeastOf, Zenon
<1> QED BY <1>4, Zenon DEF Least

-----------------------------------------------------------------------------
(* What the shared pieces of the actions do to the typed state. *)

(* condition_broadcast keeps the types of the scheduling state. *)
LEMMA BroadcastType ==
  ASSUME TypeOK, NEW c \in Cond, NEW st \in [Tid -> ThreadState],
         condition_broadcast(c, st)
  PROVE  /\ state' \in [Tid -> ThreadState]
         /\ wait_cond' \in [Tid -> Cond \cup {NoCond}]
         /\ ready_list' \in Seq(Tid)
         /\ wait_list' \in [Cond -> Seq(Tid)]
BY Zenon, ListFacts DEF TypeOK, condition_broadcast, ThreadState

(* condition_wait keeps the types of the scheduling state. *)
LEMMA WaitType ==
  ASSUME TypeOK, NEW c \in Cond, condition_wait(c)
  PROVE  /\ state' \in [Tid -> ThreadState]
         /\ wait_cond' \in [Tid -> Cond \cup {NoCond}]
         /\ ready_list' \in Seq(Tid)
         /\ wait_list' \in [Cond -> Seq(Tid)]
         /\ hart' \in {"run", "cwait", "susp", "swtch"}
BY Zenon DEF TypeOK, condition_wait, ThreadState

(* create_thread uses a free slot: not main, not idle, not the caller. *)
LEMMA ChildFacts ==
  ASSUME TypeOK, ~NoThread
  PROVE  /\ Least(FreeSlots) \in Tid /\ Least(FreeSlots) # MAIN_TID
         /\ state[Least(FreeSlots)] = "UNINITIALIZED"
         /\ free_pages - 1 \in Nat
<1>1. FreeSlots \in SUBSET Nat /\ FreeSlots # {}
  BY ConstantsAssumption DEF NoThread, FreeSlots
<1>2. Least(FreeSlots) \in FreeSlots
  BY Zenon, <1>1, LeastIn
<1>3. free_pages - 1 \in Nat
  BY DEF NoThread, TypeOK
<1> QED BY Zenon, <1>2, <1>3, TidFacts DEF FreeSlots

(* thread_join_any recycles an exited child. *)
LEMMA ExitedChildFacts ==
  ASSUME TypeOK, ExitedChildren(tp) # {}
  PROVE  /\ Least(ExitedChildren(tp)) \in Tid
         /\ state[Least(ExitedChildren(tp))] = "EXITED"
         /\ parent[Least(ExitedChildren(tp))] = tp
<1>1. ExitedChildren(tp) \in SUBSET Nat
  BY ConstantsAssumption DEF ExitedChildren, Children
<1>2. Least(ExitedChildren(tp)) \in ExitedChildren(tp)
  BY Zenon, <1>1, LeastIn
<1> QED BY Zenon, <1>2, TidFacts DEF ExitedChildren, Children

(* recycle_thread keeps the types. *)
LEMMA RecycleType ==
  ASSUME TypeOK, NEW tid \in Tid, recycle_thread(tid)
  PROVE  /\ state' \in [Tid -> ThreadState]
         /\ parent' \in [Tid -> Tid \cup {NoTid}]
         /\ pc' \in [Tid -> PC] /\ arg' \in [Tid -> Tid \cup Lock]
         /\ stack' \in [Tid -> BOOLEAN]
         /\ UNCHANGED <<wait_cond, ready_list, wait_list, user, free_pages, hart>>
<1>1. 0 \in Tid
  BY Zenon, TidFacts DEF MAIN_TID
<1>2. pc' \in [Tid -> PC] /\ arg' \in [Tid -> Tid \cup Lock]
  BY Zenon, <1>1 DEF TypeOK, recycle_thread, PC
<1>3. parent' \in [Tid -> Tid \cup {NoTid}]
  BY Zenon DEF TypeOK, recycle_thread
<1>4. state' \in [Tid -> ThreadState] /\ stack' \in [Tid -> BOOLEAN]
  BY Zenon DEF TypeOK, recycle_thread, ThreadState
<1> QED BY Zenon, <1>2, <1>3, <1>4 DEF recycle_thread

(* Every step keeps the types. *)
LEMMA TypeStep ==
  ASSUME SchedInv, [Next]_vars
  PROVE  TypeOK'
<1> USE TidFacts, CondFacts DEF SchedInv
<1> 0 \in Tid /\ KFS_LOCK \in Lock /\ VIO_LOCK \in Lock
  BY Zenon DEF MAIN_TID, Lock
<1>1. CASE UNCHANGED vars
  BY <1>1, ZenonT(60) DEF vars, TypeOK
<1>2. CASE CondInsert
  <2>1. wait_list' \in [Cond -> Seq(Tid)]
    BY <1>2, ListFacts, ZenonT(60) DEF CondInsert, TypeOK
  <2> QED BY <1>2, <2>1, ZenonT(60)
             DEF CondInsert, TypeOK, famVars, intrVars, lockVars
<1>3. CASE SuspendSelf
  <2>1. /\ ready_list # <<>> /\ NoDup(ready_list) /\ ready_list \in Seq(Tid)
        /\ tp \in Tid
    BY Zenon, <1>3 DEF SuspendSelf, SuspInv, ListsExact, TypeOK
  <2>2. Head(ready_list) \in Tid /\ Tail(ready_list) \in Seq(Tid)
    BY Zenon, <2>1, ListFacts
  <2>3. ready_list' \in Seq(Tid)
    <3>1. \/ ready_list' = Append(Tail(ready_list), tp)
          \/ ready_list' = Tail(ready_list)
      BY <1>3, Zenon DEF SuspendSelf
    <3>2. Append(Tail(ready_list), tp) \in Seq(Tid)
      BY Zenon, <2>1, <2>2, ListFacts
    <3> QED BY Zenon, <2>2, <3>1, <3>2
  <2>4. state' \in [Tid -> ThreadState]
    BY <1>3, <2>2, ZenonT(60) DEF SuspendSelf, TypeOK, ThreadState
  <2> QED BY <1>3, <2>2, <2>3, <2>4, ZenonT(60)
          DEF SuspendSelf, TypeOK, famVars, lockVars
<1>4. CASE Switch
  <2>1. pc' \in [Tid -> PC]
    BY Zenon, <1>4 DEF Switch, TypeOK, PC
  <2>2. sie' \in BOOLEAN /\ saved' \in [Tid -> BOOLEAN]
    <3>1. saved' \in [Tid -> BOOLEAN]
      BY Zenon, <1>4 DEF Switch, TypeOK
    <3>2. sie' \in BOOLEAN
      BY <1>4, Zenon DEF Switch
    <3> QED BY Zenon, <3>1, <3>2
  <2>3. free_pages' \in Nat /\ stack' \in [Tid -> BOOLEAN]
    BY <1>4 DEF Switch, TypeOK, SwtchResult
  <2> QED BY <1>4, <2>1, <2>2, <2>3, ZenonT(60)
             DEF Switch, TypeOK, schedVars, lockVars
<1>5. ASSUME ~NoThread, NEW u \in BOOLEAN, NEW l \in PC, CreateThread(l, u)
      PROVE  /\ state' \in [Tid -> ThreadState]
             /\ parent' \in [Tid -> Tid \cup {NoTid}]
             /\ wait_cond' \in [Tid -> Cond \cup {NoCond}]
             /\ ready_list' \in Seq(Tid)
             /\ wait_list' \in [Cond -> Seq(Tid)]
             /\ user' \in [Tid -> BOOLEAN] /\ stack' \in [Tid -> BOOLEAN]
             /\ free_pages' \in Nat /\ pc' \in [Tid -> PC]
  <2> DEFINE child == Least(FreeSlots)
  <2>1. child \in Tid /\ free_pages - 1 \in Nat
    BY Zenon, <1>5, ChildFacts
  <2> HIDE DEF child
  <2>2. /\ state' \in [Tid -> ThreadState]
        /\ parent' \in [Tid -> Tid \cup {NoTid}]
        /\ wait_cond' \in [Tid -> Cond \cup {NoCond}]
    BY Zenon, <1>5, <2>1 DEF CreateThread, child, TypeOK, ThreadState
  <2>3. ready_list' \in Seq(Tid) /\ wait_list' \in [Cond -> Seq(Tid)]
    BY <1>5, <2>1, ListFacts, ZenonT(60) DEF CreateThread, child, TypeOK
  <2>4. /\ user' \in [Tid -> BOOLEAN] /\ stack' \in [Tid -> BOOLEAN]
        /\ free_pages' \in Nat
    BY Zenon, <1>5, <2>1 DEF CreateThread, child, TypeOK
  <2>5. pc' \in [Tid -> PC]
    BY <1>5, <2>1, ZenonT(60) DEF CreateThread, child, TypeOK, PC
  <2> QED BY Zenon, <2>2, <2>3, <2>4, <2>5
<1>6. CASE ThreadSpawn
  <2>1. /\ ~NoThread /\ FALSE \in BOOLEAN /\ "fresh" \in PC
        /\ CreateThread("fresh", FALSE)
    BY <1>6, ZenonT(60) DEF ThreadSpawn, PC
  <2> QED BY <1>5, <1>6, <2>1, ZenonT(60)
             DEF ThreadSpawn, TypeOK, intrVars, lockVars
<1>7. CASE ThreadFork
  <2>1. /\ ~NoThread /\ TRUE \in BOOLEAN /\ "forked" \in PC
        /\ CreateThread("forked", TRUE)
    BY <1>7, ZenonT(60) DEF ThreadFork, PC
  <2> QED BY <1>5, <1>7, <2>1, ZenonT(60)
             DEF ThreadFork, TypeOK, intrVars, lockVars
<1>8. CASE CreatePanics \/ MainExit \/ BlkComplete
  BY <1>8, ZenonT(60)
     DEF CreatePanics, MainExit, BlkComplete, Panic, TypeOK, schedVars,
              famVars, intrVars, lockVars
<1>9. CASE ThreadYield \/ IdleYield
  BY <1>9, ZenonT(60)
     DEF ThreadYield, IdleYield, TypeOK, PC, schedVars, famVars, intrVars,
              lockVars
<1>10. CASE ThreadExit
  <2>1. parent[tp] \in Tid
    BY Zenon, <1>10 DEF ThreadExit, At, FamilyInv, OneRunning, TypeOK
  <2>2. [state EXCEPT ![tp] = "EXITED"] \in [Tid -> ThreadState]
    BY Zenon DEF TypeOK, ThreadState
  <2>3. /\ state' \in [Tid -> ThreadState]
        /\ wait_cond' \in [Tid -> Cond \cup {NoCond}]
        /\ ready_list' \in Seq(Tid)
        /\ wait_list' \in [Cond -> Seq(Tid)]
    BY <1>10, <2>1, <2>2, BroadcastType, ZenonT(60) DEF ThreadExit
  <2> QED BY <1>10, <2>3, ZenonT(60)
             DEF ThreadExit, TypeOK, PC, famVars, intrVars, lockVars
<1>11. ASSUME NEW tid \in Tid, NEW l \in PC, WaitChild(l, tid)
       PROVE  /\ state' \in [Tid -> ThreadState]
              /\ wait_cond' \in [Tid -> Cond \cup {NoCond}]
              /\ ready_list' \in Seq(Tid)
              /\ wait_list' \in [Cond -> Seq(Tid)]
              /\ hart' \in {"run", "cwait", "susp", "swtch"}
              /\ pc' \in [Tid -> PC] /\ arg' \in [Tid -> Tid \cup Lock]
              /\ UNCHANGED famVars
  <2>1. ChildExit(tp) \in Cond
    BY Zenon DEF TypeOK
  <2> QED BY <1>11, <2>1, WaitType, ZenonT(60) DEF WaitChild, TypeOK
<1>12. CASE ThreadJoinAny \/ JoinAnyResume
  <2> USE DEF ThreadJoinAny, JoinAnyResume, intrVars, lockVars
  <2>1. CASE ExitedChildren(tp) # {} /\ recycle_thread(Least(ExitedChildren(tp)))
             /\ UNCHANGED halted
    BY <1>12, <2>1, ExitedChildFacts, RecycleType, ZenonT(60) DEF TypeOK
  <2>2. CASE halted' \in {"panic", "spurious"}
             /\ UNCHANGED <<schedVars, famVars, hart, pc, arg>>
    BY <1>12, <2>2, ZenonT(60) DEF TypeOK, schedVars, famVars
  <2>3. CASE WaitChild("join_any", 0) /\ UNCHANGED halted
    <3>1. "join_any" \in PC
      BY Zenon DEF PC
    <3> QED BY <1>11, <1>12, <2>3, <3>1, ZenonT(60) DEF TypeOK, famVars
  <2> QED BY Zenon, <1>12, <2>1, <2>2, <2>3
<1>13. ASSUME NEW tid \in Tid, JoinLoop(tid),
              UNCHANGED <<intrVars, lockVars, tp, next_thread, blk, halted>>
       PROVE  TypeOK'
  <2>1. CASE recycle_thread(tid)
    BY <1>13, <2>1, RecycleType, ZenonT(60) DEF TypeOK, intrVars, lockVars
  <2>2. CASE WaitChild("join", tid)
    <3>1. "join" \in PC
      BY Zenon DEF PC
    <3> QED BY <1>11, <1>13, <2>2, <3>1, ZenonT(60)
               DEF TypeOK, famVars, intrVars, lockVars
  <2> QED BY Zenon, <1>13, <2>1, <2>2 DEF JoinLoop
<1>14. ASSUME NEW tid \in Tid, ThreadJoin(tid) PROVE TypeOK'
  <2>1. CASE UNCHANGED <<schedVars, famVars, hart, pc, arg>>
    BY <1>14, <2>1, ZenonT(60)
       DEF ThreadJoin, TypeOK, schedVars, famVars, intrVars, lockVars
  <2> QED BY Zenon, <1>13, <1>14, <2>1 DEF ThreadJoin
<1>15. CASE JoinResume
  <2>1. arg[tp] \in Tid
    BY Zenon, <1>15 DEF JoinResume, At, ArgInv, TypeOK
  <2> QED BY <1>13, <1>15, <2>1, ZenonT(60) DEF JoinResume
<1>16. ASSUME NEW l \in Lock, LockLoop(l),
              UNCHANGED <<famVars, intrVars, tp, next_thread, blk, halted>>
       PROVE  TypeOK'
  <2>1. CASE lk[l] = -1
    <3>1. /\ lk' = [lk EXCEPT ![l] = tp]
          /\ holds' = [holds EXCEPT ![tp] = @ \cup {l}]
          /\ pc' = [pc EXCEPT ![tp] = "kern"]
          /\ arg' = [arg EXCEPT ![tp] = 0]
          /\ UNCHANGED <<schedVars, hart>>
      BY <1>16, <2>1, Zenon DEF LockLoop
    <3>2. lk' \in [Lock -> Tid \cup {-1}]
      BY Zenon, <3>1 DEF TypeOK
    <3>3. holds' \in [Tid -> SUBSET Lock]
      BY Zenon, <3>1 DEF TypeOK
    <3>4. pc' \in [Tid -> PC] /\ arg' \in [Tid -> Tid \cup Lock]
      BY Zenon, <3>1 DEF TypeOK, PC
    <3> QED BY <1>16, <3>1, <3>2, <3>3, <3>4, ZenonT(60)
            DEF TypeOK, schedVars, famVars, intrVars
  <2>2. CASE lk[l] # -1
    <3>1. /\ state' \in [Tid -> ThreadState]
          /\ wait_cond' \in [Tid -> Cond \cup {NoCond}]
          /\ ready_list' \in Seq(Tid)
          /\ wait_list' \in [Cond -> Seq(Tid)]
          /\ hart' \in {"run", "cwait", "susp", "swtch"}
      BY Zenon, <1>16, <2>2, WaitType DEF LockLoop
    <3>2. /\ pc' = [pc EXCEPT ![tp] = "lock"]
          /\ arg' = [arg EXCEPT ![tp] = l]
          /\ UNCHANGED lockVars
      BY <1>16, <2>2, Zenon DEF LockLoop
    <3>3. pc' \in [Tid -> PC] /\ arg' \in [Tid -> Tid \cup Lock]
      BY Zenon, <3>2 DEF TypeOK, PC
    <3> QED BY <1>16, <3>1, <3>2, <3>3, ZenonT(60)
               DEF TypeOK, famVars, intrVars, lockVars
  <2> QED BY Zenon, <2>1, <2>2
<1>17. ASSUME NEW l \in Lock, LockAcquire(l) PROVE TypeOK'
  BY Zenon, <1>16, <1>17 DEF LockAcquire
<1>18. CASE LockResume
  <2>1. arg[tp] \in Lock
    BY Zenon, <1>18 DEF LockResume, At, ArgInv, TypeOK
  <2> QED BY Zenon, <1>16, <1>18, <2>1 DEF LockResume
<1>19. ASSUME NEW l \in Lock, LockRelease(l) PROVE TypeOK'
  <2>1. state \in [Tid -> ThreadState] /\ LockCond(l) \in Cond
    BY Zenon DEF TypeOK
  <2>2. /\ state' \in [Tid -> ThreadState]
        /\ wait_cond' \in [Tid -> Cond \cup {NoCond}]
        /\ ready_list' \in Seq(Tid)
        /\ wait_list' \in [Cond -> Seq(Tid)]
    BY Zenon, <1>19, <2>1, BroadcastType DEF LockRelease
  <2> QED BY <1>19, <2>2, ZenonT(60) DEF LockRelease, TypeOK, famVars, intrVars
<1>20. CASE BlkOp
  <2>1. /\ state' \in [Tid -> ThreadState]
        /\ wait_cond' \in [Tid -> Cond \cup {NoCond}]
        /\ ready_list' \in Seq(Tid)
        /\ wait_list' \in [Cond -> Seq(Tid)]
        /\ hart' \in {"run", "cwait", "susp", "swtch"}
    BY <1>20, WaitType, ZenonT(60) DEF BlkOp
  <2> QED BY <1>20, <2>1, ZenonT(60) DEF BlkOp, TypeOK, PC, famVars, lockVars
<1>21. CASE BlkIntr \/ BlkIntrUser
  <2>1. state \in [Tid -> ThreadState]
    BY Zenon DEF TypeOK
  <2>2. /\ state' \in [Tid -> ThreadState]
        /\ wait_cond' \in [Tid -> Cond \cup {NoCond}]
        /\ ready_list' \in Seq(Tid)
        /\ wait_list' \in [Cond -> Seq(Tid)]
    BY Zenon, <1>21, <2>1, BroadcastType DEF BlkIntr, BlkIntrUser
  <2> QED BY <1>21, <2>2, ZenonT(60)
          DEF BlkIntr, BlkIntrUser, TypeOK, PC, famVars, intrVars, lockVars
<1>22. CASE BlkResume \/ Preempt \/ Ecall \/ Sret \/ ExecInit
  <2> USE DEF TypeOK, PC, schedVars, famVars, lockVars
  <2>1. CASE BlkResume BY <2>1, ZenonT(60) DEF BlkResume
  <2>2. CASE Preempt BY <2>2, ZenonT(60) DEF Preempt
  <2>3. CASE Ecall BY <2>3, ZenonT(60) DEF Ecall
  <2>4. CASE Sret BY <2>4, ZenonT(60) DEF Sret
  <2>5. CASE ExecInit BY <2>5, ZenonT(60) DEF ExecInit
  <2> QED BY <1>22, <2>1, <2>2, <2>3, <2>4, <2>5, ZenonT(60)
<1>23. CASE IdleEmpty \/ IdleCheck \/ IdleWake
  <2>1. ASSUME NEW l \in PC, NEW e \in BOOLEAN, IdleGoto(l, e) PROVE TypeOK'
    BY <2>1, ZenonT(60) DEF IdleGoto, TypeOK, schedVars, famVars, lockVars
  <2>2. /\ "idle" \in PC /\ "wfi" \in PC /\ "kern" \in PC
        /\ FALSE \in BOOLEAN /\ TRUE \in BOOLEAN
    BY Zenon DEF PC
  <2>3. \/ IdleGoto("idle", TRUE) \/ IdleGoto("wfi", FALSE)
        \/ IdleGoto("kern", TRUE)
    BY <1>23, ZenonT(60) DEF IdleEmpty, IdleCheck, IdleWake
  <2> QED BY <2>1, <2>2, <2>3, ZenonT(60)
<1>24. CASE Halted
  BY Zenon, <1>1, <1>24 DEF Halted
<1> QED
  BY Zenon, <1>1, <1>2, <1>3, <1>4, <1>6, <1>7, <1>8, <1>9, <1>10, <1>12, <1>14, <1>15,
     <1>17, <1>18, <1>19, <1>20, <1>21, <1>22, <1>23, <1>24 DEF Next
-----------------------------------------------------------------------------
(* What the shared pieces of the actions do to the lists. *)

(* condition_broadcast moves the waiters, and only them, to the ready list. *)
LEMMA BroadcastLists ==
  ASSUME TypeOK, ListsExact, TypeOK', NEW c \in Cond,
         NEW st \in [Tid -> ThreadState],
         \A t \in Tid : st[t] = state[t] \/ (state[t] = "RUNNING" /\ st[t] = "EXITED"),
         condition_broadcast(c, st), tp' = tp, hart' = "cwait" <=> hart = "cwait",
         hart = "cwait" => \A d \in Cond : tp \notin Elems(wait_list[d])
  PROVE  /\ ListsExact'
         /\ \A t \in Tid : state'[t] = "RUNNING" <=> st[t] = "RUNNING"
         /\ \A t \in Tid : state'[t] # st[t] => state'[t] = "READY" /\ st[t] = "WAITING"
         /\ \A t \in Tid : wait_cond'[t] \in {wait_cond[t], NoCond}
         /\ \A d \in Cond : Elems(wait_list'[d]) \subseteq Elems(wait_list[d])
         /\ ready_list # <<>> =>
              ready_list' # <<>> /\ Head(ready_list') = Head(ready_list)
         /\ hart = "cwait" => state'[tp] = st[tp] /\ wait_cond'[tp] = wait_cond[tp]
<1> DEFINE W == Elems(wait_list[c])
<1>1. /\ ready_list \in Seq(Tid) /\ wait_list[c] \in Seq(Tid)
      /\ NoDup(ready_list) /\ NoDup(wait_list[c])
      /\ \A d \in Cond : \A t \in Elems(wait_list[d]) :
           state[t] = "WAITING" /\ wait_cond[t] = d
      /\ \A t \in Tid : state[t] = "READY" <=> t \in Elems(ready_list)
  BY Zenon DEF TypeOK, ListsExact
<1>2. W \subseteq Tid /\ W \cap Elems(ready_list) = {}
  BY <1>1, ListFacts, ZenonT(60)
<1>3. /\ ready_list' = ready_list \o wait_list[c]
      /\ Elems(ready_list') = Elems(ready_list) \cup W
      /\ NoDup(ready_list')
      /\ ready_list # <<>> => ready_list' # <<>> /\ Head(ready_list') = Head(ready_list)
  <2>1. ready_list' = ready_list \o wait_list[c]
    BY Zenon DEF condition_broadcast
  <2>2. Elems(ready_list) \cap W = {}
    BY Zenon, <1>2
  <2>3. /\ ready_list \in Seq(Tid) /\ wait_list[c] \in Seq(Tid)
        /\ NoDup(ready_list) /\ NoDup(wait_list[c])
    BY <1>1, Zenon
  <2> HIDE DEF W
  <2>4. /\ Elems(ready_list \o wait_list[c]) = Elems(ready_list) \cup W
        /\ NoDup(ready_list \o wait_list[c])
        /\ ready_list # <<>> => /\ ready_list \o wait_list[c] # <<>>
                                /\ Head(ready_list \o wait_list[c]) = Head(ready_list)
    BY Zenon, <2>2, <2>3, ConcatFacts DEF W
  <2> QED BY <2>1, <2>4, Zenon
<1> HIDE DEF W
<1>4. /\ \A t \in Tid : state'[t] = IF t \in W THEN "READY" ELSE st[t]
      /\ \A t \in Tid : wait_cond'[t] = IF t \in W THEN NoCond ELSE wait_cond[t]
      /\ wait_list'[c] = <<>>
      /\ \A d \in Cond \ {c} : wait_list'[d] = wait_list[d]
  BY Zenon DEF condition_broadcast, TypeOK, W
<1>5. \A t \in W : state[t] = "WAITING" /\ st[t] = "WAITING" /\ wait_cond[t] = c
  BY <1>1, <1>2, ZenonT(60) DEF W
<1>6. \A t \in Tid : state'[t] = "READY" <=> t \in Elems(ready_list')
  BY Zenon, <1>1, <1>3, <1>4
<1>7. ASSUME NEW d \in Cond
      PROVE  /\ NoDup(wait_list'[d])
             /\ \A t \in Elems(wait_list'[d]) : state'[t] = "WAITING" /\ wait_cond'[t] = d
  <2>1. CASE d = c
    BY Zenon, <1>4, <2>1, EmptyElems
  <2>2. CASE d # c
    <3>1. NoDup(wait_list[d]) /\ wait_list[d] \in Seq(Tid)
      BY Zenon DEF ListsExact, TypeOK
    <3>2. \A t \in Elems(wait_list[d]) : t \in Tid /\ t \notin W /\ state[t] = "WAITING"
      <4>1. ASSUME NEW t \in Elems(wait_list[d])
            PROVE  t \in Tid /\ t \notin W /\ state[t] = "WAITING"
        <5>1. t \in Tid
          BY <3>1, ElemsType, SMT, Zenon
        <5>2. state[t] = "WAITING" /\ wait_cond[t] = d
          BY <1>1, <4>1, Zenon
        <5> QED BY <1>5, <2>2, <5>1, <5>2, Zenon
      <4> QED BY <4>1, Zenon
    <3> QED BY <1>1, <1>4, <2>2, <3>1, <3>2, SMTT(30)
  <2> QED BY Zenon, <2>1, <2>2
<1>8. ASSUME NEW t \in Tid, state'[t] = "WAITING"
      PROVE  \/ hart' = "cwait" /\ t = tp'
             \/ wait_cond'[t] \in Cond /\ t \in Elems(wait_list'[wait_cond'[t]])
  <2>1. t \notin W /\ state[t] = "WAITING" /\ wait_cond'[t] = wait_cond[t]
    BY Zenon, <1>4, <1>8
  <2>2. CASE hart = "cwait" /\ t = tp
    BY Zenon, <2>2
  <2>3. CASE wait_cond[t] \in Cond /\ t \in Elems(wait_list[wait_cond[t]])
    BY Zenon, <1>4, <2>1, <2>3 DEF W
  <2> QED BY Zenon, <2>1, <2>2, <2>3 DEF ListsExact
<1>9. ListsExact'
  BY Zenon, <1>3, <1>6, <1>7, <1>8 DEF ListsExact
<1>10. \A d \in Cond : Elems(wait_list'[d]) \subseteq Elems(wait_list[d])
  BY Zenon, <1>4, EmptyElems
<1>11. hart = "cwait" => tp \in Tid /\ tp \notin W
  BY Zenon DEF W, TypeOK
<1> QED BY <1>3, <1>4, <1>5, <1>9, <1>10, <1>11, ZenonT(60)
(* While another thread runs, the idle thread is ready; and the head of the *)
(* ready list is not the running thread.                                    *)
LEMMA IdleReady ==
  ASSUME SchedInv, hart = "run"
  PROVE  /\ state[tp] = "RUNNING" /\ tp \notin Elems(ready_list)
         /\ \A c \in Cond : tp \notin Elems(wait_list[c])
         /\ tp # IDLE_TID => ready_list # <<>>
         /\ ready_list # <<>> => Head(ready_list) # tp
<1> USE TidFacts DEF SchedInv
<1>1. state[tp] = "RUNNING" /\ tp \in Tid
  BY Zenon DEF OneRunning, TypeOK
<1>2. tp \notin Elems(ready_list) /\ \A c \in Cond : tp \notin Elems(wait_list[c])
  BY Zenon, <1>1 DEF ListsExact
<1>3. tp # IDLE_TID => state[IDLE_TID] = "READY"
  BY Zenon DEF OneRunning, IdleInv
<1>4. tp # IDLE_TID => IDLE_TID \in Elems(ready_list)
  BY Zenon, <1>3 DEF ListsExact
<1>5. ready_list \in Seq(Tid) /\ NoDup(ready_list)
  BY Zenon DEF TypeOK, ListsExact
<1> QED BY <1>1, <1>2, <1>4, <1>5, ListFacts

(* A step that touches no list keeps the invariant: the current thread goes *)
(* on in the kernel or in U mode, or calls thread_yield.                    *)
LEMMA QuietStep ==
  ASSUME SchedInv, TypeOK', UNCHANGED <<schedVars, parent, tp, next_thread>>,
         \A t \in Tid \ {tp} : pc'[t] = pc[t] /\ arg'[t] = arg[t],
         \/ hart' = hart /\ pc' = pc /\ arg' = arg
         \/ hart = "run" /\ hart' = "run" /\ pc'[tp] \notin {"join", "lock"}
         \/ hart = "run" /\ hart' = "susp" /\ pc'[tp] = "yield" /\ ready_list # <<>>,
         /\ pc'[IDLE_TID] \in {"fresh", "kern", "yield", "idle", "wfi"}
         /\ ~user'[IDLE_TID] /\ holds'[IDLE_TID] = {}
  PROVE  SchedInv'
<1> USE TidFacts DEF SchedInv, schedVars
<1>1. ListsExact'
  BY IdleReady, ZenonT(60) DEF ListsExact
<1>2. OneRunning'
  BY IdleReady, ZenonT(60) DEF OneRunning, TypeOK
<1>3. IdleInv' /\ FamilyInv'
  BY Zenon DEF IdleInv, FamilyInv
<1>4. ArgInv'
  BY SMTT(30) DEF ArgInv, TypeOK
<1>5. SuspInv'
  BY Zenon, IdleReady DEF SuspInv
<1> QED BY Zenon, <1>1, <1>2, <1>3, <1>4, <1>5

(* condition_wait by a thread other than idle keeps the invariant. *)
LEMMA WaitStep ==
  ASSUME SchedInv, TypeOK', hart = "run", tp # IDLE_TID,
         NEW c \in Cond, condition_wait(c),
         \A x \in Tid : c = ChildExit(x) => x = tp,
         NEW l \in {"join", "join_any", "lock", "used"},
         pc' = [pc EXCEPT ![tp] = l],
         \A t \in Tid \ {tp} : arg'[t] = arg[t],
         l = "join" => /\ arg'[tp] \in Tid /\ parent[arg'[tp]] = tp
                       /\ state[arg'[tp]] # "UNINITIALIZED",
         l = "lock" => arg'[tp] \in Lock,
         UNCHANGED <<parent, user, holds, tp, next_thread>>
  PROVE  SchedInv'
<1> USE TidFacts DEF SchedInv
<1>1. /\ tp \in Tid /\ hart' = "cwait"
      /\ state'[tp] = "WAITING" /\ wait_cond'[tp] = c
      /\ \A t \in Tid \ {tp} : state'[t] = state[t] /\ wait_cond'[t] = wait_cond[t]
      /\ ready_list' = ready_list /\ wait_list' = wait_list
      /\ pc'[tp] = l /\ \A t \in Tid \ {tp} : pc'[t] = pc[t]
  BY DEF condition_wait, TypeOK
<1>2. /\ state[tp] = "RUNNING" /\ tp \notin Elems(ready_list)
      /\ \A d \in Cond : tp \notin Elems(wait_list[d])
  BY Zenon, IdleReady
<1>3. ListsExact'
  <2>1. \A d \in Cond : \A t \in Elems(wait_list[d]) : t \in Tid \ {tp}
    <3>1. ASSUME NEW d \in Cond PROVE Elems(wait_list[d]) \subseteq Tid
      <4>1. wait_list[d] \in Seq(Tid)
        BY Zenon DEF TypeOK
      <4> QED BY <4>1, ElemsType, Zenon
    <3> QED BY <1>2, <3>1, Zenon
  <2>2. \A t \in Tid : state'[t] = "READY" <=> t \in Elems(ready_list)
    BY <1>1, <1>2, ZenonT(60) DEF ListsExact
  <2>3. ASSUME NEW d \in Cond, NEW t \in Elems(wait_list[d])
        PROVE  state'[t] = "WAITING" /\ wait_cond'[t] = d
    <3>1. t \in Tid \ {tp} /\ state[t] = "WAITING" /\ wait_cond[t] = d
      BY Zenon, <2>1 DEF ListsExact
    <3> QED BY Zenon, <1>1, <3>1
  <2>4. \A t \in Tid \ {tp} : state'[t] = "WAITING" =>
          wait_cond'[t] \in Cond /\ t \in Elems(wait_list[wait_cond'[t]])
    BY Zenon, <1>1 DEF ListsExact
  <2>5. NoDup(ready_list) /\ \A d \in Cond : NoDup(wait_list[d])
    BY Zenon DEF ListsExact
  <2> QED BY Zenon, <1>1, <2>2, <2>3, <2>4, <2>5 DEF ListsExact
<1>4. OneRunning'
  BY <1>1 DEF OneRunning
<1>5. IdleInv' /\ FamilyInv'
  BY <1>1, <1>2 DEF IdleInv, FamilyInv
<1>6. ArgInv'
  BY <1>1 DEF ArgInv
<1>7. SuspInv'
  BY Zenon, <1>1, <1>2 DEF SuspInv
<1> QED BY Zenon, <1>3, <1>4, <1>5, <1>6, <1>7

(* recycle_thread of an exited child keeps the invariant. *)
LEMMA RecycleStep ==
  ASSUME SchedInv, TypeOK', hart = "run", NEW tid \in Tid,
         state[tid] = "EXITED", parent[tid] = tp, recycle_thread(tid),
         UNCHANGED <<holds, tp, next_thread>>
  PROVE  SchedInv'
<1> USE TidFacts DEF SchedInv
<1>1. /\ tid # tp /\ tid # MAIN_TID /\ tid # IDLE_TID /\ tp \in Tid
      /\ state[tp] = "RUNNING"
  BY IdleReady, ZenonT(60) DEF FamilyInv, IdleInv, TypeOK
<1>2. /\ state'[tid] = "UNINITIALIZED"
      /\ \A t \in Tid \ {tid} : state'[t] = state[t]
      /\ pc'[tp] = "kern" /\ pc'[tid] = "fresh"
      /\ \A t \in Tid \ {tid, tp} : pc'[t] = pc[t]
      /\ \A t \in Tid \ {tp} : arg'[t] = arg[t]
      /\ UNCHANGED <<wait_cond, ready_list, wait_list, hart, user>>
  BY Zenon, <1>1 DEF recycle_thread, TypeOK
<1>3. ListsExact'
  <2>1. \A d \in Cond : \A t \in Elems(wait_list[d]) : t \in Tid
    BY Zenon, ListFacts DEF TypeOK
  <2>2. \A t \in Tid : /\ state'[t] = "READY" <=> state[t] = "READY"
                       /\ state'[t] = "WAITING" <=> state[t] = "WAITING"
    BY <1>2, ZenonT(60)
  <2>3. ready_list' = ready_list /\ wait_list' = wait_list /\ wait_cond' = wait_cond
    BY Zenon, <1>2
  <2>4. ASSUME NEW d \in Cond
        PROVE  /\ NoDup(wait_list'[d])
               /\ \A t \in Elems(wait_list'[d]) : state'[t] = "WAITING" /\ wait_cond'[t] = d
    <3>1. /\ NoDup(wait_list[d])
          /\ \A t \in Elems(wait_list[d]) : state[t] = "WAITING" /\ wait_cond[t] = d
      BY Zenon DEF ListsExact
    <3>2. \A t \in Elems(wait_list[d]) : state'[t] = "WAITING"
      BY <2>1, <2>2, <3>1, Zenon
    <3> QED BY <2>3, <3>1, <3>2, Zenon
  <2>5. ASSUME NEW t \in Tid, state'[t] = "WAITING"
        PROVE  wait_cond'[t] \in Cond /\ t \in Elems(wait_list'[wait_cond'[t]])
    <3>1. wait_cond[t] \in Cond /\ t \in Elems(wait_list[wait_cond[t]])
      BY <2>2, <2>5, ZenonT(60) DEF ListsExact
    <3> QED BY <2>3, <3>1, Zenon
  <2>6. NoDup(ready_list') /\ \A t \in Tid : state'[t] = "READY" <=> t \in Elems(ready_list')
    <3>1. NoDup(ready_list) /\ \A t \in Tid : state[t] = "READY" <=> t \in Elems(ready_list)
      BY Zenon DEF ListsExact
    <3> QED BY <2>2, <2>3, <3>1, Zenon
  <2> QED BY <2>4, <2>5, <2>6, Zenon DEF ListsExact
<1>4. OneRunning'
  BY Zenon, <1>1, <1>2 DEF OneRunning
<1>5. IdleInv'
  BY Zenon, <1>1, <1>2 DEF IdleInv
<1>6. FamilyInv'
  <2>1. ASSUME NEW t \in Tid, state'[t] # "UNINITIALIZED", t # MAIN_TID
        PROVE  parent'[t] \in Tid /\ state'[parent'[t]] # "UNINITIALIZED"
    <3>1. t # tid /\ state[t] # "UNINITIALIZED" /\ t \in 1 .. NTHR - 1
      BY <1>2, <2>1, ConstantsAssumption DEF Tid, MAIN_TID
    <3>2. parent'[t] = IF parent[t] = tid THEN tp ELSE parent[t]
      BY Zenon, <3>1 DEF recycle_thread, Children
    <3>3. parent[t] \in Tid /\ state[parent[t]] # "UNINITIALIZED"
      BY Zenon, <2>1, <3>1 DEF FamilyInv
    <3> QED BY <1>1, <1>2, <3>1, <3>2, <3>3
  <2> QED BY Zenon, <1>1, <1>2, <2>1 DEF FamilyInv
<1>7. ArgInv'
  <2>1. ASSUME NEW t \in Tid, pc'[t] = "join"
        PROVE  /\ arg'[t] \in Tid /\ parent'[arg'[t]] = t
               /\ state'[arg'[t]] # "UNINITIALIZED"
    <3>1. /\ t \notin {tid, tp} /\ arg'[t] = arg[t] /\ arg[t] \in Tid
          /\ parent[arg[t]] = t /\ state[arg[t]] # "UNINITIALIZED"
      BY <1>1, <1>2, <2>1 DEF ArgInv
    <3>2. arg[t] # tid /\ parent'[arg[t]] = t
      BY Zenon, <3>1 DEF recycle_thread, Children
    <3> QED BY <1>2, <3>1, <3>2, ZenonT(60)
  <2>2. ASSUME NEW t \in Tid
        PROVE  /\ pc'[t] = "lock" => arg'[t] \in Lock
               /\ \A x \in Tid : wait_cond'[t] = ChildExit(x) => x = t
    BY Zenon, <1>1, <1>2 DEF ArgInv
  <2> QED BY Zenon, <2>1, <2>2 DEF ArgInv
<1>8. SuspInv'
  BY Zenon, <1>2 DEF SuspInv
<1> QED BY Zenon, <1>3, <1>4, <1>5, <1>6, <1>7, <1>8
-----------------------------------------------------------------------------
(* The steps inside condition_wait and suspend_self. *)

(* tlinsert puts the WAITING thread on the list of its condition. *)
LEMMA CondInsertStep ==
  ASSUME SchedInv, TypeOK', CondInsert
  PROVE  SchedInv'
<1> USE TidFacts DEF SchedInv
<1> DEFINE c == wait_cond[tp]
<1>1. /\ hart = "cwait" /\ state[tp] = "WAITING" /\ c \in Cond /\ tp \in Tid
      /\ \A d \in Cond : tp \notin Elems(wait_list[d])
      /\ wait_list[c] \in Seq(Tid)
  BY Zenon DEF CondInsert, SuspInv, TypeOK
<1>2. /\ wait_list'[c] = Append(wait_list[c], tp)
      /\ \A d \in Cond \ {c} : wait_list'[d] = wait_list[d]
      /\ hart' = "susp"
      /\ UNCHANGED <<state, wait_cond, ready_list, parent, user, holds, tp, pc, arg>>
  BY Zenon, <1>1 DEF CondInsert, TypeOK, famVars, lockVars
<1>3. Elems(wait_list'[c]) = Elems(wait_list[c]) \cup {tp} /\ NoDup(wait_list'[c])
  <2>1. NoDup(wait_list[c])
    BY Zenon, <1>1 DEF ListsExact
  <2>2. wait_list[c] \in Seq(Tid) /\ tp \in Tid /\ tp \notin Elems(wait_list[c])
    BY <1>1, Zenon
  <2>3. /\ Elems(Append(wait_list[c], tp)) = Elems(wait_list[c]) \cup {tp}
        /\ NoDup(Append(wait_list[c], tp))
    BY <2>1, <2>2, AppendFacts, SMT, Zenon
  <2> QED BY <1>2, <2>3, Zenon
<1> HIDE DEF c
<1>4. ListsExact'
  <2>1. ASSUME NEW d \in Cond
        PROVE  /\ NoDup(wait_list'[d])
               /\ \A t \in Elems(wait_list'[d]) :
                    state'[t] = "WAITING" /\ wait_cond'[t] = d
    <3>1. CASE d = c
      <4>1. ASSUME NEW t \in Elems(wait_list'[c])
            PROVE  state'[t] = "WAITING" /\ wait_cond'[t] = c
        <5>1. t = tp \/ t \in Elems(wait_list[c])
          BY Zenon, <1>3
        <5>2. state[t] = "WAITING" /\ wait_cond[t] = c
          BY <1>1, <5>1, ZenonT(60) DEF ListsExact, c
        <5> QED BY Zenon, <1>2, <5>2
      <4> QED BY Zenon, <1>3, <3>1, <4>1
    <3>2. CASE d # c
      BY <1>2, <3>2 DEF ListsExact
    <3> QED BY Zenon, <3>1, <3>2
  <2>2. ASSUME NEW t \in Tid, state'[t] = "WAITING"
        PROVE  wait_cond'[t] \in Cond /\ t \in Elems(wait_list'[wait_cond'[t]])
    <3>1. CASE t = tp
      BY <1>1, <1>2, <1>3, <3>1, ZenonT(60) DEF c
    <3>2. CASE t # tp
      <4>1. wait_cond[t] \in Cond /\ t \in Elems(wait_list[wait_cond[t]])
        BY Zenon, <1>2, <2>2, <3>2 DEF ListsExact
      <4> QED BY <1>2, <1>3, <4>1, ZenonT(60)
    <3> QED BY Zenon, <3>1, <3>2
  <2>3. NoDup(ready_list) /\ \A t \in Tid : state[t] = "READY" <=> t \in Elems(ready_list)
    BY Zenon DEF ListsExact
  <2> QED BY <1>2, <2>1, <2>2, <2>3, ZenonT(60) DEF ListsExact
<1>5. pc[tp] \notin {"yield", "fork"}
  BY Zenon, <1>1 DEF SuspInv
<1>6. OneRunning'
  BY Zenon, <1>1, <1>2, <1>5 DEF OneRunning
<1>7. IdleInv' /\ FamilyInv' /\ ArgInv'
  <2>1. IdleInv' /\ FamilyInv'
    BY <1>2, ZenonT(60) DEF IdleInv, FamilyInv
  <2>2. ArgInv'
    BY <1>2, ZenonT(60) DEF ArgInv
  <2> QED BY Zenon, <2>1, <2>2
<1>8. SuspInv'
  <2>1. IDLE_TID \in Elems(ready_list) /\ tp \notin Elems(ready_list)
    BY Zenon, <1>1 DEF IdleInv, OneRunning, ListsExact
  <2>2. ready_list # <<>> /\ Head(ready_list) # tp
    BY <2>1, ListFacts DEF ListsExact, TypeOK
  <2> QED BY Zenon, <1>2, <2>2 DEF SuspInv
<1> QED BY Zenon, <1>4, <1>6, <1>7, <1>8
(* suspend_self takes the head and puts a thread that yields at the tail. *)
LEMMA SuspendStep ==
  ASSUME SchedInv, TypeOK', SuspendSelf
  PROVE  SchedInv'
<1> USE TidFacts DEF SchedInv
<1> DEFINE h == Head(ready_list)
           T == Tail(ready_list)
<1>1. /\ hart = "susp" /\ ready_list # <<>> /\ h # tp /\ tp \in Tid
      /\ ready_list \in Seq(Tid) /\ NoDup(ready_list)
  BY Zenon DEF SuspendSelf, SuspInv, TypeOK, ListsExact
<1>2. /\ h \in Tid /\ h \in Elems(ready_list)
      /\ T \in Seq(Tid) /\ NoDup(T) /\ Elems(T) = Elems(ready_list) \ {h}
  BY Zenon, <1>1, ListFacts
<1>3. state[h] = "READY" /\ \A t \in Tid : state[t] = "READY" <=> t \in Elems(ready_list)
  BY Zenon, <1>2 DEF ListsExact
<1>4. /\ hart' = "swtch" /\ next_thread' = h
      /\ UNCHANGED <<wait_cond, wait_list, parent, user, holds, tp, pc, arg>>
  BY Zenon DEF SuspendSelf, famVars, lockVars
<1>5. \A t \in Tid : state'[t] = IF t = h THEN "RUNNING"
                               ELSE IF t = tp /\ state[tp] = "RUNNING" THEN "READY"
                               ELSE state[t]
  BY <1>1, <1>2, ZenonT(60) DEF SuspendSelf, TypeOK
<1>6. Elems(ready_list') = {t \in Tid : state'[t] = "READY"} /\ NoDup(ready_list')
  <2>1. CASE state[tp] = "RUNNING"
    <3>1. ready_list' = Append(T, tp)
      BY Zenon, <1>1, <1>2, <2>1 DEF SuspendSelf, TypeOK
    <3>2. tp \notin Elems(T)
      BY Zenon, <1>1, <1>2, <1>3, <2>1
    <3>3. Elems(ready_list') = Elems(T) \cup {tp} /\ NoDup(ready_list')
      BY <1>1, <1>2, <3>1, <3>2, ListFacts, ZenonT(60)
    <3>4. Elems(ready_list) \subseteq Tid
      BY Zenon, <1>1, ListFacts
    <3> HIDE DEF h, T
    <3> QED BY <1>1, <1>2, <1>3, <1>5, <2>1, <3>3, <3>4, ZenonT(60)
  <2>2. CASE state[tp] # "RUNNING"
    <3>1. ready_list' = T
      BY Zenon, <1>1, <1>2, <2>2 DEF SuspendSelf, TypeOK
    <3>2. Elems(ready_list) \subseteq Tid
      BY <1>1, ListFacts
    <3> HIDE DEF h, T
    <3> QED BY <1>1, <1>2, <1>3, <1>5, <2>2, <3>1, <3>2, ZenonT(60)
  <2> QED BY Zenon, <2>1, <2>2
<1> HIDE DEF h, T
<1>7. ListsExact'
  <2>1. \A t \in Tid : state'[t] = "WAITING" <=> state[t] = "WAITING"
    BY Zenon, <1>3, <1>5
  <2>2. \A c \in Cond : Elems(wait_list[c]) \subseteq Tid
    BY Zenon, ListFacts DEF TypeOK
  <2>3. ASSUME NEW c \in Cond
        PROVE  /\ NoDup(wait_list[c])
               /\ \A t \in Elems(wait_list[c]) : state'[t] = "WAITING" /\ wait_cond[t] = c
    BY <2>1, <2>2, ZenonT(60) DEF ListsExact
  <2>4. ASSUME NEW t \in Tid, state'[t] = "WAITING"
        PROVE  wait_cond[t] \in Cond /\ t \in Elems(wait_list[wait_cond[t]])
    BY <1>1, <2>1, <2>4, ZenonT(60) DEF ListsExact
  <2> QED BY Zenon, <1>4, <1>6, <2>3, <2>4 DEF ListsExact
<1>8. OneRunning'
  <2>1. \A t \in Tid : state[t] = "RUNNING" => t = tp
    BY Zenon, <1>1 DEF OneRunning
  <2> QED BY Zenon, <1>1, <1>2, <1>4, <1>5, <2>1 DEF OneRunning
<1>9. IdleInv'
  BY Zenon, <1>4, <1>5 DEF IdleInv
<1>10. FamilyInv' /\ ArgInv'
  <2>1. \A t \in Tid : /\ state'[t] = "UNINITIALIZED" <=> state[t] = "UNINITIALIZED"
                       /\ state'[t] = "EXITED" => state[t] = "EXITED"
    BY Zenon, <1>3, <1>5
  <2>2. FamilyInv'
    BY <1>4, <2>1, ZenonT(60) DEF FamilyInv
  <2>3. ArgInv'
    BY <1>4, <2>1, ZenonT(60) DEF ArgInv
  <2> QED BY Zenon, <2>2, <2>3
<1>11. SuspInv'
  BY Zenon, <1>4 DEF SuspInv
<1> QED BY Zenon, <1>7, <1>8, <1>9, <1>10, <1>11

(* _thread_swtch makes the chosen thread the current one. *)
LEMMA SwitchStep ==
  ASSUME SchedInv, TypeOK', Switch
  PROVE  SchedInv'
<1> USE TidFacts DEF SchedInv
<1>1. /\ hart = "swtch" /\ hart' = "run" /\ tp' = next_thread
      /\ UNCHANGED <<state, wait_cond, ready_list, wait_list, parent, user, holds,
                     arg, next_thread>>
  BY Zenon DEF Switch, schedVars, lockVars
<1>2. \A t \in Tid : \/ pc'[t] = pc[t] /\ (t = next_thread => pc[t] # "fresh")
                     \/ pc'[t] = "user" /\ pc[t] = "forked"
                     \/ pc'[t] = "kern"
  BY DEF Switch, TypeOK
<1>3. ListsExact'
  BY <1>1, ZenonT(60) DEF ListsExact
<1>4. OneRunning'
  BY Zenon, <1>1 DEF OneRunning
<1>5. IdleInv' /\ FamilyInv'
  BY Zenon, <1>1, <1>2 DEF IdleInv, FamilyInv
<1>6. ArgInv'
  BY Zenon, <1>1, <1>2 DEF ArgInv
<1>7. SuspInv'
  BY Zenon, <1>1 DEF SuspInv
<1> QED BY Zenon, <1>3, <1>4, <1>5, <1>6, <1>7
-----------------------------------------------------------------------------
(* condition_broadcast keeps the invariant: from a service routine or a      *)
(* lock_release at any point, from thread_exit, or from an interrupt of U    *)
(* mode after which the thread yields.                                       *)
LEMMA BroadcastStep ==
  ASSUME SchedInv, TypeOK', NEW c \in Cond, NEW st \in [Tid -> ThreadState],
         condition_broadcast(c, st),
         \/ st = state /\ hart' = hart /\ pc' = pc
         \/ /\ hart = "run" /\ hart' = "susp" /\ tp # IDLE_TID
            /\ st = state /\ pc' = [pc EXCEPT ![tp] = "yield"]
         \/ /\ hart = "run" /\ hart' = "susp" /\ tp # IDLE_TID /\ tp # MAIN_TID
            /\ st = [state EXCEPT ![tp] = "EXITED"] /\ pc' = [pc EXCEPT ![tp] = "exit"],
         holds'[IDLE_TID] \subseteq holds[IDLE_TID],
         UNCHANGED <<parent, user, tp, next_thread, arg>>
  PROVE  SchedInv'
<1> USE TidFacts DEF SchedInv
<1>1. /\ tp \in Tid /\ pc \in [Tid -> PC] /\ state \in [Tid -> ThreadState]
      /\ hart = "run" => state[tp] = "RUNNING" /\ tp \notin Elems(ready_list)
      /\ hart = "run" /\ tp # IDLE_TID => ready_list # <<>> /\ Head(ready_list) # tp
  BY Zenon, IdleReady DEF TypeOK
<1>2. \A t \in Tid : st[t] = state[t] \/ (state[t] = "RUNNING" /\ st[t] = "EXITED")
  BY Zenon, <1>1
<1>3. /\ hart' = "cwait" <=> hart = "cwait"
      /\ hart = "cwait" => \A d \in Cond : tp \notin Elems(wait_list[d])
  BY Zenon DEF SuspInv
<1>4. /\ ListsExact'
      /\ \A t \in Tid : state'[t] = "RUNNING" <=> st[t] = "RUNNING"
      /\ \A t \in Tid : state'[t] # st[t] => state'[t] = "READY" /\ st[t] = "WAITING"
      /\ \A t \in Tid : wait_cond'[t] \in {wait_cond[t], NoCond}
      /\ \A d \in Cond : Elems(wait_list'[d]) \subseteq Elems(wait_list[d])
      /\ ready_list # <<>> =>
           ready_list' # <<>> /\ Head(ready_list') = Head(ready_list)
      /\ hart = "cwait" => state'[tp] = st[tp] /\ wait_cond'[tp] = wait_cond[tp]
  BY <1>2, <1>3, BroadcastLists, ZenonT(60)
<1>5. \A t \in Tid : /\ state'[t] = "UNINITIALIZED" <=> state[t] = "UNINITIALIZED"
                     /\ t = MAIN_TID /\ state'[t] = "EXITED" => state[t] = "EXITED"
  BY <1>1, <1>2, <1>4, ZenonT(60)
<1>6. \A t \in Tid : pc'[t] = pc[t] \/ (t = tp /\ t # IDLE_TID /\ pc'[t] \in {"yield", "exit"})
  BY Zenon, <1>1
<1>7. OneRunning'
  <2>1. CASE st = state /\ hart' = hart /\ pc' = pc
    BY Zenon, <1>4, <2>1 DEF OneRunning
  <2>2. CASE hart = "run" /\ hart' = "susp" /\ st = state /\ pc'[tp] = "yield"
    BY Zenon, <1>1, <1>4, <2>2 DEF OneRunning
  <2>3. CASE hart = "run" /\ hart' = "susp" /\ st = [state EXCEPT ![tp] = "EXITED"]
             /\ pc'[tp] = "exit"
    BY Zenon, <1>1, <1>4, <2>3 DEF OneRunning
  <2> QED BY Zenon, <1>1, <2>1, <2>2, <2>3
<1>8. IdleInv'
  <2>1. state'[IDLE_TID] \in {"READY", "RUNNING"}
    BY Zenon, <1>1, <1>4 DEF IdleInv
  <2> QED BY Zenon, <1>6, <2>1 DEF IdleInv
<1>9. FamilyInv'
  BY Zenon, <1>5 DEF FamilyInv
<1>10. ArgInv'
  <2>1. \A t, x \in Tid : wait_cond'[t] = ChildExit(x) => wait_cond[t] = ChildExit(x)
    BY Zenon, <1>4, CondFacts
  <2>2. \A t \in Tid : pc'[t] \in {"join", "lock"} => pc'[t] = pc[t]
    BY Zenon, <1>6
  <2>3. ASSUME NEW t \in Tid, pc[t] = "join"
        PROVE  /\ arg[t] \in Tid /\ parent[arg[t]] = t
               /\ state'[arg[t]] # "UNINITIALIZED"
    BY Zenon, <1>5, <2>3 DEF ArgInv
  <2>4. \A t \in Tid : /\ pc[t] = "lock" => arg[t] \in Lock
                       /\ \A x \in Tid : wait_cond[t] = ChildExit(x) => x = t
    BY Zenon DEF ArgInv
  <2>5. parent' = parent /\ arg' = arg
    BY Zenon
  <2> QED BY <2>1, <2>2, <2>3, <2>4, <2>5, ZenonT(60) DEF ArgInv
<1>11. SuspInv'
  BY <1>1, <1>3, <1>4, ZenonT(60) DEF SuspInv
<1> QED BY Zenon, <1>4, <1>7, <1>8, <1>9, <1>10, <1>11

(* create_thread keeps the invariant, for thread_spawn and for the fork,     *)
(* which goes on to yield.                                                   *)
LEMMA CreateStep ==
  ASSUME SchedInv, TypeOK', hart = "run", ~NoThread, tp # IDLE_TID,
         NEW u \in BOOLEAN, NEW l \in {"fresh", "forked"}, CreateThread(l, u),
         hart' = IF u THEN "susp" ELSE "run",
         pc[tp] = "kern", UNCHANGED <<holds, tp, next_thread, arg>>
  PROVE  SchedInv'
<1> USE TidFacts DEF SchedInv
<1> DEFINE child == Least(FreeSlots)
<1>1. /\ child \in Tid /\ child # MAIN_TID /\ state[child] = "UNINITIALIZED"
      /\ tp \in Tid /\ state[tp] = "RUNNING" /\ tp # child /\ child # IDLE_TID
      /\ tp \notin Elems(ready_list) /\ ready_list # <<>> /\ Head(ready_list) # tp
      /\ ready_list \in Seq(Tid)
  BY ChildFacts, IdleReady, ZenonT(60) DEF TypeOK, IdleInv
<1> HIDE DEF child
<1>2. /\ state'[child] = "READY"
      /\ \A t \in Tid \ {child} : state'[t] = state[t] /\ parent'[t] = parent[t]
                                    /\ user'[t] = user[t]
      /\ parent'[child] = tp
      /\ ready_list' = Append(ready_list, child) /\ wait_cond' = wait_cond
      /\ wait_list'[ChildExit(child)] = <<>>
      /\ \A c \in Cond \ {ChildExit(child)} : wait_list'[c] = wait_list[c]
  <2>1. /\ state' = [state EXCEPT ![child] = "READY"]
        /\ parent' = [parent EXCEPT ![child] = tp]
        /\ user' = [user EXCEPT ![child] = u]
        /\ ready_list' = Append(ready_list, child) /\ wait_cond' = wait_cond
        /\ wait_list' = [wait_list EXCEPT ![ChildExit(child)] = <<>>]
    BY Zenon DEF CreateThread, child
  <2>2. /\ state \in [Tid -> ThreadState] /\ parent \in [Tid -> Tid \cup {NoTid}]
        /\ user \in [Tid -> BOOLEAN] /\ wait_list \in [Cond -> Seq(Tid)]
    BY Zenon DEF TypeOK
  <2>3. ChildExit(child) \in Cond
    BY <1>1, CondFacts, Zenon
  <2>4. /\ wait_list'[ChildExit(child)] = <<>>
        /\ \A c \in Cond \ {ChildExit(child)} : wait_list'[c] = wait_list[c]
    BY <2>1, <2>2, <2>3, Zenon
  <2>5. /\ state'[child] = "READY" /\ parent'[child] = tp
        /\ \A t \in Tid \ {child} : state'[t] = state[t] /\ parent'[t] = parent[t]
                                      /\ user'[t] = user[t]
    BY <1>1, <2>1, <2>2, Zenon
  <2> QED BY <2>1, <2>4, <2>5, Zenon
<1>3. /\ pc'[child] = l /\ pc'[tp] = IF u THEN "fork" ELSE "kern"
      /\ \A t \in Tid \ {child, tp} : pc'[t] = pc[t]
  BY <1>1, ZenonT(60) DEF CreateThread, child, TypeOK
<1>4. child \notin Elems(ready_list)
  BY <1>1, ZenonT(60) DEF ListsExact
<1>5. /\ Elems(ready_list') = Elems(ready_list) \cup {child} /\ NoDup(ready_list')
      /\ ready_list' # <<>> /\ Head(ready_list') = Head(ready_list)
  <2>1. NoDup(ready_list)
    BY Zenon DEF ListsExact
  <2>2. Elems(ready_list') = Elems(ready_list) \cup {child} /\ NoDup(ready_list')
    BY Zenon, <1>1, <1>2, <1>4, <2>1, ListFacts
  <2>3. Len(ready_list) \in Nat /\ Len(ready_list) # 0
    BY Zenon, <1>1, ListLen
  <2>4. ready_list' # <<>> /\ Head(ready_list') = Head(ready_list)
    BY <1>1, <1>2, <2>3
  <2> QED BY Zenon, <2>2, <2>4
<1>6. \A c \in Cond : /\ Elems(wait_list[c]) \subseteq Tid \ {child}
                      /\ Elems(wait_list'[c]) = Elems(wait_list[c])
  <2>1. \A c \in Cond : Elems(wait_list[c]) \subseteq Tid \ {child}
    BY <1>1, ListFacts DEF ListsExact, TypeOK
  <2>2. \A t \in Elems(wait_list[ChildExit(child)]) : t = child
    <3>1. ChildExit(child) \in Cond
      BY <1>1, CondFacts, Zenon
    <3>2. ASSUME NEW t \in Elems(wait_list[ChildExit(child)]) PROVE t = child
      <4>1. t \in Tid
        BY <2>1, <3>1, Zenon
      <4>2. wait_cond[t] = ChildExit(child)
        BY <3>1, <3>2, Zenon DEF ListsExact
      <4> QED BY <1>1, <4>1, <4>2, Zenon DEF ArgInv
    <3> QED BY <3>2, Zenon
  <2>3. Elems(wait_list[ChildExit(child)]) = {}
    BY Zenon, <1>1, <2>1, <2>2, CondFacts
  <2> QED BY <1>2, <2>1, <2>3, EmptyElems, ZenonT(60)
<1>7. ListsExact'
  <2>1. \A t \in Tid : state'[t] = "READY" <=> t \in Elems(ready_list')
    BY <1>2, <1>5, ZenonT(60) DEF ListsExact
  <2>2. ASSUME NEW c \in Cond
        PROVE  /\ NoDup(wait_list'[c])
               /\ \A t \in Elems(wait_list'[c]) : state'[t] = "WAITING" /\ wait_cond'[t] = c
    <3>1. NoDup(wait_list'[c])
      <4>1. NoDup(wait_list[c]) /\ NoDup(<<>>)
        BY EmptyElems, Zenon DEF ListsExact
      <4>2. wait_list'[c] = <<>> \/ wait_list'[c] = wait_list[c]
        BY <1>2, SMT, Zenon
      <4> QED BY <4>1, <4>2, Zenon
    <3>2. ASSUME NEW t \in Elems(wait_list'[c])
          PROVE  state'[t] = "WAITING" /\ wait_cond'[t] = c
      <4>1. t \in Elems(wait_list[c]) /\ t \in Tid \ {child}
        BY Zenon, <1>6
      <4>2. state[t] = "WAITING" /\ wait_cond[t] = c
        BY Zenon, <4>1 DEF ListsExact
      <4> QED BY Zenon, <1>2, <4>1, <4>2
    <3> QED BY Zenon, <3>1, <3>2
  <2>3. ASSUME NEW t \in Tid, state'[t] = "WAITING"
        PROVE  wait_cond'[t] \in Cond /\ t \in Elems(wait_list'[wait_cond'[t]])
    <3>1. t # child /\ state[t] = "WAITING"
      BY <1>2, <2>3, ZenonT(60)
    <3>2. wait_cond[t] \in Cond /\ t \in Elems(wait_list[wait_cond[t]])
      BY Zenon, <3>1 DEF ListsExact
    <3> QED BY Zenon, <1>2, <1>6, <3>2
  <2> QED BY Zenon, <1>5, <2>1, <2>2, <2>3 DEF ListsExact
<1>8. OneRunning'
  BY <1>1, <1>2, <1>3 DEF OneRunning
<1>9. IdleInv'
  BY Zenon, <1>1, <1>2, <1>3 DEF IdleInv
<1>10. FamilyInv'
  BY <1>1, <1>2, ZenonT(60) DEF FamilyInv
<1>11. ArgInv'
  <2>1. ASSUME NEW t \in Tid, pc'[t] \in {"join", "lock"}
        PROVE  pc'[t] = pc[t] /\ arg'[t] = arg[t]
    BY Zenon, <1>1, <1>3, <2>1
  <2>2. ASSUME NEW t \in Tid, pc'[t] = "join"
        PROVE  /\ arg'[t] \in Tid /\ parent'[arg'[t]] = t
               /\ state'[arg'[t]] # "UNINITIALIZED"
    <3>1. /\ arg[t] \in Tid /\ parent[arg[t]] = t
          /\ state[arg[t]] # "UNINITIALIZED" /\ arg'[t] = arg[t]
      BY Zenon, <2>1, <2>2 DEF ArgInv
    <3>2. arg[t] # child
      BY Zenon, <1>1, <3>1
    <3> QED BY Zenon, <1>2, <3>1, <3>2
  <2>3. \A t \in Tid : /\ pc'[t] = "lock" => arg'[t] \in Lock
                       /\ \A x \in Tid : wait_cond'[t] = ChildExit(x) => x = t
    <3>1. ASSUME NEW t \in Tid, pc'[t] = "lock" PROVE arg'[t] \in Lock
      <4>1. pc[t] = "lock" /\ arg'[t] = arg[t]
        BY Zenon, <2>1, <3>1
      <4> QED BY <4>1, Zenon DEF ArgInv
    <3>2. ASSUME NEW t \in Tid, NEW x \in Tid, wait_cond'[t] = ChildExit(x)
          PROVE  x = t
      <4>1. wait_cond[t] = ChildExit(x)
        BY <1>2, <3>2, Zenon
      <4> QED BY <4>1, Zenon DEF ArgInv
    <3> QED BY Zenon, <3>1, <3>2
  <2> QED BY Zenon, <2>2, <2>3 DEF ArgInv
<1>12. SuspInv'
  BY <1>1, <1>5, ZenonT(60) DEF SuspInv
<1> QED BY Zenon, <1>7, <1>8, <1>9, <1>10, <1>11, <1>12

-----------------------------------------------------------------------------
(* Every step keeps the inductive invariant. *)
LEMMA SchedStep ==
  ASSUME SchedInv, [Next]_vars
  PROVE  SchedInv'
<1> TypeOK'
  BY Zenon, TypeStep
<1> USE TidFacts, CondFacts
<1>0. tp \in Tid /\ (hart = "run" => state[tp] = "RUNNING")
  BY IdleReady, ZenonT(60) DEF SchedInv, TypeOK
<1>1. CASE UNCHANGED vars
  BY Zenon, <1>1, QuietStep DEF vars, schedVars, SchedInv, IdleInv
<1>2. CASE CondInsert BY Zenon, <1>2, CondInsertStep
<1>3. CASE SuspendSelf BY Zenon, <1>3, SuspendStep
<1>4. CASE Switch BY <1>4, SwitchStep
<1>5. CASE ThreadSpawn
  BY <1>5, CreateStep, ZenonT(60) DEF ThreadSpawn, At, lockVars
<1>6. CASE ThreadFork
  <2>1. tp # IDLE_TID
    BY Zenon, <1>6 DEF ThreadFork, SchedInv, IdleInv
  <2> QED BY <1>6, <2>1, CreateStep, ZenonT(60) DEF ThreadFork, At, lockVars
<1>7. CASE CreatePanics \/ MainExit \/ BlkComplete
  <2>1. UNCHANGED <<schedVars, famVars, lockVars, tp, hart, next_thread, pc, arg>>
    BY Zenon, <1>7 DEF CreatePanics, MainExit, BlkComplete, Panic
  <2> QED BY Zenon, <2>1, QuietStep DEF famVars, lockVars, SchedInv, IdleInv
<1>8. CASE ThreadYield \/ IdleYield
  <2>1. /\ hart = "run" /\ hart' = "susp" /\ pc' = [pc EXCEPT ![tp] = "yield"]
        /\ UNCHANGED <<schedVars, famVars, lockVars, tp, next_thread, arg>>
        /\ ready_list # <<>>
    BY Zenon, <1>8, IdleReady DEF ThreadYield, IdleYield, At
  <2>2. pc \in [Tid -> PC]
    BY Zenon DEF SchedInv, TypeOK
  <2> QED BY Zenon, <1>0, <2>1, <2>2, QuietStep DEF famVars, lockVars, SchedInv, IdleInv
<1>9. CASE ThreadExit
  <2>1. /\ hart = "run" /\ ChildExit(parent[tp]) \in Cond
        /\ [state EXCEPT ![tp] = "EXITED"] \in [Tid -> ThreadState]
    BY <1>0, <1>9, ZenonT(60)
       DEF ThreadExit, At, SchedInv, FamilyInv, TypeOK, ThreadState
  <2> QED BY <1>9, <2>1, BroadcastStep, ZenonT(60)
             DEF ThreadExit, famVars, lockVars
<1>10. ASSUME hart = "run", tp # IDLE_TID, NEW l \in {"join", "join_any"},
              NEW tid \in Tid, WaitChild(l, tid),
              l = "join" => parent[tid] = tp /\ state[tid] # "UNINITIALIZED",
              UNCHANGED <<holds, tp, next_thread>>
       PROVE  SchedInv'
  <2>1. arg'[tp] = tid /\ \A t \in Tid \ {tp} : arg'[t] = arg[t]
    BY <1>0, <1>10 DEF WaitChild, SchedInv, TypeOK
  <2>2. ChildExit(tp) \in Cond /\ \A x \in Tid : ChildExit(tp) = ChildExit(x) => x = tp
    BY Zenon, <1>0
  <2>3. /\ condition_wait(ChildExit(tp)) /\ pc' = [pc EXCEPT ![tp] = l]
        /\ UNCHANGED <<parent, user, holds, tp, next_thread>>
    BY Zenon, <1>10 DEF WaitChild, famVars
  <2> QED BY <1>10, <2>1, <2>2, <2>3, WaitStep, ZenonT(60)
<1>11. CASE ThreadJoinAny \/ JoinAnyResume
  <2>1. /\ hart = "run" /\ tp # IDLE_TID /\ 0 \in Tid
        /\ UNCHANGED <<lockVars, tp, next_thread>>
    BY Zenon, <1>11 DEF ThreadJoinAny, JoinAnyResume, At, MayJoin, SchedInv, IdleInv, MAIN_TID
  <2>2. CASE ExitedChildren(tp) # {} /\ recycle_thread(Least(ExitedChildren(tp)))
    BY <2>1, <2>2, ExitedChildFacts, RecycleStep, ZenonT(60) DEF SchedInv, lockVars
  <2>3. CASE UNCHANGED <<schedVars, famVars, hart, pc, arg>>
    BY Zenon, <2>1, <2>3, QuietStep DEF famVars, lockVars, SchedInv, IdleInv
  <2>4. CASE WaitChild("join_any", 0)
    BY Zenon, <1>10, <2>1, <2>4 DEF lockVars
  <2> QED BY Zenon, <1>11, <2>2, <2>3, <2>4 DEF ThreadJoinAny, JoinAnyResume
<1>12. ASSUME hart = "run", tp # IDLE_TID, NEW tid \in Tid, parent[tid] = tp,
              state[tid] # "UNINITIALIZED", JoinLoop(tid),
              UNCHANGED <<lockVars, tp, next_thread>>
       PROVE  SchedInv'
  <2>1. CASE state[tid] = "EXITED" /\ recycle_thread(tid)
    BY Zenon, <1>12, <2>1, RecycleStep DEF lockVars
  <2>2. CASE WaitChild("join", tid)
    BY Zenon, <1>10, <1>12, <2>2 DEF lockVars
  <2> QED BY Zenon, <1>12, <2>1, <2>2 DEF JoinLoop
<1>13. ASSUME NEW tid \in Tid, ThreadJoin(tid) PROVE SchedInv'
  <2>1. /\ hart = "run" /\ tp # IDLE_TID /\ UNCHANGED <<lockVars, tp, next_thread>>
    BY Zenon, <1>13 DEF ThreadJoin, At, MayJoin
  <2>2. CASE UNCHANGED <<schedVars, famVars, hart, pc, arg>>
    BY Zenon, <2>1, <2>2, QuietStep DEF famVars, lockVars, SchedInv, IdleInv
  <2>3. CASE tid \in Children(tp) /\ JoinLoop(tid)
    BY Zenon, <1>12, <2>1, <2>3 DEF Children
  <2> QED BY Zenon, <1>13, <2>2, <2>3 DEF ThreadJoin
<1>14. CASE JoinResume
  <2>1. /\ hart = "run" /\ pc[tp] = "join" /\ tp # IDLE_TID /\ JoinLoop(arg[tp])
        /\ UNCHANGED <<lockVars, tp, next_thread>>
    BY Zenon, <1>14 DEF JoinResume, At, SchedInv, IdleInv
  <2>2. /\ arg[tp] \in Tid /\ parent[arg[tp]] = tp
        /\ state[arg[tp]] # "UNINITIALIZED"
    BY Zenon, <1>0, <2>1 DEF SchedInv, ArgInv
  <2> QED BY <1>12, <2>1, <2>2, ZenonT(60)
<1>15. ASSUME hart = "run", tp # IDLE_TID, NEW l \in Lock, LockLoop(l),
              UNCHANGED <<famVars, tp, next_thread>>
       PROVE  SchedInv'
  <2>1. pc \in [Tid -> PC] /\ holds \in [Tid -> SUBSET Lock] /\ arg \in [Tid -> Tid \cup Lock]
    BY ZenonT(60) DEF SchedInv, TypeOK
  <2>2. CASE lk[l] = -1
    <3>1. /\ holds' = [holds EXCEPT ![tp] = @ \cup {l}]
          /\ pc' = [pc EXCEPT ![tp] = "kern"] /\ arg' = [arg EXCEPT ![tp] = 0]
          /\ UNCHANGED <<schedVars, hart>>
      BY <1>15, <2>2, Zenon DEF LockLoop
    <3>2. /\ \A t \in Tid \ {tp} : pc'[t] = pc[t] /\ arg'[t] = arg[t]
          /\ pc'[tp] = "kern" /\ holds'[IDLE_TID] = holds[IDLE_TID]
      BY Zenon, <1>0, <1>15, <2>1, <3>1
    <3> QED BY Zenon, <1>0, <1>15, <3>1, <3>2, QuietStep DEF famVars, SchedInv, IdleInv
  <2>3. CASE lk[l] # -1
    <3>1. /\ condition_wait(LockCond(l)) /\ pc' = [pc EXCEPT ![tp] = "lock"]
          /\ arg' = [arg EXCEPT ![tp] = l] /\ UNCHANGED lockVars
      BY <1>15, <2>3, Zenon DEF LockLoop
    <3>2. arg'[tp] = l /\ \A t \in Tid \ {tp} : arg'[t] = arg[t]
      BY Zenon, <1>0, <2>1, <3>1
    <3> QED BY Zenon, <1>15, <3>1, <3>2, WaitStep DEF famVars, lockVars
  <2> QED BY Zenon, <2>2, <2>3
<1>16. ASSUME NEW l \in Lock, LockAcquire(l) PROVE SchedInv'
  BY Zenon, <1>15, <1>16 DEF LockAcquire, At
<1>17. CASE LockResume
  <2>1. /\ hart = "run" /\ pc[tp] = "lock" /\ tp # IDLE_TID /\ LockLoop(arg[tp])
        /\ UNCHANGED <<famVars, tp, next_thread>>
    BY Zenon, <1>17 DEF LockResume, At, SchedInv, IdleInv
  <2>2. arg[tp] \in Lock
    BY Zenon, <1>0, <2>1 DEF SchedInv, ArgInv
  <2> QED BY Zenon, <1>15, <2>1, <2>2
<1>18. ASSUME NEW l \in Lock, LockRelease(l) PROVE SchedInv'
  <2>1. /\ state \in [Tid -> ThreadState] /\ LockCond(l) \in Cond
        /\ holds'[IDLE_TID] \subseteq holds[IDLE_TID]
    BY Zenon, <1>18 DEF LockRelease, SchedInv, TypeOK
  <2> QED BY Zenon, <1>18, <2>1, BroadcastStep DEF LockRelease, famVars
<1>19. CASE BlkOp
  <2>1. /\ hart = "run" /\ tp # IDLE_TID /\ condition_wait(UsedUpdated)
        /\ pc' = [pc EXCEPT ![tp] = "used"]
        /\ UNCHANGED <<parent, user, holds, tp, next_thread, arg>>
    BY Zenon, <1>19 DEF BlkOp, At, famVars, lockVars, SchedInv, IdleInv
  <2> QED BY Zenon, <2>1, WaitStep
<1>20. CASE BlkIntr
  <2>1. state \in [Tid -> ThreadState]
    BY Zenon DEF SchedInv, TypeOK
  <2> QED BY Zenon, <1>20, <2>1, BroadcastStep DEF BlkIntr, famVars, lockVars
<1>21. CASE BlkIntrUser
  <2>1. state \in [Tid -> ThreadState] /\ hart = "run" /\ tp # IDLE_TID
    BY Zenon, <1>21 DEF BlkIntrUser, InUserMode, SchedInv, TypeOK, IdleInv
  <2> QED BY Zenon, <1>21, <2>1, BroadcastStep DEF BlkIntrUser, famVars, lockVars
<1>22. CASE Preempt
  <2>1. /\ hart = "run" /\ tp # IDLE_TID /\ hart' = "susp" /\ ready_list # <<>>
        /\ pc' = [pc EXCEPT ![tp] = "yield"] /\ pc \in [Tid -> PC]
        /\ UNCHANGED <<schedVars, famVars, lockVars, tp, next_thread, arg>>
    BY <1>22, IdleReady, ZenonT(60)
       DEF Preempt, InUserMode, SchedInv, TypeOK, IdleInv
  <2> QED BY Zenon, <1>0, <2>1, QuietStep DEF famVars, lockVars, SchedInv, IdleInv
<1>23. CASE BlkResume \/ Ecall \/ Sret \/ ExecInit
  <2>1. /\ hart = "run" /\ hart' = "run" /\ tp # IDLE_TID /\ pc \in [Tid -> PC]
        /\ \E l \in {"kern", "user"} : pc' = [pc EXCEPT ![tp] = l]
        /\ UNCHANGED <<schedVars, parent, lockVars, tp, next_thread, arg>>
    BY <1>23, ZenonT(60)
       DEF BlkResume, Ecall, Sret, ExecInit, At, famVars, SchedInv, TypeOK,
                 IdleInv
  <2>2. ~user'[IDLE_TID]
    BY <1>23, <2>1, ZenonT(60)
       DEF BlkResume, Ecall, Sret, ExecInit, famVars, SchedInv, TypeOK,
                       IdleInv
  <2> QED BY Zenon, <1>0, <2>1, <2>2, QuietStep DEF lockVars, SchedInv, IdleInv
<1>24. CASE IdleEmpty \/ IdleCheck \/ IdleWake
  <2>1. PICK l \in {"kern", "idle", "wfi"}, e \in BOOLEAN : hart = "run" /\ IdleGoto(l, e)
    BY <1>24, ZenonT(60) DEF IdleEmpty, IdleCheck, IdleWake, At
  <2>2. /\ hart' = "run" /\ pc' = [pc EXCEPT ![tp] = l] /\ pc \in [Tid -> PC]
        /\ UNCHANGED <<schedVars, famVars, lockVars, tp, next_thread, arg>>
    BY Zenon, <2>1 DEF IdleGoto, SchedInv, TypeOK
  <2> QED BY Zenon, <1>0, <2>1, <2>2, QuietStep DEF famVars, lockVars, SchedInv, IdleInv
<1>25. CASE Halted BY Zenon, <1>1, <1>25 DEF Halted
<1> QED
  BY Zenon, <1>1, <1>2, <1>3, <1>4, <1>5, <1>6, <1>7, <1>8, <1>9, <1>11, <1>13, <1>14,
     <1>16, <1>17, <1>18, <1>19, <1>20, <1>21, <1>22, <1>23, <1>24, <1>25 DEF Next

(* The scheduler is type correct for every thread table. *)
THEOREM TypeCorrect == Spec => []TypeOK
<1>1. SchedInv => TypeOK
  BY Zenon DEF SchedInv
<1> QED BY SchedInit, SchedStep, <1>1, PTL DEF Spec

(* For every thread table and any number of stack pages, every list agrees   *)
(* with the thread states and holds no thread twice, although service        *)
(* routines broadcast inside condition_wait and suspend_self.                *)
THEOREM ListsCorrect == Spec => []ListsExact
<1>1. SchedInv => ListsExact
  BY Zenon DEF SchedInv
<1> QED BY SchedInit, SchedStep, <1>1, PTL DEF Spec

(* At most one thread is RUNNING, and it is the one the hart executes. *)
THEOREM RunningCorrect == Spec => []OneRunning
<1>1. SchedInv => OneRunning
  BY Zenon DEF SchedInv
<1> QED BY SchedInit, SchedStep, <1>1, PTL DEF Spec

(* suspend_self always finds a ready thread: its assertions never fail.      *)
THEOREM SuspendCorrect == Spec => []SuspendAsserts
<1>1. SchedInv => SuspendAsserts
  BY Zenon, ListFacts DEF SchedInv, SuspInv, SuspendAsserts, ListsExact, TypeOK
<1> QED BY SchedInit, SchedStep, <1>1, PTL DEF Spec
-----------------------------------------------------------------------------
(* Sleep locks. MutualExclusion is inductive; NoLostUnlock is not, because a *)
(* thread tests lk->tid, restores interrupts and only then calls             *)
(* condition_wait: the invariant says the lock is still held while the       *)
(* thread is between its test and tlinsert.                                  *)
LockInv ==
  /\ MutualExclusion
  /\ \A l \in Lock : lk[l] # -1 => l \in holds[lk[l]]
  /\ \A l \in Lock : Elems(wait_list[LockCond(l)]) # {} => lk[l] # -1
  /\ \A l \in Lock : hart = "cwait" /\ wait_cond[tp] = LockCond(l) => lk[l] # -1

(* A step that takes and releases no lock and makes nobody wait for one. *)
LEMMA LockQuiet ==
  ASSUME LockInv, UNCHANGED lockVars,
         \A l \in Lock : \/ Elems(wait_list'[LockCond(l)])
                              \subseteq Elems(wait_list[LockCond(l)])
                         \/ hart = "cwait" /\ wait_cond[tp] = LockCond(l),
         \A l \in Lock : hart' = "cwait" /\ wait_cond'[tp'] = LockCond(l) =>
                           \/ hart = "cwait" /\ wait_cond[tp] = LockCond(l)
                           \/ lk[l] # -1
  PROVE  LockInv'
<1>1. UNCHANGED <<lk, holds>>
  BY Zenon DEF lockVars
<1>2. MutualExclusion' /\ \A l \in Lock : lk'[l] # -1 => l \in holds'[lk'[l]]
  BY Zenon, <1>1 DEF LockInv, MutualExclusion
<1>3. \A l \in Lock : Elems(wait_list'[LockCond(l)]) # {} => lk'[l] # -1
  BY Zenon, <1>1 DEF LockInv
<1>4. \A l \in Lock : hart' = "cwait" /\ wait_cond'[tp'] = LockCond(l) => lk'[l] # -1
  BY Zenon, <1>1 DEF LockInv
<1> QED BY Zenon, <1>2, <1>3, <1>4 DEF LockInv

(* condition_broadcast takes waiters off lists and adds none. *)
LEMMA BroadcastShrinks ==
  ASSUME TypeOK, NEW c \in Cond, NEW st, condition_broadcast(c, st)
  PROVE  /\ \A d \in Cond : Elems(wait_list'[d]) \subseteq Elems(wait_list[d])
         /\ Elems(wait_list'[c]) = {}
         /\ \A t \in Tid : wait_cond'[t] \in {wait_cond[t], NoCond}
<1>1. /\ wait_list'[c] = <<>>
      /\ \A d \in Cond \ {c} : wait_list'[d] = wait_list[d]
      /\ \A t \in Tid : wait_cond'[t] \in {wait_cond[t], NoCond}
  BY Zenon DEF condition_broadcast, TypeOK
<1> QED BY Zenon, <1>1, EmptyElems

(* Every step keeps the lock invariant. *)
LEMMA LockStep ==
  ASSUME SchedInv, LockInv, [Next]_vars
  PROVE  LockInv'
<1> USE TidFacts, CondFacts
<1>0. TypeOK /\ tp \in Tid
  BY Zenon DEF SchedInv, TypeOK
<1>a. \A l \in Lock : LockCond(l) # NoCond /\ LockCond(l) # UsedUpdated
  BY Zenon DEF LockCond, NoCond, UsedUpdated
<1>b. \A l, m \in Lock : LockCond(l) = LockCond(m) => l = m
  BY Zenon DEF LockCond
<1>1. ASSUME UNCHANGED <<lockVars, wait_list, tp>>,
             hart' # "cwait" \/ UNCHANGED <<hart, wait_cond>>
      PROVE  LockInv'
  BY Zenon, <1>1, LockQuiet
<1>2. CASE CondInsert
  <2>1. /\ hart = "cwait" /\ hart' = "susp" /\ UNCHANGED lockVars
        /\ \A d \in Cond : d # wait_cond[tp] => wait_list'[d] = wait_list[d]
    BY Zenon, <1>0, <1>2 DEF CondInsert, TypeOK
  <2> QED BY Zenon, <2>1, LockQuiet
<1>3. CASE SuspendSelf \/ Switch
  BY Zenon, <1>3, LockQuiet DEF SuspendSelf, Switch, schedVars
<1>4. CASE ThreadSpawn \/ ThreadFork
  <2>1. /\ hart = "run" /\ hart' # "cwait" /\ UNCHANGED lockVars /\ ~NoThread
        /\ wait_list' = [wait_list EXCEPT ![ChildExit(Least(FreeSlots))] = <<>>]
    BY Zenon, <1>4 DEF ThreadSpawn, ThreadFork, CreateThread, At
  <2>2. Least(FreeSlots) \in Tid
    BY Zenon, <1>0, <2>1, ChildFacts
  <2>3. \A l \in Lock : wait_list'[LockCond(l)] = wait_list[LockCond(l)]
    BY <1>0, <2>1, <2>2, ZenonT(60) DEF TypeOK
  <2> QED BY Zenon, <2>1, <2>3, LockQuiet
<1>5. CASE CreatePanics \/ MainExit \/ BlkComplete \/ UNCHANGED vars \/ Halted
  BY Zenon, <1>1, <1>5 DEF CreatePanics, MainExit, BlkComplete, Halted, Panic, schedVars,
                    lockVars, vars
<1>6. CASE \/ ThreadYield \/ IdleYield \/ BlkResume \/ Preempt \/ Ecall \/ Sret
           \/ ExecInit \/ IdleEmpty \/ IdleCheck \/ IdleWake
  <2>1. UNCHANGED <<lockVars, wait_list, tp>> /\ hart' # "cwait"
    BY Zenon, <1>6 DEF ThreadYield, IdleYield, BlkResume, Preempt, Ecall, Sret, ExecInit,
                IdleEmpty, IdleCheck, IdleWake, IdleGoto, At, schedVars
  <2> QED BY Zenon, <1>1, <2>1
<1>7. CASE ThreadExit \/ BlkIntr \/ BlkIntrUser
  <2>1. /\ UNCHANGED <<lockVars, tp>> /\ (hart' = "cwait" => hart = "cwait")
        /\ \E c \in Cond : \E st : condition_broadcast(c, st)
    <3>1. CASE ThreadExit
      <4>1. parent[tp] \in Tid
        BY Zenon, <1>0, <3>1, IdleReady DEF ThreadExit, At, SchedInv, FamilyInv
      <4> QED BY <3>1, <4>1, ZenonT(60) DEF ThreadExit
    <3>2. CASE BlkIntr BY Zenon, <3>2 DEF BlkIntr
    <3>3. CASE BlkIntrUser BY Zenon, <3>3 DEF BlkIntrUser
    <3> QED BY Zenon, <1>7, <3>1, <3>2, <3>3
  <2>2. /\ \A d \in Cond : Elems(wait_list'[d]) \subseteq Elems(wait_list[d])
        /\ wait_cond'[tp] \in {wait_cond[tp], NoCond}
    BY Zenon, <1>0, <2>1, BroadcastShrinks
  <2> QED BY Zenon, <1>a, <2>1, <2>2, LockQuiet
<1>8. ASSUME NEW c \in Cond, condition_wait(c), UNCHANGED <<lockVars, tp>>,
             \A l \in Lock : c = LockCond(l) => lk[l] # -1
      PROVE  LockInv'
  <2>1. wait_cond'[tp] = c /\ wait_list' = wait_list
    BY Zenon, <1>0, <1>8 DEF condition_wait, TypeOK
  <2> QED BY Zenon, <1>8, <2>1, LockQuiet
<1>9. ASSUME NEW tid, recycle_thread(tid), hart = "run", UNCHANGED <<lockVars, tp>>
      PROVE  LockInv'
  BY Zenon, <1>1, <1>9 DEF recycle_thread
<1>10. CASE \/ ThreadJoinAny \/ JoinAnyResume \/ JoinResume
            \/ \E tid \in Tid : ThreadJoin(tid)
  <2>1. hart = "run" /\ UNCHANGED <<lockVars, tp>>
    BY Zenon, <1>10 DEF ThreadJoinAny, JoinAnyResume, JoinResume, ThreadJoin, At
  <2>2. \/ \E tid : recycle_thread(tid)
        \/ UNCHANGED <<schedVars, famVars, hart, pc, arg>>
        \/ condition_wait(ChildExit(tp))
    BY Zenon, <1>10 DEF ThreadJoinAny, JoinAnyResume, JoinResume, ThreadJoin, JoinLoop,
                 WaitChild
  <2>3. CASE UNCHANGED <<schedVars, famVars, hart, pc, arg>>
    BY Zenon, <1>1, <2>1, <2>3 DEF schedVars
  <2>4. CASE condition_wait(ChildExit(tp))
    BY Zenon, <1>0, <1>8, <2>1, <2>4
  <2> QED BY Zenon, <1>9, <2>1, <2>2, <2>3, <2>4
<1>11. CASE BlkOp
  BY Zenon, <1>a, <1>8, <1>11 DEF BlkOp
<1>12. ASSUME NEW l \in Lock, hart = "run", LockLoop(l), tp' = tp
       PROVE  LockInv'
  <2>1. CASE lk[l] = -1
    <3>1. /\ lk' = [lk EXCEPT ![l] = tp]
          /\ holds' = [holds EXCEPT ![tp] = @ \cup {l}]
          /\ UNCHANGED <<schedVars, hart>>
      BY <1>12, <2>1, Zenon DEF LockLoop
    <3>2. /\ lk'[l] = tp /\ \A m \in Lock \ {l} : lk'[m] = lk[m]
          /\ holds'[tp] = holds[tp] \cup {l}
          /\ \A t \in Tid \ {tp} : holds'[t] = holds[t]
          /\ wait_list' = wait_list /\ hart' # "cwait" /\ tp # -1
      <4>1. /\ lk \in [Lock -> Tid \cup {-1}] /\ holds \in [Tid -> SUBSET Lock]
            /\ tp \in Tid
        BY Zenon, <1>0 DEF TypeOK
      <4>2. tp # -1
        BY <4>1, ConstantsAssumption DEF Tid
      <4>3. wait_list' = wait_list /\ hart' # "cwait"
        BY Zenon, <1>12, <3>1 DEF schedVars
      <4> QED BY Zenon, <3>1, <4>1, <4>2, <4>3
    <3>3. \A t \in Tid : l \notin holds[t]
      <4>1. \A t \in Tid : t # -1
        BY ConstantsAssumption DEF Tid
      <4> QED BY Zenon, <2>1, <4>1 DEF LockInv, MutualExclusion
    <3>4. MutualExclusion'
      <4>1. ASSUME NEW m \in Lock, NEW t \in Tid, m \in holds'[t] PROVE lk'[m] = t
        <5>1. CASE m = l
          BY Zenon, <3>2, <3>3, <4>1, <5>1
        <5>2. CASE m # l
          <6>1. m \in holds[t]
            BY Zenon, <3>2, <4>1, <5>2
          <6>2. lk[m] = t
            BY <6>1, Zenon DEF LockInv, MutualExclusion
          <6> QED BY Zenon, <3>2, <5>2, <6>2
        <5> QED BY Zenon, <5>1, <5>2
      <4> QED BY <4>1, Zenon DEF MutualExclusion
    <3>5. ASSUME NEW m \in Lock, lk'[m] # -1 PROVE m \in holds'[lk'[m]]
      <4>1. CASE m = l
        BY Zenon, <1>0, <3>2, <4>1
      <4>2. CASE m # l
        <5>1. lk[m] # -1 /\ lk[m] \in Tid /\ m \in holds[lk[m]]
          BY Zenon, <1>0, <3>2, <3>5, <4>2 DEF LockInv, TypeOK
        <5> QED BY <3>2, <4>2, <5>1, ZenonT(60)
      <4> QED BY Zenon, <4>1, <4>2
    <3> QED BY Zenon, <3>2, <3>4, <3>5 DEF LockInv
  <2>2. CASE lk[l] # -1
    <3>1. condition_wait(LockCond(l)) /\ UNCHANGED lockVars
      BY <1>12, <2>2, Zenon DEF LockLoop
    <3> QED BY Zenon, <1>b, <1>8, <1>12, <2>2, <3>1
  <2> QED BY Zenon, <2>1, <2>2
<1>13. CASE LockResume \/ \E l \in Lock : LockAcquire(l)
  <2>1. CASE LockResume
    BY Zenon, <1>0, <1>12, <2>1 DEF LockResume, At, SchedInv, ArgInv
  <2>2. ASSUME NEW l \in Lock, LockAcquire(l) PROVE LockInv'
    BY Zenon, <1>12, <2>2 DEF LockAcquire, At
  <2> QED BY Zenon, <1>13, <2>1, <2>2
<1>14. ASSUME NEW l \in Lock, LockRelease(l) PROVE LockInv'
  <2>1. /\ l \in holds[tp] /\ hart = "run" /\ hart' = "run"
        /\ lk' = [lk EXCEPT ![l] = -1]
        /\ holds' = [holds EXCEPT ![tp] = @ \ {l}]
        /\ condition_broadcast(LockCond(l), state)
    BY Zenon, <1>14 DEF LockRelease, At
  <2>2. /\ lk'[l] = -1 /\ \A m \in Lock \ {l} : lk'[m] = lk[m]
        /\ holds'[tp] = holds[tp] \ {l}
        /\ \A t \in Tid \ {tp} : holds'[t] = holds[t]
    BY Zenon, <1>0, <2>1 DEF TypeOK
  <2>3. /\ \A d \in Cond : Elems(wait_list'[d]) \subseteq Elems(wait_list[d])
        /\ Elems(wait_list'[LockCond(l)]) = {}
    BY Zenon, <1>0, <2>1, BroadcastShrinks
  <2>4. \A t \in Tid : l \in holds[t] => t = tp
    BY Zenon, <1>0, <2>1 DEF LockInv, MutualExclusion
  <2>5. MutualExclusion'
    <3>1. ASSUME NEW m \in Lock, NEW t \in Tid, m \in holds'[t] PROVE lk'[m] = t
      <4>1. m \in holds[t] /\ m # l
        BY Zenon, <2>2, <2>4, <3>1
      <4>2. lk[m] = t
        BY <4>1, Zenon DEF LockInv, MutualExclusion
      <4> QED BY Zenon, <2>2, <4>1, <4>2
    <3> QED BY <3>1, Zenon DEF MutualExclusion
  <2>6. ASSUME NEW m \in Lock, lk'[m] # -1 PROVE m \in holds'[lk'[m]]
    <3>1. m # l /\ lk[m] # -1 /\ lk[m] \in Tid /\ m \in holds[lk[m]] /\ lk'[m] = lk[m]
      BY Zenon, <1>0, <2>2, <2>6 DEF LockInv, TypeOK
    <3> QED BY <2>2, <3>1, ZenonT(60)
  <2>7. \A m \in Lock : Elems(wait_list'[LockCond(m)]) # {} => lk'[m] # -1
    BY Zenon, <2>2, <2>3 DEF LockInv
  <2> QED BY Zenon, <2>1, <2>5, <2>6, <2>7 DEF LockInv
<1> QED
  BY Zenon, <1>2, <1>3, <1>4, <1>5, <1>6, <1>7, <1>10, <1>11, <1>13, <1>14 DEF Next

(* Initially every lock is free and nobody waits for one. *)
LEMMA LockInit == Init => LockInv
<1> SUFFICES ASSUME Init PROVE LockInv
  OBVIOUS
<1>1. \A l \in Lock : Elems(wait_list[LockCond(l)]) = {}
  BY Zenon, CondFacts, EmptyElems DEF Init
<1> QED BY <1>1, ZenonT(60) DEF Init, LockInv, MutualExclusion

(* lock_acquire excludes, for every number of threads. *)
THEOREM MutexCorrect == Spec => []MutualExclusion
<1>1. LockInv => MutualExclusion
  BY Zenon DEF LockInv
<1> QED BY SchedInit, SchedStep, LockInit, LockStep, <1>1, PTL DEF Spec

(* While a thread sleeps on a lock some thread holds it and will broadcast:  *)
(* the gap between lock_acquire's test and condition_wait loses no release.  *)
THEOREM UnlockCorrect == Spec => []NoLostUnlock
<1>1. SchedInv /\ LockInv => NoLostUnlock
  BY TidFacts, ZenonT(60) DEF SchedInv, TypeOK, LockInv, NoLostUnlock
<1> QED BY SchedInit, SchedStep, LockInit, LockStep, <1>1, PTL DEF Spec
=============================================================================
