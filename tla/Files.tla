------------------------------- MODULE Files --------------------------------
(***************************************************************************)
(* Processes and their descriptors: the process table and iotab            *)
(* (process.c), the system calls that open, close, use, inherit and drop   *)
(* I/O objects (syscall.c), reference counts (io.h), device_open           *)
(* (device.c) and the descriptor slots of kfs.c, together with the thread  *)
(* ids that fork hands out and wait takes (thread.c).                      *)
(*                                                                         *)
(* A process is one thread, so its own iotab changes only by its own       *)
(* calls. A call that waits for a device keeps the object in using[p]      *)
(* while other processes run; the other calls do all they do to this       *)
(* state between two points where they wait, hence at once. (fs_open       *)
(* waits for the disk before it looks for a free slot.) A wait that must   *)
(* wait is a call that has not happened yet.                               *)
(*                                                                         *)
(* SharedExit says whether a process may end while another one still       *)
(* refers to one of its objects: process_exit then closes it under the     *)
(* other's hands.                                                          *)
(*                                                                         *)
(* Definitions marked "faulty variant" are no part of Next: each is a bug  *)
(* that one of the properties below rules out.                             *)
(***************************************************************************)
EXTENDS Integers, FiniteSets

CONSTANTS
  NPROC, PROCESS_IOMAX, NTHR,
  MAX_OPEN_FILES, NDEV,   \* file objects and devices
  File,                   \* what can be opened in the file system
  REFMOD,                 \* refcnt is a uint32_t: 2^32
  MAXREFS,                \* bound: references to an object, the lost ones included
  SharedExit

ASSUME FilesAssumption ==
  /\ {NPROC, PROCESS_IOMAX, MAX_OPEN_FILES, REFMOD} \subseteq Nat \ {0}
  /\ NTHR \in Nat /\ NTHR > 2 /\ NDEV \in Nat
  /\ MAXREFS \in Nat /\ MAXREFS < REFMOD - 1
  /\ SharedExit \in BOOLEAN

Pid == 0 .. NPROC - 1
MAIN_PID == 0
FdNo == 0 .. PROCESS_IOMAX - 1
Tid == 1 .. NTHR - 2             \* 0 is the main thread, NTHR - 1 the idle one
FileObj == 1 .. MAX_OPEN_FILES
Dev == -NDEV .. -1
Obj == FileObj \cup Dev
NULL == 0
NoFile == "none"

VARIABLES
  proctab,        \* [Pid -> BOOLEAN], not NULL
  iotab,          \* [Pid -> [FdNo -> Obj or NULL]]
  tid,            \* [Pid -> thread of the process]
  thrtab,         \* [Tid -> its state and parent]
  using,          \* [Pid -> object a waiting call is using, or NULL]
  open,           \* [Obj -> BOOLEAN], ops set / device opened
  refcnt,         \* [Obj -> io_intf.refcnt]
  inode,          \* [FileObj -> the file the slot stands for]
  halted,         \* the main process has ended
  name,           \* history: [Pid -> [FdNo -> what was opened there]]
  lost,           \* history: [Obj -> references dropped without ioclose]
  zombie          \* history: a fork met a thread that was not waited for

procs == <<proctab, tid, thrtab, halted, zombie>>
objs == <<open, refcnt, inode, lost>>
tabs == <<iotab, name>>
vars == <<procs, tabs, using, objs>>

FreeThread == [st |-> "free", parent |-> 0]
NoTab == [fd \in FdNo |-> NULL]

(* procmgr_init *)
Init ==
  /\ proctab = [p \in Pid |-> p = MAIN_PID]
  /\ iotab = [p \in Pid |-> NoTab]
  /\ tid = [p \in Pid |-> 0]
  /\ thrtab = [t \in Tid |-> FreeThread]
  /\ using = [p \in Pid |-> NULL]
  /\ open = [o \in Obj |-> FALSE] /\ refcnt = [o \in Obj |-> 0]
  /\ inode = [o \in FileObj |-> NoFile]
  /\ halted = FALSE
  /\ name = [p \in Pid |-> [fd \in FdNo |-> NoFile]]
  /\ lost = [o \in Obj |-> 0] /\ zombie = FALSE

Runs(p) == proctab[p] /\ using[p] = NULL /\ ~halted
Lowest(S) == CHOOSE x \in S : \A y \in S : x <= y
-----------------------------------------------------------------------------
(* What a close operation leaves: uart_close, vioblk_close, release_file. *)
Close(o) ==
  /\ open' = [open EXCEPT ![o] = FALSE]
  /\ inode' = IF o \in FileObj THEN [inode EXCEPT ![o] = NoFile] ELSE inode

(* ioclose *)
(* Faulty variant: closes whatever the count. *)
iocloseAlways(o) == refcnt' = [refcnt EXCEPT ![o] = (@ - 1) % REFMOD] /\ Close(o)
(* Faulty variant: tests the count before it goes down. *)
iocloseEarlyTest(o) ==
  /\ refcnt' = [refcnt EXCEPT ![o] = (@ - 1) % REFMOD]
  /\ IF refcnt[o] = 0 THEN Close(o) ELSE UNCHANGED <<open, inode>>
ioclose(o) ==
  /\ refcnt' = [refcnt EXCEPT ![o] = (@ - 1) % REFMOD]
  /\ IF refcnt[o] = 1 THEN Close(o) ELSE UNCHANGED <<open, inode>>

(* The descriptor a new object goes to: the one asked for, or the lowest     *)
(* free one for a negative fd. No descriptor if that is out of range, in     *)
(* use, or none is free.                                                     *)
FdsFor(p, fd) ==
  IF fd >= 0 THEN {x \in FdNo : x = fd /\ iotab[p][x] = NULL}
  ELSE LET free == {x \in FdNo : iotab[p][x] = NULL}
       IN {x \in free : x = Lowest(free)}

Install(p, fd, o, f) ==
  /\ iotab' = [iotab EXCEPT ![p][fd] = o]
  /\ name' = [name EXCEPT ![p][fd] = f]
  /\ open' = [open EXCEPT ![o] = TRUE]
  /\ refcnt' = [refcnt EXCEPT ![o] = 1]
  /\ lost' = [lost EXCEPT ![o] = 0]

(* device_open succeeds only on a device that is not open. With no           *)
(* descriptor for it, ioclose counts down from a count nobody has set.       *)
sysdevopen(p, d, fd) ==
  /\ Runs(p) /\ ~open[d]
  /\ \/ \E x \in FdsFor(p, fd) : Install(p, x, d, "dev") /\ UNCHANGED inode
     \/ /\ FdsFor(p, fd) = {}
        /\ refcnt' = [refcnt EXCEPT ![d] = (@ - 1) % REFMOD]
        /\ open' = [open EXCEPT ![d] = (refcnt[d] # 1)]
        /\ lost' = [lost EXCEPT ![d] = IF refcnt[d] # 1 THEN refcnt'[d] ELSE @]
        /\ UNCHANGED <<inode, tabs>>
  /\ UNCHANGED <<procs, using>>

(* fs_open takes the first free slot; with no descriptor, fs_close gives it  *)
(* back.                                                                     *)
sysfsopen(p, f, fd) ==
  LET free == {o \in FileObj : ~open[o]}
  IN /\ Runs(p) /\ free # {}
     /\ \E x \in FdsFor(p, fd) :
          /\ Install(p, x, Lowest(free), f)
          /\ inode' = [inode EXCEPT ![Lowest(free)] = f]
     /\ UNCHANGED <<procs, using>>

sysclose(p, fd) ==
  /\ Runs(p) /\ iotab[p][fd] # NULL
  /\ ioclose(iotab[p][fd])
  /\ iotab' = [iotab EXCEPT ![p][fd] = NULL]
  /\ name' = [name EXCEPT ![p][fd] = NoFile]
  /\ UNCHANGED <<procs, using, lost>>

(* sysread, syswrite and sysioctl fetch the object and may wait in it. *)
BeginIo(p, fd) ==
  /\ Runs(p) /\ iotab[p][fd] # NULL
  /\ using' = [using EXCEPT ![p] = iotab[p][fd]]
  /\ UNCHANGED <<procs, tabs, objs>>

(* sysexec empties the descriptor, closes nothing, and loads the program     *)
(* from the object.                                                          *)
sysexec(p, fd) ==
  LET o == iotab[p][fd]
  IN /\ Runs(p) /\ o # NULL
     /\ iotab' = [iotab EXCEPT ![p][fd] = NULL]
     /\ name' = [name EXCEPT ![p][fd] = NoFile]
     /\ using' = [using EXCEPT ![p] = o]
     /\ lost' = [lost EXCEPT ![o] = @ + 1]
     /\ UNCHANGED <<procs, open, refcnt, inode>>

(* The call, or elf_load, is done with the object. *)
EndIo(p) ==
  /\ using[p] # NULL /\ ~halted
  /\ using' = [using EXCEPT ![p] = NULL]
  /\ UNCHANGED <<procs, tabs, objs>>
-----------------------------------------------------------------------------
(* Faulty variant: the search starts at 2. *)
FreePidsFromTwo == {p \in Pid : ~proctab[p] /\ p > 1}
FreePids == {p \in Pid : ~proctab[p]}
FreeTids == {t \in Tid : thrtab[t].st = "free"}
Inherited(p) == {iotab[p][fd] : fd \in FdNo} \ {NULL}

(* sysfork: process_fork takes the lowest free process id and shares the     *)
(* objects of iotab, create_thread the lowest free thread id (it panics if   *)
(* there is none).                                                           *)
sysfork(p) ==
  LET c == Lowest(FreePids)
      t == Lowest(FreeTids)
  IN /\ Runs(p) /\ FreePids # {} /\ FreeTids # {}
     /\ \A o \in Inherited(p) : refcnt[o] < MAXREFS
     /\ proctab' = [proctab EXCEPT ![c] = TRUE]
     /\ iotab' = [iotab EXCEPT ![c] = iotab[p]]
     /\ name' = [name EXCEPT ![c] = name[p]]
     /\ refcnt' = [o \in Obj |-> IF o \in Inherited(p) THEN (refcnt[o] + 1) % REFMOD ELSE refcnt[o]]
     /\ tid' = [tid EXCEPT ![c] = t]
     /\ thrtab' = [thrtab EXCEPT ![t] = [st |-> "live", parent |-> tid[p]]]
     /\ zombie' = (zombie \/ \E u \in Tid : thrtab[u].st = "exited")
     /\ UNCHANGED <<using, halted, open, inode, lost>>

(* The value thread_fork_to_user, and with it sysfork, returns to the parent *)
(* of process c.                                                             *)
ForkValue(c) == c

(* process_exit calls the close operation of every object in iotab, whoever  *)
(* else refers to it, then frees the process slot and ends the thread. When  *)
(* the main thread ends, the machine halts.                                  *)
sysexit(p) ==
  LET mine == Inherited(p)
  IN /\ Runs(p)
     /\ SharedExit \/ \A q \in Pid \ {p} : mine \cap (Inherited(q) \cup {using[q]}) = {}
     /\ open' = [o \in Obj |-> open[o] /\ o \notin mine]
     /\ inode' = [o \in FileObj |-> IF o \in mine THEN NoFile ELSE inode[o]]
     /\ lost' = [o \in Obj |-> IF o \in mine THEN 0 ELSE lost[o]]
     /\ iotab' = [iotab EXCEPT ![p] = NoTab]
     /\ name' = [name EXCEPT ![p] = [fd \in FdNo |-> NoFile]]
     /\ proctab' = [proctab EXCEPT ![p] = FALSE]
     /\ IF tid[p] = 0
        THEN halted' = TRUE /\ UNCHANGED thrtab
        ELSE thrtab' = [thrtab EXCEPT ![tid[p]].st = "exited"] /\ UNCHANGED halted
     /\ tid' = [tid EXCEPT ![p] = 0]
     /\ UNCHANGED <<using, refcnt, zombie>>

(* syswait: thread_join_any for 0, else thread_join. recycle_thread frees    *)
(* the thread id and hands the children on.                                  *)
syswait(p, arg) ==
  LET done == {t \in Tid : thrtab[t] = [st |-> "exited", parent |-> tid[p]]}
  IN /\ Runs(p)
     /\ \E t \in done :
          /\ IF arg = 0 THEN t = Lowest(done) ELSE t = arg
          /\ thrtab' = [u \in Tid |->
               CASE u = t -> FreeThread
                 [] u # t /\ thrtab[u].st # "free" /\ thrtab[u].parent = t ->
                      [thrtab[u] EXCEPT !.parent = tid[p]]
                 [] OTHER -> thrtab[u]]
     /\ UNCHANGED <<proctab, tid, halted, zombie, tabs, using, objs>>

Next ==
  \E p \in Pid :
    \/ \E fd \in -1 .. PROCESS_IOMAX : \/ \E d \in Dev : sysdevopen(p, d, fd)
                                       \/ \E f \in File : sysfsopen(p, f, fd)
    \/ \E fd \in FdNo : sysclose(p, fd) \/ BeginIo(p, fd) \/ sysexec(p, fd)
    \/ EndIo(p) \/ sysfork(p) \/ sysexit(p)
    \/ \E arg \in {0} \cup Tid : syswait(p, arg)

Spec == Init /\ [][Next]_vars
-----------------------------------------------------------------------------
(* Nobody is left with a closed object: whatever the other processes open,    *)
(* close, inherit and end, a descriptor leads to an open object that stands   *)
(* for the file opened there, and a call that waits in an object, or loads a  *)
(* program from it, finds it still open when it goes on.                      *)
DescriptorIntact ==
  /\ \A p \in Pid, fd \in FdNo :
       LET o == iotab[p][fd]
       IN o # NULL => open[o] /\ (o \in FileObj => inode[o] = name[p][fd])
  /\ \A p \in Pid : using[p] # NULL => open[using[p]]

(* The number fork returns is the thread id that wait wants, as long as no    *)
(* fork happens while the thread of an ended process has not been waited for. *)
(* (After that the lowest free process id and the lowest free thread id       *)
(* differ.)                                                                   *)
ForkNamesChild ==
  ~zombie => \A c \in Pid \ {MAIN_PID} : proctab[c] => ForkValue(c) = tid[c]

Refs(o) == Cardinality({x \in Pid \X FdNo : iotab[x[1]][x[2]] = o})

Io == INSTANCE IoRef WITH
  open <- {o \in Obj : open[o]},
  held <- [o \in Obj |-> Refs(o)]

(* The descriptors implement IoRef: an object is closed by the call that      *)
(* removes the last reference to it and by no earlier one, refcnt agreeing    *)
(* with the descriptors there really are; only sysexec, and sysdevopen        *)
(* without a descriptor, lose references.                                     *)
ImplementsIoRef == Io!Spec
=============================================================================
