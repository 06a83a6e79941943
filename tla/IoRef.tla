------------------------------- MODULE IoRef --------------------------------
(***************************************************************************)
(* What reference counting promises (io.h): an I/O object that has been    *)
(* opened stays open as long as anybody refers to it, and is closed by     *)
(* whoever drops the last reference. References may also get lost: their   *)
(* holder forgets them without closing. Such an object stays open until    *)
(* the process that holds its last reference ends.                         *)
(***************************************************************************)
EXTENDS Integers

CONSTANT Obj

VARIABLES
  open,           \* the objects that are open
  held, lost      \* [Obj -> references in use, and lost ones]

vars == <<open, held, lost>>

Init == open = {} /\ held = [o \in Obj |-> 0] /\ lost = [o \in Obj |-> 0]

Open(o) ==
  /\ o \notin open
  /\ open' = open \cup {o}
  /\ held' = [held EXCEPT ![o] = 1] /\ lost' = [lost EXCEPT ![o] = 0]

(* Opened for nobody: the caller had no descriptor for it. *)
Abandon(o) ==
  /\ o \notin open
  /\ open' = open \cup {o}
  /\ lost'[o] # 0 /\ lost' = [lost EXCEPT ![o] = lost'[o]]
  /\ UNCHANGED held

Share(S) ==
  /\ \A o \in S : held[o] > 0
  /\ held' = [o \in Obj |-> IF o \in S THEN held[o] + 1 ELSE held[o]]
  /\ UNCHANGED <<open, lost>>

Forget(o) ==
  /\ held[o] > 0
  /\ held' = [held EXCEPT ![o] = @ - 1] /\ lost' = [lost EXCEPT ![o] = @ + 1]
  /\ UNCHANGED open

Drop(o) ==
  /\ held[o] > 0
  /\ held' = [held EXCEPT ![o] = @ - 1]
  /\ open' = IF held[o] = 1 /\ lost[o] = 0 THEN open \ {o} ELSE open
  /\ UNCHANGED lost

(* A process ends: its objects, to which nobody else refers, are closed. *)
End(S) ==
  /\ \A o \in S : held[o] = 1
  /\ open' = open \ S
  /\ held' = [o \in Obj |-> IF o \in S THEN 0 ELSE held[o]]
  /\ lost' = [o \in Obj |-> IF o \in S THEN 0 ELSE lost[o]]

Next ==
  \/ \E o \in Obj : Open(o) \/ Abandon(o) \/ Forget(o) \/ Drop(o)
  \/ \E S \in SUBSET Obj : Share(S) \/ End(S)

Spec == Init /\ [][Next]_vars
=============================================================================
