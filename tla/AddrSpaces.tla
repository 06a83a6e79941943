---------------------------- MODULE AddrSpaces ------------------------------
(***************************************************************************)
(* What virtual memory promises a user program: every process has pages of *)
(* its own. A step changes the pages of the process that runs and of no    *)
(* other, except that a new process starts with a copy of its parent's.    *)
(***************************************************************************)
CONSTANTS
  Proc, Nobody,   \* processes; Nobody: the idle thread runs
  First,          \* the process there is at boot
  Vpn,            \* user pages
  Unmapped,
  Segment,        \* segments of the programs: [pages, flags, value]
  Stored          \* what a program may store

VARIABLES
  live, cur,      \* the processes there are, the one that runs
  space           \* [Proc -> [Vpn -> [value, flags] or Unmapped]]

vars == <<live, cur, space>>

Init ==
  /\ live = {First} /\ cur = First
  /\ space = [p \in Proc |-> [v \in Vpn |-> Unmapped]]

Mine(s) == space' = [space EXCEPT ![cur] = s]

(* A store to a page the program may write. *)
Store(v, x) ==
  /\ UNCHANGED <<live, cur>>
  /\ cur \in live /\ space[cur][v] # Unmapped /\ "W" \in space[cur][v].flags
  /\ Mine([space[cur] EXCEPT ![v].value = x])

(* The pages of S are there and may be written; their content is new. *)
Fresh(S) ==
  /\ UNCHANGED <<live, cur>>
  /\ cur \in live
  /\ \A p \in Proc \ {cur} : space'[p] = space[p]
  /\ \A v \in Vpn \ S : space'[cur][v] = space[cur][v]
  /\ \A v \in S : space'[cur][v] # Unmapped /\ {"R", "W"} \subseteq space'[cur][v].flags

(* A segment of a program is in memory, zero-filled, with its permissions. *)
Load(s) ==
  /\ UNCHANGED <<live, cur>>
  /\ cur \in live
  /\ Mine([v \in Vpn |->
       IF v \in s.pages THEN [value |-> s.value[v], flags |-> s.flags] ELSE space[cur][v]])

Fork(c) ==
  /\ cur \in live /\ c \notin live
  /\ live' = live \cup {c} /\ cur' \in live'
  /\ space' = [space EXCEPT ![c] = space[cur]]

Exit ==
  /\ cur \in live /\ live' = live \ {cur} /\ cur' \in live' \cup {Nobody}
  /\ space' = [space EXCEPT ![cur] = [v \in Vpn |-> Unmapped]]

Switch == cur' \in live \cup {Nobody} /\ UNCHANGED <<live, space>>

Next ==
  \/ Switch
  \/ \E v \in Vpn, x \in Stored : Store(v, x)
  \/ \E v \in Vpn : Fresh({v})
  \/ \E s \in Segment : Fresh(s.pages) \/ Load(s)
  \/ \E c \in Proc : Fork(c)
  \/ Exit

Spec == Init /\ [][Next]_vars
=============================================================================
