------------------------------ MODULE MCMemory ------------------------------
(* Two processes; tables of two entries, so that four user pages take two    *)
(* tables of the last level; a program with text and a zero-filled page, and *)
(* one whose segment does not fit.                                           *)
EXTENDS Memory

Segm(lo, n, filesz, fl, val) ==
  [lo |-> lo, memsz |-> n, filesz |-> filesz, flags |-> fl, value |-> val]

MCProgram ==
  {<<Segm(0, 1, 1, {"R", "X"}, "A"), Segm(1, 1, 0, {"R", "W"}, "B")>>,
   <<Segm(3, 2, 2, {"R", "X"}, "C")>>}

(* A page that is neither reachable nor free is never looked at again: what  *)
(* it holds is left out of the fingerprint.                                  *)
View ==
  LET seen == {ram.free_list[k] : k \in DOMAIN ram.free_list} \cup Tables \cup Below(Tables)
  IN <<[ram EXCEPT !.table = [p \in seen |-> @[p]], !.data = [p \in seen |-> @[p]]],
       procs, load, cur, satp, execs>>
=============================================================================
