------------------------------- MODULE MCKfs --------------------------------
(* Two threads and two files: "a", whose three bytes lie in two blocks of   *)
(* two, the second one half used, and "b", one block. Both descriptors can  *)
(* be open on the same file, or on one each.                                *)
EXTENDS Kfs, TLC

Symmetry == Permutations(Thread)

(* Every call loads the caches before it uses them, so what the last call   *)
(* left there tells no two states apart.                                    *)
View ==
  <<disk, file_list, kfs_lock, pc, call, result, settled, writes,
    IF \A t \in Thread : pc[t] \in {"idle", "inode"} THEN <<>> ELSE <<inode>>,
    IF \A t \in Thread : pc[t] # "wdata" THEN <<>> ELSE <<data_block>> >>

MCDentries == <<"a", "b">>
MCByteLen == [f \in {"a", "b"} |-> IF f = "a" THEN 3 ELSE 2]
=============================================================================
