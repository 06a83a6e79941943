------------------------------ MODULE FileSys -------------------------------
(***************************************************************************)
(* What the file system promises: a fixed set of files of fixed length,    *)
(* descriptors with a position of their own, and calls that happen at one  *)
(* instant each. No blocks, no cached inode, no lock.                      *)
(*                                                                         *)
(* A file has room for Cap bytes (whole blocks), of which Size are its     *)
(* length. A write may go past the length, up to the room; a read never    *)
(* returns more than the length. A call that meets an I/O error reports    *)
(* EIO; a write that does may have left a part of its bytes, from the      *)
(* first one on, and may or may not have moved the position.               *)
(***************************************************************************)
EXTENDS Integers, Sequences

CONSTANTS
  Thread, NoThread, Fd, Name,
  Size, Cap,      \* [Name -> Nat], Size[f] <= Cap[f]
  Image,          \* the bytes of the files in the disk image
  ReadLen,        \* numbers of bytes asked for
  Bufs,           \* byte sequences that are written
  Positions       \* arguments of IOCTL_SETPOS

VARIABLES
  content,        \* [Name -> the Cap bytes of the file]
  desc,           \* [Fd -> closed, or the file and the position]
  result          \* what the last call returned, and to whom

vars == <<content, desc, result>>

Closed == [open |-> FALSE, file |-> "", pos |-> 0]
Ok(t, ret, bytes) == [to |-> t, err |-> "ok", ret |-> ret, data |-> bytes]
Err(t, e) == [to |-> t, err |-> e, ret |-> 0, data |-> <<>>]

NoResult == Ok(NoThread, 0, <<>>)
Returns(r) == result' = r
Moved(fd, k) == [desc EXCEPT ![fd].pos = @ + k]

(* How many of n bytes fit between position p and the end. *)
Fits(n, p, end) == IF p >= end THEN 0 ELSE IF n < end - p THEN n ELSE end - p

Overlay(bytes, p, w, k) ==
  [i \in DOMAIN bytes |-> IF i \in p .. p + k - 1 THEN w[i - p + 1] ELSE bytes[i]]

Init ==
  /\ content = Image
  /\ desc = [fd \in Fd |-> Closed]
  /\ result = NoResult

(* A call begins: nothing has happened yet. *)
Call == result' = NoResult /\ UNCHANGED <<content, desc>>

Open(t, f) ==
  \/ \E fd \in Fd :
       /\ ~desc[fd].open
       /\ desc' = [desc EXCEPT ![fd] = [open |-> TRUE, file |-> f, pos |-> 0]]
       /\ Returns(Ok(t, fd, <<>>)) /\ UNCHANGED content
  \/ /\ \A fd \in Fd : desc[fd].open
     /\ Returns(Err(t, "EBUSY")) /\ UNCHANGED <<content, desc>>

OpenUnknown(t) == Returns(Err(t, "ENOENT")) /\ UNCHANGED <<content, desc>>

Close(fd) ==
  /\ desc[fd].open
  /\ desc' = [desc EXCEPT ![fd] = Closed]
  /\ UNCHANGED <<content, result>>

Read(t, fd, n) ==
  LET d == desc[fd]
      k == Fits(n, d.pos, Size[d.file])
  IN /\ d.open
     /\ Returns(Ok(t, k, [i \in 1 .. k |-> content[d.file][d.pos + i - 1]]))
     /\ desc' = Moved(fd, k)
     /\ UNCHANGED content

Write(t, fd, w) ==
  LET d == desc[fd]
      k == Fits(Len(w), d.pos, Cap[d.file])
  IN /\ d.open
     /\ \/ /\ Returns(Ok(t, k, <<>>))
           /\ content' = [content EXCEPT ![d.file] = Overlay(@, d.pos, w, k)]
           /\ desc' = Moved(fd, k)
        \/ \E j \in 0 .. k, m \in {0, k} :
             /\ Returns(Err(t, "EIO"))
             /\ content' = [content EXCEPT ![d.file] = Overlay(@, d.pos, w, j)]
             /\ desc' = Moved(fd, m)

SetPos(t, fd, p) ==
  /\ desc[fd].open
  /\ IF p > Size[desc[fd].file]
     THEN Returns(Err(t, "EINVAL")) /\ UNCHANGED desc
     ELSE Returns(Ok(t, 0, <<>>)) /\ desc' = [desc EXCEPT ![fd].pos = p]
  /\ UNCHANGED content

Fail(t) == Returns(Err(t, "EIO")) /\ UNCHANGED <<content, desc>>

Next ==
  \/ Call
  \/ \E t \in Thread :
       \/ \E f \in Name : Open(t, f)
       \/ OpenUnknown(t) \/ Fail(t)
       \/ \E fd \in Fd : \/ \E n \in ReadLen : Read(t, fd, n)
                         \/ \E w \in Bufs : Write(t, fd, w)
                         \/ \E p \in Positions : SetPos(t, fd, p)
  \/ \E fd \in Fd : Close(fd)

Spec == Init /\ [][Next]_vars
=============================================================================
