----------------------------- MODULE KfsProofs ------------------------------
(***************************************************************************)
(* The theorems about Kfs: the refinement of FileSys (NextFS maps every    *)
(* step that KfsInv allows to FileSys), where mkfs puts the blocks of the  *)
(* files, and what follows from KfsSteps for every behaviour.              *)
(***************************************************************************)
EXTENDS KfsSteps, TLAPS

(* The calls implement FileSys. What a file holds, as FileSys sees it: the   *)
(* bytes that were in its blocks when the last call returned.                *)
LEMMA NameOfIno ==
  ASSUME NEW i \in Ino
  PROVE  Dentries[i + 1] \in Name /\ InoOf[Dentries[i + 1]] = i /\ CapOf[Dentries[i + 1]] = Room(i)
         /\ ByteLen[Dentries[i + 1]] = LenOf(i)
<1> DEFINE f == Dentries[i + 1]
<1>1. f \in Name
  BY Zenon, ImageFacts
<1>2. InoOf[f] \in Ino /\ Dentries[InoOf[f] + 1] = f
  BY Zenon, <1>1, NameFacts
<1>3. InoOf[f] + 1 \in DOMAIN Dentries /\ i + 1 \in DOMAIN Dentries
  BY <1>2, ImageFacts DEF Ino
<1>4. InoOf[f] + 1 = i + 1
  BY Zenon, <1>2, <1>3, KfsAssumption DEF IsInjective
<1>5. InoOf[f] = i
  <2>1. InoOf[f] \in Nat /\ i \in Nat
    BY <1>2, ImageFacts, Zenon
  <2> HIDE DEF f
  <2> QED BY <1>4, <2>1
<1>6. CapOf[f] = Room(i)
  BY Zenon, <1>1 DEF CapOf, Room, Stored, LenOf
<1> QED BY Zenon, <1>1, <1>5, <1>6 DEF LenOf

LEMMA ContentIs ==
  ASSUME NEW dk
  PROVE  ContentOf(dk) =
           [f \in Name |-> [p \in 0 .. Room(InoOf[f]) - 1 |-> ByteAt(dk, InoOf[f], p)]]
<1>1. ASSUME NEW f \in Name PROVE CapOf[f] = Room(InoOf[f])
  BY Zenon, NameFacts, NameOfIno
<1> QED BY Zenon, <1>1 DEF ContentOf, ByteAt, Addr

LEMMA ContentSame ==
  ASSUME NEW dk, NEW old,
         \A i \in Ino : \A p \in 0 .. Room(i) - 1 : ByteAt(dk, i, p) = ByteAt(old, i, p)
  PROVE  ContentOf(dk) = ContentOf(old)
<1>1. ASSUME NEW f \in Name
      PROVE  [p \in 0 .. Room(InoOf[f]) - 1 |-> ByteAt(dk, InoOf[f], p)]
               = [p \in 0 .. Room(InoOf[f]) - 1 |-> ByteAt(old, InoOf[f], p)]
  BY Zenon, NameFacts
<1> QED BY Zenon, <1>1, ContentIs

(* On disk dk file f has w's first k bytes at start, and is otherwise, like   *)
(* the other files, what it is on disk old.                                  *)
OverlayContent(dk, old, f, start, k, w) ==
  ContentOf(dk) = [ContentOf(old) EXCEPT ![f] = FS!Overlay(ContentOf(old)[f], start, w, k)]

LEMMA ContentWritten ==
  ASSUME NEW dk, NEW old, NEW j \in Ino, NEW start \in Nat, NEW k \in Nat, NEW w,
         Overwritten(dk, old, j, start, k, w)
  PROVE  OverlayContent(dk, old, Dentries[j + 1], start, k, w)
<1> DEFINE f == Dentries[j + 1]
           C == ContentOf(old)
           D == ContentOf(dk)
<1> USE DEF Overwritten
<1>1. f \in Name /\ InoOf[f] = j
  BY Zenon, NameOfIno
<1>2. /\ C = [g \in Name |-> C[g]] /\ D = [g \in Name |-> D[g]]
      /\ \A g \in Name : /\ C[g] = [p \in 0 .. Room(InoOf[g]) - 1 |-> ByteAt(old, InoOf[g], p)]
                         /\ D[g] = [p \in 0 .. Room(InoOf[g]) - 1 |-> ByteAt(dk, InoOf[g], p)]
  BY Zenon, ContentIs
<1> HIDE DEF C, D
<1>3. D[f] = FS!Overlay(C[f], start, w, k)
  <2>1. DOMAIN C[f] = 0 .. Room(j) - 1 /\ \A p \in 0 .. Room(j) - 1 : C[f][p] = ByteAt(old, j, p)
    <3>1. C[f] = [p \in 0 .. Room(j) - 1 |-> ByteAt(old, j, p)]
      BY Zenon, <1>1, <1>2
    <3> QED BY Zenon, <3>1
  <2>2. D[f] = [p \in 0 .. Room(j) - 1 |-> ByteAt(dk, j, p)]
    BY Zenon, <1>1, <1>2
  <2>3. \A p \in 0 .. Room(j) - 1 : ByteAt(dk, j, p) =
           IF p \in start .. start + k - 1 THEN w[p - start + 1] ELSE C[f][p]
    BY Zenon, <2>1
  <2> HIDE DEF f
  <2>4. FS!Overlay(C[f], start, w, k) = [p \in 0 .. Room(j) - 1 |->
           IF p \in start .. start + k - 1 THEN w[p - start + 1] ELSE C[f][p]]
    BY Zenon, <2>1 DEF FS!Overlay
  <2> QED BY Zenon, <2>2, <2>3, <2>4
<1>4. ASSUME NEW g \in Name, g # f PROVE D[g] = C[g]
  <2>1. InoOf[g] \in Ino /\ InoOf[g] # j
    BY Zenon, <1>4, NameFacts
  <2>2. \A p \in 0 .. Room(InoOf[g]) - 1 : ByteAt(dk, InoOf[g], p) = ByteAt(old, InoOf[g], p)
    BY Zenon, <2>1
  <2>3. /\ C[g] = [p \in 0 .. Room(InoOf[g]) - 1 |-> ByteAt(old, InoOf[g], p)]
        /\ D[g] = [p \in 0 .. Room(InoOf[g]) - 1 |-> ByteAt(dk, InoOf[g], p)]
    BY Zenon, <1>2
  <2> QED BY Zenon, <2>2, <2>3
<1> HIDE DEF f
<1>5. D = [C EXCEPT ![f] = FS!Overlay(C[f], start, w, k)]
  BY Zenon, <1>1, <1>2, <1>3, <1>4
<1> QED BY Zenon, <1>5 DEF f, C, D, OverlayContent

(* A descriptor, as FileSys sees it: while a write is at write_inode, its    *)
(* position is still the one it began at.                                    *)
Entry(f, p) ==
  IF f.in_use THEN [open |-> TRUE, file |-> Dentries[f.ino + 1], pos |-> p]
  ELSE [open |-> FALSE, file |-> "", pos |-> 0]

LEMMA DescriptorsAre ==
  /\ Descriptors = [fd \in Fd |-> Entry(file_list[fd], PosOf(fd))]
  /\ Descriptors' = [fd \in Fd |-> Entry(file_list'[fd], PosOf(fd)')]
  BY Zenon DEF Descriptors, Entry

LEMMA PosQuiet ==
  ASSUME \A u \in Thread : pc[u] # "winode"
  PROVE  \A fd \in Fd : PosOf(fd) = file_list[fd].file_pos
  BY Zenon DEF PosOf

LEMMA PosQuietNext ==
  ASSUME \A u \in Thread : pc'[u] # "winode"
  PROVE  \A fd \in Fd : PosOf(fd)' = file_list'[fd].file_pos
  BY Zenon DEF PosOf

LEMMA PosWriting ==
  ASSUME NEW t \in Thread, kfs_lock = t, pc[t] = "winode", NEW fd \in Fd
  PROVE  PosOf(fd) = IF fd = call[t].fd THEN Start(t) ELSE file_list[fd].file_pos
<1>1. CASE fd = call[t].fd
  BY Zenon, <1>1 DEF PosOf, Start
<1>2. CASE fd # call[t].fd
  BY Zenon, <1>2 DEF PosOf
<1> QED BY Zenon, <1>1, <1>2

LEMMA PosWritingNext ==
  ASSUME NEW t \in Thread, kfs_lock' = t, pc'[t] = "winode", NEW fd \in Fd
  PROVE  PosOf(fd)' = IF fd = call'[t].fd THEN Start(t)' ELSE file_list'[fd].file_pos
<1>1. CASE fd = call'[t].fd
  BY Zenon, <1>1 DEF PosOf, Start
<1>2. CASE fd # call'[t].fd
  BY Zenon, <1>2 DEF PosOf
<1> QED BY Zenon, <1>1, <1>2

(* Nobody is at write_inode while the lock is free, or t holds it and is     *)
(* elsewhere.                                                                *)
LEMMA Quiet ==
  ASSUME LockInv, NEW t \in Thread, kfs_lock \in {t, NoThread}, pc[t] # "winode"
  PROVE  \A u \in Thread : pc[u] # "winode"
  BY Zenon, Alone

LEMMA ReturnQuiet ==
  ASSUME LockInv, NEW t \in Thread, kfs_lock \in {t, NoThread}, NEW r, Return(t, r)
  PROVE  \A u \in Thread : pc'[u] # "winode"
<1>1. \A u \in Thread \ {t} : pc[u] = "idle"
  BY Zenon, Alone
<1> QED BY Zenon, <1>1 DEF Return, LockInv

(* The descriptors, when nobody is at write_inode before or after a step.   *)
LEMMA QuietDescriptors ==
  ASSUME \A u \in Thread : pc[u] # "winode", \A u \in Thread : pc'[u] # "winode"
  PROVE  /\ Descriptors = [fd \in Fd |-> Entry(file_list[fd], file_list[fd].file_pos)]
         /\ Descriptors' = [fd \in Fd |-> Entry(file_list'[fd], file_list'[fd].file_pos)]
  BY Zenon, PosQuiet, PosQuietNext, DescriptorsAre

LEMMA SameDescriptors ==
  ASSUME \A u \in Thread : pc[u] # "winode", \A u \in Thread : pc'[u] # "winode", UNCHANGED file_list
  PROVE  UNCHANGED Descriptors
  BY Zenon, QuietDescriptors

(* A descriptor in use is open, on its file.                                *)
LEMMA OpenEntry ==
  ASSUME NEW fd \in Fd
  PROVE  /\ Descriptors[fd] = Entry(file_list[fd], PosOf(fd))
         /\ Descriptors[fd].open <=> file_list[fd].in_use
         /\ file_list[fd].in_use => /\ Descriptors[fd].file = Dentries[file_list[fd].ino + 1]
                                    /\ Descriptors[fd].pos = PosOf(fd)
<1>1. Descriptors[fd] = Entry(file_list[fd], PosOf(fd))
  BY Zenon, DescriptorsAre
<1>2. CASE file_list[fd].in_use
  BY <1>1, <1>2 DEF Entry
<1>3. CASE ~file_list[fd].in_use
  <2>1. Descriptors[fd] = [open |-> FALSE, file |-> "", pos |-> 0]
    BY <1>1, <1>3, Zenon DEF Entry
  <2>2. [open |-> FALSE, file |-> "", pos |-> 0].open = FALSE
    BY Zenon
  <2>3. Descriptors[fd].open = FALSE
    BY <2>1, <2>2, Zenon
  <2> QED BY <1>1, <1>3, <2>3, Zenon
<1> QED BY Zenon, <1>2, <1>3

LEMMA MovedEntry ==
  ASSUME NEW f, NEW p, NEW q
  PROVE  [[open |-> TRUE, file |-> f, pos |-> p] EXCEPT !.pos = q] = [open |-> TRUE, file |-> f, pos |-> q]
<1> DEFINE r == [open |-> TRUE, file |-> f, pos |-> p]
           s == [r EXCEPT !.pos = q]
<1>1. r \in [open : {TRUE}, file : {f}, pos : {p}]
  BY Zenon
<1> HIDE DEF r
<1>2. s \in [open : {TRUE}, file : {f}, pos : {q}]
  BY Zenon, <1>1
<1> HIDE DEF s
<1>3. s = [open |-> TRUE, file |-> f, pos |-> q]
  BY Zenon, <1>2
<1> QED BY <1>3, Zenon DEF r, s

(* The position of one descriptor changes.                                  *)
LEMMA PlacedDescriptors ==
  ASSUME NEW fd \in Fd, file_list[fd].in_use, NEW q,
         file_list'[fd].in_use, file_list'[fd].ino = file_list[fd].ino, PosOf(fd)' = q,
         \A g \in Fd \ {fd} : file_list'[g] = file_list[g] /\ PosOf(g)' = PosOf(g)
  PROVE  Descriptors' = [Descriptors EXCEPT ![fd] = [Descriptors[fd] EXCEPT !.pos = q]]
<1> DEFINE f == Dentries[file_list[fd].ino + 1]
           p == PosOf(fd)
<1>1. Descriptors = [g \in Fd |-> Descriptors[g]] /\ Descriptors' = [g \in Fd |-> Descriptors'[g]]
  BY Zenon, DescriptorsAre
<1>2. Descriptors[fd] = [open |-> TRUE, file |-> f, pos |-> p]
  BY Zenon, OpenEntry DEF Entry
<1>3. Descriptors'[fd] = [open |-> TRUE, file |-> f, pos |-> q]
  BY Zenon, DescriptorsAre DEF Entry
<1>4. \A g \in Fd \ {fd} : Descriptors'[g] = Descriptors[g]
  BY Zenon, DescriptorsAre
<1> HIDE DEF f, p
<1>5. [Descriptors[fd] EXCEPT !.pos = q] = [[open |-> TRUE, file |-> f, pos |-> p] EXCEPT !.pos = q]
  BY <1>2, Zenon
<1>6. [[open |-> TRUE, file |-> f, pos |-> p] EXCEPT !.pos = q]
        = [open |-> TRUE, file |-> f, pos |-> q]
  BY MovedEntry, ZenonT(60)
<1>7. [Descriptors[fd] EXCEPT !.pos = q] = Descriptors'[fd]
  BY <1>3, <1>5, <1>6, Zenon
<1> QED BY Zenon, <1>1, <1>4, <1>7

(* ... moves over k bytes.                                                  *)
LEMMA MovedDescriptors ==
  ASSUME NEW fd \in Fd, file_list[fd].in_use, NEW k,
         file_list'[fd].in_use, file_list'[fd].ino = file_list[fd].ino, PosOf(fd)' = PosOf(fd) + k,
         \A g \in Fd \ {fd} : file_list'[g] = file_list[g] /\ PosOf(g)' = PosOf(g)
  PROVE  Descriptors' = FS!Moved(fd, k)
<1> DEFINE q == PosOf(fd) + k
<1>1. PosOf(fd)' = q
  BY Zenon
<1>2. Descriptors[fd].pos + k = q
  BY Zenon, OpenEntry
<1> HIDE DEF q
<1>3. Descriptors' = [Descriptors EXCEPT ![fd] = [Descriptors[fd] EXCEPT !.pos = q]]
  BY Zenon, <1>1, PlacedDescriptors
<1>4. FS!Moved(fd, k) = [Descriptors EXCEPT ![fd] = [Descriptors[fd] EXCEPT !.pos = Descriptors[fd].pos + k]]
  BY Zenon DEF FS!Moved
<1> QED BY <1>2, <1>3, <1>4, Zenon

(* A step of a call, as FileSys sees it: the call begins, nothing happens,   *)
(* or the call returns.                                                      *)
LEMMA BeginFS ==
  ASSUME KfsInv, NEW t \in Thread, Enters(t), NEW c, Begin(t, c), UNCHANGED file_list
  PROVE  FS!Next
<1>1. \A u \in Thread : pc[u] = "idle"
  BY Zenon, Alone DEF Enters, KfsInv
<1>2. (\A u \in Thread : pc[u] # "winode") /\ \A u \in Thread : pc'[u] # "winode"
  BY Zenon, <1>1 DEF Begin, Wait, KfsInv, LockInv
<1>3. UNCHANGED Descriptors
  BY Zenon, <1>2, SameDescriptors
<1>4. UNCHANGED ContentOf(settled)
  BY Zenon DEF Begin, ContentOf
<1>5. result' = FS!NoResult
  BY Zenon DEF Begin, NoResult, Ok, FS!NoResult, FS!Ok
<1> QED BY Zenon, <1>3, <1>4, <1>5 DEF FS!Next, FS!Call

LEMMA StutterFS ==
  ASSUME UNCHANGED settled, UNCHANGED result, UNCHANGED Descriptors
  PROVE  UNCHANGED FS!vars
<1>1. UNCHANGED ContentOf(settled)
  BY Zenon DEF ContentOf
<1> QED BY Zenon, <1>1 DEF FS!vars

(* A call that has written nothing leaves the files as they were.           *)
LEMMA SettledSame ==
  ASSUME KfsInv, NEW t \in Thread, kfs_lock \in {t, NoThread}, call[t].op # "write",
         UNCHANGED disk, NEW r, Return(t, r)
  PROVE  UNCHANGED ContentOf(settled)
<1>1. \A u \in Thread \ {t} : call[u] = NoCall
  BY Zenon, Alone DEF KfsInv
<1>2. DiskIs(t)
  BY Zenon, <1>1, DiskIsFor DEF KfsInv
<1>3. settled' = disk
  BY Zenon DEF Return
<1>4. \A i \in Ino : \A p \in 0 .. Room(i) - 1 : ByteAt(settled', i, p) = ByteAt(settled, i, p)
  BY Zenon, <1>2, <1>3 DEF DiskIs
<1>5. ContentOf(settled') = ContentOf(settled)
  BY Zenon, <1>4, ContentSame
<1> QED BY Zenon, <1>5 DEF ContentOf

(* ... and an error of such a call changes nothing at all.                  *)
LEMMA FailFS ==
  ASSUME KfsInv, NEW t \in Thread, kfs_lock \in {t, NoThread}, call[t].op # "write",
         pc[t] # "winode", UNCHANGED disk, Return(t, Err(t, "EIO")), UNCHANGED file_list
  PROVE  FS!Next
<1>1. UNCHANGED ContentOf(settled)
  BY Zenon, SettledSame
<1>2. UNCHANGED Descriptors
  BY Zenon, Quiet, ReturnQuiet, SameDescriptors DEF KfsInv
<1>3. result' = FS!Err(t, "EIO")
  BY Zenon DEF Return, Err, FS!Err
<1>4. FS!Fail(t)
  BY Zenon, <1>1, <1>2, <1>3 DEF FS!Fail, FS!Returns
<1> QED BY Zenon, <1>4 DEF FS!Next

LEMMA OpenCallFS ==
  ASSUME KfsInv, NEW t \in Thread, NEW name \in Name \cup {Unknown}, OpenCall(t, name)
  PROVE  FS!Next
<1>1. Enters(t) /\ UNCHANGED disk /\ UNCHANGED file_list
  BY Zenon DEF OpenCall
<1>2. CASE name \in Name
  <2>1. Begin(t, NewCall("open", 0, InoOf[name], <<>>, 0))
    BY Zenon, <1>2 DEF OpenCall
  <2> QED BY Zenon, <1>1, <2>1, BeginFS
<1>3. CASE name \notin Name
  <2>1. Return(t, Err(t, "ENOENT"))
    BY Zenon, <1>3 DEF OpenCall
  <2>2. call[t].op # "write" /\ pc[t] # "winode" /\ kfs_lock = NoThread
    BY Zenon, <1>1, Alone, NoCallType DEF Enters, KfsInv
  <2>3. UNCHANGED ContentOf(settled)
    BY Zenon, <1>1, <2>1, <2>2, SettledSame
  <2>4. UNCHANGED Descriptors
    BY Zenon, <1>1, <2>1, <2>2, Quiet, ReturnQuiet, SameDescriptors DEF KfsInv
  <2>5. result' = FS!Err(t, "ENOENT")
    BY Zenon, <2>1 DEF Return, Err, FS!Err
  <2>6. FS!OpenUnknown(t)
    BY Zenon, <2>3, <2>4, <2>5 DEF FS!OpenUnknown, FS!Returns
  <2> QED BY Zenon, <2>6 DEF FS!Next
<1> QED BY Zenon, <1>2, <1>3

LEMMA FitsFacts ==
  ASSUME NEW n \in Nat, NEW p \in Nat, NEW end \in Nat
  PROVE  /\ FS!Fits(n, p, end) \in Nat /\ FS!Fits(n, p, end) <= n
         /\ p >= end => FS!Fits(n, p, end) = 0
         /\ n = 0 => FS!Fits(n, p, end) = 0
         /\ p < end => FS!Fits(n, p, end) = Min2(n, end - p)
         /\ \A i \in 1 .. FS!Fits(n, p, end) : p + i - 1 < end
  BY DEF FS!Fits, Min2

(* A read of descriptor fd takes effect: it returns the bytes of the file.  *)
LEMMA ReadsFS ==
  ASSUME KfsInv, NEW t \in Thread, NEW fd \in Fd, file_list[fd].in_use, NEW n \in ReadLen \cup {0},
         PosOf(fd) \in Nat, NEW k, k = FS!Fits(n, PosOf(fd), file_list[fd].file_size), NEW b,
         b = [i \in 1 .. k |-> ByteAt(settled, file_list[fd].ino, PosOf(fd) + i - 1)],
         result' = Ok(t, k, b), Descriptors' = FS!Moved(fd, k), UNCHANGED ContentOf(settled)
  PROVE  FS!Next
<1> DEFINE j == file_list[fd].ino
           f == Dentries[j + 1]
           p == PosOf(fd)
           C == ContentOf(settled)
<1>1. j \in Ino /\ file_list[fd].file_size = LenOf(j) /\ n \in Nat /\ LenOf(j) \in Nat
      /\ LenOf(j) <= Room(j) /\ Room(j) \in Nat
  <2>1. j \in Ino /\ file_list[fd].file_size = LenOf(j)
    BY Zenon DEF KfsInv, FilesInv
  <2>2. n \in Nat
    BY KfsAssumption
  <2> HIDE DEF j
  <2> QED BY Zenon, <2>1, <2>2, ImageFacts, BlockCounts
<1>2. f \in Name /\ InoOf[f] = j /\ ByteLen[f] = LenOf(j)
  BY Zenon, <1>1, NameOfIno
<1>3. Descriptors[fd].open /\ Descriptors[fd].file = f /\ Descriptors[fd].pos = p
  BY Zenon, OpenEntry
<1>4. k = FS!Fits(n, Descriptors[fd].pos, ByteLen[Descriptors[fd].file])
  BY Zenon, <1>1, <1>2, <1>3
<1>5. ASSUME NEW i \in 1 .. k PROVE C[Descriptors[fd].file][Descriptors[fd].pos + i - 1] = b[i]
  <2>1. p + i - 1 < LenOf(j) /\ k \in Nat
    BY Zenon, <1>1, FitsFacts
  <2>2. p + i - 1 \in 0 .. Room(j) - 1
    <3> HIDE DEF p, j
    <3> QED BY <1>1, <2>1 DEF p
  <2>3. C[f] = [q \in 0 .. Room(j) - 1 |-> ByteAt(settled, j, q)]
    BY Zenon, <1>2, ContentIs
  <2>4. C[f][p + i - 1] = ByteAt(settled, j, p + i - 1)
    BY Zenon, <2>2, <2>3
  <2>5. b[i] = ByteAt(settled, j, p + i - 1)
    BY Zenon
  <2> QED BY Zenon, <1>3, <2>4, <2>5
<1>6. b = [i \in 1 .. k |-> C[Descriptors[fd].file][Descriptors[fd].pos + i - 1]]
  BY Zenon, <1>5
<1>7. FS!Read(t, fd, n)
  BY <1>3, <1>4, <1>6, Zenon DEF FS!Read, FS!Returns, Ok, FS!Ok
<1> QED BY Zenon, <1>7 DEF FS!Next

(* A read of no bytes, or at the end of the file.                           *)
LEMMA ReadsNothingFS ==
  ASSUME KfsInv, NEW t \in Thread, NEW fd \in Fd, file_list[fd].in_use, NEW n \in ReadLen \cup {0},
         PosOf(fd) \in Nat, n = 0 \/ PosOf(fd) >= file_list[fd].file_size,
         result' = Ok(t, 0, <<>>), UNCHANGED Descriptors, UNCHANGED file_list,
         UNCHANGED ContentOf(settled)
  PROVE  FS!Next
<1>1. n \in Nat /\ file_list[fd].file_size \in Nat
  BY KfsAssumption DEF KfsInv, FilesInv, File
<1>2. FS!Fits(n, PosOf(fd), file_list[fd].file_size) = 0
  BY Zenon, <1>1, FitsFacts
<1>3. <<>> = [i \in 1 .. 0 |-> ByteAt(settled, file_list[fd].ino, PosOf(fd) + i - 1)]
  OBVIOUS
<1>4. Descriptors' = FS!Moved(fd, 0)
  <2> DEFINE d == Descriptors[fd]
  <2>1. d = Entry(file_list[fd], PosOf(fd)) /\ d.pos = PosOf(fd)
    BY Zenon, OpenEntry
  <2>2. d = [open |-> TRUE, file |-> Dentries[file_list[fd].ino + 1], pos |-> PosOf(fd)]
    BY Zenon, <2>1 DEF Entry
  <2>3. Descriptors = [g \in Fd |-> Descriptors[g]]
    BY Zenon, DescriptorsAre
  <2>4. d.pos + 0 = d.pos
    BY <2>1
  <2>5. FS!Moved(fd, 0) = [Descriptors EXCEPT ![fd] = [d EXCEPT !.pos = d.pos + 0]]
    BY Zenon DEF FS!Moved
  <2>6. [d EXCEPT !.pos = d.pos] = d
    <3> DEFINE f == Dentries[file_list[fd].ino + 1]
               p == PosOf(fd)
    <3>1. d = [open |-> TRUE, file |-> f, pos |-> p] /\ d.pos = p
      BY <2>1, <2>2, Zenon
    <3> HIDE DEF f, p
    <3>2. [[open |-> TRUE, file |-> f, pos |-> p] EXCEPT !.pos = p]
            = [open |-> TRUE, file |-> f, pos |-> p]
      BY MovedEntry, ZenonT(60)
    <3> HIDE DEF d
    <3> QED BY <3>1, <3>2, Zenon
  <2> HIDE DEF d
  <2>7. FS!Moved(fd, 0) = [Descriptors EXCEPT ![fd] = d]
    BY Zenon, <2>4, <2>5, <2>6
  <2> QED BY Zenon, <2>3, <2>7 DEF d
<1> QED BY Zenon, <1>2, <1>3, <1>4, ReadsFS

LEMMA PosNat ==
  ASSUME KfsInv, NEW fd \in Fd
  PROVE  PosOf(fd) \in Nat
<1>1. file_list[fd].file_pos \in Nat
  BY Zenon DEF KfsInv, FilesInv, File
<1>2. CASE \A u \in Thread : pc[u] # "winode"
  BY Zenon, <1>1, <1>2, PosQuiet
<1>3. ASSUME NEW t \in Thread, pc[t] = "winode" PROVE PosOf(fd) \in Nat
  <2>1. kfs_lock = t
    BY Zenon, <1>3, Owner DEF KfsInv
  <2>2. call[t].op = "write"
    BY Zenon, <1>3 DEF KfsInv, LockInv, CallInv
  <2>3. file_list[call[t].fd].file_pos \in Nat /\ call[t].done \in Nat
    BY Zenon, <2>2, OwnerFile
  <2>4. Start(t) \in Int /\ 0 <= Start(t)
    BY <2>2, <2>3 DEF KfsInv, WriteInv, Start
  <2>5. PosOf(fd) = IF fd = call[t].fd THEN Start(t) ELSE file_list[fd].file_pos
    BY Zenon, <1>3, <2>1, PosWriting
  <2> QED BY <1>1, <2>4, <2>5
<1> QED BY Zenon, <1>2, <1>3

LEMMA ReadCallFS ==
  ASSUME KfsInv, NEW t \in Thread, NEW fd \in Fd, NEW n \in ReadLen, ReadCall(t, fd, n)
  PROVE  FS!Next
<1> DEFINE f == file_list[fd]
<1>1. Enters(t) /\ UNCHANGED disk /\ UNCHANGED file_list /\ f.in_use
  BY Zenon DEF ReadCall
<1>2. f.file_pos \in Nat /\ f.file_size \in Nat /\ f.ino \in Ino
  BY Zenon, <1>1 DEF KfsInv, FilesInv, File
<1>3. ~(f.ino >= NI)
  BY <1>2, ImageFacts DEF Ino
<1>4. CASE f.file_pos >= f.file_size
  <2>1. Return(t, Ok(t, 0, <<>>))
    BY <1>2, <1>4 DEF ReadCall
  <2>2. call[t].op # "write" /\ pc[t] # "winode" /\ kfs_lock = NoThread
    BY Zenon, <1>1, Alone, NoCallType DEF Enters, KfsInv
  <2>3. UNCHANGED ContentOf(settled)
    BY Zenon, <1>1, <2>1, <2>2, SettledSame
  <2>4. UNCHANGED Descriptors /\ PosOf(fd) = f.file_pos
    BY Zenon, <1>1, <2>1, <2>2, Quiet, ReturnQuiet, SameDescriptors, PosQuiet DEF KfsInv
  <2>5. result' = Ok(t, 0, <<>>)
    BY Zenon, <2>1 DEF Return
  <2> QED BY Zenon, <1>1, <1>2, <1>4, <2>3, <2>4, <2>5, ReadsNothingFS
<1>5. CASE f.file_pos < f.file_size
  <2>1. Begin(t, NewCall("read", fd, f.ino, <<>>, n))
    BY <1>2, <1>3, <1>5 DEF ReadCall
  <2> QED BY Zenon, <1>1, <2>1, BeginFS
<1> QED BY <1>2, <1>4, <1>5

LEMMA WriteCallFS ==
  ASSUME KfsInv, NEW t \in Thread, NEW fd \in Fd, NEW n \in WriteLen, WriteCall(t, fd, n)
  PROVE  FS!Next
<1>1. Enters(t) /\ UNCHANGED file_list /\ file_list[fd].in_use
  BY Zenon DEF WriteCall
<1>2. ~(file_list[fd].ino >= NI)
  BY <1>1, ImageFacts DEF KfsInv, FilesInv, Ino
<1>3. Begin(t, NewCall("write", fd, file_list[fd].ino, Buf(t, n), n))
  BY Zenon, <1>2 DEF WriteCall
<1> QED BY Zenon, <1>1, <1>3, BeginFS

LEMMA NoBytesFS ==
  ASSUME KfsInv, NEW t \in Thread, NoBytes(t)
  PROVE  FS!Next
<1>1. PICK fd \in Fd : file_list[fd].in_use
  BY Zenon DEF NoBytes
<1>2. UNCHANGED Descriptors /\ UNCHANGED file_list /\ UNCHANGED ContentOf(settled)
  BY Zenon DEF NoBytes, Descriptors, PosOf, ContentOf
<1>3. result' = Ok(t, 0, <<>>)
  BY Zenon DEF NoBytes
<1>4. PosOf(fd) \in Nat
  BY Zenon, PosNat
<1> QED BY Zenon, <1>1, <1>2, <1>3, <1>4, ReadsNothingFS

LEMMA CloseFS ==
  ASSUME KfsInv, NEW fd \in Fd, fs_close(fd)
  PROVE  FS!Next
<1>1. /\ file_list[fd].in_use /\ file_list' = [file_list EXCEPT ![fd] = FreeFile]
      /\ UNCHANGED <<kfs_lock, pc, call, result, settled>>
      /\ \A t \in Thread : call[t].op \in {"read", "write"} => call[t].fd # fd
  BY Zenon DEF fs_close
<1>2. file_list'[fd] = FreeFile /\ \A g \in Fd \ {fd} : file_list'[g] = file_list[g]
  BY Zenon, <1>1 DEF KfsInv, FilesInv
<1>3. \A g \in Fd \ {fd} : PosOf(g)' = PosOf(g)
  BY <1>1, <1>2 DEF PosOf
<1>4. /\ Descriptors = [g \in Fd |-> Descriptors[g]] /\ Descriptors' = [g \in Fd |-> Descriptors'[g]]
      /\ \A g \in Fd : Descriptors'[g] = Entry(file_list'[g], PosOf(g)')
      /\ \A g \in Fd : Descriptors[g] = Entry(file_list[g], PosOf(g))
  BY Zenon, DescriptorsAre
<1>5. Descriptors'[fd] = FS!Closed
  <2>1. ~FreeFile.in_use
    BY Zenon DEF FreeFile
  <2> QED BY Zenon, <1>2, <1>4, <2>1 DEF Entry, FS!Closed
<1>6. \A g \in Fd \ {fd} : Descriptors'[g] = Descriptors[g]
  BY Zenon, <1>2, <1>3, <1>4
<1>7. Descriptors' = [Descriptors EXCEPT ![fd] = FS!Closed]
  BY Zenon, <1>4, <1>5, <1>6
<1>8. UNCHANGED ContentOf(settled) /\ Descriptors[fd].open
  BY Zenon, <1>1, OpenEntry DEF ContentOf
<1>9. FS!Close(fd)
  BY Zenon, <1>1, <1>7, <1>8 DEF FS!Close
<1> QED BY Zenon, <1>9 DEF FS!Next

LEMMA SetPosFS ==
  ASSUME KfsInv, NEW t \in Thread, NEW fd \in Fd, NEW p \in Positions, fs_setpos(t, fd, p)
  PROVE  FS!Next
<1> DEFINE f == file_list[fd]
<1>1. Enters(t) /\ UNCHANGED disk /\ f.in_use
  BY Zenon DEF fs_setpos
<1>2. f \in File /\ f.file_size = ByteLen[Descriptors[fd].file] /\ Descriptors[fd].open
  <2>1. f \in File /\ f.ino \in Ino /\ f.file_size = LenOf(f.ino)
    BY Zenon, <1>1 DEF KfsInv, FilesInv
  <2> QED BY Zenon, <1>1, <2>1, OpenEntry, NameOfIno
<1>3. call[t].op # "write" /\ pc[t] # "winode" /\ kfs_lock = NoThread
  BY Zenon, <1>1, Alone, NoCallType DEF Enters, KfsInv
<1>4. ASSUME NEW r, Return(t, r)
      PROVE  /\ UNCHANGED ContentOf(settled) /\ result' = r
             /\ (\A u \in Thread : pc[u] # "winode") /\ \A u \in Thread : pc'[u] # "winode"
  <2>1. UNCHANGED ContentOf(settled)
    BY Zenon, <1>1, <1>3, <1>4, SettledSame
  <2> QED BY Zenon, <1>3, <1>4, <2>1, Quiet, ReturnQuiet DEF KfsInv, Return
<1>5. CASE p > f.file_size
  <2>1. Return(t, Err(t, "EINVAL")) /\ UNCHANGED file_list
    BY Zenon, <1>5 DEF fs_setpos
  <2>2. UNCHANGED Descriptors /\ result' = FS!Err(t, "EINVAL") /\ UNCHANGED ContentOf(settled)
    BY Zenon, <1>4, <2>1, SameDescriptors DEF Err, FS!Err
  <2>3. FS!SetPos(t, fd, p)
    BY Zenon, <1>2, <1>5, <2>2 DEF FS!SetPos, FS!Returns
  <2> QED BY Zenon, <2>3 DEF FS!Next
<1>6. CASE ~(p > f.file_size)
  <2>1. Return(t, Ok(t, 0, <<>>)) /\ file_list' = [file_list EXCEPT ![fd].file_pos = p]
    BY Zenon, <1>6 DEF fs_setpos
  <2> DEFINE g == [f EXCEPT !.file_pos = p]
  <2>2. g.file_pos = p /\ g.ino = f.ino /\ (g.in_use <=> f.in_use)
    <3> HIDE DEF f
    <3> QED BY Zenon, <1>2 DEF File
  <2>3. file_list' = [file_list EXCEPT ![fd] = g]
    BY Zenon, <2>1
  <2> HIDE DEF g
  <2>4. file_list'[fd] = g /\ \A h \in Fd \ {fd} : file_list'[h] = file_list[h]
    BY Zenon, <2>3 DEF KfsInv, FilesInv
  <2>5. PosOf(fd)' = p /\ \A h \in Fd \ {fd} : PosOf(h)' = PosOf(h)
    BY Zenon, <1>4, <2>1, <2>2, <2>4, PosQuiet, PosQuietNext
  <2>6. Descriptors' = [Descriptors EXCEPT ![fd] = [Descriptors[fd] EXCEPT !.pos = p]]
    BY Zenon, <1>1, <2>2, <2>4, <2>5, PlacedDescriptors
  <2>7. Descriptors' = [Descriptors EXCEPT ![fd].pos = p]
    BY Zenon, <2>6
  <2>8. result' = FS!Ok(t, 0, <<>>) /\ UNCHANGED ContentOf(settled)
    BY Zenon, <1>4, <2>1 DEF Ok, FS!Ok
  <2>9. FS!SetPos(t, fd, p)
    BY Zenon, <1>2, <1>6, <2>7, <2>8 DEF FS!SetPos, FS!Returns
  <2> QED BY <2>9 DEF FS!Next
<1> QED BY Zenon, <1>5, <1>6

(* fs_open returns. *)
LEMMA AllocateFS ==
  ASSUME FirstFree, KfsInv, NEW t \in Thread, InodeRead(t), call[t].op = "open"
  PROVE  FS!Next
<1> DEFINE i == call[t].ino
           name == Dentries[i + 1]
           new == [in_use |-> TRUE, ino |-> i, file_pos |-> 0, file_size |-> LenOf(i)]
<1>1. pc[t] = "inode" /\ UNCHANGED disk /\ i \in Ino /\ kfs_lock = t
  BY Zenon, Owner DEF InodeRead, KfsInv, LockInv, CallInv
<1>2. allocate_file(t, i, ImageInode[i])
  <2>1. disk[InodeAt(i)] = ImageInode[i]
    BY Zenon, <1>1 DEF KfsInv, MetaInv, MetadataIntact
  <2> QED BY <2>1, Zenon DEF InodeRead
<1>3. name \in Name
  BY Zenon, <1>1, NameOfIno
<1>4. ASSUME NEW r, Return(t, r)
      PROVE  /\ UNCHANGED ContentOf(settled) /\ result' = r
             /\ (\A u \in Thread : pc[u] # "winode") /\ \A u \in Thread : pc'[u] # "winode"
  <2>1. UNCHANGED ContentOf(settled)
    BY Zenon, <1>1, <1>4, SettledSame
  <2> QED BY Zenon, <1>1, <1>4, <2>1, Quiet, ReturnQuiet DEF KfsInv, Return
<1>5. CASE /\ \A fd \in Fd : file_list[fd].in_use
           /\ Return(t, Err(t, "EBUSY")) /\ UNCHANGED file_list
  <2>1. UNCHANGED Descriptors /\ result' = FS!Err(t, "EBUSY") /\ UNCHANGED ContentOf(settled)
    BY Zenon, <1>4, <1>5, SameDescriptors DEF Err, FS!Err
  <2>2. \A fd \in Fd : Descriptors[fd].open
    BY Zenon, <1>5, OpenEntry
  <2>3. FS!Open(t, name)
    BY Zenon, <2>1, <2>2 DEF FS!Open, FS!Returns
  <2> QED BY Zenon, <1>3, <2>3 DEF FS!Next
<1>6. ASSUME NEW fd \in Fd, ~file_list[fd].in_use, Return(t, Ok(t, fd, <<>>)),
             file_list' = [file_list EXCEPT ![fd] = new]
      PROVE  FS!Next
  <2>1. new.in_use /\ new.ino = i /\ new.file_pos = 0
    BY Zenon
  <2> HIDE DEF new
  <2>2. file_list'[fd] = new /\ \A h \in Fd \ {fd} : file_list'[h] = file_list[h]
    BY Zenon, <1>6 DEF KfsInv, FilesInv
  <2>3. /\ Descriptors = [h \in Fd |-> Descriptors[h]] /\ Descriptors' = [h \in Fd |-> Descriptors'[h]]
        /\ \A h \in Fd : Descriptors'[h] = Entry(file_list'[h], file_list'[h].file_pos)
        /\ \A h \in Fd : Descriptors[h] = Entry(file_list[h], file_list[h].file_pos)
    BY Zenon, <1>4, <1>6, QuietDescriptors
  <2>4. Descriptors'[fd] = [open |-> TRUE, file |-> name, pos |-> 0]
    BY Zenon, <2>1, <2>2, <2>3 DEF Entry
  <2>5. \A h \in Fd \ {fd} : Descriptors'[h] = Descriptors[h]
    BY Zenon, <2>2, <2>3
  <2>6. Descriptors' = [Descriptors EXCEPT ![fd] = [open |-> TRUE, file |-> name, pos |-> 0]]
    BY Zenon, <2>3, <2>4, <2>5
  <2>7. result' = FS!Ok(t, fd, <<>>) /\ UNCHANGED ContentOf(settled) /\ ~Descriptors[fd].open
    BY Zenon, <1>4, <1>6, OpenEntry DEF Ok, FS!Ok
  <2>8. FS!Open(t, name)
    BY Zenon, <2>6, <2>7 DEF FS!Open, FS!Returns
  <2> QED BY Zenon, <1>3, <2>8 DEF FS!Next
<1> QED BY Zenon, <1>1, <1>2, <1>5, <1>6, AllocateFacts

(* The head of the loop of fs_read: the read returns, fails or goes on.     *)
LEMMA ReadLoopFS ==
  ASSUME KfsInv, NEW t \in Thread, call[t].op = "read",
         NEW c \in CallRecord, c.op = "read", c.fd = call[t].fd, c.ino = call[t].ino,
         c.n = call[t].n, Len(c.buf) = c.done, c.done <= ToRead(c),
         Copied(disk, c, file_list[c.fd].file_pos),
         ReadLoop(t, c, ImageInode[c.ino]), UNCHANGED disk
  PROVE  FS!Next \/ UNCHANGED FS!vars
<1> DEFINE fd == c.fd
           f == file_list[fd]
           node == ImageInode[c.ino]
<1>1. /\ pc[t] # "idle" /\ fd \in Fd /\ c.ino \in Ino
      /\ f \in File /\ f.in_use /\ f.ino = c.ino
      /\ f.file_pos \in Nat /\ f.file_size \in Nat
      /\ f.file_size <= Room(c.ino) /\ Room(c.ino) \in Nat
  BY Zenon, OwnerFile
<1>2. c.done \in Nat /\ c.n \in Nat /\ c.buf \in Seq(Byte)
  BY Zenon DEF CallRecord
<1>3. f.file_pos < f.file_size /\ c.n \in ReadLen
  BY Zenon DEF KfsInv, ReadInv
<1>4. ToRead(c) \in Nat /\ ToRead(c) <= f.file_size - f.file_pos
  BY <1>1, <1>2, <1>3, SMTT(30) DEF ToRead, Min2
<1>5. kfs_lock = t /\ DiskIs(t)
  BY Zenon, <1>1, OwnerDisk
<1>6. pc[t] \in {"inode", "data"} /\ \A u \in Thread : pc[u] # "winode"
  <2>1. pc[t] \in {"inode", "data"}
    BY Zenon, <1>1 DEF KfsInv, LockInv, CallInv
  <2> QED BY Zenon, <1>5, <2>1, Quiet DEF KfsInv
<1>7. CASE c.done >= ToRead(c)
  <2>1. file_list' = Advanced(c) /\ Return(t, Ok(t, c.done, c.buf))
    BY <1>2, <1>4, <1>7 DEF ReadLoop
  <2>2. c.done = ToRead(c)
    BY <1>2, <1>4, <1>7
  <2>3. UNCHANGED ContentOf(settled) /\ result' = Ok(t, c.done, c.buf)
        /\ \A u \in Thread : pc'[u] # "winode"
    <3>1. UNCHANGED ContentOf(settled)
      BY Zenon, <1>5, <2>1, SettledSame
    <3> QED BY Zenon, <1>5, <2>1, <3>1, ReturnQuiet DEF KfsInv, Return
  <2>end. f.file_pos + c.done <= Room(c.ino)
    BY <1>1, <1>2, <1>4, <2>2
  <2>4. /\ file_list'[fd].in_use /\ file_list'[fd].ino = f.ino
        /\ file_list'[fd].file_pos = f.file_pos + c.done
        /\ \A g \in Fd \ {fd} : file_list'[g] = file_list[g]
    <3>1. f.file_pos + c.done <= Room(call[t].ino)
      BY Zenon, <2>end
    <3>2. \A g \in Fd \ {fd} : file_list'[g] = file_list[g]
      BY Zenon, <2>1 DEF Advanced, KfsInv, FilesInv
    <3> QED BY Zenon, <1>1, <1>2, <2>1, <3>1, <3>2, AdvancedFiles
  <2>5. PosOf(fd) = f.file_pos /\ PosOf(fd)' = f.file_pos + c.done
        /\ \A g \in Fd \ {fd} : PosOf(g)' = PosOf(g)
    BY <1>1, <1>6, <2>3, <2>4, PosQuiet, PosQuietNext
  <2>6. Descriptors' = FS!Moved(fd, c.done)
    BY Zenon, <1>1, <2>4, <2>5, MovedDescriptors
  <2>7. c.done = FS!Fits(c.n, PosOf(fd), f.file_size)
    <3>1. FS!Fits(c.n, f.file_pos, f.file_size) = Min2(c.n, f.file_size - f.file_pos)
      <4>1. /\ c.n \in Nat /\ f.file_pos \in Nat /\ f.file_size \in Nat
            /\ f.file_pos < f.file_size
        BY Zenon, <1>1, <1>2, <1>3
      <4> QED BY <4>1, FitsFacts, Zenon
    <3>2. ToRead(c) = Min2(c.n, f.file_size - f.file_pos)
      BY Zenon DEF ToRead
    <3> QED BY <2>2, <2>5, <3>1, <3>2, Zenon
  <2>8. c.buf = [i \in 1 .. c.done |-> ByteAt(settled, f.ino, PosOf(fd) + i - 1)]
    <3>1. ASSUME NEW i \in 1 .. c.done
          PROVE  c.buf[i] = ByteAt(settled, f.ino, PosOf(fd) + i - 1)
      <4>1. f.file_pos + i - 1 \in 0 .. Room(c.ino) - 1
        <5> DEFINE p == f.file_pos
                   z == Room(c.ino)
                   d == c.done
        <5>1. p \in Nat /\ z \in Nat /\ d \in Nat /\ i \in 1 .. d /\ p + d <= z
          BY <1>1, <1>2, <2>end, Zenon
        <5> HIDE DEF p, z, d
        <5>2. p + i - 1 \in 0 .. z - 1
          BY <5>1
        <5> QED BY Zenon, <5>2 DEF p, z
      <4>2. ByteAt(disk, c.ino, f.file_pos + i - 1) = ByteAt(settled, c.ino, f.file_pos + i - 1)
        BY Zenon, <1>1, <1>5, <4>1 DEF DiskIs
      <4>3. c.buf[i] = ByteAt(disk, c.ino, f.file_pos + i - 1)
        BY Zenon DEF Copied
      <4> QED BY Zenon, <1>1, <2>5, <4>2, <4>3
    <3>2. c.buf = [i \in 1 .. c.done |-> c.buf[i]]
      BY <1>2
    <3> QED BY Zenon, <3>1, <3>2
  <2>9. PosOf(fd) \in Nat /\ c.n \in ReadLen \cup {0}
    BY Zenon, <1>1, <1>3, <2>5
  <2> QED BY Zenon, <1>1, <2>3, <2>6, <2>7, <2>8, <2>9, ReadsFS
<1>8. CASE c.done < ToRead(c) /\ (BlockIdx(c) >= Allocated(node)
                                   \/ node.data_block_num[BlockIdx(c)] >= num_data)
  <2>1. Return(t, Err(t, "EIO")) /\ UNCHANGED file_list
    BY <1>2, <1>4, <1>8 DEF ReadLoop
  <2> QED BY Zenon, <1>5, <1>6, <2>1, FailFS
<1>9. CASE c.done < ToRead(c) /\ ~(BlockIdx(c) >= Allocated(node))
             /\ ~(node.data_block_num[BlockIdx(c)] >= num_data)
  <2>1. Wait(t, "data") /\ UNCHANGED <<file_list, settled, result>>
    BY <1>2, <1>4, <1>9 DEF ReadLoop
  <2>2. \A u \in Thread : pc'[u] # "winode"
    BY Zenon, <1>6, <2>1 DEF Wait, KfsInv, LockInv
  <2>3. UNCHANGED Descriptors
    BY Zenon, <1>6, <2>1, <2>2, SameDescriptors
  <2> QED BY Zenon, <2>1, <2>3, StutterFS
<1> QED BY <1>2, <1>4, <1>7, <1>8, <1>9

(* The head of the loop of fs_write: nothing has happened yet, although the *)
(* position moves before write_inode.                                       *)
LEMMA WriteLoopFS ==
  ASSUME KfsInv, NEW t \in Thread, call[t].op = "write", pc[t] # "winode",
         NEW c \in CallRecord, c.fd = call[t].fd, NEW node, WriteLoop(t, c, node),
         file_list[c.fd].file_pos + c.done <= Room(call[t].ino)
  PROVE  UNCHANGED FS!vars
<1> DEFINE fd == c.fd
           f == file_list[fd]
<1>1. /\ pc[t] # "idle" /\ fd \in Fd /\ f.in_use /\ f.ino = call[t].ino /\ f.file_pos \in Nat
      /\ c.done \in Nat
  BY Zenon, OwnerFile DEF CallRecord
<1>2. kfs_lock = t
  BY Zenon, <1>1, Owner DEF KfsInv
<1>3. \A u \in Thread : pc[u] # "winode"
  BY Zenon, <1>2, Quiet DEF KfsInv
<1>4. call'[t] = c /\ kfs_lock' = t /\ UNCHANGED result /\ UNCHANGED settled
  BY Zenon, <1>2 DEF WriteLoop, KfsInv, LockInv
<1>5. CASE Wait(t, "data") /\ UNCHANGED file_list
  <2>1. \A u \in Thread : pc'[u] # "winode"
    BY Zenon, <1>3, <1>5 DEF Wait, KfsInv, LockInv
  <2>2. UNCHANGED Descriptors
    BY Zenon, <1>3, <1>5, <2>1, SameDescriptors
  <2> QED BY Zenon, <1>4, <2>2, StutterFS
<1>6. CASE Wait(t, "winode") /\ file_list' = Advanced(c)
  <2>1. pc'[t] = "winode"
    BY Zenon, <1>6 DEF Wait, KfsInv, LockInv
  <2>2. /\ file_list'[fd].in_use /\ file_list'[fd].ino = f.ino
        /\ file_list'[fd].file_pos = f.file_pos + c.done
    BY Zenon, <1>1, <1>6, AdvancedFiles
  <2>3. \A g \in Fd \ {fd} : file_list'[g] = file_list[g]
    BY Zenon, <1>6 DEF Advanced, KfsInv, FilesInv
  <2>4. Start(t)' = f.file_pos
    <3>1. Start(t)' = file_list'[fd].file_pos - c.done
      BY <1>4, <2>1, Zenon DEF Start
    <3> QED BY <1>1, <2>2, <3>1
  <2>5. \A g \in Fd : PosOf(g)' = PosOf(g)
    <3> TAKE g \in Fd
    <3>1. PosOf(g)' = IF g = call'[t].fd THEN Start(t)' ELSE file_list'[g].file_pos
      BY Zenon, <1>4, <2>1, PosWritingNext
    <3>2. PosOf(g) = file_list[g].file_pos
      BY Zenon, <1>3, PosQuiet
    <3>3. CASE g = fd
      BY Zenon, <1>4, <2>4, <3>1, <3>2, <3>3
    <3>4. CASE g # fd
      BY Zenon, <1>4, <2>3, <3>1, <3>2, <3>4
    <3> QED BY Zenon, <3>3, <3>4
  <2>6. \A g \in Fd : Entry(file_list'[g], PosOf(g)') = Entry(file_list[g], PosOf(g))
    BY Zenon, <1>1, <2>2, <2>3, <2>5 DEF Entry
  <2>7. UNCHANGED Descriptors
    BY Zenon, <2>6, DescriptorsAre
  <2> QED BY <1>4, <2>7, StutterFS
<1> QED BY Zenon, <1>5, <1>6 DEF WriteLoop

(* A write in progress, as FileSys will see it when it returns.             *)
LEMMA WriteFacts ==
  ASSUME KfsInv, NEW t \in Thread, call[t].op = "write"
  PROVE  LET c == call[t]
             d == Descriptors[c.fd]
             k == FS!Fits(Len(c.buf), d.pos, CapOf[d.file])
         IN /\ d.open /\ d.pos = Start(t) /\ d.file = Dentries[c.ino + 1]
            /\ PosOf(c.fd) = Start(t) /\ Start(t) \in Nat
            /\ c.fd \in Fd /\ c.ino \in Ino /\ c.buf \in WriteBufs /\ k \in Nat /\ c.done \in 0 .. k
            /\ pc[t] = "winode" => c.done = k
            /\ pc[t] # "winode" => \A m \in Nat : m <= c.n /\ Start(t) + m <= Room(c.ino) => m \in 0 .. k
<1> DEFINE c == call[t]
           f == file_list[c.fd]
           d == Descriptors[c.fd]
           s == Start(t)
           z == Room(c.ino)
           k == FS!Fits(Len(c.buf), d.pos, CapOf[d.file])
<1>1. /\ pc[t] # "idle" /\ c.fd \in Fd /\ c.ino \in Ino /\ f.in_use /\ f.ino = c.ino
      /\ f.file_pos \in Nat /\ c.done \in Nat /\ c.n \in Nat /\ z \in Nat
  BY Zenon, OwnerFile
<1>2. kfs_lock = t
  BY Zenon, <1>1, Owner DEF KfsInv
<1>3. s \in Nat /\ s + c.done <= z /\ c.done <= c.n /\ c.n \in WriteLen /\ c.buf = Buf(t, c.n)
      /\ (pc[t] = "winode" => c.done = c.n \/ s + c.done = z)
  <2>1. s \in Int
    BY <1>1 DEF Start
  <2> QED BY <2>1 DEF KfsInv, WriteInv
<1>4. PosOf(c.fd) = s
  <2>1. CASE pc[t] = "winode"
    BY Zenon, <1>1, <1>2, <2>1, PosWriting
  <2>2. CASE pc[t] # "winode"
    <3>1. PosOf(c.fd) = f.file_pos
      BY Zenon, <1>1, <1>2, <2>2, Quiet, PosQuiet DEF KfsInv
    <3>2. s = f.file_pos
      BY <1>1, <2>2 DEF Start
    <3> QED BY Zenon, <3>1, <3>2
  <2> QED BY Zenon, <2>1, <2>2
<1>5. d.open /\ d.pos = s /\ d.file = Dentries[c.ino + 1]
  BY Zenon, <1>1, <1>4, OpenEntry
<1>6. k = FS!Fits(c.n, s, z)
  <2>1. Len(c.buf) = c.n
    BY Zenon, <1>1, <1>3, BufType
  <2>2. CapOf[d.file] = z
    BY Zenon, <1>1, <1>5, NameOfIno
  <2> QED BY Zenon, <1>5, <2>1, <2>2
<1>7. c.buf \in WriteBufs
  BY <1>3 DEF WriteBufs
<1> DEFINE n == c.n
           done == c.done
<1>8. s \in Nat /\ n \in Nat /\ done \in Nat /\ z \in Nat /\ s + done <= z /\ done <= n
      /\ (pc[t] = "winode" => done = n \/ s + done = z)
  BY Zenon, <1>1, <1>3
<1> HIDE DEF k, s, z, n, done
<1>9. k \in Nat /\ done \in 0 .. k /\ ((done = n \/ s + done = z) => done = k)
      /\ \A m \in Nat : m <= n /\ s + m <= z => m \in 0 .. k
  BY <1>6, <1>8 DEF FS!Fits, n
<1> QED BY Zenon, <1>1, <1>3, <1>4, <1>5, <1>7, <1>8, <1>9 DEF k, s, z, n, done

(* A write returns with m of its bytes on the disk.                         *)
LEMMA WrittenFS ==
  ASSUME KfsInv, NEW t \in Thread, call[t].op = "write", NEW r, Return(t, r), NEW m \in Nat,
         Overwritten(disk', settled, call[t].ino, Start(t), m, call[t].buf)
  PROVE  LET d == Descriptors[call[t].fd]
         IN ContentOf(settled)' = [ContentOf(settled) EXCEPT
              ![d.file] = FS!Overlay(ContentOf(settled)[d.file], d.pos, call[t].buf, m)]
<1> DEFINE d == Descriptors[call[t].fd]
           s == Start(t)
           b == call[t].buf
           j == call[t].ino
<1>1. d.pos = s /\ s \in Nat /\ d.file = Dentries[j + 1] /\ j \in Ino
  BY Zenon, WriteFacts
<1>2. ContentOf(settled)' = ContentOf(disk')
  BY Zenon DEF Return, ContentOf
<1>3. Overwritten(disk', settled, j, s, m, b)
  BY Zenon
<1> HIDE DEF s, b, j, d
<1>4. ContentOf(disk') = [ContentOf(settled) EXCEPT
        ![Dentries[j + 1]] = FS!Overlay(ContentOf(settled)[Dentries[j + 1]], s, b, m)]
  <2>1. OverlayContent(disk', settled, Dentries[j + 1], s, m, b)
    BY Zenon, <1>1, <1>3, ContentWritten
  <2> QED BY Zenon, <2>1 DEF OverlayContent
<1> QED BY Zenon, <1>1, <1>2, <1>4 DEF b, d

LEMMA WriteReturnDescriptors ==
  ASSUME KfsInv, NEW t \in Thread, call[t].op = "write", NEW r, Return(t, r), UNCHANGED file_list
  PROVE  Descriptors' = FS!Moved(call[t].fd, IF pc[t] = "winode" THEN call[t].done ELSE 0)
<1>1. /\ pc[t] # "idle" /\ call[t].fd \in Fd /\ file_list[call[t].fd].in_use
      /\ file_list[call[t].fd].file_pos \in Nat /\ call[t].done \in Nat
  BY Zenon, OwnerFile
<1>2. kfs_lock = t
  BY Zenon, <1>1, Owner DEF KfsInv
<1>3. \A g \in Fd : PosOf(g)' = file_list[g].file_pos
  BY Zenon, <1>2, ReturnQuiet, PosQuietNext DEF KfsInv
<1>4. PICK fd \in Fd : fd = call[t].fd
  BY Zenon, <1>1
<1>5. PICK k \in Nat : k = IF pc[t] = "winode" THEN call[t].done ELSE 0
  BY Zenon, <1>1
<1>6. PosOf(fd)' = PosOf(fd) + k
  <2> DEFINE p == file_list[fd].file_pos
  <2>1. p \in Nat /\ PosOf(fd)' = p
    BY Zenon, <1>1, <1>3, <1>4
  <2>2. PosOf(fd) = p - k
    BY Zenon, <1>4, <1>5, WriteFacts DEF Start
  <2> HIDE DEF p
  <2> QED BY <2>1, <2>2
<1>7. \A g \in Fd \ {fd} : PosOf(g)' = PosOf(g)
  <2>1. CASE pc[t] = "winode"
    BY Zenon, <1>2, <1>3, <1>4, <2>1, PosWriting
  <2>2. CASE pc[t] # "winode"
    BY Zenon, <1>2, <1>3, <2>2, Quiet, PosQuiet DEF KfsInv
  <2> QED BY Zenon, <2>1, <2>2
<1>8. /\ file_list[fd].in_use
      /\ file_list'[fd].in_use /\ file_list'[fd].ino = file_list[fd].ino
      /\ \A g \in Fd \ {fd} : file_list'[g] = file_list[g]
  BY Zenon, <1>1, <1>4
<1>9. Descriptors' = FS!Moved(fd, k)
  BY <1>6, <1>7, <1>8, MovedDescriptors, Zenon
<1> QED BY Zenon, <1>4, <1>5, <1>9

LEMMA InodeWriteFS ==
  ASSUME KfsInv, NEW t \in Thread, WritesAtPos, InodeWrite(t)
  PROVE  FS!Next
<1> DEFINE c == call[t]
           d == Descriptors[c.fd]
           k == FS!Fits(Len(c.buf), d.pos, CapOf[d.file])
<1>1. /\ pc[t] = "winode" /\ disk' = [disk EXCEPT ![Target(InodeAt(c.ino))] = inode]
      /\ Return(t, Ok(t, c.done, <<>>)) /\ UNCHANGED file_list
  BY Zenon DEF InodeWrite
<1>2. c.op = "write"
  BY Zenon, <1>1 DEF KfsInv, LockInv, CallInv
<1>3. UNCHANGED disk /\ DiskIs(t)
  BY Zenon, <1>1, InodeWritten, OwnerDisk
<1>4. /\ d.open /\ c.fd \in Fd /\ c.buf \in WriteBufs /\ k \in Nat /\ c.done = k
  BY Zenon, <1>1, <1>2, WriteFacts
<1>5. ContentOf(settled)' = [ContentOf(settled) EXCEPT
        ![d.file] = FS!Overlay(ContentOf(settled)[d.file], d.pos, c.buf, k)]
  <2>1. Overwritten(disk', settled, c.ino, Start(t), c.done, c.buf)
    BY <1>2, <1>3, Zenon DEF DiskIs, Overwritten
  <2>2. c.done \in Nat
    BY Zenon, <1>4
  <2>3. ContentOf(settled)' = [ContentOf(settled) EXCEPT
          ![d.file] = FS!Overlay(ContentOf(settled)[d.file], d.pos, c.buf, c.done)]
    BY <1>1, <1>2, <2>1, <2>2, WrittenFS, Zenon
  <2> QED BY <1>4, <2>3, Zenon
<1>6. Descriptors' = FS!Moved(c.fd, k)
  BY Zenon, <1>1, <1>2, <1>4, WriteReturnDescriptors
<1>7. result' = FS!Ok(t, k, <<>>)
  BY Zenon, <1>1, <1>4 DEF Return, Ok, FS!Ok
<1>8. FS!Write(t, c.fd, c.buf)
  BY <1>4, <1>5, <1>6, <1>7, Zenon DEF FS!Write, FS!Returns
<1> QED BY Zenon, <1>4, <1>8 DEF FS!Next

(* A disk error under a write: a part of its bytes, from the first on, may  *)
(* be on the disk, and the position is moved if all of them are.            *)
LEMMA WriteErrorFS ==
  ASSUME Layout, KfsInv, NEW t \in Thread, WritesAtPos, DiskError(t), call[t].op = "write"
  PROVE  FS!Next
<1> DEFINE c == call[t]
           d == Descriptors[c.fd]
           k == FS!Fits(Len(c.buf), d.pos, CapOf[d.file])
           e == IF pc[t] = "winode" THEN c.done ELSE 0
<1>1. /\ pc[t] # "idle" /\ Return(t, Err(t, "EIO")) /\ UNCHANGED file_list
      /\ \/ UNCHANGED disk
         \/ pc[t] = "wdata" /\ WritesBlock(t)
         \/ pc[t] = "winode" /\ disk' = [disk EXCEPT ![Target(InodeAt(c.ino))] = inode]
  BY Zenon DEF DiskError, WritesBlock
<1>2. /\ d.open /\ c.fd \in Fd /\ c.buf \in WriteBufs /\ k \in Nat /\ c.done \in 0 .. k
      /\ (pc[t] = "winode" => c.done = k)
      /\ (pc[t] # "winode" =>
            \A m \in Nat : m <= c.n /\ Start(t) + m <= Room(c.ino) => m \in 0 .. k)
  BY Zenon, WriteFacts
<1>3. \E j \in 0 .. k : Overwritten(disk', settled, c.ino, Start(t), j, c.buf)
  <2>1. CASE UNCHANGED disk
    <3>1. DiskIs(t)
      BY Zenon, <1>1, OwnerDisk
    <3>2. Overwritten(disk', settled, c.ino, Start(t), c.done, c.buf)
      BY <2>1, <3>1, Zenon DEF DiskIs, Overwritten
    <3> QED BY <1>2, <3>2, Zenon
  <2>2. CASE pc[t] = "wdata" /\ WritesBlock(t)
    <3> DEFINE m == c.done + Chunk(c)
               pos == file_list[c.fd].file_pos
    <3>1. /\ m \in Nat /\ m <= c.n /\ pos + m <= Room(c.ino)
          /\ Overwritten(disk', settled, c.ino, pos, m, c.buf)
      BY Zenon, <2>2, BlockWritten
    <3>2. Start(t) = pos
      BY <2>2, OwnerFile DEF Start
    <3> HIDE DEF m, pos
    <3>3. m \in 0 .. k
      BY Zenon, <1>2, <2>2, <3>1, <3>2
    <3>4. Overwritten(disk', settled, c.ino, Start(t), m, c.buf)
      BY Zenon, <3>1, <3>2
    <3> QED BY <3>3, <3>4, Zenon
  <2>3. CASE pc[t] = "winode" /\ disk' = [disk EXCEPT ![Target(InodeAt(c.ino))] = inode]
    <3>1. UNCHANGED disk
      BY Zenon, <2>3, InodeWritten
    <3> QED BY Zenon, <2>1, <3>1
  <2> QED BY Zenon, <1>1, <2>1, <2>2, <2>3
<1>4. PICK j \in 0 .. k : Overwritten(disk', settled, c.ino, Start(t), j, c.buf)
  BY Zenon, <1>3
<1>5. ContentOf(settled)' = [ContentOf(settled) EXCEPT
        ![d.file] = FS!Overlay(ContentOf(settled)[d.file], d.pos, c.buf, j)]
  <2>1. j \in Nat
    <3> HIDE DEF k
    <3> QED OBVIOUS
  <2> QED BY <1>1, <1>4, <2>1, WrittenFS, Zenon
<1>6. Descriptors' = FS!Moved(c.fd, e) /\ e \in {0, k}
  BY Zenon, <1>1, <1>2, WriteReturnDescriptors
<1>7. result' = FS!Err(t, "EIO")
  BY Zenon, <1>1 DEF Return, Err, FS!Err
<1> HIDE DEF e
<1>8. FS!Write(t, c.fd, c.buf)
  BY <1>2, <1>5, <1>6, <1>7, Zenon DEF FS!Write, FS!Returns
<1> QED BY Zenon, <1>2, <1>8 DEF FS!Next

LEMMA DiskErrorFS ==
  ASSUME Layout, KfsInv, NEW t \in Thread, WritesAtPos, DiskError(t)
  PROVE  FS!Next
<1>1. CASE call[t].op = "write"
  BY Zenon, <1>1, WriteErrorFS
<1>2. CASE call[t].op # "write"
  <2>1. pc[t] # "idle" /\ Return(t, Err(t, "EIO")) /\ UNCHANGED file_list
    BY Zenon DEF DiskError
  <2>2. pc[t] \notin {"wdata", "winode"} /\ kfs_lock = t
    BY Zenon, <1>2, <2>1, Owner DEF KfsInv, LockInv, CallInv
  <2>3. UNCHANGED disk
    BY Zenon, <2>2 DEF DiskError
  <2> QED BY Zenon, <1>2, <2>1, <2>2, <2>3, FailFS
<1> QED BY Zenon, <1>1, <1>2

LEMMA InodeReadFS ==
  ASSUME FirstFree, KfsInv, NEW t \in Thread, InodeRead(t)
  PROVE  FS!Next \/ UNCHANGED FS!vars
<1> DEFINE c == call[t]
           f == file_list[c.fd]
<1>1. pc[t] = "inode" /\ UNCHANGED disk
  BY Zenon DEF InodeRead
<1>2. c \in CallRecord /\ c.op \in {"open", "read", "write"} /\ c.ino \in Ino
  BY Zenon, <1>1 DEF KfsInv, LockInv, CallInv
<1>3. disk[InodeAt(c.ino)] = ImageInode[c.ino]
  BY Zenon, <1>2 DEF KfsInv, MetaInv, MetadataIntact
<1>4. CASE c.op = "read"
  <2>1. ReadLoop(t, c, ImageInode[c.ino])
    BY <1>3, <1>4, Zenon DEF InodeRead
  <2>2. Len(c.buf) = c.done /\ c.done <= ToRead(c)
        /\ Copied(disk, c, f.file_pos)
    BY Zenon, <1>4 DEF KfsInv, ReadInv, Copied
  <2> QED BY Zenon, <1>1, <1>2, <1>4, <2>1, <2>2, ReadLoopFS
<1>5. CASE c.op = "write"
  <2>1. WriteLoop(t, c, ImageInode[c.ino])
    BY <1>3, <1>5, Zenon DEF InodeRead
  <2>2. Start(t) = f.file_pos
    BY <1>1, <1>5, OwnerFile DEF Start
  <2>3. f.file_pos + c.done <= Room(c.ino)
    BY Zenon, <1>5, <2>2 DEF KfsInv, WriteInv
  <2> QED BY Zenon, <1>1, <1>2, <1>5, <2>1, <2>3, WriteLoopFS
<1> QED BY Zenon, <1>2, <1>4, <1>5, AllocateFS

LEMMA DataReadFS ==
  ASSUME KfsInv, NEW t \in Thread, DataRead(t)
  PROVE  FS!Next \/ UNCHANGED FS!vars
<1> DEFINE c == call[t]
<1>1. pc[t] = "data"
  BY Zenon DEF DataRead
<1>2. c.op \in {"read", "write"} /\ kfs_lock = t
  BY Zenon, <1>1, Owner DEF KfsInv, LockInv, CallInv
<1>3. CASE c.op = "read"
  <2>1. PICK d \in CallRecord :
              /\ d.op = "read" /\ d.fd = c.fd /\ d.ino = c.ino /\ d.n = c.n
              /\ d.done = c.done + Chunk(c) /\ Len(d.buf) = d.done /\ d.done <= ToRead(d)
              /\ Copied(disk, d, file_list[d.fd].file_pos)
              /\ ReadLoop(t, d, ImageInode[d.ino]) /\ UNCHANGED disk /\ inode' = ImageInode[d.ino]
    BY Zenon, <1>3, DataReadReads
  <2> QED BY Zenon, <1>3, <2>1, ReadLoopFS
<1>4. CASE c.op = "write"
  <2>1. pc' = [pc EXCEPT ![t] = "wdata"] /\ UNCHANGED <<file_list, result, settled>>
    BY <1>4, Zenon DEF DataRead, Wait
  <2>2. \A u \in Thread : pc[u] # "winode"
    BY Zenon, <1>1, <1>2, Quiet DEF KfsInv
  <2>3. \A u \in Thread : pc'[u] # "winode"
    BY Zenon, <2>1, <2>2 DEF KfsInv, LockInv
  <2>4. UNCHANGED Descriptors
    BY Zenon, <2>1, <2>2, <2>3, SameDescriptors
  <2> QED BY Zenon, <2>1, <2>4, StutterFS
<1> QED BY Zenon, <1>2, <1>3, <1>4

LEMMA DataWriteFS ==
  ASSUME Layout, KfsInv, NEW t \in Thread, WritesAtPos, DataWrite(t)
  PROVE  UNCHANGED FS!vars
<1> DEFINE c == call[t]
           m == c.done + Chunk(c)
           d == [c EXCEPT !.done = m]
           pos == file_list[c.fd].file_pos
<1>1. pc[t] = "wdata" /\ WriteLoop(t, d, inode) /\ WritesBlock(t)
  BY Zenon DEF DataWrite, WritesBlock
<1>2. c.op = "write" /\ c \in CallRecord
  BY Zenon, <1>1 DEF KfsInv, LockInv, CallInv
<1>3. m \in Nat /\ pos + m <= Room(c.ino)
  BY Zenon, <1>1, BlockWritten
<1>4. d \in CallRecord /\ d.fd = c.fd /\ d.done = m
  <2>1. d = Counted(c, m)
    BY Zenon DEF Counted
  <2> HIDE DEF c, d, m
  <2> QED BY Zenon, <1>2, <1>3, <2>1, CountedCall
<1> HIDE DEF d, m
<1> QED BY Zenon, <1>1, <1>2, <1>3, <1>4, WriteLoopFS

(* Every step of the file system is a step of FileSys, or leaves the files, *)
(* the descriptors and the result as they were.                             *)
LEMMA NextFS ==
  ASSUME Layout, FirstFree, KfsInv, WritesAtPos, [Next]_vars
  PROVE  [FS!Next]_(FS!vars)
<1>1. ASSUME NEW t \in Thread, Answer(t) PROVE FS!Next \/ UNCHANGED FS!vars
  BY Zenon, <1>1, InodeReadFS, DataReadFS, DataWriteFS, InodeWriteFS, DiskErrorFS DEF Answer
<1>2. CASE UNCHANGED vars
  <2>1. UNCHANGED <<file_list, kfs_lock, pc, call, result, settled>>
    BY Zenon, <1>2 DEF vars
  <2>2. UNCHANGED Descriptors
    <3>1. \A fd \in Fd : PosOf(fd)' = PosOf(fd)
      BY Zenon, <2>1 DEF PosOf
    <3> QED BY Zenon, <2>1, <3>1 DEF Descriptors
  <2> QED BY Zenon, <2>1, <2>2, StutterFS
<1>3. CASE Next
  <2>1. ASSUME NEW t \in Thread, NEW fd \in Fd
        PROVE  /\ \A n \in ReadLen : ReadCall(t, fd, n) => FS!Next
               /\ \A n \in WriteLen : WriteCall(t, fd, n) => FS!Next
               /\ \A p \in Positions : fs_setpos(t, fd, p) => FS!Next
    BY Zenon, ReadCallFS, WriteCallFS, SetPosFS
  <2>2. ASSUME NEW t \in Thread, NEW name \in Name \cup {Unknown}, OpenCall(t, name)
        PROVE  FS!Next
    BY Zenon, <2>2, OpenCallFS
  <2>3. ASSUME NEW t \in Thread, NoBytes(t) PROVE FS!Next
    BY Zenon, <2>3, NoBytesFS
  <2>4. ASSUME NEW fd \in Fd, fs_close(fd) PROVE FS!Next
    BY Zenon, <2>4, CloseFS
  <2> QED BY <1>1, <1>3, <2>1, <2>2, <2>3, <2>4, Zenon DEF Next
<1> QED BY Zenon, <1>2, <1>3
-----------------------------------------------------------------------------
(* Where mkfs puts the blocks. *)
(* Cardinality as Kfs has it, for the theorems of the module instantiated.   *)
Size(S) == Cardinality(S)

LEMMA SizeIs ==
  \A S : Size(S) = (CHOOSE CS : CS = [T \in SUBSET S |->
                      IF T = {} THEN 0 ELSE 1 + CS[T \ {CHOOSE x : x \in T}]])[S]
  BY Zenon DEF Size, Cardinality

LOCAL INSTANCE FiniteSetTheorems

LEMMA SizeSame == \A S : Cardinality(S) = Size(S)
  BY SizeIs, Zenon DEF Cardinality

(* The blocks before those of file i, as pairs of a file and an index.      *)
Pairs(i, blocks) == UNION {{j} \X (0 .. blocks[j] - 1) : j \in 0 .. i - 1}

LEMMA PairsIn ==
  ASSUME NEW i \in Nat, NEW blocks, NEW x
  PROVE  x \in Pairs(i, blocks) <=>
           \E j \in 0 .. i - 1 : \E k \in 0 .. blocks[j] - 1 : x = <<j, k>>
  BY DEF Pairs

LEMMA PairsFinite ==
  ASSUME NEW i \in 0 .. NI, NEW blocks \in [Ino -> Nat]
  PROVE  IsFiniteSet(Pairs(i, blocks)) /\ Before(i, blocks) \in Nat
<1> DEFINE J == 0 .. i - 1
           f == [j \in J |-> {j} \X (0 .. blocks[j] - 1)]
           T == {{j} \X (0 .. blocks[j] - 1) : j \in J}
<1>0. NI \in Nat /\ i \in Nat /\ J \subseteq Ino
  BY ImageFacts DEF Ino
<1>1. IsFiniteSet(J)
  BY <1>0, FS_Interval
<1>2. f \in Surjection(J, T)
  BY Zenon DEF Surjection
<1>3. IsFiniteSet(T)
  <2> HIDE DEF f, T, J
  <2> QED BY Zenon, <1>1, <1>2, FS_Surjection
<1>4. ASSUME NEW j \in J PROVE IsFiniteSet({j} \X (0 .. blocks[j] - 1))
  <2>1. blocks[j] - 1 \in Int
    BY <1>0
  <2>2. IsFiniteSet({j})
    BY Zenon, FS_Singleton
  <2>3. \A m \in Int : IsFiniteSet(0 .. m)
    BY FS_Interval
  <2>4. IsFiniteSet(0 .. blocks[j] - 1)
    BY <2>1, <2>3, Zenon
  <2> QED BY Zenon, <2>2, <2>4, FS_Product
<1>5. \A U \in T : IsFiniteSet(U)
  BY Zenon, <1>4
<1>6. IsFiniteSet(UNION T)
  <2> HIDE DEF T
  <2> QED BY Zenon, <1>3, <1>5, FS_UNION
<1>7. Pairs(i, blocks) = UNION T /\ Before(i, blocks) = Cardinality(UNION T)
  BY Zenon, SizeSame DEF Size, Pairs, Before
<1> HIDE DEF T
<1> QED BY Zenon, <1>6, <1>7, FS_CardinalityType

(* mkfs numbers the blocks of the files on from one another.                *)
LEMMA BeforeStep ==
  ASSUME NEW i \in Ino, NEW blocks \in [Ino -> Nat]
  PROVE  Before(i + 1, blocks) = Before(i, blocks) + blocks[i]
<1> DEFINE A == Pairs(i, blocks)
           B == {i} \X (0 .. blocks[i] - 1)
<1>0. NI \in Nat /\ i \in Nat /\ i \in 0 .. NI /\ blocks[i] \in Nat
  BY ImageFacts DEF Ino
<1>1. Pairs(i + 1, blocks) = A \cup B
  <2>1. \A j : j \in 0 .. (i + 1) - 1 <=> j \in 0 .. i - 1 \/ j = i
    BY <1>0
  <2>2. \A x : x \in B <=> \E k \in 0 .. blocks[i] - 1 : x = <<i, k>>
    OBVIOUS
  <2>3. \A x : x \in Pairs(i + 1, blocks) <=> x \in A \/ x \in B
    <3> TAKE x
    <3> HIDE DEF B
    <3>1. i + 1 \in Nat
      BY <1>0
    <3>2. x \in Pairs(i + 1, blocks) <=>
            \E j \in 0 .. (i + 1) - 1 : \E k \in 0 .. blocks[j] - 1 : x = <<j, k>>
      BY <3>1, PairsIn
    <3>3. x \in A <=> \E j \in 0 .. i - 1 : \E k \in 0 .. blocks[j] - 1 : x = <<j, k>>
      BY <1>0, PairsIn
    <3> QED BY <2>1, <2>2, <3>2, <3>3, Zenon
  <2> HIDE DEF A, B
  <2> QED BY Zenon, <2>3
<1>2. A \cap B = {}
  <2> SUFFICES ASSUME NEW x \in A, x \in B PROVE FALSE
    BY Zenon
  <2>1. PICK j \in 0 .. i - 1 : \E k \in 0 .. blocks[j] - 1 : x = <<j, k>>
    BY <1>0, PairsIn
  <2> QED BY <1>0, <2>1
<1>3. IsFiniteSet(A) /\ Cardinality(A) = Before(i, blocks) /\ Before(i, blocks) \in Nat
  BY Zenon, <1>0, PairsFinite, SizeSame DEF Size, Pairs, Before
<1>4. IsFiniteSet(B) /\ Cardinality(B) = blocks[i]
  <2>1. IsFiniteSet({i}) /\ Cardinality({i}) = 1
    BY Zenon, FS_Singleton
  <2>2. IsFiniteSet(0 .. blocks[i] - 1) /\ Cardinality(0 .. blocks[i] - 1) = blocks[i]
    <3>1. blocks[i] - 1 \in Int
      BY <1>0
    <3> QED BY SMTT(30), <1>0, <3>1, FS_Interval
  <2>3. IsFiniteSet(B) /\ Cardinality(B) = Cardinality({i}) * Cardinality(0 .. blocks[i] - 1)
    BY Zenon, <2>1, <2>2, FS_Product
  <2> QED BY SMTT(30), <1>0, <2>1, <2>2, <2>3
<1> HIDE DEF A, B
<1>5. Cardinality(A \cup B) = Cardinality(A) + Cardinality(B) - Cardinality(A \cap B)
  BY Zenon, <1>3, <1>4, FS_Union
<1>6. Before(i + 1, blocks) = Cardinality(A \cup B)
  BY Zenon, <1>1, SizeSame DEF Size, Before, Pairs
<1>7. Cardinality(A \cap B) = 0
  BY Zenon, <1>2, FS_EmptySet
<1> QED BY SMTT(30), <1>0, <1>3, <1>4, <1>5, <1>6, <1>7

LEMMA BeforeMono ==
  ASSUME NEW i \in 0 .. NI, NEW j \in 0 .. NI, i <= j, NEW blocks \in [Ino -> Nat]
  PROVE  Before(i, blocks) <= Before(j, blocks)
<1>0. NI \in Nat /\ i \in Nat /\ j \in Nat
  BY ImageFacts
<1>1. Pairs(i, blocks) \subseteq Pairs(j, blocks)
  <2> SUFFICES ASSUME NEW x \in Pairs(i, blocks) PROVE x \in Pairs(j, blocks)
    BY Zenon
  <2>1. PICK l \in 0 .. i - 1 : \E k \in 0 .. blocks[l] - 1 : x = <<l, k>>
    BY <1>0, PairsIn
  <2>2. l \in 0 .. j - 1
    BY <1>0
  <2> QED BY Zenon, <1>0, <2>1, <2>2, PairsIn
<1>2. IsFiniteSet(Pairs(j, blocks))
  BY Zenon, PairsFinite
<1>3. Cardinality(Pairs(i, blocks)) <= Cardinality(Pairs(j, blocks))
  BY Zenon, <1>1, <1>2, FS_Subset
<1> QED BY Zenon, <1>3, SizeSame DEF Size, Pairs, Before

LEMMA Counts ==
  /\ Numbered \in [Ino -> Nat] /\ Stored \in [Ino -> Nat]
  /\ \A i \in 0 .. NI : Before(i, Stored) \in Nat
  /\ \A i \in Ino : Before(i, Numbered) = Before(i, Stored)
  /\ Cardinality(Written) = Before(NI, Stored)
<1>1. Numbered \in [Ino -> Nat] /\ Stored \in [Ino -> Nat]
  <2>1. DOMAIN Numbered = Ino /\ Numbered = [i \in Ino |-> Numbered[i]]
    BY Zenon DEF Numbered
  <2>2. DOMAIN Stored = Ino /\ Stored = [i \in Ino |-> Stored[i]]
    BY Zenon DEF Stored
  <2> QED BY Zenon, <2>1, <2>2, BlockCounts
<1>2. ASSUME NEW i \in 0 .. NI PROVE Before(i, Stored) \in Nat
  BY Zenon, <1>1, PairsFinite
<1>3. ASSUME NEW i \in Ino PROVE Before(i, Numbered) = Before(i, Stored)
  <2>1. i \in Nat /\ NI \in Nat
    BY Zenon, ImageFacts
  <2>2. \A j \in 0 .. i - 1 : Numbered[j] = Stored[j]
    <3> TAKE j \in 0 .. i - 1
    <3>1. j \in Ino /\ j < NI - 1
      BY <2>1 DEF Ino
    <3> QED BY Zenon, <3>1, BlockCounts
  <2>3. \A x : x \in Pairs(i, Numbered) <=> x \in Pairs(i, Stored)
    <3> TAKE x
    <3>1. x \in Pairs(i, Numbered) <=>
            \E j \in 0 .. i - 1 : \E k \in 0 .. Numbered[j] - 1 : x = <<j, k>>
      BY <2>1, PairsIn
    <3>2. x \in Pairs(i, Stored) <=>
            \E j \in 0 .. i - 1 : \E k \in 0 .. Stored[j] - 1 : x = <<j, k>>
      BY <2>1, PairsIn
    <3> QED BY <2>2, <3>1, <3>2, Zenon
  <2>4. Pairs(i, Numbered) = Pairs(i, Stored)
    BY Zenon, <2>3
  <2> QED BY Zenon, <2>4 DEF Before, Pairs
<1>4. Cardinality(Written) = Before(NI, Stored)
  <2> DEFINE w == Before(NI, Stored)
  <2>1. w \in Nat
    BY <1>2, ImageFacts
  <2>2. Cardinality(0 .. w - 1) = w
    <3> HIDE DEF w
    <3>1. w - 1 \in Int
      BY <2>1
    <3> QED BY SMTT(30), <2>1, <3>1, FS_Interval
  <2> QED BY Zenon, <2>2 DEF Written
<1> QED BY Zenon, <1>1, <1>2, <1>3, <1>4

(* Where the blocks of file i lie: after the inodes, each in a place of its  *)
(* own.                                                                      *)
LEMMA AddrIs ==
  ASSUME NEW i \in Ino, NEW k \in 0 .. Numbered[i] - 1
  PROVE  Addr(i, k) = 1 + NI + Before(i, Stored) + k /\ Addr(i, k) > NI /\ Addr(i, k) \in Nat
         /\ ImageInode[i].data_block_num[k] \in Nat
<1>1. ImageInode[i].data_block_num[k] = Before(i, Numbered) + k
  BY Zenon DEF ImageInode
<1>2. Before(i, Numbered) = Before(i, Stored) /\ Before(i, Stored) \in Nat /\ NI \in Nat
  BY Counts, ImageFacts DEF Ino
<1>3. k \in Nat
  BY BlockCounts
<1> QED BY <1>1, <1>2, <1>3 DEF Addr, DataAt

LEMMA AddrInDisk ==
  ASSUME NEW i \in Ino, NEW k \in 0 .. Stored[i] - 1
  PROVE  /\ Addr(i, k) \in NI + 1 .. NI + Cardinality(Written)
         /\ Addr(i, k) = 1 + NI + Before(i, Stored) + k
         /\ Before(i, Stored) + k < Before(i + 1, Stored)
<1>0. NI \in Nat /\ i \in Nat /\ i + 1 \in 0 .. NI /\ NI \in 0 .. NI /\ i \in 0 .. NI
  BY ImageFacts DEF Ino
<1>1. Before(i + 1, Stored) = Before(i, Stored) + Stored[i]
  BY Zenon, Counts, BeforeStep
<1>2. Before(i + 1, Stored) <= Before(NI, Stored)
  BY SMTT(30), <1>0, Counts, BeforeMono
<1>3. Stored[i] \in Nat /\ Stored[i] <= Numbered[i] /\ Numbered[i] \in Nat
  BY Zenon, BlockCounts
<1>4. Addr(i, k) = 1 + NI + Before(i, Stored) + k
  <2>1. k \in 0 .. Numbered[i] - 1
    BY <1>3
  <2> QED BY Zenon, <2>1, AddrIs
<1>5. /\ Before(i, Stored) \in Nat /\ Before(i + 1, Stored) \in Nat /\ Before(NI, Stored) \in Nat
      /\ Cardinality(Written) = Before(NI, Stored)
  BY Zenon, <1>0, Counts
<1> QED BY SMTT(30), <1>0, <1>1, <1>2, <1>3, <1>4, <1>5

LEMMA AddrInjective ==
  ASSUME NEW i \in Ino, NEW k \in 0 .. Stored[i] - 1, NEW j \in Ino, NEW m \in 0 .. Stored[j] - 1,
         Addr(i, k) = Addr(j, m)
  PROVE  i = j /\ k = m
<1>0. NI \in Nat /\ i \in Nat /\ j \in Nat /\ {i, j, i + 1, j + 1} \subseteq 0 .. NI
  BY ImageFacts DEF Ino
<1>1. /\ Addr(i, k) = 1 + NI + Before(i, Stored) + k /\ Before(i, Stored) + k < Before(i + 1, Stored)
      /\ Addr(j, m) = 1 + NI + Before(j, Stored) + m /\ Before(j, Stored) + m < Before(j + 1, Stored)
  BY Zenon, AddrInDisk
<1>2. /\ Before(i, Stored) \in Nat /\ Before(i + 1, Stored) \in Nat
      /\ Before(j, Stored) \in Nat /\ Before(j + 1, Stored) \in Nat
  BY Zenon, <1>0, Counts
<1>3. k \in Nat /\ m \in Nat
  BY BlockCounts
<1>4. Before(i, Stored) + k = Before(j, Stored) + m
  <2>1. 1 + NI + Before(i, Stored) + k = 1 + NI + Before(j, Stored) + m
    BY <1>1, Zenon
  <2>2. NI \in Nat
    BY Zenon, <1>0
  <2> QED BY SMTT(30), <1>2, <1>3, <2>1, <2>2
<1>5. ~(i < j)
  <2> SUFFICES ASSUME i < j PROVE FALSE
    BY Zenon
  <2>1. Before(i + 1, Stored) <= Before(j, Stored)
    BY SMTT(30), <1>0, Counts, BeforeMono
  <2> QED BY SMTT(30), <1>1, <1>2, <1>3, <1>4, <2>1
<1>6. ~(j < i)
  <2> SUFFICES ASSUME j < i PROVE FALSE
    BY Zenon
  <2>1. Before(j + 1, Stored) <= Before(i, Stored)
    BY SMTT(30), <1>0, Counts, BeforeMono
  <2> QED BY SMTT(30), <1>1, <1>2, <1>3, <1>4, <2>1
<1>7. i = j
  BY SMTT(30), <1>0, <1>5, <1>6
<1> QED BY SMTT(30), <1>2, <1>3, <1>4, <1>7

LEMMA LayoutHolds == Layout
<1>1. Cardinality(Written) \in Nat
  BY Counts, ImageFacts
<1>2. ASSUME NEW i \in Ino, NEW k \in 0 .. Stored[i] - 1
      PROVE  Addr(i, k) \in NI + 1 .. NI + Cardinality(Written)
  BY Zenon, AddrInDisk
<1> QED BY Zenon, <1>1, <1>2, AddrInjective, SizeSame DEF Size, Layout

LEMMA FirstFreeHolds == FirstFree
<1> SUFFICES ASSUME NEW S \in SUBSET Fd, S # {} PROVE \E a \in S : \A b \in S : a <= b
  BY Zenon DEF FirstFree
<1> DEFINE R == OpToRel(<, Nat)
<1>0. S \subseteq Nat
  BY Zenon, FdFacts
<1>1. IsWellFoundedOn(R, Nat)
  BY NatLessThanWellFounded, Zenon
<1>2. \E a \in S : \A b \in S : ~(<<b, a>> \in R)
  BY <1>0, <1>1, WFMin, Zenon
<1>3. \A a, b \in Nat : <<a, b>> \in R <=> a < b
  BY Zenon DEF OpToRel
<1> HIDE DEF R
<1>4. PICK a \in S : \A b \in S : ~(<<b, a>> \in R)
  BY Zenon, <1>2
<1>5. \A b \in S : ~(b < a)
  BY Zenon, <1>0, <1>3, <1>4
<1>6. \A b \in S : a <= b
  BY <1>0, <1>5
<1> QED BY <1>6, Zenon

LEMMA ImageBlocks ==
  ASSUME NEW i \in Ino, NEW k \in 0 .. Stored[i] - 1
  PROVE  Image[Addr(i, k)] =
           [j \in 0 .. FS_BLKSZ - 1 |-> FileByte(Dentries[i + 1], (k * FS_BLKSZ) + j)]
<1> DEFINE d == Before(i, Stored) + k
           In(m) == d \in Before(m, Stored) .. Before(m + 1, Stored) - 1
<1>0. NI \in Nat /\ i \in Nat /\ i \in 0 .. NI /\ i + 1 \in 0 .. NI /\ k \in Nat
  BY ImageFacts, BlockCounts DEF Ino
<1>1. /\ Addr(i, k) \in NI + 1 .. NI + Cardinality(Written) /\ Addr(i, k) = 1 + NI + d
      /\ d < Before(i + 1, Stored)
  <2>1. /\ Addr(i, k) \in NI + 1 .. NI + Cardinality(Written)
        /\ Addr(i, k) = 1 + NI + Before(i, Stored) + k
        /\ d < Before(i + 1, Stored)
    BY Zenon, AddrInDisk
  <2>2. Before(i, Stored) \in Nat
    BY Zenon, <1>0, Counts
  <2>3. 1 + NI + Before(i, Stored) + k = 1 + NI + d
    BY SMTT(30), <1>0, <2>2
  <2> QED BY Zenon, <2>1, <2>3
<1>2. Before(i, Stored) \in Nat /\ Before(i + 1, Stored) \in Nat /\ d \in Nat
  BY SMTT(30), <1>0, Counts
<1>3. In(i)
  BY SMTT(30), <1>0, <1>1, <1>2
<1>4. ASSUME NEW m \in Ino, In(m) PROVE m = i
  <2>0. m \in Nat /\ m \in 0 .. NI /\ m + 1 \in 0 .. NI
    BY ImageFacts DEF Ino
  <2>1. /\ Before(m, Stored) \in Nat /\ Before(m + 1, Stored) \in Nat
        /\ Before(m, Stored) <= d /\ d < Before(m + 1, Stored)
    <3>1. Before(m, Stored) \in Nat /\ Before(m + 1, Stored) \in Nat
      BY Zenon, <2>0, Counts
    <3> QED BY SMTT(30), <1>2, <1>4, <3>1
  <2>2. m < i => Before(m + 1, Stored) <= Before(i, Stored)
    BY SMTT(30), <1>0, <2>0, Counts, BeforeMono
  <2>3. i < m => Before(i + 1, Stored) <= Before(m, Stored)
    BY SMTT(30), <1>0, <2>0, Counts, BeforeMono
  <2>4. Before(i, Stored) <= d
    BY <1>0, <1>2
  <2> HIDE DEF d
  <2> QED BY SMTT(30), <1>0, <1>1, <1>2, <2>0, <2>1, <2>2, <2>3, <2>4
<1>5. (CHOOSE m \in Ino : In(m)) = i
  <2> HIDE DEF In
  <2> QED BY Zenon, <1>3, <1>4
<1>6. Image[Addr(i, k)] = ImageBlock(d)
  <2> DEFINE b == Addr(i, k)
  <2>1. b \in 0 .. NI + Cardinality(Written) /\ b # BOOT /\ b \notin 1 .. NI
    <3>1. Cardinality(Written) \in Nat
      BY Counts, ImageFacts
    <3> HIDE DEF b
    <3>2. b \in NI + 1 .. NI + Cardinality(Written)
      BY Zenon, <1>1 DEF b
    <3> QED BY SMTT(30), <1>0, <3>1, <3>2 DEF BOOT
  <2>2. b - 1 - NI = d
    BY SMTT(30), <1>0, <1>1, <1>2
  <2> HIDE DEF b, d
  <2>3. Image[b] = ImageBlock(b - 1 - NI)
    BY Zenon, <2>1, SizeSame DEF Size, Image
  <2> QED BY Zenon, <2>2, <2>3 DEF b
<1>7. d - Before(i, Stored) = k
  BY <1>0, <1>2
<1> HIDE DEF d
<1>8. ImageBlock(d) = LET m == CHOOSE m \in Ino : In(m)
                          e == d - Before(m, Stored)
                      IN [j \in 0 .. FS_BLKSZ - 1 |-> FileByte(Dentries[m + 1], (e * FS_BLKSZ) + j)]
  BY Zenon DEF ImageBlock
<1> HIDE DEF In
<1>9. ImageBlock(d) = [j \in 0 .. FS_BLKSZ - 1 |-> FileByte(Dentries[i + 1], (k * FS_BLKSZ) + j)]
  BY <1>5, <1>7, <1>8, Zenon
<1> QED BY <1>6, <1>9, Zenon

LEMMA ImageBytes ==
  ASSUME NEW i \in Ino, NEW p \in 0 .. Room(i) - 1
  PROVE  ByteAt(Image, i, p) = FileByte(Dentries[i + 1], p)
<1> DEFINE k == p \div FS_BLKSZ
           r == p % FS_BLKSZ
<1>1. k \in 0 .. Stored[i] - 1 /\ r \in 0 .. FS_BLKSZ - 1 /\ (k * FS_BLKSZ) + r = p
  BY Zenon, BlockOf
<1> HIDE DEF k, r
<1>2. Image[Addr(i, k)] =
        [j \in 0 .. FS_BLKSZ - 1 |-> FileByte(Dentries[i + 1], (k * FS_BLKSZ) + j)]
  BY Zenon, <1>1, ImageBlocks
<1>3. Image[Addr(i, k)][r] = FileByte(Dentries[i + 1], (k * FS_BLKSZ) + r)
  BY Zenon, <1>1, <1>2
<1> QED BY Zenon, <1>1, <1>3 DEF ByteAt, k, r
-----------------------------------------------------------------------------
LEMMA KfsInit == Init => KfsInv
<1> SUFFICES ASSUME Init PROVE KfsInv
  BY Zenon
<1> USE DEF Init
<1>1. FilesInv
  <2>1. \A fd \in Fd : file_list[fd] = FreeFile
    BY Zenon
  <2>2. FreeFile \in File /\ ~FreeFile.in_use
    BY Zenon DEF File, FreeFile
  <2>3. file_list \in [Fd -> File]
    BY Zenon, <2>2
  <2> QED BY <2>1, <2>2, <2>3, Zenon DEF FilesInv
<1>2. LockInv
  <2>1. pc \in [Thread -> Access] /\ call \in [Thread -> CallRecord]
    BY Zenon, NoCallType DEF Access
  <2>2. \A t \in Thread : pc[t] = "idle" /\ call[t] = NoCall
    BY Zenon
  <2> QED BY Zenon, <2>1, <2>2, Sizes DEF LockInv, LockDiscipline, CallInv
<1>3. MetaInv
  <2>0. NI \in Nat /\ Cardinality(Written) \in Nat
    BY SMTT(30), ImageFacts, Counts
  <2>1. DOMAIN disk = 0 .. NI + Cardinality(Written) /\ disk = [b \in DOMAIN disk |-> disk[b]]
    BY SizeSame DEF Size, Image
  <2>2. disk[BOOT] = BootBlock
    <3>1. BOOT \in 0 .. NI + Cardinality(Written)
      BY <2>0 DEF BOOT
    <3> HIDE DEF Init
    <3>2. BOOT \notin 1 .. NI
      BY <2>0 DEF BOOT
    <3>3. Image[BOOT] = BootBlock
      BY Zenon, <3>1, <3>2, SizeSame DEF Size, Image
    <3> QED BY Zenon, <3>3 DEF Init
  <2>3. ASSUME NEW i \in Ino PROVE disk[InodeAt(i)] = ImageInode[i]
    <3>1. /\ InodeAt(i) \in 0 .. NI + Cardinality(Written) /\ InodeAt(i) # BOOT
          /\ InodeAt(i) \in 1 .. NI /\ InodeAt(i) - 1 = i
      BY <2>0 DEF BOOT, InodeAt, Ino
    <3> HIDE DEF Init
    <3>2. Image[InodeAt(i)] = ImageInode[InodeAt(i) - 1]
      BY Zenon, <3>1, SizeSame DEF Size, Image
    <3> QED BY Zenon, <3>1, <3>2 DEF Init
  <2> QED BY Zenon, <2>1, <2>2, <2>3, SizeSame DEF Size, MetaInv, MetadataIntact
<1>4. BlockInv
  <2> SUFFICES ASSUME NEW i \in Ino, NEW k \in 0 .. Stored[i] - 1 PROVE disk[Addr(i, k)] \in Block
    BY Zenon DEF BlockInv
  <2>1. disk[Addr(i, k)] =
          [j \in 0 .. FS_BLKSZ - 1 |-> FileByte(Dentries[i + 1], (k * FS_BLKSZ) + j)]
    BY Zenon, ImageBlocks
  <2>2. ASSUME NEW j \in 0 .. FS_BLKSZ - 1
        PROVE  FileByte(Dentries[i + 1], (k * FS_BLKSZ) + j) \in Byte
    <3>1. Dentries[i + 1] \in Name
      BY Zenon, ImageFacts
    <3>2. (k * FS_BLKSZ) + j \in Nat
      BY SMTT(30), BlockCounts, Sizes
    <3> QED BY Zenon, <3>1, <3>2 DEF FileByte, Byte
  <2> QED BY Zenon, <2>1, <2>2 DEF Block
<1>5. DiskInv
  <2>1. \A i, p : InProgress(i, p) = {}
    BY Zenon, NoCallType DEF InProgress
  <2> QED BY <2>1, Zenon DEF DiskInv
<1>6. \A t \in Thread : ReadInv(t) /\ WriteInv(t)
  BY Zenon, NoCallType DEF ReadInv, WriteInv
<1> QED BY Zenon, <1>1, <1>2, <1>3, <1>4, <1>5, <1>6 DEF KfsInv

(* After fs_mount the files are the ones of the image, and none is open.    *)
LEMMA InitFS == Init => FS!Init
<1> SUFFICES ASSUME Init PROVE FS!Init
  OBVIOUS
<1>1. ContentOf(settled) = FileImage
  <2>1. settled = Image
    BY Zenon DEF Init
  <2>2. ASSUME NEW f \in Name
        PROVE  [p \in 0 .. Room(InoOf[f]) - 1 |-> ByteAt(Image, InoOf[f], p)]
                 = [i \in 0 .. CapOf[f] - 1 |-> FileByte(f, i)]
    <3>1. InoOf[f] \in Ino /\ Dentries[InoOf[f] + 1] = f
      BY Zenon, NameFacts
    <3>2. CapOf[f] = Room(InoOf[f])
      BY Zenon, <3>1, NameOfIno
    <3>3. \A p \in 0 .. Room(InoOf[f]) - 1 : ByteAt(Image, InoOf[f], p) = FileByte(f, p)
      BY Zenon, <3>1, ImageBytes
    <3> QED BY Zenon, <3>2, <3>3
  <2>3. ContentOf(Image) =
          [f \in Name |-> [p \in 0 .. Room(InoOf[f]) - 1 |-> ByteAt(Image, InoOf[f], p)]]
    BY Zenon, ContentIs
  <2>4. ContentOf(Image) = FileImage
    BY Zenon, <2>2, <2>3 DEF FileImage
  <2> QED BY Zenon, <2>1, <2>4
<1>2. Descriptors = [fd \in Fd |-> FS!Closed]
  <2>1. \A fd \in Fd : ~file_list[fd].in_use
    BY Zenon DEF Init, FreeFile
  <2> QED BY Zenon, <2>1 DEF Descriptors, FS!Closed
<1>3. result = FS!NoResult
  BY Zenon DEF Init, NoResult, Ok, FS!NoResult, FS!Ok
<1> QED BY Zenon, <1>1, <1>2, <1>3 DEF FS!Init

(* The inductive invariant of the file system over a disk that writes where *)
(* fs_write has set the position.                                           *)
LEMMA KfsInvariant ==
  ASSUME WritesAtPos
  PROVE  Spec => []KfsInv
<1>1. KfsInv /\ [Next]_vars => KfsInv'
  BY Zenon, LayoutHolds, FirstFreeHolds, KfsStep
<1> QED BY KfsInit, <1>1, PTL DEF Spec

(* MetadataIntact for every image, over a disk that writes where fs_write    *)
(* has set the position: fs_write changes data blocks only, whatever lengths *)
(* the files have, however many threads read and write them and wherever the *)
(* disk fails.                                                               *)
THEOREM MetadataCorrect ==
  ASSUME WritesAtPos
  PROVE  Spec => []MetadataIntact
<1>1. KfsInv => MetadataIntact
  BY Zenon DEF KfsInv, MetaInv
<1> QED BY KfsInvariant, <1>1, PTL

(* WritesReachFile, likewise: before write_inode the bytes fs_write counts   *)
(* as written are in the blocks of the file.                                 *)
THEOREM WritesReachFileHolds ==
  ASSUME WritesAtPos
  PROVE  Spec => []WritesReachFile
<1>1. KfsInv => WritesReachFile
  <2> SUFFICES ASSUME KfsInv, NEW t \in Thread, pc[t] = "winode",
                      NEW i \in 0 .. call[t].done - 1
               PROVE  LET c == call[t]
                          p == file_list[c.fd].file_pos - c.done + i
                      IN disk[DataAt(inode.data_block_num[p \div FS_BLKSZ])][p % FS_BLKSZ]
                           = c.buf[i + 1]
    BY Zenon DEF WritesReachFile
  <2> DEFINE c == call[t]
             start == file_list[c.fd].file_pos - c.done
             p == start + i
  <2>1. inode = ImageInode[c.ino] /\ c.op = "write"
    BY Zenon DEF KfsInv, LockInv, CallInv
  <2>2. /\ c.ino \in Ino /\ c.done \in Nat /\ file_list[c.fd].file_pos \in Nat
        /\ Room(c.ino) \in Nat
    BY Zenon, <2>1, OwnerFile
  <2>3. Start(t) = start
    BY Zenon DEF Start
  <2>4. 0 <= start /\ start + c.done <= Room(c.ino)
    BY Zenon, <2>1, <2>3 DEF KfsInv, WriteInv
  <2>5. p \in 0 .. Room(c.ino) - 1 /\ p \in start .. start + c.done - 1 /\ p - start + 1 = i + 1
    BY <2>2, <2>4, SMTT(30)
  <2>6. DiskIs(t)
    BY Zenon, OwnerDisk
  <2> HIDE DEF p, start
  <2>7. ByteAt(disk, c.ino, p) = c.buf[p - start + 1]
    BY <2>1, <2>2, <2>3, <2>5, <2>6, Zenon DEF DiskIs
  <2> QED BY Zenon, <2>1, <2>5, <2>7 DEF ByteAt, Addr, p, start
<1> QED BY KfsInvariant, <1>1, PTL

(* ImplementsFileSys for every image, every number of threads and            *)
(* descriptors and all call arguments, over a disk that writes where         *)
(* fs_write has set the position: fs_open, fs_read, fs_write, fs_setpos and  *)
(* fs_close, with their waits for the disk, the shared caches and the disk   *)
(* errors, act on files and descriptors as if each call were one step.       *)
THEOREM FileSysImplemented ==
  ASSUME WritesAtPos
  PROVE  Spec => ImplementsFileSys
<1>1. KfsInv /\ [Next]_vars => [FS!Next]_(FS!vars)
  BY Zenon, LayoutHolds, FirstFreeHolds, NextFS
<1> QED BY KfsInvariant, InitFS, <1>1, PTL DEF Spec, ImplementsFileSys, FS!Spec
=============================================================================
