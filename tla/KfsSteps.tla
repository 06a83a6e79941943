------------------------------ MODULE KfsSteps ------------------------------
(***************************************************************************)
(* The invariant of Kfs and a lemma for each of its steps, for every       *)
(* number of threads and descriptors, every size of a block, and every     *)
(* image of mkfs in which no file but the last fills its last block        *)
(* (ImageAssumption). KfsProofs has the theorems.                          *)
(*                                                                         *)
(* KfsInv: the thread in a call has the inode of its own file in the       *)
(* cache; the disk is the disk of the last return with the bytes that call *)
(* has written so far laid over its own file; and the buffer of a read     *)
(* holds the bytes at its descriptor's position. It holds over a disk that *)
(* writes where fs_write has set the position (hypothesis WritesAtPos: the *)
(* in-memory disk of the tests); over vioblk the run kfs_vioblk refutes    *)
(* WritesReachFile. PcInv, at the end, is about any disk.                  *)
(*                                                                         *)
(* Layout and FirstFree are hypotheses here: KfsProofs proves them from    *)
(* facts about finite sets that nothing else needs.                        *)
(***************************************************************************)
EXTENDS Kfs, TLAPS

Byte == (Thread \cup Name) \X Nat
Access == {"idle", "inode", "data", "wdata", "winode"}
File == [in_use : BOOLEAN, ino : Nat, file_pos : Nat, file_size : Nat]
CallRecord == [op : {"none", "open", "read", "write"}, fd : Nat, ino : Nat,
               buf : Seq(Byte), n : Nat, done : Nat]
Block == [0 .. FS_BLKSZ - 1 -> Byte]

Room(i) == Stored[i] * FS_BLKSZ    \* bytes in the blocks of file i
Addr(i, k) == DataAt(ImageInode[i].data_block_num[k])
ByteAt(dk, i, p) == dk[Addr(i, p \div FS_BLKSZ)][p % FS_BLKSZ]

(* Descriptors in use name a file of the image, with its length, and a       *)
(* position in its blocks.                                                   *)
FilesInv ==
  /\ file_list \in [Fd -> File]
  /\ \A fd \in Fd : LET f == file_list[fd]
                    IN f.in_use => /\ f.ino \in Ino /\ f.file_size = LenOf(f.ino)
                                   /\ f.file_pos <= Room(f.ino)

(* What thread t is doing, and that nobody has changed the cached inode      *)
(* since it was loaded for t.                                                *)
CallInv(t) ==
  LET c == call[t]
  IN IF pc[t] = "idle"
     THEN c = NoCall
     ELSE /\ c.op \in {"open", "read", "write"} /\ c.ino \in Ino
          /\ c.op = "open" => pc[t] = "inode"
          /\ c.op = "read" => pc[t] \in {"inode", "data"}
          /\ c.op # "open" => /\ c.fd \in Fd /\ file_list[c.fd].in_use
                              /\ file_list[c.fd].ino = c.ino
          /\ pc[t] \in {"data", "wdata", "winode"} => inode = ImageInode[c.ino]
          /\ pc[t] \in {"data", "wdata"} => BlockIdx(c) < Allocated(inode)

LockInv ==
  /\ pc \in [Thread -> Access] /\ kfs_lock \in Thread \cup {NoThread}
  /\ call \in [Thread -> CallRecord]
  /\ LockDiscipline
  /\ \A t \in Thread : CallInv(t)

MetaInv ==
  /\ DOMAIN disk = 0 .. NI + Cardinality(Written)
  /\ disk = [b \in DOMAIN disk |-> disk[b]]
  /\ MetadataIntact

(* A read has copied the bytes of its file from its position on. *)
ReadInv(t) ==
  LET c == call[t]
      f == file_list[c.fd]
  IN c.op = "read" =>
       /\ c.n \in ReadLen /\ f.file_pos < f.file_size
       /\ c.done <= ToRead(c) /\ Len(c.buf) = c.done
       /\ \A i \in 1 .. c.done : c.buf[i] = ByteAt(disk, c.ino, f.file_pos + i - 1)
       /\ pc[t] = "inode" => c.done = 0
       /\ pc[t] = "data" => c.done < ToRead(c)

(* The position a write began at: fs_write moves it before write_inode. *)
Start(t) == file_list[call[t].fd].file_pos - (IF pc[t] = "winode" THEN call[t].done ELSE 0)

(* A write goes on until its bytes or the blocks of the file are used up,    *)
(* and before it writes a block back the cached one is that block with the   *)
(* next bytes in their place.                                                *)
WriteInv(t) ==
  LET c == call[t]
      off == Offset(c) % FS_BLKSZ
  IN c.op = "write" =>
       /\ c.n \in WriteLen /\ c.buf = Buf(t, c.n)
       /\ 0 <= Start(t) /\ c.done <= c.n /\ Start(t) + c.done <= Room(c.ino)
       /\ pc[t] = "inode" => c.done = 0
       /\ pc[t] \in {"data", "wdata"} => c.done < c.n
       /\ pc[t] = "winode" => c.done = c.n \/ Start(t) + c.done = Room(c.ino)
       /\ pc[t] = "wdata" =>
            data_block = [j \in 0 .. FS_BLKSZ - 1 |->
              IF j \in off .. off + Chunk(c) - 1
              THEN c.buf[c.done + j - off + 1]
              ELSE disk[Addr(c.ino, BlockIdx(c))][j]]

(* What is on the disk is what was there when the last call returned, with   *)
(* the first done bytes of the write in progress over it.                    *)
InProgress(i, p) ==
  {t \in Thread : /\ call[t].op = "write" /\ call[t].ino = i
                  /\ p \in Start(t) .. Start(t) + call[t].done - 1}

DiskInv ==
  \A i \in Ino : \A p \in 0 .. Room(i) - 1 :
    /\ InProgress(i, p) = {} => ByteAt(disk, i, p) = ByteAt(settled, i, p)
    /\ \A t \in InProgress(i, p) : ByteAt(disk, i, p) = call[t].buf[p - Start(t) + 1]

BlockInv == \A i \in Ino : \A k \in 0 .. Stored[i] - 1 : disk[Addr(i, k)] \in Block

KfsInv ==
  /\ FilesInv /\ LockInv /\ MetaInv /\ BlockInv /\ DiskInv
  /\ \A t \in Thread : ReadInv(t) /\ WriteInv(t)
-----------------------------------------------------------------------------
(* The image. *)
LEMMA Sizes == FS_BLKSZ \in Nat \ {0} /\ FS_BLKSZ \in Int /\ NoThread \notin Thread
  BY KfsAssumption

LEMMA Arithmetic ==
  /\ \A a \in Nat : 0 <= a /\ a - 0 = a
  /\ \A a, b \in Nat : a + b \in Nat /\ (a + b) - b = a
  /\ \A a, b \in Nat : a <= b /\ ~(a < b) => a = b
  /\ \A a, b, d \in Nat : a < b => /\ b - a \in Nat /\ Min2(d, b - a) \in Nat
                                   /\ Min2(d, b - a) <= b - a
  BY DEF Min2

LEMMA Element ==
  ASSUME NEW S, NEW s \in Seq(S), NEW i \in 1 .. Len(s)
  PROVE  s[i] \in S
  OBVIOUS

LEMMA Division ==
  ASSUME NEW a \in Nat
  PROVE  /\ a = (FS_BLKSZ * (a \div FS_BLKSZ)) + (a % FS_BLKSZ)
         /\ a % FS_BLKSZ \in 0 .. FS_BLKSZ - 1 /\ a \div FS_BLKSZ \in Nat
  BY Sizes, SMTT(30)

(* A quotient is below m exactly when the number is below m whole blocks.   *)
LEMMA QuotientBound ==
  ASSUME NEW a \in Nat, NEW m \in Nat
  PROVE  a \div FS_BLKSZ < m <=> a < m * FS_BLKSZ
<1> DEFINE q == a \div FS_BLKSZ
           r == a % FS_BLKSZ
<1>1. a = (FS_BLKSZ * q) + r /\ r \in 0 .. FS_BLKSZ - 1 /\ q \in Nat
  BY Zenon, Division
<1> HIDE DEF q, r
<1>2. CASE q < m
  <2>1. q + 1 <= m
    BY <1>1, <1>2
  <2>2. FS_BLKSZ * (q + 1) <= m * FS_BLKSZ
    BY <1>1, <2>1, Sizes, SMTT(30)
  <2>3. FS_BLKSZ * (q + 1) = (FS_BLKSZ * q) + FS_BLKSZ
    BY <1>1, Sizes, SMTT(30)
  <2>4. FS_BLKSZ * q \in Int /\ m * FS_BLKSZ \in Int
    BY <1>1, Sizes
  <2> QED BY <1>1, <1>2, <2>2, <2>3, <2>4, Sizes DEF q
<1>3. CASE ~(q < m)
  <2>1. FS_BLKSZ * q >= m * FS_BLKSZ
    BY <1>1, <1>3, Sizes, SMTT(30)
  <2>2. FS_BLKSZ * q \in Int /\ m * FS_BLKSZ \in Int
    BY <1>1, Sizes
  <2> QED BY <1>1, <1>3, <2>1, <2>2, Sizes DEF q
<1> QED BY Zenon, <1>2, <1>3

LEMMA ImageFacts ==
  /\ NI \in Nat /\ DOMAIN Dentries = 1 .. NI /\ Ino \subseteq Nat
  /\ \A i \in Ino : Dentries[i + 1] \in Name /\ LenOf(i) \in Nat
<1>1. NI \in Nat /\ DOMAIN Dentries = 1 .. NI
  BY KfsAssumption DEF NI
<1>2. ASSUME NEW i \in Ino PROVE Dentries[i + 1] \in Name /\ LenOf(i) \in Nat
  <2>1. i + 1 \in DOMAIN Dentries
    BY <1>1 DEF Ino
  <2>2. Dentries[i + 1] \in Name
    BY Zenon, <2>1 DEF Name, Range
  <2> QED BY Zenon, <2>2, KfsAssumption DEF LenOf
<1> QED BY <1>1, <1>2 DEF Ino

LEMMA BlockCounts ==
  ASSUME NEW i \in Ino
  PROVE  /\ Numbered[i] \in Nat \ {0} /\ Stored[i] \in Nat /\ Stored[i] <= Numbered[i]
         /\ i < NI - 1 => Stored[i] = Numbered[i]
         /\ LenOf(i) <= Room(i) /\ Room(i) \in Nat
         /\ Stored[i] = (LenOf(i) + FS_BLKSZ - 1) \div FS_BLKSZ
<1> DEFINE n == LenOf(i)
           q == n \div FS_BLKSZ
           r == n % FS_BLKSZ
           s == (n + FS_BLKSZ - 1) \div FS_BLKSZ
           u == (n + FS_BLKSZ - 1) % FS_BLKSZ
<1>0. Numbered[i] = q + 1 /\ Stored[i] = s
  BY Zenon DEF Numbered, Stored, NumBlocks, BlocksWritten
<1>1. n \in Nat /\ n + FS_BLKSZ - 1 \in Nat
  BY ImageFacts, Sizes
<1>2. n = (FS_BLKSZ * q) + r /\ r \in 0 .. FS_BLKSZ - 1 /\ q \in Nat
  BY Zenon, <1>1, Division
<1>3. n + FS_BLKSZ - 1 = (FS_BLKSZ * s) + u /\ u \in 0 .. FS_BLKSZ - 1 /\ s \in Nat
  BY Zenon, <1>1, Division
<1>4. i < NI - 1 => r # 0
  BY Zenon, ImageAssumption
<1> HIDE DEF n, q, r, s, u
<1>5. FS_BLKSZ * (q + 1) = (FS_BLKSZ * q) + FS_BLKSZ /\ FS_BLKSZ * (s + 1) = (FS_BLKSZ * s) + FS_BLKSZ
      /\ FS_BLKSZ * q \in Int /\ FS_BLKSZ * s \in Int
  BY <1>2, <1>3, Sizes, SMTT(30)
<1>6. s <= q + 1
  <2> SUFFICES ASSUME s >= q + 2 PROVE FALSE
    BY <1>2, <1>3
  <2>1. FS_BLKSZ * s >= FS_BLKSZ * (q + 2)
    BY <1>2, <1>3, Sizes, SMTT(30)
  <2>2. FS_BLKSZ * (q + 2) = (FS_BLKSZ * q) + FS_BLKSZ + FS_BLKSZ
    BY <1>2, Sizes, SMTT(30)
  <2> QED BY <1>1, <1>2, <1>3, <1>5, <2>1, <2>2, Sizes
<1>7. r # 0 => s = q + 1
  <2> SUFFICES ASSUME r # 0, s <= q PROVE FALSE
    BY <1>2, <1>3, <1>6
  <2>1. FS_BLKSZ * s <= FS_BLKSZ * q
    BY <1>2, <1>3, Sizes, SMTT(30)
  <2> QED BY <1>1, <1>2, <1>3, <1>5, <2>1, Sizes
<1>8. n <= FS_BLKSZ * s
  BY <1>1, <1>3, <1>5, Sizes
<1>9. Room(i) = FS_BLKSZ * s /\ Room(i) \in Nat
  BY <1>0, <1>3, Sizes, SMTT(30) DEF Room
<1> QED BY <1>0, <1>2, <1>3, <1>4, <1>6, <1>7, <1>8, <1>9 DEF n, s

(* The blocks of the files lie after the inodes, each in a place of its own. *)
Layout ==
  /\ Cardinality(Written) \in Nat
  /\ \A i \in Ino : \A k \in 0 .. Stored[i] - 1 :
       /\ Addr(i, k) \in NI + 1 .. NI + Cardinality(Written)
       /\ \A j \in Ino : \A m \in 0 .. Stored[j] - 1 : Addr(i, k) = Addr(j, m) => i = j /\ k = m

(* Of the free entries of file_list one is the first.                       *)
FirstFree == \A S \in SUBSET Fd : S # {} => \E a \in S : \A b \in S : a <= b

(* A byte of a file is in one of its blocks.                                *)
LEMMA BlockOf ==
  ASSUME NEW i \in Ino, NEW p \in 0 .. Room(i) - 1
  PROVE  /\ p \in Nat /\ p \div FS_BLKSZ \in 0 .. Stored[i] - 1 /\ p % FS_BLKSZ \in 0 .. FS_BLKSZ - 1
         /\ ((p \div FS_BLKSZ) * FS_BLKSZ) + (p % FS_BLKSZ) = p
<1>1. p \in Nat /\ p < Stored[i] * FS_BLKSZ /\ Stored[i] \in Nat
  BY BlockCounts DEF Room
<1>2. p \div FS_BLKSZ < Stored[i]
  BY Zenon, <1>1, QuotientBound
<1>3. /\ p = (FS_BLKSZ * (p \div FS_BLKSZ)) + (p % FS_BLKSZ)
      /\ p % FS_BLKSZ \in 0 .. FS_BLKSZ - 1 /\ p \div FS_BLKSZ \in Nat
  BY Zenon, <1>1, Division
<1>4. FS_BLKSZ * (p \div FS_BLKSZ) = (p \div FS_BLKSZ) * FS_BLKSZ
  BY <1>3, Sizes, SMTT(30)
<1> QED BY <1>1, <1>2, <1>3, <1>4
-----------------------------------------------------------------------------
(* Who is inside. *)
LEMMA NoCallType == NoCall \in CallRecord /\ NoCall.op = "none"
  BY DEF NoCall, NewCall, CallRecord

(* The others have no call in progress while t holds kfs_lock or nobody does. *)
LEMMA Alone ==
  ASSUME LockInv, NEW t \in Thread, kfs_lock \in {t, NoThread}
  PROVE  \A u \in Thread : u # t \/ kfs_lock = NoThread => pc[u] = "idle" /\ call[u] = NoCall
<1> TAKE u \in Thread
<1> SUFFICES ASSUME u # t \/ kfs_lock = NoThread PROVE pc[u] = "idle" /\ call[u] = NoCall
  BY Zenon
<1>1. pc[u] = "idle"
  BY Zenon, Sizes DEF LockInv, LockDiscipline
<1> QED BY Zenon, <1>1 DEF LockInv, CallInv

LEMMA Owner ==
  ASSUME LockInv, NEW t \in Thread, pc[t] # "idle"
  PROVE  kfs_lock = t
  BY Zenon DEF LockInv, LockDiscipline

(* Nobody is writing to a file unless it is t.                              *)
DiskIs(t) ==
  \A i \in Ino : \A p \in 0 .. Room(i) - 1 :
    ByteAt(disk, i, p) =
      IF call[t].op = "write" /\ call[t].ino = i /\ p \in Start(t) .. Start(t) + call[t].done - 1
      THEN call[t].buf[p - Start(t) + 1] ELSE ByteAt(settled, i, p)

(* The bytes a call has read are those of its file from position start on.  *)
Copied(dk, c, start) == \A i \in 1 .. c.done : c.buf[i] = ByteAt(dk, c.ino, start + i - 1)

(* k bytes of w written to file j at position start.                        *)
Overwritten(dk, old, j, start, k, w) ==
  \A i \in Ino : \A p \in 0 .. Room(i) - 1 :
    ByteAt(dk, i, p) = IF j = i /\ p \in start .. start + k - 1
                       THEN w[p - start + 1] ELSE ByteAt(old, i, p)

(* The cached block goes to the block of the file that t has come to.       *)
WritesBlock(t) ==
  disk' = [disk EXCEPT ![Target(DataAt(inode.data_block_num[BlockIdx(call[t])]))] = data_block]

LEMMA DiskIsFor ==
  ASSUME NEW t \in Thread, \A u \in Thread \ {t} : call[u] = NoCall
  PROVE  DiskInv <=> DiskIs(t)
<1>1. ASSUME NEW i, NEW p
      PROVE  InProgress(i, p) =
               IF call[t].op = "write" /\ call[t].ino = i /\ p \in Start(t) .. Start(t) + call[t].done - 1
               THEN {t} ELSE {}
  <2>1. \A u \in Thread \ {t} : call[u].op # "write"
    BY Zenon, NoCallType
  <2> QED BY <2>1, Zenon DEF InProgress
<1> QED BY <1>1, Zenon DEF DiskInv, DiskIs

(* A return of thread t, whatever it has done before.                       *)
LEMMA ReturnInv ==
  ASSUME LockInv, NEW t \in Thread, kfs_lock \in {t, NoThread}, NEW r, Return(t, r),
         FilesInv', MetaInv', BlockInv'
  PROVE  KfsInv'
<1>1. \A u \in Thread : pc'[u] = "idle" /\ call'[u] = NoCall
  <2>1. \A u \in Thread \ {t} : pc[u] = "idle" /\ call[u] = NoCall
    BY Zenon, Alone
  <2> QED BY Zenon, <2>1 DEF Return, LockInv
<1>2. pc' \in [Thread -> Access] /\ call' \in [Thread -> CallRecord] /\ kfs_lock' = NoThread
  BY Zenon, NoCallType DEF Return, LockInv, Access
<1>3. LockInv'
  <2>1. LockDiscipline'
    BY Zenon, <1>1, <1>2, Sizes DEF LockDiscipline
  <2>2. \A u \in Thread : CallInv(u)'
    BY Zenon, <1>1 DEF CallInv
  <2> QED BY Zenon, <1>2, <2>1, <2>2 DEF LockInv
<1>4. \A u \in Thread : ReadInv(u)' /\ WriteInv(u)'
  BY Zenon, <1>1, NoCallType DEF ReadInv, WriteInv
<1>5. DiskInv'
  <2>1. \A i, p : InProgress(i, p)' = {}
    BY Zenon, <1>1, NoCallType DEF InProgress
  <2>2. settled' = disk'
    BY Zenon DEF Return
  <2> QED BY <2>1, <2>2, Zenon DEF DiskInv, ByteAt, Addr
<1> QED BY Zenon, <1>3, <1>4, <1>5 DEF KfsInv

(* Thread t goes to its next disk access.                                   *)
LEMMA WaitInv ==
  ASSUME LockInv, NEW t \in Thread, kfs_lock \in {t, NoThread}, kfs_lock' = t,
         NEW a \in Access \ {"idle"}, pc' = [pc EXCEPT ![t] = a],
         NEW c \in CallRecord, call' = [call EXCEPT ![t] = c],
         FilesInv', MetaInv', BlockInv', CallInv(t)', ReadInv(t)', WriteInv(t)', DiskIs(t)'
  PROVE  KfsInv'
<1>1. \A u \in Thread \ {t} : pc'[u] = "idle" /\ call'[u] = NoCall
  <2>1. \A u \in Thread \ {t} : pc[u] = "idle" /\ call[u] = NoCall
    BY Zenon, Alone
  <2> QED BY Zenon, <2>1 DEF LockInv
<1>2. pc' \in [Thread -> Access] /\ call' \in [Thread -> CallRecord] /\ pc'[t] = a
  BY Zenon DEF LockInv, Access
<1>3. LockInv'
  <2>1. LockDiscipline'
    BY Zenon, <1>1, <1>2 DEF LockDiscipline
  <2>2. \A u \in Thread : CallInv(u)'
    BY Zenon, <1>1 DEF CallInv
  <2> QED BY Zenon, <1>2, <2>1, <2>2 DEF LockInv
<1>4. \A u \in Thread : ReadInv(u)' /\ WriteInv(u)'
  BY <1>1, NoCallType DEF ReadInv, WriteInv
<1>5. DiskInv'
  <2>1. ASSUME NEW i, NEW p
        PROVE  InProgress(i, p)' =
                 IF (call[t].op = "write" /\ call[t].ino = i
                       /\ p \in Start(t) .. Start(t) + call[t].done - 1)'
                 THEN {t} ELSE {}
    <3>1. \A u \in Thread \ {t} : call'[u].op # "write"
      BY Zenon, <1>1, NoCallType
    <3> QED BY <3>1, Zenon DEF InProgress
  <2> QED BY <2>1, Zenon DEF DiskInv, DiskIs
<1> QED BY Zenon, <1>3, <1>4, <1>5 DEF KfsInv
-----------------------------------------------------------------------------
LEMMA FdFacts == Fd \subseteq Nat /\ 0 \in Fd
  BY KfsAssumption DEF Fd

LEMMA SameDisk ==
  ASSUME MetaInv, BlockInv, UNCHANGED disk
  PROVE  MetaInv' /\ BlockInv'
<1>1. MetaInv'
  BY Zenon DEF MetaInv, MetadataIntact
<1>2. BlockInv'
  BY Zenon DEF BlockInv
<1> QED BY Zenon, <1>1, <1>2

(* A call that returns as soon as it has the lock.                          *)
LEMMA EntryReturns ==
  ASSUME KfsInv, NEW t \in Thread, Enters(t), NEW r, Return(t, r), UNCHANGED disk, FilesInv'
  PROVE  KfsInv'
<1>1. MetaInv' /\ BlockInv'
  BY Zenon, SameDisk DEF KfsInv
<1> QED BY Zenon, <1>1, ReturnInv DEF KfsInv, Enters

LEMMA SameFiles ==
  ASSUME FilesInv, UNCHANGED file_list
  PROVE  FilesInv'
  BY Zenon DEF FilesInv

(* A call that goes on to the inode.                                        *)
LEMMA EntryBegins ==
  ASSUME KfsInv, NEW t \in Thread, Enters(t), NEW c \in CallRecord, Begin(t, c),
         UNCHANGED <<disk, inode, data_block, file_list>>,
         c.op \in {"open", "read", "write"}, c.ino \in Ino, c.done = 0,
         c.op # "open" => c.fd \in Fd /\ file_list[c.fd].in_use /\ file_list[c.fd].ino = c.ino,
         c.op = "read" => /\ c.n \in ReadLen \ {0} /\ c.buf = <<>>
                          /\ file_list[c.fd].file_pos < file_list[c.fd].file_size,
         c.op = "write" => c.n \in WriteLen \ {0} /\ c.buf = Buf(t, c.n)
  PROVE  KfsInv'
<1>0. MetaInv' /\ BlockInv' /\ FilesInv'
  BY Zenon, SameDisk, SameFiles DEF KfsInv
<1>1. call'[t] = c /\ pc'[t] = "inode" /\ settled' = settled /\ kfs_lock' = t
      /\ pc' = [pc EXCEPT ![t] = "inode"] /\ call' = [call EXCEPT ![t] = c]
  BY Zenon DEF Begin, Wait, KfsInv, LockInv
<1>2. CallInv(t)'
  BY Zenon, <1>1 DEF CallInv
<1>3. ASSUME c.op # "open"
      PROVE  /\ file_list[c.fd].file_pos \in Nat /\ file_list[c.fd].file_size \in Nat
             /\ file_list[c.fd].file_pos <= Room(c.ino) /\ Room(c.ino) \in Nat
  <2>1. file_list[c.fd] \in File
    BY Zenon, <1>3 DEF KfsInv, FilesInv
  <2> QED BY Zenon, <1>3, <2>1, BlockCounts DEF KfsInv, FilesInv, File
<1>4. ReadInv(t)'
  <2> SUFFICES ASSUME c.op = "read" PROVE ReadInv(t)'
    BY Zenon, <1>1 DEF ReadInv
  <2>1. c.n \in Nat \ {0} /\ file_list[c.fd].file_size - file_list[c.fd].file_pos > 0
    BY <1>3, KfsAssumption
  <2>2. ToRead(c)' > 0 /\ ToRead(c)' \in Int
    BY <1>3, <2>1 DEF ToRead, Min2
  <2>3. \A i \in 1 .. 0 : FALSE
    OBVIOUS
  <2> QED BY <1>1, <2>2, <2>3 DEF ReadInv, ToRead
<1>5. WriteInv(t)'
  <2> SUFFICES ASSUME c.op = "write" PROVE WriteInv(t)'
    BY Zenon, <1>1 DEF WriteInv
  <2>1. Start(t)' = file_list[c.fd].file_pos
    BY <1>1, <1>3 DEF Start
  <2>2. c.n \in Nat
    BY Zenon, KfsAssumption
  <2> QED BY <1>1, <1>3, <2>1, <2>2 DEF WriteInv
<1>6. DiskIs(t)'
  <2>1. \A u \in Thread : call[u] = NoCall
    BY Zenon, Alone DEF KfsInv, Enters
  <2>2. \A i \in Ino : \A p \in 0 .. Room(i) - 1 : ByteAt(disk, i, p) = ByteAt(settled, i, p)
    <3>1. \A i, p : InProgress(i, p) = {}
      BY Zenon, <2>1, NoCallType DEF InProgress
    <3> QED BY <3>1, Zenon DEF KfsInv, DiskInv
  <2>3. ASSUME c.op = "write" PROVE \A p : p \notin (Start(t) .. Start(t) + call[t].done - 1)'
    <3>1. Start(t)' = file_list[c.fd].file_pos /\ call'[t].done = 0
      BY <1>1, <1>3, <2>3 DEF Start
    <3>2. file_list[c.fd].file_pos \in Nat
      BY Zenon, <1>3, <2>3
    <3> QED BY <3>1, <3>2
  <2>4. ASSUME NEW i \in Ino, NEW p \in 0 .. Room(i) - 1
        PROVE  /\ ByteAt(disk, i, p)' = ByteAt(settled, i, p)'
               /\ ~(call'[t].op = "write" /\ call'[t].ino = i
                     /\ p \in (Start(t) .. Start(t) + call[t].done - 1)')
    <3>1. ByteAt(disk, i, p)' = ByteAt(settled, i, p)'
      BY <1>1, <2>2 DEF ByteAt
    <3> QED BY <1>1, <2>3, <3>1, Zenon
  <2> QED BY <2>4, Zenon DEF DiskIs
<1> QED BY Zenon, <1>0, <1>1, <1>2, <1>4, <1>5, <1>6, WaitInv DEF KfsInv, Enters, Access

LEMMA NameFacts ==
  ASSUME NEW f \in Name
  PROVE  InoOf[f] \in Ino /\ Dentries[InoOf[f] + 1] = f
<1>1. \E i \in Ino : Dentries[i + 1] = f
  <2>1. PICK m \in 1 .. NI : Dentries[m] = f
    BY Zenon, ImageFacts DEF Name, Range
  <2>2. m - 1 \in Ino /\ (m - 1) + 1 = m
    BY ImageFacts DEF Ino
  <2> QED BY Zenon, <2>1, <2>2
<1> QED BY Zenon, <1>1 DEF InoOf

LEMMA OpenCallStep ==
  ASSUME KfsInv, NEW t \in Thread, NEW name, OpenCall(t, name)
  PROVE  KfsInv'
<1>0. Enters(t) /\ UNCHANGED <<disk, inode, data_block, file_list>>
  BY Zenon DEF OpenCall, Caches
<1>1. CASE name \in Name
  <2> DEFINE c == NewCall("open", 0, InoOf[name], <<>>, 0)
  <2>1. Begin(t, c)
    BY Zenon, <1>1 DEF OpenCall
  <2>2. InoOf[name] \in Ino /\ InoOf[name] \in Nat
    BY Zenon, <1>1, NameFacts, ImageFacts
  <2>3. c \in CallRecord /\ c.op = "open" /\ c.ino \in Ino /\ c.done = 0
    BY <2>2 DEF NewCall, CallRecord
  <2> HIDE DEF c
  <2> QED BY Zenon, <1>0, <2>1, <2>3, EntryBegins
<1>2. CASE name \notin Name
  <2>1. Return(t, Err(t, "ENOENT"))
    BY Zenon, <1>2 DEF OpenCall
  <2>2. FilesInv'
    BY Zenon, <1>0, SameFiles DEF KfsInv
  <2> QED BY Zenon, <1>0, <2>1, <2>2, EntryReturns
<1> QED BY Zenon, <1>1, <1>2

LEMMA ReadCallStep ==
  ASSUME KfsInv, NEW t \in Thread, NEW fd \in Fd, NEW n \in ReadLen, ReadCall(t, fd, n)
  PROVE  KfsInv'
<1> DEFINE f == file_list[fd]
           c == NewCall("read", fd, f.ino, <<>>, n)
<1>0. Enters(t) /\ f.in_use /\ n > 0 /\ UNCHANGED <<disk, inode, data_block, file_list>>
  BY Zenon DEF ReadCall, Caches
<1>1. f.ino \in Ino /\ f.file_pos \in Nat /\ f.file_size \in Nat
  BY Zenon, <1>0 DEF KfsInv, FilesInv, File
<1>2. FilesInv'
  BY Zenon, <1>0, SameFiles DEF KfsInv
<1>3. CASE f.file_pos >= f.file_size
  <2>1. Return(t, Ok(t, 0, <<>>))
    BY <1>1, <1>3 DEF ReadCall
  <2> QED BY Zenon, <1>0, <1>2, <2>1, EntryReturns
<1>4. CASE f.file_pos < f.file_size
  <2>0. ~(f.ino >= NI)
    BY <1>1, ImageFacts DEF Ino
  <2>1. Begin(t, c)
    BY <1>1, <1>4, <2>0 DEF ReadCall
  <2>1a. fd \in Nat /\ f.ino \in Nat /\ n \in Nat
    BY Zenon, <1>1, FdFacts, ImageFacts, KfsAssumption
  <2>2. c \in CallRecord /\ c.op = "read" /\ c.ino = f.ino /\ c.fd = fd /\ c.done = 0 /\ c.n = n
        /\ c.buf = <<>>
    BY <2>1a DEF CallRecord, NewCall
  <2>3. n \in ReadLen \ {0}
    BY <1>0, KfsAssumption
  <2> HIDE DEF c
  <2> QED BY Zenon, <1>0, <1>1, <1>4, <2>1, <2>2, <2>3, EntryBegins
<1> QED BY <1>1, <1>3, <1>4

LEMMA BufType ==
  ASSUME NEW t \in Thread, NEW n \in Nat
  PROVE  Buf(t, n) \in Seq(Byte) /\ Len(Buf(t, n)) = n
<1>1. \A i \in 1 .. n : <<t, i>> \in Byte
  BY DEF Byte
<1> QED BY <1>1 DEF Buf

LEMMA WriteCallStep ==
  ASSUME KfsInv, NEW t \in Thread, NEW fd \in Fd, NEW n \in WriteLen, WriteCall(t, fd, n)
  PROVE  KfsInv'
<1> DEFINE f == file_list[fd]
           c == NewCall("write", fd, f.ino, Buf(t, n), n)
<1>0. Enters(t) /\ f.in_use /\ n > 0 /\ UNCHANGED <<disk, inode, data_block, file_list>>
  BY Zenon DEF WriteCall, Caches
<1>1. f.ino \in Ino /\ f.file_pos \in Nat /\ f.file_size \in Nat
  BY <1>0 DEF KfsInv, FilesInv, File
<1>2. ~(f.ino >= NI)
  BY <1>1, ImageFacts DEF Ino
<1>3. Begin(t, c)
  BY Zenon, <1>2 DEF WriteCall
<1>4. n \in Nat /\ n \in WriteLen \ {0}
  BY <1>0, KfsAssumption
<1>5. c \in CallRecord /\ c.op = "write" /\ c.ino = f.ino /\ c.fd = fd /\ c.done = 0 /\ c.n = n
      /\ c.buf = Buf(t, c.n)
  BY Zenon, <1>1, <1>4, BufType, FdFacts, ImageFacts DEF CallRecord, NewCall
<1> HIDE DEF c
<1> QED BY Zenon, <1>0, <1>1, <1>3, <1>4, <1>5, EntryBegins

LEMMA SetPosStep ==
  ASSUME KfsInv, NEW t \in Thread, NEW fd \in Fd, NEW p \in Positions, fs_setpos(t, fd, p)
  PROVE  KfsInv'
<1> DEFINE f == file_list[fd]
<1>0. Enters(t) /\ f.in_use /\ UNCHANGED disk
  BY Zenon DEF fs_setpos
<1>1. f \in File /\ f.ino \in Ino /\ f.file_size = LenOf(f.ino) /\ p \in Nat
  BY Zenon, <1>0, KfsAssumption DEF KfsInv, FilesInv
<1>2. CASE p > f.file_size
  <2>1. Return(t, Err(t, "EINVAL")) /\ UNCHANGED file_list
    BY Zenon, <1>2 DEF fs_setpos
  <2>2. FilesInv'
    BY Zenon, <2>1, SameFiles DEF KfsInv
  <2> QED BY Zenon, <1>0, <2>1, <2>2, EntryReturns
<1>3. CASE ~(p > f.file_size)
  <2>1. Return(t, Ok(t, 0, <<>>)) /\ file_list' = [file_list EXCEPT ![fd].file_pos = p]
    BY Zenon, <1>3 DEF fs_setpos
  <2>2. p <= Room(f.ino)
    BY <1>1, <1>3, BlockCounts, ImageFacts DEF File
  <2>3. file_list' = [file_list EXCEPT ![fd] = [f EXCEPT !.file_pos = p]]
    BY Zenon, <2>1
  <2> DEFINE g == [f EXCEPT !.file_pos = p]
  <2>4. /\ g \in File /\ g.ino \in Ino /\ g.file_size = LenOf(g.ino) /\ g.file_pos <= Room(g.ino)
    BY Zenon, <1>1, <2>2 DEF File
  <2> HIDE DEF g
  <2>5. FilesInv'
    BY Zenon, <2>3, <2>4 DEF KfsInv, FilesInv, g
  <2> QED BY Zenon, <1>0, <2>1, <2>5, EntryReturns
<1> QED BY Zenon, <1>2, <1>3

(* A step that leaves the files of the calls in progress alone.             *)
LEMMA CallsKept ==
  ASSUME KfsInv, UNCHANGED <<disk, inode, data_block, kfs_lock, pc, call, settled>>, FilesInv',
         \A u \in Thread : call[u].op \in {"read", "write"} =>
                             file_list'[call[u].fd] = file_list[call[u].fd]
  PROVE  KfsInv'
<1>1. MetaInv' /\ BlockInv'
  BY Zenon, SameDisk DEF KfsInv
<1>2. ASSUME NEW u \in Thread PROVE CallInv(u)' /\ ReadInv(u)' /\ WriteInv(u)'
  <2>0. CallInv(u) /\ ReadInv(u) /\ WriteInv(u)
    BY Zenon DEF KfsInv, LockInv
  <2>1. CASE call[u].op \in {"read", "write"}
    <3>1. file_list'[call[u].fd] = file_list[call[u].fd]
      BY Zenon, <2>1
    <3>2. CallInv(u)'
      BY Zenon, <2>0, <3>1 DEF CallInv, BlockIdx, Offset
    <3>3. ReadInv(u)'
      BY Zenon, <2>0, <3>1 DEF ReadInv, ToRead, ByteAt
    <3>4. WriteInv(u)'
      BY Zenon, <2>0, <2>1, <3>1 DEF WriteInv, Start, Offset, Chunk, Wanted, ToRead, BlockIdx
    <3> QED BY Zenon, <3>2, <3>3, <3>4
  <2>2. CASE call[u].op \notin {"read", "write"}
    <3>1. CallInv(u)'
      BY Zenon, <2>0, <2>2 DEF CallInv
    <3>2. ReadInv(u)' /\ WriteInv(u)'
      BY Zenon, <2>2 DEF ReadInv, WriteInv
    <3> QED BY Zenon, <3>1, <3>2
  <2> QED BY Zenon, <2>1, <2>2
<1>3. LockInv'
  BY Zenon, <1>2 DEF KfsInv, LockInv, LockDiscipline
<1>4. DiskInv'
  <2>1. \A u \in Thread : call[u].op = "write" => Start(u)' = Start(u)
    BY Zenon DEF Start
  <2>2. \A i, p : InProgress(i, p)' = InProgress(i, p)
    BY <2>1, Zenon DEF InProgress
  <2>3. ASSUME NEW i \in Ino, NEW p \in 0 .. Room(i) - 1
        PROVE  /\ InProgress(i, p)' = {} => ByteAt(disk, i, p)' = ByteAt(settled, i, p)'
               /\ \A u \in InProgress(i, p)' : ByteAt(disk, i, p)' = call'[u].buf[p - Start(u)' + 1]
    <3>1. ByteAt(disk, i, p)' = ByteAt(disk, i, p) /\ ByteAt(settled, i, p)' = ByteAt(settled, i, p)
      BY Zenon DEF ByteAt
    <3>2. \A u \in InProgress(i, p) : Start(u)' = Start(u)
      BY Zenon, <2>1 DEF InProgress
    <3> QED BY Zenon, <2>2, <3>1, <3>2 DEF KfsInv, DiskInv
  <2> QED BY Zenon, <2>3 DEF DiskInv
<1> QED BY Zenon, <1>1, <1>2, <1>3, <1>4 DEF KfsInv

LEMMA NoBytesStep ==
  ASSUME KfsInv, NEW t \in Thread, NoBytes(t)
  PROVE  KfsInv'
<1>1. UNCHANGED <<disk, inode, data_block, kfs_lock, pc, call, settled, file_list>>
  BY Zenon DEF NoBytes, Caches
<1>2. FilesInv'
  BY Zenon, <1>1, SameFiles DEF KfsInv
<1> QED BY Zenon, <1>1, <1>2, CallsKept

LEMMA CloseStep ==
  ASSUME KfsInv, NEW fd \in Fd, fs_close(fd)
  PROVE  KfsInv'
<1>1. /\ UNCHANGED <<disk, inode, data_block, kfs_lock, pc, call, settled>>
      /\ file_list' = [file_list EXCEPT ![fd] = FreeFile]
      /\ \A u \in Thread : call[u].op \in {"read", "write"} => call[u].fd # fd
  BY Zenon DEF fs_close, Caches
<1>2. FreeFile \in File /\ ~FreeFile.in_use
  BY Zenon DEF File, FreeFile
<1>3. FilesInv'
  BY Zenon, <1>1, <1>2 DEF KfsInv, FilesInv
<1>4. ASSUME NEW u \in Thread, call[u].op \in {"read", "write"}
      PROVE  file_list'[call[u].fd] = file_list[call[u].fd]
  <2>1. call[u].fd \in Fd
    BY Zenon, <1>4, NoCallType DEF KfsInv, LockInv, CallInv
  <2> QED BY Zenon, <1>1, <1>4, <2>1 DEF KfsInv, FilesInv
<1> QED BY Zenon, <1>1, <1>3, <1>4, CallsKept
-----------------------------------------------------------------------------
(* The steps of the thread that holds kfs_lock. *)
LEMMA AllocatedIs ==
  ASSUME NEW i \in Ino
  PROVE  Allocated(ImageInode[i]) = Stored[i] /\ Stored[i] \in Nat
<1>1. ImageInode[i].byte_len = LenOf(i)
  BY Zenon DEF ImageInode
<1> QED BY Zenon, <1>1, BlockCounts DEF Allocated

LEMMA OwnerFile ==
  ASSUME KfsInv, NEW t \in Thread, call[t].op \in {"read", "write"}
  PROVE  LET c == call[t]
             f == file_list[c.fd]
         IN /\ pc[t] # "idle" /\ c \in CallRecord /\ c.fd \in Fd /\ c.ino \in Ino
            /\ f \in File /\ f.in_use /\ f.ino = c.ino
            /\ f.file_pos \in Nat /\ f.file_size \in Nat /\ c.done \in Nat /\ c.n \in Nat
            /\ f.file_size = LenOf(c.ino) /\ f.file_size <= Room(c.ino)
            /\ f.file_pos <= Room(c.ino) /\ Room(c.ino) \in Nat
<1> DEFINE c == call[t]
           f == file_list[c.fd]
<1>1. pc[t] # "idle" /\ c \in CallRecord
  BY Zenon, NoCallType DEF KfsInv, LockInv, CallInv
<1>2. c.fd \in Fd /\ c.ino \in Ino /\ f.in_use /\ f.ino = c.ino
  BY Zenon, <1>1 DEF KfsInv, LockInv, CallInv
<1>3. f \in File /\ f.file_size = LenOf(c.ino) /\ f.file_pos <= Room(c.ino)
  BY Zenon, <1>2 DEF KfsInv, FilesInv
<1>4. f.file_pos \in Nat /\ f.file_size \in Nat /\ c.done \in Nat /\ c.n \in Nat
  BY Zenon, <1>1, <1>3 DEF File, CallRecord
<1> QED BY Zenon, <1>1, <1>2, <1>3, <1>4, BlockCounts

LEMMA OwnerDisk ==
  ASSUME KfsInv, NEW t \in Thread, pc[t] # "idle"
  PROVE  DiskIs(t) /\ kfs_lock = t
<1>1. kfs_lock = t
  BY Zenon, Owner DEF KfsInv
<1>2. \A u \in Thread \ {t} : call[u] = NoCall
  BY Zenon, <1>1, Alone DEF KfsInv
<1> QED BY Zenon, <1>1, <1>2, DiskIsFor DEF KfsInv

(* The position moves over the bytes that are done.                         *)
LEMMA AdvancedFiles ==
  ASSUME KfsInv, NEW t \in Thread, call[t].op \in {"read", "write"},
         NEW c, c.fd = call[t].fd, c.done \in Nat,
         file_list[c.fd].file_pos + c.done <= Room(call[t].ino), file_list' = Advanced(c)
  PROVE  /\ FilesInv'
         /\ file_list'[c.fd].file_pos = file_list[c.fd].file_pos + c.done
         /\ file_list'[c.fd].in_use /\ file_list'[c.fd].ino = call[t].ino
<1> DEFINE f == file_list[c.fd]
           g == [f EXCEPT !.file_pos = f.file_pos + c.done]
<1>1. /\ f \in File /\ f.in_use /\ f.ino = call[t].ino /\ c.fd \in Fd /\ call[t].ino \in Ino
      /\ f.file_pos \in Nat /\ f.file_size = LenOf(f.ino)
  BY OwnerFile
<1>2. file_list' = [file_list EXCEPT ![c.fd] = g]
  BY Zenon DEF Advanced
<1>3. g \in File /\ g.ino = f.ino /\ g.file_size = f.file_size /\ g.file_pos = f.file_pos + c.done
      /\ (g.in_use <=> f.in_use)
  <2> HIDE DEF f
  <2> QED BY <1>1 DEF File
<1> HIDE DEF g
<1>4. file_list'[c.fd] = g
  BY Zenon, <1>1, <1>2 DEF KfsInv, FilesInv
<1>5. FilesInv'
  BY <1>1, <1>2, <1>3 DEF KfsInv, FilesInv
<1> QED BY Zenon, <1>1, <1>3, <1>4, <1>5

(* The head of the loop of fs_read.                                         *)
LEMMA ReadLoopStep ==
  ASSUME KfsInv, NEW t \in Thread, call[t].op = "read",
         NEW c \in CallRecord, c.op = "read", c.fd = call[t].fd, c.ino = call[t].ino,
         c.n = call[t].n, Len(c.buf) = c.done, c.done <= ToRead(c),
         Copied(disk, c, file_list[c.fd].file_pos),
         ReadLoop(t, c, ImageInode[c.ino]), UNCHANGED disk, inode' = ImageInode[c.ino]
  PROVE  KfsInv'
<1> DEFINE f == file_list[c.fd]
           node == ImageInode[c.ino]
<1>1. /\ pc[t] # "idle" /\ c.fd \in Fd /\ c.ino \in Ino
      /\ f \in File /\ f.in_use /\ f.ino = c.ino
      /\ f.file_pos \in Nat /\ f.file_size \in Nat
      /\ f.file_size <= Room(c.ino) /\ Room(c.ino) \in Nat
  BY Zenon, OwnerFile
<1>2. c.done \in Nat /\ c.n \in Nat
  BY Zenon DEF CallRecord
<1>3. f.file_pos < f.file_size /\ c.n \in ReadLen
  BY Zenon DEF KfsInv, ReadInv
<1>4. ToRead(c) \in Nat /\ ToRead(c) <= f.file_size - f.file_pos
  BY <1>1, <1>2, <1>3, Arithmetic, Zenon DEF ToRead
<1>5. MetaInv' /\ BlockInv'
  BY Zenon, SameDisk DEF KfsInv
<1>6. kfs_lock = t
  BY Zenon, <1>1, Owner DEF KfsInv
<1>7. CASE c.done >= ToRead(c)
  <2>1. file_list' = Advanced(c) /\ Return(t, Ok(t, c.done, c.buf))
    BY <1>2, <1>4, <1>7 DEF ReadLoop
  <2>2. f.file_pos + c.done <= Room(call[t].ino)
    BY SMTT(30), <1>1, <1>2, <1>4
  <2>3. FilesInv'
    BY Zenon, <1>2, <2>1, <2>2, AdvancedFiles
  <2> QED BY Zenon, <1>5, <1>6, <2>1, <2>3, ReturnInv DEF KfsInv
<1>8. CASE c.done < ToRead(c) /\ (BlockIdx(c) >= Allocated(node)
                                   \/ node.data_block_num[BlockIdx(c)] >= num_data)
  <2>1. Return(t, Err(t, "EIO")) /\ UNCHANGED file_list
    BY <1>2, <1>4, <1>8 DEF ReadLoop
  <2>2. FilesInv'
    BY Zenon, <2>1, SameFiles DEF KfsInv
  <2> QED BY Zenon, <1>5, <1>6, <2>1, <2>2, ReturnInv DEF KfsInv
<1>9. CASE c.done < ToRead(c) /\ ~(BlockIdx(c) >= Allocated(node))
             /\ ~(node.data_block_num[BlockIdx(c)] >= num_data)
  <2>1. /\ Wait(t, "data") /\ call' = [call EXCEPT ![t] = c]
        /\ UNCHANGED <<file_list, kfs_lock, settled>>
    BY <1>2, <1>4, <1>9 DEF ReadLoop
  <2>2. pc' = [pc EXCEPT ![t] = "data"] /\ pc'[t] = "data" /\ call'[t] = c
    BY Zenon, <2>1 DEF Wait, KfsInv, LockInv
  <2>3. FilesInv'
    BY Zenon, <2>1, SameFiles DEF KfsInv
  <2>4. BlockIdx(c) < Allocated(node)
    <3>1. Offset(c) \in Nat
      BY <1>1, <1>2 DEF Offset
    <3>2. BlockIdx(c) \in Nat
      BY Zenon, <3>1, Division DEF BlockIdx
    <3>3. Allocated(node) \in Nat
      BY Zenon, <1>1, AllocatedIs
    <3> QED BY <1>9, <3>2, <3>3
  <2>5. CallInv(t)'
    <3>1. BlockIdx(c)' = BlockIdx(c)
      BY Zenon, <2>1 DEF BlockIdx, Offset
    <3> QED BY Zenon, <1>1, <2>1, <2>2, <2>4, <3>1 DEF CallInv, Allocated
  <2>6. ReadInv(t)'
    <3>1. ToRead(c)' = ToRead(c)
      BY Zenon, <2>1 DEF ToRead
    <3>2. \A i \in 1 .. c.done : c.buf[i] = ByteAt(disk', c.ino, f.file_pos + i - 1)
      BY Zenon DEF Copied
    <3> QED BY Zenon, <1>3, <1>9, <2>1, <2>2, <3>1, <3>2 DEF ReadInv, ByteAt
  <2>7. WriteInv(t)'
    BY Zenon, <2>2 DEF WriteInv
  <2>8. DiskIs(t)'
    <3>1. DiskIs(t)
      BY Zenon, <1>1, OwnerDisk
    <3> QED BY Zenon, <2>1, <2>2, <3>1 DEF DiskIs, ByteAt
  <2> QED BY Zenon, <1>5, <1>6, <2>1, <2>2, <2>3, <2>5, <2>6, <2>7, <2>8, WaitInv DEF KfsInv, Access
<1> QED BY <1>2, <1>4, <1>7, <1>8, <1>9

(* The head of the loop of fs_write.                                        *)
LEMMA WriteLoopStep ==
  ASSUME KfsInv, NEW t \in Thread, call[t].op = "write", pc[t] # "winode",
         NEW c \in CallRecord, c.op = "write", c.fd = call[t].fd, c.ino = call[t].ino,
         c.n = call[t].n, c.buf = call[t].buf, c.done <= c.n,
         file_list[c.fd].file_pos + c.done <= Room(c.ino),
         WriteLoop(t, c, ImageInode[c.ino]), inode' = ImageInode[c.ino], MetaInv', BlockInv',
         Overwritten(disk', settled, c.ino, file_list[c.fd].file_pos, c.done, c.buf)
  PROVE  KfsInv'
<1> DEFINE f == file_list[c.fd]
           pos == f.file_pos
           node == ImageInode[c.ino]
<1>1. /\ pc[t] # "idle" /\ c.fd \in Fd /\ c.ino \in Ino
      /\ f \in File /\ f.in_use /\ f.ino = c.ino /\ pos \in Nat /\ Room(c.ino) \in Nat
  BY Zenon, OwnerFile
<1>2. c.done \in Nat /\ c.n \in Nat
  BY Zenon DEF CallRecord
<1>3. kfs_lock = t
  BY Zenon, <1>1, Owner DEF KfsInv
<1>4. c.n \in WriteLen /\ c.buf = Buf(t, c.n)
  BY Zenon DEF KfsInv, WriteInv
<1>5. call' = [call EXCEPT ![t] = c] /\ call'[t] = c /\ kfs_lock' = t /\ settled' = settled
  BY Zenon, <1>3 DEF WriteLoop, KfsInv, LockInv
<1>6. Offset(c) = pos + c.done /\ BlockIdx(c) = (pos + c.done) \div FS_BLKSZ
      /\ Allocated(node) = Stored[c.ino] /\ Stored[c.ino] \in Nat
  BY Zenon, <1>1, AllocatedIs DEF Offset, BlockIdx
<1>7. ReadInv(t)'
  BY Zenon, <1>5 DEF ReadInv
<1>8. ASSUME Start(t)' = pos PROVE DiskIs(t)'
  <2>1. ASSUME NEW i \in Ino, NEW p \in 0 .. Room(i) - 1
        PROVE  ByteAt(disk, i, p)' =
                 IF c.ino = i /\ p \in pos .. pos + c.done - 1
                 THEN c.buf[p - pos + 1] ELSE ByteAt(settled, i, p)'
    BY Zenon, <1>5 DEF Overwritten, ByteAt
  <2>2. call'[t].op = "write" /\ call'[t].ino = c.ino /\ call'[t].done = c.done /\ call'[t].buf = c.buf
    BY Zenon, <1>5
  <2> HIDE DEF pos
  <2> QED BY <1>8, <2>1, <2>2, Zenon DEF DiskIs
<1>9. CASE c.done < c.n /\ BlockIdx(c) < Allocated(node)
  <2>1. pc' = [pc EXCEPT ![t] = "data"] /\ UNCHANGED file_list
    BY Zenon, <1>9 DEF WriteLoop, Wait
  <2>2. pc'[t] = "data"
    BY Zenon, <2>1 DEF KfsInv, LockInv
  <2>3. FilesInv'
    BY Zenon, <2>1, SameFiles DEF KfsInv
  <2>4. CallInv(t)'
    <3>1. BlockIdx(c)' = BlockIdx(c)
      BY Zenon, <2>1 DEF BlockIdx, Offset
    <3> QED BY Zenon, <1>1, <1>5, <1>9, <2>1, <2>2, <3>1 DEF CallInv, Allocated
  <2>5. Start(t)' = pos
    <3>1. Start(t)' = file_list'[c.fd].file_pos - 0
      BY <1>5, <2>2, Zenon DEF Start
    <3> QED BY <1>1, <2>1, <3>1, Arithmetic, Zenon
  <2>6. WriteInv(t)'
    <3>1. 0 <= pos /\ pos + c.done <= Room(c.ino)
      BY <1>1, Arithmetic, Zenon
    <3> HIDE DEF pos
    <3> QED BY <1>4, <1>5, <1>9, <2>2, <2>5, <3>1, Zenon DEF WriteInv
  <2> QED BY Zenon, <1>3, <1>5, <1>7, <1>8, <2>1, <2>3, <2>4, <2>5, <2>6, WaitInv DEF KfsInv, Access
<1>10. CASE ~(c.done < c.n /\ BlockIdx(c) < Allocated(node))
  <2>1. pc' = [pc EXCEPT ![t] = "winode"] /\ file_list' = Advanced(c)
    BY Zenon, <1>10 DEF WriteLoop, Wait
  <2>2. pc'[t] = "winode"
    BY Zenon, <2>1 DEF KfsInv, LockInv
  <2>3. FilesInv' /\ file_list'[c.fd].file_pos = pos + c.done
        /\ file_list'[c.fd].in_use /\ file_list'[c.fd].ino = c.ino
    BY Zenon, <1>2, <2>1, AdvancedFiles
  <2>4. CallInv(t)'
    BY Zenon, <1>1, <1>5, <2>2, <2>3 DEF CallInv
  <2>5. Start(t)' = pos
    <3>1. Start(t)' = file_list'[c.fd].file_pos - c.done
      BY <1>5, <2>2, Zenon DEF Start
    <3>3. file_list'[c.fd].file_pos = pos + c.done
      BY <2>3, Zenon
    <3>4. pos \in Nat /\ c.done \in Nat
      BY <1>1, <1>2, Zenon
    <3> HIDE DEF pos
    <3>2. (pos + c.done) - c.done = pos
      BY <3>4, Arithmetic, Zenon
    <3> QED BY <3>1, <3>2, <3>3, Zenon
  <2>6. c.done = c.n \/ pos + c.done = Room(c.ino)
    <3>1. pos + c.done \in Nat
      BY <1>1, <1>2, Arithmetic, Zenon
    <3>2. BlockIdx(c) < Allocated(node) <=> pos + c.done < Room(c.ino)
      BY Zenon, <1>6, <3>1, QuotientBound DEF Room
    <3> QED BY <1>1, <1>2, <1>10, <3>1, <3>2, Arithmetic, Zenon
  <2>7. WriteInv(t)'
    <3>1. 0 <= pos /\ pos + c.done <= Room(c.ino)
      BY <1>1, Arithmetic, Zenon
    <3> HIDE DEF pos
    <3> QED BY <1>4, <1>5, <2>2, <2>5, <2>6, <3>1, Zenon DEF WriteInv
  <2> QED BY Zenon, <1>3, <1>5, <1>7, <1>8, <2>1, <2>3, <2>4, <2>5, <2>7, WaitInv DEF KfsInv, Access
<1> QED BY Zenon, <1>9, <1>10

(* allocate_file opens the file in the first free entry, if there is one.   *)
LEMMA AllocateFacts ==
  ASSUME FirstFree, KfsInv, NEW t \in Thread, NEW i \in Ino, allocate_file(t, i, ImageInode[i])
  PROVE  \/ /\ \A fd \in Fd : file_list[fd].in_use
            /\ Return(t, Err(t, "EBUSY")) /\ UNCHANGED file_list
         \/ \E fd \in Fd :
              /\ ~file_list[fd].in_use /\ Return(t, Ok(t, fd, <<>>))
              /\ file_list' = [file_list EXCEPT ![fd] =
                   [in_use |-> TRUE, ino |-> i, file_pos |-> 0, file_size |-> LenOf(i)]]
<1> DEFINE free == {fd \in Fd : ~file_list[fd].in_use}
           first == CHOOSE fd \in free : \A g \in free : fd <= g
<1>1. ~(i > NI)
  BY ImageFacts DEF Ino
<1>2. ImageInode[i].byte_len = LenOf(i)
  BY Zenon DEF ImageInode
<1>3. CASE free = {}
  <2>1. Return(t, Err(t, "EBUSY")) /\ UNCHANGED file_list
    BY <1>3, Zenon DEF allocate_file
  <2> QED BY Zenon, <1>3, <2>1
<1>4. CASE free # {}
  <2>1. first \in free
    <3>1. \E fd \in free : \A g \in free : fd <= g
      <4>1. free \in SUBSET Fd
        BY Zenon
      <4> HIDE DEF free
      <4> QED BY <1>4, <4>1, Zenon DEF FirstFree
    <3> QED BY <3>1, Zenon
  <2>2. /\ file_list' = [file_list EXCEPT ![first] =
             [in_use |-> TRUE, ino |-> i, file_pos |-> 0, file_size |-> ImageInode[i].byte_len]]
        /\ Return(t, Ok(t, first, <<>>))
    BY <1>1, <1>4, Zenon DEF allocate_file
  <2> HIDE DEF first
  <2> QED BY Zenon, <1>2, <2>1, <2>2
<1> QED BY Zenon, <1>3, <1>4

LEMMA InodeReadStep ==
  ASSUME FirstFree, KfsInv, NEW t \in Thread, InodeRead(t)
  PROVE  KfsInv'
<1> DEFINE c == call[t]
           f == file_list[c.fd]
<1>1. pc[t] = "inode" /\ UNCHANGED disk /\ inode' = disk[InodeAt(c.ino)]
  BY Zenon DEF InodeRead
<1>2. c \in CallRecord /\ c.op \in {"open", "read", "write"} /\ c.ino \in Ino
  BY Zenon, <1>1 DEF KfsInv, LockInv, CallInv
<1>3. disk[InodeAt(c.ino)] = ImageInode[c.ino]
  BY Zenon, <1>2 DEF KfsInv, MetaInv, MetadataIntact
<1>4. MetaInv' /\ BlockInv'
  BY Zenon, <1>1, SameDisk DEF KfsInv
<1>5. DiskIs(t) /\ kfs_lock = t
  BY Zenon, <1>1, OwnerDisk
<1>6. CASE c.op = "open"
  <2>1. allocate_file(t, c.ino, ImageInode[c.ino])
    BY <1>3, <1>6, Zenon DEF InodeRead
  <2>2. FilesInv' /\ \E r : Return(t, r)
    <3>1. CASE \E r : Return(t, r) /\ UNCHANGED file_list
      BY Zenon, <3>1, SameFiles DEF KfsInv
    <3>2. CASE \E fd \in Fd :
                 /\ \E r : Return(t, r)
                 /\ file_list' = [file_list EXCEPT ![fd] =
                      [in_use |-> TRUE, ino |-> c.ino, file_pos |-> 0, file_size |-> LenOf(c.ino)]]
      <4> PICK fd \in Fd :
                 /\ \E r : Return(t, r)
                 /\ file_list' = [file_list EXCEPT ![fd] =
                      [in_use |-> TRUE, ino |-> c.ino, file_pos |-> 0, file_size |-> LenOf(c.ino)]]
        BY Zenon, <3>2
      <4> DEFINE g == [in_use |-> TRUE, ino |-> c.ino, file_pos |-> 0, file_size |-> LenOf(c.ino)]
      <4>0. Room(c.ino) \in Nat
        BY Zenon, <1>2, BlockCounts
      <4>1. c.ino \in Nat /\ LenOf(c.ino) \in Nat /\ 0 <= Room(c.ino)
        <5>1. c.ino \in Nat /\ LenOf(c.ino) \in Nat
          BY <1>2, ImageFacts, Zenon
        <5> QED BY <4>0, <5>1, Arithmetic, Zenon
      <4>2. g \in File /\ g.ino = c.ino /\ g.file_pos = 0 /\ g.file_size = LenOf(c.ino)
        BY Zenon, <4>1 DEF File
      <4>3. file_list' = [file_list EXCEPT ![fd] = g]
        BY Zenon
      <4> HIDE DEF g
      <4>4. FilesInv'
        BY Zenon, <1>2, <4>1, <4>2, <4>3 DEF KfsInv, FilesInv
      <4> QED BY Zenon, <4>4
    <3> QED BY Zenon, <1>2, <2>1, <3>1, <3>2, AllocateFacts
  <2> QED BY Zenon, <1>4, <1>5, <2>2, ReturnInv DEF KfsInv
<1>7. CASE c.op = "read"
  <2>1. ReadLoop(t, c, ImageInode[c.ino])
    BY <1>3, <1>7, Zenon DEF InodeRead
  <2>2. Len(c.buf) = c.done /\ c.done <= ToRead(c)
        /\ Copied(disk, c, f.file_pos)
    BY Zenon, <1>7 DEF KfsInv, ReadInv, Copied
  <2> QED BY Zenon, <1>1, <1>2, <1>3, <1>7, <2>1, <2>2, ReadLoopStep
<1>8. CASE c.op = "write"
  <2>1. WriteLoop(t, c, ImageInode[c.ino])
    BY <1>3, <1>8, Zenon DEF InodeRead
  <2>2. Start(t) = f.file_pos /\ c.done <= c.n /\ f.file_pos + c.done <= Room(c.ino)
    <3>1. Start(t) = f.file_pos
      BY <1>1, <1>8, OwnerFile DEF Start
    <3> QED BY Zenon, <1>8, <3>1 DEF KfsInv, WriteInv
  <2>3. Overwritten(disk', settled, c.ino, f.file_pos, c.done, c.buf)
    BY <1>1, <1>5, <1>8, <2>2, Zenon DEF DiskIs, Overwritten
  <2> QED BY Zenon, <1>1, <1>2, <1>3, <1>4, <1>8, <2>1, <2>2, <2>3, WriteLoopStep
<1> QED BY Zenon, <1>2, <1>6, <1>7, <1>8

(* The bytes of a block, and the block of a byte.                           *)
LEMMA DivMod ==
  ASSUME NEW a \in Nat, NEW q \in Nat, NEW r \in 0 .. FS_BLKSZ - 1, a = (FS_BLKSZ * q) + r
  PROVE  a \div FS_BLKSZ = q /\ a % FS_BLKSZ = r
<1> DEFINE x == a \div FS_BLKSZ
           y == a % FS_BLKSZ
           bx == FS_BLKSZ * x
           bq == FS_BLKSZ * q
<1>1. a = bx + y /\ y \in 0 .. FS_BLKSZ - 1 /\ x \in Nat
  BY Zenon, Division
<1> HIDE DEF x, y
<1>2. bx \in Int /\ bq \in Int
  BY <1>1, Sizes
<1>3. x < q => bx + FS_BLKSZ <= bq
  <2>1. FS_BLKSZ * (x + 1) = bx + FS_BLKSZ
    BY <1>1, Sizes, SMTT(30)
  <2>2. x + 1 <= q => FS_BLKSZ * (x + 1) <= bq
    BY <1>1, Sizes, SMTT(30)
  <2> QED BY <1>1, <2>1, <2>2
<1>4. q < x => bq + FS_BLKSZ <= bx
  <2>1. FS_BLKSZ * (q + 1) = bq + FS_BLKSZ
    BY <1>1, Sizes, SMTT(30)
  <2>2. q + 1 <= x => FS_BLKSZ * (q + 1) <= bx
    BY <1>1, Sizes, SMTT(30)
  <2> QED BY <1>1, <2>1, <2>2
<1>5. x = q
  <2> HIDE DEF bx, bq
  <2>1. a = bq + r
    BY Zenon DEF bq
  <2> QED BY <1>1, <1>2, <1>3, <1>4, <2>1, Sizes
<1>6. y = r
  <2>1. bx = bq
    BY Zenon, <1>5
  <2>2. a = bq + r
    OBVIOUS
  <2> HIDE DEF bx, bq
  <2> QED BY <1>1, <1>2, <2>1, <2>2
<1> QED BY Zenon, <1>5, <1>6 DEF x, y

LEMMA ChunkFacts ==
  ASSUME KfsInv, NEW t \in Thread, pc[t] \in {"data", "wdata"}
  PROVE  LET c == call[t]
             o == Offset(c)
             k == Chunk(c)
             off == o % FS_BLKSZ
         IN /\ c.op \in {"read", "write"} /\ o \in Nat /\ o = file_list[c.fd].file_pos + c.done
            /\ BlockIdx(c) \in 0 .. Stored[c.ino] - 1 /\ BlockIdx(c) \in Nat
            /\ inode = ImageInode[c.ino]
            /\ k \in Nat \ {0} /\ c.done + k <= Wanted(c) /\ Wanted(c) \in Nat
            /\ off \in 0 .. FS_BLKSZ - 1 /\ off + k <= FS_BLKSZ
            /\ o = (FS_BLKSZ * BlockIdx(c)) + off
            /\ o + k <= Room(c.ino)
<1> DEFINE c == call[t]
           f == file_list[c.fd]
           o == Offset(c)
           k == Chunk(c)
           q == BlockIdx(c)
           off == o % FS_BLKSZ
<1>1. c.op \in {"read", "write"} /\ inode = ImageInode[c.ino] /\ q < Allocated(inode) /\ c.ino \in Ino
  BY Zenon DEF KfsInv, LockInv, CallInv
<1>2. /\ f.file_pos \in Nat /\ f.file_size \in Nat /\ c.done \in Nat /\ c.n \in Nat
      /\ Room(c.ino) \in Nat
  BY Zenon, <1>1, OwnerFile
<1>3. o \in Nat /\ o = f.file_pos + c.done
  BY <1>2 DEF Offset
<1>4. o = (FS_BLKSZ * q) + off /\ off \in 0 .. FS_BLKSZ - 1 /\ q \in Nat
  BY Zenon, <1>3, Division DEF BlockIdx
<1>5. q \in 0 .. Stored[c.ino] - 1 /\ Stored[c.ino] \in Nat
  BY <1>1, <1>4, AllocatedIs
<1>6. Wanted(c) \in Nat /\ c.done < Wanted(c)
  <2>1. CASE c.op = "read"
    <3>1. f.file_pos < f.file_size /\ c.done <= ToRead(c) /\ c.done < ToRead(c)
      BY Zenon, <1>1, <2>1 DEF KfsInv, ReadInv, LockInv, CallInv
    <3>2. ToRead(c) \in Nat
      BY <1>2, <3>1, Arithmetic, Zenon DEF ToRead
    <3> QED BY Zenon, <2>1, <3>1, <3>2 DEF Wanted
  <2>2. CASE c.op = "write"
    <3>1. c.done < c.n
      BY Zenon, <2>2 DEF KfsInv, WriteInv
    <3> QED BY Zenon, <1>2, <2>2, <3>1 DEF Wanted
  <2> QED BY Zenon, <1>1, <2>1, <2>2
<1>7. k = Min2(FS_BLKSZ - off, Wanted(c) - c.done)
  BY Zenon DEF Chunk
<1> HIDE DEF o, k, q, off
<1>8. k \in Nat \ {0} /\ c.done + k <= Wanted(c) /\ off + k <= FS_BLKSZ
  BY <1>2, <1>4, <1>6, <1>7, Sizes DEF Min2
<1>9. o + k <= Room(c.ino)
  <2>1. FS_BLKSZ * (q + 1) = (FS_BLKSZ * q) + FS_BLKSZ /\ FS_BLKSZ * q \in Int
    BY <1>4, Sizes, SMTT(30)
  <2>2. FS_BLKSZ * (q + 1) <= Room(c.ino)
    <3>1. q + 1 <= Stored[c.ino]
      BY <1>4, <1>5
    <3> QED BY <1>4, <1>5, <3>1, Sizes, SMTT(30) DEF Room
  <2> QED BY <1>2, <1>3, <1>4, <1>8, <2>1, <2>2, Sizes
<1> QED BY Zenon, <1>1, <1>3, <1>4, <1>5, <1>6, <1>8, <1>9 DEF o, k, q, off

LEMMA Joined ==
  ASSUME NEW S, NEW v \in Seq(S), NEW w \in Seq(S)
  PROVE  /\ v \o w \in Seq(S) /\ Len(v \o w) = Len(v) + Len(w)
         /\ \A i \in 1 .. Len(v) : (v \o w)[i] = v[i]
         /\ \A i \in 1 .. Len(w) : (v \o w)[Len(v) + i] = w[i]
<1>1. Len(v) \in Nat /\ Len(w) \in Nat
  OBVIOUS
<1>2. v \o w \in Seq(S) /\ Len(v \o w) = Len(v) + Len(w)
  OBVIOUS
<1>3. \A i \in 1 .. Len(v) : (v \o w)[i] = v[i]
  BY <1>1
<1>4. \A i \in 1 .. Len(w) : (v \o w)[Len(v) + i] = w[i]
  BY <1>1
<1> QED BY Zenon, <1>2, <1>3, <1>4

LEMMA FunctionSeq ==
  ASSUME NEW S, NEW k \in Nat, NEW w, w = [i \in 1 .. k |-> w[i]], \A i \in 1 .. k : w[i] \in S
  PROVE  w \in Seq(S) /\ Len(w) = k
<1>1. w \in [1 .. k -> S]
  BY Zenon
<1> QED BY <1>1

(* The record of a call with other bytes done.                              *)
Counted(c, m) == [c EXCEPT !.done = m]
Filled(c, b, m) == [c EXCEPT !.buf = b, !.done = m]

LEMMA CountedCall ==
  ASSUME NEW c \in CallRecord, NEW m \in Nat
  PROVE  LET d == Counted(c, m)
         IN /\ d \in CallRecord /\ d.op = c.op /\ d.fd = c.fd /\ d.ino = c.ino /\ d.n = c.n
            /\ d.buf = c.buf /\ d.done = m
  BY Zenon DEF CallRecord, Counted

LEMMA FilledCall ==
  ASSUME NEW c \in CallRecord, NEW b \in Seq(Byte), NEW m \in Nat
  PROVE  LET d == Filled(c, b, m)
         IN /\ d \in CallRecord /\ d.op = c.op /\ d.fd = c.fd /\ d.ino = c.ino /\ d.n = c.n
            /\ d.buf = b /\ d.done = m
<1> DEFINE e == [c EXCEPT !.buf = b]
<1>1. /\ e \in CallRecord /\ e.op = c.op /\ e.fd = c.fd /\ e.ino = c.ino /\ e.n = c.n
      /\ e.buf = b
  BY Zenon DEF CallRecord
<1>2. Filled(c, b, m) = Counted(e, m)
  BY Zenon DEF Filled, Counted
<1> HIDE DEF e
<1> QED BY SMTT(30), <1>1, <1>2, CountedCall

(* fs_read copies the bytes of the block.                                   *)
LEMMA DataReadReads ==
  ASSUME KfsInv, NEW t \in Thread, DataRead(t), call[t].op = "read"
  PROVE  LET c == call[t]
         IN \E d \in CallRecord :
              /\ d.op = "read" /\ d.fd = c.fd /\ d.ino = c.ino /\ d.n = c.n
              /\ d.done = c.done + Chunk(c) /\ Len(d.buf) = d.done /\ d.done <= ToRead(d)
              /\ Copied(disk, d, file_list[d.fd].file_pos)
              /\ ReadLoop(t, d, ImageInode[d.ino]) /\ UNCHANGED disk /\ inode' = ImageInode[d.ino]
<1> DEFINE c == call[t]
           f == file_list[c.fd]
           o == Offset(c)
           k == Chunk(c)
           q == BlockIdx(c)
           off == o % FS_BLKSZ
           block == disk[DataAt(inode.data_block_num[q])]
           out == [i \in 1 .. k |-> block[off + i - 1]]
           b == c.buf \o out
           d == [c EXCEPT !.buf = b, !.done = c.done + k]
<1>0. pc[t] = "data" /\ UNCHANGED <<disk, inode>> /\ ReadLoop(t, d, inode)
  BY Zenon DEF DataRead
<1>1. /\ o \in Nat /\ o = f.file_pos + c.done
      /\ q \in 0 .. Stored[c.ino] - 1 /\ inode = ImageInode[c.ino]
      /\ k \in Nat \ {0} /\ c.done + k <= Wanted(c)
      /\ off \in 0 .. FS_BLKSZ - 1 /\ off + k <= FS_BLKSZ
      /\ o = (FS_BLKSZ * q) + off
  BY Zenon, <1>0, ChunkFacts
<1>2. c \in CallRecord /\ c.ino \in Ino /\ f.file_pos \in Nat /\ c.done \in Nat
  BY Zenon, OwnerFile
<1>3. block = disk[Addr(c.ino, q)] /\ block \in Block
  BY Zenon, <1>1, <1>2 DEF Addr, KfsInv, BlockInv
<1>4. Len(c.buf) = c.done /\ c.buf \in Seq(Byte)
      /\ \A i \in 1 .. c.done : c.buf[i] = ByteAt(disk, c.ino, f.file_pos + i - 1)
  BY Zenon, <1>2 DEF KfsInv, ReadInv, CallRecord
<1>5. ASSUME NEW i \in 1 .. k
      PROVE  block[off + i - 1] \in Byte /\ block[off + i - 1] = ByteAt(disk, c.ino, o + i - 1)
  <2>1. off + i - 1 \in 0 .. FS_BLKSZ - 1
    <3> HIDE DEF off, k
    <3> QED BY <1>1, Sizes
  <2>2. o + i - 1 \in Nat /\ o + i - 1 = (FS_BLKSZ * q) + (off + i - 1)
    <3>1. FS_BLKSZ * q \in Int
      BY <1>1, BlockCounts, Sizes
    <3> DEFINE bq == FS_BLKSZ * q
    <3>2. bq \in Int /\ o = bq + off
      BY Zenon, <1>1, <3>1
    <3>3. o + i - 1 \in Nat /\ o + i - 1 = bq + (off + i - 1)
      <4> HIDE DEF bq, o, off, k
      <4> QED BY SMTT(30), <1>1, <2>1, <3>2, Sizes
    <3> QED BY Zenon, <3>3
  <2>3. q \in Nat
    BY <1>1, <1>2, BlockCounts
  <2> HIDE DEF o, off, k, q
  <2>4. (o + i - 1) \div FS_BLKSZ = q /\ (o + i - 1) % FS_BLKSZ = off + i - 1
    BY Zenon, <2>1, <2>2, <2>3, DivMod
  <2> QED BY Zenon, <1>3, <2>1, <2>4 DEF Block, ByteAt
<1> HIDE DEF o, off, k, q, block
<1>7. out = [i \in 1 .. k |-> out[i]]
      /\ \A i \in 1 .. k : out[i] \in Byte /\ out[i] = ByteAt(disk, c.ino, o + i - 1)
  BY Zenon, <1>5
<1> HIDE DEF out
<1>6. out \in Seq(Byte) /\ Len(out) = k
  BY Zenon, <1>1, <1>7, FunctionSeq
<1>8. /\ b \in Seq(Byte) /\ Len(b) = c.done + k
      /\ \A i \in 1 .. c.done : b[i] = c.buf[i]
      /\ \A i \in 1 .. k : b[c.done + i] = out[i]
  <2> HIDE DEF c
  <2>1. /\ b \in Seq(Byte) /\ Len(b) = Len(c.buf) + Len(out)
        /\ \A i \in 1 .. Len(c.buf) : b[i] = c.buf[i]
        /\ \A i \in 1 .. Len(out) : b[Len(c.buf) + i] = out[i]
    <3> DEFINE v == c.buf
    <3>1. v \in Seq(Byte) /\ out \in Seq(Byte)
      BY Zenon, <1>4, <1>6
    <3> HIDE DEF v
    <3>2. /\ v \o out \in Seq(Byte) /\ Len(v \o out) = Len(v) + Len(out)
          /\ \A i \in 1 .. Len(v) : (v \o out)[i] = v[i]
          /\ \A i \in 1 .. Len(out) : (v \o out)[Len(v) + i] = out[i]
      BY <3>1, Joined
    <3> QED BY Zenon, <3>2 DEF v
  <2> QED BY Zenon, <1>4, <1>6, <2>1
<1> HIDE DEF b
<1>9. ASSUME NEW i \in 1 .. c.done + k
      PROVE  b[i] = ByteAt(disk, c.ino, f.file_pos + i - 1)
  <2>1. CASE i <= c.done
    <3>1. i \in 1 .. c.done
      BY <1>1, <1>2, <2>1
    <3>2. b[i] = c.buf[i]
      BY Zenon, <1>8, <3>1
    <3> QED BY Zenon, <1>4, <3>1, <3>2
  <2>2. CASE i > c.done
    <3>1. i - c.done \in 1 .. k /\ o + (i - c.done) - 1 = f.file_pos + i - 1
      BY <1>1, <1>2, <2>2
    <3>2. b[c.done + (i - c.done)] = out[i - c.done] /\ c.done + (i - c.done) = i
      BY SMTT(30), <1>2, <1>8, <3>1
    <3>3. out[i - c.done] = ByteAt(disk, c.ino, o + (i - c.done) - 1)
      BY Zenon, <1>7, <3>1
    <3> QED BY Zenon, <3>1, <3>2, <3>3
  <2>3. i <= c.done \/ i > c.done
    BY <1>1, <1>2
  <2> QED BY Zenon, <2>1, <2>2, <2>3
<1>10. d \in CallRecord /\ d.op = "read" /\ d.fd = c.fd /\ d.ino = c.ino /\ d.n = c.n
       /\ d.done = c.done + k /\ d.buf = b
  <2> DEFINE m == c.done + k
  <2>1. c.op = "read" /\ m \in Nat /\ c \in CallRecord /\ b \in Seq(Byte)
    BY <1>1, <1>2, <1>8
  <2>2. d = Filled(c, b, m)
    BY Zenon DEF Filled
  <2> HIDE DEF c, d, m
  <2> QED BY <2>1, <2>2, FilledCall DEF m
<1> HIDE DEF d
<1>11. d.done <= ToRead(d)
  <2>1. Wanted(c) = ToRead(d)
    BY Zenon, <1>10 DEF Wanted, ToRead
  <2> QED BY Zenon, <1>1, <1>10, <2>1
<1>12. ReadLoop(t, d, ImageInode[d.ino]) /\ UNCHANGED disk /\ inode' = ImageInode[d.ino]
  BY Zenon, <1>0, <1>1, <1>10
<1>13. Len(d.buf) = d.done /\ Copied(disk, d, file_list[d.fd].file_pos)
  BY Zenon, <1>8, <1>9, <1>10 DEF Copied
<1> QED BY Zenon, <1>10, <1>11, <1>12, <1>13 DEF k

LEMMA DataReadStep ==
  ASSUME KfsInv, NEW t \in Thread, DataRead(t)
  PROVE  KfsInv'
<1> DEFINE c == call[t]
           f == file_list[c.fd]
           off == Offset(c) % FS_BLKSZ
<1>1. pc[t] = "data" /\ UNCHANGED <<disk, inode>>
  BY Zenon DEF DataRead
<1>2. c.op \in {"read", "write"} /\ BlockIdx(c) < Allocated(inode) /\ inode = ImageInode[c.ino]
  BY Zenon, <1>1 DEF KfsInv, LockInv, CallInv
<1>3. CASE c.op = "read"
  <2>1. PICK d \in CallRecord :
              /\ d.op = "read" /\ d.fd = c.fd /\ d.ino = c.ino /\ d.n = c.n
              /\ d.done = c.done + Chunk(c) /\ Len(d.buf) = d.done /\ d.done <= ToRead(d)
              /\ Copied(disk, d, file_list[d.fd].file_pos)
              /\ ReadLoop(t, d, ImageInode[d.ino]) /\ UNCHANGED disk /\ inode' = ImageInode[d.ino]
    BY Zenon, <1>3, DataReadReads
  <2> QED BY Zenon, <1>3, <2>1, ReadLoopStep
<1>4. CASE c.op = "write"
  <2>1. /\ pc' = [pc EXCEPT ![t] = "wdata"] /\ UNCHANGED <<file_list, kfs_lock, call, settled>>
        /\ data_block' = [j \in 0 .. FS_BLKSZ - 1 |->
             IF j \in off .. off + Chunk(c) - 1 THEN c.buf[c.done + j - off + 1]
             ELSE disk[DataAt(inode.data_block_num[BlockIdx(c)])][j]]
    BY <1>4, Zenon DEF DataRead, Wait
  <2>2. pc'[t] = "wdata" /\ call' = [call EXCEPT ![t] = c] /\ call'[t] = c /\ c \in CallRecord
    BY Zenon, <2>1 DEF KfsInv, LockInv
  <2>3. MetaInv' /\ BlockInv' /\ FilesInv' /\ DiskIs(t) /\ kfs_lock = t
    BY Zenon, <1>1, <2>1, SameDisk, SameFiles, OwnerDisk DEF KfsInv
  <2>4. /\ Offset(c)' = Offset(c) /\ BlockIdx(c)' = BlockIdx(c) /\ Chunk(c)' = Chunk(c)
        /\ Start(t)' = Start(t)
    BY Zenon, <1>1, <2>1, <2>2 DEF Offset, BlockIdx, Chunk, Wanted, ToRead, Start
  <2>5. CallInv(t)'
    <3>1. CallInv(t)
      BY Zenon DEF KfsInv, LockInv
    <3> QED BY Zenon, <1>1, <1>2, <1>4, <2>1, <2>2, <2>4, <3>1 DEF CallInv
  <2>6. ReadInv(t)'
    BY Zenon, <1>4, <2>2 DEF ReadInv
  <2>7. WriteInv(t)'
    <3>1. WriteInv(t)
      BY Zenon DEF KfsInv
    <3>2. data_block' = [j \in 0 .. FS_BLKSZ - 1 |->
             IF j \in off .. off + Chunk(c) - 1 THEN c.buf[c.done + j - off + 1]
             ELSE disk[Addr(c.ino, BlockIdx(c))][j]]
      BY <1>2, <2>1, Zenon DEF Addr
    <3>3. data_block' = [j \in 0 .. FS_BLKSZ - 1 |->
             IF j \in (Offset(c) % FS_BLKSZ .. (Offset(c) % FS_BLKSZ) + Chunk(c) - 1)'
             THEN c.buf[c.done + j - (Offset(c) % FS_BLKSZ)' + 1]
             ELSE disk'[Addr(c.ino, BlockIdx(c)')][j]]
      BY Zenon, <1>1, <2>4, <3>2
    <3>4. /\ c.n \in WriteLen /\ c.buf = Buf(t, c.n) /\ 0 <= Start(t) /\ c.done <= c.n
          /\ Start(t) + c.done <= Room(c.ino) /\ c.done < c.n
      BY <1>1, <1>4, <3>1, Zenon DEF WriteInv
    <3>5. call'[t] = c /\ pc'[t] = "wdata" /\ Start(t)' = Start(t)
      BY <2>2, <2>4, Zenon
    <3> QED BY Zenon, <3>3, <3>4, <3>5 DEF WriteInv
  <2>8. DiskIs(t)'
    <3>1. ASSUME NEW i \in Ino, NEW p \in 0 .. Room(i) - 1
          PROVE  /\ ByteAt(disk, i, p)' = ByteAt(disk, i, p)
                 /\ ByteAt(settled, i, p)' = ByteAt(settled, i, p)
      BY Zenon, <1>1, <2>1 DEF ByteAt
    <3> QED BY <2>1, <2>3, <2>4, <3>1, Zenon DEF DiskIs
  <2> QED BY Zenon, <2>1, <2>2, <2>3, <2>5, <2>6, <2>7, <2>8, WaitInv DEF KfsInv, Access
<1> QED BY Zenon, <1>2, <1>3, <1>4

(* A block of the file that t writes to is written back: the file has the   *)
(* next bytes in their place, and everything else on the disk stays.        *)
LEMMA BlockWritten ==
  ASSUME Layout, KfsInv, NEW t \in Thread, pc[t] = "wdata", WritesAtPos, WritesBlock(t)
  PROVE  LET c == call[t]
             pos == file_list[c.fd].file_pos
             m == c.done + Chunk(c)
         IN /\ MetaInv' /\ BlockInv' /\ m \in Nat /\ m <= c.n /\ pos + m <= Room(c.ino)
            /\ Overwritten(disk', settled, c.ino, pos, m, c.buf)
<1> DEFINE c == call[t]
           pos == file_list[c.fd].file_pos
           o == Offset(c)
           k == Chunk(c)
           m == c.done + k
           q == BlockIdx(c)
           off == o % FS_BLKSZ
           a == Addr(c.ino, q)
<1>1. /\ c.op \in {"read", "write"} /\ o \in Nat /\ o = pos + c.done
      /\ q \in 0 .. Stored[c.ino] - 1 /\ q \in Nat /\ inode = ImageInode[c.ino]
      /\ k \in Nat \ {0} /\ c.done + k <= Wanted(c)
      /\ off \in 0 .. FS_BLKSZ - 1 /\ off + k <= FS_BLKSZ
      /\ o = (FS_BLKSZ * q) + off /\ o + k <= Room(c.ino)
  BY Zenon, ChunkFacts
<1>2. c.op = "write"
  BY Zenon, <1>1 DEF KfsInv, LockInv, CallInv
<1>3. c \in CallRecord /\ c.ino \in Ino /\ pos \in Nat /\ c.done \in Nat /\ c.n \in Nat
  BY Zenon, <1>2, OwnerFile
<1>4. disk' = [disk EXCEPT ![a] = data_block]
  BY Zenon, <1>1 DEF WritesBlock, Target, Addr
<1>5. data_block = [j \in 0 .. FS_BLKSZ - 1 |->
              IF j \in off .. off + k - 1 THEN c.buf[c.done + j - off + 1] ELSE disk[a][j]]
      /\ c.buf = Buf(t, c.n) /\ Start(t) = pos
  <2>1. Start(t) = pos
    BY SMTT(30), <1>3 DEF Start
  <2> QED BY Zenon, <1>2, <2>1 DEF KfsInv, WriteInv
<1>6. m \in Nat /\ m <= c.n /\ pos + m <= Room(c.ino) /\ Room(c.ino) \in Nat
  <2>1. Wanted(c) = c.n /\ Room(c.ino) \in Nat
    BY Zenon, <1>2, <1>3, BlockCounts DEF Wanted
  <2> HIDE DEF k, o
  <2> QED BY <1>1, <1>3, <2>1
<1>7. a \in NI + 1 .. NI + Cardinality(Written) /\ q \in Nat
  BY Zenon, <1>1, <1>3 DEF Layout
<1>8. disk[a] \in Block
  BY Zenon, <1>1, <1>3 DEF KfsInv, BlockInv
<1> DEFINE bq == FS_BLKSZ * q
<1> HIDE DEF o, k, q, off, a, pos
<1>lin. /\ bq \in Int /\ o \in Nat /\ pos \in Nat /\ k \in Nat /\ off \in Nat /\ FS_BLKSZ \in Nat
        /\ o = bq + off /\ o = pos + c.done /\ off + k <= FS_BLKSZ /\ c.done \in Nat
  <2>1. bq \in Int
    BY <1>7, Sizes
  <2>2. o = bq + off
    BY <1>1, Zenon
  <2>3. off \in Nat
    <3>1. off \in 0 .. FS_BLKSZ - 1
      BY <1>1, Zenon
    <3> QED BY <3>1, Sizes
  <2>4. k \in Nat /\ FS_BLKSZ \in Nat
    BY <1>1, Sizes, Zenon
  <2> HIDE DEF bq
  <2>5. o \in Nat /\ o = pos + c.done /\ off + k <= FS_BLKSZ
    BY <1>1, Zenon
  <2> QED BY <1>3, <2>1, <2>2, <2>3, <2>4, <2>5, Zenon
<1> HIDE DEF bq
<1>9. data_block \in Block
  <2>1. c.buf \in Seq(Byte) /\ Len(c.buf) = c.n
    BY Zenon, <1>3, <1>5, BufType
  <2>2. ASSUME NEW j \in off .. off + k - 1 PROVE c.buf[c.done + j - off + 1] \in Byte
    <3>1. c.done + j - off + 1 \in 1 .. c.n
      <4>1. c.done + k <= c.n /\ c.n \in Nat
        BY Zenon, <1>3, <1>6
      <4> QED BY <1>lin, <4>1
    <3> QED BY <2>1, <3>1, Element, Zenon
  <2>3. \A j \in 0 .. FS_BLKSZ - 1 : disk[a][j] \in Byte
    BY Zenon, <1>8 DEF Block
  <2> QED BY Zenon, <1>5, <2>2, <2>3 DEF Block
<1>10. DOMAIN disk' = DOMAIN disk /\ disk' = [b \in DOMAIN disk' |-> disk'[b]] /\ disk'[a] = data_block
       /\ \A b \in DOMAIN disk : b # a => disk'[b] = disk[b]
  <2>1. DOMAIN disk = 0 .. NI + Cardinality(Written) /\ disk = [b \in DOMAIN disk |-> disk[b]]
    BY Zenon DEF KfsInv, MetaInv
  <2>2. a \in DOMAIN disk
    BY <1>7, <2>1, ImageFacts
  <2> QED BY Zenon, <1>4, <2>1, <2>2
<1>11. MetaInv'
  <2>1. DOMAIN disk = 0 .. NI + Cardinality(Written) /\ Cardinality(Written) \in Nat /\ NI \in Nat
    BY Zenon, ImageFacts DEF Layout, KfsInv, MetaInv
  <2>2. BOOT \in DOMAIN disk /\ BOOT # a
    BY <1>7, <2>1 DEF BOOT
  <2>3. \A i \in Ino : InodeAt(i) \in DOMAIN disk /\ InodeAt(i) # a
    BY <1>7, <2>1 DEF InodeAt, Ino
  <2> QED BY Zenon, <1>10, <2>1, <2>2, <2>3 DEF KfsInv, MetaInv, MetadataIntact
<1>12. ASSUME NEW i \in Ino, NEW b \in 0 .. Stored[i] - 1
       PROVE  disk'[Addr(i, b)] = IF i = c.ino /\ b = q THEN data_block ELSE disk[Addr(i, b)]
  <2>1. Addr(i, b) \in DOMAIN disk
    BY ImageFacts DEF Layout, KfsInv, MetaInv
  <2>2. Addr(i, b) = a <=> i = c.ino /\ b = q
    BY Zenon, <1>1, <1>3 DEF Layout, a
  <2> QED BY Zenon, <1>10, <2>1, <2>2
<1>13. BlockInv'
  BY Zenon, <1>9, <1>12 DEF KfsInv, BlockInv
<1>14. ASSUME NEW i \in Ino, NEW p \in 0 .. Room(i) - 1
       PROVE  ByteAt(disk', i, p) = IF c.ino = i /\ p \in o .. o + k - 1
                                    THEN c.buf[p - pos + 1] ELSE ByteAt(disk, i, p)
  <2> DEFINE b == p \div FS_BLKSZ
             r == p % FS_BLKSZ
  <2>1. p \in Nat /\ b \in 0 .. Stored[i] - 1 /\ r \in 0 .. FS_BLKSZ - 1 /\ p = (FS_BLKSZ * b) + r
        /\ b \in Nat
    BY Zenon, BlockOf, Division
  <2>2. ByteAt(disk', i, p) = disk'[Addr(i, b)][r] /\ ByteAt(disk, i, p) = disk[Addr(i, b)][r]
    BY Zenon DEF ByteAt
  <2>3. ASSUME p \in o .. o + k - 1 PROVE b = q
    <3>1. p = (FS_BLKSZ * q) + (p - o + off) /\ p - o + off \in 0 .. FS_BLKSZ - 1
      <4>1. p \in Nat
        BY Zenon, <2>1
      <4>2. p = bq + (p - o + off) /\ p - o + off \in 0 .. FS_BLKSZ - 1
        BY <1>lin, <2>3, <4>1
      <4> QED BY Zenon, <4>2 DEF bq
    <3> QED BY Zenon, <1>7, <2>1, <3>1, DivMod
  <2>4. ASSUME b = q PROVE r \in off .. off + k - 1 <=> p \in o .. o + k - 1
    <3>1. p = bq + r /\ r \in Nat /\ p \in Nat
      <4>1. FS_BLKSZ * b = bq
        BY Zenon, <2>4 DEF bq
      <4> QED BY <2>1, <4>1, Sizes
    <3> HIDE DEF b, r
    <3> QED BY <1>lin, <3>1
  <2>5. ASSUME b = q, p \in o .. o + k - 1 PROVE c.done + r - off + 1 = p - pos + 1
    <3>1. p = bq + r /\ r \in Nat /\ p \in Nat
      <4>1. FS_BLKSZ * b = bq
        BY Zenon, <2>5 DEF bq
      <4> QED BY <2>1, <4>1, Sizes
    <3> HIDE DEF b, r
    <3> QED BY <1>lin, <3>1
  <2> HIDE DEF b, r
  <2>6. disk'[Addr(i, b)] = IF i = c.ino /\ b = q THEN data_block ELSE disk[Addr(i, b)]
    BY Zenon, <1>12, <2>1
  <2>7. CASE i = c.ino /\ b = q
    <3>1. data_block[r] = IF r \in off .. off + k - 1 THEN c.buf[c.done + r - off + 1] ELSE disk[a][r]
      BY Zenon, <1>5, <2>1
    <3>2. Addr(i, b) = a
      BY Zenon, <2>7 DEF a
    <3> QED BY <2>2, <2>4, <2>5, <2>6, <2>7, <3>1, <3>2, Zenon
  <2>8. CASE ~(i = c.ino /\ b = q)
    BY <2>2, <2>3, <2>6, <2>8, Zenon
  <2> QED BY Zenon, <2>7, <2>8
<1>15. ASSUME NEW i \in Ino, NEW p \in 0 .. Room(i) - 1
       PROVE  ByteAt(disk', i, p) = IF c.ino = i /\ p \in pos .. pos + m - 1
                                    THEN c.buf[p - pos + 1] ELSE ByteAt(settled, i, p)
  <2>1. ByteAt(disk, i, p) = IF c.ino = i /\ p \in pos .. pos + c.done - 1
                             THEN c.buf[p - pos + 1] ELSE ByteAt(settled, i, p)
    <3>1. DiskIs(t)
      BY Zenon, OwnerDisk
    <3> QED BY <1>2, <1>5, <3>1, Zenon DEF DiskIs
  <2>2. p \in Nat
    BY Zenon, BlockOf
  <2>3. p \in pos .. pos + m - 1 <=> p \in pos .. pos + c.done - 1 \/ p \in o .. o + k - 1
    BY <1>1, <1>3, <2>2
  <2> QED BY <1>14, <2>1, <2>3, Zenon
<1>16. Overwritten(disk', settled, c.ino, pos, m, c.buf)
  BY <1>15, Zenon DEF Overwritten
<1> QED BY Zenon, <1>6, <1>11, <1>13, <1>16 DEF k, pos

LEMMA DataWriteStep ==
  ASSUME Layout, KfsInv, NEW t \in Thread, WritesAtPos, DataWrite(t)
  PROVE  KfsInv'
<1> DEFINE c == call[t]
           m == c.done + Chunk(c)
           d == [c EXCEPT !.done = m]
           pos == file_list[c.fd].file_pos
<1>0. /\ pc[t] = "wdata" /\ WriteLoop(t, d, inode) /\ inode' = inode
      /\ WritesBlock(t)
  BY Zenon DEF DataWrite, Caches, WritesBlock
<1>1. inode = ImageInode[c.ino] /\ c.op = "write" /\ c \in CallRecord
  BY Zenon, <1>0 DEF KfsInv, LockInv, CallInv
<1>2. /\ MetaInv' /\ BlockInv' /\ m \in Nat /\ m <= c.n /\ pos + m <= Room(c.ino)
      /\ Overwritten(disk', settled, c.ino, pos, m, c.buf)
  BY Zenon, <1>0, BlockWritten
<1>3. /\ d \in CallRecord /\ d.op = "write" /\ d.fd = c.fd /\ d.ino = c.ino /\ d.n = c.n
      /\ d.buf = c.buf /\ d.done = m
  <2>1. d = Counted(c, m)
    BY Zenon DEF Counted
  <2> HIDE DEF c, d, m
  <2> QED BY Zenon, <1>1, <1>2, <2>1, CountedCall
<1> HIDE DEF d, m
<1>4. Overwritten(disk', settled, d.ino, file_list[d.fd].file_pos, d.done, d.buf)
  BY Zenon, <1>2, <1>3
<1>5. d.done <= d.n /\ file_list[d.fd].file_pos + d.done <= Room(d.ino)
  BY Zenon, <1>2, <1>3
<1>6. WriteLoop(t, d, ImageInode[d.ino]) /\ inode' = ImageInode[d.ino] /\ pc[t] # "winode"
  BY Zenon, <1>0, <1>1, <1>3
<1>7. MetaInv' /\ BlockInv'
  BY Zenon, <1>2
<1> HIDE DEF pos
<1> QED BY <1>1, <1>3, <1>4, <1>5, <1>6, <1>7, WriteLoopStep, Zenon

(* write_inode writes what is there.                                        *)
LEMMA InodeWritten ==
  ASSUME KfsInv, NEW t \in Thread, pc[t] = "winode", WritesAtPos,
         disk' = [disk EXCEPT ![Target(InodeAt(call[t].ino))] = inode]
  PROVE  UNCHANGED disk
<1>1. inode = ImageInode[call[t].ino] /\ call[t].ino \in Ino
  BY Zenon DEF KfsInv, LockInv, CallInv
<1>2. disk[InodeAt(call[t].ino)] = inode
  BY Zenon, <1>1 DEF KfsInv, MetaInv, MetadataIntact
<1>3. disk = [b \in DOMAIN disk |-> disk[b]]
  BY Zenon DEF KfsInv, MetaInv
<1> QED BY Zenon, <1>2, <1>3 DEF Target

LEMMA InodeWriteStep ==
  ASSUME KfsInv, NEW t \in Thread, WritesAtPos, InodeWrite(t)
  PROVE  KfsInv'
<1>1. /\ pc[t] = "winode" /\ disk' = [disk EXCEPT ![Target(InodeAt(call[t].ino))] = inode]
      /\ Return(t, Ok(t, call[t].done, <<>>)) /\ UNCHANGED file_list
  BY Zenon DEF InodeWrite
<1>2. UNCHANGED disk
  BY Zenon, <1>1, InodeWritten
<1>3. MetaInv' /\ BlockInv' /\ FilesInv' /\ kfs_lock = t
  BY Zenon, <1>1, <1>2, SameDisk, SameFiles, Owner DEF KfsInv
<1> QED BY Zenon, <1>1, <1>3, ReturnInv DEF KfsInv

LEMMA DiskErrorStep ==
  ASSUME Layout, KfsInv, NEW t \in Thread, WritesAtPos, DiskError(t)
  PROVE  KfsInv'
<1> DEFINE c == call[t]
<1>1. /\ pc[t] # "idle" /\ Return(t, Err(t, "EIO")) /\ UNCHANGED file_list
      /\ \/ UNCHANGED disk
         \/ pc[t] = "wdata" /\ WritesBlock(t)
         \/ pc[t] = "winode" /\ disk' = [disk EXCEPT ![Target(InodeAt(c.ino))] = inode]
  BY Zenon DEF DiskError, WritesBlock
<1>2. MetaInv' /\ BlockInv'
  <2>1. CASE UNCHANGED disk
    BY Zenon, <2>1, SameDisk DEF KfsInv
  <2>2. CASE pc[t] = "wdata" /\ WritesBlock(t)
    BY Zenon, <2>2, BlockWritten
  <2>3. CASE pc[t] = "winode" /\ disk' = [disk EXCEPT ![Target(InodeAt(c.ino))] = inode]
    <3>1. UNCHANGED disk
      BY Zenon, <2>3, InodeWritten
    <3> QED BY Zenon, <3>1, SameDisk DEF KfsInv
  <2> QED BY Zenon, <1>1, <2>1, <2>2, <2>3
<1>3. FilesInv' /\ kfs_lock = t
  BY Zenon, <1>1, SameFiles, Owner DEF KfsInv
<1> QED BY Zenon, <1>1, <1>2, <1>3, ReturnInv DEF KfsInv
-----------------------------------------------------------------------------
LEMMA KfsStep ==
  ASSUME Layout, FirstFree, KfsInv, WritesAtPos, [Next]_vars
  PROVE  KfsInv'
<1>1. ASSUME NEW t \in Thread, Answer(t) PROVE KfsInv'
  BY Zenon, <1>1, InodeReadStep, DataReadStep, DataWriteStep, InodeWriteStep, DiskErrorStep DEF Answer
<1>2. CASE UNCHANGED vars
  <2>1. UNCHANGED <<disk, inode, data_block, kfs_lock, pc, call, settled, file_list>>
    BY Zenon, <1>2 DEF vars
  <2>2. FilesInv'
    BY Zenon, <2>1, SameFiles DEF KfsInv
  <2> QED BY Zenon, <2>1, <2>2, CallsKept
<1>3. CASE Next
  BY Zenon, <1>1, <1>3, OpenCallStep, ReadCallStep, WriteCallStep, SetPosStep, NoBytesStep, CloseStep DEF Next
<1> QED BY Zenon, <1>2, <1>3
-----------------------------------------------------------------------------
(* Mutual exclusion does not depend on what the disk does with the writes:   *)
(* it holds of both disks, from an invariant of the program counters alone.  *)
PcInv ==
  /\ pc \in [Thread -> Access] /\ call = [t \in Thread |-> call[t]]
  /\ LockDiscipline
  /\ \A t \in Thread : pc[t] = "inode" => call[t].op \in {"open", "read", "write"}

LEMMA PcReturn ==
  ASSUME PcInv, NEW t \in Thread, kfs_lock \in {t, NoThread}, NEW r, Return(t, r)
  PROVE  PcInv'
<1>1. \A u \in Thread \ {t} : pc[u] = "idle"
  BY Zenon, Sizes DEF PcInv, LockDiscipline
<1> QED BY Zenon, <1>1, Sizes DEF PcInv, LockDiscipline, Return, Access

LEMMA PcWait ==
  ASSUME PcInv, NEW t \in Thread, kfs_lock = t, UNCHANGED kfs_lock,
         NEW a \in {"data", "wdata", "winode"}, Wait(t, a),
         NEW c, call' = [call EXCEPT ![t] = c]
  PROVE  PcInv'
<1>1. /\ pc' \in [Thread -> Access] /\ pc'[t] = a /\ \A u \in Thread \ {t} : pc'[u] = pc[u]
      /\ call' = [u \in Thread |-> call'[u]] /\ \A u \in Thread \ {t} : call'[u] = call[u]
  BY Zenon DEF PcInv, Wait, Access
<1> QED BY Zenon, <1>1 DEF PcInv, LockDiscipline

LEMMA PcBegin ==
  ASSUME PcInv, NEW t \in Thread, Enters(t), NEW c, Begin(t, c), c.op \in {"open", "read", "write"}
  PROVE  PcInv'
<1>1. /\ pc' \in [Thread -> Access] /\ pc'[t] = "inode" /\ \A u \in Thread \ {t} : pc'[u] = pc[u]
      /\ call' = [u \in Thread |-> call'[u]] /\ \A u \in Thread \ {t} : call'[u] = call[u]
      /\ call'[t] = c
  BY Zenon DEF PcInv, Begin, Wait, Access
<1>2. kfs_lock' = t /\ \A u \in Thread : pc[u] = "idle"
  BY Zenon, Sizes DEF PcInv, LockDiscipline, Begin, Enters
<1> QED BY Zenon, <1>1, <1>2 DEF PcInv, LockDiscipline

LEMMA PcLoops ==
  ASSUME PcInv, NEW t \in Thread, kfs_lock = t, NEW c, NEW node,
         ReadLoop(t, c, node) \/ WriteLoop(t, c, node)
  PROVE  PcInv'
<1>1. CASE ReadLoop(t, c, node)
  <2>1. \/ \E r : Return(t, r)
        \/ Wait(t, "data") /\ call' = [call EXCEPT ![t] = c] /\ UNCHANGED kfs_lock
    BY Zenon, <1>1 DEF ReadLoop
  <2> QED BY Zenon, <2>1, PcReturn, PcWait
<1>2. CASE WriteLoop(t, c, node)
  <2>1. /\ Wait(t, "data") \/ Wait(t, "winode")
        /\ call' = [call EXCEPT ![t] = c] /\ UNCHANGED kfs_lock
    BY Zenon, <1>2 DEF WriteLoop
  <2> QED BY Zenon, <2>1, PcWait
<1> QED BY Zenon, <1>1, <1>2

LEMMA PcAnswer ==
  ASSUME PcInv, NEW t \in Thread, Answer(t)
  PROVE  PcInv'
<1>1. pc[t] # "idle"
  BY Zenon DEF Answer, InodeRead, DataRead, DataWrite, InodeWrite, DiskError
<1>2. kfs_lock = t
  BY Zenon, <1>1 DEF PcInv, LockDiscipline
<1>3. CASE InodeRead(t)
  <2>1. call[t].op \in {"open", "read", "write"}
    BY Zenon, <1>3 DEF InodeRead, PcInv
  <2>2. CASE call[t].op = "open"
    <3>1. \E r : Return(t, r)
      BY Zenon, <1>3, <2>2 DEF InodeRead, allocate_file
    <3> QED BY Zenon, <1>2, <3>1, PcReturn
  <2>3. CASE call[t].op \in {"read", "write"}
    <3>1. \E node : ReadLoop(t, call[t], node) \/ WriteLoop(t, call[t], node)
      BY Zenon, <1>3, <2>3 DEF InodeRead
    <3> QED BY Zenon, <1>2, <3>1, PcLoops
  <2> QED BY Zenon, <2>1, <2>2, <2>3
<1>4. CASE DataRead(t)
  <2>1. \/ \E c : ReadLoop(t, c, inode)
        \/ Wait(t, "wdata") /\ UNCHANGED <<kfs_lock, call>>
    BY <1>4, Zenon DEF DataRead
  <2>2. CASE Wait(t, "wdata") /\ UNCHANGED <<kfs_lock, call>>
    <3>1. call' = [call EXCEPT ![t] = call[t]]
      BY Zenon, <2>2 DEF PcInv
    <3> QED BY Zenon, <1>2, <2>2, <3>1, PcWait
  <2> QED BY Zenon, <1>2, <2>1, <2>2, PcLoops
<1>5. CASE DataWrite(t)
  <2>1. \E c : WriteLoop(t, c, inode)
    BY Zenon, <1>5 DEF DataWrite
  <2> QED BY Zenon, <1>2, <2>1, PcLoops
<1>6. CASE InodeWrite(t) \/ DiskError(t)
  <2>1. \E r : Return(t, r)
    BY Zenon, <1>6 DEF InodeWrite, DiskError
  <2> QED BY <1>2, <2>1, PcReturn
<1> QED BY Zenon, <1>3, <1>4, <1>5, <1>6 DEF Answer

LEMMA PcStep ==
  ASSUME PcInv, [Next]_vars
  PROVE  PcInv'
<1>1. ASSUME NEW t \in Thread, NEW name \in Name \cup {Unknown}, OpenCall(t, name) PROVE PcInv'
  <2>1. Enters(t) /\ \/ \E r : Return(t, r)
                     \/ Begin(t, NewCall("open", 0, InoOf[name], <<>>, 0))
    BY Zenon, <1>1 DEF OpenCall
  <2>2. NewCall("open", 0, InoOf[name], <<>>, 0).op = "open"
    BY Zenon DEF NewCall
  <2> QED BY Zenon, <2>1, <2>2, PcReturn, PcBegin DEF Enters
<1>2. ASSUME NEW t \in Thread, NEW fd \in Fd, NEW n \in ReadLen, ReadCall(t, fd, n) PROVE PcInv'
  <2> DEFINE c == NewCall("read", fd, file_list[fd].ino, <<>>, n)
  <2>1. Enters(t) /\ ((\E r : Return(t, r)) \/ Begin(t, c))
    BY Zenon, <1>2 DEF ReadCall
  <2>2. c.op = "read"
    BY Zenon DEF NewCall
  <2> HIDE DEF c
  <2> QED BY Zenon, <2>1, <2>2, PcReturn, PcBegin DEF Enters
<1>3. ASSUME NEW t \in Thread, NEW fd \in Fd, NEW n \in WriteLen, WriteCall(t, fd, n) PROVE PcInv'
  <2> DEFINE c == NewCall("write", fd, file_list[fd].ino, Buf(t, n), n)
  <2>1. Enters(t) /\ ((\E r : Return(t, r)) \/ Begin(t, c))
    BY Zenon, <1>3 DEF WriteCall
  <2>2. c.op = "write"
    BY Zenon DEF NewCall
  <2> HIDE DEF c
  <2> QED BY Zenon, <2>1, <2>2, PcReturn, PcBegin DEF Enters
<1>4. ASSUME NEW t \in Thread, NEW fd \in Fd, NEW p \in Positions, fs_setpos(t, fd, p) PROVE PcInv'
  <2>1. Enters(t) /\ \E r : Return(t, r)
    BY Zenon, <1>4 DEF fs_setpos
  <2> QED BY Zenon, <2>1, PcReturn DEF Enters
<1>5. ASSUME UNCHANGED <<pc, call, kfs_lock>> PROVE PcInv'
  BY Zenon, <1>5 DEF PcInv, LockDiscipline
<1>6. (\E fd \in Fd : fs_close(fd)) \/ (\E t \in Thread : NoBytes(t)) \/ UNCHANGED vars
        => UNCHANGED <<pc, call, kfs_lock>>
  BY Zenon DEF fs_close, NoBytes, vars
<1> QED BY Zenon, <1>1, <1>2, <1>3, <1>4, <1>5, <1>6, PcAnswer DEF Next

(* LockDiscipline for both disks: every return of fs_open, fs_read, fs_write *)
(* and fs_setpos, the ones on errors included, has released kfs_lock, and    *)
(* only its owner is between two disk accesses.                              *)
THEOREM LockDisciplineHolds == Spec => []LockDiscipline
<1>1. Init => PcInv
  BY Zenon, Sizes DEF Init, PcInv, LockDiscipline, Access
<1>2. PcInv /\ [Next]_vars => PcInv'
  BY Zenon, PcStep
<1>3. PcInv => LockDiscipline
  BY Zenon DEF PcInv
<1> QED BY <1>1, <1>2, <1>3, PTL DEF Spec
=============================================================================
