-------------------------------- MODULE Kfs ---------------------------------
(***************************************************************************)
(* The file system (kfs.c) on an image that mkfs (util/mkfs.c) made:       *)
(* fs_open, fs_close, fs_read, fs_write and the position calls of          *)
(* fs_ioctl, with the one cached inode and the one cached data block that  *)
(* all calls share under kfs_lock.                                         *)
(*                                                                         *)
(* A thread gives up the processor only where it waits: for kfs_lock, or   *)
(* for the disk. pc[t] names the disk access t waits for, and one action   *)
(* runs from the answer to the next access or to the return. A call that   *)
(* waits for kfs_lock has looked at nothing yet, so its entry is the       *)
(* moment it gets the lock. Over a disk in memory (iolit, test_kfs.c)      *)
(* nothing waits: its behaviours are those where the steps of a call       *)
(* follow one another.                                                     *)
(*                                                                         *)
(* Where a write lands depends on the disk under the file system: iolit    *)
(* writes at the position fs_write has set, vioblk_write counts its        *)
(* sectors from 0 (vioblk.c:437). WritesAtPos chooses.                     *)
(*                                                                         *)
(* fs_close takes no lock. It is called by ioclose when the last           *)
(* descriptor is closed, hence when no call on the object is in progress.  *)
(*                                                                         *)
(* Definitions marked "faulty variant" are no part of Next: each is a bug  *)
(* that one of the properties below rules out.                             *)
(***************************************************************************)
EXTENDS Integers, Sequences, FiniteSets, Functions

CONSTANTS
  Thread, NoThread,
  FS_BLKSZ, MAX_OPEN_FILES,
  Dentries,       \* file names, in the order of the directory
  ByteLen,        \* their lengths
  ReadLen, WriteLen, Positions, Unknown,
  MAXWRITES,      \* bound: calls of fs_write
  WritesAtPos, DiskFails

NI == Len(Dentries)                \* boot_block.num_inodes
Ino == 0 .. NI - 1
Fd == 0 .. MAX_OPEN_FILES - 1
Name == Range(Dentries)
LenOf(i) == ByteLen[Dentries[i + 1]]
InoOf == [f \in Name |-> CHOOSE i \in Ino : Dentries[i + 1] = f]

ASSUME KfsAssumption ==
  /\ NoThread \notin Thread
  /\ FS_BLKSZ \in Nat \ {0} /\ MAX_OPEN_FILES \in Nat \ {0} /\ MAXWRITES \in Nat
  /\ Dentries \in Seq(Name) /\ IsInjective(Dentries) /\ Unknown \notin Name
  /\ ByteLen \in [Name -> Nat]
  /\ ReadLen \cup WriteLen \cup Positions \subseteq Nat
  /\ {WritesAtPos, DiskFails} \subseteq BOOLEAN

(* mkfs gives a file of n bytes n / FS_BLKSZ + 1 data blocks, numbered on    *)
(* from those of the files before it, but writes only the blocks that hold   *)
(* bytes: a length that is a multiple of FS_BLKSZ shifts the files after it. *)
NumBlocks(n) == n \div FS_BLKSZ + 1
BlocksWritten(n) == (n + FS_BLKSZ - 1) \div FS_BLKSZ
Numbered == [i \in Ino |-> NumBlocks(LenOf(i))]
Stored == [i \in Ino |-> BlocksWritten(LenOf(i))]
Before(i, blocks) == Cardinality(UNION {{j} \X (0 .. blocks[j] - 1) : j \in 0 .. i - 1})
ImageInode ==
  [i \in Ino |->
     [byte_len |-> LenOf(i),
      data_block_num |-> [k \in 0 .. Numbered[i] - 1 |-> Before(i, Numbered) + k]]]
num_data == Before(NI, Numbered)

(* The assumption on the image under which the inodes name the blocks that   *)
(* hold the files.                                                           *)
ASSUME ImageAssumption ==
  \A i \in Ino : i < NI - 1 => LenOf(i) % FS_BLKSZ # 0

FileByte(f, i) == <<f, i>>         \* byte i of file f in the image
ImageBlock(d) ==                   \* data block d of the image
  LET i == CHOOSE i \in Ino : d \in Before(i, Stored) .. Before(i + 1, Stored) - 1
      k == d - Before(i, Stored)
  IN [j \in 0 .. FS_BLKSZ - 1 |-> FileByte(Dentries[i + 1], k * FS_BLKSZ + j)]
Written == 0 .. Before(NI, Stored) - 1

BOOT == 0
InodeAt(i) == 1 + i                \* update_inode, write_inode: block numbers
DataAt(d) == 1 + NI + d            \* update_data_block, write_data_block
BootBlock == [num_inodes |-> NI]
Image ==
  [b \in 0 .. NI + Cardinality(Written) |->
     CASE b = BOOT -> BootBlock
       [] b \in 1 .. NI -> ImageInode[b - 1]
       [] OTHER -> ImageBlock(b - 1 - NI)]
-----------------------------------------------------------------------------
VARIABLES
  disk,           \* block number -> what is in the block
  inode, data_block,   \* the cached ones
  file_list,      \* [Fd -> file_t]
  kfs_lock,       \* its owner
  pc,             \* [Thread -> the disk access the thread waits for]
  call,           \* [Thread -> its arguments and the bytes done]
  result,         \* what the last call returned, and to whom
  settled,        \* history: disk when the last call returned
  writes          \* counts towards MAXWRITES

vars == <<disk, inode, data_block, file_list, kfs_lock, pc, call, result, settled, writes>>

FreeFile == [in_use |-> FALSE, ino |-> 0, file_pos |-> 0, file_size |-> 0]
NewCall(op, fd, ino, buf, n) ==
  [op |-> op, fd |-> fd, ino |-> ino, buf |-> buf, n |-> n, done |-> 0]
NoCall == NewCall("none", 0, 0, <<>>, 0)
Ok(t, ret, bytes) == [to |-> t, err |-> "ok", ret |-> ret, data |-> bytes]
Err(t, e) == [to |-> t, err |-> e, ret |-> 0, data |-> <<>>]
NoResult == Ok(NoThread, 0, <<>>)

(* After fs_mount: the boot block is cached, no file is open. The cached     *)
(* inode and data block are zero (bss) until the first access.               *)
Init ==
  /\ disk = Image
  /\ inode = [byte_len |-> 0, data_block_num |-> <<>>]
  /\ data_block = <<>>
  /\ file_list = [fd \in Fd |-> FreeFile]
  /\ kfs_lock = NoThread
  /\ pc = [t \in Thread |-> "idle"]
  /\ call = [t \in Thread |-> NoCall]
  /\ result = NoResult
  /\ settled = Image
  /\ writes = 0

Wait(t, access) == pc' = [pc EXCEPT ![t] = access]

(* The way out of every call: lock_release and return. *)
Return(t, r) ==
  /\ kfs_lock' = NoThread
  /\ pc' = [pc EXCEPT ![t] = "idle"]
  /\ call' = [call EXCEPT ![t] = NoCall]
  /\ result' = r
  /\ settled' = disk'

(* lock_acquire, and on to the first disk access. *)
Begin(t, c) ==
  /\ kfs_lock' = t
  /\ Wait(t, "inode")
  /\ call' = [call EXCEPT ![t] = c]
  /\ result' = NoResult
  /\ UNCHANGED settled

(* Faulty variant: the lock is not waited for. *)
EntersUnlocked(t) == pc[t] = "idle"
Enters(t) == pc[t] = "idle" /\ kfs_lock = NoThread
-----------------------------------------------------------------------------
Caches == <<inode, data_block>>
Min2(a, b) == IF a < b THEN a ELSE b

OpenCall(t, name) ==
  /\ Enters(t) /\ UNCHANGED disk
  /\ IF name \in Name
     THEN Begin(t, NewCall("open", 0, InoOf[name], <<>>, 0))
     ELSE Return(t, Err(t, "ENOENT"))
  /\ UNCHANGED <<Caches, file_list, writes>>

ReadCall(t, fd, n) ==
  LET f == file_list[fd]
  IN /\ UNCHANGED disk /\ Enters(t) /\ f.in_use /\ n > 0
     /\ CASE f.file_pos >= f.file_size -> Return(t, Ok(t, 0, <<>>))
          [] f.file_pos < f.file_size /\ f.ino >= NI -> Return(t, Err(t, "EIO"))
          [] OTHER -> Begin(t, NewCall("read", fd, f.ino, <<>>, n))
     /\ UNCHANGED <<Caches, file_list, writes>>

(* The bytes that thread t writes. *)
Buf(t, n) == [i \in 1 .. n |-> <<t, i>>]

WriteCall(t, fd, n) ==
  LET f == file_list[fd]
  IN /\ UNCHANGED disk /\ Enters(t) /\ f.in_use /\ n > 0 /\ writes < MAXWRITES
     /\ writes' = writes + 1
     /\ IF f.ino >= NI
        THEN Return(t, Err(t, "EIO"))
        ELSE Begin(t, NewCall("write", fd, f.ino, Buf(t, n), n))
     /\ UNCHANGED <<Caches, file_list>>

(* fs_read and fs_write of no bytes return before lock_acquire. *)
NoBytes(t) ==
  /\ pc[t] = "idle" /\ \E fd \in Fd : file_list[fd].in_use
  /\ result' = Ok(t, 0, <<>>)
  /\ UNCHANGED <<disk, Caches, file_list, kfs_lock, pc, call, settled, writes>>

fs_setpos(t, fd, p) ==
  /\ Enters(t) /\ UNCHANGED disk /\ file_list[fd].in_use
  /\ IF p > file_list[fd].file_size
     THEN Return(t, Err(t, "EINVAL")) /\ UNCHANGED file_list
     ELSE Return(t, Ok(t, 0, <<>>)) /\ file_list' = [file_list EXCEPT ![fd].file_pos = p]
  /\ UNCHANGED <<Caches, writes>>

(* fs_close, release_file: no lock. *)
fs_close(fd) ==
  /\ file_list[fd].in_use
  /\ \A t \in Thread : call[t].op \in {"read", "write"} => call[t].fd # fd
  /\ file_list' = [file_list EXCEPT ![fd] = FreeFile]
  /\ UNCHANGED <<disk, Caches, kfs_lock, pc, call, result, settled, writes>>
-----------------------------------------------------------------------------
(* allocate_file: the first free descriptor, at the start of the file. *)
allocate_file(t, ino, node) ==
  LET free == {fd \in Fd : ~file_list[fd].in_use}
      fd == CHOOSE fd \in free : \A g \in free : fd <= g
  IN IF free = {} \/ ino > NI
     THEN Return(t, Err(t, "EBUSY")) /\ UNCHANGED file_list
     ELSE /\ file_list' = [file_list EXCEPT ![fd] =
               [in_use |-> TRUE, ino |-> ino, file_pos |-> 0, file_size |-> node.byte_len]]
          /\ Return(t, Ok(t, fd, <<>>))

(* Faulty variant: rounds down. *)
AllocatedFloor(node) == node.byte_len \div FS_BLKSZ
Allocated(node) == (node.byte_len + FS_BLKSZ - 1) \div FS_BLKSZ
Offset(c) == file_list[c.fd].file_pos + c.done
BlockIdx(c) == Offset(c) \div FS_BLKSZ
ToRead(c) == Min2(c.n, file_list[c.fd].file_size - file_list[c.fd].file_pos)
Wanted(c) == IF c.op = "read" THEN ToRead(c) ELSE c.n
Advanced(c) == [file_list EXCEPT ![c.fd].file_pos = @ + c.done]

(* The head of the loop of fs_read, with the inode node in the cache: done,  *)
(* an invalid block number, or the next data block.                          *)
ReadLoop(t, c, node) ==
  CASE c.done >= ToRead(c) -> file_list' = Advanced(c) /\ Return(t, Ok(t, c.done, c.buf))
    [] c.done < ToRead(c) /\ (BlockIdx(c) >= Allocated(node)
                               \/ node.data_block_num[BlockIdx(c)] >= num_data) ->
         Return(t, Err(t, "EIO")) /\ UNCHANGED file_list
    [] OTHER -> /\ Wait(t, "data") /\ call' = [call EXCEPT ![t] = c]
                /\ UNCHANGED <<file_list, kfs_lock, result, settled>>

(* The head of the loop of fs_write: the next data block, or write_inode     *)
(* when the bytes or the allocated blocks are used up.                       *)
WriteLoop(t, c, node) ==
  /\ IF c.done < c.n /\ BlockIdx(c) < Allocated(node)
     THEN Wait(t, "data") /\ UNCHANGED file_list
     ELSE Wait(t, "winode") /\ file_list' = Advanced(c)
  /\ call' = [call EXCEPT ![t] = c]
  /\ UNCHANGED <<kfs_lock, result, settled>>

(* update_inode succeeds. *)
InodeRead(t) ==
  LET c == call[t]
      node == disk[InodeAt(c.ino)]
  IN /\ pc[t] = "inode" /\ UNCHANGED disk
     /\ inode' = node
     /\ CASE c.op = "open" -> allocate_file(t, c.ino, node)
          [] c.op = "read" -> ReadLoop(t, c, node)
          [] c.op = "write" -> WriteLoop(t, c, node)
     /\ UNCHANGED <<data_block, writes>>

(* How many bytes the current block takes or gives. *)
Chunk(c) == Min2(FS_BLKSZ - (Offset(c) % FS_BLKSZ), Wanted(c) - c.done)

(* update_data_block succeeds; fs_read copies from the block, fs_write into  *)
(* it, and goes on to write it back.                                         *)
DataRead(t) ==
  LET c == call[t]
      off == Offset(c) % FS_BLKSZ
      block == disk[DataAt(inode.data_block_num[BlockIdx(c)])]
      out == [i \in 1 .. Chunk(c) |-> block[off + i - 1]]
  IN /\ pc[t] = "data" /\ UNCHANGED disk
     /\ IF c.op = "read"
        THEN /\ data_block' = block
             /\ ReadLoop(t, [c EXCEPT !.buf = @ \o out, !.done = @ + Chunk(c)], inode)
        ELSE /\ data_block' = [j \in 0 .. FS_BLKSZ - 1 |->
                  IF j \in off .. off + Chunk(c) - 1 THEN c.buf[c.done + j - off + 1] ELSE block[j]]
             /\ Wait(t, "wdata")
             /\ UNCHANGED <<file_list, kfs_lock, call, result, settled>>
     /\ UNCHANGED <<inode, writes>>

(* Where the disk puts a block that is written at block number b. *)
Target(b) == IF WritesAtPos THEN b ELSE BOOT

(* write_data_block succeeds. *)
DataWrite(t) ==
  LET c == call[t]
  IN /\ pc[t] = "wdata"
     /\ disk' = [disk EXCEPT ![Target(DataAt(inode.data_block_num[BlockIdx(c)]))] = data_block]
     /\ WriteLoop(t, [c EXCEPT !.done = @ + Chunk(c)], inode)
     /\ UNCHANGED <<Caches, writes>>

(* write_inode succeeds: the end of fs_write. *)
(* Faulty variant: forgets the boot block. *)
InodeWriteShifted(t) ==
  /\ pc[t] = "winode"
  /\ disk' = [disk EXCEPT ![call[t].ino] = inode]
  /\ Return(t, Ok(t, call[t].done, <<>>))
  /\ UNCHANGED <<Caches, file_list, writes>>
InodeWrite(t) ==
  /\ pc[t] = "winode"
  /\ disk' = [disk EXCEPT ![Target(InodeAt(call[t].ino))] = inode]
  /\ Return(t, Ok(t, call[t].done, <<>>))
  /\ UNCHANGED <<Caches, file_list, writes>>

(* The disk access fails: every call releases the lock and returns -EIO. A   *)
(* block whose write fails is written or not.                                *)
DiskError(t) ==
  LET c == call[t]
      d == DataAt(inode.data_block_num[BlockIdx(c)])
  IN /\ DiskFails /\ pc[t] # "idle"
     /\ \/ UNCHANGED disk
        \/ pc[t] = "wdata" /\ disk' = [disk EXCEPT ![Target(d)] = data_block]
        \/ pc[t] = "winode" /\ disk' = [disk EXCEPT ![Target(InodeAt(c.ino))] = inode]
     /\ Return(t, Err(t, "EIO"))
     /\ UNCHANGED <<Caches, file_list, writes>>
-----------------------------------------------------------------------------
Answer(t) == InodeRead(t) \/ DataRead(t) \/ DataWrite(t) \/ InodeWrite(t) \/ DiskError(t)

Next ==
  \/ \E t \in Thread :
       \/ \E name \in Name \cup {Unknown} : OpenCall(t, name)
       \/ \E fd \in Fd : \/ \E n \in ReadLen : ReadCall(t, fd, n)
                         \/ \E n \in WriteLen : WriteCall(t, fd, n)
                         \/ \E p \in Positions : fs_setpos(t, fd, p)
       \/ NoBytes(t)
       \/ Answer(t)
  \/ \E fd \in Fd : fs_close(fd)

Spec == Init /\ [][Next]_vars
-----------------------------------------------------------------------------
(* Every return of fs_open, fs_read, fs_write and fs_setpos, the ones on      *)
(* errors included, has released kfs_lock; and only its owner is between two  *)
(* disk accesses, so nobody else changes the cached inode and data block.     *)
LockDiscipline == \A t \in Thread : pc[t] # "idle" <=> kfs_lock = t

(* fs_write changes data blocks only: the boot block and the inodes on the    *)
(* disk stay what mkfs wrote, although every write writes the cached inode    *)
(* back (write_inode) and the cache is shared by all files.                   *)
MetadataIntact == disk[BOOT] = BootBlock /\ \A i \in Ino : disk[InodeAt(i)] = ImageInode[i]

(* When fs_write has written its blocks ("Writes n bytes from buf into the    *)
(* file associated with io"), the bytes it counts as written are in the       *)
(* blocks of the file.                                                        *)
WritesReachFile ==
  \A t \in Thread : pc[t] = "winode" =>
    LET c == call[t]
        start == file_list[c.fd].file_pos - c.done
    IN \A i \in 0 .. c.done - 1 :
         disk[DataAt(inode.data_block_num[(start + i) \div FS_BLKSZ])][(start + i) % FS_BLKSZ]
           = c.buf[i + 1]

CapOf == [f \in Name |-> BlocksWritten(ByteLen[f]) * FS_BLKSZ]
ContentOf(dk) ==
  [f \in Name |-> LET node == ImageInode[InoOf[f]]
                  IN [i \in 0 .. CapOf[f] - 1 |->
                        dk[DataAt(node.data_block_num[i \div FS_BLKSZ])][i % FS_BLKSZ]]]

(* fs_write moves the position before it writes the inode back. *)
PosOf(fd) ==
  IF \E t \in Thread : kfs_lock = t /\ pc[t] = "winode" /\ call[t].fd = fd
  THEN file_list[fd].file_pos - call[kfs_lock].done
  ELSE file_list[fd].file_pos

Descriptors ==
  [fd \in Fd |-> IF file_list[fd].in_use
                 THEN [open |-> TRUE, file |-> Dentries[file_list[fd].ino + 1], pos |-> PosOf(fd)]
                 ELSE [open |-> FALSE, file |-> "", pos |-> 0]]
FileImage == [f \in Name |-> [i \in 0 .. CapOf[f] - 1 |-> FileByte(f, i)]]
WriteBufs == {Buf(t, n) : t \in Thread, n \in WriteLen}

FS == INSTANCE FileSys WITH
  Size <- ByteLen, Cap <- CapOf, Image <- FileImage, Bufs <- WriteBufs,
  ReadLen <- ReadLen \cup {0}, content <- ContentOf(settled), desc <- Descriptors

(* The calls implement FileSys: each one takes effect at one instant, its     *)
(* return, as if no other were in progress; a read returns the bytes of its   *)
(* own file at the position of its own descriptor, the ones the last write    *)
(* put there, whatever blocks, cached inode and other calls lie between.      *)
ImplementsFileSys == FS!Spec
=============================================================================
