------------------------------- MODULE VioBlk -------------------------------
(***************************************************************************)
(* The VirtIO block driver (vioblk.c): vioblk_open, vioblk_close,          *)
(* vioblk_read, vioblk_write, vioblk_setpos, operation_single_blk and      *)
(* vioblk_isr, with the one request the virtqueue holds and the device.    *)
(*                                                                         *)
(* Threads give up the processor only in lock_acquire (vio_lock) and in    *)
(* condition_wait (used_updated); an action of a thread runs from one      *)
(* such point to the next. A lock that is free is taken at once, without   *)
(* letting anybody else run. The device works at any time. vioblk_isr      *)
(* runs while no thread does and reads interrupt_status twice: to decide   *)
(* about the broadcast, and to acknowledge.                                *)
(*                                                                         *)
(* The device (external) is modelled from how the driver uses it. A write  *)
(* request whose data descriptor is marked device-writable, as             *)
(* operation_single_blk leaves it after the first read, is carried out or  *)
(* not.                                                                    *)
(*                                                                         *)
(* Definitions marked "faulty variant" are no part of VioBlkNext: each is a *)
(* bug that one of the properties below rules out.                         *)
(***************************************************************************)
EXTENDS Integers, Sequences, FiniteSets, Callers

CONSTANTS
  NSECT, BLKSZ,   \* sectors of the disk, bytes of a sector
  WORD,           \* 2^64, for the unsigned byte counts
  ReadLen, WriteLen, Positions,
  MAXPOS          \* bound: no call begins beyond this position

ASSUME VioBlkAssumption ==
  /\ NoThread \notin Thread
  /\ {NSECT, BLKSZ, WORD} \subseteq Nat \ {0} /\ BLKSZ < WORD
  /\ ReadLen \cup WriteLen \cup Positions \subseteq 0 .. WORD - 1
  /\ MAXPOS \in Nat

Sector == 0 .. NSECT - 1

VARIABLES
  opened, readonly, pos, bufblkno, blkbuf,   \* struct vioblk_device
  request, status, wflag,   \* header, status byte, VIRTQ_DESC_F_WRITE of the data
  pending,        \* avail.idx is ahead of used.idx
  istatus,        \* bit 0 of interrupt_status
  disk,           \* [Sector -> what is there]
  vio_lock, asleep,         \* owner; threads asleep on used_updated
  isr,            \* "off", or the step of vioblk_isr
  vpc,            \* where each thread is
  todo, sector,   \* its n or bufsz, and the local variable of vioblk_write
  mixed           \* history: a read overlapped a write or a vioblk_setpos

blkdev == <<opened, readonly>>
place == <<pos, bufblkno>>
queue == <<blkbuf, request, status, wflag, pending, istatus, disk>>
callers == <<vio_lock, asleep, vpc, todo, sector>>
VioBlkVars == <<blkdev, place, queue, callers, isr, mixed>>

(* After vioblk_attach. *)
VioBlkInit ==
  /\ opened = FALSE /\ readonly \in BOOLEAN
  /\ pos = 0 /\ bufblkno = 0 /\ blkbuf = NoThread
  /\ request = [type |-> "none", sector |-> 0] /\ status = "OK" /\ wflag = FALSE
  /\ pending = FALSE /\ istatus = FALSE
  /\ disk = [s \in Sector |-> s]
  /\ vio_lock = NoThread /\ asleep = {} /\ isr = "off"
  /\ vpc = [t \in Thread |-> "idle"]
  /\ todo = [t \in Thread |-> 0] /\ sector = [t \in Thread |-> 0]
  /\ mixed = FALSE
-----------------------------------------------------------------------------
Reading == {t \in Thread : vpc[t] \in {"rlock", "read"}}
Moving == {t \in Thread : vpc[t] \in {"wlock", "write", "plock"}}

(* A call of kind "read" or "move" begins while others are in progress. *)
Overlap(kind) ==
  mixed' = \/ mixed /\ Reading \cup Moving # {}
           \/ kind = "read" /\ Moving # {}
           \/ kind = "move" /\ Reading # {}

(* operation_single_blk up to condition_wait: the request is made, the       *)
(* device notified, and t sleeps, all with interrupts disabled.              *)
Submit(t, type, sect) ==
  /\ request' = [type |-> type, sector |-> sect]
  /\ status' = "OK"
  /\ wflag' = (wflag \/ type = "IN")
  /\ pending' = TRUE
  /\ asleep' = asleep \cup {t}
  /\ vio_lock' = t
  /\ UNCHANGED <<istatus, disk>>

Return(t) ==
  /\ vio_lock' = NoThread
  /\ vpc' = [vpc EXCEPT ![t] = "idle"]
  /\ todo' = [todo EXCEPT ![t] = 0] /\ sector' = [sector EXCEPT ![t] = 0]
  /\ UNCHANGED asleep

(* The loops of vioblk_read and vioblk_write, with n bytes to go. *)
ReadBlock(t, n, blkno) ==
  /\ Submit(t, "IN", blkno)
  /\ vpc' = [vpc EXCEPT ![t] = "read"] /\ todo' = [todo EXCEPT ![t] = n]
  /\ UNCHANGED <<blkbuf, sector>>

WriteBlock(t, n, sect) ==
  /\ blkbuf' = t
  /\ Submit(t, "OUT", sect)
  /\ vpc' = [vpc EXCEPT ![t] = "write"] /\ todo' = [todo EXCEPT ![t] = n]
  /\ sector' = [sector EXCEPT ![t] = sect]

Asks(t, lock, n) ==
  /\ vpc' = [vpc EXCEPT ![t] = lock] /\ todo' = [todo EXCEPT ![t] = n]
  /\ UNCHANGED <<queue, vio_lock, asleep, sector>>

Calls(t) == isr = "off" /\ opened /\ vpc[t] = "idle" /\ pos <= MAXPOS

(* bufblkno is computed before the lock is held. *)
vioblk_read(t, n) ==
  /\ Calls(t)
  /\ bufblkno' = pos \div BLKSZ
  /\ CASE n = 0 \/ n % BLKSZ # 0 -> UNCHANGED <<queue, callers, mixed>>
       [] OTHER -> /\ IF vio_lock = NoThread
                      THEN ReadBlock(t, n, pos \div BLKSZ)
                      ELSE Asks(t, "rlock", n)
                   /\ Overlap("read")
  /\ UNCHANGED <<blkdev, pos, isr>>

vioblk_write(t, n) ==
  /\ Calls(t)
  /\ bufblkno' = pos \div BLKSZ
  /\ CASE readonly \/ n = 0 -> UNCHANGED <<queue, callers, mixed>>
       [] OTHER -> /\ IF vio_lock = NoThread
                      THEN WriteBlock(t, n, 0)
                      ELSE Asks(t, "wlock", n)
                   /\ Overlap("move")
  /\ UNCHANGED <<blkdev, pos, isr>>

vioblk_setpos(t, p) ==
  /\ Calls(t)
  /\ IF vio_lock = NoThread
     THEN pos' = p /\ UNCHANGED <<queue, callers>>
     ELSE Asks(t, "plock", p) /\ UNCHANGED pos
  /\ Overlap("move")
  /\ UNCHANGED <<blkdev, bufblkno, isr>>

(* lock_acquire returns. *)
Acquire(t) ==
  /\ isr = "off" /\ vio_lock = NoThread
  /\ CASE vpc[t] = "rlock" -> ReadBlock(t, todo[t], bufblkno) /\ UNCHANGED pos
       [] vpc[t] = "wlock" -> WriteBlock(t, todo[t], 0) /\ UNCHANGED pos
       [] vpc[t] = "plock" -> pos' = todo[t] /\ Return(t) /\ UNCHANGED queue
       [] OTHER -> FALSE
  /\ UNCHANGED <<blkdev, bufblkno, isr, mixed>>

(* The rest of operation_single_blk and of the round of the loop. The byte   *)
(* count of a write that is no multiple of BLKSZ wraps around.               *)
Awake(t) == isr = "off" /\ vpc[t] \in {"read", "write"} /\ t \notin asleep

(* Faulty variant: the position stays. *)
AdvanceBlock == bufblkno' = bufblkno + 1 /\ UNCHANGED pos
Advance == bufblkno' = bufblkno + 1 /\ pos' = pos + BLKSZ

ReadDone(t) ==
  /\ Awake(t) /\ vpc[t] = "read"
  /\ IF status # "OK"
     THEN Return(t) /\ UNCHANGED <<place, queue>>
     ELSE /\ Advance
          /\ IF todo[t] > BLKSZ
             THEN ReadBlock(t, todo[t] - BLKSZ, bufblkno + 1)
             ELSE Return(t) /\ UNCHANGED queue
  /\ UNCHANGED <<blkdev, isr, mixed>>

WriteDone(t) ==
  LET n == (todo[t] - BLKSZ) % WORD
  IN /\ Awake(t) /\ vpc[t] = "write"
     /\ IF status # "OK"
        THEN Return(t) /\ UNCHANGED <<place, queue>>
        ELSE /\ pos' = pos + BLKSZ /\ UNCHANGED bufblkno
             /\ IF n > 0
                THEN WriteBlock(t, n, sector[t] + 1)
                ELSE Return(t) /\ UNCHANGED queue
     /\ UNCHANGED <<blkdev, isr, mixed>>

(* A second open is refused; a close comes from the last user. *)
vioblk_open ==
  /\ isr = "off" /\ ~opened
  /\ opened' = TRUE /\ pos' = 0
  /\ UNCHANGED <<readonly, bufblkno, queue, callers, isr, mixed>>

vioblk_close ==
  /\ isr = "off" /\ opened /\ \A t \in Thread : vpc[t] = "idle"
  /\ opened' = FALSE
  /\ UNCHANGED <<readonly, place, queue, callers, isr, mixed>>
-----------------------------------------------------------------------------
(* The device: carries out the request in the queue, or reports an error. *)
Device ==
  LET s == request.sector
  IN /\ pending /\ pending' = FALSE /\ istatus' = TRUE
     /\ \/ /\ s \in Sector /\ request.type = "IN" /\ status' = "OK"
           /\ blkbuf' = disk[s] /\ UNCHANGED disk
        \/ /\ s \in Sector /\ request.type = "OUT" /\ status' = "OK"
           /\ \/ disk' = [disk EXCEPT ![s] = blkbuf]
              \/ wflag /\ UNCHANGED disk
           /\ UNCHANGED blkbuf
        \/ /\ s \notin Sector \/ wflag
           /\ status' = "IOERR" /\ UNCHANGED <<blkbuf, disk>>
     /\ UNCHANGED <<blkdev, place, request, wflag, callers, isr, mixed>>

(* if (interrupt_status & 1) condition_broadcast(used_updated). *)
IsrTest ==
  /\ isr = "off" /\ istatus
  /\ asleep' = {}
  /\ isr' = "ack"
  /\ UNCHANGED <<blkdev, place, queue, vio_lock, vpc, todo, sector, mixed>>

(* Faulty variant: nothing is acknowledged. *)
IsrAckNothing ==
  /\ isr = "ack" /\ isr' = "off"
  /\ UNCHANGED <<blkdev, place, queue, callers, mixed>>
(* Faulty variant: acknowledges over and over. *)
IsrAckAgain ==
  /\ isr = "ack" /\ istatus' = FALSE
  /\ UNCHANGED <<blkdev, place, blkbuf, request, status, wflag, pending, disk, callers, isr, mixed>>
(* interrupt_ack = interrupt_status. *)
IsrAck ==
  /\ isr = "ack"
  /\ isr' = "off" /\ istatus' = FALSE
  /\ UNCHANGED <<blkdev, place, blkbuf, request, status, wflag, pending, disk, callers, mixed>>

VioBlkNext ==
  \/ vioblk_open \/ vioblk_close \/ Device \/ IsrTest \/ IsrAck
  \/ \E t \in Thread :
       \/ \E n \in ReadLen : vioblk_read(t, n)
       \/ \E n \in WriteLen : vioblk_write(t, n)
       \/ \E p \in Positions : vioblk_setpos(t, p)
       \/ Acquire(t) \/ ReadDone(t) \/ WriteDone(t)

(* The device answers, a raised interrupt is taken, and a thread that has    *)
(* been woken is scheduled.                                                  *)
VioBlkFairness ==
  /\ WF_VioBlkVars(Device) /\ WF_VioBlkVars(IsrTest) /\ WF_VioBlkVars(IsrAck)
  /\ \A t \in Thread : WF_VioBlkVars(ReadDone(t) \/ WriteDone(t))

VioBlkSpec == VioBlkInit /\ [][VioBlkNext]_VioBlkVars /\ VioBlkFairness
-----------------------------------------------------------------------------
Owner == {t \in Thread : vpc[t] \in {"read", "write"}}

(* The thread that wakes up in operation_single_blk finds its own request     *)
(* answered: it is the only one, it holds vio_lock, the device is done, and   *)
(* a status of OK means that blkbuf is the sector it asked for. The status    *)
(* byte is preset to OK and the wait is not repeated, so a wake-up too early, *)
(* or for another's request, would pass stale bytes for the sector's.         *)
OwnAnswer ==
  \A t \in Owner :
    /\ Owner = {t} /\ vio_lock = t
    /\ request.type = IF vpc[t] = "read" THEN "IN" ELSE "OUT"
    /\ t \notin asleep =>
         /\ ~pending
         /\ vpc[t] = "read" /\ status = "OK" => blkbuf = disk[request.sector]
         /\ vpc[t] = "write" /\ status = "OK" /\ ~wflag =>
              disk[sector[t]] = t /\ request.sector = sector[t]

(* Reads that overlap only with reads share the position: every one of them   *)
(* asks for the sector at pos, none is skipped or read twice, although        *)
(* bufblkno is shared and computed before vio_lock is held. (A write or a     *)
(* vioblk_setpos that is in progress meanwhile makes it stale.)               *)
ReadsFollowPos ==
  ~mixed => \A t \in Thread : vpc[t] = "read" => request.sector = pos \div BLKSZ

(* A call that holds vio_lock returns: the one interrupt of each of its       *)
(* requests is not lost between the notification and the sleep.               *)
OwnerReturns == \A t \in Thread : (vpc[t] \in {"read", "write"}) ~> (vpc[t] = "idle")
=============================================================================
