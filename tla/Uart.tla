-------------------------------- MODULE Uart --------------------------------
(***************************************************************************)
(* The serial driver (uart.c): uart_open, uart_close, uart_read,           *)
(* uart_write, uart_isr and the ring buffers between them, with the        *)
(* registers of the device.                                                *)
(*                                                                         *)
(* Kernel threads do not preempt one another, so one thread (cur) at a     *)
(* time is inside the driver and not asleep; uart_isr interrupts it        *)
(* between any two accesses to shared state, except between intr_disable   *)
(* and intr_enable. The test of a buffer and the condition_wait after it   *)
(* are there, hence one step. rbuf_get and rbuf_put are two steps each,    *)
(* the byte and the position, and "ier |= bit" is a read and a write.      *)
(*                                                                         *)
(* Definitions marked "faulty variant" are no part of UartNext: each is a  *)
(* bug that one of the properties below rules out.                         *)
(***************************************************************************)
EXTENDS Integers, Sequences, FiniteSets, Callers

CONSTANTS
  SERIAL_RBUFSZ,  \* size of a ring buffer
  POSMOD,         \* positions are uint16_t: 2^16
  RXMAX, TXMAX,   \* bounds: bytes that arrive, and are written, per uart_open
  ReadSizes, WriteSizes

ASSUME UartAssumption ==
  /\ NoThread \notin Thread
  /\ SERIAL_RBUFSZ \in Nat \ {0} /\ POSMOD \in Nat
  /\ POSMOD > SERIAL_RBUFSZ /\ POSMOD % SERIAL_RBUFSZ = 0
  /\ {RXMAX, TXMAX} \subseteq Nat
  /\ ReadSizes \cup WriteSizes \subseteq Nat \ {0}

Byte == 0 .. RXMAX + TXMAX   \* bytes are numbered in the order they appear
NoByte == -1
Slot == 0 .. SERIAL_RBUFSZ - 1

VARIABLES
  rbr,            \* receiver buffer register, NoByte if LSR_DR is clear
  thre,           \* LSR_THRE
  ier,            \* subset of {"DREIE", "THREIE"}
  refcnt,
  rxbuf, txbuf,   \* ring buffers [hpos, tpos, data]
  waiting,        \* threads in condition_wait, by condition
  cur,            \* the thread executing driver code
  pc,             \* where each thread is
  left,           \* bytes the current call still wants
  tmp,            \* value of ier read by "ier |= bit"
  arrived, nsent,                \* bytes so far, against the bounds
  taken, got, written, sent      \* bytes: from rbr, to readers, from writers, to thr

dev == <<rbr, thre, ier, refcnt>>
bufs == <<rxbuf, txbuf>>
thr == <<waiting, cur, pc, left, tmp>>
counts == <<arrived, nsent>>
logs == <<taken, got, written, sent>>
UartVars == <<dev, bufs, thr, counts, logs>>

rbuf_init == [hpos |-> 0, tpos |-> 0, data |-> [i \in Slot |-> NoByte]]
rbuf_empty(b) == b.hpos = b.tpos
rbuf_full(b) == (b.tpos - b.hpos) % POSMOD = SERIAL_RBUFSZ

(* rbuf_put and rbuf_get in two steps each: the byte, then the position. *)
put_data(b, c) == [b EXCEPT !.data[b.tpos % SERIAL_RBUFSZ] = c]
put_pos(b) == [b EXCEPT !.tpos = (@ + 1) % POSMOD]
rbuf_put(b, c) == put_pos(put_data(b, c))
get_data(b) == b.data[b.hpos % SERIAL_RBUFSZ]
get_pos(b) == [b EXCEPT !.hpos = (@ + 1) % POSMOD]

(* The bytes in a ring buffer, oldest first. *)
Contents(b) ==
  [i \in 1 .. (b.tpos - b.hpos) % POSMOD |-> b.data[(b.hpos + i - 1) % SERIAL_RBUFSZ]]

(* After uart_attach. *)
UartInit ==
  /\ rbr = NoByte /\ thre = TRUE /\ ier = {}
  /\ refcnt = 0
  /\ rxbuf = rbuf_init /\ txbuf = rbuf_init
  /\ waiting = [c \in {"rxbnotempty", "txbnotfull"} |-> {}]
  /\ cur = NoThread /\ pc = [t \in Thread |-> "user"]
  /\ left = [t \in Thread |-> 0] /\ tmp = {}
  /\ arrived = 0 /\ nsent = 0
  /\ taken = <<>> /\ got = <<>> /\ written = <<>> /\ sent = <<>>
-----------------------------------------------------------------------------
(* The device (external): a byte arrives, overrunning an unread one, or the *)
(* byte in the transmitter goes out. Overruns are not counted (rxovrcnt).   *)
RxArrive ==
  /\ arrived < RXMAX
  /\ arrived' = arrived + 1
  /\ rbr' = arrived
  /\ UNCHANGED <<thre, ier, refcnt, bufs, thr, nsent, logs>>

TxShift ==
  /\ ~thre /\ thre' = TRUE
  /\ UNCHANGED <<rbr, ier, refcnt, bufs, thr, counts, logs>>
-----------------------------------------------------------------------------
(* uart_open resets the buffers, reads rbr and enables receive interrupts. *)
UartOpen ==
  /\ cur = NoThread /\ refcnt = 0
  /\ rxbuf' = rbuf_init /\ txbuf' = rbuf_init
  /\ rbr' = NoByte /\ ier' = {"DREIE"} /\ refcnt' = 1
  /\ arrived' = 0
  /\ UNCHANGED <<thre, thr, nsent, logs>>

(* The last ioclose: uart_close disables the interrupts of the device; what  *)
(* is left in the buffers is dropped by the next uart_open.                  *)
UartClose ==
  /\ cur = NoThread /\ refcnt = 1 /\ \A t \in Thread : pc[t] = "user"
  /\ ier' = {} /\ refcnt' = 0
  /\ arrived' = 0 /\ nsent' = 0
  /\ taken' = <<>> /\ got' = <<>> /\ written' = <<>> /\ sent' = <<>>
  /\ UNCHANGED <<rbr, thre, bufs, thr>>

(* Thread t goes to label inside the driver, or leaves the processor. *)
Goto(t, label) == cur' = t /\ pc' = [pc EXCEPT ![t] = label]
Leave(t, label) == cur' = NoThread /\ pc' = [pc EXCEPT ![t] = label]

Read(t, n) ==
  /\ cur = NoThread /\ refcnt = 1 /\ pc[t] = "user"
  /\ left' = [left EXCEPT ![t] = n]
  /\ Goto(t, "rtest")
  /\ UNCHANGED <<dev, bufs, waiting, tmp, counts, logs>>

(* while (rbuf_empty) condition_wait, with interrupts disabled. *)
ReadTest(t) ==
  /\ cur = t /\ pc[t] = "rtest"
  /\ IF rbuf_empty(rxbuf)
     THEN /\ waiting' = [waiting EXCEPT !["rxbnotempty"] = @ \cup {t}]
          /\ Leave(t, "rtest")
     ELSE Goto(t, "drain") /\ UNCHANGED waiting
  /\ UNCHANGED <<dev, bufs, left, tmp, counts, logs>>

ReadDrain(t) ==
  /\ cur = t /\ pc[t] = "drain"
  /\ IF ~rbuf_empty(rxbuf) /\ left[t] > 0
     THEN got' = Append(got, get_data(rxbuf)) /\ Goto(t, "dpos")
     ELSE Goto(t, "rier") /\ UNCHANGED got
  /\ UNCHANGED <<dev, bufs, waiting, left, tmp, counts, taken, written, sent>>

ReadPos(t) ==
  /\ cur = t /\ pc[t] = "dpos"
  /\ rxbuf' = get_pos(rxbuf)
  /\ left' = [left EXCEPT ![t] = @ - 1]
  /\ Goto(t, "drain")
  /\ UNCHANGED <<dev, txbuf, waiting, tmp, counts, logs>>

(* ier |= IER_DREIE, and return. *)
ReadIerLoad(t) ==
  /\ cur = t /\ pc[t] = "rier"
  /\ tmp' = ier
  /\ Goto(t, "rset")
  /\ UNCHANGED <<dev, bufs, waiting, left, counts, logs>>

(* Faulty variant: receive interrupts are not turned on again. *)
ReadReturnsDisabled(t) ==
  /\ cur = t /\ pc[t] = "rset"
  /\ tmp' = {} /\ left' = [left EXCEPT ![t] = 0]
  /\ Leave(t, "user")
  /\ UNCHANGED <<dev, bufs, waiting, counts, logs>>

ReadIerStore(t) ==
  /\ cur = t /\ pc[t] = "rset"
  /\ ier' = tmp \cup {"DREIE"}
  /\ tmp' = {} /\ left' = [left EXCEPT ![t] = 0]
  /\ Leave(t, "user")
  /\ UNCHANGED <<rbr, thre, refcnt, bufs, waiting, counts, logs>>
-----------------------------------------------------------------------------
Write(t, n) ==
  /\ cur = NoThread /\ refcnt = 1 /\ pc[t] = "user" /\ nsent + n <= TXMAX
  /\ nsent' = nsent + n
  /\ left' = [left EXCEPT ![t] = n]
  /\ Goto(t, "wtest")
  /\ UNCHANGED <<dev, bufs, waiting, tmp, arrived, logs>>

WriteTest(t) ==
  /\ cur = t /\ pc[t] = "wtest"
  /\ IF rbuf_full(txbuf)
     THEN /\ waiting' = [waiting EXCEPT !["txbnotfull"] = @ \cup {t}]
          /\ Leave(t, "wtest")
     ELSE Goto(t, "fill") /\ UNCHANGED waiting
  /\ UNCHANGED <<dev, bufs, left, tmp, counts, logs>>

(* Faulty variant: the position is advanced before the byte is there. *)
WriteFillPosFirst(t) ==
  /\ cur = t /\ pc[t] = "fill"
  /\ IF ~rbuf_full(txbuf) /\ left[t] > 0
     THEN /\ txbuf' = put_pos(txbuf)
          /\ written' = Append(written, RXMAX + Len(written))
          /\ Goto(t, "fpos")
     ELSE Goto(t, "wier") /\ UNCHANGED <<txbuf, written>>
  /\ UNCHANGED <<dev, rxbuf, waiting, left, tmp, counts, taken, got, sent>>

WriteFill(t) ==
  /\ cur = t /\ pc[t] = "fill"
  /\ IF ~rbuf_full(txbuf) /\ left[t] > 0
     THEN txbuf' = put_data(txbuf, RXMAX + Len(written)) /\ Goto(t, "fpos")
     ELSE Goto(t, "wier") /\ UNCHANGED txbuf
  /\ UNCHANGED <<dev, rxbuf, waiting, left, tmp, counts, logs>>

WritePos(t) ==
  /\ cur = t /\ pc[t] = "fpos"
  /\ txbuf' = put_pos(txbuf)
  /\ written' = Append(written, RXMAX + Len(written))
  /\ left' = [left EXCEPT ![t] = @ - 1]
  /\ Goto(t, "fill")
  /\ UNCHANGED <<dev, rxbuf, waiting, tmp, counts, taken, got, sent>>

(* ier |= IER_THREIE, and the next round of the loop or return. *)
WriteIerLoad(t) ==
  /\ cur = t /\ pc[t] = "wier"
  /\ tmp' = ier
  /\ Goto(t, "wset")
  /\ UNCHANGED <<dev, bufs, waiting, left, counts, logs>>

(* Faulty variant: transmit interrupts are turned on only once, at the end. *)
WriteIerStoreAtEnd(t) ==
  /\ cur = t /\ pc[t] = "wset"
  /\ ier' = IF left[t] > 0 THEN tmp ELSE tmp \cup {"THREIE"}
  /\ tmp' = {}
  /\ IF left[t] > 0 THEN Goto(t, "wtest") ELSE Leave(t, "user")
  /\ UNCHANGED <<rbr, thre, refcnt, bufs, waiting, left, counts, logs>>

WriteIerStore(t) ==
  /\ cur = t /\ pc[t] = "wset"
  /\ ier' = tmp \cup {"THREIE"}
  /\ tmp' = {}
  /\ IF left[t] > 0 THEN Goto(t, "wtest") ELSE Leave(t, "user")
  /\ UNCHANGED <<rbr, thre, refcnt, bufs, waiting, left, counts, logs>>

(* A woken thread runs again and tests the buffer again. *)
Resume(t) ==
  /\ cur = NoThread /\ pc[t] # "user" /\ \A c \in DOMAIN waiting : t \notin waiting[c]
  /\ cur' = t
  /\ UNCHANGED <<dev, bufs, waiting, pc, left, tmp, counts, logs>>
-----------------------------------------------------------------------------
Irq == ("DREIE" \in ier /\ rbr # NoByte) \/ ("THREIE" \in ier /\ thre)

(* What one uart_isr does, from line_status and the two buffers. *)
TakesByte == rbr # NoByte /\ ~rbuf_full(rxbuf)
StopsRx == rbr # NoByte /\ rbuf_full(rxbuf)
SendsByte == thre /\ ~rbuf_empty(txbuf)
StopsTx == thre /\ rbuf_empty(txbuf)

(* Faulty variant: writers are woken when the buffer has run empty. *)
WokenAtEmpty(c) ==
  \/ c = "rxbnotempty" /\ TakesByte /\ rbuf_empty(rxbuf)
  \/ c = "txbnotfull" /\ StopsTx

(* Faulty variant: no broadcast when the first byte arrives. *)
WokenWriters(c) == c = "txbnotfull" /\ SendsByte /\ rbuf_full(txbuf)

(* condition_broadcast on the buffer that stops being empty, or full. *)
Woken(c) ==
  \/ c = "rxbnotempty" /\ TakesByte /\ rbuf_empty(rxbuf)
  \/ c = "txbnotfull" /\ SendsByte /\ rbuf_full(txbuf)

UartIsr ==
  /\ Irq
  /\ rbr' = IF TakesByte THEN NoByte ELSE rbr
  /\ rxbuf' = IF TakesByte THEN rbuf_put(rxbuf, rbr) ELSE rxbuf
  /\ taken' = IF TakesByte THEN Append(taken, rbr) ELSE taken
  /\ thre' = (thre /\ ~SendsByte)
  /\ txbuf' = IF SendsByte THEN get_pos(txbuf) ELSE txbuf
  /\ sent' = IF SendsByte THEN Append(sent, get_data(txbuf)) ELSE sent
  /\ ier' = ier \ ((IF StopsRx THEN {"DREIE"} ELSE {}) \cup (IF StopsTx THEN {"THREIE"} ELSE {}))
  /\ waiting' = [c \in DOMAIN waiting |-> IF Woken(c) THEN {} ELSE waiting[c]]
  /\ UNCHANGED <<refcnt, cur, pc, left, tmp, counts, got, written>>

(* The bounded input has arrived: readers may sleep for ever. *)
Quiet ==
  /\ cur = NoThread /\ arrived = RXMAX /\ waiting["txbnotfull"] = {}
  /\ UNCHANGED UartVars

Reader(t) ==
  \/ \E n \in ReadSizes : Read(t, n)
  \/ ReadTest(t) \/ ReadDrain(t) \/ ReadPos(t) \/ ReadIerLoad(t) \/ ReadIerStore(t)

Writer(t) ==
  \/ \E n \in WriteSizes : Write(t, n)
  \/ WriteTest(t) \/ WriteFill(t) \/ WritePos(t) \/ WriteIerLoad(t) \/ WriteIerStore(t)

UartNext ==
  \/ RxArrive \/ TxShift \/ UartOpen \/ UartClose \/ UartIsr \/ Quiet
  \/ \E t \in Thread : Reader(t) \/ Writer(t) \/ Resume(t)

(* The device sends what it holds, a raised interrupt is taken, and a thread *)
(* inside a call is scheduled and goes on; nobody has to start a call.       *)
UartFairness ==
  /\ WF_UartVars(TxShift) /\ WF_UartVars(UartIsr)
  /\ \A t \in Thread : /\ WF_UartVars(Resume(t))
                       /\ WF_UartVars(cur = t /\ (Reader(t) \/ Writer(t)))

UartSpec == UartInit /\ [][UartNext]_UartVars /\ UartFairness
-----------------------------------------------------------------------------
Filled(b) == (b.tpos - b.hpos) % POSMOD

Inside(labels) == \E t \in Thread : pc[t] \in labels

(* The ring buffers are first-in first-out queues, although uart_read empties *)
(* and uart_write fills them with interrupts enabled and across the wrap of   *)
(* the 16-bit positions: every byte uart_isr takes from rbr reaches the       *)
(* callers of uart_read once and in order, every byte uart_write accepts the  *)
(* transmitter, and neither buffer holds more than it has room for.           *)
BytesInOrder ==
  refcnt = 1 =>
    LET rest == Contents(rxbuf)
    IN /\ taken = IF Inside({"dpos"}) THEN got \o Tail(rest) ELSE got \o rest
       /\ written = sent \o Contents(txbuf)
       /\ Filled(rxbuf) <= SERIAL_RBUFSZ /\ Filled(txbuf) <= SERIAL_RBUFSZ

(* The unlocked "ier |=" of the threads and "ier &=" of uart_isr never leave  *)
(* the line deaf or mute. Receive interrupts are off on an open device only   *)
(* while the buffer has bytes to read, whose reader turns them on again, or   *)
(* that reader is about to; bytes that wait to be sent have transmit          *)
(* interrupts on, or their writer is about to turn them on.                   *)
InterruptsArmed ==
  refcnt = 1 =>
    /\ "DREIE" \notin ier => ~rbuf_empty(rxbuf) \/ Inside({"drain", "dpos", "rier", "rset"})
    /\ ~rbuf_empty(txbuf) =>
         "THREIE" \in ier \/ \E t \in Thread : cur = t /\ pc[t] \in {"fill", "fpos", "wier", "wset"}

(* No lost wake-up: uart_isr broadcasts only when a buffer stops being empty *)
(* (or full), and that is enough for no thread to sleep on a buffer it could *)
(* use.                                                                      *)
NoLostWakeup ==
  /\ waiting["rxbnotempty"] # {} => rbuf_empty(rxbuf)
  /\ waiting["txbnotfull"] # {} => rbuf_full(txbuf)

(* A byte in the device while a reader sleeps is eventually read by someone. *)
ReaderServed ==
  \A n \in 0 .. RXMAX :
    (waiting["rxbnotempty"] # {} /\ rbr # NoByte /\ Len(got) = n) ~> (Len(got) > n)

(* uart_write returns: the transmitter drains the buffer as often as needed. *)
WriteReturns == \A t \in Thread : (pc[t] = "wtest") ~> (pc[t] = "user")
=============================================================================
