---------------------------- MODULE DriverProofs ----------------------------
(***************************************************************************)
(* Proofs about the two device drivers Uart and VioBlk, for every set of   *)
(* threads and every value of their other constants.                       *)
(*                                                                         *)
(* Uart: no wake-up is lost (NoLostWakeup), the interrupts the ring        *)
(* buffers depend on are never left off (InterruptsArmed), and the buffers *)
(* are queues (BytesInOrder). UartInv is inductive; OrderInv is inductive  *)
(* relative to it.                                                         *)
(*                                                                         *)
(* VioBlk: a thread that wakes up finds the answer to its own request      *)
(* (OwnAnswer), and reads follow the shared position (ReadsFollowPos).     *)
(***************************************************************************)
EXTENDS Uart, VioBlk, TLAPS

(* Lists: length and elements, what Append, \o, Head, Tail and SubSeq do.     *)
LEMMA ListLen ==
  ASSUME NEW S, NEW s \in Seq(S)
  PROVE  /\ Len(s) \in Nat /\ \A i \in 1 .. Len(s) : s[i] \in S
         /\ s # <<>> <=> Len(s) # 0
         /\ <<>> \in Seq(S) /\ Len(<<>>) = 0
  OBVIOUS

LEMMA ListEqual ==
  ASSUME NEW S, NEW s \in Seq(S), NEW t \in Seq(S),
         Len(s) = Len(t), \A i \in 1 .. Len(s) : s[i] = t[i]
  PROVE  s = t
  OBVIOUS

LEMMA ListConcat ==
  ASSUME NEW S, NEW s \in Seq(S), NEW t \in Seq(S)
  PROVE  /\ s \o t \in Seq(S) /\ Len(s \o t) = Len(s) + Len(t)
         /\ \A i \in 1 .. Len(s) + Len(t) :
              (s \o t)[i] = IF i <= Len(s) THEN s[i] ELSE t[i - Len(s)]
  OBVIOUS

LEMMA ListAppend ==
  ASSUME NEW S, NEW s \in Seq(S), NEW x \in S
  PROVE  /\ Append(s, x) \in Seq(S) /\ Append(s, x) # <<>>
         /\ Len(Append(s, x)) = Len(s) + 1 /\ Append(s, x)[Len(s) + 1] = x
         /\ \A i \in 1 .. Len(s) : Append(s, x)[i] = s[i]
         /\ Append(s, x) = s \o <<x>>
  OBVIOUS

LEMMA ListTail ==
  ASSUME NEW S, NEW s \in Seq(S), s # <<>>
  PROVE  /\ Head(s) \in S /\ Tail(s) \in Seq(S) /\ Len(Tail(s)) = Len(s) - 1
         /\ \A i \in 1 .. Len(Tail(s)) : Tail(s)[i] = s[i + 1]
  OBVIOUS

LEMMA ListTailAppend ==
  ASSUME NEW S, NEW s \in Seq(S), NEW x \in S
  PROVE  /\ Head(Append(s, x)) = IF s = <<>> THEN x ELSE Head(s)
         /\ Tail(Append(s, x)) = IF s = <<>> THEN <<>> ELSE Append(Tail(s), x)
  OBVIOUS

Associates(s, t, u) == (s \o t) \o u = s \o (t \o u)

LEMMA ListAssociative ==
  ASSUME NEW S, NEW s \in Seq(S), NEW t \in Seq(S), NEW u \in Seq(S)
  PROVE  Associates(s, t, u)
  BY DEF Associates

-----------------------------------------------------------------------------
(* The serial driver.                                                        *)

Pos == 0 .. POSMOD - 1
IsRbuf(b) ==
  /\ b = [hpos |-> b.hpos, tpos |-> b.tpos, data |-> b.data]
  /\ b.hpos \in Pos /\ b.tpos \in Pos
  /\ Filled(b) <= SERIAL_RBUFSZ

Label ==
  {"user", "rtest", "drain", "dpos", "rier", "rset", "wtest", "fill", "fpos", "wier", "wset"}

(* A thread is past its test only while it is the one that runs; the threads *)
(* asleep are at their test; nobody is inside a device that is closed.       *)
ThreadInv ==
  /\ pc \in [Thread -> Label] /\ cur \in Thread \cup {NoThread}
  /\ waiting \in [{"rxbnotempty", "txbnotfull"} -> SUBSET Thread]
  /\ \A t \in Thread :
       /\ pc[t] \notin {"user", "rtest", "wtest"} => cur = t
       /\ t \in waiting["rxbnotempty"] => pc[t] = "rtest" /\ cur # t
       /\ t \in waiting["txbnotfull"] => pc[t] = "wtest" /\ cur # t
       /\ refcnt # 1 => pc[t] = "user"

(* The byte about to be removed is still there, the room about to be filled  *)
(* is still free, whatever uart_isr has done since the test.                 *)
BufInv ==
  /\ IsRbuf(rxbuf) /\ IsRbuf(txbuf)
  /\ \A t \in Thread : /\ pc[t] = "dpos" => ~rbuf_empty(rxbuf)
                       /\ pc[t] = "fpos" => ~rbuf_full(txbuf)

(* Between the read and the write of "ier |=" only uart_isr changes ier, and *)
(* it only clears bits: storing the old value loses none.                    *)
IerInv == \A t \in Thread : pc[t] \in {"rset", "wset"} => ier \subseteq tmp

UartInv == ThreadInv /\ BufInv /\ IerInv /\ NoLostWakeup /\ InterruptsArmed
-----------------------------------------------------------------------------
LEMMA Sizes ==
  SERIAL_RBUFSZ \in Nat \ {0} /\ POSMOD \in Nat /\ POSMOD > SERIAL_RBUFSZ /\ NoThread \notin Thread
  BY Zenon, UartAssumption

LEMMA NextPos ==
  ASSUME NEW a \in Pos
  PROVE  (a + 1) % POSMOD = IF a = POSMOD - 1 THEN 0 ELSE a + 1
  BY Sizes, SMTT(30) DEF Pos

LEMMA FilledIs ==
  ASSUME NEW b, b.hpos \in Pos, b.tpos \in Pos
  PROVE  Filled(b) = IF b.hpos <= b.tpos THEN b.tpos - b.hpos ELSE b.tpos - b.hpos + POSMOD
  BY Sizes, SMTT(30) DEF Pos, Filled

LEMMA InitRbuf == IsRbuf(rbuf_init) /\ rbuf_empty(rbuf_init)
<1>1. 0 \in Pos
  BY Sizes DEF Pos
<1> QED BY <1>1, FilledIs, Sizes DEF IsRbuf, rbuf_init, rbuf_empty

LEMMA FullNotEmpty ==
  ASSUME NEW b, IsRbuf(b), rbuf_full(b)
  PROVE  ~rbuf_empty(b)
  BY FilledIs, Sizes DEF IsRbuf, rbuf_full, rbuf_empty, Filled, Pos

LEMMA PutData ==
  ASSUME NEW b, NEW c, IsRbuf(b)
  PROVE  LET p == put_data(b, c)
         IN IsRbuf(p) /\ rbuf_full(p) = rbuf_full(b) /\ rbuf_empty(p) = rbuf_empty(b)
<1> DEFINE p == put_data(b, c)
<1>1. p.hpos = b.hpos /\ p.tpos = b.tpos /\ p = [hpos |-> p.hpos, tpos |-> p.tpos, data |-> p.data]
  BY DEF put_data, IsRbuf
<1> HIDE DEF p
<1>2. IsRbuf(p) /\ rbuf_full(p) = rbuf_full(b) /\ rbuf_empty(p) = rbuf_empty(b)
  BY Zenon, <1>1 DEF IsRbuf, rbuf_full, rbuf_empty, Filled
<1> QED BY Zenon, <1>2 DEF p

LEMMA PutPos ==
  ASSUME NEW b, IsRbuf(b), ~rbuf_full(b)
  PROVE  IsRbuf(put_pos(b)) /\ ~rbuf_empty(put_pos(b))
<1> DEFINE p == put_pos(b)
<1>1. /\ p.hpos = b.hpos /\ p.tpos = (b.tpos + 1) % POSMOD
      /\ p = [hpos |-> p.hpos, tpos |-> p.tpos, data |-> p.data]
  BY DEF put_pos, IsRbuf
<1> HIDE DEF p
<1>2. Filled(b) < SERIAL_RBUFSZ /\ b.hpos \in Pos /\ b.tpos \in Pos
  BY FilledIs, Sizes DEF IsRbuf, rbuf_full, Filled, Pos
<1>3. p.tpos = IF b.tpos = POSMOD - 1 THEN 0 ELSE b.tpos + 1
  BY Zenon, <1>1, <1>2, NextPos
<1>4. p.hpos \in Pos /\ p.tpos \in Pos
  BY <1>1, <1>2, <1>3, Sizes DEF Pos
<1>5. Filled(p) <= SERIAL_RBUFSZ /\ p.hpos # p.tpos
  BY <1>1, <1>2, <1>3, <1>4, FilledIs, Sizes DEF Pos
<1> QED BY Zenon, <1>1, <1>4, <1>5 DEF IsRbuf, rbuf_empty, p

LEMMA Put ==
  ASSUME NEW b, NEW c, IsRbuf(b), ~rbuf_full(b)
  PROVE  IsRbuf(rbuf_put(b, c)) /\ ~rbuf_empty(rbuf_put(b, c))
  BY Zenon, PutData, PutPos DEF rbuf_put

LEMMA GetPos ==
  ASSUME NEW b, IsRbuf(b), ~rbuf_empty(b)
  PROVE  IsRbuf(get_pos(b)) /\ ~rbuf_full(get_pos(b))
<1> DEFINE p == get_pos(b)
<1>1. /\ p.tpos = b.tpos /\ p.hpos = (b.hpos + 1) % POSMOD
      /\ p = [hpos |-> p.hpos, tpos |-> p.tpos, data |-> p.data]
  BY DEF get_pos, IsRbuf
<1> HIDE DEF p
<1>2. Filled(b) <= SERIAL_RBUFSZ /\ b.hpos # b.tpos /\ b.hpos \in Pos /\ b.tpos \in Pos
  BY Zenon DEF IsRbuf, rbuf_empty
<1>3. p.hpos = IF b.hpos = POSMOD - 1 THEN 0 ELSE b.hpos + 1
  BY Zenon, <1>1, <1>2, NextPos
<1>4. p.hpos \in Pos /\ p.tpos \in Pos
  BY <1>1, <1>2, <1>3, Sizes DEF Pos
<1>5. Filled(p) < SERIAL_RBUFSZ
  BY SMTT(30), <1>1, <1>2, <1>3, <1>4, FilledIs, Sizes DEF Pos
<1>6. Filled(p) \in Int
  BY <1>4, FilledIs, Sizes DEF Pos
<1> QED BY <1>1, <1>4, <1>5, <1>6, Sizes DEF IsRbuf, rbuf_full, Filled, p
-----------------------------------------------------------------------------
LEMMA UartInitInv == UartInit => UartInv
<1> SUFFICES ASSUME UartInit PROVE UartInv
  BY Zenon
<1>1. ThreadInv
  BY Zenon DEF UartInit, ThreadInv, Label
<1>2. BufInv
  BY Zenon, InitRbuf DEF UartInit, BufInv
<1>3. IerInv
  BY Zenon DEF UartInit, IerInv
<1>4. NoLostWakeup
  BY Zenon DEF UartInit, NoLostWakeup
<1>5. InterruptsArmed
  BY DEF UartInit, InterruptsArmed
<1> QED BY Zenon, <1>1, <1>2, <1>3, <1>4, <1>5 DEF UartInv

(* The device, and calls that change no buffer. *)
LEMMA DeviceStep ==
  ASSUME UartInv, RxArrive \/ TxShift \/ Quiet \/ UNCHANGED UartVars
  PROVE  UartInv'
<1> USE DEF UartInv, RxArrive, TxShift, Quiet, UartVars, dev, bufs, thr
<1>1. ThreadInv'
  BY DEF ThreadInv
<1>2. BufInv'
  BY Zenon DEF BufInv
<1>3. IerInv'
  BY Zenon DEF IerInv
<1>4. NoLostWakeup'
  BY Zenon DEF NoLostWakeup
<1>5. InterruptsArmed'
  BY Zenon DEF InterruptsArmed, Inside
<1> QED BY Zenon, <1>1, <1>2, <1>3, <1>4, <1>5

LEMMA OpenStep ==
  ASSUME UartInv, UartOpen
  PROVE  UartInv'
<1> USE DEF UartInv, UartOpen, thr
<1>0. \A t \in Thread : pc[t] = "user"
  BY DEF ThreadInv
<1>1. ThreadInv'
  BY Zenon DEF ThreadInv
<1>2. BufInv'
  BY Zenon, <1>0, InitRbuf DEF BufInv
<1>3. IerInv'
  BY Zenon, <1>0 DEF IerInv
<1>4. NoLostWakeup'
  BY Zenon, <1>0, InitRbuf DEF NoLostWakeup, ThreadInv
<1>5. InterruptsArmed'
  BY Zenon, InitRbuf DEF InterruptsArmed
<1> QED BY Zenon, <1>1, <1>2, <1>3, <1>4, <1>5

LEMMA CloseStep ==
  ASSUME UartInv, UartClose
  PROVE  UartInv'
<1> USE DEF UartInv, UartClose, thr, bufs
<1>1. ThreadInv'
  BY Zenon DEF ThreadInv
<1>2. BufInv'
  BY Zenon DEF BufInv
<1>3. IerInv'
  BY Zenon DEF IerInv
<1>4. NoLostWakeup'
  BY Zenon DEF NoLostWakeup
<1>5. InterruptsArmed'
  BY DEF InterruptsArmed
<1> QED BY Zenon, <1>1, <1>2, <1>3, <1>4, <1>5

(* uart_isr clears a bit of ier only while the buffer is full, or empty, and *)
(* wakes the threads whose buffer it changes.                                *)
LEMMA IsrStep ==
  ASSUME UartInv, UartIsr
  PROVE  UartInv'
<1> USE DEF UartInv
<1>1. ThreadInv'
  BY Zenon DEF ThreadInv, UartIsr
<1>2. IsRbuf(rxbuf') /\ (~rbuf_empty(rxbuf) => ~rbuf_empty(rxbuf'))
  BY Zenon, Put DEF BufInv, UartIsr, TakesByte
<1>3. IsRbuf(txbuf') /\ (~rbuf_full(txbuf) => ~rbuf_full(txbuf'))
  BY Zenon, GetPos DEF BufInv, UartIsr, SendsByte
<1>4. BufInv'
  BY Zenon, <1>2, <1>3 DEF BufInv, UartIsr
<1>5. IerInv'
  BY Zenon DEF IerInv, UartIsr
<1>6. ASSUME waiting'["rxbnotempty"] # {} PROVE rbuf_empty(rxbuf')
  <2>1. waiting["rxbnotempty"] # {} /\ ~Woken("rxbnotempty")
    BY Zenon, <1>6 DEF UartIsr, ThreadInv
  <2> QED BY Zenon, <2>1 DEF NoLostWakeup, Woken, UartIsr
<1>7. ASSUME waiting'["txbnotfull"] # {} PROVE rbuf_full(txbuf')
  <2>1. waiting["txbnotfull"] # {} /\ ~Woken("txbnotfull")
    BY Zenon, <1>7 DEF UartIsr, ThreadInv
  <2> QED BY Zenon, <2>1 DEF NoLostWakeup, Woken, UartIsr
<1>8. NoLostWakeup'
  BY Zenon, <1>6, <1>7 DEF NoLostWakeup
<1>9. InterruptsArmed'
  <2>1. ASSUME refcnt = 1, "DREIE" \notin ier'
        PROVE  ~rbuf_empty(rxbuf) \/ Inside({"drain", "dpos", "rier", "rset"})
    <3>1. "DREIE" \notin ier \/ StopsRx
      BY Zenon, <2>1 DEF UartIsr
    <3> QED BY Zenon, <2>1, <3>1, FullNotEmpty DEF InterruptsArmed, StopsRx, BufInv
  <2>2. ASSUME ~rbuf_empty(txbuf')
        PROVE  ~rbuf_empty(txbuf) /\ ("THREIE" \in ier => "THREIE" \in ier')
    BY Zenon, <2>2 DEF UartIsr, SendsByte, StopsTx
  <2> QED BY Zenon, <1>2, <2>1, <2>2 DEF InterruptsArmed, Inside, UartIsr
<1> QED BY Zenon, <1>1, <1>4, <1>5, <1>8, <1>9
-----------------------------------------------------------------------------
(* The steps of uart_read. *)
LEMMA ReadStep ==
  ASSUME UartInv, NEW t \in Thread, NEW n, Read(t, n)
  PROVE  UartInv'
<1> USE Sizes DEF UartInv, Goto, Leave, dev, bufs, Read
<1>1. ThreadInv'
  BY Zenon DEF ThreadInv, Label
<1>2. BufInv'
  BY Zenon DEF ThreadInv, BufInv
<1>3. IerInv'
  BY Zenon DEF ThreadInv, IerInv
<1>4. NoLostWakeup'
  BY Zenon DEF ThreadInv, NoLostWakeup
<1>5. InterruptsArmed'
  BY Zenon DEF ThreadInv, InterruptsArmed, Inside
<1> QED BY Zenon, <1>1, <1>2, <1>3, <1>4, <1>5

LEMMA ReadTestStep ==
  ASSUME UartInv, NEW t \in Thread, ReadTest(t)
  PROVE  UartInv'
<1> USE Sizes DEF UartInv, Goto, Leave, dev, bufs, ReadTest
<1>1. ThreadInv'
  BY DEF ThreadInv, Label
<1>2. BufInv'
  BY Zenon DEF ThreadInv, BufInv
<1>3. IerInv'
  BY Zenon DEF ThreadInv, IerInv
<1>4. NoLostWakeup'
  BY Zenon DEF ThreadInv, NoLostWakeup
<1>5. InterruptsArmed'
  BY Zenon DEF ThreadInv, InterruptsArmed, Inside
<1> QED BY Zenon, <1>1, <1>2, <1>3, <1>4, <1>5

LEMMA ReadDrainStep ==
  ASSUME UartInv, NEW t \in Thread, ReadDrain(t)
  PROVE  UartInv'
<1> USE Sizes DEF UartInv, Goto, Leave, dev, bufs, ReadDrain
<1>1. ThreadInv'
  BY Zenon DEF ThreadInv, Label
<1>2. BufInv'
  BY Zenon DEF ThreadInv, BufInv
<1>3. IerInv'
  BY Zenon DEF ThreadInv, IerInv
<1>4. NoLostWakeup'
  BY Zenon DEF ThreadInv, NoLostWakeup
<1>5. InterruptsArmed'
  BY Zenon DEF ThreadInv, InterruptsArmed, Inside
<1> QED BY Zenon, <1>1, <1>2, <1>3, <1>4, <1>5

LEMMA ReadPosStep ==
  ASSUME UartInv, NEW t \in Thread, ReadPos(t)
  PROVE  UartInv'
<1> USE Sizes DEF UartInv, Goto, Leave, dev, bufs, ReadPos
<1>0. IsRbuf(rxbuf') /\ ~rbuf_empty(rxbuf)
  BY Zenon, GetPos DEF BufInv
<1>1. ThreadInv'
  BY Zenon DEF ThreadInv, Label
<1>2. BufInv'
  BY Zenon, <1>0 DEF ThreadInv, BufInv
<1>3. IerInv'
  BY Zenon DEF ThreadInv, IerInv
<1>4. NoLostWakeup'
  BY Zenon, <1>0 DEF ThreadInv, NoLostWakeup
<1>5. InterruptsArmed'
  BY Zenon DEF ThreadInv, InterruptsArmed, Inside
<1> QED BY Zenon, <1>1, <1>2, <1>3, <1>4, <1>5

LEMMA ReadIerLoadStep ==
  ASSUME UartInv, NEW t \in Thread, ReadIerLoad(t)
  PROVE  UartInv'
<1> USE Sizes DEF UartInv, Goto, Leave, dev, bufs, ReadIerLoad
<1>1. ThreadInv'
  BY Zenon DEF ThreadInv, Label
<1>2. BufInv'
  BY Zenon DEF ThreadInv, BufInv
<1>3. IerInv'
  BY Zenon DEF ThreadInv, IerInv
<1>4. NoLostWakeup'
  BY Zenon DEF ThreadInv, NoLostWakeup
<1>5. InterruptsArmed'
  BY Zenon DEF ThreadInv, InterruptsArmed, Inside
<1> QED BY Zenon, <1>1, <1>2, <1>3, <1>4, <1>5

LEMMA ReadIerStoreStep ==
  ASSUME UartInv, NEW t \in Thread, ReadIerStore(t)
  PROVE  UartInv'
<1> USE Sizes DEF UartInv, Goto, Leave, dev, bufs, ReadIerStore
<1>0. ier \subseteq ier' /\ "DREIE" \in ier'
  BY Zenon DEF IerInv
<1>1. ThreadInv'
  BY Zenon DEF ThreadInv, Label
<1>2. BufInv'
  BY Zenon DEF ThreadInv, BufInv
<1>3. IerInv'
  BY Zenon DEF ThreadInv, IerInv
<1>4. NoLostWakeup'
  BY Zenon DEF ThreadInv, NoLostWakeup
<1>5. InterruptsArmed'
  BY Zenon, <1>0 DEF ThreadInv, InterruptsArmed, Inside
<1> QED BY Zenon, <1>1, <1>2, <1>3, <1>4, <1>5
-----------------------------------------------------------------------------
(* The steps of uart_write, and a woken thread. *)
LEMMA WriteStep ==
  ASSUME UartInv, NEW t \in Thread, NEW n, Write(t, n)
  PROVE  UartInv'
<1> USE Sizes DEF UartInv, Goto, Leave, dev, bufs, Write
<1>1. ThreadInv'
  BY Zenon DEF ThreadInv, Label
<1>2. BufInv'
  BY Zenon DEF ThreadInv, BufInv
<1>3. IerInv'
  BY Zenon DEF ThreadInv, IerInv
<1>4. NoLostWakeup'
  BY Zenon DEF ThreadInv, NoLostWakeup
<1>5. InterruptsArmed'
  BY Zenon DEF ThreadInv, InterruptsArmed, Inside
<1> QED BY Zenon, <1>1, <1>2, <1>3, <1>4, <1>5

LEMMA WriteTestStep ==
  ASSUME UartInv, NEW t \in Thread, WriteTest(t)
  PROVE  UartInv'
<1> USE Sizes DEF UartInv, Goto, Leave, dev, bufs, WriteTest
<1>1. ThreadInv'
  BY DEF ThreadInv, Label
<1>2. BufInv'
  BY Zenon DEF ThreadInv, BufInv
<1>3. IerInv'
  BY Zenon DEF ThreadInv, IerInv
<1>4. NoLostWakeup'
  BY Zenon DEF ThreadInv, NoLostWakeup
<1>5. InterruptsArmed'
  BY Zenon DEF ThreadInv, InterruptsArmed, Inside
<1> QED BY Zenon, <1>1, <1>2, <1>3, <1>4, <1>5

LEMMA WriteFillStep ==
  ASSUME UartInv, NEW t \in Thread, WriteFill(t)
  PROVE  UartInv'
<1> USE Sizes DEF UartInv, Goto, Leave, dev, bufs, WriteFill
<1>0. /\ IsRbuf(txbuf') /\ rbuf_full(txbuf') = rbuf_full(txbuf)
      /\ rbuf_empty(txbuf') = rbuf_empty(txbuf)
  BY Zenon, PutData DEF BufInv
<1>1. ThreadInv'
  BY Zenon DEF ThreadInv, Label
<1>2. BufInv'
  BY Zenon, <1>0 DEF ThreadInv, BufInv
<1>3. IerInv'
  BY Zenon DEF ThreadInv, IerInv
<1>4. NoLostWakeup'
  BY Zenon, <1>0 DEF ThreadInv, NoLostWakeup
<1>5. InterruptsArmed'
  BY Zenon, <1>0 DEF ThreadInv, InterruptsArmed, Inside
<1> QED BY Zenon, <1>1, <1>2, <1>3, <1>4, <1>5

LEMMA WritePosStep ==
  ASSUME UartInv, NEW t \in Thread, WritePos(t)
  PROVE  UartInv'
<1> USE Sizes DEF UartInv, Goto, Leave, dev, bufs, WritePos
<1>0. IsRbuf(txbuf') /\ ~rbuf_full(txbuf)
  BY Zenon, PutPos DEF BufInv
<1>1. ThreadInv'
  BY Zenon DEF ThreadInv, Label
<1>2. BufInv'
  BY Zenon, <1>0 DEF ThreadInv, BufInv
<1>3. IerInv'
  BY Zenon DEF ThreadInv, IerInv
<1>4. NoLostWakeup'
  BY Zenon, <1>0 DEF ThreadInv, NoLostWakeup
<1>5. InterruptsArmed'
  BY Zenon DEF ThreadInv, InterruptsArmed, Inside
<1> QED BY Zenon, <1>1, <1>2, <1>3, <1>4, <1>5

LEMMA WriteIerLoadStep ==
  ASSUME UartInv, NEW t \in Thread, WriteIerLoad(t)
  PROVE  UartInv'
<1> USE Sizes DEF UartInv, Goto, Leave, dev, bufs, WriteIerLoad
<1>1. ThreadInv'
  BY Zenon DEF ThreadInv, Label
<1>2. BufInv'
  BY Zenon DEF ThreadInv, BufInv
<1>3. IerInv'
  BY Zenon DEF ThreadInv, IerInv
<1>4. NoLostWakeup'
  BY Zenon DEF ThreadInv, NoLostWakeup
<1>5. InterruptsArmed'
  BY Zenon DEF ThreadInv, InterruptsArmed, Inside
<1> QED BY Zenon, <1>1, <1>2, <1>3, <1>4, <1>5

LEMMA WriteIerStoreStep ==
  ASSUME UartInv, NEW t \in Thread, WriteIerStore(t)
  PROVE  UartInv'
<1> USE Sizes DEF UartInv, Goto, Leave, dev, bufs, WriteIerStore
<1>0. ier \subseteq ier' /\ "THREIE" \in ier'
  BY Zenon DEF IerInv
<1>1. ThreadInv'
  BY Zenon DEF ThreadInv, Label
<1>2. BufInv'
  BY Zenon DEF ThreadInv, BufInv
<1>3. IerInv'
  BY Zenon DEF ThreadInv, IerInv
<1>4. NoLostWakeup'
  BY Zenon DEF ThreadInv, NoLostWakeup
<1>5. InterruptsArmed'
  BY Zenon, <1>0 DEF ThreadInv, InterruptsArmed, Inside
<1> QED BY Zenon, <1>1, <1>2, <1>3, <1>4, <1>5

LEMMA ResumeStep ==
  ASSUME UartInv, NEW t \in Thread, Resume(t)
  PROVE  UartInv'
<1> USE Sizes DEF UartInv, Goto, Leave, dev, bufs, Resume
<1>1. ThreadInv'
  BY DEF ThreadInv, Label
<1>2. BufInv'
  BY Zenon DEF ThreadInv, BufInv
<1>3. IerInv'
  BY Zenon DEF ThreadInv, IerInv
<1>4. NoLostWakeup'
  BY Zenon DEF ThreadInv, NoLostWakeup
<1>5. InterruptsArmed'
  BY Zenon DEF ThreadInv, InterruptsArmed, Inside
<1> QED BY Zenon, <1>1, <1>2, <1>3, <1>4, <1>5
-----------------------------------------------------------------------------
LEMMA UartNextInv == UartInv /\ [UartNext]_UartVars => UartInv'
<1> SUFFICES ASSUME UartInv, [UartNext]_UartVars PROVE UartInv'
  BY Zenon
<1>1. CASE RxArrive \/ TxShift \/ Quiet \/ UNCHANGED UartVars
  BY Zenon, <1>1, DeviceStep
<1>2. CASE UartOpen \/ UartClose \/ UartIsr
  BY Zenon, <1>2, OpenStep, CloseStep, IsrStep
<1>3. ASSUME NEW t \in Thread, Reader(t) PROVE UartInv'
  BY Zenon, <1>3, ReadStep, ReadTestStep, ReadDrainStep, ReadPosStep, ReadIerLoadStep,
     ReadIerStoreStep DEF Reader
<1>4. ASSUME NEW t \in Thread, Writer(t) PROVE UartInv'
  BY <1>4, WriteStep, WriteTestStep, WriteFillStep, WritePosStep, WriteIerLoadStep,
     WriteIerStoreStep DEF Writer
<1>5. ASSUME NEW t \in Thread, Resume(t) PROVE UartInv'
  BY Zenon, <1>5, ResumeStep
<1> QED BY Zenon, <1>1, <1>2, <1>3, <1>4, <1>5 DEF UartNext

LEMMA UartInvHolds == UartSpec => []UartInv
<1>1. UartInit /\ [][UartNext]_UartVars => []UartInv
  BY UartInitInv, UartNextInv, PTL
<1> QED BY <1>1, PTL DEF UartSpec

(* No thread sleeps on a ring buffer it could use, for every number of        *)
(* readers and writers and every size of the buffers: the broadcasts of       *)
(* uart_isr at the edges are enough.                                          *)
THEOREM NoLostWakeupHolds == UartSpec => []NoLostWakeup
  BY UartInvHolds, PTL DEF UartInv

(* The unlocked updates of ier by uart_read, uart_write and uart_isr never    *)
(* leave an interrupt off that a buffer depends on.                           *)
THEOREM InterruptsArmedHolds == UartSpec => []InterruptsArmed
  BY UartInvHolds, PTL DEF UartInv
-----------------------------------------------------------------------------
(* The order of the bytes. Positions count modulo POSMOD, slots modulo      *)
(* SERIAL_RBUFSZ; the facts about remainders that make the two agree.       *)
LEMMA DivMod ==
  ASSUME NEW n \in Nat \ {0}, NEW a \in Int
  PROVE  a = (n * (a \div n)) + (a % n) /\ a % n \in 0 .. n - 1 /\ a \div n \in Int
  BY SMTT(30)

LEMMA ModUnique ==
  ASSUME NEW n \in Nat \ {0}, NEW d \in Int, NEW e \in Int,
         NEW r \in 0 .. n - 1, NEW s \in 0 .. n - 1, (n * d) + r = (n * e) + s
  PROVE  r = s
<1>1. n * (d - e) = s - r
  BY SMTT(30)
<1>2. CASE d - e >= 1
  <2>1. n * (d - e) >= n
    BY <1>2, SMTT(30)
  <2> QED BY <1>1, <2>1
<1>3. CASE d - e <= -1
  <2>1. n * (d - e) <= -n
    BY <1>3, SMTT(30)
  <2> QED BY <1>1, <2>1
<1>4. CASE d = e
  BY <1>1, <1>4, SMTT(30)
<1> QED BY <1>2, <1>3, <1>4

(* A whole turn of the positions is a whole number of turns of the slots.   *)
LEMMA SlotTurn ==
  ASSUME NEW a \in Int
  PROVE  (a - POSMOD) % SERIAL_RBUFSZ = a % SERIAL_RBUFSZ
<1> DEFINE N == SERIAL_RBUFSZ
           q == POSMOD \div N
           d == a \div N
           e == (a - POSMOD) \div N
<1>1. POSMOD = N * q /\ q \in Int
  BY DivMod, UartAssumption
<1>2. a = (N * d) + (a % N) /\ a % N \in 0 .. N - 1 /\ d \in Int
  BY Zenon, DivMod, UartAssumption
<1>3. a - POSMOD = (N * e) + ((a - POSMOD) % N) /\ (a - POSMOD) % N \in 0 .. N - 1 /\ e \in Int
  <2>1. a - POSMOD \in Int /\ N \in Nat \ {0}
    BY Sizes
  <2> QED BY Zenon, <2>1, DivMod
<1> HIDE DEF q, d, e
<1>4. (N * (d - q)) + (a % N) = (N * e) + ((a - POSMOD) % N)
  <2>1. N * (d - q) = (N * d) - (N * q)
    BY <1>1, <1>2, Sizes, SMTT(30)
  <2> DEFINE nd == N * d
             nq == N * q
             ne == N * e
             r == a % N
             s == (a - POSMOD) % N
  <2>2. {nd, nq, ne, r, s} \subseteq Int
    BY <1>1, <1>2, <1>3, Sizes
  <2>3. POSMOD = nq /\ a = nd + r /\ a - POSMOD = ne + s /\ N * (d - q) = nd - nq
    BY Zenon, <1>1, <1>2, <1>3, <2>1
  <2> HIDE DEF nd, nq, ne, r, s, N
  <2>4. (nd - nq) + r = ne + s
    BY <2>2, <2>3
  <2> QED BY Zenon, <2>3, <2>4 DEF ne, r, s
<1>5. d - q \in Int /\ N \in Nat \ {0}
  BY <1>1, <1>2, Sizes
<1> HIDE DEF N
<1>6. a % N = (a - POSMOD) % N
  BY Zenon, <1>2, <1>3, <1>4, <1>5, ModUnique
<1> QED BY Zenon, <1>6 DEF N

(* Fewer than SERIAL_RBUFSZ apart, two positions have different slots.      *)
LEMMA SlotsDiffer ==
  ASSUME NEW a \in Int, NEW k \in 1 .. SERIAL_RBUFSZ - 1
  PROVE  (a + k) % SERIAL_RBUFSZ # a % SERIAL_RBUFSZ
<1> DEFINE N == SERIAL_RBUFSZ
           d == a \div N
           e == (a + k) \div N
<1> SUFFICES ASSUME (a + k) % N = a % N PROVE FALSE
  BY Zenon
<1>1. a = (N * d) + (a % N) /\ a % N \in 0 .. N - 1 /\ d \in Int
  BY Zenon, DivMod, UartAssumption
<1>2. a + k = (N * e) + ((a + k) % N) /\ e \in Int
  <2>1. a + k \in Int /\ N \in Nat \ {0}
    BY Sizes
  <2> QED BY Zenon, <2>1, DivMod
<1> HIDE DEF d, e
<1>3. (N * (e - d)) + 0 = (N * 0) + k
  <2>1. N * (e - d) = (N * e) - (N * d)
    BY <1>1, <1>2, Sizes, SMTT(30)
  <2> DEFINE r == a % N
  <2>2. (a + k) % N = r /\ r \in Int
    BY <1>1
  <2> HIDE DEF r
  <2> QED BY <1>1, <1>2, <2>1, <2>2, Sizes, SMTT(30) DEF r
<1>4. e - d \in Int /\ N \in Nat \ {0} /\ 0 \in 0 .. N - 1 /\ k \in 0 .. N - 1
  BY <1>1, <1>2, Sizes
<1> HIDE DEF N
<1>5. 0 = k
  BY <1>3, <1>4, ModUnique
<1> QED BY <1>5

(* The slot rbuf_put fills is the one after the bytes in the buffer.        *)
LEMMA TailSlot ==
  ASSUME NEW b, IsRbuf(b)
  PROVE  b.tpos % SERIAL_RBUFSZ = (b.hpos + Filled(b)) % SERIAL_RBUFSZ
<1> DEFINE f == Filled(b)
<1>1. b.hpos \in Int /\ b.tpos \in Int /\ POSMOD \in Int
  BY Sizes DEF IsRbuf, Pos
<1>2. f = IF b.hpos <= b.tpos THEN b.tpos - b.hpos ELSE b.tpos - b.hpos + POSMOD
  BY Zenon, FilledIs DEF IsRbuf
<1> HIDE DEF f
<1>3. CASE b.tpos = b.hpos + f
  BY Zenon, <1>3 DEF f
<1>4. CASE b.tpos = (b.hpos + f) - POSMOD
  <2>1. b.hpos + f \in Int
    BY <1>1, <1>2
  <2> QED BY Zenon, <1>4, <2>1, SlotTurn DEF f
<1> QED BY <1>1, <1>2, <1>3, <1>4

LEMMA NextSlot ==
  ASSUME NEW a \in Pos, NEW i \in Int
  PROVE  (((a + 1) % POSMOD) + i) % SERIAL_RBUFSZ = (a + 1 + i) % SERIAL_RBUFSZ
<1>1. a \in Int /\ POSMOD \in Int
  BY Sizes DEF Pos
<1>2. CASE a = POSMOD - 1
  <2>1. (a + 1 + i) - POSMOD = 0 + i /\ a + 1 + i \in Int
    BY <1>1, <1>2
  <2>2. (a + 1) % POSMOD = 0
    BY Zenon, <1>2, NextPos
  <2> QED BY Zenon, <2>1, <2>2, SlotTurn
<1>3. CASE a # POSMOD - 1
  BY Zenon, <1>3, NextPos
<1> QED BY Zenon, <1>2, <1>3

LEMMA InSlot ==
  ASSUME NEW a \in Int
  PROVE  a % SERIAL_RBUFSZ \in Slot
  BY Zenon, DivMod, Sizes DEF Slot

HoldsInts(b) == IsRbuf(b) /\ b.data \in [Slot -> Int]

LEMMA ContentsIs ==
  ASSUME NEW b, HoldsInts(b)
  PROVE  /\ Contents(b) \in Seq(Int) /\ Len(Contents(b)) = Filled(b) /\ Filled(b) \in Nat
         /\ \A i \in 1 .. Filled(b) : Contents(b)[i] = b.data[(b.hpos + i - 1) % SERIAL_RBUFSZ]
<1>1. b.hpos \in Int /\ Filled(b) \in Nat
  BY FilledIs, Sizes DEF HoldsInts, IsRbuf, Pos
<1> DEFINE f == Filled(b)
           e(i) == b.data[(b.hpos + i - 1) % SERIAL_RBUFSZ]
<1>2. Contents(b) = [i \in 1 .. f |-> e(i)]
  BY Zenon DEF Contents, Filled
<1>3. \A i \in 1 .. f : e(i) \in Int
  <2> TAKE i \in 1 .. f
  <2>1. (b.hpos + i - 1) % SERIAL_RBUFSZ \in Slot
    BY <1>1, InSlot
  <2> QED BY Zenon, <2>1 DEF HoldsInts
<1> HIDE DEF f, e
<1>4. f \in Nat
  BY Zenon, <1>1 DEF f
<1>5. [i \in 1 .. f |-> e(i)] \in Seq(Int) /\ Len([i \in 1 .. f |-> e(i)]) = f
  BY <1>3, <1>4
<1> QED BY Zenon, <1>1, <1>2, <1>5 DEF f, e

LEMMA EmptyContents ==
  ASSUME NEW b, HoldsInts(b)
  PROVE  (Contents(b) = <<>>) <=> rbuf_empty(b)
<1>1. Contents(b) \in Seq(Int) /\ Len(Contents(b)) = Filled(b)
  BY Zenon, ContentsIs
<1>2. Filled(b) = 0 <=> rbuf_empty(b)
  BY FilledIs, Sizes DEF HoldsInts, IsRbuf, rbuf_empty, Pos
<1> QED BY Zenon, <1>1, <1>2, ListLen

(* rbuf_put's first step, into a free slot, changes nothing in the buffer.  *)
LEMMA ContentsPutData ==
  ASSUME NEW b, NEW c \in Int, HoldsInts(b), ~rbuf_full(b)
  PROVE  LET p == put_data(b, c)
         IN /\ HoldsInts(p) /\ Contents(p) = Contents(b)
            /\ p.tpos = b.tpos /\ p.data[p.tpos % SERIAL_RBUFSZ] = c
<1> DEFINE p == put_data(b, c)
           k == b.tpos % SERIAL_RBUFSZ
<1>0. IsRbuf(b) /\ b.data \in [Slot -> Int] /\ b.hpos \in Int /\ b.tpos \in Int
  BY DEF HoldsInts, IsRbuf, Pos
<1>1. p.hpos = b.hpos /\ p.tpos = b.tpos /\ p.data = [b.data EXCEPT ![k] = c]
  BY Zenon, <1>0 DEF put_data, IsRbuf
<1>2. k \in Slot
  BY Zenon, <1>0, InSlot
<1>3. HoldsInts(p) /\ p.data[p.tpos % SERIAL_RBUFSZ] = c
  <2>1. IsRbuf(p)
    BY Zenon, <1>0, PutData
  <2> HIDE DEF p, k
  <2>2. p.data \in [Slot -> Int] /\ p.data[k] = c
    BY Zenon, <1>0, <1>1, <1>2
  <2> QED BY Zenon, <1>1, <2>1, <2>2 DEF HoldsInts, k
<1> HIDE DEF p
<1>4. Filled(p) = Filled(b) /\ Filled(b) \in Nat /\ Filled(b) < SERIAL_RBUFSZ
  <2>1. Filled(p) = Filled(b)
    BY Zenon, <1>1 DEF Filled
  <2>2. Filled(b) \in Nat /\ Filled(b) <= SERIAL_RBUFSZ /\ Filled(b) # SERIAL_RBUFSZ
    BY Zenon, <1>0, ContentsIs DEF IsRbuf, rbuf_full, Filled
  <2> QED BY <2>1, <2>2, Sizes
<1>5. ASSUME NEW i \in 1 .. Filled(b) PROVE Contents(p)[i] = Contents(b)[i]
  <2> DEFINE a == b.hpos + i - 1
             m == Filled(b) - i + 1
  <2>1. a \in Int /\ m \in 1 .. SERIAL_RBUFSZ - 1 /\ a + m = b.hpos + Filled(b)
    BY <1>0, <1>4, Sizes
  <2>2. k = (a + m) % SERIAL_RBUFSZ
    BY Zenon, <1>0, <2>1, TailSlot
  <2>3. a % SERIAL_RBUFSZ \in Slot /\ a % SERIAL_RBUFSZ # k
    BY Zenon, <2>1, <2>2, SlotsDiffer, InSlot
  <2>4. Contents(p)[i] = p.data[a % SERIAL_RBUFSZ] /\ Contents(b)[i] = b.data[a % SERIAL_RBUFSZ]
    <3>1. Contents(b)[i] = b.data[(b.hpos + i - 1) % SERIAL_RBUFSZ]
      BY Zenon, ContentsIs
    <3>2. i \in 1 .. Filled(p)
      BY Zenon, <1>4
    <3>3. Contents(p)[i] = p.data[(p.hpos + i - 1) % SERIAL_RBUFSZ]
      BY Zenon, <1>3, <3>2, ContentsIs
    <3>4. p.hpos + i - 1 = a
      BY Zenon, <1>1
    <3> QED BY Zenon, <3>1, <3>3, <3>4
  <2> HIDE DEF a, k
  <2> QED BY Zenon, <1>0, <1>1, <2>3, <2>4
<1>6. Contents(p) = Contents(b)
  BY Zenon, <1>3, <1>4, <1>5, ContentsIs, ListEqual
<1> QED BY Zenon, <1>1, <1>3, <1>6 DEF p

(* Its second step adds the byte in that slot at the end.                   *)
LEMMA ContentsPutPos ==
  ASSUME NEW b, HoldsInts(b), ~rbuf_full(b)
  PROVE  LET p == put_pos(b)
         IN /\ HoldsInts(p)
            /\ b.data[b.tpos % SERIAL_RBUFSZ] \in Int
            /\ Contents(p) = Append(Contents(b), b.data[b.tpos % SERIAL_RBUFSZ])
<1> DEFINE p == put_pos(b)
           c == b.data[b.tpos % SERIAL_RBUFSZ]
           s == Append(Contents(b), c)
<1>0. IsRbuf(b) /\ b.data \in [Slot -> Int] /\ b.hpos \in Pos /\ b.tpos \in Pos
      /\ b.hpos \in Int /\ b.tpos \in Int
  BY DEF HoldsInts, IsRbuf, Pos
<1>1. p.hpos = b.hpos /\ p.tpos = (b.tpos + 1) % POSMOD /\ p.data = b.data
  BY Zenon, <1>0 DEF put_pos, IsRbuf
<1>2. c \in Int
  BY Zenon, <1>0, InSlot
<1>3. HoldsInts(p)
  BY Zenon, <1>0, <1>1, PutPos DEF HoldsInts
<1> HIDE DEF p
<1>4. Filled(p) = Filled(b) + 1 /\ Filled(b) \in Nat
  <2>1. p.hpos \in Pos /\ p.tpos \in Pos
    BY Zenon, <1>3 DEF HoldsInts, IsRbuf
  <2>2. Filled(b) \in Nat /\ Filled(b) <= SERIAL_RBUFSZ /\ Filled(b) # SERIAL_RBUFSZ
    BY Zenon, <1>0, ContentsIs DEF IsRbuf, rbuf_full, Filled
  <2>3. p.tpos = IF b.tpos = POSMOD - 1 THEN 0 ELSE b.tpos + 1
    BY Zenon, <1>0, <1>1, NextPos
  <2>4. Filled(b) = IF b.hpos <= b.tpos THEN b.tpos - b.hpos ELSE b.tpos - b.hpos + POSMOD
    BY Zenon, <1>0, FilledIs
  <2>5. Filled(p) = IF p.hpos <= p.tpos THEN p.tpos - p.hpos ELSE p.tpos - p.hpos + POSMOD
    BY Zenon, <2>1, FilledIs
  <2>6. p.hpos = b.hpos
    BY Zenon, <1>1
  <2> HIDE DEF Pos
  <2>7. b.hpos \in Int /\ b.tpos \in Int /\ 0 <= b.hpos
        /\ b.hpos <= POSMOD - 1 /\ b.tpos <= POSMOD - 1
    BY <1>0, Sizes DEF Pos
  <2> QED BY <2>2, <2>3, <2>4, <2>5, <2>6, <2>7, Sizes
<1>5. /\ Contents(b) \in Seq(Int) /\ Len(Contents(b)) = Filled(b)
      /\ Contents(p) \in Seq(Int) /\ Len(Contents(p)) = Filled(p)
  BY Zenon, <1>3, ContentsIs
<1> HIDE DEF c
<1>6. s \in Seq(Int) /\ Len(s) = Filled(b) + 1
  BY <1>2, <1>5, ListAppend
<1>7. ASSUME NEW i \in 1 .. Filled(b) + 1 PROVE Contents(p)[i] = s[i]
  <2>1. CASE i = Filled(b) + 1
    <3>1. Contents(p)[i] = p.data[(p.hpos + i - 1) % SERIAL_RBUFSZ]
      BY Zenon, <1>3, <1>4, ContentsIs
    <3>2. p.hpos + i - 1 = b.hpos + Filled(b)
      BY <1>0, <1>1, <1>4, <2>1
    <3>3. Contents(p)[i] = c
      BY Zenon, <1>0, <1>1, <3>1, <3>2, TailSlot DEF c
    <3>4. s[i] = c
      BY <1>2, <1>5, <2>1, ListAppend
    <3> QED BY Zenon, <3>3, <3>4
  <2>2. CASE i \in 1 .. Filled(b)
    <3>1. s[i] = Contents(b)[i]
      BY <1>2, <1>5, <2>2, ListAppend
    <3>2. Contents(p)[i] = p.data[(p.hpos + i - 1) % SERIAL_RBUFSZ]
      BY <1>3, <1>4, ContentsIs
    <3> QED BY Zenon, <1>1, <2>2, <3>1, <3>2, ContentsIs
  <2>3. i = Filled(b) + 1 \/ i \in 1 .. Filled(b)
    BY <1>4
  <2> QED BY <2>1, <2>2, <2>3, Zenon
<1> HIDE DEF s
<1>8. Contents(p) = s
  BY Zenon, <1>4, <1>5, <1>6, <1>7, ListEqual
<1> QED BY Zenon, <1>2, <1>3, <1>8 DEF p, c, s

LEMMA ContentsPut ==
  ASSUME NEW b, NEW c \in Int, HoldsInts(b), ~rbuf_full(b)
  PROVE  HoldsInts(rbuf_put(b, c)) /\ Contents(rbuf_put(b, c)) = Append(Contents(b), c)
<1> DEFINE p == put_data(b, c)
<1>1. /\ HoldsInts(p) /\ Contents(p) = Contents(b)
      /\ p.data[p.tpos % SERIAL_RBUFSZ] = c
  BY Zenon, ContentsPutData
<1>2. ~rbuf_full(p)
  BY Zenon, PutData DEF HoldsInts
<1> HIDE DEF p
<1>3. HoldsInts(put_pos(p)) /\ Contents(put_pos(p)) = Append(Contents(p), c)
  BY Zenon, <1>1, <1>2, ContentsPutPos
<1> QED BY Zenon, <1>1, <1>3 DEF rbuf_put, p

(* rbuf_get takes the oldest byte, then drops it.                           *)
LEMMA ContentsGet ==
  ASSUME NEW b, HoldsInts(b), ~rbuf_empty(b)
  PROVE  LET p == get_pos(b)
         IN /\ HoldsInts(p) /\ p.tpos = b.tpos /\ p.data = b.data
            /\ Contents(b) # <<>> /\ get_data(b) = Head(Contents(b))
            /\ get_data(b) \in Int
            /\ Contents(p) = Tail(Contents(b))
<1> DEFINE p == get_pos(b)
           s == Contents(b)
<1>0. IsRbuf(b) /\ b.data \in [Slot -> Int] /\ b.hpos \in Pos /\ b.tpos \in Pos
      /\ b.hpos \in Int /\ b.tpos \in Int
  BY DEF HoldsInts, IsRbuf, Pos
<1>1. p.tpos = b.tpos /\ p.hpos = (b.hpos + 1) % POSMOD /\ p.data = b.data
  BY Zenon, <1>0 DEF get_pos, IsRbuf
<1>2. HoldsInts(p)
  BY Zenon, <1>0, <1>1, GetPos DEF HoldsInts
<1> HIDE DEF p
<1>3. Filled(p) = Filled(b) - 1 /\ Filled(b) \in Nat \ {0}
  <2>1. p.hpos \in Pos /\ p.tpos \in Pos
    BY <1>2 DEF HoldsInts, IsRbuf
  <2>2. b.hpos # b.tpos
    BY Zenon DEF rbuf_empty
  <2>3. p.hpos = IF b.hpos = POSMOD - 1 THEN 0 ELSE b.hpos + 1
    BY Zenon, <1>0, <1>1, NextPos
  <2>4. Filled(b) = IF b.hpos <= b.tpos THEN b.tpos - b.hpos ELSE b.tpos - b.hpos + POSMOD
    BY <1>0, FilledIs
  <2>5. Filled(p) = IF p.hpos <= p.tpos THEN p.tpos - p.hpos ELSE p.tpos - p.hpos + POSMOD
    BY <2>1, FilledIs
  <2>6. p.tpos = b.tpos
    BY Zenon, <1>1
  <2> HIDE DEF Pos
  <2>7. b.hpos \in Int /\ b.tpos \in Int /\ 0 <= b.hpos /\ 0 <= b.tpos
        /\ b.hpos <= POSMOD - 1 /\ b.tpos <= POSMOD - 1
    BY <1>0, Sizes DEF Pos
  <2> QED BY <2>2, <2>3, <2>4, <2>5, <2>6, <2>7, Sizes
<1>4. /\ s \in Seq(Int) /\ Len(s) = Filled(b)
      /\ Contents(p) \in Seq(Int) /\ Len(Contents(p)) = Filled(p)
  BY Zenon, <1>2, ContentsIs
<1>5. s # <<>>
  BY Zenon, EmptyContents
<1>6. get_data(b) = Head(s) /\ get_data(b) \in Int
  <2>1. 1 \in 1 .. Filled(b) /\ b.hpos + 1 - 1 = b.hpos
    BY <1>0, <1>3
  <2>2. s[1] = b.data[(b.hpos + 1 - 1) % SERIAL_RBUFSZ]
    BY Zenon, <2>1, ContentsIs
  <2>3. s[1] = get_data(b)
    BY Zenon, <2>1, <2>2 DEF get_data
  <2>4. b.hpos % SERIAL_RBUFSZ \in Slot
    BY Zenon, <1>0, InSlot
  <2> HIDE DEF s
  <2>5. Head(s) = s[1]
    BY <1>4, <1>5
  <2> QED BY Zenon, <1>0, <2>3, <2>4, <2>5 DEF get_data
<1>7. Tail(s) \in Seq(Int) /\ Len(Tail(s)) = Filled(b) - 1
      /\ \A i \in 1 .. Filled(b) - 1 : Tail(s)[i] = s[i + 1]
  BY Zenon, <1>4, <1>5, ListTail
<1>8. ASSUME NEW i \in 1 .. Filled(b) - 1 PROVE Contents(p)[i] = Tail(s)[i]
  <2>1. i \in 1 .. Filled(p) /\ i + 1 \in 1 .. Filled(b) /\ i - 1 \in Int
    BY <1>3
  <2>2. Contents(p)[i] = p.data[(p.hpos + i - 1) % SERIAL_RBUFSZ]
    BY Zenon, <1>2, <2>1, ContentsIs
  <2>3. s[i + 1] = b.data[(b.hpos + (i + 1) - 1) % SERIAL_RBUFSZ]
    BY Zenon, <2>1, ContentsIs
  <2>4. (((b.hpos + 1) % POSMOD) + (i - 1)) % SERIAL_RBUFSZ = (b.hpos + 1 + (i - 1)) % SERIAL_RBUFSZ
    BY Zenon, <1>0, <2>1, NextSlot
  <2>5. p.hpos + i - 1 = p.hpos + (i - 1) /\ b.hpos + (i + 1) - 1 = b.hpos + 1 + (i - 1)
    <3>1. p.hpos \in Int
      BY <1>2 DEF HoldsInts, IsRbuf, Pos
    <3> QED BY <1>0, <3>1
  <2> HIDE DEF s
  <2> QED BY <1>1, <1>7, <2>2, <2>3, <2>4, <2>5, Zenon
<1> HIDE DEF s
<1>9. Contents(p) = Tail(s)
  BY Zenon, <1>3, <1>4, <1>7, <1>8, ListEqual
<1> QED BY Zenon, <1>1, <1>2, <1>5, <1>6, <1>9 DEF p, s
-----------------------------------------------------------------------------
(* What BytesInOrder needs: a closed device raises no interrupt and its logs *)
(* are empty, and the byte uart_write has stored stays in its slot until the *)
(* position moves.                                                           *)
LogInv ==
  /\ refcnt \in {0, 1} /\ rbr \in Int /\ arrived \in Nat
  /\ HoldsInts(rxbuf) /\ HoldsInts(txbuf)
  /\ taken \in Seq(Int) /\ got \in Seq(Int) /\ written \in Seq(Int) /\ sent \in Seq(Int)
  /\ refcnt = 0 => taken = <<>> /\ got = <<>> /\ written = <<>> /\ sent = <<>> /\ ier = {}
  /\ \A t \in Thread :
       pc[t] = "fpos" => txbuf.data[txbuf.tpos % SERIAL_RBUFSZ] = RXMAX + Len(written)

RxOrder ==
  refcnt = 1 => taken = IF Inside({"dpos"}) THEN got \o Tail(Contents(rxbuf))
                                            ELSE got \o Contents(rxbuf)
TxOrder == refcnt = 1 => written = sent \o Contents(txbuf)

OrderInv == LogInv /\ RxOrder /\ TxOrder

(* Moving the first byte of the rest, or adding one at its end.             *)
LEMMA MoveHead ==
  ASSUME NEW a \in Seq(Int), NEW b \in Seq(Int), b # <<>>
  PROVE  a \o b = Append(a, Head(b)) \o Tail(b)
<1>1. Head(b) \in Int /\ Tail(b) \in Seq(Int) /\ <<Head(b)>> \in Seq(Int)
  BY ListTail
<1>2. b = <<Head(b)>> \o Tail(b)
  <2> DEFINE h == <<Head(b)>>
             r == Tail(b)
  <2>1. h \in Seq(Int) /\ Len(h) = 1 /\ h[1] = Head(b) /\ r \in Seq(Int)
    BY Zenon, <1>1
  <2>2. Len(r) = Len(b) - 1 /\ (\A i \in 1 .. Len(r) : r[i] = b[i + 1]) /\ Head(b) = b[1]
    BY ListTail
  <2>3. Len(b) \in Nat \ {0} /\ Len(r) \in Nat
    BY Zenon, <2>1, ListLen
  <2> HIDE DEF h, r
  <2>4a. h \o r \in Seq(Int) /\ Len(h \o r) = Len(h) + Len(r)
        /\ \A i \in 1 .. Len(h) + Len(r) : (h \o r)[i] = IF i <= Len(h) THEN h[i] ELSE r[i - Len(h)]
    <3>1. h \in Seq(Int) /\ r \in Seq(Int)
      BY Zenon, <2>1
    <3> QED BY Zenon, <3>1, ListConcat
  <2>4b. Len(h) = 1 /\ Len(h) + Len(r) = Len(b)
    BY <2>1, <2>2, <2>3
  <2>4. h \o r \in Seq(Int) /\ Len(h \o r) = Len(b)
        /\ \A i \in 1 .. Len(b) : (h \o r)[i] = IF i <= 1 THEN h[i] ELSE r[i - 1]
    BY <2>4a, <2>4b, Zenon
  <2>5. ASSUME NEW i \in 1 .. Len(b) PROVE b[i] = (h \o r)[i]
    <3>1. (h \o r)[i] = IF i <= 1 THEN h[i] ELSE r[i - 1]
      BY Zenon, <2>4
    <3>2. CASE i = 1
      BY <2>1, <2>2, <3>1, <3>2
    <3>3. CASE i # 1
      BY <2>2, <2>3, <3>1, <3>3
    <3> QED BY Zenon, <3>2, <3>3
  <2> QED BY Zenon, <2>4, <2>5, ListEqual DEF h, r
<1>3. Append(a, Head(b)) = a \o <<Head(b)>>
  BY Zenon, <1>1, ListAppend
<1>4. (a \o <<Head(b)>>) \o Tail(b) = a \o (<<Head(b)>> \o Tail(b))
  <2> DEFINE h == <<Head(b)>>
             r == Tail(b)
  <2>1. h \in Seq(Int) /\ r \in Seq(Int)
    BY Zenon, <1>1
  <2> HIDE DEF h, r
  <2>2. Associates(a, h, r)
    BY Zenon, <2>1, ListAssociative
  <2> QED BY Zenon, <2>2 DEF Associates, h, r
<1> QED BY <1>2, <1>3, <1>4, Zenon

LEMMA AddLast ==
  ASSUME NEW a \in Seq(Int), NEW b \in Seq(Int), NEW c \in Int
  PROVE  Append(a \o b, c) = a \o Append(b, c)
<1>1. a \o b \in Seq(Int) /\ <<c>> \in Seq(Int)
  <2>1. a \o b \in Seq(Int)
    BY Zenon, ListConcat
  <2> QED BY <2>1
<1>2. Append(a \o b, c) = (a \o b) \o <<c>> /\ Append(b, c) = b \o <<c>>
  BY ZenonT(30), <1>1, ListAppend
<1>3. (a \o b) \o <<c>> = a \o (b \o <<c>>)
  <2> DEFINE h == <<c>>
  <2>1. h \in Seq(Int)
    BY Zenon, <1>1
  <2> HIDE DEF h
  <2>2. Associates(a, b, h)
    BY Zenon, <2>1, ListAssociative
  <2> QED BY Zenon, <2>2 DEF Associates, h
<1> QED BY Zenon, <1>2, <1>3

(* A step that touches neither the buffers nor the logs.                    *)
LEMMA OrderKept ==
  ASSUME OrderInv, UNCHANGED <<refcnt, rxbuf, txbuf, taken, got, written, sent>>,
         rbr' \in Int, arrived' \in Nat, refcnt = 0 => ier' = {},
         \A t \in Thread : /\ pc'[t] = "dpos" <=> pc[t] = "dpos"
                           /\ pc'[t] = "fpos" => pc[t] = "fpos"
  PROVE  OrderInv'
<1>1. LogInv'
  BY Zenon DEF OrderInv, LogInv, HoldsInts, IsRbuf, Filled
<1>2. Inside({"dpos"})' <=> Inside({"dpos"})
  BY Zenon DEF Inside
<1>3. Contents(rxbuf)' = Contents(rxbuf) /\ Contents(txbuf)' = Contents(txbuf)
  BY Zenon DEF Contents
<1>4. RxOrder' /\ TxOrder'
  BY <1>2, <1>3, Zenon DEF OrderInv, RxOrder, TxOrder
<1> QED BY Zenon, <1>1, <1>4 DEF OrderInv

LEMMA OrderQuiet ==
  ASSUME UartInv, OrderInv, NEW t \in Thread,
         \/ \E n \in ReadSizes : Read(t, n)
         \/ \E n \in WriteSizes : Write(t, n)
         \/ ReadTest(t) \/ ReadIerLoad(t) \/ ReadIerStore(t)
         \/ WriteTest(t) \/ WriteIerLoad(t) \/ WriteIerStore(t) \/ Resume(t)
  PROVE  OrderInv'
<1> USE DEF Read, Write, ReadTest, ReadIerLoad, ReadIerStore, WriteTest, WriteIerLoad,
            WriteIerStore, Resume
<1>1. UNCHANGED <<refcnt, rxbuf, txbuf, taken, got, written, sent, rbr, arrived>>
  BY Zenon DEF dev, bufs, counts, logs
<1>2. \A u \in Thread : /\ pc'[u] = "dpos" <=> pc[u] = "dpos"
                        /\ pc'[u] = "fpos" => pc[u] = "fpos"
  BY ZenonT(30) DEF Goto, Leave, UartInv, ThreadInv
<1>3. rbr \in Int /\ arrived \in Nat
  BY Zenon DEF OrderInv, LogInv
<1>4. refcnt = 0 => ier' = {}
  BY DEF UartInv, ThreadInv, OrderInv, LogInv, dev
<1> QED BY Zenon, <1>1, <1>2, <1>3, <1>4, OrderKept

LEMMA OrderDevice ==
  ASSUME OrderInv, RxArrive \/ TxShift \/ Quiet \/ UNCHANGED UartVars
  PROVE  OrderInv'
<1>1. UNCHANGED <<refcnt, rxbuf, txbuf, taken, got, written, sent, pc>>
  BY Zenon DEF RxArrive, TxShift, Quiet, UartVars, dev, bufs, counts, logs, thr
<1>2. rbr' \in Int /\ arrived' \in Nat /\ (refcnt = 0 => ier' = {})
  <2>1. rbr \in Int /\ arrived \in Nat /\ (refcnt = 0 => ier = {})
    BY Zenon DEF OrderInv, LogInv
  <2>2. ier' = ier /\ (UNCHANGED <<rbr, arrived>> \/ (rbr' = arrived /\ arrived' = arrived + 1))
    BY Zenon DEF RxArrive, TxShift, Quiet, UartVars, dev, counts
  <2> QED BY <2>1, <2>2
<1> QED BY Zenon, <1>1, <1>2, OrderKept

LEMMA InitContents == HoldsInts(rbuf_init) /\ Contents(rbuf_init) = <<>>
<1>1. HoldsInts(rbuf_init)
  BY InitRbuf DEF HoldsInts, rbuf_init, NoByte
<1> QED BY Zenon, <1>1, InitRbuf, EmptyContents

LEMMA OrderOpen ==
  ASSUME UartInv, OrderInv, UartOpen
  PROVE  OrderInv'
<1>0. \A t \in Thread : pc[t] = "user"
  BY DEF UartOpen, UartInv, ThreadInv
<1>1. HoldsInts(rxbuf') /\ HoldsInts(txbuf') /\ Contents(rxbuf') = <<>> /\ Contents(txbuf') = <<>>
  BY Zenon, InitContents DEF UartOpen
<1>2. taken' = <<>> /\ got' = <<>> /\ written' = <<>> /\ sent' = <<>> /\ pc' = pc
  BY Zenon DEF UartOpen, OrderInv, LogInv, logs, thr
<1>3. LogInv'
  <2>1. refcnt' = 1 /\ rbr' \in Int /\ arrived' \in Nat
    BY DEF UartOpen, NoByte
  <2> QED BY <1>0, <1>1, <1>2, <2>1 DEF LogInv, HoldsInts, IsRbuf, Filled
<1>4. ~Inside({"dpos"})'
  BY Zenon, <1>0, <1>2 DEF Inside
<1>5. Contents(rxbuf)' = <<>> /\ Contents(txbuf)' = <<>>
  BY Zenon, <1>1 DEF Contents
<1>6. RxOrder' /\ TxOrder'
  BY <1>2, <1>4, <1>5 DEF RxOrder, TxOrder
<1> QED BY Zenon, <1>3, <1>6 DEF OrderInv

LEMMA OrderClose ==
  ASSUME OrderInv, UartClose
  PROVE  OrderInv'
<1>1. LogInv'
  BY DEF UartClose, OrderInv, LogInv, bufs, thr, HoldsInts, IsRbuf, Filled
<1>2. RxOrder' /\ TxOrder'
  BY DEF UartClose, RxOrder, TxOrder
<1> QED BY Zenon, <1>1, <1>2 DEF OrderInv

(* uart_read: the byte is delivered before the position drops it.           *)
LEMMA OrderDrain ==
  ASSUME UartInv, OrderInv, NEW t \in Thread, ReadDrain(t)
  PROVE  OrderInv'
<1>0. /\ HoldsInts(rxbuf) /\ HoldsInts(txbuf) /\ got \in Seq(Int)
      /\ Contents(rxbuf) \in Seq(Int) /\ rbr \in Int /\ arrived \in Nat
  BY Zenon, ContentsIs DEF OrderInv, LogInv
<1>1. /\ UNCHANGED <<refcnt, rxbuf, txbuf, taken, written, sent, rbr, arrived>>
      /\ cur = t /\ pc[t] = "drain"
  BY Zenon DEF ReadDrain, dev, bufs, counts
<1>2. CASE ~rbuf_empty(rxbuf) /\ left[t] > 0
  <2>1. got' = Append(got, Head(Contents(rxbuf))) /\ Contents(rxbuf) # <<>>
        /\ Head(Contents(rxbuf)) \in Int
    BY Zenon, <1>0, <1>2, ContentsGet DEF ReadDrain
  <2>2. pc' = [pc EXCEPT ![t] = "dpos"]
    BY Zenon, <1>2 DEF ReadDrain, Goto
  <2>3. Inside({"dpos"})' /\ ~Inside({"dpos"})
        /\ \A u \in Thread : pc'[u] = "fpos" => pc[u] = "fpos"
    BY Zenon, <1>1, <2>2 DEF Inside, UartInv, ThreadInv
  <2>4. got \o Contents(rxbuf) = got' \o Tail(Contents(rxbuf))
    BY Zenon, <1>0, <2>1, MoveHead
  <2>5. Contents(rxbuf)' = Contents(rxbuf) /\ Contents(txbuf)' = Contents(txbuf)
    BY Zenon, <1>1 DEF Contents
  <2>6. RxOrder' /\ TxOrder'
    BY <1>1, <2>3, <2>4, <2>5, Zenon DEF OrderInv, RxOrder, TxOrder
  <2>7. got' \in Seq(Int)
    BY Zenon, <1>0, <2>1, ListAppend
  <2>8. refcnt = 1
    BY Zenon, <1>1 DEF UartInv, ThreadInv
  <2>9. LogInv'
    BY <1>1, <2>3, <2>7, <2>8 DEF OrderInv, LogInv, HoldsInts, IsRbuf, Filled
  <2> QED BY Zenon, <2>6, <2>9 DEF OrderInv
<1>3. CASE ~(~rbuf_empty(rxbuf) /\ left[t] > 0)
  <2>1. pc' = [pc EXCEPT ![t] = "rier"] /\ got' = got
    BY Zenon, <1>3 DEF ReadDrain, Goto
  <2>2. \A u \in Thread : /\ pc'[u] = "dpos" <=> pc[u] = "dpos"
                          /\ pc'[u] = "fpos" => pc[u] = "fpos"
    BY Zenon, <1>1, <2>1 DEF UartInv, ThreadInv
  <2>3. refcnt = 0 => ier' = {}
    BY Zenon DEF ReadDrain, dev, OrderInv, LogInv
  <2> QED BY Zenon, <1>0, <1>1, <2>1, <2>2, <2>3, OrderKept
<1> QED BY Zenon, <1>2, <1>3

LEMMA OrderReadPos ==
  ASSUME UartInv, OrderInv, NEW t \in Thread, ReadPos(t)
  PROVE  OrderInv'
<1>0. HoldsInts(rxbuf) /\ HoldsInts(txbuf) /\ ~rbuf_empty(rxbuf)
  BY Zenon DEF OrderInv, LogInv, UartInv, BufInv, ReadPos
<1>1. /\ UNCHANGED <<refcnt, txbuf, taken, got, written, sent, rbr, arrived, ier>>
      /\ cur = t /\ pc[t] = "dpos" /\ pc' = [pc EXCEPT ![t] = "drain"]
      /\ rxbuf' = get_pos(rxbuf)
  BY Zenon DEF ReadPos, dev, counts, logs, Goto
<1>2. HoldsInts(rxbuf') /\ Contents(rxbuf') = Tail(Contents(rxbuf))
  BY Zenon, <1>0, <1>1, ContentsGet
<1>3. Inside({"dpos"}) /\ ~Inside({"dpos"})'
      /\ \A u \in Thread : pc'[u] = "fpos" => pc[u] = "fpos"
  BY Zenon, <1>1 DEF Inside, UartInv, ThreadInv
<1>4. Contents(rxbuf)' = Tail(Contents(rxbuf)) /\ Contents(txbuf)' = Contents(txbuf)
  BY Zenon, <1>1, <1>2 DEF Contents
<1>5. RxOrder' /\ TxOrder'
  BY <1>1, <1>3, <1>4, Zenon DEF OrderInv, RxOrder, TxOrder
<1>6. LogInv'
  BY Zenon, <1>1, <1>2, <1>3 DEF OrderInv, LogInv, HoldsInts, IsRbuf, Filled
<1> QED BY <1>5, <1>6 DEF OrderInv

(* uart_write: the byte is in its slot before the position shows it.        *)
LEMMA OrderFill ==
  ASSUME UartInv, OrderInv, NEW t \in Thread, WriteFill(t)
  PROVE  OrderInv'
<1> DEFINE v == RXMAX + Len(written)
<1>0. /\ HoldsInts(rxbuf) /\ HoldsInts(txbuf) /\ v \in Int
      /\ rbr \in Int /\ arrived \in Nat
  BY UartAssumption DEF OrderInv, LogInv
<1>1. /\ UNCHANGED <<refcnt, rxbuf, taken, got, written, sent, rbr, arrived, ier>>
      /\ cur = t /\ pc[t] = "fill"
  BY Zenon DEF WriteFill, dev, counts, logs
<1>2. CASE ~rbuf_full(txbuf) /\ left[t] > 0
  <2>1. txbuf' = put_data(txbuf, v) /\ pc' = [pc EXCEPT ![t] = "fpos"]
    BY Zenon, <1>2 DEF WriteFill, Goto
  <2> HIDE DEF v
  <2>2. HoldsInts(txbuf') /\ Contents(txbuf') = Contents(txbuf)
        /\ txbuf'.data[txbuf'.tpos % SERIAL_RBUFSZ] = v
    BY Zenon, <1>0, <1>2, <2>1, ContentsPutData
  <2>3. \A u \in Thread : pc'[u] = "dpos" <=> pc[u] = "dpos"
    BY Zenon, <1>1, <2>1 DEF UartInv, ThreadInv
  <2>4. Inside({"dpos"})' <=> Inside({"dpos"})
    BY Zenon, <2>3 DEF Inside
  <2>5. Contents(rxbuf)' = Contents(rxbuf) /\ Contents(txbuf)' = Contents(txbuf)
    BY Zenon, <1>1, <2>2 DEF Contents
  <2>6. RxOrder' /\ TxOrder'
    BY <1>1, <2>4, <2>5, Zenon DEF OrderInv, RxOrder, TxOrder
  <2>7. LogInv'
    <3>1. HoldsInts(rxbuf)' /\ HoldsInts(txbuf)'
      BY Zenon, <1>0, <1>1, <2>2 DEF HoldsInts, IsRbuf, Filled
    <3>2. (txbuf.data[txbuf.tpos % SERIAL_RBUFSZ] = RXMAX + Len(written))'
      BY Zenon, <1>1, <2>2 DEF v
    <3> QED BY Zenon, <1>1, <3>1, <3>2 DEF OrderInv, LogInv
  <2> QED BY <2>6, <2>7 DEF OrderInv
<1>3. CASE ~(~rbuf_full(txbuf) /\ left[t] > 0)
  <2>1. pc' = [pc EXCEPT ![t] = "wier"] /\ txbuf' = txbuf
    BY Zenon, <1>3 DEF WriteFill, Goto
  <2>2. \A u \in Thread : /\ pc'[u] = "dpos" <=> pc[u] = "dpos"
                          /\ pc'[u] = "fpos" => pc[u] = "fpos"
    BY Zenon, <1>1, <2>1 DEF UartInv, ThreadInv
  <2>3. refcnt = 0 => ier' = {}
    BY Zenon DEF WriteFill, dev, OrderInv, LogInv
  <2> QED BY Zenon, <1>0, <1>1, <2>1, <2>2, <2>3, OrderKept
<1> QED BY <1>2, <1>3

LEMMA OrderWritePos ==
  ASSUME UartInv, OrderInv, NEW t \in Thread, WritePos(t)
  PROVE  OrderInv'
<1> DEFINE v == RXMAX + Len(written)
<1>0. /\ HoldsInts(rxbuf) /\ HoldsInts(txbuf) /\ ~rbuf_full(txbuf) /\ v \in Int
      /\ written \in Seq(Int) /\ sent \in Seq(Int) /\ Contents(txbuf) \in Seq(Int)
  BY UartAssumption, ContentsIs DEF OrderInv, LogInv, UartInv, BufInv, WritePos
<1>1. /\ UNCHANGED <<refcnt, rxbuf, taken, got, sent, rbr, arrived>>
      /\ cur = t /\ pc[t] = "fpos" /\ pc' = [pc EXCEPT ![t] = "fill"]
      /\ txbuf' = put_pos(txbuf) /\ written' = Append(written, v)
  BY Zenon DEF WritePos, dev, counts, logs, Goto
<1>2. txbuf.data[txbuf.tpos % SERIAL_RBUFSZ] = v
  BY Zenon, <1>1 DEF OrderInv, LogInv
<1> HIDE DEF v
<1>3. HoldsInts(txbuf') /\ Contents(txbuf') = Append(Contents(txbuf), v)
  BY Zenon, <1>0, <1>1, <1>2, ContentsPutPos
<1>4. /\ \A u \in Thread : pc'[u] = "dpos" <=> pc[u] = "dpos"
      /\ \A u \in Thread : pc'[u] # "fpos"
  BY Zenon, <1>1 DEF UartInv, ThreadInv
<1>5. Inside({"dpos"})' <=> Inside({"dpos"})
  BY Zenon, <1>4 DEF Inside
<1>6. Contents(rxbuf)' = Contents(rxbuf) /\ Contents(txbuf)' = Append(Contents(txbuf), v)
  BY Zenon, <1>1, <1>3 DEF Contents
<1>7. RxOrder'
  BY <1>1, <1>5, <1>6, Zenon DEF OrderInv, RxOrder
<1>8. TxOrder'
  <2>1. Append(sent \o Contents(txbuf), v) = sent \o Append(Contents(txbuf), v)
    BY Zenon, <1>0, AddLast
  <2> QED BY <1>1, <1>6, <2>1, Zenon DEF OrderInv, TxOrder
<1>9. LogInv'
  <2>1. written' \in Seq(Int) /\ refcnt = 1
    BY Zenon, <1>0, <1>1, ListAppend DEF UartInv, ThreadInv
  <2> QED BY <1>1, <1>3, <1>4, <2>1 DEF OrderInv, LogInv, HoldsInts, IsRbuf, Filled
<1> QED BY Zenon, <1>7, <1>8, <1>9 DEF OrderInv

(* uart_isr, while uart_read may have delivered a byte it has yet to drop    *)
(* and uart_write stored one it has yet to show.                             *)
LEMMA OrderIsrRx ==
  ASSUME UartInv, OrderInv, UartIsr
  PROVE  HoldsInts(rxbuf') /\ taken' \in Seq(Int) /\ rbr' \in Int /\ RxOrder'
<1>0. /\ HoldsInts(rxbuf) /\ taken \in Seq(Int) /\ got \in Seq(Int) /\ rbr \in Int
      /\ Contents(rxbuf) \in Seq(Int)
  BY Zenon, ContentsIs DEF OrderInv, LogInv
<1>1. UNCHANGED <<refcnt, got, pc>> /\ (Inside({"dpos"})' <=> Inside({"dpos"}))
  BY Zenon DEF UartIsr, Inside
<1>2. CASE ~TakesByte
  <2>1. rbr' = rbr /\ rxbuf' = rxbuf /\ taken' = taken
    BY Zenon, <1>2 DEF UartIsr
  <2>2. Contents(rxbuf)' = Contents(rxbuf)
    BY Zenon, <2>1 DEF Contents
  <2>3. RxOrder'
    BY <1>1, <2>1, <2>2, Zenon DEF OrderInv, RxOrder
  <2> QED BY Zenon, <1>0, <2>1, <2>3
<1>3. CASE TakesByte
  <2>1. rbr' = NoByte /\ rxbuf' = rbuf_put(rxbuf, rbr) /\ taken' = Append(taken, rbr)
    BY Zenon, <1>3 DEF UartIsr
  <2>2. HoldsInts(rxbuf') /\ Contents(rxbuf') = Append(Contents(rxbuf), rbr)
    BY Zenon, <1>0, <1>3, <2>1, ContentsPut DEF TakesByte
  <2>3. taken' \in Seq(Int) /\ rbr' \in Int
    BY <1>0, <2>1, ListAppend DEF NoByte
  <2>4. Contents(rxbuf)' = Append(Contents(rxbuf), rbr)
    BY Zenon, <2>2 DEF Contents
  <2>5. CASE Inside({"dpos"})
    <3>1. Contents(rxbuf) # <<>>
      BY Zenon, <1>0, <2>5, EmptyContents DEF UartInv, BufInv, Inside
    <3>2. /\ Tail(Append(Contents(rxbuf), rbr)) = Append(Tail(Contents(rxbuf)), rbr)
          /\ Tail(Contents(rxbuf)) \in Seq(Int)
      BY Zenon, <1>0, <3>1, ListTailAppend, ListTail
    <3>3. Append(got \o Tail(Contents(rxbuf)), rbr) = got \o Append(Tail(Contents(rxbuf)), rbr)
      BY Zenon, <1>0, <3>2, AddLast
    <3>4. RxOrder'
      BY <1>1, <2>1, <2>4, <2>5, <3>2, <3>3, Zenon DEF OrderInv, RxOrder
    <3> QED BY Zenon, <2>2, <2>3, <3>4
  <2>6. CASE ~Inside({"dpos"})
    <3>1. Append(got \o Contents(rxbuf), rbr) = got \o Append(Contents(rxbuf), rbr)
      BY Zenon, <1>0, AddLast
    <3>2. RxOrder'
      BY <1>1, <2>1, <2>4, <2>6, <3>1, Zenon DEF OrderInv, RxOrder
    <3> QED BY <2>2, <2>3, <3>2
  <2> QED BY Zenon, <2>5, <2>6
<1> QED BY Zenon, <1>2, <1>3

LEMMA OrderIsrTx ==
  ASSUME UartInv, OrderInv, UartIsr
  PROVE  /\ HoldsInts(txbuf') /\ sent' \in Seq(Int) /\ TxOrder'
         /\ txbuf'.tpos = txbuf.tpos /\ txbuf'.data = txbuf.data
<1>0. /\ HoldsInts(txbuf) /\ sent \in Seq(Int) /\ Contents(txbuf) \in Seq(Int)
  BY Zenon, ContentsIs DEF OrderInv, LogInv
<1>1. UNCHANGED <<refcnt, written>>
  BY Zenon DEF UartIsr
<1>2. CASE ~SendsByte
  <2>1. txbuf' = txbuf /\ sent' = sent
    BY Zenon, <1>2 DEF UartIsr
  <2>2. Contents(txbuf)' = Contents(txbuf)
    BY Zenon, <2>1 DEF Contents
  <2>3. TxOrder'
    BY <1>1, <2>1, <2>2, Zenon DEF OrderInv, TxOrder
  <2> QED BY Zenon, <1>0, <2>1, <2>3
<1>3. CASE SendsByte
  <2>1. txbuf' = get_pos(txbuf) /\ sent' = Append(sent, get_data(txbuf))
    BY Zenon, <1>3 DEF UartIsr
  <2>2. /\ HoldsInts(txbuf') /\ Contents(txbuf') = Tail(Contents(txbuf))
        /\ txbuf'.tpos = txbuf.tpos /\ txbuf'.data = txbuf.data
        /\ sent' = Append(sent, Head(Contents(txbuf))) /\ Contents(txbuf) # <<>>
        /\ get_data(txbuf) \in Int
    BY Zenon, <1>0, <1>3, <2>1, ContentsGet DEF SendsByte
  <2>3. sent' \in Seq(Int)
    BY <1>0, <2>1, <2>2, ListAppend
  <2>4. Contents(txbuf)' = Tail(Contents(txbuf))
    BY Zenon, <2>2 DEF Contents
  <2>5. sent \o Contents(txbuf) = Append(sent, Head(Contents(txbuf))) \o Tail(Contents(txbuf))
    BY Zenon, <1>0, <2>2, MoveHead
  <2>6. TxOrder'
    BY <1>1, <2>2, <2>4, <2>5, Zenon DEF OrderInv, TxOrder
  <2> QED BY Zenon, <2>2, <2>3, <2>6
<1> QED BY Zenon, <1>2, <1>3

LEMMA OrderIsr ==
  ASSUME UartInv, OrderInv, UartIsr
  PROVE  OrderInv'
<1>1. HoldsInts(rxbuf') /\ taken' \in Seq(Int) /\ rbr' \in Int /\ RxOrder'
  BY Zenon, OrderIsrRx
<1>2. /\ HoldsInts(txbuf') /\ sent' \in Seq(Int) /\ TxOrder'
      /\ txbuf'.tpos = txbuf.tpos /\ txbuf'.data = txbuf.data
  BY Zenon, OrderIsrTx
<1>3. HoldsInts(rxbuf)' /\ HoldsInts(txbuf)'
  BY Zenon, <1>1, <1>2 DEF HoldsInts, IsRbuf, Filled
<1>4. refcnt = 1 /\ UNCHANGED <<refcnt, arrived, got, written, pc>>
  BY Zenon DEF UartIsr, Irq, OrderInv, LogInv, counts
<1>5. LogInv'
  BY <1>1, <1>2, <1>3, <1>4 DEF OrderInv, LogInv
<1> QED BY Zenon, <1>1, <1>2, <1>5 DEF OrderInv

LEMMA OrderStep == UartInv /\ OrderInv /\ [UartNext]_UartVars => OrderInv'
<1> SUFFICES ASSUME UartInv, OrderInv, [UartNext]_UartVars PROVE OrderInv'
  BY Zenon
<1>1. CASE RxArrive \/ TxShift \/ Quiet \/ UNCHANGED UartVars
  BY Zenon, <1>1, OrderDevice
<1>2. CASE UartOpen \/ UartClose \/ UartIsr
  BY Zenon, <1>2, OrderOpen, OrderClose, OrderIsr
<1>3. ASSUME NEW t \in Thread, Reader(t) PROVE OrderInv'
  BY Zenon, <1>3, OrderQuiet, OrderDrain, OrderReadPos DEF Reader
<1>4. ASSUME NEW t \in Thread, Writer(t) PROVE OrderInv'
  BY Zenon, <1>4, OrderQuiet, OrderFill, OrderWritePos DEF Writer
<1>5. ASSUME NEW t \in Thread, Resume(t) PROVE OrderInv'
  BY Zenon, <1>5, OrderQuiet
<1> QED BY Zenon, <1>1, <1>2, <1>3, <1>4, <1>5 DEF UartNext

LEMMA OrderInit == UartInit => OrderInv
<1> SUFFICES ASSUME UartInit PROVE OrderInv
  OBVIOUS
<1>1. LogInv
  BY InitContents, UartAssumption DEF UartInit, LogInv, NoByte
<1> QED BY <1>1 DEF UartInit, OrderInv, RxOrder, TxOrder

LEMMA OrderHolds == UartSpec => []OrderInv
<1>1. UartInit /\ [][UartNext]_UartVars => []OrderInv
  BY UartInitInv, UartNextInv, OrderInit, OrderStep, PTL
<1> QED BY <1>1, PTL DEF UartSpec

(* The ring buffers are queues for every buffer size that divides the range  *)
(* of the positions, every number of readers and writers and every stream of *)
(* bytes: nothing uart_isr receives or uart_write accepts is lost, doubled   *)
(* or reordered, although both ends work with interrupts enabled.            *)
THEOREM BytesInOrderHolds == UartSpec => []BytesInOrder
<1>1. UartInv /\ OrderInv => BytesInOrder
  BY Zenon DEF UartInv, BufInv, IsRbuf, OrderInv, RxOrder, TxOrder, BytesInOrder
<1> QED BY <1>1, UartInvHolds, OrderHolds, PTL
-----------------------------------------------------------------------------
(* The block device driver.                                                  *)

Val == Nat \cup Thread \cup {NoThread}

VioBlkTypeInv ==
  /\ vpc \in [Thread -> {"idle", "rlock", "wlock", "plock", "read", "write"}]
  /\ sector \in [Thread -> Nat]
  /\ disk \in [Sector -> Val] /\ blkbuf \in Val
  /\ asleep \subseteq Thread /\ vio_lock \in Thread \cup {NoThread}
  /\ isr \in {"off", "ack"} /\ {pending, istatus, wflag} \subseteq BOOLEAN

(* vio_lock is held by the thread in the loop of vioblk_read or vioblk_write *)
(* and only it sleeps on used_updated; while its request is in the queue it  *)
(* sleeps and no interrupt is left from before; an interrupt that is raised  *)
(* finds it asleep, or is being acknowledged.                                *)
QueueInv ==
  /\ \A t \in Thread : vpc[t] \in {"read", "write"} <=> vio_lock = t
  /\ \A t \in asleep : vio_lock = t
  /\ pending => vio_lock \in asleep /\ ~istatus /\ isr = "off"
  /\ istatus => isr = "ack" \/ vio_lock \in asleep
  /\ isr = "ack" => ~pending /\ asleep = {}

(* The request is its owner's, and what the device has answered still stands. *)
DataInv ==
  \A t \in Thread :
    /\ vpc[t] = "read" =>
         /\ request.type = "IN"
         /\ ~pending /\ status = "OK" => blkbuf = disk[request.sector]
    /\ vpc[t] = "write" =>
         /\ request.type = "OUT" /\ request.sector = sector[t]
         /\ pending => blkbuf = t
         /\ ~pending /\ status = "OK" /\ ~wflag => disk[sector[t]] = t

VioBlkInv == VioBlkTypeInv /\ QueueInv /\ DataInv

(* While only reads are in progress, the block number they share is that of  *)
(* the position, and the request is for that block.                          *)
PosInv ==
  /\ pos \in Nat /\ todo \in [Thread -> Nat] /\ {mixed, opened} \subseteq BOOLEAN
  /\ ~opened => Reading \cup Moving = {}
  /\ ~mixed /\ Reading # {} => Moving = {} /\ bufblkno = pos \div BLKSZ
  /\ \A t \in Thread : vpc[t] = "read" => request.sector = bufblkno \/ mixed
-----------------------------------------------------------------------------
LEMMA VioBlkInitInv == VioBlkInit => VioBlkInv
<1> SUFFICES ASSUME VioBlkInit PROVE VioBlkInv
  OBVIOUS
<1>1. disk \in [Sector -> Val]
  BY VioBlkAssumption DEF VioBlkInit, Val, Sector
<1>2. VioBlkTypeInv
  BY Zenon, <1>1 DEF VioBlkInit, VioBlkTypeInv, Val
<1>3. QueueInv
  BY Zenon, VioBlkAssumption DEF VioBlkInit, QueueInv
<1>4. DataInv
  BY Zenon DEF VioBlkInit, DataInv
<1> QED BY Zenon, <1>2, <1>3, <1>4 DEF VioBlkInv

(* A request is made when nobody else owns the lock and no interrupt is left. *)
LEMMA SubmitQuiet ==
  ASSUME VioBlkInv, isr = "off", NEW t \in Thread, vio_lock = NoThread \/ Awake(t)
  PROVE  /\ ~istatus /\ ~pending /\ asleep = {}
         /\ \A u \in Thread \ {t} : vpc[u] \notin {"read", "write"}
  BY VioBlkAssumption DEF VioBlkInv, VioBlkTypeInv, QueueInv, Awake

LEMMA ReadBlockInv ==
  ASSUME VioBlkInv, isr = "off", isr' = "off", NEW t \in Thread, NEW n, NEW b,
         vio_lock = NoThread \/ Awake(t), ReadBlock(t, n, b)
  PROVE  VioBlkInv'
<1>1. VioBlkTypeInv'
  BY Zenon DEF VioBlkInv, VioBlkTypeInv, ReadBlock, Submit
<1>2. QueueInv'
  BY Zenon, SubmitQuiet DEF VioBlkInv, VioBlkTypeInv, QueueInv, ReadBlock, Submit
<1>3. DataInv'
  BY Zenon, SubmitQuiet DEF VioBlkInv, VioBlkTypeInv, DataInv, ReadBlock, Submit
<1> QED BY Zenon, <1>1, <1>2, <1>3 DEF VioBlkInv

LEMMA WriteBlockInv ==
  ASSUME VioBlkInv, isr = "off", isr' = "off", NEW t \in Thread, NEW n, NEW s \in Nat,
         vio_lock = NoThread \/ Awake(t), WriteBlock(t, n, s)
  PROVE  VioBlkInv'
<1>1. VioBlkTypeInv'
  BY Zenon DEF VioBlkInv, VioBlkTypeInv, Val, WriteBlock, Submit
<1>2. QueueInv'
  BY Zenon, SubmitQuiet DEF VioBlkInv, VioBlkTypeInv, QueueInv, WriteBlock, Submit
<1>3. DataInv'
  BY Zenon, SubmitQuiet DEF VioBlkInv, VioBlkTypeInv, DataInv, WriteBlock, Submit
<1> QED BY Zenon, <1>1, <1>2, <1>3 DEF VioBlkInv

LEMMA ReturnInv ==
  ASSUME VioBlkInv, isr = "off", isr' = "off", NEW t \in Thread,
         vio_lock = NoThread \/ Awake(t), Return(t), UNCHANGED queue
  PROVE  VioBlkInv'
<1>1. VioBlkTypeInv'
  BY Zenon DEF VioBlkInv, VioBlkTypeInv, Return, queue
<1>2. QueueInv'
  BY Zenon, SubmitQuiet, VioBlkAssumption DEF VioBlkInv, VioBlkTypeInv, QueueInv, Return, queue
<1>3. DataInv'
  BY Zenon, SubmitQuiet DEF VioBlkInv, VioBlkTypeInv, DataInv, Return, queue
<1> QED BY Zenon, <1>1, <1>2, <1>3 DEF VioBlkInv

LEMMA AsksInv ==
  ASSUME VioBlkInv, isr' = isr, NEW t \in Thread, NEW n, vpc[t] = "idle",
         NEW lock \in {"rlock", "wlock", "plock"}, Asks(t, lock, n)
  PROVE  VioBlkInv'
<1>1. VioBlkTypeInv'
  BY Zenon DEF VioBlkInv, VioBlkTypeInv, Asks, queue
<1>2. QueueInv'
  BY Zenon DEF VioBlkInv, VioBlkTypeInv, QueueInv, Asks, queue
<1>3. DataInv'
  BY Zenon DEF VioBlkInv, VioBlkTypeInv, DataInv, Asks, queue
<1> QED BY Zenon, <1>1, <1>2, <1>3 DEF VioBlkInv

LEMMA QuietInv ==
  ASSUME VioBlkInv, UNCHANGED <<queue, callers, isr>>
  PROVE  VioBlkInv'
  BY Zenon DEF VioBlkInv, VioBlkTypeInv, QueueInv, DataInv, queue, callers

LEMMA DeviceInv ==
  ASSUME VioBlkInv, Device
  PROVE  VioBlkInv'
<1> USE DEF Device, callers
<1>1. VioBlkTypeInv'
  BY Zenon DEF VioBlkInv, VioBlkTypeInv
<1>2. QueueInv'
  BY Zenon DEF VioBlkInv, VioBlkTypeInv, QueueInv
<1>3. DataInv'
  BY Zenon, VioBlkAssumption DEF VioBlkInv, VioBlkTypeInv, QueueInv, DataInv
<1> QED BY Zenon, <1>1, <1>2, <1>3 DEF VioBlkInv

LEMMA IsrInv ==
  ASSUME VioBlkInv, IsrTest \/ IsrAck
  PROVE  VioBlkInv'
<1> USE DEF IsrTest, IsrAck, queue, callers
<1>1. VioBlkTypeInv'
  BY Zenon DEF VioBlkInv, VioBlkTypeInv
<1>2. QueueInv'
  BY DEF VioBlkInv, VioBlkTypeInv, QueueInv
<1>3. DataInv'
  BY DEF VioBlkInv, VioBlkTypeInv, DataInv
<1> QED BY Zenon, <1>1, <1>2, <1>3 DEF VioBlkInv

LEMMA VioBlkNextInv == VioBlkInv /\ [VioBlkNext]_VioBlkVars => VioBlkInv'
<1> SUFFICES ASSUME VioBlkInv, [VioBlkNext]_VioBlkVars PROVE VioBlkInv'
  OBVIOUS
<1>1. CASE vioblk_open
  BY Zenon, <1>1, QuietInv DEF vioblk_open
<1>2. CASE vioblk_close
  BY Zenon, <1>2, QuietInv DEF vioblk_close
<1>3. CASE Device
  BY Zenon, <1>3, DeviceInv
<1>4. CASE IsrTest \/ IsrAck
  BY Zenon, <1>4, IsrInv
<1>5. ASSUME NEW t \in Thread, NEW n \in ReadLen, vioblk_read(t, n) PROVE VioBlkInv'
  BY Zenon, <1>5, QuietInv, ReadBlockInv, AsksInv DEF vioblk_read, Calls
<1>6. ASSUME NEW t \in Thread, NEW n \in WriteLen, vioblk_write(t, n) PROVE VioBlkInv'
  BY Zenon, <1>6, QuietInv, WriteBlockInv, AsksInv DEF vioblk_write, Calls
<1>7. ASSUME NEW t \in Thread, NEW p \in Positions, vioblk_setpos(t, p) PROVE VioBlkInv'
  BY Zenon, <1>7, QuietInv, AsksInv DEF vioblk_setpos, Calls
<1>8. ASSUME NEW t \in Thread, Acquire(t) PROVE VioBlkInv'
  BY Zenon, <1>8, ReadBlockInv, WriteBlockInv, ReturnInv DEF Acquire
<1>9. ASSUME NEW t \in Thread, ReadDone(t) PROVE VioBlkInv'
  BY Zenon, <1>9, ReadBlockInv, ReturnInv DEF ReadDone, Awake
<1>10. ASSUME NEW t \in Thread, WriteDone(t) PROVE VioBlkInv'
  <2>1. sector[t] + 1 \in Nat
    BY DEF VioBlkInv, VioBlkTypeInv
  <2> QED BY Zenon, <1>10, <2>1, WriteBlockInv, ReturnInv DEF WriteDone, Awake
<1>11. CASE UNCHANGED VioBlkVars
  BY Zenon, <1>11, QuietInv DEF VioBlkVars
<1> QED
  BY Zenon, <1>1, <1>2, <1>3, <1>4, <1>5, <1>6, <1>7, <1>8, <1>9, <1>10, <1>11 DEF VioBlkNext

LEMMA InvOwnAnswer == VioBlkInv => OwnAnswer
  BY Zenon, VioBlkAssumption DEF VioBlkInv, VioBlkTypeInv, QueueInv, DataInv, OwnAnswer, Owner

(* The thread that wakes up in operation_single_blk finds its own request    *)
(* answered, whatever the number of threads and the size of the disk.        *)
THEOREM OwnAnswerHolds == VioBlkSpec => []OwnAnswer
<1>1. VioBlkInit /\ [][VioBlkNext]_VioBlkVars => []VioBlkInv
  BY VioBlkInitInv, VioBlkNextInv, PTL
<1> QED BY <1>1, InvOwnAnswer, PTL DEF VioBlkSpec
-----------------------------------------------------------------------------
LEMMA DivStep ==
  ASSUME NEW p \in Nat
  PROVE  (p + BLKSZ) \div BLKSZ = (p \div BLKSZ) + 1
  BY VioBlkAssumption, SMTT(30)

LEMMA Lengths ==
  /\ ReadLen \subseteq Nat /\ WriteLen \subseteq Nat /\ Positions \subseteq Nat
  /\ BLKSZ \in Nat /\ \A i \in Int : i % WORD \in Nat
<1>1. WORD \in Nat \ {0} /\ BLKSZ \in Nat
  BY Zenon, VioBlkAssumption
<1>2. ASSUME NEW i \in Int PROVE i % WORD \in Nat
  <2>1. i % WORD \in 0 .. WORD - 1
    BY <1>1, SMTT(30)
  <2> QED BY <1>1, <2>1
<1>3. ReadLen \cup WriteLen \cup Positions \subseteq 0 .. WORD - 1
  BY Zenon, VioBlkAssumption
<1> QED BY <1>1, <1>2, <1>3

LEMMA InitPos == VioBlkInit => PosInv
<1> SUFFICES ASSUME VioBlkInit PROVE PosInv
  OBVIOUS
<1>1. Reading = {} /\ Moving = {} /\ \A t \in Thread : vpc[t] # "read"
  BY Zenon DEF VioBlkInit, Reading, Moving
<1>2. pos \in Nat /\ todo \in [Thread -> Nat] /\ {mixed, opened} \subseteq BOOLEAN
  BY Zenon DEF VioBlkInit
<1> QED BY Zenon, <1>1, <1>2 DEF PosInv

LEMMA ReadPosInv ==
  ASSUME VioBlkInv, PosInv, NEW t \in Thread, NEW n \in ReadLen, vioblk_read(t, n)
  PROVE  PosInv'
<1> n \in Nat
  BY Zenon, Lengths
<1>1. CASE UNCHANGED <<queue, callers, mixed>>
  BY Zenon, <1>1 DEF vioblk_read, PosInv, Reading, Moving, blkdev, queue, callers
<1>2. CASE vio_lock = NoThread /\ ReadBlock(t, n, pos \div BLKSZ) /\ Overlap("read")
  BY Zenon, <1>2, SubmitQuiet DEF vioblk_read, Calls, PosInv, Reading, Moving, blkdev,
     ReadBlock, Submit, Overlap, VioBlkInv, VioBlkTypeInv
<1>3. CASE Asks(t, "rlock", n) /\ Overlap("read")
  BY Zenon, <1>3 DEF vioblk_read, Calls, PosInv, Reading, Moving, blkdev,
     Asks, Overlap, VioBlkInv, VioBlkTypeInv, queue
<1> QED BY Zenon, <1>1, <1>2, <1>3 DEF vioblk_read

LEMMA WritePosInv ==
  ASSUME VioBlkInv, PosInv, NEW t \in Thread, NEW n \in WriteLen, vioblk_write(t, n)
  PROVE  PosInv'
<1> n \in Nat
  BY Zenon, Lengths
<1>1. CASE UNCHANGED <<queue, callers, mixed>>
  BY Zenon, <1>1 DEF vioblk_write, PosInv, Reading, Moving, blkdev, queue, callers
<1>2. CASE vio_lock = NoThread /\ WriteBlock(t, n, 0) /\ Overlap("move")
  BY Zenon, <1>2, SubmitQuiet DEF vioblk_write, Calls, PosInv, Reading, Moving, blkdev,
     WriteBlock, Submit, Overlap, VioBlkInv, VioBlkTypeInv
<1>3. CASE Asks(t, "wlock", n) /\ Overlap("move")
  BY Zenon, <1>3 DEF vioblk_write, Calls, PosInv, Reading, Moving, blkdev,
     Asks, Overlap, VioBlkInv, VioBlkTypeInv, queue
<1> QED BY Zenon, <1>1, <1>2, <1>3 DEF vioblk_write

LEMMA SetposPos ==
  ASSUME VioBlkInv, PosInv, NEW t \in Thread, NEW p \in Positions, vioblk_setpos(t, p)
  PROVE  PosInv'
<1> p \in Nat
  BY Zenon, Lengths
<1>1. CASE pos' = p /\ UNCHANGED <<queue, callers>>
  BY Zenon, <1>1 DEF vioblk_setpos, PosInv, Reading, Moving, blkdev, queue, callers, Overlap
<1>2. CASE Asks(t, "plock", p) /\ UNCHANGED pos
  BY Zenon, <1>2 DEF vioblk_setpos, Calls, PosInv, Reading, Moving, blkdev,
     Asks, Overlap, VioBlkInv, VioBlkTypeInv, queue
<1> QED BY Zenon, <1>1, <1>2 DEF vioblk_setpos

LEMMA AcquirePos ==
  ASSUME VioBlkInv, PosInv, NEW t \in Thread, Acquire(t)
  PROVE  PosInv'
<1> USE DEF Acquire, PosInv, Reading, Moving, blkdev, VioBlkInv, VioBlkTypeInv
<1>1. CASE vpc[t] = "rlock"
  BY <1>1, SubmitQuiet DEF ReadBlock, Submit
<1>2. CASE vpc[t] = "wlock"
  BY <1>2, SubmitQuiet DEF WriteBlock, Submit
<1>3. CASE vpc[t] = "plock"
  BY <1>3, SubmitQuiet DEF Return, queue
<1> QED BY Zenon, <1>1, <1>2, <1>3

LEMMA ReadDonePos ==
  ASSUME VioBlkInv, PosInv, NEW t \in Thread, ReadDone(t)
  PROVE  PosInv'
<1> USE Lengths DEF ReadDone, PosInv, Reading, Moving, blkdev, VioBlkInv, VioBlkTypeInv
<1>0. isr = "off" /\ Awake(t) /\ \A u \in Thread \ {t} : vpc[u] \notin {"read", "write"}
  BY Zenon, SubmitQuiet DEF Awake
<1>1. CASE status # "OK"
  BY <1>0, <1>1 DEF Return, queue, place
<1>2. ASSUME status = "OK" PROVE bufblkno = pos \div BLKSZ => bufblkno' = pos' \div BLKSZ
  BY Zenon, <1>2, DivStep DEF Advance
<1>3. ASSUME status = "OK" PROVE pos' \in Nat /\ bufblkno' = bufblkno + 1
  BY <1>3 DEF Advance
<1>4. CASE status = "OK" /\ todo[t] > BLKSZ
  BY <1>0, <1>2, <1>3, <1>4 DEF ReadBlock, Submit
<1>5. CASE status = "OK" /\ ~(todo[t] > BLKSZ)
  BY <1>0, <1>2, <1>3, <1>5 DEF Return, queue
<1> QED BY Zenon, <1>1, <1>4, <1>5

LEMMA WriteDonePos ==
  ASSUME VioBlkInv, PosInv, NEW t \in Thread, WriteDone(t)
  PROVE  PosInv'
<1> USE Lengths DEF WriteDone, PosInv, Reading, Moving, blkdev, VioBlkInv, VioBlkTypeInv
<1> DEFINE n == (todo[t] - BLKSZ) % WORD
<1> n \in Nat
  OBVIOUS
<1> HIDE DEF n
<1>0. isr = "off" /\ Awake(t) /\ \A u \in Thread \ {t} : vpc[u] \notin {"read", "write"}
  BY Zenon, SubmitQuiet DEF Awake
<1>1. CASE status # "OK"
  BY <1>0, <1>1 DEF Return, queue, place
<1>2. CASE status = "OK" /\ n > 0
  BY SMTT(30), <1>0, <1>2 DEF n, WriteBlock, Submit
<1>3. CASE status = "OK" /\ ~(n > 0)
  BY <1>0, <1>3 DEF n, Return, queue
<1> QED BY Zenon, <1>1, <1>2, <1>3

LEMMA NextPosInv == VioBlkInv /\ PosInv /\ [VioBlkNext]_VioBlkVars => PosInv'
<1> SUFFICES ASSUME VioBlkInv, PosInv, [VioBlkNext]_VioBlkVars PROVE PosInv'
  OBVIOUS
<1>1. CASE vioblk_open
  BY Zenon, <1>1 DEF vioblk_open, PosInv, Reading, Moving, queue, callers
<1>2. CASE vioblk_close
  BY Zenon, <1>2 DEF vioblk_close, PosInv, Reading, Moving, queue, callers, place
<1>3. CASE Device \/ IsrTest \/ IsrAck \/ UNCHANGED VioBlkVars
  BY <1>3 DEF Device, IsrTest, IsrAck, VioBlkVars, PosInv, Reading, Moving, blkdev, queue, callers, place
<1> QED
  BY Zenon, <1>1, <1>2, <1>3, ReadPosInv, WritePosInv, SetposPos, AcquirePos, ReadDonePos,
     WriteDonePos DEF VioBlkNext

LEMMA PosInvReads == PosInv => ReadsFollowPos
  BY Zenon DEF PosInv, ReadsFollowPos, Reading

(* Reads that overlap only with reads ask for the sector at pos, one after    *)
(* another, whatever the number of threads that share bufblkno.               *)
THEOREM ReadsFollowPosHolds == VioBlkSpec => []ReadsFollowPos
<1>1. VioBlkInit /\ [][VioBlkNext]_VioBlkVars => []VioBlkInv
  BY VioBlkInitInv, VioBlkNextInv, PTL
<1>2. VioBlkInit /\ [][VioBlkNext]_VioBlkVars => []PosInv
  BY <1>1, InitPos, NextPosInv, PTL
<1> QED BY <1>2, PosInvReads, PTL DEF VioBlkSpec
=============================================================================
