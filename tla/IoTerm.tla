------------------------------- MODULE IoTerm -------------------------------
(***************************************************************************)
(* The terminal object of io.c on top of a serial port: line endings on    *)
(* input and output, and the line editor of the shell. One thread uses a   *)
(* terminal. The port gives a read at least one byte and takes all of a    *)
(* write (module Uart), and does not fail.                                 *)
(*                                                                         *)
(* Definitions marked "faulty variant" are no part of Next: each is a bug  *)
(* that one of the properties below rules out.                             *)
(***************************************************************************)
EXTENDS Integers, Sequences, SequencesExt

CONSTANTS
  Other,          \* bytes that are neither line ends nor editing keys
  MAXCHUNK,       \* bound: bytes of one read or write
  MAXIN, MAXOUT,  \* bounds: bytes read and written altogether
  GETSN           \* size of the buffer given to ioterm_getsn

ASSUME IoTermAssumption ==
  /\ {MAXCHUNK, GETSN} \subseteq Nat \ {0} /\ {MAXIN, MAXOUT} \subseteq Nat
  /\ Other \cap {"CR", "LF", "BS", "[", "BEL", " "} = {}

Typed == Other \cup {"CR", "LF", "BS", "["}      \* BS stands for DEL too
Printed == Other \cup {"CR", "LF"}
Chunks(S, k) == UNION {[1 .. n -> S] : n \in 1 .. k}
Least(a, b) == IF a <= b THEN a ELSE b

VARIABLES
  cr_in, cr_out,  \* struct io_term
  line,           \* ioterm_getsn: buf up to p
  room,           \* ioterm_getsn: n; 0 while it is not running
  typed,          \* history: bytes read from the port
  input,          \* history: bytes ioterm_read has returned
  printed,        \* history: bytes given to iowrite
  output,         \* history: bytes ioterm_write has sent to the port
  echo,           \* history: bytes the line editor has sent for this line
  split           \* history: a write began with the LF of a CR LF

inVars == <<cr_in, typed, input>>
outVars == <<cr_out, printed, output, split>>
lineVars == <<line, room, echo>>
vars == <<inVars, outVars, lineVars>>

(* ioterm_init *)
Init ==
  /\ cr_in = FALSE /\ cr_out = FALSE
  /\ line = <<>> /\ room = 0 /\ echo = <<>>
  /\ typed = <<>> /\ input = <<>> /\ printed = <<>> /\ output = <<>>
  /\ split = FALSE
-----------------------------------------------------------------------------
(* ioterm_read, one byte: what the caller gets for it, and cr_in after it.   *)
InByte(cr, ch) ==
  CASE ch = "CR" -> <<"LF">>
    [] ch = "LF" /\ cr -> <<>>
    [] OTHER -> <<ch>>
(* Faulty variant: only LF clears the flag. *)
InFlagSticky(cr, ch) == ch = "CR" \/ (cr /\ ch # "LF")
InFlag(cr, ch) == ch = "CR"

FixIn(cr, chunk) ==
  FoldLeft(LAMBDA acc, ch : [got |-> acc.got \o InByte(acc.cr, ch), cr |-> InFlag(acc.cr, ch)],
           [got |-> <<>>, cr |-> cr], chunk)

(* One round of the loop of ioterm_read: it returns as soon as a chunk       *)
(* leaves something.                                                         *)
Take(chunk) ==
  /\ Len(typed) + Len(chunk) <= MAXIN
  /\ typed' = typed \o chunk
  /\ input' = input \o FixIn(cr_in, chunk).got

ioterm_read(chunk) ==
  /\ room = 0 /\ Take(chunk)
  /\ cr_in' = FixIn(cr_in, chunk).cr
  /\ UNCHANGED <<outVars, lineVars>>
-----------------------------------------------------------------------------
(* ioterm_getsn is called with a buffer of GETSN bytes. *)
ioterm_getsn ==
  /\ room = 0
  /\ room' = GETSN /\ line' = <<>> /\ echo' = <<>>
  /\ UNCHANGED <<inVars, outVars>>

Say(s) == echo' = echo \o s

(* The editor's answer to a character. A line end finishes the line.         *)
(* Faulty variant: the cursor stays behind the blank. *)
RuboutShort == <<"BS", " ">>
Rubout == <<"BS", " ", "BS">>
EditLine(c) ==
  CASE c = "[" -> UNCHANGED lineVars
    [] c = "LF" -> room' = 0 /\ Say(<<"CR", "LF">>) /\ UNCHANGED line
    [] c = "BS" /\ line # <<>> -> line' = Front(line) /\ room' = room + 1 /\ Say(Rubout)
    [] (c = "BS" /\ line = <<>>) \/ (c \in Other /\ room <= 1) ->
         Say(<<"BEL">>) /\ UNCHANGED <<line, room>>
    [] OTHER -> line' = Append(line, c) /\ room' = room - 1 /\ Say(<<c>>)

(* iogetc reads a byte of the terminal, again if it was the LF of a CR LF.   *)
GetsnByte(ch) ==
  LET got == InByte(cr_in, ch)
  IN /\ room > 0 /\ Take(<<ch>>)
     /\ cr_in' = InFlag(cr_in, ch)
     /\ IF got = <<>> THEN UNCHANGED lineVars ELSE EditLine(got[1])
     /\ UNCHANGED outVars
-----------------------------------------------------------------------------
(* ioterm_write, as a loop over the buffer. s: rp and wp as counts of bytes  *)
(* passed, sent, acc and cr_out.                                             *)
Sent(s, buf, upto) ==      \* iowrite(rawio, wp, ...) of the bytes up to upto
  [s EXCEPT !.out = @ \o SubSeq(buf, s.wp + 1, upto), !.acc = @ + (upto - s.wp), !.wp = upto]
Added(s, ch) == [s EXCEPT !.out = Append(@, ch)]
Skipped(s) == [s EXCEPT !.cr = FALSE, !.wp = @ + 1]

Scan(s, buf) ==
  LET k == s.rp + 1
      n == [s EXCEPT !.rp = k]
  IN CASE buf[k] = "CR" /\ k < Len(buf) /\ buf[Least(k + 1, Len(buf))] = "LF" ->
            [n EXCEPT !.rp = k + 1, !.cr = FALSE]
       [] buf[k] = "CR" /\ ~(k < Len(buf) /\ buf[Least(k + 1, Len(buf))] = "LF") ->
            [Added(Sent(n, buf, k), "LF") EXCEPT !.cr = TRUE]
       [] buf[k] = "LF" /\ s.cr -> Skipped(n)
       [] buf[k] = "LF" /\ ~s.cr -> Added(Sent(n, buf, k - 1), "CR")
       [] OTHER -> [n EXCEPT !.cr = FALSE]

RECURSIVE Scanned(_, _)
Scanned(s, buf) == IF s.rp < Len(buf) THEN Scanned(Scan(s, buf), buf) ELSE s

ioterm_write(cr, buf) ==
  LET s == Scanned([rp |-> 0, wp |-> 0, acc |-> 0, cr |-> cr, out |-> <<>>], buf)
  IN Sent(s, buf, Len(buf))

(* iowrite on the terminal: again with what acc says is left, until nothing  *)
(* is, or a call returns 0.                                                  *)
RECURSIVE Rounds(_, _, _)
Rounds(cr, buf, acc) ==
  LET r == ioterm_write(cr, SubSeq(buf, acc + 1, Len(buf)))
      rest == Rounds(r.cr, buf, acc + r.acc)
  IN IF r.acc = 0 \/ acc + r.acc >= Len(buf) THEN [out |-> r.out, cr |-> r.cr]
     ELSE [out |-> r.out \o rest.out, cr |-> rest.cr]

iowrite(buf) ==
  /\ room = 0 /\ Len(printed) + Len(buf) <= MAXOUT
  /\ printed' = printed \o buf
  /\ output' = output \o Rounds(cr_out, buf, 0).out
  /\ cr_out' = Rounds(cr_out, buf, 0).cr
  /\ split' = (split \/ (cr_out /\ buf[1] = "LF"))
  /\ UNCHANGED <<inVars, lineVars>>

Next ==
  \/ \E chunk \in Chunks(Typed, MAXCHUNK) : ioterm_read(chunk)
  \/ ioterm_getsn
  \/ \E ch \in Typed : GetsnByte(ch)
  \/ \E buf \in Chunks(Printed, MAXCHUNK) : iowrite(buf)

Spec == Init /\ [][Next]_vars
-----------------------------------------------------------------------------
(* What the comment of ioterm_init asks for, as functions of the whole       *)
(* stream: a byte's image depends on the byte and on the one before it.      *)
AfterCR(s, k) == k > 1 /\ s[k - 1] = "CR"
Images(s, image(_)) == FlattenSeq([k \in 1 .. Len(s) |-> image(k)])

NormalIn(s) ==
  Images(s, LAMBDA k : CASE s[k] = "CR" -> <<"LF">>
                         [] s[k] = "LF" /\ AfterCR(s, k) -> <<>>
                         [] OTHER -> <<s[k]>>)
NormalOut(s) ==
  Images(s, LAMBDA k : CASE s[k] = "CR" -> <<"CR", "LF">>
                         [] s[k] = "LF" -> IF AfterCR(s, k) THEN <<>> ELSE <<"CR", "LF">>
                         [] OTHER -> <<s[k]>>)

(* However the port cuts the input into chunks and the program its output     *)
(* into writes, the terminal delivers the input with every line end as one LF *)
(* and sends the output with every line end as CR LF, each byte once. For     *)
(* output this holds up to the first write that begins with the LF of a       *)
(* CR LF: ioterm_write does not count the LF it drops, so that its caller     *)
(* sends the last byte again or takes the write for failed.                   *)
LineEndsNormal ==
  /\ input = NormalIn(typed)
  /\ ~split => output = NormalOut(printed)

(* What is on a screen that has shown s: BS moves the cursor back, other      *)
(* characters overwrite.                                                      *)
Screen(s) ==
  FoldLeft(LAMBDA scr, ch :
             CASE ch = "BS" -> [scr EXCEPT !.at = @ - 1]
               [] ch \in {"BEL", "CR", "LF"} -> scr
               [] OTHER -> [at |-> scr.at + 1,
                            text |-> SubSeq(scr.text, 1, scr.at) \o <<ch>>
                                     \o SubSeq(scr.text, scr.at + 2, Len(scr.text))],
           [at |-> 0, text |-> <<>>], s)

(* The line editor keeps to its buffer, with a byte left for the terminating  *)
(* zero, and the screen shows what is in it: after any typing and erasing,    *)
(* also beyond the limit, the text before the cursor is the line, followed by *)
(* blanks only.                                                               *)
ScreenShowsLine ==
  LET scr == Screen(echo)
  IN /\ Len(line) < GETSN
     /\ room > 0 => room + Len(line) = GETSN
     /\ scr.at = Len(line) /\ SubSeq(scr.text, 1, scr.at) = line
     /\ \A k \in scr.at + 1 .. Len(scr.text) : scr.text[k] = " "
=============================================================================
