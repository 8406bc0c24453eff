------------------------------ MODULE Console ------------------------------
(***************************************************************************)
(* The console: the input line of kernel/console.c and the transmit ring   *)
(* of kernel/uart.c, shared by processes that read and write, by kernel    *)
(* printf and by the uart's interrupt handler.                             *)
(*                                                                         *)
(* The handler is one actor, since the PLIC gives the uart's interrupt to  *)
(* one hart until it is completed; it runs with interrupts off and is not  *)
(* itself interrupted.  The transmitter can be written by two actors at    *)
(* once, as uartputc_sync takes no lock: its test of LSR_TX_IDLE and its   *)
(* write are two steps.  Indices wrap at UINT, a multiple of both buffer   *)
(* sizes as 2^32 and 2^64 are.                                             *)
(***************************************************************************)
EXTENDS Naturals, Sequences, FiniteSetsExt

CONSTANTS Reader, Writer,  \* processes
          Text,            \* ordinary characters
          INPUT_BUF_SIZE, UART_TX_BUF_SIZE, UINT,
          TXFIFO,          \* 16: characters the transmitter takes
          Works,           \* bound: how many keys (of which), calls and kills
          ReadLens, WriteLens, PrintLens  \* bound: lengths of those calls

NL == "newline"
CR == "return"
CtrlD == "^D"
CtrlH == "^H"
CtrlP == "^P"
CtrlU == "^U"
NUL == "nul"
Echo == "echo"             \* what consputc prints, of whatever content
Stored == Text \cup {NL, CtrlD}
\* What consoleintr() tells apart.
Key == Stored \cup {CR, CtrlH, CtrlP, CtrlU, NUL}

\* cons.lock, uart_tx_lock and pr.lock.
Lock == {"cons", "uart", "pr"}
Free == "free"             \* no holder of a lock

\* What a behaviour has a bounded number of.
Limit == {"keys", "reads", "kills", "writes", "prints"}

ASSUME ConsoleAssumption ==
    /\ {INPUT_BUF_SIZE, UART_TX_BUF_SIZE} \subseteq Nat \ {0}
    /\ UINT % INPUT_BUF_SIZE = 0 /\ INPUT_BUF_SIZE < UINT
    /\ UINT % UART_TX_BUF_SIZE = 0 /\ UART_TX_BUF_SIZE < UINT
    /\ UINT \in Nat
    /\ TXFIFO \in Nat /\ TXFIFO >= 3
    /\ (Reader \cup Writer) \cap {Free, "intr", "printf"} = {}
    /\ ReadLens \cup WriteLens \cup PrintLens \subseteq Nat \ {0}
    /\ Works \subseteq [left : [Limit -> Nat], typed : SUBSET Key]

VARIABLES cons,      \* buf, r, w, e
          tx,        \* uart_tx_buf, uart_tx_r, uart_tx_w, and where uartstart is
          lock,      \* who holds cons.lock, uart_tx_lock and pr.lock
          rd, wr,    \* calls of consoleread and consolewrite
          h, pr,     \* the interrupt handler, and kernel printf
          rx, thr,   \* characters in the receiver and the transmitter
          thre,      \* the transmitter-empty interrupt is pending
          killed, work

vars == <<cons, tx, lock, rd, wr, h, pr, rx, thr, thre, killed, work>>
input == <<cons, rd, killed>>
output == <<tx, wr>>

Init ==
    /\ cons = [buf |-> [i \in 0..(INPUT_BUF_SIZE - 1) |-> NL],
               r |-> 0, w |-> 0, e |-> 0]
    /\ tx = [buf |-> [i \in 0..(UART_TX_BUF_SIZE - 1) |-> NL], r |-> 0, w |-> 0,
             pc |-> "idle"]
    /\ lock = [l \in Lock |-> Free]
    /\ rd = [p \in Reader |-> [pc |-> "idle", n |-> 0, target |-> 0]]
    /\ wr = [p \in Writer |-> [pc |-> "idle", left |-> 0]]
    /\ h = [pc |-> "idle", c |-> CtrlP, echo |-> 0]
    /\ pr = [pc |-> "idle", echo |-> 0]
    /\ rx = << >> /\ thr = << >> /\ thre = FALSE
    /\ killed = {}
    /\ work \in Works
-----------------------------------------------------------------------------
Acquire(l, a) == lock[l] = Free /\ lock' = [lock EXCEPT ![l] = a]
Release(l) == lock' = [lock EXCEPT ![l] = Free]

\* Distance between two indices, and the sum of an index and a distance.
Dist(a, b) == (b + UINT - a) % UINT
Plus(a, n) == (a + n) % UINT
-----------------------------------------------------------------------------
ReadTo(p, l) == rd' = [rd EXCEPT ![p].pc = l]

consoleread(p, n) ==
    /\ rd[p].pc = "idle" /\ p \notin killed
    /\ rd' = [rd EXCEPT ![p] = [pc |-> "acquire", n |-> n, target |-> n]]
    /\ UNCHANGED <<cons, killed, lock, tx, wr, h, pr, rx, thr, thre>>

read_acquire(p) ==
    /\ rd[p].pc = "acquire"
    /\ Acquire("cons", p)
    /\ ReadTo(p, "loop")
    /\ UNCHANGED <<cons, killed, tx, wr, h, pr, rx, thr, thre, work>>

\* Nothing to read: return -1 if killed, else go to sleep, in two steps
\* since kill() takes no lock of the console.
read_wait(p) ==
    /\ rd[p].pc = "loop" /\ cons.r = cons.w
    /\ \/ p \in killed /\ ReadTo(p, "dead") /\ Release("cons")
       \/ p \notin killed /\ ReadTo(p, "dozing") /\ UNCHANGED lock
    /\ UNCHANGED <<cons, killed, tx, wr, h, pr, rx, thr, thre, work>>

read_sleep(p) ==
    /\ rd[p].pc = "dozing"
    /\ ReadTo(p, "sleep")
    /\ Release("cons")
    /\ UNCHANGED <<cons, killed, tx, wr, h, pr, rx, thr, thre, work>>

\* One turn of the loop.  End of file after other input is saved for the next
\* read; a character whose copyout fails is gone.
read_char(p) ==
    LET c == cons.buf[cons.r % INPUT_BUF_SIZE]
        Return == ReadTo(p, "idle") /\ Release("cons")
    IN
    /\ rd[p].pc = "loop" /\ cons.r # cons.w
    /\ \/ /\ c = CtrlD
          /\ cons' = IF rd[p].n < rd[p].target THEN cons
                     ELSE [cons EXCEPT !.r = Plus(@, 1)]
          /\ Return
       \/ /\ c # CtrlD
          /\ cons' = [cons EXCEPT !.r = Plus(@, 1)]
          /\ \/ Return
             \/ /\ c # NL /\ rd[p].n > 1
                /\ rd' = [rd EXCEPT ![p].n = @ - 1]
                /\ UNCHANGED lock
    /\ UNCHANGED <<killed, tx, wr, h, pr, rx, thr, thre, work>>

kill(p) ==
    /\ rd[p].pc # "idle"       \* bound: only inside consoleread
    /\ killed' = killed \cup {p}
    /\ rd' = [rd EXCEPT ![p].pc = IF @ = "sleep" THEN "acquire" ELSE @]
    /\ UNCHANGED <<cons, lock, tx, wr, h, pr, rx, thr, thre>>
-----------------------------------------------------------------------------
\* The uart, an external device.  A read of ISR clears the transmitter's
\* interrupt unless the receiver's, of higher priority, is reported.
receive(c) ==
    /\ rx = << >>
    /\ rx' = <<c>>
    /\ UNCHANGED <<input, output, lock, h, pr, thr, thre>>

transmit ==
    /\ thr # << >>
    /\ thr' = Tail(thr)
    /\ thre' = (Tail(thr) = << >>)
    /\ UNCHANGED <<input, output, lock, h, pr, rx, work>>

ReadISR == thre' = (thre /\ rx # << >>)
WriteTHR(c) == thr' = Append(thr, c) /\ thre' = FALSE
TxIdle == thr = << >>
-----------------------------------------------------------------------------
sync_nowait(a) == a.pc = "print" /\ a.echo > 0

\* uartputc_sync, for the characters a has left to print: "wait for Transmit
\* Holding Empty to be set", then write.
sync_wait(a) == a.pc = "print" /\ a.echo > 0 /\ TxIdle

sync_put(a) == a.pc = "put" /\ WriteTHR(Echo)

Put(a) == [a EXCEPT !.pc = "print", !.echo = @ - 1]

\* Kernel printf, of n characters.
printf(n) ==
    /\ pr.pc = "idle"
    /\ Acquire("pr", "printf")
    /\ pr' = [pc |-> "print", echo |-> n]
    /\ UNCHANGED <<input, output, h, rx, thr, thre>>

printf_putc ==
    /\ \/ sync_wait(pr) /\ pr' = [pr EXCEPT !.pc = "put"] /\ UNCHANGED <<thr, thre>>
       \/ sync_put(pr) /\ pr' = Put(pr)
    /\ UNCHANGED <<input, output, lock, h, rx, work>>

printf_end ==
    /\ pr.pc = "print" /\ pr.echo = 0
    /\ pr' = [pr EXCEPT !.pc = "idle"]
    /\ Release("pr")
    /\ UNCHANGED <<input, output, h, rx, thr, thre, work>>
-----------------------------------------------------------------------------
\* A process writes n characters, each by uartputc.
consolewrite(p, n) ==
    /\ wr[p].pc = "idle"
    /\ wr' = [wr EXCEPT ![p] = [pc |-> "acquire", left |-> n]]
    /\ UNCHANGED <<input, tx, lock, h, pr, rx, thr, thre>>

putc_acquire(p) ==
    /\ wr[p].pc = "acquire"
    /\ Acquire("uart", p)
    /\ wr' = [wr EXCEPT ![p].pc = "loop"]
    /\ UNCHANGED <<input, tx, h, pr, rx, thr, thre, work>>

Full == tx.w = Plus(tx.r, UART_TX_BUF_SIZE)

putc_sleep(p) ==
    /\ wr[p].pc = "loop" /\ Full
    /\ wr' = [wr EXCEPT ![p].pc = "sleep"]
    /\ Release("uart")
    /\ UNCHANGED <<input, tx, h, pr, rx, thr, thre, work>>

uartputc(p, c) ==
    /\ wr[p].pc = "loop" /\ ~Full
    /\ tx' = [tx EXCEPT !.buf[tx.w % UART_TX_BUF_SIZE] = c, !.w = Plus(@, 1),
                        !.pc = "start"]
    /\ wr' = [wr EXCEPT ![p].pc = "start"]
    /\ UNCHANGED <<input, lock, h, pr, rx, thr, thre, work>>

\* uartstart, for the holder of uart_tx_lock.  LSR_TX_IDLE is read, then THR
\* is written.
uartstart ==
    /\ tx.pc = "start" /\ tx.w # tx.r /\ TxIdle
    /\ tx' = [tx EXCEPT !.pc = "send"]
    /\ UNCHANGED <<input, wr, lock, h, pr, rx, thr, thre, work>>

\* wr after wakeup(&uart_tx_r)
WakeWriters ==
    [p \in Writer |-> IF wr[p].pc = "sleep" THEN [wr[p] EXCEPT !.pc = "acquire"]
                      ELSE wr[p]]

start_send ==
    /\ tx.pc = "send"
    /\ tx' = [tx EXCEPT !.r = Plus(@, 1), !.pc = "start"]
    /\ wr' = WakeWriters
    /\ WriteTHR(tx.buf[tx.r % UART_TX_BUF_SIZE])
    /\ UNCHANGED <<input, lock, h, pr, rx, work>>

AckNone == UNCHANGED thre

\* "transmit buffer is empty": uartstart reads ISR.
AckEmpty == ReadISR

\* uartstart returns and its caller releases the lock: the handler is done and
\* tells the PLIC; a writer goes on, unless that was all or copyin fails.
start_return ==
    /\ tx.pc = "start"
    /\ \/ tx.w = tx.r /\ AckEmpty
       \/ tx.w # tx.r /\ ~TxIdle /\ UNCHANGED thre
    /\ tx' = [tx EXCEPT !.pc = "idle"]
    /\ Release("uart")
    /\ IF lock["uart"] = "intr"
       THEN h' = [h EXCEPT !.pc = "idle"] /\ UNCHANGED wr
       ELSE /\ UNCHANGED h
            /\ \/ wr' = [wr EXCEPT ![lock["uart"]] = [pc |-> "idle", left |-> 0]]
               \/ /\ wr[lock["uart"]].left > 1
                  /\ wr' = [wr EXCEPT ![lock["uart"]] = [pc |-> "acquire", left |-> @.left - 1]]
    /\ UNCHANGED <<input, pr, rx, thr, work>>
-----------------------------------------------------------------------------
\* devintr claims the interrupt and calls uartintr.
devintr ==
    /\ h.pc = "idle" /\ (rx # << >> \/ thre)
    /\ h' = [h EXCEPT !.pc = "getc"]
    /\ UNCHANGED <<input, output, lock, pr, rx, thr, thre, work>>

\* The loop of uartintr: a character for consoleintr, or on to the output.
uartgetc ==
    /\ h.pc = "getc"
    /\ h' = IF rx # << >> THEN [h EXCEPT !.pc = "cons", !.c = Head(rx)]
            ELSE [h EXCEPT !.pc = "uart", !.c = CtrlP]
    /\ rx' = << >>
    /\ UNCHANGED <<input, output, lock, pr, thr, thre, work>>

uartintr ==
    /\ h.pc = "uart"
    /\ Acquire("uart", "intr")
    /\ h' = [h EXCEPT !.pc = "start"]
    /\ tx' = [tx EXCEPT !.pc = "start"]
    /\ UNCHANGED <<input, wr, pr, rx, thr, thre, work>>

Line == Dist(cons.w, cons.e)
Used == Dist(cons.r, cons.e)

KillToRead == Used

\* Characters that ^U erases: back to cons.w or to a newline.
KillCount ==
    Min({k \in 0..Line : k = Line \/
            cons.buf[Plus(cons.e, UINT - k - 1) % INPUT_BUF_SIZE] = NL})

\* Characters that ^H erases.
EraseCount == IF cons.e # cons.w THEN 1 ELSE 0

Accepts(c) == c \notin {CtrlP, CtrlU, CtrlH, NUL} /\ Used < INPUT_BUF_SIZE

\* What consputc prints for key c; BACKSPACE is three characters.
EchoLength(c) ==
    CASE c = CtrlU -> 3 * KillCount
      [] c = CtrlH -> 3 * EraseCount
      [] c = CtrlP -> 0
      [] OTHER -> IF Accepts(c) THEN 1 ELSE 0

\* consoleintr acquires cons.lock and prints, ^P through procdump.
consoleintr ==
    /\ h.pc = "cons"
    /\ Acquire("cons", "intr")
    /\ h' = [h EXCEPT !.pc = IF h.c = CtrlP THEN "dump" ELSE "print",
                      !.echo = EchoLength(h.c)]
    /\ UNCHANGED <<input, output, pr, rx, thr, thre, work>>

procdump ==
    /\ h.pc = "dump"
    /\ Acquire("pr", "intr")
    /\ h' = [h EXCEPT !.pc = "print", !.echo = 1]
    /\ UNCHANGED <<input, output, pr, rx, thr, thre, work>>

procdump_end ==
    /\ h.pc = "print" /\ h.echo = 0 /\ lock["pr"] = "intr"
    /\ Release("pr")
    /\ UNCHANGED <<input, output, h, pr, rx, thr, thre, work>>

consputc ==
    /\ \/ sync_wait(h) /\ h' = [h EXCEPT !.pc = "put"] /\ UNCHANGED <<thr, thre>>
       \/ sync_put(h) /\ h' = Put(h)
    /\ UNCHANGED <<input, output, lock, pr, rx, work>>

CompletesLineOnly(c) == c \in {NL, CtrlD}

\* "a whole line (or end-of-file) has arrived", or the buffer is full
Completes(c) == c \in {NL, CtrlD} \/ Used + 1 = INPUT_BUF_SIZE

NoReaderWoken == rd

\* rd after wakeup(&cons.r)
WakeReaders ==
    [p \in Reader |-> IF rd[p].pc = "sleep" THEN [rd[p] EXCEPT !.pc = "acquire"]
                      ELSE rd[p]]

Stores(c) ==
    LET e == Plus(cons.e, 1)
        with == [cons EXCEPT !.buf[cons.e % INPUT_BUF_SIZE] = c, !.e = e]
    IN IF Completes(c)
       THEN cons' = [with EXCEPT !.w = e] /\ rd' = WakeReaders
       ELSE cons' = with /\ UNCHANGED rd

Erases(k) == cons' = [cons EXCEPT !.e = Plus(@, UINT - k)] /\ UNCHANGED rd

\* The effect of key h.c on the buffer, and release(&cons.lock).
consoleintr_end ==
    /\ h.pc = "print" /\ h.echo = 0 /\ lock["pr"] # "intr"
    /\ CASE h.c = CtrlU -> Erases(KillCount)
         [] h.c = CtrlH -> Erases(EraseCount)
         [] Accepts(h.c) -> Stores(IF h.c = CR THEN NL ELSE h.c)
         [] OTHER -> UNCHANGED <<cons, rd>>
    /\ Release("cons")
    /\ h' = [h EXCEPT !.pc = "getc", !.c = CtrlP]
    /\ UNCHANGED <<killed, output, pr, rx, thr, thre, work>>
-----------------------------------------------------------------------------
\* One of the things work allows.
Spend(what) ==
    work.left[what] > 0 /\ work' = [work EXCEPT !.left[what] = @ - 1]

Environment ==
    \/ Spend("keys") /\ \E c \in work.typed : receive(c)
    \/ Spend("reads") /\ \E p \in Reader, n \in ReadLens : consoleread(p, n)
    \/ Spend("writes") /\ \E p \in Writer, n \in WriteLens : consolewrite(p, n)
    \/ Spend("prints") /\ \E n \in PrintLens : printf(n)
    \/ Spend("kills") /\ \E p \in Reader : kill(p)

Read(p) == read_acquire(p) \/ read_wait(p) \/ read_sleep(p) \/ read_char(p)
Write(p) == putc_acquire(p) \/ putc_sleep(p) \/ \E c \in Text : uartputc(p, c)
Start == uartstart \/ start_send \/ start_return
Printing == printf_putc \/ printf_end
Handler ==
    \/ devintr \/ uartgetc \/ uartintr
    \/ consoleintr \/ procdump \/ procdump_end \/ consputc \/ consoleintr_end

\* Nothing is left to do, but for readers that wait for input.
Quiet ==
    /\ \A what \in {"keys", "writes", "prints"} : work.left[what] = 0
    /\ rx = << >> /\ thr = << >> /\ ~thre /\ tx.r = tx.w
    /\ h.pc = "idle" /\ pr.pc = "idle"
    /\ \A p \in Writer : wr[p].pc = "idle"
    /\ \A p \in Reader : rd[p].pc \in {"idle", "dead", "sleep"}
    /\ UNCHANGED vars

System ==
    \/ transmit \/ Start \/ Printing \/ Handler
    \/ \E p \in Reader : Read(p)
    \/ \E p \in Writer : Write(p)

Next == Quiet \/ Environment \/ System

Spec == Init /\ [][Next]_vars

\* The machine goes on as long as something can be done.  Nothing more is
\* needed, since the work is bounded and nothing runs in circles.
FairSpec == Spec /\ WF_vars(System)
-----------------------------------------------------------------------------
\* A reader sleeps only while there is no finished input (consoleintr wakes it
\* for a line, for end of file and for a full buffer).
ReaderMustWait ==
    lock["cons"] = Free =>
        \A p \in Reader : rd[p].pc = "sleep" => cons.r = cons.w

\* A full input buffer is a finished line, so the console never refuses keys
\* while readers wait for a newline that cannot be typed.
NeverWedged ==
    lock["cons"] = Free /\ Used = INPUT_BUF_SIZE => cons.w = cons.e

\* A writer sleeps in uartputc only while the ring is full.
WriterMustWait ==
    lock["uart"] = Free => \A p \in Writer : wr[p].pc = "sleep" => Full

\* However uartstart, the echo of keys and printf fall together, the
\* transmitter's FIFO has room for what they write (uartinit enables it).
NoOverrun == Len(thr) <= TXFIFO

Window(buf, size, a, b) ==
    [i \in 1..Dist(a, b) |-> buf[Plus(a, i - 1) % size]]

Abstract == INSTANCE Terminal
    WITH Char <- Stored, Ends <- {NL, CtrlD},
         InputRoom <- INPUT_BUF_SIZE, OutputRoom <- UART_TX_BUF_SIZE,
         ready <- Window(cons.buf, INPUT_BUF_SIZE, cons.r, cons.w),
         line <- Window(cons.buf, INPUT_BUF_SIZE, cons.w, cons.e),
         output <- Window(tx.buf, UART_TX_BUF_SIZE, tx.r, tx.w)

\* console.c and uart.c implement the terminal of module Terminal.
IsTerminal == Abstract!Spec

\* Every call of consolewrite returns, and everything written is sent.
WritesEnd == \A p \in Writer : []<>(wr[p].pc = "idle" /\ tx.r = tx.w)
=============================================================================
