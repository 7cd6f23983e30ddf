-------------------------------- MODULE Tty ---------------------------------
(***************************************************************************)
(* The terminal driver (Chapter15).  The upper half, ttywrite() and        *)
(* ttyread(), runs in processes, with interrupts disabled until it waits;  *)
(* the lower half, ttyhandler(), runs in whatever process is interrupted.  *)
(* They share two ring buffers, each with a semaphore: tyosem counts the   *)
(* free places of the output buffer, tyisem the input characters that may  *)
(* be read.  What the lower half has to echo is in a third queue.          *)
(*                                                                         *)
(* A receive interrupt defers rescheduling, so it is one step.  A transmit *)
(* interrupt does not: signaln() may give the processor to a writer that   *)
(* it lets through, and the signals that are left, pend[p], wait for the   *)
(* interrupted process p to run again.  The order in which processes that  *)
(* can run do run is left open.                                            *)
(*                                                                         *)
(* The UART is external: its transmitter is empty or busy, and an          *)
(* interrupt is raised when it runs empty, or when ttykickout() finds it   *)
(* empty; reading the cause of the interrupt takes it away.                *)
(***************************************************************************)
EXTENDS Semaphore, FiniteSetsExt

CONSTANTS
    Procs, NullProc,   \* processes that use the terminal; the null process
    TY_OBUFLEN, TY_IBUFLEN, UART_FIFO_LEN,
    UINT32,            \* number of values of a uint32
    Texts,             \* what ttywrite() is given
    ReadCounts,        \* what ttyread() is given
    Ordinary,          \* characters typed that have no meaning of their own
    MaxEcho,           \* bound: nobody types while more has to be echoed
    MaxTyped,          \* bound: nobody types while more is in the input buffer
    MaxPhantoms        \* bound: no interrupt while more was sent than written

ASSUME TtyAssumption ==
    /\ TY_OBUFLEN \in Nat \ {0} /\ TY_IBUFLEN \in Nat \ {0}
    /\ UART_FIFO_LEN \in Nat \ {0}
    /\ UINT32 \in Nat /\ UINT32 > 2 * (TY_OBUFLEN + TY_IBUFLEN)
    /\ NullProc \notin Procs
    /\ ReadCounts \subseteq Nat
    /\ Ordinary \subseteq {"x", "ctl"}
    /\ MaxEcho \in Nat /\ MaxTyped \in Nat /\ MaxPhantoms \in Nat

VARIABLES
    tyihead, tyitail, tyibuff, tyisem, tyicursor,    \* input
    tyohead, tyotail, tyosem, tyoheld,               \* output
    tyimode, tyiecho,
    echo,      \* number of characters in the echo queue
    lowmem,    \* can memory at address 0 be written (see Echo)
    uart,      \* [etbei: interrupt enabled, thre: interrupt pending, busy: sending]
    pc,        \* what a process that waits in a call has still to do
    pend,      \* signals that an interrupted process has still to make
    halted,    \* memory that is not the terminal's was written
    nout, fresh,     \* (history) characters written minus sent; places to be sent
    contended,       \* (history) a transmit interrupt came while OutputOwed > 0
    silent,          \* (history) a hold was ended and the UART not kicked since
    typed,           \* (history) what is in the input buffer
    dead,            \* (history) how many of these no signal was or will be made for
    loose            \* (history) a character was stored that may not have fitted

input  == <<tyihead, tyitail, tyibuff, tyisem, tyicursor, typed, dead, loose>>
output == <<tyohead, tyotail, tyosem, nout, fresh>>
modes  == <<tyimode, tyiecho, lowmem>>
vars == <<input, output, modes, tyoheld, echo, uart, pc, pend, halted, contended, silent>>

Forever == -1    \* a count that is never used up

Idle == [op |-> "idle", left |-> 0]
Frame(op, n) == [op |-> op, left |-> n]

Waiting(p, sem) == p \in ToSet(sem.queue)
Granted(ops, sem) == {p \in Procs : pc[p].op \in ops /\ ~Waiting(p, sem)}
Readers == {"ttyread", "ttygetc", "next"}

\* characters that tyosem does not count right: writers that were let through
\* and have not stored theirs yet, signals that are still to be made
OutputOwed ==
    Cardinality(Granted({"ttywrite"}, tyosem)) + MapThenSumSet(LAMBDA p : pend[p], DOMAIN pend)

\* a process runs outside the driver, and can be interrupted
Interruptible(p) == pend[p] = 0 /\ p \in {NullProc} \cup {q \in Procs : pc[q] = Idle}
Calls(p) == ~halted /\ pc[p] = Idle /\ pend[p] = 0
GoesOn(p, op, sem) == ~halted /\ pc[p].op = op /\ ~Waiting(p, sem)
Then(p, f) == pc' = [pc EXCEPT ![p] = f]

Least(a, b) == IF a < b THEN a ELSE b
Positive(a) == IF a > 0 THEN a ELSE 0
Places(head, n, len) == {(head + i) % len : i \in 0 .. n - 1}

ttykickout ==
    /\ uart' = [uart EXCEPT !.etbei = TRUE, !.thre = @ \/ ~uart.busy]
    /\ silent' = FALSE

-----------------------------------------------------------------------------
\* Output, upper half.  A newline is sent as two characters.
Length(text) == Len(text) + Len(SelectSeq(text, LAMBDA c : c = "nl"))

Store(k) ==
    /\ tyotail' = (tyotail + k) % TY_OBUFLEN
    /\ fresh' = fresh \cup Places(tyotail, k, TY_OBUFLEN)
    /\ nout' = nout + k

\* Process p puts n characters one by one, the first without waiting if it was
\* let through (got = 1), until it is done or has to wait
PutChars(p, n, got) ==
    LET k == Least(n, got + Positive(tyosem.count))
        sem == [tyosem EXCEPT !.count = @ - (k - got)]
    IN  /\ Store(k)
        /\ IF k > 0 THEN ttykickout ELSE UNCHANGED <<uart, silent>>
        /\ tyosem' = IF k < n THEN Waited(sem, p) ELSE sem
        /\ Then(p, IF k < n THEN Frame("ttywrite", n - k) ELSE Idle)
        /\ UNCHANGED <<tyohead, input, modes, tyoheld, echo, pend, halted, contended>>

ttywrite(p, text) == Calls(p) /\ text # <<>> /\ PutChars(p, Length(text), 0)

ttyputcGo(p) == GoesOn(p, "ttywrite", tyosem) /\ PutChars(p, pc[p].left, 1)

-----------------------------------------------------------------------------
\* Output, lower half

\* (mutant) one signal, however many characters were sent
SignalOnce(p, n) ==
    /\ tyosem' = [count |-> tyosem.count + 1, queue |-> SubSeq(tyosem.queue, 2, Len(tyosem.queue))]
    /\ UNCHANGED pend

\* signaln(): n signals, of which one that lets a process through may be the
\* last for now
SignalOut(p, n) ==
    \E j \in 1 .. n :
        /\ j = n \/ j <= Len(tyosem.queue)
        /\ tyosem' = [count |-> tyosem.count + j,
                      queue |-> SubSeq(tyosem.queue, j + 1, Len(tyosem.queue))]
        /\ pend' = [pend EXCEPT ![p] = n - j]

signalnGo(p) ==
    /\ ~halted /\ pend[p] > 0
    /\ SignalOut(p, pend[p])
    /\ UNCHANGED <<tyohead, tyotail, nout, fresh, input, modes, tyoheld, echo, uart, pc,
                   halted, contended, silent>>

\* the echo queue first, then as many characters as tyosem says were written;
\* the number is unsigned
transmit(p) ==
    LET e == Least(echo, UART_FIFO_LEN)
        avail == (TY_OBUFLEN - tyosem.count) % UINT32
        k == Least(UART_FIFO_LEN - e, avail)
    IN  /\ echo' = echo - e
        /\ tyohead' = (tyohead + k) % TY_OBUFLEN
        /\ fresh' = fresh \ Places(tyohead, k, TY_OBUFLEN)
        /\ nout' = nout - k
        /\ uart' = [uart EXCEPT !.thre = FALSE, !.busy = TRUE]
        /\ contended' = (contended \/ OutputOwed > 0)
        /\ IF k > 0 THEN SignalOut(p, k) ELSE UNCHANGED <<tyosem, pend>>
        /\ UNCHANGED tyotail

\* (mutant) interrupts are turned off when the echo queue alone is empty
NothingToSendButOutput == echo = 0

NothingToSend == echo = 0 /\ tyosem.count >= TY_OBUFLEN

\* a transmit interrupt while process p runs
ttyhandle_out(p) ==
    /\ ~halted /\ uart.thre /\ Interruptible(p)
    /\ nout >= -MaxPhantoms
    /\ \/ /\ ~tyoheld /\ ~NothingToSend
          /\ transmit(p)
       \/ /\ ~tyoheld /\ NothingToSend
          /\ uart' = [uart EXCEPT !.thre = FALSE, !.etbei = FALSE]
          /\ UNCHANGED <<echo, output, pend, contended>>
       \/ /\ tyoheld
          /\ uart' = [uart EXCEPT !.thre = FALSE]
          /\ UNCHANGED <<echo, output, pend, contended>>
    /\ UNCHANGED <<input, modes, tyoheld, pc, halted, silent>>

\* the transmitter has sent what it had
UartEmpty ==
    /\ uart.busy
    /\ uart' = [uart EXCEPT !.busy = FALSE, !.thre = uart.etbei]
    /\ UNCHANGED <<input, output, modes, tyoheld, echo, pc, pend, halted, contended, silent>>

-----------------------------------------------------------------------------
\* Input, lower half: one action for each kind of character.

\* tyehead and tyetail are never set, so the echo queue begins at address 0:
\* it works if that is memory, and is never as long as tyebuff; if not, the
\* first echo is a fault
Echo(n) ==
    \/ /\ n > 0 /\ lowmem
       /\ echo' = echo + n
       /\ ttykickout
       /\ UNCHANGED halted
    \/ /\ n > 0 /\ ~lowmem
       /\ halted' = TRUE
       /\ UNCHANGED <<echo, uart, silent>>
    \/ /\ n = 0
       /\ silent' = (silent \/ tyoheld)
       /\ UNCHANGED <<echo, uart, halted>>

EchoLen(c) == IF ~tyiecho THEN 0 ELSE IF c \in {"nl", "ctl"} THEN 2 ELSE 1
EraseLen(c) == IF ~tyiecho THEN 0 ELSE IF c = "ctl" THEN 6 ELSE 3
Bell == 1

ReadersOwed == Granted(Readers, tyisem)

\* a character goes to the end of the input buffer; fits says that it should
Insert(c, fits) ==
    /\ tyitail < TY_IBUFLEN
    /\ tyibuff' = [tyibuff EXCEPT ![tyitail] = c]
    /\ tyitail' = (tyitail + 1) % TY_IBUFLEN
    /\ typed' = Append(typed, c)
    /\ loose' = (loose \/ ~fits \/ dead > 0 \/ tyisem.count < 0 \/ ReadersOwed # {})
    /\ UNCHANGED tyihead

\* semcount() in an unsigned variable
Avail == tyisem.count % UINT32

Received ==
    /\ ~halted /\ \E p \in DOMAIN pend : Interruptible(p)
    /\ echo <= MaxEcho /\ Len(typed) <= MaxTyped
    /\ UNCHANGED <<output, modes, pc, pend, contended>>

Signals(n) == [count |-> tyisem.count + n,
               queue |-> SubSeq(tyisem.queue, n + 1, Len(tyisem.queue))]

\* raw mode: the pointer that is wrapped is that of the output buffer
RxRaw(c) ==
    /\ Received /\ tyimode = "raw"
    /\ Avail < TY_IBUFLEN /\ tyitail < TY_IBUFLEN
    /\ tyibuff' = [tyibuff EXCEPT ![tyitail] = c]
    /\ tyitail' = tyitail + 1
    /\ typed' = Append(typed, c)
    /\ loose' = (loose \/ dead > 0 \/ tyicursor > 0 \/ ReadersOwed # {})
    /\ tyisem' = Signals(1)
    /\ UNCHANGED <<tyihead, tyicursor, dead, tyoheld, echo, uart, halted, silent>>

\* so that the next character to be stored, in any mode, goes behind the buffer
RxOverrun ==
    /\ Received /\ tyitail = TY_IBUFLEN
    /\ tyimode # "cooked" => Avail < TY_IBUFLEN
    /\ halted' = TRUE
    /\ UNCHANGED <<input, tyoheld, echo, uart, silent>>

RxStart ==
    /\ Received /\ tyimode # "raw"
    /\ tyoheld' = FALSE
    /\ ttykickout
    /\ UNCHANGED <<input, echo, halted>>

RxStop ==
    /\ Received /\ tyimode # "raw"
    /\ tyoheld' = TRUE
    /\ UNCHANGED <<input, echo, uart, halted, silent>>

\* any other character ends a hold
Other(mode) == Received /\ tyimode = mode /\ tyoheld' = FALSE

\* cbreak mode: no signal is made for the character
RxBreak(c) ==
    /\ Other("cbreak")
    /\ \/ /\ Avail >= TY_IBUFLEN
          /\ Echo(Bell)
          /\ UNCHANGED input
       \/ /\ Avail < TY_IBUFLEN
          /\ Insert(c, tyicursor = 0)
          /\ dead' = dead + 1
          /\ Echo(EchoLen(c))
          /\ UNCHANGED <<tyisem, tyicursor>>

\* the line is forgotten, its characters stay
RxKill ==
    /\ Other("cooked")
    /\ tyicursor' = 0
    /\ dead' = dead + tyicursor
    /\ Echo(2)
    /\ UNCHANGED <<tyihead, tyitail, tyibuff, tyisem, typed, loose>>

\* (mutant) the cursor is not tested
RxEraseAnything ==
    /\ Other("cooked")
    /\ Len(typed) > 0
    /\ tyicursor' = tyicursor - 1
    /\ tyitail' = (tyitail - 1) % TY_IBUFLEN
    /\ typed' = SubSeq(typed, 1, Len(typed) - 1)
    /\ Echo(3)
    /\ UNCHANGED <<tyihead, tyibuff, tyisem, dead, loose>>

RxErase ==
    /\ Other("cooked")
    /\ \/ /\ tyicursor > 0
          /\ tyicursor' = tyicursor - 1
          /\ tyitail' = (tyitail - 1) % TY_IBUFLEN
          /\ typed' = SubSeq(typed, 1, Len(typed) - 1)
          /\ Echo(EraseLen(tyibuff[(tyitail - 1) % TY_IBUFLEN]))
          /\ UNCHANGED <<tyihead, tyibuff, tyisem, dead, loose>>
       \/ /\ tyicursor <= 0
          /\ Echo(0)
          /\ UNCHANGED input

\* (mutant) the newline itself is not counted
NewlineUncounted ==
    /\ Other("cooked")
    /\ Insert("nl", TRUE)
    /\ tyisem' = Signals(tyicursor)
    /\ tyicursor' = 0
    /\ Echo(EchoLen("nl"))
    /\ UNCHANGED dead

\* newline or return: the line can be read; a full buffer is not looked for
RxNewline ==
    /\ Other("cooked")
    /\ Insert("nl", tyisem.count + tyicursor < TY_IBUFLEN)
    /\ tyisem' = Signals(tyicursor + 1)
    /\ tyicursor' = 0
    /\ Echo(EchoLen("nl"))
    /\ UNCHANGED dead


InputFull == (Avail + tyicursor) % UINT32 >= TY_IBUFLEN

RxOrdinary(c) ==
    /\ Other("cooked")
    /\ \/ /\ InputFull
          /\ Echo(Bell)
          /\ UNCHANGED input
       \/ /\ ~InputFull
          /\ Insert(c, TRUE)
          /\ tyicursor' = tyicursor + 1
          /\ Echo(EchoLen(c))
          /\ UNCHANGED <<tyisem, dead>>

-----------------------------------------------------------------------------
\* Input, upper half

\* Process p takes up to n characters, the first without waiting if it was let
\* through (got = 1), up to a newline if it reads a line, until it is done or
\* has to wait
GetChars(p, op, n, got) ==
    LET ready == got + Positive(tyisem.count)
        most == IF n = Forever THEN ready ELSE Least(n, ready)
        ends == {i \in 1 .. most : op = "ttyread" /\ tyibuff[(tyihead + i - 1) % TY_IBUFLEN] = "nl"}
        k == IF ends # {} THEN Min(ends) ELSE most
        done == k = n \/ ends # {}
        sem == [tyisem EXCEPT !.count = @ - (k - got)]
    IN  /\ tyihead' = (tyihead + k) % TY_IBUFLEN
        /\ typed' = SubSeq(typed, k + 1, Len(typed))
        /\ tyisem' = IF done THEN sem ELSE Waited(sem, p)
        /\ Then(p, IF done THEN Idle ELSE Frame(op, IF n = Forever THEN n ELSE n - k))
        /\ UNCHANGED <<tyitail, tyibuff, tyicursor, dead, loose>>

Upper == UNCHANGED <<output, modes, tyoheld, echo, uart, pend, halted, contended, silent>>

\* A line, or count characters.  The first character is read before count is
\* looked at; a count of zero stands for what is there, also if readers wait
\* and that is a negative number, which is then a very large one.
ttyread(p, count) ==
    /\ Calls(p) /\ Upper
    /\ \/ /\ tyimode = "cooked"
          /\ GetChars(p, "ttyread", IF count = 0 THEN 1 ELSE count, 0)
       \/ /\ tyimode # "cooked" /\ count > 0
          /\ GetChars(p, "ttygetc", count, 0)
       \/ /\ tyimode # "cooked" /\ count = 0 /\ tyisem.count # 0
          /\ GetChars(p, "ttygetc", IF tyisem.count > 0 THEN tyisem.count ELSE Forever, 0)

ttygetcGo(p) ==
    \E op \in {"ttyread", "ttygetc"} :
        GoesOn(p, op, tyisem) /\ Upper /\ GetChars(p, op, pc[p].left, 1)

\* TC_NEXTC waits for a character and makes it available again
ttycontrolNext(p) ==
    /\ Calls(p) /\ Upper
    /\ Blocks(tyisem)
    /\ tyisem' = Waited(tyisem, p)
    /\ Then(p, Frame("next", 0))
    /\ UNCHANGED <<tyihead, tyitail, tyibuff, tyicursor, typed, dead, loose>>

ttycontrolNextGo(p) ==
    /\ GoesOn(p, "next", tyisem) /\ Upper
    /\ tyisem' = Signalled(tyisem)
    /\ Then(p, Idle)
    /\ UNCHANGED <<tyihead, tyitail, tyibuff, tyicursor, typed, dead, loose>>

ttycontrol(p) ==
    /\ Calls(p)
    /\ \/ /\ tyimode' \in {"raw", "cooked", "cbreak"}
          /\ UNCHANGED tyiecho
       \/ /\ tyiecho' \in BOOLEAN
          /\ UNCHANGED tyimode
    /\ UNCHANGED <<input, output, lowmem, tyoheld, echo, uart, pc, pend, halted, contended, silent>>

-----------------------------------------------------------------------------
\* ttyinit(), and the interrupt that it makes the UART raise
Init ==
    /\ tyihead = 0 /\ tyitail = 0 /\ tyicursor = 0
    /\ tyibuff = [i \in 0 .. TY_IBUFLEN - 1 |-> "x"]
    /\ tyisem = NewSem(0)
    /\ tyohead = 0 /\ tyotail = 0
    /\ tyosem = NewSem(TY_OBUFLEN)
    /\ tyimode = "cooked" /\ tyiecho = TRUE /\ tyoheld = FALSE
    /\ echo = 0 /\ lowmem \in BOOLEAN
    /\ uart = [etbei |-> TRUE, thre |-> TRUE, busy |-> FALSE]
    /\ pc = [p \in Procs |-> Idle]
    /\ pend = [p \in Procs \cup {NullProc} |-> 0]
    /\ halted = FALSE
    /\ nout = 0 /\ fresh = {} /\ contended = FALSE /\ silent = FALSE
    /\ typed = <<>> /\ dead = 0 /\ loose = FALSE

Upward(p) ==
    \/ \E text \in Texts : ttywrite(p, text)
    \/ ttyputcGo(p)
    \/ \E count \in ReadCounts : ttyread(p, count)
    \/ ttygetcGo(p)
    \/ ttycontrolNext(p) \/ ttycontrolNextGo(p)
    \/ ttycontrol(p)

ttyhandler ==
    \/ \E p \in Procs \cup {NullProc} : ttyhandle_out(p) \/ signalnGo(p)
    \/ \E c \in Ordinary \cup {"nl"} : RxRaw(c) \/ RxBreak(c)
    \/ \E c \in Ordinary : RxOrdinary(c)
    \/ RxOverrun \/ RxStart \/ RxStop \/ RxKill \/ RxErase \/ RxNewline

Next == (\E p \in Procs : Upward(p)) \/ ttyhandler \/ UartEmpty

Spec == Init /\ [][Next]_vars

\* interrupts that are pending are handled, the transmitter gets empty, and a
\* process that can run runs
Fairness ==
    /\ WF_vars(\E p \in DOMAIN pend : ttyhandle_out(p))
    /\ \A p \in Procs \cup {NullProc} : WF_vars(signalnGo(p))
    /\ \A p \in Procs : WF_vars(ttyputcGo(p))
    /\ WF_vars(UartEmpty)

-----------------------------------------------------------------------------
TypeOK ==
    /\ tyihead \in 0 .. TY_IBUFLEN - 1 /\ tyitail \in 0 .. TY_IBUFLEN
    /\ tyibuff \in [0 .. TY_IBUFLEN - 1 -> Ordinary \cup {"nl", "x"}]
    /\ tyisem \in Semaphores(Procs) /\ tyosem \in Semaphores(Procs)
    /\ tyohead \in 0 .. TY_OBUFLEN - 1 /\ tyotail \in 0 .. TY_OBUFLEN - 1
    /\ tyimode \in {"raw", "cooked", "cbreak"} /\ tyiecho \in BOOLEAN
    /\ uart \in [etbei : BOOLEAN, thre : BOOLEAN, busy : BOOLEAN]
    /\ pc \in [Procs -> [op : {"idle", "ttywrite"} \cup Readers, left : Int]]
    /\ pend \in [Procs \cup {NullProc} -> Nat]
    /\ typed \in Seq(Ordinary \cup {"nl"})
    /\ fresh \subseteq 0 .. TY_OBUFLEN - 1
    /\ {echo, tyicursor, dead} \subseteq Nat /\ nout \in Int
    /\ {tyoheld, lowmem, halted, contended, silent, loose} \subseteq BOOLEAN

\* The semaphores agree with the buffers at every moment: what was written and
\* not sent, and what was typed and not read, differs from what the count says
\* by the processes that were let through, the signals that are still to be
\* made, the line that is being typed, and the characters that were forgotten.
Accounted ==
    /\ nout = TY_OBUFLEN - tyosem.count - Len(tyosem.queue) - OutputOwed
    /\ Len(typed) = tyisem.count + Len(tyisem.queue) + Cardinality(ReadersOwed)
                      + tyicursor + dead

\* Until a transmit interrupt comes between a signal and the store of the
\* writer that it lets through, or between two signals of another one, the
\* characters to be sent are those from tyohead to tyotail: each is sent
\* once, in order, and none is overwritten before.
OutputExact ==
    contended \/ (nout \in 0 .. TY_OBUFLEN /\ fresh = Places(tyohead, nout, TY_OBUFLEN))

\* The input buffer holds what was typed and not erased, in order, and never
\* more than it has places, unless a character was stored that did not fit:
\* by a newline that finds the buffer full, while a reader waits or has been
\* let through and not yet taken its own, behind characters that no signal
\* was made for, or in a mode that does not count the line being typed.
InputExact ==
    loose \/ (/\ Len(typed) <= TY_IBUFLEN
              /\ \A i \in DOMAIN typed : tyibuff[(tyihead + i - 1) % TY_IBUFLEN] = typed[i])


\* Output that is not held goes on: what is left to be sent has an interrupt
\* coming, unless the hold was ended by a character that did not start the
\* UART again.
NeverStalls ==
    nout > 0 /\ ~tyoheld /\ ~halted =>
        uart.thre \/ (uart.busy /\ uart.etbei) \/ silent

\* A writer that waits gets through, unless the user holds the output, has
\* ended a hold without starting it, or types so much that the echo, which
\* goes first, fills the transmitter.
WriterReturns ==
    \A p \in Procs :
        pc[p].op = "ttywrite" ~>
            \/ pc[p] = Idle
            \/ tyoheld \/ silent \/ halted \/ echo >= UART_FIFO_LEN
=============================================================================
