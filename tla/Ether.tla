------------------------------- MODULE Ether --------------------------------
(***************************************************************************)
(* The Ethernet driver (Chapter16): a ring of transmit descriptors and a   *)
(* ring of receive descriptors, which the device's DMA engine works on at  *)
(* the same time as ethwrite(), ethread() and the interrupt handler.  The  *)
(* bit OWN of a descriptor says that it is the engine's; the semaphore     *)
(* osem counts the transmit descriptors that are free, isem the packets    *)
(* that can be read.                                                       *)
(*                                                                         *)
(* The handler runs in the process that it interrupts; what it has still   *)
(* to do is isr[p].  It has the processor (cpu = p) until it is done or    *)
(* signaln() gives it to a process that waits.  The engine is external: it *)
(* goes round each ring, stops at a descriptor that is not its own, and    *)
(* raises an interrupt for each packet.  A packet that finds no descriptor *)
(* is lost, which is no step.                                              *)
(***************************************************************************)
EXTENDS Semaphore, FiniteSetsExt

CONSTANTS
    Procs, NullProc,           \* processes that use the network; the null process
    txRingSize, rxRingSize,
    Packets                    \* what may arrive

ASSUME EtherAssumption ==
    /\ txRingSize \in Nat \ {0} /\ rxRingSize \in Nat \ {0}
    /\ NullProc \notin Procs

VARIABLES
    txHead, txTail, txRing, osem,     \* transmit side: [own, pkt] descriptors
    rxHead, rxTail, rxRing, isem,     \* receive side
    dma,       \* the next descriptor of each ring for the engine: [tx, rx]
    sr,        \* interrupts that are pending: [ti, ri]
    isr, cpu,  \* interrupt handlers, and the one that runs, if any
    pc,        \* what a process that waits in a call has still to do
    inTx, inRx,      \* (history) descriptors written and not freed, counted and not read
    recounted        \* (history) the handler looked for packets in a ring that was full

transmitter == <<txHead, txTail, txRing, osem, inTx>>
receiver == <<rxHead, rxTail, rxRing, isem, inRx, recounted>>
handlers == <<sr, isr, cpu>>
etherVars == <<transmitter, receiver, dma, handlers, pc>>

Nobody == "nobody"
Empty == [to |-> "none"]      \* what is in a descriptor does not matter any more
Idle == [op |-> "idle"]
NoHandler == [ti |-> FALSE, tx |-> 0, ri |-> FALSE, rx |-> 0]

\* what a process is doing: where it waits for a transmit descriptor and for a
\* packet, and where interrupts are enabled
Writes == {"write", "arpwrite", "ipwrite"}
Reads == {"read", "reading"}
Enabled == {"idle", "netin", "netread", "netpkt", "ipout", "dhcpsend", "dhcprecv"}

\* in one of these calls, and let through by its semaphore
Granted(ops, sem) == {p \in Procs : pc[p].op \in ops /\ p \notin ToSet(sem.queue)}

Running(p) == cpu = Nobody /\ isr[p] = NoHandler
At(p, op) == Running(p) /\ pc[p].op = op
Then(p, f) == pc' = [pc EXCEPT ![p] = f]

\* the destination is this station's address, broadcast, or a multicast address
\* that it listens to
Accepted(pkt) == pkt.to = "us"

-----------------------------------------------------------------------------
\* ethwrite(): p has a place in the ring, or waits for one with frame f, and for
\* ever (LinkAccounted), so that nothing is left to do later
ethwrite(p, pkt) ==
    /\ ~Blocks(osem)
    /\ osem' = Waited(osem, p)
    /\ txRing' = [txRing EXCEPT ![txTail] = [own |-> TRUE, pkt |-> pkt]]
    /\ txTail' = (txTail + 1) % txRingSize
    /\ inTx' = inTx + 1
    /\ UNCHANGED txHead

ethwriteWaits(p, f) ==
    /\ Blocks(osem)
    /\ osem' = Waited(osem, p)
    /\ Then(p, f)
    /\ UNCHANGED <<txHead, txTail, txRing, inTx>>

\* ethread(): takes packets, the first without waiting if it was let through
\* (got = 1), until one is accepted, with which p goes on at next, or it has to wait.
\* In a descriptor that is the engine's there may be anything.
ethread(p, got, f, next) ==
    LET ready == got + (IF isem.count > 0 THEN isem.count ELSE 0)
        desc(i) == (rxHead + i - 1) % rxRingSize
        mine(i) == ~rxRing[desc(i)].own
    IN  \E junk \in IF \A i \in 1 .. ready : mine(i) THEN {Empty} ELSE Packets :
        LET pkt(i) == IF mine(i) THEN rxRing[desc(i)].pkt ELSE junk
            good == {i \in 1 .. ready : Accepted(pkt(i))}
            k == IF good # {} THEN Min(good) ELSE ready
            taken == {desc(i) : i \in 1 .. k}
            sem == [isem EXCEPT !.count = @ - (k - got)]
        IN  /\ rxHead' = (rxHead + k) % rxRingSize
            /\ rxRing' = [i \in DOMAIN rxRing |->
                   IF i \in taken THEN [own |-> TRUE, pkt |-> Empty] ELSE rxRing[i]]
            /\ inRx' = inRx - k
            /\ \/ good # {} /\ isem' = sem /\ Then(p, next[pkt(k)])
               \/ good = {} /\ isem' = Waited(sem, p) /\ Then(p, f)
            /\ UNCHANGED <<rxTail, recounted>>

-----------------------------------------------------------------------------
\* The DMA engine
DmaSend ==
    /\ txRing[dma.tx].own
    /\ txRing' = [txRing EXCEPT ![dma.tx] = [own |-> FALSE, pkt |-> Empty]]
    /\ dma' = [dma EXCEPT !.tx = (@ + 1) % txRingSize]
    /\ sr' = [sr EXCEPT !.ti = TRUE]
    /\ UNCHANGED <<txHead, txTail, osem, inTx, receiver, isr, cpu, pc>>

DmaReceive(pkt) ==
    /\ rxRing[dma.rx].own
    /\ rxRing' = [rxRing EXCEPT ![dma.rx] = [own |-> FALSE, pkt |-> pkt]]
    /\ dma' = [dma EXCEPT !.rx = (@ + 1) % rxRingSize]
    /\ sr' = [sr EXCEPT !.ri = TRUE]
    /\ UNCHANGED <<transmitter, rxHead, rxTail, isem, inRx, recounted, isr, cpu, pc>>

-----------------------------------------------------------------------------
\* The interrupt handler: what it found, part by part

\* the handler of p has nothing left to do, or was preempted
Step(p, h) ==
    /\ isr' = [isr EXCEPT ![p] = h]
    /\ cpu' = IF h = NoHandler THEN Nobody ELSE p

Preempted(p, h) ==
    /\ isr' = [isr EXCEPT ![p] = h]
    /\ cpu' = Nobody

\* Interrupts are disabled inside a call, also in one that waited and has not
\* gone on yet
ethhandler(p) ==
    /\ cpu = Nobody /\ isr[p] = NoHandler
    /\ p \in {NullProc} \cup {q \in Procs : pc[q].op \in Enabled}
    /\ sr.ti \/ sr.ri
    /\ Step(p, [NoHandler EXCEPT !.ti = sr.ti, !.ri = sr.ri])
    /\ sr' = [ti |-> FALSE, ri |-> FALSE]
    /\ UNCHANGED <<transmitter, receiver, dma, pc>>


\* descriptors from the head that the engine is done with; none if the ring
\* is full, because head and tail are then the same
Freed ==
    LET ring == (txTail - txHead) % txRingSize
        busy == {i \in 0 .. ring - 1 : txRing[(txHead + i) % txRingSize].own}
    IN  IF busy = {} THEN ring ELSE Min(busy)

handlerTx(p) ==
    /\ cpu = p /\ isr[p].ti
    /\ txHead' = (txHead + Freed) % txRingSize
    /\ inTx' = inTx - Freed
    /\ Step(p, [isr[p] EXCEPT !.ti = FALSE, !.tx = Freed])
    /\ UNCHANGED <<txTail, txRing, osem, receiver, dma, sr, pc>>

\* one signal; no process waits (LinkAccounted) that it could give the processor to
handlerTxSignal(p) ==
    LET h == [isr[p] EXCEPT !.tx = @ - 1]
    IN  /\ cpu = p /\ ~isr[p].ti /\ isr[p].tx > 0
        /\ osem' = Signalled(osem)
        /\ Step(p, h)
        /\ UNCHANGED <<txHead, txTail, txRing, inTx, receiver, dma, sr, pc>>

\* packets from the tail on: up to the first descriptor that is the engine's,
\* or one more than there are descriptors
Counted ==
    LET own == {i \in 0 .. rxRingSize : rxRing[(rxTail + i) % rxRingSize].own}
    IN  IF own = {} THEN rxRingSize + 1 ELSE Min(own)

handlerRx(p) ==
    /\ cpu = p /\ ~isr[p].ti /\ isr[p].tx = 0 /\ isr[p].ri
    /\ rxTail' = (rxTail + Counted) % rxRingSize
    /\ inRx' = inRx + Counted
    /\ recounted' = (recounted \/ \A i \in DOMAIN rxRing : ~rxRing[i].own)
    /\ Step(p, [isr[p] EXCEPT !.ri = FALSE, !.rx = Counted])
    /\ UNCHANGED <<transmitter, rxHead, rxRing, isem, dma, sr, pc>>

handlerRxSignal(p) ==
    LET h == [isr[p] EXCEPT !.rx = @ - 1]
    IN  /\ cpu = p /\ isr[p].rx > 0
        /\ isem' = Signalled(isem)
        /\ Step(p, h) \/ (isem.count < 0 /\ h # NoHandler /\ Preempted(p, h))
        /\ UNCHANGED <<transmitter, rxHead, rxTail, rxRing, inRx, recounted, dma, sr, pc>>

handlerGo(p) ==
    /\ cpu = Nobody /\ isr[p] # NoHandler
    /\ cpu' = p
    /\ UNCHANGED <<transmitter, receiver, dma, sr, isr, pc>>

handler(p) ==
    \/ ethhandler(p) \/ handlerGo(p)
    \/ handlerTx(p) \/ handlerTxSignal(p) \/ handlerRx(p) \/ handlerRxSignal(p)

link == DmaSend \/ (\E pkt \in Packets : DmaReceive(pkt)) \/ (\E p \in DOMAIN isr : handler(p))

\* ethinit(): the descriptors of both rings, their semaphores, and the engine
\* at the beginning of each.
EtherInit ==
    /\ txHead = 0 /\ txTail = 0 /\ rxHead = 0 /\ rxTail = 0
    /\ txRing = [i \in 0 .. txRingSize - 1 |-> [own |-> FALSE, pkt |-> Empty]]
    /\ rxRing = [i \in 0 .. rxRingSize - 1 |-> [own |-> TRUE, pkt |-> Empty]]
    /\ osem = NewSem(txRingSize) /\ isem = NewSem(0)
    /\ dma = [tx |-> 0, rx |-> 0]
    /\ sr = [ti |-> FALSE, ri |-> FALSE]
    /\ isr = [p \in Procs \cup {NullProc} |-> NoHandler] /\ cpu = Nobody
    /\ inTx = 0 /\ inRx = 0 /\ recounted = FALSE

-----------------------------------------------------------------------------
Sum(f(_)) == MapThenSumSet(f, DOMAIN isr)

\* Every transmit descriptor is free and counted by osem, or written and not
\* freed, or owed by a handler that has not made the signal yet, and none that the
\* engine has still to send is free; a process that waits for one finds all of
\* them written, which the handler takes for none, so that it is never let
\* through.  The packets that isem counts, and those that are owed, to a process
\* or by a handler, are in the descriptors from the head to the tail of the
\* receive ring, unless the handler came when the ring was full: it then counts
\* one that is not there.
LinkAccounted ==
    /\ txRingSize = osem.count + Len(osem.queue) + Sum(LAMBDA p : isr[p].tx) + inTx
    /\ (txTail - txHead) % txRingSize = inTx % txRingSize
    /\ \A i \in inTx .. txRingSize - 1 : ~txRing[(txHead + i) % txRingSize].own
    /\ osem.queue # <<>> => inTx = txRingSize
    /\ Granted(Writes, osem) = {}
    /\ inRx = isem.count + Len(isem.queue) + Cardinality(Granted(Reads, isem)) + Sum(LAMBDA p : isr[p].rx)
    /\ recounted \/ (/\ inRx \in 0 .. rxRingSize
                     /\ rxTail = (rxHead + inRx) % rxRingSize
                     /\ \A i \in 0 .. inRx - 1 : ~rxRing[(rxHead + i) % rxRingSize].own)

\* No interrupt is lost: a descriptor that the engine is done with, at the
\* head of a ring that is not full, or a packet at the tail of one that is not
\* full of packets, has an interrupt or a handler coming.
InterruptComes ==
    /\ inTx \in 1 .. txRingSize - 1 /\ ~txRing[txHead].own =>
           sr.ti \/ \E p \in DOMAIN isr : isr[p].ti
    /\ inRx < rxRingSize /\ ~recounted /\ ~rxRing[rxTail].own =>
           sr.ri \/ \E p \in DOMAIN isr : isr[p].ri
=============================================================================
