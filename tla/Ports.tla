------------------------------- MODULE Ports --------------------------------
(***************************************************************************)
(* Ports (Chapter11): bounded queues of messages between processes, each   *)
(* with two semaphores: ptssem counts the free places, ptrsem the          *)
(* messages.  The nodes of all ports come from one free list.              *)
(*                                                                         *)
(* A call runs with interrupts disabled.  It may lose the processor inside *)
(* wait(), and inside _ptclear() when dispose() or the release of waiting  *)
(* processes reschedules: what it has still to do then is pc[p].  The      *)
(* order in which processes that can run do run is left open.  Semaphores  *)
(* are those of module Semaphore; semdelete() does not free their entries. *)
(* A call that returns SYSERR at once is no step.                          *)
(***************************************************************************)
EXTENDS Semaphore, FiniteSetsExt

CONSTANTS
    Procs,     \* processes
    NPORTS,    \* entries of porttab[]
    NSEM,      \* entries of semtab[]
    MAXMSGS,   \* message nodes: the argument of ptinit()
    Counts,    \* sizes that ptcreate() is given
    MaxSeq     \* bound: no port changes its sequence number above it

ASSUME PortsAssumption ==
    /\ NPORTS \in Nat \ {0} /\ NSEM \in Nat /\ MAXMSGS \in Nat \ {0}
    /\ Counts \subseteq 0 .. 65535        \* what ptmaxcnt can hold
    /\ MaxSeq \in Nat

VARIABLES
    ptstate, ptseq, ptmaxcnt, ptssem, ptrsem,   \* porttab[]
    msgs,        \* porttab[].pthead: the messages of a port
    ptfree,      \* number of nodes on the free list
    ptnextid,
    semtab, nextsem,
    pc,          \* what a process that lost the processor has still to do
    halted       \* a panic, or a NULL pointer that was followed

ports == <<ptstate, ptseq, ptmaxcnt, ptssem, ptrsem, ptnextid>>
vars == <<ports, msgs, ptfree, semtab, nextsem, pc, halted>>

PortIds == 0 .. NPORTS - 1
SYSERR == -1

Idle == [op |-> "idle", port |-> 0, seq |-> 0]
Frame(op, i, seq) == [op |-> op, port |-> i, seq |-> seq]

Waiting(p) == \E s \in DOMAIN semtab : p \in ToSet(semtab[s].queue)

\* process p calls a port operation, or goes on inside one
Calls(p) == ~halted /\ pc[p] = Idle
GoesOn(p, op) == ~halted /\ pc[p].op = op /\ ~Waiting(p)

Then(p, f) == pc' = [pc EXCEPT ![p] = f]

-----------------------------------------------------------------------------
\* the next free port after ptnextid, and two new semaphores, if there are any
ptcreate(p, count) ==
    /\ Calls(p)
    /\ \E k \in 0 .. NPORTS - 1 :
         LET i == (ptnextid + k) % NPORTS
             s == IF nextsem < NSEM THEN nextsem ELSE SYSERR
             r == IF nextsem + 1 < NSEM THEN nextsem + 1 ELSE SYSERR
         IN  /\ ptstate[i] = "FREE"
             /\ \A j \in 0 .. k - 1 : ptstate[(ptnextid + j) % NPORTS] # "FREE"
             /\ ptseq[i] < MaxSeq
             /\ ptnextid' = (i + 1) % NPORTS
             /\ ptstate' = [ptstate EXCEPT ![i] = "ALLOC"]
             /\ ptssem' = [ptssem EXCEPT ![i] = s]
             /\ ptrsem' = [ptrsem EXCEPT ![i] = r]
             /\ nextsem' = nextsem + Cardinality({s, r} \ {SYSERR})
             /\ semtab' = [t \in DOMAIN semtab |->
                             CASE t = s -> NewSem(count) [] t = r -> NewSem(0)
                               [] OTHER -> semtab[t]]
             /\ msgs' = [msgs EXCEPT ![i] = <<>>]
             /\ ptseq' = [ptseq EXCEPT ![i] = @ + 1]
             /\ ptmaxcnt' = [ptmaxcnt EXCEPT ![i] = count % 65536]    \* uint16
    /\ UNCHANGED <<ptfree, pc, halted>>

\* (mutant) a process that comes back from wait() does not look at ptseq
StillThereNaive(i, seq) == ptstate[i] = "ALLOC"

\* the port is still the one that the call began with
StillThere(i, seq) == ptstate[i] = "ALLOC" /\ ptseq[i] = seq

\* the end of ptsend(): a node from the free list, and a signal to receivers
PutMessage(i, seq, sems) ==
    \/ /\ ptfree = 0
       /\ halted' = TRUE                                          \* panic()
       /\ semtab' = sems
       /\ UNCHANGED <<msgs, ptfree>>
    \/ /\ ptfree > 0
       /\ ptfree' = ptfree - 1
       /\ msgs' = [msgs EXCEPT ![i] = Append(@, seq)]
       /\ semtab' = [sems EXCEPT ![ptrsem[i]] = Signalled(@)]
       /\ UNCHANGED halted

\* (mutant) the node of a message that was received is not given back
TakeMessageLeak(i, sems) ==
    /\ msgs[i] # <<>>
    /\ msgs' = [msgs EXCEPT ![i] = Tail(@)]
    /\ semtab' = [sems EXCEPT ![ptssem[i]] = Signalled(@)]
    /\ UNCHANGED <<ptfree, halted>>

\* the end of ptrecv(): the node goes back, and a signal to senders
TakeMessage(i, sems) ==
    \/ /\ msgs[i] = <<>>
       /\ halted' = TRUE                                          \* pthead is NULL
       /\ semtab' = sems
       /\ UNCHANGED <<msgs, ptfree>>
    \/ /\ msgs[i] # <<>>
       /\ ptfree' = ptfree + 1
       /\ msgs' = [msgs EXCEPT ![i] = Tail(@)]
       /\ semtab' = [sems EXCEPT ![ptssem[i]] = Signalled(@)]
       /\ UNCHANGED halted

\* A message is the sequence number of its port when ptsend() was called.
ptsend(p, i) ==
    LET s == ptssem[i]
        sems == [semtab EXCEPT ![s] = Waited(@, p)]
    IN  /\ Calls(p)
        /\ ptstate[i] = "ALLOC" /\ s # SYSERR
        /\ \/ /\ Blocks(semtab[s])
              /\ semtab' = sems
              /\ Then(p, Frame("ptsend", i, ptseq[i]))
              /\ UNCHANGED <<msgs, ptfree, halted>>
           \/ /\ ~Blocks(semtab[s])
              /\ PutMessage(i, ptseq[i], sems)
              /\ UNCHANGED pc
        /\ UNCHANGED <<ports, nextsem>>

ptsendGo(p) ==
    LET i == pc[p].port
    IN  /\ GoesOn(p, "ptsend")
        /\ \/ /\ StillThere(i, pc[p].seq)
              /\ PutMessage(i, pc[p].seq, semtab)
           \/ /\ ~StillThere(i, pc[p].seq)
              /\ UNCHANGED <<msgs, ptfree, semtab, halted>>
        /\ Then(p, Idle)
        /\ UNCHANGED <<ports, nextsem>>

ptrecv(p, i) ==
    LET s == ptrsem[i]
        sems == [semtab EXCEPT ![s] = Waited(@, p)]
    IN  /\ Calls(p)
        /\ ptstate[i] = "ALLOC" /\ s # SYSERR
        /\ \/ /\ Blocks(semtab[s])
              /\ semtab' = sems
              /\ Then(p, Frame("ptrecv", i, ptseq[i]))
              /\ UNCHANGED <<msgs, ptfree, halted>>
           \/ /\ ~Blocks(semtab[s])
              /\ TakeMessage(i, sems)
              /\ UNCHANGED pc
        /\ UNCHANGED <<ports, nextsem>>

ptrecvGo(p) ==
    LET i == pc[p].port
    IN  /\ GoesOn(p, "ptrecv")
        /\ \/ /\ StillThere(i, pc[p].seq)
              /\ TakeMessage(i, semtab)
           \/ /\ ~StillThere(i, pc[p].seq)
              /\ UNCHANGED <<msgs, ptfree, semtab, halted>>
        /\ Then(p, Idle)
        /\ UNCHANGED <<ports, nextsem>>

\* _ptclear(), called by ptreset() and ptdelete(), up to its calls of dispose()
clear(p, i, op) ==
    /\ Calls(p)
    /\ ptstate[i] = "ALLOC"
    /\ ptseq[i] < MaxSeq
    /\ ptstate' = [ptstate EXCEPT ![i] = "LIMBO"]
    /\ ptseq' = [ptseq EXCEPT ![i] = @ + 1]
    /\ Then(p, Frame(op, i, 0))
    /\ UNCHANGED <<ptmaxcnt, ptssem, ptrsem, ptnextid, msgs, ptfree, semtab, nextsem, halted>>

ptreset(p, i) == clear(p, i, "ptreset")
ptdelete(p, i) == clear(p, i, "ptdelete")

\* (mutant) processes that wait on a deleted port are left waiting
ReleasedNot(s, op, n) ==
    IF s = SYSERR THEN semtab
    ELSE [semtab EXCEPT ![s] = IF op = "ptreset" THEN Reset(@, n) ELSE @]

\* semreset() or semdelete() of semaphore s
Released(s, op, n) ==
    IF s = SYSERR THEN semtab
    ELSE [semtab EXCEPT ![s] = IF op = "ptreset" THEN Reset(@, n) ELSE Deleted(@)]

\* (mutant) pthead still points to the nodes
EmptiedNot(i) == msgs

\* a port that is reset has no message; one that is deleted is not looked at
Emptied(i) == [msgs EXCEPT ![i] = <<>>]

\* _ptclear() gives the nodes back and releases the senders, then the receivers,
\* and then makes the port what ptreset() or ptdelete() want it to be
clearStep(p) ==
    /\ ~halted
    /\ pc[p].op \in {"ptreset", "ptdelete"}
    /\ LET i  == pc[p].port
           op == pc[p].op
       IN  \/ /\ pc[p].seq = 0
              /\ ptfree' = ptfree + Len(msgs[i])
              /\ msgs' = Emptied(i)
              /\ semtab' = Released(ptssem[i], op, ptmaxcnt[i])
              /\ Then(p, Frame(op, i, 1))
              /\ UNCHANGED <<ptstate, ptnextid>>
           \/ /\ pc[p].seq = 1
              /\ semtab' = Released(ptrsem[i], op, 0)
              /\ Then(p, Frame(op, i, 2))
              /\ UNCHANGED <<ptstate, ptnextid, msgs, ptfree>>
           \/ /\ pc[p].seq = 2
              /\ ptstate' = [ptstate EXCEPT ![i] = IF op = "ptreset" THEN "ALLOC" ELSE "FREE"]
              /\ ptnextid' = IF op = "ptreset" THEN ptnextid ELSE i
              /\ Then(p, Idle)
              /\ UNCHANGED <<msgs, ptfree, semtab>>
    /\ UNCHANGED <<ptseq, ptmaxcnt, ptssem, ptrsem, nextsem, halted>>

stopped == halted /\ UNCHANGED vars

\* ptinit()
Init ==
    /\ ptstate = [i \in PortIds |-> "FREE"]
    /\ ptseq = [i \in PortIds |-> 0]
    /\ ptmaxcnt = [i \in PortIds |-> 0]
    /\ ptssem = [i \in PortIds |-> 0]
    /\ ptrsem = [i \in PortIds |-> 0]
    /\ msgs = [i \in PortIds |-> <<>>]
    /\ ptfree = MAXMSGS
    /\ ptnextid = 0
    /\ semtab = [s \in 0 .. NSEM - 1 |-> NewSem(0)]
    /\ nextsem = 0
    /\ pc = [p \in Procs |-> Idle]
    /\ halted = FALSE

Continue(p) == ptsendGo(p) \/ ptrecvGo(p) \/ clearStep(p)

Next ==
    \/ \E p \in Procs : \E n \in Counts : ptcreate(p, n)
    \/ \E p \in Procs, i \in PortIds : ptsend(p, i)
    \/ \E p \in Procs, i \in PortIds : ptrecv(p, i)
    \/ \E p \in Procs, i \in PortIds : ptreset(p, i)
    \/ \E p \in Procs, i \in PortIds : ptdelete(p, i)
    \/ \E p \in Procs : ptsendGo(p)
    \/ \E p \in Procs : ptrecvGo(p)
    \/ \E p \in Procs : clearStep(p)
    \/ stopped

Spec == Init /\ [][Next]_vars

\* A process that can run inside a call does run, and dispose() returns.  No
\* process is obliged to make a call.
FairSpec == Spec /\ \A p \in Procs : WF_vars(Continue(p))
-----------------------------------------------------------------------------
(* What must hold *)

TypeOK ==
    /\ ptstate \in [PortIds -> {"FREE", "LIMBO", "ALLOC"}]
    /\ ptseq \in [PortIds -> Nat]
    /\ ptmaxcnt \in [PortIds -> Nat]
    /\ ptssem \in [PortIds -> -1 .. NSEM - 1]
    /\ ptrsem \in [PortIds -> -1 .. NSEM - 1]
    /\ msgs \in [PortIds -> Seq(Nat)]
    /\ ptfree \in 0 .. MAXMSGS
    /\ ptnextid \in PortIds
    /\ semtab \in [0 .. NSEM - 1 -> Semaphores(Procs)]
    /\ nextsem \in 0 .. NSEM
    /\ pc \in [Procs -> [op : {"idle", "ptsend", "ptrecv", "ptreset", "ptdelete"},
                         port : PortIds, seq : Nat]]
    /\ halted \in BOOLEAN

\* Every node is on the free list or in one port, so that ports that are reset
\* or deleted with messages in them lose none.
NodesConserved == ptfree + MapThenSumSet(LAMBDA i : Len(msgs[i]), PortIds) = MAXMSGS

\* If the sizes of all ports add up to no more than the number of nodes, ptsend()
\* never panics, and ptrecv() never follows a NULL pthead: what a process finds
\* after wait() is what it waited for, or it notices that the port is another.
NeverHalts == MapThenSumSet(LAMBDA i : ptmaxcnt[i], PortIds) <= MAXMSGS => ~halted

\* processes that a signal has let go on with op on port i, and have not yet
Granted(op, i) ==
    {p \in Procs : pc[p] = Frame(op, i, ptseq[i]) /\ ~Waiting(p)}

AtLeast0(n) == IF n < 0 THEN 0 ELSE n

\* The semaphores of a port in use say what is true of it, across any mixture
\* of ptsend(), ptrecv(), ptreset() and ptdelete(): the places that ptssem
\* still has, the messages, and the senders on their way are ptmaxcnt, and
\* every message is counted by ptrsem or has a receiver on its way.
SemaphoresAgree ==
    ~halted => \A i \in PortIds :
      ptstate[i] = "ALLOC" /\ ptssem[i] # SYSERR /\ ptrsem[i] # SYSERR =>
        /\ AtLeast0(semtab[ptssem[i]].count) + Len(msgs[i]) + Cardinality(Granted("ptsend", i))
             = ptmaxcnt[i]
        /\ AtLeast0(semtab[ptrsem[i]].count) + Cardinality(Granted("ptrecv", i)) = Len(msgs[i])

\* Both: nothing that the calls share out gets lost, in any order of them.
Accounted == NodesConserved /\ SemaphoresAgree

\* No message that was sent before a port was reset, or deleted and created
\* again, is in the port afterwards, although its sender may have been blocked
\* in ptsend() at that time.
NoOldMessages ==
    \A i \in PortIds : ptstate[i] = "ALLOC" => \A k \in 1 .. Len(msgs[i]) : msgs[i][k] = ptseq[i]

\* A process that is blocked on a port when it is reset or deleted gets away.
ClearReleases ==
    \A p \in Procs :
        (/\ pc[p].op \in {"ptsend", "ptrecv"}
         /\ pc[p].seq # ptseq[pc[p].port]) ~> (pc[p] = Idle \/ halted)
=============================================================================
