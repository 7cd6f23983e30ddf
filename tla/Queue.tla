------------------------------- MODULE Queue --------------------------------
(***************************************************************************)
(* queuetab[] and its operations (Chapter4; insertd() and unsleep() of     *)
(* Chapter13), at the level of the links.  An entry below NPROC is that of *)
(* a process and serves whatever list the process is on; the entries above *)
(* are heads and tails, two per list.                                      *)
(*                                                                         *)
(* The code does not know which list a process is on, its callers do (from *)
(* prstate): on[p] is what they know.  The lists are those that sysinit()  *)
(* and clkinit() make, and each is used with the operations that the       *)
(* kernel uses on it.  A call that returns SYSERR or EMPTY is no step.     *)
(***************************************************************************)
EXTENDS Lists

CONSTANTS
    NPROC,    \* processes
    NSEM,     \* semaphores
    MAXKEY,   \* largest key
    Prios,    \* keys that insert() is given
    Delays    \* keys that insertd() is given

ASSUME QueueAssumption ==
    /\ NPROC \in Nat \ {0}
    /\ NSEM \in Nat
    /\ MAXKEY \in Nat
    /\ Prios \subseteq 1 .. MAXKEY
    /\ Delays \subseteq 0 .. MAXKEY

VARIABLES queuetab, nextqid, on

vars == <<queuetab, nextqid, on>>

Pids   == 0 .. NPROC - 1
NQENT  == NPROC + 4 + NSEM + NSEM
EMPTY  == -1
MINKEY == -(MAXKEY + 1)

queuehead(q) == q
queuetail(q) == q + 1
firstid(q)   == queuetab[queuehead(q)].qnext
isempty(q)   == firstid(q) >= NPROC

\* sysinit() makes a list per semaphore, then the ready list, and clkinit()
\* then makes sleepq
Lasts     == NPROC + 2 * (NSEM + 2)
SemQueues == {NPROC + 2 * i : i \in 0 .. NSEM - 1}
readylist == NPROC + 2 * NSEM
sleepq    == readylist + 2
Booted    == nextqid = Lasts

-----------------------------------------------------------------------------
\* (mutant) the link back from the next entry is forgotten
LinkedHalf(tab, p, prev, next, key) ==
    [tab EXCEPT ![p] = [qkey |-> key, qnext |-> next, qprev |-> prev],
                ![prev].qnext = p]

\* p goes between prev and next
Linked(tab, p, prev, next, key) ==
    [tab EXCEPT ![p] = [qkey |-> key, qnext |-> next, qprev |-> prev],
                ![prev].qnext = p,
                ![next].qprev = p]

\* getitem(): p's neighbours are linked to each other; p keeps its links
Unlinked(tab, p) ==
    LET next == tab[p].qnext
        prev == tab[p].qprev
    IN  [tab EXCEPT ![prev].qnext = next, ![next].qprev = prev]

\* (mutant) the keys of the head and the tail are left as they are
newqueueKeyless ==
    LET q == nextqid
    IN  /\ ~Booted
        /\ nextqid' = nextqid + 2
        /\ queuetab' = [queuetab EXCEPT
             ![queuehead(q)].qnext = queuetail(q), ![queuehead(q)].qprev = EMPTY,
             ![queuetail(q)].qnext = EMPTY, ![queuetail(q)].qprev = queuehead(q)]
        /\ UNCHANGED on

newqueue ==
    LET q == nextqid
    IN  /\ ~Booted
        /\ q <= NQENT
        /\ nextqid' = nextqid + 2
        /\ queuetab' = [queuetab EXCEPT
             ![queuehead(q)] = [qkey |-> MAXKEY, qnext |-> queuetail(q), qprev |-> EMPTY],
             ![queuetail(q)] = [qkey |-> MINKEY, qnext |-> EMPTY, qprev |-> queuehead(q)]]
        /\ UNCHANGED on

\* the caller puts p, which is on no list, onto q
PutOn(p, q) == /\ Booted
               /\ on[p] = EMPTY
               /\ on' = [on EXCEPT ![p] = q]
               /\ UNCHANGED nextqid

TakeOff(p) == /\ on' = [on EXCEPT ![p] = EMPTY]
              /\ UNCHANGED nextqid

enqueue(p, q) ==
    LET tail == queuetail(q)
    IN  /\ PutOn(p, q)
        /\ queuetab' = Linked(queuetab, p, queuetab[tail].qprev, tail, queuetab[p].qkey)

\* getfirst(): the entry keeps its links
getfirst(q) ==
    /\ Booted
    /\ ~isempty(q)
    /\ queuetab' = Unlinked(queuetab, firstid(q))
    /\ TakeOff(firstid(q))

getlast(q) ==
    LET last == queuetab[queuetail(q)].qprev
    IN  /\ Booted
        /\ ~isempty(q)
        /\ queuetab' = Unlinked(queuetab, last)
        /\ TakeOff(last)

dequeue(q) ==
    /\ Booted
    /\ ~isempty(q)
    /\ queuetab' = [Unlinked(queuetab, firstid(q)) EXCEPT ![firstid(q)].qprev = EMPTY,
                                                          ![firstid(q)].qnext = EMPTY]
    /\ TakeOff(firstid(q))

getitem(p) ==
    /\ on[p] \in SemQueues \union {readylist}
    /\ queuetab' = Unlinked(queuetab, p)
    /\ TakeOff(p)

\* the n-th entry behind the head of q; no search goes on behind the tail
Walk(q) ==
    LET w[n \in 0 .. NPROC + 1] ==
          IF n = 0 THEN queuehead(q)
          ELSE IF w[n - 1] = queuetail(q) THEN queuetail(q) ELSE queuetab[w[n - 1]].qnext
    IN  w

\* (mutant) the search stops at an entry with the same key
insertEager(p, q, key) ==
    LET w == Walk(q)
    IN  /\ PutOn(p, q)
        /\ \E n \in 1 .. NPROC + 1 :
             /\ \A j \in 1 .. n - 1 : queuetab[w[j]].qkey > key
             /\ queuetab[w[n]].qkey <= key
             /\ queuetab' = Linked(queuetab, p, queuetab[w[n]].qprev, w[n], key)

\* the search ends at the first key below key, at the latest at the tail's
insert(p, q, key) ==
    LET w == Walk(q)
    IN  /\ PutOn(p, q)
        /\ \E n \in 1 .. NPROC + 1 :
             /\ \A j \in 1 .. n - 1 : queuetab[w[j]].qkey >= key
             /\ queuetab[w[n]].qkey < key
             /\ queuetab' = Linked(queuetab, p, queuetab[w[n]].qprev, w[n], key)

\* what is left of key after the entries in front of the n-th of w
Rest(w, key) ==
    LET r[n \in 1 .. NPROC + 1] ==
          IF n = 1 THEN key ELSE r[n - 1] - queuetab[w[n - 1]].qkey
    IN  r

insertd(p, q, key) ==
    LET w == Walk(q)
        r == Rest(w, key)
        GoesOn(n) == w[n] # queuetail(q) /\ queuetab[w[n]].qkey <= r[n]
    IN  /\ PutOn(p, q)
        /\ \E n \in 1 .. NPROC + 1 :
             LET tab == Linked(queuetab, p, w[n - 1], w[n], r[n])
             IN  /\ \A j \in 1 .. n - 1 : GoesOn(j)
                 /\ ~GoesOn(n)
                 /\ queuetab' = IF w[n] # queuetail(q)
                                THEN [tab EXCEPT ![w[n]].qkey = @ - r[n]] ELSE tab

unsleep(p) ==
    LET next == queuetab[p].qnext
        tab  == IF next < NPROC
                THEN [queuetab EXCEPT ![next].qkey = @ + queuetab[p].qkey] ELSE queuetab
    IN  /\ on[p] = sleepq
        /\ queuetab' = Unlinked(tab, p)
        /\ TakeOff(p)

\* clkhandler() counts the first key down; wakeup() does not leave an entry
\* with a key of 0 or less on the list
tick ==
    /\ Booted
    /\ ~isempty(sleepq)
    /\ queuetab[firstid(sleepq)].qkey >= 0
    /\ queuetab' = [queuetab EXCEPT ![firstid(sleepq)].qkey = @ - 1]
    /\ UNCHANGED <<nextqid, on>>

\* queuetab[] is static: all zero
Init ==
    /\ queuetab = [i \in 0 .. NQENT - 1 |-> [qkey |-> 0, qnext |-> 0, qprev |-> 0]]
    /\ nextqid = NPROC
    /\ on = [p \in Pids |-> EMPTY]

Next ==
    \/ newqueue
    \/ \E p \in Pids, q \in SemQueues : enqueue(p, q)
    \/ \E q \in SemQueues : getfirst(q)
    \/ \E q \in SemQueues : getlast(q)
    \/ \E q \in SemQueues \union {readylist, sleepq} : dequeue(q)
    \/ \E p \in Pids : getitem(p)
    \/ \E p \in Pids, k \in Prios : insert(p, readylist, k)
    \/ \E p \in Pids, k \in Delays : insertd(p, sleepq, k)
    \/ \E p \in Pids : unsleep(p)
    \/ tick

Spec == Init /\ [][Next]_vars
-----------------------------------------------------------------------------
(* What must hold *)

Links == -1 .. NQENT - 1

\* Links stay inside queuetab[], and heads and tails keep the keys that end
\* the search of insert().
TypeOK ==
    /\ queuetab \in [0 .. NQENT - 1 -> [qkey : Int, qnext : Links, qprev : Links]]
    /\ nextqid \in NPROC .. Lasts
    /\ on \in [Pids -> SemQueues \union {readylist, sleepq, EMPTY}]
    /\ \A i \in NPROC .. nextqid - 1 :
         queuetab[i].qkey = IF (i - NPROC) % 2 = 0 THEN MAXKEY ELSE MINKEY

\* the entries that the links lead to from the head of q, up to its tail
Forward(q) ==
    LET w    == Walk(q)
        ends == {n \in 1 .. NPROC + 1 : w[n] = queuetail(q)}
    IN  IF ends = {} THEN <<>> ELSE [i \in 1 .. (CHOOSE n \in ends : \A m \in ends : n <= m) - 1 |-> w[i]]

\* The lists are doubly linked and disjoint: the entries from the head of a list
\* to its tail are the processes that were put on it and not taken off, each
\* once, and the links back lead through the same entries, although a process
\* that was taken off keeps its links into the list.
WellLinked ==
    Booted => \A q \in SemQueues \union {readylist, sleepq} :
        LET line == <<queuehead(q)>> \o Forward(q) \o <<queuetail(q)>>
        IN  /\ IsListOf(Forward(q), {p \in Pids : on[p] = q})
            /\ \A i \in 1 .. Len(line) - 1 : /\ queuetab[line[i]].qnext = line[i + 1]
                                             /\ queuetab[line[i + 1]].qprev = line[i]

\* The lists as sequences: what the rest of the kernel sees.
Abstract == INSTANCE QueueSpec WITH
    Procs  <- Pids,
    Fifos  <- SemQueues,
    Sorted <- {readylist},
    Deltas <- {sleepq},
    list   <- [q \in SemQueues \union {readylist, sleepq} |->
                 IF Booted THEN Forward(q) ELSE <<>>],
    key    <- [p \in Pids |-> queuetab[p].qkey]

\* Every list operation on the links is the operation on sequences that module
\* Kernel takes it for: insert() is stable, insertd() and unsleep() keep the
\* sums of the delta list, and a list that is not operated on does not change.
ImplementsLists == Abstract!Spec
=============================================================================
