------------------------------ MODULE BufPool -------------------------------
(***************************************************************************)
(* Buffer pools (Chapter10): buffers of one size in a list, and a          *)
(* semaphore that counts them.  Buffers are numbered in the order of their *)
(* addresses.  The first word of a buffer is the link to the next one      *)
(* while it is on the list, and the number of its pool while it is in use, *)
(* where freebuf() finds it again.                                         *)
(*                                                                         *)
(* The calls run with interrupts disabled; getbuf() may lose the processor *)
(* inside wait().  Only a buffer that is in use is given back, and once.   *)
(* A call that returns SYSERR at once is no step.                          *)
(***************************************************************************)
EXTENDS Semaphore, FiniteSetsExt

CONSTANTS
    Procs,     \* processes
    NBPOOLS,   \* entries of buftab[]
    NSEM,      \* entries of semtab[]
    HEAP,      \* buffers that getmem() has memory for
    NumBufs    \* numbers of buffers that mkbufpool() is asked for

VARIABLES
    nbpools, bpnext, bpsem,   \* buftab[]
    word,                     \* the first word of every buffer
    brk,                      \* buffers whose memory getmem() has handed out
    inuse,                    \* buffers that getbuf() returned to someone
    semtab, nextsem,
    pc,                       \* the pool for which a process is inside getbuf()
    halted                    \* a NULL pointer was followed

vars == <<nbpools, bpnext, bpsem, word, brk, inuse, semtab, nextsem, pc, halted>>

NULL == 0
Buffers == 1 .. HEAP
PoolIds == 0 .. NBPOOLS - 1
Idle == -1
PoolId(k) == [pool |-> k]
Link(b) == [next |-> b]

Waiting(p) == \E s \in DOMAIN semtab : p \in ToSet(semtab[s].queue)
-----------------------------------------------------------------------------
\* memory for n buffers, chained; if there is no semaphore for them the pool is
\* taken back, but the memory is not
mkbufpool(p, n) ==
    /\ ~halted /\ pc[p] = Idle
    /\ nbpools < NBPOOLS
    /\ brk + n <= HEAP
    /\ brk' = brk + n
    /\ bpnext' = [bpnext EXCEPT ![nbpools] = brk + 1]
    /\ \/ /\ nextsem >= NSEM
          /\ UNCHANGED <<nbpools, bpsem, word, semtab, nextsem>>
       \/ /\ nextsem < NSEM
          /\ nbpools' = nbpools + 1
          /\ bpsem' = [bpsem EXCEPT ![nbpools] = nextsem]
          /\ nextsem' = nextsem + 1
          /\ semtab' = [semtab EXCEPT ![nextsem] = NewSem(n)]
          /\ word' = [b \in Buffers |->
                        IF b \in brk + 1 .. brk + n - 1 THEN Link(b + 1)
                        ELSE IF b = brk + n THEN Link(NULL) ELSE word[b]]
    /\ UNCHANGED <<inuse, pc, halted>>

\* the end of getbuf(): the first buffer of the list
Unlink(k) ==
    LET b == bpnext[k]
    IN  \/ /\ b = NULL
           /\ halted' = TRUE
           /\ UNCHANGED <<bpnext, word, inuse>>
        \/ /\ b # NULL
           /\ bpnext' = [bpnext EXCEPT ![k] = word[b].next]
           /\ word' = [word EXCEPT ![b] = PoolId(k)]
           /\ inuse' = inuse \cup {b}
           /\ UNCHANGED halted

getbuf(p, k) ==
    LET s == bpsem[k]
    IN  /\ ~halted /\ pc[p] = Idle
        /\ k < nbpools
        /\ semtab' = [semtab EXCEPT ![s] = Waited(@, p)]
        /\ \/ /\ Blocks(semtab[s])
              /\ pc' = [pc EXCEPT ![p] = k]
              /\ UNCHANGED <<bpnext, word, inuse, halted>>
           \/ /\ ~Blocks(semtab[s])
              /\ Unlink(k)
              /\ UNCHANGED pc
        /\ UNCHANGED <<nbpools, bpsem, brk, nextsem>>

getbufGo(p) ==
    /\ ~halted /\ pc[p] # Idle /\ ~Waiting(p)
    /\ Unlink(pc[p])
    /\ pc' = [pc EXCEPT ![p] = Idle]
    /\ UNCHANGED <<nbpools, bpsem, brk, semtab, nextsem>>

\* The buffer is given the link of the list's head; the head stays as it is.
freebuf(p, b) ==
    LET k == word[b].pool
    IN  /\ ~halted /\ pc[p] = Idle
        /\ b \in inuse
        /\ word' = [word EXCEPT ![b] = Link(bpnext[k])]
        /\ inuse' = inuse \ {b}
        /\ semtab' = [semtab EXCEPT ![bpsem[k]] = Signalled(@)]
        /\ UNCHANGED <<nbpools, bpnext, bpsem, brk, nextsem, pc, halted>>

\* bufinit()
Init ==
    /\ nbpools = 0
    /\ bpnext = [k \in PoolIds |-> NULL]
    /\ bpsem = [k \in PoolIds |-> 0]
    /\ word = [b \in Buffers |-> Link(NULL)]
    /\ brk = 0
    /\ inuse = {}
    /\ semtab = [s \in 0 .. NSEM - 1 |-> NewSem(0)]
    /\ nextsem = 0
    /\ pc = [p \in Procs |-> Idle]
    /\ halted = FALSE

Next ==
    \/ \E p \in Procs, n \in NumBufs : mkbufpool(p, n)
    \/ \E p \in Procs, k \in PoolIds : getbuf(p, k)
    \/ \E p \in Procs : getbufGo(p)
    \/ \E p \in Procs, b \in Buffers : freebuf(p, b)

Spec == Init /\ [][Next]_vars
-----------------------------------------------------------------------------
\* the buffers on the list that begins at b
Chain(b) ==
    LET rest[x \in 0 .. HEAP] == IF x = NULL THEN {} ELSE {x} \cup rest[word[x].next]
    IN  rest[b]

\* The semaphore of a pool counts the buffers on its list: "Insert buffer into
\* list and signal semaphore" (freebuf.c), "Wait for pool to have > 0 buffers
\* and allocate a buffer" (getbuf.c).  A process that wait() has let through,
\* and that has not yet taken its buffer, has one coming.
SemaphoreCountsBuffers ==
    ~halted => \A k \in 0 .. nbpools - 1 :
        LET n       == semtab[bpsem[k]].count
            granted == {p \in Procs : pc[p] = k /\ ~Waiting(p)}
        IN  Cardinality(Chain(bpnext[k])) = (IF n < 0 THEN 0 ELSE n) + Cardinality(granted)
=============================================================================
