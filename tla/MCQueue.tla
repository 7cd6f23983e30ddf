------------------------------ MODULE MCQueue -------------------------------
(* Module Queue for TLC: all constants are in the .cfg file. *)
EXTENDS Queue

\* What later steps can see of a state: the links and the key that a process
\* on no list still has are overwritten before they are followed, and so is the
\* key of a process that waits in a list without order.
LiveLinks ==
    << nextqid, on,
       [i \in NPROC .. NQENT - 1 |-> queuetab[i]],
       [p \in {r \in Pids : on[r] # EMPTY} |-> <<queuetab[p].qnext, queuetab[p].qprev>>],
       [p \in {r \in Pids : on[r] \in {readylist, sleepq}} |-> queuetab[p].qkey] >>
=============================================================================
