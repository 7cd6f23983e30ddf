----------------------------- MODULE Semaphore ------------------------------
(***************************************************************************)
(* A counting semaphore as its users see it: a count and the processes     *)
(* that wait, first come first.  Each operator is what a whole call of     *)
(* Chapter7 does to one entry of semtab[], without the rescheduling; the   *)
(* modules of the layers above the kernel use them.  Module Kernel has the *)
(* calls themselves, step by step.                                         *)
(***************************************************************************)
EXTENDS Lists

Semaphores(P) == [count : Int, queue : Seq(P)]

NewSem(n) == [count |-> n, queue |-> <<>>]

\* wait() by p: does it block, and what does it leave behind
Blocks(sem) == sem.count - 1 < 0
Waited(sem, p) == [count |-> sem.count - 1,
                   queue |-> IF Blocks(sem) THEN Append(sem.queue, p) ELSE sem.queue]

\* signal(): the first process that waits, if any, goes on
Signalled(sem) == [count |-> sem.count + 1,
                   queue |-> IF sem.count < 0 THEN Tail(sem.queue) ELSE sem.queue]

\* semreset(): everyone goes on
Reset(sem, n) == NewSem(n)

\* semdelete(): everyone goes on; the loop ends with the count at one more than
\* zero, or than it was
Deleted(sem) == NewSem(IF sem.count < 0 THEN 1 ELSE sem.count + 1)
=============================================================================
