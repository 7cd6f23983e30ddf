------------------------------ MODULE MCKernel ------------------------------
(***************************************************************************)
(* Module Kernel for TLC.  Each run lets processes make the calls that its *)
(* question is about; the other constants are in the .cfg files.           *)
(***************************************************************************)
EXTENDS Kernel

\* processes that synchronise, and kill each other while they do
SyncCalls == {"create", "resume", "kill", "semcreate", "wait", "signal", "signaln",
              "semreset", "semdelete"}

\* processes that sleep and exchange messages, for ever
TimeCalls == {"create", "resume", "send", "receive", "recvclr", "recvtime", "sleepms"}

\* processes that exit, and are suspended and resumed by others
ExitCalls == {"create", "resume", "suspend", "userret", "receive"}

\* the same when processes are killed as well
ExitKillCalls == ExitCalls \union {"kill"}

\* every call
AllCalls == SyncCalls \union TimeCalls \union {"suspend", "chprio", "userret"}

Keyed == ToSet(readylist) \union ToSet(sleepq)

\* What later steps and the invariants can see of a state.  A field that is
\* set again before it is read is left out: those of a free table entry, the
\* key of a process on no sorted list, Defer.attempt while nothing is
\* deferred, prsem of a process that does not wait.
LiveView ==
    << TypeOK, prstate, currpid, prcount, nextpid, freestks, sstate, scount, squeue, nextsem,
       readylist, sleepq, ndefers, ndefers > 0 /\ attempt, preempt, kpc, halted, left,
       [p \in Live |-> <<prprio[p], prparent[p], prhasmsg[p]>>],
       [p \in Live \union Dying |-> prstkbase[p]],
       [p \in Keyed |-> qkey[p]],
       [p \in Pids |-> IF prstate[p] = "WAIT" THEN prsem[p] ELSE -1] >>
=============================================================================
