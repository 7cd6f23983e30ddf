------------------------------- MODULE Kernel -------------------------------
(***************************************************************************)
(* The process manager of Xinu: dispatcher (Chapter5), process management  *)
(* (Chapter6), counting semaphores (Chapter7), one-message mailboxes       *)
(* (Chapter8) and the real-time clock (Chapter13), from the moment         *)
(* nulluser() (Chapter22) has resumed the process that executes main().    *)
(*                                                                         *)
(* One processor runs one process, currpid.  A system call disables        *)
(* interrupts, so nothing else runs until it returns OR until it calls     *)
(* resched(), which may switch to another process in the middle of the     *)
(* call.  An action is the code between two such points.  What a process   *)
(* has still to do of a call it was switched out of is its frame, kpc[p];  *)
(* while the current process has a frame, that frame is the only thing     *)
(* that can run, because interrupts are disabled.                          *)
(*                                                                         *)
(* The lists of queuetab[] are sequences of process ids, and insert(),     *)
(* insertd(), unsleep() and getitem() are the operators of module Lists    *)
(* (module Queue has their pointers); qkey is the single key field that a  *)
(* process's queuetab[] entry has for every list it is ever on.            *)
(* A call that returns SYSERR without changing anything is no step.        *)
(***************************************************************************)
EXTENDS Lists

CONSTANTS
    NPROC,     \* entries of proctab[]
    NSEM,      \* entries of semtab[]
    QUANTUM,   \* clock ticks in a time slice
    INITPRIO,  \* priority of the process that executes main()
    Prios,     \* priorities that create() and chprio() are given
    Delays,    \* delays that sleepms() is given
    Waits,     \* limits that recvtime() is given
    MAXKEY,    \* largest value of a list key (an int32)
    Counts,    \* counts that semcreate(), semreset() and signaln() are given
    MaxCount,  \* bound: no call raises a semaphore's count above it
    Stacks,    \* blocks of memory that getstk() can hand out
    Calls      \* the system calls that processes of this instance make

Pids  == 0 .. NPROC - 1
Sems  == 0 .. NSEM - 1
NULLPROC == 0
MAINPROC == 1
MAXPRIO == 32767       \* priorities are 16-bit integers (pri16)
MINKEY == -32769       \* the tail's key: below every (16-bit) priority
NoStack == -1

PrStates == {"FREE", "CURR", "READY", "RECV", "SLEEP", "SUSP", "WAIT", "RECTIM"}

ASSUME KernelAssumption ==
    /\ NPROC \in Nat /\ NPROC >= 2
    /\ NSEM \in Nat \ {0}
    /\ QUANTUM \in Nat \ {0}
    /\ MAXKEY \in Nat \ {0}
    /\ INITPRIO \in 1 .. MAXPRIO
    /\ Prios \subseteq 1 .. MAXPRIO
    /\ Delays \subseteq 0 .. 2 * MAXKEY + 1
    /\ Waits \subseteq 0 .. MAXKEY
    /\ Counts \subseteq Nat
    /\ MaxCount \in Nat
    /\ Stacks \subseteq Nat /\ Stacks # {}

VARIABLES
    prstate, prprio, prsem, prparent, prhasmsg, prstkbase,   \* proctab[]
    currpid, prcount, nextpid,      \* running process, live processes, newpid()
    freestks,                       \* stack blocks on the free list
    sstate, scount, squeue, nextsem,  \* semtab[], newsem()
    readylist, sleepq, qkey,        \* lists of processes and their keys
    ndefers, attempt,               \* Defer
    preempt,                        \* ticks left in the time slice
    kpc,                            \* the kernel code each process must finish
    halted,                         \* xdone() has been called
    left                            \* (history) ticks a sleeper must still sleep

procInfo  == <<prprio, prparent, prstkbase, nextpid, freestks>>
semaphores == <<sstate, scount, squeue, nextsem, prsem>>
dispatch  == <<prstate, readylist, qkey, currpid, preempt, ndefers, attempt>>
sleepers  == <<sleepq, left>>
vars == <<procInfo, prhasmsg, semaphores, dispatch, sleepers, prcount, kpc, halted>>

NoFrame == [op |-> "none", arg |-> 0, n |-> 0]
Frame(op, arg, n) == [op |-> op, arg |-> arg, n |-> n]

Frames ==
    [op : {"none", "receive", "recvtime", "wakeup", "clktail"}, arg : {0}, n : {0}]
    \union [op : {"kill"}, arg : Pids \ {NULLPROC}, n : {0}]
    \union [op : {"signaln", "semreset", "semdelete"}, arg : Sems, n : Nat]

-----------------------------------------------------------------------------
(* Lists *)

\* firstkey(readylist); an empty list shows the key of its tail
FirstKey(rl, qk) == IF rl = <<>> THEN MINKEY ELSE qk[Head(rl)]

\* sleepms() hands its uint32 delay to insertd(), whose key is an int32
AsKey(d) == IF d <= MAXKEY THEN d ELSE d - 2 * (MAXKEY + 1)

-----------------------------------------------------------------------------
(* The dispatcher.  nd, pre, st, rl and qk are the values that ndefers,    *)
(* preempt, prstate, readylist and qkey have when resched() is called.     *)

Stay(pre, st, rl, qk) ==
    /\ prstate' = st
    /\ readylist' = rl
    /\ qkey' = qk
    /\ preempt' = pre
    /\ UNCHANGED currpid

\* (mutant) the new process is not marked as current
CtxSwUnmarked(st, rl, qk) ==
    /\ currpid' = Head(rl)
    /\ readylist' = Tail(rl)
    /\ prstate' = st
    /\ qkey' = qk
    /\ preempt' = QUANTUM

CtxSw(st, rl, qk) ==
    /\ currpid' = Head(rl)
    /\ readylist' = Tail(rl)
    /\ prstate' = [st EXCEPT ![Head(rl)] = "CURR"]
    /\ qkey' = qk
    /\ preempt' = QUANTUM

resched(nd, pre, st, rl, qk) ==
    /\ ndefers' = nd
    /\ attempt' = IF nd > 0 THEN TRUE ELSE attempt
    /\ \/ /\ nd > 0 \/ (st[currpid] = "CURR" /\ prprio[currpid] > FirstKey(rl, qk))
          /\ Stay(pre, st, rl, qk)
       \/ /\ nd = 0
          /\ st[currpid] = "CURR"
          /\ prprio[currpid] <= FirstKey(rl, qk)
          /\ \E i \in InsertSlot(rl, qk, prprio[currpid]) :
                CtxSw([st EXCEPT ![currpid] = "READY"],
                      InsertAt(rl, i, currpid),
                      [qk EXCEPT ![currpid] = prprio[currpid]])
       \/ /\ nd = 0
          /\ st[currpid] # "CURR"
          /\ CtxSw(st, rl, qk)

\* (mutant) nobody reschedules
readyOnly(p, st, qk) ==
    \E i \in InsertSlot(readylist, qk, prprio[p]) :
        /\ Stay(preempt, [st EXCEPT ![p] = "READY"], InsertAt(readylist, i, p),
                [qk EXCEPT ![p] = prprio[p]])
        /\ UNCHANGED <<ndefers, attempt>>

ready(p, st, qk) ==
    \E i \in InsertSlot(readylist, qk, prprio[p]) :
        resched(ndefers, preempt, [st EXCEPT ![p] = "READY"],
                InsertAt(readylist, i, p), [qk EXCEPT ![p] = prprio[p]])

\* resched_cntl(DEFER_START)
DeferStart == /\ ndefers' = ndefers + 1
              /\ attempt' = IF ndefers = 0 THEN FALSE ELSE attempt

\* (mutant) resched() is called before ndefers is decremented
DeferStopLate ==
    IF ndefers = 1 /\ attempt
    THEN resched(ndefers, preempt, prstate, readylist, qkey)
    ELSE /\ ndefers' = ndefers - 1
         /\ UNCHANGED <<prstate, readylist, qkey, currpid, preempt, attempt>>

\* resched_cntl(DEFER_STOP)
DeferStop ==
    IF ndefers = 1 /\ attempt
    THEN resched(ndefers - 1, preempt, prstate, readylist, qkey)
    ELSE /\ ndefers' = ndefers - 1
         /\ UNCHANGED <<prstate, readylist, qkey, currpid, preempt, attempt>>

\* the running process is in its own code, with interrupts enabled
UserMode == ~halted /\ kpc[currpid] = NoFrame

\* the running process is allowed to make the system call
Caller(call) == UserMode /\ currpid # NULLPROC /\ call \in Calls

\* the running process is to go on with the rest of a system call
Resumes(op) == ~halted /\ kpc[currpid].op = op

SetFrame(f) == kpc' = [kpc EXCEPT ![currpid] = f]
-----------------------------------------------------------------------------
(* Process management *)

\* (mutant) the block stays on the free list
getstkShared(b) ==
    /\ \A c \in freestks : c <= b
    /\ UNCHANGED freestks

\* getstk() takes the highest block that fits
getstk(b) ==
    /\ \A c \in freestks : c <= b
    /\ freestks' = freestks \ {b}

create(prio) ==
    /\ Caller("create")
    /\ \E i \in 0 .. NPROC - 1 :
         LET pid == (nextpid + i) % NPROC
         IN  /\ prstate[pid] = "FREE"
             /\ \A j \in 0 .. i - 1 : prstate[(nextpid + j) % NPROC] # "FREE"
             /\ nextpid' = pid + 1
             /\ \/ /\ freestks = {}              \* getstk() fails
                   /\ UNCHANGED <<prstate, prprio, prparent, prstkbase, freestks,
                                  prsem, prhasmsg, prcount>>
                \/ \E b \in freestks :
                   /\ getstk(b)
                   /\ prstkbase' = [prstkbase EXCEPT ![pid] = b]
                   /\ prstate' = [prstate EXCEPT ![pid] = "SUSP"]
                   /\ prprio' = [prprio EXCEPT ![pid] = prio]
                   /\ prsem' = [prsem EXCEPT ![pid] = -1]
                   /\ prparent' = [prparent EXCEPT ![pid] = currpid]
                   /\ prhasmsg' = [prhasmsg EXCEPT ![pid] = FALSE]
                   /\ prcount' = prcount + 1
    /\ UNCHANGED <<sstate, scount, squeue, nextsem, readylist, qkey, currpid,
                   preempt, ndefers, attempt, sleepers, kpc, halted>>

\* (mutant) a process that waits for a message is resumed too
resumeReceiver(p) ==
    /\ Caller("resume")
    /\ prstate[p] \in {"SUSP", "RECV"}
    /\ ready(p, prstate, qkey)
    /\ UNCHANGED <<procInfo, prhasmsg, semaphores, sleepers, prcount, kpc, halted>>

resume(p) ==
    /\ Caller("resume")
    /\ prstate[p] = "SUSP"
    /\ ready(p, prstate, qkey)
    /\ UNCHANGED <<procInfo, prhasmsg, semaphores, sleepers, prcount, kpc, halted>>

suspend(p) ==
    /\ Caller("suspend")
    /\ p # NULLPROC
    /\ LET st == [prstate EXCEPT ![p] = "SUSP"]
       IN  \/ /\ prstate[p] = "READY"
              /\ prstate' = st
              /\ readylist' = Without(readylist, p)
              /\ UNCHANGED <<qkey, currpid, preempt, ndefers, attempt>>
           \/ /\ prstate[p] = "CURR"
              /\ resched(ndefers, preempt, st, readylist, qkey)
    /\ UNCHANGED <<procInfo, prhasmsg, semaphores, sleepers, prcount, kpc, halted>>

chprio(p, prio) ==
    /\ Caller("chprio")
    /\ prstate[p] # "FREE"
    /\ prprio' = [prprio EXCEPT ![p] = prio]
    /\ UNCHANGED <<prparent, prstkbase, nextpid, freestks, prhasmsg, semaphores,
                   dispatch, sleepers, prcount, kpc, halted>>

\* What send() does once its caller is set: put a message into p's mailbox and wake p up,
\* or nothing if p is not there or has a message already.
Deliver(p) ==
    \/ /\ prstate[p] = "FREE" \/ prhasmsg[p]
       /\ UNCHANGED <<prhasmsg, dispatch, sleepers>>
    \/ /\ prstate[p] # "FREE"
       /\ ~prhasmsg[p]
       /\ prhasmsg' = [prhasmsg EXCEPT ![p] = TRUE]
       /\ \/ /\ prstate[p] = "RECV"
             /\ ready(p, prstate, qkey)
             /\ UNCHANGED sleepers
          \/ /\ prstate[p] = "RECTIM"
             /\ sleepq' = Without(sleepq, p)
             /\ left' = [left EXCEPT ![p] = 0]
             /\ ready(p, prstate, UnsleepKeys(sleepq, qkey, p))
          \/ /\ prstate[p] \notin {"RECV", "RECTIM"}
             /\ UNCHANGED <<dispatch, sleepers>>

\* (mutant) xdone() is called one process too soon
AllDoneEarly(n) == n <= 2

\* kill() calls xdone() when only the null process is left
AllDone(n) == n <= 1

\* (mutant) the process is not counted off
killUncounted(p) ==
    /\ Caller(IF p = currpid THEN "userret" ELSE "kill")
    /\ p # NULLPROC
    /\ prstate[p] # "FREE"
    /\ SetFrame(Frame("kill", p, 0))
    /\ Deliver(prparent[p])
    /\ UNCHANGED <<procInfo, semaphores, prcount, halted>>

\* kill(), up to its call of send(): that call may switch to the parent
\* before the rest of kill() has run.  userret() is kill(getpid()).
kill(p) ==
    /\ Caller(IF p = currpid THEN "userret" ELSE "kill")
    /\ p # NULLPROC
    /\ prstate[p] # "FREE"
    /\ prcount' = prcount - 1
    /\ SetFrame(Frame("kill", p, 0))
    /\ \/ /\ AllDone(prcount - 1)                          \* xdone()
          /\ halted' = TRUE
          /\ UNCHANGED <<prhasmsg, dispatch, sleepers>>
       \/ /\ ~AllDone(prcount - 1)
          /\ Deliver(prparent[p])
          /\ UNCHANGED halted
    /\ UNCHANGED <<procInfo, semaphores>>

\* (mutant) the semaphore still counts the process
UnwaitUncounted(p) ==
    /\ UNCHANGED scount
    /\ squeue' = [squeue EXCEPT ![prsem[p]] = Without(@, p)]

\* kill() takes a waiting process off its semaphore, which counts one less
Unwait(p) ==
    /\ scount' = [scount EXCEPT ![prsem[p]] = @ + 1]
    /\ squeue' = [squeue EXCEPT ![prsem[p]] = Without(@, p)]

\* The rest of kill(): give back the stack and take the process off the
\* list it is on now.
killTail ==
    /\ Resumes("kill")
    /\ LET p  == kpc[currpid].arg
           st == [prstate EXCEPT ![p] = "FREE"]
       IN  /\ freestks' = freestks \union {prstkbase[p]}
           /\ kpc' = [kpc EXCEPT ![p] = NoFrame, ![currpid] = NoFrame]
           /\ \/ /\ prstate[p] = "CURR"
                 /\ resched(ndefers, preempt, st, readylist, qkey)
                 /\ UNCHANGED <<scount, squeue, sleepers>>
              \/ /\ prstate[p] # "CURR"
                 /\ prstate' = st
                 /\ \/ /\ prstate[p] \in {"SLEEP", "RECTIM"}
                       /\ sleepq' = Without(sleepq, p)
                       /\ left' = [left EXCEPT ![p] = 0]
                       /\ qkey' = UnsleepKeys(sleepq, qkey, p)
                       /\ UNCHANGED <<scount, squeue, readylist>>
                    \/ /\ prstate[p] = "WAIT"
                       /\ Unwait(p)
                       /\ UNCHANGED <<sleepers, qkey, readylist>>
                    \/ /\ prstate[p] = "READY"
                       /\ readylist' = Without(readylist, p)
                       /\ UNCHANGED <<scount, squeue, sleepers, qkey>>
                    \/ /\ prstate[p] \in {"SUSP", "RECV", "FREE"}
                       /\ UNCHANGED <<scount, squeue, sleepers, qkey, readylist>>
                 /\ UNCHANGED <<currpid, preempt, ndefers, attempt>>
    /\ UNCHANGED <<prprio, prparent, prstkbase, nextpid, prhasmsg,
                   sstate, nextsem, prsem, prcount, halted>>
-----------------------------------------------------------------------------
(* Semaphores *)

\* newsem() takes the next free entry after the last one it handed out;
\* semdelete() never frees an entry
semcreate(count) ==
    /\ Caller("semcreate")
    /\ \E i \in 0 .. NSEM - 1 :
         LET s == (nextsem + i) % NSEM
         IN  /\ sstate[s] = "FREE"
             /\ \A j \in 0 .. i - 1 : sstate[(nextsem + j) % NSEM] # "FREE"
             /\ sstate' = [sstate EXCEPT ![s] = "USED"]
             /\ scount' = [scount EXCEPT ![s] = count]
             /\ nextsem' = (s + 1) % NSEM
    /\ UNCHANGED <<squeue, prsem, procInfo, prhasmsg, dispatch, sleepers,
                   prcount, kpc, halted>>

wait(s) ==
    /\ Caller("wait")
    /\ sstate[s] = "USED"
    /\ scount' = [scount EXCEPT ![s] = @ - 1]
    /\ \/ /\ scount[s] - 1 < 0
          /\ prsem' = [prsem EXCEPT ![currpid] = s]
          /\ squeue' = [squeue EXCEPT ![s] = Append(@, currpid)]
          /\ resched(ndefers, preempt, [prstate EXCEPT ![currpid] = "WAIT"],
                     readylist, qkey)
       \/ /\ scount[s] - 1 >= 0
          /\ UNCHANGED <<prsem, squeue, dispatch>>
    /\ UNCHANGED <<sstate, nextsem, procInfo, prhasmsg, sleepers, prcount,
                   kpc, halted>>

\* scount++ and, if the count was negative, ready() the first waiting process
\* (ready(EMPTY) does nothing).  Leaves kpc to the caller.
SignalOnce(s) ==
    /\ scount' = [scount EXCEPT ![s] = @ + 1]
    /\ \/ /\ scount[s] < 0 /\ squeue[s] # <<>>
          /\ squeue' = [squeue EXCEPT ![s] = Tail(@)]
          /\ ready(Head(squeue[s]), prstate, qkey)
       \/ /\ ~(scount[s] < 0 /\ squeue[s] # <<>>)
          /\ UNCHANGED <<squeue, dispatch>>

signal(s) ==
    /\ Caller("signal")
    /\ sstate[s] = "USED"
    /\ scount[s] < MaxCount
    /\ SignalOnce(s)
    /\ UNCHANGED <<sstate, nextsem, prsem, procInfo, prhasmsg, sleepers,
                   prcount, kpc, halted>>

\* signaln() does not look at sstate and does not defer rescheduling: every
\* ready() of its loop may switch to another process
signaln(s, count) ==
    /\ Caller("signaln")
    /\ count > 0
    /\ scount[s] + count <= MaxCount
    /\ SetFrame(Frame("signaln", s, count))
    /\ UNCHANGED <<procInfo, prhasmsg, semaphores, dispatch, sleepers, prcount, halted>>

signalnStep ==
    /\ Resumes("signaln")
    /\ LET s == kpc[currpid].arg
           n == kpc[currpid].n
       IN  \/ /\ n > 0
              /\ SetFrame(Frame("signaln", s, n - 1))
              /\ SignalOnce(s)
           \/ /\ n = 0
              /\ SetFrame(NoFrame)
              /\ resched(ndefers, preempt, prstate, readylist, qkey)
              /\ UNCHANGED <<scount, squeue>>
    /\ UNCHANGED <<sstate, nextsem, prsem, procInfo, prhasmsg, sleepers,
                   prcount, halted>>

semreset(s, count) ==
    /\ Caller("semreset")
    /\ sstate[s] = "USED"
    /\ DeferStart
    /\ SetFrame(Frame("semreset", s, count))
    /\ UNCHANGED <<prstate, readylist, qkey, currpid, preempt,
                   procInfo, prhasmsg, semaphores, sleepers, prcount, halted>>

semresetStep ==
    /\ Resumes("semreset")
    /\ LET s == kpc[currpid].arg
       IN  \/ /\ squeue[s] # <<>>
              /\ squeue' = [squeue EXCEPT ![s] = Tail(@)]
              /\ ready(Head(squeue[s]), prstate, qkey)
              /\ UNCHANGED <<scount, kpc>>
           \/ /\ squeue[s] = <<>>
              /\ scount' = [scount EXCEPT ![s] = kpc[currpid].n]
              /\ DeferStop
              /\ SetFrame(NoFrame)
              /\ UNCHANGED squeue
    /\ UNCHANGED <<sstate, nextsem, prsem, procInfo, prhasmsg, sleepers,
                   prcount, halted>>

semdelete(s) ==
    /\ Caller("semdelete")
    /\ sstate[s] = "USED"
    /\ scount[s] < MaxCount
    /\ DeferStart
    /\ SetFrame(Frame("semdelete", s, 0))
    /\ UNCHANGED <<prstate, readylist, qkey, currpid, preempt,
                   procInfo, prhasmsg, semaphores, sleepers, prcount, halted>>

\* the loop's test increments the count once more when it ends the loop
semdeleteStep ==
    /\ Resumes("semdelete")
    /\ LET s == kpc[currpid].arg
       IN  \/ /\ scount[s] < 0
              /\ SignalOnce(s)
              /\ UNCHANGED kpc
           \/ /\ scount[s] >= 0
              /\ scount' = [scount EXCEPT ![s] = @ + 1]
              /\ DeferStop
              /\ SetFrame(NoFrame)
              /\ UNCHANGED squeue
    /\ UNCHANGED <<sstate, nextsem, prsem, procInfo, prhasmsg, sleepers,
                   prcount, halted>>
-----------------------------------------------------------------------------
(* Messages *)

send(p) ==
    /\ Caller("send")
    /\ prstate[p] # "FREE"
    /\ ~prhasmsg[p]
    /\ Deliver(p)
    /\ UNCHANGED <<procInfo, semaphores, prcount, kpc, halted>>

receive ==
    /\ Caller("receive")
    /\ SetFrame(Frame("receive", 0, 0))
    /\ \/ /\ ~prhasmsg[currpid]
          /\ resched(ndefers, preempt, [prstate EXCEPT ![currpid] = "RECV"],
                     readylist, qkey)
       \/ /\ prhasmsg[currpid]
          /\ UNCHANGED dispatch
    /\ UNCHANGED <<procInfo, prhasmsg, semaphores, sleepers, prcount, halted>>

\* the rest of receive(), and of recvtime() when a message came
TakeMessage ==
    /\ Resumes("receive") \/ Resumes("recvtime")
    /\ prhasmsg' = [prhasmsg EXCEPT ![currpid] = FALSE]
    /\ SetFrame(NoFrame)
    /\ UNCHANGED <<procInfo, semaphores, dispatch, sleepers, prcount, halted>>

recvclr ==
    /\ Caller("recvclr")
    /\ prhasmsg[currpid]
    /\ prhasmsg' = [prhasmsg EXCEPT ![currpid] = FALSE]
    /\ UNCHANGED <<procInfo, semaphores, dispatch, sleepers, prcount, kpc, halted>>
-----------------------------------------------------------------------------
(* Time *)

\* insertd(currpid, sleepq, key), the change of state and resched()
SleepIn(state, key) ==
    \E i \in InsertdSlot(sleepq, qkey, key) :
        /\ sleepq' = InsertAt(sleepq, i, currpid)
        /\ resched(ndefers, preempt, [prstate EXCEPT ![currpid] = state], readylist,
                   InsertdKeys(sleepq, qkey, i, currpid, key))

sleepms(delay) ==
    /\ Caller("sleepms")
    /\ \/ /\ delay = 0                                   \* yield()
          /\ resched(ndefers, preempt, prstate, readylist, qkey)
          /\ UNCHANGED sleepers
       \/ /\ delay > 0
          /\ SleepIn("SLEEP", AsKey(delay))
          /\ left' = [left EXCEPT ![currpid] = delay]
    /\ UNCHANGED <<procInfo, prhasmsg, semaphores, prcount, kpc, halted>>

recvtime(maxwait) ==
    /\ Caller("recvtime")
    /\ SetFrame(Frame("recvtime", 0, 0))
    /\ \/ /\ ~prhasmsg[currpid]
          /\ SleepIn("RECTIM", maxwait)
          /\ left' = [left EXCEPT ![currpid] = maxwait]
       \/ /\ prhasmsg[currpid]
          /\ UNCHANGED <<dispatch, sleepers>>
    /\ UNCHANGED <<procInfo, prhasmsg, semaphores, prcount, halted>>

\* (mutant) the time slice is a tick longer than QUANTUM
EndOfTickLong(pre, qk) ==
    IF pre - 1 < 0
    THEN resched(ndefers, QUANTUM, prstate, readylist, qk)
    ELSE /\ preempt' = pre - 1
         /\ qkey' = qk
         /\ UNCHANGED <<prstate, readylist, currpid, ndefers, attempt>>

\* the end of clkhandler(): pre and qk are preempt and qkey by then
EndOfTick(pre, qk) ==
    IF pre - 1 <= 0
    THEN resched(ndefers, QUANTUM, prstate, readylist, qk)
    ELSE /\ preempt' = pre - 1
         /\ qkey' = qk
         /\ UNCHANGED <<prstate, readylist, currpid, ndefers, attempt>>

\* (mutant) the tick is not counted off the first sleeper
clkhandlerStill ==
    /\ UserMode
    /\ EndOfTick(preempt, qkey)
    /\ UNCHANGED <<kpc, sleepers, procInfo, prhasmsg, semaphores, prcount, halted>>

\* clkhandler(), up to the first context switch it may make
clkhandler ==
    /\ UserMode
    /\ left' = [p \in Pids |-> IF left[p] > 0 THEN left[p] - 1 ELSE 0]
    /\ LET first == Head(sleepq)
           qk    == [qkey EXCEPT ![first] = @ - 1]
       IN  \/ /\ sleepq = <<>>
              /\ EndOfTick(preempt, qkey)
              /\ UNCHANGED kpc
           \/ /\ sleepq # <<>>
              /\ qk[first] > 0
              /\ EndOfTick(preempt, qk)
              /\ UNCHANGED kpc
           \/ /\ sleepq # <<>>
              /\ qk[first] <= 0
              /\ qkey' = qk
              /\ DeferStart
              /\ SetFrame(Frame("wakeup", 0, 0))
              /\ UNCHANGED <<prstate, readylist, currpid, preempt>>
    /\ UNCHANGED <<sleepq, procInfo, prhasmsg, semaphores, prcount, halted>>


\* wakeup(): ready every entry whose time has come, then let resched() act;
\* the end of clkhandler() is still to come
Due == sleepq # <<>> /\ qkey[Head(sleepq)] <= 0

wakeupStep ==
    /\ Resumes("wakeup")
    /\ \/ /\ Due
          /\ sleepq' = Tail(sleepq)
          /\ ready(Head(sleepq), prstate, qkey)
          /\ UNCHANGED kpc
       \/ /\ ~Due
          /\ DeferStop
          /\ SetFrame(Frame("clktail", 0, 0))
          /\ UNCHANGED sleepq
    /\ UNCHANGED <<left, procInfo, prhasmsg, semaphores, prcount, halted>>

clktail ==
    /\ Resumes("clktail")
    /\ EndOfTick(preempt, qkey)
    /\ SetFrame(NoFrame)
    /\ UNCHANGED <<sleepers, procInfo, prhasmsg, semaphores, prcount, halted>>
-----------------------------------------------------------------------------
\* exit() stops the machine
stopped == halted /\ UNCHANGED vars

\* sysinit() and nulluser(): the null process has created and resumed the
\* process that executes main(), which therefore runs
Init ==
    /\ prstate = [p \in Pids |-> CASE p = NULLPROC -> "READY"
                                   [] p = MAINPROC -> "CURR"
                                   [] OTHER -> "FREE"]
    /\ prprio = [p \in Pids |-> IF p = MAINPROC THEN INITPRIO ELSE 0]
    /\ prsem = [p \in Pids |-> IF p = MAINPROC THEN -1 ELSE 0]
    /\ prparent = [p \in Pids |-> 0]
    /\ prhasmsg = [p \in Pids |-> FALSE]
    /\ \E b \in Stacks :
         /\ \A c \in Stacks : c <= b
         /\ prstkbase = [p \in Pids |-> IF p = MAINPROC THEN b ELSE NoStack]
         /\ freestks = Stacks \ {b}
    /\ currpid = MAINPROC
    /\ prcount = 2
    /\ nextpid = MAINPROC + 1
    /\ sstate = [s \in Sems |-> "FREE"]
    /\ scount = [s \in Sems |-> 0]
    /\ squeue = [s \in Sems |-> <<>>]
    /\ nextsem = 0
    /\ readylist = <<NULLPROC>>
    /\ sleepq = <<>>
    /\ qkey = [p \in Pids |-> IF p = MAINPROC THEN INITPRIO ELSE 0]
    /\ ndefers = 0
    /\ attempt = FALSE
    /\ preempt = QUANTUM
    /\ kpc = [p \in Pids |-> NoFrame]
    /\ halted = FALSE
    /\ left = [p \in Pids |-> 0]

\* the rest of a call whose caller was switched out, or of a loop
Continue ==
    \/ killTail
    \/ signalnStep
    \/ semresetStep
    \/ semdeleteStep
    \/ TakeMessage
    \/ wakeupStep
    \/ clktail

SystemCall ==
    \/ \E prio \in Prios : create(prio)
    \/ \E p \in Pids : resume(p)
    \/ \E p \in Pids : suspend(p)
    \/ \E p \in Pids : kill(p)
    \/ \E p \in Pids, prio \in Prios : chprio(p, prio)
    \/ \E n \in Counts : semcreate(n)
    \/ \E s \in Sems : wait(s)
    \/ \E s \in Sems : signal(s)
    \/ \E s \in Sems, n \in Counts : signaln(s, n)
    \/ \E s \in Sems, n \in Counts : semreset(s, n)
    \/ \E s \in Sems : semdelete(s)
    \/ \E p \in Pids : send(p)
    \/ receive
    \/ recvclr
    \/ \E d \in Delays : sleepms(d)
    \/ \E d \in Waits : recvtime(d)

Next == Continue \/ SystemCall \/ clkhandler \/ stopped

Spec == Init /\ [][Next]_vars

\* The processor does not stop in the middle of a system call, and a timer
\* interrupt stays pending in the interrupt controller until interrupts are
\* enabled again.  No process is obliged to make any call.
FairSpec == Spec /\ WF_vars(Continue) /\ SF_vars(clkhandler)
-----------------------------------------------------------------------------
(* What must hold *)

ProcTypes ==
    /\ prprio \in [Pids -> 0 .. MAXPRIO]
    /\ prparent \in [Pids -> Pids]
    /\ prstkbase \in [Pids -> Stacks \union {NoStack}]
    /\ prcount \in Int
    /\ nextpid \in 1 .. NPROC
    /\ freestks \subseteq Stacks \union {NoStack}

DispatchTypes ==
    /\ prstate \in [Pids -> PrStates]
    /\ readylist \in Seq(Pids)
    /\ qkey \in [Pids -> Int]
    /\ currpid \in Pids
    /\ preempt \in 1 .. QUANTUM
    /\ ndefers \in Nat

SemTypes ==
    /\ sstate \in [Sems -> {"FREE", "USED"}]
    /\ scount \in [Sems -> Int]
    /\ squeue \in [Sems -> Seq(Pids)]
    /\ nextsem \in Sems
    /\ prsem \in [Pids -> Sems \union {-1}]

SleepTypes ==
    /\ sleepq \in Seq(Pids)
    /\ left \in [Pids -> Nat]

FrameTypes == kpc \in [Pids -> Frames]

FlagTypes ==
    /\ prhasmsg \in [Pids -> BOOLEAN]
    /\ attempt \in BOOLEAN
    /\ halted \in BOOLEAN

\* Every variable has its type; the frame that a process must go on with is
\* one that the code makes: kill() of a user process, a loop over a semaphore
\* of semtab[], a receive, or the rest of the clock handler.
TypeOK ==
    /\ ProcTypes
    /\ DispatchTypes
    /\ SemTypes
    /\ SleepTypes
    /\ FrameTypes
    /\ FlagTypes

Timed == {"SLEEP", "RECTIM"}

\* Every process is on exactly the list that its prstate names, once: the
\* links of a queuetab[] entry serve one list at a time, so a process that
\* getitem(), dequeue() or a second ready() leaves on two lists, or on a list
\* of the wrong state, corrupts both.
QueueMembership ==
    /\ IsListOf(readylist, {p \in Pids : prstate[p] = "READY"})
    /\ IsListOf(sleepq, {p \in Pids : prstate[p] \in Timed})
    /\ \A s \in Sems :
         IsListOf(squeue[s], {p \in Pids : prstate[p] = "WAIT" /\ prsem[p] = s})
    /\ \A p \in Pids : prstate[p] = "WAIT" => prsem[p] \in Sems

\* currpid is the one process in state PR_CURR, and the null process is
\* always ready or running, so that resched() never dequeues from an empty
\* ready list.
OneRuns ==
    /\ \A p \in Pids : prstate[p] = "CURR" <=> p = currpid
    /\ prstate[NULLPROC] \in {"CURR", "READY"}

\* wait(), signal(), signaln(), semdelete() and kill() keep a semaphore's
\* count and its queue in step: a negative count is the number of processes
\* waiting, and nobody waits while the count is not negative.  semreset()
\* is allowed to break this while it drains the queue with interrupts off.
SemCount ==
    \A s \in Sems :
        \/ kpc[currpid].op = "semreset" /\ kpc[currpid].arg = s
        \/ Len(squeue[s]) = (IF scount[s] < 0 THEN -scount[s] ELSE 0)

Deferring == {"semreset", "semdelete", "wakeup"}

\* resched_cntl() is balanced and a deferred section is never switched out:
\* rescheduling is deferred exactly while the running process is inside
\* semreset(), semdelete() or wakeup(), and no other process is inside one.
DeferBalanced ==
    /\ ndefers = IF kpc[currpid].op \in Deferring THEN 1 ELSE 0
    /\ \A p \in Pids : kpc[p].op \in Deferring => p = currpid

\* send() and the receivers agree: no process sleeps on an empty mailbox that
\* is not empty, and a process that receive() blocked is not made to run
\* before there is a message for it to return, whatever suspend(), resume()
\* and the clock do to it in between.
NoLostMessage ==
    \A p \in Pids :
        /\ prstate[p] \in {"RECV", "RECTIM"} => ~prhasmsg[p]
        /\ kpc[p].op = "receive" /\ prstate[p] # "RECV" => prhasmsg[p]


\* If no limit of recvtime() is 0, timed processes are due neither early nor
\* late.  (With a limit of 0 the next clock tick goes to that entry alone, and
\* every entry behind it is late by a tick.)
ExactlyOnTime ==
    \A i \in 1 .. Len(sleepq) : DeltaSums(sleepq, qkey)[i] = left[sleepq[i]]

\* The ready list is in order of its keys, and while no rescheduling is
\* deferred the running process has at least the priority of the best ready
\* one: no call that makes a process ready forgets to reschedule.
PriorityOrder ==
    /\ \A i, j \in 1 .. Len(readylist) : i < j => qkey[readylist[i]] >= qkey[readylist[j]]
    /\ ndefers = 0 => prprio[currpid] >= FirstKey(readylist, qkey)

Live == {p \in Pids : prstate[p] # "FREE"}

\* the victims of the kill()s that have begun and are not finished
Dying == {kpc[p].arg : p \in {q \in Pids : kpc[q].op = "kill"}}

\* prcount is the number of processes that exist and are not being killed,
\* although a kill() may be switched out between counting its victim off and
\* freeing its table entry.
PrCount == prcount = Cardinality(Live \ Dying)

\* The stack of every process that exists is its own and is not on the free
\* list, although kill() frees the stack that it is running on.
StackOwned ==
    \A p \in Live \ {NULLPROC} :
        /\ prstkbase[p] \in Stacks \ freestks
        /\ \A q \in Live \ {NULLPROC} : q # p => prstkbase[q] # prstkbase[p]

\* xdone() says "All user processes have completed.": when it does, every
\* process but the null process is gone or is being killed.
XdoneMeansDone == halted => Live \ Dying \subseteq {NULLPROC}

\* Round robin: if all user processes have the same priority, every ready one
\* gets the processor, however the others use theirs.
RoundRobin ==
    \A p \in Pids \ {NULLPROC} :
        prstate[p] = "READY" ~> (prstate[p] # "READY" \/ halted)

\* Every sleep() ends and every recvtime() returns, whatever other processes
\* come and go on sleepq.
TimedWaitsEnd ==
    \A p \in Pids : prstate[p] \in Timed ~> (prstate[p] \notin Timed \/ halted)

=============================================================================
