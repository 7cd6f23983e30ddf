---------------------------- MODULE KernelProofs ----------------------------
(***************************************************************************)
(* The inductive invariant of module Kernel: one lemma per action, then    *)
(* the theorems.                                                           *)
(***************************************************************************)
EXTENDS KernelLemmas

-----------------------------------------------------------------------------
(* The steps, one by one *)

\* create() preserves the invariant: the new process is on no list.
LEMMA createStep ==
    ASSUME IInv, NEW prio \in Prios, create(prio)
    PROVE  IInv'
  <1>1. Caller("create")
    BY DEF create, getstk
  <1>2. /\ UNCHANGED <<readylist, currpid, preempt>> /\ qkey' = qkey /\ ndefers' = ndefers
        /\ attempt' = attempt /\ sstate' = sstate /\ scount' = scount /\ squeue' = squeue
        /\ nextsem' = nextsem /\ sleepers' = sleepers /\ kpc' = kpc /\ halted' = halted
    BY DEF create, getstk
  <1>3. PICK i \in 0 .. NPROC - 1 :
          LET pid == (nextpid + i) % NPROC
          IN  /\ prstate[pid] = "FREE"
              /\ nextpid' = pid + 1
              /\ \/ UNCHANGED <<prstate, prprio, prparent, prstkbase, freestks,
                                prsem, prhasmsg, prcount>>
                 \/ \E b \in freestks :
                    /\ freestks' = freestks \ {b}
                    /\ prstkbase' = [prstkbase EXCEPT ![pid] = b]
                    /\ prstate' = [prstate EXCEPT ![pid] = "SUSP"]
                    /\ prprio' = [prprio EXCEPT ![pid] = prio]
                    /\ prsem' = [prsem EXCEPT ![pid] = -1]
                    /\ prparent' = [prparent EXCEPT ![pid] = currpid]
                    /\ prhasmsg' = [prhasmsg EXCEPT ![pid] = FALSE]
                    /\ prcount' = prcount + 1
    BY Zenon DEF create, getstk
  <1> DEFINE pid == (nextpid + i) % NPROC
  <1>4. pid \in Pids /\ pid + 1 \in 1 .. NPROC
    BY KernelAssumption DEF IInv, TypeOK, ProcTypes, Pids
  <1>5. prstate[pid] = "FREE" /\ nextpid' = pid + 1
    BY <1>3
  <1> HIDE DEF pid
  <1>6. FrameTypes' /\ DeferBalanced'
    <2>1. ndefers' = 0 /\ currpid' \in Pids
      BY <1>1, <1>2, CallerFacts
    <2> QED BY <1>1, <1>2, <2>1, CallerFacts, FramesKept, Zenon
  <1>7. SleepTypes' /\ sleepq' = sleepq
    BY <1>2, SameSleep, Zenon
  <1>8. CASE UNCHANGED <<prstate, prprio, prparent, prstkbase, freestks, prsem, prhasmsg, prcount>>
    <2>1. ProcTypes'
      BY <1>4, <1>5, <1>8 DEF IInv, TypeOK, ProcTypes
    <2>2. SemTypes'
      BY <1>2, <1>8 DEF IInv, TypeOK, SemTypes
    <2>3. prhasmsg' = prhasmsg /\ prsem' = prsem /\ prstate' = prstate
      BY <1>8
    <2>4. FlagTypes'
      BY <1>2, <2>3, Zenon DEF IInv, TypeOK, FlagTypes
    <2>5. Core'
      BY <1>2, <1>7, <2>3, InvFacts, SameDispatch, CoreAfter, Zenon
    <2> QED BY <1>6, <1>7, <2>1, <2>2, <2>4, <2>5, Restored, Zenon
  <1>9. ASSUME NEW b \in freestks,
               /\ freestks' = freestks \ {b}
               /\ prstkbase' = [prstkbase EXCEPT ![pid] = b]
               /\ prstate' = [prstate EXCEPT ![pid] = "SUSP"]
               /\ prprio' = [prprio EXCEPT ![pid] = prio]
               /\ prsem' = [prsem EXCEPT ![pid] = -1]
               /\ prparent' = [prparent EXCEPT ![pid] = currpid]
               /\ prhasmsg' = [prhasmsg EXCEPT ![pid] = FALSE]
               /\ prcount' = prcount + 1
        PROVE  IInv'
    <2>1. ProcTypes'
      <3>1. prio \in 0 .. MAXPRIO
        BY PrioFacts, Zenon DEF Prio
      <3> QED BY <1>4, <1>5, <1>9, <3>1, InvFacts DEF IInv, TypeOK, ProcTypes
    <2>2. SemTypes'
      BY <1>2, <1>4, <1>9 DEF IInv, TypeOK, SemTypes
    <2>3. FlagTypes'
      <3>1. prhasmsg' \in [Pids -> BOOLEAN]
        BY <1>4, <1>9 DEF IInv, TypeOK, FlagTypes
      <3> QED BY <1>2, <3>1, Zenon DEF IInv, TypeOK, FlagTypes
    <2>4. Core'
      <3>1. "SUSP" \in PrStates \ {"CURR", "READY"} /\ "SUSP" \notin Timed
            /\ "FREE" \notin Timed /\ pid # NULLPROC
        BY <1>5, InvFacts DEF PrStates, Timed
      <3>2. /\ Dispatched([prstate EXCEPT ![pid] = "SUSP"])
            /\ [prstate EXCEPT ![pid] = "SUSP"][NULLPROC] \in {"CURR", "READY"}
        <4>1. prstate[pid] # "CURR" /\ prstate[pid] # "READY"
          BY <1>5
        <4>2. readylist' = (IF prstate[pid] = "READY" THEN Without(readylist, pid) ELSE readylist)
          BY <1>2, <4>1
        <4>3. UNCHANGED <<currpid, preempt, ndefers>> /\ qkey' \in [Pids -> Int]
          BY <1>2, InvFacts
        <4> QED BY <1>4, <1>9, <3>1, <4>1, <4>2, <4>3, Moved, Zenon
      <3>3. SleepOK(sleepq', [prstate EXCEPT ![pid] = "SUSP"])
        BY <1>4, <1>5, <1>7, <3>1, SleepKept, Zenon
      <3>4. SemsOK(squeue', prsem', [prstate EXCEPT ![pid] = "SUSP"])
        <4>1. SemsOK(squeue, prsem, [prstate EXCEPT ![pid] = "SUSP"])
          BY <1>4, <1>5, SemsKept
        <4> DEFINE st2 == [prstate EXCEPT ![pid] = "SUSP"]
        <4>2. \A s : WaitSet(st2, prsem', s) = WaitSet(st2, prsem, s)
          BY <1>4, <1>9, InvFacts DEF WaitSet, IInv, TypeOK, SemTypes
        <4>3. \A q \in Pids : st2[q] = "WAIT" => prsem'[q] = prsem[q]
          BY <1>4, <1>9, InvFacts DEF IInv, TypeOK, SemTypes
        <4> HIDE DEF st2
        <4>4. SemsOK(squeue, prsem', st2)
          <5>1. SemsOK(squeue, prsem, st2)
            BY <4>1, Zenon DEF st2
          <5> QED BY <4>2, <4>3, <5>1, Zenon DEF SemsOK
        <4> QED BY <1>2, <4>4, Zenon DEF st2
      <3> QED BY <3>2, <3>3, <3>4, CoreAfter, Zenon
    <2> QED BY <1>6, <1>7, <2>1, <2>2, <2>3, <2>4, Restored, Zenon
  <1>10. UNCHANGED <<prstate, prprio, prparent, prstkbase, freestks, prsem, prhasmsg, prcount>>
         \/ \E b \in freestks :
               /\ freestks' = freestks \ {b}
               /\ prstkbase' = [prstkbase EXCEPT ![pid] = b]
               /\ prstate' = [prstate EXCEPT ![pid] = "SUSP"]
               /\ prprio' = [prprio EXCEPT ![pid] = prio]
               /\ prsem' = [prsem EXCEPT ![pid] = -1]
               /\ prparent' = [prparent EXCEPT ![pid] = currpid]
               /\ prhasmsg' = [prhasmsg EXCEPT ![pid] = FALSE]
               /\ prcount' = prcount + 1
    BY <1>3, Zenon DEF pid
  <1> QED BY <1>8, <1>9, <1>10, Zenon

\* resched() after the running process took the state v.
LEMMA LeavingCore ==
    ASSUME IInv, currpid # NULLPROC, ndefers = 0, NEW v \in PrStates \ {"CURR", "READY"},
           NEW qk \in [Pids -> Int],
           resched(ndefers, preempt, [prstate EXCEPT ![currpid] = v], readylist, qk),
           SleepOK(sleepq', [prstate EXCEPT ![currpid] = v]),
           SemsOK(squeue', prsem', [prstate EXCEPT ![currpid] = v])
    PROVE  Core' /\ currpid' \in Pids /\ ndefers' = 0 /\ attempt' \in BOOLEAN
  <1>1. Callable(ndefers, preempt, [prstate EXCEPT ![currpid] = v], readylist, qk)
    BY CallableLeaving, Zenon
  <1>2. Dispatched([prstate EXCEPT ![currpid] = v]) /\ ndefers' = 0
    BY <1>1, InvFacts, ReschedDispatches, Zenon
  <1>3. [prstate EXCEPT ![currpid] = v][NULLPROC] \in {"CURR", "READY"}
    BY InvFacts, PidsFacts
  <1>4. attempt \in BOOLEAN
    BY Zenon DEF IInv, TypeOK, FlagTypes
  <1>5. attempt' \in BOOLEAN
    BY <1>4, ReschedAttempt, Zenon
  <1> QED BY <1>2, <1>3, <1>5, CoreAfter, Zenon

\* ready(p) for a process p that waited for something else than the processor.
LEMMA ReadyCore ==
    ASSUME IInv, NEW p \in Pids, prstate[p] \notin {"CURR", "READY"},
           NEW qk \in [Pids -> Int], ready(p, prstate, qk),
           SleepOK(sleepq', [prstate EXCEPT ![p] = "READY"]),
           SemsOK(squeue', prsem', [prstate EXCEPT ![p] = "READY"])
    PROVE  /\ Core' /\ currpid' \in Pids /\ ndefers' = ndefers /\ attempt' \in BOOLEAN
           /\ ndefers > 0 => currpid' = currpid
  <1>1. Callable(ndefers, preempt, prstate, readylist, qk)
    <2>1. ndefers > 0 => prstate[currpid] = "CURR"
      BY InvFacts, Zenon
    <2> QED BY <2>1, InvFacts, Zenon DEF Callable, Typed
  <1>2. Dispatched([prstate EXCEPT ![p] = "READY"]) /\ ndefers' = ndefers
    BY <1>1, InvFacts, ReadyDispatches, Zenon
  <1>3. [prstate EXCEPT ![p] = "READY"][NULLPROC] \in {"CURR", "READY"}
    BY InvFacts, PidsFacts
  <1>4. ndefers > 0 => currpid' = currpid
    BY <1>2, Zenon DEF Dispatched
  <1> QED BY <1>2, <1>3, <1>4, CoreAfter, ReadyAttempt, Zenon

\* Nothing about the processes changed but keys.
LEMMA SameCore ==
    ASSUME IInv, UNCHANGED <<prstate, readylist, currpid, preempt>>,
           qkey' \in [Pids -> Int], ndefers' \in Nat,
           sleepq' = sleepq, squeue' = squeue, prsem' = prsem
    PROVE  Core'
  BY InvFacts, SameDispatch, CoreAfter, Zenon

\* resume() preserves the invariant: a suspended process joins the ready list.
LEMMA resumeStep ==
    ASSUME IInv, NEW p \in Pids, resume(p)
    PROVE  IInv'
  <1>1. Caller("resume") /\ prstate[p] = "SUSP" /\ ready(p, prstate, qkey)
    BY DEF resume
  <1>2. /\ UNCHANGED <<procInfo, prcount>> /\ UNCHANGED semaphores /\ UNCHANGED sleepers
        /\ UNCHANGED kpc /\ UNCHANGED <<prhasmsg, halted>>
    BY DEF resume
  <1>3. "SUSP" \notin Timed /\ "READY" \notin Timed /\ "SUSP" # "WAIT" /\ "READY" # "WAIT"
        /\ "SUSP" \notin {"CURR", "READY"}
    BY DEF Timed
  <1>4. SleepTypes' /\ sleepq' = sleepq /\ SemTypes' /\ squeue' = squeue /\ prsem' = prsem
    BY <1>2, SameSems, SameSleep, Zenon
  <1>5. SleepOK(sleepq', [prstate EXCEPT ![p] = "READY"])
        /\ SemsOK(squeue', prsem', [prstate EXCEPT ![p] = "READY"])
    BY <1>1, <1>3, <1>4, SleepKept, SemsKept, Zenon
  <1>6. Core' /\ currpid' \in Pids /\ ndefers' = 0 /\ attempt' \in BOOLEAN
    BY <1>1, <1>3, <1>5, CallerFacts, InvFacts, ReadyCore, Zenon
  <1> QED BY <1>1, <1>2, <1>4, <1>6, CallerFacts, FramesKept, SameProc, SameFlags,
             Restored, Zenon

\* suspend() preserves the invariant, for a ready process and for the caller.
LEMMA suspendStep ==
    ASSUME IInv, NEW p \in Pids, suspend(p)
    PROVE  IInv'
  <1>1. Caller("suspend") /\ p # NULLPROC
    BY DEF suspend
  <1>2. /\ UNCHANGED <<procInfo, prcount>> /\ UNCHANGED semaphores /\ UNCHANGED sleepers
        /\ UNCHANGED kpc /\ UNCHANGED <<prhasmsg, halted>>
    BY DEF suspend
  <1>3. /\ "SUSP" \notin Timed /\ "READY" \notin Timed /\ "CURR" \notin Timed
        /\ "SUSP" \in PrStates \ {"CURR", "READY"}
        /\ "SUSP" # "WAIT" /\ "READY" # "WAIT" /\ "CURR" # "WAIT" /\ "READY" # "CURR"
    BY DEF Timed, PrStates
  <1>4. SleepTypes' /\ sleepq' = sleepq /\ SemTypes' /\ squeue' = squeue /\ prsem' = prsem
    BY <1>2, SameSems, SameSleep, Zenon
  <1>5. CASE /\ prstate[p] = "READY"
             /\ prstate' = [prstate EXCEPT ![p] = "SUSP"]
             /\ readylist' = Without(readylist, p)
             /\ UNCHANGED <<qkey, currpid, preempt, ndefers, attempt>>
    <2>1. /\ prstate[p] # "CURR" /\ UNCHANGED <<currpid, preempt, ndefers>>
          /\ qkey' \in [Pids -> Int]
          /\ readylist' = (IF prstate[p] = "READY" THEN Without(readylist, p) ELSE readylist)
      BY <1>5, InvFacts
    <2>2. /\ Dispatched([prstate EXCEPT ![p] = "SUSP"])
          /\ [prstate EXCEPT ![p] = "SUSP"][NULLPROC] \in {"CURR", "READY"}
      BY <1>1, <1>3, <1>5, <2>1, Moved, Zenon
    <2>3. Core' /\ currpid' \in Pids
      BY <1>3, <1>4, <1>5, <2>2, SleepKept, SemsKept, CoreAfter, Zenon
    <2>4. ndefers' = 0 /\ attempt' = attempt
      BY <1>1, <1>5, CallerFacts
    <2>5. attempt' \in BOOLEAN
      BY <2>4, Zenon DEF IInv, TypeOK, FlagTypes
    <2> QED BY <2>3, <2>4, <2>5, <1>1, <1>2, <1>4, CallerFacts, FramesKept, SameProc, SameFlags,
               Restored, Zenon
  <1>6. CASE /\ prstate[p] = "CURR"
             /\ resched(ndefers, preempt, [prstate EXCEPT ![p] = "SUSP"], readylist, qkey)
    <2>1. p = currpid
      BY <1>6, InvFacts, Zenon
    <2>2. SleepOK(sleepq', [prstate EXCEPT ![currpid] = "SUSP"])
          /\ SemsOK(squeue', prsem', [prstate EXCEPT ![currpid] = "SUSP"])
      BY <1>3, <1>4, <1>6, <2>1, SleepKept, SemsKept, Zenon
    <2>3. Core' /\ currpid' \in Pids /\ ndefers' = 0 /\ attempt' \in BOOLEAN
      BY <1>1, <1>3, <1>6, <2>1, <2>2, CallerFacts, InvFacts, LeavingCore, Zenon
    <2> QED BY <2>3, <1>1, <1>2, <1>4, CallerFacts, FramesKept, SameProc, SameFlags,
               Restored, Zenon
  <1> QED BY <1>5, <1>6, Zenon DEF suspend

\* chprio() preserves the invariant, although it leaves the old key in place.
LEMMA chprioStep ==
    ASSUME IInv, NEW p \in Pids, NEW prio \in Prios, chprio(p, prio)
    PROVE  IInv'
  <1>1. Caller("chprio")
    BY DEF chprio
  <1>2. /\ prprio' = [prprio EXCEPT ![p] = prio]
        /\ prparent' = prparent /\ prstkbase' = prstkbase /\ nextpid' = nextpid
        /\ freestks' = freestks /\ prcount' = prcount
    BY DEF chprio
  <1>3. /\ UNCHANGED semaphores /\ UNCHANGED sleepers /\ UNCHANGED kpc
        /\ UNCHANGED <<prhasmsg, halted>>
    BY DEF chprio
  <1>4. /\ UNCHANGED <<prstate, readylist, currpid, preempt>> /\ qkey' = qkey
        /\ ndefers' = ndefers /\ attempt' = attempt
    BY DEF chprio, dispatch
  <1>5. ProcTypes'
    <2>1. prio \in 0 .. MAXPRIO
      BY PrioFacts, Zenon DEF Prio
    <2> QED BY <1>2, <2>1 DEF IInv, TypeOK, ProcTypes
  <1>6. SleepTypes' /\ sleepq' = sleepq /\ SemTypes' /\ squeue' = squeue /\ prsem' = prsem
    BY <1>3, SameSems, SameSleep, Zenon
  <1>7. Core'
    BY <1>4, <1>6, InvFacts, SameCore, Zenon
  <1>8. FrameTypes' /\ DeferBalanced'
    <2>1. ndefers' = 0 /\ currpid' \in Pids
      BY <1>1, <1>4, CallerFacts
    <2> QED BY <1>1, <1>3, <2>1, CallerFacts, FramesKept, Zenon
  <1>9. FlagTypes'
    BY <1>3, <1>4, SameFlags, Zenon DEF IInv, TypeOK, FlagTypes
  <1> QED BY <1>5, <1>6, <1>7, <1>8, <1>9, Restored, Zenon

\* The states are distinct.
LEMMA StateNames ==
    /\ "SUSP" \notin Timed /\ "READY" \notin Timed /\ "CURR" \notin Timed /\ "FREE" \notin Timed
    /\ "RECV" \notin Timed /\ "WAIT" \notin Timed /\ "SLEEP" \in Timed /\ "RECTIM" \in Timed
    /\ \A v \in Timed : v # "WAIT" /\ v \notin {"CURR", "READY"}
    /\ {"FREE", "SUSP", "RECV", "WAIT", "SLEEP", "RECTIM"} \subseteq PrStates \ {"CURR", "READY"}
  BY DEF Timed, PrStates

\* unsleep() leaves a key in every entry.
LEMMA UnsleepTypes ==
    ASSUME NEW slq, NEW qk \in [Pids -> Int], NEW p \in Pids
    PROVE  UnsleepKeys(slq, qk, p) \in [Pids -> Int]
  BY DEF UnsleepKeys

\* What an unchanged dispatcher means for its parts.
LEMMA SameDispatchTuple ==
    ASSUME IInv, UNCHANGED dispatch
    PROVE  /\ UNCHANGED <<prstate, readylist, currpid, preempt>>
           /\ qkey' \in [Pids -> Int] /\ ndefers' = ndefers /\ ndefers' \in Nat
           /\ currpid' \in Pids /\ attempt' = attempt /\ attempt' \in BOOLEAN
  <1>1. /\ prstate' = prstate /\ readylist' = readylist /\ qkey' = qkey /\ currpid' = currpid
        /\ preempt' = preempt /\ ndefers' = ndefers /\ attempt' = attempt
    BY DEF dispatch
  <1>2. attempt \in BOOLEAN
    BY Zenon DEF IInv, TypeOK, FlagTypes
  <1> QED BY <1>1, <1>2, InvFacts, Zenon

\* Delivering a message, for a receiver in every state.
LEMMA DeliverCore ==
    ASSUME IInv, NEW p \in Pids, ndefers = 0, Deliver(p), UNCHANGED semaphores
    PROVE  /\ Core' /\ currpid' \in Pids /\ ndefers' = 0 /\ attempt' \in BOOLEAN
           /\ SleepTypes' /\ prhasmsg' \in [Pids -> BOOLEAN]
  <1>1. SemTypes' /\ squeue' = squeue /\ prsem' = prsem
    BY SameSems, Zenon
  <1>2. prhasmsg \in [Pids -> BOOLEAN]
    BY Zenon DEF IInv, TypeOK, FlagTypes
  <1>3. prhasmsg' = prhasmsg \/ prhasmsg' = [prhasmsg EXCEPT ![p] = TRUE]
    BY Zenon DEF Deliver
  <1>4. prhasmsg' \in [Pids -> BOOLEAN]
    BY <1>2, <1>3
  <1>5. CASE UNCHANGED dispatch /\ UNCHANGED sleepers
    <2>1. SleepTypes' /\ sleepq' = sleepq
      BY <1>5, SameSleep, Zenon
    <2> QED BY <1>1, <1>4, <1>5, <2>1, SameDispatchTuple, SameCore, Zenon
  <1>6. CASE prstate[p] = "RECV" /\ ready(p, prstate, qkey) /\ UNCHANGED sleepers
    <2>1. SleepTypes' /\ sleepq' = sleepq
      BY <1>6, SameSleep, Zenon
    <2>2. "RECV" # "WAIT" /\ "READY" # "WAIT" /\ "RECV" \notin {"CURR", "READY"}
      OBVIOUS
    <2>3. SleepOK(sleepq', [prstate EXCEPT ![p] = "READY"])
          /\ SemsOK(squeue', prsem', [prstate EXCEPT ![p] = "READY"])
      BY <1>1, <1>6, <2>1, <2>2, StateNames, SleepKept, SemsKept, Zenon
    <2> QED BY <1>4, <1>6, <2>1, <2>2, <2>3, InvFacts, ReadyCore, Zenon
  <1>7. CASE /\ prstate[p] = "RECTIM" /\ sleepq' = Without(sleepq, p)
             /\ left' = [left EXCEPT ![p] = 0]
             /\ ready(p, prstate, UnsleepKeys(sleepq, qkey, p))
    <2>1. "RECTIM" # "WAIT" /\ "READY" # "WAIT" /\ "RECTIM" \notin {"CURR", "READY"}
      OBVIOUS
    <2>2. SleepOK(sleepq', [prstate EXCEPT ![p] = "READY"]) /\ sleepq' \in Seq(Pids)
          /\ SemsOK(squeue', prsem', [prstate EXCEPT ![p] = "READY"])
      BY <1>1, <1>7, <2>1, StateNames, SleepRemoved, SemsKept, Zenon
    <2>3. left' \in [Pids -> Nat]
      BY <1>7 DEF IInv, TypeOK, SleepTypes
    <2>4. UnsleepKeys(sleepq, qkey, p) \in [Pids -> Int]
      BY InvFacts, UnsleepTypes, Zenon
    <2> QED BY <1>4, <1>7, <2>1, <2>2, <2>3, <2>4, InvFacts, ReadyCore, Zenon DEF SleepTypes
  <1> QED BY <1>5, <1>6, <1>7, Zenon DEF Deliver

\* The part of kill() up to send() preserves the invariant.
LEMMA killStep ==
    ASSUME IInv, NEW p \in Pids, kill(p)
    PROVE  IInv'
  <1>1. PICK c : Caller(c)
    BY Zenon DEF kill
  <1>2. /\ p # NULLPROC /\ prcount' = prcount - 1 /\ SetFrame(Frame("kill", p, 0))
        /\ UNCHANGED procInfo /\ UNCHANGED semaphores
    BY DEF kill
  <1>3. ProcTypes'
    BY <1>2 DEF IInv, TypeOK, ProcTypes, procInfo
  <1>4. SemTypes' /\ squeue' = squeue /\ prsem' = prsem
    BY <1>2, SameSems, Zenon
  <1>5. /\ Core' /\ currpid' \in Pids /\ ndefers' = 0 /\ attempt' \in BOOLEAN
        /\ SleepTypes' /\ prhasmsg' \in [Pids -> BOOLEAN] /\ halted' \in BOOLEAN
    <2>1. CASE halted' = TRUE /\ UNCHANGED prhasmsg /\ UNCHANGED dispatch /\ UNCHANGED sleepers
      <3>1. SleepTypes' /\ sleepq' = sleepq
        BY <2>1, SameSleep, Zenon
      <3>2. prhasmsg' \in [Pids -> BOOLEAN]
        BY <2>1, Zenon DEF IInv, TypeOK, FlagTypes
      <3> QED BY <1>1, <1>4, <2>1, <3>1, <3>2, CallerFacts, SameDispatchTuple, SameCore, Zenon
    <2>2. CASE Deliver(prparent[p]) /\ UNCHANGED halted
      <3>1. prparent[p] \in Pids
        BY DEF IInv, TypeOK, ProcTypes
      <3>2. halted' \in BOOLEAN
        BY <2>2, Zenon DEF IInv, TypeOK, FlagTypes
      <3> QED BY <1>1, <1>2, <2>2, <3>1, <3>2, CallerFacts, DeliverCore, Zenon
    <2>3. \/ halted' = TRUE /\ UNCHANGED prhasmsg /\ UNCHANGED dispatch /\ UNCHANGED sleepers
          \/ Deliver(prparent[p]) /\ UNCHANGED halted
      BY Zenon DEF kill
    <2> QED BY <2>1, <2>2, <2>3, Zenon
  <1>6. FrameTypes' /\ DeferBalanced'
    <2>1. Frame("kill", p, 0) \in Frames
      BY <1>2, FrameKinds
    <2>2. Frame("kill", p, 0).op \notin Deferring
      BY FrameOps DEF Deferring
    <2> QED BY <1>1, <1>2, <1>5, <2>1, <2>2, CallerFacts, FramesSet, Zenon
  <1> QED BY <1>3, <1>4, <1>5, <1>6, Restored, Zenon DEF FlagTypes

\* The rest of kill() preserves the invariant, whatever state its victim is in by
\* the time it runs: PR_FREE too, when another kill() has got there first.
LEMMA killTailStep ==
    ASSUME IInv, killTail
    PROVE  IInv'
  <1> DEFINE p  == kpc[currpid].arg
             st == [prstate EXCEPT ![p] = "FREE"]
             s  == prsem[p]
  <1>1. Resumes("kill") /\ "kill" \notin Deferring
    BY DEF killTail, Unwait, Deferring
  <1>2. p \in Pids /\ p # NULLPROC /\ p \in Pids \ {NULLPROC}
    BY <1>1, InvFacts, FrameArgs DEF Resumes
  <1>3. /\ freestks' = freestks \union {prstkbase[p]}
        /\ kpc' = [kpc EXCEPT ![p] = NoFrame, ![currpid] = NoFrame]
    BY Zenon DEF killTail, Unwait
  <1>4. /\ prprio' = prprio /\ prparent' = prparent /\ prstkbase' = prstkbase
        /\ nextpid' = nextpid /\ prcount' = prcount
        /\ sstate' = sstate /\ nextsem' = nextsem /\ prsem' = prsem
    BY DEF killTail, Unwait
  <1>5. UNCHANGED <<prhasmsg, halted>>
    BY DEF killTail, Unwait
  <1>6. \/ /\ prstate[p] = "CURR"
           /\ resched(ndefers, preempt, st, readylist, qkey)
           /\ UNCHANGED <<scount, squeue, sleepers>>
        \/ /\ prstate[p] # "CURR" /\ prstate' = st
           /\ UNCHANGED <<currpid, preempt, ndefers, attempt>>
           /\ \/ /\ prstate[p] \in {"SLEEP", "RECTIM"}
                 /\ sleepq' = Without(sleepq, p)
                 /\ left' = [left EXCEPT ![p] = 0]
                 /\ qkey' = UnsleepKeys(sleepq, qkey, p)
                 /\ UNCHANGED <<scount, squeue, readylist>>
              \/ /\ prstate[p] = "WAIT"
                 /\ scount' = [scount EXCEPT ![s] = @ + 1]
                 /\ squeue' = [squeue EXCEPT ![s] = Without(@, p)]
                 /\ UNCHANGED <<sleepers, qkey, readylist>>
              \/ /\ prstate[p] = "READY"
                 /\ readylist' = Without(readylist, p)
                 /\ UNCHANGED <<scount, squeue, sleepers, qkey>>
              \/ /\ prstate[p] \in {"SUSP", "RECV", "FREE"}
                 /\ UNCHANGED <<scount, squeue, sleepers, qkey, readylist>>
    BY Zenon DEF killTail, Unwait
  <1> HIDE DEF p, s
  <1>7. ProcTypes'
    BY <1>2, <1>3, <1>4 DEF IInv, TypeOK, ProcTypes
  <1>8. FrameTypes' /\ \A q \in Pids : kpc'[q].op \notin Deferring
    <2>1. kpc' \in [Pids -> Frames]
      BY <1>2, <1>3, InvFacts, FrameKinds DEF IInv, TypeOK, FrameTypes
    <2>2. \A q \in Pids : kpc'[q] = kpc[q] \/ kpc'[q] = NoFrame
      BY <1>2, <1>3, InvFacts DEF IInv, TypeOK, FrameTypes
    <2>3. NoFrame.op \notin Deferring
      BY FrameOps DEF Deferring
    <2> QED BY <1>1, <2>1, <2>2, <2>3, ResumeFacts, Zenon DEF FrameTypes
  <1> SUFFICES /\ Core' /\ currpid' \in Pids /\ ndefers' = 0 /\ attempt' \in BOOLEAN
               /\ SleepTypes' /\ scount' \in [Sems -> Int] /\ squeue' \in [Sems -> Seq(Pids)]
    <2>1. SemTypes'
      BY <1>4 DEF IInv, TypeOK, SemTypes
    <2>2. DeferBalanced'
      BY <1>8, NobodyDefers, Zenon
    <2> QED BY <1>5, <1>7, <1>8, <2>1, <2>2, SameFlags, Restored, Zenon
  <1>9. ndefers = 0 /\ currpid \in Pids
    BY <1>1, ResumeFacts, Zenon
  <1>10. /\ scount \in [Sems -> Int] /\ squeue \in [Sems -> Seq(Pids)]
         /\ sleepq \in Seq(Pids) /\ left \in [Pids -> Nat] /\ attempt \in BOOLEAN
    BY Zenon DEF IInv, TypeOK, SemTypes, SleepTypes, FlagTypes
  <1>11. ASSUME prstate[p] = "CURR", resched(ndefers, preempt, st, readylist, qkey),
                UNCHANGED <<scount, squeue, sleepers>>
         PROVE  /\ Core' /\ currpid' \in Pids /\ ndefers' = 0 /\ attempt' \in BOOLEAN
                /\ SleepTypes' /\ scount' \in [Sems -> Int] /\ squeue' \in [Sems -> Seq(Pids)]
    <2>1. p = currpid
      BY <1>2, <1>11, InvFacts, Zenon
    <2>2. scount' = scount /\ squeue' = squeue /\ sleepers' = sleepers
      BY <1>11
    <2>3. SleepTypes' /\ sleepq' = sleepq
      BY <2>2, SameSleep, Zenon
    <2>4. "CURR" # "WAIT" /\ "FREE" # "WAIT"
          /\ "FREE" \in PrStates \ {"CURR", "READY"}
      BY DEF PrStates
    <2>5. SleepOK(sleepq', st) /\ SemsOK(squeue', prsem', st)
      BY <1>2, <1>4, <1>11, <2>2, <2>3, <2>4, StateNames, SleepKept, SemsKept, Zenon
    <2>6. Core' /\ currpid' \in Pids /\ ndefers' = 0 /\ attempt' \in BOOLEAN
      BY <1>2, <1>9, <1>11, <2>1, <2>4, <2>5, InvFacts, LeavingCore, Zenon
    <2> QED BY <1>10, <2>2, <2>3, <2>6, Zenon
  <1>12. ASSUME prstate[p] # "CURR", prstate' = st,
                UNCHANGED <<currpid, preempt, ndefers, attempt>>,
                qkey' \in [Pids -> Int],
                readylist' = (IF prstate[p] = "READY" THEN Without(readylist, p) ELSE readylist),
                SleepOK(sleepq', st), SemsOK(squeue', prsem', st)
         PROVE  Core' /\ currpid' \in Pids /\ ndefers' = 0 /\ attempt' \in BOOLEAN
    <2>1. "FREE" \in PrStates \ {"CURR", "READY"}
      BY DEF PrStates
    <2>2. UNCHANGED <<currpid, preempt, ndefers>> /\ ndefers' = ndefers /\ attempt' = attempt
      BY <1>12
    <2>3. Dispatched(st) /\ st[NULLPROC] \in {"CURR", "READY"}
      BY <1>2, <1>12, <2>1, <2>2, Moved, Zenon
    <2> QED BY <1>9, <1>10, <1>12, <2>2, <2>3, CoreAfter, Zenon
  <1>13. ASSUME prstate[p] # "CURR", prstate' = st,
                UNCHANGED <<currpid, preempt, ndefers, attempt>>,
                prstate[p] \in {"SLEEP", "RECTIM"},
                sleepq' = Without(sleepq, p), left' = [left EXCEPT ![p] = 0],
                qkey' = UnsleepKeys(sleepq, qkey, p), UNCHANGED <<scount, squeue, readylist>>
         PROVE  /\ Core' /\ currpid' \in Pids /\ ndefers' = 0 /\ attempt' \in BOOLEAN
                /\ SleepTypes' /\ scount' \in [Sems -> Int] /\ squeue' \in [Sems -> Seq(Pids)]
    <2>1. prstate[p] \in Timed /\ prstate[p] # "WAIT" /\ prstate[p] # "READY" /\ "FREE" # "WAIT"
      BY <1>13 DEF Timed
    <2>2. scount' = scount /\ squeue' = squeue /\ readylist' = readylist
      BY <1>13
    <2>3. SleepOK(sleepq', st) /\ SemsOK(squeue', prsem', st) /\ sleepq' \in Seq(Pids)
      BY <1>2, <1>4, <1>13, <2>1, <2>2, StateNames, SleepRemoved, SemsKept, Zenon
    <2>4. left' \in [Pids -> Nat]
      BY <1>10, <1>13
    <2>5. qkey' \in [Pids -> Int]
      BY <1>2, <1>13, InvFacts, UnsleepTypes, Zenon
    <2>6. readylist' = (IF prstate[p] = "READY" THEN Without(readylist, p) ELSE readylist)
      BY <2>1, <2>2
    <2> QED BY <1>10, <1>12, <1>13, <2>2, <2>3, <2>4, <2>5, <2>6, Zenon DEF SleepTypes
  <1>14. ASSUME prstate[p] # "CURR", prstate' = st,
                UNCHANGED <<currpid, preempt, ndefers, attempt>>,
                prstate[p] = "WAIT",
                scount' = [scount EXCEPT ![s] = @ + 1],
                squeue' = [squeue EXCEPT ![s] = Without(@, p)],
                UNCHANGED <<sleepers, qkey, readylist>>
         PROVE  /\ Core' /\ currpid' \in Pids /\ ndefers' = 0 /\ attempt' \in BOOLEAN
                /\ SleepTypes' /\ scount' \in [Sems -> Int] /\ squeue' \in [Sems -> Seq(Pids)]
    <2>1. sleepers' = sleepers /\ qkey' = qkey /\ readylist' = readylist /\ "FREE" # "WAIT"
          /\ "WAIT" # "READY"
      BY <1>14
    <2>2. /\ s \in Sems /\ Without(squeue[s], p) \in Seq(Pids)
          /\ SemsOK(squeue', prsem', st)
      BY <1>2, <1>4, <1>14, <2>1, SemsRemoved, Zenon DEF s
    <2>3. SleepTypes' /\ sleepq' = sleepq
      BY <2>1, SameSleep, Zenon
    <2>4. SleepOK(sleepq', st)
      BY <1>2, <1>14, <2>3, StateNames, SleepKept, Zenon
    <2>5. scount' \in [Sems -> Int]
      BY <1>10, <1>14, <2>2
    <2>6. squeue' \in [Sems -> Seq(Pids)]
      BY <1>10, <1>14, <2>2
    <2>7. readylist' = (IF prstate[p] = "READY" THEN Without(readylist, p) ELSE readylist)
      BY <1>14, <2>1
    <2> QED BY <1>12, <1>14, <2>1, <2>2, <2>3, <2>4, <2>5, <2>6, <2>7, InvFacts, Zenon
  <1>15. ASSUME prstate[p] # "CURR", prstate' = st,
                UNCHANGED <<currpid, preempt, ndefers, attempt>>,
                prstate[p] \in {"READY", "SUSP", "RECV", "FREE"},
                readylist' = (IF prstate[p] = "READY" THEN Without(readylist, p) ELSE readylist),
                UNCHANGED <<scount, squeue, sleepers, qkey>>
         PROVE  /\ Core' /\ currpid' \in Pids /\ ndefers' = 0 /\ attempt' \in BOOLEAN
                /\ SleepTypes' /\ scount' \in [Sems -> Int] /\ squeue' \in [Sems -> Seq(Pids)]
    <2>1. scount' = scount /\ squeue' = squeue /\ sleepers' = sleepers /\ qkey' = qkey
      BY <1>15
    <2>2. SleepTypes' /\ sleepq' = sleepq
      BY <2>1, SameSleep, Zenon
    <2>3. prstate[p] \notin Timed /\ prstate[p] # "WAIT" /\ "FREE" # "WAIT"
      BY <1>15 DEF Timed
    <2>4. SleepOK(sleepq', st) /\ SemsOK(squeue', prsem', st)
      BY <1>2, <1>4, <2>1, <2>2, <2>3, StateNames, SleepKept, SemsKept, Zenon
    <2> QED BY <1>10, <1>12, <1>15, <2>1, <2>2, <2>4, InvFacts, Zenon
  <1>16. CASE prstate[p] = "CURR"
    BY <1>6, <1>11, <1>16, Zenon
  <1>17. CASE prstate[p] # "CURR" /\ prstate[p] \in {"SLEEP", "RECTIM"}
    BY <1>6, <1>13, <1>17
  <1>18. CASE prstate[p] = "WAIT"
    BY <1>6, <1>14, <1>18
  <1>19. CASE prstate[p] \in {"READY", "SUSP", "RECV", "FREE"}
    BY <1>6, <1>15, <1>19
  <1>20. prstate[p] \in PrStates
    BY <1>2, InvFacts
  <1> QED BY <1>16, <1>17, <1>18, <1>19, <1>20 DEF PrStates

\* semcreate() preserves the invariant.
LEMMA semcreateStep ==
    ASSUME IInv, NEW count \in Counts, semcreate(count)
    PROVE  IInv'
  <1>1. Caller("semcreate")
    BY DEF semcreate
  <1>2. PICK i \in 0 .. NSEM - 1 :
          /\ sstate' = [sstate EXCEPT ![(nextsem + i) % NSEM] = "USED"]
          /\ scount' = [scount EXCEPT ![(nextsem + i) % NSEM] = count]
          /\ nextsem' = (((nextsem + i) % NSEM) + 1) % NSEM
    BY Zenon DEF semcreate
  <1>3. /\ squeue' = squeue /\ prsem' = prsem /\ UNCHANGED <<procInfo, prcount>>
        /\ UNCHANGED dispatch /\ UNCHANGED sleepers /\ UNCHANGED kpc
        /\ UNCHANGED <<prhasmsg, halted>>
    BY DEF semcreate
  <1>4. SemTypes'
    <2>1. (nextsem + i) % NSEM \in Sems /\ (((nextsem + i) % NSEM) + 1) % NSEM \in Sems
      BY KernelAssumption DEF IInv, TypeOK, SemTypes, Sems
    <2>2. count \in Int
      BY KernelAssumption
    <2> QED BY <1>2, <1>3, <2>1, <2>2 DEF IInv, TypeOK, SemTypes
  <1>5. SleepTypes' /\ sleepq' = sleepq
    BY <1>3, SameSleep, Zenon
  <1>6. Core' /\ currpid' \in Pids /\ ndefers' = 0 /\ attempt' \in BOOLEAN
    BY <1>1, <1>3, <1>5, CallerFacts, SameDispatchTuple, SameCore, Zenon
  <1> QED BY <1>1, <1>3, <1>4, <1>5, <1>6, CallerFacts, FramesKept, SameProc, SameFlags,
             Restored, Zenon

\* The types of the semaphore table.
LEMMA SemTypeFacts ==
    ASSUME IInv
    PROVE  /\ scount \in [Sems -> Int] /\ squeue \in [Sems -> Seq(Pids)]
           /\ prsem \in [Pids -> Sems \union {-1}] /\ sstate \in [Sems -> {"FREE", "USED"}]
           /\ nextsem \in Sems
  BY Zenon DEF IInv, TypeOK, SemTypes

\* wait() preserves the invariant, whether or not it blocks.
LEMMA waitStep ==
    ASSUME IInv, NEW s \in Sems, wait(s)
    PROVE  IInv'
  <1>1. Caller("wait")
    BY DEF wait
  <1>2. /\ UNCHANGED <<procInfo, prcount>> /\ UNCHANGED sleepers /\ UNCHANGED kpc
        /\ UNCHANGED <<prhasmsg, halted>> /\ sstate' = sstate /\ nextsem' = nextsem
        /\ scount' = [scount EXCEPT ![s] = @ - 1]
    BY DEF wait
  <1>3. SleepTypes' /\ sleepq' = sleepq
    BY <1>2, SameSleep, Zenon
  <1>4. currpid \in Pids /\ prstate[currpid] = "CURR" /\ "CURR" # "WAIT"
    BY <1>1, CallerFacts, Zenon
  <1>5. CASE /\ prsem' = [prsem EXCEPT ![currpid] = s]
             /\ squeue' = [squeue EXCEPT ![s] = Append(@, currpid)]
             /\ resched(ndefers, preempt, [prstate EXCEPT ![currpid] = "WAIT"],
                        readylist, qkey)
    <2>1. /\ SemsOK(squeue', prsem', [prstate EXCEPT ![currpid] = "WAIT"])
          /\ Append(squeue[s], currpid) \in Seq(Pids)
      BY <1>4, <1>5, SemsAppended, Zenon
    <2>2. SleepOK(sleepq', [prstate EXCEPT ![currpid] = "WAIT"])
      BY <1>3, <1>4, StateNames, SleepKept, Zenon
    <2>3. "WAIT" \in PrStates \ {"CURR", "READY"}
      BY StateNames
    <2>4. Core' /\ currpid' \in Pids /\ ndefers' = 0 /\ attempt' \in BOOLEAN
      BY <1>1, <1>5, <2>1, <2>2, <2>3, CallerFacts, InvFacts, LeavingCore, Zenon
    <2>5. SemTypes'
      BY <1>2, <1>4, <1>5, <2>1, SemTypeFacts DEF SemTypes
    <2> QED BY <1>1, <1>2, <1>3, <2>4, <2>5, CallerFacts, FramesKept, SameProc, SameFlags,
               Restored, Zenon
  <1>6. CASE prsem' = prsem /\ squeue' = squeue /\ UNCHANGED dispatch
    <2>1. Core' /\ currpid' \in Pids /\ ndefers' = 0 /\ attempt' \in BOOLEAN
      BY <1>1, <1>3, <1>6, CallerFacts, SameDispatchTuple, SameCore, Zenon
    <2>2. SemTypes'
      BY <1>2, <1>6, SemTypeFacts DEF SemTypes
    <2> QED BY <1>1, <1>2, <1>3, <2>1, <2>2, CallerFacts, FramesKept, SameProc, SameFlags,
               Restored, Zenon
  <1>7. \/ /\ prsem' = [prsem EXCEPT ![currpid] = s]
           /\ squeue' = [squeue EXCEPT ![s] = Append(@, currpid)]
           /\ resched(ndefers, preempt, [prstate EXCEPT ![currpid] = "WAIT"],
                      readylist, qkey)
        \/ prsem' = prsem /\ squeue' = squeue /\ UNCHANGED dispatch
    BY DEF wait
  <1> QED BY <1>5, <1>6, <1>7, Zenon

\* ready() of the first process that waits for s.
LEMMA ReadyFirst ==
    ASSUME IInv, NEW s \in Sems, squeue[s] # <<>>,
           squeue' = [squeue EXCEPT ![s] = Tail(@)], prsem' = prsem, UNCHANGED sleepers,
           ready(Head(squeue[s]), prstate, qkey)
    PROVE  /\ Core' /\ currpid' \in Pids /\ ndefers' = ndefers /\ attempt' \in BOOLEAN
           /\ ndefers > 0 => currpid' = currpid
           /\ SleepTypes' /\ squeue' \in [Sems -> Seq(Pids)]
  <1> DEFINE h == Head(squeue[s])
  <1>1. "READY" # "WAIT" /\ "WAIT" \notin {"CURR", "READY"}
    OBVIOUS
  <1>2. /\ h \in Pids /\ prstate[h] = "WAIT" /\ Tail(squeue[s]) \in Seq(Pids)
        /\ SemsOK(squeue', prsem', [prstate EXCEPT ![h] = "READY"])
    BY <1>1, SemsHead, Zenon
  <1>3. SleepTypes' /\ sleepq' = sleepq
    BY SameSleep, Zenon
  <1>4. SleepOK(sleepq', [prstate EXCEPT ![h] = "READY"])
    BY <1>2, <1>3, StateNames, SleepKept, Zenon
  <1>5. squeue' \in [Sems -> Seq(Pids)]
    BY <1>2, SemTypeFacts
  <1> QED BY <1>1, <1>2, <1>3, <1>4, <1>5, InvFacts, ReadyCore, Zenon

\* One round of signal() leaves the lists in agreement.
LEMMA SignalOnceCore ==
    ASSUME IInv, NEW s \in Sems, SignalOnce(s), UNCHANGED sleepers,
           sstate' = sstate, nextsem' = nextsem, prsem' = prsem
    PROVE  /\ Core' /\ currpid' \in Pids /\ ndefers' = ndefers /\ attempt' \in BOOLEAN
           /\ ndefers > 0 => currpid' = currpid
           /\ SleepTypes' /\ SemTypes'
  <1>1. scount' = [scount EXCEPT ![s] = @ + 1]
    BY DEF SignalOnce
  <1>2. CASE /\ squeue[s] # <<>> /\ squeue' = [squeue EXCEPT ![s] = Tail(@)]
             /\ ready(Head(squeue[s]), prstate, qkey)
    <2>1. /\ Core' /\ currpid' \in Pids /\ ndefers' = ndefers /\ attempt' \in BOOLEAN
          /\ ndefers > 0 => currpid' = currpid
          /\ SleepTypes' /\ squeue' \in [Sems -> Seq(Pids)]
      BY <1>2, ReadyFirst, Zenon
    <2>2. SemTypes'
      <3>1. squeue' \in [Sems -> Seq(Pids)]
        BY <2>1, Zenon
      <3> QED BY <1>1, <3>1, SemTypeFacts DEF SemTypes
    <2> QED BY <2>1, <2>2, Zenon
  <1>3. CASE squeue' = squeue /\ UNCHANGED dispatch
    <2>1. SemTypes'
      BY <1>1, <1>3, SemTypeFacts DEF SemTypes
    <2>2. SleepTypes' /\ sleepq' = sleepq
      BY SameSleep, Zenon
    <2>3. currpid' = currpid
      BY <1>3 DEF dispatch
    <2> QED BY <1>3, <2>1, <2>2, <2>3, SameDispatchTuple, SameCore, Zenon
  <1>4. \/ /\ squeue[s] # <<>> /\ squeue' = [squeue EXCEPT ![s] = Tail(@)]
           /\ ready(Head(squeue[s]), prstate, qkey)
        \/ squeue' = squeue /\ UNCHANGED dispatch
    BY DEF SignalOnce
  <1> QED BY <1>2, <1>3, <1>4, Zenon

\* signal() preserves the invariant.
LEMMA signalStep ==
    ASSUME IInv, NEW s \in Sems, signal(s)
    PROVE  IInv'
  <1>1. Caller("signal") /\ SignalOnce(s)
    BY DEF signal
  <1>2. /\ UNCHANGED <<procInfo, prcount>> /\ UNCHANGED sleepers /\ UNCHANGED kpc
        /\ UNCHANGED <<prhasmsg, halted>> /\ sstate' = sstate /\ nextsem' = nextsem
        /\ prsem' = prsem
    BY DEF signal
  <1> QED BY <1>1, <1>2, CallerFacts, SignalOnceCore, FramesKept, SameProc, SameFlags,
             Restored, Zenon

\* The start of signaln() preserves the invariant.
LEMMA signalnCallStep ==
    ASSUME IInv, NEW s \in Sems, NEW count \in Counts, signaln(s, count)
    PROVE  IInv'
  <1>1. Caller("signaln") /\ SetFrame(Frame("signaln", s, count))
    BY DEF signaln
  <1>2. /\ UNCHANGED <<procInfo, prcount>> /\ UNCHANGED sleepers /\ UNCHANGED semaphores
        /\ UNCHANGED dispatch /\ UNCHANGED <<prhasmsg, halted>>
    BY DEF signaln
  <1>3. SleepTypes' /\ sleepq' = sleepq /\ SemTypes' /\ squeue' = squeue /\ prsem' = prsem
    BY <1>2, SameSems, SameSleep, Zenon
  <1>4. Core' /\ currpid' \in Pids /\ ndefers' = 0 /\ attempt' \in BOOLEAN
    BY <1>1, <1>2, <1>3, CallerFacts, SameDispatchTuple, SameCore, Zenon
  <1>5. Frame("signaln", s, count) \in Frames
    <2>1. count \in Nat
      BY KernelAssumption
    <2> QED BY <2>1, FrameKinds
  <1>6. Frame("signaln", s, count).op \notin Deferring
    BY FrameOps DEF Deferring
  <1> QED BY <1>1, <1>2, <1>3, <1>4, <1>5, <1>6, CallerFacts, FramesSet, SameProc, SameFlags,
             Restored, Zenon

\* A bare call of resched() leaves the lists in agreement.
LEMMA ReschedCore ==
    ASSUME IInv, resched(ndefers, preempt, prstate, readylist, qkey),
           sleepq' = sleepq, squeue' = squeue, prsem' = prsem
    PROVE  Core' /\ currpid' \in Pids /\ ndefers' = ndefers /\ attempt' \in BOOLEAN
  <1>1. Dispatched(prstate) /\ ndefers' = ndefers
    BY CallableNow, InvFacts, ReschedDispatches, Zenon
  <1>2. attempt \in BOOLEAN
    BY Zenon DEF IInv, TypeOK, FlagTypes
  <1>3. attempt' \in BOOLEAN
    BY <1>2, ReschedAttempt, Zenon
  <1> QED BY <1>1, <1>3, InvFacts, CoreAfter, Zenon

\* A round of the loop of signaln() preserves the invariant; another process may
\* run between two rounds.
LEMMA signalnStepStep ==
    ASSUME IInv, signalnStep
    PROVE  IInv'
  <1> DEFINE s == kpc[currpid].arg
             n == kpc[currpid].n
  <1>1. Resumes("signaln") /\ "signaln" \notin Deferring
    BY DEF signalnStep, Deferring
  <1>2. s \in Sems /\ n \in Nat
    BY <1>1, InvFacts, FrameArgs DEF Resumes
  <1>3. /\ UNCHANGED <<procInfo, prcount>> /\ UNCHANGED sleepers
        /\ UNCHANGED <<prhasmsg, halted>> /\ sstate' = sstate /\ nextsem' = nextsem
        /\ prsem' = prsem
    BY DEF signalnStep
  <1>4. \/ n > 0 /\ SetFrame(Frame("signaln", s, n - 1)) /\ SignalOnce(s)
        \/ /\ SetFrame(NoFrame)
           /\ resched(ndefers, preempt, prstate, readylist, qkey)
           /\ UNCHANGED <<scount, squeue>>
    BY Zenon DEF signalnStep
  <1> HIDE DEF s, n
  <1>5. CASE n > 0 /\ SetFrame(Frame("signaln", s, n - 1)) /\ SignalOnce(s)
    <2>1. Frame("signaln", s, n - 1) \in Frames
      <3>1. n - 1 \in Nat
        BY <1>2, <1>5
      <3> QED BY <1>2, <3>1, FrameKinds
    <2>2. Frame("signaln", s, n - 1).op \notin Deferring
      BY FrameOps DEF Deferring
    <2> QED BY <1>1, <1>2, <1>3, <1>5, <2>1, <2>2, ResumeFacts, SignalOnceCore, FramesSet,
               SameProc, SameFlags, Restored, Zenon
  <1>6. CASE /\ SetFrame(NoFrame)
             /\ resched(ndefers, preempt, prstate, readylist, qkey)
             /\ UNCHANGED <<scount, squeue>>
    <2>1. UNCHANGED semaphores
      BY <1>3, <1>6 DEF semaphores
    <2>2. SleepTypes' /\ sleepq' = sleepq /\ SemTypes' /\ squeue' = squeue
      BY <1>3, <2>1, SameSems, SameSleep, Zenon
    <2>3. Core' /\ currpid' \in Pids /\ ndefers' = 0 /\ attempt' \in BOOLEAN
      BY <1>1, <1>3, <1>6, <2>2, ResumeFacts, ReschedCore, Zenon
    <2>4. NoFrame \in Frames /\ NoFrame.op \notin Deferring
      BY FrameKinds, FrameOps DEF Deferring
    <2> QED BY <1>1, <1>3, <1>6, <2>2, <2>3, <2>4, ResumeFacts, FramesSet, SameProc, SameFlags,
               Restored, Zenon
  <1> QED BY <1>4, <1>5, <1>6, Zenon

\* resched_cntl(DEFER_START) by a process that is in its own code
LEMMA DeferStarts ==
    ASSUME IInv, UserMode, DeferStart, UNCHANGED <<prstate, readylist, currpid, preempt>>,
           qkey' \in [Pids -> Int],
           NEW f \in Frames, f.op \in Deferring, SetFrame(f),
           sleepq' = sleepq, squeue' = squeue, prsem' = prsem
    PROVE  Core' /\ FrameTypes' /\ DeferBalanced' /\ attempt' \in BOOLEAN
  <1>1. ndefers' = ndefers + 1 /\ attempt' = IF ndefers = 0 THEN FALSE ELSE attempt
    BY Zenon DEF DeferStart
  <1>2. ndefers' = 1 /\ ndefers' \in Nat /\ currpid' = currpid
    BY <1>1, UserFacts
  <1>3. attempt' \in BOOLEAN
    BY <1>1, UserFacts
  <1>4. FrameTypes' /\ DeferBalanced'
    BY <1>2, UserFacts, FrameDefers, Zenon
  <1> QED BY <1>2, <1>3, <1>4, SameCore, Zenon

\* The start of semreset() preserves the invariant.
LEMMA semresetCallStep ==
    ASSUME IInv, NEW s \in Sems, NEW count \in Counts, semreset(s, count)
    PROVE  IInv'
  <1>1. Caller("semreset") /\ DeferStart /\ SetFrame(Frame("semreset", s, count))
    BY DEF semreset
  <1>2. /\ UNCHANGED <<procInfo, prcount>> /\ UNCHANGED sleepers /\ UNCHANGED semaphores
        /\ UNCHANGED <<prstate, readylist, currpid, preempt>> /\ qkey' = qkey
        /\ UNCHANGED <<prhasmsg, halted>>
    BY DEF semreset
  <1>3. SleepTypes' /\ sleepq' = sleepq /\ SemTypes' /\ squeue' = squeue /\ prsem' = prsem
    BY <1>2, SameSems, SameSleep, Zenon
  <1>4. Frame("semreset", s, count) \in Frames
    <2>1. count \in Nat
      BY KernelAssumption
    <2> QED BY <2>1, FrameKinds
  <1>5. Frame("semreset", s, count).op \in Deferring
    BY FrameOps DEF Deferring
  <1>6. Core' /\ FrameTypes' /\ DeferBalanced' /\ attempt' \in BOOLEAN
    BY <1>1, <1>2, <1>3, <1>4, <1>5, CallerFacts, InvFacts, DeferStarts, Zenon
  <1> QED BY <1>2, <1>3, <1>6, SameProc, SameFlags, Restored, Zenon

\* The start of semdelete() preserves the invariant.
LEMMA semdeleteCallStep ==
    ASSUME IInv, NEW s \in Sems, semdelete(s)
    PROVE  IInv'
  <1>1. Caller("semdelete") /\ DeferStart /\ SetFrame(Frame("semdelete", s, 0))
    BY DEF semdelete
  <1>2. /\ UNCHANGED <<procInfo, prcount>> /\ UNCHANGED sleepers /\ UNCHANGED semaphores
        /\ UNCHANGED <<prstate, readylist, currpid, preempt>> /\ qkey' = qkey
        /\ UNCHANGED <<prhasmsg, halted>>
    BY DEF semdelete
  <1>3. SleepTypes' /\ sleepq' = sleepq /\ SemTypes' /\ squeue' = squeue /\ prsem' = prsem
    BY <1>2, SameSems, SameSleep, Zenon
  <1>4. Frame("semdelete", s, 0) \in Frames
    BY FrameKinds
  <1>5. Frame("semdelete", s, 0).op \in Deferring
    BY FrameOps DEF Deferring
  <1>6. Core' /\ FrameTypes' /\ DeferBalanced' /\ attempt' \in BOOLEAN
    BY <1>1, <1>2, <1>3, <1>4, <1>5, CallerFacts, InvFacts, DeferStarts, Zenon
  <1> QED BY <1>2, <1>3, <1>6, SameProc, SameFlags, Restored, Zenon

\* The running process is in a deferred section: nobody else is.
LEMMA DeferFacts ==
    ASSUME IInv, NEW op \in Deferring, Resumes(op)
    PROVE  /\ ndefers = 1 /\ ndefers > 0 /\ currpid \in Pids /\ kpc[currpid].op \in Deferring
           /\ \A q \in Pids \ {currpid} : kpc[q].op \notin Deferring
  <1>1. kpc[currpid].op \in Deferring
    BY Zenon DEF Resumes
  <1>2. ndefers = 1 /\ \A q \in Pids \ {currpid} : kpc[q].op \notin Deferring
    BY <1>1, Zenon DEF IInv, DeferBalanced
  <1> QED BY <1>1, <1>2, InvFacts

\* ... it stays in it, ...
LEMMA DeferContinues ==
    ASSUME IInv, NEW op \in Deferring, Resumes(op), UNCHANGED kpc,
           ndefers' = ndefers, currpid' = currpid
    PROVE  FrameTypes' /\ DeferBalanced'
  <1>1. kpc' = kpc
    OBVIOUS
  <1> QED BY <1>1, DeferFacts, Zenon DEF IInv, TypeOK, FrameTypes, DeferBalanced

\* ... or leaves it.
LEMMA DeferStops ==
    ASSUME IInv, NEW op \in Deferring, Resumes(op), DeferStop,
           NEW f \in Frames, f.op \notin Deferring, SetFrame(f),
           sleepq' = sleepq, squeue' = squeue, prsem' = prsem
    PROVE  Core' /\ FrameTypes' /\ DeferBalanced' /\ attempt' \in BOOLEAN
  <1>1. Dispatched(prstate) /\ ndefers' = 0 /\ attempt' \in BOOLEAN
    BY DeferFacts, DeferStopDispatches, Zenon
  <1>2. Core' /\ currpid' \in Pids
    BY <1>1, InvFacts, CoreAfter, Zenon
  <1>3. FrameTypes' /\ kpc'[currpid] = f /\ \A q \in Pids \ {currpid} : kpc'[q] = kpc[q]
    BY FrameSet, Zenon
  <1>4. \A q \in Pids : kpc'[q].op \notin Deferring
    BY <1>3, DeferFacts, Zenon
  <1> QED BY <1>1, <1>2, <1>3, <1>4, NobodyDefers, Zenon

\* A round of the loop of semreset(), and its end, preserve the invariant.
LEMMA semresetStepStep ==
    ASSUME IInv, semresetStep
    PROVE  IInv'
  <1> DEFINE s == kpc[currpid].arg
             n == kpc[currpid].n
  <1>1. Resumes("semreset") /\ "semreset" \in Deferring
    BY DEF semresetStep, Deferring
  <1>2. s \in Sems /\ n \in Nat
    BY <1>1, InvFacts, FrameArgs DEF Resumes
  <1>3. /\ UNCHANGED <<procInfo, prcount>> /\ UNCHANGED sleepers
        /\ UNCHANGED <<prhasmsg, halted>> /\ sstate' = sstate /\ nextsem' = nextsem
        /\ prsem' = prsem
    BY DEF semresetStep
  <1>4. \/ /\ squeue[s] # <<>>
           /\ squeue' = [squeue EXCEPT ![s] = Tail(@)]
           /\ ready(Head(squeue[s]), prstate, qkey)
           /\ UNCHANGED <<scount, kpc>>
        \/ /\ scount' = [scount EXCEPT ![s] = n]
           /\ DeferStop /\ SetFrame(NoFrame)
           /\ squeue' = squeue
    BY Zenon DEF semresetStep
  <1> HIDE DEF s, n
  <1>5. CASE /\ squeue[s] # <<>>
             /\ squeue' = [squeue EXCEPT ![s] = Tail(@)]
             /\ ready(Head(squeue[s]), prstate, qkey)
             /\ UNCHANGED <<scount, kpc>>
    <2>1. scount' = scount /\ kpc' = kpc
      BY <1>5
    <2>2. /\ Core' /\ currpid' \in Pids /\ ndefers' = ndefers /\ attempt' \in BOOLEAN
          /\ currpid' = currpid
          /\ SleepTypes' /\ squeue' \in [Sems -> Seq(Pids)]
      BY <1>1, <1>2, <1>3, <1>5, DeferFacts, ReadyFirst, Zenon
    <2>3. SemTypes'
      <3>1. squeue' \in [Sems -> Seq(Pids)]
        BY <2>2, Zenon
      <3> QED BY <1>3, <2>1, <3>1, SemTypeFacts DEF SemTypes
    <2> QED BY <1>1, <1>3, <2>1, <2>2, <2>3, DeferContinues, SameProc, SameFlags, Restored, Zenon
  <1>6. CASE /\ scount' = [scount EXCEPT ![s] = n]
             /\ DeferStop /\ SetFrame(NoFrame)
             /\ squeue' = squeue
    <2>1. SemTypes'
      BY <1>2, <1>3, <1>6, SemTypeFacts DEF SemTypes
    <2>2. SleepTypes' /\ sleepq' = sleepq
      BY <1>3, SameSleep, Zenon
    <2>3. NoFrame \in Frames /\ NoFrame.op \notin Deferring
      BY FrameKinds, FrameOps DEF Deferring
    <2>4. Core' /\ FrameTypes' /\ DeferBalanced' /\ attempt' \in BOOLEAN
      BY <1>1, <1>3, <1>6, <2>2, <2>3, DeferStops, Zenon
    <2> QED BY <1>3, <2>1, <2>2, <2>4, SameProc, SameFlags, Restored, Zenon
  <1> QED BY <1>4, <1>5, <1>6, Zenon

\* A round of the loop of semdelete(), and its end, preserve the invariant.
LEMMA semdeleteStepStep ==
    ASSUME IInv, semdeleteStep
    PROVE  IInv'
  <1> DEFINE s == kpc[currpid].arg
  <1>1. Resumes("semdelete") /\ "semdelete" \in Deferring
    BY DEF semdeleteStep, Deferring
  <1>2. s \in Sems
    BY <1>1, InvFacts, FrameArgs DEF Resumes
  <1>3. /\ UNCHANGED <<procInfo, prcount>> /\ UNCHANGED sleepers
        /\ UNCHANGED <<prhasmsg, halted>> /\ sstate' = sstate /\ nextsem' = nextsem
        /\ prsem' = prsem
    BY DEF semdeleteStep
  <1>4. \/ SignalOnce(s) /\ UNCHANGED kpc
        \/ /\ scount' = [scount EXCEPT ![s] = @ + 1]
           /\ DeferStop /\ SetFrame(NoFrame)
           /\ squeue' = squeue
    BY Zenon DEF semdeleteStep
  <1> HIDE DEF s
  <1>5. CASE SignalOnce(s) /\ UNCHANGED kpc
    <2>1. /\ Core' /\ ndefers' = ndefers /\ attempt' \in BOOLEAN /\ currpid' = currpid
          /\ SleepTypes' /\ SemTypes'
      BY <1>1, <1>2, <1>3, <1>5, DeferFacts, SignalOnceCore, Zenon
    <2> QED BY <1>1, <1>3, <1>5, <2>1, DeferContinues, SameProc, SameFlags, Restored, Zenon
  <1>6. CASE /\ scount' = [scount EXCEPT ![s] = @ + 1]
             /\ DeferStop /\ SetFrame(NoFrame)
             /\ squeue' = squeue
    <2>1. SemTypes'
      BY <1>2, <1>3, <1>6, SemTypeFacts DEF SemTypes
    <2>2. SleepTypes' /\ sleepq' = sleepq
      BY <1>3, SameSleep, Zenon
    <2>3. NoFrame \in Frames /\ NoFrame.op \notin Deferring
      BY FrameKinds, FrameOps DEF Deferring
    <2>4. Core' /\ FrameTypes' /\ DeferBalanced' /\ attempt' \in BOOLEAN
      BY <1>1, <1>3, <1>6, <2>2, <2>3, DeferStops, Zenon
    <2> QED BY <1>3, <2>1, <2>2, <2>4, SameProc, SameFlags, Restored, Zenon
  <1> QED BY <1>4, <1>5, <1>6, Zenon

\* send() preserves the invariant.
LEMMA sendStep ==
    ASSUME IInv, NEW p \in Pids, send(p)
    PROVE  IInv'
  <1>1. Caller("send") /\ Deliver(p)
    BY DEF send
  <1>2. /\ UNCHANGED <<procInfo, prcount>> /\ UNCHANGED semaphores /\ UNCHANGED kpc
        /\ halted' = halted
    BY DEF send
  <1>3. /\ Core' /\ currpid' \in Pids /\ ndefers' = 0 /\ attempt' \in BOOLEAN
        /\ SleepTypes' /\ prhasmsg' \in [Pids -> BOOLEAN]
    BY <1>1, <1>2, CallerFacts, DeliverCore, Zenon
  <1>4. FlagTypes'
    BY <1>2, <1>3, Zenon DEF IInv, TypeOK, FlagTypes
  <1> QED BY <1>1, <1>2, <1>3, <1>4, CallerFacts, FramesKept, SameProc, SameSems, Restored, Zenon

\* receive() preserves the invariant, whether or not it blocks.
LEMMA receiveStep ==
    ASSUME IInv, receive
    PROVE  IInv'
  <1>1. Caller("receive") /\ SetFrame(Frame("receive", 0, 0))
    BY DEF receive
  <1>2. /\ UNCHANGED <<procInfo, prcount>> /\ UNCHANGED semaphores /\ UNCHANGED sleepers
        /\ UNCHANGED <<prhasmsg, halted>>
    BY DEF receive
  <1>3. SleepTypes' /\ sleepq' = sleepq /\ SemTypes' /\ squeue' = squeue /\ prsem' = prsem
    BY <1>2, SameSems, SameSleep, Zenon
  <1>4. Core' /\ currpid' \in Pids /\ ndefers' = 0 /\ attempt' \in BOOLEAN
    <2>1. CASE resched(ndefers, preempt, [prstate EXCEPT ![currpid] = "RECV"], readylist, qkey)
      <3>1. "CURR" # "WAIT" /\ "RECV" # "WAIT" /\ "RECV" \in PrStates \ {"CURR", "READY"}
        BY StateNames
      <3>2. SleepOK(sleepq', [prstate EXCEPT ![currpid] = "RECV"])
            /\ SemsOK(squeue', prsem', [prstate EXCEPT ![currpid] = "RECV"])
        BY <1>1, <1>3, <3>1, CallerFacts, StateNames, SleepKept, SemsKept, Zenon
      <3> QED BY <1>1, <2>1, <3>1, <3>2, CallerFacts, InvFacts, LeavingCore, Zenon
    <2>2. CASE UNCHANGED dispatch
      BY <1>1, <1>3, <2>2, CallerFacts, SameDispatchTuple, SameCore, Zenon
    <2> QED BY <2>1, <2>2, Zenon DEF receive
  <1>5. Frame("receive", 0, 0) \in Frames /\ Frame("receive", 0, 0).op \notin Deferring
    BY FrameKinds, FrameOps DEF Deferring
  <1> QED BY <1>1, <1>2, <1>3, <1>4, <1>5, CallerFacts, FramesSet, SameProc, SameFlags,
             Restored, Zenon

\* Taking the message preserves the invariant.
LEMMA TakeMessageStep ==
    ASSUME IInv, TakeMessage
    PROVE  IInv'
  <1>1. PICK op \in {"receive", "recvtime"} : Resumes(op)
    BY Zenon DEF TakeMessage
  <1>2. SetFrame(NoFrame) /\ prhasmsg' = [prhasmsg EXCEPT ![currpid] = FALSE]
    BY Zenon DEF TakeMessage
  <1>3. /\ UNCHANGED <<procInfo, prcount>> /\ UNCHANGED semaphores /\ UNCHANGED sleepers
        /\ UNCHANGED dispatch /\ halted' = halted
    BY DEF TakeMessage
  <1>4. op \notin Deferring /\ NoFrame \in Frames /\ NoFrame.op \notin Deferring
    BY FrameKinds, FrameOps DEF Deferring
  <1>5. SleepTypes' /\ sleepq' = sleepq /\ SemTypes' /\ squeue' = squeue /\ prsem' = prsem
    BY <1>3, SameSems, SameSleep, Zenon
  <1>6. Core' /\ currpid' \in Pids /\ ndefers' = 0 /\ attempt' \in BOOLEAN
    BY <1>1, <1>3, <1>4, <1>5, ResumeFacts, SameDispatchTuple, SameCore, Zenon
  <1>7. FlagTypes'
    <2>1. prhasmsg' \in [Pids -> BOOLEAN]
      BY <1>2, InvFacts DEF IInv, TypeOK, FlagTypes
    <2> QED BY <1>3, <1>6, <2>1, Zenon DEF IInv, TypeOK, FlagTypes
  <1> QED BY <1>1, <1>2, <1>3, <1>4, <1>5, <1>6, <1>7, ResumeFacts, FramesSet, SameProc,
             Restored, Zenon

\* recvclr() preserves the invariant.
LEMMA recvclrStep ==
    ASSUME IInv, recvclr
    PROVE  IInv'
  <1>1. Caller("recvclr") /\ prhasmsg' = [prhasmsg EXCEPT ![currpid] = FALSE]
    BY Zenon DEF recvclr
  <1>3. /\ UNCHANGED <<procInfo, prcount>> /\ UNCHANGED semaphores /\ UNCHANGED sleepers
        /\ UNCHANGED dispatch /\ UNCHANGED kpc /\ halted' = halted
    BY DEF recvclr
  <1>5. SleepTypes' /\ sleepq' = sleepq /\ SemTypes' /\ squeue' = squeue /\ prsem' = prsem
    BY <1>3, SameSems, SameSleep, Zenon
  <1>6. Core' /\ currpid' \in Pids /\ ndefers' = 0 /\ attempt' \in BOOLEAN
    BY <1>1, <1>3, <1>5, CallerFacts, SameDispatchTuple, SameCore, Zenon
  <1>7. FlagTypes'
    <2>1. prhasmsg' \in [Pids -> BOOLEAN]
      BY <1>1, InvFacts DEF IInv, TypeOK, FlagTypes
    <2> QED BY <1>3, <1>6, <2>1, Zenon DEF IInv, TypeOK, FlagTypes
  <1> QED BY <1>1, <1>3, <1>5, <1>6, <1>7, CallerFacts, FramesKept, SameProc, Restored, Zenon

\* insertd() leaves a key in every entry.
LEMMA InsertdTypes ==
    ASSUME NEW slq \in Seq(Pids), NEW qk \in [Pids -> Int], NEW p \in Pids, NEW key \in Int,
           NEW i \in 1 .. Len(slq) + 1
    PROVE  InsertdKeys(slq, qk, i, p, key) \in [Pids -> Int]
  <1>1. DeltaSums(slq, qk)[i - 1] \in Int
    <2>1. DeltaSums(slq, qk) \in [0 .. Len(slq) -> Int]
      BY DeltaSumsDef, Zenon
    <2>2. i - 1 \in 0 .. Len(slq)
      OBVIOUS
    <2> QED BY <2>1, <2>2
  <1> DEFINE rest == key - DeltaSums(slq, qk)[i - 1]
  <1>2. rest \in Int
    BY <1>1
  <1> HIDE DEF rest
  <1>3. [q \in Pids |-> IF q = p THEN rest
                        ELSE IF i <= Len(slq) /\ q = slq[i] THEN qk[q] - rest
                        ELSE qk[q]] \in [Pids -> Int]
    BY <1>2
  <1> QED BY <1>3 DEF InsertdKeys, rest

\* Going to sleep leaves the lists in agreement.
LEMMA SleepInCore ==
    ASSUME IInv, currpid # NULLPROC, ndefers = 0, NEW state \in Timed, NEW key \in Int,
           SleepIn(state, key), UNCHANGED semaphores
    PROVE  /\ Core' /\ currpid' \in Pids /\ ndefers' = 0 /\ attempt' \in BOOLEAN
           /\ sleepq' \in Seq(Pids)
  <1>1. PICK i \in InsertdSlot(sleepq, qkey, key) :
          /\ sleepq' = InsertAt(sleepq, i, currpid)
          /\ resched(ndefers, preempt, [prstate EXCEPT ![currpid] = state], readylist,
                     InsertdKeys(sleepq, qkey, i, currpid, key))
    BY Zenon DEF SleepIn
  <1>2. i \in 1 .. Len(sleepq) + 1
    BY DEF InsertdSlot
  <1>3. squeue' = squeue /\ prsem' = prsem
    BY SameSems, Zenon
  <1>4. /\ prstate[currpid] = "CURR" /\ "CURR" # "WAIT" /\ state # "WAIT"
        /\ state \in PrStates \ {"CURR", "READY"}
    BY InvFacts DEF Timed, PrStates
  <1>5. sleepq \in Seq(Pids)
    BY Zenon DEF IInv, TypeOK, SleepTypes
  <1>6. InsertdKeys(sleepq, qkey, i, currpid, key) \in [Pids -> Int]
    BY <1>2, <1>5, InvFacts, InsertdTypes, Zenon
  <1>7. /\ SleepOK(sleepq', [prstate EXCEPT ![currpid] = state]) /\ sleepq' \in Seq(Pids)
        /\ SemsOK(squeue', prsem', [prstate EXCEPT ![currpid] = state])
    BY <1>1, <1>2, <1>3, <1>4, InvFacts, StateNames, SleepInserted, SemsKept, Zenon
  <1> QED BY <1>1, <1>4, <1>6, <1>7, LeavingCore, Zenon

\* sleepms() preserves the invariant, for a delay of 0 (yield) too.
LEMMA sleepmsStep ==
    ASSUME IInv, NEW delay \in Delays, sleepms(delay)
    PROVE  IInv'
  <1>1. Caller("sleepms")
    BY DEF sleepms
  <1>2. /\ UNCHANGED <<procInfo, prcount>> /\ UNCHANGED semaphores /\ UNCHANGED kpc
        /\ UNCHANGED <<prhasmsg, halted>>
    BY DEF sleepms
  <1>3. SemTypes' /\ squeue' = squeue /\ prsem' = prsem
    BY <1>2, SameSems, Zenon
  <1>4. CASE resched(ndefers, preempt, prstate, readylist, qkey) /\ UNCHANGED sleepers
    <2>1. SleepTypes' /\ sleepq' = sleepq
      BY <1>4, SameSleep, Zenon
    <2>2. Core' /\ currpid' \in Pids /\ ndefers' = 0 /\ attempt' \in BOOLEAN
      BY <1>1, <1>3, <1>4, <2>1, CallerFacts, ReschedCore, Zenon
    <2> QED BY <1>1, <1>2, <1>3, <2>1, <2>2, CallerFacts, FramesKept, SameProc, SameFlags,
               Restored, Zenon
  <1>5. CASE SleepIn("SLEEP", AsKey(delay)) /\ left' = [left EXCEPT ![currpid] = delay]
    <2>1. delay \in Nat /\ MAXKEY \in Nat
      BY KernelAssumption
    <2>2. AsKey(delay) \in Int
      BY <2>1 DEF AsKey
    <2>3. left' \in [Pids -> Nat]
      BY <1>5, <2>1 DEF IInv, TypeOK, SleepTypes
    <2>4. /\ Core' /\ currpid' \in Pids /\ ndefers' = 0 /\ attempt' \in BOOLEAN
          /\ sleepq' \in Seq(Pids)
      BY <1>1, <1>2, <1>5, <2>2, CallerFacts, StateNames, SleepInCore, Zenon
    <2> QED BY <1>1, <1>2, <1>3, <2>3, <2>4, CallerFacts, FramesKept, SameProc, SameFlags,
               Restored, Zenon DEF SleepTypes
  <1> QED BY <1>4, <1>5, Zenon DEF sleepms

\* recvtime() preserves the invariant, whether or not it blocks.
LEMMA recvtimeStep ==
    ASSUME IInv, NEW maxwait \in Waits, recvtime(maxwait)
    PROVE  IInv'
  <1>1. Caller("recvtime") /\ SetFrame(Frame("recvtime", 0, 0))
    BY DEF recvtime
  <1>2. /\ UNCHANGED <<procInfo, prcount>> /\ UNCHANGED semaphores
        /\ UNCHANGED <<prhasmsg, halted>>
    BY DEF recvtime
  <1>3. SemTypes' /\ squeue' = squeue /\ prsem' = prsem
    BY <1>2, SameSems, Zenon
  <1>4. Frame("recvtime", 0, 0) \in Frames /\ Frame("recvtime", 0, 0).op \notin Deferring
    BY FrameKinds, FrameOps DEF Deferring
  <1>5. /\ Core' /\ currpid' \in Pids /\ ndefers' = 0 /\ attempt' \in BOOLEAN /\ SleepTypes'
    <2>1. CASE SleepIn("RECTIM", maxwait) /\ left' = [left EXCEPT ![currpid] = maxwait]
      <3>1. maxwait \in Nat /\ maxwait \in Int
        BY KernelAssumption
      <3>2. left' \in [Pids -> Nat]
        BY <2>1, <3>1 DEF IInv, TypeOK, SleepTypes
      <3> QED BY <1>1, <1>2, <2>1, <3>1, <3>2, CallerFacts, StateNames, SleepInCore, Zenon
                 DEF SleepTypes
    <2>2. CASE UNCHANGED dispatch /\ UNCHANGED sleepers
      <3>1. SleepTypes' /\ sleepq' = sleepq
        BY <2>2, SameSleep, Zenon
      <3> QED BY <1>1, <1>3, <2>2, <3>1, CallerFacts, SameDispatchTuple, SameCore, Zenon
    <2>3. \/ SleepIn("RECTIM", maxwait) /\ left' = [left EXCEPT ![currpid] = maxwait]
          \/ UNCHANGED dispatch /\ UNCHANGED sleepers
      BY DEF recvtime
    <2> QED BY <2>1, <2>2, <2>3, Zenon
  <1> QED BY <1>1, <1>2, <1>3, <1>4, <1>5, CallerFacts, FramesSet, SameProc, SameFlags,
             Restored, Zenon

\* The end of a clock tick leaves the lists in agreement.
LEMMA EndOfTickCore ==
    ASSUME IInv, NEW qk \in [Pids -> Int], EndOfTick(preempt, qk),
           sleepq' = sleepq, squeue' = squeue, prsem' = prsem
    PROVE  Core' /\ currpid' \in Pids /\ ndefers' = ndefers /\ attempt' \in BOOLEAN
  BY InvFacts, EndOfTickDispatches, CoreAfter, Zenon

\* clkhandler() preserves the invariant.
LEMMA clkhandlerStep ==
    ASSUME IInv, clkhandler
    PROVE  IInv'
  <1> DEFINE qk == [qkey EXCEPT ![Head(sleepq)] = @ - 1]
  <1>1. UserMode /\ left' = [p \in Pids |-> IF left[p] > 0 THEN left[p] - 1 ELSE 0]
    BY Zenon DEF clkhandler
  <1>2. /\ UNCHANGED <<procInfo, prcount>> /\ UNCHANGED semaphores /\ sleepq' = sleepq
        /\ UNCHANGED <<prhasmsg, halted>>
    BY DEF clkhandler
  <1>3. SleepTypes'
    <2>1. left' \in [Pids -> Nat]
      BY <1>1 DEF IInv, TypeOK, SleepTypes
    <2> QED BY <1>2, <2>1, Zenon DEF IInv, TypeOK, SleepTypes
  <1>4. SemTypes' /\ squeue' = squeue /\ prsem' = prsem
    BY <1>2, SameSems, Zenon
  <1>5. sleepq # <<>> => qk \in [Pids -> Int]
    <2>1. sleepq # <<>> => Head(sleepq) \in Pids
      BY StateNames, SleepHead, Zenon
    <2> QED BY <2>1, InvFacts
  <1>6. \/ \E k \in [Pids -> Int] : EndOfTick(preempt, k) /\ UNCHANGED kpc
        \/ /\ sleepq # <<>> /\ qkey' = qk /\ DeferStart /\ SetFrame(Frame("wakeup", 0, 0))
           /\ UNCHANGED <<prstate, readylist, currpid, preempt>>
    BY <1>5, InvFacts, Zenon DEF clkhandler
  <1> HIDE DEF qk
  <1>7. ASSUME NEW k \in [Pids -> Int], EndOfTick(preempt, k), UNCHANGED kpc
        PROVE  IInv'
    BY <1>1, <1>2, <1>3, <1>4, <1>7, UserFacts, EndOfTickCore, FramesKept, SameProc, SameFlags,
       Restored, Zenon
  <1>8. ASSUME sleepq # <<>>, qkey' = qk, DeferStart, SetFrame(Frame("wakeup", 0, 0)),
               UNCHANGED <<prstate, readylist, currpid, preempt>>
        PROVE  IInv'
    <2>1. Frame("wakeup", 0, 0) \in Frames /\ Frame("wakeup", 0, 0).op \in Deferring
      BY FrameKinds, FrameOps DEF Deferring
    <2>2. Core' /\ FrameTypes' /\ DeferBalanced' /\ attempt' \in BOOLEAN
      BY <1>1, <1>2, <1>4, <1>5, <1>8, <2>1, DeferStarts, Zenon
    <2> QED BY <1>2, <1>3, <1>4, <2>2, SameProc, SameFlags, Restored, Zenon
  <1> QED BY <1>6, <1>7, <1>8, Zenon

\* A round of the loop of wakeup(), and its end, preserve the invariant.
LEMMA wakeupStepStep ==
    ASSUME IInv, wakeupStep
    PROVE  IInv'
  <1>1. Resumes("wakeup") /\ "wakeup" \in Deferring
    BY DEF wakeupStep, Deferring
  <1>2. /\ UNCHANGED <<procInfo, prcount>> /\ UNCHANGED semaphores /\ left' = left
        /\ UNCHANGED <<prhasmsg, halted>>
    BY DEF wakeupStep
  <1>3. SemTypes' /\ squeue' = squeue /\ prsem' = prsem
    BY <1>2, SameSems, Zenon
  <1>4. CASE /\ sleepq # <<>> /\ sleepq' = Tail(sleepq)
             /\ ready(Head(sleepq), prstate, qkey) /\ UNCHANGED kpc
    <2> DEFINE h == Head(sleepq)
    <2>1. /\ h \in Pids /\ prstate[h] \in Timed /\ sleepq' \in Seq(Pids)
          /\ SleepOK(sleepq', [prstate EXCEPT ![h] = "READY"])
      BY <1>4, StateNames, SleepHead, Zenon
    <2>2. prstate[h] # "WAIT" /\ prstate[h] \notin {"CURR", "READY"} /\ "READY" # "WAIT"
      BY <2>1, StateNames
    <2>3. SemsOK(squeue', prsem', [prstate EXCEPT ![h] = "READY"])
      BY <1>3, <2>1, <2>2, SemsKept, Zenon
    <2>4. /\ Core' /\ currpid' = currpid /\ ndefers' = ndefers /\ attempt' \in BOOLEAN
      BY <1>1, <1>4, <2>1, <2>2, <2>3, DeferFacts, InvFacts, ReadyCore, Zenon
    <2>5. SleepTypes'
      BY <1>2, <2>1, Zenon DEF IInv, TypeOK, SleepTypes
    <2> QED BY <1>1, <1>2, <1>3, <1>4, <2>4, <2>5, DeferContinues, SameProc, SameFlags,
               Restored, Zenon
  <1>5. CASE DeferStop /\ SetFrame(Frame("clktail", 0, 0)) /\ sleepq' = sleepq
    <2>1. Frame("clktail", 0, 0) \in Frames /\ Frame("clktail", 0, 0).op \notin Deferring
      BY FrameKinds, FrameOps DEF Deferring
    <2>2. Core' /\ FrameTypes' /\ DeferBalanced' /\ attempt' \in BOOLEAN
      BY <1>1, <1>3, <1>5, <2>1, DeferStops, Zenon
    <2>3. SleepTypes'
      BY <1>2, <1>5, Zenon DEF IInv, TypeOK, SleepTypes
    <2> QED BY <1>2, <1>3, <2>2, <2>3, SameProc, SameFlags, Restored, Zenon
  <1> QED BY <1>4, <1>5, Zenon DEF wakeupStep, Due

\* The end of clkhandler() preserves the invariant.
LEMMA clktailStep ==
    ASSUME IInv, clktail
    PROVE  IInv'
  <1>1. Resumes("clktail") /\ EndOfTick(preempt, qkey) /\ SetFrame(NoFrame)
    BY DEF clktail
  <1>2. /\ UNCHANGED <<procInfo, prcount>> /\ UNCHANGED semaphores /\ UNCHANGED sleepers
        /\ UNCHANGED <<prhasmsg, halted>>
    BY DEF clktail
  <1>3. SleepTypes' /\ sleepq' = sleepq /\ SemTypes' /\ squeue' = squeue /\ prsem' = prsem
    BY <1>2, SameSems, SameSleep, Zenon
  <1>4. "clktail" \notin Deferring /\ NoFrame \in Frames /\ NoFrame.op \notin Deferring
    BY FrameKinds, FrameOps DEF Deferring
  <1>5. Core' /\ currpid' \in Pids /\ ndefers' = 0 /\ attempt' \in BOOLEAN
    BY <1>1, <1>3, <1>4, ResumeFacts, InvFacts, EndOfTickCore, Zenon
  <1> QED BY <1>1, <1>2, <1>3, <1>4, <1>5, ResumeFacts, FramesSet, SameProc, SameFlags,
             Restored, Zenon

\* A step that changes nothing preserves the invariant.
LEMMA UnchangedStep ==
    ASSUME IInv, UNCHANGED vars
    PROVE  IInv'
  <1>1. /\ UNCHANGED <<procInfo, prcount>> /\ UNCHANGED semaphores /\ UNCHANGED sleepers
        /\ UNCHANGED <<prhasmsg, halted>> /\ UNCHANGED dispatch /\ kpc' = kpc
    BY DEF vars
  <1>2. SleepTypes' /\ sleepq' = sleepq /\ SemTypes' /\ squeue' = squeue /\ prsem' = prsem
    BY <1>1, SameSems, SameSleep, Zenon
  <1>3. Core' /\ currpid' = currpid /\ ndefers' = ndefers /\ attempt' \in BOOLEAN
    <2>1. currpid' = currpid
      BY <1>1 DEF dispatch
    <2> QED BY <1>1, <1>2, <2>1, SameDispatchTuple, SameCore, Zenon
  <1>4. FrameTypes' /\ DeferBalanced'
    BY <1>1, <1>3, Zenon DEF IInv, TypeOK, FrameTypes, DeferBalanced
  <1> QED BY <1>1, <1>2, <1>3, <1>4, SameProc, SameFlags, Restored, Zenon

-----------------------------------------------------------------------------
(* The theorems *)

\* The state in which main() starts satisfies the invariant.
LEMMA InitInv == Init => IInv
  <1> SUFFICES ASSUME Init PROVE IInv
    OBVIOUS
  <1>1. DispatchTypes
    <2>1. <<NULLPROC>> \in Seq(Pids)
      BY PidsFacts
    <2>2. QUANTUM \in 1 .. QUANTUM
      BY KernelAssumption
    <2>3. INITPRIO \in Int /\ \A p \in Pids : (IF p = MAINPROC THEN INITPRIO ELSE 0) \in Int
      BY PrioFacts, PrioIsInt
    <2>4. prstate \in [Pids -> PrStates]
      BY DEF Init, PrStates
    <2>5. qkey \in [Pids -> Int]
      BY <2>3 DEF Init
    <2> QED BY <2>1, <2>2, <2>4, <2>5, PidsFacts DEF Init, DispatchTypes
  <1>2. ProcTypes
    <2>1. prprio \in [Pids -> 0 .. MAXPRIO]
      BY PrioFacts DEF Init, Prio
    <2>2. /\ prparent \in [Pids -> Pids] /\ prcount \in Int /\ nextpid \in 1 .. NPROC
      BY PidsFacts, KernelAssumption DEF Init, NULLPROC, MAINPROC
    <2>3. PICK b \in Stacks :
            /\ prstkbase = [p \in Pids |-> IF p = MAINPROC THEN b ELSE NoStack]
            /\ freestks = Stacks \ {b}
      BY Zenon DEF Init
    <2>4. /\ prstkbase \in [Pids -> Stacks \union {NoStack}]
          /\ freestks \subseteq Stacks \union {NoStack}
      BY <2>3
    <2> QED BY <2>1, <2>2, <2>4, Zenon DEF ProcTypes
  <1>3. SemTypes
    BY KernelAssumption DEF Init, SemTypes, Sems
  <1>4. SleepTypes
    BY DEF Init, SleepTypes
  <1>5. FrameTypes
    BY FrameKinds DEF Init, FrameTypes
  <1>6. FlagTypes
    BY DEF Init, FlagTypes
  <1>7. prstate = [p \in Pids |-> CASE p = NULLPROC -> "READY"
                                    [] p = MAINPROC -> "CURR"
                                    [] OTHER -> "FREE"]
    BY DEF Init
  <1>8. /\ \A p \in Pids : prstate[p] = "CURR" <=> p = MAINPROC
        /\ \A p \in Pids : prstate[p] = "READY" <=> p = NULLPROC
        /\ \A p \in Pids : prstate[p] \in {"READY", "CURR", "FREE"}
    BY <1>7 DEF NULLPROC, MAINPROC
  <1>9. OneRuns
    BY <1>8, PidsFacts DEF OneRuns, Init
  <1>10. QueueMembership
    <2>1. ReadySet(prstate) = {NULLPROC} /\ TimedSet(prstate) = {}
      BY <1>8, PidsFacts DEF ReadySet, TimedSet, Timed
    <2>2. \A s : WaitSet(prstate, prsem, s) = {}
      BY <1>8 DEF WaitSet
    <2>3. IsListOf(<<>>, {})
      BY DEF IsListOf, IsInjective, ToSet
    <2>4. IsListOf(<<NULLPROC>>, {NULLPROC})
      BY DEF IsListOf, IsInjective, ToSet
    <2>5. /\ readylist = <<NULLPROC>> /\ sleepq = <<>> /\ \A s \in Sems : squeue[s] = <<>>
      BY DEF Init
    <2>6. \A p \in Pids : prstate[p] # "WAIT"
      BY <1>8
    <2> QED BY <2>1, <2>2, <2>3, <2>4, <2>5, <2>6
            DEF QueueMembership, ReadySet, TimedSet, WaitSet
  <1>11. DeferBalanced
    <2>1. \A p \in Pids : kpc[p].op = "none"
      BY FrameOps DEF Init
    <2>2. ndefers = 0 /\ currpid \in Pids
      BY PidsFacts DEF Init
    <2> QED BY <2>1, <2>2 DEF DeferBalanced, Deferring
  <1> QED BY <1>1, <1>2, <1>3, <1>4, <1>5, <1>6, <1>9, <1>10, <1>11, Zenon DEF IInv, TypeOK

\* Every step preserves the invariant.
LEMMA NextInv == IInv /\ [Next]_vars => IInv'
  <1> SUFFICES ASSUME IInv, [Next]_vars PROVE IInv'
    OBVIOUS
  <1>1. CASE Continue
    BY <1>1, killTailStep, signalnStepStep, semresetStepStep, semdeleteStepStep,
       TakeMessageStep, wakeupStepStep, clktailStep, Zenon DEF Continue
  <1>2. CASE SystemCall
    BY <1>2, createStep, resumeStep, suspendStep, killStep, chprioStep, semcreateStep,
       waitStep, signalStep, signalnCallStep, semresetCallStep, semdeleteCallStep, sendStep,
       receiveStep, recvclrStep, sleepmsStep, recvtimeStep, Zenon DEF SystemCall
  <1>3. CASE clkhandler
    BY <1>3, clkhandlerStep, Zenon
  <1>4. CASE stopped
    BY <1>4, UnchangedStep, Zenon DEF stopped
  <1>5. CASE UNCHANGED vars
    BY <1>5, UnchangedStep, Zenon
  <1> QED BY <1>1, <1>2, <1>3, <1>4, <1>5, Zenon DEF Next

\* The inductive invariant holds in every state that the kernel reaches.
THEOREM Invariant == Spec => []IInv
  BY InitInv, NextInv, PTL DEF Spec

\* Type correctness, for tables of any size and any arguments of the calls.
THEOREM TypeCorrect == Spec => []TypeOK
  <1>1. IInv => TypeOK
    BY DEF IInv
  <1> QED BY <1>1, Invariant, PTL

\* No sequence of system calls, clock ticks and context switches in the middle of a
\* call leaves a process on two lists, twice on one list, or on a list that is
\* not the one its prstate names.
THEOREM QueuesAgreeWithStates == Spec => []QueueMembership
  <1>1. IInv => QueueMembership
    BY DEF IInv
  <1> QED BY <1>1, Invariant, PTL

\* Exactly one process runs, it is currpid, and resched() always finds one on
\* the ready list.
THEOREM ExactlyOneRuns == Spec => []OneRuns
  <1>1. IInv => OneRuns
    BY DEF IInv
  <1> QED BY <1>1, Invariant, PTL

\* Every DEFER_START is matched by a DEFER_STOP before another process runs.
THEOREM DeferralsBalance == Spec => []DeferBalanced
  <1>1. IInv => DeferBalanced
    BY DEF IInv
  <1> QED BY <1>1, Invariant, PTL

=============================================================================
