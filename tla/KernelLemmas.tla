---------------------------- MODULE KernelLemmas ----------------------------
(***************************************************************************)
(* What the proofs about module Kernel rest on: the sums of a delta list,  *)
(* what resched() needs and what it leaves behind, and what the operations *)
(* on the lists do to the agreement between lists and process states.      *)
(***************************************************************************)
EXTENDS Kernel, ListLemmas, WellFoundedInduction

\* Every nonempty set of natural numbers has a least element: the form of
\* induction used below.
LEMMA LeastNumber ==
    ASSUME NEW S \in SUBSET Nat, S # {}
    PROVE  \E x \in S : \A y \in S : x <= y
  <1>1. IsWellFoundedOn(OpToRel(<, Nat), Nat)
    BY NatLessThanWellFounded, Zenon
  <1>2. PICK x \in S : \A y \in S : ~ (<<y, x>> \in OpToRel(<, Nat))
    BY <1>1, WFMin, Zenon
  <1>3. \A y \in S : ~ (y < x)
    BY <1>2 DEF OpToRel
  <1> QED BY <1>3

\* The sums of a delta list's keys are numbers, and each is the one before it
\* plus the entry's key.
LEMMA DeltaSumsDef ==
    ASSUME NEW slq \in Seq(Pids), NEW qk \in [Pids -> Int]
    PROVE  /\ DeltaSums(slq, qk) \in [0 .. Len(slq) -> Int]
           /\ DeltaSums(slq, qk)[0] = 0
           /\ \A i \in 1 .. Len(slq) :
                DeltaSums(slq, qk)[i] = DeltaSums(slq, qk)[i - 1] + qk[slq[i]]
  <1> DEFINE N == Len(slq)
             Good(f, n) == /\ f \in [0 .. n -> Int]
                           /\ f[0] = 0
                           /\ \A i \in 1 .. n : f[i] = f[i - 1] + qk[slq[i]]
             Bad == {n \in 0 .. N : ~ \E f : Good(f, n)}
  <1>0. N \in Nat /\ \A i \in 1 .. N : qk[slq[i]] \in Int
    BY ElementOfSeq
  <1>1. Bad = {}
    <2> SUFFICES ASSUME Bad # {} PROVE FALSE
      OBVIOUS
    <2>1. PICK n \in Bad : \A m \in Bad : n <= m
      <3>1. Bad \in SUBSET Nat
        BY <1>0
      <3> HIDE DEF Bad
      <3> QED BY <3>1, LeastNumber
    <2>2. n # 0
      <3> DEFINE z == [i \in 0 .. 0 |-> 0]
      <3>1. z \in [0 .. 0 -> Int] /\ z[0] = 0 /\ 1 .. 0 = {}
        OBVIOUS
      <3>2. Good(z, 0)
        BY <3>1, Zenon
      <3>3. \E f : Good(f, 0)
        BY <3>2, Zenon
      <3>4. 0 \notin Bad
        BY <3>3, Zenon
      <3> QED BY <3>4, <2>1, Zenon
    <2>3. PICK f : Good(f, n - 1)
      <3>1. n - 1 \in 0 .. N /\ ~(n <= n - 1)
        BY <1>0, <2>1, <2>2
      <3>2. n - 1 \notin Bad
        BY <2>1, <3>1, Zenon
      <3> QED BY <3>1, <3>2, Zenon
    <2> DEFINE g == [i \in 0 .. n |-> IF i = n THEN f[n - 1] + qk[slq[n]] ELSE f[i]]
    <2>4. n \in 1 .. N
      BY <2>1, <2>2
    <2>5. g \in [0 .. n -> Int]
      BY <1>0, <2>3, <2>4
    <2>6. g[0] = 0
      BY <2>3, <2>4
    <2>7. ASSUME NEW i \in 1 .. n PROVE g[i] = g[i - 1] + qk[slq[i]]
      BY <2>3, <2>4
    <2>8. Good(g, n)
      BY <2>5, <2>6, <2>7
    <2>9. \E h : Good(h, n)
      BY <2>8, Zenon
    <2> QED BY <2>1, <2>9, Zenon
  <1>2. PICK f : Good(f, N)
    <2>1. N \in 0 .. N
      <3> HIDE DEF N
      <3> QED BY <1>0
    <2> QED BY <1>1, <2>1, Zenon
  <1> DEFINE Rec(g) == [i \in 0 .. N |-> IF i = 0 THEN 0 ELSE g[i - 1] + qk[slq[i]]]
             sum == CHOOSE g : g = Rec(g)
  <1>3. f = Rec(f)
    BY <1>0, <1>2
  <1>4. sum = Rec(sum)
    BY <1>3
  <1>5. DeltaSums(slq, qk) = sum
    BY DEF DeltaSums
  <1> HIDE DEF sum
  <1>6. sum[0] = 0 /\ \A i \in 1 .. N : sum[i] = sum[i - 1] + qk[slq[i]]
    BY <1>0, <1>4
  <1>7. \A i \in 0 .. N : sum[i] \in Int
    <2> DEFINE Odd == {i \in 0 .. N : sum[i] \notin Int}
    <2> SUFFICES ASSUME Odd # {} PROVE FALSE
      OBVIOUS
    <2>1. PICK i \in Odd : \A j \in Odd : i <= j
      <3>1. Odd \in SUBSET Nat
        BY <1>0
      <3> HIDE DEF Odd
      <3> QED BY <3>1, LeastNumber
    <2>2. i # 0
      BY <1>6, <2>1
    <2>3. sum[i - 1] \in Int
      BY <1>0, <2>1, <2>2
    <2>4. i \in 1 .. N
      BY <1>0, <2>1, <2>2
    <2>5. sum[i] = sum[i - 1] + qk[slq[i]] /\ qk[slq[i]] \in Int
      BY <1>0, <1>6, <2>4
    <2> QED BY <2>1, <2>3, <2>5
  <1>8. sum \in [0 .. N -> Int]
    BY <1>4, <1>7
  <1> QED BY <1>5, <1>6, <1>8

-----------------------------------------------------------------------------
(* The dispatcher *)

Prio == 0 .. MAXPRIO

ReadySet(st) == {p \in Pids : st[p] = "READY"}

Typed(st, rl, qk) ==
    st \in [Pids -> PrStates] /\ rl \in Seq(Pids) /\ qk \in [Pids -> Int]

\* what resched() needs of the state it is called in
Callable(nd, pre, st, rl, qk) ==
    /\ nd \in Nat /\ pre \in 1 .. QUANTUM
    /\ Typed(st, rl, qk)
    /\ IsListOf(rl, ReadySet(st))
    /\ \A p \in Pids : st[p] = "CURR" => p = currpid
    /\ st[NULLPROC] \in {"CURR", "READY"}
    /\ nd > 0 => st[currpid] = "CURR"

\* what resched() leaves behind: one process runs, and the states in st have
\* changed only between PR_CURR and PR_READY
Dispatched(st) ==
    /\ prstate' \in [Pids -> PrStates]
    /\ readylist' \in Seq(Pids)
    /\ qkey' \in [Pids -> Int]
    /\ currpid' \in Pids
    /\ preempt' \in 1 .. QUANTUM
    /\ ndefers' \in Nat
    /\ IsListOf(readylist', ReadySet(prstate'))
    /\ \A p \in Pids : prstate'[p] = "CURR" <=> p = currpid'
    /\ \A p \in Pids : \/ prstate'[p] = st[p]
                       \/ prstate'[p] \in {"CURR", "READY"} /\ st[p] \in {"CURR", "READY"}
    /\ ndefers' > 0 => currpid' = currpid

\* Priorities are numbers.
LEMMA PrioIsInt == Prio \subseteq Int
  BY DEF Prio

\* The priorities that create(), chprio() and nulluser() use are 16-bit ones.
LEMMA PrioFacts == /\ Prios \subseteq Prio
                   /\ INITPRIO \in Prio /\ 0 \in Prio
  <1>1. MAXPRIO \in Nat
    BY SMT DEF MAXPRIO
  <1>2. Prios \subseteq 1 .. MAXPRIO /\ INITPRIO \in 1 .. MAXPRIO
    BY KernelAssumption, Zenon
  <1> QED BY <1>1, <1>2 DEF Prio

\* The table has an entry for the null process and for the process of main().
LEMMA PidsFacts == Pids \subseteq Nat /\ NULLPROC \in Pids /\ MAINPROC \in Pids
  BY KernelAssumption DEF Pids, NULLPROC, MAINPROC

\* resched() leaves Defer.attempt a Boolean.
LEMMA ReschedAttempt ==
    ASSUME attempt \in BOOLEAN, NEW nd, NEW pre, NEW st, NEW rl, NEW qk,
           resched(nd, pre, st, rl, qk)
    PROVE  attempt' \in BOOLEAN
  <1>1. attempt' = IF nd > 0 THEN TRUE ELSE attempt
    BY DEF resched
  <1> QED BY <1>1

\* The context switch of resched() takes the head of a ready list that holds at
\* least the null process, and makes it the one running process.
LEMMA CtxSwDispatches ==
    ASSUME NEW st, NEW rl, NEW qk, Typed(st, rl, qk),
           IsListOf(rl, ReadySet(st)), st[NULLPROC] = "READY",
           \A p \in Pids : st[p] # "CURR",
           ndefers' = 0, CtxSw(st, rl, qk)
    PROVE  Dispatched(st)
  <1>0. st \in [Pids -> PrStates]
    BY DEF Typed
  <1>a. rl \in Seq(Pids) /\ qk \in [Pids -> Int]
    BY DEF Typed
  <1>1. rl # <<>>
    <2>1. NULLPROC \in ToSet(rl)
      BY PidsFacts DEF IsListOf, ReadySet
    <2> QED BY <2>1 DEF ToSet
  <1> DEFINE h == Head(rl)
  <1>2. h \in ReadySet(st) /\ h \in Pids /\ Tail(rl) \in Seq(Pids)
        /\ IsListOf(Tail(rl), ReadySet(st) \ {h})
    BY <1>a, <1>1, ListTail
  <1> HIDE DEF h
  <1>3. prstate' = [st EXCEPT ![h] = "CURR"] /\ currpid' = h /\ readylist' = Tail(rl)
        /\ qkey' = qk /\ preempt' = QUANTUM
    BY DEF CtxSw, h
  <1>4. ReadySet(prstate') = ReadySet(st) \ {h}
    BY <1>0, <1>2, <1>3 DEF ReadySet
  <1>5. IsListOf(readylist', ReadySet(prstate')) /\ readylist' \in Seq(Pids)
    BY <1>2, <1>3, <1>4
  <1>6. prstate' \in [Pids -> PrStates]
    BY <1>0, <1>2, <1>3 DEF PrStates
  <1>7. \A p \in Pids : prstate'[p] = "CURR" <=> p = currpid'
    BY <1>0, <1>2, <1>3
  <1>8. \A p \in Pids : \/ prstate'[p] = st[p]
                        \/ prstate'[p] \in {"CURR", "READY"} /\ st[p] \in {"CURR", "READY"}
    BY <1>0, <1>2, <1>3 DEF ReadySet
  <1>9. preempt' \in 1 .. QUANTUM /\ currpid' \in Pids /\ qkey' \in [Pids -> Int]
    BY <1>a, <1>2, <1>3, KernelAssumption
  <1>10. ndefers' \in Nat /\ ~(ndefers' > 0)
    OBVIOUS
  <1> QED BY <1>5, <1>6, <1>7, <1>8, <1>9, <1>10, Zenon DEF Dispatched

\* The part of resched() that makes the running process ready again.
LEMMA PreemptDispatches ==
    ASSUME NEW nd, NEW pre, NEW st, NEW rl, NEW qk, NEW i, NEW st2, NEW rl2, NEW qk2,
           currpid \in Pids, prprio \in [Pids -> Prio],
           Callable(nd, pre, st, rl, qk), st[currpid] = "CURR",
           i \in InsertSlot(rl, qk, prprio[currpid]),
           st2 = [st EXCEPT ![currpid] = "READY"],
           rl2 = InsertAt(rl, i, currpid),
           qk2 = [qk EXCEPT ![currpid] = prprio[currpid]],
           ndefers' = 0, CtxSw(st2, rl2, qk2)
    PROVE  Dispatched(st)
  <1>0. IsListOf(rl, ReadySet(st)) /\ i \in 1 .. Len(rl) + 1 /\ rl \in Seq(Pids)
    BY DEF Callable, InsertSlot, Typed
  <1>1. st \in [Pids -> PrStates]
    BY DEF Callable, Typed
  <1>2. currpid \in Pids \ ReadySet(st)
    BY DEF ReadySet
  <1>3. rl2 \in Seq(Pids) /\ IsListOf(rl2, ReadySet(st) \union {currpid})
    BY <1>0, <1>2, ListInsert
  <1>4. st2 \in [Pids -> PrStates]
    BY <1>1 DEF PrStates
  <1>5. qk2 \in [Pids -> Int]
    BY PrioIsInt DEF Callable, Typed
  <1>6. ReadySet(st2) = ReadySet(st) \union {currpid}
    BY <1>1 DEF ReadySet
  <1>7. st2[NULLPROC] = "READY" /\ \A p \in Pids : st2[p] # "CURR"
    BY <1>1, PidsFacts DEF Callable
  <1>8. \A p \in Pids : \/ st2[p] = st[p]
                        \/ st2[p] \in {"CURR", "READY"} /\ st[p] \in {"CURR", "READY"}
    BY <1>1
  <1>9. Dispatched(st2)
    <2>1. IsListOf(rl2, ReadySet(st2)) /\ Typed(st2, rl2, qk2)
      BY <1>3, <1>4, <1>5, <1>6 DEF Typed
    <2> QED BY <2>1, <1>7, CtxSwDispatches, Zenon
  <1>10. \A p \in Pids : \/ prstate'[p] = st[p]
                         \/ prstate'[p] \in {"CURR", "READY"} /\ st[p] \in {"CURR", "READY"}
    BY <1>8, <1>9, Zenon DEF Dispatched
  <1> QED BY <1>9, <1>10, Zenon DEF Dispatched

\* resched() leaves exactly one process running, whatever it is called with.
LEMMA ReschedDispatches ==
    ASSUME NEW nd, NEW pre, NEW st, NEW rl, NEW qk,
           currpid \in Pids, prprio \in [Pids -> Prio],
           Callable(nd, pre, st, rl, qk), resched(nd, pre, st, rl, qk)
    PROVE  Dispatched(st) /\ ndefers' = nd
  <1>1. ndefers' = nd
    BY Zenon DEF resched
  <1>2. ASSUME st[currpid] = "CURR", Stay(pre, st, rl, qk)
        PROVE  Dispatched(st)
    <2>1. prstate' = st /\ readylist' = rl /\ qkey' = qk /\ preempt' = pre /\ currpid' = currpid
      BY <1>2 DEF Stay
    <2>2. \A p \in Pids : prstate'[p] = "CURR" <=> p = currpid'
      BY <1>2, <2>1 DEF Callable
    <2> QED BY <1>1, <2>1, <2>2, Zenon DEF Dispatched, Callable, Typed
  <1>3. ASSUME nd = 0, st[currpid] # "CURR", CtxSw(st, rl, qk)
        PROVE  Dispatched(st)
    <2>1. st[NULLPROC] = "READY" /\ \A p \in Pids : st[p] # "CURR"
      BY <1>3, PidsFacts DEF Callable
    <2>2. IsListOf(rl, ReadySet(st)) /\ Typed(st, rl, qk)
      BY Zenon DEF Callable
    <2> QED BY <1>1, <1>3, <2>1, <2>2, CtxSwDispatches, Zenon
  <1>4. ASSUME nd = 0, st[currpid] = "CURR",
               NEW i \in InsertSlot(rl, qk, prprio[currpid]),
               CtxSw([st EXCEPT ![currpid] = "READY"], InsertAt(rl, i, currpid),
                     [qk EXCEPT ![currpid] = prprio[currpid]])
        PROVE  Dispatched(st)
    BY <1>1, <1>4, PreemptDispatches, Zenon
  <1>5. nd > 0 => st[currpid] = "CURR"
    BY Zenon DEF Callable
  <1> QED BY <1>1, <1>2, <1>3, <1>4, <1>5, Zenon DEF resched

\* ready() makes p ready and reschedules.
LEMMA ReadyDispatches ==
    ASSUME NEW st, NEW qk, NEW p \in Pids, currpid \in Pids, prprio \in [Pids -> Prio],
           Callable(ndefers, preempt, st, readylist, qk),
           st[p] \notin {"CURR", "READY"}, ready(p, st, qk)
    PROVE  Dispatched([st EXCEPT ![p] = "READY"]) /\ ndefers' = ndefers
  <1> DEFINE st2 == [st EXCEPT ![p] = "READY"]
             qk2 == [qk EXCEPT ![p] = prprio[p]]
  <1>1. PICK i \in InsertSlot(readylist, qk, prprio[p]) :
            resched(ndefers, preempt, st2, InsertAt(readylist, i, p), qk2)
    BY Zenon DEF ready
  <1> DEFINE rl2 == InsertAt(readylist, i, p)
  <1>0. /\ IsListOf(readylist, ReadySet(st)) /\ i \in 1 .. Len(readylist) + 1
        /\ readylist \in Seq(Pids)
    BY DEF Callable, InsertSlot, Typed
  <1>a. st \in [Pids -> PrStates]
    BY DEF Callable, Typed
  <1>2. p \in Pids \ ReadySet(st)
    BY DEF ReadySet
  <1>3. rl2 \in Seq(Pids) /\ IsListOf(rl2, ReadySet(st) \union {p})
    BY <1>0, <1>2, ListInsert
  <1>4. st2 \in [Pids -> PrStates]
    BY <1>a DEF PrStates
  <1>b. qk2 \in [Pids -> Int]
    BY PrioIsInt DEF Callable, Typed
  <1>5. ReadySet(st2) = ReadySet(st) \union {p}
    BY <1>a DEF ReadySet
  <1>6. /\ \A q \in Pids : st2[q] = "CURR" => q = currpid
        /\ st2[NULLPROC] \in {"CURR", "READY"}
        /\ ndefers > 0 => st2[currpid] = "CURR"
    BY <1>a, PidsFacts DEF Callable
  <1>8. resched(ndefers, preempt, st2, rl2, qk2)
    BY <1>1, Zenon
  <1> HIDE DEF st2, rl2, qk2
  <1>c. ndefers \in Nat /\ preempt \in 1 .. QUANTUM
    BY Zenon DEF Callable
  <1>d. IsListOf(rl2, ReadySet(st2))
    BY <1>3, <1>5, Zenon
  <1>7. Callable(ndefers, preempt, st2, rl2, qk2)
    BY <1>3, <1>4, <1>b, <1>c, <1>d, <1>6, Zenon DEF Callable, Typed
  <1>9. Dispatched(st2) /\ ndefers' = ndefers
    BY <1>7, <1>8, ReschedDispatches, Zenon
  <1> QED BY <1>9, Zenon DEF st2

-----------------------------------------------------------------------------
(* The inductive invariant, and what the list operations do to it *)

IInv == TypeOK /\ QueueMembership /\ OneRuns /\ DeferBalanced

TimedSet(st) == {p \in Pids : st[p] \in Timed}
WaitSet(st, ps, s) == {p \in Pids : st[p] = "WAIT" /\ ps[p] = s}

\* the sleep queue and the semaphore queues agree with the states st
SleepOK(slq, st) == IsListOf(slq, TimedSet(st))
SemsOK(sq, ps, st) ==
    /\ \A s \in Sems : IsListOf(sq[s], WaitSet(st, ps, s))
    /\ \A p \in Pids : st[p] = "WAIT" => ps[p] \in Sems

\* The parts of the invariant that the steps below use.
LEMMA InvFacts ==
    ASSUME IInv
    PROVE  /\ prstate \in [Pids -> PrStates] /\ readylist \in Seq(Pids)
           /\ qkey \in [Pids -> Int] /\ currpid \in Pids /\ preempt \in 1 .. QUANTUM
           /\ ndefers \in Nat /\ prprio \in [Pids -> Prio]
           /\ SleepOK(sleepq, prstate)
           /\ SemsOK(squeue, prsem, prstate)
           /\ IsListOf(readylist, ReadySet(prstate))
           /\ \A p \in Pids : prstate[p] = "CURR" <=> p = currpid
           /\ prstate[NULLPROC] \in {"CURR", "READY"}
  BY Zenon DEF IInv, TypeOK, DispatchTypes, ProcTypes, Prio, QueueMembership, OneRuns,
               SleepOK, SemsOK, TimedSet, WaitSet, ReadySet

\* resched() may be called in every state of the invariant.
LEMMA CallableNow ==
    ASSUME IInv
    PROVE  Callable(ndefers, preempt, prstate, readylist, qkey)
  BY InvFacts, Zenon DEF Callable, Typed

\* A step that does not touch the dispatcher leaves it in order.
LEMMA SameDispatch ==
    ASSUME IInv, UNCHANGED <<prstate, readylist, currpid, preempt>>,
           qkey' \in [Pids -> Int], ndefers' \in Nat
    PROVE  Dispatched(prstate)
  <1>1. prstate' = prstate /\ readylist' = readylist /\ currpid' = currpid /\ preempt' = preempt
    OBVIOUS
  <1> QED BY <1>1, InvFacts, Zenon DEF Dispatched

\* sleepq still holds the timed processes when another process changes state.
LEMMA SleepKept ==
    ASSUME IInv, NEW p \in Pids, NEW v, prstate[p] \notin Timed, v \notin Timed
    PROVE  SleepOK(sleepq, [prstate EXCEPT ![p] = v])
  <1>1. TimedSet([prstate EXCEPT ![p] = v]) = TimedSet(prstate)
    BY InvFacts DEF TimedSet
  <1> QED BY <1>1, InvFacts, Zenon DEF SleepOK

\* unsleep() takes a timed process off sleepq.
LEMMA SleepRemoved ==
    ASSUME IInv, NEW p \in Pids, NEW v, prstate[p] \in Timed, v \notin Timed
    PROVE  /\ SleepOK(Without(sleepq, p), [prstate EXCEPT ![p] = v])
           /\ Without(sleepq, p) \in Seq(Pids)
  <1>1. TimedSet([prstate EXCEPT ![p] = v]) = TimedSet(prstate) \ {p}
    BY InvFacts DEF TimedSet
  <1>2. p \in TimedSet(prstate) /\ sleepq \in Seq(Pids) /\ IsListOf(sleepq, TimedSet(prstate))
    BY InvFacts, Zenon DEF TimedSet, SleepOK, IInv, TypeOK, SleepTypes
  <1>3. /\ Without(sleepq, p) \in Seq(Pids)
        /\ IsListOf(Without(sleepq, p), TimedSet(prstate) \ {p})
    BY <1>2, ListRemove
  <1> QED BY <1>1, <1>3, Zenon DEF SleepOK

\* wakeup() takes the head of sleepq, which is a timed process.
LEMMA SleepHead ==
    ASSUME IInv, sleepq # <<>>, NEW v, v \notin Timed
    PROVE  /\ Head(sleepq) \in Pids /\ prstate[Head(sleepq)] \in Timed
           /\ SleepOK(Tail(sleepq), [prstate EXCEPT ![Head(sleepq)] = v])
           /\ Tail(sleepq) \in Seq(Pids)
  <1> DEFINE h == Head(sleepq)
  <1>1. sleepq \in Seq(Pids) /\ IsListOf(sleepq, TimedSet(prstate))
    BY InvFacts, Zenon DEF SleepOK, IInv, TypeOK, SleepTypes
  <1>2. /\ h \in TimedSet(prstate) /\ h \in Pids /\ Tail(sleepq) \in Seq(Pids)
        /\ IsListOf(Tail(sleepq), TimedSet(prstate) \ {h})
    BY <1>1, ListTail
  <1> HIDE DEF h
  <1>3. TimedSet([prstate EXCEPT ![h] = v]) = TimedSet(prstate) \ {h}
    BY <1>2, InvFacts DEF TimedSet
  <1>4. prstate[h] \in Timed
    BY <1>2 DEF TimedSet
  <1> QED BY <1>2, <1>3, <1>4 DEF SleepOK, h

\* insertd() puts a process that becomes timed onto sleepq.
LEMMA SleepInserted ==
    ASSUME IInv, NEW p \in Pids, NEW v \in Timed, prstate[p] \notin Timed,
           NEW i \in 1 .. Len(sleepq) + 1
    PROVE  /\ SleepOK(InsertAt(sleepq, i, p), [prstate EXCEPT ![p] = v])
           /\ InsertAt(sleepq, i, p) \in Seq(Pids)
  <1>1. TimedSet([prstate EXCEPT ![p] = v]) = TimedSet(prstate) \union {p}
    BY InvFacts DEF TimedSet
  <1>2. /\ p \in Pids \ TimedSet(prstate) /\ sleepq \in Seq(Pids)
        /\ IsListOf(sleepq, TimedSet(prstate))
    BY InvFacts, Zenon DEF TimedSet, SleepOK, IInv, TypeOK, SleepTypes
  <1>3. /\ InsertAt(sleepq, i, p) \in Seq(Pids)
        /\ IsListOf(InsertAt(sleepq, i, p), TimedSet(prstate) \union {p})
    BY <1>2, ListInsert
  <1> QED BY <1>1, <1>3, Zenon DEF SleepOK

\* The semaphore queues still hold the waiting processes when a process that
\* does not wait changes state.
LEMMA SemsKept ==
    ASSUME IInv, NEW p \in Pids, NEW v, prstate[p] # "WAIT", v # "WAIT"
    PROVE  SemsOK(squeue, prsem, [prstate EXCEPT ![p] = v])
  <1>1. \A s : WaitSet([prstate EXCEPT ![p] = v], prsem, s) = WaitSet(prstate, prsem, s)
    BY InvFacts DEF WaitSet
  <1>2. \A q \in Pids : [prstate EXCEPT ![p] = v][q] = "WAIT" => prsem[q] \in Sems
    BY InvFacts DEF SemsOK
  <1> QED BY <1>1, <1>2, InvFacts DEF SemsOK

\* getitem() in kill() takes a waiting process off the queue of its semaphore.
LEMMA SemsRemoved ==
    ASSUME IInv, NEW p \in Pids, NEW v, prstate[p] = "WAIT", v # "WAIT"
    PROVE  /\ prsem[p] \in Sems
           /\ SemsOK([squeue EXCEPT ![prsem[p]] = Without(@, p)], prsem,
                     [prstate EXCEPT ![p] = v])
           /\ Without(squeue[prsem[p]], p) \in Seq(Pids)
           /\ Len(Without(squeue[prsem[p]], p)) = Len(squeue[prsem[p]]) - 1
  <1> DEFINE s == prsem[p]
             t == Without(squeue[s], p)
             st2 == [prstate EXCEPT ![p] = v]
  <1>1. s \in Sems /\ IsListOf(squeue[s], WaitSet(prstate, prsem, s))
    BY InvFacts DEF SemsOK
  <1>2. squeue \in [Sems -> Seq(Pids)]
    BY Zenon DEF IInv, TypeOK, SemTypes
  <1>3. p \in WaitSet(prstate, prsem, s)
    BY DEF WaitSet
  <1>4. /\ t \in Seq(Pids) /\ Len(t) = Len(squeue[s]) - 1
        /\ IsListOf(t, WaitSet(prstate, prsem, s) \ {p})
    BY <1>1, <1>2, <1>3, ListRemove
  <1>5. /\ WaitSet(st2, prsem, s) = WaitSet(prstate, prsem, s) \ {p}
        /\ \A r \in Sems : r # s => WaitSet(st2, prsem, r) = WaitSet(prstate, prsem, r)
    BY InvFacts DEF WaitSet
  <1>6. \A q \in Pids : st2[q] = "WAIT" => prsem[q] \in Sems
    BY InvFacts DEF SemsOK
  <1> HIDE DEF st2, t, s
  <1>7. \A r \in Sems : IsListOf([squeue EXCEPT ![s] = t][r], WaitSet(st2, prsem, r))
    BY <1>1, <1>2, <1>4, <1>5, InvFacts DEF SemsOK
  <1>8. SemsOK([squeue EXCEPT ![s] = t], prsem, st2)
    BY <1>6, <1>7, Zenon DEF SemsOK
  <1>9. [squeue EXCEPT ![s] = t] = [squeue EXCEPT ![s] = Without(@, p)]
    BY <1>1, <1>2 DEF t
  <1> QED BY <1>1, <1>4, <1>8, <1>9 DEF s, t, st2

\* dequeue() of a semaphore queue yields a process that waits.
LEMMA SemsHead ==
    ASSUME IInv, NEW s \in Sems, squeue[s] # <<>>, NEW v, v # "WAIT"
    PROVE  /\ Head(squeue[s]) \in Pids /\ prstate[Head(squeue[s])] = "WAIT"
           /\ SemsOK([squeue EXCEPT ![s] = Tail(@)], prsem,
                     [prstate EXCEPT ![Head(squeue[s])] = v])
           /\ Tail(squeue[s]) \in Seq(Pids)
           /\ Len(Tail(squeue[s])) = Len(squeue[s]) - 1
  <1> DEFINE h == Head(squeue[s])
             t == Tail(squeue[s])
             st2 == [prstate EXCEPT ![h] = v]
  <1>1. squeue \in [Sems -> Seq(Pids)] /\ squeue[s] \in Seq(Pids)
    BY DEF IInv, TypeOK, SemTypes
  <1>2. IsListOf(squeue[s], WaitSet(prstate, prsem, s))
    BY InvFacts, Zenon DEF SemsOK
  <1>3. /\ h \in WaitSet(prstate, prsem, s) /\ h \in Pids
        /\ t \in Seq(Pids) /\ Len(t) = Len(squeue[s]) - 1
        /\ IsListOf(t, WaitSet(prstate, prsem, s) \ {h})
    BY <1>1, <1>2, ListTail
  <1> HIDE DEF h, t
  <1>4. prstate[h] = "WAIT" /\ prsem[h] = s
    BY <1>3 DEF WaitSet
  <1>5. /\ WaitSet(st2, prsem, s) = WaitSet(prstate, prsem, s) \ {h}
        /\ \A r \in Sems : r # s => WaitSet(st2, prsem, r) = WaitSet(prstate, prsem, r)
    BY <1>3, <1>4, InvFacts DEF WaitSet
  <1>6. \A q \in Pids : st2[q] = "WAIT" => prsem[q] \in Sems
    BY <1>3, InvFacts DEF SemsOK
  <1> HIDE DEF st2
  <1>7. \A r \in Sems : IsListOf([squeue EXCEPT ![s] = t][r], WaitSet(st2, prsem, r))
    BY <1>1, <1>3, <1>5, InvFacts DEF SemsOK
  <1>8. SemsOK([squeue EXCEPT ![s] = t], prsem, st2)
    BY <1>6, <1>7, Zenon DEF SemsOK
  <1>9. [squeue EXCEPT ![s] = t] = [squeue EXCEPT ![s] = Tail(@)]
    BY <1>1 DEF t
  <1> QED BY <1>3, <1>4, <1>8, <1>9 DEF h, t, st2

\* wait() puts the caller at the end of the queue of the semaphore.
LEMMA SemsAppended ==
    ASSUME IInv, NEW s \in Sems, NEW p \in Pids, prstate[p] # "WAIT"
    PROVE  /\ SemsOK([squeue EXCEPT ![s] = Append(@, p)], [prsem EXCEPT ![p] = s],
                     [prstate EXCEPT ![p] = "WAIT"])
           /\ Append(squeue[s], p) \in Seq(Pids)
           /\ Len(Append(squeue[s], p)) = Len(squeue[s]) + 1
  <1> DEFINE t == Append(squeue[s], p)
             st2 == [prstate EXCEPT ![p] = "WAIT"]
             ps2 == [prsem EXCEPT ![p] = s]
  <1>1. squeue \in [Sems -> Seq(Pids)] /\ squeue[s] \in Seq(Pids)
    BY DEF IInv, TypeOK, SemTypes
  <1>a. prsem \in [Pids -> Sems \union {-1}]
    BY Zenon DEF IInv, TypeOK, SemTypes
  <1>2. IsListOf(squeue[s], WaitSet(prstate, prsem, s))
    BY InvFacts, Zenon DEF SemsOK
  <1>3. p \in Pids \ WaitSet(prstate, prsem, s)
    BY DEF WaitSet
  <1>4. /\ t \in Seq(Pids) /\ Len(t) = Len(squeue[s]) + 1
        /\ IsListOf(t, WaitSet(prstate, prsem, s) \union {p})
    BY <1>1, <1>2, <1>3, ListAppend
  <1>5. /\ WaitSet(st2, ps2, s) = WaitSet(prstate, prsem, s) \union {p}
        /\ \A r \in Sems : r # s => WaitSet(st2, ps2, r) = WaitSet(prstate, prsem, r)
    BY <1>a, InvFacts DEF WaitSet
  <1>6. \A q \in Pids : st2[q] = "WAIT" => ps2[q] \in Sems
    BY <1>a, InvFacts DEF SemsOK
  <1> HIDE DEF st2, ps2, t
  <1>7. \A r \in Sems : IsListOf([squeue EXCEPT ![s] = t][r], WaitSet(st2, ps2, r))
    BY <1>1, <1>4, <1>5, InvFacts DEF SemsOK
  <1>8. SemsOK([squeue EXCEPT ![s] = t], ps2, st2)
    BY <1>6, <1>7, Zenon DEF SemsOK
  <1>9. [squeue EXCEPT ![s] = t] = [squeue EXCEPT ![s] = Append(@, p)]
    BY <1>1 DEF t
  <1> QED BY <1>4, <1>8, <1>9 DEF t, st2, ps2

-----------------------------------------------------------------------------
(* Putting the invariant together again after a step *)

\* The states st are what the step made of prstate before it rescheduled.
LEMMA ListsAfter ==
    ASSUME NEW st, Dispatched(st), st[NULLPROC] \in {"CURR", "READY"},
           SleepOK(sleepq', st), SemsOK(squeue', prsem', st)
    PROVE  QueueMembership' /\ OneRuns'
  <1>1. \A p \in Pids : \/ prstate'[p] = st[p]
                        \/ prstate'[p] \in {"CURR", "READY"} /\ st[p] \in {"CURR", "READY"}
    BY Zenon DEF Dispatched
  <1>2. TimedSet(prstate') = TimedSet(st)
    BY <1>1 DEF TimedSet, Timed
  <1>3. \A s : WaitSet(prstate', prsem', s) = WaitSet(st, prsem', s)
    BY <1>1 DEF WaitSet
  <1>4. \A p \in Pids : prstate'[p] = "WAIT" => prsem'[p] \in Sems
    BY <1>1 DEF SemsOK
  <1>5. \A s \in Sems : IsListOf(squeue'[s], WaitSet(prstate', prsem', s))
    BY <1>3, Zenon DEF SemsOK
  <1>6. IsListOf(readylist', ReadySet(prstate')) /\ IsListOf(sleepq', TimedSet(prstate'))
    BY <1>2, Zenon DEF Dispatched, SleepOK
  <1>7. QueueMembership'
    BY <1>4, <1>5, <1>6, Zenon DEF QueueMembership, ReadySet, TimedSet, WaitSet
  <1>8. prstate'[NULLPROC] \in {"CURR", "READY"}
    BY <1>1, PidsFacts
  <1>9. OneRuns'
    BY <1>8, Zenon DEF OneRuns, Dispatched
  <1> QED BY <1>7, <1>9

Core == DispatchTypes /\ QueueMembership /\ OneRuns

\* The dispatcher, the sleepers and the semaphores agree again after a step.
LEMMA CoreAfter ==
    ASSUME NEW st, Dispatched(st), st[NULLPROC] \in {"CURR", "READY"},
           SleepOK(sleepq', st), SemsOK(squeue', prsem', st)
    PROVE  Core' /\ currpid' \in Pids
  <1>1. QueueMembership' /\ OneRuns'
    BY ListsAfter, Zenon
  <1> QED BY <1>1, Zenon DEF Core, DispatchTypes, Dispatched

\* The parts of the invariant, each restored, make up the invariant.
LEMMA Restored ==
    ASSUME Core', ProcTypes', SemTypes', SleepTypes', FrameTypes', FlagTypes', DeferBalanced'
    PROVE  IInv'
  BY Zenon DEF IInv, TypeOK, Core

\* Process information that a step leaves alone keeps its type.
LEMMA SameProc ==
    ASSUME IInv, UNCHANGED <<procInfo, prcount>>
    PROVE  ProcTypes'
  BY DEF IInv, TypeOK, ProcTypes, procInfo

\* Semaphores that a step leaves alone keep their type.
LEMMA SameSems ==
    ASSUME IInv, UNCHANGED semaphores
    PROVE  SemTypes' /\ squeue' = squeue /\ prsem' = prsem
  BY DEF IInv, TypeOK, SemTypes, semaphores

\* The sleepers that a step leaves alone keep their type.
LEMMA SameSleep ==
    ASSUME IInv, UNCHANGED sleepers
    PROVE  SleepTypes' /\ sleepq' = sleepq
  BY DEF IInv, TypeOK, SleepTypes, sleepers

\* Mailbox flags and halted keep their type in a step that leaves them alone.
LEMMA SameFlags ==
    ASSUME IInv, attempt' \in BOOLEAN, UNCHANGED <<prhasmsg, halted>>
    PROVE  FlagTypes'
  <1>1. prhasmsg' = prhasmsg /\ halted' = halted
    OBVIOUS
  <1> QED BY <1>1, Zenon DEF IInv, TypeOK, FlagTypes

\* ready() leaves Defer.attempt a Boolean.
LEMMA ReadyAttempt ==
    ASSUME IInv, NEW p, NEW st, NEW qk, ready(p, st, qk)
    PROVE  attempt' \in BOOLEAN
  <1>1. attempt \in BOOLEAN
    BY Zenon DEF IInv, TypeOK, FlagTypes
  <1> QED BY <1>1, ReschedAttempt, Zenon DEF ready

\* A process in its own code defers nothing, and nobody else does.
LEMMA UserFacts ==
    ASSUME IInv, UserMode
    PROVE  /\ ndefers = 0 /\ kpc[currpid].op = "none"
           /\ \A q \in Pids : kpc[q].op \notin Deferring
  <1>1. kpc[currpid].op = "none"
    BY DEF UserMode, NoFrame
  <1>2. "none" \notin Deferring
    BY DEF Deferring
  <1> QED BY <1>1, <1>2, Zenon DEF IInv, DeferBalanced

\* If nothing is deferred and nobody is inside a deferred section, deferrals
\* balance.
LEMMA NobodyDefers ==
    ASSUME ndefers' = 0, currpid' \in Pids, \A q \in Pids : kpc'[q].op \notin Deferring
    PROVE  DeferBalanced'
  BY Zenon DEF DeferBalanced

\* A frame that the running process leaves for later.
LEMMA FrameSet ==
    ASSUME IInv, NEW f \in Frames, SetFrame(f)
    PROVE  /\ FrameTypes'
           /\ kpc'[currpid] = f
           /\ \A q \in Pids \ {currpid} : kpc'[q] = kpc[q]
  BY InvFacts DEF IInv, TypeOK, FrameTypes, SetFrame

\* The frames that the actions make are legal.
LEMMA FrameKinds ==
    /\ NoFrame \in Frames
    /\ \A op \in {"receive", "recvtime", "wakeup", "clktail"} : Frame(op, 0, 0) \in Frames
    /\ \A p \in Pids \ {NULLPROC} : Frame("kill", p, 0) \in Frames
    /\ \A op \in {"signaln", "semreset", "semdelete"}, s \in Sems, n \in Nat :
          Frame(op, s, n) \in Frames
  BY DEF Frames, Frame, NoFrame

\* The fields of a frame.
LEMMA FrameOps ==
    /\ NoFrame.op = "none"
    /\ \A op, arg, n : /\ Frame(op, arg, n).op = op
                       /\ Frame(op, arg, n).arg = arg
                       /\ Frame(op, arg, n).n = n
  BY DEF Frame, NoFrame

\* A frame of kill() names a user process, a loop over a semaphore names one.
LEMMA FrameArgs ==
    ASSUME IInv, NEW q \in Pids
    PROVE  /\ kpc[q].op = "kill" => kpc[q].arg \in Pids \ {NULLPROC}
           /\ kpc[q].op \in {"signaln", "semreset", "semdelete"} =>
                kpc[q].arg \in Sems /\ kpc[q].n \in Nat
  <1>1. kpc[q] \in Frames
    BY DEF IInv, TypeOK, FrameTypes
  <1> QED BY <1>1 DEF Frames

\* A system call starts while nothing is deferred and nobody defers.
LEMMA CallerFacts ==
    ASSUME IInv, NEW c, Caller(c)
    PROVE  /\ UserMode /\ currpid # NULLPROC /\ currpid \in Pids
           /\ prstate[currpid] = "CURR" /\ ndefers = 0
           /\ \A q \in Pids : kpc[q].op \notin Deferring
  BY InvFacts, UserFacts, Zenon DEF Caller

\* So does the rest of a call that does not defer.
LEMMA ResumeFacts ==
    ASSUME IInv, NEW op, op \notin Deferring, Resumes(op)
    PROVE  /\ currpid \in Pids /\ prstate[currpid] = "CURR" /\ ndefers = 0
           /\ \A q \in Pids : kpc[q].op \notin Deferring
  BY InvFacts, Zenon DEF Resumes, IInv, DeferBalanced

\* Frames and deferrals, in a step that changes no frame.
LEMMA FramesKept ==
    ASSUME IInv, \A q \in Pids : kpc[q].op \notin Deferring, UNCHANGED kpc,
           ndefers' = 0, currpid' \in Pids
    PROVE  FrameTypes' /\ DeferBalanced'
  <1>1. kpc' = kpc
    OBVIOUS
  <1> QED BY <1>1, NobodyDefers, Zenon DEF IInv, TypeOK, FrameTypes

\* Frames and deferrals, in a step that changes the frame of the caller to one
\* that defers nothing.
LEMMA FramesSet ==
    ASSUME IInv, \A q \in Pids : kpc[q].op \notin Deferring,
           NEW f \in Frames, f.op \notin Deferring, SetFrame(f),
           ndefers' = 0, currpid' \in Pids
    PROVE  FrameTypes' /\ DeferBalanced'
  <1>1. FrameTypes' /\ kpc'[currpid] = f /\ \A q \in Pids \ {currpid} : kpc'[q] = kpc[q]
    BY FrameSet, Zenon
  <1>2. \A q \in Pids : kpc'[q].op \notin Deferring
    BY <1>1, Zenon
  <1> QED BY <1>1, <1>2, NobodyDefers, Zenon

\* A process enters a deferred section.
LEMMA FrameDefers ==
    ASSUME IInv, \A q \in Pids : kpc[q].op \notin Deferring,
           NEW f \in Frames, f.op \in Deferring, SetFrame(f),
           ndefers' = 1, currpid' = currpid
    PROVE  FrameTypes' /\ DeferBalanced'
  <1>1. FrameTypes' /\ kpc'[currpid] = f /\ \A q \in Pids \ {currpid} : kpc'[q] = kpc[q]
    BY FrameSet, Zenon
  <1> QED BY <1>1, InvFacts, Zenon DEF DeferBalanced

\* resched() after the running process got the state v.
LEMMA CallableLeaving ==
    ASSUME IInv, currpid # NULLPROC, ndefers = 0, NEW v \in PrStates \ {"CURR", "READY"},
           NEW qk \in [Pids -> Int]
    PROVE  Callable(ndefers, preempt, [prstate EXCEPT ![currpid] = v], readylist, qk)
  <1> DEFINE st2 == [prstate EXCEPT ![currpid] = v]
  <1>1. ReadySet(st2) = ReadySet(prstate)
    BY InvFacts DEF ReadySet
  <1>2. st2 \in [Pids -> PrStates]
    BY InvFacts
  <1>3. /\ \A q \in Pids : st2[q] = "CURR" => q = currpid
        /\ st2[NULLPROC] \in {"CURR", "READY"}
    BY InvFacts, PidsFacts
  <1>4. ~(ndefers > 0)
    OBVIOUS
  <1> HIDE DEF st2
  <1>5. Callable(ndefers, preempt, st2, readylist, qk)
    BY <1>1, <1>2, <1>3, <1>4, InvFacts, Zenon DEF Callable, Typed
  <1> QED BY <1>5, Zenon DEF st2

\* A process other than the running one gets the state v.
LEMMA Moved ==
    ASSUME IInv, NEW p \in Pids, p # NULLPROC, NEW v \in PrStates \ {"CURR", "READY"},
           prstate[p] # "CURR", prstate' = [prstate EXCEPT ![p] = v],
           readylist' = (IF prstate[p] = "READY" THEN Without(readylist, p) ELSE readylist),
           qkey' \in [Pids -> Int], UNCHANGED <<currpid, preempt, ndefers>>
    PROVE  /\ Dispatched([prstate EXCEPT ![p] = v])
           /\ [prstate EXCEPT ![p] = v][NULLPROC] \in {"CURR", "READY"}
  <1>1. prstate' \in [Pids -> PrStates]
    BY InvFacts
  <1>2. \A q \in Pids : prstate'[q] = "CURR" <=> q = currpid'
    BY InvFacts
  <1>3. prstate'[NULLPROC] \in {"CURR", "READY"}
    BY InvFacts, PidsFacts
  <1>4. readylist' \in Seq(Pids) /\ IsListOf(readylist', ReadySet(prstate'))
    <2>1. CASE prstate[p] = "READY"
      <3>1. ReadySet(prstate') = ReadySet(prstate) \ {p}
        BY InvFacts DEF ReadySet
      <3>2. p \in ReadySet(prstate)
        BY <2>1 DEF ReadySet
      <3>3. Without(readylist, p) \in Seq(Pids)
            /\ IsListOf(Without(readylist, p), ReadySet(prstate) \ {p})
        BY <3>2, InvFacts, ListRemove
      <3> QED BY <2>1, <3>1, <3>3
    <2>2. CASE prstate[p] # "READY"
      <3>1. ReadySet(prstate') = ReadySet(prstate)
        BY <2>2, InvFacts DEF ReadySet
      <3> QED BY <2>2, <3>1, InvFacts
    <2> QED BY <2>1, <2>2
  <1>5. currpid' = currpid /\ preempt' = preempt /\ ndefers' = ndefers
    OBVIOUS
  <1>6. Dispatched(prstate')
    BY <1>1, <1>2, <1>4, <1>5, InvFacts, Zenon DEF Dispatched
  <1> QED BY <1>3, <1>6, Zenon

\* resched_cntl(DEFER_STOP) undoes the one deferral and leaves the dispatcher
\* in order, whether or not it reschedules.
LEMMA DeferStopDispatches ==
    ASSUME IInv, kpc[currpid].op \in Deferring, DeferStop
    PROVE  Dispatched(prstate) /\ ndefers' = 0 /\ attempt' \in BOOLEAN
  <1>1. ndefers = 1 /\ attempt \in BOOLEAN
    BY Zenon DEF IInv, DeferBalanced, TypeOK, FlagTypes
  <1>2. CASE ndefers = 1 /\ attempt
    <2>1. resched(0, preempt, prstate, readylist, qkey)
      <3>1. ndefers - 1 = 0
        BY <1>1
      <3>2. resched(ndefers - 1, preempt, prstate, readylist, qkey)
        BY <1>2, Zenon DEF DeferStop
      <3> QED BY <3>1, <3>2, Zenon
    <2>2. Callable(0, preempt, prstate, readylist, qkey)
      <3>1. 0 \in Nat /\ ~(0 > 0)
        OBVIOUS
      <3> QED BY <3>1, InvFacts, Zenon DEF Callable, Typed
    <2> QED BY <1>1, <2>1, <2>2, InvFacts, ReschedDispatches, ReschedAttempt, Zenon
  <1>3. CASE ~(ndefers = 1 /\ attempt)
    <2>1. ndefers' = ndefers - 1 /\ prstate' = prstate /\ readylist' = readylist
          /\ qkey' = qkey /\ currpid' = currpid /\ preempt' = preempt
      BY <1>3 DEF DeferStop
    <2>2. ndefers' = 0
      BY <1>1, <2>1
    <2>3. attempt' = attempt
      BY <1>3, Zenon DEF DeferStop
    <2>4. Dispatched(prstate)
      <3>1. ndefers' \in Nat
        BY <2>2
      <3> QED BY <2>1, <3>1, InvFacts, SameDispatch, Zenon
    <2> QED BY <1>1, <2>2, <2>3, <2>4, Zenon
  <1> QED BY <1>2, <1>3, Zenon

\* The end of clkhandler() leaves the dispatcher in order.
LEMMA EndOfTickDispatches ==
    ASSUME IInv, NEW qk \in [Pids -> Int], EndOfTick(preempt, qk)
    PROVE  Dispatched(prstate) /\ ndefers' = ndefers /\ attempt' \in BOOLEAN
  <1>0. attempt \in BOOLEAN
    BY Zenon DEF IInv, TypeOK, FlagTypes
  <1>1. CASE preempt - 1 <= 0
    <2>1. resched(ndefers, QUANTUM, prstate, readylist, qk)
      BY <1>1, Zenon DEF EndOfTick
    <2>2. QUANTUM \in 1 .. QUANTUM
      BY KernelAssumption
    <2>3. Callable(ndefers, QUANTUM, prstate, readylist, qk)
      <3>1. ndefers > 0 => prstate[currpid] = "CURR"
        BY InvFacts, Zenon
      <3> QED BY <2>2, <3>1, InvFacts, Zenon DEF Callable, Typed
    <2> QED BY <1>0, <2>1, <2>3, InvFacts, ReschedDispatches, ReschedAttempt, Zenon
  <1>2. CASE ~(preempt - 1 <= 0)
    <2>1. preempt' = preempt - 1 /\ prstate' = prstate /\ readylist' = readylist
          /\ qkey' = qk /\ currpid' = currpid /\ ndefers' = ndefers
      BY <1>2 DEF EndOfTick
    <2>2. preempt' \in 1 .. QUANTUM
      BY <1>2, <2>1, InvFacts, KernelAssumption
    <2>3. attempt' = attempt
      BY <1>2, Zenon DEF EndOfTick
    <2>4. Dispatched(prstate)
      BY <2>1, <2>2, InvFacts, Zenon DEF Dispatched
    <2> QED BY <1>0, <2>1, <2>3, <2>4, Zenon
  <1> QED BY <1>1, <1>2, Zenon

=============================================================================
