-------------------------- MODULE KernelSemProofs ---------------------------
(***************************************************************************)
(* Semaphore counts agree with semaphore queues: wait(), signal(),         *)
(* signaln(), semreset(), semdelete() and kill() keep them in step.        *)
(***************************************************************************)
EXTENDS KernelProofs

-----------------------------------------------------------------------------
(* Semaphore counts *)

CountOK(s) == Len(squeue[s]) = IF scount[s] < 0 THEN -scount[s] ELSE 0

\* the queue of a semaphore that newsem() may hand out is empty
FreeSems == \A s \in Sems : sstate[s] = "FREE" => squeue[s] = <<>>

SemInv == SemCount /\ FreeSems

AllCounts == \A s \in Sems : CountOK(s)

\* Outside semreset() every count agrees with its queue.
LEMMA CountsNow ==
    ASSUME SemCount, kpc[currpid].op # "semreset"
    PROVE  AllCounts
  BY DEF SemCount, AllCounts, CountOK

\* Counts that all agree satisfy SemCount.
LEMMA CountsThen ==
    ASSUME AllCounts'
    PROVE  SemCount'
  BY DEF SemCount, AllCounts, CountOK

\* A process that starts a call is not inside semreset().
LEMMA CallerOp ==
    ASSUME NEW c, Caller(c)
    PROVE  kpc[currpid].op # "semreset"
  BY DEF Caller, UserMode, NoFrame

\* A process that goes on with another call is not inside semreset().
LEMMA ResumesOp ==
    ASSUME NEW op, Resumes(op), op # "semreset"
    PROVE  kpc[currpid].op # "semreset"
  BY DEF Resumes

\* A step that leaves the semaphores alone preserves the counts.
LEMMA QuietCounts ==
    ASSUME SemInv, kpc[currpid].op # "semreset", UNCHANGED <<sstate, scount, squeue>>
    PROVE  SemInv'
  <1>1. AllCounts
    BY CountsNow, Zenon DEF SemInv
  <1>2. sstate' = sstate /\ scount' = scount /\ squeue' = squeue
    OBVIOUS
  <1>3. AllCounts'
    BY <1>1, <1>2, Zenon DEF AllCounts, CountOK
  <1>4. FreeSems'
    BY <1>2, Zenon DEF SemInv, FreeSems
  <1> QED BY <1>3, <1>4, CountsThen, Zenon DEF SemInv

\* semcreate() gives a count that is not negative to an entry whose queue is empty.
LEMMA semcreateCounts ==
    ASSUME IInv, SemInv, NEW count \in Counts, semcreate(count)
    PROVE  SemInv'
  <1>1. AllCounts
    BY CallerOp, CountsNow, Zenon DEF semcreate, SemInv
  <1>2. PICK i \in 0 .. NSEM - 1 :
          /\ sstate[(nextsem + i) % NSEM] = "FREE"
          /\ sstate' = [sstate EXCEPT ![(nextsem + i) % NSEM] = "USED"]
          /\ scount' = [scount EXCEPT ![(nextsem + i) % NSEM] = count]
    BY Zenon DEF semcreate
  <1> DEFINE s == (nextsem + i) % NSEM
  <1>3. s \in Sems
    BY KernelAssumption DEF IInv, TypeOK, SemTypes, Sems
  <1>4. squeue' = squeue /\ count \in Nat
    BY KernelAssumption DEF semcreate
  <1> HIDE DEF s
  <1>5. /\ sstate[s] = "FREE" /\ sstate' = [sstate EXCEPT ![s] = "USED"]
        /\ scount' = [scount EXCEPT ![s] = count]
    BY <1>2, Zenon DEF s
  <1>6. squeue[s] = <<>>
    BY <1>3, <1>5 DEF SemInv, FreeSems
  <1>7. AllCounts'
    <2> SUFFICES ASSUME NEW r \in Sems PROVE CountOK(r)'
      BY DEF AllCounts
    <2>1. CASE r = s
      BY <1>3, <1>4, <1>5, <1>6, <2>1, SemTypeFacts DEF CountOK
    <2>2. CASE r # s
      <3>1. scount'[r] = scount[r] /\ squeue'[r] = squeue[r]
        BY <1>3, <1>4, <1>5, <2>2, SemTypeFacts
      <3> QED BY <1>1, <3>1 DEF AllCounts, CountOK
    <2> QED BY <2>1, <2>2
  <1>8. FreeSems'
    BY <1>3, <1>4, <1>5, SemTypeFacts DEF SemInv, FreeSems
  <1> QED BY <1>7, <1>8, CountsThen, Zenon DEF SemInv

\* wait() decrements the count and joins the queue exactly if the count is then
\* negative.
LEMMA waitCounts ==
    ASSUME IInv, SemInv, NEW s \in Sems, wait(s)
    PROVE  SemInv'
  <1>1. AllCounts
    BY CallerOp, CountsNow, Zenon DEF wait, SemInv
  <1>2. /\ sstate[s] = "USED" /\ sstate' = sstate /\ scount' = [scount EXCEPT ![s] = @ - 1]
        /\ \/ scount[s] - 1 < 0 /\ squeue' = [squeue EXCEPT ![s] = Append(@, currpid)]
           \/ scount[s] - 1 >= 0 /\ squeue' = squeue
    BY DEF wait
  <1>3. /\ Len(Append(squeue[s], currpid)) = Len(squeue[s]) + 1
    BY InvFacts, SemTypeFacts, AppendProperties
  <1>4. AllCounts'
    <2> SUFFICES ASSUME NEW r \in Sems PROVE CountOK(r)'
      BY DEF AllCounts
    <2>1. CASE r = s
      <3>1. CountOK(s) /\ scount[s] \in Int /\ scount'[s] = scount[s] - 1
        BY <1>1, <1>2, SemTypeFacts DEF AllCounts
      <3>2. CASE scount[s] - 1 < 0 /\ squeue' = [squeue EXCEPT ![s] = Append(@, currpid)]
        <4>1. squeue'[s] = Append(squeue[s], currpid)
          BY <3>2, SemTypeFacts
        <4> QED BY <1>3, <2>1, <3>1, <3>2, <4>1 DEF CountOK
      <3>3. CASE scount[s] - 1 >= 0 /\ squeue' = squeue
        BY <2>1, <3>1, <3>3 DEF CountOK
      <3> QED BY <1>2, <3>2, <3>3
    <2>2. CASE r # s
      <3>1. scount'[r] = scount[r] /\ squeue'[r] = squeue[r]
        BY <1>2, <2>2, SemTypeFacts
      <3> QED BY <1>1, <3>1 DEF AllCounts, CountOK
    <2> QED BY <2>1, <2>2
  <1>5. FreeSems'
    BY <1>2, SemTypeFacts DEF SemInv, FreeSems
  <1> QED BY <1>4, <1>5, CountsThen, Zenon DEF SemInv

\* One round of signal() increments the count and takes a process off the queue
\* exactly if the count was negative.
LEMMA SignalOnceCounts ==
    ASSUME IInv, AllCounts, FreeSems, NEW s \in Sems, SignalOnce(s), sstate' = sstate
    PROVE  AllCounts' /\ FreeSems'
  <1>1. /\ scount' = [scount EXCEPT ![s] = @ + 1]
        /\ \/ /\ scount[s] < 0 /\ squeue[s] # <<>>
              /\ squeue' = [squeue EXCEPT ![s] = Tail(@)]
           \/ ~(scount[s] < 0 /\ squeue[s] # <<>>) /\ squeue' = squeue
    BY DEF SignalOnce
  <1>2. scount[s] \in Int /\ scount'[s] = scount[s] + 1 /\ squeue[s] \in Seq(Pids)
    BY <1>1, SemTypeFacts
  <1>3. CountOK(s)
    BY DEF AllCounts
  <1>4. squeue[s] # <<>> => Len(Tail(squeue[s])) = Len(squeue[s]) - 1
    BY <1>2, HeadTailProperties
  <1>5. CountOK(s)'
    <2>1. CASE /\ scount[s] < 0 /\ squeue[s] # <<>>
               /\ squeue' = [squeue EXCEPT ![s] = Tail(@)]
      <3>1. squeue'[s] = Tail(squeue[s])
        BY <2>1, SemTypeFacts
      <3>2. scount[s] < 0 /\ Len(squeue'[s]) = Len(squeue[s]) - 1
        BY <1>4, <2>1, <3>1
      <3>3. Len(squeue[s]) = -scount[s]
        BY <1>3, <3>2 DEF CountOK
      <3> QED BY <1>2, <3>2, <3>3 DEF CountOK
    <2>2. CASE ~(scount[s] < 0 /\ squeue[s] # <<>>) /\ squeue' = squeue
      <3>1. squeue[s] = <<>> => Len(squeue[s]) = 0
        OBVIOUS
      <3> QED BY <1>2, <1>3, <2>2, <3>1 DEF CountOK
    <2> QED BY <1>1, <2>1, <2>2
  <1>6. \A r \in Sems : r # s => scount'[r] = scount[r] /\ squeue'[r] = squeue[r]
    BY <1>1, SemTypeFacts
  <1>7. AllCounts'
    BY <1>5, <1>6 DEF AllCounts, CountOK
  <1>8. FreeSems'
    <2>1. squeue[s] = <<>> => squeue' = squeue
      BY <1>1
    <2> QED BY <1>6, <2>1 DEF FreeSems
  <1> QED BY <1>7, <1>8

\* A waiting process is on the queue of prsem once, so removing it makes the
\* queue shorter by one.
LEMMA WaiterRemoved ==
    ASSUME IInv, NEW p \in Pids, prstate[p] = "WAIT"
    PROVE  /\ prsem[p] \in Sems /\ Without(squeue[prsem[p]], p) \in Seq(Pids)
           /\ Len(Without(squeue[prsem[p]], p)) = Len(squeue[prsem[p]]) - 1
  <1> DEFINE s == prsem[p]
  <1>1. s \in Sems /\ IsListOf(squeue[s], WaitSet(prstate, prsem, s))
    BY InvFacts DEF SemsOK
  <1>2. squeue[s] \in Seq(Pids)
    BY <1>1, SemTypeFacts
  <1>3. p \in WaitSet(prstate, prsem, s)
    BY DEF WaitSet
  <1> QED BY <1>1, <1>2, <1>3, ListRemove

\* kill() of a waiting process increments the count and shortens the queue.
LEMMA killTailCounts ==
    ASSUME IInv, SemInv, killTail
    PROVE  SemInv'
  <1> DEFINE p == kpc[currpid].arg
             s == prsem[p]
  <1>0. Resumes("kill")
    BY DEF killTail, Unwait
  <1>1. AllCounts
    BY <1>0, ResumesOp, CountsNow DEF SemInv
  <1>2. p \in Pids
    BY <1>0, InvFacts, FrameArgs DEF Resumes
  <1>3. \/ UNCHANGED <<scount, squeue>>
        \/ /\ prstate[p] = "WAIT"
           /\ scount' = [scount EXCEPT ![s] = @ + 1]
           /\ squeue' = [squeue EXCEPT ![s] = Without(@, p)]
    BY DEF killTail, Unwait
  <1>4. sstate' = sstate
    BY DEF killTail, Unwait
  <1>5. CASE UNCHANGED <<scount, squeue>>
    BY <1>0, <1>4, <1>5, ResumesOp, QuietCounts
  <1>6. CASE /\ prstate[p] = "WAIT"
             /\ scount' = [scount EXCEPT ![s] = @ + 1]
             /\ squeue' = [squeue EXCEPT ![s] = Without(@, p)]
    <2>1. /\ s \in Sems /\ Without(squeue[s], p) \in Seq(Pids)
          /\ Len(Without(squeue[s], p)) = Len(squeue[s]) - 1
      <3>1. prstate[p] = "WAIT" /\ "FREE" # "WAIT"
        BY <1>6
      <3> QED BY <1>2, <3>1, WaiterRemoved, Zenon
    <2> HIDE DEF s, p
    <2>2. scount[s] \in Int /\ scount'[s] = scount[s] + 1 /\ squeue'[s] = Without(squeue[s], p)
      BY <1>6, <2>1, SemTypeFacts
    <2>3. CountOK(s) /\ Len(squeue[s]) \in Nat /\ Len(squeue'[s]) \in Nat
      BY <1>1, <2>1, <2>2, SemTypeFacts DEF AllCounts
    <2>4. Len(squeue'[s]) = IF scount'[s] < 0 THEN -scount'[s] ELSE 0
      <3>1. Len(squeue'[s]) = Len(squeue[s]) - 1
        BY <2>1, <2>2
      <3> QED BY <2>2, <2>3, <3>1 DEF CountOK
    <2>5. \A r \in Sems : r # s => scount'[r] = scount[r] /\ squeue'[r] = squeue[r]
      BY <1>6, <2>1, SemTypeFacts
    <2>6. AllCounts'
      <3> SUFFICES ASSUME NEW r \in Sems PROVE CountOK(r)'
        BY DEF AllCounts
      <3>1. CASE r = s
        BY <2>4, <3>1 DEF CountOK
      <3>2. CASE r # s
        BY <1>1, <2>5, <3>2 DEF AllCounts, CountOK
      <3> QED BY <3>1, <3>2
    <2>7. squeue[s] # <<>>
      BY <2>1, <2>2, <2>3
    <2>8. FreeSems'
      BY <1>4, <2>5, <2>7 DEF FreeSems, SemInv
    <2> QED BY <2>6, <2>8, CountsThen, Zenon DEF SemInv
  <1> QED BY <1>3, <1>5, <1>6

\* semreset() drains the queue before it sets the count.
LEMMA semresetStepCounts ==
    ASSUME IInv, SemInv, semresetStep
    PROVE  SemInv'
  <1> DEFINE s == kpc[currpid].arg
             n == kpc[currpid].n
  <1>0. Resumes("semreset") /\ "semreset" \in Deferring
    BY DEF semresetStep, Deferring
  <1>2. s \in Sems /\ n \in Nat
    BY <1>0, InvFacts, FrameArgs DEF Resumes
  <1>3. sstate' = sstate /\ sleepers' = sleepers /\ prsem' = prsem
    BY DEF semresetStep
  <1>4. \/ /\ squeue[s] # <<>>
           /\ squeue' = [squeue EXCEPT ![s] = Tail(@)]
           /\ ready(Head(squeue[s]), prstate, qkey)
           /\ UNCHANGED <<scount, kpc>>
        \/ /\ squeue[s] = <<>>
           /\ scount' = [scount EXCEPT ![s] = n]
           /\ squeue' = squeue
    BY Zenon DEF semresetStep
  <1>5. \A r \in Sems : r # s => CountOK(r)
    BY DEF SemInv, SemCount, CountOK
  <1>6. kpc[currpid].op = "semreset"
    BY <1>0 DEF Resumes
  <1>7. \A r \in Sems : r # s => scount'[r] = scount[r] /\ squeue'[r] = squeue[r]
    BY <1>2, <1>4, SemTypeFacts
  <1>8. CASE /\ squeue[s] # <<>>
             /\ squeue' = [squeue EXCEPT ![s] = Tail(@)]
             /\ ready(Head(squeue[s]), prstate, qkey)
             /\ UNCHANGED <<scount, kpc>>
    <2>1. currpid' = currpid
      BY <1>0, <1>2, <1>3, <1>8, DeferFacts, ReadyFirst, Zenon
    <2>2. kpc'[currpid'].op = "semreset" /\ kpc'[currpid'].arg = s
      BY <1>6, <1>8, <2>1
    <2> HIDE DEF s
    <2>3. \A r \in Sems : r # s => Len(squeue'[r]) = IF scount'[r] < 0 THEN -scount'[r] ELSE 0
      BY <1>5, <1>7 DEF CountOK
    <2>4. SemCount'
      BY <2>2, <2>3 DEF SemCount
    <2>5. FreeSems'
      BY <1>3, <1>7, <1>8 DEF SemInv, FreeSems
    <2> QED BY <2>4, <2>5, Zenon DEF SemInv
  <1>9. CASE /\ squeue[s] = <<>>
             /\ scount' = [scount EXCEPT ![s] = n]
             /\ squeue' = squeue
    <2> HIDE DEF s, n
    <2>1. Len(squeue'[s]) = IF scount'[s] < 0 THEN -scount'[s] ELSE 0
      <3>1. scount'[s] = n /\ Len(squeue'[s]) = 0
        BY <1>2, <1>9, SemTypeFacts
      <3> QED BY <1>2, <3>1
    <2>2. AllCounts'
      <3> SUFFICES ASSUME NEW r \in Sems PROVE CountOK(r)'
        BY DEF AllCounts
      <3>1. CASE r = s
        BY <2>1, <3>1 DEF CountOK
      <3>2. CASE r # s
        BY <1>5, <1>7, <3>2 DEF CountOK
      <3> QED BY <3>1, <3>2
    <2>3. FreeSems'
      BY <1>3, <1>9 DEF SemInv, FreeSems
    <2> QED BY <2>2, <2>3, CountsThen, Zenon DEF SemInv
  <1> QED BY <1>4, <1>8, <1>9, Zenon

\* signal(), signaln() and semdelete() preserve the counts.
LEMMA SignalCounts ==
    ASSUME IInv, SemInv,
           (\E s \in Sems : signal(s)) \/ signalnStep \/ semdeleteStep
    PROVE  SemInv'
  <1>1. ASSUME NEW s \in Sems, SignalOnce(s), sstate' = sstate, kpc[currpid].op # "semreset"
        PROVE  SemInv'
    BY <1>1, CountsNow, SignalOnceCounts, CountsThen, Zenon DEF SemInv
  <1>2. ASSUME NEW s \in Sems, signal(s) PROVE SemInv'
    <2>1. SignalOnce(s) /\ sstate' = sstate /\ Caller("signal")
      BY <1>2 DEF signal
    <2> QED BY <1>1, <2>1, CallerOp, Zenon
  <1>3. CASE signalnStep
    <2>1. Resumes("signaln") /\ "signaln" # "semreset" /\ sstate' = sstate
      BY <1>3 DEF signalnStep
    <2>2. SignalOnce(kpc[currpid].arg) \/ UNCHANGED <<scount, squeue>>
      BY <1>3, Zenon DEF signalnStep
    <2>3. kpc[currpid].arg \in Sems
      BY <2>1, InvFacts, FrameArgs DEF Resumes
    <2>4. CASE UNCHANGED <<scount, squeue>>
      BY <2>1, <2>4, ResumesOp, QuietCounts
    <2> QED BY <1>1, <2>1, <2>2, <2>3, <2>4, ResumesOp, Zenon
  <1>4. CASE semdeleteStep
    <2> DEFINE s == kpc[currpid].arg
    <2>1. Resumes("semdelete") /\ "semdelete" # "semreset" /\ sstate' = sstate
      BY <1>4 DEF semdeleteStep
    <2>2. SignalOnce(s) \/ (scount[s] >= 0 /\ scount' = [scount EXCEPT ![s] = @ + 1]
                            /\ squeue' = squeue)
      BY <1>4, Zenon DEF semdeleteStep
    <2>3. s \in Sems
      BY <2>1, InvFacts, FrameArgs DEF Resumes
    <2> HIDE DEF s
    <2>4. CASE scount[s] >= 0 /\ scount' = [scount EXCEPT ![s] = @ + 1] /\ squeue' = squeue
      <3>1. AllCounts
        BY <2>1, ResumesOp, CountsNow DEF SemInv
      <3>2. AllCounts'
        <4> SUFFICES ASSUME NEW r \in Sems PROVE CountOK(r)'
          BY DEF AllCounts
        <4>1. CountOK(r) /\ scount[r] \in Int
          BY <3>1, SemTypeFacts DEF AllCounts
        <4>2. scount'[r] = IF r = s THEN scount[s] + 1 ELSE scount[r]
          BY <2>3, <2>4, SemTypeFacts
        <4> QED BY <2>3, <2>4, <4>1, <4>2 DEF CountOK
      <3>3. FreeSems'
        BY <2>1, <2>4 DEF SemInv, FreeSems
      <3> QED BY <3>2, <3>3, CountsThen, Zenon DEF SemInv
    <2> QED BY <1>1, <2>1, <2>2, <2>3, <2>4, ResumesOp, Zenon
  <1> QED BY <1>2, <1>3, <1>4

\* The steps that leave counts and queues of semaphores alone.
LEMMA OtherCounts ==
    ASSUME SemInv, NEW p, NEW x, NEW y,
           \/ create(x) \/ resume(p) \/ suspend(p) \/ kill(p) \/ chprio(p, x)
           \/ signaln(x, y) \/ semreset(x, y) \/ semdelete(x)
           \/ send(p) \/ receive \/ recvclr \/ sleepms(x) \/ recvtime(x)
           \/ TakeMessage \/ wakeupStep \/ clktail \/ clkhandler
    PROVE  SemInv'
  <1>1. UNCHANGED <<sstate, scount, squeue>>
    BY DEF create, resume, suspend, kill, chprio, signaln, semreset, semdelete, send,
           receive, recvclr, sleepms, recvtime, TakeMessage, wakeupStep, clktail, clkhandler,
           semaphores
  <1>2. kpc[currpid].op # "semreset"
    <2>1. \/ \E c : Caller(c)
          \/ \E op \in {"receive", "recvtime", "wakeup", "clktail"} : Resumes(op)
          \/ UserMode
      BY Zenon DEF create, resume, suspend, kill, chprio, signaln, semreset, semdelete, send,
           receive, recvclr, sleepms, recvtime, TakeMessage, wakeupStep, clktail, clkhandler
    <2> QED BY <2>1, CallerOp, ResumesOp DEF UserMode, NoFrame
  <1> QED BY <1>1, <1>2, QuietCounts, Zenon

\* Every step preserves the counts.
LEMMA NextCounts == IInv /\ SemInv /\ [Next]_vars => SemInv'
  <1> SUFFICES ASSUME IInv, SemInv, [Next]_vars PROVE SemInv'
    OBVIOUS
  <1>1. CASE UNCHANGED vars
    <2>1. /\ sstate' = sstate /\ scount' = scount /\ squeue' = squeue
          /\ kpc' = kpc /\ currpid' = currpid
      BY <1>1 DEF vars, semaphores, dispatch
    <2> QED BY <2>1, Zenon DEF SemInv, SemCount, FreeSems
  <1>2. CASE Continue
    BY <1>2, killTailCounts, SignalCounts, semresetStepCounts, OtherCounts, Zenon DEF Continue
  <1>3. CASE SystemCall
    BY <1>3, semcreateCounts, waitCounts, SignalCounts, OtherCounts, Zenon DEF SystemCall
  <1>4. CASE clkhandler
    BY <1>4, OtherCounts, Zenon
  <1> QED BY <1>1, <1>2, <1>3, <1>4, Zenon DEF Next, stopped

\* All counts are 0 and all queues empty at the start.
LEMMA InitCounts == Init => SemInv
  BY DEF Init, SemInv, SemCount, FreeSems

\* In every reachable state a negative count of a semaphore is the number of
\* processes that wait for it, and nobody waits while it is not negative.
THEOREM CountsMatchQueues == Spec => []SemCount
  <1>1. SemInv => SemCount
    BY DEF SemInv
  <1> QED BY <1>1, InitCounts, NextCounts, Invariant, PTL DEF Spec
=============================================================================
