----------------------------- MODULE QueueSpec ------------------------------
(***************************************************************************)
(* What the list operations of Chapter4, and insertd() and unsleep() of    *)
(* Chapter13, promise to the rest of the kernel: lists of process ids and  *)
(* one key per process.  The operators are those that module Kernel uses.  *)
(***************************************************************************)
EXTENDS Lists

CONSTANTS
    Procs,     \* processes
    Fifos,     \* lists used with enqueue(): one per semaphore
    Sorted,    \* lists used with insert(): the ready list
    Deltas,    \* lists used with insertd(): sleepq
    Prios,     \* keys that insert() is given
    Delays     \* keys that insertd() is given

VARIABLES list, key

specVars == <<list, key>>

AllLists == Fifos \union Sorted \union Deltas

OnNoList(p) == \A q \in AllLists : p \notin ToSet(list[q])

Init == /\ list = [q \in AllLists |-> <<>>]
        /\ key = [p \in Procs |-> 0]

Enqueue(p, q) == /\ OnNoList(p)
                 /\ list' = [list EXCEPT ![q] = Append(@, p)]
                 /\ UNCHANGED key

Dequeue(q) == /\ list[q] # <<>>
              /\ list' = [list EXCEPT ![q] = Tail(@)]
              /\ UNCHANGED key

GetLast(q) == /\ list[q] # <<>>
              /\ list' = [list EXCEPT ![q] = Front(@)]
              /\ UNCHANGED key

GetItem(p, q) == /\ p \in ToSet(list[q])
                 /\ list' = [list EXCEPT ![q] = Without(@, p)]
                 /\ UNCHANGED key

Insert(p, q, k) ==
    /\ OnNoList(p)
    /\ \E i \in InsertSlot(list[q], key, k) : list' = [list EXCEPT ![q] = InsertAt(@, i, p)]
    /\ key' = [key EXCEPT ![p] = k]

Insertd(p, q, k) ==
    /\ OnNoList(p)
    /\ \E i \in InsertdSlot(list[q], key, k) :
         /\ list' = [list EXCEPT ![q] = InsertAt(@, i, p)]
         /\ key' = InsertdKeys(list[q], key, i, p, k)

Unsleep(p, q) == /\ p \in ToSet(list[q])
                 /\ list' = [list EXCEPT ![q] = Without(@, p)]
                 /\ key' = UnsleepKeys(list[q], key, p)

\* the clock counts the first entry's key down
Tick(q) == /\ list[q] # <<>>
           /\ key' = [key EXCEPT ![Head(list[q])] = @ - 1]
           /\ UNCHANGED list

Next ==
    \/ \E q \in AllLists : Dequeue(q)
    \/ \E q \in Fifos : GetLast(q) \/ \E p \in Procs : Enqueue(p, q)
    \/ \E q \in Fifos \union Sorted, p \in Procs : GetItem(p, q)
    \/ \E q \in Sorted, p \in Procs, k \in Prios : Insert(p, q, k)
    \/ \E q \in Deltas, p \in Procs : Unsleep(p, q) \/ \E k \in Delays : Insertd(p, q, k)
    \/ \E q \in Deltas : Tick(q)

Spec == Init /\ [][Next]_specVars
=============================================================================
