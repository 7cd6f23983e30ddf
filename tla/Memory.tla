------------------------------- MODULE Memory -------------------------------
(***************************************************************************)
(* The free list of Chapter9: getmem(), getstk(), freemem() and freestk(). *)
(* memlist is the list in the order of its links, each block with its      *)
(* address; mlength is the total that memlist.mlength keeps.               *)
(*                                                                         *)
(* used is history: the blocks that were handed out and not given back.    *)
(* Processes give back what they were given, with the size they asked for, *)
(* and may give back once more a block that is still free.  A call that    *)
(* returns SYSERR is no step, except freemem() of such a block: that it is *)
(* refused is what is checked.                                             *)
(*                                                                         *)
(* A struct memblk has 8 bytes (a pointer and a uint32, on the 32-bit      *)
(* machines this kernel is for), so it fits into every block.              *)
(***************************************************************************)
EXTENDS Integers, Sequences, FiniteSets, SequencesExt

CONSTANTS
    minheap, maxheap,   \* the heap is the bytes from minheap to maxheap - 1
    UINT,               \* one more than the largest uint64
    Sizes               \* sizes that getmem() and getstk() are given

WORD == 8

ASSUME MemoryAssumption ==
    /\ minheap \in Nat \ {0} /\ maxheap \in Nat
    /\ minheap % WORD = 0 /\ maxheap % WORD = 0
    /\ minheap < maxheap /\ maxheap < UINT
    /\ UINT \in Nat
    /\ Sizes \subseteq 1 .. UINT - WORD

VARIABLES memlist, mlength, used, stale

vars == <<memlist, mlength, used, stale>>

Blocks == [addr : Nat, len : Nat]
Block(a, n) == [addr |-> a, len |-> n]
End(b) == b.addr + b.len

\* blocks that have no byte in common
Apart(b, c) == End(b) <= c.addr \/ End(c) <= b.addr

\* (mutant) the size is rounded down
roundmbDown(n) == (n \div WORD) * WORD

\* (7 + n) & ~7, in 64 bits
roundmb(n) == (((7 + n) % UINT) \div WORD) * WORD

\* (mutant) the leftover starts at the old address
TakenLow(i, n) ==
    IF memlist[i].len = n THEN RemoveAt(memlist, i)
    ELSE [memlist EXCEPT ![i] = Block(@.addr, @.len - n)]

\* getmem() takes the low end of block i
TakenLeft(i, n) ==
    IF memlist[i].len = n THEN RemoveAt(memlist, i)
    ELSE [memlist EXCEPT ![i] = Block(@.addr + n, @.len - n)]

getmem(nbytes) ==
    LET n == roundmb(nbytes)
    IN  \E i \in 1 .. Len(memlist) :
          /\ memlist[i].len >= n
          /\ \A j \in 1 .. i - 1 : memlist[j].len < n
          /\ memlist' = TakenLeft(i, n)
          /\ mlength' = mlength - n
          /\ used' = used \union {Block(memlist[i].addr, n)}
          /\ stale' = {b \in stale : Apart(b, Block(memlist[i].addr, n))}

\* getstk() takes the high end of block i
TakenRight(i, n) ==
    IF memlist[i].len = n THEN RemoveAt(memlist, i)
    ELSE [memlist EXCEPT ![i] = Block(@.addr, @.len - n)]

\* the address that getstk() returns is that of the highest word
getstk(nbytes) ==
    LET n == roundmb(nbytes)
    IN  \E i \in 1 .. Len(memlist) :
          LET top == End(memlist[i]) - WORD
              stk == Block(top - n + WORD, n)
          IN  /\ memlist[i].len >= n
              /\ \A j \in i + 1 .. Len(memlist) : memlist[j].len < n
              /\ memlist' = TakenRight(i, n)
              /\ mlength' = mlength - n
              /\ used' = used \union {stk}
              /\ stale' = {b \in stale : Apart(b, stk)}

\* the blocks that freemem() passes: those in front of address a
Passed(a, k) ==
    /\ k \in 0 .. Len(memlist)
    /\ \A j \in 1 .. k : memlist[j].addr < a
    /\ k < Len(memlist) => memlist[k + 1].addr >= a

\* freemem() refuses a block that overlaps its neighbours on the list
Refused(b, k) ==
    \/ k > 0 /\ b.addr < End(memlist[k])
    \/ k < Len(memlist) /\ End(b) > memlist[k + 1].addr

\* a block that freemem() takes is merged with the one in front of it, never
\* with the one behind
GivenBack(b, k) ==
    IF k > 0 /\ End(memlist[k]) = b.addr
    THEN [memlist EXCEPT ![k].len = @ + b.len]
    ELSE InsertAt(memlist, k + 1, b)

freemem(b) ==
    /\ b.addr >= minheap /\ b.addr <= maxheap
    /\ \E k \in 0 .. Len(memlist) :
         /\ Passed(b.addr, k)
         /\ IF Refused(b, k)
            THEN UNCHANGED <<memlist, mlength>>
            ELSE memlist' = GivenBack(b, k) /\ mlength' = mlength + b.len

\* a process gives back a block: freemem() of what getmem() returned, or
\* freestk(), which computes the same block from the highest word
giveBack(b) == /\ freemem(b)
               /\ used' = used \ {b}
               /\ stale' = stale \union {b}

\* a process gives back what it gave back before, and nobody has been given since
giveBackAgain(b) == freemem(b) /\ UNCHANGED <<used, stale>>

\* meminit(), which is not part of this repository: one free block
Init ==
    /\ memlist = <<Block(minheap, maxheap - minheap)>>
    /\ mlength = maxheap - minheap
    /\ used = {}
    /\ stale = {}

Next ==
    \/ \E n \in Sizes : getmem(n)
    \/ \E n \in Sizes : getstk(n)
    \/ \E b \in used : giveBack(b)
    \/ \E b \in stale : giveBackAgain(b)

Spec == Init /\ [][Next]_vars
-----------------------------------------------------------------------------
(* What must hold *)

\* Blocks on the list and blocks in use are at least a word long and aligned.
TypeOK ==
    /\ memlist \in Seq(Blocks)
    /\ mlength \in Nat
    /\ used \subseteq Blocks
    /\ stale \subseteq Blocks
    /\ \A b \in ToSet(memlist) \union used \union stale :
         b.len >= WORD /\ b.addr % WORD = 0 /\ b.len % WORD = 0

\* The free list is in the order of addresses and its blocks do not overlap, so
\* that the search of freemem() finds the neighbours of a block.
Ordered ==
    \A i, j \in 1 .. Len(memlist) : i < j => End(memlist[i]) <= memlist[j].addr

InHeap(b) == minheap <= b.addr /\ End(b) <= maxheap

Covers(b, a) == b.addr <= a /\ a < End(b)

\* Every byte of the heap is in one block that is free or in use, and there is no
\* other such block.
Covered ==
    /\ \A b \in ToSet(memlist) \union used : InHeap(b)
    /\ \A b \in used : (\A c \in ToSet(memlist) : Apart(b, c))
                       /\ (\A c \in used : b # c => Apart(b, c))
    /\ \A a \in minheap .. maxheap - 1 :
         \E b \in ToSet(memlist) \union used : Covers(b, a)

\* memlist.mlength is the number of bytes that are free.
TotalRight ==
    mlength = Cardinality({a \in minheap .. maxheap - 1 :
                             \E b \in ToSet(memlist) : Covers(b, a)})

\* No byte is handed out twice, is handed out while it is free, or is lost,
\* whatever order blocks are taken, split, given back and merged in, and
\* although blocks are given back twice: the free list is in order, it and the
\* blocks in use cover the heap, and its total is right.
Partition == Ordered /\ Covered /\ TotalRight
=============================================================================
