------------------------------- MODULE Lists -------------------------------
(***************************************************************************)
(* The lists of Chapter4 as the modules above it see them: sequences of    *)
(* process ids, first entry first, and the keys qk of their entries.       *)
(* Module Queue shows that the pointers of queuetab[] implement them.      *)
(***************************************************************************)
EXTENDS Integers, Sequences, FiniteSets, SequencesExt

\* (mutant) the first entry is taken off, whoever it is
WithoutFirst(s, p) == Tail(s)

\* getitem(): the list without p, which is on it
Without(s, p) == RemoveAt(s, CHOOSE i \in 1 .. Len(s) : s[i] = p)

\* (mutant) an entry goes in front of those with the same key
InsertSlotLifo(rl, qk, key) ==
    {i \in 1 .. Len(rl) + 1 : /\ \A j \in 1 .. i - 1 : qk[rl[j]] > key
                              /\ i <= Len(rl) => qk[rl[i]] <= key}

\* insert(): the place after every entry whose key is not below key
InsertSlot(rl, qk, key) ==
    {i \in 1 .. Len(rl) + 1 : /\ \A j \in 1 .. i - 1 : qk[rl[j]] >= key
                              /\ i <= Len(rl) => qk[rl[i]] < key}

\* in a delta list the time an entry has to wait is the sum of the keys up to
\* and including its own
DeltaSums(slq, qk) ==
    LET sum[i \in 0 .. Len(slq)] ==
          IF i = 0 THEN 0 ELSE sum[i - 1] + qk[slq[i]]
    IN  sum

\* insertd(): the place before the first entry that wakes after key ticks
InsertdSlot(slq, qk, key) ==
    {i \in 1 .. Len(slq) + 1 :
        /\ \A j \in 1 .. i - 1 : DeltaSums(slq, qk)[j] <= key
        /\ i <= Len(slq) => DeltaSums(slq, qk)[i] > key}

\* insertd(): the keys after p went in at place i
InsertdKeys(slq, qk, i, p, key) ==
    LET rest == key - DeltaSums(slq, qk)[i - 1]
    IN  [q \in DOMAIN qk |-> IF q = p THEN rest
                             ELSE IF i <= Len(slq) /\ q = slq[i] THEN qk[q] - rest
                             ELSE qk[q]]

\* (mutant) p's key is lost with it
UnsleepKeysLost(slq, qk, p) == qk

\* unsleep(): p's key is handed to the entry behind it
UnsleepKeys(slq, qk, p) ==
    [q \in DOMAIN qk |->
        IF \E i \in 1 .. Len(slq) - 1 : slq[i] = p /\ slq[i + 1] = q
        THEN qk[q] + qk[p] ELSE qk[q]]

\* the entries of the list are the members of S, each once
IsListOf(s, S) == IsInjective(s) /\ ToSet(s) = S
=============================================================================
