------------------------------- MODULE Remote -------------------------------
(***************************************************************************)
(* Remote files (Chapter20) and the remote disk (Chapter18): clients that  *)
(* ask a server over UDP and ask again when no answer comes.  rfscomm()    *)
(* and rdscomm() are that exchange, rfltab[] and rdstab[] what the         *)
(* processes of this computer share.                                       *)
(*                                                                         *)
(* A process pc[p] waits for the mutex of the remote files, or for an      *)
(* answer.  The network may lose, delay, double and reorder datagrams:     *)
(* requests and replies hold every one that was ever sent, and each may be *)
(* received at any time, again and again.  udp_send() and udp_recv() may   *)
(* return whatever their callers test for; what they do return is the      *)
(* matter of module Net.  The server is external: it does what it is asked *)
(* to, in the order in which the requests reach it, or refuses.            *)
(*                                                                         *)
(* Names and modes are those of the source after the corrections without   *)
(* which it does not link or compile: rdcomm, rfsnmsg and dot2zip are      *)
(* rdscomm, rfsndmsg and dot2ip, and the bits are those of file.h (with    *)
(* the "temporary" ones of lfilesys.h, rfscontrol() has a case twice).     *)
(***************************************************************************)
EXTENDS Semaphore, FiniteSetsExt

CONSTANTS
    Procs,
    Nrfl,                     \* remote file pseudo-devices
    Names, Modes, Funcs,      \* names and modes for open(), functions for control()
    DiskIds,
    LongNames,                \* the names and IDs that do not fit
    RF_RETRIES, RD_RETRIES,
    MaxPos, MaxCalls          \* bounds: places of a file, calls

ASSUME RemoteAssumption ==
    /\ {Nrfl, RF_RETRIES, RD_RETRIES, MaxPos} \subseteq Nat \ {0}
    /\ "" \notin Names \cup DiskIds
    /\ Funcs \subseteq {"del", "trunc", "mkdir", "rmdir", "size"}

VARIABLES
    rf_mutex, rf_seq, rf_registered, rfltab,     \* Rf_data and the remote files
    rd_state, rd_id, rd_seq,                     \* rdstab[0]
    pc,
    requests, replies,                           \* the network
    content, opened,                             \* the server: files, and disks that were opened
    executed, late, expected,     \* (history) of each file: the newest change that was made, was
                                  \* an older one made after it, what a place may hold
    oldreply, badid,              \* (history) of the disk: an old answer was taken, a bad ID given
    halted

files == <<rf_mutex, rf_seq, rf_registered, rfltab, expected>>
disk == <<rd_state, rd_id, rd_seq, oldreply, badid, halted>>
server == <<replies, content, opened, executed, late>>
vars == <<files, disk, server, requests, pc>>

Devices == 0 .. Nrfl - 1
Places == 0 .. MaxPos - 1
Idle == [op |-> "idle"]
Then(p, f) == pc' = [pc EXCEPT ![p] = f]

-----------------------------------------------------------------------------
\* The server and its files: a place holds the number of the request that wrote
\* it, or 0.

Change(m, file) ==
    [i \in Places |-> IF m.type = "write" /\ i = m.pos THEN m.seq
                      ELSE IF m.type \in {"del", "trunc"} THEN 0 ELSE file[i]]

Changes(m) == m.type \in {"write", "del", "trunc"}

\* bytes written or read; none beyond the end
Length(m) == IF m.type = "write" \/ (m.type = "read" /\ m.pos \in Places /\ content[m.name][m.pos] # 0)
             THEN 1 ELSE 0

Reply(m, status) == [type |-> m.type, seq |-> m.seq, status |-> status, len |-> Length(m)]

serve(m) ==
    /\ \/ replies' = replies \cup {Reply(m, "refused")}
          /\ UNCHANGED <<content, opened, executed, late>>
       \/ /\ replies' = replies \cup {Reply(m, "ok")}
          /\ opened' = IF m.type = "disk" THEN opened \cup {m.name} ELSE opened
          /\ IF Changes(m)
             THEN /\ content' = [content EXCEPT ![m.name] = Change(m, @)]
                  /\ executed' = [executed EXCEPT ![m.name] = IF m.seq > @ THEN m.seq ELSE @]
                  /\ late' = [late EXCEPT ![m.name] = @ \/ m.seq < executed[m.name]]
             ELSE UNCHANGED <<content, executed, late>>
    /\ UNCHANGED <<files, disk, requests, pc>>

-----------------------------------------------------------------------------
\* The exchange of the remote files

\* what the caller may find in the file from the time it asks for a change, and
\* when it knows that the change was made
Asked(m) ==
    [expected EXCEPT ![m.name] =
        [i \in Places |-> @[i] \cup {v \in {Change(m, [j \in Places |-> -1])[i]} : v # -1}]]
Done(m) ==
    [expected EXCEPT ![m.name] =
        [i \in Places |-> IF Change(m, [j \in Places |-> -1])[i] = -1 THEN @[i]
                          ELSE {Change(m, [j \in Places |-> -1])[i]}]]

\* every call ends with signal(rf_mutex)
Return(p) == rf_mutex' = Signalled(rf_mutex) /\ Then(p, Idle)

\* (mutant) without the signal()
ReturnHeld(p) == Then(p, Idle) /\ UNCHANGED rf_mutex

\* ... also one that ends before the exchange, and one that gets no answer
Refuse(p) == Return(p)
GiveUp(p) == Return(p)

\* udp_send() fails, or p waits for an answer
Transmit(p, m, try, dev) ==
    \/ Return(p) /\ UNCHANGED requests
    \/ /\ requests' = requests \cup {m}
       /\ Then(p, [op |-> "rfscomm", msg |-> m, try |-> try, dev |-> dev])
       /\ UNCHANGED rf_mutex

\* the endpoint is registered the first time, which may fail
rfscomm(p, type, name, pos, dev) ==
    LET m == [type |-> type, seq |-> rf_seq, name |-> name, pos |-> pos]
    IN  \/ /\ ~rf_registered
           /\ Refuse(p)
           /\ UNCHANGED <<rf_seq, rf_registered, requests, expected>>
        \/ /\ rf_registered' = TRUE
           /\ rf_seq' = rf_seq + 1
           /\ expected' = Asked(m)
           /\ Transmit(p, m, 1, dev)

\* the test of rdscomm(): an old answer passes
rdsAccepts(r, m) == r.seq <= m.seq /\ r.type = m.type

\* the test of rfscomm()
Accepts(r, m) == r.seq = m.seq /\ r.type = m.type

\* (mutant) one more than RF_RETRIES
TriesLeftOver(try) == try <= RF_RETRIES

TriesLeft(try) == try < RF_RETRIES

\* a timeout, or an answer to something else, which uses up a try as well
NoAnswer(p) ==
    LET f == pc[p]
    IN  /\ \/ TriesLeft(f.try) /\ Transmit(p, f.msg, f.try + 1, f.dev)
           \/ ~TriesLeft(f.try) /\ GiveUp(p) /\ UNCHANGED requests
        /\ UNCHANGED <<rf_seq, rf_registered, rfltab, expected>>

\* udp_recv() fails
ReceiveFails(p) == Return(p) /\ UNCHANGED <<requests, rf_seq, rf_registered, rfltab, expected>>

\* the caller of rfscomm() goes on with an answer.  RFS_CTL_RMDIR falls through to
\* RFS_CTL_SIZE, which asks for the file of the first pseudo-device and does not
\* look at the status.
Answer(p, r) ==
    LET m == pc[p].msg
        dev == pc[p].dev
        entry == rfltab[dev]
    IN  IF r.status = "ok" /\ m.type = "rmdir"
        THEN rfscomm(p, "size", rfltab[0].rfname, 0, dev) /\ UNCHANGED rfltab
        ELSE /\ Return(p)
             /\ IF r.status # "ok" THEN UNCHANGED <<rfltab, expected>>
                ELSE /\ expected' = Done(m)
                     /\ rfltab' = [rfltab EXCEPT ![dev] =
                            IF m.type = "open" THEN [entry EXCEPT !.rfpos = 0, !.rfstate = "used"]
                            ELSE [entry EXCEPT !.rfpos = @ + r.len]]
             /\ UNCHANGED <<requests, rf_seq, rf_registered>>

rfscommGo(p) ==
    /\ pc[p].op = "rfscomm"
    /\ \/ NoAnswer(p)
       \/ ReceiveFails(p)
       \/ \E r \in replies : Accepts(r, pc[p].msg) /\ Answer(p, r)
    /\ UNCHANGED <<server, disk>>

-----------------------------------------------------------------------------
\* The calls, from wait(rf_mutex) on

\* every letter once, o or n; neither r nor w means both
rfsgetmode(mode) ==
    LET letters == ToSet(mode)
    IN  IF letters \subseteq {"r", "w", "o", "n"} /\ Cardinality(letters) = Len(mode)
           /\ ~({"o", "n"} \subseteq letters)
        THEN IF letters \cap {"r", "w"} = {} THEN letters \cup {"r", "w"} ELSE letters
        ELSE {"SYSERR"}

\* the name and the mode are stored in an entry that is still free
rfsopen(p, name, mode) ==
    LET free == {d \in Devices : rfltab[d].rfstate = "free"}
        d == Min(free)
        bad == name = "" \/ name \in LongNames
        named == [rfltab EXCEPT ![d].rfname = name]
        moded == [named EXCEPT ![d].rfmode = rfsgetmode(mode)]
        refused(tab) == rfltab' = tab /\ Refuse(p) /\ UNCHANGED <<requests, rf_seq, rf_registered, expected>>
    IN  \/ free = {} /\ refused(rfltab)
        \/ free # {} /\ bad /\ refused(named)
        \/ free # {} /\ ~bad /\ rfsgetmode(mode) = {"SYSERR"} /\ refused(moded)
        \/ /\ free # {} /\ ~bad /\ rfsgetmode(mode) # {"SYSERR"}
           /\ rfltab' = moded
           /\ rfscomm(p, "open", name, 0, d)

\* rflread() and rflwrite(): the device has to be open in the mode
transfer(p, type, letter, d) ==
    LET entry == rfltab[d]
    IN  /\ UNCHANGED rfltab
        /\ IF entry.rfstate = "free" \/ letter \notin entry.rfmode
           THEN Refuse(p) /\ UNCHANGED <<requests, rf_seq, rf_registered, expected>>
           ELSE rfscomm(p, type, entry.rfname, entry.rfpos, d)

rflread(p, d) == transfer(p, "read", "r", d)
rflwrite(p, d) == transfer(p, "write", "w", d)

\* what rflclose() and rflseek() do to an entry that is in use
inUse(p, d, entry) ==
    /\ rfltab' = IF rfltab[d].rfstate = "free" THEN rfltab ELSE [rfltab EXCEPT ![d] = entry]
    /\ Refuse(p)
    /\ UNCHANGED <<requests, rf_seq, rf_registered, expected>>

rflclose(p, d) == inUse(p, d, [rfltab[d] EXCEPT !.rfstate = "free"])
rflseek(p, d, pos) == inUse(p, d, [rfltab[d] EXCEPT !.rfpos = pos])

\* a request that has a name and nothing else
rfsndmsg(p, type, name) == rfscomm(p, type, name, 0, 0)

\* the name of the first pseudo-device is copied first, whatever is asked for: one
\* that did not fit in rfsopen() refuses every function
rfscontrol(p, func, name) ==
    /\ IF rfltab[0].rfname \in LongNames
       THEN Refuse(p) /\ UNCHANGED <<requests, rf_seq, rf_registered, expected>>
       ELSE IF func = "size" THEN rfscomm(p, func, rfltab[0].rfname, 0, 0)
       ELSE rfsndmsg(p, func, name)
    /\ UNCHANGED rfltab

FileCalls ==
    [op : {"open"}, name : Names \cup {""}, mode : Modes]
    \cup [op : {"read", "write", "close"}, dev : Devices]
    \cup [op : {"seek"}, dev : Devices, pos : Places]
    \cup [op : {"control"}, func : Funcs, name : Names \ LongNames]

call(p, k) ==
    /\ pc[p] = Idle
    /\ rf_seq + Cardinality({q \in Procs : pc[q] # Idle}) <= MaxCalls
    /\ rf_mutex' = Waited(rf_mutex, p)
    /\ Then(p, [op |-> "mutex", call |-> k])
    /\ UNCHANGED <<rf_seq, rf_registered, rfltab, expected, server, requests, disk>>

mutexGo(p) ==
    LET k == pc[p].call
    IN  /\ pc[p].op = "mutex" /\ p \notin ToSet(rf_mutex.queue)
        /\ \/ k.op = "open" /\ rfsopen(p, k.name, k.mode)
           \/ k.op = "read" /\ rflread(p, k.dev)
           \/ k.op = "write" /\ rflwrite(p, k.dev)
           \/ k.op = "close" /\ rflclose(p, k.dev)
           \/ k.op = "seek" /\ rflseek(p, k.dev, k.pos)
           \/ k.op = "control" /\ rfscontrol(p, k.func, k.name)
        /\ UNCHANGED <<server, disk>>

-----------------------------------------------------------------------------
\* The remote disk, up to its first request.  rdsbufalloc() tests a variable that
\* was never set: no buffer is in the cache, so that it calls panic(), or it
\* follows that variable wherever it leads; RDS_CTL_DEL writes through one.
\* rdsopen() excludes itself: the others want RD_OPEN.

\* (mutant) whatever the outcome
DiskOpenAnyway(status) == "open"

\* the state that an outcome of rdscomm() leaves behind
DiskState(status) == IF status = "ok" THEN "open" ELSE "free"

DiskDone(p, status) == rd_state' = DiskState(status) /\ Then(p, Idle)

DiskTransmit(p, m, try) ==
    \/ DiskDone(p, "SYSERR") /\ UNCHANGED requests
    \/ /\ requests' = requests \cup {m}
       /\ rd_state' = "pend"
       /\ Then(p, [op |-> "rdscomm", msg |-> m, try |-> try])

\* an ID that does not fit leaves the state at RD_PEND; an endpoint, or an
\* address, may not be had
rdsopen(p, id) ==
    LET m == [type |-> "disk", seq |-> rd_seq, name |-> id, pos |-> 0]
    IN  /\ pc[p] = Idle /\ rd_state = "free" /\ rd_seq <= MaxCalls
        /\ rd_id' = id
        /\ \/ /\ id \in LongNames
              /\ rd_state' = "pend" /\ badid' = TRUE
              /\ UNCHANGED <<rd_seq, requests, pc>>
           \/ /\ id \notin LongNames
              /\ \/ DiskDone(p, "SYSERR") /\ UNCHANGED <<requests, rd_seq>>
                 \/ rd_seq' = rd_seq + 1 /\ DiskTransmit(p, m, 1)
              /\ UNCHANGED badid
        /\ UNCHANGED <<files, server, oldreply, halted>>

\* An answer to an older request only keeps the next transmission back, and
\* passes the test of the type, since all requests are to open.
rdscommGo(p) ==
    LET f == pc[p]
    IN  /\ f.op = "rdscomm"
        /\ \/ /\ f.try < RD_RETRIES
              /\ DiskTransmit(p, f.msg, f.try + 1)
              /\ UNCHANGED oldreply
           \/ /\ DiskDone(p, "TIMEOUT")
              /\ UNCHANGED <<requests, oldreply>>
           \/ \E r \in replies :
                 /\ rdsAccepts(r, f.msg)
                 /\ DiskDone(p, r.status)
                 /\ oldreply' = (oldreply \/ r.seq < f.msg.seq)
                 /\ UNCHANGED requests
        /\ UNCHANGED <<files, server, rd_id, rd_seq, badid, halted>>

\* no request was ever queued
rdsclose(p) ==
    /\ pc[p] = Idle /\ rd_state = "open"
    /\ rd_state' = "free"
    /\ UNCHANGED <<files, server, requests, pc, rd_id, rd_seq, oldreply, badid, halted>>

rdsbufalloc(p) ==
    /\ pc[p] = Idle /\ rd_state = "open"
    /\ halted' = TRUE
    /\ UNCHANGED <<files, server, requests, pc, rd_state, rd_id, rd_seq, oldreply, badid>>

-----------------------------------------------------------------------------
Init ==
    /\ rf_mutex = NewSem(1) /\ rf_seq = 1 /\ rf_registered = FALSE
    /\ rfltab = [d \in Devices |-> [rfstate |-> "free", rfname |-> "", rfpos |-> 0, rfmode |-> {}]]
    /\ rd_state = "free" /\ rd_id = "" /\ rd_seq = 1
    /\ pc = [p \in Procs |-> Idle]
    /\ requests = {} /\ replies = {}
    /\ content = [n \in Names \cup {""} |-> [i \in Places |-> 0]]
    /\ executed = [n \in Names \cup {""} |-> 0] /\ late = [n \in Names \cup {""} |-> FALSE]
    /\ expected = [n \in Names \cup {""} |-> [i \in Places |-> {0}]]
    /\ opened = {} /\ oldreply = FALSE /\ badid = FALSE /\ halted = FALSE

FileUser(p) == \E k \in FileCalls : call(p, k)
DiskUser(p) == rdsclose(p) \/ rdsbufalloc(p) \/ \E id \in DiskIds : rdsopen(p, id)
Continues(p) == ~halted /\ (mutexGo(p) \/ rfscommGo(p) \/ rdscommGo(p))
Network == \E m \in requests : serve(m)

Next == ~halted /\ (Network \/ \E p \in Procs : FileUser(p) \/ DiskUser(p) \/ Continues(p))

\* a process that has the mutex runs, and udp_recv() returns in the end
Fairness == \A p \in Procs : WF_vars(Continues(p))

Spec == Init /\ [][Next]_vars /\ Fairness
-----------------------------------------------------------------------------
TypeOK ==
    /\ rf_mutex \in Semaphores(Procs)
    /\ \A d \in Devices : /\ rfltab[d].rfstate \in {"free", "used"}
                          /\ rfltab[d].rfname \in Names \cup {""}
                          /\ rfltab[d].rfstate = "used" => rfltab[d].rfmode \cap {"r", "w"} # {}
    /\ rd_state \in {"free", "pend", "open"}
    /\ \A p \in Procs :
           \/ pc[p] = Idle
           \/ pc[p].op = "mutex" /\ pc[p].call \in FileCalls
           \/ pc[p].op = "rfscomm" /\ pc[p].try \in 1 .. RF_RETRIES /\ pc[p].msg \in requests
           \/ pc[p].op = "rdscomm" /\ pc[p].try \in 1 .. RD_RETRIES /\ pc[p].msg \in requests

\* The mutex of the remote files is free, or one process has it, on every path
\* out of every call; and the entry for which a process waits for an answer stays
\* as it was when the request was made.
Holders == {p \in Procs : pc[p].op = "rfscomm" \/ (pc[p].op = "mutex" /\ p \notin ToSet(rf_mutex.queue))}
Exchanging == {p \in Procs : pc[p].op = "rfscomm"}
MutexKept ==
    /\ rf_mutex.count + Len(rf_mutex.queue) + Cardinality(Holders) = 1
    /\ \A p \in Exchanging :
           LET m == pc[p].msg
               entry == rfltab[pc[p].dev]
           IN  /\ m.type = "open" => entry.rfstate = "free" /\ entry.rfname = m.name
               /\ m.type \in {"read", "write"} =>
                      entry.rfstate = "used" /\ entry.rfname = m.name /\ entry.rfpos = m.pos

\* A call that returns OK was done by the server: a place of a file holds what the
\* last write (or truncation) that returned OK put there, or what a later one did
\* that failed without an answer, unless the network delivered changes in the
\* wrong order.
WritesStick == \A n \in Names, i \in Places : late[n] \/ content[n][i] \in expected[n][i]

\* A disk that is open was opened by the server, unless an old answer was taken
\* for the new one; while rdsopen() waits nobody else does, and RD_PEND ends
\* with it, unless an ID did not fit.
DiskOpened ==
    /\ rd_state = "open" /\ ~oldreply => rd_id \in opened
    /\ Cardinality({p \in Procs : pc[p].op = "rdscomm"}) = (IF rd_state = "pend" /\ ~badid THEN 1 ELSE 0)

\* Every call returns, whatever the network does: nobody keeps the mutex, and
\* the retries end.
CallsReturn == \A p \in Procs : pc[p] # Idle ~> (pc[p] = Idle \/ halted)
=============================================================================
