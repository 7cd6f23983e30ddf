-------------------------------- MODULE Net ---------------------------------
(***************************************************************************)
(* The network protocols (Chapter17) above the Ethernet driver: the ARP    *)
(* cache, the UDP table, the IP output queue, the pool of packet buffers,  *)
(* the processes netin and ipout, and applications that send and receive   *)
(* datagrams or ask for an address with getlocalip().                      *)
(*                                                                         *)
(* A call runs with interrupts disabled, so that it is interrupted only    *)
(* where it waits: for a buffer, for a transmit descriptor, for a message. *)
(* pc[p] says where p is and what it needs afterwards; a frame k inside it *)
(* is where p goes on when the packet has been sent or dropped.  Messages  *)
(* and timeouts are those of Chapter13: recvtime() returns the message of  *)
(* the process if there is one, or, after a while, TIMEOUT.                *)
(*                                                                         *)
(* net_init() clears NetData and nothing but getlocalip() ever changes it, *)
(* after a datagram arrived (NothingDelivered: none does).  So there is no *)
(* valid address: the prefix and the mask are 0, every host is its own     *)
(* next hop, and arp_in() answers no request, which is then handled like   *)
(* a reply.  ICMP is not in the repository: icmp_in() drops its packet or  *)
(* hands an answer to ip_enqueue().                                        *)
(***************************************************************************)
EXTENDS Ether

CONSTANTS
    netin, ipout,               \* the two processes that net_init() creates
    Hosts,                      \* IP addresses; the MAC address of a host has its name
    NBUF,                       \* buffers of the pool
    ARP_SIZ, ARP_RETRY, UDP_SLOTS, UDP_QSIZ, IP_OQSIZ, DHCP_RETRY,
    MaxStrays                   \* messages sent to a process by others than arp_in()

ASSUME NetAssumption ==
    /\ {netin, ipout} \subseteq Procs
    /\ {NBUF, ARP_SIZ, ARP_RETRY, UDP_SLOTS, UDP_QSIZ, IP_OQSIZ, DHCP_RETRY} \subseteq Nat \ {0}

VARIABLES
    bufs, bufsem,                     \* the pool: buffers on its list, and its semaphore
    arpcache, udptab,
    iqbuf, iqhead, iqtail, iqsem,     \* ipoqueue
    message,                          \* the mailboxes
    halted,                           \* NULL was followed, or a queue overwritten
    strays, evicted                   \* (history) messages of others; an entry was taken
                                      \* before the process that had waited for it went on

pool == <<bufs, bufsem>>
ipoqueue == <<iqbuf, iqhead, iqtail, iqsem>>
tables == <<arpcache, udptab>>
history == <<strays, evicted>>
vars == <<etherVars, pool, tables, ipoqueue, message, halted, history>>

Apps == Procs \ {netin, ipout}
None == "none"
Slots == 0 .. ARP_SIZ - 1
Uids == 0 .. UDP_SLOTS - 1
FreeEntry == [arstate |-> "free", arpaddr |-> None, arhaddr |-> None, arpid |-> None]
FreeUdp == [udstate |-> "free", remip |-> None, port |-> None, pid |-> None, queue |-> <<>>]

\* q is inside arp_resolve() for the entry in this slot
WaitsFor(q, slot) == pc[q].op \in {"arpwrite", "arpwait"} /\ pc[q].slot = slot

Calls(p) == p \in Apps /\ At(p, "idle")
udcount(s) == Len(udptab[s].queue)

ArpRequest == [to |-> "bcast", ip |-> None]
Datagram(ip, mac) == [to |-> mac, ip |-> ip]

-----------------------------------------------------------------------------
\* Buffers and messages.  freebuf() signals the semaphore and does not put the
\* buffer back (module BufPool); getbuf() from a list that is empty follows NULL.
\* (mutant) nobody who waits goes on
SignalledNobody(sem, n) == [sem EXCEPT !.count = @ + n]

SignalledBy(sem, n) ==
    LET woken == IF n < Len(sem.queue) THEN n ELSE Len(sem.queue)
    IN  [count |-> sem.count + n, queue |-> SubSeq(sem.queue, woken + 1, Len(sem.queue))]

freebufs(n) == bufsem' = SignalledBy(bufsem, n) /\ UNCHANGED bufs
freebuf == freebufs(1)

\* the rest of getbuf() after its wait(); p goes on at f
BufTaken(p, f) ==
    IF bufs = 0
    THEN halted' = TRUE /\ UNCHANGED <<bufs, pc>>
    ELSE bufs' = bufs - 1 /\ Then(p, f) /\ UNCHANGED halted

Sent(box, p, m) == IF box[p] = None THEN [box EXCEPT ![p] = m] ELSE box
Cleared(p) == [message EXCEPT ![p] = None]

-----------------------------------------------------------------------------
\* UDP

Matches(s, pkt) ==
    /\ udptab[s].udstate # "free"
    /\ udptab[s].port = pkt.port
    /\ udptab[s].remip \in {None, pkt.ip}


\* the test in udp_in(): the queue is full
Enqueues(s) == udcount(s) >= UDP_QSIZ

\* the packet goes to the first endpoint that takes it, or back to the pool
udp_in(pkt) ==
    LET takers == {s \in Uids : Matches(s, pkt) /\ Enqueues(s)}
        s == Min(takers)
        u == udptab[s]
    IN  IF takers = {}
        THEN freebuf /\ UNCHANGED <<udptab, message>>
        ELSE /\ udptab' = [udptab EXCEPT ![s].queue = Append(@, pkt),
                                         ![s].udstate = "used"]
             /\ message' = IF u.udstate = "recv" THEN Sent(message, u.pid, "OK") ELSE message
             /\ UNCHANGED pool

Registered(remip, port) ==
    \E s \in Uids : /\ udptab[s].udstate # "free"
                    /\ udptab[s].remip = remip /\ udptab[s].port = port

FreeUids == {s \in Uids : udptab[s].udstate = "free"}

\* an existing endpoint, or no free slot: SYSERR
udp_register(p, remip, port) ==
    /\ ~Registered(remip, port) /\ FreeUids # {}
    /\ udptab' = [udptab EXCEPT ![Min(FreeUids)] =
           [udstate |-> "used", remip |-> remip, port |-> port, pid |-> None, queue |-> <<>>]]

\* the end of udp_recv() and udp_recvaddr(): a queue that is empty holds NULL
Dequeue(p, s) ==
    IF udptab[s].queue = <<>>
    THEN /\ halted' = TRUE
         /\ UNCHANGED <<etherVars, pool, tables, ipoqueue, history>>
    ELSE /\ udptab' = [udptab EXCEPT ![s].queue = Tail(@)]
         /\ freebuf
         /\ Then(p, [op |-> "delivered"])
         /\ UNCHANGED <<transmitter, receiver, dma, handlers, arpcache, ipoqueue, halted, history>>

\* addr: udp_recvaddr(), which, unlike udp_recv(), ends the state UDP_RECV itself;
\* TIMEOUT goes on at k, SYSERR ends the caller's call too
udp_recv(p, s, addr, k) ==
    /\ udptab[s].udstate = "used"
    /\ IF udcount(s) = 0
       THEN /\ message' = Cleared(p)
            /\ udptab' = [udptab EXCEPT ![s].udstate = "recv", ![s].pid = p]
            /\ Then(p, [op |-> "recv", slot |-> s, addr |-> addr, k |-> k])
            /\ UNCHANGED <<transmitter, receiver, dma, handlers, pool, arpcache, ipoqueue,
                           halted, history>>
       ELSE Dequeue(p, s) /\ UNCHANGED message

udp_recvGo(p) ==
    LET f == pc[p]
    IN  /\ At(p, "recv")
        /\ message' = Cleared(p)
        /\ \/ /\ message[p] # "OK"
              /\ udptab' = IF f.addr THEN [udptab EXCEPT ![f.slot].udstate = "used"] ELSE udptab
              /\ Then(p, IF message[p] = None THEN f.k ELSE Idle)
              /\ UNCHANGED <<transmitter, receiver, dma, handlers, pool, arpcache, ipoqueue,
                             halted, history>>
           \/ message[p] = "OK" /\ Dequeue(p, f.slot)

\* the packets that are queued go back to the pool
Released(s) == udptab' = [udptab EXCEPT ![s].udstate = "free", ![s].queue = <<>>] /\ freebufs(udcount(s))

udp_release(s) == udptab[s].udstate # "free" /\ Released(s)

-----------------------------------------------------------------------------
\* ARP and IP: a datagram on its way out.  The caller has a buffer, which
\* ip_send() frees in every case.

\* (mutant) and its buffer lost
DroppedWhole(p, k) ==
    /\ Then(p, k)
    /\ UNCHANGED <<transmitter, receiver, dma, handlers, pool>>

\* the packet is dropped
Dropped(p, k) ==
    /\ freebuf
    /\ Then(p, k)
    /\ UNCHANGED <<transmitter, receiver, dma, handlers>>

\* ip_out(): the buffer is free when the frame is in the ring
ip_out(p, ip, mac, k) ==
    /\ UNCHANGED <<receiver, dma, handlers>>
    /\ \/ /\ ethwriteWaits(p, [op |-> "ipwrite", ip |-> ip, mac |-> mac, k |-> k])
          /\ UNCHANGED pool
       \/ /\ ethwrite(p, Datagram(ip, mac))
          /\ freebuf
          /\ Then(p, k)

Pending(e) == e.arstate = "pending"
Resolved(e) == e.arstate = "resolved"

\* (mutant) any entry can be taken
AllocSlotsAny == IF \E i \in Slots : arpcache[i].arstate = "free"
                 THEN {i \in Slots : arpcache[i].arstate = "free"} ELSE Slots

\* arp_alloc(): the first free slot, or else the first that is resolved
AllocSlots ==
    IF \E i \in Slots : arpcache[i].arstate = "free"
    THEN {i \in Slots : arpcache[i].arstate = "free"}
    ELSE {i \in Slots : Resolved(arpcache[i])}

\* a request, the first or one more
arp_request(p, slot, ip, try, k) ==
    LET f(op) == [op |-> op, slot |-> slot, ip |-> ip, try |-> try, k |-> k]
    IN  /\ \/ ethwriteWaits(p, f("arpwrite"))
           \/ ethwrite(p, ArpRequest) /\ Then(p, f("arpwait"))
        /\ UNCHANGED <<receiver, dma, handlers, pool>>

\* the hardware address is in the cache; or an entry is pending, for any
\* process; or all entries are pending; or a new entry is made
arp_resolve(p, ip, k) ==
    LET found == {i \in Slots : arpcache[i].arstate # "free" /\ arpcache[i].arpaddr = ip}
        slot == Min(AllocSlots)
    IN  \/ /\ \E i \in found : Resolved(arpcache[i]) /\ ip_out(p, ip, arpcache[i].arhaddr, k)
           /\ UNCHANGED <<arpcache, message, history>>
        \/ /\ (\E i \in found : Pending(arpcache[i])) \/ (found = {} /\ AllocSlots = {})
           /\ Dropped(p, k)
           /\ UNCHANGED <<arpcache, message, history>>
        \/ /\ found = {} /\ AllocSlots # {}
           /\ arpcache' = [arpcache EXCEPT ![slot] =
                  [arstate |-> "pending", arpaddr |-> ip, arhaddr |-> None, arpid |-> p]]
           /\ evicted' = (evicted \/ \E q \in Procs : WaitsFor(q, slot))
           /\ message' = Cleared(p)
           /\ arp_request(p, slot, ip, 1, k)
           /\ UNCHANGED strays

\* recvtime() returns in arp_resolve(): TIMEOUT, an error, or an answer
arpwaitGo(p) ==
    LET f == pc[p]
    IN  /\ At(p, "arpwait")
        /\ message' = Cleared(p)
        /\ \/ /\ message[p] = None
              /\ f.try < ARP_RETRY
              /\ arp_request(p, f.slot, f.ip, f.try + 1, f.k)
              /\ UNCHANGED arpcache
           \/ /\ message[p] = None
              /\ f.try = ARP_RETRY
              /\ arpcache' = [arpcache EXCEPT ![f.slot] = FreeEntry]
              /\ Dropped(p, f.k)
           \/ /\ message[p] = "SYSERR"
              /\ Dropped(p, f.k)
              /\ UNCHANGED arpcache
           \/ /\ message[p] = "OK"
              /\ ip_out(p, f.ip, arpcache[f.slot].arhaddr, f.k)
              /\ UNCHANGED arpcache
        /\ UNCHANGED <<udptab, ipoqueue, halted, history>>

-----------------------------------------------------------------------------
\* udp_send() to the host of the endpoint, if it has one, and udp_sendto() to any:
\* a buffer, and then ip_send(), which is a step of its own, as it is for a
\* process that had to wait for the buffer.
udp_sendto(p, s, ip, k) ==
    LET f(op) == [op |-> op, ip |-> ip, port |-> udptab[s].port, k |-> k]
    IN  /\ udptab[s].udstate # "free"
        /\ bufsem' = Waited(bufsem, p)
        /\ IF Blocks(bufsem)
           THEN Then(p, f("getbuf")) /\ UNCHANGED <<bufs, halted>>
           ELSE BufTaken(p, f("send"))
        /\ UNCHANGED <<transmitter, receiver, dma, handlers, tables, ipoqueue, message, history>>

getbufGo(p) ==
    /\ At(p, "getbuf") /\ p \notin ToSet(bufsem.queue)
    /\ BufTaken(p, [pc[p] EXCEPT !.op = "send"])
    /\ UNCHANGED <<transmitter, receiver, dma, handlers, bufsem, tables, ipoqueue, message, history>>

\* to this computer, whose datagrams come back to udp_in(), to everyone, or to a host
ip_send(p) ==
    LET f == pc[p]
    IN  /\ At(p, "send")
        /\ \/ /\ f.ip = "self"
              /\ udp_in([port |-> f.port, ip |-> f.ip])
              /\ Then(p, f.k)
              /\ UNCHANGED <<transmitter, receiver, dma, handlers, arpcache, history>>
           \/ /\ f.ip = "bcast"
              /\ ip_out(p, f.ip, "bcast", f.k)
              /\ UNCHANGED <<tables, message, history>>
           \/ /\ f.ip \in Hosts
              /\ arp_resolve(p, f.ip, f.k)
              /\ UNCHANGED udptab
        /\ UNCHANGED <<ipoqueue, halted>>

-----------------------------------------------------------------------------
\* The IP output queue

Unread == {i \in 0 .. IP_OQSIZ - 1 : iqbuf[i] # None}

\* (mutant) room for one more
QueueFullLate == iqsem.count > IP_OQSIZ

QueueFull == iqsem.count >= IP_OQSIZ

\* What a packet that was overwritten leads to is not followed.
ip_enqueue(ip) ==
    IF QueueFull
    THEN freebuf /\ UNCHANGED <<ipoqueue, halted>>
    ELSE /\ iqbuf' = [iqbuf EXCEPT ![iqtail] = ip]
         /\ iqtail' = (iqtail + 1) % IP_OQSIZ
         /\ iqsem' = Signalled(iqsem)
         /\ halted' = (iqbuf[iqtail] # None)
         /\ UNCHANGED <<iqhead, pool>>

\* ipout waits for a packet with interrupts enabled, and takes it
ipoutWait ==
    /\ At(ipout, "ipout")
    /\ iqsem' = Waited(iqsem, ipout)
    /\ Then(ipout, [op |-> "iqwait"])
    /\ UNCHANGED <<transmitter, receiver, dma, handlers, pool, tables, iqbuf, iqhead, iqtail,
                   message, halted, history>>

\* the packet that ipout has taken: no broadcast, and none for this computer
ipoutSend ==
    LET ip == iqbuf[iqhead]
        k == [op |-> "ipout"]
    IN  /\ At(ipout, "iqwait") /\ ipout \notin ToSet(iqsem.queue)
        /\ iqbuf' = [iqbuf EXCEPT ![iqhead] = None]
        /\ iqhead' = (iqhead + 1) % IP_OQSIZ
        /\ IF ip \in {"bcast", "self"}
           THEN Dropped(ipout, k) /\ UNCHANGED <<arpcache, message, history>>
           ELSE arp_resolve(ipout, ip, k)
        /\ UNCHANGED <<udptab, iqtail, iqsem, halted>>

-----------------------------------------------------------------------------
\* The input process

netinBuf ==
    /\ At(netin, "netin")
    /\ bufsem' = Waited(bufsem, netin)
    /\ IF Blocks(bufsem)
       THEN Then(netin, [op |-> "netbuf"]) /\ UNCHANGED <<bufs, halted>>
       ELSE BufTaken(netin, [op |-> "netread"])
    /\ UNCHANGED <<transmitter, receiver, dma, handlers, tables, ipoqueue, message, history>>

netinBufGo ==
    /\ At(netin, "netbuf") /\ netin \notin ToSet(bufsem.queue)
    /\ BufTaken(netin, [op |-> "netread"])
    /\ UNCHANGED <<transmitter, receiver, dma, handlers, bufsem, tables, ipoqueue, message, history>>

\* read(): waits, or comes back with a packet, when it is called and later
Take == [pkt \in Packets |-> [op |-> "netpkt", pkt |-> pkt]]

netinRead ==
    /\ \/ At(netin, "netread") /\ ethread(netin, 0, [op |-> "reading"], Take)
       \/ /\ At(netin, "reading") /\ netin \notin ToSet(isem.queue)
          /\ ethread(netin, 1, [op |-> "reading"], Take)
    /\ UNCHANGED <<transmitter, dma, handlers, pool, tables, ipoqueue, message, halted, history>>

\* (mutant) the entry is marked and the address not stored
LearnedNot(e, pkt) == [e EXCEPT !.arstate = "resolved"]

Learned(e, pkt) == [e EXCEPT !.arhaddr = pkt.ip, !.arstate = "resolved"]

\* arp_in(): the entry of the sender, if there is one, is updated; a process that
\* waits for it is told, and may run before the packet is freed
arp_in(pkt) ==
    LET found == {i \in Slots : arpcache[i].arstate # "free" /\ arpcache[i].arpaddr = pkt.ip}
        waking == {i \in found : Pending(arpcache[i])}
    IN  /\ arpcache' = [i \in Slots |->
               IF i \in found THEN Learned(arpcache[i], pkt) ELSE arpcache[i]]
        /\ IF waking # {}
           THEN /\ message' = Sent(message, arpcache[Min(waking)].arpid, "OK")
                /\ Then(netin, [op |-> "arpin"])
                /\ UNCHANGED bufsem
           ELSE /\ freebuf
                /\ Then(netin, [op |-> "netin"])
                /\ UNCHANGED message

arp_inGo ==
    /\ At(netin, "arpin")
    /\ freebuf
    /\ Then(netin, [op |-> "netin"])
    /\ UNCHANGED <<transmitter, receiver, dma, handlers, tables, ipoqueue, message, halted, history>>

\* ICMP, which is not in the repository: the packet is dropped, or becomes an
\* answer to its sender
icmp_in(pkt) ==
    \/ ip_enqueue(pkt.ip)
    \/ freebuf /\ UNCHANGED <<ipoqueue, halted>>

ip_local(pkt) ==
    \/ pkt.type = "udp" /\ udp_in(pkt) /\ UNCHANGED <<ipoqueue, halted>>
    \/ pkt.type = "icmp" /\ icmp_in(pkt) /\ UNCHANGED <<udptab, message>>

\* without a valid address, UDP is accepted, and what was broadcast; "other" is
\* what no protocol takes, or is damaged
ip_in(pkt) ==
    LET accepted == pkt.type = "udp" \/ (pkt.type = "icmp" /\ pkt.dst = "bcast")
    IN  /\ Then(netin, [op |-> "netin"])
        /\ \/ accepted /\ ip_local(pkt)
           \/ ~accepted /\ freebuf /\ UNCHANGED <<udptab, message, ipoqueue, halted>>

netinHandle ==
    LET pkt == pc[netin].pkt
    IN  /\ At(netin, "netpkt")
        /\ \/ pkt.type = "arp" /\ arp_in(pkt) /\ UNCHANGED <<bufs, udptab, ipoqueue, halted>>
           \/ pkt.type # "arp" /\ ip_in(pkt) /\ UNCHANGED arpcache
        /\ UNCHANGED <<transmitter, receiver, dma, handlers, history>>

-----------------------------------------------------------------------------
\* Applications

OwnUids == {s \in Uids : udptab[s].port = "app"}

register(p, remip) ==
    /\ Calls(p)
    /\ udp_register(p, remip, "app")
    /\ UNCHANGED <<etherVars, pool, arpcache, ipoqueue, message, halted, history>>

send(p, s) == Calls(p) /\ udptab[s].remip # None /\ udp_sendto(p, s, udptab[s].remip, Idle)
sendto(p, s, ip) == Calls(p) /\ udp_sendto(p, s, ip, Idle)
recv(p, s, addr) == Calls(p) /\ udp_recv(p, s, addr, Idle)

release(p, s) ==
    /\ Calls(p)
    /\ udp_release(s)
    /\ UNCHANGED <<etherVars, arpcache, ipoqueue, message, halted, history>>

\* a message that has nothing to do with the network, to a process in arp_resolve()
\* or udp_recv(): any other would be thrown away by recvclr()
stray(p, m) ==
    /\ strays < MaxStrays
    /\ pc[p].op \in {"arpwrite", "arpwait", "recv"}
    /\ message[p] = None
    /\ message' = [message EXCEPT ![p] = m]
    /\ strays' = strays + 1
    /\ UNCHANGED <<etherVars, pool, tables, ipoqueue, halted, evicted>>

\* write() to the device, without the protocols
RawFrame == [to |-> "other", ip |-> None]

write(p) ==
    /\ Calls(p)
    /\ \/ ethwriteWaits(p, [op |-> "write"])
       \/ ethwrite(p, RawFrame) /\ UNCHANGED pc
    /\ UNCHANGED <<receiver, dma, handlers, pool, tables, ipoqueue, message, halted, history>>

\* read() from the device
read(p) ==
    LET Return == [pkt \in Packets |-> Idle]
    IN  /\ \/ Calls(p) /\ ethread(p, 0, [op |-> "read"], Return)
           \/ At(p, "read") /\ p \notin ToSet(isem.queue) /\ ethread(p, 1, [op |-> "read"], Return)
        /\ UNCHANGED <<transmitter, dma, handlers, pool, tables, ipoqueue, message, halted, history>>

-----------------------------------------------------------------------------
\* getlocalip(): an endpoint, a broadcast, and then three times udp_recv().  A
\* datagram that it received would be looked at; none comes.

getlocalip(p) ==
    /\ Calls(p)
    /\ udp_register(p, None, "dhcp")
    /\ Then(p, [op |-> "dhcpsend", slot |-> Min(FreeUids), try |-> 1])
    /\ UNCHANGED <<transmitter, receiver, dma, handlers, pool, arpcache, ipoqueue, message,
                   halted, history>>

getlocalipSend(p) ==
    LET f == pc[p]
    IN  /\ At(p, "dhcpsend")
        /\ udp_sendto(p, f.slot, "bcast",
                      [op |-> "dhcprecv", slot |-> f.slot, try |-> f.try, waits |-> 1])

\* the third TIMEOUT ends a try, the last try the call
getlocalipRecv(p) ==
    LET f == pc[p]
    IN  /\ At(p, "dhcprecv")
        /\ IF f.waits <= 3
           THEN IF udptab[f.slot].udstate = "used"
                THEN udp_recv(p, f.slot, FALSE, [f EXCEPT !.waits = @ + 1])
                ELSE /\ Then(p, Idle)
                     /\ UNCHANGED <<transmitter, receiver, dma, handlers, pool, tables, ipoqueue,
                                    message, halted, history>>
           ELSE /\ IF f.try < DHCP_RETRY
                   THEN /\ Then(p, [op |-> "dhcpsend", slot |-> f.slot, try |-> f.try + 1])
                        /\ UNCHANGED <<pool, udptab>>
                   ELSE Then(p, Idle) /\ Released(f.slot)
                /\ UNCHANGED <<transmitter, receiver, dma, handlers, arpcache, ipoqueue,
                               message, halted, history>>

-----------------------------------------------------------------------------
Init ==
    /\ EtherInit
    /\ pc = [p \in Procs |-> IF p = netin THEN [op |-> "netin"]
                            ELSE IF p = ipout THEN [op |-> "ipout"] ELSE Idle]
    /\ bufs = NBUF /\ bufsem = NewSem(NBUF)
    /\ arpcache = [i \in Slots |-> FreeEntry]
    /\ udptab = [s \in Uids |-> FreeUdp]
    /\ iqbuf = [i \in 0 .. IP_OQSIZ - 1 |-> None] /\ iqhead = 0 /\ iqtail = 0 /\ iqsem = NewSem(0)
    /\ message = [p \in Procs |-> None]
    /\ halted = FALSE /\ strays = 0 /\ evicted = FALSE

\* the device and its interrupts
Link == link /\ UNCHANGED <<pool, tables, ipoqueue, message, halted, history>>

\* what an application does, and where it goes on
Application(p) ==
    \/ \E remip \in Hosts \cup {None} : register(p, remip)
    \/ \E s \in OwnUids : send(p, s) \/ release(p, s)
    \/ \E s \in OwnUids, ip \in Hosts \cup {"self", "bcast"} : sendto(p, s, ip)
    \/ \E s \in OwnUids, addr \in BOOLEAN : recv(p, s, addr)
    \/ getlocalip(p)

Continues(p) ==
    \/ getbufGo(p) \/ ip_send(p) \/ arpwaitGo(p) \/ udp_recvGo(p)
    \/ getlocalipSend(p) \/ getlocalipRecv(p)

Input == netinBuf \/ netinBufGo \/ netinRead \/ netinHandle \/ arp_inGo

Output == ipoutWait \/ ipoutSend

RawUser(p) == write(p) \/ read(p)

Protocols ==
    \/ \E p \in Apps : Application(p)
    \/ \E p \in Procs : Continues(p)
    \/ Input \/ Output
    \/ \E p \in Procs, m \in {"OK", "SYSERR"} : stray(p, m)

RawUsers == \E p \in Apps : RawUser(p)

Next == ~halted /\ (Link \/ Protocols \/ RawUsers)

Spec == Init /\ [][Next]_vars
-----------------------------------------------------------------------------
TypeOK ==
    /\ {txHead, txTail, dma.tx} \subseteq 0 .. txRingSize - 1
    /\ {rxHead, rxTail, dma.rx} \subseteq 0 .. rxRingSize - 1
    /\ \A s \in {osem, isem, bufsem, iqsem} : s.count \in Int /\ ToSet(s.queue) \subseteq Procs
    /\ \A s \in {osem, isem, bufsem, iqsem} : Len(s.queue) = (IF s.count < 0 THEN -s.count ELSE 0)
    /\ bufs \in 0 .. NBUF
    /\ \A i \in Slots :
           /\ arpcache[i].arstate \in {"free", "pending", "resolved"}
           /\ arpcache[i].arstate # "free" => arpcache[i].arpaddr \in Hosts /\ arpcache[i].arpid \in Procs
    /\ \A s \in Uids : udptab[s].udstate \in {"free", "used", "recv"} /\ Len(udptab[s].queue) <= UDP_QSIZ
    /\ {iqhead, iqtail} \subseteq 0 .. IP_OQSIZ - 1
    /\ message \in [Procs -> {None, "OK", "SYSERR"}]
    /\ halted \in BOOLEAN

\* processes that have a buffer of their own
Holders == {p \in Procs : pc[p].op \in {"send", "arpwrite", "arpwait", "ipwrite", "netread",
                                       "reading", "netpkt", "arpin"}}

\* No path, whatever fails on it, keeps a buffer or frees it twice: each is
\* counted by the pool's semaphore, owed to a process that was let through,
\* held by a process, or in the output queue, which has room for IP_OQSIZ
\* packets and is given one more only while ipout has not read its own.
BuffersBalanced ==
    LET granted == Cardinality(Granted({"iqwait"}, iqsem))
        queued == iqsem.count + Len(iqsem.queue) + granted
        owed == Cardinality(Granted({"getbuf", "netbuf"}, bufsem))
    IN  /\ queued <= IP_OQSIZ + granted
        /\ ~halted =>
              /\ queued = Cardinality(Unread)
              /\ NBUF = bufsem.count + Len(bufsem.queue) + owed + Cardinality(Holders) + queued

\* A process in arp_resolve() waits for an entry of its own until there is a
\* message for it; if nobody else sends messages, every entry that is pending
\* has its process waiting.
ArpHonest ==
    /\ \A i \in Slots, p \in Procs : WaitsFor(p, i) /\ message[p] = None =>
           Pending(arpcache[i]) /\ arpcache[i].arpid = p /\ arpcache[i].arpaddr = pc[p].ip
    /\ strays = 0 => \A i \in Slots : Pending(arpcache[i]) => WaitsFor(arpcache[i].arpid, i)

\* The cache knows the right addresses, and a datagram leaves with its next
\* hop's, unless another message came first or the entry was given away.
Frames == {txRing[i].pkt : i \in DOMAIN txRing}
FramesAddressed ==
    /\ \A i \in Slots : Resolved(arpcache[i]) => arpcache[i].arhaddr = arpcache[i].arpaddr
    /\ strays > 0 \/ evicted \/ \A f \in Frames : "ip" \in DOMAIN f /\ f.ip # None => f.to = f.ip


=============================================================================
