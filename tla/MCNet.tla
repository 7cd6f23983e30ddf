------------------------------- MODULE MCNet --------------------------------
(***************************************************************************)
(* Module Net for TLC, in four kinds of traffic.                           *)
(*                                                                         *)
(* "frames": applications read and write frames; the device and its        *)
(* interrupts come at any time, in the null process and one application.   *)
(* "sending": datagrams leave by way of ARP and the output queue.          *)
(* "receiving": endpoints come and go.  "asking": getlocalip() asks for    *)
(* an address.                                                             *)
(*                                                                         *)
(* In the last three an interrupt is served at once, by the null process,  *)
(* and a packet arrives when the one before has been read; the transmitter *)
(* takes its time.                                                         *)
(***************************************************************************)
EXTENDS Net

CONSTANTS p1, p2, MaxInRx

VARIABLE traffic

MCvars == <<vars, traffic>>

Packet(to, type, ip, port, dst) == [to |-> to, type |-> type, ip |-> ip, port |-> port, dst |-> dst]
Frame(to) == Packet(to, "other", "h1", None, None)
ArpPackets == {Packet("us", "arp", ip, None, None) : ip \in Hosts}
Icmp(dst) == Packet("us", "icmp", "h1", None, dst)
Udp(port) == Packet("us", "udp", "h1", port, "bcast")
MCPackets == {Frame("us"), Frame("other"), Icmp("bcast"), Icmp("host"), Udp("app"), Udp("dhcp")}
             \cup ArpPackets

\* what arrives in each kind of traffic
Arrivals == [frames |-> {Frame("us"), Frame("other")},
             sending |-> ArpPackets \cup {Icmp("bcast")},
             receiving |-> {Udp("app"), Icmp("host")},
             asking |-> {Udp("dhcp"), Icmp("host")}]

MCInit == Init /\ traffic \in DOMAIN Arrivals

\* an interrupt that is to be served, or is being served
Interrupting == sr.ti \/ sr.ri \/ cpu # Nobody \/ \E p \in DOMAIN isr : isr[p] # NoHandler

Doing(ops) == {p \in Apps : pc'[p].op \in ops}
Destinations == {pc'[p].ip : p \in Doing({"getbuf", "send"})}

RawTraffic ==
    /\ Link \/ RawUsers
    /\ {p \in DOMAIN isr : isr'[p] # NoHandler} \subseteq Apps \cup {NullProc}
    /\ inRx' <= MaxInRx

Datagrams ==
    /\ Link \/ (~Interrupting /\ Protocols)
    /\ dma' # dma => ~Interrupting
    /\ dma'.rx # dma.rx => inRx = 0
    /\ cpu' = (IF isr'[NullProc] = NoHandler THEN Nobody ELSE NullProc)

\* one application, with an endpoint that it keeps, sends to h2; what answers
\* ICMP is sent to h1
SendingOnly ==
    /\ Doing({"dhcpsend", "recv"}) = {} /\ Doing({"idle"}) # {}
    /\ Destinations \subseteq {"h2"}
    /\ \A s \in Uids : udptab'[s] # udptab[s] => udptab'[s].remip = "h2" /\ udptab'[s].udstate = "used"

\* the transmitter takes a frame at once
ReceivingOnly ==
    /\ Destinations \cap Hosts = {}
    /\ \/ traffic = "receiving" /\ Doing({"dhcpsend"}) = {}
       \/ traffic = "asking" /\ \A s \in Uids : udptab'[s].port # "app"
    /\ \A s \in Uids : udptab'[s].remip # "h2"
    /\ txRing[dma.tx].own => dma' # dma

MCNext ==
    /\ ~halted
    /\ \/ traffic = "frames" /\ RawTraffic
       \/ traffic = "sending" /\ Datagrams /\ SendingOnly
       \/ traffic \in {"receiving", "asking"} /\ Datagrams /\ ReceivingOnly
    /\ \A i \in DOMAIN rxRing :
           rxRing'[i] # rxRing[i] => rxRing'[i].pkt \in Arrivals[traffic] \cup {Empty}
    /\ UNCHANGED traffic

MCSpec == MCInit /\ [][MCNext]_MCvars

Symmetry == Permutations({p1, p2})
=============================================================================
