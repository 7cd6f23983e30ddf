------------------------------ MODULE MCRemote ------------------------------
(***************************************************************************)
(* Module Remote for TLC: either the files are used or the disk, since     *)
(* they have nothing in common but the network.                            *)
(***************************************************************************)
EXTENDS Remote

VARIABLE use

MCvars == <<vars, use>>

MCModes == {<<"w">>, <<>>, <<"r", "r">>}

MCInit == Init /\ use \in {"files", "disk"}

MCUser(p) ==
    \/ use = "files" /\ FileUser(p)
    \/ use = "disk" /\ DiskUser(p)

MCContinues(p) == Continues(p) /\ UNCHANGED use

MCNext ==
    \/ ~halted /\ (Network \/ \E p \in Procs : MCUser(p)) /\ UNCHANGED use
    \/ \E p \in Procs : MCContinues(p)

MCSpec == MCInit /\ [][MCNext]_MCvars /\ \A p \in Procs : WF_MCvars(MCContinues(p))
=============================================================================
