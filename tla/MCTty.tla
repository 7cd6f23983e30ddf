------------------------------- MODULE MCTty --------------------------------
(***************************************************************************)
(* Module Tty for TLC.  The two directions share only the echo queue, the  *)
(* hold and the interrupts, so that a behaviour exercises one of them: in  *)
(* one nothing is read and what is typed is not stored, in the other       *)
(* nothing is written.                                                     *)
(***************************************************************************)
EXTENDS Tty

VARIABLE direction

MCvars == <<vars, direction>>

MCInit == Init /\ direction \in {"out", "in"}

MCNext ==
    /\ Next
    /\ direction = "out" => UNCHANGED <<tyisem, typed, tyimode>>
    /\ direction = "in" => UNCHANGED <<tyosem, tyiecho>>
    /\ UNCHANGED direction

\* the texts and characters of this instance
MCTexts == {<<"x">>, <<"x", "nl">>}

MCSpec == MCInit /\ [][MCNext]_MCvars /\ Fairness
=============================================================================
