----------------------------- MODULE AtomicFile -----------------------------
(***************************************************************************)
(* What write_pem and write_der promise (src/src/ca_detail.h): a published *)
(* file is replaced in one step, by all its writer wrote, or not at all,   *)
(* and a call that does not replace it leaves it as it was.  What it wrote *)
(* is the content it was given, but for the end of it that an error the    *)
(* call does not notice may have lost.                                     *)
(***************************************************************************)
CONSTANTS
    Writers, Paths, Contents, None,
    Remnant     \* [Contents -> ...]: what such an error leaves of a content

VARIABLES
    published,  \* what a reader finds at each path; None before there is a file
    call        \* each writer's call in progress: <<path, content>>, or None

vars == <<published, call>>

Init ==
    /\ published = [path \in Paths |-> None]
    /\ call = [w \in Writers |-> None]

Start(w) ==
    /\ call[w] = None
    /\ \E path \in Paths, content \in Contents :
          call' = [call EXCEPT ![w] = <<path, content>>]
    /\ UNCHANGED published

LateError(w) ==
    /\ call[w] # None
    /\ call[w][2] \in Contents
    /\ call' = [call EXCEPT ![w] = <<call[w][1], Remnant[call[w][2]]>>]
    /\ UNCHANGED published

Replace(w) ==
    /\ call[w] # None
    /\ published' = [published EXCEPT ![call[w][1]] = call[w][2]]
    /\ call' = [call EXCEPT ![w] = None]

\* The call returns false, or its process dies.
GiveUp(w) ==
    /\ call[w] # None
    /\ call' = [call EXCEPT ![w] = None]
    /\ UNCHANGED published

Next == \E w \in Writers : Start(w) \/ LateError(w) \/ Replace(w) \/ GiveUp(w)

Spec == Init /\ [][Next]_vars
=============================================================================
