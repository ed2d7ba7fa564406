-------------------------- MODULE DuplexConnectionSpec -------------------------
(* The behaviours of a DuplexConnection in the hands of a socket. *)
EXTENDS DuplexConnection

VARIABLE c

Init == c = NewConnection

Next == \E d \in {c}, e \in {c'} : Used(d, e) \/ Worked(d, e)

Spec == Init /\ [][Next]_c
===============================================================================
