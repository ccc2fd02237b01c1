------------------------------ MODULE MCContexts ------------------------------
(* Constant values for the runs of Contexts. *)
EXTENDS Contexts

MCSurfaces == 0 .. 1
MCContextIds == 0 .. 1
AllFaults == {Steps[i] : i \in 1 .. Len(Steps)} \cup {"destroy"}
NoFault == {}
=============================================================================
