----------------------------- MODULE MCReferences -----------------------------
(* Constant values for the run of References. *)
EXTENDS References

MCSurfaces == 0 .. 2
MCFds == {3, 4, 5}
MCFaults == {"controls", "timeout", "reinit", "decode"}
=============================================================================
