---------------------------- MODULE MCPicturesAny ----------------------------
(* The decode path under any client and every failure, two surfaces.       *)
EXTENDS Picture

MCSurfaces == 0 .. 1
MCFds == {3, 4}
MCFaults == FaultKinds
=============================================================================
