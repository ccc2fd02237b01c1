----------------------------- MODULE SurfaceStore -----------------------------
(***************************************************************************)
(* What the decode path promises to a client that uses it in order: a      *)
(* surface is taken for one picture, holds that picture and nothing else   *)
(* once it is given back, and keeps it until it is taken again.  A device  *)
(* that failed to decode a picture may give back surfaces that hold none.  *)
(* There are no buffers, requests or queues here; PictureClient implements *)
(* it.                                                                     *)
(***************************************************************************)
EXTENDS Naturals

CONSTANT Surfaces

VARIABLES
  phase,   \* taken for a picture, shown to the client, or idle
  asked,   \* the last picture each surface was taken for
  shown,   \* the pictures a surface that is not taken holds
  damaged  \* a picture could not be decoded

storeVars == <<phase, asked, shown, damaged>>

\* Pictures are numbered in the order in which surfaces are taken for them.
Take(s) ==
  /\ phase[s] # "taken"
  /\ \E p \in {1 + asked[t] : t \in Surfaces} :
       /\ \A t \in Surfaces : asked[t] < p
       /\ asked' = [asked EXCEPT ![s] = p]
  /\ phase' = [phase EXCEPT ![s] = "taken"]
  /\ shown' = [shown EXCEPT ![s] = {}]
  /\ UNCHANGED damaged

GiveBack(s) ==
  /\ phase[s] = "taken"
  /\ \E ph \in {"shown", "idle"} : phase' = [phase EXCEPT ![s] = ph]
  /\ \/ shown' = [shown EXCEPT ![s] = {asked[s]}]
     \/ damaged /\ shown' = [shown EXCEPT ![s] = {}]
  /\ UNCHANGED <<asked, damaged>>

Retire(s) ==
  /\ phase[s] = "shown"
  /\ phase' = [phase EXCEPT ![s] = "idle"]
  /\ UNCHANGED <<asked, shown, damaged>>

Damage ==
  /\ damaged' = TRUE
  /\ UNCHANGED <<phase, asked, shown>>

StoreInit ==
  /\ phase = [s \in Surfaces |-> "idle"]
  /\ asked = [s \in Surfaces |-> 0]
  /\ shown = [s \in Surfaces |-> {}]
  /\ damaged = FALSE

StoreNext == Damage \/ \E s \in Surfaces : Take(s) \/ GiveBack(s) \/ Retire(s)

StoreSpec == StoreInit /\ [][StoreNext]_storeVars
=============================================================================
