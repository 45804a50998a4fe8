--------------------------- MODULE ContainerPromise ---------------------------
(***************************************************************************)
(* What the deliveries of one job do with its one container, whatever the  *)
(* calls are that make it up: who created it owes its removal, who finds   *)
(* one there fails, and a delivery that fails or is revoked, at any time,  *)
(* owes a removal, too.  Only a clean-up that fails and a worker that dies *)
(* leave a container behind.                                               *)
(***************************************************************************)
CONSTANT Deliveries

VARIABLES
  image,  \* is there a container, that is, an instance image of it?
  phase   \* how each delivery stands to it

vars == <<image, phase>>

Init == image = FALSE /\ phase = [d \in Deliveries |-> "waiting"]

Move(d, from, to) == phase[d] \in from /\ phase' = [phase EXCEPT ![d] = to]

(* To see that there is none and to create one are two steps: of deliveries*)
(* that have both seen none, the later creates over the other's.           *)
Look(d) == ~image /\ Move(d, {"waiting"}, "ready") /\ UNCHANGED image

Create(d) == image' = TRUE /\ Move(d, {"ready"}, "using")

(* A creation that breaks off may leave the image.                         *)
CreateFails(d) == image' = TRUE /\ Move(d, {"ready"}, "owing")

Fail(d) ==
  Move(d, {"waiting", "ready", "using", "rid"}, "owing") /\ UNCHANGED image

Remove(d) == image' = FALSE /\ Move(d, {"using", "owing"}, "rid")

Abandon(d) == Move(d, {"owing"}, "rid") /\ UNCHANGED image

(* The handler of a failed commit cleans up after the delivery did.        *)
RemoveAgain(d) ==
  phase[d] \in {"owing", "rid"} /\ image' = FALSE /\ UNCHANGED phase

(* The worker dies, and whatever its deliveries owed.                      *)
Crash ==
  /\ \E lost \in SUBSET Deliveries :
       phase' = [d \in Deliveries |-> IF d \in lost THEN "rid" ELSE phase[d]]
  /\ UNCHANGED image

Next ==
  \/ \E d \in Deliveries :
       \/ Look(d) \/ Create(d) \/ CreateFails(d) \/ Fail(d)
       \/ Remove(d) \/ Abandon(d) \/ RemoveAgain(d)
  \/ Crash

Spec == Init /\ [][Next]_vars
===============================================================================
