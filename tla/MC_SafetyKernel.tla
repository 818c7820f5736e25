-------------------------- MODULE MC_SafetyKernel ---------------------------
(* Instances of SafetyKernel for TLC. *)
EXTENDS SafetyKernel

CONSTANTS a1, k1, k2

MCCoords == {"channel"}
MCCoordValues == {"can0"}
Can0 == [c \in MCCoords |-> "can0"]
Anywhere == [c \in MCCoords |-> "unstated"]

MCCallers == {"human.ui", "system", "agent"}
MCOperations == {"diagnostic.read", "bus.transmit", "actuation", "unlisted"}

\* A reusable transmit approval and a single-use actuation approval; the second
\* names its target, and both can lapse before the scope does.
MCApprovalSpecs ==
  {[cap |-> "CAN_TX", target |-> Can0, expires |-> 2, single |-> FALSE],
   [cap |-> "ACTUATION", target |-> Can0, expires |-> 1, single |-> TRUE],
   [cap |-> "ACTUATION", target |-> Can0, expires |-> 2, single |-> FALSE]}

MCArmScopes ==
  {[caps |-> {"CAN_TX", "ACTUATION"}, target |-> Can0, expires |-> 2],
   [caps |-> {"CAN_TX"}, target |-> Anywhere, expires |-> 1]}

MCPermissions ==
  {[caps |-> {"READ"}, target |-> Anywhere, bounded |-> FALSE, expires |-> 0],
   [caps |-> {"CAN_TX", "ACTUATION"}, target |-> Can0, bounded |-> TRUE,
    expires |-> 2]}

MCCancellers == {k1, k2}
MCApprovalIds == {a1}
=============================================================================
