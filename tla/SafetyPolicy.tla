---------------------------- MODULE SafetyPolicy ----------------------------
(***************************************************************************)
(* The closed tables and the comparisons the safety decision chain uses:   *)
(* runtime/canx/safety/{risk,policy,scope,permission,caller,approval}.py.  *)
(* Everything here is a constant operator; the state machine that consults *)
(* it is SafetyKernel.                                                     *)
(***************************************************************************)
EXTENDS Integers

CONSTANTS
  Coords,        \* the coordinates of a target (device, channel, address)
  CoordValues    \* the values a stated coordinate may have

ASSUME CoordAssumption == "unstated" \notin CoordValues

(***************************************************************************)
(* Callers.                                                                *)
(***************************************************************************)
CallerKind == {"human.ui", "agent", "script", "automation", "system"}
AuthorityBearing == {"human.ui", "system"}
\* Fault: the caller's kind is stored where its provenance belongs.
IssuerIsCaller(kind) == kind
Issuer(kind) == IF kind = "human.ui" THEN "human.operator" ELSE "host.system"

(***************************************************************************)
(* Risk levels, capabilities and the operation table.  RiskLevel is an     *)
(* IntEnum: the comparison with WRITE_PROJECT is the contract.             *)
(***************************************************************************)
RiskLevel == [READ |-> 1, COMPUTE |-> 2, WRITE_PROJECT |-> 3, TX |-> 4,
              DIAGNOSTIC_MUTATION |-> 5, ACTUATION |-> 6, ECU_MUTATION |-> 7,
              CRITICAL |-> 8]

IsDangerous(risk) == risk > RiskLevel.WRITE_PROJECT

EffectCapability ==
  <<"READ", "COMPUTE", "WRITE_PROJECT", "CAN_TX", "DIAGNOSTIC_MUTATION",
    "ACTUATION", "ECU_MUTATION", "CRITICAL_OPERATION">>

Capability == {EffectCapability[i] : i \in 1..8}
DangerousCapabilities == {EffectCapability[i] : i \in 4..8}

OperationClass ==
  {"engineering.read", "engineering.compute", "project.write", "bus.transmit",
   "bus.replay", "bus.injection", "diagnostic.read", "diagnostic.mutation",
   "actuation", "ecu.mutation", "critical"}

\* Meant for op \in OperationClass: the last row is "critical".
EffectRisk(op) ==
  IF op \in {"engineering.read", "diagnostic.read"} THEN RiskLevel.READ
  ELSE IF op = "engineering.compute" THEN RiskLevel.COMPUTE
  ELSE IF op = "project.write" THEN RiskLevel.WRITE_PROJECT
  ELSE IF op \in {"bus.transmit", "bus.replay", "bus.injection"}
    THEN RiskLevel.TX
  ELSE IF op = "diagnostic.mutation" THEN RiskLevel.DIAGNOSTIC_MUTATION
  ELSE IF op = "actuation" THEN RiskLevel.ACTUATION
  ELSE IF op = "ecu.mutation" THEN RiskLevel.ECU_MUTATION
  ELSE RiskLevel.CRITICAL

\* Every row adds CAN_TX to the effect capability, except the three operations
\* on data the runtime already holds.
RequiredCapabilities(op) ==
  {EffectCapability[EffectRisk(op)]}
    \cup (IF op \in {"engineering.read", "engineering.compute", "project.write"}
          THEN {} ELSE {"CAN_TX"})

RequiresArm(op) ==
  IsDangerous(EffectRisk(op)) \/ "CAN_TX" \in RequiredCapabilities(op)

(***************************************************************************)
(* The approval demand of each risk level.                                 *)
(***************************************************************************)
ApprovalRequired(risk) == risk >= RiskLevel.TX
SingleUseRequired(risk) == risk >= RiskLevel.DIAGNOSTIC_MUTATION
ExactTargetRequired(risk) == risk >= RiskLevel.TX
HumanIssuerRequired(risk) == risk >= RiskLevel.ACTUATION

(***************************************************************************)
(* Targets, scopes and grants.  A coordinate left unstated by the covering *)
(* target imposes no constraint; a stated one must match exactly.  Expiry  *)
(* is closed: an authority that expires at now has lapsed.                 *)
(***************************************************************************)
Target == [Coords -> CoordValues \cup {"unstated"}]

TargetCovers(t, other) ==
  \A c \in Coords : t[c] = "unstated" \/ t[c] = other[c]

HasLapsed(now, expires) == ~ (now < expires)

\* ArmScope.covers
ScopeCovers(scope, cap, target, now) ==
  /\ ~ HasLapsed(now, scope.expires)
  /\ cap \in scope.caps
  /\ TargetCovers(scope.target, target)

\* PermissionSet.covers: a disjunction over grants, a conjunction within one.
\* A grant that opens only harmless capabilities may have no expiry.
GrantCovers(grant, cap, target, now) ==
  /\ ~ (grant.bounded /\ HasLapsed(now, grant.expires))
  /\ cap \in grant.caps
  /\ TargetCovers(grant.target, target)

PermissionsCover(grants, cap, target, now) ==
  \E g \in grants : GrantCovers(g, cap, target, now)
=============================================================================
