---------------------------- MODULE SafetyKernel ----------------------------
(***************************************************************************)
(* runtime/canx/safety/kernel.py and the controllers it owns: the arm      *)
(* machine (arm.py), the approval store (approval.py), the global stop     *)
(* (emergency.py) and the decision chain (policy.py).                      *)
(*                                                                         *)
(* Every kernel method runs under one re-entrant lock, so most are one     *)
(* action.  register_canceller and the approval store's own grant and      *)
(* revoke take only the controller's or the store's lock; they interleave  *)
(* with the two methods that change what they touch in several steps:      *)
(*   - engage_emergency_stop calls foreign cancellers between engaging and *)
(*     clearing the approvals (pc), and a canceller, on the thread that    *)
(*     holds the lock, may call any method, also the release;              *)
(*   - release_emergency_stop disarms, clears, resets and commits (rel).   *)
(* A call that is refused before it changes anything (a machine caller, an *)
(* illegal transition) is a stuttering step and has no action.             *)
(*                                                                         *)
(* An audit write, with the preparation of its event, succeeds or fails:   *)
(* the parameter ok of each action.                                        *)
(***************************************************************************)
EXTENDS SafetyPolicy, FiniteSets

CONSTANTS
  Callers,        \* the caller kinds that make calls
  Operations,     \* the operation classes requested; may hold unknown ones
  ApprovalIds,    \* the approval identifiers in use
  ApprovalSpecs,  \* what a grant may ask for: [cap, target, expires, single]
  ArmScopes,      \* the scopes presented for arming: [caps, target, expires]
  Permissions,    \* the standing grants: [caps, target, bounded, expires]
  Cancellers,     \* the subsystems that may register a canceller
  MaxTime,        \* bound on the clock
  MaxStops        \* bound on the number of engagements

ASSUME KernelAssumption ==
  /\ Callers \subseteq CallerKind
  /\ MaxTime \in Nat
  /\ MaxStops \in Nat
  /\ ApprovalSpecs \subseteq
       [cap : Capability, target : Target, expires : Nat, single : BOOLEAN]
  /\ ArmScopes \subseteq
       [caps : SUBSET Capability, target : Target, expires : Nat]
  /\ "none" \notin ApprovalIds

VARIABLES
  now,         \* the clock the kernel reads
  armState,    \* ArmController._state
  armScope,    \* ArmController._scope, {} or a singleton
  approvals,   \* ApprovalStore._approvals: id -> {} or the stored approval
  engaged,     \* EmergencyStopController._state.engaged
  failures,    \* EmergencyStopController._state.cancellation_failures
  cancellers,  \* EmergencyStopController._cancellers
  pc,          \* where the thread inside engage_emergency_stop is
  pending,     \* its snapshot of the cancellers, less those already asked
  failing,     \* its local list of cancellation failures
  verdict,     \* what the last evaluate handed back, {} after other calls
  fault,       \* the fault the last call raised
  rel,         \* what the thread inside release_emergency_stop does next
  before,      \* its snapshot of the stop state
  \* History: what the properties refer to.
  epoch,       \* how many times the stop has engaged
  armEpoch,    \* the epoch in which the present scope was presented
  armTrail,    \* the audit records that account for the present arm state
  summoned,    \* the cancellers registered when the stop last engaged
  asked        \* those of them that have been asked to cancel since

kernelVars == <<now, armState, armScope, approvals, engaged, failures,
                cancellers, pc, pending, failing, verdict, fault, rel, before>>
safetyVars == <<kernelVars, epoch, armEpoch, armTrail, summoned, asked>>

Stored == [spec : ApprovalSpecs, issuer : {"human.operator", "host.system"},
           consumed : BOOLEAN,
           via : {"kernel", "store", "gap"}, \* history: whose grant it is;
                                  \* "gap": the store's, between the clearing
                                  \* of the approvals and a release
           epoch : 0..MaxStops,   \* history: the epoch it was granted in
           uses : 0..2]           \* history: ALLOWs it has backed, up to 2

Requests == [op : Operations, target : Target,
             approval : ApprovalIds \cup {"none"}]

\* The approvals held, whatever their identifier.
HeldApprovals == UNION {approvals[i] : i \in ApprovalIds}

\* No snapshot is held.
NoSnapshot == [engaged |-> FALSE, failures |-> {}]

NoApprovals == [i \in ApprovalIds |-> {}]

KernelTypeOK ==
  /\ now \in 0..MaxTime
  /\ armState \in {"DISARMED", "ARMING", "ARMED"}
  /\ armScope \in SUBSET ArmScopes
  /\ approvals \in [ApprovalIds -> SUBSET Stored]
  /\ engaged \in BOOLEAN
  /\ failures \in SUBSET Cancellers
  /\ cancellers \in SUBSET Cancellers
  /\ pc \in {"idle", "disarm", "cancel"}
  /\ pending \in SUBSET Cancellers
  /\ failing \in SUBSET Cancellers
  /\ verdict \in SUBSET Requests
  /\ fault \in {"none", "scope", "audit", "rollback"}
  /\ rel \in {"none", "clear", "reset", "audit"}
  /\ before \in [engaged : BOOLEAN, failures : SUBSET Cancellers]
  /\ epoch \in 0..MaxStops
  /\ armEpoch \in 0..MaxStops
  /\ armTrail \in SUBSET {"requested", "confirmed"}
  /\ summoned \in SUBSET Cancellers
  /\ asked \in SUBSET Cancellers

KernelInit ==
  /\ now = 0
  /\ armState = "DISARMED"
  /\ armScope = {}
  /\ approvals = NoApprovals
  /\ engaged = FALSE
  /\ failures = {}
  /\ cancellers = {}
  /\ pc = "idle"
  /\ pending = {}
  /\ failing = {}
  /\ verdict = {}
  /\ fault = "none"
  /\ rel = "none"
  /\ before = NoSnapshot
  /\ epoch = 0
  /\ armEpoch = 0
  /\ armTrail = {}
  /\ summoned = {}
  /\ asked = {}

Tick ==
  /\ now < MaxTime
  /\ now' = now + 1
  /\ verdict' = {}
  /\ UNCHANGED <<armState, armScope, approvals, engaged, failures, cancellers,
                 pc, pending, failing, fault, rel, before, epoch, armEpoch,
                 armTrail, summoned, asked>>

\* A method that takes the kernel's lock is called: nobody holds it, or the
\* canceller now running calls from the thread that does.
MayCall ==
  /\ rel = "none"
  /\ pc = "idle" \/ (pc = "cancel" /\ pending # {})

(***************************************************************************)
(* The arm surface.                                                        *)
(***************************************************************************)
\* Fault: the scope is dropped but the machine stays where it was.
DisarmKeepsState ==
  /\ armScope' = {}
  /\ armTrail' = {}
  /\ UNCHANGED <<armState, armEpoch>>

\* ArmController.disarm, the audit rollback of both arming steps as well.
DisarmEffect ==
  /\ armState' = "DISARMED"
  /\ armScope' = {}
  /\ armTrail' = {}
  /\ UNCHANGED armEpoch

StopUntouched ==
  UNCHANGED <<engaged, failures, cancellers, pc, pending, failing, rel, before,
              epoch, summoned, asked>>

Arm(caller, scope, ok) ==
  /\ MayCall
  /\ caller \in AuthorityBearing
  /\ ~ engaged
  /\ armState = "DISARMED"
  /\ ~ HasLapsed(now, scope.expires)
  /\ IF ok
       THEN /\ armState' = "ARMING"
            /\ armScope' = {scope}
            /\ armEpoch' = epoch
            /\ armTrail' = {"requested"}
            /\ fault' = "none"
       ELSE DisarmEffect /\ fault' = "audit"
  /\ verdict' = {}
  /\ UNCHANGED <<now, approvals>>
  /\ StopUntouched

ConfirmArm(caller, ok) ==
  /\ MayCall
  /\ caller \in AuthorityBearing
  /\ ~ engaged
  /\ armState = "ARMING"
  /\ \/ /\ \A s \in armScope : HasLapsed(now, s.expires)
        /\ DisarmEffect
        /\ fault' = "scope"
     \/ /\ \E s \in armScope : ~ HasLapsed(now, s.expires)
        /\ ok
        /\ armState' = "ARMED"
        /\ armTrail' = armTrail \cup {"confirmed"}
        /\ fault' = "none"
        /\ UNCHANGED <<armScope, armEpoch>>
     \/ /\ \E s \in armScope : ~ HasLapsed(now, s.expires)
        /\ ~ ok
        /\ DisarmEffect
        /\ fault' = "audit"
  /\ verdict' = {}
  /\ UNCHANGED <<now, approvals>>
  /\ StopUntouched

\* Open to every caller; a failed audit write does not bring authority back.
Disarm(ok) ==
  /\ MayCall
  /\ DisarmEffect
  /\ fault' = IF ok THEN "none" ELSE "audit"
  /\ verdict' = {}
  /\ UNCHANGED <<now, approvals>>
  /\ StopUntouched

(***************************************************************************)
(* The approval surface.                                                   *)
(***************************************************************************)
NewApproval(spec, caller, via) ==
  [spec |-> spec, issuer |-> Issuer(caller), consumed |-> FALSE,
   via |-> via, epoch |-> epoch, uses |-> 0]

\* A second grant under the same identifier replaces the first; when the audit
\* write fails the identifier is revoked, so the first grant is lost too.
GrantApproval(caller, id, spec, ok) ==
  /\ MayCall
  /\ caller \in AuthorityBearing
  /\ ~ engaged
  /\ approvals' = [approvals EXCEPT
                     ![id] = IF ok THEN {NewApproval(spec, caller, "kernel")}
                             ELSE {}]
  /\ fault' = IF ok THEN "none" ELSE "audit"
  /\ verdict' = {}
  /\ UNCHANGED <<now, armState, armScope, armEpoch, armTrail>>
  /\ StopUntouched

\* SafetyKernel.revoke_approval, and the store's revoke reached through the
\* approvals property, which takes no kernel lock: enabled in every state.
RevokeApproval(id) ==
  /\ approvals' = [approvals EXCEPT ![id] = {}]
  /\ verdict' = {}
  /\ fault' = "none"
  /\ UNCHANGED <<now, armState, armScope, armEpoch, armTrail>>
  /\ StopUntouched

\* The store's own grant, reached through the approvals property: it checks the
\* grantor and the provenance, takes only the store's lock, consults no stop and
\* writes no audit record.  Enabled in every state.
StoreGrant(caller, id, spec) ==
  /\ caller \in AuthorityBearing
  /\ approvals' =
       [approvals EXCEPT
          ![id] = {NewApproval(spec, caller, IF rel = "reset" THEN "gap" ELSE "store")}]
  /\ verdict' = {}
  /\ fault' = "none"
  /\ UNCHANGED <<now, armState, armScope, armEpoch, armTrail>>
  /\ StopUntouched

(***************************************************************************)
(* The decision chain.  The kernel reads the clock for the context, and    *)
(* again, later, when it asks the arm machine for its live scope.          *)
(***************************************************************************)
\* ArmController.active_scope, at the second reading.
ActiveScope(later) ==
  {s \in armScope : armState = "ARMED" /\ ~ HasLapsed(later, s.expires)}

\* Fault: the presented scope is read instead of the live one.
RequireArmAnyState(r, later) ==
  RequiresArm(r.op) =>
    \E s \in armScope :
      \A cap \in RequiredCapabilities(r.op) \cap DangerousCapabilities :
        ScopeCovers(s, cap, r.target, now)

RequireArm(r, later) ==
  RequiresArm(r.op) =>
    /\ ~ engaged
    /\ \E s \in ActiveScope(later) :
         \A cap \in RequiredCapabilities(r.op) \cap DangerousCapabilities :
           ScopeCovers(s, cap, r.target, now)

RequirePermissions(r) ==
  \A cap \in RequiredCapabilities(r.op) :
    PermissionsCover(Permissions, cap, r.target, now)

\* Fault: the issuer is not looked at.
ApprovalCheckAnyIssuer(a, r, later) ==
  LET risk == EffectRisk(r.op) IN
    /\ ~ HasLapsed(now, a.spec.expires)
    /\ a.spec.cap = EffectCapability[risk]
    /\ TargetCovers(a.spec.target, r.target)
    /\ SingleUseRequired(risk) => a.spec.single

\* SafetyPolicy._approval_check, run inside the store's critical section.
ApprovalCheck(a, r, later) ==
  LET risk == EffectRisk(r.op) IN
    /\ ~ HasLapsed(now, a.spec.expires)
    /\ a.spec.cap = EffectCapability[risk]
    /\ IF ExactTargetRequired(risk)
         THEN a.spec.target = r.target
         ELSE TargetCovers(a.spec.target, r.target)
    /\ SingleUseRequired(risk) => a.spec.single
    /\ HumanIssuerRequired(risk) => a.issuer = "human.operator"
    /\ \A s \in ActiveScope(later) : TargetCovers(s.target, a.spec.target)

NeedsApproval(r) ==
  IsDangerous(EffectRisk(r.op)) /\ ApprovalRequired(EffectRisk(r.op))

\* The stored approvals that ApprovalStore.consume would spend on r.
Spendable(r, later) ==
  {a \in IF r.approval = "none" THEN {} ELSE approvals[r.approval] :
     ApprovalCheck(a, r, later) /\ ~ a.consumed}

Allowed(r, later) ==
  /\ r.op \in OperationClass
  /\ RequireArm(r, later)
  /\ RequirePermissions(r)
  /\ NeedsApproval(r) => Spendable(r, later) # {}

\* Fault: a single-use approval is not marked.
SpentUnmarked(a, ok) ==
  [spec |-> a.spec, issuer |-> a.issuer, consumed |-> FALSE,
   via |-> a.via, epoch |-> a.epoch,
   uses |-> IF ok /\ a.uses < 2 THEN a.uses + 1 ELSE a.uses]

\* consume marks a single-use approval; ok says the verdict was handed back.
Spent(a, ok) ==
  [spec |-> a.spec, issuer |-> a.issuer, consumed |-> a.spec.single,
   via |-> a.via, epoch |-> a.epoch,
   uses |-> IF ok /\ a.uses < 2 THEN a.uses + 1 ELSE a.uses]

\* The audit write follows consumption: when it fails no verdict is returned
\* and the approval stays spent.
Evaluate(r, later, ok) ==
  /\ MayCall
  /\ later \in now..MaxTime
  /\ now' = later
  /\ approvals' = IF Allowed(r, later) /\ NeedsApproval(r)
                    THEN [approvals EXCEPT
                            ![r.approval] = {Spent(a, ok) : a \in @}]
                    ELSE approvals
  /\ verdict' = IF ok /\ Allowed(r, later) THEN {r} ELSE {}
  /\ fault' = IF ok THEN "none" ELSE "audit"
  /\ UNCHANGED <<armState, armScope, armEpoch, armTrail>>
  /\ StopUntouched

(***************************************************************************)
(* The global stop.                                                        *)
(***************************************************************************)
\* Takes the controller's lock only, in every state.
RegisterCanceller(k) ==
  /\ k \notin cancellers
  /\ cancellers' = cancellers \cup {k}
  /\ verdict' = {}
  /\ UNCHANGED <<now, armState, armScope, approvals, engaged, failures, pc,
                 pending, failing, fault, rel, before, epoch, armEpoch, armTrail,
                 summoned, asked>>

\* EmergencyStopController.engage up to the release of its lock.  A canceller
\* that engages the stop it is called by is left out: it would call itself.
EngageBegin ==
  /\ pc = "idle"
  /\ rel = "none"
  /\ engaged \/ epoch < MaxStops
  /\ pc' = "disarm"
  /\ engaged' = TRUE
  /\ epoch' = IF engaged THEN epoch ELSE epoch + 1
  /\ failures' = IF engaged THEN failures ELSE {}
  /\ pending' = cancellers
  /\ summoned' = cancellers
  /\ asked' = {}
  /\ failing' = {}
  /\ verdict' = {}
  /\ fault' = "none"
  /\ UNCHANGED <<now, armState, armScope, approvals, cancellers, rel, before,
                 armEpoch, armTrail>>

\* The disarm hook.
EngageDisarm ==
  /\ pc = "disarm"
  /\ pc' = "cancel"
  /\ DisarmEffect
  /\ verdict' = {}
  /\ UNCHANGED <<now, approvals, engaged, failures, cancellers, pending,
                 failing, fault, rel, before, epoch, summoned, asked>>

\* Fault: the first canceller that fails ends the fan-out.
RequestCancellationAborts(k, answered) ==
  /\ pc = "cancel"
  /\ rel = "none"
  /\ k \in pending
  /\ pending' = IF answered THEN pending \ {k} ELSE {}
  /\ failing' = IF answered THEN failing ELSE failing \cup {k}
  /\ asked' = asked \cup {k}
  /\ verdict' = {}
  /\ UNCHANGED <<now, armState, armScope, approvals, engaged, failures,
                 cancellers, pc, fault, rel, before, epoch, armEpoch, armTrail,
                 summoned>>

\* _request_cancellation: a canceller that raises, or answers with anything but
\* valid references, is recorded and the fan-out goes on.
RequestCancellation(k, answered) ==
  /\ pc = "cancel"
  /\ rel = "none"
  /\ k \in pending
  /\ pending' = pending \ {k}
  /\ failing' = IF answered THEN failing ELSE failing \cup {k}
  /\ asked' = asked \cup {k}
  /\ verdict' = {}
  /\ UNCHANGED <<now, armState, armScope, approvals, engaged, failures,
                 cancellers, pc, fault, rel, before, epoch, armEpoch, armTrail,
                 summoned>>

\* Fault: the call does not end before every canceller has answered.
EngageEndWaits(ok) ==
  /\ pc = "cancel"
  /\ rel = "none"
  /\ pending = {}
  /\ failing = {}
  /\ pc' = "idle"
  /\ failures' = {}
  /\ approvals' = NoApprovals
  /\ verdict' = {}
  /\ fault' = IF ok THEN "none" ELSE "audit"
  /\ UNCHANGED <<now, armState, armScope, engaged, cancellers, pending, failing,
                 rel, before, epoch, armEpoch, armTrail, summoned, asked>>

\* The rest of engage_emergency_stop, also when a canceller has released the
\* stop meanwhile, which stays released: store the answers, clear the approvals,
\* write the record.
EngageEnd(ok) ==
  /\ pc = "cancel"
  /\ rel = "none"
  /\ pending = {}
  /\ pc' = "idle"
  /\ failures' = failing
  /\ failing' = {}
  /\ approvals' = NoApprovals
  /\ verdict' = {}
  /\ fault' = IF ok THEN "none" ELSE "audit"
  /\ UNCHANGED <<now, armState, armScope, engaged, cancellers, pending, rel,
                 before, epoch, armEpoch, armTrail, summoned, asked>>

\* release_emergency_stop: the caller is judged and the runtime disarmed.
ReleaseBegin(caller) ==
  /\ MayCall
  /\ caller \in AuthorityBearing
  /\ rel' = "clear"
  /\ before' = [engaged |-> engaged, failures |-> failures]
  /\ DisarmEffect
  /\ verdict' = {}
  /\ fault' = "none"
  /\ UNCHANGED <<now, approvals, engaged, failures, cancellers, pc, pending,
                 failing, epoch, summoned, asked>>

\* Fault: what is held is kept.
ReleaseKeepsApprovals ==
  /\ rel = "clear"
  /\ rel' = "reset"
  /\ verdict' = {}
  /\ UNCHANGED <<now, armState, armScope, approvals, engaged, failures,
                 cancellers, pc, pending, failing, fault, before, epoch,
                 armEpoch, armTrail, summoned, asked>>

ReleaseClears ==
  /\ rel = "clear"
  /\ rel' = "reset"
  /\ approvals' = NoApprovals
  /\ verdict' = {}
  /\ UNCHANGED <<now, armState, armScope, engaged, failures, cancellers, pc,
                 pending, failing, fault, before, epoch, armEpoch, armTrail,
                 summoned, asked>>

\* EmergencyStopController.reset: the stop is no longer engaged.
ReleaseResets ==
  /\ rel = "reset"
  /\ rel' = "audit"
  /\ engaged' = FALSE
  /\ failures' = {}
  /\ verdict' = {}
  /\ UNCHANGED <<now, armState, armScope, approvals, cancellers, pc, pending,
                 failing, fault, before, epoch, armEpoch, armTrail, summoned,
                 asked>>

\* The audit write.  When it fails the snapshot is put back, unless it was not
\* engaged: restore_engagement refuses that, and the rollback itself fails.
ReleaseEnds(ok) ==
  /\ rel = "audit"
  /\ rel' = "none"
  /\ before' = NoSnapshot
  /\ engaged' = (~ ok /\ before.engaged)
  /\ failures' = IF ok THEN {} ELSE IF before.engaged THEN before.failures ELSE {}
  /\ fault' = IF ok THEN "none" ELSE IF before.engaged THEN "audit" ELSE "rollback"
  /\ verdict' = {}
  /\ UNCHANGED <<now, armState, armScope, approvals, cancellers, pc, pending,
                 failing, epoch, armEpoch, armTrail, summoned, asked>>

KernelNext ==
  \/ Tick
  \/ \E c \in Callers, s \in ArmScopes, ok \in BOOLEAN : Arm(c, s, ok)
  \/ \E c \in Callers, ok \in BOOLEAN : ConfirmArm(c, ok)
  \/ \E ok \in BOOLEAN : Disarm(ok)
  \/ \E c \in Callers, i \in ApprovalIds, s \in ApprovalSpecs, ok \in BOOLEAN :
       GrantApproval(c, i, s, ok)
  \/ \E i \in ApprovalIds : RevokeApproval(i)
  \/ \E c \in Callers, i \in ApprovalIds, s \in ApprovalSpecs :
       StoreGrant(c, i, s)
  \/ \E r \in Requests, later \in 0..MaxTime, ok \in BOOLEAN :
       Evaluate(r, later, ok)
  \/ \E k \in Cancellers : RegisterCanceller(k)
  \/ EngageBegin
  \/ EngageDisarm
  \/ \E k \in Cancellers, answered \in BOOLEAN :
       RequestCancellation(k, answered)
  \/ \E ok \in BOOLEAN : EngageEnd(ok)
  \/ \E c \in Callers : ReleaseBegin(c)
  \/ ReleaseClears
  \/ ReleaseResets
  \/ \E ok \in BOOLEAN : ReleaseEnds(ok)

EngageStep ==
  \/ EngageDisarm
  \/ \E k \in Cancellers, answered \in BOOLEAN :
       RequestCancellation(k, answered)
  \/ \E ok \in BOOLEAN : EngageEnd(ok)

ReleaseStep ==
  \/ ReleaseClears
  \/ ReleaseResets
  \/ \E ok \in BOOLEAN : ReleaseEnds(ok)

KernelSpec == KernelInit /\ [][KernelNext]_safetyVars

\* The thread inside the kernel runs on, provided every canceller returns: the
\* kernel gives them no timeout.  A canceller may release the stop before it
\* returns, again and again but not for ever, hence strong fairness.
FairKernelSpec ==
  KernelSpec /\ SF_safetyVars(EngageStep) /\ WF_safetyVars(ReleaseStep)
-----------------------------------------------------------------------------
(***************************************************************************)
(* Properties.                                                             *)
(***************************************************************************)

\* Once engage_emergency_stop has returned, and for as long as the stop stays
\* engaged, the runtime is disarmed and holds no approval the kernel granted,
\* whatever calls, audit failures and failed releases came in between.  Already
\* during the cancellation fan-out it is disarmed (kernel.py
\* _require_emergency_stop_released, emergency.py engage).
StopStripsAuthority ==
  engaged =>
    /\ pc # "disarm" => armState = "DISARMED"
    /\ pc = "idle" => \A a \in HeldApprovals : a.via # "kernel"

\* An operation that transmits is allowed only on authority established since
\* the last engagement of the stop: the scope was presented, and the approval
\* spent was granted, in the present epoch (kernel.py, "a safety epoch boundary,
\* not a pause"; release is "never a resume command").
AllowIsOfThisEpoch ==
  \A r \in verdict :
    RequiresArm(r.op) =>
      /\ ~ engaged
      /\ armState = "ARMED"
      /\ armEpoch = epoch
      /\ NeedsApproval(r) => \E a \in approvals[r.approval] : a.epoch = epoch

\* Arm authority is never held without the audit records that account for it:
\* a failed write leaves the runtime disarmed (kernel.py
\* _commit_authority_change_with_audit).
ArmIsAudited ==
  /\ armState = "ARMING" => armTrail = {"requested"}
  /\ armState = "ARMED" => armTrail = {"requested", "confirmed"}

\* One single-use approval backs at most one ALLOW, across grants, refusals,
\* failed audit writes and re-entrant evaluations (approval.py consume).
SingleUseBacksOne ==
  \A a \in HeldApprovals : a.spec.single => a.uses <= 1 /\ (a.uses = 1 => a.consumed)

\* An ALLOW for the most dangerous classes was backed by an approval a human
\* operator issued, for exactly the requested target, inside a scope that was
\* live when it was read (policy.py _approval_check, arm.py active_scope).
CriticalAllowIsHuman ==
  \A r \in verdict :
    HumanIssuerRequired(EffectRisk(r.op)) =>
      /\ \E a \in approvals[r.approval] :
           a.issuer = "human.operator" /\ a.spec.target = r.target /\ a.consumed
      /\ \E s \in armScope : now < s.expires /\ TargetCovers(s.target, r.target)

\* No authority outlives a stop: it is taken away while the stop is engaged, and
\* nothing dangerous is allowed on what is left of it later (kernel.py
\* engage_emergency_stop, evaluate).
NoAuthorityAcrossStop == StopStripsAuthority /\ AllowIsOfThisEpoch

\* All authority is accounted for: the arm state by its audit records, an
\* approval by its one use, a critical ALLOW by a human who meant it (kernel.py
\* _commit_authority_change_with_audit, policy.py _approval_check).
AuthorityIsAccounted == ArmIsAudited /\ SingleUseBacksOne /\ CriticalAllowIsHuman

\* The step that ends an engagement finds the runtime disarmed and no approval
\* that was there when the release cleared them, whoever calls it, also a
\* canceller inside the engagement: releasing is never a resume.  What may be
\* held is what the store was granted since (kernel.py release_emergency_stop).
ReleaseIsNoResume ==
  [][engaged /\ ~ engaged' =>
       /\ armState' = "DISARMED"
       /\ \A a \in HeldApprovals' : a.via = "gap"]_safetyVars

\* When engage_emergency_stop returns, every canceller registered when it
\* began has been asked, also the ones after a canceller that raised, and the
\* failures it reports are failures of cancellers it asked (emergency.py engage).
FanOutReachesAll ==
  [][pc = "cancel" /\ pc' = "idle" =>
       asked = summoned /\ failures' \subseteq asked]_safetyVars

\* A stop that has begun completes: the approvals are cleared and the kernel
\* lock is free again, if every canceller returns.
EngageCompletes == pc # "idle" ~> pc = "idle"

\* "no caller - operator, host, Agent, script or automation - may establish or
\* pre-stage dangerous vehicle authority" while the stop is engaged (kernel.py
\* _require_emergency_stop_released).
NothingPreStaged == engaged /\ pc = "idle" => HeldApprovals = {}

\* "a released runtime is DISARMED and holds no outstanding approval" (kernel.py
\* release_emergency_stop, invariant S23), of the step that releases it.
ReleasedHoldsNothing ==
  [][engaged /\ ~ engaged' =>
       armState' = "DISARMED" /\ HeldApprovals' = {}]_safetyVars

\* "all end the same way - the stop is engaged" (emergency.py engage).
StopStands == [][pc = "cancel" /\ pc' = "idle" => engaged']_safetyVars
=============================================================================
