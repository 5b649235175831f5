-------------------------- MODULE PolicyAmendments --------------------------
(***************************************************************************)
(* A policy in force and the last one its owner approved.  A change that   *)
(* authorityIncreased does not report takes effect at once, one that it    *)
(* reports needs the owner's approval first (validate.ts, lines 5 to 8).   *)
(* The workflow is the caller's; what it may decide is the code's.         *)
(***************************************************************************)
EXTENDS Policy

CONSTANTS
  Policies,         (* the policies a change may propose                   *)
  ProposedActions   (* the actions the planner and the desk may propose    *)

ASSUME AmendmentAssumption ==
  /\ Policies \subseteq PolicyRecord
  /\ ProposedActions \subseteq ProposedAction

VARIABLES
  policy,    (* in force                                                   *)
  approved   (* the last one that the owner approved                       *)

policyVars == <<policy, approved>>

InitPolicy ==
  /\ policy \in {p \in Policies : validatePolicy(p)}
  /\ approved = policy

Amend(next) ==
  /\ validatePolicy(next)
  /\ ~authorityIncreased(policy, next)
  /\ policy' = next
  /\ UNCHANGED approved

Approve(next) ==
  /\ validatePolicy(next)
  /\ authorityIncreased(policy, next)
  /\ policy' = next
  /\ approved' = next

NextPolicy == \E p \in Policies : Amend(p) \/ Approve(p)

PolicySpec == InitPolicy /\ [][NextPolicy]_policyVars

-----------------------------------------------------------------------------
(* The policy in force is a legal one, and the absolute position cap that  *)
(* compilePermissions derives from basis points stays within the budget.   *)
PolicyTyped ==
  /\ policy \in Policies
  /\ approved \in Policies
  /\ validatePolicy(policy)
  /\ maxPositionAtomic(policy) \in 0..policy.cap["capitalBudget"]

(* However many unreported changes were chained, the policy in force lets  *)
(* through no action that the last approved one, when not paused, would    *)
(* have stopped (authorityIncreased against checkAction).                  *)
WithinApproval ==
  \A a \in ProposedActions :
    checkAction(policy, a) => PassesGates(approved, a)

(* An entry or a swap that the gate lets through leaves the reserve in the *)
(* budget (validatePolicy's consistency rule against checkAction's cap).   *)
ReserveSurvives ==
  \A a \in ProposedActions :
    checkAction(policy, a) /\ a.type \in {"ENTER", "SWAP"} =>
      policy.cap["capitalBudget"] - a.notional >= policy.reserve

=============================================================================
