---------------------------- MODULE GateOverrides ----------------------------
(***************************************************************************)
(* Evaluations and overrides of 42_EXPORT_ELIGIBILITY_GATE_HARDENING: who  *)
(* signs a waiver of a blocked evaluation, who reviews it, and what the    *)
(* triggers, CHECKs and foreign keys let become of the signatures.  The    *)
(* trigger of migration 43 may refuse an INSERT for want of a second       *)
(* factor; a refusal changes nothing and is not a step.                    *)
(***************************************************************************)
EXTENDS Naturals, FiniteSets

CONSTANTS Administrators, \* profiles of DDP administrators
          BackOffice,     \* a connection with no JWT: auth.uid() IS NULL
          EvaluationIds, OverrideIds,   \* gen_random_uuid()
          ConditionNames,     \* bound: the keys of an evaluation's conditions
          Times,          \* bound: the values of reviewed_at
          Nobody, NoTime  \* NULL

ASSUME OverrideAssumption == Nobody \notin Administrators /\ NoTime \notin Times

VARIABLES
  profiles,     \* live rows of public.profiles
  evaluations,  \* rows of public.export_eligibility_evaluations
  overrides     \* rows of public.export_gate_overrides

overrideVars == <<profiles, evaluations, overrides>>

Evaluation == [id : EvaluationIds, evaluatedBy : Administrators \cup {Nobody},
               failed : SUBSET ConditionNames]
Stamp == [by : Administrators \cup {Nobody}, at : Times \cup {NoTime}]
Override == [id : OverrideIds, evaluation : EvaluationIds, approvedBy : Administrators,
             waived : SUBSET ConditionNames, review : Stamp]

(* A condition of an evaluation passed unless it is among the failed ones, *)
(* and the outcome is 'blocked' when one failed.                           *)
Blocked(e) == e.failed # {}

-----------------------------------------------------------------------------
OverridesInit == profiles = Administrators /\ evaluations = {} /\ overrides = {}

RecordEvaluation(actor, e) ==
  /\ \A x \in evaluations : x.id # e.id
  /\ e.evaluatedBy = IF actor = BackOffice THEN Nobody ELSE actor
  /\ evaluations' = evaluations \cup {e}
  /\ UNCHANGED <<profiles, overrides>>

(* overrides_review_is_complete and overrides_reviewer_is_not_approver,    *)
(* with the foreign key of reviewed_by.                                    *)
ReviewAllowed(o) ==
  /\ o.review.by = Nobody <=> o.review.at = NoTime
  /\ o.review.by # o.approvedBy
  /\ o.review.by \in profiles \cup {Nobody}

(* fn_validate_override: the evaluation exists and is blocked, and each    *)
(* waived condition is one it failed.                                      *)
WaivesFailures(o) ==
  /\ o.waived # {}
  /\ \E e \in evaluations : /\ e.id = o.evaluation
                            /\ Blocked(e)
                            /\ o.waived \subseteq e.failed

(* INSERT by actor.  A session approves for itself; the back office may    *)
(* name anyone; the row may carry a review already.                        *)
InsertOverride(actor, o) ==
  /\ \A x \in overrides : x.id # o.id
  /\ o.approvedBy \in profiles
  /\ actor # BackOffice => o.approvedBy = actor
  /\ WaivesFailures(o)
  /\ ReviewAllowed(o)
  /\ overrides' = overrides \cup {o}
  /\ UNCHANGED <<profiles, evaluations>>

(* fn_guard_override_mutation: only the review columns, and not another    *)
(* reviewed_at once there is one.  It compares reviewed_at only.           *)
GuardAdmits(o, review) == o.review.at = NoTime \/ review.at = o.review.at

(* UPDATE of the review columns, by any administrator. *)
Review(o, review) ==
  LET stamped == [o EXCEPT !.review = review]
  IN /\ GuardAdmits(o, review)
     /\ ReviewAllowed(stamped)
     /\ overrides' = (overrides \ {o}) \cup {stamped}
     /\ UNCHANGED <<profiles, evaluations>>

DeleteProfile_NullsTheReviewer(p) ==
  /\ p \in profiles
  /\ \A o \in overrides : o.approvedBy # p
  /\ \A e \in evaluations : e.evaluatedBy # p
  /\ profiles' = profiles \ {p}
  /\ overrides' = {IF o.review.by = p THEN [o EXCEPT !.review.by = Nobody] ELSE o :
                     o \in overrides}
  /\ UNCHANGED evaluations

(* ON DELETE RESTRICT keeps an approver.  ON DELETE SET NULL of a reviewer *)
(* leaves half a stamp, which the CHECK refuses; of an evaluator it is an  *)
(* UPDATE, which prevent_evaluation_mutation refuses.                      *)
DeleteProfile(p) ==
  /\ p \in profiles
  /\ \A o \in overrides : o.approvedBy # p /\ o.review.by # p
  /\ \A e \in evaluations : e.evaluatedBy # p
  /\ profiles' = profiles \ {p}
  /\ UNCHANGED <<evaluations, overrides>>

CreateProfile(p) ==
  /\ p \notin profiles
  /\ profiles' = profiles \cup {p}
  /\ UNCHANGED <<evaluations, overrides>>

OverridesNext ==
  \/ \E actor \in profiles \cup {BackOffice} :
       \/ \E e \in Evaluation : RecordEvaluation(actor, e)
       \/ \E o \in Override : InsertOverride(actor, o)
  \/ \E o \in overrides, review \in Stamp : Review(o, review)
  \/ \E p \in Administrators : DeleteProfile(p) \/ CreateProfile(p)

OverridesSpec == OverridesInit /\ [][OverridesNext]_overrideVars
-----------------------------------------------------------------------------
(* Properties.                                                             *)

(* 42:217, 238-252 with the SET NULL of 240.  Whoever is deleted, an       *)
(* override names a live approver, and a reviewed one a live second person. *)
SignaturesSurvive ==
  overrides \subseteq Override /\
  \A o \in overrides :
    /\ o.approvedBy \in profiles
    /\ o.review.at # NoTime => o.review.by \in profiles \ {o.approvedBy}
=============================================================================
