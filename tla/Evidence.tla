------------------------------ MODULE Evidence ------------------------------
(***************************************************************************)
(* The evidence that operators and researchers act on: the shadow ledger   *)
(* with its admission gate, the restore drill, and the parts of Workbench. *)
(* The code connects none of them: a shadow session cites the digest of a  *)
(* drill's report, and no part checks what it is the digest of.  So a      *)
(* behaviour works on one of them, as it does in Workbench.                *)
(***************************************************************************)
EXTENDS Readiness, RestoreDrill, Workbench

evidenceVars == <<readinessVars, drillVars, benchVars>>

EvidenceInit == ReadinessInit /\ DrillInit /\ BenchInit

UseShadowLedger ==
    job.task = "shadow" /\ ReadinessNext /\ UNCHANGED <<drillVars, benchVars>>

UseDrill ==
    job.task = "drill" /\ DrillNext /\ UNCHANGED <<readinessVars, benchVars>>

UseWorkbench ==
    BenchNext /\ UNCHANGED <<readinessVars, drillVars>>

EvidenceNext == UseShadowLedger \/ UseDrill \/ UseWorkbench

EvidenceSpec == EvidenceInit /\ [][EvidenceNext]_evidenceVars
=============================================================================
