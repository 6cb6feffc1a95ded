---------------------------- MODULE PlanIdentity ----------------------------
(***************************************************************************)
(* The identity of the optimisation plan that deliveries are bound to      *)
(* (domain/optimization_plan/extractor.py, __init__.py):                   *)
(* [file, input, extractor, sections].                                     *)
(***************************************************************************)
\* What a plan is read with.
Extractor == "optimization-plan-sections-v1"
Sections  == <<"1.3", "5.1", "5.2">>
Frozen(identity) == identity.extractor = Extractor /\ identity.sections = Sections
Parser    == <<"reviewed_import", "optimization-plan-translator-v1", "optimization-plan-v31-align-20260920">>
=============================================================================
