---------------------------- MODULE MCAdvisorJobs ----------------------------
(* Instances of AdvisorJobs for TLC.                                       *)
EXTENDS AdvisorJobs, TLC
CONSTANT a1

NoAnnotators == <<>>
OneAnnotator == <<a1>>
Symmetric == Permutations(Jobs) \cup Permutations(Clients)
=============================================================================
