-------------------------- MODULE MCRoundPipeline --------------------------
(* One applicant to a job whose rounds come and go. *)
EXTENDS RoundPipeline, TLC

\* Round identities are interchangeable.
Symmetry == Permutations(Rounds)
=============================================================================
