-------------------------- MODULE MCStudentRecords --------------------------
(***************************************************************************)
(* Two students who could both be given the one roll number, by a roster   *)
(* row of their own each, and a CPI that decides about an application.     *)
(***************************************************************************)
EXTENDS StudentRecords, TLC

CONSTANTS s1, s2, r1

MCRosterRows ==
    {[roll |-> r1, cells |-> "cpi" :> 1], [roll |-> NoRoll, cells |-> "cpi" :> 2]}
MCEnrollments == s1 :> 2 @@ s2 :> 1
=============================================================================
