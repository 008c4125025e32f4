---------------------------- MODULE MCEnrollment ----------------------------
(* Enrollment with interchangeable requests, subjects and names.           *)
EXTENDS Enrollment, TLC

\* The specification and its invariants name none of them.
Symmetry ==
  Permutations(Requests) \cup Permutations(Subjects) \cup Permutations(Names)
=============================================================================
