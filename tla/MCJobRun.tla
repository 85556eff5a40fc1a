------------------------------ MODULE MCJobRun ------------------------------
(* Small instances of JobRun for model checking. *)
EXTENDS JobRun, TLC

CONSTANTS p1, j1, j2

OneProjectTwoJobs == (j1 :> p1) @@ (j2 :> p1)

\* Two stages in a row, and two stages that each need the first one only, so
\* that one branch can fail while the other succeeds.
Chain == 1 :> {} @@ 2 :> {1}
Fork == 1 :> {} @@ 2 :> {1} @@ 3 :> {1}

\* Both requests name the same project, so they are interchangeable.
JobSymmetry == Permutations({j1, j2})
=============================================================================
