----------------------- MODULE MCAvailabilityObserver -----------------------
(***************************************************************************)
(* Model checking AvailabilityObserver with subjects up to permutation.    *)
(***************************************************************************)
EXTENDS AvailabilityObserver, TLC

Symmetry == Permutations(Subjects)
=============================================================================
