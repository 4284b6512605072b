----------------------------- MODULE MCLifetime -----------------------------
(* Two transports of one device, two application threads.                  *)
EXTENDS Lifetime, TLC

\* Transports differ in their names only, and so do threads.
Symmetry == Permutations(Transports) \cup Permutations(Threads)
=============================================================================
