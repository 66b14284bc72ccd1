-------------------------- MODULE MCOnboarding --------------------------
(* Instances of Onboarding: the policies a DCP is taken to choose from. *)
EXTENDS Onboarding, TLC
CONSTANTS c1, c2, s1, s2

\* The defaults, a face instead, and the two checks nobody can pass.
MCPolicies == {Default, {"face"}, {"alt_phone", "guarantor"}, {"crb"}}

Symmetry == Permutations({c1, c2}) \cup Permutations({s1, s2})
=============================================================================
