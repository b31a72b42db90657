--------------------------- MODULE MCSecureElement ---------------------------
(***************************************************************************)
(* SecureElement for TLC: both builds, two master keys, secrets of the     *)
(* three lengths the engine asks for, two versions.                        *)
(***************************************************************************)
EXTENDS SecureElement, TLC

Symmetry == Permutations(Keys) \cup Permutations(Rps)

=============================================================================
