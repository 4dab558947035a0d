---------------------------- MODULE MCMultiplayer ----------------------------
(***************************************************************************)
(* Multiplayer on a small server.  Players that are neither newcomers nor  *)
(* found elsewhere are interchangeable.                                    *)
(***************************************************************************)
EXTENDS Multiplayer, TLC

Symmetry == Permutations(Players \ (Newcomers \cup Remote))
=============================================================================
