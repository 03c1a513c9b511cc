------------------------- MODULE MCFilterConfiguration -------------------------
(* Constants of the instance of FilterConfiguration that TLC checks. *)
EXTENDS FilterConfiguration, TLC

CONSTANTS player1, player2, regsvr32

MCPlayers == {player1, player2}
MCSymmetry == Permutations(MCPlayers)
=============================================================================
