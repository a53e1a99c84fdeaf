------------------------- MODULE MCPowerManagement --------------------------
(* Constants of PowerManagement for TLC. *)
EXTENDS PowerManagement, TLC

CONSTANTS h1, h2

(* h1 blanks the screen, h2 stops drawing. *)
MCLevels == h1 :> 50 @@ h2 :> 100
=============================================================================
