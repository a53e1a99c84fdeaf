--------------------------- MODULE MCUserWakeLock ---------------------------
(* Constants of UserWakeLock for TLC: names of which some begin others, and*)
(* integers of 8 and 4 bits instead of 64 and 32.                          *)
EXTENDS UserWakeLock

MCNames == {<<1>>, <<1, 1>>, <<1, 127>>, <<127>>}
=============================================================================
