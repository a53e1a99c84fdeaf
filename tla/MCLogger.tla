------------------------------ MODULE MCLogger ------------------------------
(* Constants of Logger for TLC: one thread that reads from one of the files. *)
EXTENDS Logger, TLC

CONSTANTS f1, t1

OneFile == t1 :> f1
=============================================================================
