------------------------------- MODULE MCCom --------------------------------
(* Constants of the TLC run of ComObjects: one thread with two pointer      *)
(* variables, one with one.                                                 *)
EXTENDS ComObjects, TLC

CONSTANTS t1, t2, o1, o2, o3

MCThreads  == {t1, t2}
MCObjects  == {o1, o2, o3}
MCOuts     == t1 :> 2 @@ t2 :> 1
MCSymmetry == Permutations(MCObjects)
=============================================================================
