---------------------------- MODULE MCHttpUpdate ----------------------------
(* One request at a time at the trigger, one other caller, the display, and *)
(* two or three operations among them and the other sources.                *)
EXTENDS HttpUpdate, TLC

OpSymmetry == Permutations(Ops)
=============================================================================
