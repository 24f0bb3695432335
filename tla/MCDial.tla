------------------------------- MODULE MCDial -------------------------------
(* Dial for TLC: applications are interchangeable.                           *)
EXTENDS Dial

AppSymmetry == Permutations(App)
=============================================================================
