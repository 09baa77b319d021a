-------------------------- MODULE MCPortableUpdate --------------------------
(* Small instances of PortableUpdate for TLC. *)
EXTENDS UpdateAsSwitch, TLC

(* The processes differ in nothing but their names. *)
UpdaterSymmetry == Permutations(Proc)
=============================================================================
