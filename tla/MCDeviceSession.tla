-------------------------- MODULE MCDeviceSession --------------------------
(* Small instances of DeviceSession for TLC. *)
EXTENDS SessionAsChain, DeviceSessionInv, TLC

CONSTANTS s1, s2, apiA, apiB

OneApi == [s \in Session |-> apiA]

(* s1 belongs to the deployment apiA, every other session to apiB. *)
TwoApis == [s \in Session |-> IF s = s1 THEN apiA ELSE apiB]

(* The processes differ in nothing but their names. *)
ProcSymmetry == Permutations(Proc)
=============================================================================
