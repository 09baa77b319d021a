----------------------------- MODULE MCProfiles -----------------------------
(* Two shells, one integrated, with different environments; or one shell.    *)
EXTENDS ProfilesInv

CONSTANTS s1, s2, home, other
MCEnv == (s1 :> home) @@ (s2 :> other)
MCEnvOne == s1 :> home
=============================================================================
