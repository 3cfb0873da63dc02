----------------------------- MODULE MCEnvLife -----------------------------
(* Small instances of EnvLife. *)
EXTENDS EnvLife, TLC

\* Environment 2 may be one of an old version, in the second half of the
\* first block.
HalfBlock == 2 :> 1
=============================================================================
