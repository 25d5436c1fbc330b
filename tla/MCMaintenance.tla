---------------------------- MODULE MCMaintenance ----------------------------
(***************************************************************************)
(* Maintenance on a small instance.                                        *)
(***************************************************************************)
EXTENDS Maintenance

\* The least value the setting may have, and a slower one.
SomeSettings == {1, 3}

=============================================================================
