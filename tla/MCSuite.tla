------------------------------- MODULE MCSuite -------------------------------
(***************************************************************************)
(* Suite, with the scenarios of MCScenario.                                *)
(***************************************************************************)
EXTENDS MCScenario, Suite

=============================================================================
