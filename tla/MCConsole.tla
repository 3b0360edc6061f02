----------------------------- MODULE MCConsole ------------------------------
(***************************************************************************)
(* Console in one build of init or another.                                *)
(***************************************************************************)
EXTENDS ConsoleProps
=============================================================================
