---------------------------- MODULE MCHookInstall ----------------------------
(* The servers of one desktop, instantiated for TLC. *)
EXTENDS HookInstall, TLC

=============================================================================
