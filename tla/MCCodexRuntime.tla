--------------------------- MODULE MCCodexRuntime ---------------------------
(***************************************************************************)
(* CodexRuntime as TLC checks it: the configurations give the sizes.       *)
(***************************************************************************)
EXTENDS CodexRuntime
=============================================================================
