----------------------------- MODULE MCFrontDoor -----------------------------
(***************************************************************************)
(* Small instance of FrontDoor: the workspaces, requests and proposals of  *)
(* MCGovernedRun, in two tasks given one after the other.                  *)
(***************************************************************************)
EXTENDS MCGovernedRun, FrontDoor
=============================================================================
