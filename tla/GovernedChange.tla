---------------------------- MODULE GovernedChange ----------------------------
(***************************************************************************)
(* What one governed run promises, whatever its stages: authority over a   *)
(* set of files is granted at most once, at most one of them is changed,   *)
(* and only under that authority; the run is decided once; a run that      *)
(* failed or completed had the authority, and a completed one changed its  *)
(* file first and had the change verified afterwards.  GovernedRun         *)
(* implements it.                                                          *)
(***************************************************************************)
CONSTANTS Files, Contents, None

VARIABLES
    authority,  \* files the run may change, {} until granted
    change,     \* [file, from, to] of the one change, or None
    verified,   \* the verifier passed
    decision    \* terminal decision, or None

vars == <<authority, change, verified, decision>>

Changes == [file : Files, from : Contents, to : Contents]

Init ==
    /\ authority = {}
    /\ change = None
    /\ verified = FALSE
    /\ decision = None

Open == decision = None /\ ~verified

Grant ==
    /\ Open
    /\ authority = {}
    /\ authority' \in (SUBSET Files) \ {{}}
    /\ UNCHANGED <<change, verified, decision>>

Change ==
    /\ Open
    /\ change = None
    /\ change' \in {c \in Changes : c.file \in authority /\ c.from # c.to}
    /\ UNCHANGED <<authority, verified, decision>>

Pass ==
    /\ Open
    /\ authority # {}
    /\ verified' = TRUE
    /\ UNCHANGED <<authority, change, decision>>

Decide ==
    /\ decision = None
    /\ decision' \in {"COMPLETED", "FAILED", "BLOCKED", "ERROR"}
    /\ decision' = "COMPLETED" => change # None /\ verified
    /\ decision' = "FAILED" => authority # {}
    /\ decision' = "ERROR" => change = None /\ ~verified
    /\ UNCHANGED <<authority, change, verified>>

Next == Grant \/ Change \/ Pass \/ Decide

Spec == Init /\ [][Next]_vars
=============================================================================
