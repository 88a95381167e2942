---------------------------- MODULE MCEncodeWorker ----------------------------
(***************************************************************************)
(* A small instance of EncodeWorker for TLC.                               *)
(***************************************************************************)
EXTENDS EncodeWorker, FiniteSets, TLC

CONSTANT MaxDisturbances   \* bound: disturbances in a behaviour that goes on

(* Failures, emptied folders and replaced files, of all videos together.   *)
Disturbances ==
    Cardinality({m \in Videos \X Marks : m[2] \in marks[m[1]]})
    + Cardinality({u \in Workers \X Artifacts : u[2] \in failed[u[1]]})
FewDisturbances == Disturbances <= MaxDisturbances

(* Workers are interchangeable; no liveness is checked here.               *)
Symmetry == Permutations(Workers)
=============================================================================
