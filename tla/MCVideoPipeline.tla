---------------------------- MODULE MCVideoPipeline ----------------------------
(***************************************************************************)
(* Small instances of VideoPipeline for TLC.                               *)
(***************************************************************************)
EXTENDS VideoPipeline, TLC

(* Processes and requests of one kind are interchangeable; the symmetric   *)
(* instances check no liveness.                                            *)
Symmetry == Permutations(Workers) \cup Permutations(Deliveries)
               \cup Permutations(Patches) \cup Permutations(Deletes)

(* States that differ only in what is in the HLS folders and in the        *)
(* history of the objects (file, failed, hls, marks) are one: no guard     *)
(* reads these variables and no other variable is computed from them, so   *)
(* the rest takes the same steps.  For runs whose properties do not speak  *)
(* of the stored objects.                                                  *)
RowsView == <<stage, video, clash, length, next, verdict, mailbox, scratch,
              source, puts, svars>>
=============================================================================
