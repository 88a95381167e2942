---------------------------- MODULE MCExternalVideos ----------------------------
(***************************************************************************)
(* ExternalVideos on a small instance for its liveness; MCServices checks  *)
(* its safety properties.  The texts do not matter to a length, so that    *)
(* one of them is enough here.                                             *)
(***************************************************************************)
EXTENDS ExternalVideos

AboutTitle == \A r \in Requests : req'[r].ask \subseteq {"title"}

LiveSpec == XInit /\ [][XNext /\ AboutTitle]_xvars /\ XFair
=============================================================================
