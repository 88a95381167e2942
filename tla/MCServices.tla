------------------------------- MODULE MCServices -------------------------------
(***************************************************************************)
(* ExternalVideos, StampCache, Rows, Progress, Playback and VideoList on   *)
(* small instances.  No two of them share a variable, so that a behaviour  *)
(* of all would show nothing that one of each does not: a behaviour is one *)
(* of the part chosen at its start, and the others stay in one state.      *)
(***************************************************************************)
EXTENDS ExternalVideos, StampCache, Rows, Progress, Playback, VideoList, TLC

VARIABLE part

(* The lengths around every limit of the code: the interval, the first and *)
(* the last thumbnail of a sheet, the end of the video.                    *)
Limits == {10, 20, 199, 200, 201, 1990, 2000, 2010, 2020, 3999, 4000, 4021,
           5980, 5990, 5999, 6000, 6001, 6049, 10000, 35990, 35999, 36000, 36001,
           36100, 40000}

Line(k) == [kind |-> k, signed |-> FALSE]
SomePlaylists == {<<Line("comment"), Line("map"), Line("comment"), Line("uri"),
                    Line("comment"), Line("uri"), Line("comment"), Line("empty")>>,
                  <<Line("comment"), Line("uri")>>}

-----------------------------------------------------------------------------
(* One initial state of the parts that have several.                       *)
XRest == XInit /\ tube = [v \in ExVideos |-> "live"]
RowsRest == RowsInit /\ table = "tags"
BRest == BInit /\ length = 10 /\ frames = 1 /\ page = "page"
LRest ==
    /\ query = [user |-> None, search |-> None, tag |-> None, sortby |-> None, order |-> None]
    /\ LInit /\ video = [v \in Videos |-> CHOOSE x \in Looked(query) : TRUE]

(* An order is asked for with the column it is the order of, and a search  *)
(* that is too long with nothing else.                                     *)
LSome ==
    /\ LInit
    /\ query.sortby = None => query.order = None
    /\ query.search = "long" => query.user = None /\ query.sortby = None

Parts == {"external", "stamps", "rows", "progress", "playback", "list"}

ServicesInit ==
    /\ part \in Parts
    /\ IF part = "external" THEN XInit ELSE XRest
    /\ IF part = "rows" THEN RowsInit ELSE RowsRest
    /\ IF part = "playback" THEN BInit ELSE BRest
    /\ IF part = "list" THEN LSome ELSE LRest
    /\ SInit
    /\ PInit

ServicesNext ==
    \/ part = "external" /\ XNext /\ UNCHANGED <<part, svars, rvars, pvars, bvars, lvars>>
    \/ part = "stamps" /\ SNext /\ UNCHANGED <<part, xvars, rvars, pvars, bvars, lvars>>
    \/ part = "rows" /\ RowsNext /\ UNCHANGED <<part, xvars, svars, pvars, bvars, lvars>>
    \/ part = "progress" /\ PNext /\ UNCHANGED <<part, xvars, svars, rvars, bvars, lvars>>
    \/ part = "playback" /\ BNext /\ UNCHANGED <<part, xvars, svars, rvars, pvars, lvars>>
    \/ part = "list" /\ LNext /\ UNCHANGED <<part, xvars, svars, rvars, pvars, bvars>>

ServicesSpec ==
    ServicesInit /\ [][ServicesNext]_<<part, xvars, svars, rvars, pvars, bvars, lvars>>

(* Every variable of these modules has its type.                           *)
ServicesTypeOK == XTypeOK /\ STypeOK /\ RowsTypeOK /\ PTypeOK /\ BTypeOK /\ LTypeOK

(* No more than TLC gains by: it tries every combination of these.         *)
Symmetry == Permutations(Requests) \cup Permutations(Users) \cup Permutations(Stamps)
=============================================================================
