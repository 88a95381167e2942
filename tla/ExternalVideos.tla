----------------------------- MODULE ExternalVideos -----------------------------
(***************************************************************************)
(* Videos that live on YouTube: postExVideo, refreshExVideoDuration and    *)
(* refreshExVideoMetadata of api_videos.cpp.                               *)
(*                                                                         *)
(* Each handler asks YouTube in the middle and goes on with the row it has *)
(* read before; what it writes in the end are the columns it has set.  One *)
(* action per await; a request that has been answered may come again.      *)
(*                                                                         *)
(* External: YouTube moves a broadcast from "live" (or announced) to       *)
(* "over" to "archived", has its length only then, and may leave fields    *)
(* out of an answer or not answer; Redis and MySQL as in ViewCounter.      *)
(***************************************************************************)
EXTENDS Backend, Naturals

CONSTANTS ExVideos,
          Length          \* the length of every archive

Types == {"youtube", "youtube live"}

ASSUME ExternalAssumption ==
    /\ Length \in Nat \ {0}
    /\ None \notin Users /\ None \notin Types /\ None # "tube" /\ None # Length

VARIABLES row,      \* row[v]: the columns of an external video
          used,     \* the ids genRandomString has given out
          cool,     \* cool[v]: external-video:duration-refresh:<id> is set
          tube,     \* tube[v]: where its broadcast is
          req,      \* req[r]: a request, and the columns it is to write
          passes    \* history: passes[v]: requests let through to YouTube
                    \* since the cooldown last ran out

xvars == <<row, used, cool, tube, req, passes>>
Origins == {"own", "tube"}       \* chosen by the owner, taken from YouTube
Row == [owner: Users, title: Origins, desc: Origins, type: Types, len: 0..Length]
NoVideo == [owner |-> None, title |-> None, desc |-> None, type |-> None, len |-> 0]

(* VideoInfo of YoutubeAPI: the fields of an answer, None where it has none*)
Info == [title: {"tube", None}, desc: {"tube", None}, type: Types \cup {None},
         len: {None, 0, Length}]
Nothing == [title |-> None, desc |-> None, type |-> None, len |-> None]

Steps == {"cool", "fetch", "update", "insert"}
Answers == {"none", "done", "unchanged", "cooldown", "updated", "partial", "skipped",
            "missing", "refused", "gateway", "bad", "error"}
NoRequest == [op |-> "none", at |-> "none", v |-> None, u |-> None,
         set |-> Nothing, ask |-> {}]

XTypeOK ==
    /\ row \in [ExVideos -> Row \cup {NoVideo}]
    /\ used \subseteq ExVideos
    /\ cool \in [ExVideos -> BOOLEAN]
    /\ tube \in [ExVideos -> {"live", "over", "archived"}]
    /\ req \in [Requests ->
          [op: {"none", "post", "duration", "metadata"}, at: Steps \cup Answers,
           v: ExVideos \cup {None}, u: Users \cup {None}, set: Info,
           ask: SUBSET {"title", "desc"}]]
    /\ passes \in [ExVideos -> Nat]

XInit ==
    /\ row = [v \in ExVideos |-> NoVideo]
    /\ used = {}
    /\ cool = [v \in ExVideos |-> FALSE]
    /\ tube \in [ExVideos -> {"live", "over", "archived"}]
    /\ req = [r \in Requests |-> NoRequest]
    /\ passes = [v \in ExVideos |-> 0]

-----------------------------------------------------------------------------
Begin(r, o, x, v, u, F) ==
    /\ req[r].at \in Answers
    /\ req' = [req EXCEPT ![r] = [op |-> o, at |-> x, v |-> v, u |-> u,
                                  set |-> Nothing, ask |-> F]]

At(r, o, x) == req[r].op = o /\ req[r].at = x

(* The handler goes on to x with the columns s set.                        *)
Move(r, x, s) ==
    req' = [req EXCEPT ![r] = [op |-> req[r].op, at |-> x, v |-> req[r].v,
                               u |-> req[r].u, set |-> s, ask |-> req[r].ask]]
Go(r, x) == Move(r, x, req[r].set)

(* Slip: a column that is not set is written as NULL.                      *)
MergeNull(w, s) ==
    [owner |-> w.owner, title |-> s.title, desc |-> s.desc, type |-> s.type, len |-> s.len]

(* mapper.update writes the columns that were set, if there is still a row.*)
Merge(w, s) ==
    [owner |-> w.owner,
     title |-> IF s.title = None THEN w.title ELSE s.title,
     desc |-> IF s.desc = None THEN w.desc ELSE s.desc,
     type |-> IF s.type = None THEN w.type ELSE s.type,
     len |-> IF s.len = None THEN w.len ELSE s.len]
Update(v, s) == row' = [row EXCEPT ![v] = IF row[v] = NoVideo THEN NoVideo
                                          ELSE Merge(row[v], s)]

(* What YouTube may answer: fetchVideoInfo.                                *)
Truth(v) ==
    {i \in Info : /\ i.type \in {None, IF tube[v] = "live" THEN "youtube live" ELSE "youtube"}
                  /\ IF tube[v] = "archived" THEN i.len = Length ELSE i.len \in {None, 0}
                  /\ "tube" \in Faults \/ (i.title # None /\ i.desc # None /\ i.type # None)}

Throws(r) ==
    /\ "db" \in Faults /\ req[r].at \in {"update", "insert"}
    /\ Go(r, "error")
    /\ UNCHANGED <<row, used, cool, tube, passes>>

(* No answer, an error, no such video, or something that is no answer.     *)
FetchFails(r) ==
    /\ "tube" \in Faults /\ req[r].at = "fetch"
    /\ Go(r, IF req[r].op = "post" THEN "bad" ELSE "gateway")
    /\ UNCHANGED <<row, used, cool, tube, passes>>

-----------------------------------------------------------------------------
(* postExVideo                                                             *)

Post(r, v, u, own) ==
    /\ v \notin used
    /\ used' = used \cup {v}
    /\ Begin(r, "post", "fetch", v, u, own)
    /\ UNCHANGED <<row, cool, tube, passes>>

(* The texts the client has sent are kept; the length may be missing.      *)
PostFetch(r, i) ==
    /\ At(r, "post", "fetch")
    /\ i \in Truth(req[r].v)
    /\ IF i.title = None \/ i.desc = None THEN Go(r, "bad")
       ELSE Move(r, "insert",
              [title |-> IF "title" \in req[r].ask THEN None ELSE i.title,
               desc |-> IF "desc" \in req[r].ask THEN None ELSE i.desc,
               type |-> IF i.type = None THEN "youtube" ELSE i.type,
               len |-> IF i.len = None THEN 0 ELSE i.len])
    /\ UNCHANGED <<row, used, cool, tube, passes>>

PostInsert(r) ==
    LET w == [owner |-> req[r].u, title |-> "own", desc |-> "own",
              type |-> "youtube", len |-> 0]
    IN
    /\ At(r, "post", "insert")
    /\ row' = [row EXCEPT ![req[r].v] = Merge(w, req[r].set)]
    /\ \E a \in {"done"} \cup (Faults \cap {"db"}) : Go(r, IF a = "db" THEN "error" ELSE a)
    /\ UNCHANGED <<used, cool, tube, passes>>

-----------------------------------------------------------------------------
(* refreshExVideoDuration: anybody may ask.                                *)

DurationFind(r, v) ==
    /\ Begin(r, "duration",
             CASE row[v] = NoVideo -> "missing"
               [] row[v].type = "youtube live" -> "cool"
               [] OTHER -> "unchanged", v, None, {})
    /\ UNCHANGED <<row, used, cool, tube, passes>>

(* Slip: GET and SET in place of SET NX: any call passes.                  *)
CoolUnasked(r) ==
    /\ At(r, "duration", "cool")
    /\ Go(r, "fetch")
    /\ cool' = [cool EXCEPT ![req[r].v] = TRUE]
    /\ passes' = [passes EXCEPT ![req[r].v] = @ + 1]
    /\ UNCHANGED <<row, used, tube>>

(* SET NX EX; the answer of Redis may be lost.                             *)
DurationCool(r) ==
    LET v == req[r].v IN
    /\ At(r, "duration", "cool")
    /\ \/ /\ cool[v]
          /\ Go(r, "cooldown")
          /\ UNCHANGED <<cool, passes>>
       \/ /\ ~cool[v]
          /\ Go(r, "fetch")
          /\ cool' = [cool EXCEPT ![v] = TRUE]
          /\ passes' = [passes EXCEPT ![v] = @ + 1]
       \/ /\ "redis" \in Faults
          /\ Go(r, "error")
          /\ cool' \in {cool, [cool EXCEPT ![v] = TRUE]}
          /\ passes' = passes
    /\ UNCHANGED <<row, used, tube>>

DurationFetch(r, i) ==
    /\ At(r, "duration", "fetch")
    /\ i \in Truth(req[r].v)
    /\ CASE i.type = None -> Go(r, "gateway")
         [] i.type = "youtube live" \/ i.len \in {None, 0} -> Go(r, "unchanged")
         [] OTHER -> Move(r, "update", [title |-> None, desc |-> None,
                                        type |-> "youtube", len |-> i.len])
    /\ UNCHANGED <<row, used, cool, tube, passes>>

(* Slip: only the length is set.                                           *)
UpdateLengthOnly(r) ==
    /\ At(r, "duration", "update")
    /\ Update(req[r].v, [title |-> None, desc |-> None, type |-> None,
                         len |-> req[r].set.len])
    /\ Go(r, "updated")
    /\ UNCHANGED <<used, cool, tube, passes>>

DurationUpdate(r) ==
    /\ At(r, "duration", "update")
    /\ Update(req[r].v, req[r].set)
    /\ \E a \in {"updated"} \cup (Faults \cap {"db"}) : Go(r, IF a = "db" THEN "error" ELSE a)
    /\ UNCHANGED <<used, cool, tube, passes>>

-----------------------------------------------------------------------------
(* refreshExVideoMetadata: the owner asks for the fields F.                *)

MetadataFind(r, v, u, F) ==
    /\ F # {}
    /\ Begin(r, "metadata", CASE row[v] = NoVideo -> "missing"
                              [] row[v].owner = u -> "fetch"
                              [] OTHER -> "refused", v, u, F)
    /\ UNCHANGED <<row, used, cool, tube, passes>>

(* Slip: every field is taken.                                             *)
SelectAll(F, i) == [title |-> i.title, desc |-> i.desc, type |-> None, len |-> None]

Selected(F, i) == [title |-> IF "title" \in F THEN i.title ELSE None,
                   desc |-> IF "desc" \in F THEN i.desc ELSE None,
                   type |-> None, len |-> None]
Synced(s) == {f \in {"title", "desc"} : s[f] # None}

MetadataFetch(r, i) ==
    LET s == Selected(req[r].ask, i) IN
    /\ At(r, "metadata", "fetch")
    /\ i \in Truth(req[r].v)
    /\ Move(r, IF Synced(s) = {} THEN "skipped" ELSE "update", s)
    /\ UNCHANGED <<row, used, cool, tube, passes>>

MetadataUpdate(r) ==
    /\ At(r, "metadata", "update")
    /\ Update(req[r].v, req[r].set)
    /\ \E a \in {"done"} \cup (Faults \cap {"db"}) :
          Go(r, CASE a = "db" -> "error"
                  [] req[r].ask \subseteq Synced(req[r].set) -> "updated"
                  [] OTHER -> "partial")
    /\ UNCHANGED <<used, cool, tube, passes>>

-----------------------------------------------------------------------------
(* The rest of the world.                                                  *)

(* patchVideo: the owner chooses a text.                                   *)
Edited(v, f) ==
    /\ row[v] # NoVideo
    /\ Update(v, [g \in {"title", "desc", "type", "len"} |->
                    IF g = f THEN "own" ELSE None])
    /\ UNCHANGED <<used, cool, tube, req, passes>>

RowDeleted(v) ==
    /\ row[v] # NoVideo
    /\ row' = [row EXCEPT ![v] = NoVideo]
    /\ UNCHANGED <<used, cool, tube, req, passes>>

CoolExpires(v) ==
    /\ cool[v]
    /\ cool' = [cool EXCEPT ![v] = FALSE]
    /\ passes' = [passes EXCEPT ![v] = 0]
    /\ UNCHANGED <<row, used, tube, req>>

Broadcast(v) ==
    /\ tube[v] # "archived"
    /\ tube' = [tube EXCEPT ![v] = IF @ = "live" THEN "over" ELSE "archived"]
    /\ UNCHANGED <<row, used, cool, req, passes>>

-----------------------------------------------------------------------------
Arrives(r, v) ==
    \/ DurationFind(r, v)
    \/ \E u \in Users, F \in SUBSET {"title", "desc"} :
          Post(r, v, u, F) \/ MetadataFind(r, v, u, F)

Continues(r) ==
    \/ \E i \in Info : PostFetch(r, i) \/ DurationFetch(r, i) \/ MetadataFetch(r, i)
    \/ PostInsert(r) \/ DurationCool(r) \/ DurationUpdate(r) \/ MetadataUpdate(r)
    \/ FetchFails(r) \/ Throws(r)

XNext ==
    \/ \E r \in Requests : Continues(r) \/ \E v \in ExVideos : Arrives(r, v)
    \/ \E v \in ExVideos : \/ \E f \in {"title", "desc"} : Edited(v, f)
                         \/ RowDeleted(v) \/ CoolExpires(v) \/ Broadcast(v)

XSpec == XInit /\ [][XNext]_xvars

(* Coroutines are resumed, keys expire and broadcasts end; somebody goes   *)
(* on opening the page of a video, which asks for its length (Requests is  *)
(* a bound of the model, so a free one is found again and again); and      *)
(* YouTube does not leave out the type, nor MySQL refuse the update, for   *)
(* ever.                                                                   *)
XFair ==
    /\ \A r \in Requests :
          /\ WF_xvars(Continues(r))
          /\ SF_xvars(\E i \in Info : i.type # None /\ DurationFetch(r, i))
          /\ SF_xvars(DurationUpdate(r))
    /\ \A v \in ExVideos :
          /\ WF_xvars(CoolExpires(v)) /\ WF_xvars(Broadcast(v))
          /\ SF_xvars(\E r \in Requests : DurationFind(r, v))

XLive == XSpec /\ XFair

-----------------------------------------------------------------------------
(* Properties                                                              *)

(* YouTube is asked for a length at most once per cooldown of a video,     *)
(* however many clients open it at once (30 minutes, in the code).         *)
CallPerCooldown ==
    \A v \in ExVideos : passes[v] <= IF cool[v] THEN 1 ELSE 0

(* Handlers that hold a row each do not undo each other: length and type   *)
(* change only by an archive's answer, a text only by the owner's edit or  *)
(* by a refresh the owner asked this very field of.                        *)
ColumnKept(v) ==
    row[v] # NoVideo /\ row'[v] # NoVideo =>
       /\ <<row[v].type, row[v].len>> # <<row'[v].type, row'[v].len>> =>
             /\ row[v].type = "youtube live" /\ row'[v].type = "youtube"
             /\ tube[v] = "archived" /\ row'[v].len = Length
       /\ \A f \in {"title", "desc"} : row'[v][f] = "tube" /\ row[v][f] = "own" =>
             \E r \in Requests : /\ At(r, "metadata", "update") /\ req[r].v = v
                                 /\ f \in req[r].ask /\ req[r].u = row[v].owner

ColumnsKept == [][\A v \in ExVideos : ColumnKept(v)]_xvars

(* A broadcast gets its length in the end although a failed fetch leaves   *)
(* the cooldown set and most requests are turned away by it.               *)
LengthArrives ==
    \A v \in ExVideos : row[v].type = "youtube live" ~>
                         (row[v].type = "youtube" \/ row[v] = NoVideo)
=============================================================================
