------------------------------- MODULE Engagement -------------------------------
(***************************************************************************)
(* Likes and tags: the tables video_likes, tags and video_tags, and the    *)
(* handlers of api_videos.cpp and api_tag.cpp that write them.             *)
(*                                                                         *)
(* A handler runs as one process per request and every co_await on the     *)
(* database is one action, so a request acts on what an earlier query of   *)
(* its own has read.  No handler uses a transaction.                       *)
(*                                                                         *)
(* External, as the code uses it: MySQL executes each statement atomically *)
(* and checks the keys of init.sql; a statement whose connection breaks    *)
(* has been executed or not, and is answered with 500 in either case.      *)
(***************************************************************************)
EXTENDS Backend, Naturals

CONSTANTS Names,
          MaxTag          \* bound: ids of the table tags

ASSUME EngagementAssumption ==
    /\ MaxTag \in Nat
    /\ None \notin Users /\ None \notin Names

VARIABLES owner,     \* owner[v]: videos.user_id, None if there is no row
          likes,     \* video_likes: a set of <<video, user>>
          tag,       \* tag[t]: tags.name of the id t, None if there is no row
          nextTag,   \* AUTO_INCREMENT of tags
          links,     \* video_tags: a set of <<video, tag id>>
          req        \* req[r]: a request and how far its handler is

tables == <<owner, likes, tag, nextTag, links>>
evars == <<tables, req>>

TagIds == 1..MaxTag
Steps == {"insert", "delete", "create", "link", "check", "unlink", "tags", "row"}
Outcomes == {"done", "refused", "missing", "error"}
Ops == {"addLike", "removeLike", "addTag", "removeTag", "deleteTag", "deleteVideo"}

Idle == [op |-> "none", at |-> "idle", v |-> None, u |-> None, n |-> None, t |-> 0]
ETypeOK ==
    /\ owner \in [Videos -> Users \cup {None}]
    /\ likes \subseteq Videos \X Users
    /\ tag \in [TagIds -> Names \cup {None}]
    /\ nextTag \in 1..(MaxTag + 1)
    /\ links \subseteq Videos \X TagIds
    /\ req \in [Requests ->
          [op: Ops \cup {"none"}, at: Steps \cup Outcomes \cup {"idle"},
           v: Videos \cup {None}, u: Users \cup {None}, n: Names \cup {None},
           t: 0..MaxTag]]

EInit ==
    /\ owner \in [Videos -> Users \cup {None}]
    /\ likes = {}
    /\ tag = [t \in TagIds |-> None]
    /\ nextTag = 1
    /\ links = {}
    /\ req = [r \in Requests |-> Idle]

-----------------------------------------------------------------------------
(* A request arrives and its first query is executed.                      *)
Begin(r, o, x, v, u, n, t) ==
    /\ req[r] = Idle
    /\ req' = [req EXCEPT ![r] =
                 [op |-> o, at |-> x, v |-> v, u |-> u, n |-> n, t |-> t]]

At(r, o, x) == req[r].op = o /\ req[r].at = x

(* The handler goes on to x, which may be its answer, with the tag id t.   *)
Move(r, x, t) ==
    req' = [req EXCEPT ![r] =
              [op |-> req[r].op, at |-> x, v |-> req[r].v, u |-> req[r].u,
               n |-> req[r].n, t |-> t]]
Go(r, x) == Move(r, x, req[r].t)

(* What MySQL makes of a row: keys, foreign keys, ON DELETE CASCADE.       *)
LikeFits(p) == p \notin likes /\ owner[p[1]] # None
LinkFits(p) == /\ p \notin links
               /\ owner[p[1]] # None
               /\ p[2] \in TagIds
               /\ tag[p[2]] # None
NameFits(n) == \A t \in TagIds : tag[t] # n
Of(S, v) == {p \in S : p[1] = v}

(* Slip: no ON DELETE CASCADE.                                             *)
DropVideoOnly(v) ==
    /\ owner' = [owner EXCEPT ![v] = None]
    /\ UNCHANGED <<likes, links, tag, nextTag>>

DropVideo(v) ==
    /\ owner' = [owner EXCEPT ![v] = None]
    /\ likes' = likes \ Of(likes, v)
    /\ links' = links \ Of(links, v)
    /\ UNCHANGED <<tag, nextTag>>

DropTag(t) ==
    /\ tag' = [tag EXCEPT ![t] = None]
    /\ links' = {p \in links : p[2] # t}
    /\ UNCHANGED <<owner, likes, nextTag>>

(* A query or a statement of any handler throws before it does anything.   *)
Throws(r) ==
    /\ "db" \in Faults
    /\ req[r].at \in Steps
    /\ Go(r, "error")
    /\ UNCHANGED tables

-----------------------------------------------------------------------------
(* Likes                                                                   *)

AddLikeFind(r, v, u) ==
    /\ Begin(r, "addLike", IF <<v, u>> \in likes THEN "refused" ELSE "insert",
             v, u, None, 0)
    /\ UNCHANGED tables

(* Slip: INSERT IGNORE.                                                    *)
InsertIgnore(r) ==
    LET p == <<req[r].v, req[r].u>> IN
    /\ At(r, "addLike", "insert")
    /\ likes' = IF LikeFits(p) THEN likes \cup {p} ELSE likes
    /\ \E a \in Written("done") : Go(r, a)
    /\ UNCHANGED <<owner, tag, nextTag, links>>

(* Slip: video_id and user_id are mixed up.                                *)
InsertSwapped(r) ==
    /\ At(r, "addLike", "insert")
    /\ likes' = likes \cup {<<req[r].u, req[r].v>>}
    /\ \E a \in Written("done") : Go(r, a)
    /\ UNCHANGED <<owner, tag, nextTag, links>>

AddLikeInsert(r) ==
    LET p == <<req[r].v, req[r].u>> IN
    /\ At(r, "addLike", "insert")
    /\ \/ /\ LikeFits(p)
          /\ likes' = likes \cup {p}
          /\ \E a \in Written("done") : Go(r, a)
       \/ /\ ~LikeFits(p)
          /\ likes' = likes
          /\ Go(r, "error")
    /\ UNCHANGED <<owner, tag, nextTag, links>>

RemoveLikeFind(r, v, u) ==
    /\ Begin(r, "removeLike", IF <<v, u>> \in likes THEN "delete" ELSE "refused",
             v, u, None, 0)
    /\ UNCHANGED tables

RemoveLikeDelete(r) ==
    /\ At(r, "removeLike", "delete")
    /\ likes' = likes \ {<<req[r].v, req[r].u>>}
    /\ \E a \in Written("done") : Go(r, a)
    /\ UNCHANGED <<owner, tag, nextTag, links>>

-----------------------------------------------------------------------------
(* Tags                                                                    *)

AddTagFind(r, v, n) ==
    /\ \/ NameFits(n) /\ Begin(r, "addTag", "create", v, None, n, 0)
       \/ \E t \in TagIds : tag[t] = n /\ Begin(r, "addTag", "link", v, None, n, t)
    /\ UNCHANGED tables

AddTagCreate(r) ==
    /\ At(r, "addTag", "create")
    /\ nextTag \in TagIds
    /\ \/ /\ NameFits(req[r].n)
          /\ tag' = [tag EXCEPT ![nextTag] = req[r].n]
          /\ nextTag' = nextTag + 1
          /\ \E a \in Written("link") : Move(r, a, IF a = "link" THEN nextTag ELSE 0)
       \/ /\ ~NameFits(req[r].n)
          /\ Go(r, "error")
          /\ UNCHANGED <<tag, nextTag>>
    /\ UNCHANGED <<owner, likes, links>>

AddTagLink(r) ==
    LET p == <<req[r].v, req[r].t>> IN
    /\ At(r, "addTag", "link")
    /\ \/ /\ LinkFits(p)
          /\ links' = links \cup {p}
          /\ \E a \in Written("done") : Go(r, a)
       \/ /\ ~LinkFits(p)
          /\ links' = links
          /\ Go(r, "error")
    /\ UNCHANGED <<owner, likes, tag, nextTag>>

RemoveTagFind(r, v, t) ==
    /\ Begin(r, "removeTag", IF tag[t] = None THEN "missing" ELSE "check",
             v, None, None, t)
    /\ UNCHANGED tables

RemoveTagCheck(r) ==
    /\ At(r, "removeTag", "check")
    /\ Go(r, IF <<req[r].v, req[r].t>> \in links THEN "unlink" ELSE "missing")
    /\ UNCHANGED tables

RemoveTagUnlink(r) ==
    /\ At(r, "removeTag", "unlink")
    /\ links' = links \ {<<req[r].v, req[r].t>>}
    /\ \E a \in Written("done") : Go(r, a)
    /\ UNCHANGED <<owner, likes, tag, nextTag>>

DeleteTag(r, t) ==
    \/ /\ tag[t] = None
       /\ Begin(r, "deleteTag", "missing", None, None, None, t)
       /\ UNCHANGED tables
    \/ /\ tag[t] # None
       /\ DropTag(t)
       /\ \E a \in Written("done") : Begin(r, "deleteTag", a, None, None, None, t)

-----------------------------------------------------------------------------
(* deleteVideo, as far as these tables see it: the owner is checked, the   *)
(* video_tags go, then the objects in the storage, then the row.           *)

(* Slip: the owner is not asked for.                                       *)
DeleteVideoOfAnyone(r, v, u) ==
    /\ Begin(r, "deleteVideo", IF owner[v] = None THEN "missing" ELSE "tags", v, u, None, 0)
    /\ UNCHANGED tables

DeleteVideoFind(r, v, u) ==
    /\ Begin(r, "deleteVideo", CASE owner[v] = None -> "missing"
                                 [] owner[v] = u -> "tags"
                                 [] OTHER -> "refused", v, u, None, 0)
    /\ UNCHANGED tables

DeleteVideoTags(r) ==
    /\ At(r, "deleteVideo", "tags")
    /\ links' = links \ Of(links, req[r].v)
    /\ \E a \in Written("row") : Go(r, a)
    /\ UNCHANGED <<owner, likes, tag, nextTag>>

DeleteVideoRow(r) ==
    /\ At(r, "deleteVideo", "row")
    /\ DropVideo(req[r].v)
    /\ \E a \in Written("done") : Go(r, a)

-----------------------------------------------------------------------------
Arrives(r) ==
    \/ \E v \in Videos, u \in Users :
          AddLikeFind(r, v, u) \/ RemoveLikeFind(r, v, u) \/ DeleteVideoFind(r, v, u)
    \/ \E v \in Videos, n \in Names : AddTagFind(r, v, n)
    \/ \E v \in Videos, t \in TagIds : RemoveTagFind(r, v, t)
    \/ \E t \in TagIds : DeleteTag(r, t)

Continues(r) ==
    \/ AddLikeInsert(r) \/ RemoveLikeDelete(r)
    \/ AddTagCreate(r) \/ AddTagLink(r)
    \/ RemoveTagCheck(r) \/ RemoveTagUnlink(r)
    \/ DeleteVideoTags(r) \/ DeleteVideoRow(r)
    \/ Throws(r)

ENext == \E r \in Requests : Arrives(r) \/ Continues(r)

ESpec == EInit /\ [][ENext]_evars
-----------------------------------------------------------------------------
(* Properties                                                              *)

(* No like and no tag of a video outlives the video or the tag, whatever   *)
(* deletes it between the queries of the request that inserts the row      *)
(* (init.sql: foreign keys with ON DELETE CASCADE).                        *)
NoDangling ==
    /\ \A p \in likes : owner[p[1]] # None
    /\ \A p \in links : owner[p[1]] # None /\ tag[p[2]] # None

LikesGoByRequest ==
    \A p \in likes \ likes' : \E r \in Requests :
       \/ At(r, "removeLike", "delete") /\ p = <<req[r].v, req[r].u>>
       \/ At(r, "deleteVideo", "row") /\ req[r].u = owner[p[1]] /\ owner'[p[1]] = None

LinksGoByRequest ==
    \A p \in links \ links' : \E r \in Requests :
       \/ At(r, "removeTag", "unlink") /\ p = <<req[r].v, req[r].t>>
       \/ At(r, "deleteVideo", "tags") /\ req[r].u = owner[p[1]]
       \/ At(r, "deleteVideo", "row") /\ req[r].u = owner[p[1]]
       \/ req'[r].op = "deleteTag" /\ req'[r].t = p[2]

TagsGoByRequest ==
    \A t \in TagIds : tag[t] # None /\ tag'[t] = None =>
       \E r \in Requests : req'[r].op = "deleteTag" /\ req'[r].t = t

(* A like or a tag of a video goes only by a request of somebody entitled  *)
(* to: the user who likes, anyone who unlinks or deletes the tag, and the  *)
(* owner who deletes the video, whose half done deletion takes no like of  *)
(* a video that stays.  removeTag never takes the tag itself               *)
(* (docs/openapi.yml, deleteVideoTag).                                     *)
GoneByRequest ==
    [][LikesGoByRequest /\ LinksGoByRequest /\ TagsGoByRequest]_evars

(* Likes and tags are one set of pairs whose calls are answered truthfully *)
(* (PairSet), although each handler checks and writes in separate queries. *)
AllPairs == ({"like"} \X (Videos \X Users)) \cup ({"tag"} \X (Videos \X (0..MaxTag)))
ThePairs == ({"like"} \X likes) \cup ({"tag"} \X links)

PairOf(r) ==
    IF req[r].op \in {"addLike", "removeLike"}
      THEN <<"like", <<req[r].v, req[r].u>>>>
      ELSE <<"tag", <<req[r].v, req[r].t>>>>

AnswerOf(r) ==
    IF \/ req[r].op \notin {"addLike", "removeLike", "addTag", "removeTag"}
       \/ req[r].at \notin Outcomes
      THEN None
      ELSE [kind |-> IF req[r].op \in {"addLike", "addTag"} THEN "add" ELSE "remove",
            pair |-> PairOf(r),
            says |-> IF req[r].at = "missing" THEN "refused" ELSE req[r].at]

TheAnswers == [r \in Requests |-> AnswerOf(r)]

Sets == INSTANCE PairSet WITH
    Pairs <- AllPairs, Callers <- Requests, Unanswered <- None,
    pairs <- ThePairs, answer <- TheAnswers

PairsAreTrue == Sets!PSpec
=============================================================================
