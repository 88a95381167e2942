---------------------------- MODULE EngagementProofs ----------------------------
(***************************************************************************)
(* Proofs about Engagement, for any number of videos, users, names and     *)
(* requests and any faults.                                                *)
(***************************************************************************)
EXTENDS Engagement, TLAPS

(* What a handler knows between two of its queries: who and what it is     *)
(* about, and that whoever deletes a video owns it or has deleted it.      *)
HandlerInv ==
    \A r \in Requests :
       /\ req[r].op \in {"addLike", "removeLike", "deleteVideo"} =>
             req[r].v \in Videos /\ req[r].u \in Users
       /\ req[r].op \in {"addTag", "removeTag"} => req[r].v \in Videos
       /\ req[r].op = "addTag" => req[r].n \in Names
       /\ req[r].op = "deleteVideo" /\ req[r].at \in {"tags", "row"} =>
             owner[req[r].v] \in {req[r].u, None}

EInv == ETypeOK /\ HandlerInv /\ NoDangling

-----------------------------------------------------------------------------
(* A record of a request is replaced by another one of its type.           *)
Request == [op: Ops \cup {"none"}, at: Steps \cup Outcomes \cup {"idle"},
            v: Videos \cup {None}, u: Users \cup {None}, n: Names \cup {None},
            t: 0..MaxTag]

LEMMA MoveType ==
  ASSUME ETypeOK, NEW r \in Requests, NEW x \in Steps \cup Outcomes, NEW t \in 0..MaxTag,
         Move(r, x, t)
  PROVE  /\ req' \in [Requests -> Request]
         /\ \A q \in Requests : q # r => req'[q] = req[q]
         /\ req'[r] = [op |-> req[r].op, at |-> x, v |-> req[r].v, u |-> req[r].u,
                       n |-> req[r].n, t |-> t]
<1>1. req \in [Requests -> Request]
  BY DEF ETypeOK, Request
<1>2. [op |-> req[r].op, at |-> x, v |-> req[r].v, u |-> req[r].u, n |-> req[r].n, t |-> t]
      \in Request
  BY <1>1 DEF Request
<1> QED
  BY <1>1, <1>2 DEF Move

LEMMA BeginType ==
  ASSUME ETypeOK, NEW r \in Requests, NEW o \in Ops, NEW x \in Steps \cup Outcomes,
         NEW v \in Videos \cup {None}, NEW u \in Users \cup {None},
         NEW n \in Names \cup {None}, NEW t \in 0..MaxTag, Begin(r, o, x, v, u, n, t)
  PROVE  /\ req' \in [Requests -> Request]
         /\ \A q \in Requests : q # r => req'[q] = req[q]
         /\ req'[r] = [op |-> o, at |-> x, v |-> v, u |-> u, n |-> n, t |-> t]
<1>1. req \in [Requests -> Request]
  BY DEF ETypeOK, Request
<1>2. [op |-> o, at |-> x, v |-> v, u |-> u, n |-> n, t |-> t] \in Request
  BY DEF Request
<1> QED
  BY <1>1, <1>2 DEF Begin

LEMMA Answered == ASSUME NEW a, NEW b \in Written(a) PROVE b \in {a, "error"}
BY DEF Written

(* The rows that a step leaves are rows of their tables, and of the videos *)
(* none is given out again.                                                *)
TablesOK ==
    /\ owner \in [Videos -> Users \cup {None}]
    /\ likes \subseteq Videos \X Users
    /\ tag \in [TagIds -> Names \cup {None}]
    /\ nextTag \in 1..(MaxTag + 1)
    /\ links \subseteq Videos \X TagIds

NoneReturns == \A v \in Videos : owner'[v] \in {owner[v], None}

LEMMA TablesStay == ASSUME EInv, UNCHANGED tables PROVE TablesOK' /\ NoDangling' /\ NoneReturns
<1>1. owner' = owner /\ likes' = likes /\ tag' = tag /\ nextTag' = nextTag /\ links' = links
  BY DEF tables
<1> QED
  BY <1>1 DEF EInv, ETypeOK, TablesOK, NoDangling, NoneReturns

(* A request that begins with a query.                                     *)
LEMMA BeginKeeps ==
  ASSUME EInv, NEW r \in Requests, NEW o \in Ops, NEW x \in Steps \cup Outcomes,
         NEW v \in Videos \cup {None}, NEW u \in Users \cup {None},
         NEW n \in Names \cup {None}, NEW t \in 0..MaxTag,
         Begin(r, o, x, v, u, n, t), TablesOK', NoDangling', NoneReturns,
         o # "deleteTag" => v \in Videos,
         o \in {"addLike", "removeLike", "deleteVideo"} => u \in Users,
         o = "addTag" => n \in Names,
         o = "deleteVideo" /\ x \in {"tags", "row"} => owner[v] = u
  PROVE  EInv'
<1>1. /\ req' \in [Requests -> Request]
      /\ \A q \in Requests : q # r => req'[q] = req[q]
      /\ req'[r] = [op |-> o, at |-> x, v |-> v, u |-> u, n |-> n, t |-> t]
  BY BeginType DEF EInv
<1>2. HandlerInv'
  <2> SUFFICES ASSUME NEW q \in Requests
               PROVE /\ req'[q].op \in {"addLike", "removeLike", "deleteVideo"} =>
                            req'[q].v \in Videos /\ req'[q].u \in Users
                     /\ req'[q].op \in {"addTag", "removeTag"} => req'[q].v \in Videos
                     /\ req'[q].op = "addTag" => req'[q].n \in Names
                     /\ req'[q].op = "deleteVideo" /\ req'[q].at \in {"tags", "row"} =>
                            owner'[req'[q].v] \in {req'[q].u, None}
    BY DEF HandlerInv
  <2>1. CASE q = r
    BY <1>1, <2>1 DEF NoneReturns
  <2>2. CASE q # r
    BY <1>1, <2>2 DEF EInv, HandlerInv, NoneReturns
  <2> QED
    BY <2>1, <2>2
<1> QED
  BY <1>1, <1>2 DEF EInv, ETypeOK, TablesOK, Request

(* A request whose handler goes on.                                        *)
LEMMA MoveKeeps ==
  ASSUME EInv, NEW r \in Requests, NEW x \in Steps \cup Outcomes, NEW t \in 0..MaxTag,
         Move(r, x, t), TablesOK', NoDangling', NoneReturns,
         req[r].op = "deleteVideo" /\ x \in {"tags", "row"} => req[r].at \in {"tags", "row"}
  PROVE  EInv'
<1>1. /\ req' \in [Requests -> Request]
      /\ \A q \in Requests : q # r => req'[q] = req[q]
      /\ req'[r] = [op |-> req[r].op, at |-> x, v |-> req[r].v, u |-> req[r].u,
                    n |-> req[r].n, t |-> t]
  BY MoveType DEF EInv
<1>2. HandlerInv'
  <2> SUFFICES ASSUME NEW q \in Requests
               PROVE /\ req'[q].op \in {"addLike", "removeLike", "deleteVideo"} =>
                            req'[q].v \in Videos /\ req'[q].u \in Users
                     /\ req'[q].op \in {"addTag", "removeTag"} => req'[q].v \in Videos
                     /\ req'[q].op = "addTag" => req'[q].n \in Names
                     /\ req'[q].op = "deleteVideo" /\ req'[q].at \in {"tags", "row"} =>
                            owner'[req'[q].v] \in {req'[q].u, None}
    BY DEF HandlerInv
  <2>1. CASE q = r
    BY <1>1, <2>1 DEF EInv, HandlerInv, NoneReturns
  <2>2. CASE q # r
    BY <1>1, <2>2 DEF EInv, HandlerInv, NoneReturns
  <2> QED
    BY <2>1, <2>2
<1> QED
  BY <1>1, <1>2 DEF EInv, ETypeOK, TablesOK, Request

(* A request in the middle of a handler is one that has its own shape.     *)
LEMMA GoKeeps ==
  ASSUME EInv, NEW r \in Requests, NEW x \in Steps \cup Outcomes, Go(r, x),
         TablesOK', NoDangling', NoneReturns,
         req[r].op = "deleteVideo" /\ x \in {"tags", "row"} => req[r].at \in {"tags", "row"}
  PROVE  EInv'
<1>1. req[r].t \in 0..MaxTag /\ Move(r, x, req[r].t)
  BY DEF Go, EInv, ETypeOK
<1> QED
  BY <1>1, MoveKeeps

-----------------------------------------------------------------------------
(* Every step keeps the invariant; the actions that write have to show     *)
(* that their rows still name rows.                                        *)
LEMMA LikeStep ==
  ASSUME EInv, NEW r \in Requests, AddLikeInsert(r) \/ RemoveLikeDelete(r) PROVE EInv'
<1>1. CASE AddLikeInsert(r)
  <2> DEFINE p == <<req[r].v, req[r].u>>
  <2>1. PICK x \in {"done", "error"} : Go(r, x)
    BY <1>1, Answered DEF AddLikeInsert
  <2>2. /\ likes' = likes \/ (LikeFits(p) /\ likes' = likes \cup {p})
        /\ UNCHANGED <<owner, tag, nextTag, links>>
    BY <1>1 DEF AddLikeInsert
  <2>3. req[r].v \in Videos /\ req[r].u \in Users
    BY <1>1 DEF AddLikeInsert, At, EInv, HandlerInv
  <2>4. TablesOK'
    BY <2>2, <2>3 DEF EInv, ETypeOK, TablesOK
  <2>5. NoDangling'
    BY <2>2, <2>3 DEF EInv, NoDangling, LikeFits
  <2>6. NoneReturns
    BY <2>2 DEF NoneReturns
  <2> QED
    BY <2>1, <2>4, <2>5, <2>6, GoKeeps DEF Outcomes
<1>2. CASE RemoveLikeDelete(r)
  <2>1. PICK x \in {"done", "error"} : Go(r, x)
    BY <1>2, Answered DEF RemoveLikeDelete
  <2>2. likes' \subseteq likes /\ UNCHANGED <<owner, tag, nextTag, links>>
    BY <1>2 DEF RemoveLikeDelete
  <2>3. TablesOK' /\ NoDangling' /\ NoneReturns
    BY <2>2 DEF EInv, ETypeOK, TablesOK, NoDangling, NoneReturns
  <2> QED
    BY <2>1, <2>3, GoKeeps DEF Outcomes
<1> QED
  BY <1>1, <1>2

LEMMA TagStep ==
  ASSUME EInv, NEW r \in Requests,
         AddTagCreate(r) \/ AddTagLink(r) \/ RemoveTagCheck(r) \/ RemoveTagUnlink(r)
  PROVE  EInv'
<1> USE EngagementAssumption
<1>1. CASE AddTagCreate(r)
  <2>1. UNCHANGED <<owner, likes, links>> /\ nextTag \in TagIds /\ nextTag \in 0..MaxTag
    BY <1>1 DEF AddTagCreate, TagIds
  <2>2. req[r].n \in Names /\ req[r].op = "addTag"
    BY <1>1 DEF AddTagCreate, At, EInv, HandlerInv
  <2>3. CASE /\ tag' = [tag EXCEPT ![nextTag] = req[r].n]
             /\ nextTag' = nextTag + 1
             /\ \E a \in Written("link") : Move(r, a, IF a = "link" THEN nextTag ELSE 0)
    <3>1. PICK a \in {"link", "error"} : Move(r, a, IF a = "link" THEN nextTag ELSE 0)
      BY <2>3, Answered
    <3>2. TablesOK'
      BY <2>1, <2>2, <2>3 DEF EInv, ETypeOK, TablesOK, TagIds
    <3>3. NoDangling' /\ NoneReturns
      BY <2>1, <2>2, <2>3 DEF EInv, ETypeOK, NoDangling, NoneReturns
    <3>4. (IF a = "link" THEN nextTag ELSE 0) \in 0..MaxTag /\ a \in Steps \cup Outcomes
      BY <2>1 DEF Steps, Outcomes
    <3> QED
      BY <2>2, <3>1, <3>2, <3>3, <3>4, MoveKeeps
  <2>4. CASE Go(r, "error") /\ UNCHANGED <<tag, nextTag>>
    <3>1. UNCHANGED tables
      BY <2>1, <2>4 DEF tables
    <3> QED
      BY <2>4, <3>1, TablesStay, GoKeeps DEF Outcomes
  <2> QED
    BY <1>1, <2>3, <2>4 DEF AddTagCreate
<1>2. CASE AddTagLink(r)
  <2> DEFINE p == <<req[r].v, req[r].t>>
  <2>1. PICK x \in {"done", "error"} : Go(r, x)
    BY <1>2, Answered DEF AddTagLink
  <2>2. /\ links' = links \/ (LinkFits(p) /\ links' = links \cup {p})
        /\ UNCHANGED <<owner, likes, tag, nextTag>>
    BY <1>2 DEF AddTagLink
  <2>3. req[r].v \in Videos
    BY <1>2 DEF AddTagLink, At, EInv, HandlerInv
  <2>4. TablesOK'
    BY <2>2, <2>3 DEF EInv, ETypeOK, TablesOK, LinkFits
  <2>5. NoDangling' /\ NoneReturns
    BY <2>2, <2>3 DEF EInv, NoDangling, LinkFits, NoneReturns
  <2> QED
    BY <2>1, <2>4, <2>5, GoKeeps DEF Outcomes
<1>3. CASE RemoveTagCheck(r)
  <2>1. PICK x \in {"unlink", "missing"} : Go(r, x)
    BY <1>3 DEF RemoveTagCheck
  <2>2. UNCHANGED tables
    BY <1>3 DEF RemoveTagCheck
  <2> QED
    BY <2>1, <2>2, TablesStay, GoKeeps DEF Steps, Outcomes
<1>4. CASE RemoveTagUnlink(r)
  <2>1. PICK x \in {"done", "error"} : Go(r, x)
    BY <1>4, Answered DEF RemoveTagUnlink
  <2>2. links' \subseteq links /\ UNCHANGED <<owner, likes, tag, nextTag>>
    BY <1>4 DEF RemoveTagUnlink
  <2>3. TablesOK' /\ NoDangling' /\ NoneReturns
    BY <2>2 DEF EInv, ETypeOK, TablesOK, NoDangling, NoneReturns
  <2> QED
    BY <2>1, <2>3, GoKeeps DEF Outcomes
<1> QED
  BY <1>1, <1>2, <1>3, <1>4

LEMMA DeleteStep ==
  ASSUME EInv, NEW r \in Requests, DeleteVideoTags(r) \/ DeleteVideoRow(r) PROVE EInv'
<1>1. CASE DeleteVideoTags(r)
  <2>1. PICK x \in {"row", "error"} : Go(r, x)
    BY <1>1, Answered DEF DeleteVideoTags
  <2>2. links' \subseteq links /\ UNCHANGED <<owner, likes, tag, nextTag>>
    BY <1>1 DEF DeleteVideoTags
  <2>3. TablesOK' /\ NoDangling' /\ NoneReturns
    BY <2>2 DEF EInv, ETypeOK, TablesOK, NoDangling, NoneReturns
  <2>4. req[r].at = "tags"
    BY <1>1 DEF DeleteVideoTags, At
  <2> QED
    BY <2>1, <2>3, <2>4, GoKeeps DEF Steps, Outcomes
<1>2. CASE DeleteVideoRow(r)
  <2>1. PICK x \in {"done", "error"} : Go(r, x)
    BY <1>2, Answered DEF DeleteVideoRow
  <2>2. DropVideo(req[r].v) /\ req[r].v \in Videos
    BY <1>2 DEF DeleteVideoRow, At, EInv, HandlerInv
  <2>3. TablesOK' /\ NoneReturns
    BY <2>2 DEF EInv, ETypeOK, TablesOK, DropVideo, NoneReturns
  <2>4. NoDangling'
    BY <2>2 DEF EInv, ETypeOK, NoDangling, DropVideo, Of
  <2> QED
    BY <2>1, <2>3, <2>4, GoKeeps DEF Outcomes
<1> QED
  BY <1>1, <1>2

LEMMA ArrivalStep == ASSUME EInv, NEW r \in Requests, Arrives(r) PROVE EInv'
<1> USE EngagementAssumption DEF Steps, Outcomes, Ops
<1>1. ASSUME NEW v \in Videos, NEW u \in Users, AddLikeFind(r, v, u) PROVE EInv'
  <2>1. PICK x \in {"refused", "insert"} : Begin(r, "addLike", x, v, u, None, 0)
    BY <1>1 DEF AddLikeFind
  <2>2. UNCHANGED tables
    BY <1>1 DEF AddLikeFind
  <2> QED
    BY <2>1, <2>2, TablesStay, BeginKeeps
<1>2. ASSUME NEW v \in Videos, NEW u \in Users, RemoveLikeFind(r, v, u) PROVE EInv'
  <2>1. PICK x \in {"refused", "delete"} : Begin(r, "removeLike", x, v, u, None, 0)
    BY <1>2 DEF RemoveLikeFind
  <2>2. UNCHANGED tables
    BY <1>2 DEF RemoveLikeFind
  <2> QED
    BY <2>1, <2>2, TablesStay, BeginKeeps
<1>3. ASSUME NEW v \in Videos, NEW u \in Users, DeleteVideoFind(r, v, u) PROVE EInv'
  <2>1. PICK x \in {"missing", "tags", "refused"} :
           Begin(r, "deleteVideo", x, v, u, None, 0) /\ (x = "tags" => owner[v] = u)
    BY <1>3 DEF DeleteVideoFind
  <2>2. UNCHANGED tables
    BY <1>3 DEF DeleteVideoFind
  <2> QED
    BY <2>1, <2>2, TablesStay, BeginKeeps
<1>4. ASSUME NEW v \in Videos, NEW n \in Names, AddTagFind(r, v, n) PROVE EInv'
  <2>1. PICK x \in {"create", "link"}, t \in 0..MaxTag : Begin(r, "addTag", x, v, None, n, t)
    BY <1>4 DEF AddTagFind, TagIds
  <2>2. UNCHANGED tables
    BY <1>4 DEF AddTagFind
  <2> QED
    BY <2>1, <2>2, TablesStay, BeginKeeps
<1>5. ASSUME NEW v \in Videos, NEW t \in TagIds, RemoveTagFind(r, v, t) PROVE EInv'
  <2>1. PICK x \in {"missing", "check"} : Begin(r, "removeTag", x, v, None, None, t)
    BY <1>5 DEF RemoveTagFind
  <2>2. UNCHANGED tables /\ t \in 0..MaxTag
    BY <1>5 DEF RemoveTagFind, TagIds
  <2> QED
    BY <2>1, <2>2, TablesStay, BeginKeeps
<1>6. ASSUME NEW t \in TagIds, DeleteTag(r, t) PROVE EInv'
  <2>1. PICK x \in {"missing", "done", "error"} : Begin(r, "deleteTag", x, None, None, None, t)
    BY <1>6, Answered DEF DeleteTag
  <2>2. t \in 0..MaxTag
    BY DEF TagIds
  <2>3. CASE UNCHANGED tables
    BY <2>1, <2>2, <2>3, TablesStay, BeginKeeps
  <2>4. CASE DropTag(t)
    <3>1. TablesOK' /\ NoneReturns
      BY <2>4 DEF EInv, ETypeOK, TablesOK, DropTag, NoneReturns
    <3>2. NoDangling'
      BY <2>4 DEF EInv, ETypeOK, NoDangling, DropTag
    <3> QED
      BY <2>1, <2>2, <3>1, <3>2, BeginKeeps
  <2> QED
    BY <1>6, <2>3, <2>4 DEF DeleteTag
<1> QED
  BY <1>1, <1>2, <1>3, <1>4, <1>5, <1>6 DEF Arrives

LEMMA EInvStep == ASSUME EInv, [ENext]_evars PROVE EInv'
<1>1. ASSUME NEW r \in Requests, Continues(r) PROVE EInv'
  <2>1. CASE Throws(r)
    <3>1. Go(r, "error") /\ UNCHANGED tables
      BY <2>1 DEF Throws
    <3> QED
      BY <3>1, TablesStay, GoKeeps DEF Outcomes
  <2> QED
    BY <1>1, <2>1, LikeStep, TagStep, DeleteStep DEF Continues
<1>2. CASE UNCHANGED evars
  <2>1. UNCHANGED <<owner, likes, tag, nextTag, links, req>>
    BY <1>2 DEF evars, tables
  <2> QED
    BY <2>1 DEF EInv, ETypeOK, HandlerInv, NoDangling
<1> QED
  BY <1>1, <1>2, ArrivalStep DEF ENext

LEMMA EInvHolds == ESpec => []EInv
<1>1. EInit => EInv
  BY EngagementAssumption
  DEF EInit, EInv, ETypeOK, HandlerInv, NoDangling, Idle, TagIds, Ops, Steps, Outcomes
<1>2. EInv /\ [ENext]_evars => EInv'
  BY EInvStep
<1> QED
  BY <1>1, <1>2, PTL DEF ESpec

-----------------------------------------------------------------------------
(* The tables and the requests keep their types: every handler of          *)
(* Engagement, in any state.                                               *)
THEOREM EngagementTypeCorrect == ESpec => []ETypeOK
BY EInvHolds, PTL DEF EInv

(* For any number of requests at once, no like and no tag of a video names *)
(* a row that is gone (the checks of the handlers do not give that, the    *)
(* keys of init.sql do).                                                   *)
THEOREM NothingDangles == ESpec => []NoDangling
BY EInvHolds, PTL DEF EInv

-----------------------------------------------------------------------------
(* Who takes what: a step of r that takes a like, a link or a tag.         *)
LEMMA StillTables ==
  ASSUME UNCHANGED tables PROVE LikesGoByRequest /\ LinksGoByRequest /\ TagsGoByRequest
<1>1. likes' = likes /\ links' = links /\ tag' = tag
  BY DEF tables
<1> QED
  BY <1>1 DEF LikesGoByRequest, LinksGoByRequest, TagsGoByRequest

LEMMA GoneStep ==
  ASSUME EInv, ENext PROVE LikesGoByRequest /\ LinksGoByRequest /\ TagsGoByRequest
<1> DEFINE Goal == LikesGoByRequest /\ LinksGoByRequest /\ TagsGoByRequest
<1>1. ASSUME NEW r \in Requests, NEW t \in TagIds, DeleteTag(r, t) PROVE Goal
  <2>1. CASE UNCHANGED tables
    BY <2>1, StillTables
  <2>2. CASE DropTag(t) /\ \E a \in Written("done") : Begin(r, "deleteTag", a, None, None, None, t)
    <3>1. req'[r].op = "deleteTag" /\ req'[r].t = t
      BY <2>2 DEF Begin, EInv, ETypeOK
    <3>2. likes' = likes
      BY <2>2 DEF DropTag
    <3>3. LinksGoByRequest
      BY <2>2, <3>1 DEF DropTag, LinksGoByRequest
    <3>4. TagsGoByRequest
      BY <2>2, <3>1 DEF DropTag, TagsGoByRequest, EInv, ETypeOK
    <3> QED
      BY <3>2, <3>3, <3>4 DEF LikesGoByRequest
  <2> QED
    BY <1>1, <2>1, <2>2 DEF DeleteTag
<1>2. ASSUME NEW r \in Requests, RemoveLikeDelete(r) PROVE Goal
  BY <1>2 DEF RemoveLikeDelete, LikesGoByRequest, LinksGoByRequest, TagsGoByRequest
<1>3. ASSUME NEW r \in Requests, RemoveTagUnlink(r) PROVE Goal
  BY <1>3 DEF RemoveTagUnlink, LikesGoByRequest, LinksGoByRequest, TagsGoByRequest
<1>4. ASSUME NEW r \in Requests, AddLikeInsert(r) \/ AddTagLink(r) PROVE Goal
  <2>1. likes \subseteq likes' /\ links \subseteq links' /\ tag' = tag
    BY <1>4 DEF AddLikeInsert, AddTagLink
  <2> QED
    BY <2>1 DEF LikesGoByRequest, LinksGoByRequest, TagsGoByRequest
<1>5. ASSUME NEW r \in Requests, AddTagCreate(r) PROVE Goal
  <2>1. likes' = likes /\ links' = links
    BY <1>5 DEF AddTagCreate
  <2>2. req[r].n \in Names
    BY <1>5 DEF AddTagCreate, At, EInv, HandlerInv
  <2>3. TagsGoByRequest
    BY <1>5, <2>2, EngagementAssumption DEF AddTagCreate, TagsGoByRequest, EInv, ETypeOK
  <2> QED
    BY <2>1, <2>3 DEF LikesGoByRequest, LinksGoByRequest
<1>6. ASSUME NEW r \in Requests, DeleteVideoTags(r) \/ DeleteVideoRow(r) PROVE Goal
  <2> DEFINE v == req[r].v
  <2>1. /\ req[r].op = "deleteVideo" /\ req[r].at \in {"tags", "row"}
        /\ v \in Videos /\ owner[v] \in {req[r].u, None}
    BY <1>6 DEF DeleteVideoTags, DeleteVideoRow, At, EInv, HandlerInv
  <2>2. /\ \A p \in likes \ likes' : p[1] = v /\ req[r].at = "row" /\ owner'[v] = None
        /\ \A p \in links \ links' : p[1] = v
        /\ tag' = tag
    BY <1>6, <2>1 DEF DeleteVideoTags, DeleteVideoRow, DropVideo, Of, At, EInv, ETypeOK
  <2>3. \A p \in (likes \ likes') \cup (links \ links') : owner[p[1]] # None
    BY DEF EInv, NoDangling
  <2>4. LikesGoByRequest
    BY <2>1, <2>2, <2>3 DEF LikesGoByRequest, At
  <2>5. LinksGoByRequest
    BY <2>1, <2>2, <2>3 DEF LinksGoByRequest, At
  <2> QED
    BY <2>2, <2>4, <2>5 DEF TagsGoByRequest
<1>7. ASSUME NEW r \in Requests, Throws(r) \/ RemoveTagCheck(r) PROVE Goal
  BY <1>7, StillTables DEF Throws, RemoveTagCheck
<1>8. ASSUME NEW r \in Requests, NEW v \in Videos, NEW u \in Users,
             AddLikeFind(r, v, u) \/ RemoveLikeFind(r, v, u) \/ DeleteVideoFind(r, v, u)
      PROVE Goal
  BY <1>8, StillTables DEF AddLikeFind, RemoveLikeFind, DeleteVideoFind
<1>9. ASSUME NEW r \in Requests, NEW v \in Videos, NEW n \in Names, AddTagFind(r, v, n)
      PROVE Goal
  BY <1>9, StillTables DEF AddTagFind
<1>10. ASSUME NEW r \in Requests, NEW v \in Videos, NEW t \in TagIds, RemoveTagFind(r, v, t)
       PROVE Goal
  BY <1>10, StillTables DEF RemoveTagFind
<1> HIDE DEF Goal
<1>11. Goal
  BY <1>1, <1>2, <1>3, <1>4, <1>5, <1>6, <1>7, <1>8, <1>9, <1>10
  DEF ENext, Arrives, Continues
<1> QED
  BY <1>11 DEF Goal

(* Likes and tags go only by a request of somebody entitled to, and a tag  *)
(* itself only by deleteTag: what deleteVideo knows of the owner is still  *)
(* true when it deletes.                                                   *)
THEOREM GoneByRequestOnly == ESpec => GoneByRequest
<1>1. EInv /\ [ENext]_evars =>
         [LikesGoByRequest /\ LinksGoByRequest /\ TagsGoByRequest]_evars
  BY GoneStep
<1> QED
  BY <1>1, EInvHolds, PTL DEF ESpec, GoneByRequest

-----------------------------------------------------------------------------
(* Engagement implements PairSet.                                          *)

Others(r) == \A q \in Requests : q # r => req'[q] = req[q]

(* A step of r that says nothing to anybody.                               *)
LEMMA SilentStep ==
  ASSUME NEW r \in Requests, Others(r), AnswerOf(r)' = AnswerOf(r)
  PROVE  TheAnswers' = TheAnswers
<1>1. \A q \in Requests : AnswerOf(q)' = AnswerOf(q)
  BY DEF Others, AnswerOf, PairOf
<1> QED
  BY <1>1 DEF TheAnswers

(* A step of r that answers its caller.                                    *)
LEMMA ReturnStep ==
  ASSUME NEW r \in Requests, Others(r), AnswerOf(r) = None,
         AnswerOf(r)' \in Sets!Answers, Sets!Effect(AnswerOf(r)')
  PROVE  Sets!Return(r)
<1>1. \A q \in Requests : q # r => AnswerOf(q)' = AnswerOf(q)
  BY DEF Others, AnswerOf, PairOf
<1>2. TheAnswers' = [TheAnswers EXCEPT ![r] = TheAnswers'[r]]
  BY <1>1 DEF TheAnswers
<1>3. TheAnswers[r] = None /\ TheAnswers'[r] = AnswerOf(r)'
  BY DEF TheAnswers
<1> QED
  BY <1>2, <1>3 DEF Sets!Return

(* How a request begins and goes on, as its caller sees it.                *)
LEMMA BeginAnswer ==
  ASSUME EInv, NEW r \in Requests, NEW o, NEW x, NEW v, NEW u, NEW n, NEW t,
         Begin(r, o, x, v, u, n, t)
  PROVE  /\ Others(r) /\ AnswerOf(r) = None
         /\ req'[r] = [op |-> o, at |-> x, v |-> v, u |-> u, n |-> n, t |-> t]
<1>1. req[r].op = "none"
  BY DEF Begin, Idle
<1> QED
  BY <1>1 DEF AnswerOf, Begin, Others, EInv, ETypeOK

LEMMA MoveAnswer ==
  ASSUME EInv, NEW r \in Requests, req[r].at \in Steps,
         NEW x \in Steps \cup Outcomes, NEW t \in 0..MaxTag, Move(r, x, t)
  PROVE  /\ Others(r) /\ AnswerOf(r) = None
         /\ req'[r] = [op |-> req[r].op, at |-> x, v |-> req[r].v, u |-> req[r].u,
                       n |-> req[r].n, t |-> t]
<1>1. /\ Others(r)
      /\ req'[r] = [op |-> req[r].op, at |-> x, v |-> req[r].v, u |-> req[r].u,
                    n |-> req[r].n, t |-> t]
  BY MoveType DEF EInv, Others
<1>2. req[r].at \notin Outcomes
  BY DEF Steps, Outcomes
<1> QED
  BY <1>1, <1>2 DEF AnswerOf

LEMMA GoAnswer ==
  ASSUME EInv, NEW r \in Requests, req[r].at \in Steps, NEW x \in Steps \cup Outcomes,
         Go(r, x)
  PROVE  /\ Others(r) /\ AnswerOf(r) = None
         /\ req'[r] = [op |-> req[r].op, at |-> x, v |-> req[r].v, u |-> req[r].u,
                       n |-> req[r].n, t |-> req[r].t]
         /\ req[r].t \in 0..MaxTag
<1>1. req[r].t \in 0..MaxTag /\ Move(r, x, req[r].t)
  BY DEF Go, EInv, ETypeOK
<1> QED
  BY <1>1, MoveAnswer

(* A step that answers nobody and leaves the pairs or takes some.          *)
LEMMA PurgeStep ==
  ASSUME NEW r \in Requests, Others(r), AnswerOf(r)' = AnswerOf(r),
         likes' \subseteq likes, links' \subseteq links
  PROVE  Sets!PNext
<1>1. ThePairs' \subseteq ThePairs
  BY DEF ThePairs
<1>2. TheAnswers' = TheAnswers
  BY SilentStep
<1> QED
  BY <1>1, <1>2 DEF Sets!PNext, Sets!Purged

(* What the answers to calls about a pair are.                             *)
LEMMA AnswerIs ==
  ASSUME EInv', NEW r \in Requests,
         req'[r].op \in {"addLike", "removeLike", "addTag", "removeTag"},
         req'[r].at \in Outcomes
  PROVE  /\ AnswerOf(r)' \in Sets!Answers
         /\ AnswerOf(r)'.kind = IF req'[r].op \in {"addLike", "addTag"} THEN "add" ELSE "remove"
         /\ AnswerOf(r)'.pair = PairOf(r)'
         /\ AnswerOf(r)'.says = IF req'[r].at = "missing" THEN "refused" ELSE req'[r].at
<1>1. PairOf(r)' \in AllPairs
  BY DEF EInv, ETypeOK, HandlerInv, PairOf, AllPairs
<1> QED
  BY <1>1 DEF AnswerOf, Sets!Answers, Outcomes

(* A step of r that answers a call about a pair: what the tables are then. *)
LEMMA AnswerStep ==
  ASSUME EInv', NEW r \in Requests, Others(r), AnswerOf(r) = None,
         req'[r].op \in {"addLike", "removeLike", "addTag", "removeTag"},
         req'[r].at \in Outcomes,
         LET p == PairOf(r)'
             add == req'[r].op \in {"addLike", "addTag"} IN
         \/ /\ req'[r].at = "done" /\ add
            /\ p \notin ThePairs /\ ThePairs' = ThePairs \cup {p}
         \/ /\ req'[r].at = "done" /\ ~add
            /\ ThePairs' = ThePairs \ {p}
         \/ /\ req'[r].at \in {"refused", "missing"} /\ (add <=> p \in ThePairs)
            /\ ThePairs' = ThePairs
         \/ /\ req'[r].at = "error"
            /\ ThePairs' \in {ThePairs, IF add THEN ThePairs \cup {p} ELSE ThePairs \ {p}}
  PROVE  Sets!PNext
<1> DEFINE x == AnswerOf(r)'
<1>1. /\ x \in Sets!Answers
      /\ x.kind = IF req'[r].op \in {"addLike", "addTag"} THEN "add" ELSE "remove"
      /\ x.pair = PairOf(r)'
      /\ x.says = IF req'[r].at = "missing" THEN "refused" ELSE req'[r].at
  BY AnswerIs
<1> HIDE DEF x
<1>2. Sets!Effect(x)
  BY <1>1 DEF Sets!Effect
<1>3. Sets!Return(r)
  BY <1>1, <1>2, ReturnStep DEF x
<1> QED
  BY <1>3 DEF Sets!PNext

LEMMA LikePairs ==
  ASSUME EInv, EInv', NEW r \in Requests, AddLikeInsert(r) \/ RemoveLikeDelete(r)
  PROVE  Sets!PNext
<1> DEFINE p == <<req[r].v, req[r].u>>
<1>1. CASE AddLikeInsert(r)
  <2>1. PICK x \in {"done", "error"} :
           /\ Go(r, x) /\ links' = links
           /\ (x = "done" => LikeFits(p) /\ likes' = likes \cup {p})
           /\ likes' \in {likes, likes \cup {p}}
    BY <1>1, Answered DEF AddLikeInsert
  <2>2. req[r].op = "addLike" /\ req[r].at \in Steps
    BY <1>1 DEF AddLikeInsert, At, Steps
  <2>3. /\ Others(r) /\ AnswerOf(r) = None
        /\ req'[r] = [op |-> req[r].op, at |-> x, v |-> req[r].v, u |-> req[r].u,
                      n |-> req[r].n, t |-> req[r].t]
    BY <2>1, <2>2, GoAnswer DEF Outcomes
  <2>4. PairOf(r)' = <<"like", p>>
    BY <2>2, <2>3 DEF PairOf
  <2>5. x = "done" => <<"like", p>> \notin ThePairs /\ ThePairs' = ThePairs \cup {<<"like", p>>}
    BY <2>1 DEF ThePairs, LikeFits
  <2>6. ThePairs' \in {ThePairs, ThePairs \cup {<<"like", p>>}}
    BY <2>1 DEF ThePairs
  <2> QED
    BY <2>1, <2>2, <2>3, <2>4, <2>5, <2>6, AnswerStep DEF Outcomes
<1>2. CASE RemoveLikeDelete(r)
  <2>1. PICK x \in {"done", "error"} : Go(r, x)
    BY <1>2, Answered DEF RemoveLikeDelete
  <2>2. /\ req[r].op = "removeLike" /\ req[r].at \in Steps
        /\ likes' = likes \ {p} /\ links' = links
    BY <1>2 DEF RemoveLikeDelete, At, Steps
  <2>3. /\ Others(r) /\ AnswerOf(r) = None
        /\ req'[r] = [op |-> req[r].op, at |-> x, v |-> req[r].v, u |-> req[r].u,
                      n |-> req[r].n, t |-> req[r].t]
    BY <2>1, <2>2, GoAnswer DEF Outcomes
  <2>4. PairOf(r)' = <<"like", p>>
    BY <2>2, <2>3 DEF PairOf
  <2>5. ThePairs' = ThePairs \ {<<"like", p>>}
    BY <2>2 DEF ThePairs
  <2> QED
    BY <2>1, <2>2, <2>3, <2>4, <2>5, AnswerStep DEF Outcomes
<1> QED
  BY <1>1, <1>2

LEMMA TagPairs ==
  ASSUME EInv, EInv', NEW r \in Requests,
         AddTagCreate(r) \/ AddTagLink(r) \/ RemoveTagCheck(r) \/ RemoveTagUnlink(r)
  PROVE  Sets!PNext
<1> DEFINE p == <<req[r].v, req[r].t>>
<1> USE EngagementAssumption
<1>1. CASE AddTagCreate(r)
  <2>1. /\ req[r].op = "addTag" /\ req[r].at \in Steps
        /\ likes' = likes /\ links' = links /\ nextTag \in 0..MaxTag
    BY <1>1 DEF AddTagCreate, At, Steps, TagIds
  <2>2. req[r].t \in 0..MaxTag
    BY DEF EInv, ETypeOK
  <2>3. PICK x \in {"link", "error"}, t \in 0..MaxTag : Move(r, x, t)
    BY <1>1, <2>1, <2>2, Answered DEF AddTagCreate, Go
  <2>4. /\ Others(r) /\ AnswerOf(r) = None
        /\ req'[r] = [op |-> req[r].op, at |-> x, v |-> req[r].v, u |-> req[r].u,
                      n |-> req[r].n, t |-> t]
    BY <2>1, <2>3, MoveAnswer DEF Steps, Outcomes
  <2>5. CASE x = "link"
    <3>1. AnswerOf(r)' = None
      BY <2>4, <2>5 DEF AnswerOf, Outcomes
    <3> QED
      BY <2>1, <2>4, <3>1, PurgeStep
  <2>6. CASE x = "error"
    <3>1. ThePairs' = ThePairs
      BY <2>1 DEF ThePairs
    <3> QED
      BY <2>1, <2>4, <2>6, <3>1, AnswerStep DEF Outcomes
  <2> QED
    BY <2>5, <2>6
<1>2. CASE AddTagLink(r)
  <2>1. PICK x \in {"done", "error"} :
           /\ Go(r, x) /\ likes' = likes
           /\ (x = "done" => LinkFits(p) /\ links' = links \cup {p})
           /\ links' \in {links, links \cup {p}}
    BY <1>2, Answered DEF AddTagLink
  <2>2. req[r].op = "addTag" /\ req[r].at \in Steps
    BY <1>2 DEF AddTagLink, At, Steps
  <2>3. /\ Others(r) /\ AnswerOf(r) = None
        /\ req'[r] = [op |-> req[r].op, at |-> x, v |-> req[r].v, u |-> req[r].u,
                      n |-> req[r].n, t |-> req[r].t]
    BY <2>1, <2>2, GoAnswer DEF Outcomes
  <2>4. PairOf(r)' = <<"tag", p>>
    BY <2>2, <2>3 DEF PairOf
  <2>5. x = "done" => <<"tag", p>> \notin ThePairs /\ ThePairs' = ThePairs \cup {<<"tag", p>>}
    BY <2>1 DEF ThePairs, LinkFits
  <2>6. ThePairs' \in {ThePairs, ThePairs \cup {<<"tag", p>>}}
    BY <2>1 DEF ThePairs
  <2> QED
    BY <2>1, <2>2, <2>3, <2>4, <2>5, <2>6, AnswerStep DEF Outcomes
<1>3. CASE RemoveTagCheck(r)
  <2>1. PICK x \in {"unlink", "missing"} : Go(r, x) /\ (x = "unlink" <=> p \in links)
    BY <1>3 DEF RemoveTagCheck
  <2>2. /\ req[r].op = "removeTag" /\ req[r].at \in Steps
        /\ likes' = likes /\ links' = links
    BY <1>3 DEF RemoveTagCheck, At, Steps, tables
  <2>3. /\ Others(r) /\ AnswerOf(r) = None
        /\ req'[r] = [op |-> req[r].op, at |-> x, v |-> req[r].v, u |-> req[r].u,
                      n |-> req[r].n, t |-> req[r].t]
    BY <2>1, <2>2, GoAnswer DEF Steps, Outcomes
  <2>4. CASE x = "unlink"
    <3>1. AnswerOf(r)' = None
      BY <2>3, <2>4 DEF AnswerOf, Outcomes
    <3> QED
      BY <2>2, <2>3, <3>1, PurgeStep
  <2>5. CASE x = "missing"
    <3>1. PairOf(r)' = <<"tag", p>>
      BY <2>2, <2>3 DEF PairOf
    <3>2. <<"tag", p>> \notin ThePairs /\ ThePairs' = ThePairs
      BY <2>1, <2>2, <2>5 DEF ThePairs
    <3> QED
      BY <2>2, <2>3, <2>5, <3>1, <3>2, AnswerStep DEF Outcomes
  <2> QED
    BY <2>4, <2>5
<1>4. CASE RemoveTagUnlink(r)
  <2>1. PICK x \in {"done", "error"} : Go(r, x)
    BY <1>4, Answered DEF RemoveTagUnlink
  <2>2. /\ req[r].op = "removeTag" /\ req[r].at \in Steps
        /\ likes' = likes /\ links' = links \ {p}
    BY <1>4 DEF RemoveTagUnlink, At, Steps
  <2>3. /\ Others(r) /\ AnswerOf(r) = None
        /\ req'[r] = [op |-> req[r].op, at |-> x, v |-> req[r].v, u |-> req[r].u,
                      n |-> req[r].n, t |-> req[r].t]
    BY <2>1, <2>2, GoAnswer DEF Outcomes
  <2>4. PairOf(r)' = <<"tag", p>>
    BY <2>2, <2>3 DEF PairOf
  <2>5. ThePairs' = ThePairs \ {<<"tag", p>>}
    BY <2>2 DEF ThePairs
  <2> QED
    BY <2>1, <2>2, <2>3, <2>4, <2>5, AnswerStep DEF Outcomes
<1> QED
  BY <1>1, <1>2, <1>3, <1>4

LEMMA DeletePairs ==
  ASSUME EInv, NEW r \in Requests, DeleteVideoTags(r) \/ DeleteVideoRow(r) PROVE Sets!PNext
<1>1. PICK x \in {"row", "done", "error"} : Go(r, x)
  BY Answered DEF DeleteVideoTags, DeleteVideoRow
<1>2. /\ req[r].op = "deleteVideo" /\ req[r].at \in Steps
      /\ likes' \subseteq likes /\ links' \subseteq links
  BY DEF DeleteVideoTags, DeleteVideoRow, DropVideo, At, Steps
<1>3. /\ Others(r) /\ AnswerOf(r) = None
      /\ req'[r] = [op |-> req[r].op, at |-> x, v |-> req[r].v, u |-> req[r].u,
                    n |-> req[r].n, t |-> req[r].t]
  BY <1>1, <1>2, GoAnswer DEF Steps, Outcomes
<1>4. AnswerOf(r)' = None
  BY <1>2, <1>3 DEF AnswerOf
<1> QED
  BY <1>2, <1>3, <1>4, PurgeStep

LEMMA ThrowPairs ==
  ASSUME EInv, EInv', NEW r \in Requests, Throws(r) PROVE Sets!PNext
<1>1. Go(r, "error") /\ req[r].at \in Steps /\ likes' = likes /\ links' = links
  BY DEF Throws, tables
<1>2. /\ Others(r) /\ AnswerOf(r) = None
      /\ req'[r] = [op |-> req[r].op, at |-> "error", v |-> req[r].v, u |-> req[r].u,
                    n |-> req[r].n, t |-> req[r].t]
  BY <1>1, GoAnswer DEF Outcomes
<1>3. CASE req[r].op \in {"addLike", "removeLike", "addTag", "removeTag"}
  <2>1. ThePairs' = ThePairs
    BY <1>1 DEF ThePairs
  <2> QED
    BY <1>2, <1>3, <2>1, AnswerStep DEF Outcomes
<1>4. CASE req[r].op \notin {"addLike", "removeLike", "addTag", "removeTag"}
  <2>1. AnswerOf(r)' = None
    BY <1>2, <1>4 DEF AnswerOf
  <2> QED
    BY <1>1, <1>2, <2>1, PurgeStep
<1> QED
  BY <1>3, <1>4

LEMMA ArrivalPairs ==
  ASSUME EInv, EInv', NEW r \in Requests, Arrives(r) PROVE Sets!PNext
<1> USE EngagementAssumption DEF Steps, Outcomes, Ops
<1>1. ASSUME NEW v \in Videos, NEW u \in Users, AddLikeFind(r, v, u) PROVE Sets!PNext
  <2> DEFINE p == <<"like", <<v, u>>>>
  <2>1. PICK x \in {"refused", "insert"} :
           Begin(r, "addLike", x, v, u, None, 0) /\ (x = "refused" => <<v, u>> \in likes)
    BY <1>1 DEF AddLikeFind
  <2>2. likes' = likes /\ links' = links /\ ThePairs' = ThePairs
    BY <1>1 DEF AddLikeFind, tables, ThePairs
  <2>3. /\ Others(r) /\ AnswerOf(r) = None
        /\ req'[r] = [op |-> "addLike", at |-> x, v |-> v, u |-> u, n |-> None, t |-> 0]
    BY <2>1, BeginAnswer
  <2>4. CASE x = "insert"
    <3>1. AnswerOf(r)' = None
      BY <2>3, <2>4 DEF AnswerOf
    <3> QED
      BY <2>2, <2>3, <3>1, PurgeStep
  <2>5. CASE x = "refused"
    <3>1. PairOf(r)' = p
      BY <2>3 DEF PairOf
    <3>2. p \in ThePairs
      BY <2>1, <2>5 DEF ThePairs
    <3> QED
      BY <2>2, <2>3, <2>5, <3>1, <3>2, AnswerStep
  <2> QED
    BY <2>4, <2>5
<1>2. ASSUME NEW v \in Videos, NEW u \in Users, RemoveLikeFind(r, v, u) PROVE Sets!PNext
  <2> DEFINE p == <<"like", <<v, u>>>>
  <2>1. PICK x \in {"refused", "delete"} :
           Begin(r, "removeLike", x, v, u, None, 0) /\ (x = "refused" => <<v, u>> \notin likes)
    BY <1>2 DEF RemoveLikeFind
  <2>2. likes' = likes /\ links' = links /\ ThePairs' = ThePairs
    BY <1>2 DEF RemoveLikeFind, tables, ThePairs
  <2>3. /\ Others(r) /\ AnswerOf(r) = None
        /\ req'[r] = [op |-> "removeLike", at |-> x, v |-> v, u |-> u, n |-> None, t |-> 0]
    BY <2>1, BeginAnswer
  <2>4. CASE x = "delete"
    <3>1. AnswerOf(r)' = None
      BY <2>3, <2>4 DEF AnswerOf
    <3> QED
      BY <2>2, <2>3, <3>1, PurgeStep
  <2>5. CASE x = "refused"
    <3>1. PairOf(r)' = p
      BY <2>3 DEF PairOf
    <3>2. p \notin ThePairs
      BY <2>1, <2>5 DEF ThePairs
    <3> QED
      BY <2>2, <2>3, <2>5, <3>1, <3>2, AnswerStep
  <2> QED
    BY <2>4, <2>5
<1>3. ASSUME NEW v \in Videos, NEW u \in Users, DeleteVideoFind(r, v, u) PROVE Sets!PNext
  <2>1. PICK x \in {"missing", "tags", "refused"} : Begin(r, "deleteVideo", x, v, u, None, 0)
    BY <1>3 DEF DeleteVideoFind
  <2>2. likes' = likes /\ links' = links
    BY <1>3 DEF DeleteVideoFind, tables
  <2>3. /\ Others(r) /\ AnswerOf(r) = None
        /\ req'[r] = [op |-> "deleteVideo", at |-> x, v |-> v, u |-> u, n |-> None, t |-> 0]
    BY <2>1, BeginAnswer
  <2>4. AnswerOf(r)' = None
    BY <2>3 DEF AnswerOf
  <2> QED
    BY <2>2, <2>3, <2>4, PurgeStep
<1>4. ASSUME NEW v \in Videos, NEW n \in Names, AddTagFind(r, v, n) PROVE Sets!PNext
  <2>1. PICK x \in {"create", "link"}, t \in 0..MaxTag : Begin(r, "addTag", x, v, None, n, t)
    BY <1>4 DEF AddTagFind, TagIds
  <2>2. likes' = likes /\ links' = links
    BY <1>4 DEF AddTagFind, tables
  <2>3. /\ Others(r) /\ AnswerOf(r) = None
        /\ req'[r] = [op |-> "addTag", at |-> x, v |-> v, u |-> None, n |-> n, t |-> t]
    BY <2>1, BeginAnswer
  <2>4. AnswerOf(r)' = None
    BY <2>3 DEF AnswerOf
  <2> QED
    BY <2>2, <2>3, <2>4, PurgeStep
<1>5. ASSUME NEW v \in Videos, NEW t \in TagIds, RemoveTagFind(r, v, t) PROVE Sets!PNext
  <2> DEFINE p == <<"tag", <<v, t>>>>
  <2>1. PICK x \in {"missing", "check"} :
           Begin(r, "removeTag", x, v, None, None, t) /\ (x = "missing" => tag[t] = None)
    BY <1>5 DEF RemoveTagFind
  <2>2. likes' = likes /\ links' = links /\ ThePairs' = ThePairs
    BY <1>5 DEF RemoveTagFind, tables, ThePairs
  <2>3. /\ Others(r) /\ AnswerOf(r) = None
        /\ req'[r] = [op |-> "removeTag", at |-> x, v |-> v, u |-> None, n |-> None, t |-> t]
    BY <2>1, BeginAnswer
  <2>4. CASE x = "check"
    <3>1. AnswerOf(r)' = None
      BY <2>3, <2>4 DEF AnswerOf
    <3> QED
      BY <2>2, <2>3, <3>1, PurgeStep
  <2>5. CASE x = "missing"
    <3>1. PairOf(r)' = p
      BY <2>3 DEF PairOf
    <3>2. p \notin ThePairs
      BY <2>1, <2>5 DEF ThePairs, EInv, NoDangling
    <3> QED
      BY <2>2, <2>3, <2>5, <3>1, <3>2, AnswerStep
  <2> QED
    BY <2>4, <2>5
<1>6. ASSUME NEW t \in TagIds, DeleteTag(r, t) PROVE Sets!PNext
  <2>1. PICK x \in {"missing", "done", "error"} : Begin(r, "deleteTag", x, None, None, None, t)
    BY <1>6, Answered DEF DeleteTag
  <2>2. likes' \subseteq likes /\ links' \subseteq links
    BY <1>6 DEF DeleteTag, DropTag, tables
  <2>3. /\ Others(r) /\ AnswerOf(r) = None
        /\ req'[r] = [op |-> "deleteTag", at |-> x, v |-> None, u |-> None, n |-> None, t |-> t]
    BY <2>1, BeginAnswer
  <2>4. AnswerOf(r)' = None
    BY <2>3 DEF AnswerOf
  <2> QED
    BY <2>2, <2>3, <2>4, PurgeStep
<1> QED
  BY <1>1, <1>2, <1>3, <1>4, <1>5, <1>6 DEF Arrives

(* Engagement implements PairSet: however requests interleave between      *)
(* their checks and their writes, each takes effect at one moment and its  *)
(* answer is the truth about that moment.                                  *)
THEOREM ImplementsPairSet == ESpec => PairsAreTrue
<1>1. EInit => Sets!PInit
  BY DEF EInit, Sets!PInit, ThePairs, TheAnswers, AnswerOf, Idle
<1>2. EInv /\ EInv' /\ [ENext]_evars =>
         [Sets!PNext]_<<ThePairs, TheAnswers>>
  <2>1. ASSUME EInv, EInv', NEW r \in Requests, Continues(r) PROVE Sets!PNext
    BY <2>1, LikePairs, TagPairs, DeletePairs, ThrowPairs DEF Continues
  <2>2. ASSUME UNCHANGED evars
        PROVE UNCHANGED <<ThePairs, TheAnswers>>
    BY <2>2 DEF evars, tables, ThePairs, TheAnswers, AnswerOf, PairOf
  <2> QED
    BY <2>1, <2>2, ArrivalPairs DEF ENext
<1> QED
  BY <1>1, <1>2, EInvHolds, PTL DEF ESpec, PairsAreTrue, Sets!PSpec
=============================================================================
