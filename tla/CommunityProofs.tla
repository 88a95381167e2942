---------------------------- MODULE CommunityProofs ----------------------------
(***************************************************************************)
(* Proofs about CommentRooms, for any number of videos, users, requests    *)
(* and clients and any faults, and about it and Engagement together.       *)
(***************************************************************************)
EXTENDS MCCommunity, EngagementProofs

(* Ids are given out in order, to comments of videos.                      *)
FreshIds == \A c \in Ids : comment[c] # NoRow => c < nextId /\ comment[c].v \in Videos

(* What a handler knows between two of its steps is still true, or the row *)
(* it is about is gone for good.                                           *)
Posting(r) == call[r].op = "post" /\ call[r].at \in {"broadcast", "done"}
Deleting(r) == call[r].op = "delete" /\ call[r].at \in {"owner", "delete"}
Dropping(r) == call[r].op = "deleteVideo" /\ call[r].at \in {"comments", "row"}

CallOK(r) ==
    LET q == call[r] IN
    /\ Posting(r) \/ Deleting(r) \/ Dropping(r) => q.v \in Videos /\ q.u \in Users
    /\ Posting(r) \/ Deleting(r) =>
          /\ q.c \in Ids /\ q.c < nextId
          /\ comment[q.c] # NoRow => comment[q.c].v = q.v
    /\ Deleting(r) /\ q.at = "delete" =>
          (comment[q.c] # NoRow => q.u \in {comment[q.c].u, uploader[q.v]})
    /\ Dropping(r) => uploader[q.v] \in {q.u, None}

CallInv == \A r \in Requests : CallOK(r)

(* A connection has the context of the video its client is about.          *)
ConnInv ==
    \A k \in Clients :
       /\ ctx[k] \in {None, watch[k]}
       /\ conn[k] = "new" => ctx[k] = None
       /\ conn[k] \in {"context", "joined"} => ctx[k] = watch[k]
       /\ after[k] => conn[k] \in {"joined", "closing", "closed"}

(* Who was in the room when a comment was stored, and who was not.         *)
MeantInv ==
    \A r \in Requests : Posting(r) => \A k \in meant[r] :
       watch[k] = call[r].v /\ conn[k] \in {"joined", "closing", "closed"}

MissInv ==
    \A k \in Clients : after[k] /\ conn[k] = "joined" =>
       \A r \in Requests : Posting(r) /\ call[r].v = watch[k] =>
          \/ comment[call[r].c] = NoRow
          \/ call[r].c \in fetched[k]
          \/ k \in meant[r]

CInv == /\ CTypeOK /\ FreshIds /\ CommentHasVideo /\ CallInv /\ ConnInv /\ RoomsMatch
        /\ MeantInv /\ MissInv /\ HeardWasPosted /\ EveryoneHears

-----------------------------------------------------------------------------
(* Handlers leave the connections alone, and clients leave the tables.     *)
LEMMA HandlesLeave ==
  ASSUME NEW r \in Requests, Handles(r)
  PROVE  /\ UNCHANGED <<open, room, conn, ctx>>
         /\ UNCHANGED <<watch, fetch, fetched, after>>
BY DEF Handles, PostInsert, PostBroadcast, DeleteFind, DeleteAsOwner, DeleteRow,
       DropVideoFind, DropVideoComments, DropVideoRow, CallThrows, hub, client

LEMMA WatchesLeave ==
  ASSUME NEW k \in Clients, Watches(k)
  PROVE  UNCHANGED <<uploader, comment, nextId, call, watch, heard, meant>>
BY DEF Watches, FetchCount, FetchRead, FetchThrows, Connect, Enter, Drops, Leave,
       rows, hub, client

(* The record of a request and those of the others.                        *)
OtherCalls(r) == \A q \in Requests : q # r => call'[q] = call[q]
Calls == [op: {"none", "post", "delete", "deleteVideo"},
          at: CallSteps \cup {"idle", "done", "missing", "refused", "error"},
          v: Videos \cup {None}, u: Users \cup {None}, c: 0..MaxComment]

LEMMA BeginShape ==
  ASSUME CTypeOK, NEW r \in Requests, NEW o, NEW x, NEW v, NEW u, NEW c,
         BeginCall(r, o, x, v, u, c)
  PROVE  /\ OtherCalls(r) /\ call[r].op = "none"
         /\ call'[r] = [op |-> o, at |-> x, v |-> v, u |-> u, c |-> c]
BY DEF BeginCall, OtherCalls, CTypeOK, NoCall

LEMMA GoShape ==
  ASSUME CTypeOK, NEW r \in Requests, NEW x, CallGo(r, x)
  PROVE  /\ OtherCalls(r)
         /\ call'[r] = [op |-> call[r].op, at |-> x, v |-> call[r].v, u |-> call[r].u,
                        c |-> call[r].c]
BY DEF CallGo, OtherCalls, CTypeOK

LEMMA BeginCallType ==
  ASSUME CTypeOK, NEW r \in Requests, NEW o \in {"post", "delete", "deleteVideo"},
         NEW x \in CallSteps \cup {"done", "missing", "refused", "error"},
         NEW v \in Videos, NEW u \in Users, NEW c \in 0..MaxComment,
         BeginCall(r, o, x, v, u, c)
  PROVE  call' \in [Requests -> Calls]
<1>1. call \in [Requests -> Calls]
  BY DEF CTypeOK, Calls
<1>2. [op |-> o, at |-> x, v |-> v, u |-> u, c |-> c] \in Calls
  BY DEF Calls
<1> QED
  BY <1>1, <1>2 DEF BeginCall

LEMMA CallGoType ==
  ASSUME CTypeOK, NEW r \in Requests,
         NEW x \in CallSteps \cup {"done", "missing", "refused", "error"}, CallGo(r, x)
  PROVE  call' \in [Requests -> Calls]
<1>1. call \in [Requests -> Calls]
  BY DEF CTypeOK, Calls
<1>2. [op |-> call[r].op, at |-> x, v |-> call[r].v, u |-> call[r].u, c |-> call[r].c] \in Calls
  BY <1>1 DEF Calls
<1> QED
  BY <1>1, <1>2 DEF CallGo

LEMMA CallAnswered == ASSUME NEW a, NEW b \in Written(a) PROVE b \in {a, "error"}
BY DEF Written

(* Rows that are taken out leave rows of the table.                        *)
RowType == [v: Videos \cup {None}, u: Users \cup {None}]

LEMMA WithoutType ==
  ASSUME CTypeOK, NEW S
  PROVE  /\ Without(S) \in [Ids -> RowType]
         /\ \A c \in Ids : Without(S)[c] = IF c \in S THEN NoRow ELSE comment[c]
BY DEF CTypeOK, Without, RowType, NoRow

-----------------------------------------------------------------------------
(* Types                                                                   *)

RowsOK ==
    /\ uploader \in [Videos -> Users \cup {None}]
    /\ comment \in [Ids -> RowType]
    /\ nextId \in 1..(MaxComment + 1)
    /\ heard \in [Clients -> SUBSET Ids]
    /\ meant \in [Requests -> SUBSET Clients]
    /\ call \in [Requests -> Calls]

LEMMA HandlesType ==
  ASSUME CTypeOK, CallInv, NEW r \in Requests, Handles(r) PROVE RowsOK'
<1> USE CommentAssumption DEF CallSteps
<1>1. ASSUME NEW v \in Videos, NEW u \in Users, PostInsert(r, v, u) PROVE RowsOK'
  <2>1. CASE /\ comment' = [comment EXCEPT ![nextId] = [v |-> v, u |-> u]]
             /\ nextId' = nextId + 1
             /\ meant' = [meant EXCEPT ![r] = room[v]]
             /\ \E a \in Written("broadcast") : BeginCall(r, "post", a, v, u, nextId)
    <3>1. nextId \in Ids /\ nextId \in 0..MaxComment /\ uploader' = uploader /\ heard' = heard
      BY <1>1 DEF PostInsert, Ids, hub, client
    <3>2. call' \in [Requests -> Calls]
      BY <2>1, <3>1, CallAnswered, BeginCallType
    <3>3. comment' \in [Ids -> RowType] /\ nextId' \in 1..(MaxComment + 1)
      BY <2>1, <3>1 DEF CTypeOK, RowType, Ids
    <3>4. meant' \in [Requests -> SUBSET Clients]
      BY <2>1 DEF CTypeOK
    <3> QED
      BY <3>1, <3>2, <3>3, <3>4 DEF RowsOK, CTypeOK
  <2>2. CASE BeginCall(r, "post", "error", v, u, 0) /\ UNCHANGED <<comment, nextId, meant>>
    <3>1. uploader' = uploader /\ heard' = heard
      BY <1>1 DEF PostInsert
    <3>2. call' \in [Requests -> Calls]
      BY <2>2, BeginCallType
    <3> QED
      BY <2>2, <3>1, <3>2 DEF RowsOK, CTypeOK, RowType
  <2> QED
    BY <1>1, <2>1, <2>2 DEF PostInsert
<1>2. CASE PostBroadcast(r)
  <2>1. call' \in [Requests -> Calls] /\ UNCHANGED <<uploader, comment, nextId, meant>>
    BY <1>2, CallGoType DEF PostBroadcast, rows
  <2>2. call[r].c \in Ids
    BY <1>2 DEF PostBroadcast, CallAt, CallInv, CallOK, Posting
  <2>3. heard' \in [Clients -> SUBSET Ids]
    BY <1>2, <2>2 DEF PostBroadcast, CTypeOK
  <2> QED
    BY <2>1, <2>3 DEF RowsOK, CTypeOK, RowType
<1>3. ASSUME NEW v \in Videos, NEW u \in Users, NEW c \in Ids, DeleteFind(r, v, u, c)
      PROVE RowsOK'
  <2>1. UNCHANGED <<uploader, comment, nextId, heard, meant>> /\ c \in 0..MaxComment
    BY <1>3 DEF DeleteFind, rows, Ids
  <2>2. PICK x \in {"missing", "delete", "owner"} : BeginCall(r, "delete", x, v, u, c)
    BY <1>3 DEF DeleteFind
  <2>3. call' \in [Requests -> Calls]
    BY <2>1, <2>2, BeginCallType
  <2> QED
    BY <2>1, <2>3 DEF RowsOK, CTypeOK, RowType
<1>6. ASSUME NEW v \in Videos, NEW u \in Users, DropVideoFind(r, v, u) PROVE RowsOK'
  <2>1. UNCHANGED <<uploader, comment, nextId, heard, meant>>
    BY <1>6 DEF DropVideoFind, rows
  <2>2. PICK x \in {"missing", "comments", "refused"} : BeginCall(r, "deleteVideo", x, v, u, 0)
    BY <1>6 DEF DropVideoFind
  <2>3. call' \in [Requests -> Calls]
    BY <2>2, BeginCallType
  <2> QED
    BY <2>1, <2>3 DEF RowsOK, CTypeOK, RowType
<1>4. CASE DeleteAsOwner(r) \/ CallThrows(r)
  <2>1. UNCHANGED <<uploader, comment, nextId, heard, meant>>
    BY <1>4 DEF DeleteAsOwner, CallThrows, rows
  <2>2. PICK x \in {"delete", "refused", "error"} : CallGo(r, x)
    BY <1>4 DEF DeleteAsOwner, CallThrows
  <2>3. call' \in [Requests -> Calls]
    BY <2>2, CallGoType
  <2> QED
    BY <2>1, <2>3 DEF RowsOK, CTypeOK, RowType
<1>5. CASE DeleteRow(r) \/ DropVideoComments(r) \/ DropVideoRow(r)
  <2>1. UNCHANGED <<nextId, heard, meant>>
    BY <1>5 DEF DeleteRow, DropVideoComments, DropVideoRow
  <2>2. PICK x \in {"done", "error", "row"} : CallGo(r, x)
    BY <1>5, CallAnswered DEF DeleteRow, DropVideoComments, DropVideoRow
  <2>3. call' \in [Requests -> Calls]
    BY <2>2, CallGoType
  <2>4. comment' \in [Ids -> RowType]
    BY <1>5, WithoutType DEF DeleteRow, DropVideoComments, DropVideoRow
  <2>5. uploader' \in [Videos -> Users \cup {None}]
    BY <1>5 DEF DeleteRow, DropVideoComments, DropVideoRow, CTypeOK
  <2> QED
    BY <2>1, <2>3, <2>4, <2>5 DEF RowsOK, CTypeOK
<1> QED
  BY <1>1, <1>2, <1>3, <1>4, <1>5, <1>6 DEF Handles

LEMMA CTypeStep == ASSUME CTypeOK, CallInv, ConnInv, [CNext]_cvars PROVE CTypeOK'
<1>1. ASSUME NEW r \in Requests, Handles(r) PROVE CTypeOK'
  <2>1. RowsOK'
    BY <1>1, HandlesType
  <2>2. UNCHANGED <<open, room, conn, ctx, watch, fetch, fetched, after>>
    BY <1>1, HandlesLeave
  <2> QED
    BY <2>1, <2>2 DEF CTypeOK, RowsOK, Calls, RowType
<1>2. ASSUME NEW k \in Clients, Watches(k) PROVE CTypeOK'
  <2>1. UNCHANGED <<uploader, comment, nextId, call, watch, heard, meant>>
    BY <1>2, WatchesLeave
  <2>2. CASE FetchCount(k) \/ FetchRead(k) \/ FetchThrows(k)
    <3>1. UNCHANGED <<open, room, conn, ctx>>
      BY <2>2 DEF FetchCount, FetchRead, FetchThrows, hub
    <3>2. fetch' \in [Clients -> {"none", "counted", "done"}]
      BY <2>2 DEF FetchCount, FetchRead, FetchThrows, CTypeOK
    <3>3. CommentsOf(watch[k]) \subseteq Ids
      BY DEF CommentsOf
    <3>4. fetched' \in [Clients -> SUBSET Ids]
      BY <2>2, <3>3 DEF FetchCount, FetchRead, FetchThrows, CTypeOK
    <3>5. after' \in [Clients -> BOOLEAN]
      <4>1. PICK b \in BOOLEAN : after' = after \/ after' = [after EXCEPT ![k] = b]
        BY <2>2, Zenon DEF FetchCount, FetchRead, FetchThrows
      <4> QED
        BY <4>1, Zenon DEF CTypeOK
    <3> QED
      BY <2>1, <3>1, <3>2, <3>4, <3>5 DEF CTypeOK
  <2>3. CASE Connect(k) \/ Enter(k) \/ Drops(k) \/ Leave(k)
    <3>1. UNCHANGED <<fetch, fetched, after>>
      BY <2>3 DEF Connect, Enter, Drops, Leave, client
    <3>2. conn' \in [Clients -> {"new", "context", "joined", "closing", "closed"}]
      BY <2>3 DEF Connect, Enter, Drops, Leave, CTypeOK
    <3>3. ctx' \in [Clients -> Videos \cup {None}]
      BY <2>3 DEF Connect, Enter, Drops, Leave, CTypeOK
    <3>4. open' \subseteq Videos /\ room' \in [Videos -> SUBSET Clients]
      BY <2>3 DEF Connect, Enter, Drops, Leave, CTypeOK, ConnInv
    <3> QED
      BY <2>1, <3>1, <3>2, <3>3, <3>4 DEF CTypeOK
  <2> QED
    BY <1>2, <2>2, <2>3 DEF Watches
<1>3. CASE UNCHANGED cvars
  BY <1>3 DEF cvars, rows, hub, client, CTypeOK
<1> QED
  BY <1>1, <1>2, <1>3 DEF CNext

-----------------------------------------------------------------------------
(* The tables.  Rows go and do not come back.                              *)

Forward ==
    /\ nextId' >= nextId
    /\ \A c \in Ids : c < nextId => comment'[c] \in {comment[c], NoRow}
    /\ \A v \in Videos :
          \/ uploader'[v] = uploader[v]
          \/ uploader'[v] = None /\ \A c \in Ids : comment'[c].v # v

LEMMA ForwardStep ==
  ASSUME CTypeOK, CallInv, NEW r \in Requests, Handles(r) PROVE Forward
<1> USE CommentAssumption
<1>1. CASE UNCHANGED <<uploader, comment, nextId>>
  BY <1>1 DEF Forward, CTypeOK
<1>2. ASSUME NEW v \in Videos, NEW u \in Users, PostInsert(r, v, u) PROVE Forward
  <2>1. CASE nextId \in Ids /\ comment' = [comment EXCEPT ![nextId] = [v |-> v, u |-> u]]
             /\ nextId' = nextId + 1 /\ uploader' = uploader
    BY <2>1 DEF Forward, CTypeOK, Ids
  <2> QED
    BY <1>1, <1>2, <2>1 DEF PostInsert
<1>3. CASE DeleteRow(r) \/ DropVideoComments(r)
  <2>1. PICK S : comment' = Without(S) /\ UNCHANGED <<uploader, nextId>>
    BY <1>3 DEF DeleteRow, DropVideoComments
  <2> QED
    BY <2>1, WithoutType DEF Forward, CTypeOK
<1>4. CASE DropVideoRow(r)
  <2>1. call[r].v \in Videos
    BY <1>4 DEF DropVideoRow, CallAt, CallInv, CallOK, Dropping
  <2>2. \A c \in Ids : /\ comment'[c] \in {comment[c], NoRow}
                       /\ comment'[c].v # call[r].v
    BY <1>4, <2>1, WithoutType DEF DropVideoRow, CommentsOf, NoRow
  <2>3. uploader' = [uploader EXCEPT ![call[r].v] = None] /\ nextId' = nextId
    BY <1>4 DEF DropVideoRow
  <2> QED
    BY <2>1, <2>2, <2>3 DEF Forward, CTypeOK
<1> QED
  BY <1>1, <1>2, <1>3, <1>4
  DEF Handles, DropVideoFind, DeleteFind, PostBroadcast, DeleteAsOwner, CallThrows, rows

LEMMA ForwardKeeps ==
  ASSUME CTypeOK, NEW q \in Requests, CallOK(q), call'[q] = call[q], Forward, CTypeOK'
  PROVE  CallOK(q)'
BY CommentAssumption DEF CallOK, Posting, Deleting, Dropping, Forward, CTypeOK, Ids, NoRow

LEMMA FreshStep ==
  ASSUME CTypeOK, CTypeOK', FreshIds, NEW r \in Requests, Handles(r), Forward PROVE FreshIds'
<1> USE CommentAssumption
<1>1. ASSUME NEW v \in Videos, NEW u \in Users, PostInsert(r, v, u) PROVE FreshIds'
  BY <1>1 DEF PostInsert, FreshIds, CTypeOK, Ids
<1>2. CASE \A c \in Ids : comment'[c] \in {comment[c], NoRow}
  BY <1>2 DEF FreshIds, Forward, CTypeOK, Ids
<1>3. CASE DeleteRow(r) \/ DropVideoComments(r) \/ DropVideoRow(r)
  BY <1>2, <1>3, WithoutType DEF DeleteRow, DropVideoComments, DropVideoRow
<1> QED
  BY <1>1, <1>2, <1>3
  DEF Handles, DropVideoFind, DeleteFind, PostBroadcast, DeleteAsOwner, CallThrows, rows

LEMMA VideoStep ==
  ASSUME CTypeOK, CTypeOK', FreshIds, CommentHasVideo, NEW r \in Requests, Handles(r), Forward
  PROVE  CommentHasVideo'
<1> USE CommentAssumption
<1>1. CASE \A c \in Ids : comment'[c] \in {comment[c], NoRow}
  BY <1>1 DEF CommentHasVideo, Forward, CTypeOK, NoRow, FreshIds
<1>2. ASSUME NEW v \in Videos, NEW u \in Users, PostInsert(r, v, u) PROVE CommentHasVideo'
  BY <1>1, <1>2 DEF PostInsert, CommentHasVideo, CTypeOK, Ids
<1>3. CASE DeleteRow(r) \/ DropVideoComments(r) \/ DropVideoRow(r)
  BY <1>1, <1>3, WithoutType DEF DeleteRow, DropVideoComments, DropVideoRow
<1> QED
  BY <1>1, <1>2, <1>3
  DEF Handles, DropVideoFind, DeleteFind, PostBroadcast, DeleteAsOwner, CallThrows, rows

(* What the handler of r knows after its own step.                         *)
LEMMA OwnStep ==
  ASSUME CTypeOK, CTypeOK', FreshIds, CallInv, NEW r \in Requests, Handles(r), Forward
  PROVE  CallOK(r)' /\ OtherCalls(r)
<1> USE CommentAssumption DEF CallOK, Posting, Deleting, Dropping
<1>1. ASSUME NEW v \in Videos, NEW u \in Users, PostInsert(r, v, u) PROVE CallOK(r)' /\ OtherCalls(r)
  <2>1. CASE /\ comment' = [comment EXCEPT ![nextId] = [v |-> v, u |-> u]]
             /\ nextId' = nextId + 1
             /\ \E a \in Written("broadcast") : BeginCall(r, "post", a, v, u, nextId)
    <3>1. nextId \in Ids
      BY <1>1 DEF PostInsert
    <3>2. PICK a \in {"broadcast", "error"} : BeginCall(r, "post", a, v, u, nextId)
      BY <2>1, CallAnswered
    <3>3. /\ OtherCalls(r)
          /\ call'[r] = [op |-> "post", at |-> a, v |-> v, u |-> u, c |-> nextId]
      BY <3>2, BeginShape
    <3>4. comment'[nextId] = [v |-> v, u |-> u] /\ nextId < nextId'
      BY <2>1, <3>1 DEF CTypeOK, Ids
    <3> QED
      BY <3>1, <3>3, <3>4
  <2>2. CASE BeginCall(r, "post", "error", v, u, 0)
    <3>1. /\ OtherCalls(r)
          /\ call'[r] = [op |-> "post", at |-> "error", v |-> v, u |-> u, c |-> 0]
      BY <2>2, BeginShape
    <3> QED
      BY <3>1
  <2> QED
    BY <1>1, <2>1, <2>2 DEF PostInsert
<1>2. CASE PostBroadcast(r)
  <2>1. /\ OtherCalls(r)
        /\ call'[r] = [op |-> call[r].op, at |-> "done", v |-> call[r].v, u |-> call[r].u,
                       c |-> call[r].c]
    BY <1>2, GoShape DEF PostBroadcast
  <2>2. Posting(r) /\ call[r].op = "post" /\ UNCHANGED <<comment, nextId>>
    BY <1>2 DEF PostBroadcast, CallAt, rows
  <2> QED
    BY <2>1, <2>2 DEF CallInv
<1>3. ASSUME NEW v \in Videos, NEW u \in Users, NEW c \in Ids, DeleteFind(r, v, u, c)
      PROVE CallOK(r)' /\ OtherCalls(r)
  <2>1. PICK x \in {"missing", "delete", "owner"} :
           /\ BeginCall(r, "delete", x, v, u, c)
           /\ x # "missing" => comment[c].v = v
           /\ x = "delete" => comment[c] = [v |-> v, u |-> u]
    BY <1>3 DEF DeleteFind
  <2>2. UNCHANGED <<comment, nextId, uploader>>
    BY <1>3 DEF DeleteFind, rows
  <2>3. /\ OtherCalls(r)
        /\ call'[r] = [op |-> "delete", at |-> x, v |-> v, u |-> u, c |-> c]
    BY <2>1, BeginShape
  <2>4. x # "missing" => comment[c] # NoRow
    BY <2>1 DEF NoRow
  <2>5. x # "missing" => c < nextId
    BY <2>4 DEF FreshIds
  <2> QED
    BY <2>1, <2>2, <2>3, <2>5
<1>4. CASE DeleteAsOwner(r)
  <2>1. PICK x \in {"delete", "refused"} :
           CallGo(r, x) /\ (x = "delete" => uploader[call[r].v] = call[r].u)
    BY <1>4 DEF DeleteAsOwner
  <2>2. /\ OtherCalls(r)
        /\ call'[r] = [op |-> call[r].op, at |-> x, v |-> call[r].v, u |-> call[r].u,
                       c |-> call[r].c]
    BY <2>1, GoShape
  <2>3. Deleting(r) /\ call[r].op = "delete" /\ UNCHANGED <<uploader, comment, nextId>>
    BY <1>4 DEF DeleteAsOwner, CallAt, rows
  <2> QED
    BY <2>1, <2>2, <2>3 DEF CallInv
<1>5. CASE DeleteRow(r) \/ DropVideoRow(r) \/ CallThrows(r)
  <2>1. PICK x \in {"done", "error"} : CallGo(r, x) /\ (x = "done" => call[r].op # "post")
    <3>1. CASE CallThrows(r)
      BY <3>1 DEF CallThrows
    <3>2. CASE DeleteRow(r) \/ DropVideoRow(r)
      BY <3>2, CallAnswered DEF DeleteRow, DropVideoRow, CallAt
    <3> QED
      BY <1>5, <3>1, <3>2
  <2>2. /\ OtherCalls(r)
        /\ call'[r] = [op |-> call[r].op, at |-> x, v |-> call[r].v, u |-> call[r].u,
                       c |-> call[r].c]
    BY <2>1, GoShape
  <2> QED
    BY <2>1, <2>2
<1>6. ASSUME NEW v \in Videos, NEW u \in Users, DropVideoFind(r, v, u)
      PROVE CallOK(r)' /\ OtherCalls(r)
  <2>1. PICK x \in {"missing", "comments", "refused"} :
           BeginCall(r, "deleteVideo", x, v, u, 0) /\ (x = "comments" => uploader[v] = u)
    BY <1>6 DEF DropVideoFind
  <2>2. /\ OtherCalls(r) /\ uploader' = uploader
        /\ call'[r] = [op |-> "deleteVideo", at |-> x, v |-> v, u |-> u, c |-> 0]
    BY <1>6, <2>1, BeginShape DEF DropVideoFind, rows
  <2> QED
    BY <2>1, <2>2
<1>7. CASE DropVideoComments(r)
  <2>1. PICK x \in {"row", "error"} : CallGo(r, x)
    BY <1>7, CallAnswered DEF DropVideoComments
  <2>2. /\ OtherCalls(r)
        /\ call'[r] = [op |-> call[r].op, at |-> x, v |-> call[r].v, u |-> call[r].u,
                       c |-> call[r].c]
    BY <2>1, GoShape
  <2>3. Dropping(r) /\ call[r].op = "deleteVideo" /\ uploader' = uploader
    BY <1>7 DEF DropVideoComments, CallAt
  <2> QED
    BY <2>2, <2>3 DEF CallInv
<1> QED
  BY <1>1, <1>2, <1>3, <1>4, <1>5, <1>6, <1>7 DEF Handles

-----------------------------------------------------------------------------
(* The connections                                                         *)

LEMMA ConnStep ==
  ASSUME CTypeOK, ConnInv, NEW k \in Clients, Watches(k) PROVE ConnInv'
<1> USE CommentAssumption DEF ConnInv, CTypeOK
<1>1. CASE FetchCount(k) \/ FetchThrows(k)
  BY <1>1 DEF FetchCount, FetchThrows, hub
<1>2. CASE FetchRead(k)
  <2>1. UNCHANGED <<conn, ctx, watch>>
    BY <1>2 DEF FetchRead, hub
  <2>2. \A l \in Clients : after'[l] => after[l] \/ conn[l] = "joined"
    BY <1>2, Zenon DEF FetchRead
  <2> QED
    BY <2>1, <2>2
<1>3. CASE Connect(k)
  BY <1>3 DEF Connect, client
<1>4. CASE Enter(k)
  BY <1>4 DEF Enter, client
<1>5. CASE Drops(k)
  BY <1>5 DEF Drops, client
<1>6. CASE Leave(k)
  BY <1>6 DEF Leave, client
<1> QED
  BY <1>1, <1>2, <1>3, <1>4, <1>5, <1>6 DEF Watches

LEMMA RoomsStep ==
  ASSUME CTypeOK, CTypeOK', ConnInv, RoomsMatch, NEW k \in Clients, Watches(k)
  PROVE  RoomsMatch'
<1> DEFINE There(l, v) == ctx[l] = v /\ conn[l] \in {"joined", "closing"}
<1>1. /\ room \in [Videos -> SUBSET Clients] /\ room' \in [Videos -> SUBSET Clients]
      /\ conn \in [Clients -> {"new", "context", "joined", "closing", "closed"}]
      /\ ctx \in [Clients -> Videos \cup {None}]
  BY DEF CTypeOK
<1>2. \A v \in Videos, l \in Clients : l \in room[v] <=> There(l, v)
  BY DEF RoomsMatch
<1>3. open = {v \in Videos : room[v] # {}}
  BY DEF RoomsMatch
<1>4. ASSUME \A v \in Videos, l \in Clients : l \in room'[v] <=> There(l, v)',
             open' = {v \in Videos : room'[v] # {}}
      PROVE RoomsMatch'
  <2>1. ASSUME NEW v \in Videos
        PROVE room'[v] = {l \in Clients : ctx'[l] = v /\ conn'[l] \in {"joined", "closing"}}
    BY <1>1, <1>4
  <2> QED
    BY <1>4, <2>1 DEF RoomsMatch
<1>5. CASE UNCHANGED <<open, room, conn, ctx>>
  BY <1>5 DEF RoomsMatch
<1>6. CASE Connect(k) \/ Drops(k)
  <2>1. UNCHANGED <<open, room>>
    BY <1>6 DEF Connect, Drops
  <2>2. \A l \in Clients, v \in Videos : There(l, v)' <=> There(l, v)
    BY <1>1, <1>6, CommentAssumption DEF Connect, Drops, ConnInv
  <2> QED
    BY <1>2, <1>3, <1>4, <2>1, <2>2
<1>7. CASE Enter(k)
  <2>1. ctx[k] \in Videos /\ ctx' = ctx /\ conn[k] = "context"
    BY <1>7 DEF Enter, ConnInv, CTypeOK
  <2>2. \A v \in Videos : room'[v] = IF v = ctx[k] THEN room[v] \cup {k} ELSE room[v]
    BY <1>1, <1>7, <2>1 DEF Enter
  <2>3. \A l \in Clients : conn'[l] = IF l = k THEN "joined" ELSE conn[l]
    BY <1>1, <1>7 DEF Enter
  <2>4. ASSUME NEW v \in Videos, NEW l \in Clients
        PROVE l \in room'[v] <=> There(l, v)'
    <3>1. l \in room'[v] <=> l \in room[v] \/ (v = ctx[k] /\ l = k)
      BY <2>2, Zenon
    <3>2. l \in room[v] <=> There(l, v)
      BY <1>2
    <3>3. There(l, v)' <=> There(l, v) \/ (v = ctx[k] /\ l = k)
      BY <2>1, <2>3
    <3> QED
      BY <3>1, <3>2, <3>3, Zenon
  <2>5. open' = {v \in Videos : room'[v] # {}}
    <3>1. open' = open \cup {ctx[k]}
      BY <1>7 DEF Enter
    <3> QED
      BY <1>3, <2>1, <2>2, <3>1
  <2> QED
    BY <1>4, <2>4, <2>5
<1>8. CASE Leave(k)
  <2>1. ctx' = ctx /\ \A l \in Clients : conn'[l] = IF l = k THEN "closed" ELSE conn[l]
    BY <1>1, <1>8 DEF Leave
  <2>2. \A v \in Videos : room'[v] = IF v = ctx[k] THEN room[v] \ {k} ELSE room[v]
    BY <1>1, <1>8, CommentAssumption DEF Leave
  <2>3. ASSUME NEW v \in Videos, NEW l \in Clients
        PROVE l \in room'[v] <=> There(l, v)'
    <3>1. l \in room'[v] <=> l \in room[v] /\ ~(v = ctx[k] /\ l = k)
      BY <2>2, Zenon
    <3>2. l \in room[v] <=> There(l, v)
      BY <1>2
    <3>3. There(l, v)' <=> There(l, v) /\ ~(v = ctx[k] /\ l = k)
      BY <2>1
    <3> QED
      BY <3>1, <3>2, <3>3, Zenon
  <2>4. open' = {v \in Videos : room'[v] # {}}
    <3>1. CASE ctx[k] = None
      BY <1>3, <1>8, <2>2, <3>1, CommentAssumption DEF Leave
    <3>2. CASE ctx[k] # None
      <4>1. ctx[k] \in Videos
        BY <1>1, <3>2
      <4>2. open' = IF room[ctx[k]] \subseteq {k} THEN open \ {ctx[k]} ELSE open
        BY <1>8, <3>2 DEF Leave
      <4> QED
        BY <1>3, <2>2, <4>1, <4>2
    <3> QED
      BY <3>1, <3>2
  <2> QED
    BY <1>4, <2>3, <2>4
<1> QED
  BY <1>5, <1>6, <1>7, <1>8 DEF Watches, FetchCount, FetchRead, FetchThrows, hub

-----------------------------------------------------------------------------
(* Who hears what.  A request that posts is one that has posted before the *)
(* step, or one that stores its comment in it.                             *)
LEMMA PostingStep ==
  ASSUME CTypeOK, NEW r \in Requests, Handles(r), OtherCalls(r), NEW q \in Requests, Posting(q)'
  PROVE  \/ /\ Posting(q)
            /\ call'[q].v = call[q].v /\ call'[q].c = call[q].c /\ meant'[q] = meant[q]
         \/ /\ ~Posting(q) /\ meant'[q] = room[call'[q].v] /\ call'[q].v \in Videos
            /\ call'[q].at = "broadcast"
<1> USE DEF Posting
<1>1. CASE q # r
  <2>1. call'[q] = call[q]
    BY <1>1 DEF OtherCalls
  <2>2. meant'[q] = meant[q]
    BY <1>1 DEF Handles, PostInsert, PostBroadcast, DeleteFind, DeleteAsOwner, DeleteRow,
          DropVideoFind, DropVideoComments, DropVideoRow, CallThrows, CTypeOK
  <2> QED
    BY <2>1, <2>2
<1>2. ASSUME q = r, NEW v \in Videos, NEW u \in Users, PostInsert(r, v, u)
      PROVE /\ ~Posting(q) /\ meant'[q] = room[call'[q].v] /\ call'[q].v \in Videos
            /\ call'[q].at = "broadcast"
  <2>1. CASE /\ meant' = [meant EXCEPT ![r] = room[v]]
             /\ \E a \in Written("broadcast") : BeginCall(r, "post", a, v, u, nextId)
    <3>1. PICK a \in {"broadcast", "error"} : BeginCall(r, "post", a, v, u, nextId)
      BY <2>1, CallAnswered
    <3>2. /\ call[r].op = "none"
          /\ call'[r] = [op |-> "post", at |-> a, v |-> v, u |-> u, c |-> nextId]
      BY <3>1, BeginShape
    <3>3. meant'[r] = room[v]
      BY <2>1 DEF CTypeOK
    <3> QED
      BY <1>2, <3>2, <3>3
  <2>2. CASE BeginCall(r, "post", "error", v, u, 0)
    <3>1. call'[r] = [op |-> "post", at |-> "error", v |-> v, u |-> u, c |-> 0]
      BY <2>2, BeginShape
    <3> QED
      BY <1>2, <3>1
  <2> QED
    BY <1>2, <2>1, <2>2 DEF PostInsert
<1>3. ASSUME q = r, ~\E v \in Videos, u \in Users : PostInsert(r, v, u)
      PROVE /\ Posting(q) /\ call'[q].v = call[q].v /\ call'[q].c = call[q].c
            /\ meant'[q] = meant[q]
  <2>1. CASE PostBroadcast(r)
    <3>1. call'[r] = [op |-> call[r].op, at |-> "done", v |-> call[r].v, u |-> call[r].u,
                      c |-> call[r].c]
      BY <2>1, GoShape DEF PostBroadcast
    <3> QED
      BY <1>3, <2>1, <3>1 DEF PostBroadcast, CallAt
  <2>2. ASSUME NEW v \in Videos, NEW u \in Users, NEW c, NEW o \in {"delete", "deleteVideo"},
               NEW x, BeginCall(r, o, x, v, u, c)
        PROVE FALSE
    <3>1. call'[r] = [op |-> o, at |-> x, v |-> v, u |-> u, c |-> c]
      BY <2>2, BeginShape
    <3> QED
      BY <1>3, <3>1
  <2>3. ASSUME NEW x, CallGo(r, x), x = "error" \/ call[r].op \in {"delete", "deleteVideo"}
        PROVE FALSE
    <3>1. call'[r] = [op |-> call[r].op, at |-> x, v |-> call[r].v, u |-> call[r].u,
                      c |-> call[r].c]
      BY <2>3, GoShape
    <3> QED
      BY <1>3, <2>3, <3>1
  <2>4. CASE DeleteAsOwner(r) \/ DeleteRow(r) \/ DropVideoComments(r) \/ DropVideoRow(r)
    <3>1. call[r].op \in {"delete", "deleteVideo"} /\ \E x : CallGo(r, x)
      BY <2>4, CallAnswered DEF DeleteAsOwner, DeleteRow, DropVideoComments, DropVideoRow, CallAt
    <3> QED
      BY <2>3, <3>1
  <2>5. CASE CallThrows(r)
    BY <2>3, <2>5 DEF CallThrows
  <2>6. ASSUME NEW v \in Videos, NEW u \in Users, DropVideoFind(r, v, u) PROVE FALSE
    BY <2>2, <2>6 DEF DropVideoFind
  <2>7. ASSUME NEW v \in Videos, NEW u \in Users, NEW c \in Ids, DeleteFind(r, v, u, c)
        PROVE FALSE
    BY <2>2, <2>7 DEF DeleteFind
  <2> QED
    BY <1>3, <2>1, <2>4, <2>5, <2>6, <2>7 DEF Handles
<1> QED
  BY <1>1, <1>2, <1>3

LEMMA MeantStep ==
  ASSUME CTypeOK, ConnInv, RoomsMatch, MeantInv, NEW r \in Requests, Handles(r), OtherCalls(r)
  PROVE  MeantInv'
<1> SUFFICES ASSUME NEW q \in Requests, Posting(q)', NEW k \in meant'[q]
             PROVE watch'[k] = call'[q].v /\ conn'[k] \in {"joined", "closing", "closed"}
  BY DEF MeantInv
<1>1. watch' = watch /\ conn' = conn
  BY HandlesLeave
<1>2. CASE /\ Posting(q)
           /\ call'[q].v = call[q].v /\ call'[q].c = call[q].c /\ meant'[q] = meant[q]
  BY <1>1, <1>2 DEF MeantInv
<1>3. CASE meant'[q] = room[call'[q].v] /\ call'[q].v \in Videos
  <2>1. k \in Clients /\ ctx[k] = call'[q].v /\ conn[k] \in {"joined", "closing"}
    BY <1>3 DEF RoomsMatch
  <2> QED
    BY <1>1, <1>3, <2>1, CommentAssumption DEF ConnInv
<1> QED
  BY <1>2, <1>3, PostingStep

(* A comment that is stored while k is in the room is meant for k.         *)
LEMMA MissStep ==
  ASSUME CTypeOK, CallInv, ConnInv, RoomsMatch, MissInv, Forward,
         NEW r \in Requests, Handles(r), OtherCalls(r)
  PROVE  MissInv'
<1> SUFFICES ASSUME NEW k \in Clients, after'[k], conn'[k] = "joined",
                    NEW q \in Requests, Posting(q)', call'[q].v = watch'[k]
             PROVE \/ comment'[call'[q].c] = NoRow
                   \/ call'[q].c \in fetched'[k]
                   \/ k \in meant'[q]
  BY DEF MissInv
<1>1. UNCHANGED <<conn, ctx, watch, fetched, after>>
  BY HandlesLeave
<1>2. CASE /\ Posting(q)
           /\ call'[q].v = call[q].v /\ call'[q].c = call[q].c /\ meant'[q] = meant[q]
  <2>1. call[q].c \in Ids /\ call[q].c < nextId
    BY <1>2 DEF CallInv, CallOK
  <2>2. comment'[call[q].c] \in {comment[call[q].c], NoRow}
    BY <2>1 DEF Forward
  <2> QED
    BY <1>1, <1>2, <2>2 DEF MissInv
<1>3. CASE meant'[q] = room[call'[q].v] /\ call'[q].v \in Videos
  <2>1. k \in room[watch[k]] /\ watch'[k] = watch[k]
    BY <1>1, <1>3 DEF RoomsMatch, ConnInv
  <2> QED
    BY <1>3, <2>1
<1> QED
  BY <1>2, <1>3, PostingStep

(* What is heard, by a step of a handler.                                  *)
LEMMA HeardStep ==
  ASSUME CTypeOK, CallInv, NEW r \in Requests, Handles(r)
  PROVE  \/ heard' = heard /\ ~CallAt(r, "post", "done")'
         \/ /\ CallAt(r, "post", "broadcast") /\ CallAt(r, "post", "done")'
            /\ call'[r].v = call[r].v /\ call'[r].c = call[r].c
            /\ \A k \in Clients : heard'[k] =
                  IF k \in room[call[r].v] /\ conn[k] = "joined"
                  THEN heard[k] \cup {call[r].c} ELSE heard[k]
<1> USE DEF CallAt
<1>1. CASE PostBroadcast(r)
  <2>1. call'[r] = [op |-> call[r].op, at |-> "done", v |-> call[r].v, u |-> call[r].u,
                    c |-> call[r].c]
    BY <1>1, GoShape DEF PostBroadcast
  <2> QED
    BY <1>1, <2>1 DEF PostBroadcast
<1>2. ASSUME NEW v \in Videos, NEW u \in Users, PostInsert(r, v, u)
      PROVE heard' = heard /\ ~CallAt(r, "post", "done")'
  <2>1. PICK a \in {"broadcast", "error"}, c \in {0, nextId} : BeginCall(r, "post", a, v, u, c)
    BY <1>2, CallAnswered DEF PostInsert
  <2>2. call'[r] = [op |-> "post", at |-> a, v |-> v, u |-> u, c |-> c]
    BY <2>1, BeginShape
  <2> QED
    BY <1>2, <2>2 DEF PostInsert
<1>3. ASSUME NEW v \in Videos, NEW u \in Users, DropVideoFind(r, v, u)
      PROVE heard' = heard /\ ~CallAt(r, "post", "done")'
  <2>1. PICK x : BeginCall(r, "deleteVideo", x, v, u, 0)
    BY <1>3 DEF DropVideoFind
  <2>2. call'[r] = [op |-> "deleteVideo", at |-> x, v |-> v, u |-> u, c |-> 0]
    BY <2>1, BeginShape
  <2> QED
    BY <1>3, <2>2 DEF DropVideoFind
<1>4. ASSUME NEW v \in Videos, NEW u \in Users, NEW c \in Ids, DeleteFind(r, v, u, c)
      PROVE heard' = heard /\ ~CallAt(r, "post", "done")'
  <2>1. PICK x : BeginCall(r, "delete", x, v, u, c)
    BY <1>4 DEF DeleteFind
  <2>2. call'[r] = [op |-> "delete", at |-> x, v |-> v, u |-> u, c |-> c]
    BY <2>1, BeginShape
  <2> QED
    BY <1>4, <2>2 DEF DeleteFind
<1>5. CASE DeleteAsOwner(r) \/ DeleteRow(r) \/ DropVideoComments(r) \/ DropVideoRow(r)
  <2>1. heard' = heard /\ call[r].op \in {"delete", "deleteVideo"} /\ \E x : CallGo(r, x)
    BY <1>5, CallAnswered DEF DeleteAsOwner, DeleteRow, DropVideoComments, DropVideoRow
  <2>2. PICK x : CallGo(r, x)
    BY <2>1
  <2>3. call'[r] = [op |-> call[r].op, at |-> x, v |-> call[r].v, u |-> call[r].u,
                    c |-> call[r].c]
    BY <2>2, GoShape
  <2> QED
    BY <2>1, <2>3
<1>6. CASE CallThrows(r)
  <2>1. call'[r] = [op |-> call[r].op, at |-> "error", v |-> call[r].v, u |-> call[r].u,
                    c |-> call[r].c]
    BY <1>6, GoShape DEF CallThrows
  <2> QED
    BY <1>6, <2>1 DEF CallThrows
<1> QED
  BY <1>1, <1>2, <1>3, <1>4, <1>5, <1>6 DEF Handles

(* A handler that has answered is over.                                    *)
LEMMA DoneStays ==
  ASSUME NEW r \in Requests, CallAt(r, "post", "done") PROVE ~Handles(r)
<1> USE DEF CallAt
<1>1. call[r] # NoCall
  BY DEF NoCall
<1>2. \A o, x, v, u, c : ~BeginCall(r, o, x, v, u, c)
  BY <1>1 DEF BeginCall
<1>3. ~CallThrows(r)
  BY DEF CallThrows, CallSteps
<1>4. ~(PostBroadcast(r) \/ DeleteAsOwner(r) \/ DeleteRow(r) \/ DropVideoComments(r)
        \/ DropVideoRow(r))
  BY DEF PostBroadcast, DeleteAsOwner, DeleteRow, DropVideoComments, DropVideoRow
<1>5. \A v \in Videos, u \in Users : ~PostInsert(r, v, u) /\ ~DropVideoFind(r, v, u)
  BY <1>2 DEF PostInsert, DropVideoFind
<1>6. \A v \in Videos, u \in Users, c \in Ids : ~DeleteFind(r, v, u, c)
  BY <1>2 DEF DeleteFind
<1> QED
  BY <1>3, <1>4, <1>5, <1>6 DEF Handles

LEMMA HearStep ==
  ASSUME CInv, CTypeOK', NEW r \in Requests, Handles(r), OtherCalls(r), Forward
  PROVE  HeardWasPosted' /\ EveryoneHears'
<1> USE DEF CInv
<1>1. UNCHANGED <<conn, ctx, watch>>
  BY HandlesLeave
<1>4. \A c \in Ids : c < nextId => c < nextId'
  <2>1. nextId \in Nat /\ nextId' \in Nat /\ nextId' >= nextId /\ Ids \subseteq Nat
    BY CommentAssumption DEF CTypeOK, Forward, Ids
  <2> QED
    BY <2>1
<1>5. \A k \in Clients : heard[k] \subseteq Ids
  BY DEF CTypeOK
<1>2. CASE heard' = heard /\ ~CallAt(r, "post", "done")'
  <2>1. ASSUME NEW q \in Requests, CallAt(q, "post", "done")'
        PROVE CallAt(q, "post", "done") /\ call'[q] = call[q] /\ q # r /\ meant'[q] = meant[q]
    <3>1. q # r /\ call'[q] = call[q] /\ CallAt(q, "post", "done")
      BY <1>2, <2>1 DEF OtherCalls, CallAt
    <3> QED
      BY <2>1, <3>1, PostingStep DEF Posting, CallAt
  <2>2. ASSUME NEW q \in Requests, CallAt(q, "post", "done")
        PROVE CallAt(q, "post", "done")' /\ call'[q] = call[q]
    <3>1. q # r
      BY <2>2, DoneStays
    <3> QED
      BY <2>2, <3>1 DEF OtherCalls, CallAt
  <2>3. HeardWasPosted'
    <3> SUFFICES ASSUME NEW k \in Clients, NEW c \in heard[k]
                 PROVE /\ c < nextId'
                       /\ \E q \in Requests : /\ CallAt(q, "post", "done")'
                                              /\ call'[q].c = c /\ call'[q].v = watch'[k]
      BY <1>2 DEF HeardWasPosted
    <3>1. PICK q \in Requests : /\ CallAt(q, "post", "done")
                                /\ call[q].c = c /\ call[q].v = watch[k]
      BY DEF HeardWasPosted
    <3>2. c < nextId'
      BY <1>4, <1>5 DEF HeardWasPosted
    <3> QED
      BY <1>1, <2>2, <3>1, <3>2
  <2>4. EveryoneHears'
    BY <1>1, <1>2, <2>1 DEF EveryoneHears
  <2> QED
    BY <2>3, <2>4
<1>3. CASE /\ CallAt(r, "post", "broadcast") /\ CallAt(r, "post", "done")'
           /\ call'[r].v = call[r].v /\ call'[r].c = call[r].c
           /\ \A k \in Clients : heard'[k] =
                 IF k \in room[call[r].v] /\ conn[k] = "joined"
                 THEN heard[k] \cup {call[r].c} ELSE heard[k]
  <2>1. call[r].v \in Videos /\ call[r].c < nextId
    BY <1>3 DEF CallInv, CallOK, Posting, CallAt
  <2>2. \A k \in room[call[r].v] : watch[k] = call[r].v
    BY <2>1, CommentAssumption DEF RoomsMatch, ConnInv
  <2>3. ASSUME NEW q \in Requests, q # r
        PROVE /\ call'[q] = call[q] /\ CallAt(q, "post", "done")' = CallAt(q, "post", "done")
              /\ CallAt(q, "post", "done")' => meant'[q] = meant[q]
    <3>1. call'[q] = call[q]
      BY <2>3 DEF OtherCalls
    <3>2. CallAt(q, "post", "done")' = CallAt(q, "post", "done")
      BY <3>1 DEF CallAt
    <3>3. CallAt(q, "post", "done")' => meant'[q] = meant[q]
      BY <3>1, PostingStep DEF CallAt, Posting
    <3> QED
      BY <3>1, <3>2, <3>3
  <2>4. meant'[r] = meant[r]
    BY <1>3, PostingStep DEF CallAt, Posting
  <2>5. HeardWasPosted'
    <3> SUFFICES ASSUME NEW k \in Clients, NEW c \in heard'[k]
                 PROVE /\ c < nextId'
                       /\ \E q \in Requests : /\ CallAt(q, "post", "done")'
                                              /\ call'[q].c = c /\ call'[q].v = watch'[k]
      BY DEF HeardWasPosted
    <3>1. CASE c \in heard[k]
      <4>1. PICK q \in Requests : /\ CallAt(q, "post", "done")
                                  /\ call[q].c = c /\ call[q].v = watch[k]
        BY <3>1 DEF HeardWasPosted
      <4>2. q # r
        BY <1>3, <4>1 DEF CallAt
      <4>3. c < nextId'
        BY <1>4, <1>5, <3>1 DEF HeardWasPosted
      <4> QED
        BY <1>1, <2>3, <4>1, <4>2, <4>3
    <3>2. CASE c \notin heard[k]
      <4>1. k \in room[call[r].v] /\ c = call[r].c
        BY <1>3, <3>2
      <4>2. c \in Ids
        BY <1>3, <4>1 DEF CallInv, CallOK, Posting, CallAt
      <4>3. c < nextId'
        BY <1>4, <2>1, <4>1, <4>2
      <4> QED
        BY <1>1, <1>3, <2>2, <4>1, <4>3
    <3> QED
      BY <3>1, <3>2
  <2>6. EveryoneHears'
    <3> SUFFICES ASSUME NEW q \in Requests, CallAt(q, "post", "done")',
                        NEW k \in meant'[q], conn'[k] = "joined"
                 PROVE call'[q].c \in heard'[k]
      BY DEF EveryoneHears
    <3>1. CASE q = r
      <4>1. k \in meant[r] /\ k \in Clients
        BY <2>4, <3>1 DEF CTypeOK
      <4>2. watch[k] = call[r].v /\ conn[k] = "joined"
        BY <1>1, <1>3, <4>1 DEF MeantInv, Posting, CallAt
      <4>3. k \in room[call[r].v]
        BY <2>1, <4>1, <4>2 DEF RoomsMatch, ConnInv
      <4> QED
        BY <1>3, <3>1, <4>1, <4>2, <4>3
    <3>2. CASE q # r
      <4>1. k \in meant[q] /\ k \in Clients /\ CallAt(q, "post", "done") /\ call'[q] = call[q]
        BY <2>3, <3>2 DEF CTypeOK
      <4>2. call[q].c \in heard[k]
        BY <1>1, <4>1 DEF EveryoneHears
      <4> QED
        BY <1>3, <4>1, <4>2
    <3> QED
      BY <3>1, <3>2
  <2> QED
    BY <2>5, <2>6
<1> QED
  BY <1>2, <1>3, HeardStep

(* What is heard, by a step of a client.                                   *)
LEMMA WatchesConn ==
  ASSUME CTypeOK, NEW k \in Clients, Watches(k)
  PROVE  \A l \in Clients :
            /\ conn[l] \in {"joined", "closing", "closed"}
                  => conn'[l] \in {"joined", "closing", "closed"}
            /\ conn'[l] = "joined" => conn[l] \in {"joined", "context"}
<1>1. CASE conn' = conn
  BY <1>1
<1>2. CASE Connect(k)
  BY <1>2 DEF Connect, CTypeOK
<1>3. CASE Enter(k)
  BY <1>3 DEF Enter, CTypeOK
<1>4. CASE Drops(k) \/ Leave(k)
  BY <1>4 DEF Drops, Leave, CTypeOK
<1> QED
  BY <1>1, <1>2, <1>3, <1>4 DEF Watches, FetchCount, FetchRead, FetchThrows, hub

LEMMA WatchesFetch ==
  ASSUME CTypeOK, NEW k \in Clients, Watches(k), NEW l \in Clients
  PROVE  \/ l = k /\ FetchRead(k)
         \/ after'[l] = after[l] /\ fetched'[l] = fetched[l]
<1>1. CASE FetchRead(k) /\ l # k
  BY <1>1, Zenon DEF FetchRead, CTypeOK
<1>2. CASE ~FetchRead(k)
  BY <1>2 DEF Watches, FetchCount, FetchThrows, Connect, Enter, Drops, Leave, client
<1> QED
  BY <1>1, <1>2

LEMMA WatchesHear ==
  ASSUME CInv, NEW k \in Clients, Watches(k)
  PROVE  MeantInv' /\ MissInv' /\ HeardWasPosted' /\ EveryoneHears'
<1>0. /\ CTypeOK /\ MeantInv /\ MissInv /\ HeardWasPosted /\ EveryoneHears
      /\ CallInv /\ ConnInv
  BY DEF CInv
<1>1. /\ comment' = comment /\ nextId' = nextId /\ call' = call
      /\ watch' = watch /\ heard' = heard /\ meant' = meant
  BY WatchesLeave
<1>2. \A q \in Requests : meant[q] \subseteq Clients
  BY <1>0 DEF CTypeOK
<1>3. HeardWasPosted'
  BY <1>0, <1>1 DEF HeardWasPosted, CallAt
<1>4. \A l \in Clients :
         /\ conn[l] \in {"joined", "closing", "closed"}
               => conn'[l] \in {"joined", "closing", "closed"}
         /\ conn'[l] = "joined" => conn[l] \in {"joined", "context"}
  BY <1>0, WatchesConn
<1>5. MeantInv'
  <2> SUFFICES ASSUME NEW q \in Requests, Posting(q)', NEW l \in meant'[q]
               PROVE watch'[l] = call'[q].v /\ conn'[l] \in {"joined", "closing", "closed"}
    BY DEF MeantInv
  <2>1. Posting(q) /\ l \in meant[q] /\ l \in Clients
    BY <1>1, <1>2 DEF Posting
  <2>2. watch[l] = call[q].v /\ conn[l] \in {"joined", "closing", "closed"}
    BY <1>0, <2>1 DEF MeantInv
  <2> QED
    BY <1>1, <1>4, <2>1, <2>2
<1>6. EveryoneHears'
  <2> SUFFICES ASSUME NEW q \in Requests, CallAt(q, "post", "done")',
                      NEW l \in meant'[q], conn'[l] = "joined"
               PROVE call'[q].c \in heard'[l]
    BY DEF EveryoneHears
  <2>1. CallAt(q, "post", "done") /\ l \in meant[q] /\ l \in Clients
    BY <1>1, <1>2 DEF CallAt
  <2>2. conn[l] \in {"joined", "closing", "closed"}
    BY <1>0, <2>1 DEF MeantInv, Posting, CallAt
  <2>3. conn[l] = "joined"
    BY <1>4, <2>1, <2>2
  <2> QED
    BY <1>0, <1>1, <2>1, <2>3 DEF EveryoneHears
<1>7. MissInv'
  <2> SUFFICES ASSUME NEW l \in Clients, after'[l] /\ conn'[l] = "joined",
                      NEW q \in Requests, Posting(q)' /\ call'[q].v = watch'[l]
               PROVE \/ comment'[call'[q].c] = NoRow
                     \/ call'[q].c \in fetched'[l]
                     \/ l \in meant'[q]
    BY DEF MissInv
  <2>1. Posting(q) /\ call[q].v = watch[l]
    BY <1>1 DEF Posting
  <2>2. CASE l = k /\ FetchRead(k)
    <3>1. fetched'[l] = CommentsOf(watch[l])
      BY <1>0, <2>2 DEF FetchRead, CTypeOK
    <3>2. call[q].c \in Ids /\ (comment[call[q].c] # NoRow => comment[call[q].c].v = call[q].v)
      BY <1>0, <2>1 DEF CallInv, CallOK
    <3> QED
      BY <1>1, <2>1, <3>1, <3>2 DEF CommentsOf
  <2>3. CASE after'[l] = after[l] /\ fetched'[l] = fetched[l]
    <3>1. after[l] /\ conn[l] \in {"joined", "context"}
      BY <1>4, <2>3
    <3>2. conn[l] = "joined"
      BY <1>0, <3>1 DEF ConnInv
    <3>3. \/ comment[call[q].c] = NoRow
          \/ call[q].c \in fetched[l]
          \/ l \in meant[q]
      BY <1>0, <2>1, <3>1, <3>2 DEF MissInv
    <3> QED
      BY <1>1, <2>3, <3>3
  <2> QED
    BY <1>0, <2>2, <2>3, WatchesFetch
<1> QED
  BY <1>3, <1>5, <1>6, <1>7

-----------------------------------------------------------------------------
LEMMA CInvStep == ASSUME CInv, [CNext]_cvars PROVE CInv'
<1>1. CTypeOK'
  BY CTypeStep DEF CInv
<1>2. ASSUME NEW r \in Requests, Handles(r) PROVE CInv'
  <2>1. Forward
    BY <1>2, ForwardStep DEF CInv
  <2>2. CallOK(r)' /\ OtherCalls(r)
    BY <1>1, <1>2, <2>1, OwnStep DEF CInv
  <2>3. CallInv'
    <3>1. ASSUME NEW q \in Requests, q # r PROVE CallOK(q)'
      BY <1>1, <2>1, <2>2, <3>1, ForwardKeeps DEF CInv, CallInv, OtherCalls
    <3> QED
      BY <2>2, <3>1 DEF CallInv
  <2>4. FreshIds' /\ CommentHasVideo'
    BY <1>1, <1>2, <2>1, FreshStep, VideoStep DEF CInv
  <2>5. ConnInv' /\ RoomsMatch'
    <3>1. UNCHANGED <<open, room, conn, ctx, watch, after>>
      BY <1>2, HandlesLeave
    <3> QED
      BY <3>1 DEF CInv, ConnInv, RoomsMatch
  <2>6. MeantInv' /\ MissInv'
    BY <1>2, <2>1, <2>2, MeantStep, MissStep DEF CInv
  <2>7. HeardWasPosted' /\ EveryoneHears'
    BY <1>1, <1>2, <2>1, <2>2, HearStep
  <2> QED
    BY <1>1, <2>3, <2>4, <2>5, <2>6, <2>7 DEF CInv
<1>3. ASSUME NEW k \in Clients, Watches(k) PROVE CInv'
  <2>1. UNCHANGED <<uploader, comment, nextId, call, watch, heard, meant>>
    BY <1>3, WatchesLeave
  <2>2. FreshIds' /\ CommentHasVideo'
    BY <2>1 DEF CInv, FreshIds, CommentHasVideo
  <2>3. CallInv'
    BY <2>1 DEF CInv, CallInv, CallOK, Posting, Deleting, Dropping
  <2>4. ConnInv' /\ RoomsMatch'
    BY <1>1, <1>3, ConnStep, RoomsStep DEF CInv
  <2>5. MeantInv' /\ MissInv' /\ HeardWasPosted' /\ EveryoneHears'
    BY <1>3, WatchesHear
  <2> QED
    BY <1>1, <2>2, <2>3, <2>4, <2>5 DEF CInv
<1>4. CASE UNCHANGED cvars
  <2>1. /\ UNCHANGED <<uploader, comment, nextId, call, watch, heard, meant>>
        /\ UNCHANGED <<open, room, conn, ctx, fetch, fetched, after>>
    BY <1>4 DEF cvars, rows, hub, client
  <2>2. FreshIds' /\ CommentHasVideo' /\ ConnInv' /\ RoomsMatch'
    BY <2>1 DEF CInv, FreshIds, CommentHasVideo, ConnInv, RoomsMatch
  <2>3. CallInv'
    BY <2>1 DEF CInv, CallInv, CallOK, Posting, Deleting, Dropping
  <2>4. MeantInv' /\ MissInv' /\ HeardWasPosted' /\ EveryoneHears'
    BY <2>1 DEF CInv, MeantInv, MissInv, HeardWasPosted, EveryoneHears, Posting, CallAt
  <2> QED
    BY <1>1, <2>2, <2>3, <2>4 DEF CInv
<1> QED
  BY <1>2, <1>3, <1>4 DEF CNext

LEMMA CInvHolds == CSpec => []CInv
<1>1. CInit => CInv
  <2> SUFFICES ASSUME CInit PROVE CInv
    OBVIOUS
  <2> USE CommentAssumption
  <2>1. CTypeOK
    BY DEF CInit, CTypeOK, NoRow, NoCall, Ids
  <2>2. FreshIds /\ CommentHasVideo /\ ConnInv /\ RoomsMatch /\ HeardWasPosted
    BY DEF CInit, FreshIds, CommentHasVideo, ConnInv, RoomsMatch, HeardWasPosted
  <2>3. \A r \in Requests : call[r].op = "none"
    BY DEF CInit, NoCall
  <2>4. CallInv /\ MeantInv /\ MissInv /\ EveryoneHears
    BY <2>3 DEF CallInv, CallOK, MeantInv, MissInv, EveryoneHears, Posting, Deleting,
       Dropping, CallAt
  <2> QED
    BY <2>1, <2>2, <2>4 DEF CInv
<1>2. CInv /\ [CNext]_cvars => CInv'
  BY CInvStep
<1> QED
  BY <1>1, <1>2, PTL DEF CSpec

(* Tables, requests, rooms and connections keep their types.               *)
THEOREM CommentsTypeCorrect == CSpec => []CTypeOK
BY CInvHolds, PTL DEF CInv

(* However joining, leaving and broadcasting interleave on any number of   *)
(* connections, rooms holds exactly those whose close handler is to come,  *)
(* and no empty room.                                                      *)
THEOREM RoomsAreExact == CSpec => []RoomsMatch
BY CInvHolds, PTL DEF CInv

(* No comment outlives its video, even one that is posted between the two  *)
(* deletions of deleteVideo.                                               *)
THEOREM CommentsHaveVideos == CSpec => []CommentHasVideo
BY CInvHolds, PTL DEF CInv

(* Nobody who reads along misses a comment or is told one that is not      *)
(* stored, although storing, sending and reading are steps of their own.   *)
THEOREM EverybodyHears == CSpec => []HearingIsRight
<1>1. CInv => HearingIsRight
  <2> SUFFICES ASSUME CInv PROVE HearingIsRight
    OBVIOUS
  <2>1. NothingMissed
    BY DEF CInv, MissInv, EveryoneHears, NothingMissed, Posting, CallAt
  <2> QED
    BY <2>1 DEF CInv, HearingIsRight
<1> QED
  BY <1>1, CInvHolds, PTL

-----------------------------------------------------------------------------
(* Who takes a comment.                                                    *)
ByRight(c) ==
    \E r \in Requests :
       \/ CallAt(r, "delete", "delete") /\ call[r].c = c
          /\ call[r].u \in {comment[c].u, uploader[comment[c].v]}
       \/ call[r].op = "deleteVideo" /\ call[r].at \in {"comments", "row"}
          /\ call[r].v = comment[c].v /\ call[r].u = uploader[call[r].v]

LEMMA RightStep ==
  ASSUME CInv, CNext, NEW c \in Ids, comment[c] # NoRow, comment'[c] = NoRow PROVE ByRight(c)
<1> USE CommentAssumption DEF CInv
<1>1. PICK r \in Requests : Handles(r)
  BY WatchesLeave DEF CNext
<1>2. CASE DeleteRow(r)
  <2>1. c = call[r].c
    BY <1>2, WithoutType DEF DeleteRow
  <2>2. call[r].op = "delete" /\ call[r].at = "delete"
    BY <1>2 DEF DeleteRow, CallAt
  <2>3. comment[c].v = call[r].v /\ call[r].u \in {comment[c].u, uploader[call[r].v]}
    BY <2>1, <2>2 DEF CallInv, CallOK, Deleting
  <2> QED
    BY <2>1, <2>2, <2>3 DEF ByRight, CallAt
<1>3. CASE DropVideoComments(r) \/ DropVideoRow(r)
  <2>1. comment[c].v = call[r].v
    BY <1>3, WithoutType DEF DropVideoComments, DropVideoRow, CommentsOf
  <2>2. call[r].op = "deleteVideo" /\ call[r].at \in {"comments", "row"}
    BY <1>3 DEF DropVideoComments, DropVideoRow, CallAt
  <2>3. uploader[call[r].v] # None
    BY <2>1 DEF CommentHasVideo
  <2>4. uploader[call[r].v] = call[r].u
    BY <2>2, <2>3 DEF CallInv, CallOK, Dropping
  <2> QED
    BY <2>1, <2>2, <2>4 DEF ByRight
<1>4. ASSUME NEW v \in Videos, NEW u \in Users, PostInsert(r, v, u) PROVE FALSE
  <2>1. comment \in [Ids -> RowType] /\ nextId \in Ids
    BY <1>4 DEF PostInsert, CTypeOK, RowType
  <2>2. [v |-> v, u |-> u] # NoRow
    BY DEF NoRow
  <2>3. comment' = comment \/ comment' = [comment EXCEPT ![nextId] = [v |-> v, u |-> u]]
    BY <1>4 DEF PostInsert
  <2> HIDE DEF CInv
  <2> QED
    BY <2>1, <2>2, <2>3
<1>5. CASE comment' = comment
  BY <1>5
<1> QED
  BY <1>1, <1>2, <1>3, <1>4, <1>5
  DEF Handles, DropVideoFind, DeleteFind, PostBroadcast, DeleteAsOwner, CallThrows, rows

(* A comment goes only by its author or by the owner of its video; what    *)
(* the handler has read of either before it deletes is still true then.    *)
THEOREM DeletionsAreByRight == CSpec => DeletedByRight
<1>1. CInv /\ [CNext]_cvars =>
         [\A c \in Ids : comment[c] # NoRow /\ comment'[c] = NoRow => ByRight(c)]_cvars
  BY RightStep
<1> QED
  BY <1>1, CInvHolds, PTL DEF CSpec, DeletedByRight, ByRight

-----------------------------------------------------------------------------
(* Each part starts as it does on its own, and a step is one of a part and *)
(* leaves the other alone.                                                 *)
LEMMA PartsStart == CommunityInit => EInit /\ CInit
BY DEF CommunityInit

LEMMA PartsStep ==
  ASSUME [CommunityNext]_<<part, evars, cvars>>
  PROVE  [ENext]_evars /\ [CNext]_cvars
<1>1. (\E r \in Requests : Posts(r)) => \E r \in Requests : Handles(r)
  BY DEF Posts
<1> QED
  BY <1>1 DEF CommunityNext, CNext

(* A behaviour of both is one of Engagement and one of CommentRooms, so    *)
(* that what is proved of either holds for them together.                  *)
THEOREM CommunityIsBoth == CommunitySpec => ESpec /\ CSpec
BY PartsStart, PartsStep, PTL DEF CommunitySpec, ESpec, CSpec

(* Every variable of the likes, the tags, the comments and the rooms keeps *)
(* its type, for any number of requests and clients and any faults.        *)
THEOREM CommunityTypeCorrect == CommunitySpec => []CommunityTypeOK
<1>1. ETypeOK /\ CTypeOK => CommunityTypeOK
  BY DEF CommunityTypeOK
<1> QED
  BY <1>1, CommunityIsBoth, EngagementTypeCorrect, CommentsTypeCorrect, PTL
=============================================================================
