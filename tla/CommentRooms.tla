------------------------------ MODULE CommentRooms ------------------------------
(***************************************************************************)
(* Comments: the table, the handlers of api_comments.cpp, and the rooms of *)
(* websocket_comments.cpp through which a posted comment reaches the       *)
(* clients that watch the video.                                           *)
(*                                                                         *)
(* A handler runs as one process per request, one action per co_await; the *)
(* handlers of a WebSocket connection run one after the other, one action  *)
(* per critical section of mtx_.  A client watches one video: it opens a   *)
(* connection and reads the comments, in either order.                     *)
(*                                                                         *)
(* External, as the code uses it: MySQL (see Engagement); drogon calls the *)
(* close handler once, after the handler that was running, and send() on a *)
(* connection whose peer has gone does nothing.                            *)
(***************************************************************************)
EXTENDS Backend, Naturals

CONSTANTS Clients,
          MaxComment      \* bound: ids of the table comments

ASSUME CommentAssumption ==
    /\ MaxComment \in Nat
    /\ None \notin Users /\ None \notin Videos

VARIABLES uploader,   \* uploader[v]: videos.user_id, None if there is no row
          comment,    \* comment[c]: video and user of the row c
          nextId,     \* AUTO_INCREMENT of comments
          call,       \* call[r]: a request and how far its handler is
          open, room, \* the keys of rooms, and who is in each
          conn, ctx,  \* conn[k], ctx[k]: a connection and its context
          watch,      \* watch[k]: the video its client is about
          heard,      \* heard[k]: the comments sent to it
          fetch,      \* fetch[k]: how far getComments is for the client
          fetched,    \* fetched[k]: its answer
          after,      \* history: after[k]: it was in its room at that time
          meant       \* history: meant[r]: who was in the room when r inserted

rows == <<uploader, comment, nextId>>
hub == <<open, room, conn, ctx>>
client == <<watch, fetch, fetched, after>>
cvars == <<rows, call, hub, client, heard, meant>>

Ids == 1..MaxComment
NoRow == [v |-> None, u |-> None]
NoCall == [op |-> "none", at |-> "idle", v |-> None, u |-> None, c |-> 0]
CallSteps == {"broadcast", "owner", "delete", "comments", "row"}

CTypeOK ==
    /\ uploader \in [Videos -> Users \cup {None}]
    /\ comment \in [Ids -> [v: Videos \cup {None}, u: Users \cup {None}]]
    /\ nextId \in 1..(MaxComment + 1)
    /\ call \in [Requests ->
          [op: {"none", "post", "delete", "deleteVideo"},
           at: CallSteps \cup {"idle", "done", "missing", "refused", "error"},
           v: Videos \cup {None}, u: Users \cup {None}, c: 0..MaxComment]]
    /\ open \subseteq Videos
    /\ room \in [Videos -> SUBSET Clients]
    /\ conn \in [Clients -> {"new", "context", "joined", "closing", "closed"}]
    /\ ctx \in [Clients -> Videos \cup {None}]
    /\ watch \in [Clients -> Videos]
    /\ heard \in [Clients -> SUBSET Ids]
    /\ fetch \in [Clients -> {"none", "counted", "done"}]
    /\ fetched \in [Clients -> SUBSET Ids]
    /\ after \in [Clients -> BOOLEAN]
    /\ meant \in [Requests -> SUBSET Clients]

CInit ==
    /\ uploader \in [Videos -> Users \cup {None}]
    /\ comment = [c \in Ids |-> NoRow]
    /\ nextId = 1
    /\ call = [r \in Requests |-> NoCall]
    /\ open = {}
    /\ room = [v \in Videos |-> {}]
    /\ conn = [k \in Clients |-> "new"]
    /\ ctx = [k \in Clients |-> None]
    /\ watch \in [Clients -> Videos]
    /\ heard = [k \in Clients |-> {}]
    /\ fetch = [k \in Clients |-> "none"]
    /\ fetched = [k \in Clients |-> {}]
    /\ after = [k \in Clients |-> FALSE]
    /\ meant = [r \in Requests |-> {}]

-----------------------------------------------------------------------------
BeginCall(r, o, x, v, u, c) ==
    /\ call[r] = NoCall
    /\ call' = [call EXCEPT ![r] = [op |-> o, at |-> x, v |-> v, u |-> u, c |-> c]]

CallAt(r, o, x) == call[r].op = o /\ call[r].at = x

CallGo(r, x) ==
    call' = [call EXCEPT ![r] = [op |-> call[r].op, at |-> x, v |-> call[r].v,
                               u |-> call[r].u, c |-> call[r].c]]

CommentsOf(v) == {c \in Ids : comment[c].v = v}
Without(S) == [c \in Ids |-> IF c \in S THEN NoRow ELSE comment[c]]

(* A query or a statement throws before it does anything; nothing throws   *)
(* once the comment is inserted.                                           *)
CallThrows(r) ==
    /\ "db" \in Faults
    /\ call[r].at \in CallSteps \ {"broadcast"}
    /\ CallGo(r, "error")
    /\ UNCHANGED <<rows, hub, client, heard, meant>>

-----------------------------------------------------------------------------
(* postComment                                                             *)

PostInsert(r, v, u) ==
    /\ nextId \in Ids
    /\ \/ /\ uploader[v] # None
          /\ comment' = [comment EXCEPT ![nextId] = [v |-> v, u |-> u]]
          /\ nextId' = nextId + 1
          /\ meant' = [meant EXCEPT ![r] = room[v]]
          /\ \E a \in Written("broadcast") : BeginCall(r, "post", a, v, u, nextId)
       \/ /\ uploader[v] = None
          /\ BeginCall(r, "post", "error", v, u, 0)
          /\ UNCHANGED <<comment, nextId, meant>>
    /\ UNCHANGED <<uploader, hub, client, heard>>

(* broadcastToRoom holds mtx_ while it sends to everybody in the room.     *)
PostBroadcast(r) ==
    /\ CallAt(r, "post", "broadcast")
    /\ heard' = [k \in Clients |->
                   IF k \in room[call[r].v] /\ conn[k] = "joined"
                     THEN heard[k] \cup {call[r].c} ELSE heard[k]]
    /\ CallGo(r, "done")
    /\ UNCHANGED <<rows, hub, client, meant>>

-----------------------------------------------------------------------------
(* deleteComment                                                           *)

(* Slip: the comment is taken for one of the video asked for.              *)
DeleteFindAnywhere(r, v, u, c) ==
    /\ BeginCall(r, "delete", CASE comment[c] = NoRow -> "missing"
                            [] comment[c].u = u -> "delete"
                            [] OTHER -> "owner", v, u, c)
    /\ UNCHANGED <<rows, hub, client, heard, meant>>

DeleteFind(r, v, u, c) ==
    /\ BeginCall(r, "delete", CASE comment[c].v # v -> "missing"
                            [] comment[c] = [v |-> v, u |-> u] -> "delete"
                            [] OTHER -> "owner", v, u, c)
    /\ UNCHANGED <<rows, hub, client, heard, meant>>

DeleteAsOwner(r) ==
    /\ CallAt(r, "delete", "owner")
    /\ CallGo(r, IF uploader[call[r].v] = call[r].u THEN "delete" ELSE "refused")
    /\ UNCHANGED <<rows, hub, client, heard, meant>>

DeleteRow(r) ==
    /\ CallAt(r, "delete", "delete")
    /\ comment' = Without({call[r].c})
    /\ \E a \in Written(IF comment[call[r].c] = NoRow THEN "error" ELSE "done") : CallGo(r, a)
    /\ UNCHANGED <<uploader, nextId, hub, client, heard, meant>>

-----------------------------------------------------------------------------
(* deleteVideo, as far as comments see it.                                 *)

DropVideoFind(r, v, u) ==
    /\ BeginCall(r, "deleteVideo", CASE uploader[v] = None -> "missing"
                                 [] uploader[v] = u -> "comments"
                                 [] OTHER -> "refused", v, u, 0)
    /\ UNCHANGED <<rows, hub, client, heard, meant>>

DropVideoComments(r) ==
    /\ CallAt(r, "deleteVideo", "comments")
    /\ comment' = Without(CommentsOf(call[r].v))
    /\ \E a \in Written("row") : CallGo(r, a)
    /\ UNCHANGED <<uploader, nextId, hub, client, heard, meant>>

(* Slip: no ON DELETE CASCADE.                                             *)
DropRowOnly(r) ==
    /\ CallAt(r, "deleteVideo", "row")
    /\ uploader' = [uploader EXCEPT ![call[r].v] = None]
    /\ \E a \in Written("done") : CallGo(r, a)
    /\ UNCHANGED <<comment, nextId, hub, client, heard, meant>>

(* The row goes, and what was posted meanwhile by ON DELETE CASCADE.       *)
DropVideoRow(r) ==
    /\ CallAt(r, "deleteVideo", "row")
    /\ uploader' = [uploader EXCEPT ![call[r].v] = None]
    /\ comment' = Without(CommentsOf(call[r].v))
    /\ \E a \in Written("done") : CallGo(r, a)
    /\ UNCHANGED <<nextId, hub, client, heard, meant>>

-----------------------------------------------------------------------------
(* getComments: is there a video, then its comments.  A client that is     *)
(* told there is none, or gets an error, is where it was.                  *)

FetchCount(k) ==
    /\ fetch[k] = "none"
    /\ uploader[watch[k]] # None
    /\ fetch' = [fetch EXCEPT ![k] = "counted"]
    /\ UNCHANGED <<rows, call, hub, watch, fetched, after, heard, meant>>

FetchRead(k) ==
    /\ fetch[k] = "counted"
    /\ fetch' = [fetch EXCEPT ![k] = "done"]
    /\ fetched' = [fetched EXCEPT ![k] = CommentsOf(watch[k])]
    /\ after' = [after EXCEPT ![k] = (conn[k] = "joined")]
    /\ UNCHANGED <<rows, call, hub, watch, heard, meant>>

FetchThrows(k) ==
    /\ "db" \in Faults
    /\ fetch[k] = "counted"
    /\ fetch' = [fetch EXCEPT ![k] = "none"]
    /\ UNCHANGED <<rows, call, hub, watch, fetched, after, heard, meant>>

-----------------------------------------------------------------------------
(* The connections                                                         *)

(* handleNewConnection: the query names the video, or it is closed again.  *)
Connect(k) ==
    /\ conn[k] = "new"
    /\ \/ /\ conn' = [conn EXCEPT ![k] = "context"]
          /\ ctx' = [ctx EXCEPT ![k] = watch[k]]
       \/ /\ conn' = [conn EXCEPT ![k] = "closing"]
          /\ ctx' = ctx
    /\ UNCHANGED <<rows, call, open, room, client, heard, meant>>

(* Slip: emplace() leaves a room that exists as it is.                     *)
EnterNewRoom(k) ==
    /\ conn[k] = "context"
    /\ conn' = [conn EXCEPT ![k] = "joined"]
    /\ open' = open \cup {ctx[k]}
    /\ room' = IF ctx[k] \in open THEN room ELSE [room EXCEPT ![ctx[k]] = {k}]
    /\ UNCHANGED <<rows, call, ctx, client, heard, meant>>

Enter(k) ==
    /\ conn[k] = "context"
    /\ conn' = [conn EXCEPT ![k] = "joined"]
    /\ open' = open \cup {ctx[k]}
    /\ room' = [room EXCEPT ![ctx[k]] = @ \cup {k}]
    /\ UNCHANGED <<rows, call, ctx, client, heard, meant>>

(* The peer goes, or sends a message and is closed by handleNewMessage.    *)
Drops(k) ==
    /\ conn[k] = "joined"
    /\ conn' = [conn EXCEPT ![k] = "closing"]
    /\ UNCHANGED <<rows, call, open, room, ctx, client, heard, meant>>

(* Slip: the empty room stays.                                             *)
LeaveKeepsRoom(k) ==
    /\ conn[k] = "closing"
    /\ conn' = [conn EXCEPT ![k] = "closed"]
    /\ room' = [v \in Videos |-> room[v] \ {k}]
    /\ UNCHANGED <<rows, call, open, ctx, client, heard, meant>>

(* handleConnectionClosed                                                  *)
Leave(k) ==
    /\ conn[k] = "closing"
    /\ conn' = [conn EXCEPT ![k] = "closed"]
    /\ \/ /\ ctx[k] = None
          /\ UNCHANGED <<open, room>>
       \/ /\ ctx[k] # None
          /\ room' = [room EXCEPT ![ctx[k]] = @ \ {k}]
          /\ open' = IF room[ctx[k]] \subseteq {k} THEN open \ {ctx[k]} ELSE open
    /\ UNCHANGED <<rows, call, ctx, client, heard, meant>>

-----------------------------------------------------------------------------
Handles(r) ==
    \/ \E v \in Videos, u \in Users : PostInsert(r, v, u) \/ DropVideoFind(r, v, u)
    \/ \E v \in Videos, u \in Users, c \in Ids : DeleteFind(r, v, u, c)
    \/ PostBroadcast(r)
    \/ DeleteAsOwner(r) \/ DeleteRow(r)
    \/ DropVideoComments(r) \/ DropVideoRow(r)
    \/ CallThrows(r)

Watches(k) ==
    \/ FetchCount(k) \/ FetchRead(k) \/ FetchThrows(k)
    \/ Connect(k) \/ Enter(k) \/ Drops(k) \/ Leave(k)

CNext == (\E r \in Requests : Handles(r)) \/ (\E k \in Clients : Watches(k))

CSpec == CInit /\ [][CNext]_cvars

-----------------------------------------------------------------------------
(* Properties                                                              *)

(* rooms holds exactly the connections whose close handler has not run     *)
(* yet, each in the room of its own context, and no empty room is kept:    *)
(* nothing leaks however joining, leaving and broadcasting interleave.     *)
RoomsMatch ==
    /\ \A v \in Videos : room[v] =
          {k \in Clients : ctx[k] = v /\ conn[k] \in {"joined", "closing"}}
    /\ open = {v \in Videos : room[v] # {}}

(* What a connection is sent was stored first, and for its own video.      *)
HeardWasPosted ==
    \A k \in Clients : \A c \in heard[k] :
       /\ c < nextId
       /\ \E r \in Requests : /\ CallAt(r, "post", "done")
                              /\ call[r].c = c /\ call[r].v = watch[k]

(* Whoever was in the room when a comment was stored and is still there    *)
(* when its author has the answer has been sent it.                        *)
EveryoneHears ==
    \A r \in Requests : CallAt(r, "post", "done") =>
       \A k \in meant[r] : conn[k] = "joined" => call[r].c \in heard[k]

(* A client that enters the room first and reads the comments then misses  *)
(* no comment: what is posted is in the answer of getComments or is sent   *)
(* to it, although storing and sending are two steps.                      *)
NothingMissed ==
    \A k \in Clients : after[k] /\ conn[k] = "joined" =>
       \A r \in Requests :
          /\ CallAt(r, "post", "done") /\ call[r].v = watch[k]
          => \/ comment[call[r].c] = NoRow
             \/ call[r].c \in fetched[k] \cup heard[k]

(* Whoever reads along is told what happens, and nothing else.             *)
HearingIsRight == HeardWasPosted /\ EveryoneHears /\ NothingMissed

(* A comment belongs to a video that exists, even when it is posted        *)
(* between the two deletions of deleteVideo.                               *)
CommentHasVideo == \A c \in Ids : comment[c] # NoRow => uploader[comment[c].v] # None

(* A comment goes only by its author, or by the owner of the video, who    *)
(* deletes it or the video; what the handler has read before it deletes is *)
(* still true then.                                                        *)
DeletedByRight ==
    [][\A c \in Ids : comment[c] # NoRow /\ comment'[c] = NoRow =>
          \E r \in Requests :
             \/ CallAt(r, "delete", "delete") /\ call[r].c = c
                /\ call[r].u \in {comment[c].u, uploader[comment[c].v]}
             \/ call[r].op = "deleteVideo" /\ call[r].at \in {"comments", "row"}
                /\ call[r].v = comment[c].v /\ call[r].u = uploader[call[r].v]]_cvars
=============================================================================
