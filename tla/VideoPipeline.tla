----------------------------- MODULE VideoPipeline -----------------------------
(***************************************************************************)
(* The life of an uploaded video: the backend's handlers that write its    *)
(* row, composed with the encoder processes of EncodeWorker.               *)
(*                                                                         *)
(* A handler is a coroutine: it runs from one co_await to the next without *)
(* being interrupted, and any other handler may run at a co_await.  So     *)
(* every stretch between two database calls is one action, and the row a   *)
(* handler has read stays in its frame while others change the table.  The *)
(* handlers are                                                            *)
(*   postVideos             Publish                                        *)
(*   webhooks::minio        NotifyFind, NotifyUpdate, Dispatch, Ack        *)
(*   receiveEncodeResult    ResultFind, ResultUpdate                       *)
(*   patchVideo             PatchFind, PatchUpdate                         *)
(*   deleteVideo            DeleteFind, DeleteRelated, DeleteFolder,       *)
(*                          DeleteRow                                      *)
(*                                                                         *)
(* External, as the code uses it: mapper.update writes the columns whose   *)
(* setter was called and reports nothing when the row is gone; MinIO posts *)
(* an event until it gets the 200 that the handler always returns.         *)
(***************************************************************************)
EXTENDS EncodeWorker

CONSTANTS Users, Titles,
          Deliveries,     \* POSTs of MinIO to /webhooks/minio, one record each
          Patches,        \* PATCH requests
          Deletes         \* DELETE requests

ASSUME PipelineAssumption == None \notin Users /\ None \notin Titles

VARIABLES row,        \* row[v]: the row of v in the table videos
          issued,     \* the video ids ever given out
          delivery,   \* delivery[e]: where the handler of webhook POST e is
          eventOf,    \* eventOf[e]: the video of its record
          eventRow,   \* eventRow[e]: the row the handler holds
          handler,    \* handler[w]: receiveEncodeResult on the verdict of w
          handlerRow, \* handlerRow[w]: the row it holds
          patch,      \* patch[p], patchOf[p], patchRow[p]: patchVideo
          patchOf,
          patchRow,
          del,        \* del[d], delOf[d]: deleteVideo
          delOf,
          dropped     \* history: failures the backend swallowed for a video

notify == <<delivery, eventOf, eventRow>>
result == <<handler, handlerRow>>
edit == <<patch, patchOf, patchRow>>
deletion == <<del, delOf>>
svars == <<row, issued, notify, result, edit, deletion, dropped>>
vars == <<wvars, svars>>

Statuses == {"pending", "processing", "completed", "failed"}

(* "absent" is the status of a row that does not exist.                    *)
Row == [status: Statuses \cup {"absent"}, duration: Nat,
        title: Titles \cup {None}, owner: Users \cup {None}]
NoRow == [status |-> "absent", duration |-> 0, title |-> None, owner |-> None]
Exists(v) == row[v].status # "absent"

Drops == {"dispatch", "db", "crash"}

STypeOK ==
    /\ row \in [Videos -> Row]
    /\ issued \subseteq Videos
    /\ delivery \in [Deliveries ->
           {"none", "queued", "found", "updated", "launching", "started",
            "acked"}]
    /\ eventOf \in [Deliveries -> Videos \cup {None}]
    /\ eventRow \in [Deliveries -> Row]
    /\ handler \in [Workers -> {"idle", "found", "done"}]
    /\ handlerRow \in [Workers -> Row]
    /\ patch \in [Patches -> {"none", "found", "done", "error"}]
    /\ patchOf \in [Patches -> Videos \cup {None}]
    /\ patchRow \in [Patches -> Row]
    /\ del \in [Deletes -> {"none", "found", "folder", "row", "done", "error"}]
    /\ delOf \in [Deletes -> Videos \cup {None}]
    /\ dropped \in [Videos -> SUBSET Drops]

TypeOK == WTypeOK /\ STypeOK

Init ==
    /\ WInit
    /\ row = [v \in Videos |-> NoRow]
    /\ issued = {}
    /\ delivery = [e \in Deliveries |-> "none"]
    /\ eventOf = [e \in Deliveries |-> None]
    /\ eventRow = [e \in Deliveries |-> NoRow]
    /\ handler = [w \in Workers |-> "idle"]
    /\ handlerRow = [w \in Workers |-> NoRow]
    /\ patch = [p \in Patches |-> "none"]
    /\ patchOf = [p \in Patches |-> None]
    /\ patchRow = [p \in Patches |-> NoRow]
    /\ del = [d \in Deletes |-> "none"]
    /\ delOf = [d \in Deletes |-> None]
    /\ dropped = [v \in Videos |-> {}]

-----------------------------------------------------------------------------
(* Database calls.                                                         *)

(* Slip: every column is written back, the stale ones too.                 *)
MergeAllColumns(old, obj, dirty) == obj

(* The columns an UPDATE of obj leaves in a row: those marked dirty come   *)
(* from the object, the others stay.                                       *)
Merge(old, obj, dirty) ==
    [status   |-> IF "status" \in dirty THEN obj.status ELSE old.status,
     duration |-> IF "duration" \in dirty THEN obj.duration ELSE old.duration,
     title    |-> IF "title" \in dirty THEN obj.title ELSE old.title,
     owner    |-> IF "owner" \in dirty THEN obj.owner ELSE old.owner]

(* Slip: a row that is gone is inserted again.                             *)
UpdateOrInsert(v, obj, dirty) ==
    row' = [row EXCEPT ![v] = Merge(row[v], obj, dirty)]

(* mapper.update(obj): no row, no effect, no error.                        *)
Update(v, obj, dirty) ==
    row' = IF Exists(v) THEN [row EXCEPT ![v] = Merge(row[v], obj, dirty)]
                        ELSE row

(* The setters, called on a row in a handler's frame.                      *)
WithStatus(r, s) == [status |-> s, duration |-> r.duration,
                     title |-> r.title, owner |-> r.owner]
WithDuration(r, d) == [status |-> r.status, duration |-> d,
                       title |-> r.title, owner |-> r.owner]
WithTitle(r, t) == [status |-> r.status, duration |-> r.duration,
                    title |-> t, owner |-> r.owner]

Drop(v, kind) == dropped' = [dropped EXCEPT ![v] = @ \cup {kind}]

-----------------------------------------------------------------------------
(* postVideos and the client's upload.                                     *)

(* A fresh id (a random id that is taken fails on the primary key and      *)
(* changes nothing); the presigned PUT URL is returned with it.            *)
Publish(v, u, t) ==
    /\ v \notin issued
    /\ issued' = issued \cup {v}
    /\ row' = [row EXCEPT ![v] = [status |-> "pending", duration |-> 0,
                                  title |-> t, owner |-> u]]
    /\ UNCHANGED <<wvars, notify, result, edit, deletion, dropped>>

(* The client uses its URL and MinIO queues an ObjectCreated event.        *)
PutSource(v, e) ==
    /\ v \in issued
    /\ delivery[e] = "none"
    /\ Put(v)
    /\ delivery' = [delivery EXCEPT ![e] = "queued"]
    /\ eventOf' = [eventOf EXCEPT ![e] = v]
    /\ UNCHANGED <<row, issued, eventRow, result, edit, deletion, dropped>>

-----------------------------------------------------------------------------
(* webhooks::minio::asyncHandleHttpRequest on one record.                  *)

InHandler == {"found", "updated", "started"}

Step(e, from, to) ==
    /\ delivery[e] = from
    /\ delivery' = [delivery EXCEPT ![e] = to]

(* MinIO has no answer yet and posts the event once more, as delivery f.   *)
Redeliver(e, f) ==
    /\ "redeliver" \in Faults
    /\ delivery[e] \in InHandler
    /\ Step(f, "none", "queued")
    /\ eventOf' = [eventOf EXCEPT ![f] = eventOf[e]]
    /\ UNCHANGED <<wvars, row, issued, eventRow, result, edit, deletion, dropped>>

(* findByPrimaryKey and setStatus on the row it returned.                  *)
NotifyFind(e) ==
    /\ Step(e, "queued", "found")
    /\ Exists(eventOf[e])
    /\ eventRow' = [eventRow EXCEPT ![e] =
                        WithStatus(row[eventOf[e]], "processing")]
    /\ UNCHANGED <<wvars, row, issued, eventOf, result, edit, deletion, dropped>>

(* A missing row is logged and answered with 200.                          *)
NotifyMissing(e) ==
    /\ Step(e, "queued", "acked")
    /\ ~Exists(eventOf[e])
    /\ UNCHANGED <<wvars, row, issued, eventOf, eventRow, result, edit,
                   deletion, dropped>>

NotifyUpdate(e) ==
    /\ Step(e, "found", "updated")
    /\ Update(eventOf[e], eventRow[e], {"status"})
    /\ eventRow' = [eventRow EXCEPT ![e] = NoRow]
    /\ UNCHANGED <<wvars, issued, eventOf, result, edit, deletion, dropped>>

(* Slip: the encoder is started without waiting for the UPDATE.            *)
DispatchTooEarly(e, w) ==
    /\ Step(e, "found", "started")
    /\ Spawn(w, eventOf[e])
    /\ UNCHANGED <<row, issued, eventOf, eventRow, result, edit, deletion, dropped>>

(* The local worker is launched, or the POST to Modal starts one.          *)
Dispatch(e, w) ==
    /\ Step(e, "updated", "started") \/ Step(e, "launching", "acked")
    /\ Spawn(w, eventOf[e])
    /\ UNCHANGED <<row, issued, eventOf, eventRow, result, edit, deletion, dropped>>

(* No executable, or Modal does not answer with 200: logged.               *)
DispatchFails(e) ==
    /\ "dispatch" \in Faults
    /\ Step(e, "updated", "started") \/ Step(e, "launching", "acked")
    /\ Drop(eventOf[e], "dispatch")
    /\ UNCHANGED <<wvars, row, issued, eventOf, eventRow, result, edit, deletion>>

(* The 200 reaches MinIO.  A local worker is launched by a detached thread *)
(* that may still have to do it.                                           *)
Ack(e) ==
    /\ \/ Step(e, "started", "acked")
       \/ SharedScratch /\ Step(e, "updated", "launching")
    /\ UNCHANGED <<wvars, row, issued, eventOf, eventRow, result, edit,
                   deletion, dropped>>

(* A database call of the handler throws: logged and answered with 200.    *)
(* An UPDATE that timed out may have been executed.                        *)
NotifyDbError(e) ==
    /\ "db" \in Faults
    /\ \/ /\ Step(e, "queued", "acked")
          /\ UNCHANGED row
       \/ /\ Step(e, "found", "acked")
          /\ UNCHANGED row \/ Update(eventOf[e], eventRow[e], {"status"})
    /\ eventRow' = [eventRow EXCEPT ![e] = NoRow]
    /\ Drop(eventOf[e], "db")
    /\ UNCHANGED <<wvars, issued, eventOf, result, edit, deletion>>

-----------------------------------------------------------------------------
(* webhooks::minio::receiveEncodeResult on the verdict of process w.       *)

(* Slip: a duration of 0, which any length under one second has, is taken  *)
(* for a failure.                                                          *)
ResultRowZeroFails(w) ==
    IF verdict[w] = "completed" /\ VerdictDuration(w) > 0
    THEN WithDuration(WithStatus(row[video[w]], "completed"), VerdictDuration(w))
    ELSE WithStatus(row[video[w]], "failed")

(* Slip: a verdict "failed" does not mark the status as changed.           *)
ResultColumnsNoFailure(w) ==
    IF verdict[w] = "completed" THEN {"status", "duration"} ELSE {}

(* Slip: the duration is set on the object, its column is not written.     *)
ResultColumnsNoDuration(w) == {"status"}

(* The setters called on the row that was read, and the columns they mark. *)
ResultRow(w) ==
    IF verdict[w] = "completed"
    THEN WithDuration(WithStatus(row[video[w]], "completed"), VerdictDuration(w))
    ELSE WithStatus(row[video[w]], "failed")
ResultColumns(w) ==
    IF verdict[w] = "completed" THEN {"status", "duration"} ELSE {"status"}

ResultFind(w) ==
    /\ TakeVerdict(w)
    /\ Exists(video[w])
    /\ handler' = [handler EXCEPT ![w] = "found"]
    /\ handlerRow' = [handlerRow EXCEPT ![w] = ResultRow(w)]
    /\ UNCHANGED <<row, issued, notify, edit, deletion, dropped>>

(* A missing row is logged and answered with 200.                          *)
ResultMissing(w) ==
    /\ TakeVerdict(w)
    /\ ~Exists(video[w])
    /\ handler' = [handler EXCEPT ![w] = "done"]
    /\ UNCHANGED <<row, issued, notify, handlerRow, edit, deletion, dropped>>

ResultUpdate(w) ==
    /\ handler[w] = "found"
    /\ Update(video[w], handlerRow[w], ResultColumns(w))
    /\ handler' = [handler EXCEPT ![w] = "done"]
    /\ handlerRow' = [handlerRow EXCEPT ![w] = NoRow]
    /\ UNCHANGED <<wvars, issued, notify, edit, deletion, dropped>>

(* A database call throws: logged and answered with 200.                   *)
ResultDbError(w) ==
    /\ "db" \in Faults
    /\ \/ /\ TakeVerdict(w)
          /\ UNCHANGED row
       \/ /\ handler[w] = "found"
          /\ UNCHANGED row \/ Update(video[w], handlerRow[w], ResultColumns(w))
          /\ UNCHANGED wvars
    /\ handler' = [handler EXCEPT ![w] = "done"]
    /\ handlerRow' = [handlerRow EXCEPT ![w] = NoRow]
    /\ Drop(video[w], "db")
    /\ UNCHANGED <<issued, notify, edit, deletion>>

-----------------------------------------------------------------------------
(* patchVideo.  A request that is answered with 400, 403 or 404 changes    *)
(* nothing and is not a step.                                              *)

PatchFind(p, v, u, t) ==
    /\ patch[p] = "none"
    /\ Exists(v)
    /\ row[v].owner = u
    /\ patch' = [patch EXCEPT ![p] = "found"]
    /\ patchOf' = [patchOf EXCEPT ![p] = v]
    /\ patchRow' = [patchRow EXCEPT ![p] = WithTitle(row[v], t)]
    /\ UNCHANGED <<wvars, row, issued, notify, result, deletion, dropped>>

(* The request ends; of its row the title is kept, for the properties.     *)
PatchEnd(p, answer) ==
    /\ patch[p] = "found"
    /\ patch' = [patch EXCEPT ![p] = answer]
    /\ patchRow' = [patchRow EXCEPT ![p] = WithTitle(NoRow, patchRow[p].title)]
    /\ UNCHANGED <<wvars, issued, patchOf, notify, result, deletion, dropped>>

PatchUpdate(p) ==
    /\ PatchEnd(p, "done")
    /\ Update(patchOf[p], patchRow[p], {"title"})

(* The UPDATE throws and the answer is 500; it may have been executed.     *)
PatchDbError(p) ==
    /\ "db" \in Faults
    /\ PatchEnd(p, "error")
    /\ UNCHANGED row \/ Update(patchOf[p], patchRow[p], {"title"})

-----------------------------------------------------------------------------
(* deleteVideo.                                                            *)

DeleteFind(d, v, u) ==
    /\ del[d] = "none"
    /\ Exists(v)
    /\ row[v].owner = u
    /\ del' = [del EXCEPT ![d] = "found"]
    /\ delOf' = [delOf EXCEPT ![d] = v]
    /\ UNCHANGED <<wvars, row, issued, notify, result, edit, dropped>>

DeleteGoto(d, from, to) ==
    /\ del[d] = from
    /\ del' = [del EXCEPT ![d] = to]
    /\ UNCHANGED <<issued, notify, result, edit, delOf, dropped>>

(* The two DELETEs on comments and video_tags, tables no action here reads.*)
DeleteRelated(d) ==
    /\ DeleteGoto(d, "found", "folder")
    /\ UNCHANGED <<wvars, row>>

(* Slip: the source goes too, while a process may be reading it.           *)
DeleteFolderAndSource(d) ==
    /\ DeleteGoto(d, "folder", "row")
    /\ source' = source \ {delOf[d]}
    /\ hls' = [hls EXCEPT ![delOf[d]] = [k \in Artifacts |-> 0]]
    /\ marks' = [marks EXCEPT ![delOf[d]] = @ \cup {"emptied"}]
    /\ UNCHANGED <<row, process, mailbox, scratch, puts>>

(* S3Plugin::deleteFolder.                                                 *)
DeleteFolder(d) ==
    /\ DeleteGoto(d, "folder", "row")
    /\ EmptyFolder(delOf[d], {})
    /\ UNCHANGED row

(* A failed listing or bulk deletion throws and is answered with 500; an   *)
(* object that fails inside a bulk deletion is not noticed.                *)
DeleteFolderFails(d, left) ==
    /\ "folder" \in Faults
    /\ \E to \in {"row", "error"} : DeleteGoto(d, "folder", to)
    /\ EmptyFolder(delOf[d], left)
    /\ UNCHANGED row

DeleteRow(d) ==
    /\ DeleteGoto(d, "row", "done")
    /\ row' = [row EXCEPT ![delOf[d]] = NoRow]
    /\ UNCHANGED wvars

(* A database call throws and the answer is 500.                           *)
DeleteDbError(d) ==
    /\ "db" \in Faults
    /\ \/ /\ DeleteGoto(d, "found", "error")
          /\ UNCHANGED row
       \/ /\ DeleteGoto(d, "row", "error")
          /\ UNCHANGED row \/ row' = [row EXCEPT ![delOf[d]] = NoRow]
    /\ UNCHANGED wvars

-----------------------------------------------------------------------------
(* The backend dies and restarts: the frames of all handlers are gone,     *)
(* MinIO has had no 200 for the events in them, and a thread that was to   *)
(* launch a worker is gone.                                                *)
Interrupted(v) ==
    \/ \E w \in Workers : handler[w] = "found" /\ video[w] = v
    \/ \E e \in Deliveries : delivery[e] = "launching" /\ eventOf[e] = v

CrashServer ==
    /\ "crash" \in Faults
    /\ delivery' = [e \in Deliveries |->
           CASE delivery[e] \in InHandler -> "queued"
             [] delivery[e] = "launching" -> "acked"
             [] OTHER -> delivery[e]]
    /\ eventRow' = [e \in Deliveries |-> NoRow]
    /\ handler' = [w \in Workers |->
           IF handler[w] = "found" THEN "done" ELSE handler[w]]
    /\ handlerRow' = [w \in Workers |-> NoRow]
    /\ patch' = [p \in Patches |->
           IF patch[p] = "found" THEN "error" ELSE patch[p]]
    /\ patchRow' = [p \in Patches |-> WithTitle(NoRow, patchRow[p].title)]
    /\ del' = [d \in Deletes |->
           IF del[d] \in {"found", "folder", "row"} THEN "error" ELSE del[d]]
    /\ dropped' = [v \in Videos |->
           IF Interrupted(v) THEN dropped[v] \cup {"crash"} ELSE dropped[v]]
    /\ UNCHANGED <<wvars, row, issued, eventOf, patchOf, delOf>>

-----------------------------------------------------------------------------
NotifyStep(e) ==
    \/ NotifyFind(e)
    \/ NotifyMissing(e)
    \/ NotifyUpdate(e)
    \/ \E w \in Workers : Dispatch(e, w)
    \/ DispatchFails(e)
    \/ Ack(e)
    \/ NotifyDbError(e)

ResultStep(w) ==
    ResultFind(w) \/ ResultMissing(w) \/ ResultUpdate(w) \/ ResultDbError(w)

EncodeStep(w) == WorkerStep(w) /\ UNCHANGED svars

DeleteStep(d) ==
    \/ DeleteRelated(d)
    \/ DeleteFolder(d)
    \/ \E left \in SUBSET Artifacts : DeleteFolderFails(d, left)
    \/ DeleteRow(d)
    \/ DeleteDbError(d)

PatchStep(p) == PatchUpdate(p) \/ PatchDbError(p)

(* What clients and MinIO may ask for at any time.                         *)
Request ==
    \/ \E v \in Videos, u \in Users, t \in Titles : Publish(v, u, t)
    \/ \E v \in Videos, e \in Deliveries : PutSource(v, e)
    \/ \E e, f \in Deliveries : Redeliver(e, f)
    \/ \E p \in Patches, v \in Videos, u \in Users, t \in Titles :
          PatchFind(p, v, u, t)
    \/ \E d \in Deletes, v \in Videos, u \in Users : DeleteFind(d, v, u)

Next ==
    \/ Request
    \/ \E e \in Deliveries : NotifyStep(e)
    \/ \E w \in Workers : EncodeStep(w) \/ ResultStep(w)
    \/ \E p \in Patches : PatchStep(p)
    \/ \E d \in Deletes : DeleteStep(d)
    \/ CrashServer

Spec == Init /\ [][Next]_vars

(* Drogon resumes a coroutine whose call returned, MinIO posts a queued    *)
(* event, and the operating system or Modal runs a started process, whose  *)
(* ffprobe and ffmpeg end.  Clients need not do anything.                  *)
FairSpec ==
    /\ Spec
    /\ \A e \in Deliveries : WF_vars(NotifyStep(e))
    /\ \A w \in Workers : WF_vars(EncodeStep(w)) /\ WF_vars(ResultStep(w))
    /\ \A p \in Patches : WF_vars(PatchStep(p))
    /\ \A d \in Deletes : WF_vars(DeleteStep(d))

-----------------------------------------------------------------------------
(* A video that an encoder was started for has left "pending" for good: no *)
(* edit or late handler writes back the status it read before the await.   *)
StatusTrailsDispatch ==
    \A w \in Workers : stage[w] # "unused" =>
        row[video[w]].status # "pending"

(* "completed" is the word of a process that encoded this very video and   *)
(* took all upload steps, and the duration in the row is the length that   *)
(* process probed.                                                         *)
CompletedIsEarned ==
    \A v \in Videos : row[v].status = "completed" =>
        \E w \in Workers :
           /\ video[w] = v
           /\ verdict[w] = "completed"
           /\ mailbox[w] = "taken"
           /\ row[v].duration = VerdictDuration(w)

(* A completed video can be played: every artifact is in the bucket, and   *)
(* one is missing only if every process that said "completed" failed to    *)
(* upload it, a deletion emptied the folder, or two local processes were   *)
(* at work in one scratch directory.                                       *)
CompletedIsPlayable ==
    \A v \in Videos : row[v].status = "completed" =>
        /\ Finished(v) # {}
        /\ Undisturbed(v) =>
              \A w \in Finished(v) : \A k \in Artifacts \ failed[w] :
                  hls[v][k] # 0

(* A video can only be stuck in "processing" after a failure that the code *)
(* swallows: as long as none happened, somebody still owes it a status.    *)
ProcessingIsOwned ==
    \A v \in Videos :
        (/\ row[v].status = "processing"
         /\ dropped[v] = {}
         /\ marks[v] \cap {"worker", "post"} = {})
        => \/ \E e \in Deliveries :
                /\ eventOf[e] = v
                /\ delivery[e] \in {"queued", "found", "updated", "launching"}
           \/ \E w \in Workers :
                /\ video[w] = v
                /\ \/ stage[w] \in Running
                   \/ mailbox[w] = "sent"
                   \/ handler[w] = "found"

(* An answered edit is not lost: once patchVideo has answered 200, the     *)
(* title of the row is that of some edit, whatever webhook handlers that   *)
(* read the row before the edit write after it.                            *)
EditKept ==
    \A v \in Videos :
        Exists(v) /\ (\E p \in Patches : patchOf[p] = v /\ patch[p] = "done")
        => \E p \in Patches :
              /\ patchOf[p] = v
              /\ patch[p] \in {"done", "error"}
              /\ row[v].title = patchRow[p].title

(* A completed video turns "failed" only when a second process was run for *)
(* it, by a second upload, a redelivered event or a restart: one process   *)
(* never contradicts itself.                                               *)
FailureNeedsRerun ==
    \A v \in Videos :
        row[v].status = "completed" /\ row'[v].status = "failed" =>
            \E w1, w2 \in Workers :
               /\ video[w1] = v /\ verdict[w1] = "completed"
               /\ video[w2] = v /\ verdict[w2] = "failed"
FailureOnlyByRerun == [][FailureNeedsRerun]_vars

(* A deleted video does not come back, although handlers and processes     *)
(* that knew it go on.                                                     *)
StaysRemoved ==
    \A v \in issued : ~Exists(v) => ~Exists(v)'
RemovedForGood == [][StaysRemoved]_vars

(* Every uploaded video is eventually processed, or deleted, when nothing  *)
(* fails that the code swallows.                                           *)
UploadSettles ==
    \A v \in Videos :
        (Exists(v) /\ v \in source)
        ~> row[v].status \in {"completed", "failed", "absent"}

(* The wish of openapi.yml and of deleteVideo's comment: a deletion that   *)
(* answered 200 has removed the objects of the video as well.              *)
DeleteRemovesObjects ==
    \A d \in Deletes : del[d] = "done" =>
        \A k \in Artifacts : hls[delOf[d]][k] = 0

-----------------------------------------------------------------------------
(* The backend keeps the promises of VideoLifecycle.  An attempt is open   *)
(* from the start of its process until its verdict is recorded or lost.    *)
LStatus == [v \in Videos |->
    IF v \notin issued THEN "unborn"
    ELSE IF Exists(v) THEN row[v].status ELSE "removed"]

LPhase == [w \in Workers |->
    IF stage[w] = "unused" THEN "fresh"
    ELSE IF stage[w] \in Running \/ mailbox[w] = "sent" \/ handler[w] = "found"
         THEN "open" ELSE "settled"]

LAbout == [w \in Workers |-> video[w]]

Lifecycle == INSTANCE VideoLifecycle WITH
    Attempts <- Workers, status <- LStatus, phase <- LPhase, about <- LAbout

LifecycleSpec == Lifecycle!LifecycleSpec
=============================================================================
