# playbacQ: specifications and proofs

playbacQ is a video service: a C++ backend (Drogon coroutines over MySQL,
Redis and MinIO), an encoder program that runs once per uploaded video, and a
WebSocket server for live comments. This directory holds TLA+ models of its
stateful parts, TLC configurations for small instances, and TLAPS proofs that
hold for every size.

## The system

| part | code | state | operations | what must hold |
|---|---|---|---|---|
| encode worker | `worker/worker.cpp`, `worker/worker.py` | scratch directory, buckets `videofiles` and `videos`, its own place in `main` | probe, encode, five uploads, clean up, remove the source, post one verdict | a file goes only after its own encoding is stored; one verdict, and an honest one |
| MinIO webhooks | `controllers/webhooks_minio.cpp` | rows of `videos`, the row in a coroutine's frame | announce an upload, dispatch an encoder, record a verdict | the status follows the processes; nobody is stuck without a failure; stale rows do no harm |
| video rows | `controllers/api_videos.cpp`, `models/Videos.cc` | rows of `videos` | publish, edit, delete, list, get | edits survive webhooks, deletions are final |
| object storage | `plugins/S3Plugin.cpp` | the buckets | presigned URLs, read, delete a folder | a deletion leaves no objects |
| view counter | `api_videos.cpp` `incrementVideoViews`, `main.cpp` flush timer | Redis locks and pending counts, `view_count` | count a view, flush every minute | every view counted once or knowingly lost |
| likes and tags | `api_videos.cpp`, `api_tag.cpp` | `video_likes`, `video_tags`, `tags` | add, remove, list | sets of pairs, nothing dangles, nothing goes unasked |
| comments | `api_comments.cpp` | `comments` | post, delete, list | a comment has a video and goes by right only |
| comment rooms | `websocket_comments.cpp` | map from video to connections, under a mutex | join, leave, broadcast | who joined and has not left hears everything |
| external videos | `api_videos.cpp`, `plugins/YoutubeAPI.cpp` | rows, a Redis cooldown | publish, refresh | one fetch per cooldown; the owner's texts are kept; a broadcast gets its length |
| playback, thumbnails | `worker.cpp`, `api_videos.cpp` | progress in Redis, objects in the bucket | report progress; write and rewrite the cues, rewrite a playlist | progress shown was encoded; every URL is signed, every moment has one picture |
| list of videos | `api_videos.cpp` `getVideos` | none | filter by tag, user and text, sort | the answer is what the query asked for |
| generated models | `models/*.cc` | values and dirty flags of one row | read, set, build INSERT and UPDATE, answer in JSON | each value into its own column, nothing unset written |
| traQ client | `plugins/traQAPI.cpp`, `traq_api.cpp` | stamp cache in memory | fetch, cache | answers are recent, entries bounded |
| authentication, share pages, start-up | `api_auth.cpp`, `AuthFilter.cpp`, `Token.cpp`, `share.cpp`, `main.cpp` | none of their own | | |

How they interact. `postVideos` inserts a row with status `pending` and returns
a presigned URL. The client PUTs the file; MinIO posts an `ObjectCreated` event
to `/webhooks/minio`; the handler sets `processing` and starts an encoder,
through Modal or, in a build with `USE_LOCAL_WORKER`, as a child process started
from a detached thread. The encoder works on the buckets alone and finally posts
to `/webhooks/encode_result`, whose handler writes `completed` or `failed`.
Owners edit and delete at any time. Handlers share nothing but the database: each
holds the row it has read across a `co_await` and writes its changed columns back.
Likes, tags and comments hang on the rows of `videos` by foreign keys, some of
which cascade (`docker/init.sql`); a deletion walks through them in four statements. A
comment that was stored is then sent to the connections of its room. Pages of
external videos are opened by many clients at once, and each may refresh the row
from YouTube; stamps are fetched from traQ into one cache that all threads share.

What is hard about it: any two handlers interleave at every `co_await`; MinIO
repeats an event until it is answered, the client may upload again through the
same URL, so two encoders may run for one video; both webhooks answer 200
whatever happened, so a failure is not retried; the encoder ignores the result
of its uploads; a crash loses all frames and threads. No handler uses a
transaction: what it has looked up may be gone, or there, when it writes, and only
the keys of the tables decide. A connection may close while a broadcast
sends to it. A cooldown is set before the call it is to limit, and
stays when the call fails.

## The modules

`VideoLifecycle` is the abstract specification: what happens to the status of a
video, seen as attempts to encode it that are started, settled or abandoned.

`EncodeWorker` models the encoder processes. `stage[w]` is the place of process
`w` in `main`: `spawned` (before ffprobe), `probed`, `encoding`, `uploading` (with
`next[w]` the artifact to come), `cleaning`, `removing`, `posting`, `exited`.
`verdict[w]` and `length[w]` are its locals, `mailbox[w]` the POST to the
backend. `scratch`, `source` and `hls` are the scratch directories, the
bucket `videofiles` and the folders `videos/hls/<id>/`. Files have an identity: the
client's PUTs for a video are numbered (`puts`), the bucket holds the last one until it is
removed, `file[w]` is the number of the one that ffmpeg of `w` opened, and an object in a
folder is the number of the file it was made of, 0 if there is none. `clash[w]` says
that another local process of the video was at work in the scratch directory at the same
time; what either uploads from then on may be broken, or made of the other's file.
`failed[w]` (the uploads of `w` that failed) and `marks` (what has happened to the
objects of a video) are history variables. Around the processes is an environment
(`Put`, `Spawn`, `EmptyFolder`, `TakeVerdict`).

`VideoPipeline` extends it and replaces the environment by the backend: one
action per stretch between two `co_await`s.

| action | code |
|---|---|
| `Publish`, `PutSource` | `postVideos`; the client and MinIO (external) |
| `NotifyFind`, `NotifyMissing`, `NotifyUpdate`, `NotifyDbError` | `minio::asyncHandleHttpRequest` to its UPDATE |
| `Dispatch`, `DispatchFails`, `Ack` | its dispatch, local (`SharedScratch`) or Modal, and the 200 |
| `Redeliver` | MinIO has no answer and posts again (external) |
| `ResultFind`, `ResultMissing`, `ResultUpdate`, `ResultDbError` | `minio::receiveEncodeResult` |
| `PatchFind`, `PatchUpdate`, `PatchDbError` | `patchVideo` |
| `DeleteFind`, `DeleteRelated`, `DeleteFolder`, `DeleteFolderFails`, `DeleteRow`, `DeleteDbError` | `deleteVideo` |
| `CrashServer` | the backend process dies and is restarted (external) |

`eventRow`, `handlerRow` and `patchRow` are the rows in the frames of the
handlers. `Merge` is the UPDATE that the generated model issues: only columns
whose setter was called are written. `dropped` records the failures the
backend swallows.

`ViewCounter` stands beside them: it shares only the row with the pipeline, and
sees of it a status and a duration that others may change at any time
(`RowWritten`, `RowDeleted`), so it allows every row the pipeline can produce and
more. `lock`, `pending` and `stored` are the keys `viewed:<video>:<ip>` and
`pending_views:<video>` and the column `view_count`. `place` is a history
variable, a ledger in which every view is one entry: `none`, `pending`, in the
hands of a flush, `counted`, `void` (its row was deleted) or `lost`.

| action | code |
|---|---|
| `ViewFind`, `ViewLock`, `ViewRepeat`, `ViewRefused`, `ViewCount`, `ViewRedisError` | `incrementVideoViews`: row, `SET EX NX`, `INCR`, its catch |
| `Tick`, `ScanPage`, `FlushEnds` | the timer and the loop over the cursor of `SCAN` |
| `Take`, `TakeNothing`, `Write` | `GETDEL` and `UPDATE` for one key |
| `FlushRedisError`, `FlushDbError` | the catch around the loop; the command may have been executed |
| `Crash`, `LockExpires` | death of the backend; the expiry of a lock in Redis (external) |

`Engagement` has the tables `videos` (of which it keeps the owner), `video_likes`,
`tags` and `video_tags` as `owner`, `likes`, `tag` with `nextTag`, and `links`;
`req[r]` is a request and how far its handler is. Their keys and cascades are
operators that the statements use: `LikeFits`, `LinkFits`, `NameFits`, `DropVideo`,
`DropTag`. `PairSet` is what likes and tags promise: a set of pairs on which every
request acts at one moment, between its arrival and its answer, or not at all.

| action | code |
|---|---|
| `AddLikeFind`, `AddLikeInsert`; `RemoveLikeFind`, `RemoveLikeDelete` | `addLike`, `removeLike` |
| `AddTagFind`, `AddTagCreate`, `AddTagLink` | `addTag`: tag by name, new tag, link |
| `RemoveTagFind`, `RemoveTagCheck`, `RemoveTagUnlink` | `removeTag` |
| `DeleteTag` | `deleteTag` |
| `DeleteVideoFind`, `DeleteVideoTags`, `DeleteVideoRow` | `deleteVideo`, as far as these tables see it |
| `Throws` | a statement fails, or the key of a table refuses it |

`CommentRooms` puts the table `comments` (`comment`, `nextId`) beside the map of
rooms (`open`, `room`), connections (`conn`, with `ctx` the video they remember) and clients that read the comments and listen (`watch`, `fetch`,
`fetched`, `heard`). `after` and `meant` are history: whether a client was
in its room when it read, and who was in the room when a comment was stored.

| action | code |
|---|---|
| `PostInsert`, `PostBroadcast` | `postComment`: INSERT, then `broadcastToRoom` under the mutex |
| `DeleteFind`, `DeleteAsOwner`, `DeleteRow` | `deleteComment`: by its author, or by the owner of the video |
| `DropVideoFind`, `DropVideoComments`, `DropVideoRow` | `deleteVideo`, as far as comments see it |
| `FetchCount`, `FetchRead`, `FetchThrows` | `getComments` |
| `Connect`, `Enter`, `Leave` | `handleNewConnection`, its critical section; `handleConnectionClosed` |
| `Drops`, `CallThrows` | a client goes away (external); a statement fails |

`ExternalVideos` has external rows, the Redis key of the cooldown (`cool`) and the
broadcast at YouTube (`tube`: `live`, `over`, `archived`). `Info` is what YouTube
may answer, every field of which may be missing.

| action | code |
|---|---|
| `Post`, `PostFetch`, `PostInsert` | `postExVideo` |
| `DurationFind`, `DurationCool`, `DurationFetch`, `DurationUpdate` | `refreshExVideoDuration` |
| `MetadataFind`, `MetadataFetch`, `MetadataUpdate` | `refreshExVideoMetadata` |
| `FetchFails`, `Throws` | YouTube, MySQL or Redis fails |
| `Edited`, `RowDeleted`, `CoolExpires`, `Broadcast` | `patchVideo`, `deleteVideo`; Redis; YouTube (external) |

`StampCache` is both caches of `traQAPI.cpp`, with a clock (`now`), requests that
ask traQ at once (`fetch`) and the age of the last answer (`served`, history):
`Hit`, `Ask`, `Reply`, `ReplyError`, `StoreAnswer`, `Tick`.

`Rows` is the way of a row through the five generated classes: `InsertRow`,
`SelectRow`, `FindRow`, `SaveRow`, `FlushRow`, `DeleteRow`, with the columns each
function of a class goes through. `RowStore` is the table they should amount to:
rows that are created, changed and deleted column by column.

`Progress` is `video:progress:<id>` between attempts that report and clients that
poll (`updateProgress` and its callers in `worker.cpp`, `getVideoProgress`): `Start`,
`Report`, `Finishes`, `Ends`, `PollFind`, `PollGet`, `PollFails`, and external
`FileArrives`, `KeyExpires`.

`Playback` is what a player gets: the cues the worker writes and
`buildVideoThumbnailVtt` rewrites, the sheets, the playlist `getVideoPlayM3u8` signs;
`UploadPlaylist`, `UploadThumbnails`, `UploadVtt`, `Complete`, `Play`, `GetVtt`.

`VideoList` is `getVideos` (`FindTag`, `FindLinks`, `FindVideos`, and `FindFails`
where a read fails) while others tag, untag and delete (`Tagged`, `Untagged`, `Deleted`).

`Backend` holds the constants these modules have in common. `MCEncodeWorker`,
`MCVideoPipeline`, `MCViewCounter` and `MCExternalVideos` name symmetries and bounds
for TLC. `MCCommunity` and `MCServices` hold several modules
that share no variable: a behaviour is one of the part chosen in its
initial state, so one run checks each of them in full and their
product is never built. `Lists` says what a loop leaves of a sequence of which it keeps
some elements: `updateColumns` of the models, and `getVideoPlayM3u8`, which skips
empty lines. It says so by the places that are kept (`Rank`), without recursion.

The proofs of a module are in the module of its name with `Proofs`, and for the smaller ones
in that of their composition: `CommentRooms` in `CommunityProofs`, `Progress` and
`VideoList` in `PlaybackProofs`, `ExternalVideos` and `StampCache` in `ServicesProofs`.

Abstractions. File contents are left out: an artifact is whole in the bucket, and then
it is known which file it was made of, or it is not; the thumbnail sheets are one artifact, except in `Playback`. Texts are
marks of who wrote them. Of a row, a module keeps the columns its handlers look at
or write. In the pipeline, requests that are answered with 400, 403 or 404 change
nothing and are no steps; where another module's answers matter to a property,
they are steps. An id that was deleted is never drawn again (11 random
characters). A webhook with several records is several deliveries. `Engagement`,
`CommentRooms` and `VideoPipeline` each have the deletion of a video with the
statements that touch their own tables; the other modules' statements of
`deleteVideo` are awaits in which anything else may happen.

A definition whose comment begins with `Slip` is not used by the models. It is a
plausible wrong version of the definition after it, and PROJECT.json says
which property notices if it is put in its place.

## What is checked

| run | instance | shows |
|---|---|---|
| `worker` | 1 video that is PUT twice, 2 local processes that share its scratch directory, lengths 0 and 500; failing uploads, removals and posts, dying processes, emptied folders | `SourceGoneMeansStored`, `PlaylistHasSegments`, `VerdictIsEarned`, types |
| `pipeline_races` | 1 video, 2 deliveries, 2 processes, 1 edit, 1 deletion, redelivery | refinement of `VideoLifecycle`; `StatusTrailsDispatch`, `EditKept`, `RemovedForGood`, `FailureOnlyByRerun` |
| `pipeline_failures` | 1 delivery, 2 local processes, 1 edit, lengths 500 and 2000; crash, database, dispatch, post and worker faults | `ProcessingIsOwned`, `CompletedIsEarned` |
| `pipeline_storage` | 1 delivery, 1 process, 1 edit, 1 deletion; storage and database faults | `CompletedIsPlayable`; the backend is an environment of `EncodeWorker` |
| `pipeline_live` | 2 deliveries, 2 processes, 1 deletion, no fault but redelivery | `UploadSettles` |
| `pipeline_delete` | 1 delivery, 1 process, 1 deletion, no fault | violates `DeleteRemovesObjects` |
| `views` | 1 video, 2 clients, 3 views, 2 overlapping flushes; Redis and database faults, crashes | `CountIsExact`, `PendingIsExact`, `OneViewPerLock`, `RepeatIsHonest`, types |
| `views_live` | 2 videos, 2 views, 1 flush again and again, no fault | `ViewsReachTheRow` |
| `views_zero` | 1 view, no fault | violates `ViewIsAnswered` |
| `community` | 2 videos, 2 users, 3 requests of any kind, 2 tag and 2 comment ids; or 2 requests beside 2 clients; database faults | refinement of `PairSet`; `NoDangling`, `GoneByRequest`; `RoomsMatch`, `HearingIsRight`, `CommentHasVideo`, `DeletedByRight`, types |
| `external_live` | 1 video, 2 requests that go on arriving; database and YouTube faults | `LengthArrives` |
| `services` | each of six modules, see the bounds; database, Redis and YouTube faults | `CallPerCooldown`, `ColumnsKept`; `AnswerIsRecent`, `EntriesBounded`; `AnswerIsOwn`, refinement of `RowStore`; `ShownIsEncoded`; `PlayerIsServed`; `ListIsWanted`; types |

Two runs are findings. `pipeline_delete`: `deleteVideo` empties the folder and answers 200
while an encoder is still uploading; what it uploads afterwards stays, and no
row refers to it. The comment at `api_videos.cpp:286` says the objects are
deleted with their folder. `views_zero`: the lock of a view expires after the
duration of the video, Redis refuses an expiry of 0, and a completed video may
have duration 0 (`api_videos.cpp:394`, `worker.cpp:496`): each of its views
is answered with 500 and none is counted. `openapi.yml:537-543` knows no such
answer.

What the code loses without a word in any document is not a finding, and the
properties that exempt it say so:

* A file that is PUT while a process holds the one before (`worker.cpp:492` removes the source by
  its name, after minutes of encoding) is deleted although nobody has read it. Such a
  video is `replaced` in `marks`, and `SourceGoneMeansStored` does not speak of it.
* An artifact whose upload fails is missing for good (`worker.cpp:480-489`). It is in
  `failed`; the properties say that no other is missing.
* Two local processes of one video at work at the same time spoil each other's files
  (`worker.cpp:330`). They have a `clash`, and `Undisturbed` leaves their video out.

Read beside the models, without a run of their own, the code also differs from
its documents here:

* `like_count` is shown (`openapi.yml:1264-1267`) and never written by `addLike` or
  `removeLike` (`api_videos.cpp:933-937`);
* a like of a video that does not exist is answered with 500 instead of 404
  (`api_videos.cpp:937`, `openapi.yml:583-588`), and a list by an unknown tag
  with 500 (`api_videos.cpp:134`, `openapi.yml:33-36`);
* the limit of the stamp cache counts the size of the entries' struct, not of the
  images (`traQAPI.cpp:148`), so that the 50 MB of `traQAPI.h:32` are not kept:
  `EntriesBounded` bounds the number of images and says nothing of their bytes;
* a broadcast that is over and not yet archived when it is registered gets the type
  `youtube` and the length 0 (`api_videos.cpp:380`, `394`), and keeps that length for ever:
  each refresh of it is answered `not_live_video` (`api_videos.cpp:445`), the refresh of
  its texts does not touch it, and no other handler does. `openapi.yml:159` says that the
  length is updated after the archive; `LengthArrives` is about rows that have the type
  of a broadcast, and does not speak of this one;
* `POST /videos` answers null for the columns the database fills in
  (`api_videos.cpp:237-239`, `openapi.yml:80-86`); in `Rows` `AnswerIsOwn`
  therefore speaks only of what a handler has set, and of the ids of comments and tags.

Bounds. Most bounds are the sizes of the constant sets: in the pipeline each
delivery, process, edit and deletion happens at most once. Everything about a video
depends on its own row, folder and scratch directory, so one is enough. Two deliveries and two
processes are the least at which events are repeated, verdicts contradict one
another and a rerun finds its source gone; the proofs below do not depend on
these sizes. `MaxPuts` is the number of files a client PUTs for a video: 2 where a second
delivery or process can follow from it, so that a process may hold one file while the other is in the
bucket, otherwise 1. Lengths 500 and 2000 ms are on either side of the truncation to
whole seconds, 0 is the length ffprobe may report for what is not a video.
`worker` stops a behaviour after `MaxDisturbances` = 2 disturbances (failed uploads and posts, dead
processes, emptied folders, replaced files); two are enough for one in each process, or two of one
kind in one. `pipeline_races` takes states that differ only in `file`, `failed`, `hls` and
`marks` as one (`RowsView`): no guard reads these variables and nothing else is computed
from them, so the rest takes the same steps; and its properties do not speak of them.
For the counter, three views and two clients are the least at which a client
races itself for a lock while another one is counted, and two flushes the least
that overlap; a flush is reused after it ends, so the timer is not bounded. Pages
of `SCAN` need two videos, which `views_live` has. `int` is wide enough: a counter
holds the views of about a minute.
In `community`, three requests are the least with which one passes a check, a
second undoes what was checked and a third puts something else in its place;
`MaxTag` and `MaxComment` are 2, so that a tag can be deleted and made again under a
new id, and two comments can be between their INSERT and their broadcast. While
clients watch, at most `MaxPosts` = 2 requests of one user are made: two
comments, or one and what may delete it.
In `services` there are two of what races (requests, attempts, stamps, users,
keys) and three handlers on two keys of a table. The stamp cache has room for one
entry (`MaxBytes` 3, `EntrySize` 2) and a clock of `MaxTime` = 4 ticks, two of which are
the period; an answer is under way for at most `Flight` = 1 tick. `Durations` are the
lengths around every limit of the code's arithmetic: where the interval of the
thumbnails changes, the first and last picture of a sheet, the last picture of the
video. Queries of a list are bounded by `LSome`, which leaves out combinations
the handler treats alike.
`CHECK_DEADLOCK FALSE` everywhere: a system whose requests are used up rests.

Fairness. `views_live` assumes weak fairness of the handlers, of the timer, which
Drogon's event loop fires every 60 seconds, and of the flushes. `pipeline_live` assumes weak fairness of every handler, whose
coroutine Drogon resumes when its call returns; of a queued event, which
MinIO posts until it is answered; and of every started process, which the
operating system or Modal runs and whose ffprobe and ffmpeg end. Clients and
redeliveries are not fair. No fault is admitted in it, because each one that the
code swallows (`dispatch`, `post`, `worker`, `db`, `crash`) does leave a video
in `processing` for ever: that is what `ProcessingIsOwned` bounds.
`external_live` admits faults, because what failed is tried again as soon as the
cooldown is over. `XFair` is weak fairness of the coroutines, of the expiry of the key
and of the broadcast, and strong fairness of three things: somebody opens the page
(the code refreshes a length on no other occasion), YouTube does answer with a
type, and MySQL does execute the UPDATE. With weak fairness instead, a page might be
opened only while the cooldown is on, and nothing would follow.

## What is proved

For all values of the constants, under the named assumptions `WorkerAssumption`,
`PipelineAssumption`, `ViewAssumption`, `EngagementAssumption`, `CommentAssumption`,
`StampAssumption`, `ExternalAssumption`, `ProgressAssumption`, `PlaybackAssumption`,
`RowsAssumption` and `ListAssumption`; most only
keep `None` apart from names and say that bounds are numbers. Three say more.
`PlaybackAssumption`: the rows of a sheet are full, as the 10 by 10 of `worker.cpp` are, and a
playlist is a sequence of lines. `RowsAssumption`: what a handler writes is not NULL, as its
setters take values. `ListAssumption`: there are finitely many videos.

* `EncodeWorkerProofs`: the type invariant and all safety invariants of
  `EncodeWorker`. The inductive invariant `WInv` adds to them where a process
  with a verdict can be (`ProcessInv`); that two processes at work in one directory
  are in a clash (`ClashInv`), so that one without has in its directory what it put
  there (`ScratchInv`); which file a process may have opened (`FileInv`), and that one that
  still holds a file holds the one in the bucket unless it was replaced (`HeldInv`); that a
  file goes only when a process that had opened this very file has finished (`SourceInv`); and
  which artifacts a process has stored so far, made of which file (`StoreInv`). `HeldInv` is
  what makes `SourceInv` inductive: the removal is by name, and only `HeldInv` says that
  the file of that name is the one that was encoded. `StoreInv` does the same for what is
  in the folder: that everything is stored at the end needs what is stored midway,
  and that no process with another file overwrites it.
* `VideoPipelineProofs`: `IInv` is the types, `WInv`, and `FrameInv`: handlers hold
  rows of videos that were given out (`TaskInv`), and what a row in a frame is
  about to write is what its message said (`AnnounceInv`, `VerdictInv`).
  `WorkerView` shows that every step of the pipeline is a step of
  `EncodeWorker` or leaves its variables alone; hence `ImplementsWorker`, and
  everything proved of the processes holds in the pipeline. `RowStep` lists the
  ways in which a row can change; from it follow `StatusNeverTrails` (with
  `PendingInv`), `RemovalIsFinal`, `CompletionIsEarned`, `CompletionIsPlayable`
  and `FailureIsByRerun`; with `PatchViewStep`, what becomes of an edit,
  `EditsAreKept`. `NotifyFateStep` and `ProcessFateStep` follow a delivery and a
  process through every step: each goes on, hands over to the next one or leaves
  a mark in `dropped` or `marks`, hence `ProcessingHasAnOwner`. Under `IInv` and
  `PendingInv` every step of the pipeline maps to a step of `VideoLifecycle` or
  to a stutter (`PromisedStep`), hence `ImplementsLifecycle`.
* `ViewCounterProofs`, under `ViewAssumption` (finitely many views, flushes are not
  names of places in the ledger): `VInv` adds to the types and the invariants
  what a flush holds (`FlushInv`: its number is the number of the ledger's entries
  that are in its hands, all of one video), which views have a lock (`LockInv`)
  and who set it (`TraceInv`). `FlushInv` is what makes `CountIsExact` inductive:
  the sum that `UPDATE` writes is only as good as what `GETDEL` returned. The
  steps that move entries are three lemmas about cardinalities (`IncrementStep`,
  `DeliverStep`, `MoveStep`); all others are `StillStep`.
* `EngagementProofs`: `EInv` is the types, `NoDangling` and `HandlerInv`, what a
  request carries from one statement to the next: ids that were given out, and for
  a deletion that the owner who was checked is still the owner, or the row
  is gone. From it follow `GoneByRequestOnly` and, statement by statement with its
  answer, the refinement of the set of pairs, `ImplementsPairSet`.
* `CommunityProofs`: `CInv`, about `CommentRooms`, adds to the types and the invariants what a request
  and a connection carry (`CallInv`, `ConnInv`), and two facts about the time
  between an INSERT and its broadcast: who was in the room when a comment was
  stored is still there or leaving (`MeantInv`), and a client that has read after
  it joined lacks only comments whose broadcast is still to reach it (`MissInv`).
  Without `MissInv` nothing would say, before the broadcast, that nobody is
  going to miss the comment; with it `EverybodyHears` is inductive. `RoomsAreExact`,
  `CommentsHaveVideos` and `DeletionsAreByRight` are from the same invariant.
  `CommunityIsBoth` shows that a behaviour of `MCCommunity` is one of `Engagement` and one of
  `CommentRooms`, hence `CommunityTypeCorrect`, and whatever else is proved of either.
* `RowsProofs`: the lemmas about `Lists` say where an element that is kept comes among
  the others. `ClassesAgree` says of all five classes that the two functions behind a
  statement go through the columns in the same order with the same conditions, so that
  the i-th argument is the one of the i-th question mark (`InsertedIsCreated`). `RowsInv` adds
  what a handler knows of the row it has inserted until it has read it back, and that a
  row's key was given to a handler, so that no second one inserts it. From it follow
  `AnswersAreOwn` and, with `SaveRowStep`, where a stale copy is written, the
  refinement of `RowStore`, `TablesAreKept`.
* `PlaybackProofs`: `PInv` says of every percentage, in Redis or in an answer, that
  some attempt has encoded that much. `LInv` says that the ids `getVideos` has collected
  are those of the history, and that nothing is listed before the end; `ListsAreWanted`
  is then about an order of a finite set (`OrderOfSet`). `BInv` says of a player's page
  that its cues are those of the video's length and its playlist the one that is
  stored, and that sheets are stored before cues and cues before `completed`.
  `PlaceOfPicture` and `ShownCues` are the arithmetic: the nth cue begins where the one
  before it ends and names the row and the column of the nth picture, for every
  length, limit and size of a sheet; with `IntervalAndCount` and `PicturesAreThere` no
  full interval lacks its picture. Hence `PlayersAreServed`.
* `ServicesProofs`: `XInv`, about `ExternalVideos`, adds to the types what a handler that awaits knows
  of its row (`ReqInv`), that a video about to be inserted is known to nobody else
  (`PostInv`, `UsedInv`), and `CallPerCooldown` itself. `ColumnsAreKept` is by cases on who
  writes: an update of the length leaves the texts, one of the texts leaves
  the length. `SInv`, about `StampCache`, adds to the types when the entries of the cache and the
  answers under way were true (`KeptSince`, `InFlight`); the bound is by two lemmas
  about the cardinality of what an eviction leaves. `ServicesAreEach` shows that a
  behaviour of `MCServices` is one of each of its six modules, hence `ServicesTypeCorrect`.

Only model-checked: `UploadSettles`, `ViewsReachTheRow` and `LengthArrives`, as
liveness is outside the prover. Every other property of the passing runs is proved.

## Not modelled

* Authentication (`api_auth.cpp`, `AuthFilter.cpp`, `Token.cpp`): checks of one request
  against its own header, without state or an await between check and use.
* Share pages: HTML from one row. Start-up: configuration and CORS; its
  timer is in `ViewCounter`.
* Reads of one statement (`getVideo`, `getLikes`, `getTags`, search for tags) and the
  redirects to single thumbnails: they have no state to be wrong about.
* The regular expressions for URLs and ISO 8601 durations: modelled by what they
  decide. The paging of `deleteFolder` and the lifetime of signed URLs: a deletion of
  a folder is one step or fails.
* The parts of the generated classes no handler reaches: constructors from JSON,
  validators, masqueraded variants, and UPDATE for the tables that are never
  updated.
* `worker.py`, which only starts the worker; the options of ffmpeg; build files,
  containers and the HTTP smoke test.
