----------------------------- MODULE EncodeWorker -----------------------------
(***************************************************************************)
(* The encoder process of worker/worker.cpp and the two buckets it works   *)
(* on.  One process is started per dispatched video.  It probes the source *)
(* "videofiles/<id>.mp4", encodes into a local scratch directory, uploads  *)
(* five artifacts to "videos/hls/<id>/" in a fixed order, removes the      *)
(* scratch directory and the source, and posts one verdict to the backend. *)
(*                                                                         *)
(* The processes run beside one another and beside an environment that     *)
(* starts them, uploads sources, empties HLS folders and takes verdicts;   *)
(* VideoPipeline replaces that environment by the backend's handlers.      *)
(*                                                                         *)
(* A definition whose comment begins with "Slip" is no part of the model:  *)
(* it is a wrong version of the definition after it, the README says of    *)
(* which property.                                                         *)
(*                                                                         *)
(* Abstractions.  The files a client PUTs for a video are numbered, and an *)
(* artifact in the bucket is the number of the file it was encoded from; a *)
(* file that is replaced while ffmpeg reads it counts as the one that was  *)
(* opened.  The thumbnail sheets are one artifact.  ffprobe and ffmpeg     *)
(* succeed or fail nondeterministically.                                   *)
(***************************************************************************)
EXTENDS Naturals

CONSTANTS Videos,         \* video ids
          Workers,        \* encoder processes; each is started at most once
          SourceLengths,  \* lengths ffprobe may report, in milliseconds
          Faults,         \* which faults an instance admits
          MaxPuts,        \* bound: files the client PUTs for one video
          SharedScratch,  \* TRUE: local workers on one host; FALSE: Modal
          None            \* "no video"

FaultKinds == {"upload", "unlink", "post", "worker",
               "dispatch", "db", "crash", "redeliver", "folder"}

ASSUME WorkerAssumption ==
    /\ SourceLengths \subseteq Nat
    /\ Faults \subseteq FaultKinds
    /\ MaxPuts \in Nat
    /\ SharedScratch \in BOOLEAN
    /\ None \notin Videos

VARIABLES stage,    \* stage[w]: where encoder process w is
          video,    \* video[w]: the video it was started for
          file,     \* file[w]: the number of the file its ffmpeg opened
          clash,    \* clash[w]: whether others wrote to its scratch directory
          length,   \* length[w]: the length it probed
          next,     \* next[w]: the artifact it uploads next
          failed,   \* history, failed[w]: the artifacts it failed to upload
          verdict,  \* verdict[w]: what it posts
          mailbox,  \* mailbox[w]: the POST to /webhooks/encode_result
          scratch,  \* scratch[d]: "none", "partial" or "complete" output files
          source,   \* the videos whose file is in the bucket videofiles
          puts,     \* puts[v]: the files PUT for v; the last is in the bucket
          hls,      \* hls[v][k]: the file artifact k in hls/<v>/ is made of, or 0
          marks     \* history: what has happened to the objects of a video

task == <<video, file, clash>>
progress == <<next, failed>>
process == <<stage, task, length, progress, verdict>>
bucket == <<source, puts, hls, marks>>
wvars == <<process, mailbox, scratch, bucket>>

(* The artifacts, numbered in the order the worker uploads them.           *)
Segments == 1
Playlist == 2
Sheets == 3
Vtt == 4
Thumbnail == 5
Artifacts == Segments..Thumbnail

Stages == {"unused", "spawned", "probed", "encoding", "uploading",
           "cleaning", "removing", "posting", "exited"}
Running == Stages \ {"unused", "exited"}

(* A process in these stages uses its scratch directory; until it has      *)
(* removed the source it holds a file it has opened.                       *)
Writing == {"encoding", "uploading", "cleaning"}
Holding == Writing \cup {"removing"}

(* Local workers of one video share /tmp/playbacq_encode/<id>; on Modal    *)
(* every process has a container of its own.                               *)
Dir(w) == IF SharedScratch THEN video[w] ELSE w
Dirs == Videos \cup Workers

Marks == {"replaced", "emptied", "worker", "post"}

WTypeOK ==
    /\ stage \in [Workers -> Stages]
    /\ video \in [Workers -> Videos \cup {None}]
    /\ file \in [Workers -> Nat]
    /\ clash \in [Workers -> BOOLEAN]
    /\ length \in [Workers -> Nat]
    /\ next \in [Workers -> Artifacts]
    /\ failed \in [Workers -> SUBSET Artifacts]
    /\ verdict \in [Workers -> {"none", "completed", "failed"}]
    /\ mailbox \in [Workers -> {"none", "sent", "taken"}]
    /\ scratch \in [Dirs -> {"none", "partial", "complete"}]
    /\ source \subseteq Videos
    /\ puts \in [Videos -> Nat]
    /\ hls \in [Videos -> [Artifacts -> Nat]]
    /\ marks \in [Videos -> SUBSET Marks]

WInit ==
    /\ stage = [w \in Workers |-> "unused"]
    /\ video = [w \in Workers |-> None]
    /\ file = [w \in Workers |-> 0]
    /\ clash = [w \in Workers |-> FALSE]
    /\ length = [w \in Workers |-> 0]
    /\ next = [w \in Workers |-> Segments]
    /\ failed = [w \in Workers |-> {}]
    /\ verdict = [w \in Workers |-> "none"]
    /\ mailbox = [w \in Workers |-> "none"]
    /\ scratch = [d \in Dirs |-> "none"]
    /\ source = {}
    /\ puts = [v \in Videos |-> 0]
    /\ hls = [v \in Videos |-> [k \in Artifacts |-> 0]]
    /\ marks = [v \in Videos |-> {}]

-----------------------------------------------------------------------------
(* The environment: the client's PUT, the start of a process, the deletion *)
(* of an HLS folder, and the backend taking a verdict.                     *)

(* The client PUTs a file through the presigned URL; the URL can be used   *)
(* again until it expires, also while a process holds the file before.     *)
Put(v) ==
    /\ puts[v] < MaxPuts
    /\ puts' = [puts EXCEPT ![v] = @ + 1]
    /\ source' = source \cup {v}
    /\ marks' = [marks EXCEPT ![v] = @ \cup
           {m \in {"replaced"} :
              \E w \in Workers : video[w] = v /\ stage[w] \in Holding}]
    /\ UNCHANGED <<process, mailbox, scratch, hls>>

(* A process is created for v: boost::process::child, or Modal's spawn.    *)
Spawn(w, v) ==
    /\ stage[w] = "unused"
    /\ stage' = [stage EXCEPT ![w] = "spawned"]
    /\ video' = [video EXCEPT ![w] = v]
    /\ UNCHANGED <<file, clash, length, progress, verdict, mailbox, scratch, bucket>>

(* DeleteObjects removes the folder's objects; some may be left over.      *)
EmptyFolder(v, left) ==
    /\ hls' = [hls EXCEPT ![v] =
                   [k \in Artifacts |-> IF k \in left THEN hls[v][k] ELSE 0]]
    /\ marks' = [marks EXCEPT ![v] = @ \cup {"emptied"}]
    /\ UNCHANGED <<process, mailbox, scratch, source, puts>>

TakeVerdict(w) ==
    /\ mailbox[w] = "sent"
    /\ mailbox' = [mailbox EXCEPT ![w] = "taken"]
    /\ UNCHANGED <<process, scratch, bucket>>

-----------------------------------------------------------------------------
(* The process.                                                            *)

Goto(w, from, to) ==
    /\ stage[w] = from
    /\ stage' = [stage EXCEPT ![w] = to]

(* The way to a return after postEncodeResult(.., "failed", ..).           *)
Fail(w, from) ==
    /\ Goto(w, from, "posting")
    /\ verdict' = [verdict EXCEPT ![w] = "failed"]
    /\ UNCHANGED <<task, length, progress, mailbox, bucket>>

(* Slip: a length of 0 is accepted.                                        *)
ProbeAnyLength(w, len) ==
    /\ Goto(w, "spawned", "probed")
    /\ video[w] \in source
    /\ length' = [length EXCEPT ![w] = len]
    /\ UNCHANGED <<task, progress, verdict, mailbox, scratch, bucket>>

(* ffprobe read a positive length.                                         *)
ProbeOk(w, len) ==
    /\ Goto(w, "spawned", "probed")
    /\ video[w] \in source
    /\ len > 0
    /\ length' = [length EXCEPT ![w] = len]
    /\ UNCHANGED <<task, progress, verdict, mailbox, scratch, bucket>>

(* Slip: the early return posts nothing.                                   *)
ProbeFailsSilently(w) ==
    /\ Goto(w, "spawned", "exited")
    /\ UNCHANGED <<task, length, progress, verdict, mailbox, scratch, bucket>>

(* ffprobe failed - no such object, or not a video - or the length is 0.   *)
ProbeFails(w) ==
    /\ Fail(w, "spawned")
    /\ UNCHANGED scratch

(* Local processes of one video that are at work in its directory.         *)
Beside(w) ==
    {x \in Workers \ {w} : stage[x] \in Writing /\ Dir(x) = Dir(w)}

(* The scratch directory is created and ffmpeg opens the file that is in   *)
(* the bucket; files of an earlier encode in a shared directory are        *)
(* truncated, also those that another process is still at work on.         *)
EncodeStart(w) ==
    /\ Goto(w, "probed", "encoding")
    /\ video[w] \in source
    /\ file' = [file EXCEPT ![w] = puts[video[w]]]
    /\ clash' = [x \in Workers |->
           \/ clash[x]
           \/ x \in Beside(w)
           \/ x = w /\ Beside(w) # {}]
    /\ scratch' = [scratch EXCEPT ![Dir(w)] = "partial"]
    /\ UNCHANGED <<video, length, progress, verdict, mailbox, bucket>>

(* ffmpeg cannot start on a source that is gone; the directory was created *)
(* and the files of an earlier encode in it stay.                          *)
EncodeNoSource(w) ==
    /\ Fail(w, "probed")
    /\ video[w] \notin source
    /\ scratch' = [scratch EXCEPT ![Dir(w)] = IF @ = "none" THEN "partial" ELSE @]

(* ffmpeg exits with 0.  If another process removed the directory while it *)
(* ran, its files are gone; if another one wrote them too, they may be     *)
(* broken.                                                                 *)
EncodeOk(w) ==
    /\ Goto(w, "encoding", "uploading")
    /\ \E files \in {"partial", "complete"} :
          /\ clash[w] \/ files = "complete"
          /\ scratch' = [scratch EXCEPT ![Dir(w)] =
                             IF @ = "none" THEN "none" ELSE files]
    /\ UNCHANGED <<task, length, progress, verdict, mailbox, bucket>>

(* Slip: the return after the failed encode is missing.                    *)
EncodeFailsFallsThrough(w) ==
    /\ Goto(w, "encoding", "uploading")
    /\ UNCHANGED <<task, length, progress, verdict, mailbox, scratch, bucket>>

(* ffmpeg exits with another code, or is missing; the scratch directory    *)
(* is left behind.                                                         *)
EncodeFails(w) ==
    /\ Fail(w, "encoding")
    /\ UNCHANGED scratch

(* Slip: the last artifact is tested with <= instead of <.                 *)
NextUploadOffByOne(w) ==
    \/ /\ next[w] <= Thumbnail
       /\ Goto(w, "uploading", "uploading")
       /\ next' = [next EXCEPT ![w] = @ + 1]
    \/ /\ next[w] > Thumbnail
       /\ Goto(w, "uploading", "cleaning")
       /\ UNCHANGED next

(* The process goes on to the next artifact whatever upload2MinIO          *)
(* returned.                                                               *)
NextUpload(w) ==
    \/ /\ next[w] < Thumbnail
       /\ Goto(w, "uploading", "uploading")
       /\ next' = [next EXCEPT ![w] = @ + 1]
    \/ /\ next[w] = Thumbnail
       /\ Goto(w, "uploading", "cleaning")
       /\ UNCHANGED next

(* Object k of the folder of w becomes a whole one, made of file f.        *)
Store(w, k, f) == hls' = [hls EXCEPT ![video[w]][k] = f]

(* Slip: the playlist is uploaded before the segments.                     *)
UploadPlaylistFirst(w) ==
    /\ NextUpload(w)
    /\ scratch[Dir(w)] = "complete"
    /\ Store(w, CASE next[w] = Segments -> Playlist
                  [] next[w] = Playlist -> Segments
                  [] OTHER -> next[w], file[w])
    /\ UNCHANGED <<task, length, failed, verdict, mailbox, scratch, source, puts, marks>>

(* The files that what is in the scratch directory of w may be made of.    *)
MadeOf(w) ==
    {file[w]} \cup
    {file[x] : x \in {y \in Workers : clash[w] /\ clash[y] /\ Dir(y) = Dir(w)}}

(* One upload2MinIO.  A complete file becomes a whole object; a file that  *)
(* another process is writing is missing or uploaded truncated, over the   *)
(* object that was there; a file that is gone is not uploaded.             *)
Upload(w) ==
    /\ NextUpload(w)
    /\ \/ /\ scratch[Dir(w)] = "complete"
          /\ \E f \in MadeOf(w) : Store(w, next[w], f)
       \/ /\ scratch[Dir(w)] = "partial"
          /\ UNCHANGED hls \/ Store(w, next[w], 0)
       \/ /\ scratch[Dir(w)] = "none"
          /\ UNCHANGED hls
    /\ UNCHANGED <<task, length, failed, verdict, mailbox, scratch, source, puts, marks>>

Mark(w, kind) == marks' = [marks EXCEPT ![video[w]] = @ \cup {kind}]

(* PutObject fails; the result of upload2MinIO is ignored.                 *)
UploadFails(w) ==
    /\ "upload" \in Faults
    /\ NextUpload(w)
    /\ failed' = [failed EXCEPT ![w] = @ \cup {next[w]}]
    /\ UNCHANGED <<task, length, verdict, mailbox, scratch, bucket>>

(* std::filesystem::remove_all on the scratch directory.                   *)
RemoveScratch(w) ==
    /\ Goto(w, "cleaning", "removing")
    /\ scratch' = [scratch EXCEPT ![Dir(w)] = "none"]
    /\ UNCHANGED <<task, length, progress, verdict, mailbox, bucket>>

(* deleteFromMinIO on the source, by its name: the file that is there now, *)
(* which may be a later one than file[w].  A failure of it is ignored.     *)
RemoveSource(w) ==
    /\ Goto(w, "removing", "posting")
    /\ verdict' = [verdict EXCEPT ![w] = "completed"]
    /\ \/ source' = source \ {video[w]}
       \/ "unlink" \in Faults /\ UNCHANGED source
    /\ UNCHANGED <<task, length, progress, mailbox, scratch, puts, hls, marks>>

(* postEncodeResult delivers the verdict to the backend.                   *)
Post(w) ==
    /\ Goto(w, "posting", "exited")
    /\ mailbox' = [mailbox EXCEPT ![w] = "sent"]
    /\ UNCHANGED <<task, length, progress, verdict, scratch, bucket>>

(* The POST fails, or the backend cannot parse its body: logged, never     *)
(* retried.                                                                *)
PostFails(w) ==
    /\ "post" \in Faults
    /\ Goto(w, "posting", "exited")
    /\ Mark(w, "post")
    /\ UNCHANGED <<task, length, progress, verdict, mailbox, scratch, source, puts, hls>>

(* The process ends without a verdict: Modal's one-hour timeout, a kill, a *)
(* remove_all or Redis exception.                                          *)
WorkerDies(w) ==
    /\ "worker" \in Faults
    /\ \E from \in Running : Goto(w, from, "exited")
    /\ Mark(w, "worker")
    /\ UNCHANGED <<task, length, progress, verdict, mailbox, scratch, source, puts, hls>>

WorkerStep(w) ==
    \/ \E len \in SourceLengths : ProbeOk(w, len)
    \/ ProbeFails(w)
    \/ EncodeStart(w)
    \/ EncodeNoSource(w)
    \/ EncodeOk(w)
    \/ EncodeFails(w)
    \/ Upload(w)
    \/ UploadFails(w)
    \/ RemoveScratch(w)
    \/ RemoveSource(w)
    \/ Post(w)
    \/ PostFails(w)
    \/ WorkerDies(w)

Environment ==
    \/ \E v \in Videos : Put(v)
    \/ \E w \in Workers, v \in Videos : Spawn(w, v)
    \/ \E v \in Videos, left \in SUBSET Artifacts : EmptyFolder(v, left)
    \/ \E w \in Workers : TakeVerdict(w)

WNext == Environment \/ \E w \in Workers : WorkerStep(w)

(* What the encoder processes do in any environment of that kind.          *)
WorkerSpec == WInit /\ [][WNext]_wvars

(* What the verdict of w carries; a failure is posted with duration 0.     *)
VerdictDuration(w) ==
    IF verdict[w] = "completed" THEN length[w] \div 1000 ELSE 0

-----------------------------------------------------------------------------
(* No deletion emptied the folder of v, and no two processes were at work  *)
(* in one scratch directory of v at a time.                                *)
Undisturbed(v) ==
    /\ "emptied" \notin marks[v]
    /\ \A w \in Workers : video[w] = v => ~clash[w]

(* The processes that took all the steps to a verdict "completed" for v.   *)
Finished(v) == {w \in Workers : video[w] = v /\ verdict[w] = "completed"}

(* A file is destroyed only after its own encoding was stored: if the last *)
(* file PUT for v is gone, a process that had opened this very file went   *)
(* through all its uploads, and what it uploaded is in the bucket, made of *)
(* this file and no earlier one; an artifact is missing only if its upload *)
(* failed (worker.cpp removes the source by name after all uploads).  The  *)
(* code does not keep this promise to a client that PUTs while a process   *)
(* holds the file before: worker.cpp:492 then deletes a file that nobody   *)
(* has read.  Such a video is "replaced".                                  *)
SourceGoneMeansStored ==
    \A v \in Videos :
        (puts[v] > 0 /\ v \notin source /\ "replaced" \notin marks[v]) =>
        LET readers == {w \in Finished(v) : file[w] = puts[v]}
        IN  /\ readers # {}
            /\ Undisturbed(v) =>
                  \A w \in readers : \A k \in Artifacts \ failed[w] :
                      hls[v][k] = puts[v]

(* No player can fetch a playlist whose segments are not there, unless the *)
(* upload of the segments failed: output.m4s is uploaded before            *)
(* output.m3u8.                                                            *)
PlaylistHasSegments ==
    \A v \in Videos : Undisturbed(v) /\ hls[v][Playlist] # 0 =>
        \/ hls[v][Segments] # 0
        \/ \E w \in Workers : video[w] = v /\ Segments \in failed[w]

(* A process speaks at most once and only for a video it was started for,  *)
(* and "completed" is only posted for a positive probed length.            *)
VerdictIsEarned ==
    \A w \in Workers : mailbox[w] # "none" =>
        /\ stage[w] = "exited"
        /\ verdict[w] = "completed" => length[w] > 0
        /\ verdict[w] # "none"
=============================================================================
