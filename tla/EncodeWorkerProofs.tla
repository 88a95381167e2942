-------------------------- MODULE EncodeWorkerProofs --------------------------
(***************************************************************************)
(* Proofs about EncodeWorker, for any number of videos and processes, any  *)
(* faults, shared scratch directories or not.                              *)
(***************************************************************************)
EXTENDS EncodeWorker, TLAPS

-----------------------------------------------------------------------------
(* Type correctness of the encoder processes and their buckets.            *)
LEMMA TypeInit == WInit => WTypeOK
BY DEF WInit, WTypeOK, Stages, Artifacts, Segments, Thumbnail, Marks

LEMMA TypeStep == WTypeOK /\ [WNext]_wvars => WTypeOK'
<1> SUFFICES ASSUME WTypeOK, [WNext]_wvars PROVE WTypeOK'
  OBVIOUS
<1> USE WorkerAssumption
    DEF WTypeOK, Stages, Artifacts, Segments, Thumbnail, Marks, process, task, progress, bucket
<1>1. ASSUME NEW v \in Videos, Put(v) PROVE WTypeOK'
  BY <1>1 DEF Put
<1>2. ASSUME NEW w \in Workers, NEW v \in Videos, Spawn(w, v) PROVE WTypeOK'
  BY <1>2 DEF Spawn
<1>3. ASSUME NEW v \in Videos, NEW left \in SUBSET Artifacts, EmptyFolder(v, left)
      PROVE WTypeOK'
  BY <1>3 DEF EmptyFolder
<1>4. ASSUME NEW w \in Workers, TakeVerdict(w) PROVE WTypeOK'
  BY <1>4 DEF TakeVerdict
<1>5. ASSUME NEW w \in Workers, NEW len \in SourceLengths, ProbeOk(w, len)
      PROVE WTypeOK'
  BY <1>5 DEF ProbeOk, Goto
<1>6. ASSUME NEW w \in Workers, ProbeFails(w) PROVE WTypeOK'
  BY <1>6 DEF ProbeFails, Fail, Goto
<1>7. ASSUME NEW w \in Workers, EncodeStart(w) PROVE WTypeOK'
  BY <1>7 DEF EncodeStart, Goto
<1>8. ASSUME NEW w \in Workers, EncodeNoSource(w) PROVE WTypeOK'
  BY <1>8 DEF EncodeNoSource, Fail, Goto
<1>9. ASSUME NEW w \in Workers, EncodeOk(w) PROVE WTypeOK'
  BY <1>9 DEF EncodeOk, Goto
<1>10. ASSUME NEW w \in Workers, EncodeFails(w) PROVE WTypeOK'
  BY <1>10 DEF EncodeFails, Fail, Goto
<1>11. ASSUME NEW w \in Workers, Upload(w) PROVE WTypeOK'
  <2>1. stage' \in [Workers -> Stages] /\ next' \in [Workers -> Artifacts]
    BY <1>11 DEF Upload, NextUpload, Goto
  <2>2. MadeOf(w) \subseteq Nat
    BY DEF MadeOf
  <2>3. hls' \in [Videos -> [Artifacts -> Nat]]
    <3>1. \E f \in Nat : hls' = hls \/ Store(w, next[w], f)
      BY <1>11, <2>2 DEF Upload
    <3> QED
      BY <3>1 DEF Store
  <2> QED
    BY <1>11, <2>1, <2>3 DEF Upload
<1>12. ASSUME NEW w \in Workers, UploadFails(w) PROVE WTypeOK'
  <2>1. stage' \in [Workers -> Stages] /\ next' \in [Workers -> Artifacts]
    BY <1>12 DEF UploadFails, NextUpload, Goto
  <2>2. failed' \in [Workers -> SUBSET Artifacts]
    BY <1>12 DEF UploadFails
  <2> QED
    BY <1>12, <2>1, <2>2 DEF UploadFails
<1>13. ASSUME NEW w \in Workers, RemoveScratch(w) PROVE WTypeOK'
  BY <1>13 DEF RemoveScratch, Goto
<1>14. ASSUME NEW w \in Workers, RemoveSource(w) PROVE WTypeOK'
  BY <1>14 DEF RemoveSource, Goto
<1>15. ASSUME NEW w \in Workers, Post(w) PROVE WTypeOK'
  BY <1>15 DEF Post, Goto
<1>16. ASSUME NEW w \in Workers, PostFails(w) PROVE WTypeOK'
  BY <1>16 DEF PostFails, Goto, Mark
<1>17. ASSUME NEW w \in Workers, WorkerDies(w) PROVE WTypeOK'
  BY <1>17 DEF WorkerDies, Goto, Mark
<1>18. CASE UNCHANGED wvars
  BY <1>18 DEF wvars
<1> QED
  BY <1>1, <1>2, <1>3, <1>4, <1>5, <1>6, <1>7, <1>8, <1>9, <1>10, <1>11,
     <1>12, <1>13, <1>14, <1>15, <1>16, <1>17, <1>18
  DEF WNext, Environment, WorkerStep

THEOREM WorkerTypeCorrect == WorkerSpec => []WTypeOK
<1>1. WInit => WTypeOK
  BY TypeInit
<1>2. WTypeOK /\ [WNext]_wvars => WTypeOK'
  BY TypeStep
<1> QED
  BY <1>1, <1>2, PTL DEF WorkerSpec

-----------------------------------------------------------------------------
(* The inductive invariant.  What a process has in its variables follows   *)
(* its stage; two processes that are at work in one directory know it; a   *)
(* process holds the last file unless the video was replaced, and the last *)
(* file, when it is gone, was encoded; and in an undisturbed folder the    *)
(* artifacts before next[w] are there, because nobody else writes to the   *)
(* scratch directory of w meanwhile.                                       *)
ProcessInv ==
    \A w \in Workers :
        /\ stage[w] = "unused" <=> video[w] = None
        /\ stage[w] \in {"unused", "spawned", "probed", "encoding"} =>
              next[w] = Segments
        /\ verdict[w] # "none" => stage[w] \in {"posting", "exited"}
        /\ stage[w] = "posting" => verdict[w] # "none"
        /\ stage[w] \in {"probed", "encoding", "uploading", "cleaning", "removing"}
              => length[w] > 0
        /\ verdict[w] = "completed" => length[w] > 0
        /\ mailbox[w] # "none" => stage[w] = "exited" /\ verdict[w] # "none"

ClashInv ==
    \A w, x \in Workers :
        (/\ w # x
         /\ stage[w] \in Writing /\ stage[x] \in Writing
         /\ Dir(w) = Dir(x))
        => clash[w]

FileInv ==
    /\ \A v \in source : puts[v] > 0
    /\ \A w \in Workers : stage[w] \in {"unused", "spawned", "probed"} => file[w] = 0
    /\ \A w \in Workers : video[w] # None => file[w] <= puts[video[w]]
    /\ \A w \in Workers : stage[w] \in Holding => file[w] > 0

HeldInv ==
    \A w \in Workers :
        (stage[w] \in Holding /\ "replaced" \notin marks[video[w]]) =>
            file[w] = puts[video[w]]

Readers(v) == {w \in Finished(v) : file[w] = puts[v]}

SourceInv ==
    \A v \in Videos :
        (puts[v] > 0 /\ v \notin source /\ "replaced" \notin marks[v]) =>
            Readers(v) # {}

ScratchOK(w) ==
    /\ stage[w] = "encoding" => scratch[Dir(w)] = "partial"
    /\ stage[w] \in {"uploading", "cleaning"} => scratch[Dir(w)] = "complete"

ScratchInv == \A w \in Workers : ~clash[w] => ScratchOK(w)

(* Artifact k of w is behind it: uploaded, or its upload failed.           *)
Behind(w, k) ==
    /\ k \in Artifacts \ failed[w]
    /\ \/ stage[w] = "uploading" /\ k < next[w]
       \/ stage[w] \in {"cleaning", "removing"}
       \/ verdict[w] = "completed"

StoreInv ==
    \A w \in Workers, k \in Artifacts :
        (video[w] # None /\ Undisturbed(video[w]) /\ Behind(w, k)) =>
            /\ hls[video[w]][k] # 0
            /\ ("replaced" \notin marks[video[w]] /\ file[w] = puts[video[w]]) =>
                  hls[video[w]][k] = puts[video[w]]

WInv == /\ WTypeOK
        /\ ProcessInv
        /\ ClashInv
        /\ FileInv
        /\ HeldInv
        /\ SourceInv
        /\ ScratchInv
        /\ StoreInv
        /\ PlaylistHasSegments

(* A process has a video from its start on, one verdict, one POST.         *)
LEMMA ProcessStep ==
  ASSUME WTypeOK, ProcessInv, [WNext]_wvars PROVE ProcessInv'
<1> USE WorkerAssumption DEF WTypeOK, ProcessInv, Stages, Segments, process, task, progress, bucket
<1>1. ASSUME NEW v \in Videos, Put(v) PROVE ProcessInv'
  BY <1>1 DEF Put
<1>2. ASSUME NEW w \in Workers, NEW v \in Videos, Spawn(w, v)
      PROVE ProcessInv'
  BY <1>2 DEF Spawn
<1>3. ASSUME NEW v \in Videos, NEW left \in SUBSET Artifacts, EmptyFolder(v, left)
      PROVE ProcessInv'
  BY <1>3 DEF EmptyFolder
<1>4. ASSUME NEW w \in Workers, TakeVerdict(w) PROVE ProcessInv'
  BY <1>4 DEF TakeVerdict
<1>5. ASSUME NEW w \in Workers, NEW len \in SourceLengths, ProbeOk(w, len)
      PROVE ProcessInv'
  BY <1>5 DEF ProbeOk, Goto
<1>6. ASSUME NEW w \in Workers, ProbeFails(w) PROVE ProcessInv'
  BY <1>6 DEF ProbeFails, Fail, Goto
<1>7. ASSUME NEW w \in Workers, EncodeStart(w) PROVE ProcessInv'
  BY <1>7 DEF EncodeStart, Goto
<1>8. ASSUME NEW w \in Workers, EncodeNoSource(w) PROVE ProcessInv'
  BY <1>8 DEF EncodeNoSource, Fail, Goto
<1>9. ASSUME NEW w \in Workers, EncodeOk(w) PROVE ProcessInv'
  BY <1>9 DEF EncodeOk, Goto
<1>10. ASSUME NEW w \in Workers, EncodeFails(w) PROVE ProcessInv'
  BY <1>10 DEF EncodeFails, Fail, Goto
<1>11. ASSUME NEW w \in Workers, Upload(w) PROVE ProcessInv'
  BY <1>11 DEF Upload, NextUpload, Goto
<1>12. ASSUME NEW w \in Workers, UploadFails(w) PROVE ProcessInv'
  BY <1>12 DEF UploadFails, NextUpload, Goto, Mark
<1>13. ASSUME NEW w \in Workers, RemoveScratch(w) PROVE ProcessInv'
  BY <1>13 DEF RemoveScratch, Goto
<1>14. ASSUME NEW w \in Workers, RemoveSource(w) PROVE ProcessInv'
  BY <1>14 DEF RemoveSource, Goto
<1>15. ASSUME NEW w \in Workers, Post(w) PROVE ProcessInv'
  BY <1>15 DEF Post, Goto
<1>16. ASSUME NEW w \in Workers, PostFails(w) PROVE ProcessInv'
  BY <1>16 DEF PostFails, Goto, Mark
<1>17. ASSUME NEW w \in Workers, WorkerDies(w) PROVE ProcessInv'
  BY <1>17 DEF WorkerDies, Goto, Running, Mark
<1>18. CASE UNCHANGED wvars
  BY <1>18 DEF wvars
<1> QED
  BY <1>1, <1>2, <1>3, <1>4, <1>5, <1>6, <1>7, <1>8, <1>9,
     <1>10, <1>11, <1>12, <1>13, <1>14, <1>15, <1>16, <1>17, <1>18
  DEF WNext, Environment, WorkerStep

(* What is never undone: the marks and files of a video; the video of a    *)
(* process, what went wrong in it, its verdict once it is "completed", and *)
(* all of it once it has exited.                                           *)
History ==
    /\ \A v \in Videos : marks[v] \subseteq marks'[v] /\ puts[v] <= puts'[v]
    /\ \A w \in Workers : video[w] # None => video'[w] = video[w]
    /\ \A w \in Workers : clash[w] => clash'[w]
    /\ \A w \in Workers : failed[w] \subseteq failed'[w]
    /\ \A w \in Workers : verdict[w] = "completed" =>
          verdict'[w] = "completed" /\ file'[w] = file[w]
    /\ \A w \in Workers : stage[w] # "unused" => stage'[w] # "unused"
    /\ \A w \in Workers : stage[w] = "exited" =>
          /\ stage'[w] = "exited"
          /\ verdict'[w] = verdict[w]
          /\ length'[w] = length[w]

LEMMA HistoryStep ==
  ASSUME WTypeOK, ProcessInv, [WNext]_wvars PROVE History
<1> USE DEF WTypeOK, ProcessInv, History, process, task, progress, bucket
<1>1. ASSUME NEW v \in Videos, Put(v) PROVE History
  BY <1>1 DEF Put
<1>2. ASSUME NEW w \in Workers, NEW v \in Videos, Spawn(w, v) PROVE History
  BY <1>2 DEF Spawn
<1>3. ASSUME NEW v \in Videos, NEW left \in SUBSET Artifacts, EmptyFolder(v, left)
      PROVE History
  BY <1>3 DEF EmptyFolder
<1>4. ASSUME NEW w \in Workers, TakeVerdict(w) PROVE History
  BY <1>4 DEF TakeVerdict
<1>5. ASSUME NEW w \in Workers, NEW len \in SourceLengths, ProbeOk(w, len)
      PROVE History
  BY <1>5 DEF ProbeOk, Goto
<1>6. ASSUME NEW w \in Workers, ProbeFails(w) PROVE History
  BY <1>6 DEF ProbeFails, Fail, Goto
<1>7. ASSUME NEW w \in Workers, EncodeStart(w) PROVE History
  <2>1. \A x \in Workers : clash[x] => clash'[x]
    BY <1>7 DEF EncodeStart
  <2>2. /\ stage[w] = "probed" /\ stage' = [stage EXCEPT ![w] = "encoding"]
        /\ file' = [file EXCEPT ![w] = puts[video[w]]]
        /\ UNCHANGED <<video, length, next, failed, verdict, puts, marks>>
    BY <1>7 DEF EncodeStart, Goto
  <2> QED
    BY <2>1, <2>2
<1>8. ASSUME NEW w \in Workers, EncodeNoSource(w) PROVE History
  BY <1>8 DEF EncodeNoSource, Fail, Goto
<1>9. ASSUME NEW w \in Workers, EncodeOk(w) PROVE History
  BY <1>9 DEF EncodeOk, Goto
<1>10. ASSUME NEW w \in Workers, EncodeFails(w) PROVE History
  BY <1>10 DEF EncodeFails, Fail, Goto
<1>11. ASSUME NEW w \in Workers, Upload(w) PROVE History
  BY <1>11 DEF Upload, NextUpload, Goto
<1>12. ASSUME NEW w \in Workers, UploadFails(w) PROVE History
  BY <1>12 DEF UploadFails, NextUpload, Goto, Mark
<1>13. ASSUME NEW w \in Workers, RemoveScratch(w) PROVE History
  BY <1>13 DEF RemoveScratch, Goto
<1>14. ASSUME NEW w \in Workers, RemoveSource(w) PROVE History
  BY <1>14 DEF RemoveSource, Goto
<1>15. ASSUME NEW w \in Workers, Post(w) PROVE History
  BY <1>15 DEF Post, Goto
<1>16. ASSUME NEW w \in Workers, PostFails(w) PROVE History
  BY <1>16 DEF PostFails, Goto, Mark
<1>17. ASSUME NEW w \in Workers, WorkerDies(w) PROVE History
  BY <1>17 DEF WorkerDies, Goto, Running, Mark
<1>18. CASE UNCHANGED wvars
  BY <1>18 DEF wvars
<1> QED
  BY <1>1, <1>2, <1>3, <1>4, <1>5, <1>6, <1>7, <1>8, <1>9,
     <1>10, <1>11, <1>12, <1>13, <1>14, <1>15, <1>16, <1>17, <1>18
  DEF WNext, Environment, WorkerStep

(* A step of process w is not its start, and changes no other process; it  *)
(* posts at most its own verdict.                                          *)
LEMMA ProcessIsAlone ==
  ASSUME WTypeOK, ProcessInv, NEW w \in Workers, WorkerStep(w)
  PROVE  /\ video' = video
         /\ stage[w] \in Running
         /\ \A u \in Workers : u # w =>
               /\ stage'[u] = stage[u]
               /\ verdict'[u] = verdict[u]
               /\ length'[u] = length[u]
               /\ mailbox'[u] = mailbox[u]
         /\ stage'[w] # "unused"
         /\ mailbox[w] = "none"
         /\ mailbox'[w] # "taken"
         /\ source' \subseteq source
<1> DEFINE Own == /\ video' = video
                  /\ stage[w] \in Running
                  /\ \A u \in Workers : u # w =>
                        /\ stage'[u] = stage[u]
                        /\ verdict'[u] = verdict[u]
                        /\ length'[u] = length[u]
                        /\ mailbox'[u] = mailbox[u]
                  /\ stage'[w] # "unused"
                  /\ mailbox[w] = "none"
                  /\ mailbox'[w] # "taken"
                  /\ source' \subseteq source
<1> USE DEF WTypeOK, ProcessInv, Running, Stages, process, task, progress, bucket
<1>1. ASSUME NEW len \in SourceLengths, ProbeOk(w, len) PROVE Own
  BY <1>1 DEF ProbeOk, Goto
<1>2. ASSUME ProbeFails(w) PROVE Own
  BY <1>2 DEF ProbeFails, Fail, Goto
<1>3. ASSUME EncodeStart(w) PROVE Own
  BY <1>3 DEF EncodeStart, Goto
<1>4. ASSUME EncodeNoSource(w) PROVE Own
  BY <1>4 DEF EncodeNoSource, Fail, Goto
<1>5. ASSUME EncodeOk(w) PROVE Own
  BY <1>5 DEF EncodeOk, Goto
<1>6. ASSUME EncodeFails(w) PROVE Own
  BY <1>6 DEF EncodeFails, Fail, Goto
<1>7. ASSUME Upload(w) PROVE Own
  BY <1>7 DEF Upload, NextUpload, Goto
<1>8. ASSUME UploadFails(w) PROVE Own
  BY <1>8 DEF UploadFails, NextUpload, Goto, Mark
<1>9. ASSUME RemoveScratch(w) PROVE Own
  BY <1>9 DEF RemoveScratch, Goto
<1>10. ASSUME RemoveSource(w) PROVE Own
  BY <1>10 DEF RemoveSource, Goto
<1>11. ASSUME Post(w) PROVE Own
  BY <1>11 DEF Post, Goto
<1>12. ASSUME PostFails(w) PROVE Own
  BY <1>12 DEF PostFails, Goto, Mark
<1>13. ASSUME WorkerDies(w) PROVE Own
  BY <1>13 DEF WorkerDies, Goto, Running, Mark
<1> QED
  BY <1>1, <1>2, <1>3, <1>4, <1>5, <1>6, <1>7, <1>8, <1>9,
     <1>10, <1>11, <1>12, <1>13 DEF WorkerStep

LEMMA UndisturbedShrinks ==
  ASSUME WTypeOK, ProcessInv, [WNext]_wvars, NEW v \in Videos, Undisturbed(v)'
  PROVE  Undisturbed(v)
<1>1. History
  BY HistoryStep
<1>2. "emptied" \notin marks[v]
  BY <1>1 DEF History, Undisturbed
<1>3. ASSUME NEW w \in Workers, video[w] = v PROVE ~clash[w]
  BY <1>1, <1>3, WorkerAssumption DEF History, Undisturbed
<1> QED
  BY <1>2, <1>3 DEF Undisturbed

(* Only EncodeStart opens a file and begins to write, only Put brings one, *)
(* and only RemoveSource takes one away.                                   *)
Movement ==
    /\ \A w \in Workers :
          \/ EncodeStart(w)
          \/ /\ file'[w] = file[w]
             /\ stage'[w] \in Writing => stage[w] \in Writing
             /\ stage'[w] \in Holding => stage[w] \in Holding
             /\ stage'[w] \in {"unused", "spawned", "probed"} =>
                   stage[w] \in {"unused", "spawned", "probed"}
    /\ \/ \E v \in Videos : Put(v)
       \/ /\ puts' = puts
          /\ \A v \in Videos : v \in source' => v \in source
          /\ \A v \in source : v \in source'
                \/ \E w \in Workers : RemoveSource(w) /\ video[w] = v

LEMMA MovementStep ==
  ASSUME WTypeOK, [WNext]_wvars PROVE Movement
<1> USE DEF WTypeOK, Movement, Writing, Holding, process, task, progress, bucket
<1>1. ASSUME NEW v \in Videos, Put(v) PROVE Movement
  BY <1>1 DEF Put
<1>2. ASSUME NEW w \in Workers, NEW v \in Videos, Spawn(w, v) PROVE Movement
  BY <1>2 DEF Spawn
<1>3. ASSUME NEW v \in Videos, NEW left \in SUBSET Artifacts, EmptyFolder(v, left)
      PROVE Movement
  BY <1>3 DEF EmptyFolder
<1>4. ASSUME NEW w \in Workers, TakeVerdict(w) PROVE Movement
  BY <1>4 DEF TakeVerdict
<1>5. ASSUME NEW w \in Workers, NEW len \in SourceLengths, ProbeOk(w, len)
      PROVE Movement
  BY <1>5 DEF ProbeOk, Goto
<1>6. ASSUME NEW w \in Workers, ProbeFails(w) PROVE Movement
  BY <1>6 DEF ProbeFails, Fail, Goto
<1>7. ASSUME NEW w \in Workers, EncodeStart(w) PROVE Movement
  <2>1. ASSUME NEW u \in Workers, u # w
        PROVE file'[u] = file[u] /\ stage'[u] = stage[u]
    BY <1>7, <2>1 DEF EncodeStart, Goto
  <2>2. puts' = puts /\ source' = source
    BY <1>7 DEF EncodeStart
  <2> HIDE DEF WTypeOK
  <2> QED
    BY <1>7, <2>1, <2>2
<1>8. ASSUME NEW w \in Workers, EncodeNoSource(w) PROVE Movement
  BY <1>8 DEF EncodeNoSource, Fail, Goto
<1>9. ASSUME NEW w \in Workers, EncodeOk(w) PROVE Movement
  BY <1>9 DEF EncodeOk, Goto
<1>10. ASSUME NEW w \in Workers, EncodeFails(w) PROVE Movement
  BY <1>10 DEF EncodeFails, Fail, Goto
<1>11. ASSUME NEW w \in Workers, Upload(w) PROVE Movement
  BY <1>11 DEF Upload, NextUpload, Goto
<1>12. ASSUME NEW w \in Workers, UploadFails(w) PROVE Movement
  BY <1>12 DEF UploadFails, NextUpload, Goto
<1>13. ASSUME NEW w \in Workers, RemoveScratch(w) PROVE Movement
  BY <1>13 DEF RemoveScratch, Goto
<1>14. ASSUME NEW w \in Workers, RemoveSource(w) PROVE Movement
  <2>1. /\ puts' = puts /\ file' = file
        /\ stage' = [stage EXCEPT ![w] = "posting"]
        /\ source' = source \ {video[w]} \/ source' = source
    BY <1>14 DEF RemoveSource, Goto
  <2> QED
    BY <1>14, <2>1
<1>15. ASSUME NEW w \in Workers, Post(w) PROVE Movement
  BY <1>15 DEF Post, Goto
<1>16. ASSUME NEW w \in Workers, PostFails(w) PROVE Movement
  BY <1>16 DEF PostFails, Goto
<1>17. ASSUME NEW w \in Workers, WorkerDies(w) PROVE Movement
  BY <1>17 DEF WorkerDies, Goto
<1>18. CASE UNCHANGED wvars
  BY <1>18 DEF wvars
<1> QED
  BY <1>1, <1>2, <1>3, <1>4, <1>5, <1>6, <1>7, <1>8, <1>9,
     <1>10, <1>11, <1>12, <1>13, <1>14, <1>15, <1>16, <1>17, <1>18
  DEF WNext, Environment, WorkerStep

(* A process that starts to write beside another one tells both.           *)
LEMMA ClashStep ==
  ASSUME WTypeOK, ProcessInv, ClashInv, [WNext]_wvars PROVE ClashInv'
<1> SUFFICES ASSUME NEW w \in Workers, NEW x \in Workers, w # x,
                    stage'[w] \in Writing, stage'[x] \in Writing, Dir(w)' = Dir(x)'
             PROVE  clash'[w]
  BY DEF ClashInv
<1>1. History /\ Movement
  BY HistoryStep, MovementStep
<1>2. ASSUME NEW u \in Workers, stage[u] # "unused" PROVE Dir(u)' = Dir(u)
  BY <1>1, <1>2 DEF History, ProcessInv, Dir
<1>3. ASSUME NEW u \in Workers, NEW y \in Workers, u # y, EncodeStart(u)
      PROVE  stage[u] = "probed" /\ stage'[y] = stage[y]
  BY <1>3 DEF EncodeStart, Goto, WTypeOK
<1>4. CASE EncodeStart(w)
  <2>1. x \in Beside(w)
    BY <1>2, <1>3, <1>4 DEF Beside, Writing
  <2> QED
    BY <1>4, <2>1 DEF EncodeStart
<1>5. CASE EncodeStart(x)
  <2>1. w \in Beside(x)
    BY <1>2, <1>3, <1>5 DEF Beside, Writing
  <2> QED
    BY <1>5, <2>1 DEF EncodeStart
<1>6. CASE ~EncodeStart(w) /\ ~EncodeStart(x)
  <2>1. stage[w] \in Writing /\ stage[x] \in Writing
    BY <1>1, <1>6 DEF Movement
  <2>2. Dir(w) = Dir(x)
    BY <1>2, <2>1 DEF Writing
  <2> QED
    BY <1>1, <2>1, <2>2 DEF ClashInv, History
<1> QED
  BY <1>4, <1>5, <1>6

(* A file that was opened is one of those that were PUT.                   *)
LEMMA FileStep ==
  ASSUME WTypeOK, ProcessInv, FileInv, [WNext]_wvars PROVE FileInv'
<1>1. History /\ Movement
  BY HistoryStep, MovementStep
<1>2. ASSUME NEW v \in Videos PROVE puts[v] \in Nat /\ puts'[v] \in Nat /\ puts[v] <= puts'[v]
  BY <1>1, TypeStep DEF WTypeOK, History
<1>3. ASSUME NEW w \in Workers, EncodeStart(w)
      PROVE  /\ video'[w] = video[w] /\ video[w] \in source
             /\ puts' = puts /\ file'[w] = puts[video[w]]
             /\ stage[w] = "probed" /\ stage'[w] = "encoding"
  BY <1>3 DEF EncodeStart, Goto, WTypeOK, bucket
<1>4. ASSUME NEW v \in source' PROVE puts'[v] > 0
  <2>1. CASE \E u \in Videos : Put(u)
    <3>1. PICK u \in Videos : Put(u)
      BY <2>1
    <3>2. v \in Videos
      BY TypeStep DEF WTypeOK
    <3>3. source' = source \cup {u} /\ puts'[u] = puts[u] + 1
      BY <3>1 DEF Put, WTypeOK
    <3> QED
      BY <3>2, <3>3, <1>2 DEF FileInv
  <2>2. CASE ~\E u \in Videos : Put(u)
    BY <1>1, <2>2, TypeStep DEF Movement, FileInv, WTypeOK
  <2> QED
    BY <2>1, <2>2
<1>5. ASSUME NEW w \in Workers, stage'[w] \in {"unused", "spawned", "probed"}
      PROVE  file'[w] = 0
  BY <1>1, <1>3, <1>5 DEF Movement, FileInv
<1>6. ASSUME NEW w \in Workers, video'[w] # None PROVE file'[w] <= puts'[video'[w]]
  <2>1. video'[w] \in Videos
    BY <1>6, TypeStep DEF WTypeOK
  <2>2. CASE EncodeStart(w)
    BY <1>2, <1>3, <2>1, <2>2
  <2>3. CASE ~EncodeStart(w) /\ video[w] # None
    <3>1. file'[w] = file[w] /\ video'[w] = video[w]
      BY <1>1, <2>3 DEF Movement, History
    <3>2. file[w] <= puts[video[w]] /\ file[w] \in Nat
      BY <2>3 DEF FileInv, WTypeOK
    <3> QED
      BY <1>2, <2>1, <3>1, <3>2
  <2>4. CASE ~EncodeStart(w) /\ video[w] = None
    <3>1. file'[w] = 0
      BY <1>1, <2>4 DEF Movement, FileInv, ProcessInv
    <3> QED
      BY <1>2, <2>1, <3>1
  <2> QED
    BY <2>2, <2>3, <2>4
<1>7. ASSUME NEW w \in Workers, stage'[w] \in Holding PROVE file'[w] > 0
  BY <1>1, <1>3, <1>7 DEF Movement, FileInv
<1> QED
  BY <1>4, <1>5, <1>6, <1>7 DEF FileInv

(* While nobody PUTs beside them, the processes hold the last file.        *)
LEMMA HeldStep ==
  ASSUME WTypeOK, ProcessInv, HeldInv, [WNext]_wvars PROVE HeldInv'
<1> SUFFICES ASSUME NEW w \in Workers, stage'[w] \in Holding,
                    "replaced" \notin marks'[video'[w]]
             PROVE  file'[w] = puts'[video'[w]]
  BY DEF HeldInv
<1>1. History /\ Movement
  BY HistoryStep, MovementStep
<1>2. CASE EncodeStart(w)
  BY <1>2 DEF EncodeStart, WTypeOK, bucket
<1>3. CASE ~EncodeStart(w)
  <2>1. stage[w] \in Holding /\ file'[w] = file[w]
    BY <1>1, <1>3 DEF Movement
  <2>2. video'[w] = video[w] /\ video[w] \in Videos
    BY <1>1, <2>1 DEF History, ProcessInv, Holding, Writing, WTypeOK
  <2>3. file[w] = puts[video[w]]
    BY <1>1, <2>1, <2>2 DEF HeldInv, History
  <2>4. ASSUME NEW v \in Videos, Put(v) PROVE puts'[video[w]] = puts[video[w]]
    BY <2>1, <2>2, <2>4 DEF Put, WTypeOK
  <2>5. puts'[video[w]] = puts[video[w]]
    BY <1>1, <2>4 DEF Movement
  <2> QED
    BY <2>1, <2>2, <2>3, <2>5
<1> QED
  BY <1>2, <1>3

(* Only RemoveSource takes a file away, the last one, which its process    *)
(* holds; it has encoded it then.                                          *)
LEMMA SourceStep ==
  ASSUME WTypeOK, ProcessInv, HeldInv, SourceInv, [WNext]_wvars PROVE SourceInv'
<1> SUFFICES ASSUME NEW v \in Videos, puts'[v] > 0, v \notin source',
                    "replaced" \notin marks'[v]
             PROVE  Readers(v)' # {}
  BY DEF SourceInv
<1>1. History /\ Movement
  BY HistoryStep, MovementStep
<1>2. "replaced" \notin marks[v]
  BY <1>1 DEF History
<1>3. puts'[v] = puts[v]
  BY <1>1 DEF Movement, Put, WTypeOK
<1>4. CASE v \notin source
  <2>1. PICK w \in Workers : /\ video[w] = v
                             /\ verdict[w] = "completed"
                             /\ file[w] = puts[v]
    BY <1>2, <1>3, <1>4 DEF SourceInv, Readers, Finished
  <2>2. video'[w] = v /\ verdict'[w] = "completed" /\ file'[w] = puts'[v]
    BY <1>1, <1>3, <2>1, WorkerAssumption DEF History
  <2> QED
    BY <2>2 DEF Readers, Finished
<1>5. CASE v \in source
  <2>1. PICK w \in Workers : RemoveSource(w) /\ video[w] = v
    BY <1>1, <1>5 DEF Movement, Put
  <2>2. /\ stage[w] = "removing" /\ file'[w] = file[w] /\ video'[w] = v
        /\ verdict'[w] = "completed"
    BY <2>1 DEF RemoveSource, Goto, WTypeOK, task
  <2>3. file[w] = puts[v]
    BY <1>2, <2>1, <2>2 DEF HeldInv, Holding
  <2> QED
    BY <1>3, <2>2, <2>3 DEF Readers, Finished
<1> QED
  BY <1>4, <1>5

(* Nobody else writes to the scratch directory of a process without clash. *)
LEMMA ScratchStep ==
  ASSUME WTypeOK, ProcessInv, ClashInv, ScratchInv, [WNext]_wvars PROVE ScratchInv'
<1> SUFFICES ASSUME NEW u \in Workers, ~clash'[u] PROVE ScratchOK(u)'
  BY DEF ScratchInv
<1>a. ~clash[u] /\ ScratchOK(u)
  BY HistoryStep DEF History, ScratchInv
<1>b. ASSUME NEW w \in Workers, stage[w] \in Writing, stage[u] \in Writing,
             Dir(w) = Dir(u)
      PROVE  w = u
  BY <1>a, <1>b DEF ClashInv
<1>c. stage[u] # "unused" => Dir(u)' = Dir(u)
  BY HistoryStep DEF History, ProcessInv, Dir
<1>d. ASSUME NEW w \in Workers, stage[w] # "unused"
      PROVE  Dir(w) \in Dirs
  BY <1>d DEF Dir, Dirs, WTypeOK, ProcessInv
<1> USE DEF WTypeOK, ScratchOK, Writing, process, task, progress, bucket
<1>1. ASSUME NEW v \in Videos, Put(v) PROVE ScratchOK(u)'
  BY <1>1, <1>a, <1>c DEF Put
<1>2. ASSUME NEW w \in Workers, NEW v \in Videos, Spawn(w, v) PROVE ScratchOK(u)'
  BY <1>2, <1>a, <1>c DEF Spawn
<1>3. ASSUME NEW v \in Videos, NEW left \in SUBSET Artifacts, EmptyFolder(v, left)
      PROVE ScratchOK(u)'
  BY <1>3, <1>a, <1>c DEF EmptyFolder
<1>4. ASSUME NEW w \in Workers, TakeVerdict(w) PROVE ScratchOK(u)'
  BY <1>4, <1>a, <1>c DEF TakeVerdict
<1>5. ASSUME NEW w \in Workers, NEW len \in SourceLengths, ProbeOk(w, len)
      PROVE ScratchOK(u)'
  BY <1>5, <1>a, <1>c DEF ProbeOk, Goto
<1>6. ASSUME NEW w \in Workers, ProbeFails(w) PROVE ScratchOK(u)'
  BY <1>6, <1>a, <1>c DEF ProbeFails, Fail, Goto
<1>7. ASSUME NEW w \in Workers, EncodeStart(w) PROVE ScratchOK(u)'
  <2>1. CASE w = u
    BY <1>7, <1>c, <1>d, <2>1 DEF EncodeStart, Goto
  <2>2. CASE w # u
    <3>1. stage'[u] = stage[u]
      BY <1>7, <2>2 DEF EncodeStart, Goto
    <3>2. stage[u] \in Writing => Dir(w) # Dir(u)
      BY <1>7, <2>2 DEF EncodeStart, Beside
    <3>3. Dir(w) # Dir(u) /\ stage[u] # "unused" => scratch'[Dir(u)] = scratch[Dir(u)]
      BY <1>7, <1>d DEF EncodeStart
    <3> QED
      BY <1>a, <1>c, <3>1, <3>2, <3>3
  <2> QED
    BY <2>1, <2>2
<1>8. ASSUME NEW w \in Workers, EncodeNoSource(w) PROVE ScratchOK(u)'
  <2>1. stage[w] = "probed" /\ stage' = [stage EXCEPT ![w] = "posting"]
    BY <1>8 DEF EncodeNoSource, Fail, Goto
  <2>2. scratch' = [scratch EXCEPT ![Dir(w)] = IF @ = "none" THEN "partial" ELSE @]
    BY <1>8 DEF EncodeNoSource
  <2>3. stage[u] \in Writing => scratch'[Dir(u)] = scratch[Dir(u)]
    BY <1>a, <1>d, <2>2
  <2> QED
    BY <1>a, <1>c, <2>1, <2>3
<1>9. ASSUME NEW w \in Workers, EncodeOk(w) PROVE ScratchOK(u)'
  <2>1. stage[w] = "encoding" /\ stage' = [stage EXCEPT ![w] = "uploading"]
    BY <1>9 DEF EncodeOk, Goto
  <2>2. PICK files \in {"partial", "complete"} :
           /\ clash[w] \/ files = "complete"
           /\ scratch' = [scratch EXCEPT ![Dir(w)] = IF @ = "none" THEN "none" ELSE files]
    BY <1>9 DEF EncodeOk
  <2>3. CASE w = u
    <3>1. scratch[Dir(u)] = "partial" /\ files = "complete"
      BY <1>a, <2>1, <2>2, <2>3
    <3>2. scratch'[Dir(u)] = "complete"
      BY <1>d, <2>1, <2>2, <2>3, <3>1
    <3> QED
      BY <1>c, <2>1, <2>3, <3>2
  <2>4. CASE w # u
    <3>1. stage'[u] = stage[u]
      BY <2>1, <2>4
    <3>2. stage[u] \in Writing => Dir(w) # Dir(u)
      BY <1>b, <2>1, <2>4
    <3>3. Dir(w) # Dir(u) /\ stage[u] # "unused" => scratch'[Dir(u)] = scratch[Dir(u)]
      BY <1>d, <2>2
    <3> QED
      BY <1>a, <1>c, <3>1, <3>2, <3>3
  <2> QED
    BY <2>3, <2>4
<1>10. ASSUME NEW w \in Workers, EncodeFails(w) PROVE ScratchOK(u)'
  BY <1>10, <1>a, <1>c DEF EncodeFails, Fail, Goto
<1>11. ASSUME NEW w \in Workers, Upload(w) PROVE ScratchOK(u)'
  BY <1>11, <1>a, <1>c DEF Upload, NextUpload, Goto
<1>12. ASSUME NEW w \in Workers, UploadFails(w) PROVE ScratchOK(u)'
  BY <1>12, <1>a, <1>c DEF UploadFails, NextUpload, Goto
<1>13. ASSUME NEW w \in Workers, RemoveScratch(w) PROVE ScratchOK(u)'
  <2>1. stage[w] = "cleaning" /\ stage' = [stage EXCEPT ![w] = "removing"]
    BY <1>13 DEF RemoveScratch, Goto
  <2>2. scratch' = [scratch EXCEPT ![Dir(w)] = "none"]
    BY <1>13 DEF RemoveScratch
  <2>3. w # u /\ stage[u] \in Writing => scratch'[Dir(u)] = scratch[Dir(u)]
    BY <1>b, <1>d, <2>1, <2>2
  <2> QED
    BY <1>a, <1>c, <2>1, <2>3
<1>14. ASSUME NEW w \in Workers, RemoveSource(w) PROVE ScratchOK(u)'
  BY <1>14, <1>a, <1>c DEF RemoveSource, Goto
<1>15. ASSUME NEW w \in Workers, Post(w) PROVE ScratchOK(u)'
  BY <1>15, <1>a, <1>c DEF Post, Goto
<1>16. ASSUME NEW w \in Workers, PostFails(w) PROVE ScratchOK(u)'
  BY <1>16, <1>a, <1>c DEF PostFails, Goto
<1>17. ASSUME NEW w \in Workers, WorkerDies(w) PROVE ScratchOK(u)'
  BY <1>17, <1>a, <1>c DEF WorkerDies, Goto
<1>18. CASE UNCHANGED wvars
  BY <1>18, <1>a, <1>c DEF wvars
<1> QED
  BY <1>1, <1>2, <1>3, <1>4, <1>5, <1>6, <1>7, <1>8, <1>9,
     <1>10, <1>11, <1>12, <1>13, <1>14, <1>15, <1>16, <1>17, <1>18
  DEF WNext, Environment, WorkerStep

(* A process without clash uploads what it has made of its own file.       *)
LEMMA UploadStores ==
  ASSUME WTypeOK, ScratchInv, NEW w \in Workers, Upload(w), ~clash[w]
  PROVE  /\ stage[w] = "uploading"
         /\ hls' = [hls EXCEPT ![video[w]][next[w]] = file[w]]
<1>1. stage[w] = "uploading"
  BY DEF Upload, NextUpload, Goto
<1>2. scratch[Dir(w)] = "complete"
  BY <1>1 DEF ScratchInv, ScratchOK
<1>3. MadeOf(w) = {file[w]}
  BY DEF MadeOf
<1> QED
  BY <1>1, <1>2, <1>3 DEF Upload, Store

(* Only uploads change an undisturbed folder.                              *)
LEMMA FolderStep ==
  ASSUME WTypeOK, ProcessInv, [WNext]_wvars,
         NEW v \in Videos, NEW k \in Artifacts, Undisturbed(v)'
  PROVE  \/ hls'[v][k] = hls[v][k]
         \/ \E w \in Workers : Upload(w) /\ video[w] = v /\ next[w] = k
<1> DEFINE Kept == \/ hls'[v][k] = hls[v][k]
                   \/ \E w \in Workers : Upload(w) /\ video[w] = v /\ next[w] = k
<1>1. ASSUME NEW x \in Videos, NEW left \in SUBSET Artifacts, EmptyFolder(x, left)
      PROVE Kept
  BY <1>1 DEF EmptyFolder, Undisturbed, WTypeOK
<1>2. ASSUME NEW w \in Workers, Upload(w) PROVE Kept
  <2>1. PICK f \in {hls[video[w]][next[w]], 0} \cup MadeOf(w) :
           hls' = hls \/ hls' = [hls EXCEPT ![video[w]][next[w]] = f]
    BY <1>2 DEF Upload, Store
  <2> QED
    BY <1>2, <2>1 DEF WTypeOK
<1>3. ASSUME hls' = hls PROVE Kept
  BY <1>3
<1>4. \/ hls' = hls
      \/ \E x \in Videos, left \in SUBSET Artifacts : EmptyFolder(x, left)
      \/ \E w \in Workers : Upload(w)
  BY DEF WNext, Environment, WorkerStep, wvars, bucket, Put, Spawn, TakeVerdict,
     ProbeOk, ProbeFails, Fail, EncodeStart, EncodeNoSource, EncodeOk, EncodeFails,
     UploadFails, RemoveScratch, RemoveSource, Post, PostFails, WorkerDies
<1> QED
  BY <1>1, <1>2, <1>3, <1>4

(* A process gets artifact k behind it by uploading it.                    *)
LEMMA BehindStep ==
  ASSUME WTypeOK, ProcessInv, [WNext]_wvars,
         NEW u \in Workers, NEW k \in Artifacts, Behind(u, k)'
  PROVE  Behind(u, k) \/ (Upload(u) /\ next[u] = k)
<1> DEFINE Done == Behind(u, k) \/ (Upload(u) /\ next[u] = k)
<1> USE DEF WTypeOK, Behind, Artifacts, Segments, Thumbnail,
            process, task, progress, bucket
<1>1. ASSUME NEW v \in Videos, Put(v) PROVE Done
  BY <1>1 DEF Put
<1>2. ASSUME NEW w \in Workers, NEW v \in Videos, Spawn(w, v) PROVE Done
  BY <1>2 DEF Spawn
<1>3. ASSUME NEW v \in Videos, NEW left \in SUBSET Artifacts, EmptyFolder(v, left)
      PROVE Done
  BY <1>3 DEF EmptyFolder
<1>4. ASSUME NEW w \in Workers, TakeVerdict(w) PROVE Done
  BY <1>4 DEF TakeVerdict
<1>5. ASSUME NEW w \in Workers, NEW len \in SourceLengths, ProbeOk(w, len)
      PROVE Done
  BY <1>5 DEF ProbeOk, Goto
<1>6. ASSUME NEW w \in Workers, ProbeFails(w) PROVE Done
  BY <1>6 DEF ProbeFails, Fail, Goto
<1>7. ASSUME NEW w \in Workers, EncodeStart(w) PROVE Done
  BY <1>7 DEF EncodeStart, Goto
<1>8. ASSUME NEW w \in Workers, EncodeNoSource(w) PROVE Done
  BY <1>8 DEF EncodeNoSource, Fail, Goto
<1>9. ASSUME NEW w \in Workers, EncodeOk(w) PROVE Done
  BY <1>9 DEF EncodeOk, Goto, ProcessInv
<1>10. ASSUME NEW w \in Workers, EncodeFails(w) PROVE Done
  BY <1>10 DEF EncodeFails, Fail, Goto
<1>11. ASSUME NEW w \in Workers, Upload(w) PROVE Done
  <2>1. failed' = failed /\ verdict' = verdict
    BY <1>11 DEF Upload
  <2> QED
    BY <1>11, <2>1 DEF Upload, NextUpload, Goto
<1>12. ASSUME NEW w \in Workers, UploadFails(w) PROVE Done
  <2>1. failed' = [failed EXCEPT ![w] = @ \cup {next[w]}] /\ verdict' = verdict
    BY <1>12 DEF UploadFails
  <2> QED
    BY <1>12, <2>1 DEF UploadFails, NextUpload, Goto
<1>13. ASSUME NEW w \in Workers, RemoveScratch(w) PROVE Done
  BY <1>13 DEF RemoveScratch, Goto
<1>14. ASSUME NEW w \in Workers, RemoveSource(w) PROVE Done
  BY <1>14 DEF RemoveSource, Goto
<1>15. ASSUME NEW w \in Workers, Post(w) PROVE Done
  BY <1>15 DEF Post, Goto
<1>16. ASSUME NEW w \in Workers, PostFails(w) PROVE Done
  BY <1>16 DEF PostFails, Goto
<1>17. ASSUME NEW w \in Workers, WorkerDies(w) PROVE Done
  BY <1>17 DEF WorkerDies, Goto
<1>18. CASE UNCHANGED wvars
  BY <1>18 DEF wvars
<1> QED
  BY <1>1, <1>2, <1>3, <1>4, <1>5, <1>6, <1>7, <1>8, <1>9,
     <1>10, <1>11, <1>12, <1>13, <1>14, <1>15, <1>16, <1>17, <1>18
  DEF WNext, Environment, WorkerStep

(* What an upload puts into an undisturbed folder.                         *)
LEMMA UploadIsOwn ==
  ASSUME WTypeOK, ProcessInv, FileInv, HeldInv, ScratchInv,
         NEW w \in Workers, Upload(w), Undisturbed(video[w])
  PROVE  /\ video[w] \in Videos /\ video' = video /\ puts' = puts
         /\ hls'[video[w]][next[w]] # 0
         /\ "replaced" \notin marks[video[w]] =>
               hls'[video[w]][next[w]] = puts[video[w]]
<1>1. stage[w] = "uploading" /\ video' = video /\ puts' = puts
  BY DEF Upload, NextUpload, Goto, task
<1>2. video[w] \in Videos
  BY <1>1 DEF WTypeOK, ProcessInv
<1>3. hls' = [hls EXCEPT ![video[w]][next[w]] = file[w]]
  BY UploadStores DEF Undisturbed
<1>4. hls'[video[w]][next[w]] = file[w]
  BY <1>2, <1>3 DEF WTypeOK
<1>5. file[w] > 0 /\ file[w] \in Nat
  BY <1>1 DEF FileInv, WTypeOK, Holding, Writing
<1>6. "replaced" \notin marks[video[w]] => file[w] = puts[video[w]]
  BY <1>1 DEF HeldInv, Holding, Writing
<1> QED
  BY <1>1, <1>2, <1>4, <1>5, <1>6

LEMMA StoreStep ==
  ASSUME WTypeOK, ProcessInv, FileInv, HeldInv, ScratchInv, StoreInv, [WNext]_wvars
  PROVE  StoreInv'
<1> SUFFICES ASSUME NEW u \in Workers, NEW k \in Artifacts, video'[u] # None,
                    Undisturbed(video[u])', Behind(u, k)'
             PROVE  /\ hls'[video'[u]][k] # 0
                    /\ (/\ "replaced" \notin marks'[video'[u]]
                        /\ file'[u] = puts'[video'[u]])
                       => hls'[video'[u]][k] = puts'[video'[u]]
  BY DEF StoreInv
<1>1. History /\ Movement
  BY HistoryStep, MovementStep
<1>2. Behind(u, k) \/ (Upload(u) /\ next[u] = k)
  BY BehindStep
<1>3. stage[u] # "unused"
  BY <1>2 DEF Behind, ProcessInv, Upload, NextUpload, Goto
<1>4. video'[u] = video[u] /\ video[u] # None /\ video[u] \in Videos
  BY <1>1, <1>3 DEF ProcessInv, History, WTypeOK
<1>5. Undisturbed(video[u])
  BY <1>4, UndisturbedShrinks
<1>6. CASE \E w \in Workers : Upload(w) /\ video[w] = video[u] /\ next[w] = k
  <2>1. PICK w \in Workers : Upload(w) /\ video[w] = video[u] /\ next[w] = k
    BY <1>6
  <2>2. /\ puts' = puts
        /\ hls'[video[u]][k] # 0
        /\ "replaced" \notin marks[video[u]] => hls'[video[u]][k] = puts[video[u]]
    BY <1>5, <2>1, UploadIsOwn
  <2>3. "replaced" \notin marks'[video[u]] => "replaced" \notin marks[video[u]]
    BY <1>1, <1>4 DEF History
  <2> QED
    BY <1>4, <2>2, <2>3
<1>7. CASE ~\E w \in Workers : Upload(w) /\ video[w] = video[u] /\ next[w] = k
  <2>1. hls'[video[u]][k] = hls[video[u]][k]
    BY <1>4, <1>7, FolderStep
  <2>2. Behind(u, k)
    BY <1>2, <1>7
  <2>3. stage[u] # "probed"
    BY <2>2 DEF Behind, ProcessInv
  <2>4. file'[u] = file[u]
    BY <1>1, <2>3 DEF Movement, EncodeStart, Goto
  <2>5. puts'[video[u]] = puts[video[u]] \/ puts'[video[u]] = puts[video[u]] + 1
    BY <1>1, <1>4 DEF Movement, Put, WTypeOK
  <2>6. file[u] <= puts[video[u]] /\ file[u] \in Nat /\ puts[video[u]] \in Nat
    BY <1>4 DEF FileInv, WTypeOK
  <2>7. file'[u] = puts'[video[u]] =>
           file[u] = puts[video[u]] /\ puts'[video[u]] = puts[video[u]]
    BY <2>4, <2>5, <2>6
  <2>8. "replaced" \notin marks'[video[u]] => "replaced" \notin marks[video[u]]
    BY <1>1, <1>4 DEF History
  <2>9. /\ hls[video[u]][k] # 0
        /\ ("replaced" \notin marks[video[u]] /\ file[u] = puts[video[u]]) =>
              hls[video[u]][k] = puts[video[u]]
    BY <1>4, <1>5, <2>2 DEF StoreInv
  <2> QED
    BY <1>4, <2>1, <2>7, <2>8, <2>9
<1> QED
  BY <1>6, <1>7

(* Only an upload adds the playlist, after the segments were uploaded or   *)
(* their upload failed; nothing but a disturbance removes the segments.    *)
LEMMA PlaylistStep ==
  ASSUME WTypeOK, ProcessInv, FileInv, HeldInv, ScratchInv, StoreInv,
         PlaylistHasSegments, [WNext]_wvars
  PROVE  PlaylistHasSegments'
<1> SUFFICES ASSUME NEW v \in Videos, Undisturbed(v)', hls'[v][Playlist] # 0,
                    hls'[v][Segments] = 0
             PROVE  \E w \in Workers : video'[w] = v /\ Segments \in failed'[w]
  BY DEF PlaylistHasSegments
<1>1. History
  BY HistoryStep
<1>2. Undisturbed(v)
  BY UndisturbedShrinks
<1>3. Segments \in Artifacts /\ Playlist \in Artifacts
  BY DEF Segments, Playlist, Artifacts, Thumbnail
<1>4. hls[v][Segments] = 0
  <2>1. ASSUME NEW w \in Workers, Upload(w), video[w] = v, next[w] = Segments
        PROVE  FALSE
    BY <1>2, <2>1, UploadIsOwn
  <2> QED
    BY <1>3, <2>1, FolderStep
<1>5. PICK w \in Workers : video[w] = v /\ Segments \in failed[w]
  <2>1. CASE hls[v][Playlist] # 0
    BY <1>2, <1>4, <2>1 DEF PlaylistHasSegments
  <2>2. CASE hls[v][Playlist] = 0
    <3>1. PICK w \in Workers : Upload(w) /\ video[w] = v /\ next[w] = Playlist
      BY <1>3, <2>2, FolderStep
    <3>2. stage[w] = "uploading"
      BY <3>1 DEF Upload, NextUpload, Goto
    <3>3. Segments \notin failed[w] => Behind(w, Segments)
      BY <1>3, <3>1, <3>2 DEF Behind, Segments, Playlist
    <3> QED
      BY <1>2, <1>3, <1>4, <3>1, <3>3, WorkerAssumption DEF StoreInv
  <2> QED
    BY <2>1, <2>2
<1>6. video'[w] = v /\ Segments \in failed'[w]
  BY <1>1, <1>5, WorkerAssumption DEF History
<1> QED
  BY <1>6

-----------------------------------------------------------------------------
LEMMA WInvInit == WInit => WInv
<1> SUFFICES ASSUME WInit PROVE WInv
  OBVIOUS
<1> USE DEF WInit
<1>1. \A w \in Workers : stage[w] = "unused" /\ verdict[w] = "none"
  OBVIOUS
<1>2. ProcessInv
  BY DEF ProcessInv
<1>3. ClashInv /\ FileInv /\ HeldInv /\ ScratchInv
  BY <1>1 DEF ClashInv, FileInv, HeldInv, ScratchInv, ScratchOK, Writing, Holding
<1>4. SourceInv /\ StoreInv
  BY <1>1 DEF SourceInv, StoreInv, Behind
<1>5. PlaylistHasSegments
  BY DEF PlaylistHasSegments, Artifacts, Segments, Playlist, Thumbnail
<1> QED
  BY TypeInit, <1>2, <1>3, <1>4, <1>5 DEF WInv

LEMMA WInvStep == WInv /\ [WNext]_wvars => WInv'
BY TypeStep, ProcessStep, ClashStep, FileStep, HeldStep, SourceStep, ScratchStep,
   StoreStep, PlaylistStep DEF WInv

THEOREM WorkerInvariance == WorkerSpec => []WInv
BY WInvInit, WInvStep, PTL DEF WorkerSpec

(* A file is destroyed only after its own encoding was stored, unless a    *)
(* client PUT it while a process held the file before: for any number of   *)
(* files, videos and processes and whatever faults there are among them.   *)
THEOREM SourceIsSafe == WorkerSpec => []SourceGoneMeansStored
<1>1. WInv => SourceGoneMeansStored
  <2> SUFFICES ASSUME WInv, NEW v \in Videos, puts[v] > 0, v \notin source,
                      "replaced" \notin marks[v]
               PROVE  /\ Readers(v) # {}
                      /\ Undisturbed(v) =>
                            \A w \in Readers(v) : \A k \in Artifacts \ failed[w] :
                                hls[v][k] = puts[v]
    BY DEF SourceGoneMeansStored, Readers
  <2>1. Readers(v) # {}
    BY DEF WInv, SourceInv
  <2>2. ASSUME Undisturbed(v), NEW w \in Readers(v), NEW k \in Artifacts \ failed[w]
        PROVE  hls[v][k] = puts[v]
    <3>1. w \in Workers /\ video[w] = v /\ verdict[w] = "completed" /\ file[w] = puts[v]
      BY DEF Readers, Finished
    <3>2. Behind(w, k)
      BY <3>1 DEF Behind
    <3> QED
      BY <2>2, <3>1, <3>2, WorkerAssumption DEF WInv, StoreInv
  <2> QED
    BY <2>1, <2>2
<1> QED
  BY <1>1, WorkerInvariance, PTL

(* A playlist in the bucket always has its segments beside it.             *)
THEOREM PlaylistIsServable == WorkerSpec => []PlaylistHasSegments
<1>1. WInv => PlaylistHasSegments
  BY DEF WInv
<1> QED
  BY <1>1, WorkerInvariance, PTL

(* A process posts at most one verdict, "completed" only after it probed a *)
(* positive length.                                                        *)
THEOREM VerdictsAreEarned == WorkerSpec => []VerdictIsEarned
<1>1. WInv => VerdictIsEarned
  BY DEF WInv, ProcessInv, VerdictIsEarned
<1> QED
  BY <1>1, WorkerInvariance, PTL
=============================================================================
