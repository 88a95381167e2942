-------------------------- MODULE VideoPipelineProofs --------------------------
(***************************************************************************)
(* Proofs about VideoPipeline, for any number of videos, processes and     *)
(* requests and any faults.                                                *)
(***************************************************************************)
EXTENDS VideoPipeline, EncodeWorkerProofs

(* Rows.                                                                   *)
LEMMA DurationIsNat ==
  ASSUME WTypeOK, NEW w \in Workers PROVE VerdictDuration(w) \in Nat
BY DEF WTypeOK, VerdictDuration

LEMMA NoRowIsRow == NoRow \in Row
BY DEF NoRow, Row

LEMMA SettersKeepRows ==
  ASSUME NEW r \in Row
  PROVE  /\ \A s \in Statuses : WithStatus(r, s) \in Row
         /\ \A n \in Nat : WithDuration(r, n) \in Row
         /\ \A t \in Titles \cup {None} : WithTitle(r, t) \in Row
BY DEF Row, WithStatus, WithDuration, WithTitle

LEMMA MergeIsRow ==
  ASSUME NEW r \in Row, NEW obj \in Row, NEW dirty PROVE Merge(r, obj, dirty) \in Row
BY DEF Row, Merge

LEMMA UpdateKeepsType ==
  ASSUME row \in [Videos -> Row], NEW v, NEW obj \in Row, NEW dirty, Update(v, obj, dirty)
  PROVE  row' \in [Videos -> Row]
BY MergeIsRow DEF Update

-----------------------------------------------------------------------------
(* Type correctness of the backend.                                        *)

(* Whatever a handler or a process works on is a video that was given out. *)
RowInv == \A v \in Videos : Exists(v) => v \in issued
TaskInv ==
    /\ \A e \in Deliveries : delivery[e] # "none" => eventOf[e] \in issued
    /\ \A w \in Workers : stage[w] # "unused" => video[w] \in issued
    /\ \A p \in Patches : patch[p] # "none" => patchOf[p] \in issued
    /\ \A d \in Deletes : del[d] # "none" => delOf[d] \in issued

(* A row in a frame says what the handler is about to write.               *)
AnnounceInv ==
    \A e \in Deliveries :
       delivery[e] = "found" => eventRow[e].status = "processing"

HoldsVerdict(w) ==
    IF verdict[w] = "completed"
    THEN /\ handlerRow[w].status = "completed"
         /\ handlerRow[w].duration = VerdictDuration(w)
    ELSE handlerRow[w].status = "failed"
VerdictInv ==
    \A w \in Workers :
       /\ handler[w] # "idle" <=> mailbox[w] = "taken"
       /\ handler[w] = "found" => HoldsVerdict(w)

FrameInv == RowInv /\ TaskInv /\ AnnounceInv /\ VerdictInv

IInv == TypeOK /\ WInv /\ FrameInv

LEMMA STypeStep ==
  ASSUME IInv, [Next]_vars PROVE STypeOK'
<1> USE DEF IInv, TypeOK, WInv, STypeOK, notify, result, edit, deletion, Drops
<1>1. ASSUME NEW v \in Videos, NEW u \in Users, NEW t \in Titles, Publish(v, u, t)
      PROVE STypeOK'
  <2>1. [status |-> "pending", duration |-> 0, title |-> t, owner |-> u] \in Row
    BY DEF Row, Statuses
  <2> QED
    BY <1>1, <2>1 DEF Publish
<1>2. ASSUME NEW v \in Videos, NEW e \in Deliveries, PutSource(v, e)
      PROVE STypeOK'
  BY <1>2, NoRowIsRow DEF PutSource
<1>3. ASSUME NEW e \in Deliveries, NEW f \in Deliveries, Redeliver(e, f)
      PROVE STypeOK'
  BY <1>3, NoRowIsRow DEF Redeliver, Step, InHandler
<1>4. ASSUME NEW p \in Patches, NEW v \in Videos, NEW u \in Users, NEW t \in Titles, PatchFind(p, v, u, t)
      PROVE STypeOK'
  <2>1. WithTitle(row[v], t) \in Row
    BY SettersKeepRows
  <2> QED
    BY <1>4, <2>1 DEF PatchFind
<1>5. ASSUME NEW d \in Deletes, NEW v \in Videos, NEW u \in Users, DeleteFind(d, v, u)
      PROVE STypeOK'
  BY <1>5, NoRowIsRow DEF DeleteFind
<1>6. ASSUME NEW e \in Deliveries, NotifyFind(e) PROVE STypeOK'
  <2>1. eventOf[e] \in Videos
    BY <1>6 DEF NotifyFind, Step, FrameInv, TaskInv
  <2>2. WithStatus(row[eventOf[e]], "processing") \in Row
    BY <2>1, SettersKeepRows DEF Statuses
  <2> QED
    BY <1>6, <2>2 DEF NotifyFind, Step
<1>7. ASSUME NEW e \in Deliveries, NotifyMissing(e) PROVE STypeOK'
  BY <1>7, NoRowIsRow DEF NotifyMissing, Step
<1>8. ASSUME NEW e \in Deliveries, NotifyUpdate(e) PROVE STypeOK'
  <2>1. row' \in [Videos -> Row]
    BY <1>8, UpdateKeepsType DEF NotifyUpdate
  <2> QED
    BY <1>8, <2>1, NoRowIsRow DEF NotifyUpdate, Step
<1>9. ASSUME NEW e \in Deliveries, NEW w \in Workers, Dispatch(e, w)
      PROVE STypeOK'
  BY <1>9, NoRowIsRow DEF Dispatch, Step
<1>10. ASSUME NEW e \in Deliveries, DispatchFails(e) PROVE STypeOK'
  BY <1>10, NoRowIsRow DEF DispatchFails, Step, Drop
<1>11. ASSUME NEW e \in Deliveries, Ack(e) PROVE STypeOK'
  BY <1>11, NoRowIsRow DEF Ack, Step
<1>12. ASSUME NEW e \in Deliveries, NotifyDbError(e) PROVE STypeOK'
  <2>1. row' \in [Videos -> Row]
    BY <1>12, UpdateKeepsType DEF NotifyDbError
  <2> QED
    BY <1>12, <2>1, NoRowIsRow DEF NotifyDbError, Step, Drop, Drops
<1>13. ASSUME NEW w \in Workers, EncodeStep(w) PROVE STypeOK'
  BY <1>13, NoRowIsRow DEF EncodeStep, svars
<1>14. ASSUME NEW w \in Workers, ResultFind(w) PROVE STypeOK'
  <2>1. video[w] \in Videos
    BY <1>14 DEF ResultFind, TakeVerdict, FrameInv, TaskInv, ProcessInv
  <2>2. ResultRow(w) \in Row
    BY <2>1, SettersKeepRows, DurationIsNat DEF ResultRow, Statuses
  <2> QED
    BY <1>14, <2>2 DEF ResultFind
<1>15. ASSUME NEW w \in Workers, ResultMissing(w) PROVE STypeOK'
  BY <1>15, NoRowIsRow DEF ResultMissing
<1>16. ASSUME NEW w \in Workers, ResultUpdate(w) PROVE STypeOK'
  <2>1. row' \in [Videos -> Row]
    BY <1>16, UpdateKeepsType DEF ResultUpdate
  <2> QED
    BY <1>16, <2>1, NoRowIsRow DEF ResultUpdate
<1>17. ASSUME NEW w \in Workers, ResultDbError(w) PROVE STypeOK'
  <2>1. row' \in [Videos -> Row]
    BY <1>17, UpdateKeepsType DEF ResultDbError
  <2> QED
    BY <1>17, <2>1, NoRowIsRow DEF ResultDbError, Drop, Drops
<1>18. ASSUME NEW p \in Patches, PatchUpdate(p) PROVE STypeOK'
  <2>1. row' \in [Videos -> Row]
    BY <1>18, UpdateKeepsType DEF PatchUpdate, PatchEnd
  <2>2. WithTitle(NoRow, patchRow[p].title) \in Row
    BY NoRowIsRow, SettersKeepRows DEF Row
  <2> QED
    BY <1>18, <2>1, <2>2 DEF PatchUpdate, PatchEnd
<1>19. ASSUME NEW p \in Patches, PatchDbError(p) PROVE STypeOK'
  <2>1. row' \in [Videos -> Row]
    BY <1>19, UpdateKeepsType DEF PatchDbError, PatchEnd
  <2>2. WithTitle(NoRow, patchRow[p].title) \in Row
    BY NoRowIsRow, SettersKeepRows DEF Row
  <2> QED
    BY <1>19, <2>1, <2>2 DEF PatchDbError, PatchEnd
<1>20. ASSUME NEW d \in Deletes, DeleteRelated(d) PROVE STypeOK'
  BY <1>20, NoRowIsRow DEF DeleteRelated, DeleteGoto
<1>21. ASSUME NEW d \in Deletes, DeleteFolder(d) PROVE STypeOK'
  BY <1>21, NoRowIsRow DEF DeleteFolder, DeleteGoto
<1>22. ASSUME NEW d \in Deletes, NEW left \in SUBSET Artifacts, DeleteFolderFails(d, left)
      PROVE STypeOK'
  BY <1>22, NoRowIsRow DEF DeleteFolderFails, DeleteGoto
<1>23. ASSUME NEW d \in Deletes, DeleteRow(d) PROVE STypeOK'
  BY <1>23, NoRowIsRow DEF DeleteRow, DeleteGoto
<1>24. ASSUME NEW d \in Deletes, DeleteDbError(d) PROVE STypeOK'
  BY <1>24, NoRowIsRow DEF DeleteDbError, DeleteGoto
<1>25. ASSUME CrashServer PROVE STypeOK'
  <2>1. \A p \in Patches : WithTitle(NoRow, patchRow[p].title) \in Row
    BY NoRowIsRow, SettersKeepRows DEF Row
  <2>2. dropped' \in [Videos -> SUBSET Drops]
    BY <1>25 DEF CrashServer, Drops
  <2>3. delivery' \in [Deliveries -> {"none", "queued", "found", "updated", "launching",
                                    "started", "acked"}]
    BY <1>25 DEF CrashServer
  <2> QED
    BY <1>25, <2>1, <2>2, <2>3, NoRowIsRow DEF CrashServer
<1>26. CASE UNCHANGED vars
  BY <1>26, NoRowIsRow DEF vars, wvars, svars
<1> QED
  BY <1>1, <1>2, <1>3, <1>4, <1>5, <1>6, <1>7, <1>8, <1>9, <1>10, <1>11,
    <1>12, <1>13, <1>14, <1>15, <1>16, <1>17, <1>18, <1>19, <1>20, <1>21,
    <1>22, <1>23, <1>24, <1>25, <1>26
  DEF Next, Request, NotifyStep, ResultStep, PatchStep, DeleteStep

-----------------------------------------------------------------------------
(* Every step is a step of EncodeWorker, whose environment the backend is. *)
LEMMA WorkerView == ASSUME IInv, [Next]_vars PROVE [WNext]_wvars
<1>1. ASSUME NEW v \in Videos, NEW u \in Users, NEW t \in Titles, Publish(v, u, t)
      PROVE [WNext]_wvars
  BY <1>1 DEF Publish
<1>2. ASSUME NEW v \in Videos, NEW e \in Deliveries, PutSource(v, e)
      PROVE [WNext]_wvars
  BY <1>2 DEF PutSource, WNext, Environment
<1>3. ASSUME NEW e \in Deliveries, NEW f \in Deliveries, Redeliver(e, f)
      PROVE [WNext]_wvars
  BY <1>3 DEF Redeliver
<1>4. ASSUME NEW p \in Patches, NEW v \in Videos, NEW u \in Users, NEW t \in Titles, PatchFind(p, v, u, t)
      PROVE [WNext]_wvars
  BY <1>4 DEF PatchFind
<1>5. ASSUME NEW d \in Deletes, NEW v \in Videos, NEW u \in Users, DeleteFind(d, v, u)
      PROVE [WNext]_wvars
  BY <1>5 DEF DeleteFind
<1>6. ASSUME NEW e \in Deliveries, NotifyFind(e) PROVE [WNext]_wvars
  BY <1>6 DEF NotifyFind
<1>7. ASSUME NEW e \in Deliveries, NotifyMissing(e) PROVE [WNext]_wvars
  BY <1>7 DEF NotifyMissing
<1>8. ASSUME NEW e \in Deliveries, NotifyUpdate(e) PROVE [WNext]_wvars
  BY <1>8 DEF NotifyUpdate
<1>9. ASSUME NEW e \in Deliveries, NEW w \in Workers, Dispatch(e, w)
      PROVE [WNext]_wvars
  <2>1. eventOf[e] \in Videos
    BY <1>9 DEF Dispatch, Step, FrameInv, TaskInv, IInv, TypeOK, STypeOK
  <2> QED
    BY <1>9, <2>1 DEF Dispatch, WNext, Environment
<1>10. ASSUME NEW e \in Deliveries, DispatchFails(e) PROVE [WNext]_wvars
  BY <1>10 DEF DispatchFails
<1>11. ASSUME NEW e \in Deliveries, Ack(e) PROVE [WNext]_wvars
  BY <1>11 DEF Ack
<1>12. ASSUME NEW e \in Deliveries, NotifyDbError(e) PROVE [WNext]_wvars
  BY <1>12 DEF NotifyDbError
<1>13. ASSUME NEW w \in Workers, EncodeStep(w) PROVE [WNext]_wvars
  BY <1>13 DEF EncodeStep, WNext
<1>14. ASSUME NEW w \in Workers, ResultFind(w) PROVE [WNext]_wvars
  BY <1>14 DEF ResultFind, WNext, Environment
<1>15. ASSUME NEW w \in Workers, ResultMissing(w) PROVE [WNext]_wvars
  BY <1>15 DEF ResultMissing, WNext, Environment
<1>16. ASSUME NEW w \in Workers, ResultUpdate(w) PROVE [WNext]_wvars
  BY <1>16 DEF ResultUpdate
<1>17. ASSUME NEW w \in Workers, ResultDbError(w) PROVE [WNext]_wvars
  BY <1>17 DEF ResultDbError, WNext, Environment
<1>18. ASSUME NEW p \in Patches, PatchUpdate(p) PROVE [WNext]_wvars
  BY <1>18 DEF PatchUpdate, PatchEnd
<1>19. ASSUME NEW p \in Patches, PatchDbError(p) PROVE [WNext]_wvars
  BY <1>19 DEF PatchDbError, PatchEnd
<1>20. ASSUME NEW d \in Deletes, DeleteRelated(d) PROVE [WNext]_wvars
  BY <1>20 DEF DeleteRelated
<1>21. ASSUME NEW d \in Deletes, DeleteFolder(d) PROVE [WNext]_wvars
  <2>1. delOf[d] \in Videos
    BY <1>21 DEF DeleteFolder, DeleteGoto, FrameInv, TaskInv, IInv, TypeOK, STypeOK
  <2> QED
    BY <1>21, <2>1 DEF DeleteFolder, WNext, Environment
<1>22. ASSUME NEW d \in Deletes, NEW left \in SUBSET Artifacts, DeleteFolderFails(d, left)
      PROVE [WNext]_wvars
  <2>1. delOf[d] \in Videos
    BY <1>22 DEF DeleteFolderFails, DeleteGoto, FrameInv, TaskInv, IInv, TypeOK, STypeOK
  <2> QED
    BY <1>22, <2>1 DEF DeleteFolderFails, WNext, Environment
<1>23. ASSUME NEW d \in Deletes, DeleteRow(d) PROVE [WNext]_wvars
  BY <1>23 DEF DeleteRow
<1>24. ASSUME NEW d \in Deletes, DeleteDbError(d) PROVE [WNext]_wvars
  BY <1>24 DEF DeleteDbError
<1>25. ASSUME CrashServer PROVE [WNext]_wvars
  BY <1>25 DEF CrashServer
<1>26. CASE UNCHANGED vars
  BY <1>26 DEF vars, wvars, svars
<1> QED
  BY <1>1, <1>2, <1>3, <1>4, <1>5, <1>6, <1>7, <1>8, <1>9, <1>10, <1>11,
    <1>12, <1>13, <1>14, <1>15, <1>16, <1>17, <1>18, <1>19, <1>20, <1>21,
    <1>22, <1>23, <1>24, <1>25, <1>26
  DEF Next, Request, NotifyStep, ResultStep, PatchStep, DeleteStep

LEMMA ProcessesKeepInv == ASSUME IInv, [Next]_vars PROVE WInv'
BY WorkerView, WInvStep DEF IInv

(* What a process posted does not change any more.                         *)
LEMMA PostedIsFinal ==
  ASSUME IInv, [Next]_vars, NEW w \in Workers, mailbox[w] # "none"
  PROVE  /\ stage'[w] = "exited"
         /\ video'[w] = video[w]
         /\ verdict'[w] = verdict[w]
         /\ VerdictDuration(w)' = VerdictDuration(w)
<1>1. History
  BY WorkerView, HistoryStep DEF IInv, WInv
<1>2. stage[w] = "exited" /\ video[w] # None
  BY DEF IInv, WInv, ProcessInv
<1> QED
  BY <1>1, <1>2 DEF History, VerdictDuration

-----------------------------------------------------------------------------
(* How a row changes in one step: it is published, announced as uploaded,  *)
(* gets the verdict of a process, a title, or is deleted.                  *)
Published(x) == x \notin issued /\ x \in issued' /\ row'[x].status = "pending"
Announced(x) ==
    /\ Exists(x)
    /\ row'[x] = WithStatus(row[x], "processing")
    /\ \E e \in Deliveries :
          delivery[e] = "found" /\ eventOf[e] = x /\ delivery'[e] \in {"updated", "acked"}
Completed(x) ==
    /\ Exists(x)
    /\ \E w \in Workers :
          /\ handler[w] = "found" /\ handler'[w] = "done"
          /\ video[w] = x /\ verdict[w] = "completed"
          /\ row'[x] = WithDuration(WithStatus(row[x], "completed"), VerdictDuration(w))
FailedBy(x) ==
    /\ Exists(x)
    /\ row'[x] = WithStatus(row[x], "failed")
    /\ \E w \in Workers :
          /\ handler[w] = "found" /\ handler'[w] = "done"
          /\ video[w] = x /\ verdict[w] # "completed"
Edited(x) ==
    /\ Exists(x)
    /\ \E p \in Patches :
          /\ patch[p] = "found" /\ patch'[p] \in {"done", "error"}
          /\ patchOf[p] = x
          /\ row'[x] = WithTitle(row[x], patchRow[p].title)
Deleted(x) ==
    /\ row'[x] = NoRow
    /\ \E d \in Deletes : del[d] = "row" /\ delOf[d] = x
Change(x) ==
    \/ row'[x] = row[x]
    \/ Published(x)
    \/ Announced(x)
    \/ Completed(x)
    \/ FailedBy(x)
    \/ Edited(x)
    \/ Deleted(x)

LEMMA UpdateShape ==
  ASSUME row \in [Videos -> Row], NEW v \in Videos, NEW obj, NEW dirty,
         Update(v, obj, dirty), NEW x \in Videos
  PROVE  \/ row'[x] = row[x]
         \/ x = v /\ Exists(x) /\ row'[x] = Merge(row[x], obj, dirty)
BY DEF Update

LEMMA RowStep == ASSUME IInv, [Next]_vars, NEW x \in Videos PROVE Change(x)
<1> USE DEF IInv, TypeOK, STypeOK, FrameInv, RowInv, TaskInv, AnnounceInv, VerdictInv, HoldsVerdict, Change
<1>1. ASSUME NEW v \in Videos, NEW u \in Users, NEW t \in Titles, Publish(v, u, t)
      PROVE Change(x)
  BY <1>1 DEF Publish, Published
<1>2. ASSUME NEW v \in Videos, NEW e \in Deliveries, PutSource(v, e)
      PROVE Change(x)
  BY <1>2 DEF PutSource
<1>3. ASSUME NEW e \in Deliveries, NEW f \in Deliveries, Redeliver(e, f)
      PROVE Change(x)
  BY <1>3 DEF Redeliver
<1>4. ASSUME NEW p \in Patches, NEW v \in Videos, NEW u \in Users, NEW t \in Titles, PatchFind(p, v, u, t)
      PROVE Change(x)
  BY <1>4 DEF PatchFind
<1>5. ASSUME NEW d \in Deletes, NEW v \in Videos, NEW u \in Users, DeleteFind(d, v, u)
      PROVE Change(x)
  BY <1>5 DEF DeleteFind
<1>6. ASSUME NEW e \in Deliveries, NotifyFind(e) PROVE Change(x)
  BY <1>6 DEF NotifyFind
<1>7. ASSUME NEW e \in Deliveries, NotifyMissing(e) PROVE Change(x)
  BY <1>7 DEF NotifyMissing
<1>8. ASSUME NEW e \in Deliveries, NotifyUpdate(e) PROVE Change(x)
  <2>1. delivery[e] = "found" \/ row' = row
    BY <1>8 DEF NotifyUpdate, Step
  <2>2. CASE row' = row
    BY <2>2
  <2>3. CASE delivery[e] = "found" /\ Update(eventOf[e], eventRow[e], {"status"})
    <3>1. eventOf[e] \in Videos /\ eventRow[e].status = "processing"
      BY <2>3
    <3>2. Merge(row[x], eventRow[e], {"status"}) = WithStatus(row[x], "processing")
      BY <3>1 DEF Merge, WithStatus
    <3>3. row'[x] = row[x] \/ (/\ x = eventOf[e] /\ Exists(x)
                              /\ row'[x] = WithStatus(row[x], "processing"))
      BY <2>3, <3>1, <3>2, UpdateShape
    <3>4. delivery'[e] \in {"updated", "acked"}
      BY <1>8 DEF NotifyUpdate, Step
    <3> QED
      BY <2>3, <3>3, <3>4 DEF Announced
  <2> QED
    BY <1>8, <2>1, <2>2, <2>3 DEF NotifyUpdate, Step
<1>9. ASSUME NEW e \in Deliveries, NEW w \in Workers, Dispatch(e, w)
      PROVE Change(x)
  BY <1>9 DEF Dispatch
<1>10. ASSUME NEW e \in Deliveries, DispatchFails(e) PROVE Change(x)
  BY <1>10 DEF DispatchFails
<1>11. ASSUME NEW e \in Deliveries, Ack(e) PROVE Change(x)
  BY <1>11 DEF Ack
<1>12. ASSUME NEW e \in Deliveries, NotifyDbError(e) PROVE Change(x)
  <2>1. delivery[e] = "found" \/ row' = row
    BY <1>12 DEF NotifyDbError, Step
  <2>2. CASE row' = row
    BY <2>2
  <2>3. CASE delivery[e] = "found" /\ Update(eventOf[e], eventRow[e], {"status"})
    <3>1. eventOf[e] \in Videos /\ eventRow[e].status = "processing"
      BY <2>3
    <3>2. Merge(row[x], eventRow[e], {"status"}) = WithStatus(row[x], "processing")
      BY <3>1 DEF Merge, WithStatus
    <3>3. row'[x] = row[x] \/ (/\ x = eventOf[e] /\ Exists(x)
                              /\ row'[x] = WithStatus(row[x], "processing"))
      BY <2>3, <3>1, <3>2, UpdateShape
    <3>4. delivery'[e] \in {"updated", "acked"}
      BY <1>12 DEF NotifyDbError, Step
    <3> QED
      BY <2>3, <3>3, <3>4 DEF Announced
  <2> QED
    BY <1>12, <2>1, <2>2, <2>3 DEF NotifyDbError, Step
<1>13. ASSUME NEW w \in Workers, EncodeStep(w) PROVE Change(x)
  BY <1>13 DEF EncodeStep, svars
<1>14. ASSUME NEW w \in Workers, ResultFind(w) PROVE Change(x)
  BY <1>14 DEF ResultFind
<1>15. ASSUME NEW w \in Workers, ResultMissing(w) PROVE Change(x)
  BY <1>15 DEF ResultMissing
<1>16. ASSUME NEW w \in Workers, ResultUpdate(w) PROVE Change(x)
  <2>0. handler'[w] = "done"
    BY <1>16 DEF ResultUpdate
  <2>1. CASE row' = row
    BY <2>1
  <2>2. CASE handler[w] = "found" /\ Update(video[w], handlerRow[w], ResultColumns(w))
    <3>1. video[w] \in Videos
      BY <2>2 DEF WInv, ProcessInv, WTypeOK
    <3>2. row'[x] = row[x] \/ (/\ x = video[w] /\ Exists(x)
                              /\ row'[x] = Merge(row[x], handlerRow[w], ResultColumns(w)))
      BY <2>2, <3>1, UpdateShape
    <3>3. CASE verdict[w] = "completed"
      <4>1. Merge(row[x], handlerRow[w], ResultColumns(w))
              = WithDuration(WithStatus(row[x], "completed"), VerdictDuration(w))
        BY <2>2, <3>3 DEF Merge, ResultColumns, WithDuration, WithStatus
      <4> QED
        BY <2>0, <2>2, <3>2, <3>3, <4>1 DEF Completed
    <3>4. CASE verdict[w] # "completed"
      <4>1. Merge(row[x], handlerRow[w], ResultColumns(w)) = WithStatus(row[x], "failed")
        BY <2>2, <3>4 DEF Merge, ResultColumns, WithStatus
      <4> QED
        BY <2>0, <2>2, <3>2, <3>4, <4>1 DEF FailedBy
    <3> QED
      BY <3>3, <3>4
  <2> QED
    BY <1>16, <2>1, <2>2 DEF ResultUpdate
<1>17. ASSUME NEW w \in Workers, ResultDbError(w) PROVE Change(x)
  <2>0. handler'[w] = "done"
    BY <1>17 DEF ResultDbError
  <2>1. CASE row' = row
    BY <2>1
  <2>2. CASE handler[w] = "found" /\ Update(video[w], handlerRow[w], ResultColumns(w))
    <3>1. video[w] \in Videos
      BY <2>2 DEF WInv, ProcessInv, WTypeOK
    <3>2. row'[x] = row[x] \/ (/\ x = video[w] /\ Exists(x)
                              /\ row'[x] = Merge(row[x], handlerRow[w], ResultColumns(w)))
      BY <2>2, <3>1, UpdateShape
    <3>3. CASE verdict[w] = "completed"
      <4>1. Merge(row[x], handlerRow[w], ResultColumns(w))
              = WithDuration(WithStatus(row[x], "completed"), VerdictDuration(w))
        BY <2>2, <3>3 DEF Merge, ResultColumns, WithDuration, WithStatus
      <4> QED
        BY <2>0, <2>2, <3>2, <3>3, <4>1 DEF Completed
    <3>4. CASE verdict[w] # "completed"
      <4>1. Merge(row[x], handlerRow[w], ResultColumns(w)) = WithStatus(row[x], "failed")
        BY <2>2, <3>4 DEF Merge, ResultColumns, WithStatus
      <4> QED
        BY <2>0, <2>2, <3>2, <3>4, <4>1 DEF FailedBy
    <3> QED
      BY <3>3, <3>4
  <2> QED
    BY <1>17, <2>1, <2>2 DEF ResultDbError
<1>18. ASSUME NEW p \in Patches, PatchUpdate(p) PROVE Change(x)
  <2>1. CASE row' = row
    BY <2>1
  <2>2. CASE Update(patchOf[p], patchRow[p], {"title"})
    <3>1. patch[p] = "found" /\ patchOf[p] \in Videos
      BY <1>18 DEF PatchUpdate, PatchEnd
    <3>2. Merge(row[x], patchRow[p], {"title"}) = WithTitle(row[x], patchRow[p].title)
      BY DEF Merge, WithTitle
    <3>3. patch'[p] \in {"done", "error"}
      BY <1>18 DEF PatchUpdate, PatchEnd
    <3> QED
      BY <2>2, <3>1, <3>2, <3>3, UpdateShape DEF Edited
  <2> QED
    BY <1>18, <2>1, <2>2 DEF PatchUpdate
<1>19. ASSUME NEW p \in Patches, PatchDbError(p) PROVE Change(x)
  <2>1. CASE row' = row
    BY <2>1
  <2>2. CASE Update(patchOf[p], patchRow[p], {"title"})
    <3>1. patch[p] = "found" /\ patchOf[p] \in Videos
      BY <1>19 DEF PatchDbError, PatchEnd
    <3>2. Merge(row[x], patchRow[p], {"title"}) = WithTitle(row[x], patchRow[p].title)
      BY DEF Merge, WithTitle
    <3>3. patch'[p] \in {"done", "error"}
      BY <1>19 DEF PatchDbError, PatchEnd
    <3> QED
      BY <2>2, <3>1, <3>2, <3>3, UpdateShape DEF Edited
  <2> QED
    BY <1>19, <2>1, <2>2 DEF PatchDbError
<1>20. ASSUME NEW d \in Deletes, DeleteRelated(d) PROVE Change(x)
  BY <1>20 DEF DeleteRelated
<1>21. ASSUME NEW d \in Deletes, DeleteFolder(d) PROVE Change(x)
  BY <1>21 DEF DeleteFolder
<1>22. ASSUME NEW d \in Deletes, NEW left \in SUBSET Artifacts, DeleteFolderFails(d, left)
      PROVE Change(x)
  BY <1>22 DEF DeleteFolderFails
<1>23. ASSUME NEW d \in Deletes, DeleteRow(d) PROVE Change(x)
  BY <1>23 DEF DeleteRow, DeleteGoto, Deleted
<1>24. ASSUME NEW d \in Deletes, DeleteDbError(d) PROVE Change(x)
  BY <1>24 DEF DeleteDbError, DeleteGoto, Deleted
<1>25. ASSUME CrashServer PROVE Change(x)
  BY <1>25 DEF CrashServer
<1>26. CASE UNCHANGED vars
  BY <1>26 DEF vars, wvars, svars
<1> QED
  BY <1>1, <1>2, <1>3, <1>4, <1>5, <1>6, <1>7, <1>8, <1>9, <1>10, <1>11,
    <1>12, <1>13, <1>14, <1>15, <1>16, <1>17, <1>18, <1>19, <1>20, <1>21,
    <1>22, <1>23, <1>24, <1>25, <1>26
  DEF Next, Request, NotifyStep, ResultStep, PatchStep, DeleteStep, vars

LEMMA IssuedGrows == ASSUME IInv, [Next]_vars PROVE issued \subseteq issued'
BY DEF Next, Request, NotifyStep, ResultStep, PatchStep, DeleteStep, vars, svars,
   Publish, PutSource, Redeliver, PatchFind, DeleteFind, NotifyFind,
   NotifyMissing, NotifyUpdate, Dispatch, DispatchFails, Ack, NotifyDbError,
   EncodeStep, ResultFind, ResultMissing, ResultUpdate, ResultDbError,
   PatchUpdate, PatchDbError, PatchEnd, DeleteRelated, DeleteFolder,
   DeleteFolderFails, DeleteRow, DeleteDbError, DeleteGoto, CrashServer

LEMMA RowInvStep == ASSUME IInv, [Next]_vars PROVE RowInv'
<1> SUFFICES ASSUME NEW v \in Videos, Exists(v)' PROVE v \in issued'
  BY DEF RowInv
<1>1. Change(v) /\ issued \subseteq issued'
  BY RowStep, IssuedGrows
<1> QED
  BY <1>1 DEF Change, Published, Announced, Completed, FailedBy, Edited,
    Deleted, Exists, NoRow, IInv, FrameInv, RowInv

LEMMA TaskInvStep == ASSUME IInv, [Next]_vars PROVE TaskInv'
<1> USE DEF IInv, TypeOK, WTypeOK, STypeOK, FrameInv, RowInv, TaskInv,
    notify, result, edit, deletion, wvars, process, task, progress
<1>1. ASSUME NEW v \in Videos, NEW u \in Users, NEW t \in Titles, Publish(v, u, t)
      PROVE TaskInv'
  BY <1>1 DEF Publish
<1>2. ASSUME NEW v \in Videos, NEW e \in Deliveries, PutSource(v, e)
      PROVE TaskInv'
  BY <1>2 DEF PutSource, Put
<1>3. ASSUME NEW e \in Deliveries, NEW f \in Deliveries, Redeliver(e, f)
      PROVE TaskInv'
  BY <1>3 DEF Redeliver, Step, InHandler
<1>4. ASSUME NEW p \in Patches, NEW v \in Videos, NEW u \in Users, NEW t \in Titles, PatchFind(p, v, u, t)
      PROVE TaskInv'
  BY <1>4 DEF PatchFind
<1>5. ASSUME NEW d \in Deletes, NEW v \in Videos, NEW u \in Users, DeleteFind(d, v, u)
      PROVE TaskInv'
  BY <1>5 DEF DeleteFind
<1>6. ASSUME NEW e \in Deliveries, NotifyFind(e) PROVE TaskInv'
  BY <1>6 DEF NotifyFind, Step
<1>7. ASSUME NEW e \in Deliveries, NotifyMissing(e) PROVE TaskInv'
  BY <1>7 DEF NotifyMissing, Step
<1>8. ASSUME NEW e \in Deliveries, NotifyUpdate(e) PROVE TaskInv'
  BY <1>8 DEF NotifyUpdate, Step
<1>9. ASSUME NEW e \in Deliveries, NEW w \in Workers, Dispatch(e, w)
      PROVE TaskInv'
  BY <1>9 DEF Dispatch, Step, Spawn
<1>10. ASSUME NEW e \in Deliveries, DispatchFails(e) PROVE TaskInv'
  BY <1>10 DEF DispatchFails, Step
<1>11. ASSUME NEW e \in Deliveries, Ack(e) PROVE TaskInv'
  BY <1>11 DEF Ack, Step
<1>12. ASSUME NEW e \in Deliveries, NotifyDbError(e) PROVE TaskInv'
  BY <1>12 DEF NotifyDbError, Step
<1>13. ASSUME NEW w \in Workers, EncodeStep(w) PROVE TaskInv'
  <2>1. video' = video /\ \A w1 \in Workers : stage'[w1] # "unused" => stage[w1] # "unused"
    BY <1>13, ProcessIsAlone DEF EncodeStep, IInv, WInv, Running, Stages
  <2> QED
    BY <1>13, <2>1 DEF EncodeStep, svars
<1>14. ASSUME NEW w \in Workers, ResultFind(w) PROVE TaskInv'
  BY <1>14 DEF ResultFind, TakeVerdict
<1>15. ASSUME NEW w \in Workers, ResultMissing(w) PROVE TaskInv'
  BY <1>15 DEF ResultMissing, TakeVerdict
<1>16. ASSUME NEW w \in Workers, ResultUpdate(w) PROVE TaskInv'
  BY <1>16 DEF ResultUpdate
<1>17. ASSUME NEW w \in Workers, ResultDbError(w) PROVE TaskInv'
  BY <1>17 DEF ResultDbError, TakeVerdict
<1>18. ASSUME NEW p \in Patches, PatchUpdate(p) PROVE TaskInv'
  BY <1>18 DEF PatchUpdate, PatchEnd
<1>19. ASSUME NEW p \in Patches, PatchDbError(p) PROVE TaskInv'
  BY <1>19 DEF PatchDbError, PatchEnd
<1>20. ASSUME NEW d \in Deletes, DeleteRelated(d) PROVE TaskInv'
  BY <1>20 DEF DeleteRelated, DeleteGoto
<1>21. ASSUME NEW d \in Deletes, DeleteFolder(d) PROVE TaskInv'
  BY <1>21 DEF DeleteFolder, DeleteGoto, EmptyFolder
<1>22. ASSUME NEW d \in Deletes, NEW left \in SUBSET Artifacts, DeleteFolderFails(d, left)
      PROVE TaskInv'
  BY <1>22 DEF DeleteFolderFails, DeleteGoto, EmptyFolder
<1>23. ASSUME NEW d \in Deletes, DeleteRow(d) PROVE TaskInv'
  BY <1>23 DEF DeleteRow, DeleteGoto
<1>24. ASSUME NEW d \in Deletes, DeleteDbError(d) PROVE TaskInv'
  BY <1>24 DEF DeleteDbError, DeleteGoto
<1>25. ASSUME CrashServer PROVE TaskInv'
  BY <1>25 DEF CrashServer, InHandler
<1>26. CASE UNCHANGED vars
  BY <1>26 DEF vars, wvars, svars
<1> QED
  BY <1>1, <1>2, <1>3, <1>4, <1>5, <1>6, <1>7, <1>8, <1>9, <1>10, <1>11,
    <1>12, <1>13, <1>14, <1>15, <1>16, <1>17, <1>18, <1>19, <1>20, <1>21,
    <1>22, <1>23, <1>24, <1>25, <1>26
  DEF Next, Request, NotifyStep, ResultStep, PatchStep, DeleteStep

LEMMA AnnounceInvStep == ASSUME IInv, [Next]_vars PROVE AnnounceInv'
<1> USE DEF IInv, TypeOK, STypeOK, FrameInv, AnnounceInv, notify
<1>1. ASSUME NEW v \in Videos, NEW u \in Users, NEW t \in Titles, Publish(v, u, t)
      PROVE AnnounceInv'
  BY <1>1 DEF Publish
<1>2. ASSUME NEW v \in Videos, NEW e \in Deliveries, PutSource(v, e)
      PROVE AnnounceInv'
  BY <1>2 DEF PutSource
<1>3. ASSUME NEW e \in Deliveries, NEW f \in Deliveries, Redeliver(e, f)
      PROVE AnnounceInv'
  BY <1>3 DEF Redeliver, Step, InHandler
<1>4. ASSUME NEW p \in Patches, NEW v \in Videos, NEW u \in Users, NEW t \in Titles, PatchFind(p, v, u, t)
      PROVE AnnounceInv'
  BY <1>4 DEF PatchFind
<1>5. ASSUME NEW d \in Deletes, NEW v \in Videos, NEW u \in Users, DeleteFind(d, v, u)
      PROVE AnnounceInv'
  BY <1>5 DEF DeleteFind
<1>6. ASSUME NEW e \in Deliveries, NotifyFind(e) PROVE AnnounceInv'
  BY <1>6 DEF NotifyFind, Step, WithStatus
<1>7. ASSUME NEW e \in Deliveries, NotifyMissing(e) PROVE AnnounceInv'
  BY <1>7 DEF NotifyMissing, Step
<1>8. ASSUME NEW e \in Deliveries, NotifyUpdate(e) PROVE AnnounceInv'
  BY <1>8 DEF NotifyUpdate, Step
<1>9. ASSUME NEW e \in Deliveries, NEW w \in Workers, Dispatch(e, w)
      PROVE AnnounceInv'
  BY <1>9 DEF Dispatch, Step
<1>10. ASSUME NEW e \in Deliveries, DispatchFails(e) PROVE AnnounceInv'
  BY <1>10 DEF DispatchFails, Step
<1>11. ASSUME NEW e \in Deliveries, Ack(e) PROVE AnnounceInv'
  BY <1>11 DEF Ack, Step
<1>12. ASSUME NEW e \in Deliveries, NotifyDbError(e) PROVE AnnounceInv'
  BY <1>12 DEF NotifyDbError, Step
<1>13. ASSUME NEW w \in Workers, EncodeStep(w) PROVE AnnounceInv'
  BY <1>13 DEF EncodeStep, svars
<1>14. ASSUME NEW w \in Workers, ResultFind(w) PROVE AnnounceInv'
  BY <1>14 DEF ResultFind, WithStatus
<1>15. ASSUME NEW w \in Workers, ResultMissing(w) PROVE AnnounceInv'
  BY <1>15 DEF ResultMissing
<1>16. ASSUME NEW w \in Workers, ResultUpdate(w) PROVE AnnounceInv'
  BY <1>16 DEF ResultUpdate
<1>17. ASSUME NEW w \in Workers, ResultDbError(w) PROVE AnnounceInv'
  BY <1>17 DEF ResultDbError
<1>18. ASSUME NEW p \in Patches, PatchUpdate(p) PROVE AnnounceInv'
  BY <1>18 DEF PatchUpdate, PatchEnd
<1>19. ASSUME NEW p \in Patches, PatchDbError(p) PROVE AnnounceInv'
  BY <1>19 DEF PatchDbError, PatchEnd
<1>20. ASSUME NEW d \in Deletes, DeleteRelated(d) PROVE AnnounceInv'
  BY <1>20 DEF DeleteRelated, DeleteGoto
<1>21. ASSUME NEW d \in Deletes, DeleteFolder(d) PROVE AnnounceInv'
  BY <1>21 DEF DeleteFolder, DeleteGoto
<1>22. ASSUME NEW d \in Deletes, NEW left \in SUBSET Artifacts, DeleteFolderFails(d, left)
      PROVE AnnounceInv'
  BY <1>22 DEF DeleteFolderFails, DeleteGoto
<1>23. ASSUME NEW d \in Deletes, DeleteRow(d) PROVE AnnounceInv'
  BY <1>23 DEF DeleteRow, DeleteGoto
<1>24. ASSUME NEW d \in Deletes, DeleteDbError(d) PROVE AnnounceInv'
  BY <1>24 DEF DeleteDbError, DeleteGoto
<1>25. ASSUME CrashServer PROVE AnnounceInv'
  BY <1>25 DEF CrashServer, InHandler
<1>26. CASE UNCHANGED vars
  BY <1>26 DEF vars, wvars, svars
<1> QED
  BY <1>1, <1>2, <1>3, <1>4, <1>5, <1>6, <1>7, <1>8, <1>9, <1>10, <1>11,
    <1>12, <1>13, <1>14, <1>15, <1>16, <1>17, <1>18, <1>19, <1>20, <1>21,
    <1>22, <1>23, <1>24, <1>25, <1>26
  DEF Next, Request, NotifyStep, ResultStep, PatchStep, DeleteStep

LEMMA WorkerTakesNothing ==
  ASSUME WTypeOK, ProcessInv, NEW w \in Workers, WorkerStep(w)
  PROVE  \A x \in Workers : mailbox'[x] = "taken" <=> mailbox[x] = "taken"
BY DEF WorkerStep, WTypeOK, ProcessInv, Goto, ProbeOk, ProbeFails, EncodeStart, EncodeNoSource,
   EncodeOk, EncodeFails, Upload, UploadFails, RemoveScratch, RemoveSource,
   Post, PostFails, WorkerDies, Fail

LEMMA VerdictInvStep == ASSUME IInv, [Next]_vars PROVE VerdictInv'
<1> USE DEF IInv, TypeOK, WTypeOK, STypeOK, FrameInv, VerdictInv, result, wvars,
            process, task, progress
<1>1. ASSUME NEW v \in Videos, NEW u \in Users, NEW t \in Titles, Publish(v, u, t)
      PROVE VerdictInv'
  BY <1>1 DEF Publish, HoldsVerdict, VerdictDuration
<1>2. ASSUME NEW v \in Videos, NEW e \in Deliveries, PutSource(v, e)
      PROVE VerdictInv'
  BY <1>2 DEF PutSource, Put, HoldsVerdict, VerdictDuration
<1>3. ASSUME NEW e \in Deliveries, NEW f \in Deliveries, Redeliver(e, f)
      PROVE VerdictInv'
  BY <1>3 DEF Redeliver, HoldsVerdict, VerdictDuration
<1>4. ASSUME NEW p \in Patches, NEW v \in Videos, NEW u \in Users, NEW t \in Titles, PatchFind(p, v, u, t)
      PROVE VerdictInv'
  BY <1>4 DEF PatchFind, HoldsVerdict, VerdictDuration
<1>5. ASSUME NEW d \in Deletes, NEW v \in Videos, NEW u \in Users, DeleteFind(d, v, u)
      PROVE VerdictInv'
  BY <1>5 DEF DeleteFind, HoldsVerdict, VerdictDuration
<1>6. ASSUME NEW e \in Deliveries, NotifyFind(e) PROVE VerdictInv'
  BY <1>6 DEF NotifyFind, WithStatus, HoldsVerdict, VerdictDuration
<1>7. ASSUME NEW e \in Deliveries, NotifyMissing(e) PROVE VerdictInv'
  BY <1>7 DEF NotifyMissing, HoldsVerdict, VerdictDuration
<1>8. ASSUME NEW e \in Deliveries, NotifyUpdate(e) PROVE VerdictInv'
  BY <1>8 DEF NotifyUpdate, HoldsVerdict, VerdictDuration
<1>9. ASSUME NEW e \in Deliveries, NEW w \in Workers, Dispatch(e, w)
      PROVE VerdictInv'
  BY <1>9 DEF Dispatch, Spawn, HoldsVerdict, VerdictDuration
<1>10. ASSUME NEW e \in Deliveries, DispatchFails(e) PROVE VerdictInv'
  BY <1>10 DEF DispatchFails, HoldsVerdict, VerdictDuration
<1>11. ASSUME NEW e \in Deliveries, Ack(e) PROVE VerdictInv'
  BY <1>11 DEF Ack, HoldsVerdict, VerdictDuration
<1>12. ASSUME NEW e \in Deliveries, NotifyDbError(e) PROVE VerdictInv'
  BY <1>12 DEF NotifyDbError, HoldsVerdict, VerdictDuration
<1>13. ASSUME NEW w \in Workers, EncodeStep(w) PROVE VerdictInv'
  <2>1. handler' = handler /\ handlerRow' = handlerRow
    BY <1>13 DEF EncodeStep, svars
  <2>2. \A x \in Workers : mailbox'[x] = "taken" <=> mailbox[x] = "taken"
    BY <1>13, WorkerTakesNothing DEF EncodeStep, WInv
  <2>3. \A x \in Workers : handler[x] = "found" => HoldsVerdict(x)'
    BY <2>1, PostedIsFinal DEF HoldsVerdict
  <2> QED
    BY <2>1, <2>2, <2>3
<1>14. ASSUME NEW w \in Workers, ResultFind(w) PROVE VerdictInv'
  <2>1. HoldsVerdict(w)'
    <3>1. video[w] \in Videos
      <4>1. mailbox[w] = "sent"
        BY <1>14 DEF ResultFind, TakeVerdict
      <4>2. video[w] # None
        BY <4>1 DEF WInv, ProcessInv
      <4> QED
        BY <4>2
    <3>2. handlerRow'[w] = ResultRow(w) /\ verdict' = verdict /\ length' = length
      BY <1>14 DEF ResultFind, TakeVerdict
    <3>3. CASE verdict[w] = "completed"
      BY <3>2, <3>3 DEF HoldsVerdict, ResultRow, WithStatus, WithDuration, VerdictDuration
    <3>4. CASE verdict[w] # "completed"
      BY <3>2, <3>4 DEF HoldsVerdict, ResultRow, WithStatus
    <3> QED
      BY <3>3, <3>4
  <2>2. \A x \in Workers \ {w} : HoldsVerdict(x)' <=> HoldsVerdict(x)
    BY <1>14 DEF ResultFind, TakeVerdict, HoldsVerdict, VerdictDuration
  <2> QED
    BY <1>14, <2>1, <2>2 DEF ResultFind, TakeVerdict
<1>15. ASSUME NEW w \in Workers, ResultMissing(w) PROVE VerdictInv'
  <2>1. /\ verdict' = verdict /\ length' = length
        /\ \A x \in Workers \ {w} : handlerRow'[x] = handlerRow[x]
    BY <1>15 DEF ResultMissing, TakeVerdict
  <2>2. \A x \in Workers \ {w} : HoldsVerdict(x)' <=> HoldsVerdict(x)
    BY <2>1 DEF HoldsVerdict, VerdictDuration
  <2> QED
    BY <1>15, <2>2 DEF ResultMissing, TakeVerdict
<1>16. ASSUME NEW w \in Workers, ResultUpdate(w) PROVE VerdictInv'
  <2>1. /\ verdict' = verdict /\ length' = length
        /\ \A x \in Workers \ {w} : handlerRow'[x] = handlerRow[x]
    BY <1>16 DEF ResultUpdate
  <2>2. \A x \in Workers \ {w} : HoldsVerdict(x)' <=> HoldsVerdict(x)
    BY <2>1 DEF HoldsVerdict, VerdictDuration
  <2> QED
    BY <1>16, <2>2 DEF ResultUpdate
<1>17. ASSUME NEW w \in Workers, ResultDbError(w) PROVE VerdictInv'
  <2>1. /\ verdict' = verdict /\ length' = length
        /\ \A x \in Workers \ {w} : handlerRow'[x] = handlerRow[x]
    BY <1>17 DEF ResultDbError, TakeVerdict
  <2>2. \A x \in Workers \ {w} : HoldsVerdict(x)' <=> HoldsVerdict(x)
    BY <2>1 DEF HoldsVerdict, VerdictDuration
  <2> QED
    BY <1>17, <2>2 DEF ResultDbError, TakeVerdict
<1>18. ASSUME NEW p \in Patches, PatchUpdate(p) PROVE VerdictInv'
  BY <1>18 DEF PatchUpdate, PatchEnd, HoldsVerdict, VerdictDuration
<1>19. ASSUME NEW p \in Patches, PatchDbError(p) PROVE VerdictInv'
  BY <1>19 DEF PatchDbError, PatchEnd, HoldsVerdict, VerdictDuration
<1>20. ASSUME NEW d \in Deletes, DeleteRelated(d) PROVE VerdictInv'
  BY <1>20 DEF DeleteRelated, DeleteGoto, HoldsVerdict, VerdictDuration
<1>21. ASSUME NEW d \in Deletes, DeleteFolder(d) PROVE VerdictInv'
  BY <1>21 DEF DeleteFolder, DeleteGoto, EmptyFolder, HoldsVerdict, VerdictDuration
<1>22. ASSUME NEW d \in Deletes, NEW left \in SUBSET Artifacts, DeleteFolderFails(d, left)
      PROVE VerdictInv'
  BY <1>22 DEF DeleteFolderFails, DeleteGoto, EmptyFolder, HoldsVerdict, VerdictDuration
<1>23. ASSUME NEW d \in Deletes, DeleteRow(d) PROVE VerdictInv'
  BY <1>23 DEF DeleteRow, DeleteGoto, HoldsVerdict, VerdictDuration
<1>24. ASSUME NEW d \in Deletes, DeleteDbError(d) PROVE VerdictInv'
  BY <1>24 DEF DeleteDbError, DeleteGoto, HoldsVerdict, VerdictDuration
<1>25. ASSUME CrashServer PROVE VerdictInv'
  BY <1>25 DEF CrashServer, Interrupted, HoldsVerdict, VerdictDuration
<1>26. CASE UNCHANGED vars
  BY <1>26 DEF vars, wvars, svars, HoldsVerdict, VerdictDuration
<1> QED
  BY <1>1, <1>2, <1>3, <1>4, <1>5, <1>6, <1>7, <1>8, <1>9, <1>10, <1>11,
    <1>12, <1>13, <1>14, <1>15, <1>16, <1>17, <1>18, <1>19, <1>20, <1>21,
    <1>22, <1>23, <1>24, <1>25, <1>26
  DEF Next, Request, NotifyStep, ResultStep, PatchStep, DeleteStep

(* The pipeline's inductive invariant.                                     *)
LEMMA Invariance == Spec => []IInv
<1>1. Init => IInv
  <2>1. ASSUME Init PROVE WInv
    BY <2>1, WInvInit DEF Init
  <2>2. ASSUME Init PROVE STypeOK
    BY <2>2, NoRowIsRow DEF Init, STypeOK, Drops
  <2>3. ASSUME Init PROVE FrameInv
    BY <2>3, <2>1 DEF Init, WInit, FrameInv, RowInv, TaskInv, AnnounceInv, VerdictInv,
      Exists, NoRow
  <2> QED
    BY <2>1, <2>2, <2>3 DEF IInv, TypeOK, WInv
<1>2. IInv /\ [Next]_vars => IInv'
  BY STypeStep, ProcessesKeepInv, RowInvStep, TaskInvStep, AnnounceInvStep, VerdictInvStep
  DEF IInv, TypeOK, FrameInv, WInv
<1> QED
  BY <1>1, <1>2, PTL DEF Spec

(* Every variable of the pipeline keeps its type, whatever the requests,   *)
(* the messages and the faults.                                            *)
THEOREM TypeCorrect == Spec => []TypeOK
<1>1. IInv => TypeOK
  BY DEF IInv
<1> QED
  BY <1>1, Invariance, PTL

(* The backend is one of the environments that EncodeWorker was proved     *)
(* for: the pipeline implements WorkerSpec, and what EncodeWorkerProofs    *)
(* proves of the processes holds in it.                                    *)
THEOREM ImplementsWorker == Spec => WorkerSpec
<1>1. Init => WInit
  BY DEF Init
<1>2. IInv /\ [Next]_vars => [WNext]_wvars
  BY WorkerView
<1> QED
  BY <1>1, <1>2, Invariance, PTL DEF Spec, WorkerSpec

-----------------------------------------------------------------------------
(* What became of a delivery and of a process in one step.                 *)
Announcing ==
    \A d \in Deliveries : delivery'[d] \in {"updated", "launching"} =>
       /\ eventOf'[d] = eventOf[d]
       /\ \/ delivery[d] \in {"updated", "launching"}
          \/ /\ delivery[d] = "found"
             /\ row'[eventOf[d]].status \in {"processing", "absent"}

LEMMA AnnouncingStep == ASSUME IInv, [Next]_vars PROVE Announcing
<1> USE DEF IInv, TypeOK, STypeOK, FrameInv, Announcing, notify
<1>1. ASSUME NEW v \in Videos, NEW u \in Users, NEW t \in Titles, Publish(v, u, t)
      PROVE Announcing
  BY <1>1 DEF Publish
<1>2. ASSUME NEW v \in Videos, NEW e \in Deliveries, PutSource(v, e)
      PROVE Announcing
  BY <1>2 DEF PutSource
<1>3. ASSUME NEW e \in Deliveries, NEW f \in Deliveries, Redeliver(e, f)
      PROVE Announcing
  BY <1>3 DEF Redeliver, Step, InHandler
<1>4. ASSUME NEW p \in Patches, NEW v \in Videos, NEW u \in Users, NEW t \in Titles, PatchFind(p, v, u, t)
      PROVE Announcing
  BY <1>4 DEF PatchFind
<1>5. ASSUME NEW d \in Deletes, NEW v \in Videos, NEW u \in Users, DeleteFind(d, v, u)
      PROVE Announcing
  BY <1>5 DEF DeleteFind
<1>6. ASSUME NEW e \in Deliveries, NotifyFind(e) PROVE Announcing
  BY <1>6 DEF NotifyFind, Step
<1>7. ASSUME NEW e \in Deliveries, NotifyMissing(e) PROVE Announcing
  BY <1>7 DEF NotifyMissing, Step
<1>8. ASSUME NEW e \in Deliveries, NotifyUpdate(e) PROVE Announcing
  <2>1. eventOf[e] \in Videos /\ eventRow[e].status = "processing"
    BY <1>8 DEF NotifyUpdate, Step, TaskInv, AnnounceInv
  <2>2. row'[eventOf[e]].status \in {"processing", "absent"}
    BY <1>8, <2>1 DEF NotifyUpdate, Update, Merge, Exists
  <2> QED
    BY <1>8, <2>2 DEF NotifyUpdate, Step
<1>9. ASSUME NEW e \in Deliveries, NEW w \in Workers, Dispatch(e, w)
      PROVE Announcing
  BY <1>9 DEF Dispatch, Step
<1>10. ASSUME NEW e \in Deliveries, DispatchFails(e) PROVE Announcing
  BY <1>10 DEF DispatchFails, Step
<1>11. ASSUME NEW e \in Deliveries, Ack(e) PROVE Announcing
  BY <1>11 DEF Ack, Step
<1>12. ASSUME NEW e \in Deliveries, NotifyDbError(e) PROVE Announcing
  BY <1>12 DEF NotifyDbError, Step
<1>13. ASSUME NEW w \in Workers, EncodeStep(w) PROVE Announcing
  BY <1>13 DEF EncodeStep, svars
<1>14. ASSUME NEW w \in Workers, ResultFind(w) PROVE Announcing
  BY <1>14 DEF ResultFind
<1>15. ASSUME NEW w \in Workers, ResultMissing(w) PROVE Announcing
  BY <1>15 DEF ResultMissing
<1>16. ASSUME NEW w \in Workers, ResultUpdate(w) PROVE Announcing
  BY <1>16 DEF ResultUpdate
<1>17. ASSUME NEW w \in Workers, ResultDbError(w) PROVE Announcing
  BY <1>17 DEF ResultDbError
<1>18. ASSUME NEW p \in Patches, PatchUpdate(p) PROVE Announcing
  BY <1>18 DEF PatchUpdate, PatchEnd
<1>19. ASSUME NEW p \in Patches, PatchDbError(p) PROVE Announcing
  BY <1>19 DEF PatchDbError, PatchEnd
<1>20. ASSUME NEW d \in Deletes, DeleteRelated(d) PROVE Announcing
  BY <1>20 DEF DeleteRelated, DeleteGoto
<1>21. ASSUME NEW d \in Deletes, DeleteFolder(d) PROVE Announcing
  BY <1>21 DEF DeleteFolder, DeleteGoto
<1>22. ASSUME NEW d \in Deletes, NEW left \in SUBSET Artifacts, DeleteFolderFails(d, left)
      PROVE Announcing
  BY <1>22 DEF DeleteFolderFails, DeleteGoto
<1>23. ASSUME NEW d \in Deletes, DeleteRow(d) PROVE Announcing
  BY <1>23 DEF DeleteRow, DeleteGoto
<1>24. ASSUME NEW d \in Deletes, DeleteDbError(d) PROVE Announcing
  BY <1>24 DEF DeleteDbError, DeleteGoto
<1>25. ASSUME CrashServer PROVE Announcing
  BY <1>25 DEF CrashServer, InHandler
<1>26. CASE UNCHANGED vars
  BY <1>26 DEF vars, wvars, svars
<1> QED
  BY <1>1, <1>2, <1>3, <1>4, <1>5, <1>6, <1>7, <1>8, <1>9, <1>10, <1>11,
    <1>12, <1>13, <1>14, <1>15, <1>16, <1>17, <1>18, <1>19, <1>20, <1>21,
    <1>22, <1>23, <1>24, <1>25, <1>26
  DEF Next, Request, NotifyStep, ResultStep, PatchStep, DeleteStep

Spawning ==
    \A x \in Workers : stage'[x] # "unused" =>
       \/ stage[x] # "unused" /\ video'[x] = video[x]
       \/ \E d \in Deliveries :
             /\ delivery[d] \in {"updated", "launching"}
             /\ eventOf[d] = video'[x]

LEMMA SpawningStep == ASSUME IInv, [Next]_vars PROVE Spawning
<1> USE DEF IInv, TypeOK, WTypeOK, STypeOK, Spawning, wvars, process, task, progress
<1>1. ASSUME NEW v \in Videos, NEW u \in Users, NEW t \in Titles, Publish(v, u, t)
      PROVE Spawning
  BY <1>1 DEF Publish
<1>2. ASSUME NEW v \in Videos, NEW e \in Deliveries, PutSource(v, e)
      PROVE Spawning
  BY <1>2 DEF PutSource, Put
<1>3. ASSUME NEW e \in Deliveries, NEW f \in Deliveries, Redeliver(e, f)
      PROVE Spawning
  BY <1>3 DEF Redeliver, Step, InHandler
<1>4. ASSUME NEW p \in Patches, NEW v \in Videos, NEW u \in Users, NEW t \in Titles, PatchFind(p, v, u, t)
      PROVE Spawning
  BY <1>4 DEF PatchFind
<1>5. ASSUME NEW d \in Deletes, NEW v \in Videos, NEW u \in Users, DeleteFind(d, v, u)
      PROVE Spawning
  BY <1>5 DEF DeleteFind
<1>6. ASSUME NEW e \in Deliveries, NotifyFind(e) PROVE Spawning
  BY <1>6 DEF NotifyFind, Step
<1>7. ASSUME NEW e \in Deliveries, NotifyMissing(e) PROVE Spawning
  BY <1>7 DEF NotifyMissing, Step
<1>8. ASSUME NEW e \in Deliveries, NotifyUpdate(e) PROVE Spawning
  BY <1>8 DEF NotifyUpdate, Step
<1>9. ASSUME NEW e \in Deliveries, NEW w \in Workers, Dispatch(e, w)
      PROVE Spawning
  BY <1>9 DEF Dispatch, Step, Spawn
<1>10. ASSUME NEW e \in Deliveries, DispatchFails(e) PROVE Spawning
  BY <1>10 DEF DispatchFails, Step
<1>11. ASSUME NEW e \in Deliveries, Ack(e) PROVE Spawning
  BY <1>11 DEF Ack, Step
<1>12. ASSUME NEW e \in Deliveries, NotifyDbError(e) PROVE Spawning
  BY <1>12 DEF NotifyDbError, Step
<1>13. ASSUME NEW w \in Workers, EncodeStep(w) PROVE Spawning
  <2>1. /\ video' = video
        /\ \A x \in Workers : stage'[x] # "unused" => stage[x] # "unused"
    BY <1>13, ProcessIsAlone DEF EncodeStep, WInv, Running, Stages
  <2> QED
    BY <1>13, <2>1
<1>14. ASSUME NEW w \in Workers, ResultFind(w) PROVE Spawning
  BY <1>14 DEF ResultFind, TakeVerdict
<1>15. ASSUME NEW w \in Workers, ResultMissing(w) PROVE Spawning
  BY <1>15 DEF ResultMissing, TakeVerdict
<1>16. ASSUME NEW w \in Workers, ResultUpdate(w) PROVE Spawning
  BY <1>16 DEF ResultUpdate
<1>17. ASSUME NEW w \in Workers, ResultDbError(w) PROVE Spawning
  BY <1>17 DEF ResultDbError, TakeVerdict
<1>18. ASSUME NEW p \in Patches, PatchUpdate(p) PROVE Spawning
  BY <1>18 DEF PatchUpdate, PatchEnd
<1>19. ASSUME NEW p \in Patches, PatchDbError(p) PROVE Spawning
  BY <1>19 DEF PatchDbError, PatchEnd
<1>20. ASSUME NEW d \in Deletes, DeleteRelated(d) PROVE Spawning
  BY <1>20 DEF DeleteRelated, DeleteGoto
<1>21. ASSUME NEW d \in Deletes, DeleteFolder(d) PROVE Spawning
  BY <1>21 DEF DeleteFolder, DeleteGoto, EmptyFolder
<1>22. ASSUME NEW d \in Deletes, NEW left \in SUBSET Artifacts, DeleteFolderFails(d, left)
      PROVE Spawning
  BY <1>22 DEF DeleteFolderFails, DeleteGoto, EmptyFolder
<1>23. ASSUME NEW d \in Deletes, DeleteRow(d) PROVE Spawning
  BY <1>23 DEF DeleteRow, DeleteGoto
<1>24. ASSUME NEW d \in Deletes, DeleteDbError(d) PROVE Spawning
  BY <1>24 DEF DeleteDbError, DeleteGoto
<1>25. ASSUME CrashServer PROVE Spawning
  BY <1>25 DEF CrashServer, InHandler
<1>26. CASE UNCHANGED vars
  BY <1>26 DEF vars, wvars, svars
<1> QED
  BY <1>1, <1>2, <1>3, <1>4, <1>5, <1>6, <1>7, <1>8, <1>9, <1>10, <1>11,
    <1>12, <1>13, <1>14, <1>15, <1>16, <1>17, <1>18, <1>19, <1>20, <1>21,
    <1>22, <1>23, <1>24, <1>25, <1>26
  DEF Next, Request, NotifyStep, ResultStep, PatchStep, DeleteStep

(* What that means for the status.                                         *)
LEMMA StatusStep ==
  ASSUME IInv, [Next]_vars, NEW x \in Videos
  PROVE  \/ row'[x].status = row[x].status
         \/ row'[x].status = "pending" /\ Published(x)
         \/ row'[x].status = "processing" /\ Announced(x)
         \/ row'[x].status = "completed" /\ Completed(x)
         \/ row'[x].status = "failed" /\ FailedBy(x)
         \/ row'[x].status = "absent" /\ Deleted(x)
<1>1. Change(x)
  BY RowStep
<1>2. CASE row'[x] = row[x]
  BY <1>2
<1>3. CASE Published(x)
  BY <1>3 DEF Published
<1>4. CASE Announced(x)
  BY <1>4 DEF Announced, WithStatus
<1>5. CASE Completed(x)
  BY <1>5 DEF Completed, WithStatus, WithDuration
<1>6. CASE FailedBy(x)
  BY <1>6 DEF FailedBy, WithStatus
<1>7. CASE Edited(x)
  BY <1>7 DEF Edited, WithTitle
<1>8. CASE Deleted(x)
  BY <1>8 DEF Deleted, NoRow
<1> QED
  BY <1>1, <1>2, <1>3, <1>4, <1>5, <1>6, <1>7, <1>8 DEF Change

(* A row is "pending" only while nobody has announced its video.           *)
PendingInv ==
    \A v \in Videos : row[v].status = "pending" =>
       /\ \A d \in Deliveries : eventOf[d] = v => delivery[d] \notin {"updated", "launching"}
       /\ \A x \in Workers : stage[x] # "unused" => video[x] # v

LEMMA PendingStep == ASSUME IInv, PendingInv, [Next]_vars PROVE PendingInv'
<1> SUFFICES ASSUME NEW v \in Videos, row'[v].status = "pending"
             PROVE  /\ \A d \in Deliveries : eventOf'[d] = v =>
                         delivery'[d] \notin {"updated", "launching"}
                    /\ \A x \in Workers : stage'[x] # "unused" => video'[x] # v
  BY DEF PendingInv
<1>1. row[v].status = "pending" \/ v \notin issued
  BY StatusStep DEF Published
<1>2. \A d \in Deliveries : eventOf[d] = v => delivery[d] \notin {"updated", "launching"}
  BY <1>1 DEF PendingInv, IInv, FrameInv, TaskInv
<1>3. \A x \in Workers : stage[x] # "unused" => video[x] # v
  BY <1>1 DEF PendingInv, IInv, FrameInv, TaskInv
<1>4. ASSUME NEW d \in Deliveries, eventOf'[d] = v PROVE delivery'[d] \notin {"updated", "launching"}
  BY <1>2, <1>4, AnnouncingStep DEF Announcing
<1>5. ASSUME NEW x \in Workers, stage'[x] # "unused" PROVE video'[x] # v
  BY <1>2, <1>3, <1>5, SpawningStep DEF Spawning
<1> QED
  BY <1>4, <1>5

(* No edit and no late handler puts a video back to "pending" once an      *)
(* encoder was started for it.                                             *)
THEOREM StatusNeverTrails == Spec => []StatusTrailsDispatch
<1>1. Init => PendingInv
  BY DEF Init, NoRow, PendingInv
<1>2. IInv /\ PendingInv /\ [Next]_vars => PendingInv'
  BY PendingStep
<1>3. IInv /\ PendingInv => StatusTrailsDispatch
  <2> SUFFICES ASSUME IInv, PendingInv, NEW w \in Workers, stage[w] # "unused"
               PROVE  row[video[w]].status # "pending"
    BY DEF StatusTrailsDispatch
  <2>1. video[w] \in Videos
    BY DEF IInv, FrameInv, TaskInv, TypeOK, STypeOK
  <2> QED
    BY <2>1 DEF PendingInv
<1> QED
  BY <1>1, <1>2, <1>3, Invariance, PTL DEF Spec

-----------------------------------------------------------------------------
LEMMA TakenStays ==
  ASSUME IInv, [Next]_vars, NEW w \in Workers, mailbox[w] = "taken"
  PROVE  mailbox'[w] = "taken"
<1>1. handler[w] # "idle"
  BY DEF IInv, FrameInv, VerdictInv
<1>2. handler'[w] # "idle"
  BY <1>1 DEF Next, Request, NotifyStep, ResultStep, PatchStep, DeleteStep, vars,
    svars, result, IInv, TypeOK, STypeOK,
    Publish, PutSource, Redeliver, PatchFind, DeleteFind, NotifyFind,
    NotifyMissing, NotifyUpdate, Dispatch, DispatchFails, Ack, NotifyDbError,
    EncodeStep, ResultFind, ResultMissing, ResultUpdate, ResultDbError,
    PatchUpdate, PatchDbError, PatchEnd, DeleteRelated, DeleteFolder,
    DeleteFolderFails, DeleteRow, DeleteDbError, DeleteGoto, CrashServer
<1> QED
  BY <1>2, VerdictInvStep DEF VerdictInv

(* A row that was deleted is never written again: every UPDATE of a        *)
(* handler that still holds it misses.                                     *)
THEOREM RemovalIsFinal == Spec => RemovedForGood
<1>1. IInv /\ [Next]_vars => StaysRemoved
  <2> SUFFICES ASSUME IInv, [Next]_vars, NEW v \in issued, ~Exists(v)
               PROVE  ~Exists(v)'
    BY DEF StaysRemoved
  <2>1. v \in Videos
    BY DEF IInv, TypeOK, STypeOK
  <2>2. Change(v)
    BY <2>1, RowStep
  <2> QED
    BY <2>2 DEF Change, Published, Announced, Completed, FailedBy, Edited,
      Deleted, Exists, NoRow
<1> QED
  BY <1>1, Invariance, PTL DEF Spec, RemovedForGood

(* "completed" and the duration in a row are the verdict of a process that *)
(* encoded this very video.                                                *)
THEOREM CompletionIsEarned == Spec => []CompletedIsEarned
<1>1. Init => CompletedIsEarned
  BY DEF Init, NoRow, CompletedIsEarned
<1>2. ASSUME IInv, CompletedIsEarned, [Next]_vars PROVE CompletedIsEarned'
  <2> SUFFICES ASSUME NEW v \in Videos, row'[v].status = "completed"
               PROVE  \E w \in Workers :
                         /\ video'[w] = v
                         /\ verdict'[w] = "completed"
                         /\ mailbox'[w] = "taken"
                         /\ row'[v].duration = VerdictDuration(w)'
    BY DEF CompletedIsEarned
  <2>1. Change(v)
    BY <1>2, RowStep
  <2>2. ASSUME NEW w \in Workers, mailbox[w] = "taken", verdict[w] = "completed",
               video[w] = v, row'[v].duration = VerdictDuration(w)
        PROVE  \E x \in Workers :
                  /\ video'[x] = v
                  /\ verdict'[x] = "completed"
                  /\ mailbox'[x] = "taken"
                  /\ row'[v].duration = VerdictDuration(x)'
    BY <1>2, <2>2, PostedIsFinal, TakenStays
  <2>3. CASE row'[v] = row[v] \/ Edited(v)
    <3>0. ASSUME Edited(v)
          PROVE  row[v].status = row'[v].status /\ row'[v].duration = row[v].duration
      <4>1. PICK p \in Patches : row'[v] = WithTitle(row[v], patchRow[p].title)
        BY <3>0 DEF Edited
      <4> QED
        BY <4>1 DEF WithTitle
    <3>1. row[v].status = row'[v].status /\ row'[v].duration = row[v].duration
      BY <2>3, <3>0
    <3>2. PICK w \in Workers : /\ mailbox[w] = "taken" /\ verdict[w] = "completed"
                               /\ video[w] = v /\ row[v].duration = VerdictDuration(w)
      BY <1>2, <3>1 DEF CompletedIsEarned
    <3> QED
      BY <2>2, <3>1, <3>2
  <2>4. CASE Completed(v)
    <3>1. PICK w \in Workers : /\ handler[w] = "found" /\ verdict[w] = "completed"
                               /\ video[w] = v
                               /\ row'[v].duration = VerdictDuration(w)
      BY <2>4 DEF Completed, WithDuration
    <3>2. mailbox[w] = "taken"
      BY <1>2, <3>1 DEF IInv, TypeOK, STypeOK, FrameInv, VerdictInv
    <3> QED
      BY <2>2, <3>1, <3>2
  <2>5. CASE Published(v) \/ Announced(v) \/ FailedBy(v) \/ Deleted(v)
    BY <2>5 DEF Published, Announced, FailedBy, Deleted, WithStatus, NoRow
  <2> QED
    BY <2>1, <2>3, <2>4, <2>5 DEF Change
<1> QED
  BY <1>1, <1>2, Invariance, PTL DEF Spec

(* A video marked "completed" whose folder was emptied by no deletion and  *)
(* filled by no two local processes at a time has every artifact but those *)
(* whose upload failed.                                                    *)
THEOREM CompletionIsPlayable == Spec => []CompletedIsPlayable
<1>1. IInv /\ CompletedIsEarned => CompletedIsPlayable
  <2> SUFFICES ASSUME IInv, CompletedIsEarned, NEW v \in Videos,
                      row[v].status = "completed"
               PROVE  /\ Finished(v) # {}
                      /\ Undisturbed(v) =>
                            \A w \in Finished(v) : \A k \in Artifacts \ failed[w] :
                                hls[v][k] # 0
    BY DEF CompletedIsPlayable
  <2>1. Finished(v) # {}
    BY DEF CompletedIsEarned, Finished
  <2>2. ASSUME Undisturbed(v), NEW w \in Finished(v), NEW k \in Artifacts \ failed[w]
        PROVE  hls[v][k] # 0
    <3>1. w \in Workers /\ video[w] = v /\ Behind(w, k)
      BY DEF Finished, Behind
    <3> QED
      BY <2>2, <3>1, WorkerAssumption DEF IInv, WInv, StoreInv
  <2> QED
    BY <2>1, <2>2
<1> QED
  BY <1>1, CompletionIsEarned, Invariance, PTL

(* A "completed" video is marked "failed" only on the word of another      *)
(* process than the one that completed it.                                 *)
THEOREM FailureIsByRerun == Spec => FailureOnlyByRerun
<1>1. IInv /\ CompletedIsEarned /\ [Next]_vars => FailureNeedsRerun
  <2> SUFFICES ASSUME IInv, CompletedIsEarned, [Next]_vars, NEW v \in Videos,
                      row[v].status = "completed", row'[v].status = "failed"
               PROVE  \E w1, w2 \in Workers :
                         /\ video[w1] = v /\ verdict[w1] = "completed"
                         /\ video[w2] = v /\ verdict[w2] = "failed"
    BY DEF FailureNeedsRerun
  <2>1. PICK w1 \in Workers : video[w1] = v /\ verdict[w1] = "completed"
    BY DEF CompletedIsEarned
  <2>2. FailedBy(v)
    BY StatusStep
  <2>3. PICK w2 \in Workers : /\ handler[w2] = "found" /\ video[w2] = v
                              /\ verdict[w2] # "completed"
    BY <2>2 DEF FailedBy
  <2>4. verdict[w2] = "failed"
    BY <2>3 DEF IInv, FrameInv, VerdictInv, WInv, ProcessInv, WTypeOK
  <2> QED
    BY <2>1, <2>3, <2>4
<1> QED
  BY <1>1, CompletionIsEarned, Invariance, PTL DEF Spec, FailureOnlyByRerun

-----------------------------------------------------------------------------
(* What becomes of an edit: its title is kept, it ends once, and it is     *)
(* answered with 200 only when its title is in the row or the row is gone. *)
PatchView ==
    \A q \in Patches :
       /\ patch[q] # "none" =>
             /\ patch'[q] # "none"
             /\ patchOf'[q] = patchOf[q]
             /\ patchRow'[q].title = patchRow[q].title
       /\ patch[q] \in {"done", "error"} => patch'[q] = patch[q]
       /\ patch'[q] = "done" =>
             \/ patch[q] = "done"
             \/ /\ patch[q] = "found"
                /\ \/ ~Exists(patchOf[q])'
                   \/ row'[patchOf[q]].title = patchRow[q].title

LEMMA PatchViewStep == ASSUME IInv, [Next]_vars PROVE PatchView
<1> USE DEF IInv, TypeOK, STypeOK, FrameInv, PatchView, edit
<1>1. ASSUME NEW v \in Videos, NEW u \in Users, NEW t \in Titles, Publish(v, u, t)
      PROVE PatchView
  BY <1>1 DEF Publish
<1>2. ASSUME NEW v \in Videos, NEW e \in Deliveries, PutSource(v, e)
      PROVE PatchView
  BY <1>2 DEF PutSource
<1>3. ASSUME NEW e \in Deliveries, NEW f \in Deliveries, Redeliver(e, f)
      PROVE PatchView
  BY <1>3 DEF Redeliver
<1>4. ASSUME NEW p \in Patches, NEW v \in Videos, NEW u \in Users, NEW t \in Titles, PatchFind(p, v, u, t)
      PROVE PatchView
  BY <1>4 DEF PatchFind, WithTitle
<1>5. ASSUME NEW d \in Deletes, NEW v \in Videos, NEW u \in Users, DeleteFind(d, v, u)
      PROVE PatchView
  BY <1>5 DEF DeleteFind
<1>6. ASSUME NEW e \in Deliveries, NotifyFind(e) PROVE PatchView
  BY <1>6 DEF NotifyFind
<1>7. ASSUME NEW e \in Deliveries, NotifyMissing(e) PROVE PatchView
  BY <1>7 DEF NotifyMissing
<1>8. ASSUME NEW e \in Deliveries, NotifyUpdate(e) PROVE PatchView
  BY <1>8 DEF NotifyUpdate
<1>9. ASSUME NEW e \in Deliveries, NEW w \in Workers, Dispatch(e, w)
      PROVE PatchView
  BY <1>9 DEF Dispatch
<1>10. ASSUME NEW e \in Deliveries, DispatchFails(e) PROVE PatchView
  BY <1>10 DEF DispatchFails
<1>11. ASSUME NEW e \in Deliveries, Ack(e) PROVE PatchView
  BY <1>11 DEF Ack
<1>12. ASSUME NEW e \in Deliveries, NotifyDbError(e) PROVE PatchView
  BY <1>12 DEF NotifyDbError
<1>13. ASSUME NEW w \in Workers, EncodeStep(w) PROVE PatchView
  BY <1>13 DEF EncodeStep, svars
<1>14. ASSUME NEW w \in Workers, ResultFind(w) PROVE PatchView
  BY <1>14 DEF ResultFind
<1>15. ASSUME NEW w \in Workers, ResultMissing(w) PROVE PatchView
  BY <1>15 DEF ResultMissing
<1>16. ASSUME NEW w \in Workers, ResultUpdate(w) PROVE PatchView
  BY <1>16 DEF ResultUpdate
<1>17. ASSUME NEW w \in Workers, ResultDbError(w) PROVE PatchView
  BY <1>17 DEF ResultDbError
<1>18. ASSUME NEW p \in Patches, PatchUpdate(p) PROVE PatchView
  <2>1. \/ ~Exists(patchOf[p])'
        \/ row'[patchOf[p]].title = patchRow[p].title
    BY <1>18 DEF PatchUpdate, PatchEnd, Update, Merge, Exists, TaskInv
  <2>2. patchRow'[p].title = patchRow[p].title
    BY <1>18 DEF PatchUpdate, PatchEnd, WithTitle
  <2> QED
    BY <1>18, <2>1, <2>2 DEF PatchUpdate, PatchEnd
<1>19. ASSUME NEW p \in Patches, PatchDbError(p) PROVE PatchView
  <2>1. patchRow'[p].title = patchRow[p].title
    BY <1>19 DEF PatchDbError, PatchEnd, WithTitle
  <2> QED
    BY <1>19, <2>1 DEF PatchDbError, PatchEnd
<1>20. ASSUME NEW d \in Deletes, DeleteRelated(d) PROVE PatchView
  BY <1>20 DEF DeleteRelated, DeleteGoto
<1>21. ASSUME NEW d \in Deletes, DeleteFolder(d) PROVE PatchView
  BY <1>21 DEF DeleteFolder, DeleteGoto
<1>22. ASSUME NEW d \in Deletes, NEW left \in SUBSET Artifacts, DeleteFolderFails(d, left)
      PROVE PatchView
  BY <1>22 DEF DeleteFolderFails, DeleteGoto
<1>23. ASSUME NEW d \in Deletes, DeleteRow(d) PROVE PatchView
  BY <1>23 DEF DeleteRow, DeleteGoto
<1>24. ASSUME NEW d \in Deletes, DeleteDbError(d) PROVE PatchView
  BY <1>24 DEF DeleteDbError, DeleteGoto
<1>25. ASSUME CrashServer PROVE PatchView
  <2>1. \A q \in Patches : patchRow'[q].title = patchRow[q].title
    BY <1>25 DEF CrashServer, WithTitle
  <2> QED
    BY <1>25, <2>1 DEF CrashServer
<1>26. CASE UNCHANGED vars
  BY <1>26 DEF vars, wvars, svars
<1> QED
  BY <1>1, <1>2, <1>3, <1>4, <1>5, <1>6, <1>7, <1>8, <1>9, <1>10, <1>11,
    <1>12, <1>13, <1>14, <1>15, <1>16, <1>17, <1>18, <1>19, <1>20, <1>21,
    <1>22, <1>23, <1>24, <1>25, <1>26
  DEF Next, Request, NotifyStep, ResultStep, PatchStep, DeleteStep

(* An edit that was answered with 200 is never overwritten by the stale    *)
(* row of a webhook handler.                                               *)
THEOREM EditsAreKept == Spec => []EditKept
<1>1. Init => EditKept
  BY DEF Init, EditKept
<1>2. ASSUME IInv, EditKept, [Next]_vars PROVE EditKept'
  <2> SUFFICES ASSUME NEW v \in Videos, Exists(v)', NEW p \in Patches,
                      patchOf'[p] = v, patch'[p] = "done"
               PROVE  \E q \in Patches :
                         /\ patchOf'[q] = v
                         /\ patch'[q] \in {"done", "error"}
                         /\ row'[v].title = patchRow'[q].title
    BY DEF EditKept
  <2>0. Exists(v)'
    OBVIOUS
  <2>1. PatchView /\ Change(v)
    BY <1>2, PatchViewStep, RowStep
  <2>2. patch[p] # "none" /\ patchOf[p] = v
    BY <2>1 DEF PatchView
  <2>3. CASE patch[p] # "done"
    BY <2>1, <2>2, <2>3 DEF PatchView
  <2>4. CASE Edited(v)
    BY <2>1, <2>4 DEF Edited, PatchView, WithTitle
  <2>5. CASE patch[p] = "done" /\ ~Edited(v)
    <3>1. v \in issued
      BY <1>2, <2>2 DEF IInv, FrameInv, TaskInv
    <3>2. Exists(v) /\ row'[v].title = row[v].title
      <4>1. CASE Published(v)
        BY <3>1, <4>1 DEF Published
      <4>2. CASE Announced(v)
        BY <4>2 DEF Announced, WithStatus, Exists
      <4>3. CASE Completed(v)
        BY <4>3 DEF Completed, WithStatus, WithDuration, Exists
      <4>4. CASE FailedBy(v)
        BY <4>4 DEF FailedBy, WithStatus, Exists
      <4>5. CASE Deleted(v)
        BY <2>0, <4>5 DEF Deleted, Exists, NoRow
      <4>6. CASE row'[v] = row[v]
        BY <2>0, <4>6 DEF Exists
      <4> QED
        BY <2>1, <2>5, <4>1, <4>2, <4>3, <4>4, <4>5, <4>6 DEF Change
    <3>3. PICK q \in Patches : /\ patchOf[q] = v
                               /\ patch[q] \in {"done", "error"}
                               /\ row[v].title = patchRow[q].title
      BY <1>2, <2>2, <2>5, <3>2 DEF EditKept
    <3> QED
      BY <2>1, <3>2, <3>3 DEF PatchView
  <2> QED
    BY <2>3, <2>4, <2>5
<1> QED
  BY <1>1, <1>2, Invariance, PTL DEF Spec


-----------------------------------------------------------------------------
(* Who owes a video its status.                                            *)
Underway(x) == delivery[x] \in {"queued", "found", "updated", "launching"}
Busy(w) == stage[w] \in Running \/ mailbox[w] = "sent" \/ handler[w] = "found"

NotifyFate(x) ==
    /\ eventOf'[x] = eventOf[x]
    /\ \/ Underway(x)'
       \/ \E w \in Workers : stage'[w] = "spawned" /\ video'[w] = eventOf[x]
       \/ row'[eventOf[x]].status = "absent"

(* A delivery on its way goes on, starts a process, finds its row gone, or *)
(* leaves a mark in dropped.                                               *)
LEMMA NotifyFateStep ==
  ASSUME IInv, [Next]_vars, NEW x \in Deliveries, Underway(x),
         dropped'[eventOf[x]] = {}
  PROVE  NotifyFate(x)
<1>0. eventOf[x] \in Videos
  BY DEF IInv, TypeOK, STypeOK, FrameInv, TaskInv, Underway
<1> USE DEF IInv, TypeOK, STypeOK, WTypeOK, NotifyFate, Underway, notify
<1>1. ASSUME NEW v \in Videos, NEW u \in Users, NEW t \in Titles, Publish(v, u, t)
      PROVE NotifyFate(x)
  BY <1>1, <1>0 DEF Publish
<1>2. ASSUME NEW v \in Videos, NEW e \in Deliveries, PutSource(v, e)
      PROVE NotifyFate(x)
  BY <1>2, <1>0 DEF PutSource
<1>3. ASSUME NEW e \in Deliveries, NEW f \in Deliveries, Redeliver(e, f)
      PROVE NotifyFate(x)
  BY <1>3, <1>0 DEF Redeliver, Step, InHandler
<1>4. ASSUME NEW p \in Patches, NEW v \in Videos, NEW u \in Users, NEW t \in Titles, PatchFind(p, v, u, t)
      PROVE NotifyFate(x)
  BY <1>4, <1>0 DEF PatchFind
<1>5. ASSUME NEW d \in Deletes, NEW v \in Videos, NEW u \in Users, DeleteFind(d, v, u)
      PROVE NotifyFate(x)
  BY <1>5, <1>0 DEF DeleteFind
<1>6. ASSUME NEW e \in Deliveries, NotifyFind(e) PROVE NotifyFate(x)
  BY <1>6, <1>0 DEF NotifyFind, Step
<1>7. ASSUME NEW e \in Deliveries, NotifyMissing(e) PROVE NotifyFate(x)
  <2>1. row' = row /\ \/ x # e \/ row[eventOf[x]].status = "absent"
    BY <1>7 DEF NotifyMissing, Exists
  <2> QED
    BY <1>7, <2>1 DEF NotifyMissing, Step
<1>8. ASSUME NEW e \in Deliveries, NotifyUpdate(e) PROVE NotifyFate(x)
  BY <1>8, <1>0 DEF NotifyUpdate, Step
<1>9. ASSUME NEW e \in Deliveries, NEW w \in Workers, Dispatch(e, w)
      PROVE NotifyFate(x)
  BY <1>9, <1>0 DEF Dispatch, Step, Spawn
<1>10. ASSUME NEW e \in Deliveries, DispatchFails(e) PROVE NotifyFate(x)
  BY <1>10, <1>0, ZenonT(60) DEF DispatchFails, Step, Drop
<1>11. ASSUME NEW e \in Deliveries, Ack(e) PROVE NotifyFate(x)
  BY <1>11, <1>0 DEF Ack, Step
<1>12. ASSUME NEW e \in Deliveries, NotifyDbError(e) PROVE NotifyFate(x)
  BY <1>12, <1>0, ZenonT(60) DEF NotifyDbError, Step, Drop
<1>13. ASSUME NEW w \in Workers, EncodeStep(w) PROVE NotifyFate(x)
  BY <1>13, <1>0 DEF EncodeStep, svars
<1>14. ASSUME NEW w \in Workers, ResultFind(w) PROVE NotifyFate(x)
  BY <1>14, <1>0 DEF ResultFind
<1>15. ASSUME NEW w \in Workers, ResultMissing(w) PROVE NotifyFate(x)
  BY <1>15, <1>0 DEF ResultMissing
<1>16. ASSUME NEW w \in Workers, ResultUpdate(w) PROVE NotifyFate(x)
  BY <1>16, <1>0 DEF ResultUpdate
<1>17. ASSUME NEW w \in Workers, ResultDbError(w) PROVE NotifyFate(x)
  BY <1>17, <1>0 DEF ResultDbError, Drop
<1>18. ASSUME NEW p \in Patches, PatchUpdate(p) PROVE NotifyFate(x)
  BY <1>18, <1>0 DEF PatchUpdate, PatchEnd
<1>19. ASSUME NEW p \in Patches, PatchDbError(p) PROVE NotifyFate(x)
  BY <1>19, <1>0 DEF PatchDbError, PatchEnd
<1>20. ASSUME NEW d \in Deletes, DeleteRelated(d) PROVE NotifyFate(x)
  BY <1>20, <1>0 DEF DeleteRelated, DeleteGoto
<1>21. ASSUME NEW d \in Deletes, DeleteFolder(d) PROVE NotifyFate(x)
  BY <1>21, <1>0 DEF DeleteFolder, DeleteGoto
<1>22. ASSUME NEW d \in Deletes, NEW left \in SUBSET Artifacts, DeleteFolderFails(d, left)
      PROVE NotifyFate(x)
  BY <1>22, <1>0 DEF DeleteFolderFails, DeleteGoto
<1>23. ASSUME NEW d \in Deletes, DeleteRow(d) PROVE NotifyFate(x)
  BY <1>23, <1>0 DEF DeleteRow, DeleteGoto
<1>24. ASSUME NEW d \in Deletes, DeleteDbError(d) PROVE NotifyFate(x)
  BY <1>24, <1>0 DEF DeleteDbError, DeleteGoto
<1>25. ASSUME CrashServer PROVE NotifyFate(x)
  <2>1. delivery[x] = "launching" => Interrupted(eventOf[x])
    BY <1>25 DEF Interrupted
  <2>2. delivery[x] # "launching"
    BY <1>25, <2>1, <1>0 DEF CrashServer
  <2> QED
    BY <1>25, <2>2 DEF CrashServer, InHandler
<1>26. CASE UNCHANGED vars
  BY <1>26, <1>0 DEF vars, wvars, svars
<1> QED
  BY <1>1, <1>2, <1>3, <1>4, <1>5, <1>6, <1>7, <1>8, <1>9, <1>10, <1>11,
    <1>12, <1>13, <1>14, <1>15, <1>16, <1>17, <1>18, <1>19, <1>20, <1>21,
    <1>22, <1>23, <1>24, <1>25, <1>26
  DEF Next, Request, NotifyStep, ResultStep, PatchStep, DeleteStep

(* A running process goes on, speaks, or leaves a mark.                    *)
LEMMA ProcessMoves ==
  ASSUME WTypeOK, ProcessInv, NEW w \in Workers, WorkerStep(w), NEW x \in Workers
  PROVE  /\ video' = video
         /\ stage[x] \in Running =>
               \/ stage'[x] \in Running
               \/ mailbox'[x] = "sent"
               \/ marks'[video[x]] \cap {"worker", "post"} # {}
         /\ mailbox[x] = "sent" => mailbox'[x] = "sent"
<1> USE DEF WTypeOK, ProcessInv, Goto, Fail, Mark, Running, Stages, task, progress, bucket
<1>1. video[w] # None => video[w] \in Videos
  OBVIOUS
<1>2. ASSUME NEW len \in SourceLengths, ProbeOk(w, len)
      PROVE  /\ video' = video /\ mailbox' = mailbox
             /\ stage[x] \in Running => stage'[x] \in Running
  BY <1>2 DEF ProbeOk
<1>3. CASE ProbeFails(w)
  BY <1>3 DEF ProbeFails
<1>4. CASE EncodeStart(w)
  BY <1>4 DEF EncodeStart
<1>5. CASE EncodeNoSource(w)
  BY <1>5 DEF EncodeNoSource
<1>6. CASE EncodeOk(w)
  BY <1>6 DEF EncodeOk
<1>7. CASE EncodeFails(w)
  BY <1>7 DEF EncodeFails
<1>8. CASE Upload(w)
  BY <1>8 DEF Upload, NextUpload
<1>9. CASE UploadFails(w)
  BY <1>9 DEF UploadFails, NextUpload
<1>10. CASE RemoveScratch(w)
  BY <1>10 DEF RemoveScratch
<1>11. CASE RemoveSource(w)
  BY <1>11 DEF RemoveSource
<1>12. CASE Post(w)
  BY <1>12 DEF Post
<1>13. CASE PostFails(w)
  BY <1>1, <1>13 DEF PostFails, Marks
<1>14. CASE WorkerDies(w)
  BY <1>1, <1>14 DEF WorkerDies, Marks
<1> QED
  BY <1>2, <1>3, <1>4, <1>5, <1>6, <1>7, <1>8, <1>9, <1>10, <1>11, <1>12,
    <1>13, <1>14 DEF WorkerStep

ProcessFate(x) ==
    /\ video'[x] = video[x]
    /\ \/ Busy(x)'
       \/ marks'[video[x]] \cap {"worker", "post"} # {}
       \/ dropped'[video[x]] # {}
       \/ row'[video[x]].status # "processing"

(* A process under way goes on, its verdict is taken and recorded, or a    *)
(* mark is left.                                                           *)
LEMMA ProcessFateStep ==
  ASSUME IInv, [Next]_vars, NEW x \in Workers, Busy(x) PROVE ProcessFate(x)
<1>0. /\ video[x] \in Videos
      /\ stage[x] # "unused"
  BY DEF IInv, WInv, TypeOK, STypeOK, WTypeOK, ProcessInv, FrameInv, TaskInv, VerdictInv, Busy, Running
<1> USE DEF IInv, TypeOK, STypeOK, WTypeOK, WInv, ProcessFate, Busy, result,
            process, task, progress, wvars
<1>1. ASSUME NEW v \in Videos, NEW u \in Users, NEW t \in Titles, Publish(v, u, t)
      PROVE ProcessFate(x)
  BY <1>1, <1>0 DEF Publish
<1>2. ASSUME NEW v \in Videos, NEW e \in Deliveries, PutSource(v, e)
      PROVE ProcessFate(x)
  BY <1>2, <1>0 DEF PutSource, Put
<1>3. ASSUME NEW e \in Deliveries, NEW f \in Deliveries, Redeliver(e, f)
      PROVE ProcessFate(x)
  BY <1>3, <1>0 DEF Redeliver, Step
<1>4. ASSUME NEW p \in Patches, NEW v \in Videos, NEW u \in Users, NEW t \in Titles, PatchFind(p, v, u, t)
      PROVE ProcessFate(x)
  BY <1>4, <1>0 DEF PatchFind
<1>5. ASSUME NEW d \in Deletes, NEW v \in Videos, NEW u \in Users, DeleteFind(d, v, u)
      PROVE ProcessFate(x)
  BY <1>5, <1>0 DEF DeleteFind
<1>6. ASSUME NEW e \in Deliveries, NotifyFind(e) PROVE ProcessFate(x)
  BY <1>6, <1>0 DEF NotifyFind, Step
<1>7. ASSUME NEW e \in Deliveries, NotifyMissing(e) PROVE ProcessFate(x)
  BY <1>7, <1>0 DEF NotifyMissing, Step
<1>8. ASSUME NEW e \in Deliveries, NotifyUpdate(e) PROVE ProcessFate(x)
  BY <1>8, <1>0 DEF NotifyUpdate, Step, Update
<1>9. ASSUME NEW e \in Deliveries, NEW w \in Workers, Dispatch(e, w)
      PROVE ProcessFate(x)
  BY <1>9, <1>0 DEF Dispatch, Step, Spawn
<1>10. ASSUME NEW e \in Deliveries, DispatchFails(e) PROVE ProcessFate(x)
  BY <1>10, <1>0 DEF DispatchFails, Step, Drop
<1>11. ASSUME NEW e \in Deliveries, Ack(e) PROVE ProcessFate(x)
  BY <1>11, <1>0 DEF Ack, Step
<1>12. ASSUME NEW e \in Deliveries, NotifyDbError(e) PROVE ProcessFate(x)
  BY <1>12, <1>0 DEF NotifyDbError, Step, Update, Drop
<1>13. ASSUME NEW w \in Workers, EncodeStep(w) PROVE ProcessFate(x)
  <2>1. /\ video' = video /\ handler' = handler
        /\ \/ stage[x] \in Running =>
                 \/ stage'[x] \in Running
                 \/ mailbox'[x] = "sent"
                 \/ marks'[video[x]] \cap {"worker", "post"} # {}
        /\ mailbox[x] = "sent" => mailbox'[x] = "sent"
    BY <1>13, <1>0, ProcessMoves DEF EncodeStep, svars
  <2> QED
    BY <1>13, <2>1
<1>14. ASSUME NEW w \in Workers, ResultFind(w) PROVE ProcessFate(x)
  BY <1>14, <1>0 DEF ResultFind, TakeVerdict
<1>15. ASSUME NEW w \in Workers, ResultMissing(w) PROVE ProcessFate(x)
  <2>1. row' = row /\ (x = w => row[video[x]].status = "absent")
    BY <1>15 DEF ResultMissing, Exists
  <2> QED
    BY <1>15, <1>0, <2>1 DEF ResultMissing, TakeVerdict
<1>16. ASSUME NEW w \in Workers, ResultUpdate(w) PROVE ProcessFate(x)
  <2>1. CASE x # w
    BY <1>16, <2>1 DEF ResultUpdate
  <2>2. CASE x = w
    <3>1. handlerRow[w].status \in {"completed", "failed"}
      BY <1>16 DEF ResultUpdate, FrameInv, VerdictInv, HoldsVerdict
    <3>2. Merge(row[video[w]], handlerRow[w], ResultColumns(w)).status = handlerRow[w].status
      BY DEF Merge, ResultColumns
    <3>3. row'[video[w]].status # "processing"
      BY <1>16, <1>0, <2>2, <3>1, <3>2 DEF ResultUpdate, Update, Exists
    <3> QED
      BY <1>16, <2>2, <3>3 DEF ResultUpdate
  <2> QED
    BY <2>1, <2>2
<1>17. ASSUME NEW w \in Workers, ResultDbError(w) PROVE ProcessFate(x)
  BY <1>17, <1>0, ZenonT(60) DEF ResultDbError, TakeVerdict, Update, Drop
<1>18. ASSUME NEW p \in Patches, PatchUpdate(p) PROVE ProcessFate(x)
  BY <1>18, <1>0 DEF PatchUpdate, PatchEnd, Update
<1>19. ASSUME NEW p \in Patches, PatchDbError(p) PROVE ProcessFate(x)
  BY <1>19, <1>0 DEF PatchDbError, PatchEnd, Update
<1>20. ASSUME NEW d \in Deletes, DeleteRelated(d) PROVE ProcessFate(x)
  BY <1>20, <1>0 DEF DeleteRelated, DeleteGoto
<1>21. ASSUME NEW d \in Deletes, DeleteFolder(d) PROVE ProcessFate(x)
  BY <1>21, <1>0 DEF DeleteFolder, DeleteGoto, EmptyFolder
<1>22. ASSUME NEW d \in Deletes, NEW left \in SUBSET Artifacts, DeleteFolderFails(d, left)
      PROVE ProcessFate(x)
  BY <1>22, <1>0 DEF DeleteFolderFails, DeleteGoto, EmptyFolder
<1>23. ASSUME NEW d \in Deletes, DeleteRow(d) PROVE ProcessFate(x)
  BY <1>23, <1>0 DEF DeleteRow, DeleteGoto
<1>24. ASSUME NEW d \in Deletes, DeleteDbError(d) PROVE ProcessFate(x)
  BY <1>24, <1>0 DEF DeleteDbError, DeleteGoto
<1>25. ASSUME CrashServer PROVE ProcessFate(x)
  <2>1. handler[x] = "found" => dropped'[video[x]] # {}
    BY <1>25, <1>0 DEF CrashServer, Interrupted
  <2> QED
    BY <1>25, <1>0, <2>1 DEF CrashServer
<1>26. CASE UNCHANGED vars
  BY <1>26, <1>0 DEF vars, wvars, svars
<1> QED
  BY <1>1, <1>2, <1>3, <1>4, <1>5, <1>6, <1>7, <1>8, <1>9, <1>10, <1>11,
    <1>12, <1>13, <1>14, <1>15, <1>16, <1>17, <1>18, <1>19, <1>20, <1>21,
    <1>22, <1>23, <1>24, <1>25, <1>26
  DEF Next, Request, NotifyStep, ResultStep, PatchStep, DeleteStep

(* Nothing swallowed is forgotten.                                         *)
LEMMA DropsGrow ==
  ASSUME IInv, [Next]_vars, NEW v \in Videos PROVE dropped[v] \subseteq dropped'[v]
<1> USE DEF IInv, TypeOK, STypeOK
<1>1. ASSUME NEW y \in Videos, NEW u \in Users, NEW t \in Titles, Publish(y, u, t)
      PROVE dropped[v] \subseteq dropped'[v]
  BY <1>1 DEF Publish
<1>2. ASSUME NEW y \in Videos, NEW e \in Deliveries, PutSource(y, e)
      PROVE dropped[v] \subseteq dropped'[v]
  BY <1>2 DEF PutSource, Put
<1>3. ASSUME NEW e \in Deliveries, NEW f \in Deliveries, Redeliver(e, f)
      PROVE dropped[v] \subseteq dropped'[v]
  BY <1>3 DEF Redeliver, Step
<1>4. ASSUME NEW p \in Patches, NEW y \in Videos, NEW u \in Users, NEW t \in Titles, PatchFind(p, y, u, t)
      PROVE dropped[v] \subseteq dropped'[v]
  BY <1>4 DEF PatchFind
<1>5. ASSUME NEW d \in Deletes, NEW y \in Videos, NEW u \in Users, DeleteFind(d, y, u)
      PROVE dropped[v] \subseteq dropped'[v]
  BY <1>5 DEF DeleteFind
<1>6. ASSUME NEW e \in Deliveries, NotifyFind(e)
      PROVE dropped[v] \subseteq dropped'[v]
  BY <1>6 DEF NotifyFind, Step
<1>7. ASSUME NEW e \in Deliveries, NotifyMissing(e)
      PROVE dropped[v] \subseteq dropped'[v]
  BY <1>7 DEF NotifyMissing, Step
<1>8. ASSUME NEW e \in Deliveries, NotifyUpdate(e)
      PROVE dropped[v] \subseteq dropped'[v]
  BY <1>8 DEF NotifyUpdate, Step, Update
<1>9. ASSUME NEW e \in Deliveries, NEW w \in Workers, Dispatch(e, w)
      PROVE dropped[v] \subseteq dropped'[v]
  BY <1>9 DEF Dispatch, Step, Spawn
<1>10. ASSUME NEW e \in Deliveries, DispatchFails(e)
      PROVE dropped[v] \subseteq dropped'[v]
  BY <1>10 DEF DispatchFails, Step, Drop
<1>11. ASSUME NEW e \in Deliveries, Ack(e)
      PROVE dropped[v] \subseteq dropped'[v]
  BY <1>11 DEF Ack, Step
<1>12. ASSUME NEW e \in Deliveries, NotifyDbError(e)
      PROVE dropped[v] \subseteq dropped'[v]
  BY <1>12 DEF NotifyDbError, Step, Update, Drop
<1>13. ASSUME NEW w \in Workers, EncodeStep(w)
      PROVE dropped[v] \subseteq dropped'[v]
  BY <1>13 DEF EncodeStep, svars
<1>14. ASSUME NEW w \in Workers, ResultFind(w)
      PROVE dropped[v] \subseteq dropped'[v]
  BY <1>14 DEF ResultFind, TakeVerdict
<1>15. ASSUME NEW w \in Workers, ResultMissing(w)
      PROVE dropped[v] \subseteq dropped'[v]
  BY <1>15 DEF ResultMissing, TakeVerdict
<1>16. ASSUME NEW w \in Workers, ResultUpdate(w)
      PROVE dropped[v] \subseteq dropped'[v]
  BY <1>16 DEF ResultUpdate, Update
<1>17. ASSUME NEW w \in Workers, ResultDbError(w)
      PROVE dropped[v] \subseteq dropped'[v]
  BY <1>17 DEF ResultDbError, TakeVerdict, Update, Drop
<1>18. ASSUME NEW p \in Patches, PatchUpdate(p)
      PROVE dropped[v] \subseteq dropped'[v]
  BY <1>18 DEF PatchUpdate, PatchEnd, Update
<1>19. ASSUME NEW p \in Patches, PatchDbError(p)
      PROVE dropped[v] \subseteq dropped'[v]
  BY <1>19 DEF PatchDbError, PatchEnd, Update
<1>20. ASSUME NEW d \in Deletes, DeleteRelated(d)
      PROVE dropped[v] \subseteq dropped'[v]
  BY <1>20 DEF DeleteRelated, DeleteGoto
<1>21. ASSUME NEW d \in Deletes, DeleteFolder(d)
      PROVE dropped[v] \subseteq dropped'[v]
  BY <1>21 DEF DeleteFolder, DeleteGoto, EmptyFolder
<1>22. ASSUME NEW d \in Deletes, NEW left \in SUBSET Artifacts, DeleteFolderFails(d, left)
      PROVE dropped[v] \subseteq dropped'[v]
  BY <1>22 DEF DeleteFolderFails, DeleteGoto, EmptyFolder
<1>23. ASSUME NEW d \in Deletes, DeleteRow(d)
      PROVE dropped[v] \subseteq dropped'[v]
  BY <1>23 DEF DeleteRow, DeleteGoto
<1>24. ASSUME NEW d \in Deletes, DeleteDbError(d)
      PROVE dropped[v] \subseteq dropped'[v]
  BY <1>24 DEF DeleteDbError, DeleteGoto
<1>25. ASSUME CrashServer PROVE dropped[v] \subseteq dropped'[v]
  BY <1>25 DEF CrashServer, Interrupted
<1>26. CASE UNCHANGED vars
  BY <1>26 DEF vars, wvars, svars
<1> QED
  BY <1>1, <1>2, <1>3, <1>4, <1>5, <1>6, <1>7, <1>8, <1>9, <1>10, <1>11,
    <1>12, <1>13, <1>14, <1>15, <1>16, <1>17, <1>18, <1>19, <1>20, <1>21,
    <1>22, <1>23, <1>24, <1>25, <1>26
  DEF Next, Request, NotifyStep, ResultStep, PatchStep, DeleteStep

(* As long as nothing was swallowed for a video in "processing", somebody  *)
(* still owes it a status.                                                 *)
THEOREM ProcessingHasAnOwner == Spec => []ProcessingIsOwned
<1>1. Init => ProcessingIsOwned
  BY DEF Init, NoRow, ProcessingIsOwned
<1>2. ASSUME IInv, ProcessingIsOwned, [Next]_vars PROVE ProcessingIsOwned'
  <2> SUFFICES ASSUME NEW v \in Videos,
                      row'[v].status = "processing",
                      dropped'[v] = {},
                      marks'[v] \cap {"worker", "post"} = {}
               PROVE  \/ \E e \in Deliveries : eventOf'[e] = v /\ Underway(e)'
                      \/ \E w \in Workers : video'[w] = v /\ Busy(w)'
    BY DEF ProcessingIsOwned, Underway, Busy
  <2>1. ASSUME NEW e \in Deliveries, eventOf[e] = v, Underway(e)
        PROVE  \/ \E f \in Deliveries : eventOf'[f] = v /\ Underway(f)'
               \/ \E w \in Workers : video'[w] = v /\ Busy(w)'
    BY <1>2, <2>1, NotifyFateStep DEF NotifyFate, Busy, Running, Stages
  <2>2. ASSUME NEW w \in Workers, video[w] = v, Busy(w)
        PROVE  video'[w] = v /\ Busy(w)'
    BY <1>2, <2>2, ProcessFateStep DEF ProcessFate
  <2>3. CASE row[v].status = "processing"
    <3>1. dropped[v] = {}
      BY <1>2, DropsGrow
    <3>2. marks[v] \cap {"worker", "post"} = {}
      BY <1>2, WorkerView, HistoryStep DEF IInv, WInv, History
    <3>3. \/ \E e \in Deliveries : eventOf[e] = v /\ Underway(e)
          \/ \E w \in Workers : video[w] = v /\ Busy(w)
      BY <1>2, <2>3, <3>1, <3>2 DEF ProcessingIsOwned, Underway, Busy
    <3> QED
      BY <2>1, <2>2, <3>3
  <2>4. CASE row[v].status # "processing"
    <3>1. Announced(v)
      BY <1>2, <2>4, StatusStep
    <3> QED
      BY <2>1, <3>1 DEF Announced, Underway
  <2> QED
    BY <2>3, <2>4
<1> QED
  BY <1>1, <1>2, Invariance, PTL DEF Spec

-----------------------------------------------------------------------------
(* The pipeline implements VideoLifecycle.                                 *)
Promised == [Lifecycle!LNext]_(Lifecycle!lvars)

Quiet ==
    /\ UNCHANGED <<issued, stage, video, mailbox, handler>>
    /\ \A v \in Videos : row'[v].status = row[v].status

LEMMA SameStatus ==
  ASSUME \A v \in Videos : row'[v].status = row[v].status, issued' = issued
  PROVE  LStatus' = LStatus
BY DEF LStatus, Exists

LEMMA OneStatus ==
  ASSUME NEW v \in Videos, issued' = issued, \A x \in Videos \ {v} : row'[x] = row[x]
  PROVE  LStatus' = [LStatus EXCEPT ![v] = LStatus'[v]]
BY DEF LStatus, Exists

LEMMA SamePhase ==
  ASSUME UNCHANGED <<stage, mailbox, handler>> PROVE LPhase' = LPhase
BY DEF LPhase

LEMMA OnePhase ==
  ASSUME NEW w \in Workers, UNCHANGED <<mailbox, handler>>,
         \A x \in Workers \ {w} : stage'[x] = stage[x]
  PROVE  LPhase' = [LPhase EXCEPT ![w] = LPhase'[w]]
BY DEF LPhase

LEMMA QuietStutters == ASSUME Quiet PROVE Promised
BY SameStatus, SamePhase DEF Quiet, Promised, Lifecycle!lvars, LAbout

(* Attempts that end unheard are abandoned.                                *)
LEMMA LostIsAbandoned ==
  ASSUME LStatus' = LStatus, LAbout' = LAbout,
         \A x \in Workers : \/ LPhase'[x] = LPhase[x]
                            \/ LPhase[x] = "open" /\ LPhase'[x] = "settled"
  PROVE  Promised
<1> DEFINE lost == {x \in Workers : LPhase[x] = "open" /\ LPhase'[x] = "settled"}
<1>1. LPhase' = [x \in Workers |-> IF x \in lost THEN "settled" ELSE LPhase[x]]
  <2>1. LPhase' = [x \in Workers |-> LPhase'[x]]
    BY DEF LPhase
  <2>2. \A x \in Workers : LPhase'[x] = IF x \in lost THEN "settled" ELSE LPhase[x]
    OBVIOUS
  <2> QED
    BY <2>1, <2>2
<1>2. lost \in SUBSET Workers /\ \A x \in lost : LPhase[x] = "open"
  OBVIOUS
<1> HIDE DEF lost
<1> QED
  BY <1>1, <1>2 DEF Promised, Lifecycle!LNext, Lifecycle!AbandonAll

(* A step of a process changes its own stage and mailbox.                  *)
LEMMA EncodeMovesOne ==
  ASSUME WTypeOK, ProcessInv, NEW w \in Workers, WorkerStep(w)
  PROVE  /\ video' = video
         /\ \A x \in Workers \ {w} : stage'[x] = stage[x] /\ mailbox'[x] = mailbox[x]
         /\ stage[w] \in Running /\ stage'[w] # "unused"
BY DEF WTypeOK, WorkerStep, Goto, Fail, Mark, Running, Stages, task, progress, bucket, ProbeOk, ProbeFails,
   EncodeStart, EncodeNoSource, EncodeOk, EncodeFails, Upload, UploadFails,
   NextUpload, RemoveScratch, RemoveSource, Post, PostFails, WorkerDies

(* A verdict that is written settles its attempt.                          *)
LEMMA RecordedIsSettled ==
  ASSUME IInv, NEW w \in Workers, handler[w] = "found", UNCHANGED <<wvars, issued>>,
         handler' = [handler EXCEPT ![w] = "done"],
         Update(video[w], handlerRow[w], ResultColumns(w))
  PROVE  Promised
<1> USE DEF IInv, TypeOK, STypeOK, WTypeOK, WInv, FrameInv
<1>1. /\ mailbox[w] = "taken" /\ stage[w] = "exited"
      /\ video[w] \in issued /\ video[w] \in Videos
  BY DEF VerdictInv, ProcessInv, TaskInv
<1>2. UNCHANGED <<stage, mailbox, video>>
  BY DEF wvars, process, task, progress
<1>3. LPhase[w] = "open" /\ LPhase'[w] = "settled"
  BY <1>1, <1>2 DEF LPhase, Running
<1>4. LPhase' = [LPhase EXCEPT ![w] = "settled"] /\ LAbout' = LAbout
  <2>1. \A x \in Workers \ {w} : LPhase'[x] = LPhase[x]
    BY <1>2 DEF LPhase
  <2>2. /\ LPhase = [x \in Workers |-> LPhase[x]]
        /\ LPhase' = [x \in Workers |-> LPhase'[x]]
    BY DEF LPhase
  <2>3. LPhase' = [LPhase EXCEPT ![w] = "settled"]
    BY <1>3, <2>1, <2>2
  <2> QED
    BY <1>2, <2>3 DEF LAbout
<1>5. PICK o \in Lifecycle!Outcomes : handlerRow[w].status = o
  BY DEF VerdictInv, HoldsVerdict, Lifecycle!Outcomes
<1>6. Exists(video[w]) => row'[video[w]].status = o
  BY <1>1, <1>5 DEF Update, Merge, ResultColumns
<1>7. \A x \in Videos \ {video[w]} : row'[x] = row[x]
  BY DEF Update
<1>8. LStatus'[video[w]] = IF LStatus[video[w]] \in Lifecycle!Live THEN o
                           ELSE LStatus[video[w]]
  <2>1. CASE Exists(video[w])
    BY <1>1, <1>5, <1>6, <2>1 DEF LStatus, Exists, Row, Statuses, Lifecycle!Live,
      Lifecycle!Outcomes
  <2>2. CASE ~Exists(video[w])
    BY <1>1, <2>2 DEF Update, LStatus, Exists, Lifecycle!Live
  <2> QED
    BY <2>1, <2>2
<1>9. LStatus' = [LStatus EXCEPT ![video[w]] = LStatus'[video[w]]]
  BY <1>1, <1>7, OneStatus
<1>10. LAbout[w] = video[w]
  BY DEF LAbout
<1>11. Lifecycle!Settle(w, o)
  BY <1>3, <1>4, <1>8, <1>9, <1>10 DEF Lifecycle!Settle
<1> QED
  BY <1>5, <1>11 DEF Promised, Lifecycle!LNext

(* Edits and the last step of a deletion move no process.                  *)
LEMMA RequestsMoveNone ==
  ASSUME \/ \E p \in Patches : PatchUpdate(p) \/ PatchDbError(p)
         \/ \E d \in Deletes : DeleteRow(d) \/ DeleteDbError(d)
  PROVE  UNCHANGED <<issued, stage, video, mailbox, handler>>
BY DEF PatchUpdate, PatchDbError, PatchEnd, DeleteRow, DeleteDbError, DeleteGoto,
   wvars, process, task, result

LEMMA PromisedStep ==
  ASSUME IInv, PendingInv, [Next]_vars PROVE Promised
<1> USE DEF IInv, TypeOK, STypeOK, WTypeOK, WInv, FrameInv, TaskInv, AnnounceInv,
  notify, result, edit, deletion, wvars, process, task, progress, bucket
<1>1. ASSUME NEW v \in Videos, NEW u \in Users, NEW t \in Titles, Publish(v, u, t)
      PROVE Promised
  <2>1. LStatus[v] = "unborn" /\ LStatus'[v] = "pending"
    BY <1>1 DEF Publish, LStatus, Exists
  <2>2. LPhase' = LPhase /\ LAbout' = LAbout
    BY <1>1, SamePhase DEF Publish, LAbout
  <2>3. \A x \in Videos \ {v} : LStatus'[x] = LStatus[x]
    BY <1>1 DEF Publish, LStatus, Exists
  <2>4. LStatus' = [LStatus EXCEPT ![v] = "pending"]
    BY <2>1, <2>3, ZenonT(60) DEF LStatus
  <2> QED
    BY <2>1, <2>2, <2>4 DEF Promised, Lifecycle!LNext, Lifecycle!Publish
<1>2. ASSUME NEW v \in Videos, NEW e \in Deliveries, PutSource(v, e)
      PROVE Promised
  BY <1>2, QuietStutters DEF PutSource, Put, Quiet
<1>3. ASSUME NEW e \in Deliveries, NEW f \in Deliveries, Redeliver(e, f)
      PROVE Promised
  BY <1>3, QuietStutters DEF Redeliver, Step, Quiet
<1>4. ASSUME NEW p \in Patches, NEW v \in Videos, NEW u \in Users, NEW t \in Titles, PatchFind(p, v, u, t)
      PROVE Promised
  BY <1>4, QuietStutters DEF PatchFind, Quiet
<1>5. ASSUME NEW d \in Deletes, NEW v \in Videos, NEW u \in Users, DeleteFind(d, v, u)
      PROVE Promised
  BY <1>5, QuietStutters DEF DeleteFind, Quiet
<1>6. ASSUME NEW e \in Deliveries, NotifyFind(e) PROVE Promised
  BY <1>6, QuietStutters DEF NotifyFind, Step, Quiet
<1>7. ASSUME NEW e \in Deliveries, NotifyMissing(e) PROVE Promised
  BY <1>7, QuietStutters DEF NotifyMissing, Step, Quiet
<1>8. ASSUME NEW e \in Deliveries, NotifyUpdate(e) PROVE Promised
  <2>0. eventOf[e] \in issued /\ eventOf[e] \in Videos
    BY <1>8 DEF NotifyUpdate, Step
  <2>1. CASE UNCHANGED row
    BY <1>8, <2>1, QuietStutters DEF Quiet, NotifyUpdate
  <2>2. CASE delivery[e] = "found" /\ Update(eventOf[e], eventRow[e], {"status"})
    <3>1. eventRow[e].status = "processing"
      BY <2>2
    <3>2. LPhase' = LPhase /\ LAbout' = LAbout
      BY <1>8, SamePhase DEF NotifyUpdate, LAbout
    <3>3. CASE ~Exists(eventOf[e])
      BY <2>1, <2>2, <3>3 DEF Update
    <3>4. CASE Exists(eventOf[e])
      <4>1. row'[eventOf[e]].status = "processing"
        BY <2>0, <2>2, <3>1, <3>4 DEF Update, Merge
      <4>2. \A x \in Videos \ {eventOf[e]} : row'[x] = row[x]
        BY <2>2, <3>4 DEF Update
      <4>3. LStatus' = [LStatus EXCEPT ![eventOf[e]] = "processing"]
        BY <1>8, <2>0, <4>1, <4>2, OneStatus DEF NotifyUpdate, LStatus, Exists
      <4>4. LStatus[eventOf[e]] \in Lifecycle!Live
        BY <2>0, <3>4 DEF LStatus, Exists, Row, Statuses, Lifecycle!Live
      <4> QED
        BY <2>0, <3>2, <4>3, <4>4 DEF Promised, Lifecycle!LNext, Lifecycle!Announce
    <3> QED
      BY <3>3, <3>4
  <2> QED
    BY <1>8, <2>1, <2>2 DEF NotifyUpdate, Step
<1>9. ASSUME NEW e \in Deliveries, NEW w \in Workers, Dispatch(e, w)
      PROVE Promised
  <2>0. /\ eventOf[e] \in issued /\ eventOf[e] \in Videos
        /\ delivery[e] \in {"updated", "launching"}
    BY <1>9 DEF Dispatch, Step
  <2>1. LStatus' = LStatus
    BY <1>9, SameStatus DEF Dispatch
  <2>2. LStatus[eventOf[e]] \notin {"unborn", "pending"}
    BY <2>0, ZenonT(60) DEF LStatus, PendingInv, Row, Statuses
  <2>3. mailbox[w] = "none" /\ handler[w] = "idle"
    BY <1>9 DEF Dispatch, Spawn, ProcessInv, VerdictInv
  <2>4. LPhase[w] = "fresh" /\ LPhase'[w] = "open"
    BY <1>9, <2>3 DEF Dispatch, Spawn, LPhase, Running, Stages
  <2>5. LPhase' = [LPhase EXCEPT ![w] = "open"]
    BY <1>9, <2>4, OnePhase DEF Dispatch, Spawn
  <2>6. LAbout' = [LAbout EXCEPT ![w] = eventOf[e]]
    BY <1>9 DEF Dispatch, Spawn, LAbout
  <2> QED
    BY <2>0, <2>1, <2>2, <2>4, <2>5, <2>6 DEF Promised, Lifecycle!LNext, Lifecycle!Start
<1>10. ASSUME NEW e \in Deliveries, DispatchFails(e) PROVE Promised
  BY <1>10, QuietStutters DEF DispatchFails, Step, Quiet
<1>11. ASSUME NEW e \in Deliveries, Ack(e) PROVE Promised
  BY <1>11, QuietStutters DEF Ack, Step, Quiet
<1>12. ASSUME NEW e \in Deliveries, NotifyDbError(e) PROVE Promised
  <2>0. eventOf[e] \in issued /\ eventOf[e] \in Videos
    BY <1>12 DEF NotifyDbError, Step
  <2>1. CASE UNCHANGED row
    BY <1>12, <2>1, QuietStutters DEF Quiet, NotifyDbError
  <2>2. CASE delivery[e] = "found" /\ Update(eventOf[e], eventRow[e], {"status"})
    <3>1. eventRow[e].status = "processing"
      BY <2>2
    <3>2. LPhase' = LPhase /\ LAbout' = LAbout
      BY <1>12, SamePhase DEF NotifyDbError, LAbout
    <3>3. CASE ~Exists(eventOf[e])
      BY <2>1, <2>2, <3>3 DEF Update
    <3>4. CASE Exists(eventOf[e])
      <4>1. row'[eventOf[e]].status = "processing"
        BY <2>0, <2>2, <3>1, <3>4 DEF Update, Merge
      <4>2. \A x \in Videos \ {eventOf[e]} : row'[x] = row[x]
        BY <2>2, <3>4 DEF Update
      <4>3. LStatus' = [LStatus EXCEPT ![eventOf[e]] = "processing"]
        BY <1>12, <2>0, <4>1, <4>2, OneStatus DEF NotifyDbError, LStatus, Exists
      <4>4. LStatus[eventOf[e]] \in Lifecycle!Live
        BY <2>0, <3>4 DEF LStatus, Exists, Row, Statuses, Lifecycle!Live
      <4> QED
        BY <2>0, <3>2, <4>3, <4>4 DEF Promised, Lifecycle!LNext, Lifecycle!Announce
    <3> QED
      BY <3>3, <3>4
  <2> QED
    BY <1>12, <2>1, <2>2 DEF NotifyDbError, Step
<1>13. ASSUME NEW w \in Workers, EncodeStep(w) PROVE Promised
  <2>1. /\ video' = video /\ handler' = handler
        /\ \A x \in Workers \ {w} : stage'[x] = stage[x] /\ mailbox'[x] = mailbox[x]
        /\ stage[w] \in Running /\ stage'[w] # "unused"
    BY <1>13, EncodeMovesOne DEF EncodeStep, svars
  <2>2. LStatus' = LStatus /\ LAbout' = LAbout
    BY <1>13, <2>1, SameStatus DEF EncodeStep, svars, LAbout
  <2>3. LPhase[w] = "open" /\ LPhase'[w] \in {"open", "settled"}
    BY <2>1 DEF LPhase, Running, Stages
  <2>4. \A x \in Workers \ {w} : LPhase'[x] = LPhase[x]
    BY <2>1 DEF LPhase
  <2> QED
    BY <2>2, <2>3, <2>4, LostIsAbandoned
<1>14. ASSUME NEW w \in Workers, ResultFind(w) PROVE Promised
  <2>1. stage[w] = "exited"
    BY <1>14 DEF ResultFind, TakeVerdict, ProcessInv
  <2>2. LPhase[w] = "open" /\ LPhase'[w] = "open"
    BY <1>14, <2>1 DEF ResultFind, TakeVerdict, LPhase
  <2>3. \A x \in Workers \ {w} : LPhase'[x] = LPhase[x]
    BY <1>14 DEF ResultFind, TakeVerdict, LPhase
  <2>4. LStatus' = LStatus /\ LAbout' = LAbout
    BY <1>14, SameStatus DEF ResultFind, TakeVerdict, LAbout
  <2> QED
    BY <2>2, <2>3, <2>4, LostIsAbandoned
<1>15. ASSUME NEW w \in Workers, ResultMissing(w) PROVE Promised
  <2>1. LStatus' = LStatus /\ LAbout' = LAbout
    BY <1>15, SameStatus DEF ResultMissing, TakeVerdict, LAbout
  <2>2. mailbox[w] = "sent" /\ mailbox'[w] = "taken" /\ handler'[w] = "done"
    BY <1>15 DEF ResultMissing, TakeVerdict
  <2>3. stage[w] = "exited" /\ stage' = stage
    BY <1>15 DEF ResultMissing, TakeVerdict, ProcessInv
  <2>4. LPhase[w] = "open" /\ LPhase'[w] = "settled"
    BY <2>2, <2>3 DEF LPhase, Running
  <2>5. \A x \in Workers \ {w} : LPhase'[x] = LPhase[x]
    BY <1>15 DEF ResultMissing, TakeVerdict, LPhase
  <2> QED
    BY <2>1, <2>4, <2>5, LostIsAbandoned
<1>16. ASSUME NEW w \in Workers, ResultUpdate(w) PROVE Promised
  <2>1. wvars' = wvars /\ handler[w] = "found" /\ handler' = [handler EXCEPT ![w] = "done"]
    BY <1>16 DEF ResultUpdate
  <2> QED
    BY <1>16, <2>1, RecordedIsSettled DEF ResultUpdate
<1>17. ASSUME NEW w \in Workers, ResultDbError(w) PROVE Promised
  <2>1. CASE TakeVerdict(w) /\ row' = row
    <3>1. LStatus' = LStatus /\ LAbout' = LAbout
      BY <1>17, <2>1, SameStatus DEF ResultDbError, TakeVerdict, LAbout
    <3>2. /\ mailbox[w] = "sent" /\ mailbox'[w] = "taken" /\ handler'[w] = "done"
          /\ stage[w] = "exited" /\ stage' = stage
      BY <1>17, <2>1 DEF ResultDbError, TakeVerdict, ProcessInv
    <3>3. LPhase[w] = "open" /\ LPhase'[w] = "settled"
      BY <3>2 DEF LPhase, Running
    <3>4. \A x \in Workers \ {w} : LPhase'[x] = LPhase[x]
      BY <1>17, <2>1 DEF ResultDbError, TakeVerdict, LPhase
    <3> QED
      BY <3>1, <3>3, <3>4, LostIsAbandoned
  <2>2. CASE /\ handler[w] = "found" /\ UNCHANGED wvars
             /\ Update(video[w], handlerRow[w], ResultColumns(w))
    BY <1>17, <2>2, RecordedIsSettled DEF ResultDbError
  <2>3. CASE handler[w] = "found" /\ UNCHANGED wvars /\ row' = row
    <3>1. LStatus' = LStatus /\ LAbout' = LAbout
      BY <1>17, <2>3, SameStatus DEF ResultDbError, LAbout
    <3>2. /\ handler' = [handler EXCEPT ![w] = "done"]
          /\ mailbox[w] = "taken" /\ stage[w] = "exited"
      BY <1>17, <2>3 DEF ResultDbError, VerdictInv, ProcessInv
    <3>3. LPhase[w] = "open" /\ LPhase'[w] = "settled"
      BY <2>3, <3>2 DEF LPhase, Running
    <3>4. \A x \in Workers \ {w} : LPhase'[x] = LPhase[x]
      BY <2>3, <3>2 DEF LPhase
    <3> QED
      BY <3>1, <3>3, <3>4, LostIsAbandoned
  <2> QED
    BY <1>17, <2>1, <2>2, <2>3 DEF ResultDbError
<1>18. ASSUME NEW p \in Patches, PatchUpdate(p) PROVE Promised
  <2>1. \A v \in Videos : row'[v].status = row[v].status
    BY <1>18 DEF PatchUpdate, PatchEnd, Update, Merge
  <2> QED
    BY <1>18, <2>1, RequestsMoveNone, QuietStutters DEF Quiet
<1>19. ASSUME NEW p \in Patches, PatchDbError(p) PROVE Promised
  <2>1. \A v \in Videos : row'[v].status = row[v].status
    <3>1. row' = row \/ Update(patchOf[p], patchRow[p], {"title"})
      BY <1>19 DEF PatchDbError
    <3>2. row \in [Videos -> Row]
      OBVIOUS
    <3> HIDE DEF IInv
    <3> QED
      BY <3>1, <3>2 DEF Update, Merge, Row
  <2> QED
    BY <1>19, <2>1, RequestsMoveNone, QuietStutters DEF Quiet
<1>20. ASSUME NEW d \in Deletes, DeleteRelated(d) PROVE Promised
  BY <1>20, QuietStutters DEF DeleteRelated, DeleteGoto, Quiet
<1>21. ASSUME NEW d \in Deletes, DeleteFolder(d) PROVE Promised
  BY <1>21, QuietStutters DEF DeleteFolder, DeleteGoto, EmptyFolder, Quiet
<1>22. ASSUME NEW d \in Deletes, NEW left \in SUBSET Artifacts, DeleteFolderFails(d, left)
      PROVE Promised
  BY <1>22, QuietStutters DEF DeleteFolderFails, DeleteGoto, EmptyFolder,
    Quiet
<1>23. ASSUME NEW d \in Deletes, DeleteRow(d) PROVE Promised
  <2>1. CASE row' = row \/ row[delOf[d]].status = "absent"
    <3>1. \A v \in Videos : row'[v].status = row[v].status
      BY <1>23, <2>1 DEF DeleteRow, NoRow
    <3> QED
      BY <1>23, <3>1, RequestsMoveNone, QuietStutters DEF Quiet
  <2>2. CASE row' = [row EXCEPT ![delOf[d]] = NoRow] /\ Exists(delOf[d])
    <3>0. delOf[d] \in issued /\ delOf[d] \in Videos
      BY <1>23 DEF DeleteRow, DeleteGoto
    <3>1. LPhase' = LPhase /\ LAbout' = LAbout
      BY <1>23, SamePhase DEF DeleteRow, DeleteGoto, LAbout
    <3>2. LStatus' = [LStatus EXCEPT ![delOf[d]] = "removed"]
      BY <1>23, <2>2, <3>0, OneStatus DEF DeleteRow, DeleteGoto, LStatus, Exists, NoRow
    <3>3. LStatus[delOf[d]] \in Lifecycle!Live
      BY <2>2, <3>0 DEF LStatus, Exists, Row, Statuses, Lifecycle!Live
    <3> QED
      BY <3>0, <3>1, <3>2, <3>3 DEF Promised, Lifecycle!LNext, Lifecycle!Remove
  <2> QED
    BY <1>23, <2>1, <2>2 DEF DeleteRow, Exists
<1>24. ASSUME NEW d \in Deletes, DeleteDbError(d) PROVE Promised
  <2>1. CASE row' = row \/ row[delOf[d]].status = "absent"
    <3>1. \A v \in Videos : row'[v].status = row[v].status
      <4>1. row' = row \/ row' = [row EXCEPT ![delOf[d]] = NoRow]
        BY <1>24 DEF DeleteDbError
      <4>2. row \in [Videos -> Row]
        OBVIOUS
      <4> HIDE DEF IInv
      <4> QED
        BY <2>1, <4>1, <4>2 DEF NoRow
    <3> QED
      BY <1>24, <3>1, RequestsMoveNone, QuietStutters DEF Quiet
  <2>2. CASE row' = [row EXCEPT ![delOf[d]] = NoRow] /\ Exists(delOf[d])
    <3>0. delOf[d] \in issued /\ delOf[d] \in Videos
      BY <1>24 DEF DeleteDbError, DeleteGoto
    <3>1. LPhase' = LPhase /\ LAbout' = LAbout
      BY <1>24, SamePhase DEF DeleteDbError, DeleteGoto, LAbout
    <3>2. LStatus' = [LStatus EXCEPT ![delOf[d]] = "removed"]
      <4>1. issued' = issued /\ \A x \in Videos \ {delOf[d]} : row'[x] = row[x]
        BY <1>24, <2>2, <3>0, RequestsMoveNone
      <4>2. LStatus'[delOf[d]] = "removed"
        BY <2>2, <3>0, <4>1 DEF LStatus, Exists, NoRow
      <4> QED
        BY <3>0, <4>1, <4>2, OneStatus
    <3>3. LStatus[delOf[d]] \in Lifecycle!Live
      BY <2>2, <3>0 DEF LStatus, Exists, Row, Statuses, Lifecycle!Live
    <3> QED
      BY <3>0, <3>1, <3>2, <3>3 DEF Promised, Lifecycle!LNext, Lifecycle!Remove
  <2> QED
    BY <1>24, <2>1, <2>2 DEF DeleteDbError, Exists
<1>25. ASSUME CrashServer PROVE Promised
  <2>1. LStatus' = LStatus /\ LAbout' = LAbout
    BY <1>25, SameStatus DEF CrashServer, LAbout
  <2>2. ASSUME NEW w \in Workers
        PROVE  \/ LPhase'[w] = LPhase[w]
               \/ LPhase[w] = "open" /\ LPhase'[w] = "settled"
    <3>1. handler[w] = "found" => mailbox[w] = "taken" /\ stage[w] = "exited"
      BY DEF VerdictInv, ProcessInv
    <3>2. stage' = stage /\ mailbox' = mailbox
          /\ handler'[w] = IF handler[w] = "found" THEN "done" ELSE handler[w]
      BY <1>25 DEF CrashServer
    <3>3. CASE handler[w] = "found"
      BY <3>1, <3>2, <3>3 DEF LPhase, Running
    <3>4. CASE handler[w] # "found"
      <4>1. handler'[w] = handler[w]
        BY <3>2, <3>4
      <4>2. LPhase'[w] = LPhase[w]
        BY <3>2, <4>1 DEF LPhase
      <4> QED
        BY <4>2
    <3> QED
      BY <3>3, <3>4
  <2> QED
    BY <2>1, <2>2, LostIsAbandoned
<1>26. CASE UNCHANGED vars
  BY <1>26, QuietStutters DEF vars, wvars, svars, Quiet
<1> QED
  BY <1>1, <1>2, <1>3, <1>4, <1>5, <1>6, <1>7, <1>8, <1>9, <1>10, <1>11,
    <1>12, <1>13, <1>14, <1>15, <1>16, <1>17, <1>18, <1>19, <1>20, <1>21,
    <1>22, <1>23, <1>24, <1>25, <1>26
  DEF Next, Request, NotifyStep, ResultStep, PatchStep, DeleteStep

(* The backend keeps the promises of VideoLifecycle, whatever is           *)
(* redelivered, lost, deleted or interrupted.                              *)
THEOREM ImplementsLifecycle == Spec => LifecycleSpec
<1>1. Init => Lifecycle!LInit
  BY DEF Init, WInit, Lifecycle!LInit, LStatus, LPhase, LAbout
<1>2. Init => PendingInv
  BY DEF Init, NoRow, PendingInv
<1>3. IInv /\ PendingInv /\ [Next]_vars => PendingInv'
  BY PendingStep
<1>4. IInv /\ PendingInv /\ [Next]_vars => [Lifecycle!LNext]_(Lifecycle!lvars)
  BY PromisedStep DEF Promised
<1> QED
  BY <1>1, <1>2, <1>3, <1>4, Invariance, PTL
  DEF Spec, LifecycleSpec, Lifecycle!LifecycleSpec


=============================================================================
