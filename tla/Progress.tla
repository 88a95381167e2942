-------------------------------- MODULE Progress --------------------------------
(***************************************************************************)
(* How far the encoding of one video is: the worker writes a percentage to *)
(* Redis (updateProgress of worker.cpp), getVideoProgress of               *)
(* api_videos.cpp reads the row's status and then the percentage.          *)
(*                                                                         *)
(* Attempts are runs of the worker program for the video, one after the    *)
(* other or (after a second upload) at once; what they do beside reporting *)
(* is in EncodeWorker and VideoPipeline, what else writes the status in    *)
(* VideoPipeline.                                                          *)
(***************************************************************************)
EXTENDS Backend, Integers, FiniteSetsExt

CONSTANTS Attempts, Polls,
          Total           \* total_duration_sec, in seconds

ASSUME ProgressAssumption == Total \in Nat \ {0}

VARIABLES status,   \* the status of the row
          key,      \* video:progress:<id>, None where there is none
          att,      \* att[w]: an attempt: last_attempted_percent, what it has
                    \* encoded (seconds; Total + 1: ffmpeg has ended well)
          poll      \* poll[p]: a request of a client, and its answer

pvars == <<status, key, att, poll>>

Percents == 0..100
Statuses == {"pending", "processing", "completed", "failed"}

PTypeOK ==
    /\ status \in Statuses
    /\ key \in Percents \cup {None}
    /\ att \in [Attempts -> [at : {"new", "runs", "uploads", "over"}, last : -1..100,
                             done : 0..(Total + 1)]]
    /\ poll \in [Polls -> [at : {"idle", "get", "done", "error"}, status : Statuses \cup {None},
                           progress : Percents \cup {None}]]

PInit ==
    /\ status = "pending"
    /\ key = None
    /\ att = [w \in Attempts |-> [at |-> "new", last |-> -1, done |-> 0]]
    /\ poll = [p \in Polls |-> [at |-> "idle", status |-> None, progress |-> None]]

-----------------------------------------------------------------------------
(* The worker                                                              *)

(* w goes on to x, has encoded d seconds, and calls updateProgress(pc).    *)
(* The percentage is taken for written even where Redis did not take it.   *)
UpdateProgress(w, x, d, pc) ==
    /\ att' = [att EXCEPT ![w] = [at |-> x, last |-> Max({pc, att[w].last}), done |-> d]]
    /\ \/ /\ pc > att[w].last
          /\ key' = pc
       \/ /\ pc <= att[w].last \/ "redis" \in Faults
          /\ UNCHANGED key

Start(w) ==
    /\ att[w].at = "new" /\ status # "pending"
    /\ UpdateProgress(w, "runs", 0, 0)
    /\ UNCHANGED <<status, poll>>

(* Slip: the last second counts as 100.                                    *)
PercentUncapped(s) == Min({(s * 100) \div Total, 100})

Percent(s) == Min({(s * 100) \div Total, 99})

(* A line of ffmpeg's: it has got to s, which may be past what ffprobe has *)
(* measured, or before what another line has said.                         *)
Report(w, s) ==
    /\ att[w].at = "runs"
    /\ UpdateProgress(w, "runs", Max({att[w].done, Min({s, Total})}), Percent(s))
    /\ UNCHANGED <<status, poll>>

Finishes(w) ==
    /\ att[w].at = "runs"
    /\ UpdateProgress(w, "uploads", Total + 1, 100)
    /\ UNCHANGED <<status, poll>>

(* The program ends: it reports its result, or it is killed and does not.  *)
Ends(w) ==
    /\ att[w].at \in {"runs", "uploads"}
    /\ att' = [att EXCEPT ![w] = [at |-> "over", last |-> att[w].last, done |-> att[w].done]]
    /\ status' \in {status, "failed"} \cup {s \in {"completed"} : att[w].at = "uploads"}
    /\ UNCHANGED <<key, poll>>

-----------------------------------------------------------------------------
(* getVideoProgress                                                        *)

PollFind(p) ==
    /\ poll[p].at \in {"idle", "done", "error"}
    /\ poll' = [poll EXCEPT ![p] = [at |-> IF status = "processing" THEN "get" ELSE "done",
                                    status |-> status, progress |-> None]]
    /\ UNCHANGED <<status, key, att>>

PollGet(p) ==
    /\ poll[p].at = "get"
    /\ poll' = [poll EXCEPT ![p] = [at |-> "done", status |-> poll[p].status, progress |-> key]]
    /\ UNCHANGED <<status, key, att>>

PollFails(p) ==
    /\ "redis" \in Faults /\ poll[p].at = "get"
    /\ poll' = [poll EXCEPT ![p] = [at |-> "error", status |-> poll[p].status,
                                    progress |-> poll[p].progress]]
    /\ UNCHANGED <<status, key, att>>

-----------------------------------------------------------------------------
(* The file is uploaded, for the first time or again: the webhook.         *)
FileArrives ==
    /\ status' = "processing"
    /\ UNCHANGED <<key, att, poll>>

(* After 24 hours.                                                         *)
KeyExpires ==
    /\ key # None
    /\ key' = None
    /\ UNCHANGED <<status, att, poll>>

PNext ==
    \/ \E w \in Attempts : \/ Start(w) \/ Finishes(w) \/ Ends(w)
                           \/ \E s \in 0..(Total + 1) : Report(w, s)
    \/ \E p \in Polls : PollFind(p) \/ PollGet(p) \/ PollFails(p)
    \/ FileArrives \/ KeyExpires

PSpec == PInit /\ [][PNext]_pvars

-----------------------------------------------------------------------------
(* Properties                                                              *)

(* A client that is shown a percentage is not shown more than an attempt   *)
(* has encoded, and 100 only after one has got through; whatever the       *)
(* attempts, their order, lost writes and the second read of the handler.  *)
ShownIsEncoded ==
    \A p \in Polls : poll[p].progress # None =>
       \E w \in Attempts : \/ att[w].done > Total
                           \/ /\ poll[p].progress < 100
                              /\ poll[p].progress * Total <= att[w].done * 100

=============================================================================
