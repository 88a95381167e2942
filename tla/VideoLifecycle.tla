---------------------------- MODULE VideoLifecycle ----------------------------
(***************************************************************************)
(* What the backend promises about the status of a video, without its      *)
(* handlers, processes and messages.  An attempt is one run of the encoder *)
(* for one video.                                                          *)
(*                                                                         *)
(*   - An attempt is started only for a video that was announced as        *)
(*     uploaded: "pending" is left before and never entered again.         *)
(*   - "completed" and "failed" are written by attempts of that very       *)
(*     video, and every attempt writes at most once.                       *)
(*   - A removed video stays removed, whatever is still under way for it.  *)
(***************************************************************************)
CONSTANTS Videos, Attempts, None

VARIABLES status,   \* status[v]
          phase,    \* phase[a]: "fresh", "open" or "settled"
          about     \* about[a]: the video a was started for

lvars == <<status, phase, about>>

Live == {"pending", "processing", "completed", "failed"}
Outcomes == {"completed", "failed"}

LInit ==
    /\ status = [v \in Videos |-> "unborn"]
    /\ phase = [a \in Attempts |-> "fresh"]
    /\ about = [a \in Attempts |-> None]

Publish(v) ==
    /\ status[v] = "unborn"
    /\ status' = [status EXCEPT ![v] = "pending"]
    /\ UNCHANGED <<phase, about>>

Announce(v) ==
    /\ status[v] \in Live
    /\ status' = [status EXCEPT ![v] = "processing"]
    /\ UNCHANGED <<phase, about>>

Start(a, v) ==
    /\ status[v] \notin {"unborn", "pending"}
    /\ phase[a] = "fresh"
    /\ phase' = [phase EXCEPT ![a] = "open"]
    /\ about' = [about EXCEPT ![a] = v]
    /\ UNCHANGED status

(* The attempt's outcome is recorded, unless the video is gone.            *)
Settle(a, outcome) ==
    /\ phase[a] = "open"
    /\ phase' = [phase EXCEPT ![a] = "settled"]
    /\ status' = [status EXCEPT ![about[a]] =
                      IF @ \in Live THEN outcome ELSE @]
    /\ UNCHANGED about

(* Attempts end and nothing is heard of them; a restart drops several.     *)
AbandonAll(lost) ==
    /\ \A a \in lost : phase[a] = "open"
    /\ phase' = [a \in Attempts |-> IF a \in lost THEN "settled" ELSE phase[a]]
    /\ UNCHANGED <<status, about>>

Remove(v) ==
    /\ status[v] \in Live
    /\ status' = [status EXCEPT ![v] = "removed"]
    /\ UNCHANGED <<phase, about>>

LNext ==
    \/ \E v \in Videos : Publish(v) \/ Announce(v) \/ Remove(v)
    \/ \E a \in Attempts, v \in Videos : Start(a, v)
    \/ \E a \in Attempts, o \in Outcomes : Settle(a, o)
    \/ \E lost \in SUBSET Attempts : AbandonAll(lost)

LifecycleSpec == LInit /\ [][LNext]_lvars
=============================================================================
