------------------------------ MODULE ViewCounter ------------------------------
(***************************************************************************)
(* How a view gets into videos.view_count.                                 *)
(*                                                                         *)
(* incrementVideoViews reads the row, takes the lock viewed:<video>:<ip>   *)
(* in Redis for the length of the video, and increments                    *)
(* pending_views:<video>.  Once a minute a timer starts a coroutine that   *)
(* SCANs these counters, takes each with GETDEL and adds it to the row.    *)
(* It does not wait for the coroutine of the minute before, so several     *)
(* flushes may run at once.                                                *)
(*                                                                         *)
(* Each await of either coroutine is one action.  place[r] is a history    *)
(* variable, the ledger: it says where the view r is that the counters     *)
(* only know as a number.                                                  *)
(*                                                                         *)
(* External, as the code uses it: Redis executes each command atomically,  *)
(* keeps its data when the backend dies, refuses an expiry of 0; SCAN      *)
(* visits every slot at least once and returns the keys it finds there.    *)
(***************************************************************************)
EXTENDS Naturals, FiniteSets

CONSTANTS Videos, Clients,
          Views,          \* POSTs to /api/videos/{id}/views
          Flushes,        \* the coroutines of the timer
          Durations,      \* durations in seconds that rows may have
          Faults,         \* what may go wrong: "db", "redis", "crash"
          None

Ledger == {"none", "pending", "counted", "void", "lost"}

ASSUME ViewAssumption ==
    /\ IsFiniteSet(Views)
    /\ Durations \subseteq Nat /\ 0 \in Durations
    /\ None \notin Views /\ None \notin Videos /\ None \notin Clients
    /\ Flushes \cap Ledger = {}

VARIABLES row,       \* row[v]: its status and duration, as far as views see
          stored,    \* stored[v]: view_count
          lock,      \* lock[v, c]: who set viewed:v:c, None if it is not set
          expired,   \* history: the views whose lock has expired
          pending,   \* pending[v]: the counter, 0 if it is not set
          view,      \* view[r], viewOf[r], viewBy[r], viewLen[r]: the handler
          viewOf,
          viewBy,
          viewLen,
          flush,     \* flush[f], rest[f], page[f]: the slots SCAN has not
          rest,      \* visited and the keys of its page still to be taken
          page,
          held,      \* held[f], heldOf[f]: what GETDEL has returned
          heldOf,
          place      \* history: place[r] \in Ledger, or the flush that has r

database == <<row, stored>>
redis == <<lock, expired, pending>>
request == <<view, viewOf, viewBy, viewLen>>
timer == <<flush, rest, page, held, heldOf>>
vcvars == <<database, redis, request, timer, place>>

Rows == [status: {"absent", "unready", "completed"}, duration: Durations]
Stored(v) == row[v].status # "absent"

VTypeOK ==
    /\ row \in [Videos -> Rows]
    /\ stored \in [Videos -> Nat]
    /\ lock \in [Videos \X Clients -> Views \cup {None}]
    /\ expired \subseteq Views
    /\ pending \in [Videos -> Nat]
    /\ view \in [Views -> {"none", "found", "locked", "counted", "repeat", "error"}]
    /\ viewOf \in [Views -> Videos \cup {None}]
    /\ viewBy \in [Views -> Clients \cup {None}]
    /\ viewLen \in [Views -> Durations]
    /\ flush \in [Flushes -> {"idle", "scan", "write"}]
    /\ rest \in [Flushes -> SUBSET Videos]
    /\ page \in [Flushes -> SUBSET Videos]
    /\ held \in [Flushes -> Nat]
    /\ heldOf \in [Flushes -> Videos \cup {None}]
    /\ place \in [Views -> Ledger \cup Flushes]

VInit ==
    /\ row = [v \in Videos |-> [status |-> "unready", duration |-> 0]]
    /\ stored = [v \in Videos |-> 0]
    /\ lock = [k \in Videos \X Clients |-> None]
    /\ expired = {}
    /\ pending = [v \in Videos |-> 0]
    /\ view = [r \in Views |-> "none"]
    /\ viewOf = [r \in Views |-> None]
    /\ viewBy = [r \in Views |-> None]
    /\ viewLen = [r \in Views |-> 0]
    /\ flush = [f \in Flushes |-> "idle"]
    /\ rest = [f \in Flushes |-> {}]
    /\ page = [f \in Flushes |-> {}]
    /\ held = [f \in Flushes |-> 0]
    /\ heldOf = [f \in Flushes |-> None]
    /\ place = [r \in Views |-> "none"]

-----------------------------------------------------------------------------
(* The rest of the backend: handlers write the row, or delete it for good. *)

RowWritten(v, s, len) ==
    /\ Stored(v)
    /\ row' = [row EXCEPT ![v] = [status |-> s, duration |-> len]]
    /\ UNCHANGED <<stored, redis, request, timer, place>>

RowDeleted(v) ==
    /\ Stored(v)
    /\ row' = [row EXCEPT ![v] = [status |-> "absent", duration |-> 0]]
    /\ stored' = [stored EXCEPT ![v] = 0]
    /\ UNCHANGED <<redis, request, timer, place>>

(* The expiry of a lock has run out.                                       *)
LockExpires(v, c) ==
    /\ lock[<<v, c>>] # None
    /\ lock' = [lock EXCEPT ![<<v, c>>] = None]
    /\ expired' = expired \cup {lock[<<v, c>>]}
    /\ UNCHANGED <<database, pending, request, timer, place>>

-----------------------------------------------------------------------------
(* incrementVideoViews.  A video that is missing or not completed is       *)
(* answered with 404 or 400 and nothing changes.                           *)

Key(r) == <<viewOf[r], viewBy[r]>>

Answer(r, from, to) ==
    /\ view[r] = from
    /\ view' = [view EXCEPT ![r] = to]
    /\ UNCHANGED <<database, viewOf, viewBy, viewLen, timer>>

ViewFind(r, v, c) ==
    /\ view[r] = "none"
    /\ row[v].status = "completed"
    /\ view' = [view EXCEPT ![r] = "found"]
    /\ viewOf' = [viewOf EXCEPT ![r] = v]
    /\ viewBy' = [viewBy EXCEPT ![r] = c]
    /\ viewLen' = [viewLen EXCEPT ![r] = row[v].duration]
    /\ UNCHANGED <<database, redis, timer, place>>

(* Slip: SET without NX.                                                   *)
ViewLockAlways(r) ==
    /\ Answer(r, "found", "locked")
    /\ viewLen[r] > 0
    /\ lock' = [lock EXCEPT ![Key(r)] = r]
    /\ UNCHANGED <<expired, pending, place>>

(* SET viewed:v:c 1 EX duration NX sets the lock.                          *)
ViewLock(r) ==
    /\ Answer(r, "found", "locked")
    /\ viewLen[r] > 0
    /\ lock[Key(r)] = None
    /\ lock' = [lock EXCEPT ![Key(r)] = r]
    /\ UNCHANGED <<expired, pending, place>>

(* Slip: the key of the lock lacks the address of the client.              *)
ViewRepeatOfAnyone(r) ==
    /\ Answer(r, "found", "repeat")
    /\ viewLen[r] > 0
    /\ \E c \in Clients : lock[<<viewOf[r], c>>] # None
    /\ UNCHANGED <<redis, place>>

(* The lock is there: answered with 200 and counted = false.               *)
ViewRepeat(r) ==
    /\ Answer(r, "found", "repeat")
    /\ viewLen[r] > 0
    /\ lock[Key(r)] # None
    /\ UNCHANGED <<redis, place>>

(* Redis refuses the expiry: answered with 500.                            *)
ViewRefused(r) ==
    /\ Answer(r, "found", "error")
    /\ viewLen[r] = 0
    /\ UNCHANGED <<redis, place>>

(* Slip: DECR.                                                             *)
ViewCountsDown(r) ==
    /\ Answer(r, "locked", "counted")
    /\ pending' = [pending EXCEPT ![viewOf[r]] = @ - 1]
    /\ place' = [place EXCEPT ![r] = "pending"]
    /\ UNCHANGED <<lock, expired>>

Increment(r) ==
    /\ pending' = [pending EXCEPT ![viewOf[r]] = @ + 1]
    /\ place' = [place EXCEPT ![r] = "pending"]

(* INCR: answered with 200 and counted = true.                             *)
ViewCount(r) ==
    /\ Answer(r, "locked", "counted")
    /\ Increment(r)
    /\ UNCHANGED <<lock, expired>>

(* A command fails, after Redis executed it or not: answered with 500.     *)
ViewRedisError(r) ==
    /\ "redis" \in Faults
    /\ \/ /\ Answer(r, "found", "error")
          /\ \/ UNCHANGED lock
             \/ /\ viewLen[r] > 0
                /\ lock[Key(r)] = None
                /\ lock' = [lock EXCEPT ![Key(r)] = r]
          /\ UNCHANGED <<pending, place>>
       \/ /\ Answer(r, "locked", "error")
          /\ UNCHANGED <<pending, place>> \/ Increment(r)
          /\ UNCHANGED lock
    /\ UNCHANGED expired

-----------------------------------------------------------------------------
(* The flush.                                                              *)

Move(from, to) ==
    place' = [r \in Views |-> IF place[r] = from THEN to ELSE place[r]]

Tick(f) ==
    /\ flush[f] = "idle"
    /\ flush' = [flush EXCEPT ![f] = "scan"]
    /\ rest' = [rest EXCEPT ![f] = Videos]
    /\ UNCHANGED <<database, redis, request, page, held, heldOf, place>>

(* Slip: the cursor is not followed.                                       *)
ScanFirstPageOnly(f, slots, again) ==
    /\ flush[f] = "scan" /\ page[f] = {}
    /\ rest' = [rest EXCEPT ![f] = {}]
    /\ page' = [page EXCEPT ![f] = {v \in slots \cup again : pending[v] > 0}]
    /\ UNCHANGED <<database, redis, request, flush, held, heldOf, place>>

(* SCAN visits some more slots and, after a resize of the table, some of   *)
(* the others again.                                                       *)
ScanPage(f, slots, again) ==
    /\ flush[f] = "scan" /\ page[f] = {}
    /\ slots \subseteq rest[f] /\ slots # {}
    /\ rest' = [rest EXCEPT ![f] = @ \ slots]
    /\ page' = [page EXCEPT ![f] = {v \in slots \cup again : pending[v] > 0}]
    /\ UNCHANGED <<database, redis, request, flush, held, heldOf, place>>

(* The cursor is 0 and its page is done.                                   *)
FlushEnds(f) ==
    /\ flush[f] = "scan" /\ page[f] = {} /\ rest[f] = {}
    /\ flush' = [flush EXCEPT ![f] = "idle"]
    /\ UNCHANGED <<database, redis, request, rest, page, held, heldOf, place>>

(* The views of v that are pending pass to place to.                       *)
Deliver(v, to) ==
    place' = [r \in Views |->
        IF place[r] = "pending" /\ viewOf[r] = v THEN to ELSE place[r]]

(* Slip: GET instead of GETDEL.                                            *)
TakeNoDelete(f, v) ==
    /\ flush[f] = "scan" /\ v \in page[f]
    /\ pending[v] > 0
    /\ flush' = [flush EXCEPT ![f] = "write"]
    /\ page' = [page EXCEPT ![f] = @ \ {v}]
    /\ held' = [held EXCEPT ![f] = pending[v]]
    /\ heldOf' = [heldOf EXCEPT ![f] = v]
    /\ Deliver(v, f)
    /\ UNCHANGED <<database, redis, request, rest>>

(* GETDEL pending_views:v.                                                 *)
Take(f, v) ==
    /\ flush[f] = "scan" /\ v \in page[f]
    /\ pending[v] > 0
    /\ flush' = [flush EXCEPT ![f] = "write"]
    /\ page' = [page EXCEPT ![f] = @ \ {v}]
    /\ pending' = [pending EXCEPT ![v] = 0]
    /\ held' = [held EXCEPT ![f] = pending[v]]
    /\ heldOf' = [heldOf EXCEPT ![f] = v]
    /\ Deliver(v, f)
    /\ UNCHANGED <<database, lock, expired, request, rest>>

(* nil: another flush was faster.                                          *)
TakeNothing(f, v) ==
    /\ flush[f] = "scan" /\ v \in page[f]
    /\ pending[v] = 0
    /\ page' = [page EXCEPT ![f] = @ \ {v}]
    /\ UNCHANGED <<database, redis, request, flush, rest, held, heldOf, place>>

(* Slip: the number replaces view_count.                                   *)
AddOverwrites(f) ==
    /\ stored' = [stored EXCEPT ![heldOf[f]] = held[f]]
    /\ Move(f, "counted")

(* UPDATE videos SET view_count = view_count + held: no row, no effect.    *)
Add(f) ==
    \/ /\ Stored(heldOf[f])
       /\ stored' = [stored EXCEPT ![heldOf[f]] = @ + held[f]]
       /\ Move(f, "counted")
    \/ /\ ~Stored(heldOf[f])
       /\ UNCHANGED stored
       /\ Move(f, "void")

Release(f, to) ==
    /\ flush' = [flush EXCEPT ![f] = to]
    /\ held' = [held EXCEPT ![f] = 0]
    /\ heldOf' = [heldOf EXCEPT ![f] = None]

Write(f) ==
    /\ flush[f] = "write"
    /\ Add(f)
    /\ Release(f, "scan")
    /\ UNCHANGED <<row, redis, request, rest, page>>

(* The catch around the loop: the flush is over, what it had in its hands  *)
(* is gone, the counters it has not taken stay for the next one.           *)
FlushFails(f) ==
    /\ rest' = [rest EXCEPT ![f] = {}]
    /\ page' = [page EXCEPT ![f] = {}]
    /\ Release(f, "idle")
    /\ UNCHANGED <<row, lock, expired, request>>

(* SCAN or GETDEL fails; the GETDEL may have been executed.                *)
FlushRedisError(f) ==
    /\ "redis" \in Faults
    /\ flush[f] = "scan"
    /\ \/ UNCHANGED <<pending, place>>
       \/ \E v \in page[f] :
             /\ pending' = [pending EXCEPT ![v] = 0]
             /\ Deliver(v, "lost")
    /\ FlushFails(f)
    /\ UNCHANGED stored

(* The UPDATE fails; it may have been executed.                            *)
FlushDbError(f) ==
    /\ "db" \in Faults
    /\ flush[f] = "write"
    /\ Add(f) \/ (UNCHANGED stored /\ Move(f, "lost"))
    /\ FlushFails(f)
    /\ UNCHANGED pending

-----------------------------------------------------------------------------
(* The backend dies and restarts; database and Redis stay.                 *)
Crash ==
    /\ "crash" \in Faults
    /\ view' = [r \in Views |->
           IF view[r] \in {"found", "locked"} THEN "error" ELSE view[r]]
    /\ flush' = [f \in Flushes |-> "idle"]
    /\ rest' = [f \in Flushes |-> {}]
    /\ page' = [f \in Flushes |-> {}]
    /\ held' = [f \in Flushes |-> 0]
    /\ heldOf' = [f \in Flushes |-> None]
    /\ place' = [r \in Views |-> IF place[r] \in Flushes THEN "lost" ELSE place[r]]
    /\ UNCHANGED <<database, redis, viewOf, viewBy, viewLen>>

Environment ==
    \/ \E v \in Videos, s \in {"unready", "completed"}, len \in Durations :
          RowWritten(v, s, len)
    \/ \E v \in Videos : RowDeleted(v)
    \/ \E v \in Videos, c \in Clients : LockExpires(v, c)

ViewStep(r) ==
    \/ ViewLock(r)
    \/ ViewRepeat(r)
    \/ ViewRefused(r)
    \/ ViewCount(r)
    \/ ViewRedisError(r)

FlushStep(f) ==
    \/ \E slots, again \in SUBSET Videos : ScanPage(f, slots, again)
    \/ FlushEnds(f)
    \/ \E v \in Videos : Take(f, v) \/ TakeNothing(f, v)
    \/ Write(f)
    \/ FlushRedisError(f)
    \/ FlushDbError(f)

VNext ==
    \/ Environment
    \/ \E r \in Views, v \in Videos, c \in Clients : ViewFind(r, v, c)
    \/ \E r \in Views : ViewStep(r)
    \/ \E f \in Flushes : Tick(f) \/ FlushStep(f)
    \/ Crash

ViewSpec == VInit /\ [][VNext]_vcvars

(* The timer fires every minute, and Drogon resumes a coroutine whose call *)
(* returned.                                                               *)
FairViewSpec ==
    /\ ViewSpec
    /\ \A r \in Views : WF_vcvars(ViewStep(r))
    /\ \A f \in Flushes : WF_vcvars(Tick(f)) /\ WF_vcvars(FlushStep(f))

-----------------------------------------------------------------------------
At(v, p) == {r \in Views : viewOf[r] = v /\ place[r] = p}

(* view_count is exact: it is the number of the views that flushes took    *)
(* from Redis and wrote, none twice, whichever flushes overlap and         *)
(* wherever they fail.                                                     *)
CountIsExact ==
    \A v \in Videos : Stored(v) => stored[v] = Cardinality(At(v, "counted"))

(* The counter in Redis is exact: no view that was answered as counted is  *)
(* missing from it before a flush takes it, and none is in it that a flush *)
(* has taken.                                                              *)
PendingIsExact ==
    \A v \in Videos : pending[v] = Cardinality(At(v, "pending"))

(* A client is counted once per lock: of two views of it that were counted *)
(* for a video, one has seen its lock expire.                              *)
OneViewPerLock ==
    \A r1, r2 \in Views :
        (/\ r1 # r2
         /\ place[r1] # "none" /\ place[r2] # "none"
         /\ Key(r1) = Key(r2))
        => r1 \in expired \/ r2 \in expired

(* "Already counted" is the truth: the same client has a view that was     *)
(* counted or is about to be, unless a failure came between its lock and   *)
(* its count.                                                              *)
RepeatIsHonest ==
    \A r \in Views : view[r] = "repeat" =>
        \E q \in Views \ {r} :
           /\ Key(q) = Key(r)
           /\ \/ place[q] # "none" \/ view[q] = "locked"
              \/ view[q] = "error" /\ Faults \cap {"redis", "crash"} # {}

(* Every view that Redis has counted reaches the row, as long as the row   *)
(* is there and nothing fails.                                             *)
ViewsReachTheRow ==
    \A r \in Views : place[r] = "pending" ~> place[r] \in {"counted", "void"}

(* openapi.yml:537 knows the answers 200, 403 and 404: a view of a         *)
(* completed video is not answered with 500 unless something fails.        *)
ViewIsAnswered ==
    \A r \in Views : view[r] = "error" => Faults # {}
=============================================================================
