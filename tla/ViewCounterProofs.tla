--------------------------- MODULE ViewCounterProofs ---------------------------
(***************************************************************************)
(* Proofs about ViewCounter, for any number of videos, clients, views and  *)
(* flushes and any faults.                                                 *)
(***************************************************************************)
EXTENDS ViewCounter, FiniteSetTheorems, TLAPS

(* What a request has, and where its view can be.                          *)
RequestInv ==
    \A r \in Views :
       /\ view[r] # "none" => viewOf[r] \in Videos /\ viewBy[r] \in Clients
       /\ view[r] \in {"none", "found", "locked", "repeat"} => place[r] = "none"
       /\ view[r] = "counted" => place[r] # "none"

(* A flush has a video in its hands exactly between GETDEL and UPDATE.     *)
FlushInv ==
    \A f \in Flushes :
       IF flush[f] = "write"
       THEN /\ heldOf[f] \in Videos
            /\ \A r \in Views : place[r] = f => viewOf[r] = heldOf[f]
            /\ held[f] = Cardinality(At(heldOf[f], f))
       ELSE \A r \in Views : place[r] # f

(* A view that has not seen its lock expire holds it.                      *)
LockInv ==
    \A r \in Views \ expired :
       view[r] = "locked" \/ place[r] # "none" => lock[Key(r)] = r

(* A lock is the trace of a view.                                          *)
TraceInv ==
    \A k \in Videos \X Clients : lock[k] # None =>
       /\ Key(lock[k]) = k
       /\ \/ view[lock[k]] \in {"locked", "counted"}
          \/ view[lock[k]] = "error" /\ Faults \cap {"redis", "crash"} # {}

VInv == /\ VTypeOK /\ RequestInv /\ LockInv /\ TraceInv /\ RepeatIsHonest
        /\ FlushInv /\ CountIsExact /\ PendingIsExact

LEMMA PointwiseType ==
  ASSUME NEW D, NEW R, NEW fun \in [D -> R], NEW d \in D, NEW y \in R
  PROVE  [fun EXCEPT ![d] = y] \in [D -> R]
OBVIOUS

LEMMA VTypeStep == ASSUME VTypeOK, RequestInv, FlushInv, [VNext]_vcvars PROVE VTypeOK'
<1> USE ViewAssumption DEF VTypeOK, RequestInv, Rows, Ledger, database, redis, request, timer, Key
<1>1. ASSUME NEW v \in Videos, NEW s \in {"unready", "completed"}, NEW len \in Durations, RowWritten(v, s, len)
      PROVE VTypeOK'
  BY <1>1 DEF RowWritten
<1>2. ASSUME NEW v \in Videos, RowDeleted(v) PROVE VTypeOK'
  BY <1>2 DEF RowDeleted
<1>3. ASSUME NEW v \in Videos, NEW c \in Clients, LockExpires(v, c)
      PROVE VTypeOK'
  BY <1>3 DEF LockExpires
<1>4. ASSUME NEW r \in Views, NEW v \in Videos, NEW c \in Clients, ViewFind(r, v, c)
      PROVE VTypeOK'
  BY <1>4 DEF ViewFind
<1>5. ASSUME NEW r \in Views, ViewLock(r) PROVE VTypeOK'
  BY <1>5 DEF ViewLock, Answer
<1>6. ASSUME NEW r \in Views, ViewRepeat(r) PROVE VTypeOK'
  BY <1>6 DEF ViewRepeat, Answer
<1>7. ASSUME NEW r \in Views, ViewRefused(r) PROVE VTypeOK'
  BY <1>7 DEF ViewRefused, Answer
<1>8. ASSUME NEW r \in Views, ViewCount(r) PROVE VTypeOK'
  BY <1>8 DEF ViewCount, Answer, Increment
<1>9. ASSUME NEW r \in Views, ViewRedisError(r) PROVE VTypeOK'
  <2>1. /\ lock' \in [Videos \X Clients -> Views \cup {None}]
        /\ pending' \in [Videos -> Nat]
        /\ place' \in [Views -> Ledger \cup Flushes]
    <3>1. viewOf[r] \in Videos /\ viewBy[r] \in Clients
      BY <1>9 DEF ViewRedisError, Answer
    <3>2. CASE UNCHANGED <<pending, place>>
      <4>1. lock' = lock \/ lock' = [lock EXCEPT ![Key(r)] = r]
        BY <1>9 DEF ViewRedisError
      <4>2. lock' \in [Videos \X Clients -> Views \cup {None}]
        <5>1. CASE lock' = lock
          BY <5>1
        <5>2. CASE lock' = [lock EXCEPT ![Key(r)] = r]
          <6>1. Key(r) \in Videos \X Clients /\ r \in Views \cup {None}
            BY <3>1
          <6>2. lock \in [Videos \X Clients -> Views \cup {None}]
            OBVIOUS
          <6>3. [lock EXCEPT ![Key(r)] = r] \in [Videos \X Clients -> Views \cup {None}]
            BY ONLY <6>1, <6>2, PointwiseType
          <6> QED
            BY <5>2, <6>3
        <5> QED
          BY <4>1, <5>1, <5>2
      <4> QED
        BY <3>2, <4>2
    <3>3. CASE Increment(r) /\ UNCHANGED lock
      BY <3>1, <3>3 DEF Increment
    <3> QED
      BY <1>9, <3>2, <3>3 DEF ViewRedisError
  <2> QED
    BY <1>9, <2>1 DEF ViewRedisError, Answer
<1>10. ASSUME NEW f \in Flushes, Tick(f) PROVE VTypeOK'
  BY <1>10 DEF Tick
<1>11. ASSUME NEW f \in Flushes, NEW slots \in SUBSET Videos, NEW again \in SUBSET Videos, ScanPage(f, slots, again)
      PROVE VTypeOK'
  BY <1>11 DEF ScanPage
<1>12. ASSUME NEW f \in Flushes, FlushEnds(f) PROVE VTypeOK'
  BY <1>12 DEF FlushEnds
<1>13. ASSUME NEW f \in Flushes, NEW v \in Videos, Take(f, v) PROVE VTypeOK'
  BY <1>13 DEF Take, Deliver
<1>14. ASSUME NEW f \in Flushes, NEW v \in Videos, TakeNothing(f, v)
      PROVE VTypeOK'
  BY <1>14 DEF TakeNothing
<1>15. ASSUME NEW f \in Flushes, Write(f) PROVE VTypeOK'
  <2>1. heldOf[f] \in Videos
    BY <1>15 DEF Write, FlushInv
  <2> QED
    BY <1>15, <2>1 DEF Write, Add, Release, Move
<1>16. ASSUME NEW f \in Flushes, FlushRedisError(f) PROVE VTypeOK'
  <2>1. pending' \in [Videos -> Nat] /\ place' \in [Views -> Ledger \cup Flushes]
    BY <1>16 DEF FlushRedisError, Deliver
  <2> QED
    BY <1>16, <2>1 DEF FlushRedisError, FlushFails, Release
<1>17. ASSUME NEW f \in Flushes, FlushDbError(f) PROVE VTypeOK'
  <2>1. heldOf[f] \in Videos
    BY <1>17 DEF FlushDbError, FlushInv
  <2>2. stored' \in [Videos -> Nat]
    BY <1>17, <2>1 DEF FlushDbError, Add
  <2>3. place' \in [Views -> Ledger \cup Flushes]
    BY <1>17, <2>1 DEF FlushDbError, Add, Move
  <2> QED
    BY <1>17, <2>2, <2>3 DEF FlushDbError, FlushFails, Release
<1>18. ASSUME Crash PROVE VTypeOK'
  BY <1>18 DEF Crash
<1>19. CASE UNCHANGED vcvars
  BY <1>19 DEF vcvars
<1> HIDE DEF VTypeOK, RequestInv
<1> QED
  BY <1>1, <1>2, <1>3, <1>4, <1>5, <1>6, <1>7, <1>8, <1>9, <1>10, <1>11,
    <1>12, <1>13, <1>14, <1>15, <1>16, <1>17, <1>18, <1>19
  DEF VNext, Environment, ViewStep, FlushStep

LEMMA RequestStep == ASSUME VTypeOK, RequestInv, [VNext]_vcvars PROVE RequestInv'
<1> USE ViewAssumption DEF VTypeOK, RequestInv, Ledger, database, redis, request, timer
<1>1. ASSUME NEW v \in Videos, NEW s \in {"unready", "completed"}, NEW len \in Durations, RowWritten(v, s, len)
      PROVE RequestInv'
  BY <1>1 DEF RowWritten
<1>2. ASSUME NEW v \in Videos, RowDeleted(v) PROVE RequestInv'
  BY <1>2 DEF RowDeleted
<1>3. ASSUME NEW v \in Videos, NEW c \in Clients, LockExpires(v, c)
      PROVE RequestInv'
  BY <1>3 DEF LockExpires
<1>4. ASSUME NEW r \in Views, NEW v \in Videos, NEW c \in Clients, ViewFind(r, v, c)
      PROVE RequestInv'
  BY <1>4 DEF ViewFind
<1>5. ASSUME NEW r \in Views, ViewLock(r) PROVE RequestInv'
  BY <1>5 DEF ViewLock, Answer
<1>6. ASSUME NEW r \in Views, ViewRepeat(r) PROVE RequestInv'
  BY <1>6 DEF ViewRepeat, Answer
<1>7. ASSUME NEW r \in Views, ViewRefused(r) PROVE RequestInv'
  BY <1>7 DEF ViewRefused, Answer
<1>8. ASSUME NEW r \in Views, ViewCount(r) PROVE RequestInv'
  BY <1>8 DEF ViewCount, Answer, Increment
<1>9. ASSUME NEW r \in Views, ViewRedisError(r) PROVE RequestInv'
  BY <1>9 DEF ViewRedisError, Answer, Increment
<1>10. ASSUME NEW f \in Flushes, Tick(f) PROVE RequestInv'
  BY <1>10 DEF Tick
<1>11. ASSUME NEW f \in Flushes, NEW slots \in SUBSET Videos, NEW again \in SUBSET Videos, ScanPage(f, slots, again)
      PROVE RequestInv'
  BY <1>11 DEF ScanPage
<1>12. ASSUME NEW f \in Flushes, FlushEnds(f) PROVE RequestInv'
  BY <1>12 DEF FlushEnds
<1>13. ASSUME NEW f \in Flushes, NEW v \in Videos, Take(f, v)
      PROVE RequestInv'
  BY <1>13 DEF Take, Deliver
<1>14. ASSUME NEW f \in Flushes, NEW v \in Videos, TakeNothing(f, v)
      PROVE RequestInv'
  BY <1>14 DEF TakeNothing
<1>15. ASSUME NEW f \in Flushes, Write(f) PROVE RequestInv'
  BY <1>15 DEF Write, Add, Release, Move
<1>16. ASSUME NEW f \in Flushes, FlushRedisError(f) PROVE RequestInv'
  BY <1>16 DEF FlushRedisError, FlushFails, Release, Deliver
<1>17. ASSUME NEW f \in Flushes, FlushDbError(f) PROVE RequestInv'
  BY <1>17 DEF FlushDbError, Add, FlushFails, Release, Move
<1>18. ASSUME Crash PROVE RequestInv'
  BY <1>18 DEF Crash
<1>19. CASE UNCHANGED vcvars
  BY <1>19 DEF vcvars
<1> HIDE DEF VTypeOK, RequestInv, database, redis, request, timer
<1> QED
  BY <1>1, <1>2, <1>3, <1>4, <1>5, <1>6, <1>7, <1>8, <1>9, <1>10, <1>11,
    <1>12, <1>13, <1>14, <1>15, <1>16, <1>17, <1>18, <1>19
  DEF VNext, Environment, ViewStep, FlushStep

LEMMA LockStep == ASSUME VTypeOK, RequestInv, LockInv, [VNext]_vcvars PROVE LockInv'
<1> USE ViewAssumption DEF VTypeOK, RequestInv, LockInv, Ledger, Key, database, redis, request, timer
<1>1. ASSUME NEW v \in Videos, NEW s \in {"unready", "completed"}, NEW len \in Durations, RowWritten(v, s, len)
      PROVE LockInv'
  BY <1>1 DEF RowWritten
<1>2. ASSUME NEW v \in Videos, RowDeleted(v) PROVE LockInv'
  BY <1>2 DEF RowDeleted
<1>3. ASSUME NEW v \in Videos, NEW c \in Clients, LockExpires(v, c)
      PROVE LockInv'
  BY <1>3 DEF LockExpires
<1>4. ASSUME NEW r \in Views, NEW v \in Videos, NEW c \in Clients, ViewFind(r, v, c)
      PROVE LockInv'
  BY <1>4 DEF ViewFind
<1>5. ASSUME NEW r \in Views, ViewLock(r) PROVE LockInv'
  BY <1>5 DEF ViewLock, Answer
<1>6. ASSUME NEW r \in Views, ViewRepeat(r) PROVE LockInv'
  BY <1>6 DEF ViewRepeat, Answer
<1>7. ASSUME NEW r \in Views, ViewRefused(r) PROVE LockInv'
  BY <1>7 DEF ViewRefused, Answer
<1>8. ASSUME NEW r \in Views, ViewCount(r) PROVE LockInv'
  BY <1>8 DEF ViewCount, Answer, Increment
<1>9. ASSUME NEW r \in Views, ViewRedisError(r) PROVE LockInv'
  BY <1>9 DEF ViewRedisError, Answer, Increment
<1>10. ASSUME NEW f \in Flushes, Tick(f) PROVE LockInv'
  BY <1>10 DEF Tick
<1>11. ASSUME NEW f \in Flushes, NEW slots \in SUBSET Videos, NEW again \in SUBSET Videos, ScanPage(f, slots, again)
      PROVE LockInv'
  BY <1>11 DEF ScanPage
<1>12. ASSUME NEW f \in Flushes, FlushEnds(f) PROVE LockInv'
  BY <1>12 DEF FlushEnds
<1>13. ASSUME NEW f \in Flushes, NEW v \in Videos, Take(f, v) PROVE LockInv'
  BY <1>13 DEF Take, Deliver
<1>14. ASSUME NEW f \in Flushes, NEW v \in Videos, TakeNothing(f, v)
      PROVE LockInv'
  BY <1>14 DEF TakeNothing
<1>15. ASSUME NEW f \in Flushes, Write(f) PROVE LockInv'
  BY <1>15 DEF Write, Add, Release, Move
<1>16. ASSUME NEW f \in Flushes, FlushRedisError(f) PROVE LockInv'
  BY <1>16 DEF FlushRedisError, FlushFails, Release, Deliver
<1>17. ASSUME NEW f \in Flushes, FlushDbError(f) PROVE LockInv'
  BY <1>17 DEF FlushDbError, Add, FlushFails, Release, Move
<1>18. ASSUME Crash PROVE LockInv'
  BY <1>18 DEF Crash
<1>19. CASE UNCHANGED vcvars
  BY <1>19 DEF vcvars
<1> HIDE DEF VTypeOK, RequestInv, LockInv, Key, database, redis, request, timer
<1> QED
  BY <1>1, <1>2, <1>3, <1>4, <1>5, <1>6, <1>7, <1>8, <1>9, <1>10, <1>11,
    <1>12, <1>13, <1>14, <1>15, <1>16, <1>17, <1>18, <1>19
  DEF VNext, Environment, ViewStep, FlushStep

LEMMA TraceStep == ASSUME VTypeOK, RequestInv, TraceInv, [VNext]_vcvars PROVE TraceInv'
<1> USE ViewAssumption DEF VTypeOK, RequestInv, TraceInv, Key, database, redis, request, timer
<1>1. ASSUME NEW v \in Videos, NEW s \in {"unready", "completed"}, NEW len \in Durations, RowWritten(v, s, len)
      PROVE TraceInv'
  BY <1>1 DEF RowWritten
<1>2. ASSUME NEW v \in Videos, RowDeleted(v) PROVE TraceInv'
  BY <1>2 DEF RowDeleted
<1>3. ASSUME NEW v \in Videos, NEW c \in Clients, LockExpires(v, c)
      PROVE TraceInv'
  BY <1>3 DEF LockExpires
<1>4. ASSUME NEW r \in Views, NEW v \in Videos, NEW c \in Clients, ViewFind(r, v, c)
      PROVE TraceInv'
  BY <1>4 DEF ViewFind
<1>5. ASSUME NEW r \in Views, ViewLock(r) PROVE TraceInv'
  BY <1>5 DEF ViewLock, Answer
<1>6. ASSUME NEW r \in Views, ViewRepeat(r) PROVE TraceInv'
  BY <1>6 DEF ViewRepeat, Answer
<1>7. ASSUME NEW r \in Views, ViewRefused(r) PROVE TraceInv'
  BY <1>7 DEF ViewRefused, Answer
<1>8. ASSUME NEW r \in Views, ViewCount(r) PROVE TraceInv'
  BY <1>8 DEF ViewCount, Answer, Increment
<1>9. ASSUME NEW r \in Views, ViewRedisError(r) PROVE TraceInv'
  <2>1. /\ viewOf' = viewOf /\ viewBy' = viewBy /\ "redis" \in Faults
        /\ view[r] \in {"found", "locked"} /\ view' = [view EXCEPT ![r] = "error"]
    BY <1>9 DEF ViewRedisError, Answer
  <2>2. lock' = lock \/ lock' = [lock EXCEPT ![Key(r)] = r]
    BY <1>9 DEF ViewRedisError
  <2>3. CASE lock' = lock
    BY <2>1, <2>3
  <2>4. CASE lock' = [lock EXCEPT ![Key(r)] = r]
    BY <2>1, <2>4
  <2> QED
    BY <2>2, <2>3, <2>4
<1>10. ASSUME NEW f \in Flushes, Tick(f) PROVE TraceInv'
  BY <1>10 DEF Tick
<1>11. ASSUME NEW f \in Flushes, NEW slots \in SUBSET Videos, NEW again \in SUBSET Videos, ScanPage(f, slots, again)
      PROVE TraceInv'
  BY <1>11 DEF ScanPage
<1>12. ASSUME NEW f \in Flushes, FlushEnds(f) PROVE TraceInv'
  BY <1>12 DEF FlushEnds
<1>13. ASSUME NEW f \in Flushes, NEW v \in Videos, Take(f, v) PROVE TraceInv'
  BY <1>13 DEF Take, Deliver
<1>14. ASSUME NEW f \in Flushes, NEW v \in Videos, TakeNothing(f, v)
      PROVE TraceInv'
  BY <1>14 DEF TakeNothing
<1>15. ASSUME NEW f \in Flushes, Write(f) PROVE TraceInv'
  BY <1>15 DEF Write, Add, Release, Move
<1>16. ASSUME NEW f \in Flushes, FlushRedisError(f) PROVE TraceInv'
  BY <1>16 DEF FlushRedisError, FlushFails, Release, Deliver
<1>17. ASSUME NEW f \in Flushes, FlushDbError(f) PROVE TraceInv'
  BY <1>17 DEF FlushDbError, Add, FlushFails, Release, Move
<1>18. ASSUME Crash PROVE TraceInv'
  BY <1>18 DEF Crash
<1>19. CASE UNCHANGED vcvars
  BY <1>19 DEF vcvars
<1> HIDE DEF VTypeOK, RequestInv, TraceInv, Key, database, redis, request, timer
<1> QED
  BY <1>1, <1>2, <1>3, <1>4, <1>5, <1>6, <1>7, <1>8, <1>9, <1>10, <1>11,
    <1>12, <1>13, <1>14, <1>15, <1>16, <1>17, <1>18, <1>19
  DEF VNext, Environment, ViewStep, FlushStep

-----------------------------------------------------------------------------
(* A view that holds or held a lock is never forgotten.                    *)
Seen(q) ==
    \/ place[q] # "none" \/ view[q] = "locked"
    \/ view[q] = "error" /\ Faults \cap {"redis", "crash"} # {}

LEMMA SeenStays ==
  ASSUME VTypeOK, RequestInv, [VNext]_vcvars, NEW q \in Views, Seen(q)
  PROVE  Seen(q)' /\ Key(q)' = Key(q)
<1> USE ViewAssumption DEF VTypeOK, RequestInv, Seen, Ledger, Key, database, redis, request, timer
<1>1. ASSUME NEW v \in Videos, NEW s \in {"unready", "completed"}, NEW len \in Durations, RowWritten(v, s, len)
      PROVE Seen(q)' /\ Key(q)' = Key(q)
  BY <1>1 DEF RowWritten
<1>2. ASSUME NEW v \in Videos, RowDeleted(v)
      PROVE Seen(q)' /\ Key(q)' = Key(q)
  BY <1>2 DEF RowDeleted
<1>3. ASSUME NEW v \in Videos, NEW c \in Clients, LockExpires(v, c)
      PROVE Seen(q)' /\ Key(q)' = Key(q)
  BY <1>3 DEF LockExpires
<1>4. ASSUME NEW r \in Views, NEW v \in Videos, NEW c \in Clients, ViewFind(r, v, c)
      PROVE Seen(q)' /\ Key(q)' = Key(q)
  BY <1>4 DEF ViewFind
<1>5. ASSUME NEW r \in Views, ViewLock(r) PROVE Seen(q)' /\ Key(q)' = Key(q)
  BY <1>5 DEF ViewLock, Answer
<1>6. ASSUME NEW r \in Views, ViewRepeat(r) PROVE Seen(q)' /\ Key(q)' = Key(q)
  BY <1>6 DEF ViewRepeat, Answer
<1>7. ASSUME NEW r \in Views, ViewRefused(r)
      PROVE Seen(q)' /\ Key(q)' = Key(q)
  BY <1>7 DEF ViewRefused, Answer
<1>8. ASSUME NEW r \in Views, ViewCount(r) PROVE Seen(q)' /\ Key(q)' = Key(q)
  BY <1>8 DEF ViewCount, Answer, Increment
<1>9. ASSUME NEW r \in Views, ViewRedisError(r)
      PROVE Seen(q)' /\ Key(q)' = Key(q)
  BY <1>9 DEF ViewRedisError, Answer, Increment
<1>10. ASSUME NEW f \in Flushes, Tick(f) PROVE Seen(q)' /\ Key(q)' = Key(q)
  BY <1>10 DEF Tick
<1>11. ASSUME NEW f \in Flushes, NEW slots \in SUBSET Videos, NEW again \in SUBSET Videos, ScanPage(f, slots, again)
      PROVE Seen(q)' /\ Key(q)' = Key(q)
  BY <1>11 DEF ScanPage
<1>12. ASSUME NEW f \in Flushes, FlushEnds(f)
      PROVE Seen(q)' /\ Key(q)' = Key(q)
  BY <1>12 DEF FlushEnds
<1>13. ASSUME NEW f \in Flushes, NEW v \in Videos, Take(f, v)
      PROVE Seen(q)' /\ Key(q)' = Key(q)
  BY <1>13 DEF Take, Deliver
<1>14. ASSUME NEW f \in Flushes, NEW v \in Videos, TakeNothing(f, v)
      PROVE Seen(q)' /\ Key(q)' = Key(q)
  BY <1>14 DEF TakeNothing
<1>15. ASSUME NEW f \in Flushes, Write(f) PROVE Seen(q)' /\ Key(q)' = Key(q)
  BY <1>15 DEF Write, Add, Release, Move
<1>16. ASSUME NEW f \in Flushes, FlushRedisError(f)
      PROVE Seen(q)' /\ Key(q)' = Key(q)
  BY <1>16 DEF FlushRedisError, FlushFails, Release, Deliver
<1>17. ASSUME NEW f \in Flushes, FlushDbError(f)
      PROVE Seen(q)' /\ Key(q)' = Key(q)
  BY <1>17 DEF FlushDbError, Add, FlushFails, Release, Move
<1>18. ASSUME Crash PROVE Seen(q)' /\ Key(q)' = Key(q)
  BY <1>18 DEF Crash
<1>19. CASE UNCHANGED vcvars
  BY <1>19 DEF vcvars
<1> HIDE DEF VTypeOK, RequestInv, Seen, Key, database, redis, request, timer
<1> QED
  BY <1>1, <1>2, <1>3, <1>4, <1>5, <1>6, <1>7, <1>8, <1>9, <1>10, <1>11,
    <1>12, <1>13, <1>14, <1>15, <1>16, <1>17, <1>18, <1>19
  DEF VNext, Environment, ViewStep, FlushStep

RepeatFate(x) ==
    /\ Key(x)' = Key(x)
    /\ \/ view[x] = "repeat"
       \/ \E q \in Views \ {x} : Key(q) = Key(x) /\ Seen(q)

LEMMA RepeatStep ==
  ASSUME VTypeOK, RequestInv, TraceInv, [VNext]_vcvars, NEW x \in Views, view'[x] = "repeat"
  PROVE  RepeatFate(x)
<1> USE DEF RepeatFate, VTypeOK, Key, database, redis, request, timer
<1>1. ASSUME NEW v \in Videos, NEW s \in {"unready", "completed"}, NEW len \in Durations, RowWritten(v, s, len)
      PROVE RepeatFate(x)
  BY <1>1 DEF RowWritten
<1>2. ASSUME NEW v \in Videos, RowDeleted(v) PROVE RepeatFate(x)
  BY <1>2 DEF RowDeleted
<1>3. ASSUME NEW v \in Videos, NEW c \in Clients, LockExpires(v, c) PROVE RepeatFate(x)
  BY <1>3 DEF LockExpires
<1>4. ASSUME NEW r \in Views, NEW v \in Videos, NEW c \in Clients, ViewFind(r, v, c)
      PROVE RepeatFate(x)
  BY <1>4 DEF ViewFind
<1>5. ASSUME NEW r \in Views, ViewLock(r) PROVE RepeatFate(x)
  BY <1>5 DEF ViewLock, Answer
<1>6. ASSUME NEW r \in Views, ViewRepeat(r) PROVE RepeatFate(x)
  <2>1. CASE x # r
    BY <1>6, <2>1 DEF ViewRepeat, Answer
  <2>2. CASE x = r
    <3>1. Key(r) \in Videos \X Clients
      BY <1>6 DEF ViewRepeat, Answer, RequestInv
    <3>2. PICK q \in Views : q = lock[Key(r)]
      BY <1>6, <3>1 DEF ViewRepeat
    <3>3. Key(q) = Key(r) /\ Seen(q) /\ q # r
      BY <1>6, <3>1, <3>2 DEF ViewRepeat, Answer, TraceInv, RequestInv, Seen
    <3> QED
      BY <1>6, <2>2, <3>3 DEF ViewRepeat, Answer
  <2> QED
    BY <2>1, <2>2
<1>7. ASSUME NEW r \in Views, ViewRefused(r) PROVE RepeatFate(x)
  BY <1>7 DEF ViewRefused, Answer
<1>8. ASSUME NEW r \in Views, ViewCount(r) PROVE RepeatFate(x)
  BY <1>8 DEF ViewCount, Answer, Increment
<1>9. ASSUME NEW r \in Views, ViewRedisError(r) PROVE RepeatFate(x)
  BY <1>9 DEF ViewRedisError, Answer, Increment
<1>10. ASSUME NEW f \in Flushes, Tick(f) PROVE RepeatFate(x)
  BY <1>10 DEF Tick
<1>11. ASSUME NEW f \in Flushes, NEW slots \in SUBSET Videos, NEW again \in SUBSET Videos, ScanPage(f, slots, again)
      PROVE RepeatFate(x)
  BY <1>11 DEF ScanPage
<1>12. ASSUME NEW f \in Flushes, FlushEnds(f) PROVE RepeatFate(x)
  BY <1>12 DEF FlushEnds
<1>13. ASSUME NEW f \in Flushes, NEW v \in Videos, Take(f, v) PROVE RepeatFate(x)
  BY <1>13 DEF Take, Deliver
<1>14. ASSUME NEW f \in Flushes, NEW v \in Videos, TakeNothing(f, v)
      PROVE RepeatFate(x)
  BY <1>14 DEF TakeNothing
<1>15. ASSUME NEW f \in Flushes, Write(f) PROVE RepeatFate(x)
  BY <1>15 DEF Write, Add, Release, Move
<1>16. ASSUME NEW f \in Flushes, FlushRedisError(f) PROVE RepeatFate(x)
  BY <1>16 DEF FlushRedisError, FlushFails, Release, Deliver
<1>17. ASSUME NEW f \in Flushes, FlushDbError(f) PROVE RepeatFate(x)
  BY <1>17 DEF FlushDbError, Add, FlushFails, Release, Move
<1>18. ASSUME Crash PROVE RepeatFate(x)
  BY <1>18 DEF Crash
<1>19. CASE UNCHANGED vcvars
  BY <1>19 DEF vcvars
<1> HIDE DEF RepeatFate, VTypeOK, RequestInv, TraceInv, Key, database, redis, request, timer
<1> QED
  BY <1>1, <1>2, <1>3, <1>4, <1>5, <1>6, <1>7, <1>8, <1>9, <1>10, <1>11,
    <1>12, <1>13, <1>14, <1>15, <1>16, <1>17, <1>18, <1>19
  DEF VNext, Environment, ViewStep, FlushStep

LEMMA HonestStep ==
  ASSUME VTypeOK, RequestInv, TraceInv, RepeatIsHonest, [VNext]_vcvars
  PROVE  RepeatIsHonest'
<1> SUFFICES ASSUME NEW x \in Views, view'[x] = "repeat"
             PROVE  \E q \in Views \ {x} : Key(q)' = Key(x)' /\ Seen(q)'
  BY DEF RepeatIsHonest, Seen
<1>1. Key(x)' = Key(x)
  BY RepeatStep DEF RepeatFate
<1>2. PICK q \in Views \ {x} : Key(q) = Key(x) /\ Seen(q)
  BY RepeatStep DEF RepeatFate, RepeatIsHonest, Seen
<1> QED
  BY <1>1, <1>2, SeenStays

-----------------------------------------------------------------------------
(* The counters and the ledger.                                            *)
Exact == FlushInv /\ CountIsExact /\ PendingIsExact

LEMMA AtIsFinite ==
  ASSUME NEW v, NEW p PROVE IsFiniteSet(At(v, p)) /\ Cardinality(At(v, p)) \in Nat
BY ViewAssumption, FS_Subset, FS_CardinalityType DEF At

(* Steps that move no view.                                                *)
LEMMA StillStep ==
  ASSUME VTypeOK, Exact,
         \A r \in Views : /\ place'[r] = place[r]
                          /\ place[r] # "none" => viewOf'[r] = viewOf[r],
         UNCHANGED <<pending, held, heldOf>>,
         \A f \in Flushes : flush'[f] = "write" <=> flush[f] = "write",
         \A v \in Videos : Stored(v)' => Stored(v) /\ stored'[v] = stored[v]
  PROVE  Exact'
<1>1. \A v, p : p # "none" => At(v, p)' = At(v, p)
  BY DEF At
<1>2. \A f \in Flushes : f # "none"
  BY ViewAssumption DEF Ledger
<1>3. FlushInv'
  BY <1>1, <1>2 DEF FlushInv, Exact
<1>4. CountIsExact' /\ PendingIsExact'
  BY <1>1 DEF CountIsExact, PendingIsExact, Exact
<1> QED
  BY <1>3, <1>4 DEF Exact

(* INCR.                                                                   *)
LEMMA IncrementStep ==
  ASSUME VTypeOK, Exact, NEW r \in Views, place[r] = "none", viewOf[r] \in Videos,
         Increment(r), UNCHANGED <<row, stored, viewOf, flush, held, heldOf>>
  PROVE  Exact'
<1> USE DEF VTypeOK
<1>1. At(viewOf[r], "pending")' = At(viewOf[r], "pending") \cup {r}
  BY DEF At, Increment
<1>2. r \notin At(viewOf[r], "pending")
  BY DEF At
<1>3. \A v : v # viewOf[r] => At(v, "pending")' = At(v, "pending")
  BY DEF At, Increment
<1>4. \A v, p : p \notin {"none", "pending"} => At(v, p)' = At(v, p)
  BY DEF At, Increment
<1>5. \A f \in Flushes : f \notin {"none", "pending"}
  BY ViewAssumption DEF Ledger
<1>6. FlushInv'
  <2>1. \A f \in Flushes, q \in Views : place'[q] = f <=> place[q] = f
    BY <1>5 DEF Increment
  <2> QED
    BY <1>4, <1>5, <2>1 DEF FlushInv, Exact
<1>7. CountIsExact'
  BY <1>4 DEF CountIsExact, Exact, Stored
<1>8. PendingIsExact'
  <2>1. Cardinality(At(viewOf[r], "pending")') = Cardinality(At(viewOf[r], "pending")) + 1
    <3>1. /\ IsFiniteSet(At(viewOf[r], "pending"))
          /\ Cardinality(At(viewOf[r], "pending")) \in Nat
      BY AtIsFinite
    <3>2. Cardinality(At(viewOf[r], "pending") \cup {r})
            = Cardinality(At(viewOf[r], "pending")) + 1
      BY <1>2, <3>1, FS_AddElement
    <3>3. Cardinality(At(viewOf[r], "pending")')
            = Cardinality(At(viewOf[r], "pending") \cup {r})
      BY ONLY <1>1, Zenon
    <3> HIDE DEF VTypeOK
    <3> QED
      BY <3>1, <3>2, <3>3
  <2> QED
    BY <1>3, <2>1 DEF PendingIsExact, Increment, Exact
<1> QED
  BY <1>6, <1>7, <1>8 DEF Exact

(* GETDEL: the views go to the flush, or nowhere.                          *)
LEMMA DeliverStep ==
  ASSUME VTypeOK, Exact, NEW v \in Videos, NEW to \in Flushes \cup {"lost"},
         Deliver(v, to), to \in Flushes => \A r \in Views : place[r] # to,
         pending' = [pending EXCEPT ![v] = 0],
         row' = row, stored' = stored, viewOf' = viewOf
  PROVE  /\ CountIsExact' /\ PendingIsExact'
         /\ At(v, to)' = At(v, "pending") \/ to = "lost"
         /\ \A r \in Views : place'[r] = to => viewOf[r] = v \/ place[r] = to
         /\ \A r \in Views, f \in Flushes : f # to => (place'[r] = f <=> place[r] = f)
<1> USE ViewAssumption DEF VTypeOK, Ledger
<1>1. to \notin {"pending", "counted", "none"}
  OBVIOUS
<1>2. At(v, "pending")' = {}
  BY <1>1 DEF At, Deliver
<1>3. \A x : x # v => At(x, "pending")' = At(x, "pending")
  BY <1>1 DEF At, Deliver
<1>4. \A x : At(x, "counted")' = At(x, "counted")
  BY <1>1 DEF At, Deliver
<1>5. PendingIsExact'
  BY <1>2, <1>3, FS_EmptySet DEF PendingIsExact, Exact
<1>6. CountIsExact'
  BY <1>4 DEF CountIsExact, Exact, Stored
<1>7. At(v, to)' = At(v, "pending") \/ to = "lost"
  BY DEF At, Deliver
<1>8. \A r \in Views : place'[r] = to => viewOf[r] = v \/ place[r] = to
  BY DEF Deliver
<1>9. \A r \in Views, f \in Flushes : f # to => (place'[r] = f <=> place[r] = f)
  BY DEF Deliver
<1> QED
  BY <1>5, <1>6, <1>7, <1>8, <1>9

(* The end of an UPDATE: the views leave the flush for the row, or are     *)
(* given up.                                                               *)
LEMMA MoveStep ==
  ASSUME VTypeOK, Exact, NEW f \in Flushes, flush[f] = "write",
         NEW to \in {"counted", "void", "lost"}, Move(f, to),
         \/ /\ to = "counted" /\ Stored(heldOf[f])
            /\ stored' = [stored EXCEPT ![heldOf[f]] = @ + held[f]]
         \/ /\ to # "counted" /\ stored' = stored,
         UNCHANGED <<row, pending, viewOf>>,
         flush'[f] # "write",
         \A g \in Flushes \ {f} : /\ flush'[g] = flush[g]
                                   /\ held'[g] = held[g]
                                   /\ heldOf'[g] = heldOf[g]
  PROVE  Exact'
<1> USE ViewAssumption DEF VTypeOK, Ledger
<1>1. f \notin Ledger
  OBVIOUS
<1>2. \A v : At(v, "pending")' = At(v, "pending")
  BY <1>1 DEF At, Move
<1>3. PendingIsExact'
  BY <1>2 DEF PendingIsExact, Exact
<1>4. \A g \in Flushes \ {f}, r \in Views : place'[r] = g <=> place[r] = g
  BY <1>1 DEF Move
<1>5. \A r \in Views : place'[r] # f
  BY <1>1 DEF Move
<1>6. FlushInv'
  <2>1. \A v, g : g \in Flushes \ {f} => At(v, g)' = At(v, g)
    BY <1>4 DEF At
  <2> QED
    BY <1>4, <1>5, <2>1 DEF FlushInv, Exact
<1>7. CountIsExact'
  <2>1. CASE to # "counted"
    <3>1. \A v : At(v, "counted")' = At(v, "counted")
      BY <1>1, <2>1 DEF At, Move
    <3> QED
      BY <2>1, <3>1 DEF CountIsExact, Exact, Stored
  <2>2. CASE to = "counted"
    <3>0. PICK h \in Videos : h = heldOf[f]
      BY DEF FlushInv, Exact
    <3>1. /\ held[f] = Cardinality(At(h, f))
          /\ \A r \in Views : place[r] = f => viewOf[r] = h
      BY <3>0 DEF FlushInv, Exact
    <3>2. At(h, "counted")' = At(h, "counted") \cup At(h, f)
      BY <1>1, <2>2 DEF At, Move
    <3>3. At(h, "counted") \cap At(h, f) = {}
      BY <1>1 DEF At
    <3>4. \A v : v # h => At(v, "counted")' = At(v, "counted")
      BY <1>1, <2>2, <3>1 DEF At, Move
    <3>5. Cardinality(At(h, "counted")') = Cardinality(At(h, "counted")) + held[f]
      <4>1. /\ IsFiniteSet(At(h, "counted")) /\ Cardinality(At(h, "counted")) \in Nat
            /\ IsFiniteSet(At(h, f)) /\ Cardinality(At(h, f)) \in Nat
        BY AtIsFinite
      <4>2. Cardinality(At(h, "counted") \cup At(h, f))
              = Cardinality(At(h, "counted")) + Cardinality(At(h, f)) - Cardinality({})
        BY <3>3, <4>1, FS_Union
      <4>3. Cardinality({}) = 0
        BY FS_EmptySet
      <4>4. Cardinality(At(h, "counted")') = Cardinality(At(h, "counted") \cup At(h, f))
        BY ONLY <3>2, Zenon
      <4> HIDE DEF VTypeOK
      <4> QED
        BY <3>1, <4>1, <4>2, <4>3, <4>4
    <3>6. stored' = [stored EXCEPT ![h] = @ + held[f]] /\ Stored(h) /\ row' = row
      BY <2>2, <3>0
    <3>7. ASSUME NEW v \in Videos, Stored(v)' PROVE stored'[v] = Cardinality(At(v, "counted")')
      <4>1. Stored(v) /\ stored[v] = Cardinality(At(v, "counted"))
        BY <3>6, <3>7 DEF CountIsExact, Exact, Stored
      <4> QED
        BY <3>4, <3>5, <3>6, <4>1
    <3> QED
      BY <3>7 DEF CountIsExact
  <2> QED
    BY <2>1, <2>2
<1> QED
  BY <1>3, <1>6, <1>7 DEF Exact

LEMMA AddStep ==
  ASSUME VTypeOK, Exact, NEW f \in Flushes, flush[f] = "write",
         Add(f) \/ (stored' = stored /\ Move(f, "lost")),
         UNCHANGED <<row, pending, viewOf>>, NEW to \in {"scan", "idle"}, Release(f, to)
  PROVE  Exact'
<1>1. flush'[f] # "write"
  BY DEF Release, VTypeOK
<1>2. \A g \in Flushes \ {f} : /\ flush'[g] = flush[g]
                                /\ held'[g] = held[g]
                                /\ heldOf'[g] = heldOf[g]
  BY DEF Release, VTypeOK
<1> QED
  BY <1>1, <1>2, MoveStep DEF Add

LEMMA ExactStep ==
  ASSUME VTypeOK, RequestInv, Exact, [VNext]_vcvars PROVE Exact'
<1>1. ASSUME NEW v \in Videos, NEW s \in {"unready", "completed"}, NEW len \in Durations, RowWritten(v, s, len)
      PROVE Exact'
  BY <1>1, StillStep DEF RowWritten, database, redis, request, timer, Stored,
    VTypeOK
<1>2. ASSUME NEW v \in Videos, RowDeleted(v) PROVE Exact'
  BY <1>2, StillStep DEF RowDeleted, database, redis, request, timer, Stored,
    VTypeOK
<1>3. ASSUME NEW v \in Videos, NEW c \in Clients, LockExpires(v, c)
      PROVE Exact'
  BY <1>3, StillStep DEF LockExpires, database, redis, request, timer, Stored
<1>4. ASSUME NEW r \in Views, NEW v \in Videos, NEW c \in Clients, ViewFind(r, v, c)
      PROVE Exact'
  BY <1>4, StillStep DEF ViewFind, database, redis, request, timer, Stored,
    RequestInv, VTypeOK
<1>5. ASSUME NEW r \in Views, ViewLock(r) PROVE Exact'
  BY <1>5, StillStep DEF ViewLock, Answer, database, redis, request, timer,
    Stored
<1>6. ASSUME NEW r \in Views, ViewRepeat(r) PROVE Exact'
  BY <1>6, StillStep DEF ViewRepeat, Answer, database, redis, request, timer,
    Stored
<1>7. ASSUME NEW r \in Views, ViewRefused(r) PROVE Exact'
  BY <1>7, StillStep DEF ViewRefused, Answer, database, redis, request, timer,
    Stored
<1>8. ASSUME NEW r \in Views, ViewCount(r) PROVE Exact'
  <2>1. viewOf[r] \in Videos /\ place[r] = "none"
    BY <1>8 DEF ViewCount, Answer, RequestInv
  <2> QED
    BY <1>8, <2>1, IncrementStep DEF ViewCount, Answer, database, timer
<1>9. ASSUME NEW r \in Views, ViewRedisError(r) PROVE Exact'
  <2>1. CASE UNCHANGED <<pending, place>>
    BY <1>9, <2>1, StillStep DEF ViewRedisError, Answer, database, timer, Stored
  <2>2. CASE view[r] = "locked" /\ Increment(r)
    <3>1. viewOf[r] \in Videos /\ place[r] = "none"
      BY <2>2 DEF RequestInv
    <3> QED
      BY <1>9, <2>2, <3>1, IncrementStep DEF ViewRedisError, Answer, database, timer
  <2> QED
    BY <1>9, <2>1, <2>2 DEF ViewRedisError, Answer
<1>10. ASSUME NEW f \in Flushes, Tick(f) PROVE Exact'
  BY <1>10, StillStep DEF Tick, database, redis, request, timer, Stored,
    VTypeOK
<1>11. ASSUME NEW f \in Flushes, NEW slots \in SUBSET Videos, NEW again \in SUBSET Videos, ScanPage(f, slots, again)
      PROVE Exact'
  BY <1>11, StillStep DEF ScanPage, database, redis, request, timer, Stored
<1>12. ASSUME NEW f \in Flushes, FlushEnds(f) PROVE Exact'
  BY <1>12, StillStep DEF FlushEnds, database, redis, request, timer, Stored,
    VTypeOK
<1>13. ASSUME NEW f \in Flushes, NEW v \in Videos, Take(f, v) PROVE Exact'
  <2>1. \A r \in Views : place[r] # f
    BY <1>13 DEF Take, FlushInv, Exact
  <2>2. /\ CountIsExact' /\ PendingIsExact'
        /\ At(v, f)' = At(v, "pending")
        /\ \A r \in Views : place'[r] = f => viewOf[r] = v
        /\ \A r \in Views, g \in Flushes : g # f => (place'[r] = g <=> place[r] = g)
    <3>1. f # "lost"
      BY ViewAssumption DEF Ledger
    <3>2. /\ Deliver(v, f)
          /\ pending' = [pending EXCEPT ![v] = 0]
          /\ row' = row /\ stored' = stored /\ viewOf' = viewOf
      BY <1>13 DEF Take, database, request
    <3>3. f \in Flushes \cup {"lost"} /\ (f \in Flushes => \A r \in Views : place[r] # f)
      BY <2>1
    <3>4. /\ CountIsExact' /\ PendingIsExact'
          /\ At(v, f)' = At(v, "pending") \/ f = "lost"
          /\ \A r \in Views : place'[r] = f => viewOf[r] = v \/ place[r] = f
          /\ \A r \in Views, g \in Flushes : g # f => (place'[r] = g <=> place[r] = g)
      BY <3>2, <3>3, DeliverStep, Zenon
    <3> QED
      BY <2>1, <3>1, <3>4
  <2>3. viewOf' = viewOf
    BY <1>13 DEF Take, request
  <2>4. \A x, g : g \in Flushes \ {f} => At(x, g)' = At(x, g)
    BY <2>2, <2>3 DEF At
  <2>5. held'[f] = Cardinality(At(v, "pending")) /\ heldOf'[f] = v /\ flush'[f] = "write"
    BY <1>13 DEF Take, PendingIsExact, Exact, VTypeOK
  <2>6. \A g \in Flushes \ {f} : /\ flush'[g] = flush[g]
                                  /\ held'[g] = held[g] /\ heldOf'[g] = heldOf[g]
    BY <1>13 DEF Take, VTypeOK
  <2>7. ASSUME NEW g \in Flushes \ {f}
        PROVE  IF flush'[g] = "write"
               THEN /\ heldOf'[g] \in Videos
                    /\ \A r \in Views : place'[r] = g => viewOf'[r] = heldOf'[g]
                    /\ held'[g] = Cardinality(At(heldOf[g], g)')
               ELSE \A r \in Views : place'[r] # g
    BY <2>2, <2>3, <2>4, <2>6, <2>7 DEF FlushInv, Exact
  <2>8. FlushInv'
    BY <2>2, <2>3, <2>5, <2>6, <2>7 DEF FlushInv
  <2> QED
    BY <2>2, <2>8 DEF Exact
<1>14. ASSUME NEW f \in Flushes, NEW v \in Videos, TakeNothing(f, v)
      PROVE Exact'
  BY <1>14, StillStep DEF TakeNothing, database, redis, request, timer, Stored
<1>15. ASSUME NEW f \in Flushes, Write(f) PROVE Exact'
  BY <1>15, AddStep DEF Write, redis, request
<1>16. ASSUME NEW f \in Flushes, FlushRedisError(f) PROVE Exact'
  <2>1. CASE UNCHANGED <<pending, place>>
    <3>1. \A g \in Flushes : flush'[g] = "write" <=> flush[g] = "write"
      BY <1>16 DEF FlushRedisError, FlushFails, Release, VTypeOK
    <3>2. \A g \in Flushes : flush[g] = "write" => held'[g] = held[g] /\ heldOf'[g] = heldOf[g]
      BY <1>16 DEF FlushRedisError, FlushFails, Release, VTypeOK
    <3>3. UNCHANGED <<row, stored, viewOf>>
      BY <1>16 DEF FlushRedisError, FlushFails, request
    <3>4. \A x, p : At(x, p)' = At(x, p)
      BY <2>1, <3>3 DEF At
    <3>5. FlushInv'
      BY <2>1, <3>1, <3>2, <3>3, <3>4 DEF FlushInv, Exact
    <3>6. CountIsExact' /\ PendingIsExact'
      BY <2>1, <3>3, <3>4 DEF CountIsExact, PendingIsExact, Exact, Stored
    <3> QED
      BY <3>5, <3>6 DEF Exact
  <2>2. ASSUME NEW v \in page[f], pending' = [pending EXCEPT ![v] = 0], Deliver(v, "lost")
        PROVE  Exact'
    <3>0. v \in Videos
      BY DEF VTypeOK
    <3>1. \A g \in Flushes : flush'[g] = "write" <=> flush[g] = "write"
      BY <1>16 DEF FlushRedisError, FlushFails, Release, VTypeOK
    <3>2. \A g \in Flushes : flush[g] = "write" => held'[g] = held[g] /\ heldOf'[g] = heldOf[g]
      BY <1>16 DEF FlushRedisError, FlushFails, Release, VTypeOK
    <3>3. UNCHANGED <<row, stored, viewOf>>
      BY <1>16 DEF FlushRedisError, FlushFails, request
    <3>4. /\ CountIsExact' /\ PendingIsExact'
          /\ \A r \in Views, g \in Flushes : place'[r] = g <=> place[r] = g
      <4>1. \A g \in Flushes : g # "lost"
        BY ViewAssumption DEF Ledger
      <4>2. /\ Deliver(v, "lost")
            /\ pending' = [pending EXCEPT ![v] = 0]
            /\ row' = row /\ stored' = stored /\ viewOf' = viewOf
        BY <2>2, <3>3
      <4>3. "lost" \in Flushes \cup {"lost"} /\ "lost" \notin Flushes
        BY ViewAssumption DEF Ledger
      <4>4. /\ CountIsExact' /\ PendingIsExact'
            /\ \A r \in Views, g \in Flushes : g # "lost" => (place'[r] = g <=> place[r] = g)
        BY <3>0, <4>2, <4>3, DeliverStep, Zenon
      <4> QED
        BY <4>1, <4>4
    <3>5. \A x, g : g \in Flushes => At(x, g)' = At(x, g)
      BY <3>3, <3>4 DEF At
    <3>6. FlushInv'
      BY <3>1, <3>2, <3>3, <3>4, <3>5 DEF FlushInv, Exact
    <3> QED
      BY <3>4, <3>6 DEF Exact
  <2> QED
    BY <1>16, <2>1, <2>2 DEF FlushRedisError
<1>17. ASSUME NEW f \in Flushes, FlushDbError(f) PROVE Exact'
  BY <1>17, AddStep DEF FlushDbError, FlushFails, request
<1>18. ASSUME Crash PROVE Exact'
  <2>1. UNCHANGED <<row, stored, pending, viewOf>>
    BY <1>18 DEF Crash, database, redis
  <2>2. \A x, p : p \in {"pending", "counted"} => At(x, p)' = At(x, p)
    BY <1>18, <2>1, ViewAssumption DEF Crash, At, Ledger
  <2>3. \A f \in Flushes : flush'[f] # "write" /\ \A r \in Views : place'[r] # f
    BY <1>18, ViewAssumption DEF Crash, Ledger
  <2>4. FlushInv'
    BY <2>3 DEF FlushInv
  <2> QED
    BY <2>1, <2>2, <2>4 DEF Exact, CountIsExact, PendingIsExact, Stored
<1>19. CASE UNCHANGED vcvars
  BY <1>19, StillStep DEF vcvars, database, redis, request, timer, Stored
<1> QED
  BY <1>1, <1>2, <1>3, <1>4, <1>5, <1>6, <1>7, <1>8, <1>9, <1>10, <1>11,
    <1>12, <1>13, <1>14, <1>15, <1>16, <1>17, <1>18, <1>19
  DEF VNext, Environment, ViewStep, FlushStep

-----------------------------------------------------------------------------
LEMMA ViewInvariance == ViewSpec => []VInv
<1>1. VInit => VInv
  <2> SUFFICES ASSUME VInit PROVE VInv
    OBVIOUS
  <2>1. VTypeOK
    BY ViewAssumption DEF VInit, VTypeOK, Rows, Ledger
  <2>2. \A v, p : p # "none" => At(v, p) = {}
    BY DEF VInit, At
  <2>3. CountIsExact /\ PendingIsExact
    BY <2>2, FS_EmptySet DEF VInit, CountIsExact, PendingIsExact
  <2>4. FlushInv
    BY ViewAssumption DEF VInit, FlushInv, Ledger
  <2>5. RequestInv /\ LockInv /\ TraceInv /\ RepeatIsHonest
    BY DEF VInit, RequestInv, LockInv, TraceInv, RepeatIsHonest
  <2> QED
    BY <2>1, <2>3, <2>4, <2>5 DEF VInv
<1>2. VInv /\ [VNext]_vcvars => VInv'
  BY VTypeStep, RequestStep, LockStep, TraceStep, HonestStep, ExactStep DEF VInv, Exact
<1> QED
  BY <1>1, <1>2, PTL DEF ViewSpec

(* Every variable keeps its type; in particular no counter is negative.    *)
THEOREM ViewTypeCorrect == ViewSpec => []VTypeOK
<1>1. VInv => VTypeOK
  BY DEF VInv
<1> QED
  BY <1>1, ViewInvariance, PTL

(* view_count is the number of the views that were written to it, each     *)
(* once, whatever overlaps and fails.                                      *)
THEOREM StoredCountIsExact == ViewSpec => []CountIsExact
<1>1. VInv => CountIsExact
  BY DEF VInv
<1> QED
  BY <1>1, ViewInvariance, PTL

(* The counter in Redis is the number of the views counted and not taken.  *)
THEOREM RedisCountIsExact == ViewSpec => []PendingIsExact
<1>1. VInv => PendingIsExact
  BY DEF VInv
<1> QED
  BY <1>1, ViewInvariance, PTL

(* No client is counted twice while its first lock lasts.                  *)
THEOREM ClientsCountOnce == ViewSpec => []OneViewPerLock
<1>1. VInv => OneViewPerLock
  BY DEF VInv, LockInv, OneViewPerLock
<1> QED
  BY <1>1, ViewInvariance, PTL

(* A client that is told "already counted" has a view that was.            *)
THEOREM RepeatsAreHonest == ViewSpec => []RepeatIsHonest
<1>1. VInv => RepeatIsHonest
  BY DEF VInv
<1> QED
  BY <1>1, ViewInvariance, PTL

=============================================================================
