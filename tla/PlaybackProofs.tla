---------------------------- MODULE PlaybackProofs -----------------------------
(***************************************************************************)
(* Proofs about what is played and shown: Progress for any length of the   *)
(* video, VideoList for any videos, tags and history, and Playback for any *)
(* playlists and any length of a sheet. The lemmas about Lists are those   *)
(* of RowsProofs.                                                          *)
(***************************************************************************)
EXTENDS Progress, VideoList, Playback, RowsProofs, SequenceTheorems

(* What Max and Min choose of two numbers.                                 *)
LEMMA MaxOfTwo ==
  ASSUME NEW a \in Int, NEW b \in Int
  PROVE  Max({a, b}) \in {a, b} /\ Max({a, b}) >= a /\ Max({a, b}) >= b
<1>1. \E x \in {a, b} : \A y \in {a, b} : x >= y
  <2>1. CASE a >= b
    BY <2>1
  <2>2. CASE b >= a
    BY <2>2
  <2> QED
    BY <2>1, <2>2
<1> QED
  BY <1>1 DEF Max

LEMMA MinOfTwo ==
  ASSUME NEW a \in Int, NEW b \in Int
  PROVE  Min({a, b}) \in {a, b} /\ Min({a, b}) <= a /\ Min({a, b}) <= b
<1>1. \E x \in {a, b} : \A y \in {a, b} : x <= y
  <2>1. CASE a >= b
    BY <2>1
  <2>2. CASE b >= a
    BY <2>2
  <2> QED
    BY <2>1, <2>2
<1> QED
  BY <1>1 DEF Min

(* The percentage of a line is rounded down, and never 100.                *)
LEMMA PercentIsLow ==
  ASSUME NEW s \in Nat
  PROVE  /\ Percent(s) \in 0..99
         /\ Percent(s) * Total <= s * 100 /\ Percent(s) * Total <= 99 * Total
<1> DEFINE q == (s * 100) \div Total
           p == Percent(s)
<1>1. Total \in Nat \ {0}
  BY ProgressAssumption
<1>2. q \in Nat /\ q * Total <= s * 100
  <2>1. ASSUME NEW n \in Nat, NEW d \in Nat \ {0} PROVE n \div d \in Nat /\ (n \div d) * d <= n
    BY <2>1
  <2>2. s * 100 \in Nat
    OBVIOUS
  <2> QED
    BY <1>1, <2>1, <2>2
<1> HIDE DEF q
<1>3. p \in {q, 99} /\ p <= q /\ p <= 99
  BY <1>2, MinOfTwo DEF Percent, q
<1>4. p \in 0..99
  BY <1>2, <1>3
<1> HIDE DEF p
<1>5. ASSUME NEW m \in Nat, NEW n \in Nat, NEW d \in Nat, m <= n PROVE m * d <= n * d
  BY <1>5
<1>6. ASSUME NEW m \in Nat, NEW d \in Nat PROVE m * d \in Nat
  BY <1>6
<1>7. p * Total <= q * Total /\ p * Total <= 99 * Total
  BY <1>1, <1>2, <1>3, <1>4, <1>5
<1>8. p * Total \in Nat /\ q * Total \in Nat
  BY <1>1, <1>2, <1>4, <1>6
<1>9. p * Total <= s * 100
  BY <1>2, <1>7, <1>8
<1> QED
  BY <1>4, <1>7, <1>9 DEF p

-----------------------------------------------------------------------------
(* An attempt has encoded as much as the percentage n says.                *)
Earned(n) ==
    \E w \in Attempts : \/ att[w].done > Total
                        \/ n < 100 /\ n * Total <= att[w].done * 100

Runs == [at : {"new", "runs", "uploads", "over"}, last : -1..100, done : 0..(Total + 1)]
Polled == [at : {"idle", "get", "done", "error"}, status : Statuses \cup {None},
           progress : Percents \cup {None}]

PInv ==
    /\ PTypeOK
    /\ \A w \in Attempts : att[w].at = "new" => att[w].done = 0
    /\ key # None => Earned(key)
    /\ \A p \in Polls : poll[p].progress # None => Earned(poll[p].progress)

(* What an attempt has encoded it does not lose.                           *)
LEMMA EarnedStays ==
  ASSUME NEW n \in Percents, Earned(n), att \in [Attempts -> Runs], att' \in [Attempts -> Runs],
         \A w \in Attempts : att[w].done <= att'[w].done
  PROVE  Earned(n)'
<1>1. PICK w \in Attempts : \/ att[w].done > Total
                            \/ n < 100 /\ n * Total <= att[w].done * 100
  BY DEF Earned
<1>2. att[w].done \in 0..(Total + 1) /\ att'[w].done \in 0..(Total + 1) /\ Total \in Nat
  BY ProgressAssumption DEF Runs
<1>3. att[w].done <= att'[w].done
  OBVIOUS
<1>4. ASSUME NEW m \in Nat, NEW k \in Nat PROVE m * k \in Nat
  BY <1>4
<1>5. n * Total \in Nat
  BY <1>2, <1>4 DEF Percents
<1> QED
  BY <1>1, <1>2, <1>3, <1>5 DEF Earned

LEMMA AttType == ASSUME PTypeOK PROVE att \in [Attempts -> Runs]
BY DEF PTypeOK, Runs

(* updateProgress writes a percentage that is earned when it is written.   *)
LEMMA UpdateStep ==
  ASSUME PInv, NEW w \in Attempts, NEW x \in {"runs", "uploads"}, NEW d \in 0..(Total + 1),
         NEW pc \in Percents, UpdateProgress(w, x, d, pc), UNCHANGED <<status, poll>>,
         att[w].done <= d, d > Total \/ (pc < 100 /\ pc * Total <= d * 100)
  PROVE  PInv'
<1>1. att \in [Attempts -> Runs] /\ key \in Percents \cup {None} /\ PTypeOK
  BY AttType DEF PInv, PTypeOK
<1> DEFINE m == Max({pc, att[w].last})
<1>2. m \in -1..100
  <2>1. pc \in -1..100 /\ att[w].last \in -1..100
    BY <1>1 DEF Percents, Runs
  <2>2. pc \in Int /\ att[w].last \in Int
    BY <2>1
  <2>3. m \in {pc, att[w].last}
    BY <2>2, MaxOfTwo
  <2> QED
    BY <2>1, <2>3
<1>3. att' = [att EXCEPT ![w] = [at |-> x, last |-> m, done |-> d]]
  BY DEF UpdateProgress
<1> HIDE DEF m
<1>4. [at |-> x, last |-> m, done |-> d] \in Runs
  BY <1>2 DEF Runs
<1>5. /\ att' \in [Attempts -> Runs]
      /\ att'[w] = [at |-> x, last |-> m, done |-> d]
      /\ \A u \in Attempts : u # w => att'[u] = att[u]
  BY <1>1, <1>3, <1>4
<1>6. att'[w].at = x /\ att'[w].done = d
  BY <1>5
<1>7. \A u \in Attempts : att[u].done <= att'[u].done
  <2>1. ASSUME NEW u \in Attempts PROVE att[u].done <= att'[u].done
    <3>1. att[u].done \in 0..(Total + 1)
      BY <1>1 DEF Runs
    <3>2. CASE u = w
      BY <1>6, <3>2
    <3>3. CASE u # w
      BY <1>5, <3>1, <3>3, ProgressAssumption
    <3> QED
      BY <3>2, <3>3
  <2> QED
    BY <2>1
<1>8. key' \in {key, pc}
  BY DEF UpdateProgress
<1>9. PTypeOK'
  BY <1>1, <1>5, <1>8 DEF PTypeOK, Runs
<1>10. \A u \in Attempts : att'[u].at = "new" => att'[u].done = 0
  BY <1>5, <1>6 DEF PInv
<1>11. Earned(pc)'
  BY <1>6 DEF Earned
<1>12. \A n \in Percents : Earned(n) => Earned(n)'
  BY <1>1, <1>5, <1>7, EarnedStays
<1>13. key' # None => Earned(key)'
  <2>1. CASE key' = pc
    BY <1>11, <2>1 DEF Earned
  <2>2. CASE key' = key
    BY <1>1, <1>12, <2>2 DEF PInv, Earned
  <2> QED
    BY <1>8, <2>1, <2>2
<1>14. \A p \in Polls : poll'[p].progress # None => Earned(poll[p].progress)'
  <2>1. \A p \in Polls : poll[p].progress \in Percents \cup {None}
    BY <1>1 DEF PTypeOK
  <2> QED
    BY <1>12, <2>1 DEF PInv, Earned
<1> QED
  BY <1>9, <1>10, <1>13, <1>14 DEF PInv

LEMMA WorkerStep ==
  ASSUME PInv, NEW w \in Attempts,
         \/ Start(w) \/ Finishes(w)
         \/ \E s \in 0..(Total + 1) : Report(w, s)
  PROVE  PInv'
<1>1. /\ att \in [Attempts -> Runs] /\ Total \in Nat \ {0}
      /\ att[w].done \in 0..(Total + 1)
  BY AttType, ProgressAssumption DEF PInv, Runs
<1>2. CASE Start(w)
  <2>1. att[w].done = 0
    BY <1>2 DEF Start, PInv
  <2>2. 0 \in 0..(Total + 1) /\ 0 \in Percents /\ 0 * Total <= 0 * 100
    BY <1>1 DEF Percents
  <2> QED
    BY <1>2, <2>1, <2>2, UpdateStep DEF Start
<1>3. CASE Finishes(w)
  <2>1. Total + 1 \in 0..(Total + 1) /\ 100 \in Percents /\ att[w].done <= Total + 1
        /\ Total + 1 > Total
    BY <1>1 DEF Percents
  <2> QED
    BY <1>3, <2>1, UpdateStep DEF Finishes
<1>4. ASSUME NEW s \in 0..(Total + 1), Report(w, s) PROVE PInv'
  <2> DEFINE c == Min({s, Total})
             d == Max({att[w].done, c})
             pc == Percent(s)
  <2>1. s \in Nat /\ s \in Int /\ Total \in Int /\ att[w].done \in Int
    BY <1>1
  <2>2. c \in {s, Total} /\ c <= s /\ c <= Total
    BY <2>1, MinOfTwo
  <2> HIDE DEF c
  <2>3. c \in Int
    BY <2>1, <2>2
  <2>4. d \in {att[w].done, c} /\ d >= att[w].done /\ d >= c
    BY <2>1, <2>3, MaxOfTwo
  <2>5. UpdateProgress(w, "runs", d, pc) /\ UNCHANGED <<status, poll>>
    BY <1>4 DEF Report, c
  <2>6. pc \in 0..99 /\ pc * Total <= s * 100 /\ pc * Total <= 99 * Total
    BY <2>1, PercentIsLow
  <2> HIDE DEF d, pc
  <2>7. d \in 0..(Total + 1) /\ att[w].done <= d /\ c <= d
    BY <1>1, <2>1, <2>2, <2>3, <2>4
  <2>8. pc * Total <= d * 100
    <3>1. pc * Total \in Nat
      <4>1. ASSUME NEW m \in Nat, NEW n \in Nat PROVE m * n \in Nat
        BY <4>1
      <4> QED
        BY <1>1, <2>6, <4>1
    <3>2. CASE c = s
      BY <2>1, <2>6, <2>7, <3>1, <3>2
    <3>3. CASE c = Total
      BY <1>1, <2>6, <2>7, <3>1, <3>3
    <3> QED
      BY <2>2, <3>2, <3>3
  <2>9. pc \in Percents /\ pc < 100
    BY <2>6 DEF Percents
  <2> QED
    BY <2>5, <2>7, <2>8, <2>9, UpdateStep
<1> QED
  BY <1>2, <1>3, <1>4

(* Steps that report nothing.                                              *)
LEMMA OtherStep ==
  ASSUME PInv, PTypeOK', \A w \in Attempts : att'[w].done = att[w].done,
         \A w \in Attempts : att'[w].at = "new" => att[w].at = "new",
         key' \in {key, None},
         \A p \in Polls : poll'[p].progress \in {poll[p].progress, key, None}
  PROVE  PInv'
<1>1. \A n : Earned(n) => Earned(n)'
  BY DEF Earned
<1>2. /\ \A w \in Attempts : att[w].at = "new" => att[w].done = 0
      /\ key # None => Earned(key)
      /\ \A p \in Polls : poll[p].progress # None => Earned(poll[p].progress)
  BY DEF PInv
<1>3. \A w \in Attempts : att'[w].at = "new" => att'[w].done = 0
  BY <1>2
<1>4. key' # None => Earned(key)'
  BY <1>1, <1>2 DEF Earned
<1>5. ASSUME NEW p \in Polls, poll'[p].progress # None PROVE Earned(poll[p].progress)'
  <2>1. CASE poll'[p].progress = poll[p].progress
    BY <1>1, <1>2, <1>5, <2>1 DEF Earned
  <2>2. CASE poll'[p].progress = key
    BY <1>1, <1>2, <1>5, <2>2 DEF Earned
  <2> QED
    BY <1>5, <2>1, <2>2
<1> QED
  BY <1>3, <1>4, <1>5 DEF PInv

LEMMA PInvStep == ASSUME PInv, [PNext]_pvars PROVE PInv'
<1>1. /\ PTypeOK /\ att \in [Attempts -> Runs] /\ key \in Percents \cup {None}
      /\ poll \in [Polls -> Polled] /\ status \in Statuses
  BY AttType DEF PInv, PTypeOK, Polled
<1>2. ASSUME NEW w \in Attempts, Ends(w) PROVE PInv'
  <2>1. /\ att' = [att EXCEPT ![w] = [at |-> "over", last |-> att[w].last, done |-> att[w].done]]
        /\ UNCHANGED <<key, poll>> /\ status' \in Statuses
    BY <1>1, <1>2 DEF Ends, Statuses
  <2>2. [at |-> "over", last |-> att[w].last, done |-> att[w].done] \in Runs
    BY <1>1 DEF Runs
  <2>3. /\ att' \in [Attempts -> Runs]
        /\ att'[w] = [at |-> "over", last |-> att[w].last, done |-> att[w].done]
        /\ \A u \in Attempts : u # w => att'[u] = att[u]
    BY <1>1, <2>1, <2>2
  <2>4. att'[w].at = "over" /\ att'[w].done = att[w].done
    BY <2>3
  <2>5. PTypeOK'
    BY <1>1, <2>1, <2>3 DEF PTypeOK, Runs
  <2> QED
    BY <2>1, <2>3, <2>4, <2>5, OtherStep
<1>3. ASSUME NEW p \in Polls, NEW q, UNCHANGED <<status, key, att>>,
             poll' = [poll EXCEPT ![p] = q], q \in Polled,
             q.progress \in {poll[p].progress, key, None}
      PROVE  PInv'
  <2>1. /\ poll' \in [Polls -> Polled]
        /\ \A o \in Polls : o # p => poll'[o] = poll[o]
        /\ poll'[p] = q
    BY <1>1, <1>3
  <2>2. PTypeOK'
    BY <1>1, <1>3, <2>1 DEF PTypeOK, Polled
  <2>3. \A o \in Polls : poll'[o].progress \in {poll[o].progress, key, None}
    BY <1>3, <2>1
  <2> QED
    BY <1>3, <2>2, <2>3, OtherStep
<1>4. ASSUME NEW p \in Polls, PollFind(p) \/ PollGet(p) \/ PollFails(p) PROVE PInv'
  <2>1. CASE PollFind(p)
    <3>1. PICK x \in {"get", "done"} :
             poll' = [poll EXCEPT ![p] = [at |-> x, status |-> status, progress |-> None]]
      BY <2>1 DEF PollFind
    <3>2. [at |-> x, status |-> status, progress |-> None] \in Polled
      BY <1>1 DEF Polled
    <3> QED
      BY <1>3, <2>1, <3>1, <3>2 DEF PollFind
  <2>2. CASE PollGet(p)
    <3>1. [at |-> "done", status |-> poll[p].status, progress |-> key] \in Polled
      BY <1>1 DEF Polled
    <3> QED
      BY <1>3, <2>2, <3>1 DEF PollGet
  <2>3. CASE PollFails(p)
    <3>1. [at |-> "error", status |-> poll[p].status, progress |-> poll[p].progress] \in Polled
      BY <1>1 DEF Polled
    <3> QED
      BY <1>3, <2>3, <3>1 DEF PollFails
  <2> QED
    BY <1>4, <2>1, <2>2, <2>3
<1>5. CASE FileArrives \/ KeyExpires \/ UNCHANGED pvars
  <2>1. UNCHANGED <<att, poll>> /\ key' \in {key, None} /\ status' \in Statuses
    BY <1>1, <1>5 DEF FileArrives, KeyExpires, pvars, Statuses
  <2>2. PTypeOK'
    BY <1>1, <2>1 DEF PTypeOK
  <2> QED
    BY <2>1, <2>2, OtherStep
<1> QED
  BY <1>2, <1>4, <1>5, WorkerStep DEF PNext

LEMMA PInvHolds == PSpec => []PInv
<1>1. PInit => PInv
  BY ProgressAssumption DEF PInit, PInv, PTypeOK, Statuses, Percents
<1> QED
  BY <1>1, PInvStep, PTL DEF PSpec

(* The row, the key, the attempts and the requests keep their types.       *)
THEOREM ProgressTypeCorrect == PSpec => []PTypeOK
BY PInvHolds, PTL DEF PInv

(* Nobody is shown more than an attempt has encoded, whatever attempts     *)
(* overlap, writes are lost and keys expire between the reads.             *)
THEOREM ShownIsEarned == PSpec => []ShownIsEncoded
<1>1. PInv => ShownIsEncoded
  BY DEF PInv, Earned, ShownIsEncoded
<1> QED
  BY <1>1, PInvHolds, PTL

-----------------------------------------------------------------------------
(* What the handler has collected is what the history says, a search that  *)
(* is too long goes no further, and the list is empty until the end.       *)
RunInv ==
    /\ run.ids = seen
    /\ run.at \in {"links", "videos", "done"} => query.search # "long"
    /\ run.at # "done" => run.list = <<>>

LInv == LTypeOK /\ RunInv /\ ListIsWanted

(* An order of a finite set is a sequence without repetitions of all of it.*)
LEMMA OrderOfSet ==
  ASSUME NEW S, IsFiniteSet(S), NEW s \in SetToSeqs(S)
  PROVE  /\ s \in Seq(S) /\ Len(s) = Cardinality(S) /\ DOMAIN s = 1..Len(s)
         /\ ToSet(s) = S
<1> DEFINE D == 1..Cardinality(S)
<1>1. /\ s \in [D -> S] /\ \A i, j \in D : i # j => s[i] # s[j]
      /\ Cardinality(S) \in Nat
  BY FS_CardinalityType DEF SetToSeqs
<1>2. s \in Seq(S) /\ Len(s) = Cardinality(S)
  BY <1>1
<1>3. s \in Injection(D, S)
  BY <1>1 DEF Injection, IsInjective
<1>4. IsFiniteSet(D) /\ Cardinality(D) = Cardinality(S)
  BY <1>1, FS_Interval
<1>5. s \in Surjection(D, S)
  BY <1>3, <1>4, FS_Injection
<1> QED
  BY <1>1, <1>2, <1>5 DEF Surjection, ToSet

(* Nobody changes a list that is answered.                                 *)
LEMMA Answered ==
  ASSUME LInv, run'.list = run.list, run'.at = run.at, UNCHANGED <<query, seen>>,
         run.at = "done" => UNCHANGED video
  PROVE  ListIsWanted'
BY DEF LInv, ListIsWanted

(* Each step of the handler keeps LInv.                                    *)
LEMMA FindTagStep == ASSUME LInv, FindTag PROVE LInv'
<1> USE DEF LInv, LTypeOK, RunInv, FindTag, Run
<1>1. /\ run'.at \in {"bad", "videos", "links", "error"}
      /\ run'.ids = run.ids /\ run'.list = run.list
  OBVIOUS
<1>2. ListIsWanted'
  BY <1>1 DEF ListIsWanted
<1> QED
  BY <1>1, <1>2

LEMMA FindLinksStep == ASSUME LInv, FindLinks PROVE LInv'
<1> DEFINE ids == {v \in Videos : <<v, query.tag>> \in links}
<1>1. /\ run' = [at |-> IF ids = {} THEN "done" ELSE "videos", ids |-> ids, list |-> <<>>]
      /\ seen' = ids /\ run.at = "links" /\ UNCHANGED <<video, tags, links, query>>
  BY DEF FindLinks, Run
<1>2. ids \subseteq Videos
  OBVIOUS
<1> HIDE DEF ids
<1>3. ListIsWanted'
  <2>1. CASE ids = {}
    <3>1. run'.list = <<>> /\ seen' = {}
      BY <1>1, <2>1
    <3>2. ToSet(run'.list) = {}
      BY <3>1 DEF ToSet
    <3>3. Len(run'.list) = 0 /\ Cardinality({}) = 0
      BY <3>1, FS_EmptySet
    <3>4. 1..(0 - 1) = {}
      OBVIOUS
    <3> QED
      BY <3>1, <3>2, <3>3, <3>4, Zenon DEF ListIsWanted
  <2>2. CASE ids # {}
    BY <1>1, <2>2 DEF ListIsWanted
  <2> QED
    BY <2>1, <2>2
<1>4. LTypeOK' /\ RunInv'
  BY <1>1, <1>2 DEF LInv, LTypeOK, RunInv
<1> QED
  BY <1>3, <1>4 DEF LInv

(* The answer is made of what there is when the videos are read.           *)
LEMMA FindVideosStep == ASSUME LInv, FindVideos PROVE LInv'
<1> DEFINE S == {v \in Videos : Matches(v)}
<1>1. PICK s \in SetToSeqs(S) :
         /\ \A i, j \in DOMAIN s : i < j => Before(s[i], s[j])
         /\ run' = Run("done", run.ids, s)
  BY DEF FindVideos
<1>2. run.at = "videos" /\ UNCHANGED <<video, tags, links, query, seen>>
  BY DEF FindVideos
<1>3. /\ s \in Seq(S) /\ Len(s) = Cardinality(S) /\ DOMAIN s = 1..Len(s)
      /\ ToSet(s) = S
  <2>1. IsFiniteSet(S)
    BY ListAssumption, FS_Subset
  <2> QED
    BY <2>1, OrderOfSet
<1>4. run' = [at |-> "done", ids |-> run.ids, list |-> s]
  BY <1>1 DEF Run
<1>5. LTypeOK'
  <2>1. s \in Seq(Videos)
    BY <1>3, SeqMonotonic
  <2> QED
    BY <1>2, <1>4, <2>1 DEF LInv, LTypeOK
<1>6. RunInv'
  BY <1>2, <1>4 DEF LInv, RunInv
<1>7. S = {v \in seen : /\ video[v] # Gone /\ video[v].done
                        /\ query.user \in {None, video[v].user}
                        /\ query.search = "text" => video[v].hit \in {"title", "description"}}
  <2>1. /\ query.search \in {None, "text"}
        /\ query.search = "text" => query.search # None
    BY <1>2, ListAssumption DEF LInv, LTypeOK, RunInv, Query
  <2>2. seen \subseteq Videos /\ run.ids = seen
    BY DEF LInv, LTypeOK, RunInv
  <2>3. \A v \in Videos : video[v] = Gone \/ video[v].hit \in {"title", "description", "no"}
    BY DEF LInv, LTypeOK, Listed
  <2>4. ~Gone.done
    BY DEF Gone
  <2>5. ASSUME NEW v \in seen
        PROVE  Matches(v) <=> /\ video[v] # Gone /\ video[v].done
                              /\ query.user \in {None, video[v].user}
                              /\ query.search = "text" => video[v].hit \in {"title", "description"}
    <3>1. v \in Videos /\ v \in run.ids
      BY <2>2
    <3>2. CASE video[v] = Gone
      BY <3>2, <2>4 DEF Matches
    <3>3. CASE video[v] # Gone
      <4>1. query.search # None <=> query.search = "text"
        BY <2>1
      <4>2. video[v].hit # "no" <=> video[v].hit \in {"title", "description"}
        BY <3>1, <3>3, <2>3
      <4> QED
        BY <3>1, <3>3, <4>1, <4>2 DEF Matches
    <3> QED
      BY <3>2, <3>3
  <2> QED
    BY <2>2, <2>5 DEF Matches
<1>8. ASSUME NEW i \in 1..(Len(s) - 1)
      PROVE  LET a == video[s[i]]
                 b == video[s[i + 1]] IN
             /\ \A f \in {"created_at", "title"} : query.sortby = f =>
                   /\ query.order = 1 => a[f] <= b[f]
                   /\ query.order = 0 => b[f] <= a[f]
             /\ query.sortby = None => b.created_at <= a.created_at
  <2>1. Before(s[i], s[i + 1])
    BY <1>1, <1>3
  <2> QED
    BY <2>1, ListAssumption DEF Before
<1>9. ListIsWanted'
  BY <1>2, <1>3, <1>4, <1>7, <1>8 DEF ListIsWanted
<1> QED
  BY <1>5, <1>6, <1>9 DEF LInv

(* A read that fails ends the request without a list.                      *)
LEMMA FindFailsStep == ASSUME LInv, FindFails PROVE LInv'
BY DEF FindFails, Run, LInv, LTypeOK, RunInv, ListIsWanted

(* What others write before the list is done is not about a list yet.      *)
LEMMA OthersStep ==
  ASSUME LInv, NEW v \in Videos,
         Deleted(v) \/ \E t \in Tags : Tagged(v, t) \/ Untagged(v, t)
  PROVE  LInv'
<1>1. UNCHANGED <<query, run, seen>> /\ run.at # "done"
  BY DEF Deleted, Tagged, Untagged
<1>2. LTypeOK'
  <2>1. CASE Deleted(v)
    BY <2>1 DEF Deleted, LInv, LTypeOK
  <2>2. ASSUME NEW t \in Tags, Tagged(v, t) PROVE LTypeOK'
    BY <2>2 DEF Tagged, LInv, LTypeOK
  <2>3. ASSUME NEW t \in Tags, Untagged(v, t) PROVE LTypeOK'
    BY <2>3 DEF Untagged, LInv, LTypeOK
  <2> QED
    BY <2>1, <2>2, <2>3
<1> QED
  BY <1>1, <1>2 DEF LInv, RunInv, ListIsWanted

LEMMA ListInit == LInit => LInv
<1> SUFFICES ASSUME LInit PROVE LInv
  OBVIOUS
<1>1. LTypeOK
  <2>1. video \in [Videos -> Listed]
    BY DEF LInit, Looked
  <2> QED
    BY <2>1 DEF LInit, LTypeOK, NotRun, Run
<1> QED
  BY <1>1 DEF LInit, NotRun, Run, LInv, RunInv, ListIsWanted

LEMMA ListNext == LInv /\ [LNext]_lvars => LInv'
<1> SUFFICES ASSUME LInv, [LNext]_lvars PROVE LInv'
  OBVIOUS
<1>1. CASE UNCHANGED lvars
  BY <1>1 DEF lvars, LInv, LTypeOK, RunInv, ListIsWanted
<1> QED
  BY <1>1, FindTagStep, FindLinksStep, FindVideosStep, FindFailsStep,
     OthersStep DEF LNext

(* The variables of the list have their types.                             *)
THEOREM ListTypeCorrect == LSpec => []LTypeOK
<1>1. LInv => LTypeOK
  BY DEF LInv
<1> QED
  BY <1>1, ListInit, ListNext, PTL DEF LSpec

(* Whatever tags, links and videos come and go between the three reads of  *)
(* getVideos, the list has each video that is there, is ready and meets    *)
(* every condition asked for, no other and none twice, in the order asked  *)
(* for.                                                                    *)
THEOREM ListsAreWanted == LSpec => []ListIsWanted
<1>1. LInv => ListIsWanted
  BY DEF LInv
<1> QED
  BY <1>1, ListInit, ListNext, PTL DEF LSpec

-----------------------------------------------------------------------------
(* What division is.                                                       *)
LEMMA DivMod ==
  ASSUME NEW a \in Nat, NEW b \in Nat \ {0}
  PROVE  /\ a \div b \in Nat /\ a % b \in 0..(b - 1)
         /\ a = (a \div b) * b + (a % b) /\ (a \div b) * b \in Nat
<1>1. a \div b \in Nat /\ a % b \in 0..(b - 1)
  OBVIOUS
<1>2. ASSUME NEW q \in Nat, q = a \div b, NEW r \in Nat, r = a % b PROVE a = q * b + r
  BY <1>2
<1>3. ASSUME NEW m \in Nat, NEW n \in Nat PROVE m * n \in Nat
  BY <1>3
<1> QED
  BY <1>1, <1>2, <1>3

(* Quotient and rest are determined.                                       *)
LEMMA DivUnique ==
  ASSUME NEW a \in Nat, NEW b \in Nat \ {0}, NEW q \in Nat, NEW e \in 0..(b - 1), a = q * b + e
  PROVE  a \div b = q /\ a % b = e
<1>1. a \div b = q
  OBVIOUS
<1>2. a % b = e
  OBVIOUS
<1> QED
  BY <1>1, <1>2

LEMMA DivMonotonic ==
  ASSUME NEW a \in Nat, NEW c \in Nat, NEW b \in Nat \ {0}, a <= c
  PROVE  a \div b <= c \div b
<1>1. /\ a \div b \in Nat /\ a % b \in 0..(b - 1) /\ a = (a \div b) * b + (a % b)
      /\ c \div b \in Nat /\ c % b \in 0..(b - 1) /\ c = (c \div b) * b + (c % b)
  BY DivMod
<1>2. SUFFICES ASSUME c \div b < a \div b PROVE FALSE
  BY <1>1
<1> DEFINE p == a \div b
           q == c \div b
           e == a % b
           f == c % b
<1>3. /\ p \in Nat /\ q \in Nat /\ e \in 0..(b - 1) /\ f \in 0..(b - 1)
      /\ a = p * b + e /\ c = q * b + f /\ q + 1 <= p
  BY <1>1, <1>2
<1> HIDE DEF p, q, e, f
<1>4. (q + 1) * b <= p * b /\ (q + 1) * b = q * b + b
  BY <1>3
<1> QED
  BY <1>3, <1>4

(* A time is the same with hours and minutes.                              *)
LEMMA TimeIsSeconds == ASSUME NEW s \in Nat PROVE FormatTime(s) = s
<1> DEFINE t == s \div 3600
           m == s % 3600
           u == m \div 60
           v == m % 60
<1>1. t \in Nat /\ m \in 0..3599 /\ s = t * 3600 + m
  <2>1. t \in Nat /\ m \in 0..(3600 - 1) /\ s = t * 3600 + m
    BY DivMod
  <2> QED
    BY <2>1
<1> HIDE DEF t, m
<1>2. u \in Nat /\ v \in 0..59 /\ m = u * 60 + v
  <2>1. m \in Nat
    BY <1>1
  <2>2. u \in Nat /\ v \in 0..(60 - 1) /\ m = u * 60 + v
    BY <2>1, DivMod
  <2> QED
    BY <2>2
<1> HIDE DEF u, v
<1>3. s = (t * 60 + u) * 60 + v /\ t * 60 + u \in Nat
  BY <1>1, <1>2
<1>4. s % 60 = v
  <2>1. 60 \in Nat \ {0} /\ v \in 0..(60 - 1)
    BY <1>2
  <2> QED
    BY <1>3, <2>1, DivUnique
<1> QED
  BY <1>1, <1>2, <1>4 DEF FormatTime, t, m, u, v

-----------------------------------------------------------------------------
(* The interval, and how many intervals there are.                         *)
LEMMA IntervalAndCount ==
  ASSUME NEW d \in Nat
  PROVE  /\ Interval(d) \in {2, 5, 10}
         /\ TotalThumbnails(d) \in Nat \ {0}
         /\ TotalThumbnails(d) = d \div (Interval(d) * 10) + 1
         /\ d < TotalThumbnails(d) * Interval(d) * 10
         /\ (TotalThumbnails(d) - 1) * Interval(d) * 10 <= d
<1>1. Interval(d) \in {2, 5, 10}
  BY DEF Interval
<1>2. TotalThumbnails(d) = d \div (Interval(d) * 10) + 1
  BY DEF TotalThumbnails
<1> QED
  BY <1>1, <1>2

(* A place on a sheet, and which picture it is.                            *)
LEMMA PlaceOfPicture ==
  ASSUME NEW i \in Nat
  PROVE  LET s == i \div PerSheet
             col == (i % PerSheet) % PerRow
             row == (i % PerSheet) \div PerRow IN
         /\ s \in Nat /\ s <= i
         /\ col \in 0..(PerRow - 1) /\ row \in 0..(PerSheet \div PerRow - 1)
         /\ s * PerSheet + row * PerRow + col = i
<1>1. /\ PerSheet \in Nat \ {0} /\ PerRow \in Nat \ {0} /\ PerSheet % PerRow = 0
      /\ PerSheet \in Nat
  BY PlaybackAssumption
<1> DEFINE s == i \div PerSheet
           m == i % PerSheet
           col == m % PerRow
           row == m \div PerRow
           deep == PerSheet \div PerRow
<1>2. s \in Nat /\ m \in 0..(PerSheet - 1) /\ i = s * PerSheet + m /\ s * PerSheet \in Nat
  BY <1>1, DivMod
<1> HIDE DEF s, m
<1>3. m \in Nat /\ row \in Nat /\ col \in 0..(PerRow - 1) /\ m = row * PerRow + col /\ row * PerRow \in Nat
  <2>1. m \in Nat
    BY <1>1, <1>2
  <2> QED
    BY <1>1, <2>1, DivMod
<1>4. deep \in Nat /\ PerSheet = deep * PerRow
  <2>1. deep \in Nat /\ PerSheet = deep * PerRow + (PerSheet % PerRow) /\ deep * PerRow \in Nat
    BY <1>1, DivMod
  <2> QED
    BY <1>1, <2>1
<1> HIDE DEF col, row, deep
<1>5. row < deep
  <2>1. SUFFICES ASSUME deep <= row PROVE FALSE
    BY <1>3, <1>4
  <2>2. deep * PerRow <= row * PerRow
    BY <1>1, <1>3, <1>4, <2>1
  <2> QED
    BY <1>1, <1>2, <1>3, <1>4, <2>2
<1>6. s <= i
  <2>1. s <= s * PerSheet
    BY <1>1, <1>2
  <2> QED
    BY <1>1, <1>2, <2>1
<1> QED
  BY <1>2, <1>3, <1>4, <1>5, <1>6 DEF s, m, col, row, deep

(* A function of 1 to m is a sequence of length m.                         *)
LEMMA LengthOf ==
  ASSUME NEW m \in Nat, NEW f, f = [n \in 1..m |-> f[n]]
  PROVE  f \in Seq({f[n] : n \in 1..m}) /\ Len(f) = m
<1>1. f \in [1..m -> {f[n] : n \in 1..m}]
  OBVIOUS
<1> QED
  BY <1>1

(* The cues that a player is given when there are any.                     *)
Shown == IF page = "embed" THEN Rewritten(WebVtt(length)) ELSE WebVtt(length)

(* The n-th cue is about the n-th interval, and names the picture of it.   *)
Right(c, n) ==
    /\ c.start = (n - 1) * Interval(length) /\ c.end = n * Interval(length)
    /\ c.sheet = (n - 1) \div PerSheet + 1
    /\ c.col = ((n - 1) % PerSheet) % PerRow
    /\ c.row = ((n - 1) % PerSheet) \div PerRow

(* The cues of the file and of the page, in either form, are those of      *)
(* Right, as many as there are thumbnails.                                 *)
LEMMA ShownCues ==
  ASSUME length \in Nat
  PROVE  /\ DOMAIN WebVtt(length) = 1..TotalThumbnails(length)
         /\ \A n \in 1..TotalThumbnails(length) : Right(WebVtt(length)[n], n)
         /\ DOMAIN Shown = 1..TotalThumbnails(length)
         /\ Len(Shown) = TotalThumbnails(length)
         /\ \A n \in 1..TotalThumbnails(length) :
               /\ Right(Shown[n], n)
               /\ Shown[n].token <=> page = "embed"
               /\ Shown[n].path = "unauthApi/embed" <=> page = "embed"
<1> DEFINE T == TotalThumbnails(length)
           W == WebVtt(length)
           R == Rewritten(W)
<1>1. T \in Nat /\ Interval(length) \in Nat
  BY IntervalAndCount
<1>2. W = [n \in 1..T |-> Cue(length, n - 1)] /\ DOMAIN W = 1..T
  BY DEF WebVtt
<1> HIDE DEF W, T
<1>3. R = [n \in 1..T |-> [W[n] EXCEPT !.path = "unauthApi/embed", !.token = TRUE]]
  BY <1>2 DEF Rewritten
<1> HIDE DEF R
<1>4. ASSUME NEW n \in 1..T
      PROVE  /\ Right(W[n], n) /\ ~W[n].token /\ W[n].path = "api/videos"
             /\ Right(R[n], n) /\ R[n].token /\ R[n].path = "unauthApi/embed"
  <2> DEFINE a == (n - 1) * Interval(length)
             b == ((n - 1) + 1) * Interval(length)
             s == (n - 1) \div PerSheet + 1
             c == ((n - 1) % PerSheet) % PerRow
             r == ((n - 1) % PerSheet) \div PerRow
  <2>1. ASSUME NEW p \in Nat, NEW q \in Nat PROVE p * q \in Nat
    BY <2>1
  <2>2. n - 1 \in Nat /\ (n - 1) + 1 \in Nat /\ (n - 1) + 1 = n
    BY <1>1
  <2>3. a \in Nat /\ b \in Nat
    BY <1>1, <2>1, <2>2
  <2>4. FormatTime(a) = a /\ FormatTime(b) = b
    <3> HIDE DEF a, b
    <3> QED
      BY <2>3, TimeIsSeconds
  <2>5. Cue(length, n - 1) = [start |-> a, end |-> b, path |-> "api/videos", sheet |-> s,
                              token |-> FALSE, col |-> c, row |-> r]
    BY <2>4 DEF Cue
  <2>6. b = n * Interval(length)
    BY <2>2
  <2> HIDE DEF a, b, s, c, r
  <2>7. W[n] = [start |-> a, end |-> b, path |-> "api/videos", sheet |-> s,
                token |-> FALSE, col |-> c, row |-> r]
    BY <1>2, <2>5
  <2>8. R[n] = [W[n] EXCEPT !.path = "unauthApi/embed", !.token = TRUE]
    BY <1>3
  <2>9. /\ R[n].start = a /\ R[n].end = b /\ R[n].sheet = s /\ R[n].col = c /\ R[n].row = r
        /\ R[n].path = "unauthApi/embed" /\ R[n].token
    BY <2>7, <2>8
  <2>10. Right(R[n], n)
    BY <2>6, <2>9 DEF Right, a, s, c, r
  <2>11. /\ W[n].start = a /\ W[n].end = b /\ W[n].sheet = s /\ W[n].col = c /\ W[n].row = r
         /\ W[n].path = "api/videos" /\ ~W[n].token
    BY <2>7
  <2>12. Right(W[n], n)
    BY <2>6, <2>11 DEF Right, a, s, c, r
  <2> QED
    BY <2>9, <2>10, <2>11, <2>12
<1>5. Len(W) = T /\ Len(R) = T /\ DOMAIN R = 1..T
  <2>1. W = [n \in 1..T |-> W[n]] /\ R = [n \in 1..T |-> R[n]]
    BY <1>2, <1>3
  <2> QED
    BY <1>1, <1>3, <2>1, LengthOf
<1>6. Shown = IF page = "embed" THEN R ELSE W
  BY DEF Shown, R, W
<1>7. CASE page = "embed"
  <2>1. Shown = R
    BY <1>6, <1>7
  <2> QED
    BY <1>2, <1>4, <1>5, <1>7, <2>1 DEF T, W
<1>8. CASE page # "embed"
  <2>1. Shown = W
    BY <1>6, <1>8
  <2> QED
    BY <1>2, <1>4, <1>5, <1>8, <2>1 DEF T, W
<1> QED
  BY <1>7, <1>8

-----------------------------------------------------------------------------
(* What is in the bucket is what the worker puts there, and what a player  *)
(* has got is made of that; the cues are there before the row says so.     *)
BInv ==
    /\ length \in Durations
    /\ frames \in Nat /\ length \div (Interval(length) * 10) <= frames
    /\ stage \in {"processing", "completed"} /\ page \in {"page", "embed"}
    /\ files \in [vtt: {<<>>, WebVtt(length)}, m3u8: Seq(Lines),
                  sheets: {{}, UploadedSheets(length, frames)}]
    /\ files.vtt # <<>> => files.sheets # {}
    /\ stage = "completed" => files.vtt # <<>>
    /\ view \in [vtt: {<<>>, Shown}, m3u8: Seq(Lines),
                 answer: {"none", "nothing", "error", "playlist", "cues"}]
    /\ view.vtt # <<>> => files.vtt # <<>>
    /\ view.m3u8 # <<>> => stage = "completed" /\ view.m3u8 = Signed(files.m3u8)

(* There is always a cue.                                                  *)
LEMMA WebVttIsFull == ASSUME NEW d \in Nat PROVE WebVtt(d) # <<>>
<1>1. TotalThumbnails(d) \in Nat \ {0}
  BY IntervalAndCount
<1>2. DOMAIN WebVtt(d) = 1..TotalThumbnails(d)
  BY DEF WebVtt
<1>3. 1 \in DOMAIN WebVtt(d)
  BY <1>1, <1>2
<1> QED
  BY <1>3

(* All lines but the empty ones are left, in their order, and those that   *)
(* name a file are signed.                                                 *)
LEMMA SignedLines ==
  ASSUME NEW f \in Seq(Lines)
  PROVE  /\ Signed(f) \in Seq(Lines) /\ Len(Signed(f)) = Cardinality(Filled(f))
         /\ \A n \in DOMAIN Signed(f) :
               Signed(f)[n].signed <=> (Signed(f)[n].kind \in {"map", "uri"})
         /\ \A i \in Filled(f) : Signed(f)[Rank(Filled(f), i)].kind = f[i].kind
<1> DEFINE I == Filled(f)
           k == Kept(f, I)
           g == Signed(f)
<1>1. I \in SUBSET (DOMAIN f)
  BY DEF Filled
<1>2. /\ k \in Seq(Lines) /\ DOMAIN k = 1..Cardinality(I) /\ Len(k) = Cardinality(I)
      /\ \A i \in I : Rank(I, i) \in 1..Cardinality(I) /\ k[Rank(I, i)] = f[i]
  <2> HIDE DEF I
  <2> QED
    BY <1>1, KeptIsThere
<1>3. g = [n \in DOMAIN k |-> [kind |-> k[n].kind, signed |-> k[n].kind \in {"uri", "map"}]]
  BY DEF Signed
<1> HIDE DEF I, k, g
<1>4. Len(k) \in Nat /\ Cardinality(I) \in Nat
  BY <1>2
<1>5. ASSUME NEW n \in 1..Cardinality(I)
      PROVE  /\ g[n] \in Lines /\ g[n].kind = k[n].kind
             /\ g[n].signed <=> (g[n].kind \in {"map", "uri"})
  <2>1. k[n] \in Lines
    BY <1>2
  <2>2. k[n].kind \in {"empty", "comment", "map", "uri"}
    BY <2>1 DEF Lines
  <2> DEFINE b == k[n].kind \in {"uri", "map"}
  <2>3. g[n] = [kind |-> k[n].kind, signed |-> b]
    BY <1>2, <1>3
  <2>4. b \in BOOLEAN /\ (b <=> k[n].kind \in {"map", "uri"})
    OBVIOUS
  <2> HIDE DEF b
  <2>5. g[n] \in Lines
    BY <2>2, <2>3, <2>4 DEF Lines
  <2>6. g[n].kind = k[n].kind /\ (g[n].signed <=> b)
    BY <2>3, <2>4
  <2> QED
    BY <2>4, <2>5, <2>6
<1>6. g = [n \in 1..Cardinality(I) |-> g[n]] /\ DOMAIN g = 1..Cardinality(I)
  BY <1>2, <1>3
<1>7. g \in Seq(Lines) /\ Len(g) = Cardinality(I)
  <2>1. g \in [1..Cardinality(I) -> Lines]
    BY <1>5, <1>6
  <2> QED
    BY <1>4, <2>1
<1> QED
  BY <1>2, <1>5, <1>6, <1>7 DEF g, I

(* Initial states, and each step.                                          *)
LEMMA BInit_BInv == BInit => BInv
<1> SUFFICES ASSUME BInit PROVE BInv
  OBVIOUS
<1> DEFINE q == length \div (Interval(length) * 10)
<1>1. length \in Nat /\ length \in Durations
  BY PlaybackAssumption DEF BInit
<1>2. q \in Nat
  <2>1. Interval(length) * 10 \in Nat \ {0}
    <3>1. Interval(length) \in {2, 5, 10}
      BY <1>1, IntervalAndCount
    <3> QED
      BY <3>1
  <2> QED
    BY <1>1, <2>1, DivMod
<1>3. frames \in {Max({1, q}), q + 1}
  BY DEF BInit
<1> HIDE DEF q
<1>4. Max({1, q}) \in {1, q} /\ Max({1, q}) >= q
  BY <1>2, MaxOfTwo
<1>5. frames \in Nat /\ q <= frames
  BY <1>2, <1>3, <1>4
<1> QED
  BY <1>1, <1>5 DEF BInit, BInv, NoFiles, NoView, q

LEMMA UploadSteps ==
  ASSUME BInv,
         \/ \E p \in Playlists : UploadPlaylist(p)
         \/ UploadThumbnails \/ UploadVtt \/ Complete
  PROVE  BInv'
<1>1. length \in Nat /\ length \in Durations
  BY PlaybackAssumption DEF BInv
<1>2. WebVtt(length) # <<>>
  BY <1>1, WebVttIsFull
<1>3. ASSUME NEW p \in Playlists, UploadPlaylist(p) PROVE BInv'
  <2>1. files' = [vtt |-> <<>>, m3u8 |-> p, sheets |-> {}] /\ files = NoFiles
    BY <1>3 DEF UploadPlaylist, NoFiles
  <2>2. UNCHANGED <<length, frames, stage, page, view>> /\ p \in Seq(Lines)
    BY <1>3, PlaybackAssumption DEF UploadPlaylist
  <2>3. stage # "completed" /\ view.vtt = <<>> /\ view.m3u8 = <<>>
    BY <2>1 DEF BInv, NoFiles
  <2> QED
    BY <2>1, <2>2, <2>3 DEF BInv, NoFiles, Shown
<1>4. CASE UploadThumbnails
  <2>1. files' = [files EXCEPT !.sheets = UploadedSheets(length, frames)] /\ files.sheets = {}
        /\ UNCHANGED <<length, frames, stage, page, view>>
    BY <1>4 DEF UploadThumbnails
  <2>2. /\ files'.vtt = files.vtt /\ files'.m3u8 = files.m3u8
        /\ files' \in [vtt: {<<>>, WebVtt(length)}, m3u8: Seq(Lines),
                       sheets: {{}, UploadedSheets(length, frames)}]
    BY <2>1 DEF BInv
  <2>3. files.vtt = <<>>
    BY <2>1 DEF BInv
  <2> QED
    BY <2>1, <2>2, <2>3 DEF BInv, Shown
<1>5. CASE UploadVtt
  <2>1. files' = [files EXCEPT !.vtt = WebVtt(length)] /\ files.sheets # {}
        /\ UNCHANGED <<length, frames, stage, page, view>>
    BY <1>5 DEF UploadVtt
  <2>2. /\ files'.vtt = WebVtt(length) /\ files'.m3u8 = files.m3u8 /\ files'.sheets # {}
        /\ files' \in [vtt: {<<>>, WebVtt(length)}, m3u8: Seq(Lines),
                       sheets: {{}, UploadedSheets(length, frames)}]
    BY <2>1 DEF BInv
  <2> QED
    BY <1>2, <2>1, <2>2 DEF BInv, Shown
<1>6. CASE Complete
  BY <1>6 DEF Complete, BInv, Shown
<1> QED
  BY <1>3, <1>4, <1>5, <1>6

LEMMA PlayStep == ASSUME BInv, Play PROVE BInv'
<1>1. UNCHANGED <<length, frames, stage, files, page>>
  BY DEF Play
<1>2. /\ view'.vtt = view.vtt /\ view' \in [vtt: {<<>>, Shown}, m3u8: Seq(Lines),
                 answer: {"none", "nothing", "error", "playlist", "cues"}]
      /\ view'.m3u8 = view.m3u8 \/ (stage = "completed" /\ view'.m3u8 = Signed(files.m3u8))
  <2>1. Signed(files.m3u8) \in Seq(Lines)
    BY SignedLines DEF BInv
  <2> HIDE DEF Shown
  <2>2. CASE stage # "completed"
    BY <2>2 DEF BInv, Play
  <2>3. CASE stage = "completed" /\ files.m3u8 = <<>>
    BY <2>3 DEF BInv, Play
  <2>4. CASE stage = "completed" /\ files.m3u8 # <<>>
    BY <2>1, <2>4 DEF BInv, Play
  <2> QED
    BY <2>2, <2>3, <2>4
<1>3. Shown' = Shown
  BY <1>1 DEF Shown
<1> QED
  BY <1>1, <1>2, <1>3 DEF BInv

LEMMA VttStep == ASSUME BInv, GetVtt PROVE BInv'
<1>1. UNCHANGED <<length, frames, stage, files, page>>
  BY DEF GetVtt
<1>2. Shown' = Shown
  BY <1>1 DEF Shown
<1>3. CASE files.vtt = <<>>
  <2>1. view' = [view EXCEPT !.answer = "error"]
    BY <1>3 DEF GetVtt
  <2>2. /\ view'.vtt = view.vtt /\ view'.m3u8 = view.m3u8
        /\ view' \in [vtt: {<<>>, Shown}, m3u8: Seq(Lines),
                      answer: {"none", "nothing", "error", "playlist", "cues"}]
    BY <2>1 DEF BInv
  <2> QED
    BY <1>1, <1>2, <2>2 DEF BInv
<1>4. CASE files.vtt # <<>>
  <2>1. files.vtt = WebVtt(length)
    BY <1>4 DEF BInv
  <2>2. view' = [view EXCEPT !.vtt = Shown, !.answer = "cues"]
    BY <1>4, <2>1 DEF GetVtt, Shown
  <2>3. /\ view'.vtt = Shown /\ view'.m3u8 = view.m3u8
        /\ view' \in [vtt: {<<>>, Shown}, m3u8: Seq(Lines),
                      answer: {"none", "nothing", "error", "playlist", "cues"}]
    BY <2>2 DEF BInv
  <2> QED
    BY <1>1, <1>2, <1>4, <2>3 DEF BInv
<1> QED
  BY <1>3, <1>4

LEMMA BInvHolds == BSpec => []BInv
<1>1. BInv /\ [BNext]_bvars => BInv'
  <2> SUFFICES ASSUME BInv, [BNext]_bvars PROVE BInv'
    OBVIOUS
  <2>1. CASE UNCHANGED bvars
    BY <2>1 DEF bvars, BInv, Shown
  <2> QED
    BY <2>1, UploadSteps, PlayStep, VttStep DEF BNext
<1> QED
  BY <1>1, BInit_BInv, PTL DEF BSpec

-----------------------------------------------------------------------------
(* What follows from BInv.                                                 *)
LEMMA CuesHaveType == ASSUME BInv PROVE BTypeOK
<1> DEFINE T == TotalThumbnails(length)
<1>1. length \in Nat
  BY PlaybackAssumption DEF BInv
<1>2. Interval(length) \in {2, 5, 10} /\ T \in Nat \ {0}
  BY <1>1, IntervalAndCount
<1> DEFINE CueFits(c) == /\ c.start < c.end /\ c.sheet \in 1..T
                         /\ c.col \in 0..(PerRow - 1) /\ c.row \in 0..(PerSheet \div PerRow - 1)
<1> HIDE DEF T
<1>3. ASSUME NEW n \in 1..T, NEW c, Right(c, n) PROVE CueFits(c)
  <2>1. n - 1 \in Nat
    BY <1>2
  <2> DEFINE s == (n - 1) \div PerSheet
             col == ((n - 1) % PerSheet) % PerRow
             row == ((n - 1) % PerSheet) \div PerRow
  <2>2. s \in Nat /\ s <= n - 1 /\ col \in 0..(PerRow - 1) /\ row \in 0..(PerSheet \div PerRow - 1)
    BY <2>1, PlaceOfPicture
  <2>3. c.sheet = s + 1 /\ c.col = col /\ c.row = row
    BY <1>3 DEF Right
  <2> HIDE DEF s, col, row
  <2>4. c.sheet \in 1..T
    BY <1>2, <2>2, <2>3
  <2>5. c.start < c.end
    BY <1>2, <1>3 DEF Right
  <2> QED
    BY <2>2, <2>3, <2>4, <2>5
<1>4. /\ DOMAIN Shown = 1..T /\ \A n \in 1..T : Right(Shown[n], n)
  BY <1>1, ShownCues DEF T
<1>5. DOMAIN WebVtt(length) = 1..T /\ \A n \in 1..T : Right(WebVtt(length)[n], n)
  BY <1>1, ShownCues DEF T
<1> HIDE DEF CueFits
<1>6. ASSUME NEW c \in ToSet(files.vtt) \cup ToSet(view.vtt) PROVE CueFits(c)
  <2>1. CASE c \in ToSet(files.vtt)
    <3>1. files.vtt = WebVtt(length)
      BY <2>1 DEF BInv, ToSet
    <3> QED
      BY <1>3, <1>5, <2>1, <3>1 DEF ToSet
  <2>2. CASE c \in ToSet(view.vtt)
    <3>1. view.vtt = Shown
      BY <2>2 DEF BInv, ToSet
    <3> QED
      BY <1>3, <1>4, <2>2, <3>1 DEF ToSet
  <2> QED
    BY <2>1, <2>2
<1> QED
  BY <1>6 DEF BInv, BTypeOK, CueFits, T

LEMMA CuesAreOneEach == ASSUME BInv PROVE OneCueEach
<1> SUFFICES ASSUME view.vtt # <<>> PROVE OneCueEach
  BY DEF OneCueEach
<1> DEFINE T == TotalThumbnails(length)
           I == Interval(length)
           V == view.vtt
<1>1. length \in Nat /\ V = Shown
  BY PlaybackAssumption DEF BInv
<1>2. I \in {2, 5, 10} /\ T \in Nat \ {0} /\ length < T * I * 10 /\ (T - 1) * I * 10 <= length
  BY <1>1, IntervalAndCount
<1>3. Len(V) = T /\ \A n \in 1..T : V[n].start = (n - 1) * I /\ V[n].end = n * I
  BY <1>1, ShownCues DEF Right
<1> HIDE DEF T, I, V
<1>4. V[1].start = 0 /\ V[T].end = T * I /\ V[T].start = (T - 1) * I
  BY <1>2, <1>3
<1>5. ASSUME NEW n \in 1..(T - 1) PROVE V[n].end = V[n + 1].start
  <2>1. n \in 1..T /\ n + 1 \in 1..T /\ (n + 1) - 1 = n
    BY <1>2
  <2> QED
    BY <1>3, <2>1
<1> QED
  BY <1>1, <1>2, <1>3, <1>4, <1>5 DEF OneCueEach, V

LEMMA PicturesAreThere == ASSUME BInv PROVE CueHasPicture
<1> SUFFICES ASSUME NEW n \in DOMAIN view.vtt, view.vtt[n].end * 10 <= length
             PROVE  LET c == view.vtt[n]
                        nth == (c.sheet - 1) * PerSheet + c.row * PerRow + c.col IN
                    c.sheet \in files.sheets /\ nth < frames /\ nth = n - 1
  BY DEF CueHasPicture
<1> DEFINE T == TotalThumbnails(length)
           I == Interval(length)
           c == view.vtt[n]
<1>1. /\ length \in Nat /\ view.vtt = Shown
      /\ files.sheets = UploadedSheets(length, frames)
  BY PlaybackAssumption DEF BInv
<1>2. I \in {2, 5, 10} /\ T \in Nat \ {0} /\ T = length \div (I * 10) + 1
  BY <1>1, IntervalAndCount
<1>3. n \in 1..T /\ Right(c, n)
  BY <1>1, ShownCues
<1> DEFINE q == length \div (I * 10)
<1>4. frames \in Nat /\ q <= frames
  BY DEF BInv
<1> HIDE DEF T
<1>5. n - 1 < frames
  <2>1. I * 10 \in Nat \ {0} /\ n * (I * 10) <= length /\ n \in Nat
    BY <1>2, <1>3 DEF Right
  <2>2. (n * (I * 10)) \div (I * 10) = n
    BY <2>1
  <2>3. n * (I * 10) \in Nat
    BY <1>2, <2>1
  <2>4. n <= q
    BY <1>1, <2>1, <2>2, <2>3, DivMonotonic
  <2>5. q \in Nat
    BY <1>1, <2>1, DivMod
  <2> QED
    BY <1>4, <2>1, <2>4, <2>5
<1> DEFINE s == (n - 1) \div PerSheet
           col == ((n - 1) % PerSheet) % PerRow
           row == ((n - 1) % PerSheet) \div PerRow
<1>6. n - 1 \in Nat
  BY <1>2, <1>3
<1>7. s \in Nat /\ s * PerSheet + row * PerRow + col = n - 1
  BY <1>6, PlaceOfPicture
<1>8. c.sheet = s + 1 /\ c.col = col /\ c.row = row
  BY <1>3 DEF Right
<1>9. s + 1 \in UploadedSheets(length, frames)
  <2>1. PerSheet \in Nat \ {0}
    BY PlaybackAssumption
  <2> DEFINE m == T \div PerSheet + 1
             k == Sheets(frames)
  <2>2. m \in Nat /\ s + 1 <= m
    <3>1. T \in Nat /\ n - 1 <= T
      BY <1>2, <1>3
    <3>2. s <= T \div PerSheet /\ T \div PerSheet \in Nat
      BY <1>6, <2>1, <3>1, DivMonotonic, DivMod
    <3> HIDE DEF s
    <3> QED
      BY <1>7, <3>2
  <2>3. k \in Nat /\ s + 1 <= k
    <3>1. n - 1 + PerSheet \in Nat /\ frames + PerSheet - 1 \in Nat
          /\ n - 1 + PerSheet <= frames + PerSheet - 1
      BY <1>4, <1>5, <1>6, <2>1
    <3>2. (n - 1 + PerSheet) \div PerSheet = s + 1
      <4> DEFINE e == (n - 1) % PerSheet
      <4>1. e \in 0..(PerSheet - 1) /\ n - 1 = s * PerSheet + e
        BY <1>6, <2>1, DivMod
      <4> HIDE DEF s, e
      <4>2. n - 1 + PerSheet = (s + 1) * PerSheet + e /\ s + 1 \in Nat
        BY <1>7, <2>1, <4>1
      <4> QED
        BY <2>1, <3>1, <4>1, <4>2, DivUnique
    <3>3. k = (frames + PerSheet - 1) \div PerSheet
      BY DEF Sheets
    <3> HIDE DEF s, k
    <3>4. s + 1 <= k
      BY <2>1, <3>1, <3>2, <3>3, DivMonotonic
    <3> QED
      BY <2>1, <3>1, <3>3, <3>4, DivMod
  <2> HIDE DEF m, k, s
  <2>4. Min({m, k}) \in {m, k} /\ Min({m, k}) <= m /\ Min({m, k}) <= k
    <3>1. m \in Int /\ k \in Int
      BY <2>2, <2>3
    <3> QED
      BY <3>1, MinOfTwo
  <2>5. s + 1 \in 1..Min({m, k})
    BY <1>7, <2>2, <2>3, <2>4
  <2> QED
    BY <2>5 DEF UploadedSheets, m, k, T
<1> HIDE DEF s, col, row, c
<1>10. (c.sheet - 1) * PerSheet + c.row * PerRow + c.col = n - 1
  BY <1>7, <1>8
<1> QED
  BY <1>1, <1>5, <1>8, <1>9, <1>10 DEF c

LEMMA FetchableInv == ASSUME BInv PROVE AllCanBeFetched
<1>1. ASSUME view.m3u8 # <<>>
      PROVE  /\ stage = "completed" /\ files.vtt # <<>>
             /\ \A n \in DOMAIN view.m3u8 : view.m3u8[n].signed <=> (view.m3u8[n].kind \in {"map", "uri"})
             /\ Len(view.m3u8) = Cardinality(Filled(files.m3u8))
             /\ \A i \in Filled(files.m3u8) :
                   view.m3u8[Rank(Filled(files.m3u8), i)].kind = files.m3u8[i].kind
  <2>1. view.m3u8 = Signed(files.m3u8) /\ files.m3u8 \in Seq(Lines) /\ stage = "completed"
        /\ files.vtt # <<>>
    BY <1>1 DEF BInv
  <2> QED
    BY <2>1, SignedLines
<1>2. ASSUME NEW c \in ToSet(view.vtt)
      PROVE  /\ c.token <=> (page = "embed")
             /\ (c.path = "unauthApi/embed") <=> (page = "embed")
  <2>1. view.vtt = Shown /\ length \in Nat
    BY <1>2, PlaybackAssumption DEF BInv, ToSet
  <2> QED
    BY <1>2, <2>1, ShownCues DEF ToSet
<1> QED
  BY <1>1, <1>2 DEF AllCanBeFetched

(* The files and what a page has of them keep their types: every cue names *)
(* a sheet, a row and a column that a sheet can have.                      *)
THEOREM PlaybackTypeCorrect == BSpec => []BTypeOK
BY CuesHaveType, BInvHolds, PTL

(* For a video of any length, the cues that a page gets follow each other  *)
(* through all of it, the picture of each full interval has been drawn and *)
(* is at its place of a sheet that is stored, and a player can fetch all   *)
(* its playlist names.                                                     *)
THEOREM PlayersAreServed == BSpec => []PlayerIsServed
<1>1. BInv => PlayerIsServed
  BY CuesAreOneEach, PicturesAreThere, FetchableInv DEF PlayerIsServed
<1> QED
  BY <1>1, BInvHolds, PTL
=============================================================================
