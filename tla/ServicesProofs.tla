---------------------------- MODULE ServicesProofs -----------------------------
(***************************************************************************)
(* Proofs about ExternalVideos and StampCache, for any number of videos,   *)
(* users, stamps and requests and any faults, and about all the services   *)
(* together.                                                               *)
(***************************************************************************)
EXTENDS MCServices, PlaybackProofs

Reqs == [op: {"none", "post", "duration", "metadata"}, at: Steps \cup Answers,
         v: ExVideos \cup {None}, u: Users \cup {None}, set: Info,
         ask: SUBSET {"title", "desc"}]

(* A broadcast, or an archive with its length.                             *)
Settled(w) ==
    \/ w = NoVideo \/ w.type = "youtube live"
    \/ w.type = "youtube" /\ w.len = Length

(* What a handler that awaits something knows of the row it has read.      *)
ReqOK(r) ==
    LET q == req[r] IN
    q.at \in Steps =>
       /\ q.v \in used /\ q.v \in ExVideos
       /\ q.op \in {"post", "duration", "metadata"}
       /\ q.op = "post" => q.at \in {"fetch", "insert"} /\ q.u \in Users /\ row[q.v] = NoVideo
       /\ q.op = "duration" => Settled(row[q.v])
       /\ q.op = "duration" /\ q.at = "update" =>
             /\ tube[q.v] = "archived"
             /\ q.set = [title |-> None, desc |-> None, type |-> "youtube", len |-> Length]
       /\ q.op = "metadata" => row[q.v] = NoVideo \/ row[q.v].owner = q.u
       /\ q.op = "metadata" /\ q.at = "update" =>
             /\ q.set.type = None /\ q.set.len = None
             /\ q.set.title # None => "title" \in q.ask
             /\ q.set.desc # None => "desc" \in q.ask

ReqInv == \A r \in Requests : ReqOK(r)

(* Nobody else knows of a video that is not inserted yet.                  *)
Inserting(r) == req[r].op = "post" /\ req[r].at \in Steps
PostInv ==
    \A r, q \in Requests :
       r # q /\ Inserting(r) /\ req[q].at \in Steps => req[q].v # req[r].v

UsedInv == \A v \in ExVideos : row[v] # NoVideo => v \in used

XInv == XTypeOK /\ ReqInv /\ PostInv /\ UsedInv /\ CallPerCooldown

-----------------------------------------------------------------------------
(* None is no value of a column.                                           *)
LEMMA NoneIsNone ==
    /\ Length \in Nat \ {0}
    /\ None \notin Users /\ None # Length /\ None # "tube" /\ None # "youtube"
BY ExternalAssumption DEF Types

(* The record of a request and those of the others.                        *)
Others(r) == \A q \in Requests : q # r => req'[q] = req[q]

LEMMA Apart == Steps \cap Answers = {}
BY DEF Steps, Answers

LEMMA BeginShape ==
  ASSUME XTypeOK, NEW r \in Requests, NEW o, NEW x, NEW v, NEW u, NEW F, Begin(r, o, x, v, u, F)
  PROVE  /\ Others(r) /\ req[r].at \notin Steps
         /\ req'[r] = [op |-> o, at |-> x, v |-> v, u |-> u, set |-> Nothing, ask |-> F]
BY Apart DEF Begin, Others, XTypeOK

LEMMA MoveShape ==
  ASSUME XTypeOK, NEW r \in Requests, NEW x, NEW s, Move(r, x, s)
  PROVE  /\ Others(r)
         /\ req'[r] = [op |-> req[r].op, at |-> x, v |-> req[r].v, u |-> req[r].u,
                       set |-> s, ask |-> req[r].ask]
BY DEF Move, Others, XTypeOK

LEMMA BeginType ==
  ASSUME XTypeOK, NEW r \in Requests, NEW o \in {"post", "duration", "metadata"},
         NEW x \in Steps \cup Answers, NEW v \in ExVideos, NEW u \in Users \cup {None},
         NEW F \in SUBSET {"title", "desc"}, Begin(r, o, x, v, u, F)
  PROVE  req' \in [Requests -> Reqs]
<1>1. req \in [Requests -> Reqs]
  BY DEF XTypeOK, Reqs
<1>2. [op |-> o, at |-> x, v |-> v, u |-> u, set |-> Nothing, ask |-> F] \in Reqs
  BY DEF Reqs, Nothing, Info
<1> QED
  BY <1>1, <1>2 DEF Begin

LEMMA MoveType ==
  ASSUME XTypeOK, NEW r \in Requests, NEW x \in Steps \cup Answers, NEW s \in Info, Move(r, x, s)
  PROVE  req' \in [Requests -> Reqs]
<1>1. req \in [Requests -> Reqs]
  BY DEF XTypeOK, Reqs
<1>2. [op |-> req[r].op, at |-> x, v |-> req[r].v, u |-> req[r].u, set |-> s,
       ask |-> req[r].ask] \in Reqs
  BY <1>1 DEF Reqs
<1> QED
  BY <1>1, <1>2 DEF Move

LEMMA SetType == ASSUME XTypeOK, NEW r \in Requests PROVE req[r].set \in Info
BY DEF XTypeOK

-----------------------------------------------------------------------------
(* What an update of the row of v by the columns s leaves.                 *)
LEMMA UpdateShape ==
  ASSUME XTypeOK, NEW v \in ExVideos, NEW s, Update(v, s)
  PROVE  /\ \A w \in ExVideos : w # v => row'[w] = row[w]
         /\ row'[v] = IF row[v] = NoVideo THEN NoVideo ELSE Merge(row[v], s)
BY DEF Update, XTypeOK

LEMMA MergeType ==
  ASSUME NEW w \in Row, NEW s,
         s.title \in Origins \cup {None}, s.desc \in Origins \cup {None},
         s.type \in Types \cup {None}, s.len \in {None, 0, Length}
  PROVE  Merge(w, s) \in Row /\ Merge(w, s) # NoVideo
<1>1. Merge(w, s) \in Row
  BY NoneIsNone DEF Merge, Row
<1> QED
  BY <1>1, NoneIsNone DEF Row, NoVideo

LEMMA UpdateType ==
  ASSUME XTypeOK, NEW v \in ExVideos, NEW s, Update(v, s),
         s.title \in Origins \cup {None}, s.desc \in Origins \cup {None},
         s.type \in Types \cup {None}, s.len \in {None, 0, Length}
  PROVE  row' \in [ExVideos -> Row \cup {NoVideo}]
<1>1. row \in [ExVideos -> Row \cup {NoVideo}]
  BY DEF XTypeOK
<1>2. (IF row[v] = NoVideo THEN NoVideo ELSE Merge(row[v], s)) \in Row \cup {NoVideo}
  BY <1>1, MergeType
<1> QED
  BY <1>1, <1>2 DEF Update

-----------------------------------------------------------------------------
(* What a step may do to a row that is not just inserted.                  *)
Forward(v) ==
    \/ row'[v] = row[v] \/ row'[v] = NoVideo
    \/ /\ row[v] # NoVideo /\ row'[v] # NoVideo
       /\ row'[v].owner = row[v].owner /\ ColumnKept(v)

LEMMA DurationForward ==
  ASSUME XInv, NEW r \in Requests, DurationUpdate(r)
  PROVE  /\ row' \in [ExVideos -> Row \cup {NoVideo}]
         /\ \A v \in ExVideos : Forward(v)
<1> USE NoneIsNone
<1> DEFINE v == req[r].v
           s == [title |-> None, desc |-> None, type |-> "youtube", len |-> Length]
<1>1. /\ v \in ExVideos /\ req[r].set = s /\ tube[v] = "archived" /\ Settled(row[v])
  BY DEF DurationUpdate, At, XInv, ReqInv, ReqOK, Steps
<1>2. Update(v, s)
  BY <1>1 DEF DurationUpdate
<1>3. XTypeOK
  BY DEF XInv
<1>4. /\ s.title = None /\ s.desc = None /\ s.type = "youtube" /\ s.len = Length
  OBVIOUS
<1> HIDE DEF s
<1>5. row' \in [ExVideos -> Row \cup {NoVideo}]
  BY <1>1, <1>2, <1>3, <1>4, UpdateType DEF Types
<1>6. /\ \A w \in ExVideos : w # v => row'[w] = row[w]
      /\ row'[v] = IF row[v] = NoVideo THEN NoVideo ELSE Merge(row[v], s)
  BY <1>1, <1>2, <1>3, UpdateShape
<1>7. ASSUME row[v] # NoVideo PROVE Forward(v)
  <2>1. row[v] \in Row
    BY <1>1, <1>3, <1>7 DEF XTypeOK
  <2>2. row'[v] = [owner |-> row[v].owner, title |-> row[v].title, desc |-> row[v].desc,
                   type |-> "youtube", len |-> Length]
    BY <1>4, <1>6, <1>7 DEF Merge
  <2>3. /\ row'[v].owner = row[v].owner /\ row'[v].title = row[v].title
        /\ row'[v].desc = row[v].desc /\ row'[v].type = "youtube" /\ row'[v].len = Length
    BY <2>2
  <2>4. row'[v] # NoVideo
    BY <2>1, <2>3 DEF Row, NoVideo
  <2>5. ColumnKept(v)
    <3>1. \A f \in {"title", "desc"} : row'[v][f] = row[v][f]
      BY <2>2
    <3>2. row[v].type # "youtube live" => <<row[v].type, row[v].len>> = <<row'[v].type, row'[v].len>>
      BY <1>1, <1>7, <2>3 DEF Settled
    <3> QED
      BY <1>1, <2>3, <3>1, <3>2 DEF ColumnKept
  <2> QED
    BY <1>7, <2>3, <2>4, <2>5 DEF Forward
<1> QED
  BY <1>5, <1>6, <1>7 DEF Forward

(* Updates that leave type and length alone, by the owner's edit or by a   *)
(* refresh of the owner's.                                                 *)
LEMMA TextForward ==
  ASSUME XTypeOK, NEW v \in ExVideos, NEW s, Update(v, s),
         s.title \in Origins \cup {None}, s.desc \in Origins \cup {None},
         s.type = None, s.len = None,
         \A f \in {"title", "desc"} : s[f] = "tube" =>
            (row[v] # NoVideo => \E r \in Requests :
               /\ At(r, "metadata", "update") /\ req[r].v = v
               /\ f \in req[r].ask /\ req[r].u = row[v].owner)
  PROVE  /\ row' \in [ExVideos -> Row \cup {NoVideo}]
         /\ \A w \in ExVideos : Forward(w)
<1> USE NoneIsNone
<1>1. row' \in [ExVideos -> Row \cup {NoVideo}]
  BY UpdateType
<1>2. /\ \A w \in ExVideos : w # v => row'[w] = row[w]
      /\ row'[v] = IF row[v] = NoVideo THEN NoVideo ELSE Merge(row[v], s)
  BY UpdateShape
<1>3. ASSUME row[v] # NoVideo PROVE Forward(v)
  <2>1. row[v] \in Row
    BY <1>3 DEF XTypeOK
  <2>2. row'[v] = [owner |-> row[v].owner,
                   title |-> IF s.title = None THEN row[v].title ELSE s.title,
                   desc |-> IF s.desc = None THEN row[v].desc ELSE s.desc,
                   type |-> row[v].type, len |-> row[v].len]
    BY <1>2, <1>3 DEF Merge
  <2>3. /\ row'[v].owner = row[v].owner
        /\ row'[v].title \in {row[v].title, s.title}
        /\ row'[v].desc \in {row[v].desc, s.desc}
        /\ row'[v].type = row[v].type /\ row'[v].len = row[v].len
    BY <2>2
  <2>4. row'[v] # NoVideo
    BY <2>1, <2>3 DEF Row, NoVideo
  <2>5. ColumnKept(v)
    <3>1. ASSUME NEW f \in {"title", "desc"}, row'[v][f] = "tube", row[v][f] = "own"
          PROVE s[f] = "tube"
      BY <2>3, <3>1
    <3> QED
      BY <1>3, <2>3, <3>1 DEF ColumnKept
  <2> QED
    BY <1>3, <2>3, <2>4, <2>5 DEF Forward
<1> QED
  BY <1>1, <1>2, <1>3 DEF Forward

LEMMA MetadataForward ==
  ASSUME XInv, NEW r \in Requests, MetadataUpdate(r)
  PROVE  /\ row' \in [ExVideos -> Row \cup {NoVideo}]
         /\ \A v \in ExVideos : Forward(v)
<1> DEFINE v == req[r].v
           s == req[r].set
<1>1. XTypeOK /\ s \in Info /\ Update(v, s)
  BY SetType DEF XInv, MetadataUpdate
<1>2. /\ v \in ExVideos /\ s.type = None /\ s.len = None
      /\ s.title # None => "title" \in req[r].ask
      /\ s.desc # None => "desc" \in req[r].ask
      /\ row[v] = NoVideo \/ row[v].owner = req[r].u
  BY DEF MetadataUpdate, At, XInv, ReqInv, ReqOK, Steps
<1>3. s.title \in Origins \cup {None} /\ s.desc \in Origins \cup {None}
  BY <1>1 DEF Info, Origins
<1>4. ASSUME NEW f \in {"title", "desc"}, s[f] = "tube", row[v] # NoVideo
      PROVE  At(r, "metadata", "update") /\ f \in req[r].ask /\ req[r].u = row[v].owner
  BY <1>2, <1>4, NoneIsNone DEF MetadataUpdate
<1> QED
  BY <1>1, <1>2, <1>3, <1>4, TextForward

LEMMA EditedForward ==
  ASSUME XInv, NEW v \in ExVideos, NEW f \in {"title", "desc"}, Edited(v, f)
  PROVE  /\ row' \in [ExVideos -> Row \cup {NoVideo}]
         /\ \A w \in ExVideos : Forward(w)
<1> DEFINE s == [g \in {"title", "desc", "type", "len"} |-> IF g = f THEN "own" ELSE None]
<1>1. XTypeOK /\ Update(v, s)
  BY DEF XInv, Edited
<1>2. /\ s.title \in {"own", None} /\ s.desc \in {"own", None}
      /\ s.type = None /\ s.len = None
  OBVIOUS
<1>3. \A g \in {"title", "desc"} : s[g] # "tube"
  BY NoneIsNone
<1> HIDE DEF s
<1> QED
  BY <1>1, <1>2, <1>3, TextForward DEF Origins

-----------------------------------------------------------------------------
(* What a handler knows stays true while others take steps.                *)
Grows ==
    /\ used \subseteq used'
    /\ \A v \in ExVideos : tube[v] = "archived" => tube'[v] = "archived"

LEMMA ForwardKeeps ==
  ASSUME XTypeOK, NEW r \in Requests, req'[r] = req[r], ReqOK(r), Grows,
         req[r].at \in Steps => Forward(req[r].v)
  PROVE  ReqOK(r)'
<1> DEFINE q == req[r]
<1> SUFFICES ASSUME q.at \in Steps PROVE ReqOK(r)'
  BY DEF ReqOK
<1>1. /\ q.v \in used' /\ q.v \in ExVideos /\ Forward(q.v)
      /\ tube[q.v] = "archived" => tube'[q.v] = "archived"
  BY DEF ReqOK, Grows
<1>2. CASE row'[q.v] = row[q.v]
  BY <1>1, <1>2 DEF ReqOK, Settled
<1>3. CASE row'[q.v] = NoVideo
  BY <1>1, <1>3 DEF ReqOK, Settled
<1>4. CASE row[q.v] # NoVideo /\ row'[q.v] # NoVideo /\ row'[q.v].owner = row[q.v].owner
           /\ ColumnKept(q.v)
  <2>1. Settled(row[q.v]) => Settled(row'[q.v])
    BY <1>4 DEF ColumnKept, Settled
  <2> QED
    BY <1>1, <1>4, <2>1 DEF ReqOK, Settled
<1> QED
  BY <1>1, <1>2, <1>3, <1>4 DEF Forward

(* The handler of r takes a step: what it knows then, and the others.      *)
LEMMA ReqStep ==
  ASSUME XTypeOK, ReqInv, NEW r \in Requests, Others(r), Grows, ReqOK(r)',
         \A q \in Requests : q # r /\ req[q].at \in Steps => Forward(req[q].v)
  PROVE  ReqInv'
<1>1. ASSUME NEW q \in Requests, q # r PROVE ReqOK(q)'
  BY <1>1, ForwardKeeps DEF Others, ReqInv
<1> QED
  BY <1>1 DEF ReqInv

(* A request that does not start to insert a video.                        *)
LEMMA PostStep ==
  ASSUME PostInv, NEW r \in Requests, Others(r),
         req'[r].at \in Steps => req[r].at \in Steps /\ req'[r].op = req[r].op
                                 /\ req'[r].v = req[r].v
  PROVE  PostInv'
BY DEF PostInv, Inserting, Others

LEMMA StepHolds ==
  ASSUME XInv, XTypeOK', CallPerCooldown', Grows, NEW r \in Requests, Others(r), ReqOK(r)',
         req'[r].at \in Steps => req[r].at \in Steps /\ req'[r].op = req[r].op
                                 /\ req'[r].v = req[r].v,
         \A v \in ExVideos : Forward(v)
  PROVE  XInv'
<1>1. \A q \in Requests : req[q].at \in Steps => req[q].v \in ExVideos
  BY DEF XInv, ReqInv, ReqOK
<1>2. ReqInv'
  BY <1>1, ReqStep DEF XInv
<1>3. PostInv'
  BY PostStep DEF XInv
<1>4. UsedInv'
  BY DEF XInv, UsedInv, Forward, Grows
<1> QED
  BY <1>2, <1>3, <1>4 DEF XInv

(* A handler that goes on from one await to another and writes nothing.    *)
LEMMA QuietStep ==
  ASSUME XInv, NEW r \in Requests, NEW x \in Steps \cup Answers, NEW s \in Info,
         Move(r, x, s), UNCHANGED <<row, used, tube>>,
         cool' \in [ExVideos -> BOOLEAN], passes' \in [ExVideos -> Nat], CallPerCooldown',
         x \in Steps => req[r].at \in Steps /\ ReqOK(r)'
  PROVE  XInv'
<1>1. XTypeOK
  BY DEF XInv
<1>2. req' \in [Requests -> Reqs]
  BY <1>1, MoveType
<1>3. XTypeOK'
  BY <1>1, <1>2 DEF XTypeOK, Reqs
<1>4. /\ Others(r)
      /\ req'[r] = [op |-> req[r].op, at |-> x, v |-> req[r].v, u |-> req[r].u,
                    set |-> s, ask |-> req[r].ask]
  BY <1>1, MoveShape
<1>5. req'[r].at = x /\ req'[r].op = req[r].op /\ req'[r].v = req[r].v
  BY <1>4
<1>6. ReqOK(r)'
  BY <1>5 DEF ReqOK
<1>7. Grows /\ \A v \in ExVideos : Forward(v)
  BY DEF Grows, Forward
<1> QED
  BY <1>3, <1>4, <1>5, <1>6, <1>7, StepHolds

(* One that writes a row and is answered.                                  *)
LEMMA WriteStep ==
  ASSUME XInv, NEW r \in Requests, NEW x \in Answers, Go(r, x),
         UNCHANGED <<used, cool, tube, passes>>,
         row' \in [ExVideos -> Row \cup {NoVideo}], \A v \in ExVideos : Forward(v)
  PROVE  XInv'
<1>1. XTypeOK /\ req[r].set \in Info /\ Move(r, x, req[r].set)
  BY SetType DEF XInv, Go
<1>2. req' \in [Requests -> Reqs]
  BY <1>1, MoveType
<1>3. XTypeOK'
  BY <1>1, <1>2 DEF XTypeOK, Reqs
<1>4. /\ Others(r)
      /\ req'[r] = [op |-> req[r].op, at |-> x, v |-> req[r].v, u |-> req[r].u,
                    set |-> req[r].set, ask |-> req[r].ask]
  BY <1>1, MoveShape
<1>5. req'[r].at \notin Steps
  BY <1>4, Apart
<1>6. ReqOK(r)' /\ Grows /\ CallPerCooldown'
  BY <1>5 DEF ReqOK, Grows, XInv, CallPerCooldown
<1> QED
  BY <1>3, <1>4, <1>5, <1>6, StepHolds

(* One that begins.                                                        *)
LEMMA FindStep ==
  ASSUME XInv, NEW r \in Requests, NEW o \in {"duration", "metadata"},
         NEW x \in Steps \cup Answers, NEW v \in ExVideos, NEW u \in Users \cup {None},
         NEW F \in SUBSET {"title", "desc"},
         Begin(r, o, x, v, u, F), UNCHANGED <<row, used, cool, tube, passes>>,
         x \in Steps =>
            /\ x \in {"cool", "fetch"} /\ row[v] # NoVideo
            /\ o = "duration" => Settled(row[v])
            /\ o = "metadata" => row[v].owner = u
  PROVE  XInv'
<1>1. XTypeOK
  BY DEF XInv
<1>2. req' \in [Requests -> Reqs]
  BY <1>1, BeginType
<1>3. XTypeOK'
  BY <1>1, <1>2 DEF XTypeOK, Reqs
<1>4. /\ Others(r) /\ req[r].at \notin Steps
      /\ req'[r] = [op |-> o, at |-> x, v |-> v, u |-> u, set |-> Nothing, ask |-> F]
  BY <1>1, BeginShape
<1>5. req'[r].at = x /\ req'[r].op = o /\ req'[r].v = v /\ req'[r].u = u
  BY <1>4
<1>6. x \in Steps => v \in used
  BY DEF XInv, UsedInv
<1>7. ReqOK(r)'
  BY <1>5, <1>6 DEF ReqOK, Settled
<1>8. Grows /\ \A w \in ExVideos : Forward(w)
  BY DEF Grows, Forward
<1>9. ReqInv' /\ UsedInv' /\ CallPerCooldown'
  BY <1>1, <1>4, <1>7, <1>8, ReqStep DEF XInv, UsedInv, CallPerCooldown, ReqInv, ReqOK
<1>10. PostInv'
  <2>1. ASSUME NEW p \in Requests, Inserting(p)', NEW q \in Requests, p # q,
               req'[q].at \in Steps
        PROVE  req'[q].v # req'[p].v
    <3>1. p # r /\ Inserting(p) /\ req'[p] = req[p]
      BY <1>4, <1>5, <2>1 DEF Inserting, Others
    <3>2. CASE q = r
      <4>1. row[v] # NoVideo /\ row[req[p].v] = NoVideo
        BY <1>5, <2>1, <3>1, <3>2 DEF XInv, ReqInv, ReqOK, Inserting
      <4> QED
        BY <1>5, <3>1, <3>2, <4>1
    <3>3. CASE q # r
      BY <1>4, <2>1, <3>1, <3>3 DEF XInv, PostInv, Others
    <3> QED
      BY <3>2, <3>3
  <2> QED
    BY <2>1 DEF PostInv
<1> QED
  BY <1>3, <1>9, <1>10 DEF XInv

-----------------------------------------------------------------------------
(* postExVideo                                                             *)

LEMMA PostBegins ==
  ASSUME XInv, NEW r \in Requests, NEW v \in ExVideos, NEW u \in Users,
         NEW F \in SUBSET {"title", "desc"}, Post(r, v, u, F)
  PROVE  XInv'
<1>1. XTypeOK /\ Begin(r, "post", "fetch", v, u, F)
  BY DEF XInv, Post
<1>2. req' \in [Requests -> Reqs]
  BY <1>1, BeginType DEF Steps
<1>3. v \notin used /\ used' = used \cup {v} /\ UNCHANGED <<row, cool, tube, passes>>
  BY DEF Post
<1>4. XTypeOK'
  BY <1>1, <1>2, <1>3 DEF XTypeOK, Reqs
<1>5. /\ Others(r) /\ req[r].at \notin Steps
      /\ req'[r] = [op |-> "post", at |-> "fetch", v |-> v, u |-> u, set |-> Nothing, ask |-> F]
  BY <1>1, BeginShape
<1>6. req'[r].at = "fetch" /\ req'[r].op = "post" /\ req'[r].v = v /\ req'[r].u = u
  BY <1>5
<1>7. row[v] = NoVideo /\ row'[v] = NoVideo
  BY <1>3 DEF XInv, UsedInv
<1>8. ReqOK(r)' /\ Grows
  BY <1>3, <1>6, <1>7 DEF ReqOK, Grows
<1>9. ReqInv' /\ UsedInv' /\ CallPerCooldown'
  <2>1. \A w : Forward(w)
    BY <1>3 DEF Forward
  <2> QED
    BY <1>1, <1>3, <1>5, <1>8, <2>1, ReqStep DEF XInv, UsedInv, CallPerCooldown
<1>10. PostInv'
  <2>1. \A q \in Requests : q # r /\ req'[q].at \in Steps => req'[q].v # v
    BY <1>3, <1>5 DEF XInv, ReqInv, ReqOK, Others
  <2>2. ASSUME NEW p \in Requests, Inserting(p)', NEW q \in Requests, p # q,
               req'[q].at \in Steps
        PROVE  req'[q].v # req'[p].v
    <3>1. CASE p = r \/ q = r
      <4>1. req'[p].at \in Steps
        BY <2>2 DEF Inserting
      <4> QED
        BY <1>6, <2>1, <2>2, <3>1, <4>1
    <3>2. CASE p # r /\ q # r
      BY <1>5, <2>2, <3>2 DEF XInv, PostInv, Inserting, Others
    <3> QED
      BY <3>1, <3>2
  <2> QED
    BY <2>2 DEF PostInv
<1> QED
  BY <1>4, <1>9, <1>10 DEF XInv

LEMMA PostFetched ==
  ASSUME XInv, NEW r \in Requests, NEW i \in Info, PostFetch(r, i) PROVE XInv'
<1> USE NoneIsNone
<1>1. /\ UNCHANGED <<row, used, tube>> /\ cool' = cool /\ passes' = passes
      /\ req[r].op = "post" /\ req[r].at = "fetch"
  BY DEF PostFetch, At
<1>2. /\ cool' \in [ExVideos -> BOOLEAN] /\ passes' \in [ExVideos -> Nat]
      /\ CallPerCooldown' /\ req[r].set \in Info /\ XTypeOK
  BY <1>1, SetType DEF XInv, XTypeOK, CallPerCooldown
<1>3. CASE Go(r, "bad")
  BY <1>1, <1>2, <1>3, Apart, QuietStep DEF Go, Answers
<1>4. ASSUME NEW s \in Info, Move(r, "insert", s) PROVE XInv'
  <2>1. req'[r] = [op |-> req[r].op, at |-> "insert", v |-> req[r].v, u |-> req[r].u,
                   set |-> s, ask |-> req[r].ask]
    BY <1>2, <1>4, MoveShape
  <2>2. /\ req'[r].op = "post" /\ req'[r].at = "insert" /\ req'[r].v = req[r].v
        /\ req'[r].u = req[r].u
    BY <1>1, <2>1
  <2>3. ReqOK(r)'
    BY <1>1, <2>2 DEF XInv, ReqInv, ReqOK, Steps
  <2> QED
    BY <1>1, <1>2, <1>4, <2>3, QuietStep DEF Steps
<1>5. i.title # None /\ i.desc # None =>
         [title |-> IF "title" \in req[r].ask THEN None ELSE i.title,
          desc |-> IF "desc" \in req[r].ask THEN None ELSE i.desc,
          type |-> IF i.type = None THEN "youtube" ELSE i.type,
          len |-> IF i.len = None THEN 0 ELSE i.len] \in Info
  BY DEF Info, Types
<1> QED
  BY <1>3, <1>4, <1>5 DEF PostFetch

LEMMA PostInserted == ASSUME XInv, NEW r \in Requests, PostInsert(r) PROVE XInv'
<1> USE NoneIsNone
<1> DEFINE v == req[r].v
           m == Merge([owner |-> req[r].u, title |-> "own", desc |-> "own",
                       type |-> "youtube", len |-> 0], req[r].set)
<1>1. /\ XTypeOK /\ req[r].set \in Info /\ req[r].op = "post" /\ req[r].at = "insert"
      /\ v \in ExVideos /\ v \in used /\ row[v] = NoVideo /\ req[r].u \in Users
  BY SetType DEF XInv, PostInsert, At, ReqInv, ReqOK, Steps
<1>2. m \in Row /\ m # NoVideo
  <2>1. [owner |-> req[r].u, title |-> "own", desc |-> "own", type |-> "youtube", len |-> 0]
           \in Row
    BY <1>1 DEF Row, Origins, Types
  <2> QED
    BY <1>1, <2>1, MergeType DEF Info, Origins
<1>3. row' = [row EXCEPT ![v] = m] /\ UNCHANGED <<used, cool, tube, passes>>
  BY DEF PostInsert
<1> HIDE DEF m
<1>4. /\ row' \in [ExVideos -> Row \cup {NoVideo}]
      /\ \A w \in ExVideos : w # v => row'[w] = row[w]
  BY <1>1, <1>2, <1>3 DEF XTypeOK
<1>5. PICK x \in {"done", "error"} : Go(r, x)
  BY DEF PostInsert
<1>6. /\ Others(r)
      /\ req'[r] = [op |-> req[r].op, at |-> x, v |-> req[r].v, u |-> req[r].u,
                    set |-> req[r].set, ask |-> req[r].ask]
  BY <1>1, <1>5, MoveShape DEF Go
<1>7. req'[r].at \notin Steps /\ x \in Answers
  BY <1>6 DEF Steps, Answers
<1>8. req' \in [Requests -> Reqs]
  BY <1>1, <1>5, <1>7, MoveType DEF Go
<1>9. XTypeOK'
  BY <1>1, <1>3, <1>4, <1>8 DEF XTypeOK, Reqs
<1>10. ReqInv'
  <2>1. ReqOK(r)' /\ Grows
    BY <1>3, <1>7 DEF ReqOK, Grows
  <2>2. ASSUME NEW q \in Requests, q # r, req[q].at \in Steps PROVE Forward(req[q].v)
    <3>1. req[q].v # v /\ req[q].v \in ExVideos
      BY <1>1, <2>2 DEF XInv, PostInv, Inserting, Steps, ReqInv, ReqOK
    <3> QED
      BY <1>4, <3>1 DEF Forward
  <2> QED
    BY <1>1, <1>6, <2>1, <2>2, ReqStep DEF XInv
<1>11. PostInv'
  BY <1>6, <1>7, PostStep DEF XInv
<1>12. UsedInv'
  BY <1>1, <1>3, <1>4 DEF XInv, UsedInv
<1>13. CallPerCooldown'
  BY <1>3 DEF XInv, CallPerCooldown
<1> QED
  BY <1>9, <1>10, <1>11, <1>12, <1>13 DEF XInv

-----------------------------------------------------------------------------
(* The refreshes                                                           *)

LEMMA CoolKept ==
  ASSUME XInv, UNCHANGED <<cool, passes>>
  PROVE  /\ cool' \in [ExVideos -> BOOLEAN] /\ passes' \in [ExVideos -> Nat]
         /\ CallPerCooldown'
BY DEF XInv, XTypeOK, CallPerCooldown

LEMMA FindsHold ==
  ASSUME XInv, NEW r \in Requests, NEW v \in ExVideos,
         \/ DurationFind(r, v)
         \/ \E u \in Users, F \in SUBSET {"title", "desc"} : MetadataFind(r, v, u, F)
  PROVE  XInv'
<1>1. CASE DurationFind(r, v)
  <2> DEFINE x == CASE row[v] = NoVideo -> "missing"
                    [] row[v].type = "youtube live" -> "cool"
                    [] OTHER -> "unchanged"
  <2>1. Begin(r, "duration", x, v, None, {}) /\ UNCHANGED <<row, used, cool, tube, passes>>
    BY <1>1 DEF DurationFind
  <2>2. /\ x \in {"missing", "cool", "unchanged"}
        /\ x = "cool" => row[v] # NoVideo /\ row[v].type = "youtube live"
    <3>1. CASE row[v] = NoVideo
      <4>1. None # "youtube live"
        BY ExternalAssumption DEF Types
      <4>2. row[v].type = None
        BY <3>1 DEF NoVideo
      <4>3. row[v].type # "youtube live"
        BY <4>1, <4>2
      <4> QED
        BY <3>1, <4>3
    <3>2. CASE row[v] # NoVideo /\ row[v].type = "youtube live"
      BY <3>2
    <3>3. CASE row[v] # NoVideo /\ ~(row[v].type = "youtube live")
      BY <3>3
    <3> QED
      BY <3>1, <3>2, <3>3
  <2> HIDE DEF x
  <2>3. x \in Steps => x = "cool"
    BY <2>2 DEF Steps
  <2> QED
    BY <2>1, <2>2, <2>3, FindStep DEF Steps, Answers, Settled
<1>2. ASSUME NEW u \in Users, NEW F \in SUBSET {"title", "desc"}, MetadataFind(r, v, u, F)
      PROVE  XInv'
  <2> DEFINE x == CASE row[v] = NoVideo -> "missing"
                    [] row[v].owner = u -> "fetch"
                    [] OTHER -> "refused"
  <2>1. Begin(r, "metadata", x, v, u, F) /\ UNCHANGED <<row, used, cool, tube, passes>>
    BY <1>2 DEF MetadataFind
  <2>2. /\ x \in {"missing", "fetch", "refused"}
        /\ x = "fetch" => row[v] # NoVideo /\ row[v].owner = u
    <3>1. CASE row[v] = NoVideo
      <4>1. row[v].owner # u
        BY <3>1, NoneIsNone DEF NoVideo
      <4> QED
        BY <3>1, <4>1
    <3>2. CASE row[v] # NoVideo /\ row[v].owner = u
      BY <3>2
    <3>3. CASE row[v] # NoVideo /\ ~(row[v].owner = u)
      BY <3>3
    <3> QED
      BY <3>1, <3>2, <3>3
  <2> HIDE DEF x
  <2>3. x \in Steps => x = "fetch"
    BY <2>2 DEF Steps
  <2> QED
    BY <2>1, <2>2, <2>3, FindStep DEF Steps, Answers
<1> QED
  BY <1>1, <1>2

(* SET NX lets one through while the key is there.                         *)
LEMMA CoolStep ==
  ASSUME XInv, NEW v \in ExVideos,
         \/ UNCHANGED <<cool, passes>>
         \/ /\ ~cool[v]
            /\ cool' = [cool EXCEPT ![v] = TRUE] /\ passes' = [passes EXCEPT ![v] = @ + 1]
         \/ cool' = [cool EXCEPT ![v] = TRUE] /\ passes' = passes
         \/ cool' = [cool EXCEPT ![v] = FALSE] /\ passes' = [passes EXCEPT ![v] = 0]
  PROVE  /\ cool' \in [ExVideos -> BOOLEAN] /\ passes' \in [ExVideos -> Nat]
         /\ CallPerCooldown'
<1>1. cool \in [ExVideos -> BOOLEAN] /\ passes \in [ExVideos -> Nat]
  BY DEF XInv, XTypeOK
<1>2. CASE UNCHANGED <<cool, passes>>
  BY <1>2, CoolKept
<1>3. ASSUME NEW b \in BOOLEAN, NEW n \in Nat,
             cool' = [cool EXCEPT ![v] = b], passes' = [passes EXCEPT ![v] = n],
             n <= IF b THEN 1 ELSE 0
      PROVE  /\ cool' \in [ExVideos -> BOOLEAN] /\ passes' \in [ExVideos -> Nat]
             /\ CallPerCooldown'
  <2>1. cool' \in [ExVideos -> BOOLEAN]
    BY <1>1, <1>3, Zenon
  <2>2. \A w \in ExVideos : w # v => (cool'[w] <=> cool[w])
    BY <1>1, <1>3, Zenon
  <2>3. cool'[v] <=> b
    BY <1>1, <1>3, Zenon
  <2>4. passes' \in [ExVideos -> Nat] /\ passes'[v] = n
        /\ \A w \in ExVideos : w # v => passes'[w] = passes[w]
    BY <1>1, <1>3
  <2>5. ASSUME NEW w \in ExVideos PROVE passes'[w] <= IF cool'[w] THEN 1 ELSE 0
    <3>1. CASE w = v
      BY <1>3, <2>3, <2>4, <3>1
    <3>2. CASE w # v
      BY <2>2, <2>4, <3>2 DEF XInv, CallPerCooldown
    <3> QED
      BY <3>1, <3>2
  <2> QED
    BY <2>1, <2>4, <2>5 DEF CallPerCooldown
<1>4. passes[v] \in Nat /\ passes[v] <= 1 /\ (~cool[v] => passes[v] = 0)
  BY <1>1 DEF XInv, CallPerCooldown
<1>5. passes = [passes EXCEPT ![v] = passes[v]]
  BY <1>1
<1>6. CASE /\ ~cool[v]
           /\ cool' = [cool EXCEPT ![v] = TRUE] /\ passes' = [passes EXCEPT ![v] = @ + 1]
  <2>1. passes' = [passes EXCEPT ![v] = passes[v] + 1] /\ passes[v] + 1 \in Nat
    BY <1>1, <1>6
  <2>2. passes[v] + 1 <= 1
    BY <1>4, <1>6
  <2> QED
    BY <1>3, <1>6, <2>1, <2>2
<1>7. CASE cool' = [cool EXCEPT ![v] = TRUE] /\ passes' = passes
  <2>1. passes' = [passes EXCEPT ![v] = passes[v]]
    BY <1>5, <1>7
  <2> QED
    BY <1>3, <1>4, <1>7, <2>1
<1>8. CASE cool' = [cool EXCEPT ![v] = FALSE] /\ passes' = [passes EXCEPT ![v] = 0]
  <2>1. 0 <= IF FALSE THEN 1 ELSE 0
    OBVIOUS
  <2> QED
    BY <1>3, <1>8, <2>1
<1> QED
  BY <1>2, <1>6, <1>7, <1>8

LEMMA CooldownHolds == ASSUME XInv, NEW r \in Requests, DurationCool(r) PROVE XInv'
<1> DEFINE v == req[r].v
<1>1. /\ UNCHANGED <<row, used, tube>> /\ req[r].op = "duration" /\ req[r].at = "cool"
      /\ v \in ExVideos /\ XTypeOK /\ req[r].set \in Info
  BY SetType DEF DurationCool, At, XInv, ReqInv, ReqOK, Steps
<1>2. /\ cool' \in [ExVideos -> BOOLEAN] /\ passes' \in [ExVideos -> Nat]
      /\ CallPerCooldown'
  BY <1>1, CoolStep DEF DurationCool
<1>3. CASE Go(r, "cooldown") \/ Go(r, "error")
  BY <1>1, <1>2, <1>3, Apart, QuietStep DEF Go, Answers
<1>4. CASE Go(r, "fetch")
  <2>1. req'[r] = [op |-> req[r].op, at |-> "fetch", v |-> v, u |-> req[r].u,
                   set |-> req[r].set, ask |-> req[r].ask]
    BY <1>1, <1>4, MoveShape DEF Go
  <2>2. req'[r].op = "duration" /\ req'[r].at = "fetch" /\ req'[r].v = v
    BY <1>1, <2>1
  <2>3. ReqOK(r)'
    BY <1>1, <2>2 DEF XInv, ReqInv, ReqOK, Steps, Settled
  <2> QED
    BY <1>1, <1>2, <1>4, <2>3, QuietStep DEF Go, Steps
<1> QED
  BY <1>3, <1>4 DEF DurationCool

LEMMA DurationFetched ==
  ASSUME XInv, NEW r \in Requests, NEW i \in Info, DurationFetch(r, i) PROVE XInv'
<1> USE NoneIsNone
<1> DEFINE v == req[r].v
           s == [title |-> None, desc |-> None, type |-> "youtube", len |-> i.len]
<1>1. /\ UNCHANGED <<row, used, tube, cool, passes>>
      /\ req[r].op = "duration" /\ req[r].at = "fetch"
      /\ v \in ExVideos /\ XTypeOK /\ req[r].set \in Info /\ i \in Truth(v)
  BY SetType DEF DurationFetch, At, XInv, ReqInv, ReqOK, Steps
<1>2. /\ cool' \in [ExVideos -> BOOLEAN] /\ passes' \in [ExVideos -> Nat]
      /\ CallPerCooldown'
  BY <1>1, CoolKept
<1>3. CASE Go(r, "gateway") \/ Go(r, "unchanged")
  BY <1>1, <1>2, <1>3, Apart, QuietStep DEF Go, Answers
<1>4. CASE i.len \notin {None, 0} /\ Move(r, "update", s)
  <2>1. tube[v] = "archived" /\ i.len = Length
    BY <1>1, <1>4 DEF Truth
  <2>2. s \in Info
    BY <2>1 DEF Info, Types
  <2>3. req'[r] = [op |-> req[r].op, at |-> "update", v |-> v, u |-> req[r].u,
                   set |-> s, ask |-> req[r].ask]
    BY <1>1, <1>4, MoveShape
  <2>4. /\ req'[r].op = "duration" /\ req'[r].at = "update" /\ req'[r].v = v
        /\ req'[r].set = [title |-> None, desc |-> None, type |-> "youtube", len |-> Length]
    BY <1>1, <2>1, <2>3
  <2>5. ReqOK(r)'
    BY <1>1, <2>1, <2>4 DEF XInv, ReqInv, ReqOK, Steps, Settled
  <2> QED
    BY <1>1, <1>2, <1>4, <2>2, <2>5, QuietStep DEF Steps
<1> QED
  BY <1>3, <1>4 DEF DurationFetch

LEMMA MetadataFetched ==
  ASSUME XInv, NEW r \in Requests, NEW i \in Info, MetadataFetch(r, i) PROVE XInv'
<1> DEFINE v == req[r].v
           s == Selected(req[r].ask, i)
<1>1. /\ UNCHANGED <<row, used, tube, cool, passes>>
      /\ req[r].op = "metadata" /\ req[r].at = "fetch"
      /\ v \in ExVideos /\ XTypeOK /\ req[r].set \in Info
  BY SetType DEF MetadataFetch, At, XInv, ReqInv, ReqOK, Steps
<1>2. /\ cool' \in [ExVideos -> BOOLEAN] /\ passes' \in [ExVideos -> Nat]
      /\ CallPerCooldown'
  BY <1>1, CoolKept
<1>3. s \in Info /\ s.type = None /\ s.len = None
      /\ (s.title # None => "title" \in req[r].ask) /\ (s.desc # None => "desc" \in req[r].ask)
  BY DEF Selected, Info
<1>4. PICK x \in {"skipped", "update"} : Move(r, x, s)
  BY DEF MetadataFetch
<1> HIDE DEF s
<1>5. req'[r] = [op |-> req[r].op, at |-> x, v |-> v, u |-> req[r].u,
                 set |-> s, ask |-> req[r].ask]
  BY <1>1, <1>4, MoveShape
<1>6. /\ req'[r].op = "metadata" /\ req'[r].at = x /\ req'[r].v = v /\ req'[r].set = s
      /\ req'[r].u = req[r].u /\ req'[r].ask = req[r].ask
  BY <1>1, <1>5
<1>7. ReqOK(r)'
  BY <1>1, <1>3, <1>6 DEF XInv, ReqInv, ReqOK, Steps
<1> QED
  BY <1>1, <1>2, <1>3, <1>4, <1>7, QuietStep DEF Steps, Answers

-----------------------------------------------------------------------------
(* Every other step of a request.                                          *)
LEMMA ContinuesHold == ASSUME XInv, NEW r \in Requests, Continues(r) PROVE XInv'
<1>1. XTypeOK /\ req[r].set \in Info
  BY SetType DEF XInv
<1>2. CASE DurationUpdate(r)
  <2>1. PICK x \in {"updated", "error"} : Go(r, x)
    BY <1>2 DEF DurationUpdate
  <2>2. UNCHANGED <<used, cool, tube, passes>> /\ x \in Answers
    BY <1>2 DEF DurationUpdate, Answers
  <2> QED
    BY <1>2, <2>1, <2>2, DurationForward, WriteStep
<1>3. CASE MetadataUpdate(r)
  <2>1. PICK x \in {"updated", "partial", "error"} : Go(r, x)
    <3>1. PICK a \in {"done", "db"} :
             Go(r, CASE a = "db" -> "error"
                     [] req[r].ask \subseteq Synced(req[r].set) -> "updated"
                     [] OTHER -> "partial")
      BY <1>3 DEF MetadataUpdate
    <3>2. \E x \in {"updated", "partial", "error"} :
             x = CASE a = "db" -> "error"
                   [] req[r].ask \subseteq Synced(req[r].set) -> "updated"
                   [] OTHER -> "partial"
      <4>1. CASE a = "db" \/ req[r].ask \subseteq Synced(req[r].set)
        BY <4>1
      <4>2. CASE ~(a = "db" \/ req[r].ask \subseteq Synced(req[r].set))
        BY <4>2
      <4> QED
        BY <4>1, <4>2
    <3> QED
      BY <3>1, <3>2
  <2>2. UNCHANGED <<used, cool, tube, passes>> /\ x \in Answers
    BY <1>3 DEF MetadataUpdate, Answers
  <2> QED
    BY <1>3, <2>1, <2>2, MetadataForward, WriteStep
<1>4. CASE FetchFails(r) \/ Throws(r)
  <2>1. PICK x \in {"bad", "gateway", "error"} : Move(r, x, req[r].set)
    BY <1>4 DEF FetchFails, Throws, Go
  <2>2. UNCHANGED <<row, used, tube>> /\ UNCHANGED <<cool, passes>>
    BY <1>4 DEF FetchFails, Throws
  <2>3. x \in Answers /\ x \notin Steps
    BY DEF Answers, Steps
  <2>4. /\ cool' \in [ExVideos -> BOOLEAN] /\ passes' \in [ExVideos -> Nat]
        /\ CallPerCooldown'
    BY <2>2, CoolKept
  <2> QED
    BY <1>1, <2>1, <2>2, <2>3, <2>4, QuietStep
<1> QED
  BY <1>2, <1>3, <1>4, PostFetched, PostInserted, CooldownHolds, DurationFetched, MetadataFetched
  DEF Continues

(* The rest of the world, and steps of none.                               *)
LEMMA WorldStep ==
  ASSUME XInv, XTypeOK', CallPerCooldown', Grows, req' = req, \A v \in ExVideos : Forward(v)
  PROVE  XInv'
<1>1. ASSUME NEW r \in Requests PROVE ReqOK(r)'
  BY <1>1, ForwardKeeps DEF XInv, ReqInv, ReqOK
<1>2. PostInv' /\ UsedInv'
  BY DEF XInv, PostInv, Inserting, UsedInv, Forward, Grows
<1> QED
  BY <1>1, <1>2 DEF XInv, ReqInv

LEMMA XInvStep == ASSUME XInv, [XNext]_xvars PROVE XInv'
<1>1. XTypeOK
  BY DEF XInv
<1>2. ASSUME NEW r \in Requests, NEW v \in ExVideos, Arrives(r, v) PROVE XInv'
  BY <1>2, FindsHold, PostBegins DEF Arrives
<1>3. ASSUME NEW v \in ExVideos, NEW f \in {"title", "desc"}, Edited(v, f) PROVE XInv'
  <2>1. UNCHANGED <<used, cool, tube, req, passes>>
    BY <1>3 DEF Edited
  <2>2. /\ row' \in [ExVideos -> Row \cup {NoVideo}]
        /\ \A w \in ExVideos : Forward(w)
    BY <1>3, EditedForward
  <2>3. XTypeOK' /\ CallPerCooldown' /\ Grows
    BY <1>1, <2>1, <2>2, CoolKept DEF XTypeOK, Grows
  <2> QED
    BY <2>1, <2>2, <2>3, WorldStep
<1>4. ASSUME NEW v \in ExVideos, RowDeleted(v) PROVE XInv'
  <2>1. row' = [row EXCEPT ![v] = NoVideo] /\ UNCHANGED <<used, cool, tube, req, passes>>
    BY <1>4 DEF RowDeleted
  <2>2. /\ row' \in [ExVideos -> Row \cup {NoVideo}]
        /\ \A w \in ExVideos : Forward(w)
    BY <1>1, <2>1 DEF XTypeOK, Forward
  <2>3. XTypeOK' /\ CallPerCooldown' /\ Grows
    BY <1>1, <2>1, <2>2, CoolKept DEF XTypeOK, Grows
  <2> QED
    BY <2>1, <2>2, <2>3, WorldStep
<1>5. ASSUME NEW v \in ExVideos, CoolExpires(v) PROVE XInv'
  <2>1. /\ cool' = [cool EXCEPT ![v] = FALSE] /\ passes' = [passes EXCEPT ![v] = 0]
        /\ UNCHANGED <<row, used, tube, req>>
    BY <1>5 DEF CoolExpires
  <2>2. /\ cool' \in [ExVideos -> BOOLEAN] /\ passes' \in [ExVideos -> Nat]
        /\ CallPerCooldown'
    BY <2>1, CoolStep
  <2>3. XTypeOK' /\ Grows /\ \A w \in ExVideos : Forward(w)
    BY <1>1, <2>1, <2>2 DEF XTypeOK, Grows, Forward
  <2> QED
    BY <2>1, <2>2, <2>3, WorldStep
<1>6. ASSUME NEW v \in ExVideos, Broadcast(v) PROVE XInv'
  <2>1. /\ tube[v] # "archived" /\ UNCHANGED <<row, used, cool, req, passes>>
        /\ tube' = [tube EXCEPT ![v] = IF @ = "live" THEN "over" ELSE "archived"]
    BY <1>6 DEF Broadcast
  <2>2. /\ tube' \in [ExVideos -> {"live", "over", "archived"}]
        /\ \A w \in ExVideos : tube[w] = "archived" => tube'[w] = "archived"
    BY <1>1, <2>1 DEF XTypeOK
  <2>3. XTypeOK' /\ CallPerCooldown' /\ Grows /\ \A w \in ExVideos : Forward(w)
    BY <1>1, <2>1, <2>2, CoolKept DEF XTypeOK, Grows, Forward
  <2> QED
    BY <2>1, <2>3, WorldStep
<1>7. CASE UNCHANGED xvars
  <2>1. UNCHANGED <<row, used, cool, tube, req, passes>>
    BY <1>7 DEF xvars
  <2>2. XTypeOK' /\ CallPerCooldown' /\ Grows /\ \A w \in ExVideos : Forward(w)
    BY <1>1, <2>1, CoolKept DEF XTypeOK, Grows, Forward
  <2> QED
    BY <2>1, <2>2, WorldStep
<1> QED
  BY <1>2, <1>3, <1>4, <1>5, <1>6, <1>7, ContinuesHold DEF XNext

LEMMA XInvHolds == XSpec => []XInv
<1>1. XInit => XInv
  <2> SUFFICES ASSUME XInit PROVE XInv
    OBVIOUS
  <2>1. XTypeOK
    BY DEF XInit, XTypeOK, NoRequest, Nothing, Info, Answers
  <2>2. \A r \in Requests : req[r].at \notin Steps
    BY DEF XInit, NoRequest, Steps
  <2>3. ReqInv /\ PostInv
    BY <2>2 DEF ReqInv, ReqOK, PostInv, Inserting
  <2>4. UsedInv /\ CallPerCooldown
    BY DEF XInit, UsedInv, CallPerCooldown
  <2> QED
    BY <2>1, <2>3, <2>4 DEF XInv
<1> QED
  BY <1>1, XInvStep, PTL DEF XSpec

(* Rows, requests, cooldowns and broadcasts keep their types.              *)
THEOREM ExternalTypeCorrect == XSpec => []XTypeOK
BY XInvHolds, PTL DEF XInv

(* However many clients open a video, YouTube is asked once per cooldown.  *)
THEOREM CallsAreRare == XSpec => []CallPerCooldown
BY XInvHolds, PTL DEF XInv

LEMMA KeptStep == ASSUME XInv, XNext PROVE \A v \in ExVideos : ColumnKept(v)
<1>1. \A v \in ExVideos : Forward(v) => ColumnKept(v)
  BY NoneIsNone DEF Forward, ColumnKept, NoVideo
<1>2. CASE row' = row
  BY <1>1, <1>2 DEF Forward
<1>3. ASSUME NEW r \in Requests, DurationUpdate(r) PROVE \A v \in ExVideos : ColumnKept(v)
  BY <1>1, <1>3, DurationForward
<1>4. ASSUME NEW r \in Requests, MetadataUpdate(r) PROVE \A v \in ExVideos : ColumnKept(v)
  BY <1>1, <1>4, MetadataForward
<1>5. ASSUME NEW v \in ExVideos, NEW f \in {"title", "desc"}, Edited(v, f)
      PROVE  \A w \in ExVideos : ColumnKept(w)
  BY <1>1, <1>5, EditedForward
<1>6. ASSUME NEW v \in ExVideos, RowDeleted(v) PROVE \A w \in ExVideos : ColumnKept(w)
  BY <1>1, <1>6 DEF RowDeleted, Forward, XInv, XTypeOK
<1>7. ASSUME NEW r \in Requests, PostInsert(r) PROVE \A v \in ExVideos : ColumnKept(v)
  <2>1. row[req[r].v] = NoVideo
    BY <1>7 DEF PostInsert, At, XInv, ReqInv, ReqOK, Steps
  <2>2. PICK m : row' = [row EXCEPT ![req[r].v] = m]
    BY <1>7 DEF PostInsert
  <2>3. \A v \in ExVideos : row'[v] = row[v] \/ row[v] = NoVideo
    BY <2>1, <2>2 DEF XInv, XTypeOK
  <2>4. \A v \in ExVideos : row[v] = NoVideo => ColumnKept(v)
    BY DEF ColumnKept
  <2> QED
    BY <1>1, <2>3, <2>4 DEF Forward
<1> QED
  BY <1>2, <1>3, <1>4, <1>5, <1>6, <1>7
  DEF XNext, Continues, Arrives, Post, PostFetch, DurationFind, DurationCool, DurationFetch,
      MetadataFind, MetadataFetch, FetchFails, Throws, CoolExpires, Broadcast

(* Handlers that hold a row across a call to YouTube do not undo each      *)
(* other, an edit of the owner or a length that has come.                  *)
THEOREM ColumnsAreKept == XSpec => ColumnsKept
<1>1. XInv /\ [XNext]_xvars => [\A v \in ExVideos : ColumnKept(v)]_xvars
  BY KeptStep
<1> QED
  BY <1>1, XInvHolds, PTL DEF XSpec, ColumnsKept

-----------------------------------------------------------------------------
(* What an answer of traQ is on its way for, and what the cache keeps of   *)
(* it, is Flight ticks old at most when it arrives.                        *)
InFlight ==
    \A r \in Requests :
       fetch[r].at = "got" /\ fetch[r].ver # Empty =>
          fetch[r].ver <= now /\ now - fetch[r].ver <= Flight

KeptSince ==
    \A k \in Items : cache[k] # NoEntry =>
       /\ cache[k].ver <= cache[k].at /\ cache[k].at - cache[k].ver <= Flight
       /\ cache[k].at <= now

SInv == STypeOK /\ InFlight /\ KeptSince /\ AnswerIsRecent /\ EntriesBounded

AskedFor == [at: {"asked"}, key: Items, ver: {None}]
GotAnswer == [at: {"got"}, key: Items, ver: Times \cup {Empty}]

-----------------------------------------------------------------------------
(* The images in the cache are finitely many.                              *)
LEMMA CachedIsFinite ==
  ASSUME NEW c PROVE IsFiniteSet(Cached(c)) /\ Cardinality(Cached(c)) \in Nat
<1>1. Cached(c) \subseteq Stamps
  BY DEF Cached
<1> QED
  BY <1>1, StampAssumption, FS_Subset, FS_CardinalityType

(* No more entries, no more bytes.                                         *)
LEMMA FewerFit ==
  ASSUME NEW c, NEW d, ~TooBig(c), Cardinality(Cached(d)) <= Cardinality(Cached(c))
  PROVE  ~TooBig(d)
<1>1. Cardinality(Cached(c)) \in Nat /\ Cardinality(Cached(d)) \in Nat
  BY CachedIsFinite
<1>2. ASSUME NEW m \in Nat, NEW n \in Nat, NEW e \in Nat, m <= n PROVE m * e <= n * e
  BY <1>2
<1>3. EntrySize \in Nat /\ MaxBytes \in Nat
  BY StampAssumption
<1>4. Cardinality(Cached(d)) * EntrySize <= Cardinality(Cached(c)) * EntrySize
  BY <1>1, <1>2, <1>3
<1>5. ASSUME NEW m \in Nat, NEW n \in Nat, NEW e \in Nat PROVE m * e \in Nat
  BY <1>5
<1> HIDE DEF Cached
<1> QED
  BY <1>1, <1>3, <1>4, <1>5 DEF TooBig

(* The image just stored is one more at most, and one is erased.           *)
LEMMA ErasedFits ==
  ASSUME STypeOK, ~TooBig(cache), NEW k \in Stamps, NEW e,
         NEW s \in Oldest(Put(k, e))
  PROVE  ~TooBig(Without(Put(k, e), s))
<1> DEFINE c == Put(k, e)
           d == Without(c, s)
<1>1. /\ Cached(c) \subseteq Cached(cache) \cup {k}
      /\ s \in Cached(c)
      /\ Cached(d) = Cached(c) \ {s}
  BY DEF Cached, Put, Oldest, Without, STypeOK, Items
<1>2. IsFiniteSet(Cached(c)) /\ IsFiniteSet(Cached(cache))
  BY CachedIsFinite
<1>3. Cardinality(Cached(d)) = Cardinality(Cached(c)) - 1
  BY <1>1, <1>2, FS_RemoveElement
<1>4. Cardinality(Cached(c)) <= Cardinality(Cached(cache)) + 1
  <2>1. /\ IsFiniteSet(Cached(cache) \cup {k})
        /\ Cardinality(Cached(cache) \cup {k}) <= Cardinality(Cached(cache)) + 1
    BY <1>2, FS_AddElement, CachedIsFinite
  <2>2. Cardinality(Cached(c)) <= Cardinality(Cached(cache) \cup {k})
    BY <1>1, <2>1, FS_Subset
  <2>3. /\ Cardinality(Cached(c)) \in Nat /\ Cardinality(Cached(cache)) \in Nat
        /\ Cardinality(Cached(cache) \cup {k}) \in Nat
    BY <2>1, CachedIsFinite, FS_CardinalityType
  <2> QED
    BY <2>1, <2>2, <2>3
<1>5. Cardinality(Cached(d)) <= Cardinality(Cached(cache))
  <2>1. Cardinality(Cached(c)) \in Nat /\ Cardinality(Cached(cache)) \in Nat
    BY CachedIsFinite
  <2> QED
    BY <1>3, <1>4, <2>1
<1> QED
  BY <1>5, FewerFit

-----------------------------------------------------------------------------
LEMMA BoundedIsFitting ==
  ASSUME NEW c
  PROVE  Cardinality(Cached(c)) * EntrySize <= MaxBytes <=> ~TooBig(c)
<1>1. Cardinality(Cached(c)) \in Nat /\ EntrySize \in Nat /\ MaxBytes \in Nat
  BY CachedIsFinite, StampAssumption
<1>2. ASSUME NEW m \in Nat, NEW n \in Nat PROVE m * n \in Nat
  BY <1>2
<1>3. Cardinality(Cached(c)) * EntrySize \in Nat
  BY <1>1, <1>2
<1> HIDE DEF Cached
<1> QED
  BY <1>1, <1>3 DEF TooBig

LEMMA SInitHolds == SInit => SInv
<1> SUFFICES ASSUME SInit PROVE SInv
  OBVIOUS
<1> USE StampAssumption
<1>1. STypeOK
  BY DEF SInit, STypeOK, NoFetch, Times
<1>2. InFlight /\ KeptSince /\ AnswerIsRecent
  BY DEF SInit, InFlight, KeptSince, AnswerIsRecent, NoFetch
<1>3. Cached(cache) = {}
  BY DEF SInit, Cached, Items
<1>4. EntriesBounded
  BY <1>3, FS_EmptySet DEF EntriesBounded
<1> QED
  BY <1>1, <1>2, <1>4 DEF SInv

-----------------------------------------------------------------------------
(* A request that is in the cache, or goes to traQ and comes back.         *)
LEMMA HitStep ==
  ASSUME SInv, NEW r \in Requests, NEW k \in Items, Hit(r, k) PROVE SInv'
<1> USE StampAssumption
<1>1. /\ cache[k] # NoEntry /\ cache[k] \in Entry /\ now - cache[k].at < Period
      /\ now' = now /\ fetch' = fetch
  BY DEF Hit, Valid, SInv, STypeOK
<1>2. PICK u \in Times :
         cache' = [cache EXCEPT ![k] = [ver |-> cache[k].ver, at |-> cache[k].at, used |-> u]]
  BY <1>1 DEF Hit, Put, SInv, STypeOK, Entry
<1>3. [ver |-> cache[k].ver, at |-> cache[k].at, used |-> u] \in Entry
  BY <1>1 DEF Entry
<1>4. cache \in [Items -> Entry \cup {NoEntry}] /\ now \in Times
  BY DEF SInv, STypeOK
<1>5. cache' \in [Items -> Entry \cup {NoEntry}]
  BY <1>2, <1>3, <1>4
<1>6. /\ cache[k].ver <= cache[k].at /\ cache[k].at - cache[k].ver <= Flight
      /\ cache[k].at <= now
  BY <1>1 DEF SInv, KeptSince
<1>7. served' \in Times \cup {None} /\ AnswerIsRecent'
  <2>1. CASE cache[k].ver \in {None, Empty}
    BY <2>1 DEF Hit, Serve, AnswerIsRecent
  <2>2. CASE cache[k].ver \notin {None, Empty}
    <3>1. served' = now - cache[k].ver
      BY <2>2 DEF Hit, Serve
    <3>2. cache[k].ver \in Times /\ cache[k].at \in Times
      BY <1>1 DEF Entry
    <3>3. served' <= Period + Flight
      BY <1>1, <1>4, <1>6, <3>1, <3>2 DEF Times
    <3>4. cache[k].ver <= now
      BY <1>4, <1>6, <3>2 DEF Times
    <3> QED
      BY <1>4, <3>1, <3>2, <3>3, <3>4 DEF Times, AnswerIsRecent
  <2> QED
    BY <2>1, <2>2
<1>8. STypeOK'
  BY <1>1, <1>4, <1>5, <1>7 DEF SInv, STypeOK
<1>9. InFlight' /\ KeptSince'
  <2>1. InFlight'
    BY <1>1 DEF SInv, InFlight
  <2>2. KeptSince'
    BY <1>1, <1>2, <1>4, <1>6 DEF SInv, KeptSince
  <2> QED
    BY <2>1, <2>2
<1>10. EntriesBounded'
  <2>1. Cached(cache') \subseteq Cached(cache)
    BY <1>1, <1>2, <1>4 DEF Cached, Items
  <2>2. Cardinality(Cached(cache')) <= Cardinality(Cached(cache))
    BY <2>1, CachedIsFinite, FS_Subset
  <2>3. ~TooBig(cache')
    BY <2>2, BoundedIsFitting, FewerFit DEF SInv, EntriesBounded
  <2> QED
    BY <2>3, BoundedIsFitting DEF EntriesBounded
<1> QED
  BY <1>7, <1>8, <1>9, <1>10 DEF SInv

(* Steps that leave the cache alone.                                       *)
LEMMA WaitStep ==
  ASSUME SInv, cache' = cache, STypeOK', InFlight', now' >= now, served' = None PROVE SInv'
<1>1. now \in Times /\ now' \in Times /\ cache \in [Items -> Entry \cup {NoEntry}]
  BY DEF SInv, STypeOK
<1>2. KeptSince'
  BY <1>1 DEF SInv, KeptSince, Entry, Times
<1>3. EntriesBounded'
  BY DEF SInv, EntriesBounded, Cached
<1>4. AnswerIsRecent'
  BY DEF AnswerIsRecent
<1> QED
  BY <1>2, <1>3, <1>4 DEF SInv

LEMMA FetchType ==
  ASSUME STypeOK
  PROVE  fetch \in [Requests -> {NoFetch} \cup AskedFor \cup GotAnswer]
BY DEF STypeOK, AskedFor, GotAnswer

LEMMA AskStep ==
  ASSUME SInv, NEW r \in Requests, NEW k \in Items, Ask(r, k) PROVE SInv'
<1>1. fetch \in [Requests -> {NoFetch} \cup AskedFor \cup GotAnswer]
  BY FetchType DEF SInv
<1>2. /\ cache' = cache /\ now' = now /\ served' = None
      /\ fetch' = [fetch EXCEPT ![r] = [at |-> "asked", key |-> k, ver |-> None]]
  BY DEF Ask
<1>3. [at |-> "asked", key |-> k, ver |-> None] \in AskedFor
  BY DEF AskedFor
<1>4. fetch' \in [Requests -> {NoFetch} \cup AskedFor \cup GotAnswer]
  BY <1>1, <1>2, <1>3
<1>5. STypeOK'
  BY <1>2, <1>4 DEF SInv, STypeOK, AskedFor, GotAnswer
<1>6. InFlight'
  BY <1>1, <1>2 DEF SInv, InFlight
<1> QED
  BY <1>2, <1>5, <1>6, WaitStep DEF SInv, STypeOK, Times

LEMMA ReplyStep ==
  ASSUME SInv, NEW r \in Requests, NEW x \in {now, Empty}, Reply(r, x) PROVE SInv'
<1>1. fetch \in [Requests -> {NoFetch} \cup AskedFor \cup GotAnswer] /\ now \in Times
  BY FetchType DEF SInv, STypeOK
<1>2. /\ cache' = cache /\ now' = now /\ served' = None
      /\ fetch' = [fetch EXCEPT ![r] = [at |-> "got", key |-> fetch[r].key, ver |-> x]]
  BY DEF Reply
<1>3. fetch[r].key \in Items
  BY <1>1 DEF Reply, NoFetch, AskedFor, GotAnswer
<1>4. [at |-> "got", key |-> fetch[r].key, ver |-> x] \in GotAnswer
  BY <1>1, <1>3 DEF GotAnswer
<1>5. fetch' \in [Requests -> {NoFetch} \cup AskedFor \cup GotAnswer]
  BY <1>1, <1>2, <1>4
<1>6. STypeOK'
  BY <1>2, <1>5 DEF SInv, STypeOK, AskedFor, GotAnswer
<1>7. InFlight'
  <2> SUFFICES ASSUME NEW q \in Requests, fetch'[q].at = "got" /\ fetch'[q].ver # Empty
               PROVE fetch'[q].ver <= now /\ now - fetch'[q].ver <= Flight
    BY <1>2 DEF InFlight
  <2>1. CASE q = r
    BY <1>1, <1>2, <2>1, StampAssumption DEF Times
  <2>2. CASE q # r
    <3>1. fetch'[q] = fetch[q]
      BY <1>1, <1>2, <2>2
    <3> QED
      BY <3>1 DEF SInv, InFlight
  <2> QED
    BY <2>1, <2>2
<1> QED
  BY <1>1, <1>2, <1>6, <1>7, WaitStep DEF Times

LEMMA ErrorStep == ASSUME SInv, NEW r \in Requests, ReplyError(r) PROVE SInv'
<1>1. fetch \in [Requests -> {NoFetch} \cup AskedFor \cup GotAnswer] /\ now \in Times
  BY FetchType DEF SInv, STypeOK
<1>2. /\ cache' = cache /\ now' = now /\ served' = None
      /\ fetch' = [fetch EXCEPT ![r] = NoFetch]
  BY DEF ReplyError, Serve
<1>3. fetch' \in [Requests -> {NoFetch} \cup AskedFor \cup GotAnswer]
  BY <1>1, <1>2
<1>4. STypeOK'
  BY <1>2, <1>3 DEF SInv, STypeOK, AskedFor, GotAnswer
<1>5. InFlight'
  BY <1>1, <1>2 DEF SInv, InFlight, NoFetch
<1> QED
  BY <1>1, <1>2, <1>4, <1>5, WaitStep DEF Times

LEMMA TickStep == ASSUME SInv, Tick PROVE SInv'
<1> USE StampAssumption
<1>1. fetch \in [Requests -> {NoFetch} \cup AskedFor \cup GotAnswer] /\ now \in Times
  BY FetchType DEF SInv, STypeOK
<1>2. /\ cache' = cache /\ now' = now + 1 /\ served' = None /\ fetch' = fetch
      /\ now + 1 \in Times
  BY <1>1 DEF Tick, Times
<1>3. STypeOK'
  BY <1>2 DEF SInv, STypeOK
<1>4. InFlight'
  <2> SUFFICES ASSUME NEW q \in Requests, fetch'[q].at = "got" /\ fetch'[q].ver # Empty
               PROVE fetch'[q].ver <= now' /\ now' - fetch'[q].ver <= Flight
    BY DEF InFlight
  <2>0. fetch'[q] = fetch[q] /\ fetch[q].at = "got" /\ fetch[q].ver # Empty
    BY <1>2
  <2>1. fetch[q].ver \in Times
    BY <1>1, <2>0 DEF NoFetch, AskedFor, GotAnswer
  <2>2. now - fetch[q].ver < Flight
    BY <2>0 DEF Tick
  <2>3. fetch[q].ver <= now
    BY <2>0 DEF SInv, InFlight
  <2> QED
    BY <1>1, <1>2, <2>0, <2>1, <2>2, <2>3, Z3 DEF Times
<1> QED
  BY <1>1, <1>2, <1>3, <1>4, WaitStep DEF Times

-----------------------------------------------------------------------------
(* An answer that is stored.                                               *)
LEMMA StoreAnswerStep == ASSUME SInv, NEW r \in Requests, StoreAnswer(r) PROVE SInv'
<1> USE StampAssumption
<1> DEFINE k == fetch[r].key
           e == IF fetch[r].ver = Empty THEN NoEntry
                ELSE [ver |-> fetch[r].ver, at |-> now, used |-> now]
           c == Put(k, e)
<1>1. /\ fetch \in [Requests -> {NoFetch} \cup AskedFor \cup GotAnswer] /\ now \in Times
      /\ cache \in [Items -> Entry \cup {NoEntry}]
  BY FetchType DEF SInv, STypeOK
<1>2. /\ fetch[r].at = "got" /\ now' = now /\ Serve(fetch[r].ver)
      /\ fetch' = [fetch EXCEPT ![r] = NoFetch]
  BY DEF StoreAnswer
<1>3. k \in Items /\ fetch[r].ver \in Times \cup {Empty}
  BY <1>1, <1>2 DEF NoFetch, AskedFor, GotAnswer
<1>4. /\ e \in Entry \cup {NoEntry}
      /\ e # NoEntry => e.at = now /\ e.ver <= now /\ now - e.ver <= Flight
  <2>1. CASE fetch[r].ver = Empty
    BY <2>1
  <2>2. CASE fetch[r].ver # Empty
    <3>1. fetch[r].ver <= now /\ now - fetch[r].ver <= Flight
      BY <1>2, <2>2 DEF SInv, InFlight
    <3> QED
      BY <1>1, <1>3, <2>2, <3>1 DEF Entry
  <2> QED
    BY <2>1, <2>2
<1>5. cache' = c \/ \E s \in Stamps : cache' = Without(c, s)
  BY DEF StoreAnswer, Oldest, Cached
<1>6. \A i \in Items : cache'[i] \in {cache[i], e, NoEntry}
  BY <1>1, <1>3, <1>5 DEF Put, Without, Items
<1>7. cache' \in [Items -> Entry \cup {NoEntry}]
  <2>1. c \in [Items -> Entry \cup {NoEntry}]
    BY <1>1, <1>4 DEF Put
  <2> HIDE DEF c, e
  <2> QED
    BY <1>5, <2>1 DEF Without
<1>8. fetch' \in [Requests -> {NoFetch} \cup AskedFor \cup GotAnswer]
  BY <1>1, <1>2
<1>9. served' \in Times \cup {None} /\ AnswerIsRecent'
  <2>1. CASE fetch[r].ver \in {None, Empty}
    BY <1>2, <2>1 DEF Serve, AnswerIsRecent
  <2>2. CASE fetch[r].ver \notin {None, Empty}
    <3>1. served' = now - fetch[r].ver /\ fetch[r].ver \in Times
      BY <1>2, <1>3, <2>2 DEF Serve
    <3>2. fetch[r].ver <= now /\ now - fetch[r].ver <= Flight
      BY <1>2, <2>2 DEF SInv, InFlight
    <3> QED
      BY <1>1, <3>1, <3>2 DEF Times, AnswerIsRecent
  <2> QED
    BY <2>1, <2>2
<1>10. STypeOK'
  BY <1>1, <1>2, <1>7, <1>8, <1>9 DEF STypeOK, AskedFor, GotAnswer
<1>11. InFlight'
  BY <1>1, <1>2 DEF SInv, InFlight, NoFetch
<1>12. KeptSince'
  <2> SUFFICES ASSUME NEW i \in Items, cache'[i] # NoEntry
               PROVE /\ cache'[i].ver <= cache'[i].at /\ cache'[i].at - cache'[i].ver <= Flight
                     /\ cache'[i].at <= now
    BY <1>2 DEF KeptSince
  <2>1. CASE cache'[i] = cache[i]
    BY <2>1 DEF SInv, KeptSince
  <2>2. CASE cache'[i] = e
    <3> HIDE DEF e
    <3> QED
      BY <1>1, <1>4, <2>2 DEF Times
  <2> HIDE DEF e
  <2> QED
    BY <1>6, <2>1, <2>2
<1>13. EntriesBounded'
  <2>0. ~TooBig(cache)
    BY BoundedIsFitting DEF SInv, EntriesBounded
  <2>1. CASE k = All /\ cache' = c
    <3>1. Cached(cache') = Cached(cache)
      BY <1>1, <2>1 DEF Cached, Put, Items
    <3> QED
      BY <3>1 DEF SInv, EntriesBounded
  <2>2. CASE ~TooBig(c) /\ cache' = c
    BY <2>2, BoundedIsFitting DEF EntriesBounded
  <2>3. CASE k # All /\ \E s \in Oldest(c) : cache' = Without(c, s)
    <3>1. k \in Stamps
      BY <1>3, <2>3 DEF Items
    <3>2. ~TooBig(cache')
      BY <2>0, <2>3, <3>1, ErasedFits DEF SInv
    <3> QED
      BY <3>2, BoundedIsFitting DEF EntriesBounded
  <2> QED
    BY <2>1, <2>2, <2>3 DEF StoreAnswer
<1> QED
  BY <1>9, <1>10, <1>11, <1>12, <1>13 DEF SInv

-----------------------------------------------------------------------------
LEMMA SInvHolds == SSpec => []SInv
<1>1. SInv /\ [SNext]_svars => SInv'
  <2> SUFFICES ASSUME SInv, [SNext]_svars PROVE SInv'
    OBVIOUS
  <2>1. CASE UNCHANGED svars
    <3>1. UNCHANGED <<now, cache, fetch, served>>
      BY <2>1 DEF svars
    <3> QED
      BY <3>1 DEF SInv, STypeOK, InFlight, KeptSince, AnswerIsRecent, EntriesBounded, Cached
  <2> QED
    BY <2>1, HitStep, AskStep, ReplyStep, ErrorStep, TickStep, StoreAnswerStep DEF SNext
<1> QED
  BY <1>1, SInitHolds, PTL DEF SSpec

(* The clock, the cache and the requests keep their types.                 *)
THEOREM StampsTypeCorrect == SSpec => []STypeOK
BY SInvHolds, PTL DEF SInv

(* No answer is older than the two weeks and the way it took, whatever     *)
(* requests fetched at once and in whichever order they stored.            *)
THEOREM AnswersAreRecent == SSpec => []AnswerIsRecent
BY SInvHolds, PTL DEF SInv

(* Any number of requests that store at once keep to the limit.            *)
THEOREM EntriesAreBounded == SSpec => []EntriesBounded
BY SInvHolds, PTL DEF SInv

-----------------------------------------------------------------------------
(* Each part starts as it does on its own, and a step is one of a part or  *)
(* leaves it alone.                                                        *)
LEMMA PartsStart ==
  ServicesInit => XInit /\ SInit /\ RowsInit /\ PInit /\ BInit /\ LInit
BY DEF ServicesInit, XRest, RowsRest, BRest, LRest, LSome

LEMMA PartsStep ==
  ASSUME [ServicesNext]_<<part, xvars, svars, rvars, pvars, bvars, lvars>>
  PROVE  /\ [XNext]_xvars /\ [SNext]_svars /\ [RowsNext]_rvars
         /\ [PNext]_pvars /\ [BNext]_bvars /\ [LNext]_lvars
BY DEF ServicesNext

(* A behaviour of all the services is one of each, so that what is proved  *)
(* of one holds for them together.                                         *)
THEOREM ServicesAreEach ==
  ServicesSpec => XSpec /\ SSpec /\ RowsSpec /\ PSpec /\ BSpec /\ LSpec
BY PartsStart, PartsStep, PTL DEF ServicesSpec, XSpec, SSpec, RowsSpec, PSpec, BSpec, LSpec

(* Every variable of the six services keeps its type.                      *)
THEOREM ServicesTypeCorrect == ServicesSpec => []ServicesTypeOK
<1>1. XTypeOK /\ STypeOK /\ RowsTypeOK /\ PTypeOK /\ BTypeOK /\ LTypeOK => ServicesTypeOK
  BY DEF ServicesTypeOK
<1> QED
  BY <1>1, ServicesAreEach, ExternalTypeCorrect, StampsTypeCorrect, RowsTypeCorrect,
     ProgressTypeCorrect, PlaybackTypeCorrect, ListTypeCorrect, PTL
=============================================================================
