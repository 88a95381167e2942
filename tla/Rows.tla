---------------------------------- MODULE Rows ----------------------------------
(***************************************************************************)
(* How a row gets into the database and back: the classes in models/ that  *)
(* drogon_ctl has generated from init.sql, and the handlers that use them. *)
(* A class keeps a value per column and a dirty flag per setter            *)
(* called; a statement and the arguments bound to it are built by two      *)
(* functions each, which have to go through the columns in step.           *)
(*                                                                         *)
(* The functions of each class that a handler reaches are here, with the   *)
(* columns they go through.  Values are marks of who wrote which column.   *)
(* External: drogon's CoroMapper (insert, then SELECT by the key if        *)
(* needSelection; update of the dirty columns), and what MySQL does with a *)
(* statement and its arguments.                                            *)
(***************************************************************************)
EXTENDS Lists, SequencesExt

CONSTANTS Handlers, Keys,
          Null, Default,   \* NULL, and what the table's DEFAULT clause gives
          Absent           \* no row, no object

-----------------------------------------------------------------------------
(* The common scheme of the generated functions, over the columns cs.      *)

New(C) == [val |-> [c \in C |-> Null], dirty |-> {}]

(* The values v, with those of s in their place.                           *)
With(v, s) == [c \in DOMAIN v |-> IF c \in DOMAIN s THEN s[c] ELSE v[c]]

(* From a result row: nothing is dirty.                                    *)
Read(cs, r) == [val |-> [c \in ToSet(cs) |-> r[c]], dirty |-> {}]

(* The setters of the columns of s, called on o.                           *)
Set(o, s) == [val |-> With(o.val, s), dirty |-> o.dirty \cup DOMAIN s]

(* The values of the columns of cs, except those of auto, that are dirty.  *)
Args(o, cs, auto) ==
    LET d == Only(cs, o.dirty \ auto) IN [i \in DOMAIN d |-> o.val[d[i]]]

SetId(o, c, id) == [val |-> With(o.val, [x \in {c} |-> id]), dirty |-> o.dirty]

(* A column with a default is always named, with the word default where it *)
(* is not set; the id of an AUTO_INCREMENT never has an argument.          *)
Insert(o, cs, auto, defs) ==
    LET named == Only(cs, auto \cup defs \cup o.dirty) IN
    [cols |-> named,
     marks |-> [i \in DOMAIN named |->
                  IF named[i] \in o.dirty \ auto THEN "?" ELSE "default"],
     select |-> auto # {} \/ ~(defs \subseteq o.dirty)]

-----------------------------------------------------------------------------
(* videos                                                                  *)

VideosColumns == <<"video_id", "user_id", "title", "description", "thumbnail_url",
                   "video_url", "created_at", "view_count", "duration", "like_count",
                   "status", "is_external", "type">>
VideosDefaults == {"created_at", "view_count", "duration", "like_count", "status",
                   "is_external", "type"}

(* Slip: what is read counts as set, so an update writes it all back.      *)
VideosReadDirty(r) == [val |-> r, dirty |-> ToSet(VideosColumns)]

VideosRead(r) == Read(VideosColumns, r)
VideosSet(o, s) == Set(o, s)
VideosSql(o) == Insert(o, VideosColumns, {}, VideosDefaults)

(* Slip: the columns that have a default are left out.                     *)
VideosArgsAsked(o) == Args(o, VideosColumns, VideosDefaults)

VideosOutputArgs(o) == Args(o, VideosColumns, {})
VideosUpdateColumns(o) == Only(VideosColumns, o.dirty)
VideosUpdateArgs(o) == Args(o, VideosColumns, {})
VideosToJson(o) == o.val

(* comments                                                                *)

CommentsColumns == <<"comment_id", "video_id", "user_id", "comment", "timestamp",
                     "created_at", "command", "status">>
CommentsRead(r) == Read(CommentsColumns, r)
CommentsSet(o, s) == Set(o, s)
CommentsSql(o) == Insert(o, CommentsColumns, {"comment_id"}, {"created_at", "status"})
CommentsOutputArgs(o) == Args(o, CommentsColumns, {"comment_id"})

CommentsUpdateId(o, id) == SetId(o, "comment_id", id)
CommentsToJson(o) == o.val

(* tags                                                                    *)

TagsColumns == <<"tag_id", "name">>

TagsRead(r) == Read(TagsColumns, r)
TagsSet(o, s) == Set(o, s)
TagsSql(o) == Insert(o, TagsColumns, {"tag_id"}, {})
TagsOutputArgs(o) == Args(o, TagsColumns, {"tag_id"})
TagsUpdateId(o, id) == SetId(o, "tag_id", id)
TagsToJson(o) == o.val

(* video_tags                                                              *)

VideoTagsColumns == <<"video_id", "tag_id", "status">>
VideoTagsRead(r) == Read(VideoTagsColumns, r)
VideoTagsSet(o, s) == Set(o, s)
VideoTagsSql(o) == Insert(o, VideoTagsColumns, {}, {"status"})
VideoTagsOutputArgs(o) == Args(o, VideoTagsColumns, {})

(* video_likes                                                             *)

VideoLikesColumns == <<"video_id", "user_id", "created_at">>
VideoLikesRead(r) == Read(VideoLikesColumns, r)
VideoLikesSet(o, s) == Set(o, s)
VideoLikesSql(o) == Insert(o, VideoLikesColumns, {}, {"created_at"})
VideoLikesOutputArgs(o) == Args(o, VideoLikesColumns, {})

-----------------------------------------------------------------------------
(* The columns each handler sets before it inserts or updates.             *)

PostedVideo == {"video_id", "created_at", "view_count", "title", "description",
                "user_id", "status", "video_url", "thumbnail_url"}
PostedExVideo == {"video_id", "created_at", "view_count", "is_external", "video_url",
                  "thumbnail_url", "type", "title", "description", "duration",
                  "user_id", "status"}
PostedComment == {"video_id", "comment", "user_id", "created_at", "timestamp", "command"}
AddedTag == {"name"}
AddedVideoTag == {"video_id", "tag_id"}
AddedLike == {"video_id", "user_id", "created_at"}

Uploaded == {"status"}
Encoded == {"status", "duration"}
Texts == SUBSET {"title", "description"} \ {{}}   \* patchVideo, metadata refresh
Archived == {"duration", "type"}
Flushed == {"view_count"}

Tables == {"videos", "comments", "tags", "video_tags", "video_likes"}

Creates(t) == CASE t = "videos" -> {PostedVideo, PostedExVideo}
                [] t = "comments" -> {PostedComment}
                [] t = "tags" -> {AddedTag}
                [] t = "video_tags" -> {AddedVideoTag}
                [] t = "video_likes" -> {AddedLike}
Saves(t) == IF t = "videos" THEN {Uploaded, Encoded, Archived} \cup Texts ELSE {}

(* The schema: docker/init.sql.                                            *)
Columns(t) == CASE t = "videos" -> ToSet(VideosColumns)
                [] t = "comments" -> ToSet(CommentsColumns)
                [] t = "tags" -> {"tag_id", "name"}
                [] t = "video_tags" -> {"video_id", "tag_id", "status"}
                [] t = "video_likes" -> {"video_id", "user_id", "created_at"}
Defaults(t) == Columns(t) \cap (VideosDefaults \cup {"status"})
AutoKey(t) == CASE t = "comments" -> {"comment_id"} [] t = "tags" -> {"tag_id"}
             [] OTHER -> {}
NotNull(t) == CASE t = "videos" -> Columns(t) \ {"user_id", "description",
                                                 "thumbnail_url", "created_at"}
                [] t = "comments" -> {"comment_id", "comment", "timestamp", "status"}
                [] OTHER -> Columns(t) \ {"created_at"}

(* What is written is neither NULL nor a default.                          *)
Mark(h, c) == <<h, c>>
ASSUME RowsAssumption ==
    /\ Default # Null
    /\ \A t \in Tables : \A c \in Columns(t), h \in Handlers \cup Keys : Mark(h, c) # Null

-----------------------------------------------------------------------------
(* The class of table t.                                                   *)

FromRow(t, r) == CASE t = "videos" -> VideosRead(r)
                   [] t = "comments" -> CommentsRead(r)
                   [] t = "tags" -> TagsRead(r)
                   [] t = "video_tags" -> VideoTagsRead(r)
                   [] t = "video_likes" -> VideoLikesRead(r)
Assign(t, o, s) == CASE t = "videos" -> VideosSet(o, s)
                     [] t = "comments" -> CommentsSet(o, s)
                     [] t = "tags" -> TagsSet(o, s)
                     [] t = "video_tags" -> VideoTagsSet(o, s)
                     [] t = "video_likes" -> VideoLikesSet(o, s)
InsertSql(t, o) == CASE t = "videos" -> VideosSql(o)
                     [] t = "comments" -> CommentsSql(o)
                     [] t = "tags" -> TagsSql(o)
                     [] t = "video_tags" -> VideoTagsSql(o)
                     [] t = "video_likes" -> VideoLikesSql(o)
OutputArgs(t, o) == CASE t = "videos" -> VideosOutputArgs(o)
                      [] t = "comments" -> CommentsOutputArgs(o)
                      [] t = "tags" -> TagsOutputArgs(o)
                      [] t = "video_tags" -> VideoTagsOutputArgs(o)
                      [] t = "video_likes" -> VideoLikesOutputArgs(o)
UpdateId(t, o, id) == CASE t = "comments" -> CommentsUpdateId(o, id)
                        [] t = "tags" -> TagsUpdateId(o, id)
                        [] OTHER -> o
ToJson(t, o) == CASE t = "videos" -> VideosToJson(o)
                  [] t = "comments" -> CommentsToJson(o)
                  [] t = "tags" -> TagsToJson(o)
                  [] OTHER -> o.val     \* no handler answers with these

-----------------------------------------------------------------------------
VARIABLES table,   \* the table the behaviour is about
          rows,    \* rows[k]: a row, as MySQL has it
          job,     \* job[h]: a handler, the object it holds, what it has set
          refused  \* MySQL has refused a statement for its columns

rvars == <<table, rows, job, refused>>

Marks(h, C) == [c \in C |-> Mark(h, c)]
Job(x, k, o, C) == [at |-> x, k |-> k, o |-> o, set |-> C]
Idle == Job("idle", Absent, Absent, {})

(* A column only ever holds what was meant for it.                         *)
Fine(t, r) == /\ DOMAIN r = Columns(t)
              /\ \A c \in Columns(t) :
                    r[c] \in {Null, Default} \cup {Mark(x, c) : x \in Handlers \cup Keys}

RowsTypeOK ==
    /\ table \in Tables
    /\ \A k \in Keys : rows[k] = Absent \/ Fine(table, rows[k])
    /\ \A h \in Handlers : LET j == job[h] IN
          /\ j.at \in {"idle", "inserted", "held", "answered", "done", "lost"}
          /\ j.k \in Keys \cup {Absent} /\ j.set \subseteq Columns(table)
          /\ \/ j.o = Absent
             \/ Fine(table, j.o.val) /\ j.o.dirty \subseteq Columns(table)
    /\ refused \in BOOLEAN

RowsInit ==
    /\ table \in Tables
    /\ rows = [k \in Keys |-> Absent]
    /\ job = [h \in Handlers |-> Idle]
    /\ refused = FALSE

(* MySQL: the i-th ? takes the i-th argument.                              *)
Asked(q) == {i \in DOMAIN q.marks : q.marks[i] = "?"}
Bound(q, args, i) == args[Rank(Asked(q), i)]
Fits(t, r) == \A c \in NotNull(t) : r[c] # Null
Inserted(t, q, args, id) ==
    LET at(c) == CHOOSE i \in DOMAIN q.cols : q.cols[i] = c IN
    [c \in Columns(t) |->
       CASE c \in ToSet(q.cols) /\ q.marks[at(c)] = "?" -> Bound(q, args, at(c))
         [] c \in AutoKey(t) /\ (c \notin ToSet(q.cols) \/ q.marks[at(c)] # "?") -> Mark(id, c)
         [] OTHER -> IF c \in Defaults(t) THEN Default ELSE Null]

(* A handler makes an object, sets its columns and inserts it.             *)
InsertRow(h, k, C) ==
    LET o == Assign(table, New(Columns(table)), Marks(h, C))
        q == InsertSql(table, o)
        args == OutputArgs(table, o)
        r == Inserted(table, q, args, k)
    IN
    /\ job[h].at = "idle" /\ C \in Creates(table)
    /\ \A g \in Handlers : job[g].k # k      \* no key is given out twice
    /\ IF Len(args) = Cardinality(Asked(q)) /\ Fits(table, r)
       THEN rows' = [rows EXCEPT ![k] = r] /\ refused' = refused
       ELSE refused' = TRUE /\ rows' = rows
    /\ job' = [job EXCEPT ![h] =
                 Job(IF q.select THEN "inserted" ELSE "answered", k,
                     UpdateId(table, o, IF AutoKey(table) = {} THEN 0
                                        ELSE Mark(k, CHOOSE c \in AutoKey(table) : TRUE)), C)]
    /\ UNCHANGED table

(* The mapper reads the new row; postVideos and postExVideo answer with    *)
(* the object they have inserted and not with this one.                    *)
SelectRow(h) ==
    LET k == job[h].k IN
    /\ job[h].at = "inserted"
    /\ job' = [job EXCEPT ![h] =
                 IF rows[k] = Absent THEN Job("lost", k, @.o, @.set)
                 ELSE Job("answered", k,
                          IF table = "videos" THEN @.o ELSE FromRow(table, rows[k]), @.set)]
    /\ UNCHANGED <<table, rows, refused>>

FindRow(h, k) ==
    /\ table = "videos" /\ job[h].at = "idle" /\ rows[k] # Absent
    /\ job' = [job EXCEPT ![h] = Job("held", k, FromRow(table, rows[k]), {})]
    /\ UNCHANGED <<table, rows, refused>>

(* Sets columns of the copy and updates the row by it, if it is there.     *)
SaveRow(h, C) ==
    LET k == job[h].k
        o == Assign(table, job[h].o, Marks(h, C))
        cs == VideosUpdateColumns(o)
        args == VideosUpdateArgs(o)
        r == With(rows[k], [c \in ToSet(cs) |-> args[CHOOSE i \in DOMAIN cs : cs[i] = c]])
    IN
    /\ job[h].at = "held" /\ C \in Saves(table)
    /\ rows' = IF rows[k] = Absent \/ Len(args) < Len(cs) THEN rows
               ELSE [rows EXCEPT ![k] = r]
    /\ refused' = (refused \/ Len(args) # Len(cs) \/ (rows[k] # Absent /\ ~Fits(table, r)))
    /\ job' = [job EXCEPT ![h] = Job("answered", k, o, C)]
    /\ UNCHANGED table

(* The flush of views adds to the column by a statement of its own.        *)
FlushRow(h, k) ==
    /\ table = "videos" /\ job[h].at = "idle" /\ rows[k] # Absent
    /\ rows' = [rows EXCEPT ![k] = With(rows[k], Marks(h, Flushed))]
    /\ job' = [job EXCEPT ![h] = Job("done", k, Absent, Flushed)]
    /\ UNCHANGED <<table, refused>>

DeleteRow(k) ==
    /\ rows[k] # Absent
    /\ rows' = [rows EXCEPT ![k] = Absent]
    /\ UNCHANGED <<table, job, refused>>

RowsNext ==
    \/ \E h \in Handlers :
          \/ SelectRow(h)
          \/ \E C \in Saves(table) : SaveRow(h, C)
          \/ \E k \in Keys : \/ FindRow(h, k) \/ FlushRow(h, k)
                             \/ \E C \in Creates(table) : InsertRow(h, k, C)
    \/ \E k \in Keys : DeleteRow(k)

RowsSpec == RowsInit /\ [][RowsNext]_rvars

-----------------------------------------------------------------------------
(* Properties                                                              *)

(* No statement is refused for its columns or arguments, and what a        *)
(* handler has set comes back in its answer as it was set, a comment or a  *)
(* tag with the id it has got (the id is what the clients delete a comment *)
(* by, and what addTag links).                                             *)
AnswerIsOwn ==
    /\ ~refused
    /\ \A h \in Handlers : job[h].at = "answered" =>
          LET a == ToJson(table, job[h].o) IN
          /\ \A c \in job[h].set : a[c] = Mark(h, c)
          /\ \A c \in AutoKey(table) : a[c] = Mark(job[h].k, c)

(* The classes keep what a table promises: a handler that holds a copy of  *)
(* a row, read before other handlers and the flush of views wrote to it,   *)
(* changes the columns it has set and gives no other back its old value.   *)
Writes(t) == Saves(t) \cup IF t = "videos" THEN {Flushed} ELSE {}
Store == INSTANCE RowStore WITH
    Writers <- Handlers, Schemas <- Tables, Cols <- Columns, Creating <- Creates,
    Writing <- Writes, Defaulted <- Defaults, Wrote <- Mark, Key <- Mark
RowsAreKept == Store!StoreSpec
=============================================================================
