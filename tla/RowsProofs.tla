------------------------------ MODULE RowsProofs -------------------------------
(***************************************************************************)
(* Proofs about Lists, and about Rows for any tables, any number of        *)
(* objects and any calls on them.                                          *)
(***************************************************************************)
EXTENDS Rows, FiniteSetTheorems, TLAPS

(* The places of a finite part of 1..m are numbered by their ranks, in     *)
(* their order, each number once.                                          *)
LEMMA RankIsPlace ==
  ASSUME NEW m \in Nat, NEW I \in SUBSET (1..m)
  PROVE  /\ IsFiniteSet(I) /\ Cardinality(I) \in Nat
         /\ \A i \in I : Rank(I, i) \in 1..Cardinality(I)
         /\ \A i, j \in I : i < j => Rank(I, i) < Rank(I, j)
         /\ \A n \in 1..Cardinality(I) : \E i \in I : Rank(I, i) = n
<1> DEFINE Upto(i) == {j \in I : j <= i}
<1>1. IsFiniteSet(I) /\ Cardinality(I) \in Nat
  <2>1. IsFiniteSet(1..m)
    BY FS_Interval
  <2>2. IsFiniteSet(I)
    BY <2>1, FS_Subset
  <2> QED
    BY <2>2, FS_CardinalityType
<1>2. \A i \in I : /\ IsFiniteSet(Upto(i)) /\ Cardinality(Upto(i)) \in Nat
                   /\ Cardinality(Upto(i)) <= Cardinality(I)
  <2>1. \A i \in I : Upto(i) \in SUBSET I
    OBVIOUS
  <2> QED
    BY <1>1, <2>1, FS_Subset, FS_CardinalityType
<1>3. ASSUME NEW i \in I PROVE Rank(I, i) \in 1..Cardinality(I)
  <2>1. Cardinality(Upto(i)) # 0
    <3>1. i \in Upto(i)
      OBVIOUS
    <3> QED
      BY <1>2, <3>1, FS_EmptySet
  <2> QED
    BY <1>1, <1>2, <2>1 DEF Rank
<1>4. ASSUME NEW i \in I, NEW j \in I, i < j PROVE Rank(I, i) < Rank(I, j)
  <2>1. Upto(i) \in SUBSET Upto(j) /\ j \in Upto(j) /\ j \notin Upto(i)
    <3>1. i \in Int /\ j \in Int /\ \A k \in I : k \in Int
      OBVIOUS
    <3>2. \A k \in I : k <= i => k <= j
      BY <1>4, <3>1
    <3>3. ~(j <= i) /\ j <= j
      BY <1>4, <3>1
    <3> QED
      BY <3>2, <3>3
  <2>2. Cardinality(Upto(i)) <= Cardinality(Upto(j)) /\ Cardinality(Upto(i)) # Cardinality(Upto(j))
    BY <1>2, <2>1, FS_Subset
  <2> QED
    BY <1>2, <2>2 DEF Rank
<1>5. ASSUME NEW n \in 1..Cardinality(I) PROVE \E i \in I : Rank(I, i) = n
  <2> DEFINE T == 1..Cardinality(I)
             f == [i \in I |-> Rank(I, i)]
  <2>1. f \in [I -> T]
    BY <1>3
  <2>2. \A i, j \in I : f[i] = f[j] => i = j
    <3>1. ASSUME NEW i \in I, NEW j \in I, i # j PROVE f[i] # f[j]
      <4>1. i < j \/ j < i
        BY <3>1
      <4>2. Rank(I, i) \in Int /\ Rank(I, j) \in Int
        BY <1>3
      <4> QED
        BY <1>4, <4>1, <4>2
    <3> QED
      BY <3>1
  <2>3. IsFiniteSet(T) /\ Cardinality(T) = Cardinality(I)
    BY <1>1, FS_Interval
  <2> HIDE DEF f
  <2>4. f \in Injection(I, T)
    BY <2>1, <2>2 DEF Injection, IsInjective
  <2>5. f \in Surjection(I, T)
    BY <2>3, <2>4, FS_Injection
  <2> QED
    BY <2>5 DEF Surjection, f
<1> QED
  BY <1>1, <1>3, <1>4, <1>5

(* What is kept has as many elements as there are places, each where the   *)
(* rank of its place says.                                                 *)
LEMMA KeptIsThere ==
  ASSUME NEW S, NEW s \in Seq(S), NEW I \in SUBSET (DOMAIN s)
  PROVE  /\ Kept(s, I) \in Seq(S) /\ DOMAIN Kept(s, I) = 1..Cardinality(I)
         /\ Len(Kept(s, I)) = Cardinality(I)
         /\ \A i \in I : Rank(I, i) \in 1..Cardinality(I) /\ Kept(s, I)[Rank(I, i)] = s[i]
         /\ \A n \in 1..Cardinality(I) : \E i \in I : Rank(I, i) = n /\ Kept(s, I)[n] = s[i]
<1>1. Len(s) \in Nat /\ I \in SUBSET (1..Len(s))
  OBVIOUS
<1>2. /\ IsFiniteSet(I) /\ Cardinality(I) \in Nat
      /\ \A i \in I : Rank(I, i) \in 1..Cardinality(I)
      /\ \A i, j \in I : i < j => Rank(I, i) < Rank(I, j)
      /\ \A n \in 1..Cardinality(I) : \E i \in I : Rank(I, i) = n
  BY <1>1, RankIsPlace
<1> DEFINE at(n) == CHOOSE i \in I : Rank(I, i) = n
<1>3. \A n \in 1..Cardinality(I) : at(n) \in I /\ Rank(I, at(n)) = n
  BY <1>2
<1>4. \A i \in I : at(Rank(I, i)) = i
  <2>1. ASSUME NEW i \in I, at(Rank(I, i)) # i PROVE FALSE
    <3> DEFINE j == at(Rank(I, i))
    <3>1. j \in I /\ Rank(I, j) = Rank(I, i) /\ Rank(I, i) \in Int
      BY <1>2, <1>3
    <3>2. i \in Int /\ j \in Int /\ i # j
      BY <1>1, <2>1, <3>1
    <3> HIDE DEF j
    <3>3. i < j \/ j < i
      BY <3>2
    <3> QED
      BY <1>2, <3>1, <3>3
  <2> QED
    BY <2>1
<1> DEFINE K == [n \in 1..Cardinality(I) |-> s[at(n)]]
<1>5. K = Kept(s, I)
  BY DEF Kept
<1> HIDE DEF at
<1>6. \A n \in 1..Cardinality(I) : s[at(n)] \in S
  BY <1>1, <1>3
<1>7. K \in [1..Cardinality(I) -> S]
  BY <1>6
<1>8. K \in Seq(S) /\ Len(K) = Cardinality(I) /\ DOMAIN K = 1..Cardinality(I)
  BY <1>2, <1>7
<1> QED
  BY <1>2, <1>3, <1>4, <1>5, <1>8

(* The places of a selection, and of a selection of what is left.          *)
LEMMA OnlyIsThere ==
  ASSUME NEW S, NEW s \in Seq(S), NEW A,
         \A i, j \in DOMAIN s : s[i] = s[j] => i = j
  PROVE  LET t == Only(s, A) IN
         /\ t \in Seq(S) /\ \A n \in DOMAIN t : t[n] \in A
         /\ \A i, j \in DOMAIN t : t[i] = t[j] => i = j
         /\ \A i \in DOMAIN s : s[i] \in A => \E n \in DOMAIN t : t[n] = s[i]
         /\ \A n \in DOMAIN t : \E i \in DOMAIN s : t[n] = s[i]
         /\ Len(t) \in Nat /\ DOMAIN t = 1..Len(t)
<1> DEFINE I == {i \in DOMAIN s : s[i] \in A}
           t == Only(s, A)
<1>1. I \in SUBSET (DOMAIN s) /\ t = Kept(s, I)
  BY DEF Only
<1>2. /\ t \in Seq(S) /\ DOMAIN t = 1..Cardinality(I) /\ Len(t) = Cardinality(I)
      /\ \A i \in I : Rank(I, i) \in 1..Cardinality(I) /\ t[Rank(I, i)] = s[i]
      /\ \A n \in 1..Cardinality(I) : \E i \in I : Rank(I, i) = n /\ t[n] = s[i]
  <2> HIDE DEF I, t
  <2> QED
    BY <1>1, KeptIsThere
<1>3. \A i, j \in DOMAIN t : t[i] = t[j] => i = j
  <2> HIDE DEF t
  <2>1. ASSUME NEW m \in DOMAIN t, NEW n \in DOMAIN t, t[m] = t[n] PROVE m = n
    <3>1. PICK i \in I : Rank(I, i) = m /\ t[m] = s[i]
      BY <1>2
    <3>2. PICK j \in I : Rank(I, j) = n /\ t[n] = s[j]
      BY <1>2
    <3>3. i = j
      BY <2>1, <3>1, <3>2
    <3> QED
      BY <3>1, <3>2, <3>3
  <2> QED
    BY <2>1
<1> HIDE DEF t
<1>4. \A n \in DOMAIN t : t[n] \in A
  BY <1>2
<1>5. \A i \in DOMAIN s : s[i] \in A => \E n \in DOMAIN t : t[n] = s[i]
  BY <1>2
<1>6. Len(t) \in Nat /\ DOMAIN t = 1..Len(t)
  BY <1>2
<1>7. \A n \in DOMAIN t : \E i \in DOMAIN s : t[n] = s[i]
  BY <1>2
<1> HIDE DEF I
<1> QED
  BY <1>2, <1>3, <1>4, <1>5, <1>6, <1>7 DEF t

-----------------------------------------------------------------------------
(* Places keep their order under an increasing map, and so their ranks.    *)
LEMMA RankOfImage ==
  ASSUME NEW m \in Nat, NEW I \in SUBSET (1..m), NEW f \in [I -> Int],
         \A i, j \in I : i < j => f[i] < f[j]
  PROVE  LET Q == {f[i] : i \in I} IN
         Cardinality(Q) = Cardinality(I) /\ \A i \in I : Rank(Q, f[i]) = Rank(I, i)
<1> DEFINE Q == {f[i] : i \in I}
<1>1. IsFiniteSet(I)
  BY RankIsPlace
<1>2. \A i, j \in I : i \in Int /\ (f[i] <= f[j] <=> i <= j)
  <2>1. ASSUME NEW i \in I, NEW j \in I PROVE i \in Int /\ (f[i] <= f[j] <=> i <= j)
    <3>1. i \in Int /\ j \in Int /\ f[i] \in Int /\ f[j] \in Int
      OBVIOUS
    <3>2. CASE i < j
      BY <3>1, <3>2
    <3>3. CASE i = j
      BY <3>1, <3>3
    <3>4. CASE j < i
      BY <3>1, <3>4
    <3> QED
      BY <3>1, <3>2, <3>3, <3>4
  <2> QED
    BY <2>1
<1>3. ASSUME NEW J \in SUBSET I PROVE LET P == {f[i] : i \in J} IN
                                        IsFiniteSet(P) /\ Cardinality(P) = Cardinality(J)
  <2> DEFINE P == {f[i] : i \in J}
             g == [i \in J |-> f[i]]
  <2>1. g \in [J -> P] /\ \A p \in P : \E i \in J : g[i] = p
    OBVIOUS
  <2>2. \A i, j \in J : g[i] = g[j] => i = j
    <3>1. ASSUME NEW i \in J, NEW j \in J, f[i] = f[j] PROVE i = j
      <4>1. f[i] <= f[j] /\ f[j] <= f[i]
        BY <3>1
      <4>2. i \in Int /\ j \in Int /\ i <= j /\ j <= i
        BY <1>2, <4>1
      <4> QED
        BY <4>2
    <3> QED
      BY <3>1
  <2> HIDE DEF g, P
  <2>3. g \in Bijection(J, P)
    BY <2>1, <2>2 DEF Bijection, Injection, Surjection, IsInjective
  <2>4. ExistsBijection(J, P)
    BY <2>3 DEF ExistsBijection
  <2>5. IsFiniteSet(J)
    BY <1>1, FS_Subset
  <2> QED
    BY <2>4, <2>5, FS_Bijection DEF P
<1>4. ASSUME NEW i \in I PROVE Rank(Q, f[i]) = Rank(I, i)
  <2> DEFINE J == {j \in I : j <= i}
  <2>1. {q \in Q : q <= f[i]} = {f[j] : j \in J}
    BY <1>2
  <2>2. J \in SUBSET I
    OBVIOUS
  <2> QED
    BY <1>3, <2>1, <2>2 DEF Rank
<1> QED
  BY <1>3, <1>4

(* Of the elements in A, those in D have the values of a selection of D,   *)
(* in the same order: as many, and each at the place of its own.           *)
LEMMA SelectedTwice ==
  ASSUME NEW S, NEW s \in Seq(S), NEW A, NEW D, D \subseteq A
  PROVE  LET t == Only(s, A)
             d == Only(s, D)
             Q == {n \in DOMAIN t : t[n] \in D} IN
         /\ Len(d) = Cardinality(Q)
         /\ \A n \in Q : Rank(Q, n) \in DOMAIN d /\ d[Rank(Q, n)] = t[n]
<1> DEFINE I == {i \in DOMAIN s : s[i] \in A}
           J == {i \in DOMAIN s : s[i] \in D}
           t == Only(s, A)
           d == Only(s, D)
           Q == {n \in DOMAIN t : t[n] \in D}
           f == [i \in J |-> Rank(I, i)]
<1>1. /\ I \in SUBSET (DOMAIN s) /\ J \in SUBSET (DOMAIN s) /\ J \in SUBSET I
      /\ t = Kept(s, I) /\ d = Kept(s, J) /\ DOMAIN s = 1..Len(s) /\ Len(s) \in Nat
  BY DEF Only
<1>2. \A i \in I : i \in J <=> s[i] \in D
  OBVIOUS
<1> HIDE DEF I, J, t, d
<1>3. /\ DOMAIN t = 1..Cardinality(I)
      /\ \A i \in I : Rank(I, i) \in 1..Cardinality(I) /\ t[Rank(I, i)] = s[i]
      /\ \A n \in 1..Cardinality(I) : \E i \in I : Rank(I, i) = n /\ t[n] = s[i]
  BY <1>1, KeptIsThere
<1>4. /\ DOMAIN d = 1..Cardinality(J) /\ Len(d) = Cardinality(J)
      /\ \A i \in J : Rank(J, i) \in 1..Cardinality(J) /\ d[Rank(J, i)] = s[i]
  BY <1>1, KeptIsThere
<1>5. \A i, j \in I : i < j => Rank(I, i) < Rank(I, j)
  BY <1>1, RankIsPlace
<1>6. f \in [J -> Int] /\ \A i, j \in J : i < j => f[i] < f[j]
  <2>1. \A i \in J : Rank(I, i) \in Int
    BY <1>1, <1>3
  <2> QED
    BY <1>1, <1>5, <2>1
<1>7. Q = {f[i] : i \in J}
  <2>1. ASSUME NEW n \in Q PROVE \E i \in J : f[i] = n
    <3>1. PICK i \in I : Rank(I, i) = n /\ t[n] = s[i]
      BY <1>3
    <3>2. i \in J
      BY <1>2, <3>1
    <3> QED
      BY <3>1, <3>2
  <2>2. ASSUME NEW i \in J PROVE f[i] \in Q
    BY <1>1, <1>2, <1>3
  <2> QED
    BY <2>1, <2>2
<1> HIDE DEF f, Q
<1>8. Cardinality(Q) = Cardinality(J) /\ \A i \in J : Rank(Q, f[i]) = Rank(J, i)
  <2>1. Len(s) \in Nat /\ J \in SUBSET (1..Len(s))
    BY <1>1
  <2> QED
    BY <1>6, <1>7, <2>1, RankOfImage
<1>9. ASSUME NEW n \in Q PROVE Rank(Q, n) \in DOMAIN d /\ d[Rank(Q, n)] = t[n]
  <2>1. PICK i \in J : n = f[i]
    BY <1>7
  <2>2. n = Rank(I, i) /\ i \in I
    BY <1>1, <2>1 DEF f
  <2>3. Rank(Q, n) = Rank(J, i)
    BY <1>8, <2>1
  <2>4. t[n] = s[i] /\ d[Rank(J, i)] = s[i] /\ Rank(J, i) \in DOMAIN d
    BY <1>3, <1>4, <2>2
  <2> QED
    BY <2>3, <2>4
<1> QED
  BY <1>4, <1>8, <1>9 DEF t, d, Q

-----------------------------------------------------------------------------
(* The columns of each class, in the order it goes through them.           *)
Order(t) == CASE t = "videos" -> VideosColumns
              [] t = "comments" -> CommentsColumns
              [] t = "tags" -> TagsColumns
              [] t = "video_tags" -> VideoTagsColumns
              [] t = "video_likes" -> VideoLikesColumns

(* Every class follows the common scheme, with the columns of its table.   *)
LEMMA OrdersAreColumns ==
  ASSUME NEW t \in Tables
  PROVE  /\ Order(t) \in Seq(Columns(t)) /\ ToSet(Order(t)) = Columns(t)
         /\ \A i, j \in DOMAIN Order(t) : Order(t)[i] = Order(t)[j] => i = j
<1>1. ASSUME NEW m \in Nat, NEW f, f = [n \in 1..m |-> f[n]] PROVE f \in Seq(ToSet(f))
  <2>1. f \in [1..m -> {f[n] : n \in 1..m}] /\ DOMAIN f = 1..m
    BY <1>1
  <2> QED
    BY <2>1 DEF ToSet
<1>2. CASE t = "videos"
  <2>1. VideosColumns \in Seq(ToSet(VideosColumns))
    <3>1. VideosColumns = [n \in 1..13 |-> VideosColumns[n]]
      BY DEF VideosColumns
    <3> QED
      BY <1>1, <3>1
  <2>2. \A i, j \in DOMAIN VideosColumns : VideosColumns[i] = VideosColumns[j] => i = j
    BY DEF VideosColumns
  <2> QED
    BY <1>2, <2>1, <2>2 DEF Order, Columns
<1>3. CASE t = "comments"
  <2>1. CommentsColumns \in Seq(ToSet(CommentsColumns))
    <3>1. CommentsColumns = [n \in 1..8 |-> CommentsColumns[n]]
      BY DEF CommentsColumns
    <3> QED
      BY <1>1, <3>1
  <2>2. \A i, j \in DOMAIN CommentsColumns : CommentsColumns[i] = CommentsColumns[j] => i = j
    BY DEF CommentsColumns
  <2> QED
    BY <1>3, <2>1, <2>2 DEF Order, Columns
<1>4. CASE t = "tags"
  <2>1. TagsColumns \in Seq(ToSet(TagsColumns)) /\ ToSet(TagsColumns) = {"tag_id", "name"}
    BY <1>1 DEF TagsColumns, ToSet
  <2>2. \A i, j \in DOMAIN TagsColumns : TagsColumns[i] = TagsColumns[j] => i = j
    BY DEF TagsColumns
  <2> QED
    BY <1>4, <2>1, <2>2 DEF Order, Columns
<1>5. CASE t = "video_tags"
  <2>1. VideoTagsColumns \in Seq(ToSet(VideoTagsColumns)) /\ ToSet(VideoTagsColumns) = {"video_id", "tag_id", "status"}
    BY <1>1 DEF VideoTagsColumns, ToSet
  <2>2. \A i, j \in DOMAIN VideoTagsColumns : VideoTagsColumns[i] = VideoTagsColumns[j] => i = j
    BY DEF VideoTagsColumns
  <2> QED
    BY <1>5, <2>1, <2>2 DEF Order, Columns
<1>6. CASE t = "video_likes"
  <2>1. VideoLikesColumns \in Seq(ToSet(VideoLikesColumns)) /\ ToSet(VideoLikesColumns) = {"video_id", "user_id", "created_at"}
    BY <1>1 DEF VideoLikesColumns, ToSet
  <2>2. \A i, j \in DOMAIN VideoLikesColumns : VideoLikesColumns[i] = VideoLikesColumns[j] => i = j
    BY DEF VideoLikesColumns
  <2> QED
    BY <1>6, <2>1, <2>2 DEF Order, Columns
<1> QED
  BY <1>2, <1>3, <1>4, <1>5, <1>6 DEF Tables

(* The functions of every class follow the scheme with one order of the    *)
(* columns, and answer with all values; a class of a table with an id has  *)
(* one function to set it.                                                 *)
LEMMA ClassesAgree ==
  ASSUME NEW t \in Tables
  PROVE  /\ \A r : FromRow(t, r) = Read(Order(t), r)
         /\ \A o, s : Assign(t, o, s) = Set(o, s)
         /\ \A o : InsertSql(t, o) = Insert(o, Order(t), AutoKey(t), Defaults(t))
         /\ \A o : OutputArgs(t, o) = Args(o, Order(t), AutoKey(t))
         /\ \A o : ToJson(t, o) = o.val
         /\ AutoKey(t) \subseteq Columns(t) /\ AutoKey(t) \cap Defaults(t) = {}
         /\ \A o, k : LET p == UpdateId(t, o, IF AutoKey(t) = {} THEN 0
                                   ELSE Mark(k, CHOOSE c \in AutoKey(t) : TRUE)) IN
                IF AutoKey(t) = {} THEN p = o
                ELSE \E c : AutoKey(t) = {c} /\ p = SetId(o, c, Mark(k, c))
<1>1. CASE t = "videos"
  <2>1. Defaults(t) = VideosDefaults
    BY <1>1 DEF Defaults, Columns, VideosDefaults, VideosColumns, ToSet
  <2>2. AutoKey(t) = {}
    BY <1>1 DEF AutoKey
  <2> QED
    BY <1>1, <2>1, <2>2 DEF FromRow, Assign, InsertSql, OutputArgs, ToJson, Order, UpdateId,
      VideosRead, VideosSet, VideosSql, VideosOutputArgs, VideosToJson
<1>2. CASE t = "comments"
  <2>1. Defaults(t) = {"created_at", "status"}
    BY <1>2 DEF Defaults, Columns, VideosDefaults, CommentsColumns, ToSet
  <2>2. AutoKey(t) = {"comment_id"} /\ "comment_id" \in Columns(t)
    BY <1>2 DEF AutoKey, Columns, CommentsColumns, ToSet
  <2>3. (CHOOSE c \in AutoKey(t) : TRUE) = "comment_id"
    BY <2>2
  <2> QED
    BY <1>2, <2>1, <2>2, <2>3 DEF FromRow, Assign, InsertSql, OutputArgs, ToJson, Order, UpdateId,
      CommentsRead, CommentsSet, CommentsSql, CommentsOutputArgs, CommentsToJson, CommentsUpdateId
<1>3. CASE t = "tags"
  <2>1. Defaults(t) = {}
    BY <1>3 DEF Defaults, Columns, VideosDefaults
  <2>2. AutoKey(t) = {"tag_id"} /\ "tag_id" \in Columns(t)
    BY <1>3 DEF AutoKey, Columns
  <2>3. (CHOOSE c \in AutoKey(t) : TRUE) = "tag_id"
    BY <2>2
  <2> QED
    BY <1>3, <2>1, <2>2, <2>3 DEF FromRow, Assign, InsertSql, OutputArgs, ToJson, Order, UpdateId,
      TagsRead, TagsSet, TagsSql, TagsOutputArgs, TagsToJson, TagsUpdateId
<1>4. CASE t = "video_tags"
  <2>1. Defaults(t) = {"status"} /\ AutoKey(t) = {}
    BY <1>4 DEF Defaults, Columns, VideosDefaults, AutoKey
  <2> QED
    BY <1>4, <2>1 DEF FromRow, Assign, InsertSql, OutputArgs, ToJson, Order, UpdateId,
      VideoTagsRead, VideoTagsSet, VideoTagsSql, VideoTagsOutputArgs
<1>5. CASE t = "video_likes"
  <2>1. Defaults(t) = {"created_at"} /\ AutoKey(t) = {}
    BY <1>5 DEF Defaults, Columns, VideosDefaults, AutoKey
  <2> QED
    BY <1>5, <2>1 DEF FromRow, Assign, InsertSql, OutputArgs, ToJson, Order, UpdateId,
      VideoLikesRead, VideoLikesSet, VideoLikesSql, VideoLikesOutputArgs
<1> QED
  BY <1>1, <1>2, <1>3, <1>4, <1>5 DEF Tables

(* What a handler that creates a row leaves unset has a value without it.  *)
LEMMA CreatedColumns ==
  ASSUME NEW t \in Tables, NEW C \in Creates(t)
  PROVE  /\ C \subseteq Columns(t) /\ C \cap AutoKey(t) = {}
         /\ NotNull(t) \subseteq Columns(t) /\ NotNull(t) \subseteq C \cup AutoKey(t) \cup Defaults(t)
         /\ Defaults(t) \subseteq Columns(t)
<1>1. CASE t = "videos"
  BY <1>1 DEF Creates, Columns, AutoKey, NotNull, Defaults, VideosColumns, VideosDefaults, ToSet,
    PostedVideo, PostedExVideo
<1>2. CASE t = "comments"
  BY <1>2 DEF Creates, Columns, AutoKey, NotNull, Defaults, CommentsColumns, VideosDefaults, ToSet,
    PostedComment
<1>3. CASE t = "tags"
  BY <1>3 DEF Creates, Columns, AutoKey, NotNull, Defaults, AddedTag
<1>4. CASE t = "video_tags"
  BY <1>4 DEF Creates, Columns, AutoKey, NotNull, Defaults, AddedVideoTag
<1>5. CASE t = "video_likes"
  BY <1>5 DEF Creates, Columns, AutoKey, NotNull, Defaults, VideosDefaults, AddedLike
<1> QED
  BY <1>1, <1>2, <1>3, <1>4, <1>5 DEF Tables

(* Only videos are updated, in columns they have.                          *)
LEMMA SavedColumns ==
  ASSUME NEW t \in Tables, NEW C \in Saves(t)
  PROVE  t = "videos" /\ C \subseteq Columns(t)
<1>1. t = "videos"
  BY DEF Saves
<1> QED
  BY <1>1 DEF Saves, Columns, VideosColumns, ToSet, Uploaded, Encoded, Archived, Texts

(* A row created by w in the columns of C.                                 *)
Created(t, k, w, C) ==
    [c \in Columns(t) |-> IF c \in C THEN Mark(w, c)
                          ELSE IF c \in AutoKey(t) THEN Mark(k, c)
                          ELSE IF c \in Defaults(t) THEN Default ELSE Null]

(* The statement and its arguments, which two functions build, are made    *)
(* for each other: the row that results has what was set where it was set. *)
LEMMA InsertedIsCreated ==
  ASSUME NEW t \in Tables, NEW h \in Handlers, NEW k \in Keys, NEW C \in Creates(t)
  PROVE  LET o == Assign(t, New(Columns(t)), Marks(h, C))
             q == InsertSql(t, o)
             args == OutputArgs(t, o) IN
         /\ DOMAIN o.val = Columns(t) /\ o.dirty = C
         /\ \A c \in Columns(t) : o.val[c] = IF c \in C THEN Mark(h, c) ELSE Null
         /\ Len(args) = Cardinality(Asked(q))
         /\ Inserted(t, q, args, k) = Created(t, k, h, C)
<1> DEFINE o == Assign(t, New(Columns(t)), Marks(h, C))
           q == InsertSql(t, o)
           args == OutputArgs(t, o)
           s == Order(t)
           A == AutoKey(t) \cup Defaults(t) \cup C
           n == Only(s, A)
           d == Only(s, C)
           Q == {i \in DOMAIN n : n[i] \in C}
<1>1. /\ C \subseteq Columns(t) /\ C \cap AutoKey(t) = {} /\ AutoKey(t) \subseteq Columns(t)
      /\ AutoKey(t) \cap Defaults(t) = {} /\ Defaults(t) \subseteq Columns(t)
  BY CreatedColumns, ClassesAgree
<1>2. /\ s \in Seq(Columns(t)) /\ ToSet(s) = Columns(t)
      /\ \A i, j \in DOMAIN s : s[i] = s[j] => i = j
  BY OrdersAreColumns
<1>3. /\ o.dirty = C /\ DOMAIN o.val = Columns(t)
      /\ \A c \in Columns(t) : o.val[c] = IF c \in C THEN Mark(h, c) ELSE Null
  <2>1. o = Set(New(Columns(t)), Marks(h, C))
    BY ClassesAgree
  <2> QED
    BY <2>1 DEF Set, New, With, Marks
<1>4. q = Insert(o, s, AutoKey(t), Defaults(t)) /\ args = Args(o, s, AutoKey(t))
  BY ClassesAgree
<1> HIDE DEF o, q, args, s
<1>5. C \ AutoKey(t) = C
  BY <1>1
<1>6. /\ q.cols = n
      /\ q.marks = [i \in DOMAIN n |-> IF n[i] \in C THEN "?" ELSE "default"]
  BY <1>3, <1>4, <1>5 DEF Insert
<1>7. args = [i \in DOMAIN d |-> o.val[d[i]]]
  BY <1>3, <1>4, <1>5 DEF Args
<1>8. Asked(q) = Q
  BY <1>6 DEF Asked
<1>9. C \subseteq A
  OBVIOUS
<1> HIDE DEF A
<1>10. /\ Len(d) = Cardinality(Q)
       /\ \A i \in Q : Rank(Q, i) \in DOMAIN d /\ d[Rank(Q, i)] = n[i]
  <2>1. s \in Seq(Columns(t)) /\ C \subseteq A
    BY <1>2, <1>9
  <2> QED
    BY <2>1, SelectedTwice
<1>11. d \in Seq(Columns(t)) /\ DOMAIN d = 1..Len(d) /\ Len(d) \in Nat
  BY <1>2, OnlyIsThere
<1>12. /\ \A i \in DOMAIN n : n[i] \in A
       /\ \A i, j \in DOMAIN n : n[i] = n[j] => i = j
       /\ \A i \in DOMAIN s : s[i] \in A => \E j \in DOMAIN n : n[j] = s[i]
  BY <1>2, OnlyIsThere
<1> HIDE DEF n, d, Q
<1>13. Len(args) = Len(d)
  <2>1. args = [i \in 1..Len(d) |-> args[i]]
    BY <1>7, <1>11
  <2> QED
    BY <1>11, <2>1
<1>14. ASSUME NEW c \in Columns(t) PROVE Inserted(t, q, args, k)[c] = Created(t, k, h, C)[c]
  <2> DEFINE at == CHOOSE i \in DOMAIN q.cols : q.cols[i] = c
  <2>1. Inserted(t, q, args, k)[c] =
          CASE c \in ToSet(q.cols) /\ q.marks[at] = "?" -> Bound(q, args, at)
            [] c \in AutoKey(t) /\ (c \notin ToSet(q.cols) \/ q.marks[at] # "?") -> Mark(k, c)
            [] OTHER -> IF c \in Defaults(t) THEN Default ELSE Null
    BY DEF Inserted
  <2>2. c \in ToSet(q.cols) => at \in DOMAIN n /\ n[at] = c
    BY <1>6 DEF ToSet
  <2>3. c \in A => c \in ToSet(q.cols)
    BY <1>2, <1>6, <1>12 DEF ToSet
  <2> HIDE DEF at
  <2>4. CASE c \in C
    <3>1. at \in Q /\ n[at] = c /\ q.marks[at] = "?" /\ c \in ToSet(q.cols)
      BY <1>6, <1>9, <2>2, <2>3, <2>4 DEF Q
    <3>2. Inserted(t, q, args, k)[c] = args[Rank(Q, at)]
      BY <1>8, <2>1, <3>1 DEF Bound
    <3>3. args[Rank(Q, at)] = o.val[c]
      BY <1>7, <1>10, <3>1
    <3> QED
      BY <1>3, <2>4, <3>2, <3>3 DEF Created
  <2>5. CASE c \notin C
    <3>1. c \in ToSet(q.cols) => q.marks[at] # "?"
      BY <1>6, <2>2, <2>5
    <3> QED
      BY <2>1, <2>5, <3>1 DEF Created
  <2> QED
    BY <2>4, <2>5
<1>15. Inserted(t, q, args, k) = Created(t, k, h, C)
  BY <1>14 DEF Inserted, Created
<1> QED
  BY <1>3, <1>8, <1>10, <1>13, <1>15 DEF o, q, args

(* Such a row leaves nothing out that may not be NULL.                     *)
LEMMA CreatedFits ==
  ASSUME NEW t \in Tables, NEW h \in Handlers, NEW k \in Keys, NEW C \in Creates(t)
  PROVE  Fits(t, Created(t, k, h, C)) /\ Fine(t, Created(t, k, h, C))
<1>1. /\ C \subseteq Columns(t) /\ C \cap AutoKey(t) = {} /\ AutoKey(t) \subseteq Columns(t)
      /\ NotNull(t) \subseteq Columns(t) /\ NotNull(t) \subseteq C \cup AutoKey(t) \cup Defaults(t)
  BY CreatedColumns, ClassesAgree
<1>2. Default # Null /\ \A c \in Columns(t), x \in Handlers \cup Keys : Mark(x, c) # Null
  BY RowsAssumption
<1>3. Fits(t, Created(t, k, h, C))
  BY <1>1, <1>2 DEF Fits, Created
<1>4. Fine(t, Created(t, k, h, C))
  BY DEF Fine, Created
<1> QED
  BY <1>3, <1>4

-----------------------------------------------------------------------------
(* A row has what no row may be without, and its own key.                  *)
RowOK(k) ==
    rows[k] # Absent =>
       /\ Fine(table, rows[k]) /\ Fits(table, rows[k])
       /\ \A c \in AutoKey(table) : rows[k][c] = Mark(k, c)

(* What h has set is in the object it holds, and in the row while only h   *)
(* knows of it; a copy read from a row has nothing to write back.          *)
JobOK(h, j) ==
    /\ j.at \in {"idle", "inserted", "held", "answered", "done", "lost"}
    /\ j.k \in Keys \cup {Absent} /\ j.set \subseteq Columns(table)
    /\ j.o # Absent => Fine(table, j.o.val) /\ j.o.dirty \subseteq Columns(table)
    /\ j.at \in {"inserted", "held", "answered"} => j.k \in Keys
    /\ j.at = "held" => table = "videos" /\ Fine(table, j.o.val) /\ j.o.dirty = {}
    /\ j.at \in {"inserted", "answered"} =>
          /\ \A c \in j.set : j.o.val[c] = Mark(h, c)
          /\ \A c \in AutoKey(table) : j.o.val[c] = Mark(j.k, c)
    /\ j.at = "inserted" /\ table # "videos" /\ rows[j.k] # Absent =>
          \A c \in j.set : rows[j.k][c] = Mark(h, c)

RowsInv ==
    /\ table \in Tables /\ refused = FALSE
    /\ rows = [k \in Keys |-> rows[k]] /\ \A k \in Keys : RowOK(k)
    /\ job = [h \in Handlers |-> job[h]] /\ \A h \in Handlers : JobOK(h, job[h])
    /\ \A k \in Keys : rows[k] # Absent =>
          \E g \in Handlers : job[g].at # "idle" /\ job[g].k = k

(* One handler goes on, and writes a row at most.                          *)
LEMMA OneGoesOn ==
  ASSUME RowsInv, NEW h \in Handlers, NEW j, job' = [job EXCEPT ![h] = j], j.at # "idle",
         job[h].at = "idle" \/ j.k = job[h].k, JobOK(h, j)', table' = table, refused' = FALSE,
         rows' = [k \in Keys |-> rows'[k]], \A k \in Keys : RowOK(k)',
         \A k \in Keys : rows'[k] # Absent => rows[k] # Absent \/ j.k = k,
         \A g \in Handlers : g # h /\ job[g].at = "inserted" /\ table # "videos" =>
            rows'[job[g].k] = rows[job[g].k]
  PROVE  RowsInv'
<1>1. /\ job' = [g \in Handlers |-> job'[g]] /\ job'[h] = j
      /\ \A g \in Handlers : g # h => job'[g] = job[g]
  BY DEF RowsInv
<1>2. ASSUME NEW g \in Handlers PROVE JobOK(g, job[g])' 
  <2>1. CASE g = h
    BY <1>1, <2>1
  <2>2. CASE g # h
    BY <1>1, <2>2 DEF RowsInv, JobOK
  <2> QED
    BY <2>1, <2>2
<1>3. ASSUME NEW k \in Keys, rows'[k] # Absent
      PROVE  \E g \in Handlers : job'[g].at # "idle" /\ job'[g].k = k
  <2>1. CASE j.k = k
    BY <1>1, <2>1
  <2>2. CASE j.k # k
    <3>1. PICK g \in Handlers : job[g].at # "idle" /\ job[g].k = k
      BY <1>3, <2>2 DEF RowsInv
    <3>2. g # h
      BY <2>2, <3>1
    <3> QED
      BY <1>1, <3>1, <3>2
  <2> QED
    BY <2>1, <2>2
<1> QED
  BY <1>1, <1>2, <1>3 DEF RowsInv

(* What a step is to the abstract table.                                   *)
StoreStep == Store!StoreNext \/ UNCHANGED <<table, rows>>

(* A row that is created is one that RowStore creates.                     *)
LEMMA InsertRowStep ==
  ASSUME RowsInv, NEW h \in Handlers, NEW k \in Keys, NEW C \in Creates(table), InsertRow(h, k, C)
  PROVE  RowsInv' /\ StoreStep
<1> DEFINE o == Assign(table, New(Columns(table)), Marks(h, C))
           q == InsertSql(table, o)
           args == OutputArgs(table, o)
           r == Inserted(table, q, args, k)
           x == IF q.select THEN "inserted" ELSE "answered"
           p == UpdateId(table, o, IF AutoKey(table) = {} THEN 0
                                   ELSE Mark(k, CHOOSE c \in AutoKey(table) : TRUE))
<1>0. PICK j : j = Job(x, k, p, C)
  OBVIOUS
<1>1. /\ job[h].at = "idle" /\ \A g \in Handlers : job[g].k # k
      /\ IF Len(args) = Cardinality(Asked(q)) /\ Fits(table, r)
         THEN rows' = [rows EXCEPT ![k] = r] /\ refused' = refused
         ELSE refused' = TRUE /\ rows' = rows
      /\ job' = [job EXCEPT ![h] = j] /\ table' = table
  BY <1>0 DEF InsertRow
<1>2. /\ DOMAIN o.val = Columns(table) /\ o.dirty = C
      /\ \A c \in Columns(table) : o.val[c] = IF c \in C THEN Mark(h, c) ELSE Null
      /\ Len(args) = Cardinality(Asked(q)) /\ r = Created(table, k, h, C)
  BY InsertedIsCreated DEF RowsInv
<1>3. /\ table \in Tables /\ C \subseteq Columns(table) /\ C \cap AutoKey(table) = {}
      /\ AutoKey(table) \subseteq Columns(table)
  BY CreatedColumns, ClassesAgree DEF RowsInv
<1>4. IF AutoKey(table) = {} THEN p = o ELSE \E c : AutoKey(table) = {c} /\ p = SetId(o, c, Mark(k, c))
  BY <1>3, ClassesAgree
<1> HIDE DEF o, q, args, r, p
<1>5. Fits(table, r) /\ Fine(table, r)
  BY <1>2, <1>3, CreatedFits
<1>6. rows' = [rows EXCEPT ![k] = Created(table, k, h, C)] /\ refused' = FALSE
  BY <1>1, <1>2, <1>5 DEF RowsInv
<1>7. rows[k] = Absent
  BY <1>1 DEF RowsInv
<1>8. /\ p.dirty = C /\ DOMAIN p.val = Columns(table)
      /\ \A c \in Columns(table) : p.val[c] = IF c \in C THEN Mark(h, c)
                                              ELSE IF c \in AutoKey(table) THEN Mark(k, c) ELSE Null
  <2>1. CASE AutoKey(table) = {}
    BY <1>2, <1>4, <2>1
  <2>2. CASE AutoKey(table) # {}
    <3>1. PICK c : AutoKey(table) = {c} /\ p = SetId(o, c, Mark(k, c))
      BY <1>4, <2>2
    <3> QED
      BY <1>2, <1>3, <3>1 DEF SetId, With
  <2> QED
    BY <2>1, <2>2
<1>9. /\ j.at = x /\ j.k = k /\ j.o = p /\ j.set = C /\ x \in {"inserted", "answered"}
  BY <1>0 DEF Job
<1> HIDE DEF x
<1>10. /\ rows' = [m \in Keys |-> rows'[m]] /\ rows'[k] = Created(table, k, h, C)
       /\ \A m \in Keys : m # k => rows'[m] = rows[m]
  BY <1>6 DEF RowsInv
<1>11. Fine(table, p.val)
  BY <1>3, <1>8 DEF Fine
<1>12. JobOK(h, j)'
  BY <1>1, <1>3, <1>8, <1>9, <1>10, <1>11 DEF JobOK, Created
<1>13. ASSUME NEW m \in Keys PROVE RowOK(m)'
  <2>1. CASE m = k
    BY <1>1, <1>2, <1>3, <1>5, <1>10, <2>1 DEF RowOK, Created
  <2>2. CASE m # k
    BY <1>1, <1>10, <2>2 DEF RowOK, RowsInv
  <2> QED
    BY <2>1, <2>2
<1>14. RowsInv'
  <2>1. \A g \in Handlers : job[g].at = "inserted" => job[g].k \in Keys /\ job[g].k # k
    BY <1>1 DEF RowsInv, JobOK
  <2>2. \A m \in Keys : rows'[m] # Absent => rows[m] # Absent \/ j.k = m
    BY <1>9, <1>10
  <2>3. \A g \in Handlers : g # h /\ job[g].at = "inserted" /\ table # "videos" =>
           rows'[job[g].k] = rows[job[g].k]
    BY <1>10, <2>1
  <2>4. j.at # "idle" /\ job[h].at = "idle" /\ table' = table /\ job' = [job EXCEPT ![h] = j]
    BY <1>1, <1>9
  <2>5. rows' = [m \in Keys |-> rows'[m]] /\ refused' = FALSE
    BY <1>6, <1>10
  <2> QED
    BY <1>12, <1>13, <2>2, <2>3, <2>4, <2>5, OneGoesOn
<1>15. StoreStep
  <2>1. Store!Create(k, h, C)
    BY <1>6, <1>7 DEF Store!Create, Created
  <2> QED
    BY <1>1, <2>1 DEF StoreStep, Store!StoreNext
<1> QED
  BY <1>14, <1>15

(* A handler goes on, and no row is written.                               *)
LEMMA OnlyAJob ==
  ASSUME RowsInv, NEW h \in Handlers, NEW j, job' = [job EXCEPT ![h] = j], j.at # "idle",
         job[h].at = "idle" \/ j.k = job[h].k, JobOK(h, j), UNCHANGED <<table, rows, refused>>
  PROVE  RowsInv' /\ StoreStep
<1>1. JobOK(h, j)' /\ refused' = FALSE
  BY DEF JobOK, RowsInv
<1>2. rows' = [k \in Keys |-> rows'[k]] /\ \A k \in Keys : RowOK(k)'
  BY DEF RowsInv, RowOK
<1>3. RowsInv'
  BY <1>1, <1>2, OneGoesOn
<1> QED
  BY <1>3 DEF StoreStep

(* The object that is made of a row.                                       *)
LEMMA RowIsRead ==
  ASSUME RowsInv, NEW k \in Keys, rows[k] # Absent
  PROVE  LET o == FromRow(table, rows[k]) IN
         /\ Fine(table, o.val) /\ o.dirty = {}
         /\ \A c \in Columns(table) : o.val[c] = rows[k][c]
<1> DEFINE o == FromRow(table, rows[k])
<1>1. o = Read(Order(table), rows[k]) /\ ToSet(Order(table)) = Columns(table)
  BY ClassesAgree, OrdersAreColumns DEF RowsInv
<1>2. Fine(table, rows[k])
  BY DEF RowsInv, RowOK
<1> HIDE DEF o
<1>3. /\ o.dirty = {} /\ DOMAIN o.val = Columns(table)
      /\ \A c \in Columns(table) : o.val[c] = rows[k][c]
  BY <1>1 DEF Read
<1>4. Fine(table, o.val)
  BY <1>2, <1>3 DEF Fine
<1> QED
  BY <1>3, <1>4 DEF o

(* What the mapper reads back still has what the handler has set: nobody   *)
(* else has changed the row but by deleting it, except of videos, which    *)
(* are not read back.                                                      *)
LEMMA SelectRowStep ==
  ASSUME RowsInv, NEW h \in Handlers, SelectRow(h)
  PROVE  RowsInv' /\ StoreStep
<1> DEFINE k == job[h].k
           o == IF table = "videos" THEN job[h].o ELSE FromRow(table, rows[k])
<1>0. PICK j : j = IF rows[k] = Absent THEN Job("lost", k, job[h].o, job[h].set)
                   ELSE Job("answered", k, o, job[h].set)
  OBVIOUS
<1>1. /\ job[h].at = "inserted" /\ job' = [job EXCEPT ![h] = j]
      /\ UNCHANGED <<table, rows, refused>>
  BY <1>0 DEF SelectRow, RowsInv
<1>2. JobOK(h, job[h]) /\ k \in Keys
  BY <1>1 DEF RowsInv, JobOK
<1>3. j.k = k /\ j.set = job[h].set /\ j.at \in {"lost", "answered"}
  BY <1>0 DEF Job
<1>4. JobOK(h, j)
  <2>1. CASE rows[k] = Absent
    <3>1. j.o = job[h].o /\ j.at = "lost"
      BY <1>0, <2>1 DEF Job
    <3> QED
      BY <1>2, <1>3, <3>1 DEF JobOK
  <2>2. CASE rows[k] # Absent /\ table = "videos"
    <3>1. j.o = job[h].o /\ j.at = "answered"
      BY <1>0, <2>2 DEF Job
    <3> QED
      BY <1>1, <1>2, <1>3, <3>1 DEF JobOK
  <2>3. CASE rows[k] # Absent /\ table # "videos"
    <3>1. j.o = FromRow(table, rows[k]) /\ j.at = "answered"
      BY <1>0, <2>3 DEF Job
    <3>2. /\ Fine(table, j.o.val) /\ j.o.dirty = {}
          /\ \A c \in Columns(table) : j.o.val[c] = rows[k][c]
      BY <1>2, <2>3, <3>1, RowIsRead
    <3>3. \A c \in AutoKey(table) : c \in Columns(table) /\ rows[k][c] = Mark(k, c)
      BY <1>2, <2>3, ClassesAgree DEF RowsInv, RowOK
    <3>4. \A c \in job[h].set : c \in Columns(table) /\ rows[k][c] = Mark(h, c)
      BY <1>1, <1>2, <2>3 DEF JobOK
    <3> QED
      BY <1>2, <1>3, <3>1, <3>2, <3>3, <3>4 DEF JobOK
  <2> QED
    BY <2>1, <2>2, <2>3
<1> QED
  BY <1>1, <1>3, <1>4, OnlyAJob

(* A copy has nothing to write back.                                       *)
LEMMA FindRowStep ==
  ASSUME RowsInv, NEW h \in Handlers, NEW k \in Keys, FindRow(h, k)
  PROVE  RowsInv' /\ StoreStep
<1>0. PICK j : j = Job("held", k, FromRow(table, rows[k]), {})
  OBVIOUS
<1>1. /\ table = "videos" /\ job[h].at = "idle" /\ rows[k] # Absent
      /\ job' = [job EXCEPT ![h] = j] /\ UNCHANGED <<table, rows, refused>>
  BY <1>0 DEF FindRow
<1>2. j.k = k /\ j.set = {} /\ j.at = "held" /\ j.o = FromRow(table, rows[k])
  BY <1>0 DEF Job
<1>3. JobOK(h, j)
  BY <1>1, <1>2, RowIsRead DEF JobOK
<1> QED
  BY <1>1, <1>2, <1>3, OnlyAJob

(* Marks of h, in columns of the row of k, keep it in order.               *)
LEMMA MarkedRow ==
  ASSUME RowsInv, NEW h \in Handlers, NEW k \in Keys, rows[k] # Absent, table = "videos",
         NEW C \in SUBSET Columns(table), NEW r, r = With(rows[k], Marks(h, C))
  PROVE  /\ Fine(table, r) /\ Fits(table, r) /\ \A c \in AutoKey(table) : r[c] = Mark(k, c)
         /\ r = [c \in Columns(table) |-> IF c \in C THEN Mark(h, c) ELSE rows[k][c]]
<1>1. Fine(table, rows[k]) /\ Fits(table, rows[k]) /\ AutoKey(table) = {}
  BY DEF RowsInv, RowOK, AutoKey
<1>2. r = [c \in Columns(table) |-> IF c \in C THEN Mark(h, c) ELSE rows[k][c]]
  BY <1>1 DEF With, Marks, Fine
<1>3. \A c \in Columns(table) : Mark(h, c) # Null
  BY RowsAssumption DEF RowsInv
<1>4. NotNull(table) \subseteq Columns(table)
  BY DEF NotNull
<1>5. Fine(table, r)
  BY <1>1, <1>2 DEF Fine
<1>6. Fits(table, r)
  BY <1>1, <1>2, <1>3, <1>4 DEF Fits
<1> QED
  BY <1>1, <1>2, <1>5, <1>6

(* One row is written in the columns of C.                                 *)
LEMMA RowIsMarked ==
  ASSUME RowsInv, NEW h \in Handlers, NEW k \in Keys, rows[k] # Absent, table = "videos",
         NEW C \in Writes(table), C \subseteq Columns(table), NEW j, job' = [job EXCEPT ![h] = j],
         rows' = [rows EXCEPT ![k] = With(rows[k], Marks(h, C))], j.at \notin {"idle", "inserted"},
         job[h].at = "idle" \/ j.k = job[h].k, JobOK(h, j), UNCHANGED <<table, refused>>
  PROVE  RowsInv' /\ StoreStep
<1>1. PICK r : r = With(rows[k], Marks(h, C))
  OBVIOUS
<1>2. /\ Fine(table, r) /\ Fits(table, r) /\ \A c \in AutoKey(table) : r[c] = Mark(k, c)
      /\ r = [c \in Columns(table) |-> IF c \in C THEN Mark(h, c) ELSE rows[k][c]]
  BY <1>1, MarkedRow
<1>3. /\ rows' = [m \in Keys |-> rows'[m]] /\ rows'[k] = r
      /\ \A m \in Keys : m # k => rows'[m] = rows[m]
  BY <1>1 DEF RowsInv
<1>4. \A m \in Keys : RowOK(m)'
  BY <1>2, <1>3 DEF RowsInv, RowOK
<1>5. JobOK(h, j)' /\ refused' = FALSE
  BY DEF JobOK, RowsInv
<1>6. \A m \in Keys : rows'[m] # Absent => rows[m] # Absent
  BY <1>3
<1>7. RowsInv'
  BY <1>3, <1>4, <1>5, <1>6, OneGoesOn
<1>8. rows' = [rows EXCEPT ![k] = [c \in Columns(table) |-> IF c \in C THEN Mark(h, c)
                                                            ELSE rows[k][c]]]
  BY <1>1, <1>2
<1>9. StoreStep
  <2>1. Store!Change(k, h, C)
    BY <1>8 DEF Store!Change
  <2> QED
    BY <2>1 DEF StoreStep, Store!StoreNext
<1> QED
  BY <1>7, <1>9

(* However old the copy is, the update changes what the handler has set.   *)
LEMMA SaveRowStep ==
  ASSUME RowsInv, NEW h \in Handlers, NEW C \in Saves(table), SaveRow(h, C)
  PROVE  RowsInv' /\ StoreStep
<1> DEFINE k == job[h].k
           o == Assign(table, job[h].o, Marks(h, C))
           cs == VideosUpdateColumns(o)
           args == VideosUpdateArgs(o)
           r == With(rows[k], [c \in ToSet(cs) |-> args[CHOOSE i \in DOMAIN cs : cs[i] = c]])
<1>0. PICK j : j = Job("answered", k, o, C)
  OBVIOUS
<1>1. /\ job[h].at = "held" /\ job' = [job EXCEPT ![h] = j] /\ table' = table
      /\ rows' = IF rows[k] = Absent \/ Len(args) < Len(cs) THEN rows ELSE [rows EXCEPT ![k] = r]
      /\ refused' = (refused \/ Len(args) # Len(cs) \/ (rows[k] # Absent /\ ~Fits(table, r)))
  BY <1>0 DEF SaveRow
<1>2. table \in Tables /\ table = "videos" /\ C \subseteq Columns(table) /\ AutoKey(table) = {}
  BY SavedColumns DEF RowsInv, AutoKey
<1>3. JobOK(h, job[h]) /\ k \in Keys /\ Fine(table, job[h].o.val) /\ job[h].o.dirty = {}
  BY <1>1 DEF RowsInv, JobOK
<1>4. /\ o.dirty = C /\ DOMAIN o.val = Columns(table)
      /\ \A c \in Columns(table) : o.val[c] = IF c \in C THEN Mark(h, c) ELSE job[h].o.val[c]
  <2>1. o = Set(job[h].o, Marks(h, C))
    BY <1>2, ClassesAgree
  <2> QED
    BY <1>2, <1>3, <2>1 DEF Set, With, Marks, Fine
<1>5. /\ VideosColumns \in Seq(Columns(table)) /\ ToSet(VideosColumns) = Columns(table)
      /\ \A i, m \in DOMAIN VideosColumns : VideosColumns[i] = VideosColumns[m] => i = m
  BY <1>2, OrdersAreColumns DEF Order
<1> HIDE DEF o
<1>6. C \ {} = C
  OBVIOUS
<1>7. cs = Only(VideosColumns, C) /\ args = [i \in DOMAIN cs |-> o.val[cs[i]]]
  BY <1>4, <1>6 DEF VideosUpdateColumns, VideosUpdateArgs, Args
<1> HIDE DEF cs, args
<1>8. /\ cs \in Seq(Columns(table)) /\ \A n \in DOMAIN cs : cs[n] \in C
      /\ \A i \in DOMAIN VideosColumns : VideosColumns[i] \in C =>
            \E n \in DOMAIN cs : cs[n] = VideosColumns[i]
      /\ Len(cs) \in Nat /\ DOMAIN cs = 1..Len(cs)
  BY <1>5, <1>7, OnlyIsThere
<1>9. ToSet(cs) = C
  BY <1>2, <1>5, <1>8 DEF ToSet
<1>10. \A c \in C : args[CHOOSE i \in DOMAIN cs : cs[i] = c] = Mark(h, c)
  <2>1. ASSUME NEW c \in C PROVE args[CHOOSE i \in DOMAIN cs : cs[i] = c] = Mark(h, c)
    <3> DEFINE i == CHOOSE i \in DOMAIN cs : cs[i] = c
    <3>1. i \in DOMAIN cs /\ cs[i] = c
      BY <1>9 DEF ToSet
    <3> HIDE DEF i
    <3>2. args[i] = o.val[c]
      BY <1>7, <3>1
    <3> QED
      BY <1>2, <1>4, <3>2 DEF i
  <2> QED
    BY <2>1
<1>11. r = With(rows[k], Marks(h, C))
  <2>1. [c \in ToSet(cs) |-> args[CHOOSE i \in DOMAIN cs : cs[i] = c]] = Marks(h, C)
    BY <1>9, <1>10 DEF Marks
  <2> QED
    BY <2>1
<1> HIDE DEF r
<1>12. Len(args) = Len(cs)
  <2>1. args = [i \in 1..Len(cs) |-> args[i]]
    BY <1>7, <1>8
  <2> QED
    BY <1>8, <2>1
<1>13. j.at = "answered" /\ j.k = k /\ j.o = o /\ j.set = C
  BY <1>0 DEF Job
<1>14. Fine(table, o.val)
  BY <1>3, <1>4 DEF Fine
<1>15. JobOK(h, j)
  BY <1>2, <1>3, <1>4, <1>13, <1>14 DEF JobOK
<1>16. Len(cs) \in Nat
  BY <1>8
<1>17. CASE rows[k] = Absent
  BY <1>1, <1>12, <1>13, <1>15, <1>17, OnlyAJob DEF RowsInv
<1>18. CASE rows[k] # Absent
  <2>1. rows' = [rows EXCEPT ![k] = With(rows[k], Marks(h, C))]
    BY <1>1, <1>11, <1>12, <1>16, <1>18
  <2>2. Fits(table, r)
    BY <1>2, <1>3, <1>11, <1>18, MarkedRow
  <2>3. UNCHANGED <<table, refused>>
    BY <1>1, <1>12, <1>18, <2>2 DEF RowsInv
  <2>4. C \in Writes(table)
    BY DEF Writes
  <2> QED
    BY <1>1, <1>2, <1>3, <1>13, <1>15, <1>18, <2>1, <2>3, <2>4, RowIsMarked
<1> QED
  BY <1>17, <1>18

(* A flush changes the one column it adds to.                              *)
LEMMA FlushRowStep ==
  ASSUME RowsInv, NEW h \in Handlers, NEW k \in Keys, FlushRow(h, k)
  PROVE  RowsInv' /\ StoreStep
<1>0. PICK j : j = Job("done", k, Absent, Flushed)
  OBVIOUS
<1>1. /\ table = "videos" /\ job[h].at = "idle" /\ rows[k] # Absent
      /\ job' = [job EXCEPT ![h] = j] /\ UNCHANGED <<table, refused>>
      /\ rows' = [rows EXCEPT ![k] = With(rows[k], Marks(h, Flushed))]
  BY <1>0 DEF FlushRow
<1>2. Flushed \subseteq Columns(table) /\ Flushed \in Writes(table)
  BY <1>1 DEF Flushed, Columns, VideosColumns, ToSet, Writes
<1>3. j.k = k /\ j.set = Flushed /\ j.at = "done" /\ j.o = Absent
  BY <1>0 DEF Job
<1>4. JobOK(h, j)
  BY <1>1, <1>2, <1>3 DEF JobOK
<1> QED
  BY <1>1, <1>2, <1>3, <1>4, RowIsMarked

(* A row goes as in RowStore.                                              *)
LEMMA DeleteRowStep ==
  ASSUME RowsInv, NEW k \in Keys, DeleteRow(k)
  PROVE  RowsInv' /\ StoreStep
<1>1. rows[k] # Absent /\ rows' = [rows EXCEPT ![k] = Absent] /\ UNCHANGED <<table, job, refused>>
  BY DEF DeleteRow
<1>2. /\ rows' = [m \in Keys |-> rows'[m]] /\ rows'[k] = Absent
      /\ \A m \in Keys : m # k => rows'[m] = rows[m]
  BY <1>1 DEF RowsInv
<1>3. \A m \in Keys : RowOK(m)'
  BY <1>1, <1>2 DEF RowsInv, RowOK
<1>4. ASSUME NEW h \in Handlers PROVE JobOK(h, job[h])'
  <2>1. JobOK(h, job[h]) /\ job'[h] = job[h]
    BY <1>1 DEF RowsInv
  <2>2. job[h].at = "inserted" => rows'[job[h].k] \in {Absent, rows[job[h].k]}
    BY <1>2, <2>1 DEF JobOK
  <2> QED
    BY <1>1, <2>1, <2>2 DEF JobOK
<1>5. RowsInv'
  BY <1>1, <1>2, <1>3, <1>4 DEF RowsInv
<1>6. StoreStep
  <2>1. Store!Delete(k)
    BY <1>1 DEF Store!Delete
  <2> QED
    BY <1>1, <2>1 DEF StoreStep, Store!StoreNext
<1> QED
  BY <1>5, <1>6

(* Every step keeps the invariant and is one of RowStore or a stutter.     *)
LEMMA RowsStep == ASSUME RowsInv, [RowsNext]_rvars PROVE RowsInv' /\ StoreStep
<1>1. CASE UNCHANGED rvars
  BY <1>1 DEF rvars, RowsInv, RowOK, JobOK, StoreStep
<1>2. CASE RowsNext
  BY <1>2, InsertRowStep, SelectRowStep, FindRowStep, SaveRowStep, FlushRowStep, DeleteRowStep
    DEF RowsNext
<1> QED
  BY <1>1, <1>2

(* Initial states.                                                         *)
LEMMA RowsStart == RowsInit => RowsInv /\ Store!StoreInit
<1> SUFFICES ASSUME RowsInit PROVE RowsInv /\ Store!StoreInit
  OBVIOUS
<1>1. /\ table \in Tables /\ rows = [k \in Keys |-> Absent] /\ job = [h \in Handlers |-> Idle]
      /\ refused = FALSE
  BY DEF RowsInit
<1>2. Idle.at = "idle" /\ Idle.k = Absent /\ Idle.o = Absent /\ Idle.set = {}
  BY DEF Idle, Job
<1>3. \A h \in Handlers : JobOK(h, job[h])
  BY <1>1, <1>2 DEF JobOK
<1> QED
  BY <1>1, <1>3 DEF RowsInv, RowOK, Store!StoreInit

(* The invariant holds in every state.                                     *)
LEMMA RowsInvHolds == RowsSpec => []RowsInv
<1>1. RowsInv /\ [RowsNext]_rvars => RowsInv'
  BY RowsStep
<1> QED
  BY <1>1, RowsStart, PTL DEF RowsSpec

(* Rows and objects have columns of their table, each with a value that    *)
(* was meant for it.                                                       *)
THEOREM RowsTypeCorrect == RowsSpec => []RowsTypeOK
<1>1. RowsInv => RowsTypeOK
  BY DEF RowsInv, RowOK, JobOK, RowsTypeOK
<1> QED
  BY <1>1, RowsInvHolds, PTL

(* No statement is refused and every answer is what its handler has set.   *)
THEOREM AnswersAreOwn == RowsSpec => []AnswerIsOwn
<1>1. RowsInv => AnswerIsOwn
  <2> SUFFICES ASSUME RowsInv, NEW h \in Handlers, job[h].at = "answered"
               PROVE  LET a == ToJson(table, job[h].o) IN
                      /\ \A c \in job[h].set : a[c] = Mark(h, c)
                      /\ \A c \in AutoKey(table) : a[c] = Mark(job[h].k, c)
    BY DEF RowsInv, AnswerIsOwn
  <2>1. ToJson(table, job[h].o) = job[h].o.val
    BY ClassesAgree DEF RowsInv
  <2> QED
    BY <2>1 DEF RowsInv, JobOK
<1> QED
  BY <1>1, RowsInvHolds, PTL

(* The classes and the statements they make keep a table's rows: nobody    *)
(* changes a column that he has not set.                                   *)
THEOREM TablesAreKept == RowsSpec => RowsAreKept
<1>1. RowsInv /\ [RowsNext]_rvars => StoreStep
  BY RowsStep
<1>2. StoreStep => [Store!StoreNext]_<<table, rows>>
  BY DEF StoreStep
<1> QED
  BY <1>1, <1>2, RowsStart, RowsInvHolds, PTL DEF RowsSpec, RowsAreKept, Store!StoreSpec
=============================================================================
