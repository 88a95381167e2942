-------------------------------- MODULE VideoList --------------------------------
(***************************************************************************)
(* getVideos of api_videos.cpp: the list of videos by user, search text    *)
(* and tag, sorted.  The handler looks a tag up, then its links, and only  *)
(* then the videos; other requests tag, untag and delete in between.       *)
(*                                                                         *)
(* The answer to a LIKE is an attribute of the row (hit); sort values are  *)
(* numbers, and an unknown sortby is like none.  External: the tables as   *)
(* in Engagement; ORDER BY, which leaves rows with one value in any order. *)
(***************************************************************************)
EXTENDS Backend, Naturals, Sequences, FiniteSets, SequencesExt

CONSTANTS Tags, Ranks

ASSUME ListAssumption == IsFiniteSet(Videos) /\ None \notin {"text", "created_at", "title"}

VARIABLES video,   \* video[v]: the columns the query is about
          tags,    \* the tags there are
          links,   \* pairs of a video and a tag
          query,   \* the parameters of the request
          run,     \* run: how far the handler is, and the ids it has collected
          seen     \* history: the videos that had the tag when they were collected

lvars == <<video, tags, links, query, run, seen>>

Listed == [done: BOOLEAN, user: Users, hit: {"title", "description", "no"},
           created_at: Ranks, title: Ranks]
Gone == [done |-> FALSE, user |-> None, hit |-> "no", created_at |-> 0, title |-> 0]
Query == [user: Users \cup {None}, search: {None, "text", "long"}, tag: Tags \cup {None},
          sortby: {None, "created_at", "title"}, order: {None, 0, 1}]
Run(x, ids, list) == [at |-> x, ids |-> ids, list |-> list]
NotRun == Run("tag", Videos, <<>>)

LTypeOK ==
    /\ video \in [Videos -> Listed \cup {Gone}]
    /\ tags \subseteq Tags /\ links \subseteq Videos \X tags
    /\ query \in Query
    /\ run.at \in {"tag", "links", "videos", "done", "bad", "error"}
    /\ run.ids \subseteq Videos /\ run.list \in Seq(Videos)
    /\ seen \subseteq Videos

(* Columns that the query q does not look at have one value.               *)
Looked(q) ==
    {x \in Listed : /\ q.user = None => x.user = CHOOSE u \in Users : TRUE
                    /\ q.search # "text" => x.hit = "no"
                    /\ IF q.sortby = "title" THEN x.created_at = CHOOSE n \in Ranks : TRUE
                                             ELSE x.title = CHOOSE n \in Ranks : TRUE}

LInit ==
    /\ query \in Query
    /\ video \in [Videos -> Looked(query)]
    /\ tags = {} /\ links = {}
    /\ run = NotRun /\ seen = Videos

-----------------------------------------------------------------------------
(* Slip: the tag takes the place of what was asked before it.              *)
MatchesLast(v) ==
    IF query.tag # None THEN video[v].done /\ v \in run.ids
    ELSE /\ video[v].done
         /\ query.user # None => video[v].user = query.user
         /\ query.search # None => video[v].hit # "no"

(* The criteria, joined by AND; a search in the title or the description.  *)
Matches(v) ==
    /\ video[v].done
    /\ query.user # None => video[v].user = query.user
    /\ query.search # None => video[v].hit # "no"
    /\ v \in run.ids

(* Ascending unless order is 0; without a known sortby the newest first,   *)
(* whatever the order.                                                     *)
Before(v, w) ==
    IF query.sortby \in {"created_at", "title"}
    THEN LET f == query.sortby IN
         IF query.order = 0 THEN video[w][f] <= video[v][f] ELSE video[v][f] <= video[w][f]
    ELSE video[w].created_at <= video[v].created_at

-----------------------------------------------------------------------------
FindTag ==
    /\ run.at = "tag"
    /\ run' = Run(IF query.search = "long" THEN "bad"
                  ELSE IF query.tag = None THEN "videos"
                  ELSE IF query.tag \in tags THEN "links" ELSE "error", run.ids, <<>>)
    /\ UNCHANGED <<video, tags, links, query, seen>>

FindLinks ==
    LET ids == {v \in Videos : <<v, query.tag>> \in links} IN
    /\ run.at = "links"
    /\ run' = Run(IF ids = {} THEN "done" ELSE "videos", ids, <<>>)
    /\ seen' = ids
    /\ UNCHANGED <<video, tags, links, query>>

FindVideos ==
    /\ run.at = "videos"
    /\ \E s \in SetToSeqs({v \in Videos : Matches(v)}) :
          /\ \A i, j \in DOMAIN s : i < j => Before(s[i], s[j])
          /\ run' = Run("done", run.ids, s)
    /\ UNCHANGED <<video, tags, links, query, seen>>

(* MySQL fails in one of the reads: answered with 500.                     *)
FindFails ==
    /\ "db" \in Faults
    /\ \/ run.at \in {"links", "videos"}
       \/ run.at = "tag" /\ query.search # "long" /\ query.tag # None
    /\ run' = Run("error", run.ids, <<>>)
    /\ UNCHANGED <<video, tags, links, query, seen>>

-----------------------------------------------------------------------------
(* Other requests, until the list has been read; tags, if it is about one. *)

Tagged(v, t) ==
    /\ run.at \notin {"done", "bad", "error"} /\ query.tag # None /\ video[v] # Gone
    /\ tags' = tags \cup {t} /\ links' = links \cup {<<v, t>>}
    /\ UNCHANGED <<video, query, run, seen>>

Untagged(v, t) ==
    /\ run.at \notin {"done", "bad", "error"} /\ <<v, t>> \in links
    /\ links' = links \ {<<v, t>>}
    /\ UNCHANGED <<video, tags, query, run, seen>>

Deleted(v) ==
    /\ run.at \notin {"done", "bad", "error"} /\ video[v] # Gone
    /\ video' = [video EXCEPT ![v] = Gone]
    /\ links' = {p \in links : p[1] # v}
    /\ UNCHANGED <<tags, query, run, seen>>

LNext ==
    \/ FindTag \/ FindLinks \/ FindVideos \/ FindFails
    \/ \E v \in Videos : \/ Deleted(v)
                         \/ \E t \in Tags : Tagged(v, t) \/ Untagged(v, t)

LSpec == LInit /\ [][LNext]_lvars

-----------------------------------------------------------------------------
(* Properties                                                              *)

(* The list has each video that meets every condition asked for, and no    *)
(* other, in the order asked for (docs/openapi.yml: 1 ascending, 0         *)
(* descending), the newest first if for none; the tag counts as it was     *)
(* when its links were read, and a video deleted since is not listed.      *)
ListIsWanted ==
    run.at = "done" =>
       /\ ToSet(run.list) =
             {v \in seen : /\ video[v] # Gone /\ video[v].done
                           /\ query.user \in {None, video[v].user}
                           /\ query.search = "text" => video[v].hit \in {"title", "description"}}
       /\ Len(run.list) = Cardinality(ToSet(run.list))
       /\ \A i \in 1..(Len(run.list) - 1) :
             LET a == video[run.list[i]]
                 b == video[run.list[i + 1]] IN
             /\ \A f \in {"created_at", "title"} : query.sortby = f =>
                   /\ query.order = 1 => a[f] <= b[f]
                   /\ query.order = 0 => b[f] <= a[f]
             /\ query.sortby = None => b.created_at <= a.created_at
=============================================================================
