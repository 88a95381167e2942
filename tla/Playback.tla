-------------------------------- MODULE Playback --------------------------------
(***************************************************************************)
(* What a player of an encoded video is given: the WebVTT file with the    *)
(* thumbnails of the seek bar, which the worker writes beside the sheets   *)
(* ffmpeg draws (worker.cpp) and buildVideoThumbnailVtt rewrites for       *)
(* embedded players, and the playlist, whose files getVideoPlayM3u8        *)
(* replaces by signed URLs (api_videos.cpp).                               *)
(*                                                                         *)
(* Durations are in tenths of a second (the code has doubles).  The lines  *)
(* of a file are records with the parts the code looks at.                 *)
(* External: how many thumbnails ffmpeg draws, and the lines of a playlist.*)
(* Uploads succeed here; EncodeWorker has them fail.                       *)
(***************************************************************************)
EXTENDS Lists, SequencesExt, FiniteSetsExt

CONSTANTS Durations,      \* of the videos, in tenths of a second
          PerSheet,       \* images_per_sheet: 10 rows of 10
          PerRow,
          Short, Long,    \* the limits of the interval, in seconds
          Playlists       \* the playlists ffmpeg may write, besides the duration

Lines == [kind: {"empty", "comment", "map", "uri"}, signed: BOOLEAN]

ASSUME PlaybackAssumption ==
    /\ Durations \subseteq Nat \ {0}
    /\ PerSheet \in Nat \ {0} /\ PerRow \in 1..PerSheet /\ PerSheet % PerRow = 0
    /\ Short \in Nat /\ Long \in Nat /\ Short <= Long
    /\ Playlists \subseteq Seq(Lines)

VARIABLES length,   \* of the video
          frames,   \* how many thumbnails ffmpeg has drawn
          stage,    \* the status of the row
          files,    \* what is in the bucket: thumbnails.vtt, output.m3u8, sheets
          page,     \* "page" or "embed": the player
          view      \* view: the answers the player has got

bvars == <<length, frames, stage, files, page, view>>

-----------------------------------------------------------------------------
(* The worker: interval, number of cues, cues.                             *)

Interval(d) == IF d < Short * 10 THEN 2 ELSE IF d < Long * 10 THEN 5 ELSE 10

(* Slip: the thumbnail of the last, broken interval is left out.           *)
ThumbnailsWhole(d) == d \div (Interval(d) * 10)

TotalThumbnails(d) == d \div (Interval(d) * 10) + 1

(* formatTime, as a number: it has hours, minutes and seconds.             *)
FormatTime(s) == (s \div 3600) * 3600 + ((s % 3600) \div 60) * 60 + (s % 60)

Cue(d, i) ==
    [start |-> FormatTime(i * Interval(d)), end |-> FormatTime((i + 1) * Interval(d)),
     path |-> "api/videos", sheet |-> i \div PerSheet + 1, token |-> FALSE,
     col |-> (i % PerSheet) % PerRow, row |-> (i % PerSheet) \div PerRow]

WebVtt(d) == [n \in 1..TotalThumbnails(d) |-> Cue(d, n - 1)]

Sheets(n) == (n + PerSheet - 1) \div PerSheet

(* The sheets ffmpeg has drawn are in the directory; the loop stops where  *)
(* the cues do.                                                            *)
UploadedSheets(d, n) == 1..Min({TotalThumbnails(d) \div PerSheet + 1, Sheets(n)})

-----------------------------------------------------------------------------
(* The server                                                              *)

(* Every api/videos is replaced, and the first .jpg behind it gets the     *)
(* token: one of each per cue.                                             *)
Rewritten(vtt) ==
    [n \in DOMAIN vtt |-> [vtt[n] EXCEPT !.path = "unauthApi/embed", !.token = TRUE]]

Filled(lines) == {i \in DOMAIN lines : lines[i].kind # "empty"}

(* Empty lines go; a #EXT-X-MAP with a URI and every line that is no       *)
(* comment gets a signed URL of the file of this video; a #EXT-X-MAP       *)
(* without a closing quote stays as it is.                                 *)
Signed(lines) ==
    LET kept == Kept(lines, Filled(lines)) IN
    [n \in DOMAIN kept |-> [kind |-> kept[n].kind, signed |-> kept[n].kind \in {"uri", "map"}]]

-----------------------------------------------------------------------------
NoFiles == [vtt |-> <<>>, m3u8 |-> <<>>, sheets |-> {}]
NoView == [vtt |-> <<>>, m3u8 |-> <<>>, answer |-> "none"]

BTypeOK ==
    /\ length \in Durations /\ frames \in Nat
    /\ stage \in {"processing", "completed"} /\ page \in {"page", "embed"}
    /\ files.m3u8 \in Seq(Lines) /\ view.m3u8 \in Seq(Lines)
    /\ \A c \in ToSet(files.vtt) \cup ToSet(view.vtt) :
          /\ c.start < c.end /\ c.sheet \in 1..TotalThumbnails(length)
          /\ c.col \in 0..(PerRow - 1) /\ c.row \in 0..(PerSheet \div PerRow - 1)

(* ffmpeg draws one thumbnail per full interval, and one for the rest or   *)
(* none.                                                                   *)
BInit ==
    /\ length \in Durations
    /\ frames \in {Max({1, length \div (Interval(length) * 10)}),
                   length \div (Interval(length) * 10) + 1}
    /\ stage = "processing"
    /\ files = NoFiles /\ view = NoView
    /\ page \in {"page", "embed"}

(* The worker uploads playlist, sheets and cues, in this order.            *)
UploadPlaylist(p) ==
    /\ files = NoFiles
    /\ files' = [files EXCEPT !.m3u8 = p]
    /\ UNCHANGED <<length, frames, stage, page, view>>

UploadThumbnails ==
    /\ files.m3u8 # <<>> /\ files.sheets = {}
    /\ files' = [files EXCEPT !.sheets = UploadedSheets(length, frames)]
    /\ UNCHANGED <<length, frames, stage, page, view>>

UploadVtt ==
    /\ files.sheets # {} /\ files.vtt = <<>>
    /\ files' = [files EXCEPT !.vtt = WebVtt(length)]
    /\ UNCHANGED <<length, frames, stage, page, view>>

Complete ==
    /\ files.vtt # <<>> /\ stage = "processing"
    /\ stage' = "completed"
    /\ UNCHANGED <<length, frames, files, page, view>>

(* getVideoPlayM3u8, also by getM3u8 for a player with the video's token.  *)
Play ==
    /\ view' = IF stage # "completed" THEN [view EXCEPT !.answer = "nothing"]
               ELSE IF files.m3u8 = <<>> THEN [view EXCEPT !.answer = "error"]
               ELSE [view EXCEPT !.m3u8 = Signed(files.m3u8), !.answer = "playlist"]
    /\ UNCHANGED <<length, frames, stage, files, page>>

(* buildVideoThumbnailVtt, for the page or (getVtt) an embedded player; it *)
(* does not look at the row.                                               *)
GetVtt ==
    /\ view' = IF files.vtt = <<>> THEN [view EXCEPT !.answer = "error"]
               ELSE [view EXCEPT !.vtt = IF page = "embed" THEN Rewritten(files.vtt)
                                                            ELSE files.vtt,
                                 !.answer = "cues"]
    /\ UNCHANGED <<length, frames, stage, files, page>>

BNext ==
    \/ \E p \in Playlists : UploadPlaylist(p)
    \/ UploadThumbnails \/ UploadVtt \/ Complete \/ Play \/ GetVtt

BSpec == BInit /\ [][BNext]_bvars

-----------------------------------------------------------------------------
(* Properties                                                              *)

(* Under the pointer at any moment of the video there is exactly one cue;  *)
(* the cues follow each other without a gap and the last ends behind the   *)
(* end of the video.                                                       *)
OneCueEach ==
    view.vtt # <<>> =>
       /\ view.vtt[1].start = 0 /\ view.vtt[Len(view.vtt)].end * 10 > length
       /\ view.vtt[Len(view.vtt)].start * 10 <= length
       /\ \A n \in 1..(Len(view.vtt) - 1) : view.vtt[n].end = view.vtt[n + 1].start

(* The picture of each cue for a full interval has been drawn, at this     *)
(* place of this sheet, the sheet has been uploaded before the cues, and   *)
(* no two cues have the same picture.  (The cue of the rest may name a     *)
(* picture that ffmpeg has not drawn.)                                     *)
CueHasPicture ==
    \A n \in DOMAIN view.vtt : view.vtt[n].end * 10 <= length =>
       LET c == view.vtt[n]
           nth == (c.sheet - 1) * PerSheet + c.row * PerRow + c.col IN
       c.sheet \in files.sheets /\ nth < frames /\ nth = n - 1

(* A player that has got a playlist can fetch all it names: nothing is     *)
(* left unsigned, no comment is lost, and the files are complete; an       *)
(* embedded player's cues lead to the route that takes its token.          *)
AllCanBeFetched ==
    /\ view.m3u8 # <<>> =>
          /\ stage = "completed" /\ files.vtt # <<>>
          /\ \A n \in DOMAIN view.m3u8 : view.m3u8[n].signed <=> (view.m3u8[n].kind \in {"map", "uri"})
          /\ Len(view.m3u8) = Cardinality(Filled(files.m3u8))
          /\ \A i \in Filled(files.m3u8) :
                view.m3u8[Rank(Filled(files.m3u8), i)].kind = files.m3u8[i].kind
    /\ \A c \in ToSet(view.vtt) : /\ c.token <=> (page = "embed")
                                  /\ (c.path = "unauthApi/embed") <=> (page = "embed")

(* So the player has what it needs for the whole video.                    *)
PlayerIsServed == OneCueEach /\ CueHasPicture /\ AllCanBeFetched
=============================================================================
