--------------------------- MODULE PlaybackSession ---------------------------
(***************************************************************************)
(* How a title or an audiobook is played: the session a player asks for    *)
(* (web/handlers_stream_tv.go, handlers_audiobooks.go), the decision it    *)
(* publishes (internal/playback) and the stream a later request gets,      *)
(* which derives its plan once more from the stored probe and the URL and  *)
(* hands it to ffmpeg (internal/video/ffmpeg.go).                          *)
(*                                                                         *)
(* A source is [container, videos, audio, subs, big, probed]: sequences of *)
(* [codec, px, pic], [codec, default, lang] and [text, default, lang]; big *)
(* when its size or bitrate is above the caps; probed when the scan left a *)
(* probe of it in its row.                                                 *)
(***************************************************************************)
EXTENDS Naturals, Integers, Sequences, FiniteSetsExt

CONSTANTS
    Titles, Books,   \* sources of the two pages
    Asks             \* [aud, sub, mode, hint, ua, lang, subsOn]: a request and the settings

VARIABLES
    page,    \* "title", "book"
    source, ask,
    pc,      \* "asked", "replied", "streaming"
    reply,   \* the session: [decision, url, aud, sub, sidecar, audio, auto]
    stream   \* what ffmpeg was told: [container, video, audio, from, burned]

vars == <<page, source, ask, pc, reply, stream>>

None == "none"
NoReply == [url |-> None]
NoStream == [container |-> None]
DirectPlay == "direct_play"
DirectStream == "direct_stream"
Transcode == "transcode"

-----------------------------------------------------------------------------
(* internal/playback/profiles.go: Firefox's caps are Chrome's.             *)
Chrome ==
    [mp4 |-> [video |-> {"h264"}, audio |-> {"aac"}],
     webm |-> [video |-> {"vp8", "vp9", "av1"}, audio |-> {"opus", "vorbis"}]]
Safari == [mp4 |-> [video |-> {"h264", "hevc"}, audio |-> {"aac", "ac3", "eac3"}]]
Profile(hint, ua) == IF "web-safari" = (IF hint = None THEN ua ELSE hint) THEN Safari ELSE Chrome
RemuxTarget == "mp4"
Copyable == {"aac", "mp3", "flac"}

(* Ordinals count from 1; 0 is none.  The least element, 0 without one.    *)
First(S) == IF S = {} THEN 0 ELSE CHOOSE n \in S : \A m \in S : n <= m
OrFirst(n, S) == IF n # 0 THEN n ELSE First(S)

(* FromProbe: the largest picture that is not cover art, the audio track   *)
(* of the ordinal or else the default or else the first, the subtitle of   *)
(* the ordinal.                                                            *)
Pictures(s) == {n \in DOMAIN s.videos : ~s.videos[n].pic}
Picture(s) ==
    LET n == First({m \in Pictures(s) : \A k \in Pictures(s) : s.videos[k].px <= s.videos[m].px})
    IN  IF n = 0 THEN None ELSE s.videos[n].codec
DefaultOf(tracks) == First({n \in DOMAIN tracks : tracks[n].default})
Judged(s, aud) ==
    IF aud \in DOMAIN s.audio THEN aud ELSE OrFirst(DefaultOf(s.audio), DOMAIN s.audio)
CodecOf(s, n) == IF n \in DOMAIN s.audio THEN s.audio[n].codec ELSE None

(* What a row without a probe tells. *)
Blind(s) == [s EXCEPT !.videos = <<>>, !.audio = <<>>, !.subs = <<>>, !.big = FALSE]
Known(s) == IF s.probed THEN s ELSE Blind(s)
Container(s) == IF s.container \in {"m4a", "m4b"} THEN "mp4" ELSE s.container
FromProbe(s, aud, sub) ==
    [container |-> Container(s), video |-> Picture(s), audio |-> CodecOf(s, Judged(s, aud)),
     big |-> s.big, sub |-> sub \in DOMAIN s.subs,
     text |-> sub \in DOMAIN s.subs /\ s.subs[sub].text]

(* Mutated form: what the client decodes is copied, whatever the muxer can carry. *)
MustEncodeUnlessDecoded(p, audio) == audio # None /\ audio \notin p[RemuxTarget].audio

(* RemuxAudioNeedsTranscode *)
MustEncode(p, audio) == audio # None /\ (audio \notin p[RemuxTarget].audio \/ audio \notin Copyable)

(* Decide.  The profiles of the program all take text subtitles beside the *)
(* stream; only a bitmap is burned in.                                     *)
Suits(p, m) ==
    /\ m.container \in DOMAIN p
    /\ (m.video = None /\ m.audio # None) \/ m.video \in p[m.container].video
    /\ m.audio # None => m.audio \in p[m.container].audio
Chosen(p, m) ==
    LET burn == m.sub /\ ~m.text
        audioOnly == m.audio # None /\ m.video = None
    IN  IF Suits(p, m) /\ ~burn /\ ~m.big THEN DirectPlay
        ELSE IF ~burn /\ ~m.big /\ (m.video \in p[RemuxTarget].video \/ audioOnly) THEN DirectStream
        ELSE Transcode
Decide(p, m, mode) ==
    [decision |-> IF mode = "auto" THEN Chosen(p, m) ELSE mode,
     sidecar |-> m.sub /\ m.text,
     burn |-> m.sub /\ ~m.text /\ mode \in {"auto", Transcode}]

-----------------------------------------------------------------------------
(* tvPlaybackSession, and its twin of movies.                              *)
Speaks(tracks, lang) == {n \in DOMAIN tracks : tracks[n].lang = lang}
Preferred(tracks, S) == OrFirst(First({n \in S : tracks[n].default}), S)

(* Mutated form: a default track that is not the first is left to ffmpeg.  *)
PinnedByLanguage(s, a) ==
    IF a.aud # 0 \/ a.lang = None THEN a.aud ELSE Preferred(s.audio, Speaks(s.audio, a.lang))

(* The decision judges the default track, ffmpeg's own choice is the first: *)
(* a default that is not the first is asked for by its ordinal.             *)
Pinned(s, a) ==
    IF a.aud # 0 THEN a.aud
    ELSE IF a.lang # None /\ Speaks(s.audio, a.lang) # {}
         THEN Preferred(s.audio, Speaks(s.audio, a.lang))
    ELSE IF DefaultOf(s.audio) > 1 THEN DefaultOf(s.audio) ELSE 0

AutoSub(s, a) ==
    LET texts == {n \in DOMAIN s.subs : /\ s.subs[n].text
                                        /\ a.lang = None \/ s.subs[n].lang = a.lang}
    IN  IF a.sub = 0 /\ a.subsOn THEN Preferred(s.subs, texts) ELSE 0

(* streamURL: a file as it is, a remux, segments, or one stream with the   *)
(* subtitle burned in.                                                     *)
URL(decision, burn) ==
    IF burn THEN "burnin"
    ELSE CASE decision = DirectPlay -> "file" [] decision = DirectStream -> "remux" [] OTHER -> "hls"

TitleSession ==
    LET s == Known(source)
        aud == Pinned(s, ask)
        auto == AutoSub(s, ask)
        sub == IF ask.sub > 0 THEN ask.sub ELSE auto
        m == FromProbe(s, aud, sub)
        out == Decide(Profile(ask.hint, ask.ua), m, ask.mode)
    IN  /\ page = "title" /\ pc = "asked" /\ pc' = "replied"
        /\ reply' = [decision |-> out.decision, url |-> URL(out.decision, out.burn), aud |-> aud,
                     sub |-> sub, sidecar |-> out.sidecar, audio |-> m.audio, auto |-> auto # 0]
        /\ UNCHANGED <<page, source, ask, stream>>

(* audiobookPlaybackSession: what cannot be played as it is is remuxed.    *)
BookSession ==
    LET m == FromProbe(Known(source), ask.aud, 0)
        out == Decide(Profile(ask.hint, ask.ua), m, ask.mode)
        decision == IF out.decision = DirectPlay THEN DirectPlay ELSE DirectStream
    IN  /\ page = "book" /\ pc = "asked" /\ pc' = "replied"
        /\ reply' = [decision |-> decision, url |-> URL(decision, FALSE), aud |-> ask.aud, sub |-> 0,
                     sidecar |-> FALSE, audio |-> m.audio, auto |-> FALSE]
        /\ UNCHANGED <<page, source, ask, stream>>

-----------------------------------------------------------------------------
(* ffmpeg takes the first picture that is not cover art, "0:V:0".          *)
MappedPicture == source.videos[First(Pictures(source))].codec

(* audioMap: the ordinal, or the first track; none when it does not exist. *)
Mapped(aud) == LET n == IF aud >= 1 THEN aud ELSE 1 IN IF n \in DOMAIN source.audio THEN n ELSE 0

(* remuxAudioPlan: from the stored probe and the browser's own name, for   *)
(* the URL of a session does not carry the client it was asked for.        *)
Plan == MustEncode(Profile(None, ask.ua), FromProbe(Known(source), reply.aud, 0).audio)
Carried(encoded) ==
    LET n == Mapped(reply.aud) IN IF n = 0 THEN None ELSE IF encoded THEN "aac" ELSE source.audio[n].codec
Streaming(url, container, video, encoded, burned) ==
    /\ pc = "replied" /\ reply.url = url /\ pc' = "streaming"
    /\ stream' = [container |-> container, video |-> video, audio |-> Carried(encoded),
                  from |-> Mapped(reply.aud), burned |-> burned]
    /\ UNCHANGED <<page, source, ask, reply>>

StreamFile ==
    /\ pc = "replied" /\ reply.url = "file" /\ pc' = "streaming"
    /\ UNCHANGED <<page, source, ask, reply, stream>>
StreamRemux ==
    page = "title" /\ Pictures(source) # {} /\ Streaming("remux", "mp4", MappedPicture, Plan, 0)
StreamAudio == page = "book" /\ Streaming("remux", "mp4", None, Plan, 0)
StreamBurnIn ==
    /\ pc = "replied" /\ reply.sub \in DOMAIN Known(source).subs /\ ~source.subs[reply.sub].text
    /\ Streaming("burnin", "mp4", "h264", TRUE, reply.sub)
StreamSegments == Streaming("hls", "ts", "h264", TRUE, 0)

Init ==
    /\ \/ page = "title" /\ source \in Titles
       \/ page = "book" /\ source \in Books
    /\ ask \in Asks /\ ask.aud \in 0 .. Len(Known(source).audio) /\ ask.sub \in -1 .. Len(Known(source).subs)
    /\ page = "book" => ask.sub = 0 /\ ~ask.subsOn
    /\ pc = "asked" /\ reply = NoReply /\ stream = NoStream

Next ==
    \/ TitleSession \/ BookSession
    \/ StreamFile \/ StreamRemux \/ StreamAudio \/ StreamBurnIn \/ StreamSegments

Spec == Init /\ [][Next]_vars
-----------------------------------------------------------------------------
TypeOK ==
    /\ page \in {"title", "book"} /\ pc \in {"asked", "replied", "streaming"}
    /\ (pc = "asked") <=> (reply = NoReply)
    /\ pc # "asked" => /\ reply.decision \in {DirectPlay, DirectStream, Transcode}
                       /\ reply.url \in {"file", "remux", "hls", "burnin"}
    /\ stream # NoStream => pc = "streaming" /\ reply.url # "file"

(* What is streamed is what was decided: left to decide, a client that is  *)
(* sent a stream can play the sound of it, and the picture when it is the  *)
(* one judged: ffmpeg takes the first that is not flagged as cover art,    *)
(* the decision the largest.  The sound is that of the track the decision  *)
(* judged and the session named, which is the one asked for or the one the *)
(* file prefers, and a subtitle comes beside the stream or in the picture, *)
(* never the one a setting chose in the picture.  Of a book only when it   *)
(* was probed, and with several tracks only when the first is the default. *)
StreamKeepsDecision ==
    LET p == Profile(ask.hint, ask.ua)
        prefers == OrFirst(DefaultOf(source.audio), DOMAIN source.audio)
    IN  (ask.mode = "auto" /\ stream # NoStream /\ (page = "book" => source.probed /\ (prefers < 2 \/ ask.aud # 0))) =>
            /\ stream.container = "mp4" /\ stream.burned = 0 =>
                   /\ stream.video \in {None, Picture(source)} =>
                          stream.video \in {None} \cup p["mp4"].video
                   /\ stream.audio # None => stream.audio \in p["mp4"].audio \cap Copyable
            /\ source.probed => /\ stream.from = Judged(source, reply.aud)
                                /\ reply.audio = CodecOf(source, stream.from)
            /\ ask.aud # 0 => stream.from = ask.aud
            /\ (source.probed /\ ask.aud = 0 /\ ask.lang = None) => stream.from = prefers
            /\ ask.sub > 0 => reply.sidecar # (stream.burned = ask.sub)
            /\ ask.sub < 0 => stream.burned = 0 /\ ~reply.sidecar
            /\ reply.auto => stream.burned = 0 /\ reply.sidecar

(* "The track ordinals the server actually applied ... so the client's     *)
(* pickers stay in sync with the served stream."                           *)
(* (internal/web/handlers_stream_tv.go:109-111)  A file played as it is    *)
(* has all its tracks, and starts with its default.                        *)
AppliedIsServed ==
    (ask.mode = "auto" /\ pc = "streaming" /\ reply.url = "file" /\ reply.aud # 0) =>
        reply.aud = OrFirst(DefaultOf(source.audio), DOMAIN source.audio)

(* "the decision and the stream that actually gets served stay in          *)
(* agreement.  Largest frame ... also catches unflagged cover art sitting  *)
(* ahead of the real video." (internal/playback/extract.go:49-52)  ffmpeg  *)
(* takes that cover.                                                       *)
JudgedIsServed ==
    (stream.container = "mp4" /\ stream.burned = 0 /\ stream.video # None) =>
        stream.video = Picture(source)
=============================================================================
