--------------------------- MODULE MCMusicLibrary ---------------------------
(* A TLC instance of MusicLibrary: two files of one album in one folder,   *)
(* free to move to another, one of them played once.                       *)
EXTENDS MusicLibrary

Of(s, a, b) == [song |-> s, artist |-> a, albumArtist |-> b, comp |-> "unset"]
FolderOf == [p \in {"p1", "p2", "p3"} |-> IF p = "p3" THEN "d2" ELSE "d1"]
Folder == {[p1 |-> Of("1", "A", "DJ"), p2 |-> Of("2", "B", "DJ"), p3 |-> Gone]}
=============================================================================
