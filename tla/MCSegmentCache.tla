--------------------------- MODULE MCSegmentCache ---------------------------
(* Two players, two segments of one asset, one slot of each kind.    *)
EXTENDS SegmentCache, TLC

CONSTANTS s1, s2, d1

Segs == {s1, s2}
Dirs == {d1}
Asset == (s1 :> d1) @@ (s2 :> d1)
OneSeg == {s1}
OneAsset == (s1 :> d1)
Alike == Permutations(Client) \cup Permutations(Build) \cup Permutations(Segs)
=============================================================================
