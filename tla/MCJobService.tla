---------------------------- MODULE MCJobService ----------------------------
(* Small instances of the job service for TLC.                             *)
EXTENDS JobService, TLC

(* The types are named after what the code does with them: a tv_scan never *)
(* yields, tv_thumb yields and is cosmetic, book_thumb yields and is       *)
(* missing from cosmeticJobTypes.  Scans are enqueued with Enqueue, the    *)
(* jobs of a scan's chain with EnqueueUnique.                              *)
Types == {"tv_scan", "tv_thumb"}
TypesBooks == {"tv_scan", "tv_thumb", "book_thumb"}
CosmeticTypes == {"tv_thumb"}
AllSweeps == {"tv_thumb", "book_thumb"}

Requests == [type : JobType \ Sweep, lib : Lib, dedup : {FALSE}]
            \cup [type : Sweep, lib : Lib, dedup : {TRUE}]

CallersAlike == Permutations(Caller)
=============================================================================
