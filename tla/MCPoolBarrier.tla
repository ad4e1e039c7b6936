--------------------------- MODULE MCPoolBarrier ---------------------------
(* Small instances of PoolBarrier for TLC.  Three workers, two of which    *)
(* preloaded the same shard: a head count of three does not by itself mean *)
(* two distinct shards, and two distinct shards need not be two heads that *)
(* stay.                                                                   *)
EXTENDS PoolBarrier, TLC

CONSTANTS w1, w2, w3, w4, none

FourShards == (w1 :> 0) @@ (w2 :> 0) @@ (w3 :> 1) @@ (w4 :> none)
=============================================================================
