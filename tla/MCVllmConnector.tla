-------------------------- MODULE MCVllmConnector ---------------------------
(* Two requests over one token: a full and a partial block, and a prompt   *)
(* that shares the full block.                                             *)
EXTENDS VllmConnector, TLC

CONSTANTS x, r1, r2

Prompts == r1 :> <<x, x, x>> @@ r2 :> <<x, x>>

CacheKeys == {ModelId} \X TokenHashes
=============================================================================
