----------------------------- MODULE MCBackend ------------------------------
(* Two backends without a model_id and one with, sharing their strings.   *)
EXTENDS Backend, TLC

CONSTANTS b0, b1, b2, m

Models == b0 :> NoModel @@ b1 :> NoModel @@ b2 :> m

CacheKeys == {NoModel, m} \X Strings
=============================================================================
