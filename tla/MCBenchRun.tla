------------------------------ MODULE MCBenchRun ------------------------------
(***************************************************************************)
(* Two conditions, two requests, and enough launches to fail in each.      *)
(***************************************************************************)
EXTENDS BenchRun

CONSTANTS no_cache, cacheblend

MCConditions == <<no_cache, cacheblend>>
=============================================================================
