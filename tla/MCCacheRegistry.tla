-------------------------- MODULE MCCacheRegistry --------------------------
(* Constants for TLC: a worker's key is the worker itself. *)
EXTENDS CacheRegistry
=============================================================================
