------------------------------ MODULE MCMemory ------------------------------
(* The models of llama.cpp for TLC: two that do not report a name, so that  *)
(* the cache and the worker take one for the other.                         *)
EXTENDS Memory

Unnamed == {[name |-> "llama-cpp-unknown", dim |-> d] : d \in {768, 2048}}
=============================================================================
