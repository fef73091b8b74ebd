------------------------------- MODULE MCReplay -------------------------------
(* The instances of MCCache, with the record of a replay.                   *)
EXTENDS MCCache, CacheReplay
=============================================================================
