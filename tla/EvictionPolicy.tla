--------------------------- MODULE EvictionPolicy ---------------------------
(* The EvictionPolicy interface of eviction/policy.go with the policies a   *)
(* node may be given (main_cluster.go:125): LFU or LRU, bare or wrapped in  *)
(* an MLPolicy.  The wrapper keeps no key of its own: it hands every hook   *)
(* to its base policy, so the state is the base policy's either way.        *)
EXTENDS LRU, LFU

CONSTANTS Base,    \* the base policy, "LRU" or "LFU"
          ML       \* TRUE: the base policy is wrapped in an MLPolicy

ASSUME BaseAssumption == Base \in {"LRU", "LFU"}
ASSUME MLAssumption == ML \in BOOLEAN

NewPolicy        == IF Base = "LRU" THEN NewLRU ELSE NewLFU
PolicyKeys(p)    == IF Base = "LRU" THEN p.items ELSE LFUKeys(p)
OnGet(p, key)    == IF Base = "LRU" THEN LRUOnGet(p, key) ELSE LFUOnGet(p, key)
OnSet(p, key)    == IF Base = "LRU" THEN LRUOnSet(p, key) ELSE LFUOnSet(p, key)
OnDelete(p, key) == IF Base = "LRU" THEN LRUOnDelete(p, key) ELSE LFUOnDelete(p, key)

(* The base policy's ChooseEviction, which ChooseEvictionDuringRecovery and *)
(* the fallback of MLPolicy.ChooseEviction also use.                        *)
HasVictim(p) == IF Base = "LRU" THEN LRUHasVictim(p) ELSE LFUHasVictim(p)
Victim(p)    == IF Base = "LRU" THEN LRUVictim(p) ELSE LFUVictim(p)

BaseChoices(p) == IF HasVictim(p) THEN {Victim(p)} ELSE {}

(* ChooseEviction once the cache runs: a wrapped policy may return whatever *)
(* key of the cache state it sent the model predicts, or else the base      *)
(* policy's victim (call failed, cooldown, open circuit, empty answer).     *)
Candidates(p, cached) == BaseChoices(p) \cup (IF ML THEN cached ELSE {})
=============================================================================
