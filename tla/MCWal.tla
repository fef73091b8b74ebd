------------------------------- MODULE MCWal -------------------------------
(* An instance of Wal for TLC: a value with a newline in it and one that   *)
(* ends in what the escape begins with; a TTL of 60 seconds, which a write  *)
(* cut short turns into 6.                                                  *)
EXTENDS Wal

MCKeys == {<<"k">>}
MCValues == {<<NL, "n">>, <<"n", BS>>}
MCTTLs == {<<"6", "0">>}
=============================================================================
