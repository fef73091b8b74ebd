------------------------------ MODULE EntryLog ------------------------------
(* What the write-ahead log of pkg/wal/wal.go promises its cache, free of   *)
(* bytes and lines: appends are kept in their order and read back as they   *)
(* were given.  An append that fails may leave a doubtful end behind, which *)
(* reads as at most one entry of any content and is settled by the next     *)
(* append; that append and the doubtful end may come out as one entry or    *)
(* none.  Nothing older is ever touched.                                    *)
EXTENDS SequencesExt, Integers

CONSTANT AnyEntry  \* what may be given to Append

VARIABLES
  call,    \* the last call of Append and whether it returned an error
  sure,    \* the entries that will be read back whatever happens
  doubt,   \* what the end left by a failed append reads as: <<>> or an entry
  ragged,  \* there is such an end
  broken   \* the writer has failed; it will not write until it is reopened

vars == <<call, sure, doubt, ragged, broken>>

Init ==
  /\ call \in [entry : AnyEntry, ok : {TRUE}] \* nobody has called yet
  /\ sure = <<>> /\ doubt = <<>> /\ ~ragged /\ ~broken

(* The end is clean: exactly the entry is added.                            *)
LogEntry ==
  /\ ~broken /\ ~ragged
  /\ call'.ok
  /\ sure' = Append(sure, call'.entry)
  /\ UNCHANGED <<doubt, ragged, broken>>

(* The end is ragged: the entry and the end become one or none.             *)
LogOntoRagged ==
  /\ ~broken /\ ragged
  /\ call'.ok
  /\ IsPrefix(sure, sure') /\ Len(sure') <= Len(sure) + 1
  /\ doubt' = <<>> /\ ragged' = FALSE
  /\ UNCHANGED broken

LogFails ==
  /\ ~call'.ok
  /\ broken' = TRUE
  /\ Len(doubt') <= 1
  /\ doubt' # <<>> => ragged'
  /\ broken => UNCHANGED <<doubt, ragged>>
  /\ UNCHANGED sure

Reopen == broken' = FALSE /\ UNCHANGED <<call, sure, doubt, ragged>>

Next == call' \in [entry : AnyEntry, ok : BOOLEAN] /\ (LogEntry \/ LogOntoRagged \/ LogFails \/ Reopen)

Spec == Init /\ [][Next]_vars
=============================================================================
