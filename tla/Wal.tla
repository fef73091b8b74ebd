-------------------------------- MODULE Wal --------------------------------
(* The write-ahead log of pkg/wal/wal.go, as text: Append writes an entry   *)
(* as a line, ReadAll splits the file into lines and fields again.          *)
(*                                                                          *)
(* A text is a sequence of characters; an operation is one character, and   *)
(* so are a tab, a newline and a backslash.  What lets one entry be         *)
(* mistaken for another is kept: separators, the escape, partial lines.     *)
(* The file survives the process; its buffered writer holds nothing between *)
(* two calls, since Append flushes, and an error of it is sticky.           *)
EXTENDS SequencesExt, Integers

CONSTANTS
  Keys, Values, TTLs,  \* texts: what entries are made of
  MaxLine,             \* lines this long make bufio.Scanner fail (64 KB)
  MaxAppends           \* bound: calls of Append explored

TAB == "tab"
NL  == "newline"
BS  == "backslash"
Digits == {"0", "6"}
Zero == <<"0">>

ASSUME TextAssumption ==
  /\ Keys # {}
  /\ \A text \in Keys \cup Values \cup TTLs : text \in Seq(ToSet(text))
  /\ \A ttl \in TTLs : ttl # <<>> /\ ToSet(ttl) \subseteq Digits
ASSUME BoundAssumption == MaxLine \in Nat /\ MaxAppends \in Nat

VARIABLES
  lines,   \* the complete lines in the file
  rest,    \* the text in the file after the last newline
  broken,  \* the buffered writer has met an error and keeps it
  call,    \* the last call of Append: its entry, and ok unless it failed
  appends  \* calls of Append so far (bound only)

vars == <<lines, rest, broken, call, appends>>
-----------------------------------------------------------------------------
(* The parts of a text between its separators, the last of at most limit    *)
(* parts whatever is left.                                                  *)
SplitN(text, sep, limit) ==
  LET Cuts(i) == {j \in i..Len(text) : text[j] = sep}
      From[n \in 1..limit] ==
        [i \in 1..(Len(text) + 1) |->
           IF n = 1 \/ Cuts(i) = {} THEN <<SubSeq(text, i, Len(text))>>
           ELSE <<SubSeq(text, i, Min(Cuts(i)) - 1)>> \o From[n - 1][Min(Cuts(i)) + 1]]
  IN From[limit][1]

AllParts(text, sep) == SplitN(text, sep, Len(text) + 1)

(* The text is written at the end of the file.                              *)
Written(text) ==
  LET parts == AllParts(rest \o text, NL)
  IN lines' = lines \o Front(parts) /\ rest' = Last(parts)
-----------------------------------------------------------------------------
(* Append: an entry as a line.                                              *)

SetEntry(key, val, ttl) == [op |-> "set", key |-> key, val |-> val, ttl |-> ttl]
DeleteEntry(key) == [op |-> "delete", key |-> key, val |-> <<>>, ttl |-> Zero]

(* Append refuses any other operation.                                      *)
Entries ==
  {SetEntry(key, val, ttl) : key \in Keys, val \in Values, ttl \in TTLs}
    \cup {DeleteEntry(key) : key \in Keys}

(* Mutant: nothing is escaped.                                              *)
Verbatim(val) == val

(* strings.ReplaceAll of the newlines; a backslash stays as it is.          *)
Escape(val) ==
  FlattenSeq([i \in DOMAIN val |-> IF val[i] = NL THEN <<BS, "n">> ELSE <<val[i]>>])

Line(entry) ==
  <<entry.op, TAB>> \o entry.key \o <<TAB>> \o Escape(entry.val) \o <<TAB>>
    \o entry.ttl \o <<NL>>
-----------------------------------------------------------------------------
(* ReadAll: a line as an entry, or as none.                                 *)

(* The reverse of Escape, which takes a value's own backslash-n for one of  *)
(* its making.                                                              *)
Unescape(text) ==
  LET read[i \in 0..Len(text)] ==
        IF i = 0 THEN <<>>
        ELSE LET before == read[i - 1]
             IN IF i > 1 /\ text[i - 1] = BS /\ text[i] = "n" THEN Append(Front(before), NL)
                ELSE Append(before, text[i])
  IN read[Len(text)]

(* Mutant: one field too few, the format before the TTL was added.          *)
ThreeFields(line) == SplitN(line, TAB, 3)

Fields(line) == SplitN(line, TAB, 4)

(* strconv.ParseInt; what is no number is no TTL.                           *)
ParsedTTL(f) ==
  IF Len(f) = 4 /\ f[4] # <<>> /\ ToSet(f[4]) \subseteq Digits THEN f[4] ELSE Zero

(* Malformed lines and unknown operations are skipped.                      *)
ReadLine(line) ==
  LET f == Fields(line)
  IN CASE f[1] = <<"delete">> /\ Len(f) >= 2 -> <<DeleteEntry(f[2])>>
       [] f[1] = <<"set">> /\ Len(f) >= 3 ->
            <<SetEntry(f[2], Unescape(f[3]), ParsedTTL(f))>>
       [] OTHER -> <<>>

ReadLines(text) == FlattenSeq([i \in DOMAIN text |-> ReadLine(text[i])])

(* One line that is too long and ReadAll returns an error, no entries.      *)
Readable ==
  Len(rest) < MaxLine /\ \A i \in DOMAIN lines : Len(lines[i]) < MaxLine
-----------------------------------------------------------------------------
Init ==
  /\ lines = <<>> /\ rest = <<>>
  /\ broken = FALSE
  /\ call = [entry |-> CHOOSE entry \in Entries : TRUE, ok |-> TRUE]
  /\ appends = 0

AppendEntry(entry) ==
  /\ ~broken
  /\ Written(Line(entry))
  /\ call' = [entry |-> entry, ok |-> TRUE]
  /\ UNCHANGED broken

(* The write fails, or a crash cuts it short, with any part of the line in  *)
(* the file; after an error nothing more is written.                        *)
AppendFails(entry) ==
  /\ IF broken THEN UNCHANGED <<lines, rest>>
     ELSE \E i \in 0..(Len(Line(entry)) - 1) : Written(SubSeq(Line(entry), 1, i))
  /\ call' = [entry |-> entry, ok |-> FALSE]
  /\ broken' = TRUE

(* A new process opens the file at its end and reads it; unless it is       *)
(* readable NewCache fails and the process does not start.                  *)
Reopen ==
  /\ Readable
  /\ broken' = FALSE
  /\ UNCHANGED <<lines, rest, call, appends>>

Next ==
  \/ /\ appends < MaxAppends
     /\ appends' = appends + 1
     /\ \E entry \in Entries : AppendEntry(entry) \/ AppendFails(entry)
  \/ Reopen

Spec == Init /\ [][Next]_vars
-----------------------------------------------------------------------------
(* The abstract log: as the entries that complete lines read as, and those  *)
(* of what follows them.                                                    *)
AbstractLog == INSTANCE EntryLog WITH
  AnyEntry <- Entries,
  sure     <- ReadLines(lines),
  doubt    <- ReadLine(rest),
  ragged   <- rest # <<>>

(* The text keeps what the cache takes its log for (README.md:133): an      *)
(* entry whose Append returned no error, onto a clean end, is read back at  *)
(* its place as it was given, newlines in its value and all; what a write   *)
(* cut short at any character leaves behind reads as one entry at most, and *)
(* costs, after a restart, no more than the one append that follows it.     *)
ImplementsEntryLog == AbstractLog!Spec

Occurs(part, text) ==
  \E i \in 0..(Len(text) - Len(part)) : SubSeq(text, i + 1, i + Len(part)) = part

Plain(key, val) ==
  /\ ~Occurs(<<TAB>>, key) /\ ~Occurs(<<NL>>, key)
  /\ ~Occurs(<<TAB>>, val) /\ ~Occurs(<<BS, "n">>, val)

Texts(length) == UNION {[1..n -> {TAB, NL, BS, "n"}] : n \in 0..length}

(* Which calls the promise holds for: over every short key and value of the *)
(* critical characters, the line of a Set appended to an empty file reads   *)
(* back as that Set, and as nothing else besides, exactly when neither      *)
(* holds a tab, the key no newline and the value no backslash before an "n" *)
(* (wal.go:47 escapes newlines in values only).                             *)
ExactWhenPlain ==
  lines = <<>> /\ rest = <<>> =>
    \A key \in Texts(2), val \in Texts(3) :
      LET set == SetEntry(key, val, Zero)
      IN ReadLines(Front(AllParts(rest \o Line(set), NL))) = <<set>> <=> Plain(key, val)
=============================================================================
