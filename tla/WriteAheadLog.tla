--------------------------- MODULE WriteAheadLog ---------------------------
(***************************************************************************)
(* orchestrator/wal.py: the log file that state transitions are appended   *)
(* to, truncated now and then, and read back by recover().                 *)
(*                                                                         *)
(* Entries are numbered in the order they are handed to append, and a line *)
(* has the number of the entry that began it.  Lines are added at the end  *)
(* and a truncation keeps their order, so the numbers say which line comes *)
(* first, and the file is a function from them to lines.  A line that does *)
(* not parse is Garbage; the last line may still lack its newline, because *)
(* a write stopped short (a full disk, a killed process), and the next     *)
(* append goes onto it.  Of a transition only its story and whether it     *)
(* ends it are kept.                                                       *)
(***************************************************************************)
EXTENDS Integers, FiniteSets

CONSTANTS LogStories,
          MaxEntries,   \* bound on the entries handed to append
          MaxTears      \* bound on the writes that stop short

ASSUME LogAssumption == /\ MaxEntries \in Nat /\ MaxTears \in Nat
                        /\ "garbage" \notin LogStories

VARIABLES file,          \* the lines of file_path, by their numbers
          unended,       \* the number of its last line while that has no newline, else 0
          checkpointed,  \* _checkpointed_stories
          next,          \* number of the next entry
          acked,         \* history: the entries append returned from, by their numbers
          dropped,       \* history: the stories ever checkpointed
          tears,         \* history: how many appends stopped short
          cut            \* history: a rewrite of the file stopped short

logVars == <<file, unended, checkpointed, next, acked, dropped, tears, cut>>

Numbers == 1..MaxEntries
Garbage == [story |-> "garbage", final |-> FALSE]
Entry == [story : LogStories, final : BOOLEAN]
NoLines == [n \in {} |-> Garbage]

LogTypeOK == /\ DOMAIN file \subseteq Numbers /\ file \in [DOMAIN file -> Entry \cup {Garbage}]
             /\ DOMAIN acked \subseteq Numbers /\ acked \in [DOMAIN acked -> Entry]
             /\ unended \in {0} \cup DOMAIN file
             /\ checkpointed \subseteq LogStories /\ dropped \subseteq LogStories
             /\ next \in 1..(MaxEntries + 1) /\ tears \in 0..MaxTears /\ cut \in BOOLEAN

LogInit == /\ file = NoLines /\ unended = 0 /\ checkpointed = {} /\ next = 1
           /\ acked = NoLines /\ dropped = {} /\ tears = 0 /\ cut = FALSE

\* The entries of story s among lines: those that do not parse are of none.
Own(lines, s) == {k \in DOMAIN lines : lines[k].story = s}

\* Mutant of Ended: the first entry is looked at.
Ended_First(lines, s) ==
  \E k \in Own(lines, s) : lines[k].final /\ \A j \in Own(lines, s) : k <= j

\* The last entry of story s ends it.
Ended(lines, s) ==
  \E k \in Own(lines, s) : lines[k].final /\ \A j \in Own(lines, s) : j <= k

\* Of which lines recover returns the entries of story s: all that parse,
\* unless the last of them ends it.
Recovered(s) == IF Ended(file, s) THEN {} ELSE Own(file, s)

\* Line e after the others.
Line(lines, e) == [k \in DOMAIN lines \cup {next} |-> IF k = next THEN e ELSE lines[k]]

\* An entry written after an unended line makes one line with it.
Written(e) == IF unended # 0 THEN [file EXCEPT ![unended] = Garbage] ELSE Line(file, e)

\* A story whose end is on record makes no more transitions (StateMachine).
Finished(s) == \E k \in Own(acked, s) : acked[k].final
MayLog(s) == next <= MaxEntries /\ ~Finished(s)

LogAppend(s, final) ==
  /\ MayLog(s)
  /\ LET e == [story |-> s, final |-> final]
     IN  file' = Written(e) /\ acked' = Line(acked, e)
  /\ unended' = 0 /\ next' = next + 1
  /\ UNCHANGED <<checkpointed, dropped, tears, cut>>

\* A write stops short: append raises, or the process dies and a new one
\* starts with no story checkpointed.  None, some or all of the line but its
\* newline has been written.
AppendTears(s, final, restart) ==
  /\ MayLog(s) /\ tears < MaxTears
  /\ \/ UNCHANGED <<file, unended>>
     \/ /\ \E e \in {Garbage, [story |-> s, final |-> final]} : file' = Written(e)
        /\ unended' = IF unended # 0 THEN unended ELSE next
  /\ tears' = tears + 1 /\ next' = next + 1
  /\ checkpointed' = IF restart THEN {} ELSE checkpointed
  /\ UNCHANGED <<acked, dropped, cut>>

LogCheckpoint(s) ==
  /\ Finished(s)
  /\ checkpointed' = checkpointed \cup {s} /\ dropped' = dropped \cup {s}
  /\ UNCHANGED <<file, unended, next, acked, tears, cut>>

\* Mutant of Kept: the condition is the wrong way round.
Kept_Others == {k \in DOMAIN file : file[k] = Garbage \/ file[k].story \in checkpointed}

\* The lines truncate keeps: those of other stories and those it cannot parse.
Kept == {k \in DOMAIN file : file[k].story \notin checkpointed}

\* truncate: nothing is written when there is nothing to remove.
Truncate ==
  /\ Kept # DOMAIN file
  /\ file' = [k \in Kept |-> file[k]] /\ unended' = 0
  /\ UNCHANGED <<checkpointed, next, acked, dropped, tears, cut>>

\* The rewrite, which begins by emptying the file, stops short: before the
\* first line, or in line k, which may parse without its newline, or after it.
TruncateTears(restart) ==
  /\ Kept # DOMAIN file
  /\ \/ file' = NoLines /\ unended' = 0
     \/ \E k \in Kept : \E line \in {Garbage, file[k]} :
          /\ file' = [j \in {i \in Kept : i <= k} |-> IF j = k THEN line ELSE file[j]]
          /\ unended' \in {0, k}
          /\ line # file[k] => unended' = k
  /\ cut' = TRUE
  /\ checkpointed' = IF restart THEN {} ELSE checkpointed
  /\ UNCHANGED <<next, acked, dropped, tears>>

LogNext == \/ \E s \in LogStories, final \in BOOLEAN :
                LogAppend(s, final) \/ \E r \in BOOLEAN : AppendTears(s, final, r)
           \/ \E s \in LogStories : LogCheckpoint(s)
           \/ Truncate \/ \E r \in BOOLEAN : TruncateTears(r)

LogSpec == LogInit /\ [][LogNext]_logVars
-----------------------------------------------------------------------------
Missing == {k \in DOMAIN acked : /\ acked[k].story \notin dropped
                                 /\ ~(k \in DOMAIN file /\ file[k] = acked[k])}

\* A write that stops short costs one acknowledged entry at most, the next
\* one, which goes onto the broken line; the lines before and after it, and a
\* truncation that completes, cost nothing.  Only a truncation that stops
\* short can cost more.
LossIsBounded == cut \/ Cardinality(Missing) <= tears

\* As long as no write stops short, recover returns the acknowledged entries
\* of exactly the stories not ended, each as it was.
RecoversWhatWasAcked ==
  (tears = 0 /\ ~cut) =>
    \A s \in LogStories :
      /\ Recovered(s) = IF Finished(s) THEN {} ELSE Own(acked, s)
      /\ \A k \in Recovered(s) : file[k] = acked[k]
=============================================================================
