---------------------------- MODULE RunCollector ----------------------------
(***************************************************************************)
(* runCollector of src/internal/server/tab.go: it finds the end of a       *)
(* command in the output of the shell, which arrives cut anywhere, and     *)
(* collects what the command printed, up to a limit.                       *)
(*                                                                         *)
(* The shell writes what the command prints, then the marker, which no     *)
(* command can print, the exit status and the end of the line, then, say,  *)
(* the next prompt.  A symbol stands for a byte.                           *)
(***************************************************************************)
EXTENDS Naturals, Sequences, SequencesExt, TerminalBytes

CONSTANTS
    Marker,         \* token and colon, as bytes
    Printed,        \* what a command may print; the marker is not in it
    Statuses,       \* exit statuses, or what is printed in place of one
    LineEnds,       \* how the terminal ends a line
    Trailing,       \* what may follow the line of the status
    Limit,          \* outputLimit
    MaxStatusBytes, \* maxRunStatusBytes
    Digits

ASSUME CollectorBoundsOK ==
    /\ Limit \in Nat /\ MaxStatusBytes \in Nat /\ Marker # <<>>
    /\ \A p \in Printed : IndexFirstSubSeq(Marker, p \o Marker) = Len(p) + 1

VARIABLES
    shell,      \* history: what the shell writes, and how much of it was read
    collector,  \* the runCollector
    slipped     \* history: a read ended inside the CR LF of the status line

collectorVars == <<shell, collector, slipped>>

NewCollector == [pending |-> <<>>, status |-> <<>>, output |-> <<>>,
                 found |-> FALSE, complete |-> FALSE, truncated |-> FALSE,
                 exitCode |-> <<>>, failed |-> FALSE]

Shells == [printed : Printed, exit : Statuses, lineEnd : LineEnds,
           trailing : Trailing, read : {0}]

CollectorInit(shells) ==
    /\ shell \in shells
    /\ collector = NewCollector
    /\ slipped = FALSE

Written == shell.printed \o Marker \o shell.exit \o shell.lineEnd \o shell.trailing
StatusEnds == Len(Written) - Len(shell.trailing)    \* with the end of the line

-----------------------------------------------------------------------------
(* Each method as a function of the collector                              *)

From(s, i) == SubSeq(s, i, Len(s))
Take(s, n) == SubSeq(s, 1, Min({n, Len(s)}))

\* appendOutput and appendBounded.
AppendOutput(c, data) ==
    LET remaining == Limit - Len(c.output) IN
    [c EXCEPT !.output = @ \o Take(data, remaining),
              !.truncated = @ \/ Len(data) > remaining]

\* The status and the end of its line may come in parts too.
ConsumeStatus(c, data) ==
    LET text == c.status \o data
        end == SelectInSeq(text, LAMBDA symbol : symbol \in {CR, LF})
        digits == Take(text, end - 1)
        pair == text[end] = CR /\ end < Len(text) /\ text[end + 1] = LF
        done == [c EXCEPT !.status = <<>>, !.exitCode = digits, !.complete = TRUE]
    IN  CASE end = 0 ->
               [c EXCEPT !.status = text, !.failed = Len(text) > MaxStatusBytes]
          [] end > 0 /\ (digits = <<>> \/ ~(ToSet(digits) \subseteq Digits)) ->
               [c EXCEPT !.status = text, !.failed = TRUE]
          [] OTHER -> AppendOutput(done, From(text, IF pair THEN end + 2 ELSE end + 1))

\* Where the marker begins in data, or 0.
MarkerIn(data) ==
    IF \E i \in DOMAIN data : IsPrefix(Marker, From(data, i))
      THEN IndexFirstSubSeq(Marker, data) ELSE 0

\* What comes after the marker, and the marker itself, at a place in data.
ConsumeFound(c, data) ==
    IF c.complete THEN AppendOutput(c, data) ELSE ConsumeStatus(c, data)
Find(c, data, at) ==
    ConsumeStatus([AppendOutput(c, Take(data, at - 1))
                     EXCEPT !.found = TRUE, !.pending = <<>>],
                  From(data, at + Len(Marker)))

\* Variant: nothing is kept back, so a marker that is cut is missed.
ConsumeAtOnce(c, data) ==
    LET at == MarkerIn(data)
    IN  CASE c.found -> ConsumeFound(c, data)
          [] ~c.found /\ at > 0 -> Find(c, data, at)
          [] OTHER -> AppendOutput(c, data)

\* consume keeps back what may be the beginning of the marker.
Consume(c, data) ==
    LET text == c.pending \o data
        at == MarkerIn(text)
        flush == Len(text) - (Len(Marker) - 1)
    IN  CASE c.found -> ConsumeFound(c, data)
          [] ~c.found /\ at > 0 -> Find(c, text, at)
          [] ~c.found /\ at = 0 /\ flush > 0 ->
               [AppendOutput(c, Take(text, flush))
                  EXCEPT !.pending = From(text, flush + 1)]
          [] OTHER -> [c EXCEPT !.pending = text]

\* result, with completeUTF8Prefix; what formatRunOutput makes of it is left out.
CollectorResult(c) ==
    IF c.output # <<>> /\ Last(c.output) = Lead
      THEN [output |-> Front(c.output), truncated |-> TRUE]
      ELSE [output |-> c.output, truncated |-> c.truncated]

-----------------------------------------------------------------------------
\* The next chunk is of any length.
NextChunk(n) == SubSeq(Written, shell.read + 1, shell.read + n)
Read(n) ==
    /\ shell' = [shell EXCEPT !.read = @ + n]
    /\ slipped' = (slipped \/ (shell.read + n = StatusEnds - 1
                               /\ Last(NextChunk(n)) = CR))

\* runWithLimit returns with an error when the status is not one.
RunWithLimit ==
    /\ ~collector.complete /\ ~collector.failed
    /\ \E n \in 1..(Len(Written) - shell.read) :
          Read(n) /\ collector' = Consume(collector, NextChunk(n))

\* Once the status is complete; it returns when the shell is quiet, at any time.
CollectQuietOutput ==
    /\ collector.complete
    /\ \E n \in 1..(Len(Written) - shell.read) :
          Read(n) /\ collector' = AppendOutput(collector, NextChunk(n))

CollectorNext == RunWithLimit \/ CollectQuietOutput

-----------------------------------------------------------------------------
\* Wherever the output of the shell was cut: the command is found complete as soon
\* as the line of its status is read, with the status it wrote, and not before;
\* the result is what it printed and what followed, cut at the limit and then at
\* the end of a character, and is said to be truncated exactly when something is
\* missing.  The one trace that a cut leaves is an LF, when the CR LF that ends the
\* line of the status is cut in two (tab.go:68-149, 290-308, 903-931).
RunResultIsExact ==
    LET arrived == shell.printed
                     \o (IF slipped THEN Take(<<LF>>, shell.read - StatusEnds + 1)
                                    ELSE <<>>)
                     \o Take(shell.trailing, shell.read - StatusEnds)
        kept == Take(arrived, Limit)
        result == CollectorResult(collector)
    IN  /\ shell.read >= StatusEnds => collector.complete \/ collector.failed
        /\ collector.complete =>
              /\ shell.read >= StatusEnds - 1
              /\ collector.exitCode = shell.exit
              /\ result.output = IF kept # <<>> /\ Last(kept) = Lead
                                   THEN Front(kept) ELSE kept
              /\ result.truncated = (result.output # arrived)
        /\ collector.failed => ~(ToSet(shell.exit) \subseteq Digits)

=============================================================================
