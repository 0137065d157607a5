---------------------------- MODULE OutputStream ----------------------------
(***************************************************************************)
(* What a follower of a command sees of the shell's output:                *)
(* writeSubscription and skipPrefixWriter of src/internal/server/tab.go    *)
(* with the TerminalCleaner of cleaner.go.                                 *)
(*                                                                         *)
(* The cleaner holds a line until it ends, since a carriage return or a    *)
(* backspace may still change it, but no longer than a timer allows.  What *)
(* the shell prints is a sequence of pieces: a character, the end of a     *)
(* line, a return to the start of the line, a step back, the erasure of a  *)
(* character, a control sequence.  A chunk ends anywhere, also inside a    *)
(* piece.  Symbols stand for bytes and, once decoded, for runes.           *)
(***************************************************************************)
EXTENDS Naturals, Sequences, SequencesExt, TerminalBytes

CONSTANTS
    Texts       \* what the shell may print, as sequences of pieces

\* Bytes with a meaning to the cleaner besides: some of 0x40..0x7e, and those that
\* designate a character set.
Finals == {"m", "K"}
Designators == {"(", ")"}

VARIABLES
    text,       \* history: what the shell prints, and how much of it was read
    skipping,   \* the output is that of ctrlCFollow
    cleaner,    \* the TerminalCleaner
    skip,       \* the skipPrefixWriter
    seen,       \* what the client was sent
    over,       \* writeSubscription has returned
    torn,       \* history: a chunk ended inside a character
    late        \* history: a line was flushed that was yet to be changed

streamVars == <<text, skipping, cleaner, skip, seen, over, torn, late>>

NewCleaner == [state |-> "normal", line |-> <<>>, col |-> 0, pendingCR |-> FALSE,
               out |-> <<>>]

Prints == [pieces : Texts, skipping : BOOLEAN]

StreamInit(prints) ==
    /\ \E print \in prints :
          /\ text = [pieces |-> print.pieces, read |-> 0]
          /\ skipping = print.skipping
    /\ cleaner = NewCleaner
    /\ skip = [pending |-> <<>>, done |-> FALSE]
    /\ seen = <<>>
    /\ over = FALSE /\ torn = FALSE /\ late = FALSE

-----------------------------------------------------------------------------
(* TerminalCleaner: each method as a function of the cleaner, with what it   *)
(* writes in out                                                             *)

ApplyPendingCR(c) ==
    IF c.pendingCR THEN [c EXCEPT !.col = 0, !.pendingCR = FALSE] ELSE c

\* The column is never beyond the end of the line.
WriteRune(c, r) ==
    [c EXCEPT !.line = IF c.col < Len(@) THEN [@ EXCEPT ![c.col + 1] = r]
                                         ELSE Append(@, r),
              !.col = @ + 1]

FlushLine(c) ==
    [c EXCEPT !.out = @ \o SubSeq(c.line, 1, c.col), !.line = <<>>, !.col = 0]

\* Outside of control sequences.  The control characters that isAllowedTextRune
\* drops are none of the symbols.
CleanNormal(c, r) ==
    CASE r = ESC -> [ApplyPendingCR(c) EXCEPT !.state = "escape"]
      [] r = ETX -> [ApplyPendingCR(c) EXCEPT !.out = @ \o <<"^", "C">>]
      [] r = BEL -> c
      [] r = LF ->
           [FlushLine([c EXCEPT !.pendingCR = FALSE]) EXCEPT !.out = Append(@, LF)]
      [] r = CR -> [c EXCEPT !.pendingCR = TRUE]
      [] r = BS -> LET d == ApplyPendingCR(c)
                   IN  IF d.col > 0 THEN [d EXCEPT !.col = @ - 1] ELSE d
      [] OTHER -> WriteRune(ApplyPendingCR(c), r)

\* The state in which a rune of a control sequence leaves the cleaner.
ControlState(state, r) ==
    CASE state = "escape" -> CASE r = "[" -> "csi"
                               [] r = "]" -> "osc"
                               [] r \in Designators -> "skip one"
                               [] OTHER -> "normal"
      [] state = "csi" -> IF r \in Finals THEN "normal" ELSE "csi"
      [] state = "osc" -> CASE r = BEL -> "normal"
                            [] r = ESC -> "osc escape"
                            [] OTHER -> "osc"
      [] state = "osc escape" -> IF r = "\\" THEN "normal" ELSE "osc"
      [] state = "skip one" -> "normal"

CleanRune(c, r) ==
    IF c.state = "normal"
      THEN CleanNormal(c, r)
      ELSE [c EXCEPT !.state = ControlState(c.state, r)]

\* The runes that a range over a string yields.
Runes(chunk) ==
    LET Rune(i) ==
            CASE chunk[i] = Lead -> IF i < Len(chunk) /\ chunk[i + 1] = Trail
                                      THEN Wide ELSE BadRune
              [] chunk[i] = Trail -> IF i > 1 /\ chunk[i - 1] = Lead
                                       THEN Trail ELSE BadRune
              [] OTHER -> chunk[i]
    IN  SelectSeq([i \in DOMAIN chunk |-> Rune(i)], LAMBDA r : r # Trail)

\* Variant: a return does not outlast the chunk it ends.
WriteStringAnew(c, chunk) ==
    FoldLeft(CleanRune, [c EXCEPT !.pendingCR = FALSE], Runes(chunk))

WriteString(c, chunk) == FoldLeft(CleanRune, c, Runes(chunk))
Flush(c) == FlushLine([c EXCEPT !.pendingCR = FALSE])
Pending(c) == c.line # <<>> \/ c.pendingCR

-----------------------------------------------------------------------------
(* skipPrefixWriter and writeSubscription                                    *)

Prefix == <<"^", "C">>

\* Variant: the prefix is recognised in one piece only.
DeliverWhole(out) ==
    IF ~skipping \/ skip.done
      THEN seen' = seen \o out /\ UNCHANGED skip
      ELSE /\ skip' = [skip EXCEPT !.done = (out # <<>>)]
           /\ seen' = seen \o IF IsPrefix(Prefix, out)
                                THEN SubSeq(out, Len(Prefix) + 1, Len(out)) ELSE out

\* Write: out is seen, unless all there is so far belongs to the prefix.
Deliver(out) ==
    LET all == skip.pending \o out IN
    CASE ~skipping \/ skip.done -> seen' = seen \o out /\ UNCHANGED skip
      [] skipping /\ ~skip.done /\ IsPrefix(all, Prefix) ->
           /\ skip' = [pending |-> IF all = Prefix THEN <<>> ELSE all,
                       done |-> all = Prefix]
           /\ UNCHANGED seen
      [] OTHER ->
           /\ skip' = [pending |-> <<>>, done |-> TRUE]
           /\ seen' = seen \o IF IsPrefix(Prefix, all)
                                THEN SubSeq(all, Len(Prefix) + 1, Len(all)) ELSE all

\* What a piece is in bytes.
Bytes(piece) ==
    CASE piece = "newline" -> <<CR, LF>>
      [] piece = "return" -> <<CR>>
      [] piece = "back" -> <<BS>>
      [] piece = "erase" -> <<BS, " ", BS>>
      [] piece = "clear" -> <<ESC, "[", "K">>
      [] piece = "color" -> <<ESC, "[", "1", "m">>
      [] piece = "title" -> <<ESC, "]", "a", ESC, "\\">>
      [] piece = "bell title" -> <<ESC, "]", "a", BEL>>
      [] piece = "charset" -> <<ESC, "(", "B">>
      [] piece = "wide" -> <<Lead, Trail>>
      [] OTHER -> <<piece>>

InBytes(pieces) == FlattenSeq([i \in DOMAIN pieces |-> Bytes(pieces[i])])

Output == InBytes(text.pieces)

\* What was cleaned is passed on, and the cleaner goes on with nothing in out.
PassOn(cleaned) ==
    /\ cleaner' = [cleaned EXCEPT !.out = <<>>]
    /\ Deliver(cleaned.out)

\* A chunk of any length.
WriteChunk ==
    /\ ~over
    /\ \E n \in 1..(Len(Output) - text.read) :
          LET chunk == SubSeq(Output, text.read + 1, text.read + n) IN
          /\ PassOn(WriteString(cleaner, chunk))
          /\ torn' = (torn \/ Last(chunk) = Lead)
          /\ text' = [text EXCEPT !.read = @ + n]
    /\ UNCHANGED <<skipping, over, late>>

\* History: of the line that is flushed a part is still to come that goes back to
\* what is sent by then, or the line ends in a return that the flush drops though
\* more is to come.
YetToChange ==
    LET pieces == text.pieces
        End(k) == Len(InBytes(SubSeq(pieces, 1, k)))
        InThisLine(k) == \A j \in 1..(k - 1) : End(j) > text.read => pieces[j] # "newline"
    IN  \E k \in DOMAIN pieces :
            \/ /\ pieces[k] \in {"return", "back", "erase"}
               /\ End(k) > text.read
               /\ InThisLine(k)
            \/ /\ pieces[k] = "return"
               /\ End(k) = text.read
               /\ k < Len(pieces) /\ pieces[k + 1] # "newline"

\* The flush timer, which runs while the cleaner has something pending.
FlushTimer ==
    /\ ~over /\ Pending(cleaner)
    /\ PassOn(Flush(cleaner))
    /\ late' = (late \/ YetToChange)
    /\ UNCHANGED <<text, skipping, over, torn>>

\* The shell is quiet or has exited, or the client is gone.
StreamEnds ==
    /\ ~over
    /\ PassOn(Flush(cleaner))
    /\ over' = TRUE
    /\ late' = (late \/ YetToChange)
    /\ UNCHANGED <<text, skipping, torn>>

StreamNext == WriteChunk \/ FlushTimer \/ StreamEnds

-----------------------------------------------------------------------------
(* The terminal that the shell prints on: the line of its cursor, and what  *)
(* a client may be sent of the lines above                                  *)

Blank == " "

Put(t, char) ==
    [t EXCEPT !.line = SubSeq(@, 1, t.col) \o <<char>> \o SubSeq(@, t.col + 2, Len(@)),
              !.col = @ + 1]

StepBack(t) == [t EXCEPT !.col = IF @ = 0 THEN 0 ELSE @ - 1]

\* The line without the blanks at its end.
Visible(line) ==
    SubSeq(line, 1, CHOOSE n \in 0..Len(line) :
                        /\ \A i \in (n + 1)..Len(line) : line[i] = Blank
                        /\ n = 0 \/ line[n] # Blank)

\* A line whose cursor is left of its end may lose what is right of the cursor.
MaySend(t) ==
    LET line == Visible(t.line)
    IN  {SubSeq(line, 1, n) : n \in t.col..Len(line)}

Show(t, piece) ==
    CASE piece = "newline" ->
           [line |-> <<>>, col |-> 0,
            above |-> {a \o l \o <<LF>> : a \in t.above, l \in MaySend(t)}]
      [] piece = "return" -> [t EXCEPT !.col = 0]
      [] piece = "back" -> StepBack(t)
      [] piece = "erase" -> StepBack(Put(StepBack(t), Blank))
      [] piece = "clear" -> [t EXCEPT !.line = SubSeq(@, 1, t.col)]
      [] piece = "wide" -> Put(t, Wide)
      [] piece = ETX -> Put(Put(t, "^"), "C")
      [] piece \in {"color", "title", "bell title", "charset"} -> t
      [] OTHER -> Put(t, piece)

Screens ==
    LET t == FoldLeft(Show, [above |-> {<<>>}, line |-> <<>>, col |-> 0], text.pieces)
    IN  {a \o l : a \in t.above, l \in MaySend(t)}

\* Wherever the output was cut and whenever the timer flushed it: the client sees
\* the beginning of the text that a terminal shows, each character once, in order
\* and free of controls, without the ^C that ctrlCFollow has announced itself; and
\* when everything was read before the stream ended, all of it.  Except that
\*   - the client may lose what is right of the cursor when a line ends, since
\*     flushLine cuts the line there (cleaner.go:138-140);
\*   - nothing is said once a line was flushed that a return, a step back or an
\*     erasure was yet to change (late), or a chunk ended inside a character
\*     (torn): broadcast passes on whatever was read, and it becomes runes chunk by
\*     chunk;
\*   - the prefix writer keeps a first ^ that nothing follows
\* (tab.go:176-203, 771-863; cleaner.go:32-144).
StreamedTextIsExact ==
    LET Expected(shown) ==
            IF skipping /\ IsPrefix(Prefix, shown)
              THEN SubSeq(shown, Len(Prefix) + 1, Len(shown)) ELSE shown
    IN  ~torn /\ ~late =>
          \E shown \in Screens :
              /\ IsPrefix(seen, Expected(shown))
              /\ over /\ text.read = Len(Output) =>
                    seen = Expected(shown) \/ (skipping /\ shown = <<"^">>)

=============================================================================
