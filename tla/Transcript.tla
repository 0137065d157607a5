----------------------------- MODULE Transcript -----------------------------
(***************************************************************************)
(* ansiTranscript of src/internal/server/transcript.go: the lines that a   *)
(* shell has printed, so that the last ones can be read at any time, each  *)
(* in the style it was printed in.                                         *)
(*                                                                         *)
(* The transcript reads the output byte by byte and forgets the lines that *)
(* no longer fit.  Beside it runs the terminal that the user would see,    *)
(* to compare the lines with.  A control sequence is three symbols: ESC, [ *)
(* and its final byte together with its parameters.  Sizes are counted in  *)
(* symbols, a rendition (SGR) being one.                                   *)
(***************************************************************************)
EXTENDS Integers, Sequences, SequencesExt, TerminalBytes

CONSTANTS
    Chars,          \* bound: what is printed, besides ends of lines
    Renditions,     \* bound: which of those that Codes lists occur
    MaxLines,       \* maxTranscriptLines
    MaxBytes,       \* maxTranscriptBytes
    MaxPieces       \* bound: characters, ends of lines and control sequences

ASSUME TranscriptBoundsOK == {MaxLines, MaxBytes, MaxPieces} \subseteq Nat \ {0}

VARIABLES
    transcript,     \* the ansiTranscript
    term,           \* history: the terminal: its line, its style, both saved
    pieces          \* history: how many characters and so on have begun

transcriptVars == <<transcript, term, pieces>>

InternalMarker == "internal marker"     \* __PTYMUX_DONE_ and the like

Default == [bold |-> FALSE, fg |-> -1]
Char(c) == [ch |-> c, codes |-> <<>>]
SGR(codes) == [ch |-> "SGR", codes |-> codes]
Reset == SGR(<<0>>)

NoPending == [text |-> <<>>, start |-> FALSE, drop |-> FALSE]
BlankLine == [cells |-> <<>>, style |-> Default, size |-> 0]

TranscriptInit ==
    /\ transcript = [lines |-> <<>>, totalBytes |-> 0, pending |-> NoPending,
                     savedPending |-> NoPending, state |-> "text",
                     style |-> Default, savedStyle |-> Default, altScreen |-> FALSE]
    /\ term = [now |-> BlankLine, saved |-> BlankLine]
    /\ pieces = 0

-----------------------------------------------------------------------------
(* Styles                                                                  *)

\* parseSGRParameters and applySGR, for these parameters.
ApplySGR(style, codes) ==
    LET params == IF codes = <<>> THEN <<0>> ELSE codes
        Apply(acc, i) ==
            CASE acc.skip > 0 -> [acc EXCEPT !.skip = @ - 1]
              [] params[i] = 38 /\ acc.skip = 0 ->
                   IF i + 2 <= Len(params) /\ params[i + 1] = 5
                     THEN [style |-> [acc.style EXCEPT !.fg = params[i + 2]], skip |-> 2]
                     ELSE acc
              [] OTHER ->
                   [acc EXCEPT !.style =
                      CASE params[i] = 0 -> Default
                        [] params[i] = 1 -> [@ EXCEPT !.bold = TRUE]
                        [] params[i] = 22 -> [@ EXCEPT !.bold = FALSE]
                        [] params[i] \in 30..37 -> [@ EXCEPT !.fg = params[i] - 30]
                        [] params[i] = 39 -> [@ EXCEPT !.fg = -1]
                        [] OTHER -> @]
    IN  FoldLeftDomain(Apply, [style |-> style, skip |-> 0], params).style

\* ansiStyle.sequence: the style in one rendition, or nothing.
Sequence(style) ==
    (IF style.bold THEN <<1>> ELSE <<>>)
      \o (IF style.fg >= 0 THEN <<38, 5, style.fg>> ELSE <<>>)

-----------------------------------------------------------------------------
(* The line that is being printed, and those that were                     *)

\* appendPending, once the line has begun.  A line that is too long is given up.
AppendText(t, item) ==
    IF Len(t.pending.text) = MaxBytes
      THEN [t EXCEPT !.pending.text = <<>>, !.pending.drop = TRUE]
      ELSE [t EXCEPT !.pending.text = Append(@, item)]

\* Variant: a line does not begin with the style that it inherits.
PendingStartBare(t) ==
    IF t.pending.start \/ t.pending.drop THEN t ELSE [t EXCEPT !.pending.start = TRUE]

EnsurePendingStart(t) ==
    IF t.pending.start \/ t.pending.drop THEN t
    ELSE IF t.style = Default THEN [t EXCEPT !.pending.start = TRUE]
    ELSE AppendText([t EXCEPT !.pending.start = TRUE], SGR(Sequence(t.style)))

AppendPending(t, item) ==
    IF t.pending.drop THEN t ELSE AppendText(EnsurePendingStart(t), item)

\* CleanTerminalString of a line: what follows a carriage return replaces it.
Cleaned(line) ==
    LET Clean(c, item) ==
            IF item = Char(CR)
              THEN [c EXCEPT !.return = TRUE]
              ELSE [text |-> (IF c.return THEN <<>> ELSE c.text)
                               \o (IF item.codes = <<>> THEN <<item.ch>> ELSE <<>>),
                    return |-> FALSE]
    IN  FoldLeft(Clean, [text |-> <<>>, return |-> FALSE], line).text

IsInternalMarkerLine(line) == InternalMarker \in ToSet(Cleaned(line))

Closed(line, style) == IF style = Default THEN line ELSE Append(line, Reset)

Sizes(lines) == FoldLeft(LAMBDA sum, line : sum + Len(line), 0, lines)

\* As many of the oldest lines are forgotten as must be.
AddLine(t, line) ==
    IF IsInternalMarkerLine(line) \/ Len(line) > MaxBytes THEN t
    ELSE LET lines == Append(t.lines, line)
             total == t.totalBytes + Len(line)
             Fits(k) == /\ Len(lines) - k <= MaxLines
                        /\ total - Sizes(SubSeq(lines, 1, k)) <= MaxBytes
             evicted == Min({k \in 0..Len(lines) : Fits(k)})
         IN  [t EXCEPT !.lines = SubSeq(lines, evicted + 1, Len(lines)),
                       !.totalBytes = total - Sizes(SubSeq(lines, 1, evicted))]

CommitLine(t) ==
    LET text == t.pending.text
        line == IF text # <<>> /\ Last(text) = Char(CR)
                  THEN Front(text) ELSE text
        closed == IF line = <<>> THEN line ELSE Closed(line, t.style)
    IN  [(IF t.pending.drop THEN t ELSE AddLine(t, closed))
           EXCEPT !.pending = NoPending]

\* Variant: the line that was interrupted is committed, not put aside.
EnterAltScreenCommitting(t) ==
    [CommitLine(t) EXCEPT !.savedStyle = t.style, !.altScreen = TRUE]

EnterAltScreen(t) ==
    [t EXCEPT !.savedStyle = t.style, !.savedPending = t.pending,
              !.altScreen = TRUE, !.pending = NoPending]

LeaveAltScreen(t) ==
    [t EXCEPT !.style = t.savedStyle, !.pending = t.savedPending,
              !.altScreen = FALSE, !.savedPending = NoPending]

\* RecentLines, as lines.
RecentLines(t, count) ==
    LET text == Closed(t.pending.text, t.style)
        showPending == /\ ~t.pending.drop /\ t.pending.text # <<>>
                       /\ ~IsInternalMarkerLine(text)
        all == t.lines \o (IF showPending THEN <<text>> ELSE <<>>)
        newest == {i \in 1..Len(all) + 1 :
                     LET rest == SubSeq(all, i, Len(all))
                     IN  /\ Len(rest) <= count
                         /\ rest = <<>> \/ Sizes(rest) + Len(rest) - 1 <= MaxBytes}
    IN  SubSeq(all, Min(newest), Len(all))
-----------------------------------------------------------------------------
(* The terminal                                                            *)

\* What a rendition means to it.
Codes(rendition) ==
    CASE rendition = "bold" -> <<1>>
      [] rendition = "not bold" -> <<22>>
      [] rendition = "red" -> <<31>>
      [] rendition = "color 1" -> <<38, 5, 1>>
      [] rendition = "plain" -> <<>>
Rendered(rendition, style) ==
    CASE rendition = "bold" -> [style EXCEPT !.bold = TRUE]
      [] rendition = "not bold" -> [style EXCEPT !.bold = FALSE]
      [] rendition \in {"red", "color 1"} -> [style EXCEPT !.fg = 1]
      [] rendition = "plain" -> Default

\* In the alternate screen only what the main screen will have back matters.
TermPrints(c) ==
    term' = IF transcript.altScreen THEN term
            ELSE [term EXCEPT !.now.cells = Append(@, <<c, term.now.style>>),
                              !.now.size = @ + 1]
TermRenders(rendition) ==
    term' = IF transcript.altScreen THEN term
            ELSE [term EXCEPT !.now.style = Rendered(rendition, @), !.now.size = @ + 1]

-----------------------------------------------------------------------------
(* Write: a byte at a time, by the state of the scanner                    *)

\* A piece begins in text.
Begin == transcript.state = "text" /\ pieces < MaxPieces /\ pieces' = pieces + 1
Goto(state) == transcript' = [transcript EXCEPT !.state = state]
Done(t) == transcript' = [t EXCEPT !.state = "text"]

PrintChar ==
    /\ Begin
    /\ \E c \in Chars :
          /\ transcript' = IF transcript.altScreen THEN transcript
                           ELSE AppendPending(transcript, Char(c))
          /\ TermPrints(c)

Newline ==
    /\ Begin /\ ~transcript.altScreen
    /\ transcript' = CommitLine(transcript)
    /\ term' = [term EXCEPT !.now = [BlankLine EXCEPT !.style = term.now.style]]

\* ESC in text; then [ or ], or any byte, which ends the sequence.
Escape ==
    /\ Begin /\ Goto("escape")
    /\ UNCHANGED term
AfterEscape ==
    /\ transcript.state = "escape"
    /\ \E state \in {"csi", "osc", "text"} : Goto(state)
    /\ UNCHANGED <<term, pieces>>

\* What an OSC says is skipped, as far as BEL or ESC \.
EndOSC ==
    /\ transcript.state \in {"osc", "osc escape"} /\ Goto("text")
    /\ UNCHANGED <<term, pieces>>
EscapeInOSC ==
    /\ \/ transcript.state = "osc" /\ Goto("osc escape")
       \/ transcript.state = "osc escape" /\ Goto("osc")
    /\ UNCHANGED <<term, pieces>>

\* handleCSI, by the final byte and the parameters.
Rendition ==
    /\ transcript.state = "csi"
    /\ \E rendition \in Renditions :
          /\ Done(IF transcript.altScreen THEN transcript
                  ELSE [AppendPending(EnsurePendingStart(transcript),
                                      SGR(Codes(rendition)))
                          EXCEPT !.style = ApplySGR(@, Codes(rendition))])
          /\ TermRenders(rendition)
    /\ UNCHANGED pieces

\* ESC [ ? 1049 h, which puts the line and the style aside, and l.  The transcript
\* treats 47 and 1047 alike (transcript.go:190), for which a terminal keeps the style
\* it has; they are not among what the shell writes here.
AltScreenOn ==
    /\ transcript.state = "csi"
    /\ IF transcript.altScreen
         THEN Goto("text") /\ UNCHANGED term
         ELSE /\ Done(EnterAltScreen(transcript))
              /\ term' = [now |-> BlankLine, saved |-> term.now]
    /\ UNCHANGED pieces
AltScreenOff ==
    /\ transcript.state = "csi"
    /\ IF transcript.altScreen
         THEN /\ Done(LeaveAltScreen(transcript))
              /\ term' = [now |-> term.saved, saved |-> BlankLine]
         ELSE Goto("text") /\ UNCHANGED term
    /\ UNCHANGED pieces

\* ESC [ 3 J, which clears what has scrolled off.
Wipe ==
    /\ transcript.state = "csi"
    /\ Done(IF transcript.altScreen THEN transcript
            ELSE [transcript EXCEPT !.lines = <<>>, !.totalBytes = 0])
    /\ UNCHANGED <<term, pieces>>

\* Any other sequence.
OtherControl ==
    /\ transcript.state = "csi" /\ Goto("text")
    /\ UNCHANGED <<term, pieces>>

TranscriptNext ==
    \/ PrintChar \/ Newline
    \/ Escape \/ AfterEscape \/ EndOSC \/ EscapeInOSC
    \/ Rendition \/ AltScreenOn \/ AltScreenOff \/ Wipe \/ OtherControl

-----------------------------------------------------------------------------
(* Properties                                                              *)

\* The cells that a terminal shows of line when it is in its default style, and
\* the style that it is left in.
Shown(line) ==
    LET Show(acc, item) ==
            IF item.ch = "SGR" THEN [acc EXCEPT !.style = ApplySGR(@, item.codes)]
            ELSE [acc EXCEPT !.cells = Append(@, <<item.ch, acc.style>>)]
    IN  FoldLeft(Show, [cells |-> <<>>, style |-> Default], line)

\* Line alone looks as the terminal's cells do, and leaves the terminal as it was.
Stands(line, cells) == Shown(line) = [cells |-> cells, style |-> Default]

IsReturn(cell) == cell[1] = CR
WithoutReturn(cells) ==
    IF cells # <<>> /\ IsReturn(Last(cells)) THEN Front(cells) ELSE cells

\* A line that may be left out: it holds an internal marker, or does not fit with
\* the rendition that it begins with and the one that ends it.
MayBeDropped(line) ==
    \/ \E cell \in ToSet(line.cells) : cell[1] = InternalMarker
    \/ line.size + 2 > MaxBytes

\* Line is added after those that can be read, of which the oldest are forgotten,
\* not more of them than must be.
Adds(lines, line, new) ==
    \E k \in 1..Len(lines) + 1 :
        LET rest == SubSeq(lines, k - 1, Len(lines)) IN
        /\ new = Append(SubSeq(lines, k, Len(lines)), line)
        /\ k > 1 => Len(rest) = MaxLines \/ Sizes(rest) + Len(line) > MaxBytes

\* The end of a line adds that line to those that can be read, such that it reads
\* alone as it was printed, whatever style it inherited from lines before it,
\* whether they were kept or not, and whatever was on the alternate screen in
\* between; no line is forgotten while there is room; and nothing else changes the
\* lines but ESC [ 3 J (transcript.go:54-265, 274-400).
LinesStandAlone ==
    [][ /\ Newline =>
             \/ transcript'.lines = transcript.lines /\ MayBeDropped(term.now)
             \/ /\ transcript'.lines # <<>>
                /\ Adds(transcript.lines, Last(transcript'.lines), transcript'.lines)
                /\ \/ Stands(Last(transcript'.lines), term.now.cells)
                   \/ Stands(Last(transcript'.lines), WithoutReturn(term.now.cells))
        /\ ~Newline /\ ~Wipe => transcript'.lines = transcript.lines ]_transcriptVars

\* What is read at any time is never longer than the limit, and it ends with the
\* line that is being printed, as it is so far, if there is any that may be shown
\* (transcript.go:267-303, 207-224).
ReadEndsWithTheCurrentLine ==
    \A count \in 1..MaxLines + 1 :
        LET read == RecentLines(transcript, count)
            current == term.now.size > 0 /\ ~MayBeDropped(term.now)
        IN  /\ read = <<>> \/ Sizes(read) + Len(read) - 1 <= MaxBytes
            /\ current /\ ~transcript.altScreen =>
                 read # <<>> /\ Stands(Last(read), term.now.cells)

=============================================================================
