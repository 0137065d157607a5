\* Everything up to three bytes that a command prints before its marker, every text
\* of up to three pieces for a follower, and every seven pieces for the transcript;
\* limits that a few bytes exceed.
CONSTANTS
    Marker <- MCMarker
    Printed <- MCPrinted
    Statuses <- MCStatuses
    LineEnds <- MCLineEnds
    Trailing <- MCTrailing
    Limit = 4
    MaxStatusBytes = 3
    Digits <- MCDigits
    Texts <- MCTexts
    Chars <- MCChars
    Renditions = {"bold", "plain", "color 1"}
    MaxLines = 2
    MaxBytes = 5
    MaxPieces = 7
SPECIFICATION Spec
\* The output ends.
CHECK_DEADLOCK FALSE
INVARIANTS
    RunResultIsExact
    StreamedTextIsExact
    ReadEndsWithTheCurrentLine
PROPERTIES
    LinesStandAlone
