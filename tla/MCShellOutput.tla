--------------------------- MODULE MCShellOutput ---------------------------
(***************************************************************************)
(* ShellOutput for model checking: what is printed, as sequences.          *)
(***************************************************************************)
EXTENDS ShellOutput

UpTo3(S) == SeqOf(S, 3)

\* The marker begins twice with the same byte, so that it is found late when one
\* more comes before it, and "uu" may be printed without being its beginning.
MCMarker == <<"u", "u", "k">>

MCPrinted ==
    UpTo3({"u", "a", Lead}) \cup
    {<<"a", Lead, Trail, "a">>, <<"u", "u", "a", Lead, Trail>>, <<"a", "a", "u", "u">>}

MCDigits == {"7", "1", "2"}
\* Two statuses, a word in place of one, and one that is too long.
MCStatuses == {<<"7">>, <<"1", "2">>, <<"?">>, <<"?", "?", "?", "?">>}
MCLineEnds == {<<CR, LF>>, <<LF>>}
MCTrailing == {<<>>, <<"a">>, <<Lead, Trail>>, <<LF, "a", "k">>}

MCPieces ==
    {"a", "^", "C", "newline", "return", "back", "erase", "clear", "color", "title",
     "bell title", "charset", "wide"}
MCTexts ==
    UpTo3(MCPieces) \cup
    {<<ETX, "newline">> \o rest : rest \in SeqOf(MCPieces, 2)} \cup
    {<<"^", "a", "return">> \o rest : rest \in SeqOf(MCPieces, 2)}

MCChars == {"a", CR, InternalMarker}

=============================================================================
