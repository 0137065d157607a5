---------------------------- MODULE TerminalBytes ----------------------------
(***************************************************************************)
(* The bytes of a shell's output that the server treats apart, as symbols. *)
(* All others are text.                                                    *)
(***************************************************************************)
ESC == "ESC"
BEL == "BEL"
ETX == "ETX"
BS == "BS"
CR == "CR"
LF == "LF"

\* A character of two bytes and its rune, and the rune of a byte that is not UTF-8.
Lead == "lead"
Trail == "trail"
Wide == "wide"
BadRune == "U+FFFD"
=============================================================================
