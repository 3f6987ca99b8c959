---------------------------- MODULE BoundedText -----------------------------
(***************************************************************************)
(* escapeBounded of internal/auth/auth.go: the text of an error that may   *)
(* come from a broker, made printable and cut at a number of bytes.        *)
(*                                                                         *)
(* A text is the sequence of what utf8.DecodeRuneInString yields: code     *)
(* points, or InvalidByte for a byte that is no UTF-8.                     *)
(***************************************************************************)
EXTENDS Integers, Sequences

InvalidByte == -1
MaxRune == \h10FFFF
Backslash == \h5C
Rune == InvalidByte .. MaxRune
Max16 == \hFFFF     \* the last rune of three bytes, or of four hex digits

\* utf8: how many bytes a decoded rune takes.
Size(r) ==
    CASE r < \h80 -> 1
      [] r \in \h80 .. \h7FF -> 2
      [] r \in \h800 .. Max16 -> 3
      [] OTHER -> 4

\* Bidirectional controls, zero-width characters and tags.
IsFormat(r) ==
    \/ r \in {\h061C, \h200E, \h200F, \h2060, \hFEFF}
    \/ r \in \h200B .. \h200D
    \/ r \in \h202A .. \h202E
    \/ r \in \h2066 .. \h2069
    \/ r \in \hE0000 .. \hE007F

\* The C0 controls and DEL; the C1 controls and the line and paragraph separators.
IsControl(r) == r \in 0 .. \h1F \/ r = \h7F
IsBreak(r) == r \in \h80 .. \h9F \/ r \in {\h2028, \h2029}

\* The escape of a rune: \\, \xNN, \uNNNN, \UNNNNNNNN, or the rune itself.
Escape(r) ==
    CASE r = InvalidByte -> "x"
      [] r = Backslash -> "backslash"
      [] IsControl(r) -> "x"
      [] IsBreak(r) -> "u"
      [] IsFormat(r) -> IF r > Max16 THEN "U" ELSE "u"
      [] OTHER -> "raw"

\* How many bytes it takes.
Width(r) ==
    LET e == Escape(r) IN
    CASE e = "x" -> 4
      [] e = "backslash" -> 2
      [] e = "u" -> 6
      [] e = "U" -> 10
      [] e = "raw" -> Size(r)

\* b.Len() after the first i runes of s.
Written(s) ==
    LET w[i \in 0 .. Len(s)] == IF i = 0 THEN 0 ELSE w[i - 1] + Width(s[i])
    IN w

\* Faulty: the limit is looked at before a token is written, not after.
KeptLate(s, limit) ==
    CHOOSE i \in 0 .. Len(s) :
        /\ \A j \in 0 .. i - 1 : Written(s)[j] <= limit
        /\ i < Len(s) => Written(s)[i] > limit

\* The loop stops before the first token that does not fit.
Kept(s, limit) ==
    CHOOSE i \in 0 .. Len(s) :
        /\ Written(s)[i] <= limit
        /\ i < Len(s) => Written(s)[i + 1] > limit

\* The runes that were kept, each with its escape, and whether any was left
\* out; raw is the error that a boundedError unwraps to.  The note that Error()
\* appends to a truncated text, with the length of raw, is fixed and printable
\* and is left out.
EscapeBounded(s, limit) ==
    [raw |-> s,
     text |-> [i \in 1 .. Kept(s, limit) |-> <<Escape(s[i]), s[i]>>],
     truncated |-> Kept(s, limit) < Len(s)]

-----------------------------------------------------------------------------
\* A rune that would end a log line, control a terminal, hide or reorder text,
\* or is none: the C0 and C1 controls and DEL, the line and paragraph separators,
\* and the format characters, for which isFormat's own list is the definition.
Unprintable(r) ==
    \/ r = InvalidByte
    \/ r < 32
    \/ r \in 127 .. 159
    \/ r \in {8232, 8233}
    \/ r \in {1564, 8288, 65279} \cup (8203 .. 8207) \cup (8234 .. 8238)
             \cup (8294 .. 8297) \cup (917504 .. 917631)

\* The bytes of a token of the output.
Bytes(tok) ==
    CASE tok[1] = "raw" -> Size(tok[2])
      [] tok[1] = "backslash" -> 2
      [] tok[1] = "x" -> 4
      [] tok[1] = "u" -> 6
      [] tok[1] = "U" -> 10

TextBytes(text) ==
    LET w[i \in 0 .. Len(text)] == IF i = 0 THEN 0 ELSE w[i - 1] + Bytes(text[i])
    IN w[Len(text)]
=============================================================================
