----------------------------- MODULE LineEscape -----------------------------
(***************************************************************************)
(* Escape and UnEscape of the client library (src/client/clilib/           *)
(* client.go), which a caller may put around the values of the socket      *)
(* protocol: a value with a line break would be two lines (ClientSession). *)
(* The library itself calls neither.                                       *)
(***************************************************************************)
EXTENDS Naturals, Sequences

CR == "\r"
LF == "\n"
Backslash == "\\"

\* strings.Replace(s, c, "\\" + letter, -1), after each character of s.
Escaped(s, c, letter) ==
    LET out[i \in 0..Len(s)] ==
            IF i = 0 THEN <<>>
            ELSE out[i-1] \o (IF s[i] = c THEN <<Backslash, letter>> ELSE <<s[i]>>)
    IN  out

\* strings.Replace(s, "\\" + letter, c, -1), the same: occurrences cannot overlap.
UnEscaped(s, letter, c) ==
    LET out[i \in 0..Len(s)] ==
            IF i = 0 THEN <<>>
            ELSE IF i > 1 /\ s[i-1] = Backslash /\ s[i] = letter
            THEN Append(out[i-2], c)
            ELSE Append(out[i-1], s[i])
    IN  out

EscapeChar(s, c, letter)   == Escaped(s, c, letter)[Len(s)]
UnEscapeChar(s, letter, c) == UnEscaped(s, letter, c)[Len(s)]

EscapeLF(s) == EscapeChar(s, LF, "n")
EscapeCR(s) == EscapeChar(s, CR, "r")

\* Mutant: the carriage returns come back as line feeds.
UnEscapeCRAsLF(s) == UnEscapeChar(s, "r", LF)

UnEscapeLF(s) == UnEscapeChar(s, "n", LF)
UnEscapeCR(s) == UnEscapeChar(s, "r", CR)

Escape(s)   == EscapeCR(EscapeLF(s))
UnEscape(s) == UnEscapeCR(UnEscapeLF(s))
----------------------------------------------------------------------------
Ambiguous(s) == \E i \in 1..Len(s) - 1 : s[i] = Backslash /\ s[i+1] \in {"r", "n"}

\* Every text of at most five of the characters that matter.
Texts == UNION {[1..n -> {CR, LF, Backslash, "r", "n"}] : n \in 0..5}

\* The texts that do not come back as they were, and those with a backslash before
\* an r or n: Escape leaves that as it is, and UnEscape makes it a line break.
Mangled     == {s \in Texts : UnEscape(Escape(s)) # s}
Ambiguities == {s \in Texts : Ambiguous(s)}
=============================================================================
