--------------------------------- MODULE Rules ---------------------------------
(***************************************************************************)
(* OutputComparer (app/judge/runner.py), put beside a plain statement of   *)
(* what it computes.  A text is a sequence of letters, a line one without  *)
(* Newline.                                                                *)
(***************************************************************************)
EXTENDS Integers, Sequences, FiniteSetsExt

Newline == "\n"
Return  == "\r"

CONSTANTS
  Letters, \* characters
  Blank,   \* those that str.strip removes
  Texts    \* what a test may expect and a program may print

ASSUME ComparerAssumption == Texts \subseteq Seq(Letters) /\ {Newline, Return} \subseteq Blank

VARIABLE texts \* the expected output and the actual one

-----------------------------------------------------------------------------

Without(s, places) ==
  LET from[n \in 1 .. Len(s) + 1] ==
        IF n > Len(s) THEN <<>>
        ELSE IF n \in places THEN from[n + 1]
        ELSE <<s[n]>> \o from[n + 1]
  IN  from[1]

Unix(s) == Without(s, {n \in 1 .. Len(s) - 1 : s[n] = Return /\ s[n + 1] = Newline})

Lines(s) ==
  LET from[n \in 1 .. Len(s) + 1] ==
        IF n > Len(s) THEN << <<>> >>
        ELSE IF s[n] = Newline THEN << <<>> >> \o from[n + 1]
        ELSE << <<s[n]>> \o Head(from[n + 1]) >> \o Tail(from[n + 1])
  IN  from[1]

Stripped(line) == SubSeq(line, 1, Max({0} \cup {n \in DOMAIN line : line[n] \notin Blank}))

\* mutant: blank lines at the end are kept
Neat_Keeps(lines) == [n \in DOMAIN lines |-> Stripped(lines[n])]

Neat(lines) ==
  [n \in 1 .. Max({0} \cup {n \in DOMAIN lines : Stripped(lines[n]) # <<>>}) |-> Stripped(lines[n])]

Normalized(s) == Neat(Lines(Unix(s)))

Accepted(expected, actual) == Normalized(expected) = Normalized(actual)

Compare == texts \in Texts \X Texts

-----------------------------------------------------------------------------
(* Properties *)

\* Blanks from here on to the end of the line or of the text.
Invisible(s) ==
  {n \in DOMAIN s : \E last \in n .. Len(s) :
     /\ \A k \in n .. last : s[k] \in Blank
     /\ last = Len(s) \/ (s[last + 1] = Newline /\ \A k \in n .. last : s[k] # Newline)}

Printed(s) == Without(s, Invisible(s))

\* "忽略行尾空白和结尾的空行" (OutputComparer): two outputs are equal exactly
\* if they print the same but for blanks at the end of a line or of the text.
ComparesWhatIsPrinted == Accepted(texts[1], texts[2]) <=> Printed(texts[1]) = Printed(texts[2])
================================================================================
