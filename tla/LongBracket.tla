---------------------------- MODULE LongBracket ----------------------------
(***************************************************************************)
(* flush_text_buffer (main.c): the text between two code blocks goes into  *)
(* the generated chunk as tmg.print([=*[text]=*]), a Lua long string whose *)
(* number of '=' the function chooses so that nothing in the text closes   *)
(* it.  The loop that chooses it is modelled step by step; the other half  *)
(* is the lexer of the vendored LuaJIT, which decides where the literal    *)
(* really ends and what string it denotes.                                 *)
(*                                                                         *)
(* The text is a sequence of characters, of which only ']', '=', newline   *)
(* and carriage return matter.                                             *)
(***************************************************************************)
EXTENDS Integers, Sequences

CONSTANTS Char,   \* the characters of templates
          Texts   \* the contents of `buffer' that are flushed

ASSUME CharAssumption == {"]", "="} \subseteq Char
ASSUME TextsAssumption == Texts \subseteq Seq(Char)

VARIABLES
  text,         \* buffer->data
  i,            \* index of the outer loop (from 1)
  j,            \* index of the inner loop
  equals,       \* '=' counted after the ']' at i
  max_equals,   \* '=' of the long bracket, as far as the text has been read
  pc            \* "outer", "inner" or "done"

vars == <<text, i, j, equals, max_equals, pc>>

----------------------------------------------------------------------------
(* Closing brackets.                                                       *)

\* At p stands a closing long bracket of level k: ']', k times '=', ']'.
Closer(s, p, k) ==
  /\ p \in 1 .. Len(s) /\ p + k + 1 \in 1 .. Len(s)
  /\ s[p] = "]" /\ s[p + k + 1] = "]"
  /\ \A q \in p + 1 .. p + k : s[q] = "="

\* The levels of the closing brackets inside s.
LevelsIn(s) == {k \in 0 .. Len(s) : \E p \in 1 .. Len(s) : Closer(s, p, k)}

\* One more than the highest of them: what the loop is there to compute.
IsLevel(s, n) ==
  \/ LevelsIn(s) = {} /\ n = 0
  \/ n - 1 \in LevelsIn(s) /\ \A k \in LevelsIn(s) : k < n

\* What follows the opening bracket in the chunk: the text, ']', n '=', ']'.
Body(s, n) ==
  [q \in 1 .. Len(s) + n + 2 |->
     IF q <= Len(s) THEN s[q]
     ELSE IF q \in {Len(s) + 1, Len(s) + n + 2} THEN "]" ELSE "="]

----------------------------------------------------------------------------
(* What the lexer makes of the literal (lex_longstring of lj_lex.c).       *)

\* The literal ends at the first closing bracket of its level.
StopsAt(s, n, p) ==
  /\ Closer(Body(s, n), p, n)
  /\ \A q \in 1 .. p - 1 : ~Closer(Body(s, n), q, n)

Eol == {"\n", "\r"}

\* Length of the line break at p: "\r\n" and "\n\r" count as one.
EolLen(s, p) ==
  IF p + 1 <= Len(s) /\ s[p + 1] \in Eol \ {s[p]} THEN 2 ELSE 1

\* s from position p on, every line break turned into one "\n".
Lines(s) ==
  LET From[p \in 1 .. Len(s) + 2] ==
        IF p > Len(s) THEN <<>>
        ELSE IF s[p] \in Eol THEN <<"\n">> \o From[p + EolLen(s, p)]
        ELSE <<s[p]>> \o From[p + 1]
  IN  From

\* The string the literal denotes; a line break right after the opening
\* bracket is skipped.
LuaString(s, n) ==
  LET stop == CHOOSE p \in 1 .. Len(s) + 1 : StopsAt(s, n, p)
      raw  == SubSeq(Body(s, n), 1, stop - 1)
  IN  IF raw # <<>> /\ raw[1] \in Eol
        THEN Lines(raw)[1 + EolLen(raw, 1)]
        ELSE Lines(raw)[1]

----------------------------------------------------------------------------
(* The loop of flush_text_buffer.                                          *)

\* An empty buffer is not flushed: the early return.
Init ==
  /\ text \in Texts
  /\ i = 1 /\ j = 1
  /\ equals = 0 /\ max_equals = 0
  /\ pc = IF text = <<>> THEN "done" ELSE "outer"

\* The character at i is not ']'.
Advance ==
  /\ pc = "outer" /\ i <= Len(text) /\ text[i] # "]"
  /\ i' = i + 1
  /\ UNCHANGED <<text, j, equals, max_equals, pc>>

\* Defect: the count of the run before is kept.
StartCountNoReset ==
  /\ pc = "outer" /\ i <= Len(text) /\ text[i] = "]"
  /\ j' = i + 1
  /\ pc' = "inner"
  /\ UNCHANGED <<text, i, equals, max_equals>>

\* A ']': start counting what follows it.
StartCount ==
  /\ pc = "outer" /\ i <= Len(text) /\ text[i] = "]"
  /\ equals' = 0
  /\ j' = i + 1
  /\ pc' = "inner"
  /\ UNCHANGED <<text, i, max_equals>>

\* One '=' more.
CountEqual ==
  /\ pc = "inner" /\ j <= Len(text) /\ text[j] = "="
  /\ equals' = equals + 1
  /\ j' = j + 1
  /\ UNCHANGED <<text, i, max_equals, pc>>

\* Defect: a run as long as the longest one before does not raise the level.
EndCountStrict ==
  /\ pc = "inner" /\ ~(j <= Len(text) /\ text[j] = "=")
  /\ max_equals' = IF j <= Len(text) /\ text[j] = "]" /\ equals > max_equals
                     THEN equals + 1 ELSE max_equals
  /\ i' = i + 1
  /\ pc' = "outer"
  /\ UNCHANGED <<text, j, equals>>

\* Defect: the search goes on after the ']' that ends the run.
EndCountSkips ==
  /\ pc = "inner" /\ ~(j <= Len(text) /\ text[j] = "=")
  /\ max_equals' = IF j <= Len(text) /\ text[j] = "]" /\ equals >= max_equals
                     THEN equals + 1 ELSE max_equals
  /\ i' = j + 1
  /\ pc' = "outer"
  /\ UNCHANGED <<text, j, equals>>

\* The run of '=' ends; if a ']' follows, the level must exceed its length.
EndCount ==
  /\ pc = "inner" /\ ~(j <= Len(text) /\ text[j] = "=")
  /\ max_equals' = IF j <= Len(text) /\ text[j] = "]" /\ equals >= max_equals
                     THEN equals + 1 ELSE max_equals
  /\ i' = i + 1
  /\ pc' = "outer"
  /\ UNCHANGED <<text, j, equals>>

\* The whole buffer was read; the literal is written with level max_equals.
Emit ==
  /\ pc = "outer" /\ i > Len(text)
  /\ pc' = "done"
  /\ UNCHANGED <<text, i, j, equals, max_equals>>

Next == Advance \/ StartCount \/ CountEqual \/ EndCount \/ Emit

Spec == Init /\ [][Next]_vars

----------------------------------------------------------------------------

\* Types and ranges of the variables.
TypeOK ==
  /\ text \in Texts
  /\ i \in 1 .. Len(text) + 1
  /\ j \in 1 .. Len(text) + 1
  /\ equals \in 0 .. Len(text)
  /\ max_equals \in 0 .. Len(text)
  /\ pc \in {"outer", "inner", "done"}

\* The loop computes the level it is meant to (main.c 148-164): overlapping
\* candidates such as "]=]==]", where the ']' that ends one run starts the
\* next, are all seen, and no level is wasted.
LevelCorrect == pc = "done" => IsLevel(text, max_equals)

\* Nothing inside the text closes the literal early.  This is what the
\* comment at main.c:148 promises, for a bracket that lies in the text.
NoCloserInside ==
  pc = "done" => \A p \in 1 .. Len(text) : ~Closer(text, p, max_equals)

\* The text ends in ']' and exactly n '=': with the ']' that is written after
\* it this makes a closing bracket that is not inside the text.
EndsHalfClosed(s, n) ==
  /\ Len(s) > n
  /\ s[Len(s) - n] = "]"
  /\ \A q \in Len(s) - n + 1 .. Len(s) : s[q] = "="

\* The lexer reads the whole text and stops at the bracket the function
\* wrote, except exactly when the text ends half closed (main.c 166-183).
StopsAtEndUnlessHalfClosed ==
  pc = "done" /\ text # <<>> =>
    (StopsAt(text, max_equals, Len(text) + 1) <=> ~EndsHalfClosed(text, max_equals))

\* As the comment at main.c:144 has it, a flush is safe: the literal it writes
\* ends where the text ends.  The text "a]" is a counterexample: the chunk
\* has tmg.print([[a]]]), the literal ends one character early and the rest
\* does not parse.
FlushIsSafe ==
  pc = "done" /\ text # <<>> => StopsAt(text, max_equals, Len(text) + 1)

\* README.md:147 has hand-written text stay untouched.  What Lua reads from
\* the literal is the text if it has no carriage returns, which become
\* newlines, does not begin with a newline, which is skipped (the newline after
\* every code block that ends its line), and does not end half closed.
PlainTextKept ==
  pc = "done" /\ text # <<>> /\ text[1] # "\n" /\ ~EndsHalfClosed(text, max_equals)
  /\ (\A q \in 1 .. Len(text) : text[q] # "\r") =>
    LuaString(text, max_equals) = text
=============================================================================
