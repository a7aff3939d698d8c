-------------------------------- MODULE Scan --------------------------------
(***************************************************************************)
(* The loop of tmg_expand (main.c) that turns a template into a Lua chunk: *)
(* characters between delimiters are code and go to `builder' as they are, *)
(* the text around them is collected in `buffer' and flushed as            *)
(* tmg.print([[...]]).                                                     *)
(*                                                                         *)
(* A buffer holds the positions, in the template, of the characters the    *)
(* code has copied there, so that a character's origin is not lost; the    *)
(* chunk is a sequence of atoms: a copied character or something the       *)
(* program adds.  The level of the long brackets is the subject of         *)
(* LongBracket, the growth of the buffers that of Str.                     *)
(***************************************************************************)
EXTENDS Integers, Sequences, FiniteSets

CONSTANTS
  Seps,      \* the delimiters, sequences of characters
  Templates  \* the contents of the files that are expanded

ASSUME SepsAssumption == Seps \subseteq Seq(STRING)
ASSUME TemplatesAssumption == Templates \subseteq Seq(STRING)

VARIABLES
  inp,          \* the file
  sep,          \* the delimiter of this call
  pos,          \* position of the next character fgetc returns
  match_buf,    \* what may be the beginning of a delimiter
  buffer,       \* text that was not flushed yet
  builder,      \* the generated chunk
  lm,           \* linemap_t: line of the template, by line of the chunk
  gen_line,     \* lines of the chunk
  cur_line,     \* line of the template
  code,         \* TRUE inside a code block
  escape_next,  \* a '\' was read just before
  done          \* the chunk is complete

vars == <<inp, sep, pos, match_buf, buffer, builder, lm, gen_line, cur_line,
          code, escape_next, done>>

----------------------------------------------------------------------------
(* Parts of the chunk.                                                     *)

Atom(k, p) == [kind |-> k, at |-> p]

Newline == Atom("nl", 0)        \* the '\n' that replaces a delimiter
Open    == Atom("open", 0)      \* tmg.print([=*[
Close   == Atom("close", 0)     \* ]=*])\n

Copies(k, ps) == [n \in 1 .. Len(ps) |-> Atom(k, ps[n])]

\* flush_text_buffer: an empty buffer writes nothing.
Literal(ps) ==
  IF ps = <<>> THEN <<>> ELSE <<Open>> \o Copies("text", ps) \o <<Close>>

\* How many of the characters at these positions are newlines.
Breaks(ps) == Cardinality({n \in 1 .. Len(ps) : inp[ps[n]] = "\n"})

\* The newlines a flushed literal adds to the chunk.
LiteralBreaks(ps) == IF ps = <<>> THEN 0 ELSE Breaks(ps) + 1

\* Defect: the line of the chunk is noted.
NoteChunkLines(n, line) ==
  /\ gen_line' = gen_line + n
  /\ lm' = lm \o [k \in 1 .. n |-> gen_line + k]

\* note_newline, n times.
NoteNewlines(n, line) ==
  /\ gen_line' = gen_line + n
  /\ lm' = lm \o [k \in 1 .. n |-> line]

\* report_error_with_code: the line of the template, for a line of the chunk
\* that Lua names in a message.
OrigLine(line) ==
  IF line > 0 /\ line <= Len(lm) THEN lm[line] ELSE line

\* The copy of characters into the chunk, newlines noted.
CopyCode(ps, line) ==
  /\ builder' = builder \o Copies("code", ps)
  /\ NoteNewlines(Breaks(ps), line)

----------------------------------------------------------------------------

Init ==
  /\ inp \in Templates
  /\ sep \in Seps
  /\ pos = 1
  /\ match_buf = <<>> /\ buffer = <<>> /\ builder = <<>>
  /\ gen_line = 1 /\ cur_line = 1 /\ lm = <<1>>
  /\ code = FALSE /\ escape_next = FALSE
  /\ done = FALSE

\* fgetc, and the line counter.
ReadChar ==
  /\ ~done /\ pos <= Len(inp)
  /\ pos' = pos + 1
  /\ cur_line' = IF inp[pos] = "\n" THEN cur_line + 1 ELSE cur_line

\* The character may begin a delimiter: the '\' before it is not copied.
SuppressesDelim == sep # <<>> /\ inp[pos] = sep[1]

Escaped == IF SuppressesDelim THEN <<pos>> ELSE <<pos - 1, pos>>

\* Defect: an escaped newline is not noted.
EscapedInCodeUnnoted ==
  /\ ReadChar /\ escape_next /\ code
  /\ escape_next' = FALSE
  /\ builder' = builder \o Copies("code", Escaped)
  /\ UNCHANGED <<inp, sep, match_buf, buffer, lm, gen_line, code, done>>

\* The character after a '\', in a code block.
EscapedInCode ==
  /\ ReadChar /\ escape_next /\ code
  /\ escape_next' = FALSE
  /\ CopyCode(Escaped, cur_line')
  /\ UNCHANGED <<inp, sep, match_buf, buffer, code, done>>

\* Defect: only the '\' is swallowed.
LineContinuationKept ==
  /\ ReadChar /\ escape_next /\ ~code /\ inp[pos] = "\n"
  /\ escape_next' = FALSE
  /\ buffer' = Append(buffer, pos)
  /\ UNCHANGED <<inp, sep, match_buf, builder, lm, gen_line, code, done>>

\* A newline after a '\', in text: both are swallowed.
LineContinuation ==
  /\ ReadChar /\ escape_next /\ ~code /\ inp[pos] = "\n"
  /\ escape_next' = FALSE
  /\ UNCHANGED <<inp, sep, match_buf, buffer, builder, lm, gen_line, code,
                 done>>

\* Any other character after a '\', in text.
EscapedInText ==
  /\ ReadChar /\ escape_next /\ ~code /\ inp[pos] # "\n"
  /\ escape_next' = FALSE
  /\ buffer' = buffer \o Escaped
  /\ UNCHANGED <<inp, sep, match_buf, builder, lm, gen_line, code, done>>

Backslash ==
  /\ ReadChar /\ ~escape_next /\ inp[pos] = "\\"
  /\ escape_next' = TRUE
  /\ UNCHANGED <<inp, sep, match_buf, buffer, builder, lm, gen_line, code,
                 done>>

\* The matching of match_buf against the delimiter, by strncmp.
Candidate == Append(match_buf, pos)

BeginsSep ==
  /\ Len(Candidate) <= Len(sep)
  /\ \A n \in 1 .. Len(Candidate) : inp[Candidate[n]] = sep[n]

Match == ReadChar /\ ~escape_next /\ inp[pos] # "\\"

\* Part of a delimiter has been read.
PartOfSep ==
  /\ Match /\ BeginsSep /\ Len(Candidate) < Len(sep)
  /\ match_buf' = Candidate
  /\ UNCHANGED <<inp, sep, buffer, builder, lm, gen_line, code, escape_next,
                 done>>

\* Defect: the flushed text is not cleared.
WholeSepKeepsText ==
  /\ Match /\ BeginsSep /\ Len(Candidate) = Len(sep)
  /\ code' = ~code
  /\ builder' = builder \o <<Newline>> \o Literal(buffer)
  /\ NoteNewlines(1 + LiteralBreaks(buffer), cur_line')
  /\ match_buf' = <<>>
  /\ UNCHANGED <<inp, sep, buffer, escape_next, done>>

\* Defect: the line break of the delimiter is not noted.
WholeSepUnnoted ==
  /\ Match /\ BeginsSep /\ Len(Candidate) = Len(sep)
  /\ code' = ~code
  /\ builder' = builder \o <<Newline>> \o Literal(buffer)
  /\ NoteNewlines(LiteralBreaks(buffer), cur_line')
  /\ buffer' = <<>>
  /\ match_buf' = <<>>
  /\ UNCHANGED <<inp, sep, escape_next, done>>

\* Defect: the delimiter is dropped instead of replaced.
WholeSepDropped ==
  /\ Match /\ BeginsSep /\ Len(Candidate) = Len(sep)
  /\ code' = ~code
  /\ builder' = builder \o Literal(buffer)
  /\ NoteNewlines(LiteralBreaks(buffer), cur_line')
  /\ buffer' = <<>>
  /\ match_buf' = <<>>
  /\ UNCHANGED <<inp, sep, escape_next, done>>

\* A whole delimiter: a line break, the other mode, and the pending text.
WholeSep ==
  /\ Match /\ BeginsSep /\ Len(Candidate) = Len(sep)
  /\ code' = ~code
  /\ builder' = builder \o <<Newline>> \o Literal(buffer)
  /\ NoteNewlines(1 + LiteralBreaks(buffer), cur_line')
  /\ buffer' = <<>>
  /\ match_buf' = <<>>
  /\ UNCHANGED <<inp, sep, escape_next, done>>

\* No delimiter: all that was pending is copied, in a code block.
NoSepInCode ==
  /\ Match /\ ~BeginsSep /\ code
  /\ CopyCode(Candidate, cur_line')
  /\ match_buf' = <<>>
  /\ UNCHANGED <<inp, sep, buffer, code, escape_next, done>>

\* Defect: of what was pending only the last character is copied.
NoSepInTextLastOnly ==
  /\ Match /\ ~BeginsSep /\ ~code
  /\ buffer' = Append(buffer, pos)
  /\ match_buf' = <<>>
  /\ UNCHANGED <<inp, sep, builder, lm, gen_line, code, escape_next, done>>

\* The same, in text.
NoSepInText ==
  /\ Match /\ ~BeginsSep /\ ~code
  /\ buffer' = buffer \o Candidate
  /\ match_buf' = <<>>
  /\ UNCHANGED <<inp, sep, builder, lm, gen_line, code, escape_next, done>>

\* A '\' that ends the file, and what was pending after it: neither is
\* counted by note_newline.
Remainder == (IF escape_next THEN <<pos - 1>> ELSE <<>>) \o match_buf

\* Defect: the end of the file is counted as a character read.
EndOfFileCounted ==
  /\ ~done /\ pos > Len(inp)
  /\ LET text == IF code THEN buffer ELSE buffer \o Remainder
         tail == IF code THEN Copies("code", Remainder) ELSE <<>>
     IN  /\ builder' = builder \o tail \o Literal(text)
         /\ NoteNewlines(LiteralBreaks(text), cur_line)
  /\ pos' = pos + 1
  /\ buffer' = <<>>
  /\ match_buf' = <<>>
  /\ done' = TRUE
  /\ UNCHANGED <<inp, sep, cur_line, code, escape_next>>

\* After the loop; the last text is flushed.
EndOfFile ==
  /\ ~done /\ pos > Len(inp)
  /\ LET text == IF code THEN buffer ELSE buffer \o Remainder
         tail == IF code THEN Copies("code", Remainder) ELSE <<>>
     IN  /\ builder' = builder \o tail \o Literal(text)
         /\ NoteNewlines(LiteralBreaks(text), cur_line)
  /\ buffer' = <<>>
  /\ match_buf' = <<>>
  /\ done' = TRUE
  /\ UNCHANGED <<inp, sep, pos, cur_line, code, escape_next>>

Next ==
  \/ EscapedInCode \/ LineContinuation \/ EscapedInText \/ Backslash
  \/ PartOfSep \/ WholeSep \/ NoSepInCode \/ NoSepInText
  \/ EndOfFile

Spec == Init /\ [][Next]_vars

----------------------------------------------------------------------------
(* Properties.                                                             *)

\* The delimiter is one character, as the default is.
PlainDelimiter == Len(sep) = 1 /\ sep[1] \notin {"\\", "\n"}

Positions == 1 .. Len(inp)

NoEscapes == \A p \in Positions : inp[p] # "\\"

NoBreakInSep == \A n \in 1 .. Len(sep) : sep[n] # "\n"

Kinds == {"code", "text", "nl", "open", "close"}

\* Types and ranges.
TypeOK ==
  /\ inp \in Templates
  /\ sep \in Seps
  /\ pos \in 1 .. Len(inp) + 1
  /\ match_buf \in Seq(Positions)
  /\ buffer \in Seq(Positions)
  /\ builder \in Seq([kind : Kinds, at : {0} \cup Positions])
  /\ lm \in Seq(Nat) /\ gen_line \in Nat /\ cur_line \in Nat
  /\ code \in BOOLEAN /\ escape_next \in BOOLEAN /\ done \in BOOLEAN

IsCopy(a) == a.kind \in {"code", "text"}

\* What was copied, in the order in which it now stands: the chunk, then the
\* unflushed text, then what may begin a delimiter.
Whole == builder \o Copies("text", buffer) \o Copies("text", match_buf)

InOrder ==
  \A m, n \in 1 .. Len(Whole) :
    m < n /\ IsCopy(Whole[m]) /\ IsCopy(Whole[n]) => Whole[m].at < Whole[n].at

\* No character is copied twice and none overtakes another, on the way
\* through the three buffers that the branches of the loop append to in
\* different orders (main.c 218-284); with a longer delimiter this needs a
\* template without escapes, as OrderKeptAlways shows.
OrderKept == PlainDelimiter \/ NoEscapes => InOrder

\* README.md:139-140 recommends delimiters such as "@@", and line 147 has
\* what is written by hand stay untouched.  A '\' after a single '@' is copied
\* while the '@' still waits in match_buf (main.c 228-232).
OrderKeptAlways == InOrder

EndsLine(a) == a.kind \in {"nl", "close"} \/ (IsCopy(a) /\ inp[a.at] = "\n")

\* The line of the chunk that its n-th atom is on.
ChunkLine(n) == 1 + Cardinality({m \in 1 .. n - 1 : EndsLine(builder[m])})

\* The line of the template that position p is on; a newline ends its line.
TemplateLine(p) == 1 + Cardinality({q \in 1 .. p - 1 : inp[q] = "\n"})

\* The line map has an entry for every line of the chunk: every newline that
\* is appended was noted (comment at main.c:63), however it got there.
LineMapAligned ==
  /\ Len(lm) = gen_line
  /\ gen_line = ChunkLine(Len(builder) + 1)

\* An error is reported where it arises: for a character of a code block,
\* report_error_with_code (main.c 86-104) finds the line of the template the
\* character comes from, however many lines the prints before it take and
\* however long the character was pending in match_buf.
CodeLineExact ==
  PlainDelimiter \/ (NoBreakInSep /\ NoEscapes) =>
    \A n \in DOMAIN builder :
      builder[n].kind = "code" =>
        OrigLine(ChunkLine(n)) = TemplateLine(builder[n].at)

\* A print statement begins a line, and what follows it begins another: a
\* Lua comment that ends a code block does not swallow the text after it.
PrintsOnTheirOwnLine ==
  \A n \in 2 .. Len(builder) :
    builder[n].kind = "open" => EndsLine(builder[n - 1])

----------------------------------------------------------------------------
(* What a template means, for a delimiter of one character.                *)

\* The character at p follows an odd number of '\'.
IsEscaped(p) ==
  \E k \in 1 .. p - 1 :
    /\ k % 2 = 1
    /\ \A q \in p - k .. p - 1 : inp[q] = "\\"
    /\ p - k = 1 \/ inp[p - k - 1] # "\\"

IsDelimiter(p) == inp[p] = sep[1] /\ ~IsEscaped(p)

InCode(p) == Cardinality({q \in 1 .. p - 1 : IsDelimiter(q)}) % 2 = 1

\* The '\' at p takes a meaning away from the character after it.
IsEscape(p) ==
  /\ inp[p] = "\\" /\ ~IsEscaped(p) /\ p < Len(inp)
  /\ \/ inp[p + 1] = sep[1]
     \/ inp[p + 1] = "\n" /\ ~InCode(p)

IsContinuation(p) == p > 1 /\ inp[p] = "\n" /\ IsEscape(p - 1)

Mode(p) == IF InCode(p) THEN "code" ELSE "text"

IsContent(p) == ~(IsDelimiter(p) \/ IsEscape(p) \/ IsContinuation(p))

\* The copied characters of the chunk and their modes are those the template
\* asks for: the delimiter toggles between text and code (README.md:45)
\* unless it is escaped, escapes and continued lines vanish, and everything
\* else is there.
SplitAsMeant ==
  PlainDelimiter /\ done =>
    {a \in {builder[n] : n \in 1 .. Len(builder)} : IsCopy(a)} =
    {Atom(Mode(p), p) : p \in {q \in Positions : IsContent(q)}}

----------------------------------------------------------------------------
(* What a template means, for a delimiter such as "@@".                    *)

RepeatsOneCharacter ==
  sep # <<>> /\ \A n \in 1 .. Len(sep) : sep[n] = sep[1] /\ sep[n] \notin {"\\", "\n"}

\* How many of the delimiter's characters stand right before p and after it.
RunBefore(p) == Cardinality({a \in 1 .. p - 1 : \A q \in a .. p : inp[q] = sep[1]})
RunAfter(p) ==
  Cardinality({b \in p + 1 .. Len(inp) : \A q \in p .. b : inp[q] = sep[1]})

\* A run of them is cut into delimiters from its beginning on; fewer than make
\* one may be left at its end.
InDelimiter(p) ==
  /\ inp[p] = sep[1]
  /\ RunBefore(p) < Len(sep) * ((RunBefore(p) + 1 + RunAfter(p)) \div Len(sep))

DelimitersBefore(p) ==
  Cardinality({q \in 1 .. p - 1 : InDelimiter(q)}) \div Len(sep)

\* With the delimiter that README.md:139-140 recommends, the part of a
\* delimiter that turns out to be none, at its end or at the end of the file,
\* is neither lost nor moved, the delimiter after it is not missed, and all
\* other characters are where the template has them, in the mode that the
\* delimiters before them have set (main.c 242-268, 277-282).  ScanOrder shows
\* why templates with escapes are left out.
SplitAtRuns ==
  RepeatsOneCharacter /\ NoEscapes /\ done =>
    /\ InOrder
    /\ {a \in {builder[n] : n \in 1 .. Len(builder)} : IsCopy(a)} =
       {Atom(IF DelimitersBefore(p) % 2 = 1 THEN "code" ELSE "text", p) :
          p \in {q \in Positions : ~InDelimiter(q)}}

=============================================================================
