-------------------------------- MODULE Parser --------------------------------
(****************************************************************************)
(* The lexer of the Mosc compiler (Parser.c): nextToken, called until it    *)
(* has made EOF_TOKEN. The code of a string's interpolations is lexed       *)
(* between the parts of the string, which makes the lexer a machine with a  *)
(* stack: parens counts, for each `${` not yet closed, the braces that are. *)
(*                                                                          *)
(* A source is a sequence of characters, positions count from 1, and the    *)
(* C string's '\0' is at Len(source) + 1. What is read beyond it is         *)
(* undefined: the model stops there (Beyond). A few characters stand for    *)
(* the ones the code treats alike.                                          *)
(****************************************************************************)
EXTENDS Integers, Sequences

CONSTANTS Sources,                    \* the texts that may be lexed
          Keywords,                   \* the reserved words, as sequences of characters
          MAX_INTERPOLATION_NESTING

ASSUME NestingAssumption == MAX_INTERPOLATION_NESTING \in Nat

VARIABLES source, currentChar, currentLine, parens, interpolating,
          previous, current, next,    \* the tokens consumed, consumed next, lexed last
          hasError,
          lexed                       \* a history variable: every token nextToken left in next
vars == <<source, currentChar, currentLine, parens, interpolating, previous, current, next, hasError, lexed>>

NUL     == "\\0"
QUOTE   == "\""
BRACE   == "{"
CLOSING == "}"
COMMA   == ","

\* A source is a C string.
ASSUME SourcesAssumption ==
  \A s \in Sources : s \in Seq(STRING) /\ \A p \in 1..Len(s) : s[p] # NUL

Char(p) == IF p \in 1..Len(source) THEN source[p] ELSE NUL

Names        == {"a", "b", "e", "o", "u", "x"}
Digits       == {"0", "1", "9"}
HexDigits    == Digits \cup {"a", "b", "e"}
OctalDigits  == {"0", "1"}
BinaryDigits == {"0", "1"}
Blanks       == {" ", "\r", "\t"}
isName(c)  == c \in Names
isDigit(c) == c \in Digits
isWhitespace(c) == c \in {" ", "\t"}

\* The first position from p on whose character is not in `class`.
Past(p, class) ==
  CHOOSE q \in p..(Len(source) + 1) : Char(q) \notin class /\ \A r \in p..(q - 1) : Char(r) \in class

Newlines(from, to) == LET n[p \in Nat] == IF p >= to THEN 0 ELSE n[p + 1] + (IF Char(p) = "\n" THEN 1 ELSE 0)
                      IN n[from]

\* Where the token after position p begins, past blanks and comments; `depth`
\* is the nesting of the block comment p is in. The star that opens a comment
\* may also close it.
Opens(p)  == Char(p) = "#" /\ Char(p + 1) = "*"
Closes(p) == Char(p) = "*" /\ Char(p + 1) = "#"
LineEnd(p) == Past(p, {Char(r) : r \in p..Len(source)} \ {"\n"})

skipped ==
  LET skip[p \in Nat] == [depth \in Nat |->
        IF depth > 0
        THEN CASE Char(p) = NUL -> [to |-> p, error |-> TRUE]
               [] Opens(p)  -> skip[p + 2][depth + 1]
               [] Closes(p) -> skip[p + 2][depth - 1]
               [] OTHER     -> skip[p + 1][depth]
        ELSE CASE Char(p) \in Blanks -> skip[p + 1][0]
               [] Opens(p) -> skip[p + 1][1]
               [] Char(p) = "#" /\ ~Opens(p) -> skip[LineEnd(p)][0]
               [] OTHER -> [to |-> p, error |-> FALSE]]
  IN skip

\* What lexing a piece of the source gives: the token's type, where the token
\* starts and where lexing goes on, whether it reported an error, how many
\* newlines were read twice, and a literal's value.
Piece(type, start, to, error, reread, text) ==
  [type |-> type, start |-> start, to |-> to, error |-> error, reread |-> reread, text |-> text]

(****************************************************************************)
(* Numbers. readHexDigit and its like consume the character that ends the   *)
(* number and step back over it, which counts a newline twice.              *)
(****************************************************************************)
Again(q) == IF Char(q) = "\n" THEN 1 ELSE 0

Based(p, digits, start) == LET to == Past(p + 2, digits)
                           IN Piece("NUMBER_CONST", start, to, FALSE, Again(to), <<>>)

readNumber(p) ==
  LET whole == Past(p, Digits)
      fraction == IF Char(whole) = "." /\ isDigit(Char(whole + 1)) THEN Past(whole + 1, Digits) ELSE whole
      exponent == fraction + (IF Char(fraction + 1) \in {"+", "-"} THEN 2 ELSE 1)
      to == IF Char(fraction) = "e" THEN Past(exponent, Digits) ELSE fraction
  IN Piece("NUMBER_CONST", p, to, Char(fraction) = "e" /\ to = exponent, 0, <<>>)

Number(p) ==
  CASE Char(p) = "0" /\ Char(p + 1) = "x" -> Based(p, HexDigits, p)
    [] Char(p) = "0" /\ Char(p + 1) = "b" -> Based(p, BinaryDigits, p + 2)
    [] Char(p) = "0" /\ Char(p + 1) = "o" -> Based(p, OctalDigits, p + 2)
    [] OTHER -> readNumber(p)

readName(p) ==
  LET to == Past(p + 1, Names \cup Digits)
  IN Piece(IF SubSeq(source, p, to - 1) \in Keywords THEN "KEYWORD" ELSE "ID", p, to, FALSE, 0, <<>>)

(****************************************************************************)
(* Strings.                                                                 *)
(****************************************************************************)
\* readHexEscape of n digits at p: on a quote or the end it steps back, so
\* that the character before is read once more, as part of the string.
readHexEscape(p, n) ==
  LET to == CHOOSE q \in p..(p + n) : /\ \A r \in p..(q - 1) : Char(r) \in HexDigits
                                      /\ q < p + n => Char(q) \notin HexDigits
  IN [to |-> IF to < p + n /\ Char(to) \in {QUOTE, NUL} THEN to - 1 ELSE to,
      error |-> to < p + n,
      reread |-> IF to < p + n THEN Again(to) ELSE 0]

EscapeDigits(c) == CASE c = "x" -> 2 [] c = "u" -> 4 [] OTHER -> 0

\* The escape sequence whose backslash is at p.
Escape(p) ==
  LET c == Char(p + 1)
  IN IF EscapeDigits(c) > 0 THEN readHexEscape(p + 2, EscapeDigits(c))
     ELSE [to |-> p + 2, error |-> c \notin {QUOTE, "\\", "$", BRACE, "0", "a", "b", "e"}, reread |-> 0]

\* readString from p on. `room` says whether parens has room for an
\* interpolation; without, the `{` is dropped and the string goes on. A
\* backslash before the '\0' makes the loop read beyond it.
readString(p, room) ==
  LET Adding(piece, char, error, reread) ==
        [piece EXCEPT !.text = char \o @, !.error = @ \/ error, !.reread = @ + reread]
      string[q \in Nat] ==
        CASE q > Len(source) + 1 -> Piece("BEYOND", p, q, FALSE, 0, <<>>)
          [] Char(q) = QUOTE -> Piece("STRING_CONST", p, q + 1, FALSE, 0, <<>>)
          [] Char(q) = "\r" -> string[q + 1]
          [] q = Len(source) + 1 -> Piece("STRING_CONST", p, q, TRUE, 0, <<>>)
          [] Char(q) = "$" /\ isName(Char(q + 1)) -> Piece("DOLLAR_INTERPOL", p, q + 1, FALSE, 0, <<>>)
          [] Char(q) = "$" /\ Char(q + 1) = BRACE -> IF room THEN Piece("DOLLAR_INTERPOL", p, q + 2, FALSE, 0, <<>>)
                                                   ELSE Adding(string[q + 2], <<"$">>, TRUE, 0)
          [] Char(q) = "\\" -> LET escape == Escape(q)
                               IN Adding(string[escape.to], <<"\\">>, escape.error, escape.reread)
          [] OTHER -> Adding(string[q + 1], <<Char(q)>>, FALSE, 0)
  IN string[p]

\* The raw string whose content starts at p: to its three quotes, or until
\* fewer than three characters are left; then the code steps back one and
\* still passes over two.
RawEnd(p) ==
  CHOOSE q \in p..(Len(source) + 1) :
    LET Stops(r) == /\ Char(r) # "\r"
                    /\ \/ \A i \in 0..2 : Char(r + i) = QUOTE
                       \/ Char(r) = NUL \/ Char(r + 1) = NUL \/ Char(r + 2) = NUL
    IN Stops(q) /\ \A r \in p..(q - 1) : ~Stops(r)

\* Fault: a blank at the end of the last line makes it count as text.
SkipEnd_blank(s, i, c) == IF c = "\n" THEN i - 1 ELSE -1

\* What would be cut from the end, after the i-th character, c.
SkipEnd(s, i, c) == CASE c = "\n" -> i - 1 [] isWhitespace(c) -> s.skipEnd [] OTHER -> -1

\* readRawString's trimming: the content is scanned once, remembering where
\* blanks at its start and at its end would be cut. Positions count from 0.
Scanned(content) ==
  LET scan[i \in 0..Len(content)] ==
        IF i = 0 THEN [skipStart |-> 0, firstNewline |-> -1, skipEnd |-> -1, lastNewline |-> -1]
        ELSE LET s == scan[i - 1]
                 c == content[i]
             IN [skipStart    |-> CASE s.firstNewline # -1 \/ c = "\n" -> s.skipStart
                                    [] s.firstNewline = -1 /\ isWhitespace(c) /\ s.skipStart # -1 -> i
                                    [] OTHER -> -1,
                 firstNewline |-> IF c = "\n" /\ s.firstNewline = -1 THEN i - 1 ELSE s.firstNewline,
                 lastNewline  |-> IF c = "\n" THEN i - 1 ELSE s.lastNewline,
                 skipEnd      |-> SkipEnd(s, i, c)]
  IN scan

rawText(content) ==
  LET last   == Scanned(content)[Len(content)]
      offset == IF last.firstNewline # -1 /\ last.skipStart = last.firstNewline THEN last.firstNewline + 1 ELSE 0
      count  == IF last.lastNewline # -1 /\ last.skipEnd = last.lastNewline THEN last.lastNewline ELSE Len(content)
  IN SubSeq(content, offset + 1, IF offset > count THEN offset ELSE count)

\* What is read of the source from p to before `to`: all but the carriage returns.
RawContent(p, to) ==
  LET content[q \in p..to] ==
        IF q = p THEN <<>>
        ELSE IF Char(q - 1) = "\r" THEN content[q - 1] ELSE Append(content[q - 1], Char(q - 1))
  IN content[to]

readRawString(p) ==
  LET stop   == RawEnd(p + 3)
      closed == Char(stop) = QUOTE /\ Char(stop + 1) = QUOTE /\ Char(stop + 2) = QUOTE
  IN Piece("STRING_CONST", p, IF closed THEN stop + 3 ELSE stop + 2, ~closed,
           IF closed THEN 0 ELSE Again(stop), rawText(RawContent(p + 3, stop)))

(****************************************************************************)
(* Punctuation: the longest of these that fits. A lone `?` is none.         *)
(****************************************************************************)
Symbols == {<<<<"(">>, "LPAREN">>, <<<<")">>, "RPAREN">>, <<<<BRACE>>, "LBRACE">>, <<<<CLOSING>>, "RBRACE">>,
            <<<<COMMA>>, "COMMA">>, <<<<":">>, "COLON">>, <<<<"*">>, "MULT">>, <<<<"/">>, "DIV">>,
            <<<<"\n">>, "EOL">>, <<<<"+">>, "PLUS">>, <<<<"+", "+">>, "INC">>, <<<<"-">>, "MINUS">>,
            <<<<"-", "-">>, "DEC">>, <<<<"&">>, "BT_AND">>, <<<<"&", "&">>, "AND">>,
            <<<<"=">>, "ASSIGN">>, <<<<"=", "=">>, "EQUAL">>, <<<<"=", ">">>, "ARROW">>,
            <<<<"!">>, "NOT">>, <<<<"!", "=">>, "NEQUAL">>, <<<<"?", "?">>, "NULLISH">>,
            <<<<"?", ".">>, "NULLCHECK">>, <<<<".">>, "DOT">>, <<<<".", ".">>, "RANGE">>,
            <<<<".", ".", ".">>, "SPREAD_OR_REST">>, <<<<"<">>, "LESS">>, <<<<"<", "=">>, "LESS_EQ">>,
            <<<<"<", "<">>, "BT_SHIFT_L">>, <<<<">">>, "GREAT">>, <<<<">", "=">>, "GREAT_EQ">>,
            <<<<">", ">">>, "BT_SHIFT_R">>}
Fits(p)   == {s \in Symbols : \A i \in DOMAIN s[1] : Char(p + i - 1) = s[1][i]}
Symbol(p) == LET s == CHOOSE t \in Fits(p) : \A u \in Fits(p) : Len(u[1]) <= Len(t[1])
             IN Piece(s[2], p, p + Len(s[1]), FALSE, 0, <<>>)

(****************************************************************************)
(* nextToken.                                                               *)
(****************************************************************************)
Token(type, start, length, line, text) == [type |-> type, start |-> start, length |-> length, line |-> line, text |-> text]

Init ==
  /\ source \in Sources
  /\ currentChar = 1 /\ currentLine = 1
  /\ parens = <<>> /\ interpolating = FALSE
  /\ next = Token("ERROR", 1, 0, 0, <<>>)
  /\ current = next /\ previous = next
  /\ hasError = FALSE
  /\ lexed = <<>>

Beyond == currentChar > Len(source) + 1

\* Where the next token begins. The part of a string that follows a `$name`
\* begins where the name ends: nothing is skipped.
Start == IF interpolating THEN [to |-> currentChar, error |-> FALSE] ELSE skipped[currentChar][0]

Shift == previous' = current /\ current' = next

\* The lines after lexing a piece. `twice` is how many newlines nextToken
\* itself read twice.
Advance(piece, twice) ==
  LET line == currentLine + Newlines(currentChar, piece.to) + piece.reread + twice
  IN /\ Shift
     /\ currentChar' = piece.to
     /\ currentLine' = line
     /\ hasError' = (hasError \/ Start.error \/ piece.error)
     /\ next' = Token(piece.type, piece.start, piece.to - piece.start, IF piece.type = "EOL" THEN line - 1 ELSE line,
                      piece.text)
     /\ lexed' = Append(lexed, next')
     /\ source' = source

\* A part of a string, from p on, with `open` the interpolations it is in.
StringPart(p, open, twice) ==
  LET piece == readString(p, Len(open) < MAX_INTERPOLATION_NESTING)
      named == piece.type = "DOLLAR_INTERPOL" /\ Char(piece.to - 1) = "$"
  IN /\ Advance([piece EXCEPT !.start = Start.to], twice)
     /\ parens' = IF piece.type = "DOLLAR_INTERPOL" /\ ~named THEN Append(open, 1) ELSE open
     /\ interpolating' = named

\* A token that leaves the nesting of strings as it is.
Simple(piece) == Advance(piece, 0) /\ UNCHANGED <<parens, interpolating>>

Lexing == ~Beyond /\ next.type # "EOF"

\* nextToken once next is EOF: what is left moves on to previous.
Drain ==
  /\ next.type = "EOF"
  /\ Shift
  /\ UNCHANGED <<source, currentChar, currentLine, parens, interpolating, next, hasError, lexed>>

EndOfSource ==
  /\ Lexing /\ Char(Start.to) = NUL
  /\ Simple(Piece("EOF", Start.to, Start.to, FALSE, 0, <<>>))

\* The character after `$name` is consumed, then given back to readString.
ResumeAfterName ==
  /\ Lexing /\ interpolating
  /\ LET c == Char(currentChar)
     IN c # NUL /\ ~isName(c) /\ ~isDigit(c)
  /\ StringPart(currentChar, parens, Again(currentChar))

\* Fault: the brace that opens a map or a block in an interpolation is not counted.
OpenBrace_uncounted ==
  /\ Lexing /\ ~interpolating /\ Char(Start.to) = BRACE
  /\ Simple(Symbol(Start.to))

OpenBrace ==
  /\ Lexing /\ ~interpolating /\ Char(Start.to) = BRACE
  /\ Advance(Symbol(Start.to), 0)
  /\ parens' = IF parens = <<>> THEN parens ELSE [parens EXCEPT ![Len(parens)] = @ + 1]
  /\ UNCHANGED interpolating

\* Fault: the interpolation stays on the stack when its brace closes.
CloseBrace_keeps ==
  /\ Lexing /\ ~interpolating /\ Char(Start.to) = CLOSING
  /\ LET top == Len(parens)
     IN IF parens # <<>> /\ parens[top] = 1
        THEN StringPart(Start.to + 1, [parens EXCEPT ![top] = @ - 1], 0)
        ELSE /\ Advance(Symbol(Start.to), 0)
             /\ parens' = IF parens = <<>> THEN parens ELSE [parens EXCEPT ![top] = @ - 1]
             /\ UNCHANGED interpolating

CloseBrace ==
  /\ Lexing /\ ~interpolating /\ Char(Start.to) = CLOSING
  /\ LET top == Len(parens)
     IN IF parens # <<>> /\ parens[top] = 1
        THEN StringPart(Start.to + 1, SubSeq(parens, 1, top - 1), 0)
        ELSE /\ Advance(Symbol(Start.to), 0)
             /\ parens' = IF parens = <<>> THEN parens ELSE [parens EXCEPT ![top] = @ - 1]
             /\ UNCHANGED interpolating

TripleQuote(p) == Char(p) = QUOTE /\ Char(p + 1) = QUOTE /\ Char(p + 2) = QUOTE

OpenString ==
  /\ Lexing /\ ~interpolating /\ Char(Start.to) = QUOTE /\ ~TripleQuote(Start.to)
  /\ StringPart(Start.to + 1, parens, 0)

RawString ==
  /\ Lexing /\ ~interpolating /\ TripleQuote(Start.to)
  /\ Simple(readRawString(Start.to))

Word ==
  /\ Lexing
  /\ LET c == Char(Start.to)
     IN \/ isName(c) /\ Simple(readName(Start.to))
        \/ isDigit(c) /\ Simple(Number(Start.to))

Punctuation ==
  /\ Lexing /\ ~interpolating
  /\ Char(Start.to) \notin {BRACE, CLOSING} /\ Fits(Start.to) # {}
  /\ Simple(Symbol(Start.to))

\* A `?` alone returns without a token: next still holds the one before.
LoneQuestion ==
  /\ Lexing /\ ~interpolating
  /\ Char(Start.to) = "?" /\ Fits(Start.to) = {}
  /\ Shift
  /\ currentChar' = Start.to + 1
  /\ currentLine' = currentLine + Newlines(currentChar, Start.to)
  /\ lexed' = Append(lexed, next)
  /\ hasError' = (hasError \/ Start.error)
  /\ UNCHANGED <<source, parens, interpolating, next>>

\* Fault: the character is reported and not consumed.
InvalidCharacter_stays ==
  /\ Lexing /\ ~interpolating
  /\ LET c == Char(Start.to)
     IN c \notin {NUL, QUOTE, "?"} /\ ~isName(c) /\ ~isDigit(c) /\ Fits(Start.to) = {}
  /\ Shift
  /\ currentChar' = Start.to
  /\ next' = [next EXCEPT !.type = "ERROR", !.length = 0]
  /\ lexed' = Append(lexed, next')
  /\ hasError' = TRUE
  /\ UNCHANGED <<source, currentLine, parens, interpolating>>

\* A character no token begins with: next keeps its start and its line.
InvalidCharacter ==
  /\ Lexing /\ ~interpolating
  /\ LET c == Char(Start.to)
     IN c \notin {NUL, QUOTE, "?"} /\ ~isName(c) /\ ~isDigit(c) /\ Fits(Start.to) = {}
  /\ Shift
  /\ currentChar' = Start.to + 1
  /\ currentLine' = currentLine + Newlines(currentChar, Start.to)
  /\ next' = [next EXCEPT !.type = "ERROR", !.length = 0]
  /\ lexed' = Append(lexed, next')
  /\ hasError' = TRUE
  /\ UNCHANGED <<source, parens, interpolating>>

NextToken == \/ EndOfSource \/ ResumeAfterName \/ OpenBrace \/ CloseBrace \/ OpenString \/ RawString
             \/ Word \/ Punctuation \/ LoneQuestion \/ InvalidCharacter

Next == NextToken \/ Drain

Spec == Init /\ [][Next]_vars

(****************************************************************************)
(* Properties.                                                              *)
(****************************************************************************)
\* The stack of open interpolations (parens, numParens) never outgrows its
\* array, and a count reaches zero only as its interpolation is closed: a `}`
\* can not be taken for the end of an interpolation that has ended.
NestingSound ==
  /\ Len(parens) <= MAX_INTERPOLATION_NESTING
  /\ \A i \in 1..Len(parens) : parens[i] > 0

\* The text of a raw string without its first line, if that is blank, and
\* without its last, if that is.
Trimmed(content) ==
  LET blank(from, to) == \A i \in from..to : isWhitespace(content[i])
      breaks == {i \in DOMAIN content : content[i] = "\n"}
      first  == CHOOSE i \in breaks : \A j \in breaks : i <= j
      last   == CHOOSE i \in breaks : \A j \in breaks : i >= j
      from   == IF breaks # {} /\ blank(1, first - 1) THEN first + 1 ELSE 1
      to     == IF breaks # {} /\ blank(last + 1, Len(content)) THEN last - 1 ELSE Len(content)
  IN SubSeq(content, from, to)

\* The scan of a raw string, with its two remembered positions, never costs it
\* text: a raw string is kept the way it is written, whatever blanks and lines
\* it has. The lines of its quotes, when they are blank, are all that may be
\* missing, and then both of them: the code leaves them out, the documentation
\* keeps them (RawStringsKept), and this takes no side.
RawTextSurvives ==
  \A i \in 1..Len(lexed) :
    LET t       == lexed[i]
        content == RawContent(t.start + 3, t.start + t.length - 3)
    IN t.type = "STRING_CONST" /\ TripleQuote(t.start) /\ t.length >= 6 /\ ~hasError
         => t.text \in {content, Trimmed(content)}

\* Raw strings "are kept the way you write them", and "trailing spaces are
\* kept" (values.md). readRawString cuts blank first and last lines.
RawStringsKept ==
  \A i \in 1..Len(lexed) :
    LET t == lexed[i]
    IN t.type = "STRING_CONST" /\ TripleQuote(t.start) /\ t.length >= 6 /\ ~hasError
         => t.text = RawContent(t.start + 3, t.start + t.length - 3)

\* "Lex the next token and store it in [parser.next]": nextToken never leaves
\* the token of the call before there. A lone `?` does, without an error.
TokensDiffer == ~hasError => \A i \in 2..Len(lexed) : lexed[i] # lexed[i - 1]

\* Every call of nextToken has made a token: no lone `?`, nothing invalid.
TokenIsNew == \A i \in 1..Len(lexed) : lexed[i].type # "ERROR" /\ (i > 1 => lexed[i] # lexed[i - 1])

\* currentLine is "the 1-based line number of [currentChar]" (Parser.h). It is
\* not: a newline directly after a hexadecimal, binary or octal number is
\* counted twice (readHexDigit), which TLC shows in a few steps.
LinesRight == currentLine = 1 + Newlines(1, currentChar)

\* "Keeps us from reading past the end of an unterminated string": the lexer
\* never reads beyond the source. It does after a backslash or an open raw
\* string at the end.
StaysInSource == ~Beyond

\* Lexing any source comes to its end: a call of nextToken that does not
\* reach the end of the source leaves less of it to lex, for all the stepping
\* back, so that there are at most as many calls as characters.
LexingAdvances == [][next.type # "EOF" => currentChar' > currentChar \/ next'.type = "EOF"]_vars
===============================================================================
