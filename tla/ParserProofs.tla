----------------------------- MODULE ParserProofs -----------------------------
(****************************************************************************)
(* Proofs about the lexer, for every source: that every call of nextToken   *)
(* gets further, although escapes, numbers and interpolations step back;    *)
(* that the stack of open interpolations stays within its array; that raw   *)
(* strings lose the blank lines of their quotes and nothing else; and that  *)
(* the tokens are those StringNesting defines by recursion on the nesting.  *)
(*                                                                          *)
(* skipped, readString, Scanned and RawContent are defined by recursion.    *)
(* That there is a function as each describes comes first, by RecursionDown *)
(* and RecursionUp of Induction; what it is then follows point by point.    *)
(****************************************************************************)
EXTENDS StringNesting, Induction, SequenceTheorems

\* What a source in use is.
IsText == source \in Seq(STRING) /\ \A p \in 1..Len(source) : source[p] # NUL

\* The '\0' is directly after the source, and beyond it nothing else is read.
LEMMA Different ==
  /\ NUL \notin {QUOTE, BRACE, "\r", "$", "\\", "#", "*"}
  /\ QUOTE \notin {BRACE, "\r", "$", "\\"} /\ BRACE \notin {"\r", "$", "\\"} \cup Names
BY Zenon DEF NUL, QUOTE, BRACE, Names

LEMMA Characters ==
  ASSUME IsText
  PROVE  /\ Len(source) \in Nat
         /\ \A p \in Int : (Char(p) # NUL <=> p \in 1..Len(source))
<1>1. Len(source) \in Nat
  BY DEF IsText
<1>2. ASSUME NEW p \in Int PROVE Char(p) # NUL <=> p \in 1..Len(source)
  <2>1. CASE p \in 1..Len(source)
    <3>1. source[p] # NUL
      BY <2>1 DEF IsText
    <3> QED
      BY <2>1, <3>1 DEF Char
  <2>2. CASE p \notin 1..Len(source)
    BY <2>2 DEF Char
  <2> QED
    BY <2>1, <2>2
<1> QED
  BY <1>1, <1>2

(****************************************************************************)
(* Scanning.                                                                *)
(****************************************************************************)
\* The first number of a set that an interval has one of.
LEMMA FirstOf ==
  ASSUME NEW a \in Nat, NEW b \in Int, NEW S, NEW c \in a..b, c \in S
  PROVE  \E q \in a..b : q \in S /\ \A r \in a..(q - 1) : r \notin S
<1> DEFINE T == {n \in a..b : n \in S}
<1>1. T \in SUBSET Nat /\ T # {}
  OBVIOUS
<1>2. PICK q \in T : \A m \in T : q <= m
  BY <1>1, LeastMember
<1>3. ASSUME NEW r \in a..(q - 1) PROVE r \notin S
  <2>1. r \in a..b /\ ~(q <= r)
    OBVIOUS
  <2> QED
    BY <1>2, <2>1
<1> QED
  BY <1>2, <1>3

\* A class of characters that the '\0' is not in ends somewhere.
LEMMA PastEnds ==
  ASSUME IsText, NEW p \in Nat, p <= Len(source) + 1, NEW class, NUL \notin class
  PROVE  /\ Past(p, class) \in p..(Len(source) + 1)
         /\ Char(Past(p, class)) \notin class
         /\ Char(p) \in class => Past(p, class) > p
<1> DEFINE S == {q \in Nat : Char(q) \notin class}
           end == Len(source) + 1
<1>1. Len(source) \in Nat /\ end \in p..end /\ end \in S
  BY Characters
<1>0. end \in Int
  BY <1>1
<1>2. PICK q \in p..end : q \in S /\ \A r \in p..(q - 1) : r \notin S
  <2> HIDE DEF S, end
  <2> QED
    BY <1>0, <1>1, FirstOf
<1>3. Char(q) \notin class /\ \A r \in p..(q - 1) : Char(r) \in class
  BY <1>1, <1>2
<1>4. /\ Past(p, class) \in p..end
      /\ Char(Past(p, class)) \notin class
  BY <1>3 DEF Past
<1> QED
  BY <1>1, <1>4


(****************************************************************************)
(* Blanks and comments.                                                     *)
(****************************************************************************)
Skips == [to : Nat, error : BOOLEAN]
Begin(p)    == [to |-> p, error |-> FALSE]
Unclosed(p) == [to |-> p, error |-> TRUE]

LEMMA SkipsTo ==
  ASSUME NEW p \in Nat
  PROVE  Begin(p) \in Skips /\ Unclosed(p) \in Skips /\ Begin(p).to = p /\ Unclosed(p).to = p
<1>1. Begin(p).to = p /\ Unclosed(p).to = p
  BY DEF Begin, Unclosed
<1>2. Begin(p) \in Skips
  BY Zenon DEF Begin, Skips
<1>3. Unclosed(p) \in Skips
  BY Zenon DEF Unclosed, Skips
<1> QED
  BY <1>1, <1>2, <1>3

\* What skipping from p on gives, by what it gives from later positions on.
SkipAt(f, p) ==
  [depth \in Nat |->
     IF depth > 0
     THEN CASE Char(p) = NUL -> Unclosed(p)
            [] Opens(p)  -> f[p + 2][depth + 1]
            [] Closes(p) -> f[p + 2][depth - 1]
            [] OTHER     -> f[p + 1][depth]
     ELSE CASE Char(p) \in Blanks -> f[p + 1][0]
            [] Opens(p) -> f[p + 1][1]
            [] Char(p) = "#" /\ ~Opens(p) -> f[LineEnd(p)][0]
            [] OTHER -> Begin(p)]

\* A `#` begins a comment that ends further on.
LEMMA LineEnds ==
  ASSUME IsText, NEW p \in Nat, Char(p) = "#"
  PROVE  LineEnd(p) \in Nat /\ LineEnd(p) > p /\ LineEnd(p) <= Len(source) + 1
<1> DEFINE class == {Char(r) : r \in p..Len(source)} \ {"\n"}
<1>1. Len(source) \in Nat /\ p \in 1..Len(source)
  BY Characters DEF NUL
<1>2. NUL \notin class
  <2>1. \A r \in p..Len(source) : r \in 1..Len(source)
    BY <1>1
  <2> QED
    BY <1>1, <2>1, Characters
<1>3. Char(p) \in class
  <2>1. p \in p..Len(source)
    BY <1>1
  <2> QED
    BY <2>1
<1> HIDE DEF class
<1>4. Past(p, class) \in p..(Len(source) + 1) /\ Past(p, class) > p
  BY <1>1, <1>2, <1>3, PastEnds
<1> QED
  BY <1>1, <1>4 DEF LineEnd, class

\* Skipping depends on later positions only.
LEMMA SkipLocal ==
  ASSUME IsText, NEW f, NEW g, NEW p \in Nat, \A r \in Nat : p < r => f[r] = g[r]
  PROVE  SkipAt(f, p) = SkipAt(g, p)
<1>1. f[p + 1] = g[p + 1] /\ f[p + 2] = g[p + 2]
  OBVIOUS
<1>2. Char(p) = "#" => f[LineEnd(p)] = g[LineEnd(p)]
  BY LineEnds
<1>3. ASSUME NEW depth \in Nat PROVE SkipAt(f, p)[depth] = SkipAt(g, p)[depth]
  BY <1>1, <1>2 DEF SkipAt
<1> QED
  BY <1>3 DEF SkipAt

\* Skipping gives a position, and none before the one it starts from.
SkipsOn(s, p) == s \in [Nat -> Skips] /\ \A depth \in Nat : s[depth].to >= p

LEMMA SkipKeeps ==
  ASSUME IsText, NEW f, NEW p \in Nat,
         Char(p) # NUL => \A r \in Nat : p < r => SkipsOn(f[r], r)
  PROVE  SkipsOn(SkipAt(f, p), p)
<1>1. ASSUME Char(p) # NUL
      PROVE  /\ SkipsOn(f[p + 1], p + 1) /\ SkipsOn(f[p + 2], p + 2)
             /\ Char(p) = "#" => SkipsOn(f[LineEnd(p)], LineEnd(p)) /\ LineEnd(p) > p /\ LineEnd(p) \in Nat
  BY <1>1, LineEnds
<1>2. ASSUME NEW depth \in Nat, NEW s, s = SkipAt(f, p)[depth]
      PROVE  s \in Skips /\ s.to >= p
  <2>0. s = IF depth > 0
            THEN CASE Char(p) = NUL -> Unclosed(p)
                   [] Opens(p)  -> f[p + 2][depth + 1]
                   [] Closes(p) -> f[p + 2][depth - 1]
                   [] OTHER     -> f[p + 1][depth]
            ELSE CASE Char(p) \in Blanks -> f[p + 1][0]
                   [] Opens(p) -> f[p + 1][1]
                   [] Char(p) = "#" /\ ~Opens(p) -> f[LineEnd(p)][0]
                   [] OTHER -> Begin(p)
    BY <1>2 DEF SkipAt
  <2>1. CASE s = Unclosed(p) \/ s = Begin(p)
    BY <2>1, SkipsTo
  <2>2. CASE /\ Char(p) # NUL
             /\ \E d \in Nat : s = f[p + 1][d] \/ s = f[p + 2][d] \/ (Char(p) = "#" /\ s = f[LineEnd(p)][d])
    <3>1. ASSUME NEW q \in Nat, q > p, NEW d \in Nat, SkipsOn(f[q], q), s = f[q][d]
          PROVE  s \in Skips /\ s.to >= p
      <4>1. s \in Skips /\ s.to >= q
        BY <3>1 DEF SkipsOn
      <4> QED
        BY <3>1, <4>1 DEF Skips
    <3>2. p + 1 \in Nat /\ p + 2 \in Nat /\ p + 1 > p /\ p + 2 > p
      OBVIOUS
    <3> QED
      BY <1>1, <2>2, <3>1, <3>2
  <2>3. CASE Char(p) = NUL
    <3>1. Char(p) \notin Blanks /\ Char(p) # "#" /\ Char(p) # "*"
      BY <2>3 DEF NUL, Blanks
    <3>2. ~Opens(p) /\ ~Closes(p)
      BY <3>1 DEF Opens, Closes
    <3>3. s = Unclosed(p) \/ s = Begin(p)
      BY <2>0, <2>3, <3>1, <3>2
    <3> QED
      BY <2>1, <3>3
  <2>4. CASE Char(p) # NUL
    <3>1. depth + 1 \in Nat /\ (depth > 0 => depth - 1 \in Nat) /\ 0 \in Nat /\ 1 \in Nat
      OBVIOUS
    <3>2. CASE depth > 0
      BY <2>0, <2>2, <2>4, <3>1, <3>2
    <3>3. CASE ~(depth > 0)
      BY <2>0, <2>1, <2>2, <2>4, <3>1, <3>3
    <3> QED
      BY <3>2, <3>3
  <2> QED
    BY <2>3, <2>4
<1> QED
  BY <1>2 DEF SkipsOn, SkipAt

\* The recursion of skipped is one that defines a function.
LEMMA SkippedIs ==
  ASSUME IsText
  PROVE  skipped = [p \in Nat |-> SkipAt(skipped, p)]
<1> DEFINE S == {f \in [Nat -> [Nat -> Skips]] : \A p \in Nat : SkipsOn(f[p], p)}
           F == [f \in S |-> [p \in Nat |-> SkipAt(f, p)]]
<1>1. S # {}
  <2> DEFINE f == [p \in Nat |-> [depth \in Nat |-> Begin(p)]]
  <2>1. ASSUME NEW p \in Nat PROVE f[p] \in [Nat -> Skips] /\ SkipsOn(f[p], p)
    <3>1. Begin(p) \in Skips /\ Begin(p).to >= p
      BY SkipsTo
    <3>2. f[p] = [depth \in Nat |-> Begin(p)]
      OBVIOUS
    <3> QED
      BY <3>1, <3>2 DEF SkipsOn
  <2>2. f \in S
    BY <2>1
  <2> QED
    BY <2>2
<1>2. F \in [S -> S]
  <2>1. ASSUME NEW f \in S PROVE [p \in Nat |-> SkipAt(f, p)] \in S
    <3>1. \A p \in Nat : SkipsOn(SkipAt(f, p), p)
      BY SkipKeeps
    <3> QED
      BY <3>1 DEF SkipsOn
  <2> QED
    BY <2>1
<1>3. ASSUME NEW f \in S, NEW g \in S, \A q \in Nat : f[q] = g[q] PROVE f = g
  BY <1>3
<1>4. ASSUME NEW f \in S, NEW g \in S, NEW q \in Nat, q < Len(source) + 1 => \A r \in Nat : q < r => f[r] = g[r]
      PROVE  F[f][q] = F[g][q]
  <2>1. SkipAt(f, q) = SkipAt(g, q)
    <3>1. CASE q < Len(source) + 1
      BY <1>4, <3>1, SkipLocal
    <3>2. CASE ~(q < Len(source) + 1)
      <4>1. Char(q) = NUL
        BY <3>2, Characters
      <4>2. Char(q) \notin Blanks /\ Char(q) # "#" /\ Char(q) # "*"
        BY <4>1 DEF NUL, Blanks
      <4>3. ~Opens(q) /\ ~Closes(q)
        BY <4>2 DEF Opens, Closes
      <4>4. ASSUME NEW depth \in Nat PROVE SkipAt(f, q)[depth] = SkipAt(g, q)[depth]
        BY <4>1, <4>2, <4>3 DEF SkipAt
      <4> QED
        BY <4>4 DEF SkipAt
    <3> QED
      BY <3>1, <3>2
  <2> QED
    BY <2>1
<1>5. \E f \in S : F[f] = f
  <2> HIDE DEF S, F
  <2>1. Len(source) + 1 \in Nat
    BY Characters
  <2> QED
    BY <1>1, <1>2, <1>3, <1>4, <2>1, RecursionDown
<1>6. \E f : f = [p \in Nat |-> SkipAt(f, p)]
  <2>1. PICK f \in S : F[f] = f
    BY <1>5
  <2>2. f = [p \in Nat |-> SkipAt(f, p)]
    BY <2>1
  <2> QED
    BY <2>2
<1>7. skipped = CHOOSE f : f = [p \in Nat |-> SkipAt(f, p)]
  BY DEF skipped, SkipAt, Begin, Unclosed
<1> QED
  BY <1>6, <1>7

\* A token never begins before where the last one ended.
LEMMA SkippedAdvances ==
  ASSUME IsText, NEW p \in Nat
  PROVE  skipped[p][0] \in Skips /\ skipped[p][0].to >= p
<1> DEFINE T == {q \in Nat : SkipsOn(skipped[q], q)}
<1>1. \A q \in Nat : skipped[q] = SkipAt(skipped, q)
  BY SkippedIs
<1>2. ASSUME NEW q \in Nat, q < Len(source) + 1 => \A r \in Nat : q < r => r \in T PROVE q \in T
  <2>1. Char(q) # NUL => q < Len(source) + 1
    BY Characters
  <2>2. SkipsOn(SkipAt(skipped, q), q)
    BY <1>2, <2>1, SkipKeeps
  <2> QED
    BY <1>1, <2>2
<1>3. \A q \in Nat : q \in T
  <2> HIDE DEF T
  <2>1. Len(source) + 1 \in Nat
    BY Characters
  <2> QED
    BY <1>2, <2>1, DownInduction
<1> QED
  BY <1>3 DEF SkipsOn

(****************************************************************************)
(* Strings.                                                                 *)
(****************************************************************************)
\* An escape sequence is at least its backslash, also when reading stepped
\* back because its digits are not all there.
LEMMA EscapeAdvances ==
  ASSUME IsText, NEW q \in Nat, Char(q) = "\\"
  PROVE  /\ Escape(q).to \in Nat /\ Escape(q).to > q
         /\ Escape(q).error \in BOOLEAN /\ Escape(q).reread \in Nat
<1>1. q \in 1..Len(source) /\ Len(source) \in Nat
  BY Characters DEF NUL
<1>2. ASSUME NEW n \in {2, 4}, NEW p \in Nat, p = q + 2
      PROVE  /\ readHexEscape(p, n).to \in Nat /\ readHexEscape(p, n).to > q
             /\ readHexEscape(p, n).error \in BOOLEAN /\ readHexEscape(p, n).reread \in Nat
  <2> DEFINE S == {r \in p..(p + n) : r < p + n => Char(r) \notin HexDigits}
             Stop(r) == /\ \A i \in p..(r - 1) : Char(i) \in HexDigits
                        /\ r < p + n => Char(r) \notin HexDigits
             to == CHOOSE r \in p..(p + n) : Stop(r)
  <2>1. p + n \in p..(p + n) /\ p + n \in S /\ p + n \in Int
    OBVIOUS
  <2>2. PICK r \in p..(p + n) : r \in S /\ \A i \in p..(r - 1) : i \notin S
    <3> HIDE DEF S
    <3> QED
      BY <2>1, FirstOf
  <2>3. Stop(r)
    <3>1. ASSUME NEW i \in p..(r - 1) PROVE Char(i) \in HexDigits
      <4>1. i \in p..(p + n)
        OBVIOUS
      <4> QED
        BY <2>2, <4>1
    <3> QED
      BY <2>2, <3>1
  <2>4. to \in p..(p + n)
    <3> HIDE DEF Stop
    <3> QED
      BY <2>3
  <2>5. PICK t : t = to
    OBVIOUS
  <2>6. /\ readHexEscape(p, n).to = IF t < p + n /\ Char(t) \in {QUOTE, NUL} THEN t - 1 ELSE t
        /\ readHexEscape(p, n).error \in BOOLEAN
        /\ readHexEscape(p, n).reread = IF t < p + n THEN Again(t) ELSE 0
    BY <2>5 DEF readHexEscape
  <2>7. t \in Nat /\ t >= p
    BY <2>4, <2>5
  <2>8. Again(t) \in Nat
    BY DEF Again
  <2> HIDE DEF S, Stop, to
  <2>9. /\ readHexEscape(p, n).to \in {t, t - 1} /\ readHexEscape(p, n).error \in BOOLEAN
        /\ readHexEscape(p, n).reread \in {Again(t), 0}
    BY <2>6
  <2> QED
    BY <1>2, <2>7, <2>8, <2>9
<1>3. CASE EscapeDigits(Char(q + 1)) > 0
  <2>1. EscapeDigits(Char(q + 1)) \in {2, 4}
    BY <1>3 DEF EscapeDigits
  <2>2. Escape(q) = readHexEscape(q + 2, EscapeDigits(Char(q + 1)))
    BY <1>3 DEF Escape
  <2> QED
    BY <1>2, <2>1, <2>2
<1>4. CASE ~(EscapeDigits(Char(q + 1)) > 0)
  BY <1>4 DEF Escape
<1> QED
  BY <1>3, <1>4

Glyph  == {Char(p) : p \in Nat} \cup {"$", "\\"}
Pieces == [type : {"BEYOND", "STRING_CONST", "DOLLAR_INTERPOL"}, start : Nat, to : Nat,
           error : BOOLEAN, reread : Nat, text : Seq(Glyph)]

\* A part of a string with a character before it.
Adding(piece, char, error, reread) ==
  [piece EXCEPT !.text = char \o @, !.error = @ \/ error, !.reread = @ + reread]

\* What ends a part of a string that starts at p.
BeyondAt(p, q)      == Piece("BEYOND", p, q, FALSE, 0, <<>>)
Quoted(p, q)        == Piece("STRING_CONST", p, q, FALSE, 0, <<>>)
Unterminated(p, q)  == Piece("STRING_CONST", p, q, TRUE, 0, <<>>)
Interpolation(p, q) == Piece("DOLLAR_INTERPOL", p, q, FALSE, 0, <<>>)

LEMMA EndTypes ==
  ASSUME NEW p \in Nat, NEW q \in Nat, NEW y
  PROVE  /\ y = BeyondAt(p, q) => y \in Pieces /\ y.to = q /\ y.type = "BEYOND"
         /\ y = Quoted(p, q) => y \in Pieces /\ y.to = q /\ y.type = "STRING_CONST"
         /\ y = Unterminated(p, q) => y \in Pieces /\ y.to = q /\ y.type = "STRING_CONST"
         /\ y = Interpolation(p, q) => y \in Pieces /\ y.to = q /\ y.type = "DOLLAR_INTERPOL"
<1>1. <<>> \in Seq(Glyph) /\ 0 \in Nat
  OBVIOUS
<1>2. /\ BeyondAt(p, q) \in Pieces /\ Quoted(p, q) \in Pieces
      /\ Unterminated(p, q) \in Pieces /\ Interpolation(p, q) \in Pieces
  BY <1>1, Zenon DEF BeyondAt, Quoted, Unterminated, Interpolation, Piece, Pieces
<1>3. /\ BeyondAt(p, q).to = q /\ BeyondAt(p, q).type = "BEYOND"
      /\ Quoted(p, q).to = q /\ Quoted(p, q).type = "STRING_CONST"
      /\ Unterminated(p, q).to = q /\ Unterminated(p, q).type = "STRING_CONST"
      /\ Interpolation(p, q).to = q /\ Interpolation(p, q).type = "DOLLAR_INTERPOL"
  BY DEF BeyondAt, Quoted, Unterminated, Interpolation, Piece
<1> QED
  BY <1>2, <1>3

\* What goes on with the rest of the string, read from r on: without room for
\* an interpolation, with a character, with an escape sequence.
Refused(f, r)    == Adding(f[r], <<"$">>, TRUE, 0)
Further(f, r, c) == Adding(f[r], <<c>>, FALSE, 0)
Escaped(f, q)    == LET escape == Escape(q) IN Adding(f[escape.to], <<"\\">>, escape.error, escape.reread)

\* Only the value, the errors and the lines change.
Same(y, x) == y \in Pieces /\ y.to = x.to /\ y.type = x.type

LEMMA AddingKeeps ==
  ASSUME NEW f, NEW r, f[r] \in Pieces
  PROVE  /\ Same(Refused(f, r), f[r])
         /\ \A c \in Glyph : Same(Further(f, r, c), f[r])
<1> PICK x \in Pieces : x = f[r]
  OBVIOUS
<1>1. \A c \in Glyph : <<c>> \o x.text \in Seq(Glyph)
  BY DEF Pieces
<1>2. "$" \in Glyph /\ x.reread + 0 \in Nat
  BY DEF Glyph, Pieces
<1>3. ASSUME NEW c \in Glyph, NEW y,
             y = [x EXCEPT !.text = <<c>> \o @, !.error = @ \/ TRUE, !.reread = @ + 0] \/
             y = [x EXCEPT !.text = <<c>> \o @, !.error = @ \/ FALSE, !.reread = @ + 0]
      PROVE  Same(y, x)
  BY <1>1, <1>2, <1>3 DEF Same, Pieces
<1>4. Same(Refused(f, r), x)
  BY <1>2, <1>3 DEF Refused, Adding
<1>5. ASSUME NEW c \in Glyph PROVE Same(Further(f, r, c), x)
  BY <1>3 DEF Further, Adding
<1> QED
  BY <1>4, <1>5

LEMMA EscapedKeeps ==
  ASSUME IsText, NEW f, NEW q \in Nat, Char(q) = "\\", f[Escape(q).to] \in Pieces
  PROVE  Same(Escaped(f, q), f[Escape(q).to])
<1> PICK x \in Pieces : x = f[Escape(q).to]
  OBVIOUS
<1>1. <<"\\">> \o x.text \in Seq(Glyph)
  BY DEF Pieces, Glyph
<1>2. x.reread + Escape(q).reread \in Nat
  BY EscapeAdvances DEF Pieces
<1>3. Escaped(f, q) = [x EXCEPT !.text = <<"\\">> \o @, !.error = @ \/ Escape(q).error, !.reread = @ + Escape(q).reread]
  BY DEF Escaped, Adding
<1> QED
  BY <1>1, <1>2, <1>3 DEF Same, Pieces

\* What reading a string from q on gives, by what it gives from later positions
\* on; its token starts at p.
StringAt(f, q, p, room) ==
  CASE q > Len(source) + 1 -> BeyondAt(p, q)
    [] Char(q) = QUOTE -> Quoted(p, q + 1)
    [] Char(q) = "\r" -> f[q + 1]
    [] q = Len(source) + 1 -> Unterminated(p, q)
    [] Char(q) = "$" /\ isName(Char(q + 1)) -> Interpolation(p, q + 1)
    [] Char(q) = "$" /\ Char(q + 1) = BRACE -> IF room THEN Interpolation(p, q + 2) ELSE Refused(f, q + 2)
    [] Char(q) = "\\" -> Escaped(f, q)
    [] OTHER -> Further(f, q + 1, Char(q))

LEMMA StringLocal ==
  ASSUME IsText, NEW f, NEW g, NEW q \in Nat, NEW p, NEW room, \A r \in Nat : q < r => f[r] = g[r]
  PROVE  StringAt(f, q, p, room) = StringAt(g, q, p, room)
<1>1. f[q + 1] = g[q + 1] /\ f[q + 2] = g[q + 2]
  OBVIOUS
<1>2. Char(q) = "\\" => f[Escape(q).to] = g[Escape(q).to]
  BY EscapeAdvances
<1> QED
  BY <1>1, <1>2 DEF StringAt, Refused, Further, Escaped

\* A part of a string: it ends further on, and with `${` only when there is
\* room for the interpolation.
IsPart(x, q, room) ==
  /\ x \in Pieces /\ x.to >= q /\ (Char(q) # NUL => x.to > q)
  /\ x.type = "DOLLAR_INTERPOL" => room \/ Char(x.to - 1) = "$"

LEMMA StringKeeps ==
  ASSUME IsText, NEW f, NEW q \in Nat, NEW p \in Nat, NEW room \in BOOLEAN,
         q < Len(source) + 1 => \A r \in Nat : q < r => IsPart(f[r], r, room)
  PROVE  IsPart(StringAt(f, q, p, room), q, room)
<1> SUFFICES ASSUME NEW x, x = StringAt(f, q, p, room) PROVE IsPart(x, q, room)
  OBVIOUS
<1>0. /\ Len(source) \in Nat /\ (Char(q) # NUL <=> q \in 1..Len(source))
      /\ NUL \notin {QUOTE, BRACE, "\r", "$", "\\"}
      /\ QUOTE \notin {BRACE, "\r", "$", "\\"} /\ BRACE \notin {"\r", "$", "\\"}
      /\ \A c : isName(c) => c # BRACE
  BY Characters, Different DEF isName
<1>1. ASSUME NEW r \in Nat, r >= q, Char(q) # NUL => r > q,
             x = BeyondAt(p, r) \/ x = Quoted(p, r) \/ x = Unterminated(p, r)
      PROVE  IsPart(x, q, room)
  <2>1. x \in Pieces /\ x.to = r /\ x.type # "DOLLAR_INTERPOL"
    BY <1>1, EndTypes
  <2> QED
    BY <1>1, <2>1 DEF IsPart
<1>2. ASSUME NEW r \in Nat, r > q, IsPart(f[r], r, room), x.to = f[r].to, x.type = f[r].type, x \in Pieces
      PROVE  IsPart(x, q, room)
  <2>1. f[r].to \in Nat /\ f[r].to >= r
    BY <1>2 DEF IsPart, Pieces
  <2> QED
    BY <1>2, <2>1 DEF IsPart
<1>3. ASSUME NEW r \in Nat, r > q, IsPart(f[r], r, room), Same(x, f[r])
      PROVE  IsPart(x, q, room)
  BY <1>2, <1>3 DEF Same
<1>4. CASE q > Len(source) + 1
  <2>0. Char(q) # QUOTE /\ Char(q) # "\r" /\ Char(q) # "$" /\ Char(q) # "\\" /\ q # Len(source) + 1
    BY <1>0, <1>4
  <2>1. x = BeyondAt(p, q)
    BY <1>4, <2>0 DEF StringAt
  <2> QED
    BY <1>0, <1>1, <1>4, <2>1
<1>5. CASE q = Len(source) + 1
  <2>1. x = Unterminated(p, q)
    BY <1>0, <1>5 DEF StringAt
  <2> QED
    BY <1>0, <1>1, <1>5, <2>1
<1>6. CASE q < Len(source) + 1
  <2>1. \A r \in Nat : q < r => IsPart(f[r], r, room)
    BY <1>6
  <2>2. q + 1 \in Nat /\ q + 2 \in Nat /\ q + 1 > q /\ q + 2 > q
    OBVIOUS
  <2>3. IsPart(f[q + 1], q + 1, room) /\ IsPart(f[q + 2], q + 2, room)
    BY <2>1, <2>2
  <2>4. CASE Char(q) = QUOTE
    <3>1. x = Quoted(p, q + 1)
      BY <1>0, <1>6, <2>4 DEF StringAt
    <3> QED
      BY <1>1, <2>2, <3>1
  <2>5. CASE Char(q) = "\r"
    <3>1. x = f[q + 1]
      BY <1>0, <1>6, <2>5 DEF StringAt
    <3> QED
      BY <1>2, <2>2, <2>3, <3>1 DEF IsPart
  <2>6. CASE Char(q) = "$"
    <3>1. CASE isName(Char(q + 1))
      <4>1. x = Interpolation(p, q + 1)
        BY <1>0, <1>6, <2>6, <3>1 DEF StringAt, isName
      <4>2. x \in Pieces /\ x.to = q + 1 /\ x.type = "DOLLAR_INTERPOL"
        BY <2>2, <4>1, EndTypes
      <4> QED
        BY <2>6, <4>2 DEF IsPart
    <3>2. CASE Char(q + 1) = BRACE /\ room
      <4>1. x = Interpolation(p, q + 2)
        BY <1>0, <1>6, <2>6, <3>2 DEF StringAt, isName
      <4>2. x \in Pieces /\ x.to = q + 2 /\ x.type = "DOLLAR_INTERPOL"
        BY <2>2, <4>1, EndTypes
      <4>3. x.to >= q /\ x.to > q
        BY <4>2
      <4> QED
        BY <3>2, <4>2, <4>3, Zenon DEF IsPart
    <3>3. CASE Char(q + 1) = BRACE /\ ~room
      <4>1. x = Refused(f, q + 2)
        BY <1>0, <1>6, <2>6, <3>3 DEF StringAt, isName
      <4> QED
        BY <1>3, <2>2, <2>3, <4>1, AddingKeeps DEF IsPart, Glyph
    <3>4. CASE ~isName(Char(q + 1)) /\ Char(q + 1) # BRACE
      <4>1. x = Further(f, q + 1, Char(q))
        BY <1>0, <1>6, <2>6, <3>4 DEF StringAt
      <4> QED
        BY <1>3, <2>2, <2>3, <4>1, AddingKeeps DEF IsPart, Glyph
    <3> QED
      BY <3>1, <3>2, <3>3, <3>4
  <2>7. CASE Char(q) = "\\"
    <3>1. x = Escaped(f, q)
      BY <1>0, <1>6, <2>7 DEF StringAt
    <3>2. /\ Escape(q).to \in Nat /\ Escape(q).to > q
          /\ Escape(q).error \in BOOLEAN /\ Escape(q).reread \in Nat
      BY <2>7, EscapeAdvances
    <3> QED
      BY <1>3, <2>1, <2>7, <3>1, <3>2, EscapedKeeps DEF IsPart
  <2>8. CASE Char(q) \notin {QUOTE, "\r", "$", "\\"}
    <3>1. x = Further(f, q + 1, Char(q))
      BY <1>0, <1>6, <2>8 DEF StringAt
    <3>2. Char(q) \in Glyph
      BY DEF Glyph
    <3> QED
      BY <1>3, <2>2, <2>3, <3>1, <3>2, AddingKeeps DEF IsPart
  <2> QED
    BY <2>4, <2>5, <2>6, <2>7, <2>8
<1> QED
  BY <1>0, <1>4, <1>5, <1>6

\* The recursion of readString is one that defines a function.
LEMMA StringIs ==
  ASSUME IsText, NEW p \in Nat, NEW room \in BOOLEAN
  PROVE  \E f : f = [q \in Nat |-> StringAt(f, q, p, room)] /\ readString(p, room) = f[p]
<1> DEFINE S == {f \in [Nat -> Pieces] : \A q \in Nat : IsPart(f[q], q, room)}
           F == [f \in S |-> [q \in Nat |-> StringAt(f, q, p, room)]]
<1>1. S # {}
  <2> DEFINE f == [q \in Nat |-> Quoted(p, q + 1)]
  <2>1. ASSUME NEW q \in Nat PROVE f[q] \in Pieces /\ IsPart(f[q], q, room)
    <3>1. /\ f[q] \in Pieces /\ f[q].to = q + 1 /\ f[q].type = "STRING_CONST"
      BY EndTypes
    <3> QED
      BY <3>1 DEF IsPart
  <2>2. f \in S
    BY <2>1
  <2> QED
    BY <2>2
<1>2. F \in [S -> S]
  <2>1. ASSUME NEW f \in S PROVE [q \in Nat |-> StringAt(f, q, p, room)] \in S
    <3>1. \A q \in Nat : IsPart(StringAt(f, q, p, room), q, room)
      BY StringKeeps
    <3> QED
      BY <3>1 DEF IsPart
  <2> QED
    BY <2>1
<1>3. ASSUME NEW f \in S, NEW g \in S, \A q \in Nat : f[q] = g[q] PROVE f = g
  BY <1>3
<1>4. ASSUME NEW f \in S, NEW g \in S, NEW q \in Nat, q < Len(source) + 1 => \A r \in Nat : q < r => f[r] = g[r]
      PROVE  F[f][q] = F[g][q]
  <2>1. StringAt(f, q, p, room) = StringAt(g, q, p, room)
    <3>1. CASE q < Len(source) + 1
      BY <1>4, <3>1, StringLocal
    <3>2. CASE ~(q < Len(source) + 1)
      <4>1. Char(q) = NUL /\ NUL \notin {QUOTE, "\r", "$", "\\"} /\ Len(source) \in Nat
        BY <3>2, Characters, Different
      <4> QED
        BY <3>2, <4>1 DEF StringAt
    <3> QED
      BY <3>1, <3>2
  <2> QED
    BY <2>1
<1>5. \E f \in S : F[f] = f
  <2> HIDE DEF S, F
  <2>1. Len(source) + 1 \in Nat
    BY Characters
  <2> QED
    BY <1>1, <1>2, <1>3, <1>4, <2>1, RecursionDown
<1>6. \E f : f = [q \in Nat |-> StringAt(f, q, p, room)]
  <2>1. PICK f \in S : F[f] = f
    BY <1>5
  <2>2. f = [q \in Nat |-> StringAt(f, q, p, room)]
    BY <2>1
  <2> QED
    BY <2>2
<1>7. readString(p, room) = (CHOOSE f : f = [q \in Nat |-> StringAt(f, q, p, room)])[p]
  BY DEF readString, StringAt, Adding, BeyondAt, Quoted, Unterminated, Interpolation, Refused, Further, Escaped
<1> QED
  BY <1>6, <1>7

LEMMA StringAdvances ==
  ASSUME IsText, NEW p \in Nat, NEW room \in BOOLEAN
  PROVE  IsPart(readString(p, room), p, room)
<1>1. PICK f : f = [q \in Nat |-> StringAt(f, q, p, room)] /\ readString(p, room) = f[p]
  BY StringIs
<1> DEFINE T == {q \in Nat : IsPart(f[q], q, room)}
<1>2. \A q \in Nat : f[q] = StringAt(f, q, p, room)
  BY <1>1
<1>3. ASSUME NEW q \in Nat, q < Len(source) + 1 => \A r \in Nat : q < r => r \in T PROVE q \in T
  <2>1. IsPart(StringAt(f, q, p, room), q, room)
    BY <1>3, StringKeeps
  <2> QED
    BY <1>2, <2>1
<1>4. \A q \in Nat : q \in T
  <2> HIDE DEF T
  <2>1. Len(source) + 1 \in Nat
    BY Characters
  <2> QED
    BY <1>3, <2>1, DownInduction
<1> QED
  BY <1>1, <1>4

(****************************************************************************)
(* The other tokens.                                                        *)
(****************************************************************************)
LEMMA SymbolLengths == \A s \in Symbols : Len(s[1]) \in 1..3
<1>1. ASSUME NEW s \in Symbols
      PROVE  \E a, b, c : s[1] = <<a>> \/ s[1] = <<a, b>> \/ s[1] = <<a, b, c>>
  BY DEF Symbols
<1>2. ASSUME NEW a, NEW b, NEW c
      PROVE  Len(<<a>>) \in 1..3 /\ Len(<<a, b>>) \in 1..3 /\ Len(<<a, b, c>>) \in 1..3
  OBVIOUS
<1> QED
  BY <1>1, <1>2

\* A longest symbol exists when one fits, and is one that fits.
LEMMA SymbolFits ==
  ASSUME NEW p \in Nat, Fits(p) # {}
  PROVE  \E s \in Fits(p) : /\ Symbol(p).to = p + Len(s[1]) /\ Symbol(p).type = s[2] /\ Symbol(p).text = <<>>
                            /\ Len(s[1]) \in 1..3
<1> DEFINE Longest(t) == \A u \in Fits(p) : Len(u[1]) <= Len(t[1])
           s == CHOOSE t \in Fits(p) : Longest(t)
<1>1. \A t \in Fits(p) : Len(t[1]) \in 1..3
  BY SymbolLengths DEF Fits
<1>2. \E t \in Fits(p) : Longest(t)
  <2>1. PICK len : len = [u \in Fits(p) |-> Len(u[1])]
    OBVIOUS
  <2>2. \A u \in Fits(p) : len[u] \in 1..3 /\ len[u] = Len(u[1])
    BY <1>1, <2>1
  <2>3. \E t \in Fits(p) : \A u \in Fits(p) : len[u] <= len[t]
    <3>1. CASE \E t \in Fits(p) : len[t] = 3
      BY <2>2, <3>1
    <3>2. CASE (\A t \in Fits(p) : len[t] # 3) /\ \E t \in Fits(p) : len[t] = 2
      BY <2>2, <3>2
    <3>3. CASE \A t \in Fits(p) : len[t] # 3 /\ len[t] # 2
      BY <2>2, <3>3
    <3> QED
      BY <3>1, <3>2, <3>3
  <2> QED
    BY <2>2, <2>3
<1>3. s \in Fits(p)
  <2> HIDE DEF Longest
  <2> QED
    BY <1>2
<1>4. Symbol(p).to = p + Len(s[1]) /\ Symbol(p).type = s[2] /\ Symbol(p).text = <<>>
  BY DEF Symbol, Piece
<1> HIDE DEF s
<1> QED
  BY <1>1, <1>3, <1>4

LEMMA SymbolAdvances ==
  ASSUME NEW p \in Nat, Fits(p) # {}
  PROVE  Symbol(p).to \in Nat /\ Symbol(p).to > p /\ Symbol(p).type # "STRING_CONST"
<1>1. PICK s \in Fits(p) : Symbol(p).to = p + Len(s[1]) /\ Symbol(p).type = s[2] /\ Len(s[1]) \in 1..3
  BY SymbolFits
<1>2. \A t \in Symbols : t[2] # "STRING_CONST"
  BY DEF Symbols
<1>3. s[2] # "STRING_CONST"
  BY <1>2 DEF Fits
<1>4. Symbol(p).to \in Nat /\ Symbol(p).to > p
  BY <1>1
<1>5. Symbol(p).type # "STRING_CONST"
  BY Zenon, <1>1, <1>3
<1> QED
  BY <1>4, <1>5

LEMMA NameAdvances ==
  ASSUME IsText, NEW p \in Nat, isName(Char(p))
  PROVE  readName(p).to \in Nat /\ readName(p).to > p
<1>1. NUL \notin Names \cup Digits
  BY Zenon DEF NUL, Names, Digits
<1>2. p + 1 <= Len(source) + 1 /\ Len(source) \in Nat
  BY <1>1, Characters DEF isName
<1>3. Past(p + 1, Names \cup Digits) \in (p + 1)..(Len(source) + 1)
  BY <1>1, <1>2, PastEnds
<1> QED
  BY <1>3 DEF readName, Piece

LEMMA BasedAdvances ==
  ASSUME IsText, NEW p \in Nat, p + 2 <= Len(source) + 1, NEW digits, NUL \notin digits, NEW start
  PROVE  Based(p, digits, start).to \in Nat /\ Based(p, digits, start).to > p
<1>1. Past(p + 2, digits) \in (p + 2)..(Len(source) + 1)
  BY PastEnds
<1>2. Based(p, digits, start).to = Past(p + 2, digits)
  BY DEF Based, Piece
<1>3. Len(source) \in Nat
  BY Characters
<1> QED
  BY <1>1, <1>2, <1>3

LEMMA NumberAdvances ==
  ASSUME IsText, NEW p \in Nat, isDigit(Char(p))
  PROVE  Number(p).to \in Nat /\ Number(p).to > p
<1>1. NUL \notin HexDigits /\ NUL \notin Digits /\ NUL \notin {"x", "b", "o", ".", "+", "-", "e"}
      /\ NUL \notin BinaryDigits /\ NUL \notin OctalDigits
  BY Zenon DEF NUL, HexDigits, Digits, BinaryDigits, OctalDigits
<1>2. p \in 1..Len(source) /\ Len(source) \in Nat
  BY <1>1, Characters DEF isDigit
<1>3. ASSUME NEW c \in {"x", "b", "o"}, Char(p + 1) = c PROVE p + 2 <= Len(source) + 1
  <2>1. Char(p + 1) # NUL
    BY <1>1, <1>3
  <2> QED
    BY <1>2, <2>1, Characters
<1>4. readNumber(p).to \in Nat /\ readNumber(p).to > p
  <2> DEFINE whole == Past(p, Digits)
             fraction == IF Char(whole) = "." /\ isDigit(Char(whole + 1)) THEN Past(whole + 1, Digits) ELSE whole
             exponent == fraction + (IF Char(fraction + 1) \in {"+", "-"} THEN 2 ELSE 1)
             to == IF Char(fraction) = "e" THEN Past(exponent, Digits) ELSE fraction
  <2>1. whole \in Nat /\ whole > p /\ whole <= Len(source) + 1
    <3>1. Past(p, Digits) \in p..(Len(source) + 1) /\ Past(p, Digits) > p
      BY <1>1, <1>2, PastEnds DEF isDigit
    <3> QED
      BY <1>2, <3>1
  <2>2. fraction \in Nat /\ fraction > p /\ fraction <= Len(source) + 1
    <3> HIDE DEF whole
    <3>1. CASE Char(whole) = "." /\ isDigit(Char(whole + 1))
      <4>1. Char(whole) # NUL
        BY <1>1, <3>1
      <4>2. whole + 1 <= Len(source) + 1 /\ whole + 1 \in Nat
        BY <1>2, <2>1, <4>1, Characters
      <4>3. Past(whole + 1, Digits) \in (whole + 1)..(Len(source) + 1)
        BY <1>1, <4>2, PastEnds
      <4> QED
        BY <1>2, <2>1, <3>1, <4>3
    <3>2. CASE ~(Char(whole) = "." /\ isDigit(Char(whole + 1)))
      BY <2>1, <3>2
    <3> QED
      BY <3>1, <3>2
  <2>3. to \in Nat /\ to > p
    <3> HIDE DEF fraction
    <3>1. CASE Char(fraction) = "e"
      <4>1. Char(fraction) # NUL
        BY <1>1, <3>1
      <4>2. fraction <= Len(source)
        BY <1>2, <2>2, <4>1, Characters
      <4>3. Char(fraction + 1) \in {"+", "-"} => fraction + 1 <= Len(source)
        <5>1. Char(fraction + 1) \in {"+", "-"} => Char(fraction + 1) # NUL
          BY <1>1
        <5> QED
          BY <1>2, <2>2, <5>1, Characters
      <4>4. exponent \in Nat /\ exponent > p /\ exponent <= Len(source) + 1
        BY <1>2, <2>2, <4>2, <4>3
      <4> HIDE DEF exponent
      <4>5. Past(exponent, Digits) \in exponent..(Len(source) + 1)
        BY <1>1, <4>4, PastEnds
      <4> QED
        BY <1>2, <3>1, <4>4, <4>5
    <3>2. CASE Char(fraction) # "e"
      BY <2>2, <3>2
    <3> QED
      BY <3>1, <3>2
  <2>4. readNumber(p).to = to
    BY DEF readNumber, Piece
  <2> QED
    BY <2>3, <2>4
<1>5. CASE Char(p) = "0" /\ Char(p + 1) = "x"
  BY <1>1, <1>3, <1>5, BasedAdvances DEF Number
<1>6. CASE Char(p) = "0" /\ Char(p + 1) = "b"
  BY <1>1, <1>3, <1>6, BasedAdvances DEF Number
<1>7. CASE Char(p) = "0" /\ Char(p + 1) = "o"
  BY <1>1, <1>3, <1>7, BasedAdvances DEF Number
<1>8. CASE ~(Char(p) = "0" /\ Char(p + 1) \in {"x", "b", "o"})
  <2>1. Number(p) = readNumber(p)
    BY <1>8 DEF Number
  <2> QED
    BY <1>4, <2>1
<1> QED
  BY <1>5, <1>6, <1>7, <1>8

\* The content of a raw string ends, at the latest with the source.
LEMMA RawEnds ==
  ASSUME IsText, NEW p \in Nat, TripleQuote(p)
  PROVE  RawEnd(p + 3) \in (p + 3)..(Len(source) + 1) /\ Len(source) \in Nat
<1> DEFINE Stops(r) == /\ Char(r) # "\r"
                       /\ \/ \A i \in 0..2 : Char(r + i) = QUOTE
                          \/ Char(r) = NUL \/ Char(r + 1) = NUL \/ Char(r + 2) = NUL
           end == Len(source) + 1
           S == {r \in Nat : Stops(r)}
<1>1. p + 3 \in Nat /\ p + 3 <= end /\ end \in Nat
  <2>1. Char(p + 2) # NUL
    BY Different DEF TripleQuote
  <2> QED
    BY <2>1, Characters
<1>2. Stops(end)
  BY <1>1, Characters, Different
<1>3. PICK q \in (p + 3)..end : q \in S /\ \A r \in (p + 3)..(q - 1) : r \notin S
  <2>1. end \in (p + 3)..end /\ end \in S /\ end \in Int
    BY <1>1, <1>2
  <2> HIDE DEF S, end
  <2> QED
    BY <1>1, <2>1, FirstOf
<1>4. Stops(q) /\ \A r \in (p + 3)..(q - 1) : ~Stops(r)
  <2> HIDE DEF Stops
  <2> QED
    BY <1>1, <1>3
<1>5. RawEnd(p + 3) = CHOOSE r \in (p + 3)..end : Stops(r) /\ \A i \in (p + 3)..(r - 1) : ~Stops(i)
  BY DEF RawEnd
<1>6. RawEnd(p + 3) \in (p + 3)..end
  <2> HIDE DEF Stops, end
  <2> QED
    BY <1>4, <1>5
<1> QED
  BY <1>6, Characters

LEMMA RawAdvances ==
  ASSUME IsText, NEW p \in Nat, TripleQuote(p)
  PROVE  readRawString(p).to \in Nat /\ readRawString(p).to > p
<1>1. readRawString(p).to \in {RawEnd(p + 3) + 3, RawEnd(p + 3) + 2}
  BY DEF readRawString, Piece
<1> QED
  BY <1>1, RawEnds

(****************************************************************************)
(* nextToken.                                                               *)
(****************************************************************************)
\* A stack of open interpolations.
Nested(s) ==
  /\ s \in Seq(Nat) /\ Len(s) <= MAX_INTERPOLATION_NESTING
  /\ \A i \in 1..Len(s) : s[i] > 0

IInv == IsText /\ currentChar \in Nat /\ Nested(parens)

\* What a call does: it goes on from p or further, with a sound stack.
Goes(p) == IsText' /\ currentChar' \in Nat /\ currentChar' >= p /\ Nested(parens')

LEMMA StartFurther ==
  ASSUME IInv
  PROVE  Start.to \in Nat /\ Start.to >= currentChar
BY SkippedAdvances DEF IInv, Start, Skips

LEMMA AdvanceGoes ==
  ASSUME IInv, NEW piece, NEW twice, Advance(piece, twice), NEW p \in Nat, piece.to \in Nat, piece.to >= p,
         Nested(parens')
  PROVE  Goes(p) /\ next'.type = piece.type
BY DEF IInv, Advance, Goes, IsText, Token

\* A token that leaves the nesting alone.
LEMMA SimpleGoes ==
  ASSUME IInv, NEW piece, Simple(piece), NEW p \in Nat, piece.to \in Nat, piece.to >= p
  PROVE  Goes(p) /\ next'.type = piece.type
<1>1. Nested(parens')
  BY DEF IInv, Simple, Nested
<1> QED
  BY <1>1, AdvanceGoes DEF Simple

\* A part of a string opens an interpolation when there is room.
LEMMA StringGoes ==
  ASSUME IInv, NEW p \in Nat, NEW open, Nested(open), NEW twice, StringPart(p, open, twice)
  PROVE  Goes(p) /\ (Char(p) # NUL => Goes(p + 1))
<1> DEFINE room == Len(open) < MAX_INTERPOLATION_NESTING
<1> PICK piece : piece = readString(p, room)
  OBVIOUS
<1>1. room \in BOOLEAN
  OBVIOUS
<1>2. IsPart(piece, p, room)
  <2> HIDE DEF room
  <2> QED
    BY <1>1, StringAdvances DEF IInv
<1>3. /\ Advance([piece EXCEPT !.start = Start.to], twice)
      /\ \/ parens' = open
         \/ parens' = Append(open, 1) /\ piece.type = "DOLLAR_INTERPOL" /\ Char(piece.to - 1) # "$"
  BY DEF StringPart
<1>4. Nested(parens')
  <2>1. CASE parens' = open
    BY <2>1
  <2>2. CASE parens' = Append(open, 1) /\ piece.type = "DOLLAR_INTERPOL" /\ Char(piece.to - 1) # "$"
    <3>1. room
      BY <1>2, <2>2 DEF IsPart
    <3>2. /\ parens' \in Seq(Nat) /\ Len(parens') = Len(open) + 1
          /\ \A i \in 1..Len(open) : parens'[i] = open[i]
          /\ parens'[Len(open) + 1] = 1
      BY <2>2 DEF Nested
    <3>3. Len(parens') <= MAX_INTERPOLATION_NESTING
      BY <3>1, <3>2, NestingAssumption DEF Nested
    <3>4. ASSUME NEW i \in 1..Len(parens') PROVE parens'[i] > 0
      <4>1. Len(open) \in Nat /\ \A j \in 1..Len(open) : open[j] > 0
        BY DEF Nested
      <4>2. CASE i = Len(open) + 1
        BY <3>2, <4>2
      <4>3. CASE i # Len(open) + 1
        <5>1. i \in 1..Len(open)
          BY <3>2, <4>1, <4>3
        <5>2. parens'[i] = open[i]
          BY <3>2, <5>1
        <5> QED
          BY <4>1, <5>1, <5>2
      <4> QED
        BY <4>2, <4>3
    <3> QED
      BY <3>2, <3>3, <3>4 DEF Nested
  <2> QED
    BY <1>3, <2>1, <2>2
<1>5. piece \in Pieces /\ piece.to \in Nat /\ piece.to >= p /\ (Char(p) # NUL => piece.to >= p + 1)
  BY <1>2 DEF IsPart, Pieces
<1>6. [piece EXCEPT !.start = Start.to].to = piece.to
  BY <1>5 DEF Pieces
<1> HIDE DEF room
<1>7. p + 1 \in Nat
  OBVIOUS
<1> QED
  BY <1>3, <1>4, <1>5, <1>6, <1>7, AdvanceGoes

\* A brace alone is punctuation.
LEMMA BracesFit ==
  ASSUME NEW p \in Nat, Char(p) = BRACE \/ Char(p) = CLOSING
  PROVE  Fits(p) # {}
<1>1. <<<<BRACE>>, "LBRACE">> \in Symbols /\ <<<<CLOSING>>, "RBRACE">> \in Symbols
  BY DEF Symbols
<1>2. Char(p + 1 - 1) = Char(p) /\ DOMAIN <<BRACE>> = {1} /\ DOMAIN <<CLOSING>> = {1}
  OBVIOUS
<1> QED
  BY <1>1, <1>2 DEF Fits

LEMMA OpenBraceGoes ==
  ASSUME IInv, OpenBrace
  PROVE  Goes(currentChar + 1)
<1>1. Fits(Start.to) # {}
  BY BracesFit, StartFurther DEF OpenBrace
<1>2. Symbol(Start.to).to \in Nat /\ Symbol(Start.to).to > Start.to
  BY <1>1, StartFurther, SymbolAdvances
<1>3. Nested(parens')
  <2>1. CASE parens = <<>>
    BY <2>1 DEF OpenBrace, IInv
  <2>2. CASE parens # <<>>
    <3>1. /\ parens \in Seq(Nat) /\ Len(parens) \in Nat \ {0} /\ Len(parens) \in 1..Len(parens)
      BY <2>2 DEF IInv, Nested
    <3>2. parens' = [parens EXCEPT ![Len(parens)] = @ + 1]
      BY <2>2 DEF OpenBrace
    <3>3. parens' \in Seq(Nat) /\ Len(parens') = Len(parens)
      BY <3>1, <3>2
    <3>4. ASSUME NEW i \in 1..Len(parens) PROVE parens'[i] > 0
      BY <3>1, <3>2 DEF IInv, Nested
    <3> QED
      BY <3>3, <3>4 DEF IInv, Nested
  <2> QED
    BY <2>1, <2>2
<1>4. currentChar + 1 \in Nat /\ Symbol(Start.to).to >= currentChar + 1
  BY <1>2, StartFurther DEF IInv
<1> QED
  BY <1>2, <1>3, <1>4, AdvanceGoes DEF OpenBrace

LEMMA CloseBraceGoes ==
  ASSUME IInv, CloseBrace
  PROVE  Goes(currentChar + 1)
<1>1. Fits(Start.to) # {}
  BY BracesFit, StartFurther DEF CloseBrace
<1>2. Symbol(Start.to).to \in Nat /\ Symbol(Start.to).to > Start.to
  BY <1>1, StartFurther, SymbolAdvances
<1>3. currentChar + 1 \in Nat /\ Symbol(Start.to).to >= currentChar + 1 /\ Start.to + 1 >= currentChar + 1
  BY <1>2, StartFurther DEF IInv
<1> PICK top : top = Len(parens)
  OBVIOUS
<1>4. CASE parens # <<>> /\ parens[top] = 1
  <2>1. parens \in Seq(Nat) /\ top \in Nat \ {0} /\ top <= MAX_INTERPOLATION_NESTING
    BY <1>4 DEF IInv, Nested
  <2> PICK open : open = SubSeq(parens, 1, top - 1)
    OBVIOUS
  <2>2. open \in Seq(Nat) /\ Len(open) = top - 1 /\ \A i \in 1..(top - 1) : open[i] = parens[i]
    BY <2>1
  <2>3. Nested(open)
    <3>1. \A i \in 1..(top - 1) : parens[i] > 0
      BY <2>1 DEF IInv, Nested
    <3> QED
      BY <2>1, <2>2, <3>1, NestingAssumption DEF Nested
  <2>4. StringPart(Start.to + 1, open, 0)
    BY <1>4 DEF CloseBrace
  <2>5. Goes(Start.to + 1)
    BY <2>3, <2>4, StartFurther, StringGoes
  <2> QED
    BY <1>3, <2>5, StartFurther DEF Goes
<1>5. CASE ~(parens # <<>> /\ parens[top] = 1)
  <2>1. /\ Advance(Symbol(Start.to), 0)
        /\ parens' = IF parens = <<>> THEN parens ELSE [parens EXCEPT ![top] = @ - 1]
    BY <1>5 DEF CloseBrace
  <2>2. Nested(parens')
    <3>1. CASE parens = <<>>
      BY <2>1, <3>1 DEF IInv
    <3>2. CASE parens # <<>>
      <4>1. /\ parens \in Seq(Nat) /\ top \in Nat \ {0} /\ top \in 1..Len(parens)
            /\ parens[top] > 0 /\ parens[top] # 1 /\ parens[top] \in Nat
        BY <1>5, <3>2 DEF IInv, Nested
      <4>2. parens' = [parens EXCEPT ![top] = parens[top] - 1] /\ parens[top] - 1 \in Nat /\ parens[top] - 1 > 0
        BY <2>1, <3>2, <4>1
      <4>3. parens' \in Seq(Nat) /\ Len(parens') = Len(parens)
        BY <4>1, <4>2
      <4>4. ASSUME NEW i \in 1..Len(parens) PROVE parens'[i] > 0
        BY <4>1, <4>2 DEF IInv, Nested
      <4> QED
        BY <4>3, <4>4 DEF IInv, Nested
    <3> QED
      BY <3>1, <3>2
  <2> QED
    BY <1>2, <1>3, <2>1, <2>2, AdvanceGoes
<1> QED
  BY <1>4, <1>5

LEMMA WordGoes ==
  ASSUME IInv, Word
  PROVE  Goes(currentChar + 1)
<1>1. Start.to \in Nat /\ Start.to >= currentChar /\ currentChar + 1 \in Nat /\ IsText
  BY StartFurther DEF IInv
<1>2. CASE isName(Char(Start.to)) /\ Simple(readName(Start.to))
  <2>1. readName(Start.to).to \in Nat /\ readName(Start.to).to >= currentChar + 1
    BY <1>1, <1>2, NameAdvances DEF IInv
  <2> QED
    BY <1>1, <1>2, <2>1, SimpleGoes
<1>3. CASE isDigit(Char(Start.to)) /\ Simple(Number(Start.to))
  <2>1. Number(Start.to).to \in Nat /\ Number(Start.to).to >= currentChar + 1
    BY <1>1, <1>3, NumberAdvances DEF IInv
  <2> QED
    BY <1>1, <1>3, <2>1, SimpleGoes
<1> QED
  BY <1>2, <1>3 DEF Word

\* Every call of nextToken that makes a token gets further.
LEMMA NextGoes ==
  ASSUME IInv, NextToken
  PROVE  Goes(currentChar) /\ (Goes(currentChar + 1) \/ next'.type = "EOF")
<1>1. Start.to \in Nat /\ Start.to >= currentChar /\ currentChar \in Nat /\ currentChar + 1 \in Nat /\ IsText
  BY StartFurther DEF IInv
<1>2. CASE EndOfSource
  <2> PICK piece : piece = Piece("EOF", Start.to, Start.to, FALSE, 0, <<>>)
    OBVIOUS
  <2>1. piece.to = Start.to /\ piece.type = "EOF" /\ Simple(piece)
    BY <1>2 DEF Piece, EndOfSource
  <2> QED
    BY <1>1, <2>1, SimpleGoes
<1>3. ASSUME Goes(currentChar + 1) PROVE Goes(currentChar)
  BY <1>1, <1>3 DEF Goes
<1>4. CASE ResumeAfterName
  BY <1>1, <1>3, <1>4, StringGoes DEF ResumeAfterName, IInv
<1>5. CASE OpenString
  <2>1. Goes(Start.to + 1)
    BY <1>1, <1>5, StringGoes DEF OpenString, IInv
  <2> QED
    BY <1>1, <2>1 DEF Goes
<1>6. CASE RawString
  <2>1. readRawString(Start.to).to \in Nat /\ readRawString(Start.to).to >= currentChar + 1
    BY <1>1, <1>6, RawAdvances DEF RawString
  <2> QED
    BY <1>1, <1>3, <1>6, <2>1, SimpleGoes DEF RawString
<1>7. CASE Punctuation
  <2>1. Symbol(Start.to).to \in Nat /\ Symbol(Start.to).to >= currentChar + 1
    BY <1>1, <1>7, SymbolAdvances DEF Punctuation
  <2> QED
    BY <1>1, <1>3, <1>7, <2>1, SimpleGoes DEF Punctuation
<1>8. CASE LoneQuestion \/ InvalidCharacter
  <2>1. currentChar' = Start.to + 1 /\ source' = source /\ parens' = parens
    BY <1>8 DEF LoneQuestion, InvalidCharacter
  <2> QED
    BY <1>1, <1>3, <2>1 DEF Goes, IsText, IInv, Nested
<1> QED
  BY <1>2, <1>3, <1>4, <1>5, <1>6, <1>7, <1>8, OpenBraceGoes, CloseBraceGoes, WordGoes DEF NextToken

LEMMA InitIInv == ASSUME Init PROVE IInv
<1>1. IsText
  BY SourcesAssumption DEF Init, IsText
<1>2. Nested(parens)
  BY NestingAssumption DEF Init, Nested
<1> QED
  BY <1>1, <1>2 DEF Init, IInv

LEMMA NextIInv == ASSUME IInv, [Next]_vars PROVE IInv'
<1>1. CASE NextToken
  BY <1>1, NextGoes DEF IInv, Goes
<1>2. CASE Drain
  BY <1>2 DEF Drain, IInv, IsText, Nested
<1>3. CASE UNCHANGED vars
  BY <1>3 DEF vars, IInv, IsText, Nested
<1> QED
  BY <1>1, <1>2, <1>3 DEF Next

\* The stack of open interpolations stays within parser->parens, whatever the
\* source and however large the array: readString opens one only when there is
\* room, and a `}` takes a count to zero only where it closes the interpolation.
THEOREM NestingHolds == Spec => []NestingSound
<1>1. IInv => NestingSound
  BY DEF IInv, Nested, NestingSound
<1> QED
  BY <1>1, InitIInv, NextIInv, PTL DEF Spec

\* Every call of nextToken before the last leaves less of the source, whatever
\* the source: neither the steps back of escapes and numbers nor the return to
\* a string after its interpolation make the lexer stand still.
THEOREM AlwaysAdvances == Spec => LexingAdvances
<1> DEFINE A == next.type # "EOF" => currentChar' > currentChar \/ next'.type = "EOF"
<1>1. ASSUME IInv, [Next]_vars PROVE [A]_vars
  <2>1. CASE NextToken
    <3>1. Goes(currentChar + 1) \/ next'.type = "EOF"
      BY <1>1, <2>1, NextGoes
    <3> QED
      BY <1>1, <3>1 DEF Goes, IInv
  <2>2. CASE Drain
    BY <2>2 DEF Drain
  <2>3. CASE UNCHANGED vars
    BY <2>3
  <2> QED
    BY <1>1, <2>1, <2>2, <2>3 DEF Next
<1> QED
  BY <1>1, InitIInv, NextIInv, PTL DEF Spec, LexingAdvances

(****************************************************************************)
(* Raw strings.                                                             *)
(****************************************************************************)
ScanState == [skipStart : Int, firstNewline : Int, skipEnd : Int, lastNewline : Int]
First     == [skipStart |-> 0, firstNewline |-> -1, skipEnd |-> -1, lastNewline |-> -1]

\* What the loop of readRawString remembers after the i-th character, c.
ScanOn(s, i, c) ==
  [skipStart    |-> CASE s.firstNewline # -1 \/ c = "\n" -> s.skipStart
                      [] s.firstNewline = -1 /\ isWhitespace(c) /\ s.skipStart # -1 -> i
                      [] OTHER -> -1,
   firstNewline |-> IF c = "\n" /\ s.firstNewline = -1 THEN i - 1 ELSE s.firstNewline,
   lastNewline  |-> IF c = "\n" THEN i - 1 ELSE s.lastNewline,
   skipEnd      |-> SkipEnd(s, i, c)]

LEMMA NoBlank == ~isWhitespace("\n")
BY Zenon DEF isWhitespace

LEMMA ScanOnType ==
  ASSUME NEW s \in ScanState, NEW i \in Int, NEW c
  PROVE  ScanOn(s, i, c) \in ScanState
<1>1. SkipEnd(s, i, c) \in Int
  BY NoBlank DEF SkipEnd, ScanState
<1> QED
  BY <1>1, NoBlank DEF ScanOn, ScanState

\* The state after each character is the one before, carried on.
LEMMA ScannedSteps ==
  ASSUME NEW content, Len(content) \in Nat
  PROVE  /\ Scanned(content)[0] = First
         /\ \A i \in 1..Len(content) : Scanned(content)[i] = ScanOn(Scanned(content)[i - 1], i, content[i])
<1> DEFINE n == Len(content)
           Turn(f, i) == IF i = 0 THEN First ELSE ScanOn(f[i - 1], i, content[i])
           S == [0..n -> ScanState]
           F == [f \in S |-> [i \in 0..n |-> Turn(f, i)]]
<1>1. First \in ScanState
  BY DEF First, ScanState
<1>2. S # {}
  <2>1. [i \in 0..n |-> First] \in S
    BY <1>1
  <2> QED
    BY <2>1
<1>3. F \in [S -> S]
  <2>1. ASSUME NEW f \in S, NEW i \in 0..n PROVE Turn(f, i) \in ScanState
    <3>1. CASE i = 0
      BY <1>1, <3>1
    <3>2. CASE i # 0
      <4>1. f[i - 1] \in ScanState /\ i \in Int
        BY <3>2
      <4> QED
        BY <3>2, <4>1, ScanOnType
    <3> QED
      BY <3>1, <3>2
  <2> HIDE DEF Turn
  <2> QED
    BY <2>1
<1>4. ASSUME NEW f \in S, NEW g \in S, NEW q \in 0..n, \A r \in 0..n : r < q => f[r] = g[r]
      PROVE  F[f][q] = F[g][q]
  <2>1. Turn(f, q) = Turn(g, q)
    <3>1. q # 0 => q - 1 \in 0..n /\ q - 1 < q
      OBVIOUS
    <3>2. q # 0 => f[q - 1] = g[q - 1]
      BY <1>4, <3>1
    <3> QED
      BY <3>2
  <2> HIDE DEF Turn
  <2> QED
    BY <2>1
<1>5. \E f \in S : F[f] = f
  <2>1. 0..n \in SUBSET Nat /\ n + 1 \in Nat /\ \A q \in 0..n : q < n + 1
    OBVIOUS
  <2>2. \A f, g \in S : (\A q \in 0..n : f[q] = g[q]) => f = g
    OBVIOUS
  <2> HIDE DEF S, F, n
  <2> QED
    BY <1>2, <1>3, <1>4, <2>1, <2>2, RecursionUp
<1>6. \E f : f = [i \in 0..n |-> Turn(f, i)]
  <2>1. PICK f \in S : F[f] = f
    BY <1>5
  <2>2. f = [i \in 0..n |-> Turn(f, i)]
    <3> HIDE DEF Turn
    <3> QED
      BY <2>1
  <2> QED
    BY <2>2
<1>7. Scanned(content) = CHOOSE f : f = [i \in 0..n |-> Turn(f, i)]
  BY DEF Scanned, First, ScanOn
<1> PICK scan : scan = Scanned(content)
  OBVIOUS
<1>8. scan = [i \in 0..n |-> Turn(scan, i)]
  <2> HIDE DEF Turn
  <2> QED
    BY <1>6, <1>7
<1>9. 0 \in 0..n /\ \A i \in 1..n : i \in 0..n /\ i # 0
  OBVIOUS
<1>10. scan[0] = First /\ \A i \in 1..n : scan[i] = ScanOn(scan[i - 1], i, content[i])
  BY <1>8, <1>9
<1> QED
  BY <1>10

Blank(content, from, to) == \A i \in from..to : isWhitespace(content[i])
NoBreak(content, from, to) == \A i \in from..to : content[i] # "\n"

\* What the state says of the characters scanned so far.
ScanInv(content, i, s) ==
  LET m == IF s.firstNewline = -1 THEN i ELSE s.firstNewline
  IN /\ s \in ScanState
     /\ s.firstNewline = -1 => NoBreak(content, 1, i)
     /\ s.firstNewline # -1 => /\ s.firstNewline + 1 \in 1..i /\ content[s.firstNewline + 1] = "\n"
                               /\ NoBreak(content, 1, s.firstNewline)
     /\ s.lastNewline = -1 <=> s.firstNewline = -1
     /\ s.lastNewline # -1 => /\ s.lastNewline + 1 \in 1..i /\ content[s.lastNewline + 1] = "\n"
                              /\ NoBreak(content, s.lastNewline + 2, i)
     /\ s.skipStart \in {-1, m} /\ (s.skipStart # -1 <=> Blank(content, 1, m))
     /\ s.skipEnd \in {-1, s.lastNewline}
     /\ s.lastNewline # -1 => (s.skipEnd # -1 <=> Blank(content, s.lastNewline + 2, i))

LEMMA OneMore ==
  ASSUME NEW content, NEW from \in Nat, NEW i \in Nat \ {0}
  PROVE  /\ from <= i => (Blank(content, from, i) <=> Blank(content, from, i - 1) /\ isWhitespace(content[i]))
         /\ from <= i => (NoBreak(content, from, i) <=> NoBreak(content, from, i - 1) /\ content[i] # "\n")
         /\ Blank(content, i + 1, i) /\ NoBreak(content, i + 1, i)
<1>1. from <= i => \A j : j \in from..i <=> j \in from..(i - 1) \/ j = i
  OBVIOUS
<1>2. \A j : j \notin (i + 1)..i
  OBVIOUS
<1> QED
  BY <1>1, <1>2 DEF Blank, NoBreak

LEMMA ScanKeeps ==
  ASSUME NEW content, NEW i \in Nat \ {0}, NEW s, ScanInv(content, i - 1, s),
         NEW t, t = ScanOn(s, i, content[i])
  PROVE  ScanInv(content, i, t)
<1>1. /\ s.skipStart \in Int /\ s.firstNewline \in Int /\ s.skipEnd \in Int /\ s.lastNewline \in Int
      /\ s.firstNewline = -1 => NoBreak(content, 1, i - 1)
      /\ s.firstNewline # -1 => /\ s.firstNewline + 1 \in 1..(i - 1) /\ content[s.firstNewline + 1] = "\n"
                                /\ NoBreak(content, 1, s.firstNewline)
      /\ s.lastNewline = -1 <=> s.firstNewline = -1
      /\ s.lastNewline # -1 => /\ s.lastNewline + 1 \in 1..(i - 1) /\ content[s.lastNewline + 1] = "\n"
                               /\ NoBreak(content, s.lastNewline + 2, i - 1)
      /\ s.firstNewline = -1 => s.skipStart \in {-1, i - 1} /\ (s.skipStart # -1 <=> Blank(content, 1, i - 1))
      /\ s.firstNewline # -1 => /\ s.skipStart \in {-1, s.firstNewline}
                                /\ (s.skipStart # -1 <=> Blank(content, 1, s.firstNewline))
      /\ s.skipEnd \in {-1, s.lastNewline}
      /\ s.lastNewline # -1 => (s.skipEnd # -1 <=> Blank(content, s.lastNewline + 2, i - 1))
  BY DEF ScanInv, ScanState
<1>2. t \in ScanState
  BY ScanOnType DEF ScanInv
<1>3. CASE content[i] = "\n"
  <2>1. /\ t.lastNewline = i - 1 /\ t.skipEnd = i - 1 /\ t.skipStart = s.skipStart
        /\ t.firstNewline = IF s.firstNewline = -1 THEN i - 1 ELSE s.firstNewline
    BY <1>3, NoBlank DEF ScanOn, SkipEnd
  <2>2. Blank(content, i + 1, i) /\ NoBreak(content, i + 1, i) /\ (i - 1) + 2 = i + 1 /\ (i - 1) + 1 = i
    BY OneMore
  <2> QED
    BY <1>1, <1>2, <1>3, <2>1, <2>2 DEF ScanInv
<1>4. CASE content[i] # "\n"
  <2>1. /\ t.lastNewline = s.lastNewline /\ t.firstNewline = s.firstNewline
        /\ t.skipEnd = IF isWhitespace(content[i]) THEN s.skipEnd ELSE -1
        /\ t.skipStart = IF s.firstNewline # -1 THEN s.skipStart
                         ELSE IF isWhitespace(content[i]) /\ s.skipStart # -1 THEN i ELSE -1
    BY <1>4, NoBlank DEF ScanOn, SkipEnd
  <2>2. s.firstNewline = -1 => /\ NoBreak(content, 1, i)
                               /\ Blank(content, 1, i) <=> Blank(content, 1, i - 1) /\ isWhitespace(content[i])
    BY <1>1, <1>4, OneMore
  <2>3. s.lastNewline # -1 =>
          /\ NoBreak(content, s.lastNewline + 2, i)
          /\ Blank(content, s.lastNewline + 2, i) <=>
               Blank(content, s.lastNewline + 2, i - 1) /\ isWhitespace(content[i])
    <3>1. s.lastNewline # -1 => s.lastNewline + 2 \in Nat /\ s.lastNewline + 2 <= i
      BY <1>1
    <3> QED
      BY <1>1, <1>4, <3>1, OneMore
  <2> QED
    BY <1>1, <1>2, <2>1, <2>2, <2>3 DEF ScanInv
<1> QED
  BY <1>3, <1>4

LEMMA ScanEnds ==
  ASSUME NEW content, Len(content) \in Nat
  PROVE  ScanInv(content, Len(content), Scanned(content)[Len(content)])
<1> PICK scan : scan = Scanned(content)
  OBVIOUS
<1>1. /\ scan[0] = First
      /\ \A i \in 1..Len(content) : scan[i] = ScanOn(scan[i - 1], i, content[i])
  BY ScannedSteps
<1> DEFINE T == {i \in Nat : i <= Len(content) => ScanInv(content, i, scan[i])}
<1>2. 0 \in T
  BY <1>1 DEF ScanInv, First, ScanState, Blank, NoBreak
<1>3. ASSUME NEW n \in Nat, n \in T PROVE n + 1 \in T
  <2>1. SUFFICES ASSUME n + 1 <= Len(content) PROVE ScanInv(content, n + 1, scan[n + 1])
    BY <1>3
  <2>2. n + 1 \in 1..Len(content) /\ (n + 1) - 1 = n /\ n <= Len(content) /\ n + 1 \in Nat \ {0}
    BY <2>1
  <2>3. ScanInv(content, n, scan[n]) /\ scan[n + 1] = ScanOn(scan[n], n + 1, content[n + 1])
    BY <1>1, <1>3, <2>2
  <2> QED
    BY <2>2, <2>3, ScanKeeps
<1>4. Len(content) \in T
  <2> HIDE DEF T
  <2> QED
    BY <1>2, <1>3, NumbersByInduction
<1> QED
  BY <1>4

\* One scan, which remembers four numbers, finds what is to be cut.
LEMMA RawIsTrimmed ==
  ASSUME NEW A, NEW content \in Seq(A)
  PROVE  rawText(content) = Trimmed(content)
<1> DEFINE n == Len(content)
           breaks == {i \in DOMAIN content : content[i] = "\n"}
           first  == CHOOSE i \in breaks : \A j \in breaks : i <= j
           last   == CHOOSE i \in breaks : \A j \in breaks : i >= j
           from   == IF breaks # {} /\ Blank(content, 1, first - 1) THEN first + 1 ELSE 1
           to     == IF breaks # {} /\ Blank(content, last + 1, n) THEN last - 1 ELSE n
<1> PICK s : s = Scanned(content)[n]
  OBVIOUS
<1>1. n \in Nat /\ DOMAIN content = 1..n
  OBVIOUS
<1>2. /\ s.skipStart \in Int /\ s.firstNewline \in Int /\ s.skipEnd \in Int /\ s.lastNewline \in Int
      /\ s.firstNewline = -1 => NoBreak(content, 1, n)
      /\ s.firstNewline # -1 => /\ s.firstNewline + 1 \in 1..n /\ content[s.firstNewline + 1] = "\n"
                                /\ NoBreak(content, 1, s.firstNewline)
                                /\ s.skipStart \in {-1, s.firstNewline}
                                /\ (s.skipStart # -1 <=> Blank(content, 1, s.firstNewline))
      /\ s.lastNewline = -1 <=> s.firstNewline = -1
      /\ s.lastNewline # -1 => /\ s.lastNewline + 1 \in 1..n /\ content[s.lastNewline + 1] = "\n"
                               /\ NoBreak(content, s.lastNewline + 2, n)
                               /\ (s.skipEnd # -1 <=> Blank(content, s.lastNewline + 2, n))
      /\ s.skipEnd \in {-1, s.lastNewline}
  <2> HIDE DEF n
  <2>1. ScanInv(content, n, s)
    BY <1>1, ScanEnds DEF n
  <2> QED
    BY <2>1 DEF ScanInv, ScanState
<1> DEFINE offset == IF s.firstNewline # -1 /\ s.skipStart = s.firstNewline THEN s.firstNewline + 1 ELSE 0
           count  == IF s.lastNewline # -1 /\ s.skipEnd = s.lastNewline THEN s.lastNewline ELSE n
<1>3. rawText(content) = SubSeq(content, offset + 1, IF offset > count THEN offset ELSE count)
  BY DEF rawText
<1>4. Trimmed(content) = SubSeq(content, from, to)
  BY DEF Trimmed, Blank
<1>5. CASE s.firstNewline = -1
  <2>1. breaks = {}
    BY <1>1, <1>2, <1>5 DEF NoBreak
  <2>2. from = 1 /\ to = n /\ offset = 0 /\ count = n
    BY <1>2, <1>5, <2>1
  <2>3. ~(offset > count) /\ offset + 1 = 1
    BY <1>1, <2>2
  <2> HIDE DEF from, to, offset, count, n
  <2> QED
    BY <1>3, <1>4, <2>2, <2>3
<1>6. CASE s.firstNewline # -1
  <2>1. s.firstNewline + 1 \in breaks /\ s.lastNewline + 1 \in breaks
    BY <1>1, <1>2, <1>6
  <2>2. \A j \in breaks : s.firstNewline + 1 <= j /\ s.lastNewline + 1 >= j
    BY <1>1, <1>2, <1>6 DEF NoBreak
  <2>3. \A j \in breaks : j \in Int
    BY <1>1
  <2>4. first = s.firstNewline + 1
    <3> HIDE DEF breaks
    <3>1. first \in breaks /\ \A j \in breaks : first <= j
      BY <2>1, <2>2
    <3> HIDE DEF first
    <3> QED
      BY <2>1, <2>2, <2>3, <3>1
  <2>5. last = s.lastNewline + 1
    <3> HIDE DEF breaks
    <3>1. last \in breaks /\ \A j \in breaks : last >= j
      BY <2>1, <2>2
    <3> HIDE DEF last
    <3> QED
      BY <2>1, <2>2, <2>3, <3>1
  <2>6. from = offset + 1
    <3> HIDE DEF first, breaks
    <3>1. first - 1 = s.firstNewline /\ breaks # {}
      BY <1>2, <2>1, <2>4
    <3>2. Blank(content, 1, first - 1) <=> s.skipStart = s.firstNewline
      BY <1>2, <1>6, <3>1
    <3> QED
      BY <1>2, <1>6, <2>4, <3>1, <3>2
  <2>7. to = count
    <3> HIDE DEF last, breaks
    <3>1. last + 1 = s.lastNewline + 2 /\ breaks # {} /\ last - 1 = s.lastNewline
      BY <1>2, <2>1, <2>5
    <3>2. Blank(content, last + 1, n) <=> s.skipEnd = s.lastNewline
      BY <1>2, <1>6, <3>1
    <3> QED
      BY <1>2, <1>6, <3>1, <3>2
  <2>8. offset \in Nat /\ count \in Int
    BY <1>1, <1>2
  <2> HIDE DEF from, to, offset, count
  <2>9. CASE offset > count
    <3>1. \A j : j \notin 1..(1 + offset - (offset + 1)) /\ j \notin 1..(1 + to - from)
      BY <2>6, <2>7, <2>8, <2>9
    <3>2. SubSeq(content, offset + 1, offset) = [j \in 1..(1 + offset - (offset + 1)) |-> content[offset + 1 + j - 1]]
      BY <2>8
    <3>3. SubSeq(content, from, to) = [j \in 1..(1 + to - from) |-> content[from + j - 1]]
      BY <2>6, <2>7, <2>8
    <3> QED
      BY <1>3, <1>4, <2>9, <3>1, <3>2, <3>3
  <2>10. CASE ~(offset > count)
    BY <1>3, <1>4, <2>6, <2>7, <2>10
  <2> QED
    BY <2>9, <2>10
<1> QED
  BY <1>5, <1>6

\* What is read of a raw string is a sequence of characters.
LEMMA ContentType ==
  ASSUME NEW p \in Nat, NEW to \in Nat, p <= to
  PROVE  RawContent(p, to) \in Seq(Glyph)
<1> DEFINE Turn(f, q) == IF q = p THEN <<>>
                         ELSE IF Char(q - 1) = "\r" THEN f[q - 1] ELSE Append(f[q - 1], Char(q - 1))
           S == [p..to -> Seq(Glyph)]
           F == [f \in S |-> [q \in p..to |-> Turn(f, q)]]
<1>1. S # {}
  <2>1. [q \in p..to |-> <<>>] \in S
    OBVIOUS
  <2> QED
    BY <2>1
<1>2. ASSUME NEW f, NEW q \in p..to, q # p => f[q - 1] \in Seq(Glyph) PROVE Turn(f, q) \in Seq(Glyph)
  <2>1. q # p => q - 1 \in Nat
    OBVIOUS
  <2>2. q # p => Char(q - 1) \in Glyph
    BY <2>1 DEF Glyph
  <2>3. CASE q = p
    BY <2>3
  <2>4. CASE q # p
    BY <1>2, <2>2, <2>4
  <2> QED
    BY <2>3, <2>4
<1>3. F \in [S -> S]
  <2>1. ASSUME NEW f \in S, NEW q \in p..to PROVE Turn(f, q) \in Seq(Glyph)
    <3>1. q # p => q - 1 \in p..to
      OBVIOUS
    <3> HIDE DEF Turn
    <3> QED
      BY <1>2, <3>1
  <2> HIDE DEF Turn
  <2> QED
    BY <2>1
<1>4. ASSUME NEW f \in S, NEW g \in S, NEW q \in p..to, \A r \in p..to : r < q => f[r] = g[r]
      PROVE  F[f][q] = F[g][q]
  <2>1. Turn(f, q) = Turn(g, q)
    <3>1. q # p => q - 1 \in p..to /\ q - 1 < q
      OBVIOUS
    <3>2. q # p => f[q - 1] = g[q - 1]
      BY <1>4, <3>1
    <3> QED
      BY <3>2
  <2> HIDE DEF Turn
  <2> QED
    BY <2>1
<1>5. \E f \in S : F[f] = f
  <2>1. p..to \in SUBSET Nat /\ to + 1 \in Nat /\ \A q \in p..to : q < to + 1
    OBVIOUS
  <2>2. \A f, g \in S : (\A q \in p..to : f[q] = g[q]) => f = g
    OBVIOUS
  <2> HIDE DEF S, F
  <2> QED
    BY <1>1, <1>3, <1>4, <2>1, <2>2, RecursionUp
<1>6. \E f : f = [q \in p..to |-> Turn(f, q)]
  <2>1. PICK f \in S : F[f] = f
    BY <1>5
  <2>2. f = [q \in p..to |-> Turn(f, q)]
    <3> HIDE DEF Turn
    <3> QED
      BY <2>1
  <2> QED
    BY <2>2
<1>7. RawContent(p, to) = (CHOOSE f : f = [q \in p..to |-> Turn(f, q)])[to]
  BY DEF RawContent
<1>8. PICK f : f = [q \in p..to |-> Turn(f, q)] /\ RawContent(p, to) = f[to]
  <2> HIDE DEF Turn
  <2> QED
    BY <1>6, <1>7
<1> DEFINE T == {n \in Nat : p + n <= to => f[p + n] \in Seq(Glyph)}
<1>9. \A q \in p..to : f[q] = Turn(f, q)
  <2> HIDE DEF Turn
  <2> QED
    BY <1>8
<1>10. 0 \in T
  <2>1. p \in p..to /\ p + 0 = p
    OBVIOUS
  <2>2. f[p] = Turn(f, p)
    <3> HIDE DEF Turn
    <3> QED
      BY <1>9, <2>1
  <2>3. Turn(f, p) = <<>>
    OBVIOUS
  <2>4. <<>> \in Seq(Glyph)
    OBVIOUS
  <2> HIDE DEF Turn
  <2> QED
    BY <2>1, <2>2, <2>3, <2>4
<1>11. ASSUME NEW n \in Nat, n \in T PROVE n + 1 \in T
  <2>1. SUFFICES ASSUME p + (n + 1) <= to PROVE f[p + (n + 1)] \in Seq(Glyph)
    BY <1>11
  <2>2. p + (n + 1) \in p..to /\ (p + (n + 1)) - 1 = p + n /\ p + n <= to
    BY <2>1
  <2>3. f[(p + (n + 1)) - 1] \in Seq(Glyph)
    BY <1>11, <2>2
  <2> HIDE DEF Turn
  <2> QED
    BY <1>2, <1>9, <2>2, <2>3
<1>12. to - p \in T
  <2> HIDE DEF T
  <2>1. to - p \in Nat
    OBVIOUS
  <2> QED
    BY <1>10, <1>11, <2>1, NumbersByInduction
<1>13. to - p \in Nat /\ p + (to - p) = to
  OBVIOUS
<1> QED
  BY <1>8, <1>12, <1>13

(****************************************************************************)
(* The tokens of raw strings.                                               *)
(****************************************************************************)
Cut(t) == t.type = "STRING_CONST" /\ TripleQuote(t.start) /\ t.length >= 6
            => t.text = Trimmed(RawContent(t.start + 3, t.start + t.length - 3))

\* Without an error every raw string is cut, also the one in next, which a lone
\* `?` makes a token once more.
CutInv ==
  /\ \E A : lexed \in Seq(A)
  /\ ~hasError => Cut(next) /\ \A i \in 1..Len(lexed) : Cut(lexed[i])

LEMMA CutSame ==
  ASSUME source' = source, NEW t
  PROVE  Cut(t)' <=> Cut(t)
BY DEF Cut, TripleQuote, RawContent, Char

\* Every action but Drain puts next into the history.
LEMMA CutAppended ==
  ASSUME CutInv, source' = source, lexed' = Append(lexed, next'), ~hasError' => ~hasError,
         ~hasError' => Cut(next)'
  PROVE  CutInv'
<1>1. PICK A : lexed \in Seq(A)
  BY DEF CutInv
<1> PICK old : old = lexed
  OBVIOUS
<1> PICK token : token = next'
  OBVIOUS
<1>2. lexed' = Append(old, token) /\ old \in Seq(A)
  BY <1>1
<1>3. lexed' \in Seq(A \cup {token})
  <2>1. old \in Seq(A \cup {token})
    BY <1>2
  <2> QED
    BY <1>2, <2>1
<1>4. ASSUME ~hasError', NEW i \in 1..Len(lexed') PROVE Cut(lexed[i])'
  <2> PICK t : t = lexed'[i]
    OBVIOUS
  <2>1. CASE i \in 1..Len(old)
    <3>1. t = old[i]
      BY <1>2, <2>1
    <3>2. Cut(old[i])
      BY <1>4, <2>1 DEF CutInv
    <3>3. Cut(t)
      BY <3>1, <3>2
    <3>4. Cut(t)'
      BY <3>3, CutSame
    <3> QED
      BY <3>4 DEF Cut
  <2>2. CASE i \notin 1..Len(old)
    <3>1. lexed'[i] = next'
      BY <1>2, <2>2
    <3> QED
      BY <1>4, <3>1 DEF Cut
  <2> QED
    BY <2>1, <2>2
<1> QED
  BY <1>3, <1>4 DEF CutInv

\* A token that is no string is.
LEMMA CutSimple ==
  ASSUME CutInv, NEW piece, NEW twice, Advance(piece, twice), piece.type # "STRING_CONST"
  PROVE  CutInv'
<1>1. next'.type # "STRING_CONST"
  BY DEF Advance, Token
<1> QED
  BY <1>1, CutAppended DEF Advance, Cut

\* A part of a string is no raw string: its token begins at no quote, or at one
\* that is all of it.
LEMMA CutString ==
  ASSUME IInv, CutInv, NEW p \in Nat, NEW open, NEW twice, StringPart(p, open, twice),
         ~TripleQuote(Start.to) \/ p = Start.to
  PROVE  CutInv'
<1> PICK start : start = Start.to
  OBVIOUS
<1> DEFINE room == Len(open) < MAX_INTERPOLATION_NESTING
<1> PICK piece : piece = readString(p, room)
  OBVIOUS
<1>1. room \in BOOLEAN
  OBVIOUS
<1>2. Char(p) = QUOTE => piece.to = p + 1
  <2> HIDE DEF room
  <2>1. PICK f : f = [q \in Nat |-> StringAt(f, q, p, room)] /\ piece = f[p]
    BY <1>1, StringIs DEF IInv
  <2> SUFFICES ASSUME Char(p) = QUOTE PROVE piece.to = p + 1
    OBVIOUS
  <2> PICK x : x = StringAt(f, p, p, room)
    OBVIOUS
  <2>2. p < Len(source) + 1
    BY Characters, Different DEF IInv
  <2>3. /\ Char(p) # "\r" /\ Char(p) # "$" /\ Char(p) # "\\"
        /\ ~(p > Len(source) + 1) /\ p # Len(source) + 1
    BY <2>2, Characters, Different DEF IInv
  <2>4. x = Quoted(p, p + 1)
    BY <2>3 DEF StringAt
  <2>5. piece = x
    BY <2>1
  <2> QED
    BY <2>4, <2>5 DEF Quoted, Piece
<1>3. piece \in Pieces
  <2> HIDE DEF room
  <2> QED
    BY <1>1, StringAdvances DEF IInv, IsPart
<1>4. /\ source' = source /\ lexed' = Append(lexed, next') /\ (~hasError' => ~hasError)
      /\ next'.start = start /\ next'.length = piece.to - start
  <2> PICK x : x = [piece EXCEPT !.start = start]
    OBVIOUS
  <2>1. x.start = start /\ x.to = piece.to
    BY <1>3 DEF Pieces
  <2>2. Advance(x, twice)
    BY DEF StringPart
  <2> QED
    BY <2>1, <2>2 DEF Advance, Token
<1>5. TripleQuote(start)' <=> TripleQuote(start)
  BY <1>4 DEF TripleQuote, Char
<1>6. TripleQuote(start) => p = start /\ piece.to = p + 1
  BY <1>2 DEF TripleQuote
<1>7. Cut(next)'
  <2>1. TripleQuote(start) => next'.length = 1
    BY <1>4, <1>6
  <2> QED
    BY <1>4, <1>5, <2>1 DEF Cut
<1> QED
  BY <1>4, <1>7, CutAppended

LEMMA CutRaw ==
  ASSUME IInv, CutInv, RawString
  PROVE  CutInv'
<1> PICK start : start = Start.to
  OBVIOUS
<1> PICK stop : stop = RawEnd(start + 3)
  OBVIOUS
<1> PICK piece : piece = readRawString(start)
  OBVIOUS
<1>1. start \in Nat /\ TripleQuote(start) /\ IsText
  BY StartFurther DEF RawString, IInv
<1>2. stop \in (start + 3)..(Len(source) + 1) /\ Len(source) \in Nat
  BY <1>1, RawEnds
<1>3. /\ piece.start = start /\ piece.text = rawText(RawContent(start + 3, stop))
      /\ ~piece.error => piece.to = stop + 3
  BY DEF readRawString, Piece
<1>4. /\ source' = source /\ lexed' = Append(lexed, next') /\ (~hasError' => ~hasError /\ ~piece.error)
      /\ next'.start = start /\ next'.length = piece.to - start /\ next'.text = piece.text
  BY <1>3 DEF RawString, Simple, Advance, Token
<1>5. RawContent(start + 3, stop) \in Seq(Glyph)
  <2>1. start + 3 \in Nat /\ stop \in Nat /\ start + 3 <= stop
    BY <1>1, <1>2
  <2> QED
    BY <2>1, ContentType
<1>6. piece.text = Trimmed(RawContent(start + 3, stop))
  BY <1>3, <1>5, RawIsTrimmed
<1>7. RawContent(start + 3, stop)' = RawContent(start + 3, stop)
  BY <1>4 DEF RawContent, Char
<1>8. ASSUME ~hasError' PROVE Cut(next)'
  <2>1. next'.start + next'.length - 3 = stop /\ next'.start + 3 = start + 3
    BY <1>1, <1>2, <1>3, <1>4, <1>8
  <2>2. Trimmed(RawContent(start + 3, stop))' = Trimmed(RawContent(start + 3, stop))
    BY <1>7
  <2> QED
    BY <1>4, <1>6, <2>1, <2>2 DEF Cut
<1> QED
  BY <1>4, <1>8, CutAppended

LEMMA InitCut == ASSUME Init PROVE CutInv
<1>1. next.type = "ERROR" /\ lexed = <<>>
  BY DEF Init, Token
<1>2. lexed \in Seq(Nat) /\ 1..Len(lexed) = {}
  BY <1>1
<1> QED
  BY <1>1, <1>2 DEF CutInv, Cut

LEMMA NextCut == ASSUME IInv, CutInv, [Next]_vars PROVE CutInv'
<1>1. Start.to \in Nat /\ Start.to >= currentChar /\ currentChar \in Nat /\ IsText
  BY StartFurther DEF IInv
<1>2. CASE EndOfSource
  <2> PICK piece : piece = Piece("EOF", Start.to, Start.to, FALSE, 0, <<>>)
    OBVIOUS
  <2>1. piece.type = "EOF" /\ Advance(piece, 0)
    BY <1>2 DEF Piece, EndOfSource, Simple
  <2> QED
    BY <2>1, CutSimple
<1>3. CASE ResumeAfterName
  <2>1. Start.to = currentChar /\ StringPart(currentChar, parens, Again(currentChar))
    BY <1>3 DEF ResumeAfterName, Start
  <2> QED
    BY <1>1, <2>1, CutString
<1>4. CASE OpenBrace
  <2>1. Fits(Start.to) # {}
    BY <1>1, <1>4, BracesFit DEF OpenBrace
  <2> QED
    BY <1>1, <1>4, <2>1, SymbolAdvances, CutSimple DEF OpenBrace
<1>5. CASE CloseBrace
  <2>1. Fits(Start.to) # {}
    BY <1>1, <1>5, BracesFit DEF CloseBrace
  <2>2. ~TripleQuote(Start.to)
    BY <1>5, Zenon DEF CloseBrace, TripleQuote, CLOSING, QUOTE
  <2>3. (\E open : StringPart(Start.to + 1, open, 0)) \/ Advance(Symbol(Start.to), 0)
    BY <1>5, Zenon DEF CloseBrace
  <2>4. CASE \E open : StringPart(Start.to + 1, open, 0)
    BY <1>1, <2>2, <2>4, CutString
  <2>5. CASE Advance(Symbol(Start.to), 0)
    BY <1>1, <2>1, <2>5, SymbolAdvances, CutSimple
  <2> QED
    BY <2>3, <2>4, <2>5
<1>6. CASE OpenString
  BY <1>1, <1>6, CutString DEF OpenString
<1>7. CASE RawString
  BY <1>7, CutRaw
<1>8. CASE Word
  <2>1. readName(Start.to).type # "STRING_CONST" /\ Number(Start.to).type # "STRING_CONST"
    BY DEF readName, Number, Based, readNumber, Piece
  <2> QED
    BY <1>8, <2>1, CutSimple DEF Word, Simple
<1>9. CASE Punctuation
  BY <1>1, <1>9, SymbolAdvances, CutSimple DEF Punctuation, Simple
<1>10. CASE LoneQuestion
  <2>1. /\ source' = source /\ lexed' = Append(lexed, next') /\ (~hasError' => ~hasError)
        /\ next' = next
    BY <1>10 DEF LoneQuestion
  <2>2. ~hasError' => Cut(next)'
    <3> SUFFICES ASSUME ~hasError' PROVE Cut(next)'
      OBVIOUS
    <3> PICK t : t = next
      OBVIOUS
    <3>1. Cut(t)
      BY <2>1 DEF CutInv
    <3>2. Cut(t)'
      BY <2>1, <3>1, CutSame
    <3> QED
      BY <2>1, <3>2 DEF Cut
  <2> QED
    BY <2>1, <2>2, CutAppended
<1>11. CASE InvalidCharacter
  <2>1. source' = source /\ lexed' = Append(lexed, next') /\ hasError' = TRUE
    BY <1>11 DEF InvalidCharacter
  <2>2. (~hasError' => ~hasError) /\ (~hasError' => Cut(next)')
    BY <2>1
  <2>3. source' = source /\ lexed' = Append(lexed, next')
    BY <2>1
  <2> QED
    BY <2>2, <2>3, CutAppended
<1>12. CASE Drain \/ UNCHANGED vars
  <2>1. source' = source /\ lexed' = lexed /\ next' = next /\ hasError' = hasError
    BY <1>12 DEF Drain, vars
  <2>2. ASSUME NEW t, Cut(t) PROVE Cut(t)'
    BY <2>1, <2>2, CutSame
  <2>3. ASSUME ~hasError' PROVE Cut(next)'
    <3> PICK t : t = next
      OBVIOUS
    <3>1. Cut(t)'
      BY <2>1, <2>2, <2>3 DEF CutInv
    <3> QED
      BY <2>1, <3>1 DEF Cut
  <2>4. ASSUME ~hasError', NEW i \in 1..Len(lexed') PROVE Cut(lexed[i])'
    <3> PICK t : t = lexed[i]
      OBVIOUS
    <3>1. Cut(t)'
      BY <2>1, <2>2, <2>4 DEF CutInv
    <3> QED
      BY <2>1, <3>1 DEF Cut
  <2>5. \E A : lexed' \in Seq(A)
    BY <2>1 DEF CutInv
  <2> QED
    BY <2>3, <2>4, <2>5 DEF CutInv
<1> QED
  BY <1>2, <1>3, <1>4, <1>5, <1>6, <1>7, <1>8, <1>9, <1>10, <1>11, <1>12 DEF Next, NextToken

\* In every source lexed without an error, no raw string loses text, but for
\* the blank lines of its quotes: what readRawString remembers in one scan is
\* enough to cut it right. What is proved is that those lines are cut (CutInv).
THEOREM RawTextSurvivesScan == Spec => []RawTextSurvives
<1>1. CutInv => RawTextSurvives
  BY DEF CutInv, Cut, RawTextSurvives
<1> QED
  BY <1>1, InitIInv, NextIInv, InitCut, NextCut, PTL DEF Spec

(****************************************************************************)
(* The lexer, a machine with a stack of counts, makes the tokens that       *)
(* StringNesting defines. Tokens and their characters come first.           *)
(****************************************************************************)
Types   == {s[2] : s \in Symbols} \cup {"LBRACE", "RBRACE", "ID", "KEYWORD", "NUMBER_CONST", "STRING_CONST",
                                      "DOLLAR_INTERPOL", "EOF", "ERROR"}
KindSet == [type : Types, text : Seq(Glyph)]
Founds  == [to : Nat, tokens : Seq(KindSet)]
One(type, text) == <<Kind(type, text)>>

LEMMA KindType ==
  ASSUME NEW type \in Types, NEW text \in Seq(Glyph)
  PROVE  /\ Kind(type, text) \in KindSet /\ Kind(type, text).type = type /\ Kind(type, text).text = text
         /\ One(type, text) \in Seq(KindSet)
<1>1. Kind(type, text) \in KindSet
  BY DEF Kind, KindSet
<1>2. Kind(type, text).type = type /\ Kind(type, text).text = text
  BY DEF Kind
<1> QED
  BY <1>1, <1>2 DEF One

LEMMA FoundType ==
  ASSUME NEW to \in Nat, NEW tokens \in Seq(KindSet)
  PROVE  Found(to, tokens) \in Founds /\ Found(to, tokens).to = to /\ Found(to, tokens).tokens = tokens
BY DEF Found, Founds

LEMMA BeforeType ==
  ASSUME NEW tokens \in Seq(KindSet), NEW rest \in Founds
  PROVE  /\ Before(tokens, rest) \in Founds /\ Before(tokens, rest).to = rest.to
         /\ Before(tokens, rest).tokens = tokens \o rest.tokens
<1>1. rest.to \in Nat /\ rest.tokens \in Seq(KindSet)
  BY DEF Founds
<1>2. tokens \o rest.tokens \in Seq(KindSet)
  BY <1>1, ConcatProperties
<1> QED
  BY <1>1, <1>2, FoundType DEF Before

LEMMA PrefixedType ==
  ASSUME NEW char \in Glyph, NEW rest \in Founds
  PROVE  Prefixed(char, rest) \in Founds /\ Prefixed(char, rest).to = rest.to
<1>1. rest.to \in Nat /\ rest.tokens \in Seq(KindSet)
  BY DEF Founds
<1>2. CASE rest.tokens = <<>>
  BY <1>2 DEF Prefixed
<1>3. CASE rest.tokens # <<>>
  <2> PICK first : first = rest.tokens[1]
    OBVIOUS
  <2>1. first \in KindSet /\ Tail(rest.tokens) \in Seq(KindSet)
    BY <1>1, <1>3
  <2>2. first.type \in Types /\ <<char>> \o first.text \in Seq(Glyph)
    <3>1. first.type \in Types /\ first.text \in Seq(Glyph) /\ <<char>> \in Seq(Glyph)
      BY <2>1 DEF KindSet
    <3> QED
      BY <3>1, ConcatProperties
  <2>3. One(first.type, <<char>> \o first.text) \in Seq(KindSet) /\ Found(rest.to, Tail(rest.tokens)) \in Founds
    BY <1>1, <2>1, <2>2, KindType, FoundType
  <2>4. Prefixed(char, rest) = Before(One(first.type, <<char>> \o first.text), Found(rest.to, Tail(rest.tokens)))
    BY <1>3 DEF Prefixed, One
  <2>5. Found(rest.to, Tail(rest.tokens)).to = rest.to
    BY <1>1, <2>1, FoundType
  <2> QED
    BY <2>3, <2>4, <2>5, BeforeType
<1> QED
  BY <1>2, <1>3

\* A character before a string whose first token is known.
LEMMA PrefixedFirst ==
  ASSUME NEW char \in Glyph, NEW type \in Types, NEW text \in Seq(Glyph), NEW x \in Founds
  PROVE  Prefixed(char, Before(One(type, text), x)) = Before(One(type, <<char>> \o text), x)
<1> PICK rest : rest = Before(One(type, text), x)
  OBVIOUS
<1> PICK k : k = Kind(type, text)
  OBVIOUS
<1>1. /\ rest \in Founds /\ rest.to = x.to /\ rest.tokens = <<k>> \o x.tokens
      /\ k \in KindSet /\ k.type = type /\ k.text = text /\ x.to \in Nat /\ x.tokens \in Seq(KindSet)
  BY KindType, BeforeType DEF One, Founds
<1>2. rest.tokens # <<>> /\ rest.tokens[1] = k /\ Tail(rest.tokens) = x.tokens
  BY <1>1
<1>3. Found(rest.to, Tail(rest.tokens)).to = x.to /\ Found(rest.to, Tail(rest.tokens)).tokens = x.tokens
  BY <1>1, <1>2, FoundType
<1>4. Prefixed(char, rest) = Before(One(type, <<char>> \o text), Found(rest.to, Tail(rest.tokens)))
  BY <1>1, <1>2 DEF Prefixed, One
<1> QED
  BY <1>3, <1>4 DEF Before

\* The braces are symbols of their own, and no symbol begins like a word,
\* a string or the end.
LEMMA Apart ==
  /\ BRACE \notin {CLOSING, NUL, QUOTE} /\ CLOSING \notin {NUL, QUOTE} /\ QUOTE # NUL
  /\ NUL \notin Names \cup Digits /\ QUOTE \notin Names \cup Digits
  /\ BRACE \notin Names \cup Digits /\ CLOSING \notin Names \cup Digits
  /\ Names \cap Digits = {}
BY Zenon DEF BRACE, CLOSING, NUL, QUOTE, Names, Digits

LEMMA FirstCharacters ==
  \A s \in Symbols :
    /\ 1 \in DOMAIN s[1]
    /\ s[1][1] \notin Names \cup Digits \cup {QUOTE, NUL}
    /\ s[1][1] = BRACE => s[2] = "LBRACE"
    /\ s[1][1] = CLOSING => s[2] = "RBRACE"
<1> DEFINE Firsts == {"(", ")", ":", "*", "/", "\n", "+", "-", "&", "=", "!", "?", ".", "<", ">", COMMA}
<1>0. ASSUME NEW s \in Symbols PROVE 1 \in DOMAIN s[1]
  <2>1. \E a, b, c : s[1] = <<a>> \/ s[1] = <<a, b>> \/ s[1] = <<a, b, c>>
    BY DEF Symbols
  <2>2. ASSUME NEW a, NEW b, NEW c
        PROVE  1 \in DOMAIN <<a>> /\ 1 \in DOMAIN <<a, b>> /\ 1 \in DOMAIN <<a, b, c>>
    OBVIOUS
  <2> QED
    BY <2>1, <2>2
<1>1. \A s \in Symbols :
           \/ s[1][1] \in Firsts
           \/ s[1][1] = BRACE /\ s[2] = "LBRACE"
           \/ s[1][1] = CLOSING /\ s[2] = "RBRACE"
  BY SMTT(60) DEF Symbols
<1>2. BRACE \notin Firsts /\ CLOSING \notin Firsts /\ QUOTE \notin Firsts /\ NUL \notin Firsts
  BY Zenon DEF BRACE, CLOSING, QUOTE, NUL, COMMA
<1>3. Firsts \cap (Names \cup Digits) = {}
  BY Zenon DEF COMMA, Names, Digits
<1>4. BRACE # CLOSING /\ BRACE \notin {QUOTE, NUL} /\ CLOSING \notin {QUOTE, NUL}
      /\ BRACE \notin Names \cup Digits /\ CLOSING \notin Names \cup Digits
  BY Apart
<1> HIDE DEF Firsts
<1> QED
  BY <1>0, <1>1, <1>2, <1>3, <1>4

(****************************************************************************)
(* The tokens of a piece of code that is no string and no brace.            *)
(****************************************************************************)
LEMMA SymbolIs ==
  ASSUME NEW p \in Nat, Fits(p) # {}
  PROVE  /\ Char(p) \notin Names \cup Digits \cup {QUOTE, NUL}
         /\ Symbol(p).to \in Nat /\ Symbol(p).to > p
         /\ Symbol(p).type \in Types /\ Symbol(p).text = <<>>
         /\ Char(p) = BRACE => Symbol(p).type = "LBRACE"
         /\ Char(p) = CLOSING => Symbol(p).type = "RBRACE"
<1>1. ASSUME NEW s \in Fits(p) PROVE s \in Symbols /\ Char(p) = s[1][1]
  <2>1. s \in Symbols /\ 1 \in DOMAIN s[1] /\ p + 1 - 1 = p
    BY FirstCharacters DEF Fits
  <2> QED
    BY <2>1 DEF Fits
<1>2. PICK s \in Fits(p) : Symbol(p).type = s[2] /\ Symbol(p).text = <<>>
  BY SymbolFits
<1>3. s \in Symbols /\ Char(p) = s[1][1]
  BY <1>1
<1>4. Symbol(p).to \in Nat /\ Symbol(p).to > p
  BY SymbolAdvances
<1>5. s[2] \in Types
  BY <1>3 DEF Types
<1>6. s[1][1] \notin Names \cup Digits \cup {QUOTE, NUL}
  BY <1>3, FirstCharacters
<1>7. (s[1][1] = BRACE => s[2] = "LBRACE") /\ (s[1][1] = CLOSING => s[2] = "RBRACE")
  BY <1>3, FirstCharacters
<1> QED
  BY Zenon, <1>2, <1>3, <1>4, <1>5, <1>6, <1>7

LEMMA RawTextType ==
  ASSUME NEW content \in Seq(Glyph)
  PROVE  rawText(content) \in Seq(Glyph)
<1>1. Len(content) \in Nat /\ content \in [1..Len(content) -> Glyph]
  OBVIOUS
<1> PICK s : s = Scanned(content)[Len(content)]
  OBVIOUS
<1>2. ASSUME NEW a \in Int, NEW b \in Int, a >= 1, b <= Len(content) PROVE SubSeq(content, a, b) \in Seq(Glyph)
  <2>1. \A i \in a..b : content[i] \in Glyph
    BY <1>1, <1>2
  <2> QED
    BY <2>1, SubSeqProperties
<1>3. /\ s \in ScanState
      /\ s.firstNewline # -1 => s.firstNewline + 1 \in 1..Len(content)
      /\ s.lastNewline # -1 => s.lastNewline + 1 \in 1..Len(content)
  BY <1>1, ScanEnds DEF ScanInv
<1> DEFINE offset == IF s.firstNewline # -1 /\ s.skipStart = s.firstNewline THEN s.firstNewline + 1 ELSE 0
           count  == IF s.lastNewline # -1 /\ s.skipEnd = s.lastNewline THEN s.lastNewline ELSE Len(content)
<1>4. offset \in 0..Len(content) /\ count \in 0..Len(content)
  <2>1. s.firstNewline \in Int /\ s.lastNewline \in Int
    BY <1>3 DEF ScanState
  <2> QED
    BY <1>1, <1>3, <2>1
<1>5. rawText(content) = SubSeq(content, offset + 1, IF offset > count THEN offset ELSE count)
  BY DEF rawText
<1> HIDE DEF offset, count
<1> QED
  BY <1>1, <1>2, <1>4, <1>5

LEMMA LeafIs ==
  ASSUME IsText, NEW p \in Nat, Char(p) = QUOTE => TripleQuote(p), Char(p) # NUL
  PROVE  /\ TripleQuote(p) => Leaf(p) = readRawString(p)
         /\ isName(Char(p)) => Leaf(p) = readName(p)
         /\ isDigit(Char(p)) => Leaf(p) = Number(p)
         /\ Fits(p) # {} => Leaf(p) = Symbol(p)
         /\ Leaf(p).to \in Nat /\ Leaf(p).to > p /\ Leaf(p).type \in Types /\ Leaf(p).text \in Seq(Glyph)
<1>1. TripleQuote(p) => Char(p) = QUOTE
  BY DEF TripleQuote
<1>2. Fits(p) # {} => Char(p) \notin Names \cup Digits \cup {QUOTE, NUL}
  BY SymbolIs
<1>3. QUOTE \notin Names \cup Digits /\ Names \cap Digits = {}
  BY Apart
<1>4. /\ TripleQuote(p) => Leaf(p) = readRawString(p)
      /\ isName(Char(p)) => Leaf(p) = readName(p)
      /\ isDigit(Char(p)) => Leaf(p) = Number(p)
      /\ Fits(p) # {} => Leaf(p) = Symbol(p)
      /\ \/ TripleQuote(p) \/ isName(Char(p)) \/ isDigit(Char(p)) \/ Fits(p) # {}
         \/ Leaf(p) = Piece("ERROR", p, p + 1, TRUE, 0, <<>>)
  BY <1>1, <1>2, <1>3 DEF Leaf, isName, isDigit
<1>5. <<>> \in Seq(Glyph) /\ {"ID", "KEYWORD", "NUMBER_CONST", "STRING_CONST", "ERROR"} \subseteq Types
  BY DEF Types
<1> DEFINE Fine(x) == x.to \in Nat /\ x.to > p /\ x.type \in Types /\ x.text \in Seq(Glyph)
<1>6. ASSUME TripleQuote(p) PROVE Fine(Leaf(p))
  <2> PICK stop : stop = RawEnd(p + 3)
    OBVIOUS
  <2>1. RawContent(p + 3, stop) \in Seq(Glyph)
    <3>1. stop \in (p + 3)..(Len(source) + 1) /\ Len(source) \in Nat
      BY <1>6, RawEnds
    <3>2. p + 3 \in Nat /\ stop \in Nat /\ p + 3 <= stop
      BY <3>1
    <3> QED
      BY <3>2, ContentType
  <2>2. readRawString(p).type = "STRING_CONST" /\ readRawString(p).text = rawText(RawContent(p + 3, stop))
    BY DEF readRawString, Piece
  <2>3. Fine(readRawString(p))
    BY <1>5, <1>6, <2>1, <2>2, RawAdvances, RawTextType
  <2> QED
    BY Zenon, <1>4, <1>6, <2>3
<1>7. ASSUME isName(Char(p)) PROVE Fine(Leaf(p))
  <2>1. readName(p).type \in {"ID", "KEYWORD"} /\ readName(p).text = <<>>
    BY DEF readName, Piece
  <2>2. Fine(readName(p))
    BY <1>5, <1>7, <2>1, NameAdvances
  <2> QED
    BY Zenon, <1>4, <1>7, <2>2
<1>8. ASSUME isDigit(Char(p)) PROVE Fine(Leaf(p))
  <2>1. Number(p).type = "NUMBER_CONST" /\ Number(p).text = <<>>
    BY DEF Number, Based, readNumber, Piece
  <2>2. Fine(Number(p))
    BY <1>5, <1>8, <2>1, NumberAdvances
  <2> QED
    BY Zenon, <1>4, <1>8, <2>2
<1>9. ASSUME Fits(p) # {} PROVE Fine(Leaf(p))
  BY <1>4, <1>5, <1>9, SymbolIs
<1>10. ASSUME Leaf(p) = Piece("ERROR", p, p + 1, TRUE, 0, <<>>) PROVE Fine(Leaf(p))
  BY <1>5, <1>10 DEF Piece
<1>11. Fine(Leaf(p))
  BY Zenon, <1>4, <1>6, <1>7, <1>8, <1>9, <1>10
<1> QED
  BY <1>4, <1>11

\* A name stops where no letter or digit follows.
LEMMA NameStops ==
  ASSUME IsText, NEW p \in Nat, isName(Char(p))
  PROVE  /\ readName(p).to \in Nat /\ readName(p).to > p /\ readName(p).text = <<>>
         /\ readName(p).type \in Types
         /\ ~isName(Char(readName(p).to)) /\ ~isDigit(Char(readName(p).to))
<1>1. NUL \notin Names \cup Digits
  BY Apart
<1>2. p + 1 <= Len(source) + 1 /\ p + 1 \in Nat
  BY <1>1, Characters DEF isName
<1>3. Char(Past(p + 1, Names \cup Digits)) \notin Names \cup Digits
  BY <1>1, <1>2, PastEnds, Zenon
<1>4. readName(p).to = Past(p + 1, Names \cup Digits) /\ readName(p).text = <<>>
      /\ readName(p).type \in {"ID", "KEYWORD"}
  BY DEF readName, Piece
<1>5. {"ID", "KEYWORD"} \subseteq Types
  BY DEF Types
<1> QED
  BY <1>3, <1>4, <1>5, NameAdvances DEF isName, isDigit

(****************************************************************************)
(* What code and strings are.                                               *)
(****************************************************************************)
Hows == {"code", "string"}
FoundFrom(p) == {x \in Founds : x.to >= p}

\* What is read from each position on: of code and of a string.
Reading(read, p) == read[p] \in [Hows -> FoundFrom(p)]

LEMMA ReadingGives ==
  ASSUME NEW read, NEW p \in Nat, Reading(read, p), NEW x, x = read[p]["code"] \/ x = read[p]["string"]
  PROVE  x \in Founds /\ x.to \in Nat /\ x.to >= p /\ x.tokens \in Seq(KindSet)
<1>1. x \in FoundFrom(p)
  BY DEF Reading, Hows
<1> QED
  BY <1>1 DEF FoundFrom, Founds

\* A brace and the code after it, and the code after a string.
Braced(read, q) ==
  LET inner == read[q + 1]["code"]
      open  == One("LBRACE", <<>>) \o inner.tokens
  IN IF Char(inner.to) = CLOSING THEN Before(Append(open, Kind("RBRACE", <<>>)), read[inner.to + 1]["code"])
     ELSE Found(inner.to, open)
Quoting(read, q) ==
  LET string == read[q + 1]["string"] IN Before(string.tokens, read[string.to]["code"])

LEMMA CodeCases ==
  ASSUME NEW read, NEW p, NEW q, q = skipped[p][0].to, NEW x, x = CodeAt(read, p)
  PROVE  /\ Char(q) \in {CLOSING, NUL} => x = Found(q, <<>>)
         /\ Char(q) = BRACE => x = Braced(read, q)
         /\ Char(q) = QUOTE /\ ~TripleQuote(q) => x = Quoting(read, q)
         /\ Char(q) \notin {CLOSING, NUL, BRACE} /\ (Char(q) = QUOTE => TripleQuote(q))
              => x = Before(One(Leaf(q).type, Leaf(q).text), read[Leaf(q).to]["code"])
BY Apart DEF CodeAt, Braced, Quoting, One

\* After `$`, a name; after `${`, code; and another character of a string.
Naming(read, p) ==
  LET leaf == readName(p + 1)
  IN Before(One("DOLLAR_INTERPOL", <<>>), Before(One(leaf.type, <<>>), read[leaf.to]["string"]))
Interpolating(read, p) ==
  LET inner == read[p + 2]["code"]
      part  == One("DOLLAR_INTERPOL", <<>>) \o inner.tokens
  IN IF Char(inner.to) = CLOSING THEN Before(part, read[inner.to + 1]["string"]) ELSE Found(inner.to, part)
After(p) == IF Char(p) = "\\" THEN Escape(p).to ELSE p + 1

LEMMA PartSplits ==
  ASSUME NEW p
  PROVE  \/ Char(p) = NUL \/ Char(p) = QUOTE \/ Char(p) = "\r"
         \/ Char(p) = "$" /\ isName(Char(p + 1))
         \/ Char(p) = "$" /\ Char(p + 1) = BRACE
         \/ Char(p) \notin {NUL, QUOTE, "\r"} /\ (Char(p) = "$" => ~isName(Char(p + 1)) /\ Char(p + 1) # BRACE)
OBVIOUS

LEMMA PartCases ==
  ASSUME NEW read, NEW p, NEW x, x = PartAt(read, p)
  PROVE  /\ Char(p) = NUL => x = Found(p, <<>>)
         /\ Char(p) = QUOTE => x = Found(p + 1, One("STRING_CONST", <<>>))
         /\ Char(p) = "\r" => x = read[p + 1]["string"]
         /\ Char(p) = "$" /\ isName(Char(p + 1)) => x = Naming(read, p)
         /\ Char(p) = "$" /\ Char(p + 1) = BRACE => x = Interpolating(read, p)
         /\ Char(p) \notin {NUL, QUOTE, "\r"} /\ (Char(p) = "$" => ~isName(Char(p + 1)) /\ Char(p + 1) # BRACE)
              => x = Prefixed(Char(p), read[After(p)]["string"])
<1>1. /\ QUOTE # NUL /\ "\r" \notin {NUL, QUOTE} /\ "$" \notin {NUL, QUOTE, "\r"}
      /\ \A c : isName(c) => c # BRACE
  BY Apart, Different DEF isName
<1> QED
  BY <1>1 DEF PartAt, Naming, Interpolating, After, One

LEMMA AfterIs ==
  ASSUME IsText, NEW p \in Nat
  PROVE  After(p) \in Nat /\ After(p) > p
BY EscapeAdvances DEF After

At(read, p) == [how \in Hows |-> IF how = "code" THEN CodeAt(read, p) ELSE PartAt(read, p)]

LEMMA AtIs ==
  ASSUME NEW read, NEW p
  PROVE  /\ At(read, p)["code"] = CodeAt(read, p) /\ At(read, p)["string"] = PartAt(read, p)
         /\ \A S : CodeAt(read, p) \in S /\ PartAt(read, p) \in S => At(read, p) \in [Hows -> S]
<1>1. "code" # "string"
  OBVIOUS
<1> QED
  BY <1>1 DEF At, Hows

\* Where the token after p begins.
LEMMA BeginsAt ==
  ASSUME IsText, NEW p \in Nat
  PROVE  \E q \in Nat : q = skipped[p][0].to /\ q >= p /\ (Char(q) # NUL => p < Len(source) + 1)
<1>1. skipped[p][0].to \in Nat /\ skipped[p][0].to >= p
  BY SkippedAdvances DEF Skips
<1>2. \A q \in Nat : Char(q) # NUL => q < Len(source) + 1
  BY Characters
<1>3. Len(source) \in Nat
  BY Characters
<1> QED
  BY <1>1, <1>2, <1>3

\* Both depend on later positions only.
LEMMA CodeLocal ==
  ASSUME IsText, NEW f, NEW g, NEW p \in Nat,
         p < Len(source) + 1 => \A r \in Nat : p < r => f[r] = g[r] /\ Reading(f, r)
  PROVE  CodeAt(f, p) = CodeAt(g, p)
<1>1. PICK q \in Nat : q = skipped[p][0].to /\ q >= p /\ (Char(q) # NUL => p < Len(source) + 1)
  BY BeginsAt
<1> PICK x : x = CodeAt(f, p)
  OBVIOUS
<1> PICK y : y = CodeAt(g, p)
  OBVIOUS
<1>2. CASE Char(q) \in {CLOSING, NUL}
  BY <1>1, <1>2, CodeCases
<1>3. ASSUME Char(q) # NUL, NEW r \in Nat, q < r
      PROVE  f[r] = g[r] /\ Reading(f, r)
  BY <1>1, <1>3
<1>4. CASE Char(q) = BRACE
  <2> PICK inner : inner = f[q + 1]["code"]
    OBVIOUS
  <2>1. Char(q) # NUL
    BY <1>4, Apart
  <2>2. q + 1 \in Nat /\ q < q + 1
    OBVIOUS
  <2>3. inner = g[q + 1]["code"] /\ Reading(f, q + 1)
    BY <1>3, <2>1, <2>2
  <2>4. inner.to \in Nat /\ inner.to >= q + 1
    BY <2>2, <2>3, ReadingGives
  <2>5. f[inner.to + 1] = g[inner.to + 1]
    BY <1>3, <2>1, <2>4
  <2>6. Braced(f, q) = Braced(g, q)
    BY <2>3, <2>5 DEF Braced
  <2> QED
    BY <1>1, <1>4, <2>6, CodeCases
<1>5. CASE Char(q) = QUOTE /\ ~TripleQuote(q)
  <2> PICK string : string = f[q + 1]["string"]
    OBVIOUS
  <2>1. Char(q) # NUL
    BY <1>5, Apart
  <2>2. q + 1 \in Nat /\ q < q + 1
    OBVIOUS
  <2>3. string = g[q + 1]["string"] /\ Reading(f, q + 1)
    BY <1>3, <2>1, <2>2
  <2>4. string.to \in Nat /\ string.to >= q + 1
    BY <2>2, <2>3, ReadingGives
  <2>5. f[string.to] = g[string.to]
    BY <1>3, <2>1, <2>4
  <2>6. Quoting(f, q) = Quoting(g, q)
    BY <2>3, <2>5 DEF Quoting
  <2> QED
    BY <1>1, <1>5, <2>6, CodeCases
<1>6. CASE Char(q) \notin {CLOSING, NUL, BRACE} /\ (Char(q) = QUOTE => TripleQuote(q))
  <2>1. Leaf(q).to \in Nat /\ Leaf(q).to > q
    BY <1>6, LeafIs
  <2>2. f[Leaf(q).to] = g[Leaf(q).to]
    BY <1>3, <1>6, <2>1
  <2> QED
    BY <1>1, <1>6, <2>2, CodeCases
<1> QED
  BY <1>2, <1>4, <1>5, <1>6

LEMMA PartLocal ==
  ASSUME IsText, NEW f, NEW g, NEW p \in Nat,
         p < Len(source) + 1 => \A r \in Nat : p < r => f[r] = g[r] /\ Reading(f, r)
  PROVE  PartAt(f, p) = PartAt(g, p)
<1> PICK x : x = PartAt(f, p)
  OBVIOUS
<1> PICK y : y = PartAt(g, p)
  OBVIOUS
<1>1. CASE Char(p) \in {NUL, QUOTE}
  BY <1>1, PartCases
<1>2. ASSUME Char(p) # NUL, NEW r \in Nat, p < r
      PROVE  f[r] = g[r] /\ Reading(f, r)
  <2>1. p < Len(source) + 1
    BY <1>2, Characters
  <2> QED
    BY <1>2, <2>1
<1>3. CASE Char(p) = "\r"
  <2>1. Char(p) # NUL
    BY <1>3, Different
  <2>2. f[p + 1] = g[p + 1]
    BY <1>2, <2>1
  <2> QED
    BY <1>3, <2>2, PartCases
<1>4. CASE Char(p) = "$" /\ isName(Char(p + 1))
  <2>1. Char(p) # NUL
    BY <1>4, Different
  <2>2. p + 1 \in Nat
    OBVIOUS
  <2>3. readName(p + 1).to \in Nat /\ readName(p + 1).to > p
    BY <1>4, <2>2, NameAdvances
  <2>4. f[readName(p + 1).to] = g[readName(p + 1).to]
    BY <1>2, <2>1, <2>3
  <2>5. Naming(f, p) = Naming(g, p)
    BY <2>4 DEF Naming
  <2> QED
    BY <1>4, <2>5, PartCases
<1>5. CASE Char(p) = "$" /\ Char(p + 1) = BRACE
  <2> PICK inner : inner = f[p + 2]["code"]
    OBVIOUS
  <2>1. Char(p) # NUL
    BY <1>5, Different
  <2>2. p + 2 \in Nat /\ p < p + 2
    OBVIOUS
  <2>3. inner = g[p + 2]["code"] /\ Reading(f, p + 2)
    BY <1>2, <2>1, <2>2
  <2>4. inner.to \in Nat /\ inner.to >= p + 2
    BY <2>2, <2>3, ReadingGives
  <2>5. f[inner.to + 1] = g[inner.to + 1]
    BY <1>2, <2>1, <2>4
  <2>6. Interpolating(f, p) = Interpolating(g, p)
    BY <2>3, <2>5 DEF Interpolating
  <2> QED
    BY <1>5, <2>6, PartCases
<1>6. CASE Char(p) \notin {NUL, QUOTE, "\r"} /\ (Char(p) = "$" => ~isName(Char(p + 1)) /\ Char(p + 1) # BRACE)
  <2>1. f[After(p)] = g[After(p)]
    BY <1>2, <1>6, AfterIs
  <2> QED
    BY <1>6, <2>1, PartCases
<1> QED
  BY <1>1, <1>3, <1>4, <1>5, <1>6, PartSplits

LEMMA NoText == <<>> \in Seq(Glyph) /\ <<>> \in Seq(KindSet)
OBVIOUS

LEMMA FromFound ==
  ASSUME NEW p \in Nat, NEW to \in Nat, to >= p, NEW tokens \in Seq(KindSet)
  PROVE  Found(to, tokens) \in FoundFrom(p)
BY FoundType DEF FoundFrom

LEMMA FromBefore ==
  ASSUME NEW p \in Nat, NEW tokens \in Seq(KindSet), NEW rest \in Founds, rest.to >= p
  PROVE  Before(tokens, rest) \in FoundFrom(p)
BY BeforeType DEF FoundFrom

LEMMA TypeNames ==
  {"LBRACE", "RBRACE", "ID", "KEYWORD", "NUMBER_CONST", "STRING_CONST", "DOLLAR_INTERPOL", "EOF", "ERROR"} \subseteq Types
BY DEF Types

\* Both give tokens, and end no further back than they start.
LEMMA CodeKeeps ==
  ASSUME IsText, NEW f, NEW p \in Nat,
         p < Len(source) + 1 => \A r \in Nat : p < r => Reading(f, r)
  PROVE  CodeAt(f, p) \in FoundFrom(p)
<1>1. PICK q \in Nat : q = skipped[p][0].to /\ q >= p /\ (Char(q) # NUL => p < Len(source) + 1)
  BY BeginsAt
<1> PICK x : x = CodeAt(f, p)
  OBVIOUS
<1>2. CASE Char(q) \in {CLOSING, NUL}
  <2>1. x = Found(q, <<>>)
    BY <1>1, <1>2, CodeCases
  <2> QED
    BY <1>1, <2>1, NoText, FromFound
<1>3. ASSUME Char(q) # NUL, NEW r \in Nat, q < r, NEW y, y = f[r]["code"] \/ y = f[r]["string"]
      PROVE  y \in Founds /\ y.to \in Nat /\ y.to >= r /\ y.tokens \in Seq(KindSet)
  <2>1. Reading(f, r)
    BY <1>1, <1>3
  <2> QED
    BY <1>3, <2>1, ReadingGives
<1>4. CASE Char(q) = BRACE
  <2> PICK inner : inner = f[q + 1]["code"]
    OBVIOUS
  <2>1. Char(q) # NUL /\ q + 1 \in Nat /\ q < q + 1
    BY <1>4, Apart
  <2>2. inner.to \in Nat /\ inner.to >= q + 1 /\ inner.tokens \in Seq(KindSet)
    BY <1>3, <2>1
  <2> PICK open : open = One("LBRACE", <<>>) \o inner.tokens
    OBVIOUS
  <2>3. open \in Seq(KindSet) /\ Append(open, Kind("RBRACE", <<>>)) \in Seq(KindSet)
    <3>1. One("LBRACE", <<>>) \in Seq(KindSet) /\ Kind("RBRACE", <<>>) \in KindSet
      BY NoText, TypeNames, KindType
    <3>2. open \in Seq(KindSet)
      BY <2>2, <3>1, ConcatProperties
    <3> QED
      BY <3>1, <3>2, AppendProperties
  <2> PICK rest : rest = f[inner.to + 1]["code"]
    OBVIOUS
  <2>4. rest \in Founds /\ rest.to >= p /\ inner.to >= p
    <3>1. inner.to + 1 \in Nat /\ q < inner.to + 1
      BY <2>2
    <3>2. rest \in Founds /\ rest.to \in Nat /\ rest.to >= inner.to + 1
      BY <1>3, <2>1, <3>1
    <3>3. q >= p
      BY <1>1
    <3> QED
      BY <2>2, <3>2, <3>3
  <2>5. x = IF Char(inner.to) = CLOSING THEN Before(Append(open, Kind("RBRACE", <<>>)), rest)
            ELSE Found(inner.to, open)
    BY <1>1, <1>4, CodeCases DEF Braced
  <2>6. Before(Append(open, Kind("RBRACE", <<>>)), rest) \in FoundFrom(p) /\ Found(inner.to, open) \in FoundFrom(p)
    BY <2>2, <2>3, <2>4, FromBefore, FromFound
  <2> QED
    BY <2>5, <2>6
<1>5. CASE Char(q) = QUOTE /\ ~TripleQuote(q)
  <2> PICK string : string = f[q + 1]["string"]
    OBVIOUS
  <2> PICK rest : rest = f[string.to]["code"]
    OBVIOUS
  <2>1. Char(q) # NUL /\ q + 1 \in Nat /\ q < q + 1
    BY <1>5, Apart
  <2>2. string.to \in Nat /\ string.to >= q + 1 /\ string.tokens \in Seq(KindSet)
    BY <1>3, <2>1
  <2>3. rest \in Founds /\ rest.to \in Nat /\ rest.to >= string.to
    BY <1>3, <2>1, <2>2
  <2>4. rest.to >= p
    <3>1. string.to >= p
      BY <1>1, <2>2
    <3> QED
      BY <2>2, <2>3, <3>1
  <2>5. x = Before(string.tokens, rest)
    BY <1>1, <1>5, CodeCases DEF Quoting
  <2> QED
    BY <2>2, <2>3, <2>4, <2>5, FromBefore
<1>6. CASE Char(q) \notin {CLOSING, NUL, BRACE} /\ (Char(q) = QUOTE => TripleQuote(q))
  <2> PICK leaf : leaf = Leaf(q)
    OBVIOUS
  <2> PICK rest : rest = f[leaf.to]["code"]
    OBVIOUS
  <2>1. leaf.to \in Nat /\ leaf.to > q /\ One(leaf.type, leaf.text) \in Seq(KindSet)
    BY <1>6, LeafIs, KindType
  <2>2. rest \in Founds /\ rest.to \in Nat /\ rest.to >= leaf.to
    BY <1>3, <1>6, <2>1
  <2>3. rest.to >= p
    BY <1>1, <2>1, <2>2
  <2>4. x = Before(One(leaf.type, leaf.text), rest)
    BY <1>1, <1>6, CodeCases
  <2> QED
    BY <2>1, <2>2, <2>3, <2>4, FromBefore
<1> QED
  BY Zenon, <1>2, <1>4, <1>5, <1>6

LEMMA PartKeeps ==
  ASSUME IsText, NEW f, NEW p \in Nat,
         p < Len(source) + 1 => \A r \in Nat : p < r => Reading(f, r)
  PROVE  PartAt(f, p) \in FoundFrom(p)
<1> PICK x : x = PartAt(f, p)
  OBVIOUS
<1>1. CASE Char(p) = NUL
  <2>1. x = Found(p, <<>>)
    BY <1>1, PartCases
  <2>2. p >= p
    OBVIOUS
  <2>3. Found(p, <<>>) \in FoundFrom(p)
    BY <2>2, NoText, FromFound
  <2> QED
    BY <2>1, <2>3
<1>2. CASE Char(p) = QUOTE
  <2>1. x = Found(p + 1, One("STRING_CONST", <<>>))
    BY <1>2, PartCases
  <2>2. One("STRING_CONST", <<>>) \in Seq(KindSet)
    BY NoText, TypeNames, KindType
  <2>3. p + 1 \in Nat /\ p + 1 >= p
    OBVIOUS
  <2> QED
    BY <2>1, <2>2, <2>3, FromFound
<1>3. ASSUME Char(p) # NUL, NEW r \in Nat, p < r, NEW y, y = f[r]["code"] \/ y = f[r]["string"]
      PROVE  y \in Founds /\ y.to \in Nat /\ y.to >= r /\ y.tokens \in Seq(KindSet)
  <2>1. p < Len(source) + 1
    BY <1>3, Characters
  <2>2. Reading(f, r)
    BY <1>3, <2>1
  <2> QED
    BY <1>3, <2>2, ReadingGives
<1>4. CASE Char(p) = "\r"
  <2> PICK rest : rest = f[p + 1]["string"]
    OBVIOUS
  <2>1. Char(p) # NUL /\ p + 1 \in Nat /\ p < p + 1
    BY <1>4, Different
  <2>2. rest \in Founds /\ rest.to \in Nat /\ rest.to >= p + 1
    BY <1>3, <2>1
  <2>3. x = rest
    BY <1>4, PartCases
  <2> QED
    BY <2>2, <2>3 DEF FoundFrom
<1>5. CASE Char(p) = "$" /\ isName(Char(p + 1))
  <2> PICK leaf : leaf = readName(p + 1)
    OBVIOUS
  <2> PICK rest : rest = f[leaf.to]["string"]
    OBVIOUS
  <2>1. Char(p) # NUL /\ p + 1 \in Nat
    BY <1>5, Different
  <2>2. leaf.to \in Nat /\ leaf.to > p + 1 /\ leaf.type \in Types
    BY <1>5, <2>1, NameStops
  <2>3. p < leaf.to
    BY <2>2
  <2>4. rest \in Founds /\ rest.to \in Nat /\ rest.to >= leaf.to
    BY <1>3, <2>1, <2>2, <2>3
  <2>5. rest.to >= p
    BY <2>2, <2>4
  <2> PICK named : named = Before(One(leaf.type, <<>>), rest)
    OBVIOUS
  <2>6. One("DOLLAR_INTERPOL", <<>>) \in Seq(KindSet) /\ One(leaf.type, <<>>) \in Seq(KindSet)
    BY <2>2, NoText, TypeNames, KindType
  <2>7. named \in Founds /\ named.to = rest.to
    BY <2>4, <2>6, BeforeType
  <2>8. x = Before(One("DOLLAR_INTERPOL", <<>>), named)
    BY <1>5, PartCases DEF Naming
  <2> QED
    BY <2>5, <2>6, <2>7, <2>8, FromBefore
<1>6. CASE Char(p) = "$" /\ Char(p + 1) = BRACE
  <2> PICK inner : inner = f[p + 2]["code"]
    OBVIOUS
  <2> PICK part : part = One("DOLLAR_INTERPOL", <<>>) \o inner.tokens
    OBVIOUS
  <2> PICK rest : rest = f[inner.to + 1]["string"]
    OBVIOUS
  <2>1. Char(p) # NUL /\ p + 2 \in Nat /\ p < p + 2
    BY <1>6, Different
  <2>2. inner.to \in Nat /\ inner.to >= p + 2 /\ inner.tokens \in Seq(KindSet)
    BY <1>3, <2>1
  <2>3. part \in Seq(KindSet)
    <3>1. One("DOLLAR_INTERPOL", <<>>) \in Seq(KindSet)
      BY NoText, TypeNames, KindType
    <3> QED
      BY <2>2, <3>1, ConcatProperties
  <2>4. rest \in Founds /\ rest.to >= p /\ inner.to >= p
    <3>1. inner.to + 1 \in Nat /\ p < inner.to + 1
      BY <2>2
    <3>2. rest \in Founds /\ rest.to \in Nat /\ rest.to >= inner.to + 1
      BY <1>3, <2>1, <3>1
    <3> QED
      BY <2>2, <3>2
  <2>5. x = IF Char(inner.to) = CLOSING THEN Before(part, rest) ELSE Found(inner.to, part)
    BY <1>6, PartCases DEF Interpolating
  <2>6. Before(part, rest) \in FoundFrom(p) /\ Found(inner.to, part) \in FoundFrom(p)
    BY <2>2, <2>3, <2>4, FromBefore, FromFound
  <2> QED
    BY <2>5, <2>6
<1>7. CASE Char(p) \notin {NUL, QUOTE, "\r"} /\ (Char(p) = "$" => ~isName(Char(p + 1)) /\ Char(p + 1) # BRACE)
  <2> PICK rest : rest = f[After(p)]["string"]
    OBVIOUS
  <2>1. Char(p) # NUL /\ Char(p) \in Glyph
    BY <1>7 DEF Glyph
  <2>2. After(p) \in Nat /\ p < After(p)
    BY AfterIs
  <2>3. rest \in Founds /\ rest.to \in Nat /\ rest.to >= After(p)
    BY <1>3, <2>1, <2>2
  <2>4. x = Prefixed(Char(p), rest)
    BY <1>7, PartCases
  <2>5. x \in Founds /\ x.to >= p
    BY <2>1, <2>2, <2>3, <2>4, PrefixedType
  <2> QED
    BY <2>5 DEF FoundFrom
<1> QED
  BY <1>1, <1>2, <1>4, <1>5, <1>6, <1>7, PartSplits

LEMMA TokensIs ==
  ASSUME IsText
  PROVE  Tokens = [p \in Nat |-> At(Tokens, p)]
<1> DEFINE S == {f \in [Nat -> [Hows -> Founds]] : \A p \in Nat : Reading(f, p)}
           F == [f \in S |-> [p \in Nat |-> At(f, p)]]
<1>0. \A p : FoundFrom(p) \subseteq Founds
  BY DEF FoundFrom
<1>1. S # {}
  <2> DEFINE f == [p \in Nat |-> [how \in Hows |-> Found(p, <<>>)]]
  <2>1. ASSUME NEW p \in Nat PROVE f[p] \in [Hows -> Founds] /\ Reading(f, p)
    <3>1. p >= p
      OBVIOUS
    <3>2. Found(p, <<>>) \in FoundFrom(p)
      BY <3>1, NoText, FromFound
    <3>3. f[p] = [how \in Hows |-> Found(p, <<>>)]
      OBVIOUS
    <3>4. f[p] \in [Hows -> FoundFrom(p)] /\ f[p] \in [Hows -> Founds]
      BY <1>0, <3>2, <3>3
    <3> HIDE DEF f
    <3> QED
      BY <3>4 DEF Reading
  <2>2. f \in [Nat -> [Hows -> Founds]]
    BY <2>1
  <2> HIDE DEF f
  <2> QED
    BY <2>1, <2>2
<1>2. F \in [S -> S]
  <2>1. ASSUME NEW f \in S PROVE [p \in Nat |-> At(f, p)] \in S
    <3> PICK g : g = [p \in Nat |-> At(f, p)]
      OBVIOUS
    <3>1. ASSUME NEW p \in Nat PROVE g[p] \in [Hows -> FoundFrom(p)]
      <4>1. \A r \in Nat : Reading(f, r)
        OBVIOUS
      <4>2. CodeAt(f, p) \in FoundFrom(p) /\ PartAt(f, p) \in FoundFrom(p)
        BY <4>1, CodeKeeps, PartKeeps
      <4>3. At(f, p) \in [Hows -> FoundFrom(p)]
        BY <4>2, AtIs
      <4> QED
        BY <4>3
    <3>2. \A p \in Nat : g[p] \in [Hows -> Founds]
      BY <1>0, <3>1
    <3>3. g \in [Nat -> [Hows -> Founds]]
      BY <3>2
    <3>4. \A p \in Nat : Reading(g, p)
      BY <3>1 DEF Reading
    <3> QED
      BY <3>3, <3>4
  <2> HIDE DEF S
  <2> QED
    BY <2>1
<1>3. ASSUME NEW f \in S, NEW g \in S, \A q \in Nat : f[q] = g[q] PROVE f = g
  BY <1>3
<1>4. ASSUME NEW f \in S, NEW g \in S, NEW q \in Nat, q < Len(source) + 1 => \A r \in Nat : q < r => f[r] = g[r]
      PROVE  F[f][q] = F[g][q]
  <2>1. \A r \in Nat : Reading(f, r)
    OBVIOUS
  <2>2. CodeAt(f, q) = CodeAt(g, q) /\ PartAt(f, q) = PartAt(g, q)
    BY <1>4, <2>1, CodeLocal, PartLocal
  <2>3. At(f, q) = At(g, q)
    BY <2>2 DEF At
  <2>4. F[f][q] = At(f, q) /\ F[g][q] = At(g, q)
    OBVIOUS
  <2> QED
    BY <2>3, <2>4
<1>5. \E f \in S : F[f] = f
  <2> HIDE DEF S, F
  <2>1. Len(source) + 1 \in Nat
    BY Characters
  <2> QED
    BY <1>1, <1>2, <1>3, <1>4, <2>1, RecursionDown
<1>6. \E f : f = [p \in Nat |-> At(f, p)]
  <2>1. PICK f \in S : F[f] = f
    BY <1>5
  <2>2. f = [p \in Nat |-> At(f, p)]
    BY <2>1
  <2> QED
    BY <2>2
<1>7. Tokens = CHOOSE f : f = [p \in Nat |-> At(f, p)]
  BY DEF Tokens, At, Hows
<1> QED
  BY <1>6, <1>7

LEMMA TokensRead ==
  ASSUME IsText, NEW p \in Nat
  PROVE  Reading(Tokens, p) /\ Tokens[p]["code"] = CodeAt(Tokens, p) /\ Tokens[p]["string"] = PartAt(Tokens, p)
<1> DEFINE T == {q \in Nat : Reading(Tokens, q)}
<1>1. \A q \in Nat : Tokens[q] = At(Tokens, q)
  BY TokensIs
<1>2. ASSUME NEW q \in Nat, q < Len(source) + 1 => \A r \in Nat : q < r => r \in T PROVE q \in T
  <2>1. CodeAt(Tokens, q) \in FoundFrom(q) /\ PartAt(Tokens, q) \in FoundFrom(q)
    BY <1>2, CodeKeeps, PartKeeps
  <2>2. At(Tokens, q) \in [Hows -> FoundFrom(q)]
    BY <2>1, AtIs
  <2> QED
    BY <1>1, <2>2 DEF Reading
<1>3. \A q \in Nat : q \in T
  <2> HIDE DEF T
  <2>1. Len(source) + 1 \in Nat
    BY Characters
  <2> QED
    BY <1>2, <2>1, DownInduction
<1>4. Reading(Tokens, p)
  BY <1>3
<1> QED
  BY <1>1, <1>4, AtIs

\* The code from p on and the string from p on.
Code(p)   == Tokens[p]["code"]
String(p) == Tokens[p]["string"]

LEMMA PiecesAre ==
  ASSUME IsText, NEW p \in Nat
  PROVE  /\ Code(p) \in Founds /\ Code(p).to \in Nat /\ Code(p).to >= p /\ Code(p).tokens \in Seq(KindSet)
         /\ String(p) \in Founds /\ String(p).to \in Nat /\ String(p).to >= p /\ String(p).tokens \in Seq(KindSet)
         /\ Code(p) = CodeAt(Tokens, p) /\ String(p) = PartAt(Tokens, p)
BY TokensRead, ReadingGives DEF Code, String

LEMMA CodeEnds ==
  ASSUME IsText, NEW p \in Nat
  PROVE  Char(Code(p).to) \in {CLOSING, NUL}
<1> DEFINE T == {q \in Nat : Char(Code(q).to) \in {CLOSING, NUL}}
<1>1. ASSUME NEW n \in Nat, n < Len(source) + 1 => \A r \in Nat : n < r => r \in T PROVE n \in T
  <2>1. PICK q \in Nat : q = skipped[n][0].to /\ q >= n /\ (Char(q) # NUL => n < Len(source) + 1)
    BY BeginsAt
  <2> PICK x : x = Code(n)
    OBVIOUS
  <2>2. x = CodeAt(Tokens, n)
    BY PiecesAre
  <2>3. ASSUME Char(q) # NUL, NEW r \in Nat, q < r PROVE Char(Code(r).to) \in {CLOSING, NUL}
    BY <1>1, <2>1, <2>3
  <2>4. CASE Char(q) \in {CLOSING, NUL}
    <3>1. x = Found(q, <<>>)
      BY <2>1, <2>2, <2>4, CodeCases
    <3>2. x.to = q
      BY <3>1 DEF Found
    <3> QED
      BY <2>4, <3>2
  <2>5. CASE Char(q) = BRACE
    <3> PICK inner : inner = Code(q + 1)
      OBVIOUS
    <3>1. Char(q) # NUL /\ q + 1 \in Nat /\ q < q + 1
      BY <2>5, Apart
    <3>2. inner.to \in Nat /\ inner.to >= q + 1 /\ Char(inner.to) \in {CLOSING, NUL}
      BY <2>3, <3>1, PiecesAre
    <3>3. inner.to + 1 \in Nat /\ q < inner.to + 1
      BY <3>2
    <3>4. Char(Code(inner.to + 1).to) \in {CLOSING, NUL}
      BY <2>3, <3>1, <3>3
    <3>5. x = Braced(Tokens, q)
      BY <2>1, <2>2, <2>5, CodeCases
    <3>6. x.to = Code(inner.to + 1).to \/ x.to = inner.to
      <4>1. CASE Char(inner.to) = CLOSING
        <5>1. \E tokens : x = Before(tokens, Code(inner.to + 1))
          BY <3>5, <4>1 DEF Braced, Code
        <5> QED
          BY <5>1 DEF Before, Found
      <4>2. CASE Char(inner.to) # CLOSING
        BY <3>5, <4>2 DEF Braced, Found, Code
      <4> QED
        BY <4>1, <4>2
    <3> QED
      BY <3>2, <3>4, <3>6
  <2>6. CASE Char(q) = QUOTE /\ ~TripleQuote(q)
    <3> PICK string : string = String(q + 1)
      OBVIOUS
    <3>1. Char(q) # NUL /\ q + 1 \in Nat
      BY <2>6, Apart
    <3>2. string.to \in Nat /\ string.to >= q + 1
      BY <3>1, PiecesAre
    <3>3. Char(Code(string.to).to) \in {CLOSING, NUL}
      BY <2>3, <3>1, <3>2
    <3>4. x = Quoting(Tokens, q)
      BY <2>1, <2>2, <2>6, CodeCases
    <3> PICK rest : rest = Code(string.to)
      OBVIOUS
    <3>5. x = Before(string.tokens, rest)
      BY <3>4 DEF Quoting, Code, String
    <3>6. x.to = rest.to
      BY <3>5 DEF Before, Found
    <3> QED
      BY <3>3, <3>6
  <2>7. CASE Char(q) \notin {CLOSING, NUL, BRACE} /\ (Char(q) = QUOTE => TripleQuote(q))
    <3> PICK leaf : leaf = Leaf(q)
      OBVIOUS
    <3>1. leaf.to \in Nat /\ leaf.to > q
      BY <2>7, LeafIs
    <3>2. Char(Code(leaf.to).to) \in {CLOSING, NUL}
      BY <2>3, <2>7, <3>1
    <3>3. x = Before(One(leaf.type, leaf.text), Code(leaf.to))
      BY <2>1, <2>2, <2>7, CodeCases DEF Code
    <3>4. x.to = Code(leaf.to).to
      BY <3>3 DEF Before, Found
    <3> QED
      BY <3>2, <3>4
  <2>8. Char(x.to) \in {CLOSING, NUL}
    BY Zenon, <2>4, <2>5, <2>6, <2>7
  <2> QED
    BY <2>8
<1>2. \A q \in Nat : q \in T
  <2> HIDE DEF T
  <2>1. Len(source) + 1 \in Nat
    BY Characters
  <2> QED
    BY <1>1, <2>1, DownInduction
<1> QED
  BY <1>2

\* What follows code that no brace is open for: at a `}`, that and more code.
OnTop(f, p) ==
  IF Char(Code(p).to) = CLOSING THEN Append(Code(p).tokens, Kind("RBRACE", <<>>)) \o f[Code(p).to + 1]
  ELSE Append(Code(p).tokens, Kind("EOF", <<>>))

LEMMA OnTopType ==
  ASSUME IsText, NEW f, NEW p \in Nat, Char(Code(p).to) = CLOSING => f[Code(p).to + 1] \in Seq(KindSet)
  PROVE  OnTop(f, p) \in Seq(KindSet)
<1>1. Kind("RBRACE", <<>>) \in KindSet /\ Kind("EOF", <<>>) \in KindSet
  BY NoText, TypeNames, KindType
<1>2. Code(p).tokens \in Seq(KindSet)
  BY PiecesAre
<1>3. /\ Append(Code(p).tokens, Kind("RBRACE", <<>>)) \in Seq(KindSet)
      /\ Append(Code(p).tokens, Kind("EOF", <<>>)) \in Seq(KindSet)
  BY <1>1, <1>2, AppendProperties
<1>4. CASE Char(Code(p).to) = CLOSING
  <2>1. Append(Code(p).tokens, Kind("RBRACE", <<>>)) \o f[Code(p).to + 1] \in Seq(KindSet)
    BY <1>3, <1>4, ConcatProperties
  <2> QED
    BY <1>4, <2>1 DEF OnTop
<1>5. CASE Char(Code(p).to) # CLOSING
  BY <1>3, <1>5 DEF OnTop
<1> QED
  BY <1>4, <1>5

LEMMA OnTopLocal ==
  ASSUME IsText, NEW f, NEW g, NEW p \in Nat, p < Len(source) + 1 => \A r \in Nat : p < r => f[r] = g[r]
  PROVE  OnTop(f, p) = OnTop(g, p)
<1>1. Code(p).to \in Nat /\ Code(p).to >= p
  BY PiecesAre
<1>2. CASE Char(Code(p).to) = CLOSING
  <2>1. Char(Code(p).to) # NUL
    BY <1>2, Apart
  <2>2. Code(p).to \in 1..Len(source) /\ Len(source) \in Nat
    BY <1>1, <2>1, Characters
  <2>3. f[Code(p).to + 1] = g[Code(p).to + 1]
    BY <1>1, <2>2
  <2> QED
    BY <2>3 DEF OnTop
<1>3. CASE Char(Code(p).to) # CLOSING
  BY <1>3 DEF OnTop
<1> QED
  BY <1>2, <1>3

LEMMA ProgramIs ==
  ASSUME IsText
  PROVE  Program = [p \in Nat |-> OnTop(Program, p)]
<1> DEFINE S == [Nat -> Seq(KindSet)]
           F == [f \in S |-> [p \in Nat |-> OnTop(f, p)]]
<1>1. S # {}
  <2>1. [p \in Nat |-> <<>>] \in S
    BY NoText
  <2> QED
    BY <2>1
<1>2. F \in [S -> S]
  <2>1. ASSUME NEW f \in S PROVE [p \in Nat |-> OnTop(f, p)] \in S
    <3>1. ASSUME NEW p \in Nat PROVE OnTop(f, p) \in Seq(KindSet)
      <4>1. Code(p).to + 1 \in Nat
        BY PiecesAre
      <4> QED
        BY <4>1, OnTopType
    <3> QED
      BY <3>1
  <2> HIDE DEF S
  <2> QED
    BY <2>1
<1>3. ASSUME NEW f \in S, NEW g \in S, \A q \in Nat : f[q] = g[q] PROVE f = g
  BY <1>3
<1>4. ASSUME NEW f \in S, NEW g \in S, NEW q \in Nat, q < Len(source) + 1 => \A r \in Nat : q < r => f[r] = g[r]
      PROVE  F[f][q] = F[g][q]
  <2>1. OnTop(f, q) = OnTop(g, q)
    BY <1>4, OnTopLocal
  <2> HIDE DEF S
  <2> QED
    BY <2>1
<1>5. \E f \in S : F[f] = f
  <2> HIDE DEF S, F
  <2>1. Len(source) + 1 \in Nat
    BY Characters
  <2> QED
    BY <1>1, <1>2, <1>3, <1>4, <2>1, RecursionDown
<1>6. \E f : f = [p \in Nat |-> OnTop(f, p)]
  <2>1. PICK f \in S : F[f] = f
    BY <1>5
  <2>2. f = [p \in Nat |-> OnTop(f, p)]
    BY <2>1
  <2> QED
    BY <2>2
<1>7. Program = CHOOSE f : f = [p \in Nat |-> OnTop(f, p)]
  BY DEF Program, OnTop, Code
<1> QED
  BY <1>6, <1>7

LEMMA ProgramType ==
  ASSUME IsText, NEW p \in Nat
  PROVE  Program[p] \in Seq(KindSet)
<1> DEFINE T == {q \in Nat : Program[q] \in Seq(KindSet)}
<1>1. ASSUME NEW q \in Nat, q < Len(source) + 1 => \A r \in Nat : q < r => r \in T PROVE q \in T
  <2>1. Code(q).to \in Nat /\ Code(q).to >= q
    BY PiecesAre
  <2>2. ASSUME Char(Code(q).to) = CLOSING PROVE Program[Code(q).to + 1] \in Seq(KindSet)
    <3>1. Char(Code(q).to) # NUL
      BY <2>2, Apart
    <3>2. Code(q).to \in 1..Len(source) /\ Len(source) \in Nat
      BY <2>1, <3>1, Characters
    <3> QED
      BY <1>1, <2>1, <3>2
  <2>3. OnTop(Program, q) \in Seq(KindSet)
    BY <2>2, OnTopType
  <2> QED
    BY <2>3, ProgramIs
<1>2. \A q \in Nat : q \in T
  <2> HIDE DEF T
  <2>1. Len(source) + 1 \in Nat
    BY Characters
  <2> QED
    BY <1>1, <2>1, DownInduction
<1> QED
  BY <1>2

(****************************************************************************)
(* A part of a string that readString reads is the first token of what that *)
(* string is, and the parts after it are what follows.                      *)
(****************************************************************************)
Named(type, to) == type = "DOLLAR_INTERPOL" /\ Char(to - 1) = "$"

\* The rest of a string after one of its parts.
NameRest(to)  == LET leaf == readName(to) IN Before(One(leaf.type, <<>>), String(leaf.to))
InnerRest(to) == LET inner == Code(to) IN IF Char(inner.to) = CLOSING THEN Before(inner.tokens, String(inner.to + 1))
                                          ELSE Found(inner.to, inner.tokens)
Follows(type, to) ==
  CASE type = "STRING_CONST" -> Found(to, <<>>)
    [] Named(type, to) -> NameRest(to)
    [] OTHER -> InnerRest(to)

LEMMA FollowsIs ==
  ASSUME NEW type, NEW to
  PROVE  /\ type = "STRING_CONST" => Follows(type, to) = Found(to, <<>>) /\ ~Named(type, to)
         /\ Named(type, to) => Follows(type, to) = NameRest(to)
         /\ type = "DOLLAR_INTERPOL" /\ ~Named(type, to) => Follows(type, to) = InnerRest(to)
BY DEF Follows, Named

LEMMA NameRestType ==
  ASSUME IsText, NEW to \in Nat, isName(Char(to))
  PROVE  NameRest(to) \in Founds
<1>1. /\ readName(to).to \in Nat /\ readName(to).type \in Types
  BY NameStops
<1>2. String(readName(to).to) \in Founds /\ One(readName(to).type, <<>>) \in Seq(KindSet)
  BY <1>1, NoText, PiecesAre, KindType
<1> QED
  BY <1>2, BeforeType DEF NameRest

LEMMA InnerRestType ==
  ASSUME IsText, NEW to \in Nat
  PROVE  InnerRest(to) \in Founds
<1> PICK inner : inner = Code(to)
  OBVIOUS
<1>1. inner.to \in Nat /\ inner.tokens \in Seq(KindSet) /\ inner.to + 1 \in Nat
  BY PiecesAre
<1>2. String(inner.to + 1) \in Founds
  BY <1>1, PiecesAre
<1>3. Before(inner.tokens, String(inner.to + 1)) \in Founds /\ Found(inner.to, inner.tokens) \in Founds
  BY <1>1, <1>2, BeforeType, FoundType
<1> QED
  BY <1>3 DEF InnerRest

\* One token before more, put before the rest.
LEMMA BeforeBefore ==
  ASSUME NEW a \in Seq(KindSet), NEW b \in Seq(KindSet), NEW rest \in Founds
  PROVE  Before(a, Before(b, rest)) = Before(a \o b, rest)
<1>1. rest.tokens \in Seq(KindSet)
  BY DEF Founds
<1>4. \A c \in Seq(KindSet) : (a \o b) \o c = a \o (b \o c)
  OBVIOUS
<1>2. (a \o b) \o rest.tokens = a \o (b \o rest.tokens)
  BY <1>1, <1>4, Zenon
<1>3. Before(b, rest).to = rest.to /\ Before(b, rest).tokens = b \o rest.tokens
  BY BeforeType
<1> QED
  BY <1>2, <1>3 DEF Before

LEMMA NamingIs ==
  ASSUME NEW p
  PROVE  Naming(Tokens, p) = Before(One("DOLLAR_INTERPOL", <<>>), NameRest(p + 1))
BY DEF Naming, NameRest, String

LEMMA InterpolatingIs ==
  ASSUME IsText, NEW p \in Nat
  PROVE  Interpolating(Tokens, p) = Before(One("DOLLAR_INTERPOL", <<>>), InnerRest(p + 2))
<1> PICK inner : inner = Code(p + 2)
  OBVIOUS
<1> PICK d : d = One("DOLLAR_INTERPOL", <<>>)
  OBVIOUS
<1>1. p + 2 \in Nat /\ inner.to \in Nat /\ inner.tokens \in Seq(KindSet) /\ inner.to + 1 \in Nat
  BY PiecesAre
<1>2. String(inner.to + 1) \in Founds /\ d \in Seq(KindSet)
  BY <1>1, NoText, TypeNames, PiecesAre, KindType
<1>3. CASE Char(inner.to) = CLOSING
  <2>1. Before(d, Before(inner.tokens, String(inner.to + 1))) = Before(d \o inner.tokens, String(inner.to + 1))
    BY <1>1, <1>2, BeforeBefore
  <2>2. InnerRest(p + 2) = Before(inner.tokens, String(inner.to + 1))
    BY <1>3 DEF InnerRest
  <2>3. Interpolating(Tokens, p) = Before(d \o inner.tokens, String(inner.to + 1))
    BY <1>3 DEF Interpolating, Code, String
  <2> QED
    BY <2>1, <2>2, <2>3
<1>4. CASE Char(inner.to) # CLOSING
  <2>1. InnerRest(p + 2) = Found(inner.to, inner.tokens)
    BY <1>4 DEF InnerRest
  <2>2. Interpolating(Tokens, p) = Found(inner.to, d \o inner.tokens)
    BY <1>4 DEF Interpolating, Code
  <2>3. Found(inner.to, inner.tokens).to = inner.to /\ Found(inner.to, inner.tokens).tokens = inner.tokens
    BY DEF Found
  <2> QED
    BY <2>1, <2>2, <2>3 DEF Before
<1> QED
  BY <1>3, <1>4

LEMMA AddingIs ==
  ASSUME NEW x \in Pieces, NEW c, NEW error \in BOOLEAN, NEW reread, NEW y, y = Adding(x, <<c>>, error, reread)
  PROVE  /\ y.type = x.type /\ y.to = x.to /\ y.text = <<c>> \o x.text
         /\ ~y.error => ~x.error /\ ~error
BY DEF Adding, Pieces

\* How readString goes on at a character of the source.
Continued(f, q, p, y) ==
  /\ Char(q) = QUOTE => y = Quoted(p, q + 1)
  /\ Char(q) = "\r" => y = f[q + 1]
  /\ Char(q) = "$" /\ isName(Char(q + 1)) => y = Interpolation(p, q + 1)
  /\ Char(q) = "$" /\ Char(q + 1) = BRACE =>
       y = Interpolation(p, q + 2) \/ \E error \in BOOLEAN : error /\ y = Adding(f[q + 2], <<"$">>, error, 0)
  /\ Char(q) \notin {NUL, QUOTE, "\r"} /\ (Char(q) = "$" => ~isName(Char(q + 1)) /\ Char(q + 1) # BRACE)
       => \E reread : \E error \in BOOLEAN : y = Adding(f[After(q)], <<Char(q)>>, error, reread)

LEMMA StringSplits ==
  ASSUME IsText, NEW f, NEW q \in Nat, NEW p, NEW room, q <= Len(source), NEW y, y = StringAt(f, q, p, room)
  PROVE  Continued(f, q, p, y)
<1>1. /\ Len(source) \in Nat /\ ~(q > Len(source) + 1) /\ q # Len(source) + 1
      /\ "\r" # QUOTE /\ "$" \notin {NUL, QUOTE, "\r"} /\ "\\" \notin {NUL, QUOTE, "\r", "$"}
      /\ \A c : isName(c) => c # BRACE
  BY Characters, Different DEF isName
<1>2. Char(q) = "$" /\ Char(q + 1) = BRACE => y = IF room THEN Interpolation(p, q + 2) ELSE Refused(f, q + 2)
  BY <1>1 DEF StringAt
<1>3. /\ Char(q) = QUOTE => y = Quoted(p, q + 1)
      /\ Char(q) = "\r" => y = f[q + 1]
      /\ Char(q) = "$" /\ isName(Char(q + 1)) => y = Interpolation(p, q + 1)
  BY <1>1 DEF StringAt
<1>4. ASSUME Char(q) \notin {NUL, QUOTE, "\r"}, Char(q) = "$" => ~isName(Char(q + 1)) /\ Char(q + 1) # BRACE
      PROVE  \E reread : \E error \in BOOLEAN : y = Adding(f[After(q)], <<Char(q)>>, error, reread)
  <2>1. CASE Char(q) = "\\"
    <3>1. y = Escaped(f, q)
      BY <1>1, <1>4, <2>1 DEF StringAt
    <3>2. y = Adding(f[After(q)], <<Char(q)>>, Escape(q).error, Escape(q).reread)
      BY <2>1, <3>1 DEF Escaped, After
    <3> QED
      BY <2>1, <3>2, EscapeAdvances
  <2>2. CASE Char(q) # "\\"
    <3>1. y = Further(f, q + 1, Char(q))
      BY <1>1, <1>4, <2>2 DEF StringAt
    <3>2. y = Adding(f[After(q)], <<Char(q)>>, FALSE, 0)
      BY <2>2, <3>1 DEF Further, After
    <3> QED
      BY <3>2
  <2> QED
    BY <2>1, <2>2
<1> QED
  BY <1>2, <1>3, <1>4 DEF Continued, Refused

\* What a part y of the string from q on has to be.
Matches(q, y) ==
  ~y.error /\ y.to <= Len(source) + 1 =>
    /\ y.type \in {"STRING_CONST", "DOLLAR_INTERPOL"}
    /\ Named(y.type, y.to) => isName(Char(y.to))
    /\ Follows(y.type, y.to) \in Founds
    /\ String(q) = Before(One(y.type, y.text), Follows(y.type, y.to))

LEMMA MatchesFurther ==
  ASSUME IsText, NEW q \in Nat, NEW r, NEW c \in Glyph, NEW x \in Pieces, Matches(r, x),
         String(q) = Prefixed(c, String(r)),
         NEW error \in BOOLEAN, NEW reread, NEW y, y = Adding(x, <<c>>, error, reread)
  PROVE  Matches(q, y)
<1> SUFFICES ASSUME ~y.error, y.to <= Len(source) + 1
             PROVE  /\ y.type \in {"STRING_CONST", "DOLLAR_INTERPOL"}
                    /\ Named(y.type, y.to) => isName(Char(y.to))
                    /\ Follows(y.type, y.to) \in Founds
                    /\ String(q) = Before(One(y.type, y.text), Follows(y.type, y.to))
  BY DEF Matches
<1>1. y.type = x.type /\ y.to = x.to /\ y.text = <<c>> \o x.text /\ ~x.error
  BY AddingIs
<1>2. /\ x.type \in {"STRING_CONST", "DOLLAR_INTERPOL"}
      /\ Named(x.type, x.to) => isName(Char(x.to))
      /\ Follows(x.type, x.to) \in Founds
      /\ String(r) = Before(One(x.type, x.text), Follows(x.type, x.to))
  BY <1>1 DEF Matches
<1>3. x.type \in Types /\ x.text \in Seq(Glyph)
  BY <1>2, TypeNames DEF Pieces
<1>4. Prefixed(c, Before(One(x.type, x.text), Follows(x.type, x.to)))
        = Before(One(x.type, <<c>> \o x.text), Follows(x.type, x.to))
  BY <1>2, <1>3, PrefixedFirst
<1> QED
  BY <1>1, <1>2, <1>4

LEMMA MatchesEnd ==
  ASSUME IsText, NEW p, NEW q \in Nat, NEW y
  PROVE  /\ Char(q) = QUOTE /\ y = Quoted(p, q + 1) => Matches(q, y)
         /\ Char(q) = "$" /\ isName(Char(q + 1)) /\ y = Interpolation(p, q + 1) => Matches(q, y)
         /\ Char(q) = "$" /\ Char(q + 1) = BRACE /\ y = Interpolation(p, q + 2) => Matches(q, y)
<1>1. ASSUME Char(q) = QUOTE, y = Quoted(p, q + 1) PROVE Matches(q, y)
  <2>1. y.type = "STRING_CONST" /\ y.to = q + 1 /\ y.text = <<>>
    BY <1>1 DEF Quoted, Piece
  <2> PICK x : x = Found(q + 1, <<>>)
    OBVIOUS
  <2>2. Follows(y.type, y.to) = x /\ ~Named(y.type, y.to)
    BY <2>1, FollowsIs
  <2>8. q + 1 \in Nat
    OBVIOUS
  <2>3. x \in Founds /\ x.to = q + 1 /\ x.tokens = <<>>
    BY <2>8, NoText, FoundType
  <2>4. One("STRING_CONST", <<>>) \in Seq(KindSet)
    BY NoText, TypeNames, KindType
  <2>5. One("STRING_CONST", <<>>) \o x.tokens = One("STRING_CONST", <<>>)
    BY <2>3, <2>4, ConcatEmptySeq
  <2>6. String(q) = Found(q + 1, One("STRING_CONST", <<>>))
    BY <1>1, PiecesAre, PartCases
  <2>7. String(q) = Before(One("STRING_CONST", <<>>), x)
    BY <2>3, <2>5, <2>6 DEF Before
  <2> QED
    BY <2>1, <2>2, <2>3, <2>7 DEF Matches
<1>2. ASSUME Char(q) = "$", isName(Char(q + 1)), y = Interpolation(p, q + 1) PROVE Matches(q, y)
  <2>1. y.type = "DOLLAR_INTERPOL" /\ y.to = q + 1 /\ y.text = <<>> /\ (q + 1) - 1 = q
    BY <1>2 DEF Interpolation, Piece
  <2>2. Named(y.type, y.to)
    BY <1>2, <2>1 DEF Named
  <2>3. Follows(y.type, y.to) = NameRest(q + 1)
    BY <2>1, <2>2, FollowsIs
  <2>4. NameRest(q + 1) \in Founds
    BY <1>2, NameRestType
  <2>5. PartAt(Tokens, q) = Naming(Tokens, q)
    BY <1>2, PartCases
  <2>6. String(q) = Before(One("DOLLAR_INTERPOL", <<>>), NameRest(q + 1))
    BY <2>5, PiecesAre, NamingIs
  <2> QED
    BY <1>2, <2>1, <2>2, <2>3, <2>4, <2>6 DEF Matches
<1>3. ASSUME Char(q) = "$", Char(q + 1) = BRACE, y = Interpolation(p, q + 2) PROVE Matches(q, y)
  <2>1. y.type = "DOLLAR_INTERPOL" /\ y.to = q + 2 /\ y.text = <<>> /\ (q + 2) - 1 = q + 1
    BY <1>3 DEF Interpolation, Piece
  <2>2. ~Named(y.type, y.to)
    BY <1>3, <2>1, Different DEF Named
  <2>3. Follows(y.type, y.to) = InnerRest(q + 2)
    BY <2>1, <2>2, FollowsIs
  <2>4. InnerRest(q + 2) \in Founds
    BY InnerRestType
  <2>5. PartAt(Tokens, q) = Interpolating(Tokens, q)
    BY <1>3, PartCases
  <2>6. String(q) = Before(One("DOLLAR_INTERPOL", <<>>), InnerRest(q + 2))
    BY <2>5, PiecesAre, InterpolatingIs
  <2> QED
    BY <2>1, <2>2, <2>3, <2>4, <2>6 DEF Matches
<1> QED
  BY <1>1, <1>2, <1>3

LEMMA PartMatches ==
  ASSUME IsText, NEW p \in Nat \ {0}, NEW room \in BOOLEAN
  PROVE  Matches(p, readString(p, room)) /\ readString(p, room) \in Pieces
<1>1. PICK f : f = [q \in Nat |-> StringAt(f, q, p, room)] /\ readString(p, room) = f[p]
  BY StringIs
<1> DEFINE T == {q \in Nat : IsPart(f[q], q, room) /\ (q # 0 => Matches(q, f[q]))}
<1>2. \A q \in Nat : f[q] = StringAt(f, q, p, room)
  BY <1>1
<1>3. ASSUME NEW q \in Nat, q < Len(source) + 1 => \A r \in Nat : q < r => r \in T PROVE q \in T
  <2>1. IsPart(StringAt(f, q, p, room), q, room)
    BY <1>3, StringKeeps
  <2> PICK y : y = StringAt(f, q, p, room)
    OBVIOUS
  <2>2. ASSUME q <= Len(source), NEW r \in Nat, q < r
        PROVE  Matches(r, f[r]) /\ f[r] \in Pieces
    <3>1. q < Len(source) + 1 /\ r # 0
      BY <2>2, Characters
    <3> QED
      BY <1>3, <2>2, <3>1 DEF IsPart
  <2>3. ASSUME q # 0, q <= Len(source) PROVE Matches(q, y)
    <3>0. Continued(f, q, p, y)
      BY <2>3, StringSplits
    <3>1. CASE Char(q) = QUOTE
      BY <3>0, <3>1, MatchesEnd DEF Continued
    <3>2. CASE Char(q) = "\r"
      <4>1. y = f[q + 1]
        BY <3>0, <3>2 DEF Continued
      <4>2. String(q) = String(q + 1)
        BY <3>2, PiecesAre, PartCases DEF String
      <4>3. Matches(q + 1, y)
        BY <2>2, <2>3, <4>1
      <4> QED
        BY <4>2, <4>3 DEF Matches
    <3>3. CASE Char(q) = "$" /\ isName(Char(q + 1))
      BY <3>0, <3>3, MatchesEnd DEF Continued
    <3>4. CASE Char(q) = "$" /\ Char(q + 1) = BRACE
      <4>1. CASE y = Interpolation(p, q + 2)
        BY <3>4, <4>1, MatchesEnd
      <4>2. ASSUME NEW error \in BOOLEAN, error, y = Adding(f[q + 2], <<"$">>, error, 0) PROVE Matches(q, y)
        <5>1. f[q + 2] \in Pieces
          BY <2>2, <2>3
        <5> PICK x : x = f[q + 2]
          OBVIOUS
        <5>3. x \in Pieces /\ y = Adding(x, <<"$">>, error, 0)
          BY <4>2, <5>1
        <5>2. ~y.error => ~error
          BY <5>3, AddingIs
        <5> QED
          BY <4>2, <5>2 DEF Matches
      <4> QED
        BY <3>0, <3>4, <4>1, <4>2 DEF Continued
    <3>5. CASE Char(q) \notin {NUL, QUOTE, "\r"} /\ (Char(q) = "$" => ~isName(Char(q + 1)) /\ Char(q + 1) # BRACE)
      <4>0. PICK reread : \E error \in BOOLEAN : y = Adding(f[After(q)], <<Char(q)>>, error, reread)
        BY <3>0, <3>5 DEF Continued
      <4>1. PICK error \in BOOLEAN : y = Adding(f[After(q)], <<Char(q)>>, error, reread)
        BY <4>0
      <4>2. After(q) \in Nat /\ q < After(q)
        BY AfterIs
      <4>3. Matches(After(q), f[After(q)]) /\ f[After(q)] \in Pieces
        BY <2>2, <2>3, <4>2
      <4>4. String(q) = Prefixed(Char(q), String(After(q)))
        BY <3>5, PiecesAre, PartCases DEF String
      <4>5. Char(q) \in Glyph
        BY DEF Glyph
      <4> QED
        BY <4>1, <4>3, <4>4, <4>5, MatchesFurther
    <3>6. Char(q) # NUL
      BY <2>3, Characters
    <3> QED
      BY <3>1, <3>2, <3>3, <3>4, <3>5, <3>6, PartSplits
  <2>4. ASSUME ~(q <= Len(source)) PROVE Matches(q, y)
    <3>1. q = Len(source) + 1 \/ q > Len(source) + 1
      BY <2>4, Characters
    <3>2. Char(q) = NUL
      BY <2>4, Characters
    <3>3. (y = BeyondAt(p, q) /\ q > Len(source) + 1) \/ y = Unterminated(p, q)
      BY <2>4, <3>1, <3>2, Different DEF StringAt
    <3>4. y.error \/ ~(y.to <= Len(source) + 1)
      BY <3>3, Characters DEF BeyondAt, Unterminated, Piece
    <3> QED
      BY <3>4 DEF Matches
  <2>5. q # 0 => Matches(q, y)
    BY <2>3, <2>4
  <2> QED
    BY <1>2, <2>1, <2>5
<1>4. \A q \in Nat : q \in T
  <2> HIDE DEF T
  <2>1. Len(source) + 1 \in Nat
    BY Characters
  <2> QED
    BY <1>3, <2>1, DownInduction
<1> QED
  BY <1>1, <1>4 DEF IsPart

(****************************************************************************)
(* What is left of a source, by the braces and interpolations that are      *)
(* open.                                                                    *)
(****************************************************************************)
LEMMA SamePieces ==
  ASSUME source' = source
  PROVE  Tokens' = Tokens /\ Program' = Program
<1>1. \A p : Char(p)' = Char(p)
  BY DEF Char
<1>2. skipped' = skipped
  BY DEF skipped, Opens, Closes, LineEnd, Past, Char
<1>3. \A p : TripleQuote(p)' <=> TripleQuote(p)
  BY <1>1 DEF TripleQuote
<1>4. \A p : readRawString(p)' = readRawString(p)
  <2>1. \A p : RawEnd(p)' = RawEnd(p)
    BY DEF RawEnd, Char
  <2>2. \A p, to : RawContent(p, to)' = RawContent(p, to)
    BY DEF RawContent, Char
  <2> QED
    BY <1>1, <2>1, <2>2 DEF readRawString, Again
<1>5. \A p : readName(p)' = readName(p)
  BY DEF readName, Past, Char
<1>6. \A p : Number(p)' = Number(p)
  BY DEF Number, Based, readNumber, Past, Again, Char
<1>7. \A p : Symbol(p)' = Symbol(p) /\ Fits(p)' = Fits(p)
  BY DEF Symbol, Fits, Char
<1>8. \A p : Escape(p)' = Escape(p)
  BY DEF Escape, readHexEscape, Again, Char
<1>9. \A p : Leaf(p)' = Leaf(p)
  BY <1>1, <1>3, <1>4, <1>5, <1>6, <1>7 DEF Leaf
<1>10. \A f, p : CodeAt(f, p)' = CodeAt(f, p)
  BY <1>1, <1>2, <1>3, <1>9 DEF CodeAt
<1>11. \A f, p : PartAt(f, p)' = PartAt(f, p)
  BY <1>1, <1>5, <1>8 DEF PartAt
<1>12. Tokens' = Tokens
  BY <1>10, <1>11 DEF Tokens
<1>13. Program' = Program
  BY <1>1, <1>12 DEF Program
<1> QED
  BY <1>12, <1>13

\* What follows where code ends at r: `s` are the interpolations that are open
\* and how many braces are in each, `below` is what is left once the last of
\* the braces is closed.
Closed(s, below, r) ==
  IF Char(r) # CLOSING THEN One("EOF", <<>>)
  ELSE IF s # <<>> /\ s[Len(s)] = 1 THEN String(r + 1).tokens \o below[String(r + 1).to]
  ELSE One("RBRACE", <<>>) \o below[r + 1]
Onward(s, below) == [p \in Nat |-> Code(p).tokens \o Closed(s, below, Code(p).to)]

\* The stack once the last of the open braces is closed.
Less(s) ==
  IF s = <<>> THEN s ELSE IF s[Len(s)] = 1 THEN SubSeq(s, 1, Len(s) - 1) ELSE [s EXCEPT ![Len(s)] = @ - 1]

\* K is what is left, from each position on, when the stack is s: there is a
\* chain of stacks from s, each with a brace less than the one before, to the
\* empty one, with which the program goes on at its top.
Runs == [Nat -> Seq(KindSet)]
Chain(m, st, k) ==
  /\ st[0] = <<>> /\ k[0] = Program
  /\ \A i \in 0..m : k[i] \in Runs
  /\ \A i \in 1..m : st[i] # <<>> /\ st[i - 1] = Less(st[i]) /\ k[i] = Onward(st[i], k[i - 1])
Continues(s, K) == \E m \in Nat : \E st, k : Chain(m, st, k) /\ st[m] = s /\ k[m] = K

LEMMA OneTypes ==
  /\ One("LBRACE", <<>>) \in Seq(KindSet) /\ One("RBRACE", <<>>) \in Seq(KindSet) /\ One("EOF", <<>>) \in Seq(KindSet)
  /\ \A type \in {"ID", "KEYWORD"} : One(type, <<>>) \in Seq(KindSet)
BY NoText, TypeNames, KindType

LEMMA ClosedType ==
  ASSUME IsText, NEW s, NEW below \in Runs, NEW r \in Nat
  PROVE  Closed(s, below, r) \in Seq(KindSet)
<1> PICK string : string = String(r + 1)
  OBVIOUS
<1>1. r + 1 \in Nat /\ string.to \in Nat /\ string.tokens \in Seq(KindSet)
  BY PiecesAre
<1>2. below[string.to] \in Seq(KindSet) /\ below[r + 1] \in Seq(KindSet)
  BY <1>1 DEF Runs
<1>3. string.tokens \o below[string.to] \in Seq(KindSet) /\ One("RBRACE", <<>>) \o below[r + 1] \in Seq(KindSet)
  BY <1>1, <1>2, OneTypes, ConcatProperties
<1> QED
  BY <1>3, OneTypes DEF Closed

LEMMA OnwardType ==
  ASSUME IsText, NEW s, NEW below \in Runs
  PROVE  Onward(s, below) \in Runs
<1>1. ASSUME NEW p \in Nat PROVE Code(p).tokens \o Closed(s, below, Code(p).to) \in Seq(KindSet)
  <2>1. Code(p).to \in Nat /\ Code(p).tokens \in Seq(KindSet)
    BY PiecesAre
  <2>2. Closed(s, below, Code(p).to) \in Seq(KindSet)
    BY <2>1, ClosedType
  <2> QED
    BY <2>1, <2>2, ConcatProperties
<1> QED
  BY <1>1 DEF Onward, Runs

\* Joining sequences of tokens.
LEMMA Joining ==
  /\ \A a, b, c \in Seq(KindSet) : (a \o b) \o c = a \o (b \o c)
  /\ \A a, b \in Seq(KindSet) : a \o b \in Seq(KindSet)
  /\ \A a \in Seq(KindSet) : <<>> \o a = a /\ a \o <<>> = a
  /\ \A a \in Seq(KindSet), k \in KindSet : Append(a, k) = a \o <<k>>
BY ConcatAssociative, ConcatProperties, ConcatEmptySeq, AppendIsConcat

LEMMA JoinedTwice ==
  ASSUME NEW a \in Seq(KindSet), NEW b \in Seq(KindSet), NEW c \in Seq(KindSet)
  PROVE  (a \o b) \o c = a \o (b \o c)
<1>1. \A d \in Seq(KindSet) : (a \o b) \o d = a \o (b \o d)
  BY Joining
<1> QED
  BY <1>1, Zenon

\* At the top the program goes on as with an empty stack.
LEMMA ProgramGoesOn ==
  ASSUME IsText
  PROVE  Program \in Runs /\ Program = Onward(<<>>, Program)
<1>1. Program \in Runs
  BY ProgramIs, ProgramType DEF Runs
<1>2. ASSUME NEW p \in Nat PROVE Program[p] = Code(p).tokens \o Closed(<<>>, Program, Code(p).to)
  <2> PICK code : code = Code(p)
    OBVIOUS
  <2> PICK rbrace : rbrace = Kind("RBRACE", <<>>)
    OBVIOUS
  <2> PICK eof : eof = Kind("EOF", <<>>)
    OBVIOUS
  <2>1. code.to \in Nat /\ code.tokens \in Seq(KindSet) /\ code.to + 1 \in Nat
    BY PiecesAre
  <2>2. rbrace \in KindSet /\ eof \in KindSet
    BY NoText, TypeNames, KindType
  <2>9. <<rbrace>> \in Seq(KindSet)
    BY <2>2
  <2>3. Append(code.tokens, rbrace) = code.tokens \o <<rbrace>> /\ Append(code.tokens, eof) = code.tokens \o <<eof>>
    BY <2>1, <2>2, Joining
  <2>4. PICK rest : rest = Program[code.to + 1] /\ rest \in Seq(KindSet)
    BY <2>1, ProgramType
  <2>10. rest \in Seq(KindSet)
    BY <2>4
  <2>5. (code.tokens \o <<rbrace>>) \o rest = code.tokens \o (<<rbrace>> \o rest)
    BY <2>1, <2>9, <2>10, JoinedTwice, Zenon
  <2>6. Program[p] = OnTop(Program, p)
    BY ProgramIs
  <2>7. CASE Char(code.to) = CLOSING
    <3>1. Program[p] = Append(code.tokens, rbrace) \o Program[code.to + 1]
      BY <2>6, <2>7 DEF OnTop
    <3>2. Closed(<<>>, Program, code.to) = <<rbrace>> \o Program[code.to + 1]
      BY <2>7 DEF Closed, One
    <3> QED
      BY <2>3, <2>4, <2>5, <3>1, <3>2
  <2>8. CASE Char(code.to) # CLOSING
    <3>1. Program[p] = Append(code.tokens, eof)
      BY <2>6, <2>8 DEF OnTop
    <3>2. Closed(<<>>, Program, code.to) = <<eof>>
      BY <2>8 DEF Closed, One
    <3> QED
      BY <2>3, <3>1, <3>2
  <2> QED
    BY <2>7, <2>8
<1>3. Program = [p \in Nat |-> Program[p]]
  BY <1>1 DEF Runs
<1> QED
  BY <1>1, <1>2, <1>3 DEF Onward

LEMMA ContinuesTop ==
  ASSUME IsText
  PROVE  Continues(<<>>, Program)
<1> PICK st : st = [i \in 0..0 |-> <<>>]
  OBVIOUS
<1> PICK k : k = [i \in 0..0 |-> Program]
  OBVIOUS
<1>1. st[0] = <<>> /\ k[0] = Program /\ \A i \in 0..0 : k[i] \in Runs
  BY ProgramGoesOn
<1>2. \A i \in 1..0 : FALSE
  OBVIOUS
<1>3. 0 \in Nat
  OBVIOUS
<1>4. Chain(0, st, k)
  BY <1>1, <1>2 DEF Chain
<1> QED
  BY <1>1, <1>3, <1>4 DEF Continues

LEMMA ContinuesMore ==
  ASSUME IsText, NEW s, s # <<>>, NEW below, Continues(Less(s), below)
  PROVE  Continues(s, Onward(s, below))
<1>chain. PICK m \in Nat : \E st, k : Chain(m, st, k) /\ st[m] = Less(s) /\ k[m] = below
  BY DEF Continues
<1>0. PICK st, k : Chain(m, st, k) /\ st[m] = Less(s) /\ k[m] = below
  BY <1>chain
<1>1. /\ st[0] = <<>> /\ k[0] = Program /\ st[m] = Less(s) /\ k[m] = below
      /\ \A i \in 0..m : k[i] \in Runs
      /\ \A i \in 1..m : st[i] # <<>> /\ st[i - 1] = Less(st[i]) /\ k[i] = Onward(st[i], k[i - 1])
  BY <1>0 DEF Chain
<1> PICK n \in Nat : n = m + 1
  OBVIOUS
<1> PICK K : K = Onward(s, below)
  OBVIOUS
<1> PICK t : t = [i \in 0..n |-> IF i = n THEN s ELSE st[i]]
  OBVIOUS
<1> PICK l : l = [i \in 0..n |-> IF i = n THEN K ELSE k[i]]
  OBVIOUS
<1>2. below \in Runs /\ K \in Runs
  BY <1>1, OnwardType
<1>3. /\ \A i \in 0..m : t[i] = st[i] /\ l[i] = k[i]
      /\ t[n] = s /\ l[n] = K
  OBVIOUS
<1>4. \A i \in 0..n : l[i] \in Runs
  <2>1. \A i \in 0..n : i \in 0..m \/ i = n
    OBVIOUS
  <2> QED
    BY <1>1, <1>2, <1>3, <2>1
<1>5. ASSUME NEW i \in 1..n PROVE t[i] # <<>> /\ t[i - 1] = Less(t[i]) /\ l[i] = Onward(t[i], l[i - 1])
  <2>1. CASE i \in 1..m
    <3>1. i \in 0..m /\ i - 1 \in 0..m
      BY <2>1
    <3> QED
      BY <1>1, <1>3, <2>1, <3>1
  <2>2. CASE i = n
    <3>1. i - 1 = m /\ m \in 0..m
      BY <2>2
    <3> QED
      BY <1>1, <1>3, <2>2, <3>1
  <2>3. i \in 1..m \/ i = n
    OBVIOUS
  <2> QED
    BY <2>1, <2>2, <2>3
<1>6. t[0] = <<>> /\ l[0] = Program
  <2>1. 0 \in 0..m
    OBVIOUS
  <2> QED
    BY <1>1, <1>3, <2>1
<1>7. Continues(s, K)
  <2>1. Chain(n, t, l)
    BY <1>4, <1>5, <1>6 DEF Chain
  <2> QED
    BY <1>3, <2>1 DEF Continues
<1> QED
  BY <1>7

LEMMA ContinuesLess ==
  ASSUME IsText, NEW s, NEW K, Continues(s, K)
  PROVE  /\ K \in Runs /\ \E below \in Runs : K = Onward(s, below) /\ Continues(Less(s), below)
         /\ s = <<>> => K = Program
<1>chain. PICK m \in Nat : \E st, k : Chain(m, st, k) /\ st[m] = s /\ k[m] = K
  BY DEF Continues
<1>0. PICK st, k : Chain(m, st, k) /\ st[m] = s /\ k[m] = K
  BY <1>chain
<1>1. /\ st[0] = <<>> /\ k[0] = Program /\ st[m] = s /\ k[m] = K
      /\ \A i \in 0..m : k[i] \in Runs
      /\ \A i \in 1..m : st[i] # <<>> /\ st[i - 1] = Less(st[i]) /\ k[i] = Onward(st[i], k[i - 1])
  BY <1>0 DEF Chain
<1>2. CASE m = 0
  <2>1. s = <<>> /\ K = Program
    BY <1>1, <1>2
  <2>2. Less(s) = <<>>
    BY <2>1 DEF Less
  <2> QED
    BY <2>1, <2>2, ProgramGoesOn, ContinuesTop
<1>3. CASE m # 0
  <2> PICK n \in Nat : n = m - 1
    BY <1>3
  <2>1. m \in 1..m /\ m \in 0..m /\ n \in 0..m
    BY <1>3
  <2>2. K \in Runs /\ k[n] \in Runs /\ K = Onward(s, k[n]) /\ st[n] = Less(s) /\ s # <<>>
    BY <1>1, <2>1
  <2>3. (\A i \in 0..n : i \in 0..m) /\ \A i \in 1..n : i \in 1..m
    OBVIOUS
  <2>4. Chain(n, st, k)
    BY <1>1, <2>3 DEF Chain
  <2>5. Continues(Less(s), k[n])
    BY <2>2, <2>4 DEF Continues
  <2> QED
    BY <2>2, <2>5
<1> QED
  BY <1>2, <1>3

(****************************************************************************)
(* What is left before a token, and after it.                               *)
(****************************************************************************)
LEMMA StopsAtEnd ==
  ASSUME IsText, NEW p \in Nat, Char(p) = NUL
  PROVE  skipped[p][0].to = p
<1>1. Char(p) \notin Blanks /\ Char(p) # "#" /\ Char(p) # "*"
  BY DEF NUL, Blanks
<1>2. ~Opens(p)
  BY <1>1 DEF Opens
<1>3. SkipAt(skipped, p)[0] = Begin(p)
  BY <1>1, <1>2 DEF SkipAt
<1>4. skipped[p] = SkipAt(skipped, p)
  BY SkippedIs
<1> QED
  BY <1>3, <1>4, SkipsTo

\* The last of the open braces is the one of an interpolation.
Inner(s) == s # <<>> /\ s[Len(s)] = 1

\* Some tokens and what is left after them.
Ended(s, below, x) == x.tokens \o Closed(s, below, x.to)

LEMMA EndedType ==
  ASSUME IsText, NEW s, NEW below \in Runs, NEW x \in Founds
  PROVE  Ended(s, below, x) \in Seq(KindSet)
<1>1. x.to \in Nat /\ x.tokens \in Seq(KindSet)
  BY DEF Founds
<1>2. Closed(s, below, x.to) \in Seq(KindSet)
  BY <1>1, ClosedType
<1> QED
  BY <1>1, <1>2, Joining DEF Ended

LEMMA EndedBefore ==
  ASSUME IsText, NEW s, NEW below \in Runs, NEW tokens \in Seq(KindSet), NEW x \in Founds
  PROVE  Ended(s, below, Before(tokens, x)) = tokens \o Ended(s, below, x)
<1>1. x.to \in Nat /\ x.tokens \in Seq(KindSet)
  BY DEF Founds
<1>2. Closed(s, below, x.to) \in Seq(KindSet)
  BY <1>1, ClosedType
<1>3. (tokens \o x.tokens) \o Closed(s, below, x.to) = tokens \o (x.tokens \o Closed(s, below, x.to))
  BY <1>1, <1>2, JoinedTwice
<1>4. Before(tokens, x).to = x.to /\ Before(tokens, x).tokens = tokens \o x.tokens
  BY BeforeType
<1> QED
  BY <1>3, <1>4 DEF Ended

LEMMA EndedFound ==
  ASSUME NEW s, NEW below, NEW to \in Nat, NEW tokens \in Seq(KindSet)
  PROVE  Ended(s, below, Found(to, tokens)) = tokens \o Closed(s, below, to)
BY FoundType DEF Ended

\* K is what is left when the stack is s.
Follow(K, s, below) == \A r \in Nat : K[r] = Ended(s, below, Code(r))

LEMMA OnwardFollows ==
  ASSUME NEW s, NEW below
  PROVE  Follow(Onward(s, below), s, below)
BY DEF Follow, Onward, Ended

\* The token after p begins at q.
Begins(p, q) == q \in Nat /\ q = skipped[p][0].to

\* Before the end, a closing brace, a string and a token of its own.
LEMMA OnwardSimple ==
  ASSUME IsText, NEW s, NEW below \in Runs, NEW K \in Runs, Follow(K, s, below), NEW p \in Nat, NEW q \in Nat,
         Begins(p, q)
  PROVE  /\ Char(q) = NUL => K[p] = One("EOF", <<>>)
         /\ Char(q) = CLOSING => K[p] = Closed(s, below, q)
         /\ Char(q) = QUOTE /\ ~TripleQuote(q) => K[p] = String(q + 1).tokens \o K[String(q + 1).to]
         /\ Char(q) \notin {CLOSING, NUL, BRACE} /\ (Char(q) = QUOTE => TripleQuote(q))
              => K[p] = One(Leaf(q).type, Leaf(q).text) \o K[Leaf(q).to]
<1>1. \A r \in Nat : K[r] = Ended(s, below, Code(r))
  BY DEF Follow
<1>2. Code(p) = CodeAt(Tokens, p)
  BY PiecesAre
<1>4. ASSUME Char(q) \in {CLOSING, NUL} PROVE K[p] = Closed(s, below, q)
  <2>1. Code(p) = Found(q, <<>>)
    BY <1>2, <1>4, CodeCases DEF Begins
  <2>2. Ended(s, below, Found(q, <<>>)) = <<>> \o Closed(s, below, q)
    BY NoText, EndedFound
  <2>3. Closed(s, below, q) \in Seq(KindSet)
    BY ClosedType
  <2> QED
    BY <1>1, <2>1, <2>2, <2>3, Joining
<1>5. ASSUME NEW tokens \in Seq(KindSet), NEW r \in Nat, Code(p) = Before(tokens, Code(r))
      PROVE  K[p] = tokens \o K[r]
  <2>1. Code(r) \in Founds
    BY PiecesAre
  <2>2. Ended(s, below, Before(tokens, Code(r))) = tokens \o Ended(s, below, Code(r))
    BY <2>1, EndedBefore, Zenon
  <2> QED
    BY <1>1, <1>5, <2>2, Zenon
<1>6. ASSUME Char(q) = QUOTE, ~TripleQuote(q) PROVE K[p] = String(q + 1).tokens \o K[String(q + 1).to]
  <2>1. Code(p) = Before(String(q + 1).tokens, Code(String(q + 1).to))
    BY <1>2, <1>6, CodeCases DEF Begins, Quoting, String, Code
  <2>2. q + 1 \in Nat
    OBVIOUS
  <2>3. String(q + 1).tokens \in Seq(KindSet) /\ String(q + 1).to \in Nat
    BY <2>2, PiecesAre
  <2> QED
    BY <1>5, <2>1, <2>3
<1>7. ASSUME Char(q) \notin {CLOSING, NUL, BRACE}, Char(q) = QUOTE => TripleQuote(q)
      PROVE  K[p] = One(Leaf(q).type, Leaf(q).text) \o K[Leaf(q).to]
  <2>1. Code(p) = Before(One(Leaf(q).type, Leaf(q).text), Code(Leaf(q).to))
    BY <1>2, <1>7, CodeCases DEF Begins, Code
  <2>2. One(Leaf(q).type, Leaf(q).text) \in Seq(KindSet) /\ Leaf(q).to \in Nat
    BY <1>7, LeafIs, KindType
  <2> QED
    BY <1>5, <2>1, <2>2
<1>8. ASSUME Char(q) = NUL PROVE K[p] = One("EOF", <<>>)
  BY <1>4, <1>8, Apart DEF Closed
<1> QED
  BY <1>4, <1>6, <1>7, <1>8

\* The code between braces and what follows it.
BraceRest(p) ==
  LET inner == Code(p)
  IN IF Char(inner.to) = CLOSING THEN Before(inner.tokens, Before(One("RBRACE", <<>>), Code(inner.to + 1)))
     ELSE Found(inner.to, inner.tokens)

LEMMA BracedIs ==
  ASSUME IsText, NEW q \in Nat
  PROVE  Braced(Tokens, q) = Before(One("LBRACE", <<>>), BraceRest(q + 1)) /\ BraceRest(q + 1) \in Founds
<1> PICK inner : inner = Code(q + 1)
  OBVIOUS
<1> PICK d : d = One("LBRACE", <<>>)
  OBVIOUS
<1>1. q + 1 \in Nat /\ inner.to \in Nat /\ inner.tokens \in Seq(KindSet) /\ inner.to + 1 \in Nat
  BY PiecesAre
<1>2. /\ Code(inner.to + 1) \in Founds /\ d \in Seq(KindSet) /\ One("RBRACE", <<>>) \in Seq(KindSet)
      /\ Kind("RBRACE", <<>>) \in KindSet
  BY <1>1, NoText, TypeNames, PiecesAre, KindType
<1>3. CASE Char(inner.to) = CLOSING
  <2>1. d \o inner.tokens \in Seq(KindSet)
    BY <1>1, <1>2, Joining
  <2>2. Append(d \o inner.tokens, Kind("RBRACE", <<>>)) = (d \o inner.tokens) \o One("RBRACE", <<>>)
    BY <1>2, <2>1, Joining DEF One
  <2>3. Braced(Tokens, q) = Before(Append(d \o inner.tokens, Kind("RBRACE", <<>>)), Code(inner.to + 1))
    BY <1>3 DEF Braced, Code
  <2>4. Before(One("RBRACE", <<>>), Code(inner.to + 1)) \in Founds
    BY <1>2, BeforeType
  <2>5. Before(d \o inner.tokens, Before(One("RBRACE", <<>>), Code(inner.to + 1)))
          = Before((d \o inner.tokens) \o One("RBRACE", <<>>), Code(inner.to + 1))
    BY <1>2, <2>1, BeforeBefore
  <2>6. Before(d, Before(inner.tokens, Before(One("RBRACE", <<>>), Code(inner.to + 1))))
          = Before(d \o inner.tokens, Before(One("RBRACE", <<>>), Code(inner.to + 1)))
    BY <1>1, <1>2, <2>4, BeforeBefore
  <2>7. BraceRest(q + 1) = Before(inner.tokens, Before(One("RBRACE", <<>>), Code(inner.to + 1)))
    BY <1>3 DEF BraceRest
  <2>8. BraceRest(q + 1) \in Founds
    BY <1>1, <2>4, <2>7, BeforeType
  <2> QED
    BY Zenon, <2>2, <2>3, <2>5, <2>6, <2>7, <2>8
<1>4. CASE Char(inner.to) # CLOSING
  <2>1. BraceRest(q + 1) = Found(inner.to, inner.tokens)
    BY <1>4 DEF BraceRest
  <2>2. Braced(Tokens, q) = Found(inner.to, d \o inner.tokens)
    BY <1>4 DEF Braced, Code
  <2>3. /\ Found(inner.to, inner.tokens).to = inner.to /\ Found(inner.to, inner.tokens).tokens = inner.tokens
        /\ Found(inner.to, inner.tokens) \in Founds
    BY <1>1, FoundType
  <2> QED
    BY <2>1, <2>2, <2>3 DEF Before
<1> QED
  BY <1>3, <1>4

\* K from p on is a brace and L from behind q on.
BraceThen(K, p, L, q) == K[p] = One("LBRACE", <<>>) \o L[q + 1]

\* Before an opening brace: the brace, and what follows it is what is left with
\* one more brace open.
LEMMA OnwardBrace ==
  ASSUME IsText, NEW s, NEW t, ~Inner(t), NEW below \in Runs, NEW K \in Runs, Follow(K, s, below),
         NEW L \in Runs, Follow(L, t, K), NEW p \in Nat, NEW q \in Nat, Begins(p, q), Char(q) = BRACE
  PROVE  BraceThen(K, p, L, q)
<1>1. \A r \in Nat : K[r] = Ended(s, below, Code(r)) /\ L[r] = Ended(t, K, Code(r))
  BY DEF Follow
<1>2. Code(p) = Before(One("LBRACE", <<>>), BraceRest(q + 1)) /\ BraceRest(q + 1) \in Founds
  <2>1. Code(p) = CodeAt(Tokens, p)
    BY PiecesAre
  <2>2. CodeAt(Tokens, p) = Braced(Tokens, q)
    BY CodeCases DEF Begins
  <2> QED
    BY <2>1, <2>2, BracedIs
<1>3. K[p] = One("LBRACE", <<>>) \o Ended(s, below, BraceRest(q + 1))
  <2>1. One("LBRACE", <<>>) \in Seq(KindSet)
    BY OneTypes
  <2>2. Ended(s, below, Before(One("LBRACE", <<>>), BraceRest(q + 1)))
          = One("LBRACE", <<>>) \o Ended(s, below, BraceRest(q + 1))
    BY <1>2, <2>1, EndedBefore, Zenon
  <2> QED
    BY <1>1, <1>2, <2>2, Zenon
<1>4. /\ q + 1 \in Nat /\ Code(q + 1).to \in Nat /\ Code(q + 1).tokens \in Seq(KindSet)
      /\ Code(q + 1).to + 1 \in Nat
  BY PiecesAre
<1>5. L[q + 1] = Code(q + 1).tokens \o Closed(t, K, Code(q + 1).to)
  BY <1>1, <1>4 DEF Ended
<1>6. ASSUME NEW end, end = Code(q + 1).to, Char(end) = CLOSING
      PROVE  Ended(s, below, BraceRest(q + 1)) = L[q + 1]
  <2>1. BraceRest(q + 1) = Before(Code(q + 1).tokens, Before(One("RBRACE", <<>>), Code(end + 1)))
    BY <1>6 DEF BraceRest
  <2>2. Code(end + 1) \in Founds /\ One("RBRACE", <<>>) \in Seq(KindSet)
    BY <1>4, <1>6, PiecesAre, OneTypes
  <2>3. ASSUME NEW x, x = Before(One("RBRACE", <<>>), Code(end + 1))
        PROVE  /\ Ended(s, below, Before(Code(q + 1).tokens, x)) = Code(q + 1).tokens \o Ended(s, below, x)
               /\ Ended(s, below, x) = One("RBRACE", <<>>) \o K[end + 1]
    <3>1. x \in Founds
      BY <2>2, <2>3, BeforeType
    <3>2. Ended(s, below, Before(Code(q + 1).tokens, x)) = Code(q + 1).tokens \o Ended(s, below, x)
      BY <1>4, <3>1, EndedBefore, Zenon
    <3>3. Ended(s, below, Before(One("RBRACE", <<>>), Code(end + 1)))
            = One("RBRACE", <<>>) \o Ended(s, below, Code(end + 1))
      BY <2>2, EndedBefore, Zenon
    <3>4. K[end + 1] = Ended(s, below, Code(end + 1))
      BY <1>1, <1>4, <1>6
    <3> QED
      BY <2>3, <3>2, <3>3, <3>4, Zenon
  <2>4. Closed(t, K, end) = One("RBRACE", <<>>) \o K[end + 1]
    BY <1>6, Zenon DEF Closed, Inner
  <2> QED
    BY Zenon, <1>5, <1>6, <2>1, <2>3, <2>4
<1>7. ASSUME NEW end, end = Code(q + 1).to, Char(end) # CLOSING
      PROVE  Ended(s, below, BraceRest(q + 1)) = L[q + 1]
  <2>1. BraceRest(q + 1) = Found(end, Code(q + 1).tokens)
    BY <1>7 DEF BraceRest
  <2>2. Ended(s, below, Found(end, Code(q + 1).tokens)) = Code(q + 1).tokens \o Closed(s, below, end)
    BY <1>4, <1>7, EndedFound, Zenon
  <2>3. Closed(s, below, end) = Closed(t, K, end)
    BY <1>7 DEF Closed
  <2> QED
    BY Zenon, <1>5, <1>7, <2>1, <2>2, <2>3
<1>8. Ended(s, below, BraceRest(q + 1)) = L[q + 1]
  BY <1>6, <1>7
<1> QED
  BY <1>3, <1>8 DEF BraceThen

\* What is left where lexing goes on at r: in a string directly after a `$`
\* (naming), the name and the rest of it; after the name, the rest of it.
Left(K, r, naming) ==
  IF ~naming THEN K[r]
  ELSE IF isName(Char(r)) THEN NameRest(r).tokens \o K[NameRest(r).to]
  ELSE String(r).tokens \o K[String(r).to]

\* Before the rest of an interpolation: its code, and what follows it is what
\* is left with one more interpolation open.
LEMMA InnerLeft ==
  ASSUME IsText, NEW s, NEW t, Inner(t), NEW below \in Runs, NEW K \in Runs, Follow(K, s, below),
         NEW L \in Runs, Follow(L, t, K), NEW r \in Nat
  PROVE  InnerRest(r).tokens \o K[InnerRest(r).to] = L[r]
<1>0. ASSUME NEW p \in Nat, Char(p) = NUL PROVE K[p] = One("EOF", <<>>)
  <2>1. Begins(p, p)
    BY <1>0, StopsAtEnd DEF Begins
  <2> QED
    BY <1>0, <2>1, OnwardSimple
<1>1. /\ Code(r).to \in Nat /\ Code(r).tokens \in Seq(KindSet) /\ Code(r).to + 1 \in Nat
      /\ Char(Code(r).to) \in {CLOSING, NUL}
  BY PiecesAre, CodeEnds
<1>2. L[r] = Code(r).tokens \o Closed(t, K, Code(r).to)
  BY DEF Follow, Ended
<1>3. ASSUME NEW end, end = Code(r).to, Char(end) = CLOSING
      PROVE  InnerRest(r).tokens \o K[InnerRest(r).to] = L[r]
  <2>1. InnerRest(r) = Before(Code(r).tokens, String(end + 1))
    BY <1>3 DEF InnerRest
  <2>2. String(end + 1) \in Founds /\ String(end + 1).tokens \in Seq(KindSet) /\ String(end + 1).to \in Nat
    BY <1>1, <1>3, PiecesAre
  <2>3. InnerRest(r).to = String(end + 1).to /\ InnerRest(r).tokens = Code(r).tokens \o String(end + 1).tokens
    BY <1>1, <2>1, <2>2, BeforeType
  <2>4. Closed(t, K, end) = String(end + 1).tokens \o K[String(end + 1).to]
    BY <1>3, Zenon DEF Closed, Inner
  <2>5. K[String(end + 1).to] \in Seq(KindSet)
    <3>1. K[String(end + 1).to] = Ended(s, below, Code(String(end + 1).to))
      BY <2>2 DEF Follow
    <3>2. Code(String(end + 1).to) \in Founds
      BY <2>2, PiecesAre
    <3> QED
      BY <3>1, <3>2, EndedType
  <2>6. (Code(r).tokens \o String(end + 1).tokens) \o K[String(end + 1).to]
          = Code(r).tokens \o (String(end + 1).tokens \o K[String(end + 1).to])
    BY <1>1, <2>2, <2>5, JoinedTwice, Zenon
  <2> QED
    BY Zenon, <1>2, <1>3, <2>3, <2>4, <2>6
<1>4. ASSUME NEW end, end = Code(r).to, Char(end) = NUL
      PROVE  InnerRest(r).tokens \o K[InnerRest(r).to] = L[r]
  <2>1. Char(end) # CLOSING
    BY <1>4, Apart
  <2>2. InnerRest(r) = Found(end, Code(r).tokens)
    BY <1>4, <2>1 DEF InnerRest
  <2>3. InnerRest(r).to = end /\ InnerRest(r).tokens = Code(r).tokens
    BY <1>1, <1>4, <2>2, FoundType
  <2>4. Closed(t, K, end) = One("EOF", <<>>)
    BY <2>1 DEF Closed
  <2>6. K[end] = One("EOF", <<>>)
    BY <1>0, <1>1, <1>4
  <2> QED
    BY Zenon, <1>2, <1>4, <2>3, <2>4, <2>6
<1> QED
  BY <1>1, <1>3, <1>4

\* The stack after a part of a string.
Opened(s, type, to) == IF type = "DOLLAR_INTERPOL" /\ ~Named(type, to) THEN Append(s, 1) ELSE s

\* What follows a part of a string.
LEMMA RestLeft ==
  ASSUME IsText, NEW s \in Seq(Nat), NEW K, Continues(s, K), NEW to \in Nat,
         NEW type \in {"STRING_CONST", "DOLLAR_INTERPOL"}, Named(type, to) => isName(Char(to))
  PROVE  \E L : /\ Continues(Opened(s, type, to), L)
                /\ Follows(type, to).tokens \o K[Follows(type, to).to] = Left(L, to, Named(type, to))
<1>1. PICK below \in Runs : K = Onward(s, below) /\ K \in Runs
  BY ContinuesLess
<1>2. CASE type = "STRING_CONST"
  <2>1. ~Named(type, to) /\ Opened(s, type, to) = s
    BY <1>2 DEF Named, Opened
  <2>2. Follows(type, to) = Found(to, <<>>)
    BY <1>2, FollowsIs
  <2>3. Found(to, <<>>).to = to /\ Found(to, <<>>).tokens = <<>>
    BY NoText, FoundType
  <2>4. K[to] \in Seq(KindSet)
    BY <1>1 DEF Runs
  <2>5. <<>> \o K[to] = K[to]
    BY <2>4, Joining
  <2>6. Left(K, to, Named(type, to)) = K[to]
    BY <2>1 DEF Left
  <2>7. Follows(type, to).tokens \o K[Follows(type, to).to] = Left(K, to, Named(type, to))
    BY <2>2, <2>3, <2>5, <2>6, Zenon
  <2> QED
    BY <2>1, <2>7
<1>3. CASE Named(type, to)
  <2>1. Opened(s, type, to) = s
    BY <1>3 DEF Opened
  <2>2. Follows(type, to) = NameRest(to)
    BY <1>3, FollowsIs
  <2>3. Left(K, to, Named(type, to)) = Follows(type, to).tokens \o K[Follows(type, to).to]
    BY <1>3, <2>2, Zenon DEF Left
  <2> QED
    BY <2>1, <2>3
<1>4. CASE type = "DOLLAR_INTERPOL" /\ ~Named(type, to)
  <2>1. ASSUME NEW t, t = Append(s, 1) PROVE t # <<>> /\ t[Len(t)] = 1 /\ Less(t) = s
    <3>1. t # <<>> /\ t[Len(t)] = 1 /\ SubSeq(t, 1, Len(t) - 1) = s
      BY <2>1
    <3> QED
      BY <3>1, Zenon DEF Less
  <2>2. PICK t : Opened(s, type, to) = t /\ Inner(t) /\ Less(t) = s
    BY <1>4, <2>1 DEF Opened, Inner
  <2>3. \E L \in Runs : Follow(L, t, K) /\ Continues(t, L)
    <3>1. Continues(t, Onward(t, K))
      BY <2>2, ContinuesMore DEF Inner
    <3> QED
      BY <1>1, <3>1, OnwardType, OnwardFollows
  <2>4. PICK L \in Runs : Follow(L, t, K) /\ Continues(t, L)
    BY <2>3
  <2>5. Follows(type, to) = InnerRest(to)
    BY <1>4, FollowsIs
  <2>6. Follow(K, s, below) /\ K \in Runs
    BY <1>1, OnwardFollows
  <2>7. InnerRest(to).tokens \o K[InnerRest(to).to] = L[to]
    BY <2>2, <2>4, <2>6, InnerLeft
  <2>8. Left(L, to, Named(type, to)) = L[to]
    BY <1>4 DEF Left
  <2>10. Follows(type, to).tokens \o K[Follows(type, to).to] = Left(L, to, Named(type, to))
    BY <2>5, <2>7, <2>8, Zenon
  <2> QED
    BY <2>2, <2>4, <2>10
<1> QED
  BY <1>2, <1>3, <1>4

\* Before a string: the part that readString makes of it, and what follows.
LEMMA StringLeft ==
  ASSUME IsText, NEW s \in Seq(Nat), NEW K, Continues(s, K), NEW p \in Nat,
         NEW y \in Pieces, Matches(p, y), ~y.error, y.to <= Len(source) + 1
  PROVE  /\ y.type \in Types /\ y.text \in Seq(Glyph) /\ y.to \in Nat
         /\ Named(y.type, y.to) => isName(Char(y.to))
         /\ \E L : /\ Continues(Opened(s, y.type, y.to), L)
                   /\ Left(L, y.to, Named(y.type, y.to)) \in Seq(KindSet)
                   /\ String(p).tokens \o K[String(p).to] = One(y.type, y.text) \o Left(L, y.to, Named(y.type, y.to))
<1>1. PICK type, text, to : type = y.type /\ text = y.text /\ to = y.to
  OBVIOUS
<1>2. /\ type \in {"STRING_CONST", "DOLLAR_INTERPOL"}
      /\ Named(type, to) => isName(Char(to))
      /\ Follows(type, to) \in Founds
      /\ String(p) = Before(One(type, text), Follows(type, to))
  BY <1>1 DEF Matches
<1>3. text \in Seq(Glyph) /\ to \in Nat
  BY <1>1 DEF Pieces
<1>4. type \in Types /\ One(type, text) \in Seq(KindSet)
  BY <1>2, <1>3, TypeNames, KindType
<1>5. PICK L : /\ Continues(Opened(s, type, to), L)
               /\ Follows(type, to).tokens \o K[Follows(type, to).to] = Left(L, to, Named(type, to))
  BY <1>2, <1>3, RestLeft
<1>6. K \in Runs
  BY ContinuesLess
<1>7. ASSUME NEW rest \in Founds
      PROVE  /\ rest.tokens \o K[rest.to] \in Seq(KindSet)
             /\ Before(One(type, text), rest).tokens \o K[Before(One(type, text), rest).to]
                  = One(type, text) \o (rest.tokens \o K[rest.to])
  <2>1. rest.to \in Nat /\ rest.tokens \in Seq(KindSet)
    BY <1>7 DEF Founds
  <2>2. K[rest.to] \in Seq(KindSet)
    BY <1>6, <2>1 DEF Runs
  <2>3. rest.tokens \o K[rest.to] \in Seq(KindSet)
    BY <2>1, <2>2, Joining
  <2>4. Before(One(type, text), rest).to = rest.to /\ Before(One(type, text), rest).tokens = One(type, text) \o rest.tokens
    BY <1>4, BeforeType
  <2>5. (One(type, text) \o rest.tokens) \o K[rest.to] = One(type, text) \o (rest.tokens \o K[rest.to])
    BY <1>4, <2>1, <2>2, JoinedTwice, Zenon
  <2> QED
    BY <2>3, <2>4, <2>5, Zenon
<1>8. /\ Left(L, to, Named(type, to)) \in Seq(KindSet)
      /\ String(p).tokens \o K[String(p).to] = One(type, text) \o Left(L, to, Named(type, to))
  BY <1>2, <1>5, <1>7, Zenon
<1> QED
  BY <1>1, <1>2, <1>3, <1>4, <1>5, <1>8

(****************************************************************************)
(* What a call of nextToken does to what is left.                           *)
(****************************************************************************)
LEMMA BraceSymbols ==
  ASSUME NEW p \in Nat, Char(p) \in {BRACE, CLOSING}
  PROVE  /\ Symbol(p).to = p + 1 /\ Symbol(p).text = <<>>
         /\ Char(p) = BRACE => Symbol(p).type = "LBRACE"
         /\ Char(p) = CLOSING => Symbol(p).type = "RBRACE"
<1> DEFINE Firsts == {"(", ")", ":", "*", "/", "\n", "+", "-", "&", "=", "!", "?", ".", "<", ">", COMMA}
<1>1. \A s \in Symbols : s[1][1] \in Firsts \/ \E a : s[1] = <<a>>
  BY SMTT(60) DEF Symbols
<1>2. BRACE \notin Firsts /\ CLOSING \notin Firsts
  BY Zenon DEF BRACE, CLOSING, COMMA
<1>3. Fits(p) # {}
  BY BracesFit
<1>4. PICK s \in Fits(p) : Symbol(p).to = p + Len(s[1])
  BY <1>3, SymbolFits
<1>5. s \in Symbols /\ Char(p) = s[1][1]
  <2>1. s \in Symbols /\ 1 \in DOMAIN s[1] /\ p + 1 - 1 = p
    BY FirstCharacters DEF Fits
  <2> QED
    BY <2>1 DEF Fits
<1> HIDE DEF Firsts
<1>6. PICK a : s[1] = <<a>>
  BY <1>1, <1>2, <1>5
<1>7. Len(<<a>>) = 1
  OBVIOUS
<1> QED
  BY <1>3, <1>4, <1>6, <1>7, SymbolIs

\* The tokens `done`, with what is left, are those of the source.
Promised(done, s, r, naming) ==
  /\ done \in Seq(KindSet) /\ (naming => ~isDigit(Char(r)))
  /\ \E K : /\ Continues(s, K)
            /\ Left(K, r, naming) \in Seq(KindSet)
            /\ done \o Left(K, r, naming) = Program[1]
Kept(done, s, r, naming, type) ==
  IF type = "EOF" THEN done = Program[1] ELSE r <= Len(source) + 1 => Promised(done, s, r, naming)

\* One token more.
LEMMA PromisedMore ==
  ASSUME NEW done \in Seq(KindSet), NEW left, done \o left = Program[1],
         NEW type \in Types, NEW text \in Seq(Glyph), NEW s, NEW r, NEW naming, naming => ~isDigit(Char(r)),
         NEW L, Continues(s, L), Left(L, r, naming) \in Seq(KindSet), left = One(type, text) \o Left(L, r, naming)
  PROVE  Promised(done \o One(type, text), s, r, naming)
<1>1. One(type, text) \in Seq(KindSet)
  BY KindType
<1>2. \A rest \in Seq(KindSet) : (done \o One(type, text)) \o rest = done \o (One(type, text) \o rest)
  BY <1>1, JoinedTwice
<1>3. (done \o One(type, text)) \o Left(L, r, naming) = Program[1]
  BY <1>2, Zenon
<1>4. done \o One(type, text) \in Seq(KindSet)
  BY <1>1, Joining
<1> QED
  BY <1>3, <1>4, Zenon DEF Promised

\* A token of its own, outside strings.
LEMMA LeafStep ==
  ASSUME IsText, NEW done, NEW s, NEW r \in Nat, NEW naming, ~naming, Promised(done, s, r, naming),
         NEW q \in Nat, Begins(r, q),
         Char(q) \notin {CLOSING, NUL, BRACE}, Char(q) = QUOTE => TripleQuote(q), NEW y, y = Leaf(q)
  PROVE  Promised(done \o One(y.type, y.text), s, y.to, naming)
<1>0. done \in Seq(KindSet)
  BY DEF Promised
<1>1. PICK K : Continues(s, K) /\ done \o Left(K, r, naming) = Program[1]
  BY DEF Promised
<1>2. PICK below \in Runs : K = Onward(s, below) /\ K \in Runs
  BY <1>1, ContinuesLess
<1>3. Follow(K, s, below) /\ K \in Runs
  BY <1>2, OnwardFollows
<1>4. Left(K, r, naming) = K[r] /\ Left(K, y.to, naming) = K[y.to]
  BY DEF Left
<1>5. y.type \in Types /\ y.text \in Seq(Glyph) /\ y.to \in Nat
  BY LeafIs
<1>6. K[r] = One(Leaf(q).type, Leaf(q).text) \o K[Leaf(q).to]
  BY <1>3, OnwardSimple
<1>7. Left(K, y.to, naming) \in Seq(KindSet) /\ Left(K, r, naming) = One(y.type, y.text) \o Left(K, y.to, naming)
  <2>1. K[y.to] \in Seq(KindSet)
    BY <1>3, <1>5 DEF Runs
  <2> QED
    BY <1>4, <1>6, <2>1, Zenon
<1> QED
  BY <1>0, <1>1, <1>5, <1>7, PromisedMore, Zenon

\* The end of the source.
LEMMA EndStep ==
  ASSUME IsText, NEW done, NEW s, NEW r \in Nat, NEW naming, Promised(done, s, r, naming), NEW q \in Nat,
         naming => q = r, ~naming => Begins(r, q), Char(q) = NUL
  PROVE  done \o One("EOF", <<>>) = Program[1]
<1>1. PICK K : Continues(s, K) /\ done \o Left(K, r, naming) = Program[1]
  BY DEF Promised
<1>2. PICK below \in Runs : K = Onward(s, below) /\ K \in Runs
  BY <1>1, ContinuesLess
<1>3. Follow(K, s, below) /\ K \in Runs
  BY <1>2, OnwardFollows
<1>4. CASE ~naming
  <2>1. K[r] = One("EOF", <<>>)
    BY <1>3, <1>4, OnwardSimple
  <2> QED
    BY <1>1, <1>4, <2>1, Zenon DEF Left
<1>5. CASE naming
  <2>1. ~isName(Char(r)) /\ Char(r) = NUL
    BY <1>5, Apart DEF isName
  <2>2. Begins(r, r)
    BY <2>1, StopsAtEnd DEF Begins
  <2>3. K[r] = One("EOF", <<>>)
    BY <1>3, <2>1, <2>2, OnwardSimple
  <2>4. String(r) = Found(r, <<>>)
    BY <2>1, PiecesAre, PartCases
  <2>5. String(r).to = r /\ String(r).tokens = <<>>
    BY <2>4 DEF Found
  <2>6. <<>> \o One("EOF", <<>>) = One("EOF", <<>>)
    BY OneTypes, Joining
  <2>7. Left(K, r, naming) = One("EOF", <<>>)
    BY <1>5, <2>1, <2>3, <2>5, <2>6, Zenon DEF Left
  <2> QED
    BY <1>1, <2>7
<1> QED
  BY <1>4, <1>5

\* The stack with a brace more.
More(s) == IF s = <<>> THEN s ELSE [s EXCEPT ![Len(s)] = @ + 1]

LEMMA MoreThenLess ==
  ASSUME NEW s, Nested(s), s # <<>>
  PROVE  Less(More(s)) = s /\ More(s) # <<>> /\ ~Inner(More(s))
<1> PICK n : n = Len(s)
  OBVIOUS
<1> PICK t : t = [s EXCEPT ![n] = s[n] + 1]
  OBVIOUS
<1>1. s \in Seq(Nat) /\ n \in Nat \ {0} /\ n \in 1..Len(s) /\ n = Len(s) /\ s[n] \in Nat \ {0}
  BY DEF Nested
<1>2. More(s) = t
  BY <1>1 DEF More
<1>3. t \in Seq(Nat) /\ Len(t) = n /\ t[n] = s[n] + 1 /\ \A i \in 1..n : i # n => t[i] = s[i]
  BY <1>1
<1>4. t # <<>> /\ t[n] # 1 /\ t[n] - 1 = s[n]
  BY <1>1, <1>3
<1>5. Less(t) = [t EXCEPT ![n] = t[n] - 1]
  BY <1>3, <1>4 DEF Less
<1>6. [t EXCEPT ![n] = t[n] - 1] = s
  <2>1. [t EXCEPT ![n] = t[n] - 1] = [i \in 1..n |-> IF i = n THEN t[n] - 1 ELSE t[i]]
    BY <1>1, <1>3
  <2>2. \A i \in 1..n : (IF i = n THEN t[n] - 1 ELSE t[i]) = s[i]
    BY <1>3, <1>4
  <2>3. s = [i \in 1..n |-> s[i]]
    BY <1>1
  <2> QED
    BY <2>1, <2>2, <2>3
<1> QED
  BY <1>2, <1>3, <1>4, <1>5, <1>6 DEF Inner

\* A brace that opens.
LEMMA OpenStep ==
  ASSUME IsText, NEW done, NEW s, Nested(s), NEW r \in Nat, NEW naming, ~naming,
         Promised(done, s, r, naming), NEW q \in Nat, Begins(r, q), Char(q) = BRACE
  PROVE  Promised(done \o One("LBRACE", <<>>), More(s), q + 1, naming)
<1>0. done \in Seq(KindSet)
  BY DEF Promised
<1>1. PICK K : Continues(s, K) /\ done \o Left(K, r, naming) = Program[1]
  BY DEF Promised
<1>2. PICK below \in Runs : K = Onward(s, below) /\ K \in Runs
  BY <1>1, ContinuesLess
<1>3. Follow(K, s, below) /\ K \in Runs
  BY <1>2, OnwardFollows
<1>4. \E L \in Runs : \E t : Continues(More(s), L) /\ Follow(L, t, K) /\ ~Inner(t)
  <2>1. CASE s = <<>>
    <3>1. K = Program /\ More(s) = <<>>
      BY <1>1, <2>1, ContinuesLess DEF More
    <3>2. Follow(Onward(<<>>, Program), <<>>, Program)
      BY OnwardFollows
    <3>3. Follow(Program, <<>>, Program)
      BY <3>2, ProgramGoesOn
    <3>4. ~Inner(<<>>)
      BY DEF Inner
    <3> QED
      BY <3>1, <3>3, <3>4, ProgramGoesOn, ContinuesTop
  <2>2. CASE s # <<>>
    <3>1. Continues(More(s), Onward(More(s), K)) /\ ~Inner(More(s))
      BY <1>1, <2>2, MoreThenLess, ContinuesMore
    <3>2. Onward(More(s), K) \in Runs /\ Follow(Onward(More(s), K), More(s), K)
      BY <1>3, OnwardType, OnwardFollows
    <3> QED
      BY <3>1, <3>2
  <2> QED
    BY <2>1, <2>2
<1>link. PICK L \in Runs : \E t : Continues(More(s), L) /\ Follow(L, t, K) /\ ~Inner(t)
  BY <1>4
<1>5. PICK t : Continues(More(s), L) /\ Follow(L, t, K) /\ ~Inner(t)
  BY <1>link
<1>6. K[r] = One("LBRACE", <<>>) \o L[q + 1]
  <2>1. BraceThen(K, r, L, q)
    BY <1>3, <1>5, OnwardBrace
  <2> QED
    BY <2>1 DEF BraceThen
<1>7. L[q + 1] \in Seq(KindSet)
  BY DEF Runs
<1>8. Left(K, r, naming) = K[r] /\ Left(L, q + 1, naming) = L[q + 1]
  BY DEF Left
<1>9. "LBRACE" \in Types /\ <<>> \in Seq(Glyph)
  BY TypeNames, NoText
<1>10. Left(L, q + 1, naming) \in Seq(KindSet) /\ Left(K, r, naming) = One("LBRACE", <<>>) \o Left(L, q + 1, naming)
  BY <1>6, <1>7, <1>8, Zenon
<1> QED
  BY <1>0, <1>1, <1>5, <1>9, <1>10, PromisedMore, Zenon

\* A string is left from p on, and then what is left when the stack is s.
InString(done, s, p) ==
  /\ done \in Seq(KindSet)
  /\ \E K : Continues(s, K) /\ done \o (String(p).tokens \o K[String(p).to]) = Program[1]

LEMMA StringStep ==
  ASSUME IsText, NEW done, NEW s \in Seq(Nat), NEW p \in Nat, InString(done, s, p),
         NEW y \in Pieces, Matches(p, y), ~y.error, y.to <= Len(source) + 1
  PROVE  Promised(done \o One(y.type, y.text), Opened(s, y.type, y.to), y.to, Named(y.type, y.to))
<1>0. done \in Seq(KindSet)
  BY DEF InString
<1>1. PICK K : Continues(s, K) /\ done \o (String(p).tokens \o K[String(p).to]) = Program[1]
  BY DEF InString
<1>2. /\ y.type \in Types /\ y.text \in Seq(Glyph) /\ y.to \in Nat
      /\ Named(y.type, y.to) => isName(Char(y.to))
      /\ \E L : /\ Continues(Opened(s, y.type, y.to), L)
                /\ Left(L, y.to, Named(y.type, y.to)) \in Seq(KindSet)
                /\ String(p).tokens \o K[String(p).to] = One(y.type, y.text) \o Left(L, y.to, Named(y.type, y.to))
  BY <1>1, StringLeft
<1>3. Named(y.type, y.to) => ~isDigit(Char(y.to))
  BY <1>2, Apart DEF isName, isDigit
<1>4. PICK L : /\ Continues(Opened(s, y.type, y.to), L)
               /\ Left(L, y.to, Named(y.type, y.to)) \in Seq(KindSet)
               /\ String(p).tokens \o K[String(p).to] = One(y.type, y.text) \o Left(L, y.to, Named(y.type, y.to))
  BY <1>2
<1> QED
  BY <1>0, <1>1, <1>2, <1>3, <1>4, PromisedMore, Zenon

\* A quote.
LEMMA QuoteStep ==
  ASSUME IsText, NEW done, NEW s, NEW r \in Nat, NEW naming, ~naming, Promised(done, s, r, naming),
         NEW q \in Nat, Begins(r, q), Char(q) = QUOTE, ~TripleQuote(q)
  PROVE  InString(done, s, q + 1)
<1>0. done \in Seq(KindSet)
  BY DEF Promised
<1>1. PICK K : Continues(s, K) /\ done \o Left(K, r, naming) = Program[1]
  BY DEF Promised
<1>2. PICK below \in Runs : K = Onward(s, below) /\ K \in Runs
  BY <1>1, ContinuesLess
<1>3. Follow(K, s, below) /\ K \in Runs
  BY <1>2, OnwardFollows
<1>4. K[r] = String(q + 1).tokens \o K[String(q + 1).to]
  BY <1>3, OnwardSimple
<1>5. Left(K, r, naming) = K[r]
  BY DEF Left
<1>6. Continues(s, K) /\ done \o (String(q + 1).tokens \o K[String(q + 1).to]) = Program[1]
  BY <1>1, <1>4, <1>5, Zenon
<1> QED
  BY <1>0, <1>6, Zenon DEF InString

\* A brace that closes: an interpolation, or another.
LEMMA CloseStep ==
  ASSUME IsText, NEW done, NEW s, NEW r \in Nat, NEW naming, ~naming, Promised(done, s, r, naming),
         NEW q \in Nat, Begins(r, q), Char(q) = CLOSING
  PROVE  IF Inner(s) THEN InString(done, Less(s), q + 1)
         ELSE Promised(done \o One("RBRACE", <<>>), Less(s), q + 1, naming)
<1>0. done \in Seq(KindSet)
  BY DEF Promised
<1>1. PICK K : Continues(s, K) /\ done \o Left(K, r, naming) = Program[1]
  BY DEF Promised
<1>2. PICK below \in Runs : K = Onward(s, below) /\ K \in Runs /\ Continues(Less(s), below)
  BY <1>1, ContinuesLess
<1>3. Follow(K, s, below) /\ K \in Runs /\ Continues(Less(s), below)
  BY <1>2, OnwardFollows
<1>4. Left(K, r, naming) = Closed(s, below, q)
  <2>1. K[r] = Closed(s, below, q)
    BY <1>3, OnwardSimple
  <2> QED
    BY <2>1 DEF Left
<1>5. CASE Inner(s)
  <2>1. Closed(s, below, q) = String(q + 1).tokens \o below[String(q + 1).to]
    BY <1>5, Zenon DEF Closed, Inner
  <2>2. Continues(Less(s), below) /\ done \o (String(q + 1).tokens \o below[String(q + 1).to]) = Program[1]
    BY <1>1, <1>3, <1>4, <2>1, Zenon
  <2>3. InString(done, Less(s), q + 1)
    BY <1>0, <2>2, Zenon DEF InString
  <2> QED
    BY <1>5, <2>3
<1>6. CASE ~Inner(s)
  <2>1. Closed(s, below, q) = One("RBRACE", <<>>) \o below[q + 1]
    BY <1>6, Zenon DEF Closed, Inner
  <2>2. below[q + 1] \in Seq(KindSet)
    BY DEF Runs
  <2>3. Left(below, q + 1, naming) = below[q + 1]
    BY DEF Left
  <2>4. "RBRACE" \in Types /\ <<>> \in Seq(Glyph)
    BY TypeNames, NoText
  <2>5. /\ Left(below, q + 1, naming) \in Seq(KindSet)
        /\ Left(K, r, naming) = One("RBRACE", <<>>) \o Left(below, q + 1, naming)
    BY <1>4, <2>1, <2>2, <2>3, Zenon
  <2>6. Promised(done \o One("RBRACE", <<>>), Less(s), q + 1, naming)
    BY <1>0, <1>1, <1>3, <2>4, <2>5, PromisedMore, Zenon
  <2> QED
    BY <1>6, <2>6
<1> QED
  BY <1>5, <1>6

\* A name after `$`, and the string after that name.
LEMMA NameStep ==
  ASSUME IsText, NEW done, NEW s, NEW r \in Nat, NEW naming, naming, Promised(done, s, r, naming), isName(Char(r)),
         NEW to, to = readName(r).to
  PROVE  Promised(done \o One(readName(r).type, <<>>), s, to, naming)
<1>0. done \in Seq(KindSet)
  BY DEF Promised
<1>1. PICK K : Continues(s, K) /\ done \o Left(K, r, naming) = Program[1]
  BY DEF Promised
<1>2. K \in Runs
  BY <1>1, ContinuesLess
<1>3. to \in Nat /\ readName(r).type \in Types /\ ~isName(Char(to)) /\ ~isDigit(Char(to))
  BY NameStops
<1>4. /\ String(to) \in Founds /\ String(to).to \in Nat /\ String(to).tokens \in Seq(KindSet)
      /\ One(readName(r).type, <<>>) \in Seq(KindSet)
  BY <1>3, NoText, PiecesAre, KindType
<1>5. NameRest(r) = Before(One(readName(r).type, <<>>), String(to))
  BY DEF NameRest
<1>6. NameRest(r).to = String(to).to /\ NameRest(r).tokens = One(readName(r).type, <<>>) \o String(to).tokens
  <2>1. LET x == Before(One(readName(r).type, <<>>), String(to))
        IN x.to = String(to).to /\ x.tokens = One(readName(r).type, <<>>) \o String(to).tokens
    BY <1>4, BeforeType, Zenon
  <2> QED
    BY <1>5, <2>1, Zenon
<1>7. K[String(to).to] \in Seq(KindSet)
  BY <1>2, <1>4 DEF Runs
<1>8. (One(readName(r).type, <<>>) \o String(to).tokens) \o K[String(to).to]
        = One(readName(r).type, <<>>) \o (String(to).tokens \o K[String(to).to])
  BY <1>4, <1>7, JoinedTwice, Zenon
<1>9. Left(K, to, naming) = String(to).tokens \o K[String(to).to]
  BY <1>3, Zenon DEF Left
<1>10. Left(K, r, naming) = NameRest(r).tokens \o K[NameRest(r).to]
  BY Zenon DEF Left
<1>11. String(to).tokens \o K[String(to).to] \in Seq(KindSet)
  BY <1>4, <1>7, Joining
<1>12. /\ Left(K, to, naming) \in Seq(KindSet)
       /\ Left(K, r, naming) = One(readName(r).type, <<>>) \o Left(K, to, naming)
  BY <1>6, <1>8, <1>9, <1>10, <1>11, Zenon
<1> QED
  BY <1>0, <1>1, <1>3, <1>12, NoText, PromisedMore, Zenon

LEMMA ResumeStep ==
  ASSUME NEW done, NEW s, NEW r, NEW naming, naming, Promised(done, s, r, naming), ~isName(Char(r))
  PROVE  InString(done, s, r)
<1>0. done \in Seq(KindSet)
  BY DEF Promised
<1>1. PICK K : Continues(s, K) /\ done \o Left(K, r, naming) = Program[1]
  BY DEF Promised
<1>2. Left(K, r, naming) = String(r).tokens \o K[String(r).to]
  BY Zenon DEF Left
<1>3. Continues(s, K) /\ done \o (String(r).tokens \o K[String(r).to]) = Program[1]
  BY <1>1, <1>2, Zenon
<1> QED
  BY <1>0, <1>3, Zenon DEF InString

(****************************************************************************)
(* The lexer: what it has made and what is left are the source's tokens.    *)
(****************************************************************************)
Kinds(tokens) == [i \in DOMAIN tokens |-> Kind(tokens[i].type, tokens[i].text)]

\* What is left where lexing goes on, as long as there was no error; and next
\* is the last token of the history.
NestInv ==
  /\ \/ lexed = <<>> /\ next.type = "ERROR"
     \/ lexed # <<>> /\ next = lexed[Len(lexed)]
  /\ ~hasError /\ TokenIsNew => Kept(Kinds(lexed), parens, currentChar, interpolating, next.type)

LEMMA SameKept ==
  ASSUME source' = source, NEW done, NEW s, NEW r, NEW naming, NEW type
  PROVE  Kept(done, s, r, naming, type)' <=> Kept(done, s, r, naming, type)
<1>0. KindSet' = KindSet /\ Runs' = Runs /\ \A t : Less(t)' = Less(t)
  <2>1. Glyph' = Glyph
    BY DEF Glyph, Char
  <2>2. KindSet' = KindSet
    BY <2>1 DEF KindSet
  <2>3. Runs' = Runs
    BY <2>2 DEF Runs
  <2> QED
    BY <2>2, <2>3 DEF Less
<1>1. Tokens' = Tokens /\ Program' = Program
  BY SamePieces
<1>2. \A p : Char(p)' = Char(p)
  BY DEF Char
<1>3. \A p : Code(p)' = Code(p) /\ String(p)' = String(p)
  BY <1>1 DEF Code, String
<1>4. \A p : NameRest(p)' = NameRest(p)
  BY <1>3 DEF NameRest, readName, Past, Char
<1>5. \A t, below, p : Closed(t, below, p)' = Closed(t, below, p)
  BY <1>2, <1>3 DEF Closed
<1>6. \A t, below : Onward(t, below)' = Onward(t, below)
  BY <1>3, <1>5 DEF Onward
<1>7. ASSUME NEW t, NEW K PROVE Continues(t, K)' <=> Continues(t, K)
  <2>1. ASSUME NEW m, NEW st, NEW k PROVE Chain(m, st, k)' <=> Chain(m, st, k)
    <3>1. \A i : Onward(st[i], k[i - 1])' = Onward(st[i], k[i - 1]) /\ Less(st[i])' = Less(st[i])
      BY <1>0, <1>6
    <3>2. (k[0] = Program)' <=> k[0] = Program
      BY <1>1
    <3>3. (\A i \in 1..m : st[i] # <<>> /\ st[i - 1] = Less(st[i]) /\ k[i] = Onward(st[i], k[i - 1]))'
            <=> \A i \in 1..m : st[i] # <<>> /\ st[i - 1] = Less(st[i]) /\ k[i] = Onward(st[i], k[i - 1])
      BY <3>1
    <3> QED
      BY <1>0, <3>2, <3>3 DEF Chain
  <2> QED
    BY <2>1 DEF Continues
<1>8. \A K : Left(K, r, naming)' = Left(K, r, naming)
  BY <1>2, <1>3, <1>4 DEF Left
<1>9. Promised(done, s, r, naming)' <=> Promised(done, s, r, naming)
  <2>1. (naming => ~isDigit(Char(r)))' <=> (naming => ~isDigit(Char(r)))
    BY <1>2
  <2>2. ASSUME NEW K
        PROVE  (Continues(s, K) /\ Left(K, r, naming) \in Seq(KindSet) /\ done \o Left(K, r, naming) = Program[1])'
                 <=> Continues(s, K) /\ Left(K, r, naming) \in Seq(KindSet) /\ done \o Left(K, r, naming) = Program[1]
    BY <1>0, <1>1, <1>7, <1>8
  <2> QED
    BY <1>0, <2>1, <2>2 DEF Promised
<1> QED
  BY <1>1, <1>9 DEF Kept

\* A token more in the history.
LEMMA KindsAppended ==
  ASSUME NEW A, NEW tokens \in Seq(A), NEW t, Kinds(tokens) \in Seq(KindSet), NEW k \in KindSet, k = Kind(t.type, t.text)
  PROVE  Kinds(Append(tokens, t)) = Kinds(tokens) \o <<k>>
<1> PICK n : n = Len(tokens)
  OBVIOUS
<1> PICK more : more = Append(tokens, t)
  OBVIOUS
<1>1. /\ n \in Nat /\ DOMAIN tokens = 1..n /\ DOMAIN more = 1..(n + 1)
      /\ \A i \in 1..n : more[i] = tokens[i]
      /\ more[n + 1] = t
  OBVIOUS
<1> PICK old : old = Kinds(tokens)
  OBVIOUS
<1>2. old = [i \in 1..n |-> Kind(tokens[i].type, tokens[i].text)] /\ old \in Seq(KindSet)
  BY <1>1 DEF Kinds
<1>3. Kinds(more) = [i \in 1..(n + 1) |-> Kind(more[i].type, more[i].text)]
  BY <1>1 DEF Kinds
<1>4. DOMAIN old = 1..n /\ Len(old) = n
  BY <1>1, <1>2
<1>5. old \o <<k>> = [i \in 1..(n + 1) |-> IF i = n + 1 THEN k ELSE old[i]]
  BY <1>1, <1>2, <1>4
<1>6. ASSUME NEW i \in 1..(n + 1)
      PROVE  Kind(more[i].type, more[i].text) = IF i = n + 1 THEN k ELSE old[i]
  <2>1. CASE i = n + 1
    BY <1>1, <2>1
  <2>2. CASE i # n + 1
    <3>1. i \in 1..n
      BY <1>1, <2>2
    <3> QED
      BY <1>1, <1>2, <2>2, <3>1
  <2> QED
    BY <2>1, <2>2
<1> QED
  BY <1>3, <1>5, <1>6

LEMMA PromiseHeld ==
  ASSUME NestInv, Lexing, ~hasError, TokenIsNew, IsText, currentChar \in Nat
  PROVE  Promised(Kinds(lexed), parens, currentChar, interpolating) /\ Kinds(lexed) \in Seq(KindSet)
<1>1. Kept(Kinds(lexed), parens, currentChar, interpolating, next.type)
  BY DEF NestInv
<1>2. currentChar <= Len(source) + 1
  BY Characters DEF Lexing, Beyond
<1>3. next.type # "EOF"
  BY DEF Lexing
<1>4. Promised(Kinds(lexed), parens, currentChar, interpolating)
  BY <1>1, <1>2, <1>3, Zenon DEF Kept
<1> QED
  BY <1>4, Zenon DEF Promised

\* A piece is the next token, and what is then left follows it.
Moves(piece) ==
  ~hasError /\ TokenIsNew /\ ~piece.error /\ (piece.type = "EOF" \/ piece.to <= Len(source) + 1) =>
    /\ piece.type \in Types /\ piece.text \in Seq(Glyph)
    /\ Kept(Kinds(lexed) \o One(piece.type, piece.text), parens', piece.to, interpolating', piece.type)

LEMMA NestAdvance ==
  ASSUME IInv, CutInv, NestInv, Lexing, NEW piece, NEW twice, Advance(piece, twice), Moves(piece)
  PROVE  NestInv'
<1>1. /\ source' = source /\ lexed' = Append(lexed, next') /\ currentChar' = piece.to
      /\ hasError' = (hasError \/ Start.error \/ piece.error)
      /\ next'.type = piece.type /\ next'.text = piece.text
  BY DEF Advance, Token
<1>2. PICK A : lexed \in Seq(A)
  BY DEF CutInv
<1> PICK old : old = lexed
  OBVIOUS
<1> PICK token : token = next'
  OBVIOUS
<1> PICK more : more = Append(old, token)
  OBVIOUS
<1>3. lexed' = more /\ old \in Seq(A) /\ token.type = piece.type /\ token.text = piece.text
  BY <1>1, <1>2
<1>4. /\ more # <<>> /\ Len(more) = Len(old) + 1 /\ more[Len(more)] = token /\ Len(old) \in Nat
      /\ \A i \in 1..Len(old) : more[i] = old[i]
  BY <1>2
<1>5. lexed' # <<>> /\ next' = lexed'[Len(lexed')]
  BY <1>3, <1>4
<1>6. ASSUME TokenIsNew' PROVE TokenIsNew
  <2>1. \A i \in 1..Len(more) : more[i].type # "ERROR" /\ (i > 1 => more[i] # more[i - 1])
    BY <1>3, <1>6 DEF TokenIsNew
  <2>2. ASSUME NEW i \in 1..Len(old) PROVE old[i].type # "ERROR" /\ (i > 1 => old[i] # old[i - 1])
    <3>1. i \in 1..Len(more) /\ (i > 1 => i - 1 \in 1..Len(old))
      BY <1>4
    <3> QED
      BY <1>4, <2>1, <3>1
  <2> QED
    BY <2>2 DEF TokenIsNew
<1>7. ASSUME ~hasError', TokenIsNew'
      PROVE  Kept(Kinds(lexed), parens, currentChar, interpolating, next.type)'
  <2>1. ~hasError /\ TokenIsNew /\ ~piece.error
    BY <1>1, <1>6, <1>7
  <2>2. CASE piece.type = "EOF" \/ piece.to <= Len(source) + 1
    <3>1. /\ piece.type \in Types /\ piece.text \in Seq(Glyph)
          /\ Kept(Kinds(old) \o One(piece.type, piece.text), parens', piece.to, interpolating', piece.type)
      BY <2>1, <2>2 DEF Moves
    <3>2. Kinds(old) \in Seq(KindSet)
      BY <2>1, PromiseHeld DEF IInv
    <3>3. Kinds(more) = Kinds(old) \o One(piece.type, piece.text)
      <4>1. Kind(piece.type, piece.text) \in KindSet
        BY <3>1, KindType
      <4> QED
        BY <1>3, <3>2, <4>1, KindsAppended DEF One
    <3> PICK d, s, r, n : d = Kinds(more) /\ s = parens' /\ r = piece.to /\ n = interpolating'
      OBVIOUS
    <3>4. Kept(d, s, r, n, piece.type)
      BY <3>1, <3>3
    <3>5. Kept(d, s, r, n, piece.type)'
      BY <1>1, <3>4, SameKept
    <3>6. d = Kinds(lexed)'
      BY <1>3 DEF Kinds
    <3> QED
      BY <1>1, <3>5, <3>6
  <2>3. CASE ~(piece.type = "EOF" \/ piece.to <= Len(source) + 1)
    BY <1>1, <2>3 DEF Kept
  <2> QED
    BY <2>2, <2>3
<1> QED
  BY <1>5, <1>7 DEF NestInv

\* A part of a string is the next token.
LEMMA NestString ==
  ASSUME IInv, CutInv, NestInv, Lexing, NEW p \in Nat \ {0}, NEW open \in Seq(Nat), NEW twice, StringPart(p, open, twice),
         ~hasError /\ TokenIsNew => InString(Kinds(lexed), open, p)
  PROVE  NestInv'
<1> DEFINE room == Len(open) < MAX_INTERPOLATION_NESTING
<1> PICK y : y = readString(p, room)
  OBVIOUS
<1>1. room \in BOOLEAN
  OBVIOUS
<1>2. y \in Pieces /\ Matches(p, y)
  <2> HIDE DEF room
  <2> QED
    BY <1>1, PartMatches DEF IInv
<1> PICK piece : piece = [y EXCEPT !.start = Start.to]
  OBVIOUS
<1>3. piece.type = y.type /\ piece.to = y.to /\ piece.error = y.error /\ piece.text = y.text /\ y.type # "EOF"
  BY <1>2 DEF Pieces
<1>4. /\ Advance(piece, twice)
      /\ parens' = Opened(open, y.type, y.to)
      /\ interpolating' = Named(y.type, y.to)
  BY DEF StringPart, Opened, Named
<1> HIDE DEF room
<1>5. ASSUME ~hasError, TokenIsNew, ~y.error, y.to <= Len(source) + 1
      PROVE  /\ y.type \in Types /\ y.text \in Seq(Glyph)
             /\ Kept(Kinds(lexed) \o One(y.type, y.text), Opened(open, y.type, y.to), y.to, Named(y.type, y.to), y.type)
  <2>1. InString(Kinds(lexed), open, p) /\ IsText
    BY <1>5 DEF IInv
  <2>2. Promised(Kinds(lexed) \o One(y.type, y.text), Opened(open, y.type, y.to), y.to, Named(y.type, y.to))
    BY <1>2, <1>5, <2>1, StringStep
  <2>3. y.type \in Types /\ y.text \in Seq(Glyph)
    BY <1>2, <1>5, TypeNames DEF Matches, Pieces
  <2> QED
    BY <1>3, <2>2, <2>3, Zenon DEF Kept
<1>6. Moves(piece)
  BY <1>3, <1>4, <1>5, Zenon DEF Moves
<1> QED
  BY <1>4, <1>6, NestAdvance

LEMMA InitNest == ASSUME Init PROVE NestInv
<1>1. next.type = "ERROR" /\ lexed = <<>> /\ parens = <<>> /\ interpolating = FALSE /\ currentChar = 1 /\ IsText
  BY InitIInv DEF Init, Token, IInv
<1>2. Kinds(<<>>) = <<>>
  BY DEF Kinds
<1>3. Left(Program, 1, interpolating) = Program[1]
  BY <1>1 DEF Left
<1>4. Program[1] \in Seq(KindSet)
  BY <1>1, ProgramType
<1>5. <<>> \o Program[1] = Program[1]
  BY <1>4, Joining
<1>6. Continues(<<>>, Program)
  BY <1>1, ContinuesTop
<1>7. Promised(<<>>, <<>>, 1, interpolating)
  BY <1>1, <1>3, <1>4, <1>5, <1>6, NoText DEF Promised
<1> QED
  BY <1>1, <1>2, <1>7 DEF NestInv, Kept

\* Where the token that a call makes begins.
LEMMA StartBegins ==
  ASSUME IInv
  PROVE  /\ Start.to \in Nat /\ Start.to + 1 \in Nat \ {0} /\ currentChar \in Nat /\ IsText
         /\ Nested(parens) /\ parens \in Seq(Nat)
         /\ (interpolating => Start.to = currentChar) /\ (~interpolating => Begins(currentChar, Start.to))
<1>1. Start.to \in Nat /\ Start.to + 1 \in Nat \ {0}
  BY StartFurther
<1> QED
  BY <1>1 DEF IInv, Nested, Start, Begins

LEMMA NestEnd ==
  ASSUME IInv, CutInv, NestInv, EndOfSource
  PROVE  NestInv'
<1> PICK piece : piece = Piece("EOF", Start.to, Start.to, FALSE, 0, <<>>)
  OBVIOUS
<1>1. piece.type = "EOF" /\ piece.text = <<>> /\ Lexing /\ Char(Start.to) = NUL /\ Advance(piece, 0)
  BY DEF EndOfSource, Simple, Piece
<1>2. ASSUME ~hasError, TokenIsNew PROVE Kinds(lexed) \o One("EOF", <<>>) = Program[1]
  <2>1. Promised(Kinds(lexed), parens, currentChar, interpolating)
    BY <1>1, <1>2, StartBegins, PromiseHeld
  <2> QED
    BY <1>1, <2>1, StartBegins, EndStep, Zenon
<1>3. "EOF" \in Types /\ <<>> \in Seq(Glyph)
  BY TypeNames, NoText
<1>4. Moves(piece)
  BY <1>1, <1>2, <1>3, Zenon DEF Moves, Kept
<1> QED
  BY <1>1, <1>4, NestAdvance

\* A token that is its own, and leaves the nesting as it is.
LEMMA NestLeaf ==
  ASSUME IInv, CutInv, NestInv, Lexing, ~interpolating, Char(Start.to) \notin {NUL, BRACE, CLOSING},
         Char(Start.to) = QUOTE => TripleQuote(Start.to), Simple(Leaf(Start.to)), Leaf(Start.to).type # "EOF"
  PROVE  NestInv'
<1> PICK piece : piece = Leaf(Start.to)
  OBVIOUS
<1>1. Advance(piece, 0) /\ parens' = parens /\ interpolating' = interpolating /\ piece.type # "EOF"
  BY DEF Simple
<1>2. piece.type \in Types /\ piece.text \in Seq(Glyph)
  BY StartBegins, LeafIs
<1>3. ASSUME ~hasError, TokenIsNew
      PROVE  Promised(Kinds(lexed) \o One(piece.type, piece.text), parens, piece.to, interpolating)
  <2>1. Promised(Kinds(lexed), parens, currentChar, interpolating)
    BY <1>3, StartBegins, PromiseHeld
  <2> QED
    BY <2>1, StartBegins, LeafStep
<1>4. Moves(piece)
  BY <1>1, <1>2, <1>3, Zenon DEF Moves, Kept
<1> QED
  BY <1>1, <1>4, NestAdvance

LEMMA NestResume ==
  ASSUME IInv, CutInv, NestInv, ResumeAfterName
  PROVE  NestInv'
<1>1. /\ Lexing /\ interpolating /\ Char(currentChar) # NUL /\ ~isName(Char(currentChar))
      /\ StringPart(currentChar, parens, Again(currentChar))
  BY DEF ResumeAfterName
<1>2. currentChar \in Nat \ {0}
  BY <1>1, StartBegins, Characters
<1>3. ASSUME ~hasError, TokenIsNew PROVE InString(Kinds(lexed), parens, currentChar)
  <2>1. Promised(Kinds(lexed), parens, currentChar, interpolating)
    BY <1>1, <1>3, StartBegins, PromiseHeld
  <2> QED
    BY <1>1, <2>1, ResumeStep, Zenon
<1> QED
  BY <1>1, <1>2, <1>3, StartBegins, NestString

LEMMA NestOpenString ==
  ASSUME IInv, CutInv, NestInv, OpenString
  PROVE  NestInv'
<1>1. /\ Lexing /\ ~interpolating /\ Char(Start.to) = QUOTE /\ ~TripleQuote(Start.to)
      /\ StringPart(Start.to + 1, parens, 0)
  BY DEF OpenString
<1>2. ASSUME ~hasError, TokenIsNew PROVE InString(Kinds(lexed), parens, Start.to + 1)
  <2>1. Promised(Kinds(lexed), parens, currentChar, interpolating)
    BY <1>1, <1>2, StartBegins, PromiseHeld
  <2> QED
    BY <1>1, <2>1, StartBegins, QuoteStep
<1> QED
  BY <1>1, <1>2, StartBegins, NestString

LEMMA NestOpenBrace ==
  ASSUME IInv, CutInv, NestInv, OpenBrace
  PROVE  NestInv'
<1> PICK piece : piece = Symbol(Start.to)
  OBVIOUS
<1>1. /\ Lexing /\ ~interpolating /\ Char(Start.to) = BRACE /\ Advance(piece, 0)
      /\ parens' = More(parens) /\ interpolating' = interpolating
  BY DEF OpenBrace, More
<1>2. piece.to = Start.to + 1 /\ piece.text = <<>> /\ piece.type = "LBRACE"
  BY <1>1, StartBegins, BraceSymbols
<1>3. "LBRACE" \in Types /\ <<>> \in Seq(Glyph) /\ "LBRACE" # "EOF"
  BY TypeNames, NoText
<1>4. ASSUME ~hasError, TokenIsNew
      PROVE  Promised(Kinds(lexed) \o One("LBRACE", <<>>), More(parens), Start.to + 1, interpolating)
  <2>1. Promised(Kinds(lexed), parens, currentChar, interpolating)
    BY <1>1, <1>4, StartBegins, PromiseHeld
  <2> QED
    BY <1>1, <2>1, StartBegins, OpenStep
<1>5. Moves(piece)
  BY <1>1, <1>2, <1>3, <1>4, Zenon DEF Moves, Kept
<1> QED
  BY <1>1, <1>5, NestAdvance

LEMMA NestCloseBrace ==
  ASSUME IInv, CutInv, NestInv, CloseBrace
  PROVE  NestInv'
<1>1. Lexing /\ ~interpolating /\ Char(Start.to) = CLOSING
  BY DEF CloseBrace
<1>2. ASSUME ~hasError, TokenIsNew
      PROVE  IF Inner(parens) THEN InString(Kinds(lexed), Less(parens), Start.to + 1)
             ELSE Promised(Kinds(lexed) \o One("RBRACE", <<>>), Less(parens), Start.to + 1, interpolating)
  <2>1. Promised(Kinds(lexed), parens, currentChar, interpolating)
    BY <1>1, <1>2, StartBegins, PromiseHeld
  <2> QED
    BY <1>1, <2>1, StartBegins, CloseStep
<1>3. CASE Inner(parens)
  <2>1. StringPart(Start.to + 1, Less(parens), 0)
    BY <1>3, Zenon DEF CloseBrace, Inner, Less
  <2>2. Less(parens) \in Seq(Nat)
    <3>1. Less(parens) = SubSeq(parens, 1, Len(parens) - 1)
      BY <1>3, Zenon DEF Less, Inner
    <3>2. \A s \in Seq(Nat) : SubSeq(s, 1, Len(s) - 1) \in Seq(Nat)
      OBVIOUS
    <3> QED
      BY <3>1, <3>2, StartBegins
  <2> QED
    BY <1>1, <1>2, <1>3, <2>1, <2>2, StartBegins, NestString
<1>4. CASE ~Inner(parens)
  <2> PICK piece : piece = Symbol(Start.to)
    OBVIOUS
  <2>1. Advance(piece, 0) /\ parens' = Less(parens) /\ interpolating' = interpolating
    BY <1>4 DEF CloseBrace, Inner, Less
  <2>2. piece.to = Start.to + 1 /\ piece.text = <<>> /\ piece.type = "RBRACE"
    BY <1>1, StartBegins, BraceSymbols
  <2>3. "RBRACE" \in Types /\ <<>> \in Seq(Glyph) /\ "RBRACE" # "EOF"
    BY TypeNames, NoText
  <2>4. Moves(piece)
    BY <1>2, <1>4, <2>1, <2>2, <2>3, Zenon DEF Moves, Kept
  <2> QED
    BY <1>1, <2>1, <2>4, NestAdvance
<1> QED
  BY <1>3, <1>4

LEMMA NestWord ==
  ASSUME IInv, CutInv, NestInv, Word
  PROVE  NestInv'
<1>1. Lexing
  BY DEF Word
<1>2. /\ readName(Start.to).type \in {"ID", "KEYWORD"} /\ readName(Start.to).text = <<>>
      /\ Number(Start.to).type = "NUMBER_CONST"
  BY DEF readName, Number, Based, readNumber, Piece
<1>3. CASE ~interpolating
  <2>1. Char(Start.to) \in Names \cup Digits
    BY DEF Word, isName, isDigit
  <2>2. Char(Start.to) \notin {NUL, BRACE, CLOSING, QUOTE}
    BY <2>1, Apart
  <2>3. Simple(Leaf(Start.to)) /\ Leaf(Start.to).type # "EOF"
    BY <1>2, <2>2, StartBegins, LeafIs DEF Word
  <2> QED
    BY <1>1, <1>3, <2>2, <2>3, NestLeaf
<1>4. CASE interpolating /\ isName(Char(Start.to)) /\ Simple(readName(Start.to))
  <2> PICK piece : piece = readName(currentChar)
    OBVIOUS
  <2>1. Start.to = currentChar /\ Advance(piece, 0) /\ parens' = parens /\ interpolating' = interpolating
    BY <1>4 DEF Simple, Start
  <2>2. piece.type \in Types /\ piece.text = <<>> /\ piece.type # "EOF" /\ <<>> \in Seq(Glyph)
    BY <1>2, <2>1, TypeNames, NoText
  <2>3. ASSUME ~hasError, TokenIsNew
        PROVE  Promised(Kinds(lexed) \o One(piece.type, <<>>), parens, piece.to, interpolating)
    <3>1. Promised(Kinds(lexed), parens, currentChar, interpolating)
      BY <1>1, <2>3, StartBegins, PromiseHeld
    <3> QED
      BY <1>4, <2>1, <3>1, StartBegins, NameStep
  <2>4. Moves(piece)
    BY <2>1, <2>2, <2>3, Zenon DEF Moves, Kept
  <2> QED
    BY <1>1, <2>1, <2>4, NestAdvance
<1>5. CASE interpolating /\ isDigit(Char(Start.to)) /\ Simple(Number(Start.to))
  <2> PICK piece : piece = Number(Start.to)
    OBVIOUS
  <2>1. Start.to = currentChar /\ Advance(piece, 0) /\ piece.type # "EOF"
    BY <1>2, <1>5 DEF Simple, Start
  <2>2. ASSUME ~hasError, TokenIsNew PROVE FALSE
    <3>1. Promised(Kinds(lexed), parens, currentChar, interpolating)
      BY <1>1, <2>2, StartBegins, PromiseHeld
    <3> QED
      BY <1>5, <2>1, <3>1 DEF Promised
  <2>3. Moves(piece)
    BY <2>2 DEF Moves
  <2> QED
    BY <1>1, <2>1, <2>3, NestAdvance
<1> QED
  BY <1>3, <1>4, <1>5 DEF Word

LEMMA NextNest == ASSUME IInv, CutInv, NestInv, [Next]_vars PROVE NestInv'
<1>1. CASE RawString
  <2>1. Lexing /\ ~interpolating /\ TripleQuote(Start.to) /\ Simple(readRawString(Start.to))
    BY <1>1 DEF RawString
  <2>2. Char(Start.to) = QUOTE /\ Char(Start.to) \notin {NUL, BRACE, CLOSING}
    BY <2>1, Apart DEF TripleQuote
  <2>3. readRawString(Start.to).type = "STRING_CONST"
    BY DEF readRawString, Piece
  <2>4. Leaf(Start.to) = readRawString(Start.to)
    BY <2>1, <2>2, StartBegins, LeafIs
  <2> QED
    BY <2>1, <2>2, <2>3, <2>4, NestLeaf
<1>2. CASE Punctuation
  <2>1. /\ Lexing /\ ~interpolating /\ Char(Start.to) \notin {BRACE, CLOSING} /\ Fits(Start.to) # {}
        /\ Simple(Symbol(Start.to))
    BY <1>2 DEF Punctuation
  <2>2. Char(Start.to) \notin {NUL, QUOTE}
    BY <2>1, StartBegins, SymbolIs
  <2>3. Leaf(Start.to) = Symbol(Start.to)
    BY <2>1, <2>2, StartBegins, LeafIs
  <2>4. Symbol(Start.to).type # "EOF"
    <3>1. PICK s \in Fits(Start.to) : Symbol(Start.to).type = s[2]
      BY <2>1, StartBegins, SymbolFits
    <3>2. \A t \in Symbols : t[2] # "EOF"
      BY DEF Symbols
    <3>3. s[2] # "EOF"
      BY <3>2 DEF Fits
    <3> QED
      BY Zenon, <3>1, <3>3
  <2> QED
    BY <2>1, <2>2, <2>3, <2>4, NestLeaf
<1>3. CASE LoneQuestion
  <2>1. lexed' = Append(lexed, next) /\ next' = next
    BY <1>3 DEF LoneQuestion
  <2>2. PICK A : lexed \in Seq(A)
    BY DEF CutInv
  <2> PICK old, token : old = lexed /\ token = next
    OBVIOUS
  <2> PICK more : more = Append(old, token)
    OBVIOUS
  <2>3. /\ lexed' = more /\ more # <<>> /\ Len(more) = Len(old) + 1 /\ more[Len(more)] = token /\ Len(old) \in Nat
        /\ \A i \in 1..Len(old) : more[i] = old[i]
    BY <2>1, <2>2
  <2>4. ~TokenIsNew'
    <3> SUFFICES ASSUME TokenIsNew' PROVE FALSE
      OBVIOUS
    <3>1. \A i \in 1..Len(more) : more[i].type # "ERROR" /\ (i > 1 => more[i] # more[i - 1])
      BY <2>3 DEF TokenIsNew
    <3>2. Len(more) \in 1..Len(more)
      BY <2>3
    <3>3. CASE old = <<>> /\ token.type = "ERROR"
      BY <2>3, <3>1, <3>2, <3>3
    <3>4. CASE old # <<>> /\ token = old[Len(old)]
      <4>1. Len(old) \in 1..Len(old) /\ Len(more) > 1 /\ Len(more) - 1 = Len(old)
        BY <2>2, <2>3, <3>4
      <4> QED
        BY <2>3, <3>1, <3>2, <3>4, <4>1
    <3> QED
      BY <3>3, <3>4 DEF NestInv
  <2> QED
    BY <2>1, <2>3, <2>4 DEF NestInv
<1>4. CASE InvalidCharacter
  <2>1. lexed' = Append(lexed, next') /\ hasError' = TRUE
    BY <1>4 DEF InvalidCharacter
  <2>2. PICK A : lexed \in Seq(A)
    BY DEF CutInv
  <2> PICK old, token : old = lexed /\ token = next'
    OBVIOUS
  <2>3. Append(old, token) # <<>> /\ Append(old, token)[Len(Append(old, token))] = token
    BY <2>2
  <2>4. hasError'
    BY <2>1
  <2>5. lexed' # <<>> /\ next' = lexed'[Len(lexed')]
    BY <2>1, <2>3
  <2> QED
    BY <2>4, <2>5 DEF NestInv
<1>5. CASE Drain \/ UNCHANGED vars
  <2>1. /\ source' = source /\ currentChar' = currentChar /\ parens' = parens /\ interpolating' = interpolating
        /\ next' = next /\ hasError' = hasError /\ lexed' = lexed
    BY <1>5 DEF Drain, vars
  <2>2. ASSUME ~hasError', TokenIsNew'
        PROVE  Kept(Kinds(lexed), parens, currentChar, interpolating, next.type)'
    <3>1. TokenIsNew
      BY <2>1, <2>2 DEF TokenIsNew
    <3>2. Kept(Kinds(lexed), parens, currentChar, interpolating, next.type)
      BY <2>1, <2>2, <3>1 DEF NestInv
    <3> PICK d, s, r, n, t : d = Kinds(lexed) /\ s = parens /\ r = currentChar /\ n = interpolating /\ t = next.type
      OBVIOUS
    <3>3. Kept(d, s, r, n, t)
      BY <3>2
    <3>4. Kept(d, s, r, n, t)'
      BY <2>1, <3>3, SameKept
    <3>5. d = Kinds(lexed)'
      BY <2>1 DEF Kinds
    <3> QED
      BY <2>1, <3>4, <3>5
  <2> QED
    BY <2>1, <2>2 DEF NestInv
<1> QED
  BY <1>1, <1>2, <1>3, <1>4, <1>5, NestEnd, NestResume, NestOpenBrace, NestCloseBrace, NestOpenString, NestWord
     DEF Next, NextToken

\* In every source lexed without an error, however deep its strings and
\* interpolations are nested, nextToken's one stack of counts makes exactly the
\* tokens the nesting defines: no brace of a map or a block ends an
\* interpolation, none that ends one is taken for another, and after each `}`
\* and each name the string goes on where it stopped.
THEOREM TokensNested == Spec => []TokensNest
<1>1. NestInv => TokensNest
  BY DEF NestInv, Kept, TokensNest, Kinds
<1> QED
  BY <1>1, InitIInv, NextIInv, InitCut, NextCut, InitNest, NextNest, PTL DEF Spec
===============================================================================
