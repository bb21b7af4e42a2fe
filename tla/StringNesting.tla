---------------------------- MODULE StringNesting ----------------------------
(****************************************************************************)
(* What the tokens of a source are, by recursion on its nesting: code is a  *)
(* sequence of tokens, strings and pairs of braces around code, and a       *)
(* string a sequence of characters, names after `$` and code in `${` `}`.   *)
(* nextToken, which recurses on nothing, must agree.                        *)
(****************************************************************************)
EXTENDS Parser

Kind(type, text) == [type |-> type, text |-> text]
Leaf(p) == CASE TripleQuote(p) -> readRawString(p)
             [] isName(Char(p)) -> readName(p)
             [] isDigit(Char(p)) -> Number(p)
             [] Fits(p) # {} -> Symbol(p)
             [] OTHER -> Piece("ERROR", p, p + 1, TRUE, 0, <<>>)

\* Some tokens and where they end.
Found(to, tokens)    == [to |-> to, tokens |-> tokens]
Before(tokens, rest) == Found(rest.to, tokens \o rest.tokens)
Prefixed(char, rest) ==
  LET first == rest.tokens[1]
  IN IF rest.tokens = <<>> THEN rest
     ELSE Before(<<Kind(first.type, <<char>> \o first.text)>>, Found(rest.to, Tail(rest.tokens)))

\* The tokens from p on, if those from any later position are `read`: of code,
\* which ends at a `}` that closes nothing in it,
CodeAt(read, p) ==
  LET q == skipped[p][0].to
  IN CASE Char(q) \in {CLOSING, NUL} -> Found(q, <<>>)
       [] Char(q) = BRACE ->
            LET inner == read[q + 1]["code"]
                open  == <<Kind("LBRACE", <<>>)>> \o inner.tokens
            IN IF Char(inner.to) = CLOSING
               THEN Before(Append(open, Kind("RBRACE", <<>>)), read[inner.to + 1]["code"])
               ELSE Found(inner.to, open)
       [] Char(q) = QUOTE /\ ~TripleQuote(q) ->
            LET string == read[q + 1]["string"] IN Before(string.tokens, read[string.to]["code"])
       [] OTHER -> LET leaf == Leaf(q) IN Before(<<Kind(leaf.type, leaf.text)>>, read[leaf.to]["code"])

\* and of a string, which ends after its quote; both end with the source.
PartAt(read, p) ==
  CASE Char(p) = NUL -> Found(p, <<>>)
    [] Char(p) = QUOTE -> Found(p + 1, <<Kind("STRING_CONST", <<>>)>>)
    [] Char(p) = "\r" -> read[p + 1]["string"]
    [] Char(p) = "$" /\ isName(Char(p + 1)) ->
         LET leaf == readName(p + 1)
         IN Before(<<Kind("DOLLAR_INTERPOL", <<>>)>>, Before(<<Kind(leaf.type, <<>>)>>, read[leaf.to]["string"]))
    [] Char(p) = "$" /\ Char(p + 1) = BRACE ->
         LET inner == read[p + 2]["code"]
             part  == <<Kind("DOLLAR_INTERPOL", <<>>)>> \o inner.tokens
         IN IF Char(inner.to) = CLOSING THEN Before(part, read[inner.to + 1]["string"])
            ELSE Found(inner.to, part)
    [] OTHER ->
         Prefixed(Char(p), read[IF Char(p) = "\\" THEN Escape(p).to ELSE p + 1]["string"])

Tokens ==
  LET read[p \in Nat] == [how \in {"code", "string"} |-> IF how = "code" THEN CodeAt(read, p) ELSE PartAt(read, p)]
  IN read

\* The tokens of the whole source: at the top a `}` that closes nothing is a token.
Program ==
  LET program[p \in Nat] ==
        LET code == Tokens[p]["code"]
        IN IF Char(code.to) = CLOSING THEN Append(code.tokens, Kind("RBRACE", <<>>)) \o program[code.to + 1]
           ELSE Append(code.tokens, Kind("EOF", <<>>))
  IN program

\* A source lexed without an error has the tokens its nesting says: strings in
\* interpolations in strings, maps and blocks in interpolations, names after
\* `$` directly before quotes, braces or further interpolations.
TokensNest ==
  next.type = "EOF" /\ ~hasError /\ TokenIsNew
    => [i \in DOMAIN lexed |-> Kind(lexed[i].type, lexed[i].text)] = Program[1]
===============================================================================
