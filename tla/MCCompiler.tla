---------------------------- MODULE MCCompiler ----------------------------
(* An instance of Compiler for TLC: every script of a few phrases in each   *)
(* of some parts of the language.                                           *)
EXTENDS Compiler

Name(x) == [type |-> "name", name |-> x]
Rest(x) == [type |-> "rest", name |-> x]
ArrayPattern  == [type |-> "array",  items |-> <<Name("a"), Rest("b")>>]
ObjectPattern == [type |-> "object", items |-> <<Name("a"), Rest("b")>>]
NestedPattern == [type |-> "array",  items |-> <<ObjectPattern>>]

\* A grammar in which every phrase of `free` costs nothing and every other 1.
Part(free, priced, bound, patterns, lists) ==
  [cost |-> [k \in free \cup priced |-> IF k \in free THEN 0 ELSE 1], budget |-> bound,
   patterns |-> patterns, lists |-> lists]
Plainest == {"name", "empty", "expression", "statement", "line"}

Operators == Part(Plainest, {"TRUE", "NULL", "literal", "unary", "infix", "and", "nullish", "null check",
                             "getter", "setter", "subscript", "call", "function call", "list", "map", "interpolation",
                             "assign", "if expression"}, 3, {}, {<<>>})
Scopes    == Part(Plainest, {"lines", "var", "assign", "block", "if", "if expression", "while", "break"}, 5, {}, {<<>>})
Loops     == Part(Plainest, {"lines", "for", "for step", "break", "var", "call"}, 4, {Name("a"), ArrayPattern}, {<<>>})
Patterns  == Part(Plainest, {"lines", "pattern", "function", "block"}, 6, {ArrayPattern, ObjectPattern, NestedPattern},
                  {<<ArrayPattern>>, <<ObjectPattern>>, <<Name("a"), Name("b")>>, <<Name("b"), NestedPattern>>})
Functions == Part(Plainest, {"lines", "function", "call", "var", "block"}, 4, {}, {<<>>, <<Name("a")>>})
Whens     == Part(Plainest, {"lines", "when", "branch", "block", "break", "while"}, 6, {}, {<<>>})
Breaks    == Part({"literal", "empty", "expression", "statement", "line"},
                  {"lines", "if expression", "if", "while", "break", "block"}, 5, {}, {<<>>})
Captures  == Part(Plainest, {"lines", "when", "branch", "call", "assign", "var"}, 4, {}, {<<>>})
ClassPart == Part(Plainest \cup {"this"}, {"class", "empty class", "field", "static field", "method", "extern method",
                                           "constructor", "attribute", "getter", "setter", "super", "extension",
                                           "import", "return", "lines"}, 5, {}, {<<>>, <<Name("a")>>})

MCGrammars == {Operators, Scopes, Loops, Patterns, Functions, Whens, Breaks, Captures, ClassPart}

\* The parts that show what the runs on methods and on operands find.
MethodGrammars  == {ClassPart}
OperandGrammars == {Captures}
===========================================================================
