------------------------------ MODULE MCParser ------------------------------
(* An instance of Parser for TLC: every text of a few pieces of each of some *)
(* alphabets, one for each part of the lexer.                                *)
EXTENDS StringNesting, SequencesExt

Texts(first, pieces, n) == {FlattenSeq(<<first>> \o t) : t \in BoundedSeq(pieces, n)}
Quote == <<"\"">>

Nested   == Texts(Quote, {Quote, <<"$", "{">>, <<"{">>, <<"}">>}, 7)
Named    == Texts(Quote, {Quote, <<"$", "{">>, <<"$", "a">>, <<"}">>}, 6)
Quoted   == Texts(Quote, {Quote, <<"\\">>, <<"x">>, <<"a">>, <<"\n">>, <<"$", "{">>, <<"}">>}, 4)
Numerals == Texts(<<>>, {<<"0">>, <<"9">>, <<"x">>, <<"b">>, <<"o">>, <<"e">>, <<".">>, <<"-">>, <<"\n">>}, 4)
Comments == Texts(<<"#">>, {<<"#">>, <<"*">>, <<"\n">>, <<"a">>, Quote}, 5)
Raw      == Texts(<<"\"", "\"", "\"">>, {<<"\"", "\"", "\"">>, <<"\n">>, <<" ">>, <<"a">>, <<"\r">>, Quote}, 5)
Signs    == Texts(<<>>, {<<"=">>, <<">">>, <<"<">>, <<"!">>, <<"&">>, <<"?">>, <<".">>, <<"-">>, <<" ">>, <<"~">>, <<"a">>, <<"b">>}, 3)

MCSources == Nested \cup Named \cup Quoted \cup Numerals \cup Comments \cup Raw \cup Signs
MCKeywords == {<<"a", "b">>}
===========================================================================
