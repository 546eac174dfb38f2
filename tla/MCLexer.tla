------------------------------ MODULE MCLexer -------------------------------
(***************************************************************************)
(* Source files for the lexer: every sequence of up to three words that make *)
(* tokens, touching or apart, of up to four of those that need a break       *)
(* between them, of up to four that make comments, strings and breaks, and of *)
(* up to six of those that nest.                                             *)
(***************************************************************************)
EXTENDS Lexer

If == <<"i", "f">>
Args == <<"a", "r", "g", "s">>

\* LexToken.mll: a keyword and the only reserved name.
MCKeywords == {If}
MCReserved == {Args}

TokenWords ==
    {If, Args, <<"x">>, <<"0">>, <<"1">>, <<"n">>, <<"0", "x">>, <<"A">>, <<"-">>,
     <<" ">>, <<"\n">>, <<"\"">>}
BreakingWords == {If, <<"x">>, <<"1">>, <<"0", "x">>, <<" ">>, <<"\n">>, <<"\"">>}
OtherTexts ==
    {BOM, BOM \o <<"x">>, <<"x">> \o BOM, <<"\t", "\t", "1">>, <<"0", "m", "t", "z">>,
     <<"0", "0", "m", "t", "z">>, <<"?">>, <<"\"", "\t">>, <<"=", "/", "=">>, <<"-", ">">>,
     <<"-", "0", "x", "A", "A">>}

CommentWords ==
    {<<"(", "*">>, <<"*", ")">>, <<"\"">>, <<"\\">>, <<"/", "/">>, <<"\n">>}
NestingWords == {<<"(", "*">>, <<"*", ")">>, <<"\"">>}
ReturnTexts ==
    {<<"(", "*", "\r", "\n", "*", ")", "x">>, <<"/", "/", "\r", "\n", "x">>,
     <<"\r", "\r", "\n", "\"", "\"">>, <<"\"", "\r", "\n">>}

TextsOf(words, n) == {FlattenSeq(w) : w \in BoundedSeq(words, n)}

TokenTexts == TextsOf(TokenWords, 3)
AllTexts == TokenTexts \union TextsOf(BreakingWords, 4) \union OtherTexts
              \union TextsOf(CommentWords, 4) \union TextsOf(NestingWords, 6)
              \union ReturnTexts
=============================================================================
