------------------------------ MODULE MCScripts ------------------------------
(***************************************************************************)
(* Every short script over four alphabets - commands, quotes and braces,   *)
(* variables, lines -, and every parse of one script, another, and the     *)
(* first again.                                                            *)
(***************************************************************************)
EXTENDS ScriptProperties

UpTo(set, n) == UNION {[1..k -> set] : k \in 0..n}

CommandScripts == UpTo({"letter", "blank", "semicolon", "hash", "newline", "openBrace"}, 5)
                  \union UpTo({"letter", "quote", "openBrace", "closeBrace", "backslash", "newline"}, 5)
VariableScripts ==
  {<<"dollar">> \o s : s \in UpTo({"letter", "other", "openBrace", "closeBrace", "openParen",
                                   "closeParen", "blank"}, 4)}
LineScripts ==
  {<<"openBracket">> \o s : s \in UpTo({"newline", "closeBracket", "letter", "quote"}, 4)}
  \union {<<"openBrace">> \o s \o <<"closeBrace", "letter">> : s \in UpTo({"newline", "return", "backslash"}, 3)}
  \union UpTo({"letter", "backslash", "return", "newline", "blank"}, 4)
Expansion == <<"openBrace", "star", "closeBrace">>
ExpandScripts == {Expansion \o s : s \in UpTo({"letter", "quote", "semicolon", "hash", "blank",
                                               "openBrace", "closeBrace"}, 2)}
                 \union {Expansion \o Expansion \o s : s \in UpTo({"letter"}, 1)}

Once == CommandScripts \union VariableScripts \union LineScripts \union ExpandScripts

\* Scripts that end in every state of the lexer.
Some == {<<"letter">>, <<"letter", "semicolon", "hash">>, <<"openBrace", "letter">>,
         <<"openBrace", "openBrace", "closeBrace">>, <<"openBrace", "letter", "closeBrace">>,
         <<"letter", "openBracket">>, <<"letter", "newline", "quote">>, <<"letter", "closeBrace">>,
         <<"letter", "blank", "backslash">>, Expansion, Expansion \o <<"closeBrace">>,
         <<"hash", "letter">>, <<"dollar", "letter", "semicolon">>}

MCSessions == {<<s>> : s \in Once} \union {<<s, t, s>> : s, t \in Some}

\* A bracket in a comment, closed, and with all else in it or behind it.
CommentSessions == {<<<<"hash", "openBracket">> \o s \o <<"closeBracket">>>> :
                      s \in UpTo({"letter", "blank", "newline"}, 2)}

\* A script with a body in braces, behind which a bracket is closed in a quote only,
\* and then that body, which is empty.
EmptySessions == {<<<<"letter", "blank", "openBrace">> \o body \o
                     <<"closeBrace", "newline", "letter", "openBracket", "letter", "quote", "closeBracket">>,
                    body>> : body \in {<<>>, <<"blank">>}}

MCOrigin == [line |-> 3, column |-> 5]

==============================================================================
