------------------------------- MODULE MCAuth -------------------------------
(***************************************************************************)
(* Auth with configurations that differ in what the properties tell apart, *)
(* and error texts around the limit.                                       *)
(***************************************************************************)
EXTENDS Auth

Config(tls, plain, deadline, hb, hbs) ==
    [tls |-> tls, plain |-> plain, deadline |-> deadline, hb |-> hb, hbs |-> hbs]

MCConfigs ==
    {Config(<<>>, TRUE, TRUE, 5, <<>>),
     Config(<<>>, FALSE, FALSE, 0, <<>>),
     Config(<<[name |-> "other", min |-> 0]>>, TRUE, TRUE, 0, <<5, 0>>),
     Config(<<[name |-> "", min |-> 769]>>, FALSE, FALSE, 5, <<0, 0>>)}

\* One rune of each escape and size: a, backslash, line feed, an invalid byte,
\* next line, CJK, right-to-left override, tag.
Runes == {97, 92, 10, InvalidByte, 133, 26085, 8238, 917569}

\* Short texts, and some that end one byte below, at or above a limit of 12.
MCTexts ==
    {<<r>> : r \in Runes} \cup
    {<<917569, 92>>, <<917569, 97, 97>>, <<917569, 26085>>, <<10, 10, 10>>,
     <<10, 8238, 92, 97>>, <<26085, 26085, 26085, 26085, 97>>,
     <<InvalidByte, 133, 97, 92>>}
=============================================================================
