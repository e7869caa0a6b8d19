-------------------------- MODULE MCAuthentication --------------------------
EXTENDS Authentication

\* letters and marks as the characters of a text
MCText(s) == [i \in DOMAIN s |-> <<s[i]>>]

MCLetters ==
  {<<s>> : s \in {"a", "b", "p", "q", "r", "x", "1", "webserial", "=", "\"", ",", " ",
                  "Bearer", "Digest", "nc", "username"}}

\* a name with an =, a quote and a comma, one with ", ", one that has a field in it
MCUsers ==
  {MCText(<<"a", "=", "\"", ",">>), MCText(<<"a", ",", " ", "b">>),
   MCText(<<"a", ",", " ", "username", "=", "x", "x">>)}

\* a password, and one with a blank, whose first word is the other
MCPasses == {MCText(<<"p">>), MCText(<<"p", " ", "q">>)}

MCRealms == {Realm, MCText(<<"r">>)}

MCTargets ==
  [index   |-> [guarded |-> TRUE,  kind |-> "file"],
   missing |-> [guarded |-> TRUE,  kind |-> "absent"],
   dots    |-> [guarded |-> FALSE, kind |-> "illegal"],
   locked  |-> [guarded |-> FALSE, kind |-> "unreadable"]]

\* the response that anybody can compute when digest_auth holds no hash
Forged ==
  <<<<"Digest">>, Blank>>
    \o Quoted("username", <<<<"x">>>>) \o <<Comma, Blank>>
    \o Quoted("realm", Realm)         \o <<Comma, Blank>>
    \o Quoted("nonce", Nonce)         \o <<Comma, Blank>>
    \o Quoted("uri", Uri)             \o <<Comma, Blank>>
    \o Quoted("response", Expected(<<>>, Nonce, Uri))

\* another scheme, no field, a user name only, no value, no quotes, and all fields
MCOthers ==
  {<<<<"Bearer">>, Blank, <<"x">>>>,
   <<<<"Digest">>, Blank>>,
   <<<<"Digest">>, Blank>> \o Quoted("username", <<<<"a">>>>),
   <<<<"Digest">>, Blank, <<"username">>, Equals>>,
   <<<<"Digest">>, Blank, <<"nc">>, Equals, <<"1">>>>,
   Forged}
=============================================================================
