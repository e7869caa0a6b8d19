----------------------------- MODULE MCTerminal -----------------------------
(***************************************************************************)
(* Messages that are keys, pasted text, and sequences cut at every place.  *)
(***************************************************************************)
EXTENDS Terminal

MCChars == Controls \union Silent \union {"a", "1", "[", "P", "_", "\\", "A", "B"}
MCFinals == {"a", "[", "P", "_", "\\", "A", "B"}

MCMessages ==
  { <<"a">>, <<"DEL">>, <<"CR">>, <<"a", "CR">>, <<"ETX", "a">>, <<"TAB">>,
    <<"ESC">>, <<"[">>, <<"ESC", "[", "A">>, <<"1", "B">>, <<"P", "a", "ESC">>,
    <<"ESC", "_">>, <<"\\", "a">>, <<"DC1", "a">>, <<"CR", "a", "ESC">> }
=============================================================================
