----------------------------- MODULE MCFormPage -----------------------------
(***************************************************************************)
(* FormPage for TLC, with characters as strings of one character.  The     *)
(* lengths are scaled down: tags of one character, marks of two, and a     *)
(* cache of four, so that a mark is cut by the cache at every position.    *)
(***************************************************************************)
EXTENDS FormPage, TLC

MCChars == {"<", "#", "-", ">", "D", "L", "0", "1", "v", "w", "a", "b"}
MCTagStart == <<"<", "#">>
MCTagEnd == <<"-", ">">>
MCDhcpTag == <<"D">>
MCTextTag == <<"L">>
MCNoText == <<>>
MCTexts == {MCNoText, <<"v", "w", "v", "w">>}
MCBehind == [t \in MCTexts |-> {u \in MCTexts : IsPrefix(t, u)}]

Dhcp == MCTagStart \o MCDhcpTag \o MCTagEnd
Text == MCTagStart \o MCTextTag \o MCTagEnd

\* Marks at the beginning, next to each other, behind their first characters, and in
\* the last characters of a file.
MCPages == {
  Text \o Dhcp \o <<"a", "a", "a", "a">>,
  <<"<", "a", "<">> \o Dhcp \o <<"<", ">", "-", "a">>,
  <<"a">> \o Dhcp \o <<"b">> \o Text}
=============================================================================
