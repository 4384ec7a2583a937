---------------------------- MODULE MCFieldCipher ----------------------------
(* Documents with two fields, one of which may be an object or an array of  *)
(* two elements, and the first of these an object again; the name of the    *)
(* other is reported like the path of the first element.  Texts of one line *)
(* and of two, and one that begins with "FCMN"; two keys that share no      *)
(* algorithm, and one that is not known.                                    *)
EXTENDS FieldCipher

CONSTANTS line, lines, magic, number, alice, bob, carol

MCIndex == <<"0", "1">>
MCPaths == {<<"a">>, <<"a/0">>, <<"a", "0">>, <<"a", "1">>, <<"a", "0", "b">>}
MCTexts == {line, lines, magic}
MCFirstLine == [t \in MCTexts |-> IF t = lines THEN line ELSE t]
MCBlocks == [n \in Names |-> IF n = "a/0" THEN <<"a", "0">> ELSE <<n>>]
MCFps == {alice, bob, carol}
MCRecipients == {{alice}, {bob}}

=============================================================================
