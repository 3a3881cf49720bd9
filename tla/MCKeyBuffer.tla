---------------------------- MODULE MCKeyBuffer ----------------------------
(* A character, a Latin-1 letter, the character that is KB_EMPTY, a macro  *)
(* with the one that is KB_WINDOW_QUIT behind another, and one key without *)
(* a character.                                                            *)
EXTENDS KeyBuffer

SomeTexts == {<<65>>, <<233>>, <<255>>, <<66, 254, 65>>}
OneKeycode == {75}

(* Cells outside the ring's contents, and what the last getch gave, have no *)
(* effect on what follows.                                                 *)
Seen == <<kbhead, Queued, text, typing, history>>
=============================================================================
