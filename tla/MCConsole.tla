------------------------------ MODULE MCConsole ------------------------------
(* Console on a screen of two columns and two rows, with room for a third row  *)
(* in the framebuffer and for most of a fourth: as with the real font, glyphs  *)
(* are taller than a row of the terminal.  One character has no pixels and one *)
(* reaches to the lowest row of its glyph. *)
EXTENDS Console, TLC

MCChar == {"E", "g", " ", NL}
MCInk == ("E" :> 2) @@ ("g" :> 3) @@ (" " :> -1)
MCText == {<<"E">>, <<"g", NL>>}
MCPageFault == <<"g", NL>>
MCKernelCrash == <<"E", NL>>

Perms == Permutations(Reader)
=============================================================================
