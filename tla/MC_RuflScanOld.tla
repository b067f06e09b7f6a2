---------------------------- MODULE MC_RuflScanOld ----------------------------
(* Plane 0 of five blocks of two codepoints: EMPTY = 3, FULL = 4, three    *)
(* rows.  Block 2 plays the surrogates, which no glyph name maps to, so    *)
(* (as in the BMP, where at most 248 blocks can be mapped) the 254-row     *)
(* break is never reached.  Codepoint 1 is a space.                        *)
(*                                                                         *)
(* Character codes stop at 4 (FirstCode 1, CodeLimit 4) and s holds three  *)
(* characters.  Glyph "a" is U+0, "b" U+1 and "c" both U+2 and U+3.        *)
(*   A:      "# \n/ /a /b /c"    a comment line, codes 0..3, no final \n   *)
(*   C:      "/ /a /b /ab\n/c\n" A's map; "/ab" is too long for s          *)
(*   B:      "/ /c /a# /b\n"     garbage cuts the line before "/b"         *)
(*   U:      "/a /a /a /a /a"    five names: a UCS font                    *)
(*   Symbol: "/ /c /c /c"        the map fills before the last name        *)
(*   Latin1: "/ /b"              opened when a file cannot be              *)
EXTENDS RuflScanOld

CONSTANTS A, B, C, U

MC_EncFile ==
  (A :> <<"#", " ", "\n", "/", " ", "/", "a", " ", "/", "b", " ", "/", "c">>)
  @@ (C :> <<"/", " ", "/", "a", " ", "/", "b", " ", "/", "a", "b", "\n", "/", "c", "\n">>)
  @@ (B :> <<"/", " ", "/", "c", " ", "/", "a", "#", " ", "/", "b", "\n">>)
  @@ (U :> <<"/", "a", " ", "/", "a", " ", "/", "a", " ", "/", "a", " ", "/", "a">>)
  @@ (NULL :> <<"/", " ", "/", "c", " ", "/", "c", " ", "/", "c">>)

MC_Latin1 == <<"/", " ", "/", "b">>

MC_GlyphMap == (<<"a">> :> {0}) @@ (<<"b">> :> {1}) @@ (<<"c">> :> {2, 3})

MC_EncLists == {<<>>, <<A>>, <<A, B>>, <<A, C>>, <<U, B>>}

\* Fonts, with choices narrowed to those that behave differently: "blank"
\* is "none" unless a space, and unmapped codepoints never matter.
MC_Fonts == {[u \in Codepoint |-> IF u \in {0, 2, 3} THEN g[u] ELSE IF u = 1 THEN sp ELSE "none"] :
               g \in [{0, 2, 3} -> {"none", "ink"}], sp \in Kinds}
=============================================================================
