---------------------------- MODULE MC_RuflCache ----------------------------
EXTENDS RuflCache

CONSTANTS f1, f2, f3, f4, f5

\* Lists in identifier order, as the Font Manager enumerates them.  f1 and
\* f2 share a style, the plain face first; f3 and f4 share one, the face
\* with an unknown part first (Alps.Cond.Light before Alps.Light); f5 is a
\* RiScript font.
MC_Enums == {<<f1, f2>>, <<f2, f3, f4>>, <<f5>>}

MC_LocalName == [id \in Ids |-> CASE id = f1 -> <<"Homerton", "Medium">>
                                   [] id = f2 -> <<"Homerton", "Medium", "Cond">>
                                   [] id = f3 -> <<"Trinity", "Cond", "Medium", "Italic">>
                                   [] id = f4 -> <<"Trinity", "Medium", "Italic">>
                                   [] id = f5 -> <<"Trinity", "Bold">>]

\* Coverage: one plane, two planes, and fonts the new scanner finds nothing
\* in.  On the old Font Manager f2 has a symbol map (no encoding name) and
\* an encoding whose map has no entries.
MC_TruthNew == [id \in Ids |-> CASE id = f1 -> <<0>>
                                 [] id = f2 -> <<0, 1>>
                                 [] OTHER -> NULL]

MC_TruthOld == [id \in Ids |-> CASE id = f1 -> <<[enc |-> "Latin1", n |-> 1]>>
                                 [] id = f2 -> <<[enc |-> NoEnc, n |-> 1], [enc |-> "Latin2", n |-> 0]>>
                                 [] OTHER -> <<[enc |-> "Latin1", n |-> 1]>>]
=============================================================================
