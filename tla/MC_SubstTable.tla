--------------------------- MODULE MC_SubstTable ---------------------------
EXTENDS SubstTable

\* Glyph sets over the assigned codepoints 0..3 (plane 0) and 8..11
\* (plane 1): a full block, partial blocks, both planes, plane 1 only.
MC_Coverages == {NoCharset, {0, 1}, {1, 3}, {0, 2, 3, 9}, {8, 10, 11}}

\* Two fonts give narrow (8-bit) Direct entries, three wide ones.
MC_FontCounts == {2, 3}
\* hash2 of every key of a scaled plane, (block << 8) | offset, under every
\* displacement the search may try, computed once; Slot reads it.
MC_Keys == {Key(b, x) : b \in Blocks, x \in Bits}

MC_Hash2 == [k \in MC_Keys, d \in 1 .. MaxD |-> Low16(hash2(Word(k), Word(d)))]

MC_Slot(key, d, range) ==
  IF d \in 1 .. MaxD /\ key \in MC_Keys
  THEN MC_Hash2[key, d] % range
  ELSE Mask(hash2(Word(key), Word(d)), range)
=============================================================================
