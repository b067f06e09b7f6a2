---------------------------- MODULE MC_RuflScan ----------------------------
(* Two planes of four blocks of two codepoints: the index sentinels are    *)
(* EMPTY = 2 and FULL = 3, two rows per plane, blocks 2 and 3 unassigned.  *)
(* Plane 0: 0 is a C0 control, 1 is U+0020, 2 another space (U+00A0),     *)
(* 3 a C1 control; plane 1: 8 .. 11 ordinary characters.                  *)
EXTENDS RuflScan

MC_SPACE == 1
MC_C1 == {3}
MC_Spaces == {1, 2}
=============================================================================
