------------------------------ MODULE FontList ------------------------------
(***************************************************************************)
(* How rufl_init_add_font (rufl_init.c) files a font face under a family, *)
(* a weight and a slant, read from the face's local name: the part before  *)
(* the first dot is the family; every later part is a slant (Italic,       *)
(* Oblique), a weight from rufl_weight_table, or unknown, which makes the  *)
(* face "special".  The family map keeps, per family, weight and slant,    *)
(* one face, preferring one with no unknown part.                          *)
(*                                                                         *)
(* Parts are compared with strcasecmp in the code; here names are given in *)
(* one spelling.                                                           *)
(***************************************************************************)
EXTENDS Integers, SequencesExt

CONSTANTS
  LocalName   \* LocalName[id]: the dot-separated parts of the face's local name

\* NO_FONT (UINT_MAX): the style does not exist in the family.
NoFont == -1

Weights == 0 .. 8
Slants == 0 .. 1
Styles == Weights \X Slants

\* rufl_weight_table: a name part to a weight.
WeightTable ==
  ("Black" :> 9) @@ ("Bold" :> 7) @@ ("Book" :> 3) @@ ("Demi" :> 6)
  @@ ("DemiBold" :> 6) @@ ("Extra" :> 8) @@ ("ExtraBlack" :> 9) @@ ("ExtraBold" :> 8)
  @@ ("ExtraLight" :> 1) @@ ("Heavy" :> 8) @@ ("Light" :> 2) @@ ("MedBold" :> 6)
  @@ ("Medium" :> 5) @@ ("Regular" :> 4) @@ ("Semi" :> 6) @@ ("SemiBold" :> 6)
  @@ ("SemiLight" :> 3) @@ ("Thin" :> 1) @@ ("UltraBlack" :> 9) @@ ("UltraBold" :> 9)

SlantNames == {"Italic", "Oblique"}

Family(id) == Head(LocalName[id])
Parts(id) == Tail(LocalName[id])

(* The loop over the parts after the family: a slant name sets slant = 1;  *)
(* a weight name sets the weight (the last one wins); any other part sets  *)
(* special.  No weight part means 4 (Regular); the stored weight is one    *)
(* less.                                                                   *)
SlantOf(id) == IF \E k \in DOMAIN Parts(id) : Parts(id)[k] \in SlantNames THEN 1 ELSE 0

WeightOf(id) ==
  LET ws == SelectSeq(Parts(id), LAMBDA p : p \in DOMAIN WeightTable)
  IN  IF ws = <<>> THEN 3 ELSE WeightTable[Last(ws)] - 1

Special(id) ==
  \E k \in DOMAIN Parts(id) : Parts(id)[k] \notin SlantNames \cup DOMAIN WeightTable

(* The family map slot of the face's style takes face k when it is empty   *)
(* or the face has no unknown part ("so that, for example, Alps.Light      *)
(* takes priority over Alps.Cond.Light").                                  *)
Place(slot, k, id) == IF slot = NoFont \/ ~Special(id) THEN k ELSE slot

=============================================================================
