----------------------------- MODULE SubstTable -----------------------------
(***************************************************************************)
(* The font substitution tables of rufl_substitution_table.c: one table    *)
(* per plane, built by rufl_substitution_table_init from the fonts'        *)
(* charsets, freed by rufl_substitution_table_fini (called by rufl_quit),  *)
(* and read by rufl_substitution_table_lookup.                             *)
(*                                                                         *)
(* A plane's table is Direct (block index and rows of font indices, 8 or   *)
(* 16 bits wide) or CHD (module Chd), whichever size estimate is smaller. *)
(* Dimensions are those of Charset; the key of a codepoint in its plane is *)
(* (block << 8) | offset, the low 16 bits the code hashes and indexes.     *)
(***************************************************************************)
EXTENDS Charset, Chd

CONSTANTS
  Coverages,     \* the glyph sets a font may have (NoCharset: no charset)
  FontCounts,    \* the values rufl_font_list_entries may take
  NarrowMod,     \* 2^8: a narrow Direct entry is the font index mod this
  DirectHeader,  \* sizeof(struct rufl_substitution_table_direct), scaled
  ChdHeader,     \* sizeof(struct rufl_substitution_table_chd), scaled
  NoCharset, NULL, FREED

VARIABLES
  glyphs,    \* the glyph set the Font Manager reports for each font i (history)
  charsets,  \* rufl_font_list[i].charset for each font i: a charset or NULL
  tables,    \* rufl_substitution_table[plane]: NULL, a table, or FREED (dangling)
  plane,     \* the loop counter of rufl_substitution_table_init
  pc         \* idle, building, chd (inside chd()), ok (init returned OK),
             \* failed (returned OOM), aborted

vars == <<glyphs, charsets, tables, plane, pc, chd>>

Inputs == UNION {[0 .. n - 1 -> Coverages] : n \in FontCounts}

\* The charset rufl_init_scan_font stores for a font with glyphs S: every
\* codepoint set present in ascending order, then the planes shrink-wrapped
\* and concatenated.
RECURSIVE AddAll(_, _)
AddAll(pl, S) ==
  IF S = {} THEN pl
  ELSE LET u == CHOOSE x \in S : \A y \in S : x <= y
       IN  AddAll(SetPresent(pl, u), S \ {u})

CharsetOf(S) ==
  ShrinkwrapPlanes([p \in {PlaneOf(u) : u \in S} |->
                      AddAll(AllocPlane(p), {u \in S : PlaneOf(u) = p})])

\* The charset of every glyph set a font may have, computed once.
CharsetTable == [S \in Coverages \ {NoCharset} |-> CharsetOf(S)]

FontCharsets(g) ==
  [i \in DOMAIN g |-> IF g[i] = NoCharset THEN NULL ELSE CharsetTable[g[i]]]

Fonts == DOMAIN charsets

\* The charset walk of create_substitution_table_for_plane: font i's
\* segment for plane p, or NULL.
Segment(i, p) ==
  IF charsets[i] = NULL THEN NULL
  ELSE LET seg == charsets[i][WalkTo(charsets[i], 1, p)]
       IN  IF seg.pid = p THEN seg ELSE NULL

(* fill_map_for_block: fonts in index order; a FULL block claims every     *)
(* still-free codepoint, a rowed block those whose bit is set.             *)
\* Mutant: the "map_for_block[u] == NOT_AVAILABLE" test dropped, so a later
\* font overrides an earlier one.
RECURSIVE FillFromLastWins(_, _, _, _)
FillFromLastWins(cs, b, i, map) ==
  IF i = Cardinality(DOMAIN cs) THEN map
  ELSE IF cs[i] = NULL THEN FillFromLastWins(cs, b, i + 1, map)
  ELSE LET r == cs[i].index[b]
           has(x) == r = BLOCK_FULL \/ (r # BLOCK_EMPTY /\ x \in cs[i].block[r])
       IN  FillFromLastWins(cs, b, i + 1, [x \in Bits |-> IF has(x) THEN i ELSE map[x]])

RECURSIVE FillFrom(_, _, _, _)
FillFrom(cs, b, i, map) ==
  IF i = Cardinality(DOMAIN cs) THEN map
  ELSE IF cs[i] = NULL THEN FillFrom(cs, b, i + 1, map)
  ELSE LET r == cs[i].index[b]
           has(x) == r = BLOCK_FULL \/ (r # BLOCK_EMPTY /\ x \in cs[i].block[r])
       IN  FillFrom(cs, b, i + 1,
                    [x \in Bits |-> IF map[x] = NOT_AVAILABLE /\ has(x) THEN i ELSE map[x]])

FillMapForBlock(cs, b) == FillFrom(cs, b, 0, [x \in Bits |-> NOT_AVAILABLE])

Key(b, x) == b * 256 + x

(* The block loop of create_substitution_table_for_plane: the table of     *)
(* (key, font) in ascending key order and the block histogram.             *)
PlaneEntries(cs) ==
  LET map == [b \in Blocks |-> FillMapForBlock(cs, b)]
      ks  == {k \in {Key(b, x) : b \in Blocks, x \in Bits} :
                    map[k \div 256][k % 256] # NOT_AVAILABLE}
      a   == Ascending(ks)
  IN  [i \in 1 .. Len(a) |-> [key |-> a[i], font |-> map[a[i] \div 256][a[i] % 256]]]

Histogram(entries) == [b \in Blocks |-> \E i \in 1 .. Len(entries) : entries[i].key \div 256 = b]

BlocksUsed(entries) == Cardinality({b \in Blocks : Histogram(entries)[b]})

Narrow(nf) == nf < NarrowMod - 1

(* rufl_substitution_table_estimate_size_direct and _chd.                  *)
EstimateDirect(entries, nf) ==
  DirectHeader + (IF BlocksUsed(entries) < NB THEN BlocksUsed(entries) + 1
                  ELSE BlocksUsed(entries)) * BS * (IF Narrow(nf) THEN 1 ELSE 2)

\* Mutant: no spare all-NOT_AVAILABLE row (blocks_needed = blocks_used).
DirectTableNoSpareRow(entries, nf) ==
  LET hist   == Histogram(entries)
      used   == BlocksUsed(entries)
      index  == [b \in Blocks |-> IF hist[b] THEN Cardinality({c \in Blocks : c < b /\ hist[c]})
                                  ELSE used]
  IN  [kind |-> "direct", narrow |-> Narrow(nf), index |-> index,
       rows |-> [r \in 0 .. used - 1 |-> [x \in Bits |-> NOT_AVAILABLE]]]

(* direct(): used blocks get rows 0.. in order, unused blocks share the    *)
(* extra all-NOT_AVAILABLE row; entries are stored as val & 0xff when      *)
(* narrow and val & 0xffff otherwise.                                      *)
DirectTable(entries, nf) ==
  LET hist   == Histogram(entries)
      used   == BlocksUsed(entries)
      needed == IF used < NB THEN used + 1 ELSE used
      na     == IF Narrow(nf) THEN NarrowMod - 1 ELSE NOT_AVAILABLE
      index  == [b \in Blocks |-> IF hist[b] THEN Cardinality({c \in Blocks : c < b /\ hist[c]})
                                  ELSE used]
      at(r, x) == {i \in 1 .. Len(entries) : index[entries[i].key \div 256] = r
                                             /\ entries[i].key % 256 = x}
      val(i) == IF Narrow(nf) THEN entries[i].font % NarrowMod ELSE entries[i].font
  IN  [kind |-> "direct", narrow |-> Narrow(nf), index |-> index,
       rows |-> [r \in 0 .. needed - 1 |->
                   [x \in Bits |-> IF at(r, x) = {} THEN na
                                   ELSE val(CHOOSE i \in at(r, x) : TRUE)]]]

(* rufl_substitution_table_lookup_direct: a narrow 0xff reads as           *)
(* NOT_AVAILABLE.                                                          *)
LookupDirect(t, key) ==
  LET v == t.rows[t.index[key \div 256]][key % 256]
  IN  IF t.narrow /\ v = NarrowMod - 1 THEN NOT_AVAILABLE ELSE v

(* rufl_substitution_table_lookup.                                         *)
Lookup(u) ==
  LET p == PlaneOf(u)
      t == tables[p]
      key == Key(BlockOf(u), BitOf(u))
  IN  IF NP <= p \/ t = NULL THEN NOT_AVAILABLE
      ELSE IF t.kind = "direct" THEN LookupDirect(t, key)
      ELSE LookupChd(t, key)

-----------------------------------------------------------------------------
(* The charsets array of create_substitution_table_for_plane.              *)
PlaneCharsets(p) == [i \in Fonts |-> Segment(i, p)]

IsTable(t) == t \notin {NULL, FREED}

TypeOK ==
  /\ glyphs \in Inputs
  /\ DOMAIN charsets = DOMAIN glyphs
  /\ plane \in 0 .. NP
  /\ pc \in {"idle", "building", "chd", "ok", "failed", "aborted"}
  /\ \A p \in Planes :
       \/ tables[p] \in {NULL, FREED}
       \/ tables[p].kind = "chd"
       \/ /\ tables[p].kind = "direct"
          /\ \A b \in Blocks : tables[p].index[b] \in DOMAIN tables[p].rows

Init ==
  /\ glyphs \in Inputs
  /\ charsets = FontCharsets(glyphs)
  /\ tables = [p \in Planes |-> NULL]
  /\ plane = 0
  /\ pc = "idle"
  /\ chd = ChdIdle

(* rufl_init reaching rufl_substitution_table_init, with the font list it  *)
(* has just read and the charsets scanned or loaded for it.                *)
StartInit ==
  /\ pc = "idle"
  /\ pc' = "building"
  /\ plane' = 0
  /\ \E g \in Inputs : glyphs' = g /\ charsets' = FontCharsets(g)
  /\ UNCHANGED <<tables, chd>>

\* The plane loop moves on once a plane's table is stored.
NextPlane ==
  /\ plane' = plane + 1
  /\ pc' = IF plane + 1 = NP THEN "ok" ELSE "building"

(* create_substitution_table_for_plane: collect the plane's charsets,      *)
(* fill the intermediate table block by block, then store NULL (no         *)
(* charsets or no entries), build the Direct table, or enter chd(),        *)
(* whichever estimate is smaller.                                          *)
BuildPlane ==
  /\ pc = "building"
  /\ \E cs \in {PlaneCharsets(plane)} : \E es \in {PlaneEntries(cs)} :
       LET nf == Cardinality(Fonts)
           none == (\A i \in Fonts : charsets[i] = NULL) \/ es = <<>>
       IN  \/ /\ none
              /\ tables' = [tables EXCEPT ![plane] = NULL]
              /\ NextPlane
              /\ UNCHANGED chd
           \/ /\ ~none
              /\ EstimateDirect(es, nf) <= ChdHeader + EstimateChd(Len(es))
              /\ tables' = [tables EXCEPT ![plane] = DirectTable(es, nf)]
              /\ NextPlane
              /\ UNCHANGED chd
           \/ /\ ~none
              /\ EstimateDirect(es, nf) > ChdHeader + EstimateChd(Len(es))
              /\ chd' = ChdStart(es)
              /\ pc' = "chd"
              /\ UNCHANGED <<tables, plane>>
  /\ UNCHANGED <<glyphs, charsets>>

\* One step of chd() for the current plane.
ChdRun ==
  /\ pc = "chd"
  /\ ChdStep
  /\ UNCHANGED <<glyphs, charsets, tables, plane, pc>>

\* chd() returns rufl_OK with rufl_substitution_table[plane] set.
ChdDone ==
  /\ pc = "chd"
  /\ ChdReturned
  /\ tables' = [tables EXCEPT ![plane] = ChdResult]
  /\ chd' = ChdIdle
  /\ NextPlane
  /\ UNCHANGED <<glyphs, charsets>>

(* create_substitution_table_for_plane returns rufl_OUT_OF_MEMORY (any of  *)
(* its allocations, or those of direct()/chd(), fails; the plane's entry   *)
(* is not written).  The clean-up loop frees the tables of the planes      *)
(* below and leaves the pointers in place.                                 *)
BuildPlaneFails ==
  /\ pc \in {"building", "chd"}
  /\ tables' = [p \in Planes |-> IF p < plane /\ IsTable(tables[p]) THEN FREED ELSE tables[p]]
  /\ pc' = "failed"
  /\ chd' = ChdIdle
  /\ UNCHANGED <<glyphs, charsets, plane>>

(* rufl_quit -> rufl_substitution_table_fini: free every non-NULL table    *)
(* and set it NULL.  Freeing a dangling pointer again is a double free.    *)
Fini ==
  /\ pc \in {"ok", "failed"}
  /\ \/ /\ \E p \in Planes : tables[p] = FREED
        /\ pc' = "aborted"
        /\ UNCHANGED tables
     \/ /\ \A p \in Planes : tables[p] # FREED
        /\ tables' = [p \in Planes |-> NULL]
        /\ pc' = "idle"
  /\ UNCHANGED <<glyphs, charsets, plane, chd>>

Next == StartInit \/ BuildPlane \/ ChdRun \/ ChdDone \/ BuildPlaneFails \/ Fini

Spec == Init /\ [][Next]_vars

\* The font of highest priority (lowest index) with a glyph for u.
FirstFont(u) ==
  LET fs == {i \in Fonts : glyphs[i] # NoCharset /\ u \in glyphs[i]}
  IN  IF fs = {} THEN NOT_AVAILABLE ELSE CHOOSE i \in fs : \A j \in fs : i <= j

-----------------------------------------------------------------------------
(* Once rufl_substitution_table_init has returned OK, the lookup of every  *)
(* codepoint, through whichever of Direct or CHD its plane got, names the  *)
(* first font in rufl_font_list order whose scanned glyph set holds it,    *)
(* or NOT_AVAILABLE.  The chain is: scan to charset, the segment walk, the *)
(* priority fill, the table layout and its lookup.                         *)
LookupMatchesPriority ==
  pc = "ok" => \A u \in Codepoint : Lookup(u) = FirstFont(u)

(* rufl_quit never frees a substitution table twice.                       *)
NoDoubleFree == pc # "aborted"

=============================================================================
