------------------------------ MODULE Charset ------------------------------
(***************************************************************************)
(* The per-font coverage bitmap of RUfl (struct rufl_character_set,        *)
(* rufl_internal.h) and the pure operations on it: allocating a working    *)
(* plane, setting a codepoint present, shrink-wrapping a plane (full       *)
(* blocks become a sentinel and lose their row), concatenating planes into *)
(* one charset, and testing a codepoint (rufl_character_set_test).         *)
(*                                                                         *)
(* Dimensions are scaled down.  The code has 17 planes of 256 blocks of    *)
(* 256 codepoints, and an 8-bit index whose two top values are the         *)
(* sentinels BLOCK_EMPTY (254) and BLOCK_FULL (255), leaving 254 rows.     *)
(* Here a plane has NB blocks of BS codepoints and the index sentinels are *)
(* NB-2 and NB-1, so the row table has NB-2 rows exactly as in the code.   *)
(* A charset (the concatenated buffer walked by size) is a sequence of     *)
(* plane segments in memory order.                                         *)
(***************************************************************************)
EXTENDS Integers, Sequences, FiniteSets

CONSTANTS
  NP,   \* number of Unicode planes (17 in the code)
  NB,   \* blocks per plane (256 in the code)
  BS    \* codepoints per block (256 in the code)

ASSUME NP \in Nat \ {0} /\ NB \in Nat /\ NB >= 3 /\ BS \in Nat \ {0}

Planes    == 0 .. NP - 1
Blocks    == 0 .. NB - 1
Bits      == 0 .. BS - 1
Codepoint == 0 .. NP * NB * BS - 1

BLOCK_EMPTY == NB - 2
BLOCK_FULL  == NB - 1
MaxRows     == NB - 2           \* rows of the block table (254 in the code)
Rows        == 0 .. MaxRows - 1

\* u >> 16, (u >> 8) & 0xff and u & 0xff of the code, at the scaled widths.
PlaneOf(u) == u \div (NB * BS)
BlockOf(u) == (u \div BS) % NB
BitOf(u)   == u % BS

\* A plane segment: metadata (extension bit, plane id, size), index table,
\* block table.  'used' is the row count the size field encodes
\* (4 + 256 + 32 * used bytes once shrink-wrapped; the row count itself
\* while the plane is being populated).
PlaneRec == [pid : Planes, ext : BOOLEAN, used : 0 .. MaxRows,
             index : [Blocks -> Blocks], block : [Rows -> SUBSET Bits]]

(* rufl_init_alloc_plane: zeroed plane, given id, every block EMPTY.       *)
AllocPlane(p) ==
  [pid |-> p, ext |-> FALSE, used |-> 0,
   index |-> [b \in Blocks |-> BLOCK_EMPTY],
   block |-> [r \in Rows |-> {}]]

\* Mutant: the row-count update of find_glyph_cb placed outside the "block
\* is empty" test, so every present codepoint bumps the size field.
SetPresentCountAlways(pl, u) ==
  LET blk == BlockOf(u)
      pl1 == IF pl.index[blk] = BLOCK_EMPTY /\ pl.used < BLOCK_EMPTY
               THEN [pl EXCEPT !.index[blk] = pl.used] ELSE pl
      pl2 == [pl1 EXCEPT !.used = pl.used + 1]
  IN  IF pl2.index[blk] < BLOCK_EMPTY
        THEN [pl2 EXCEPT !.block[pl2.index[blk]] = @ \cup {BitOf(u)}]
        ELSE pl2

(* The "present" branch of find_glyph_cb: give the block a row if it has   *)
(* none and a row is left, then set the codepoint's bit if the block has a *)
(* row.                                                                    *)
SetPresent(pl, u) ==
  LET blk == BlockOf(u)
      pl1 == IF pl.index[blk] = BLOCK_EMPTY /\ pl.used < BLOCK_EMPTY
               THEN [pl EXCEPT !.index[blk] = pl.used, !.used = pl.used + 1]
               ELSE pl
  IN  IF pl1.index[blk] < BLOCK_EMPTY
        THEN [pl1 EXCEPT !.block[pl1.index[blk]] = @ \cup {BitOf(u)}]
        ELSE pl1

\* Mutant: the memmove starts one row too late, leaving the full row in place.
RemoveRowLate(block, r) ==
  [k \in Rows |-> IF k > r /\ k < MaxRows - 1 THEN block[k + 1] ELSE block[k]]

\* The memmove of rufl_init_shrinkwrap_plane: rows after r move down one;
\* the last row keeps its old contents.
RemoveRow(block, r) ==
  [k \in Rows |-> IF k >= r /\ k < MaxRows - 1 THEN block[k + 1] ELSE block[k]]

\* Index entries pointing past the removed row move down one; entry u
\* becomes FULL.
ReindexAfterRemoval(index, u, r) ==
  [k \in Blocks |-> IF k = u THEN BLOCK_FULL
                    ELSE IF index[k] < BLOCK_EMPTY /\ index[k] > r
                         THEN index[k] - 1 ELSE index[k]]

(* rufl_init_shrinkwrap_plane: for every block in order, a block whose row *)
(* has every bit set is marked FULL and its row removed.                   *)
\* Mutant: a full block's row is removed but the size field is not reduced.
RECURSIVE ShrinkwrapKeepSize(_, _)
ShrinkwrapKeepSize(pl, u) ==
  IF u = NB THEN pl
  ELSE LET r == pl.index[u] IN
       IF r = BLOCK_EMPTY \/ pl.block[r] # Bits
         THEN ShrinkwrapKeepSize(pl, u + 1)
         ELSE ShrinkwrapKeepSize([pl EXCEPT !.block = RemoveRow(@, r),
                                            !.index = ReindexAfterRemoval(@, u, r)], u + 1)

RECURSIVE ShrinkwrapFrom(_, _)
ShrinkwrapFrom(pl, u) ==
  IF u = NB THEN pl
  ELSE LET r == pl.index[u] IN
       IF r = BLOCK_EMPTY \/ pl.block[r] # Bits
         THEN ShrinkwrapFrom(pl, u + 1)
         ELSE ShrinkwrapFrom([pl EXCEPT !.block = RemoveRow(@, r),
                                        !.index = ReindexAfterRemoval(@, u, r),
                                        !.used  = @ - 1], u + 1)

ShrinkwrapPlane(pl) == ShrinkwrapFrom(pl, 0)

(* rufl_init_shrinkwrap_planes: shrink-wrap every allocated plane and copy *)
(* them, from the highest plane down, backwards into one buffer, so the    *)
(* buffer holds them in ascending plane order and every segment but the    *)
(* highest-numbered one has its extension bit set.  'planes' maps each     *)
(* allocated plane id (and only those) to its working plane.               *)
RECURSIVE CopyDown(_, _, _)
CopyDown(planes, p, acc) ==
  IF p < 0 THEN acc
  ELSE IF p \notin DOMAIN planes THEN CopyDown(planes, p - 1, acc)
  ELSE CopyDown(planes, p - 1,
                <<[ShrinkwrapPlane(planes[p]) EXCEPT !.ext = (acc # <<>>)]>> \o acc)

ShrinkwrapPlanes(planes) == CopyDown(planes, NP - 1, <<>>)

(* rufl_character_set_test: walk segments while the plane id differs and  *)
(* the extension bit says another follows; then EMPTY, FULL or the bit.    *)
RECURSIVE WalkTo(_, _, _)
WalkTo(cs, i, p) ==
  IF cs[i].pid # p /\ cs[i].ext THEN WalkTo(cs, i + 1, p) ELSE i

CharacterSetTest(cs, u) ==
  LET p == PlaneOf(u)
  IN  IF NP <= p THEN FALSE
      ELSE LET seg == cs[WalkTo(cs, 1, p)]
               r   == seg.index[BlockOf(u)]
           IN  /\ seg.pid = p
               /\ r # BLOCK_EMPTY
               /\ r = BLOCK_FULL \/ BitOf(u) \in seg.block[r]

-----------------------------------------------------------------------------
(* Shape of a finished charset (the invariant rufl_internal.h describes):  *)
(* ascending distinct plane ids, the extension bit on all but the last     *)
(* segment, and in each segment the index maps the non-sentinel blocks     *)
(* one-to-one onto rows 0 .. used-1, each row a partial block (some but    *)
(* not all bits set).                                                      *)
WellFormedSegment(seg) ==
  LET rowed == {b \in Blocks : seg.index[b] < BLOCK_EMPTY}
  IN  /\ {seg.index[b] : b \in rowed} = 0 .. seg.used - 1
      /\ Cardinality(rowed) = seg.used
      /\ \A b \in rowed : seg.block[seg.index[b]] \notin {{}, Bits}

WellFormedCharset(cs) ==
  /\ cs # <<>>
  /\ \A i \in 1 .. Len(cs) :
       /\ WellFormedSegment(cs[i])
       /\ cs[i].ext = (i < Len(cs))
       /\ i < Len(cs) => cs[i].pid < cs[i + 1].pid

=============================================================================
