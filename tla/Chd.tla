-------------------------------- MODULE Chd --------------------------------
(***************************************************************************)
(* The CHD ("compress, hash, displace") substitution table of              *)
(* rufl_substitution_table.c: chd() and create_substitution_table_chd() as *)
(* a sequence of steps over their working state, and                       *)
(* rufl_substitution_table_lookup_chd() as an operator on the result.     *)
(*                                                                         *)
(* The input is the intermediate table create_substitution_table_for_plane *)
(* builds: a sequence, ascending by codepoint, of entries                  *)
(* [key |-> low 16 bits of the codepoint, font |-> font index].            *)
(* The variable 'chd' holds the locals of chd() and of                     *)
(* create_substitution_table_chd(); each loop iteration is one step.       *)
(***************************************************************************)
EXTENDS ChdHash, Sequences, FiniteSets, TLC

CONSTANTS
  NOT_AVAILABLE, \* 0xffff
  MaxD           \* bound on the displacement search (the code has none)

VARIABLE chd

\* A finite set of numbers as an ascending sequence.
Ascending(S) ==
  [i \in 1 .. Cardinality(S) |-> CHOOSE x \in S : Cardinality({y \in S : y < x}) = i - 1]

\* An empty slot of the 64-bit working table (t64[i] == NOT_AVAILABLE).
Empty == [key |-> 0, font |-> NOT_AVAILABLE, g |-> 0, size |-> 0]

NumBuckets(n) == ceil2(((n + 3) \div 4) * 4)   \* ceil2((n + 3) & ~3)
\* Mutant: a load factor of 1/2, twice the slots.
NumSlotsHalfLoad(n) == ceil2(2 * n)
NumSlots(n) == ceil2(n)

\* f(x) for a key and displacement, masked to the slot range.
Slot(key, d, range) == Mask(hash2(Word(key), Word(d)), range)

\* chd() not running.
ChdIdle == [stage |-> "idle"]

(* chd(), first loop: g(x) = hash1(key) & (buckets - 1) into bits 32-47 of *)
(* each entry (entries_per_bucket is the count of each g).                 *)
ChdStart(table) ==
  LET n == Len(table)
      B == NumBuckets(n)
  IN  [stage |-> "bucketed", n |-> n, buckets |-> B, range |-> NumSlots(n),
       s |-> [i \in 1 .. n |-> [key |-> table[i].key, font |-> table[i].font,
                                g |-> Mask(hash1(Word(table[i].key)), B), size |-> 0]]]

(* The bucket's population as the 4-bit field at bits 48-51 holds it:    *)
(* ((uint64_t) entries_per_bucket[g] << 48) on a field 4 bits wide.       *)
SizeField(cnt) == cnt % 16

(* table_chd_cmp: x sorts before y when its 20-bit CHD field (bits 32-51, *)
(* size:g) is greater.                                                     *)
TableChdCmp(x, y) == x.size * Half + x.g > y.size * Half + y.g

(* test_and_set_bits on the bitmap as the set of its set bits: when every  *)
(* bit of idx is clear, all of them are set and the result is TRUE;        *)
(* otherwise the bitmap is left alone.                                     *)
TestAndSetBits(bitmap, idx) ==
  IF idx \cap bitmap = {}
  THEN [result |-> TRUE, bitmap |-> bitmap \cup idx]
  ELSE [result |-> FALSE, bitmap |-> bitmap]

(* chd(), second loop and qsort: the bucket's population stashed in the    *)
(* 4-bit field at bits 48-51, then the entries sorted with table_chd_cmp,  *)
(* descending on the 20-bit field size:g.  The displacement loop starts.   *)
ChdSort ==
  /\ chd.stage = "bucketed"
  /\ LET cnt(x) == Cardinality({j \in 1 .. chd.n : chd.s[j].g = x})
         sized  == [i \in 1 .. chd.n |-> [chd.s[i] EXCEPT !.size = SizeField(cnt(chd.s[i].g))]]
     IN  chd' = [stage |-> "displace", n |-> chd.n, buckets |-> chd.buckets,
                 range |-> chd.range,
                 s |-> SortSeq(sized, TableChdCmp),
                 i |-> 1, claimed |-> {}, disp |-> [g \in 0 .. chd.buckets - 1 |-> 0],
                 maxd |-> 0, overflow |-> FALSE, bpe |-> 0, dmap |-> <<>>, t64 |-> <<>>]

(* One probe of the displacement search: the slots f = hash2(key, d) &    *)
(* (range - 1) of the bucket's entries table[i .. i+size-1], each put in   *)
(* hashes[] once; num_hashes is their number.                              *)
Hashes(s, i, size, d, range) == {Slot(s[j].key, d, range) : j \in i .. i + size - 1}

(* do { d++; ...probe... } while (num_hashes != bucket_size ||             *)
(*                                !test_and_set_bits(bitmap, hashes, ...)) *)
(* The first d giving bucket_size distinct slots none of which is claimed  *)
(* is taken (the code has no bound; ok is FALSE when none is <= MaxD).    *)
(* 'ovf' records a probe, up to the one taken, that found more than 8      *)
(* distinct slots and so wrote past the end of hashes[8].                  *)
FindD(s, i, claimed, range) ==
  LET size    == s[i].size
      hs(d)   == Hashes(s, i, size, d, range)
      good(d) == Cardinality(hs(d)) = size /\ TestAndSetBits(claimed, hs(d)).result
      ovf(t)  == \E e \in 1 .. t : Cardinality(hs(e)) > 8
  IN  IF \E d \in 1 .. MaxD : good(d)
      THEN LET dmin == CHOOSE d \in 1 .. MaxD : good(d) /\ \A e \in 1 .. d - 1 : ~good(e)
           IN  [d |-> dmin, hashes |-> hs(dmin), ok |-> TRUE, ovf |-> ovf(dmin)]
      ELSE [d |-> MaxD, hashes |-> {}, ok |-> FALSE, ovf |-> ovf(MaxD)]

(* One iteration of the bucket loop of chd(): displacements[g] = d, the    *)
(* maximum kept, the slots claimed in the bitmap, i += bucket_size.  A     *)
(* bucket whose 4-bit size field reads 0 never advances i: the loop spins  *)
(* ('hang').  A search that passes MaxD stops the model ('bounded').       *)
ChdBucket ==
  /\ chd.stage = "displace"
  /\ chd.i <= chd.n
  /\ IF chd.s[chd.i].size = 0
     THEN chd' = [chd EXCEPT !.stage = "hang"]
     ELSE \E r \in {FindD(chd.s, chd.i, chd.claimed, chd.range)} :
            chd' = [chd EXCEPT !.stage = IF r.ok THEN "displace" ELSE "bounded",
                               !.i = @ + chd.s[chd.i].size,
                               !.claimed = TestAndSetBits(@, r.hashes).bitmap,
                               !.disp[chd.s[chd.i].g] = r.d,
                               !.maxd = IF r.d > @ THEN r.d ELSE @,
                               !.overflow = @ \/ r.ovf]

-----------------------------------------------------------------------------
(* The displacement map: bucket i's displacement in bits_per_entry bits,   *)
(* MSB first, at bit offset i * bits_per_entry of a big-endian bit string. *)
(* The byte-chunk loop (space_available, mask, pwrite++) ORs each chunk of *)
(* a field into the calloc'ed byte it falls in; this is the result.        *)
DisplacementMap(disp, bpe, buckets) ==
  LET bit(p) == IF p \div bpe < buckets
                THEN (disp[p \div bpe] \div 2^(bpe - 1 - (p % bpe))) % 2 ELSE 0
      byte(j) == LET t(b) == bit(8 * j + b) * 2^(7 - b)
                 IN  t(0) + t(1) + t(2) + t(3) + t(4) + t(5) + t(6) + t(7)
  IN  [j \in 0 .. (buckets * bpe + 7) \div 8 - 1 |-> byte(j)]

(* The bucket loop has ended: create_substitution_table_chd sizes the map  *)
(* by bits_needed(max_displacement), fills it, grows the table to range    *)
(* slots with NOT_AVAILABLE in the new ones, and starts the shuffle.       *)
ChdCreate ==
  /\ chd.stage = "displace"
  /\ chd.i > chd.n
  /\ \E bpe \in {bits_needed(chd.maxd)} :
       chd' = [chd EXCEPT !.stage = "shuffle", !.i = 0,
                          !.bpe  = bpe,
                          !.dmap = DisplacementMap(chd.disp, bpe, chd.buckets),
                          !.t64  = [j \in 0 .. chd.range - 1 |->
                                      IF j < chd.n THEN chd.s[j + 1] ELSE Empty]]

(* One turn of the shuffle of create_substitution_table_chd: an empty slot *)
(* is passed over, an entry not in its slot f is exchanged with t64[f] and *)
(* slot i reconsidered, an entry in place is passed over.                  *)
\* Mutant: the entry is copied to slot f but the displaced one is not
\* moved back into slot i.
ShuffleStepNoExchange(c) ==
  LET t64 == c.t64
      i   == c.i
      f   == Slot(t64[i].key, c.disp[t64[i].g], c.range)
  IN  IF t64[i].font = NOT_AVAILABLE THEN [c EXCEPT !.i = i + 1]
      ELSE IF f # i THEN [c EXCEPT !.t64 = [t64 EXCEPT ![f] = t64[i], ![i] = Empty]]
      ELSE [c EXCEPT !.i = i + 1]

ShuffleStep(c) ==
  LET t64 == c.t64
      i   == c.i
      f   == Slot(t64[i].key, c.disp[t64[i].g], c.range)
  IN  IF t64[i].font = NOT_AVAILABLE THEN [c EXCEPT !.i = i + 1]
      ELSE IF f # i THEN [c EXCEPT !.t64 = [t64 EXCEPT ![f] = t64[i], ![i] = t64[f]]]
      ELSE [c EXCEPT !.i = i + 1]

\* for (i = 0; i < table_entries; ): one turn.
ChdShuffle ==
  /\ chd.stage = "shuffle"
  /\ chd.i < chd.n
  /\ chd' = ShuffleStep(chd)

\* The shuffle loop has ended; chd() returns rufl_OK.
ChdReturned == chd.stage = "shuffle" /\ chd.i >= chd.n

ChdStep == ChdSort \/ ChdBucket \/ ChdCreate \/ ChdShuffle

(* The table stored in *substitution_table: the top 32 bits of every slot  *)
(* stripped, leaving (key << 16) | font.                                   *)
ChdResult ==
  [kind |-> "chd", buckets |-> chd.buckets, range |-> chd.range, bpe |-> chd.bpe,
   dmap |-> chd.dmap,
   slots |-> [j \in 0 .. chd.range - 1 |-> [key |-> chd.t64[j].key, font |-> chd.t64[j].font]]]

-----------------------------------------------------------------------------
ByteAt(map, j) == IF j \in DOMAIN map THEN map[j] ELSE 0

(* The reading loop of rufl_substitution_table_lookup_chd: btr bits from   *)
(* byte pr, bit offset off, one chunk per byte with pread++ after each     *)
(* chunk that reaches the byte's end.  A field spans at most three bytes   *)
(* (off + btr <= 7 + bits_needed(MaxD) <= 24).                             *)
\* Mutant: pread is not advanced, so every chunk comes from byte pr.
ReadFieldNoAdvance(map, pr, off, btr) ==
  ((ByteAt(map, pr) * (2^16 + 2^8 + 1)) \div 2^(24 - off - btr)) % 2^btr

ReadField(map, pr, off, btr) ==
  ((ByteAt(map, pr) * 2^16 + ByteAt(map, pr + 1) * 2^8 + ByteAt(map, pr + 2))
     \div 2^(24 - off - btr)) % 2^btr

(* rufl_substitution_table_lookup_chd for the low 16 bits of a codepoint.  *)
LookupChd(t, key) ==
  LET g == Mask(hash1(Word(key)), t.buckets)
      d == ReadField(t.dmap, (g * t.bpe) \div 8, (g * t.bpe) % 8, t.bpe)
      f == Slot(key, d, t.range)
  IN  IF t.slots[f].font # NOT_AVAILABLE /\ t.slots[f].key = key
      THEN t.slots[f].font ELSE NOT_AVAILABLE

(* rufl_substitution_table_estimate_size_chd, less the struct size.        *)
EstimateChd(n) == (NumBuckets(n) * 6 + 7) \div 8 + NumSlots(n) * 4

=============================================================================
