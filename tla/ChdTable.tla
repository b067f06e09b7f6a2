------------------------------ MODULE ChdTable ------------------------------
(***************************************************************************)
(* One call of chd() (rufl_substitution_table.c) on the intermediate table *)
(* that create_substitution_table_for_plane hands it, and the lookups      *)
(* made on its result.  'entries' is that table: ascending keys (the low   *)
(* 16 bits of the codepoints) with the font chosen for each; 'subst' is    *)
(* rufl_substitution_table[plane] once chd() has returned.                 *)
(***************************************************************************)
EXTENDS Chd

CONSTANTS
  Keys,     \* the codepoints (low 16 bits) a plane table may hold
  FontOf,   \* the font index substituted for each key
  NoTable   \* rufl_substitution_table[plane] before the build

VARIABLES entries, subst

vars == <<entries, subst, chd>>

(* The table the block loop of create_substitution_table_for_plane leaves: *)
(* one entry per covered codepoint, in ascending codepoint order, never    *)
(* empty (an empty table returns before chd() is called).                 *)
TableOf(S) ==
  LET a == Ascending(S)
  IN  [i \in 1 .. Len(a) |-> [key |-> a[i], font |-> FontOf[a[i]]]]

Inputs == {TableOf(S) : S \in SUBSET Keys \ {{}}}

Stages == {"idle", "bucketed", "displace", "shuffle", "hang", "bounded"}

TypeOK ==
  /\ entries \in Inputs
  /\ chd.stage \in Stages
  /\ chd.stage \notin {"idle", "bucketed"} =>
       /\ chd.i \in 0 .. chd.n + 15
       /\ chd.claimed \subseteq 0 .. chd.range - 1
       /\ \A g \in DOMAIN chd.disp : chd.disp[g] \in 0 .. MaxD
  /\ subst = NoTable \/
       /\ subst.range \in {ceil2(m) : m \in 1 .. Cardinality(Keys)}
       /\ DOMAIN subst.slots = 0 .. subst.range - 1
       /\ \A j \in DOMAIN subst.slots :
            subst.slots[j].font \in {FontOf[k] : k \in Keys} \cup {NOT_AVAILABLE}

Init == entries \in Inputs /\ chd = ChdIdle /\ subst = NoTable

\* chd(table, table_entries, &rufl_substitution_table[plane]) is entered.
ChdCall ==
  /\ subst = NoTable
  /\ chd.stage = "idle"
  /\ chd' = ChdStart(entries)
  /\ UNCHANGED <<entries, subst>>

\* chd() returns rufl_OK and the table is stored.
ChdReturn ==
  /\ ChdReturned
  /\ subst' = ChdResult
  /\ chd' = ChdIdle
  /\ UNCHANGED entries

Next == ChdCall \/ (ChdStep /\ UNCHANGED <<entries, subst>>) \/ ChdReturn

Spec == Init /\ [][Next]_vars

Expected(k) ==
  IF \E i \in 1 .. Len(entries) : entries[i].key = k
  THEN FontOf[k] ELSE NOT_AVAILABLE

-----------------------------------------------------------------------------
(* The perfect hash is exact: after chd() returns, the CHD lookup of every *)
(* key, in the table or not, gives the font the table assigned or          *)
(* NOT_AVAILABLE.  This rests on the displacement search finding disjoint  *)
(* slots, on the bit-packed map being written and read with the same       *)
(* layout, and on the shuffle putting every entry in its slot.             *)
ChdLookupExact ==
  subst # NoTable => \A k \in Keys : LookupChd(subst, k) = Expected(k)

(* The shuffle is a permutation: every entry of the table occupies exactly *)
(* one slot and every other slot is NOT_AVAILABLE, so the glyph count of   *)
(* rufl_substitution_table_size_chd equals table_entries.                  *)
ChdSlotsArePermutation ==
  subst # NoTable =>
    /\ Cardinality({j \in DOMAIN subst.slots : subst.slots[j].font # NOT_AVAILABLE})
         = Len(entries)
    /\ \A i \in 1 .. Len(entries) :
         \E j \in DOMAIN subst.slots : subst.slots[j] = entries[i]

(* hashes[8] in chd() holds at most 8 slots: no probe of the displacement  *)
(* search writes past its end.  The comment at the bucket-size stash       *)
(* expects buckets of at most 8 and "sufficient headroom".                 *)
NoHashesOverrun == chd.stage \notin {"idle", "bucketed"} => ~chd.overflow

=============================================================================
