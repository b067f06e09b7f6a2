---------------------------- MODULE MC_ChdTable ----------------------------
EXTENDS ChdTable

\* Eight keys of one first-stage hash class (hash1 & 15 agree), the most a
\* bucket can hold without overrunning hashes[8], and two keys elsewhere.
MC_Keys == {32, 4096, 62976, 62991, 62993, 63006, 63076, 63083, 63093, 63098}

\* Nine keys of that class: a bucket of nine once the table has 9 entries.
MC_KeysOverflow == {62976, 62991, 62993, 63006, 63076, 63083, 63093, 63098, 63138}

MC_FontOf == [k \in MC_Keys \cup MC_KeysOverflow |-> k % 3]

\* hash2 of every key under every displacement the search may try,
\* computed once; Slot is the same function read from this table.
MC_Hash2 == [k \in MC_Keys \cup MC_KeysOverflow, d \in 1 .. MaxD |->
               Low16(hash2(Word(k), Word(d)))]

MC_Slot(key, d, range) ==
  IF d \in 1 .. MaxD /\ key \in MC_Keys \cup MC_KeysOverflow
  THEN MC_Hash2[key, d] % range
  ELSE Mask(hash2(Word(key), Word(d)), range)
=============================================================================
