------------------------------ MODULE ChdHash ------------------------------
(***************************************************************************)
(* The integer helpers of rufl_substitution_table.c, computed exactly:     *)
(* ceil2, bits_needed, the first-stage hash hash1 and the MurmurHash2-     *)
(* based second-stage hash hash2.                                          *)
(*                                                                         *)
(* The code computes in uint32_t, wrapping modulo 2^32.  TLC's integers    *)
(* are 32-bit signed, so a word is held as <<hi, lo>>, its two 16-bit      *)
(* halves, and multiplication is done on bytes so that no intermediate     *)
(* product leaves TLC's range.                                             *)
(***************************************************************************)
EXTENDS Integers

Half == 65536

\* A natural number below 2^31 as a word, and a word's low 16 bits.
Word(n) == <<n \div Half, n % Half>>
Low16(w) == w[2]

\* Exclusive or of two 16-bit halves, bit by bit.
Xor16(x, y) ==
  LET t(k) == (((x \div 2^k) + (y \div 2^k)) % 2) * 2^k
  IN  t(0) + t(1) + t(2) + t(3) + t(4) + t(5) + t(6) + t(7) + t(8) + t(9)
        + t(10) + t(11) + t(12) + t(13) + t(14) + t(15)

XorW(a, b) == <<Xor16(a[1], b[1]), Xor16(a[2], b[2])>>

\* a >> n for 0 < n < 32.
ShrW(a, n) ==
  IF n >= 16 THEN <<0, a[1] \div 2^(n - 16)>>
  ELSE <<a[1] \div 2^n, a[2] \div 2^n + (a[1] % 2^n) * 2^(16 - n)>>

\* a << n (mod 2^32) for 0 <= n < 16.
ShlW(a, n) ==
  <<(a[1] * 2^n + a[2] \div 2^(16 - n)) % Half, (a[2] * 2^n) % Half>>

\* a * b (mod 2^32): schoolbook product on bytes, keeping bytes 0 .. 3.
MulW(a, b) ==
  LET A == <<a[2] % 256, a[2] \div 256, a[1] % 256, a[1] \div 256>>
      B == <<b[2] % 256, b[2] \div 256, b[1] % 256, b[1] \div 256>>
      c0 == A[1] * B[1]
      c1 == A[1] * B[2] + A[2] * B[1]
      c2 == A[1] * B[3] + A[2] * B[2] + A[3] * B[1]
      c3 == A[1] * B[4] + A[2] * B[3] + A[3] * B[2] + A[4] * B[1]
      low == c0 + (c1 % 256) * 256
  IN  <<(low \div Half + c1 \div 256 + c2 + (c3 % 256) * 256) % Half, low % Half>>

\* The MurmurHash2 multiplier 0x5db1e995.
MurmurM == <<\h5db1, \he995>>

(* ceil2: round up to the next power of two; 0 gives 1 (values below     *)
(* 2^16 here).                                                             *)
ceil2(v) == CHOOSE p \in {2^k : k \in 0 .. 16} : p >= v /\ (p = 1 \/ p \div 2 < v)

(* bits_needed: bits to store v; 1 for 0, else floor(log2(ceil2(v))) when  *)
(* v is not a power of two (rounded up first, minus one) and log2(v) + 1   *)
(* when it is.                                                             *)
\* The number of shifts 'while (val > 0) { result += 1; val >>= 1; }' makes.
BitLength(v) == CHOOSE k \in 0 .. 17 : v < 2^k /\ (k = 0 \/ 2^(k - 1) <= v)
bits_needed(v) ==
  IF v = 0 THEN 1
  ELSE IF ceil2(v) # v THEN BitLength(ceil2(v)) - 1
  ELSE BitLength(v)

(* One round of MurmurHash2: val *= m; val ^= val >> 24; val *= m;         *)
(* val ^= s * m.                                                           *)
mround(val, s) ==
  LET v1 == MulW(val, MurmurM)
      v2 == XorW(v1, ShrW(v1, 24))
      v3 == MulW(v2, MurmurM)
  IN  XorW(v3, MulW(s, MurmurM))

(* The MurmurHash2 mixing step: val ^= val >> 13; val *= m; val ^= val >> 15. *)
mmix(val) ==
  LET v1 == XorW(val, ShrW(val, 13))
      v2 == MulW(v1, MurmurM)
  IN  XorW(v2, ShrW(v2, 15))

(* hash1 (g(x)): val ^= val >> 7; val ^= val << 3; val ^= val >> 4.        *)
hash1(val) ==
  LET v1 == XorW(val, ShrW(val, 7))
      v2 == XorW(v1, ShlW(v1, 3))
  IN  XorW(v2, ShrW(v2, 4))

(* hash2 (f(d, x)): mmix(mround(val, mround(d, 4))).                       *)
hash2(val, d) == mmix(mround(val, mround(d, Word(4))))

\* The value masked to a power-of-two range (at most 2^16).
Mask(w, range) == Low16(w) % range

=============================================================================
