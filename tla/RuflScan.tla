------------------------------ MODULE RuflScan ------------------------------
(***************************************************************************)
(* rufl_init_scan_font (rufl_init.c): building one font's coverage bitmap  *)
(* with a Unicode-capable Font Manager.                                    *)
(*                                                                         *)
(* The font is opened; a first enumeration pass (find_plane_cb) marks the  *)
(* planes that hold a mapped non-control character; the marked planes are *)
(* allocated; a second enumeration pass (find_glyph_cb) measures every     *)
(* mapped character and sets it present in its plane; the font is closed  *)
(* and the planes are shrink-wrapped into one charset.  Every Font Manager *)
(* call (find font, enumerate characters, scan string) may fail and every  *)
(* allocation may fail; each failure takes the code's own exit path.       *)
(*                                                                         *)
(* The enumeration is abstracted to one call per mapped codepoint in       *)
(* ascending order (rufl_init_enumerate_characters; the broken-FEC probe   *)
(* of U+0001 .. first-1 visits the same characters one by one).            *)
(***************************************************************************)
EXTENDS Charset

CONSTANTS
  SPACE,    \* U+0020, the boundary find_plane_cb and find_glyph_cb compare with
  C1,       \* the codepoints U+007F .. U+009F (DELETE and C1 controls)
  Spaces,   \* the codepoints rufl_is_space accepts
  NULL,     \* null pointer
  MARK,     \* the (struct rufl_character_set *) 1 marker of find_plane_cb
  ZERO_LEN  \* the buffer malloc(0) returns when it returns one

ASSUME SPACE \in Codepoint /\ C1 \subseteq Codepoint /\ SPACE \in Spaces

(* What the Font Manager reports for a codepoint of the font:              *)
(*  "unmapped" - Font_EnumerateCharacters gives internal code -1;          *)
(*  "none"     - mapped, but no definition or an empty glyph (zero box and *)
(*               zero advance);                                            *)
(*  "blank"    - zero bounding box with a non-zero advance;                *)
(*  "ink"      - a non-degenerate bounding box.                            *)
Kinds == {"unmapped", "none", "blank", "ink"}

\* Codepoints of the two unused blocks per plane are never in a font (the
\* assumption the rufl_internal.h comment makes, true as of Unicode 13).
Assigned == {u \in Codepoint : BlockOf(u) < NB - 2}

\* Fonts, with choices narrowed to those that behave differently: a control
\* is skipped whatever its glyph, and "blank" is "none" unless a space.
KindsFor(u) ==
  IF u < SPACE \/ u \in C1 THEN {"unmapped", "ink"}
  ELSE IF u \in Spaces THEN Kinds
  ELSE {"unmapped", "none", "ink"}

Fonts == {[u \in Codepoint |-> IF u \in Assigned THEN g[u] ELSE "unmapped"] :
            g \in {g \in [Assigned -> Kinds] : \A u \in Assigned : g[u] \in KindsFor(u)}}

\* The presence rule (spec section 6): ink, or a blank glyph of a space.
Present(f) == {u \in Codepoint : /\ ~(u < SPACE \/ u \in C1)
                                 /\ \/ f[u] = "ink"
                                    \/ f[u] = "blank" /\ u \in Spaces}

OK == "rufl_OK"
FM_ERROR == "rufl_FONT_MANAGER_ERROR"
OOM == "rufl_OUT_OF_MEMORY"

VARIABLES
  font,     \* the Font Manager's view of the font being scanned
  pc,       \* where rufl_init_scan_font is ("crashed": NULL dereference,
            \* "aborted": double free detected, "hung": endless loop)
  cursor,   \* position in the enumeration (index into Mapped)
  planes,   \* planes[17]: NULL, MARK or a working plane
  handles,  \* Font Manager handles the scan holds open
  rc,       \* the return code, once returned
  charset   \* the result stored in rufl_font_list[font_index].charset

vars == <<font, pc, cursor, planes, handles, rc, charset>>

\* The codepoints the enumeration visits, in ascending order.
Mapped == LET M == {u \in Codepoint : font[u] # "unmapped"}
          IN  [i \in 1 .. Cardinality(M) |->
                 CHOOSE u \in M : Cardinality({v \in M : v < u}) = i - 1]

Allocated == {p \in Planes : planes[p] \notin {NULL, MARK}}

FreedPlanes == [p \in Planes |-> NULL]

TypeOK ==
  /\ font \in [Codepoint -> Kinds]
  /\ pc \in {"find", "pass1", "pass2", "hung", "crashed", "aborted", "done"}
  /\ cursor \in 1 .. Len(Mapped) + 1
  /\ DOMAIN planes = Planes
  /\ \A p \in Planes : planes[p] \in {NULL, MARK} \/ planes[p] \in PlaneRec
  /\ handles \in 0 .. 1
  /\ rc \in {"none", OK, FM_ERROR, OOM}
  /\ charset \in {NULL, ZERO_LEN} \/ charset \in Seq(PlaneRec)

Init ==
  /\ font \in Fonts
  /\ pc = "find"
  /\ cursor = 1
  /\ planes = FreedPlanes
  /\ handles = 0
  /\ rc = "none"
  /\ charset = NULL

Return(code) == pc' = "done" /\ rc' = code

(* xfont_find_font of "<identifier>\EUTF8": on failure the font is left    *)
(* without a charset and the scan reports success.                         *)
FindFont ==
  /\ pc = "find"
  /\ \/ /\ Return(OK)
        /\ UNCHANGED <<font, cursor, planes, handles, charset>>
     \/ /\ pc' = "pass1"
        /\ handles' = 1
        /\ UNCHANGED <<font, cursor, planes, rc, charset>>

(* One Font_EnumerateCharacters call of the first pass and find_plane_cb:  *)
(* a mapped character above U+0020 that is not a C1 control marks its      *)
(* plane.  An enumeration error returns at once, without xfont_lose_font.  *)
Pass1Step ==
  /\ pc = "pass1"
  /\ cursor <= Len(Mapped)
  /\ LET u == Mapped[cursor] IN
     \/ /\ Return(FM_ERROR)
        /\ UNCHANGED <<font, cursor, planes, handles, charset>>
     \/ /\ planes' = IF u > SPACE /\ u \notin C1
                       THEN [planes EXCEPT ![PlaneOf(u)] = MARK] ELSE planes
        /\ cursor' = cursor + 1
        /\ UNCHANGED <<font, pc, handles, rc, charset>>

(* Allocate the marked planes in ascending order.  If calloc fails for     *)
(* plane k (planes[k] becomes NULL), the clean-up loop                     *)
(* "while (plane > 0) free(planes[plane-1]);" never changes 'plane': for   *)
(* k = 0 it does not run and OUT_OF_MEMORY is returned; for k > 0 it calls *)
(* free(planes[k-1]) for ever: free(NULL) spins, a second free of a plane  *)
(* is undefined (the C library aborts, or the loop spins).                 *)
AllocPlanes ==
  /\ pc = "pass1"
  /\ cursor > Len(Mapped)
  /\ \/ /\ planes' = [p \in Planes |-> IF planes[p] = MARK THEN AllocPlane(p) ELSE NULL]
        /\ pc' = "pass2"
        /\ cursor' = 1
        /\ UNCHANGED <<font, handles, rc, charset>>
     \/ \E k \in {p \in Planes : planes[p] = MARK} :
          /\ planes' = [p \in Planes |-> IF p < k /\ planes[p] = MARK THEN AllocPlane(p)
                                       ELSE IF p = k THEN NULL ELSE planes[p]]
          /\ \/ /\ k = 0
                /\ Return(OOM)
                /\ handles' = 0
                /\ UNCHANGED <<font, cursor, charset>>
             \/ /\ k > 0
                /\ pc' \in IF planes[k - 1] = NULL THEN {"hung"} ELSE {"hung", "aborted"}
                /\ UNCHANGED <<font, cursor, handles, rc, charset>>

(* One Font_EnumerateCharacters call of the second pass and find_glyph_cb: *)
(* controls are skipped; otherwise Font_ScanString measures the glyph and  *)
(* a present character is set in planes[plane] (dereferenced without a     *)
(* check).  Any error frees the planes, closes the font and returns it.    *)
Pass2Step ==
  /\ pc = "pass2"
  /\ cursor <= Len(Mapped)
  /\ LET u == Mapped[cursor]
         skip == u < SPACE \/ u \in C1
         present == u \in Present(font)
     IN \/ /\ Return(FM_ERROR)                      \* enumerate or scan failed
           /\ planes' = FreedPlanes
           /\ handles' = 0
           /\ UNCHANGED <<font, cursor, charset>>
        \/ /\ skip \/ ~present
           /\ cursor' = cursor + 1
           /\ UNCHANGED <<font, pc, planes, handles, rc, charset>>
        \/ /\ ~skip /\ present
           /\ planes[PlaneOf(u)] = NULL
           /\ pc' = "crashed"
           /\ UNCHANGED <<font, cursor, planes, handles, rc, charset>>
        \/ /\ ~skip /\ present
           /\ planes[PlaneOf(u)] # NULL
           /\ planes' = [planes EXCEPT ![PlaneOf(u)] = SetPresent(@, u)]
           /\ cursor' = cursor + 1
           /\ UNCHANGED <<font, pc, handles, rc, charset>>

(* End of the second pass: close the font, shrink-wrap the planes into a   *)
(* buffer of their total size, free the planes.  malloc of that buffer may *)
(* fail; with no plane at all it is malloc(0), which returns NULL or a     *)
(* zero-length buffer depending on the C library.                          *)
Finish ==
  /\ pc = "pass2"
  /\ cursor > Len(Mapped)
  /\ handles' = 0
  /\ planes' = FreedPlanes
  /\ \/ /\ Allocated # {}
        /\ Return(OK)
        /\ charset' = ShrinkwrapPlanes([p \in Allocated |-> planes[p]])
     \/ /\ Allocated = {}
        /\ Return(OK)
        /\ charset' = ZERO_LEN
     \/ /\ Return(OOM)
        /\ UNCHANGED charset
  /\ UNCHANGED <<font, cursor>>

Next ==
  \/ FindFont
  \/ Pass1Step
  \/ AllocPlanes
  \/ Pass2Step
  \/ Finish

\* A scan is one call: "done", "crashed", "aborted" and "hung" (the endless
\* clean-up loop, whose steps change nothing) have no successor step.
Spec == Init /\ [][Next]_vars /\ WF_vars(Next)

-----------------------------------------------------------------------------
(* A scan that returns rufl_OK with a charset has recorded exactly the     *)
(* codepoints the presence rule accepts: rufl_character_set_test on the    *)
(* shrink-wrapped buffer agrees with find_glyph_cb's verdicts for every    *)
(* codepoint of every plane, across row allocation, full-block removal and *)
(* re-indexing, and the segment walk.                                      *)
ScanCoverageExact ==
  (pc = "done" /\ rc = OK /\ charset \in Seq(PlaneRec)) =>
     \A u \in Codepoint : CharacterSetTest(charset, u) <=> u \in Present(font)

(* The charset a scan stores has the shape rufl_internal.h documents:      *)
(* ascending planes, extension bit on all but the last, and an index that  *)
(* maps blocks one-to-one onto the rows in use, every row a partial block. *)
ScanCharsetWellFormed ==
  (pc = "done" /\ rc = OK /\ charset \in Seq(PlaneRec)) => WellFormedCharset(charset)

(* find_glyph_cb never dereferences a plane that the first pass did not    *)
(* allocate: find_plane_cb skips U+0020 but find_glyph_cb measures it, so  *)
(* a font whose only plane-0 character is a present U+0020 reaches a NULL  *)
(* planes[0].                                                              *)
NoNullPlaneDeref == pc # "crashed"

(* Whenever the scan returns, it has released the Font Manager handle it   *)
(* opened (the first pass returns its error without xfont_lose_font).      *)
HandleReleasedOnReturn == pc = "done" => handles = 0

(* Every scan comes to an end, returning or stopping the program: the      *)
(* clean-up loop after a failed plane allocation terminates.               *)
ScanTerminates == <>(pc \in {"done", "crashed", "aborted"})

=============================================================================
