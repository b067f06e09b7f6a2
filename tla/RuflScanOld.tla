----------------------------- MODULE RuflScanOld -----------------------------
(***************************************************************************)
(* rufl_init_scan_font_old and rufl_init_scan_font_in_encoding            *)
(* (rufl_init.c): building one font's coverage with a Font Manager that    *)
(* has no Unicode support.  The font is scanned once per encoding the Font *)
(* Manager lists for it (or, with none usable, once in its own encoding as *)
(* a Symbol font).  Each encoding's file gives a unicode map; every mapped *)
(* character is measured with Font_ScanString and a present one is set in  *)
(* the single plane-0 charset, whose row counter last_used is handed from  *)
(* one encoding to the next through *last.  A map identical to an earlier  *)
(* one is discarded.  Then the plane is shrink-wrapped and realloc'ed.     *)
(*                                                                         *)
(* Some Font Manager errors are not fatal ("Not finding the font isn't     *)
(* fatal"): the encoding's umap slot is reused and the scan goes on.       *)
(* Whether such an errnum can come from Font_ScanString, part-way through  *)
(* an encoding, is the constant SoftScanErrors.                            *)
(***************************************************************************)
EXTENDS Charset, SequencesExt

CONSTANTS
  Fonts,          \* the fonts: [Codepoint -> Kinds]
  Spaces,         \* the codepoints rufl_is_space accepts
  Encodings,      \* encoding names xfont_list_fonts may return
  EncLists,       \* the encoding lists the Font Manager may give the font
  EncFile,        \* EncFile[e]: the characters of encoding e's file (NULL: the font's own)
  Latin1,         \* the characters of Resources:$.Fonts.Encodings.Latin1
  NameChars,      \* the characters of the files in [0-9a-zA-Z._;]
  GlyphMap,       \* rufl_glyph_map: a glyph name to its unicode values
  FirstCode,      \* umap_cb ignores character codes below this (32)
  CodeLimit,      \* character codes and map entries are below this (256)
  MaxLen,         \* sizeof s in rufl_init_read_encoding (200)
  SoftScanErrors, \* Font_ScanString may fail with a non-fatal errnum
  NULL            \* the Symbol attempt's encoding

(* The glyph map holds codepoints in the Basic Multilingual Plane only     *)
(* (rufl_glyph_map_entry.u is 16 bits), at least one per name.            *)
ASSUME \A n \in DOMAIN GlyphMap : GlyphMap[n] # {} /\ \A u \in GlyphMap[n] : PlaneOf(u) = 0
ASSUME NULL \in DOMAIN EncFile /\ NULL \notin Encodings /\ SoftScanErrors \in BOOLEAN
ASSUME FirstCode \in Nat /\ CodeLimit \in Nat \ {0} /\ MaxLen \in Nat \ {0}

(* What Font_ScanString reports for a character:                           *)
(*  "none"  - no definition (x0 = 0x20000000), or an empty glyph (zero box *)
(*            and zero advance);                                           *)
(*  "blank" - a zero box with a non-zero advance;                          *)
(*  "ink"   - any other box.                                               *)
Kinds == {"none", "blank", "ink"}

\* The "present" branch of the measuring loop: ink, or a blank glyph of a space.
ScanPresent(f) == {u \in Codepoint : f[u] = "ink" \/ (f[u] = "blank" /\ u \in Spaces)}

OK == "rufl_OK"
FM_ERROR == "rufl_FONT_MANAGER_ERROR"
OOM == "rufl_OUT_OF_MEMORY"
IO_ERROR == "rufl_IO_ERROR"

VARIABLES
  font,     \* the Font Manager's view of the font
  encs,     \* the encodings xfont_list_fonts returns for it, in order
  pc,       \* where the scan is
  ctx,      \* the xfont_list_fonts context: the next encoding's position
  umaps,    \* umap[0 .. num_umaps-1]: [enc, map], map the unicode values
  plane,    \* the working charset (one plane)
  last,     \* last_used of rufl_init_scan_font_old (*last)
  lu,       \* last_used of rufl_init_scan_font_in_encoding
  todo,     \* the map entries still to measure, ascending by unicode
  rc,       \* the return code, once returned
  charset,  \* rufl_font_list[font_index].charset: NULL or <<segment>>
  fp,       \* the characters of the encoding file being read
  fpos,     \* the position of the next fgetc in fp (Len(fp) + 1: EOF)
  state,    \* rufl_init_read_encoding's lexer: "start", "comment", "collect"
  s,        \* s[0 .. n-1], the token collected so far
  i,        \* the character code of the next token
  stash     \* umap->encoding (uintptr_t) as the callback leaves it

vars == <<font, encs, pc, ctx, umaps, plane, last, lu, todo, rc, charset,
          fp, fpos, state, s, i, stash>>
rd == <<fp, fpos, state, s, i, stash>>

\* The encoding of the attempt in progress: umap + num_umaps - 1.
CurEnc == umaps[Len(umaps)].enc

\* A failed call of the attempt: a non-fatal errnum reuses the umap slot
\* (num_umaps--) and goes on; any other error frees the charset and every
\* umap and is returned.
AttemptFails(soft, code) ==
  \/ /\ soft
     /\ umaps' = SubSeq(umaps, 1, Len(umaps) - 1)
     /\ pc' = IF CurEnc = NULL THEN "final" ELSE "list"
     /\ UNCHANGED <<rc, charset>>
  \/ /\ pc' = "done" /\ rc' = code /\ umaps' = <<>>
     /\ UNCHANGED charset

(* charset = calloc(1, sizeof *charset), every block EMPTY.                *)
Start ==
  /\ pc = "start"
  /\ \/ pc' = "list" /\ plane' = AllocPlane(0) /\ UNCHANGED rc
     \/ pc' = "done" /\ rc' = OOM /\ UNCHANGED plane
  /\ UNCHANGED <<font, encs, ctx, umaps, last, lu, todo, charset>> /\ UNCHANGED rd

(* One turn of the encoding loop: xfont_list_fonts with the encoding-name *)
(* flag gives the next encoding, or context -1 at the end; the umap array *)
(* grows by one zeroed slot.  At the end, with no umap kept, the Symbol    *)
(* attempt gets its slot the same way.                                     *)
ListFonts ==
  /\ pc = "list"
  /\ LET more == ctx <= Len(encs)
         enc  == IF more THEN encs[ctx] ELSE NULL
     IN  \/ pc' = "done" /\ rc' = FM_ERROR /\ umaps' = <<>> /\ UNCHANGED ctx
         \/ (more \/ umaps = <<>>) /\ pc' = "done" /\ rc' = OOM /\ umaps' = <<>>
            /\ UNCHANGED ctx
         \/ /\ more \/ umaps = <<>>
            /\ umaps' = Append(umaps, [enc |-> enc, map |-> {}])
            /\ ctx' = IF more THEN ctx + 1 ELSE ctx
            /\ pc' = "open" /\ UNCHANGED rc
         \/ ~more /\ umaps # <<>> /\ pc' = "final" /\ UNCHANGED <<umaps, ctx, rc>>
  /\ UNCHANGED <<font, encs, plane, last, lu, todo, charset>> /\ UNCHANGED rd

-----------------------------------------------------------------------------
(* rufl_init_read_encoding, with the Font Manager without Unicode support  *)
(* (its only caller is the old scanner): fgetc feeds a three-state lexer;  *)
(* a token is "/" and name characters, ended by a space or a C0 code; a    *)
(* token that meets any other character, or fills s, turns with the rest   *)
(* of the line into a comment.  The EOF that fgetc returns (-1) goes       *)
(* through the lexer before feof ends the loop.                            *)
EOF == "EOF"
C0 == {"\n", "\t", EOF}                 \* c < 0x20
Blank == C0 \cup {" "}                  \* c <= 0x20

Char(f, k) == IF k <= Len(f) THEN f[k] ELSE EOF

\* Mutant: a comment also ends at a space.
LexCommentEndsAtSpace(st, tok, c) ==
  CASE st = "start" /\ c = "/"        -> [st |-> "collect", s |-> <<c>>, emit |-> FALSE]
    [] st = "start" /\ c \in Blank    -> [st |-> "start", s |-> tok, emit |-> FALSE]
    [] st = "start"                   -> [st |-> "comment", s |-> tok, emit |-> FALSE]
    [] st = "comment"                 -> [st |-> IF c \in Blank THEN "start" ELSE "comment",
                                          s |-> tok, emit |-> FALSE]
    [] c \in NameChars                -> [st |-> IF Len(tok) + 1 >= MaxLen THEN "comment" ELSE "collect",
                                          s |-> Append(tok, c), emit |-> FALSE]
    [] c \notin Blank                 -> [st |-> "comment", s |-> tok, emit |-> FALSE]
    [] OTHER                          -> [st |-> "start", s |-> tok, emit |-> tok # <<>>]

\* One turn of the lexer on c: the new state and s, and whether s is emitted.
Lex(st, tok, c) ==
  CASE st = "start" /\ c = "/"        -> [st |-> "collect", s |-> <<c>>, emit |-> FALSE]
    [] st = "start" /\ c \in Blank    -> [st |-> "start", s |-> tok, emit |-> FALSE]
    [] st = "start"                   -> [st |-> "comment", s |-> tok, emit |-> FALSE]
    [] st = "comment"                 -> [st |-> IF c \in C0 THEN "start" ELSE "comment",
                                          s |-> tok, emit |-> FALSE]
    [] c \in NameChars                -> [st |-> IF Len(tok) + 1 >= MaxLen THEN "comment" ELSE "collect",
                                          s |-> Append(tok, c), emit |-> FALSE]
    [] c \notin Blank                 -> [st |-> "comment", s |-> tok, emit |-> FALSE]
    [] OTHER                          -> [st |-> "start", s |-> tok, emit |-> tok # <<>>]

NoUcs == -1

(* rufl_init_umap_cb(glyph_idx, ucs4): an entry for a code in             *)
(* FirstCode .. CodeLimit-1 with a unicode value while the map has room.   *)
UmapCb(map, gi, u) ==
  IF FirstCode <= gi /\ gi < CodeLimit /\ Cardinality(map) < CodeLimit /\ u # NoUcs
  THEN map \cup {<<u, gi>>} ELSE map

(* emit_codepoint: skip the "/", bsearch the name in rufl_glyph_map and    *)
(* call back once per unicode value of the name (the table is sorted by   *)
(* name, then by value), or once with -1 for an unknown name.             *)
EmitCodepoint(map, tok, gi) ==
  LET name == Tail(tok)
      us   == IF name \in DOMAIN GlyphMap THEN SetToSortSeq(GlyphMap[name], <) ELSE <<NoUcs>>
  IN  FoldLeft(LAMBDA m, u : UmapCb(m, gi, u), map, us)

CurMap == umaps[Len(umaps)].map

(* One iteration of the read loop, while !feof(fp): c = fgetc(fp), the     *)
(* lexer, and for a finished token emit_codepoint and i++.  The callback   *)
(* stashes glyph_idx + 1 in umap->encoding on every call.                  *)
ReadChar ==
  /\ pc = "read"
  /\ fpos <= Len(fp) + 1
  /\ LET r == Lex(state, s, Char(fp, fpos))
     IN  /\ state' = r.st
         /\ s' = r.s
         /\ IF r.emit
            THEN /\ umaps' = [umaps EXCEPT ![Len(umaps)].map = EmitCodepoint(CurMap, r.s, i)]
                 /\ i' = i + 1 /\ stash' = i + 1
            ELSE UNCHANGED <<umaps, i, stash>>
  /\ fpos' = fpos + 1
  /\ UNCHANGED <<font, encs, pc, ctx, plane, last, lu, todo, rc, charset, fp>>

(* rufl_unicode_map_cmp orders entries by unicode value.  qsort leaves    *)
(* entries of one value (codes of one glyph) in an unspecified order, the  *)
(* same for equal input; they are taken by code here.                      *)
UnicodeMapCmp(x, y) == x[1] < y[1] \/ (x[1] = y[1] /\ x[2] < y[2])

\* Mutant: the measuring loop starts at entry 1, skipping the first.
EntriesFromOne(map) == Tail(SetToSortSeq(map, UnicodeMapCmp))

(* rufl_init_populate_unicode_map: the map's entries sorted by unicode     *)
(* (qsort with rufl_unicode_map_cmp), the order the loop measures them in. *)
Entries(map) == SetToSortSeq(map, UnicodeMapCmp)

(* The file fopen opens: the encoding file, or, when it cannot be opened,  *)
(* Resources:$.Fonts.Encodings.Latin1.                                     *)
EncodingFiles(e) == {EncFile[e], Latin1}

(* rufl_init_scan_font_in_encoding up to its loop: xfont_find_font of      *)
(* "<font>\E<encoding>" (or the bare name), then                           *)
(* rufl_init_populate_unicode_map: entries = 0 and                         *)
(* xfont_read_encoding_filename (a missing font or encoding is a non-fatal *)
(* errnum) and fopen of the file, or, failing that, of the Latin1 file     *)
(* ("many symbol fonts have no encoding file"), or rufl_IO_ERROR.          *)
OpenEncoding ==
  /\ pc = "open"
  /\ \/ \E soft \in BOOLEAN : AttemptFails(soft, FM_ERROR) /\ UNCHANGED rd
     \/ AttemptFails(FALSE, IO_ERROR) /\ UNCHANGED rd
     \/ /\ fp' \in EncodingFiles(CurEnc)
        /\ fpos' = 1 /\ state' = "start" /\ s' = <<>> /\ i' = 0 /\ stash' = 0
        /\ umaps' = [umaps EXCEPT ![Len(umaps)].map = {}]
        /\ pc' = "read" /\ UNCHANGED <<rc, charset>>
  /\ lu' = last
  /\ UNCHANGED <<font, encs, ctx, plane, last, todo, charset>>

(* The read loop has ended: fclose (rufl_IO_ERROR if it fails), the qsort, *)
(* and the rejection of a UCS font, whose file has more than 256 entries   *)
(* (the stash exceeds 256): FONT_TOO_MANY_CHUNKS, a non-fatal errnum.      *)
(* Otherwise the measuring loop starts.                                    *)
CloseEncoding ==
  /\ pc = "read"
  /\ fpos > Len(fp) + 1
  /\ \/ AttemptFails(FALSE, IO_ERROR) /\ UNCHANGED todo
     \/ stash > CodeLimit /\ AttemptFails(TRUE, FM_ERROR) /\ UNCHANGED todo
     \/ /\ stash <= CodeLimit
        /\ todo' = Entries(CurMap)
        /\ pc' = "scan" /\ UNCHANGED <<umaps, rc, charset>>
  /\ UNCHANGED <<font, encs, ctx, plane, last, lu, rd>>

\* Mutant: last_used++ outside the "block has no row" test.
SetPresentOldCountAlways(pl, used, u) ==
  LET blk   == BlockOf(u)
      fresh == pl.index[blk] = BLOCK_EMPTY
      row   == IF fresh THEN used % NB ELSE pl.index[blk]
      used2 == used + 1
      brk   == fresh /\ used2 = BLOCK_EMPTY
      pl1   == [pl EXCEPT !.index[blk] = row]
  IN  [pl   |-> IF brk THEN pl1 ELSE [pl1 EXCEPT !.block[row] = @ \cup {BitOf(u)}],
       used |-> used2,
       brk  |-> brk]

(* The present branch for u: a block without a row gets row last_used      *)
(* (stored in the 8-bit index) and last_used++; when that reaches 254 the  *)
(* loop breaks before the bit is set.  Otherwise the bit is set.           *)
SetPresentOld(pl, used, u) ==
  LET blk   == BlockOf(u)
      fresh == pl.index[blk] = BLOCK_EMPTY
      row   == IF fresh THEN used % NB ELSE pl.index[blk]
      used2 == IF fresh THEN used + 1 ELSE used
      brk   == fresh /\ used2 = BLOCK_EMPTY
      pl1   == [pl EXCEPT !.index[blk] = row]
  IN  [pl   |-> IF brk THEN pl1 ELSE [pl1 EXCEPT !.block[row] = @ \cup {BitOf(u)}],
       used |-> used2,
       brk  |-> brk]

(* One Font_ScanString of the measuring loop.  An error breaks out of it,  *)
(* the font is lost and FONT_MANAGER_ERROR returned with its errnum; the   *)
(* bits already set stay in the charset and *last is not written.          *)
ScanChar ==
  /\ pc = "scan"
  /\ todo # <<>>
  /\ \/ \E soft \in {FALSE} \cup (IF SoftScanErrors THEN {TRUE} ELSE {}) :
          AttemptFails(soft, FM_ERROR) /\ UNCHANGED <<plane, lu, todo>>
     \/ /\ Head(todo)[1] \notin ScanPresent(font)
        /\ todo' = Tail(todo)
        /\ UNCHANGED <<pc, umaps, plane, lu, rc, charset>>
     \/ /\ Head(todo)[1] \in ScanPresent(font)
        /\ LET r == SetPresentOld(plane, lu, Head(todo)[1])
           IN  /\ plane' = r.pl /\ lu' = r.used
               /\ todo' = IF r.brk THEN <<>> ELSE Tail(todo)
        /\ UNCHANGED <<pc, umaps, rc, charset>>
  /\ UNCHANGED <<font, encs, ctx, last>> /\ UNCHANGED rd

(* Back in rufl_init_scan_font_old: a map with the same entries as an      *)
(* earlier umap is discarded (num_umaps--).                                 *)
DropDuplicate(um) ==
  IF \E k \in 1 .. Len(um) - 1 : um[k].map = um[Len(um)].map
  THEN SubSeq(um, 1, Len(um) - 1) ELSE um

\* Mutant: *last is not written back.
EndEncodingKeepLast ==
  /\ pc = "scan"
  /\ todo = <<>>
  /\ \/ CurEnc # NULL /\ pc' = "done" /\ rc' = OOM /\ umaps' = <<>>
     \/ /\ umaps' = DropDuplicate(umaps)
        /\ pc' = IF CurEnc = NULL THEN "final" ELSE "list"
        /\ UNCHANGED rc
  /\ UNCHANGED <<font, encs, ctx, plane, last, lu, todo, charset>> /\ UNCHANGED rd

(* The end of an attempt: xfont_lose_font, encoding = strdup(name) (not   *)
(* for the Symbol attempt), *last = last_used, then DropDuplicate.        *)
EndEncoding ==
  /\ pc = "scan"
  /\ todo = <<>>
  /\ \/ CurEnc # NULL /\ pc' = "done" /\ rc' = OOM /\ umaps' = <<>> /\ UNCHANGED last
     \/ /\ last' = lu
        /\ umaps' = DropDuplicate(umaps)
        /\ pc' = IF CurEnc = NULL THEN "final" ELSE "list"
        /\ UNCHANGED rc
  /\ UNCHANGED <<font, encs, ctx, plane, lu, todo, charset>> /\ UNCHANGED rd

(* No umap left: nothing stored, rufl_OK.  Otherwise the plane's size     *)
(* field is set to last_used, rufl_init_shrinkwrap_plane runs, the charset *)
(* is realloc'ed to its size and stored with the umaps.                    *)
Final ==
  /\ pc = "final"
  /\ pc' = "done"
  /\ \/ umaps = <<>> /\ rc' = OK /\ UNCHANGED <<umaps, charset>>
     \/ umaps # <<>> /\ rc' = OOM /\ umaps' = <<>> /\ UNCHANGED charset
     \/ /\ umaps # <<>> /\ rc' = OK /\ UNCHANGED umaps
        /\ charset' = <<ShrinkwrapPlane([plane EXCEPT !.used = last])>>
  /\ UNCHANGED <<font, encs, ctx, plane, last, lu, todo>> /\ UNCHANGED rd

Init ==
  /\ font \in Fonts
  /\ encs \in EncLists
  /\ pc = "start" /\ ctx = 1 /\ umaps = <<>> /\ plane = AllocPlane(0)
  /\ last = 0 /\ lu = 0 /\ todo = <<>> /\ rc = "none" /\ charset = NULL
  /\ fp = <<>> /\ fpos = 1 /\ state = "start" /\ s = <<>> /\ i = 0 /\ stash = 0

Next == Start \/ ListFonts \/ OpenEncoding \/ ReadChar \/ CloseEncoding \/ ScanChar
          \/ EndEncoding \/ Final

\* A scan is one call: "done" has no successor.
Spec == Init /\ [][Next]_vars

-----------------------------------------------------------------------------
TypeOK ==
  /\ font \in Fonts
  /\ encs \in EncLists
  /\ pc \in {"start", "list", "open", "read", "scan", "final", "done"}
  /\ ctx \in 1 .. Len(encs) + 1
  /\ umaps \in Seq([enc : Encodings \cup {NULL}, map : SUBSET (Codepoint \X (FirstCode .. CodeLimit - 1))])
  /\ plane \in PlaneRec
  /\ last \in 0 .. MaxRows /\ lu \in 0 .. MaxRows
  /\ todo \in Seq(Codepoint \X (FirstCode .. CodeLimit - 1))
  /\ rc \in {"none", OK, FM_ERROR, OOM, IO_ERROR}
  /\ charset = NULL \/ charset \in Seq(PlaneRec)
  /\ fpos \in 1 .. Len(fp) + 2
  /\ state \in {"start", "comment", "collect"}
  /\ Len(s) <= MaxLen /\ i \in Nat /\ stash \in Nat

(* The encoding file format, word by word, as a reference for the lexer:  *)
(* lines end at C0 codes, words at spaces; a line's words give glyph names *)
(* up to its first word that is not "/" and fewer than MaxLen - 1 name     *)
(* characters (a comment, garbage or a name too long for s).  The k-th     *)
(* name of the file is character code k - 1.                               *)
RECURSIVE SplitAt(_, _)
SplitAt(f, D) ==
  LET k == SelectInSeq(f, LAMBDA c : c \in D)
  IN  IF k = 0 THEN <<f>> ELSE <<SubSeq(f, 1, k - 1)>> \o SplitAt(SubSeq(f, k + 1, Len(f)), D)

Words(line) == SelectSeq(SplitAt(line, {" "}), LAMBDA w : w # <<>>)

IsName(w) == w[1] = "/" /\ Len(w) < MaxLen /\ \A k \in 2 .. Len(w) : w[k] \in NameChars

RECURSIVE LineNames(_)
LineNames(ws) ==
  IF ws = <<>> \/ ~IsName(Head(ws)) THEN <<>> ELSE <<Tail(Head(ws))>> \o LineNames(Tail(ws))

FileNames(f) == FoldLeft(LAMBDA acc, line : acc \o LineNames(Words(line)), <<>>, SplitAt(f, C0))

(* The unicode map the file gives: for each name with a code in           *)
(* FirstCode .. CodeLimit-1, its unicode values, the first CodeLimit of    *)
(* them in file order.                                                     *)
FileMap(f) ==
  LET ns    == FileNames(f)
      us(k) == IF ns[k] \in DOMAIN GlyphMap THEN SetToSortSeq(GlyphMap[ns[k]], <) ELSE <<>>
      cands == FoldLeft(LAMBDA acc, es : acc \o es, <<>>,
                 [k \in 1 .. Len(ns) |->
                    IF FirstCode <= k - 1 /\ k - 1 < CodeLimit
                    THEN [j \in 1 .. Len(us(k)) |-> <<us(k)[j], k - 1>>] ELSE <<>>])
  IN  ToSet(SubSeq(cands, 1, IF Len(cands) < CodeLimit THEN Len(cands) ELSE CodeLimit))

(* Reading an encoding file yields what the format gives: when the read    *)
(* loop of rufl_init_read_encoding has ended and the file is closed, a     *)
(* file of more than CodeLimit names is rejected as a UCS font, and any    *)
(* other is measured with exactly FileMap's entries.  This is about the    *)
(* lexer's handling of comments, garbage, long tokens and the final EOF,   *)
(* the i++ per token, the stash in umap->encoding, and umap_cb's limits.   *)
EncodingFileRead ==
  [][pc = "read" /\ pc' \notin {"read", "done"} =>
       IF Len(FileNames(fp)) > CodeLimit THEN pc' # "scan"
       ELSE pc' = "scan" /\ CurMap' = FileMap(fp)]_vars

(* A scan that returns rufl_OK with a charset has recorded exactly the     *)
(* present characters of the encodings it kept: rufl_character_set_test on *)
(* the shrink-wrapped plane agrees with the measuring loop, for every      *)
(* codepoint, across several encodings sharing last_used, the discarding   *)
(* of duplicate maps, and the removal of full blocks.                      *)
ScanOldCoverageExact ==
  (pc = "done" /\ rc = OK /\ charset # NULL) =>
     \A u \in Codepoint :
        CharacterSetTest(charset, u)
          <=> u \in ScanPresent(font) /\ \E k \in 1 .. Len(umaps) : u \in {e[1] : e \in umaps[k].map}

(* The charset the old scanner stores has the shape rufl_internal.h        *)
(* documents: its size field counts the rows it holds, and its index maps  *)
(* blocks one-to-one onto those rows.  An index entry past the size is a   *)
(* read past the realloc'ed buffer in rufl_character_set_test.             *)
ScanOldCharsetWellFormed ==
  (pc = "done" /\ rc = OK /\ charset # NULL) => WellFormedCharset(charset)

=============================================================================
