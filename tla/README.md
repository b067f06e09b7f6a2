# TLA+ models of RUfl's coverage bitmaps, substitution index and cache

This directory models `src/librufl` (RUfl, the RISC OS Unicode font library of
this NetSurf port) for the TLC model checker. The other code under `src/`
(`libcss` opacity properties, the `libhubbub` perf driver, the `libpencil`
test) shares no state with RUfl and is listed in `PROJECT.json` as not modelled.

## 1. The system

RUfl answers two questions for a text renderer: "does font F have a glyph for
codepoint U?" (`rufl_character_set_test`) and "which font, in priority order,
should stand in for U?" (`rufl_substitution_table_lookup`). `rufl_init`
(`rufl_init.c`) builds everything once:

1. It probes the Font Manager (`Homerton.Medium\EUTF8`). A missing encoding means
   an old, non-Unicode Font Manager. Any other error is fatal.
2. It enumerates the installed fonts (`rufl_init_font_list`, `rufl_init_add_font`).
3. It loads the cache file (`rufl_load_cache`). The cache attaches stored
   charsets to fonts whose names match case-insensitively.
4. It scans every font still without a charset: `rufl_init_scan_font`, or
   `rufl_init_scan_font_old` on an old Font Manager.
5. It builds one substitution table per Unicode plane
   (`rufl_substitution_table_init`). Each table is either Direct or CHD, chosen
   by size estimate.
6. If anything was scanned, it rewrites the cache (`rufl_save_cache`).
7. It builds the family menu.

Any failed step calls `rufl_quit`, which frees everything. It also frees the
substitution tables through `rufl_substitution_table_fini`.

| Part | State | Operations | Interacts with |
|---|---|---|---|
| CoverageSet | plane segments: metadata (E bit, plane id, size), `index[256]` with EMPTY=254/FULL=255, `block[254][32]` | set test | everything that reads a charset |
| CoverageBuilder | `planes[17]` (NULL, marker 1, or a working plane), Font Manager handle | find font, pass 1 (`find_plane_cb`), allocate planes, pass 2 (`find_glyph_cb`), shrink-wrap, concatenate | Font Manager; stores into `rufl_font_list[i].charset` |
| Old scanner | `last_used`, per-encoding unicode maps | scan per encoding, populate maps | encoding files |
| Encoding file parser | `FILE *`, lexer state, token buffer `s[200]`, code `i` | read, lex, look up glyph names, call back | the old scanner's unicode maps |
| SubstitutionIndexBuilder | `charsets[]` per plane, 64-bit work table, block histogram | fill map per block, estimate, build Direct or CHD | reads every charset; owns `rufl_substitution_table[17]` |
| Direct / CHD tables | index + rows / buckets, displacement bitmap, slot table | build, lookup, free | lookup API |
| Font list and families | `rufl_font_list[]` (identifier, family, weight, slant), `rufl_family_list`, `rufl_family_map[].font[9][2]` | enumerate (`xfont_list_fonts`), add a face, build the family menu | Font Manager; every later step indexes the font list |
| Cache | the file `<Choices>.RUfl.cache<version>` | save (rewrite), load (attach by name) | font list, charsets |
| Lifecycle | `rufl_font_list`, `rufl_font_list_entries`, the tables | `rufl_init`, `rufl_quit` | all of the above |

### What makes it hard

It is single-threaded, so there are no interleavings. The hard behaviours are
sequences of steps, each of which may fail, and the clean-up paths that follow:

- the two enumeration passes use different filters;
- plane allocation fails part-way through;
- the Font Manager fails in either pass;
- `malloc(0)` when no plane is allocated;
- the memmove and re-indexing of shrink-wrap at the row boundary;
- the extension-bit walk over concatenated segments;
- a save that fails part-way and leaves a truncated cache, which the next load
  reads with `break`s that leave only the inner loop;
- a substitution-table build that fails on plane k after planes 0..k-1 were
  built and freed but not cleared, followed by `rufl_quit`;
- CHD's bucket-size limits (`hashes[8]`, a 4-bit bucket size) and its
  cycle-following shuffle.

## 2. Modules

| Module | Models | Source |
|---|---|---|
| `Charset` | struct `rufl_character_set`, `rufl_init_alloc_plane`, the present branch of `find_glyph_cb`, `rufl_init_shrinkwrap_plane`, `rufl_init_shrinkwrap_planes`, `rufl_character_set_test` (pure operators, RECURSIVE where the code loops) | `rufl_internal.h`, `rufl_init.c:455-551`, `rufl_character_set_test.c` |
| `RuflScan` | `rufl_init_scan_font` as a state machine over one font | `rufl_init.c:637-808` |
| `MC_RuflScan` | the scaled constants for TLC | |
| `ChdHash` | `ceil2`, `bits_needed`, `mround`, `mmix`, `hash1`, `hash2`, exact on 32-bit words held as two 16-bit halves | `rufl_substitution_table.c:124-210` |
| `Chd` | `chd()` and `create_substitution_table_chd()` as steps over one record variable `chd`; `rufl_substitution_table_lookup_chd` and the CHD size estimate as operators | `rufl_substitution_table.c:216-309, 405-678` |
| `ChdTable` | one `chd()` call on an intermediate table and the lookups on its result | `rufl_substitution_table.c:1018-1030` |
| `SubstTable` | `create_substitution_table_for_plane`, `fill_map_for_block`, `direct()`, both estimators, `rufl_substitution_table_init`/`_fini`/`_lookup`, with CHD entered through `Chd` | `rufl_substitution_table.c:689-1106` |
| `MC_ChdTable`, `MC_SubstTable` | key sets, font coverages and a precomputed `hash2` table for TLC | |
| `RuflScanOld` | `rufl_init_scan_font_old`, `rufl_init_scan_font_in_encoding` and the encoding file parser (`rufl_init_read_encoding`, `emit_codepoint`, `rufl_init_umap_cb`) as a state machine over one font, on `Charset` | `rufl_init.c:829-1420` |
| `MC_RuflScanOld` | one plane of five blocks, four encoding files, the Symbol and Latin1 files | |
| `FontRegistry` | the abstract promise of `rufl_init`: the registry is empty or holds, for every enumerated font, the coverage a scan gives now (design 4.3: the cache is an optimisation) | design |
| `FontList` | how `rufl_init_add_font` reads a local name: family, weight (`rufl_weight_table`), slant, unknown parts, and the family map's preference for plain faces (pure operators) | `rufl_init.c:59-82, 374-437`, `rufl_internal.h:151-154` |
| `RuflCache` | `rufl_init` step by step (`rufl_init_font_list` and `rufl_init_add_font` one face at a time, `rufl_load_cache` one `fread` at a time, the font loop, the substitution tables, `rufl_save_cache`, the family menu, `rufl_quit` on every error), and `rufl_quit` | `rufl_init.c:118-445, 1473-1877`, `rufl_quit.c` |
| `MC_RuflCache` | five faces in two families, three enumerations and the scan results of both Font Managers | |

### Scaling (Charset)

The code has 17 planes × 256 blocks × 256 codepoints. The last two index
values are sentinels, leaving 254 rows.

The model keeps that shape: `NP` planes of `NB` blocks of `BS` codepoints, with
sentinels `NB-2` (EMPTY) and `NB-1` (FULL), leaving `NB-2` rows.
`MC_RuflScan` uses `NP = 2`, `NB = 4`, `BS = 2`. That gives:

- two planes, so the segment walk and the extension bit matter;
- two rows per plane, so row removal shifts rows;
- two-codepoint blocks, so both full and partial blocks occur;
- blocks 2 and 3 of each plane unassigned, the "two unused blocks per plane"
  assumption of `rufl_internal.h`.

That assumption does not hold for the private-use planes 15 and 16, where
every block may hold glyphs. The model does not give any plane that freedom,
so the stop at `BLOCK_EMPTY` rows (`rufl_init.c:709`) is never reached and no
run checks it.

Codepoint 0 stands for a C0 control, 1 for U+0020, 2 for U+00A0 (another
space), 3 for a C1 control, and 8..11 for plane-1 characters.

### RuflScan: state and actions

| Variable | Code |
|---|---|
| `font` | what the Font Manager reports per codepoint: unmapped, none (no or empty glyph), blank (zero box, non-zero advance), ink |
| `pc` | position in `rufl_init_scan_font`; `crashed` = NULL dereference, `aborted` = double free, `hung` = endless clean-up loop |
| `cursor` | position of the enumeration in the mapped codepoints |
| `planes` | `planes[17]`: NULL, `MARK` (the `(void *) 1` of `find_plane_cb`) or a working plane |
| `handles` | the Font Manager handle held |
| `rc`, `charset` | the return code and `rufl_font_list[i].charset` |

Actions:

- `FindFont`: `xfont_find_font`, which may fail; failure returns OK with no
  charset.
- `Pass1Step`: one `find_plane_cb` call, or an enumeration error.
- `AllocPlanes`: the allocation loop. Calloc may fail at any marked plane, and
  the clean-up loop's outcome follows.
- `Pass2Step`: one `find_glyph_cb` call. The alternatives are:
  - an error from the enumeration or from `xfont_scan_string`;
  - the character is skipped or absent;
  - a NULL plane is dereferenced;
  - the character is set.
- `Finish`: lose the font, shrink-wrap and concatenate (`malloc` may fail or be
  `malloc(0)`), then free the planes.

Every font over the assigned codepoints is an initial state. The choices are
narrowed to those the code tells apart:

- a control is either unmapped or mapped;
- "blank" is offered only to spaces, because for other characters it behaves
  as "none".

That gives 5184 fonts.

### Chd: state and actions

`chd` is a record holding the locals of `chd()` and
`create_substitution_table_chd()`. Its `stage` says which loop runs:

| Stage | Code | Step out |
|---|---|---|
| `idle` | `chd()` not running | the caller's `ChdStart(table)` |
| `bucketed` | after the first loop: `g = hash1(key) & (buckets-1)` per entry | `ChdSort`: the 4-bit size stash (`count % 16`) and the `qsort` with `TableChdCmp` (`table_chd_cmp`, descending on size:g) |
| `displace` | the bucket loop at entry `i` | `ChdBucket`: one bucket's `do { d++ } while` search (first `d` whose slots are distinct and unclaimed, by `TestAndSetBits` on the bitmap as a set), `displacements[g] = d`, the bitmap, `i += size`; `ChdCreate` once `i > n`: the map of `bits_needed(max_d)`-bit fields, MSB first, and the table grown to `range` slots |
| `shuffle` | the exchange loop at slot `i` | `ChdShuffle`: one turn (skip an empty slot, exchange with slot `f`, or pass an entry in place) |
| `hang` | a bucket whose 4-bit size reads 0 (16 keys) never advances `i` | none |
| `bounded` | the search passed `MaxD` (the code has no bound) | none |

`ChdReturned` (the shuffle has passed entry `n`) is when `chd()` returns OK;
`ChdResult` is the stored table with the metadata stripped. A step also
records whether any probe found more than eight distinct slots, which is a
write past `hashes[8]`.

TLC evaluates `hash2` by its definition, one 32-bit multiplication at a time.
The MC modules therefore give `Slot` a precomputed table over their keys and
`1..MaxD` (`MC_Hash2`), leaving any other argument to the definition.

### Scaling and choices (ChdTable, SubstTable)

- `MC_ChdTable` uses ten 16-bit keys. Eight of them (0xF600, 0xF60F, ...)
  share `hash1 & 15`, so any subset of nine or more forms one bucket of at
  least eight keys. The other two are 0x0020 and 0x1000. Every non-empty subset
  is an input (1023 tables), which covers one to four buckets, ranges 1 to 16,
  displacements that need 1 to 8 bits and maps whose fields straddle bytes.
  `MC_KeysOverflow` is nine keys of one class for the overflow run.
- `MaxD = 1024` (ChdTable) and `256` (SubstTable) bound the search; no input
  reaches it, so `bounded` never occurs in a passing run.
- `MC_SubstTable` has two planes of four two-codepoint blocks (as in
  `MC_RuflScan`) and two or three fonts, each with one of five glyph sets or no
  charset. The code's sizes are scaled in the same way:
  - `NarrowMod = 4` puts the 8-bit/16-bit width boundary (255 fonts) at two
    fonts, so both widths occur;
  - `DirectHeader = 14` and `ChdHeader = 8` shift the estimate comparison so
    that both Direct and CHD planes are built.
- `glyphs` is ghost state: the glyph set the Font Manager reported. The
  property compares the lookup against it, not against the charset.

### SubstTable: state and actions

| Variable | Code |
|---|---|
| `glyphs`, `charsets` | each font's glyph set and `rufl_font_list[i].charset` (via `Charset` with the scan's ascending insert and shrink-wrap) |
| `tables` | `rufl_substitution_table[plane]`: `NULL`, a Direct or CHD table, or `FREED` (a dangling pointer) |
| `plane`, `pc` | the init loop; `pc` is `idle`, `building`, `chd` (inside `chd()`), `ok`, `failed` or `aborted` (double free) |

Actions:

- `StartInit`: `rufl_init` reaches table construction with a new font list.
- `BuildPlane`: the whole of `create_substitution_table_for_plane` except
  `chd()`. It stores NULL (no charsets or no entries), stores a Direct table,
  or enters `chd()`.
- `ChdRun`, `ChdDone`: `chd()`'s steps and its return.
- `BuildPlaneFails`: any allocation of the plane build fails. The clean-up loop
  frees the planes below it without clearing them.
- `Fini`: `rufl_quit` calls `rufl_substitution_table_fini`, then the library
  may be initialised again.

`CHECK_DEADLOCK FALSE`: `chd()` is one call that stops, and the `aborted` and
`hang` states are where the C program crashes or spins.

### RuflScanOld: state and actions

With a Font Manager that has no Unicode support, a font is scanned once per
encoding the Font Manager lists for it. Each encoding's file gives a unicode
map, and every mapped character is measured with `Font_ScanString`. All
encodings write into one plane-0 charset, and its row counter `last_used` is
handed from one encoding to the next through `*last`.

| Variable | Code |
|---|---|
| `font` | what `Font_ScanString` reports per codepoint: none, blank, ink |
| `encs`, `ctx` | the encodings `xfont_list_fonts` returns and its context |
| `umaps` | `umap[0 .. num_umaps-1]`: encoding (NULL for the Symbol attempt) and the map, a set of (unicode, code) entries |
| `fp`, `fpos` | the characters of the open encoding file and the next `fgetc` position |
| `state`, `s`, `i` | the lexer state of `rufl_init_read_encoding`, the token collected, the next code |
| `stash` | `umap->encoding` used as an integer: `glyph_idx + 1` of the last callback |
| `plane`, `last`, `lu` | the working charset, `last_used` of the caller and of the callee |
| `todo` | the map entries not yet measured, in `qsort` order |
| `rc`, `charset` | the return code and the stored charset |

Actions: `Start` (calloc), `ListFonts` (one `xfont_list_fonts` and the umap
`realloc`, and at the end the Symbol attempt's slot), `OpenEncoding`
(`xfont_find_font`, `xfont_read_encoding_filename`, `fopen` of the file or
of the Latin1 file), `ReadChar` (one turn of the read loop: `fgetc`, the
lexer `Lex`, and for a finished token `emit_codepoint` and the callbacks
`rufl_init_umap_cb`), `CloseEncoding` (`fclose`, the `qsort`, the UCS
rejection), `ScanChar` (one `Font_ScanString`), `EndEncoding` (`strdup`,
`*last`, `DropDuplicate`) and `Final` (size field,
`rufl_init_shrinkwrap_plane`, `realloc`). `AttemptFails` is the caller's
split between the non-fatal errnums (the umap slot is reused, the loop goes
on) and every other error.

The parser is modelled as the old Font Manager runs it, its only caller
being the old scanner: the sparse-encoding and `/uniXXXX` branches, which
need `rufl_old_font_manager` false, are left out. Characters are one-letter
strings; `C0` stands for every code below 0x20 and the `EOF` that `fgetc`
returns, which the lexer sees once before `feof` stops the loop. Glyph names
are sequences of name characters, looked up in `GlyphMap` (`rufl_glyph_map`).
`EncodingFileRead` compares the character-level lexer with `FileNames` and
`FileMap`, a word-level definition of the format (lines, words, a line cut at
its first word that is not a short `/name`), written apart from the lexer.

Bounds (`MC_RuflScanOld`): one plane of five blocks of two codepoints, so
three rows and a full block both occur. Block 2 plays the surrogates: no
glyph maps to it, so the 254-row break stays out of reach as it does in the
BMP. Codes stop at 4 (`CodeLimit`, 256 in the code), codes below 1 are
ignored (`FirstCode`, 32) and `s` holds 3 characters (`MaxLen`, 200). Glyph
`c` has two unicode values. The files (see `MC_RuflScanOld.tla`) give a
comment line and a last name with no newline (`A`), `A`'s map from other
text with a name too long for `s` (`C`), a garbage word that cuts its line
(`B`), one name too many (`U`, rejected as UCS), exactly `CodeLimit` names
(`A`) and a map that fills before the last name (the Symbol file). Any
file may be replaced by the Latin1 file. The encoding lists are none, `A`,
`A,B`, `A,C` (`C`'s map duplicates `A`'s and is discarded) and `U,B`. With
no list or no usable encoding, the Symbol attempt runs. There are 24 fonts.
`SoftScanErrors` says whether `Font_ScanString` may fail with a non-fatal
errnum.

### RuflCache: state and actions

The cache file is a sequence of *fields*, one per `fwrite` of
`rufl_save_cache` (the plane segment's one `fwrite` is two fields, because the
reader reads its metadata word and its index apart). A field the writer did
not finish is one the reader's `fread(..., 1, fp)` fails on, so every file is
a prefix of what the writer meant to write, cut at a field boundary. A
charset is abstracted to the planes of its segments; a unicode map to its
encoding name (or `NoEnc` for a NULL encoding) and its entry count.

| Variable | Code |
|---|---|
| `list`, `oldfm` | `rufl_font_list[].identifier`, `rufl_old_font_manager` |
| `fonts` | `rufl_font_list[].charset` with its umaps, or NULL |
| `file` | the cache file |
| `pc`, `i`, `changes` | where `rufl_init` is, its font loop and `changes` |
| `cur`, `ld` | the read position and the locals of `rufl_load_cache` |
| `heap` | `identifier`, `charset`, `umap` of the load: none, live or freed |
| `families`, `fmap`, `attr` | `rufl_family_list`, `rufl_family_map[f].font[w][s]` (as `fmap[f][<<w, s>>]`), `rufl_font_list[].family/weight/slant` |
| `enum`, `ectx` | what `xfont_list_fonts` enumerates in this call, and the enumeration context |
| `menu` | `rufl_family_menu`: NULL, or its entries (family index, text pointer, `wimp_MENU_LAST`) |
| `flp` | `rufl_font_list != NULL`, which `rufl_quit` tests before freeing anything |

One action per step: `StartInit` (the already-initialised check and the
probe), `ListFonts` (one turn of `rufl_init_font_list`, with `AddFont` for the
face it returns), `LoadCache` (open, version, font manager flag), `LoadLen`,
`LoadId`, `LoadMeta`, `LoadIndex`, `LoadNmaps`, `LoadElen`, `LoadEnc`,
`LoadEntries`, `LoadMap`, `LoadCleanup`, `LoadPut` (the `lfind` and the
install or free), `ScanFont` (one turn of the font loop), `SubstInit`,
`Save` (with `SaveCache`: the full file, the old file when the open fails, or
any prefix when an `fwrite` or the `fclose` fails, all returning `rufl_OK`),
`Menu`, and `Quit`. Each short read takes the code's own path: the `free`s
it does, then `break` (of the loop it is in) or `return`. A `free` of a buffer
already freed, and the `lfind` on a freed identifier, stop the model in
`double_free` or `use_after_free`. A read error (not end of file) takes the
same path as end of file and is not modelled apart.

`fwrite` and `fread` return 0 when the size is 0. A unicode map with no
entries therefore stops the save at its `map` field (`Written`), and the load
treats it as a short read (`LoadMap`). `MC_RuflCache` gives font `f2` such a
map on the old Font Manager.

The font list. `ListFonts` stops at the end of the enumeration or at
`MaxFaces` (`UINT16_MAX`) faces; an error of `xfont_list_fonts` ends the call
through `rufl_quit`. `AddFont` skips a face, returning `rufl_OK`, when
`canonicalise_path` fails or its path holds `RiScript` or `!TeXFonts`
(`Ignored`). A failed `realloc` or `strdup` returns `rufl_OUT_OF_MEMORY`.
Otherwise the face is appended with a NULL charset, and it starts a new family
when its family name differs from the *last* family's (`NewFamily`). The slot
of its style takes it when the slot is `NO_FONT` or the face has no unknown
name part (`Place` in `FontList`). The probe's only effect kept is
`rufl_old_font_manager`, which the code sets and never clears; `Init` has it
FALSE as the static initialiser does. `rufl_init` re-runs from `ready` when the
call before it listed no face, because the already-initialised check reads
`rufl_font_list_entries`.

The family menu and `rufl_quit`. `Menu` is the end of `rufl_init`: the cache
reset, then `rufl_init_family_menu`, whose `malloc` may fail (then
`rufl_quit`). `MenuOf` gives its entries: entry `k` points at
`rufl_family_list[k]` (the text is not copied), the last one carries
`wimp_MENU_LAST`, and an empty family list gives one shaded empty entry.
`RuflQuit(fl)` is the body of `rufl_quit`. When `rufl_font_list` is NULL it
returns at once, so the menu of the call before survives it. Otherwise it
frees the font list, the families and the menu together. `InitFails` is every
error return of `rufl_init`: `rufl_quit`, then `idle`.

The refinement: `RuflCache` instantiates `FontRegistry` with `reglist <- list`,
`regmode <- oldfm`, `ready <- (pc = "ready")`, `coverage <- fonts` while ready
(else `<<>>`) and `Truth <- Scan`, and `Lists <- Kept`, the subsequences of the enumerations
(faces are skipped). `RegistryRefinement` is `Reg!RegSpec`
checked as a property: every completed `rufl_init` publishes, font by font,
what a fresh scan under the current Font Manager gives, whether it came from
the cache or from the scan, and with no stale record of a removed font.

Fairness: `FairSpec` is `Spec /\ WF_vars(InitStep)`. `rufl_init` is one
synchronous call that always takes its next step. Whether the host calls
`rufl_init` or `rufl_quit` is not assumed, so `StartInit` and `Quit` have no
fairness, and `CHECK_DEADLOCK FALSE` is set because the host may stop calling.

Bounds: five faces in enumerations `<<f1,f2>>`, `<<f2,f3,f4>>`, `<<f5>>`, in
identifier order as the Font Manager lists them. Homerton.Medium (`f1`) comes
before Homerton.Medium.Cond (`f2`), and Trinity.Cond.Medium.Italic (`f3`)
before Trinity.Medium.Italic (`f4`), so the plain face of a style is listed
both first and second. `f5` is a RiScript font, and with `MaxFaces = 3` the
cap is reached. Any face may be skipped, so lists shrink and grow between
calls: records of removed fonts and fonts new to the cache both occur. Both Font
Managers, a font whose scan fails (`f3` on the new one), a font with two
planes, a map with no encoding and a map with no entries, allocation failures
and a save that may fail at any field. Files reach every cut point of every
record kind.

## 3. Runs

| Run | Checks | Result |
|---|---|---|
| `scan` | `TypeOK`, `ScanCoverageExact`, `ScanCharsetWellFormed` | pass (about 146k states, all actions and branches fire) |
| `scan_null_plane` | `NoNullPlaneDeref` | violation: U+0020 alone in plane 0 |
| `scan_handle_leak` | `HandleReleasedOnReturn` | violation: pass-1 error leaks the font handle |
| `scan_free_loop` | `ScanTerminates` (under weak fairness) | violation: `while (plane > 0) free(planes[plane-1]);` |
| `scan_old` | `TypeOK`, `ScanOldCoverageExact`, `ScanOldCharsetWellFormed`, `EncodingFileRead` | pass (about 18k states; every encoding-loop path, every lexer transition, duplicate and UCS encodings, Symbol and Latin1 fallbacks, failures) |
| `scan_old_soft_error` | `ScanOldCharsetWellFormed` | violation: a non-fatal `Font_ScanString` error leaves rows past the stored size |
| `chd` | `TypeOK`, `ChdLookupExact`, `ChdSlotsArePermutation` | pass (about 15.7k states) |
| `chd_bucket_overflow` | `NoHashesOverrun` | violation: nine keys in one bucket write `hashes[8]` |
| `subst` | `TypeOK`, `LookupMatchesPriority` | pass (about 1.7k states; Direct narrow and wide, CHD, NULL planes, failures, re-init) |
| `subst_double_free` | `NoDoubleFree` | violation: a failed init followed by `rufl_quit` frees tables twice |
| `cache` | `TypeOK`, `FamilyMapExact`, `FamilyMenuSound`, `RegistryRefinement`, `InitReturns` (under `FairSpec`) | pass (about 34.8k states; every list and load step, both Font Managers, skipped and ignored faces, truncated saves, re-init) |
| `cache_truncated` | `NoLoadMemoryFault` | violation: a cache cut inside a charset leads to a use after free or a double free |

The substitution-table properties say:

- `ChdLookupExact`: after `chd()` returns, the lookup of every key, present or
  not, gives its font or NOT_AVAILABLE. This needs three things to agree: the
  displacement search claimed disjoint slots, the map is written and read with
  the same bit layout, and the shuffle put every entry in its slot.
- `ChdSlotsArePermutation`: the shuffled slots hold every entry exactly once.
- `LookupMatchesPriority`: after a successful `rufl_substitution_table_init`,
  every codepoint's lookup names the first font whose glyph set has it. This
  follows the chain from scan to charset, segment walk, priority fill, table
  layout and lookup.

Findings:

- `chd_bucket_overflow`: `hash1` is linear, so `hash1 & (buckets-1)` puts 16
  keys of every 256-codepoint block in each class when there are 16 buckets.
  A plane table of 9 to 12 entries can therefore hold a bucket of nine, and
  the probe writes past `hashes[8]`. A bucket of 16 reads as size 0 and
  spins for ever (stage `hang`). That case needs a table of at least 16
  entries; the chd run's ten keys do not reach it, so it is not checked.
- `subst_double_free`: `rufl_substitution_table_init` frees the tables of
  the planes below a failing plane and leaves the pointers. `rufl_init` then
  calls `rufl_quit`, which frees them again.
- The design gives the bucket count as the next power of two at least N/4.
  The code computes `ceil2((n + 3) & ~3)`, which rounds n up to a multiple of
  4 without dividing, so there are about N buckets and the average is about
  one key per bucket. `Chd` follows the code. This is also what makes the
  16-keys-per-class figure above possible.

- `scan_old_soft_error`: `rufl_init_scan_font_in_encoding` returns
  `FONT_MANAGER_ERROR` on a `Font_ScanString` failure without writing
  `*last` (`rufl_init.c:1119`), but the rows it gave blocks stay in the
  charset. If the errnum is one the caller treats as non-fatal (font, file or
  encoding not found, too many chunks), the scan goes on. A later encoding
  hands out the same rows again, and the final size field can be smaller than
  a row the index points to. TLC's trace (32 states): the font inks only
  U+2 and lists encodings `<<A, B>>`. `A`'s file is missing, so the Latin1
  file is read; its one entry maps a codepoint with no glyph, and `A`'s map
  is kept with no row given out. `B` maps U+2 and U+3: U+2 takes row 0
  (`last_used` 1 in the callee), then the scan of U+3 fails with a non-fatal
  errnum, so `B`'s map is dropped and `*last` stays 0. The stored plane has
  size 0 rows and block 1's index entry points at row 0. This happens only if
  `Font_ScanString` can raise one of those errnums. The Font Manager loads
  glyph data on demand, which makes that plausible but not certain.
- Two earlier violation runs were retired in favour of the old scanner's
  runs. Neither observation is checked any more:
  - `malloc(0)` for a font with no present glyph (`rufl_init.c:530`) stores a
    zero-length buffer as the charset when the C library returns non-NULL;
  - the design (4.1) says plane 0 ends up last, while the code and
    `rufl_internal.h` store planes ascending. `ScanCharsetWellFormed` states
    the code's order.
- `cache_truncated`: in `rufl_load_cache`, a short read of a plane's metadata
  frees `identifier` and breaks out of the charset `do`-`while` only
  (`rufl_init.c:1697`). On a new Font Manager the code then calls `lfind` on
  the freed identifier and frees it again. On an old one the `num_umaps` read
  fails too and frees `charset` and `identifier` a second time. The same
  happens after a short index read (line 1731). `rufl_save_cache` leaves such
  a file whenever an `fwrite` or the `fclose` fails, and it ignores the
  failure. The design (section 6) says a malformed record only ends the load
  there and forces a rescan.
- A unicode map with no entries ends every save at that font, and every load
  stops there. On an old Font Manager the fonts after it are rescanned at
  every `rufl_init` and the cache never warms. `RegistryRefinement` shows
  that the published coverage is still right.

The cache properties say:

- `RegistryRefinement`: `rufl_init` implements `FontRegistry`. Each completed
  call publishes the current truth for the current list, whatever the cache
  held, cut or stale.
- `FamilyMapExact`: at every step the family map is the font list grouped.
  Families are distinct, every face is filed under the family, weight and
  slant its local name gives, and a slot holds `NO_FONT` exactly when no listed
  face has that style. Otherwise it holds such a face, and a plain one if
  there is one. A new-family test against the first family instead of the last
  one, and a slot that keeps its first face, both break it.
- `FamilyMenuSound`: a menu entry never names a family that is not in the
  family list with that text, across failed calls, `rufl_quit` with or
  without a font list, and a new `rufl_init` after one that listed no face.
  Once `rufl_init` returns OK, the menu lists exactly the families. Freeing
  the family list in `rufl_quit` but not the menu breaks it.
- `InitReturns`: every `rufl_init` that starts listing fonts returns (to ready or,
  through `rufl_quit`, to idle) or reaches undefined behaviour; no loop of the
  load or of the font loop spins.

The two scan properties say:

- `ScanCoverageExact`: when the scan returns OK with a charset,
  `rufl_character_set_test` on the buffer agrees with the presence rule for
  every codepoint.
- `ScanCharsetWellFormed`: the buffer has the shape `rufl_internal.h`
  documents. Planes ascend, the E bit is on all but the last segment, the index
  maps blocks one-to-one onto rows `0..used-1`, and every row is partial.

Fairness: `Spec` has `WF_vars(Next)`. A scan is one synchronous call, and the
code always takes its next step while it has one. The `hung` state has no
successor, because the loop's steps change nothing. So the liveness run asks
whether every call reaches a return or a crash.

`CHECK_DEADLOCK FALSE` is set because a scan is one call and it stops.

## 4. Plan

The module order below follows importance: what a wrong answer would break
first, and where the clean-up paths are most tangled.

1. **Charset, RuflScan** (done): the core bitmap and its builder.
2. **SubstTable** (done): Direct and the plane builder, with the init loop,
   its failure path and `rufl_quit`.
3. **ChdHash, Chd, ChdTable** (done): CHD as steps, exactness, the slot
   permutation, and the `hashes[8]` overrun.
4. **RuflCache, FontRegistry** (done): save with a failure at any field,
   load with its `break`s, the `rufl_init` steps around them and `rufl_quit`;
   the refinement of `FontRegistry`, and the truncated-cache finding.
5. **Composition**: drive `RuflCache`'s `ScanFont` with `RuflScan`'s outcomes
   and `SubstInit` with `SubstTable` instead of their abstractions; a second
   `rufl_init` after a complete save that scans nothing.
6. **RuflScanOld** (done): the `last_used` counter carried across encodings,
   the non-fatal errors, duplicate maps and the Symbol fallback.
7. **Encoding file parser** (done): the lexer against a word-level
   reference of the format, the callbacks' limits and the UCS-detection
   count, composed into `RuflScanOld`.
8. **Font list** (done): `rufl_init_font_list`, `rufl_init_add_font` and
   `rufl_init_family_menu` composed into `RuflCache`, with the family map
   checked against the names and the menu against the family list.
9. **stdio faults**: an `fgetc` that fails without end of file, which the
   read loop of `rufl_init_read_encoding` never leaves.

## 5. Not modelled

See the `components` of `PROJECT.json`:

- the status window (Wimp UI);
- the Font Manager probe of `rufl_init` beyond the flag it sets, and
  `rufl_open_cache`'s path building (I/O; a cache of another version has
  another file name);
- the menu's Wimp layout (title, colours, flags other than
  `wimp_MENU_LAST` and shading); its entries are modelled;
- the allocations of the substitution tables in `RuflCache`, so their leak by
  `rufl_quit` after a call that listed no face is not observable (the menu
  that survives it is modelled);
- the branches compiled out by `#define SUPPORT_UCS_GLYPH_NAMES 0` and
  `#define SUPPORT_UCS_SPARSE_ENCODING 0` (`rufl_init.c:31,33`): `fromhex`,
  the sparse-encoding path and `/uniXXXX` glyph names (the code would take
  them only with a Unicode Font Manager, which never reads encoding files);
- an `fgetc` in the encoding file parser that fails without end of file;
- read errors other than end of file in `rufl_load_cache` (they take the same
  path);
- `rufl_dump_state` (output);
- the test harness;
- the sibling libraries.
