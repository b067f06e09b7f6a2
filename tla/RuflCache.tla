------------------------------ MODULE RuflCache ------------------------------
(***************************************************************************)
(* rufl_init (rufl_init.c) around its cache: the font list and families,  *)
(* rufl_load_cache one fread at a time, the scan of every font the cache   *)
(* did not supply,                                                         *)
(* the substitution tables, rufl_save_cache and rufl_quit, repeated.       *)
(*                                                                         *)
(* A charset is abstracted to the planes of its segments, in order (the    *)
(* E bit is set on all but the last); a unicode map to its encoding name   *)
(* and its entry count.  The cache file is a sequence of fields, one per   *)
(* fwrite of rufl_save_cache.  A field the writer did not finish is one    *)
(* the reader's fread(..., 1, fp) fails on, so a file is always a prefix   *)
(* of what the writer meant to write, cut at a field boundary.             *)
(***************************************************************************)
EXTENDS Integers, SequencesExt, FontList

CONSTANTS
  Ids,          \* font identifiers
  Enums,        \* the font lists xfont_list_fonts may enumerate, in its order
  Ignored,      \* fonts whose path holds RiScript or !TeXFonts
  MaxFaces,     \* UINT16_MAX: rufl_init_font_list stops at this many faces
  TruthNew,     \* [Ids -> plane sequence or NULL]: what rufl_init_scan_font gives
  TruthOld,     \* [Ids -> map sequence or NULL]: what rufl_init_scan_font_old gives
  NoEnc,        \* a unicode map with umap->encoding == NULL
  Version,      \* rufl_CACHE_VERSION
  CallsMayFail, \* malloc, calloc, realloc and Font Manager calls may fail
  IOMayFail,    \* rufl_open_cache, fwrite and fclose may fail
  NULL

VARIABLES
  list,     \* rufl_font_list[j].identifier
  oldfm,    \* rufl_old_font_manager
  fonts,    \* fonts[j]: rufl_font_list[j].charset with its umaps, or NULL
  file,     \* the cache file
  pc,       \* where rufl_init is; double_free, use_after_free: undefined behaviour
  i,        \* the font loop of rufl_init
  changes,  \* a font was scanned in this call
  cur,      \* the read position of rufl_load_cache, a field index
  ld,       \* the locals of rufl_load_cache
  heap,     \* the buffers rufl_load_cache holds: none (NULL), live or freed
  families, \* rufl_family_list
  fmap,     \* rufl_family_map[f].font[weight][slant], as fmap[f][<<weight, slant>>]
  attr,     \* rufl_font_list[j].family, .weight and .slant
  enum,     \* what xfont_list_fonts enumerates in this call
  ectx,     \* the enumeration context of rufl_init_font_list, a position in enum
  menu,     \* rufl_family_menu: NULL or its entries
  flp       \* rufl_font_list != NULL

fam == <<families, fmap, attr, enum, ectx, menu, flp>>
vars == <<list, oldfm, fonts, file, pc, i, changes, cur, ld, heap, fam>>

\* What a scan of font id yields: the old scanner builds one plane-0 segment.
Scan(id, legacy) ==
  IF legacy
  THEN IF TruthOld[id] = NULL THEN NULL ELSE [cs |-> <<0>>, umaps |-> TruthOld[id]]
  ELSE IF TruthNew[id] = NULL THEN NULL ELSE [cs |-> TruthNew[id], umaps |-> <<>>]

Field(t, v) == [t |-> t, v |-> v]

\* The fields of several fwrite calls, one after the other.
Fields(seqs) == FoldLeft(LAMBDA acc, x : acc \o x, <<>>, seqs)

-----------------------------------------------------------------------------
(* rufl_save_cache: the version, the font manager flag, then for every     *)
(* font with a charset: len, identifier, each plane segment (metadata and  *)
(* index come from one fwrite, but the reader reads them apart), and, on   *)
(* the old Font Manager, num_umaps and each map's len, encoding, entries   *)
(* and map.                                                                *)
PlaneFields(cs) ==
  Fields([k \in 1 .. Len(cs) |->
                <<Field("meta", [p |-> cs[k], ext |-> k < Len(cs)]), Field("index", cs[k])>>])

MapFields(m) ==
  <<Field("elen", m.enc)>> \o (IF m.enc = NoEnc THEN <<>> ELSE <<Field("enc", m.enc)>>)
    \o <<Field("entries", m.n), Field("map", m.n)>>

Record(id, c, legacy) ==
  <<Field("len", id), Field("id", id)>> \o PlaneFields(c.cs)
    \o (IF legacy
        THEN <<Field("nmaps", Len(c.umaps))>>
               \o Fields([k \in 1 .. Len(c.umaps) |-> MapFields(c.umaps[k])])
        ELSE <<>>)

Serialize(l, f, legacy) ==
  <<Field("version", Version), Field("fm", legacy)>>
    \o Fields([j \in 1 .. Len(l) |-> IF f[j] = NULL THEN <<>> ELSE Record(l[j], f[j], legacy)])

(* fwrite(p, size, 1, fp) returns 0 when size is 0: the map of a unicode   *)
(* map with no entries is never written, and the save stops there.         *)
Written(s) ==
  LET bad == {k \in 1 .. Len(s) : s[k] = Field("map", 0)}
  IN  IF bad = {} THEN s ELSE SubSeq(s, 1, Min(bad) - 1)

(* The file the save leaves: all it wrote; or, when rufl_open_cache fails, *)
(* the old file; or, when an fwrite or the fclose fails, the fields before *)
(* the failure ("wb" has already truncated the file).  Every failure is    *)
(* logged and rufl_OK returned.                                            *)
SaveCache ==
  \E s \in {Written(Serialize(list, fonts, oldfm))} :
      \/ ~IOMayFail /\ file' = s
      \/ IOMayFail /\ \E k \in 0 .. Len(s) : file' = SubSeq(s, 1, k)
      \/ IOMayFail /\ file' = file

-----------------------------------------------------------------------------
LdNone == [ident |-> NULL, cs |-> <<>>, ext |-> FALSE, um |-> <<>>, nm |-> 0,
           ent |-> 0, enc |-> NoEnc, n |-> 0, oom |-> FALSE]
HeapNone == [b \in {"id", "cs", "um"} |-> "none"]

\* The next fread hits the end of the file.
Eof == cur > Len(file)

\* free() of each buffer of B: a live one becomes freed, NULL stays NULL.
Free(B) == [b \in DOMAIN heap |-> IF b \in B /\ heap[b] = "live" THEN "freed" ELSE heap[b]]
DoubleFree(B) == \E b \in B : heap[b] = "freed"

\* Undefined behaviour: the model stops in a state naming it.
Crash(kind) == pc' = kind /\ UNCHANGED <<fam, list, oldfm, fonts, file, i, changes, cur, ld, heap>>

\* Frees B and continues with Cont, unless a buffer of B is already freed.
FreeThen(B, Cont) == IF DoubleFree(B) THEN Crash("double_free") ELSE Cont

\* rufl_load_cache leaves its loop: fclose, return rufl_OK; rufl_init goes
\* on to the font loop.
LoadReturnsOK ==
  /\ pc' = "scan" /\ i' = 1 /\ cur' = 0 /\ ld' = LdNone /\ heap' = HeapNone
  /\ UNCHANGED <<fam, list, oldfm, fonts, file, changes>>

\* Mutant: rufl_quit frees the family list but leaves the menu.
RuflQuitKeepsMenu(fl) ==
  /\ list' = <<>> /\ fonts' = <<>> /\ families' = <<>> /\ fmap' = <<>> /\ attr' = <<>>
  /\ menu' = menu
  /\ flp' = FALSE

(* rufl_quit: every identifier, charset, map and family string is freed    *)
(* and the lists emptied, then the family menu, all only when              *)
(* rufl_font_list is not NULL (fl); otherwise it returns at once and the   *)
(* menu stays.                                                             *)
RuflQuit(fl) ==
  /\ list' = <<>> /\ fonts' = <<>> /\ families' = <<>> /\ fmap' = <<>> /\ attr' = <<>>
  /\ menu' = IF fl THEN NULL ELSE menu
  /\ flp' = FALSE

\* A step of rufl_init fails: it calls rufl_quit, and rufl_font_list is
\* non-NULL exactly when fl holds.
InitFails(fl) ==
  /\ pc' = "idle" /\ i' = 0 /\ changes' = FALSE
  /\ cur' = 0 /\ ld' = LdNone /\ heap' = HeapNone /\ enum' = <<>> /\ ectx' = 0
  /\ RuflQuit(fl)
  /\ UNCHANGED <<oldfm, file>>

InitReturnsError == InitFails(flp)

\* Within the load: the reader moves on to pc p.
Continue(p, l, h) ==
  /\ pc' = p /\ ld' = l /\ heap' = h
  /\ UNCHANGED <<fam, list, oldfm, fonts, file, i, changes>>

\* After the charset loop: the unicode maps on the old Font Manager.
AfterCharset == IF oldfm THEN "nmaps" ELSE "put"

(* rufl_init: the already-initialised check (rufl_font_list_entries)      *)
(* passes, also when a call that found no font has succeeded; the Font     *)
(* Manager is probed: an encoding-not-found error sets                    *)
(* rufl_old_font_manager, which nothing clears.  A failure of the probe    *)
(* changes nothing the model keeps.  rufl_init_font_list starts with       *)
(* context 0.                                                              *)
StartInit ==
  /\ pc = "idle" \/ (pc = "ready" /\ list = <<>>)
  /\ \E e \in Enums : enum' = e
  /\ ectx' = 1 /\ oldfm' \in {oldfm, TRUE}
  /\ pc' = "list" /\ i' = 0 /\ changes' = FALSE
  /\ UNCHANGED <<list, fonts, families, fmap, attr, file, cur, ld, heap, menu, flp>>

\* Mutant: only the first face starts a family.
NewFamilyFirstOnly(id) == families = <<>>

\* The face starts a family other than the last one listed.
NewFamily(id) == ~(families # <<>> /\ Last(families) = Family(id))

(* rufl_init_add_font: a failing canonicalise_path skips the face and      *)
(* returns OK, as does a RiScript or TeX font; a failed realloc or strdup  *)
(* returns OUT_OF_MEMORY (rufl_init then calls rufl_quit, which finds      *)
(* rufl_font_list set once its realloc succeeded).  Otherwise the          *)
(* face is appended, a new family made when its name differs from the      *)
(* last family's, and the family map slot of its style set.                *)
AddFont(id) ==
  \/ /\ CallsMayFail \/ id \in Ignored
     /\ ectx' = ectx + 1
     /\ UNCHANGED <<list, oldfm, fonts, file, pc, i, changes, cur, ld, heap,
                    families, fmap, attr, enum, menu, flp>>
  \/ id \notin Ignored /\ CallsMayFail /\ InitReturnsError
  \/ id \notin Ignored /\ CallsMayFail /\ InitFails(TRUE)
  \/ id \notin Ignored /\ NewFamily(id) /\ CallsMayFail /\ InitFails(TRUE)
  \/ /\ id \notin Ignored
     /\ LET fams == IF NewFamily(id) THEN Append(families, Family(id)) ELSE families
            maps == IF NewFamily(id) THEN Append(fmap, [st \in Styles |-> NoFont]) ELSE fmap
            st   == <<WeightOf(id), SlantOf(id)>>
            k    == Len(list) + 1
        IN  /\ families' = fams
            /\ fmap' = [maps EXCEPT ![Len(fams)][st] = Place(@, k, id)]
            /\ attr' = Append(attr, [family |-> Len(fams), weight |-> st[1], slant |-> st[2]])
     /\ list' = Append(list, id) /\ fonts' = Append(fonts, NULL) /\ ectx' = ectx + 1
     /\ flp' = TRUE
     /\ UNCHANGED <<oldfm, file, pc, i, changes, cur, ld, heap, enum, menu>>

(* One turn of rufl_init_font_list: the loop stops at MaxFaces faces or    *)
(* when xfont_list_fonts returns context -1; an error of xfont_list_fonts  *)
(* is returned (rufl_init calls rufl_quit).                                *)
ListFonts ==
  /\ pc = "list"
  /\ \/ Len(list) < MaxFaces /\ CallsMayFail /\ InitReturnsError
     \/ /\ ectx > Len(enum) \/ Len(list) = MaxFaces
        /\ pc' = "load" /\ enum' = <<>> /\ ectx' = 0
        /\ UNCHANGED <<list, oldfm, fonts, file, i, changes, cur, ld, heap, families, fmap, attr,
                       menu, flp>>
     \/ ectx <= Len(enum) /\ Len(list) < MaxFaces /\ AddFont(enum[ectx])

\* Mutant: the reader skips the version field only, and takes the font
\* manager flag for the first identifier length.
LoadCacheOneHeaderField ==
  /\ pc = "load"
  /\ \/ /\ Len(file) >= 2 /\ file[1] = Field("version", Version) /\ file[2] = Field("fm", oldfm)
        /\ cur' = 2
        /\ Continue("len", ld, heap)
     \/ IOMayFail /\ LoadReturnsOK
     \/ ~(Len(file) >= 2 /\ file[1] = Field("version", Version) /\ file[2] = Field("fm", oldfm))
        /\ LoadReturnsOK

(* rufl_load_cache: rufl_open_cache("rb"), then the version and the font   *)
(* manager flag; a missing file, a short read or a mismatch returns OK.    *)
LoadCache ==
  /\ pc = "load"
  /\ \/ /\ Len(file) >= 2 /\ file[1] = Field("version", Version) /\ file[2] = Field("fm", oldfm)
        /\ cur' = 3
        /\ Continue("len", ld, heap)
     \/ IOMayFail /\ LoadReturnsOK
     \/ ~(Len(file) >= 2 /\ file[1] = Field("version", Version) /\ file[2] = Field("fm", oldfm))
        /\ LoadReturnsOK

(* The length of the identifier: at the end of the file the loop ends;     *)
(* otherwise identifier = malloc(len + 1).                                 *)
LoadLen ==
  /\ pc = "len"
  /\ \/ Eof /\ LoadReturnsOK
     \/ ~Eof /\ CallsMayFail /\ InitReturnsError
     \/ /\ ~Eof /\ cur' = cur + 1
        /\ Continue("id", [ld EXCEPT !.ident = file[cur].v], [heap EXCEPT !.id = "live"])

\* The identifier; a short read frees it and ends the loop.
LoadId ==
  /\ pc = "id"
  /\ \/ Eof /\ FreeThen({"id"}, LoadReturnsOK)
     \/ ~Eof /\ cur' = cur + 1 /\ Continue("meta", ld, heap)

(* One turn of the charset do-while: the plane's metadata word.  A short   *)
(* read frees the identifier and breaks out of the do-while only.  The     *)
(* charset is malloc'ed, or realloc'ed to add the plane (a failed realloc  *)
(* frees the old block).                                                   *)
LoadMeta ==
  /\ pc = "meta"
  /\ \/ Eof /\ FreeThen({"id"}, UNCHANGED cur /\ Continue(AfterCharset, ld, Free({"id"})))
     \/ ~Eof /\ CallsMayFail /\ FreeThen({"cs", "id"}, InitReturnsError)
     \/ /\ ~Eof /\ cur' = cur + 1
        /\ Continue("index", [ld EXCEPT !.cs = Append(@, file[cur].v.p), !.ext = file[cur].v.ext],
                    [heap EXCEPT !.cs = "live"])

(* The rest of the plane; a short read frees the charset and the           *)
(* identifier and breaks out of the do-while.  The loop goes on while the  *)
(* plane's E bit is set.                                                   *)
LoadIndex ==
  /\ pc = "index"
  /\ \/ Eof /\ FreeThen({"cs", "id"}, UNCHANGED cur /\ Continue(AfterCharset, ld, Free({"cs", "id"})))
     \/ ~Eof /\ cur' = cur + 1 /\ Continue(IF ld.ext THEN "meta" ELSE AfterCharset, ld, heap)

(* The number of unicode maps; a short read frees the charset and the      *)
(* identifier and ends the loop; umap = calloc(num_umaps, ...).            *)
LoadNmaps ==
  /\ pc = "nmaps"
  /\ \/ Eof /\ FreeThen({"cs", "id"}, LoadReturnsOK)
     \/ ~Eof /\ CallsMayFail /\ FreeThen({"cs", "id"}, InitReturnsError)
     \/ /\ ~Eof /\ cur' = cur + 1
        /\ Continue(IF file[cur].v = 0 THEN "put" ELSE "elen",
                    [ld EXCEPT !.nm = file[cur].v, !.ent = 0, !.um = <<>>],
                    [heap EXCEPT !.um = "live"])

(* One map of the for loop: the encoding's length, then the name           *)
(* (malloc(len + 1) when len > 0).  Any short read or failed malloc        *)
(* breaks to the clean-up.                                                 *)
LoadElen ==
  /\ pc = "elen"
  /\ \/ Eof /\ UNCHANGED cur /\ Continue("cleanup", ld, heap)
     \/ /\ ~Eof /\ file[cur].v # NoEnc /\ CallsMayFail /\ cur' = cur + 1
        /\ Continue("cleanup", [ld EXCEPT !.oom = TRUE], heap)
     \/ /\ ~Eof /\ cur' = cur + 1
        /\ Continue(IF file[cur].v = NoEnc THEN "entries" ELSE "enc",
                    [ld EXCEPT !.enc = file[cur].v], heap)

LoadEnc ==
  /\ pc = "enc"
  /\ \/ Eof /\ UNCHANGED cur /\ Continue("cleanup", ld, heap)
     \/ ~Eof /\ cur' = cur + 1 /\ Continue("entries", ld, heap)

LoadEntries ==
  /\ pc = "entries"
  /\ \/ Eof /\ UNCHANGED cur /\ Continue("cleanup", ld, heap)
     \/ ~Eof /\ cur' = cur + 1 /\ Continue("map", [ld EXCEPT !.n = file[cur].v], heap)

(* fread(map->map, entries * 3, 1, fp): fread returns 0 when the size is   *)
(* 0, so a map with no entries is a failed read like a short one.          *)
LoadMap ==
  /\ pc = "map"
  /\ \/ (Eof \/ ld.n = 0) /\ UNCHANGED cur /\ Continue("cleanup", ld, heap)
     \/ /\ ~Eof /\ ld.n # 0 /\ cur' = cur + 1
        /\ Continue(IF ld.ent + 1 = ld.nm THEN "put" ELSE "elen",
                    [ld EXCEPT !.um = Append(@, [enc |-> ld.enc, n |-> ld.n]), !.ent = @ + 1],
                    heap)

(* entry != num_umaps: the encodings, umap, charset and identifier are     *)
(* freed; an allocation failure returns it, a read failure ends the loop.  *)
LoadCleanup ==
  /\ pc = "cleanup"
  /\ FreeThen({"um", "cs", "id"}, IF ld.oom THEN InitReturnsError ELSE LoadReturnsOK)

\* Mutant: charset and size are not reset after a record is installed.
LoadPutNoReset ==
  /\ pc = "put"
  /\ \/ heap.id = "freed" /\ Crash("use_after_free")
     \/ /\ heap.id # "freed"
        /\ \E j \in 1 .. Len(list) :
             /\ list[j] = ld.ident
             /\ fonts' = [fonts EXCEPT ![j] = [cs |-> ld.cs, umaps |-> ld.um]]
        /\ ld' = [LdNone EXCEPT !.cs = ld.cs] /\ heap' = HeapNone /\ pc' = "len"
        /\ UNCHANGED <<fam, list, oldfm, file, i, changes, cur>>
     \/ /\ heap.id # "freed" /\ \A j \in 1 .. Len(list) : list[j] # ld.ident
        /\ FreeThen({"um", "cs", "id"}, UNCHANGED cur /\ Continue("len", LdNone, HeapNone))

(* lfind(identifier) in rufl_font_list: a matching entry takes the charset *)
(* and the maps; otherwise they are freed.  Then charset = NULL, size = 0, *)
(* free(identifier).  The identifier may already have been freed by a      *)
(* short read in the charset loop: reading it is undefined behaviour.      *)
LoadPut ==
  /\ pc = "put"
  /\ \/ heap.id = "freed" /\ Crash("use_after_free")
     \/ /\ heap.id # "freed"
        /\ \E j \in 1 .. Len(list) :
             /\ list[j] = ld.ident
             /\ fonts' = [fonts EXCEPT ![j] = [cs |-> ld.cs, umaps |-> ld.um]]
        /\ ld' = LdNone /\ heap' = HeapNone /\ pc' = "len"
        /\ UNCHANGED <<fam, list, oldfm, file, i, changes, cur>>
     \/ /\ heap.id # "freed" /\ \A j \in 1 .. Len(list) : list[j] # ld.ident
        /\ FreeThen({"um", "cs", "id"}, UNCHANGED cur /\ Continue("len", LdNone, HeapNone))

-----------------------------------------------------------------------------
\* Mutant: a font whose charset came from the cache does not advance i.
ScanFontNoSkip ==
  \/ /\ pc = "scan"
     /\ \/ i > Len(list) /\ pc' = "subst" /\ UNCHANGED <<fonts, i, changes>>
        \/ i <= Len(list) /\ fonts[i] # NULL /\ UNCHANGED <<pc, fonts, i, changes>>
        \/ /\ i <= Len(list) /\ fonts[i] = NULL
           /\ fonts' = [fonts EXCEPT ![i] = Scan(list[i], oldfm)]
           /\ changes' = TRUE /\ i' = i + 1 /\ UNCHANGED pc
     /\ UNCHANGED <<fam, list, oldfm, file, cur, ld, heap>>
  \/ pc = "scan" /\ i <= Len(list) /\ fonts[i] = NULL /\ CallsMayFail /\ InitReturnsError

(* One turn of the font loop of rufl_init: a font with a charset (from the *)
(* cache) is skipped; otherwise it is scanned (rufl_init_scan_font or      *)
(* _old by the Font Manager) and changes++.  A scan error ends the call.   *)
ScanFont ==
  \/ /\ pc = "scan"
     /\ \/ i > Len(list) /\ pc' = "subst" /\ UNCHANGED <<fonts, i, changes>>
        \/ i <= Len(list) /\ fonts[i] # NULL /\ i' = i + 1 /\ UNCHANGED <<pc, fonts, changes>>
        \/ /\ i <= Len(list) /\ fonts[i] = NULL
           /\ fonts' = [fonts EXCEPT ![i] = Scan(list[i], oldfm)]
           /\ changes' = TRUE /\ i' = i + 1 /\ UNCHANGED pc
     /\ UNCHANGED <<fam, list, oldfm, file, cur, ld, heap>>
  \/ pc = "scan" /\ i <= Len(list) /\ fonts[i] = NULL /\ CallsMayFail /\ InitReturnsError

\* rufl_substitution_table_init (module SubstTable), which may fail.
SubstInit ==
  /\ pc = "subst"
  /\ \/ pc' = "save" /\ UNCHANGED <<fam, list, oldfm, fonts, file, i, changes, cur, ld, heap>>
     \/ CallsMayFail /\ InitReturnsError

\* rufl_save_cache when a font was scanned; its result is always rufl_OK.
Save ==
  /\ pc = "save"
  /\ pc' = "menu"
  /\ IF changes THEN SaveCache ELSE UNCHANGED file
  /\ UNCHANGED <<fam, list, oldfm, fonts, i, changes, cur, ld, heap>>

(* rufl_init_family_menu: one entry per family, pointing at its name in    *)
(* rufl_family_list, the last flagged wimp_MENU_LAST; with no family, one  *)
(* shaded empty entry (fam 0).  Title, colours and sizes are left out.     *)
MenuOf(fs) ==
  IF fs = <<>> THEN <<[fam |-> 0, text |-> "", last |-> TRUE]>>
  ELSE [k \in DOMAIN fs |-> [fam |-> k, text |-> fs[k], last |-> k = Len(fs)]]

\* The rufl_cache reset and rufl_init_family_menu, whose malloc may fail.
Menu ==
  /\ pc = "menu"
  /\ \/ /\ pc' = "ready" /\ menu' = MenuOf(families)
        /\ UNCHANGED <<families, fmap, attr, enum, ectx, flp, list, oldfm, fonts, file, i,
                       changes, cur, ld, heap>>
     \/ CallsMayFail /\ InitReturnsError

\* The host calls rufl_quit.
Quit ==
  /\ pc = "ready"
  /\ pc' = "idle" /\ i' = 0 /\ changes' = FALSE
  /\ RuflQuit(flp)
  /\ UNCHANGED <<oldfm, file, cur, ld, heap, enum, ectx>>

Init ==
  /\ list = <<>> /\ oldfm = FALSE /\ fonts = <<>> /\ file = <<>>
  /\ families = <<>> /\ fmap = <<>> /\ attr = <<>> /\ enum = <<>> /\ ectx = 0
  /\ menu = NULL /\ flp = FALSE
  /\ pc = "idle" /\ i = 0 /\ changes = FALSE /\ cur = 0 /\ ld = LdNone /\ heap = HeapNone

\* The steps of one rufl_init call.
InitStep ==
  \/ ListFonts \/ LoadCache \/ LoadLen \/ LoadId \/ LoadMeta \/ LoadIndex \/ LoadNmaps
  \/ LoadElen \/ LoadEnc \/ LoadEntries \/ LoadMap \/ LoadCleanup \/ LoadPut
  \/ ScanFont \/ SubstInit \/ Save \/ Menu

Next == StartInit \/ InitStep \/ Quit

Spec == Init /\ [][Next]_vars

(* rufl_init is a synchronous call: once entered it takes its next step.   *)
(* Whether the host calls rufl_init or rufl_quit is not assumed.           *)
FairSpec == Spec /\ WF_vars(InitStep)

FieldKinds == {"version", "fm", "len", "id", "meta", "index", "nmaps", "elen", "enc", "entries", "map"}
\* The lists rufl_init_font_list may build: what it enumerates, less fonts
\* skipped.
Kept ==
  UNION {{LET ks == SetToSortSeq(D, <) IN [k \in DOMAIN ks |-> e[ks[k]]] : D \in SUBSET DOMAIN e}
           : e \in Enums}
Covers == {Scan(id, m) : id \in Ids, m \in BOOLEAN} \ {NULL}
Pcs == {"idle", "list", "load", "len", "id", "meta", "index", "nmaps", "elen", "enc", "entries",
        "map", "cleanup", "put", "scan", "subst", "save", "menu", "ready",
        "double_free", "use_after_free"}

TypeOK ==
  /\ pc \in Pcs
  /\ list \in Kept
  /\ families \in Seq({Family(id) : id \in Ids}) /\ Len(fmap) = Len(families)
  /\ \A f \in DOMAIN fmap : fmap[f] \in [Styles -> {NoFont} \cup DOMAIN list]
  /\ attr \in [DOMAIN list -> [family : DOMAIN families, weight : Weights, slant : Slants]]
  /\ ectx \in 0 .. MaxFaces + 1
  /\ menu = NULL \/ menu \in Seq([fam : Nat, text : {Family(id) : id \in Ids} \cup {""}, last : BOOLEAN])
  /\ flp \in BOOLEAN
  /\ oldfm \in BOOLEAN
  /\ DOMAIN fonts = 1 .. Len(list)
  /\ \A j \in DOMAIN fonts : fonts[j] \in Covers \cup {NULL}
  /\ \A k \in DOMAIN file : file[k].t \in FieldKinds
  /\ cur \in 0 .. Len(file) + 1
  /\ i \in 0 .. Len(list) + 1
  /\ ld.ident \in Ids \cup {NULL}
  /\ heap \in [{"id", "cs", "um"} -> {"none", "live", "freed"}]

-----------------------------------------------------------------------------
Reg == INSTANCE FontRegistry
         WITH Lists <- Kept, reglist <- list, regmode <- oldfm, ready <- (pc = "ready"),
              coverage <- IF pc = "ready" THEN fonts ELSE <<>>, Truth <- Scan

(* The cache is transparent: rufl_init, whatever the cache file holds      *)
(* (written whole, cut short by a failed fwrite or fclose, or stopped at a *)
(* map with no entries) and whatever fonts were added or removed since it  *)
(* was written, implements FontRegistry: each successful call leaves every *)
(* listed font with exactly the charset and maps a scan gives now.  This   *)
(* rests on records of removed fonts being dropped, on the reset of        *)
(* charset between records, and on the writer and reader agreeing on the  *)
(* field order.                                                            *)
RegistryRefinement == Reg!RegSpec

(* Every call of rufl_init returns (or stops in undefined behaviour): the  *)
(* font list loop ends with the enumeration or at MaxFaces, the load loop  *)
(* ends at the end of the file or at a failed read, and the font loop      *)
(* passes every font, cached or scanned.                                   *)
InitReturns == (pc = "list") ~> (pc \in {"ready", "idle", "double_free", "use_after_free"})

(* rufl_load_cache never frees a buffer twice and never reads a freed one, *)
(* whatever file rufl_save_cache left.  The design says a malformed record *)
(* truncates loading at that point and is not a fatal error.               *)
NoLoadMemoryFault == pc \notin {"double_free", "use_after_free"}

(* The family map is the font list grouped by family: families are        *)
(* distinct; every face's family, weight and slant are those its local     *)
(* name gives; and each slot of the map holds NO_FONT exactly when no      *)
(* listed face of that family has that style, and otherwise such a face,   *)
(* one with no unknown name part when there is one.  This rests on the     *)
(* Font Manager listing a family's faces together, on comparing with the  *)
(* last family only, and on the preference for plain faces.               *)
FamilyMapExact ==
  /\ IsInjective(families)
  /\ \A j \in DOMAIN list :
       /\ families[attr[j].family] = Family(list[j])
       /\ <<attr[j].weight, attr[j].slant>> = <<WeightOf(list[j]), SlantOf(list[j])>>
  /\ \A f \in DOMAIN families, st \in Styles :
       LET faces == {j \in DOMAIN list : Family(list[j]) = families[f]
                                         /\ <<WeightOf(list[j]), SlantOf(list[j])>> = st}
           plain == {j \in faces : ~Special(list[j])}
       IN  IF faces = {} THEN fmap[f][st] = NoFont
           ELSE fmap[f][st] \in (IF plain = {} THEN faces ELSE plain)

(* The family menu never shows a freed family.  Its entries point into     *)
(* rufl_family_list rather than copy it, so while rufl_family_menu is set   *)
(* every entry that names a family must find that family, with the name    *)
(* the entry was built with, at its index of the current list: across      *)
(* failed calls, rufl_quit (which frees the list and the menu together,    *)
(* or neither when no face was listed) and a new rufl_init after one that  *)
(* listed no face.  A ready library's menu lists exactly its families.     *)
FamilyMenuSound ==
  /\ menu # NULL =>
       \A k \in DOMAIN menu :
         menu[k].fam # 0 => menu[k].fam \in DOMAIN families /\ families[menu[k].fam] = menu[k].text
  /\ pc = "ready" => menu = MenuOf(families)

=============================================================================
