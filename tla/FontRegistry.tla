---------------------------- MODULE FontRegistry ----------------------------
(***************************************************************************)
(* What RUfl's initialisation promises, with no cache and no scanning in   *)
(* sight: the registry is either empty or holds, for every font of the     *)
(* list the Font Manager enumerated, exactly the coverage a scan of that   *)
(* font gives now.  The cache is an optimisation, never a dependency of    *)
(* correctness (design, section 4.3).                                      *)
(***************************************************************************)
EXTENDS Naturals, Sequences

CONSTANTS
  Lists,       \* the font lists the Font Manager may enumerate
  Truth(_, _)  \* Truth(id, legacy): the coverage a scan of font id yields

VARIABLES
  reglist,     \* the enumerated font list
  regmode,     \* TRUE on a legacy (non-Unicode) Font Manager
  ready,       \* the registry is built
  coverage     \* coverage[j]: what the registry holds for reglist[j]

regvars == <<reglist, regmode, ready, coverage>>

RegInit ==
  /\ reglist = <<>>
  /\ regmode \in BOOLEAN
  /\ ready = FALSE
  /\ coverage = <<>>

\* Before a build the host may change: fonts installed or removed, another
\* Font Manager.
Enumerate ==
  /\ ~ready
  /\ reglist' \in Lists \cup {<<>>}
  /\ regmode' \in BOOLEAN
  /\ UNCHANGED <<ready, coverage>>

\* The build completes: every listed font has its current coverage.
Publish ==
  /\ ~ready
  /\ ready' = TRUE
  /\ coverage' = [j \in 1 .. Len(reglist) |-> Truth(reglist[j], regmode)]
  /\ UNCHANGED <<reglist, regmode>>

\* Teardown empties the registry; the next build may meet another Font
\* Manager.
Teardown ==
  /\ ready
  /\ ready' = FALSE
  /\ reglist' = <<>>
  /\ coverage' = <<>>
  /\ regmode' \in BOOLEAN

RegNext == Enumerate \/ Publish \/ Teardown

RegSpec == RegInit /\ [][RegNext]_regvars

=============================================================================
