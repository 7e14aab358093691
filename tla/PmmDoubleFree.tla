--------------------------- MODULE PmmDoubleFree ----------------------------
(***************************************************************************)
(* The allocator of Pmm with a caller that frees a page twice.  freed is   *)
(* the set of the pages that were given back and that no block handed out  *)
(* since contains; accepted says that pmm_free took one of them again.     *)
(***************************************************************************)
EXTENDS MCPmm

VARIABLES freed, accepted

dvars == <<vars, freed, accepted>>

Track == freed' = (freed \cup (held \ held')) \ HeldPages'

DoubleFree(p) == pmm_free(p) /\ Track /\ accepted' = (pc' # "idle")

DInit == Init /\ freed = {} /\ accepted = FALSE

DNext ==
  \/ Next /\ Track /\ UNCHANGED accepted
  \/ pc = "idle" /\ \E p \in freed : DoubleFree(p)

DSpec == DInit /\ [][DNext]_dvars

(***************************************************************************)
(* pmm_free refuses a second free of a page: it says so where it finds     *)
(* PageFree ("pmm: refusing double free", mm/pmm.c:228).                   *)
(***************************************************************************)
DoubleFreeRefused == ~accepted
=============================================================================
