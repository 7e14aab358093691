------------------------------- MODULE PhysMem ------------------------------
(***************************************************************************)
(* What a physical page allocator promises, with no free lists, flags or   *)
(* loops: a set of available pages and the blocks its callers hold.  A     *)
(* block <<p, k>> is the run of 2^k pages that starts at p, p being a      *)
(* multiple of 2^k.  Pmm is shown to implement this specification.         *)
(***************************************************************************)
EXTENDS Integers

CONSTANT Orders    \* the block orders that can be asked for

VARIABLES
  up,      \* the allocator has been initialised
  avail,   \* the pages that can be handed out
  blocks   \* the blocks handed out and not yet given back

Block(p, k) == p .. (p + 2^k - 1)

Init == up = FALSE /\ avail = {} /\ blocks = {}

(***************************************************************************)
(* The allocator comes up with some set of pages, once.                    *)
(***************************************************************************)
Boot ==
  /\ ~up /\ up' = TRUE
  /\ avail' \subseteq Nat
  /\ UNCHANGED blocks

Alloc(p, k) ==
  /\ p % 2^k = 0
  /\ Block(p, k) \subseteq avail
  /\ avail' = avail \ Block(p, k)
  /\ blocks' = blocks \cup {<<p, k>>}
  /\ UNCHANGED up

Free(p, k) ==
  /\ <<p, k>> \in blocks
  /\ avail' = avail \cup Block(p, k)
  /\ blocks' = blocks \ {<<p, k>>}
  /\ UNCHANGED up

Next ==
  \/ Boot
  \/ \E k \in Orders : \E p \in avail : Alloc(p, k)
  \/ \E b \in blocks : Free(b[1], b[2])

Spec == Init /\ [][Next]_<<up, avail, blocks>>
=============================================================================
