------------------------------- MODULE MCBoot -------------------------------
(***************************************************************************)
(* Machines: a complete one, every machine that lacks one thing or two,    *)
(* every shortage of memory and page tables that conflict.                 *)
(***************************************************************************)
EXTENDS BootProps

Complete == [revision |-> TRUE, memmap |-> TRUE, hhdm |-> TRUE, exec |-> TRUE, mp |-> TRUE,
             storage |-> TRUE, satp |-> TRUE,
             dtb |-> "valid", freq |-> <<5>>, fb |-> "ok",
             pages |-> 4, uart |-> [tables |-> 1, conflict |-> FALSE],
             init |-> [tables |-> 2, conflict |-> FALSE]]

Flags == {"revision", "memmap", "hhdm", "storage", "satp", "exec", "mp"}

Lacking ==
  {[Complete EXCEPT ![f] = FALSE] : f \in Flags}
  \cup {[Complete EXCEPT !.dtb = d] : d \in {"none", "null", "invalid"}}
  \cup {[Complete EXCEPT !.freq = f] : f \in {<<>>, <<0>>}}
  \cup {[Complete EXCEPT !.fb = f] : f \in {"none", "unusable"}}

LackingTwo == {[x EXCEPT ![f] = FALSE] : x \in Lacking, f \in Flags}

(***************************************************************************)
(* Every shortage of pages, and conflicts in either mapping call.          *)
(***************************************************************************)
Needing(p, u, uc, n, nc) ==
  [Complete EXCEPT !.pages = p, !.uart = [tables |-> u, conflict |-> uc],
                   !.init = [tables |-> n, conflict |-> nc]]

Scarce == {Needing(p, u, FALSE, n, FALSE) : p \in 0 .. 4, u \in 0 .. 3, n \in 0 .. 3}
Conflicting ==
  {Needing(p, 2, c[1], 3, c[2]) : p \in {1, 3, 6}, c \in {<<TRUE, FALSE>>, <<FALSE, TRUE>>}}

MCComplete == {Complete}

MCMachines == {Complete} \cup Lacking \cup LackingTwo \cup Scarce \cup Conflicting
=============================================================================
