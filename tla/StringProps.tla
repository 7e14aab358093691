---------------------------- MODULE StringProps -----------------------------
(***************************************************************************)
(* What the functions of lib/string.c return, against definitions that     *)
(* look at the memory as it was when they were called, with no loop.       *)
(***************************************************************************)
EXTENDS String

(***************************************************************************)
(* memcpy, memset and memmove leave the destination as the source was      *)
(* before the call, also where the two regions overlap and the loop        *)
(* overwrites bytes of the source, and change no other byte.               *)
(***************************************************************************)
Moved ==
  pc = "ret" =>
    mem = [a \in Addr |->
             IF fn \in {"memcpy", "memset", "memmove"} /\ a \in d .. d + n - 1
               THEN IF fn = "memset" THEN c % UINT8 ELSE mem0[s + (a - d)]
             ELSE mem0[a]]

First(S) == CHOOSE x \in S : \A y \in S : x <= y

(***************************************************************************)
(* Length of the string at a.                                              *)
(***************************************************************************)
Length(a) == First({j \in 0 .. Size - 1 - a : mem0[a + j] = NUL})

(***************************************************************************)
(* memcmp and strcmp answer by the first place where the two differ, as    *)
(* unsigned bytes, a string that is a prefix being the smaller one; 0 only *)
(* if they are equal.                                                      *)
(***************************************************************************)
Compared ==
  pc = "ret" /\ fn \in {"memcmp", "strcmp"} =>
    LET top   == IF fn = "memcmp" THEN n
                 ELSE 1 + (IF Length(d) < Length(s) THEN Length(d) ELSE Length(s))
        diffs == {j \in 0 .. top - 1 : mem0[d + j] # mem0[s + j]}
    IN  ret = IF diffs = {} THEN 0
              ELSE IF mem0[d + First(diffs)] < mem0[s + First(diffs)] THEN -1 ELSE 1

(***************************************************************************)
(* strlen and strnlen measure up to the terminator, or up to maxlen;       *)
(* strchr finds the first such byte of the string, the terminator          *)
(* included, whatever the value of the int above a byte.                   *)
(***************************************************************************)
Measured ==
  pc = "ret" =>
    CASE fn = "strlen"  -> ret = Length(d)
      [] fn = "strnlen" ->
           ret = First({n} \cup {j \in 0 .. n - 1 : d + j < Size /\ mem0[d + j] = NUL})
      [] fn = "strchr"  ->
           LET hits == {j \in 0 .. Length(d) : mem0[d + j] = c % UINT8}
           IN  ret = IF hits = {} THEN NULL ELSE d + First(hits)
      [] OTHER -> TRUE

(***************************************************************************)
(* Every function that answers a question answers it right.                *)
(***************************************************************************)
Answered == Compared /\ Measured

(***************************************************************************)
(* No loop reads past the end of a string: strcmp stops at the end of the  *)
(* shorter one.                                                            *)
(***************************************************************************)
StopsAtEnd ==
  pc = "run" =>
    /\ fn \in {"strlen", "strcmp", "strchr"} => i <= Length(d)
    /\ fn = "strcmp" => i <= Length(s)
=============================================================================
