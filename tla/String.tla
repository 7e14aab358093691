------------------------------- MODULE String -------------------------------
(***************************************************************************)
(* lib/string.c: one call of one function, one step per turn of its loop.  *)
(* The operands are regions of one memory, so that they may overlap:       *)
(*   d, s   the first and the second pointer argument (s is not used by    *)
(*          memset, strlen, strnlen and strchr)                            *)
(*   n      the size argument, c the int argument                          *)
(***************************************************************************)
EXTENDS Integers

CONSTANTS
  Size,       \* bytes of memory
  Bytes,      \* the byte values in it
  Ints,       \* the values of int arguments
  UINT8       \* values of a uint8_t or a char (256)

ASSUME StringAssumption ==
  /\ Size \in Nat \ {0} /\ UINT8 \in Nat \ {0}
  /\ Bytes \subseteq 0 .. UINT8 - 1 /\ Ints \subseteq Nat

Addr  == 0 .. Size - 1
NUL   == 0
NULL  == -1     \* what strchr returns when there is no such byte

VARIABLES
  mem,                \* the memory
  fn, d, s, n, c,     \* the call and its arguments
  pc,                 \* "run", then "ret"
  i,                  \* the loop's variable: i or len
  ret,                \* the result
  mem0                \* history: the memory when the function was called

args == <<fn, d, s, n, c, mem0>>
vars == <<mem, args, pc, i, ret>>

IsString(a) == \E j \in Addr : a <= j /\ mem[j] = NUL

Fits(a) == a + n <= Size

(***************************************************************************)
(* What a caller owes: regions inside memory, disjoint ones to memcpy,     *)
(* terminated strings to strlen, strcmp and strchr; a terminator or maxlen *)
(* bytes to strnlen.                                                       *)
(***************************************************************************)
Legal ==
  CASE fn = "memcpy"              -> Fits(d) /\ Fits(s) /\ (d + n <= s \/ s + n <= d)
    [] fn \in {"memmove", "memcmp"} -> Fits(d) /\ Fits(s)
    [] fn = "memset"              -> Fits(d)
    [] fn = "strnlen"             -> Fits(d) \/ IsString(d)
    [] fn = "strcmp"              -> IsString(d) /\ IsString(s)
    [] OTHER                      -> IsString(d)

(***************************************************************************)
(* memmove counts down when the source is below the destination.           *)
(***************************************************************************)
Down_never == FALSE                         \* mutation: always upwards

Down == fn = "memmove" /\ s < d

Init ==
  /\ mem \in [Addr -> Bytes] /\ mem0 = mem
  /\ fn \in {"memcpy", "memset", "memmove", "memcmp", "strlen", "strnlen", "strcmp", "strchr"}
  /\ d \in Addr /\ n \in 0 .. Size
  /\ s \in IF fn \in {"memcpy", "memmove", "memcmp", "strcmp"} THEN Addr ELSE {0}
  /\ c \in IF fn \in {"memset", "strchr"} THEN Ints ELSE {0}
  /\ Legal
  /\ pc = "run" /\ ret = 0
  /\ i = IF Down THEN n ELSE 0

Runs(f) == pc = "run" /\ fn = f

Return(v) == pc' = "ret" /\ ret' = v /\ UNCHANGED <<mem, i, args>>

Goes(j) == i' = j /\ UNCHANGED <<pc, ret, args>>

-----------------------------------------------------------------------------
memcpy ==
  /\ Runs("memcpy")
  /\ IF i < n THEN mem' = [mem EXCEPT ![d + i] = mem[s + i]] /\ Goes(i + 1)
     ELSE Return(d)

memset ==
  /\ Runs("memset")
  /\ IF i < n THEN mem' = [mem EXCEPT ![d + i] = c % UINT8] /\ Goes(i + 1)
     ELSE Return(d)

memmove ==
  /\ Runs("memmove")
  /\ \/ ~Down /\ s # d /\ i < n /\ mem' = [mem EXCEPT ![d + i] = mem[s + i]] /\ Goes(i + 1)
     \/ Down /\ i > 0 /\ mem' = [mem EXCEPT ![d + i - 1] = mem[s + i - 1]] /\ Goes(i - 1)
     \/ s = d /\ Return(d)
     \/ ~Down /\ s # d /\ i = n /\ Return(d)
     \/ Down /\ i = 0 /\ Return(d)

Order(x, y) == IF x < y THEN -1 ELSE 1

memcmp ==
  /\ Runs("memcmp")
  /\ IF i >= n THEN Return(0)
     ELSE IF mem[d + i] # mem[s + i] THEN Return(Order(mem[d + i], mem[s + i]))
     ELSE Goes(i + 1) /\ UNCHANGED mem

strlen ==
  /\ Runs("strlen")
  /\ IF mem[d + i] # NUL THEN Goes(i + 1) /\ UNCHANGED mem ELSE Return(i)

strnlen ==
  /\ Runs("strnlen")
  /\ IF i < n /\ mem[d + i] # NUL THEN Goes(i + 1) /\ UNCHANGED mem ELSE Return(i)

strcmp_or ==                                \* mutation: || for && in the loop
  /\ Runs("strcmp")
  /\ IF mem[d + i] # NUL \/ mem[s + i] # NUL
       THEN IF mem[d + i] # mem[s + i] /\ mem[d + i] # NUL /\ mem[s + i] # NUL
              THEN Return(Order(mem[d + i], mem[s + i]))
              ELSE Goes(i + 1) /\ UNCHANGED mem
       ELSE Return(0)

strcmp_length ==                            \* mutation: equal when one ends
  /\ Runs("strcmp")
  /\ IF mem[d + i] # NUL /\ mem[s + i] # NUL
       THEN IF mem[d + i] # mem[s + i] THEN Return(Order(mem[d + i], mem[s + i]))
            ELSE Goes(i + 1) /\ UNCHANGED mem
       ELSE Return(0)

strcmp ==
  /\ Runs("strcmp")
  /\ IF mem[d + i] # NUL /\ mem[s + i] # NUL
       THEN IF mem[d + i] # mem[s + i] THEN Return(Order(mem[d + i], mem[s + i]))
            ELSE Goes(i + 1) /\ UNCHANGED mem
       ELSE IF mem[d + i] = mem[s + i] THEN Return(0)
       ELSE Return(IF mem[d + i] = NUL THEN -1 ELSE 1)

strchr ==
  /\ Runs("strchr")
  /\ IF mem[d + i] = c % UINT8 THEN Return(d + i)
     ELSE IF mem[d + i] = NUL THEN Return(NULL)
     ELSE Goes(i + 1) /\ UNCHANGED mem

-----------------------------------------------------------------------------
Step == \/ memcpy \/ memset \/ memmove \/ memcmp
        \/ strlen \/ strnlen \/ strcmp \/ strchr

Returned == pc = "ret" /\ UNCHANGED vars

Next == Step \/ Returned

Spec == Init /\ [][Next]_vars
=============================================================================
