----------------------------- MODULE StringProof ----------------------------
(***************************************************************************)
(* Proofs about the functions of lib/string.c, for a memory of any size,   *)
(* any byte values in it and every legal call.                             *)
(***************************************************************************)
EXTENDS StringProps, WellFoundedInduction, TLAPS

-----------------------------------------------------------------------------
Writers == {"memcpy", "memset", "memmove"}

TypeOK ==
  /\ mem \in [Addr -> 0 .. UINT8 - 1] /\ mem0 \in [Addr -> 0 .. UINT8 - 1]
  /\ fn \in Writers \cup {"memcmp", "strlen", "strnlen", "strcmp", "strchr"}
  /\ d \in Addr /\ s \in Addr /\ n \in 0 .. Size /\ c \in Nat
  /\ pc \in {"run", "ret"} /\ i \in Nat /\ ret \in Int

(***************************************************************************)
(* A string in the memory the function was called with.                    *)
(***************************************************************************)
Terminated(a) == \E j \in Addr : a <= j /\ mem0[j] = NUL

(***************************************************************************)
(* What the caller owed, kept through the call.                            *)
(***************************************************************************)
Owed ==
  /\ fn \in {"memcpy", "memmove", "memcmp"} => d + n <= Size /\ s + n <= Size
  /\ fn = "memcpy" => d + n <= s \/ s + n <= d
  /\ fn = "memset" => d + n <= Size
  /\ fn = "strnlen" => d + n <= Size \/ Terminated(d)
  /\ fn \in {"strlen", "strcmp", "strchr"} => Terminated(d)
  /\ fn = "strcmp" => Terminated(s)

(***************************************************************************)
(* The memory after bytes lo .. hi - 1 of the destination were written.    *)
(***************************************************************************)
Copied(lo, hi) ==
  [a \in Addr |->
     IF a \in d + lo .. d + hi - 1
       THEN IF fn = "memset" THEN c % UINT8 ELSE mem0[s + (a - d)]
     ELSE mem0[a]]

(***************************************************************************)
(* How far the writing loops are: memmove may have done the upper end      *)
(* first.                                                                  *)
(***************************************************************************)
Written ==
  /\ fn \notin Writers => mem = mem0
  /\ fn \in Writers /\ pc = "run" =>
       i <= n /\ mem = IF Down THEN Copied(i, n) ELSE Copied(0, i)
  /\ fn \in Writers /\ pc = "ret" => mem = Copied(0, n)

(***************************************************************************)
(* What the reading loops know of the bytes they have passed.              *)
(***************************************************************************)
Passed ==
  pc = "run" =>
    /\ fn \in {"memcmp", "strnlen"} => i <= n
    /\ fn \in {"memcmp", "strcmp"} => \A j \in 0 .. i - 1 : mem0[d + j] = mem0[s + j]
    /\ fn \in {"strlen", "strcmp", "strchr"} => i <= Length(d)
    /\ fn = "strnlen" => \A j \in 0 .. i - 1 : d + j < Size /\ mem0[d + j] # NUL
    /\ fn = "strcmp" => i <= Length(s)
    /\ fn = "strchr" => \A j \in 0 .. i - 1 : mem0[d + j] # c % UINT8

IInv == TypeOK /\ Owed /\ Written /\ Passed /\ Answered

-----------------------------------------------------------------------------
(***************************************************************************)
(* First(S) is the least element of S, where there is one.                 *)
(***************************************************************************)
LEMMA FirstIs ==
  ASSUME NEW S \in SUBSET Nat, NEW x \in S, \A y \in S : x <= y
  PROVE  First(S) = x
<1>1. \E z \in S : \A y \in S : z <= y
  OBVIOUS
<1>2. First(S) \in S /\ \A y \in S : First(S) <= y
  BY <1>1 DEF First
<1>3. First(S) \in Nat /\ x \in Nat /\ First(S) <= x /\ x <= First(S)
  BY <1>2
<1> QED  BY <1>3

(***************************************************************************)
(* Every set of natural numbers that is not empty has a least element.     *)
(***************************************************************************)
LEMMA FirstExists ==
  ASSUME NEW S \in SUBSET Nat, S # {}
  PROVE  First(S) \in S /\ \A y \in S : First(S) <= y
<1> DEFINE Less == {ss \in Nat \X Nat : ss[1] < ss[2]}
<1>1. IsWellFoundedOn(Less, Nat)
  BY NatLessThanWellFounded DEF OpToRel
<1>2. PICK x \in S : \A y \in S : ~(<<y, x>> \in Less)
  <2> HIDE DEF Less
  <2> QED  BY <1>1, WFMin
<1>3. ASSUME NEW y \in S PROVE x <= y
  <2>1. x \in Nat /\ y \in Nat
    OBVIOUS
  <2>2. ~(<<y, x>>[1] < <<y, x>>[2])
    BY <1>2, <2>1
  <2> QED  BY <2>1, <2>2
<1> QED  BY <1>3, FirstIs

(***************************************************************************)
(* The length of a string: the terminator is there, and none is before it. *)
(***************************************************************************)
LEMMA LengthFacts ==
  ASSUME TypeOK, NEW a \in Addr, Terminated(a)
  PROVE  /\ Length(a) \in Nat /\ a + Length(a) <= Size - 1
         /\ mem0[a + Length(a)] = NUL
         /\ \A j \in Nat : j < Length(a) => mem0[a + j] # NUL
<1> DEFINE S == {j \in 0 .. Size - 1 - a : mem0[a + j] = NUL}
<1>1. PICK k \in Addr : a <= k /\ mem0[k] = NUL
  BY DEF Terminated
<1>2. k - a \in S /\ S \in SUBSET Nat
  BY <1>1, StringAssumption DEF Addr
<1>3. First(S) \in S /\ \A y \in S : First(S) <= y
  BY <1>2, FirstExists
<1>4. Length(a) = First(S)
  BY DEF Length
<1>5. Length(a) \in 0 .. Size - 1 - a /\ mem0[a + Length(a)] = NUL
  BY <1>3, <1>4
<1>6. ASSUME NEW j \in Nat, j < Length(a) PROVE mem0[a + j] # NUL
  <2>1. j \in 0 .. Size - 1 - a
    BY <1>5, <1>6, StringAssumption DEF Addr
  <2>2. j \notin S
    <3>1. \A y \in S : Length(a) <= y
      BY <1>3, <1>4
    <3>2. ~(Length(a) <= j)
      BY <1>5, <1>6
    <3> HIDE DEF S
    <3> QED  BY <3>1, <3>2
  <2> QED  BY <2>1, <2>2
<1> QED  BY <1>5, <1>6, StringAssumption DEF Addr

-----------------------------------------------------------------------------
(***************************************************************************)
(* The answer the function owes: Compared and Measured with v for ret.     *)
(***************************************************************************)
Top == IF fn = "memcmp" THEN n
       ELSE 1 + (IF Length(d) < Length(s) THEN Length(d) ELSE Length(s))
Diffs == {j \in 0 .. Top - 1 : mem0[d + j] # mem0[s + j]}
Ends  == {n} \cup {j \in 0 .. n - 1 : d + j < Size /\ mem0[d + j] = NUL}
Hits  == {j \in 0 .. Length(d) : mem0[d + j] = c % UINT8}

Right(v) ==
  /\ fn \in {"memcmp", "strcmp"} =>
       v = IF Diffs = {} THEN 0
           ELSE IF mem0[d + First(Diffs)] < mem0[s + First(Diffs)] THEN -1 ELSE 1
  /\ fn = "strlen"  => v = Length(d)
  /\ fn = "strnlen" => v = First(Ends)
  /\ fn = "strchr"  => v = IF Hits = {} THEN NULL ELSE d + First(Hits)

(***************************************************************************)
(* Answered is Right of the result.                                        *)
(***************************************************************************)
LEMMA AnsweredIsRight == Answered <=> (pc = "ret" => Right(ret))
<1>1. Compared <=> (pc = "ret" /\ fn \in {"memcmp", "strcmp"} =>
        ret = IF Diffs = {} THEN 0
              ELSE IF mem0[d + First(Diffs)] < mem0[s + First(Diffs)] THEN -1 ELSE 1)
  BY Zenon DEF Compared, Diffs, Top
<1>2. Measured <=> (pc = "ret" =>
        /\ fn = "strlen"  => ret = Length(d)
        /\ fn = "strnlen" => ret = First(Ends)
        /\ fn = "strchr"  => ret = IF Hits = {} THEN NULL ELSE d + First(Hits))
  BY DEF Measured, Ends, Hits
<1> QED  BY <1>1, <1>2 DEF Answered, Right

(***************************************************************************)
(* The answer depends on the arguments alone.                              *)
(***************************************************************************)
LEMMA SameArgs ==
  ASSUME UNCHANGED args
  PROVE  /\ Length(d)' = Length(d) /\ Length(s)' = Length(s)
         /\ Diffs' = Diffs /\ Ends' = Ends /\ Hits' = Hits
         /\ Owed' <=> Owed
<1>1. Length(d)' = Length(d) /\ Length(s)' = Length(s)
  BY DEF args, Length
<1>2. Diffs' = Diffs
  BY <1>1 DEF args, Diffs, Top
<1>3. Ends' = Ends /\ Hits' = Hits
  BY <1>1 DEF args, Ends, Hits
<1>4. Owed' <=> Owed
  BY DEF args, Owed, Terminated
<1> QED  BY <1>1, <1>2, <1>3, <1>4

(***************************************************************************)
(* A function that writes nothing returns the right answer.                *)
(***************************************************************************)
LEMMA ReturnAnswer ==
  ASSUME IInv, fn \notin Writers, NEW v \in Int, Right(v), Return(v)
  PROVE  IInv'
<1>1. /\ pc' = "ret" /\ ret' = v /\ UNCHANGED <<mem, i, args>>
  BY DEF Return
<1>2. TypeOK' /\ Written' /\ Passed'
  BY <1>1 DEF IInv, TypeOK, Written, Passed, args
<1>3. Owed'
  BY <1>1, SameArgs DEF IInv
<1>4. Right(ret)'
  <2>1. fn' = fn /\ mem0' = mem0 /\ d' = d /\ s' = s
    BY <1>1 DEF args
  <2> QED  BY <1>1, <2>1, SameArgs DEF Right
<1>5. Answered'
  BY <1>4, AnsweredIsRight, PTL
<1> QED  BY <1>2, <1>3, <1>5 DEF IInv

(***************************************************************************)
(* A turn of a reading loop.                                               *)
(***************************************************************************)
LEMMA GoesOn ==
  ASSUME IInv, pc = "run", fn \notin Writers, Goes(i + 1), UNCHANGED mem,
         fn \in {"memcmp", "strnlen"} => i < n,
         fn \in {"memcmp", "strcmp"} => mem0[d + i] = mem0[s + i],
         fn \in {"strlen", "strcmp", "strchr"} => i < Length(d),
         fn = "strnlen" => d + i < Size /\ mem0[d + i] # NUL,
         fn = "strcmp" => i < Length(s),
         fn = "strchr" => mem0[d + i] # c % UINT8
  PROVE  IInv'
<1>1. i' = i + 1 /\ UNCHANGED <<pc, ret, mem, args>>
  BY DEF Goes
<1>2. TypeOK' /\ Written'
  BY <1>1 DEF IInv, TypeOK, Written, args
<1>3. Owed'
  BY <1>1, SameArgs DEF IInv
<1>4. Passed'
  <2>1. i \in Nat /\ n \in Nat /\ fn' = fn /\ mem0' = mem0 /\ d' = d /\ s' = s /\ c' = c /\ n' = n
    BY <1>1 DEF IInv, TypeOK, args
  <2>2. fn \in {"strlen", "strcmp", "strchr"} => Length(d) \in Nat
    BY LengthFacts DEF IInv, Owed, TypeOK
  <2>3. fn = "strcmp" => Length(s) \in Nat
    BY LengthFacts DEF IInv, Owed, TypeOK
  <2>4. \A j \in 0 .. i' - 1 : j \in 0 .. i - 1 \/ j = i
    BY <1>1, <2>1
  <2>5. /\ fn \in {"memcmp", "strnlen"} => i' <= n
        /\ fn \in {"strlen", "strcmp", "strchr"} => i' <= Length(d)
        /\ fn = "strcmp" => i' <= Length(s)
    BY <1>1, <2>1, <2>2, <2>3
  <2>6. /\ fn \in {"memcmp", "strcmp"} => \A j \in 0 .. i' - 1 : mem0[d + j] = mem0[s + j]
        /\ fn = "strnlen" => \A j \in 0 .. i' - 1 : d + j < Size /\ mem0[d + j] # NUL
        /\ fn = "strchr" => \A j \in 0 .. i' - 1 : mem0[d + j] # c % UINT8
    BY <2>4 DEF IInv, Passed
  <2> QED  BY <1>1, <2>1, <2>5, <2>6, SameArgs DEF Passed
<1>5. (pc = "ret" => Right(ret))'
  BY <1>1
<1>6. Answered'
  BY <1>5, AnsweredIsRight, PTL
<1> QED  BY <1>2, <1>3, <1>4, <1>6 DEF IInv

-----------------------------------------------------------------------------
(***************************************************************************)
(* memcmp: the first byte that differs is the one the loop stops at.       *)
(***************************************************************************)
LEMMA MemcmpOK == IInv /\ memcmp => IInv'
<1> SUFFICES ASSUME IInv, memcmp PROVE IInv'
  OBVIOUS
<1>1. pc = "run" /\ fn = "memcmp" /\ fn \notin Writers /\ mem = mem0
  BY DEF memcmp, Runs, Writers, IInv, Written
<1>2. i \in Nat /\ n \in Nat /\ i <= n /\ d \in Nat /\ s \in Nat /\ Top = n
  BY <1>1, StringAssumption DEF IInv, TypeOK, Passed, Top, Addr
<1>3. \A j \in 0 .. i - 1 : mem0[d + j] = mem0[s + j]
  BY <1>1 DEF IInv, Passed
<1>4. CASE i >= n
  <2>1. Diffs = {}
    BY <1>2, <1>3, <1>4 DEF Diffs
  <2>2. Right(0) /\ Return(0)
    BY <1>1, <1>4, <2>1 DEF Right, memcmp
  <2> QED  BY <1>1, <2>2, ReturnAnswer
<1>5. CASE i < n /\ mem0[d + i] # mem0[s + i]
  <2>1. i \in Diffs /\ Diffs \in SUBSET Nat /\ \A j \in Diffs : i <= j
    BY <1>2, <1>3, <1>5 DEF Diffs
  <2>2. First(Diffs) = i
    BY <2>1, FirstIs
  <2>3. PICK v \in Int : v = Order(mem0[d + i], mem0[s + i])
    BY DEF Order
  <2>4. Right(v)
    BY <1>1, <2>1, <2>2, <2>3 DEF Right, Order
  <2>5. Return(v)
    BY <1>1, <1>2, <1>5, <2>3 DEF memcmp
  <2> QED  BY <1>1, <2>4, <2>5, ReturnAnswer
<1>6. CASE i < n /\ mem0[d + i] = mem0[s + i]
  <2>1. Goes(i + 1) /\ UNCHANGED mem
    BY <1>1, <1>2, <1>6 DEF memcmp
  <2> QED  BY <1>1, <1>6, <2>1, GoesOn
<1> QED  BY <1>2, <1>4, <1>5, <1>6

(***************************************************************************)
(* strlen: the loop stops at the first terminator.                         *)
(***************************************************************************)
LEMMA StrlenOK == IInv /\ strlen => IInv'
<1> SUFFICES ASSUME IInv, strlen PROVE IInv'
  OBVIOUS
<1>1. pc = "run" /\ fn = "strlen" /\ fn \notin Writers /\ mem = mem0
  BY DEF strlen, Runs, Writers, IInv, Written
<1>2. /\ i \in Nat /\ Length(d) \in Nat /\ i <= Length(d) /\ mem0[d + Length(d)] = NUL
      /\ i < Length(d) => mem0[d + i] # NUL
  BY <1>1, LengthFacts DEF IInv, TypeOK, Owed, Passed
<1>3. CASE i < Length(d)
  BY <1>1, <1>2, <1>3, GoesOn DEF strlen
<1>4. CASE i = Length(d)
  <2>1. Return(i) /\ Right(i)
    BY <1>1, <1>2, <1>4 DEF strlen, Right
  <2> QED  BY <1>1, <1>2, <2>1, ReturnAnswer
<1> QED  BY <1>2, <1>3, <1>4

(***************************************************************************)
(* strnlen: the loop stops at the first terminator or at maxlen.           *)
(***************************************************************************)
LEMMA StrnlenOK == IInv /\ strnlen => IInv'
<1> SUFFICES ASSUME IInv, strnlen PROVE IInv'
  OBVIOUS
<1>1. pc = "run" /\ fn = "strnlen" /\ fn \notin Writers /\ mem = mem0
  BY DEF strnlen, Runs, Writers, IInv, Written
<1>2. i \in Nat /\ n \in Nat /\ i <= n /\ d \in Nat
  BY <1>1, StringAssumption DEF IInv, TypeOK, Passed, Addr
<1>3. \A j \in 0 .. i - 1 : d + j < Size /\ mem0[d + j] # NUL
  BY <1>1 DEF IInv, Passed
<1>4. i < n => d + i < Size
  <2>1. CASE d + n <= Size
    BY <1>2, <2>1, StringAssumption
  <2>2. CASE Terminated(d)
    <3>1. Length(d) \in Nat /\ d + Length(d) <= Size - 1 /\ mem0[d + Length(d)] = NUL
      BY <2>2, LengthFacts DEF IInv, TypeOK
    <3>2. i <= Length(d)
      BY <1>2, <1>3, <3>1
    <3> QED  BY <1>2, <3>1, <3>2, StringAssumption
  <2> QED  BY <1>1, <2>1, <2>2 DEF IInv, Owed
<1>5. CASE i < n /\ mem0[d + i] # NUL
  BY <1>1, <1>4, <1>5, GoesOn DEF strnlen
<1>6. CASE ~(i < n /\ mem0[d + i] # NUL)
  <2>1. i \in Ends /\ Ends \in SUBSET Nat
    BY <1>2, <1>4, <1>6 DEF Ends
  <2>2. \A j \in Ends : i <= j
    BY <1>2, <1>3 DEF Ends
  <2>3. First(Ends) = i
    BY <2>1, <2>2, FirstIs
  <2>4. Return(i) /\ Right(i)
    BY <1>1, <1>6, <2>3 DEF strnlen, Right
  <2> QED  BY <1>1, <1>2, <2>4, ReturnAnswer
<1> QED  BY <1>5, <1>6

(***************************************************************************)
(* strcmp: the loop stops where the two differ or, equal so far, where the *)
(* shorter one ends.                                                       *)
(***************************************************************************)
LEMMA StrcmpOK == IInv /\ strcmp => IInv'
<1> SUFFICES ASSUME IInv, strcmp PROVE IInv'
  OBVIOUS
<1>1. pc = "run" /\ fn = "strcmp" /\ fn \notin Writers /\ mem = mem0
  BY DEF strcmp, Runs, Writers, IInv, Written
<1>2. /\ i \in Nat /\ d \in Addr /\ s \in Addr
      /\ Terminated(d) /\ Terminated(s) /\ i <= Length(d) /\ i <= Length(s)
  BY <1>1 DEF IInv, TypeOK, Owed, Passed
<1>3. /\ Length(d) \in Nat /\ mem0[d + Length(d)] = NUL /\ d + Length(d) <= Size - 1
      /\ \A j \in Nat : j < Length(d) => mem0[d + j] # NUL
  BY <1>2, LengthFacts DEF IInv
<1>4. /\ Length(s) \in Nat /\ mem0[s + Length(s)] = NUL /\ s + Length(s) <= Size - 1
      /\ \A j \in Nat : j < Length(s) => mem0[s + j] # NUL
  BY <1>2, LengthFacts DEF IInv
<1>5. \A j \in 0 .. i - 1 : mem0[d + j] = mem0[s + j]
  BY <1>1 DEF IInv, Passed
<1>6. Top \in Nat /\ i < Top /\ Top <= 1 + Length(d) /\ Top <= 1 + Length(s)
  BY <1>1, <1>2, <1>3, <1>4 DEF Top
<1>7. mem0[d + i] \in Nat /\ mem0[s + i] \in Nat
  <2>1. d + i \in Addr /\ s + i \in Addr
    BY <1>2, <1>3, <1>4, StringAssumption DEF Addr
  <2> QED  BY <2>1, StringAssumption DEF IInv, TypeOK
<1>8. (mem0[d + i] = NUL => i = Length(d)) /\ (mem0[s + i] = NUL => i = Length(s))
  BY <1>2, <1>3, <1>4
<1>9. CASE mem0[d + i] # mem0[s + i]
  <2>1. i \in Diffs /\ Diffs \in SUBSET Nat /\ \A j \in Diffs : i <= j
    BY <1>2, <1>5, <1>6, <1>9 DEF Diffs
  <2>2. First(Diffs) = i
    BY <2>1, FirstIs
  <2>3. PICK v \in Int : v = Order(mem0[d + i], mem0[s + i])
    BY DEF Order
  <2>4. Right(v)
    BY <1>1, <2>1, <2>2, <2>3 DEF Right, Order
  <2>5. Return(v)
    BY <1>1, <1>7, <1>9, <2>3 DEF strcmp, Order, NUL
  <2> QED  BY <1>1, <2>4, <2>5, ReturnAnswer
<1>10. CASE mem0[d + i] = mem0[s + i] /\ mem0[d + i] # NUL
  <2>1. i < Length(d) /\ i < Length(s)
    BY <1>2, <1>3, <1>4, <1>10
  <2>2. Goes(i + 1) /\ UNCHANGED mem
    BY <1>1, <1>10 DEF strcmp
  <2> QED  BY <1>1, <1>10, <2>1, <2>2, GoesOn
<1>11. CASE mem0[d + i] = mem0[s + i] /\ mem0[d + i] = NUL
  <2>1. Top = i + 1
    BY <1>1, <1>2, <1>8, <1>11 DEF Top
  <2>2. Diffs = {}
    <3>1. \A j \in 0 .. Top - 1 : j \in 0 .. i - 1 \/ j = i
      BY <1>2, <2>1
    <3> QED  BY <1>5, <1>11, <3>1 DEF Diffs
  <2>3. Right(0) /\ Return(0)
    BY <1>1, <1>11, <2>2 DEF Right, strcmp
  <2> QED  BY <1>1, <2>3, ReturnAnswer
<1> QED  BY <1>9, <1>10, <1>11

(***************************************************************************)
(* strchr: the loop stops at the first such byte; the terminator is tried  *)
(* as one before it ends the search.                                       *)
(***************************************************************************)
LEMMA StrchrOK == IInv /\ strchr => IInv'
<1> SUFFICES ASSUME IInv, strchr PROVE IInv'
  OBVIOUS
<1>1. pc = "run" /\ fn = "strchr" /\ fn \notin Writers /\ mem = mem0
  BY DEF strchr, Runs, Writers, IInv, Written
<1>2. /\ i \in Nat /\ d \in Addr /\ Terminated(d) /\ i <= Length(d)
      /\ \A j \in 0 .. i - 1 : mem0[d + j] # c % UINT8
  BY <1>1 DEF IInv, TypeOK, Owed, Passed
<1>3. /\ Length(d) \in Nat /\ mem0[d + Length(d)] = NUL /\ d \in Int
      /\ \A j \in Nat : j < Length(d) => mem0[d + j] # NUL
  BY <1>2, LengthFacts DEF IInv, Addr
<1>4. CASE mem0[d + i] = c % UINT8
  <2>1. i \in Hits /\ Hits \in SUBSET Nat /\ \A j \in Hits : i <= j
    BY <1>2, <1>3, <1>4 DEF Hits
  <2>2. First(Hits) = i
    BY <2>1, FirstIs
  <2>3. PICK v \in Int : v = d + i
    BY <1>2, <1>3
  <2>4. Right(v) /\ Return(v)
    BY <1>1, <1>4, <2>1, <2>2, <2>3 DEF Right, strchr
  <2> QED  BY <1>1, <2>4, ReturnAnswer
<1>5. CASE mem0[d + i] # c % UINT8 /\ mem0[d + i] = NUL
  <2>1. i = Length(d)
    BY <1>2, <1>3, <1>5
  <2>2. Hits = {}
    <3>1. \A j \in 0 .. Length(d) : j \in 0 .. i - 1 \/ j = i
      BY <1>2, <2>1
    <3> QED  BY <1>2, <1>5, <3>1 DEF Hits
  <2>3. Right(NULL) /\ Return(NULL) /\ NULL \in Int
    BY <1>1, <1>5, <2>2 DEF Right, strchr, NULL
  <2> QED  BY <1>1, <2>3, ReturnAnswer
<1>6. CASE mem0[d + i] # c % UINT8 /\ mem0[d + i] # NUL
  <2>1. i < Length(d)
    BY <1>2, <1>3, <1>6
  <2>2. Goes(i + 1) /\ UNCHANGED mem
    BY <1>1, <1>6 DEF strchr
  <2> QED  BY <1>1, <1>6, <2>1, <2>2, GoesOn
<1> QED  BY <1>4, <1>5, <1>6

-----------------------------------------------------------------------------
(***************************************************************************)
(* A function that has written all it was to write returns.                *)
(***************************************************************************)
LEMMA ReturnWritten ==
  ASSUME IInv, fn \in Writers, mem = Copied(0, n), Return(d)
  PROVE  IInv'
<1>1. /\ pc' = "ret" /\ ret' = d /\ UNCHANGED <<mem, i, args>>
  BY DEF Return
<1>2. TypeOK' /\ Passed'
  BY <1>1, StringAssumption DEF IInv, TypeOK, Passed, args, Addr
<1>3. Written'
  BY <1>1 DEF Written, Copied, args, Writers
<1>4. Owed'
  BY <1>1, SameArgs DEF IInv
<1>5. Right(ret)'
  BY <1>1 DEF args, Right, Writers
<1>6. Answered'
  BY <1>5, AnsweredIsRight, PTL
<1> QED  BY <1>2, <1>3, <1>4, <1>6 DEF IInv

(***************************************************************************)
(* A turn of a writing loop that puts the right byte at d + k and leaves   *)
(* the rest.                                                               *)
(***************************************************************************)
LEMMA WriteStep ==
  ASSUME IInv, pc = "run", fn \in Writers, NEW k \in Nat, k < n,
         NEW v \in 0 .. UINT8 - 1,
         v = IF fn = "memset" THEN c % UINT8 ELSE mem0[s + k],
         mem' = [mem EXCEPT ![d + k] = v],
         IF Down THEN k = i - 1 /\ Goes(i - 1) ELSE k = i /\ Goes(i + 1)
  PROVE  IInv'
<1>1. UNCHANGED <<pc, ret, args>> /\ i' = IF Down THEN i - 1 ELSE i + 1
  BY DEF Goes
<1>2. i \in Nat /\ n \in Nat /\ d \in Nat /\ d + n <= Size /\ i <= n /\ d + k \in Addr
  BY StringAssumption DEF IInv, TypeOK, Owed, Written, Writers, Addr
<1>3. i' \in Nat /\ i' <= n
  BY <1>1, <1>2
<1>4. TypeOK'
  BY <1>1, <1>2, <1>3 DEF IInv, TypeOK, args
<1>5. Down' <=> Down
  BY <1>1 DEF Down, args
<1>6. mem' = IF Down THEN Copied(i', n) ELSE Copied(0, i')
  <2>1. CASE Down
    <3>1. mem = Copied(i, n) /\ i' = k /\ i = k + 1
      BY <1>1, <1>2, <2>1 DEF IInv, Written
    <3>2. ASSUME NEW a \in Addr PROVE mem'[a] = Copied(k, n)[a]
      <4>1. a \in Nat
        BY StringAssumption DEF Addr
      <4>2. CASE a = d + k
        BY <1>2, <4>1, <4>2 DEF IInv, TypeOK, Copied
      <4>3. CASE a # d + k
        BY <1>2, <3>1, <4>1, <4>3 DEF IInv, TypeOK, Copied
      <4> QED  BY <4>2, <4>3
    <3>3. mem' = [a \in Addr |-> mem'[a]]
      BY <1>4 DEF TypeOK
    <3>4. mem' = Copied(k, n)
      BY <3>2, <3>3 DEF Copied
    <3> QED  BY <2>1, <3>1, <3>4
  <2>2. CASE ~Down
    <3>1. mem = Copied(0, k) /\ i' = k + 1
      BY <1>1, <1>2, <2>2 DEF IInv, Written
    <3>2. ASSUME NEW a \in Addr PROVE mem'[a] = Copied(0, k + 1)[a]
      <4>1. a \in Nat
        BY StringAssumption DEF Addr
      <4>2. CASE a = d + k
        BY <1>2, <4>1, <4>2 DEF IInv, TypeOK, Copied
      <4>3. CASE a # d + k
        BY <1>2, <3>1, <4>1, <4>3 DEF IInv, TypeOK, Copied
      <4> QED  BY <4>2, <4>3
    <3>3. mem' = [a \in Addr |-> mem'[a]]
      BY <1>4 DEF TypeOK
    <3>4. mem' = Copied(0, k + 1)
      BY <3>2, <3>3 DEF Copied
    <3> QED  BY <2>2, <3>1, <3>4
  <2> QED  BY <2>1, <2>2
<1>7. Written'
  <2>1. n' = n /\ d' = d /\ s' = s /\ c' = c /\ fn' = fn /\ mem0' = mem0 /\ pc' = pc
    BY <1>1 DEF args
  <2> QED  BY <1>3, <1>5, <1>6, <2>1 DEF Written, Copied, Writers
<1>8. Passed' /\ (pc = "ret" => Right(ret))'
  BY <1>1 DEF Passed, Writers, args
<1>9. Owed'
  BY <1>1, SameArgs DEF IInv
<1>10. Answered'
  BY <1>8, AnsweredIsRight, PTL
<1> QED  BY <1>4, <1>7, <1>8, <1>9, <1>10 DEF IInv

(***************************************************************************)
(* memcpy: the regions are disjoint, so the source byte is still there.    *)
(***************************************************************************)
LEMMA MemcpyOK == IInv /\ memcpy => IInv'
<1> SUFFICES ASSUME IInv, memcpy PROVE IInv'
  OBVIOUS
<1>1. pc = "run" /\ fn = "memcpy" /\ fn \in Writers /\ ~Down
  BY DEF memcpy, Runs, Writers, Down
<1>2. mem = Copied(0, i) /\ i \in Nat /\ n \in Nat /\ i <= n /\ d \in Nat /\ s \in Nat
  BY <1>1, StringAssumption DEF IInv, TypeOK, Written, Addr
<1>3. d + n <= Size /\ s + n <= Size /\ (d + n <= s \/ s + n <= d)
  BY <1>1 DEF IInv, Owed
<1>4. CASE i < n
  <2>1. s + i \in Addr /\ s + i \notin d .. d + i - 1
    BY <1>2, <1>3, <1>4, StringAssumption DEF Addr
  <2>2. mem[s + i] = mem0[s + i] /\ mem0[s + i] \in 0 .. UINT8 - 1
    BY <1>2, <2>1 DEF Copied, IInv, TypeOK
  <2>3. mem' = [mem EXCEPT ![d + i] = mem0[s + i]] /\ Goes(i + 1)
    BY <1>4, <2>2 DEF memcpy
  <2> QED  BY <1>1, <1>2, <1>4, <2>2, <2>3, WriteStep
<1>5. CASE i = n
  BY <1>1, <1>2, <1>5, ReturnWritten DEF memcpy
<1> QED  BY <1>2, <1>4, <1>5

(***************************************************************************)
(* memset: every byte is the low byte of the int argument.                 *)
(***************************************************************************)
LEMMA MemsetOK == IInv /\ memset => IInv'
<1> SUFFICES ASSUME IInv, memset PROVE IInv'
  OBVIOUS
<1>1. pc = "run" /\ fn = "memset" /\ fn \in Writers /\ ~Down
  BY DEF memset, Runs, Writers, Down
<1>2. mem = Copied(0, i) /\ i \in Nat /\ n \in Nat /\ i <= n /\ c % UINT8 \in 0 .. UINT8 - 1
  BY <1>1, StringAssumption DEF IInv, TypeOK, Written, Addr
<1>3. CASE i < n
  BY <1>1, <1>2, <1>3, WriteStep DEF memset
<1>4. CASE i = n
  BY <1>1, <1>2, <1>4, ReturnWritten DEF memset
<1> QED  BY <1>2, <1>3, <1>4

(***************************************************************************)
(* memmove: upwards when the source is above, downwards when it is below,  *)
(* so the byte copied next is never one that was overwritten.              *)
(***************************************************************************)
LEMMA MemmoveOK == IInv /\ memmove => IInv'
<1> SUFFICES ASSUME IInv, memmove PROVE IInv'
  OBVIOUS
<1>1. pc = "run" /\ fn = "memmove" /\ fn \in Writers
  BY DEF memmove, Runs, Writers
<1>2. /\ i \in Nat /\ n \in Nat /\ i <= n /\ d \in Nat /\ s \in Nat
      /\ mem = IF Down THEN Copied(i, n) ELSE Copied(0, i)
  BY <1>1, StringAssumption DEF IInv, TypeOK, Written, Addr
<1>3. d + n <= Size /\ s + n <= Size /\ (Down <=> s < d)
  BY <1>1 DEF IInv, Owed, Down
<1>4. CASE ~Down /\ s # d /\ i < n
  <2>1. s + i \in Addr /\ s + i \notin d .. d + i - 1
    BY <1>2, <1>3, <1>4, StringAssumption DEF Addr
  <2>2. mem[s + i] = mem0[s + i] /\ mem0[s + i] \in 0 .. UINT8 - 1
    BY <1>2, <1>4, <2>1 DEF Copied, IInv, TypeOK
  <2>3. mem' = [mem EXCEPT ![d + i] = mem0[s + i]] /\ Goes(i + 1)
    BY <1>2, <1>4, <2>2 DEF memmove
  <2> QED  BY <1>1, <1>2, <1>4, <2>2, <2>3, WriteStep
<1>5. CASE Down /\ i > 0
  <2>1. PICK k \in Nat : k = i - 1
    BY <1>2, <1>5
  <2>2. s + k \in Addr /\ s + k \notin d + i .. d + n - 1 /\ k < n
    BY <1>2, <1>3, <1>5, <2>1, StringAssumption DEF Addr
  <2>3. mem[s + k] = mem0[s + k] /\ mem0[s + k] \in 0 .. UINT8 - 1
    BY <1>2, <1>5, <2>2 DEF Copied, IInv, TypeOK
  <2>4. d + i - 1 = d + k /\ s + i - 1 = s + k
    BY <1>2, <2>1
  <2>5. mem' = [mem EXCEPT ![d + k] = mem0[s + k]] /\ Goes(i - 1)
    BY <1>2, <1>3, <1>5, <2>3, <2>4 DEF memmove
  <2> QED  BY <1>1, <1>5, <2>1, <2>2, <2>3, <2>5, WriteStep
<1>6. CASE s = d
  <2>1. ~Down /\ Return(d)
    BY <1>2, <1>3, <1>6 DEF memmove
  <2>2. Copied(0, i) = Copied(0, n)
    BY <1>1, <1>2, <1>6, StringAssumption DEF Copied, Addr
  <2> QED  BY <1>1, <1>2, <2>1, <2>2, ReturnWritten
<1>7. CASE ~Down /\ s # d /\ i = n
  BY <1>1, <1>2, <1>7, ReturnWritten DEF memmove
<1>8. CASE Down /\ i = 0
  BY <1>1, <1>2, <1>3, <1>8, ReturnWritten DEF memmove
<1> QED  BY <1>2, <1>4, <1>5, <1>6, <1>7, <1>8

-----------------------------------------------------------------------------
(***************************************************************************)
(* A legal call satisfies the invariant before its first step.             *)
(***************************************************************************)
LEMMA InitOK == Init => IInv
<1> SUFFICES ASSUME Init PROVE IInv
  OBVIOUS
<1>1. mem \in [Addr -> 0 .. UINT8 - 1] /\ mem0 = mem
  BY StringAssumption DEF Init
<1>2. TypeOK
  BY <1>1, StringAssumption DEF Init, TypeOK, Writers, Addr
<1>3. Owed
  BY <1>1, <1>2 DEF Init, Legal, Fits, IsString, Owed, Terminated
<1>4. Written
  <2>1. i = (IF Down THEN n ELSE 0) /\ n \in Nat /\ d \in Nat
    BY <1>2, StringAssumption DEF Init, TypeOK, Addr
  <2>2. mem = Copied(0, 0) /\ mem = Copied(n, n)
    BY <1>1, <1>2, <2>1 DEF Copied, TypeOK
  <2> QED  BY <1>1, <2>1, <2>2 DEF Init, Written
<1>5. Passed
  <2>1. fn \notin Writers => i = 0
    BY DEF Init, Down, Writers
  <2>2. fn \in {"strlen", "strcmp", "strchr"} => Length(d) \in Nat
    BY <1>2, <1>3, LengthFacts DEF Owed, TypeOK
  <2>3. fn = "strcmp" => Length(s) \in Nat
    BY <1>2, <1>3, LengthFacts DEF Owed, TypeOK
  <2> QED  BY <1>2, <2>1, <2>2, <2>3 DEF Passed, Writers, TypeOK
<1>6. Answered
  BY AnsweredIsRight DEF Init
<1> QED  BY <1>2, <1>3, <1>4, <1>5, <1>6 DEF IInv

(***************************************************************************)
(* A step that changes no variable keeps the invariant.                    *)
(***************************************************************************)
LEMMA Stutter == IInv /\ UNCHANGED vars => IInv'
<1> SUFFICES ASSUME IInv, UNCHANGED vars PROVE IInv'
  OBVIOUS
<1>1. UNCHANGED <<mem, pc, i, ret>> /\ UNCHANGED args
  BY DEF vars
<1>2. n' = n /\ d' = d /\ s' = s /\ c' = c /\ fn' = fn /\ mem0' = mem0
  BY <1>1 DEF args
<1>3. TypeOK' /\ Written' /\ Owed'
  BY <1>1, <1>2, SameArgs DEF IInv, TypeOK, Written, Copied, Down
<1>4. Passed'
  BY <1>1, <1>2, SameArgs DEF IInv, Passed
<1>5. (pc = "ret" => Right(ret))'
  BY <1>1, <1>2, SameArgs, AnsweredIsRight DEF IInv, Right
<1>6. Answered'
  BY <1>5, AnsweredIsRight, PTL
<1> QED  BY <1>3, <1>4, <1>6 DEF IInv

(***************************************************************************)
(* The invariant holds throughout every call.                              *)
(***************************************************************************)
LEMMA Inductive == Spec => []IInv
<1>1. IInv /\ [Next]_vars => IInv'
  BY MemcpyOK, MemsetOK, MemmoveOK, MemcmpOK, StrlenOK, StrnlenOK, StrcmpOK, StrchrOK, Stutter
  DEF Next, Step, Returned
<1> QED  BY <1>1, InitOK, PTL DEF Spec

(***************************************************************************)
(* memcpy, memset and memmove leave the destination as the source was      *)
(* before the call, overlapping or not, and change no other byte; the      *)
(* functions that only read change none.                                   *)
(***************************************************************************)
THEOREM MovesRight == Spec => []Moved
<1>1. IInv => Moved
  <2> SUFFICES ASSUME IInv, pc = "ret" PROVE Moved
    BY DEF Moved
  <2>1. CASE fn \in Writers
    <3>1. mem = Copied(0, n) /\ d \in Nat
      BY <2>1, StringAssumption DEF IInv, Written, TypeOK, Addr
    <3> QED  BY <2>1, <3>1 DEF Moved, Copied, Writers
  <2>2. CASE fn \notin Writers
    BY <2>2 DEF Moved, IInv, Written, TypeOK, Writers
  <2> QED  BY <2>1, <2>2
<1> QED  BY <1>1, Inductive, PTL

(***************************************************************************)
(* memcmp and strcmp order the operands by the first byte that differs,    *)
(* strlen and strnlen measure up to the first terminator or maxlen, strchr *)
(* finds the first such byte: each loop computes its specification.        *)
(***************************************************************************)
THEOREM AnswersRight == Spec => []Answered
<1>1. IInv => Answered
  BY DEF IInv
<1> QED  BY <1>1, Inductive, PTL

(***************************************************************************)
(* strlen, strcmp and strchr never look past the terminator of a string    *)
(* they were given.                                                        *)
(***************************************************************************)
THEOREM LoopsStopAtEnd == Spec => []StopsAtEnd
<1>1. IInv => StopsAtEnd
  BY DEF IInv, Passed, StopsAtEnd
<1> QED  BY <1>1, Inductive, PTL
=============================================================================
