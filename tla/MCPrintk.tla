------------------------------ MODULE MCPrintk ------------------------------
(***************************************************************************)
(* Calls: every numeric conversion with every modifier, with and without   *)
(* padding, at the edges of every argument width; messages with line ends  *)
(* in every place; the remaining conversions.                              *)
(***************************************************************************)
EXTENDS PrintkProps, SequencesExt, TLC

MCChar == {LowerDigits[d] : d \in 1 .. 16} \cup {UpperDigits[d] : d \in 1 .. 16}
          \cup {"%", "-", "x", "X", "(", ")", "n", "u", "l", "[", "]", ".", " ", "\r", "\n",
                "h", "z", "t", "s", "i", "p", "q"}

MCSpan == [none |-> 32, hh |-> 8, h |-> 16, l |-> 64, ll |-> 64, z |-> 64, t |-> 64]

(***************************************************************************)
(* A call from the pieces of its format, as the parts that describe it.    *)
(***************************************************************************)
Plain(c) == [kind |-> "char", chars |-> <<c>>, takes |-> <<>>]

Converted(zero, digits, length, letter, a) ==
  [kind |-> "conversion", zero |-> zero, digits |-> digits, length |-> length, letter |-> letter,
   chars |-> <<"%">> \o (IF zero THEN <<"0">> ELSE <<>>) \o digits \o Modifier[length]
             \o <<letter>>,
   takes |-> a]

Simple(letter, a) == Converted(FALSE, <<>>, "none", letter, a)

Chars(pieces) == FlattenSeq([k \in DOMAIN pieces |-> pieces[k].chars])
Args(pieces)  == FlattenSeq([k \in DOMAIN pieces |-> pieces[k].takes])

Parts(pieces) ==
  LET rest(k) == Args(SubSeq(pieces, k, Len(pieces)))
      size(k) == IF pieces[k].kind = "char" THEN 1
                 ELSE Len(PartText([rest |-> rest(k)] @@ pieces[k]))
      off[k \in 1 .. Len(pieces) + 1] == IF k = 1 THEN 0 ELSE off[k - 1] + size(k - 1)
      place(k) == [at |-> 1 + Len(Chars(SubSeq(pieces, 1, k - 1))), rest |-> rest(k),
                   off |-> off[k]]
  IN  [k \in 1 .. Len(pieces) + 1 |->
         place(k) @@ (IF k > Len(pieces) THEN [kind |-> "end"] ELSE pieces[k])]

Numbers ==
  {LET pieces == <<Converted(zero, digits, length, letter, <<v>>)>>
   IN  [fn |-> "kprintf", fmt |-> Chars(pieces), args |-> <<v>>,
        spec |-> [kind |-> "number", parts |-> Parts(pieces),
                  text |-> PartText(Parts(pieces)[1])]] :
     zero \in BOOLEAN, digits \in {<<>>, <<"3">>, <<"3", "5">>}, length \in DOMAIN MCSpan,
     letter \in {"d", "u", "x", "X"},
     v \in {0, 3, 4, 7, 8, 12, 15, 16, 31, 32, 42, 63}}

Message(pieces, lone, t) ==
  [fn |-> "klog", fmt |-> Chars(pieces) \o lone, args |-> Args(pieces),
   spec |-> [kind |-> "message", parts |-> Parts(pieces), text |-> t]]

Texts == UNION {[1 .. n -> {"a", "\n"}] : n \in 0 .. 3}

Messages ==
  {Message([k \in DOMAIN t |-> Plain(t[k])], <<>>, t) : t \in Texts} \cup
  {Message(<<Simple("s", <<t>>), Plain("b")>>, <<>>, t \o <<"b">>) : t \in Texts} \cup
  {Message(<<Converted(FALSE, <<"4">>, "none", "s", <<Null>>)>>, <<>>,
           <<"(", "n", "u", "l", "l", ")">>),
   Message(<<Converted(TRUE, <<"4">>, "none", "s", <<<<"a", "\n">>>>)>>, <<>>,
           <<"0", "0", "a", "\n">>),
   Message(<<Simple("c", <<"\n">>), Simple("c", <<"a">>)>>, <<>>, <<"\n", "a">>),
   Message(<<Simple("%", <<>>), Simple("q", <<>>)>>, <<"%">>, <<"%", "%", "q">>),
   Message(<<Simple("p", <<42>>), Converted(FALSE, <<"1", "2">>, "none", "i", <<7>>)>>, <<>>,
           <<"0", "x", "2", "a">> \o [j \in 1 .. 11 |-> " "] \o <<"7">>)}

MCScripts == {<<c>> : c \in Numbers}
             \cup {<<c, d>> : c \in Messages, d \in {Message(<<Plain("a")>>, <<>>, <<"a">>)}}

MCTimes == {0, 42, 61007}
=============================================================================
