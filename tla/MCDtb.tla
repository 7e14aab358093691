------------------------------- MODULE MCDtb --------------------------------
(***************************************************************************)
(* Three kinds of blobs:                                                   *)
(*   Boards    a /chosen and an /aliases node, before or after a serial    *)
(*             port at /a and one at /soc/bbb, in every combination of     *)
(*             what the two ports and the two nodes say, or two ports of   *)
(*             the same name, or one port under cell counts from 0 to 3;   *)
(*   Trees     every well-formed tree of at most TreeTokens tokens after   *)
(*             the root, cut short or not;                                 *)
(*   Broken    every sequence of BrokenTokens tokens, broken ones          *)
(*             included.                                                   *)
(***************************************************************************)
EXTENDS DtbProps, TLC

CONSTANTS TreeTokens, BrokenTokens

Begin(n)      == <<[t |-> "begin", name |-> n]>>
End           == <<[t |-> "end"]>>
Nop           == <<[t |-> "nop"]>>
Stop          == <<[t |-> "stop"]>>
Cells(k, v)   == <<[t |-> "prop", key |-> k, val |-> v, whole |-> TRUE, str |-> FALSE]>>
Text(k, v)    == <<[t |-> "prop", key |-> k, val |-> v, whole |-> FALSE, str |-> TRUE]>>
Raw(k, v)     == <<[t |-> "prop", key |-> k, val |-> v, whole |-> FALSE, str |-> FALSE]>>
Node(n, body) == Begin(n) \o body \o End

MCNameLen ==
  ("" :> 0) @@ ("/" :> 1) @@ (":" :> 1) @@ ("a" :> 1) @@ ("bbb" :> 3) @@ ("soc" :> 3)
    @@ ("deep" :> 4) @@ ("opts" :> 4) @@ ("chosen" :> 6) @@ ("aliases" :> 7)
    @@ ("serial0" :> 7)

A   == <<"/", "a">>
B   == <<"/", "soc", "/", "bbb">>
Opt == <<":", "opts">>

ChosenBodies ==
  {Text("stdout-path", A), Text("stdout-path", B \o Opt), Text("stdout-path", <<"serial0">>),
   Text("stdout-path", <<"serial0">> \o Opt), Text("linux,stdout-path", A \o Opt),
   Text("stdout-path", B) \o Text("linux,stdout-path", A), Text("stdout-path", Opt),
   Text("stdout-path", <<"serial0">> \o A), Text("stdout-path", B \o B),
   Raw("stdout-path", A), Nop, <<>>}

AliasNodes ==
  {Node("aliases", Text("serial0", A)), Node("aliases", Text("serial0", B)),
   Node("aliases", Text("serial0", B \o Opt)), <<>>}

Names == {Text("compatible", <<"x">>), Text("compatible", <<"z", "y">>),
          Raw("compatible", <<"y", "x">>), <<>>}

Regs  == {Cells("reg", <<1, 2, 3>>) \o Cells("reg-shift", <<2>>) \o Cells("reg-io-width", <<4>>),
          Cells("reg", <<1, 2, 3>>) \o Cells("reg-io-width", <<2>>),
          Cells("reg", <<1, 2, 0>>), <<>>}

Body(chosen, aliases, last, a, ra, b) ==
  LET ports == Node("a", a \o ra)
                 \o Node("soc", Cells("#address-cells", <<1>>)
                      \o Node("bbb", b \o Cells("reg", <<5, 6>>)))
      info  == Node("chosen", chosen) \o aliases
  IN  IF last THEN ports \o info ELSE info \o ports

Boards ==
  {Node("", Body(c, al, last, a, ra, b)) \o Stop :
     c \in ChosenBodies, al \in AliasNodes, last \in BOOLEAN, a \in Names, ra \in Regs,
     b \in Names}
  \cup {Begin("") \o Body(Text("stdout-path", B), <<>>, FALSE, a, <<>>, b) : a \in Names, b \in Names}
  \cup {Node("", Node("chosen", Text("stdout-path", A)) \o Node("a", a \o ra) \o Node("a", b)) :
           a \in Names, ra \in Regs, b \in Names}
  \cup {Node("", Node("soc", Node("bbb", Begin("deep") \o b)) \o Node("a", b)) : b \in Names}
  \cup {Node("", Node("soc", Cells("#address-cells", <<ac>>) \o Cells("#size-cells", <<sc>>)
                      \o Node("bbb", Text("compatible", <<"y">>) \o Cells("reg", <<5, 6, 7, 8>>)))) :
           ac \in 0 .. 3, sc \in 0 .. 3}

Header(resp, magic, os, ss, on, sn) ==
  [resp |-> resp, magic |-> magic, total |-> 10, off_struct |-> os, size_struct |-> ss,
   off_strings |-> on, size_strings |-> sn]

Good == Header("blob", TRUE, 2, 4, 6, 4)

OtherHeaders ==
  {Header("blob", FALSE, 2, 4, 6, 4), Header("missing", TRUE, 2, 4, 6, 4),
   Header("blob", TRUE, 2, 9, 6, 4), Header("blob", TRUE, 11, 15, 6, 4)}

Tokens ==
  {Begin("a"), Begin("chosen"), End, Stop,
   Cells("#address-cells", <<1>>), Cells("#size-cells", <<0>>),
   Text("compatible", <<"y", "x">>), Cells("reg", <<1, 2, 3>>),
   Text("stdout-path", <<"/", "chosen", "/", "a">>)}

WildTokens ==
  {Begin("a"), Begin("chosen"), End, Nop, Stop, <<[t |-> "bad"]>>,
   Cells("#address-cells", <<3>>), Cells("#size-cells", <<1, 1>>),
   Raw("reg", <<1, 2>>), Text("compatible", <<"x">>)}

RECURSIVE Trees(_)
Trees(n) ==
  IF n = 0 THEN {Begin("")}
  ELSE LET S == Trees(n - 1)
       IN  S \cup {b \in {s \o k : s \in {s \in S : Len(s) = n}, k \in Tokens} : WellFormed(b)}

Seqs(n) == [1 .. n -> {k[1] : k \in WildTokens}]

Broken == {Begin("") \o s : s \in Seqs(BrokenTokens)} \cup Seqs(2)

With(blobs, headers) == {[blob |-> b, header |-> h] : b \in blobs, h \in headers}

MCInputs ==
  With(Boards \cup Trees(TreeTokens) \cup Broken, {Good}) \cup With(Seqs(1), OtherHeaders)

MCCompatibles == <<"x", "y">>
=============================================================================
