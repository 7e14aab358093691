---------------------------- MODULE PrintkProps -----------------------------
(***************************************************************************)
(* What the console shows for a call, against definitions that do not      *)
(* print: the parts a format is made of, positional notation read back,    *)
(* and lines cut from the message.                                         *)
(***************************************************************************)
EXTENDS Printk

(***************************************************************************)
(* What a caller means, its spec: the format as a sequence of parts, each  *)
(* a plain character or a conversion, the last one its end, and the text   *)
(* of the whole.  A part says where it begins: at in the format, with off  *)
(* characters of the text before it and the arguments rest still to come.  *)
(***************************************************************************)
Modifier == [none |-> <<>>, hh |-> <<"h", "h">>, h |-> <<"h">>, l |-> <<"l">>,
             ll |-> <<"l", "l">>, z |-> <<"z">>, t |-> <<"t">>]

WidthOf(digits) ==
  LET w[k \in 0 .. Len(digits)] == IF k = 0 THEN 0 ELSE NextWidth(w[k - 1], digits[k])
  IN  w[Len(digits)]

PadOf(p) == IF p.zero THEN "0" ELSE " "

Numeric == {"d", "i", "u", "x", "X", "p"}

UsesArg(letter) == letter \in Numeric \cup {"c", "s"}

PartText(p) ==
  LET a == Head(p.rest)
      w == WidthOf(p.digits)
      unsigned == get_unsigned_arg(a, p.length)
      signed   == get_signed_arg(a, p.length)
      number(v, base, uppercase) == emit_unsigned(v, base, uppercase, w, PadOf(p))
  IN  CASE p.letter = "%"        -> <<"%">>
        [] p.letter = "c"        -> <<a>>
        [] p.letter = "s"        -> emit_padded_string(a, w, PadOf(p))
        [] p.letter \in {"d", "i"} -> IF signed < 0 THEN <<"-">> \o number(-signed, 10, FALSE)
                                      ELSE number(signed, 10, FALSE)
        [] p.letter = "u"        -> number(unsigned, 10, FALSE)
        [] p.letter = "x"        -> number(unsigned, 16, FALSE)
        [] p.letter = "X"        -> number(unsigned, 16, TRUE)
        [] p.letter = "p"        -> <<"0", "x">> \o emit_unsigned(a, 16, FALSE, PtrDigits, "0")
        [] OTHER                 -> <<"%", p.letter>>

(***************************************************************************)
(* Part p of format f, with the text t, and the part q after it.           *)
(***************************************************************************)
IsChar(f, t, p, q) ==
  /\ f[p.at] # "%"
  /\ q.at = p.at + 1 /\ q.rest = p.rest
  /\ q.off = p.off + 1 /\ t[q.off] = f[p.at]

Spelled(f, p, q) ==
  LET digitsAt == p.at + (IF p.zero THEN 1 ELSE 0)
      lengthAt == digitsAt + Len(p.digits)
  IN  /\ f[p.at] = "%" /\ (p.zero => f[p.at + 1] = "0")
      /\ \A i \in 1 .. Len(p.digits) : f[digitsAt + i] = p.digits[i]
      /\ ~p.zero /\ Len(p.digits) > 0 => p.digits[1] # "0"
      /\ \A i \in 1 .. Len(Modifier[p.length]) : f[lengthAt + i] = Modifier[p.length][i]
      /\ q.at = lengthAt + Len(Modifier[p.length]) + 2
      /\ f[q.at - 1] = p.letter

TypedArg(p) ==
  /\ p.rest # <<>>
  /\ p.letter \in Numeric => Head(p.rest) \in Nat
  /\ p.letter = "s" => Head(p.rest) = Null \/ Head(p.rest) \in Seq(Char)
  /\ p.letter = "c" => Head(p.rest) \in Char

IsConversion(f, t, p, q) ==
  /\ Spelled(f, p, q)
  /\ IF UsesArg(p.letter) THEN TypedArg(p) /\ q.rest = Tail(p.rest) ELSE q.rest = p.rest
  /\ q.off = p.off + Len(PartText(p))
  /\ \A i \in 1 .. Len(PartText(p)) : t[p.off + i] = PartText(p)[i]

IsSeq(s) == Len(s) \in Nat /\ s = [i \in 1 .. Len(s) |-> s[i]]

PartTyped(f, t, p) ==
  /\ p.at \in 1 .. Len(f) + 1 /\ p.off \in 0 .. Len(t) /\ IsSeq(p.rest)
  /\ p.kind \in {"char", "conversion", "end"}
  /\ p.kind = "conversion" =>
       /\ p.zero \in BOOLEAN /\ p.digits \in Seq(DigitChars) /\ p.length \in DOMAIN Modifier
       /\ p.letter \in Char \ (DigitChars \cup {"h", "l", "z", "t"})

(***************************************************************************)
(* The call says what its caller means.  A lone % may follow the last      *)
(* part; a format does not end inside a conversion.                        *)
(***************************************************************************)
CallMeans(c) ==
  LET f == c.fmt
      t == c.spec.text
      parts == c.spec.parts
      n == Len(parts)
  IN  /\ f \in Seq(Char) /\ t \in Seq(Char)
      /\ IsSeq(parts) /\ n > 0
      /\ parts[1].at = 1 /\ parts[1].off = 0 /\ parts[1].rest = c.args
      /\ \A k \in 1 .. n : PartTyped(f, t, parts[k]) /\ (parts[k].kind = "end" <=> k = n)
      /\ \A k \in 1 .. n - 1 :
           /\ parts[k].kind = "char" => IsChar(f, t, parts[k], parts[k + 1])
           /\ parts[k].kind = "conversion" => IsConversion(f, t, parts[k], parts[k + 1])
      /\ parts[n].off = Len(t)
      /\ parts[n].at = Len(f) + 1 \/ (parts[n].at = Len(f) /\ f[Len(f)] = "%")

(***************************************************************************)
(* A message is logged; a number is one conversion, printed by kprintf.    *)
(***************************************************************************)
CallOK(c) ==
  /\ CallMeans(c)
  /\ \/ c.fn = "klog" /\ c.spec.kind = "message"
     \/ /\ c.fn = "kprintf" /\ c.spec.kind = "number"
        /\ Len(c.spec.parts) = 2 /\ c.spec.parts[1].kind = "conversion"
        /\ c.spec.parts[1].letter \in {"d", "i", "u", "x", "X"}

(***************************************************************************)
(* In the kernel only vklog calls kprintf, with a line end: what a caller  *)
(* of kprintf leaves on the line is not followed by a log line.            *)
(***************************************************************************)
ScriptOK(s) ==
  /\ IsSeq(s)
  /\ \A j \in 1 .. Len(s) : CallOK(s[j]) /\ (j > 1 /\ s[j].fn = "klog" => s[j - 1].fn = "klog")

ASSUME ScriptsAssumption == \A s \in Scripts : ScriptOK(s)

-----------------------------------------------------------------------------
Returned == fn = "none" /\ spec.kind # "none"
Output   == SubSeq(st.out, start + 1, Len(st.out))

(***************************************************************************)
(* The number a digit string stands for.                                   *)
(***************************************************************************)
DigitValue(c) == CHOOSE d \in 0 .. 15 : c \in {LowerDigits[d + 1], UpperDigits[d + 1]}

ReadBack(t, base) ==
  LET v[j \in 0 .. Len(t)] == IF j = 0 THEN 0 ELSE v[j - 1] * base + DigitValue(t[j])
  IN  v[Len(t)]

(***************************************************************************)
(* t is padding and then n digits, as many as v needs.                     *)
(***************************************************************************)
IsNumber(t, v, base, uppercase, width, pad) ==
  \E n \in 1 .. Len(t) :
    /\ Len(t) = IF n < width THEN width ELSE n
    /\ \A j \in 1 .. Len(t) - n : t[j] = pad
    /\ \A j \in Len(t) - n + 1 .. Len(t) :
         \E d \in 1 .. base : t[j] = (IF uppercase THEN UpperDigits ELSE LowerDigits)[d]
    /\ ReadBack(SubSeq(t, Len(t) - n + 1, Len(t)), base) = v
    /\ n > 1 => t[Len(t) - n + 1] # "0"

(***************************************************************************)
(* A numeric conversion shows its argument: the low bits that the length   *)
(* modifier selects, as a signed or unsigned number without superfluous    *)
(* digits, behind the padding.  The smallest negative number included, a   *)
(* sign stands before the padding and is not counted in the width.         *)
(***************************************************************************)
NumberShown ==
  Returned /\ spec.kind = "number" =>
    LET p == spec.parts[1]
        u == Head(p.rest) % Span[p.length]
        negative == p.letter \in {"d", "i"} /\ 2 * u >= Span[p.length]
        base == IF p.letter \in {"x", "X"} THEN 16 ELSE 10
    IN  IF negative
          THEN Output # <<>> /\ Output[1] = "-"
               /\ IsNumber(Tail(Output), Span[p.length] - u, 10, FALSE, WidthOf(p.digits), PadOf(p))
          ELSE IsNumber(Output, u, base, p.letter = "X", WidthOf(p.digits), PadOf(p))

(***************************************************************************)
(* The time in seconds, with three digits after the point.                 *)
(***************************************************************************)
Stamp(t) == <<"[">> \o Digits(t \div 1000, 10, FALSE) \o <<".">>
            \o Padded(Digits(t % 1000, 10, FALSE), 3, "0") \o <<"]", " ">>

(***************************************************************************)
(* What the first k characters of the text t put on the console, at every  *)
(* k, when character j goes out at the time clock[j].                      *)
(***************************************************************************)
Piece(t, j, stamp) ==
  (IF j = 1 \/ t[j - 1] = "\n" THEN stamp ELSE <<>>)
  \o (IF t[j] = "\n" THEN <<"\r", "\n">> ELSE <<t[j]>>)

Lines(t, clock) ==
  LET shown[k \in 0 .. Len(clock)] ==
        IF k = 0 THEN <<>> ELSE shown[k - 1] \o Piece(t, k, Stamp(clock[k]))
  IN  shown

(***************************************************************************)
(* klog shows its message: one prefix before the first character and       *)
(* before each character after a line end, with the time at which that     *)
(* line began, in seconds and three digits; every line end as CR LF and    *)
(* one more at the end.  It returns the number of characters that reached  *)
(* the console.  The clock may move between any two characters, so the     *)
(* lines of one message carry different times.                             *)
(***************************************************************************)
LinesShown ==
  Returned /\ spec.kind = "message" =>
    /\ Len(when) = Len(spec.text)
    /\ Output = Lines(spec.text, when)[Len(when)] \o <<"\r", "\n">>
    /\ ret = Len(Output)

(***************************************************************************)
(* A log prefix always starts a line of the console, also when kpanic      *)
(* begins in the middle of another line.                                   *)
(***************************************************************************)
PrefixStartsLine ==
  \A j \in 1 .. Len(st.stamps) :
    st.stamps[j] = 1 \/ st.out[st.stamps[j] - 1] = "\n"

(***************************************************************************)
(* vprintk_internal reads no character behind the format's terminator.     *)
(***************************************************************************)
ReadsFormatOnly == pos <= Len(fmt) + 1
=============================================================================
