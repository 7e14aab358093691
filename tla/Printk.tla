------------------------------- MODULE Printk -------------------------------
(***************************************************************************)
(* lib/printk.c: kprintf and klog, and the log lines kpanic prints over    *)
(* whatever was being printed.                                             *)
(*                                                                         *)
(* A character is a string of one character, a format a sequence of them.  *)
(* A conversion computes its text, which then goes out character by        *)
(* character through emit_char.  st holds the fields of struct             *)
(* printk_state, the console (out) and, as history, the places on the      *)
(* console where a log prefix starts (stamps).  The clock runs on its own, *)
(* between any two characters: emit_log_prefix reads it for every line.    *)
(***************************************************************************)
EXTENDS Integers, Sequences

CONSTANTS
  Char,        \* the characters
  Scripts,     \* what kernel code prints: sequences of calls
               \*   [fn |-> "klog" or "kprintf", fmt, args, spec]
               \* spec is what the caller means (PrintkProps), for the properties only
  Times,       \* values of ktime_get_ms
  Span,        \* number of values of the argument's type, by enum printk_length
  PtrDigits    \* sizeof(uintptr_t) * 2

NUL  == "NUL"
Null == <<"NULL">>                          \* the NULL pointer as a %s argument

LowerDigits == <<"0", "1", "2", "3", "4", "5", "6", "7", "8", "9", "a", "b", "c", "d", "e", "f">>
UpperDigits == <<"0", "1", "2", "3", "4", "5", "6", "7", "8", "9", "A", "B", "C", "D", "E", "F">>

NoSpec == [kind |-> "none"]                 \* nothing is claimed of this call

ASSUME PrintkAssumption ==
  /\ Times \subseteq Nat /\ PtrDigits \in Nat
  /\ NUL \notin Char /\ {LowerDigits[d] : d \in 1 .. 16} \cup {UpperDigits[d] : d \in 1 .. 16}
     \cup {"%", "-", "x", "(", ")", "n", "u", "l", "[", "]", ".", " ", "\r", "\n"} \subseteq Char
  /\ DOMAIN Span = {"none", "hh", "h", "l", "ll", "z", "t"}
  /\ \A l \in DOMAIN Span : Span[l] \in Nat \ {0} /\ Span[l] % 2 = 0 /\ Span[l] <= Span["l"]

VARIABLES
  script, panicked,                  \* the calls still to come, kpanic has begun
  fn, fmt, pos, args, spec,          \* the running call; fn = "none" between calls
  text, st,                          \* characters to emit next; see above
  now, ret,                          \* what ktime_get_ms returns, the last call's result
  start, when                        \* history: length of the console when the call began,
                                     \* and the time at each character it has printed

call       == <<script, panicked, fn, fmt, spec, now, start>>
printkVars == <<call, pos, args, text, st, ret, when>>

-----------------------------------------------------------------------------
(***************************************************************************)
(* Characters and lines.                                                   *)
(***************************************************************************)
emit_raw_char_stays(s, c) ==                \* mutation: at_line_start not set
  IF c = "\n" THEN [s EXCEPT !.out = @ \o <<"\r", "\n">>, !.written = @ + 2]
  ELSE [s EXCEPT !.out = Append(@, c), !.written = @ + 1]

emit_raw_char(s, c) ==
  IF c = "\n" THEN [s EXCEPT !.out = @ \o <<"\r", "\n">>, !.written = @ + 2,
                             !.at_line_start = TRUE]
  ELSE [s EXCEPT !.out = Append(@, c), !.written = @ + 1]

(***************************************************************************)
(* buffer of emit_unsigned and emit_raw_unsigned, in the order in which it *)
(* is emitted.                                                             *)
(***************************************************************************)
Digits(value, base, uppercase) ==
  LET digits == IF uppercase THEN UpperDigits ELSE LowerDigits
      d[v \in 0 .. value] == IF v < base THEN <<digits[v + 1]>>
                             ELSE Append(d[v \div base], digits[(v % base) + 1])
  IN  d[value]

emit_log_prefix(s) ==
  IF ~s.prefix_enabled \/ ~s.at_line_start THEN s
  ELSE LET millis == now % 1000
           digit(n) == LowerDigits[(n % 10) + 1]
           prefix == <<"[">> \o Digits(now \div 1000, 10, FALSE)
                   \o <<".", digit(millis \div 100), digit(millis \div 10), digit(millis),
                        "]", " ">>
       IN  [s EXCEPT !.out = @ \o prefix, !.written = @ + Len(prefix),
                     !.at_line_start = FALSE, !.stamps = Append(@, Len(s.out) + 1)]

emit_char(s, c) ==
  LET r == emit_raw_char(emit_log_prefix(s), c)
  IN  IF c # "\n" THEN [r EXCEPT !.at_line_start = FALSE] ELSE r

(***************************************************************************)
(* The text of emit_unsigned and of emit_padded_string.                    *)
(***************************************************************************)
Padded(str, width, pad) ==
  [j \in 1 .. (IF Len(str) < width THEN width - Len(str) ELSE 0) |-> pad] \o str

emit_unsigned(value, base, uppercase, width, pad) ==
  Padded(Digits(value, base, uppercase), width, pad)

emit_padded_string(str, width, pad) ==
  Padded(IF str = Null THEN <<"(", "n", "u", "l", "l", ")">> ELSE str, width, pad)

-----------------------------------------------------------------------------
(***************************************************************************)
(* Arguments: a register of Span["l"] values, of which the length modifier *)
(* takes the low bits.                                                     *)
(***************************************************************************)
get_unsigned_arg(v, length) == v % Span[length]

get_signed_arg_unextended(v, length) ==     \* mutation: cast to signed left out
  v % Span["l"]

get_signed_arg(v, length) ==
  LET u == v % Span[length]
  IN  IF 2 * u >= Span[length] THEN u - Span[length] ELSE u

(***************************************************************************)
(* *fmt.  What lies behind the terminator is not part of the format.       *)
(***************************************************************************)
At(j) == IF j <= Len(fmt) THEN fmt[j] ELSE NUL

DigitChars  == {"0", "1", "2", "3", "4", "5", "6", "7", "8", "9"}
ValueOf(c)  == (CHOOSE j \in 1 .. 16 : LowerDigits[j] = c) - 1

(***************************************************************************)
(* Lines 218 to 250: pad, width (an unsigned int, which wraps) and length  *)
(* of the conversion at j, and where its letter is.                        *)
(***************************************************************************)
WidthEnd(j) == CHOOSE k \in j .. Len(fmt) + 1 :
                 At(k) \notin DigitChars /\ \A m \in j .. k - 1 : At(m) \in DigitChars

NextWidth(width, c) == (width * 10 + ValueOf(c)) % Span["none"]

ParseWidth(j) ==
  LET w[k \in j .. WidthEnd(j)] == IF k = j THEN 0 ELSE NextWidth(w[k - 1], At(k - 1))
  IN  [width |-> w[WidthEnd(j)], pos |-> WidthEnd(j)]

ParseSpec(j) ==
  LET zero == At(j) = "0"
      w    == ParseWidth(IF zero THEN j + 1 ELSE j)
      k    == w.pos
      twice == At(k) \in {"h", "l"} /\ At(k + 1) = At(k)
      len  == CASE twice                         -> IF At(k) = "h" THEN "hh" ELSE "ll"
                [] ~twice /\ At(k) \in {"h", "l", "z", "t"} -> At(k)
                [] OTHER                         -> "none"
  IN  [pad |-> IF zero THEN "0" ELSE " ", width |-> w.width, length |-> len,
       pos |-> k + (IF twice THEN 2 ELSE IF len = "none" THEN 0 ELSE 1)]

-----------------------------------------------------------------------------
(***************************************************************************)
(* The loop of vprintk_internal.                                           *)
(***************************************************************************)
Fresh(prefix, s) == [s EXCEPT !.prefix_enabled = prefix, !.at_line_start = TRUE, !.written = 0]

Begin ==
  /\ fn = "none" /\ script # <<>>
  /\ LET c == Head(script)
     IN  /\ fn' = c.fn /\ fmt' = c.fmt /\ args' = c.args /\ spec' = c.spec
         /\ st' = Fresh(c.fn = "klog", st)
  /\ script' = Tail(script) /\ pos' = 1 /\ start' = Len(st.out) /\ when' = <<>>
  /\ UNCHANGED <<panicked, now, text, ret>>

put_char ==
  /\ fn # "none" /\ text # <<>>
  /\ st' = emit_char(st, Head(text)) /\ when' = Append(when, now) /\ text' = Tail(text)
  /\ UNCHANGED <<call, pos, args, ret>>

plain_char ==
  /\ fn # "none" /\ text = <<>> /\ At(pos) \notin {NUL, "%"}
  /\ st' = emit_char(st, At(pos)) /\ when' = Append(when, now) /\ pos' = pos + 1
  /\ UNCHANGED <<call, args, text, ret>>

(***************************************************************************)
(* A lone % at the end stops the loop before anything is parsed.           *)
(***************************************************************************)
LonePercent_runs_on == FALSE                \* mutation: no test of *fmt after the %

LonePercent == At(pos) = "%" /\ At(pos + 1) = NUL

Conv == ParseSpec(pos + 1)

Converts(letters, str, used) ==
  /\ fn # "none" /\ text = <<>> /\ At(pos) = "%" /\ ~LonePercent
  /\ At(Conv.pos) \in letters
  /\ text' = str /\ args' = SubSeq(args, used + 1, Len(args))
  /\ pos' = Conv.pos + 1
  /\ UNCHANGED <<call, st, ret, when>>

conv_percent == Converts({"%"}, <<"%">>, 0)

conv_c == Converts({"c"}, <<Head(args)>>, 1)

conv_s == Converts({"s"}, emit_padded_string(Head(args), Conv.width, Conv.pad), 1)

conv_d ==
  LET v == get_signed_arg(Head(args), Conv.length)
      magnitude == -(v + 1) + 1
  IN  Converts({"d", "i"},
        IF v < 0 THEN <<"-">> \o emit_unsigned(magnitude, 10, FALSE, Conv.width, Conv.pad)
        ELSE emit_unsigned(v, 10, FALSE, Conv.width, Conv.pad), 1)

conv_u ==
  LET v == get_unsigned_arg(Head(args), Conv.length)
  IN  \/ Converts({"u"}, emit_unsigned(v, 10, FALSE, Conv.width, Conv.pad), 1)
      \/ Converts({"x"}, emit_unsigned(v, 16, FALSE, Conv.width, Conv.pad), 1)
      \/ Converts({"X"}, emit_unsigned(v, 16, TRUE, Conv.width, Conv.pad), 1)

conv_p ==
  Converts({"p"}, <<"0", "x">> \o emit_unsigned(Head(args), 16, FALSE, PtrDigits, "0"), 1)

(***************************************************************************)
(* default: the character is echoed, a terminator included.                *)
(***************************************************************************)
conv_default ==
  /\ At(pos) = "%" /\ At(Conv.pos) \notin {"%", "c", "s", "d", "i", "u", "x", "X", "p"}
  /\ Converts({At(Conv.pos)}, <<"%", At(Conv.pos)>>, 0)

(***************************************************************************)
(* The end of the format.  vklog then calls kprintf with a line end.       *)
(***************************************************************************)
finish ==
  /\ fn # "none" /\ text = <<>> /\ (At(pos) = NUL \/ LonePercent)
  /\ st' = IF fn = "klog" THEN emit_char(Fresh(FALSE, st), "\n") ELSE st
  /\ ret' = IF fn = "klog" THEN st.written + 2 ELSE st.written
  /\ fn' = "none"
  /\ UNCHANGED <<script, panicked, fmt, spec, now, start, pos, args, text, when>>

PanicLog_no_break ==                        \* mutation: no empty line first
  <<[fn |-> "klog", fmt |-> <<"-">>, args |-> <<>>, spec |-> NoSpec]>>

(***************************************************************************)
(* kpanic: an empty line, then its banner and what follows it.             *)
(***************************************************************************)
PanicLog ==
  <<[fn |-> "klog", fmt |-> <<>>,    args |-> <<>>, spec |-> NoSpec],
    [fn |-> "klog", fmt |-> <<"-">>, args |-> <<>>, spec |-> NoSpec]>>

(***************************************************************************)
(* Any instruction may fault: kpanic prints, and nothing of the call it    *)
(* interrupted follows.                                                    *)
(***************************************************************************)
Panic ==
  /\ ~panicked /\ panicked' = TRUE
  /\ fn' = "none" /\ script' = PanicLog /\ spec' = NoSpec /\ text' = <<>>
  /\ UNCHANGED <<fmt, now, start, pos, args, st, ret, when>>

(***************************************************************************)
(* Time passes; ktime_get_ms never goes back (Ktime).                      *)
(***************************************************************************)
ClockRuns ==
  /\ \E t \in Times : t > now /\ now' = t
  /\ UNCHANGED <<script, panicked, fn, fmt, spec, start, pos, args, text, st, ret, when>>

PrintkInit ==
  /\ script \in Scripts /\ panicked = FALSE
  /\ fn = "none" /\ fmt = <<>> /\ pos = 1 /\ args = <<>> /\ spec = NoSpec
  /\ text = <<>>
  /\ st = [prefix_enabled |-> FALSE, at_line_start |-> TRUE, written |-> 0,
           out |-> <<>>, stamps |-> <<>>]
  /\ now = 0 /\ ret = 0 /\ start = 0 /\ when = <<>>

Work ==
  \/ Begin \/ put_char \/ plain_char \/ conv_percent \/ conv_c \/ conv_s \/ conv_d \/ conv_u \/ conv_p
  \/ conv_default \/ finish

Quiet == fn = "none" /\ script = <<>> /\ UNCHANGED printkVars

PrintkNext == Work \/ Panic \/ ClockRuns \/ Quiet

PrintkSpec == PrintkInit /\ [][PrintkNext]_printkVars
=============================================================================
