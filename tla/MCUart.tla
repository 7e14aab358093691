------------------------------- MODULE MCUart -------------------------------
(***************************************************************************)
(* Small device trees: no UART; a usable one; two, of which the console is *)
(* the second; a console that is no UART; and the descriptions             *)
(* uart_find_port gives up on at each of its steps.                        *)
(***************************************************************************)
EXTENDS UartProps

Node(c, b, s, sh, w) == [compat |-> c, base |-> b, size |-> s, reg_shift |-> sh,
                         reg_io_width |-> w, regOk |-> TRUE]

MCCompatibles == <<"ns16550a", "ns16550">>
MCDefaultPort == [base |-> 9, size |-> 1, reg_shift |-> 0, reg_io_width |-> 1]
MCStrings     == {<<1>>, <<1, 2>>}
MCBytes       == {1, 2}

Dw  == Node({"ns16550"}, 1, 2, 2, 4)
Ns  == Node({"ns16550a", "ns16550"}, 2, 2, 0, 1)
Rtc == Node({"rtc"}, 3, 1, 0, 1)

MCTrees == {
  [nodes |-> <<>>, stdout |-> 0],
  [nodes |-> <<Rtc, Dw>>, stdout |-> 1],
  [nodes |-> <<Ns, Dw>>, stdout |-> 2],
  [nodes |-> <<[Ns EXCEPT !.size = 0], Dw>>, stdout |-> 0],
  [nodes |-> <<Rtc, [Dw EXCEPT !.reg_io_width = 2]>>, stdout |-> 2],
  [nodes |-> <<[Ns EXCEPT !.regOk = FALSE]>>, stdout |-> 1]}
=============================================================================
