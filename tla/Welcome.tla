------------------------------ MODULE Welcome -------------------------------
(***************************************************************************)
(* The welcome program on the soft core (mw_welcome.c, console.c) and the  *)
(* UART it talks to.  It starts when the core is released, at address 0,   *)
(* prints its messages, waits for a key and jumps to KERNEL_ADDR.          *)
(*                                                                         *)
(* A message is the items of a format string and its arguments; an item is *)
(* a character, or a specifier with its flag and width.                    *)
(***************************************************************************)
EXTENDS Boot, PrintFormat

CONSTANTS
    KERNEL_ADDR,
    Messages(_),        \* what may be printed, given the word at KERNEL_ADDR
    LineBreaks,         \* the message printed after the key
    TX_DEPTH, RX_DEPTH, \* sizes of the UART's queues
    Keys, MAX_KEYS      \* keys that may be pressed; bound: how many

VARIABLES
    at,         \* where the program is
    script,     \* messages still to print
    call,       \* the running my_printf: format, arguments, position in each
    text,       \* characters my_print has still to send
    tx, rx,     \* the UART's queues
    shown,      \* characters that have left the UART
    keys,       \* keys pressed so far
    due         \* ghost: what the calls of my_printf so far have to show

uartVars == <<tx, rx, shown, keys>>
coreVars == <<at, script, call, text>>
welcomeVars == <<coreVars, uartVars, due>>

WelcomeInit ==
    /\ at = "reset" /\ script = <<>> /\ text = <<>>
    /\ call = [format |-> <<>>, args |-> <<>>, i |-> 1, a |-> 1] /\ due = <<>>
    /\ tx = <<>> /\ rx = <<>> /\ shown = <<>> /\ keys = 0

Value(c) == IF c.kind = "data" THEN c.v ELSE 0

\* An item as it stands in the format string
Literal(item) ==
    IF item.spec = "" THEN <<item.char>>
    ELSE <<Percent>> \o (IF item.zero THEN <<Digit0>> ELSE <<>>)
         \o (IF item.width = 0 THEN <<>> ELSE my_itoa(item.width, 0))
         \o <<IF item.spec = "%" THEN Percent ELSE Code(item.spec)>>
Format(message) == FlattenSeq([k \in DOMAIN message.items |-> Literal(message.items[k])])

-----------------------------------------------------------------------------
(* What a message is to show                                               *)

\* The numeral of n with at least width digits
Numeral(n, base, width) ==
    LET size == Min({l \in 1 .. 10 : l > 7 \/ base^l > n})
        digits == Max({size, width})
    IN  [k \in 1 .. digits |->
           IF digits - k >= size THEN Digit0 ELSE HexChar((n \div base^(digits - k)) % base)]

\* What an item is to show; the sign is not counted in the width
Shows(item, arg) ==
    CASE item.spec = ""  -> <<item.char>>
      [] item.spec = "%" -> <<Percent>>
      [] item.spec = "c" -> <<arg>>
      [] item.spec = "s" -> arg
      [] item.spec = "x" -> Numeral(arg, 16, item.width)
      [] item.spec = "p" -> <<Digit0, Code("x")>> \o Numeral(arg, 16, 16)
      [] item.spec = "d" -> IF arg < 0 THEN <<Minus>> \o Numeral(-arg, 10, item.width)
                            ELSE Numeral(arg, 10, item.width)

\* Items take the arguments in their order
Meaning(m) ==
    LET arg(k) == Cardinality({j \in 1 .. k : m.items[j].spec \notin {"", "%"}})
    IN  FlattenSeq([k \in DOMAIN m.items |->
                      Shows(m.items[k], IF arg(k) = 0 THEN 0 ELSE m.args[arg(k)])])

-----------------------------------------------------------------------------
(* The program                                                             *)

\* The core runs what is at address 0
Start ==
    /\ at = "reset" /\ CtrReg = 1
    /\ \A k \in DOMAIN Program : Core(k - 1) = Program[k]
    /\ at' = "print"
    /\ script' \in Messages(Value(Core(KERNEL_ADDR)))
    /\ UNCHANGED <<call, text, uartVars, due>>

Idle == text = <<>> /\ call.i > Len(call.format)

Printf ==
    /\ at \in {"print", "key"} /\ Idle /\ script # <<>>
    /\ call' = [format |-> Format(Head(script)), args |-> Head(script).args,
                i |-> 1, a |-> 1]
    /\ due' = due \o Meaning(Head(script))
    /\ script' = Tail(script)
    /\ UNCHANGED <<at, text, uartVars>>

PrintfRound ==
    /\ text = <<>> /\ call.i <= Len(call.format)
    /\ LET round == Round(call.format, call.i, call.args, call.a)
       IN  /\ text' = round.text
           /\ call' = [call EXCEPT !.i = round.i, !.a = round.a]
    /\ UNCHANGED <<at, script, uartVars, due>>

\* Mutant: does not wait for room
transmit_at_once ==
    /\ text # <<>>
    /\ tx' = IF Len(tx) < TX_DEPTH THEN Append(tx, Head(text)) ELSE tx
    /\ text' = Tail(text)
    /\ UNCHANGED <<at, script, call, rx, shown, keys, due>>

\* Waits until the queue is not full
uart_transmit_byte ==
    /\ text # <<>>
    /\ Len(tx) < TX_DEPTH
    /\ tx' = Append(tx, Head(text))
    /\ text' = Tail(text)
    /\ UNCHANGED <<at, script, call, rx, shown, keys, due>>

AllPrinted ==
    /\ at = "print" /\ Idle /\ script = <<>>
    /\ at' = "wait"
    /\ UNCHANGED <<script, call, text, uartVars, due>>

\* Mutant: a zero byte stays where it is
receive_looks_first ==
    /\ at = "wait" /\ rx # <<>> /\ Head(rx) # 0
    /\ rx' = Tail(rx)
    /\ at' = "key" /\ script' = <<LineBreaks>>
    /\ UNCHANGED <<call, text, tx, shown, keys, due>>

\* A zero byte is taken for an empty queue
uart_receive_byte ==
    /\ at = "wait" /\ rx # <<>>
    /\ rx' = Tail(rx)
    /\ IF Head(rx) # 0 THEN at' = "key" /\ script' = <<LineBreaks>>
       ELSE UNCHANGED <<at, script>>
    /\ UNCHANGED <<call, text, tx, shown, keys, due>>

Jump ==
    /\ at = "key" /\ Idle /\ script = <<>>
    /\ at' = "kernel"
    /\ UNCHANGED <<script, call, text, uartVars, due>>

WelcomeStep ==
    \/ Start \/ Printf \/ PrintfRound \/ uart_transmit_byte \/ AllPrinted
    \/ uart_receive_byte \/ Jump

-----------------------------------------------------------------------------
(* The UART                                                                *)

Sends ==
    /\ tx # <<>>
    /\ shown' = Append(shown, Head(tx))
    /\ tx' = Tail(tx)
    /\ UNCHANGED <<coreVars, rx, keys, due>>

\* A key for which there is no room is lost
KeyPressed ==
    /\ keys < MAX_KEYS
    /\ keys' = keys + 1
    /\ \E key \in Keys : rx' = IF Len(rx) < RX_DEPTH THEN Append(rx, key) ELSE rx
    /\ UNCHANGED <<coreVars, tx, shown, due>>
=============================================================================
