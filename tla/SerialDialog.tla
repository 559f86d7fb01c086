---------------------------- MODULE SerialDialog ----------------------------
(***************************************************************************)
(* The serial line at boot: the window in which main() waits for a 'c' or  *)
(* the button, the calibration dialog imu_calibrate reads line by line,    *)
(* and the UART0 interrupt of src/src/uart.c, which collects the same      *)
(* characters for the Nordic UART Service.  The interrupt is enabled by    *)
(* uart_init, long before main() polls the receiver itself.                *)
(*                                                                         *)
(* Either side looks at RXDRDY, clears it and reads RXD in three steps.    *)
(* The interrupt can come between any two steps of main(), a byte between  *)
(* any two steps of either.  Of the bytes kept for the service only their  *)
(* number matters here, of the lines of the dialog which of them are       *)
(* coefficients; what a command measures, stores or prints is left out.    *)
(*                                                                         *)
(* The receiver, modelled from how simple_uart.c uses it: RXDRDY is raised *)
(* when a byte moves into an empty RXD, on its arrival or when the one     *)
(* before it is read; without a next one, RXD keeps the byte read last.    *)
(***************************************************************************)
EXTENDS Integers, Sequences

CONSTANTS
    Polls,       \* turns of the window; 300 in the code
    Fifo,        \* bytes the receiver holds
    DataLen,     \* BLE_NUS_MAX_DATA_LEN
    LineLen,     \* BUF_SIZE - 1
    CalLines,    \* lines of coefficients a host sends after 's'; 12 in the code
    Zero         \* no character

\* 'v' stands for the letters that leave the dialog as it is.
Chars == {"c", "s", "q", "v", "CR", "NL"}

ASSUME SerialAssumption ==
    /\ {Polls, Fifo, LineLen, CalLines} \subseteq Nat \ {0}
    /\ DataLen \in Nat /\ DataLen > 2
    /\ Zero \notin Chars

VARIABLES
    fifo, rdy,             \* the receiver: bytes not read, RXDRDY
    rxd,                   \* what RXD gives once they are read; Zero while some are not
    pending, isr, index,   \* the interrupt: pended, where it stands; bytes collected
    pc, i, timeout_ms,     \* main(): where it stands, turn of the window, time left
    button_was_pressed,
    c,                     \* whether the static c holds a 'c'
    buf, lines,            \* the line read so far; coefficient lines still to come
    asked, calibrated,     \* whether a 'c' came in the window; imu_calibrate was called
    stolen                 \* history: the interrupt has read RXD after main() looked
                           \* at RXDRDY and before it read RXD itself

receiver == <<fifo, rxd, rdy>>
nus == <<isr, index>>
window == <<i, timeout_ms, button_was_pressed, c>>
dialog == <<buf, lines>>
vars == <<receiver, pending, nus, pc, window, dialog, asked, calibrated, stolen>>

-----------------------------------------------------------------------------
(* The receiver.                                                           *)

InWindow == pc \in {"window", "seen", "cleared"}

\* The byte goes into RXD if that is empty, and the event is raised.
Receive ==
    /\ Len(fifo) < Fifo
    /\ \E ch \in Chars :
          /\ fifo' = Append(fifo, ch)
          /\ asked' = (asked \/ (ch = "c" /\ InWindow))
    /\ rdy' = (rdy \/ fifo = << >>)
    /\ rxd' = Zero
    /\ pending' = (pending \/ (rdy' /\ ~rdy))
    /\ UNCHANGED <<nus, pc, window, dialog, calibrated, stolen>>

\* EVENTS_RXDRDY = 0; the interrupt it has pended stays so.
EventKept == rdy' = rdy
ClearEvent == rdy' = FALSE

Char == IF fifo = << >> THEN rxd ELSE Head(fifo)

\* The event cleared after RXD was read: that of the next byte is lost.
ReadThenClear ==
    /\ fifo' = IF fifo = << >> THEN fifo ELSE Tail(fifo)
    /\ rxd' = IF fifo' = << >> THEN Char ELSE Zero
    /\ rdy' = FALSE
    /\ pending' = (pending \/ fifo' # << >>)

\* RXD is read: the next byte moves in.
ReadRXD ==
    /\ fifo' = IF fifo = << >> THEN fifo ELSE Tail(fifo)
    /\ rxd' = IF fifo' = << >> THEN Char ELSE Zero
    /\ rdy' = (rdy \/ fifo' # << >>)
    /\ pending' = (pending \/ rdy')

-----------------------------------------------------------------------------
(* UART0_IRQHandler: it preempts main(), and waits for a byte if main()    *)
(* was quicker.                                                            *)

Interrupt ==
    /\ pending /\ isr = "idle"
    /\ isr' = "wait"
    /\ pending' = FALSE
    /\ UNCHANGED <<receiver, index, pc, window, dialog, asked, calibrated, stolen>>

ClearInHandler ==
    /\ isr = "wait" /\ rdy
    /\ ClearEvent
    /\ isr' = "cleared"
    /\ UNCHANGED <<fifo, rxd, pending, index, pc, window, dialog, asked, calibrated, stolen>>

\* index >= BLE_NUS_MAX_DATA_LEN.
FullOneLate(n) == n >= DataLen
Full(n) == n >= DataLen - 1

\* What ble_nus_send_string is given: one byte more than was collected.
StringLength(n) == n + 1

\* main() has looked at RXDRDY, and has not read RXD.
Looked == pc \in {"seen", "cleared", "getchar", "getread"}

Collect ==
    /\ isr = "cleared"
    /\ ReadRXD
    /\ IF Char = "NL" \/ Full(index + 1)
       THEN index' = 0
       ELSE index' = index + 1
    /\ isr' = "idle"
    /\ stolen' = (stolen \/ Looked)
    /\ UNCHANGED <<pc, window, dialog, asked, calibrated>>

UART0_IRQHandler == Interrupt \/ ClearInHandler \/ Collect

-----------------------------------------------------------------------------
(* The window of main() and simple_uart_get_with_timeout(1, &c).           *)

\* The head of the loop: the button is read, the call begins.
TurnForgotten == i
NextTurn == i + 1

Turn ==
    /\ i' = NextTurn
    /\ timeout_ms' = 1
    /\ button_was_pressed' \in BOOLEAN
    /\ pc' = IF i' > Polls THEN "running" ELSE "window"

\* Any character will do.
StartsOnAny(got, is_c) == got
Starts(got, is_c) == got /\ is_c

Decide(got) ==
    IF Starts(got, c') \/ button_was_pressed
    THEN /\ pc' = "command"
         /\ calibrated' = TRUE
         /\ UNCHANGED <<i, timeout_ms, button_was_pressed>>
    ELSE Turn /\ UNCHANGED calibrated

See ==
    /\ pc = "window" /\ rdy
    /\ pc' = "seen"
    /\ UNCHANGED <<receiver, pending, nus, window, dialog, asked, calibrated, stolen>>

ClearInWindow ==
    /\ pc = "seen" /\ timeout_ms >= 0
    /\ ClearEvent
    /\ pc' = "cleared"
    /\ UNCHANGED <<fifo, rxd, pending, nus, window, dialog, asked, calibrated, stolen>>

\* A byte that comes when the time is up is announced, but not read.
GetWithTimeout ==
    /\ \/ /\ pc = "cleared"
          /\ ReadRXD
          /\ c' = (Char = "c")
       \/ /\ pc = "seen" /\ timeout_ms < 0
          /\ UNCHANGED <<receiver, pending, c>>
    /\ Decide(TRUE)
    /\ UNCHANGED <<nus, dialog, asked, stolen>>

Wait ==
    /\ pc = "window" /\ ~rdy
    /\ IF timeout_ms >= 0
       THEN /\ timeout_ms' = timeout_ms - 1
            /\ UNCHANGED <<pc, i, button_was_pressed, c, calibrated>>
       ELSE /\ c' = c
            /\ Decide(FALSE)
    /\ UNCHANGED <<receiver, pending, nus, dialog, asked, stolen>>

-----------------------------------------------------------------------------
(* imu_calibrate and getline.                                              *)

\* With the button: accelerometer and gyroscope are measured, the result is
\* stored, and main() runs on; without, a line is read.
Command ==
    /\ pc = "command"
    /\ buf' = << >>
    /\ button_was_pressed' = FALSE
    /\ pc' = IF button_was_pressed THEN "running" ELSE "getline"
    /\ UNCHANGED <<receiver, pending, nus, i, timeout_ms, c, lines, asked, calibrated,
                   stolen>>

\* 's' is followed by the coefficients, a line each.
DoCommand(char) ==
    CASE char = "s" -> lines' = CalLines /\ pc' = "getline"
      [] char = "q" -> pc' = "running" /\ UNCHANGED lines
      [] OTHER      -> pc' = "command" /\ UNCHANGED lines

\* getline returns: a line of coefficients, or a command.
Line(text) ==
    /\ buf' = << >>
    /\ IF lines > 0
       THEN /\ lines' = lines - 1
            /\ pc' = IF lines' = 0 THEN "command" ELSE "getline"
       ELSE DoCommand(IF text = << >> THEN Zero ELSE text[1])

SeeInLine ==
    /\ pc = "getline" /\ rdy
    /\ pc' = "getchar"
    /\ UNCHANGED <<receiver, pending, nus, window, dialog, asked, calibrated, stolen>>

ClearInLine ==
    /\ pc = "getchar"
    /\ ClearEvent
    /\ pc' = "getread"
    /\ UNCHANGED <<fifo, rxd, pending, nus, window, dialog, asked, calibrated, stolen>>

getline ==
    /\ pc = "getread"
    /\ ReadRXD
    /\ CASE Char = "NL" -> /\ pc' = "getline"
                           /\ UNCHANGED dialog
         [] Char = "CR" -> Line(buf)
         [] OTHER -> IF Len(buf) + 1 = LineLen
                     THEN Line(Append(buf, Char))
                     ELSE /\ buf' = Append(buf, Char)
                          /\ pc' = "getline"
                          /\ UNCHANGED lines
    /\ UNCHANGED <<nus, window, asked, calibrated, stolen>>

\* main() runs only when the interrupt does not.
MainLoop ==
    /\ isr = "idle"
    /\ \/ See \/ ClearInWindow \/ GetWithTimeout \/ Wait
       \/ Command \/ SeeInLine \/ ClearInLine \/ getline

-----------------------------------------------------------------------------
Init ==
    /\ fifo = << >> /\ rxd \in Chars \cup {Zero} /\ rdy = FALSE
    /\ pending = FALSE /\ isr = "idle" /\ index = 0
    /\ pc = "window" /\ i = 1 /\ timeout_ms = 1 /\ button_was_pressed \in BOOLEAN /\ c = FALSE
    /\ buf = << >> /\ lines = 0
    /\ asked = FALSE /\ calibrated = FALSE /\ stolen = FALSE

Next == Receive \/ UART0_IRQHandler \/ MainLoop

\* The interrupt is served, and main() gets its turns between two of them: a
\* character takes 87 microseconds on the line, far more than the interrupt.
\* The host sends when it likes, or never.
Spec == Init /\ [][Next]_vars /\ WF_vars(UART0_IRQHandler) /\ SF_vars(MainLoop)

-----------------------------------------------------------------------------
\* Every variable keeps its type: the interrupt never writes behind data_array,
\* and the string it sends, one byte too long as it is, never exceeds what
\* ble_nus_send_string accepts (uart.c:90, ble_nus.c:295).
TypeOK ==
    /\ fifo \in Seq(Chars) /\ Len(fifo) <= Fifo
    /\ rxd \in Chars \cup {Zero} /\ rdy \in BOOLEAN
    /\ pending \in BOOLEAN /\ isr \in {"idle", "wait", "cleared"}
    /\ StringLength(index + 1) <= DataLen /\ index \in 0..DataLen - 1
    /\ pc \in {"window", "seen", "cleared", "command", "getline", "getchar", "getread",
              "running"}
    /\ i \in 1..Polls + 1 /\ timeout_ms \in -1..1
    /\ button_was_pressed \in BOOLEAN /\ c \in BOOLEAN
    /\ buf \in Seq(Chars) /\ Len(buf) < LineLen
    /\ lines \in 0..CalLines
    /\ asked \in BOOLEAN /\ calibrated \in BOOLEAN /\ stolen \in BOOLEAN

\* A byte that has not been read is announced by RXDRDY, whoever of main() and
\* the interrupt took the one before it, except while one of them stands between
\* its two accesses (simple_uart.c:27-28 and :52-53 clear, then read).  Should
\* the interrupt find main() there, it waits for an event that does not come.
NoCharacterStranded ==
    fifo # << >> /\ ~rdy => pc \in {"cleared", "getread"} \/ isr = "cleared"

\* main() reads RXD with nothing new in it, and so takes a byte twice, only if
\* the interrupt has once read a byte main() had looked for already: the event
\* of a byte main() reads alone is gone before the byte is (simple_uart.c:27
\* and :52).
ReadTwiceOnlyAfterTheft ==
    pc \in {"cleared", "getread"} /\ fifo = << >> => stolen

\* The dialog is entered on a request only: a 'c' that came in the window, or
\* the button; never on another character, on what RXD held before, nor on the
\* static c when getchar_timeout returns true without reading (main.c:52).
CalibrationOnRequest ==
    calibrated /\ pc # "running" => asked \/ button_was_pressed

\* The window closes, whatever is sent: main() comes to the dialog or runs on,
\* unless the interrupt waits for a byte main() has taken, or has yet to read
\* after it cleared the event (uart.c:90, simple_uart.c:52).
WindowCloses == InWindow ~> ~InWindow \/ (isr = "wait" /\ ~rdy)
=============================================================================
