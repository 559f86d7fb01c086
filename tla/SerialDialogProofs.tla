-------------------------- MODULE SerialDialogProofs --------------------------
(***************************************************************************)
(* The serial line at boot, for every number of polls, depth of the        *)
(* receiver, length of a line and number of coefficient lines: the four    *)
(* invariants of SerialDialog.  main() and the interrupt clear and read in *)
(* two steps each, and any byte may come between them.                     *)
(***************************************************************************)
EXTENDS SerialDialog, SequenceTheorems, TLAPS

MainCleared == pc \in {"cleared", "getread"}

\* A byte that waits is announced, but for a side between its two accesses; a side
\* that has seen RXDRDY finds a byte in RXD even if the other one has read it.
ReceiverInv ==
    /\ NoCharacterStranded
    /\ fifo = << >> /\ (rdy \/ Looked) => rxd \in Chars

\* As long as the interrupt has read no byte main() had looked for, the event tells
\* exactly that a byte waits and no side is about to read it.
TheftInv ==
    ~stolen =>
        /\ rdy <=> fifo # << >> /\ ~MainCleared /\ isr # "cleared"
        /\ Looked \/ isr = "cleared" => fifo # << >>

\* In the window every 'c' that can still be read, or was, has been asked for.
RequestInv ==
    /\ c => asked
    /\ InWindow =>
          /\ ~calibrated /\ i <= Polls
          /\ \A k \in 1..Len(fifo) : fifo[k] = "c" => asked
          /\ (rdy \/ Looked) /\ fifo = << >> /\ rxd = "c" => asked
    /\ CalibrationOnRequest

SerialInv == TypeOK /\ ReceiverInv /\ TheftInv /\ RequestInv

-------------------------------------------------------------------------------
(* Reading a byte.                                                         *)

LEMMA Bounds ==
  /\ Polls \in Nat /\ Polls >= 1 /\ Fifo \in Nat /\ Fifo >= 1
  /\ LineLen \in Nat /\ LineLen >= 1 /\ CalLines \in Nat /\ CalLines >= 1
  /\ DataLen \in Nat /\ DataLen > 2
  /\ Zero \notin Chars
  BY SerialAssumption DEF SerialAssumption

LEMMA CharFromFifo ==
  ASSUME TypeOK, fifo # << >>
  PROVE  /\ Char = fifo[1] /\ Char \in Chars
         /\ Tail(fifo) \in Seq(Chars) /\ Len(Tail(fifo)) = Len(fifo) - 1
         /\ \A k \in 1..Len(Tail(fifo)) : Tail(fifo)[k] = fifo[k + 1]
         /\ 1 \in 1..Len(fifo)
  <1>1. fifo \in Seq(Chars)
    BY DEF TypeOK
  <1>2. Len(fifo) \in Nat \ {0}
    BY <1>1, EmptySeq
  <1>3. Head(fifo) = fifo[1]
    BY <1>1
  <1>4. fifo[1] \in Chars
    BY <1>1, <1>2, ElementOfSeq
  <1>5. QED
    BY <1>1, <1>2, <1>3, <1>4, HeadTailProperties DEF Char

\* No character comes up that was not there.
LEMMA ReadRXDStep ==
  ASSUME TypeOK, ReadRXD
  PROVE  /\ fifo' \in Seq(Chars) /\ Len(fifo') <= Fifo
         /\ rxd' \in Chars \cup {Zero} /\ rdy' \in BOOLEAN /\ pending' \in BOOLEAN
         /\ rdy' <=> rdy \/ fifo' # << >>
         /\ Char \in Chars \cup {Zero}
         /\ fifo = << >> => fifo' = << >> /\ rxd' = rxd /\ Char = rxd
         /\ fifo # << >> /\ fifo' = << >> => rxd' = fifo[1] /\ fifo[1] \in Chars
         /\ \A k \in 1..Len(fifo') : \E j \in 1..Len(fifo) : fifo'[k] = fifo[j]
  <1>0. rdy' \in BOOLEAN /\ (rdy' <=> rdy \/ fifo' # << >>) /\ pending' \in BOOLEAN
    BY DEF ReadRXD, TypeOK
  <1>1. CASE fifo = << >>
    <2>1. fifo' = << >> /\ rxd' = rxd /\ Char = rxd
      BY <1>1 DEF ReadRXD, Char
    <2>2. QED
      BY <1>0, <1>1, <2>1 DEF TypeOK
  <1>2. CASE fifo # << >>
    <2>1. fifo' = Tail(fifo) /\ rxd' = (IF fifo' = << >> THEN Char ELSE Zero)
      BY <1>2 DEF ReadRXD
    <2>2. /\ Char = fifo[1] /\ Char \in Chars
          /\ fifo' \in Seq(Chars) /\ Len(fifo') = Len(fifo) - 1
          /\ \A k \in 1..Len(fifo') : fifo'[k] = fifo[k + 1]
      BY <1>2, <2>1, CharFromFifo
    <2>3. Len(fifo) \in Nat /\ Len(fifo) <= Fifo /\ Fifo \in Nat
      BY Bounds DEF TypeOK
    <2>4. \A k \in 1..Len(fifo') : \E j \in 1..Len(fifo) : fifo'[k] = fifo[j]
      <3>1. ASSUME NEW k \in 1..Len(fifo') PROVE k + 1 \in 1..Len(fifo)
        BY <2>2, <2>3
      <3>2. QED
        BY <2>2, <3>1
    <2>6. rxd' \in Chars \cup {Zero} /\ (fifo' = << >> => rxd' = fifo[1] /\ fifo[1] \in Chars)
      BY <2>1, <2>2
    <2>7. Len(fifo') <= Fifo
      BY <2>2, <2>3
    <2>8. QED
      BY <1>0, <1>2, <2>2, <2>4, <2>6, <2>7
  <1>3. QED
    BY <1>1, <1>2

\* Reading never makes a 'c' out of nothing.
LEMMA ReadOnlyAsked ==
  ASSUME SerialInv, InWindow, ReadRXD
  PROVE  /\ \A k \in 1..Len(fifo') : fifo'[k] = "c" => asked
         /\ rdy' /\ fifo' = << >> /\ rxd' = "c" => asked
         /\ Looked /\ fifo' = << >> /\ rxd' = "c" => asked
         /\ Looked /\ Char = "c" => asked
  <1> USE DEF SerialInv
  <1>1. /\ \A k \in 1..Len(fifo') : \E j \in 1..Len(fifo) : fifo'[k] = fifo[j]
        /\ fifo = << >> => fifo' = << >> /\ rxd' = rxd /\ Char = rxd
        /\ fifo # << >> /\ fifo' = << >> => rxd' = fifo[1]
        /\ rdy' <=> rdy \/ fifo' # << >>
    BY ReadRXDStep
  <1>2. \A k \in 1..Len(fifo) : fifo[k] = "c" => asked
    BY DEF RequestInv
  <1>3. CASE fifo = << >>
    BY <1>1, <1>2, <1>3 DEF RequestInv
  <1>4. CASE fifo # << >>
    <2>1. 1 \in 1..Len(fifo) /\ Char = fifo[1]
      BY <1>4, CharFromFifo
    <2>2. QED
      BY <1>1, <1>2, <1>4, <2>1
  <1>5. QED
    BY <1>3, <1>4

LEMMA SerialInit == Init => SerialInv
  <1> SUFFICES ASSUME Init PROVE SerialInv
    OBVIOUS
  <1>1. TypeOK
    <2>1. << >> \in Seq(Chars) /\ Len(<< >>) = 0
      BY EmptySeq
    <2>2. fifo \in Seq(Chars) /\ Len(fifo) <= Fifo /\ buf \in Seq(Chars) /\ Len(buf) < LineLen
      BY <2>1, Bounds DEF Init
    <2>3. /\ i \in 1..Polls + 1 /\ timeout_ms \in -1..1
          /\ StringLength(index + 1) <= DataLen /\ index \in 0..DataLen - 1
          /\ lines \in 0..CalLines
      BY Bounds DEF Init, StringLength
    <2>4. QED
      BY <2>2, <2>3 DEF Init, TypeOK
  <1>2. ReceiverInv
    BY DEF Init, ReceiverInv, NoCharacterStranded, Looked
  <1>3. RequestInv
    BY Bounds DEF Init, RequestInv, InWindow, CalibrationOnRequest, Looked
  <1>4. TheftInv
    BY DEF Init, TheftInv, Looked, MainCleared
  <1>5. QED
    BY <1>1, <1>2, <1>3, <1>4 DEF SerialInv

-------------------------------------------------------------------------------
(* The line and the interrupt.                                             *)

LEMMA ReceiveStep ==
  ASSUME SerialInv, Receive
  PROVE  SerialInv'
  <1> USE DEF SerialInv
  <1>1. PICK ch \in Chars : fifo' = Append(fifo, ch) /\ asked' = (asked \/ (ch = "c" /\ InWindow))
    BY DEF Receive
  <1>2. fifo \in Seq(Chars) /\ Len(fifo) < Fifo /\ Fifo \in Nat
    BY Bounds DEF Receive, TypeOK
  <1>3. /\ fifo' \in Seq(Chars) /\ Len(fifo') = Len(fifo) + 1 /\ Len(fifo) \in Nat
        /\ \A k \in 1..Len(fifo) : fifo'[k] = fifo[k]
        /\ fifo'[Len(fifo) + 1] = ch
    BY <1>1, <1>2, AppendProperties
  <1>4. fifo' # << >>
    BY <1>3
  <1>5. UNCHANGED <<nus, pc, window, dialog, calibrated, stolen>> /\ rxd' = Zero
        /\ rdy' = (rdy \/ fifo = << >>)
        /\ pending' = (pending \/ (rdy' /\ ~rdy))
    BY DEF Receive
  <1>6. TypeOK'
    <2>1. Len(fifo') <= Fifo
      BY <1>2, <1>3
    <2>2. asked' \in BOOLEAN /\ pending' \in BOOLEAN
      BY <1>1, <1>5 DEF TypeOK
    <2>3. QED
      BY <1>3, <1>5, <2>1, <2>2 DEF TypeOK, nus, window, dialog, StringLength
  <1>7. ReceiverInv'
    BY <1>4, <1>5 DEF ReceiverInv, NoCharacterStranded, nus, TypeOK
  <1>8. RequestInv'
    <2>1. asked => asked'
      BY <1>1
    <2>2. ASSUME InWindow, NEW k \in 1..Len(fifo'), fifo'[k] = "c" PROVE asked'
      <3>1. CASE k = Len(fifo) + 1
        BY <1>1, <1>3, <2>2, <3>1
      <3>2. CASE k \in 1..Len(fifo)
        BY <1>3, <2>1, <2>2, <3>2 DEF RequestInv
      <3>3. QED
        BY <1>3, <3>1, <3>2
    <2>3. QED
      BY <1>4, <1>5, <2>1, <2>2
         DEF RequestInv, InWindow, CalibrationOnRequest, window
  <1>9. TheftInv'
    BY <1>4, <1>5 DEF TheftInv, Looked, MainCleared, nus, TypeOK
  <1>10. QED
    BY <1>6, <1>7, <1>8, <1>9

LEMMA InterruptStep ==
  ASSUME SerialInv, Interrupt
  PROVE  SerialInv'
  <1> USE DEF SerialInv
  <1>1. UNCHANGED <<receiver, pc, window, dialog, asked, calibrated, index, stolen>>
        /\ isr = "idle" /\ isr' = "wait" /\ pending' \in BOOLEAN
    BY DEF Interrupt
  <1>2. TypeOK'
    BY <1>1 DEF TypeOK, receiver, window, dialog, StringLength
  <1>3. ReceiverInv' /\ TheftInv'
    BY <1>1 DEF ReceiverInv, NoCharacterStranded, TheftInv, Looked, MainCleared, receiver
  <1>4. RequestInv'
    BY <1>1 DEF RequestInv, InWindow, CalibrationOnRequest, Looked, receiver, window
  <1>5. QED
    BY <1>2, <1>3, <1>4

\* Whoever clears the event is about to read RXD.
LEMMA ClearStep ==
  ASSUME SerialInv, ClearInHandler \/ (isr = "idle" /\ (ClearInWindow \/ ClearInLine))
  PROVE  SerialInv'
  <1> USE DEF SerialInv
  <1>1. /\ rdy' = FALSE
        /\ UNCHANGED <<fifo, rxd, pending, index, window, dialog, asked, calibrated, stolen>>
        /\ \/ isr' = "cleared" /\ pc' = pc /\ rdy
           \/ isr' = isr /\ isr = "idle" /\ pc = "seen" /\ pc' = "cleared"
           \/ isr' = isr /\ isr = "idle" /\ pc = "getchar" /\ pc' = "getread"
    BY DEF ClearInHandler, ClearInWindow, ClearInLine, ClearEvent, nus
  <1>2. TypeOK'
    BY <1>1 DEF TypeOK, window, dialog, StringLength
  <1>3. ReceiverInv'
    BY <1>1 DEF ReceiverInv, NoCharacterStranded, Looked
  <1>4. TheftInv'
    BY <1>1 DEF TheftInv, Looked, MainCleared, TypeOK
  <1>5. RequestInv'
    BY <1>1 DEF RequestInv, InWindow, CalibrationOnRequest, Looked, window
  <1>6. QED
    BY <1>2, <1>3, <1>4, <1>5

\* The interrupt takes a byte; main() may have seen it, and finds it in RXD.
LEMMA CollectStep ==
  ASSUME SerialInv, Collect
  PROVE  SerialInv'
  <1> USE DEF SerialInv
  <1>1. /\ fifo' \in Seq(Chars) /\ Len(fifo') <= Fifo
        /\ rxd' \in Chars \cup {Zero} /\ rdy' \in BOOLEAN /\ pending' \in BOOLEAN
        /\ rdy' <=> rdy \/ fifo' # << >>
        /\ fifo = << >> => fifo' = << >> /\ rxd' = rxd
        /\ fifo # << >> /\ fifo' = << >> => rxd' = fifo[1] /\ fifo[1] \in Chars
    BY ReadRXDStep DEF Collect
  <1>2. isr = "cleared" /\ isr' = "idle" /\ stolen' = (stolen \/ Looked)
        /\ UNCHANGED <<pc, window, dialog, asked, calibrated>>
    BY DEF Collect
  <1>3. index' \in 0..DataLen - 1 /\ StringLength(index' + 1) <= DataLen
    BY Bounds DEF Collect, TypeOK, Full, StringLength
  <1>4. TypeOK'
    BY <1>1, <1>2, <1>3 DEF TypeOK, window, dialog, StringLength, Looked
  <1>5. ReceiverInv'
    BY <1>1, <1>2 DEF ReceiverInv, NoCharacterStranded, Looked
  <1>6. TheftInv'
    BY <1>1, <1>2 DEF TheftInv, Looked, MainCleared, TypeOK
  <1>7. RequestInv'
    <2>1. ASSUME InWindow
          PROVE  /\ \A k \in 1..Len(fifo') : fifo'[k] = "c" => asked
                 /\ (rdy' \/ Looked) /\ fifo' = << >> /\ rxd' = "c" => asked
      BY <2>1, ReadOnlyAsked DEF Collect
    <2>2. QED
      BY <1>2, <2>1 DEF RequestInv, InWindow, CalibrationOnRequest, Looked, window
  <1>8. QED
    BY <1>4, <1>5, <1>6, <1>7

-------------------------------------------------------------------------------
(* The window.                                                             *)

\* main() decides: what it needs to know of the byte it may have read.
LEMMA DecideStep ==
  ASSUME SerialInv, InWindow, NEW got \in BOOLEAN, Decide(got),
         UNCHANGED <<dialog, asked, isr, index, stolen>>, isr = "idle",
         fifo' \in Seq(Chars), Len(fifo') <= Fifo, rxd' \in Chars \cup {Zero},
         rdy' \in BOOLEAN, pending' \in BOOLEAN,
         fifo' # << >> => rdy',
         fifo' = << >> /\ rdy' => rxd' \in Chars,
         ~stolen => (rdy' <=> fifo' # << >>),
         c' \in BOOLEAN, c' => asked,
         \A k \in 1..Len(fifo') : fifo'[k] = "c" => asked,
         rdy' /\ fifo' = << >> /\ rxd' = "c" => asked
  PROVE  SerialInv'
  <1> USE Bounds DEF SerialInv
  <1>1. CASE Starts(got, c') \/ button_was_pressed
    <2>1. pc' = "command" /\ calibrated' = TRUE
          /\ UNCHANGED <<i, timeout_ms, button_was_pressed>>
      BY <1>1 DEF Decide
    <2>2. asked \/ button_was_pressed
      BY <1>1 DEF Starts
    <2>3. TypeOK'
      BY <2>1 DEF TypeOK, dialog, StringLength
    <2>4. ReceiverInv' /\ TheftInv'
      BY <2>1 DEF ReceiverInv, NoCharacterStranded, TheftInv, Looked, MainCleared
    <2>5. RequestInv'
      BY <2>1, <2>2 DEF RequestInv, InWindow, CalibrationOnRequest
    <2>6. QED
      BY <2>3, <2>4, <2>5
  <1>2. CASE ~(Starts(got, c') \/ button_was_pressed)
    <2>1. /\ i' = i + 1 /\ timeout_ms' = 1 /\ button_was_pressed' \in BOOLEAN
          /\ pc' = (IF i' > Polls THEN "running" ELSE "window")
          /\ UNCHANGED calibrated
      BY <1>2 DEF Decide, Turn, NextTurn
    <2>2. i \in 1..Polls + 1 /\ i <= Polls /\ ~calibrated
      BY DEF TypeOK, RequestInv
    <2>3. TypeOK'
      BY <2>1, <2>2 DEF TypeOK, dialog, StringLength
    <2>4. ReceiverInv' /\ TheftInv'
      BY <2>1 DEF ReceiverInv, NoCharacterStranded, TheftInv, Looked, MainCleared
    <2>5. RequestInv'
      BY <2>1, <2>2 DEF RequestInv, InWindow, CalibrationOnRequest, TypeOK, Looked
    <2>6. QED
      BY <2>3, <2>4, <2>5
  <1>3. QED
    BY <1>1, <1>2

\* Whoever took the byte main() has seen, what it reads was received.
LEMMA GetWithTimeoutStep ==
  ASSUME SerialInv, isr = "idle", GetWithTimeout
  PROVE  SerialInv'
  <1> USE DEF SerialInv
  <1>1. InWindow /\ Looked /\ UNCHANGED <<dialog, asked, isr, index, stolen>> /\ Decide(TRUE)
    BY DEF GetWithTimeout, InWindow, nus, Looked
  <1>2. CASE pc = "cleared"
    <2>1. ReadRXD /\ c' = (Char = "c")
      BY <1>2 DEF GetWithTimeout
    <2>2. /\ fifo' \in Seq(Chars) /\ Len(fifo') <= Fifo
          /\ rxd' \in Chars \cup {Zero} /\ rdy' \in BOOLEAN /\ pending' \in BOOLEAN
          /\ rdy' <=> rdy \/ fifo' # << >>
          /\ fifo = << >> => fifo' = << >> /\ rxd' = rxd
          /\ fifo # << >> /\ fifo' = << >> => rxd' = fifo[1] /\ fifo[1] \in Chars
      BY <2>1, ReadRXDStep
    <2>3. fifo' = << >> => rxd' \in Chars
      BY <1>1, <2>2 DEF ReceiverInv
    <2>4. ~stolen => (rdy' <=> fifo' # << >>)
      BY <1>2, <2>2 DEF TheftInv, MainCleared
    <2>5. /\ \A k \in 1..Len(fifo') : fifo'[k] = "c" => asked
          /\ rdy' /\ fifo' = << >> /\ rxd' = "c" => asked
          /\ Char = "c" => asked
      BY <1>1, <2>1, ReadOnlyAsked
    <2>6. c' \in BOOLEAN /\ (c' => asked)
      BY <2>1, <2>5
    <2>7. QED
      BY <1>1, <2>2, <2>3, <2>4, <2>5, <2>6, DecideStep
  <1>3. CASE pc # "cleared"
    <2>1. pc = "seen" /\ UNCHANGED <<fifo, rxd, rdy, c, pending>>
      BY <1>3 DEF GetWithTimeout, receiver
    <2>2. fifo # << >> => rdy
      BY <2>1 DEF ReceiverInv, NoCharacterStranded
    <2>3. ~stolen => (rdy <=> fifo # << >>)
      BY <2>1 DEF TheftInv, MainCleared
    <2>4. QED
      BY <1>1, <2>1, <2>2, <2>3, DecideStep DEF TypeOK, ReceiverInv, RequestInv
  <1>4. QED
    BY <1>2, <1>3

LEMMA WaitStep ==
  ASSUME SerialInv, isr = "idle", Wait
  PROVE  SerialInv'
  <1> USE DEF SerialInv
  <1>1. CASE timeout_ms >= 0
    <2>1. timeout_ms' = timeout_ms - 1
          /\ UNCHANGED <<pc, i, button_was_pressed, c, calibrated, receiver, pending, nus,
                         dialog, asked, stolen>>
      BY <1>1 DEF Wait
    <2>2. timeout_ms' \in -1..1
      BY <1>1, <2>1 DEF TypeOK
    <2>3. TypeOK' /\ ReceiverInv'
      BY <2>1, <2>2
         DEF TypeOK, ReceiverInv, NoCharacterStranded, Looked, receiver, nus, dialog,
             StringLength
    <2>4. TheftInv' /\ RequestInv'
      BY <2>1
         DEF TheftInv, MainCleared, RequestInv, InWindow, CalibrationOnRequest, Looked,
             receiver, nus
    <2>5. QED
      BY <2>3, <2>4
  <1>2. CASE ~(timeout_ms >= 0)
    <2>1. InWindow /\ pc = "window" /\ Decide(FALSE) /\ c' = c /\ ~rdy
          /\ UNCHANGED <<dialog, asked, isr, index, pending, fifo, rxd, rdy, stolen>>
      BY <1>2 DEF Wait, InWindow, receiver, nus
    <2>2. fifo = << >>
      BY <2>1 DEF ReceiverInv, NoCharacterStranded
    <2>3. QED
      BY <2>1, <2>2, DecideStep DEF TypeOK, ReceiverInv, RequestInv
  <1>3. QED
    BY <1>1, <1>2

-------------------------------------------------------------------------------
(* The dialog.                                                             *)

LEMMA SeeStep ==
  ASSUME SerialInv, isr = "idle", See \/ SeeInLine
  PROVE  SerialInv'
  <1> USE DEF SerialInv
  <1>1. rdy /\ pc \in {"window", "getline"}
        /\ pc' = (IF pc = "window" THEN "seen" ELSE "getchar")
        /\ UNCHANGED <<receiver, pending, nus, window, dialog, asked, calibrated, stolen>>
    BY DEF See, SeeInLine
  <1>2. TypeOK'
    BY <1>1 DEF TypeOK, receiver, nus, window, dialog, StringLength
  <1>3. ReceiverInv' /\ TheftInv'
    BY <1>1 DEF ReceiverInv, NoCharacterStranded, TheftInv, Looked, MainCleared, receiver, nus
  <1>4. RequestInv'
    BY <1>1 DEF RequestInv, InWindow, CalibrationOnRequest, Looked, receiver, window
  <1>5. QED
    BY <1>2, <1>3, <1>4

LEMMA CommandStep ==
  ASSUME SerialInv, isr = "idle", Command
  PROVE  SerialInv'
  <1> USE DEF SerialInv
  <1>1. /\ pc = "command" /\ buf' = << >> /\ button_was_pressed' = FALSE
        /\ pc' \in {"running", "getline"}
        /\ button_was_pressed => pc' = "running"
        /\ UNCHANGED <<receiver, pending, nus, i, timeout_ms, c, lines, asked, calibrated,
                       stolen>>
    BY DEF Command
  <1>2. buf' \in Seq(Chars) /\ Len(buf') < LineLen
    BY <1>1, EmptySeq, Bounds
  <1>3. TypeOK'
    BY <1>1, <1>2 DEF TypeOK, receiver, nus, StringLength
  <1>4. ReceiverInv' /\ TheftInv'
    BY <1>1 DEF ReceiverInv, NoCharacterStranded, TheftInv, Looked, MainCleared, receiver, nus
  <1>5. RequestInv'
    BY <1>1 DEF RequestInv, InWindow, CalibrationOnRequest
  <1>6. QED
    BY <1>3, <1>4, <1>5

\* A line ends: coefficients under way come nearer to their end, or a command is done.
LEMMA LineStep ==
  ASSUME TypeOK, NEW text, Line(text)
  PROVE  /\ buf' \in Seq(Chars) /\ Len(buf') < LineLen
         /\ lines' \in 0..CalLines
         /\ pc' \in {"command", "getline", "running"}
  <1> USE Bounds
  <1>1. buf' \in Seq(Chars) /\ Len(buf') < LineLen
    BY EmptySeq DEF Line
  <1>2. CASE lines > 0
    BY <1>1, <1>2 DEF Line, TypeOK
  <1>3. CASE ~(lines > 0)
    BY <1>1, <1>3 DEF Line, DoCommand, TypeOK
  <1>4. QED
    BY <1>2, <1>3

LEMMA GetlineStep ==
  ASSUME SerialInv, isr = "idle", getline
  PROVE  SerialInv'
  <1> USE Bounds DEF SerialInv
  <1>1. pc = "getread" /\ ReadRXD /\ UNCHANGED <<nus, window, asked, calibrated, stolen>>
    BY DEF getline
  <1>2. /\ fifo' \in Seq(Chars) /\ Len(fifo') <= Fifo
        /\ rxd' \in Chars \cup {Zero} /\ rdy' \in BOOLEAN /\ pending' \in BOOLEAN
        /\ rdy' <=> rdy \/ fifo' # << >>
        /\ fifo = << >> => fifo' = << >> /\ rxd' = rxd /\ Char = rxd
        /\ fifo # << >> /\ fifo' = << >> => rxd' = fifo[1] /\ fifo[1] \in Chars
    BY <1>1, ReadRXDStep
  <1>3. Char \in Chars
    <2>1. CASE fifo = << >>
      BY <1>1, <1>2, <2>1 DEF ReceiverInv, Looked
    <2>2. CASE fifo # << >>
      BY <2>2, CharFromFifo
    <2>3. QED
      BY <2>1, <2>2
  <1>4. /\ buf' \in Seq(Chars) /\ Len(buf') < LineLen
        /\ lines' \in 0..CalLines
        /\ pc' \in {"command", "getline", "running"}
    <2>1. CASE Char = "NL"
      <3>1. pc' = "getline" /\ UNCHANGED dialog
        BY <2>1 DEF getline
      <3>2. QED
        BY <3>1 DEF TypeOK, dialog
    <2>2. CASE Char = "CR"
      <3>1. Line(buf)
        BY <2>2 DEF getline
      <3>2. QED
        BY <3>1, LineStep
    <2>3. CASE Char \notin {"NL", "CR"} /\ Len(buf) + 1 = LineLen
      <3>1. Line(Append(buf, Char))
        BY <2>3 DEF getline
      <3>2. QED
        BY <3>1, LineStep
    <2>4. CASE Char \notin {"NL", "CR"} /\ Len(buf) + 1 # LineLen
      <3>1. buf' = Append(buf, Char) /\ pc' = "getline" /\ UNCHANGED lines
        BY <2>4 DEF getline
      <3>2. buf \in Seq(Chars) /\ Len(buf) \in Nat /\ Len(buf) < LineLen
        BY DEF TypeOK
      <3>3. buf' \in Seq(Chars) /\ Len(buf') = Len(buf) + 1
        BY <1>3, <3>1, <3>2, AppendProperties
      <3>4. Len(buf') < LineLen
        BY <2>4, <3>2, <3>3
      <3>5. QED
        BY <3>1, <3>3, <3>4 DEF TypeOK
    <2>5. QED
      BY <2>1, <2>2, <2>3, <2>4
  <1>5. TypeOK'
    BY <1>1, <1>2, <1>4 DEF TypeOK, nus, window, StringLength
  <1>6. ReceiverInv'
    BY <1>1, <1>2, <1>4 DEF ReceiverInv, NoCharacterStranded, Looked
  <1>7. TheftInv'
    BY <1>1, <1>2, <1>4 DEF TheftInv, Looked, MainCleared, nus
  <1>8. RequestInv'
    BY <1>1, <1>4 DEF RequestInv, InWindow, CalibrationOnRequest, window
  <1>9. QED
    BY <1>5, <1>6, <1>7, <1>8

-------------------------------------------------------------------------------
LEMMA SerialNext == SerialInv /\ [Next]_vars => SerialInv'
  <1> SUFFICES ASSUME SerialInv, [Next]_vars PROVE SerialInv'
    OBVIOUS
  <1>1. CASE Receive
    BY <1>1, ReceiveStep
  <1>2. CASE UART0_IRQHandler
    BY <1>2, InterruptStep, ClearStep, CollectStep DEF UART0_IRQHandler
  <1>3. CASE MainLoop
    BY <1>3, SeeStep, ClearStep, GetWithTimeoutStep, WaitStep, CommandStep, GetlineStep
       DEF MainLoop
  <1>4. CASE UNCHANGED vars
    BY <1>4 DEF vars, SerialInv, TypeOK, ReceiverInv, NoCharacterStranded, TheftInv,
                RequestInv, InWindow, Looked, MainCleared, CalibrationOnRequest, receiver,
                nus, window, dialog, StringLength
  <1>5. QED
    BY <1>1, <1>2, <1>3, <1>4 DEF Next

LEMMA SerialInvHolds == Spec => []SerialInv
  BY SerialInit, SerialNext, PTL DEF Spec

\* Every variable keeps its type, whatever is sent and whoever reads it: the index
\* stays inside data_array and the string inside what ble_nus_send_string accepts
\* (uart.c:90).
THEOREM SerialTypes == Spec => []TypeOK
  BY SerialInvHolds, PTL DEF SerialInv

\* A byte that waits is announced by RXDRDY, whoever reads the others and in whatever
\* order the two clear and read, except while one of them is about to read
\* (simple_uart.c:27-28 and :52-53).
THEOREM NothingStranded == Spec => []NoCharacterStranded
  <1>1. SerialInv => NoCharacterStranded
    BY DEF SerialInv, ReceiverInv
  <1>2. QED
    BY <1>1, SerialInvHolds, PTL

\* As long as the interrupt has read no byte main() had looked for, main() takes every
\* byte once (simple_uart.c:27 and :52).
THEOREM ReadTwiceExplained == Spec => []ReadTwiceOnlyAfterTheft
  <1>1. SerialInv => ReadTwiceOnlyAfterTheft
    BY DEF SerialInv, TheftInv, ReadTwiceOnlyAfterTheft, Looked
  <1>2. QED
    BY <1>1, SerialInvHolds, PTL

\* The dialog is entered only if a 'c' came in the window or the button was down,
\* whatever the stale c and RXD hold (main.c:52).
THEOREM CalibratesOnRequest == Spec => []CalibrationOnRequest
  <1>1. SerialInv => CalibrationOnRequest
    BY DEF SerialInv, RequestInv
  <1>2. QED
    BY <1>1, SerialInvHolds, PTL
===============================================================================
