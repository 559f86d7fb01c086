------------------------ MODULE CalibrationStoreProofs ------------------------
(***************************************************************************)
(* The calibration store, for every set of calibrations, length of a block *)
(* and size of the queue, with and without early events and flash errors:  *)
(* the three invariants of CalibrationStore, and that it keeps the         *)
(* promises of AtomicStore.                                                *)
(***************************************************************************)
EXTENDS CalibrationStore, FiniteSetTheorems, TLAPS

Handed == {"flash_access", "count_read", "count_write", "wait"}
Writing == {"enqueue", "cmd_process"} \union Handed
Places == {"boot", "init_flags", "register", "load", "halted", "fault", "dialog", "quit"}
          \union Writing
\* A command is in the queue and not yet in its count.
Uncounted == {"cmd_process", "flash_access", "count_read", "count_write"}
Indices == 0 .. QueueSize - 1
OpCodes == {"clear", "store"}

StoreType ==
  /\ op \in {"none", "erase_swap"} \union OpCodes
  /\ written \in 0 .. Words - 1 /\ evt \in {"none", "success", "error"}
  /\ initialized \in BOOLEAN /\ swap \in {"init", "dirty"} /\ flash_access \in BOOLEAN
  /\ rp \in Indices /\ count \in 0 .. 255 /\ tmp \in 0 .. 255
  /\ cmd \in [Indices -> {"none"} \union OpCodes]
  /\ data \in Cal /\ cal \in Cal
  /\ main \in Places /\ step \in OpCodes
  /\ early \in BOOLEAN

NoneQueued == \A i \in Indices : cmd[i] = "none"

\* The block with the first n words of the calibration written.
Partly(n) == [i \in 1 .. Words |-> IF i <= n THEN Image(data)[i] ELSE "erased"]

\* What the command of the thread was to do is done.
Done == flash = IF step = "clear" THEN Erased ELSE Image(data)

\* The block ends without the magic word, or is whole.
BlockInv ==
  /\ DOMAIN flash = 1 .. Words
  /\ flash[Words] = "erased" \/ \E d \in Cal : flash = Image(d)
  /\ op = "store" => flash = Partly(written)
  /\ written # 0 => op = "store"

\* A command of the thread, with the SoftDevice or answered by it, is the one at rp,
\* for which the thread waits.
CommandInv ==
  /\ op \in OpCodes => main \in Handed /\ cmd[rp] = op /\ op = step /\ status # "success"
  /\ op = "erase_swap" => swap = "dirty"
  /\ op # "none" => evt = "none"
  /\ evt # "none" /\ swap = "init" =>
       /\ main \in Handed /\ cmd[rp] = step /\ status # "success"
       /\ evt = "success" => Done
  /\ main \in {"boot", "fault"} => op = "none" /\ evt = "none"

\* The queue holds at most the command the thread is at, and none after its success;
\* the store is begun on an erased block only.
RequestInv ==
  /\ main \notin (Writing \ {"enqueue"}) \union {"fault"} => NoneQueued
  /\ main \in {"cmd_process", "flash_access"} => ~flash_access
  /\ main \in Writing =>
       /\ \A i \in Indices : cmd[i] \in {"none", step}
       /\ \A i, j \in Indices : cmd[i] # "none" /\ cmd[j] # "none" => i = j
       /\ main \in {"enqueue", "cmd_process", "flash_access"} => status # "success"
       /\ status = "success" =>
            NoneQueued /\ Done /\ op = "none" /\ evt = "none" /\ swap = "init"
       /\ step = "store" => swap = "init"
       /\ step = "store" /\ main \in {"enqueue", "cmd_process"} =>
            flash = Erased /\ op = "none" /\ evt = "none"

\* As long as no event has met a half-done request: the one command is at rp and is
\* counted once the request is over, ...
CountInv ==
  ~early =>
    /\ main # "fault"
    /\ \A i \in Indices : cmd[i] # "none" => i = rp
    /\ main \in Uncounted => cmd[rp] # "none"
    /\ count = IF cmd[rp] = "none" \/ main \in Uncounted THEN 0 ELSE 1
    /\ main = "count_write" => tmp = 0

\* ... and flash_access is set for what is with the SoftDevice.  What is there is never
\* unseen, early or not, once the request is over.
AccessInv ==
  /\ main = "boot" => ~early
  /\ main \notin {"init_flags", "flash_access"} /\ ~flash_access => op = "none" /\ evt = "none"
  /\ ~early =>
       /\ main \in {"init_flags", "flash_access"} => op # "none" \/ evt # "none"
       /\ main \notin {"init_flags", "flash_access", "halted"} =>
            (flash_access <=> op # "none" \/ evt # "none")

StoreInv ==
  /\ StoreType /\ BlockInv /\ CommandInv /\ RequestInv /\ CountInv /\ AccessInv

-------------------------------------------------------------------------------
(* The constants and the block.                                            *)

LEMMA ConstantFacts ==
  /\ Factory \in Cal /\ NoCal \notin Cal /\ Garbage \notin Cal /\ NoCal # Garbage
  /\ Words \in Nat /\ 2 < Words
  /\ QueueSize \in Nat /\ 2 <= QueueSize /\ QueueSize <= 127
  /\ 0 \in Indices
  /\ "erased" \notin Cal /\ "magic" \notin Cal /\ "mixed" \notin Cal
  BY StoreAssumption DEF StoreAssumption, Indices

LEMMA ImageFacts ==
  ASSUME NEW d
  PROVE  /\ DOMAIN Image(d) = 1 .. Words /\ DOMAIN Erased = 1 .. Words
         /\ Image(d)[1] = "magic" /\ Image(d)[Words] = "magic" /\ Image(d)[2] = d
         /\ Erased[Words] = "erased"
  BY ConstantFacts DEF Image, Erased

LEMMA ContentOfImage ==
  ASSUME NEW d \in Cal
  PROVE  Content(Image(d)) = d
  <1>1. LoadAccepts(Image(d))
    BY ImageFacts DEF LoadAccepts
  <1>2. \A e \in Cal : Image(d) = Image(e) => d = e
    BY ImageFacts
  <1>3. (CHOOSE e \in Cal : Image(d) = Image(e)) = d
    BY <1>2
  <1>4. \E e \in Cal : Image(d) = Image(e)
    OBVIOUS
  <1>5. QED
    BY <1>1, <1>3, <1>4 DEF Content

LEMMA ContentOfNone ==
  ASSUME NEW block, block[Words] = "erased"
  PROVE  Content(block) = NoCal
  BY DEF Content, LoadAccepts

LEMMA ContentOfBlock ==
  ASSUME BlockInv
  PROVE  Content(flash) \in Cal \union {NoCal} /\ (LoadAccepts(flash) => Content(flash) \in Cal)
  <1>1. CASE flash[Words] = "erased"
    BY <1>1, ContentOfNone DEF LoadAccepts
  <1>2. CASE \E d \in Cal : flash = Image(d)
    BY <1>2, ContentOfImage
  <1>3. QED
    BY <1>1, <1>2 DEF BlockInv

LEMMA PartlyFacts ==
  ASSUME data \in Cal
  PROVE  Partly(0) = Erased /\ Partly(Words) = Image(data)
  <1>1. Partly(0) = Erased
    BY ConstantFacts DEF Partly, Erased
  <1>2. \A i \in 1 .. Words : i <= Words
    BY ConstantFacts
  <1>3. Partly(Words) = Image(data)
    BY <1>2 DEF Partly, Image
  <1>4. QED
    BY <1>1, <1>3

LEMMA PartlyMore ==
  ASSUME data \in Cal, NEW n \in 0 .. Words - 1
  PROVE  /\ [Partly(n) EXCEPT ![n + 1] = Program(Partly(n)[n + 1], Image(data)[n + 1])]
              = Partly(n + 1)
         /\ n + 1 < Words => Partly(n + 1)[Words] = "erased"
         /\ DOMAIN Partly(n + 1) = 1 .. Words
  <1>1. n + 1 \in 1 .. Words /\ Partly(n)[n + 1] = "erased"
    BY ConstantFacts DEF Partly
  <1>2. Program(Partly(n)[n + 1], Image(data)[n + 1]) = Image(data)[n + 1]
    BY <1>1 DEF Program
  <1>3. [Partly(n) EXCEPT ![n + 1] = Image(data)[n + 1]] = Partly(n + 1)
    <2> DEFINE more == [Partly(n) EXCEPT ![n + 1] = Image(data)[n + 1]]
    <2>1. ASSUME NEW i \in 1 .. Words PROVE more[i] = Partly(n + 1)[i]
      <3>1. CASE i = n + 1
        BY <1>1, <3>1 DEF Partly
      <3>2. CASE i # n + 1
        <4>1. i <= n <=> i <= n + 1
          BY <3>2
        <4>2. QED
          BY <3>2, <4>1 DEF Partly
      <3>3. QED
        BY <3>1, <3>2
    <2>2. /\ more = [i \in 1 .. Words |-> more[i]]
          /\ Partly(n + 1) = [i \in 1 .. Words |-> Partly(n + 1)[i]]
      BY DEF Partly
    <2>3. QED
      BY <2>1, <2>2
  <1>4. QED
    BY <1>2, <1>3, ConstantFacts DEF Partly

LEMMA IndexFacts ==
  ASSUME rp \in Indices, count \in 0 .. 255, tmp \in 0 .. 255
  PROVE  /\ NextRp \in Indices /\ (rp + count) % QueueSize \in Indices
         /\ count = 0 => (rp + count) % QueueSize = rp
         /\ Left \in 0 .. 255 /\ (count = 1 => Left = 0)
         /\ (tmp + 1) % 256 \in 0 .. 255 /\ (tmp = 0 => (tmp + 1) % 256 = 1)
  BY ConstantFacts DEF Indices, NextRp, Left

LEMMA StoreInit == Init => StoreInv
  <1> SUFFICES ASSUME Init PROVE StoreInv
    OBVIOUS
  <1>1. StoreType
    <2>1. cmd \in [Indices -> {"none"} \union OpCodes]
      BY DEF Init, Indices
    <2>2. written \in 0 .. Words - 1 /\ rp \in Indices
      BY ConstantFacts DEF Init, Indices
    <2>3. /\ op \in {"none"} /\ evt \in {"none"} /\ swap \in {"init"} /\ main \in {"boot"}
          /\ step \in {"clear"} /\ count \in 0 .. 255 /\ tmp \in 0 .. 255
      BY DEF Init
    <2>5. initialized \in BOOLEAN /\ flash_access \in BOOLEAN /\ early \in BOOLEAN
      BY Zenon DEF Init
    <2>4. data \in Cal /\ cal \in Cal
      BY ConstantFacts DEF Init
    <2>6. QED
      BY <2>1, <2>2, <2>3, <2>4, <2>5 DEF StoreType, OpCodes, Places
  <1>2. BlockInv
    BY ImageFacts DEF Init, BlockInv
  <1>3. CommandInv
    BY DEF Init, CommandInv, OpCodes
  <1>4. RequestInv
    BY DEF Init, RequestInv, NoneQueued, Indices, Writing, Handed
  <1>5. CountInv /\ AccessInv
    BY ConstantFacts DEF Init, CountInv, AccessInv, Indices, Uncounted
  <1>6. QED
    BY <1>1, <1>2, <1>3, <1>4, <1>5 DEF StoreInv

\* What the history says after a step that is no restart.
LEMMA EarlyStays ==
  ASSUME StoreInv, Remember, main' # "boot"
  PROVE  early' \in BOOLEAN /\ (~early' => ~early /\ ~MeetsRequest)
  <1>1. early' = (early \/ MeetsRequest)
    BY DEF Remember
  <1>2. early \in BOOLEAN
    BY DEF StoreInv, StoreType
  <1>3. QED
    BY <1>1, <1>2

-------------------------------------------------------------------------------
(* The SoftDevice.                                                         *)

LEMMA FlashEraseStep ==
  ASSUME StoreInv, FlashErase, Remember
  PROVE  StoreInv'
  <1>1. /\ op \in {"erase_swap", "clear"} /\ flash' = IF op = "clear" THEN Erased ELSE flash
        /\ op' = "none" /\ written' = 0 /\ evt' = "success"
        /\ UNCHANGED <<initialized, swap, flash_access, rp, count, cmd, status, data, cal,
                       main, step, tmp>>
    BY DEF FlashErase, Finish, pstorageVars, queueVars, calVars, ctxVars
  <1>2. StoreType /\ BlockInv /\ CommandInv /\ RequestInv /\ CountInv /\ AccessInv
    BY DEF StoreInv
  <1>3. main \notin {"boot", "fault"} /\ main' # "boot"
    BY <1>1, <1>2 DEF CommandInv
  <1>4. early' \in BOOLEAN /\ (~early' => ~early)
    BY <1>3, EarlyStays
  <1>5. StoreType'
    BY <1>1, <1>2, <1>4, ConstantFacts DEF StoreType
  <1>6. BlockInv'
    BY <1>1, <1>2, ImageFacts DEF BlockInv
  <1>7. CommandInv'
    BY <1>1, <1>2, <1>3 DEF CommandInv, OpCodes, Done
  <1>8. RequestInv'
    BY <1>1, <1>2 DEF CommandInv, RequestInv, NoneQueued, Done
  <1>9. CountInv' /\ AccessInv'
    BY <1>1, <1>2, <1>3, <1>4 DEF CountInv, AccessInv
  <1>10. QED
    BY <1>5, <1>6, <1>7, <1>8, <1>9 DEF StoreInv

LEMMA FlashWordStep ==
  ASSUME StoreInv, FlashWord, Remember
  PROVE  StoreInv'
  <1>1. /\ op = "store"
        /\ flash' = [flash EXCEPT ![written + 1] =
                       Program(flash[written + 1], Image(data)[written + 1])]
        /\ UNCHANGED <<initialized, swap, flash_access, rp, count, cmd, status, data, cal,
                       main, step, tmp>>
    BY DEF FlashWord, pstorageVars, queueVars, calVars, ctxVars
  <1>2. StoreType /\ BlockInv /\ CommandInv /\ RequestInv /\ CountInv /\ AccessInv
    BY DEF StoreInv
  <1>3. main \in Handed /\ cmd[rp] = step /\ step = "store" /\ status # "success" /\ swap = "init"
    BY <1>1, <1>2 DEF CommandInv, RequestInv, OpCodes, Writing
  <1>4. main \notin {"boot", "fault"}
    BY <1>3 DEF Handed
  <1>5. early' \in BOOLEAN /\ (~early' => ~early)
    BY <1>1, <1>4, EarlyStays
  <1>6. written \in 0 .. Words - 1 /\ data \in Cal
    BY <1>2 DEF StoreType
  <1>7. flash' = Partly(written + 1) /\ DOMAIN flash' = 1 .. Words
    BY <1>1, <1>2, <1>6, PartlyMore DEF BlockInv
  <1>8. CASE written + 1 = Words
    <2>1. op' = "none" /\ written' = 0 /\ evt' = "success"
      BY <1>1, <1>8 DEF FlashWord, Finish
    <2>2. flash' = Image(data)
      BY <1>6, <1>7, <1>8, PartlyFacts
    <2>3. StoreType'
      BY <1>1, <1>2, <1>5, <2>1, ConstantFacts DEF StoreType
    <2>4. BlockInv'
      BY <1>1, <1>6, <1>7, <2>1, <2>2 DEF BlockInv
    <2>5. CommandInv'
      BY <1>1, <1>3, <1>4, <2>1, <2>2 DEF CommandInv, OpCodes, Done
    <2>6. RequestInv'
      BY <1>1, <1>2, <1>3, <2>1 DEF RequestInv, NoneQueued, Handed, CommandInv, OpCodes
    <2>7. CountInv' /\ AccessInv'
      BY <1>1, <1>2, <1>4, <1>5, <2>1 DEF CountInv, AccessInv
    <2>8. QED
      BY <2>3, <2>4, <2>5, <2>6, <2>7 DEF StoreInv
  <1>9. CASE written + 1 # Words
    <2>1. written' = written + 1 /\ UNCHANGED <<op, evt>>
      BY <1>1, <1>9 DEF FlashWord
    <2>2. written' \in 0 .. Words - 1 /\ written + 1 < Words
      BY <1>6, <1>9, <2>1, ConstantFacts
    <2>3. flash'[Words] = "erased"
      BY <1>6, <1>7, <2>2, PartlyMore
    <2>4. StoreType'
      BY <1>1, <1>2, <1>5, <2>1, <2>2 DEF StoreType
    <2>5. BlockInv'
      BY <1>1, <1>7, <2>1, <2>3 DEF BlockInv, Partly
    <2>6. CommandInv'
      BY <1>1, <1>2, <2>1 DEF CommandInv, Done
    <2>7. RequestInv'
      BY <1>1, <1>2, <1>3, <2>1 DEF RequestInv, NoneQueued, Handed
    <2>8. CountInv' /\ AccessInv'
      BY <1>1, <1>2, <1>4, <1>5, <2>1 DEF CountInv, AccessInv
    <2>9. QED
      BY <2>4, <2>5, <2>6, <2>7, <2>8 DEF StoreInv
  <1>10. QED
    BY <1>8, <1>9

LEMMA FlashErrorStep ==
  ASSUME StoreInv, FlashError, Remember
  PROVE  StoreInv'
  <1>1. /\ op # "none" /\ written = 0
        /\ op' = "none" /\ written' = 0 /\ evt' = "error"
        /\ UNCHANGED <<flash, initialized, swap, flash_access, rp, count, cmd, status, data,
                       cal, main, step, tmp>>
    BY DEF FlashError, CpuFree, Finish, pstorageVars, queueVars, calVars, ctxVars
  <1>2. StoreType /\ BlockInv /\ CommandInv /\ RequestInv /\ CountInv /\ AccessInv
    BY DEF StoreInv
  <1>3. main \notin {"boot", "fault"} /\ main' # "boot"
    BY <1>1, <1>2 DEF CommandInv
  <1>4. early' \in BOOLEAN /\ (~early' => ~early)
    BY <1>3, EarlyStays
  <1>5. StoreType'
    BY <1>1, <1>2, <1>4 DEF StoreType
  <1>6. BlockInv'
    BY <1>1, <1>2 DEF BlockInv
  <1>7. CommandInv'
    BY <1>1, <1>2, <1>3 DEF CommandInv, StoreType, OpCodes
  <1>8. RequestInv'
    BY <1>1, <1>2 DEF RequestInv, NoneQueued
  <1>9. CountInv' /\ AccessInv'
    BY <1>1, <1>2, <1>3, <1>4 DEF CountInv, AccessInv
  <1>10. QED
    BY <1>5, <1>6, <1>7, <1>8, <1>9 DEF StoreInv

-------------------------------------------------------------------------------
(* The event handler.                                                      *)

\* An event while flash_access is not set goes unseen: only before its request is
\* over, or early.
LEMMA IgnoredEventStep ==
  ASSUME StoreInv, SysEvent, IgnoredEvent, Remember
  PROVE  StoreInv'
  <1>1. /\ evt # "none" /\ evt' = "none" /\ ~flash_access
        /\ UNCHANGED <<op, main, status, initialized, swap, flash_access, rp, count, cmd,
                       flash, written, data, cal, step, tmp>>
    BY DEF SysEvent, IgnoredEvent, pstorageVars, queueVars, calVars
  <1>2. StoreType /\ BlockInv /\ CommandInv /\ RequestInv /\ CountInv /\ AccessInv
    BY DEF StoreInv
  <1>3. main \notin {"boot", "fault", "halted"} /\ main' # "boot"
    BY <1>1, <1>2 DEF CommandInv, SysEvent, Running
  <1>4. early' \in BOOLEAN /\ early'
    <2>1. CASE main \in Window
      BY <1>1, <1>3, <2>1, EarlyStays DEF MeetsRequest
    <2>2. CASE main \notin Window
      BY <1>1, <1>2, <1>3, <2>2, EarlyStays DEF AccessInv, Window
    <2>3. QED
      BY <2>1, <2>2
  <1>5. StoreType'
    BY <1>1, <1>2, <1>4 DEF StoreType
  <1>6. BlockInv'
    BY <1>1, <1>2 DEF BlockInv, Partly
  <1>7. CommandInv'
    BY <1>1, <1>2, <1>3 DEF CommandInv, Done
  <1>8. RequestInv'
    BY <1>1, <1>2 DEF RequestInv, NoneQueued, Done
  <1>9. CountInv' /\ AccessInv'
    BY <1>1, <1>2, <1>3, <1>4 DEF CountInv, AccessInv, IgnoredEvent
  <1>10. QED
    BY <1>5, <1>6, <1>7, <1>8, <1>9 DEF StoreInv

\* A failed command is told to the application and never tried again.
LEMMA CmdErrorStep ==
  ASSUME StoreInv, SysEvent, flash_access, CmdError, Remember
  PROVE  StoreInv'
  <1>1. /\ evt = "error" /\ evt' = "none" /\ swap = "init" /\ flash_access' = FALSE
        /\ status' = "timeout"
        /\ UNCHANGED <<op, main, initialized, swap, rp, count, cmd, flash, written, data, cal,
                       step, tmp>>
    BY DEF SysEvent, CmdError, queueVars, calVars
  <1>2. StoreType /\ BlockInv /\ CommandInv /\ RequestInv /\ CountInv /\ AccessInv
    BY DEF StoreInv
  <1>3. main \in Handed /\ op = "none"
    BY <1>1, <1>2 DEF CommandInv, StoreType
  <1>4. main \notin {"boot", "fault", "halted", "init_flags", "flash_access"} /\ main' # "boot"
    BY <1>1, <1>2, <1>3 DEF Handed, RequestInv
  <1>5. early' \in BOOLEAN /\ (~early' => ~early)
    BY <1>4, EarlyStays
  <1>6. StoreType'
    BY <1>1, <1>2, <1>5 DEF StoreType
  <1>7. BlockInv'
    BY <1>1, <1>2 DEF BlockInv, Partly
  <1>8. CommandInv'
    BY <1>1, <1>3, <1>4 DEF CommandInv, OpCodes
  <1>9. RequestInv'
    BY <1>1, <1>2 DEF RequestInv, NoneQueued
  <1>10. CountInv'
    BY <1>1, <1>2, <1>5 DEF CountInv
  <1>11. AccessInv'
    BY <1>1, <1>3, <1>4 DEF AccessInv
  <1>12. QED
    BY <1>6, <1>7, <1>8, <1>9, <1>10, <1>11 DEF StoreInv

\* A success frees the one command: there is nothing to start, and without an early
\* event nothing is counted either.
LEMMA CmdSuccessStep ==
  ASSUME StoreInv, SysEvent, flash_access, CmdSuccess, Remember
  PROVE  StoreInv'
  <1> DEFINE freed == [cmd EXCEPT ![rp] = "none"]
  <1>1. /\ evt = "success" /\ evt' = "none" /\ swap = "init"
        /\ cmd' = freed /\ rp' = NextRp /\ count' = Left
        /\ Dequeue(freed, NextRp, Left, "success")
        /\ UNCHANGED <<initialized, swap, flash, written, data, cal, step, tmp>>
    BY DEF SysEvent, CmdSuccess, calVars
  <1>2. StoreType /\ BlockInv /\ CommandInv /\ RequestInv /\ CountInv /\ AccessInv
    BY DEF StoreInv
  <1>3. main \in Handed /\ op = "none" /\ cmd[rp] = step /\ Done
    BY <1>1, <1>2 DEF CommandInv, StoreType
  <1>4. main \in {"count_read", "count_write", "wait"}
    BY <1>2, <1>3 DEF Handed, RequestInv
  <1>5. /\ rp \in Indices /\ count \in 0 .. 255 /\ tmp \in 0 .. 255
        /\ cmd \in [Indices -> {"none"} \union OpCodes] /\ step \in OpCodes
    BY <1>2 DEF StoreType
  <1>6. NextRp \in Indices /\ Left \in 0 .. 255 /\ (count = 1 => Left = 0)
    BY <1>5, IndexFacts
  <1>7. NoneQueued'
    <2>1. main \in Writing /\ cmd[rp] # "none"
      BY <1>3, <1>5 DEF Writing, OpCodes
    <2>2. \A i \in Indices : cmd[i] # "none" => i = rp
      BY <1>2, <1>5, <2>1 DEF RequestInv
    <2>3. \A i \in Indices : cmd'[i] = "none"
      BY <1>1, <1>5, <2>2
    <2>4. QED
      BY <2>3 DEF NoneQueued
  <1>8. /\ flash_access' = FALSE /\ status' = "success" /\ op' = op
        /\ main' = main \/ (main' = "fault" /\ Left # 0)
    <2>1. freed[NextRp] = "none"
      BY <1>1, <1>6, <1>7 DEF NoneQueued
    <2>2. QED
      BY <1>1, <2>1 DEF Dequeue, WildCall
  <1>9. main' # "boot" /\ main' \in Places
    BY <1>4, <1>8 DEF Places, Writing, Handed
  <1>10. early' \in BOOLEAN /\ (~early' => ~early /\ ~MeetsRequest)
    BY <1>9, EarlyStays
  <1>11. StoreType'
    <2>1. cmd' \in [Indices -> {"none"} \union OpCodes]
      BY <1>1, <1>5
    <2>2. QED
      BY <1>1, <1>2, <1>6, <1>8, <1>9, <1>10, <2>1 DEF StoreType
  <1>12. BlockInv'
    BY <1>1, <1>2, <1>8 DEF BlockInv, Partly
  <1>13. CommandInv'
    BY <1>1, <1>3, <1>8 DEF CommandInv, OpCodes
  <1>14. RequestInv'
    <2>1. \A i \in Indices : cmd'[i] = "none"
      BY <1>7 DEF NoneQueued
    <2>2. Done'
      BY <1>1, <1>3 DEF Done
    <2>3. main' \notin {"enqueue", "cmd_process", "flash_access"}
      BY <1>4, <1>8
    <2>4. QED
      BY <1>1, <1>3, <1>7, <1>8, <2>1, <2>2, <2>3 DEF RequestInv
  <1>15. CountInv' /\ AccessInv'
    <2>1. ASSUME ~early' PROVE main = "wait" /\ count = 1
      <3>1. main = "wait"
        BY <1>1, <1>4, <1>10, <2>1 DEF MeetsRequest, Window
      <3>2. QED
        BY <1>2, <1>3, <1>5, <1>10, <2>1, <3>1 DEF CountInv, OpCodes, Uncounted
    <2>2. ASSUME ~early' PROVE main' = "wait" /\ count' = 0
      BY <1>1, <1>6, <1>8, <2>1, <2>2
    <2>3. cmd'[rp'] = "none" /\ \A i \in Indices : cmd'[i] = "none"
      BY <1>1, <1>6, <1>7 DEF NoneQueued
    <2>4. CountInv'
      BY <2>2, <2>3 DEF CountInv, Uncounted
    <2>5. AccessInv'
      BY <1>1, <1>3, <1>8, <1>9, <2>2 DEF AccessInv
    <2>6. QED
      BY <2>4, <2>5
  <1>16. QED
    BY <1>11, <1>12, <1>13, <1>14, <1>15 DEF StoreInv

\* The answer to a flash command that the SoftDevice takes.
LEMMA SdFlashFacts ==
  ASSUME NEW res \in SdFlashResults
  PROVE  res \in {"success", "internal", "busy"} /\ (res = "success" => op = "none")
  BY DEF SdFlashResults

\* The event of the swap page starts the first clear, if the thread has asked for it.
LEMMA SwapEventStep ==
  ASSUME StoreInv, SysEvent, flash_access, SwapEvent, Remember
  PROVE  StoreInv'
  <1>1. /\ evt # "none" /\ evt' = "none" /\ swap = "dirty" /\ flash_access
        /\ Dequeue(cmd, rp, count, status)
        /\ UNCHANGED <<rp, count, cmd, flash, written, data, cal, step, tmp>>
    BY DEF SysEvent, SwapEvent, queueVars, calVars
  <1>2. StoreType /\ BlockInv /\ CommandInv /\ RequestInv /\ CountInv /\ AccessInv
    BY DEF StoreInv
  <1>3. op = "none" /\ main \notin {"boot", "fault", "halted"}
    BY <1>1, <1>2 DEF CommandInv, SysEvent, Running
  <1>4. swap' \in {"init", "dirty"} /\ initialized' \in BOOLEAN
    BY <1>1, <1>2 DEF SwapEvent, StoreType
  <1>5. rp \in Indices /\ step \in OpCodes /\ cmd \in [Indices -> {"none"} \union OpCodes]
    BY <1>2 DEF StoreType
  <1>6. ASSUME main \in Writing PROVE step = "clear" /\ status # "success"
    BY <1>1, <1>2, <1>5, <1>6 DEF RequestInv, OpCodes
  <1>7. ASSUME cmd[rp] # "none"
        PROVE  /\ main \in {"count_read", "count_write", "wait"} /\ main \in Writing
               /\ cmd[rp] = "clear" /\ cmd[rp] = step
    <2>1. main \in (Writing \ {"enqueue"}) \union {"fault"}
      BY <1>2, <1>5, <1>7 DEF RequestInv, NoneQueued
    <2>2. main \in Writing /\ main \in {"count_read", "count_write", "wait"}
      BY <1>1, <1>2, <1>3, <2>1 DEF RequestInv, Writing, Handed
    <2>3. cmd[rp] = step
      BY <1>2, <1>5, <1>7, <2>2 DEF RequestInv
    <2>4. QED
      BY <1>6, <2>2, <2>3
  <1>8. ASSUME ~early, main \notin Window PROVE count = IF cmd[rp] = "none" THEN 0 ELSE 1
    BY <1>2, <1>8 DEF CountInv, Uncounted, Window
  <1>9. \/ /\ op' = "none" /\ flash_access' = FALSE /\ status' = status
           /\ main' = main \/ (main' = "fault" /\ count # 0 /\ cmd[rp] = "none")
        \/ /\ cmd[rp] # "none" /\ op' = "none" /\ flash_access' = FALSE
           /\ status' \in {"internal", "busy"} /\ main' = main
        \/ /\ cmd[rp] # "none" /\ op' = cmd[rp] /\ flash_access' = TRUE /\ status' = status
           /\ main' = main
    <2>1. CASE count = 0 \/ cmd[rp] = "none"
      BY <1>1, <1>3, <2>1 DEF Dequeue, WildCall
    <2>2. CASE count # 0 /\ cmd[rp] # "none"
      <3>1. PICK res \in SdFlashResults :
              /\ main' = main
              /\ IF res = "success"
                 THEN op' = cmd[rp] /\ flash_access' = TRUE /\ status' = status
                 ELSE op' = op /\ flash_access' = FALSE /\ status' = res
        BY <1>1, <2>2 DEF Dequeue
      <3>2. res \in {"success", "internal", "busy"}
        BY SdFlashFacts
      <3>3. QED
        BY <1>3, <2>2, <3>1, <3>2
    <2>3. QED
      BY <2>1, <2>2
  <1>10. main' \in {main, "fault"} /\ main' # "boot" /\ main' \in Places
    BY <1>2, <1>3, <1>9 DEF StoreType, Places
  <1>11. early' \in BOOLEAN /\ (~early' => ~early /\ main \notin Window)
    BY <1>1, <1>10, EarlyStays DEF MeetsRequest
  <1>12. ~early' => main' = main
    BY <1>8, <1>9, <1>11
  <1>13. StoreType'
    <2>1. op' \in {"none"} \union OpCodes /\ flash_access' \in BOOLEAN
      BY <1>5, <1>9
    <2>2. QED
      BY <1>1, <1>2, <1>4, <1>10, <1>11, <2>1 DEF StoreType
  <1>14. BlockInv'
    <2>1. op' # "store" /\ written = 0
      BY <1>2, <1>3, <1>7, <1>9 DEF BlockInv
    <2>2. QED
      BY <1>1, <1>2, <2>1 DEF BlockInv
  <1>15. CommandInv'
    <2>1. op' \in OpCodes =>
            main' \in Handed /\ cmd'[rp'] = op' /\ op' = step' /\ status' # "success"
      BY <1>1, <1>6, <1>7, <1>9 DEF OpCodes, Handed
    <2>2. op' # "erase_swap" /\ (main' \in {"boot", "fault"} => op' = "none")
      BY <1>3, <1>7, <1>9
    <2>3. QED
      BY <1>1, <2>1, <2>2 DEF CommandInv
  <1>16. RequestInv'
    <2>1. main' \notin (Writing \ {"enqueue"}) \union {"fault"} => NoneQueued'
      BY <1>1, <1>2, <1>10 DEF RequestInv, NoneQueued
    <2>2. main' \notin {"cmd_process", "flash_access"}
      BY <1>1, <1>2, <1>10 DEF RequestInv
    <2>3. ASSUME main' \in Writing
          PROVE  main' = main /\ main \in Writing /\ status' # "success" /\ step' = "clear"
      <3>1. main' = main
        BY <1>10, <2>3 DEF Writing, Handed
      <3>2. QED
        BY <1>1, <1>6, <1>9, <2>3, <3>1
    <2>4. QED
      BY <1>1, <1>2, <2>1, <2>2, <2>3 DEF RequestInv
  <1>17. CountInv'
    BY <1>1, <1>2, <1>11, <1>12 DEF CountInv
  <1>18. AccessInv'
    <2>1. flash_access' <=> op' # "none"
      BY <1>3, <1>7, <1>9
    <2>2. main' \notin {"init_flags", "flash_access"} \/ early'
      BY <1>11, <1>12 DEF Window
    <2>3. QED
      BY <1>1, <1>10, <2>1, <2>2 DEF AccessInv
  <1>19. QED
    BY <1>13, <1>14, <1>15, <1>16, <1>17, <1>18 DEF StoreInv

LEMMA SysEventStep ==
  ASSUME StoreInv, SysEvent, Remember
  PROVE  StoreInv'
  BY IgnoredEventStep, SwapEventStep, CmdSuccessStep, CmdErrorStep DEF SysEvent

-------------------------------------------------------------------------------
(* The thread.                                                             *)

LEMMA BootStep ==
  ASSUME StoreInv, Boot, Remember
  PROVE  StoreInv'
  <1>1. StoreType /\ BlockInv /\ CommandInv /\ RequestInv /\ CountInv /\ AccessInv
    BY DEF StoreInv
  <1>2. CASE PstorageInit
    <2>1. /\ main = "boot" /\ written = 0 /\ swap' = "dirty"
          /\ UNCHANGED <<flash, written, evt, initialized, flash_access, rp, count, cmd, status,
                         data, cal, step, tmp>>
      BY <1>2 DEF PstorageInit, Thread, CpuFree, queueVars, calVars
    <2>2. op = "none" /\ evt = "none" /\ NoneQueued
      BY <1>1, <2>1 DEF CommandInv, RequestInv, Writing, Handed
    <2>3. \/ op' = "erase_swap" /\ main' = "init_flags"
          \/ op' = "none" /\ main' = "halted"
      BY <1>2, <2>2 DEF PstorageInit
    <2>4. early' \in BOOLEAN /\ (~early' => ~early)
      BY <2>3, EarlyStays
    <2>5. StoreType'
      BY <1>1, <2>1, <2>3, <2>4 DEF StoreType, Places
    <2>6. BlockInv'
      BY <1>1, <2>1, <2>3 DEF BlockInv
    <2>7. CommandInv'
      BY <2>1, <2>2, <2>3 DEF CommandInv, OpCodes
    <2>8. RequestInv'
      BY <2>1, <2>2, <2>3 DEF RequestInv, NoneQueued, Writing, Handed
    <2>9. CountInv'
      BY <1>1, <2>1, <2>2, <2>3, <2>4 DEF CountInv, Uncounted
    <2>10. AccessInv'
      BY <1>1, <2>1, <2>2, <2>3, <2>4 DEF AccessInv
    <2>11. QED
      BY <2>5, <2>6, <2>7, <2>8, <2>9, <2>10 DEF StoreInv
  <1>3. CASE PstorageInitFlags
    <2>1. /\ main = "init_flags" /\ main' = "register" /\ flash_access' = TRUE
          /\ initialized' = TRUE
          /\ UNCHANGED <<flash, op, written, evt, swap, rp, count, cmd, status, data, cal, step,
                         tmp>>
      BY <1>3 DEF PstorageInitFlags, Thread, sdVars, queueVars, calVars
    <2>2. NoneQueued
      BY <1>1, <2>1 DEF RequestInv, Writing, Handed
    <2>3. early' \in BOOLEAN /\ (~early' => ~early)
      BY <2>1, EarlyStays
    <2>4. StoreType'
      BY <1>1, <2>1, <2>3 DEF StoreType, Places
    <2>5. BlockInv'
      BY <1>1, <2>1 DEF BlockInv, Partly
    <2>6. CommandInv'
      BY <1>1, <2>1 DEF CommandInv, Handed
    <2>7. RequestInv'
      BY <2>1, <2>2 DEF RequestInv, NoneQueued, Writing, Handed
    <2>8. CountInv' /\ AccessInv'
      BY <1>1, <2>1, <2>3 DEF CountInv, AccessInv, Uncounted
    <2>9. QED
      BY <2>4, <2>5, <2>6, <2>7, <2>8 DEF StoreInv
  <1>4. CASE PstorageRegister \/ ImuLoadCalibrationData
    <2>1. /\ main \in {"register", "load"} /\ main' \in {"load", "dialog", "halted"}
          /\ UNCHANGED <<flash, op, written, evt, initialized, swap, flash_access, rp, count,
                         cmd, status, data, step, tmp>>
      BY <1>4 DEF PstorageRegister, ImuLoadCalibrationData, Thread, sdVars, pstorageVars,
                  queueVars, calVars
    <2>2. cal' \in Cal
      <3>1. cal \in Cal
        BY <1>1 DEF StoreType
      <3>2. QED
        BY <1>1, <1>4, <3>1, ContentOfBlock DEF PstorageRegister, ImuLoadCalibrationData, calVars
    <2>3. NoneQueued
      BY <1>1, <2>1 DEF RequestInv, Writing, Handed
    <2>4. early' \in BOOLEAN /\ (~early' => ~early)
      BY <2>1, EarlyStays
    <2>5. StoreType'
      BY <1>1, <2>1, <2>2, <2>4 DEF StoreType, Places
    <2>6. BlockInv'
      BY <1>1, <2>1 DEF BlockInv, Partly
    <2>7. CommandInv'
      BY <1>1, <2>1 DEF CommandInv, Handed
    <2>8. RequestInv'
      BY <2>1, <2>3 DEF RequestInv, NoneQueued, Writing, Handed
    <2>9. CountInv'
      BY <1>1, <2>1, <2>4 DEF CountInv, Uncounted
    <2>10. AccessInv'
      BY <1>1, <2>1, <2>4 DEF AccessInv
    <2>11. QED
      BY <2>5, <2>6, <2>7, <2>8, <2>9, <2>10 DEF StoreInv
  <1>5. QED
    BY <1>2, <1>3, <1>4 DEF Boot

LEMMA DialogStep ==
  ASSUME StoreInv, Dialog, Remember
  PROVE  StoreInv'
  <1>1. StoreType /\ BlockInv /\ CommandInv /\ RequestInv /\ CountInv /\ AccessInv
    BY DEF StoreInv
  <1>2. /\ main = "dialog" /\ main' \in {"dialog", "quit", "enqueue"}
        /\ UNCHANGED <<flash, op, written, evt, initialized, swap, flash_access, rp, count, cmd,
                       tmp>>
    BY DEF Dialog, Recalibrate, Quit, CalibrationStoreWrite, Thread, sdVars, pstorageVars,
           queueVars, calVars, ctxVars
  <1>3. /\ main' # "enqueue" => UNCHANGED <<status, data, step>>
        /\ main' = "enqueue" => data' = cal /\ status' = "pending" /\ step' = "clear"
    BY <1>2 DEF Dialog, Recalibrate, Quit, CalibrationStoreWrite, Thread, calVars, ctxVars
  <1>4. cal' \in Cal /\ data' \in Cal /\ step' \in OpCodes
    <2>1. cal \in Cal /\ data \in Cal /\ step \in OpCodes
      BY <1>1 DEF StoreType
    <2>2. cal' \in Cal
      BY <2>1 DEF Dialog, Recalibrate, Quit, CalibrationStoreWrite, calVars
    <2>3. QED
      BY <1>2, <1>3, <2>1, <2>2 DEF OpCodes
  <1>5. NoneQueued /\ op \notin OpCodes /\ (evt # "none" => swap # "init")
    BY <1>1, <1>2 DEF RequestInv, CommandInv, Writing, Handed
  <1>6. early' \in BOOLEAN /\ (~early' => ~early)
    BY <1>2, EarlyStays
  <1>7. StoreType'
    BY <1>1, <1>2, <1>4, <1>6 DEF StoreType, Places, Writing
  <1>8. BlockInv'
    BY <1>1, <1>2, <1>5 DEF BlockInv, OpCodes
  <1>9. CommandInv'
    BY <1>1, <1>2, <1>5 DEF CommandInv
  <1>10. RequestInv'
    <2>1. \A i \in Indices : cmd'[i] = "none"
      BY <1>2, <1>5 DEF NoneQueued
    <2>2. main' \in Writing => main' = "enqueue"
      BY <1>2 DEF Writing, Handed
    <2>3. QED
      BY <1>2, <1>3, <2>1, <2>2 DEF RequestInv, NoneQueued
  <1>11. CountInv'
    BY <1>1, <1>2, <1>6 DEF CountInv, Uncounted
  <1>12. AccessInv'
    BY <1>1, <1>2, <1>6 DEF AccessInv
  <1>13. QED
    BY <1>7, <1>8, <1>9, <1>10, <1>11, <1>12 DEF StoreInv

\* A command is put at the end of the queue, which was empty.
LEMMA EnqueueStep ==
  ASSUME StoreInv, Enqueue, Remember
  PROVE  StoreInv'
  <1> DEFINE at == (rp + count) % QueueSize
  <1>1. /\ main = "enqueue" /\ cmd' = [cmd EXCEPT ![at] = step]
        /\ main' = IF flash_access THEN "count_read" ELSE "cmd_process"
        /\ UNCHANGED <<flash, op, written, evt, initialized, swap, flash_access, rp, count,
                       status, data, cal, step, tmp>>
    BY DEF Enqueue, Thread, sdVars, calVars
  <1>2. StoreType /\ BlockInv /\ CommandInv /\ RequestInv /\ CountInv /\ AccessInv
    BY DEF StoreInv
  <1>3. NoneQueued /\ op \notin OpCodes /\ (evt # "none" => swap # "init")
    BY <1>1, <1>2 DEF RequestInv, CommandInv, Writing, Handed
  <1>4. /\ rp \in Indices /\ count \in 0 .. 255 /\ tmp \in 0 .. 255 /\ step \in OpCodes
        /\ cmd \in [Indices -> {"none"} \union OpCodes]
    BY <1>2 DEF StoreType
  <1>5. at \in Indices /\ (count = 0 => at = rp)
    BY <1>4, IndexFacts
  <1>6. \A i \in Indices : cmd'[i] = IF i = at THEN step ELSE "none"
    BY <1>1, <1>3, <1>4 DEF NoneQueued
  <1>7. main' \in {"count_read", "cmd_process"} /\ (main' = "cmd_process" => ~flash_access)
    BY <1>1
  <1>8. early' \in BOOLEAN /\ (~early' => ~early)
    BY <1>7, EarlyStays
  <1>9. StoreType'
    <2>1. cmd' \in [Indices -> {"none"} \union OpCodes]
      BY <1>1, <1>4, <1>5
    <2>2. main' \in Places
      BY <1>7 DEF Places, Writing, Handed
    <2>3. QED
      BY <1>1, <1>2, <1>8, <2>1, <2>2 DEF StoreType
  <1>10. BlockInv'
    BY <1>1, <1>2 DEF BlockInv, Partly
  <1>11. CommandInv'
    BY <1>1, <1>2, <1>3, <1>7 DEF CommandInv
  <1>12. RequestInv'
    <2>1. main \in Writing /\ main' \in Writing
      BY <1>1, <1>7 DEF Writing, Handed
    <2>2. QED
      BY <1>1, <1>2, <1>6, <1>7, <2>1 DEF RequestInv
  <1>13. CountInv'
    <2>1. ~early => count = 0
      BY <1>1, <1>2, <1>3, <1>4 DEF CountInv, Uncounted, NoneQueued
    <2>2. ~early => cmd'[rp] # "none" /\ \A i \in Indices : cmd'[i] # "none" => i = rp
      BY <1>4, <1>5, <1>6, <2>1 DEF OpCodes
    <2>3. QED
      BY <1>1, <1>7, <1>8, <2>1, <2>2 DEF CountInv, Uncounted
  <1>14. AccessInv'
    BY <1>1, <1>2, <1>7, <1>8 DEF AccessInv
  <1>15. QED
    BY <1>9, <1>10, <1>11, <1>12, <1>13, <1>14 DEF StoreInv

\* The SoftDevice takes the command, or the thread goes on as if it had.
LEMMA CmdProcessStep ==
  ASSUME StoreInv, CmdProcess, Remember
  PROVE  StoreInv'
  <1>1. /\ main = "cmd_process" /\ written = 0
        /\ UNCHANGED <<flash, written, evt, initialized, swap, flash_access, rp, count, cmd,
                       status, data, cal, step, tmp>>
    BY DEF CmdProcess, Thread, CpuFree, pstorageVars, queueVars, calVars
  <1>2. StoreType /\ BlockInv /\ CommandInv /\ RequestInv /\ CountInv /\ AccessInv
    BY DEF StoreInv
  <1>3. main \in Writing /\ ~flash_access /\ op = "none" /\ evt = "none" /\ status # "success"
    BY <1>1, <1>2 DEF RequestInv, AccessInv, Writing
  <1>4. \/ main' = "count_read" /\ op' = op
        \/ main' = "flash_access" /\ cmd[rp] # "none" /\ op' = cmd[rp]
    BY DEF CmdProcess
  <1>5. rp \in Indices /\ step \in OpCodes /\ data \in Cal /\ cmd[rp] \in {"none", step}
    BY <1>2, <1>3 DEF StoreType, RequestInv
  <1>6. early' \in BOOLEAN /\ (~early' => ~early)
    BY <1>4, EarlyStays
  <1>7. main' \in Writing /\ main' \in Handed /\ op' \in {"none", step}
    BY <1>3, <1>4, <1>5 DEF Writing, Handed
  <1>8. StoreType'
    BY <1>1, <1>2, <1>6, <1>7 DEF StoreType, Places
  <1>9. BlockInv'
    <2>1. op' = "store" => step = "store"
      BY <1>7
    <2>2. op' = "store" => flash = Partly(0)
      BY <1>1, <1>2, <1>3, <1>5, <2>1, PartlyFacts DEF RequestInv
    <2>3. QED
      BY <1>1, <1>2, <2>2 DEF BlockInv, Partly
  <1>10. CommandInv'
    BY <1>1, <1>3, <1>4, <1>5, <1>7 DEF CommandInv, OpCodes
  <1>11. RequestInv'
    BY <1>1, <1>2, <1>3, <1>4, <1>7 DEF RequestInv
  <1>12. CountInv' /\ AccessInv'
    BY <1>1, <1>2, <1>3, <1>4, <1>6 DEF CountInv, AccessInv, Uncounted
  <1>13. QED
    BY <1>8, <1>9, <1>10, <1>11, <1>12 DEF StoreInv

\* The request is refused, or its last steps are made: nothing of the queue and of the
\* SoftDevice changes but the flag and the count.
LEMMA RequestStep ==
  ASSUME StoreInv, EnqueueRefused \/ SetFlashAccess \/ CountRead \/ CountWrite, Remember
  PROVE  StoreInv'
  <1>1. UNCHANGED <<flash, op, written, evt, initialized, swap, rp, cmd, status, data, cal, step>>
    BY DEF EnqueueRefused, SetFlashAccess, CountRead, CountWrite, sdVars, pstorageVars,
           queueVars, calVars
  <1>2. \/ main = "enqueue" /\ main' = "wait" /\ UNCHANGED <<flash_access, count, tmp>>
        \/ /\ main = "flash_access" /\ main' = "count_read" /\ flash_access' = TRUE
           /\ UNCHANGED <<count, tmp>>
        \/ /\ main = "count_read" /\ main' = "count_write" /\ tmp' = count
           /\ UNCHANGED <<flash_access, count>>
        \/ /\ main = "count_write" /\ main' = "wait" /\ count' = (tmp + 1) % 256
           /\ UNCHANGED <<flash_access, tmp>>
    BY DEF EnqueueRefused, SetFlashAccess, CountRead, CountWrite, Thread, pstorageVars,
           queueVars
  <1>3. StoreType /\ BlockInv /\ CommandInv /\ RequestInv /\ CountInv /\ AccessInv
    BY DEF StoreInv
  <1>4. rp \in Indices /\ count \in 0 .. 255 /\ tmp \in 0 .. 255 /\ flash_access \in BOOLEAN
    BY <1>3 DEF StoreType
  <1>5. (tmp + 1) % 256 \in 0 .. 255 /\ (tmp = 0 => (tmp + 1) % 256 = 1)
    BY <1>4, IndexFacts
  <1>6. main \in Writing /\ main' \in Writing /\ main' \in Handed
    BY <1>2 DEF Writing, Handed
  <1>7. early' \in BOOLEAN /\ (~early' => ~early)
    BY <1>2, EarlyStays
  <1>8. StoreType'
    <2>1. count' \in 0 .. 255 /\ tmp' \in 0 .. 255
      BY <1>2, <1>4, <1>5
    <2>2. flash_access' \in BOOLEAN
      BY <1>2, <1>4
    <2>3. QED
      BY <1>1, <1>3, <1>6, <1>7, <2>1, <2>2 DEF StoreType, Places
  <1>9. BlockInv'
    BY <1>1, <1>3 DEF BlockInv, Partly
  <1>10. CommandInv'
    <2>1. main' \notin {"boot", "fault"}
      BY <1>2
    <2>2. main = "enqueue" \/ main \in Handed
      BY <1>2 DEF Handed
    <2>3. QED
      BY <1>1, <1>3, <1>6, <2>1, <2>2 DEF CommandInv, Done
  <1>11. RequestInv'
    BY <1>1, <1>2, <1>3, <1>6 DEF RequestInv, NoneQueued, Done
  <1>12. CountInv'
    <2>1. main = "enqueue" => NoneQueued
      BY <1>3 DEF RequestInv
    <2>2. main = "enqueue" => cmd[rp] = "none"
      BY <1>4, <2>1 DEF NoneQueued
    <2>3. QED
      BY <1>1, <1>2, <1>3, <1>5, <1>7, <2>2 DEF CountInv, Uncounted
  <1>13. AccessInv'
    BY <1>1, <1>2, <1>3, <1>7 DEF AccessInv
  <1>14. QED
    BY <1>8, <1>9, <1>10, <1>11, <1>12, <1>13 DEF StoreInv

\* A command has succeeded: the block is as it asked, and nothing is under way.
LEMMA WaitFacts ==
  ASSUME StoreInv, WaitClear \/ WaitStore
  PROVE  /\ main = "wait" /\ status = "success" /\ NoneQueued /\ Done
         /\ op = "none" /\ evt = "none" /\ swap = "init" /\ written = 0
  <1>1. main = "wait" /\ status = "success" /\ written = 0
    BY DEF WaitClear, WaitStore, Thread, CpuFree
  <1>2. QED
    BY <1>1 DEF StoreInv, RequestInv, Writing, Handed

LEMMA WaitStep ==
  ASSUME StoreInv, WaitClear \/ WaitStore, Remember
  PROVE  StoreInv'
  <1>1. /\ \/ step = "clear" /\ main' = "enqueue" /\ status' = "pending" /\ step' = "store"
           \/ step = "store" /\ main' = "dialog" /\ UNCHANGED <<status, step>>
        /\ UNCHANGED <<flash, op, written, evt, initialized, swap, flash_access, rp, count, cmd,
                       data, cal, tmp>>
    BY DEF WaitClear, WaitStore, sdVars, pstorageVars, queueVars, calVars
  <1>2. StoreType /\ BlockInv /\ CommandInv /\ RequestInv /\ CountInv /\ AccessInv
    BY DEF StoreInv
  <1>3. /\ main = "wait" /\ NoneQueued /\ Done
        /\ op = "none" /\ evt = "none" /\ swap = "init" /\ written = 0
    BY WaitFacts
  <1>4. early' \in BOOLEAN /\ (~early' => ~early)
    BY <1>1, EarlyStays
  <1>5. StoreType'
    BY <1>1, <1>2, <1>4 DEF StoreType, Places, Writing, OpCodes
  <1>6. BlockInv'
    BY <1>1, <1>2, <1>3 DEF BlockInv
  <1>7. CommandInv'
    BY <1>1, <1>3 DEF CommandInv, OpCodes
  <1>8. RequestInv'
    <2>1. \A i \in Indices : cmd'[i] = "none"
      BY <1>1, <1>3 DEF NoneQueued
    <2>2. main' = "enqueue" => flash = Erased
      BY <1>1, <1>3 DEF Done
    <2>3. main' \in {"enqueue", "dialog"} /\ (main' \in Writing => main' = "enqueue")
      BY <1>1 DEF Writing, Handed
    <2>4. QED
      BY <1>1, <1>3, <2>1, <2>2, <2>3 DEF RequestInv, NoneQueued
  <1>9. CountInv' /\ AccessInv'
    BY <1>1, <1>2, <1>3, <1>4 DEF CountInv, AccessInv, Uncounted
  <1>10. QED
    BY <1>5, <1>6, <1>7, <1>8, <1>9 DEF StoreInv

\* Wherever the power fails, the block is left as BlockInv says.
LEMMA PowerLossStep ==
  ASSUME StoreInv, PowerLoss, Remember
  PROVE  StoreInv'
  <1>1. /\ op' = "none" /\ written' = 0 /\ evt' = "none" /\ flash' = flash
        /\ swap' = "init" /\ rp' = 0 /\ count' = 0
        /\ cmd' = [i \in Indices |-> "none"]
        /\ status' = "success" /\ data' = Factory /\ cal' = Factory
        /\ main' = "boot" /\ step' = "clear" /\ tmp' = 0
    BY DEF PowerLoss, RamReset, Indices
  <1>2. initialized' = FALSE /\ flash_access' = FALSE
    BY DEF PowerLoss, RamReset
  <1>3. early' = FALSE
    BY <1>1 DEF Remember
  <1>4. StoreType'
    <2>1. initialized' \in BOOLEAN /\ flash_access' \in BOOLEAN /\ early' \in BOOLEAN
      BY <1>2, <1>3, Zenon
    <2>2. cmd' \in [Indices -> {"none"} \union OpCodes]
      BY <1>1
    <2>3. QED
      BY <1>1, <2>1, <2>2, ConstantFacts DEF StoreType, OpCodes, Places
  <1>5. BlockInv'
    BY <1>1 DEF StoreInv, BlockInv
  <1>6. CommandInv'
    BY <1>1 DEF CommandInv, OpCodes
  <1>7. RequestInv'
    BY <1>1 DEF RequestInv, NoneQueued, Writing, Handed
  <1>8. CountInv'
    BY <1>1, ConstantFacts DEF CountInv, Uncounted
  <1>9. AccessInv'
    BY <1>1, <1>2, <1>3 DEF AccessInv
  <1>10. QED
    BY <1>4, <1>5, <1>6, <1>7, <1>8, <1>9 DEF StoreInv

LEMMA StoreStutter ==
  ASSUME StoreInv, UNCHANGED vars
  PROVE  StoreInv'
  <1>1. UNCHANGED <<flash, op, written, evt, initialized, swap, flash_access, rp, count, cmd,
                    status, data, cal, main, step, tmp, early>>
    BY DEF vars, stateVars, history, sdVars, pstorageVars, queueVars, calVars, ctxVars
  <1>2. StoreType' /\ CommandInv'
    BY <1>1 DEF StoreInv, StoreType, CommandInv, Done
  <1>3. BlockInv'
    BY <1>1 DEF StoreInv, BlockInv, Partly
  <1>4. RequestInv'
    BY <1>1 DEF StoreInv, RequestInv, NoneQueued, Done
  <1>5. CountInv' /\ AccessInv'
    BY <1>1 DEF StoreInv, CountInv, AccessInv
  <1>6. QED
    BY <1>2, <1>3, <1>4, <1>5 DEF StoreInv

LEMMA StoreNext == StoreInv /\ [Next]_vars => StoreInv'
  <1> SUFFICES ASSUME StoreInv, [Next]_vars PROVE StoreInv'
    OBVIOUS
  <1>1. ASSUME Flash, Remember PROVE StoreInv'
    BY <1>1, FlashEraseStep, FlashWordStep, FlashErrorStep DEF Flash
  <1>2. ASSUME Write, Remember PROVE StoreInv'
    BY <1>2, EnqueueStep, CmdProcessStep, RequestStep, WaitStep DEF Write
  <1>3. QED
    BY <1>1, <1>2, SysEventStep, BootStep, DialogStep, PowerLossStep, StoreStutter DEF Next

LEMMA StoreInvHolds == Spec => []StoreInv
  BY StoreInit, StoreNext, PTL DEF Spec

-------------------------------------------------------------------------------
(* What it says of the block and of the queue.                             *)

\* pstorage writes the block word by word, and calibration_store_load looks at the
\* first and the last word: for whatever length of the block, and wherever power
\* failed, a block it accepts is one whole calibration.
THEOREM BlockNeverGarbage == Spec => []BlockIsWholeOrRejected
  <1>1. StoreInv => BlockIsWholeOrRejected
    BY ContentOfBlock, ConstantFacts DEF StoreInv, BlockIsWholeOrRejected
  <1>2. QED
    BY <1>1, StoreInvHolds, PTL

\* cmd_queue_enqueue and the event handler keep m_cmd_queue.count the number of the
\* commands in the queue, of any size, as long as no event has met a request.
THEOREM CountsWhatIsQueued == Spec => []CountIsQueued
  <1>1. ASSUME StoreInv, ~early, main \notin Window PROVE count = Cardinality(InQueue)
    <2>1. /\ rp \in Indices /\ main \notin Uncounted
          /\ \A i \in Indices : cmd[i] # "none" => i = rp
          /\ count = IF cmd[rp] = "none" THEN 0 ELSE 1
      BY <1>1 DEF StoreInv, StoreType, CountInv, Uncounted, Window
    <2>2. CASE cmd[rp] = "none"
      <3>1. InQueue = {}
        BY <2>1, <2>2 DEF InQueue, Indices
      <3>2. QED
        BY <2>1, <2>2, <3>1, FS_EmptySet
    <2>3. CASE cmd[rp] # "none"
      <3>1. InQueue = {rp}
        BY <2>1, <2>3 DEF InQueue, Indices
      <3>2. QED
        BY <2>1, <2>3, <3>1, FS_Singleton
    <2>4. QED
      BY <2>2, <2>3
  <1>2. StoreInv => CountIsQueued
    BY <1>1 DEF CountIsQueued
  <1>3. QED
    BY <1>2, StoreInvHolds, PTL

\* pstorage sets and clears flash_access with every command and event, failures
\* included, as long as no event has met a request.
THEOREM FlagTracksCommand == Spec => []FlashAccessTracksCommand
  <1>1. StoreInv => FlashAccessTracksCommand
    BY DEF StoreInv, AccessInv, FlashAccessTracksCommand, Window, Running
  <1>2. QED
    BY <1>1, StoreInvHolds, PTL

-------------------------------------------------------------------------------
(* AtomicStore: where the thread is, and what each step of it is there.    *)

Down == {"boot", "init_flags", "register", "load", "halted", "fault"}

LEMMA ModeFacts ==
  /\ Mode = IF main \in Down THEN "down"
            ELSE IF main \in {"dialog", "quit"} THEN "idle" ELSE "writing"
  /\ Mode' = IF main' \in Down THEN "down"
             ELSE IF main' \in {"dialog", "quit"} THEN "idle" ELSE "writing"
  /\ main \in Writing => Mode = "writing"
  /\ main' \in Writing => Mode' = "writing"
  BY DEF Mode, Down, Writing, Handed

LEMMA ContentPrime == Content(flash)' = Content(flash')
  BY DEF Content, LoadAccepts, Image

\* A step that leaves the block alone, and the data of a write, only moves the thread.
LEMMA MoveStep ==
  ASSUME UNCHANGED flash, UNCHANGED data,
         \/ Mode' = Mode
         \/ Mode' = "down"
         \/ Mode = "down" /\ Mode' = "idle"
         \/ Mode = "writing" /\ Mode' = "idle" /\ Content(flash) = data
  PROVE  [Store!Next]_(Store!vars)
  <1>1. Content(flash)' = Content(flash)
    BY ContentPrime
  <1>2. CASE Mode' = Mode
    BY <1>1, <1>2 DEF Store!vars
  <1>3. CASE Mode' = "down"
    BY <1>1, <1>3 DEF Store!Next, Store!Fail
  <1>4. CASE Mode = "down" /\ Mode' = "idle"
    BY <1>1, <1>4 DEF Store!Next, Store!Start
  <1>5. CASE Mode = "writing" /\ Mode' = "idle" /\ Content(flash) = data
    BY <1>1, <1>5 DEF Store!Next, Store!Return
  <1>6. QED
    BY <1>2, <1>3, <1>4, <1>5

\* A clear forgets the old calibration ...
LEMMA EraseForgets ==
  ASSUME StoreInv, FlashErase
  PROVE  [Store!Next]_(Store!vars)
  <1>1. /\ op \in {"erase_swap", "clear"} /\ flash' = IF op = "clear" THEN Erased ELSE flash
        /\ UNCHANGED <<data, main>>
    BY DEF FlashErase, calVars, ctxVars
  <1>2. Mode' = Mode
    BY <1>1 DEF Mode
  <1>3. CASE op = "clear"
    <2>1. Mode = "writing"
      BY <1>3, ModeFacts DEF StoreInv, CommandInv, OpCodes, Writing
    <2>2. Content(flash)' = NoCal
      BY <1>1, <1>3, ContentPrime, ContentOfNone, ImageFacts
    <2>3. QED
      BY <1>1, <1>2, <2>1, <2>2 DEF Store!Next, Store!Forget
  <1>4. CASE op # "clear"
    BY <1>1, <1>2, <1>4, MoveStep
  <1>5. QED
    BY <1>3, <1>4

\* ... and the last word of a store keeps the new one.
LEMMA LastWordKeeps ==
  ASSUME StoreInv, FlashWord
  PROVE  [Store!Next]_(Store!vars)
  <1>1. /\ op = "store"
        /\ flash' = [flash EXCEPT ![written + 1] =
                       Program(flash[written + 1], Image(data)[written + 1])]
        /\ UNCHANGED <<data, main>>
    BY DEF FlashWord, calVars, ctxVars
  <1>2. Mode' = Mode /\ Mode = "writing"
    BY <1>1, ModeFacts DEF StoreInv, CommandInv, OpCodes, Writing, Mode
  <1>3. written \in 0 .. Words - 1 /\ data \in Cal
    BY DEF StoreInv, StoreType
  <1>4. flash = Partly(written) /\ flash' = Partly(written + 1)
    BY <1>1, <1>3, PartlyMore DEF StoreInv, BlockInv
  <1>5. Content(flash) = NoCal
    <2>1. Partly(written)[Words] = "erased"
      BY <1>3, ConstantFacts DEF Partly
    <2>2. QED
      BY <1>4, <2>1, ContentOfNone
  <1>6. CASE written + 1 = Words
    <2>1. Content(flash)' = data
      BY <1>3, <1>4, <1>6, PartlyFacts, ContentOfImage, ContentPrime
    <2>2. QED
      BY <1>1, <1>2, <1>5, <2>1 DEF Store!Next, Store!Keep
  <1>7. CASE written + 1 # Words
    <2>1. written + 1 < Words
      BY <1>3, <1>7, ConstantFacts
    <2>2. Content(flash)' = NoCal
      BY <1>3, <1>4, <2>1, PartlyMore, ContentOfNone, ContentPrime
    <2>3. QED
      BY <1>1, <1>2, <1>5, <2>2 DEF Store!vars
  <1>8. QED
    BY <1>6, <1>7

LEMMA StoreStepRefines == StoreInv /\ [Next]_vars => [Store!Next]_(Store!vars)
  <1> SUFFICES ASSUME StoreInv, [Next]_vars PROVE [Store!Next]_(Store!vars)
    OBVIOUS
  <1>1. CASE Flash
    <2>1. CASE FlashError
      BY <2>1, MoveStep DEF FlashError, calVars, ctxVars, Mode
    <2>2. QED
      BY <1>1, <2>1, EraseForgets, LastWordKeeps DEF Flash
  <1>2. CASE SysEvent
    <2>1. UNCHANGED <<flash, data>> /\ main' \in {main, "fault"}
      BY <1>2 DEF SysEvent, IgnoredEvent, SwapEvent, CmdSuccess, CmdError, Dequeue, WildCall, calVars
    <2>2. Mode' = Mode \/ Mode' = "down"
      BY <2>1, ModeFacts DEF Down
    <2>3. QED
      BY <2>1, <2>2, MoveStep
  <1>3. CASE Boot
    <2>1. /\ UNCHANGED <<flash, data>> /\ main \in Down
          /\ main' \in Down \/ main' = "dialog"
      BY <1>3 DEF Boot, PstorageInit, PstorageInitFlags, PstorageRegister,
                  ImuLoadCalibrationData, Thread, calVars, Down
    <2>2. QED
      BY <2>1, ModeFacts, MoveStep
  <1>4. CASE Recalibrate \/ Quit
    <2>1. UNCHANGED <<flash, data>> /\ Mode' = Mode
      BY <1>4 DEF Recalibrate, Quit, Thread, calVars, ctxVars, Mode
    <2>2. QED
      BY <2>1, MoveStep
  <1>5. CASE CalibrationStoreWrite
    <2>1. main = "dialog" /\ main' = "enqueue" /\ data' = cal /\ UNCHANGED flash
      BY <1>5 DEF CalibrationStoreWrite, Thread
    <2>2. Mode = "idle" /\ Mode' = "writing"
      BY <2>1 DEF Mode
    <2>3. cal \in Cal /\ Content(flash)' = Content(flash)
      BY <2>1, ContentPrime DEF StoreInv, StoreType
    <2>4. Store!Request(cal)
      BY <2>1, <2>2, <2>3 DEF Store!Request
    <2>5. QED
      BY <2>3, <2>4 DEF Store!Next
  <1>6. CASE EnqueueRefused \/ Enqueue \/ CmdProcess \/ SetFlashAccess \/ CountRead
             \/ CountWrite \/ WaitClear
    <2>1. UNCHANGED <<flash, data>> /\ main \in Writing /\ main' \in Writing
      BY <1>6 DEF EnqueueRefused, Enqueue, CmdProcess, SetFlashAccess, CountRead, CountWrite,
                  WaitClear, Thread, calVars, Writing, Handed
    <2>2. QED
      BY <2>1, ModeFacts, MoveStep
  <1>7. CASE WaitStore
    <2>1. UNCHANGED <<flash, data>> /\ step = "store" /\ main = "wait" /\ main' = "dialog"
      BY <1>7 DEF WaitStore, Thread, calVars
    <2>2. Content(flash) = data
      BY <1>7, <2>1, WaitFacts, ContentOfImage DEF Done, StoreInv, StoreType
    <2>3. QED
      BY <2>1, <2>2, MoveStep DEF Mode
  <1>8. CASE PowerLoss
    <2>1. UNCHANGED flash /\ main' = "boot"
      BY <1>8 DEF PowerLoss, RamReset
    <2>2. Mode' = "down" /\ Content(flash)' = Content(flash)
      BY <2>1, ContentPrime DEF Mode
    <2>3. QED
      BY <2>2 DEF Store!Next, Store!Fail
  <1>9. CASE UNCHANGED vars
    <2>1. UNCHANGED <<flash, data, main>>
      BY <1>9 DEF vars, stateVars, calVars, ctxVars
    <2>2. QED
      BY <2>1, MoveStep DEF Mode
  <1>10. QED
    BY <1>1, <1>2, <1>3, <1>4, <1>5, <1>6, <1>7, <1>8, <1>9 DEF Next, Dialog, Write

\* calibration_store_write and calibration_store_load keep AtomicStore's promises for
\* every calibration, length of a block and size of the queue, wherever power fails: what
\* a restart loads changes only while it is being written, and is the new calibration
\* once the write has returned.
THEOREM StoreIsAtomic == Spec => KeepsStore
  <1>1. Init => Store!Init
    <2>1. Init => Content(flash) = NoCal
      BY ContentOfNone, ImageFacts DEF Init
    <2>2. QED
      BY <2>1 DEF Init, Store!Init, Mode
  <1>2. QED
    BY <1>1, StoreInvHolds, StoreStepRefines, PTL DEF Spec, KeepsStore, Store!Spec
===============================================================================
