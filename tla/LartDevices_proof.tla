------------------------- MODULE LartDevices_proof -------------------------
(***************************************************************************)
(* The serial port for every divider, polling interval, number of          *)
(* characters and kind of terminal: what a guest hears is fresh, and one   *)
(* that looks in time loses nothing.  The flash: what is sent through the  *)
(* wiring of the board comes back as it was, and a probe finds the chip.   *)
(***************************************************************************)
EXTENDS LartDevices, TLAPS

\* The driver's history has its type; who types has a terminal.
DriverTyped ==
  /\ sees \in {"nothing", "receive", "transmit"}
  /\ heard \subseteq {Junk, NUL, Own} \cup 1..taken
  /\ pty # "open" => typed = 0

\* The register holds no character, as the terminal failed or none came yet.
NoInput == pty = "failed" \/ (uart_data = Junk /\ taken = 0)

\* It holds the guest's own character, which met the last one typed.
OwnInput == uart_data = Own /\ taken \in spoilt

\* It holds the character the last clock took.
Fresh == uart_data = taken /\ taken > 0 /\ age = 0

\* What the flag announces; a character the driver is about to overwrite is new;
\* one it is about to read may be a clock older, but then the next clock is not
\* due.
Announced == rne => NoInput \/ OwnInput \/ Fresh
AboutToSend ==
  sees = "transmit" /\ rne => pty = "failed" \/ (Fresh /\ taken \notin heard)
AboutToRead ==
  sees = "receive" =>
    \/ NoInput \/ OwnInput
    \/ uart_data = taken /\ age <= 1 /\ (age = 0 \/ serialclock >= 0)

FreshInv == TypeOK /\ DriverTyped /\ Announced /\ AboutToSend /\ AboutToRead

\* The last character taken has neither been read nor spoilt.
Unheard == taken > 0 /\ taken \notin heard \cup spoilt

\* It is the only one, and while it waits the register holds it, the flag says so
\* unless the driver has seen it, and there is time to look and to read.
OlderHeard == \A c \in 1..(taken - 1) : c \in heard \cup spoilt
TimeLeft ==
  Unheard =>
    /\ uart_data = taken
    /\ sees # "receive" => rne
    /\ serialclock >= 0
    /\ sees = "nothing" => serialclock >= PollEvery - since

LossInv == FreshInv /\ OlderHeard /\ TimeLeft

----------------------------------------------------------------------------
(* Turns of the loop *)

\* An instruction that has nothing to do with the serial port.
Elsewhere == sees = "nothing" /\ UNCHANGED <<serial, driver>>

\* What a turn may be.  Only a look at the status restarts the guest's count, and
\* it does not put it off when it has seen nothing.
LEMMA TurnCases ==
    ASSUME TypeOK, Guest
    PROVE  /\ serialclock >= 0 /\ serialclock' = serialclock - 1
           /\ UNCHANGED <<age, host>>
           /\ flashmode' \in {READ_ARRAY, READ_ID_CODES}
           /\ \/ ReadStatus
              \/ /\ since' = IF since < PollEvery - 1 THEN since + 1 ELSE since
                 /\ since < PollEvery - 1 \/ sees # "nothing"
                 /\ ReadData \/ Send \/ WriteStatus \/ Elsewhere
<1>1. /\ serialclock >= 0 /\ serialclock' = serialclock - 1
      /\ UNCHANGED <<age, host>>
  BY DEF Guest
<1>2. CASE ReadStatus
  BY <1>1, <1>2 DEF ReadStatus, flash, TypeOK
<1>3. CASE /\ since < PollEvery - 1 \/ sees # "nothing"
           /\ since' = IF since < PollEvery - 1 THEN since + 1 ELSE since
           /\ ReadData \/ Send \/ WriteStatus
  BY <1>1, <1>3 DEF ReadData, Send, WriteStatus, flash, TypeOK
<1>4. CASE /\ since < PollEvery - 1 \/ sees # "nothing"
           /\ since' = IF since < PollEvery - 1 THEN since + 1 ELSE since
           /\ sees = "nothing" /\ (WriteFlash \/ Probe \/ ReadFlashPart \/ OtherInsn)
  <2>1. UNCHANGED <<serial, driver>> /\ flashmode' \in {READ_ARRAY, READ_ID_CODES, flashmode}
    <3>1. CASE WriteFlash
      BY <3>1 DEF WriteFlash
    <3>2. CASE Probe
      BY <3>2 DEF Probe
    <3>3. CASE ReadFlashPart \/ OtherInsn
      BY <3>3 DEF ReadFlashPart, OtherInsn, flash
    <3> QED
      BY <1>4, <3>1, <3>2, <3>3
  <2>2. flashmode' \in {READ_ARRAY, READ_ID_CODES}
    BY <2>1 DEF TypeOK
  <2> QED
    BY <1>1, <1>4, <2>1, <2>2 DEF Elsewhere
<1> QED
  BY <1>2, <1>3, <1>4 DEF Guest

\* What a clock may be: a failed select counts as input, a character is taken, or
\* the flag is withdrawn.
LEMMA TickCases ==
    ASSUME Tick
    PROVE  /\ serialclock < 0 /\ serialclock' = Period
           /\ UNCHANGED <<pty, typed, since, driver, flash>>
           /\ tnf' = TRUE
           /\ \/ /\ pty = "failed"
                 /\ uart_data' = NUL /\ rne' = TRUE /\ taken' = taken /\ age' = 0
              \/ /\ typed > taken
                 /\ uart_data' = taken + 1 /\ rne' = TRUE /\ taken' = taken + 1 /\ age' = 0
              \/ /\ rne' = FALSE /\ uart_data' = uart_data /\ taken' = taken
                 /\ age' = IF age < 2 THEN age + 1 ELSE 2
BY DEF Tick, Due, Receive, Take

\* Types and the driver's history hold in the beginning.
LEMMA InitTyped == Init => TypeOK /\ DriverTyped
BY DevicesAssumption DEF Init, sa1100_serial_initialise, TypeOK, DriverTyped

\* A turn keeps them.
LEMMA TurnTyped ==
    ASSUME TypeOK, DriverTyped, Guest
    PROVE  TypeOK' /\ DriverTyped'
<1> USE DevicesAssumption
<1>1. /\ serialclock' \in -1..Period /\ flashmode' \in {READ_ARRAY, READ_ID_CODES}
      /\ UNCHANGED <<age, pty, typed, taken>>
  BY TurnCases DEF TypeOK, host
<1>2. since' \in 0..(PollEvery - 1)
  BY TurnCases DEF TypeOK, ReadStatus
<1>3. /\ uart_data' \in {Junk, NUL, Own} \cup 1..taken
      /\ rne' \in BOOLEAN /\ tnf' \in BOOLEAN
      /\ sees' \in {"nothing", "receive", "transmit"}
      /\ heard' \subseteq {Junk, NUL, Own} \cup 1..taken
  <2>1. CASE ReadStatus
    BY <2>1 DEF TypeOK, DriverTyped, ReadStatus, serial
  <2>2. CASE ReadData
    BY <2>2 DEF TypeOK, DriverTyped, ReadData, serial
  <2>3. CASE Send
    BY <2>3 DEF TypeOK, DriverTyped, Send
  <2>4. CASE WriteStatus
    <3>1. rne' \in BOOLEAN /\ tnf' \in BOOLEAN
      BY <2>4 DEF TypeOK, WriteStatus
    <3> QED
      BY <2>4, <3>1 DEF TypeOK, DriverTyped, WriteStatus
  <2>5. CASE Elsewhere
    BY <2>5 DEF TypeOK, DriverTyped, Elsewhere, serial, driver
  <2> QED
    BY TurnCases, <2>1, <2>2, <2>3, <2>4, <2>5
<1> QED
  BY <1>1, <1>2, <1>3 DEF TypeOK, DriverTyped

\* A clock keeps them.
LEMMA TickTyped ==
    ASSUME TypeOK, DriverTyped, Tick
    PROVE  TypeOK' /\ DriverTyped'
<1>1. /\ serialclock' = Period /\ UNCHANGED <<pty, typed, since, sees, heard, flashmode>>
      /\ tnf' = TRUE /\ rne' \in BOOLEAN
  BY TickCases DEF driver, flash
<1>2. /\ taken \in 0..typed /\ typed \in 0..MaxTyped /\ age \in 0..2
      /\ uart_data \in {Junk, NUL, Own} \cup 1..taken
      /\ heard \subseteq {Junk, NUL, Own} \cup 1..taken
  BY DEF TypeOK, DriverTyped
<1>3. /\ taken' \in 0..typed /\ age' \in 0..2 /\ taken' >= taken
      /\ uart_data' \in {Junk, NUL, Own} \cup 1..taken'
  <2>1. CASE /\ pty = "failed"
             /\ uart_data' = NUL /\ rne' = TRUE /\ taken' = taken /\ age' = 0
    BY <1>2, <2>1, DevicesAssumption
  <2>2. CASE /\ typed > taken
             /\ uart_data' = taken + 1 /\ rne' = TRUE /\ taken' = taken + 1 /\ age' = 0
    BY <1>2, <2>2, DevicesAssumption
  <2>3. CASE /\ rne' = FALSE /\ uart_data' = uart_data /\ taken' = taken
             /\ age' = IF age < 2 THEN age + 1 ELSE 2
    BY <1>2, <2>3, DevicesAssumption
  <2> QED
    BY TickCases, <2>1, <2>2, <2>3
<1>4. heard \subseteq {Junk, NUL, Own} \cup 1..taken'
  BY <1>2, <1>3, DevicesAssumption
<1> QED
  BY <1>1, <1>3, <1>4, DevicesAssumption DEF TypeOK, DriverTyped

\* So do the debugger and whoever types.
LEMMA OthersTyped ==
    ASSUME TypeOK, DriverTyped, Reenter \/ Type \/ UNCHANGED vars
    PROVE  TypeOK' /\ DriverTyped'
<1> USE DevicesAssumption DEF TypeOK, DriverTyped, host, serial, driver, flash
<1>1. CASE Reenter
  BY <1>1 DEF Reenter
<1>2. CASE Type
  BY <1>2 DEF Type
<1>3. CASE UNCHANGED vars
  BY <1>3 DEF vars
<1> QED
  BY <1>1, <1>2, <1>3

\* Every step keeps the types.
LEMMA StepTyped ==
    ASSUME TypeOK, DriverTyped, [Next]_vars
    PROVE  TypeOK' /\ DriverTyped'
BY TurnTyped, TickTyped, OthersTyped DEF Next

----------------------------------------------------------------------------
(* What is heard is fresh *)

Freshness == Announced /\ AboutToSend /\ AboutToRead

\* An instruction that leaves the register alone, or writes to it.
LEMMA TurnFresh ==
    ASSUME TypeOK, DriverTyped, Freshness, Guest
    PROVE  Freshness'
<1>1. UNCHANGED <<age, pty, taken>>
  BY TurnCases DEF host
<1>2. CASE ReadStatus
  <2>1. UNCHANGED <<uart_data, rne, heard, spoilt>>
    BY <1>2 DEF ReadStatus, serial
  <2>2. Announced'
    BY <1>1, <2>1 DEF Freshness, Announced, NoInput, OwnInput, Fresh
  <2>3. AboutToSend'
    BY <1>2, <2>1 DEF ReadStatus, AboutToSend
  <2>4. AboutToRead'
    <3>1. sees' = "receive" => rne
      BY <1>2 DEF ReadStatus
    <3> QED
      BY <1>1, <2>1, <3>1 DEF Freshness, Announced, AboutToRead, NoInput, OwnInput, Fresh
  <2> QED
    BY <2>2, <2>3, <2>4 DEF Freshness
<1>3. CASE ReadData
  <2>1. UNCHANGED <<uart_data, rne, spoilt>> /\ sees' = "nothing"
    BY <1>3 DEF ReadData, serial
  <2> QED
    BY <1>1, <2>1
       DEF Freshness, Announced, AboutToSend, AboutToRead, NoInput, OwnInput, Fresh
<1>4. CASE Send
  <2>1. /\ sees = "transmit" /\ sees' = "nothing"
        /\ uart_data' = Own /\ rne' = rne
        /\ spoilt' = spoilt \cup ({taken} \ heard)
    BY <1>4 DEF Send
  <2>2. ASSUME rne
        PROVE  NoInput' \/ OwnInput'
    BY <1>1, <2>1, <2>2 DEF Freshness, AboutToSend, NoInput, OwnInput, Fresh
  <2> QED
    BY <2>1, <2>2 DEF Freshness, Announced, AboutToSend, AboutToRead
<1>5. CASE WriteStatus
  <2>1. /\ sees = "nothing" /\ UNCHANGED <<uart_data, sees, heard>>
        /\ taken \in spoilt => taken \in spoilt'
    BY <1>5 DEF WriteStatus
  <2>2. rne' = FALSE \/ rne' = rne
    BY <1>5 DEF WriteStatus
  <2> QED
    BY <1>1, <2>1, <2>2
       DEF Freshness, Announced, AboutToSend, AboutToRead, NoInput, OwnInput, Fresh
<1>6. CASE Elsewhere
  BY <1>1, <1>6
     DEF Elsewhere, serial, driver, Freshness, Announced, AboutToSend, AboutToRead,
         NoInput, OwnInput, Fresh
<1> QED
  BY TurnCases, <1>2, <1>3, <1>4, <1>5, <1>6

\* A clock brings a new character or withdraws the flag; what the driver is
\* about to read gets one clock older, no more.
LEMMA TickFresh ==
    ASSUME TypeOK, DriverTyped, Freshness, Tick
    PROVE  Freshness'
<1>1. /\ UNCHANGED <<pty, sees, heard, spoilt>>
      /\ ~(serialclock >= 0) /\ serialclock' >= 0
  BY TickCases, DevicesAssumption DEF driver, TypeOK
<1>2. taken \in Nat /\ age \in 0..2
  BY DEF TypeOK
<1>3. CASE pty = "failed"
  BY <1>1, <1>3
     DEF Freshness, Announced, AboutToSend, AboutToRead, NoInput
<1>4. CASE uart_data' = taken + 1 /\ taken' = taken + 1 /\ age' = 0
  <2>1. Fresh'
    BY <1>2, <1>4 DEF Fresh
  <2>2. taken' \notin heard'
    BY <1>1, <1>2, <1>4 DEF DriverTyped, Junk, NUL, Own
  <2> QED
    BY <2>1, <2>2 DEF Freshness, Announced, AboutToSend, AboutToRead, Fresh
<1>5. CASE /\ rne' = FALSE /\ uart_data' = uart_data /\ taken' = taken
           /\ age' = IF age < 2 THEN age + 1 ELSE 2
  <2>1. Announced' /\ AboutToSend'
    BY <1>5 DEF Announced, AboutToSend
  <2>2. ASSUME sees = "receive"
        PROVE  \/ NoInput' \/ OwnInput'
               \/ uart_data' = taken' /\ age' <= 1
    <3>1. CASE NoInput \/ OwnInput
      BY <1>1, <1>5, <3>1 DEF NoInput, OwnInput
    <3>2. CASE uart_data = taken /\ age = 0
      BY <1>5, <3>2
    <3> QED
      BY <1>1, <1>2, <2>2, <3>1, <3>2 DEF Freshness, AboutToRead
  <2>3. AboutToRead'
    BY <1>1, <2>2 DEF AboutToRead
  <2> QED
    BY <2>1, <2>3 DEF Freshness
<1> QED
  BY TickCases, <1>3, <1>4, <1>5

\* The debugger and whoever types leave the register alone.
LEMMA OthersFresh ==
    ASSUME TypeOK, Freshness, Reenter \/ Type \/ UNCHANGED vars
    PROVE  Freshness'
<1>1. /\ UNCHANGED <<pty, taken, age, uart_data, rne, sees, heard, spoilt>>
      /\ serialclock' = serialclock \/ serialclock' = Period
  BY DEF Reenter, Type, vars, host, serial, driver
<1>2. serialclock >= 0 => serialclock' >= 0
  BY <1>1, DevicesAssumption
<1> QED
  BY <1>1, <1>2
     DEF Freshness, Announced, AboutToSend, AboutToRead, NoInput, OwnInput, Fresh

\* The types and the freshness together.
LEMMA FreshStep == ASSUME FreshInv, [Next]_vars PROVE FreshInv'
BY StepTyped, TurnFresh, TickFresh, OthersFresh DEF FreshInv, Freshness, Next

LEMMA FreshInit == Init => FreshInv
BY InitTyped
   DEF Init, FreshInv, Announced, AboutToSend, AboutToRead, NoInput

\* The invariant of the port, however slowly the guest looks.
LEMMA FreshInvariant == Spec => []FreshInv
<1> QED
  BY FreshInit, FreshStep, PTL DEF Spec

\* The registers, the countdown and the driver's state keep their types.
THEOREM TypeCorrect == Spec => []TypeOK
<1>1. FreshInv => TypeOK
  BY DEF FreshInv
<1> QED
  BY <1>1, FreshInvariant, PTL

\* What the guest reads as input is the character taken by the last clock or
\* the one before, or one of the exceptions the property names (sapcm.c:141).
THEOREM Latest == Spec => HearsLatest
<1>1. FreshInv /\ [Next]_vars =>
        [(sees = "receive" /\ sees' = "nothing") =>
           \/ uart_data = taken /\ age <= 1
           \/ uart_data = Own /\ taken \in spoilt
           \/ pty = "failed"
           \/ uart_data = Junk /\ taken = 0]_vars
  BY DEF FreshInv, AboutToRead, NoInput, OwnInput
<1> QED
  BY <1>1, FreshInvariant, PTL DEF Spec, HearsLatest

----------------------------------------------------------------------------
(* Nothing is lost *)

\* A turn: the guest gets nearer to the look, looks, or reads the character.
LEMMA TurnTime ==
    ASSUME TypeOK, DriverTyped, TimeLeft, Guest
    PROVE  TimeLeft'
<1> SUFFICES ASSUME Unheard'
             PROVE  /\ uart_data' = taken'
                    /\ sees' # "receive" => rne'
                    /\ serialclock' >= 0
                    /\ sees' = "nothing" => serialclock' >= PollEvery - since'
  BY DEF TimeLeft
<1>1. /\ taken' = taken /\ serialclock' = serialclock - 1
      /\ serialclock >= 0 /\ serialclock \in Int
      /\ since \in 0..(PollEvery - 1) /\ PollEvery \in Nat
  BY TurnCases, DevicesAssumption DEF host, TypeOK
<1>2. heard \subseteq heard' /\ spoilt \subseteq spoilt'
  BY TurnCases DEF ReadStatus, ReadData, Send, WriteStatus, Elsewhere, driver
<1>3. Unheard
  BY <1>1, <1>2 DEF Unheard
<1>4. CASE ReadStatus
  <2>1. /\ sees = "nothing" /\ uart_data' = uart_data /\ rne' = rne
        /\ sees' = "receive"
    BY <1>3, <1>4 DEF ReadStatus, serial, TimeLeft
  <2> QED
    BY <1>1, <1>3, <2>1 DEF TimeLeft
<1>5. CASE ReadData
  BY <1>1, <1>3, <1>5 DEF ReadData, TimeLeft, Unheard
<1>6. CASE Send
  BY <1>1, <1>6 DEF Send, Unheard
<1>7. CASE /\ since' = IF since < PollEvery - 1 THEN since + 1 ELSE since
           /\ since < PollEvery - 1 \/ sees # "nothing"
           /\ WriteStatus \/ Elsewhere
  <2>1. /\ sees = "nothing" /\ sees' = "nothing" /\ uart_data' = uart_data
        /\ since' = since + 1
    BY <1>7 DEF WriteStatus, Elsewhere, serial, driver
  <2>2. rne
    BY <1>3, <2>1 DEF TimeLeft
  <2>3. rne'
    <3>1. CASE Elsewhere
      BY <2>2, <3>1 DEF Elsewhere, serial
    <3>2. CASE WriteStatus
      <4>1. ASSUME ~rne'
            PROVE  taken' \in heard' \cup spoilt'
        BY <1>1, <2>2, <3>2, <4>1 DEF WriteStatus
      <4> QED
        BY <4>1 DEF Unheard
    <3> QED
      BY <1>7, <3>1, <3>2
  <2> QED
    BY <1>1, <1>3, <2>1, <2>3 DEF TimeLeft
<1> QED
  BY TurnCases, <1>4, <1>5, <1>6, <1>7

\* A clock comes only when nothing waits; the character it brings has a period.
LEMMA TickTime ==
    ASSUME LooksInTime, TypeOK, DriverTyped, OlderHeard, TimeLeft, Tick
    PROVE  OlderHeard' /\ TimeLeft'
<1>1. /\ UNCHANGED <<pty, since, sees, heard, spoilt>>
      /\ serialclock < 0 /\ serialclock \in Int
      /\ serialclock' = Period /\ Period >= PollEvery
      /\ Period \in Nat /\ PollEvery \in Nat /\ since \in 0..(PollEvery - 1)
  BY TickCases, DevicesAssumption DEF driver, TypeOK, LooksInTime
<1>2. ~Unheard
  BY <1>1 DEF TimeLeft
<1>3. /\ taken \in Nat /\ taken \in 0..typed /\ typed \in Nat
      /\ pty # "open" => typed = 0
  BY DevicesAssumption DEF TypeOK, DriverTyped
<1>4. CASE taken' = taken
  <2>1. ~Unheard'
    BY <1>1, <1>2, <1>4 DEF Unheard
  <2> QED
    BY <1>1, <1>4, <2>1 DEF TimeLeft, OlderHeard
<1>5. CASE uart_data' = taken + 1 /\ rne' = TRUE /\ taken' = taken + 1
  <2>1. OlderHeard'
    <3>1. \A c \in 1..taken : c \in heard \cup spoilt
      BY <1>2, <1>3 DEF OlderHeard, Unheard
    <3> QED
      BY <1>1, <1>3, <1>5, <3>1 DEF OlderHeard
  <2>2. uart_data' = taken' /\ serialclock' >= 0 /\ serialclock' >= PollEvery - since'
    BY <1>1, <1>5
  <2>3. TimeLeft'
    BY <1>5, <2>2 DEF TimeLeft
  <2> QED
    BY <2>1, <2>3
<1> QED
  BY TickCases, <1>4, <1>5

\* Every step keeps what is left of the time.
LEMMA LossStep ==
    ASSUME LooksInTime, LossInv, [Next]_vars
    PROVE  LossInv'
<1>1. FreshInv'
  BY FreshStep DEF LossInv
<1>2. TypeOK /\ DriverTyped
  BY DEF LossInv, FreshInv
<1>3. CASE Guest
  <2>1. taken' = taken /\ heard \subseteq heard' /\ spoilt \subseteq spoilt'
    BY <1>2, <1>3, TurnCases
       DEF host, ReadStatus, ReadData, Send, WriteStatus, Elsewhere, driver
  <2>2. OlderHeard'
    BY <2>1 DEF LossInv, OlderHeard
  <2> QED
    BY <1>1, <1>2, <1>3, <2>2, TurnTime DEF LossInv
<1>4. CASE Tick
  BY <1>1, <1>2, <1>4, TickTime DEF LossInv
<1>5. CASE Reenter \/ Type \/ UNCHANGED vars
  <2>1. /\ UNCHANGED <<taken, uart_data, rne, sees, since, heard, spoilt>>
        /\ serialclock' = serialclock \/ serialclock' = Period
    BY <1>5 DEF Reenter, Type, vars, host, serial, driver
  <2>2. /\ Period >= 0 /\ Period >= PollEvery - since
    BY <1>2, DevicesAssumption DEF LooksInTime, TypeOK
  <2>3. OlderHeard' /\ TimeLeft'
    <3>1. OlderHeard' /\ (Unheard' <=> Unheard)
      BY <2>1 DEF LossInv, OlderHeard, Unheard
    <3>2. TimeLeft'
      BY <2>1, <2>2, <3>1 DEF LossInv, TimeLeft
    <3> QED
      BY <3>1, <3>2
  <2> QED
    BY <1>1, <2>3 DEF LossInv
<1> QED
  BY <1>3, <1>4, <1>5 DEF Next

LEMMA LossInit == Init => LossInv
BY FreshInit, DevicesAssumption DEF Init, LossInv, OlderHeard, TimeLeft, Unheard

\* A guest that looks at the status once in a period loses no character: the
\* clock does not overwrite the data register, or withdraw the flag, before the
\* character was read (sapcm.c:273).
THEOREM NothingLost == ASSUME LooksInTime PROVE Spec => []NoneLost
<1>1. LossInv => NoneLost
  <2> SUFFICES ASSUME LossInv, NEW c \in 1..taken
               PROVE  \/ c \in heard \cup spoilt
                      \/ c = taken /\ (rne \/ sees = "receive")
    BY DEF NoneLost
  <2>1. c \in 1..(taken - 1) \/ (c = taken /\ taken > 0)
    BY DEF LossInv, FreshInv, TypeOK
  <2> QED
    BY <2>1 DEF LossInv, OlderHeard, TimeLeft, Unheard
<1>2. Init => LossInv
  BY LossInit
<1>3. LossInv /\ [Next]_vars => LossInv'
  BY LossStep
<1> QED
  BY <1>1, <1>2, <1>3, PTL DEF Spec

----------------------------------------------------------------------------
(* The wiring of the flash *)

\* The one bits of half a word
Half(h) == {i \in 0..15 : (h \div 2^i) % 2 = 1}

\* A bit of a half is found by a division.
LEMMA HalfIs ==
    ASSUME NEW h \in Nat
    PROVE  /\ Half(h) \subseteq 0..15
           /\ 0 \in Half(h) <=> (h \div 1) % 2 = 1
           /\ 1 \in Half(h) <=> (h \div 2) % 2 = 1
           /\ 2 \in Half(h) <=> (h \div 4) % 2 = 1
           /\ 3 \in Half(h) <=> (h \div 8) % 2 = 1
           /\ 4 \in Half(h) <=> (h \div 16) % 2 = 1
           /\ 5 \in Half(h) <=> (h \div 32) % 2 = 1
           /\ 6 \in Half(h) <=> (h \div 64) % 2 = 1
           /\ 7 \in Half(h) <=> (h \div 128) % 2 = 1
           /\ 8 \in Half(h) <=> (h \div 256) % 2 = 1
           /\ 9 \in Half(h) <=> (h \div 512) % 2 = 1
           /\ 10 \in Half(h) <=> (h \div 1024) % 2 = 1
           /\ 11 \in Half(h) <=> (h \div 2048) % 2 = 1
           /\ 12 \in Half(h) <=> (h \div 4096) % 2 = 1
           /\ 13 \in Half(h) <=> (h \div 8192) % 2 = 1
           /\ 14 \in Half(h) <=> (h \div 16384) % 2 = 1
           /\ 15 \in Half(h) <=> (h \div 32768) % 2 = 1
<1>1. /\ 2^0 = 1 /\ 2^1 = 2 /\ 2^2 = 4 /\ 2^3 = 8
      /\ 2^4 = 16 /\ 2^5 = 32 /\ 2^6 = 64 /\ 2^7 = 128
      /\ 2^8 = 256 /\ 2^9 = 512 /\ 2^10 = 1024 /\ 2^11 = 2048
      /\ 2^12 = 4096 /\ 2^13 = 8192 /\ 2^14 = 16384 /\ 2^15 = 32768
  OBVIOUS
<1> QED
  BY <1>1 DEF Half

\* A word from its halves, and its bits are lines.
LEMMA WordIs ==
    ASSUME NEW h \in Nat, NEW l \in Nat
    PROVE  /\ Word(h, l) = Half(l) \cup {16 + i : i \in Half(h)}
           /\ Word(h, l) \subseteq 0..31
<1>1. Word(h, l) = Half(l) \cup {16 + i : i \in Half(h)}
  BY DEF Word, Half
<1> QED
  BY <1>1, HalfIs

\* The masks of DATA_TO_FLASH (lartflash.h)
LEMMA MasksToFlash ==
  /\ Word(\h0800, \h9000) = {12, 15, 27}
  /\ Word(\h0000, \h2000) = {13}
  /\ Word(\h0400, \h4000) = {14, 26}
  /\ Word(\h0000, \h0010) = {4}
  /\ Word(\h9100, \h0820) = {5, 11, 24, 28, 31}
  /\ Word(\h2208, \h0080) = {7, 19, 25, 29}
  /\ Word(\h4000, \h0400) = {10, 30}
  /\ Word(\h0004, \h0040) = {6, 18}
  /\ Word(\h0011, \h0000) = {16, 20}
  /\ Word(\h0022, \h0100) = {8, 17, 21}
  /\ Word(\h0080, \h0208) = {3, 9, 23}
  /\ Word(\h0040, \h0004) = {2, 22}
  /\ Word(\h0000, \h0001) = {0}
  /\ Word(\h0000, \h0002) = {1}
<1>1. Word(\h0800, \h9000) = {12, 15, 27}
  <2>1. Half(\h0800) = {11} /\ Half(\h9000) = {12, 15}
    BY HalfIs
  <2>2. Word(\h0800, \h9000) = Half(\h9000) \cup {16 + i : i \in Half(\h0800)}
    BY WordIs
  <2> QED
    BY <2>1, <2>2
<1>2. Word(\h0000, \h2000) = {13}
  <2>1. Half(\h0000) = {} /\ Half(\h2000) = {13}
    BY HalfIs
  <2>2. Word(\h0000, \h2000) = Half(\h2000) \cup {16 + i : i \in Half(\h0000)}
    BY WordIs
  <2> QED
    BY <2>1, <2>2
<1>3. Word(\h0400, \h4000) = {14, 26}
  <2>1. Half(\h0400) = {10} /\ Half(\h4000) = {14}
    BY HalfIs
  <2>2. Word(\h0400, \h4000) = Half(\h4000) \cup {16 + i : i \in Half(\h0400)}
    BY WordIs
  <2> QED
    BY <2>1, <2>2
<1>4. Word(\h0000, \h0010) = {4}
  <2>1. Half(\h0000) = {} /\ Half(\h0010) = {4}
    BY HalfIs
  <2>2. Word(\h0000, \h0010) = Half(\h0010) \cup {16 + i : i \in Half(\h0000)}
    BY WordIs
  <2> QED
    BY <2>1, <2>2
<1>5. Word(\h9100, \h0820) = {5, 11, 24, 28, 31}
  <2>1. Half(\h9100) = {8, 12, 15} /\ Half(\h0820) = {5, 11}
    BY HalfIs
  <2>2. Word(\h9100, \h0820) = Half(\h0820) \cup {16 + i : i \in Half(\h9100)}
    BY WordIs
  <2> QED
    BY <2>1, <2>2
<1>6. Word(\h2208, \h0080) = {7, 19, 25, 29}
  <2>1. Half(\h2208) = {3, 9, 13} /\ Half(\h0080) = {7}
    BY HalfIs
  <2>2. Word(\h2208, \h0080) = Half(\h0080) \cup {16 + i : i \in Half(\h2208)}
    BY WordIs
  <2> QED
    BY <2>1, <2>2
<1>7. Word(\h4000, \h0400) = {10, 30}
  <2>1. Half(\h4000) = {14} /\ Half(\h0400) = {10}
    BY HalfIs
  <2>2. Word(\h4000, \h0400) = Half(\h0400) \cup {16 + i : i \in Half(\h4000)}
    BY WordIs
  <2> QED
    BY <2>1, <2>2
<1>8. Word(\h0004, \h0040) = {6, 18}
  <2>1. Half(\h0004) = {2} /\ Half(\h0040) = {6}
    BY HalfIs
  <2>2. Word(\h0004, \h0040) = Half(\h0040) \cup {16 + i : i \in Half(\h0004)}
    BY WordIs
  <2> QED
    BY <2>1, <2>2
<1>9. Word(\h0011, \h0000) = {16, 20}
  <2>1. Half(\h0011) = {0, 4} /\ Half(\h0000) = {}
    BY HalfIs
  <2>2. Word(\h0011, \h0000) = Half(\h0000) \cup {16 + i : i \in Half(\h0011)}
    BY WordIs
  <2> QED
    BY <2>1, <2>2
<1>10. Word(\h0022, \h0100) = {8, 17, 21}
  <2>1. Half(\h0022) = {1, 5} /\ Half(\h0100) = {8}
    BY HalfIs
  <2>2. Word(\h0022, \h0100) = Half(\h0100) \cup {16 + i : i \in Half(\h0022)}
    BY WordIs
  <2> QED
    BY <2>1, <2>2
<1>11. Word(\h0080, \h0208) = {3, 9, 23}
  <2>1. Half(\h0080) = {7} /\ Half(\h0208) = {3, 9}
    BY HalfIs
  <2>2. Word(\h0080, \h0208) = Half(\h0208) \cup {16 + i : i \in Half(\h0080)}
    BY WordIs
  <2> QED
    BY <2>1, <2>2
<1>12. Word(\h0040, \h0004) = {2, 22}
  <2>1. Half(\h0040) = {6} /\ Half(\h0004) = {2}
    BY HalfIs
  <2>2. Word(\h0040, \h0004) = Half(\h0004) \cup {16 + i : i \in Half(\h0040)}
    BY WordIs
  <2> QED
    BY <2>1, <2>2
<1>13. Word(\h0000, \h0001) = {0}
  <2>1. Half(\h0000) = {} /\ Half(\h0001) = {0}
    BY HalfIs
  <2>2. Word(\h0000, \h0001) = Half(\h0001) \cup {16 + i : i \in Half(\h0000)}
    BY WordIs
  <2> QED
    BY <2>1, <2>2
<1>14. Word(\h0000, \h0002) = {1}
  <2>1. Half(\h0000) = {} /\ Half(\h0002) = {1}
    BY HalfIs
  <2>2. Word(\h0000, \h0002) = Half(\h0002) \cup {16 + i : i \in Half(\h0000)}
    BY WordIs
  <2> QED
    BY <2>1, <2>2
<1> QED
  BY <1>1, <1>2, <1>3, <1>4, <1>5, <1>6, <1>7, <1>8, <1>9, <1>10, <1>11, <1>12, <1>13, <1>14

\* The masks of FLASH_TO_DATA
LEMMA MasksToData ==
  /\ Word(\h0001, \h0012) = {1, 4, 16}
  /\ Word(\h0000, \h0008) = {3}
  /\ Word(\h0004, \h0040) = {6, 18}
  /\ Word(\h0000, \h0001) = {0}
  /\ Word(\h1220, \h0104) = {2, 8, 21, 25, 28}
  /\ Word(\h0882, \h0020) = {5, 17, 23, 27}
  /\ Word(\h4000, \h0400) = {10, 30}
  /\ Word(\h0008, \h0080) = {7, 19}
  /\ Word(\h0110, \h0000) = {20, 24}
  /\ Word(\h0440, \h2000) = {13, 22, 26}
  /\ Word(\h2000, \h8200) = {9, 15, 29}
  /\ Word(\h8000, \h0800) = {11, 31}
  /\ Word(\h0000, \h1000) = {12}
  /\ Word(\h0000, \h4000) = {14}
<1>1. Word(\h0001, \h0012) = {1, 4, 16}
  <2>1. Half(\h0001) = {0} /\ Half(\h0012) = {1, 4}
    BY HalfIs
  <2>2. Word(\h0001, \h0012) = Half(\h0012) \cup {16 + i : i \in Half(\h0001)}
    BY WordIs
  <2> QED
    BY <2>1, <2>2
<1>2. Word(\h0000, \h0008) = {3}
  <2>1. Half(\h0000) = {} /\ Half(\h0008) = {3}
    BY HalfIs
  <2>2. Word(\h0000, \h0008) = Half(\h0008) \cup {16 + i : i \in Half(\h0000)}
    BY WordIs
  <2> QED
    BY <2>1, <2>2
<1>3. Word(\h0004, \h0040) = {6, 18}
  <2>1. Half(\h0004) = {2} /\ Half(\h0040) = {6}
    BY HalfIs
  <2>2. Word(\h0004, \h0040) = Half(\h0040) \cup {16 + i : i \in Half(\h0004)}
    BY WordIs
  <2> QED
    BY <2>1, <2>2
<1>4. Word(\h0000, \h0001) = {0}
  <2>1. Half(\h0000) = {} /\ Half(\h0001) = {0}
    BY HalfIs
  <2>2. Word(\h0000, \h0001) = Half(\h0001) \cup {16 + i : i \in Half(\h0000)}
    BY WordIs
  <2> QED
    BY <2>1, <2>2
<1>5. Word(\h1220, \h0104) = {2, 8, 21, 25, 28}
  <2>1. Half(\h1220) = {5, 9, 12} /\ Half(\h0104) = {2, 8}
    BY HalfIs
  <2>2. Word(\h1220, \h0104) = Half(\h0104) \cup {16 + i : i \in Half(\h1220)}
    BY WordIs
  <2> QED
    BY <2>1, <2>2
<1>6. Word(\h0882, \h0020) = {5, 17, 23, 27}
  <2>1. Half(\h0882) = {1, 7, 11} /\ Half(\h0020) = {5}
    BY HalfIs
  <2>2. Word(\h0882, \h0020) = Half(\h0020) \cup {16 + i : i \in Half(\h0882)}
    BY WordIs
  <2> QED
    BY <2>1, <2>2
<1>7. Word(\h4000, \h0400) = {10, 30}
  <2>1. Half(\h4000) = {14} /\ Half(\h0400) = {10}
    BY HalfIs
  <2>2. Word(\h4000, \h0400) = Half(\h0400) \cup {16 + i : i \in Half(\h4000)}
    BY WordIs
  <2> QED
    BY <2>1, <2>2
<1>8. Word(\h0008, \h0080) = {7, 19}
  <2>1. Half(\h0008) = {3} /\ Half(\h0080) = {7}
    BY HalfIs
  <2>2. Word(\h0008, \h0080) = Half(\h0080) \cup {16 + i : i \in Half(\h0008)}
    BY WordIs
  <2> QED
    BY <2>1, <2>2
<1>9. Word(\h0110, \h0000) = {20, 24}
  <2>1. Half(\h0110) = {4, 8} /\ Half(\h0000) = {}
    BY HalfIs
  <2>2. Word(\h0110, \h0000) = Half(\h0000) \cup {16 + i : i \in Half(\h0110)}
    BY WordIs
  <2> QED
    BY <2>1, <2>2
<1>10. Word(\h0440, \h2000) = {13, 22, 26}
  <2>1. Half(\h0440) = {6, 10} /\ Half(\h2000) = {13}
    BY HalfIs
  <2>2. Word(\h0440, \h2000) = Half(\h2000) \cup {16 + i : i \in Half(\h0440)}
    BY WordIs
  <2> QED
    BY <2>1, <2>2
<1>11. Word(\h2000, \h8200) = {9, 15, 29}
  <2>1. Half(\h2000) = {13} /\ Half(\h8200) = {9, 15}
    BY HalfIs
  <2>2. Word(\h2000, \h8200) = Half(\h8200) \cup {16 + i : i \in Half(\h2000)}
    BY WordIs
  <2> QED
    BY <2>1, <2>2
<1>12. Word(\h8000, \h0800) = {11, 31}
  <2>1. Half(\h8000) = {15} /\ Half(\h0800) = {11}
    BY HalfIs
  <2>2. Word(\h8000, \h0800) = Half(\h0800) \cup {16 + i : i \in Half(\h8000)}
    BY WordIs
  <2> QED
    BY <2>1, <2>2
<1>13. Word(\h0000, \h1000) = {12}
  <2>1. Half(\h0000) = {} /\ Half(\h1000) = {12}
    BY HalfIs
  <2>2. Word(\h0000, \h1000) = Half(\h1000) \cup {16 + i : i \in Half(\h0000)}
    BY WordIs
  <2> QED
    BY <2>1, <2>2
<1>14. Word(\h0000, \h4000) = {14}
  <2>1. Half(\h0000) = {} /\ Half(\h4000) = {14}
    BY HalfIs
  <2>2. Word(\h0000, \h4000) = Half(\h4000) \cup {16 + i : i \in Half(\h0000)}
    BY WordIs
  <2> QED
    BY <2>1, <2>2
<1> QED
  BY <1>1, <1>2, <1>3, <1>4, <1>5, <1>6, <1>7, <1>8, <1>9, <1>10, <1>11, <1>12, <1>13, <1>14

\* The masks of the address lines
LEMMA MasksOfU2 ==
  /\ Word(0, \h0f00) = {8, 9, 10, 11}
  /\ Word(4, \h2000) = {13, 18}
  /\ Word(9, \hc003) = {0, 1, 14, 15, 16, 19}
  /\ Word(2, \h1080) = {7, 12, 17}
  /\ Word(0, \h0010) = {4}
  /\ Word(0, \h0040) = {6}
  /\ Word(0, \h0024) = {2, 5}
  /\ Word(0, \h0008) = {3}
<1>1. Word(0, \h0f00) = {8, 9, 10, 11}
  <2>1. Half(0) = {} /\ Half(\h0f00) = {8, 9, 10, 11}
    BY HalfIs
  <2>2. Word(0, \h0f00) = Half(\h0f00) \cup {16 + i : i \in Half(0)}
    BY WordIs
  <2> QED
    BY <2>1, <2>2
<1>2. Word(4, \h2000) = {13, 18}
  <2>1. Half(4) = {2} /\ Half(\h2000) = {13}
    BY HalfIs
  <2>2. Word(4, \h2000) = Half(\h2000) \cup {16 + i : i \in Half(4)}
    BY WordIs
  <2> QED
    BY <2>1, <2>2
<1>3. Word(9, \hc003) = {0, 1, 14, 15, 16, 19}
  <2>1. Half(9) = {0, 3} /\ Half(\hc003) = {0, 1, 14, 15}
    BY HalfIs
  <2>2. Word(9, \hc003) = Half(\hc003) \cup {16 + i : i \in Half(9)}
    BY WordIs
  <2> QED
    BY <2>1, <2>2
<1>4. Word(2, \h1080) = {7, 12, 17}
  <2>1. Half(2) = {1} /\ Half(\h1080) = {7, 12}
    BY HalfIs
  <2>2. Word(2, \h1080) = Half(\h1080) \cup {16 + i : i \in Half(2)}
    BY WordIs
  <2> QED
    BY <2>1, <2>2
<1>5. Word(0, \h0010) = {4}
  <2>1. Half(0) = {} /\ Half(\h0010) = {4}
    BY HalfIs
  <2>2. Word(0, \h0010) = Half(\h0010) \cup {16 + i : i \in Half(0)}
    BY WordIs
  <2> QED
    BY <2>1, <2>2
<1>6. Word(0, \h0040) = {6}
  <2>1. Half(0) = {} /\ Half(\h0040) = {6}
    BY HalfIs
  <2>2. Word(0, \h0040) = Half(\h0040) \cup {16 + i : i \in Half(0)}
    BY WordIs
  <2> QED
    BY <2>1, <2>2
<1>7. Word(0, \h0024) = {2, 5}
  <2>1. Half(0) = {} /\ Half(\h0024) = {2, 5}
    BY HalfIs
  <2>2. Word(0, \h0024) = Half(\h0024) \cup {16 + i : i \in Half(0)}
    BY WordIs
  <2> QED
    BY <2>1, <2>2
<1>8. Word(0, \h0008) = {3}
  <2>1. Half(0) = {} /\ Half(\h0008) = {3}
    BY HalfIs
  <2>2. Word(0, \h0008) = Half(\h0008) \cup {16 + i : i \in Half(0)}
    BY WordIs
  <2> QED
    BY <2>1, <2>2
<1> QED
  BY <1>1, <1>2, <1>3, <1>4, <1>5, <1>6, <1>7, <1>8

\* Line i of the data bus is wired to line j of the chips.
ToChip(i, j) ==
  \/ i \in {12, 15, 27} /\ j = i - 11
  \/ i \in {13} /\ j = i - 10
  \/ i \in {14, 26} /\ j = i - 8
  \/ i \in {4} /\ j = i - 4
  \/ i \in {5, 11, 24, 28, 31} /\ j = i - 3
  \/ i \in {7, 19, 25, 29} /\ j = i - 2
  \/ i \in {10, 30} /\ j = i + 0
  \/ i \in {6, 18} /\ j = i + 1
  \/ i \in {16, 20} /\ j = i + 4
  \/ i \in {8, 17, 21} /\ j = i + 5
  \/ i \in {3, 9, 23} /\ j = i + 6
  \/ i \in {2, 22} /\ j = i + 9
  \/ i \in {0} /\ j = i + 12
  \/ i \in {1} /\ j = i + 13

\* Line i of the chips is wired to line j of the data bus.
FromChip(i, j) ==
  \/ i \in {1, 4, 16} /\ j = i + 11
  \/ i \in {3} /\ j = i + 10
  \/ i \in {6, 18} /\ j = i + 8
  \/ i \in {0} /\ j = i + 4
  \/ i \in {2, 8, 21, 25, 28} /\ j = i + 3
  \/ i \in {5, 17, 23, 27} /\ j = i + 2
  \/ i \in {10, 30} /\ j = i + 0
  \/ i \in {7, 19} /\ j = i - 1
  \/ i \in {20, 24} /\ j = i - 4
  \/ i \in {13, 22, 26} /\ j = i - 5
  \/ i \in {9, 15, 29} /\ j = i - 6
  \/ i \in {11, 31} /\ j = i - 9
  \/ i \in {12} /\ j = i - 12
  \/ i \in {14} /\ j = i - 13

\* The terms of a macro together move a set of lines.
LEMMA MovedIs ==
    ASSUME NEW x, NEW terms
    PROVE  Moved(x, terms)
             = {j \in 0..31 : \E i \in x : \E t \in terms : i \in t[1] /\ j = i + t[2]}
BY DEF Moved, Left

\* DATA_TO_FLASH sends each line to the one it is wired to.
LEMMA ToFlash ==
    ASSUME NEW x \in SUBSET (0..31)
    PROVE  DATA_TO_FLASH(x) = {j \in 0..31 : \E i \in x : ToChip(i, j)}
<1> DEFINE terms == {<<Word(\h0800, \h9000), -11>>,
                     <<Word(\h0000, \h2000), -10>>,
                     <<Word(\h0400, \h4000), -8>>,
                     <<Word(\h0000, \h0010), -4>>,
                     <<Word(\h9100, \h0820), -3>>,
                     <<Word(\h2208, \h0080), -2>>,
                     <<Word(\h4000, \h0400), 0>>,
                     <<Word(\h0004, \h0040), 1>>,
                     <<Word(\h0011, \h0000), 4>>,
                     <<Word(\h0022, \h0100), 5>>,
                     <<Word(\h0080, \h0208), 6>>,
                     <<Word(\h0040, \h0004), 9>>,
                     <<Word(\h0000, \h0001), 12>>,
                     <<Word(\h0000, \h0002), 13>>}
<1>1. DATA_TO_FLASH(x) = Moved(x, terms)
  BY DEF DATA_TO_FLASH
<1>2. ASSUME NEW i \in x, NEW j \in 0..31
      PROVE  (\E t \in terms : i \in t[1] /\ j = i + t[2]) <=> ToChip(i, j)
  <2>1. (\E t \in terms : i \in t[1] /\ j = i + t[2]) <=>
            \/ i \in Word(\h0800, \h9000) /\ j = i - 11
            \/ i \in Word(\h0000, \h2000) /\ j = i - 10
            \/ i \in Word(\h0400, \h4000) /\ j = i - 8
            \/ i \in Word(\h0000, \h0010) /\ j = i - 4
            \/ i \in Word(\h9100, \h0820) /\ j = i - 3
            \/ i \in Word(\h2208, \h0080) /\ j = i - 2
            \/ i \in Word(\h4000, \h0400) /\ j = i + 0
            \/ i \in Word(\h0004, \h0040) /\ j = i + 1
            \/ i \in Word(\h0011, \h0000) /\ j = i + 4
            \/ i \in Word(\h0022, \h0100) /\ j = i + 5
            \/ i \in Word(\h0080, \h0208) /\ j = i + 6
            \/ i \in Word(\h0040, \h0004) /\ j = i + 9
            \/ i \in Word(\h0000, \h0001) /\ j = i + 12
            \/ i \in Word(\h0000, \h0002) /\ j = i + 13
    OBVIOUS
  <2> QED
    BY <2>1, MasksToFlash DEF ToChip
<1> HIDE DEF terms
<1> QED
  BY <1>1, <1>2, MovedIs

\* So does FLASH_TO_DATA, the other way.
LEMMA ToData ==
    ASSUME NEW x \in SUBSET (0..31)
    PROVE  FLASH_TO_DATA(x) = {j \in 0..31 : \E i \in x : FromChip(i, j)}
<1> DEFINE terms == {<<Word(\h0001, \h0012), 11>>,
                     <<Word(\h0000, \h0008), 10>>,
                     <<Word(\h0004, \h0040), 8>>,
                     <<Word(\h0000, \h0001), 4>>,
                     <<Word(\h1220, \h0104), 3>>,
                     <<Word(\h0882, \h0020), 2>>,
                     <<Word(\h4000, \h0400), 0>>,
                     <<Word(\h0008, \h0080), -1>>,
                     <<Word(\h0110, \h0000), -4>>,
                     <<Word(\h0440, \h2000), -5>>,
                     <<Word(\h2000, \h8200), -6>>,
                     <<Word(\h8000, \h0800), -9>>,
                     <<Word(\h0000, \h1000), -12>>,
                     <<Word(\h0000, \h4000), -13>>}
<1>1. FLASH_TO_DATA(x) = Moved(x, terms)
  BY DEF FLASH_TO_DATA
<1>2. ASSUME NEW i \in x, NEW j \in 0..31
      PROVE  (\E t \in terms : i \in t[1] /\ j = i + t[2]) <=> FromChip(i, j)
  <2>1. (\E t \in terms : i \in t[1] /\ j = i + t[2]) <=>
            \/ i \in Word(\h0001, \h0012) /\ j = i + 11
            \/ i \in Word(\h0000, \h0008) /\ j = i + 10
            \/ i \in Word(\h0004, \h0040) /\ j = i + 8
            \/ i \in Word(\h0000, \h0001) /\ j = i + 4
            \/ i \in Word(\h1220, \h0104) /\ j = i + 3
            \/ i \in Word(\h0882, \h0020) /\ j = i + 2
            \/ i \in Word(\h4000, \h0400) /\ j = i + 0
            \/ i \in Word(\h0008, \h0080) /\ j = i - 1
            \/ i \in Word(\h0110, \h0000) /\ j = i - 4
            \/ i \in Word(\h0440, \h2000) /\ j = i - 5
            \/ i \in Word(\h2000, \h8200) /\ j = i - 6
            \/ i \in Word(\h8000, \h0800) /\ j = i - 9
            \/ i \in Word(\h0000, \h1000) /\ j = i - 12
            \/ i \in Word(\h0000, \h4000) /\ j = i - 13
    OBVIOUS
  <2> QED
    BY <2>1, MasksToData DEF FromChip
<1> HIDE DEF terms
<1> QED
  BY <1>1, <1>2, MovedIs

\* Each line comes back to where it came from, and to nowhere else.
LEMMA ThereAndBack ==
    /\ \A i \in 0..31 : \E j \in 0..31 : ToChip(i, j) /\ FromChip(j, i)
    /\ \A i \in 0..31 : \A j \in 0..31 : \A k \in 0..31 :
         ToChip(i, j) /\ FromChip(j, k) => k = i
<1>1. ASSUME NEW i \in 0..31 PROVE \E j \in 0..31 : ToChip(i, j) /\ FromChip(j, i)
  BY SMTT(60) DEF ToChip, FromChip
<1>2. ASSUME NEW i \in 0..31, NEW j \in 0..31, NEW k \in 0..31, ToChip(i, j), FromChip(j, k)
      PROVE  k = i
  BY <1>2, SMTT(60) DEF ToChip, FromChip
<1> QED
  BY <1>1, <1>2, Zenon

\* Whatever word is sent to the chips comes back as it was.
THEOREM Restored ==
    ASSUME NEW x \in SUBSET (0..31)
    PROVE  FLASH_TO_DATA(DATA_TO_FLASH(x)) = x
<1> DEFINE y == DATA_TO_FLASH(x)
<1>1. y = {j \in 0..31 : \E i \in x : ToChip(i, j)}
  BY ToFlash
<1>2. y \in SUBSET (0..31)
  BY <1>1, Zenon
<1>3. FLASH_TO_DATA(y) = {k \in 0..31 : \E j \in y : FromChip(j, k)}
  BY <1>2, ToData, Zenon
<1> HIDE DEF y
<1>4. FLASH_TO_DATA(y) \subseteq x
  <2> SUFFICES ASSUME NEW k \in FLASH_TO_DATA(y) PROVE k \in x
    BY Zenon
  <2>1. PICK j \in y : FromChip(j, k)
    BY <1>3, Zenon
  <2>2. PICK i \in x : ToChip(i, j)
    BY <1>1, Zenon
  <2>3. i \in 0..31 /\ j \in 0..31 /\ k \in 0..31
    BY <1>2, <1>3, Zenon
  <2> QED
    BY <2>1, <2>2, <2>3, ThereAndBack, Zenon
<1>5. x \subseteq FLASH_TO_DATA(y)
  <2> SUFFICES ASSUME NEW i \in x PROVE i \in FLASH_TO_DATA(y)
    BY Zenon
  <2>1. PICK j \in 0..31 : ToChip(i, j) /\ FromChip(j, i)
    BY ThereAndBack, Zenon
  <2> QED
    BY <1>1, <1>3, <2>1, Zenon
<1> QED
  BY <1>4, <1>5, Zenon DEF y

\* The terms of FLASH_U2_TO_ADDR, whose masks apply to what has been moved
LEMMA BackIs ==
    ASSUME NEW x, NEW terms
    PROVE  Back(x, terms)
             = {j \in 0..31 : \E i \in x : \E t \in terms : j \in t[1] /\ j = i + (-t[2])}
BY DEF Back, Left

\* Address line i is wired to line j of U2.
ToU2Line(i, j) ==
  \/ i \in {8, 9, 10, 11} /\ j = i - 4
  \/ i \in {13, 18} /\ j = i + 1
  \/ i \in {0, 1, 14, 15, 16, 19} /\ j = i + 2
  \/ i \in {7, 12, 17} /\ j = i + 3
  \/ i \in {4} /\ j = i + 4
  \/ i \in {6} /\ j = i + 5
  \/ i \in {2, 5} /\ j = i + 7
  \/ i \in {3} /\ j = i + 10

\* Of the address lines the probe uses the first two.
LEMMA ToU2 ==
    /\ ADDR_TO_FLASH_U2({}) = {}
    /\ ADDR_TO_FLASH_U2({0}) = {2}
    /\ ADDR_TO_FLASH_U2({1}) = {3}
<1> DEFINE terms == {<<Word(0, \h0f00), -4>>,
                     <<Word(4, \h2000), 1>>,
                     <<Word(9, \hc003), 2>>,
                     <<Word(2, \h1080), 3>>,
                     <<Word(0, \h0010), 4>>,
                     <<Word(0, \h0040), 5>>,
                     <<Word(0, \h0024), 7>>,
                     <<Word(0, \h0008), 10>>}
<1>1. ASSUME NEW i \in 0..31, NEW j \in 0..31
      PROVE  (\E t \in terms : i \in t[1] /\ j = i + t[2]) <=> ToU2Line(i, j)
  <2>1. (\E t \in terms : i \in t[1] /\ j = i + t[2]) <=>
            \/ i \in Word(0, \h0f00) /\ j = i - 4
            \/ i \in Word(4, \h2000) /\ j = i + 1
            \/ i \in Word(9, \hc003) /\ j = i + 2
            \/ i \in Word(2, \h1080) /\ j = i + 3
            \/ i \in Word(0, \h0010) /\ j = i + 4
            \/ i \in Word(0, \h0040) /\ j = i + 5
            \/ i \in Word(0, \h0024) /\ j = i + 7
            \/ i \in Word(0, \h0008) /\ j = i + 10
    OBVIOUS
  <2> QED
    BY <2>1, MasksOfU2 DEF ToU2Line
<1>2. \A x : ADDR_TO_FLASH_U2(x) = Moved(x, terms)
  BY DEF ADDR_TO_FLASH_U2
<1> HIDE DEF terms
<1>3. ASSUME NEW i \in 0..31
      PROVE  ADDR_TO_FLASH_U2({i}) = {j \in 0..31 : ToU2Line(i, j)}
  <2>1. Moved({i}, terms) = {j \in 0..31 : \E t \in terms : i \in t[1] /\ j = i + t[2]}
    BY MovedIs
  <2> QED
    BY <1>1, <1>2, <2>1
<1>4. ADDR_TO_FLASH_U2({}) = {}
  <2>1. Moved({}, terms) = {}
    BY MovedIs
  <2> QED
    BY <1>2, <2>1
<1>5. ADDR_TO_FLASH_U2({0}) = {2}
  <2>1. \A j \in 0..31 : ToU2Line(0, j) <=> j = 2
    BY DEF ToU2Line
  <2> QED
    BY <1>3, <2>1
<1>6. ADDR_TO_FLASH_U2({1}) = {3}
  <2>1. \A j \in 0..31 : ToU2Line(1, j) <=> j = 3
    BY DEF ToU2Line
  <2> QED
    BY <1>3, <2>1
<1> QED
  BY <1>4, <1>5, <1>6

\* Line i of U2 is read as address line j.
FromU2Line(i, j) ==
  \/ j \in {8, 9, 10, 11} /\ j = i + 4
  \/ j \in {13, 18} /\ j = i - 1
  \/ j \in {0, 1, 14, 15, 16, 19} /\ j = i - 2
  \/ j \in {7, 12, 17} /\ j = i - 3
  \/ j \in {4} /\ j = i - 4
  \/ j \in {6} /\ j = i - 5
  \/ j \in {2, 5} /\ j = i - 7
  \/ j \in {3} /\ j = i - 10

\* They are put in order again.
LEMMA FromU2 ==
    /\ FLASH_U2_TO_ADDR({}) = {}
    /\ FLASH_U2_TO_ADDR({2}) = {0}
    /\ FLASH_U2_TO_ADDR({3}) = {1}
<1> DEFINE terms == {<<Word(0, \h0f00), -4>>,
                     <<Word(4, \h2000), 1>>,
                     <<Word(9, \hc003), 2>>,
                     <<Word(2, \h1080), 3>>,
                     <<Word(0, \h0010), 4>>,
                     <<Word(0, \h0040), 5>>,
                     <<Word(0, \h0024), 7>>,
                     <<Word(0, \h0008), 10>>}
<1>1. ASSUME NEW i \in 0..31, NEW j \in 0..31
      PROVE  (\E t \in terms : j \in t[1] /\ j = i + (-t[2])) <=> FromU2Line(i, j)
  <2>1. (\E t \in terms : j \in t[1] /\ j = i + (-t[2])) <=>
            \/ j \in Word(0, \h0f00) /\ j = i + 4
            \/ j \in Word(4, \h2000) /\ j = i - 1
            \/ j \in Word(9, \hc003) /\ j = i - 2
            \/ j \in Word(2, \h1080) /\ j = i - 3
            \/ j \in Word(0, \h0010) /\ j = i - 4
            \/ j \in Word(0, \h0040) /\ j = i - 5
            \/ j \in Word(0, \h0024) /\ j = i - 7
            \/ j \in Word(0, \h0008) /\ j = i - 10
    OBVIOUS
  <2> QED
    BY <2>1, MasksOfU2 DEF FromU2Line
<1>2. \A x : FLASH_U2_TO_ADDR(x) = Back(x, terms)
  BY DEF FLASH_U2_TO_ADDR
<1> HIDE DEF terms
<1>3. ASSUME NEW i \in 0..31
      PROVE  FLASH_U2_TO_ADDR({i}) = {j \in 0..31 : FromU2Line(i, j)}
  <2>1. Back({i}, terms) = {j \in 0..31 : \E t \in terms : j \in t[1] /\ j = i + (-t[2])}
    BY BackIs
  <2> QED
    BY <1>1, <1>2, <2>1
<1>4. FLASH_U2_TO_ADDR({}) = {}
  <2>1. Back({}, terms) = {}
    BY BackIs
  <2> QED
    BY <1>2, <2>1
<1>5. FLASH_U2_TO_ADDR({2}) = {0}
  <2>1. \A j \in 0..31 : FromU2Line(2, j) <=> j = 0
    BY DEF FromU2Line
  <2> QED
    BY <1>3, <2>1
<1>6. FLASH_U2_TO_ADDR({3}) = {1}
  <2>1. \A j \in 0..31 : FromU2Line(3, j) <=> j = 1
    BY DEF FromU2Line
  <2> QED
    BY <1>3, <2>1
<1> QED
  BY <1>4, <1>5, <1>6

----------------------------------------------------------------------------
(* The probe *)

\* The chip answers at its first two addresses, each time with its own code, and
\* the emulation does not abort.
ProbeInv ==
  /\ halted # "probe"
  /\ probed \subseteq {<<ManufacturerAt, ManufacturerCode>>, <<DeviceAt, DeviceCode>>}

\* The address lines are put in order again.
LEMMA SelectedIs == \A a \in {{}, {0}, {1}} : Selected[a] = a
BY ToU2, FromU2 DEF Selected, ManufacturerAt, DeviceAt

\* Nothing has been read in the beginning.
LEMMA ProbeInit == Init => ProbeInv
BY DEF Init, ProbeInv

\* A probe reads the code of the address it asks for; only an address the
\* chip does not answer at stops the emulation.
LEMMA ProbeStep == ProbeInv /\ [Next]_vars => ProbeInv'
<1> SUFFICES ASSUME ProbeInv, [Next]_vars PROVE ProbeInv'
  OBVIOUS
<1>1. CASE Probe
  <2>1. PICK a \in {{}, {0}, {1}} :
           \/ /\ Selected[a] = ManufacturerAt
              /\ probed' = probed \cup {<<a, ManufacturerCode>>}
              /\ UNCHANGED halted
           \/ /\ Selected[a] = DeviceAt
              /\ probed' = probed \cup {<<a, DeviceCode>>}
              /\ UNCHANGED halted
           \/ /\ Selected[a] \notin {ManufacturerAt, DeviceAt}
              /\ halted' = IF a = {1} THEN "address" ELSE "probe"
              /\ UNCHANGED probed
    BY <1>1 DEF Probe, Selected, ManufacturerAt, DeviceAt
  <2>2. Selected[a] = a
    BY SelectedIs
  <2>3. CASE a = ManufacturerAt
    <3>1. a # DeviceAt
      BY <2>3 DEF ManufacturerAt, DeviceAt
    <3> QED
      BY <2>1, <2>2, <2>3, <3>1 DEF ProbeInv
  <2>4. CASE a = DeviceAt
    <3>1. a # ManufacturerAt
      BY <2>4 DEF ManufacturerAt, DeviceAt
    <3> QED
      BY <2>1, <2>2, <2>4, <3>1 DEF ProbeInv
  <2>5. CASE a \notin {ManufacturerAt, DeviceAt}
    <3>1. a = {1}
      BY <2>5 DEF ManufacturerAt, DeviceAt
    <3>2. halted' = "address" /\ probed' = probed
      BY <2>1, <2>2, <2>5, <3>1
    <3> QED
      BY <3>2 DEF ProbeInv
  <2> QED
    BY <2>3, <2>4, <2>5
<1>2. CASE WriteFlash \/ ReadFlashPart
  <2>1. probed' = probed /\ halted' \in {halted, "no", "width", "write"}
    BY <1>2 DEF WriteFlash, ReadFlashPart, flash
  <2> QED
    BY <2>1 DEF ProbeInv
<1>3. CASE ReadStatus \/ ReadData \/ Send \/ WriteStatus \/ OtherInsn \/ Tick \/ Reenter \/ Type
           \/ UNCHANGED vars
  <2>1. probed' = probed /\ halted' = halted
    BY <1>3 DEF ReadStatus, ReadData, Send, WriteStatus, OtherInsn, Tick, Reenter, Type, vars, flash
  <2> QED
    BY <2>1 DEF ProbeInv
<1> QED
  BY <1>1, <1>2, <1>3 DEF Next, Guest

\* A probe through the board's wiring finds the codes the emulation stores and
\* does not abort, and no data line is lost or doubled on its way to the chip
\* and back (lartmem.c:334, lartflash.h:6).
THEOREM FlashFound == Spec => []ProbeFinds
<1>1. ProbeInv => ProbeFinds
  <2> SUFFICES ASSUME ProbeInv PROVE ProbeFinds
    OBVIOUS
  <2>1. LinesRestored
    <3>1. \A i \in 0..31 : {i} \in SUBSET (0..31)
      OBVIOUS
    <3> QED
      BY <3>1, Restored DEF LinesRestored
  <2>2. Word(\h0089, \h0089) \in SUBSET (0..31) /\ Word(\h88f3, \h88f3) \in SUBSET (0..31)
    <3>1. \h0089 \in Nat /\ \h88f3 \in Nat
      OBVIOUS
    <3>2. Word(\h0089, \h0089) \subseteq 0..31
      BY <3>1, WordIs
    <3>3. Word(\h88f3, \h88f3) \subseteq 0..31
      BY <3>1, WordIs
    <3> QED
      BY <3>2, <3>3
  <2>3. /\ FLASH_TO_DATA(ManufacturerCode) = Word(\h0089, \h0089)
        /\ FLASH_TO_DATA(DeviceCode) = Word(\h88f3, \h88f3)
    BY <2>2, Restored DEF ManufacturerCode, DeviceCode
  <2>4. ASSUME NEW r \in probed PROVE <<r[1], FLASH_TO_DATA(r[2])>> \in DriverFinds
    <3>1. CASE r = <<ManufacturerAt, ManufacturerCode>>
      BY <2>3, <3>1 DEF DriverFinds
    <3>2. CASE r = <<DeviceAt, DeviceCode>>
      BY <2>3, <3>2 DEF DriverFinds
    <3> QED
      BY <3>1, <3>2 DEF ProbeInv
  <2> QED
    BY <2>1, <2>4 DEF ProbeInv, ProbeFinds
<1>2. Init => ProbeInv
  BY ProbeInit
<1>3. ProbeInv /\ [Next]_vars => ProbeInv'
  BY ProbeStep
<1> QED
  BY <1>1, <1>2, <1>3, PTL DEF Spec
=============================================================================
