----------------------------- MODULE LartDevices -----------------------------
(***************************************************************************)
(* The serial port (mach/lart/sapcm.c) and the flash (mach/lart/lartmem.c) *)
(* of the LART machine, with the divided clock of the main loop            *)
(* (core/machine.c), someone who types in the terminal, and a guest whose  *)
(* drivers poll the port and probe the flash.  Characters are numbered in  *)
(* the order they are typed.                                               *)
(***************************************************************************)
EXTENDS LartFlash

CONSTANTS Period,     \* SERIALCLOCKPERIOD
          PollEvery,  \* the guest reads the status at least so often
          MaxTyped,   \* bound: characters typed
          Ptys        \* the terminal may be: open, or failed

ASSUME DevicesAssumption ==
  Period \in Nat /\ PollEvery \in Nat \ {0} /\ MaxTyped \in Nat

\* The guest looks once in a period: Period + 1 turns lie between two clocks, one
\* of them reads the status, the next the character.
LooksInTime == PollEvery <= Period

\* What the data register may hold besides a typed character: what malloc left
\* there, the zero of a failed read, a character the guest sent.
Junk == -1
NUL == 0
Own == -2

VARIABLES serialclock,           \* local variable of machine_start
          uart_data,
          rne, tnf,              \* bits 1 and 2 of uart_status_1
          pty,                   \* what openpty and select do
          typed, taken,          \* characters typed, read from the pty
          since, sees,           \* guest: turns since it read the status, what it saw
          heard, spoilt,         \* history: characters the guest read, or could
                                 \* not because it wrote to the register
          age,                   \* history: clocks since the last character
          flashmode, probed,     \* what the guest's probe has read, by address
          halted                 \* abort() has been called: why

host == <<pty, typed, taken>>
serial == <<uart_data, rne, tnf>>
driver == <<sees, heard, spoilt>>
flash == <<flashmode, probed>>
vars == <<serialclock, since, age, host, serial, driver, flash, halted>>

\* sa1100_serial_initialise: if openpty fails, the descriptor it should have set
\* stays what it was, the machine goes on, and select fails.
sa1100_serial_initialise == pty \in Ptys

\* memory_subinitialise: the registers are not cleared.
Init ==
  /\ serialclock = Period
  /\ uart_data = Junk /\ rne \in BOOLEAN /\ tnf \in BOOLEAN
  /\ sa1100_serial_initialise
  /\ typed = 0 /\ taken = 0
  /\ since = 0 /\ sees = "nothing"
  /\ heard = {} /\ spoilt = {} /\ age = 2
  /\ flashmode = READ_ARRAY /\ probed = {}
  /\ halted = "no"

----------------------------------------------------------------------------
(* Instructions of the guest's drivers *)

\* sa1100_serial_read of UTSR1; what is seen is acted on by the next instruction
ReadStatus ==
  /\ sees = "nothing"
  /\ sees' = IF rne THEN "receive" ELSE IF tnf THEN "transmit" ELSE "nothing"
  /\ since' = 0
  /\ UNCHANGED <<serial, heard, spoilt, flash, halted>>

\* sa1100_serial_read of UTDR: nothing but the register is read.
ReadData ==
  /\ sees = "receive"
  /\ heard' = heard \cup {uart_data}
  /\ sees' = "nothing"
  /\ UNCHANGED <<serial, spoilt, flash, halted>>

\* sa1100_serial_write of UTDR: there is one data register for both directions.
Send ==
  /\ sees = "transmit"
  /\ sees' = "nothing"
  /\ uart_data' = Own
  /\ spoilt' = spoilt \cup ({taken} \ heard)
  /\ UNCHANGED <<rne, tnf, heard, flash, halted>>

\* sa1100_serial_write of UTSR1, meant to clear errors: the flags are plain bits.
WriteStatus ==
  /\ sees = "nothing"
  /\ rne' \in {FALSE, rne} /\ tnf' \in {FALSE, tnf}
  /\ spoilt' = IF rne /\ ~rne' THEN spoilt \cup ({taken} \ heard) ELSE spoilt
  /\ UNCHANGED <<uart_data, sees, heard, flash, halted>>

\* memory_writerom0; anything but the two commands at address 0 aborts.
IdCommand == DATA_TO_FLASH(READ_ID_CODES)
ArrayCommand == DATA_TO_FLASH(READ_ARRAY)
FlashWrites == {{}, ADDR_TO_FLASH_U2({0})} \X {IdCommand, ArrayCommand, READ_ID_CODES}
WriteFlash ==
  /\ \E w \in FlashWrites :
       \/ /\ w = <<{}, IdCommand>>
          /\ flashmode' = READ_ID_CODES /\ UNCHANGED halted
       \/ /\ w = <<{}, ArrayCommand>>
          /\ flashmode' = READ_ARRAY /\ UNCHANGED halted
       \/ /\ w[1] # {} \/ w[2] \notin {IdCommand, ArrayCommand}
          /\ halted' = "write" /\ UNCHANGED flashmode
  /\ UNCHANGED <<serial, driver, probed>>

\* The codes memory_readrom0 answers with, by chip address
ManufacturerAt == {}
DeviceAt == {0}
ManufacturerCode == DATA_TO_FLASH(Word(\h0089, \h0089))
DeviceCode == DATA_TO_FLASH(Word(\h88f3, \h88f3))

\* memory_readrom0: the address lines are put in order again
Selected == [a \in {ManufacturerAt, DeviceAt, {1}} |-> FLASH_U2_TO_ADDR(ADDR_TO_FLASH_U2(a))]
Probe ==
  /\ flashmode = READ_ID_CODES
  /\ \E a \in DOMAIN Selected :
       \/ /\ Selected[a] = ManufacturerAt
          /\ probed' = probed \cup {<<a, ManufacturerCode>>}
          /\ UNCHANGED halted
       \/ /\ Selected[a] = DeviceAt
          /\ probed' = probed \cup {<<a, DeviceCode>>}
          /\ UNCHANGED halted
       \/ /\ Selected[a] \notin {ManufacturerAt, DeviceAt}
          /\ halted' = IF a = {1} THEN "address" ELSE "probe"
          /\ UNCHANGED probed
  /\ UNCHANGED <<serial, driver, flashmode>>

\* memory_readhalfrom0, memory_readbyterom0
ReadFlashPart ==
  /\ halted' = IF flashmode = READ_ARRAY THEN "no" ELSE "width"
  /\ UNCHANGED <<serial, driver, flash>>

\* Everything else, the registers of the other devices included
OtherInsn == UNCHANGED <<serial, driver, flash, halted>>

\* One turn of the loop.  A guest that has seen a flag acts at once, and it
\* looks at the status in time.
Guest ==
  /\ halted = "no" /\ serialclock >= 0
  /\ serialclock' = serialclock - 1
  /\ \/ ReadStatus
     \/ /\ since < PollEvery - 1 \/ sees # "nothing"
        /\ since' = IF since < PollEvery - 1 THEN since + 1 ELSE since
        /\ \/ ReadData \/ Send \/ WriteStatus
           \/ sees = "nothing" /\ (WriteFlash \/ Probe \/ ReadFlashPart \/ OtherInsn)
  /\ UNCHANGED <<age, host>>

----------------------------------------------------------------------------
(* sapcm_clock *)
Take(c) ==
  /\ uart_data' = c
  /\ rne' = TRUE

\* Mutant of Receive: a character waits until the one before it is gone.
Receive_queued ==
  IF typed > taken /\ ~rne
  THEN Take(taken + 1) /\ taken' = taken + 1 /\ age' = 0
  ELSE UNCHANGED <<uart_data, rne, taken>> /\ age' = IF age < 2 THEN age + 1 ELSE 2

\* Mutant of Receive: the flag stays until the guest clears it.
Receive_sticky ==
  IF typed > taken
  THEN Take(taken + 1) /\ taken' = taken + 1 /\ age' = 0
  ELSE UNCHANGED <<uart_data, rne, taken>> /\ age' = IF age < 2 THEN age + 1 ELSE 2

\* Mutant of Receive: it is read whether there is something or not.
Receive_blind == Take(taken + 1) /\ taken' = taken + 1 /\ age' = 0

\* A failed select counts as input.
Receive ==
  IF pty = "failed" THEN Take(NUL) /\ UNCHANGED taken /\ age' = 0
  ELSE IF typed > taken
  THEN Take(taken + 1) /\ taken' = taken + 1 /\ age' = 0
  ELSE /\ rne' = FALSE
       /\ UNCHANGED <<uart_data, taken>>
       /\ age' = IF age < 2 THEN age + 1 ELSE 2

\* Mutant of Due: the countdown is tested before it is taken down.
Due_early == serialclock < 1

Due == serialclock < 0

Tick ==
  /\ halted = "no" /\ Due
  /\ serialclock' = Period
  /\ Receive
  /\ tnf' = TRUE
  /\ UNCHANGED <<pty, typed, since, driver, flash, halted>>

\* A breakpoint or a step leaves machine_start; its local countdown restarts.
Reenter ==
  /\ halted = "no" /\ ~Due
  /\ serialclock' = Period
  /\ UNCHANGED <<since, age, host, serial, driver, flash, halted>>

Type ==
  /\ pty = "open" /\ typed < MaxTyped
  /\ typed' = typed + 1
  /\ UNCHANGED <<serialclock, pty, taken, since, age, serial, driver, flash, halted>>

Next == Guest \/ Tick \/ Reenter \/ Type

\* The loop executes instructions and clocks for ever; nobody has to type.
Spec == Init /\ [][Next]_vars /\ WF_vars(Guest) /\ WF_vars(Tick)

----------------------------------------------------------------------------
(* Properties *)

\* The registers, the countdown and the driver's state keep their types.
TypeOK ==
  /\ serialclock \in -1..Period /\ since \in 0..(PollEvery - 1) /\ age \in 0..2
  /\ taken \in 0..typed /\ typed \in 0..MaxTyped /\ pty \in Ptys
  /\ uart_data \in {Junk, NUL, Own} \cup 1..taken /\ rne \in BOOLEAN /\ tnf \in BOOLEAN
  /\ flashmode \in {READ_ARRAY, READ_ID_CODES}

\* A guest that looks at the status once in a period loses no character: the
\* clock does not overwrite the data register, or withdraw the flag, before the
\* character was read.  Only the guest's own writes can spoil one (sapcm.c:273).
NoneLost ==
  \A c \in 1..taken : \/ c \in heard \cup spoilt
                      \/ c = taken /\ (rne \/ sees = "receive")

\* What the guest reads as input is the character taken by the last clock or
\* the one before.  It is another one only if there was no terminal, no
\* character yet, or the guest's own character met one that had just arrived
\* in the register they share (sapcm.c:141).
HearsLatest ==
  [][(sees = "receive" /\ sees' = "nothing") =>
       \/ uart_data = taken /\ age <= 1
       \/ uart_data = Own /\ taken \in spoilt
       \/ pty = "failed"
       \/ uart_data = Junk /\ taken = 0]_vars

\* Every character typed reaches the guest, one in a period, unless the guest's
\* writes spoil it or the debugger keeps restarting the countdown.
TypedIsHeard ==
  \A c \in 1..MaxTyped :
    \/ []<><<Reenter>>_vars
    \/ (typed >= c) ~> (c \in heard \cup spoilt \/ halted # "no")

\* What the driver makes of the codes, and of each single line
DriverFinds == {<<ManufacturerAt, Word(\h0089, \h0089)>>, <<DeviceAt, Word(\h88f3, \h88f3)>>}
LinesRestored == \A i \in 0..31 : FLASH_TO_DATA(DATA_TO_FLASH({i})) = {i}

\* A probe through the board's wiring finds the codes the emulation stores and
\* does not abort, and no data line is lost or doubled on its way to the chip
\* and back (lartmem.c:334, lartflash.h:6).
ProbeFinds ==
  /\ halted # "probe"
  /\ \A r \in probed : <<r[1], FLASH_TO_DATA(r[2])>> \in DriverFinds
  /\ probed # {} => LinesRestored
=============================================================================
