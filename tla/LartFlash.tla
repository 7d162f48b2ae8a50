------------------------------ MODULE LartFlash ------------------------------
(***************************************************************************)
(* How the flash chips of the LART board are wired (lartflash.h): the data *)
(* and address lines reach the chips in another order.  A word is the set  *)
(* of its one bits.                                                        *)
(***************************************************************************)
EXTENDS Integers

\* The word with the upper half h and the lower half l
Word(h, l) == {i \in 0..15 : (l \div 2^i) % 2 = 1}
              \cup {16 + i : i \in {j \in 0..15 : (h \div 2^j) % 2 = 1}}

\* Each term of a macro is a mask and a distance to the left.  No two terms of
\* a macro set the same bit, so their sum is a union.
Left(x, n) == {i + n : i \in {j \in x : j + n \in 0..31}}
Moved(x, terms) == UNION {Left(x \cap t[1], t[2]) : t \in terms}

DATA_TO_FLASH(x) == Moved(x,
  {<<Word(\h0800, \h9000), -11>>, <<Word(\h0000, \h2000), -10>>, <<Word(\h0400, \h4000), -8>>,
   <<Word(\h0000, \h0010), -4>>,  <<Word(\h9100, \h0820), -3>>,  <<Word(\h2208, \h0080), -2>>,
   <<Word(\h4000, \h0400), 0>>,   <<Word(\h0004, \h0040), 1>>,   <<Word(\h0011, \h0000), 4>>,
   <<Word(\h0022, \h0100), 5>>,   <<Word(\h0080, \h0208), 6>>,   <<Word(\h0040, \h0004), 9>>,
   <<Word(\h0000, \h0001), 12>>,  <<Word(\h0000, \h0002), 13>>})

FLASH_TO_DATA(x) == Moved(x,
  {<<Word(\h0001, \h0012), 11>>,  <<Word(\h0000, \h0008), 10>>,  <<Word(\h0004, \h0040), 8>>,
   <<Word(\h0000, \h0001), 4>>,   <<Word(\h1220, \h0104), 3>>,   <<Word(\h0882, \h0020), 2>>,
   <<Word(\h4000, \h0400), 0>>,   <<Word(\h0008, \h0080), -1>>,  <<Word(\h0110, \h0000), -4>>,
   <<Word(\h0440, \h2000), -5>>,  <<Word(\h2000, \h8200), -6>>,  <<Word(\h8000, \h0800), -9>>,
   <<Word(\h0000, \h1000), -12>>, <<Word(\h0000, \h4000), -13>>})

\* The address lines of chip U2
ADDR_TO_FLASH_U2(x) == Moved(x,
  {<<Word(0, \h0f00), -4>>, <<Word(4, \h2000), 1>>, <<Word(9, \hc003), 2>>,
   <<Word(2, \h1080), 3>>,  <<Word(0, \h0010), 4>>, <<Word(0, \h0040), 5>>,
   <<Word(0, \h0024), 7>>,  <<Word(0, \h0008), 10>>})

\* Here a mask applies to what has been moved.
Back(x, terms) == UNION {Left(x, -t[2]) \cap t[1] : t \in terms}

\* Mutant of FLASH_U2_TO_ADDR: the first line is expected two lines higher.
FLASH_U2_TO_ADDR_crossed(x) == Back(x,
  {<<Word(0, \h0f00), -4>>, <<Word(4, \h2000), 1>>, <<Word(9, \hc002), 2>>,
   <<Word(2, \h1080), 3>>, <<Word(0, \h0011), 4>>, <<Word(0, \h0040), 5>>,
   <<Word(0, \h0024), 7>>, <<Word(0, \h0008), 10>>})

FLASH_U2_TO_ADDR(x) == Back(x,
  {<<Word(0, \h0f00), -4>>, <<Word(4, \h2000), 1>>, <<Word(9, \hc003), 2>>,
   <<Word(2, \h1080), 3>>,  <<Word(0, \h0010), 4>>, <<Word(0, \h0040), 5>>,
   <<Word(0, \h0024), 7>>,  <<Word(0, \h0008), 10>>})

READ_ARRAY    == Word(\h00FF, \h00FF)
READ_ID_CODES == Word(\h0090, \h0090)
=============================================================================
