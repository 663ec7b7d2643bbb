--------------------------- MODULE PriceNotation ----------------------------
(***************************************************************************)
(* Prices as the files write them and as the program keeps them. A text    *)
(* "99-16+" has a whole part, two digits of 32nds and one sign of 256ths,  *)
(* where "+" is half a 32nd. A price in memory is a double; all those of   *)
(* this program are whole numbers of half ticks of 1/256, which a double   *)
(* holds exactly, so the models count half ticks.                          *)
(***************************************************************************)
EXTENDS Integers

\* The signs a text may end in, and those of the digits 0 to 7.
DigitSign == <<"0", "1", "2", "3", "4", "5", "6", "7">>
Signs == {DigitSign[i] : i \in 1..8} \cup {"+"}

\* Texts that ConvertPrice(string) reads: a text of a negative price is not
\* one, for its first "-" is taken for the one after the whole part.
PriceTexts == [whole : Nat, thirtySeconds : 0..31, eighth : Signs]

\* ConvertPrice(string)'s case 3: a "+" is replaced by a "4".
EighthsOf(sign) ==
  IF sign = "+" THEN 4 ELSE (CHOOSE i \in 1..8 : DigitSign[i] = sign) - 1

\* ConvertPrice(string): the price of a text, in ticks.
TicksOf(text) ==
  256 * text.whole + 8 * text.thirtySeconds + EighthsOf(text.eighth)

\* ConvertPrice(double): the text of a price, half ticks cut off. floor takes
\* a negative price to the whole number below it.
ConvertPrice(halfTicks) ==
  LET ticks  == halfTicks \div 2
      eighth == ticks % 8
  IN [whole |-> ticks \div 256, thirtySeconds |-> (ticks % 256) \div 8,
      eighth |-> IF eighth = 4 THEN "+" ELSE DigitSign[eighth + 1]]

-----------------------------------------------------------------------------
\* The text the program prints for the price of another: a 4 becomes a "+".
Canonical(text) == [text EXCEPT !.eighth = IF @ = "4" THEN "+" ELSE @]

\* What ConvertPrice(double) prints, negative prices included.
PrintedTexts == [whole : Int, thirtySeconds : 0..31, eighth : Signs \ {"4"}]
=============================================================================
