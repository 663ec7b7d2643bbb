------------------------------ MODULE Products ------------------------------
(***************************************************************************)
(* The product universe of products.hpp and functions.hpp as the services  *)
(* see it: a product is its identifier. GetBond maps the identifier an     *)
(* input line carries to the Bond that every later map is keyed by.        *)
(***************************************************************************)
CONSTANTS
  Cusips,   \* identifiers an input line may carry
  Bonds     \* the identifiers GetBond has a case for

\* The identifier of a default-constructed Bond.
NoBond == ""

ASSUME BondsAssumption == Bonds \subseteq Cusips /\ NoBond \notin Bonds

\* Mutant of GetBond: an unknown identifier is kept.
GetBondKeepsUnknown(cusip) == cusip

\* GetBond(_cusip): an identifier with no case leaves the Bond default-
\* constructed, so all unknown identifiers become one product, "".
GetBond(cusip) == IF cusip \in Bonds THEN cusip ELSE NoBond

\* The identifiers that can key a service's map.
ProductIds == Bonds \cup {NoBond}
=============================================================================
