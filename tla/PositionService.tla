-------------------------- MODULE PositionService ---------------------------
(***************************************************************************)
(* PositionService: for each product, the quantity held in each book.      *)
(* A trade arrives through AddTrade; the merged position is stored and     *)
(* handed to the listeners (the composition makes those calls).            *)
(***************************************************************************)
EXTENDS TradeBookingService, Functions

VARIABLE positions    \* map<string, Position>: product -> book -> quantity

(***************************************************************************)
(* class Position: a map from the books traded so far to their quantity.   *)
(***************************************************************************)
IsPosition(held) == IsMap(held, Books, Int)

\* Position::GetPosition: a book never traded holds 0.
GetPosition(held, book) == At(held, book, 0)

\* Mutant of AddToBook: positions[_book] = _position.
AddToBookOverwrites(held, book, quantity) == Put(held, book, quantity)

\* Position::AddPosition: positions[_book] += _position.
AddToBook(held, book, quantity) ==
  Put(held, book, GetPosition(held, book) + quantity)

\* Position::GetAggregatePosition: the sum over the books.
GetAggregatePosition(held) == SumFunction(held)

-----------------------------------------------------------------------------
PositionTypeOK ==
  /\ DOMAIN positions \subseteq ProductIds
  /\ \A product \in DOMAIN positions : IsPosition(positions[product])

PositionInit == positions = EmptyMap

\* The position stored for a product; reading an absent one yields no books.
PositionOf(product) == At(positions, product, EmptyMap)

\* The quantity held of a product in a book.
Held(product, book) == GetPosition(PositionOf(product), book)

\* Mutant of SignedQuantity: the side is ignored.
SignedQuantityNoSide(booked) == booked.quantity

\* What a trade adds to its book: BUY adds the quantity, SELL subtracts it.
SignedQuantity(booked) ==
  IF booked.side = "BUY" THEN booked.quantity ELSE -booked.quantity

\* Mutant of MergedPosition: the stored books are not merged in.
MergedPositionForgets(booked) ==
  AddToBook(EmptyMap, booked.book, SignedQuantity(booked))

\* Mutant of MergedPosition: the trade is added to the stored position too.
MergedPositionTwice(booked) ==
  LET stored == AddToBook(PositionOf(booked.product), booked.book,
                          SignedQuantity(booked))
  IN AddToBook(stored, booked.book, SignedQuantity(booked))

\* AddTrade's _positionTo: the trade merged with the stored position.
MergedPosition(booked) ==
  AddToBook(PositionOf(booked.product), booked.book, SignedQuantity(booked))

\* Mutant of StorePosition: map::insert, which keeps a value already there.
StorePositionOnce(booked) ==
  positions' = Put(positions, booked.product,
                   At(positions, booked.product, MergedPosition(booked)))

\* PositionService::AddTrade, up to the notification of the listeners.
StorePosition(booked) ==
  positions' = Put(positions, booked.product, MergedPosition(booked))
=============================================================================
