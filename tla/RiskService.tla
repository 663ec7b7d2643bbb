---------------------------- MODULE RiskService -----------------------------
(***************************************************************************)
(* RiskService: the PV01 record of each product. Of that record the model  *)
(* keeps the quantity; the PV01 value is a fixed function of the product   *)
(* (GetPV01Value) that nothing in the flow changes.                        *)
(***************************************************************************)
EXTENDS PositionService

VARIABLE pv01s        \* map<string, PV01>: product -> quantity at risk

RiskTypeOK == IsMap(pv01s, ProductIds, Int)

RiskInit == pv01s = EmptyMap

\* The PV01 of a position.
RiskOf(product, held) ==
  [product |-> product, quantity |-> GetAggregatePosition(held)]

\* Mutant of StorePV01: the aggregate is added to the stored quantity.
StorePV01Accumulating(product, held) ==
  pv01s' = Put(pv01s, product,
               At(pv01s, product, 0) + GetAggregatePosition(held))

\* RiskService::AddPosition of the position of a product, up to the
\* notification of the listeners.
StorePV01(product, held) ==
  pv01s' = Put(pv01s, product, GetAggregatePosition(held))
=============================================================================
