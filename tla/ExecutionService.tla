-------------------------- MODULE ExecutionService --------------------------
(***************************************************************************)
(* ExecutionService: the last order sent to the exchange, per product.     *)
(***************************************************************************)
EXTENDS AlgoExecutionService

VARIABLE executionOrders  \* map<string, ExecutionOrder>

ExecutionTypeOK == IsMap(executionOrders, ProductIds, ExecutionOrders)

ExecutionInit == executionOrders = EmptyMap

\* Mutant of StoreExecutionOrder: map::insert, which keeps what is there.
StoreExecutionOrderOnce(algoOrder) ==
  executionOrders' =
    Put(executionOrders, algoOrder.product,
        At(executionOrders, algoOrder.product, algoOrder))

\* ExecutionToAlgoExecutionListener::ProcessAdd: OnMessage and then
\* ExecuteOrder store the same order; ExecuteOrder then notifies.
StoreExecutionOrder(algoOrder) ==
  executionOrders' = Put(executionOrders, algoOrder.product, algoOrder)
=============================================================================
