-------------------------- MODULE ReductionContract -------------------------
(***************************************************************************)
(* What the data reduction promises to the reader of the product           *)
(* catalogue, whoever produces it, however often and in whatever order:    *)
(* a product never disappears, never comes before what it was made from,   *)
(* and a run is reported as succeeded only with all it has to produce.     *)
(***************************************************************************)
CONSTANTS
  Product, Run,
  Inputs(_),     \* the products a product is made from
  ProductsOf(_)  \* the products of a run

VARIABLES
  catalogue,     \* products whose row is committed
  reported       \* runs reported as succeeded

ContractInit == catalogue = {} /\ reported = {}

\* Products join with, or after, their inputs.
Registers ==
  /\ catalogue \subseteq catalogue'
  /\ \A p \in catalogue' \ catalogue : Inputs(p) \subseteq catalogue'

\* A run joins when its products are there.  It may leave: a second worker
\* that fails after the first one succeeded marks the run failed.
Reports == \A r \in reported' \ reported : ProductsOf(r) \subseteq catalogue'

ContractNext == Registers /\ Reports

ContractSpec == ContractInit /\ [][ContractNext]_<<catalogue, reported>>
=============================================================================
