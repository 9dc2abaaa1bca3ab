------------------------------- MODULE MCCatalog -------------------------------
(***************************************************************************)
(* A small instance of Catalog: a price in the product's currency and one  *)
(* converted, deleted in two chunks.                                       *)
(***************************************************************************)
EXTENDS Catalog

CONSTANTS usd, eur

TwoChunks == <<{usd}, {eur}>>
===============================================================================
