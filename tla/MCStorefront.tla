---------------------------- MODULE MCStorefront ----------------------------
(***************************************************************************)
(* A small instance of Storefront for TLC: the first demo catalog, and one *)
(* that shares a product between two slots.                                *)
(***************************************************************************)
EXTENDS Storefront

Item(product, slot, name, category, quantity) ==
  [product |-> product, slot |-> slot, name |-> name, category |-> category,
   quantity |-> quantity, enabled |-> TRUE]

MCConfigurations ==
  { <<Item("rose_red", 1, "Red Roses", "roses", 1),
      Item("tulip_white", 2, "White Tulips", "tulips", 1)>>,
    <<Item("mixed", 2, "Mixed", "bouquets", 2), Item("mixed", 1, "Mixed", "bouquets", 1)>> }
MCLegacyProducts == {"rose_red", "tulip_white"}
MCLegacyNames == {"Red Roses", "White Tulips"}
=============================================================================
