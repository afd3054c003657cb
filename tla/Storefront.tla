----------------------------- MODULE Storefront -----------------------------
(***************************************************************************)
(* The flowers on offer: the catalog in the database and how a start seeds *)
(* it (runtime/bootstrap.py), the inventory the program keeps of it, and   *)
(* the catalog and product screens a customer chooses from.                *)
(*                                                                         *)
(* Every statement of the seeding commits by itself, and the program may   *)
(* end between two of them.  A slot's quantity is written when it is       *)
(* seeded and never again.  Of the sale, which VendingMachine models, only *)
(* its events are kept, and of the navigation, which KioskScreens models,  *)
(* only that back leads to some earlier screen.                            *)
(***************************************************************************)
EXTENDS Naturals, Sequences, SequencesExt

CONSTANTS
  Configurations,  \* the catalogs a start may be configured with: sequences of
                   \* items with product, slot, name, category, quantity, enabled
  LegacyProducts,  \* the products of the first demo catalog
  LegacyNames,     \* the names it shows them by
  MaxStarts,       \* bound on the lives of the program
  MaxReady         \* bound on the tasks that are ready

ASSUME StorefrontAssumption ==
  /\ \A c \in Configurations :
       /\ c # <<>> /\ Len(c) \in Nat /\ DOMAIN c = 1..Len(c)
       /\ \A i \in DOMAIN c : c[i].slot \in Nat /\ c[i].quantity \in Nat
                              /\ c[i].enabled \in BOOLEAN
  /\ MaxStarts \in Nat /\ MaxReady \in Nat

VARIABLES
  products, slots, \* the two tables
  life,            \* "off", "starting", "running"; "refused": by a foreign key
  starts,
  configured,      \* what the start seeds from; nothing if it is told not to
  todo,            \* the statements the start has still to execute
  menu, shelf,     \* InventoryService._products and _slots
  panel,           \* CatalogScreenWidget: its items, active category, selection
  window,          \* the screen that is shown
  card,            \* what the product screen is shown for
  current,         \* the navigation's current screen
  session,         \* the session's selected product and slot
  ready,           \* what the event loop will run next
  checkout,        \* what a checkout that waits for a device is for
  sale             \* the active sale: its phase and what it is of

tables == <<products, slots>>
inventoryVars == <<menu, shelf>>
customer == <<panel, window, card, current, session, ready>>
saleVars == <<checkout, sale>>
programVars == <<life, starts, configured, todo>>
storeVars == <<tables, programVars, inventoryVars, customer, saleVars>>

NoOffer == [product |-> "none", slot |-> 0]
NoSale == [phase |-> "none", offer |-> NoOffer]
EmptyPanel == [items |-> {}, category |-> "all", selected |-> NoOffer]
NoRows == [x \in {} |-> {}]

Init ==
  /\ products = NoRows /\ slots = NoRows
  /\ life = "off" /\ starts = 0 /\ todo = <<>>
  /\ configured = <<>>
  /\ menu = NoRows /\ shelf = NoRows
  /\ panel = EmptyPanel /\ window = "catalog" /\ card = NoOffer
  /\ current = "catalog" /\ session = NoOffer /\ ready = <<>>
  /\ checkout = NoOffer /\ sale = NoSale

(* ------------------------- Seeding the catalog ------------------------- *)

SeedProduct(item) ==
  [name |-> item.name, category |-> item.category, enabled |-> item.enabled]
SeedSlot(item) ==
  [product |-> item.product, quantity |-> item.quantity, enabled |-> item.enabled]

(* Slip: an old demo catalog is known by its products alone.               *)
ReplaceKnownProducts(rows) == DOMAIN rows = LegacyProducts

ShouldReplace(rows) ==
  \/ DOMAIN rows = LegacyProducts
  \/ \E p \in DOMAIN rows : rows[p].name \in LegacyNames

(* A row that is saved replaces the one under its key.                     *)
Upserted(rows, key, row) ==
  [k \in DOMAIN rows \cup {key} |-> IF k = key THEN row ELSE rows[k]]

(* The statements of _seed_catalog.                                        *)
Seeding(items) ==
  LET replaced == <<[do |-> "delete_slots"], [do |-> "delete_products"]>>
      saved == [n \in 1..(2 * Len(items)) |->
                  [do |-> IF n % 2 = 1 THEN "save_product" ELSE "save_slot",
                   item |-> items[(n + 1) \div 2]]]
  IN  IF DOMAIN products = {} THEN saved
      ELSE IF ShouldReplace(products) THEN replaced \o saved
      ELSE <<>>

Start ==
  /\ life \in {"off", "refused"} /\ starts < MaxStarts
  /\ starts' = starts + 1 /\ life' = "starting"
  /\ \E items \in Configurations, seeded \in BOOLEAN :
       IF seeded THEN configured' = items /\ todo' = Seeding(items)
       ELSE configured' = <<>> /\ todo' = <<>>
  /\ UNCHANGED <<tables, inventoryVars, customer, saleVars>>

Executing(what) ==
  /\ life = "starting" /\ todo # <<>> /\ Head(todo).do = what

(* A statement the foreign key of the slots forbids ends the start.        *)
Executed(allowed) ==
  /\ todo' = IF allowed THEN Tail(todo) ELSE <<>>
  /\ life' = IF allowed THEN life ELSE "refused"

SaveProduct ==
  /\ Executing("save_product") /\ Executed(TRUE)
  /\ LET item == Head(todo).item
     IN  products' = Upserted(products, item.product, SeedProduct(item))
  /\ UNCHANGED slots
SaveSlot ==
  /\ Executing("save_slot")
  /\ LET item == Head(todo).item
         allowed == item.product \in DOMAIN products
     IN  /\ Executed(allowed)
         /\ slots' = IF allowed THEN Upserted(slots, item.slot, SeedSlot(item)) ELSE slots
  /\ UNCHANGED products
DeleteSlots ==
  /\ Executing("delete_slots") /\ Executed(TRUE)
  /\ slots' = NoRows /\ UNCHANGED products
DeleteProducts ==
  /\ Executing("delete_products")
  /\ Executed(DOMAIN slots = {})
  /\ products' = IF DOMAIN slots = {} THEN NoRows ELSE products
  /\ UNCHANGED slots

Execute ==
  /\ SaveProduct \/ SaveSlot \/ DeleteSlots \/ DeleteProducts
  /\ UNCHANGED <<starts, configured, inventoryVars, customer, saleVars>>

(* -------------------------- What is on offer --------------------------- *)

Available(product, slot) == product.enabled /\ slot.enabled /\ slot.quantity > 0

(* What a tile of the catalog says of a slot of `stock`.                   *)
Tile(known, stock, s) ==
  [product |-> stock[s].product, slot |-> s,
   category |-> known[stock[s].product].category,
   enabled |-> Available(known[stock[s].product], stock[s])]

(* list_catalog: a slot without its product is skipped.                    *)
Entries(known, stock) ==
  {Tile(known, stock, s) : s \in {t \in DOMAIN stock : stock[t].product \in DOMAIN known}}
Offer(entry) == [product |-> entry.product, slot |-> entry.slot]

(* ensure_selection                                                        *)
Sellable(offer) ==
  /\ offer.product \in DOMAIN menu /\ menu[offer.product].enabled
  /\ offer.slot \in DOMAIN shelf /\ shelf[offer.slot].product = offer.product
  /\ shelf[offer.slot].enabled /\ shelf[offer.slot].quantity > 0

(* ------------------------- The catalog screen -------------------------- *)

Categories(items) == {"all"} \cup {i.category : i \in items}
Visible(items, category) == {i \in items : category \in {"all", i.category}}

(* Slip: the selection is kept while it is enabled, visible or not.        *)
EnsuredAnywhere(items, category, selected) ==
  IF selected \in {Offer(i) : i \in {j \in items : j.enabled}} THEN selected
  ELSE LET enabled == {i \in Visible(items, category) : i.enabled}
           first == CHOOSE i \in enabled : \A j \in enabled : i.slot <= j.slot
       IN  IF enabled = {} THEN NoOffer ELSE Offer(first)

(* The selection is kept while it is visible and enabled; the first that   *)
(* is, in the order of the slots, replaces it.                             *)
Ensured(items, category, selected) ==
  LET enabled == {i \in Visible(items, category) : i.enabled}
      first == CHOOSE i \in enabled : \A j \in enabled : i.slot <= j.slot
  IN  IF selected \in {Offer(i) : i \in enabled} THEN selected
      ELSE IF enabled = {} THEN NoOffer
      ELSE Offer(first)

Bind(items) ==
  LET category == IF panel.category \in Categories(items) THEN panel.category ELSE "all"
  IN  [items |-> items, category |-> category,
       selected |-> Ensured(items, category, panel.selected)]

(* A touch on the catalog acts at once.                                    *)
SelectCategory ==
  \E category \in Categories(panel.items) :
    panel' = [panel EXCEPT !.category = category,
                           !.selected = Ensured(panel.items, category, @)]
SelectProduct ==
  \E i \in Visible(panel.items, panel.category) :
    i.enabled /\ panel' = [panel EXCEPT !.selected = Offer(i)]

Touch ==
  /\ window = "catalog"
  /\ SelectCategory \/ SelectProduct
  /\ UNCHANGED <<tables, programVars, inventoryVars, window, card, current, session,
                 ready, saleVars>>

(* ------------------------------- Rendering ----------------------------- *)

(* The screen shown for the current one: a notice while sales are blocked; *)
(* the product screen of something that cannot be sold raises.             *)
Show(screen, selected) ==
  LET raises == screen = "product_details" /\ ~Sellable(selected)
  IN  /\ current' = screen /\ session' = selected
      /\ window' \in {IF raises THEN window ELSE screen, "notice"}
      /\ panel' = IF screen = "catalog" /\ window' = "catalog"
                  THEN Bind(Entries(menu, shelf)) ELSE panel
      /\ card' = IF window' # "product_details" THEN NoOffer
                 ELSE IF raises THEN card ELSE selected

(* ------------------------------- Presses ------------------------------- *)

Task(do, offer) == [do |-> do, offer |-> offer]
Free == Len(ready) < MaxReady
Turn(do) == ready # <<>> /\ Head(ready).do = do /\ ready' = Tail(ready)

(* The buttons of the screens; the item to buy is the selected one.        *)
Press ==
  /\ Free
  /\ \/ /\ window = "catalog" /\ panel.selected # NoOffer
        /\ ready' = Append(ready, Task("buy", panel.selected))
     \/ /\ window = "product_details"
        /\ \E do \in {"pay", "back"} : ready' = Append(ready, Task(do, NoOffer))
     \/ /\ window = "notice"
        /\ ready' = Append(ready, Task("home", NoOffer))
  /\ UNCHANGED <<tables, programVars, inventoryVars, panel, window, card, current,
                 session, saleVars>>

(* What has been sold out since raises, and the screen stays.              *)
ShowProductDetails ==
  /\ Turn("buy")
  /\ IF Sellable(Head(ready).offer)
     THEN Show("product_details", Head(ready).offer)
     ELSE UNCHANGED <<panel, window, card, current, session>>
  /\ UNCHANGED saleVars

StartCashCheckout ==
  /\ Turn("pay")
  /\ \/ /\ Sellable(session) /\ checkout = NoOffer /\ checkout' = session
        /\ UNCHANGED <<panel, window, card, current, session>>
     \/ Show("notice", session) /\ UNCHANGED checkout
  /\ UNCHANGED sale

Leave ==
  /\ \/ Turn("home") /\ Show("catalog", session)
     \/ /\ Turn("back")
        /\ \E screen \in {"catalog", "product_details", "payment", "dispensing", "notice"} :
             Show(screen, session)
  /\ UNCHANGED saleVars

(* ------------------------------- The sale ------------------------------ *)

Publish(event) == ready' = Append(ready, Task(event, NoOffer))

(* The presenter's handlers; "refresh" stands for the events that only     *)
(* show the current screen anew.                                           *)
Destination(event) ==
  CASE event = "go_to_payment" -> "payment"
    [] event \in {"payment_confirmed", "product_dispensed"} -> "dispensing"
    [] event = "transaction_ended" -> "catalog"
    [] event \in {"refused", "blocked"} -> "notice"
    [] event = "refresh" -> current
Events ==
  {"go_to_payment", "payment_confirmed", "product_dispensed", "transaction_ended",
   "refused", "blocked", "refresh"}
HandleEvent ==
  /\ \E event \in Events : Turn(event) /\ Show(Destination(event), session)
  /\ UNCHANGED saleVars

OtherEvent ==
  /\ Free /\ \E event \in {"refresh", "blocked"} : Publish(event)
  /\ UNCHANGED <<saleVars, inventoryVars>>

CheckoutEnds ==
  /\ Free /\ checkout # NoOffer /\ checkout' = NoOffer
  /\ \/ /\ sale = NoSale /\ sale' = [phase |-> "paying", offer |-> checkout]
        /\ Publish("go_to_payment")
     \/ Publish("refused") /\ UNCHANGED sale
  /\ UNCHANGED inventoryVars

PaymentConfirmed ==
  /\ Free /\ sale.phase = "paying" /\ sale' = [sale EXCEPT !.phase = "vending"]
  /\ Publish("payment_confirmed")
  /\ UNCHANGED <<checkout, inventoryVars>>

MarkVended(slot) == shelf' = [shelf EXCEPT ![slot].quantity = @ - 1]

(* Slip: the flower is taken off the shelf without an event.               *)
VendedQuietly ==
  /\ Free /\ sale.phase = "vending" /\ Sellable(sale.offer)
  /\ MarkVended(sale.offer.slot) /\ sale' = [sale EXCEPT !.phase = "vended"]
  /\ UNCHANGED <<checkout, menu, ready>>

(* mark_vended comes before the event; on an empty slot it raises.         *)
Vended ==
  /\ Free /\ sale.phase = "vending"
  /\ IF Sellable(sale.offer)
     THEN /\ MarkVended(sale.offer.slot) /\ sale' = [sale EXCEPT !.phase = "vended"]
          /\ Publish("product_dispensed")
     ELSE sale' = NoSale /\ UNCHANGED <<shelf, ready>>
  /\ UNCHANGED <<checkout, menu>>

(* It is picked up or cancelled, or an operator has to settle it.          *)
SaleEnds ==
  /\ Free /\ sale.phase \in {"paying", "vending", "vended"} /\ sale' = NoSale
  /\ Publish(IF sale.phase = "vending" THEN "blocked" ELSE "transaction_ended")
  /\ UNCHANGED <<checkout, inventoryVars>>

SaleStep == CheckoutEnds \/ PaymentConfirmed \/ Vended \/ SaleEnds

(* --------------------------- Lives of the program ---------------------- *)

(* _load_inventory_service, and the home screen.                           *)
Open ==
  /\ life = "starting" /\ todo = <<>> /\ life' = "running"
  /\ menu' = products /\ shelf' = slots
  /\ panel' = Bind(Entries(products, slots)) /\ window' = "catalog" /\ current' = "catalog"
  /\ UNCHANGED <<tables, starts, configured, todo, card, session, ready, saleVars>>

(* It may end at any moment.                                               *)
End ==
  /\ life \in {"starting", "running"} /\ life' = "off" /\ todo' = <<>>
  /\ menu' = NoRows /\ shelf' = NoRows
  /\ panel' = EmptyPanel /\ window' = "catalog" /\ card' = NoOffer
  /\ current' = "catalog" /\ session' = NoOffer /\ ready' = <<>>
  /\ checkout' = NoOffer /\ sale' = NoSale
  /\ UNCHANGED <<tables, starts, configured>>

Run ==
  /\ life = "running"
  /\ \/ Touch
     \/ Press
     \/ /\ ShowProductDetails \/ StartCashCheckout \/ Leave \/ HandleEvent
        /\ UNCHANGED <<tables, programVars, inventoryVars>>
     \/ /\ OtherEvent \/ SaleStep
        /\ UNCHANGED <<tables, programVars, panel, window, card, current, session>>

Next == Start \/ Execute \/ Open \/ End \/ Run
Spec == Init /\ [][Next]_storeVars

(* ------------------------------ Properties ----------------------------- *)

(* Wherever the program ended during earlier starts, no start is refused   *)
(* by the database, and a kiosk that seeds its catalog offers nothing of   *)
(* the first demo catalog, unless it is configured with it.                *)
SeedingSurvivesCrashes ==
  /\ life # "refused"
  /\ life = "running" /\ configured # <<>> =>
       \A p \in DOMAIN menu :
         menu[p].name \in LegacyNames =>
           \E i \in DOMAIN configured : configured[i].name \in LegacyNames

(* The purchase panel names a bouquet that is visible among the tiles and  *)
(* could be bought when they were drawn, whatever is touched and whatever  *)
(* changes behind the screen; it names none only if there is none.         *)
SelectionIsShown ==
  LET enabled == {Offer(i) : i \in {j \in Visible(panel.items, panel.category) : j.enabled}}
  IN  panel.selected \in enabled \/ (panel.selected = NoOffer /\ enabled = {})

(* What the shown screen offers.                                           *)
Offered ==
  CASE window = "catalog" -> {Offer(i) : i \in {j \in panel.items : j.enabled}}
    [] window = "product_details" -> {card}
    [] OTHER -> {}

(* What the shown screen offers is on the shelf, or the event that takes   *)
(* the screen away is on its way.                                          *)
OffersAreInStock ==
  \A offer \in Offered : Sellable(offer) \/ Contains(ready, Task("product_dispensed", NoOffer))
=============================================================================
