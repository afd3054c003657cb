-------------------------- MODULE StorefrontProofs --------------------------
(***************************************************************************)
(* The storefront's properties for every set of configurations, every      *)
(* number of starts and of tasks: what a start seeds, wherever earlier     *)
(* ones ended; what the panel names; what the screens offer.               *)
(***************************************************************************)
EXTENDS Storefront, SequenceTheorems, WellFoundedInduction, TLAPS

(* -------------------------------- Types -------------------------------- *)

Items == UNION {{c[i] : i \in DOMAIN c} : c \in Configurations}
Known == {i.product : i \in Items}
Sorts == {"all"} \cup {i.category : i \in Items}
Offers == [product : Known \cup {"none"}, slot : Nat]
Statements == [do : {"delete_slots", "delete_products"}]
              \cup [do : {"save_product", "save_slot"}, item : Items]
SlotRows == [product : Known, quantity : Nat, enabled : BOOLEAN]
Tiles == [product : Known, slot : Nat, category : Sorts, enabled : BOOLEAN]
Panels == [items : SUBSET Tiles, category : Sorts, selected : Offers]
Tasks == [do : Events \cup {"buy", "pay", "back", "home"}, offer : Offers]

StockOK(known, stock) ==
  /\ \A p \in DOMAIN known : known[p].category \in Sorts
  /\ \A s \in DOMAIN stock : s \in Nat /\ stock[s] \in SlotRows
TypeOK ==
  /\ StockOK(products, slots) /\ StockOK(menu, shelf)
  /\ configured \in Configurations \cup {<<>>}
  /\ todo \in Seq(Statements)
  /\ panel \in Panels /\ session \in Offers
  /\ ready \in Seq(Tasks)

LEMMA ItemFacts ==
  \A item \in Items : /\ item.product \in Known /\ item.category \in Sorts
                      /\ item.slot \in Nat /\ item.quantity \in Nat
                      /\ item.enabled \in BOOLEAN
BY StorefrontAssumption DEF Items, Known, Sorts

LEMMA NoOfferIsOffer == NoOffer \in Offers
BY DEF NoOffer, Offers

LEMMA Halves ==
  ASSUME NEW L \in Nat, NEW n \in 1..(2 * L)
  PROVE  /\ (n + 1) \div 2 \in 1..L
         /\ n % 2 # 1 => n - 1 \in 1..(2 * L) /\ (n - 1) % 2 = 1
                         /\ ((n - 1) + 1) \div 2 = (n + 1) \div 2
OBVIOUS

(* Products come before the slots that hold them, and nothing is deleted   *)
(* that a slot still refers to.                                            *)
Ordered(steps, items) ==
  \A n \in 1..Len(steps) :
    /\ steps[n].do = "delete_products" => n = 2 /\ steps[1].do = "delete_slots"
    /\ steps[n].do = "save_slot" =>
         n > 1 /\ steps[n - 1].do = "save_product" /\ steps[n - 1].item = steps[n].item
    /\ steps[n].do \in {"save_product", "save_slot"} =>
         steps[n].item \in {items[i] : i \in DOMAIN items}

LEMMA SavedInOrder ==
  ASSUME NEW items \in Configurations
  PROVE  LET saved == [n \in 1..(2 * Len(items)) |->
                        [do |-> IF n % 2 = 1 THEN "save_product" ELSE "save_slot",
                         item |-> items[(n + 1) \div 2]]]
         IN  /\ saved \in Seq(Statements) /\ Len(saved) = 2 * Len(items)
             /\ \A n \in DOMAIN saved : saved[n].do \in {"save_product", "save_slot"}
             /\ Ordered(saved, items)
<1> DEFINE N == 2 * Len(items)
           saved == [n \in 1..N |->
                      [do |-> IF n % 2 = 1 THEN "save_product" ELSE "save_slot",
                       item |-> items[(n + 1) \div 2]]]
<1>1. Len(items) \in Nat /\ DOMAIN items = 1..Len(items) /\ N \in Nat BY StorefrontAssumption
<1>2. \A n \in 1..N : items[(n + 1) \div 2] \in {items[i] : i \in DOMAIN items}
  BY <1>1, Halves
<1>3. {items[i] : i \in DOMAIN items} \subseteq Items BY DEF Items
<1>4. saved \in [1..N -> Statements] BY <1>2, <1>3 DEF Statements
<1>5. saved \in Seq(Statements) /\ Len(saved) = N
  <2> HIDE DEF saved, N
  <2> QED BY <1>1, <1>4, LenProperties, SeqDef
<1>6. ASSUME NEW n \in 1..N, saved[n].do = "save_slot"
      PROVE  n > 1 /\ saved[n - 1].do = "save_product" /\ saved[n - 1].item = saved[n].item
  <2>1. n % 2 # 1 BY <1>6
  <2>2. n - 1 \in 1..N /\ (n - 1) % 2 = 1 /\ ((n - 1) + 1) \div 2 = (n + 1) \div 2
    BY <1>1, <2>1, Halves
  <2> QED BY <2>2, <1>1
<1>7. \A n \in 1..N : saved[n].do \in {"save_product", "save_slot"}
                      /\ saved[n].item \in {items[i] : i \in DOMAIN items}
  BY <1>2
<1>8. Ordered(saved, items)
  <2> HIDE DEF saved
  <2> QED BY <1>5, <1>6, <1>7 DEF Ordered
<1> QED BY <1>5, <1>7, <1>8

LEMMA SeedingInOrder ==
  ASSUME NEW items \in Configurations
  PROVE  /\ Seeding(items) \in Seq(Statements) /\ Ordered(Seeding(items), items)
         /\ \/ \E n \in DOMAIN Seeding(items) : Seeding(items)[n].do = "delete_products"
            \/ \A p \in DOMAIN products : products[p].name \notin LegacyNames
<1> DEFINE N == 2 * Len(items)
           replaced == <<[do |-> "delete_slots"], [do |-> "delete_products"]>>
           saved == [n \in 1..N |->
                      [do |-> IF n % 2 = 1 THEN "save_product" ELSE "save_slot",
                       item |-> items[(n + 1) \div 2]]]
           both == replaced \o saved
<1>1. N \in Nat BY StorefrontAssumption
<1>2. /\ saved \in Seq(Statements) /\ Len(saved) = N
      /\ \A n \in DOMAIN saved : saved[n].do \in {"save_product", "save_slot"}
      /\ Ordered(saved, items)
  BY SavedInOrder
<1>3. /\ replaced \in Seq(Statements) /\ Len(replaced) = 2
      /\ replaced[1].do = "delete_slots" /\ replaced[2].do = "delete_products"
  BY DEF Statements
<1>4. CASE DOMAIN products = {}
  <2>1. Seeding(items) = saved BY <1>4 DEF Seeding
  <2> HIDE DEF saved
  <2> QED BY <1>2, <1>4, <2>1
<1>5. CASE DOMAIN products # {} /\ ShouldReplace(products)
  <2>1. Seeding(items) = both BY <1>5 DEF Seeding
  <2> HIDE DEF replaced, saved, N
  <2>2. /\ both \in Seq(Statements) /\ Len(both) = 2 + N
        /\ \A n \in 1..(2 + N) : both[n] = IF n <= 2 THEN replaced[n] ELSE saved[n - 2]
    <3>1. /\ both \in Seq(Statements) /\ Len(both) = Len(replaced) + Len(saved)
          /\ \A n \in 1..(Len(replaced) + Len(saved)) :
               both[n] = IF n <= Len(replaced) THEN replaced[n] ELSE saved[n - Len(replaced)]
      BY <1>2, <1>3, ConcatProperties, Zenon
    <3> HIDE DEF both
    <3> QED BY <1>2, <1>3, <3>1
  <2> HIDE DEF both
  <2>3. \A n \in 1..(2 + N) :
          n > 2 => /\ n - 2 \in 1..N /\ both[n] = saved[n - 2]
                   /\ n > 3 => both[n - 1] = saved[(n - 2) - 1]
    <3> TAKE n \in 1..(2 + N)
    <3> HAVE n > 2
    <3>1. n - 2 \in 1..N /\ both[n] = saved[n - 2] BY <1>1, <2>2
    <3>2. ASSUME n > 3 PROVE both[n - 1] = saved[(n - 2) - 1]
      <4>1. n - 1 \in 1..(2 + N) /\ ~(n - 1 <= 2) /\ (n - 1) - 2 = (n - 2) - 1 BY <1>1, <3>2
      <4> QED BY <2>2, <4>1
    <3> QED BY <3>1, <3>2
  <2>4. DOMAIN saved = 1..N /\ DOMAIN both = 1..(2 + N) BY <1>2, <2>2, LenProperties
  <2>5. Ordered(both, items)
    <3> SUFFICES ASSUME NEW n \in 1..(2 + N)
          PROVE /\ both[n].do = "delete_products" => n = 2 /\ both[1].do = "delete_slots"
                /\ both[n].do = "save_slot" =>
                     n > 1 /\ both[n - 1].do = "save_product" /\ both[n - 1].item = both[n].item
                /\ both[n].do \in {"save_product", "save_slot"} =>
                     both[n].item \in {items[i] : i \in DOMAIN items}
      BY <2>2 DEF Ordered
    <3>1. both[1].do = "delete_slots" BY <1>1, <1>3, <2>2
    <3>2. CASE n <= 2 BY <1>1, <1>3, <2>2, <3>1, <3>2
    <3>3. CASE n > 2
      <4>1. n - 2 \in 1..N /\ both[n] = saved[n - 2] BY <2>3, <3>3
      <4>2. n = 3 => both[n].do # "save_slot" BY <1>1, <1>2, <4>1 DEF Ordered
      <4>3. n > 3 => both[n - 1] = saved[(n - 2) - 1] BY <2>3
      <4> QED BY <1>1, <1>2, <2>4, <3>3, <4>1, <4>2, <4>3 DEF Ordered
    <3> QED BY <3>2, <3>3, <1>1
  <2>6. 2 \in DOMAIN both /\ both[2].do = "delete_products" BY <1>1, <1>3, <2>2, <2>4
  <2> QED BY <2>1, <2>2, <2>5, <2>6, Zenon
<1>6. CASE DOMAIN products # {} /\ ~ShouldReplace(products)
  <2>1. Seeding(items) = <<>> BY <1>6 DEF Seeding
  <2>2. \A p \in DOMAIN products : products[p].name \notin LegacyNames
    BY <1>6 DEF ShouldReplace
  <2> QED BY <2>1, <2>2 DEF Ordered
<1> QED BY <1>4, <1>5, <1>6

(* ---------------------------- What is shown ---------------------------- *)

LEMMA Least ==
  ASSUME NEW T, T \subseteq Nat, T # {}
  PROVE  \E x \in T : \A y \in T : x <= y
<1> DEFINE R == OpToRel(<, Nat)
<1>1. IsWellFoundedOn(R, Nat) BY NatLessThanWellFounded
<1>2. \A x, y \in Nat : x < y => <<x, y>> \in R BY DEF OpToRel
<1> HIDE DEF R
<1>3. PICK x \in T : \A y \in T : ~(<<y, x>> \in R) BY <1>1, WFMin
<1>4. ASSUME NEW y \in T PROVE x <= y
  <2>1. ~(y < x) BY <1>2, <1>3, Zenon
  <2> QED BY <2>1
<1> QED BY <1>4

(* The bouquets a panel shows and that can be bought.                      *)
Buyable(items, category) ==
  {Offer(i) : i \in {j \in Visible(items, category) : j.enabled}}
Names(items, category, selected) ==
  \/ selected \in Buyable(items, category)
  \/ selected = NoOffer /\ Buyable(items, category) = {}

LEMMA OffersOfTiles == \A i \in Tiles : Offer(i) \in Offers
BY DEF Offer, Offers, Tiles

LEMMA EnsuredIsShown ==
  ASSUME NEW items \in SUBSET Tiles, NEW category, NEW selected
  PROVE  /\ Ensured(items, category, selected) \in Offers
         /\ Names(items, category, Ensured(items, category, selected))
<1> DEFINE enabled == {i \in Visible(items, category) : i.enabled}
           IsFirst(i) == \A j \in enabled : i.slot <= j.slot
           first == CHOOSE i \in enabled : IsFirst(i)
           ensured == Ensured(items, category, selected)
<1>1. enabled \subseteq Tiles BY DEF Visible
<1>2. ensured = IF selected \in {Offer(i) : i \in enabled} THEN selected
                ELSE IF enabled = {} THEN NoOffer ELSE Offer(first)
  BY DEF Ensured
<1>3. ASSUME enabled # {} PROVE first \in enabled
  <2> DEFINE T == {i.slot : i \in enabled}
  <2>1. T \subseteq Nat /\ T # {} BY <1>1, <1>3 DEF Tiles
  <2>2. PICK x \in T : \A y \in T : x <= y
    <3> HIDE DEF T
    <3> QED BY <2>1, Least
  <2>3. \E i \in enabled : IsFirst(i) BY <2>2
  <2> HIDE DEF IsFirst, enabled
  <2> QED BY <2>3
<1> HIDE DEF first
<1>4. Buyable(items, category) = {Offer(i) : i \in enabled} BY DEF Buyable
<1> HIDE DEF enabled, ensured
<1> QED BY <1>1, <1>2, <1>3, <1>4, OffersOfTiles, NoOfferIsOffer DEF Names, ensured

LEMMA BoundPanel ==
  ASSUME panel \in Panels, NEW items \in SUBSET Tiles
  PROVE  /\ Bind(items) \in Panels /\ Bind(items).items = items
         /\ Names(Bind(items).items, Bind(items).category, Bind(items).selected)
<1> DEFINE category == IF panel.category \in Categories(items) THEN panel.category ELSE "all"
           selected == Ensured(items, category, panel.selected)
<1>1. category \in Sorts BY DEF Panels, Sorts
<1>2. selected \in Offers /\ Names(items, category, selected) BY EnsuredIsShown
<1>3. Bind(items) = [items |-> items, category |-> category, selected |-> selected]
  BY DEF Bind
<1> HIDE DEF category, selected
<1> QED BY <1>1, <1>2, <1>3 DEF Panels

LEMMA EntriesAreTiles ==
  ASSUME NEW known, NEW stock, StockOK(known, stock)
  PROVE  Entries(known, stock) \in SUBSET Tiles
<1> SUFFICES ASSUME NEW s \in DOMAIN stock, stock[s].product \in DOMAIN known
             PROVE  Tile(known, stock, s) \in Tiles
  BY DEF Entries
<1>1. /\ s \in Nat /\ stock[s].product \in Known
      /\ known[stock[s].product].category \in Sorts
  BY DEF StockOK, SlotRows
<1>2. Available(known[stock[s].product], stock[s]) \in BOOLEAN BY DEF Available
<1> QED BY <1>1, <1>2 DEF Tile, Tiles

(* What is shown anew can be sold, or has been shown before.               *)
LEMMA ShowKeeps ==
  ASSUME TypeOK, SelectionIsShown, NEW screen, NEW selected \in Offers,
         Show(screen, selected)
  PROVE  /\ panel' \in Panels /\ session' \in Offers /\ SelectionIsShown'
         /\ \A o \in Offered' : o \in Offered \/ Sellable(o)
         /\ screen \notin {"catalog", "product_details"} => Offered' = {}
<1> DEFINE entries == Entries(menu, shelf)
           raises == screen = "product_details" /\ ~Sellable(selected)
<1>1. entries \in SUBSET Tiles BY EntriesAreTiles DEF TypeOK
<1>2. /\ Bind(entries) \in Panels /\ Bind(entries).items = entries
      /\ Names(Bind(entries).items, Bind(entries).category, Bind(entries).selected)
  BY <1>1, BoundPanel DEF TypeOK
<1>3. /\ session' = selected /\ window' \in {IF raises THEN window ELSE screen, "notice"}
      /\ panel' = IF screen = "catalog" /\ window' = "catalog" THEN Bind(entries) ELSE panel
      /\ card' = IF window' # "product_details" THEN NoOffer
                 ELSE IF raises THEN card ELSE selected
  BY DEF Show
<1>4. panel' \in Panels BY <1>2, <1>3 DEF TypeOK
<1>5. SelectionIsShown'
  <2>1. CASE panel' = panel BY <2>1 DEF SelectionIsShown
  <2>2. CASE panel' = Bind(entries)
    BY <1>2, <2>2 DEF SelectionIsShown, Names, Buyable
  <2> QED BY <1>3, <2>1, <2>2
<1>6. ASSUME NEW i \in entries, i.enabled PROVE Sellable(Offer(i))
  <2>1. PICK s \in DOMAIN shelf : shelf[s].product \in DOMAIN menu /\ i = Tile(menu, shelf, s)
    BY <1>6 DEF Entries
  <2>2. /\ i.product = shelf[s].product /\ i.slot = s
        /\ i.enabled = Available(menu[shelf[s].product], shelf[s])
    BY <2>1 DEF Tile
  <2>3. menu[shelf[s].product].enabled /\ shelf[s].enabled /\ shelf[s].quantity > 0
    BY <1>6, <2>2 DEF Available
  <2> HIDE DEF entries
  <2> QED BY <2>1, <2>2, <2>3 DEF Offer, Sellable
<1>7. ASSUME NEW o \in Offered' PROVE o \in Offered \/ Sellable(o)
  <2>1. CASE window' = "catalog" /\ screen = "catalog"
    BY <1>2, <1>3, <1>6, <1>7, <2>1 DEF Offered
  <2>2. CASE window' = "catalog" /\ screen # "catalog"
    <3>1. window = "catalog" /\ panel' = panel BY <1>3, <2>2
    <3> QED BY <1>7, <2>2, <3>1 DEF Offered
  <2>3. CASE window' = "product_details" /\ raises
    <3>1. window = "product_details" /\ card' = card BY <1>3, <2>3
    <3> QED BY <1>7, <2>3, <3>1 DEF Offered
  <2>4. CASE window' = "product_details" /\ ~raises
    <3>1. screen = "product_details" /\ card' = selected BY <1>3, <2>4
    <3> QED BY <1>7, <2>4, <3>1 DEF Offered
  <2>5. CASE window' \notin {"catalog", "product_details"} BY <1>7, <2>5 DEF Offered
  <2> QED BY <2>1, <2>2, <2>3, <2>4, <2>5
<1>8. ASSUME screen \notin {"catalog", "product_details"} PROVE Offered' = {}
  BY <1>3, <1>8 DEF Offered
<1> HIDE DEF entries, raises
<1> QED BY <1>3, <1>4, <1>5, <1>7, <1>8

(* The event that a flower was vended is on its way.                       *)
VendedSoon == Contains(ready, Task("product_dispensed", NoOffer))

LEMMA Appended ==
  ASSUME ready \in Seq(Tasks), NEW task \in Tasks, ready' = Append(ready, task)
  PROVE  /\ ready' \in Seq(Tasks) /\ (VendedSoon => VendedSoon')
         /\ task = Task("product_dispensed", NoOffer) => VendedSoon'
<1>1. /\ Len(ready) \in Nat /\ Len(ready') = Len(ready) + 1 /\ ready' \in Seq(Tasks)
      /\ \A i \in 1..Len(ready) : ready'[i] = ready[i]
      /\ ready'[Len(ready) + 1] = task
  BY AppendProperties, LenProperties
<1>2. \A i \in 1..Len(ready) : i \in 1..(Len(ready) + 1) BY <1>1
<1>3. Len(ready) + 1 \in 1..(Len(ready) + 1) BY <1>1
<1> QED BY <1>1, <1>2, <1>3 DEF VendedSoon, Contains

LEMMA Taken ==
  ASSUME ready \in Seq(Tasks), NEW do, Turn(do)
  PROVE  /\ ready' \in Seq(Tasks) /\ Head(ready) \in Tasks /\ Head(ready).do = do
         /\ do # "product_dispensed" => (VendedSoon => VendedSoon')
<1>1. ready # <<>> /\ Head(ready).do = do /\ ready' = Tail(ready) BY DEF Turn
<1>2. /\ Head(ready) \in Tasks /\ ready' \in Seq(Tasks)
      /\ Len(ready') = Len(ready) - 1 /\ Len(ready) \in Nat
      /\ \A i \in 1..Len(ready') : ready'[i] = ready[i + 1]
  BY <1>1, HeadTailProperties, LenProperties
<1>3. ASSUME VendedSoon, do # "product_dispensed" PROVE VendedSoon'
  <2>1. PICK i \in 1..Len(ready) : ready[i] = Task("product_dispensed", NoOffer)
    BY <1>3 DEF VendedSoon, Contains
  <2>2. i # 1 BY <1>1, <1>3, <2>1 DEF Task
  <2>3. i - 1 \in 1..Len(ready') /\ (i - 1) + 1 = i BY <1>2, <2>2
  <2>4. ready'[i - 1] = Task("product_dispensed", NoOffer) BY <1>2, <2>1, <2>3
  <2> QED BY <2>3, <2>4 DEF VendedSoon, Contains
<1> QED BY <1>1, <1>2, <1>3

(* ---------------------------- The invariant ---------------------------- *)

ShopInv == TypeOK /\ SelectionIsShown /\ OffersAreInStock

(* A task of the event loop shows a screen.                                *)
LEMMA TaskShows ==
  ASSUME ShopInv, NEW do, Turn(do), UNCHANGED <<tables, programVars, inventoryVars>>,
         NEW screen, NEW selected \in Offers, Show(screen, selected),
         do = "product_dispensed" => screen \notin {"catalog", "product_details"}
  PROVE  ShopInv'
<1> USE DEF ShopInv, tables, programVars, inventoryVars
<1>1. ready' \in Seq(Tasks) /\ (do # "product_dispensed" => (VendedSoon => VendedSoon'))
  BY Taken DEF TypeOK
<1>2. \A o : Sellable(o)' <=> Sellable(o) BY DEF Sellable
<1>3. \A o \in Offered : Sellable(o) \/ VendedSoon BY DEF OffersAreInStock, VendedSoon
<1>4. /\ panel' \in Panels /\ session' \in Offers /\ SelectionIsShown'
      /\ \A o \in Offered' : o \in Offered \/ Sellable(o)
      /\ screen \notin {"catalog", "product_details"} => Offered' = {}
  BY ShowKeeps
<1>5. TypeOK' BY <1>1, <1>4 DEF TypeOK, StockOK
<1>6. \A o \in Offered' : Sellable(o)' \/ VendedSoon' BY <1>1, <1>2, <1>3, <1>4
<1> QED BY <1>4, <1>5, <1>6 DEF OffersAreInStock, VendedSoon

(* A task of the event loop leaves the screen.                             *)
LEMMA TaskStays ==
  ASSUME ShopInv, NEW do, Turn(do), UNCHANGED <<tables, programVars, inventoryVars>>,
         UNCHANGED <<panel, window, card, current, session>>, do # "product_dispensed"
  PROVE  ShopInv'
<1> USE DEF ShopInv, tables, programVars, inventoryVars
<1>1. ready' \in Seq(Tasks) /\ (VendedSoon => VendedSoon') BY Taken DEF TypeOK
<1>2. \A o : Sellable(o)' <=> Sellable(o) BY DEF Sellable
<1>3. TypeOK' BY <1>1 DEF TypeOK, StockOK
<1>4. SelectionIsShown' BY DEF SelectionIsShown
<1>5. Offered' = Offered BY DEF Offered
<1> QED BY <1>1, <1>2, <1>3, <1>4, <1>5 DEF OffersAreInStock, VendedSoon

(* An event changes no screen by itself.                                   *)
LEMMA PublishKeeps ==
  ASSUME ShopInv, NEW event \in Events, Publish(event),
         UNCHANGED <<tables, programVars, panel, window, card, current, session>>,
         StockOK(menu, shelf)',
         UNCHANGED inventoryVars \/ event = "product_dispensed"
  PROVE  ShopInv'
<1> USE DEF ShopInv, tables, programVars
<1>1. Task(event, NoOffer) \in Tasks BY NoOfferIsOffer DEF Task, Tasks
<1>2. /\ ready' \in Seq(Tasks) /\ (VendedSoon => VendedSoon')
      /\ event = "product_dispensed" => VendedSoon'
  BY <1>1, Appended DEF Publish, TypeOK
<1>3. TypeOK' BY <1>2 DEF TypeOK, StockOK
<1>4. SelectionIsShown' BY DEF SelectionIsShown
<1>5. Offered' = Offered BY DEF Offered
<1>6. UNCHANGED inventoryVars => \A o : Sellable(o)' <=> Sellable(o)
  BY DEF Sellable, inventoryVars
<1> QED BY <1>2, <1>3, <1>4, <1>5, <1>6 DEF OffersAreInStock, VendedSoon

shopVars == <<tables, configured, todo, inventoryVars, customer>>

LEMMA ShopUnchanged == ASSUME ShopInv, UNCHANGED shopVars PROVE ShopInv'
<1> USE DEF ShopInv, shopVars, tables, inventoryVars, customer
<1>1. TypeOK' BY DEF TypeOK, StockOK
<1>2. SelectionIsShown' BY DEF SelectionIsShown
<1>3. OffersAreInStock' BY DEF OffersAreInStock, Offered, Sellable
<1> QED BY <1>1, <1>2, <1>3

(* What only the tables and the seeding change keeps what is shown.        *)
LEMMA ShownUnchanged ==
  ASSUME ShopInv, UNCHANGED <<inventoryVars, customer>>,
         StockOK(products, slots)', configured' \in Configurations \cup {<<>>},
         todo' \in Seq(Statements)
  PROVE  ShopInv'
<1> USE DEF ShopInv, inventoryVars, customer
<1>1. TypeOK' BY DEF TypeOK, StockOK
<1>2. SelectionIsShown' BY DEF SelectionIsShown
<1>3. OffersAreInStock' BY DEF OffersAreInStock, Offered, Sellable
<1> QED BY <1>1, <1>2, <1>3

LEMMA ShopStart == ASSUME ShopInv, Start PROVE ShopInv'
<1>1. PICK items \in Configurations, seeded \in BOOLEAN :
        IF seeded THEN configured' = items /\ todo' = Seeding(items)
        ELSE configured' = <<>> /\ todo' = <<>>
  BY DEF Start
<1>2. Seeding(items) \in Seq(Statements) /\ <<>> \in Seq(Statements) BY SeedingInOrder, EmptySeq
<1>3. StockOK(products, slots)' BY DEF Start, tables, ShopInv, TypeOK, StockOK
<1> QED BY <1>1, <1>2, <1>3, ShownUnchanged DEF Start

LEMMA TodoFacts ==
  ASSUME todo \in Seq(Statements), NEW what, Executing(what)
  PROVE  /\ todo # <<>> /\ Head(todo) = todo[1] /\ todo[1].do = what
         /\ Len(todo) \in Nat /\ DOMAIN todo = 1..Len(todo) /\ 1 \in 1..Len(todo)
         /\ todo[1] \in Statements /\ Tail(todo) \in Seq(Statements)
         /\ DOMAIN Tail(todo) = 1..(Len(todo) - 1)
         /\ \A n \in 1..(Len(todo) - 1) : Tail(todo)[n] = todo[n + 1]
         /\ what \in {"save_product", "save_slot"} => todo[1].item \in Items
<1>1. todo # <<>> /\ Head(todo).do = what BY DEF Executing
<1>2. Len(todo) \in Nat \ {0} /\ DOMAIN todo = 1..Len(todo) BY <1>1, EmptySeq, LenProperties
<1>3. Head(todo) = todo[1] BY <1>1, <1>2
<1>4. todo[1] \in Statements BY <1>2, ElementOfSeq
<1>5. /\ Tail(todo) \in Seq(Statements) /\ Len(Tail(todo)) = Len(todo) - 1
      /\ \A n \in 1..Len(Tail(todo)) : Tail(todo)[n] = todo[n + 1]
  BY <1>1, HeadTailProperties
<1>6. DOMAIN Tail(todo) = 1..Len(Tail(todo)) BY <1>5, LenProperties
<1>7. what \in {"save_product", "save_slot"} => todo[1].item \in Items
  BY <1>1, <1>3, <1>4 DEF Statements
<1> QED BY <1>1, <1>2, <1>3, <1>4, <1>5, <1>6, <1>7

LEMMA ShopExecute == ASSUME ShopInv, Execute PROVE ShopInv'
<1>1. todo \in Seq(Statements) /\ StockOK(products, slots) BY DEF ShopInv, TypeOK
<1>2. <<>> \in Seq(Statements) BY EmptySeq
<1>3. CASE SaveProduct
  <2>1. Tail(todo) \in Seq(Statements) /\ Head(todo).item \in Items
    BY <1>1, <1>3, TodoFacts DEF SaveProduct
  <2>2. StockOK(products, slots)'
    BY <1>1, <1>3, <2>1, ItemFacts DEF SaveProduct, StockOK, Upserted, SeedProduct
  <2> QED BY <1>2, <1>3, <2>1, <2>2, ShownUnchanged DEF Execute, SaveProduct, Executed, ShopInv, TypeOK
<1>4. CASE SaveSlot
  <2>1. Tail(todo) \in Seq(Statements) /\ Head(todo).item \in Items
    BY <1>1, <1>4, TodoFacts DEF SaveSlot
  <2>2. SeedSlot(Head(todo).item) \in SlotRows /\ Head(todo).item.slot \in Nat
    BY <2>1, ItemFacts DEF SeedSlot, SlotRows
  <2>3. StockOK(products, slots)'
    BY <1>1, <1>4, <2>1, <2>2 DEF SaveSlot, StockOK, Upserted
  <2> QED BY <1>2, <1>4, <2>1, <2>3, ShownUnchanged DEF Execute, SaveSlot, Executed, ShopInv, TypeOK
<1>5. CASE DeleteSlots
  <2>1. Tail(todo) \in Seq(Statements) BY <1>1, <1>5, TodoFacts DEF DeleteSlots
  <2>2. StockOK(products, slots)' BY <1>1, <1>5 DEF DeleteSlots, StockOK, NoRows
  <2> QED BY <1>2, <1>5, <2>1, <2>2, ShownUnchanged DEF Execute, DeleteSlots, Executed, ShopInv, TypeOK
<1>6. CASE DeleteProducts
  <2>1. Tail(todo) \in Seq(Statements) BY <1>1, <1>6, TodoFacts DEF DeleteProducts
  <2>2. StockOK(products, slots)' BY <1>1, <1>6 DEF DeleteProducts, StockOK, NoRows
  <2> QED BY <1>2, <1>6, <2>1, <2>2, ShownUnchanged DEF Execute, DeleteProducts, Executed, ShopInv, TypeOK
<1> QED BY <1>3, <1>4, <1>5, <1>6 DEF Execute

LEMMA ShopOpen == ASSUME ShopInv, Open PROVE ShopInv'
<1> DEFINE entries == Entries(products, slots)
<1>1. entries \in SUBSET Tiles BY EntriesAreTiles DEF ShopInv, TypeOK
<1>2. /\ Bind(entries) \in Panels /\ Bind(entries).items = entries
      /\ Names(Bind(entries).items, Bind(entries).category, Bind(entries).selected)
  BY <1>1, BoundPanel DEF ShopInv, TypeOK
<1>3. panel' = Bind(entries) /\ window' = "catalog" /\ menu' = products /\ shelf' = slots
  BY DEF Open
<1>4. TypeOK' BY <1>2, <1>3 DEF ShopInv, TypeOK, StockOK, Open, tables
<1>5. SelectionIsShown' BY <1>2, <1>3 DEF SelectionIsShown, Names, Buyable
<1>6. ASSUME NEW i \in entries, i.enabled PROVE Sellable(Offer(i))'
  <2>1. PICK s \in DOMAIN slots : slots[s].product \in DOMAIN products /\ i = Tile(products, slots, s)
    BY <1>6 DEF Entries
  <2>2. /\ i.product = slots[s].product /\ i.slot = s
        /\ i.enabled = Available(products[slots[s].product], slots[s])
    BY <2>1 DEF Tile
  <2>3. products[slots[s].product].enabled /\ slots[s].enabled /\ slots[s].quantity > 0
    BY <1>6, <2>2 DEF Available
  <2> HIDE DEF entries
  <2> QED BY <1>3, <2>1, <2>2, <2>3 DEF Offer, Sellable
<1>7. OffersAreInStock'
  <2> HIDE DEF entries
  <2>1. Offered' = {Offer(i) : i \in {j \in entries : j.enabled}} BY <1>2, <1>3 DEF Offered
  <2> QED BY <1>6, <2>1 DEF OffersAreInStock
<1> QED BY <1>4, <1>5, <1>7 DEF ShopInv

LEMMA ShopEnd == ASSUME ShopInv, End PROVE ShopInv'
<1>1. <<>> \in Seq(Statements) /\ <<>> \in Seq(Tasks) BY EmptySeq
<1>2. EmptyPanel \in Panels BY NoOfferIsOffer DEF EmptyPanel, Panels, Sorts
<1>3. TypeOK' BY <1>1, <1>2, NoOfferIsOffer DEF ShopInv, TypeOK, StockOK, NoRows, End, tables
<1>4. SelectionIsShown' BY DEF SelectionIsShown, End, EmptyPanel, Visible
<1>5. OffersAreInStock' BY DEF OffersAreInStock, Offered, End, EmptyPanel
<1> QED BY <1>3, <1>4, <1>5 DEF ShopInv

LEMMA ShopTouch == ASSUME ShopInv, Touch PROVE ShopInv'
<1> USE DEF ShopInv
<1>1. /\ window = "catalog" /\ panel \in Panels
      /\ UNCHANGED <<tables, programVars, inventoryVars, window, card, session, ready>>
  BY DEF Touch, TypeOK
<1>2. panel' \in Panels /\ panel'.items = panel.items /\ SelectionIsShown'
  <2>1. CASE SelectCategory
    <3>1. PICK category \in Categories(panel.items) :
            panel' = [panel EXCEPT !.category = category,
                                   !.selected = Ensured(panel.items, category, @)]
      BY <2>1 DEF SelectCategory
    <3> DEFINE selected == Ensured(panel.items, category, panel.selected)
    <3>2. category \in Sorts BY <1>1 DEF Categories, Panels, Tiles, Sorts
    <3>3. selected \in Offers /\ Names(panel.items, category, selected)
      BY <1>1, EnsuredIsShown DEF Panels
    <3>4. /\ panel'.items = panel.items /\ panel'.category = category
          /\ panel'.selected = selected /\ panel' \in Panels
      <4> HIDE DEF selected
      <4>1. panel' = [panel EXCEPT !.category = category, !.selected = selected]
        BY <3>1 DEF selected
      <4> QED BY <1>1, <3>2, <3>3, <4>1 DEF Panels
    <3> HIDE DEF selected
    <3> QED BY <3>3, <3>4 DEF SelectionIsShown, Names, Buyable
  <2>2. CASE SelectProduct
    <3>1. PICK i \in Visible(panel.items, panel.category) :
            i.enabled /\ panel' = [panel EXCEPT !.selected = Offer(i)]
      BY <2>2 DEF SelectProduct
    <3>2. i \in Tiles BY <1>1 DEF Visible, Panels
    <3>3. /\ panel'.items = panel.items /\ panel'.category = panel.category
          /\ panel'.selected = Offer(i) /\ panel' \in Panels
      BY <1>1, <3>1, <3>2, OffersOfTiles DEF Panels
    <3> QED BY <3>1, <3>3 DEF SelectionIsShown
  <2> QED BY <2>1, <2>2 DEF Touch
<1>3. TypeOK' BY <1>1, <1>2 DEF TypeOK, StockOK, tables, inventoryVars, programVars
<1>4. Offered' = Offered BY <1>1, <1>2 DEF Offered
<1>5. \A o : Sellable(o)' <=> Sellable(o) BY <1>1 DEF Sellable, inventoryVars
<1>6. OffersAreInStock' BY <1>1, <1>4, <1>5 DEF OffersAreInStock
<1> QED BY <1>2, <1>3, <1>6

LEMMA ShopPress == ASSUME ShopInv, Press PROVE ShopInv'
<1> USE DEF ShopInv
<1>1. panel.selected \in Offers BY DEF TypeOK, Panels
<1>2. PICK task \in Tasks : ready' = Append(ready, task)
  BY <1>1, NoOfferIsOffer DEF Press, Task, Tasks
<1>3. UNCHANGED <<tables, programVars, inventoryVars, panel, window, card, session>>
  BY DEF Press
<1>4. ready' \in Seq(Tasks) /\ (VendedSoon => VendedSoon') BY <1>2, Appended DEF TypeOK
<1>5. TypeOK' BY <1>3, <1>4 DEF TypeOK, StockOK, tables, inventoryVars, programVars
<1>6. SelectionIsShown' BY <1>3 DEF SelectionIsShown
<1>7. Offered' = Offered BY <1>3 DEF Offered
<1>8. \A o : Sellable(o)' <=> Sellable(o) BY <1>3 DEF Sellable, inventoryVars
<1>9. OffersAreInStock' BY <1>4, <1>7, <1>8 DEF OffersAreInStock, VendedSoon
<1> QED BY <1>5, <1>6, <1>9

LEMMA ShopTasks ==
  ASSUME ShopInv, ShowProductDetails \/ StartCashCheckout \/ Leave \/ HandleEvent,
         UNCHANGED <<tables, programVars, inventoryVars>>
  PROVE  ShopInv'
<1>1. session \in Offers /\ ready \in Seq(Tasks) BY DEF ShopInv, TypeOK
<1>2. CASE ShowProductDetails
  <2>1. Turn("buy") /\ Head(ready).offer \in Offers
    BY <1>1, <1>2, Taken DEF ShowProductDetails, Tasks
  <2>2. \/ UNCHANGED <<panel, window, card, current, session>>
        \/ Show("product_details", Head(ready).offer)
    BY <1>2 DEF ShowProductDetails
  <2> QED BY <2>1, <2>2, TaskShows, TaskStays
<1>3. CASE StartCashCheckout
  <2>1. Turn("pay") BY <1>3 DEF StartCashCheckout
  <2>2. UNCHANGED <<panel, window, card, current, session>> \/ Show("notice", session)
    BY <1>3 DEF StartCashCheckout
  <2> QED BY <1>1, <2>1, <2>2, TaskShows, TaskStays
<1>4. CASE Leave
  <2>1. PICK do \in {"home", "back"} : Turn(do) /\ \E screen : Show(screen, session)
    BY <1>4 DEF Leave
  <2>2. PICK screen : Show(screen, session) BY <2>1
  <2> QED BY <1>1, <2>1, <2>2, TaskShows
<1>5. CASE HandleEvent
  <2>1. PICK event \in Events : Turn(event) /\ Show(Destination(event), session)
    BY <1>5 DEF HandleEvent
  <2>2. event = "product_dispensed" => Destination(event) = "dispensing" BY DEF Destination
  <2>3. event = "product_dispensed" => Destination(event) \notin {"catalog", "product_details"}
    BY <2>2
  <2> QED BY <1>1, <2>1, <2>3, TaskShows
<1> QED BY <1>2, <1>3, <1>4, <1>5

LEMMA ShopSale ==
  ASSUME ShopInv, OtherEvent \/ SaleStep,
         UNCHANGED <<tables, programVars, panel, window, card, current, session>>
  PROVE  ShopInv'
<1>1. StockOK(menu, shelf) BY DEF ShopInv, TypeOK
<1>2. UNCHANGED inventoryVars => StockOK(menu, shelf)' BY <1>1 DEF inventoryVars, StockOK
<1>3. CASE OtherEvent
  <2>1. PICK event \in Events : Publish(event) BY <1>3 DEF OtherEvent, Events
  <2> QED BY <1>2, <1>3, <2>1, PublishKeeps DEF OtherEvent
<1>4. CASE CheckoutEnds
  <2>1. PICK event \in Events : Publish(event) BY <1>4 DEF CheckoutEnds, Events
  <2> QED BY <1>2, <1>4, <2>1, PublishKeeps DEF CheckoutEnds
<1>5. CASE PaymentConfirmed
  <2>1. PICK event \in Events : Publish(event) BY <1>5 DEF PaymentConfirmed, Events
  <2> QED BY <1>2, <1>5, <2>1, PublishKeeps DEF PaymentConfirmed
<1>6. CASE Vended
  <2>1. CASE Sellable(sale.offer)
    <3>1. /\ Publish("product_dispensed") /\ menu' = menu
          /\ shelf' = [shelf EXCEPT ![sale.offer.slot].quantity = @ - 1]
      BY <1>6, <2>1 DEF Vended, MarkVended
    <3>2. /\ sale.offer.slot \in DOMAIN shelf /\ shelf[sale.offer.slot].quantity > 0
      BY <2>1 DEF Sellable
    <3>3. shelf'[sale.offer.slot] \in SlotRows
      <4>1. shelf[sale.offer.slot] \in SlotRows BY <1>1, <3>2 DEF StockOK
      <4>2. shelf'[sale.offer.slot] = [shelf[sale.offer.slot] EXCEPT !.quantity = @ - 1]
        BY <3>1, <3>2
      <4> QED BY <3>2, <4>1, <4>2 DEF SlotRows
    <3>4. /\ DOMAIN shelf' = DOMAIN shelf
          /\ \A s \in DOMAIN shelf : s # sale.offer.slot => shelf'[s] = shelf[s]
      BY <3>1
    <3>5. StockOK(menu, shelf)' BY <1>1, <3>1, <3>3, <3>4 DEF StockOK
    <3>6. "product_dispensed" \in Events BY DEF Events
    <3> QED BY <3>1, <3>5, <3>6, PublishKeeps
  <2>2. CASE ~Sellable(sale.offer)
    <3>1. UNCHANGED <<menu, shelf, ready>> BY <1>6, <2>2 DEF Vended
    <3> QED BY <3>1, ShopUnchanged DEF shopVars, tables, programVars, inventoryVars, customer
  <2> QED BY <2>1, <2>2
<1>7. CASE SaleEnds
  <2>1. PICK event \in Events : Publish(event) BY <1>7 DEF SaleEnds, Events
  <2> QED BY <1>2, <1>7, <2>1, PublishKeeps DEF SaleEnds
<1> QED BY <1>3, <1>4, <1>5, <1>6, <1>7 DEF SaleStep

LEMMA ShopInit == ASSUME Init PROVE ShopInv
<1>1. <<>> \in Seq(Statements) /\ <<>> \in Seq(Tasks) BY EmptySeq
<1>2. EmptyPanel \in Panels BY NoOfferIsOffer DEF EmptyPanel, Panels, Sorts
<1>3. TypeOK BY <1>1, <1>2, NoOfferIsOffer DEF TypeOK, StockOK, NoRows, Init
<1>4. SelectionIsShown BY DEF SelectionIsShown, Init, EmptyPanel, Visible
<1>5. OffersAreInStock BY DEF OffersAreInStock, Offered, Init, EmptyPanel
<1> QED BY <1>3, <1>4, <1>5 DEF ShopInv

LEMMA ShopStep == ASSUME ShopInv, [Next]_storeVars PROVE ShopInv'
<1>1. CASE Run
  BY <1>1, ShopTouch, ShopPress, ShopTasks, ShopSale DEF Run
<1>2. CASE UNCHANGED storeVars
  BY <1>2, ShopUnchanged DEF storeVars, shopVars, programVars
<1> QED BY <1>1, <1>2, ShopStart, ShopExecute, ShopOpen, ShopEnd DEF Next

(* Every state the storefront reaches is typed, its panel names what is    *)
(* shown, and its screens offer what can be sold.                          *)
THEOREM ShopIsSafe == Spec => []ShopInv
BY ShopInit, ShopStep, PTL DEF Spec

(* The purchase panel names a visible bouquet that could be bought when it *)
(* was drawn, for any catalog: _ensure_selection runs after every change   *)
(* of the tiles or of the category.                                        *)
THEOREM SelectionAlwaysShown == Spec => []SelectionIsShown
BY ShopIsSafe, PTL DEF ShopInv

(* What a screen offers is on the shelf or about to be taken off the       *)
(* screen, for any catalog and any number of tasks in the event loop.      *)
THEOREM OffersAlwaysInStock == Spec => []OffersAreInStock
BY ShopIsSafe, PTL DEF ShopInv

(* ------------------------------- Seeding ------------------------------- *)

(* What is still to do: products are deleted once no slot is left, a slot  *)
(* follows its product, and only what is configured is saved.              *)
TodoOK ==
  \A n \in DOMAIN todo :
    /\ todo[n].do = "delete_products" =>
         IF n = 1 THEN DOMAIN slots = {} ELSE n = 2 /\ todo[1].do = "delete_slots"
    /\ todo[n].do = "save_slot" =>
         IF n = 1 THEN todo[1].item.product \in DOMAIN products
         ELSE todo[n - 1].do = "save_product" /\ todo[n - 1].item = todo[n].item
    /\ todo[n].do \in {"save_product", "save_slot"} =>
         todo[n].item \in {configured[i] : i \in DOMAIN configured}

NamesLegacy == \E i \in DOMAIN configured : configured[i].name \in LegacyNames
FreeOfLegacy(rows) == \A p \in DOMAIN rows : rows[p].name \notin LegacyNames
Deletes(steps) == \E n \in DOMAIN steps : steps[n].do = "delete_products"

(* Until the old products are deleted there may be some.                   *)
LegacyOK ==
  configured # <<>> /\ ~NamesLegacy =>
    /\ life = "starting" => FreeOfLegacy(products) \/ Deletes(todo)
    /\ life = "running" => FreeOfLegacy(menu)

SeedInv == ShopInv /\ life # "refused" /\ TodoOK /\ LegacyOK

LEMMA SeedStart == ASSUME SeedInv, Start PROVE SeedInv'
<1> USE DEF SeedInv
<1>1. ShopInv' BY ShopStart
<1>2. life' = "starting" /\ UNCHANGED <<products, slots>> BY DEF Start, tables
<1>3. PICK items \in Configurations, seeded \in BOOLEAN :
        IF seeded THEN configured' = items /\ todo' = Seeding(items)
        ELSE configured' = <<>> /\ todo' = <<>>
  BY DEF Start
<1>4. CASE seeded
  <2>1. /\ todo' \in Seq(Statements) /\ Ordered(todo', items) /\ configured' = items
        /\ Deletes(todo') \/ FreeOfLegacy(products)
    BY <1>3, <1>4, SeedingInOrder DEF Deletes, FreeOfLegacy
  <2>2. DOMAIN todo' = 1..Len(todo') BY <2>1, LenProperties
  <2>3. TodoOK' BY <2>1, <2>2 DEF Ordered, TodoOK
  <2>4. LegacyOK' BY <1>2, <2>1 DEF LegacyOK, FreeOfLegacy, Deletes
  <2> QED BY <1>1, <1>2, <2>3, <2>4
<1>5. CASE ~seeded
  <2>1. configured' = <<>> /\ todo' = <<>> BY <1>3, <1>5
  <2>2. TodoOK' /\ LegacyOK' BY <2>1 DEF TodoOK, LegacyOK
  <2> QED BY <1>1, <1>2, <2>2
<1> QED BY <1>4, <1>5

(* One statement was executed; the others keep their order.                *)
LEMMA SeedTail ==
  ASSUME SeedInv, NEW what, Executing(what), todo' = Tail(todo), UNCHANGED configured,
         what = "save_product" => todo[1].item.product \in DOMAIN products',
         what = "delete_slots" => DOMAIN slots' = {}
  PROVE  /\ TodoOK'
         /\ what # "delete_products" /\ Deletes(todo) => Deletes(todo')
<1>1. /\ todo[1].do = what /\ Len(todo) \in Nat /\ DOMAIN todo = 1..Len(todo)
      /\ 1 \in DOMAIN todo /\ DOMAIN todo' = 1..(Len(todo) - 1)
      /\ \A n \in 1..(Len(todo) - 1) : todo'[n] = todo[n + 1]
  BY TodoFacts DEF SeedInv, ShopInv, TypeOK
<1>2. TodoOK'
  <2> SUFFICES ASSUME NEW n \in DOMAIN todo'
        PROVE /\ todo'[n].do = "delete_products" =>
                   IF n = 1 THEN DOMAIN slots' = {} ELSE n = 2 /\ todo'[1].do = "delete_slots"
              /\ todo'[n].do = "save_slot" =>
                   IF n = 1 THEN todo'[1].item.product \in DOMAIN products'
                   ELSE todo'[n - 1].do = "save_product" /\ todo'[n - 1].item = todo'[n].item
              /\ todo'[n].do \in {"save_product", "save_slot"} =>
                   todo'[n].item \in {configured'[i] : i \in DOMAIN configured'}
    BY DEF TodoOK
  <2>1. n + 1 \in DOMAIN todo /\ n + 1 # 1 /\ (n + 1) - 1 = n /\ todo'[n] = todo[n + 1]
    BY <1>1
  <2>2. n # 1 => n - 1 \in 1..(Len(todo) - 1) /\ (n - 1) + 1 = n /\ todo'[n - 1] = todo[n]
    BY <1>1
  <2>3. todo'[n].do = "delete_products" => n = 1 /\ DOMAIN slots' = {}
    BY <1>1, <2>1 DEF SeedInv, TodoOK
  <2>4. todo'[n].do = "save_slot" =>
          todo[n].do = "save_product" /\ todo[n].item = todo'[n].item
    BY <2>1 DEF SeedInv, TodoOK
  <2>5. todo'[n].do \in {"save_product", "save_slot"} =>
          todo'[n].item \in {configured[i] : i \in DOMAIN configured}
    BY <2>1 DEF SeedInv, TodoOK
  <2> QED BY <1>1, <2>2, <2>3, <2>4, <2>5
<1>3. ASSUME what # "delete_products", Deletes(todo) PROVE Deletes(todo')
  <2>1. PICK n \in DOMAIN todo : todo[n].do = "delete_products" BY <1>3 DEF Deletes
  <2>2. n # 1 BY <1>1, <1>3, <2>1
  <2>3. n - 1 \in DOMAIN todo' /\ todo'[n - 1] = todo[n]
    <3>1. n - 1 \in 1..(Len(todo) - 1) /\ (n - 1) + 1 = n BY <1>1, <2>2
    <3> QED BY <1>1, <3>1
  <2> QED BY <2>1, <2>3 DEF Deletes
<1> QED BY <1>2, <1>3

LEMMA SeedExecute == ASSUME SeedInv, Execute PROVE SeedInv'
<1> USE DEF SeedInv
<1>1. ShopInv' BY ShopExecute
<1>2. todo \in Seq(Statements) /\ UNCHANGED configured BY DEF ShopInv, TypeOK, Execute
<1>3. CASE SaveProduct
  <2> DEFINE item == todo[1].item
  <2>1. /\ Executing("save_product") /\ todo' = Tail(todo) /\ life' = "starting"
        /\ life = "starting"
    BY <1>3 DEF SaveProduct, Executed, Executing
  <2>2. todo[1].do = "save_product" /\ 1 \in DOMAIN todo /\ Head(todo) = todo[1]
    BY <1>2, <2>1, TodoFacts
  <2>3. products' = Upserted(products, item.product, SeedProduct(item))
    BY <1>3, <2>2 DEF SaveProduct
  <2>4. item \in {configured[i] : i \in DOMAIN configured} BY <2>2 DEF TodoOK
  <2>5. TodoOK' /\ (Deletes(todo) => Deletes(todo'))
    BY <1>2, <2>1, <2>3, SeedTail DEF Upserted
  <2>6. ~NamesLegacy /\ FreeOfLegacy(products) => FreeOfLegacy(products')
    BY <2>3, <2>4 DEF NamesLegacy, FreeOfLegacy, Upserted, SeedProduct
  <2>7. LegacyOK' BY <1>2, <2>1, <2>5, <2>6 DEF LegacyOK, NamesLegacy, FreeOfLegacy, Deletes
  <2> QED BY <1>1, <2>1, <2>5, <2>7
<1>4. CASE SaveSlot
  <2>1. Executing("save_slot") /\ life = "starting" BY <1>4 DEF SaveSlot, Executing
  <2>2. todo[1].do = "save_slot" /\ 1 \in DOMAIN todo /\ Head(todo) = todo[1]
    BY <1>2, <2>1, TodoFacts
  <2>3. todo[1].item.product \in DOMAIN products BY <2>2 DEF TodoOK
  <2>4. todo' = Tail(todo) /\ life' = life /\ UNCHANGED products
    BY <1>4, <2>2, <2>3 DEF SaveSlot, Executed
  <2>5. TodoOK' /\ (Deletes(todo) => Deletes(todo')) BY <1>2, <2>1, <2>4, SeedTail
  <2>6. LegacyOK' BY <1>2, <2>1, <2>4, <2>5 DEF LegacyOK, NamesLegacy, FreeOfLegacy, Deletes
  <2> QED BY <1>1, <2>1, <2>4, <2>5, <2>6
<1>5. CASE DeleteSlots
  <2>1. /\ Executing("delete_slots") /\ life = "starting" /\ life' = life
        /\ todo' = Tail(todo) /\ DOMAIN slots' = {} /\ UNCHANGED products
    BY <1>5 DEF DeleteSlots, Executed, Executing, NoRows
  <2>2. TodoOK' /\ (Deletes(todo) => Deletes(todo')) BY <1>2, <2>1, SeedTail
  <2>3. LegacyOK' BY <1>2, <2>1, <2>2 DEF LegacyOK, NamesLegacy, FreeOfLegacy, Deletes
  <2> QED BY <1>1, <2>1, <2>2, <2>3
<1>6. CASE DeleteProducts
  <2>1. Executing("delete_products") /\ life = "starting" BY <1>6 DEF DeleteProducts, Executing
  <2>2. todo[1].do = "delete_products" /\ 1 \in DOMAIN todo BY <1>2, <2>1, TodoFacts
  <2>3. DOMAIN slots = {} BY <2>2 DEF TodoOK
  <2>4. todo' = Tail(todo) /\ life' = life /\ DOMAIN products' = {}
    BY <1>6, <2>3 DEF DeleteProducts, Executed, NoRows
  <2>5. TodoOK' BY <1>2, <2>1, <2>4, SeedTail
  <2>6. LegacyOK' BY <2>1, <2>4 DEF LegacyOK, FreeOfLegacy
  <2> QED BY <1>1, <2>1, <2>4, <2>5, <2>6
<1> QED BY <1>3, <1>4, <1>5, <1>6 DEF Execute

LEMMA SeedOpen == ASSUME SeedInv, Open PROVE SeedInv'
<1> USE DEF SeedInv
<1>1. ShopInv' BY ShopOpen
<1>2. /\ life = "starting" /\ life' = "running" /\ todo = <<>> /\ todo' = <<>>
      /\ menu' = products /\ configured' = configured
  BY DEF Open
<1>3. TodoOK' BY <1>2 DEF TodoOK
<1>4. ~Deletes(todo) BY <1>2 DEF Deletes
<1>5. LegacyOK' BY <1>2, <1>4 DEF LegacyOK, NamesLegacy, FreeOfLegacy
<1> QED BY <1>1, <1>2, <1>3, <1>5

LEMMA SeedEnd == ASSUME SeedInv, End PROVE SeedInv'
<1>1. ShopInv' BY ShopEnd DEF SeedInv
<1>2. life' = "off" /\ todo' = <<>> BY DEF End
<1> QED BY <1>1, <1>2 DEF SeedInv, TodoOK, LegacyOK

LEMMA TodoStays ==
  ASSUME TodoOK, UNCHANGED <<products, slots, todo, configured>> PROVE TodoOK'
BY DEF TodoOK

(* While the program runs its catalog stays.                               *)
LEMMA SeedRun == ASSUME SeedInv, Run PROVE SeedInv'
<1>1. ShopInv' BY ShopStep DEF Next, SeedInv
<1>2. UNCHANGED <<products, slots, life, todo, configured>>
  BY DEF Run, Touch, Press, tables, programVars
<1>3. menu' = menu
  <2>1. CASE OtherEvent \/ SaleStep
    BY <2>1 DEF OtherEvent, SaleStep, CheckoutEnds, PaymentConfirmed, Vended, SaleEnds,
                inventoryVars
  <2>2. CASE UNCHANGED inventoryVars BY <2>2 DEF inventoryVars
  <2> QED BY <2>1, <2>2 DEF Run, Touch, Press
<1>4. TodoOK' BY <1>2, TodoStays DEF SeedInv
<1>5. LegacyOK'
  BY <1>2, <1>3 DEF SeedInv, LegacyOK, NamesLegacy, FreeOfLegacy, Deletes
<1> QED BY <1>1, <1>2, <1>4, <1>5 DEF SeedInv

LEMMA SeedStep == ASSUME SeedInv, [Next]_storeVars PROVE SeedInv'
<1>1. CASE UNCHANGED storeVars
  <2>1. ShopInv' BY <1>1, ShopStep DEF SeedInv
  <2>2. UNCHANGED <<products, slots, life, todo, configured, menu>>
    BY <1>1 DEF storeVars, tables, programVars, inventoryVars
  <2>3. TodoOK' BY <2>2, TodoStays DEF SeedInv
  <2>4. LegacyOK' BY <2>2 DEF SeedInv, LegacyOK, NamesLegacy, FreeOfLegacy, Deletes
  <2> QED BY <2>1, <2>2, <2>3, <2>4 DEF SeedInv
<1> QED BY <1>1, SeedStart, SeedExecute, SeedOpen, SeedEnd, SeedRun DEF Next

(* Wherever earlier starts ended, no start is refused by the foreign keys  *)
(* of _seed_catalog's statements, and a catalog that was configured takes  *)
(* the place of the first demo catalog, for any configurations and names.  *)
THEOREM SeedingAlwaysSurvives == Spec => []SeedingSurvivesCrashes
<1>1. Init => SeedInv
  BY ShopInit DEF Init, SeedInv, TodoOK, LegacyOK
<1>2. SeedInv => SeedingSurvivesCrashes
  BY DEF SeedInv, LegacyOK, SeedingSurvivesCrashes, NamesLegacy, FreeOfLegacy
<1> QED BY <1>1, <1>2, SeedStep, PTL DEF Spec
=============================================================================
