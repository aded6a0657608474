-------------------------------- MODULE Quotes --------------------------------
(***************************************************************************)
(* From what the client selected to a price and to booking items: the      *)
(* service lines that POST /bookings/quote and POST /bookings share, the   *)
(* quote, and the total and the items of a created booking.  The rows a    *)
(* created booking leaves are in BookingRows, where its items are one span.*)
(***************************************************************************)
EXTENDS Catalogue

CONSTANTS Minutes     \* service -> duration_minutes

ASSUME QuotesAssumption == Minutes \in [ServiceIds -> Nat \ {0}]

PackageMinutes == 60

(* staff.count, which leaves out deleted rows without being asked to.       *)
SpecialistBelongsToShop(h, s) ==
  ShopOf[s] = h /\ staff[s].active /\ ~staff[s].deleted

(* Mutant of the next definition: the service of a discovery card is lost.  *)
CollectSelectedOnly(selected, discovered) == {selected[c] : c \in DOMAIN selected}

(* The ids picked per category and the one of a discovery card, each once.  *)
CollectShopServiceIds(selected, discovered) ==
  {selected[c] : c \in DOMAIN selected} \cup discovered

ServiceLine(v) == [item |-> v, price |-> services[v].price, minutes |-> Minutes[v]]
PackageLine(g) == [item |-> g, price |-> packages[g].price, minutes |-> PackageMinutes]

(* resolveServiceLines: services on sale in that shop in any order, then    *)
(* the package, on sale or not; unknown ids are left out.                   *)
ResolveServiceLines(h, ids, pkgs) ==
  {[i \in DOMAIN q |-> ServiceLine(q[i])]
     \o [i \in 1..Cardinality({g \in pkgs : ShopOf[g] = h}) |->
           PackageLine(CHOOSE g \in pkgs : TRUE)]
       : q \in SetToSeqs(ids \cap Joined(h))}

Total(numbers) == FoldLeft(LAMBDA sum, n : sum + n, 0, numbers)

LineItems(lines) == [i \in DOMAIN lines |-> Rounded(lines[i].price)]

(* computeQuote; without a line it is answered with VARIANT_NOT_FOUND.      *)
ComputeQuote(lines) ==
  [lineItems |-> LineItems(lines), total |-> Total(LineItems(lines))]

(* Mutant of the next definition: the total of the first item only.         *)
CreatedFromFirst(lines) ==
  [lineItems |-> LineItems(lines), total |-> Rounded(lines[1].price)]

(* buildBookingCreated: the items' prices and the booking's own total.      *)
BookingCreated(lines) ==
  [lineItems |-> LineItems(lines),
   total |-> Rounded(Total([i \in DOMAIN lines |-> lines[i].price]))]

Duration(lines) == Total([i \in DOMAIN lines |-> lines[i].minutes])

(* The items of createBooking, one after the other from the slot's start.   *)
ItemsOf(lines, start) ==
  [i \in DOMAIN lines |->
     LET from == start + Duration(SubSeq(lines, 1, i - 1))
     IN [start |-> from, end |-> from + lines[i].minutes]]

-----------------------------------------------------------------------------
(* Everything the app shows can be put into a booking of that shop, at the  *)
(* price shown: the variants of a profile, picked by category, what quick   *)
(* booking offers, picked from its card, packages and specialists.  What    *)
(* quick booking offers costs no less than the shop's pin on the map says,  *)
(* and one of it exactly that; only while a service on sale is one the      *)
(* catalogue has deleted may the pin be lower, for its sub-select does not  *)
(* look at the catalogue.                                                   *)
ShownIsBookable ==
  \A h \in Listed :
    /\ \A c \in Categories, gender \in {"man", "woman"} :
         \A x \in FindVariants(h, c, gender) :
           LET ids == CollectShopServiceIds([k \in {c} |-> x.id], {})
           IN \A lines \in ResolveServiceLines(h, ids, {}) :
                ComputeQuote(lines).lineItems = <<x.price>>
    /\ \A x \in BuildQuickBook(h) :
         LET ids == CollectShopServiceIds([k \in {} |-> x.id], {x.id})
         IN \A lines \in ResolveServiceLines(h, ids, {}) :
              ComputeQuote(lines).lineItems = <<x.price>>
    /\ \A x \in FindPackages(h) : \A lines \in ResolveServiceLines(h, {}, {x.id}) :
         ComputeQuote(lines).lineItems = <<x.price>>
    /\ \A s \in FindSpecialists(h) : SpecialistBelongsToShop(h, s)
    /\ \A pin \in {x \in FindMapPins(NearbyRadius) : x.id = h} :
         LET prices == {x.price : x \in BuildQuickBook(h)}
         IN /\ \A p \in prices : pin.price <= p
            /\ \/ pin.price \in prices
               \/ prices = {} /\ pin.price = 0
               \/ \E v \in OnSale(h) :
                    catalog[CatalogOf[v]].deleted /\ pin.price = Rounded(services[v].price)

Requests(h) ==
  (UNION {ResolveServiceLines(h, ids, pkgs) :
            ids \in SUBSET ServiceIds, pkgs \in {{}} \cup {{g} : g \in PackageIds}})
    \ {<<>>}

(* A booking costs what its quote said when prices are whole rupees, and    *)
(* otherwise differs by less than one unit per line, for the quote adds     *)
(* rounded prices and the booking rounds the sum.  Its items follow each    *)
(* other without gap or overlap from its start to its end, so the exclusion *)
(* constraint on items guards the very span the slot check asked for.       *)
BookingCostsItsQuote ==
  \A h \in Shops : \A lines \in Requests(h) :
    LET quoted  == ComputeQuote(lines).total
        created == BookingCreated(lines).total
        items   == ItemsOf(lines, 0)
    IN /\ \/ quoted = created
          \/ \E i \in DOMAIN lines : lines[i].price % 100 # 0
       /\ quoted - created < Len(lines) /\ created - quoted < Len(lines)
       /\ items[1].start = 0 /\ items[Len(items)].end = Duration(lines)
       /\ \A i \in 1..(Len(items) - 1) : items[i].end = items[i + 1].start
=============================================================================
