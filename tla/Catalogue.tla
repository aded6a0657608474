------------------------------- MODULE Catalogue -------------------------------
(***************************************************************************)
(* What the app shows before a booking: the queries of DiscoveryService    *)
(* and ShopsService over shops, staff, categories, catalogue services, the *)
(* services a shop sells and its packages.                                 *)
(*                                                                         *)
(* No request writes these tables: operators and the seed scripts do, so   *)
(* an edit is external and changes one row in any way its table allows.    *)
(* Queries are operators on the rows; a list ordered by a column that may  *)
(* tie is the set of lists the database may return.  Names, addresses,     *)
(* images and badges are left out, and with them the search by name, the   *)
(* gallery and the banner.  Prices are in paise, distances and radii in    *)
(* any unit.  What a route answers is a set: of the answers the database   *)
(* may lead to, and empty for a 404.                                       *)
(***************************************************************************)
EXTENDS Paging

CONSTANTS
  Shops, StaffIds, Categories, CatalogIds, ServiceIds, PackageIds,
  CategoryOf,     \* catalogue service -> its category
  GenderOf,       \* catalogue service -> "male", "female" or "unisex"
  ShopOf,         \* staff, service or package -> its shop
  CatalogOf,      \* service -> the catalogue service it sells
  Included,       \* package -> the services in it
  Distance,       \* shop -> distance from the client
  ServiceAreas,   \* the shops that have a service_radius_meters
  Ratings, Prices,
  NearbyRadius,   \* NEARBY_RADIUS_METERS
  HomeLimit,      \* NEAREST_LIMIT and POPULAR_LIMIT
  MaxEdits        \* bound on the edits

ASSUME CatalogueAssumption ==
  /\ CategoryOf \in [CatalogIds -> Categories]
  /\ GenderOf \in [CatalogIds -> {"male", "female", "unisex"}]
  /\ ShopOf \in [StaffIds \cup ServiceIds \cup PackageIds -> Shops]
  /\ CatalogOf \in [ServiceIds -> CatalogIds]
  /\ Included \in [PackageIds -> SUBSET ServiceIds]
  /\ Distance \in [Shops -> Nat]
  /\ Ratings \subseteq Nat /\ Ratings # {}
  /\ Prices \subseteq Nat \ {0} /\ Prices # {}
  /\ IsFiniteSet(Shops) /\ IsFiniteSet(ServiceIds)
  /\ ServiceAreas \subseteq Shops
  /\ {NearbyRadius, HomeLimit, MaxEdits} \subseteq Nat

VARIABLES
  shops,       \* shop -> status, deleted_at and avg_rating
  staff,       \* staff -> workflow_status and deleted_at
  categories,  \* category -> whether its status is active
  catalog,     \* catalogue service -> is_active and deleted_at
  services,    \* service -> is_active and price
  packages,    \* package -> is_active and price
  edits        \* edits so far

catalogueVars == <<shops, staff, categories, catalog, services, packages, edits>>

ShopRow == [approved : BOOLEAN, deleted : BOOLEAN, rating : Ratings]
Entry   == [active : BOOLEAN, deleted : BOOLEAN]
Offer   == [active : BOOLEAN, price : Prices]

CatalogueInit ==
  /\ shops = [h \in Shops |-> [approved |-> TRUE, deleted |-> FALSE,
                                rating |-> CHOOSE r \in Ratings : TRUE]]
  /\ staff = [s \in StaffIds |-> [active |-> TRUE, deleted |-> FALSE]]
  /\ categories = [c \in Categories |-> TRUE]
  /\ catalog = [k \in CatalogIds |-> [active |-> TRUE, deleted |-> FALSE]]
  /\ services = [v \in ServiceIds |-> [active |-> TRUE,
                                       price |-> CHOOSE p \in Prices : TRUE]]
  /\ packages = [g \in PackageIds |-> [active |-> TRUE,
                                       price |-> CHOOSE p \in Prices : TRUE]]
  /\ edits = 0

(* An operator's edit of one row: approving, suspending or deleting a shop, *)
(* a new rating, prices, and what is on sale.                               *)
EditCatalogue ==
  /\ edits < MaxEdits
  /\ edits' = edits + 1
  /\ \/ /\ \E h \in Shops, r \in ShopRow : shops' = [shops EXCEPT ![h] = r]
        /\ UNCHANGED <<staff, categories, catalog, services, packages>>
     \/ /\ \E s \in StaffIds, r \in Entry : staff' = [staff EXCEPT ![s] = r]
        /\ UNCHANGED <<shops, categories, catalog, services, packages>>
     \/ /\ \E c \in Categories : categories' = [categories EXCEPT ![c] = ~@]
        /\ UNCHANGED <<shops, staff, catalog, services, packages>>
     \/ /\ \E k \in CatalogIds, r \in Entry : catalog' = [catalog EXCEPT ![k] = r]
        /\ UNCHANGED <<shops, staff, categories, services, packages>>
     \/ /\ \E v \in ServiceIds, r \in Offer : services' = [services EXCEPT ![v] = r]
        /\ UNCHANGED <<shops, staff, categories, catalog, packages>>
     \/ /\ \E g \in PackageIds, r \in Offer : packages' = [packages EXCEPT ![g] = r]
        /\ UNCHANGED <<shops, staff, categories, catalog, services>>

-----------------------------------------------------------------------------
(* Discovery.                                                               *)

Listed == {h \in Shops : shops[h].approved /\ ~shops[h].deleted}

ByDistance(a, b) == Distance[a] > Distance[b]
ByRating(a, b)   == shops[a].rating < shops[b].rating

(* The review count that orders salons of one rating is left out.           *)
FindNearestSalons(geo, limit) ==
  Limited(IF geo THEN Orderings(Listed, ByDistance)
                 ELSE Orderings(Listed, ByRating), limit)

FindPopularSalons(limit) == Limited(Orderings(Listed, ByRating), limit)

Within(radius) == {h \in Listed : Distance[h] <= radius}

FindServiceAreaCircles(radius) == Within(radius) \cap ServiceAreas

(* Home page and map.  Only active categories are on the home page, the     *)
(* salons of a category are answered for any.                               *)
GetHome(geo) ==
  [categories : {{c \in Categories : categories[c]}},
   nearest    : FindNearestSalons(geo, HomeLimit),
   popular    : FindPopularSalons(HomeLimit)]

OnSale(h) == {v \in ServiceIds : ShopOf[v] = h /\ services[v].active}

(* The services on sale joined with their catalogue services: TypeORM adds  *)
(* deleted_at IS NULL to the join, as the entity has a DeleteDateColumn.    *)
Joined(h) == {v \in OnSale(h) : ~catalog[CatalogOf[v]].deleted}

(* MIN in a sub-select without that join, and 0 for a shop that sells none. *)
MinPrice(h) ==
  LET prices == {services[v].price : v \in OnSale(h)}
  IN IF prices = {} THEN 0
     ELSE Rounded(CHOOSE p \in prices : \A x \in prices : p <= x)

FindMapPins(radius) == {[id |-> h, price |-> MinPrice(h)] : h \in Within(radius)}

GetDiscoverMap(radius) ==
  {[pins |-> FindMapPins(radius), areas |-> FindServiceAreaCircles(radius)]}

BuildQuickBook(h) ==
  {[id |-> v, price |-> Rounded(services[v].price)] : v \in Joined(h)}

ShopExists(h) == h \in Listed

(* The shops that the first row of ORDER BY distance may be.                *)
NearestOf(S) == {h \in S : \A x \in S : Distance[h] <= Distance[x]}

QuickBookNearby ==
  LET nearest == NearestOf(Within(NearbyRadius))
  IN IF nearest = {} THEN {{}} ELSE {BuildQuickBook(h) : h \in nearest}

GetQuickBookServices(h) == {BuildQuickBook(x) : x \in {y \in {h} : ShopExists(y)}}

(* Mutant of the next definition: unisex services are forgotten.            *)
GendersOnly(gender) == IF gender = "man" THEN {"male"} ELSE {"female"}

(* The genders a search for one asks for.                                   *)
GendersFor(gender) ==
  IF gender = "man" THEN {"male", "unisex"} ELSE {"female", "unisex"}

(* The sub-select: one service on sale that meets the service, gender and   *)
(* category filters; asking for all genders still asks for a service.       *)
Sells(h, f) ==
  \/ f.services = {} /\ f.gender = "none" /\ f.category = "none"
  \/ \E v \in Joined(h) :
       LET k == CatalogOf[v]
       IN /\ f.services = {} \/ k \in f.services
          /\ f.gender \in {"none", "all"} \/ GenderOf[k] \in GendersFor(f.gender)
          /\ f.category = "none" \/ CategoryOf[k] = f.category

(* The rows searchSalons counts and orders; without the client's position,  *)
(* and with radius -1, there is no distance filter.                         *)
SearchHits(f) ==
  {h \in Listed : /\ shops[h].rating >= f.minRating
                  /\ ~f.geo \/ f.radius = -1 \/ Distance[h] <= f.radius
                  /\ Sells(h, f)}

SearchOrders(f) ==
  IF f.geo THEN Orderings(SearchHits(f), ByDistance)
           ELSE Orderings(SearchHits(f), ByRating)

(* The answers for one page.  Each is a query of its own: rows that tie may *)
(* come in another order on the next page.                                  *)
SearchSalons(f, page, perPage) ==
  {[data |-> PageOf(q, page, perPage), total |-> Len(q),
    totalPages |-> TotalPages(Len(q), perPage)] : q \in SearchOrders(f)}

(* findCategoryById does not look at the category's status.                 *)
GetCategorySalons(c, f, page, perPage) ==
  UNION {SearchSalons([f EXCEPT !.category = x], page, perPage) :
           x \in {c} \cap Categories}

(* Mutant of the next definition: the artist's shop is not looked at.       *)
ArtistsAnywhere == {s \in StaffIds : staff[s].active /\ ~staff[s].deleted}

PopularArtists ==
  {s \in StaffIds : staff[s].active /\ ~staff[s].deleted /\ ShopOf[s] \in Listed}

-----------------------------------------------------------------------------
(* Shop profiles.                                                           *)

FindApprovedShop(h) == h \in Listed

FindSpecialists(h) ==
  {s \in StaffIds : ShopOf[s] = h /\ staff[s].active /\ ~staff[s].deleted}

(* Active categories with the services that count for them.                 *)
FindServiceCategories(h) ==
  LET counted(c) == {v \in Joined(h) : CategoryOf[CatalogOf[v]] = c}
  IN {[id |-> c, variantCount |-> Cardinality(counted(c))] :
        c \in {x \in Categories : categories[x] /\ counted(x) # {}}}

(* The genders a shop profile for one asks for.                             *)
VariantGenders(gender) ==
  IF gender = "man" THEN {"male", "unisex"} ELSE {"female", "unisex"}

FindVariants(h, c, gender) ==
  {[id |-> v, price |-> Rounded(services[v].price)] :
     v \in {x \in Joined(h) :
              LET k == CatalogOf[x]
              IN /\ CategoryOf[k] = c /\ catalog[k].active
                 /\ GenderOf[k] \in VariantGenders(gender)}}

(* loadIncludedServices names them whether or not they are on sale, unless  *)
(* their catalogue service is deleted.                                      *)
LoadIncludedServices(g) == {v \in Included[g] : ~catalog[CatalogOf[v]].deleted}

PackageCard(g) ==
  [id |-> g, price |-> Rounded(packages[g].price),
   included |-> LoadIncludedServices(g)]

PackagesOf(h) == {g \in PackageIds : ShopOf[g] = h /\ packages[g].active}

FindPackages(h) == {PackageCard(g) : g \in PackagesOf(h)}

(* The routes of a shop answer for a shop that is approved.                 *)
GetShopById(h) ==
  {[categories |-> FindServiceCategories(x), packages |-> FindPackages(x),
    specialists |-> FindSpecialists(x)] : x \in {y \in {h} : FindApprovedShop(y)}}

FindPackageById(h, g) == {PackageCard(x) : x \in {g} \cap PackagesOf(h)}

GetShopPackageById(h, g) == IF FindApprovedShop(h) THEN FindPackageById(h, g) ELSE {}

GetCategoryVariants(h, c, gender) ==
  (IF FindApprovedShop(h) THEN {FindVariants(h, c, gender)} ELSE {}) \ {{}}

GetSpecialists(h) == IF FindApprovedShop(h) THEN {FindSpecialists(h)} ELSE {}

-----------------------------------------------------------------------------
Loosest == [geo |-> FALSE, minRating |-> 0, radius |-> -1, services |-> {},
            gender |-> "none", category |-> "none"]

(* Whatever a client is shown leads on, as long as the tables stay as they  *)
(* were.  A category of the home page is answered.  The shop of a card, a   *)
(* search result, a pin, a circle, or an artist opens, and the artist is    *)
(* among its specialists.  Quick booking without a shop is that of one of   *)
(* the salons at the distance of the nearest card.  A package of a profile  *)
(* opens as it was shown there.  A category of a profile counts at least    *)
(* the variants it shows, and shows some while one of those it counts is    *)
(* switched on in the catalogue.                                            *)
FoundShopOpens ==
  /\ \A geo \in BOOLEAN : \A home \in GetHome(geo) :
       /\ \A c \in home.categories : GetCategorySalons(c, Loosest, 1, 1) # {}
       /\ \A h \in Range(home.nearest) \cup Range(home.popular) : GetShopById(h) # {}
  /\ \A geo \in BOOLEAN :
       \A answer \in SearchSalons([Loosest EXCEPT !.geo = geo], 1, Cardinality(Shops)) :
         \A h \in Range(answer.data) : GetShopById(h) # {}
  /\ \A map \in GetDiscoverMap(NearbyRadius) :
       /\ \A pin \in map.pins : GetQuickBookServices(pin.id) # {}
       /\ \A h \in map.areas : GetShopById(h) # {}
  /\ \A s \in PopularArtists : \E found \in GetSpecialists(ShopOf[s]) : s \in found
  /\ \A q \in FindNearestSalons(TRUE, 1), offered \in QuickBookNearby :
       LET near == {h \in Range(q) : Distance[h] <= NearbyRadius}
       IN IF near = {} THEN offered = {}
          ELSE \E h \in Shops : /\ \A x \in near : Distance[h] = Distance[x]
                                /\ offered \in GetQuickBookServices(h)
  /\ \A h \in Shops : \A shop \in GetShopById(h) :
       /\ \A x \in shop.packages : GetShopPackageById(h, x.id) = {x}
       /\ \A r \in shop.categories :
            LET shown == UNION (GetCategoryVariants(h, r.id, "man")
                                  \cup GetCategoryVariants(h, r.id, "woman"))
            IN /\ Cardinality(shown) <= r.variantCount
               /\ \A v \in Joined(h) :
                    CategoryOf[CatalogOf[v]] = r.id /\ catalog[CatalogOf[v]].active
                      => shown # {}

(* Some page of those the first answer promises may list the shop, and no   *)
(* page after them lists anyone.  Only its ties, the shops found at its     *)
(* distance, or of its rating, can take its place: every answer of a page   *)
(* that may list it lists it or a tie, and a shop without a tie is on       *)
(* exactly one of the pages.                                                *)
FoundOnItsPages(h, c, f, perPage) ==
  LET answers(n) == GetCategorySalons(c, f, n, perPage)
      ties == {x \in SearchHits([f EXCEPT !.category = c]) :
                 IF f.geo THEN Distance[x] = Distance[h]
                          ELSE shops[x].rating = shops[h].rating}
  IN /\ answers(1) # {}
     /\ \A first \in answers(1) :
          LET promised == 1..first.totalPages
              listing  == {n \in promised :
                             \E answer \in answers(n) : h \in Range(answer.data)}
          IN /\ listing # {}
             /\ \A n \in listing : \A answer \in answers(n) :
                  Range(answer.data) \cap ties # {}
             /\ ties = {h} => Cardinality(listing) = 1
             /\ \A answer \in answers(first.totalPages + 1) : answer.data = <<>>

(* A shop whose profile shows variants of a category for a gender is on the *)
(* pages of the search of that category for that gender, with the client's  *)
(* position or without, whatever the page size.                             *)
VariantsAreFound ==
  \A h \in Listed, c \in Categories, gender \in {"man", "woman"}, geo \in BOOLEAN,
     perPage \in 1..Cardinality(Shops) :
    FindVariants(h, c, gender) # {} =>
      FoundOnItsPages(h, c, [Loosest EXCEPT !.gender = gender, !.geo = geo], perPage)
=============================================================================
