----------------------------- MODULE MCCatalogue -----------------------------
(***************************************************************************)
(* Quotes (with Catalogue) and ShopHours for TLC.  They share no table, so *)
(* one behaviour edits one of them: "focus" says which.  Two shops nearby, *)
(* at one distance, and one too far; the first sells a service for men and *)
(* a unisex one of one category, and a package of both; the second sells   *)
(* the latter.  The server may run at UTC, or on either side of it.        *)
(* Prices are one whole number of rupees and one that rounds.              *)
(***************************************************************************)
EXTENDS Quotes, ShopHours

CONSTANTS h1, h2, h3, s1, s2, c1, c2, k1, k2, v1, v2, v3, g1

VARIABLE focus

vars == <<catalogueVars, hoursVars, focus>>

MCCategoryOf == [k \in {k1, k2} |-> c1]
MCGenderOf   == [k \in {k1, k2} |-> IF k = k1 THEN "male" ELSE "unisex"]
MCShopOf     == [x \in {s1, s2, v1, v2, v3, g1} |-> IF x \in {s2, v3} THEN h2 ELSE h1]
MCCatalogOf  == [v \in {v1, v2, v3} |-> IF v = v1 THEN k1 ELSE k2]
MCIncluded   == [g \in {g1} |-> {v1, v2}]
MCDistance   == [h \in {h1, h2, h3} |-> IF h = h3 THEN 3 ELSE 1]
MCMinutes    == [v \in {v1, v2, v3} |-> IF v = v1 THEN 30 ELSE 45]

MCServerZones == {-2, 0, 1}

Init == CatalogueInit /\ HoursInit /\ focus \in {"catalogue", "hours"}

Next ==
  \/ focus = "catalogue" /\ EditCatalogue /\ UNCHANGED <<hoursVars, focus>>
  \/ focus = "hours" /\ HoursNext /\ UNCHANGED <<catalogueVars, focus>>

CatalogueRun == Init /\ [][Next]_vars
=============================================================================
