SPECIFICATION CatalogueRun
CONSTANTS
 h1=h1
 h2=h2
 h3=h3
 s1=s1
 s2=s2
 c1=c1
 c2=c2
 k1=k1
 k2=k2
 v1=v1
 v2=v2
 v3=v3
 g1=g1
 Shops={h1,h2,h3}
 StaffIds={s1,s2}
 Categories={c1,c2}
 CatalogIds={k1,k2}
 ServiceIds={v1,v2,v3}
 PackageIds={g1}
 CategoryOf<-MCCategoryOf
 GenderOf<-MCGenderOf
 ShopOf<-MCShopOf
 CatalogOf<-MCCatalogOf
 Included<-MCIncluded
 Distance<-MCDistance
 Minutes<-MCMinutes
 Ratings={0,4}
 Prices={100,150}
 ServiceAreas={h1,h3}
 NearbyRadius=2
 HomeLimit=2
 MaxEdits=3
 DayLength=4
 SlotLength=2
 ZoneAhead=1
 LookAhead=7
 ServerZones<-MCServerZones
 Weekdays={1,7}
 MaxRows=2
 MaxMoment=28
CHECK_DEADLOCK FALSE
INVARIANT FoundShopOpens
INVARIANT VariantsAreFound
INVARIANT ShownIsBookable
INVARIANT BookingCostsItsQuote
INVARIANT OpenShopHasSlots
