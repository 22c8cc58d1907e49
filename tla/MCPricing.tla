------------------------------- MODULE MCPricing -------------------------------
(* A small shop for Pricing and Shown: five products, one provider, three countries. *)
EXTENDS Shown

CONSTANTS SE, DE, US, north, code1, std, red, ItemA, ItemB, ItemC, ItemD, ItemE,
          ItemF, ItemG, garment, print, k1, k2, ann, bob, profA, profB, post, air, zoneB

MCEu == {SE, DE}

Item(kind, base, adjust, provider, more) ==
  more @@ [kind |-> kind, base |-> base, adjust |-> adjust, provider |-> provider,
           creator |-> ann, published |-> TRUE, class |-> None, exempt |-> FALSE,
           profile |-> None, variant |-> FALSE, final |-> 0, custom |-> 0,
           margin |-> 0, pricing |-> "SINGLE", active |-> TRUE, selected |-> TRUE,
           category |-> print, tags |-> {}]

Of(p, more) == more @@ [product |-> p, slug |-> p]
PerVariant == Of("e", [pricing |-> "PER_VARIANT", variant |-> TRUE, custom |-> 9,
                       category |-> garment, tags |-> {"new"}, profile |-> profA])

\* Items E and F are variants of one product, F not chosen by the creator; G is
\* an inactive variant of the product of B.
MCItems ==
  (ItemA :> Item("product", 7, 0, None, Of("a", [class |-> red, category |-> garment]))) @@
  (ItemB :> Item("variant", 5, 2, None, Of("b", [profile |-> profA, variant |-> TRUE]))) @@
  (ItemC :> Item("custom", 6, 1, bob, Of("c", [final |-> 12, variant |-> TRUE]))) @@
  (ItemD :> Item("custom", 9, 0, bob,
                 Of("d", [pricing |-> "MARGIN", margin |-> 4, exempt |-> TRUE]))) @@
  (ItemE :> Item("custom", 3, 1, bob, PerVariant)) @@
  (ItemF :> Item("custom", 3, 2, bob, [selected |-> FALSE, custom |-> 0] @@ PerVariant)) @@
  (ItemG :> Item("variant", 5, 0, None,
                 Of("b", [profile |-> profA, variant |-> TRUE, active |-> FALSE])))

MCCollections ==
  (k1 :> [active |-> TRUE, rule |-> "TAGS", tags |-> {"new"}, members |-> {}]) @@
  (k2 :> [active |-> TRUE, rule |-> "MANUAL", tags |-> {}, members |-> {"a", "c"}])

\* Profile A: two methods and, to the US, a zone without any; B ships in the EU.
Method(id, name, base, perItem, free) ==
  [id |-> id, name |-> name, pickup |-> FALSE, base |-> base, perItem |-> perItem,
   free |-> free, days |-> <<1, 3>>, active |-> TRUE]
Zone(countries, methods) ==
  [id |-> zoneB, countries |-> countries, base |-> 4, perItem |-> 1, free |-> None,
   days |-> <<2, 9>>, methods |-> methods]
MCProfiles ==
  (profA :> <<Zone({SE, DE}, <<Method(post, "post", 7, 0, 30), Method(air, "air", 3, 3, None)>>),
              Zone({US}, <<>>)>>) @@
  (profB :> <<Zone({SE, DE}, <<Method(air, "air", 9, 0, None)>>)>>)
MCDefaults == (ann :> profA) @@ (bob :> profB)

\* Sweden taxes 25 %, 10 % reduced; Germany stacks two rates; the store has a
\* Swedish row of its own and one for a postcode.
Rate(id, mine, class, country, region, codes, bp, ships) ==
  [id |-> id, own |-> mine, class |-> class, country |-> country, region |-> region,
   codes |-> codes, bp |-> bp, priority |-> 0, shipping |-> ships, active |-> TRUE,
   label |-> "vat"]
MCTax ==
  [classes |-> {[id |-> std, own |-> FALSE, zero |-> FALSE, default |-> TRUE],
                [id |-> red, own |-> FALSE, zero |-> FALSE, default |-> FALSE]},
   rates |-> {Rate(1, FALSE, std, SE, None, {}, 25, TRUE),
              Rate(2, FALSE, red, SE, None, {}, 10, FALSE),
              Rate(3, FALSE, std, DE, None, {}, 10, TRUE),
              Rate(4, FALSE, std, DE, None, {}, 20, TRUE),
              Rate(5, TRUE, std, SE, None, {}, 20, TRUE),
              Rate(6, TRUE, std, SE, north, {}, 30, TRUE),
              Rate(7, TRUE, red, SE, None, {code1}, 50, TRUE)}]

Store(independent, mode, unit, more) ==
  more @@ [independent |-> independent, creator |-> ann, active |-> TRUE, cod |-> TRUE, vendor |-> TRUE,
   unit |-> unit,
   tax |-> [country |-> SE, mode |-> mode, basis |-> "SHIPPING", oss |-> TRUE,
            platformRates |-> TRUE, shippingClass |-> None]]
MCStores == {Store(TRUE, "EXCLUSIVE", None, << >>), Store(TRUE, "INCLUSIVE", 10, << >>),
             Store(FALSE, "INCLUSIVE", None, << >>)}

Coupon(type, value, creator, provider) ==
  [type |-> type, value |-> value, creator |-> creator, provider |-> provider,
   live |-> TRUE, products |-> {}, minAmount |-> 0, minQuantity |-> 0]
MCCoupons == {None, Coupon("PERCENTAGE", 30, ann, None), Coupon("FREE_SHIPPING", 0, None, None),
              Coupon("FIXED_AMOUNT", 5, None, None)}

MCPlatforms == {[country |-> SE, mode |-> "INCLUSIVE", oss |-> FALSE, unit |-> 1],
                [country |-> SE, mode |-> "EXCLUSIVE", oss |-> TRUE, unit |-> 1]}

MCShops ==
  {[store |-> s, platform |-> p, tax |-> MCTax, profiles |-> MCProfiles,
    defaults |-> MCDefaults, items |-> MCItems,
    collections |-> MCCollections, coupon |-> c, percent |-> 15] :
     s \in MCStores, p \in MCPlatforms, c \in MCCoupons}

Line(item, quantity, offer) == [item |-> item, quantity |-> quantity, offer |-> offer]
Offer(type, quantity, value) ==
  [type |-> type, quantity |-> quantity, value |-> value, active |-> TRUE, creator |-> ann]
MCBaskets ==
  {<<Line(ItemA, 1, None), Line(ItemB, 3, Offer("ITEM", 2, 1))>>,
   <<Line(ItemC, 2, Offer("FIXED", 2, 3)), Line(ItemD, 1, None)>>,
   <<Line(ItemE, 3, Offer("PERCENTAGE", 3, 25)), Line(ItemA, 2, None), Line(ItemC, 1, None)>>}

At(country, region, code) == [country |-> country, region |-> region, code |-> code]
MCPlaces == {At(None, None, None), At(SE, north, code1), At(DE, None, None), At(US, None, None)}

\* One edit: a price, the rates, a method, the coupon, the type of the store.
MCChanges(sh) ==
  {[sh EXCEPT !.items[i].base = @ + 1] : i \in {ItemA, ItemC}} \cup
  {[sh EXCEPT !.tax.rates = {r \in @ : r.country # SE \/ r.own}],
   [sh EXCEPT !.profiles[profA][1].methods[2].active = FALSE],
   [sh EXCEPT !.profiles[profB][1].methods[1].base = 8],
   [sh EXCEPT !.coupon = IF @ = None THEN None ELSE [@ EXCEPT !.live = FALSE]],
   [sh EXCEPT !.items[ItemB].published = FALSE, !.items[ItemG].published = FALSE],
   [sh EXCEPT !.store.independent = ~@], [sh EXCEPT !.percent = 40]}
================================================================================
