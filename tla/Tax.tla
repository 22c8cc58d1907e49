---------------------------------- MODULE Tax ----------------------------------
(***************************************************************************)
(* The tax engine: which rates apply to a line, and what they come to.     *)
(* src/modules/taxes/tax.service.ts, a module of pure functions that the   *)
(* quote, the order and the Kustom session share.                          *)
(*                                                                         *)
(* A rate row is a record: id, own (it has a store_id), class, country,    *)
(* region, codes (the postcodes its pattern matches, {} for no pattern),   *)
(* bp, priority, shipping, active, label.  A tax class: id, own, zero,     *)
(* default.  A destination: country, region, code.  None is null.          *)
(***************************************************************************)
EXTENDS Money

CONSTANTS
  None,          \* null
  EuCountries    \* the countries of isEuCountry

Exclusive == "EXCLUSIVE"
Inclusive == "INCLUSIVE"

\* Who taxes the orders of a store: an independent one itself, with its own
\* rows and settings; otherwise the platform, whatever the store's row says.
BuildTaxContext(store, platform) ==
  IF store.independent
  THEN [country |-> IF store.tax.country # None THEN store.tax.country
                    ELSE platform.country,
        mode |-> store.tax.mode, basis |-> store.tax.basis,
        oss |-> store.tax.oss, own |-> TRUE,
        platformRates |-> store.tax.platformRates,
        shippingClass |-> store.tax.shippingClass]
  ELSE [country |-> platform.country, mode |-> platform.mode,
        basis |-> "SHIPPING", oss |-> platform.oss, own |-> FALSE,
        platformRates |-> TRUE, shippingClass |-> None]

\* The rows loadTaxData reads: active, and of a scope the context uses.
Visible(ctx, rates) ==
  {r \in rates : r.active /\ IF r.own THEN ctx.own ELSE ctx.platformRates}

Specificity(rate) ==
  IF rate.codes # {} THEN 2 ELSE IF rate.region # None THEN 1 ELSE 0

SameScope(r, s) == /\ r.class = s.class /\ r.country = s.country
                   /\ r.region = s.region /\ r.codes = s.codes

\* The rates of one class for one place: a store's row shadows the platform's
\* for the same scope, the most specific rows win, then the lowest priority;
\* the rows that share it stack.
MatchClassRates(rates, class, country, place) ==
  LET candidates == {r \in rates :
                       /\ r.class = class /\ r.country = country
                       /\ r.region \in {None, place.region}
                       /\ r.codes = {} \/ place.code \in r.codes}
      shown  == {r \in candidates :
                   r.own \/ ~ \E s \in candidates : s.own /\ SameScope(r, s)}
      atBest == {r \in shown : \A s \in shown : Specificity(r) >= Specificity(s)}
  IN {r \in atBest : \A s \in atBest : r.priority <= s.priority}

\* The default class of the scope: the store's own, else the platform's.
DefaultClass(ctx, classes) ==
  LET defaults == {c \in classes : c.default /\ (c.own => ctx.own)}
      best     == {c \in defaults : c.own \/ \A d \in defaults : ~d.own}
  IN IF best = {} THEN None ELSE CHOOSE c \in best : TRUE

ClassOf(ctx, classes, line) ==
  IF \E c \in classes : c.id = line.class
  THEN CHOOSE c \in classes : c.id = line.class
  ELSE DefaultClass(ctx, classes)

\* The territory whose rates apply, or None: exports are not taxed, and inside
\* the EU the OSS registration decides between the two countries.
RateCountry(ctx, destination) ==
  LET home  == ctx.country
      there == IF destination.country = None THEN home ELSE destination.country
  IN CASE home = None            -> None
       [] home \in EuCountries   -> IF there \notin EuCountries THEN None
                                    ELSE IF there # home /\ ~ctx.oss THEN home
                                    ELSE there
       [] OTHER                  -> IF there = home THEN home ELSE None

ResolveRates(ctx, data, line, destination) ==
  LET class   == ClassOf(ctx, data.classes, line)
      country == RateCountry(ctx, destination)
      abroad  == country # IF destination.country = None THEN ctx.country
                           ELSE destination.country
      place   == IF abroad THEN [region |-> None, code |-> None] ELSE destination
      Match(c) == MatchClassRates(Visible(ctx, data.rates), c.id, country, place)
      default == DefaultClass(ctx, data.classes)
  IN IF line.exempt \/ class = None \/ country = None THEN {}
     ELSE IF class.zero THEN {}
     ELSE IF Match(class) # {} \/ default = None THEN Match(class)
     ELSE Match(default)

\* Stacked rates in the order they compound: the lower one first.
InOrder(rates) ==
  [n \in 1..Cardinality(rates) |->
     CHOOSE r \in rates :
       n = Cardinality({s \in rates : s.bp < r.bp
                                      \/ (s.bp = r.bp /\ s.id <= r.id)})]

\* The product of (Whole + rate) over the rates, and of Whole over as many.
Compound(rates) == FoldFunction(LAMBDA r, p : p * (Whole + ClampRate(r.bp)),
                                1, InOrder(rates))
Plain(rates)    == FoldFunction(LAMBDA r, p : p * Whole, 1, InOrder(rates))

EffectiveRate(rates) ==
  CASE rates = {} -> 0
    [] Cardinality(rates) = 1 -> ClampRate((CHOOSE r \in rates : TRUE).bp)
    [] OTHER -> Round((Compound(rates) - Plain(rates)) * Whole, Plain(rates))

\* The tax of one line.  base is what the line costs after its share of the
\* discount: with the tax inside, or before it.  The part of each rate is
\* computed on the amount and the taxes before it; with the tax inside, the
\* last one absorbs what the rounding of the parts left.
TaxLine(base, rates, mode) ==
  LET rows == InOrder(rates)
      tax  == RoundSymmetric(base * (Compound(rates) - Plain(rates)), Compound(rates))
      net  == IF mode = Inclusive THEN base - tax ELSE base
      running[n \in 0..Len(rows)] ==
        IF n = 0 THEN net ELSE running[n-1] + AddedTax(running[n-1], rows[n].bp)
      Absorbed(n) == IF mode = Inclusive /\ n = Len(rows)
                     THEN base - running[n] ELSE 0
  IN IF rates = {} \/ base = 0
     THEN [tax |-> 0, parts |-> <<>>]
     ELSE [tax   |-> IF mode = Inclusive THEN tax ELSE running[Len(rows)] - net,
           parts |-> [n \in 1..Len(rows) |->
                        [label |-> rows[n].label, bp |-> ClampRate(rows[n].bp),
                         tax |-> running[n] - running[n-1] + Absorbed(n)]]]

\* The destination the basis of the store looks at; both addresses are one.
DestinationFor(ctx, destination) ==
  IF ctx.basis = "STORE"
  THEN [country |-> ctx.country, region |-> None, code |-> None]
  ELSE destination

\* The breakdown: the parts with the same label and rate, summed.
Breakdown(parts) ==
  LET key(p) == <<p.label, p.bp>>
  IN [k \in {key(parts[n]) : n \in DOMAIN parts} |->
        Total([n \in {m \in DOMAIN parts : key(parts[m]) = k} |-> parts[n].tax])]

\* One line after its share of the discount: its rates and its tax.
LineTax(amount, share, rates, mode) ==
  [share |-> share, base |-> amount - share, rates |-> rates,
   rate |-> EffectiveRate(rates), taxed |-> TaxLine(amount - share, rates, mode)]

\* The rates of shipping: of the class set for it, or else of the class of the
\* first line with the highest rate.
ShippingRates(ctx, data, lines, taxed, place) ==
  LET leads == {i \in DOMAIN lines :
                  /\ taxed[i].rates # {}
                  /\ \A j \in DOMAIN lines :
                       taxed[j].rates # {} => \/ taxed[i].rate > taxed[j].rate
                                              \/ taxed[i].rate = taxed[j].rate /\ i <= j}
      class == IF ctx.shippingClass # None THEN ctx.shippingClass
               ELSE IF leads = {} THEN None
               ELSE ClassOf(ctx, data.classes, lines[CHOOSE i \in leads : TRUE]).id
  IN IF class = None THEN {}
     ELSE {r \in ResolveRates(ctx, data, [class |-> class, exempt |-> FALSE], place) :
             r.shipping}

\* The parts of the tax of all the lines and of shipping.
AllParts(taxed, carried) ==
  FoldFunction(\o, carried.parts, [i \in DOMAIN taxed |-> taxed[i].taxed.parts])

\* The result, with every amount in hundredths again.
TaxResult(unit, mode, taxed, shipping, carried, shippingRate) ==
  LET Major(x) == ToMajor(x, unit)
      OnTop(tax) == IF mode = Exclusive THEN tax ELSE 0
      gross == [i \in DOMAIN taxed |-> taxed[i].base + OnTop(taxed[i].taxed.tax)]
      sums  == Breakdown(AllParts(taxed, carried))
  IN [items |-> [i \in DOMAIN taxed |->
                   [rate |-> taxed[i].rate, tax |-> Major(taxed[i].taxed.tax),
                    share |-> Major(taxed[i].share), gross |-> Major(gross[i])]],
      shippingTax |-> Major(carried.tax), shippingRate |-> shippingRate,
      lines  |-> [k \in DOMAIN sums |-> Major(sums[k])],
      taxes  |-> Major(Total([i \in DOMAIN taxed |-> taxed[i].taxed.tax]) + carried.tax),
      total  |-> Major(Total(gross) + shipping + OnTop(carried.tax)),
      mode   |-> mode]

\* The lines, each with its rates and its share of the discount.
TaxedLines(ctx, data, lines, minor, discount, place) ==
  LET shares == AllocateLargestRemainder(Smaller(discount, Total(minor)), minor)
  IN [i \in DOMAIN lines |-> LineTax(minor[i], shares[i],
                                     ResolveRates(ctx, data, lines[i], place), ctx.mode)]

WithShipping(ctx, data, unit, lines, taxed, shipping, place) ==
  LET rates == ShippingRates(ctx, data, lines, taxed, place)
  IN TaxResult(unit, ctx.mode, taxed, shipping, TaxLine(shipping, rates, ctx.mode),
               EffectiveRate(rates))

ComputeTaxesAt(ctx, data, unit, lines, shipping, discount, place) ==
  WithShipping(ctx, data, unit, lines,
    TaxedLines(ctx, data, lines, [i \in DOMAIN lines |-> ToMinor(lines[i].amount, unit)],
               discount, place),
    shipping, place)

ComputeTaxes(ctx, data, unit, lines, shippingCost, discount, destination) ==
  ComputeTaxesAt(ctx, data, unit, lines, ToMinor(shippingCost, unit),
                 ToMinor(discount, unit), DestinationFor(ctx, destination))
================================================================================
