------------------------------- MODULE KustomLines -----------------------------
(***************************************************************************)
(* The body of a Kustom checkout: the lines, amounts and shipping options  *)
(* that kustom.mapper.ts builds from a quote or an order.                  *)
(*                                                                         *)
(* An input has unit, items (each quantity, unitPrice, total, rate, tax),  *)
(* shippingCost, discount, total, mode, shippingTax and shippingRate, in   *)
(* hundredths.  What is built is in minor units of the currency.  Names,   *)
(* references, addresses, URLs and locales are left out.                   *)
(***************************************************************************)
EXTENDS Money, TLC

\* Kustom wants total = quantity * unit - discount on every line: a gap between
\* our rounded figures is a line discount, or a dearer unit.
ConsistentLineAmounts(unit, total, quantity) ==
  LET qty   == Larger(1, quantity)
      whole == IF unit * qty < total THEN -((-total) \div qty) ELSE unit
  IN [unitPrice |-> whole, total |-> total, discount |-> whole * qty - total]

Gross(input, amount, tax) == IF input.mode = "EXCLUSIVE" THEN amount + tax ELSE amount

ItemLine(input, item, total, share) ==
  LET Minor(x) == ToMinor(x, input.unit)
      rate == ClampRate(item.rate)
      net  == Minor(item.unitPrice)
  IN ConsistentLineAmounts(Gross(input, net, AddedTax(net, rate)),
                           Gross(input, total - share, Minor(item.tax)),
                           item.quantity)
       @@ [type |-> "physical", quantity |-> item.quantity, rate |-> rate,
           tax |-> Minor(item.tax)]

\* One line of one piece: the shipping fee, or the rounding adjustment.
OneLine(type, amount, rate, tax) ==
  [type |-> type, quantity |-> 1, unitPrice |-> amount, total |-> amount,
   discount |-> 0, rate |-> rate, tax |-> tax]

LinesTotal(lines) == Total([n \in DOMAIN lines |-> lines[n].total])
LinesTax(lines)   == Total([n \in DOMAIN lines |-> lines[n].tax])

\* MUTANT: the discount is not shared out, and ends in one negative line.
LinesWithDiscountLine(input) ==
  LET Minor(x) == ToMinor(x, input.unit)
      goods  == [i \in DOMAIN input.items |->
                   ItemLine(input, input.items[i], Minor(input.items[i].total), 0)]
      gap    == Minor(input.total) - LinesTotal(goods)
  IN IF gap = 0 THEN goods ELSE Append(goods, OneLine("discount", gap, 0, 0))

\* The goods, the shipping fee when there is one, and whatever still lacks to
\* the order's total, which is the figure Kustom will be held to.
BuildOrderLines(input) ==
  LET Minor(x) == ToMinor(x, input.unit)
      totals == [i \in DOMAIN input.items |-> Minor(input.items[i].total)]
      shares == AllocateLargestRemainder(
                  Smaller(Minor(input.discount), Total(totals)), totals)
      goods  == [i \in DOMAIN input.items |->
                   ItemLine(input, input.items[i], totals[i], shares[i])]
      fee    == Gross(input, Minor(input.shippingCost), Minor(input.shippingTax))
      lines  == IF fee > 0
                THEN Append(goods, OneLine("shipping_fee", fee,
                              ClampRate(input.shippingRate), Minor(input.shippingTax)))
                ELSE goods
      gap    == Minor(input.total) - LinesTotal(lines)
  IN IF gap = 0 THEN lines
     ELSE Append(lines, OneLine(IF gap > 0 THEN "surcharge" ELSE "discount",
                                gap, 0, 0))

\* The options of the iframe, priced with the shipping rate of the order; the
\* one the customer picked is preselected if it is still offered.
BuildShippingOptions(input, methods, selected) ==
  LET rate == ClampRate(input.shippingRate)
      ids  == {methods[n].id : n \in DOMAIN methods}
      pick == IF selected \in ids THEN selected ELSE methods[1].id
  IN [n \in DOMAIN methods |->
        LET net == ToMinor(methods[n].cost, input.unit)
            tax == IF input.mode = "EXCLUSIVE" THEN AddedTax(net, rate)
                   ELSE IncludedTax(net, rate)
        IN [id |-> methods[n].id, price |-> Gross(input, net, tax), tax |-> tax,
            rate |-> rate, preselected |-> methods[n].id = pick]]

BuildSessionAmounts(input, methods, selected) ==
  LET lines == BuildOrderLines(input)
  IN [amount  |-> ToMinor(input.total, input.unit), taxes |-> LinesTax(lines),
      lines   |-> lines, unit |-> input.unit,
      options |-> IF methods = <<>> THEN <<>>
                  ELSE BuildShippingOptions(input, methods, selected)]

ExpectedKustomAmount(order) == ToMinor(order.total, order.unit)
================================================================================
