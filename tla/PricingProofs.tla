--------------------------- MODULE PricingProofs ---------------------------
(***************************************************************************)
(* The VAT the code computes is the VAT the data model prescribes, for     *)
(* every catalogue, every quantity and every price.                        *)
(***************************************************************************)
EXTENDS Pricing, Sums, SequenceTheorems

Rates == {0, 800, 1600}

\* Whatever the category, the rate is one of KRA's three.
LEMMA RateIsKRAs == \A c : RateBP(c) \in Rates
  BY DEF RateBP, Rates

\* No amount in whole cents is a tie at 16 % or 8 %, as half of 11600 and of
\* 10800 is not a multiple of what the rate makes of a cent: so rounding ties
\* up, as LineTax does, and to even, as the data model says, never differ.
LEMMA NoTie ==
  ASSUME NEW t \in Nat, NEW r \in {800, 1600}
  PROVE  2 * ((t * r) % (10000 + r)) # 10000 + r
  <1>1. CASE r = 1600
    <2> DEFINE num == t * 1600
               q   == num \div 11600
               m   == num % 11600
    <2>1. num \in Nat
      BY SMT
    <2> HIDE DEF num
    <2>2. num = 11600 * q + m /\ q \in Nat /\ m \in Nat
      BY <2>1, SMT
    <2> HIDE DEF q, m
    <2>3. ASSUME 2 * m = 11600 PROVE FALSE
      <3>1. num = 11600 * q + 5800
        BY <2>2, <2>3, SMT
      <3>2. 8 * t = 58 * q + 29
        BY <2>2, <3>1, SMT DEF num
      <3>3. QED BY <2>2, <3>2, SMT
    <2>4. m = (t * r) % (10000 + r) /\ 10000 + r = 11600
      BY <1>1 DEF m, num
    <2>5. QED BY <2>3, <2>4
  <1>2. CASE r = 800
    <2> DEFINE num == t * 800
               q   == num \div 10800
               m   == num % 10800
    <2>1. num \in Nat
      BY SMT
    <2> HIDE DEF num
    <2>2. num = 10800 * q + m /\ q \in Nat /\ m \in Nat
      BY <2>1, SMT
    <2> HIDE DEF q, m
    <2>3. ASSUME 2 * m = 10800 PROVE FALSE
      <3>1. num = 10800 * q + 5400
        BY <2>2, <2>3, SMT
      <3>2. 4 * t = 54 * q + 27
        BY <2>2, <3>1, SMT DEF num
      <3>3. QED BY <2>2, <3>2, SMT
    <2>4. m = (t * r) % (10000 + r) /\ 10000 + r = 10800
      BY <1>2 DEF m, num
    <2>5. QED BY <2>3, <2>4
  <1>3. QED BY <1>1, <1>2

\* What the code computes for an amount is what the data model prescribes.
LEMMA TaxIsHalfEven ==
  ASSUME NEW t \in Nat, NEW r \in Rates
  PROVE  LineTax(t, r) = HalfEven(t * r, 10000 + r)
  <1>1. CASE r = 0
    <2>1. t * r = 0 /\ 10000 + r = 10000
      BY <1>1, SMT
    <2>2. HalfEven(0, 10000) = 0
      BY SMT DEF HalfEven, abs64
    <2>3. QED BY <1>1, <2>1, <2>2 DEF LineTax
  <1>2. CASE r # 0 /\ t = 0
    <2>1. r \in {800, 1600}
      BY <1>2 DEF Rates
    <2>2. HalfEven(0, 10800) = 0 /\ HalfEven(0, 11600) = 0
      BY SMT DEF HalfEven, abs64
    <2>3. t * r = 0 /\ (10000 + r = 10800 \/ 10000 + r = 11600)
      BY <1>2, <2>1, SMT
    <2>4. QED BY <1>2, <2>2, <2>3 DEF LineTax
  <1>3. CASE r # 0 /\ t # 0
    <2>1. r \in {800, 1600}
      BY <1>3 DEF Rates
    <2> DEFINE num == t * r
               den == 10000 + r
    <2>2. num \in Nat /\ den \in Nat \ {0}
      BY <2>1, SMT
    <2>3. 2 * (num % den) # den
      BY <2>1, NoTie
    <2>4. abs64(num) = num /\ ~(num < 0)
      BY <2>2, SMT DEF abs64
    <2>5. num % den \in Nat
      BY <2>2, SMT
    <2> HIDE DEF num, den
    <2>6. roundHalfUp(num, den) = HalfEven(num, den)
      BY <2>2, <2>3, <2>4, <2>5, SMT DEF roundHalfUp, HalfEven
    <2>7. LineTax(t, r) = roundHalfUp(num, den)
      BY <1>3 DEF LineTax, num, den
    <2>8. QED BY <2>6, <2>7 DEF num, den
  <1>4. QED BY <1>1, <1>2, <1>3

-----------------------------------------------------------------------------
(* The invariant: every line has been priced, and its tax follows from its *)
(* total.                                                                  *)

Lines == [cat : Categories, qty : Nat, price : Nat, total : Nat, tax : Int]

LinesOK(lines) == lines \in Seq(Lines) /\ TaxedAsDocumented(lines)

Inv == /\ items \in [Items -> [price : Nat, cat : Categories]]
       /\ LinesOK(cart.lines)
       /\ LinesOK(sale.lines)

\* A line priced as createSaleFromLines and createCashSale price it has a type
\* and the documented tax.
LEMMA LinePriced ==
  ASSUME NEW c \in Categories, NEW q \in Nat, NEW p \in Nat
  PROVE  /\ PricedLine(c, q, p) \in Lines
         /\ PricedLine(c, q, p).tax =
               HalfEven(PricedLine(c, q, p).total * RateBP(PricedLine(c, q, p).cat),
                        10000 + RateBP(PricedLine(c, q, p).cat))
  <1> DEFINE t == q * p
             r == RateBP(c)
  <1>1. t \in Nat
    BY SMT
  <1>2. r \in Rates
    BY RateIsKRAs
  <1>3. LineTax(t, r) = HalfEven(t * r, 10000 + r)
    BY <1>1, <1>2, TaxIsHalfEven
  <1>4. r = 0 \/ r = 800 \/ r = 1600
    BY <1>2 DEF Rates
  <1>5. LineTax(t, r) \in Int
    BY <1>1, <1>4, SMT DEF LineTax, roundHalfUp, abs64
  <1> HIDE DEF t, r
  <1>6. PricedLine(c, q, p) = [cat |-> c, qty |-> q, price |-> p, total |-> t, tax |-> LineTax(t, r)]
    BY DEF PricedLine, t, r
  <1>7. PricedLine(c, q, p) \in Lines
    BY <1>1, <1>5, <1>6 DEF Lines
  <1>8. QED BY <1>3, <1>6, <1>7 DEF r

\* Appending one well-taxed line keeps all of them well taxed.
LEMMA LineAppended ==
  ASSUME NEW lines, LinesOK(lines), NEW l \in Lines,
         l.tax = HalfEven(l.total * RateBP(l.cat), 10000 + RateBP(l.cat))
  PROVE  LinesOK(Append(lines, l))
  <1>1. lines \in Seq(Lines) /\ Append(lines, l) \in Seq(Lines)
    BY DEF LinesOK
  <1>2. ASSUME NEW k \in DOMAIN Append(lines, l)
        PROVE  Append(lines, l)[k].tax =
                 HalfEven(Append(lines, l)[k].total * RateBP(Append(lines, l)[k].cat),
                          10000 + RateBP(Append(lines, l)[k].cat))
    <2>1. CASE k \in DOMAIN lines
      <3>1. Append(lines, l)[k] = lines[k]
        BY <1>1, <2>1
      <3>2. QED BY <2>1, <3>1 DEF LinesOK, TaxedAsDocumented
    <2>2. CASE k \notin DOMAIN lines
      <3>1. Append(lines, l)[k] = l
        BY <1>1, <2>2
      <3>2. QED BY <3>1
    <2>3. QED BY <2>1, <2>2
  <1>3. QED BY <1>1, <1>2 DEF LinesOK, TaxedAsDocumented

\* A request that has no lines has no line taxed wrongly.
LEMMA NoLines == LinesOK(<<>>)
  BY DEF LinesOK, TaxedAsDocumented

\* Sales start without lines, and the catalogue with prices and categories.
LEMMA InitInv == Init => Inv
  <1> SUFFICES ASSUME Init PROVE Inv
    OBVIOUS
  <1>1. items \in [Items -> [price : Nat, cat : Categories]]
    <2>1. items \in [Items -> [price : Prices \cup {0}, cat : Cats]]
      BY DEF Init
    <2>2. Prices \cup {0} \subseteq Nat /\ Cats \subseteq Categories
      BY PricingAssumption
    <2>3. QED BY <2>1, <2>2
  <1>2. cart.lines = <<>> /\ sale.lines = <<>>
    BY DEF Init, EmptyCart, NoSale
  <1>3. QED BY <1>1, <1>2, NoLines DEF Inv

\* No step of the catalogue, the sale or its documents stores a line that is
\* taxed otherwise.
LEMMA NextInv == Inv /\ [Next]_vars => Inv'
  <1> SUFFICES ASSUME Inv, [Next]_vars PROVE Inv'
    OBVIOUS
  <1>1. ASSUME UNCHANGED <<items, cart, sale>> PROVE Inv'
    BY <1>1 DEF Inv, LinesOK, TaxedAsDocumented
  <1>2. ASSUME NEW x \in Items, updateItem(x) PROVE Inv'
    <2>1. items' \in [Items -> [price : Nat, cat : Categories]]
      BY <1>2, PricingAssumption DEF updateItem, Inv
    <2>2. UNCHANGED <<cart, sale>>
      BY <1>2 DEF updateItem
    <2>3. QED BY <2>1, <2>2 DEF Inv, LinesOK, TaxedAsDocumented
  <1>3. CASE AddLine
    <2>1. PICK x \in Items \cup {NoItem}, q \in Quantities, p \in Prices \cup {0}, c \in Cats \cup {"none"} :
            LET price == IF p = 0 /\ x # NoItem THEN items[x].price ELSE p
                cat   == IF c = "none" /\ x # NoItem THEN items[x].cat ELSE c
            IN cart' = IF price = 0 \/ cat = "none" THEN EmptyCart
                       ELSE WithLine(PricedLine(cat, q, price))
      BY <1>3 DEF AddLine
    <2> DEFINE price == IF p = 0 /\ x # NoItem THEN items[x].price ELSE p
               cat   == IF c = "none" /\ x # NoItem THEN items[x].cat ELSE c
    <2>2. UNCHANGED <<items, sale>>
      BY <1>3 DEF AddLine
    <2>3. CASE price = 0 \/ cat = "none"
      <3>1. cart'.lines = <<>>
        BY <2>1, <2>3 DEF EmptyCart
      <3>2. QED BY <2>2, <3>1, NoLines DEF Inv, LinesOK, TaxedAsDocumented
    <2>4. CASE ~(price = 0 \/ cat = "none")
      <3>1. x # NoItem => items[x].price \in Nat /\ items[x].cat \in Categories
        BY DEF Inv
      <3>2. price \in Nat /\ cat \in Categories /\ q \in Nat
        BY <2>4, <3>1, PricingAssumption
      <3> HIDE DEF price, cat
      <3> DEFINE l == PricedLine(cat, q, price)
      <3>3. cart'.lines = Append(cart.lines, l)
        BY <2>1, <2>4 DEF WithLine, price, cat
      <3>4. l \in Lines /\ l.tax = HalfEven(l.total * RateBP(l.cat), 10000 + RateBP(l.cat))
        BY <3>2, LinePriced
      <3> HIDE DEF l
      <3>5. LinesOK(Append(cart.lines, l))
        BY <3>4, LineAppended DEF Inv
      <3>6. QED BY <2>2, <3>3, <3>5 DEF Inv, LinesOK, TaxedAsDocumented
    <2>5. QED BY <2>3, <2>4
  <1>4. CASE createSale
    <2>1. sale'.lines = cart.lines /\ cart'.lines = <<>> /\ UNCHANGED items
      BY <1>4 DEF createSale, EmptyCart
    <2>2. QED BY <2>1, NoLines DEF Inv, LinesOK, TaxedAsDocumented
  <1>5. CASE createCashSale
    <2>1. PICK x \in Items, amount \in Prices :
            sale'.lines = <<PricedLine(items[x].cat, 1, amount)>>
      BY <1>5 DEF createCashSale
    <2>2. UNCHANGED <<items, cart>>
      BY <1>5 DEF createCashSale
    <2> DEFINE l == PricedLine(items[x].cat, 1, amount)
    <2>3. items[x].cat \in Categories /\ amount \in Nat
      BY PricingAssumption DEF Inv
    <2>4. l \in Lines /\ l.tax = HalfEven(l.total * RateBP(l.cat), 10000 + RateBP(l.cat))
      BY <2>3, LinePriced
    <2> HIDE DEF l
    <2>5. LinesOK(Append(<<>>, l))
      <3> DEFINE none == <<>>
      <3>1. LinesOK(none)
        BY NoLines
      <3> HIDE DEF none
      <3>2. LinesOK(Append(none, l))
        BY <2>4, <3>1, LineAppended
      <3>3. QED BY <3>2 DEF none
    <2>6. Append(<<>>, l) = <<l>>
      OBVIOUS
    <2>7. sale'.lines = <<l>>
      BY <2>1 DEF l
    <2>8. QED BY <2>2, <2>5, <2>6, <2>7 DEF Inv, LinesOK, TaxedAsDocumented
  <1>6. CASE CreateInvoice
    BY <1>1, <1>6 DEF CreateInvoice
  <1>7. CASE CreateCreditNote
    BY <1>1, <1>7 DEF CreateCreditNote
  <1>8. ASSUME NEW d \in DOMAIN docs, Submit(d) PROVE Inv'
    BY <1>1, <1>8 DEF Submit
  <1>9. CASE UNCHANGED vars
    BY <1>1, <1>9 DEF vars
  <1>10. QED
    BY <1>2, <1>3, <1>4, <1>5, <1>6, <1>7, <1>8, <1>9 DEF Next

\* Every line of a sale, from a request or from a payment, for every catalogue,
\* price and quantity, carries the VAT docs/data-model.md prescribes, which
\* rounds to even where LineTax rounds up.
THEOREM TaxAsDocumentedHolds == Spec => []TaxAsDocumented
  <1>1. Inv => TaxAsDocumented
    BY DEF Inv, LinesOK, TaxAsDocumented
  <1>2. QED BY InitInv, NextInv, <1>1, PTL DEF Spec

-----------------------------------------------------------------------------
(* The tax of a line is a part of its total.                               *)

\* At KRA's rates the VAT contained in an amount is between nothing and the
\* amount, rounding included.
LEMMA TaxWithin ==
  ASSUME NEW t \in Nat, NEW r \in Rates
  PROVE  LineTax(t, r) \in 0 .. t
  <1>1. CASE r = 0 \/ t = 0
    BY <1>1 DEF LineTax
  <1>2. CASE r = 1600 /\ t # 0
    <2> DEFINE num == t * 1600
               q   == num \div 11600
               m   == num % 11600
    <2>1. num \in Nat
      BY SMT
    <2>2. LineTax(t, r) = roundHalfUp(num, 11600)
      BY <1>2 DEF LineTax
    <2> HIDE DEF num
    <2>3. num = 11600 * q + m /\ q \in Nat /\ m \in Nat
      BY <2>1, SMT
    <2>4. roundHalfUp(num, 11600) = IF 2 * m >= 11600 THEN q + 1 ELSE q
      BY <2>1, SMT DEF roundHalfUp, abs64
    <2> HIDE DEF q, m
    <2>5. 1600 * t = 11600 * q + m /\ t >= 1
      BY <1>2, <2>3, SMT DEF num
    <2>6. q =< t /\ (2 * m >= 11600 => q + 1 =< t)
      BY <2>3, <2>5, SMT
    <2>7. QED BY <2>2, <2>3, <2>4, <2>6
  <1>3. CASE r = 800 /\ t # 0
    <2> DEFINE num == t * 800
               q   == num \div 10800
               m   == num % 10800
    <2>1. num \in Nat
      BY SMT
    <2>2. LineTax(t, r) = roundHalfUp(num, 10800)
      BY <1>3 DEF LineTax
    <2> HIDE DEF num
    <2>3. num = 10800 * q + m /\ q \in Nat /\ m \in Nat
      BY <2>1, SMT
    <2>4. roundHalfUp(num, 10800) = IF 2 * m >= 10800 THEN q + 1 ELSE q
      BY <2>1, SMT DEF roundHalfUp, abs64
    <2> HIDE DEF q, m
    <2>5. 800 * t = 10800 * q + m /\ t >= 1
      BY <1>3, <2>3, SMT DEF num
    <2>6. q =< t /\ (2 * m >= 10800 => q + 1 =< t)
      BY <2>3, <2>5, SMT
    <2>7. QED BY <2>2, <2>3, <2>4, <2>6
  <1>4. QED BY <1>1, <1>2, <1>3 DEF Rates

\* A line as it is priced: its total and the tax in it.
LEMMA LineWithin ==
  ASSUME NEW c, NEW q \in Nat, NEW p \in Nat
  PROVE  /\ PricedLine(c, q, p).total = q * p
         /\ PricedLine(c, q, p).tax \in 0 .. PricedLine(c, q, p).total
  <1>1. q * p \in Nat
    BY SMT
  <1>2. LineTax(q * p, RateBP(c)) \in 0 .. q * p
    BY <1>1, TaxWithin, RateIsKRAs
  <1>3. QED BY <1>2 DEF PricedLine

-----------------------------------------------------------------------------
(* Sums of lines.                                                          *)

\* The columns of a list of lines.
TotalsIn(lines) == [k \in DOMAIN lines |-> lines[k].total]
TaxesIn(lines) == [k \in DOMAIN lines |-> lines[k].tax]
TaxablesIn(lines) == [k \in DOMAIN lines |-> lines[k].total - lines[k].tax]
TaxblsIn(lines) == [k \in DOMAIN lines |-> lines[k].taxbl]

\* The sums of the model, by columns.
LEMMA SumsAre ==
  ASSUME NEW lines
  PROVE  /\ Sum(lines, TotalOf) = Total(TotalsIn(lines), DOMAIN lines)
         /\ Sum(lines, TaxOf) = Total(TaxesIn(lines), DOMAIN lines)
         /\ Sum(lines, TaxableOf) = Total(TaxablesIn(lines), DOMAIN lines)
         /\ Sum(lines, TaxblOf) = Total(TaxblsIn(lines), DOMAIN lines)
  <1>1. /\ Sum(lines, TotalOf) = SumFunction(TotalsIn(lines))
        /\ Sum(lines, TaxOf) = SumFunction(TaxesIn(lines))
        /\ Sum(lines, TaxableOf) = SumFunction(TaxablesIn(lines))
        /\ Sum(lines, TaxblOf) = SumFunction(TaxblsIn(lines))
    BY DEF Sum, TotalOf, TaxOf, TaxableOf, TaxblOf, TotalsIn, TaxesIn, TaxablesIn, TaxblsIn
  <1>2. /\ DOMAIN TotalsIn(lines) = DOMAIN lines /\ DOMAIN TaxesIn(lines) = DOMAIN lines
        /\ DOMAIN TaxablesIn(lines) = DOMAIN lines /\ DOMAIN TaxblsIn(lines) = DOMAIN lines
    BY DEF TotalsIn, TaxesIn, TaxablesIn, TaxblsIn
  <1>3. QED BY <1>1, <1>2, SumFunctionIs

\* Amounts of a list of lines: numbers in a finite table.
LEMMA LinesAre ==
  ASSUME NEW lines \in Seq(Lines)
  PROVE  /\ Len(lines) \in Nat /\ DOMAIN lines = 1 .. Len(lines) /\ IsFiniteSet(DOMAIN lines)
         /\ \A k \in DOMAIN lines : lines[k].total \in Nat /\ lines[k].tax \in Int /\ lines[k].cat \in Categories
  <1>1. Len(lines) \in Nat /\ DOMAIN lines = 1 .. Len(lines) /\ \A k \in DOMAIN lines : lines[k] \in Lines
    BY LenProperties
  <1>2. IsFiniteSet(1 .. Len(lines))
    BY <1>1, FS_Interval
  <1>3. QED BY <1>1, <1>2 DEF Lines

\* The total of lines is what is taxable and the tax.
LEMMA TaxableAndTax ==
  ASSUME NEW lines \in Seq(Lines)
  PROVE  /\ Sum(lines, TotalOf) \in Int /\ Sum(lines, TaxOf) \in Int /\ Sum(lines, TaxableOf) \in Int
         /\ Sum(lines, TaxableOf) = Sum(lines, TotalOf) - Sum(lines, TaxOf)
  <1>1. PICK S : S = DOMAIN lines
    OBVIOUS
  <1>2. PICK g : g = TotalsIn(lines)
    OBVIOUS
  <1>3. PICK h : h = TaxesIn(lines)
    OBVIOUS
  <1>4. PICK d : d = TaxablesIn(lines)
    OBVIOUS
  <1>5. /\ IsFiniteSet(S)
        /\ \A k \in S : g[k] \in Int /\ h[k] \in Int /\ d[k] = g[k] - h[k]
    BY <1>1, <1>2, <1>3, <1>4, LinesAre DEF TotalsIn, TaxesIn, TaxablesIn
  <1>6. Total(d, S) = Total(g, S) - Total(h, S)
    BY <1>5, TotalMinus
  <1>7. Total(g, S) \in Int /\ Total(h, S) \in Int
    BY <1>5, TotalSteps
  <1>8. QED BY <1>1, <1>2, <1>3, <1>4, <1>6, <1>7, SumsAre

\* A line more is its amounts more.
LEMMA SumAppended ==
  ASSUME NEW lines \in Seq(Lines), NEW l \in Lines
  PROVE  /\ Sum(Append(lines, l), TaxOf) = Sum(lines, TaxOf) + l.tax
         /\ Sum(Append(lines, l), TaxableOf) = Sum(lines, TaxableOf) + (l.total - l.tax)
  <1>1. PICK n \in Nat : n = Len(lines) /\ DOMAIN lines = 1 .. n /\ IsFiniteSet(1 .. n)
    BY LinesAre
  <1>2. PICK new : new = Append(lines, l)
    OBVIOUS
  <1>3. /\ new \in Seq(Lines) /\ DOMAIN new = 1 .. n + 1
        /\ \A k \in 1 .. n : new[k] = lines[k]
        /\ new[n + 1] = l
    BY <1>1, <1>2
  <1>4. 1 .. n + 1 = (1 .. n) \cup {n + 1} /\ n + 1 \notin 1 .. n
    OBVIOUS
  <1>5. \A k \in (1 .. n) \cup {n + 1} : new[k].total \in Nat /\ new[k].tax \in Int
    BY <1>3, <1>4, LinesAre
  <1>6. ASSUME NEW f, NEW g, NEW x, \A k \in 1 .. n : f[k] = g[k], \A k \in (1 .. n) \cup {n + 1} : g[k] \in Int,
               g[n + 1] = x
        PROVE  Total(g, 1 .. n + 1) = Total(f, 1 .. n) + x
    <2>0. PICK S, e : S = 1 .. n /\ e = n + 1
      OBVIOUS
    <2>1. Total(g, S \cup {e}) = Total(g, S) + g[e]
      <3>1. IsFiniteSet(S) /\ e \notin S /\ \A k \in S \cup {e} : g[k] \in Int
        BY <1>1, <1>4, <1>6, <2>0
      <3>2. QED BY <3>1, TotalAdds
    <2>2. Total(f, 1 .. n) = Total(g, 1 .. n)
      BY <1>1, <1>6, TotalSame
    <2>3. QED BY <1>4, <1>6, <2>0, <2>1, <2>2
  <1>7. Total(TaxesIn(new), 1 .. n + 1) = Total(TaxesIn(lines), 1 .. n) + l.tax
    <2>1. /\ \A k \in 1 .. n : TaxesIn(lines)[k] = TaxesIn(new)[k]
          /\ \A k \in (1 .. n) \cup {n + 1} : TaxesIn(new)[k] \in Int
          /\ TaxesIn(new)[n + 1] = l.tax
      BY <1>1, <1>3, <1>4, <1>5 DEF TaxesIn
    <2>2. QED BY <1>6, <2>1
  <1>8. Total(TaxablesIn(new), 1 .. n + 1) = Total(TaxablesIn(lines), 1 .. n) + (l.total - l.tax)
    <2>1. /\ \A k \in 1 .. n : TaxablesIn(lines)[k] = TaxablesIn(new)[k]
          /\ \A k \in (1 .. n) \cup {n + 1} : TaxablesIn(new)[k] \in Int
          /\ TaxablesIn(new)[n + 1] = l.total - l.tax
      BY <1>1, <1>3, <1>4, <1>5 DEF TaxablesIn
    <2>2. QED BY <1>6, <2>1
  <1>9. QED BY <1>1, <1>2, <1>3, <1>7, <1>8, SumsAre

\* A line more leaves the books balanced.
LEMMA BalanceAppended ==
  ASSUME NEW lines \in Seq(Lines), Within(lines), NEW l \in Lines, l.tax \in 0 .. l.total, NEW x, Balanced(x),
         x.lines = lines, NEW y, y.lines = Append(lines, l), y.tax = x.tax + l.tax,
         y.subtotal = x.subtotal + l.total - l.tax
  PROVE  Within(y.lines) /\ Balanced(y)
  <1>1. /\ Sum(y.lines, TaxOf) = x.tax + l.tax
        /\ Sum(y.lines, TaxableOf) = x.subtotal + (l.total - l.tax)
    BY SumAppended DEF Balanced
  <1>2. x.subtotal \in Int /\ l.total \in Int /\ l.tax \in Int
    <2>1. Sum(lines, TaxableOf) \in Int
      BY TaxableAndTax
    <2>2. x.subtotal = Sum(lines, TaxableOf)
      BY DEF Balanced
    <2>3. QED BY <2>1, <2>2 DEF Lines
  <1>3. x.subtotal + (l.total - l.tax) = x.subtotal + l.total - l.tax
    BY <1>2
  <1>4. ASSUME NEW k \in DOMAIN y.lines PROVE y.lines[k].tax \in 0 .. y.lines[k].total
    <2>1. CASE k \in DOMAIN lines
      <3>1. y.lines[k] = lines[k]
        BY <2>1
      <3>2. QED BY <2>1, <3>1 DEF Within
    <2>2. CASE k \notin DOMAIN lines
      <3>1. y.lines[k] = l
        BY <2>2
      <3>2. QED BY <3>1
    <2>3. QED BY <2>1, <2>2
  <1>5. QED BY <1>1, <1>3, <1>4 DEF Within, Balanced

\* Without lines there is nothing to balance.
LEMMA EmptyBalanced ==
  ASSUME NEW x, x.lines = <<>>, x.tax = 0, x.subtotal = 0
  PROVE  Within(x.lines) /\ Balanced(x)
  <1>1. DOMAIN x.lines = {}
    OBVIOUS
  <1>2. \A g : Total(g, {}) = 0
    BY TotalSteps, FS_EmptySet
  <1>3. Sum(x.lines, TaxOf) = 0 /\ Sum(x.lines, TaxableOf) = 0
    BY <1>1, <1>2, SumsAre
  <1>4. QED BY <1>1, <1>3 DEF Within, Balanced

-----------------------------------------------------------------------------
(* The books are kept by every step.                                       *)

\* A sale that is stored is not touched, so its documents and what was sent of
\* them stay as they are.
LEMMA BooksFrame ==
  ASSUME Copied, SentAgain, UNCHANGED sale, docs' = docs, sent' = sent
  PROVE  Copied' /\ SentAgain'
BY DEF Copied, SentAgain, buildDocument

\* A sale is stored before there is a document of it.
LEMMA BooksOfNewSale ==
  ASSUME Copied, SentAgain, ~sale.stored, docs' = docs, sent' = sent
  PROVE  Copied' /\ SentAgain'
  <1>1. docs = <<>>
    BY DEF Copied
  <1>2. DOMAIN docs = {}
    BY <1>1
  <1>3. sent = {}
    BY <1>2 DEF SentAgain
  <1>4. QED BY <1>1, <1>2, <1>3 DEF Copied, SentAgain

\* AddLine and what it keeps.
LEMMA LineBooks ==
  ASSUME Inv, Books, AddLine
  PROVE  Books'
  <1>0. UNCHANGED <<items, sale, docs, sent>>
    BY DEF AddLine
  <1>1. Copied' /\ SentAgain'
    BY <1>0, BooksFrame DEF Books
  <1>2. Within(sale.lines)' /\ Balanced(sale)' /\ (sale.total = sale.subtotal + sale.tax)'
    BY <1>0 DEF Books, Within, Balanced
  <1>3. PICK x \in Items \cup {NoItem}, q \in Quantities, p \in Prices \cup {0}, c \in Cats \cup {"none"} :
          LET price == IF p = 0 /\ x # NoItem THEN items[x].price ELSE p
              cat   == IF c = "none" /\ x # NoItem THEN items[x].cat ELSE c
          IN cart' = IF price = 0 \/ cat = "none" THEN EmptyCart
                     ELSE WithLine(PricedLine(cat, q, price))
    BY DEF AddLine
  <1> DEFINE price == IF p = 0 /\ x # NoItem THEN items[x].price ELSE p
             cat   == IF c = "none" /\ x # NoItem THEN items[x].cat ELSE c
  <1>4. Within(cart'.lines) /\ Balanced(cart')
    <2>1. CASE price = 0 \/ cat = "none"
      <3>1. cart' = EmptyCart
        BY <1>3, <2>1
      <3>2. cart'.lines = <<>> /\ cart'.tax = 0 /\ cart'.subtotal = 0
        BY <3>1 DEF EmptyCart
      <3>3. QED BY <3>2, EmptyBalanced
    <2>2. CASE ~(price = 0 \/ cat = "none")
      <3>1. x # NoItem => items[x].price \in Nat /\ items[x].cat \in Categories
        BY DEF Inv
      <3>2. price \in Nat /\ cat \in Categories /\ q \in Nat
        BY <2>2, <3>1, PricingAssumption
      <3>3. PICK l : l = PricedLine(cat, q, price)
        OBVIOUS
      <3>4. cart' = WithLine(l)
        BY <1>3, <2>2, <3>3
      <3> HIDE DEF price, cat
      <3>5. l \in Lines /\ l.tax \in 0 .. l.total
        <4>1. PricedLine(cat, q, price) \in Lines
          BY <3>2, LinePriced
        <4>2. PricedLine(cat, q, price).tax \in 0 .. PricedLine(cat, q, price).total
          BY <3>2, LineWithin
        <4>3. QED BY <3>3, <4>1, <4>2
      <3>6. /\ cart'.lines = Append(cart.lines, l) /\ cart'.tax = cart.tax + l.tax
            /\ cart'.subtotal = cart.subtotal + l.total - l.tax
        BY <3>4 DEF WithLine
      <3>7. cart.lines \in Seq(Lines) /\ Within(cart.lines) /\ Balanced(cart)
        BY DEF Inv, LinesOK, Books
      <3>8. QED BY <3>5, <3>6, <3>7, BalanceAppended
    <2>3. QED BY <2>1, <2>2
  <1>5. QED BY <1>1, <1>2, <1>4 DEF Books, Within, Balanced

\* The sale takes the lines and totals of the request.
LEMMA SaleBooks ==
  ASSUME Inv, Books, createSale
  PROVE  Books'
  <1>1. Copied' /\ SentAgain'
    BY BooksOfNewSale DEF Books, createSale
  <1>2. cart'.lines = <<>> /\ cart'.tax = 0 /\ cart'.subtotal = 0
    BY DEF createSale, EmptyCart
  <1>3. Within(cart'.lines) /\ Balanced(cart')
    BY <1>2, EmptyBalanced
  <1>4. /\ sale'.lines = cart.lines /\ sale'.tax = cart.tax /\ sale'.subtotal = cart.subtotal
        /\ sale'.total = sale'.subtotal + sale'.tax
    BY DEF createSale
  <1>5. Within(sale'.lines) /\ Balanced(sale')
    BY <1>4 DEF Books, Within, Balanced
  <1>6. QED BY <1>1, <1>3, <1>4, <1>5 DEF Books, Within, Balanced

\* So does a sale made of a payment, whose one line costs what was paid.
LEMMA CashBooks ==
  ASSUME Inv, Books, createCashSale
  PROVE  Books'
  <1>1. Copied' /\ SentAgain'
    BY BooksOfNewSale DEF Books, createCashSale
  <1>2. Within(cart.lines)' /\ Balanced(cart)'
    BY DEF createCashSale, Books, Within, Balanced
  <1>3. PICK x \in Items, amount \in Prices : LET l == PricedLine(items[x].cat, 1, amount) IN
          /\ sale'.lines = <<l>> /\ sale'.subtotal = amount - l.tax /\ sale'.tax = l.tax /\ sale'.total = amount
    BY DEF createCashSale
  <1>4. items[x].cat \in Categories /\ amount \in Nat
    BY PricingAssumption DEF Inv
  <1>5. PICK l : l = PricedLine(items[x].cat, 1, amount)
    OBVIOUS
  <1>6. /\ sale'.lines = <<l>> /\ sale'.subtotal = amount - l.tax
        /\ sale'.tax = l.tax /\ sale'.total = amount
    BY <1>3, <1>5
  <1>7. l \in Lines /\ l.tax \in 0 .. l.total /\ l.total = amount
    <2>1. PricedLine(items[x].cat, 1, amount) \in Lines
      BY <1>4, LinePriced
    <2>2. l.total = 1 * amount /\ l.tax \in 0 .. l.total
      BY <1>4, <1>5, LineWithin
    <2>3. 1 * amount = amount
      BY <1>4
    <2>4. QED BY <1>5, <2>1, <2>2, <2>3
  <1>8. l.tax \in Int /\ amount \in Int
    BY <1>4, <1>7 DEF Lines
  <1>9. PICK none, start : none = <<>> /\ start = [lines |-> none, tax |-> 0, subtotal |-> 0]
    OBVIOUS
  <1>10. /\ none \in Seq(Lines) /\ start.lines = none /\ Within(none) /\ Balanced(start)
         /\ start.tax = 0 /\ start.subtotal = 0
    BY <1>9, EmptyBalanced
  <1>11. Append(none, l) = <<l>>
    BY <1>9
  <1>12. 0 + l.tax = l.tax /\ 0 + amount - l.tax = amount - l.tax /\ (amount - l.tax) + l.tax = amount
    BY <1>8
  <1>13. Within(sale'.lines) /\ Balanced(sale')
    <2>1. /\ sale'.lines = Append(none, l) /\ sale'.tax = start.tax + l.tax
          /\ sale'.subtotal = start.subtotal + l.total - l.tax
      BY <1>6, <1>7, <1>10, <1>11, <1>12
    <2>2. QED BY <1>7, <1>10, <2>1, BalanceAppended
  <1>14. sale'.total = sale'.subtotal + sale'.tax
    BY <1>6, <1>12
  <1>15. QED BY <1>1, <1>2, <1>13, <1>14 DEF Books, Within, Balanced

\* What a document is, by its place.
LEMMA DocumentsAre ==
  ASSUME Copied, NEW d \in DOMAIN docs
  PROVE  \/ d = 1 /\ docs[d] = InvoiceOf(sale)
         \/ d = 2 /\ docs[d] = CreditNoteOf(sale)
  <1>1. DOMAIN <<>> = {} /\ \A a, b : /\ DOMAIN <<a>> = {1} /\ <<a>>[1] = a
                                      /\ DOMAIN <<a, b>> = {1, 2} /\ <<a, b>>[1] = a /\ <<a, b>>[2] = b
    OBVIOUS
  <1>2. QED BY <1>1 DEF Copied

\* The documents copy the totals of the sale.
LEMMA DocumentBooks ==
  ASSUME Inv, Books, CreateInvoice \/ CreateCreditNote
  PROVE  Books'
  <1>0. UNCHANGED <<cart, sale, sent>> /\ Copied /\ SentAgain
    BY DEF CreateInvoice, CreateCreditNote, Books
  <1>1. CASE CreateInvoice
    <2>1. docs = <<>> /\ sale.stored /\ docs' = <<InvoiceOf(sale)>>
      BY <1>1 DEF CreateInvoice, InvoiceOf
    <2>2. DOMAIN docs = {}
      BY <2>1
    <2>3. sent = {}
      BY <1>0, <2>2 DEF SentAgain
    <2>4. QED BY <1>0, <2>1, <2>3 DEF Books, Copied, SentAgain, Within, Balanced
  <1>2. CASE CreateCreditNote
    <2>1. docs = <<InvoiceOf(sale)>> /\ sale.stored
      <3>1. Len(docs) = 1
        BY <1>2 DEF CreateCreditNote
      <3>2. Len(<<>>) = 0 /\ \A a, b : Len(<<a, b>>) = 2
        OBVIOUS
      <3>3. QED BY <1>0, <3>1, <3>2 DEF Copied
    <2>2. docs[1].subtotal = sale.subtotal /\ docs[1].tax = sale.tax /\ docs[1].total = sale.total
      BY <2>1 DEF InvoiceOf
    <2>3. docs' = Append(docs, CreditNoteOf(sale))
      BY <1>2, <2>2 DEF CreateCreditNote, CreditNoteOf
    <2>4. docs' = <<InvoiceOf(sale), CreditNoteOf(sale)>>
      <3>1. PICK a, b : a = InvoiceOf(sale) /\ b = CreditNoteOf(sale)
        OBVIOUS
      <3>2. <<a>> \in Seq({a, b}) /\ Len(<<a>>) = 1
        OBVIOUS
      <3>3. /\ Append(<<a>>, b) \in Seq({a, b}) /\ Len(Append(<<a>>, b)) = 2
            /\ Append(<<a>>, b)[1] = a /\ Append(<<a>>, b)[2] = b
        BY <3>2, AppendProperties
      <3>4. Append(<<a>>, b) = <<a, b>>
        <4>1. PICK s, u : s = Append(<<a>>, b) /\ u = <<a, b>>
          OBVIOUS
        <4>2. u \in Seq({a, b}) /\ Len(u) = 2 /\ u[1] = a /\ u[2] = b
          BY <4>1
        <4>3. s \in Seq({a, b}) /\ Len(s) = 2 /\ \A i \in 1 .. 2 : s[i] = u[i]
          BY <3>3, <4>1, <4>2
        <4>4. s = u
          BY <4>2, <4>3, SeqEqual
        <4>5. QED BY <4>1, <4>4
      <3>5. QED BY <2>1, <2>3, <3>1, <3>4
    <2>5. DOMAIN docs = {1} /\ DOMAIN docs' = {1, 2} /\ docs'[1] = docs[1]
      BY <2>1, <2>4
    <2>6. SentAgain'
      BY <1>0, <2>5 DEF SentAgain, buildDocument
    <2>7. QED BY <1>0, <2>1, <2>4, <2>6 DEF Books, Copied, Within, Balanced
  <1>3. QED BY <1>1, <1>2

\* What is sent is noted as it is.
LEMMA SubmitBooks ==
  ASSUME Inv, Books, NEW d \in DOMAIN docs, Submit(d)
  PROVE  Books'
  <1>1. UNCHANGED <<cart, sale, docs>>
    BY DEF Submit
  <1>2. PICK adapter \in {"oscu", "vendor"} :
          sent' = sent \cup {[doc |-> d, adapter |-> adapter, kind |-> docs[d].kind,
                              wire |-> Wire(adapter, docs[d].kind, buildDocument(d))]}
    BY DEF Submit
  <1>3. ASSUME NEW x PROVE buildDocument(x)' = buildDocument(x)
    BY <1>1 DEF buildDocument
  <1>4. SentAgain'
    <2> SUFFICES ASSUME NEW s \in sent'
                 PROVE  /\ s.doc \in DOMAIN docs' /\ s.kind = docs'[s.doc].kind
                        /\ s.adapter \in {"oscu", "vendor"}
                        /\ s.wire = Wire(s.adapter, s.kind, buildDocument(s.doc)')
      BY <1>1 DEF SentAgain, buildDocument
    <2>1. CASE s \in sent
      BY <1>1, <1>3, <2>1 DEF Books, SentAgain
    <2>2. CASE s \notin sent
      <3>1. s = [doc |-> d, adapter |-> adapter, kind |-> docs[d].kind,
                 wire |-> Wire(adapter, docs[d].kind, buildDocument(d))]
        BY <1>2, <2>2
      <3>2. /\ s.doc = d /\ s.adapter = adapter /\ s.kind = docs[d].kind
            /\ s.wire = Wire(adapter, docs[d].kind, buildDocument(d))
        BY <3>1
      <3>3. QED BY <1>1, <1>3, <3>2
    <2>3. QED BY <2>1, <2>2
  <1>5. QED BY <1>1, <1>4 DEF Books, Copied, Within, Balanced

\* The books are in order from the start and stay so.
LEMMA BooksHold == Spec => [](Inv /\ Books)
  <1>1. Init => Books
    <2> SUFFICES ASSUME Init PROVE Books
      OBVIOUS
    <2>1. /\ cart.lines = <<>> /\ cart.tax = 0 /\ cart.subtotal = 0
          /\ sale.lines = <<>> /\ sale.tax = 0 /\ sale.subtotal = 0 /\ sale.total = 0
          /\ docs = <<>> /\ sent = {}
      BY DEF Init, EmptyCart, NoSale
    <2>2. QED BY <2>1, EmptyBalanced DEF Books, Copied, SentAgain
  <1>2. Inv /\ Books /\ [Next]_vars => Books'
    <2> SUFFICES ASSUME Inv, Books, [Next]_vars PROVE Books'
      OBVIOUS
    <2>1. ASSUME UNCHANGED <<cart, sale, docs, sent>> PROVE Books'
      BY <2>1, BooksFrame DEF Books, Within, Balanced
    <2>2. ASSUME NEW x \in Items, updateItem(x) PROVE Books'
      BY <2>1, <2>2 DEF updateItem
    <2>3. CASE UNCHANGED vars
      BY <2>1, <2>3 DEF vars
    <2>4. QED
      BY <2>2, <2>3, LineBooks, SaleBooks, CashBooks, DocumentBooks, SubmitBooks DEF Next
  <1>3. QED BY <1>1, <1>2, InitInv, NextInv, PTL DEF Spec

-----------------------------------------------------------------------------
(* What KRA is sent adds up.                                               *)

\* The lines of an invoice go out with the amounts they have.
LEMMA InvoiceLines ==
  ASSUME NEW lines
  PROVE  /\ Sum(toWireLines(lines), TotalOf) = Sum(lines, TotalOf)
         /\ Sum(toWireLines(lines), TaxOf) = Sum(lines, TaxOf)
         /\ Sum(toWireLines(lines), TaxblOf) = Sum(lines, TaxableOf)
  <1>1. PICK w : w = toWireLines(lines)
    OBVIOUS
  <1>2. /\ DOMAIN w = DOMAIN lines
        /\ \A k \in DOMAIN lines : /\ w[k].total = lines[k].total /\ w[k].tax = lines[k].tax
                                   /\ w[k].taxbl = lines[k].total - lines[k].tax
    BY <1>1 DEF toWireLines
  <1>3. TotalsIn(w) = TotalsIn(lines) /\ TaxesIn(w) = TaxesIn(lines) /\ TaxblsIn(w) = TaxablesIn(lines)
    BY <1>2 DEF TotalsIn, TaxesIn, TaxblsIn, TaxablesIn
  <1>4. QED BY <1>1, <1>2, <1>3, SumsAre

\* Those of a credit note go out with the amounts taken off.
LEMMA CreditLines ==
  ASSUME NEW lines \in Seq(Lines), Within(lines)
  PROVE  /\ Sum(toWireCreditLines(lines), TotalOf) = -Sum(lines, TotalOf)
         /\ Sum(toWireCreditLines(lines), TaxOf) = -Sum(lines, TaxOf)
         /\ Sum(toWireCreditLines(lines), TaxblOf) = -Sum(lines, TaxableOf)
  <1>1. PICK w : w = toWireCreditLines(lines)
    OBVIOUS
  <1>2. PICK S : S = DOMAIN lines
    OBVIOUS
  <1>3. IsFiniteSet(S) /\ \A k \in S : lines[k].total \in Nat /\ lines[k].tax \in Int
    BY <1>2, LinesAre
  <1>4. \A k \in S : lines[k].tax \in Nat /\ lines[k].total - lines[k].tax \in Nat
    BY <1>2, <1>3 DEF Within
  <1>5. \A n \in Nat : abs64(n) = n
    BY DEF abs64
  <1>6. /\ DOMAIN w = S
        /\ \A k \in S : /\ w[k].total = -abs64(lines[k].total) /\ w[k].tax = -abs64(lines[k].tax)
                        /\ w[k].taxbl = -abs64(lines[k].total - lines[k].tax)
    BY <1>1, <1>2 DEF toWireCreditLines
  <1>7. \A k \in S : /\ TotalsIn(w)[k] = -TotalsIn(lines)[k] /\ TotalsIn(lines)[k] \in Int
                     /\ TaxesIn(w)[k] = -TaxesIn(lines)[k] /\ TaxesIn(lines)[k] \in Int
                     /\ TaxblsIn(w)[k] = -TaxablesIn(lines)[k] /\ TaxablesIn(lines)[k] \in Int
    BY <1>2, <1>3, <1>4, <1>5, <1>6 DEF TotalsIn, TaxesIn, TaxblsIn, TaxablesIn
  <1>8. Total(TotalsIn(w), S) = -Total(TotalsIn(lines), S)
    BY <1>3, <1>7, TotalNegated
  <1>9. Total(TaxesIn(w), S) = -Total(TaxesIn(lines), S)
    BY <1>3, <1>7, TotalNegated
  <1>10. Total(TaxblsIn(w), S) = -Total(TaxablesIn(lines), S)
    BY <1>3, <1>7, TotalNegated
  <1>11. QED BY <1>1, <1>2, <1>6, <1>8, <1>9, <1>10, SumsAre

\* No sum of lines is negative.
LEMMA SumsPositive ==
  ASSUME NEW lines \in Seq(Lines), Within(lines)
  PROVE  Sum(lines, TotalOf) \in Nat /\ Sum(lines, TaxOf) \in Nat /\ Sum(lines, TaxableOf) \in Nat
  <1>1. PICK S : S = DOMAIN lines
    OBVIOUS
  <1>2. IsFiniteSet(S) /\ \A k \in S : lines[k].total \in Nat /\ lines[k].tax \in Int
    BY <1>1, LinesAre
  <1>3. \A k \in S : lines[k].tax \in Nat /\ lines[k].total - lines[k].tax \in Nat
    BY <1>1, <1>2 DEF Within
  <1>4. \A k \in S : TotalsIn(lines)[k] \in Nat /\ TaxesIn(lines)[k] \in Nat /\ TaxablesIn(lines)[k] \in Nat
    BY <1>1, <1>2, <1>3 DEF TotalsIn, TaxesIn, TaxablesIn
  <1>5. Total(TotalsIn(lines), S) \in Nat
    BY <1>2, <1>4, TotalNat
  <1>6. Total(TaxesIn(lines), S) \in Nat
    BY <1>2, <1>4, TotalNat
  <1>7. Total(TaxablesIn(lines), S) \in Nat
    BY <1>2, <1>4, TotalNat
  <1>8. QED BY <1>1, <1>5, <1>6, <1>7, SumsAre

\* The rows of the receipt page add up to the totals below them.
LEMMA ReceiptRows ==
  ASSUME NEW lines \in Seq(Lines)
  PROVE  /\ Sum(VATByCategory(lines), TaxOf) = Sum(lines, TaxOf)
         /\ Sum(VATByCategory(lines), TaxblOf) = Sum(lines, TaxableOf)
  <1>1. PICK rows : rows = VATByCategory(lines)
    OBVIOUS
  <1>2. PICK C : C = {lines[k].cat : k \in DOMAIN lines}
    OBVIOUS
  <1>3. PICK S : S = DOMAIN lines
    OBVIOUS
  <1>4. IsFiniteSet(S) /\ \A k \in S : lines[k].total \in Nat /\ lines[k].tax \in Int /\ lines[k].cat \in Categories
    BY <1>3, LinesAre
  <1>5. IsFiniteSet(C)
    <2>1. C \in SUBSET Categories
      BY <1>2, <1>3, <1>4
    <2>2. IsFiniteSet(Categories)
      <3>1. IsFiniteSet({}) /\ \A T, x : IsFiniteSet(T) => IsFiniteSet(T \cup {x})
        BY FS_EmptySet, FS_AddElement
      <3>2. Categories = (((({} \cup {"A"}) \cup {"B"}) \cup {"C"}) \cup {"D"}) \cup {"E"}
        BY DEF Categories
      <3>3. QED BY <3>1, <3>2
    <2>3. QED BY <2>1, <2>2, FS_Subset
  <1>6. PICK group : group = [k \in S |-> lines[k].cat]
    OBVIOUS
  <1>7. \A k \in S : group[k] = lines[k].cat /\ group[k] \in C
    BY <1>2, <1>3, <1>6
  <1>8. DOMAIN rows = C
    BY <1>1, <1>2 DEF VATByCategory
  <1>9. ASSUME NEW c \in C
        PROVE  /\ rows[c].tax = Total(TaxesIn(lines), {k \in S : group[k] = c})
               /\ rows[c].taxbl = Total(TaxablesIn(lines), {k \in S : group[k] = c})
    <2>1. PICK B \in SUBSET S : B = {k \in S : group[k] = c}
      OBVIOUS
    <2>2. B = {k \in DOMAIN lines : lines[k].cat = c} /\ IsFiniteSet(B)
      BY <1>3, <1>4, <1>7, <2>1, FS_Subset
    <2>3. PICK of : of = [k \in B |-> lines[k]]
      OBVIOUS
    <2>4. rows[c] = [taxbl |-> Sum(of, TaxableOf), tax |-> Sum(of, TaxOf)]
      BY <1>1, <1>2, <2>2, <2>3 DEF VATByCategory
    <2>5. DOMAIN of = B /\ \A k \in B : of[k] = lines[k]
      BY <2>3
    <2>6. \A k \in B : TaxesIn(of)[k] = TaxesIn(lines)[k] /\ TaxablesIn(of)[k] = TaxablesIn(lines)[k]
      BY <1>3, <2>5 DEF TaxesIn, TaxablesIn
    <2>7. Total(TaxesIn(of), B) = Total(TaxesIn(lines), B)
      BY <2>2, <2>6, TotalSame
    <2>8. Total(TaxablesIn(of), B) = Total(TaxablesIn(lines), B)
      BY <2>2, <2>6, TotalSame
    <2>9. Sum(of, TaxOf) = Total(TaxesIn(of), B) /\ Sum(of, TaxableOf) = Total(TaxablesIn(of), B)
      BY <2>5, SumsAre
    <2>10. QED BY <2>1, <2>4, <2>7, <2>8, <2>9
  <1>10. \A k \in S : TaxesIn(lines)[k] \in Int /\ TaxablesIn(lines)[k] \in Int
    BY <1>3, <1>4 DEF TaxesIn, TaxablesIn
  <1>11. \A c \in C : /\ TaxesIn(rows)[c] = Total(TaxesIn(lines), {k \in S : group[k] = c})
                      /\ TaxblsIn(rows)[c] = Total(TaxablesIn(lines), {k \in S : group[k] = c})
    BY <1>8, <1>9 DEF TaxesIn, TaxblsIn
  <1>12. Total(TaxesIn(rows), C) = Total(TaxesIn(lines), S)
    <2>1. PICK g, h : g = TaxesIn(lines) /\ h = TaxesIn(rows)
      OBVIOUS
    <2>2. Grouped(g, S, h, C, group)
      BY <1>4, <1>5, <1>7, <1>10, <1>11, <2>1 DEF Grouped
    <2>3. Total(h, C) = Total(g, S)
      BY <2>2, TotalGrouped
    <2>4. QED BY <2>1, <2>3
  <1>13. Total(TaxblsIn(rows), C) = Total(TaxablesIn(lines), S)
    <2>1. PICK g, h : g = TaxablesIn(lines) /\ h = TaxblsIn(rows)
      OBVIOUS
    <2>2. Grouped(g, S, h, C, group)
      BY <1>4, <1>5, <1>7, <1>10, <1>11, <2>1 DEF Grouped
    <2>3. Total(h, C) = Total(g, S)
      BY <2>2, TotalGrouped
    <2>4. QED BY <2>1, <2>3
  <1>14. QED BY <1>1, <1>3, <1>8, <1>12, <1>13, SumsAre

\* What is sent of the sale and of its reversal.
LEMMA SentIs ==
  ASSUME Inv, Books, NEW s \in sent
  PROVE  LET total == Sum(sale.lines, TotalOf)
             tax   == Sum(sale.lines, TaxOf)
         IN /\ s.kind \in {"INVOICE", "CREDIT_NOTE"}
            /\ s.kind = "INVOICE" => /\ s.wire.total = total /\ s.wire.tax = tax
                                     /\ s.wire.subtotal = total - tax
                                     /\ s.wire.lines = toWireLines(sale.lines)
            /\ s.kind = "CREDIT_NOTE" => /\ s.wire.total = -total /\ s.wire.tax = -tax
                                         /\ s.wire.subtotal = -(total - tax)
                                         /\ s.adapter = "oscu" => s.wire.lines = toWireCreditLines(sale.lines)
  <1>1. PICK lines : lines = sale.lines /\ lines \in Seq(Lines) /\ Within(lines)
    BY DEF Inv, LinesOK, Books
  <1>2. PICK total, tax : total = Sum(lines, TotalOf) /\ tax = Sum(lines, TaxOf)
    OBVIOUS
  <1>3. total \in Nat /\ tax \in Nat /\ total - tax \in Nat
    BY <1>1, <1>2, SumsPositive, TaxableAndTax
  <1>4. sale.tax = tax /\ sale.subtotal = total - tax /\ sale.total = total
    <2>1. sale.tax = tax /\ sale.subtotal = total - tax
      BY <1>1, <1>2, TaxableAndTax DEF Books, Balanced
    <2>2. (total - tax) + tax = total
      BY <1>3
    <2>3. QED BY <2>1, <2>2 DEF Books
  <1>5. PICK d \in DOMAIN docs : s.doc = d /\ s.kind = docs[d].kind /\ s.adapter \in {"oscu", "vendor"}
                                 /\ s.wire = Wire(s.adapter, s.kind, buildDocument(d))
    BY DEF Books, SentAgain
  <1>6. PICK doc : doc = buildDocument(d)
    OBVIOUS
  <1>7. /\ doc.lines = lines /\ doc.subtotal = docs[d].subtotal /\ doc.tax = docs[d].tax
        /\ doc.total = docs[d].total
    BY <1>1, <1>6 DEF buildDocument
  <1>8. CASE docs[d] = InvoiceOf(sale)
    <2>1. s.kind = "INVOICE" /\ doc.subtotal = total - tax /\ doc.tax = tax /\ doc.total = total
      BY <1>4, <1>5, <1>7, <1>8 DEF InvoiceOf
    <2>2. s.wire = OSCUSale(doc)
      BY <1>5, <1>6, <2>1 DEF Wire
    <2>3. QED BY <1>1, <1>2, <1>7, <2>1, <2>2 DEF OSCUSale
  <1>9. CASE docs[d] = CreditNoteOf(sale)
    <2>1. s.kind = "CREDIT_NOTE" /\ doc.total = -total
      BY <1>4, <1>5, <1>7, <1>9 DEF CreditNoteOf
    <2>2. PICK t : t = Totals(lines)
      OBVIOUS
    <2>3. t.subtotal = total - tax /\ t.tax = tax /\ t.total = total
      BY <1>2, <2>2 DEF Totals
    <2>4. CASE s.adapter = "oscu"
      <3>1. s.wire = OSCUCreditNote(doc)
        BY <1>5, <1>6, <2>1, <2>4 DEF Wire
      <3>2. \A n \in Nat : abs64(n) = n
        BY DEF abs64
      <3>3. /\ s.wire.subtotal = -abs64(t.subtotal) /\ s.wire.tax = -abs64(t.tax)
            /\ s.wire.total = -abs64(t.total) /\ s.wire.lines = toWireCreditLines(lines)
        BY <1>7, <2>2, <3>1 DEF OSCUCreditNote
      <3>4. QED BY <1>1, <1>2, <1>3, <2>1, <2>3, <3>2, <3>3
    <2>5. CASE s.adapter = "vendor"
      <3>1. s.wire = VendorCreditNote(doc)
        BY <1>5, <1>6, <2>1, <2>5 DEF Wire
      <3>2. ~(doc.total > 0)
        BY <1>3, <2>1
      <3>3. s.wire.subtotal = -t.subtotal /\ s.wire.tax = -t.tax /\ s.wire.total = doc.total
        BY <1>7, <2>2, <3>1, <3>2 DEF VendorCreditNote
      <3>4. QED BY <1>1, <1>2, <2>1, <2>3, <2>5, <3>3
    <2>6. QED BY <1>5, <2>4, <2>5
  <1>10. QED BY <1>8, <1>9, DocumentsAre DEF Books

\* What KRA is sent adds up for every catalogue, however many lines a sale has,
\* whatever the merchant edits between the sale and a submission and however
\* often it is retried: lines to totals, a credit note to minus its invoice, and
\* the rows of the receipt page to the totals of the invoice it shows, or to
\* minus those of the credit note.
THEOREM WireAddsUpHolds == Spec => []WireAddsUp
  <1>1. Inv /\ Books => WireAddsUp
    <2> SUFFICES ASSUME Inv, Books PROVE WireAddsUp
      OBVIOUS
    <2>1. PICK lines : lines = sale.lines /\ lines \in Seq(Lines) /\ Within(lines)
      BY DEF Inv, LinesOK, Books
    <2>2. PICK total, tax : total = Sum(lines, TotalOf) /\ tax = Sum(lines, TaxOf)
      OBVIOUS
    <2>3. total \in Int /\ tax \in Int /\ Sum(lines, TaxableOf) = total - tax
      BY <2>1, <2>2, TaxableAndTax
    <2>4. ASSUME NEW s \in sent, s.adapter = "oscu" \/ s.kind = "INVOICE" PROVE AddsUpTo(s.wire)
      <3>1. CASE s.kind = "INVOICE"
        <4>1. /\ s.wire.total = total /\ s.wire.tax = tax /\ s.wire.subtotal = total - tax
              /\ s.wire.lines = toWireLines(lines)
          BY <2>1, <2>2, <3>1, SentIs
        <4>2. QED BY <2>2, <2>3, <4>1, InvoiceLines DEF AddsUpTo
      <3>2. CASE s.kind = "CREDIT_NOTE" /\ s.adapter = "oscu"
        <4>1. /\ s.wire.total = -total /\ s.wire.tax = -tax /\ s.wire.subtotal = -(total - tax)
              /\ s.wire.lines = toWireCreditLines(lines)
          BY <2>1, <2>2, <3>2, SentIs
        <4>2. QED BY <2>1, <2>2, <2>3, <4>1, CreditLines DEF AddsUpTo
      <3>3. QED BY <2>4, <3>1, <3>2, SentIs
    <2>5. ASSUME NEW s \in sent, NEW t \in sent, s.kind = "INVOICE", t.kind = "CREDIT_NOTE"
          PROVE  /\ s.wire.total + t.wire.total = 0
                 /\ s.wire.tax + t.wire.tax = 0
                 /\ s.wire.subtotal + t.wire.subtotal = 0
      <3>1. s.wire.total = total /\ s.wire.tax = tax /\ s.wire.subtotal = total - tax
        BY <2>1, <2>2, <2>5, SentIs
      <3>2. t.wire.total = -total /\ t.wire.tax = -tax /\ t.wire.subtotal = -(total - tax)
        BY <2>1, <2>2, <2>5, SentIs
      <3>3. QED BY <2>3, <3>1, <3>2
    <2>6. ASSUME NEW d \in DOMAIN docs
          PROVE  LET rows == VATByCategory(sale.lines)
                     sign == IF docs[d].kind = "INVOICE" THEN 1 ELSE -1
                 IN Sum(rows, TaxOf) = sign * docs[d].tax /\ Sum(rows, TaxblOf) = sign * docs[d].subtotal
      <3>1. PICK sub : /\ Sum(VATByCategory(sale.lines), TaxOf) = tax /\ sale.tax = tax
                       /\ Sum(VATByCategory(sale.lines), TaxblOf) = sub /\ sale.subtotal = sub
                       /\ sub = total - tax
        BY <2>1, <2>2, <2>3, ReceiptRows DEF Books, Balanced
      <3>2. docs[d] = InvoiceOf(sale) \/ docs[d] = CreditNoteOf(sale)
        BY DEF Books, Copied
      <3>3. CASE docs[d] = InvoiceOf(sale)
        <4>1. docs[d].kind = "INVOICE" /\ docs[d].tax = tax /\ docs[d].subtotal = sub
          BY <3>1, <3>3 DEF InvoiceOf
        <4>2. QED BY <2>3, <3>1, <4>1
      <3>4. CASE docs[d] = CreditNoteOf(sale)
        <4>1. docs[d].kind = "CREDIT_NOTE" /\ docs[d].tax = -tax /\ docs[d].subtotal = -sub
          BY <3>1, <3>4 DEF CreditNoteOf
        <4>2. QED BY <2>3, <3>1, <4>1
      <3>5. QED BY <3>2, <3>3, <3>4
    <2>7. QED BY <2>4, <2>5, <2>6 DEF WireAddsUp
  <1>2. QED BY <1>1, BooksHold, PTL
=============================================================================
