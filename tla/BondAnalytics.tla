--------------------------- MODULE BondAnalytics ---------------------------
(***************************************************************************)
(* The bond section of market_get_asset_details: which of its fields a     *)
(* static item and a quote give rise to, and whether the duration figures  *)
(* are computed or refused.                                                *)
(*                                                                         *)
(* A static item's bond facts are a record                                 *)
(*   [type, rate, payments, expiry, next, accrued, rated]                  *)
(* type is "fixed", "zero_coupon", "other" or Absent; rate the coupon per  *)
(* payment; payments the payments a year, Absent for a frequency that is   *)
(* not known; expiry and next the quarters of a year from the valuation    *)
(* to the maturity and to the next coupon (negative when it is past),      *)
(* Absent for a date that does not parse.  A quote is a record             *)
(*   [prices, clean, gross, net, timed]                                    *)
(* clean is the last price, gross and net tell whether the yields are      *)
(* there, prices whether anything the quote section shows is, and timed    *)
(* whether the provider's time is.                                         *)
(***************************************************************************)
EXTENDS Integers

CONSTANT Absent

\* The annual rate: 0 is known whatever the frequency.
CouponRate(bond) ==
    IF bond.rate = Absent THEN Absent
    ELSE IF bond.payments # Absent THEN bond.rate * bond.payments
    ELSE IF bond.rate = 0 THEN 0
    ELSE Absent

\* dirty_price: computed of the clean price and the accrued interest
DirtyPrice(bond, quote) ==
    IF quote.clean = Absent \/ bond.accrued = Absent THEN Absent ELSE quote.clean + bond.accrued

Positive(price) == price # Absent /\ price > 0

IsZeroCoupon(bond) ==
    \/ bond.type = "zero_coupon"
    \/ bond.type = Absent /\ CouponRate(bond) = 0

\* accrued_periods_to_first: the accrued interest places the next coupon
PlacedByAccrued(bond) ==
    bond.accrued # Absent /\ bond.rate > 0 /\ bond.accrued >= 0 /\ bond.accrued < bond.rate

PlacedByDate(bond) == bond.next # Absent /\ bond.next >= 0

\* The payments after the next one, rounded, are not less than none: the time to
\* maturity in payments, less that to the next coupon, is above -1/2.
ScheduleFits(bond) ==
    IF PlacedByAccrued(bond)
    THEN bond.expiry * bond.payments * bond.rate - 4 * (bond.rate - bond.accrued) > -2 * bond.rate
    ELSE bond.expiry * bond.payments - bond.next * bond.payments > -2

\* What the cash flows can be made of.
ZeroCouponReady(bond, quote) ==
    Positive(DirtyPrice(bond, quote)) \/ Positive(quote.clean)

FixedCouponReady(bond, quote) ==
    /\ Positive(DirtyPrice(bond, quote))
    /\ CouponRate(bond) # Absent /\ bond.payments # Absent
    /\ CouponRate(bond) >= 0
    /\ PlacedByAccrued(bond) \/ PlacedByDate(bond)
    /\ ScheduleFits(bond)

\* apply_bond_analytics.  dcf is what coupon_bond_analytics makes of it: a price
\* that agrees with the bank's within 3 %, one that does not, or none.
Computed(bond, quote, dcf) ==
    /\ quote.gross /\ bond.expiry # Absent
    /\ bond.expiry > 0
    /\ IF IsZeroCoupon(bond) THEN ZeroCouponReady(bond, quote)
       ELSE bond.type = "fixed" /\ FixedCouponReady(bond, quote)
    /\ dcf = "agrees"

\* bond_section: its warnings, the refused analytics among them
BondWarnings(bond, quote, dcf) ==
    {w \in {"bond_coupon_frequency_unknown", "bond_rating_unverified",
            "bond_yield_unavailable", "bond_analytics_unavailable"} :
       CASE w = "bond_coupon_frequency_unknown" ->
                bond.payments = Absent /\ bond.rate \notin {Absent, 0}
         [] w = "bond_rating_unverified" -> bond.rated
         [] w = "bond_yield_unavailable" -> ~quote.gross /\ ~quote.net
         [] w = "bond_analytics_unavailable" -> ~Computed(bond, quote, dcf)}

\* has_computed_bond_field
HasComputed(bond, quote, dcf) ==
    DirtyPrice(bond, quote) # Absent \/ Computed(bond, quote, dcf)
=============================================================================
