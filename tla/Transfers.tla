------------------------------ MODULE Transfers ------------------------------
(***************************************************************************)
(* The arithmetic of a transfer (transfer_funds, wallet_service.py).  The  *)
(* amount is a decimal of any precision and is never quantized: it is      *)
(* counted in 1/AmountScale of a money unit.  What is credited is          *)
(* quantized in Python; what is debited, and what the log says of it, are  *)
(* rounded by their Numeric(18, 4) columns, each on its own.               *)
(***************************************************************************)
EXTENDS Fees

CONSTANT AmountScale   \* amounts are multiples of 1/AmountScale of a money unit

ASSUME AmountScaleAssumption == AmountScale \in Nat \ {0}

\* quantize_money(amount)
Quantized(amount) == HalfUp(amount, AmountScale)

\* quantize_money(amount * rate), at the rate num/den
Gross(amount, num, den) == HalfUp(amount * num, AmountScale * den)

FxFee(gross) == HalfUp(gross * FxSpread, Bps)

\* What is credited in another currency: less the FX markup.
Net(gross) == gross - FxFee(gross)

Converted(amount, rate) == Net(Gross(amount, rate.num, rate.den))

\* The column keeps the nearest unit, and of a tie the one away from zero.
Column(n) == IF n >= 0 THEN HalfUp(n, AmountScale) ELSE -HalfUp(-n, AmountScale)

\* What the column keeps of a balance less an amount.
Debited(balance, amount) == Column(balance * AmountScale - amount)

\* The amount is halfway between two units: the balance rounds up, and so does
\* the amount that the log says has left it.
Tie(amount) == 2 * (amount % AmountScale) = AmountScale
=============================================================================
