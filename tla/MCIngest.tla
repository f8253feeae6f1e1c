------------------------------ MODULE MCIngest ------------------------------
(* Instances of Ingest for TLC.                                            *)
EXTENDS Ingest, TLC

CONSTANTS t1, t2, p1

Pay(amount, ref, payer) ==
    [kind |-> "c2b_confirmation", amount |-> amount, ref |-> ref, payer |-> payer, orig |-> NoTrans]

Reversal(t) ==
    [kind |-> "reversal", amount |-> 1, ref |-> NoSale, payer |-> NoPayer, orig |-> t]

Cart(total, payer, recent) == [total |-> total, payer |-> payer, recent |-> recent]

\* A payment too small for the first sale, and one of a known payer without a ref.
MixedPayloads == {Pay(1, 1, NoPayer), Pay(2, NoSale, p1)}
\* A payment too small for the first sale, one large enough, a reversal.
MerchantPayloads == {Pay(1, 1, NoPayer), Pay(2, 1, NoPayer), Reversal(t1)}
\* A payment for no sale in particular, one for the first sale.
RecoveryPayloads == {Pay(1, NoSale, NoPayer), Pay(2, 1, NoPayer)}
\* A known payer, for the STK window.
PayerPayloads == {Pay(2, NoSale, p1), Pay(1, NoSale, NoPayer)}
\* A payment of t1 and its reversal.
ReversalPayloads == {Pay(1, NoSale, NoPayer), Reversal(t1)}
CounterPayloads == {Pay(2, NoSale, NoPayer)}
RefPayloads == {Pay(2, 1, NoPayer)}

OldCart == {Cart(2, NoPayer, FALSE)}
PayerCart == {Cart(2, p1, FALSE)}
CounterCart == {Cart(2, NoPayer, TRUE)}

Symmetry == Permutations(Handlers)
=============================================================================
