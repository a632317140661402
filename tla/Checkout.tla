------------------------------ MODULE Checkout ------------------------------
(***************************************************************************)
(* The payment page, templates/static/js/payment.js, with create_payment   *)
(* of src/api_handlers.py and PaymentService: one makePayment call with a  *)
(* deadline for each click on Pay, under an idempotency key that is minted *)
(* when the page loads.  The gateway is not in the repository; it is taken *)
(* to charge at most once for a key, which is what the key is for.         *)
(***************************************************************************)
EXTENDS Naturals

VARIABLE checkout

\* charged is history: the keys the gateway has charged since the page loaded.
Checkouts == [key : Nat, loading : BOOLEAN, charged : SUBSET Nat,
              notice : {"none", "paid", "failed"}]

NoCheckout == [key |-> 0, loading |-> FALSE, charged |-> {}, notice |-> "none"]

CheckoutTypeOK == checkout \in Checkouts

\* init mints the key of this checkout attempt.
CheckoutLoads == checkout' = [NoCheckout EXCEPT !.key = 1]

\* Variant, not part of the specification.  PaysOnce: each click mints a key.
MintAndPay ==
    /\ checkout.key > 0 /\ ~checkout.loading
    /\ checkout' = [checkout EXCEPT !.loading = TRUE, !.key = @ + 1]

\* A click on Pay, which stays possible after a payment; the button is
\* disabled until the answer is there.
ClickPay ==
    /\ checkout.key > 0 /\ ~checkout.loading
    /\ checkout' = [checkout EXCEPT !.loading = TRUE]

Answered(notice, charged) ==
    /\ checkout.loading
    /\ checkout' = [checkout EXCEPT !.loading = FALSE, !.notice = notice,
                                    !.charged = @ \cup charged]

\* make_payment returns the gateway's status, a failed payment as well as a
\* successful one, and the page announces both as a payment.
PaymentAnswered ==
    \/ Answered("paid", {checkout.key})
    \/ Answered("paid", {})

\* Unreachable, refused, or past the deadline: then the charge may have been
\* made.  A certificate that cannot be read ends here too.
PaymentFails ==
    \/ Answered("failed", {})
    \/ Answered("failed", {checkout.key})

\* The fetch followed the redirect to the login page, which is no JSON.
PaymentRedirected == Answered("failed", {})

\* A user who keeps paying until it works, whatever was lost on the way, is
\* charged under one key, so the gateway can tell the retries apart from a
\* second purchase.
PaysOnce == \A j, k \in checkout.charged : j = k
=============================================================================
