---------------------------- MODULE PaymentPages ----------------------------
(***************************************************************************)
(* The payment pages of the browser in front of YooKassaPayments: the two  *)
(* price lists, the page a payer returns to, and the pages of an abandoned *)
(* checkout.                                                               *)
(*                                                                         *)
(* One tab of one signed-in user makes all the requests.  Moving between   *)
(* pages of the application only changes the hash: the requests of the     *)
(* page before go on, and their answers replace whatever is shown by then. *)
(* Leaving for YooKassa or Stripe unloads the application: the requests go *)
(* on at the server, their answers reach nobody, and only sessionStorage   *)
(* is left.                                                                *)
(***************************************************************************)
EXTENDS YooKassaPayments

CONSTANT MaxViews  \* bound: pages the user opens himself

VARIABLES
  at,        \* what the tab shows: "prices", "tariffs", "checking", "active",
             \* "pending", "cancelled", "failed", "missing", "thanks", "unpaid",
             \* or the site it left for, "yookassa", "stripe"
  of,        \* payment the page is about, or None
  last,      \* sessionStorage "yookassa_last_payment_id", or None
  creating,  \* payments whose buttons wait for an answer
  asked,     \* payments whose status the tab waits for
  listing,   \* the tab waits for Stripe's prices
  buying,    \* the tab waits for a Stripe checkout
  views      \* pages he has opened

tab == <<at, of, last, creating, asked, listing, buying, views>>
pageVars == <<vars, tab>>

\* The user comes in by the tariffs' address.
PagesInit ==
  /\ Init
  /\ at = "tariffs"
  /\ of = None /\ last = None
  /\ creating = {} /\ asked = {}
  /\ listing = FALSE /\ buying = FALSE
  /\ views = 0

\* mountShell replaces the page; "of" is the payment it names.
Mounts(page, p) == at' = page /\ of' = p

\* window.location.href: the application is unloaded.
Leaves(site, p) ==
  /\ Mounts(site, p)
  /\ creating' = {} /\ asked' = {} /\ listing' = FALSE /\ buying' = FALSE

\* The user opens a page by a link or the browser's history.
Opens ==
  /\ views < MaxViews
  /\ views' = views + 1

---------------------------------------------------------------------------
(* #/pricing: Stripe's price list *)

\* renderPricing shows a spinner and asks for the catalogue.
OpenPrices ==
  /\ Opens
  /\ Mounts("prices", None)
  /\ listing' = TRUE
  /\ UNCHANGED <<vars, last, creating, asked, buying>>

\* The answer, or an empty list if it fails, is mounted over any page.
PricesAnswered ==
  /\ listing
  /\ listing' = FALSE
  /\ Mounts("prices", None)
  /\ UNCHANGED <<vars, last, creating, asked, buying, views>>

ClickStripe ==
  /\ at = "prices" /\ ~listing /\ ~buying
  /\ buying' = TRUE
  /\ UNCHANGED <<vars, at, of, last, creating, asked, listing, views>>

\* startCheckout: Stripe's URL, from whatever page is shown by now; or an
\* error, and the button is enabled again.
CheckoutAnswered(ok) ==
  /\ buying
  /\ IF ok THEN Leaves("stripe", None)
           ELSE /\ buying' = FALSE
                /\ UNCHANGED <<at, of, creating, asked, listing>>
  /\ UNCHANGED <<vars, last, views>>

\* /success and /cancel, where Stripe sends the user back: what they say is
\* fixed, nothing is asked.
BackFromStripe ==
  /\ at = "stripe"
  /\ Mounts("thanks", None)
  /\ UNCHANGED <<vars, last, creating, asked, listing, buying, views>>

GivesUpAtStripe ==
  /\ at = "stripe"
  /\ Mounts("unpaid", None)
  /\ UNCHANGED <<vars, last, creating, asked, listing, buying, views>>

---------------------------------------------------------------------------
(* #/pricing-yookassa: the tariffs *)

OpenTariffs ==
  /\ Opens
  /\ Mounts("tariffs", None)
  /\ UNCHANGED <<vars, last, creating, asked, listing, buying>>

\* The button of one plan is disabled until its request is answered; the
\* buttons of the other plans are not.
ClickBuy(p) ==
  /\ at = "tariffs"
  /\ \A q \in creating : PlanOf[q] # PlanOf[p]
  /\ CreateAsk(p)
  /\ creating' = creating \cup {p}
  /\ UNCHANGED <<at, of, last, asked, listing, buying, views>>

\* createAndRedirect keeps the id and leaves; a tab that has been unloaded
\* does not hear of its payment.
CreateAnswered(p) ==
  /\ CreateStore(p)
  /\ IF p \in creating
       THEN last' = p /\ Leaves("yookassa", p)
       ELSE UNCHANGED <<at, of, last, creating, asked, listing, buying>>
  /\ UNCHANGED views

\* 502, or the process died: the button is enabled again.
CreateFails(p) ==
  /\ p \in creating
  /\ creating' = creating \ {p}
  /\ waiting' = [waiting EXCEPT ![p].create = FALSE]
  /\ UNCHANGED <<now, rowVars, local, remote, refunded, notes, cached, faults>>
  /\ UNCHANGED <<at, of, last, asked, listing, buying, views>>

---------------------------------------------------------------------------
(* #/payment/success, where YooKassa's return URL leads *)

\* YooKassa sends the user back, or he opens the page.  Without a payment_id in
\* the URL the page asks for the payment the tab made last.
OpenStatus ==
  /\ IF at = "yookassa" THEN UNCHANGED views ELSE Opens
  /\ IF last = None
       THEN /\ Mounts("missing", None)
            /\ UNCHANGED <<vars, asked>>
       ELSE /\ Mounts("checking", last)
            /\ PollAsk(last)
            /\ asked' = asked \cup {last}
  /\ UNCHANGED <<last, creating, listing, buying>>

\* /payment/cancel shows the payment of its address and asks nothing either.
ShowCancelled(p) == Mounts("cancelled", p)

\* What the page makes of the answer, fresh or remembered.
StatusAnswered(p, s) ==
  /\ PollApply(p, s)
  /\ IF p \notin asked THEN UNCHANGED <<at, of>>
     ELSE IF s = "canceled" THEN ShowCancelled(p)
     ELSE Mounts(IF s = "succeeded" THEN "active" ELSE "pending", p)
  /\ asked' = asked \ {p}
  /\ UNCHANGED <<last, creating, listing, buying, views>>

\* 500, 502, or the process died.
StatusFails(p) ==
  /\ p \in asked
  /\ asked' = asked \ {p}
  /\ Mounts("failed", None)
  /\ waiting' = [waiting EXCEPT ![p].poll = None]
  /\ UNCHANGED <<now, rowVars, local, remote, refunded, notes, cached, faults>>
  /\ UNCHANGED <<last, creating, listing, buying, views>>

---------------------------------------------------------------------------
\* What the server does with nobody of this tab waiting for it.  The clock
\* stands still: no page, guard or property here reads it.
Behind ==
  /\ \/ \E p \in Payments :
          \/ Notified(p)
          \/ PollHalf(p)
          \/ RefundAsk(p) \/ RemoteRefund(p) \/ RefundApply(p) \/ RefundHalf(p)
          \/ \E s \in RemoteStates :
               RemoteMove(p, s) \/ WebhookAnswerLost(p, s) \/ WebhookHalf(p, s)
     \/ \E u \in Users : CancelEndpoint(u)
     \/ Crash
  /\ UNCHANGED tab

PagesNext ==
  \/ OpenPrices \/ PricesAnswered \/ ClickStripe
  \/ \E ok \in BOOLEAN : CheckoutAnswered(ok)
  \/ BackFromStripe \/ GivesUpAtStripe
  \/ OpenTariffs \/ OpenStatus
  \/ \E p \in Payments :
       \/ ClickBuy(p) \/ CreateAnswered(p) \/ CreateFails(p)
       \/ \E s \in RemoteStates : StatusAnswered(p, s)
       \/ StatusFails(p)
  \/ Behind

PagesSpec == PagesInit /\ [][PagesNext]_pageVars

---------------------------------------------------------------------------
(* Property. *)

\* "Подписка активирована" is true when it is said: the payment the page names
\* went through at YooKassa and its plan was activated, whether the webhook or
\* the page's own poll came first, and whichever of several payments the tab
\* made last.
ActivatedIsTrue ==
  at = "active" => remote[of] = "succeeded" /\ since[of] # Never
===========================================================================
