# Ankita Designs Live Shopping: a TLA+ model

The program is a live-shopping marketplace: a FastAPI back end
(`src/backend/app`) over PostgreSQL and a Next.js front end (`src/frontend`).
Vendors take part in exhibitions, go live on their stall, bargain with the
customers in the room, and customers buy at the list price or at the price the
vendor accepted.

What makes it hard to test is the same everywhere. Every handler is a plain
`def`, so requests run in parallel on a thread pool; each has a SQLAlchemy
session of its own (autoflush off), PostgreSQL runs it at READ COMMITTED, and
there are no row locks, no version columns and almost no unique constraints. A
handler reads rows, decides, and commits the columns it changed as literals;
what it decided on may be gone by then. And nothing runs in the background:
bargains, deals, sessions and exhibitions whose time is over are put right by
the next request that happens to look at them.

## Inventory

| component | state | operations | what makes it correct |
|---|---|---|---|
| carts (`cart_service.py`) | one cart per user, rows with an agreed price | add, update, delete, clear | what enters is on sale; a deal in a row is the customer's own |
| checkout and orders (`order_service.py`, `routes/checkout.py`) | orders, lines, payments; decrements stock | create order line by line, then clear the cart; vendor status, fulfilment | stock sold once; a deal spent once; the money adds up |
| bargains (`bargain_service.py`, `routes/bargains.py`) | bargain sessions, offers, deals | start, offer, counter, accept, close, poll, turn a price into a deal | one shared price inside the vendor's range; settled offers; expired bargains close |
| product catalogue (`routes/vendor.py`, `products.py`) | products | create, update, delete | edits and sales do not lose each other's writes |
| exhibitions (`routes/admin.py`, `db_data_service.py`) | status, schedule | create, schedule, start, pause, resume, end, cancel, patch, lazy completion | lifecycle of the repository's README |
| live sessions (`routes/live_sessions.py`, `vendor.py`) | one reused row per stall, pinned product, viewer count | start, end, pin, join, chat, lazy closing | one broadcast per stall and vendor; closed rooms close |
| participation and stalls (`routes/vendor.py`, `admin.py`, `stalls.py`) | join requests, stall holder | request, review, assign, remove, leave, book, edit | one stall per vendor and exhibition; who leaves gives it up |
| vendor onboarding (`routes/vendor.py`, `admin.py`, `auth.py`) | application, revision, status | register, resubmit, approve, reject, ask for corrections | an answer given to the application it was about |
| subscriptions and live slots (`subscription_service.py`) | requests, proofs, approved intervals | request, proof, approve, reject, cancel | one active subscription, slots that do not overlap |
| phone codes (`otp_service.py`), e-mail proofs (`email_verification_service.py`) | challenges with attempts and expiry | request, resend, verify, consume | bounded attempts, a code used once |
| accounts (`routes/auth.py`, `user.py`, `auth_context.py`) | users, roles | login, profile, onboarding | roles are not lost |
| social posts (`social_service.py`, `routes/social.py`), advertisements | moderation states, follows, likes | create, edit, publish, review, follow | only reviewed posts are visible |
| live chat and presence | messages; in-memory presence | append, list | order and duplicates in the client's merge |
| client state (`frontend/lib/cart-store.ts`, `checkout-screen.tsx`, `live-room.tsx`) | local cart, messages, last order | optimistic edits, polling | agrees with the server once calls return |
| LiveKit tokens, analytics, uploads, mail, settings, health | none or read-only | | outside the model |

The components meet in the database: the bargain writes an accepted price, the
cart turns it into a deal, the checkout spends the deal and writes the stock a
vendor may be editing; the exhibition decides whether a live session may run,
the session whether a bargain may start.

## Modules

| module | models |
|---|---|
| `Commerce` | products, carts, deals, checkout, product edits, with requests as read and commit steps |
| `DealBook` | abstract: what a one-off price promises |
| `StockLedger` | abstract: what the stock column promises |
| `CommerceBook`, `CommerceLedger` | refinement mappings of `Commerce` onto the two |
| `Commerce_proofs` | theorems about `Commerce` and `CommerceBook` |
| `Bargain` | one live room's bargains: offers, counters, acceptance, expiry, buying |
| `Recency` | rows in the order of a time column, for `Bargain` (`updated_at`) and `LiveFloor` (`started_at`) |
| `LiveFloor` | exhibitions, participation, stalls, live sessions |
| `LiveSlots` | a vendor's subscriptions and live slots: requests, payment proofs, decisions |
| `OneTimeCode` | codes sent to a number or an e-mail address, and the accounts made with them |
| `Moderation` | the review of a vendor's application and of a post, and what the public sees |
| `ClientCart` | the cart of a page against the cart of the server, with overlapping calls |
| `Bargain_proofs`, `LiveFloor_proofs`, `LiveSlots_proofs`, `OneTimeCode_proofs`, `Moderation_proofs`, `ClientCart_proofs` | theorems about these modules |
| `Recency_proofs` | lemmas about `Recency` that the proofs share |
| `MC...` | one for each of the seven: instances for TLC |

`PROJECT.json` maps every definition to the lines it stands for.

### Commerce

`stock`, `active` and `tag` are the columns of a product, `deal`, `cart` and
`orders` the tables, `offer` is what the bargain component has accepted for a
product right now. `job[c]` is the request customer `c` has in flight, with
everything it has loaded: `add_item` is `AddItem` (load and check the product),
`FindDeal` (find or create the deal, a commit of its own) and `SaveRow`;
`create_order` is `Checkout`, one `SellLine` or `RejectLine` per line, and
`PlaceOrder`, followed by the second commit `ClearCart`. SQLAlchemy's identity
map is `seen` and `tags`: a product is loaded once per request and its
decrements stay in memory; the deal, though, is queried for every line, and as
autoflush is off the query still finds the deal the previous line has taken.
`edit[p]` is a vendor's `update_product` or `delete_product` between its read
and its commit. `Written` is the unit of work: only columns whose value differs
from the one loaded are in the UPDATE.

One request per customer is in flight (the browser awaits each call); users
overlap freely unless `SerialRequests`. Overlapping calls of one customer are
the subject of `ClientCart`. `update_item` and `delete_item`, which decide nothing on what
they read, are one step. Restart loses the requests in flight and nothing else.

### Bargain

`bargain` holds the room's bargain rows in the order of creation, `recency`
their order by `updated_at` (which `active_deal_for_product` sorts by), `offer`
the offers, `held` the customers' open deals. `Desk` is the set of vendor
requests that can be in flight together. `over` says that
`ends_at` has passed. `Poll` is `state_payload`, which closes the newest
bargain if its time is over. `shared` is a history variable: the prices the
vendor has accepted. `calm` is another: that no two requests have overlapped so
far. Properties the code only keeps for requests that follow each other say so
with it, and the others are checked in the same run for every overlap.
`LiveFloor`, `LiveSlots`, `OneTimeCode`, `Moderation` and `ClientCart` have the
same variable.

### LiveFloor

An exhibition's `phase` is where the clock stands against its schedule;
`EffectiveOf` is `status_payload`, and `Answer` puts the trailing
`sync_exhibition_completion` of `serialize_exhibition` into every handler that
answers with an exhibition. The five lifecycle endpoints differ in the statuses
they accept, the status they set and the sessions they load (`From`, `To`,
`Takes`, `Makes`). `session` has the live session rows, reused per stall,
`started` their order by `started_at`. The columns `stalls.status`,
`live_status` and the viewer counts are left out: `serialize_stall` recomputes
what it shows from the sessions; so is the pinned product. Vendors are approved throughout, have their
two products and branding, and live-slot gating is off, its default.

### LiveSlots

One vendor's rows of `vendor_subscriptions` and `live_slots`, which have the
same life, in one sequence `row`. Whatever decides on what it has read is a
`ReadForDecision` and a `SaveDecision`: `Allowed` is what the endpoint checks,
`Decided` the row it makes. An administrator's own slot is three commits, as in
`create_admin_live_slot`: `CreateSlot`, `AssignSlot`, and `ReadForAssigned`,
which refuses an overlap and leaves the request behind. `orderly` says that no
two requests of administrators have overlapped, `calm` that no requests have:
the overlap check needs the first only, whatever the vendor does meanwhile.

### OneTimeCode

One person's number and e-mail address. `code` holds the challenges of both
tables, with `age` for the cooldown, the expiry of the code and the expiry of a
proof; `user` the accounts, with the two e-mails they may have: the person's own
and the one `_otp_email_for_phone` makes. A request for a code commits the
challenge (`SaveCode`) and is then `Delivered` or `Undelivered`, or dies in
between; a failed e-mail deletes the challenge, a failed SMS leaves it. The
one unique constraint, `users.email`, is in the guards of the commits that
insert a user. `by`, `uses` and `tries` are histories.

### Moderation

A vendor's `application`, one `post`, and whether the public `profile` exists
that `visible_post_filters` joins. Asking for corrections reads the application,
sends an e-mail (`SendNotice`) and saves; whatever commits in between is
overwritten. `reviewed` is a history: an administrator approved the post after
it was last handed in.

### ClientCart

The calls of `cart_service.py` statement by statement (`FindCart`, `MakeCart`,
`FindRow`, `Save...`, `List`) and the page that sends them: a button waits for
no answer, an answer replaces the store's cart, and any call may be lost before
or after it took effect (`Fail`). `asked` is what the customer's clicks add up
to. Prices and deals are in `Commerce`.

## Runs

Passing runs:

| run | checks | bounds |
|---|---|---|
| `Commerce_deals` | `UsedDealsAreSettled`, `LinesPricedFairly`, `OneOpenDeal`, `CartDealsAreOwn`, `CheckoutConsistent`, `StockNeverNegative`, `SpentOnce`, `TypeOK`, and that `Commerce` implements `DealBook` | 2 customers, 1 product, 2 deals, 2 orders, two accepted prices, payloads with one line and with the same product twice |
| `Commerce_serial` | `MoneyConserved`, and that `Commerce` implements `StockLedger`, when requests do not overlap | 1 customer, 2 products of 2 vendors with rates 12 and 0, an agreed price whose commission is not whole, orders of three lines, edits, deletes, a suspended vendor |
| `Bargain_room` | `TypeOK`, `PricesInRange`, `DealsAtSharedPrice` with any overlap; `AcceptanceSettles`, `AcceptedOffersReachPrice` without | 2 customers, 1 vendor request, 3 prices, one bargain, terms in and out of order, one broadcast |
| `Bargain_expiry` | `ExpiredBargainsClose` | 1 customer, 1 vendor request, 2 bargains |
| `LiveFloor_floor` | `TypeOK`, `RoomsCloseEventually` with any overlap; `OneLivePerStall`, `LeavingFreesStall`, `OnlyStartsRevive` without | 1 exhibition, 2 stalls, 1 vendor, 1 administrator, 2 session rows |
| `LiveSlots_grants` | `TypeOK`; `SlotsDisjoint`, `OneActive` for one administrator's request at a time; `GrantedIsSettled`, `OnePendingPerPlan` without overlap | 1 vendor request, 1 administrator, 2 plans, one free, slots that meet, cross, or end before they start, 2 rows |
| `OneTimeCode_tabs` | `TypeOK`, `SpentOnAccount`, `NobodyShutOut` with any overlap; `SignsInOnce`, `TriesAreCounted` without | 2 requests at a time, all three kinds of code, 2 codes, 2 attempts |
| `Moderation_review` | `TypeOK`, `AnswersNotices`, `ApprovedAppears` with any overlap; `ShownAsReviewed`, `ApprovalStands` without | 1 request of the vendor, 2 of administrators, 2 notices |
| `ClientCart_page` | `TypeOK`; `OneCart`, `PageAgrees` without overlap | 1 product, 2 calls at a time, quantities to 2, 2 carts and rows |

Two customers and one contested product are what every hazard of the commerce
path needs: an overlap is between two requests, a deal is shared between two
lines or two orders. Two deals let one be spent or lapse while the next is
granted, two orders let a later checkout meet an earlier one. The price bounds
(`9`, `17`, `20` with rate 12) make the rounded commission differ from the
exact one. That edits and deletes overlapping with checkouts keep
`LinesPricedFairly` and `StockNeverNegative` is proved (below) and no longer run.
`Bargain_room` has no `Interrupted` broadcast: going off the air only refuses
requests, so every state but for `onAir` is reached without it; `Bargain_expiry`
has it. `LiveFloor_floor` leaves out the end endpoint, which loads and ends the
sessions that cancel does; exhibitions still end, by the clock.
One stall would hide a vendor who moves; two session rows give each stall one,
or one stall the second it must not have on air. Overlaps and exclusions are
between two rows, two codes or two carts, so two of each reach them; two
attempts tell a code that was tried from one that is used up; a quantity of two
tells an increment from a value and one from none. A code of each kind would
need three: the kinds meet in the accounts only, and two codes reach every pair
of kinds.

`MaxInCart`, `MaxBargains`, `MaxSessions`, `MaxRows`, `MaxCodes`, `MaxMails`,
`MaxQuantity` and `MaxId` cut unbounded counters, and `MaxBasket` is the largest
sale of the abstract ledger. Deadlock is checked in all runs but
`OneTimeCode_tabs`: with `MaxCodes` codes asked for and grown old, and both
e-mails registered, nobody has anything left to do.

Runs that must fail, each one property quoted from the repository, each a
finding in `PROJECT.json`:

| run | property | what TLC shows |
|---|---|---|
| `Commerce_oversell` | `SalesComeOutOfStock` | two checkouts of the last units both succeed and the stock drops once |
| `Bargain_shown_deal` | `ShownDealIsCharged` | after accept and then counter the room shows "Your agreed price", the cart charges the list price |
| `LiveFloor_two_broadcasts` | `VendorLiveOnce` | a broadcast hidden by a pause comes back beside a new one |

The last two need no overlap of requests: a few legal calls, one after the
other, are enough.

### Not asserted

States the models reach, or lines met while modelling, that the code's authors
would hardly want and no run asserts:

- `add_item` commits a row for a product deleted since it was checked, and the
  checkout refuses it later; every property above that is said to hold without
  overlap only fails with it;
- an exhibition paused past its end becomes `ended` with its sessions `paused`
  (`db_data_service.py` 148-158), while `src/README.md` 250 has the sessions
  ended; no later request touches them;
- a vendor removed from a stall stays on air on it, and the row a stall reuses
  keeps the previous vendor's `pinned_product_id`;
- an administrator's approval publishes a post whatever its status is, so a
  draft or an archived post goes public (`routes/social.py` 431); an edit
  without a status keeps the approval of what was edited;
- the checkout screen shows a total less LIVE100 and with a delivery charge of
  its own (`checkout-screen.tsx` 25-28), the server charges the products' own
  delivery charges and knows no discount; the cart a visitor filled before signing in
  is replaced by the server's;
- an order has one status and every vendor with a line in it writes it
  (`order_service.py` 118, 138), so one vendor's fulfilment is the others' too.

## Fairness

Safety needs none, and no action of a person is ever assumed.
`ExpiredBargainsClose` assumes `WF(Poll)`, as every open
live room polls `/bargains/live/{id}` every two seconds
(`live-room.tsx` 240-272), and that time passes: the property is about a vendor who in the end leaves the bargains alone.
`RoomsCloseEventually` assumes `WF(Poll(s))` for each stall, the same poll
seen by the session; that the exhibition stays closed is its hypothesis.
`NobodyShutOut` assumes `WF(Ages(i))` for each code, which is time passing, and
neither that a message arrives nor that a request survives.

## Proofs

Every safety property the passing runs check, and every action property, is
also a theorem, for every value of the constants; `PROJECT.json` lists them.
The proofs assume of the constants what the modules' assumptions say
(`CommerceAssumption`, `NoneIsNoRow`, `BargainAssumption` and so on): that prices
are natural numbers, that actors of two kinds are not the same, that `None` is
no row. TLC evaluates each of them in the run of its module. Bounds such as
`MaxRows` or `MaxBargains` are any natural number. In each proof module there
is one lemma per action, and the theorem puts them together.

The invariants are of two kinds. One holds however requests overlap: a type
invariant that also says what a request in flight has checked, or works on. The
other, `CalmInv`, holds while requests have not overlapped (`calm`), and has
the same form everywhere: at most one request is in flight, what it has loaded
is still in the database, and the tables are as the property wants them. The
second part is what makes it inductive: without it the commit of a request
could not be told to respect what it checked when it loaded.

### Commerce

`Commerce_proofs` proves, with any overlap of requests: `TypeCorrect`,
`CheckoutsAreConsistent`, `DealsSettle`, `FairPrices`, `OneDealOpen`,
`DealsSpentOnce` (an action property), `CartsHoldOwnDeals`, `MoneyIsConserved`,
`StockStaysNatural`, and `ImplementsBook`: the handlers implement `DealBook`,
step by step. The invariant that carries it is

    DealsInv == TypeOK /\ CheckoutConsistent /\ UsedDealsAreSettled
                       /\ LinesPricedFairly /\ InitialAsked

None of its parts is inductive alone. `PlaceOrder` marks the deals of its lines
used, so that `UsedDealsAreSettled` and `LinesPricedFairly` survive needs to
know that those deals are still unspent, the customer's own and at the price
the line was given when it was computed, some steps earlier: that is
`CheckoutConsistent`, and the reason it holds is that only the customer's own
request spends the customer's deals and no other request has drawn the same
order id. `CartInv`, `MoneyInv` and `StockInv` strengthen the others with
what a request has computed so far.

### Bargain

`PricesStayInRange` and `DealsWereShared` hold with any overlap. Their
invariant, `Inv`, says of every bargain, offer and open deal that its price is in
the range, of every accepted price that the vendor shared it, and of a request
in flight that what it is about to write was checked against terms that no step
changes (`Fits`). What others commit meanwhile can only add rows and shared
prices (`Extends`), so that what fitted when it was loaded still fits: this is
why no lock is needed for the prices. `SettledByAcceptance` and
`AcceptedReached` do need the calm: `accept_group` writes the offers it loaded.
Polls and the clock are not requests; a bargain may be closed by them under the
request in flight, which `UpToDate` allows for.

### LiveFloor

`OneBroadcast`, `LeavingFrees` and `StartsRevive`, all while calm, rest on one
invariant: a stall has one session row (`OneRow`, there is no unique constraint
on it: `start_live_session_for_db` looks for a row first), a vendor has one stall in an
exhibition (`OneStall`), whoever holds a stall has not left (`LeftFree`), and
what the request in flight has read is still so. `OneStall` is not what the
property says but what it needs: `leave_exhibition` gives up one stall, the
first it finds.

### LiveSlots

`SlotsNeverOverlap` and `OneSubscription` hold for any number of administrators
who take turns (`orderly`), whatever the vendor does meanwhile; the run keeps
one administrator, for whom `orderly` is always true. `GrantInv` adds to the
two properties that at most one administrator is at work, and that what the
approval in flight has found (`Checked`) is still so. Nothing but a saved
approval grants a row (`GrantsAreApproved`), so that what was found stays true
until the commit (`NothingGrantedKeeps`), and the commit itself keeps slots
apart and cancels the other subscriptions (`ApprovalKeeps`). `GrantsAreSettled`
and `AskedForOnce` follow from `CalmInv`.

### OneTimeCode

`CodeSpentOnAccount` holds with any overlap, and is the theorem that leans on
the one unique constraint: `MailsUnique`, and that an account made with a code
has the e-mail of the code's kind (`UserFits`), leave room for one account per
code, and a code is consumed in the commit that makes it (`CodeFits`).
`OneSender` says that a code is delivered by the request that made it, so that
nobody enters a code that was not told. `CodeSignsInOnce` and `EveryTryCounted`
are calm: `attempts` is written from the value loaded.

### Moderation

`RevisionsAnswerNotices` holds with any overlap, by counting: `NoticeInv` says
that the revision, with the notices sent and not yet committed and the one an
open application stands for, never exceeds the notices sent.
`ApprovedPostAppears` holds because an approval makes the profile in its own
commit (`ProfileInv`). `ApprovalsStand` (an action property) and
`ShownWasReviewed` are calm.

### ClientCart

`OneCartEach` and `PageTellsTheTruth` are calm. The invariant follows a call
through its statements: before its commit the page still shows the rows and
what was clicked is the rows with the call's change made (`Pending`), after it
the rows are what was clicked, and the answer is the rows (`PageFits`). A call
that dies on the way leaves `lost`, and the rows alone are then promised until
an answer has come.

### Recency

That a set of rows that is not empty has a newest one is a fact about numbers
that would be proved by induction; `HasLeast` takes it from the
well-foundedness of the natural numbers instead, as a least element.

### Only model-checked

- liveness (`ExpiredBargainsClose`, `RoomsCloseEventually`, `NobodyShutOut`),
  which needs fairness and `ENABLED`;
- that `Commerce` implements `StockLedger`: the ledger sums over all lines of all
  orders, a fold, and what a fold computes needs induction over data;
- the three properties the code does not have.

## Not modelled, and the plan

What the runs check is proved as far as the prover reaches. With the rest of the
model come its invariants, and for `LiveFloor` and `LiveSlots` an abstract
specification to implement: one broadcast per stall, and a calendar.

Left of the model: the vendors' updates of an order (`order_service.py`
111-142), where every vendor of an order writes the order's one status; advertisements,
likes and follows, single rows without a check of what was there; the viewer
counter and the pinned product of a session; chat, presence, and the merge of
messages on the page; the cart of a visitor who is not signed in; the making of
stalls; and pure functions against reference definitions (stall codes, phone
normalisation, the exhibition's countdown).

Left out for good: token building, uploads, mail and SMS delivery (external
calls that keep no state here; their failures become inputs of the components
above), read-only analytics, start-up migration and seed rows, the vendored
`.deps`, `.piptmp` and `.reference` trees.
