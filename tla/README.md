# edawr-backend: verification project

The repository is the backend of a quick-commerce store: a Django REST service
on PostgreSQL that sells from one dark store, hands the orders to riders and
follows them to the door. This directory holds TLA+ models of it, the TLC
configurations that check them and the proofs TLAPS checks. Every definition is
translated from the source; `PROJECT.json` ("map") names the lines of each.

## The system

| part | state it keeps | operations | interacts with |
|---|---|---|---|
| Order lifecycle (`api/models.py` `Order`, `api/views/orders.py`, `api/checkout.py`) | status, rider, time stamps, outcome, money, reason, `restocked_at` | status PATCH by manager or rider, accept, assign, cancel, restock | everything below |
| Dispatch (`api/dispatch.py`, `api/views/orders.py`, `api/views/delivery.py`) | `delivery_boy`, `OrderRejection` | automatic and manual assignment, pull feed, decline, hand-back, stalled list | runs inside the transaction that moves an order to Ready; reads the roster |
| Rider roster (`api/views/users.py`, `RiderAvailabilityView`) | `is_active`, `is_available`, PIN, `token_version` | edit, PIN reset, deactivate or delete, own switch | dispatch, sessions |
| Checkout and stock (`api/checkout.py`, `api/views/store.py`, `api/views/products.py`) | `Product.stock`, `status`, `Order.idempotency_key` | place, cancel, restock, PATCH of a product | order lifecycle |
| Sessions (`api/security.py`, `api/authentication.py`, `api/views/auth.py`) | `token_version`, secrets; the tokens are with the clients | sign in, refresh, sign out, change password | staff accounts, roster |
| Staff accounts (`api/views/admins.py`, `api/permissions.py`) | role, `is_active`, password | create, edit, deactivate | sessions |
| Customer accounts (`api/views/customer.py`, `api/otp.py`) | claims on orders, `phone_verified_at` | sign up, claim, verify | orders |
| Live location (`api/location.py`, `api/views/store.py`, `api/views/delivery.py`) | last position of riders and customers, ping history | report, read, prune | lifecycle deletes positions |
| Push (`api/push.py`) | device tokens | register, forget, send, drop dead tokens | called on commit by lifecycle and dispatch |
| Pricing, settings and hours (`api/pricing.py`, `api/views/settings.py`, `StoreSettings`) | one settings row | quote, PATCH, gate | checkout |
| Catalogue, uploads (`api/views/{products,categories,promos,uploads}.py`, `api/storage.py`, `migrate_uploads_to_r2`) | products, categories, images on a disk or in a bucket | CRUD, upload, remove, move | checkout |
| Reports (`api/views/analytics.py`, `api/paging.py`) | none | several statements per report | reads orders while they move |
| Throttling, audit, validation, SMS, suggestions, other commands | counters, append-only rows, nothing | | |

### What is hard here

PostgreSQL runs at READ COMMITTED and requests are not transactions of their
own: a view opens a transaction around the part that its author thought needs
one. So correctness rests on which rows are locked when, and on what was read
before the lock. The handlers of an order lock its row first. These do not:

* `eligible_riders` reads who is carrying before it locks the rider rows;
* `OrderRejectView`, `UserDetailView.put` and `.delete`, `get_rider` and
  `CustomerLocationView` check an unlocked read and write later;
* the last-Admin guard locks the row it changes and reads the rows it does not;
* a rider's report and the customer's map read an order and write or answer
  about it later;
* categories and banners are read without a lock and saved whole, from forms
  that may be old; images are removed after the commit;
* a report is several statements without a transaction;
* `created_at` and `paid_at` are stamped when a row is written, and seen when its
  transaction commits, which may be on the next day.

Besides, workers die between two commits, and daemon threads with them; clients
retry checkouts while the first attempt is in flight; a bearer token outlives
what the server knows; handsets' requests arrive late, twice or never; SIM cards
and tracking links change hands.

### What makes each part correct

* Order: at every moment somebody answers for the goods; stamps are set once and
  in order; money is recorded exactly with a delivery; what is over stays over.
* Dispatch: a rider who declined is not given the order, and of those who could
  take it nobody nearer is passed over; no rider stays on an
  order that is in the store, and none is missing from one that is out; no
  waiting order is out of everybody's sight.
* Checkout: nothing is oversold, no unit appears or vanishes, one key makes one
  order, requests do not wait for each other in a circle, everybody is answered.
* Sessions: what was retired stays retired, a reset ends the old sessions, every
  session ends.
* Staff accounts: an Admin always remains, and edits do not undo each other.
* Location: a trail names only riders who carried the order; the end of an order
  closes every channel but for what was already in flight; the customer's
  position goes for good.
* Push: nobody is alarmed about what did not happen, or twice; a working phone
  keeps its registration, and gets it back with a launch.
* Customer accounts: one account at most sees an order, on evidence; what has
  come to a history stays there.
* Catalogue and images: an image given to one row, once, exists while it is
  shown; a move of the store leaves none behind; a product stays filed under a category.
* Prices, settings, hours: the bill is what the cart showed; a pause is undone
  only on purpose; a shop is open for its hours, over midnight, too.
* Reports: of days that are settled they give one consistent account, and a past
  day does not change once the transactions that dated something in it are over.

`PROJECT.json` ("hazards") lists, line by line, where this can go wrong and
which property watches it.

## Modules

| module | models | state and actions against the code |
|---|---|---|
| `OrderStates` | `Order.TRANSITIONS` and the target sets | constants shared by the order modules |
| `Custody` | what one order promises, abstractly | `place` and `holder`; hand over, reassign, give back, finish, cancel |
| `OrderRow` | one row of `orders` with a clock | one variable per column; one action per handler, each whole because it holds the row's lock from first read to commit |
| `Dispatch` | several orders and riders | committed columns; `txn[o]` is the transaction that moves o to Ready, between its read of `carrying` and its commit; `open` holds requests between an unlocked check and their write |
| `Checkout` | baskets, shelves, keys | `lock` and `seen` are row locks and what was read under them; `pc` is how far a transaction is; one action per lock, one for each commit or rollback |
| `Sessions` | one account and its tokens | `version`, `secret`, `active` are columns; `tokens` is what clients hold; `open` holds requests with the row they read |
| `Admins` | the console accounts | `role`, `active` are columns; `open` holds requests with the caller they were let in for and, once they hold the row's lock, the row they will save |
| `Location` | positions, trails and maps | orders move as `Custody` says (instantiated per order); `open` holds requests with the order they read; `carried` is history |
| `Push` | device rows and notifications | `device` is the tables; `txn` and `send` follow one event from its transaction over the hook and the thread to the tickets; `net` is a network that keeps no order; `live` and `user` are the handsets |
| `CustomerAccounts` | accounts, claims, the proof of a SIM | `customers`, `orders` are rows; `challenges` is what clients hold; `open` holds requests between two statements; `person`, `sim`, `links`, `texts` are the world outside |
| `Catalogue` | rows with images, categories by name, the two stores | one variable per column; `open` holds requests with the row they read, and removals to come; `migration` is a run of the command; `drafts`, `used`, `reused` and `removed` are history: what was uploaded for nobody yet, shown by some row, given to a row though it was no fresh upload, and removed |
| `Storefront` | prices, settings, hours, the gate and the bill of a checkout | `store` is the row of settings, `patch` a PATCH between its read and its save, `gate` checkouts past the gate, `pending` the row a transaction has written and not committed |
| `Books` (extends `Storefront`) | how orders end, and the reports | a delivery goes through `pending`, too: dated first, seen later; `roster` says which riders' accounts exist; `report` holds the answers so far; one step per SQL statement |
| `DispatchProofs`, `OrderRowProofs`, `CheckoutProofs`, `CustomerAccountsProofs` | | theorems about the module each is named for |
| `AccountsProofs`, `HandsetsProofs`, `ShopProofs` | | theorems about `Sessions` and `Admins`, about `Location` and `Push`, about `Books` (with `Storefront`) and `Catalogue` |
| `Sums` | | induction over finite sets and what it gives: least and greatest elements, sums; used by the proofs |
| `MC...` | | the small instances, one per run but for `MCDispatch` and `MCSessions`, which have two |

`OrderRow` and `Dispatch` look at the same column pair (`status`,
`delivery_boy`) from two sides: `OrderRow` leaves open whom dispatch picks and
has the clock and the money; `Dispatch` has the riders and the races. Both
implement `Custody`. `Checkout` uses the states of `Custody` for where goods
are, and leaves how an order gets there to the other two. `Location` has its
orders move by `Custody`'s steps, so what it shows holds with either module.
`Books` closes the orders the `Storefront` took in three ways that `OrderRow`
has in detail.

Definitions marked "Mutant" next to the definition they vary are plausible bugs
of it. They are no part of any specification; each shows that some property
notices such a bug.

## Runs

Runs expected to pass:

| run | instance | shows |
|---|---|---|
| `order_row` | 2 riders, a promise of one minute of two ticks, 7 ticks | stamps, money, freezing, Custody |
| `dispatch` | 2 orders, 2 riders (one nearer to the first order and out of range of the second; the other may be deleted outright), one request in flight | no rider in the store, a rider on record while the order needs one, declines, nobody passed over (to ten metres), Custody |
| `dispatch_live` | 2 orders (one without a position, one out of range of a rider), 2 riders, no deletions and no slow requests | no waiting order stays unseen |
| `checkout` | 2 products, 3 attempts of which 2 share a key, one catalogue edit, under fairness | stock, keys, that nobody waits in a circle and everybody is answered |
| `sessions` | an account of each of the 3 kinds, 2 requests in flight, 2 tokens | retirement, resets, the ceiling |
| `admins` | 3 console accounts, 2 requests in flight | an Admin remains while demotions do not overlap; edits do not undo each other |
| `location` | an order that 2 riders carry in turn, 2 requests in flight, under fairness | the trail is true; the end closes; the customer's position goes |
| `push` | 2 handsets, 2 riders, one event, under fairness | no false alarm, no registration lost without a reason, launches heal |
| `customers` | 2 people, numbers, accounts, orders and codes, 2 requests in flight | who sees which order, on what evidence, for how long |
| `catalogue` | a product, 2 categories, 2 images, 3 names, 2 requests in flight; forms send any address | images exist, a move leaves none behind, products stay filed |
| `books` | 2 orders, 2 riders (either may be deleted), 2 managers, 5 ticks of 2 a day; rows wait for their commit | the bill, the pause, the hours, and what reports may say |

One run is expected to find a violation, of a sentence in the repository (quoted
in `PROJECT.json`, "findings"): in `sessions_logout` an edit of a rider saves the
`token_version` it read before the rider signed out.

### Known divergences

The models show more behaviour that a reader of the code, its comments or its
docs would not expect. Where it matters, the property says so in its condition.

* `Dispatch`: two orders that reach Ready together both read that rider 1 is
  free; the second waits for his row and gives him its order, too
  (`api/dispatch.py:104`, against lines 99-100).
* `Dispatch`: a rider without history who accepts an order between the check and
  the delete is erased from it (`api/views/users.py:134`); hence `Erased`.
* `Dispatch`: `OrderRejectView` checks on unlocked reads and writes later, so a
  decline may be recorded against the order its rider was given in between
  (`api/views/orders.py:570-588`).
* `Dispatch`: `_rank` rounds distances to ten metres before it sorts, so of two
  riders who differ by less the one with the lower key may get the order although
  the other is nearer (`api/dispatch.py:150-152`); hence `Grain` in
  `NobodyIsPassedOver`.
* `OrderRow`: an order 30 seconds past its promise is late on every screen and
  on time in the record (`api/models.py:838` counts whole minutes).
* `OrderRow`: an order that was dispatched and handed back may be cancelled,
  although `restock_failed_order` says that the goods of a cancelled order
  "never left the store" (`api/checkout.py:477`).
* `Checkout`: the first attempt takes the last unit while its retry waits for the
  row; the retry reports it sold out (`api/checkout.py:309`).
* `Admins`: two Admins deactivate each other: each transaction locks the other's
  row and sees its own caller still active (`api/views/admins.py:103`); hence
  `overlapped`.
* `Sessions`, PIN reset: `UserDetailView.put` commits the row, the PIN and the
  retirement one after the other (`api/views/users.py:92-116`); a worker that
  dies in between (`Drop`) leaves the old sessions working.
* `Sessions`, password change: of two changes in flight the one that lost reads
  back the row of the one that won (`api/views/auth.py:550`), so its device
  holds a token although its password is no longer the account's.
* `Sessions`, dismissal: an edit that read the rider before `Dismiss` saves the
  `is_active` it read (`api/views/users.py:92-95`).
* `Location`: the customer's position may come back after the order's end, from
  a report that had passed the check; it stays until `prune_locations` runs.
* `CustomerAccounts`: the stamp of a verified number outlives the SIM, so the
  account goes on seeing what is ordered under the number as a guest; and who
  gets a disconnected number sees its unclaimed orders.
* `Push`: a stale ticket, or a sign-out that was overtaken, deletes a working
  registration; the phone is silent until the app is next opened.
* `Catalogue`: the image of an order item is a "frozen snapshot"
  (`api/storage.py:18-20`) of a name, not of the file, which goes when the
  product gets another image (`api/views/products.py:212`). A PUT that races a
  DELETE puts the row back. Of two renames in flight the later moves the products
  of a name they no longer have. A file uploaded before the switch of the store
  for a form saved after the migration read the rows stays on the disk.
* `Catalogue`: every write takes whatever `image_url` the client sends
  (`api/views/products.py:193-202`, `categories.py:97`, `promos.py:93`) and
  removes the file the row had, without asking who else shows it. So two rows
  with the same image lose it together when either changes its own, and a PATCH
  or PUT from an old form puts back an image that has been removed. Hence
  `reused` in `ShownImagesExist`: it speaks of images that were given to one row,
  once, after their upload.
* `Books`: the reports of a day still going on are several statements, so a
  delivery in between may give an on-time rate over 100 %
  (`api/views/analytics.py:125`).
* `Books`: an order is dated by `Order.objects.create` (`api/checkout.py:325`) and
  then waits for its items, the stock and perhaps for a retry with its key; a
  payment is dated by `advance_status` (`api/models.py:810,852`) before the row is
  saved, the position deleted and the audit row written. Either is seen when the
  transaction commits. Dated just before midnight it may come up after it, change
  the till or raise the sales of a day that is over, and do so between two
  statements of a report about that day. Hence `Closed`: the days are over and so
  are the transactions that dated something in them.
* `Books`: what a rider delivered whose account was deleted outright in a race
  (`api/views/users.py:134`, `SET_NULL`) is in the total of the delivery report
  and on no rider's line (`api/views/analytics.py:299`); hence `~Erased` in
  `SettledReportsAgree`. The till of a day does not change with him.

Smaller simplifications of the models, which no property turns on:

* `CustomerAccounts`: `otp.check` and the stamp of a verified number happen at one
  moment, in the code one after the other in the same request
  (`api/views/customer.py:300-317`); how long a code proves a SIM is exact up to
  the length of a request.
* `Sessions`: a token names its account for ever. It resolves by `sub`, the e-mail
  of staff, and changing that is not modelled. Operator commands that save an
  account unlocked are not, either.
* `Push`: deleting a rider outright deletes his devices (`api/models.py:992`,
  `CASCADE`). It would be one more reason to lose a registration.
* `Storefront`: there is one product, so of the checkouts that hold a product's
  row there is one at a time (`ShelfFree`).
* `Books`: a rider is named when an order ends; so `DeleteCheck` overlooks orders
  he has accepted and not closed, and lets more deletions through than the code.

What `Sessions` shows is why `RetiredStaysRetired` is stated of staff and
customers and `OldSecretIsOut` of staff only.

### Bounds, and why they are enough

* Two orders and two riders: every race in dispatch is between two transactions
  about one rider or two riders about one order. In both instances rider 2 is
  out of range of one order, so "nobody reachable" and "somebody reachable but
  busy" both happen; in `dispatch` he is the nearer to the other, so the order of
  distances and the order of keys differ. `MaxOpen` is one request between check
  and write, which races with every locked handler; those need no slot.
* Two products suffice for two orders of locking, three attempts for a retry
  plus a competitor who takes the last unit. `MaxEdits` bounds catalogue edits:
  one may come at every point of every checkout.
* The clock of `OrderRow` runs to seven ticks, past the promise by a part of a
  minute and by more than one.
* In `Sessions` the token's life and the ceiling are one tick each of a clock of
  two, so expiry, renewal at the ceiling and refusal past it all happen. One
  retirement (`MaxVersion`) separates tokens into old and new; two requests in
  flight (`MaxOpen`) are what every race in it takes. The general case is proved.
* Three console accounts and two requests in `Admins`: the caller, the target and
  a bystander. The accounts are symmetric.
* `Location`: every property is about one order, and every race in it between
  one order and two requests, or two riders who carry it in turn. `Stale` and
  `Retention` are zero, so that a tick makes a position stale and a trail old.
  A rider with several orders, who reports about the newest, is left to the proof.
* `Push`: the event's recipient may have both handsets, so a batch has two
  messages and the tickets have an order. Several batches do not fit; what is
  said of batches (`NoFalseAlarm`, `RowsGoForAReason`) is proved for any size.
  Lost, late and overtaken requests need one sign-out in flight (`MaxDeletes`).
* `CustomerAccounts`: two of everything, and a code that lives for its tick only
  (`OTP_TTL_SECONDS` 0), so expiry happens on a clock of two. The general case
  is proved.
* `Catalogue`: two images, for the old and the new one. `Focus` keeps names and
  images apart: while there are images every name stays and one category is left,
  since no handler's guard relates the two. Renames of two categories overlap
  where there are no images. One image may be given a second time; if the
  command runs then, one request at a time goes on. Banners (`Promos`) save as
  categories do, without a name; the instance has none.
* `Books`: five ticks are two days and a third begun, so there is a day before
  and an order over midnight. `Focus` drops reports that begin before their days
  are settled, of which nothing is claimed, and keeps PATCHes of the settings
  and the lower price apart from the reports, which do not read them; a summary
  is asked for where there is a day before to compare with. Two orders are what a
  total and its lines take; the riders are symmetric, and so are the orders. At
  most one checkout or delivery is between its start and its commit, which may
  fall on any later tick and between any two statements. No order is on record
  before the PATCHes are over, and reports are read where of two orders one costs
  more, so that a sum shows which orders went into it. A rider is deleted where
  there is one order, since it acts on each order alone. Windows reach one day back (`MAX_WINDOW_DAYS`), so that their cap binds.
* `CHECK_DEADLOCK FALSE` where the system may stop: all orders are over, the
  clock has run out, or a bound is reached. `Dispatch` is checked for deadlock.

### Fairness

* `Dispatch!FairSpec`: a transaction that holds a row ends, by commit or
  rollback (weak fairness: gunicorn's worker timeout and PostgreSQL see to it).
  An active rider who is carrying closes a delivery in the end (strong fairness,
  because a manager's request may hold the row at any one moment, but waiters
  are queued). No fairness on accepting, declining, going on shift or anything
  a manager does.
* `Checkout!FairSpec`: a worker that began goes on (strong fairness, because row
  locks come and go and PostgreSQL queues the waiters). No client and no manager
  has to do anything.
* `Location!FairSpec`: a request that began ends (weak fairness: the worker's
  timeout), and `prune_locations` runs again and again (its timer). Nobody has to
  report and no order has to move.
* `Push!PushFairSpec`: who keeps using an app opens it now and then, and a network
  that keeps losing its request lets one through at last (strong fairness of
  `Launch` and `Registers`). No thread has to run, no late request to arrive.

## Proofs

Proved with TLAPS for every value of the constants that meets the modules'
`ASSUME`s. They say that ids, nulls and numbers are what they are, and where it
matters a little more, which the database and the settings see to:

| assumption | beyond types |
|---|---|
| `DispatchConstants` | rider keys are numbers (`_rank` breaks ties by them); the grain of distances is positive |
| `CheckoutConstants` | product keys are numbers (rows are locked in their order) |
| `OrderRowConstants`, `SessionsConstants`, `AdminsConstants`, `LocationConstants`, `AccountConstants`, `NullIsNoRow` | |
| `PushConstants` | there are finitely many handsets, and a batch is not empty |
| `StorefrontConstants` | a day is not empty, opening hours are times of the day, fees and the minimum are not negative |
| `BooksConstants` | a report's default window has at least a day |
| `CatalogueConstants` | rows of one table are not rows of another; no file is called "no image" |

No assumption bounds how many orders, products, requests, riders or images there
are, and the bounds the runs need (`MaxOpen`, `MaxTime`, `MaxEdits` and so on) may
be any number.

**Dispatch** (`DispatchProofs`). `TypeOK`; then `NoRiderInStore` is inductive
with it, once the conjunct is added that a transaction in flight holds an order
whose move to Ready is still allowed, because nobody else can move a locked
order. `RiderOnRecord` and `ImplementsCustody` hold until a rider is deleted
outright (`Erased`), which is for ever. That a step maps to a step of `Custody`
is shown handler by handler. `NearestIsOne` says that the ranking has one head,
whatever the roster: take the least rounded distance, then the least key at it.
So `CommitReady`'s choice among `Candidates` is none. What rounds to no more is
nearer up to the grain (`RoundedWithin`), and `NobodyIsPassedOver` follows, the
half about waiting orders included.

**One order's row** (`OrderRowProofs`). The inductive invariant is the three
checked ones plus `Progress`: which stamps each status implies. Without it a
delivery from Dispatched could precede packing. The action properties and the
refinement follow from it.

**Checkout** (`CheckoutProofs`). The invariant's heart is `Reads`: what a
transaction remembers of a row it holds is what the row says. `NoOversell` needs
it because stock is written as an absolute count. `Returning` says an order whose
return has begun is still returnable, `Fresh` that an attempt that was not
answered has made no order. `Conservation` is about a sum over the orders that
have goods out; its invariant adds that there are finitely many of them
(`Accounts`), and each handler's effect on the shelf is set against its effect on
the sum by `Sums`. `NobodyWaitsInACircle` rests on `InOrder`, what a transaction
holds comes before what it still wants, and on finitely many rows being held: of
the rows that somebody waits for take the highest; whoever holds it waits for
none, or it would be a higher one.

**Accounts** (`AccountsProofs`). *Sessions.* The ceiling: a token expires no
later than its sign-in, the ceiling and one life, since renewal copies the start.
Generations: nothing in flight is newer than the row, what was retired is older;
true where nobody saves a stale version, so for staff and customers and, as
`sessions_logout` shows, not for riders. Secrets: what carries the current
version carries the current secret; staff only, for whom both change in one
transaction under the row's lock. The kind of the account is a variable that
never changes, so one specification covers the three. *Admins.* What a
transaction read of the row it holds stays so (`Rows`), whence edits are serial.
Unless two transactions that take an Admin away overlapped, one at most is past
the guard, and an Admin other than its target remains (`Guarded`).

**Handsets** (`HandsetsProofs`). *Location.* What a request has read may be out
of date but was true once (`ReadsWereTrue`), which `carried` remembers; an order
that is out is with somebody who has carried it (`OutWithSomebody`). That the end
closes every channel is a property of steps: no request about the order can
begin, and those of other orders do not touch it. *Push.* A token is once among
the messages of an event, they leave the hook only with a commit, what has been
posted is not among the rest, and the tickets that say dead are about dead tokens
(`SendOK`).

**Customers' histories** (`CustomerAccountsProofs`). Each of the two pieces of
evidence is carried along from where it arose: the token, from the link of an
order to its account (`LinksAreHeld`, `RequestsAreSound`); the text, from the
challenge that names its code to the stamp (`CodesAreTexted`, `StampsAreEarned`).
One account per number makes histories disjoint.

**The shop and its books** (`ShopProofs`, first part). `BooksInv` says of every
row, committed or waiting for its commit, when it was placed and paid (`Dated`)
and what it cost (`Billed`), of a waiting row that it is a new order or the
delivery of an open one (`Continues`), of every request what it may hold, and
what the gate let in; the pause, the hours, the
bill and the price of an order follow. The proof of `BillKeepsItsWord` turned up
its one condition: a shop without a minimum that sells goods worth nothing
charges no delivery for them while the cart still names an amount that is
missing (`api/pricing.py`), hence `bill.items > 0`. The reports are proved
from what they are functions of: the figures of a report depend on the orders
only through the table of those whose window they fall in (`Table`). A closed
window stays closed, because what is written from now on is dated now. Then that
table does not change by any step: a row that commits is dated elsewhere, and
what ends without a payment was open. Deleting a rider changes who is named in
rows and no date or amount (`Forgets`), which is enough for the till; the lines
by rider need that it did not happen (`~Erased`), and an order whose rider was
never deleted names him (`Dated`). So every
statement of a report that began when its days were settled reads the same table
(`SettledInv`), totals are sums over it and its lines are the same sums by key
(`TotalByKey`): `SettledReportsAgree` and `ClosedBooksStayClosed`.

**What the shop shows** (`ShopProofs`, second part). `CatalogueInv` adds to the
types where the images are that rows and requests speak of: stored, removed, or
given a second time (`Known`); that an image given just once is shown by no second
row, that an edit or a deletion that has read it can take it from no other, and
that nobody shows it once it goes (`ShownOnce`); and what a run of the migration
need not move or has yet to (`Progress`). `ShownOnce` is inductive because only
what is given anew can bring a second row, and that counts as reused.
`ShownImagesExist` and `NothingLeftBehind` follow; `FiledStaysFiled` is a
property of steps and needs the types only.

**Sums.** The library's induction theorems take an operator and no installed
prover can supply one. Its theorem on minimal elements takes sets, and strict
inclusion among the subsets of a finite set is well-founded: that gives
`SubsetInduction`, and from it come that the recursion behind `MapThenSumSet` has
one solution, how a sum changes with one element, and `TotalByKey`, that a total
is the sum of the subtotals of its groups.

The type invariants are proved and no run spends time on them; so are
`NoOversell` and `RestockedOnlyFailed` of `Checkout` and `EndIsExplained` of
`OrderRow`. Every other property of a run that is expected to pass is stated by a
theorem, but for the four liveness properties: `WaitingResolves`,
`EverybodyIsAnswered`, `PositionsGoForGood` and `LaunchHeals` are only
model-checked, since liveness under fairness is out of this prover's reach.
`NobodyWaitsInACircle` is what the proof has of the second.

## Not modelled, and why

Signature checks, hashing and formats; distances (constants of `Dispatch`) and
the delivery radius of a checkout; audit rows and logging; the wording of
notifications; in `Checkout` the gates before the product locks, which are one
refusal that may always happen (`Storefront` has the shop's hours and the
minimum); creating accounts and catalogue rows beyond the columns above;
throttling, on which rests that nobody guesses a code; of the reports the shares
of categories, the inventory, durations and the order of lines. `PROJECT.json`
("components") has the reason for each part.

## Plan

Done: every module above with its run, and a theorem for each property that is
not about liveness. There are twelve runs and forty checked properties and are to
be no more: what comes next replaces something weaker.

1. The radius of a checkout as a third gate of `Storefront`, with its theorem.
2. A refinement of `Checkout`'s places to `Custody`, with its theorem.
3. Categories' shares and the inventory in `Books`, on `TotalByKey`.
