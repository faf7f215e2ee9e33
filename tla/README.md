# Specifications of the i-dolly backend

TLA+ models of the i-dolly backend (FastAPI, SQLAlchemy, PostgreSQL, Celery, Redis): a site that
sells concert tickets by lottery and directly, and merchandise through a shop. The modules are
translated from `src/app` and from the triggers and constraints in `src/alembic/versions`. TLC checks
them on small instances; TLAPS proves for every instance each safety property that a passing run checks, the refinement
of the abstract promise of ticketing included. Where the repository promises more than its code keeps, a config refutes the promise
(section 6) and a property states exactly what remains of it. Liveness is model-checked only.

`PROJECT.json` maps every definition to the lines it stands for and lists runs, mutants, hazards,
findings and theorems. Run anything with

    tlc -workers 2 -config MCSales.cfg MCConcertSales
    tlapm ConcertProofs.tla

## 1. The system

Every request is one handler with one database session and, with few exceptions, one commit. There is
no in-process shared state: requests, webhooks and Celery workers interact through rows and through Redis. PostgreSQL
runs at its default level, READ COMMITTED, so what a handler read before it took a lock may be stale,
and a handler is atomic only for the rows it locks before it looks.

| component | state | operations | interacts with |
|---|---|---|---|
| lottery preferences | `lottery_preferences` | set, clear the ranking of a concert | reads campaigns (`FOR SHARE`) and entries |
| lottery entries | `lottery_entries` | apply to one campaign or to several | campaign (`FOR SHARE`), live tickets, ranking; cap and preference triggers |
| lottery draw | entries, tickets, `sold_quantity`, campaigns | schedule a draw, draw a concert (Celery task), notify | ticket types and campaigns (`FOR UPDATE`); cache and notices after the commit |
| ticket sales | `tickets`, `payments`, `ticket_types` | direct checkout, payment of a win, lazy expiry, PayPal completion by browser and by webhook | user, ticket, ticket type and payment rows (`FOR UPDATE`); one-ticket trigger |
| concert administration | `ticket_types`, campaigns, `tickets` | resize, add, edit, delete; admin edits of tickets | capacity trigger; no locks |
| shop | `products.quantity`, `cart`, `orders`, `orders_items`, `payments`, `shipping_status` | cart, checkout, PayPal completion, cancel, ship, admin override | product rows (`FOR UPDATE`); resale-cap trigger with an advisory lock |
| PayPal client | at PayPal | create, capture, webhook | called while row locks are held |
| identity | `users`, `refresh_tokens`, emailed links | signup, verify, login, rotation, logout, reset, promote, delete | deleting a user touches every table that names one |
| talent | companies, groups, idols, colours, positions | CRUD by admins and managers, deactivation, scoped pages | catalogue, concerts, cache |
| catalogue | categories, products, album and merch details, genres | CRUD, scoped pages, ownership | talent, orders, cache; exclusive-kind triggers |
| concerts and venues | venues, concerts, performers | CRUD, soft delete | talent, ticketing, cache |
| read cache | Redis pages | get, build, store, expire, delete | each handler deletes pages after its commit |
| rate limiter, inquiries | Redis counters, `inquiries` | count and expire; submit, confirm by email | |
| image storage | files on disk or in a bucket | save a picture, name it in a row | idols and products |
| shipping addresses, FAQ, email, tax, seed scripts | own tables | CRUD, output | not modelled (section 7) |

What is hard in it:

- **concurrency**: two requests of one fan, fans against a draw, two draws, the browser's capture against
  the webhook, two logins, a login against a reset; checks that read before they lock; deadlocks by foreign-key locks;
- **ordering and time**: entry windows and payment deadlines that pass between two steps, payments that are
  captured long after the checkout that opened them, staff who resize what is being sold by totals they read before, readers that store a page after
  the write that outdated it;
- **counters**: `sold_quantity` is maintained in four places and `products.quantity` in two;
- **ownership**: groups, idols and products come, change and go, and several places resolve whose a row is;
- **all-or-nothing**: one bad entry fails the draw of a whole concert;
- **failure**: a capture that PayPal performs and the database does not record; a crash between a commit and the
  deletes or notices that follow it; an upload that stops half-way.

The properties that make each part correct are listed with the runs below; `hazards` in `PROJECT.json`
ties each to the line where it could go wrong.

## 2. Modules

| module | what it models |
|---|---|
| `ConcertState` | the rows of one concert that the ticketing services share, their types and shared lookups |
| `Lottery` | rankings, applications and the draw, one action per handler |
| `TicketSales` | direct checkout, payment of a win, expiry, PayPal completion, one action per handler |
| `ConcertAdmin` | what managers and admins do to ticket types, campaigns and tickets on sale |
| `ConcertSales` | composes the three over `ConcertState`; states the properties of ticketing and of the pages that show it |
| `SeatAllocation` | the abstract promise: seats are handed out, paid, released, resized |
| `LotteryTransactions` | rankings, applications, checkout and draw again, SQL statement by SQL statement, with row locks, snapshots and deadlock victims |
| `Orders` | the shop: carts, checkout, resale cap, stock, PayPal completion, cancelling and shipping |
| `PaymentCapture` | the capture of PayPal payments by browser and webhook, lock by lock, with PayPal as a party, and faults between its steps |
| `RowLocks` | row locks and deadlocks of PostgreSQL, used by the two statement-level models |
| `Identity` | accounts, roles, refresh tokens, password resets and email links |
| `Talent` | companies, groups, idols, colours, positions |
| `Products` | categories, products with album or merch details, genres, the two resolvers of a product's company |
| `Concerts` | venues, concerts, performers, ticket types and campaigns as staff edit them |
| `ReadCache` | the cache-aside pages and the handlers that delete them |
| `Site` | the routers of talent, catalogue and concerts: who may call what, and which pages each deletes |
| `DrawNotices` | scheduling a draw, its Celery task, its notices and their failures |
| `Contact` | the rate limiter and the contact form behind it |
| `Uploads` | saving a picture and naming it in a row |
| `Accounts`, `Backend` | compose the nine above: each behaviour exercises one part |
| `ConcertProofs`, `LotteryProofs`, `SeatProofs` | theorems about `ConcertSales`: seats, tickets and money; the draw and the results pages; the refinement |
| `TransactionProofs` | theorems about `LotteryTransactions` |
| `OrdersProofs` | theorems about `Orders` |
| `CaptureProofs` | theorems about `PaymentCapture` |
| `BackendProofs`, `AccountProofs` | theorems about `Backend`: the site; sessions, notices, confirmations and pictures |
| `MC...` | instances for TLC |

### Ticketing

`ConcertState` has one variable per column the properties need. A row that does not exist has the status
`"none"` (`"absent"` for a campaign), so creating a row is a change of status. Time is what the code
compares: an entry window is upcoming, running, exactly at `entry_end_at` or closed (the code's two
comparisons, `now > end` for entries and `end > now` for draws, both let the boundary pass), and a payment
deadline is none, ahead or past. `rank` is a fan's rank of a tier, 0 if unranked.

Actions carry the name of the handler. A check the handler makes is a conjunct; a refused request
changes nothing and is left out, except where the refusal itself commits something (a late payment
expires the ticket: `CheckoutWonTicketTooLate`, `FinalizeTooLate`). Triggers and CHECK constraints
are conjuncts where the handler does not already imply them: `chk_ticket_types_capacity` is the guard of `CommitResize`,
for a resize compares with a `sold_quantity` it read without a lock (`CheckResize`) and others sell before it commits. The random sample of the draw is any
subset of the right size; the order of campaigns, which the query leaves open, is any order.
A ticket carries the entry it was drawn for (`entryOf`, the column `lottery_entry_id`), by which the results page joins;
it loses it with the campaign, and an admin may issue a ticket for any entry.

A checkout carries a gateway: `mock` answers at once, approved or declined; `paypal` leaves the payment pending
until it is finalised by the browser or the webhook, in any order and at any later time. Finalising locks the payment row
first, so the two callers are one action that may be tried by each; the loser finds the payment no
longer pending.

### Atomic and statement-level models

`ConcertSales` treats each handler as atomic. That is sound for ticket sales, which lock what they decide on;
the resize of a ticket type, which locks nothing, takes two steps there.
It is *not* obvious for the lottery, where a handler reads under no lock, `FOR SHARE` or too late.
`LotteryTransactions` is the model for that question: each action is a SQL statement that
sees what is committed at that moment; locks are taken one by one and held to the end; a transaction in a
waiting cycle may be aborted. Any number of requests of one fan may be in flight. Three variables of history (`appliedTwice`,
`rankedMeanwhile`, `boughtMeanwhile`) remember which fans had an application in flight beside another application, a ranking or a
purchase of theirs: the only meetings that separate the two models. `EntriesKeepRanks`, `EntriesStaySingle` and `PathsStayApart`
say that each promise of the atomic picture breaks after its own kind of meeting and no other; section 6 shows that after it, it does.

In `Orders` checkout and capture lock the products and commit once; the cart is read before the lock
(`ReadCart`, then one of the outcomes), and cancelling, shipping and the admin override, which lock nothing, are
two steps each: accept what was read, write later (`Accept`, `Write`). A fulfilment write overwrites the
column, as SQLAlchemy does with the attributes that were assigned.

`PaymentCapture` opens up what `TicketSales` and `Orders` take as one step. A request (browser, webhook, a checkout, a
draw or a shipment that meets it) has a next step and the row locks it holds; locks are taken one by one in any order
the step allows. `paypal` is what PayPal knows of a payment, `events` what it wants acknowledged. PayPal captures
an approved order once; every other capture is refused (422), and the request fails with a 500. A
process may die, a commit may fail or an answer be lost at any step (`Crash`, `AnswerLost`, bounded by
`MaxFaults`); `Unreachable` is a call that never reached PayPal. Handlers outside the question (opening a
payment, cancelling, expiry, other buyers) run in one step, when no lock is in their way. The row being paid for is a
*subject*: a win, a direct ticket or an order; several payments may be open for a win. A draw locks the ticket types of the
concert one after the other, then the users it notifies; it is the third party of the waiting cycle that a win's capture can be the victim of.

### The rest of the backend

`Talent`, `Products` and `Concerts` have one variable per table, with the columns that say whose a row is, whether it is
active and what it refers to; a row is a record or `Absent`. One handler is one step, since each commits once; the exception is a new album or merch
detail (`AddAlbumDetail`, `AddMerchDetail`, then `CommitDetail`), whose trigger looks for the other kind under no lock. The deletes
follow the foreign keys: `CASCADE`, `SET NULL` or a refusal, and what SQLAlchemy's unit of work does before them. `Site` adds
what the routers add: the role and company a handler demands, and the pages it deletes after the commit.

`ReadCache` watches one page, any of the eighteen. `Reads` has the tables each page is built from (translated from its
queries), and each handler of `Site` names the tables it wrote and the pages it deletes; what TLC compares is
whether the two match. A reader that misses builds the page, and stores it later (`Build`, `Store`); a handler owes its
deletes until it makes them (`Delete`) or dies (`LoseDelete`). Of a copy only what it lacks is kept (`Freshness`).
`Shows` has, of the tables a page reads, those the comments at the deletes say it follows; `Reads` also has rows the page
embeds from elsewhere. `PagesFollowRows` is about the first, `InvalidationComplete`, which is false, about all (section 6).

`Identity` takes the steps of a login, refresh or reset one by one: the check, the snapshot of the UPDATE that
revokes the user's tokens, its wait for row locks, the commit. `DrawNotices` takes the steps of a draw's request and task one
by one, because each commits or calls Redis and anything after a commit may fail. `Contact` separates the counting of an
inquiry from its commit; `Uploads` writes a file chunk by chunk before its name is committed.

`Backend` composes them. The parts share no row but those a part already includes (accounts are part of the notices of
draws, rows of artists are part of the catalogue), so a behaviour exercises one `part`, chosen in `Init`, with the rows of
the others as they were found. Their products would multiply the states without a new interaction.

## 3. Runs

| run | config | asks | distinct states |
|---|---|---|---|
| `lottery` | `MCLottery.cfg` | Is the draw fair and complete? | 96,729 |
| `sales` | `MCSales.cfg` | Do tickets, money and pages agree, and is `SeatAllocation` implemented? | 181,400 |
| `staff` | `MCStaff.cfg` | Do the seats and the results page survive managers who resize and edit meanwhile? | 1,651,200 |
| `transactions` | `MCTransactions.cfg` | Which meetings of two requests of a fan break what, and does a draw see everything, by statement? | 685,777 |
| `orders` | `MCOrders.cfg` | Do stock, cap and payments agree in the shop? | 790,115 |
| `capture` | `MCCapture.cfg` | Does PayPal get its answer at last, with faults and deadlocks? | 67,482 |
| `capture_faults` | `MCCaptureFaults.cfg` | Does the fan pay once and in time, and what survives crashes, lost answers and deadlocks? | 1,281,120 |
| `backend` | `MCBackend.cfg` | Do ownership, references, sessions, notices, caches and limits hold in the rest of the backend, and do pages and draws end well? | 290,130 |
| `ticket_admin`, `race_ranking`, `race_cancel_ship`, `capture_deadlock` | | where the code contradicts its documents (section 6) | |

Properties of the passing runs:

- `lottery`: `PendingEntriesRanked` (no pending entry loses its rank, for the draw would raise on it), `LosersHadNoSeat`,
  `HigherRankFirst`, `DrawIssuesOneTicketPerWinner`: what a draw may never do, as action properties.
- `sales`: `ChargedAtMostOnce`, `PaidMeansCharged` (including that `payment_id` names the payment that took the money),
  `PagesAgree` (every winning entry has exactly one ticket on the results page, of its fan and tier, no losing entry has one, and who is
  shown on the concert page as a winner with a ticket paid for a win), `ChargesAreTimely`, the refinement
  `ImplementsSeatAllocation`, `TypeOK`.
- `staff`: `SeatAccounting` (`sold_quantity` is the number of tickets that occupy a seat), `SeatsWithinCapacity` (no tier sells more than
  it has, whatever is sold between the check and the commit of a resize: the CHECK constraint may fire, and only on the resize),
  `OneLiveTicket`, `PagesAgree` with campaigns that are reopened, drawn twice or deleted.
- `transactions`: `EntriesKeepRanks`, `EntriesStaySingle`, `PathsStayApart` (see above), `NoEntryLeftBehind` (none stays pending in a drawn
  campaign, whatever meets), `DrawSeesFinalRankings`, `DrawSucceeds` (a draw fails only as a victim of a deadlock, or on an entrant
  whose application met another request of theirs).
- `orders`: `StockAccounting` (what left the stock is what was paid for), `NeverOversold`, `ResaleCapHeld`,
  `PaymentsMatchOrders`, `CancelledIsNotCharged`.
- `capture`: `EventuallyAcknowledged` (PayPal's events are acknowledged at last, browser or not, unless a capture was undone after
  PayPal answered it, for which PayPal has no second answer).
- `capture_faults`: `SuccessIsCaptured` (no success without a charge), `ChargedWhileOpen` (money is taken only for what is open and
  has no other success, recorded or about to be) and `AcknowledgedIsSettled` (an event is
  acknowledged only when nothing is left to do or it cannot be done): what holds whatever fails. That all money taken is recorded is
  false, with faults (docs/bugs.md #8) and without (section 6).
- `backend`, by part:
  - site: `IdolGroupSameCompany` (whatever is added, edited, deactivated or deleted, an idol's group is of its company), `ResolversAgree` (the two
    ways of finding a product's company agree, so that a manager may edit, ship and see the sales of exactly what is listed, but for
    products whose album and merch detail were inserted at the same time), `PagesFollowRows` (a page behind a row it follows
    is about to be deleted), `EventuallyCurrent` (whatever was lost or overtaken, the page served is current at last);
  - sessions: `LoneRequestEndsSessions` (a login or reset that overlaps no other ends all other sessions);
  - notices: `ResultsAreTrue` (nobody is told both results of a draw, "completed" is said only of a committed draw, a finished task
    has told every manager who was told of its start), `DrawsEnd`;
  - contact: `CapNeedsMeeting` (more confirmations than the cap go out only when one was sent by a submission that overlapped another);
    uploads: `PictureIsWhole` (a row never names a partial file);
  - `TypeOK`, which includes that every foreign key names a row that is there, deletes of accounts during a login included.

### Bounds

- `lottery`: three fans, two tiers of one seat, one tier with two campaigns: enough for a fan to be
  outranked, to lose a sample, to be passed over because they won elsewhere, and for a second campaign
  to find the tier full. There is no gateway in this run, so the three fans fit.
- `sales`: two fans, two lottery tiers and a direct tier of one seat, two ticket rows per fan and two payment keys in all: the
  last seat is contested; a declined or expired ticket is followed by a new one; two payments of one ticket are open at once.
- `staff`: one lottery tier, one campaign, one key, quantities 1 and 2, so that a total can fall to and rise from what
  is sold; one resize between its check and its commit at a time (`OneResize`): the check concerns its own tier and the sales since; campaigns are deleted, added again, reopened and drawn twice.
- `transactions`: two requests of one fan, one of another, two draws, from any campaigns drawn and any rankings and
  entries made before (`Init`, which only shortens the traces); a request may follow
  another without limit. The constraint `SmallScene` leaves the scenes the properties are about: one fan alone with two
  tiers and two concurrent draws; one fan in one tier with two requests at a time until they have met in one of the three ways, which is when
  that way's property stops and the other two must go on; or two fans who compete in one tier against one draw at a time. The
  proofs have no such bound.
- `orders`: three checkouts, two of one fan, three units, cap 2 (`RESALE_CAP_QUANTITY` is 3; two orders of
  two exceed either), at most `MaxInCart` = 2 units of a product in a cart and `MaxAtDesk` = 1 fulfilment
  request in flight in the passing run, two in `race_cancel_ship`.
- `capture`: one payment of a win, one browser call, one webhook call, one checkout of the fan and one draw in flight, each repeated
  without limit; one crash or lost answer (`MaxFaults`) and one call that does not reach PayPal (`MaxUnreachable`).
- `capture_faults`: two payments of a win, or one of an order, in a behaviour (`Scene`), and one failure of either kind; a checkout and a
  draw in flight beside the callers of the win, a shipment beside those of the order.
- `backend`: two companies with a manager each and an admin, two groups, two idols, two products, two concerts, one of them with two kinds of
  tickets. One row of each moves while the second is made, and a company without rows can take over or be deleted. At most `MaxRowWrites` = 3
  handlers write in a behaviour that watches the rows (make, move, and the step that finds them apart), `MaxPageWrites` = 2 in
  one that watches a page, with one reader and `MaxOwed` = 2 handlers that have yet to delete: the reader may be overtaken by one while the
  other has not deleted yet. Which handlers write which tables is independent of the number of writes. Two requests and
  three tokens: two logins overlap a session there was. Two draws and one fault of Redis, database or worker (`MaxFaults`).
  Two senders, a window of two requests, five inquiries an hour (`MaxRecent`) against a cap of three. Two uploaders, three names.

Symmetry is declared over fans, attempts, keys, draws and interchangeable campaigns or orders, which `Init`, the
actions and the properties treat alike, and only where no liveness property is checked.
`CHECK_DEADLOCK FALSE` stands in every config: when every row id and key is used and every window is closed there
is nothing left to do, and the system may stop at any time. Deadlocks of transactions are modelled
explicitly (`Deadlocked`, `DeadlockAbort`).

Every property of a passing run has a mutant in `PROJECT.json`: a bug in one handler that breaks it. The mutated
operators stand in the modules, marked `mutant`, before the definition they would replace.

## 4. Fairness

Two specifications assume fairness.

`FairSpec` of `PaymentCapture` has weak fairness on the steps of a request that runs (a
process goes on, PayPal answers within the timeout), strong fairness on taking a row lock (PostgreSQL grants a row to its waiters in
turn, so one that finds it free again and again gets it) and strong fairness on each webhook delivery (PayPal delivers an event
again until it is acknowledged; it gives up after days, which the model does not count). Nothing is assumed of the fan,
the browser, the clock or other buyers.

`FairSpec` of `Backend` has weak fairness on the expiry of a key (Redis removes it), on a reader that has built a
page (it stores it or ends without) and on the steps of a draw's request and task (each goes on or fails). That a handler gets to
delete a page, or that nobody writes, is not assumed; `EventuallyCurrent` is about the time after the last write, which the
bound on writes supplies.

The other specifications assume none, for nothing in the code is scheduled: there is no sweep of unpaid wins, abandoned PayPal
payments or orders, and campaigns are drawn when a manager asks. "Every win is paid or its seat released"
is therefore false by design, and is listed as a hazard. What can be said is said as safety: an entry is never left
where no draw will see it (`NoEntryLeftBehind`), a late payment never takes a seat (`ChargesAreTimely`).

## 5. Proofs

| theorem | module | states | for |
|---|---|---|---|
| `TypeCorrect` | `ConcertProofs` | `[]TypeOK` | `Spec` |
| `Invariant` | `ConcertProofs` | `[]IInv` | `Spec` |
| `SeatsAreAccounted` | `ConcertProofs` | `[]SeatAccounting` | `Spec` |
| `OneTicketPerFan` | `ConcertProofs` | `[]OneLiveTicket` | `Spec` |
| `PaidIsCharged` | `ConcertProofs` | `[]PaidMeansCharged` | `Spec` |
| `ChargedOnce` | `ConcertProofs` | `[]ChargedAtMostOnce` | `Spec` |
| `ChargesInTime` | `ConcertProofs` | `ChargesAreTimely` | `Spec` |
| `NeverOversold` | `ConcertProofs` | `[]SeatsWithinCapacity` | `Spec` |
| `EntriesStayRanked` | `LotteryProofs` | `[]PendingEntriesRanked` | `Spec` |
| `RanksAreRespected` | `LotteryProofs` | `HigherRankFirst` | `Spec` |
| `NoSeatIsWithheld` | `LotteryProofs` | `LosersHadNoSeat` | `Spec` |
| `WinnersAreIssuedOneTicket` | `LotteryProofs` | `DrawIssuesOneTicketPerWinner` | `Spec` |
| `PathsStayExclusive` | `LotteryProofs` | `[](PathsExclusive /\ NoEntryLeftBehind)` | `FanSpec` |
| `ResultPagesAgree` | `LotteryProofs` | `[]PagesAgree` | `Spec` |
| `SeatsAreAllocated` | `SeatProofs` | `ImplementsSeatAllocation` | `Spec` |
| `NoneLeftBehind` | `TransactionProofs` | `[]NoEntryLeftBehind` | `Spec` |
| `EntriesStayRanked` | `TransactionProofs` | `[]EntriesKeepRanks` | `Spec` |
| `OneEntryEach` | `TransactionProofs` | `[]EntriesStaySingle` | `Spec` |
| `PathsExclude` | `TransactionProofs` | `[]PathsStayApart` | `Spec` |
| `DrawsSucceed` | `TransactionProofs` | `DrawSucceeds` | `Spec` |
| `DrawsSeeFinalRankings` | `TransactionProofs` | `DrawSeesFinalRankings` | `Spec` |
| `ShopInvariant` | `OrdersProofs` | `[]OInv` | `Spec` |
| `NothingOversold` | `OrdersProofs` | `[]NeverOversold` | `Spec` |
| `OrdersMatchPayments` | `OrdersProofs` | `[]PaymentsMatchOrders` | `Spec` |
| `CancelledNotCharged` | `OrdersProofs` | `CancelledIsNotCharged` | `Spec` |
| `StockAccounted` | `OrdersProofs` | `[]StockAccounting` | `Spec` |
| `ResaleCapNeverExceeded` | `OrdersProofs` | `[]ResaleCapHeld` | `Spec` |
| `SuccessesAreCaptured` | `CaptureProofs` | `[]SuccessIsCaptured` | `Spec` |
| `AcknowledgementsAreSettled` | `CaptureProofs` | `AcknowledgedIsSettled` | `Spec` |
| `ChargesAreWhileOpen` | `CaptureProofs` | `ChargedWhileOpen` | `Spec` |
| `IdolsMatchGroups` | `BackendProofs` | `[]IdolGroupSameCompany` | `Spec` |
| `InvalidationsReachEveryPage` | `BackendProofs` | `[]PagesFollowRows` | `Spec` |
| `CompaniesOfProductsAgree` | `BackendProofs` | `[]ResolversAgree` | `Spec` |
| `ReferencesHold` | `BackendProofs` | `[]RefsExist` | `Spec` |
| `SessionsStayBounded` | `AccountProofs` | a user has at most as many sessions as requests can be in flight | `Spec` |
| `LoneRequestsEndSessions` | `AccountProofs` | `LoneRequestEndsSessions` | `Spec` |
| `NoticesAreTrue` | `AccountProofs` | `[]ResultsAreTrue` | `Spec` |
| `ConfirmationsStayCapped` | `AccountProofs` | `[]CapNeedsMeeting` | `Spec` |
| `PicturesAreWhole` | `AccountProofs` | `[]PictureIsWhole` | `Spec` |
| `TypesHold` | `AccountProofs` | `[]TypeOK` | `Spec` |

`Spec` is that of the module the proofs are about. No theorem has a hypothesis besides the named assumptions on the constants; what the code
keeps only for requests that do not meet is said in the property itself, with the meeting that breaks it.

**Ticketing.** From `ConcertAssumption` alone (finite sets of fans, attempts, campaigns and lottery tiers; lottery and direct tiers
disjoint; every campaign has a lottery tier; initial totals among the quantities; null values outside their sets), for
`Spec`, fans and managers together, with any number of each. `FanSpec` is `Spec` without managers: a manager who reopens a
drawn campaign leaves entries and tickets side by side, as the code lets them; only `PathsStayExclusive` needs it.

`IInv` is the conjunction of `TypeOK`, `SeatAccounting`, `OneLiveTicket`, `PaidMeansCharged` and two facts that
make it inductive. `RowsRefer`: a ticket row has a tier and a payment row has a ticket, so that a
payment cannot be finalised for a row that was never written. `PaidByTheSuccess`: the payment
that succeeded is the one `payment_id` names; without it, two successes could belong to one ticket
in an unreachable state and `ChargedAtMostOnce` would not follow. The argument has one lemma per handler.
Seats are counted with `FS_AddElement` and `FS_RemoveElement` for steps that move one ticket (`SeatTaken`, `SeatReleased`), and for the
draw by a bijection between the winners of a tier and their new tickets.

`CInv` adds `NotOversold`. A resize between its check and its commit is kept out by the constraint, which every other handler
implies. The hard case is the draw, which fills a tier in several stages. `DrawWithinSeatsLeft` picks
the last stage, in the order of the cascade, that awards a seat of the tier (`LargestExists`); the condition
of that stage bounds all seats awarded so far.

Of the draw, a loser's stage took its place in the cascade: either the fan had won before that stage, a tier ranked at least as
high, or the stage filled what was left (`StageFills`), after which the tier is full for good (`SeatsRunOut`). Both action properties
follow: for `HigherRankFirst` a winner of a later stage would have exceeded it. `WinnersAreIssuedOneTicket` needs that a row which was never
written has no deadline (`TInv`). `PathInv` carries `NoEntryLeftBehind` along with `PathsExclusive`: a draw
resolves all entries of the campaigns it draws, and only a draw may leave a fan with a ticket while an entry of theirs was in play.
`PageInv` says that a ticket that names an entry is its holder's, of the tier won, and the only one (`TicketsAreOfWins`), that every win
has its ticket, and that no winner has a live direct ticket (`WinsHaveTickets`; `HasUnresolvedEntry` bars the purchase): what `PagesAgree` needs of
the past. A campaign that is deleted takes its entries, and the tickets lose theirs, so nothing dangles.

The refinement maps a fan to the tier of the ticket that occupies a seat and to whether it is paid. `OneLiveTicket` makes that seat
unique (`SeatsAreOfTickets`); a step moves one fan or hands out many (`OneFanMoves`, `OneTicketMoves`, `SeatsHandedOut`), and the seats
taken are those counted in `sold` (`TakenAreSold`), so the bounds of `CInv` are those of the abstract steps.

**Statements.** From `TransactionsAssumption` (a fan for every request, requests are not draws). `LockInv`: locks exclude one another (`LocksExclude`), the campaigns an
application or a ranking counts on are open and locked by it (`ClaimsHeld`), a draw holds every tier and every open campaign
(`DrawHolds`). Hence while a request has claims no draw commits, and the other way round, which is all `NoEntryLeftBehind`
takes. `FanInv` adds what each transaction has read (`Sees`, `DrawKnows`): what a request read under no lock of its fan's rows stays true as long
as no other request that writes them was in flight beside it, which `HistoryInv` ties to the three variables of history; what a draw read stays
true because whoever could write it would need a campaign the draw holds. So each of the three ways to break a promise is proved to
be the only one, for any number of fans, requests, tiers and draws.

**Shop.** From `OrdersAssumption`. `OInv` adds to `NeverOversold` and `PaymentsMatchOrders` where an order stands (`OrderStages`: carts are read for
orders not made yet, fulfilment names orders that are), without which the late write of a cancellation could hit an order that
does not exist. The two sums over orders are folds over sets, about which nothing can be proved by induction on the set; the lemmas about them take a
smallest set for which they fail and remove an element (`SmallestSet`). `SumInv` is `OInv` with the two sums; a step pays for at most one order
or makes one, and changes the items of no order there was (`OrderedStays`).

**Capture.** From `CaptureAssumption`. `RecordInv`: a call at the commit has PayPal's answer, and PayPal does not change it (`AnswersAreFinal`). `LockInv` says which
locks a call holds at each step (`Past`, `Wanted`), that exclusive locks exclude, and that what was checked under them stays so
(`ChecksHold`). `ChargeInv` adds that a subject that was paid for is closed (`PaidIsClosed`). A capture holds its subject from the check to the
answer, so no other payment of it is at the commit, and what was open under the lock still is when PayPal takes the money.

**Rest.** From `SeedAssumption`, `IdentityAssumption` (requests in flight are finitely many), `NoticeAssumption`, `ContactAssumption`, `CacheAssumption` and
`FileAssumption`. `ArtistsInv` keeps the types of groups and idols and that members match their group (`MembersMatch`);
seven services write those rows, and every other handler is shown to leave them alone. `RowsInv` is the same for all rows of the site, references and the kinds of details included: counting what is
inserted and not committed, a product has one kind unless both were inserted together (`KindsApart`, `InsertsNew`). `PagesFollowRows` is inductive with the
types of the cache; its proof compares, handler by handler and page by page, the tables
written with the pages deleted. It first failed at `add_new_concert`, which the model had deleting too little for what it said it wrote: a new concert
shows in the list of concerts and in no other page; the table was split (`concert_list`), and a second concert added to the instance.

`SessionInv` bounds sessions by naming a different request slot for each session, one that will end it before it leaves
another (`Issued`): the pigeonhole is then a matter of cardinalities of a function's image. `NoticeInv`: all results told of a draw agree, and "completed" was committed. `ContactInv`
says that a confirmation sent by a submission that met no other is among the first of the hour (`AloneIsEarly`), because what such a submission
counted is all there is when it commits (`AloneKnows`). `UploadInv`: names in use differ, a saved file
stays whole until its row is committed, and nobody still writes the file of the row.

Only model-checked, because they are liveness under fairness, out of the prover's reach: `EventuallyAcknowledged`, `EventuallyCurrent`, `DrawsEnd`.
Induction over data and `RECURSIVE` operators are out of its reach too; no module with proofs uses one.

## 6. Where the code and its documents disagree

The first four are runs in which TLC finds the counterexample; the quotes are in `PROJECT.json`.

- `ticket_admin`: `PATCH` of a ticket's status revives a cancelled or expired ticket, and the trigger fires on INSERT
  only: two live tickets.
- `race_ranking`: the ranking is read before the campaigns are locked, and `FOR SHARE` does not exclude a
  second request of the fan: an entry without a rank, on which the draw of the concert raises.
- `race_cancel_ship`: overlapping cancellation and shipment both succeed.
- `capture_deadlock`: a capture and a direct checkout of the same fan wait for each other's row (ticket type, user); the capture
  may be the victim after PayPal took the money, and no retry can record it. With a draw in between, the same happens to the capture of a win (below).

Refuted by a config of their own, which is run by hand with the command at the end of each:

- `schema/events/lottery_campaign.py:21-22` says that the draw assumes one entry per fan and campaign, which the cap trigger enforces. Two applications of a fan, both under
  `FOR SHARE`, both count zero entries and both commit (`OneEntryPerFan`): `tlc -config MCRaceApply.cfg MCLotteryTransactions`.
- `services/events/ticket_service.py:122-131` makes the lottery and the direct sale either/or. An application and a direct purchase at once leave a pending
  entry beside a ticket (`PathsExclusive`): `tlc -config MCRaceCheckout.cfg MCLotteryTransactions`.
- The capture of a win is in a waiting cycle too, when a draw of the concert is sent again (it locks the ticket types before it looks for open
  campaigns): the capture holds the lottery ticket type and wants the
  fan's row for its notice; a checkout of the fan holds that and wants the direct ticket type; the draw holds that and wants the lottery ticket
  type. If the capture is the victim, the money is taken and not recorded (`CapturedIsRecorded`), as in `capture_deadlock`:
  `tlc -config MCCaptureWinDeadlock.cfg MCPaymentCapture`.
- `docs/database-design.md:1082-1086` and the trigger of migration `b60aec9ffc02:75-90` keep a product from having an album and a merch detail; the trigger
  selects under no lock, so two inserts that overlap both pass (`OneKind`), and a product is then of two companies:
  `tlc -config MCRaceDetails.cfg MCBackend`.
- `services/identity/auth_service.py:43` says "One active session per user". Two logins that overlap revoke the tokens they see and leave one each
  (`OneSession`): `tlc -config MCRaceLogin.cfg MCBackend`. `services/identity/user_service.py:52`, "Revoke all refresh tokens so existing
  sessions end", fails the same way. Both hold of requests that do not overlap (`LoneRequestEndsSessions`).
- `services/shared/inquiry_service.py:11-12,19-22` says that an address gets no email once it has received
  `CONFIRMATIONS_PER_ADDRESS` of them in the hour. Submissions that overlap count before the others commit, and one more is sent
  (`ConfirmationsCapped`): `tlc -config MCRaceInquiry.cfg MCBackend`.
- `cache/invalidation.py:75` says that every write that affects a concert's page deletes its key, and docs/api-spec.md:118 that pages are
  "invalidated on writes". Edits of idols, groups, colours and venues affect the page and do not delete it (`InvalidationComplete`); it shows the edit when it
  expires: `tlc -config MCEmbeddedRows.cfg MCBackend`. Other pages embed rows in the same way; `Reads` beyond `Shows` lists them.

Known without a property of their own:

- A PayPal order shipped before its capture goes back to `pending` with the capture (`FinalizeCompleted` of `Orders`) and can be
  shipped again; docs/bugs.md #26 knows it.
- Managers are told that a draw failed when anything after its commit raises, against the docstring
  at `services/events/concert_service.py:94` ("after rolling back the failed draw");
  `DrawNotices` has the step, and `ResultsAreTrue` promises no more than that nobody is told both.
- A fan promoted to a staff role while an entry is pending makes the draw of the concert fail, for `trg_tickets_fan_only` refuses the ticket.

## 7. Not modelled

Seed scripts (sample data), email and tax (output and one rounding function), shipping addresses and the answers of the FAQ (single
rows, which nothing relates); prices, texts, formatting, validation and serialisation; hashing and the encoding of
tokens; the token of the PayPal client. In the ticketing modules an action is taken by who may take it: roles and
their changes are in `Identity`.

Known hazards with no property, because the code neither prevents nor documents them away:

- the capacity trigger sums committed rows and takes no lock, so two ticket types added at once may exceed the capacity of a
  concert, and `update_concert` may lower it below the sum; `Concerts` takes a commit as one step;
- editing a product writes an absolute quantity over what checkouts took meanwhile; a product deleted while a checkout runs;
- the capture of an order locks its products in no order, and clears cart rows added since the checkout; two checkouts
  at once buy one cart twice;
- an album may credit an idol of one company and a group of another, and then is the idol's company's; a manager without a company has an empty orders page;
- deleting a ticket type takes its paid tickets along; a second campaign on a drawn tier locks the rankings that name the tier;
- a reset link works until it expires, however often; the fixed window of the rate limiter lets two windows' requests pass at its boundary.

## 8. Plan

1. *Done*: ticketing of a concert (atomic and by statement), its abstract promise and the proof that it is implemented; the draw's
   fairness; the shop; the capture of payments; identity, talent, catalogue, concerts, cache, notices of draws, contact form and
   uploads; the safety properties of all of them proved.
2. *Left to prove*: an abstract promise of the capture (money is taken at most once per subject, and recorded by whoever took it unless the call
   was undone) that `PaymentCapture` implements; that a product stays with its company while its details move.
3. *Left to model*: roles in the ticketing model, edits of products beside the shop, and the capacity trigger by statement.
