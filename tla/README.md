# Specifications of the license server

TLA+ models of the license server (`apps/license-server`), its admin console (`apps/license-admin`)
and its client library (`packages/license-client`), with the TLC configurations that check them on
small instances and proofs that hold for every instance.

## 1. The system

A seller's products are installed at customers. An install trades a purchase code for a
license and from then on asks the license server about it; between two answers it lives on a
signed proof it has cached. Sellers watch and revoke from a console in the browser.
Paths are under `apps/license-server/src` unless they start with `packages` or `apps`.

| Component | State | Operations | What makes it correct |
|---|---|---|---|
| License service (`license/license.service.ts`, `license.controller.ts`) | `PurchaseCode.usedActivations`, `License.status`, `lastSeenAt` | activate, verify, deactivate | no more slots taken than a code has, none lost; revocation is final and bites on the next request; proofs only of licenses that exist; a refusal changes nothing |
| Admin licenses (`license/license.admin.controller.ts`) | the same rows | revoke, test-match, lists | revoke and deactivate may overlap |
| Admin products (`product/product.admin.controller.ts`) | `Product` | create with its first key, rotate-key, update | a product with a row can come to sign |
| Signing keys (`signing-key/`) | `SigningKey` rows | createForProduct, rotate, choice of the signing key | the newest key signs, windows are whole |
| Public key endpoint (`product/product.public.controller.ts`) | none | getPublicKey | a key in use is served |
| Client calls and verdict (`packages/license-client/src/client.ts`) | the cached state, calls in flight | activate, verify, deactivate, localVerdict | revocation reaches an offline install; a locked cache is not revived; a cached proof can be checked |
| Client storage (`packages/license-client/src/storage.ts`) | the state file and a temporary one | read, write, clear | atomic under crashes |
| Webhook (`webhook/`) | `PurchaseCode` rows minted for orders | Lemon Squeezy deliveries | every paid order gets its code, once |
| Admin purchase codes (`purchase-code/`) | `PurchaseCode` rows | issue, revoke, CSV import | an import is complete or can be repeated |
| Domain matching (`license/domain-match.ts`, its copy in the client) | none | normalise, match | server and client agree |
| Throttling, abuse tracker, HMAC guard (`license/abuse-tracker.ts`, `license/guards/`, `crypto/hmac.ts`) | counters and blocks in memory | per request | windows, blocks, log entries |
| Admin authentication (`admin-auth/`) | the administrator's row, signed tokens | seed, login, change of password, guard | a password is taken only while it is the row's, whatever awaits bcrypt or restarts |
| Console session (`apps/license-admin/src/lib/api.ts`, `store/auth.store.ts`, `App.tsx`) | a token in each tab and in the local storage they share | load, sign in, sign out, refusals | a refusal means what it says; nothing is left for the next load to find |
| Console lists (`apps/license-admin/src/pages`) with the list endpoints and the check log (`log/`) | cached pages of codes, licenses and log rows | paging, filters, revoke, issue | what the console has reported is what it shows |
| Transactions and row locks | locks of `PurchaseCode` and `License` rows | the transactions of activate, deactivate, revoke | one step at a time to the outside; they end |
| Cryptography, wiring, dashboard and product pages, infrastructure | | | not modelled, see section 7 |

**How they interact.** HTTP handlers of one Node process share a Postgres database through
Prisma. A handler runs alone between two awaits, so requests interleave at database calls
only; what a handler read before an await may be out of date after it. Few of the writes are in
transactions (activate's, deactivate's, revoke's, rotate's); the others are single statements.
The client reaches the server over HTTP, may have several calls in flight, and keeps one state
that each call reads at its start and replaces at its end. The payment provider repeats
deliveries until it has a 2xx. The application that hosts the client, and the server, may die
between any two steps. The console's pages share one cache of query results, which a fetch, a
revocation and its invalidation write in any order; its tabs share the local storage only.

**What is hard.** Overlapping requests over a counter and the rows it counts; a check outside
the transaction it guards; answers older than the database; crashes between commit and answer;
late answers against a grace period; key rotation against proofs that are cached or under way;
repeated and overlapping deliveries; a file replaced by several system calls; row locks taken in
two orders; a password checked against a hash that is read before an await; fetches under way
while what they read is changed; a session spread over tabs. `PROJECT.json`
lists each hazard at its line, with the properties that would catch it.

## 2. Modules

| Module | Models | Interleaved steps |
|---|---|---|
| `LicenseService` | activate, verify, deactivate, admin revoke, product create, rotate-key, code issue and revoke | one step per database round trip, a transaction is one step |
| `SigningKeys` | createForProduct, rotate, signing key, served keys | a rotation's read, its writes, its commit |
| `LicenseClient` (extends `SigningKeys`) | the client's calls, cached state and verdict, and the server as the client sees it | request, server step, key lookup and check, write of the cache |
| `WebhookMint` | the webhook handler and the provider's retries | lookup, insert, answer |
| `CodeImport` | CSV import and manual issue | preload and each row; check and insert |
| `FileStorage` | `fileStorage` | open, write, rename, unlink, read |
| `AbuseTracker` | the abuse tracker and the activate handler around it | arrival, end of the activation, pruning, ticks |
| `DomainMatch` | normalisation and matching at server and client | activation, a question put to both |
| `AtomicStore` | what `LicenseStorage` promises, abstractly | call, effect, return |
| `LicensingTx` (extends `AtomicTx`) | the transactions of activate, deactivate and revoke | each statement, with the row locks it takes and waits for |
| `AtomicTx` | the same transactions, abstractly: what `LicenseService` takes in a step | a transaction is one step |
| `AdminSession` | the administrator's row, login, change of password, tokens and tabs | seeding; read and bcrypt; sending, answer and its receipt; each tab |
| `AdminConsole` | the console's lists and what they read and revoke | each of a page's two statements, the answer, revoke and its invalidation |

`MC*.tla` give the constants values for TLC. `X_proofs` holds the theorems about `X`;
`LicenseClient_proofs` holds those about `SigningKeys` too, and `PurchaseCodes_proofs` those about
`WebhookMint` and `CodeImport`, the two ways in which codes are made.

**LicenseService.** The tables are functions over fixed sets of products, codes and licenses. A
license is its triple (code, domain, fingerprint), which the unique index identifies; the status
`"NONE"` is a row that does not exist. A request is a record in `req[h]`: the operation, the await
it is suspended at (`pc`), its target and the local variables that later steps use (`full` is the
comparison of the slots made before the transaction, `snap` the license's status as read). The
history variable `wrote` has the requests that have changed a table: it is worked out from the
tables before and after each step, not from what the step says of itself. `ImplementsAtomicTx` maps
the tables to those of `AtomicTx`. `ActivateTx` is the interactive transaction: the increment takes
the row lock of the code, so the count compared after it is the current one, and a failure takes the
increment back. `ReleaseTx` is the transaction of deactivate and revoke, which does not look at the
status again. Committed reads are at once visible to others, as at READ COMMITTED.

**SigningKeys.** Rotation is split where another transaction may come between: `findFirst`
without an order returns any active key, the update waits for a transaction that holds the same
row, and both writes become visible together. The end of the retired key's window is fixed where the
code fixes it, before the update (`RotateRead`), and the key goes on signing until the commit. The day
may change once while a rotation is under way, which is ended or rolled back by the next: the
transaction is limited to seconds. `signedOn` has the last day each key signed on.

**LicenseClient.** The unit of time is the day. A proof is the status and key id it carries.
Requests and answers may be lost, and a request may outlive the client's interest in it
(`orphan`). verify reads the clock before it sends, activate after it has the proof. The server
takes a signed request for a minute, so on its day only (`InTime`).

**WebhookMint.** `Within[o]` are the events whose id text begins with that of `o`: the handler
looks for `lemon-squeezy:<id>` as a substring of the notes, so these events' codes are found
too. With ids of which one begins another, the answer to one event may be the code of another.
An event may be delivered again after it was acknowledged, as from the provider's dashboard, and
each call of the database may fail (`CallFails`), the insert with or without its row.

**CodeImport.** Codes are taken after upper-casing. A row with a limit that is not a number and a
code that is already in the table, for any product, make the insert throw; the import ends there
and its inserted rows stay.

**FileStorage.** Directory entries point to files; an open file survives the loss of its name.
The temporary name belongs to the process, not the call. `WritesApart` says that no two callers of one
process are both between the opening of that file and its renaming; `TurnsSpec` are the behaviours in
which it holds, `Spec` are all. `ImplementsAtomicStore` maps the file
at the state path to the abstract value, a write's effect to its rename and a read's to its open.

**AbuseTracker.** A map without an entry for an address has `NoCounter` or `NoBlock`. The request
is judged when it arrives (`Admit`, `Reject`) and counted when its activation ends
(`FailInNewWindow`, `FailCounted`, `FailBlocks`); any number of ticks may lie between. `Prune` may
come at any time. A rejected request that writes no row changes nothing and is no step. The
throttler is left out: it takes requests away, and what holds of all holds of fewer. The row that
announces a block is left out, as no state depends on it. The history variable `rowAt` has the time of
the last row a rejection left.

**LicensingTx.** A transaction is its operation, its license and the number of statements it
has made; the locks it holds are the rows of these. A statement waits while another transaction
has the row and then works on what it has become, as at READ COMMITTED. activate's insert takes
its entry of the unique index, so a repeated activate waits there for whoever works on the row.
What the handler found before the transaction (`Found`) may be out of date when it runs. Foreign
keys take only locks that do not conflict with these.

**AdminSession.** One server process is down, has counted the administrators, or is up and listens.
A login or a change is split at the bcrypt await (`Compares`). The history variable `chosen` has the
password chosen last, the seed until the first change and then what was changed to, and `since`
those that were it since a request was sent, so a row that goes back to the seed is noticed. `left`
has the tokens somebody has signed out of. A tab reads the local storage when it loads and never
again. The form of the password page may be submitted while a submission is under way, for the page
may be left and opened again.

**AdminConsole.** A query is a list, a filter and a page. Its entry in the cache has the data, a
mark of invalidity and at most one fetch. A page's rows and its total are read by two statements in
either order (`Promise.all`), with inserts and revocations between. How long data are fresh is left
open: what is not invalid may or may not be fetched again. Revocations and issues are numbered as
they are sent, and any number of them is under way, for no button is disabled meanwhile. The history
variables are `told`, what was reported as done on the page, and `byNext`, whether the page was
reached by Next.

**DomainMatch.** Case and surrounding blanks are gone from the labels at once, since every path
removes them first. A regular expression removes one dot, one port, one `www`; the order in which
they are applied is what the paths differ in.

## 3. Runs

| Run | Instance | Properties |
|---|---|---|
| `core` | two requests at a time, two installs, one code with one slot, a second product | `TypeOK`, `SlotsNeverOversold`, `SlotsNeverLost`, `DriftBounded`, `RevocationBites`, `ProofBacked`, `RefusalIsClean`, `AnswersAreDurable`, `RevokedForever` |
| `keys` | two rotations at a time, five keys, four days, a window of two | `NewestKeySigns`, `WindowCoversProofs`, `OneRotationIsCovered` |
| `client` | two calls at a time, one rotation at a time, three keys, days 0 to 2, grace of two | `RevocationOutlastsGrace`, `RevokedCacheNotRevived`, `CachedProofCheckable` |
| `webhook` | two events, one id a prefix of the other, two deliveries of each at a time, replays of acknowledged ones, three faults | `DuplicatesBounded`, `AckedOrderHasCode`, `EveryOrderAcked` |
| `import` | every file of three rows over two codes, an invalid row, a bad limit | `ImportComplete`, `AbortNeedsConflict`, `AnswerCountsNew` |
| `storage` | two callers in one process, whose writes take turns, and one in another, two states | `FileTypeOK`, `ImplementsAtomicStore` |
| `abuse` | one address, a threshold of three, four activations under way, eight ticks | `TypeOK`, `BlockEarned`, `RollingBound`, `GuessesBounded`, `LinesSpaced`, `BlockServed`, `StalePruned` |
| `locks` | three transactions over one code with one slot and two licenses; no symmetry, for a liveness property is checked | `CirclesNeedRepeats`, `ImplementsAtomicTx`, `EveryTxEnds` |
| `session` | two tabs, two requests at a time, two passwords, two tokens, one crash | `PasswordWasCurrent`, `NothingLeftBehind`, `SignedOutStaysOut` |
| `console` | one code and its license; no row of the log at first; pages of one row, one insert, two revocations or issues, two cached queries; the filter for revoked codes | `ConsoleTypeOK`, `ReportedIsShown`, `NextShowsRows` |

The type invariants of the modules whose runs do not list one (`KeysTypeOK`, `ClientTypeOK`,
`WebhookTypeOK`, `ImportTypeOK`, `TxTypeOK`, `SessionTypeOK`) are theorems.

Two runs check what a comment says and find it violated:

| Run | The comment | What the code does |
|---|---|---|
| `honest` | clients "with a stale baked-in kid can fetch the new key after rotation" (`product.public.controller.ts:6-8`) | verify checks the answer under the cached proof's key and refuses it after a rotation (`client.ts:94`) |
| `match` | "tell the admin whether a given host would be allowed" (`license.admin.controller.ts:137`) | the client strips dot and port in the other order (`client.ts:167`) and refuses `example.com.:80`, which the test admits; a domain with two `www` is normalised twice by the test and once by the client |

**Where the code does less than a reader may expect**, and the property that says what it does do:

- "Decrement clamped at 0" (`license.service.ts:262`): two releases of one license that overlap
  leave the counter at -1. `DriftBounded` bounds the drift by the revoked licenses and the number of
  requests under way.
- "we return the EXISTING one instead of creating a duplicate" (`webhook.controller.ts:30-32`): two
  deliveries that overlap each mint a code. `DuplicatesBounded` allows an order as many codes as it
  has had deliveries at one time.
- "Writes atomically via tmpfile + rename" (`storage.ts:4-5`): two writes of one process share the
  temporary file, and one may rename what the other has just truncated. Nothing in the client keeps
  them apart. `ImplementsAtomicStore` is checked and proved for the behaviours in which the writes of
  one process take turns (`WritesApart`).
- "Atomic: creates the product AND its first signing key" (`product.admin.controller.ts:111-115`): it is
  two writes without a transaction (lines 122 and 131). A restart between them leaves a product that
  cannot sign until an administrator rotates its key (`CreateProduct`, `CreateFirstKey`).
- "logged once per minute per IP" (`abuse-tracker.ts:9`): a late failure that renews a block resets
  `loggedAt` (line 81), so its first rejection is logged though one was a moment before. `LinesSpaced`
  speaks of the rows of one block.
- An activation that commits and then finds no active key is answered `NO_SIGNING_KEY`
  (`license.service.ts:176`). `RefusalIsClean` says of this one error that the license is there for
  the retry, and of every other that no table was changed.
- The window of a retired key is "30 days" from before the transaction's update waits and commits
  (`signing-key.service.ts:54`), not from the key's last proof. `WindowCoversProofs` allows for the day a
  rotation may cross, in the code its seconds.
- The comment of `abuse-tracker.ts` speaks of ten failures in a rolling window. A window begins
  with a failure and the next begins after it. `RollingBound` says what this gives: up to
  `2 * Threshold - 3` failures, 17 in the code, may lie within five minutes without a block; TLC
  finds one less to be too few.
- An activate that is repeated while the first is not done may wait for a transaction that waits for
  it, since one locks the code first and the others the license. PostgreSQL rolls one of them back.
  `CirclesNeedRepeats` says that no other activate is in such a circle, and `EveryTxEnds` that all
  end.
- Any 401 signs the tab out, the late one of an expired token and the answer to a wrong current
  password too (`apps/license-admin/src/lib/api.ts:24`, `admin-auth.service.ts:84`).
  So the refusal of an old token may end the session that was begun since; no property forbids it.
- The filter for exhausted codes picks them out of a page after it was cut
  (`purchase-code.admin.controller.ts:130`), so a page may be empty though later ones are not, and
  the console then draws no buttons. `NextShowsRows` is about the filters that no row leaves.

**What the bounds leave in.** In `core`, one slot, two installs and two requests are the smallest
instance with a race for the last slot, a double release, a stale status and a crash with another
request in flight; the slot theorems need no bound. Nothing in the model is counted, so the state
space is finite without constraints except for `usedActivations`, which `DriftBounded` bounds.
`keys` has room for two overlapping rotations twice over. In `client` three keys allow two
rotations, so the key a proof was signed with can be the current one, the previous one or gone, and
day 2 is the end of a grace that began on day 0; rotations that overlap are left to `keys`, and the
theorems hold with any number. In `webhook` a third fault adds no new kind of behaviour. In `import`
three rows allow a repeated code behind an invalid row and a failure after an insert. In `storage`,
six files are as many as are ever in use, twice the callers; the view leaves out which number a file
has and what is in files nobody can open. In `abuse`, four activations under way are enough for a
second block to begin within the first (three late failures), and eight ticks for a block to end and
another to be earned; addresses share only the walk of `prune`, so one is enough. In `locks`, one
slot is less than the two licenses want, and three transactions are a circle of two and one more
that waits for it. In `session`, a second token is what an older one is mistaken for, and one crash
is enough to seed again. In `console`, with one row to a page an insert moves every row to the next
page, and the revocation of the code or the license gives a page a row to gain or lose (other filters
are left to the theorems, which hold with all of them); two mutations are one that overlaps another, of the same list or not, and
the view leaves out which of them was sent first; two cached queries are the page on the screen and
the one left.

`CHECK_DEADLOCK FALSE` is set in `keys`, where the bounds on keys and days end every behaviour, and in
`locks`, where nothing is left when every license is revoked.

## 4. Fairness and liveness

`EveryOrderAcked` is checked under weak fairness of the provider's deliveries of an event that has
not been acknowledged, and of the server's steps of a delivery it has begun. The first is what
`webhook.service.ts` relies on ("Providers retry failed webhooks"); the second is that Node and
Postgres answer. Crashes, failed calls and lost answers are bounded (`MaxFaults`): if they never
ended, nothing could be promised. `StalePruned` needs only that `prune`, on a timer for as long as
the process lives, is called again. `EveryTxEnds` assumes strong fairness of what ends a handler's
transaction: its own steps, or its choice as the victim of a circle. PostgreSQL grants a row lock in
the order of asking, so a transaction is not passed over for ever by others that take the row in
turn, which weak fairness would allow; and a transaction that has waited for a second looks for a
circle and breaks it. The other modules state safety only and have no fairness.

## 5. Proofs

Eight modules hold theorems, each for every value of the constants and from the named assumptions
on them alone (`...Assumption`, in the modules that declare the constants), which TLC evaluates in
every run. Bounds such as `MaxTime` are constants too, so the theorems hold however large they are.

**`LicenseService_proofs`.** Four inductive invariants.

- `SlotInv` (`TypeOK`, `SlotsNeverOversold`, `SlotsNeverLost`, and `Addressed`: a request past its
  arrival names a license, for the transactions update the code of that license) gives
  `TypeCorrect`, `NeverOversold` and `NeverLost`. A commit of `ActivateTx` adds one license to the
  active ones and one to the counter (`TakenSlot`), `ReleaseTx` takes one from the counter and at
  most one from the active licenses (`ReleasedSlot`), and nothing else touches either.
- `RequestInv` says of each request what it may rely on: `Sound` relates what it has read to the
  tables. `RowsGoOn` says that no step of another request undoes a revocation, a key or a
  sighting, so what was sound stays so. It gives `RevocationIsFelt` (`RevocationBites`),
  `ProofsAreBacked` and `AnswersHold` (`AnswersAreDurable`); `RevocationIsFinal`
  needs the types only.
- `WriteInv` adds to it where a request is when it has written: at its end with success, or between its
  transaction and its answer (`WritesLast`). It gives `RefusalsAreClean`.
- `DriftInv` gives `DriftIsBounded`. `DriftBounded` alone is not inductive: the lag of a counter
  grows when a second release of a license commits. So it counts the lag together with
  the second releases to come. `HandlersAssumption` (requests under way are finitely many) and
  `LicensesAssumption` (so are licenses) let them be counted.

**`LicensingTx_proofs`.** `TxInv`: two transactions do not hold the same row (`Exclusive`), what one
has written to the counter is still the counter's successor or predecessor (`Current`) and within
its limit (`Limited`), and a license that has been inserted was not there before (`Rows`).
`TxRefines` shows that `Spec` implements `AtomicTx`: a commit is the atomic step and every other
step a stutter. `CirclesHaveRepeats` follows from the order of the locks: in a circle somebody who
holds a code waits, which only an activate does, at its insert. Sequences of statements are replaced
by what a transaction has and wants (`HasCode`, `WantsLicense`, ...), which the provers follow
better.

**`AdminSession_proofs`.** `SessionInv`: the row is the password chosen last once it is there, a
request's copy of the hash has been that since it was sent, each token that has been granted and not
yet received is at that request alone (`Unique`), and the local storage has what some tab has and
nobody has signed out of (`Kept`). It gives the three properties of `session` (`TakenPasswords`,
`Leftovers`, `SignedOut`).

**`LicenseClient_proofs`**, first for the keys. `KeysInv`: a rotation that has inserted its key has
read an older one, and no two have made the same (`Rotations`); the newest committed key is active
(`NewestIsActive`), so however rotations overlap, none retires the key that signs; and keys leave
off signing in the order in which they were made, but for those of one day (`InOrder`). A rotation
under way has fixed its date yesterday at the earliest, which is all that a window may lose. It
gives `NewestSigns`, `WindowsCover` and `RotationCovered`.

Then for the client, on top of it. Client and server share no state but what a call carries,
so `ClientInv` says of each call in flight (`CallGood`) and of the cache it may replace (`StoreGood`)
what stays true while the server goes on: `Onward` shows this once for every step of the server. It
gives `GraceIsAll` (`RevocationOutlastsGrace`), `NoRevival` and `CachedIsCheckable`, also for
any number of rotations under way, where the run has one.

**`PurchaseCodes_proofs`**, for the webhook: `WebhookInv` counts the deliveries that have found no
code and will insert one together with the codes there are, for `DuplicatesBounded` alone says
nothing of the inserts to come. It gives `Duplicates` and `Acknowledged`. For the import:
`ImportInv`: the import takes for existing what was there and what it has inserted (`Remembers`),
has counted as many as it has inserted (`Counts`), and these are in the table. It gives
`ImportsComplete`, `AbortsNeedConflict` and `AnswersCount`.

**`AbuseTracker_proofs`.** `TrackerInv == TypeOK /\ GuessesBounded /\ \A ip \in Ips : Spaced(ip)`.
`Spaced` says that a block has begun (or a later failure could bring its end forward) and that its
`loggedAt` is the time of its last row, if it has one. Most steps only keep a block or forget one
that is over (`Kept`). It gives `TrackerTypeCorrect`, `GuessesAreBounded`, `LinesAreSpaced` and
`BlockIsServed`. `FailuresInv` relates the counter to the recorded failures, which are numbered:
those it counts are the last ones, its window began with the first of them (`Recorded`), at most
`Threshold - 2` of the window before lie within a `Window` of that one (`Few`), and what led to a
block is `BlockTime` past when the block is over (`Answered`). It gives `BlocksAreEarned` and
`RollingIsBounded`, where the failures are counted by their numbers, an interval of them at a time,
so no induction over the history is needed.

**`FileStorage_proofs`.** `FileInv`: two processes never share a temporary file (`OwnTmp`), and a caller
has a file open only between the steps of `writeFile` and `readFile`. A file to create is always
there, since those in use are fewer than twice the callers (`FreeFile`). It gives `FilesTyped` for
callers spread over processes in any way. `StoreInv` adds what holds while the writes of a process take
turns (`WritesApart`): the file a caller writes is its own until the rename, empty before the write and
whole after it, and the file a caller reads is nobody's temporary one (`Private`), so what is read is
what the path named at the open. `StoreIsAtomic` then maps every step to one of `AtomicStore` or to a
stutter. Callers may share a process, call at once, read while another writes and clear; `[]WritesApart`
is an hypothesis on the behaviour, for the code does less without it (section 3).

**`AdminConsole_proofs`.** `ConsoleInv` has three parts. `BaseInv`: what the pages, the fetches
under way and the mutations have is of the tables as they were or are, and the tables only grow and
only lose in one way (`Growth`: rows come at the front, revoked ones stay so). `ReportInv`: what has
been reported on the page is committed, and whatever the entry on the screen holds, or its fetch has
already read, shows it, unless the entry is invalid. So a fetch that has read too early must not be
left to fill an entry that counts as fresh: this is what the invalidation's cancelling of it is for.
It gives `ReportsAreShown`. `PageInv`: a later page in the cache, of a list that no row leaves, has
rows, for pages move back as a list grows; `Next` was pressed only when the total said that there
are more. It gives `NextLeadsToRows`. How many rows a page has is counted by lemmas (`HasNewer`,
`PageHasRows`) that take the oldest row of a finite set, which exists because its subsets are
well-founded, in place of an induction over the rows.

**Two descriptions of the same transactions.** `ServiceIsTransactional` shows that `LicenseService`,
with its checks before a transaction and its crashes, implements `AtomicTx`, as `TxRefines` shows
for `LicensingTx`. What one takes in a step and the other statement by statement has so the same
effect on the tables. No run checks the first of these two.

**Only model-checked.** Every invariant and action property that a passing run checks is a theorem. Left
to TLC are liveness (`EveryOrderAcked`, `StalePruned`, `EveryTxEnds`), which is out of the prover's
reach, and the two runs that are expected to find a violation.

## 6. Plan

Done: licensing, keys, client, webhook, import, storage, abuse tracker, domains, transactions with
their locks, and the console's session and lists, in that order: the core is what the product sells
and the others feed it or live on it.

What may follow:

1. When the test of a host and the gate agree: a theorem for the hosts that have not both a dot and a
   port, and the domains of which no `www` is left.
2. The signed requests of verify and deactivate with their time stamps, repeated by the network.
3. Key rotations by two administrators: what the choice of the retired key without an order costs
   (`signing-key.service.ts:48`).
4. The list for exhausted codes (`purchase-code.admin.controller.ts:130`): which pages may be empty.

## 7. What is not modelled

- Cryptography, canonical JSON and the encoding of proofs: a signature is the key it is valid under.
- Wiring and health: configuration without state of its own. The dashboard's counts and the
  product page's one unpaged list; what the buttons of the latter do at the server is modelled.
- The throttler, a library; restarts of the process lose the tracker's maps, as its comment says.
- The business site and infrastructure scripts.
- Statuses PENDING and EXPIRED and `expiresAt`: no code sets them.
- A power failure that loses data the operating system has taken: `storage` models the death of
  the process, not of the machine.
- Codes are hashed as typed by activate and upper-cased by the admin API, so a code typed in lower
  case is not found; no property is about it.
- Date and reason of a code's revocation, which a second one replaces
  (`purchase-code.admin.controller.ts:185`).
- activate reads the clock when its answer arrives (`client.ts:71`); the grace properties are about
  what verify has written.
- When two rotations have overlapped, the next may retire the older of two active keys, and the one
  that signed until then is not served (`signing-key.service.ts:48`): `OneRotationIsCovered` and
  `CachedProofCheckable` say nothing then.
- Equal `createdAt` stamps of two keys, and the public endpoint's five minutes of edge caching.
