# Verification of OmniFood's offline-first sales synchronisation

OmniFood NI is a point of sale for restaurants. Terminals (`apps/pos_app`, Flutter
and SQLite) sell without a network and hand their documents to a cloud backend
(`apps/admin_backend`, NestJS and PostgreSQL) that keeps invoices, stock and fiscal
evidence for a tenant. An owner's dashboard reads what the backend derives. What is hard
here is what lies between the two databases: documents numbered by one side and applied by
the other, in order and once, over a network that loses answers, between processes
that stop at any point.

This directory holds TLA+ models of that part, TLC instances of them, and proofs
checked by TLAPS.

## 1. The system's parts

| Part | State | Operations | Hard because |
| --- | --- | --- | --- |
| Cloud sales ingest, `invoices.service.ts` `syncBatch` | receipts per sequence, outbox of staged records, invoices and movements | look up, apply, stage, drain, refuse | every step is a transaction of its own; requests for one stream overlap and die |
| Sequence-gap policy, `sequence-gap-policy.service.ts` | fill receipts | declare missing sequences lost after a grace window | races with the late arrival of what it declares lost |
| Sync freshness, `sync-health/` | none, derived | counts per stream, state per terminal | must not say complete when something is stuck |
| POS sales outbox, `sync_service.dart`, `sales_repository_impl.dart` | invoices with sequence, key and sync status | sell, void, post, acknowledge, pull | memory and rows drift apart across awaits; restarts |
| Voids: cashier, remote, backoffice | canceled flag, stock reversals | `voidInvoice`, `applyRemoteVoid`, `voidAdminInvoice` | three actors cancel one document |
| DGI numbering, `dgi_numbering_service_impl.dart`, `sales_transaction_dao.dart` | cursor, invoices | next number, transaction, advance | two ways to advance one cursor, a crash between two of the steps |
| Generic inventory outbox, kardex, sale inventory outcome | movements, batches, pending outcomes | push, apply, enrich | the same stream protocol with costs and divergences |
| Inbound deltas | pull cursor per domain | catalogue, customers, credit notes, voids | the cursor advances past what failed |
| Loyalty ledger and redemption, `modules/loyalty/` | ledger, projection, intents in memory | accrue, intend, consolidate, reverse, rebuild, backfill | the balance is checked when the intent is made and spent later; every append saves a sum other appends may have missed |
| Cash shifts, payment reconciliation | sessions, totals | open, close, ingest | late documents for a closed shift |
| Fulfillment and print jobs | jobs, leases | enqueue, print, retry | a job printed twice |
| Device credential, `device-sync-credential.service.ts`, `device_sync_bootstrap_coordinator.dart` | rows per version; active record and candidate in two local stores | provision, stage, confirm, commit, revoke, retire | answers are lost, requests outlive their sender, a commit is several writes |
| Cloud session, `cloud_credential_coordinator.dart` | two keystore slots, revocation barrier, memory | login, refresh, logout, load | a keystore that hangs, answers after a logout, a crash between two writes of a slot |
| Staff-policy epochs, `human-authorization/`, `sync_service.dart` | snapshots, epochs, floor and receipts; the terminal's state row | publish, materialize, deliver, receive, submit, acknowledge, commit | a terminal stops authorizing until an answer is stored; retries race; backups are restored |
| Recovery tokens, supervisor overrides | tokens, requests | issue, assert, consume | single use |
| Activation, fiscal inbox | attempts, versions | start, prime, verify, project | long sequences of steps, some repeated |
| Audit chain, change log | hash chain | append | concurrent appends |
| Catalogue, recipes, modifiers, reports, exports, user interfaces | rows | create, read, update | little that interleaves |

How they interact: a terminal's timer starts a pass (`triggerManualSync`), which pushes
its sales to `syncBatch` and then pulls deltas. `syncBatch` calls the gap policy and
writes receipts and staged rows; freshness reads both tables. A void in the backoffice
reaches the terminal by a pull. Sales and credit notes take their folio from the
numbering before their transaction.

What makes each correct is listed with the properties below. `PROJECT.json` lists every
component with its status, and every hazard at its line.

## 2. Modules

Sales, from the terminal to the ledger:

* `SaleStream` - the abstract promise of the cloud about one device stream: a log that
  grows only at its end, with one document per position and key, or a position declared
  lost.
* `SyncIngest` - `syncBatch` and the gap policy for one stream. One action per database
  transaction, `req[q].pc` is where request `q` stands between two of them
  (`LookupByKey`, `LookupBySequence`, `ResolveExpected`, `DeclareGap`/`KeepWaiting`,
  `StageFuture`, `ApplyAccept`/`ApplyReject`/`ApplyHold`, the `Drain...` actions).
  `receipts` is `inventory_sync_receipts`, `staged` is `inventory_sync_outbox`, `aged`
  the rows older than the grace window, `ledger` the committed documents in order,
  `answers` the results a request has collected. Payload hashes are the field `body`.
* `SyncFreshness` - the evidence queries and `deriveTerminalState`, as state functions
  over `SyncIngest`.
* `SalesSync` - a terminal composed with the ingest. `invoices` are the terminal's rows,
  `till` the invoice a void has read, `pass` what a sync pass holds in memory. The cloud
  side is `SyncIngest` unchanged: `Post` is a `Submit`, `Receive` a `Respond`.
* `DgiNumbering` - folios, cursor and the credit-note desk of one terminal.

Identity and authority:

* `CloudSession` - `CloudCredentialCoordinator` with its keystore. `slots` are the two
  keystore entries, `mem` the coordinator's fields, `op` the commit or clear that holds its
  lock (one action per write and per verification, each of which may hang), `intents` the
  login and the refresh that wait for the server.
* `DeviceCredential` - the server's rows and the terminal's bootstrap. `request[q]` is a
  request of the terminal (`sent`, `read`, `answered`: the server reads the rows,
  checks and saves them without a lock), `boot` the phase of the bootstrap with the writes it
  still has `todo`, `stores` the preferred keystore and the fallback table.
* `PolicyEpochs` - publication of a tenant's policy, the epochs of one terminal, and the
  terminal's transactions R (store the candidate), S (stop authorizing, submit) and C
  (store the receipt). `acks[r]` is an acknowledgement the backend works on, `pull` what
  the terminal's pull holds in memory.

Customers:

* `Loyalty` - the ledger of one customer under one program. `work[q]` is what a request
  is doing between two statements; `drift` says what the last writer left of the
  projection.

`MCSyncIngest`, `MCSalesSync`, `MCDeviceCredential`, `MCLoyalty` and `MCPolicyEpochs` hold
records, batches and symmetry for the instances. `SyncIngestProofs`, `SyncAnswersProofs`,
`SalesSyncProofs`, `DgiNumberingProofs`, `CloudSessionProofs`, `DeviceCredentialProofs`,
`PolicyEpochsProofs` and `LoyaltyProofs` hold the theorems.

Abstractions worth knowing when reading them against the code:

* A record is a key, a sequence, a body and what the handlers test of it (canceled, moves
  stock, is a credit note, its origin). Any transaction may be refused (`ApplyReject`,
  `DrainReject`): that stands for the business rules, the serialization failures and the
  unique indexes together. Acceptance needs the indexes, the correlation check and the
  credit-note rules.
* The legacy envelope (`syncLegacyBatch`) and the loyalty records that share the
  endpoint are left out; one stream is modelled, streams do not share receipts.
* `MCSyncIngest` has `void2`, a void that re-uses the key and sequence of its sale. That
  is what terminals sent before the D-10 change and what `_repairVoidedInvoiceSyncIdentity`
  still has to clean up. It also has a refund on the sales stream. A device's own credit
  notes are held back by the terminal today, and the ingest code for them is modelled all
  the same.
* `SalesSync` takes the reading of the next sequence and the commit of a sale or a void as
  one step: the till serves one operator, and the unique index on (terminal, sequence)
  aborts the loser otherwise. The read of the invoice and its `isCanceled` guard
  stay a step of their own, because a pass runs in between.
* The pull has no cursor in the model: a canceled invoice may be offered again.
* `DgiNumbering` has one credit note under way at a time (the screen that issues them is
  modal), reads number and last folio in one step, and creation times are arbitrary, so a
  clock that is set back is covered. `SharedFormat` says whether the backoffice's series
  prints numbers as the terminal does, in which case they collide on the unique index.
* `CloudSession`: a session is the number of the login it stems from; tokens and checksums
  are left out, and so is the slot hint, which decides nothing.
* `DeviceCredential`: a record is its attempt and version, the secret goes with it. Expiry
  and renewal of an active credential, and failures of the fallback table, are left out.
* `PolicyEpochs`: an epoch is written as the chain of entries that leads to it, which is
  what its digest commits to; digests and signatures are not modelled. The publisher reads
  which builds are enabled when it starts, the model when it ends: nothing between the two
  depends on it. In the shipped application no outbox is registered with the drain gate
  (`Gated = FALSE`); `TRUE` is checked as the more general case. `publish` has no caller
  outside the tests, it is modelled as something that may happen at any time.
* `Loyalty`: rewards are their cost, one program is activated and deactivated. The
  ambiguity between programs is refused before anything is read and is left out.
  `TicketPaidHandler` has no caller; earning is modelled as the ingestion performs it.

## 3. Runs

| Run | Module, cfg | Shows |
| --- | --- | --- |
| `ingest` | `MCSyncIngest` | `TypeOK`, `ReceiptsContiguous`, `ExactlyOnceInOrder`, `AcceptedAnswerIsDurable`, `StagedAnswerIsHeld`, `FreshnessIsHonest`, and the refinement `RefinesSaleStream` |
| `sales` | `MCSalesSync` | `SalesTypeOK`, `SyncedIsDurable`, `StockReversedOnce`, `GapNeedsVoid`: only a void makes a hole |
| `sales_live` | `MCSalesSync`, `MCSalesLive.cfg` | `SequenceNotReused`, and under fairness `SaleIsDelivered`, `EveryRequestEnds` and `StreamMovesOn`: behind a hole real documents are accepted again |
| `numbering` | `DgiNumbering`, `MCNumbering.cfg` | `NumberingTypeOK`, `FoliosConsecutive`, `CursorNeverFalls` |
| `session` | `CloudSession`, `MCSession.cfg` | `LogoutHolds`: no login that was logged out comes back; `LaterLoginStays`: nor does an earlier one push out a later; `NewestDurableWins`, `DurableIsLoadable`: after a crash the last verified record is found |
| `credential` | `MCDeviceCredential`, `MCCredential.cfg` | `ActiveWasConfirmed`: the terminal works with what the server confirmed; `ActiveIsHeld`: what the server considers active the terminal has, or can confirm again; `OneActive`: that is one version |
| `loyalty` | `MCLoyalty` | `ReversedOnce`, `ReversalIsComplete`, `ConsumedIsSpent`, and `ProjectionFollowsLedger`: the balance drifts only where a writer was overtaken |
| `epochs` | `MCPolicyEpochs`, `MCEpochs.cfg` | `CleanIsPublished`, `ReceiptPerEpoch`, `FloorIsHeld`, `ActiveWasAccepted`, `GovernanceAdvances`: what governs gives way to its successor only; `NoFalseQuarantine` |
| `epochs_live` | `MCPolicyEpochs`, `MCEpochsLive.cfg` | `SubmissionIsSettled` under fairness: a terminal that stopped authorizing is released |
| `void_lost`, `staged_lost`, `credential_wedge` | `MCVoidLost.cfg`, `MCStagedLost.cfg`, `MCCredentialWedge.cfg` | see section 4 |

Bounds, and why they are enough to meet the interesting cases:

* `ingest`: two requests, three sequences, a sale, a sale with two payloads, a refund.
  Two requests suffice for every pairwise race; three sequences let a hole be below,
  at, or above what is staged. Batches are suffixes of the stream, which is what a
  terminal that does not know what was accepted sends.
* `sales`: two invoices and two sequences, two requests of at most two records, so that a
  request the terminal has given up on overlaps the next. `sales_live` has one request
  and three sequences: two sales and a void, enough for a hole and for a re-used number.
  That requests end is shown for one at a time; others could only stage rows further on,
  each of which costs the drain one turn. `staged_lost` has the same instance.
* `numbering`: four folios, two clock values, one received note.
* `session`: four generations, three epochs, two logins, two restarts. Two logins let an
  old answer arrive after a new one, two restarts let a half-written slot be loaded, written
  over and loaded again, four generations use both slots twice (5.4 million states).
* `credential`: two identities of two versions, two requests, and a backoffice that acts on
  the first credential: a record of an earlier identity, a version retired by its
  successor, and a request that outlives the process that sent it (4 million states).
* `loyalty`: one ticket, two requests, two intents; movements arrive alone and in a batch,
  with and without a declared program (3.6 million states). More tickets only add
  keys that do not meet.
* `epochs`: one policy and a staff without PINs, two builds, two requests, two snapshots,
  one crash that may upgrade, one restore (2.5 million states): a retry next to the request
  it repeats, a candidate that meets another build, a floor the backend forgot.
  `epochs_live` has one build, one snapshot and one crash.

The caps (`MaxSeq`, `MaxFolio`, `MaxGeneration`, `MaxEpoch`, `MaxVersion`, `MaxSequence`,
`MaxIntents`, and so on) stand in guards. Where they can stop the model before its liveness
is at stake, the cfg says `CHECK_DEADLOCK FALSE`; `ingest`, `sales`, `sales_live`
and `numbering` are checked for deadlock.

Fairness. In `FairSalesSpec` a request that was started takes its next step, time passes,
and passes run for ever (`_scheduleNextSync` re-arms whatever happens). From some point on
(`Calm`) requests stop dying, transactions stop failing by chance (`RefusedForCause`: a
record is refused only by a rule or an index) and answers are not lost: the terminal gives
up only on a request that has died. Nothing is assumed about the cashier, the backoffice or the order in which
requests are served. Without "from some point on" an adversary loses every answer, and
nothing is delivered. In `PolicyEpochs!FairSpec` the terminal goes on pulling (the same
timer) and the backend goes on working or forgets a request; strong fairness of the steps a
pull and its acknowledgement consist of says that requests repeated for ever get
through, and are answered in time, now and then. Nothing is assumed about the staff, the
publisher, crashes or restores.

## 4. What the code does and its comments do not say

Three runs end in a counterexample:

1. `void_lost` (`VoidIsNotLost`): the acknowledgement of a sale is applied by invoice id
   after the cashier has voided the row; the void is then "synced" and never sent.
2. `staged_lost` (`StagedIsDrained`): a gap declaration fills every receipt-less sequence
   below the incoming record, one whose record waits in the outbox included
   (`sequence-gap-policy.service.ts:143`); the comment at its head says that missing
   sequences are filled and the staged rows drained. In the run a sale is staged behind the
   hole a void left; its window runs out between the look at it and the look at the record
   behind it, in one request or a later pass; it is declared lost with the hole, and each
   later pass is answered `IDEMPOTENCY_MISMATCH`. The same happens when the waiting sale is
   voided, for later passes then start behind it. The stream is shown PARTIAL from
   then on. What does hold is `StreamMovesOn`.
3. `credential_wedge` (`RefusedIsDropped`): `bootstrap` drops a staged candidate only on
   the answers `DEVICE_RECOVERY_REQUIRED` and `DEVICE_REVOKED`. A candidate that was retired
   or has lapsed is refused with other errors, stays staged, and is confirmed again, in
   vain, by each later bootstrap.

The following was met while modelling. The models behave like this; no property
excludes it, and no run is spent on it:

* Refusals write no receipt, so the evidence "rejected above watermark" is always zero.
* The void of a synced sale that moved stock carries the correlation ids of the sale and is
  refused as a duplicate in every pass (`invoices.service.ts:2716`).
* A crash between a credit note's transaction and `incrementNumber` leaves the cursor on a
  used folio, which the sale path takes as it is: sales abort until another credit note is
  issued or the cursor is edited by hand. A credit note pulled from the backoffice
  can be the "last invoice" the local numbering continues from.
* A crash between transactions R and S leaves a terminal in `RECEIVE_PENDING`, which
  nothing resumes; the comment near `sync_service.dart:3143` says a candidate must not sit
  there.
* A snapshot published for one build does not serve a terminal of another
  (`staff-policy-epoch-materialization.service.ts:357`).
* A logout by a process that could not read its slots cannot put its tombstone above
  what they hold (`cloud_credential_coordinator.dart:173`), and may be undone by a restart.
  `LogoutHolds` is stated for the other processes (`blind`).
* A movement first ingested before the program was active and repeated afterwards is
  answered `IDEMPOTENCY_CONFLICT` (`loyalty-sync-ingestion.service.ts:49`); an interrupted
  backfill is not taken up again, because its scan finds only rows without a program
  (`loyalty-program-backfill.service.ts:66`); two intents may pass the balance check on the
  same points.

## 5. Proofs

Each theorem holds for every value of the constants under the assumption its module names
(`RecordsAssumption`, `PosAssumption`, `NumberingAssumption`, `SessionAssumption`,
`CredentialAssumption`, `EpochAssumption`, `LoyaltyAssumption`: numbers in range, sentinels
distinct, batches are sets of records).

The ingest and the terminal:

* `IngestInvariant`: `IngestInv` is inductive. `ReceiptsContiguous` is not inductive by
  itself: a request acts on an expected sequence it read several transactions ago. What
  keeps it true is that such a position has receipts at all its predecessors
  (`Position`), and receipts are never taken back, so the fact survives what other
  requests do in between. `TypeCorrect` and `StreamHasNoHole` follow.
* `AppliedExactlyOnceInOrder`: with a hole-free prefix, a free position is the end of the
  stream, so a commit appends to the ledger above all that is in it.
* `IngestImplementsStream`: under the refinement mapping (the log is the receipts up to
  the watermark) a commit is `Accept`, a gap declaration is `DeclareLost`, the rest
  stutters.
* `AnswersInvariant`: an answer is a fact about tables that only grow, except for the
  outbox, from which drains delete. `AnswersInv` adds that drains stand at distinct
  positions and that the row a drain deletes is the one it has committed, so deletion never
  takes back what an answer said. `AcceptedAnswersAreDurable` and `StagedAnswersAreHeld`
  follow. `FreshnessCanBeTrusted` needs that records which share a sequence share
  their key: a stream without fills and without rows above its watermark has a receipt
  for each row left (`CompleteHidesNothing`), and that it is the row's is up to the sender.
* `ReceiptsAreFinal`: no step changes a receipt that is there. It is what lets the other
  arguments carry a fact from one transaction of a request to the next.
* `SalesImplementIngest`: each step of `SalesSync` is a step of `SyncIngest` or leaves its
  variables alone. It needs `RowsInv`: rows that were issued have a sequence in range, the
  copy a remote void will write included. `TerminalStream` and `TerminalAnswers` carry the
  safety results over to the composition, and `TerminalImplementsStream` composes the two
  refinements: the abstract stream is what a terminal gets.
* `TerminalFreshness`: the assumption of `FreshnessCanBeTrusted` is discharged for the
  terminal. What is in the tables or in the memory of a request was handed over
  (`OnlyPosted`), and no sequence is handed over for two documents.
* `SyncedSalesAreDurable`: whatever a pass is about to acknowledge, and whatever the
  backoffice has voided, is in the cloud (`DeliveredInv`), by the answers' theorem carried
  through the composition.
* `StockIsReversedOnce`: `VoidsInvariant` says that the cloud holds only what was posted,
  that a posted void is a canceled row already, so that the backoffice's void reaches
  only rows it voided itself, and that reversals made plus reversals whose row has been
  read are at most two. `TerminalTypes` says the rest about types.
* `SequencesAreNotReused`: a void moves its invoice to another number and so removes one
  from the rows; the maximum of the rows stays at or above everything ever posted, the copy
  that a remote void will write counted at the number it carries (`NumbersInv`).
* `GapsComeFromVoids`: while nothing is voided the rows carry the numbers from one on
  (`RowsDense`). What lies below a record of a request is then accepted already, earlier
  in its batch, or refused, and a refused record stops the request (`NothingLost`); so no
  request reaches a position whose predecessor is missing: nothing is held back and
  nothing filled.
* `SeriesHasNoHole`, `CursorOnlyAdvances`: everything below the cursor, below a number
  handed out and below a cursor about to be saved is issued (`SeriesInv`); once a note is
  committed the cursor itself is, so advancing by one skips nothing. `NumberingTypes`
  needs more (`CapInv`): the cursor is at or below the folio of a note under way until a
  sale takes that folio, so that what is saved is never more than one above a document.
  It rests on received notes carrying folios of the series (`Received` in `0..MaxFolio`).

Identity and authority:

* `LogoutIsFinal`, `VerifiedRecordWins`, `StoreStaysLoadable` follow from `SessionInv`. A
  write goes to the slot that need not be spared and is newer than both (`WriteInv`), so
  the other one can be loaded if it fails. A record of a session that was logged out is
  overruled by a newer committed record or by the barrier, an intent by its epoch
  (`LogoutInv`). `HorizonInv` keeps the generation in memory at or above the slots', once
  they were read.
* `LaterLoginsStay`: sessions are numbered by login. Of a login and a refresh under way only
  the one reserved last has the epoch in memory; a refresh that has it carries the session
  that is current, and a commit under way has moved the epoch past every intent, so
  nothing is committed next to it (`OrderInv`).
* `ActiveIsConfirmed`: from the moment an answer is read, every write still to be made to
  an active area carries a credential the server has confirmed, whichever writes a crash
  cuts off and whichever record the stores reconcile to (`SafeWrites` in
  `CredentialInv`).
* `WhatIsActiveIsHeld`: every live record of the identity (confirmed, or asked for and not
  answered) is in the fallback table, whose writes do not fail; a candidate in the keystore
  is the same record, or older and dead (`StoresHeld`). It is dead because a new version is
  only asked for when the fallback table is empty, so the older one was never sent, and
  versions that were followed by others are over (`VersionsInv`). The write sequences are
  followed write by write (`StagingOf`, `CommittingOf`, `Clearing` in `HeldInv`). The proof
  shows where the exception comes from: with a record of another identity in a store,
  "older" compares versions of different attempts.
* `ActiveIsUnique`, from the same invariant (`HeldInvariant`): a version the server holds
  active is in the fallback table, as its active record or as its candidate
  (`ActiveIsThere`); a candidate that differs from the active record is dead
  (`ActiveIsLast`), so two active versions are one.
* `StaffChangesArePublished`, `OneReceiptPerEpoch`, `FloorIsAlwaysHeld`,
  `OnlyAcceptedEpochsGovern`, `QuarantineMeansLoss` follow from `EpochInv`: receipts are the
  prefixes of the floor, an acknowledgement in flight claims something at or below the
  active epoch or the candidate itself. What the terminal knows of the floor holds only as
  long as no restore has happened (`LosslessInv`), what it authorizes by holds always
  (`TerminalInv`).
* `GovernanceOnlyAdvances`: a candidate was staged on top of what governed, and nothing but
  its own activation replaces that, so what is activated is the successor even if the
  backend was restored in between and delivers an earlier epoch.

Customers:

* `MovementsAreReversedOnce`, `ReversalsAreComplete`, `ConsumedIntentsAreSpent` follow from
  `LoyaltyInv`. What a transaction has inserted and not yet committed shares its
  identity with no other open transaction and no row (`Pending` in `Sound`, the unique
  indexes), so a reversal's row is the only one for its movement. A reversal keeps that
  all it has taken up is reversed, except what it is appending for (`Reversing`); a
  consolidation keeps that its row says what its intent says (`Consolidating`).
* `ProjectionIsBalance`: the balance is a fold over a set, which takes its elements in a
  chosen order. That it is well defined, that any element may be taken first
  (`TotalRemove`) and that a new row adds its units (`BalanceOfOneMore`) would be inductions
  over the set; the induction theorems of the library cannot be used, so each lemma takes
  a smallest subset for which it fails (`Smallest`, from the well-foundedness of inclusion)
  and refutes it. `MoneyInv` says that a request which has summed and was not
  overtaken has the balance as its base (`Reckoned`). `LoyaltyTypes` follows.

The safety and action properties of all passing runs are theorems. Only model-checked are the
liveness properties `StreamMovesOn`, `EveryRequestEnds`, `SaleIsDelivered` and
`SubmissionIsSettled`: liveness under fairness is out of the prover's reach.
`OneActive`, `ActiveIsHeld` and `LogoutHolds` are proved as the runs check them, under the
conditions they name (`mixed`, `blind`).

## 6. Plan

Done: the sales stream from the terminal to the ledger with its refinement and
composition, numbering, loyalty, cloud session, device credential, policy epochs. What would
come next, in order:

1. `InventoryFlow`: the generic outbox over the same stream, what a void and a
   remote void do to stock on both sides; composition with `SalesSync`.
2. `InboundDeltas`: the pull cursor, failing items, received credit notes and voids.
3. `CashShift` and payment reconciliation, `PrintJobs`, `FiscalInbox`,
   `ActivationAttempt`, recovery tokens and overrides, `AuditChain`.

### Not modelled

User interfaces, reports, exports, notifications, and the create-read-update-delete of
the catalogue, whose properties are those of single transactions: they are most of the
code and little of it interleaves. Recipes, costs and
valuation are decimal arithmetic inside one transaction. The hazards of the parts in the
list above are in `PROJECT.json`, each with the reason no property covers it yet.
