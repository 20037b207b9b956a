# Domain Atlas: a TLA+ verification of its servers

Domain Atlas is a set of small Node.js servers, PHP ports of them and a browser
extension (the wallet). Every domain runs an *issuer* that signs asset
credentials, revokes them and replaces them; a *call service* lets two wallets
set up a voice call; a *presence server* shows who is in a space. The
credentials are bearer values: whoever loses a response, or gets two, has lost
or gained value. Nearly all of the servers' state is in JSON files that are read
and rewritten in one piece, and nearly all of the hazards come from what happens
between an `await` and the next write.

The models follow the code under `src/`; the map in `PROJECT.json` gives the
lines each definition stands for.

## Inventory

| Component | State | Operations | What is hard | What makes it correct |
|---|---|---|---|---|
| **Replacement transactions**, `issuer-server/server.js` | revocation list, `TXN_DIR` journal, holdings index, replay store (files); spend locks and leases (promises) | split, consolidate, convert, issue; `txnSweep`; operator revoke | two requests for one credential, repeated requests, a stop or a failed write between any two of five writes | one transaction per credential and per requestId; a committed result can be fetched again; the cap holds; nothing leaks |
| **E-mail delivery**, `issuer-server/lib-delivery.js` | the deliveries file, suspensions, bearer registry, revocations; the runs and the sweep in memory | `begin`, `run`, `sweep`, resume; spends and claims of the same credential | the point of no return is at the mail server; whole-file writes across an `await` | original and copy never both usable, never both gone; what is begun settles, unless its record is put back |
| **Call service**, `call-server/server.js` | tags (file), calls, mailboxes, engaged marks, used call ids (memory) | tag create/revoke, listen, invite, twelve signals, sweep | signals interleave with hashes, sweep, revoke and restart | one ringing call per tag, no stale invites, ordered relay, both sides hear of the end |
| **File export and claim**, `issuer-server/server.js` | export records, claim records, bearer registry, used challenges, revocations (files); `bearerInFlight`, spend locks (memory) | export, claim, recover, revoke | four files written one after the other; recovery beside other requests | the item is there exactly once; a committed claim is answered to its key |
| Suspensions | suspension list | suspend, lift, finalise while reading | a read that writes | no spend of a frozen item |
| **Trading station**, `issuer-server/server.js` | listings, stored outcomes, recorded settlements, suspensions of trade-locks, mail (files); spend locks, leases (memory) | submit, cancel, claim, relay-lock, relay-settle, refund, mail | two legs at two servers, no journal, repeats over a lossy line | both legs or none; one settlement per balance; one answer per request |
| E-mail tickets, SMTP, IMAP | seen messages, bounce matches | poll, forward, bounce | at-least-once mail | a ticket is used once |
| World drops, chests, purchases | claims, cooldowns | claim, open, buy | repeated claims | one reward per claim |
| Supply counters | counter per class | reserve, release | release after a later reserve | never more than `maxSupply`, serials unique |
| Ledger receipts and issuance, `lib-ledger-*.js` | receipts | record, acknowledge | lost acknowledgement | nothing delivered twice |
| Admin, post office, governance, bank, oracle, reserve | sessions, mail, demo documents | routes | little | – |
| **Presence and moderation**, `presence-server/` | rooms, chat history, cursors, restrictions, tombstones, nonces (memory) | join, leave, poll, chat, sweep, kick, mute | one visitor in several sessions and transports; members that vanish | who is kicked stays out, who is muted is silent, listeners miss nothing, seats become free |
| **Wallet operations**, `extension/wallet.js` | the wallet list and the operation journal (storage), slots (Web Locks) | replace, mint, recover, retry, back up, restore | several pages; a response lost after the commit; stored answers that expire | no result lost, no request carried out twice, nothing spent is offered again |
| Call client, `extension/call.js` | call state, peer connection | invite, accept, negotiate, confirm | glare, late signals | agrees with the call service |
| Directory, PHP ports, user interface, demos, tools | – | – | – | – |

How they interact: a wallet calls an issuer over HTTP and repeats a request,
under the same requestId, when the answer is lost. Inside the issuer the
transaction, the delivery engine, file claims and trades share the revocation
list, the bearer registry, the suspensions and the spend locks. A trading station
asks the issuer of a foreign balance to lock and settle it, over HTTP. The delivery engine calls the mail server and waits. Wallets find
each other through the call service's mailboxes only; calls exist in its memory
only. `PROJECT.json` lists every component with its status and reason, and
every hazard with its line and the properties aimed at it.

## Modules

### Replacement, AtomicReplacement, MCReplacement, ReplacementProofs, ReplacementJournalProofs

`Replacement.tla` models `beginReplacement`, the checks of the four handlers,
`commitReplacement`, `txnFinish`, `txnAbort`, `txnRecover`, `txnSweep`, the
locks and the operator's revoke route.

| Model | Code |
|---|---|
| attempt `a`, `Key[a]`, `Preds[a]`, `Params[a]`, `Owner[a]` | one HTTP request, its requestId (or the fresh transaction id), the ids it spends, operation and parameters, the receiver |
| `revoked`, `journal`, `holdings`, `replay` | `REVOCATIONS_FILE` with its `txn` tags, `TXN_DIR`, `HOLDINGS_DIR`, `REPLAY_DIR` |
| `spendLock`, `ridLease`, `ownerLease` | `spendQueues` under the ids, `rid:` and `holdings:` names |
| `taken`, `lapsed` | `ctx.held`, `ctx.released` |
| `cpu` | the stretch between two awaits that is inside the synchronous protocol, cut at every durable write so that `Crash` may fall there |
| `boot` | the start-up sweep, which ends before the first request is accepted, as it awaits free locks only |
| `WriteFails`, `Crash` | `writeFileAtomic` throwing with the file as it was; the process stopping |

`MCReplacementCases.tla` runs three instances in one run (`instance`): which
requests are made, and which faults they may meet.

Locks are promise queues in the code; who is next among the waiters is left
open, which contains every order. The successors are named by the attempt that
signed them, since `commitReplacement` draws a fresh transaction id.

`AtomicReplacement.tla` is the promise: a transaction happens in one step,
spends all of its credentials or none, happens once per key, and every answer is
the result that happened under the key; a second result for a requestId is what it
excludes. `Replacement` implements it under the
mapping *spent = the tagged entries of the revocation list, happened = the
decided transactions*. A spend is decided by the revocation list; an issue, which
revokes nothing, by its journal entry, which every recovery takes as committed.

### CallService, MCCallService, CallServiceProofs

`CallService.tla` models the routes of `call-server/server.js` and its sweep.
An action is a stretch of a route between two awaits: `accept` is three actions
(`AcceptChecks`, `AcceptStoresKey`, `AcceptCompletes`) because two hashes are
awaited on the way, and `tag/create` is two. `call[c]` is the call object,
`ringing` is `tagRinging`, `seen` is `seenCallIds`, `listener` the mailboxes of
listening wallets, `told` the history of each side's call mailbox, and `disk`
the tag file as `saveTags` last wrote it. Time is left open: whatever may
expire may expire at any moment. A signal that passes its checks changes the
state; every other signal on a live call is counted (`Refused`) and the one
over the limit ends it (`TooMany`). `MCCallService.tla` runs two instances: a whole
call that two devices accept, and two short calls for one tag. An accept that
finishes late may bring a call back to `ACCEPTED`, which the model contains and
the properties allow for.

### Delivery, MCDelivery, DeliveryProofs

`Delivery.tla` models the delivery engine. `file` is the deliveries file;
`orig` and `copy` stand for the suspensions, the registry of files and the
revocation list; `pc`, `first` and `doc` are the runs in flight, whether a run
is in its first turn, and the document it read before the send; `sweep[s]` is a
sweep with the document *it* read, and the timer may start a second one while the
first awaits a send. A turn of `run()` is one stretch of code, cut
at each durable write. Runs, sweeps and routes go on freely while another
delivery is being sent, and any write may fail (`Throws`).
`Check`/`Begin` are the routes that start a delivery on both sides of the
awaited mint; `SpendChecks`/`SpendCommits` are any other request that spends
the original, on both sides of *its* mint. `Origins` says which original each
delivery is of: one credential twice, a file twice, a credential beside a fresh
copy, or fresh copies only. `DeliveryAssumption` says that a delivery of an
original has a key, the id of the original (`server.js:6041`, `server.js:8410`).

`SendFails` and `Accepted` write back `doc`, not `file` (`lib-delivery.js:262`):
what the other deliveries recorded during the send goes back to what it was. The
history variable `undone` collects the deliveries whose record was put back to an
older one, by a write-back or by a sweep that abandons a delivery from the record
it read at its start. `delivery_undone` shows that a delivery accepted and
delivered during the send of another loses its record in this way. After that
its original may be frozen with nobody left to lift it, or be handed on a second
time. What the other properties say of such a delivery is limited accordingly
(`Kept(o)`: no delivery of `o` is in `undone`); what they say without the
condition is that the original and a copy of it are never usable together, since
the revocation comes before the listing whatever the record says.

A spend lock on a wallet's credential is left out: it lapses with its connection
or its time, so the engine can rely on it nowhere. Also left out are the mail
reply of `onRolledBack`, the turn of the event loop that `await onDelivered(rec)`
takes, and the limit of attempts of one call, so that a run may try more often
than the code does.

### FileTransfer, OneItem, MCFileTransfer, FileTransferProofs

`FileTransfer.tla` models `transfer-to-file`, `recover-file-export`,
`claim-from-file` and what they call. `record`, `claim`, `listed`, `revoked` and
`used` are the five durable stores; `inFlight` and `lock` are `bearerInFlight` and
the spend locks. A request waits for its signature in `minting` and does the
rest in one stretch: `cpu` says whose, and `Reconcile` and `FinishClaim` are the
steps of `reconcileFileExport` and `finishFileClaim`, one durable write each, so
that `Crash` and `WriteFails` fall between any two. `Recover` enters the same
stretch without a lock, as the code does; `SpendCommits` is the end of a transfer,
which does not look at the revocation list again (`server.js:8350`).

`OneItem.tla` is the promise: an item has one form at a time, goes from the
original to a file to the credential of one claim, or from the original to
another spend, and never back to a form it has left; every claimant who is
answered gets the credential it became. `FileTransfer` implements it under the
mapping `Holder`: what the claim record or a finished spend says, else the file
once the original is revoked for it (from then on recovery can only go
forward), else the original. The operator may end the original or the file, but
a spend or a claim that has begun is carried out all the same, in the code as in
`OneItem`.

### Trade, MCTrade, TradeProofs

`Trade.tla` models one listing and its claims. An action is a stretch between two
awaits, cut where a stop would tell. `pc[c]` follows the handler of
`trade/claim`; a call to the other domain is a record in `requests`, and `Serve` is
the handler of `relay-lock` or `relay-settle` there, in three steps for a
settlement (look up the recorded result, check under the lock, revoke and
record). `LoseRequest`, `LoseAnswer` and `HangUp` are what the line can do.
`Outlives` is a request whose connection has closed while its handler goes on:
`lockSpend` lets go of what it holds when the connection closes
(`server.js:3094-3106`, `Released`), so the retry, or the owner, may spend the
balance beside it. It keeps the lock if it takes it only after the close. `outlived`
remembers that this has happened. `settled` names each payment by the balance it
is made out of and the claim it is made for; `mail`, `undone` and `refunds` follow
where the payments end. `StationStops` and `PeerStops` lose the memory of one
server.

### WalletOps, MCWalletOps, WalletOpsProofs

`WalletOps.tla` models the operation journal of the wallet against an issuer
that does what `Replacement` promises: `Outcome` answers a repeat from `stored`,
carries the request out, or refuses it, as it must if a predecessor is revoked and
nothing is stored. `page[p]` is what one page of the extension is at; every step
ends at an await, and every write re-reads what it changes, as the code does
under its wallet lock. `RecoverNext` works through the list of entries it read at
its start (`queue`). `Apply` is `commitOperation`: list and journal in one write.

A request replaces credentials, mints a unique item or mints fungible units
(`Kind`). `Resend` holds back an old unique mint for the person, as
`sendOperation` does; nothing holds back an old fungible one, which has no
predecessors that could show that it was carried out.

A send that is given up (`NoAnswer`, after 60 s, or `Close`) may have left a copy
with the issuer: it is then in `slow`, and `IssuerLate` answers it whenever it
likes. `loose` remembers the requests whose entry ended with a refusal although
they could still be carried out. There are two ways to get there:

* A copy was slow. `docs/gen1-replay-expiry.md:87-90` says so: "A request that is
  only slow can still commit afterwards, after the wallet has concluded from a
  refusal that nothing happened."
* Another page was about to send the entry as it had read it before. A recovery
  reads the journal once (`wallet.js:1764`). If the first send of an entry, made
  from another page, is refused while that recovery is busy with an earlier
  entry, the entry is gone, but the recovery sends it all the same; if the issuer
  accepts it now, `commitOperation` finds no entry and drops the result. No
  document says this.

In both cases the result is signed, its predecessors are revoked, and the wallet
knows of neither; `CommittedIsKept` and `SpentIsHeldBack` leave these requests
out. With `loose` struck from them, TLC finds both traces.

### Presence, MCPresence, PresenceProofs

`Presence.tla` models the presence and chat rooms of one world. A session is a
WebSocket or the token of a polling join; `Visit` joins the sessions of one
visitor. `joined` and `chatJoined` are the flags of a connection's own closure,
which `Kick` has to clear through `onRemoved`. `history`, `counter` and `cursor`
are `chatHistory`, `chatSeqCounters` and `member.cursor`; `handed` remembers what a
polling member was really given. A moderation call is `Command` (signed
and sent), `Authorize` (after the last await: the nonce is spent) and `Execute`.
`tombs` are the tombstones of removed polling sessions. The code keeps them in a
list cut at the front; the model keeps a set, each stone with the number of
sessions buried before its command (`from`), and `Kept` drops the oldest of them:
which stone of one command is older depends on the order of a map of members,
and is left open. `removed` is the same without a limit, for the property. The
WebSocket of the run sends no visit id; WebSockets that do are in the theorems.

A polling member that writes before it polls is the one case in which messages
are missed: `sendChatMessage` moves the cursor of the sender to its own message
(`server.js:754`) past what others wrote since its last poll, against the comment
at `server.js:620` ("the seq of the newest message already delivered").
`ListenerMissesNothing` therefore speaks of members that have not written.

## Runs

Runs expected to pass:

| Run | Question | Bounds |
|---|---|---|
| `replacement_life` | do equal splits, a consolidation of the same credential and concurrent issues come to one result each, as the atomic transaction would, with repeats answered, the cap kept and nothing held for ever? | three instances: 3 requests on 2 credentials, 2 stops, 2 failed writes, 1 operator revoke; 4 requests (3 issues and a split that uses their requestId), cap 1, 2 stops; 2 requests, 1 stop, 1 failed write, lapsing locks |
| `call_life` | does a call keep its order, tell both sides and go away, and do engaged mark, mailbox and tags agree with the ringing calls? | two instances: 1 call, 2 accepting devices, 6 signals; 2 calls on 1 tag, 2 signals each, 1 failed save; 1 restart |
| `delivery_engine` | are an original and its copies never usable together, and is nothing lost and every delivery settled but for a record that was put back? | four instances of 2 deliveries: of one credential, of one file, of a credential and a fresh copy (each with 1 stop or failed write), of fresh copies under one key; 2 sweeps, 2 attempts |
| `file_recovery` | is an exported item there exactly once, whatever stops, does the claimant get it, and do the five files implement `OneItem`? | 2 exports, 1 other spend, 3 claims by 2 keys, 2 recoveries, 2 stops or failed writes, operator revokes |
| `trade_claims` | do both legs settle or none, once, unless a request outlives its connection, and is every claim answered, the same each time? | a claim, its repeat and a rival; the posted and the offered balance at home or abroad, the rival's at home; 1 fault (loss or stop), 1 balance spent elsewhere |
| `wallet_journal` | is every result the issuer signed kept, carried out once and not offered again? | 2 pages, five scenarios of up to 3 requests out of two replacements, a unique and a fungible mint: loss and closed page; expiry and retries by hand, with and without the fungible mint; lock and expiry; backup and restore |
| `presence_moderation` | do kicks and mutes hold across sessions, and does nobody miss a message or keep a seat? | 3 sessions (two polling sessions of one visitor, a WebSocket without a visit id), 2 history entries, 1 restriction, 1 tombstone, five scenarios of up to 4 joins, 3 messages and 2 commands |

What these properties do not say of the code:

* `delivery_engine`: `NeverLost`, `EveryDeliverySettles` and the second half of
  `NeverBothUsable` (no two copies) speak of deliveries whose record was not put
  back; see `delivery_undone`.
* `file_recovery` assumes that the owner does not recover while another request is
  minting from the original (`Overlap = FALSE`); see `file_overlap`.
* `trade_claims`: the properties about money say under which disturbances they
  hold. `SpentOnce` and `SettledMeansBoth` ask that no request has outlived its
  connection. If one has, its lock is gone and a balance can be settled twice: by
  the retry beside the first attempt, or beside a spend by the owner. It is the
  mechanism of `replacement_lapse` at the other domain; with `~ outlived` struck
  from `SpentOnce`, TLC finds it in `TradeRetry.cfg`. `PosterIsPaid` asks moreover
  that no server stopped, because a leg has no journal, and that at most one
  message was lost: with two, the request of the
  first try and the answer of the second, the claimant is refunded although the
  poster was debited, which `server.js:5774-5776` accepts ("Only if BOTH attempts
  fail does the caller fall back to treating it as a genuine failure").
* `wallet_journal`: `CommittedIsKept` and `SpentIsHeldBack` leave out the requests
  in `loose` (above) and what an older backup brought back.
  `OneResultPerRequest` allows a mint whose stored answer may have expired to be
  carried out again: a unique one if a person asked, a fungible one by any
  recovery. `docs/gen1-replay-expiry.md:84-86` says of it "the issuer simply mints
  a second credential"; the comment at `wallet.js:2059-2060`, "A fungible mint
  repeats safely (the issuer returns the credential already issued for the same
  requestId)", holds for as long as the answer is kept. With the clause about fungible mints
  struck, TLC finds it in `WalletJournal.cfg`.

`CapRespected` says that the cap holds while no write has
failed: an issue whose committed result recovery could not enter in the holdings
index counts for nobody until the sweep comes back to it, and another issue fits
in meanwhile. `docs/gen1-fungible-safety-fixes.md:95` says of that index
"repeatable, never undercounts"; after one stop and one failed write it does.

Why the bounds are enough: two requests collide on a credential and on a key,
and a third gives a journal entry of another request; a second stop falls into
the recovery of the first; two failed writes reach an abort that itself fails.
A cap of one with three issues has two that must be refused or repeated. Two
devices give two overlapping accepts; six signals reach `ACTIVE` and a seventh
the limit. A delivery needs two attempts to retry and one stop to leave a record
for the sweep; two deliveries are enough for one to be written back over, and a
second sweep only matters while the first awaits a send. One export needs one stop to be left half done, a second falls
into its recovery, and a second challenge finishes it. A trade needs one loss to be
retried, and a retry is the last thing the code tries. In the wallet a page that
sends and one that recovers are all that can meet over an entry. One kick of a
visitor with two polling sessions buries both where there is room for one stone;
that later commands drop the stones of earlier ones takes more restrictions than
a run has room for, and is left to the theorem. Scenarios
(`left`) keep apart faults that would only multiply each other; they are
chosen in the initial state.

Runs expected to be violated, each a disagreement of the code with its own
documentation (`findings` quotes both):

| Run | Property | What happens |
|---|---|---|
| `replacement_lapse` | `NoDoubleSpend` | The connection closes, or 60 s pass, and the locks go while the handler still runs; the second request finds the credential unrevoked and both commit. |
| `delivery_claim` | `SpentHasNoCopy` | A file is claimed by a request that checked it before a forward froze it; the forward sends the copy all the same. |
| `file_overlap` | `NeverBothLive` | An interrupted export is recovered, without a lock, while a transfer of the original is minting; file and transferred credential are both good. |
| `trade_retry` | `RetryIsSafe` | The retry of a settlement looks for its result before the first attempt, which outlived its connection, has recorded it; it is refused, and the claimant is refunded although the poster was debited. |
| `delivery_undone` | `AcceptedMovesForward` | A delivery is begun, accepted and delivered during the send of another; the write after the send puts its record back to what it was before. |

`CHECK_DEADLOCK FALSE` stands in all configurations but `call_life`: every
request may have been answered and the servers idle, while a call service can
always be listened to.

## Fairness

`Replacement`: weak fairness of the synchronous protocol (JavaScript runs a
stretch to its end), of each request's next step (every lock wait has a timer,
every signature ends) and of the sweep per journal entry (start-up and every
minute). Nothing is assumed of clients, operators, lapses or stops.
`CallService`: weak fairness of the sweep on each call and of the awaited
hashes. `Delivery`: weak fairness of each run (every SMTP step has a timeout)
and of the sweep (start-up, and every 30 s while anything is unfinished).
`Trade`: weak fairness of each claim's and each relayed request's next step
(every lock wait and every call to the other domain has a timeout). `WalletOps`:
weak fairness of each page's next step, of the issuer answering each page, of the unlock,
and of some page recovering while an entry is pending (it runs on every unlock and
page load). `Presence`: weak fairness of the heartbeat and the sweep timer and of
time passing for a polling member; nothing of clients or moderators.
`FileTransfer` has safety properties only: an interrupted export waits for its
owner, whom nothing forces to come.

## Proofs

`ReplacementProofs.tla` proves, for every set of requests, credentials, keys and
owners and for any bounds, from `ReplacementAssumption` alone:

* `TypeCorrect`: `Spec => []TypeOK`.
* `SpentOnce`: `MayLapse = FALSE => (Spec => []NoDoubleSpend)`.

`NoDoubleSpend` is not inductive: it speaks of the revocation list, and what
keeps it is who holds which lock. The strengthening says that a running request
holds the lock of everything it has taken, has taken everything before it
leaves `locking`, that no other request has spent what it has checked, as long as it has not
committed itself (spending takes the lock), and that the stretch in
`cpu` that is about to revoke belongs to a request in `committing`. Recovery
never revokes: it only finishes or aborts. The hypothesis `MayLapse = FALSE` is
needed, as `replacement_lapse` shows. The assumption about `Anonymous` says that
a request without a requestId has a key of its own.

`CallServiceProofs.tla` proves, for every set of tags, wallets, calls and devices,
every limit and any number of restarts and failed saves, from
`CallServiceAssumption` alone:

* `TypeCorrect`: `Spec => []TypeOK`. It needs `Placed`: a call that exists has a
  tag, and no call is forgotten while an accept is still hashing for it.
* `EngagedWhileRinging`, `InvitesRing`, `RevokeSilences`: `RingIsUnique`,
  `NoStaleInvite` and `RevokedIsSilent` always hold. They are proved together
  (`RingInv`), because each leans on the others: the engaged mark leads a revoke
  to the call it must end, so a revoked tag is silent only as long as the mark
  and the state of the call agree. What is added is that an invite sits in the
  mailbox of the wallet its tag belongs to (an accept cleans only that one), and
  that a revoked tag is neither in memory nor about to be stored. Every way a
  call can stop ringing is one case of `StopsRinging`, so the argument is made
  once and each action only shows that it is such a step.
* `ActiveWasConfirmed`: `Spec => []ActiveIsConfirmed`. An accept that finishes
  late puts a call back to `ACCEPTED`, so the invariant
  `StageInv` says per stage what the call has been through, and not that it
  passed each stage once.
* `BothAreTold`: `Spec => []BothSidesTold`. What is added (`ToldInv`) is that a
  ringing call has not been accepted, so that the caller who cancels it has no
  callee to tell through the call's mailbox.

`ReplacementJournalProofs.tla` goes on from there, with `MayLapse = FALSE` in
every theorem: two requests whose lease has lapsed write one key, and nothing
below survives that.

* `ResultSurvives`, `EntriesAreResolved`: `DecidedIsRecoverable` and
  `JournalNotOverwritten`. What has to be added to `SpendInv` is the lease of the
  requestId: whoever is past the recovery holds it, found its key clean, and has
  the synchronous stretch to itself; all of a transaction's tags are there or
  none; and each step of `commitReplacement` and `txnFinish` knows what the
  steps before it have written (`StepKnows`).
* `RepeatIsNotRefused`: `RetryNeverRefused`, from that and the fact that nothing
  is ever taken off the revocation list.
* `Implementation`: `Replacement` implements `AtomicReplacement`. Every step maps
  to the atomic transaction (the revoke of a spend, the journal entry of an
  issue), to an answer, to an operator's revoke, or to a stutter.
* `CapKept`: `CapRespected`. The set whose size is bounded is not the holdings
  but `Claims(o)`: what is issued to an owner, journalled for it, or being signed
  for it; only the holder of the owner's lease adds to it, after counting.

`FileTransferProofs.tla`, for every set of requests, keys and challenges:

* `TypesHold`: `TypeOK`.
* `ItemKeptOnce`: `Overlap = FALSE => (Spec => []ValueKeptOnce)`; without the
  hypothesis `file_overlap` is the counterexample. `RecordTells` says, for each
  state of the export record, what the registry, the revocation list, the claim
  record and the owner's copy can be; `OneSpend` and `OneClaim` that nobody else
  has spent or claimed.
* `Implementation`: `FileTransfer` implements `OneItem`, under the same
  hypothesis and from the same invariant. Three actions map to steps that change
  the form (`RevokeOriginal`, `SpendCommits`, `CreateClaim`), `AnswerClaim` to a
  reply, an operator's revoke to `Destroy` or, for a file that has been claimed,
  to a stutter; every other write and every stop is a stutter. `file_recovery`
  checks the same property.
* `ClaimersAreServed`: `RetryGetsIt`, without the hypothesis.

`DeliveryProofs.tla`, for every set of deliveries and originals, any number of
sweeps, stops and failed writes, and without hypotheses: `TypesHold`,
`OneIsUsable` and `ValueIsKept` (`TypeOK`, `NeverBothUsable`, `NeverLost`). The
invariant is `EngineInv`. `RevokesFirst` holds whatever is written back: no
record, on file or in a document some run has read, says `original-revoked` or
`delivered`, and no copy is listed, before the original is revoked; and nothing
is ever taken off the revocation list. What is said of one record (`Tracked`) is
said of those not in `undone`, and of one original (`OneActive`, `Accounted`) as
long as none of its deliveries is. `AcceptedMovesForward` has no theorem:
`delivery_undone` is its counterexample.

`PresenceProofs.tla`, for every set of sessions and visits and every limit,
without hypotheses:

* `KickedOut`, `ListenersAreServed` and `MutedAreSilent` (`KickedStaysOut`,
  `ListenerMissesNothing`, `MutedIsSilent`). A mute holds because it is kept under
  the very name the sender is looked up by (`Named`); a listener misses nothing
  because the numbering starts again only in an empty chat (`Numbered`).
* `RemovedAreTold`: `RemovedIsTold`. The invariant is `Graveyard`: of the removals
  from the m-th on, at most `buried` - m still have a stone (`Sparse`), so
  whatever goes when there are more than `MaxTombs` has at least `MaxTombs`
  others that were removed with it or after it; hence the youngest `MaxTombs`
  removals of keys still kicked all have their stones.
* `TypesHold`: `TypeOK`, which bounds the history, the restrictions and the
  stones by their limits and says that a connection's own flags agree with the
  rooms (`Seated`, `Counting`, `Limited` and `Graveyard`).

`TradeProofs.tla`, for every set of claims and wherever the balances were issued:

* `TypesHold`, `BalanceSpentOnce`: `TypeOK` and `SpentOnce` (`TradeInv`). At the
  station the spend lock keeps a checked balance unspent until the claim settles
  it (`Holding`); at the other domain the lock is held from the check to the end
  of the request, as long as no request has outlived its connection, which
  `SpentOnce` asks (`Relayed`).
* `AnswersStand`: `AnswerStands` (`LeaseInv`). Of the claims that share a
  requestId one at a time has the lease, and none gets past it once the outcome
  is stored.
* `ClaimSettlesBoth`: `SettledMeansBoth` (`PayInv`), which says itself that no
  request has outlived its connection. Then every request at the other domain is
  the one its claim is waiting for (`Connected`); a claim past a step has what the step secures, and keeps it, since only the holder of
  the spend locks releases or settles it; and the money is where `pc` says.
* `PosterPaid`: `PosterIsPaid` (`CalmInv`), which says itself that besides nothing
  stopped and at most one message was lost. What is added is what a failed try
  tells: if nothing has been lost yet it was refused, and a second try that fails
  has left nothing settled.

`WalletOpsProofs.tla`, for any number of pages and requests, without hypotheses:
`TypesHold`, `ResultIsKept`, `NothingSpentIsOffered` and `CarriedOutOnce` (`TypeOK`,
`CommittedIsKept`, `SpentIsHeldBack`, `OneResultPerRequest`). `Endings` says for
the list and for a backup alike of an entry that is gone: if the request has not
been carried out, nobody can send it any more and no copy of it is slow (`Out`),
unless it is `loose`; if it has, its result is in the list or spent.
`IssuerKnows` says that what was carried out can be told from a repetition until
it is old, after which a unique mint is on its way (`Sent`) only if a person asked.

TLC checked every inductive invariant above on the instances of the runs
(those of `Replacement` where no lock lapses, those of `Trade` also with two
losses and a stop). That found what a proof attempt would have been slow to say,
for instance the two losses that `PosterIsPaid` now excludes.

Only model-checked: liveness (`NothingStaysHeld`, `CallsAreForgotten`,
`EveryDeliverySettles`, `ClaimsEnd`, `EntriesSettle`, `SeatsAreReleased`), which
the prover cannot treat. Every invariant and every action property of a passing
run is a theorem. The parameters of a theorem are any that satisfy the named
assumption of the module (`ReplacementAssumption` and its like), which TLC
evaluates in every run. Where no theorem can be stated without a hypothesis
(`MayLapse`, `Overlap`), the code does not guarantee the hypothesis, and
`replacement_lapse` and `file_overlap` show what happens without it.

## Not modelled

Signatures, formats and policy tables (a check passes or not); the pruning of
old replay records, delivery records and mailboxes; the mail conversation beyond
its outcome; bounces; the long poll of the call service, its mailbox limit, rate
limits and TURN credentials. A spend lock lapses in `Replacement`, and with
its connection at the other domain in `Trade`; in `FileTransfer` and at the
station of `Trade` it is held to the end of the request, and in `Delivery` there
is none. A connection that stays open longer than the 60 s a lock is held
(`SPEND_LOCK_HOLD_MS`) is in `Replacement` only.
Suspensions are modelled where they are used (the freeze of a delivery, the
trade-lock), not as a list that an operator edits; `FileTransfer` has none. Of a
trade, memberships, quantities and remainders are left out, and a failed write
at the station. The archive of spent items and its notices decide nothing. Of the
wallet, mints at an issuer that does not list `issue-unique` (sent once and not
journalled), what brings credentials in by other ways (gifts, drops, purchases,
verification of what a backup restored), encryption and sync are left out; of the
presence server grants, limits per source, the issuer's status, positions and the
audit file's format; its restart empties everything. A rename that was written but
not yet flushed is taken as durable.

Components without a module, with the reason, are in `PROJECT.json`. The bulk of
the repository's lines is there: the 3D viewer and its glTF reader, the content
scripts, the generated catalogue, the PHP ports (a second implementation of the
same protocols over a database) and demonstration routes, which render, translate
or repeat, and keep no protocol state of their own. Two have state that a
module could follow and are left out for their weight: the supply counters, where
the only loss is a gap, and the client side of a call, whose states are the
browser's.

## Plan

Done: `Replacement` and `FileTransfer`, each with its abstract specification,
`CallService`, `Delivery`, `Trade`, `WalletOps` and `Presence`, each with its proofs
of every safety property that its run checks.

An abstract specification of a delivery or of a trade would have to say when
two forms of a value are both good, or one leg is settled alone, which the
findings show to be possible; what holds of them is stated by their properties,
with the disturbances they bear.
