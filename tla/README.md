# Formal models of the Wormhole TypeScript SDK

TLA+ models, TLC configurations and TLAPS proofs for the part of the SDK in which
something can go wrong over time: quoting a transfer, submitting it, waiting for what the
chains, the guardians and the services make of it, showing its progress, and completing it.
The SDK runs in one event loop, so the concurrency is that of promises: between two `await`s
nothing interleaves, at an `await` everything may, and the world outside never stops.

Paths are relative to the repository's root (`src/` in PROJECT.json); `tokenTransfer.ts`,
`cctpTransfer.ts`, `gatewayTransfer.ts` stand for the files under `connect/src/protocols/`.

## 1. Inventory of the system

| Component | State it keeps | Operations | Hard behaviours | What makes it correct |
|---|---|---|---|---|
| Polling, `connect/src/tasks.ts` `retry()` | `retries`, the interval timer, the promise | call the task; on null poll it every `interval` | callbacks overlap when a call is slower than the interval; answers out of order; the timer must die | settled once, by the first answer, in time; no call after that |
| Lookups, `connect/src/wormhole.ts`, `whscan-api.ts`, `circle-api.ts` | none | `getVaa`, `getTransactionStatus`, `getIsVaaEnqueued`, `getCircleAttestation`, `parseMessageFromTx` through `retry()` | late, missing or failing answers of services that lag behind the chains | null for "not yet", an error for "never" |
| Submission, `connect/src/common.ts` `ssw()` | buffer, txids | pull transactions from a generator, batch the parallelizable ones, hand batches to the signer | order against concurrency; failures between batches | order kept, success means all executed, txids in order |
| Solana signers and `sendWait`, `platforms/solana/src` | attempts, block hash | sign, send, confirm, resubmit | expiry, lagging nodes, concurrent confirmation | bounded, ordered, nothing forgotten |
| Token transfer object, `tokenTransfer.ts` class `TokenTransfer` | `_state`, `txids`, `attestations` | `from`, `initiateTransfer`, `fetchAttestation`, `completeTransfer`, `getReceipt` | the state is checked before an await and written after it | the state is true; with one caller it never goes back |
| Token transfer tracking, `TokenTransfer.track()` | the receipt | one section per state, a yield after each answer | several services that see the world at different times; exceptions that must not lose progress | receipts true, monotonic, and final in the end |
| Completion loop, `connect/src/routes/common.ts` | the receipt | drain `track()`, redeem, wait, again | racing other redeemers; redeems that land unconfirmed | one redeem at most; an attested transfer ends |
| Routes, `connect/src/routes/**` | quote, last request | validate, quote, initiate, complete, resume, track | receipts of different ways to make them lack different fields | every receipt they make can be tracked |
| CCTP transfer, `cctpTransfer.ts` | as the token transfer, two kinds of attestation | the same methods, `track` | an automatic transfer runs two lookups, one of which fails at once while the other goes on; the state is overwritten backwards | an attested object holds what the destination accepts; receipts never go back |
| Gateway transfer, `gatewayTransfer.ts` | `ibcTransfers`, `vaas`, `_state` | the same methods | a chain of seven awaits over lists that other calls replace; a hop is found by its message, which others may have sent as well | each hop its own, all of them there, the state true |
| Resolver and request, `connect/src/routes/resolver.ts`, `request.ts` | none | `findRoutes` | routes that throw | every supported route found, in order |
| Chain contexts, `core/definitions/src/chain.ts` | cached RPC and protocol promises | `getRpc`, `getProtocol`, `sendWait` | a rejected promise stays cached | a failure is not for ever |
| Registry, `core/definitions/src/protocol.ts`, `platform.ts` | maps of factories | register, lookup | order of imports | one factory per key |
| Configuration, `connect/src/config.ts` | merged config | `buildConfig`, `override` | recursive merge | overrides win, the rest stays |
| Amounts, `core/base/src/utils/amount.ts`, and quotes, `connect/src/routes/**` | fee and gas between `validate`, `quote`, `initiate` | parse, scale, truncate, display; validate, quote, initiate | boundaries of decimals; dust; fees and limits that move between two lookups | no unit gained or lost; what is quoted is delivered |
| EVM and other platforms, `platforms/*/src` | nonce of a batch | sign, `sendWait` | signers that ignore failures | order kept |
| On-chain protocol clients, `platforms/*/protocols/*/src` | none in the client; accounts, allowances and coins on the chain | transfer, redeem, attest, as generators of transactions | what is read is stale when it is used; a run stops between two transactions and is repeated | at most one effect per run; what a run leaves does not stop the next |
| Codecs, addresses, constants, indexers, examples | none | build and parse bytes | none in time | out of a model checker's interest |

They interact by calls only. A route's `initiate()` builds a generator of unsigned
transactions and hands it to `signSendWait()`; its receipt goes to `track()`, whose lookups
go through `retry()` to the chains and Wormholescan; `checkAndCompleteTransfer()` drains
`track()` and calls the route's `complete()`, which is another `signSendWait()`. The
transfer objects (`TokenTransfer`, `CircleTransfer`, `GatewayTransfer`) are the older interface to
the same steps. The generators come from the protocol clients of the platforms.

The hazards, each at its line and with the properties that cover it, are listed in
PROJECT.json.

## 2. Modules

| Module | Models | Role |
|---|---|---|
| `RetryContract` | what a caller of `retry()` may rely on | abstract |
| `Retry` | `retry()` with its timer | implements `RetryContract` |
| `OrderedSubmission` | what `signSendWait()` promises | abstract |
| `SignSendWait` | `ssw()`, the signers of Solana, EVM and Sui, `sendWait()` | implements `OrderedSubmission` |
| `AtomicOperation` | what the caller of a protocol client's operation counts on | abstract |
| `ProtocolClients` | 46 operations of the clients of six platforms | implements `AtomicOperation` |
| `TransferStates` | `TransferState` and its order | shared |
| `TransferView` | what may be concluded from the states shown | abstract |
| `TransferTracking` | `TokenTransfer.track()` and `checkAndCompleteTransfer()` | implements `TransferView` |
| `TransferObject` | the `TokenTransfer` class and `getReceipt()` | implements `TransferView` twice |
| `CircleTransfer` | the `CircleTransfer` class, `getReceipt()` and `track()` | implements `TransferView` twice |
| `GatewayTransfer` | the `GatewayTransfer` class | implements `TransferView` |
| `Amounts` | `amount.ts` on digits and numbers | operators |
| `RouteQuotes` | `validate()`, `quote()`, `initiate()` of five routes | state machine over `Amounts` |
| `RetryProofs`, `SubmissionProofs`, `TrackingProofs`, `TransferObjectProofs`, `CircleProofs`, `GatewayProofs`, `ClientsProofs`, `QuotesProofs` | theorems | TLAPS |
| `MCRetry`, `MCSignSendWait`, `MCTracking`, `MCTransferObject`, `MCCircle`, `MCGateway`, `MCClients`, `MCQuotes` | instances | TLC |

In all of them an action is the code from one `await` to the next. An operator that follows
the word "Mutant" in a comment is a plausible bug in the definition below it; PROJECT.json
names the property that notices it. Nothing else uses such an operator.

### Retry

`Tick` is a callback of the interval timer up to its `await task()`: it gives up when
`retries` has reached `floor(timeout / interval)`, and starts a call otherwise.
`CallAnswers` is the rest of the callback (or of the first call) when the task says null, a
value, or throws. Time is counted in intervals. The constant `Latency` bounds how long a
call may take; the code has no such bound, and the deadline is stated relative to it.
`MaxTicks` bounds the callbacks, and `Deadline` shows that the bound never decides anything.
`RetryContract` has neither timer nor order of calls: an answer settles the promise if it is
the first that is not null, and giving up takes more nulls than the quota of retries.

### SignSendWait

The plan is a function from 1..N to the flag `parallelizable`; every plan is an initial
state, those of `postVaa()` (signature verifications, then the posting, then the redeem)
among them. `Pull`, `Drain` and `SignSendReturns` are the loop of `ssw()`. The pending
`signSend()` is the variable `batch`; each transaction has a client's side (`call`) and a
chain's side (`status`), which go on independently: a client may throw while its
transaction lands. The variable `signer` chooses between five ways to send a batch:

- `SolanaSendSigner.signAndSend()`: one after the other, with up to `MaxResubmits` attempts;
- `SolanaSigner` with `sendWait()`: all at once, and after a failure the others go on unobserved;
- `EvmNativeSigner` with `sendWait()`: one after the other, each waited for, for ever if need
  be;
- `CeloSigner`, the same on Celo and Tempo, where the waiting times out after two minutes; it
  stands for Aptos, Cosmwasm and `SuiPlatform`, too, which have the same loop and whose clients
  give up by themselves. None of them yields parallelizable transactions;
- `SuiSigner.signAndSend()`: the digest of a failed transaction is taken like any other, as
  it is by the signer of XRPL.

Which errors are `retryable()` is a choice of the environment. A transaction whose
prerequisites have not been executed cannot succeed. In `OrderedSubmission` a transaction is
first submitted when everything it needs is executed: everything before it, except the run of
parallelizable transactions it belongs to. A failed call promises nothing about what is under
way. For Sui, "executed" is weakened to "executed or failed": that is what is left of the order.

Not modelled: priority fees, gas prices, the block hash itself (expiry is a choice of the
chain), and that a resubmitted transaction may land twice (a Solana transaction is identified
by its signature, and its copies under an older block hash are taken as expired).

### ProtocolClients

A client's operation is an async generator. Here it is a sequence of steps: each reads the
chain once and yields groups of transactions (a group is what is sent together). A
transaction is a record of the facts it needs, those that must be absent, what it adds and
removes, what it approves and spends, the version of a coin or sequence it is pinned to, and
whether it moves the tokens. `facts` are accounts, posted VAAs, claims, registrations; the
`allowance` is the one number on the chain that matters. Between the read and the execution
`OthersAct`, and so may another run of the same operation.

`Ask` is a step; `Guess` the same with a failed lookup that the code catches and takes for a
"no" (`getOriginalAsset` on Solana, `isWrappedAsset` on EVM, account lookups on Algorand).
`Interrupt` ends a run between any two awaits; what it had in flight becomes `loose` and may
land at any time or never. `Revert` is what a simulation or the chain refuses. The next run
(`Start`) begins from what is on the chain. There are two parties, the receiver and somebody
else; where the client lets only the receiver act, the other gets `Refused`.

What an operation finds and does not bring about is among the `facts`, too (`Given`): whether a
VAA has a payload, is for a token of the redeeming chain (`Home`) and was sent by the address
that receives it (`FromReceiver`); whether a token of Algorand is ALGO itself, and whether the
account that keeps it for the bridge is there (`Custody`), opted in and funded. The client of
EVM compares `vaa.payload.from`, the sender on the source chain, with the redeemer
(`EvmRedeem`), and that of Algorand never sends the transactions that would create the
custody account (`AlgorandTransfer`). `Barred` lists the runs that cannot succeed for such
reasons; `CleanRunSucceeds` is about all others.

### TransferTracking

`world` holds the facts: the message, the governor's hold, the VAA, the redeem, whether
Wormholescan has indexed the destination transaction, and the relay's status. It moves at
any time. `asked` is the world at the moment of the pending call, so `Seen(f)` is what its
answer may say: the old value or the new. The actions follow `track()` section by section;
each ends at the next `await`, at a `throw` or with the drained generator. Successive
yields without an `await` between them are one step, and the application sees the last.

`mode` says who is asking, and never changes. With `driver = "track"` the application keeps
what was yielded before an exception; `"check"` is `checkAndCompleteTransfer()`, which is
called again with the receipt it was given when an exception ends it. `protocol` is the manual
or the executor route, `signer` whether the loop may redeem, `others` whether other users
redeem, and with `faults` any service may fail any call, the destination node may answer from
an older state, and a redeem may land without being confirmed. `Starts` are the ways to a
first receipt: `initiate()`, `resume()` by transaction, and `getReceipt()` of an object found
by message id.

The messages of `throw`s are kept only to tell them apart. Timeouts are the choice to answer
"not yet". `redeems` counts to 2 and stays there.

### TransferObject

A caller's pending call is its `pc` and the transfer it is `about`. Between two awaits a
method reads and writes `state`, `origin` and `destTx` (what is in `txids`), `id` and `vaa`
(what is in `attestations[0]`). Transfers have numbers because an object may send more than
one (`MaxTransfers` bounds them). With `Faults` a submission may land and still throw.
`from()` is in `Init`: an object that was found has gone through the `fetchAttestation()` it
ends with. `users` are the callers of a behaviour: one, or several with overlapping calls.

### CircleTransfer

As `TransferObject`, with what `cctpTransfer.ts` does differently. `fetchAttestation()` is
allowed in every state from `SourceInitiated` on and writes `Attested` before it asks the
destination, so that the state of a final transfer goes back and returns. The lookup of a
message and of Circle's signatures puts both into a list of its own that then replaces the
object's: `Assigns`. For an automatic transfer `Promise.all` starts two lookups, of which
that of the VAA throws at once; the other becomes `detached` and fills the object behind the
back of a caller that has got its error. `completeTransfer()` records transactions and leaves
the state alone. `track()` is a second actor with a receipt of its own (`shown`, `tpc`): it
starts from the object's receipt, or from the one a route's `initiate()` makes.

### GatewayTransfer

A transfer goes through Wormchain: into Cosmos (`"in"`), out of it (`"out"`), or from one
Cosmos chain to another (`"hop"`). `Route` is what happens to it, in order, and `stage` how
far it is. `fetchAttestation()` is one action per await: the IBC bridge's address, the packet
of the source transaction, the message, the VAA, the transaction on Wormchain, the packet on
the destination. The hops found are pushed to `ibcTransfers` (`hops`), which the first step
of a transfer from Cosmos replaces. A transfer from outside has no id on Wormchain: its
transaction is searched for by the gateway message in its payload, and another user's
transfer (`Foreign`), done already, has the same message but for the nonce. `batched` are the
relayers that put packets of several transfers into one transaction, of which the code takes
one by position. `from()` is in `Init` with the message it rebuilds (`RecoveredMsg`).

### TransferView

Facts happen once; the state shown follows them. A shown state has its fact behind it
(`Justified`), and the next one `Follows`: further on in the enumeration, or `Failed` before
anything happened on the destination chain, after which only the destination states can
come. The token object's two views are `_state` and the state of its receipt, the Circle
transfer's its receipt and its tracked receipt, the gateway transfer's its `_state`.

### Amounts, RouteQuotes

`amount.ts` does half of its arithmetic on the string of digits and half on the number, so
both are modelled: a string is the sequence of its digits, and `Value` (`BigInt(s)`) and
`Digits` (`n.toString()`) convert. These two and `TenTo` (`10n ** k`) are functions defined by
recursion on all strings and numbers, and what they compute is derived from their definitions
in `QuotesProofs`.
`ScaleIsExact` and `DisplayParses` compare the two on every amount a quote involves.

`RouteQuotes` takes an application through `validate()`, any number of `quote()`s and
`initiate()`, for the manual and the executor token bridge routes, manual and automatic CCTP
and tBTC. The token of the first two may be its chain's own (`native`): then what is charged in
that token, the executor's cost, the referrer's `nativeTokenFee` and the fee of the message, is
paid with it (`OnTop`). A referrer may charge either fee, both or none. A wrapped token has the decimals of its origin or, if these are more, those the
bridge carries. The relayer's fee and the limit on the gas to drop off move between the calls,
and between the two lookups of one executor quote. `Initiate` is what the contracts make of
the amounts: what the bridge cannot carry stays with the sender, the relayer takes its fee as
of then, and refuses a transfer it would keep all of.

## 3. Runs

CHECK_DEADLOCK is off where the code is done: promise settled, plan submitted, transfer
final, runs used up.

| Run | Instance | Shows |
|---|---|---|
| `retry` | timeout 7, interval 2: 3 retries; latency 2 | overlapping calls, late answers: settled once, by the first, in time; timer stopped; contract implemented |
| `submit` | 4 transactions, every plan, 5 signers, 2 attempts | order, success, txids, termination but for dropped EVM transactions |
| `clients` | 46 operations; two runs of one party, one of the other; faults | an operation takes effect at most once per run, a run that returns has taken effect, what an interrupted run leaves does not stop the next (unless it is `Barred`), no allowance is left |
| `tracking` | every mode: protocols, drivers, signers, redeemers, faults; all starts | receipts true, monotonic, well formed; redeems and failed relays shown; one redeem at most; an attested transfer ends |
| `object` | up to 3 callers, symmetric; 2 transfers; all starts; faults | the state true under any interleaving; with one caller, state and receipt implement `TransferView`, and attested means completable |
| `circle` | 1 or 2 callers, 2 transfers, manual and automatic, all starts, faults | attested means redeemable; both receipts implement `TransferView`; the detached lookup attests; a completion is seen |
| `gateway` | 1 or 2 callers, 2 transfers, 3 directions, batching or not, faults | hops the object's own and complete, the state true and monotonic, what was initiated is attested |
| `quotes` | 5 routes; bridge with 1 decimal, tokens with 0 to 3; 20 texts; 2 fees, 2 limits, 4 gas shares, 4 referrer's shares, 2 native fees, native tokens and others | quotes delivered, paid what is quoted, resumed amounts right, valid stays valid |
| `v_opportunity`, `v_origin`, `v_optin`, `v_memo` | see below | disagreements with a comment or a type |

Bounds. Four transactions give all shapes of a run of parallelizable ones before, between
and after ordered ones, and an ordered one held while the buffer is flushed. Two attempts
have a last and a not last one. Latency 2 lets three calls be in flight. One transfer has
one VAA, and a second one is enough for an object's list to be replaced. Two callers are
enough for a check and a write to be separated; the third of `object` adds no new behaviour
that was seen. A party that repeats an interrupted operation while another runs it is what a
client meets in the end; an operation has four transactions at most. The bridge's one decimal
stands for its eight: dust, wrapped decimals and a token with fewer decimals than the bridge
carries all occur, and the texts include nothing, leading zeros, missing parts, amounts just
above a fee and more decimals than a token has. `gateway` sets fee and payload to none, since with them a transfer that is
found again is never found on Wormchain (`v_memo`), which would hide the rest.

Four runs find a disagreement with a comment or a type of the repository, listed as
findings in PROJECT.json:

- `v_opportunity`: `track()` throws "Attestation not found" (`tokenTransfer.ts:445`) also
  after it has found and yielded the attestation. Because of that exception
  `checkAndCompleteTransfer()` never redeems a manual transfer given to it as initiated;
  called again it starts from the same receipt.
- `v_origin`: tracking an executor transfer found by message id dereferences missing
  `originTxs`.
- `v_optin`: on Algorand `isOptedInToAsset()` answers whether the balance is above zero, so
  nobody else can redeem for a receiver who has opted in and holds nothing.
- `v_memo`: the gateway message that `from()` rebuilds from a VAA has lost the fee (and a
  payload is encoded once more), so a transfer on its way is searched for in vain.

Seen while modelling, with no run of its own:

- Submission: `retries: 0` of the Solana signer sends nothing and reports success, where the
  comment at `signer.ts:69` means one attempt; the signers of Sui and XRPL report failed
  transactions as sent; a batch on EVM is signed with nonces counted from one lookup. An EVM
  transaction that is never mined keeps `sendWait()`, and `signSendWait()` with it, pending for
  ever (`platforms/evm/src/platform.ts:193`), except on Celo and Tempo: `Settles` has that case
  as `Hangs`.
- Objects: a submission that lands while its confirmation fails is not recorded, and two calls
  of `initiateTransfer()` both submit. With two callers a `fetchAttestation()` that returns
  after a `completeTransfer()` writes `Attested` over `DestinationInitiated`, and the VAA of one
  message may be stored under the id of another.
- Tracking: `getVaa()` returns null where `connect/src/wormhole.ts:365` documents an error.
  The loop redeems an executor transfer while its relay is on the way, since `isManual()`
  holds of that route, too, and never completes one whose relay has failed, although
  `executor.ts:333` would.
- Gateway: a second `fetchAttestation()` of a transfer into Cosmos pushes the same hops again,
  and one of an attested transfer from Cosmos cuts the list before it fills it; a transaction
  with several packets gives another's; `from()` a message id always throws; the payload of a
  transfer within Cosmos is dropped; a message is kept when a transfer is initiated again.
- Clients: attesting on Aptos cannot be resumed after its first transaction; on Solana nobody
  but the receiver can create the account a CCTP redeem pays into. On Algorand the transactions
  that would create the account of a native asset go into a `txs` that shadows the group's
  (`tokenBridge.ts:453-469`) and are never yielded, so an asset has to be attested before its
  first transfer. (That the bridge has no use for an account that is not there is not in this
  repository; the model takes it for a refusal.) On EVM a transfer with a payload, of a token of
  another chain, can be redeemed only by an address that is both the receiver, which the
  contract demands, and the sender on the source chain, which the client does
  (`tokenBridge.ts:286-295`).
- Quotes: the tBTC route promises what the bridge cannot carry; the 5% margin `validate()`
  adds to the fee rounds to nothing below 20 units (hence `FeesAssumption`); a fee that rises
  between `validate()` and `quote()` can make the quoted amount negative. The referrer's
  `transferTokenFee` is taken out of the amount asked for, where `connect/src/types.ts:230`
  speaks of fees "paid to the referrer on top of the transfer"; it is so only in that the bridge
  is handed the remainder (`executorTokenBridge.ts:162-166`). The `nativeTokenFee` does come on
  top, in the same token if that is the chain's own. `sourceToken.amount` has neither that fee
  nor the executor's cost, where `types.ts:207-209` has it "include fees charged for a full
  estimate of the amount taken from the sender"; the quote names them apart (`relayFee`,
  `referrerFee`).
- Contexts: `getRpc()` keeps the promise of the first connection also when it is rejected.

## 4. Fairness

`Retry`: a due timer fires, and a call that may answer does (the event loop; for the calls
this is the assumption `Latency`). `SignSendWait`: `ssw()` goes on, and node calls are answered,
but nothing makes them fail. On Solana a transaction in flight is executed, reverts or expires
in the end, which its block hash guarantees (`Outlived`), and who waits sees it. Elsewhere a
transaction may stay in flight for ever; who waits with a timeout gives up (`TimesOut`), who
waits without, on EVM, need not.
`TransferTracking`: the source chain shows the message, the governor releases what it holds
after its delay, the guardians sign, Wormholescan indexes, the executor decides, and
pending calls return; with `faults` only safety is claimed, as a service may fail for ever.
The application calls again after an exception; that is an assumption about the application.

`CircleTransfer`: the chain shows the message and Circle signs it, calls return, and the
application goes on fetching and tracking. Its lookups are strongly fair, because each call may time
out just before the answer: who asks again and again gets it some time. The same holds of
`GatewayTransfer` for each of its lookups; there the relayers and guardians are weakly fair.
In no model does anybody have to redeem, or the governor to hold. `ProtocolClients` and `RouteQuotes` state safety only, `TransferObject` too.

## 5. Theorems

For every value of the constants, under the named assumptions of the modules (numbers are
naturals, an interval is positive, flags are Boolean, starts, protocols, operations and routes
are among those listed, texts are digits before and after a point, shares of the gas are at
most the whole, what the referrer, the executor and the core contract charge are natural
numbers, and the fee of the automatic CCTP relayer is large enough for the 5% that
`validate()` adds to come to one base unit: 20 base units, that is 0.00002 USDC).

- `RetryProofs`. The invariant ties the timer to the promise and the first call
  (`TimerInv`), the calls to the callbacks (`CallInv`), bounds the age of running calls
  (`AgeInv`), and says that `retries` is the number of answered callbacks (`CountInv`). The
  deadline needs the last two: at callback `MaxRetries + Latency` the first `MaxRetries`
  calls have answered, so all of them are counted. `RetryImplementsContract` follows since giving up
  finds `MaxRetries` counted nulls besides the first.
- `TrackingProofs`. `StaleInv` (facts only grow, so an old answer is still true if
  positive), `CausalInv` (facts in their order), `SectionInv` (which receipts can be at
  which await), `TruthInv` (a receipt's state is justified) and `OrderInv` (what is running
  follows what is shown). From them the types, the refinement of `TransferView`, and, without
  faults, that the loop redeems once.
- `SubmissionProofs`. The txids, the batch, the held transaction and the buffer are, in this
  order, the transactions pulled so far; everything before the batch has passed. For
  the signer of EVM a call that has returned has executed. The refinement and the order of the
  txids assume `Trying`, at least one attempt: with `MaxResubmits = 0` the sending signer skips
  transactions.
- `TransferObjectProofs`. For any set of callers: pending calls are about transfers that are
  as far as the call needs (`CallInv`), so what they write is true. For a single caller
  `OwnInv` and `OwnCall` say that the object and its call are about one transfer; from them
  the refinement of `TransferView` by state and receipt.
- `CircleProofs`. `WorldInv` orders messages, signatures and redeems. `CallInv` covers the
  pending calls and the detached lookups alike. `HeldInv` says that message and signatures
  in the object belong together, which `AttestedIsRedeemable` needs to be inductive: a list is
  only ever replaced as a whole. `OwnInv` and `OwnCall` are for one caller, whose detached lookups are
  about its own transfer. `TrackInv` ties the tracker's place to the receipt it has shown.
- `GatewayProofs`. `WorldInv` keeps the nonce of the message the object looks for, so that
  only its own transfers match; with `CallInv` (a lookup is about a transfer of the object, or
  one that was batched with it) this gives `HopsAreMine` for any number of callers. For one
  caller `WayInv` says what each await has already collected, which gives `AttestedIsWhole`, and
  `StageInv` which state a pending call has found, which gives the refinement.

- `ClientsProofs`. Two operators say all that the proofs need of the 46 operations. `Regular`:
  whatever has been read, only the last step yields a transaction that moves the tokens, one,
  alone in its group and behind all others. `Smooth`: if the chain has been read as it is, what
  a step yields can be executed. Both are proved operation by operation (the `Yields...`
  lemmas). With the first, `MInv` holds for any number of runs with faults, interruptions and
  loose transactions: a run has moved the tokens only if nothing of its last step is queued or
  under way any more, and a run that returns has. That gives `ImplementsOperation`, for each run
  of both parties. `CInv` adds, for runs that nobody has disturbed, that what they have queued
  can execute in its order, whatever earlier runs have left on the chain, and that the allowance
  is either as it was found or what the transfer is about to spend; that gives
  `CleanRunSucceeds` and `NoApprovalLeft`. Of the runs that are `Barred` nothing is claimed: an
  attestation of Aptos, a redeem by somebody else where only the receiver may, that of a payload
  of a foreign token which the receiver did not send on EVM, and a transfer of an asset of
  Algorand that was never attested.
- `QuotesProofs`. The library's induction theorems are out of reach of the provers, but
  that a well-founded relation has minimal elements (`WFMin`) is not: induction is stated for
  sets of numbers (`SetInduction`), and from it follows that a function defined by recursion
  exists and is unique (`RecursiveFunction`). That gives `TenTo`, `Digits` and `Value` their
  equations, hence the value of a concatenation (`ValueConcat`), `Value[Digits[n]] = n`, and
  that a string without leading zeros is the digits of its value (`DigitsValue`). `ScaleExact`
  and `DisplayIsParsed` are about every amount of any length, not only the ones of a run.
  `QInv` is the invariant of the routes: the decimals of both tokens are the same on the wire
  (`RequestInv`), what was validated leaves something at the fee it was validated with
  (`ParamsInv`), a quote is what its route makes of the params, the referrer's fee being a
  multiple of what the bridge can carry (`QuoteInv`), and where the calls may end
  (`OutcomeInv`). The six properties of the run `quotes` follow from it: what remains after the
  referrer's fee is a multiple of the bridge's unit, so scaling it loses nothing
  (`CarriableScales`) and the bridge takes all of it (`CarriedIs`). `SenderPaysTheQuote` says
  that the sender pays the quoted amount, the referrer's fee in that token included, and on top
  of it what is charged in the chain's own token, if that is the one sent.

The invariants `IInv`, `MInv`, `CInv` and `QInv` were checked with TLC on the instances of the
runs before they were proved.

Only model-checked: the liveness properties (`Settles`, `RedeemedIsShown`,
`RelayFailureIsShown`, `AttestedIsFinalized`, `AutomaticIsAttested`, `CompletionIsSeen`,
`AttestationArrives`), which need fairness and ENABLED, about which the prover cannot reason.
Every invariant and every action property or refinement that a passing run checks is also
stated by a theorem.

## 6. Not modelled

- The parts of the on-chain clients that build bytes: instructions, accounts, contract bindings
  and IDLs. Bindings and IDLs are generated, and with the tables of chains, contracts and tokens
  they are most of the repository's lines.
- `submitAttestation()` of Algorand: its group has none of the transactions that verify the VAA
  in `redeem()`, and what the contract makes of that cannot be told from this repository. The
  calls for native coins of EVM, Solana, Sui, Aptos and Cosmwasm, which need no approval and no
  account of the token where the others do (Algorand's, which read other accounts, are
  modelled), and the queries.
- Tokens that refuse an approval while another is in force, as USDT does on Ethereum: an
  approval replaces the one before it.
- Stacks, XRPL and Bitcoin, but for the way the signer of XRPL sends; gas prices and replacement of EVM transactions.
- Portico's swap quotes, which come from outside, and the tracking of Portico and tBTC
  transfers, which resembles that of the token bridge.
- `finalize()` in the completion loop: no route of the repository has one.
- The resolver, which filters routes by what they report and keeps no state; chain contexts;
  registry, configuration, codecs, addresses, indexers: no state that changes, or one that is
  written once before any await.
- Conversions of amounts through floating point numbers (`denoise()`, `whole()`).

## 7. Plan

Done: polling, submission, tracking, the token transfer object, the Circle and the gateway
transfer, the clients' operations, amounts and quotes.

1. `UserRedeemsOnce` and its like for the object: at most one redeem per transfer of several
   cooperating callers.
2. What `Display` shows besides parsing back: that it has as many decimals as asked for, and no
   superfluous zeros.
3. The native variants of the clients' transfers.
