# A verification development of distributed-market

TLA+ modules, TLC runs and TLAPS proofs about the code of the repository: the single-engine
guarantee from the lock to the cluster, the life of an order from the client's text to its journal
line, the money arithmetic of a market buy and the records it leaves for replay, ledger and market
data, the gateway's readiness check, and identifiers. `PROJECT.json` lists components, runs, mutants, the
map from definitions to source lines, findings, hazards and theorems.

## 1. The system

The repository is the first phase of a small USD/CAD venue: four services around a shared
library. Deployment is real, the trading logic is a library of immutable records and integer
arithmetic, and the engine's matching loop, the journal and the ledger's books are not
written yet.

| Component | State it keeps | Operations | Talks to |
|---|---|---|---|
| `service_common/single_writer.py` | `_fd`; the kernel's `flock` on `<data_dir>/.lock`; the pid in that file | `acquire`, `release` | other processes, through the file and the kernel |
| `engine/main.py` | the lock, a heartbeat task, `engine-heartbeat.json` | `run`, `lifespan`, `_heartbeat` | uvicorn, the volume, the restart policy |
| `market_core/orders.py`, `enums.py` | one immutable `Order` per call | `fill`, `cancel`, `reject`, `open_on_book`, `crosses`, constructor checks | the (future) matching loop |
| `market_core/units.py` | none | `notional_cad`, `affordable_quantity`, parsing and formatting | orders, the matching loop |
| `gateway/main.py` + `service_common/app.py` | nothing between requests | `/readyz` → `check_peers` → one `_peer_healthy` per peer | engine and ledger over HTTP; the kubelet probes it |
| `market_core/events.py` | none | event records, order (de)serialisation | the (future) journal, ledger, market data |
| `market_core/instruments.py` | the loaded configuration | quantity, price and band validation | the (future) order path |
| `market_core/ids.py`, `clock.py` | none (counters in tests) | ULIDs, client id validation | every service |
| `market_core/errors.py` | none | code → HTTP status table | API boundary |
| `service_common/settings.py`, `logging.py` | the environment, once | parsing, formatting | every service |
| `ledger/main.py`, `marketdata/main.py` | none | the common endpoints | the gateway probes the ledger |
| `deploy/`, `docker-compose.yml`, `scripts/` | cluster objects, one static PVC | start, restart, probe, scale, smoke checks | everything |

What is hard about it:

* **Concurrency between processes.** Two engines, or an engine and its successor, meet on one
  volume. `acquire` and `release` are several system calls; the other process may run, and
  either may be killed, between any two of them. What excludes is the kernel's lock on an open
  file description, what people look at is the pid in the file.
* **Crashes and restarts.** The restart policy restarts everything, refused engines included.
  A stale `.lock`, an empty heartbeat and a leaked descriptor are left behind.
* **Ordering at shutdown.** Signal, end of lifespan, end of the heartbeat task, `LOCK_UN`,
  `close`, exit.
* **State read across an `await`.** `/readyz` gathers two answers and replies when the slower is
  in; the kubelet may have given up on it before.
* **Sequences of calls.** An `Order` is changed by four methods that check different things.
* **One step, several records.** A fill is a trade, two fills and a change of the book in the
  journal; its readers lag behind, and market data may lose a record.
* **Numeric edges.** One floor, one nearest-cent rounding and one tie rule, summed over many
  fills, must respect a hard limit; decimal arithmetic rounds where the code reads as exact.

What makes each part correct, in one line each: at most one process believes it owns a data
directory and the kernel agrees; at most one engine runs and some engine eventually does; an
order's record is never one its constructor would refuse and its status agrees with its
quantities and to what the client wrote; a market buy never spends more than was reserved, and who
reads its records arrives at the same orders and balances; a readiness answer rests on what the
peers did, and the pod follows them; a listing of identifiers is chronological.

## 2. Modules

Each component has a module, an `MC` module and `.cfg` for TLC, and its theorems in a `...Proofs`
module that extends it. A definition with an underscore and a suffix (`Created_Truncated`,
`Verdict_Any`) is a *wrong variant* of the definition after it: the bug a property is there to
exclude. It is used by no specification; replacing the right definition by it must break the
property it is listed with under `mutants`.

### SingleWriterLock

`acquire` and `release`, one action per system call, for any set of processes. `phase` is the
place in the method, `fd` its local descriptor, `self_fd` the object's `_fd`, `open` the
descriptors a process has on `.lock`, `flock` the open description `<<process, fd>>` that has
`LOCK_EX` (or `Free`), `lockFile` the file's contents (`Absent`, `Empty`, or whose pid).

`Open` is `mkdir` and `os.open` with `O_CREAT` and without `O_TRUNC`; `FlockGranted`,
`FlockRefused` (`DataDirectoryLocked`) and `AcquireRaises` (any other `OSError`) are the outcomes
of the call at line 40, with the `except` branch that closes the descriptor; `Truncate`,
`WritePid`, `Acquired` follow, and `StampRaises` is an error in them, which leaks the descriptor
*and the lock*, as the code does. `Unlock` and `Close` are `release`, and `UnlockRaises` and `CloseRaises`
the errors in it: after the first nothing has changed; after the second the descriptor is gone (Linux closes it before it
reports an error) and `_fd` still names it, which no caller sees, because the exception leaves `run`. A holder
may call `acquire` again. `Start` and `Die` are the operating system's: death closes descriptors and keeps the file.

### EngineOwnership, EngineService

`EngineOwnership` is the promise: an owner that passes only through nobody, and a heartbeat file
that only the owner writes. It is implemented twice: by the processes on one node, where the owner is
the process of the flock, and by the pods of the cluster (below). `EngineService` is `engine/main.py` in several processes on one
volume: it instantiates `SingleWriterLock` and adds `stage` (where in `run` and `lifespan`),
`task` (the heartbeat coroutine) and `beat` (the file). `Boot`, `Acquiring`, `LockAcquired`,
`RefuseToStart`, `AcquireFails`, `Releasing`, `ReleaseFails`, `Exit` are `run`; `StartLifespan`, `StopLifespan`
the lifespan; `BeatTruncates`, `BeatWrites`, `BeatFails`, `BeatWakes` the heartbeat, whose
`write_text` is two steps to the outside world but does not await, hence `LoopFree`. `LockIsNotStranded` is about the descriptor that a failed
stamping leaks: the process that has it is on its way out and does not wait for the lock again. uvicorn is
external: `Bind`, `BindFails`, `Signal`. `Crash` covers a kill, the loss of the node, and the
signal that uvicorn raises again after its shutdown, which ends the process before the `finally`
clause. The engine process never calls `acquire` twice; the lock's re-entrant use is checked in
its own module. All three processes share one volume and one kernel: that is the situation on one
node, where the flock is the only defence left (deploy/README.md §5). `LoopRuns` is the resumption
of the generator by the wrapper in `service_common/app.py`.

### EngineDeployment, SingleEngineCheck

`EngineDeployment` is `deploy/k8s/base/engine.yaml` in a cluster. A pod goes through `stage` (absent,
pending, scheduled, waiting for its container, running, terminating); the other variables are per pod
too, except `replicas`. `CreatePod` and `ScaleDown` are the OrderedReady controller, which waits for
every wanted pod before the one it works on; `Schedule`, `Mount` (ReadWriteOnce: one node, any number of its
pods), `ContainerStarts`, `ContainerRefused`, `BecomesReady`, `PodGone` the scheduler and the kubelets;
`ContainerFails`, `ContainerDies`, `DeletePod` and `Scale` the disturbances. `Claim` says which
volume a pod gets: one static claim. An engine process is one bit here, `alive`: that it means a held
flock, which ends with the process, is what `EngineService` shows in detail (`OneEngine`). The pod's status
follows the process at once: that the kubelet notices a death later is left out. `Locked` sees
only the pods of the same node, because a flock is known to one kernel. `ImplementsOwnership` says
that the venue as a whole is an `EngineOwnership` whose owner is the pod with the process: ownership
passes through nobody also where it moves from node to node. The heartbeat is not in this model; its
value there is the constant `Absent`.

`SingleEngineCheck` extends it by `scripts/check-single-engine.sh`, one step per `kubectl` call,
with the cluster moving in between. The script may run any number of times. Its calls are assumed to
succeed. `first` is history: whether `engine-0` was ready from the scaling on, or lost its readiness
before the verdict.

### Order

One order, its record as the variable, and a step for every call that returns. A call that
raises changes nothing. `Legal` is `__post_init__`, which `replace` runs again on each transition.
Ids, timestamps and `reserved_cad` are left out: no method reads them.

`StatusTellsFills` is about steps, since `open_on_book` may revive a whole order as `PARTIAL` (finding 3): a step
that fills ends in `FILLED` if and only if it leaves nothing, and no step shows `FILLED` of an order with a
remainder or `OPEN` of one that traded or may not rest.

`Journal` is `order_to_dict` and `order_from_dict` of `events.py`. A dictionary is a record whose domain is its
keys. An enum's member and its text are different values (`Str`), and an enum's constructor finds the member of
that text or raises (`Member`). `cancel_reason` is converted only if there is one, in both directions; two keys
are read with `raw.get`, the others with `raw[...]`. `OrderFromDict` is a set of at most one order, empty where
a key is missing, an enum refuses a text or the constructor its record. `ReplayIsExact` takes the order
through both, with every reservation, and also with lines that lack the optional keys.

### Wire, Instruments, OrderEntry

`Wire` is the decimal text of `units.py`. A text in plain notation is a coefficient over a power of ten;
`NotFinite` is everything that `Decimal` refuses or that is infinite or not a number. What matters is
that `value * scale` is a decimal operation: `Rounded` brings its result to the digits of the context
(`LIMIT`), half to even, *before* line 73 looks for a fraction. `Parse` is a set of at most one number,
empty where `ValueError` is raised; `Format` rounds in the same way.

`Instruments` has the two validators and `WithinPriceBand`, whose reference is a set of at most one price.

`OrderEntry` puts them together: a request becomes an order when its texts parse, the validators and
the band pass and the constructor accepts, and then lives as in `Order`. The gateway's route that does
this is not written, so `Admitted` is external. The request keeps the reference price it met, because
the band is tested once and the fills come later.

### Units, MarketBuySweep

`Units` has the two integer functions. `MarketBuySweep` puts them to the use their docstrings
describe, with `Order` as the taker: makers come in any order, price and size, each fill is
limited by the maker, by what remains and by what is affordable with what is *left* of the
reservation, and it is priced once. The loop that does this is not in the repository, so it is
external and nondeterministic; the fills it may choose are the three limits themselves, whichever
is legal. `exact` and `fills` are history. `Reservation` is the abstract promise of a spending limit: an amount
set aside once, debits that eat into it and are never taken back, nothing after the order is
closed. The sweep implements it (`ImplementsReservation`), with closed for a terminal status. A taker is admitted by `ValidQuantity`, prices by `ValidPrice`, and what a maker offers is in whole lots:
every order starts with a valid quantity and both sides fill the same amount, so lots are left on both
sides (`LotsOnBothSides`, in the module below).

### EventFeed

The composition of the sweep with `events.py` and with the three readers its docstring names. The engine
meets a book of resting orders: `Match` writes a `Trade`, an `OrderFilled` for each side and a `BookDelta`, in
any of the orders of `WriteOrders`, because nothing in the repository fixes one; `PreventSelfTrade` cancels a
resting order of the taker's own account; `StopAtCap` and `StopAtEnd` end the sweep. `Trade`'s constructor
refuses a trade within one account by raising `ValueError` before anything is written: `TradeRecord` is then
empty, and the new records of the two orders are discarded with it. `Read` hands the next record to all readers:
`Replay` rebuilds orders by their identifier, `Settle` moves balances by the trades alone, `Show` sets a price's
quantity, unless the record was lost on its way to market data. Readers lag by any number of records up to
`MaxLag` and the last step's.

The records and the conversion of the accepted order are translated from `events.py`. The loop, the book, the
appending to the journal and the readers are not in the repository; they are external and do what the docstrings
say of them. `stale` is history: the prices whose last record was lost. `ReplayRebuilds` compares whole orders,
with their terms, reservation and reason, at the end of the journal, and on the way there asks that every
order shown is an earlier state of the engine's (`Precedes`). Nothing is claimed about how far the replay
and the ledger are apart in the middle of a match: that depends on an order of writing which the
code has not chosen yet. `CapMeansSpent` says when the cap may stop an order: what is left
does not buy one more lot of what rests at some price, or just buys it.

### GatewayReadiness

One request at a time: `Check`, `PeerHealthy` per peer in any order, `Answer`. `peer` is how a
peer treats a request *now* and changes at any time. `slow` answers after the kubelet's one second and
within the gateway's two, `hung` after both. `malformed` peers have a URL httpx refuses, and only these raise. The kubelet counts
failures (`failures`, threshold 3 as in `gateway.yaml`; counting stops there, which is a bound of the model),
may give up on a request that still runs
(`GivesUp`), and moves the pod in and out of `rotation`. `witnessed` is history: which peers were
healthy, and which were not, at some moment of the request. Only peers make a request late: a
gateway or a network that is slow of its own is left out. `RotationHasCause` says that the kubelet acts
on the probe it counts and on nothing older: the pod enters rotation only if each peer was healthy at
some moment of it, and a failure is counted only if some peer was not, is slower than the kubelet
waits, or cannot be asked.

### Ids

ULIDs minted by any service at any time from a clock that is off by at most `SKEW` and may step back
within that; `created` is true time. `Encode` gives the digits that the loop of `divmod`s gives, as indices
into the alphabet. A directory listing compares them from the left (`Before`).

## 3. Runs

| Run | Instance | Distinct states | What it shows |
|---|---|---|---|
| `lock` | 3 processes, 2 descriptors each, symmetric | 761 | exclusion, belief backed by the kernel, the pid is the holder's |
| `engine` | 3 processes | 52 247 | one engine, heartbeat ownership, no stranded lock, refinement of `EngineOwnership`, an engine eventually serves |
| `order` | 3 digits, scale 10, band 10 %, 11 quantity and 12 price texts, three references, every type, side, time in force | 11 416 | legality, FILLED exactly by the fill that leaves nothing, OPEN only if untouched, fills and terms kept, exact journal lines; terms as written, fills worth what the band allows |
| `sweep` | scale 8, lot 2, four prices, three resting orders, one the taker's own, seven reservations, lag 4, two orders of writing | 1 120 176 | the spending limit, bounded drift, whole lots on both sides, refinement of `Reservation`; the cap stops only what is spent; replay, ledger and market data agree with the engine |
| `gateway` | engine and ledger, threshold 3 | 21 374 | evidence for answers, a cause in the probe for each move of the pod, rotation follows peers in the end, every check ends |
| `deployment` | two nodes, two replicas | 2 739 | one engine in the venue, refinement of `EngineOwnership`, some engine ready in the end |
| `single_engine_check` | the same, with the script | 27 524 | its alarm only when `engine-0` was not ready all along, `engine-0` returns alone |
| `ids` | base 3, 2 + 2 characters, 2 ticks a millisecond, skew 1, two ids | 119 236 | sorted up to the skew, collisions only by chance |
| `check_verdict` | one node | violation | "stayed ready throughout" is said of an engine that restarted |
| `heartbeat_loss` | one process | violation | a lost heartbeat is silent |
| `order_terminal` | as `order` | violation | `fill` and `open_on_book` leave terminal statuses |
| `parse_precision` | as `order` | violation | a text longer than the context's digits is admitted as another number |

Why the bounds are enough. *lock*: contention needs two processes, and a third shows that the
loser of one race may race the next; a process has at most one descriptor it holds or leaked and
one of a running `acquire` (the number of leaked ones is what two descriptors bound: with none
free, `Open` waits). *engine*: an engine, its successor and another contender; one descriptor
suffices because `run` calls `acquire` once per process life. Liveness rules out symmetry there.
*order*: five units allow five partial fills, with a re-opening between any two. Three digits stand for 28: texts
of one to five digits lie on both sides of them (`MaxExcess` = 4 is how far beyond they may go), with
ties and both directions of rounding among them; the references are none, zero, and one with prices at both
limits of its band and beyond. *sweep*: a scale of 8 stands for 100000 and keeps the half-cent ties (odd multiples
of 4), prices above and below a cent per unit, and reservations that end exactly, one short and at zero. Two
resting orders may share a price, which is what tells a level from an order, and the third is the taker's own,
between the prices of the others. A lag of four is a whole match, so that readers may stop at any record of it.
The records
of a match are written trade first and trade last, a permutation and its reverse. The theorems are for every scale, book, lag
and order of writing. `FillsNearReference` rounds the worth of all fills once, at the limit price, whereas the sweep rounds
each fill: what that adds up to is `DriftIsBounded`. *gateway*: the deployed peers and threshold. *deployment*, *single_engine_check*: the script
scales to two, and two nodes are what a second pod needs to land elsewhere; the theorem is for any
number of both. *ids*: the properties relate two ids; nine milliseconds carry into the first character.

Three runs turn deadlock checking off: an order that is filled or cancelled and may not rest has no
further call that returns, a sweep ends with its order and its readers at the end of the journal, and in `ids` time and the number of ids
are bounded by `MaxTime` and `MaxIds`.

**Fairness.** `engine`: the operating system runs every process and the restart policy
(`unless-stopped` in compose, `Always` in Kubernetes) starts every process that ended; a ready
callback of the event loop runs because its queue is first in first out although heartbeats recur,
which is strong fairness of `Progress`; timers fire, which is weak fairness of `Heartbeat`. Nothing
is assumed of failures, signals and crashes: `SomeEngineServes` promises service only if they stop.
`gateway`: the kubelet probes for ever, and a request to a peer ends at the latest with httpx's
timeouts, which is weak fairness of `Check`, `PeerHealthy` and `Answer`. The timeout applies to each
wait for bytes, so a peer that drips its answer is outside the model. Peers get no fairness.
`deployment`: controllers and kubelets retry for ever, which is weak fairness of their steps;
`SomeEngineReady` promises an engine only if evictions, failures and scaling stop.
`single_engine_check`: the script's calls return; it looks at its deadline after every poll, and
time passes, which is strong fairness of `TimesOut`. A script that is killed with `SIGKILL` runs no
trap and is outside the model.

**Findings.** (1) `check-single-engine.sh` says that `engine-0` stayed ready throughout, having
looked once. (2) `_heartbeat`'s docstring wants a missing or read-only mount to be loud; a failed
write ends the task and nobody looks until shutdown. (3) Terminal statuses are enforced by `cancel`
and `reject` only; a caller that checks first is safe (`ImplementsReservation` in `sweep`, where a closed
reservation stays closed). (4)
`_parse_decimal` refuses a number with too many decimal places "because silently truncating would lose
money quietly", but multiplies first, in a context of 28 digits: `"1.000000000000000000000000000001"`
is admitted as 100 cents and `"0.00999999999999999999999999999999"` as one. `WrittenTermsKept` shows that
within the digits of the context nothing is lost.

## 4. Proofs

TLAPS proves the following for every value of the constants that satisfies the modules' named
assumptions (distinct sentinels, integers where integers are meant, positive scale, lot and
threshold).

*SingleWriterLockProofs.* Exclusion does not follow from what a process remembers, so the
invariant is strengthened with what the kernel knows: `DescriptorsOpen` (the descriptors a process
knows of are open and distinct) and `FlockHeldOpen` (the flock is on an open description, and on
exactly the one of a process that is past line 40). With `HolderOwnsFlock` two holders would own one
flock: `OneFlockOneHolder`. The step that needs the strengthening most is `CloseAndRaise` of a re-entrant
`acquire`, which closes a descriptor and must not unlock.

*EngineServiceProofs.* First `UsesTheLock`: each engine step is a step of the lock's `Next` or leaves
the lock alone, so the lock's invariant holds of the engines. Then `EngineHolds`: whoever is
between a granted lock and the end of the lifespan remembers its descriptor and is not inside a
call; and `BeatAgrees` for the file. From these follow `OneEngine`, `HeartbeatOwned` and, with the owner
defined as the process of the flock, `Refinement` of `EngineOwnership`. `NeverStranded` needs one more part,
that whoever has the flock is neither down nor still waiting for it (`HolderMoves`): a step touches only its own
process (`OthersAreLeftAlone`), and an acquire that fails leads only to the exit.

*EngineDeploymentProofs.* Exclusion joins two layers: `OneNode` (all pods that mounted the volume are on one
node, by the access mode and the one claim) and `EnginesMount` (an engine has the volume mounted, a pod
keeps it until it is gone). On one node the flock then tells them apart, which is `OneEngineAnywhere`.
`VenueIsOwned` looks at what a step does to the set of processes: it ends one, starts one where there is none, or
leaves them (`ProcessesChange`). With at most one before and after, that is a step of `EngineOwnership`.
`CheckIsHarmless` follows because every step of the script is a step anybody may take, or none.
`AlarmHasCause` adds that readiness means a process (`ReadyAlive`) and that a steady `engine-0` is ready until
the script speaks (`Watch`); a second ready engine would be a second process.

*OrderProofs.* The invariant adds nothing but the conjunction of the properties: legality bounds the
fill, and the status cases need each other's facts. `StatusIsTrue` and `FillsStay`
look at each kind of step in a state of the invariant. `ReplayExact` takes the codec apart: the members of an enum have different texts, so its
constructor gives back the one that was written (`MemberReads`); no text is none; and the constructor
accepts what a legal order leaves in the line (`LineReads`). `EnteredOrdersAreOrders` carries all of this over to
orders that came in as text. `TermsKept` rests on two lemmas, one per direction: a number the context holds is
read exactly or refused (`ParseExact`), and is shown so that it reads back (`ShownReadsBack`).
`WorthNearReference` multiplies the band's product by the filled quantity and adds the two roundings
(`HalfCent`), which together are at most a cent.

*UnitsProofs.* Division with remainder is characterised once (`DivMod`), then `HalfCent`,
`SidesDifferByACent`, `MoreNeverCostsLess`, and `ClampNeverOverspends`: any quantity up to the clamp,
rounded up or not, costs at most the reservation. `AffordableIsLargest` makes the docstring's first sentence
exact: a quantity of whole lots is at most the clamp if and only if its *unrounded* cost is at most the
reservation. The one thing it leaves out is a quantity whose debit rounds down to the reservation, and
`NoLotIsWasted` bounds that: one more lot costs the reservation at least. Multiples of the lot are handled by
`Multiples` and `TimesCancel`, rounding by its monotonicity.

*MarketBuySweepProofs.* The taker's record obeys `OrderProofs`' invariant (by instance); each
trade's cost is at most what was left (`ClampNeverOverspends`) and off by at most half a cent
(`HalfCent`), so the sums obey `SpendingLimit` and `RoundingIsFair`. All three limits of a fill are
multiples of the lot (`AffordableLots`, `LotsLeft`), hence `WholeLotsLeft`. `SpendsAReservation` maps each trade to a debit (`TradeDebits`) and
each stop to a close (`CancelCloses`); that the debit stays below what is reserved is the invariant.

For the feed, `FeedIsASweep` comes first: on a real book each engine step is a step of the sweep, and
what a resting order offers stays in whole lots (`MakersInv`), so all of the above holds of it.
`LevelsRecover` is by the *last record about a price*: while it is unread it holds the level; once it is
read, the view does or the price is stale. `RestartRebuilds` and `LedgerSettles` are by a *trace*: there is a
sequence of states of the readers, one per unread record, each the effect of its record on the one before,
which starts with what the readers have and ends with what the engine has. A reader takes the next state of it
(`ReadKeepsTrace`), the engine's records extend it (`EmitKeepsTrace`), and a reader that has caught up is
at its end. The trace stands in for an induction over the journal. For a match it is built for an arbitrary
permutation of the four records (`MatchSteps`): each state of it has the taker's fill if and only if
the taker's record is among those before it, and so for the maker and the money. That the accepted order comes
back as it was is `WholeLineReads`, the lemma `ReplayExact` rests on, by instance. Each state is also `Covered`, its orders
earlier than the engine's and its money within what the engine spent, and the engine's next step keeps that.
`CapSpendsAll` keeps the moment of the cap as an invariant (`SpentInv`); nothing
happens to the book or the account after it, and at it `NoLotIsWasted` applies. That a trade is never within one account is
what gives the ledger the engine's balances.

*GatewayReadinessProofs.* `ResultsAreWitnessed` says that during a request the history covers every
result that came in and the peers' present states, and that only malformed peers raise;
`NoAnswerWithoutEvidence` follows at `Answer`. For `RotationFollowsThePeers` the two
ways into a failure, an answer and a kubelet that gives up, are traced to a peer (`FailureHasCause`), and the
only way into rotation to all of them (`EntryHasCause`).

*IdsProofs.* A listing compares digits from the left. `EncodeOrder`: at the first place where two encodings
differ, the larger number has the larger digit. The first place exists because a set of numbers has a least
member (`SmallestMember`, from the library's well-foundedness of `<`, which takes the place of an induction over
the length). `ListingsAreChronological` applies it to the characters of the time, `CollisionsAreChance` uses that
an encoding of fixed width is injective (`EncodeInjective`). `PowersOfBase` assumes three facts of `^` that
hold of numbers and that the prover cannot see; TLC evaluates them in the run.

Only model-checked: everything temporal (`SomeEngineServes`, `SomeEngineReady`, `EngineZeroReturns`,
`LostPeerLeavesRotation`, `PromptPeersEnterRotation`, `EveryCheckEnds`), because liveness under
fairness is out of the prover's reach. Every safety property of a passing run is a theorem. Four are
proved and need no run of their own: the types of `EngineService`, of `EngineDeployment` and of
`GatewayReadiness`, which the runs' other properties rest on, and `WholeLots`, a part of `LotsOnBothSides`.

## 5. Not modelled

Logging, settings and the error table have no interleavings and no state, and neither has the
loading of the instruments' file. A text with an exponent that overflows the decimal context raises
`decimal.Overflow` instead of `ValueError`; exponents are left out. `OrderRejected` is left out of
`EventFeed`, since a rejected order never meets the book. In `GatewayReadiness` a peer URL that httpx
cannot parse is modelled and makes the answer `"error"`, a 500 without a reason; the probe counts it as
a failure like any other. The ledger and market data services are stubs. The other build and
cluster scripts are sequential I/O. In the cluster, forced deletion and nodes that are cut off while
their pods run are left out: Kubernetes then gives no guarantee that the old process is gone, and
ReadWriteOnce is as good as the storage driver. Probe thresholds and resource limits are left out as
well. `PROJECT.json` gives the reason for each component.

## 6. What would come next

1. `smoke.sh` as a second script on the cluster, and kubectl calls that fail.
2. When the matching loop and the journal are written: their modules in place of the external
   definitions of `MarketBuySweep` and `EventFeed`, with `market_buy_max_notional`, and a crash between
   the records of one step.
