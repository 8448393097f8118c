# Verification of mini-sb-agent

mini-sb-agent is a proxy agent: it runs VLESS and Hysteria2 inbounds of a
sing-box fork, counts and limits the traffic of each user, and once a minute
fetches user lists from a panel and reports traffic to it. mini-sb-panel is a
small control plane that agents can use instead of Xboard.

The modules here model the parts of the two programs whose correctness depends
on the order of steps: the start of the agent from its topology to the moment it
serves, a connection from its acceptance to its end with the name lookups on the
way, traffic accounting from the connection to the panel's books, the application
of user lists to live inbounds, the token bucket, and the control-plane store.
TLC checks them on small instances. TLAPS proves all of their invariants, their
action properties and the refinement of the ledger for every instance; liveness is
left to TLC.

## The system and its parts

| Part | Code | Modules |
|---|---|---|
| Traffic counters | `counter/counter.go` | `TrafficCounter`, part of `Syncer` |
| Sync loop, final flush, shutdown | `panelapi/sync.go`, end of `cmd/mini-sb-agent/main.go` | `Syncer` |
| Panel clients | `panelapi/client.go`, `multi.go`, `local.go`, `topology_panel.go` | `Syncer`, `UserManager` |
| What accounting promises | | `UsageLedger` (abstract), refined by `Syncer` |
| User manager and deltas | `user_manager.go`, `user_delta.go`, `user_apply_*_enabled.go` | `UserManager` |
| User tables of the inbounds | `fork/sing-box/protocol/{vless,hysteria2}` | `UserManager` |
| Rate limiter | `counter/ratelimit.go` | `RateLimiter` |
| Control plane, server and client | `panelserver/`, `panelapi/control_plane.go` | `PanelServer` |
| Topology, node identity | `panelapi/topology.go` | `Topology` |
| Configuration, capabilities | `xboard_config.go`, `capabilities.go` | `Topology`, `Startup` |
| Start-up, certificate files | `main.go`, `xboard_config.go`, `fork/sing-box/box.go`, `option/options.go` | `Startup` |
| Outbound manager | `fork/sing-box/adapter/outbound/manager.go` | `OutboundManager` |
| Connection manager | `fork/sing-box/route/conn.go` | `ConnectionManager` |
| DNS client | `fork/sing-box/dns/client.go` | `DNSClient` |
| Resolving dialer, and the two together | `fork/sing-box/common/dialer/resolve.go`, `dns/router.go` | `RoutedConns` |
| HTTP client | `panelapi/minhttp.go` | its outcomes only, in `PanelServer` |
| Stats server, tuning, dashboard, stubs, scripts, rest of the fork | | not modelled |

`Collections` has the operators that several modules use: sums, filtered lists,
and the orders in which a loop over a Go map may meet its entries. `MC*.tla` and
`*.cfg` are the instances for TLC, `*Proofs.tla` and `SyncerInvariant.tla` hold
the theorems.

`PROJECT.json` has the complete list with a note on each part, the lines that
each definition translates, and the hazards.

## Traffic accounting: TrafficCounter, Syncer, UsageLedger

A key is a pair (inbound tag, user). `counted` and `committed` are the atomic
counters of a storage; a connection holds a storage, and so can outlive its map
entry. A copy loop first moves bytes (`Transfer`) and then adds them
(`AddBytes`). `SnapshotDelta`, `CommitSnapshot` and `RemoveAbsent` visit one
entry or one counter per step, so connections interleave with them everywhere.
`RemoveAbsent` compares in one step and deletes in another.

`Syncer` adds the loop (`FetchUsers`, `ApplyUsers`, pruning, flush, `Tick`), the
shutdown of main (`Signal`, `Join`, `CloseBox`, the final flush) and the
clients. A push is accepted, fails, or is accepted and its answer lost. The
panel is external: it books what it accepts.

Abstractions: the maps tag -> counter and user -> storage are one map; clients
are called in any order; a failed I/O call transfers nothing; connections
without a user are not counted, as in the code; timestamps are left out. A
connection that is still dialling when the box closes is taken not to carry
bytes afterwards.

Properties:

- `EveryByteAccounted`: a byte counted for a key whose entry was never deleted
  is committed or still to be reported.
- `CommittedNeverAhead`: a committed mark never passes its counter.
- `BilledOnce`: the panel has booked what was committed, and beyond it only
  what it booked when an answer was lost.
- `QuietAfterClose`: the loop does nothing once main has closed the box.
- `ImplementsLedger`: `Syncer` implements `UsageLedger`.
- `EventuallySettled`, `ShutdownCompletes`: traffic is billed in the end, and a
  signal ends the process.

## Users: UserManager

A list gives each id a UUID, a password and a name. A credential is <<id,
secret>>, the secret being the UUID on VLESS and the password on Hysteria2, so
that a user can change credentials but never takes over another's.
`ApplyBoxByInbound` is a sequence of steps (`BeginApply`, per inbound `NextTag`,
`DelUsers`, `UpdateUsers`, `AddUsers`, `UpdateUsers`, then `CommitUsers`), because
it does not hold `mu` and the inbounds have no lock. A connection authenticates
against the service's table, looks up its name, asks for its limiters and asks for
its id, each in a step of its own. A Go panic is the state "panic" of the
connection. Assumed: no two ids share a UUID, a password or a name. `AddUsers` and
`DelUsers` of the fork never return an error, so `ApplyBoxByInbound` has no error
path here.

- `NodeIsolation`: an inbound accepts only its own list, and exactly the
  committed one between applications.
- `StableLimiters`: an active user has one open limiter pair, and no connection
  holds an open pair that the manager has let go of.
- `UnchangedUndisturbed`: a user whose UUID, password and name stay is accepted by
  the inbound after every step of an application, and keeps all sessions.
  `userChanges` compares all three fields. So a user who only gets another name, or
  a Hysteria2 user who gets another UUID, is outside the property: such a user is
  taken off the inbound and put back, is refused in between, and loses live
  Hysteria2 sessions, although the password is still listed.

## Rate limiter: RateLimiter

Each critical section is a step. Tokens are integers, time goes in ticks. `age`
stops growing at `MaxAge`, when the bucket is full even from the deepest debt (a
burst for each waiter), and sleeps are counted down, so time is not bounded.
`allowance` is a history variable: a bucket in the textbook form that is charged
when bytes pass. Sleeps end on the first tick that is late enough and a sleeper
that is due wakes before the next tick; a sleeper that wakes late would only pass
later than the model has it. `SetRate` of a closed limiter would open it again
(`l.closed = false`); the user manager never calls it on one, so `SetRate` has the
limiter open as its guard.

- `RateBound`: the allowance never runs out, which bounds every stretch of time
  at once by a full bucket and the rate. `SetRate` sets negative tokens to 0, and
  every user sync calls it, so it forgives the debt of connections that are
  asleep. The property says what that costs at most: the one chunk that each
  `Wait` has in hand at that moment (`inHand`).
- `ClosedCutsOff`: after `Close` a reservation fails, although the limiter is
  also disabled.
- `WaitReturns`: every `Wait` returns, whatever `SetRate` and `Close` do.

## Control plane: PanelServer

A request is authenticated in one critical section and carried out in another;
it may be lost before it or after. Agents retry a batch under its id until they
get an answer. The contents of a batch are fixed by its id. Assumed: agents have
different secrets. Fetching a topology changes nothing in the store, the client
hands on no ETag, and only tests call it: it is left out, with revisions and ETags.

- `UsageIsBooked`: usage is the sum of the remembered batches, each once.
- `AckedIsBooked`: what an agent was told is accepted is booked.

## Start-up: Topology, OutboundManager, Startup

`Topology` has the pure part as operators: protocol names, node keys, inbound and
outbound tags, `Validate`, the capability check, and `topologyConfig`, the
inbounds, outbounds, rules and certificate paths that `generateTopologyConfig`
writes. A name is a model of what `safeTagPart` leaves of it: a sequence of
words. The empty sequence is the empty tag.

`OutboundManager` has `Create` and the loop of `startOutbounds`: passes over the
list that start what is ready, one outbound per step, and `lintOutbound`, which
follows detours to say why nothing can be started any more.

`Startup` is `main` up to the point where the box serves, in topology mode and
with a configuration file: load, fetch a node's configuration (usable, or of the
wrong protocol, version or without port or key), the certificate pair file by file
(`Stat`, `OpenCert`, `WriteCert`, `OpenKey`, `WriteKey`), write the configuration,
parse it (`loadOptions`: registered types, no duplicate tags), `box.New` (a direct
outbound refuses a detour), outbounds, inbounds. `Crash` is a kill, or any call
that main takes as fatal, at any step, at most `MaxFaults` times. `Restart` is the
first start and every later one: by systemd, whose unit says `Restart=always`, or
by hand. The OpenRC service that `install.sh` writes on Alpine has no supervisor.
A file is absent, torn, from before, or new; `KeyPair` says which two load
together.

- `OwnExit`: once the inbound of a node accepts connections, they leave through
  that node's own outbound, started, and what matches no rule is blocked.
- `ListensOnlyIfFit`: nothing listens unless all of the setup can be served (`Fit`,
  which is said of the setup alone): every node has a protocol and an outbound this
  build has and a usable configuration, or the file has registered types, different
  tags, a default that is there and sound detours. Five checks at different points
  of the start see to it. The first, `validateTopologyCapabilities`, compares an
  outbound type without trimming it, so a padded type passes it; the type registry
  in `loadOptions` stops it later.
- `WholePairs`: without a fault each Hysteria2 inbound finds a pair that loads,
  whichever of the two files were there before.
- `DependencyVerdict`: `startOutbounds` starts all outbounds only if no detour is
  missing or circular, and the error it returns is true of the list.
- `EventuallyServes`: a setup the build can serve is served in the end, restarted
  as often as it takes. Two exceptions are written into the property. Under OpenRC
  one fault at the start is final, until somebody starts the agent. And a fault
  between `OpenCert` and the end of `WriteKey` can leave two files that are no
  pair. `ensureSelfSignedCert` finds both and leaves them alone, so no restart
  repairs them.

## Connections: ConnectionManager, DNSClient, RoutedConns

`ConnectionManager` is `route/conn.go`. A connection has a client's and a
destination's end; an end is open, may have an EOF waiting, and may be broken. The
steps are accept, route, dial, report, registration, the early handshake of a lazy
stream, the end of a copy in each direction, and the cleaning up after it, which
the atomic flag `done` decides. `CloseInbounds` and `CloseManager` are `Box.Close`.
Peers finish and ends break at any time.

`DNSClient` is `Lookup` and `Exchange` with the response cache and the lock per
question: a channel that the first caller stores, the others wait for, and the
first deletes and closes, in two steps, when it returns. Answers are kept, not
kept, or forgotten (`ClearCache`, and the expiry of a record).

`RoutedConns` composes them: the dial of a connection looks its destination up,
by the cache or by one task per record type, and connects when all have answered.

- `TypeOK`: also, only connections whose success was reported and that are being
  copied are on the list.
- `Released`: a connection whose goroutines are gone has both ends closed, is off
  the list, and had its `onClose` called. A packet connection that cannot report
  its success is closed without `onClose` (state "dropped"); the property covers
  its ends only.
- `HalfCloseKeepsDownload`: a client that has finished sending still gets its
  answer.
- `AskedOnce`: a name that many connections ask for at once is asked once.
- `DialReturns`: no accepted connection waits for ever for another's lookup.
- `CloseEndsListed`: closing the box ends the connections the manager has listed.
  `Close` shuts the clients' ends only, so a stream whose client had already
  finished sending lives until its destination speaks; and a connection that is
  still dialling is not listed. The property names both.

## Runs

| Run | Instance | Shows |
|---|---|---|
| `syncer_nodes` | two nodes with a client each, two connections | `TypeOK`, `BilledOnce`, `CommittedNeverAhead`, `EveryByteAccounted`, `ImplementsLedger`, `QuietAfterClose` |
| `syncer_live` | one user, one oversized and one raw key | `EventuallySettled`, `ShutdownCompletes` |
| `syncer_final` | one connection | violated: bytes can miss the final snapshot |
| `syncer_unmatched` | an inbound without a client | violated: traffic nobody pushed is committed |
| `users_apply` | two users, both protocols; one stays, one comes, goes and changes name, UUID or password | `TypeOK`, `NodeIsolation`, `StableLimiters`, `UnchangedUndisturbed` |
| `users_window` | the same | violated: a connection without its user's limiter |
| `users_index` | the same | violated: a connection under another user's name |
| `limiter` | two streams and packets, rates 0, 1, 2 with bursts 2, 2, 4, close | `TypeOK`, `RateBound`, `ClosedCutsOff`, `WaitReturns` |
| `panel_push` | two agents with two secrets each, a good and a bad batch, two requests | `TypeOK`, `UsageIsBooked`, `AckedIsBooked` |
| `panel_restart` | the panel restarts | violated: a batch is applied twice |
| `conns` | a lazy stream and a packet connection to one name | `TypeOK`, `Released`, `HalfCloseKeepsDownload`, `AskedOnce`, `DialReturns`, `CloseEndsListed` |
| `startup` | all topologies of one or two of 11 nodes with and without usable configurations, 140 files, 4 builds, 4 disks, systemd and OpenRC | `TypeOK`, `OwnExit`, `ListensOnlyIfFit`, `WholePairs`, `DependencyVerdict`, `EventuallyServes` |

The violated properties state what a comment or the README says; `findings` in
`PROJECT.json` quotes it. In `panel_restart` the usage booked before is lost
too, so the books are not doubled.

Bounds. `MaxLost` and the byte bounds of `TrafficCounter` cap counters. One lost
answer is enough for every pair of operations to meet in both orders. The syncer
instances count one direction (`Dirs`): the two directions of a storage are
separate counters that are treated alike, and the theorems cover both. `MaxAge` of
`RateLimiter` is 6 ticks (burst 4 and a debt of 8 at rate 2, burst 2 and a debt of
4 at rate 1): more time would change no refill, so time still passes for ever.
Sizes above the burst make `Wait` loop. `UserManager` needs no bound: users come
and go for ever, and a limiter pair that nobody holds gives its number back. One
connection slot is enough there, as connections do not affect each other or the
manager. `conns` needs no bound either, each connection lives once; two
connections meet in the DNS client and in `Box.Close` only, and the stream and the
packet connection have different code. In `startup` the pool of nodes contains
pairs that collide in the key, the inbound tag, the outbound tag or the
certificate path, types that are padded, unknown or missing from a build, and ids
that would leave the directory. The configurations are all 125 graphs of detours
between three outbounds, some with a direct outbound that has a detour or not,
untagged outbounds with and without `route.final`, and a duplicate tag. The panel
has usable configurations of all nodes, or of none with the id 1. OpenRC starts
the topologies of one node, which is enough for a fault to meet every step.
`MaxFaults` is 2: one fault tears a pair, a second one meets the repair of what
the first left.

Deadlock is not checked where the system may stop or where a bound ends it
(`CHECK_DEADLOCK FALSE`).

Fairness. In `syncer_live` the goroutines are weakly fair, as Go's scheduler
runs what can run, and the panel is assumed to accept in the end; nothing is
assumed of connections or of the signal. In `limiter` the steps of a
waiting goroutine and time are weakly fair; nothing is assumed of `SetRate`,
`Close` or new calls of `Wait`. In `conns` each goroutine is weakly fair, and dials
and queries end, by their time-outs if nothing else; a copy whose source is silent
may wait for ever, and nothing is assumed of peers, of new connections or of the
signal. In `startup` main runs on, and the agent is started once. systemd starts it
again whenever it has ended (`install.sh:692`: `Restart=always`; with `RestartSec=3`
five starts take longer than the ten seconds of systemd's default start limit).
Under OpenRC (`install.sh:707-726`) nothing is assumed after the first start.

## Proofs

Each theorem holds for every value of the constants that satisfies the named
assumptions of the modules. The assumptions say what kind of thing a constant is
(a topology is a list of nodes, a batch a finite non-empty set of items with
integer byte counts, rates are natural numbers, users and callers are finitely
many, the VLESS and Hysteria2 inbounds are different), and that there is no torn
file on the disk before the first start. No theorem has a further hypothesis.

| Module | Theorems | Properties |
|---|---|---|
| `SyncerProofs`, with `SyncerInvariant` | `TypeCorrect`, `CommitsAreCounted`, `NoByteLost`, `BillingExact`, `LoopIsQuiet`, `LedgerImplemented` | `TypeOK`, `CommittedNeverAhead`, `EveryByteAccounted`, `BilledOnce`, `QuietAfterClose`, `ImplementsLedger` |
| `UserProofs` | `UserTypes`, `InboundsAreIsolated`, `LimitersAreStable`, `StayersUndisturbed` | `TypeOK`, `NodeIsolation`, `StableLimiters`, `UnchangedUndisturbed` |
| `LimiterProofs` | `LimiterTypes`, `BucketKeepsRate`, `ClosedBucketCutsOff` | `TypeOK`, `RateBound`, `ClosedCutsOff` |
| `PanelProofs` | `PanelTypes`, `UsageExact`, `AnsweredPushIsBooked` | `TypeOK`, `UsageIsBooked`, `AckedIsBooked` |
| `StartupProofs` | `StartTypes`, `NodesLeaveByTheirOwn`, `OnlyFitListens`, `PairsAreWhole`, `VerdictCorrect` | `TypeOK`, `OwnExit`, `ListensOnlyIfFit`, `WholePairs`, `DependencyVerdict` |
| `RoutedConnsProofs` | `ConnTypes`, `ConnectionsReleased`, `DownloadKept`, `QuestionsAskedOnce` | `TypeOK`, `Released`, `HalfCloseKeepsDownload`, `AskedOnce` |
| `CollectionProofs` | lemmas only | sums over finite sets, filtered lists |

Each of these modules also has the theorem that its inductive invariant holds
(`Invariance`, `UserInvariant`, `LimiterInvariant`, `StoreInvariant`,
`StartInvariant`, `ConnectionsInvariant`, `LockInvariant`). There is a lemma per
action that the action keeps the invariant, or one per part of it.

**Accounting.** None of the properties is inductive by itself. A commit adds a
delta that was read earlier, so `CommittedNeverAhead` needs that a pending delta
plus the committed mark is still covered by the counter. That in turn needs that
only one flush is under way, that the entry cannot be pruned between snapshot and
commit (the loop prunes and flushes in turn, and main flushes after the loop has
ended), and that what is pushed in a flush is what is committed after it. `IInv` is
the conjunction of these named parts with the type invariant. The refinement of
`UsageLedger` follows from `IInv` action by action.

**Users.** Only deltas reach an inbound, so what its tables are now depends on all
lists before. `Progress` says, for each inbound and each stage of an application,
which list its users, its authentication table and (Hysteria2) its map by id agree
with: the committed one, the next one, or what the two have in common while the
removed are off and the added not yet on. An induction over the history of lists
becomes one step per stage. The same stages give `UnchangedUndisturbed`: what the
two lists have in common is never taken off. `StableLimiters` is inductive given
the types: a pair that is closed or let go of is the number of no active user.

**Rate limiter.** `RateBound` says that `allowance`, the contract, never goes below
0; a sleeper is charged to the bucket when it goes to sleep and to the contract when
it passes. `Covered` relates the two: what falls due within t ticks is at most the
allowance plus t times the rate, for every t, and the allowance covers the tokens
and all the sleepers together. The contract is capped at a full bucket, so an
allowance that would be needed later might be lost to the cap. The two other parts
of `Covered` say that this does not happen: those still asleep after t ticks are so
deep in debt that less than a full bucket is owed to them. There is a lemma for each
thing that can happen to the sleepers (`CoveredTake`, `CoveredLeave`, `CoveredJoin`,
`CoveredTick` and so on), none of which mentions the state machine. The callers
whose debt `SetRate` forgave (`inHand`) are outside of it, as they are in the code.

**Control plane.** `UsageIsBooked` compares usage with a sum over the remembered
batches, so booking a batch must add exactly one term: `ApplyTraffic` books only
what it does not remember. `AckedIsBooked` needs that a push whose success is on
its way has been booked (`PushInv`). This is the only part that a restart of the
panel breaks; `StoreInvariant` holds with restarts.

**Start-up.** `Where` says what is known at each point of `main`: the topology was
validated, the configuration is the generated one, its types are registered, the
outbounds are those `box.New` made of it, and which inbounds listen. `OwnExit`
follows from it and from facts about `topologyConfig` on a list of nodes of any
length: a validated topology has distinct inbound tags, so the first rule that
matches an inbound is its own node's, and the outbound it names is in the list and
was started. `ListensOnlyIfFit` needs the checks in the order main makes them
(`CheckInv`: the nodes so far are usable, then all, then the tags, the outbounds,
the default), and the verdict of `startOutbounds`. `Certificates` says of each
pair of files, without a fault, whether it is whole, is about to be written or is
half written by this process. `OutInv` is about `startOutbounds`: what is started
dials through what is started (`Closed`) and contains no circle (`NoCircle`: the
last of a set to be started has a detour outside of it); as long as a pass starts
nothing, what it has passed is stuck (`PassInv`); `lintOutbound` walks along
detours through outbounds that are not started (`LintInv`), so that it closes a
circle only if there is one. All this needs a list in which every tag occurs once;
that `Create` leaves such a list, whatever the configuration, is proved too.

**Connections.** `Released` is about the end of a connection, so it needs what
holds on the way there. `LifeInv` says, phase by phase, what `done`, `closes`, the
finished directions and the list are, and in particular that `done` is set exactly
when a direction has finished, except for a lazy stream, whose failed handshake
sets it too. `HalfInv` is the same for a stream nothing has gone wrong with: both
ends stay open until the download is over.

**DNS client.** The lock is deleted before its channel is closed, so a late caller
can hold a new lock while the waiters of the old one go on without any. `DNSInv`
says why this is harmless: a lock belongs to a task that asks its question and has
not deleted it, and whoever reads the cache without the lock, or is past its
query, finds the question answered or its answer not kept.

**Sums and lists.** `Total` (a sum over a finite set) and `Kept` (a list without
the elements a loop drops) are folds, and what they compute is proved by induction.
The library's induction theorems take an operator, which the provers cannot
instantiate; `CollectionProofs` states induction with a set of numbers or of sets in
place of the operator, which they can.

Only model-checked:

- The liveness properties `EventuallySettled`, `ShutdownCompletes`, `WaitReturns`,
  `DialReturns`, `CloseEndsListed` and `EventuallyServes`. Fairness is out of the
  prover's reach. That the diagnosis of `startOutbounds` ends is part of
  `EventuallyServes`.
- The properties of the runs that end in a violation are false of the code.

## Not modelled

The repository contains the whole sing-box fork, over 600 files. Most of it
encodes, decodes and moves bytes (protocols, transports, TLS, sniffing, geo data,
platform support) and much is not part of the agent's build. There is no order of
steps in it that the agent depends on and that a state machine would show, so the
mapped lines are about a twentieth of the repository, and half of the agent's, the
panel's and the counters' own code. Inside the modelled parts, these are left out:

- DNS: rules, record contents, TTL arithmetic, the cache per transport and the
  cache of rejected answers, and questions that a transport asks to reach its own
  server. The last could wait for itself; it is listed as a hazard.
- Connections: rule matching, sniffing, hijacked DNS, outbounds that handle a
  connection themselves, what peers send. Streams that a client opens inside an
  established Hysteria2 session after the inbounds are closed are not accepted in
  the model. `Close` re-initialises the list while cleaners may still remove
  elements from it; the model's list is a set.
- Start-up: flags (`-panel-url` and `-panel-token`, which a topology requires, are
  taken to be given), tuning, the stats server, the optional services of the box,
  the command `xboard-generate-config`, and the direct outbound the manager makes
  up for an empty list (generated configurations are never empty). Without
  `route.final` the first outbound stays the default even when an untagged one
  replaces it; this needs a hand-written configuration and is listed as a hazard.
- Users: `applyGlobal`, for a process without inbounds. The Go maps of the
  Hysteria2 inbound are written and read without a lock; the runtime may abort the
  process, which leaves nothing to check.
- `UserManager` and `Syncer` are not composed: `Syncer` takes the active ids and
  the keys of connections as given.
- Accounting: `strconv.Atoi` is the identity on the user keys that fit an int, so
  keys like 01 and 1, which it makes one, are different users here.
- Panel: `FetchTopology` and its handler, JSON, body limits, the admin token,
  int64 overflow of usage. `minhttp.go` is modelled by its outcomes only.
- Dashboard, runtime debugging, build-tag stubs and scripts have no state to
  check.
