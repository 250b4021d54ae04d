# Hermes-aTrust in TLA+

Specifications of the concurrent core of the aTrust client in this repository:
the authorization of flows on one L3 connection, the owner that reconnects it,
the cache of owners that follows the resource generations, and the Fake IP pool
of the proxy. TLC checks them on small instances; TLAPS proves the properties of
the connection table and of the Fake IP pool for all instances.

## The system and its parts

An application's packet or connection travels through these parts.

| Part | Code | State that matters | Model |
| --- | --- | --- | --- |
| Proxy listeners | `hermes-proxy` | connection limit, stop signal | planned |
| DNS identities, Fake IP | `atrust-net/src/fake_ip.rs`, `dial.rs` | fake and real bindings, next address | `FakeIpPool` |
| Resolver, UDP ports | `atrust-net/src/resolve.rs`, `udp.rs` | answer cache, leases | planned |
| Client runtime | `atrust-client/src/client.rs` | active session, epoch, background tasks | `ClientRuntime` (without handover) |
| Resource cache | `atrust-auth/src/resource_cache.rs` | generation, snapshot, watch channel | publication only, in `ClientRuntime` and `FakeIpPool` |
| Node probing | `atrust-client/src/nodes.rs`, `node_select.rs` | order of endpoints | planned |
| Manager cache | `atrust-l3/src/manager.rs` | manager and generation per group | `ClientRuntime` |
| Reconnect owner | `atrust-l3/src/manager.rs` | session, last VIP, rotation, retired flag | `L3Manager` |
| L3 session | `atrust-l3/src/session.rs`, `auth.rs` | VIP, waiters, queues, close state | `L3Session` |
| Connection table | `atrust-l3/src/conntrack.rs` | entries by flow and by auth id | `Conntrack`, promise in `FlowTable` |
| TCP tunnel | `atrust-tcp` | partial frames, half-close | planned |
| Wire formats, routing | `atrust-protocol`, `atrust-auth/src/routing.rs` | pure functions | planned |
| Session store | `atrust-auth/src/store.rs` | file replaced by rename | planned |
| Event bus | `hermes-events` | bounded broadcast | planned |
| Login, TLS, browser, probe tool | `atrust-auth`, `hermes-transport`, `atrust-browser`, `apps` | I/O | by their outcomes only |

Everything is asynchronous Rust on tokio. A critical section under a standard
mutex is one step of a model. A step ends where the code releases a lock or
awaits. A future that is dropped simply stops at its last await: nothing after
it runs, and this is modelled as a `Cancel` or `Abandon` step.

## Modules

**FlowTable** is the abstract promise of the connection table: a flow has at most
one attempt, an attempt has an id that is never issued again, one resource and at
most one verdict, and an attempt without a verdict is dropped only on request.

**Conntrack** is `ConntrackTable`: `by_key`, `by_id`, `next_auth_id`, `last_sweep`
and a clock. `Authorize` is the whole critical section of `authorize_flow`
(rate-limited maintenance, replacement of another resource's entry,
`get_or_create`, `try_start_auth`); the others are `MarkAuth`, `EvictByAuthId`,
`Touch`, `Clear` and `Prune`. Pruning is expiry followed by eviction of the least
recently used settled entries. It implements FlowTable.

**L3Session** runs callers of `authorize_flow`, the writer, the reader, the retry
scheduler and `shutdown` against each other. The table appears as FlowTable's:
any settled entries may vanish at a claim, since Conntrack says which. `waiters`
is represented by the receivers: `rx[c]` is open while the sender of `c` is
registered. The checks for a closed session and for the VIP at the start of a
call are one step; a verdict's counters are left out; recording and announcing it
are two steps, as in the code. Deadlines may fire at any time. The gateway may
answer any request it received, repeatedly, late or never.

**L3Manager** is `L3SessionManager`: `session()` holds the lock over closing the
old session, the delay and all dials, so these are steps of the lock's holder.
`close()` holds the lock too while it closes (the guard of an `if let` lives as long
as its body). `retire` only tries the lock. Delays have any length. Sessions are
names with a status and a VIP; `told` is the address a consumer of the events
believes in.

**ClientRuntime** is the manager cache with its four users: dispatches on
snapshots of any age, the node task, the reconciler, and the session's shutdown.
A manager is reduced to the generation of its endpoints, whether it is retired
and whether it has a live connection. `Connect` may be one step because L3Manager
shows that a retired manager ends without a session whatever was in progress.
Draining a cache and retiring its managers are one step: a manager inserted
in between is retired by the lookup that inserts it.

**FakeIpPool** is the pool together with `dns_record` and `original_host`, which
read the epoch and the snapshot one after the other, await, and then lock the
pool. A handover changes the epoch and the resource table in one step (both
happen under the write lock of `active`) and starts the generations again. Time is
a flag `expired` of a binding; a renewal moves the deadline only. `given` records
every answer, and `table` remembers from which session's resource table a
binding's policy came: both are history for the properties. `End` stands for
whatever follows the pool's answer (routing, a dial, an error or cancellation).

`MC*` modules give the constants of a run; `ConntrackProofs` and `FakeIpProofs`
hold the theorems. `PROJECT.json` maps definitions to source lines.

## Runs

| Run | Checks | Instance |
| --- | --- | --- |
| `conntrack` | `TypeOK`, `IndexesAgree`, `OverCapacityOnlyInFlight`, `ExpiredNeverServed`, `ImplementsFlowTable` | 3 flows in 2 slots, 2 resources, 3 ids, 3 ticks |
| `session` | `TokenMatchesFlow`, `ImplementsFlowTable` | 2 callers, 2 VIPs, 2 resources, 2 ids |
| `session_retry` | `TypeOK`, `OneRequestPerAttempt`, `VerdictIsAnnounced` | as above with one VIP and one retry |
| `session_live` | `CloseWakesCallers`, `EveryCallReturns` | 2 callers of one flow |
| `manager` | `TypeOK`, `NoOrphanSession`, `RetiredForGood`, `TriesEveryEndpoint`, `ReconnectsAnnounced` | 2 callers, 2 addresses, 2 endpoints or none |
| `manager_live` | `EveryCallReturns` | 2 callers, 1 endpoint |
| `client` | `TypeOK`, `NoLeakedConnection`, `ShutdownLeavesNothing`, `OlderSnapshotNeverOverwrites`, `EndpointsConverge`, `ShutdownEnds` | 1 group, 2 flows, 3 generations |
| `fake_ip` | `TypeOK`, `NeverReassigned`, `OneAddressPerHost`, `WithinCapacity`, `NoNameFromOlderSession`, `OnlyOutdatedViewsForget` | 2 calls, 2 hosts, 1 real address, 2 slots, 2 sessions of 2 generations |

Four runs are expected to be violated; each contradicts a sentence of the code.

* `session_stranded` (`InFlightClears`): "An in-flight auth clears itself within the
  8s timeout" (`conntrack.rs:350`). The deadline belongs to the caller. When an outer
  deadline drops the caller, the entry stays, and pruning spares it.
* `session_closed` (`ClosedMeansClosed`): "L3 session is closed" (`session.rs:1765`).
  One caller that gives up drops the senders of all waiters of its attempt.
  The others report a closed session, and the manager then replaces a healthy one.
* `manager_vip` (`LastVipKept`): the last VIP is "kept across reconnects so a change
  can be reported" (`manager.rs:104`). `close()` does not keep it, unlike `session()`
  and `invalidate()`. `ReconnectsAnnounced` shows that changes by reconnecting alone
  are announced.
* `client_removed` (`RemovedGroupsAreEvicted`): "removed groups are closed and evicted"
  (`manager.rs:623`). A dispatch that still holds an older snapshot recreates the
  group, because the generation it is compared with went with the removed entry.

### Bounds

Ids, time, generations, epochs, managers, sessions and VIP updates are bounded in
the guards by the constants named `Max...`. Two callers are enough for every race
here: each property relates one caller's steps to one other actor's, and the
other tasks are actors of their own. Two slots for three flows make expiry,
eviction and growth past the capacity happen. Three generations allow a call on
the first, a removal in the second and a return in the third. One group is enough
in `client`, as the cache treats groups independently under one lock. Two sessions
of two generations make the same generation number occur in both. Symmetry is used
only in runs without liveness. `CHECK_DEADLOCK FALSE` is set where bounds or a
finished shutdown leave nothing to do.

### Fairness

* `L3Session`: weak fairness for each task's own code. The writer either flushes a
  frame or its write timeout closes the session. Nothing is assumed of the gateway.
  `CloseWakesCallers` does without the callers' deadlines; `EveryCallReturns` needs them.
* `L3Manager`: strong fairness for acquiring the lock, because tokio's mutex serves
  waiters in order; weak fairness for everything else that a holder does, as each
  await in it is bounded by a timeout.
* `ClientRuntime`: weak fairness for the tasks and calls. The rounds of the node task
  are fair too, which assumes a non-zero `node_refresh_interval`.

## Proofs

`ConntrackProofs`, for all flows, resources, capacities and TTLs: `TypeCorrect`,
`IndexesAlwaysAgree`, `IdsAlwaysIssued`, `ConntrackImplementsFlowTable`.
The inductive invariant joins types, the agreement of the two indexes and the
fact that every id in the table was issued. The last is needed because a new entry
must not collide with an id in `by_id`. The refinement follows step by step from it
and from the lemma that pruning spares attempts in flight.

`FakeIpProofs`, for all callers, hosts, addresses, capacities and numbers of sessions:
`PoolTypeCorrect`, `AddressesNeverReassigned`, `HostsHaveOneAddress`,
`CapacityNeverExceeded`, `OlderSessionsNeverServed`, `OnlyOutdatedViewsPrune`.
The invariant `Inv` adds to the properties that every address ever given is below
`next` (or a fresh address could have been given before), that the table a binding
or view came from is not older than its epoch, and that the sets of names are finite
(for cardinalities). The assumptions on constants are `PoolAssumption` and
`ConntrackAssumption`: bounds that are natural numbers, distinguished values outside
the sets they extend, and finitely many real addresses.

Checked by TLC only: all of L3Session, L3Manager and ClientRuntime,
`OverCapacityOnlyInFlight` and `ExpiredNeverServed`. Liveness under fairness is
outside what TLAPS can prove.

## Not modelled, and the plan

Out of scope: TLS, HTTP, JSON, signatures, browser, logging and the probe tool, whose
behaviour is I/O or formatting. Read-only observers and diagnostics counters are left
out. Planned, in this order:

1. `ClientHandover`: `replace_session` against `shutdown` and running calls; the
   resource cache's concurrent fetches, failures and invalidation.
2. The rest of the session: heartbeat, packet subscriptions and queues, `send_packets`,
   close reasons; UDP port leases on top of them.
3. The resolver's cache (epoch, generation, stale answers, shared lookups) and node
   selection's shared probe.
4. The TCP tunnel's framing and half-close; the proxy's connection limit and shutdown;
   the session store's replacement of a file with a crash between its steps.
5. Pure functions against reference definitions: the two layouts of `0x94`, routing
   precedence.
6. Proofs: `OverCapacityOnlyInFlight`; `TokenMatchesFlow` and the refinement of
   FlowTable by L3Session; `NoOrphanSession`; `NoLeakedConnection` and
   `OlderSnapshotNeverOverwrites`.
