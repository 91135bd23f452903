# TLA+ specifications of oixproxy

oixproxy fetches a list of proxy nodes from a panel, opens one local SOCKS5/HTTP
listener for each of them, and carries the clients' connections and UDP datagrams to the
nodes over Snell v4 in TLS (optionally WebSocket, with ECH and delayed TCP Fast Open).
This directory models the parts of it that are concurrent or stateful, from the start of
the program to its end, checks them with TLC and proves with TLAPS the safety of the
connection pool and of what its transports carry, the Snell stream, the client
connection and its dial, the UDP hub, the delayed dial, the DNS lookup, the panel's
lists, the identity file, the life of the server and the profiles it serves. Paths below
are relative to `src/internal/`.

## 1. The system

```
 client --TCP/UDP--> inbound (mixed.go, udp.go, hub.go) --> dialer.Pool (pool.go) --> snell.Conn (v4.go)
                         ^                |  without a pool            |                   |
 serve.Server (serve.go) +-- opens        +---------------------> ech.go, packet.go --> [ws.go] --> TLS --> tfo.go --> dest.go (DNS)
      ^          |           listeners, pools, HTTP
 run.Main        +-- HTTP /surge, /clash ... --> emit.go
      ^
 panel.Fetch (panel.go) <-- profile, filter; identity (age.go)
```

| Component | State | Operations | What is hard | What makes it correct |
|---|---|---|---|---|
| Pool, `dialer/pool.go` | idle list with use counts and times, `closed` | `Dial` (take, pop, factory, CONNECT, 3 attempts), `put`, `Warm`, `Close`; `pooledConn.Close/CloseWrite` | the lock is released around the factory, so `Close`, `Warm` and sessions meet in between, and kept while `pop` closes what has expired | no leak, one owner, bounded reuse, nothing kept when closed, no bytes of another session |
| Dial of a node, `dialer/ech.go`, `packet.go` | address being tried, sockets, the context | `Dial`, `dialTransport`, `dialTCP`, `ListenPacket` | a context that ends anywhere, two handshakes, an error path per step | no socket survives a dial that failed; all that is allowed was tried before it fails |
| Snell stream, `snell/v4.go` | per direction a nonce, salt, pacing; `reply`, `peerClosed`, leftover | `Write`, `WritePacket`, `HalfClose`, `Read`, `ReadPacket`, `ReadReply`, `Warmup` | both ends count nonces alone; several callers per direction; deadlines inside a frame | the reader returns what was written or fails; a half-close is never invented; the first frame fits a segment |
| WebSocket, `dialer/ws.go` | `writeM`, read buffer | `Read` (answers pings), `Write`, `Close` | two writers of two-part frames | frames do not interleave |
| Delayed TFO, `dialer/tfo.go` | `once`, connection, error, closed, deadlines | `Write`, `Read`, `Close`, `Set*Deadline` | `Close` and deadlines race the dial | no leak, early data exactly once, deadlines survive the dial |
| DNS, `dialer/dest.go` | cache, table of calls | `LookupServers`, the leader, the racing queries | single flight with per-caller contexts; silent servers and HTTPS queries | one flight, no stale answer, no inherited cancellation, everybody returns |
| UDP hub, `inbound/hub.go`, `udp.go` | `pending`, `byClient`, a channel per association | register, dispatch/pin, unregister; forward, reply and control goroutines | one read loop serves all associations, IPv6 zones, wildcard associations | one client per association and the reverse, nothing kept of a closed one, the read loop held up by none for ever |
| Mixed listener, `inbound/mixed.go` | the connection, its deadline, the buffered reader | `serve`, `serveSOCKS`, `serveHTTP`, `relay` | pipelined clients, half-closes, errors at each step | authentication before the dial, nothing lost, handshake bounded, upstream closed |
| Server, `serve/serve.go` | listeners, pools, mappings, HTTP server | `Start`, `Close`, profile requests | any listener fails to open or dies later | all is closed, pools shared per node, a profile that can be used at any moment |
| Surge profile, `serve/emit.go` | section, `wroteProxy`, `wroteURLTest`, `wroteSmart` | one turn per line, the tail, the groups | flags carried from line to line | every listener is defined once; what a group lists is defined, as far as the template allows |
| Panel client, `panel/panel.go`, `profile/` | the bodies that came | `Fetch`: login, identity, dedicated list, subscription, config field | each request fails or brings anything; fallbacks among them | no usable list is wasted |
| Identity, `identity/age.go` | the file, the identity in memory, what the panel was told | `LoadOrCreateAge` | written in place, so a crash tears it; a file that cannot be read | the panel is told only an identity that is in the file |
| Program, `run/run.go` | nodes, names, listeners of the file | `Main` from the fetch to the deferred `Close` | what each stage hands the next; a kill between two of them | names are unique and can be written in a profile |

`PROJECT.json` lists every component, including those left out, and 40 hazards
with the line each one bites at.

## 2. Modules

* **ConnLease** - what a pool promises: a transport is leased to one user at a
  time, serves at most `MaxUses` sessions and is not leased after the pool shut.
* **SnellPool** - `pool.go` with the session state of `snell.Conn`. One action
  per step between two points where a goroutine can be preempted with an effect
  on the others: `Take` is `pop`, which holds the lock (`popper`) while it closes the
  expired transports at the front, each in a step of its own (`PopClose`);
  `Miss`/`Factory`/`Recheck` are `take`'s check, its factory call and the second
  `isClosed`, `WriteConnect` and `WriteFails` end an attempt,
  `CloseDiscard`/`CloseReset`/`PutBack`/`Refused` are `pooledConn.Close`,
  `WarmFactory`/`WarmPut` the loop of `Warm`, `PoolClose` empties the list and
  `PoolShut` closes what was in it, one by one. The relay is a reader and a writer; the
  server is external: it replies, sends data, ends its half with a zero chunk, may send
  a stray one (`StrayZero`), may drop the TLS stream, and may stop reading (`Stall`).
  On a WebSocket node (`WebSocket`) a close writes a frame first, without a deadline, and
  waits for such a server (`Blocked`), under the lock if it is `pop`'s.
  **MCSnellPool** adds the symmetries.
* **SnellWire** - one direction of a stream, from `Conn.Write`, `WritePacket` and
  `HalfClose` down to TLS or to `wsConn` on TLS, and up through `wsConn.readFrame`,
  `v4Reader.readFrame`, `ReadReply`, `Read` and `ReadPacket`. Bytes are counted in
  their real sizes; a frame is its kind, the nonces it was sealed with and its
  lengths. A WebSocket frame is two writes, as in the code, so a pong or a close
  could fall between them.
* **NodeDial** - one dial without a pool: the lookup, each address of `dialTCP`, the
  TLS handshake and the fallback without ECH, the keying material, the upgrade, the
  CONNECT or the UDP request, with the context ending anywhere.
* **MixedConn** - one client connection from accept to close. The client's
  handshake is a sequence of message kinds (with or without login, well or badly
  formed, SOCKS or HTTP), sent at any speed ahead of the answers. In the relay each
  side may stop reading for a while or for good (`ClientStops`, `UpStops`), and the copy
  that writes to it then waits, for no write has a deadline.
* **Session** - MixedConn with NodeDial as its upstream: who calls the dial, what
  becomes of it when the client leaves, and the start of a UDP association.
* **UdpPins** - what the hub promises: an association serves one client address for
  all its datagrams, no two associations serve the same one, and a datagram goes to
  the one association that declared its source, or else to the one that declared none.
* **UdpHub**, **MCUdpHub** - the hub of one listener and its associations. A
  datagram is its source address; addresses have an IP, a port and a zone, because
  the table is keyed by all three and `sameUDPAddr` compares two. `pending` is a
  set: the code scans a slice, but counts all matches and acts on a single one, so
  its order is never seen. Nothing bounds the datagrams a client sends. `WSSessions` are
  the associations whose upstream is a `wsConn`.
* **TfoConn**, **DnsFlight**, **DnsRace** (**MCDnsRace**) - the connection that
  dials on first use; the shared lookup and its cache; one lookup and its queries, whose
  outcomes go through a channel with one place per server.
* **SurgeProfile** - the profile of `emit.go`: the loop over the template's lines as
  a recursive function of the turns done (`Walk`), the minimal profile and the groups.
  `IsTemplate` says what lines a template can have in which section. Names are compared
  exactly or without regard to case (`policyNameKey`), as the code does at each place.
* **PanelFetch** - `Fetch` request by request, the identity file with torn writes,
  the process killed anywhere and started again.
* **ServerLife** - `Server.Start`, `Server.Close`, listeners that die meanwhile.
* **Program**, **MCProgram** - `run.Main`: PanelFetch, then the filter, `--node` and
  the listeners of the configuration file, then ServerLife with the template that
  was fetched; a kill ends everything but the identity file and what the panel knows.
* **SnellPoolProofs**, **SnellWireProofs**, **SessionProofs**, **UdpProofs**,
  **TfoProofs**, **DnsFlightProofs**, **DnsRaceProofs**, **ProgramProofs** - the
  theorems (section 6).

Composition. Session and Program are modules that run their parts together: MixedConn
with NodeDial, and PanelFetch with ServerLife and SurgeProfile. Elsewhere one module
states what another assumes. SnellPool takes a transport's byte stream as a queue of
frames that are lost only as a whole; SnellWire is the reason it may (`InStep`, proved
by `EndsInStep`). ServerLife takes a pool as open or closed; SnellPool shows what
closing does. Session takes the dial through a pool as a step that ends (`DialReturns`
of SnellPool, whose exception, a pool whose lock is stuck, so is one of
`HandshakeBounded` too) and NodeDial the lookup of a server likewise (`LookupReturns` of
DnsFlight, which takes one uncached lookup as a step that ends: `EverybodyEnds` of
DnsRace). Session leaves an association that has its upstream where UdpHub takes it up.

## 3. Runs

| Run | Instance | Question | Properties |
|---|---|---|---|
| `pool_owner` | 2 transports, 2 sessions, Warm, 1 idle slot, 2 uses, a clock of 1 tick | who owns a transport while everything races `Pool.Close` | `TypeOK` `NoLeak` `OneOwner` `ClosedPoolEmpty`; the pool implements ConnLease (`ImplementsLeases`) |
| `pool_reuse` | 1 transport over WebSocket, 3 sessions, 3 attempts, data in flight, stray zero chunks, drops, a server that stops reading | can bytes of one session reach another, does `Dial` return | `UsesBounded` `NoCrossSession` `UpstreamFramed` `DialReturns` |
| `pool_live` | 2 transports over WebSocket, 1 session, Warm with 2 to build, 3 attempts, a server that stops reading | does a closed pool drain, does `pop` leave an expired transport | `ClosedPoolDrains` `NoExpiredSurvivor` |
| `session` | every opening, every kind of node, 2 addresses, 2 payload messages each way, both sides free to stop reading | is a client dialled for without its password, is a socket or a byte lost, an address left out, somebody kept waiting | `UpstreamOwned` `NothingUntried` `NothingLost` `HandshakeBounded` `RelayEnds` `AssociateAnswered` |
| `udp_hub` | 2 associations, 4 addresses (two equal but for the zone), any number of datagrams, channel of 1 | do the two indexes agree, whose datagrams go where | `PinIntegrity` `NoGhost`; the hub implements UdpPins (`ImplementsPins`) |
| `udp_live` | 2 associations, one of them over WebSocket, 1 address, any number of datagrams, channel of 1 | can an association block the read loop, does it end | `ReadLoopFree` `AssociationEnds` |
| `tfo` | 3 messages, 3 deadline changes | `Close`, `Write`, `Read` and deadlines around the dial | `NoLeak` `ExactlyOnce` `DeadlinesKept` `CloseReleases` |
| `dns_flight` | 2 callers, 2 calls, a TTL of 1 in 4 ticks | is a lookup shared, fresh and independent of its starter | `OneFlight` `NoStaleAnswer` `OwnCancelOnly` `LookupReturns` |
| `dns_race` | 2 servers, empty and overlapping answers, a channel with 2 places | is an answer enough, do the losers end | `NoFalseFailure` `AnswerIsEnough` `EverybodyEnds` |
| `snell_wire` | 3 calls of 1, 100 or 60000 bytes, both transports, 3 identities, the smallest and largest padding, a ping, 3 chunks in flight | do writer and reader stay in step, do frames fit | `InStep` `FrameFits` |
| `program` | 2 starts, 7 lists, 2 other pages, 4 templates among them, 4 filters, 8 configuration files, a forced node | is the identity kept over a crash, a list wasted, a socket left, a profile unusable | `IdentityKept` `NoListWasted` `NothingLeft` `PoolShared` `ProfileResolves` |
| `only_matches` | 1 list of 2 nodes, 1 filter that keeps one | does a generated profile see only the nodes the filter keeps | `OnlyMatches`, violated (section 7) |

The mutants in `PROJECT.json` are the changes of the code each property is there
to catch; each is found under the run's own configuration.

**Why the bounds are enough.** The interesting cases of the pool need one
transport that two users could want, one slot that can be taken, a second use that
reaches `poolMaxUses` and one tick that expires an entry; the instances have just
these, and the theorems remove the bounds for the properties that are proved. Two
transports are needed for `pop` to drop one and return another, and for `Pool.Close` to
be stuck at one with another behind it (`pool_live`); three sessions for one to be held up
by another's `pop` (`pool_reuse`).
In `session` a node with two addresses can fail on the first and connect on the
second, in each of two handshakes; of two messages one can be sent with the
handshake and one after it. In `udp_hub` the two equal addresses and the wildcard
port exercise every branch of `dispatch`; a channel of one is full after one datagram,
and a client may go on sending for ever. Three deadline changes put one before, during
and after the dial. Two DNS calls let one call of a name be in the table while the previous
one is deleted; the clock runs past the cached answer's end. In `snell_wire` 60000 bytes
written twice pass the point where the payload limit stops at `maxPayload` (after
eleven frames), 60000 bytes are refused as a packet, 100 bytes leave room for an
error reply, 1 byte is a reply alone; three chunks in flight put a header, its body
and something else on the wire. In `program` the lists hold a node that has no UDP, two
nodes of one name, two nodes of one name but for case, a node called like a group, one
that spoils its list and one that is skipped, sealed and plain. The templates are a whole
profile; one with its own automatic group and a node listed in a group; one whose groups
stand in the middle under a header in lower case, with an automatic group spelled its own
way and a member nothing defines; and one without a `[Proxy]`. The filters choose in
another order, one node and none; the files name a listener like a node, like a group,
like another listener but for case, like a group every profile gets, like nothing a
profile can hold, and on a port out of range. The second start finds what a crash of the
first left of the identity file.

Runs stop at their bounds. Only `snell_wire` disables the deadlock check: a
connection that was dropped, with its calls used up, has nothing left to do. The
other modules end in an explicit step (`AllDone`, `Ended`)
whose guard says what "at rest" means, so that a stuck goroutine would be reported.

## 4. Fairness

Weak fairness is assumed of what a goroutine does by itself, one condition per
goroutine and loop, and never of the network, a client or a clock. Where the code
writes without a deadline, a peer that does not read holds the goroutine up for
ever; the step is then disabled in the model, and the property that waits for it names
the exception:

* `pool_live`, `pool_reuse`: a session inside `Dial` or `Close`, `WarmPut`, `PoolShut`. A
  session's factory call ends because its context has a deadline; no such thing is
  assumed of the factory called by `Warm`, of the server, or of time. The close of a
  WebSocket transport (`ws.go:210`) waits while its server does not read. `DialReturns`
  therefore excepts the lock of the pool being held by a `pop` in such a close
  (`LockStuck`), its own or another session's, and `ClosedPoolDrains` a transport whose
  close is stuck and those behind it in `Pool.Close`'s list (`CloseStuck`).
* `session`: the steps of the handler, the two copies, the deadline of the handshake and
  that of the dial's context, and the steps of a dial once its context is over (until
  then an address or a server may stay silent). Nothing is assumed of the client, of the
  upstream, of the life of an association or of the reply to a UDP request. A copy
  writes without a deadline (`mixed.go:225`, `292`), so `RelayEnds`, which is about both
  ends having ended, excepts a copy that waits for ever because the side it writes to
  has stopped reading (`UpBlocks`, `DownBlocks`) and the handler in the close of an
  upstream that may block (`CloseMayBlock`). It asks that both ends have ended, because
  an upstream without `CloseWrite` is never told that the client has.
* `udp_live`: the hub's hand-over and each association's loop, and *strong* fairness
  of `Leave`: its `select` has several ready cases, and Go chooses among them at
  random, so a case that is ready again and again is taken. A client may send for
  ever, so this is what ends an association under a flood. A write upstream has no
  deadline in the code, so it need never return: `ReadLoopFree` and
  `AssociationEnds` name that exception. Nor need the close of an upstream over WebSocket
  return; nothing is assumed of `CloseUp` for those, and `AssociationEnds` excepts it.
* `tfo`: the dial ends when its context is cancelled, calls on a closed TCP
  connection return; nothing of an open connection.
* `dns_flight`: callers and leader run, the leader's lookup ends by its own
  deadline. `dns_race`: workers, the collector and timers run; no server answers.

## 5. What is checked only by TLC

* All liveness (`DialReturns`, `ClosedPoolDrains`, `HandshakeBounded`, `RelayEnds`,
  `AssociateAnswered`, `ReadLoopFree`, `AssociationEnds`, `CloseReleases`,
  `LookupReturns`, `AnswerIsEnough`, `EverybodyEnds`): TLAPS 1.4.5 does not reason
  about fairness.
* `OnlyMatches`, which is violated.

Every invariant and every other action property of the runs is proved, and so are the
two refinements. TLC checks their instances all the same, and finds the mutants.

## 6. What is proved

Each theorem holds for every value of the constants its module's assumptions admit:
`PoolAssumption` (the two "none" values are not transports or sessions, limits are
naturals, `MaxUses` and `MaxTries` positive), `LeaseAssumption` (the names ConnLease
gives to users that are not sessions are not sessions), `MixedAssumption` and
`DialAssumption` (any amount of payload, at least one address), `HubAssumption` (the
"none" values are none; at least one place in a channel; addresses equal but for the
zone have the same IP), `TfoAssumption` (at least one message, any number of deadline
changes), `FlightAssumption` ("no call" is not a call, times are naturals),
`RaceAssumption` (finitely many servers; "waiting" and "failed" are two values and not
lists of addresses), `WireAssumption` (a segment of at least 607 bytes, so that the
salt, the longest identity, the most padding and a byte fit, and below 64 KiB, the 16
bits of the writer; the code's is 1460; payloads are not empty), `FetchAssumption` (at
least one start; what `IsBody` says of a body: one that carries nodes is not empty, and
its lines are a template read by its sections), `LowerAssumption` (no name is empty
in lower case but the empty one), `ProgramAssumption` (filters and files
are sequences), `LifeAssumption` ("no pool" is not a pool). Nothing but the servers
asked is assumed finite.

The theorems about profiles have no other hypothesis: nothing is assumed of the names
of the nodes, which `uniqueNodeNames` keeps apart exactly but not in lower case, nor of
the template. What the code does not achieve is in the statement instead. A name is
`Apart` when it is like no reserved one, like no group of the template and like no other
listener's, whatever its case; the names of the configuration file always are
(`extraListeners` sees to it), and only of names that are does `Resolves` say that
nothing else has them. `Unresolved` names what a group may list though the profile lacks
it, computed from the template alone: its remote policies, whose lines `RewriteSurge`
drops; what it listed itself and did not define; and the automatic groups, when every
place for them is under a group header in lower case that ends before the template
does (`emit.go:146`). TLC finds each of the three exceptions needed.

| Theorem | Statement |
|---|---|
| `SnellPoolProofs!TypeCorrect` | `Spec => []TypeOK` |
| `SnellPoolProofs!PoolInvariant` | `Spec => []OwnInv`, the inductive invariant of ownership |
| `SnellPoolProofs!NothingLeaks`, `SingleOwner`, `BoundedReuse`, `ClosedIsEmpty` | `Spec => []NoLeak`, `[]OneOwner`, `[]UsesBounded`, `[]ClosedPoolEmpty` |
| `SnellPoolProofs!FrontIsOldest` | `Spec => NoExpiredSurvivor`, an action property |
| `SnellPoolProofs!PoolImplements` | `Spec => ImplementsLeases` |
| `SnellPoolProofs!WireInvariant` | `Spec => []PoolInv`, the inductive invariant of what is in flight |
| `SnellPoolProofs!OwnBytesOnly`, `RequestsFramed` | `Spec => []NoCrossSession`, `[]UpstreamFramed` |
| `SnellWireProofs!StepInvariant` | `Spec => []StepInv`, the inductive invariant of a stream |
| `SnellWireProofs!EndsInStep`, `FramesFit` | `Spec => []InStep`, `[]FrameFits` |
| `SessionProofs!OwnedInvariant` | `Spec => []OwnedInv`, the inductive invariant of sockets |
| `SessionProofs!NoStrangerNoSocket`, `EverythingTried`, `AllDelivered` | `Spec => []UpstreamOwned`, `[]NothingUntried`, `[]NothingLost` |
| `UdpProofs!HubInvariant` | `Spec => []HubInv`, the inductive invariant |
| `UdpProofs!IndexesAgree`, `Forgotten` | `Spec => []PinIntegrity`, `[]NoGhost` |
| `UdpProofs!HubImplements` | `Spec => ImplementsPins` |
| `TfoProofs!TfoInvariant` | `Spec => []TfoInv`, the inductive invariant |
| `TfoProofs!NothingLeaks`, `EarlyDataOnce`, `LastDeadlines` | `Spec => []NoLeak`, `[]ExactlyOnce`, `[]DeadlinesKept` |
| `DnsFlightProofs!FlightInvariant` | `Spec => []FlightInv`, the inductive invariant |
| `DnsFlightProofs!SingleFlight`, `FreshAnswers`, `OwnCancellation` | `Spec => []OneFlight`, `[]NoStaleAnswer`, `[]OwnCancelOnly` |
| `DnsRaceProofs!NoEarlyFailure` | `Spec => []NoFalseFailure` |
| `ProgramProofs!ListsUsed`, `IdentitySafe` | `Spec => []NoListWasted`, `[]IdentityKept` |
| `ProgramProofs!LifeSafe`, `PoolPerNode` | `Spec => []NothingLeft`, `[]PoolShared` |
| `ProgramProofs!MapsServed` | `Spec => []MapsWhole`: no profile is made from a part of the listeners |
| `ProgramProofs!ConfigResolves` | `Resolves(SurgeConfig(names, T), names, fixed, T)` for every template `T`, every list of distinct names and every `fixed` of those that are apart |
| `ProgramProofs!ProfilesResolve` | `Spec => []ProfileResolves` |

### The pool

`TypeOK` is not inductive: `held` may be "none" only in some program counters, so
`Typed` adds `PcInv`, which says in which a session or `Warm` holds a transport.
`NoLeak`, `OneOwner` and `UsesBounded` need each other: a transport handed out twice
would be closed under its second owner, and a count is kept in the idle entry or in the
session, whichever refers to the transport. `OwnInv` therefore conjoins `Apart` (no two
references to one transport, position by position in the idle list), `Live` (what is
referred to is open), `Kept` (what is open is referred to), `Counted` (the CONNECTs a
transport has carried are at most the count its owner holds, strictly fewer between
`take` and `WriteConnect`, and an idle entry's count is below `MaxUses`) and
`ClosedPoolEmpty`. The proof has one lemma per action or group of actions that moves a
transport (`TakeStep`, `PopCloseStep`, `FactoryStep`, `ConnectStep`, `PutStep`,
`WarmStep`, `ReleaseStep`, `CloseStepOwn`) and one, `FrameStep`, for all the others.

The refinement of ConnLease rests on the same invariant. `Mapped` says what the lease of
a transport is by who refers to it, which `OwnInv` makes unique; `Stays` says that a
transport whose state and referrer stay keeps its lease. Each concrete step is then one
of the abstract ones: whatever closes transports is `Retire`, a `pop` that takes an
expired front out of the list is `Expire`, one that returns a transport is `Grant`, the
two factories are `Create`, the two `put`s that succeed are `Return`, `Pool.Close` is
`Shut`, and the rest are stutters.

`pop` stops at the first idle transport that has not expired. That this leaves none
behind that has needs the list to be in the order of its times (`Aged`): `put` appends
with the current time, and the clock does not go back. "Expired" is by the time that
`pop` read at its start, however long its closes take.

### What is in flight

That a client receives bytes of its own session only is decided by a handful of fields
(`reply`, `peerClosed`, the two zero chunks) about frames that may still be anywhere
between the two ends. `WireInv` says, for each open transport: `Framed` (on the way up
are the rest of one session, up to its zero chunk, and at most one CONNECT behind it),
`Asked` (a CONNECT in flight is that of the session in charge of the transport, which
has read nothing yet), `Owned` (the upstream, as the server will see it, is open exactly
for the session that can still write), `Answers` (the server works for the session in
charge), `Delivered` (data on its way down is for that session, and behind a zero chunk
come zero chunks only) and `Replied` (what the two fields mean for all this). A
transport goes back to the pool only if both sides have ended, and then nothing but zero
chunks is on its way (`Quiet`); stray zero chunks are the reason it is not simply empty.
TLC checked it as an invariant of the two larger instances before it was proved.

### The stream

`InStep` is about two counters at the two ends of a connection. Between them lie frames
in the hands of a writer, of a `Write` that has put the header of a WebSocket frame on
the connection and not its body, on the wire, and in the reader's buffer. `StepInv`
numbers them: `Ordered` says that there is an assignment of nonces to the places of the
pipe (`due`) that begins where the reader is and ends where the writer is, each frame
taking one number for a zero chunk and two for data; `Ledger` that there are books by
nonce, how many bytes and how many half-closes had been written before it, that agree
with each frame, with what the reader has delivered and with what the writer has
written. Both hold until the reader has failed; `Told` is what remains true even then,
and what `InStep` needs of it: the half-closes the reader was told of are the first ones
made, each found behind just the bytes written before it. `Framing` is the lock of
`wsConn`: a header that has no body yet is the last thing on the wire and its writer
holds the lock. `FrameFits` needs the writer's pace (`Paced`): the limit that
`nextPayloadLimit` keeps is within the segments sent since the pause and one more. TLC
checked `StepInv` and `Paced` first.

### The client connection and its dial

`UpstreamOwned` says that nothing is dialled for a client without the credentials
asked for and that no socket is left by a closed connection. Neither is local: the
handler, the dial and the copies each hold the socket in turn. `OwnedInv` adds
`Kinds` (ranges), `Waiting` (at which points of the handler the dial is idle, running
or over), `Socket` (at which points of the dial, and of the handler after it, there is
a socket, and that it is one) and `Entitled` (past the handshake the client was let in).
`NothingUntried` has an invariant of its own (`Recorded`) over the record the dial keeps of
its handshakes: what is left to try and what was tried make up what was found.

`NothingLost` counts payload from the client to the upstream and back. `LossInv` gives the
conservation law of each direction, `Upward` (sent by the client: read ahead, copied
or still to come) and `Downward`, as long as nothing on the way has failed, and what the
end of a copy means (its source has ended and is empty). `Stages` ties them to
the point of the handler. `Pipeline` is the order of what was sent and not read: messages
of the opening, payload, the end; so what a client pipelined behind its handshake is still
there when the copy starts. TLC checked `LossInv` first.

### The UDP hub

The proof of the refinement needs to know that what is on its way to an
association came from its client, wherever it is. `HubInv` conjoins the types,
`Fresh` (an association that is not registered has no client), `Alias` (the table
leads to an association from addresses of its client only), `Carried` (so does the
datagram in the hands of the read loop, those in the channel and the one being
written), and `PinIntegrity` and `NoGhost`, which are inductive with them.
`unregister` may leave a key behind only for an address equal to the client's but
for its zone; `Alias` is why such a key misleads nobody. A `dispatch` that pins is
`Pin`: that no other association of the address is pinned follows from
`PinIntegrity` and `lookupPinned` having found none.

### The delayed dial

`NoLeak` and `ExactlyOnce` speak of the time after the dial, so the invariant says
what leads there, stage by stage of the `sync.Once`: `Caller` (whoever runs it is
still waiting in it), `Before` (until `publish` nobody has the connection, nothing
was accepted, and the TCP connection carries the writer's first message exactly if
the writer started the dial), `After` (connection or error, never both; open until
`Close`) and `Counts` (the writer is one message ahead of what was accepted, and an
open connection carries just what was accepted).

### The shared lookup

`NoStaleAnswer` compares what a caller returns with the calls that were gone when it
came. Three facts carry it: gone is for good, so a call found in the table is none
of those (`CallerInv`, with `OneFlight`); the cache holds the addresses of a call
that is over, and its expiry is that call's time plus the TTL (`CacheInv`); and the
time of a call that is over does not change, so an answer once returned keeps its
age. `OneFlight` is inductive by itself with the types: the leader deletes the entry
blindly, but the entry is its own as long as its call is not gone.

### One lookup

A lookup fails when the last outcome is an error, and `remaining` counts outcomes, not
servers. `RaceInv` therefore says that while it waits one outcome is to come from each
worker that runs and from each place of the channel (`Outstanding`), and that as long as
all that came is errors, a worker that has ended belongs to a server without addresses
(`Errors`). A worker ends with an error before the deadline only when both answers are
there (`Asked`) and merging them gives nothing, which is the lemma `MergeKeeps`: the
merge of two lists is empty only if both are. This is why the servers must be finite.

### The program

`IdentityKept` compares the file with what the panel was told, perhaps in an earlier
start. `KeyInv` adds that the identity in memory is in the file too, and that between
reading the file and writing a new one there is none in memory, and the panel was told
none (or the file could not be read, the case `IdentityKept` excepts). `NothingLeft` is
about the end of `Close` or of a `Start` that failed; `LifeInv` says what it has
still to close at each point: an open listener is one of `maps` that the loop has not
passed (`Listed`), an open pool is one taken out of the server until the pools are
closed (`Taken`), the config server is open only when `Start` is over and until
`Close` shut it (`Config`).

`NoListWasted` compares a failed `Fetch` with all that it was given. `FetchInv` says what
the requests so far have left at each place of `Fetch`, and that a list in hand has no two
nodes of one name. That every list in hand has this form (`NodeList`) is about what the
parsers compute from a body of any length, and is proved by induction: the parsers and
the filter are written with `FlattenSeq`, which is a recursive function, and the induction
on its argument is the existence of a least number at which a claim fails (`LeastNumber`,
`CountUp`, from the well-foundedness of the naturals). `PoolShared` is about the table
of pools, whose key lacks the PSK of a node: where two nodes agree in server and port, as
all do in the model, it is right only if names are unique among the nodes that get a
listener; `SharedInv` carries that from the parser
through the filter, `--node` and the configuration file to `Start` (`Named`), and adds that
the table leads from each name to the one pool of the node (`Keyed`) and that an open
listener dials through it (`Dialing`). TLC checked `FetchInv` and `SharedInv` on the
instance of `program`.

### The profiles

`ProfileResolves` is about the result of a computation at any moment of a run, so its
proof has two halves. `ConfigResolves` is the computation, for every template and every
list of names. The loop of `RewriteSurge` carries flags from line to line, and `Walked`
says what they mean after `n` turns: the section is the one the last header opened; what
is put out is `Sound` (a line is one of our listeners', and there once, or it defines
nothing that is apart and lists only what may be listed); our listeners are in it exactly
if `wroteProxy` is set; whatever local policy or group the template has defined so far is
defined in it, but for case; an automatic group counts as written only if it is; and once
a section with the usual group header is over, both are. One lemma for each kind of turn
(`HeadTurn`, `LineTurn`, `NoLineTurn`, `RemoteTurn`, `GroupTurn`) preserves it, the tail
appends what the flags say is missing, and the induction over the turns is again
`CountUp`. `MembersKnown` says that a member of the template is then defined or
unresolved, `AutosKnown` the same of the two automatic groups a placeholder becomes: it
is where the oddly cased header of section 7 counts. `MinimalResolves` does the same for
the profile made without a template.

The other half is what the run makes of it. `TemplateInv` says that what was fetched is a
body the panel sent; `ListenInv` that `maps` has the listeners in their order, and all of
them while the config server is open (`MapsServed`: `Start` opens it last and `Close`
clears the maps after it is shut); `LabelInv` that the names are distinct, one per
listener, and that those of the configuration file are apart (`Labelled`), through the
filter, `--node` and the file. A template that was fetched sealed shows no lines to the
server (`Template`), which then uses the minimal profile. TLC checked the invariants
and `MapsWhole` on the instance of `program`.

## 7. Divergence from a comment, and observations

`only_matches`: the usage text says of `--filter` "mapping and generated configs only see
matches" (`run/run.go:291`), and the repository's README, of the `filter` setting, that
mapping, generated configs and warming handle only the nodes left (line 182).
`expandGroup` keeps every member a group of the template lists, while `RewriteSurge`
drops the lines that define them: the groups of the profile go on naming nodes that were
filtered out, and that nothing in the profile defines. TLC shows it with a template that
lists the node `JP` in a group and a filter that keeps `HK`. `ProfileResolves` excepts just
these names, the template's remote policies.

Behaviour the models have and no property forbids, worth knowing:

* A CONNECT written to an idle transport whose peer is gone succeeds locally and is
  not retried.
* With a first address that accepts TCP and then fails TLS the other addresses of the
  server are never tried (`NothingUntried` says "up to the first that took the connection").
* The reply to a UDP request is awaited without a deadline (`dialer/packet.go:25`);
  `AssociateAnswered` excepts it.
* Two associations that declared one address lock each other out: with two exact
  matches `dispatch` pins neither. UdpPins says so in `Pin`.
* `lookupPinned` stores a second key for an address that differs in its zone, which
  `unregister` does not delete (`NoGhost` states exactly what is left over).
* When a hub's socket dies its TCP listener goes on accepting associations; a listener
  that died stays in the profiles.
* An identity file torn by a crash is not a key and not absent: the dedicated list
  fails from then on and the subscription or the config field has to serve.
  `IdentityKept` holds because the panel is not told a new one.
* A usable list in the config field is lost when the subscription is the better
  template but has no nodes (`NoListWasted` excepts it).
* The header of the group section is compared without regard to case when it is
  entered and exactly when the next section begins (`emit.go:146`): an oddly cased
  one that is not the last section never gets the missing automatic groups.
  `Unresolved` excepts them, and `program` has such a template.
* `wroteProxy` is set by the first remote line inside `[Proxy]`, not by the header, so a
  template whose `[Proxy]` is empty or holds only local policies comes out with two such
  sections, though the comment on the second says "template had no [Proxy]"
  (`emit.go:210`).
* A node may be called like a group of the template, like a policy every profile has or,
  but for case, like another node: the profile then has two policies of that name.
  Only the listeners of the configuration file are checked (`Apart`).
* A datagram of a client whose association has just gone may pin a wildcard association
  of the same IP to it. UdpPins admits it: nothing in the datagram tells it from a first
  one.

## 8. Not modelled

Configuration, nameserver parsing, DNS-Auth, keep-alive options, the text of the two
list formats, the OpenSurge text, the Clash emitter, and the encodings of the two
SOCKS headers, of DNS messages and of the UDP packets: sequential code without
state. Ciphers, key derivation, identity prefixes, obfuscation, ECH: cryptography; only
the length of an identity and the counting of nonces enter SnellWire, and of age
that a body sealed for a key is opened with it. The padding's bytes. The creation of a
`v4Writer` by two first callers at once: every user writes its request before a
second goroutine has the connection. The HTTP handlers beyond reading the mappings and
making the Surge profile: a request that still runs when `Shutdown`'s two seconds are
over has lost its connection. The health check and the flags of the command line. Of the
panel, a JSON envelope whose text would itself parse as a list is not an input.

One hazard has no property: a listener that died being advertised (the code keeps no
such link). Three are bounded and not excluded, as `PROJECT.json` notes at each: a
WebSocket close that waits under the pool's lock (`DialReturns` and `ClosedPoolDrains`
say how far it reaches), the late datagram and the lower-case group header of section 7.

## 9. Plan

1. Done: all modules of section 2 with the runs of section 3, and the theorems of
   section 6: every invariant of the runs, and every action property and refinement that
   is not about fairness, is proved.
2. Extend the models:
   * a pool, a connection and a transport in one module, so that which close is held up
     is computed from the socket's buffers and not a choice of the server;
   * the order of destinations and the second answer of DNS (`dest.go`) in DnsRace;
   * the Clash emitter, if it gains state.
3. Prove more: nothing the runs check is left but liveness. A prover for fairness
   would begin with `ReadLoopFree` and `DialReturns`, whose safety parts (who holds
   what at each point) are in `HubInv` and `OwnInv`.
