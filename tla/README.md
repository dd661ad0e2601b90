# A TLA+ verification of the distributed key-value store

The system is a key-value store spread over servers by consistent hashing. An
external configuration service (ECS) starts and stops servers, hands them the
metadata (which server has which part of the hash ring) and directs the moves of
data that go with it. Clients route by their own copy of the metadata and correct
it when a server redirects them. Every stored change is announced on a message
topic. The program's own code is `src/src/`; the rest of the repository is
vendored ZooKeeper, ActiveMQ and libraries.

## 1. Inventory

| Component | State | Operations | What makes it correct |
|---|---|---|---|
| Hash ring (`ECSClient.calc_metadata`, `getNodeByKey`; the range test of `KVServer.inRange`, `moveData`, `KVStore.connectCorrServer`) | the metadata map | compute ranges, test a key, look a server up | every position has a responsible server; one only; a join or leave moves exactly what changes hands |
| Server process (`KVServer`) | `stopped`, `writeLock`, `running`, `metadata`, `dataToFlush`, its node under `/keeper` | main, run, close, the setters, `moveData`, `flushData` | the lock is held as long as a move needs it and no longer; what is deleted has been transferred |
| Request threads (`CommModule`) | one thread and connection per peer | `serve`, `adminServe`, `run` | each request answered or its connection closed; results as if requests were atomic |
| Storage file (`KVStorage`) | a JSON file, rewritten in place | get, put, inStorage, flushData, clear (all synchronized) | a pair is at one server only |
| ECS (`ECSClient`) | `idleServers`, `activeServers`, `metadata` | addNode(s), removeNode, start, stop, shutDown, quit, a restart | lists are a partition; between commands all active servers hold the metadata of the active servers; commands end |
| Client library (`KVStore`) driven by `KVClient` | address, connection, `metadata` | connect, disconnect, put, get with redirection | reads see the last write; the retry loop ends |
| Notifications (`Publisher`, `Subscriber`) | a topic, `running` of each Subscriber | publish before the store, receive, print; subscribe, unsubscribe, quit | the last announcement says what is stored; what is stored was announced; a subscriber hears a gapless stretch and stops when told |
| ZooKeeper | ephemeral nodes | create, expire, list | a running server is seen |
| Secure channel (`CommModule` constructor, `sendMsg`, `receiveMsg`) | `secretInt`, `key` | key exchange, encrypt, HMAC | both ends have the same key; nobody waits for ever; a shutdown gets through |
| Cache, logging, object factory | - | - | - |

How they interact: the ECS and the clients call servers over sockets, one request
and reply at a time per connection; a server that moves data is a client of the
destination; servers register in ZooKeeper, where the ECS counts them. Threads of
one server share its flags, metadata and storage with no lock but the one inside
`KVStorage`. The thread of a server that accepts connections also runs the key exchange
with each new peer.

What is hard: the interleaving of request threads with `moveData`; the order of
metadata updates, moves and unlocking in `addNode` and `removeNode`; crashes and
lost replies in the middle of these; timeouts of `awaitNodes` after which the
command goes on; nodes left in ZooKeeper by dead processes; a second
process of a server that still runs; peers that die in the middle of a key exchange;
subscriber threads blocked when they are told to stop; off-by-ones on the ring. `PROJECT.json` lists the hazards line by line, each with the properties that
would catch it going wrong.

## 2. Modules

    HashRing  <-  RingMembership                 HashRingLemmas: about HashRing
       ^                                         HashRingProofs: about RingMembership
    KVServer  <-  OpenServers  <-  MCOpenServers, OpenServersProofs
       ^              ^
    ECSClient, KVStore  <-  Cluster  <-  MCCluster
                               |     <-  ClusterProofs <- ReliableProofs <- DataProofs
                            KVMap (abstract)

    Handshake (what KVServer's one step of connecting is made of)  <-  HandshakeProofs
    Notifications (how KVServer's announcements travel)  <-  NotificationsProofs

* **HashRing**: the arithmetic as operators. A server is its hash, a key is its
  hash, the ring is `0 .. RingSize - 1` (2^128 in the code). Lookups iterate over
  a HashMap and take the first match, so `Owners` is a set. `Successor` is the
  reference definition: the owner by consistent hashing.
* **RingMembership**: walks through all sets of nodes by joins and leaves.
* **KVServer**: processes, request threads, admin threads, storage. A *peer* is a
  client or a server that moves data; `pc[p]` is the program point of the thread
  that serves it. `serve` is cut into one action per access to shared state, so
  all interleavings of two threads of a server are behaviours. `moveData` is a
  chain of actions `moveLock`, `moveSnapshot`, `moveConnect`, `moveNext`,
  `moveReply`, `moveFlush`, `moveUnlock`, and `MoveFails` for its exceptions. The
  metadata map is represented by the set of nodes it was computed from; `{}` is
  the null of a server never initialised.
* **OpenServers**: these servers in an arbitrary environment: any client sends
  anything to any server, the administrator any command to any server at any time,
  processes start, exit and are killed at will. What is proved here holds for
  every ECS and every client library.
* **ECSClient**: the ECS, one sequential program; `epc` is the point a command has
  reached and `asked` the server whose reply it waits for. `Exchange` is one
  request with its three continuations: answered, connection refused, null reply.
* **KVStore**: the client library and the part of `KVClient` that drives it.
* **Cluster**: all of them together, and the properties of the whole.
* **KVMap**: what the service promises: one map, each request atomic, servers and
  moves invisible. `Cluster!Map` is the refinement mapping.
* **Handshake**: one server and its peers. An *end* is a peer's or the server's
  `CommModule`; `pt` is its point in the constructor (`openStreams`, `sendSecret`,
  `receiveSecret`), `sent` what it has written. `main` is the thread of
  `KVServer.run`: in `accept`, in the constructor for a peer, or on its way out. A
  read that is retried for ever is an action that is never enabled. The arithmetic
  (`fastModExp`) is the code's loop, a recursive function on the record of its
  variables; a message is the key it is encrypted with. A peer stands for one connection
  at a time: it connects again when both ends of the last one are closed and it has left
  the backlog. `peerDies` kills a peer in its exchange, and what it has
  written may be lost with it.
* **Notifications**: `publisher` is a server's JMS session (connected, null because the
  broker was away at boot, or lost later), `request` where a PUT's thread is in `putKV`;
  `at`, `running`, `queue` belong to a Subscriber, of which a client creates one per
  `subscribe`. The broker is external: a topic without durable subscriptions.

Definitions named `X_Something` directly before `X`, commented as seeded faults,
are wrong versions of `X`; no specification uses them. Each makes one property
fail, which shows that the property depends on that piece of code.

### Correspondence in points that are not obvious

* A server is `stopped` from launch: `main` calls `setStop`.
* `removeNode` is refused for the last server by `handleCommand`.
* The client's initial metadata, "everything is at the server I connect to", are
  those of a lone server.
* `shutDown` of the ECS does not read the replies; `removeNode` does, and the reply
  races `System.exit`. `ReplyBeforeExit` says whether the race can be lost.
* Connecting (socket, accept and key exchange) is several steps in Handshake and one in
  KVServer, ECSClient and KVStore, with the outcomes Handshake has:
  - it succeeds (`Accepts`), or waits, at a server that is bound and does not accept yet;
  - it is refused (`Refuses`): the server does not listen. A connection that is reset before
    anything was written throws a NullPointerException (`Handshake.openFails`), which every
    caller treats like a refusal but `sendJoinMove`, which catches IOException only and
    ends the ECS (`CutOff`);
  - the constructor of `CommModule` never returns: the server ends with the connection in
    its backlog or in the exchange, or its accepting thread is itself held up by a peer
    that disappeared. A step taken at "closing" stands for a connection begun before
    `close`; one cut off by a kill is part of the kill (`Crash`, `Killed`); a server whose
    accepting thread is held up is "wedged" (`Wedge`): it goes on serving the connections
    it has, and whoever connects hangs (`Hangs`). The ECS is then at "hung"
    (`connectHangs`), a client's call at "hung" (`callHangs`), a move at "moveHangs"
    (`MoveHangs`) with its lock taken and no reply to the ECS (`Hung`).

  One step is enough beyond that: the exchange reads and writes nothing of the server but
  the backlog and the accepting thread, so its steps commute with those of other threads,
  and an exchange that succeeds can be taken to happen at its last step. What does not
  commute, the end of either party in the middle, is what the outcomes are for. A server
  is not wedged while it handles a SHUTDOWN: its process would then never end, which is
  excepted in `Handshake.ShutdownEnds` (`Wedged`).
* The ECS sends INIT_SERVER and START of `addNode` on one connection (`AdminNext`), every
  other request on a new one.
* One request of the ECS at a time is served per server (`AdminCall`). `adminServe` has no
  such limit; the ECS keeps it, since it waits for each reply, and a hung ECS that is
  restarted meets a server whose old admin thread hangs for ever, which the new request
  replaces. What the lock would be worth against two administrators is not covered.
* `adminServe` with null arguments is modelled (`TakeMetadata`, `moveNothing`) although the
  ECS does not send them; FLUSH_FAILED, an I/O error, is not.
* `register` is `zk.create` and `zk.setData` in one step. Between them the node is empty: an
  ECS that starts at that moment fails on its content and ends, as if it had not been
  started yet; `awaitNodes` only counts.
* `Brokerless` are the servers that boot while the broker is away: `Publisher.pub` throws
  there in every PUT, those of a move included, and the thread closes the connection.
* `addNode` launches a server whether or not a process of it runs (`main`,
  `mainAgain`). A second process that cannot bind goes through `run` all the same: it
  tries to register, skips the loop, clears the storage file of the first and exits
  (`secondFails`); if the first has ended by the time it binds it takes its place
  (`secondTakesOver`). At most one extra process is kept in mind per server (two
  launches in a row do what one does), it is not itself killed, and one launched
  while the first is closing binds after that has exited: a JVM takes longer to boot
  than the other to leave its loop.
* A wait of `awaitNodes` ends when the count is right, when it can never become right
  (`Settled`), or, as a fault, before a server that is slow has booted or exited.
* The ECS is killed between two exchanges (`ECSKilled`), not with a request in flight:
  a later request to the same server would then be served beside the first one,
  and `apc` has one admin thread per server.
* A process that ends may be interrupted while one of its threads rewrites the
  file (`Interrupted`): it is then truncated, or a flush is half done.
* After any exception a client is "off": `KVClient` ends, or its user connects
  again, which makes a new `KVStore`.
* The request of a move that was under way when its server died is served to its
  end; a new move of the same server waits for that (`moveConnect`).

## 3. Runs

Passing:

| Run | Question |
|---|---|
| `RingMembership` | Is every position covered, uniquely off the seams; are the lookups and moved ranges right? All node sets of a ring of 11. |
| `OpenMoves` | Two servers that move data to each other at once, and a client that writes and reads (`ToOther`: a server is not told to move data to itself): does the write lock keep its discipline, is every request answered, does every move end? |
| `OpenCommands` | Does the invariant survive every command, null arguments included, every crash, a second process, an accepting thread that is held up and a move that hangs (a lone server, all requests, a key that is too long)? |
| `ClusterQuiet` | Three servers, two keys, requests between reconfigurations (`addNode`, `removeNode`, `start`, `quit` and a new ECS): is each pair where it belongs and only there, does the cluster implement `KVMap`, is no server launched that still runs? |
| `ClusterTwoClients` | Are concurrent requests of two clients atomic, with servers that are stopped and started too? Behaviours in which a stopped server inherits data (`HeirStarted` is violated) are cut off: they are the subject of `MoveToStopped`. |
| `ClusterOverlap` | With requests during reconfigurations (`addNode`, `removeNode`, `shutDown`): do the metadata agree afterwards, is no lock left, do the servers implement `OpenServers`, does a client's retry loop end? |
| `ClusterFaults` | `addNode` and `removeNode`, with data to move, and a fault at any moment (a server killed, also with the ECS or a client in its backlog, or held up by a peer that disappeared; the ECS killed; a wait that ends too early), lost replies, an ECS that dies of its own exceptions and restarts, a server that booted without the broker: are the ECS's lists complete, and does every command end, unless it hangs in a connect? |
| `Handshake` | Two peers that connect, ask for a shutdown, leave, or die: do both ends derive the same key, is a request that waits readable, can two ends wait for one another, does a shutdown get through to the accepting thread? |
| `Notifications` | Three requests of a server, a client that subscribes twice, a broker that comes and goes: is what is stored announced, is a gapless stretch printed, does a Subscriber stop when told? |

Runs that refute what a comment or interface of the repository says (the findings
of `PROJECT.json` quote the lines):

| Run | What it shows |
|---|---|
| `MoveToStopped` | a move deletes pairs the destination refused (stop, then removeNode) |
| `WriteDuringMove` | a write acknowledged between the move and the metadata update is lost to reads |
| `ConnectReturns` | a peer that dies in its key exchange keeps the accepting thread in a loop; the next `connect` neither returns nor throws |

### Known misbehaviour without a run of its own

These follow from the modules, and the properties are stated so as to live with them.

* A move that fails leaves its server write-locked, and no command of the ECS sends UNLOCK:
  because its connection is refused (the destination still boots when `awaitNodes` times
  out), or because the destination booted without the broker. With `Brokerless = {4}`,
  servers 4 and 8 and the command `addNode`, TLC finds `LockOnlyWhileMoving` violated: 8 is
  added, a pair is stored that belongs to 4, 4 is added; `Publisher.pub` throws at 4, the
  move ends in MOVE_DATA_FAILED (`KVServer.java:182`) and 8 answers SERVER_WRITE_LOCK from
  then on. `LockOnlyWhileMoving` holds only where no move can fail: the broker there, no
  early time-outs and no crashes (`Brokerless = {}`, `MaxFaults = 0`).
* Whoever connects to a server that is killed or shuts down at that moment, or whose
  accepting thread is held up, hangs: the ECS in the middle of a command, a client in put
  or get, a server in `moveData`. `CommandEnds` excepts the ECS that hangs; `RequestEnds`
  speaks of the requests under way when reconfigurations have ceased, which do not hang
  any more; `MoveEnds` is checked where no server ends.
* A server that was told metadata without an entry for itself (in `removeNode`, before
  it is shut down) dereferences null in `inRange`: it closes the connection where
  `IKVServer` promises updated metadata.
* A Subscriber that is blocked in `receive` sees `unsubscribe` only after the next
  message. Until then the thread lives, and `quit` ("exits the program") does not end
  the client's process. After a second `subscribe` both threads print that message.
* A `subscribe` while the broker is away leaves `subbed` set with no thread: the next
  one is refused ("Already subscribed").
* A server that boots without the broker stores nothing: every PUT ends in a
  NullPointerException and a closed connection, and every move to it fails.
* Announcements of two concurrent PUTs may come in the opposite order of their stores, and
  a move announces every pair it sends as a "Put" again.
* A server's range begins one position before its predecessor (`calc_metadata`; the
  comment says that the predecessor is excluded), which is why ownership is unique only
  off the `Seam`.
* A PUT that has passed the lock test stores although the lock is taken meanwhile, which
  is why `MoveDrainsWriters` speaks of the writers draining. Two PUTs of a new key may
  both be answered PUT_SUCCESS, as `inStorage` and `put` are separate steps.

These are also the reason for the split of the cluster's runs: `KVMap` is
implemented as long as requests and reconfigurations do not overlap
(`Overlap = FALSE`), servers boot and exit within the time limits and nobody is killed
(`MaxFaults = 0`), the broker is there (`Brokerless = {}`), and servers are not stopped
while data are moved to them. The
properties of `ClusterOverlap` and `ClusterFaults` are those that survive
without these assumptions.

### Bounds

Two servers are enough for a move between two in either direction;
three (`ClusterQuiet`) for a join or leave with a bystander, and for chains of moves of
the same pair. Keys 2 and 10 lie in the wrap-around range and an inner one. One
value, with null, distinguishes all the states of a key; `WriteDuringMove` needs
two to tell an old value from a new one. One client makes "the last write"
unambiguous (`known`); two test atomicity. A ring of 11 includes nodes at
distances 1 to 10, the first and the last position. The lookups are stated for
nodes at least three positions apart (`Spaced`), which MD5 hashes are.

Counted, with the bound in a guard: `MaxFaults`, the kills, held-up servers and early
time-outs of a behaviour (1: each fault occurs at every step of both commands; replies lost in
the race with `System.exit`, an ECS killed while it hangs and the ECS's own exceptions are
not counted, so a fault meets them in every combination). In `ClusterFaults` clients
disconnect before a command is given (`ClientsAway`), which leaves the data they stored to
be moved. One of its two servers has booted without the broker, so every move of a pair is
to that one and fails, if the fault does not come first; moves that succeed have nothing
to send there (they have in `OpenMoves` and the other runs of Cluster). Without data, TLC has also checked `CommandEnds` with two faults, and with
`addNode` and `shutDown`. Counted as well: `PerServer`, the PUTs of a server in `Notifications` (3: one
before, one during and one after a change of subscription), and `Subscriptions`, how
often a client subscribes (2: a new Subscriber beside an old one that still waits).
`Relaunch` switches second processes on in `OpenCommands`, where one server is
enough for them. The largest runs have 455,969 (`OpenMoves`), 487,764 (`OpenCommands`),
589,757 (`ClusterQuiet`), 816,160 (`ClusterTwoClients`), 380,159 (`ClusterOverlap`),
390,441 (`ClusterFaults`) and 316,405 (`Handshake`) distinct states. In `Handshake` a second peer is what a peer in trouble disturbs; `Backlog`
is 1, so that the accepting thread, one peer waiting and a full queue all occur (50 in
the code; the safety properties are proved for every length); the prime is 23 and the secrets 0, 5 and 6: the special case, an odd
and an even exponent with several rounds of the loop.

`CHECK_DEADLOCK FALSE` in the runs of OpenServers, whose environment may do nothing, in
`Handshake`, where the server ends, and in `Notifications`, where requests and
subscriptions run out.

### Fairness

Weak fairness of each server's threads (they are runnable Java threads), of
session expiry (ZooKeeper's, 3 s), of the ECS within a command and of a client
within a request. Nobody is obliged to give commands, send requests, connect or
restart. `RequestEnds` is conditional on commands ceasing: each redirection is
correct when it is sent, but a cluster that is reconfigured for ever can outrun a
client. `CommandEnds` relies on the time limit of `awaitNodes`. Whether a connection
that can hang does is a choice of the step that connects; no fairness excludes it. In `Handshake` the threads
of the server and of the peers run, and nobody has to connect, to ask for a shutdown or to
leave; in `Notifications` requests and Subscriber threads run, nobody has to type a
command and the broker need not come back.

### Properties that hold only without crashes

`awaitNodes` counts nodes and does not look at their names. After a crash a stale node can
stand in for the one awaited; a server launched again may fail to register
(`RegisteredWhileUp`), and an idle server may still run (`IdleIsDown`). Both are
checked in `ClusterQuiet`.

## 4. Proofs

The theorems hold for every value of the constants: any number of servers, keys, values,
clients and subscriptions, any ring. The assumptions are the named ones of the modules
that declare the constants (servers at positions 1 and up, keys on the ring, clients are
not servers, null is no value), which TLC evaluates in the runs. Every inductive
invariant was an invariant of TLC runs before it was proved.

**HashRingLemmas** says what `FirstNode`, `LastNode` and `Predecessor` choose (a nonempty
set of naturals has a least element), what the range of the first and of every other node
is, that the lookup two positions before a hash names its successor, and that a join hands
over the moved range from the successor to the new node and nothing else (`JoinHandsOver`).
**HashRingProofs** proves the five properties that `RingMembership` checks, `Coverage`,
`UniqueOwnership`, `JoinLookupCorrect`, `LeaveLookupCorrect` and `OnlyMovedRange`, and
`RangesTyped`. The only invariant needed is that the set of nodes is a nonempty subset of
the positions.

**OpenServersProofs** proves, with crashes, second processes, servers that are held up and
servers without the broker:

* `TypeCorrect`: the type invariant, by one lemma per group of actions;
* `Invariant`: the inductive invariant `ServerInv`, that is the types and
  - `MoveHoldsLock`: a move past its first step has the lock;
  - `ServedByRunning`: an open connection leads to a running process;
  - `MoveConnection`: a move's connection is to its destination, and a request is
    on it exactly while the move waits;
* `AwaitsService`: from it;
* `DrainsWriters`: an action property: while a server moves data, no thread of it
  enters the section of PUT past the lock test.

`MoveHoldsLock` alone is inductive only because one admin request is served at a
time (`AdminCall` asks for the last one to be over), and is no more than a part of the
induction: it says nothing about an administrator who does not keep to that. `MoveAwaitsService` is not
inductive: a process that ends must close every connection to it, which needs
`ServedByRunning`, and the reply must be to the request the move sent, which needs
`MoveConnection`.

**ClusterProofs** is about the whole system, with kills, early time-outs, lost replies,
restarts of the ECS and requests during reconfigurations:

* `ECSInvariant`, `ListsComplete`: `ServersAccountedFor` at every step of every command.
  It is inductive with the types and `RangeKnown` (the range of a move is looked up, and
  is the range of some node, before the move is requested), which the type of a
  MOVE_DATA message needs;
* `ClusterInvariant`: `ClusterInv`, that is `ServerInv`, `ECSInv`, the client's types and
  `Conversation(c)`: the point KVStore is at agrees with the state of its connection (a
  client that waits has a request on it, one that does not has none);
* `TypesCorrect`: `ClusterTypeOK`;
* `ClusterIsOpen`: the refinement `Spec => ServersAreOpen`. Each step of the cluster is a
  step of OpenServers or leaves its variables alone. `Conversation` is what lets a step
  of KVStore be one of the environment's: it sends on an idle connection only, and closes
  only one that has no request being served;
* `ClusterMoves`: with it `MoveAwaitsService` and `MoveDrainsWriters`
  hold in the cluster, as instances of the theorems about OpenServers.

**ReliableProofs** assumes `MaxFaults = 0` (nobody is killed, servers boot and exit
within the time limits), `Brokerless = {}` (the broker is there when they boot) and
`ReplyBeforeExit`, and nothing about the order of requests and
commands. Its inductive invariant `ReliableInv` says, for each step `epc` of each command,

* `ListsOK`: how the lists, the ECS's metadata, `node` and `peer` are related;
* `RolesOK`: active servers are up and registered, idle ones down and not registered, but
  for the one that is being started or told to end;
* `AdminsOK`: a server is busy with a command only if the ECS waits for it, and then with
  the command that belongs to the step;
* `MetaOK`: whose metadata are the new ones so far;
* `MoveOK`, `LockOnlyWhileMoving`: a move does not lose its connection, and unlocks.

The parts need one another: `awaitNodes` counts nodes and does not look at names, so that the
right server has come or gone follows from `RolesOK` by cardinality; a move keeps its
connection because its destination stays up (`RolesOK`) and answers from metadata with an entry
for itself (`MetaOK`); the metadata are right because a reply is the reply to the request
of this step (`AdminsOK`). From it follow `MetadataAgrees`, `IdleServersAreDown`,
`UpIsRegistered` and `LockIsReleased`. TLC checked `ReliableInv` with two servers and all
commands, with two servers and a client whose requests overlap, and with three servers.

**DataProofs** is about the data. Its hypothesis `Quiet` is about the constants: the one of
ReliableProofs; requests come between commands (`~Overlap`); the command `shutDown` is not given
(it clears the files); nodes are three positions apart; and no key hashes to a server's position
or to the one before it. A second one is about behaviours, `[]HeirStarted`: `start` and `stop` come
in any order with the other commands, but when `removeNode` has a server move its data, the heir
is not stopped. Runs show that these are needed: `MoveToStopped` loses pairs when a stopped
server inherits, `WriteDuringMove` loses a write that overlaps a move. The
hypotheses about positions exclude coincidences of MD5 hashes: at a seam a key has two owners.
The constants of `ClusterQuiet` and `ClusterTwoClients` satisfy `Quiet`. `HeirsAreStarted` says
that the second hypothesis holds of its own if `stop`, or `removeNode`, is not among the
commands: in the first case active servers are started (`StartedOK`, inductive
together with `DataInv`: a node becomes active after its START was answered), in the second there
are no heirs. `QuietCluster` puts it together with the results below. The inductive invariant
`DataInv`:

* `RangeOK`: from the lookups of a command on, the range to be moved is exactly what changes
  owner between the active servers and the new metadata, from the server that will be told to
  move to the destination it will be given (`JoinRange`, `LeaveRange`, from HashRingLemmas);
* `CalmOK`: requests run between commands only, and a new server is started before it is
  given data;
* `ServingOK`, `SentOK`: a request that has passed a test of `serve` has the property tested, a
  client's is at the owner of its key, a move's is a PUT of a pair the source has;
* `CollectedOK`: the copy of the storage and `dataToFlush` together are the pairs of the range;
* `CopiedOK`: a collected pair is at the destination too, or its PUT is being served;
* `PlacedOK`: before the move of a command every pair is where the active servers' metadata
  say, during the move there as well as, if collected, at the destination, and after it where
  the new metadata say;
* `ShortOK`: keys that are stored are short, so that no PUT of a move is refused for its key.

`Placement` alone is far from inductive: it speaks of the moments between commands, and what
happens between two of them needs every point of the move. That no PUT of a move is refused,
which `moveData` does not test, follows from `CalmOK` and `HeirStarted` (the destination is not stopped),
`LockOnlyWhileMoving` (not locked), `RangeOK` with `MetaOK` (responsible) and `ShortOK`. A
server that shuts down clears its file: `PlacedOK` says that it is empty by then. The theorems are
`DataInvariant`, `FlushedDataIsTransferred` and `DataIsPlaced`. TLC checked `DataInv` with
the constants of `ClusterQuiet`, with two servers, two clients and a key that is too long, and
with `stop` among the commands.

Its second half has, under the same hypotheses, the refinement `ClusterIsMap`
(`ImplementsMap`), for any number of clients. `CopiesAgree` says that copies of a pair are equal, so that
`View` is well defined during a move. Then each step of the cluster is one of three kinds.
Those of moves, servers and the ECS (`Background`) change neither `View` nor what a client
waits for: a move deletes only what its destination has, a process ends only when no request
runs. A thread serving a client reads or writes the map in one step: `getKV`, `put`, and
`inStorage` when there is nothing to delete; this needs that it works on the client's request
(`ServedWasAsked`) at the one server that may have the key (`OwnerView`). A client's own
steps call, return or give up. For one client, `AnnouncementIsCurrent` and
`ReadsWhatWasWritten` follow with three more invariants: what was announced is what `put`
is about to store or what is stored (`TopicOK`), a reply on its way is not out of date
(`AnswerOK`), and what is stored may be read unless the reply to its PUT is on its way
(`KnownOK`). With two clients the first is false (section 3) and the history variable of
the second has no meaning. TLC checked all of these invariants first.

**NotificationsProofs** proves `TypeOK` and the four safety properties of `Notifications`
for any number of servers, requests, clients and subscriptions, with a broker that comes and goes:
`StoredAnnounced`, `HearsStretch`, `StopsAfterOne`, `ListensOnce`. Its invariant
`NotifInv` adds to them that a change is announced before it is stored (`Announced`),
that a Subscriber told to stop that waits for a message has printed nothing since
(`Stops`: `OneMoreAtMost` is not inductive, the next message would make it two), that
those not created yet are as new (`Unborn`), and, as `Hears`, the stretch of the topic
element by element, which is what the provers can reason about.

**HandshakeProofs** has two parts. The first is about `fastModExp`. The library's induction
theorems take a formula as a parameter, which the installed provers cannot instantiate; a *set*
of naturals they can, so `Induction` and `StepInduction` say that a set of naturals closed
under "everything below" or under "plus one" is `Nat`, from the well-foundedness of `<`. Each
induction of the module gathers the numbers for which its claim holds in a set. In this way
`PowerDef` shows that the reference definition `Power` satisfies its recursion,
`PowerSum`, `PowerProduct` and `PowerSquare` the laws of exponents modulo the prime,
`LoopResult` that the loop ends and which product it returns (`TurnKeepsResult`: a turn
changes the variables and not `Y * G^x`), and
`FastModExpIsPower` that the code's loop computes the power, for any modulus, base and
exponent. `SharedKey` is Diffie-Hellman: either end's two exponentiations give
`g^(xy)`.

The second part is the exchange, for any number of peers, secrets and lengths of the
backlog, and with peers that die at any point. The inductive invariant `HandshakeInv` has,
beside the types, `WaitingOK` (whoever waits in the backlog is there once, and its server
end does not exist), `MainOK` (the accepting thread is in a constructor exactly when
one server end is, and of one peer only), `SentOK` (what an end has written, by its point),
`PairOK` (which points of the two ends go together), `KeyOK` (an open end has the power
of the two secrets) and `MailOK` (a request was encrypted with that power). From it
follow `KeysAreShared`, `RequestsAreReadable` and `NobodyWaitsMutually`, the safety part of
`ExchangeEnds`: the accepting thread is stuck only with a peer that disappeared.
`KeysAgree` alone is not inductive: that the secret an end computed with is still the secret
of the other end needs `PairOK`, that is, that no name is used for two connections. The
attempt to prove this showed that an earlier version of `connect` let a peer that had
died in the backlog connect again under the same name, which merged two connections of
the program into one; with a backlog of one TLC did not reach it.

Only model-checked:

* Liveness (`RequestAnswered`, `MoveEnds`, `RequestEnds`, `CommandEnds`, `ExchangeEnds`,
  `ShutdownEnds`, `WaitingIsPrinted`, `ToldEnds`): fairness is out of the prover's reach.

## 5. Not modelled

* Cryptography: DES, SHA-256, HMAC and serialization. A message is its key: read under
  the same key it is what was sent, under another it is lost.
* An ECS killed with a request in flight, and more than one extra process of a server.
* The broker's and ZooKeeper's insides.
* `ECSClient.addNodes` and `removeNodes` (the command `addNodes` calls `addNode`
  repeatedly; nothing calls these methods).
* A server held up in an exchange while it handles a SHUTDOWN (in Handshake it is). Two
  requests of administrators at one server at a time.
* The size of values; disk errors; hash collisions; parsing, printing, logging.
* Vendored code. Most of the repository's files, and all of its JavaScript (the
  ActiveMQ and ZooKeeper web pages and examples), are third-party distributions: they are
  no part of the store. The program is the Java under `src/src`.

## 6. Status

Done, as planned: HashRing, RingMembership, KVServer with second processes, OpenServers,
ECSClient with its kills and time limits, KVStore, Cluster, KVMap, Handshake, Notifications; the
theorems of section 4, which state every safety property that a passing run checks.

Left: the data under faults. After a kill, an early time-out or a lost reply the lists are
complete (`ListsComplete`) and the servers are still those of OpenServers (`ClusterIsOpen`), but
pairs may be lost or stored twice, and no weaker promise about the data suggests itself.
