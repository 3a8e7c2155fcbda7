# A TLA+ model of NamoServer

NamoServer is a C++ game server for Windows: an IOCP network core
(`src/ServerCore`), a room-based game on top of it (`src/GameServer`), a load
client (`src/DummyClient`). This directory holds TLA+ modules for its parts
that are hard to test - who executes a room, who may touch a session, what a
disconnect races with - the TLC configurations that check them, and TLAPS
proofs for any number of threads, sessions, rooms and messages, and maps of any
size. Nothing is modelled from the documents; they are quoted only where a
property states what they promise.

## 1. Inventory

### 1.1 The parts

| Part | State | Operations | Talks to |
|---|---|---|---|
| **JobQueue** (`JobQueue.*`, `Job.h`, `LockQueue.h`) | `_jobs`, atomic `_jobCount`, thread-local `LCurrentJobQueue` | `DoAsync`/`Push`, `DoTimer`, `Execute` | global queue, timer; every Room is one |
| **GlobalQueue** | LockQueue of job queues that nobody executes | `Push`, `Pop` | JobQueue, workers |
| **JobTimer** | heap of `TimerItem`s, atomic `_distributing` | `Reserve`, `Distribute` | JobQueue (`Push`) |
| **Worker loop** (`GameServer.cpp` `DoWorkerJob`, `ThreadManager`) | thread-local `LEndTickCount` | `Dispatch(10 ms)`, `DistributeReservedJobs`, `DoGlobalQueueWork` | IOCP, JobTimer, GlobalQueue |
| **Session** | `_connected`, send queue and flag under a lock, `_sendSeq`, four `IocpEvent`s, `_recvBuffer` | `Send`, `Disconnect`, `Register*`, `Process*` | Windows (overlapped I/O), Service, the application's callbacks |
| **RecvBuffer, PacketSession** | read and write position, `_recvSeq` | `OnWrite`, `OnRead`, `Clean`, `OnRecv` | Session, AESCrypto, GameSession |
| **IocpCore, Listener, Service** | completion port, accept events, set of sessions | `Dispatch`, `ProcessAccept`, `AddSession`, `ReleaseSession` | Session |
| **GameSession, ServerPacketHandler** | `myPlayer`, `_lastPingTime`, `_pongTime`, rate limiter | `OnConnected`, `OnRecvPacket`, `OnDisconnected`; ENTER_GAME, PONG, MOVE, SKILL | Room (by jobs), ObjectManager, GameSessionManager |
| **RateLimiter** | tokens, time of the last refill, per packet kind | `TryConsume` | GameSession |
| **RoomManager, ObjectManager, GameSessionManager** | maps under a lock | `Add`, `Remove`, `Find` | handlers |
| **Room** | `_players`, `_monsters`, `_projectiles`, `_map`; no lock | jobs: enter, leave, move, skill, `Update` (100 ms), `SendPing` (10 s) | sessions (`Broadcast`), itself (timers) |
| **Map, Monster, Arrow, GameObject, Player** | grid of objects, state machine, target, flight, hp | `CanGo`, `Find`, `ApplyMove`, `ApplyLeave`, `FindPath`; `Update`, `OnDamaged`, `OnDead` | Room |
| **AESCrypto** | key, `_iv`, `_ivBackup`; no lock | `Encrypt`, `Decrypt`, HMAC | Session (`Send`), PacketSession (`OnRecv`) |
| DummyClient | position | answers pings, sends moves and skills | the server |
| SendBuffer, BufferReader/Writer, SocketUtils, NetAddress, locks, JobStats, ServerMonitor, ConfigManager, DataManager, ObjectUtils, Study, generated and vendored code | | | not modelled, section 7 |

### 1.2 How they interact

A packet arrives at a worker (`Dispatch` -> `ProcessRecv` -> `OnRecv` ->
`OnRecvPacket` -> handler). The handler does not touch the room: it posts a job
to the room's queue (`DoAsync`). Whoever posts the first job executes the queue
there and then; whoever finds it busy goes on. A queue with jobs left at the
end of a worker's tick goes to the global queue. Timers become jobs in
`Distribute`. A room answers by `Send` on sessions, from whichever worker
executes it, while others handle the completions of those sends. A connection's
end is one more completion; `OnDisconnected` posts the player's leaving.

### 1.3 What is hard, and what makes a part correct

* *Interleaving without locks.* `Push` and `Execute` agree through one counter;
  `Send` and `ProcessSend` through one flag; the receive side, the cipher and
  Room through no lock at all. Correct: exactly one executor, sender, receiver - and never
  none when there is work.
* *Ordering.* Enter before leave, although they are posted by different
  workers; buffers on the wire in the order of `Send`; packets of a stream
  whatever the receives they come in.
* *Termination races.* Client, heartbeat, rate limiter and failing sends may
  disconnect at the same time, and handlers may run during and after it.
  Correct: released once, and nothing of the session stays behind.
* *Time.* Ping against pong, refill against burst, tick against queue.
* *Iteration.* `Update` runs over containers that damage, death and leaving
  change.
* *Stale references.* A monster's target, a queued job, a handler's local keep
  objects that have left. Correct: nobody comes back that way.
* *Paths.* A* whose costs forget the way already gone, and whose answer is never
  empty.

`PROJECT.json` lists the hazards line by line, with the properties that cover
each and the reason where none does yet.

## 2. The modules

| Module | Models | How it corresponds |
|---|---|---|
| `ActorQueue` | the abstract job queue: `unsent`, `mailbox[q]`, `ran[q]`; `Send`, `Run` | what DoAsync promises: FIFO, one at a time, each once |
| `JobQueue` | `Push`, `Execute`, `LockQueue`, `GlobalQueue` | one action per atomic operation: `Announce` = `fetch_add`; `EnqueueOnly/AndExecute/AndHandOff` = `_jobs.Push` with the branch that follows; `PopAll`, `RunJob`; `RetireLast/Continue/Expired` = `fetch_sub` with its branch; `HandOff`, `StartFromGlobal` |
| `WorkerThread` | `DoWorkerJob`, `ThreadManager`, `JobTimer` | EXTENDS JobQueue, adds the clock (`Tick`); `ClaimDistribution` ... `EndDistribution` are `Distribute`; `CheckTick`, `EndTick`, `TakeFromGlobal`, `PopNothing` are the loop of `DoGlobalQueueWork`; `Continue`/`Expire` are the two ways out of a round of `Execute`, now decided by `LEndTickCount` |
| `Session` | `Session.cpp` without bytes | `pc[t]` is where a thread is in Session's code; `io[e]` is what Windows does with an event (`Complete`); `handler[t]` the application's callback; `registry` the entry in `Service::_sessions`; `known` that a room has the session |
| `PacketStream` | `RecvBuffer`, `PacketSession::OnRecv` | a byte is its offset in the peer's stream, `frame[o]` what one reads there; `HandlePacket`, `SkipDuplicate`, `Invalid` are the ways through the loop, `Clean` the end of it |
| `SecureChannel` | `Send`'s numbering and encryption, `OnRecv`'s decryption and sequence check, `AESCrypto`; both ends of one connection | a packet is its number and whether it was (de)ciphered with the right IV; `Encrypt*` and `Decrypt*` are the memcpys of `_iv` and the beginning and end of a BCrypt call |
| `RateLimiter` | one `TokenBucket` and what `OnRecvPacket` does with its answer | `Refill` inside `TryConsume` |
| `PingPong` | `Room::SendPing` with `Handle_C2S_PONG` | one action per load and store of the two atomics |
| `FindPath` | `Map::FindPath`, `CalcCellPathFromParent` | functions: the set of paths that the search may return, over all orders of equal entries in the priority queue |
| `Room` | the game of one room: `Room`, `Map`, `Monster`, `Arrow`, `GameObject` | EXTENDS FindPath; a job is one action, `Update` one per object it visits; `todo` is what its loop has still to visit; `modified` the containers changed while it runs; `seen[p]` what the packets have told client `p` |
| `Lobby` | `GameSession`, handlers, registries, membership of rooms | a session's `OnRecv` and `OnDisconnected` run on two workers (`recv`, `closing`), with a step for each load or store that the other may see; rooms are mailboxes: `Queues == INSTANCE ActorQueue` |
| `MC*` | instances for TLC | timers, streams, map, symmetry |
| `JobQueueProofs` | TLAPS proofs about JobQueue and WorkerThread | EXTENDS WorkerThread; section 6 |
| `SessionProofs`, `PacketStreamProofs`, `SecureChannelProofs`, `RoomProofs`, `LobbyProofs`, `PingPongProofs`, `RateLimiterProofs` | TLAPS proofs about the module of that name | section 6 |

They rest on each other the way the code does. `JobQueue` implements
`ActorQueue`, by a refinement mapping; `WorkerThread` implements `JobQueue`, and
gives it the fairness it assumes as long as the workers keep up (3.2); `Room` may treat a job as atomic because of
`MutualExclusion`, and `Lobby` may use `ActorQueue` in place of `JobQueue`
because of `ImplementsFairActorQueue`. `PacketStream` has one program counter
because of `Session`'s `OneReceiver`, as each end of `SecureChannel` has one
receiver; on the server's end `Send`s do not overlap because of
`MutualExclusion`. `Lobby` lets OnDisconnected run once
because of `ReleaseFindsSession`.

Names ending in a fault (`RetireAndDrop`, `PushSendAlways`, ...), commented
*Mutant*, are what a plausible slip would make of the definition below them.
They are no part of any specification: each shows that some property would
notice.

### 2.1 Choices a reader should know

* `JobQueue`: the vector of `Execute` is consumed job by job, and a job may
  push to any queue, its own included. `pushOnly` is free although no caller
  in the repository passes `true`.
* `Session`: a `WSASend`, `WSARecv` or `DisconnectEx` may be refused at the
  call or fail later. `HandleError` disconnects inside the lock, as the code
  does. A packet is encrypted or it is not; a failed encryption is
  `SendNothing`.
* `PacketStream`: integrity and decryption are the field `sound` of a packet.
* `Room`: time is abstract, a tick may or may not have come, which includes
  every schedule that GetTickCount64 could produce. A chasing monster takes any
  of the paths that `FindPath` may return. `OnDead` takes the object out of the
  room and in again within the action. Levels, experience and names are left out.
* `FindPath`: F depends on the cell alone, so copies of an entry in the priority
  queue are equal, and a set of cells stands for the queue.
* `SecureChannel`: encryption is on, as in `config.json` and `DummyClient.cpp`.
  A wrong IV spoils the first block, which holds the header: `OnRecv` then reads
  any flag and number, or the padding fails. The threads that send are those
  of the repository: on the client the main thread (moves, skills) and a
  worker (the pong); on the server one job of the room at a time, on any worker.
  The connection closes for both ends at once.
* A cached response is set only by an end that sends sequenced packets. The
  only one is `C2S_SKILL` (`ServerPacketHandler.h:27`), so `_lastResponse` of the
  server is never set: a client that repeats a skill is answered by silence,
  unlike what `PacketRecvFlow.md:284-286` describes.
* `WorkerThread`: every time is kept relative to now, so that the clock goes on
  for ever: a `Tick` takes one from each, down to `MaxAge` ago. What is told
  apart is then `LEndTickCount` before or after now, an item due or not, for a
  worker that stalls between reading the clock and using it up to `MaxAge`.
* `FindPath` and `Room`: cells are counted from the map's corner. The offset of
  `Cell2Pos` and `Pos2Cell` (-23, -8 for `Map_001.txt`) is dropped; no property
  depends on it.
* `Lobby`: which jobs a session can post is kept exactly; what MOVE and SKILL do
  is `Room`'s business. The rate limiter may refuse a packet at any place in the
  buffer (`RejectPacket`), before an ENTER_GAME or after it, and OnRecv goes on.
  Three history variables say why OnDisconnected could not see a player: its
  entering was posted after it had looked (`late`), or a second ENTER_GAME had put
  another in its place (`replaced`); `early` are the sessions that were refused a
  packet before their first ENTER_GAME.

## 3. The runs

| Run | Instance | Shows |
|---|---|---|
| `jobqueue` | 3 threads, 2 queues, 3 jobs | `MutualExclusion`, `OneToken` (a queue with jobs has exactly one party responsible for it: no lost wakeup, no double execution), `CountIsExact`, and, under fairness, that it implements the FIFO mailbox |
| `worker` | 2 workers, 2 queues, 2 jobs, ticks of 2, delays up to 2, one timer of `Room::Init`; the clock goes on | one distributor, a timer item in one place; as long as the workers keep up, every reserved job is run although the distributor may execute rooms on the way, and `FairSpec` of JobQueue |
| `session_safety` | 3 threads, 3 buffers | `OneSender`, `OneReceiver`, `Pinned`, `SendOrder`, `ReleaseFindsSession` |
| `session_liveness` | 2 threads, 2 buffers | no send is stranded on an open connection, a disconnected session is released |
| `stream` | packets of 3 or 4 bytes, 4 of them, good, forged or too short, sequence 1..2 or none, buffer 3 x 4 bytes | the unread part of the buffer is the stream's; a receive always has room; framing; no replay |
| `rate` | 2 tokens, second = 3 ticks, 9 ticks | at most twice the limit in any second, no false rejection |
| `pingpong` | interval 5, timeout 2, latency 1, clock to 22 | `NoFalseTimeout`, `ZombieBound` (2 intervals and latencies), no wrap-around |
| `room_safety` | 2 players, 1 monster (dies of two hits, a player of one), 1 arrow, a map of 3 x 3 cells, three of them free; FindPath with every set of walls on it | containers, `_room` pointers, grid, iterators, arrow's end, what clients see; who has left stays away; a monster takes single steps; `FindPath` finds paths, and where it cannot, strays only in a certain way |
| `channel` | 2 ends; the client's main thread sends twice, the other three threads once | if no two uses of an end's cipher overlap: packets intact, nobody cut off, skills handled once and in order |
| `channel_race` | the same | bug, section 5 |
| `lobby` | 2 sessions, 2 players, 1 room, up to 2 ENTER_GAMEs per session, one player that moves | nobody of an ended session whom OnDisconnected could see stays in a room or a registry; whom it could not see |
| `lobby_rooms` | as `lobby`, with 2 rooms and 1 ENTER_GAME | bug, section 5 |

### 3.1 Why the bounds are enough

* *jobqueue*: the races of Push are between a first poster, a second and an
  executor: three threads. A hand-over needs a second queue. Three jobs make a
  vector of two, a job posted while it runs, and a round after it. The theorems
  of section 6 take all bounds away from the invariants.
* *worker*: two distributors race; a job of the timer's room and one that
  posts from a packet. A tick of 2 is exceeded in
  Dispatch, in Distribute, inside Execute or not at all; delays of 1 and 2 have
  items that are due together, one after the other, and not yet. Nothing in the
  code compares times that are further apart than `MaxAge` = 2 but to find them
  past.
* *session_safety*: one thread sends, another sends or disconnects, a third
  handles completions. With three buffers one is under way, one is in
  the event, one waits.
* *stream*: with a capacity of 12 bytes and packets of up to 4, four packets
  bring the positions to the end of the buffer and force a compaction in the
  middle of a packet; every split into receives is a behaviour. Contents do not
  matter to RecvBuffer, and `SizeAssumption` states the relation of the sizes
  that the code has (64 KB packets, 256 KB, 10 times).
* *rate*: nine ticks are three seconds, two refills at any phase.
* *pingpong*: 22 ticks are four pings, enough for a check after a check passed.
  `Width` plays the part of 2^64; `PingAssumption` keeps it far from the clock.
* *room_safety*: a player who dies, leaves, shoots and stands in the monster's
  way exists in every combination with a second one; on three cells in a corner,
  with the map's edge and walls around them, every collision occurs, and the
  shortest chase of two steps. `FindsPath` and `StrayPath` depend on no variable;
  the run has them as `RoomFindsPath` and `RoomStrayPath`, for all 512 sets of
  walls, from and to every cell: detours, dead ends, cells that are cut off and ties all occur there. Section 6 has them
  for every size. Two monsters exceed what TLC can enumerate here:
  that two of them have the same target is not covered.
* *channel*: four threads, one per direction and end; two sequenced packets give
  an order to break, and a number to be taken for a duplicate. Noise carries
  numbers up to 2: below, equal to and above what is expected.
* *lobby*: sessions interact only through the room and the registries. With two
  players and two ENTER_GAMEs one session may make both players, while the
  other does not, or each session one. `Mover` = {p1}: one player moves, once,
  so that a MOVE may be posted before, between and after entering and leaving; a
  MOVE changes nothing that the properties look at, only who is behind whom in
  the room's queue.

`CHECK_DEADLOCK FALSE` stands where the system may stop: all jobs have run, the
connection is closed and released, the clock has reached its bound (`rate`,
`pingpong`). The Room never stops (`Update` reserves itself), and deadlock is
checked there. In `worker` a `Tick` is always possible, so that the deadlock
check says nothing: that the loop does not get stuck is what its liveness
properties say.

### 3.2 Fairness

* *jobqueue*: a thread inside Push or Execute goes on (jobs terminate, the locks
  are held for a few instructions), and some worker takes from the global queue
  if it is not empty. The code does not guarantee the second.
* *worker*: threads are scheduled and time passes (`WFairness`), and again and again
  some worker comes to the global queue with time left in its tick
  (`WorkersKeepUp`). The last is an assumption about the load. DoGlobalQueueWork
  tests the clock before its first `Pop` (`ThreadManager.cpp:60`); if Dispatch and
  Distribute take `WORKER_TICK` or more on every worker each time, no worker looks
  at the global queue, and the rooms in it are not served. TLC finds that behaviour
  for both `ImplementsFairJobQueue` and `TimersFire` when the assumption is left
  out. With it, the run shows the fairness that *jobqueue* assumes. `WorkersKeepUp`
  asks for one worker, not each, and for one look: that this is enough for every
  queue, although queues are handed back at the end of it, is what is shown.
* *session_liveness*: threads go on; Windows completes a WSASend and a
  DisconnectEx, one way or the other; a WSARecv may stay pending for ever. The
  completion port is FIFO, so that a completion is not passed over for ever
  (strong fairness of `Dispatch`). No fairness makes anybody call Send or
  Disconnect.
* *lobby*: rooms' jobs run (`ActorQueue`'s fairness, shown for JobQueue under the
  fairness above) and OnDisconnected ends. Handlers need not end.

## 4. Properties, and what each would catch

A property is there because it takes several steps to break. For example,
`OneToken` fails if a thread whose tick is over forgets to hand the queue on -
three actions after the counter made it the owner, and no later Push would
repair it, since the counter is not zero. `LeaveFindsArrow` fails if a timer's
Update could overtake an arrow's posted leaving. `NoGhost` fails if OnDisconnected
asked only players that are in the room already to leave: the entering may wait
in the room's queue. `PROJECT.json` has such a mutant for every property.

`NoGhost`, `RegistryExact` and `EveryoneLeaves` except the players that OnDisconnected
could not see (`Missed`), because the code leaves those behind (section 5); what
they state of all others holds for every order of the session's two workers and
the room's jobs. `FirstEntersInTime` is the other half: it says whose players can
be missed. It needs that no receive is outstanding while OnRecv runs; were the
next one registered before OnRecv is called (its mutant), a client's orderly close
could overtake its ENTER_GAME.

Most modules state a type invariant `TypeOK`, as the ground of their proofs, and
it is proved. No run lists one: the runs are for what relates the parts.

`GoneStaysGone` is about a reference that nobody clears: a monster in its Skill
state goes on hitting a target that has left (section 5), and a deadly hit makes
the dead enter the room again; that `OnDamaged` looks at `_room` first is all that
keeps a player whose connection has ended from coming back.
`SkillsOnceInOrder` and `HonestStayConnected` hold because one thread of the client
sends sequenced packets. `PacketSendFlow.md:229` expects `Send` from several
threads at once; were two of them to send packets with numbers, TLC finds an
honest client cut off as a replay, since numbering and queueing are two steps.

`GridSound` states one direction only: what stands on the grid is in the room,
and there. The converse is false in the code: a move that is refused takes the
object off the grid first (`Map::ApplyMove`), and entering ignores the result,
so that two who enter on the spawn point leave one of them on no cell.

## 5. Disagreements found

Each of these is a run that TLC refutes.

* `lobby_rooms` / `NoGhost` - *bug*. `OnDisconnected` posts the leaving to room
  1 (`GameSession.cpp:28`), ENTER_GAME distributes over all rooms
  (`ServerPacketHandler.cpp:33`), and `config.json` has five. A player of
  another room stays there, for the others to see, with no session.
* `channel_race` / `SameIV` - *bug*. `AESCrypto.cpp:113` promises the same IV for
  every encryption. `_iv` is shared by `Encrypt` and `Decrypt` of a session,
  restored and used in two steps, with no lock; a room's job sends while a
  worker decrypts (`Session.cpp:43`, `:449`). The packet's first block - id,
  flags, sequence - becomes noise that the HMAC does not notice: an honest
  client may be cut off as a replay, or a skill be lost as a duplicate. `channel`
  shows that the overlap is the only way to get there.

Others were met while modelling and have no run of their own:

* *A second bug that leaves ghosts, with one room and one ENTER_GAME.* A packet that
  exceeds the rate limit disconnects the session, but `OnRecv` goes on with what
  stands behind it in the buffer (`GameSession.cpp:44-49`), whereas
  `PacketRecvFlow.md:398` says that a check that fails cuts the connection at once.
  With too many MOVEs before ENTER_GAME in one buffer, OnDisconnected may find `myPlayer`
  null on another worker while the handler makes the player: it enters the room
  afterwards and stays in it, and in ObjectManager, for ever. `lobby` has this
  behaviour: such a player is `late`, and `NoGhost`, `RegistryExact` and
  `EveryoneLeaves` except it. Without that exception TLC finds each of them violated
  for one session, one player, one room and `MaxEnter = 1` (OnConnected, ProcessRecv,
  RejectPacket, AddPlayer, LoadPlayer, StorePlayer, ChooseRoom, PostEnter).
  `FirstEntersInTime` shows that a client whose first packet is ENTER_GAME, and the
  only one, is safe from it.
* `Monster.cpp:130` says "is the target valid", the line below checks that it is
  not null: a monster in its Skill state goes on hitting a player who has left,
  and tells everybody. `GoneStaysGone` bounds the damage.
* `FindPath` returns a path for a destination that cannot be reached
  (`Map.cpp:207`): `StrayPath` says which. The free cells of the map in use,
  `Map_001.txt`, are connected, so that it does not happen there.
* ENTER_GAME is not refused to a session that has a player: the second one
  overwrites `myPlayer` (`ServerPacketHandler.cpp:29`), and the first player is
  left in the room for ever. DummyClient sends one. `lobby` has two: the player put
  aside is `replaced`, and excepted; without the exception TLC finds `NoGhost`
  violated. A second ENTER_GAME may also be `late`, behind OnDisconnected's look.
* `ThreadManager.cpp:60`: the global queue is looked at only with time left in the
  tick, so that it is not drained under a load that uses every tick up (3.2).
* `ObjectManager.h:28` gives ids 24 bits, and `_counter++` is not masked: after
  2^24 objects (an arrow is one) the counter runs into the type.
* `NetworkSecurity.md:93` says ten moves per second; the bucket is refilled to
  the brim once a second, so that 20 may pass within one. `AtMostTwice` is the
  bound that holds.
* `PingPong.md:34` says that three seconds without an answer cut the connection.
  The answer is only looked at when the next ping is due, 10 s later, and the
  timeout is 4 s (`Room.h:41`). `ZombieBound` is the bound that holds.
* `WorkerThread.md:379-387` says that DoAsync on an empty queue goes to the
  global queue; `Push` executes it on the posting thread, unless that thread is
  executing a queue already.

## 6. What is proved

Forty-eight theorems, for every value of the constants that the named assumptions
of the modules allow; `PROJECT.json` lists them, and which property of a run each
one states. All safety invariants and action properties of the passing runs are
proved.

| Module | Theorems (property) |
|---|---|
| `JobQueueProofs` (JobQueue) | `TypeCorrect`, `ExactlyOneToken` (`OneToken`), `Exclusive` (`MutualExclusion`), `CountExact` (`CountIsExact`), `ImplementsActorQueue` |
| `JobQueueProofs` (WorkerThread) | `WorkerTypes`, `OneDistributes` (`OneDistributor`), `TimersOwnedOnce` (`TimerOwnedOnce`), `ImplementsJobQueue`, `WorkersServeActors` |
| `SessionProofs` | `TypeCorrect`, `SendEventOwned` (`OneSender`), `ReceiveSerialized` (`OneReceiver`), `OperationsPinned` (`Pinned`), `SentInOrder` (`SendOrder`), `ReleasedOnce` (`ReleaseFindsSession`) |
| `PacketStreamProofs` | `TypeCorrect`, `NoByteLost` (`BytesIntact`), `AlwaysRoom` (`RoomToReceive`), `FramesRecognised` (`Framing`), `NeverReplayed` (`NoReplay`) |
| `SecureChannelProofs` | `TypeCorrect`, `IntactUnlessOverlap` (`NoiseOnlyFromOverlap`), `StaysConnected` (`HonestStayConnected`), `SkillsInOrder` (`SkillsOnceInOrder`) |
| `RoomProofs` | `TypeCorrect`, `PointersRight` (`RoomPointers`), `GridCorrect` (`GridSound`), `LoopsUndisturbed` (`IteratorsValid`), `ArrowsLeaveOnce` (`LeaveFindsArrow`), `ViewsAgree` (`ViewExact`), `LeftForGood` (`GoneStaysGone`), `MonstersWalk` (`MonstersStep`) |
| `RoomProofs` (FindPath) | `PathsFound` (`FindsPath`, `RoomFindsPath`), `PathsStray` (`StrayPath`, `RoomStrayPath`), `AlwaysAnswers` |
| `LobbyProofs` | `TypeCorrect`, `UsesActorQueues`, `RegistriesExact` (`RegistryExact`), `FirstsEnterInTime` (`FirstEntersInTime`), `NoGhosts` (`NoGhost`) |
| `PingPongProofs` | `TypeCorrect`, `NeverWraps` (`NoWrapAround`), `TimeoutsRight` (`NoFalseTimeout`), `ZombiesEnd` (`ZombieBound`) |
| `RateLimiterProofs` | `TypeCorrect`, `TwiceAtMost` (`AtMostTwice`), `OffendersRejected` (`OnlyOffendersRejected`) |

Each proof about a specification is the same argument: an inductive invariant,
that Init implies it, that each action preserves it, one lemma per conjunct or
per action, and PTL at the end. TLC found each of these invariants to hold on the runs' instances
before it was proved. Why the properties need them:

**JobQueue.** None of `OneToken`, `MutualExclusion`, `CountIsExact` is inductive
alone. That `RetireLast` may leave the queue to nobody needs the counter to be
exact; that a fetch_add which returns 0 makes the caller the only owner needs
the count and the token together; that `fetch_sub` does not go below zero needs
the vector's size to be part of the count. The inductive invariant is

    IInv == TypeOK /\ Locals /\ OneToken /\ OneRole /\ CountIsExact

where `Locals` says which of a thread's locals mean something at which place and
`OneRole` that a thread does not hand over the queue it is executing. Lemmas
about `Cardinality(Pushers(q))` carry the arithmetic of the counter. The
refinement `Spec => Actor!Spec`, the safety part of `ImplementsFairActorQueue`,
maps each step to a step of the mailbox or a stutter; it rests on `PostedOnce`
(a job is posted once, so that the rest of a batch and the queue are one
sequence without repetition).

**WorkerThread.** `WInv` says that the flag `_distributing` is set exactly while
one worker distributes (`FlagHeld`), that a timer item is in the heap or with
one worker (`OnePlace`), and that its job is nobody else's and not posted
(`OwnJob`). The last needs the timers of the start to have jobs of their own
(`InitialTimersAssumption`), as the code makes one job per `Reserve`. It is
inductive together with JobQueue's invariant (a `Tick` changes the times of items
and not their jobs, so that those that were distinct stay so, wherever they are),
and every step of the loop is then one of JobQueue or leaves it alone. So the
results compose: `WSpec` implies JobQueue's `Spec`, that implies ActorQueue's, and
`WorkersServeActors` says so of the server's loop with `MutualExclusion`.
`UsesActorQueues` is the other end: Lobby's steps on its rooms' mailboxes are
ActorQueue's.

**Session.** `OneSender` and `OneReceiver` count the parties, threads and the
system; `Sender` and `Receiver` are those counts taken apart. They need to know
that no callback runs before the session is connected (`Opening`), that
Disconnect has one winner (`Closing`), and where a thread in a callback goes on
(`Locals`). `SendOrder` needs that a buffer is in one place at a time (`Fresh`)
and how far those transmitted reach into those posted (`Reach`).

**PacketStream.** `RoomToReceive` holds because what Clean has to move is less
than the largest packet (`Leftover`), which is what the buffer's three parts are
for. `Framing` and `NoReplay` need the position that OnRecv has reached (`Passed`,
`Handled`) and that `_recvSeq` is behind no packet handled (`NotBehind`).

**SecureChannel.** A thread that has restored the IV finds it (`BackupIV`), as
another could only spoil it from within the cipher, and then they overlap
(`Exclusive`). For the numbers, `Flow` says for each direction that the wire
holds the numbers between the one being received and the one being sent, each
once and in order; lemmas say what send, push, receive and handle do to it.
`StaysConnected` and `SkillsInOrder` assume that only the threads that send
number packets (`Sequencer \subseteq Side \X {"send"}`): `C2S_SKILL` is the only packet
for which `NeedsSequence`, and DummyClient's main thread sends it.

**Room.** All the properties are invariant only together: a move or a hit leaves
grid, containers, pointers and views agreeing because they agreed before. Added
are `Visitors` (who has entered and not left is in), `Clear` (nobody is on a
wall), `UpdateOnce` (one Update at a time, behind the leave jobs of the last)
and `ArrowsLeft` (the arrows still to be visited have posted nothing). They hold
whatever FindPath answers. `MonstersWalk` assumes that the map's free cells are
connected, as those of `Map_001.txt` are, and takes `FindsPath` from the next
paragraph; without that assumption it is false (section 5).

**FindPath.** Its loop, `CalcCellPathFromParent` and the reference `Component` are
recursive functions, so these are inductions over the number of rounds or steps
(`SetInduction`, from the well-foundedness of `<`). What a round keeps is

    SearchInv == Searching /\ Frontier /\ Ways /\ Counted /\ (walls = {} => Straight)

`Frontier`: what a visited cell has around it is visited, in `pq` or a wall; so
when `pq` runs empty, all that can be reached was visited. `Ways`: from each
visited cell the parents lead back to the start, by neighbouring cells and no
cell twice, which is why CalcCellPathFromParent ends and what it returns.
`Counted`: each round visits one more cell, so there are no more rounds than
cells (`AlwaysAnswers`: the loop ends, with a result). `Straight` is why a search that
forgets the way already gone finds a shortest path where there are no walls: the
cell visited last is the cheapest (`LastVisited`), only its own neighbours can be
cheaper, and among neighbours cheaper is nearer (`CheaperIsNearer`), for the
squared distances of the code as for the steps that CellDist counts. A cell
that was not found has the parent `Pos()`, which is what `StrayPath` is about. Costs
are numbers without a width here; in the code `10 * (dx * dx + dy * dy)` is an int,
right for maps of up to ten thousand cells a side.

**Lobby.** The invariant has two parts, `FullInv == IInv /\ SessionInv`, and rests on
no assumption about the number of rooms or entries. `IInv` is about the queues: a
player's entering is in one mailbox, once (`EnterOnce`). `SessionInv` follows a
session through its two activities: what `connected`, `armed`, `recv` and
`closing` say of each other (`Connection`); that the players of the handler, of
`myPlayer` and of OnDisconnected are the session's own (`Handling`); that a player
who has entered is `myPlayer` or put aside, and seen by OnDisconnected or missed
(`Known`); what OnDisconnected has done so far (`Ending`); who is registered
meanwhile (`Registered`); what each player has cost (`Counted`); and that a session
which enters once, with nothing refused before, does not end in between (`InTime`).
`RegistriesExact` and `FirstsEnterInTime` follow from it.
`NoGhosts` assumes `roomCount = 1` and nothing else: a room that is not the one
OnDisconnected finds keeps its players (section 5). It needs that a player whom
OnDisconnected saw, and whose entering is posted, has the leave job behind it.

**RateLimiter.** Refills are a second apart and give at most `maxTokens`, so of
`2 * maxTokens + 1` packets the last comes a second after the first (`Spaced`),
by what is known of the packets since the last refill and before it
(`SinceRefill`, `BeforeRefill`).

**PingPong.** One answer is under way at most, and it is for the last ping
(`Underway`); SendPing prepares a next one only when there is none (`Quiet`), so an
answer never meets a later ping, and the compare_exchange never finds the place
taken. That a client which is late is late by the clock needs pings to be
`pingInterval` apart (`Apart`) and `pongTimeout < pingInterval`. `ZombieBound` follows
the time of the next ping since the client's end, before and after nobody can
answer any more (`Gone`, `Doomed`). The bound is sharp: with `<` for
`<=` TLC finds it violated.

Some definitions are stated by positions rather than by recursion or filters
(`SendOrder`, `SkillsOnceInOrder`, Lobby's `After`), since the provers reason
about those; TLC found them to equal the earlier forms on the runs' instances.

Only model-checked is what is temporal: every liveness property, and the fairness
in `ImplementsFairActorQueue` and `ImplementsFairJobQueue`. Liveness under fairness
and ENABLED are out of the prover's reach.

## 7. Not modelled

* AESCrypto's transformation and HMAC: the system's. Its Init and Cleanup are
  sequential.
* Listener's pool of accept events, IocpCore's registration; start-up and
  shutdown: `main` never stops its workers.
* `JobQueue::ClearJobs`, `LockQueue::Clear`, `JobTimer::Clear`,
  `RoomManager::Remove`, the two `Broadcast`s of Service and
  GameSessionManager: nothing calls them.
* SendBuffer, BufferReader, BufferWriter, SocketUtils, NetAddress: sequential,
  no shared state. ConfigManager and DataManager are constants.
* JobStats, ServerMonitor: printed numbers.
* Study (teaching code), generated protocol code, protobuf, nlohmann/json. These
  are 99 % of the tree's lines: the server, its core and its client are a few
  thousand, and no project about them can cover much of the whole.

## 8. Plan

Order of what is done: ActorQueue and JobQueue first, as everything rests on
them; WorkerThread; Session; PacketStream; then the game: Room, Lobby, PingPong,
RateLimiter; then FindPath, on which Room's monsters rest now, and
SecureChannel. What is left of the code, by importance:

1. *Object lifetime*: who holds a reference to a Player (session, ObjectManager,
   room, a monster's target, a job), and when the last one goes.
2. *Listener*: the pool of accept events, each registered again whatever happens
   to the accepted connection.
3. *Ids and indices with their widths*: ObjectManager's counter, `roomIndex`.
4. Room and Lobby composed, with several rooms.

Proofs: what the runs check of safety is proved, and rests on named assumptions
about constants only. What is left is to state for Session and PacketStream
together what a peer that sends and a peer that receives may rely on, as an
abstract channel.

## 9. Running it

    tlc -workers 2 -config JobQueue.cfg JobQueue.tla
    tlapm JobQueueProofs.tla

and likewise for each run of `PROJECT.json`. The longest run (`session_safety`)
takes about two minutes on two cores, all the proofs five to six.
