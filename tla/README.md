# The WON launcher and its server in TLA+

The repository rebuilds the WON-era Half-Life launcher (`shell/`, `hlwon/`) and
adds an emulator of the WON servers it talked to (`wonserver/`). This directory
holds TLA+ models of the parts whose correctness depends on several actors, the
TLC configurations that check them on small instances, and TLAPS proofs of the
properties that matter most. Line numbers are those of the sources.

## 1. The system

| Part | State it keeps | Operations | Talks to |
|---|---|---|---|
| Chat room server: `wonserverd_main.cpp`, `wonserver_room.cpp` | `g_rooms` (members of each room: socket, id, nick), `g_nextId`, locks `g_lock` and `g_coreReplyLock`, one thread and one socket per connection | `AcceptLoop`, `ServeConn`, `Room_Join`, `Room_PushRoster`, `Room_BroadcastChat`, `Room_Leave`, `Room_HasMember` | launchers over TCP; the directory, factory and authentication code below, by call |
| Room directory and factory: `wonserver.cpp` | `g_rooms` (name, port, password; 64 at most), `g_nNextFactoryPort`, shared reply buffers | `WonServer_Handle` (directory, factory), `WonServer_CheckRoomPassword` | called by `ServeConn` inside `g_coreReplyLock`; publishes to the status responder |
| Room status responder: `wonserver_udp.cpp` | published ports and counts, `g_dirty`; the thread's bound sockets | `WonUdp_SetRoom`, `WonUdp_Clear`, `WonUdp_ThreadProc` | launchers over UDP; `Room_HasMember` |
| Authentication server: `wonserver_auth.cpp` | per-connection session, table of 64 session keys, `g_nextSessionId` | handshakes of services 202 and 203, `WonAuth_SessionAdopt`, `WonAuth_SessionDecrypt` | called by `ServeConn` without a lock of its caller |
| Master, mod and game-server responders: `wonserver_master.cpp`, `_mod.cpp`, `_gamesv.cpp` | none worth the name | one answer per request | launchers |
| Chat client: `shell/netgame/NetGame.cpp` | `m_pTitanSocket`, `m_nChatSessionId`, `m_pUserList`, reconnect budget | `JoinRoom`, `ServiceChat`, `OnMemberList`, `OnUsersLeft`, `OnChatText`, `SendChatText` | the room server over TCP |
| Room list: `rooms.cpp`, `chatclient.cpp` | list of rooms, ring of chat servers | find or create, refresh, next server | directory and status responder |
| Client transport: `hlwon/cryptapi` | partial message of a socket, certificate state, retries | `EasyTitanSocket::recvTMessage`, `TitanRequest::request`, `AuthRequest` | all servers |
| Server browser refresh: `RefreshDlg.cpp`, `ServerInfo.cpp`, `HLAsyncSocket.cpp` | a status, a socket and a retry count per server; `m_nInfoRequests` | `Pump`, the requests, `OnConnect`, `OnReceive` | game servers over UDP; the popup's modal loop calls the pump and delivers the sockets' messages |
| Server connection, master query: `connect.cpp`, `LogoDlg.cpp` | connection state, retries, master batches | QUERY, PING, CONNECT; master fetch | game and master servers over UDP, the engine |
| CD player: `cd_win.cpp` | command queue (10), event, playback flags | `CDAudio_QueueCommand`, `CDAudio_WorkerThread`, the commands | message loop and worker thread; MCI notifications |
| Shell, Titan API, vendored libraries | user interface; library objects | - | - |

What makes each hard, and what makes it correct:

- **Room server.** Threads of all connections share the member lists. Pushes are
  serialised by `g_lock`, replies are not; joining is three separate critical
  sections (the admission under `g_coreReplyLock`, `Room_Join`,
  `Room_PushRoster`) with a blocking reply in between. Clients vanish at any
  moment, `send()` fails or blocks, socket handles are used again. Correct
  means: unique ids and nicks; nobody listed who is gone; what a member has been
  told adds up to the room; pushes stay in one piece; nobody waits for ever.
- **Directory, factory, responder.** Bounded tables, ports handed out
  round-robin, a published table that another thread rebinds from a snapshot.
  Correct means: the port a factory reply names is listed and has the password
  that was asked for; every published port is served in the end.
- **Authentication.** A table shared without its callers' locks, a 16-bit
  counter, resumed sessions. Correct means: an id resolves to the key of its
  handshake, or to none.
- **Chat client.** Replies time out, pushes arrive while a reply is awaited, the
  user list is kept by increments. Correct means: its rows are the room, its own
  id is the server's, its lines come back.
- **Transport and reconnects.** A message comes in pieces; the buffer for it
  outlives the connection; the budget of a call underflows; a lost connection is
  noticed by two flags. Correct means: what is read is what was sent, a room on
  the screen is one the server has the client in, and its loss is noticed.
- **Server browser.** Datagrams are lost, late or repeated, retries race
  answers, socket slots are counted by hand. Correct means: slots are the sockets
  held, a server is offered for joining exactly if it sent its info, every pass
  ends.
- **CD player.** A queue that drops duplicates, drained by another thread that
  queues commands itself; flags both threads write; the thread can be killed.
  Correct means: nothing queued is lost, reordered or left without a wakeup.

`PROJECT.json` lists the hazards at their lines.

## 2. Modules

| Module | What it is |
|---|---|
| `WonRoom` | the connection threads and the room operations |
| `RoomChat` | `WonRoom` with the launcher at the other end of each connection |
| `RoomChat_proofs` | the launchers' seats, rows and order of lines; `WonRoom`'s theorems with launchers for clients |
| `RoomBook` | abstract: what a chat room promises, with no threads, locks or frames, and a proof that it keeps its books right |
| `RoomService` | the refinement mapping from `WonRoom` to `RoomBook` |
| `WonRoom_proofs` | types, unique ids, unique nicks, order of pushes, no ghosts; the refinement and what follows from it |
| `WonWorld` | the room table, the factory, the status responder and the main thread's listeners |
| `WonWorld_proofs` | the safety properties of `WonWorld` |
| `WonSession` | the peer handshake, the table of session keys and the connections that resume a session |
| `WonSession_proofs` | types, resumed sessions, the table |
| `ChatLink` | the client's end of a room connection: message framing, joining, reconnecting |
| `ChatLink_proofs` | framing, and what the sheet shows against what the server has |
| `ServerQuery` | a refresh pass over the server list |
| `ServerQuery_proofs` | slots, verdicts, sockets given back |
| `CDWorker` | the CD player's queue, worker thread and message loop |
| `CDWorker_proofs` | the queue, its wakeups and its order; tracks and mute |
| `MCWonRoom`, `MCRoomChat`, `MCRoomService`, `MCWonWorld`, `MCWonSession`, `MCChatLink`, `MCServerQuery`, `MCCDWorker` | instances for TLC |

### WonRoom

A connection is its `SOCKET` handle, which the next `Accept` may use again after
`CloseSocket`. `pc` says where its `ServeConn` thread stands:

| `pc` | In the code |
|---|---|
| `none` | no thread |
| `recv` | in `RecvAll`, at the head of the loop |
| `joining` | password checked, inside `g_coreReplyLock`, before `Room_Join` takes `g_lock` |
| `answer`, `refuse`, `answerJoin` | before the `SendAll` of the reply (another service; -1103; the join reply, -1 for a full room) |
| `roster` | reply sent, before `Room_PushRoster` takes `g_lock` |
| `pushRoster` | inside it, sending message 18 to the joiner |
| `push` | inside it, or inside `Room_BroadcastChat`, sending message 2 or 7 |
| `leave` | inside `Room_Leave`, sending message 5 |
| `drop` | the service was unhandled: the loop is left |
| `close` | after `Room_Leave`, before `closesocket` |

Every `send()` is a step of its own: one for a reply, two (`SendHeader`,
`SendPayload`) for a push, which `SendTo` writes in two calls. `send()` fails if
the client is gone and blocks while `SendBuf` sends are unread. `wire` holds the
unread sends of a connection, `told` is a history variable: the member ids that
the complete frames sent so far leave a reader with.

Abstractions. Nicks are sequences, so that UniqueNick's appended " (2)" is an
`Append` and a profile that already carries a suffix can collide with one.
Member ids count from 1 instead of 0x1001. A member list carries ids only: the
nick next to each id is the member's and never changes. The order of a room's
vector is the order of the ids, since ids grow with every insertion. A partial
`send()` of a payload is one send: `SendTo` loops until it is out, under the
lock. Whether a password matches is a free choice here. Failures of `malloc` and
`CreateThread` are left out, and so is `Room_HasMember`, which only reads.

Requests: `join`, `chat`, `auth` (services 202 and 203, answered without a
lock) and `other` (directory and factory, inside `g_coreReplyLock`); any of the
last two may turn out unhandled and drop the connection.

### RoomChat

Adds to each connection what the launcher keeps: how far `JoinRoom` has come
(`phase`), `m_nChatSessionId`, the user list as a bag of ids (`AddUser` adds a
row without looking for one) and the lines on the screen. `JoinRoom` takes the
first message after its request for the reply; a second attempt closes the
socket and connects anew, so it is a `Leave` and a `Connect`. Its time-out is
`GiveUp`, which may come at any moment while it waits: the socket stays open, as
in the code. A launcher whose connection broke is a new connection here; how it
comes to reconnect is in `ChatLink`. Every line `SendChatText` sends has
the flag 0xFFFE, which `OnChatText` shows; `wonserver.h:46` calls it dropped.
`WonRoom` is told that clients may join twice on one connection (`Rejoin`): that
launchers do not is what their phases say, and if one did, `SeatsFreed`,
`RowsShowRoom` and `SameOrder` would fail.

### RoomBook and RoomService

`RoomBook` is the promise: `Sit`, `Introduce` (the newcomer is given everybody's
id and everybody the newcomer's, at one moment), `Depart`, `Come` and `Go`.
`RoomService` maps a state of `WonRoom` to it. `book` of a connection is what it
has been told, plus, while a push is under way, what the rest of that push is
going to say to it (`Settled`): a push takes effect when it enters the critical
section. `KeepsBooks` is the refinement.

### WonWorld

| State | In the code |
|---|---|
| `rooms` | the first `g_nRooms` rows of `g_rooms`; a row counts (`g_nRooms++`) before anything is written to it, so the main thread can meet one with port 0 |
| `nextPort` | `g_nNextFactoryPort` |
| `coreLock`, `making` | the holder of `g_coreReplyLock` and the factory request it serves: claiming a row, writing it, setting the password |
| `main`, `step`, `listening` | `main`: seeding, the service listener, the loop over the rooms, the loop over the factory's ports |
| `failed` | history: the ports `StartListener` has left without a listener |
| `published`, `dirty` | `g_ports`, `g_players`, `g_dirty` |
| `responder`, `want`, `bound` | `WonUdp_ThreadProc`: its snapshot and its sockets |
| `asked` | history: the password the last room on a port was asked with |

`Claim`, `Write` and `Protect` are the three parts of a factory request between
which the other two threads can come. A name stands for its spellings that
`_stricmp` equates. `Taken` are UDP ports other programs hold. `StartListener`
may fail for any TCP port: `main` returns if it does for the service port
(`Quit`) and goes on without a listener for a room's or the factory's. The port
of a default room is opened by one loop, one of the factory's by both if a room
sat on it when the first loop came by; the second attempt is then refused, the
bind being exclusive, and changes nothing. The parsing of requests and the probes,
which change nothing, are left out.

### WonSession

| State | In the code |
|---|---|
| `key`, `sid` | `sessionKey` and `sessionId` of a connection's `WonAuthSession`; `HasChannel` is `WonAuth_SessionChannelKey` |
| `table` | `g_sessions`, with `g_nSessions` its length |
| `nextId` | `g_nextSessionId`, read by `LoadId` and written by `StoreId` |
| `lockReady`, `owner` | `g_sessionLockInit` and who is in `g_sessionLock` |
| `greeted`, `uses`, `quoted`, `issued` | the launcher: between its hello (50) and its confirmation (52); the session it uses on a connection; the session of the request being served; the sessions it has been told of and still holds |
| `given`, `clash`, `inits` | history: ids handed out, whether one was 0 or was handed out before, initialisations of the lock |

`pc` says where the thread stands: `recv`; `id`, `bump` (around
`g_nextSessionId++`); `lock`, `init`, `enter` (in `SessionLock`); `scan`, `put`
(in `SessionRegister`); `reply` (before the answer to message 52); `find` (in
`WonAuth_SessionAdopt`); `channel` (about to decrypt); `refused` (the session is
unknown or the key is another: the bytes make no request of any service, and the
loop is left).

Keys are numbers, each minted once. A launcher is what the comments of the
server say of it: it shakes hands on any connection, quotes a session it has
been told of on any other, may shake hands again on a connection and then gives
its old key up, and has no request of a session under way while it does. A
connection carries one session. A launcher that fails the proof of the key
(message 52) is one that closes. `InitializeCriticalSection` and the assignment
of the flag are one step: another thread that comes between them sees what it
would have seen before both. Two threads that are inside the lock after a second
initialisation may find one free row: `Put` then writes the row found or the one
after the current end, as the build may read `g_nSessions` once or twice.

### ChatLink

| State | In the code |
|---|---|
| `stream`, `offset`, `up` | the TCP connection: messages sent and not read to their end, units of the first already read |
| `buffered` | `EasyTitanSocket::mBufferedSize`; `bad`: the header in the buffer has a length `recvTMessage` rejects |
| `blocked` | the body is read with `remaining - elapsed` underflowed, so the call no longer comes back by itself |
| `phase`, `attempts` | where `JoinRoom` stands (connecting, in `peerLogin`, waiting for the join reply, in the password prompt) and `nAttempts` |
| `gotData`, `needReconnect`, `tries` | `m_bTitanGotData`, `m_bNeedReconnect`, `m_nReconnectTries` |
| `room` | `m_pCurrentRoom`: none, set by the dialogs before `JoinRoom`, or set by it |
| `due`, `member` | the server: the request it has yet to answer, whether it has admitted the client on this connection |
| `stale`, `noAuth`, `retries` | history: the buffer began on an earlier connection; the last reconnect found no certificate; reconnects since a join succeeded |

A call of `recvTMessage` is one step, by what it returns: `TimesOut` (nothing or
a part came, the part stays in the buffer), `Fails`, `Completes`. `Underflows` is
the one call that does not return in one step. `EasySocket::connect` takes a new
descriptor and leaves the buffer as it is (`Disconnect`), so a connection that
breaks inside a message leaves bytes in front of the next one's; what then comes
out is garbage of any kind, or a header that is rejected, which stays in the
buffer. Messages are units of bytes of one length; a header is shorter. The
handshake of `AuthRequest::peerLogin` is a request and a reply. `-noauth` is left
out.

### ServerQuery

| State | In the code |
|---|---|
| `rec[i].status` | `m_nStatus`, without SOCKET_OPEN, PING_SENT and PING_DONE, which a visit passes through |
| `rec[i].socket`, `retry`, `noResponse` | `m_pSocket`, `m_nRetry`, `m_bNoResponse` |
| `rec[i].late` | `m_dSendTime` is more than `m_dStateTimeout` ago |
| `rec[i].notice` | an FD_CONNECT message in the queue |
| `rec[i].flight` | replies on their way, each of which may be lost, or be delivered twice |
| `used`, `considered` | `m_nInfoRequests`, `m_nConsidered` |
| `cursor` | the record `Pump` visits next: time can pass between two records, messages are delivered only between two pumps |

A visit is one of `VisitFinished`, `Hold`, `OpenFails`, `Open`, `Advance` and
`Expire`; a status that needs nothing sent falls through to the next in the same
visit, as in the code (`Dial`, `Drive`). LAN, IPX and filtered records, which the
pump skips, are not on the list. `SelectFails` says whether `AsyncSelect` can
fail. `Joinable` is what `ServerBrowser_CollectJoinable` asks of a record's
status, for the quick join; what it asks of the ping, the players and the game
directory is in the reply.

### CDWorker

| State | In the code |
|---|---|
| `queue`, `staging` | `cdQueue[0..cdQueueCount)`, what is left to run of `cdStaging` |
| `event`, `signal` | `hCDEvent`; the threads between `LeaveCriticalSection` and `SetEvent` |
| `agenda` | what is left of the function a thread is in: the calls of `CDAudio_QueueCommand` and the assignments after them |
| `pc`, `pick` | where the worker is inside a command: a step ends at each MCI call after which it goes on to change flags |
| `cd`, `clock`, `remap` | the statics; `clock` stands for `startTime`, `pauseTime` and `playTime` |
| `notices` | MCI notifications not yet handled |
| `alive` | between `CDAudio_Init` and `CDAudio_Shutdown` |
| `leftover`, `asked` | history: entries older than this worker; a resume, an off or a shutdown since the volume changed |

Both threads write `cd` without a lock, as in the code: every assignment after an
MCI call is a step of its own. MCI's answers, the disc, the drive and the clock
are free choices. `PlayCommand` queues a question for the disc when it knows of
none and gives up; the question never helps the same command. `SwitchToLauncher`
and its like are commands, so a switch takes effect when the worker comes to it.

## 3. Runs

| Run | Properties | Shows |
|---|---|---|
| `room` | `TypeOK`, `UniqueNicks`, `NoGhosts`, `RosterConsistent`, `PushesSerialised`, `KeepsBooks` | three handles, four connections, three joins, one room, nicks that collide with suffixes; the refinement |
| `requests` | `UniqueIds` | two rooms, every request kind, a member that joins again |
| `seats` | `OwnSeat`, `RowsShowRoom` | three launchers and two seats: full rooms, refusals, and what the launchers list |
| `talk` | `SameOrder`, `ThreadsReturn`, `SeatsFreed`, `OwnLineShown` | two launchers, two lines, a window of one send, a room for two; fair threads, launchers that read |
| `world` | `TypeOK`, `NamesUnique`, `AllPublished`, `Heard`, `NoRoomSkipped`, `PasswordKept`, `DefaultsOpen`, `EveryPortAnswered` | two workers, three requests, four names, three rows, two factory ports, one of them held by another program, a listener that fails on any port; the responder catches up |
| `sessions` | `TypeOK`, `SessionsResume`, `Kept` | three handles, four connections, three handshakes, two rows, three values of the id counter, so that the table overflows, the counter wraps and the lock is initialised twice |
| `join` | `TypeOK`, `Framed`, `RoomWatched`, `JoinedHere`, `LossHandled`, `JoinEnds` | messages of four units with a header of two, two messages on their way, connections that break anywhere |
| `query` | `TypeOK`, `SlotsCounted`, `Verdict`, `AllReturned`, `PassEnds` | three servers, two slots, one retry, info, players and rules |
| `player` | `TypeOK`, `WakeupPending`, `Muted`, `InOrder`, `EveryCommandRun` | three operations of the message loop, a queue of ten, a disc of up to two tracks, a remap that moves tracks |
| `frames`, `once`, `budget` | one claim each | a comment of the code that its interleavings refute |

The runs check what the system promises. The smaller invariants those rest on
(`Bookkeeping`, `Manners`, `BooksRight`, `OnePending`, `TrackOnDisc`: who holds a
lock, who has a seat, what a look-up carries over to its use) are proved for
every instance and need no run.

Every property of a passing run has a mutant in `PROJECT.json`: a wrong variant
of one definition (a lock not taken, a member not erased, an id not advanced)
under which TLC finds the property violated.

The three claims that fail:

- `FramesIntact` (`wonserver_room.cpp:61`): the lock serialises pushes with
  pushes; a reply (`wonserverd_main.cpp:309`) takes no lock and can land between
  a header and its payload. `PushesSerialised` is what is left, and is proved.
- `InitialisedOnce` (`wonserver_auth.cpp:205`): only connection threads call
  `SessionLock`, and two of them can find it uninitialised.
- `BudgetRunsOut` (`NetGame.cpp:2716`, "walk the retry budget down"): the error
  that arms a reconnect fills the budget again (`NetGame.cpp:2522`), so the
  branch for a spent budget is dead (`BudgetNeverSpent` proves it) and a server
  that answers, does not admit and hangs up is reconnected to without end.

Seen while modelling, and stated here only. The properties say what is left:

- `wonserver_room.cpp:151`: of two joiners registered before either roster is
  pushed, one is named by a roster and announced again, so a launcher lists it
  twice. `RowsShowRoom` says that nobody is missing.
- `wonserver.h:19`, "each room is its own chat server": once the factory has
  gone round its ports, two listed rooms share one, and with it members and
  password; the password of a new room goes to the first row on its port.
  `PasswordKept` and its theorem speak of the time before.
- `wonserver_auth.cpp:187`, "outlives the TCP connection": the 65th session
  since the server started is dropped in silence, rows are never given up, and
  the handshake is answered with success. `SessionsResume` has it under `Sound`.
- `cd_win.cpp:580`: `playTrack` is a number after `remap`, and the `PlayCommand`
  queued with it remaps it once more, so with a remap table that moves tracks a
  looping track is followed by another. `TrackOnDisc` holds all the same.
- `cd_win.cpp:417`: "cd off" queues a stop and clears `enabled`, on which the
  stop then does nothing. `Muted` excepts it.
- `ServerInfo.cpp:576`: a failed `AsyncSelect` closes the socket, after which
  the pump finds none and keeps the slot; enough of them and the pass holds
  every server back. `SlotsCounted` is stated for `SelectFails = FALSE`.
- `wonserverd_main.cpp:485`, "accept on its port too": a room whose listener
  fails (491) stays advertised, and a factory port whose listener fails (497) is
  still handed out, so clients are sent to a port nobody accepts on. Nothing tries
  again, and for these ports the server prints a line for `WSAEADDRINUSE` only
  (407). It also prints it, blaming another wonserverd, when the factory's loop
  meets a port the rooms' loop has opened. `NoRoomSkipped` and its theorem say
  that a room has a listener or its listener was refused.
- `ServerInfo.h:45`, "unreachable / errored out": the pump sets `SVQ_DEAD` at the
  end of a complete query (`RefreshDlg.cpp:521`) and when the players or rules of
  a server that has sent its info time out (367-370), and an unreachable server
  goes back to `SVQ_IDLE`; the join code takes dead for joinable
  (`NetGame.cpp:4209`). `Verdict` and its theorem follow the code: a dead record
  has its info, and may lack players or rules.
- `RefreshDlg.cpp:361`, "the row never responded": a record may time out in the
  queue and be written off without having been asked.

What holds of sessions is said by `SessionsResume` and `Kept`, under `Sound`: no
more ids than rows, no id handed out twice (the increment is not atomic, and the
counter wraps), one initialisation. Each of the three is needed.

**Bounds.** `MaxAccepts`, `MaxJoins` and `MaxLines` bound what clients start and
stand only in the guards of client actions (and `Accept`), so a thread is never
held back. Three handles are the joiner, an incumbent and a leaver, the actors a
push distinguishes; the fourth connection uses a handle again. `MaxMembers` is 2
or 3 so that a room fills up; `MaxSuffix` exceeds it by one, as 99 exceeds 32.
`SendBuf` 2 lets a whole frame wait on a socket, 1 makes every send wait for the
reader. In `world` three
requests on two ports wrap the counter, four names overflow three rows, and one
port, any of them, may be refused a listener (`MaxFailed`; the proofs have no such
limit). In
`sessions` a third handshake overflows two rows and wraps the counter, while two
sessions stay within `Sound` whatever the threads do. In `join` a message and
its header can be cut at every place a length distinguishes (inside the header,
at its end, inside the body), and two messages let one wait behind another; the
three attempts and the budget are the code's. In `query` the third server waits
for a slot, and one retry gives each state a first and a last time-out. In
`player` three operations are enough for a stop, a play and a volume change, or
for a shutdown with commands before and after it; the queue has its ten entries.
The proofs need none of this: they hold for all values.

**Fairness.** `FairChatSpec` asks weak fairness of every connection thread (the
operating system schedules it, and `g_lock` is released after finitely many
sends) and of the clients' reads. The second is needed: `send()` blocks under
`g_lock`, so one client that stays connected and never reads stops every room.
Nothing makes a client send, connect or leave. The locks are taken with weak
fairness only; since a run has finitely many connections and requests, no thread
can be overtaken for ever. Starvation under endless traffic is not excluded, by
the model or by the code.

`WonWorld` asks weak fairness of the main thread, of the responder and of a
worker inside the factory request; its lock is never waited for by anybody who
has to make progress, since clients need not ask for rooms.

`ChatLink` asks weak fairness of each call of the message loop: the pump runs
once a frame, and every receive and connect of `JoinRoom` has a time limit
(`blocked` is the exception, and `JoinEnds` says so). The user, the server and
the network owe nothing. `ServerQuery` asks it of the pump, of the messages that
are in the queue and of the clock; replies may all be lost. `CDWorker` asks it of
the worker and of the function the message loop is in; MCI calls return.

**Deadlock** is checked in every run but `player`, where the message loop's
operations are bounded and the worker may wait for ever. In the server's modules
the only states without a successor other than stuttering are `AllGone`, with the
connections used up and every thread ended, and `Ended`, with the process gone for
want of its service port.

## 4. Proofs

All proofs are for arbitrary sets of connections, rooms and nicks and arbitrary
bounds, from `RoomAssumption` (in particular `MaxMembers < MaxSuffix`, 32 < 99).

- `TypeCorrect`: inductive with `JoinsNamed` (a join being decided names a nick),
  `SeatHeld` (a joiner has its seat until the roster is out, so `Newest` exists)
  and `IdsHandedOut`.
- `IdsUnique`: from `IdsHandedOut`; the member lists change in two ways only
  (`MembersChange`).
- `NicksUnique`: needs that UniqueNick finds a free suffix. `SuffixFree` is a
  pigeonhole argument: taken suffixes map injectively to members, and there are
  fewer members than suffixes.
- `PushesInOrder`: by itself not inductive. `LockHeld` (a thread pushes exactly
  while it holds `g_lock`), `HalfPushed`, `GoneUnread` and `OpenHeaders` (an
  unpaired header is at the end of the socket that the lock holder's payload
  goes to next) make it so.
- `NoGhostMembers`: from `OneSeat` and `NoSeatAsked`, for clients that do not
  join again on one connection (`Rejoin = FALSE`). The assumption is needed:
  `Room_Leave` erases the first member on the socket only.
- `ServiceKeepsBooks`: every step of `WonRoom` is a step of `RoomBook` or a
  stutter; one lemma per action of `WonRoom`. `TargetPassed` is the heart: the
  moment a frame is through, what the target was going to be told is what it has
  been told. It rests on `Manners` (the audience of a push is seated and has one
  seat each, and a roster's audience is everyone but the joiner).
- `BooksStayRight` in the abstract room, and with the refinement
  `ServiceBooksRight` and `RosterStaysConsistent` for the threads.

- `BooksKept` and `MannersKept` state `Bookkeeping` and `Manners` by themselves.

For `RoomChat`, from `RoomAssumption` alone, whatever `Rejoin` is:

- `ChatIsRoom`: the launchers' steps are steps of `WonRoom`'s clients or
  stutters, so every theorem about `WonRoom` holds here.
- `SeatsOwn`: `LaunchInv` ties `phase` to what is outstanding on the connection.
  Before a join request and after a wrong password nothing is (`Follows`); a
  join reply, being decided, on its way or taken, tells the truth about the seat
  (`Answered`); and nobody writes to a launcher without a seat but its own
  thread, to refuse it (`Unaddressed`). The last part is why `JoinRoom` may take
  the first message for its reply.
- `LaunchersLeaveNoGhosts`, `LaunchersKeepBooks` and `LaunchersHearRoster`: a
  launcher that sends a join request has no seat and no answer outstanding
  (`LauncherAsksUnseated`), which is all the refinement needs of the clients. What
  `WonRoom` assumes as `Rejoin = FALSE` is proved of the launchers.
- `LinesInOrder`: `Precedes` orders lines by the stream they arrive on, shown
  lines before unread ones. A line waiting for its thread has reached nobody
  (`PendingNew`); one being pushed, under `g_lock`, is the last on every stream it
  has reached and is on none it is still to be sent to (`CurrentLast`); so a new
  line comes after all others on every stream, and two streams never disagree
  (`OneOrder`).
- `RowsCoverRoom`: who is listed and was told to a launcher has a row or gets
  one from a frame on its way, and no later member list takes it away (`ToldShown`). A
  user-left frame cannot either: the ids it names are nobody's any more and are
  not handed out again (`LeaversGone`). With nothing on its way `RosterConsistent`
  says who was told.

For `WonWorld`, from `WorldAssumption` (the factory's ports differ from each
other and from the default rooms', and there are no more ports than places in
the responder's table: 24 and 64):

- `TypeCorrect`, with `RowsThere`: the row a worker is about to write exists.
- `NamesListedOnce`: `LockHeld` (one request at a time) and `RowsHeld` (no other
  row has the name) carry the look-up over to the write.
- `NoChangeForgotten` and `RoomsPublished`: the second is a counting argument
  (`AlwaysFits`).
- `DefaultsStayOpen`, `NoneSkipped`: from `OpenToAll` and `Opened`, how far
  the main thread's loops have come. A listener may fail on any number of ports;
  what is proved is that each listed room's port was tried.
- `PasswordsKept`: from `OnceRound`; before the counter wraps, every port the
  factory hands out is one no row has (`NextPortIsNew`).

For `WonSession`, from `SessionAssumption` (types of the bounds; nothing relates
the table to the counter):

- `TypeCorrect`: with `LockHeld`, `Quoting` and `Using`, what threads and
  launchers know of keys and sessions whatever the races bring. A second
  initialisation of the lock is the one way to write past the table's end.
- `SessionsAlwaysResume` and `SessionsKept`: `Ids`, as long as no id was handed
  out twice, says whose each id is, so that a thread that publishes or renews a
  session touches no row but its own (`IdsStep`). Under `Sound` the rows follow
  (`BookedStep`); that a new session finds a row is a pigeonhole argument over
  the ids handed out (`RowLeft`), and `SoundBefore` says that the ground, once
  lost, stays lost.
- `BooksKept` states the books themselves, `Bookkeeping`.

For `ChatLink`, from `LinkAssumption` (a header is shorter than a message):

- `TypeCorrect` and `InStep`: one inductive invariant. `TakeCounted` moves
  `offset` and `buffered` by the same amount, and only `Completes` and a new
  connection set one without the other.
- `LossWouldShow` is inductive with the flags' types: the flag that watches the
  connection is cleared only on the way to a join, or to the early return.
- `ShownIsJoined` needs `Admitted`: a join reply that is still unread came on this
  connection, from a server that has the client.
- `BudgetNeverSpent`: `needReconnect` implies that the budget is 3.

For `ServerQuery`, from `QueryAssumption`: `PassInv` is the conjunction of the
types, of `used` as the number of open sockets, of what a record's status says
about its socket and of what the cursor has passed in this pump. A visit changes
one record, so the counting is that of a set that gains or loses one element.
`EverySlotReturned` needs the last part: a pump that considered nothing has
found every record finished, and the visit that finds it so closes its socket.
`VerdictsHold` rests on `Good`, by which the info of a record came exactly if its
status says so, and its last part, that no server that answered is left out at
the end, on the same `Returned`.

For `CDWorker`, from `CDAssumption` (as many entries as handlers):

- `NonePendingTwice`, and with it `AlwaysRoom`, a pigeonhole argument over the
  handlers: the silent drop of a full queue cannot happen.
- `NoWakeupLost`: the event is reset only by the step that empties the queue,
  and who appends is in `signal` until the event is set.
- `RunInOrder`: an action property, one case per action.
- `TracksOnDisc`: between the look-up and the call the worker reads no disc, and
  nobody else writes `maxTrack`.
- `StaysMuted`: the volume is 0 only after a pause was put on the agenda, and
  what the worker starts meanwhile it looks at again.

Only model-checked: the liveness properties (`ThreadsReturn`, `SeatsFreed`,
`OwnLineShown`, `EveryPortAnswered`, `LossHandled`, `JoinEnds`, `PassEnds`,
`EveryCommandRun`), which are out of the prover's reach. Every safety property
of a passing run is proved. `NoGhostMembers`, `MannersKept` and the theorems of the
refinement carry `Rejoin = FALSE` in `WonRoom_proofs`; `RoomChat_proofs` has the
ghosts, the refinement and the roster without it.

## 5. Not modelled

- `connect.cpp`, the dialog that joins a game: its QUERY and PING stages are a
  second copy of the pump of `ServerQuery` (`Connect_ServicePinging`), with the
  same statuses and the same treatment of slots; the CONNECT stage watches a
  state of the engine, whose source is not in this repository.
- The master query (`LogoDlg.cpp`, `HLMasterAsyncSocket.cpp`) and the room list
  (`rooms.cpp`): a request, a reply and a list that is shown. Reading the reply
  is parsing.
- The certificate refresh of `AuthRequest`: requests to a server that runs
  between the user's actions; `ChatLink` has its outcome, a join that finds a
  certificate or none.
- The Titan API and the vendored libraries: third-party code, of which the
  launcher uses a few classes. They are nearly all of the repository's lines.
- Dialogs, drawing and the engine's DLL interface: state that is the user
  interface.
- Ciphers, checksums and wire formats: pure functions with test programs of
  their own.
- The stateless responders: one answer per datagram.
