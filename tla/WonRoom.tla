------------------------------ MODULE WonRoom ------------------------------
(***************************************************************************)
(* The room half of the WON server emulator (wonserver/wonserver_room.cpp  *)
(* and the connection threads of wonserverd_main.cpp).                     *)
(*                                                                         *)
(* Every accepted TCP connection has a ServeConn thread that reads a       *)
(* request, answers it, and, for the room requests, pushes frames to the   *)
(* other members of the room.  The member list and the pushes are guarded  *)
(* by g_lock (roomLock); the shared reply buffer by g_coreReplyLock        *)
(* (coreLock).  A reply is written to the socket after coreLock is         *)
(* released and without roomLock, which is why the model gives every       *)
(* send() call a step of its own: a push is one send() for the 12-byte     *)
(* header and one for the payload, a reply is a single buffer.             *)
(*                                                                         *)
(* A connection is identified by its SOCKET handle, which the next         *)
(* accept() may hand out again once closesocket() has returned.            *)
(***************************************************************************)
EXTENDS Naturals, Sequences, FiniteSets

CONSTANTS
  Conn,        \* SOCKET handles of accepted connections
  Port,        \* the listener ports; the port of a connection names its room
  Base,        \* the nicks of the players' profiles
  Name,        \* the nicks clients ask for, each a sequence <<base, suffix, ...>>
  MaxMembers,  \* ROOM_MAX_MEMBERS
  MaxSuffix,   \* the " (n)" suffix UniqueNick settles for unchecked (99)
  Kinds,       \* the kinds of request clients send
  MaxAccepts,  \* bound: the connections clients may open
  MaxJoins,    \* bound: the member ids clients may use up
  MaxLines,    \* bound: the chat lines clients may send
  SendBuf,     \* sends the peer's stream holds before send() blocks
  Rejoin,      \* may a client that is a member send another join request?
  NoThread     \* neither critical section is held

ASSUME RoomAssumption ==
  /\ Port # {}
  /\ Name \subseteq Seq(Base \cup Nat)
  /\ Kinds \subseteq {"join", "chat", "auth", "other"}
  /\ MaxMembers \in Nat \ {0}
  /\ MaxSuffix \in Nat
  /\ MaxMembers < MaxSuffix
  /\ MaxAccepts \in Nat
  /\ MaxJoins \in Nat
  /\ MaxLines \in Nat
  /\ SendBuf \in Nat \ {0}
  /\ Rejoin \in BOOLEAN
  /\ NoThread \notin Conn

VARIABLES
  pc,        \* where the ServeConn thread of a handle stands
  port,      \* the listener it was accepted on
  peerUp,    \* the client's end of the connection is open
  req,       \* the request the client has sent and the thread has not taken
  members,   \* g_rooms: the members of each room
  nextId,    \* g_nextId
  accepted,  \* connections accepted so far
  lines,     \* chat lines sent so far
  roomLock,  \* holder of g_lock
  coreLock,  \* holder of g_coreReplyLock
  fresh,     \* joinedId of the request being served, 0 for none
  frame,     \* the frame the thread is pushing
  todo,      \* the members it still has to push the frame to
  half,      \* the header of the frame is out, its payload is not
  wire,      \* sends the client has not read yet
  told       \* history: the member ids the frames sent on the connection leave

vars == <<pc, port, peerUp, req, members, nextId, accepted, lines,
          roomLock, coreLock, fresh, frame, todo, half, wire, told>>

counters   == <<accepted, lines>>
clientVars == <<peerUp, req, counters>>
roomVars   == <<members, nextId>>
pushVars   == <<frame, todo, half>>
outVars    == <<wire, told>>

-----------------------------------------------------------------------------
(* Message types of service 50. *)

JoinReply == 1
UserJoined == 2
UserLeft == 5
ChatText == 7
UsersHere == 18
OtherReply == 0   \* the reply of any other service

NoReq    == [kind |-> "none"]
Request  == {NoReq} \cup [kind: {"join"}, name: Name]
                    \cup [kind: {"chat"}, line: 1..MaxLines]
                    \cup [kind: {"auth", "other"}]

Frame    == [msg: {UserJoined, UserLeft, ChatText, UsersHere}, ids: SUBSET Nat]
Chunk    == [msg: {OtherReply, JoinReply}, ids: SUBSET Nat, part: {"whole"}]
              \cup [msg: {UserJoined, UserLeft, ChatText, UsersHere},
                    ids: SUBSET Nat, part: {"header", "payload"}]
NoFrame  == [msg |-> UserLeft, ids |-> {}]

Header(f)  == [msg |-> f.msg, ids |-> f.ids, part |-> "header"]
Payload(f) == [msg |-> f.msg, ids |-> f.ids, part |-> "payload"]

(* A reply.  The join reply carries the member id: {0} with result -1 for  *)
(* a full room, {} with result -1103 for a wrong password.                 *)
Whole(m, ids) == [msg |-> m, ids |-> ids, part |-> "whole"]

-----------------------------------------------------------------------------
(* Ids are handed out from FirstId on (0x1001 in the code); 0 is "no id".  *)

FirstIdZero == 0                                                   \* mutant
FirstId == 1
SameId(n) == n                                                     \* mutant
NextId(n) == n + 1

(* Members.  Ids grow with every join, so the order of a room's vector is  *)
(* the order of the ids.                                                   *)

Ids(ms)        == {m.id : m \in ms}
OnSocket(ms, c) == {m \in ms : m.sock = c}
Oldest(ms)     == CHOOSE m \in ms : \A n \in ms : m.id <= n.id
Newest(ms)     == CHOOSE m \in ms : \A n \in ms : n.id <= m.id
Room(c)        == members[port[c]]
OthersShort(c) == {m \in Room(c) \ OnSocket(Room(c), c) :           \* mutant
                     \E n \in Room(c) : m.id < n.id /\ n.sock # c}
Others(c)      == Room(c) \ OnSocket(Room(c), c)

(* UniqueNick: the wanted nick, else the first free one among the nick     *)
(* with " (2)", " (3)", ... appended; the last suffix is taken unchecked.  *)
Candidate(name, k) == IF k = 1 THEN name ELSE Append(name, k)
FreeSuffix(ms, name) ==
  {k \in 1..(MaxSuffix - 1) : \A m \in ms : m.nick # Candidate(name, k)}
Smallest(S) == CHOOSE k \in S : \A j \in S : k <= j
NickAsGiven(ms, name) == name                                     \* mutant
UniqueNick(ms, name) ==
  Candidate(name, IF FreeSuffix(ms, name) = {} THEN MaxSuffix
                                               ELSE Smallest(FreeSuffix(ms, name)))

-----------------------------------------------------------------------------
Init ==
  /\ pc = [c \in Conn |-> "none"]
  /\ port = [c \in Conn |-> CHOOSE p \in Port : TRUE]
  /\ peerUp = [c \in Conn |-> FALSE]
  /\ req = [c \in Conn |-> NoReq]
  /\ members = [p \in Port |-> {}]
  /\ nextId = FirstId
  /\ accepted = 0
  /\ lines = 0
  /\ roomLock = NoThread
  /\ coreLock = NoThread
  /\ fresh = [c \in Conn |-> 0]
  /\ frame = [c \in Conn |-> NoFrame]
  /\ todo = [c \in Conn |-> {}]
  /\ half = [c \in Conn |-> FALSE]
  /\ wire = [c \in Conn |-> <<>>]
  /\ told = [c \in Conn |-> {}]

-----------------------------------------------------------------------------
(* The clients. *)

JoinsUnderWay == {c \in Conn : req[c].kind = "join"}

(* A client sends its next request; it has one outstanding at a time.      *)
SendRequest(c, r) ==
  /\ pc[c] # "none" /\ peerUp[c] /\ req[c] = NoReq
  /\ r.kind \in Kinds
  /\ r.kind = "join" => /\ nextId + Cardinality(JoinsUnderWay) < FirstId + MaxJoins
                        /\ Rejoin \/ OnSocket(Room(c), c) = {}
  /\ r.kind = "chat" => r.line = lines + 1
  /\ req' = [req EXCEPT ![c] = r]
  /\ lines' = IF r.kind = "chat" THEN lines + 1 ELSE lines
  /\ UNCHANGED <<pc, port, peerUp, accepted, roomVars, roomLock, coreLock, fresh, pushVars, outVars>>

(* A client reads what one send() delivered. *)
ClientRead(c) ==
  /\ peerUp[c] /\ wire[c] # <<>>
  /\ wire' = [wire EXCEPT ![c] = Tail(@)]
  /\ UNCHANGED <<pc, port, clientVars, roomVars, roomLock, coreLock, fresh, pushVars, told>>

(* A client goes away: it quits, changes rooms, or its machine dies.  What *)
(* it had not read is lost; a request already sent is still served.        *)
PeerClose(c) ==
  /\ peerUp[c]
  /\ peerUp' = [peerUp EXCEPT ![c] = FALSE]
  /\ wire' = [wire EXCEPT ![c] = <<>>]
  /\ told' = [told EXCEPT ![c] = {}]
  /\ UNCHANGED <<pc, port, req, counters, roomVars, roomLock, coreLock, fresh, pushVars>>

-----------------------------------------------------------------------------
(* The connection threads. *)

(* AcceptLoop: a new connection on listener p, on a free handle. *)
Accept(c, p) ==
  /\ pc[c] = "none" /\ accepted < MaxAccepts
  /\ accepted' = accepted + 1
  /\ pc' = [pc EXCEPT ![c] = "recv"]
  /\ port' = [port EXCEPT ![c] = p]
  /\ peerUp' = [peerUp EXCEPT ![c] = TRUE]
  /\ UNCHANGED <<req, lines, roomVars, roomLock, coreLock, fresh, pushVars, outVars>>

Take(c, kind) ==
  /\ pc[c] = "recv" /\ req[c].kind = kind
  /\ req' = [req EXCEPT ![c] = NoReq]

(* The login and peer handshakes (services 202 and 203), answered from     *)
(* the connection's own buffer, and the directory and factory, answered    *)
(* from the shared one inside coreLock.  A request the service does not    *)
(* handle drops the connection.                                            *)
ServeOther(c) ==
  /\ \/ Take(c, "auth")
     \/ Take(c, "other") /\ coreLock = NoThread
  /\ \/ pc' = [pc EXCEPT ![c] = "answer"]
     \/ pc' = [pc EXCEPT ![c] = "drop"]
  /\ UNCHANGED <<port, peerUp, counters, roomVars, roomLock, coreLock, fresh, pushVars, outVars>>

(* A join whose password does not match the room's: result -1103. *)
RefuseJoin(c) ==
  /\ Take(c, "join")
  /\ coreLock = NoThread
  /\ pc' = [pc EXCEPT ![c] = "refuse"]
  /\ UNCHANGED <<port, peerUp, counters, roomVars, roomLock, coreLock, fresh, pushVars, outVars>>

(* A join whose password matches goes on to Room_Join holding coreLock. *)
AdmitJoin(c) ==
  /\ pc[c] = "recv" /\ req[c].kind = "join"
  /\ coreLock = NoThread
  /\ coreLock' = c
  /\ pc' = [pc EXCEPT ![c] = "joining"]
  /\ UNCHANGED <<port, clientVars, roomVars, roomLock, fresh, pushVars, outVars>>

(* Room_Join: one critical section of roomLock inside that of coreLock.    *)
(* A full room gives no id, and the reply result -1.                       *)
RoomJoin(c) ==
  /\ pc[c] = "joining" /\ roomLock = NoThread
  /\ IF Cardinality(Room(c)) < MaxMembers
     THEN /\ members' = [members EXCEPT ![port[c]] =
                           @ \cup {[sock |-> c, id |-> nextId,
                                    nick |-> UniqueNick(@, req[c].name)]}]
          /\ nextId' = NextId(nextId)
          /\ fresh' = [fresh EXCEPT ![c] = nextId]
     ELSE /\ fresh' = [fresh EXCEPT ![c] = 0]
          /\ UNCHANGED roomVars
  /\ req' = [req EXCEPT ![c] = NoReq]
  /\ coreLock' = NoThread
  /\ pc' = [pc EXCEPT ![c] = "answerJoin"]
  /\ UNCHANGED <<port, peerUp, counters, roomLock, pushVars, outVars>>

(* SendAll of the framed reply.  It blocks while the stream is full and    *)
(* its failure is ignored.                                                 *)
Deliverable(d) == ~peerUp[d] \/ Len(wire[d]) < SendBuf
Deliver(d, chunk) ==
  wire' = IF peerUp[d] THEN [wire EXCEPT ![d] = Append(@, chunk)] ELSE wire

(* WonServer_BuildChatJoinReply. *)
AdmissionFixed(c) == Whole(JoinReply, {IF fresh[c] = 0 THEN 0 ELSE FirstId}) \* mutant
Admission(c) == Whole(JoinReply, {fresh[c]})

SendReply(c) ==
  /\ Deliverable(c)
  /\ \/ /\ pc[c] = "answer"
        /\ Deliver(c, Whole(OtherReply, {}))
        /\ pc' = [pc EXCEPT ![c] = "recv"]
     \/ /\ pc[c] = "refuse"
        /\ Deliver(c, Whole(JoinReply, {}))
        /\ pc' = [pc EXCEPT ![c] = "recv"]
     \/ /\ pc[c] = "answerJoin"
        /\ Deliver(c, Admission(c))
        /\ pc' = [pc EXCEPT ![c] = IF fresh[c] = 0 THEN "recv" ELSE "roster"]
  /\ fresh' = [fresh EXCEPT ![c] = 0]
  /\ UNCHANGED <<port, clientVars, roomVars, roomLock, coreLock, pushVars, told>>

-----------------------------------------------------------------------------
(* The pushes: roomLock is held from the first send() to the last. *)

BeginPushUnlocked(c, f, ms) ==                                     \* mutant
  /\ roomLock' = c
  /\ frame' = [frame EXCEPT ![c] = f]
  /\ todo' = [todo EXCEPT ![c] = ms]
  /\ half' = [half EXCEPT ![c] = FALSE]
BeginPush(c, f, ms) ==
  /\ roomLock = NoThread
  /\ roomLock' = c
  /\ frame' = [frame EXCEPT ![c] = f]
  /\ todo' = [todo EXCEPT ![c] = ms]
  /\ half' = [half EXCEPT ![c] = FALSE]

(* Room_PushRoster, first part: the roster of everyone else to the joiner. *)
BeginRoster(c) ==
  /\ pc[c] = "roster"
  /\ BeginPush(c, [msg |-> UsersHere, ids |-> Ids(Others(c))], Others(c))
  /\ pc' = [pc EXCEPT ![c] = "pushRoster"]
  /\ UNCHANGED <<port, clientVars, roomVars, coreLock, fresh, outVars>>

(* Room_BroadcastChat: a chat line to every member, the sender included.   *)
(* The sender need not be one.                                             *)
ChatAudienceOthers(c) == Others(c)                                 \* mutant
ChatAudience(c) == Room(c)

BeginChat(c) ==
  /\ Take(c, "chat")
  /\ BeginPush(c, [msg |-> ChatText, ids |-> {req[c].line}], ChatAudience(c))
  /\ pc' = [pc EXCEPT ![c] = "push"]
  /\ UNCHANGED <<port, peerUp, counters, roomVars, coreLock, fresh, outVars>>

(* Room_Leave, once the loop of ServeConn is left: the oldest member on    *)
(* the socket goes, and the rest of the room is told.                      *)
HungUpWhenDropped(c) == pc[c] = "drop"                             \* mutant
HungUp(c) == pc[c] = "drop" \/ (pc[c] = "recv" /\ ~peerUp[c] /\ req[c] = NoReq)

DepartsNobody(c) == {}                                             \* mutant
Departs(c) == {m \in OnSocket(Room(c), c) : m = Oldest(OnSocket(Room(c), c))}

BeginLeave(c) ==
  /\ HungUp(c)
  /\ LET gone == Departs(c)
         rest == Room(c) \ gone
     IN /\ BeginPush(c, [msg |-> UserLeft, ids |-> Ids(gone)],
                     IF gone = {} THEN {} ELSE rest)
        /\ members' = [members EXCEPT ![port[c]] = rest]
  /\ pc' = [pc EXCEPT ![c] = "leave"]
  /\ UNCHANGED <<port, clientVars, nextId, coreLock, fresh, outVars>>

(* The socket the thread's next send() goes to. *)
Target(c) == IF pc[c] = "pushRoster" THEN c ELSE Oldest(todo[c]).sock
Pushing(c) == pc[c] = "pushRoster" \/ (pc[c] \in {"push", "leave"} /\ todo[c] # {})

(* The frame is through with its target: on to the next member, or from    *)
(* the roster to the announcement of the joiner.                           *)
NextTarget(c) ==
  IF pc[c] = "pushRoster"
  THEN /\ pc' = [pc EXCEPT ![c] = "push"]
       /\ frame' = [frame EXCEPT ![c] =
                      [msg |-> UserJoined, ids |-> {Newest(OnSocket(Room(c), c)).id}]]
       /\ UNCHANGED todo
  ELSE /\ todo' = [todo EXCEPT ![c] = @ \ {Oldest(@)}]
       /\ UNCHANGED <<pc, frame>>

(* SendTo: the header; a send() that fails gives the target up. *)
SendHeader(c) ==
  /\ Pushing(c) /\ ~half[c]
  /\ Deliverable(Target(c))
  /\ Deliver(Target(c), Header(frame[c]))
  /\ IF peerUp[Target(c)]
     THEN /\ half' = [half EXCEPT ![c] = TRUE]
          /\ UNCHANGED <<pc, frame, todo>>
     ELSE NextTarget(c) /\ UNCHANGED half
  /\ UNCHANGED <<port, clientVars, roomVars, roomLock, coreLock, fresh, told>>

(* What the frames a connection has carried say of its room. *)
Heard(ids, f) ==
  CASE f.msg = UsersHere  -> f.ids
    [] f.msg = UserJoined -> ids \cup f.ids
    [] f.msg = UserLeft   -> ids \ f.ids
    [] OTHER              -> ids

(* SendTo: the payload. *)
SendPayload(c) ==
  /\ Pushing(c) /\ half[c]
  /\ Deliverable(Target(c))
  /\ Deliver(Target(c), Payload(frame[c]))
  /\ told' = IF peerUp[Target(c)]
             THEN [told EXCEPT ![Target(c)] = Heard(@, frame[c])] ELSE told
  /\ half' = [half EXCEPT ![c] = FALSE]
  /\ NextTarget(c)
  /\ UNCHANGED <<port, clientVars, roomVars, roomLock, coreLock, fresh>>

(* LeaveCriticalSection( &g_lock ). *)
ReleaseNot == UNCHANGED roomLock                                   \* mutant
Release == roomLock' = NoThread

EndPush(c) ==
  /\ pc[c] \in {"push", "leave"} /\ todo[c] = {}
  /\ Release
  /\ pc' = [pc EXCEPT ![c] = IF pc[c] = "push" THEN "recv" ELSE "close"]
  /\ frame' = [frame EXCEPT ![c] = NoFrame]
  /\ UNCHANGED <<port, clientVars, roomVars, coreLock, fresh, todo, half, outVars>>

(* closesocket, and the thread ends: the handle is free again. *)
CloseSocket(c) ==
  /\ pc[c] = "close"
  /\ pc' = [pc EXCEPT ![c] = "none"]
  /\ peerUp' = [peerUp EXCEPT ![c] = FALSE]
  /\ req' = [req EXCEPT ![c] = NoReq]
  /\ wire' = [wire EXCEPT ![c] = <<>>]
  /\ told' = [told EXCEPT ![c] = {}]
  /\ UNCHANGED <<port, counters, roomVars, roomLock, coreLock, fresh, pushVars>>

-----------------------------------------------------------------------------
Client(c) ==
  \/ \E r \in Request \ {NoReq} : SendRequest(c, r)
  \/ ClientRead(c)
  \/ PeerClose(c)

Thread(c) ==
  \/ ServeOther(c)
  \/ RefuseJoin(c)
  \/ AdmitJoin(c)
  \/ RoomJoin(c)
  \/ SendReply(c)
  \/ BeginRoster(c)
  \/ BeginChat(c)
  \/ BeginLeave(c)
  \/ SendHeader(c)
  \/ SendPayload(c)
  \/ EndPush(c)
  \/ CloseSocket(c)

(* The bound on connections is used up and every thread has ended. *)
AllGone ==
  /\ accepted = MaxAccepts /\ \A c \in Conn : pc[c] = "none"
  /\ UNCHANGED vars

Next ==
  \/ \E c \in Conn, p \in Port : Accept(c, p)
  \/ \E c \in Conn : Client(c) \/ Thread(c)
  \/ AllGone

Spec == Init /\ [][Next]_vars

-----------------------------------------------------------------------------
(* Properties. *)

Status == {"none", "recv", "joining", "answer", "refuse", "answerJoin", "roster",
           "pushRoster", "push", "leave", "drop", "close"}
Member == [sock: Conn, id: Nat \ {0}, nick: Seq(Base \cup Nat)]

(* Every variable stays in the range the code gives it. *)
TypeOK ==
  /\ pc \in [Conn -> Status]
  /\ port \in [Conn -> Port]
  /\ peerUp \in [Conn -> BOOLEAN]
  /\ req \in [Conn -> Request]
  /\ members \in [Port -> SUBSET Member]
  /\ \A p \in Port : IsFiniteSet(members[p])
  /\ nextId \in Nat \ {0}
  /\ accepted \in Nat
  /\ lines \in Nat
  /\ roomLock \in Conn \cup {NoThread}
  /\ coreLock \in Conn \cup {NoThread}
  /\ fresh \in [Conn -> Nat]
  /\ frame \in [Conn -> Frame]
  /\ todo \in [Conn -> SUBSET Member]
  /\ half \in [Conn -> BOOLEAN]
  /\ wire \in [Conn -> Seq(Chunk)]
  /\ told \in [Conn -> SUBSET Nat]

(* A member id names one member of one room, so an id a client was told in *)
(* a join reply, a roster or a chat line is never anybody else's.          *)
UniqueIds ==
  \A p, q \in Port : \A m \in members[p], n \in members[q] :
    m.id = n.id => m = n /\ p = q

(* No two members of a room show the same nick, however many joiners with  *)
(* the same profile race: UniqueNick and the insertion share one critical  *)
(* section.                                                                *)
UniqueNicks ==
  \A p \in Port : \A m, n \in members[p] : m.nick = n.nick => m = n

(* A room lists no one whose connection is gone: every member's handle is  *)
(* served by a thread of that room that has not yet left.                  *)
NoGhosts ==
  \A p \in Port : \A m \in members[p] :
    port[m.sock] = p /\ pc[m.sock] \notin {"none", "leave", "close"}

(* The joiner's own thread has finished Room_PushRoster for the member.    *)
Announced(m) == pc[m.sock] \notin {"answerJoin", "roster", "pushRoster"}

(* Whenever no push is under way, what the frames sent to a member add up  *)
(* to is the room: it was told of every other member whose join has been   *)
(* announced, and of nobody who is not there.                              *)
Present(c) == peerUp[c] /\ \E m \in Room(c) : m.sock = c /\ Announced(m)
RosterConsistent ==
  roomLock = NoThread =>
    \A c \in Conn : Present(c) =>
      /\ Ids({m \in Room(c) : m.sock # c /\ Announced(m)}) \subseteq told[c]
      /\ told[c] \subseteq Ids({m \in Room(c) : m.sock # c})

(* Two pushes never interleave on one socket: leaving replies aside, a     *)
(* header is followed by its own payload.                                  *)
NextPushChunk(w, i, j) ==
  /\ i < j /\ w[j].part # "whole"
  /\ \A k \in (i + 1)..(j - 1) : w[k].part = "whole"
PushesSerialised ==
  \A c \in Conn : \A i, j \in DOMAIN wire[c] :
    NextPushChunk(wire[c], i, j) /\ wire[c][i].part = "header"
      => wire[c][j] = Payload(wire[c][i])

(* How the threads keep their books.  Who does what: a join being decided  *)
(* is the request the client sent, a joiner keeps its seat until its       *)
(* roster is out, ids are handed out in order, and a thread pushes exactly *)
(* while it holds g_lock.                                                  *)
JoinsNamed == \A c \in Conn : pc[c] = "joining" => req[c].kind = "join"
SeatHeld ==
  \A c \in Conn :
    \/ pc[c] \in {"roster", "pushRoster"}
    \/ pc[c] = "answerJoin" /\ fresh[c] # 0
    => OnSocket(Room(c), c) # {}
IdsHandedOut == \A p \in Port : \A m \in members[p] : m.id < nextId
LockHeld ==
  \A c \in Conn : pc[c] \in {"pushRoster", "push", "leave"} <=> roomLock = c

(* What is on the streams: a header without its payload at the end of one  *)
(* is that of the push under way, and its payload is the next thing that   *)
(* thread sends.                                                           *)
HalfPushed == \A c \in Conn : half[c] => Pushing(c)
GoneUnread == \A c \in Conn : ~peerUp[c] => wire[c] = <<>>
OpenHeader(w, i) ==
  w[i].part = "header" /\ \A k \in (i + 1)..Len(w) : w[k].part = "whole"
OpenHeaders ==
  \A c \in Conn : \A i \in DOMAIN wire[c] : OpenHeader(wire[c], i) =>
    /\ roomLock \in Conn /\ half[roomLock]
    /\ Target(roomLock) = c
    /\ wire[c][i] = Header(frame[roomLock])

(* Who sits where, as long as a member does not ask to join again: at most *)
(* one seat for a connection, and none before it asked.                    *)
OneSeat ==
  \A c \in Conn : \A m, n \in OnSocket(Room(c), c) : m = n
NoSeatAsked ==
  \A c \in Conn : req[c].kind = "join" => OnSocket(Room(c), c) = {}

Bookkeeping ==
  /\ JoinsNamed /\ SeatHeld /\ IdsHandedOut /\ LockHeld
  /\ HalfPushed /\ GoneUnread /\ OpenHeaders
  /\ ~Rejoin => OneSeat /\ NoSeatAsked

(* A thread that took a request, or found its peer gone, gets back to      *)
(* recv() or to the end: no lock is lost and no cycle of waits forms while *)
(* the clients read.                                                       *)
ThreadsReturn ==
  \A c \in Conn : pc[c] \notin {"none", "recv"} ~> pc[c] \in {"none", "recv"}

(* The seat of a client that went away is given up and the room told.      *)
SeatsFreed ==
  \A c \in Conn :
    (\E m \in Room(c) : m.sock = c) /\ ~peerUp[c] ~> OnSocket(Room(c), c) = {}

-----------------------------------------------------------------------------
(* A claim of the code's comments that the interleavings refute. *)

(* wonserver_room.cpp, on SendTo: "One framed push: [u32 12+len][u32 svc]  *)
(* [u32 msg][payload].  Sends are serialised by the room lock".  Nothing   *)
(* comes between the header of a push and its payload.                     *)
FramesIntact ==
  \A c \in Conn : \A i \in 1..(Len(wire[c]) - 1) :
    wire[c][i].part = "header" => wire[c][i + 1] = Payload(wire[c][i])

=============================================================================
