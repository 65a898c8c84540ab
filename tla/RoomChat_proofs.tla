--------------------------- MODULE RoomChat_proofs ---------------------------
(* Proofs about RoomChat: the launchers and the server together, for every *)
(* value of the constants, Rejoin included.  Every theorem about the       *)
(* server's threads holds of RoomChat, and what the launchers show is      *)
(* right: their own seat, the room, the order of the chat lines.           *)
EXTENDS RoomChat, WonRoom_proofs

-----------------------------------------------------------------------------
(* The launchers are clients of WonRoom. *)

LEMMA ChatStepIsStep ==
  ASSUME TypeInv, [ChatNext]_chatVars
  PROVE  [Next]_vars
<1>1. ASSUME NEW c \in Conn, NEW p \in Port, Connect(c, p)
      PROVE  Next
  BY <1>1 DEF Connect, Next
<1>2. ASSUME NEW c \in Conn, NEW name \in Name, AskToJoin(c, name)
      PROVE  Next
  <2>1. [kind |-> "join", name |-> name] \in Request \ {NoReq}
    BY DEF Request, NoReq
  <2> QED
    BY <1>2, <2>1 DEF AskToJoin, Client, Next
<1>3. ASSUME NEW c \in Conn, Say(c)
      PROVE  Next
  <2>1. lines + 1 \in 1..MaxLines
    BY <1>3, RoomAssumption DEF Say, TypeInv, TypeOK
  <2>2. [kind |-> "chat", line |-> lines + 1] \in Request \ {NoReq}
    BY <2>1 DEF Request, NoReq
  <2> QED
    BY <1>3, <2>2 DEF Say, Client, Next
<1>4. ASSUME NEW c \in Conn, Leave(c) \/ ReadWhileJoining(c) \/ ReadInRoom(c) \/ ReadOtherwise(c)
      PROVE  Next
  BY <1>4 DEF Leave, ReadWhileJoining, ReadInRoom, ReadOtherwise, Client, Next
<1>5. ASSUME NEW c \in Conn, GiveUp(c)
      PROVE  UNCHANGED vars
  BY <1>5 DEF GiveUp
<1>6. ASSUME NEW c \in Conn, ServerStep(c)
      PROVE  Next
  BY <1>6 DEF ServerStep, Next
<1> QED
  BY <1>1, <1>2, <1>3, <1>4, <1>5, <1>6 DEF ChatNext, chatVars, Next

(* What the launchers and the server do together is something the clients  *)
(* and threads of WonRoom can do: every theorem about Spec holds here.     *)
THEOREM ChatIsRoom == ChatSpec => Spec
<1>1. ChatInit => Init
  BY DEF ChatInit
<1>2. TypeInv /\ [ChatNext]_chatVars => [Next]_vars
  BY ChatStepIsStep
<1> QED
  BY <1>1, <1>2, TypeInit, TypeStep, PTL DEF ChatSpec, Spec

-----------------------------------------------------------------------------
(* Own seats.  A launcher asks for a seat only while it has none, and has  *)
(* at most one answer on the way; what it is told of its seat is true.     *)

Seat(c) == OnSocket(Room(c), c)
HasSeat(c, i) == \E m \in Seat(c) : m.id = i
Refusals == {Whole(JoinReply, {}), Whole(JoinReply, {0})}

(* The phase tells what is outstanding: nothing before the join request    *)
(* and after a wrong password.                                             *)
Follows(c) ==
  /\ phase[c] = "closed" <=> ~peerUp[c]
  /\ req[c].kind \in {"none", "join", "chat"}
  /\ pc[c] \notin {"answer", "drop"}
  /\ pc[c] = "none" => req[c] = NoReq
  /\ phase[c] \in {"connected", "refused"} =>
       pc[c] = "recv" /\ req[c] = NoReq /\ Seat(c) = {} /\ wire[c] = <<>>

(* A join reply, before and after it is sent and once it is read, tells    *)
(* the truth about the seat.                                               *)
Answered(c) ==
  /\ pc[c] = "refuse" => Seat(c) = {}
  /\ pc[c] = "answerJoin" /\ fresh[c] # 0 => HasSeat(c, fresh[c])
  /\ \A i \in DOMAIN wire[c] : wire[c][i].msg = JoinReply =>
       \/ wire[c][i] \in Refusals /\ Seat(c) = {}
       \/ \E m \in Seat(c) : wire[c][i].ids = {m.id}
  /\ phase[c] = "inRoom" => HasSeat(c, self[c])

(* Nobody writes to a launcher without a seat but its own thread, and that *)
(* only to refuse it.                                                      *)
Unaddressed(c) ==
  /\ Seat(c) = {} =>
       \/ wire[c] = <<>>
       \/ pc[c] = "recv" /\ req[c] = NoReq /\ \E k \in Refusals : wire[c] = <<k>>
  /\ Seat(c) = {} /\ pc[c] \in {"refuse", "answerJoin"} => req[c] = NoReq
  /\ Seat(c) = {} \/ ~peerUp[c] => told[c] = {}

Launcher(c) == Follows(c) /\ Answered(c) /\ Unaddressed(c)

ViewTypes ==
  /\ phase \in [Conn -> Phase] /\ self \in [Conn -> Nat]
  /\ rows = [c \in Conn |-> rows[c]] /\ shown = [c \in Conn |-> shown[c]]

LaunchInv ==
  /\ ServiceInv /\ StreamInv /\ ViewTypes
  /\ \A c \in Conn : Launcher(c)

LEMMA LaunchShapes ==
  ASSUME LaunchInv
  PROVE  /\ pc \in [Conn -> Status]
         /\ port \in [Conn -> Port]
         /\ peerUp \in [Conn -> BOOLEAN]
         /\ req \in [Conn -> Request]
         /\ members \in [Port -> SUBSET Member]
         /\ fresh \in [Conn -> Nat]
         /\ wire \in [Conn -> Seq(Chunk)]
         /\ told \in [Conn -> SUBSET Nat]
         /\ nextId \in Nat \ {0}
         /\ phase \in [Conn -> Phase]
         /\ self \in [Conn -> Nat]
         /\ rows = [c \in Conn |-> rows[c]] /\ shown = [c \in Conn |-> shown[c]]
         /\ \A c \in Conn : ~peerUp[c] => wire[c] = <<>>
         /\ \A c \in Conn : pc[c] = "none" => ~peerUp[c]
BY DEF LaunchInv, ServiceInv, SeatInv, TypeInv, TypeOK, StreamInv, GoneUnread, ViewTypes,
   Manners, NobodyThere

(* How the seat of a connection changes: its own thread takes it and gives *)
(* it up.                                                                  *)
LEMMA SeatStays ==
  ASSUME members' = members, port' = port, NEW d
  PROVE  Seat(d)' = Seat(d)
BY DEF Seat, OnSocket, Room

LEMMA JoinSeats ==
  ASSUME ServiceInv, NEW c \in Conn, RoomJoin(c), NEW d \in Conn
  PROVE  /\ d # c => Seat(d)' = Seat(d)
         /\ Seat(c) = {}
         /\ \/ fresh'[c] = 0 /\ Seat(c)' = {}
            \/ HasSeat(c, fresh[c])'
<1>0. /\ port \in [Conn -> Port] /\ members \in [Port -> SUBSET Member]
      /\ fresh \in [Conn -> Nat]
  BY Shapes DEF ServiceInv
<1>1. port' = port /\ Seat(c) = {}
  BY DEF RoomJoin, ServiceInv, SeatInv, TypeInv, JoinsNamed, NoSeatAsked, Seat
<1>2. CASE Cardinality(Room(c)) < MaxMembers
  <2> DEFINE new == NewMember(c, req[c].name)
  <2>1. /\ members' = [members EXCEPT ![port[c]] = members[port[c]] \cup {new}]
        /\ fresh' = [fresh EXCEPT ![c] = nextId]
    BY <1>2 DEF RoomJoin, NewMember, Room
  <2>2. new.sock = c /\ new.id = nextId
    BY DEF NewMember
  <2> HIDE DEF new
  <2>3. d # c => Seat(d)' = Seat(d)
    BY <1>0, <1>1, <2>1, <2>2 DEF Seat, OnSocket, Room
  <2>4. new \in Seat(c)'
    BY <1>0, <1>1, <2>1, <2>2 DEF Seat, OnSocket, Room
  <2> QED
    BY <1>0, <1>1, <2>1, <2>2, <2>3, <2>4 DEF HasSeat
<1>3. CASE ~(Cardinality(Room(c)) < MaxMembers)
  <2>1. members' = members /\ fresh' = [fresh EXCEPT ![c] = 0]
    BY <1>3 DEF RoomJoin, roomVars
  <2> QED
    BY <1>0, <1>1, <2>1, SeatStays
<1> QED
  BY <1>2, <1>3

LEMMA LeaveUnseats ==
  ASSUME ServiceInv, NEW c \in Conn, BeginLeave(c), NEW d \in Conn, d # c
  PROVE  Seat(d)' = Seat(d)
<1>0. port \in [Conn -> Port] /\ members \in [Port -> SUBSET Member]
  BY Shapes DEF ServiceInv
<1>1. /\ members' = [members EXCEPT ![port[c]] = members[port[c]] \ Departs(c)]
      /\ port' = port
  BY DEF BeginLeave, Room
<1>2. \A m \in Departs(c) : m.sock = c
  BY DEF Departs, OnSocket
<1> QED
  BY <1>0, <1>1, <1>2 DEF Seat, OnSocket, Room

(* Pushes go to seats. *)
LEMMA PushTarget ==
  ASSUME ServiceInv, NEW c \in Conn, Pushing(c)
  PROVE  Target(c) \in Conn /\ Seat(Target(c)) # {}
<1>0. /\ pc \in [Conn -> Status] /\ todo \in [Conn -> SUBSET Member]
      /\ port \in [Conn -> Port]
      /\ \A p \in Port : \A m \in members[p] : m.sock \in Conn /\ port[m.sock] = p
  BY Shapes DEF ServiceInv
<1>1. CASE pc[c] = "pushRoster"
  BY <1>1 DEF Target, Seat, ServiceInv, SeatInv, TypeInv, SeatHeld
<1>2. CASE pc[c] # "pushRoster"
  <2> DEFINE m == Oldest(todo[c])
  <2>1. m \in Room(c) /\ Target(c) = m.sock
    BY <1>0, <1>2, OldestIsMember
    DEF Pushing, Target, ServiceInv, Manners, AudienceSeated
  <2> HIDE DEF m
  <2>2. m.sock \in Conn /\ port[m.sock] = port[c]
    BY <1>0, <2>1 DEF Room
  <2>3. m \in Seat(m.sock)
    BY <2>1, <2>2 DEF Seat, OnSocket, Room
  <2> QED
    BY <2>1, <2>2, <2>3
<1> QED
  BY <1>1, <1>2

(* What a send() of a push does to a stream. *)
PushedTo(d) ==
  /\ Seat(d) # {} /\ peerUp[d]
  /\ \E k \in Chunk : k.msg # JoinReply /\ wire'[d] = Append(wire[d], k)

LEMMA PushSends ==
  ASSUME LaunchInv, NEW c \in Conn, SendHeader(c) \/ SendPayload(c), NEW d \in Conn
  PROVE  (wire'[d] = wire[d] /\ told'[d] = told[d]) \/ PushedTo(d)
<1>0. /\ wire \in [Conn -> Seq(Chunk)] /\ told \in [Conn -> SUBSET Nat]
      /\ frame[c] \in Frame
  BY LaunchShapes, Shapes DEF LaunchInv, ServiceInv
<1>1. Target(c) \in Conn /\ Seat(Target(c)) # {}
  BY PushTarget DEF SendHeader, SendPayload, LaunchInv
<1>2. PICK k \in Chunk : k.msg # JoinReply /\ Deliver(Target(c), k)
  <2>1. /\ Header(frame[c]) \in Chunk /\ Header(frame[c]).msg # JoinReply
        /\ Payload(frame[c]) \in Chunk /\ Payload(frame[c]).msg # JoinReply
    BY <1>0, FrameChunks DEF Header, Payload, Frame, UserJoined, UserLeft, ChatText, UsersHere,
       JoinReply
  <2> QED
    BY <2>1 DEF SendHeader, SendPayload
<1>3. told' = told \/ (peerUp[Target(c)] /\ \A e \in Conn : e # Target(c) => told'[e] = told[e])
  BY <1>0 DEF SendHeader, SendPayload
<1> QED
  BY <1>0, <1>1, <1>2, <1>3 DEF Deliver, PushedTo

(* A launcher keeps its good order when only a push comes its way. *)
LEMMA Undisturbed ==
  ASSUME LaunchInv, NEW d \in Conn,
         pc'[d] = pc[d], req'[d] = req[d], phase'[d] = phase[d], self'[d] = self[d],
         fresh'[d] = fresh[d], peerUp'[d] = peerUp[d], Seat(d)' = Seat(d),
         (wire'[d] = wire[d] /\ told'[d] = told[d]) \/ PushedTo(d)
  PROVE  Launcher(d)'
<1>0. Launcher(d) /\ wire[d] \in Seq(Chunk)
  BY LaunchShapes DEF LaunchInv
<1>1. CASE wire'[d] = wire[d] /\ told'[d] = told[d]
  BY <1>0, <1>1 DEF Launcher, Follows, Answered, Unaddressed, HasSeat
<1>2. CASE PushedTo(d)
  <2>1. PICK k \in Chunk : k.msg # JoinReply /\ wire'[d] = Append(wire[d], k)
    BY <1>2 DEF PushedTo
  <2>2. Follows(d)' /\ Unaddressed(d)'
    BY <1>0, <1>2 DEF Launcher, Follows, Unaddressed, PushedTo
  <2>3. \A i \in DOMAIN wire'[d] : wire'[d][i].msg = JoinReply =>
          i \in DOMAIN wire[d] /\ wire'[d][i] = wire[d][i]
    BY <1>0, <2>1
  <2>4. Answered(d)'
    BY <1>0, <2>3 DEF Launcher, Answered, HasSeat
  <2> QED
    BY <2>2, <2>4 DEF Launcher
<1> QED
  BY <1>1, <1>2

LEMMA LaunchConnects ==
  ASSUME LaunchInv, NEW c \in Conn, NEW p \in Port, Connect(c, p)
  PROVE  \A d \in Conn : Launcher(d)'
<1>0. /\ pc \in [Conn -> Status] /\ port \in [Conn -> Port] /\ peerUp \in [Conn -> BOOLEAN]
      /\ phase \in [Conn -> Phase]
      /\ ~peerUp[c] /\ wire[c] = <<>> /\ Launcher(c)
      /\ \A q \in Port : \A m \in members[q] : m.sock # c
  BY LaunchShapes, Shapes DEF LaunchInv, ServiceInv, Connect, Accept
<1>1. /\ pc[c] = "none" /\ pc' = [pc EXCEPT ![c] = "recv"]
      /\ port' = [port EXCEPT ![c] = p] /\ peerUp' = [peerUp EXCEPT ![c] = TRUE]
      /\ req' = req /\ members' = members /\ fresh' = fresh /\ wire' = wire /\ told' = told
      /\ phase' = [phase EXCEPT ![c] = "connected"] /\ self' = self
  BY DEF Connect, Accept, roomVars, outVars
<1>2. Seat(c)' = {}
  BY <1>0, <1>1 DEF Seat, OnSocket, Room
<1>3. \A d \in Conn : d # c => Seat(d)' = Seat(d)
  BY <1>0, <1>1 DEF Seat, OnSocket, Room
<1>4. told[c] = {} /\ req[c] = NoReq
  BY <1>0, <1>1 DEF Launcher, Follows, Unaddressed
<1>5. Launcher(c)'
  BY <1>0, <1>1, <1>2, <1>4 DEF Launcher, Follows, Answered, Unaddressed, NoReq
<1>6. ASSUME NEW d \in Conn, d # c PROVE Launcher(d)'
  BY <1>0, <1>1, <1>3, <1>6, Undisturbed
<1> QED
  BY <1>5, <1>6

(* The steps of a launcher that has a connection. *)
LEMMA LaunchSends ==
  ASSUME LaunchInv, NEW c \in Conn,
         (\E name \in Name : AskToJoin(c, name)) \/ Say(c) \/ Leave(c) \/ GiveUp(c)
  PROVE  \A d \in Conn : Launcher(d)'
<1>0. /\ pc \in [Conn -> Status] /\ peerUp \in [Conn -> BOOLEAN]
      /\ req \in [Conn -> Request]
      /\ wire \in [Conn -> Seq(Chunk)] /\ told \in [Conn -> SUBSET Nat]
      /\ phase \in [Conn -> Phase] /\ self \in [Conn -> Nat]
      /\ Launcher(c)
  BY LaunchShapes DEF LaunchInv
<1>1. /\ pc' = pc /\ port' = port /\ members' = members /\ fresh' = fresh
      /\ \A d \in Conn : Seat(d)' = Seat(d)
  <2>1. pc' = pc /\ port' = port /\ members' = members /\ fresh' = fresh
    BY DEF AskToJoin, Say, Leave, GiveUp, SendRequest, PeerClose, vars, roomVars
  <2> QED
    BY <2>1, SeatStays
<1>2. ASSUME NEW d \in Conn, d # c
      PROVE  Launcher(d)'
  <2>1. /\ req'[d] = req[d] /\ phase'[d] = phase[d] /\ self'[d] = self[d]
        /\ peerUp'[d] = peerUp[d] /\ wire'[d] = wire[d] /\ told'[d] = told[d]
    BY <1>0, <1>2 DEF AskToJoin, Say, Leave, GiveUp, SendRequest, PeerClose, Forget, vars, outVars
  <2> QED
    BY <1>1, <2>1, Undisturbed
<1>3. ASSUME NEW name \in Name, AskToJoin(c, name)
      PROVE  Launcher(c)'
  <2>1. /\ phase[c] \in {"connected", "refused"} /\ phase'[c] = "waiting"
        /\ peerUp[c] /\ req'[c].kind = "join"
        /\ peerUp' = peerUp /\ wire' = wire /\ told' = told /\ self' = self
    BY <1>0, <1>3 DEF AskToJoin, SendRequest, outVars
  <2> QED
    BY <1>0, <1>1, <2>1 DEF Launcher, Follows, Answered, Unaddressed, HasSeat
<1>4. ASSUME Say(c)
      PROVE  Launcher(c)'
  <2>1. /\ phase[c] = "inRoom" /\ phase' = phase
        /\ pc[c] # "none" /\ peerUp[c] /\ req'[c].kind = "chat"
        /\ peerUp' = peerUp /\ wire' = wire /\ told' = told /\ self' = self
    BY <1>0, <1>4 DEF Say, SendRequest, outVars
  <2>2. Seat(c) # {}
    BY <1>0, <2>1 DEF Launcher, Answered, HasSeat
  <2> QED
    BY <1>0, <1>1, <2>1, <2>2 DEF Launcher, Follows, Answered, Unaddressed, HasSeat
<1>5. ASSUME Leave(c)
      PROVE  Launcher(c)'
  <2>1. /\ phase'[c] = "closed" /\ ~peerUp'[c] /\ wire'[c] = <<>> /\ told'[c] = {}
        /\ req' = req
    BY <1>0, <1>5 DEF Leave, PeerClose
  <2> QED
    BY <1>0, <1>1, <2>1 DEF Launcher, Follows, Answered, Unaddressed, HasSeat
<1>6. ASSUME GiveUp(c)
      PROVE  Launcher(c)'
  <2>1. /\ phase'[c] = "gaveUp" /\ peerUp[c]
        /\ peerUp' = peerUp /\ wire' = wire /\ told' = told /\ req' = req
    BY <1>0, <1>6 DEF GiveUp, vars
  <2> QED
    BY <1>0, <1>1, <2>1 DEF Launcher, Follows, Answered, Unaddressed, HasSeat
<1> QED
  BY <1>2, <1>3, <1>4, <1>5, <1>6

LEMMA LaunchReads ==
  ASSUME LaunchInv, NEW c \in Conn,
         ReadWhileJoining(c) \/ ReadInRoom(c) \/ ReadOtherwise(c)
  PROVE  \A d \in Conn : Launcher(d)'
<1>0. /\ wire \in [Conn -> Seq(Chunk)] /\ members \in [Port -> SUBSET Member]
      /\ port \in [Conn -> Port]
      /\ phase \in [Conn -> Phase] /\ self \in [Conn -> Nat]
      /\ Launcher(c)
  BY LaunchShapes DEF LaunchInv
<1>1. /\ pc' = pc /\ req' = req /\ fresh' = fresh /\ peerUp' = peerUp /\ told' = told
      /\ \A d \in Conn : Seat(d)' = Seat(d)
      /\ peerUp[c] /\ wire[c] # <<>> /\ wire' = [wire EXCEPT ![c] = Tail(wire[c])]
  <2>1. ClientRead(c)
    BY DEF ReadWhileJoining, ReadInRoom, ReadOtherwise
  <2>2. members' = members /\ port' = port
    BY <2>1 DEF ClientRead, roomVars
  <2> QED
    BY <2>1, <2>2, SeatStays DEF ClientRead, clientVars
<1>2. ASSUME NEW d \in Conn, d # c
      PROVE  Launcher(d)'
  <2>1. phase'[d] = phase[d] /\ self'[d] = self[d] /\ wire'[d] = wire[d]
    BY <1>0, <1>1, <1>2 DEF ReadWhileJoining, ReadInRoom, ReadOtherwise, viewVars
  <2> QED
    BY <1>1, <2>1, Undisturbed
<1>3. \A i \in DOMAIN wire'[c] : i + 1 \in DOMAIN wire[c] /\ wire'[c][i] = wire[c][i + 1]
  BY <1>0, <1>1
<1>9. \A i \in DOMAIN wire'[c] : wire'[c][i].msg = JoinReply =>
        \/ wire'[c][i] \in Refusals /\ Seat(c)' = {}
        \/ \E m \in Seat(c)' : wire'[c][i].ids = {m.id}
  <2>1. \A i \in DOMAIN wire[c] : wire[c][i].msg = JoinReply =>
          \/ wire[c][i] \in Refusals /\ Seat(c) = {}
          \/ \E m \in Seat(c) : wire[c][i].ids = {m.id}
    BY <1>0 DEF Launcher, Answered
  <2> QED
    BY <1>1, <1>3, <2>1
<1>4. Seat(c) = {} =>
        wire'[c] = <<>> /\ pc[c] = "recv" /\ req[c] = NoReq
  BY <1>0, <1>1 DEF Launcher, Unaddressed
<1>5. Unaddressed(c)'
  BY <1>0, <1>1, <1>4 DEF Launcher, Unaddressed
<1>6. ASSUME phase'[c] = phase[c], self'[c] = self[c], phase[c] \notin {"connected", "refused"}
      PROVE  Launcher(c)'
  <2>1. Follows(c)'
    BY <1>0, <1>1, <1>6 DEF Launcher, Follows
  <2>2. Answered(c)'
    BY <1>0, <1>1, <1>6, <1>9 DEF Launcher, Answered, HasSeat
  <2> QED
    BY <1>5, <2>1, <2>2 DEF Launcher
<1>7. ASSUME ReadInRoom(c) \/ ReadOtherwise(c)
      PROVE  Launcher(c)'
  <2>1. phase[c] \notin {"connected", "refused"}
    BY <1>0, <1>1 DEF Launcher, Follows
  <2> QED
    BY <1>6, <1>7, <2>1 DEF ReadInRoom, ReadOtherwise, viewVars
<1>8. ASSUME ReadWhileJoining(c)
      PROVE  Launcher(c)'
  <2> DEFINE k == Head(wire[c])
             joins == k.msg = JoinReply /\ k.ids \cap (Nat \ {0}) # {}
  <2>1. /\ phase[c] = "waiting"
        /\ phase'[c] = IF joins THEN "inRoom"
                       ELSE IF k.msg = JoinReply /\ k.ids = {} THEN "refused" ELSE "gaveUp"
        /\ joins => self'[c] = CHOOSE i \in k.ids : TRUE
    BY <1>0, <1>8 DEF ReadWhileJoining
  <2>2. 1 \in DOMAIN wire[c] /\ k = wire[c][1]
    BY <1>0, <1>1
  <2> HIDE DEF k
  <2>3. k.msg = JoinReply => \/ k \in Refusals /\ Seat(c) = {}
                             \/ \E m \in Seat(c) : k.ids = {m.id}
    BY <1>0, <2>2 DEF Launcher, Answered
  <2>4. joins => HasSeat(c, self'[c])
    <3> SUFFICES ASSUME joins PROVE HasSeat(c, self'[c])
      OBVIOUS
    <3>1. k \notin Refusals
      BY DEF Refusals, Whole
    <3>2. PICK m \in Seat(c) : k.ids = {m.id}
      BY <2>3, <3>1
    <3> QED
      BY <2>1, <3>2 DEF HasSeat
  <2>5. phase'[c] = "refused" => Seat(c) = {}
    BY <2>1, <2>3
  <2>6. Follows(c)'
    BY <1>0, <1>1, <1>4, <2>1, <2>5 DEF Launcher, Follows
  <2>7. Answered(c)'
    <3>1. phase'[c] = "inRoom" => joins
      BY <2>1
    <3> QED
      BY <1>0, <1>1, <1>9, <2>4, <3>1 DEF Launcher, Answered, HasSeat
  <2> QED
    BY <1>5, <2>6, <2>7 DEF Launcher
<1> QED
  BY <1>2, <1>7, <1>8

(* A thread's step, as the other launchers see it. *)
LEMMA ThreadElsewhere ==
  ASSUME LaunchInv, NEW c \in Conn, ServerStep(c), NEW d \in Conn, d # c
  PROVE  /\ pc'[d] = pc[d] /\ req'[d] = req[d] /\ fresh'[d] = fresh[d]
         /\ peerUp'[d] = peerUp[d] /\ phase'[d] = phase[d] /\ self'[d] = self[d]
         /\ rows'[d] = rows[d] /\ shown'[d] = shown[d]
<1>0. /\ pc \in [Conn -> Status] /\ req \in [Conn -> Request] /\ fresh \in [Conn -> Nat]
      /\ peerUp \in [Conn -> BOOLEAN]
  BY LaunchShapes
<1>1. pc'[d] = pc[d]
  BY <1>0 DEF ServerStep, Thread, ServeOther, RefuseJoin, AdmitJoin, RoomJoin, SendReply,
     BeginRoster, BeginChat, BeginLeave, SendHeader, SendPayload, NextTarget, EndPush, CloseSocket
<1>2. req'[d] = req[d] /\ peerUp'[d] = peerUp[d]
  BY <1>0 DEF ServerStep, Thread, ServeOther, RefuseJoin, AdmitJoin, RoomJoin, SendReply, Take,
     BeginRoster, BeginChat, BeginLeave, SendHeader, SendPayload, EndPush, CloseSocket, clientVars
<1>3. fresh'[d] = fresh[d]
  BY <1>0 DEF ServerStep, Thread, ServeOther, RefuseJoin, AdmitJoin, RoomJoin, SendReply,
     BeginRoster, BeginChat, BeginLeave, SendHeader, SendPayload, EndPush, CloseSocket
<1>4. phase'[d] = phase[d] /\ self'[d] = self[d] /\ rows'[d] = rows[d] /\ shown'[d] = shown[d]
  BY LaunchShapes DEF ServerStep, Forget
<1> QED
  BY <1>1, <1>2, <1>3, <1>4

(* As long as its socket is open, a launcher does not notice its thread. *)
LEMMA ThreadViews ==
  ASSUME LaunchInv, NEW c \in Conn, ServerStep(c)
  PROVE  \/ CloseSocket(c) /\ phase' = [phase EXCEPT ![c] = "closed"] /\ Forget(c)
         \/ ~CloseSocket(c) /\ phase' = phase /\ self' = self /\ rows' = rows /\ shown' = shown
<1>0. pc \in [Conn -> Status]
  BY LaunchShapes
<1>1. CASE CloseSocket(c)
  <2>1. pc'[c] = "none" /\ pc[c] # "none"
    BY <1>0, <1>1 DEF CloseSocket
  <2> QED
    BY <1>1, <2>1 DEF ServerStep
<1>2. CASE ~CloseSocket(c)
  <2>1. pc'[c] # "none"
    BY <1>0, <1>2 DEF ServerStep, Thread, ServeOther, RefuseJoin, AdmitJoin, RoomJoin, SendReply,
       BeginRoster, BeginChat, BeginLeave, SendHeader, SendPayload, NextTarget, EndPush,
       Take, Pushing
  <2> QED
    BY <1>2, <2>1 DEF ServerStep
<1> QED
  BY <1>1, <1>2

LEMMA ThreadToOthers ==
  ASSUME LaunchInv, NEW c \in Conn, ServerStep(c), NEW d \in Conn, d # c
  PROVE  Launcher(d)'
<1>0. /\ wire \in [Conn -> Seq(Chunk)] /\ told \in [Conn -> SUBSET Nat]
      /\ ServiceInv
  BY LaunchShapes DEF LaunchInv
<1>1. Seat(d)' = Seat(d)
  <2>1. CASE RoomJoin(c)
    BY <1>0, <2>1, JoinSeats
  <2>2. CASE BeginLeave(c)
    BY <1>0, <2>2, LeaveUnseats
  <2>3. CASE ~RoomJoin(c) /\ ~BeginLeave(c)
    <3>1. members' = members /\ port' = port
      BY <2>3 DEF ServerStep, Thread, ServeOther, RefuseJoin, AdmitJoin, SendReply, BeginRoster,
         BeginChat, SendHeader, SendPayload, EndPush, CloseSocket, roomVars
    <3> QED
      BY <3>1, SeatStays
  <2> QED
    BY <2>1, <2>2, <2>3
<1>2. (wire'[d] = wire[d] /\ told'[d] = told[d]) \/ PushedTo(d)
  <2>1. CASE SendHeader(c) \/ SendPayload(c)
    BY <2>1, PushSends
  <2>2. CASE SendReply(c)
    BY <1>0, <2>2 DEF SendReply, Deliver
  <2>3. CASE ~SendHeader(c) /\ ~SendPayload(c) /\ ~SendReply(c)
    BY <1>0, <2>3 DEF ServerStep, Thread, ServeOther, RefuseJoin, AdmitJoin, RoomJoin, BeginRoster,
       BeginChat, BeginLeave, EndPush, CloseSocket, outVars
  <2> QED
    BY <2>1, <2>2, <2>3
<1> QED
  BY <1>1, <1>2, ThreadElsewhere, Undisturbed

(* A thread's step, as its own launcher sees it. *)
LEMMA ThreadAnswers ==
  ASSUME LaunchInv, NEW c \in Conn, ServerStep(c),
         ServeOther(c) \/ RefuseJoin(c) \/ AdmitJoin(c) \/ RoomJoin(c) \/ SendReply(c)
  PROVE  Launcher(c)'
<1>0. /\ pc \in [Conn -> Status] /\ req \in [Conn -> Request]
      /\ fresh \in [Conn -> Nat] /\ wire \in [Conn -> Seq(Chunk)] /\ told \in [Conn -> SUBSET Nat]
      /\ members \in [Port -> SUBSET Member] /\ port \in [Conn -> Port]
      /\ ServiceInv /\ Launcher(c)
  BY LaunchShapes DEF LaunchInv
<1>1. /\ phase' = phase /\ self' = self /\ peerUp' = peerUp /\ told' = told
      /\ ~CloseSocket(c)
  <2>1. pc[c] # "close" /\ peerUp' = peerUp /\ told' = told
    BY DEF ServeOther, RefuseJoin, AdmitJoin, RoomJoin, SendReply, Take, clientVars, outVars
  <2> QED
    BY <2>1, ThreadViews DEF CloseSocket
<1>2. ASSUME req[c].kind = "join"
      PROVE  Seat(c) = {} /\ wire[c] = <<>>
  <2>1. Seat(c) = {}
    BY <1>0, <1>2 DEF ServiceInv, SeatInv, NoSeatAsked, Seat
  <2> QED
    BY <1>0, <1>2, <2>1 DEF Launcher, Unaddressed, NoReq
<1>3. CASE ServeOther(c)
  BY <1>0, <1>3 DEF Launcher, Follows, ServeOther, Take
<1>4. CASE RefuseJoin(c) \/ AdmitJoin(c)
  <2>1. /\ req[c].kind = "join" /\ pc[c] = "recv" /\ fresh' = fresh /\ wire' = wire
        /\ Seat(c)' = Seat(c)
        /\ \/ pc'[c] = "refuse" /\ req'[c] = NoReq
           \/ pc'[c] = "joining" /\ req' = req
    BY <1>0, <1>4, SeatStays DEF RefuseJoin, AdmitJoin, Take, clientVars, roomVars, outVars
  <2>2. phase[c] \notin {"connected", "refused"}
    BY <1>0, <2>1 DEF Launcher, Follows, NoReq
  <2> QED
    BY <1>0, <1>1, <1>2, <2>1, <2>2 DEF Launcher, Follows, Answered, Unaddressed, HasSeat, NoReq
<1>5. CASE RoomJoin(c)
  <2>1. /\ req[c].kind = "join" /\ pc[c] = "joining"
        /\ pc'[c] = "answerJoin" /\ req'[c] = NoReq /\ wire' = wire
    BY <1>0, <1>5 DEF RoomJoin, outVars, ServiceInv, SeatInv, TypeInv, JoinsNamed
  <2>2. fresh'[c] = 0 \/ HasSeat(c, fresh[c])'
    BY <1>0, <1>5, JoinSeats
  <2>3. phase[c] \notin {"connected", "refused", "inRoom"} /\ wire[c] = <<>> /\ told[c] = {}
    BY <1>0, <1>2, <2>1 DEF Launcher, Follows, Answered, Unaddressed, HasSeat
  <2>4. Follows(c)'
    BY <1>0, <1>1, <2>1, <2>3 DEF Launcher, Follows, NoReq
  <2>5. Answered(c)' /\ Unaddressed(c)'
    BY <1>1, <2>1, <2>2, <2>3 DEF Answered, Unaddressed
  <2> QED
    BY <2>4, <2>5 DEF Launcher
<1>6. CASE SendReply(c)
  <2>0. /\ pc[c] \in {"refuse", "answerJoin"}
        /\ pc'[c] = IF pc[c] = "refuse" \/ fresh[c] = 0 THEN "recv" ELSE "roster"
        /\ req' = req /\ fresh'[c] = 0 /\ Seat(c)' = Seat(c)
    BY <1>0, <1>6, SeatStays DEF SendReply, clientVars, roomVars, Launcher, Follows
  <2>1. /\ pc[c] = "refuse" \/ fresh[c] = 0 => Seat(c) = {}
        /\ pc[c] = "answerJoin" /\ fresh[c] # 0 => HasSeat(c, fresh[c])
    BY <1>0, <2>0 DEF Launcher, Answered, ServiceInv, Manners, TurnedAway, Seat
  <2>2. PICK k \in Chunk :
          /\ Deliver(c, k)
          /\ \/ Seat(c) = {} /\ k \in Refusals
             \/ \E m \in Seat(c) : k.ids = {m.id}
    <3>1. CASE pc[c] = "refuse"
      <4>1. Whole(JoinReply, {}) \in Chunk /\ Whole(JoinReply, {}) \in Refusals
        BY DEF Whole, Chunk, Refusals
      <4> QED
        BY <1>6, <2>1, <3>1, <4>1 DEF SendReply
    <3>2. CASE pc[c] = "answerJoin"
      <4>1. /\ Admission(c) = Whole(JoinReply, {fresh[c]}) /\ Admission(c) \in Chunk
            /\ Admission(c).ids = {fresh[c]}
            /\ fresh[c] = 0 => Admission(c) \in Refusals
        BY <1>0 DEF Admission, Whole, Chunk, Refusals
      <4> QED
        BY <1>6, <2>1, <3>2, <4>1 DEF SendReply, HasSeat
    <3> QED
      BY <2>0, <3>1, <3>2
  <2>3. wire'[c] = IF peerUp[c] THEN Append(wire[c], k) ELSE wire[c]
    BY <1>0, <2>2 DEF Deliver
  <2>4. phase[c] \notin {"connected", "refused"}
    BY <1>0, <2>0 DEF Launcher, Follows
  <2>5. Follows(c)'
    BY <1>0, <1>1, <2>0, <2>4 DEF Launcher, Follows
  <2>6. Answered(c)'
    <3>1. \A i \in DOMAIN wire'[c] :
            \/ i \in DOMAIN wire[c] /\ wire'[c][i] = wire[c][i]
            \/ wire'[c][i] = k
      BY <1>0, <2>3
    <3>2. \A i \in DOMAIN wire'[c] : wire'[c][i].msg = JoinReply =>
            \/ wire'[c][i] \in Refusals /\ Seat(c) = {}
            \/ \E m \in Seat(c) : wire'[c][i].ids = {m.id}
      BY <1>0, <2>2, <3>1 DEF Launcher, Answered
    <3> QED
      BY <1>0, <1>1, <2>0, <3>2 DEF Launcher, Answered, HasSeat
  <2>7. Unaddressed(c)'
    <3>1. Seat(c) = {} => wire[c] = <<>> /\ req[c] = NoReq /\ pc'[c] = "recv"
      BY <1>0, <2>0, <2>1 DEF Launcher, Unaddressed, HasSeat
    <3>2. Seat(c) = {} => wire'[c] = <<>> \/ \E r \in Refusals : wire'[c] = <<r>>
      BY <1>0, <2>2, <2>3, <3>1
    <3> QED
      BY <1>0, <1>1, <2>0, <3>1, <3>2 DEF Launcher, Unaddressed
  <2> QED
    BY <2>5, <2>6, <2>7 DEF Launcher
<1> QED
  BY <1>3, <1>4, <1>5, <1>6

LEMMA ThreadPushes ==
  ASSUME LaunchInv, NEW c \in Conn, ServerStep(c),
         BeginRoster(c) \/ BeginChat(c) \/ SendHeader(c) \/ SendPayload(c) \/ EndPush(c)
  PROVE  Launcher(c)'
<1>0. /\ pc \in [Conn -> Status] /\ req \in [Conn -> Request] /\ peerUp \in [Conn -> BOOLEAN]
      /\ wire \in [Conn -> Seq(Chunk)] /\ told \in [Conn -> SUBSET Nat]
      /\ ServiceInv /\ Launcher(c)
  BY LaunchShapes DEF LaunchInv
<1>1. /\ phase' = phase /\ self' = self /\ peerUp' = peerUp /\ fresh' = fresh
      /\ Seat(c)' = Seat(c)
  <2>1. ~CloseSocket(c)
    BY DEF BeginRoster, BeginChat, SendHeader, SendPayload, EndPush, CloseSocket, Pushing, Take
  <2>2. /\ peerUp' = peerUp /\ fresh' = fresh /\ members' = members /\ port' = port
    BY DEF BeginRoster, BeginChat, SendHeader, SendPayload, EndPush, clientVars, roomVars
  <2> QED
    BY <2>1, <2>2, ThreadViews, SeatStays
<1>2. \/ wire'[c] = wire[c] /\ told'[c] = told[c]
      \/ PushedTo(c)
  <2>1. CASE SendHeader(c) \/ SendPayload(c)
    BY <2>1, PushSends
  <2>2. CASE ~SendHeader(c) /\ ~SendPayload(c)
    BY <2>2 DEF BeginRoster, BeginChat, EndPush, outVars
  <2> QED
    BY <2>1, <2>2
<1>3. /\ pc[c] # "none" /\ pc'[c] \notin {"none", "answer", "drop", "refuse", "answerJoin"}
      /\ req'[c] = req[c] \/ (req[c].kind = "chat" /\ req'[c] = NoReq)
      /\ pc[c] = "recv" => req[c].kind = "chat"
      /\ pc[c] # "recv" => Seat(c) # {} \/ pc[c] \in {"push", "leave"}
  <2>1. CASE BeginRoster(c)
    <3>1. Seat(c) # {}
      BY <1>0, <2>1 DEF BeginRoster, ServiceInv, SeatInv, TypeInv, SeatHeld, Seat
    <3> QED
      BY <1>0, <2>1, <3>1 DEF BeginRoster, clientVars
  <2>2. CASE BeginChat(c)
    BY <1>0, <2>2 DEF BeginChat, Take
  <2>3. CASE SendHeader(c) \/ SendPayload(c)
    <3>1. /\ pc'[c] = pc[c] \/ pc'[c] = "push"
          /\ req' = req /\ pc[c] \in {"pushRoster", "push", "leave"}
      BY <1>0, <2>3 DEF SendHeader, SendPayload, NextTarget, clientVars, Pushing
    <3>2. pc[c] = "pushRoster" => Seat(c) # {}
      BY <1>0 DEF ServiceInv, SeatInv, TypeInv, SeatHeld, Seat
    <3> QED
      BY <3>1, <3>2
  <2>4. CASE EndPush(c)
    BY <1>0, <2>4 DEF EndPush, clientVars
  <2> QED
    BY <2>1, <2>2, <2>3, <2>4
<1>4. phase[c] \notin {"connected", "refused"}
  BY <1>0, <1>3 DEF Launcher, Follows, NoReq
<1>5. Seat(c) = {} => wire[c] = <<>>
  BY <1>0, <1>3 DEF Launcher, Unaddressed, NoReq
<1>6. Follows(c)'
  BY <1>0, <1>1, <1>3, <1>4 DEF Launcher, Follows, NoReq
<1>7. \A i \in DOMAIN wire'[c] : wire'[c][i].msg = JoinReply =>
        i \in DOMAIN wire[c] /\ wire'[c][i] = wire[c][i]
  <2>1. CASE PushedTo(c)
    <3>1. PICK k \in Chunk : k.msg # JoinReply /\ wire'[c] = Append(wire[c], k)
      BY <2>1 DEF PushedTo
    <3> QED
      BY <1>0, <3>1
  <2>2. CASE wire'[c] = wire[c]
    BY <2>2
  <2> QED
    BY <1>2, <2>1, <2>2
<1>8. Answered(c)'
  <2>1. \A i \in DOMAIN wire'[c] : wire'[c][i].msg = JoinReply =>
          \/ wire'[c][i] \in Refusals /\ Seat(c)' = {}
          \/ \E m \in Seat(c)' : wire'[c][i].ids = {m.id}
    <3>1. \A i \in DOMAIN wire[c] : wire[c][i].msg = JoinReply =>
            \/ wire[c][i] \in Refusals /\ Seat(c) = {}
            \/ \E m \in Seat(c) : wire[c][i].ids = {m.id}
      BY <1>0 DEF Launcher, Answered
    <3>2. Seat(c)' = Seat(c)
      BY <1>1
    <3> QED
      BY <1>7, <3>1, <3>2
  <2> QED
    BY <1>0, <1>1, <1>3, <2>1 DEF Launcher, Answered, HasSeat
<1>9. Unaddressed(c)'
  BY <1>0, <1>1, <1>2, <1>3, <1>5 DEF Launcher, Unaddressed, PushedTo
<1> QED
  BY <1>6, <1>8, <1>9 DEF Launcher

LEMMA ThreadLeaves ==
  ASSUME LaunchInv, NEW c \in Conn, ServerStep(c), BeginLeave(c) \/ CloseSocket(c)
  PROVE  Launcher(c)'
<1>0. /\ pc \in [Conn -> Status] /\ req \in [Conn -> Request] /\ peerUp \in [Conn -> BOOLEAN]
      /\ wire \in [Conn -> Seq(Chunk)] /\ told \in [Conn -> SUBSET Nat]
      /\ phase \in [Conn -> Phase] /\ Launcher(c)
      /\ ~peerUp[c] => wire[c] = <<>>
  BY LaunchShapes DEF LaunchInv
<1>1. CASE BeginLeave(c)
  <2>1. /\ pc[c] = "recv" /\ ~peerUp[c] /\ req[c] = NoReq
        /\ pc'[c] = "leave"
        /\ peerUp' = peerUp /\ req' = req /\ fresh' = fresh /\ wire' = wire /\ told' = told
    BY <1>0, <1>1 DEF BeginLeave, HungUp, Launcher, Follows, clientVars, outVars
  <2>2. phase' = phase
    BY <2>1, ThreadViews DEF CloseSocket
  <2>3. phase[c] = "closed" /\ wire[c] = <<>> /\ told[c] = {}
    BY <1>0, <2>1 DEF Launcher, Follows, Unaddressed
  <2> QED
    BY <1>0, <2>1, <2>2, <2>3 DEF Launcher, Follows, Answered, Unaddressed, NoReq
<1>2. CASE CloseSocket(c)
  <2>1. /\ pc'[c] = "none" /\ ~peerUp'[c] /\ req'[c] = NoReq /\ wire'[c] = <<>> /\ told'[c] = {}
    BY <1>0, <1>2 DEF CloseSocket
  <2>2. phase'[c] = "closed"
    BY <1>0, <1>2, ThreadViews
  <2> QED
    BY <2>1, <2>2 DEF Launcher, Follows, Answered, Unaddressed, NoReq
<1> QED
  BY <1>1, <1>2

LEMMA LaunchThread ==
  ASSUME LaunchInv, NEW c \in Conn, ServerStep(c)
  PROVE  \A d \in Conn : Launcher(d)'
<1>1. Launcher(c)'
  BY ThreadAnswers, ThreadPushes, ThreadLeaves DEF ServerStep, Thread
<1> QED
  BY <1>1, ThreadToOthers

(* No launcher asks for a second seat: what Rejoin = FALSE asks of the     *)
(* clients of WonRoom, the launcher keeps by itself.                       *)
LEMMA LauncherAsksUnseated ==
  ASSUME LaunchInv, [ChatNext]_chatVars
  PROVE  AsksUnseated
<1>0. /\ req \in [Conn -> Request] /\ TypeInv
      /\ \A c \in Conn : Launcher(c)
  BY LaunchShapes DEF LaunchInv, ServiceInv, SeatInv
<1>1. ASSUME NEW c \in Conn, NEW name \in Name, AskToJoin(c, name)
      PROVE  AsksUnseated
  <2>1. OnSocket(Room(c), c) = {}
    BY <1>0, <1>1 DEF AskToJoin, Launcher, Follows, Seat
  <2>2. \A d \in Conn : d # c => req'[d] = req[d]
    BY <1>0, <1>1 DEF AskToJoin, SendRequest
  <2> QED
    BY <2>1, <2>2 DEF AsksUnseated
<1>2. ASSUME NEW c \in Conn, Say(c)
      PROVE  AsksUnseated
  <2>1. \A d \in Conn : req'[d] = req[d] \/ req'[d].kind = "chat"
    BY <1>0, <1>2 DEF Say, SendRequest
  <2> QED
    BY <2>1 DEF AsksUnseated
<1>3. ASSUME NEW c \in Conn, ServerStep(c)
      PROVE  AsksUnseated
  BY <1>0, <1>3, ThreadTakes DEF ServerStep, AsksUnseated, NoReq
<1>4. CASE req' = req
  BY <1>4 DEF AsksUnseated
<1>5. ASSUME NEW c \in Conn,
             \/ \E p \in Port : Connect(c, p)
             \/ Leave(c) \/ GiveUp(c) \/ ReadWhileJoining(c) \/ ReadInRoom(c) \/ ReadOtherwise(c)
      PROVE  req' = req
  BY <1>5 DEF Connect, Accept, Leave, PeerClose, GiveUp, ReadWhileJoining, ReadInRoom,
     ReadOtherwise, ClientRead, clientVars, vars
<1>6. CASE UNCHANGED vars
  BY <1>4, <1>6 DEF vars
<1> QED
  BY <1>1, <1>2, <1>3, <1>4, <1>5, <1>6 DEF ChatNext, chatVars, AllGone

LEMMA ViewTypesStep ==
  ASSUME LaunchInv, [ChatNext]_chatVars
  PROVE  ViewTypes'
<1>0. /\ phase \in [Conn -> Phase] /\ self \in [Conn -> Nat]
      /\ rows = [c \in Conn |-> rows[c]] /\ shown = [c \in Conn |-> shown[c]]
      /\ wire \in [Conn -> Seq(Chunk)]
  BY LaunchShapes
<1>1. ASSUME NEW c \in Conn, ReadWhileJoining(c)
      PROVE  ViewTypes'
  <2> DEFINE k == Head(wire[c])
             joins == k.msg = JoinReply /\ k.ids \cap (Nat \ {0}) # {}
  <2>1. /\ phase' = [phase EXCEPT ![c] = IF joins THEN "inRoom"
                       ELSE IF k.msg = JoinReply /\ k.ids = {} THEN "refused" ELSE "gaveUp"]
        /\ \/ joins /\ self' = [self EXCEPT ![c] = CHOOSE i \in k.ids : TRUE]
                 /\ rows' = [rows EXCEPT ![c] = SetToBag(k.ids)]
           \/ self' = self /\ rows' = rows
        /\ shown' = shown /\ wire[c] # <<>>
    BY <1>1 DEF ReadWhileJoining, ClientRead
  <2>2. k \in Chunk
    BY <1>0, <2>1
  <2> HIDE DEF k
  <2>3. k.ids \in SUBSET Nat
    BY <2>2 DEF Chunk
  <2>4. joins => (CHOOSE i \in k.ids : TRUE) \in Nat
    BY <2>3
  <2> HIDE DEF joins
  <2>5. phase' \in [Conn -> Phase]
    BY <1>0, <2>1 DEF Phase
  <2>6. self' \in [Conn -> Nat]
    BY <1>0, <2>1, <2>4
  <2>7. rows' = [d \in Conn |-> rows'[d]]
    BY <1>0, <2>1
  <2> QED
    BY <1>0, <2>1, <2>5, <2>6, <2>7 DEF ViewTypes
<1>2. ASSUME NEW c \in Conn, ReadInRoom(c)
      PROVE  ViewTypes'
  <2>1. phase' = phase /\ self' = self
    BY <1>2 DEF ReadInRoom
  <2>2. rows' = [d \in Conn |-> rows'[d]]
    BY <1>0, <1>2 DEF ReadInRoom
  <2>3. shown' = [d \in Conn |-> shown'[d]]
    BY <1>0, <1>2 DEF ReadInRoom
  <2> QED
    BY <1>0, <2>1, <2>2, <2>3 DEF ViewTypes
<1>3. ASSUME NEW c \in Conn,
             \/ \E p \in Port : Connect(c, p)
             \/ \E name \in Name : AskToJoin(c, name)
             \/ Say(c) \/ GiveUp(c) \/ ReadOtherwise(c)
      PROVE  ViewTypes'
  <2>1. self' = self /\ rows' = rows /\ shown' = shown
    BY <1>3 DEF Connect, AskToJoin, Say, GiveUp, ReadOtherwise, viewVars
  <2>2. phase' \in [Conn -> Phase]
    BY <1>0, <1>3 DEF Connect, AskToJoin, Say, GiveUp, ReadOtherwise, viewVars, Phase
  <2> QED
    BY <1>0, <2>1, <2>2 DEF ViewTypes
<1>4. ASSUME NEW c \in Conn, Leave(c) \/ ServerStep(c)
      PROVE  ViewTypes'
  <2>1. \/ phase' = [phase EXCEPT ![c] = "closed"] /\ Forget(c)
        \/ phase' = phase /\ self' = self /\ rows' = rows /\ shown' = shown
    BY <1>4, ThreadViews DEF Leave
  <2>2. phase' \in [Conn -> Phase]
    BY <1>0, <2>1 DEF Phase
  <2>3. self' \in [Conn -> Nat]
    <3>1. self' = self \/ self' = [self EXCEPT ![c] = 0]
      BY <2>1 DEF Forget
    <3>2. self \in [Conn -> Nat]
      BY <1>0
    <3> QED
      BY <3>1, <3>2
  <2>4. rows' = [d \in Conn |-> rows'[d]]
    BY <1>0, <2>1 DEF Forget
  <2>5. shown' = [d \in Conn |-> shown'[d]]
    BY <1>0, <2>1 DEF Forget
  <2> QED
    BY <2>2, <2>3, <2>4, <2>5 DEF ViewTypes
<1>5. CASE UNCHANGED viewVars
  BY <1>0, <1>5 DEF ViewTypes, viewVars
<1> QED
  BY <1>1, <1>2, <1>3, <1>4, <1>5 DEF ChatNext, chatVars

LEMMA LaunchStep ==
  ASSUME LaunchInv, [ChatNext]_chatVars
  PROVE  LaunchInv'
<1>1. [Next]_vars
  BY ChatStepIsStep DEF LaunchInv, ServiceInv, SeatInv
<1>2. ServiceInv'
  BY <1>1, LauncherAsksUnseated, ServiceStep DEF LaunchInv
<1>3. StreamInv'
  BY <1>1, StreamStep DEF LaunchInv
<1>4. CASE UNCHANGED chatVars
  <2>1. \A d \in Conn : Seat(d)' = Seat(d)
    BY <1>4, SeatStays DEF chatVars, vars
  <2>2. \A d \in Conn : Launcher(d)'
    BY <1>4, <2>1, Undisturbed DEF chatVars, vars, viewVars
  <2> QED
    BY <1>2, <1>3, <2>2, ViewTypesStep DEF LaunchInv
<1>5. CASE AllGone /\ UNCHANGED viewVars
  BY <1>4, <1>5 DEF AllGone, chatVars
<1>6. CASE \E c \in Conn : \/ \E p \in Port : Connect(c, p)
                           \/ \E name \in Name : AskToJoin(c, name)
                           \/ Say(c) \/ Leave(c) \/ GiveUp(c)
                           \/ ReadWhileJoining(c) \/ ReadInRoom(c) \/ ReadOtherwise(c)
                           \/ ServerStep(c)
  <2>1. \A d \in Conn : Launcher(d)'
    BY <1>6, LaunchConnects, LaunchSends, LaunchReads, LaunchThread
  <2> QED
    BY <1>2, <1>3, <2>1, ViewTypesStep DEF LaunchInv
<1> QED
  BY <1>4, <1>5, <1>6 DEF ChatNext

LEMMA LaunchInit == ChatInit => LaunchInv
<1> SUFFICES ASSUME ChatInit PROVE LaunchInv
  OBVIOUS
<1>1. ServiceInv
  BY ServiceInit DEF ChatInit
<1>2. StreamInv
  BY <1>1, RoomAssumption
  DEF ChatInit, Init, StreamInv, ServiceInv, GoneUnread, OpenHeaders, PushesSerialised
<1>3. ViewTypes
  BY DEF ChatInit, ViewTypes, Phase
<1>4. \A c \in Conn : Launcher(c)
  BY RoomAssumption DEF ChatInit, Init, Launcher, Follows, Answered, Unaddressed, NoReq
<1> QED
  BY <1>1, <1>2, <1>3, <1>4 DEF LaunchInv

LEMMA LaunchInvariant == ChatSpec => []LaunchInv
<1>1. LaunchInv /\ [ChatNext]_chatVars => LaunchInv'
  BY LaunchStep
<1> QED
  BY <1>1, LaunchInit, PTL DEF ChatSpec

(* The seat a launcher believes it has is its seat: the id JoinRoom stores *)
(* is that of the member the server lists on its connection.               *)
THEOREM SeatsOwn == ChatSpec => []OwnSeat
<1>1. LaunchInv => OwnSeat
  BY DEF LaunchInv, Launcher, Answered, HasSeat, Seat, OnSocket, OwnSeat
<1> QED
  BY <1>1, LaunchInvariant, PTL

(* No launcher leaves a ghost: a member is listed only while the thread of *)
(* its connection serves its room and has not come to Room_Leave.          *)
THEOREM LaunchersLeaveNoGhosts == ChatSpec => []NoGhosts
<1>1. LaunchInv => NoGhosts
  BY DEF LaunchInv, ServiceInv, SeatInv
<1> QED
  BY <1>1, LaunchInvariant, PTL

(* With launchers for clients the threads keep the promise of RoomBook,    *)
(* and nothing has to be assumed of what the clients send.                 *)
THEOREM LaunchersKeepBooks == ChatSpec => KeepsBooks
<1>1. LaunchInv /\ [ChatNext]_chatVars => [Book!BookNext]_Book!bookVars
  BY ChatStepIsStep, StepRefines DEF LaunchInv, ServiceInv, SeatInv
<1>2. ChatInit => Book!BookInit
  BY BookStarts DEF ChatInit
<1> QED
  BY <1>1, <1>2, LaunchInvariant, PTL DEF ChatSpec, KeepsBooks, Book!BookSpec

(* Between pushes, what the frames sent to a launcher add up to is its     *)
(* room.                                                                   *)
THEOREM LaunchersHearRoster == ChatSpec => []RosterConsistent
<1>1. KeepsBooks => []BooksRight
  BY Book!BooksStayRight DEF KeepsBooks, BooksRight
<1>2. LaunchInv /\ BooksRight => RosterConsistent
  BY BooksGiveRoster DEF LaunchInv
<1> QED
  BY <1>1, <1>2, LaunchersKeepBooks, LaunchInvariant, PTL

-----------------------------------------------------------------------------
(* The order of the chat lines.  A line reaches a launcher when its payload *)
(* is on the stream, and is shown, or thrown away, when it is read; so the  *)
(* order of the lines a launcher shows is that of its stream.               *)

Line(n)       == Payload([msg |-> ChatText, ids |-> {n}])
Shows(c, n)   == \E i \in DOMAIN shown[c] : shown[c][i] = n
OnWay(c, n)   == \E i \in DOMAIN wire[c] : wire[c][i] = Line(n)
Reached(c, n) == Shows(c, n) \/ OnWay(c, n)
Precedes(c, a, b) ==
  \/ Before(c, a, b)
  \/ Shows(c, a) /\ OnWay(c, b)
  \/ \E i, j \in DOMAIN wire[c] : i < j /\ wire[c][i] = Line(a) /\ wire[c][j] = Line(b)

(* A chat frame carries one line, and its thread is pushing it. *)
LinesWhole ==
  /\ \A c \in Conn : \A i \in DOMAIN wire[c] :
       wire[c][i].msg = ChatText => \E n \in 1..lines : wire[c][i].ids = {n}
  /\ \A c \in Conn : frame[c].msg = ChatText =>
       pc[c] = "push" /\ \E n \in 1..lines : frame[c].ids = {n}
LinesKnown ==
  /\ shown \in [Conn -> Seq(Nat)]
  /\ \A c \in Conn : \A i \in DOMAIN shown[c] : shown[c][i] \in 1..lines

(* A line still waiting to be taken by its thread has reached nobody.      *)
PendingNew ==
  \A c \in Conn : req[c].kind = "chat" =>
    /\ req[c].line \in 1..lines
    /\ \A d \in Conn :
         /\ ~Reached(d, req[c].line)
         /\ frame[d].msg = ChatText => req[c].line \notin frame[d].ids
         /\ req[d].kind = "chat" /\ req[d].line = req[c].line => d = c

(* The line being pushed comes after all others wherever it has arrived,   *)
(* and has not arrived where it is still to be sent.                       *)
CurrentLast ==
  \A h \in Conn : frame[h].msg = ChatText => \A n \in frame[h].ids :
    /\ \A m \in todo[h] : ~Reached(m.sock, n)
    /\ \A c \in Conn, a \in Nat : ~Precedes(c, n, a)

OneOrder ==
  \A c, d \in Conn, a, b \in Nat : Precedes(c, a, b) => ~Precedes(d, b, a)

OrderInv == LaunchInv /\ LinesWhole /\ LinesKnown /\ PendingNew /\ CurrentLast /\ OneOrder

LEMMA LineChunk ==
  ASSUME NEW f \in Chunk, f.msg = ChatText, f.part = "payload", NEW n, f.ids = {n}
  PROVE  f = Line(n)
BY DEF Chunk, Line, Payload, OtherReply, JoinReply, ChatText

LEMMA PrecedesReached ==
  ASSUME NEW c, NEW a, NEW b, Precedes(c, a, b)
  PROVE  Reached(c, a) /\ Reached(c, b)
BY DEF Precedes, Reached, Before, Shows, OnWay

(* What a step can do to the lines on a stream: take some away, ... *)
Fewer(d) ==
  /\ \A n \in Nat : Reached(d, n)' => Reached(d, n)
  /\ \A a, b \in Nat : Precedes(d, a, b)' => Precedes(d, a, b)

(* ... or add one after the others. *)
Later(d, k) ==
  /\ \A n \in Nat : Reached(d, n)' => Reached(d, n) \/ k = Line(n)
  /\ \A a, b \in Nat :
       Precedes(d, a, b)' => Precedes(d, a, b) \/ (Reached(d, a) /\ k = Line(b))

LEMMA SameLines ==
  ASSUME NEW d, wire'[d] = wire[d], shown'[d] = shown[d]
  PROVE  Fewer(d)
BY DEF Fewer, Reached, Precedes, Before, Shows, OnWay

LEMMA NoLines ==
  ASSUME NEW d, wire'[d] = <<>>, shown'[d] = <<>>
  PROVE  Fewer(d)
BY DEF Fewer, Reached, Precedes, Before, Shows, OnWay

LEMMA MoreLines ==
  ASSUME NEW d, wire[d] \in Seq(Chunk), NEW k \in Chunk,
         wire'[d] = Append(wire[d], k), shown'[d] = shown[d]
  PROVE  Later(d, k)
<1>1. \A i \in DOMAIN wire'[d] :
        \/ i \in DOMAIN wire[d] /\ wire'[d][i] = wire[d][i]
        \/ i = Len(wire[d]) + 1 /\ wire'[d][i] = k
  OBVIOUS
<1>2. \A n \in Nat : Shows(d, n)' <=> Shows(d, n)
  BY DEF Shows
<1>3. \A n \in Nat : OnWay(d, n)' => OnWay(d, n) \/ k = Line(n)
  BY <1>1 DEF OnWay
<1>4. \A a, b \in Nat : Before(d, a, b)' <=> Before(d, a, b)
  BY DEF Before
<1>5. ASSUME NEW a \in Nat, NEW b \in Nat,
             NEW i \in DOMAIN wire'[d], NEW j \in DOMAIN wire'[d],
             i < j, wire'[d][i] = Line(a), wire'[d][j] = Line(b)
      PROVE  Precedes(d, a, b) \/ (Reached(d, a) /\ k = Line(b))
  <2>1. i \in DOMAIN wire[d] /\ wire[d][i] = Line(a)
    BY <1>5
  <2>2. CASE j \in DOMAIN wire[d] /\ wire'[d][j] = wire[d][j]
    BY <1>5, <2>1, <2>2 DEF Precedes
  <2>3. CASE wire'[d][j] = k
    BY <1>5, <2>1, <2>3 DEF Reached, OnWay
  <2> QED
    BY <1>1, <2>2, <2>3
<1>6. ASSUME NEW a \in Nat, NEW b \in Nat, Precedes(d, a, b)'
      PROVE  Precedes(d, a, b) \/ (Reached(d, a) /\ k = Line(b))
  <2>1. CASE Before(d, a, b)'
    BY <1>4, <2>1 DEF Precedes
  <2>2. CASE Shows(d, a)' /\ OnWay(d, b)'
    BY <1>2, <1>3, <2>2 DEF Precedes, Reached
  <2>3. CASE \E i, j \in DOMAIN wire'[d] :
               i < j /\ wire'[d][i] = Line(a) /\ wire'[d][j] = Line(b)
    BY <1>5, <2>3
  <2> QED
    BY <1>6, <2>1, <2>2, <2>3 DEF Precedes, Line
<1> QED
  BY <1>2, <1>3, <1>6 DEF Later, Reached

(* Reading takes the first chunk off the stream; a line read is put behind *)
(* those shown, or lost.                                                   *)
LEMMA ReadLines ==
  ASSUME NEW d, wire[d] \in Seq(Chunk), wire[d] # <<>>, shown[d] \in Seq(Nat),
         wire'[d] = Tail(wire[d]),
         \/ shown'[d] = shown[d]
         \/ \E n \in Nat : wire[d][1] = Line(n) /\ shown'[d] = Append(shown[d], n)
  PROVE  Fewer(d)
<1>1. \A i \in DOMAIN wire'[d] : i + 1 \in DOMAIN wire[d] /\ wire'[d][i] = wire[d][i + 1]
  OBVIOUS
<1>2. 1 \in DOMAIN wire[d]
  OBVIOUS
<1>3. \A n \in Nat : OnWay(d, n)' => \E i \in DOMAIN wire[d] : 1 < i /\ wire[d][i] = Line(n)
  <2> SUFFICES ASSUME NEW n \in Nat, NEW i \in DOMAIN wire'[d], wire'[d][i] = Line(n)
               PROVE  \E j \in DOMAIN wire[d] : 1 < j /\ wire[d][j] = Line(n)
    BY DEF OnWay, Line
  <2>1. 1 < i + 1
    OBVIOUS
  <2> QED
    BY <1>1, <2>1
<1>4. ASSUME NEW a \in Nat, NEW b \in Nat,
             NEW i \in DOMAIN wire'[d], NEW j \in DOMAIN wire'[d],
             i < j, wire'[d][i] = Line(a), wire'[d][j] = Line(b)
      PROVE  Precedes(d, a, b)
  <2>1. i + 1 < j + 1
    BY <1>4
  <2> QED
    BY <1>1, <1>4, <2>1 DEF Precedes
<1>5. CASE shown'[d] = shown[d]
  <2>1. \A n \in Nat : Shows(d, n)' <=> Shows(d, n)
    BY <1>5 DEF Shows
  <2>2. \A a, b \in Nat : Before(d, a, b)' <=> Before(d, a, b)
    BY <1>5 DEF Before
  <2>3. \A a, b \in Nat : Precedes(d, a, b)' => Precedes(d, a, b)
    BY <1>3, <1>4, <2>1, <2>2 DEF Precedes, OnWay, Line
  <2> QED
    BY <1>3, <2>1, <2>3 DEF Fewer, Reached, OnWay
<1>6. ASSUME NEW n \in Nat, wire[d][1] = Line(n), shown'[d] = Append(shown[d], n)
      PROVE  Fewer(d)
  <2>1. \A i \in DOMAIN shown'[d] :
          \/ i \in DOMAIN shown[d] /\ shown'[d][i] = shown[d][i]
          \/ i = Len(shown[d]) + 1 /\ shown'[d][i] = n
    BY <1>6
  <2>2. \A m \in Nat : Shows(d, m)' => Shows(d, m) \/ m = n
    BY <2>1 DEF Shows
  <2>3. OnWay(d, n)
    BY <1>2, <1>6 DEF OnWay
  <2>4. ASSUME NEW a \in Nat, NEW b \in Nat, Before(d, a, b)'
        PROVE  Precedes(d, a, b)
    <3>1. PICK i \in DOMAIN shown'[d], j \in DOMAIN shown'[d] :
            i < j /\ shown'[d][i] = a /\ shown'[d][j] = b
      BY <2>4 DEF Before
    <3>2. i \in DOMAIN shown[d] /\ shown[d][i] = a
      BY <1>6, <3>1
    <3>3. CASE j \in DOMAIN shown[d] /\ shown'[d][j] = shown[d][j]
      BY <3>1, <3>2, <3>3 DEF Precedes, Before
    <3>4. CASE shown'[d][j] = n
      BY <2>3, <3>1, <3>2, <3>4 DEF Precedes, Shows
    <3> QED
      BY <2>1, <3>3, <3>4
  <2>5. ASSUME NEW a \in Nat, NEW b \in Nat, Shows(d, a)', OnWay(d, b)'
        PROVE  Precedes(d, a, b)
    <3>1. CASE Shows(d, a)
      BY <1>3, <2>5, <3>1 DEF Precedes, OnWay
    <3>2. CASE a = n
      BY <1>2, <1>3, <1>6, <2>5, <3>2 DEF Precedes
    <3> QED
      BY <2>2, <2>5, <3>1, <3>2
  <2>6. ASSUME NEW a \in Nat, NEW b \in Nat, Precedes(d, a, b)'
        PROVE  Precedes(d, a, b)
    <3>1. \/ Before(d, a, b)'
          \/ Shows(d, a)' /\ OnWay(d, b)'
          \/ \E i, j \in DOMAIN wire'[d] :
               i < j /\ wire'[d][i] = Line(a) /\ wire'[d][j] = Line(b)
      BY <2>6 DEF Precedes, Line
    <3> QED
      BY <1>4, <2>4, <2>5, <3>1
  <2>7. \A m \in Nat : Reached(d, m)' => Reached(d, m)
    BY <1>3, <2>2, <2>3 DEF Reached, OnWay
  <2> QED
    BY <2>6, <2>7 DEF Fewer
<1> QED
  BY <1>5, <1>6

LEMMA OtherChunk ==
  ASSUME NEW d, NEW k, k.msg # ChatText \/ k.part # "payload", Later(d, k)
  PROVE  Fewer(d)
<1>1. \A n \in Nat : k # Line(n)
  BY DEF Line, Payload
<1> QED
  BY <1>1 DEF Later, Fewer

LEMMA LaunchersTakeLines ==
  ASSUME OrderInv, NEW c \in Conn,
         \/ \E p \in Port : Connect(c, p)
         \/ \E name \in Name : AskToJoin(c, name)
         \/ Say(c) \/ Leave(c) \/ GiveUp(c)
         \/ ReadWhileJoining(c) \/ ReadInRoom(c) \/ ReadOtherwise(c)
  PROVE  \A d \in Conn : Fewer(d)
<1>0. /\ wire \in [Conn -> Seq(Chunk)] /\ shown \in [Conn -> Seq(Nat)] /\ LinesWhole
  BY LaunchShapes DEF OrderInv, LinesKnown
<1>1. CASE \/ \E p \in Port : Connect(c, p)
           \/ \E name \in Name : AskToJoin(c, name)
           \/ Say(c) \/ GiveUp(c)
  <2>1. wire' = wire /\ shown' = shown
    BY <1>1 DEF Connect, Accept, AskToJoin, Say, SendRequest, GiveUp, outVars, vars
  <2> QED
    BY <2>1, SameLines
<1>2. CASE Leave(c)
  <2>1. /\ wire' = [wire EXCEPT ![c] = <<>>] /\ shown' = [shown EXCEPT ![c] = <<>>]
    BY <1>2 DEF Leave, PeerClose, Forget
  <2>2. wire'[c] = <<>> /\ shown'[c] = <<>>
    BY <1>0, <2>1
  <2>3. \A d \in Conn : d # c => wire'[d] = wire[d] /\ shown'[d] = shown[d]
    BY <1>0, <2>1
  <2> QED
    BY <2>2, <2>3, NoLines, SameLines
<1>3. CASE ReadWhileJoining(c) \/ ReadInRoom(c) \/ ReadOtherwise(c)
  <2>1. wire[c] # <<>> /\ wire' = [wire EXCEPT ![c] = Tail(wire[c])]
    BY <1>3 DEF ReadWhileJoining, ReadInRoom, ReadOtherwise, ClientRead
  <2> DEFINE f == Head(wire[c])
  <2>2. f = wire[c][1] /\ 1 \in DOMAIN wire[c] /\ f \in Chunk
    BY <1>0, <2>1
  <2>3. \/ shown' = shown
        \/ /\ f.part = "payload" /\ f.msg = ChatText
           /\ shown' = [shown EXCEPT ![c] = Append(shown[c], LineOf(f))]
    BY <1>3 DEF ReadWhileJoining, ReadInRoom, ReadOtherwise, viewVars, Displays
  <2> HIDE DEF f
  <2>4. f.msg = ChatText => \E n \in Nat : f.ids = {n} /\ LineOf(f) = n
    <3>1. f.msg = ChatText => \E n \in 1..lines : f.ids = {n}
      BY <1>0, <2>2 DEF LinesWhole
    <3> QED
      BY <3>1 DEF LineOf
  <2>5. \/ shown'[c] = shown[c]
        \/ \E n \in Nat : wire[c][1] = Line(n) /\ shown'[c] = Append(shown[c], n)
    BY <1>0, <2>2, <2>3, <2>4, LineChunk
  <2>6. \A d \in Conn : d # c => wire'[d] = wire[d] /\ shown'[d] = shown[d]
    BY <1>0, <2>1, <2>3
  <2>7. Fewer(c)
    BY <1>0, <2>1, <2>5, ReadLines
  <2> QED
    BY <2>6, <2>7, SameLines
<1> QED
  BY <1>1, <1>2, <1>3

(* Of a thread's steps only the payload of a chat frame brings a line. *)
Brings(c) ==
  /\ SendPayload(c) /\ frame[c].msg = ChatText
  /\ \E t \in Conn : /\ t = Target(c) /\ Later(t, Payload(frame[c]))
                     /\ \A d \in Conn : d # t => Fewer(d)

LEMMA ThreadsBringLines ==
  ASSUME OrderInv, NEW c \in Conn, ServerStep(c)
  PROVE  (\A d \in Conn : Fewer(d)) \/ Brings(c)
<1>0. /\ wire \in [Conn -> Seq(Chunk)] /\ shown \in [Conn -> Seq(Nat)] /\ fresh \in [Conn -> Nat]
      /\ LaunchInv /\ ServiceInv
  BY LaunchShapes DEF OrderInv, LinesKnown, LaunchInv
<1>1. CASE CloseSocket(c)
  <2>1. /\ wire' = [wire EXCEPT ![c] = <<>>] /\ shown' = [shown EXCEPT ![c] = <<>>]
    BY <1>0, <1>1, ThreadViews DEF CloseSocket, Forget
  <2>2. wire'[c] = <<>> /\ shown'[c] = <<>>
    BY <1>0, <2>1
  <2>3. \A d \in Conn : d # c => wire'[d] = wire[d] /\ shown'[d] = shown[d]
    BY <1>0, <2>1
  <2> QED
    BY <2>2, <2>3, NoLines, SameLines
<1>2. shown' = shown \/ CloseSocket(c)
  BY <1>0, ThreadViews
<1>3. ASSUME NEW e \in Conn, NEW k \in Chunk, Deliver(e, k), shown' = shown
      PROVE  /\ \A d \in Conn : d # e => Fewer(d)
             /\ Later(e, k) \/ Fewer(e)
  <2>1. \A d \in Conn : d # e => wire'[d] = wire[d]
    BY <1>0, <1>3 DEF Deliver
  <2>2. wire'[e] = wire[e] \/ wire'[e] = Append(wire[e], k)
    BY <1>0, <1>3 DEF Deliver
  <2>3. wire[e] \in Seq(Chunk)
    BY <1>0
  <2> QED
    BY <1>3, <2>1, <2>2, <2>3, SameLines, MoreLines
<1>4. ASSUME NEW e \in Conn, NEW k \in Chunk, Deliver(e, k), shown' = shown,
             k.msg # ChatText \/ k.part # "payload"
      PROVE  \A d \in Conn : Fewer(d)
  BY <1>3, <1>4, OtherChunk
<1>5. CASE SendReply(c)
  <2>1. PICK k \in Chunk : Deliver(c, k) /\ k.part = "whole"
    <3>1. /\ Admission(c) \in Chunk /\ Whole(OtherReply, {}) \in Chunk
          /\ Whole(JoinReply, {}) \in Chunk
          /\ Admission(c).part = "whole" /\ Whole(OtherReply, {}).part = "whole"
          /\ Whole(JoinReply, {}).part = "whole"
      BY <1>0 DEF Admission, Whole, Chunk
    <3> QED
      BY <1>5, <3>1 DEF SendReply
  <2>2. shown' = shown
    BY <1>0, <1>2, <1>5 DEF SendReply, CloseSocket
  <2> QED
    BY <1>4, <2>1, <2>2
<1>6. CASE SendHeader(c)
  <2>1. PICK t \in Conn :
          /\ Header(frame[c]) \in Chunk /\ Header(frame[c]).part = "header"
          /\ Deliver(t, Header(frame[c]))
    BY <1>0, <1>6, Shapes, FrameChunks, PushTarget DEF SendHeader, Header, ServiceInv
  <2>2. shown' = shown
    BY <1>2, <1>6 DEF SendHeader, Pushing, CloseSocket
  <2> QED
    BY <1>4, <2>1, <2>2
<1>7. CASE SendPayload(c)
  <2>1. PICK t \in Conn :
          /\ Payload(frame[c]) \in Chunk /\ Payload(frame[c]).msg = frame[c].msg
          /\ t = Target(c) /\ Deliver(t, Payload(frame[c]))
    BY <1>0, <1>7, Shapes, FrameChunks, PushTarget DEF SendPayload, Payload, ServiceInv
  <2>2. shown' = shown
    BY <1>2, <1>7 DEF SendPayload, Pushing, CloseSocket
  <2>3. CASE frame[c].msg # ChatText
    BY <1>4, <2>1, <2>2, <2>3
  <2>4. CASE frame[c].msg = ChatText
    <3>1. /\ \A d \in Conn : d # t => Fewer(d)
          /\ Later(t, Payload(frame[c])) \/ Fewer(t)
      BY <1>3, <2>1, <2>2
    <3> QED
      BY <1>7, <2>1, <2>4, <3>1 DEF Brings
  <2> QED
    BY <2>3, <2>4
<1>8. CASE ~CloseSocket(c) /\ ~SendReply(c) /\ ~SendHeader(c) /\ ~SendPayload(c)
  <2>1. wire' = wire /\ shown' = shown
    BY <1>2, <1>8 DEF ServerStep, Thread, ServeOther, RefuseJoin, AdmitJoin, RoomJoin, BeginRoster,
       BeginChat, BeginLeave, EndPush, outVars
  <2> QED
    BY <2>1, SameLines
<1> QED
  BY <1>1, <1>5, <1>6, <1>7, <1>8

(* How the lines under way change: a chat frame is pushed on or begun, a   *)
(* chat request waits on or is sent, and counts as the newest line.        *)
LEMMA FramesMove ==
  ASSUME OrderInv, [ChatNext]_chatVars, NEW d \in Conn, frame'[d].msg = ChatText
  PROVE  \/ /\ frame'[d] = frame[d] /\ pc[d] = "push" /\ pc'[d] = "push"
            /\ todo'[d] \subseteq todo[d]
         \/ BeginChat(d)
<1>0. /\ pc \in [Conn -> Status] /\ frame \in [Conn -> Frame] /\ todo \in [Conn -> SUBSET Member]
      /\ LaunchInv /\ TypeInv
      /\ frame[d].msg = ChatText => pc[d] = "push"
  BY LaunchShapes, Shapes DEF OrderInv, LaunchInv, ServiceInv, SeatInv, LinesWhole
<1>1. [Next]_vars
  BY <1>0, ChatStepIsStep
<1>2. ASSUME NEW c \in Conn, NEW p \in Port, Accept(c, p)
      PROVE  frame'[d] = frame[d] /\ todo'[d] = todo[d] /\ (pc[d] = "push" => pc'[d] = "push")
  BY <1>0, <1>2 DEF Accept, pushVars
<1>3. ASSUME NEW c \in Conn, Client(c)
      PROVE  frame'[d] = frame[d] /\ todo'[d] = todo[d] /\ pc'[d] = pc[d]
  BY <1>3 DEF Client, SendRequest, ClientRead, PeerClose, pushVars
<1>4. ASSUME NEW c \in Conn, Thread(c), c # d
      PROVE  frame'[d] = frame[d] /\ todo'[d] = todo[d] /\ pc'[d] = pc[d]
  BY <1>0, <1>4 DEF Thread, ServeOther, RefuseJoin, AdmitJoin, RoomJoin, SendReply,
     BeginRoster, BeginChat, BeginLeave, BeginPush, SendHeader, SendPayload, NextTarget, EndPush,
     CloseSocket, pushVars
<1>5. ASSUME Thread(d), ~BeginChat(d)
      PROVE  frame'[d] = frame[d] /\ pc'[d] = "push" /\ todo'[d] \subseteq todo[d]
  <2>1. CASE ServeOther(d) \/ RefuseJoin(d) \/ AdmitJoin(d) \/ RoomJoin(d) \/ SendReply(d)
             \/ CloseSocket(d)
    <3>1. frame' = frame /\ pc[d] # "push"
      BY <2>1 DEF ServeOther, RefuseJoin, AdmitJoin, RoomJoin, SendReply, CloseSocket, Take, pushVars
    <3> QED
      BY <1>0, <3>1
  <2>2. CASE BeginRoster(d) \/ BeginLeave(d) \/ EndPush(d)
    <3>1. frame'[d].msg # ChatText
      BY <1>0, <2>2 DEF BeginRoster, BeginLeave, BeginPush, EndPush, NoFrame, ChatText, UserLeft,
         UsersHere
    <3> QED
      BY <3>1
  <2>3. CASE SendHeader(d) \/ SendPayload(d)
    <3>1. (pc' = pc /\ frame' = frame /\ todo' = todo) \/ NextTarget(d)
      BY <2>3 DEF SendHeader, SendPayload
    <3>2. CASE NextTarget(d)
      <4>1. CASE pc[d] = "pushRoster"
        BY <1>0, <3>2, <4>1 DEF NextTarget, ChatText, UserJoined
      <4>2. CASE pc[d] # "pushRoster"
        BY <1>0, <3>2, <4>2 DEF NextTarget
      <4> QED
        BY <4>1, <4>2
    <3> QED
      BY <1>0, <3>1, <3>2
  <2> QED
    BY <1>5, <2>1, <2>2, <2>3 DEF Thread
<1>6. CASE UNCHANGED vars
  BY <1>0, <1>6 DEF vars
<1> QED
  BY <1>0, <1>1, <1>2, <1>3, <1>4, <1>5, <1>6 DEF Next, AllGone

LEMMA AsksMove ==
  ASSUME OrderInv, [ChatNext]_chatVars
  PROVE  /\ lines \in Nat
         /\ \/ lines' = lines /\ \A d \in Conn : req'[d].kind = "chat" => req'[d] = req[d]
            \/ \E c \in Conn :
                 /\ Say(c) /\ lines' = lines + 1
                 /\ req'[c].line = lines + 1
                 /\ \A d \in Conn : d # c => req'[d] = req[d]
<1>0. req \in [Conn -> Request] /\ lines \in Nat /\ TypeInv
  BY LaunchShapes DEF OrderInv, LaunchInv, ServiceInv, SeatInv, TypeInv, TypeOK
<1>1. ASSUME NEW c \in Conn, NEW name \in Name, AskToJoin(c, name)
      PROVE  lines' = lines /\ \A d \in Conn : req'[d].kind = "chat" => req'[d] = req[d]
  BY <1>0, <1>1 DEF AskToJoin, SendRequest
<1>2. ASSUME NEW c \in Conn, Say(c)
      PROVE  /\ lines' = lines + 1
             /\ req'[c].line = lines + 1
             /\ \A d \in Conn : d # c => req'[d] = req[d]
  BY <1>0, <1>2 DEF Say, SendRequest
<1>3. ASSUME NEW c \in Conn, ServerStep(c)
      PROVE  lines' = lines /\ \A d \in Conn : req'[d].kind = "chat" => req'[d] = req[d]
  <2>1. lines' = lines
    BY <1>3 DEF ServerStep, Thread, ServeOther, RefuseJoin, AdmitJoin, RoomJoin, SendReply,
       BeginRoster, BeginChat, BeginLeave, SendHeader, SendPayload, EndPush, CloseSocket,
       clientVars, counters
  <2> QED
    BY <1>0, <1>3, <2>1, ThreadTakes DEF ServerStep, NoReq
<1>4. ASSUME NEW c \in Conn,
             \/ \E p \in Port : Connect(c, p)
             \/ Leave(c) \/ GiveUp(c) \/ ReadWhileJoining(c) \/ ReadInRoom(c) \/ ReadOtherwise(c)
      PROVE  req' = req /\ lines' = lines
  BY <1>4 DEF Connect, Accept, Leave, PeerClose, GiveUp, ReadWhileJoining, ReadInRoom,
     ReadOtherwise, ClientRead, clientVars, counters, vars
<1>5. CASE UNCHANGED vars
  BY <1>0, <1>5 DEF vars
<1> QED
  BY <1>0, <1>1, <1>2, <1>3, <1>4, <1>5 DEF ChatNext, chatVars, AllGone

(* What a stream carries besides replies comes from the frames. *)
LEMMA ChunksMove ==
  ASSUME LaunchInv, [ChatNext]_chatVars, NEW d \in Conn, NEW i \in DOMAIN wire'[d],
         wire'[d][i].msg \notin {OtherReply, JoinReply}
  PROVE  \/ \E j \in DOMAIN wire[d] : wire'[d][i] = wire[d][j]
         \/ \E h \in Conn : frame[h].msg = wire'[d][i].msg /\ frame[h].ids = wire'[d][i].ids
<1>0. /\ wire \in [Conn -> Seq(Chunk)] /\ frame \in [Conn -> Frame] /\ fresh \in [Conn -> Nat]
      /\ LaunchInv /\ TypeInv
  BY LaunchShapes, Shapes DEF LaunchInv, ServiceInv, SeatInv
<1>1. [Next]_vars
  BY <1>0, ChatStepIsStep
<1>2. ASSUME NEW c \in Conn, Client(c)
      PROVE  \E j \in DOMAIN wire[d] : wire'[d][i] = wire[d][j]
  <2>1. CASE wire' = wire
    BY <2>1
  <2>2. CASE PeerClose(c)
    <3>1. wire'[d] = wire[d] \/ wire'[d] = <<>>
      BY <1>0, <2>2 DEF PeerClose
    <3> QED
      BY <3>1
  <2>3. CASE ClientRead(c)
    <3>1. wire'[d] = wire[d] \/ (wire[d] # <<>> /\ wire'[d] = Tail(wire[d]))
      BY <1>0, <2>3 DEF ClientRead
    <3>2. wire[d] \in Seq(Chunk)
      BY <1>0
    <3>3. \/ i \in DOMAIN wire[d] /\ wire'[d][i] = wire[d][i]
          \/ i + 1 \in DOMAIN wire[d] /\ wire'[d][i] = wire[d][i + 1]
      <4>1. CASE wire'[d] = wire[d]
        BY <4>1
      <4>2. ASSUME wire[d] # <<>>, wire'[d] = Tail(wire[d])
            PROVE  i + 1 \in DOMAIN wire[d] /\ wire'[d][i] = wire[d][i + 1]
        <5>1. \A w \in Seq(Chunk) : w # <<>> =>
                \A j \in DOMAIN Tail(w) : j + 1 \in DOMAIN w /\ Tail(w)[j] = w[j + 1]
          OBVIOUS
        <5> QED
          BY <3>2, <4>2, <5>1
      <4> QED
        BY <3>1, <4>1, <4>2
    <3> QED
      BY <3>3
  <2> QED
    BY <1>2, <2>1, <2>2, <2>3 DEF Client, SendRequest, outVars
<1>3. ASSUME NEW e, NEW k \in Chunk, Deliver(e, k)
      PROVE  (\E j \in DOMAIN wire[d] : wire'[d][i] = wire[d][j]) \/ wire'[d][i] = k
  <2>1. wire'[d] = wire[d] \/ wire'[d] = Append(wire[d], k)
    BY <1>0, <1>3 DEF Deliver
  <2>2. wire[d] \in Seq(Chunk)
    BY <1>0
  <2>3. (i \in DOMAIN wire[d] /\ wire'[d][i] = wire[d][i]) \/ wire'[d][i] = k
    BY <2>1, <2>2
  <2> QED
    BY <2>3
<1>4. ASSUME NEW c \in Conn, Thread(c)
      PROVE  \/ \E j \in DOMAIN wire[d] : wire'[d][i] = wire[d][j]
             \/ \E h \in Conn : frame[h].msg = wire'[d][i].msg /\ frame[h].ids = wire'[d][i].ids
  <2>1. CASE CloseSocket(c)
    <3>1. wire'[d] = wire[d] \/ wire'[d] = <<>>
      BY <1>0, <2>1 DEF CloseSocket
    <3> QED
      BY <3>1
  <2>2. CASE SendReply(c)
    <3>1. PICK k \in Chunk : Deliver(c, k) /\ k.msg \in {OtherReply, JoinReply}
      <4>1. /\ Admission(c) \in Chunk /\ Whole(OtherReply, {}) \in Chunk
            /\ Whole(JoinReply, {}) \in Chunk
            /\ Admission(c).msg = JoinReply /\ Whole(OtherReply, {}).msg = OtherReply
            /\ Whole(JoinReply, {}).msg = JoinReply
        BY <1>0 DEF Admission, Whole, Chunk
      <4> QED
        BY <2>2, <4>1 DEF SendReply
    <3> QED
      BY <1>3, <3>1
  <2>3. CASE SendHeader(c) \/ SendPayload(c)
    <3>1. PICK k \in Chunk :
            Deliver(Target(c), k) /\ k.msg = frame[c].msg /\ k.ids = frame[c].ids
      <4>1. /\ Header(frame[c]) \in Chunk /\ Payload(frame[c]) \in Chunk
            /\ Header(frame[c]).msg = frame[c].msg /\ Header(frame[c]).ids = frame[c].ids
            /\ Payload(frame[c]).msg = frame[c].msg /\ Payload(frame[c]).ids = frame[c].ids
        BY <1>0, FrameChunks DEF Header, Payload
      <4> QED
        BY <2>3, <4>1 DEF SendHeader, SendPayload
    <3> QED
      BY <1>3, <3>1
  <2>4. CASE ~CloseSocket(c) /\ ~SendReply(c) /\ ~SendHeader(c) /\ ~SendPayload(c)
    <3>1. wire' = wire
      BY <1>4, <2>4 DEF Thread, ServeOther, RefuseJoin, AdmitJoin, RoomJoin, BeginRoster,
         BeginChat, BeginLeave, EndPush, outVars
    <3> QED
      BY <3>1
  <2> QED
    BY <2>1, <2>2, <2>3, <2>4
<1>5. CASE wire' = wire
  BY <1>5
<1> QED
  BY <1>1, <1>2, <1>4, <1>5 DEF Next, AllGone, vars, Accept, outVars

LEMMA StreamsMove ==
  ASSUME OrderInv, [ChatNext]_chatVars
  PROVE  (\A d \in Conn : Fewer(d)) \/ \E c \in Conn : ServerStep(c) /\ Brings(c)
<1>1. CASE UNCHANGED <<wire, shown>>
  BY <1>1, SameLines
<1>2. CASE AllGone /\ UNCHANGED viewVars
  BY <1>1, <1>2 DEF AllGone, vars, viewVars
<1>3. CASE UNCHANGED chatVars
  BY <1>1, <1>3 DEF chatVars, vars, viewVars
<1> QED
  BY <1>2, <1>3, LaunchersTakeLines, ThreadsBringLines DEF ChatNext

LEMMA ReachedKnown ==
  ASSUME OrderInv, NEW d \in Conn, NEW n, Reached(d, n)
  PROVE  n \in 1..lines
<1>1. CASE Shows(d, n)
  BY <1>1 DEF OrderInv, LinesKnown, Shows
<1>2. CASE OnWay(d, n)
  BY <1>2 DEF OrderInv, LinesWhole, OnWay, Line, Payload
<1> QED
  BY <1>1, <1>2 DEF Reached

(* The line a thread brings is the one in its frame; it goes to a member   *)
(* still to be sent it.                                                    *)
LEMMA BroughtLine ==
  ASSUME OrderInv, NEW c \in Conn, Brings(c)
  PROVE  /\ pc[c] = "push" /\ roomLock = c
         /\ \E n \in 1..lines : frame[c].ids = {n} /\ Payload(frame[c]) = Line(n)
         /\ \A n : Payload(frame[c]) = Line(n) => frame[c].ids = {n}
         /\ \E m \in todo[c] : m.sock = Target(c) /\ todo'[c] = todo[c] \ {m}
<1>0. /\ frame \in [Conn -> Frame] /\ todo \in [Conn -> SUBSET Member] /\ LinesWhole
      /\ \A d \in Conn : pc[d] \in {"pushRoster", "push", "leave"} <=> roomLock = d
  BY Shapes DEF OrderInv, LaunchInv, ServiceInv
<1>1. /\ frame[c].msg = ChatText /\ pc[c] = "push" /\ roomLock = c
      /\ \E n \in 1..lines : frame[c].ids = {n}
  BY <1>0 DEF Brings, LinesWhole
<1>2. \A n : frame[c].ids = {n} => Payload(frame[c]) = Line(n)
  BY <1>1 DEF Payload, Line
<1>3. \A n : Payload(frame[c]) = Line(n) => frame[c].ids = {n}
  BY DEF Payload, Line
<1>4. \E m \in todo[c] : m.sock = Target(c) /\ todo'[c] = todo[c] \ {m}
  <2>1. todo[c] # {} /\ NextTarget(c)
    BY <1>1 DEF Brings, SendPayload, Pushing
  <2>2. Oldest(todo[c]) \in todo[c]
    BY <1>0, <2>1, OldestIsMember
  <2>3. Target(c) = Oldest(todo[c]).sock /\ todo'[c] = todo[c] \ {Oldest(todo[c])}
    BY <1>0, <1>1, <2>1 DEF Target, NextTarget
  <2> QED
    BY <2>2, <2>3
<1> QED
  BY <1>1, <1>2, <1>3, <1>4

LEMMA WholeStep ==
  ASSUME OrderInv, [ChatNext]_chatVars
  PROVE  LinesWhole'
<1>0. /\ req \in [Conn -> Request] /\ pc \in [Conn -> Status] /\ frame \in [Conn -> Frame]
  BY LaunchShapes, Shapes DEF OrderInv, LaunchInv, ServiceInv
<1>1. lines \in Nat /\ lines' \in {lines, lines + 1}
  BY AsksMove
<1>2. \A n \in 1..lines : n \in 1..lines'
  BY <1>1
<1>3. ASSUME NEW c \in Conn, NEW i \in DOMAIN wire'[c], wire'[c][i].msg = ChatText
      PROVE  \E n \in 1..lines' : wire'[c][i].ids = {n}
  <2>1. \E n \in 1..lines : wire'[c][i].ids = {n}
    BY <1>3, ChunksMove DEF OrderInv, LinesWhole, ChatText, OtherReply, JoinReply
  <2> QED
    BY <1>2, <2>1
<1>4. ASSUME NEW c \in Conn, frame'[c].msg = ChatText
      PROVE  pc'[c] = "push" /\ \E n \in 1..lines' : frame'[c].ids = {n}
  <2>1. CASE frame'[c] = frame[c] /\ pc'[c] = "push"
    BY <1>2, <1>4, <2>1 DEF OrderInv, LinesWhole
  <2>2. CASE BeginChat(c)
    <3>1. /\ pc'[c] = "push" /\ frame'[c].ids = {req[c].line} /\ req[c].kind = "chat"
      BY <1>0, <2>2 DEF BeginChat, BeginPush, Take
    <3>2. req[c].line \in 1..lines
      BY <3>1 DEF OrderInv, PendingNew
    <3> QED
      BY <1>2, <3>1, <3>2
  <2> QED
    BY <1>4, <2>1, <2>2, FramesMove
<1> QED
  BY <1>3, <1>4 DEF LinesWhole

LEMMA KnownStep ==
  ASSUME OrderInv, [ChatNext]_chatVars
  PROVE  LinesKnown'
<1>0. /\ shown \in [Conn -> Seq(Nat)] /\ wire \in [Conn -> Seq(Chunk)] /\ LaunchInv
  BY LaunchShapes DEF OrderInv, LinesKnown
<1>1. lines \in Nat /\ lines' \in {lines, lines + 1}
  BY AsksMove
<1>2. shown' \in [Conn -> Seq(Nat)]
  <2>1. ASSUME NEW c \in Conn, ReadInRoom(c)
        PROVE  shown' \in [Conn -> Seq(Nat)]
    <3> DEFINE f == Head(wire[c])
    <3>1. f = wire[c][1] /\ 1 \in DOMAIN wire[c]
      BY <1>0, <2>1 DEF ReadInRoom, ClientRead
    <3>2. shown' = shown \/ (f.msg = ChatText /\ shown' = [shown EXCEPT ![c] = Append(@, LineOf(f))])
      BY <2>1 DEF ReadInRoom, Displays
    <3> HIDE DEF f
    <3>3. f.msg = ChatText => LineOf(f) \in Nat
      <4>1. f.msg = ChatText => \E n \in 1..lines : f.ids = {n}
        BY <3>1 DEF OrderInv, LinesWhole
      <4> QED
        BY <4>1 DEF LineOf
    <3>4. shown' = shown \/ \E v \in Seq(Nat) : shown' = [shown EXCEPT ![c] = v]
      <4>1. LineOf(f) \in Nat => Append(shown[c], LineOf(f)) \in Seq(Nat)
        BY <1>0
      <4> QED
        BY <3>2, <3>3, <4>1
    <3> QED
      BY <1>0, <3>4
  <2>2. ASSUME NEW c \in Conn, shown' = shown \/ shown' = [shown EXCEPT ![c] = <<>>]
        PROVE  shown' \in [Conn -> Seq(Nat)]
    <3>1. <<>> \in Seq(Nat)
      OBVIOUS
    <3> QED
      BY <1>0, <2>2, <3>1
  <2>3. ASSUME NEW c \in Conn,
               \/ \E p \in Port : Connect(c, p)
               \/ \E name \in Name : AskToJoin(c, name)
               \/ Say(c) \/ GiveUp(c) \/ ReadWhileJoining(c) \/ ReadOtherwise(c)
        PROVE  shown' = shown
    BY <2>3 DEF Connect, AskToJoin, Say, GiveUp, ReadWhileJoining, ReadOtherwise, viewVars
  <2>4. ASSUME NEW c \in Conn, Leave(c) \/ ServerStep(c)
        PROVE  shown' = shown \/ shown' = [shown EXCEPT ![c] = <<>>]
    BY <2>4 DEF Leave, ServerStep, Forget
  <2> QED
    BY <1>0, <2>1, <2>2, <2>3, <2>4 DEF ChatNext, chatVars, viewVars
<1>3. ASSUME NEW d \in Conn, NEW i \in DOMAIN shown'[d]
      PROVE  shown'[d][i] \in 1..lines'
  <2>0. shown'[d] \in Seq(Nat)
    BY <1>2
  <2>1. PICK n \in Nat : n = shown'[d][i]
    BY <2>0
  <2>2. Reached(d, n)'
    BY <2>1 DEF Reached, Shows
  <2>3. n \in 1..lines
    <3>1. CASE \A e \in Conn : Fewer(e)
      BY <2>2, <3>1, ReachedKnown DEF Fewer
    <3>2. ASSUME NEW c \in Conn, Brings(c)
          PROVE  n \in 1..lines
      <4>1. Reached(d, n) \/ Payload(frame[c]) = Line(n)
        BY <2>2, <3>2 DEF Brings, Fewer, Later
      <4>2. Payload(frame[c]) = Line(n) => n \in 1..lines
        BY <3>2, BroughtLine
      <4> QED
        BY <4>1, <4>2, ReachedKnown
    <3> QED
      BY <3>1, <3>2, StreamsMove
  <2> QED
    BY <1>1, <2>1, <2>3
<1> QED
  BY <1>2, <1>3 DEF LinesKnown

(* A line in nobody's frame reaches nobody. *)
LEMMA StaysAway ==
  ASSUME OrderInv, [ChatNext]_chatVars, NEW n \in Nat, NEW d \in Conn, ~Reached(d, n),
         \A h \in Conn : frame[h].msg = ChatText => n \notin frame[h].ids
  PROVE  ~Reached(d, n)'
<1>1. CASE \A e \in Conn : Fewer(e)
  BY <1>1 DEF Fewer
<1>2. ASSUME NEW c \in Conn, Brings(c)
      PROVE  ~Reached(d, n)'
  <2>1. Reached(d, n)' => Reached(d, n) \/ Payload(frame[c]) = Line(n)
    BY <1>2 DEF Brings, Fewer, Later
  <2>2. Payload(frame[c]) = Line(n) => n \in frame[c].ids /\ frame[c].msg = ChatText
    BY <1>2, BroughtLine DEF Brings
  <2> QED
    BY <2>1, <2>2
<1> QED
  BY <1>1, <1>2, StreamsMove

LEMMA PendingStep ==
  ASSUME OrderInv, [ChatNext]_chatVars
  PROVE  PendingNew'
<1>0. /\ req \in [Conn -> Request] /\ frame \in [Conn -> Frame] /\ LinesWhole /\ PendingNew
      /\ lines \in Nat
  BY LaunchShapes, Shapes, AsksMove DEF OrderInv, LaunchInv, ServiceInv
<1>1. ASSUME NEW d \in Conn, BeginChat(d)
      PROVE  /\ req[d].kind = "chat" /\ frame'[d].ids = {req[d].line}
             /\ req'[d].kind # "chat"
  BY <1>0, <1>1 DEF BeginChat, BeginPush, Take, NoReq
<1>2. ASSUME NEW c \in Conn, req'[c].kind = "chat", req'[c] = req[c]
      PROVE  /\ req'[c].line \in 1..lines
             /\ \A d \in Conn :
                  /\ ~Reached(d, req[c].line)'
                  /\ frame'[d].msg = ChatText => req[c].line \notin frame'[d].ids
  <2>1. PICK n \in Nat : n = req[c].line /\ n \in 1..lines
    BY <1>0, <1>2 DEF PendingNew
  <2>2. ASSUME NEW d \in Conn
        PROVE  /\ ~Reached(d, n)
               /\ frame[d].msg = ChatText => n \notin frame[d].ids
               /\ req[d].kind = "chat" /\ req[d].line = n => d = c
    BY <1>0, <1>2, <2>1 DEF PendingNew
  <2>3. \A d \in Conn : ~Reached(d, n)'
    BY <2>2, StaysAway
  <2>4. ASSUME NEW d \in Conn, frame'[d].msg = ChatText
        PROVE  n \notin frame'[d].ids
    BY <1>1, <1>2, <2>2, <2>4, FramesMove
  <2> QED
    BY <1>2, <2>1, <2>3, <2>4
<1>3. ASSUME NEW c \in Conn, Say(c), lines' = lines + 1, req'[c].line = lines + 1,
             \A d \in Conn : d # c => req'[d] = req[d]
      PROVE  PendingNew'
  <2>1. PICK n \in Nat : n = lines + 1
    BY <1>0
  <2>2. \A d \in Conn : ~Reached(d, n) /\ (frame[d].msg = ChatText => n \notin frame[d].ids)
    BY <1>0, <2>1, ReachedKnown DEF LinesWhole
  <2>3. \A d \in Conn : ~Reached(d, n)'
    BY <2>2, StaysAway
  <2>4. \A d \in Conn : req[d].kind = "chat" => req[d].line # n
    BY <1>0, <2>1 DEF PendingNew
  <2>5. ASSUME NEW d \in Conn, frame'[d].msg = ChatText
        PROVE  n \notin frame'[d].ids
    BY <1>1, <2>2, <2>4, <2>5, FramesMove
  <2>6. ASSUME NEW d \in Conn, req'[d].kind = "chat", d # c
        PROVE  /\ req'[d].line \in 1..lines' /\ req'[d].line # n
               /\ \A e \in Conn :
                    /\ ~Reached(e, req[d].line)'
                    /\ frame'[e].msg = ChatText => req'[d].line \notin frame'[e].ids
                    /\ req'[e].kind = "chat" /\ req'[e].line = req'[d].line => e = d
    <3>1. req'[d] = req[d]
      BY <1>3, <2>6
    <3>2. req'[d].line \in 1..lines' /\ req'[d].line # n
      BY <1>0, <1>3, <2>1, <2>6, <3>1, <1>2
    <3>3. \A e \in Conn : e # c => (req'[e].kind = "chat" /\ req'[e].line = req'[d].line => e = d)
      BY <1>0, <1>3, <2>6, <3>1 DEF PendingNew
    <3>4. \A e \in Conn : req'[e].kind = "chat" /\ req'[e].line = req'[d].line => e = d
      BY <1>3, <2>1, <3>2, <3>3
    <3> QED
      BY <1>2, <2>6, <3>1, <3>2, <3>4
  <2>7. /\ req'[c].line \in 1..lines' /\ req'[c].line = n
    BY <1>0, <1>3, <2>1
  <2>8. \A e \in Conn : ~Reached(e, req[c].line)'
    BY <2>3, <2>7
  <2> QED
    BY <2>5, <2>6, <2>7, <2>8 DEF PendingNew
<1>4. ASSUME lines' = lines, \A d \in Conn : req'[d].kind = "chat" => req'[d] = req[d]
      PROVE  PendingNew'
  <2>1. \A c, d \in Conn :
          req'[c].kind = "chat" /\ req'[d].kind = "chat" /\ req'[d].line = req'[c].line => d = c
    BY <1>0, <1>4 DEF PendingNew
  <2> QED
    BY <1>2, <1>4, <2>1 DEF PendingNew
<1> QED
  BY <1>3, <1>4, AsksMove

LEMMA CurrentStep ==
  ASSUME OrderInv, [ChatNext]_chatVars
  PROVE  CurrentLast'
<1> SUFFICES ASSUME NEW h \in Conn, frame'[h].msg = ChatText, NEW n \in frame'[h].ids
             PROVE  /\ \A m \in todo'[h] : ~Reached(m.sock, n)'
                    /\ \A c \in Conn, a \in Nat : ~Precedes(c, n, a)'
  BY DEF CurrentLast
<1>0. /\ req \in [Conn -> Request] /\ frame \in [Conn -> Frame] /\ todo \in [Conn -> SUBSET Member]
      /\ members \in [Port -> SUBSET Member] /\ port \in [Conn -> Port]
      /\ LinesWhole /\ PendingNew /\ CurrentLast /\ ServiceInv
      /\ \A d \in Conn : pc[d] \in {"pushRoster", "push", "leave"} <=> roomLock = d
      /\ \A m \in Member : m.sock \in Conn
  BY LaunchShapes, Shapes DEF OrderInv, LaunchInv, ServiceInv, Member
<1>1. CASE frame'[h] = frame[h] /\ pc[h] = "push" /\ todo'[h] \subseteq todo[h]
  <2>1. n \in Nat /\ (\A m \in todo[h] : ~Reached(m.sock, n))
                  /\ (\A c \in Conn, a \in Nat : ~Precedes(c, n, a))
    BY <1>0, <1>1 DEF LinesWhole, CurrentLast
  <2>2. \A m \in todo'[h] : m \in todo[h] /\ m.sock \in Conn
    BY <1>0, <1>1
  <2>3. CASE \A e \in Conn : Fewer(e)
    <3>1. \A d \in Conn : ~Reached(d, n) => ~Reached(d, n)'
      BY <2>1, <2>3 DEF Fewer
    <3>2. \A c \in Conn, a \in Nat : ~Precedes(c, n, a)'
      BY <2>1, <2>3 DEF Fewer
    <3> QED
      BY <2>1, <2>2, <3>1, <3>2
  <2>4. ASSUME NEW c \in Conn, Brings(c)
        PROVE  /\ \A m \in todo'[h] : ~Reached(m.sock, n)'
               /\ \A d \in Conn, a \in Nat : ~Precedes(d, n, a)'
    <3>1. c = h
      BY <1>0, <1>1, <2>4, BroughtLine
    <3>2. PICK g \in todo[h] : g.sock = Target(h) /\ todo'[h] = todo[h] \ {g}
      BY <2>4, <3>1, BroughtLine
    <3>3. PICK t \in Conn : /\ t = g.sock /\ Later(t, Payload(frame[h]))
                            /\ \A d \in Conn : d # t => Fewer(d)
      BY <2>4, <3>1, <3>2 DEF Brings
    <3>4. \A m \in todo'[h] : m.sock # t
      <4>1. todo[h] \subseteq Room(h)
        BY <1>0, <1>1 DEF ServiceInv, Manners, AudienceSeated
      <4>2. \A m \in Room(h) : port[m.sock] = port[h]
        BY <1>0, Shapes DEF ServiceInv, Room
      <4>3. \A m \in todo[h] : m.sock = t => m = g
        BY <1>0, <3>2, <3>3, <4>1, <4>2 DEF ServiceInv, SeatInv, OneSeat, OnSocket, Room
      <4> QED
        BY <3>2, <4>3
    <3>5. \A d \in Conn : d # t /\ ~Reached(d, n) => ~Reached(d, n)'
      BY <2>1, <3>3 DEF Fewer
    <3>6. ~Reached(t, n)
      BY <2>1, <3>2, <3>3
    <3>7. \A d \in Conn, a \in Nat : ~Precedes(d, n, a)'
      BY <2>1, <3>3, <3>6 DEF Fewer, Later
    <3> QED
      BY <2>1, <2>2, <3>4, <3>5, <3>7
  <2> QED
    BY <2>3, <2>4, StreamsMove
<1>2. CASE BeginChat(h)
  <2>1. /\ req[h].kind = "chat" /\ n = req[h].line
        /\ todo'[h] \subseteq Member
    BY <1>0, <1>2 DEF BeginChat, BeginPush, ChatAudience, Room, Take
  <2>2. n \in Nat
    BY <1>0, <2>1 DEF PendingNew
  <2>3. \A d \in Conn : ~Reached(d, n) /\ (frame[d].msg = ChatText => n \notin frame[d].ids)
    BY <1>0, <2>1 DEF PendingNew
  <2>4. \A d \in Conn : ~Reached(d, n)'
    BY <2>2, <2>3, StaysAway
  <2>5. ASSUME NEW d \in Conn, NEW a \in Nat
        PROVE  ~Precedes(d, n, a)'
    <3>1. Precedes(d, n, a)' => Reached(d, n)'
      BY DEF Precedes, Before, Shows, OnWay, Reached
    <3> QED
      BY <2>4, <3>1
  <2> QED
    BY <1>0, <2>1, <2>4, <2>5
<1> QED
  BY <1>1, <1>2, FramesMove

LEMMA OneOrderStep ==
  ASSUME OrderInv, [ChatNext]_chatVars
  PROVE  OneOrder'
<1> SUFFICES ASSUME NEW c \in Conn, NEW d \in Conn, NEW a \in Nat, NEW b \in Nat,
                    Precedes(c, a, b)', Precedes(d, b, a)'
             PROVE  FALSE
  BY DEF OneOrder
<1>0. /\ CurrentLast /\ OneOrder
      /\ todo \in [Conn -> SUBSET Member]
  BY Shapes DEF OrderInv, LaunchInv, ServiceInv
<1>1. CASE \A e \in Conn : Fewer(e)
  BY <1>0, <1>1 DEF Fewer, OneOrder
<1>2. ASSUME NEW h \in Conn, Brings(h)
      PROVE  FALSE
  <2>1. PICK n \in 1..lines : frame[h].ids = {n} /\ frame[h].msg = ChatText
    BY <1>2, BroughtLine DEF Brings
  <2>2. PICK t \in Conn : /\ t = Target(h) /\ Later(t, Payload(frame[h]))
                          /\ \A e \in Conn : e # t => Fewer(e)
    BY <1>2 DEF Brings
  <2>3. \A m \in Nat : Payload(frame[h]) = Line(m) => m = n
    BY <1>2, <2>1, BroughtLine
  <2>4. ~Reached(t, n) /\ \A e \in Conn, m \in Nat : ~Precedes(e, n, m)
    BY <1>0, <1>2, <2>1, <2>2, BroughtLine DEF CurrentLast
  <2>5. Precedes(c, a, b) \/ (c = t /\ b = n /\ Reached(t, a))
    BY <2>2, <2>3 DEF Fewer, Later
  <2>6. Precedes(d, b, a) \/ (d = t /\ a = n /\ Reached(t, b))
    BY <2>2, <2>3 DEF Fewer, Later
  <2> QED
    BY <1>0, <2>4, <2>5, <2>6 DEF OneOrder
<1> QED
  BY <1>1, <1>2, StreamsMove

LEMMA OrderInit == ChatInit => OrderInv
<1> SUFFICES ASSUME ChatInit PROVE OrderInv
  OBVIOUS
<1>1. LinesWhole /\ LinesKnown /\ PendingNew
  BY DEF ChatInit, Init, LinesWhole, LinesKnown, PendingNew, NoFrame, ChatText, UserLeft, NoReq
<1>2. \A c \in Conn, a, b \in Nat : ~Precedes(c, a, b)
  BY DEF ChatInit, Init, Precedes, Before, Shows, OnWay
<1>3. CurrentLast /\ OneOrder
  BY <1>2 DEF ChatInit, Init, CurrentLast, OneOrder, NoFrame, ChatText, UserLeft
<1> QED
  BY <1>1, <1>3, LaunchInit DEF OrderInv

LEMMA OrderInvariant == ChatSpec => []OrderInv
<1>1. OrderInv /\ [ChatNext]_chatVars => OrderInv'
  <2> SUFFICES ASSUME OrderInv, [ChatNext]_chatVars PROVE OrderInv'
    OBVIOUS
  <2>1. LaunchInv'
    BY LaunchStep DEF OrderInv
  <2> QED
    BY <2>1, WholeStep, KnownStep, PendingStep, CurrentStep, OneOrderStep DEF OrderInv
<1> QED
  BY <1>1, OrderInit, PTL DEF ChatSpec

(* All launchers see the conversation in one order: a line is broadcast    *)
(* under g_lock, so that it comes last on every stream it reaches.         *)
THEOREM LinesInOrder == ChatSpec => []SameOrder
<1>1. OrderInv => SameOrder
  BY DEF OrderInv, OneOrder, SameOrder, Precedes
<1> QED
  BY <1>1, OrderInvariant, PTL

-----------------------------------------------------------------------------
(* The user list.  Bags of ids, as the launcher keeps them. *)

LEMMA BagOfSet ==
  ASSUME NEW S
  PROVE  IsABag(SetToBag(S)) /\ BagToSet(SetToBag(S)) = S
BY DEF IsABag, SetToBag, BagToSet

LEMMA BagSum ==
  ASSUME NEW A, IsABag(A), NEW B, IsABag(B)
  PROVE  IsABag(A (+) B) /\ BagToSet(A (+) B) = BagToSet(A) \cup BagToSet(B)
<1>1. /\ \A e \in DOMAIN A : A[e] \in Nat /\ A[e] > 0
      /\ \A e \in DOMAIN B : B[e] \in Nat /\ B[e] > 0
  BY DEF IsABag
<1>2. \A e \in DOMAIN A \cup DOMAIN B :
        LET n == (IF e \in DOMAIN A THEN A[e] ELSE 0) + (IF e \in DOMAIN B THEN B[e] ELSE 0)
        IN  n \in Nat /\ n > 0
  BY <1>1
<1> QED
  BY <1>2 DEF IsABag, BagToSet, (+)

LEMMA BagLess ==
  ASSUME NEW A, IsABag(A), NEW S
  PROVE  /\ IsABag(A (-) SetToBag(S))
         /\ BagToSet(A) \ S \subseteq BagToSet(A (-) SetToBag(S))
<1>1. \A e \in DOMAIN A : A[e] \in Nat /\ A[e] > 0
  BY DEF IsABag
<1> DEFINE D == [e \in DOMAIN A |-> IF e \in S THEN A[e] - 1 ELSE A[e]]
           R == [e \in {d \in DOMAIN D : D[d] > 0} |-> D[e]]
<1>2. A (-) SetToBag(S) = R
  BY DEF (-), SetToBag
<1>3. /\ DOMAIN D = DOMAIN A
      /\ \A e \in DOMAIN D : D[e] \in Int
      /\ \A e \in DOMAIN A : e \notin S => D[e] > 0
  BY <1>1
<1> HIDE DEF D
<1>4. IsABag(R)
  BY <1>3 DEF IsABag
<1>5. BagToSet(A) \ S \subseteq BagToSet(R)
  BY <1>3 DEF BagToSet
<1> QED
  BY <1>2, <1>4, <1>5

(* The rows after a message. *)
LEMMA ListedRows ==
  ASSUME NEW c, IsABag(rows[c]), NEW f
  PROVE  /\ IsABag(Listed(c, f))
         /\ f.msg = UsersHere => BagToSet(Listed(c, f)) = {self[c]} \cup f.ids
         /\ f.msg = UserJoined => BagToSet(Listed(c, f)) = BagToSet(rows[c]) \cup f.ids
         /\ f.msg = UserLeft => BagToSet(rows[c]) \ f.ids \subseteq BagToSet(Listed(c, f))
         /\ f.msg \notin {UsersHere, UserJoined, UserLeft} => Listed(c, f) = rows[c]
<1>1. /\ IsABag(SetToBag({self[c]}) (+) SetToBag(f.ids))
      /\ BagToSet(SetToBag({self[c]}) (+) SetToBag(f.ids)) = {self[c]} \cup f.ids
  BY BagOfSet, BagSum
<1>2. /\ IsABag(rows[c] (+) SetToBag(f.ids))
      /\ BagToSet(rows[c] (+) SetToBag(f.ids)) = BagToSet(rows[c]) \cup f.ids
  BY BagOfSet, BagSum
<1>3. /\ IsABag(rows[c] (-) SetToBag(f.ids))
      /\ BagToSet(rows[c]) \ f.ids \subseteq BagToSet(rows[c] (-) SetToBag(f.ids))
  BY BagLess
<1> QED
  BY <1>1, <1>2, <1>3 DEF Listed, UsersHere, UserJoined, UserLeft

(* The ids the frames name have been handed out, and those of leavers are  *)
(* nobody's any more; what a connection has been told is as old.           *)
Retired(y) == y < nextId /\ \A p \in Port : \A m \in members[p] : m.id # y
Sound(f) ==
  /\ f.msg # ChatText => \A x \in f.ids : x < nextId
  /\ f.msg = UserLeft => \A y \in f.ids : Retired(y)
FramesSound == \A c \in Conn : Sound(frame[c])
LeaversGone ==
  \A c \in Conn : \A i \in DOMAIN wire[c] :
    wire[c][i].msg = UserLeft => \A y \in wire[c][i].ids : Retired(y)
ToldOld == \A c \in Conn : \A x \in told[c] : x < nextId

IdsInv == LaunchInv /\ FramesSound /\ LeaversGone /\ ToldOld

LEMMA IdsGrow ==
  ASSUME TypeInv, [Next]_vars
  PROVE  /\ nextId \in Nat /\ nextId' \in Nat /\ nextId <= nextId'
         /\ \A p \in Port : \A m \in members'[p] : m \in members[p] \/ m.id = nextId
<1>0. /\ nextId \in Nat /\ members \in [Port -> SUBSET Member] /\ port \in [Conn -> Port]
  BY DEF TypeInv, TypeOK
<1>1. CASE members' = members /\ nextId' = nextId
  BY <1>0, <1>1
<1>2. ASSUME NEW c \in Conn, NEW name \in Name, Joins(c, name)
      PROVE  /\ nextId' = nextId + 1
             /\ \A p \in Port : \A m \in members'[p] : m \in members[p] \/ m.id = nextId
  BY <1>0, <1>2 DEF Joins, NewMember, Room
<1>3. ASSUME NEW c \in Conn, Parts(c)
      PROVE  /\ nextId' = nextId
             /\ \A p \in Port : \A m \in members'[p] : m \in members[p]
  BY <1>0, <1>3 DEF Parts, Room
<1> QED
  BY <1>0, <1>1, <1>2, <1>3, MembersChange

LEMMA RetiredStays ==
  ASSUME TypeInv, [Next]_vars, NEW y \in Nat, Retired(y)
  PROVE  Retired(y)'
BY IdsGrow DEF Retired

LEMMA SoundStays ==
  ASSUME TypeInv, [Next]_vars, NEW f \in Frame, Sound(f)
  PROVE  Sound(f)'
<1>1. \A x \in f.ids : x \in Nat
  BY DEF Frame
<1>2. \A x \in f.ids : x < nextId => x < nextId'
  BY <1>1, IdsGrow
<1> QED
  BY <1>1, <1>2, RetiredStays DEF Sound

LEMMA FramesStep ==
  ASSUME IdsInv, [Next]_vars, ServiceInv'
  PROVE  FramesSound'
<1> SUFFICES ASSUME NEW d \in Conn PROVE Sound(frame[d])'
  BY DEF FramesSound
<1>0. /\ pc \in [Conn -> Status] /\ frame \in [Conn -> Frame] /\ port \in [Conn -> Port]
      /\ members \in [Port -> SUBSET Member]
      /\ ServiceInv /\ TypeInv /\ FramesSound
      /\ nextId \in Nat /\ \A m \in Room(d) : m.id < nextId /\ m.id \in Nat
  BY LaunchShapes, Shapes
  DEF IdsInv, LaunchInv, ServiceInv, SeatInv, TypeInv, IdsHandedOut, Room, Member
<1>1. CASE frame'[d] = frame[d]
  <2>1. PICK f \in Frame : f = frame[d]
    BY <1>0
  <2>2. Sound(f)'
    BY <1>0, <2>1, SoundStays DEF FramesSound
  <2> QED
    BY <1>1, <2>1, <2>2
<1>2. CASE frame'[d].msg = ChatText \/ frame'[d].ids = {}
  BY <1>2 DEF Sound, ChatText, UserLeft
<1>3. ASSUME NEW c \in Conn, Thread(c), c # d
      PROVE  frame'[d] = frame[d]
  BY <1>0, <1>3 DEF Thread, ServeOther, RefuseJoin, AdmitJoin, RoomJoin, SendReply,
     BeginRoster, BeginChat, BeginLeave, BeginPush, SendHeader, SendPayload, NextTarget, EndPush,
     CloseSocket, pushVars
<1>4. CASE BeginRoster(d)
  <2>1. /\ frame'[d] = [msg |-> UsersHere, ids |-> Ids(Others(d))]
        /\ nextId' = nextId
    BY <1>0, <1>4 DEF BeginRoster, BeginPush, roomVars
  <2>2. \A x \in frame'[d].ids : x < nextId'
    BY <1>0, <2>1 DEF Ids, Others
  <2> QED
    BY <2>1, <2>2 DEF Sound, UsersHere, UserLeft
<1>5. CASE BeginLeave(d)
  <2>1. /\ frame'[d] = [msg |-> UserLeft, ids |-> Ids(Departs(d))]
        /\ nextId' = nextId
        /\ members' = [members EXCEPT ![port[d]] = Room(d) \ Departs(d)]
    BY <1>0, <1>5 DEF BeginLeave, BeginPush
  <2>2. \A g \in Departs(d) : g \in Room(d)
    BY DEF Departs, OnSocket
  <2>3. ASSUME NEW g \in Departs(d), NEW p \in Port, NEW m \in members'[p]
        PROVE  m.id # g.id
    <3>1. m \in members[p] /\ m # g
      <4>1. CASE p = port[d]
        BY <1>0, <2>1, <2>3, <4>1 DEF Room
      <4>2. CASE p # port[d]
        <5>1. m \in members[p]
          BY <1>0, <2>1, <2>3, <4>2
        <5>2. port[m.sock] = p /\ port[g.sock] = port[d]
          BY <1>0, <2>2, <5>1, Shapes DEF ServiceInv, Room
        <5> QED
          BY <4>2, <5>1, <5>2
      <4> QED
        BY <4>1, <4>2
    <3> QED
      BY <1>0, <2>2, <3>1 DEF ServiceInv, UniqueIds, Room
  <2>4. \A x \in frame'[d].ids : \E g \in Departs(d) : x = g.id
    BY <2>1 DEF Ids
  <2>5. \A x \in frame'[d].ids : x < nextId'
    BY <1>0, <2>1, <2>2, <2>4
  <2>6. \A x \in frame'[d].ids : \A p \in Port : \A m \in members'[p] : m.id # x
    BY <2>3, <2>4
  <2> QED
    BY <2>5, <2>6 DEF Sound, Retired
<1>6. CASE SendHeader(d) \/ SendPayload(d)
  <2>1. (frame' = frame \/ NextTarget(d)) /\ nextId' = nextId
    BY <1>6 DEF SendHeader, SendPayload, roomVars
  <2>2. ASSUME NextTarget(d), pc[d] = "pushRoster"
        PROVE  Sound(frame[d])'
    <3> DEFINE g == Newest(OnSocket(Room(d), d))
    <3>1. g \in Room(d)
      BY <1>0, <2>2, NewcomerIsMember DEF OnSocket
    <3> HIDE DEF g
    <3>2. frame'[d] = [msg |-> UserJoined, ids |-> {g.id}]
      BY <1>0, <2>2 DEF NextTarget, g
    <3>3. \A x \in frame'[d].ids : x < nextId'
      BY <1>0, <2>1, <3>1, <3>2
    <3> QED
      BY <3>2, <3>3 DEF Sound, UserJoined, UserLeft
  <2>3. ASSUME NextTarget(d), pc[d] # "pushRoster"
        PROVE  frame' = frame
    BY <2>3 DEF NextTarget
  <2> QED
    BY <1>1, <2>1, <2>2, <2>3
<1>7. CASE Thread(d) /\ ~BeginRoster(d) /\ ~BeginLeave(d) /\ ~SendHeader(d) /\ ~SendPayload(d)
  <2>1. CASE BeginChat(d)
    BY <1>0, <1>2, <2>1 DEF BeginChat, BeginPush
  <2>2. CASE EndPush(d)
    BY <1>0, <1>2, <2>2 DEF EndPush, NoFrame
  <2>3. CASE ~BeginChat(d) /\ ~EndPush(d)
    BY <1>1, <1>7, <2>3 DEF Thread, ServeOther, RefuseJoin, AdmitJoin, RoomJoin, SendReply,
       CloseSocket, pushVars
  <2> QED
    BY <2>1, <2>2, <2>3
<1>8. ASSUME NEW c \in Conn, Client(c) \/ \E p \in Port : Accept(c, p)
      PROVE  frame'[d] = frame[d]
  BY <1>8 DEF Client, SendRequest, ClientRead, PeerClose, Accept, pushVars
<1> QED
  BY <1>1, <1>3, <1>4, <1>5, <1>6, <1>7, <1>8 DEF Next, AllGone, vars

(* What a step adds to what a connection was told is in a frame. *)
LEMMA ToldMove ==
  ASSUME TypeInv, [Next]_vars, NEW d \in Conn
  PROVE  \/ told'[d] \subseteq told[d]
         \/ \E c \in Conn : told'[d] = Heard(told[d], frame[c])
<1>0. told \in [Conn -> SUBSET Nat]
  BY DEF TypeInv, TypeOK
<1>1. ASSUME NEW c \in Conn, PeerClose(c) \/ CloseSocket(c)
      PROVE  told'[d] \subseteq told[d]
  BY <1>0, <1>1 DEF PeerClose, CloseSocket
<1>2. ASSUME NEW c \in Conn, SendPayload(c)
      PROVE  told'[d] = told[d] \/ told'[d] = Heard(told[d], frame[c])
  BY <1>0, <1>2 DEF SendPayload
<1>3. ASSUME NEW c \in Conn, ~PeerClose(c), ~CloseSocket(c), ~SendPayload(c),
             Client(c) \/ Thread(c) \/ \E p \in Port : Accept(c, p)
      PROVE  told' = told
  BY <1>3 DEF Client, SendRequest, ClientRead, Accept, Thread, ServeOther, RefuseJoin, AdmitJoin,
     RoomJoin, SendReply, BeginRoster, BeginChat, BeginLeave, SendHeader, EndPush, outVars
<1> QED
  BY <1>1, <1>2, <1>3 DEF Next, AllGone, vars

LEMMA HeardFrom ==
  ASSUME NEW ids, NEW f, NEW x \in Heard(ids, f)
  PROVE  x \in ids \/ (f.msg # ChatText /\ x \in f.ids)
<1>1. CASE f.msg = UsersHere
  BY <1>1 DEF Heard, UsersHere, ChatText
<1>2. CASE f.msg = UserJoined
  BY <1>2 DEF Heard, UsersHere, UserJoined, ChatText
<1>3. CASE f.msg \notin {UsersHere, UserJoined}
  BY <1>3 DEF Heard
<1> QED
  BY <1>1, <1>2, <1>3

LEMMA IdsInvStep ==
  ASSUME IdsInv, [ChatNext]_chatVars
  PROVE  IdsInv'
<1>0. /\ told \in [Conn -> SUBSET Nat] /\ wire \in [Conn -> Seq(Chunk)]
      /\ frame \in [Conn -> Frame] /\ TypeInv /\ LaunchInv
  BY LaunchShapes, Shapes DEF IdsInv, LaunchInv, ServiceInv, SeatInv
<1>1. [Next]_vars
  BY <1>0, ChatStepIsStep
<1>2. LaunchInv'
  BY <1>0, LaunchStep
<1>3. FramesSound'
  BY <1>1, <1>2, FramesStep DEF LaunchInv
<1>4. ToldOld'
  <2> SUFFICES ASSUME NEW d \in Conn, NEW x \in told'[d]
               PROVE  x < nextId'
    BY DEF ToldOld
  <2>1. x \in told[d] \/ \E c \in Conn : frame[c].msg # ChatText /\ x \in frame[c].ids
    <3>1. CASE told'[d] \subseteq told[d]
      BY <3>1
    <3>2. ASSUME NEW c \in Conn, told'[d] = Heard(told[d], frame[c])
          PROVE  x \in told[d] \/ (frame[c].msg # ChatText /\ x \in frame[c].ids)
      BY <3>2, HeardFrom
    <3> QED
      BY <1>0, <1>1, <3>1, <3>2, ToldMove
  <2>2. x < nextId /\ x \in Nat
    BY <1>0, <2>1 DEF IdsInv, ToldOld, FramesSound, Sound, Frame
  <2> QED
    BY <1>0, <1>1, <2>2, IdsGrow
<1>5. LeaversGone'
  <2> SUFFICES ASSUME NEW d \in Conn, NEW i \in DOMAIN wire'[d], wire'[d][i].msg = UserLeft,
                      NEW y \in wire'[d][i].ids
               PROVE  Retired(y)'
    BY DEF LeaversGone
  <2>1. \/ \E j \in DOMAIN wire[d] : wire'[d][i] = wire[d][j]
        \/ \E h \in Conn : frame[h].msg = UserLeft /\ frame[h].ids = wire'[d][i].ids
    <3>1. wire'[d][i].msg \notin {OtherReply, JoinReply}
      BY DEF UserLeft, OtherReply, JoinReply
    <3> QED
      BY <1>0, <3>1, ChunksMove
  <2>2. Retired(y)
    BY <2>1 DEF IdsInv, LeaversGone, FramesSound, Sound
  <2>3. y \in Nat
    <3>1. \A j \in DOMAIN wire[d] : wire[d][j].ids \subseteq Nat
      <4>1. wire[d] \in Seq(Chunk)
        BY <1>0
      <4>2. \A j \in DOMAIN wire[d] : wire[d][j] \in Chunk
        BY <4>1
      <4> QED
        BY <4>2 DEF Chunk
    <3> QED
      BY <1>0, <2>1, <3>1 DEF Frame
  <2> QED
    BY <1>0, <1>1, <2>2, <2>3, RetiredStays
<1> QED
  BY <1>2, <1>3, <1>4, <1>5 DEF IdsInv

-----------------------------------------------------------------------------
(* What a launcher has been told of, it has a row for or will have one     *)
(* when it has read its stream.                                            *)

Adds(k, x)   == k.part = "payload" /\ k.msg \in {UsersHere, UserJoined} /\ x \in k.ids
Resets(k, x) == k.part = "payload" /\ k.msg = UsersHere /\ x \notin k.ids
Keeps(w, n, x) == \A j \in DOMAIN w : n < j => ~Resets(w[j], x)
Has(c, x)    == phase[c] = "inRoom" /\ x \in BagToSet(rows[c]) /\ Keeps(wire[c], 0, x)
Gets(c, x)   == \E i \in DOMAIN wire[c] : Adds(wire[c][i], x) /\ Keeps(wire[c], i, x)
WillShow(c, x) == Has(c, x) \/ Gets(c, x)

RowsTyped == \A c \in Conn : IsABag(rows[c])
ToldShown ==
  \A c \in Conn : phase[c] \in {"waiting", "inRoom"} =>
    \A x \in told[c] \cap Ids(Room(c)) : WillShow(c, x)
SelfShown == \A c \in Conn : phase[c] = "inRoom" => self[c] \in BagToSet(rows[c])

RowsInv == IdsInv /\ RowsTyped /\ ToldShown /\ SelfShown

(* Something is written to the stream. *)
LEMMA WrittenShow ==
  ASSUME NEW d, NEW x, wire[d] \in Seq(Chunk), NEW k \in Chunk,
         wire'[d] = Append(wire[d], k), phase'[d] = phase[d], rows'[d] = rows[d],
         Adds(k, x) \/ (WillShow(d, x) /\ ~Resets(k, x))
  PROVE  WillShow(d, x)'
<1>1. /\ \A i \in DOMAIN wire[d] : i \in DOMAIN wire'[d] /\ wire'[d][i] = wire[d][i]
      /\ Len(wire[d]) + 1 \in DOMAIN wire'[d] /\ wire'[d][Len(wire[d]) + 1] = k
      /\ \A i \in DOMAIN wire'[d] : i \in DOMAIN wire[d] \/ i = Len(wire[d]) + 1
      /\ \A i \in DOMAIN wire'[d] : ~(Len(wire[d]) + 1 < i)
  OBVIOUS
<1>2. CASE Adds(k, x)
  BY <1>1, <1>2 DEF WillShow, Gets, Keeps, Adds
<1>3. CASE WillShow(d, x) /\ ~Resets(k, x)
  BY <1>1, <1>3 DEF WillShow, Has, Gets, Keeps, Adds, Resets
<1> QED
  BY <1>2, <1>3

(* The first message is read off it, and the rows follow. *)
LEMMA ReadShow ==
  ASSUME NEW d, NEW x, wire[d] \in Seq(Chunk), wire[d] # <<>>, wire'[d] = Tail(wire[d]),
         WillShow(d, x), phase'[d] = "inRoom",
         Has(d, x) /\ ~Resets(wire[d][1], x) => x \in BagToSet(rows'[d]),
         Adds(wire[d][1], x) => x \in BagToSet(rows'[d])
  PROVE  WillShow(d, x)'
<1>1. /\ \A i \in DOMAIN wire'[d] : i + 1 \in DOMAIN wire[d] /\ wire'[d][i] = wire[d][i + 1]
      /\ \A i \in DOMAIN wire[d] : i = 1 \/ (i - 1 \in DOMAIN wire'[d] /\ wire'[d][i - 1] = wire[d][i])
      /\ 1 \in DOMAIN wire[d] /\ DOMAIN wire[d] \subseteq Nat /\ DOMAIN wire'[d] \subseteq Nat
  OBVIOUS
<1>2. CASE Has(d, x)
  <2>1. Keeps(wire[d], 0, x)'
    BY <1>1, <1>2 DEF Has, Keeps, Resets
  <2>2. ~Resets(wire[d][1], x)
    BY <1>1, <1>2 DEF Has, Keeps
  <2> QED
    BY <1>2, <2>1, <2>2 DEF WillShow, Has
<1>3. ASSUME NEW i \in DOMAIN wire[d], Adds(wire[d][i], x), Keeps(wire[d], i, x)
      PROVE  WillShow(d, x)'
  <2>1. CASE i = 1
    <3>1. Keeps(wire[d], 0, x)'
      BY <1>1, <1>3, <2>1 DEF Keeps, Resets
    <3> QED
      BY <1>3, <2>1, <3>1 DEF WillShow, Has
  <2>2. CASE i # 1
    <3>1. PICK j \in DOMAIN wire'[d] : j = i - 1 /\ wire'[d][j] = wire[d][i]
      BY <1>1, <2>2
    <3>2. ASSUME NEW n \in DOMAIN wire'[d], j < n
          PROVE  ~Resets(wire'[d][n], x)
      <4>1. n + 1 \in DOMAIN wire[d] /\ wire'[d][n] = wire[d][n + 1]
        BY <1>1
      <4>2. i \in Nat /\ n \in Nat
        BY <1>1
      <4>3. i < n + 1
        BY <3>1, <3>2, <4>2
      <4> QED
        BY <1>3, <4>1, <4>3 DEF Keeps
    <3> QED
      BY <1>3, <3>1, <3>2 DEF WillShow, Gets, Keeps, Adds, Resets
  <2> QED
    BY <2>1, <2>2
<1> QED
  BY <1>2, <1>3 DEF WillShow, Gets

(* Who is in the room and was told of is not new there. *)
LEMMA DueBefore ==
  ASSUME IdsInv, [ChatNext]_chatVars, NEW d \in Conn, NEW x \in told[d], x \in Ids(Room(d))'
  PROVE  x \in Ids(Room(d))
<1>0. /\ port \in [Conn -> Port] /\ pc \in [Conn -> Status] /\ told \in [Conn -> SUBSET Nat]
      /\ TypeInv /\ LaunchInv /\ Launcher(d)
      /\ pc[d] = "none" => ~peerUp[d]
  BY LaunchShapes DEF IdsInv, LaunchInv, ServiceInv, SeatInv
<1>1. [Next]_vars
  BY <1>0, ChatStepIsStep
<1>2. port'[d] = port[d]
  <2>1. CASE \E p \in Port : Accept(d, p)
    BY <1>0, <2>1 DEF Accept, Launcher, Unaddressed
  <2>2. ASSUME NEW c \in Conn, c # d, \E p \in Port : Accept(c, p)
        PROVE  port'[d] = port[d]
    BY <1>0, <2>2 DEF Accept
  <2>3. ASSUME NEW c \in Conn, Client(c) \/ Thread(c)
        PROVE  port' = port
    BY <2>3 DEF Client, SendRequest, ClientRead, PeerClose, Thread, ServeOther, RefuseJoin,
       AdmitJoin, RoomJoin, SendReply, BeginRoster, BeginChat, BeginLeave, SendHeader, SendPayload,
       EndPush, CloseSocket
  <2> QED
    BY <1>1, <2>1, <2>2, <2>3 DEF Next, AllGone, vars
<1>3. PICK m \in members'[port[d]] : m.id = x
  BY <1>2 DEF Ids, Room
<1>4. x < nextId /\ x \in Nat
  BY <1>0 DEF IdsInv, ToldOld
<1>5. m \in members[port[d]]
  BY <1>0, <1>1, <1>3, <1>4, IdsGrow
<1> QED
  BY <1>3, <1>5 DEF Ids, Room

(* A thread writes a reply, a header, or a payload that is then told. *)
LEMMA ThreadWrites ==
  ASSUME LaunchInv, NEW c \in Conn, ServerStep(c), NEW d \in Conn
  PROVE  \/ CloseSocket(c) /\ c = d
         \/ wire'[d] = wire[d] /\ told'[d] = told[d]
         \/ \E k \in Chunk : /\ wire'[d] = Append(wire[d], k) /\ k.part # "payload"
                             /\ told'[d] = told[d]
         \/ \E h \in Conn : /\ wire'[d] = Append(wire[d], Payload(frame[h]))
                            /\ told'[d] = Heard(told[d], frame[h])
<1>0. /\ wire \in [Conn -> Seq(Chunk)] /\ told \in [Conn -> SUBSET Nat] /\ fresh \in [Conn -> Nat]
      /\ frame \in [Conn -> Frame] /\ peerUp \in [Conn -> BOOLEAN]
  BY LaunchShapes, Shapes DEF LaunchInv, ServiceInv
<1>1. ASSUME NEW e, NEW k \in Chunk, k.part # "payload", Deliver(e, k), told' = told
      PROVE  \/ wire'[d] = wire[d] /\ told'[d] = told[d]
             \/ \E v \in Chunk : /\ wire'[d] = Append(wire[d], v) /\ v.part # "payload"
                                 /\ told'[d] = told[d]
  BY <1>0, <1>1 DEF Deliver
<1>2. CASE CloseSocket(c)
  BY <1>0, <1>2 DEF CloseSocket
<1>3. CASE SendReply(c)
  <2>1. /\ Admission(c) \in Chunk /\ Whole(OtherReply, {}) \in Chunk
        /\ Whole(JoinReply, {}) \in Chunk
        /\ Admission(c).part = "whole" /\ Whole(OtherReply, {}).part = "whole"
        /\ Whole(JoinReply, {}).part = "whole"
    BY <1>0 DEF Admission, Whole, Chunk
  <2> QED
    BY <1>1, <1>3, <2>1 DEF SendReply
<1>4. CASE SendHeader(c)
  <2>1. Header(frame[c]) \in Chunk /\ Header(frame[c]).part = "header"
    BY <1>0, FrameChunks DEF Header
  <2> QED
    BY <1>1, <1>4, <2>1 DEF SendHeader
<1>5. CASE SendPayload(c)
  <2>1. \/ wire'[d] = wire[d] /\ told'[d] = told[d]
        \/ /\ wire'[d] = Append(wire[d], Payload(frame[c]))
           /\ told'[d] = Heard(told[d], frame[c])
    BY <1>0, <1>5 DEF SendPayload, Deliver
  <2> QED
    BY <2>1
<1>6. CASE ~CloseSocket(c) /\ ~SendReply(c) /\ ~SendHeader(c) /\ ~SendPayload(c)
  <2>1. wire' = wire /\ told' = told
    BY <1>6 DEF ServerStep, Thread, ServeOther, RefuseJoin, AdmitJoin, RoomJoin, BeginRoster,
       BeginChat, BeginLeave, EndPush, outVars
  <2> QED
    BY <2>1
<1> QED
  BY <1>2, <1>3, <1>4, <1>5, <1>6

(* What a step must keep for one launcher. *)
ShowsTold(d) == \A x \in told[d] \cap Ids(Room(d)) : WillShow(d, x)
ShowsSelf(d) == phase[d] = "inRoom" => self[d] \in BagToSet(rows[d])
Showing(d) ==
  /\ IsABag(rows[d])
  /\ phase[d] \in {"waiting", "inRoom"} => ShowsTold(d)
  /\ ShowsSelf(d)

LEMMA ShowingThread ==
  ASSUME RowsInv, [ChatNext]_chatVars, NEW c \in Conn, ServerStep(c), NEW d \in Conn
  PROVE  Showing(d)'
<1>0. /\ wire[d] \in Seq(Chunk) /\ phase \in [Conn -> Phase] /\ self \in [Conn -> Nat]
      /\ rows = [e \in Conn |-> rows[e]]
      /\ IdsInv /\ LaunchInv /\ Showing(d)
      /\ \A h \in Conn : Payload(frame[h]) \in Chunk
  BY LaunchShapes, Shapes, FrameChunks
  DEF RowsInv, IdsInv, LaunchInv, ServiceInv, Showing, ShowsTold, ShowsSelf, RowsTyped, ToldShown, SelfShown
<1>1. CASE CloseSocket(c) /\ c = d
  <2>1. phase'[d] = "closed" /\ rows'[d] = EmptyBag
    BY <1>0, <1>1, ThreadViews DEF Forget
  <2> QED
    BY <2>1, BagOfSet DEF Showing, ShowsSelf, EmptyBag
<1>2. CASE ~(CloseSocket(c) /\ c = d)
  <2>1. phase'[d] = phase[d] /\ self'[d] = self[d] /\ rows'[d] = rows[d]
    BY <1>0, <1>2, ThreadViews, ThreadElsewhere
  <2>2. ASSUME phase[d] \in {"waiting", "inRoom"}, NEW x \in told'[d], x \in Ids(Room(d))'
        PROVE  WillShow(d, x)'
    <3>1. x \in told[d] => WillShow(d, x)
      BY <1>0, <2>2, DueBefore DEF Showing, ShowsTold
    <3>2. CASE wire'[d] = wire[d] /\ told'[d] = told[d]
      BY <2>1, <2>2, <3>1, <3>2 DEF WillShow, Has, Gets
    <3>3. ASSUME NEW k \in Chunk, wire'[d] = Append(wire[d], k), k.part # "payload",
                 told'[d] = told[d]
          PROVE  WillShow(d, x)'
      BY <1>0, <2>1, <2>2, <3>1, <3>3, WrittenShow DEF Resets
    <3>4. ASSUME NEW h \in Conn, wire'[d] = Append(wire[d], Payload(frame[h])),
                 told'[d] = Heard(told[d], frame[h])
          PROVE  WillShow(d, x)'
      <4>1. PICK k \in Chunk : k = Payload(frame[h])
        BY <1>0
      <4>2. k.part = "payload" /\ k.msg = frame[h].msg /\ k.ids = frame[h].ids
        BY <4>1 DEF Payload
      <4>3. Adds(k, x) \/ (x \in told[d] /\ ~Resets(k, x))
        BY <2>2, <3>4, <4>2 DEF Heard, Adds, Resets, UsersHere, UserJoined, UserLeft
      <4> QED
        BY <1>0, <2>1, <3>1, <3>4, <4>1, <4>3, WrittenShow
    <3> QED
      BY <1>0, <1>2, <3>2, <3>3, <3>4, ThreadWrites
  <2>3. phase'[d] \in {"waiting", "inRoom"} => ShowsTold(d)'
    BY <2>1, <2>2 DEF ShowsTold
  <2> QED
    BY <1>0, <2>1, <2>3 DEF Showing, ShowsSelf
<1> QED
  BY <1>1, <1>2

(* A launcher nothing happens to. *)
LEMMA ShowingStill ==
  ASSUME RowsInv, [ChatNext]_chatVars, NEW d \in Conn,
         wire'[d] = wire[d], told'[d] = told[d],
         phase'[d] = phase[d], self'[d] = self[d], rows'[d] = rows[d]
  PROVE  Showing(d)'
<1>0. IsABag(rows[d]) /\ ShowsSelf(d) /\ IdsInv
  BY DEF RowsInv, RowsTyped, SelfShown, ShowsSelf
<1>1. ASSUME phase[d] \in {"waiting", "inRoom"}, NEW x \in told'[d], x \in Ids(Room(d))'
      PROVE  WillShow(d, x)'
  <2>1. WillShow(d, x)
    BY <1>0, <1>1, DueBefore DEF RowsInv, ToldShown
  <2> QED
    BY <2>1 DEF WillShow, Has, Gets
<1>2. phase'[d] \in {"waiting", "inRoom"} => ShowsTold(d)'
  BY <1>1 DEF ShowsTold
<1> QED
  BY <1>0, <1>2 DEF Showing, ShowsSelf

(* The join reply: the launcher starts with a row for itself. *)
LEMMA ShowingJoined ==
  ASSUME RowsInv, [ChatNext]_chatVars, NEW d \in Conn, ReadWhileJoining(d)
  PROVE  Showing(d)'
<1>0. /\ wire \in [Conn -> Seq(Chunk)] /\ phase \in [Conn -> Phase] /\ self \in [Conn -> Nat]
      /\ rows = [e \in Conn |-> rows[e]]
      /\ IdsInv /\ IsABag(rows[d]) /\ ToldShown
  BY LaunchShapes DEF RowsInv, IdsInv, RowsTyped
<1> DEFINE k == Head(wire[d])
           joins == k.msg = JoinReply /\ k.ids \cap (Nat \ {0}) # {}
<1>1. /\ phase[d] = "waiting" /\ wire[d] # <<>> /\ wire'[d] = Tail(wire[d]) /\ told' = told
      /\ phase'[d] \in {"refused", "gaveUp"} \/ (joins /\ phase'[d] = "inRoom")
      /\ \/ joins /\ self'[d] = (CHOOSE i \in k.ids : TRUE) /\ rows'[d] = SetToBag(k.ids)
         \/ ~joins /\ rows'[d] = rows[d]
  BY <1>0 DEF ReadWhileJoining, ClientRead
<1>2. k = wire[d][1]
  BY <1>0, <1>1
<1> HIDE DEF k
<1>3. joins => self'[d] \in k.ids
  BY <1>1
<1>4. IsABag(rows'[d]) /\ ShowsSelf(d)'
  BY <1>0, <1>1, <1>3, BagOfSet DEF ShowsSelf
<1>5. ASSUME phase'[d] \in {"waiting", "inRoom"}, NEW x \in told'[d], x \in Ids(Room(d))'
      PROVE  WillShow(d, x)'
  <2>1. WillShow(d, x)
    BY <1>0, <1>1, <1>5, DueBefore DEF ToldShown
  <2>2. phase'[d] = "inRoom" /\ k.msg = JoinReply
    BY <1>1, <1>5
  <2>3. ~Adds(wire[d][1], x) /\ ~Has(d, x)
    BY <1>1, <1>2, <2>2 DEF Adds, Has, JoinReply, UsersHere, UserJoined
  <2> QED
    BY <1>0, <1>1, <2>1, <2>2, <2>3, ReadShow
<1>6. phase'[d] \in {"waiting", "inRoom"} => ShowsTold(d)'
  BY <1>5 DEF ShowsTold
<1> QED
  BY <1>4, <1>6 DEF Showing

(* A message in the room: nobody who is still there loses a row. *)
LEMMA ShowingRead ==
  ASSUME RowsInv, [ChatNext]_chatVars, NEW d \in Conn, ReadInRoom(d)
  PROVE  Showing(d)'
<1>0. /\ wire \in [Conn -> Seq(Chunk)] /\ phase \in [Conn -> Phase] /\ self \in [Conn -> Nat]
      /\ rows = [e \in Conn |-> rows[e]]
      /\ IdsInv /\ IsABag(rows[d]) /\ ToldShown /\ SelfShown /\ Launcher(d) /\ LeaversGone
      /\ port \in [Conn -> Port]
  BY LaunchShapes DEF RowsInv, IdsInv, RowsTyped, LaunchInv
<1> DEFINE f == Head(wire[d])
<1>1. /\ phase[d] = "inRoom" /\ wire[d] # <<>> /\ wire'[d] = Tail(wire[d]) /\ told' = told
      /\ phase' = phase /\ self' = self
      /\ \/ f.part = "payload" /\ rows'[d] = Listed(d, f)
         \/ f.part # "payload" /\ rows'[d] = rows[d]
  BY <1>0 DEF ReadInRoom, ClientRead
<1>2. f = wire[d][1] /\ 1 \in DOMAIN wire[d]
  BY <1>0, <1>1
<1> HIDE DEF f
<1>3. /\ IsABag(Listed(d, f))
      /\ f.msg = UsersHere => BagToSet(Listed(d, f)) = {self[d]} \cup f.ids
      /\ f.msg = UserJoined => BagToSet(Listed(d, f)) = BagToSet(rows[d]) \cup f.ids
      /\ f.msg = UserLeft => BagToSet(rows[d]) \ f.ids \subseteq BagToSet(Listed(d, f))
      /\ f.msg \notin {UsersHere, UserJoined, UserLeft} => Listed(d, f) = rows[d]
  BY <1>0, ListedRows
<1>4. f.msg = UserLeft => \A x \in Ids(Room(d)) : x \notin f.ids
  BY <1>0, <1>2 DEF LeaversGone, Retired, Ids, Room
<1>5. ASSUME NEW x \in Ids(Room(d)), x \in BagToSet(rows[d]), ~Resets(f, x)
      PROVE  x \in BagToSet(rows'[d])
  BY <1>1, <1>3, <1>4, <1>5 DEF Resets
<1>6. ASSUME NEW x, Adds(f, x)
      PROVE  x \in BagToSet(rows'[d])
  BY <1>1, <1>3, <1>6 DEF Adds
<1>7. ShowsSelf(d)'
  <2>1. self[d] \in Ids(Room(d)) /\ self[d] \in BagToSet(rows[d])
    BY <1>0, <1>1 DEF SelfShown, Launcher, Answered, HasSeat, Seat, OnSocket, Ids
  <2>2. self[d] \in BagToSet(rows'[d])
    BY <1>1, <1>3, <1>4, <2>1
  <2> QED
    BY <1>1, <2>2 DEF ShowsSelf
<1>8. ASSUME NEW x \in told'[d], x \in Ids(Room(d))'
      PROVE  WillShow(d, x)'
  <2>1. x \in Ids(Room(d)) /\ x \in told[d]
    BY <1>0, <1>1, <1>8, DueBefore
  <2>2. WillShow(d, x)
    BY <1>0, <1>1, <2>1 DEF ToldShown
  <2>3. /\ Has(d, x) /\ ~Resets(wire[d][1], x) => x \in BagToSet(rows'[d])
        /\ Adds(wire[d][1], x) => x \in BagToSet(rows'[d])
    BY <1>2, <1>5, <1>6, <2>1 DEF Has
  <2> QED
    BY <1>0, <1>1, <2>2, <2>3, ReadShow
<1>9. ShowsTold(d)'
  BY <1>8 DEF ShowsTold
<1> QED
  BY <1>0, <1>1, <1>3, <1>7, <1>9 DEF Showing

LEMMA ShowingLauncher ==
  ASSUME RowsInv, [ChatNext]_chatVars, NEW c \in Conn, NEW d \in Conn,
         \/ \E p \in Port : Connect(c, p)
         \/ \E name \in Name : AskToJoin(c, name)
         \/ Say(c) \/ Leave(c) \/ GiveUp(c)
         \/ ReadWhileJoining(c) \/ ReadInRoom(c) \/ ReadOtherwise(c)
  PROVE  Showing(d)'
<1>0. /\ wire \in [Conn -> Seq(Chunk)] /\ phase \in [Conn -> Phase] /\ self \in [Conn -> Nat]
      /\ told \in [Conn -> SUBSET Nat] /\ rows = [e \in Conn |-> rows[e]]
      /\ IsABag(rows[d]) /\ Launcher(d) /\ IdsInv
  BY LaunchShapes DEF RowsInv, IdsInv, RowsTyped, LaunchInv
<1>1. CASE c # d
  <2>1. wire'[d] = wire[d] /\ told'[d] = told[d]
    BY <1>0, <1>1 DEF Connect, Accept, AskToJoin, Say, SendRequest, Leave, PeerClose, GiveUp,
       ReadWhileJoining, ReadInRoom, ReadOtherwise, ClientRead, vars, outVars
  <2>2. phase'[d] = phase[d] /\ self'[d] = self[d]
    BY <1>0, <1>1 DEF Connect, AskToJoin, Say, Leave, GiveUp,
       ReadWhileJoining, ReadInRoom, ReadOtherwise, Forget, viewVars
  <2>3. rows'[d] = rows[d]
    BY <1>0, <1>1 DEF Connect, AskToJoin, Say, Leave, GiveUp,
       ReadWhileJoining, ReadInRoom, ReadOtherwise, Forget, viewVars
  <2> QED
    BY <2>1, <2>2, <2>3, ShowingStill
<1>2. CASE c = d /\ (Say(d) \/ ReadOtherwise(d) \/ GiveUp(d) \/ \E p \in Port : Connect(d, p))
  <2>1. rows' = rows /\ self' = self
    BY <1>2 DEF Say, ReadOtherwise, GiveUp, Connect, viewVars
  <2>2. CASE Say(d)
    <3>1. phase' = phase /\ wire' = wire /\ told' = told
      BY <2>2 DEF Say, SendRequest, outVars
    <3> QED
      BY <2>1, <3>1, ShowingStill
  <2>3. CASE ~Say(d)
    <3>1. phase'[d] \notin {"waiting", "inRoom"}
      BY <1>0, <1>2, <2>3 DEF ReadOtherwise, GiveUp, Connect, viewVars
    <3> QED
      BY <1>0, <2>1, <3>1 DEF Showing, ShowsSelf
  <2> QED
    BY <2>2, <2>3
<1>3. CASE c = d /\ Leave(d)
  <2>1. phase'[d] = "closed" /\ rows'[d] = EmptyBag
    BY <1>0, <1>3 DEF Leave, Forget
  <2> QED
    BY <2>1, BagOfSet DEF Showing, ShowsSelf, EmptyBag
<1>4. CASE c = d /\ \E name \in Name : AskToJoin(d, name)
  <2>1. rows' = rows /\ phase'[d] = "waiting" /\ told' = told /\ told[d] = {}
    BY <1>0, <1>4 DEF AskToJoin, SendRequest, outVars, Launcher, Follows, Unaddressed
  <2> QED
    BY <1>0, <2>1 DEF Showing, ShowsSelf, ShowsTold
<1> QED
  BY <1>1, <1>2, <1>3, <1>4, ShowingJoined, ShowingRead

LEMMA RowsStep ==
  ASSUME RowsInv, [ChatNext]_chatVars
  PROVE  RowsInv'
<1>1. \A d \in Conn : Showing(d)'
  <2>1. CASE UNCHANGED chatVars
    BY <2>1, ShowingStill DEF chatVars, vars, viewVars
  <2>2. CASE AllGone /\ UNCHANGED viewVars
    BY <2>1, <2>2 DEF AllGone, chatVars
  <2> QED
    BY <2>1, <2>2, ShowingLauncher, ShowingThread DEF ChatNext
<1>2. IdsInv'
  BY IdsInvStep DEF RowsInv
<1> QED
  BY <1>1, <1>2 DEF RowsInv, RowsTyped, ToldShown, SelfShown, Showing, ShowsTold, ShowsSelf

LEMMA RowsInit == ChatInit => RowsInv
<1> SUFFICES ASSUME ChatInit PROVE RowsInv
  OBVIOUS
<1>1. FramesSound /\ LeaversGone /\ ToldOld
  BY DEF ChatInit, Init, FramesSound, Sound, LeaversGone, ToldOld, NoFrame
<1>2. RowsTyped /\ ToldShown /\ SelfShown
  BY BagOfSet DEF ChatInit, RowsTyped, ToldShown, SelfShown, EmptyBag
<1> QED
  BY <1>1, <1>2, LaunchInit DEF RowsInv, IdsInv

LEMMA RowsInvariant == ChatSpec => []RowsInv
<1>1. RowsInv /\ [ChatNext]_chatVars => RowsInv'
  BY RowsStep
<1> QED
  BY <1>1, RowsInit, PTL DEF ChatSpec

(* Once everything in flight has arrived, a launcher has a row for         *)
(* everyone the server lists in its room: itself from the join reply, and  *)
(* the others from what it was told, of which nothing is lost on the way.  *)
THEOREM RowsCoverRoom == ChatSpec => []RowsShowRoom
<1>1. RowsInv /\ RosterConsistent => RowsShowRoom
  <2> SUFFICES ASSUME RowsInv, RosterConsistent, Quiet, NEW c \in Conn, phase[c] = "inRoom",
                      NEW m \in Room(c)
               PROVE  m.id \in BagToSet(rows[c])
    BY DEF RowsShowRoom, Ids
  <2>0. /\ port \in [Conn -> Port] /\ LaunchInv /\ ServiceInv /\ Launcher(c)
        /\ \A q \in Port : \A n \in members[q] : n.sock \in Conn
    BY LaunchShapes, Shapes DEF RowsInv, IdsInv, LaunchInv, ServiceInv
  <2>1. \A d \in Conn : pc[d] \notin {"answerJoin", "roster", "pushRoster"}
    BY DEF Quiet
  <2>2. \A n \in Room(c) : Announced(n)
    BY <2>0, <2>1 DEF Announced, Room
  <2>3. PICK s \in Room(c) : s.sock = c /\ s.id = self[c] /\ peerUp[c]
    BY <2>0 DEF Launcher, Follows, Answered, HasSeat, Seat, OnSocket
  <2>4. CASE m.sock = c
    <3>1. m = s
      BY <2>0, <2>3, <2>4 DEF ServiceInv, SeatInv, OneSeat, OnSocket
    <3> QED
      BY <2>3, <3>1 DEF RowsInv, SelfShown
  <2>5. CASE m.sock # c
    <3>1. m.id \in told[c]
      BY <2>2, <2>3, <2>5 DEF Quiet, RosterConsistent, Present, Ids
    <3>2. WillShow(c, m.id)
      BY <3>1 DEF RowsInv, ToldShown, Ids
    <3> QED
      BY <3>2 DEF Quiet, WillShow, Has, Gets
  <2> QED
    BY <2>4, <2>5
<1> QED
  BY <1>1, RowsInvariant, LaunchersHearRoster, PTL

=============================================================================
