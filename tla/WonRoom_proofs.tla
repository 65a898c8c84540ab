---------------------------- MODULE WonRoom_proofs --------------------------
(* Proofs about WonRoom, and that its threads implement RoomBook, for      *)
(* every value of the constants.                                           *)
EXTENDS RoomService, FiniteSetTheorems, WellFoundedInduction, TLAPS

-----------------------------------------------------------------------------
(* The operators on naturals, members and nicks. *)

(* Every set of naturals has a least element: Smallest and Oldest choose it. *)
LEMMA LeastExists ==
  ASSUME NEW S \in SUBSET Nat, S # {}
  PROVE  \E k \in S : \A j \in S : k <= j
<1>1. \E k \in S : \A j \in S : ~(<<j, k>> \in OpToRel(<, Nat))
  BY NatLessThanWellFounded, WFMin
<1>2. PICK k \in S : \A j \in S : ~(<<j, k>> \in OpToRel(<, Nat))
  BY <1>1
<1>3. \A j \in S : ~(j < k)
  BY <1>2 DEF OpToRel
<1> QED
  BY <1>3

LEMMA SmallestIsLeast ==
  ASSUME NEW S \in SUBSET Nat, S # {}
  PROVE  Smallest(S) \in S /\ \A j \in S : Smallest(S) <= j
BY LeastExists DEF Smallest

(* A member with the least id, the head of the vector. *)
LEMMA OldestIsMember ==
  ASSUME NEW ms \in SUBSET Member, ms # {}
  PROVE  Oldest(ms) \in ms /\ \A m \in ms : Oldest(ms).id <= m.id
<1>1. Ids(ms) \in SUBSET Nat /\ Ids(ms) # {}
  BY DEF Ids, Member
<1>2. PICK k \in Ids(ms) : \A j \in Ids(ms) : k <= j
  BY <1>1, LeastExists
<1>3. \E m \in ms : \A n \in ms : m.id <= n.id
  BY <1>2 DEF Ids
<1> QED
  BY <1>3 DEF Oldest

(* A member with the greatest id, the tail of the vector, when the ids are *)
(* bounded: least distance from the bound.                                 *)
LEMMA NewestIsMember ==
  ASSUME NEW ms \in SUBSET Member, ms # {},
         NEW b \in Nat, \A m \in ms : m.id <= b
  PROVE  Newest(ms) \in ms /\ \A m \in ms : m.id <= Newest(ms).id
<1> DEFINE gaps == {b - m.id : m \in ms}
<1>0. \A m \in ms : m.id \in Nat
  BY DEF Member
<1>1. gaps \in SUBSET Nat /\ gaps # {}
  BY <1>0
<1>2. PICK k \in gaps : \A j \in gaps : k <= j
  BY <1>1, LeastExists
<1>3. \E m \in ms : \A n \in ms : n.id <= m.id
  <2>1. PICK m \in ms : k = b - m.id
    BY <1>2
  <2>2. \A n \in ms : k <= b - n.id
    BY <1>2
  <2> QED
    BY <2>1, <2>2, <1>0
<1> QED
  BY <1>3 DEF Newest

-----------------------------------------------------------------------------
(* UniqueNick. *)

LEMMA CandidateType ==
  ASSUME NEW name \in Name, NEW k \in Nat
  PROVE  Candidate(name, k) \in Seq(Base \cup Nat)
BY RoomAssumption DEF Candidate

(* Different suffixes make different nicks. *)
LEMMA CandidateInjective ==
  ASSUME NEW name \in Name, NEW j \in Nat, NEW k \in Nat, j # k
  PROVE  Candidate(name, j) # Candidate(name, k)
<1>1. name \in Seq(Base \cup Nat) /\ Len(name) \in Nat
  BY RoomAssumption
<1>2. CASE j = 1
  <2>1. Len(Candidate(name, k)) = Len(name) + 1
    BY <1>1, <1>2 DEF Candidate
  <2> QED
    BY <1>1, <1>2, <2>1 DEF Candidate
<1>3. CASE k = 1
  <2>1. Len(Candidate(name, j)) = Len(name) + 1
    BY <1>1, <1>3 DEF Candidate
  <2> QED
    BY <1>1, <1>3, <2>1 DEF Candidate
<1>4. CASE j # 1 /\ k # 1
  <2>1. Append(name, j)[Len(name) + 1] = j
    BY <1>1
  <2>2. Append(name, k)[Len(name) + 1] = k
    BY <1>1
  <2> QED
    BY <1>4, <2>1, <2>2 DEF Candidate
<1> QED
  BY <1>2, <1>3, <1>4

(* A room with free seats leaves a suffix free: its members are fewer than *)
(* the suffixes tried.                                                     *)
LEMMA SuffixFree ==
  ASSUME NEW ms \in SUBSET Member, IsFiniteSet(ms), Cardinality(ms) < MaxMembers,
         NEW name \in Name
  PROVE  FreeSuffix(ms, name) # {}
<1> DEFINE tried == 1..(MaxSuffix - 1)
           owner == [k \in tried |-> CHOOSE m \in ms : m.nick = Candidate(name, k)]
<1> SUFFICES ASSUME FreeSuffix(ms, name) = {} PROVE FALSE
  OBVIOUS
<1>1. \A k \in tried : \E m \in ms : m.nick = Candidate(name, k)
  BY DEF FreeSuffix
<1>2. \A k \in tried : owner[k] \in ms /\ owner[k].nick = Candidate(name, k)
  BY <1>1
<1>3. owner \in [tried -> ms]
  BY <1>2
<1>4. MaxMembers \in Nat /\ MaxSuffix \in Nat /\ MaxMembers < MaxSuffix
  BY RoomAssumption
<1>5. IsFiniteSet(tried) /\ Cardinality(tried) = MaxSuffix - 1
  BY <1>4, FS_Interval
<1>6. Cardinality(ms) < Cardinality(tried)
  BY <1>4, <1>5, FS_CardinalityType
<1>7. PICK j, k \in tried : j # k /\ owner[j] = owner[k]
  <2> HIDE DEF owner, tried
  <2> QED
    BY <1>3, <1>5, <1>6, FS_PigeonHole
<1>8. Candidate(name, j) = Candidate(name, k)
  BY <1>2, <1>7
<1> QED
  BY <1>7, <1>8, CandidateInjective

LEMMA UniqueNickType ==
  ASSUME NEW ms, NEW name \in Name
  PROVE  UniqueNick(ms, name) \in Seq(Base \cup Nat)
<1>1. FreeSuffix(ms, name) \in SUBSET Nat
  BY DEF FreeSuffix
<1>2. CASE FreeSuffix(ms, name) = {}
  BY <1>2, CandidateType, RoomAssumption DEF UniqueNick
<1>3. CASE FreeSuffix(ms, name) # {}
  BY <1>1, <1>3, SmallestIsLeast, CandidateType DEF UniqueNick
<1> QED
  BY <1>2, <1>3

(* The nick a joiner gets while there is a free seat is nobody's. *)
LEMMA UniqueNickIsFree ==
  ASSUME NEW ms \in SUBSET Member, IsFiniteSet(ms), Cardinality(ms) < MaxMembers,
         NEW name \in Name
  PROVE  \A m \in ms : m.nick # UniqueNick(ms, name)
<1>1. FreeSuffix(ms, name) # {}
  BY SuffixFree
<1>2. FreeSuffix(ms, name) \in SUBSET Nat
  BY DEF FreeSuffix
<1>3. Smallest(FreeSuffix(ms, name)) \in FreeSuffix(ms, name)
  BY <1>1, <1>2, SmallestIsLeast
<1> QED
  BY <1>1, <1>3 DEF FreeSuffix, UniqueNick

-----------------------------------------------------------------------------
(* Type correctness.  Of the bookkeeping, it needs that a decided join has *)
(* a name and that an announced joiner has a seat, with an id below the    *)
(* next one.                                                               *)

TypeInv == TypeOK /\ JoinsNamed /\ SeatHeld /\ IdsHandedOut

LEMMA TypeInit == Init => TypeInv
<1> SUFFICES ASSUME Init PROVE TypeInv
  OBVIOUS
<1>1. (CHOOSE p \in Port : TRUE) \in Port
  BY RoomAssumption
<1>2. TypeOK
  BY <1>1, RoomAssumption, FS_EmptySet
     DEF Init, TypeOK, FirstId, NoReq, Request, NoFrame, Frame, UserLeft, Status
<1>3. JoinsNamed /\ SeatHeld /\ IdsHandedOut
  BY DEF Init, JoinsNamed, SeatHeld, IdsHandedOut
<1> QED
  BY <1>2, <1>3 DEF TypeInv

LEMMA ClientTypes ==
  ASSUME TypeInv, NEW c \in Conn, Client(c)
  PROVE  TypeInv'
<1>1. ASSUME NEW r \in Request \ {NoReq}, SendRequest(c, r)
      PROVE  TypeInv'
  BY <1>1 DEF TypeInv, TypeOK, SendRequest, JoinsNamed, SeatHeld, IdsHandedOut, NoReq,
     Room, roomVars, pushVars, outVars
<1>2. CASE ClientRead(c)
  BY <1>2 DEF TypeInv, TypeOK, ClientRead, JoinsNamed, SeatHeld, IdsHandedOut,
     Room, clientVars, counters, roomVars, pushVars
<1>3. CASE PeerClose(c)
  BY <1>3 DEF TypeInv, TypeOK, PeerClose, JoinsNamed, SeatHeld, IdsHandedOut,
     Room, counters, roomVars, pushVars
<1> QED
  BY <1>1, <1>2, <1>3 DEF Client

LEMMA DeliverType ==
  ASSUME TypeOK, NEW d, NEW k \in Chunk, Deliver(d, k)
  PROVE  wire' \in [Conn -> Seq(Chunk)]
<1>1. wire \in [Conn -> Seq(Chunk)]
  BY DEF TypeOK
<1>2. CASE d \in Conn
  <2>1. Append(wire[d], k) \in Seq(Chunk)
    BY <1>1, <1>2
  <2> QED
    BY <1>1, <2>1 DEF Deliver
<1>3. CASE d \notin Conn
  BY <1>1, <1>3 DEF Deliver
<1> QED
  BY <1>2, <1>3

LEMMA JoinRequest ==
  ASSUME NEW r \in Request, r.kind = "join"
  PROVE  r.name \in Name
BY DEF Request, NoReq

LEMMA ChatRequest ==
  ASSUME NEW r \in Request, r.kind = "chat"
  PROVE  r.line \in Nat
BY RoomAssumption DEF Request, NoReq

LEMMA FrameChunks ==
  ASSUME NEW f \in Frame
  PROVE  Header(f) \in Chunk /\ Payload(f) \in Chunk
BY DEF Frame, Chunk, Header, Payload

LEMMA HeardType ==
  ASSUME NEW ids \in SUBSET Nat, NEW f \in Frame
  PROVE  Heard(ids, f) \in SUBSET Nat
BY DEF Heard, Frame

(* The joiner whose roster goes out is a member. *)
LEMMA NewcomerIsMember ==
  ASSUME TypeInv, NEW c \in Conn, pc[c] = "pushRoster"
  PROVE  Newest(OnSocket(Room(c), c)) \in OnSocket(Room(c), c)
<1>1. OnSocket(Room(c), c) \in SUBSET Member /\ OnSocket(Room(c), c) # {}
  BY DEF TypeInv, TypeOK, SeatHeld, OnSocket, Room
<1>2. nextId \in Nat /\ \A m \in OnSocket(Room(c), c) : m.id <= nextId
  BY DEF TypeInv, TypeOK, IdsHandedOut, OnSocket, Room, Member
<1> QED
  BY <1>1, <1>2, NewestIsMember

LEMMA NextTargetTypes ==
  ASSUME TypeInv, NEW c \in Conn, Pushing(c), NextTarget(c)
  PROVE  /\ pc' \in [Conn -> Status]
         /\ frame' \in [Conn -> Frame]
         /\ todo' \in [Conn -> SUBSET Member]
<1>1. CASE pc[c] = "pushRoster"
  <2>1. Newest(OnSocket(Room(c), c)).id \in Nat
    BY <1>1, NewcomerIsMember DEF TypeInv, TypeOK, OnSocket, Room, Member
  <2>2. [msg |-> UserJoined, ids |-> {Newest(OnSocket(Room(c), c)).id}] \in Frame
    BY <2>1 DEF Frame
  <2>3. frame' \in [Conn -> Frame]
    BY <1>1, <2>2 DEF TypeInv, TypeOK, NextTarget
  <2>4. pc' \in [Conn -> Status] /\ todo' \in [Conn -> SUBSET Member]
    BY <1>1 DEF TypeInv, TypeOK, NextTarget, Status
  <2> QED
    BY <2>3, <2>4
<1>2. CASE pc[c] # "pushRoster"
  <2>1. todo[c] \ {Oldest(todo[c])} \in SUBSET Member
    BY DEF TypeInv, TypeOK
  <2>2. pc' = pc /\ frame' = frame
        /\ todo' = [todo EXCEPT ![c] = todo[c] \ {Oldest(todo[c])}]
    BY <1>2 DEF NextTarget
  <2> QED
    BY <2>1, <2>2 DEF TypeInv, TypeOK
<1> QED
  BY <1>1, <1>2

LEMMA ThreadTypes ==
  ASSUME TypeInv, NEW c \in Conn, Thread(c)
  PROVE  TypeInv'
<1> USE DEF TypeInv
<1>0. /\ pc \in [Conn -> Status]
      /\ port \in [Conn -> Port]
      /\ fresh \in [Conn -> Nat]
      /\ members \in [Port -> SUBSET Member]
  BY DEF TypeOK
<1>1. CASE ServeOther(c)
  BY <1>1 DEF TypeOK, ServeOther, Take, Status, Request, NoReq, JoinsNamed, SeatHeld,
     IdsHandedOut, Room, counters, roomVars, pushVars, outVars
<1>2. CASE RefuseJoin(c)
  BY <1>2 DEF TypeOK, RefuseJoin, Take, Status, Request, NoReq, JoinsNamed, SeatHeld,
     IdsHandedOut, Room, counters, roomVars, pushVars, outVars
<1>3. CASE AdmitJoin(c)
  BY <1>3 DEF TypeOK, AdmitJoin, Status, JoinsNamed, SeatHeld, IdsHandedOut, Room,
     clientVars, counters, roomVars, pushVars, outVars
<1>4. CASE RoomJoin(c)
  <2> DEFINE m == [sock |-> c, id |-> nextId, nick |-> UniqueNick(Room(c), req[c].name)]
  <2>1. req[c].name \in Name
    BY <1>4, JoinRequest DEF RoomJoin, TypeOK, JoinsNamed
  <2>2. m \in Member
    BY <2>1, UniqueNickType DEF TypeOK, Member
  <2>3. CASE Cardinality(Room(c)) < MaxMembers
    <3>1. members' = [members EXCEPT ![port[c]] = @ \cup {m}] /\ nextId' = nextId + 1
          /\ fresh' = [fresh EXCEPT ![c] = nextId]
      BY <1>4, <2>3 DEF RoomJoin, NextId, Room
    <3>2. \A p \in Port : IsFiniteSet(members'[p])
      BY <3>1, FS_AddElement DEF TypeOK
    <3>3. members' \in [Port -> SUBSET Member]
      BY <3>1, <2>2 DEF TypeOK
    <3>4. pc' \in [Conn -> Status] /\ req' \in [Conn -> Request]
      BY <1>4 DEF TypeOK, RoomJoin, Status, Request
    <3>5. nextId' \in Nat \ {0} /\ fresh' \in [Conn -> Nat]
      BY <3>1 DEF TypeOK
    <3>6. TypeOK'
      BY <1>4, <3>2, <3>3, <3>4, <3>5 DEF TypeOK, RoomJoin, counters, pushVars, outVars
    <3>7. JoinsNamed' /\ IdsHandedOut'
      BY <1>4, <3>1 DEF TypeOK, RoomJoin, JoinsNamed, IdsHandedOut, Member
    <3>8. SeatHeld'
      <4> SUFFICES ASSUME NEW d \in Conn,
                          \/ pc'[d] \in {"roster", "pushRoster"}
                          \/ pc'[d] = "answerJoin" /\ fresh'[d] # 0
                   PROVE  OnSocket(Room(d), d)' # {}
        BY DEF SeatHeld
      <4>1. port' = port /\ pc' = [pc EXCEPT ![c] = "answerJoin"]
        BY <1>4 DEF RoomJoin
      <4>2. Room(d) \subseteq Room(d)'
        BY <1>0, <3>1, <4>1 DEF Room
      <4>3. CASE d = c
        <5>1. m \in Room(d)'
          BY <1>0, <3>1, <4>1, <4>3 DEF Room
        <5> QED
          BY <4>3, <5>1 DEF OnSocket
      <4>4. CASE d # c
        <5>1. OnSocket(Room(d), d) # {}
          BY <1>0, <3>1, <4>1, <4>4 DEF SeatHeld
        <5> QED
          BY <4>2, <5>1 DEF OnSocket
      <4> QED
        BY <4>3, <4>4
    <3> QED
      BY <3>6, <3>7, <3>8
  <2>4. CASE ~(Cardinality(Room(c)) < MaxMembers)
    <3>1. members' = members /\ nextId' = nextId /\ fresh' = [fresh EXCEPT ![c] = 0]
      BY <1>4, <2>4 DEF RoomJoin, roomVars
    <3>2. pc' \in [Conn -> Status] /\ req' \in [Conn -> Request]
      BY <1>4 DEF TypeOK, RoomJoin, Status, Request
    <3>3. TypeOK'
      BY <1>4, <3>1, <3>2 DEF TypeOK, RoomJoin, counters, pushVars, outVars
    <3>4. JoinsNamed' /\ IdsHandedOut' /\ SeatHeld'
      BY <1>0, <1>4, <3>1 DEF RoomJoin, JoinsNamed, IdsHandedOut, SeatHeld, Room
    <3> QED
      BY <3>3, <3>4
  <2> QED
    BY <2>3, <2>4
<1>5. CASE SendReply(c)
  <2>1. Whole(OtherReply, {}) \in Chunk /\ Whole(JoinReply, {}) \in Chunk
        /\ Admission(c) \in Chunk
    BY DEF TypeOK, Whole, Admission, Chunk, OtherReply, JoinReply
  <2>2. wire' \in [Conn -> Seq(Chunk)]
    BY <1>5, <2>1, DeliverType DEF SendReply
  <2> QED
    BY <1>5, <2>2 DEF TypeOK, SendReply, Status, JoinsNamed, SeatHeld, IdsHandedOut,
       Room, clientVars, counters, roomVars, pushVars
<1>6. CASE BeginRoster(c)
  <2>1. [msg |-> UsersHere, ids |-> Ids(Others(c))] \in Frame
        /\ Others(c) \in SUBSET Member
    BY DEF TypeOK, Frame, Ids, Others, Room, Member, UsersHere
  <2> QED
    BY <1>6, <2>1 DEF TypeOK, BeginRoster, BeginPush, Status, JoinsNamed, SeatHeld,
       IdsHandedOut, Room, clientVars, counters, roomVars, outVars
<1>7. CASE BeginChat(c)
  <2>1. [msg |-> ChatText, ids |-> {req[c].line}] \in Frame
        /\ ChatAudience(c) \in SUBSET Member
    <3>1. req[c].line \in Nat
      BY <1>7, ChatRequest DEF TypeOK, BeginChat, Take
    <3> QED
      BY <3>1 DEF TypeOK, Frame, ChatText, ChatAudience, Room
  <2> QED
    BY <1>7, <2>1 DEF TypeOK, BeginChat, BeginPush, Take, Status, Request, NoReq,
       JoinsNamed, SeatHeld, IdsHandedOut, Room, counters, roomVars, outVars
<1>8. CASE BeginLeave(c)
  <2> DEFINE gone == Departs(c)
             rest == Room(c) \ gone
  <2>1. members' = [members EXCEPT ![port[c]] = rest]
    BY <1>8 DEF BeginLeave
  <2>2. \A p \in Port : IsFiniteSet(members'[p])
    BY <2>1, FS_Subset DEF TypeOK, Room
  <2>3. gone \in SUBSET Member /\ rest \in SUBSET Member /\ rest \subseteq Room(c)
        /\ \A n \in Room(c) : n.sock # c => n \in rest
    BY DEF TypeOK, Departs, OnSocket, Room
  <2>4. [msg |-> UserLeft, ids |-> Ids(gone)] \in Frame
    BY <2>3 DEF Frame, Ids, Member, UserLeft
  <2> HIDE DEF gone, rest
  <2>5. TypeOK'
    <3>1. members' \in [Port -> SUBSET Member]
      BY <1>0, <2>1, <2>3
    <3>2. /\ roomLock' = c
          /\ frame' = [frame EXCEPT ![c] = [msg |-> UserLeft, ids |-> Ids(gone)]]
          /\ todo' = [todo EXCEPT ![c] = IF gone = {} THEN {} ELSE rest]
          /\ half' = [half EXCEPT ![c] = FALSE]
          /\ pc' = [pc EXCEPT ![c] = "leave"]
      BY <1>8 DEF BeginLeave, BeginPush, gone, rest
    <3>3. /\ roomLock' \in Conn \cup {NoThread}
          /\ frame' \in [Conn -> Frame]
          /\ todo' \in [Conn -> SUBSET Member]
          /\ half' \in [Conn -> BOOLEAN]
          /\ pc' \in [Conn -> Status]
      BY <2>3, <2>4, <3>2 DEF TypeOK, Status
    <3> QED
      BY <1>8, <2>2, <3>1, <3>3 DEF TypeOK, BeginLeave, clientVars, counters, outVars
  <2>6. JoinsNamed' /\ IdsHandedOut'
    BY <1>8, <2>1, <2>3 DEF TypeOK, BeginLeave, JoinsNamed, IdsHandedOut, Room,
       clientVars, counters
  <2>7. SeatHeld'
    <3> SUFFICES ASSUME NEW d \in Conn,
                        \/ pc'[d] \in {"roster", "pushRoster"}
                        \/ pc'[d] = "answerJoin" /\ fresh'[d] # 0
                 PROVE  OnSocket(Room(d), d)' # {}
      BY DEF SeatHeld
    <3>1. port' = port /\ fresh' = fresh /\ pc' = [pc EXCEPT ![c] = "leave"]
      BY <1>8 DEF BeginLeave
    <3>2. d # c
      BY <1>0, <3>1
    <3>3. OnSocket(Room(d), d) # {}
      BY <1>0, <3>1, <3>2 DEF SeatHeld
    <3>4. PICK n \in Room(d) : n.sock = d
      BY <3>3 DEF OnSocket
    <3>5. n \in Room(d)'
      BY <1>0, <2>1, <2>3, <3>1, <3>2, <3>4 DEF Room
    <3> QED
      BY <3>4, <3>5 DEF OnSocket
  <2> QED
    BY <2>5, <2>6, <2>7
<1>9. CASE SendHeader(c)
  <2>1. wire' \in [Conn -> Seq(Chunk)]
    BY <1>9, FrameChunks, DeliverType DEF SendHeader, TypeOK
  <2>2. /\ pc' \in [Conn -> Status]
        /\ frame' \in [Conn -> Frame]
        /\ todo' \in [Conn -> SUBSET Member]
    BY <1>9, NextTargetTypes DEF SendHeader, TypeOK
  <2>3. \A d \in Conn : pc'[d] = pc[d] \/ (pc[d] = "pushRoster" /\ pc'[d] = "push")
    <3>1. pc' = pc \/ (pc[c] = "pushRoster" /\ pc' = [pc EXCEPT ![c] = "push"])
      BY <1>9 DEF SendHeader, NextTarget
    <3> QED
      BY <1>0, <3>1
  <2>4. TypeOK'
    BY <1>9, <2>1, <2>2 DEF TypeOK, SendHeader, clientVars, counters, roomVars
  <2>5. JoinsNamed' /\ SeatHeld' /\ IdsHandedOut'
    BY <1>9, <2>3 DEF SendHeader, JoinsNamed, SeatHeld, IdsHandedOut, Room,
       clientVars, roomVars
  <2> QED
    BY <2>4, <2>5
<1>10. CASE SendPayload(c)
  <2>1. wire' \in [Conn -> Seq(Chunk)]
    BY <1>10, FrameChunks, DeliverType DEF SendPayload, TypeOK
  <2>2. /\ pc' \in [Conn -> Status]
        /\ frame' \in [Conn -> Frame]
        /\ todo' \in [Conn -> SUBSET Member]
    BY <1>10, NextTargetTypes DEF SendPayload
  <2>3. told' \in [Conn -> SUBSET Nat]
    <3>1. \A d \in Conn : Heard(told[d], frame[c]) \in SUBSET Nat
      BY HeardType DEF TypeOK
    <3> QED
      BY <1>10, <3>1 DEF SendPayload, TypeOK
  <2>4. \A d \in Conn : pc'[d] = pc[d] \/ (pc[d] = "pushRoster" /\ pc'[d] = "push")
    <3>1. pc' = pc \/ (pc[c] = "pushRoster" /\ pc' = [pc EXCEPT ![c] = "push"])
      BY <1>10 DEF SendPayload, NextTarget
    <3> QED
      BY <1>0, <3>1
  <2>5. TypeOK'
    BY <1>10, <2>1, <2>2, <2>3 DEF TypeOK, SendPayload, clientVars, counters, roomVars
  <2>6. JoinsNamed' /\ SeatHeld' /\ IdsHandedOut'
    BY <1>10, <2>4 DEF SendPayload, JoinsNamed, SeatHeld, IdsHandedOut, Room,
       clientVars, roomVars
  <2> QED
    BY <2>5, <2>6
<1>11. CASE EndPush(c)
  BY <1>11, RoomAssumption DEF TypeOK, EndPush, Release, NoFrame, Frame, UserLeft, Status,
     JoinsNamed, SeatHeld, IdsHandedOut, Room, clientVars, counters, roomVars, outVars
<1>12. CASE CloseSocket(c)
  BY <1>12 DEF TypeOK, CloseSocket, Status, Request, NoReq, JoinsNamed, SeatHeld,
     IdsHandedOut, Room, counters, roomVars, pushVars
<1> QED
  BY <1>1, <1>2, <1>3, <1>4, <1>5, <1>6, <1>7, <1>8, <1>9, <1>10, <1>11, <1>12 DEF Thread

LEMMA TypeStep == TypeInv /\ [Next]_vars => TypeInv'
<1> SUFFICES ASSUME TypeInv, [Next]_vars PROVE TypeInv'
  OBVIOUS
<1>1. ASSUME NEW c \in Conn, NEW p \in Port, Accept(c, p)
      PROVE  TypeInv'
  <2> USE DEF TypeInv
  <2>1. TypeOK'
    BY <1>1 DEF TypeOK, Accept, Status, roomVars, pushVars, outVars
  <2>2. JoinsNamed' /\ SeatHeld' /\ IdsHandedOut'
    <3>1. pc \in [Conn -> Status] /\ port \in [Conn -> Port]
      BY DEF TypeOK
    <3> QED
      BY <1>1, <3>1 DEF Accept, JoinsNamed, SeatHeld, IdsHandedOut, Room, roomVars
  <2> QED
    BY <2>1, <2>2
<1>2. CASE UNCHANGED vars
  BY <1>2 DEF TypeInv, TypeOK, JoinsNamed, SeatHeld, IdsHandedOut, Room, vars
<1> QED
  BY <1>1, <1>2, ClientTypes, ThreadTypes DEF Next, AllGone

LEMMA TypeInvariant == Spec => []TypeInv
BY TypeInit, TypeStep, PTL DEF Spec

(* Every variable keeps the range the code gives it. *)
THEOREM TypeCorrect == Spec => []TypeOK
<1>1. TypeInv => TypeOK
  BY DEF TypeInv
<1> QED
  BY <1>1, TypeInvariant, PTL

-----------------------------------------------------------------------------
(* Ids and nicks.  The member lists change in two ways only. *)

NewMember(c, name) ==
  [sock |-> c, id |-> nextId, nick |-> UniqueNick(Room(c), name)]
Joins(c, name) ==
  /\ Cardinality(Room(c)) < MaxMembers
  /\ members' = [members EXCEPT ![port[c]] = Room(c) \cup {NewMember(c, name)}]
  /\ nextId' = nextId + 1
Parts(c) ==
  /\ members' = [members EXCEPT ![port[c]] = Room(c) \ Departs(c)]
  /\ nextId' = nextId

LEMMA MembersChange ==
  ASSUME TypeInv, [Next]_vars
  PROVE  \/ members' = members /\ nextId' = nextId
         \/ \E c \in Conn, name \in Name : Joins(c, name)
         \/ \E c \in Conn : Parts(c)
<1>1. ASSUME NEW c \in Conn, RoomJoin(c)
      PROVE  \/ members' = members /\ nextId' = nextId
             \/ \E name \in Name : Joins(c, name)
  <2>1. req[c].name \in Name
    BY <1>1, JoinRequest DEF TypeInv, TypeOK, JoinsNamed, RoomJoin
  <2>2. CASE Cardinality(Room(c)) < MaxMembers
    <3>1. Joins(c, req[c].name)
      BY <1>1, <2>2 DEF RoomJoin, Joins, NewMember, NextId, Room
    <3> QED
      BY <2>1, <3>1
  <2>3. CASE ~(Cardinality(Room(c)) < MaxMembers)
    BY <1>1, <2>3 DEF RoomJoin, roomVars
  <2> QED
    BY <2>2, <2>3
<1>2. ASSUME NEW c \in Conn, BeginLeave(c)
      PROVE  Parts(c)
  BY <1>2 DEF BeginLeave, Parts
<1>3. ASSUME NEW c \in Conn, Client(c) PROVE members' = members /\ nextId' = nextId
  BY <1>3 DEF Client, SendRequest, ClientRead, PeerClose, roomVars
<1>4. ASSUME NEW c \in Conn, Thread(c), ~RoomJoin(c), ~BeginLeave(c)
      PROVE  members' = members /\ nextId' = nextId
  BY <1>4 DEF Thread, ServeOther, RefuseJoin, AdmitJoin, SendReply, BeginRoster, BeginChat,
     SendHeader, SendPayload, EndPush, CloseSocket, roomVars
<1>5. ASSUME NEW c \in Conn, NEW p \in Port, Accept(c, p)
      PROVE  members' = members /\ nextId' = nextId
  BY <1>5 DEF Accept, roomVars
<1> QED
  BY <1>1, <1>2, <1>3, <1>4, <1>5 DEF Next, AllGone, vars

LEMMA IdsStep == TypeInv /\ UniqueIds /\ [Next]_vars => UniqueIds'
<1> SUFFICES ASSUME TypeInv, UniqueIds, [Next]_vars,
                    NEW p \in Port, NEW q \in Port,
                    NEW m \in members'[p], NEW n \in members'[q], m.id = n.id
             PROVE  m = n /\ p = q
  BY DEF UniqueIds
<1>0. /\ members \in [Port -> SUBSET Member]
      /\ port \in [Conn -> Port]
      /\ nextId \in Nat
      /\ \A r \in Port : \A k \in members[r] : k.id \in Nat /\ k.id # nextId
  BY DEF TypeInv, TypeOK, IdsHandedOut, Member
<1>1. CASE members' = members
  BY <1>1 DEF UniqueIds
<1>2. ASSUME NEW c \in Conn, NEW name \in Name, Joins(c, name)
      PROVE  m = n /\ p = q
  <2> DEFINE new == NewMember(c, name)
  <2>1. new.id = nextId
    BY DEF NewMember
  <2>2. \A r \in Port : \A k \in members'[r] :
           k \in members[r] \/ (k = new /\ r = port[c])
    <3> HIDE DEF new
    <3>1. members' = [members EXCEPT ![port[c]] = members[port[c]] \cup {new}]
      BY <1>2 DEF Joins, Room, new
    <3> QED
      BY <1>0, <3>1
  <2> HIDE DEF new
  <2> QED
    BY <1>0, <2>1, <2>2 DEF UniqueIds
<1>3. ASSUME NEW c \in Conn, Parts(c)
      PROVE  m = n /\ p = q
  <2>1. \A r \in Port : members'[r] \subseteq members[r]
    BY <1>0, <1>3 DEF Parts, Room
  <2> QED
    BY <2>1 DEF UniqueIds
<1> QED
  BY <1>1, <1>2, <1>3, MembersChange

(* No two members of any rooms have one id: a new member's is above all.   *)
THEOREM IdsUnique == Spec => []UniqueIds
<1>1. Init => UniqueIds
  BY DEF Init, UniqueIds
<1>2. TypeInv /\ UniqueIds /\ [Next]_vars => UniqueIds'
  BY IdsStep
<1> QED
  BY <1>1, <1>2, TypeInvariant, PTL DEF Spec

LEMMA NicksStep == TypeInv /\ UniqueNicks /\ [Next]_vars => UniqueNicks'
<1> SUFFICES ASSUME TypeInv, UniqueNicks, [Next]_vars,
                    NEW p \in Port, NEW m \in members'[p], NEW n \in members'[p],
                    m.nick = n.nick
             PROVE  m = n
  BY DEF UniqueNicks
<1>0. /\ members \in [Port -> SUBSET Member]
      /\ port \in [Conn -> Port]
      /\ \A r \in Port : IsFiniteSet(members[r])
  BY DEF TypeInv, TypeOK
<1>1. CASE members' = members
  BY <1>1 DEF UniqueNicks
<1>2. ASSUME NEW c \in Conn, NEW name \in Name, Joins(c, name)
      PROVE  m = n
  <2> DEFINE new == NewMember(c, name)
  <2>1. \A k \in members[port[c]] : k.nick # new.nick
    <3>1. \A k \in Room(c) : k.nick # UniqueNick(Room(c), name)
      BY <1>0, <1>2, UniqueNickIsFree DEF Joins, Room
    <3> QED
      BY <3>1 DEF NewMember, Room
  <2>2. \A k \in members'[p] : k \in members[p] \/ (k = new /\ p = port[c])
    <3> HIDE DEF new
    <3>1. members' = [members EXCEPT ![port[c]] = members[port[c]] \cup {new}]
      BY <1>2 DEF Joins, Room, new
    <3> QED
      BY <1>0, <3>1
  <2> HIDE DEF new
  <2> QED
    BY <2>1, <2>2 DEF UniqueNicks
<1>3. ASSUME NEW c \in Conn, Parts(c)
      PROVE  m = n
  <2>1. members'[p] \subseteq members[p]
    BY <1>0, <1>3 DEF Parts, Room
  <2> QED
    BY <2>1 DEF UniqueNicks
<1> QED
  BY <1>1, <1>2, <1>3, MembersChange

(* No two members of a room have one nick: a joiner finds the room with a  *)
(* free seat and so, with fewer seats than suffixes, a free suffix.        *)
THEOREM NicksUnique == Spec => []UniqueNicks
<1>1. Init => UniqueNicks
  BY DEF Init, UniqueNicks
<1>2. TypeInv /\ UniqueNicks /\ [Next]_vars => UniqueNicks'
  BY NicksStep
<1> QED
  BY <1>1, <1>2, TypeInvariant, PTL DEF Spec

-----------------------------------------------------------------------------
(* The room lock.  A thread pushes exactly while it holds the lock, so the *)
(* sends of two pushes never interleave.                                   *)

LockInv == TypeInv /\ LockHeld /\ HalfPushed

LEMMA LockStep == LockInv /\ [Next]_vars => LockInv'
<1> SUFFICES ASSUME LockInv, [Next]_vars PROVE LockHeld' /\ HalfPushed'
  BY TypeStep DEF LockInv
<1>0. /\ pc \in [Conn -> Status]
      /\ half \in [Conn -> BOOLEAN]
      /\ todo \in [Conn -> SUBSET Member]
      /\ NoThread \notin Conn
  BY RoomAssumption DEF LockInv, TypeInv, TypeOK
<1> USE DEF LockHeld, HalfPushed, LockInv, Pushing
<1>1. ASSUME NEW c \in Conn, NEW p \in Port, Accept(c, p)
      PROVE  LockHeld' /\ HalfPushed'
  BY <1>0, <1>1 DEF Accept, pushVars
<1>2. ASSUME NEW c \in Conn, Client(c)
      PROVE  LockHeld' /\ HalfPushed'
  BY <1>2 DEF Client, SendRequest, ClientRead, PeerClose, pushVars
<1>3. ASSUME NEW c \in Conn, Thread(c)
      PROVE  LockHeld' /\ HalfPushed'
  <2>1. CASE ServeOther(c) \/ RefuseJoin(c) \/ AdmitJoin(c)
    BY <1>0, <2>1 DEF ServeOther, RefuseJoin, AdmitJoin, Take, pushVars
  <2>2. CASE RoomJoin(c) \/ CloseSocket(c)
    BY <1>0, <2>2 DEF RoomJoin, CloseSocket, pushVars
  <2>3. CASE SendReply(c)
    BY <1>0, <2>3 DEF SendReply, pushVars
  <2>4. CASE BeginRoster(c) \/ BeginChat(c)
    BY <1>0, <2>4 DEF BeginRoster, BeginChat, BeginPush, Take
  <2>5. CASE BeginLeave(c)
    BY <1>0, <2>5 DEF BeginLeave, BeginPush, HungUp
  <2>6. CASE SendHeader(c)
    <3>1. CASE peerUp[Target(c)]
      BY <1>0, <2>6, <3>1 DEF SendHeader
    <3>2. CASE ~peerUp[Target(c)]
      BY <1>0, <2>6, <3>2 DEF SendHeader, NextTarget
    <3> QED
      BY <3>1, <3>2
  <2>7. CASE SendPayload(c)
    BY <1>0, <2>7 DEF SendPayload, NextTarget
  <2>8. CASE EndPush(c)
    BY <1>0, <2>8 DEF EndPush, Release
  <2> QED
    BY <1>3, <2>1, <2>2, <2>3, <2>4, <2>5, <2>6, <2>7, <2>8 DEF Thread
<1>4. CASE UNCHANGED vars
  BY <1>4 DEF vars
<1> QED
  BY <1>1, <1>2, <1>3, <1>4 DEF Next, AllGone

LEMMA LockInvariant == Spec => []LockInv
<1>1. Init => LockInv
  <2>1. Init => LockHeld /\ HalfPushed
    BY RoomAssumption DEF Init, LockHeld, HalfPushed
  <2> QED
    BY <2>1, TypeInit DEF LockInv
<1> QED
  BY <1>1, LockStep, PTL DEF Spec

-----------------------------------------------------------------------------
(* Streams: what adding and removing a chunk does to headers and payloads. *)

Paired(w) ==
  \A i, j \in DOMAIN w :
    NextPushChunk(w, i, j) /\ w[i].part = "header" => w[j] = Payload(w[i])

LEMMA AppendReply ==
  ASSUME NEW w \in Seq(Chunk), NEW k \in Chunk, k.part = "whole", Paired(w)
  PROVE  /\ Paired(Append(w, k))
         /\ \A i \in DOMAIN Append(w, k) : OpenHeader(Append(w, k), i) =>
              i \in DOMAIN w /\ OpenHeader(w, i) /\ Append(w, k)[i] = w[i]
BY DEF Paired, NextPushChunk, OpenHeader

LEMMA AppendPush ==
  ASSUME NEW w \in Seq(Chunk), NEW k \in Chunk, k.part # "whole", Paired(w),
         \A i \in DOMAIN w : OpenHeader(w, i) => k = Payload(w[i])
  PROVE  /\ Paired(Append(w, k))
         /\ \A i \in DOMAIN Append(w, k) : OpenHeader(Append(w, k), i) =>
              i = Len(w) + 1 /\ k.part = "header" /\ Append(w, k)[i] = k
BY DEF Paired, NextPushChunk, OpenHeader

LEMMA TailPaired ==
  ASSUME NEW w \in Seq(Chunk), w # <<>>, Paired(w)
  PROVE  /\ Paired(Tail(w))
         /\ \A i \in DOMAIN Tail(w) : OpenHeader(Tail(w), i) =>
              i + 1 \in DOMAIN w /\ OpenHeader(w, i + 1) /\ Tail(w)[i] = w[i + 1]
<1> DEFINE t == Tail(w)
<1>1. /\ DOMAIN t = 1..(Len(w) - 1) /\ Len(t) = Len(w) - 1 /\ Len(w) \in Nat
      /\ DOMAIN w = 1..Len(w)
      /\ \A i \in 1..(Len(w) - 1) : t[i] = w[i + 1]
  OBVIOUS
<1> HIDE DEF t
<1>2. ASSUME NEW i \in DOMAIN t, NEW j \in DOMAIN t, NextPushChunk(t, i, j)
      PROVE  NextPushChunk(w, i + 1, j + 1)
  <2>1. i + 1 < j + 1 /\ w[j + 1].part # "whole"
    BY <1>1, <1>2 DEF NextPushChunk
  <2>2. ASSUME NEW k \in (i + 1 + 1)..(j + 1 - 1)
        PROVE  w[k].part = "whole"
    <3>1. k - 1 \in (i + 1)..(j - 1) /\ k - 1 \in 1..(Len(w) - 1) /\ k - 1 + 1 = k
      BY <1>1
    <3>2. t[k - 1].part = "whole"
      BY <1>2, <3>1 DEF NextPushChunk
    <3> QED
      BY <1>1, <3>1, <3>2
  <2> QED
    BY <2>1, <2>2 DEF NextPushChunk
<1>3. Paired(t)
  <2> SUFFICES ASSUME NEW i \in DOMAIN t, NEW j \in DOMAIN t,
                      NextPushChunk(t, i, j), t[i].part = "header"
               PROVE  t[j] = Payload(t[i])
    BY DEF Paired
  <2>1. i + 1 \in DOMAIN w /\ j + 1 \in DOMAIN w
        /\ t[i] = w[i + 1] /\ t[j] = w[j + 1]
    BY <1>1
  <2> QED
    BY <1>2, <2>1 DEF Paired
<1>4. ASSUME NEW i \in DOMAIN t, OpenHeader(t, i)
      PROVE  i + 1 \in DOMAIN w /\ OpenHeader(w, i + 1) /\ t[i] = w[i + 1]
  <2>1. i + 1 \in DOMAIN w /\ t[i] = w[i + 1] /\ w[i + 1].part = "header"
    BY <1>1, <1>4 DEF OpenHeader
  <2>2. ASSUME NEW k \in (i + 1 + 1)..Len(w)
        PROVE  w[k].part = "whole"
    <3>1. k - 1 \in (i + 1)..Len(t) /\ k - 1 \in 1..(Len(w) - 1) /\ k - 1 + 1 = k
      BY <1>1
    <3> QED
      BY <1>1, <1>4, <3>1 DEF OpenHeader
  <2> QED
    BY <2>1, <2>2 DEF OpenHeader
<1> QED
  BY <1>3, <1>4 DEF t

(* The streams are in order: see OpenHeaders. *)
StreamInv == LockInv /\ GoneUnread /\ OpenHeaders /\ PushesSerialised

LEMMA PairedStreams == PushesSerialised <=> \A c \in Conn : Paired(wire[c])
BY DEF PushesSerialised, Paired

(* A step that leaves the push under way alone, and only takes chunks off  *)
(* the front of streams or puts replies at the end.                        *)
PushAsItWas ==
  /\ roomLock' = roomLock /\ frame' = frame /\ half' = half /\ todo' = todo
  /\ roomLock \in Conn => pc'[roomLock] = pc[roomLock]
StreamMoves(w, v) ==
  \/ v = w
  \/ v = <<>>
  \/ w # <<>> /\ v = Tail(w)
  \/ \E k \in Chunk : k.part = "whole" /\ v = Append(w, k)

LEMMA QuietStep ==
  ASSUME StreamInv, PushAsItWas, \A c \in Conn : StreamMoves(wire[c], wire'[c])
  PROVE  OpenHeaders' /\ PushesSerialised'
<1>0. \A c \in Conn : wire[c] \in Seq(Chunk) /\ Paired(wire[c])
  BY PairedStreams DEF StreamInv, LockInv, TypeInv, TypeOK
<1>1. ASSUME NEW c \in Conn
      PROVE  /\ Paired(wire'[c])
             /\ \A i \in DOMAIN wire'[c] : OpenHeader(wire'[c], i) =>
                  \E j \in DOMAIN wire[c] :
                    OpenHeader(wire[c], j) /\ wire'[c][i] = wire[c][j]
  <2>1. CASE wire'[c] = wire[c]
    BY <1>0, <2>1
  <2>2. CASE wire'[c] = <<>>
    BY <2>2 DEF Paired
  <2>3. CASE wire[c] # <<>> /\ wire'[c] = Tail(wire[c])
    BY <1>0, <2>3, TailPaired
  <2>4. ASSUME NEW k \in Chunk, k.part = "whole", wire'[c] = Append(wire[c], k)
        PROVE  /\ Paired(wire'[c])
               /\ \A i \in DOMAIN wire'[c] : OpenHeader(wire'[c], i) =>
                    \E j \in DOMAIN wire[c] :
                      OpenHeader(wire[c], j) /\ wire'[c][i] = wire[c][j]
    BY <1>0, <2>4, AppendReply
  <2>5. StreamMoves(wire[c], wire'[c])
    OBVIOUS
  <2> QED
    BY <2>1, <2>2, <2>3, <2>4, <2>5 DEF StreamMoves
<1>2. PushesSerialised'
  BY <1>1 DEF PushesSerialised, Paired
<1>3. ASSUME roomLock \in Conn
      PROVE  Target(roomLock)' = Target(roomLock)
  BY <1>3 DEF PushAsItWas, Target
<1>4. OpenHeaders'
  <2> SUFFICES ASSUME NEW c \in Conn, NEW i \in DOMAIN wire'[c], OpenHeader(wire'[c], i)
               PROVE  /\ roomLock' \in Conn /\ half'[roomLock']
                      /\ Target(roomLock)' = c
                      /\ wire'[c][i] = Header(frame'[roomLock'])
    BY DEF OpenHeaders
  <2>1. PICK j \in DOMAIN wire[c] : OpenHeader(wire[c], j) /\ wire'[c][i] = wire[c][j]
    BY <1>1
  <2>2. /\ roomLock \in Conn /\ half[roomLock] /\ Target(roomLock) = c
        /\ wire[c][j] = Header(frame[roomLock])
    BY <2>1 DEF StreamInv, OpenHeaders
  <2> QED
    BY <1>3, <2>1, <2>2 DEF PushAsItWas
<1> QED
  BY <1>2, <1>4

(* Streams nobody has a header open on, and that do not move, stay in order. *)
LEMMA ClosedStep ==
  ASSUME StreamInv, wire' = wire, roomLock \in Conn => ~half[roomLock]
  PROVE  OpenHeaders' /\ PushesSerialised'
BY DEF StreamInv, OpenHeaders, PushesSerialised

LEMMA GoneUnreadStep ==
  ASSUME StreamInv, [Next]_vars
  PROVE  GoneUnread'
<1>0. /\ peerUp \in [Conn -> BOOLEAN]
      /\ wire \in [Conn -> Seq(Chunk)]
      /\ \A c \in Conn : ~peerUp[c] => wire[c] = <<>>
  BY DEF StreamInv, LockInv, TypeInv, TypeOK, GoneUnread
<1>1. ASSUME NEW c \in Conn, NEW p \in Port, Accept(c, p)
      PROVE  GoneUnread'
  BY <1>0, <1>1 DEF Accept, outVars, GoneUnread
<1>2. ASSUME NEW c \in Conn, Client(c)
      PROVE  GoneUnread'
  <2>1. ASSUME NEW r \in Request, SendRequest(c, r)
        PROVE  GoneUnread'
    BY <1>0, <2>1 DEF SendRequest, outVars, GoneUnread
  <2>2. CASE ClientRead(c)
    BY <1>0, <2>2 DEF ClientRead, clientVars, GoneUnread
  <2>3. CASE PeerClose(c)
    BY <1>0, <2>3 DEF PeerClose, GoneUnread
  <2> QED
    BY <1>2, <2>1, <2>2, <2>3 DEF Client
<1>3. ASSUME NEW c \in Conn, Thread(c)
      PROVE  GoneUnread'
  <2>1. ASSUME NEW d, NEW k, Deliver(d, k), peerUp' = peerUp
        PROVE  GoneUnread'
    BY <1>0, <2>1 DEF Deliver, GoneUnread
  <2>2. CASE SendReply(c)
    BY <2>1, <2>2 DEF SendReply, clientVars
  <2>3. CASE SendHeader(c) \/ SendPayload(c)
    BY <2>1, <2>3 DEF SendHeader, SendPayload, clientVars
  <2>4. CASE CloseSocket(c)
    BY <1>0, <2>4 DEF CloseSocket, GoneUnread
  <2>5. CASE \/ ServeOther(c) \/ RefuseJoin(c) \/ AdmitJoin(c) \/ RoomJoin(c)
             \/ BeginRoster(c) \/ BeginChat(c) \/ BeginLeave(c) \/ EndPush(c)
    BY <1>0, <2>5 DEF ServeOther, RefuseJoin, AdmitJoin, RoomJoin, BeginRoster, BeginChat,
       BeginLeave, EndPush, clientVars, outVars, GoneUnread
  <2> QED
    BY <1>3, <2>2, <2>3, <2>4, <2>5 DEF Thread
<1>4. CASE UNCHANGED vars
  BY <1>0, <1>4 DEF vars, GoneUnread
<1> QED
  BY <1>1, <1>2, <1>3, <1>4 DEF Next, AllGone

(* The header goes out while no header is open anywhere. *)
LEMMA HeaderStep ==
  ASSUME StreamInv, NEW c \in Conn, SendHeader(c)
  PROVE  OpenHeaders' /\ PushesSerialised'
<1> DEFINE t == Target(c)
           h == Header(frame[c])
<1>0. /\ \A d \in Conn : wire[d] \in Seq(Chunk) /\ Paired(wire[d])
      /\ wire \in [Conn -> Seq(Chunk)]
      /\ half \in [Conn -> BOOLEAN]
      /\ h \in Chunk /\ h.part = "header"
      /\ roomLock = c /\ ~half[c]
  BY PairedStreams, FrameChunks DEF StreamInv, LockInv, TypeInv, TypeOK, LockHeld,
     SendHeader, Pushing, Header
<1>1. \A d \in Conn : \A i \in DOMAIN wire[d] : ~OpenHeader(wire[d], i)
  BY <1>0 DEF StreamInv, OpenHeaders
<1>2. CASE ~peerUp[t]
  BY <1>0, <1>2, ClosedStep DEF SendHeader, Deliver
<1>3. CASE peerUp[t]
  <2>1. /\ wire' = [wire EXCEPT ![t] = Append(wire[t], h)]
        /\ half' = [half EXCEPT ![c] = TRUE]
        /\ pc' = pc /\ frame' = frame /\ todo' = todo /\ roomLock' = roomLock
    BY <1>3 DEF SendHeader, Deliver
  <2>2. Target(c)' = t
    BY <2>1 DEF Target
  <2> HIDE DEF t, h
  <2>3. ASSUME NEW d \in Conn
        PROVE  /\ Paired(wire'[d])
               /\ \A i \in DOMAIN wire'[d] : OpenHeader(wire'[d], i) =>
                    d = t /\ wire'[d][i] = h
    <3>1. CASE d = t
      <4>1. wire'[d] = Append(wire[d], h)
        BY <1>0, <2>1, <3>1
      <4> QED
        BY <1>0, <1>1, <3>1, <4>1, AppendPush
    <3>2. CASE d # t
      <4>1. wire'[d] = wire[d]
        BY <1>0, <2>1, <3>2
      <4> QED
        BY <1>0, <1>1, <4>1
    <3> QED
      BY <3>1, <3>2
  <2>4. PushesSerialised'
    BY <2>3 DEF PushesSerialised, Paired
  <2>5. OpenHeaders'
    <3>1. half'[c]
      BY <1>0, <2>1
    <3> QED
      BY <1>0, <2>1, <2>2, <2>3, <3>1 DEF OpenHeaders, h
  <2> QED
    BY <2>4, <2>5
<1> QED
  BY <1>2, <1>3

(* The payload goes out to the stream the header is open on, and closes it. *)
LEMMA PayloadStep ==
  ASSUME StreamInv, NEW c \in Conn, SendPayload(c)
  PROVE  OpenHeaders' /\ PushesSerialised'
<1> DEFINE t == Target(c)
           p == Payload(frame[c])
<1>0. /\ \A d \in Conn : wire[d] \in Seq(Chunk) /\ Paired(wire[d])
      /\ wire \in [Conn -> Seq(Chunk)]
      /\ p \in Chunk /\ p.part = "payload"
      /\ roomLock = c
  BY PairedStreams, FrameChunks DEF StreamInv, LockInv, TypeInv, TypeOK, LockHeld,
     SendPayload, Pushing, Payload
<1>1. \A d \in Conn : \A i \in DOMAIN wire[d] :
        OpenHeader(wire[d], i) => d = t /\ p = Payload(wire[d][i])
  <2>1. Payload(frame[c]) = Payload(Header(frame[c]))
    BY DEF Payload, Header
  <2> QED
    BY <1>0, <2>1 DEF StreamInv, OpenHeaders
<1>2. \A d \in Conn : /\ Paired(wire'[d])
                      /\ \A i \in DOMAIN wire'[d] : ~OpenHeader(wire'[d], i)
  <2> SUFFICES ASSUME NEW d \in Conn
               PROVE  /\ Paired(wire'[d])
                      /\ \A i \in DOMAIN wire'[d] : ~OpenHeader(wire'[d], i)
    OBVIOUS
  <2>1. wire' = IF peerUp[t] THEN [wire EXCEPT ![t] = Append(wire[t], p)] ELSE wire
    BY DEF SendPayload, Deliver
  <2>2. ~peerUp[d] => wire[d] = <<>>
    BY DEF StreamInv, GoneUnread
  <2> HIDE DEF t, p
  <2>3. CASE peerUp[t] /\ d = t
    <3>1. wire'[d] = Append(wire[d], p)
      BY <1>0, <2>1, <2>3
    <3> QED
      BY <1>0, <1>1, <2>3, <3>1, AppendPush
  <2>4. CASE ~(peerUp[t] /\ d = t)
    <3>1. wire'[d] = wire[d]
      BY <1>0, <2>1, <2>4
    <3> QED
      BY <1>0, <1>1, <2>2, <2>4, <3>1
  <2> QED
    BY <2>3, <2>4
<1> QED
  BY <1>2 DEF OpenHeaders, PushesSerialised, Paired

LEMMA StreamStep == StreamInv /\ [Next]_vars => StreamInv'
<1> SUFFICES ASSUME StreamInv, [Next]_vars
             PROVE  OpenHeaders' /\ PushesSerialised'
  BY LockStep, GoneUnreadStep DEF StreamInv
<1>0. /\ pc \in [Conn -> Status]
      /\ wire \in [Conn -> Seq(Chunk)]
      /\ NoThread \notin Conn
      /\ \A c \in Conn : pc[c] \in {"pushRoster", "push", "leave"} <=> roomLock = c
      /\ \A c \in Conn : half[c] => Pushing(c)
  BY RoomAssumption DEF StreamInv, LockInv, TypeInv, TypeOK, LockHeld, HalfPushed
<1>1. ASSUME NEW c \in Conn, NEW p \in Port, Accept(c, p)
      PROVE  OpenHeaders' /\ PushesSerialised'
  BY <1>0, <1>1, QuietStep DEF Accept, pushVars, outVars, PushAsItWas, StreamMoves
<1>2. ASSUME NEW c \in Conn, Client(c)
      PROVE  OpenHeaders' /\ PushesSerialised'
  <2>1. PushAsItWas
    BY <1>2 DEF Client, SendRequest, ClientRead, PeerClose, pushVars, PushAsItWas
  <2>2. \A d \in Conn : StreamMoves(wire[d], wire'[d])
    BY <1>0, <1>2 DEF Client, SendRequest, ClientRead, PeerClose, outVars, StreamMoves
  <2> QED
    BY <2>1, <2>2, QuietStep
<1>3. ASSUME NEW c \in Conn, Thread(c)
      PROVE  OpenHeaders' /\ PushesSerialised'
  <2>1. CASE ServeOther(c) \/ RefuseJoin(c) \/ AdmitJoin(c) \/ RoomJoin(c)
    <3>1. PushAsItWas
      BY <1>0, <2>1 DEF ServeOther, RefuseJoin, AdmitJoin, RoomJoin, Take, pushVars,
         PushAsItWas
    <3>2. wire' = wire
      BY <2>1 DEF ServeOther, RefuseJoin, AdmitJoin, RoomJoin, outVars
    <3> QED
      BY <3>1, <3>2, QuietStep DEF StreamMoves
  <2>2. CASE SendReply(c)
    <3>1. PushAsItWas
      BY <1>0, <2>2 DEF SendReply, pushVars, PushAsItWas
    <3>2. PICK k \in Chunk : k.part = "whole" /\ Deliver(c, k)
      <4>1. \A ids \in SUBSET Nat : /\ Whole(OtherReply, ids) \in Chunk
                                    /\ Whole(OtherReply, ids).part = "whole"
                                    /\ Whole(JoinReply, ids) \in Chunk
                                    /\ Whole(JoinReply, ids).part = "whole"
        BY DEF Whole, Chunk
      <4>2. {} \in SUBSET Nat /\ {fresh[c]} \in SUBSET Nat
        BY DEF StreamInv, LockInv, TypeInv, TypeOK
      <4> QED
        BY <2>2, <4>1, <4>2 DEF SendReply, Admission
    <3>3. \A d \in Conn : StreamMoves(wire[d], wire'[d])
      <4>1. \A d \in Conn : wire'[d] = wire[d] \/ wire'[d] = Append(wire[d], k)
        BY <1>0, <3>2 DEF Deliver
      <4> QED
        BY <3>2, <4>1 DEF StreamMoves
    <3> QED
      BY <3>1, <3>3, QuietStep
  <2>3. CASE CloseSocket(c)
    <3>1. PushAsItWas
      BY <1>0, <2>3 DEF CloseSocket, pushVars, PushAsItWas
    <3>2. \A d \in Conn : StreamMoves(wire[d], wire'[d])
      BY <1>0, <2>3 DEF CloseSocket, StreamMoves
    <3> QED
      BY <3>1, <3>2, QuietStep
  <2>4. CASE BeginRoster(c) \/ BeginChat(c) \/ BeginLeave(c)
    BY <1>0, <2>4, ClosedStep DEF BeginRoster, BeginChat, BeginLeave, BeginPush, outVars
  <2>5. CASE EndPush(c)
    BY <1>0, <2>5, ClosedStep DEF EndPush, Pushing, outVars
  <2> QED
    BY <1>3, <2>1, <2>2, <2>3, <2>4, <2>5, HeaderStep, PayloadStep DEF Thread
<1>4. CASE UNCHANGED vars
  BY <1>0, <1>4, QuietStep DEF vars, PushAsItWas, StreamMoves
<1> QED
  BY <1>1, <1>2, <1>3, <1>4 DEF Next, AllGone

LEMMA StreamInvariant == Spec => []StreamInv
<1>1. Init => StreamInv
  <2>1. Init => GoneUnread /\ OpenHeaders /\ PushesSerialised
    BY DEF Init, GoneUnread, OpenHeaders, PushesSerialised
  <2>2. Init => LockHeld /\ HalfPushed
    BY RoomAssumption DEF Init, LockHeld, HalfPushed
  <2> QED
    BY <2>1, <2>2, TypeInit DEF StreamInv, LockInv
<1> QED
  BY <1>1, StreamStep, PTL DEF Spec

(* A header is followed by its own payload, replies aside: pushes hold     *)
(* g_lock from their first send() to their last.                           *)
THEOREM PushesInOrder == Spec => []PushesSerialised
<1>1. StreamInv => PushesSerialised
  BY DEF StreamInv
<1> QED
  BY <1>1, StreamInvariant, PTL

-----------------------------------------------------------------------------
(* Seats, when a member does not ask to join again. *)

SeatInv == TypeInv /\ OneSeat /\ NoSeatAsked /\ NoGhosts

(* A step that leaves the member lists and the ports alone and takes no    *)
(* thread to its end.                                                      *)
LEMMA SeatsKept ==
  ASSUME SeatInv, members' = members, port' = port,
         \A c \in Conn :
           pc'[c] \in {"none", "leave", "close"} => pc[c] \in {"none", "leave", "close"},
         \A c \in Conn :
           req'[c].kind = "join" => req[c].kind = "join" \/ OnSocket(Room(c), c) = {}
  PROVE  OneSeat' /\ NoSeatAsked' /\ NoGhosts'
<1>0. members \in [Port -> SUBSET Member]
  BY DEF SeatInv, TypeInv, TypeOK
<1>1. \A c \in Conn : OnSocket(Room(c), c)' = OnSocket(Room(c), c)
  BY DEF OnSocket, Room
<1>2. OneSeat' /\ NoSeatAsked'
  BY <1>1 DEF SeatInv, OneSeat, NoSeatAsked
<1>3. NoGhosts'
  <2> SUFFICES ASSUME NEW p \in Port, NEW m \in members[p]
               PROVE  port[m.sock] = p /\ pc'[m.sock] \notin {"none", "leave", "close"}
    BY DEF NoGhosts
  <2>1. m.sock \in Conn
    BY <1>0 DEF Member
  <2> QED
    BY <2>1 DEF SeatInv, NoGhosts
<1> QED
  BY <1>2, <1>3

(* Nobody asks for a second seat on a connection: what the steps need of   *)
(* the clients.  With Rejoin FALSE every step is like that.                *)
AsksUnseated ==
  \A c \in Conn :
    req'[c].kind = "join" => req[c].kind = "join" \/ OnSocket(Room(c), c) = {}

(* A thread only ever takes a request. *)
LEMMA ThreadTakes ==
  ASSUME TypeInv, NEW c \in Conn, Thread(c), NEW d \in Conn
  PROVE  req'[d] = req[d] \/ req'[d] = NoReq
<1>0. req \in [Conn -> Request]
  BY DEF TypeInv, TypeOK
<1> QED
  BY <1>0 DEF Thread, ServeOther, RefuseJoin, AdmitJoin, RoomJoin, SendReply,
     BeginRoster, BeginChat, BeginLeave, SendHeader, SendPayload, EndPush, CloseSocket,
     Take, clientVars

LEMMA NoRejoin ==
  ASSUME Rejoin = FALSE, TypeInv, [Next]_vars
  PROVE  AsksUnseated
<1>0. req \in [Conn -> Request]
  BY DEF TypeInv, TypeOK
<1>1. ASSUME NEW c \in Conn, Client(c)
      PROVE  AsksUnseated
  BY <1>0, <1>1 DEF Client, SendRequest, ClientRead, PeerClose, clientVars, AsksUnseated
<1>2. ASSUME NEW c \in Conn, Thread(c)
      PROVE  AsksUnseated
  BY <1>2, ThreadTakes DEF AsksUnseated, NoReq
<1>3. CASE req' = req
  BY <1>3 DEF AsksUnseated
<1> QED
  BY <1>1, <1>2, <1>3 DEF Next, AllGone, vars, Accept

LEMMA SeatStep ==
  ASSUME AsksUnseated, SeatInv, [Next]_vars
  PROVE  SeatInv'
<1> SUFFICES OneSeat' /\ NoSeatAsked' /\ NoGhosts'
  BY TypeStep DEF SeatInv
<1>0. /\ pc \in [Conn -> Status]
      /\ port \in [Conn -> Port]
      /\ members \in [Port -> SUBSET Member]
      /\ req \in [Conn -> Request]
      /\ \A p \in Port : \A m \in members[p] :
           m.sock \in Conn /\ port[m.sock] = p
           /\ pc[m.sock] \notin {"none", "leave", "close"}
  BY DEF SeatInv, TypeInv, TypeOK, NoGhosts, Member
<1>1. ASSUME NEW c \in Conn, NEW p \in Port, Accept(c, p)
      PROVE  OneSeat' /\ NoSeatAsked' /\ NoGhosts'
  <2>1. /\ pc[c] = "none" /\ pc' = [pc EXCEPT ![c] = "recv"]
        /\ port' = [port EXCEPT ![c] = p] /\ req' = req /\ members' = members
    BY <1>1 DEF Accept, roomVars
  <2>2. \A q \in Port : \A m \in members[q] : m.sock # c
    BY <1>0, <2>1
  <2>3. NoGhosts'
    <3> SUFFICES ASSUME NEW q \in Port, NEW m \in members[q]
                 PROVE  port'[m.sock] = q /\ pc'[m.sock] \notin {"none", "leave", "close"}
      BY <2>1 DEF NoGhosts
    <3> QED
      BY <1>0, <2>1, <2>2
  <2>4. \A d \in Conn : OnSocket(Room(d), d)' = IF d = c THEN {} ELSE OnSocket(Room(d), d)
    BY <1>0, <2>1, <2>2 DEF OnSocket, Room
  <2>5. OneSeat' /\ NoSeatAsked'
    BY <2>1, <2>4 DEF SeatInv, OneSeat, NoSeatAsked
  <2> QED
    BY <2>3, <2>5
<1>2. ASSUME NEW c \in Conn, Client(c)
      PROVE  OneSeat' /\ NoSeatAsked' /\ NoGhosts'
  <2>1. members' = members /\ port' = port /\ pc' = pc
    BY <1>2 DEF Client, SendRequest, ClientRead, PeerClose, roomVars
  <2>2. \A d \in Conn : req'[d].kind = "join" =>
           req[d].kind = "join" \/ OnSocket(Room(d), d) = {}
    BY DEF AsksUnseated
  <2> QED
    BY <2>1, <2>2, SeatsKept
<1>3. ASSUME NEW c \in Conn, Thread(c)
      PROVE  OneSeat' /\ NoSeatAsked' /\ NoGhosts'
  <2>1. CASE RoomJoin(c) /\ members' # members
    <3> DEFINE new == NewMember(c, req[c].name)
    <3>1. /\ members' = [members EXCEPT ![port[c]] = members[port[c]] \cup {new}]
          /\ port' = port /\ pc[c] = "joining" /\ pc' = [pc EXCEPT ![c] = "answerJoin"]
          /\ req' = [req EXCEPT ![c] = NoReq]
      BY <2>1 DEF RoomJoin, roomVars, NewMember, Room
    <3>2. new.sock = c
      BY DEF NewMember
    <3>3. OnSocket(Room(c), c) = {}
      BY <3>1 DEF SeatInv, TypeInv, JoinsNamed, NoSeatAsked
    <3> HIDE DEF new
    <3>4. \A d \in Conn : OnSocket(Room(d), d)' =
                             IF d = c THEN {new} ELSE OnSocket(Room(d), d)
      BY <1>0, <3>1, <3>2, <3>3 DEF OnSocket, Room
    <3>5. OneSeat'
      BY <3>4 DEF SeatInv, OneSeat
    <3>6. NoSeatAsked'
      BY <1>0, <3>1, <3>4 DEF SeatInv, NoSeatAsked, NoReq
    <3>7. NoGhosts'
      <4> SUFFICES ASSUME NEW q \in Port, NEW m \in members'[q]
                   PROVE  port[m.sock] = q /\ pc'[m.sock] \notin {"none", "leave", "close"}
        BY <3>1 DEF NoGhosts
      <4>1. m \in members[q] \/ (m = new /\ q = port[c])
        BY <1>0, <3>1
      <4> QED
        BY <1>0, <3>1, <3>2, <4>1
    <3> QED
      BY <3>5, <3>6, <3>7
  <2>2. CASE RoomJoin(c) /\ members' = members
    BY <1>0, <2>2, SeatsKept DEF RoomJoin, NoReq
  <2>3. CASE BeginLeave(c)
    <3>1. /\ members' = [members EXCEPT ![port[c]] = members[port[c]] \ Departs(c)]
          /\ port' = port /\ pc' = [pc EXCEPT ![c] = "leave"] /\ req' = req
      BY <2>3 DEF BeginLeave, Room, clientVars
    <3>2. Departs(c) = OnSocket(Room(c), c)
      <4>1. OnSocket(Room(c), c) \in SUBSET Member
        BY <1>0 DEF OnSocket, Room
      <4>2. \A m \in OnSocket(Room(c), c) : m = Oldest(OnSocket(Room(c), c))
        BY <4>1, OldestIsMember DEF SeatInv, OneSeat
      <4> QED
        BY <4>2 DEF Departs
    <3>3. \A d \in Conn : OnSocket(Room(d), d)' =
                             IF d = c THEN {} ELSE OnSocket(Room(d), d)
      BY <1>0, <3>1, <3>2 DEF OnSocket, Room
    <3>4. OneSeat' /\ NoSeatAsked'
      BY <3>1, <3>3 DEF SeatInv, OneSeat, NoSeatAsked
    <3>5. NoGhosts'
      <4> SUFFICES ASSUME NEW q \in Port, NEW m \in members'[q]
                   PROVE  port[m.sock] = q /\ pc'[m.sock] \notin {"none", "leave", "close"}
        BY <3>1 DEF NoGhosts
      <4>1. m \in members[q] /\ m.sock # c
        BY <1>0, <3>1, <3>2 DEF OnSocket, Room
      <4> QED
        BY <1>0, <3>1, <4>1
    <3> QED
      BY <3>4, <3>5
  <2>4. CASE ServeOther(c) \/ RefuseJoin(c) \/ AdmitJoin(c) \/ BeginRoster(c) \/ BeginChat(c)
    BY <1>0, <2>4, SeatsKept DEF ServeOther, RefuseJoin, AdmitJoin, BeginRoster, BeginChat,
       Take, NoReq, clientVars, roomVars
  <2>5. CASE SendReply(c) \/ SendHeader(c) \/ SendPayload(c) \/ EndPush(c)
    BY <1>0, <2>5, SeatsKept DEF SendReply, SendHeader, SendPayload, NextTarget, EndPush,
       clientVars, roomVars
  <2>6. CASE CloseSocket(c)
    BY <1>0, <2>6, SeatsKept DEF CloseSocket, NoReq, roomVars
  <2> QED
    BY <1>3, <2>1, <2>2, <2>3, <2>4, <2>5, <2>6 DEF Thread
<1>4. CASE UNCHANGED vars
  BY <1>4, SeatsKept DEF vars
<1> QED
  BY <1>1, <1>2, <1>3, <1>4 DEF Next, AllGone

LEMMA SeatInvariant ==
  ASSUME Rejoin = FALSE
  PROVE  Spec => []SeatInv
<1>1. Init => SeatInv
  <2>1. Init => OneSeat /\ NoSeatAsked /\ NoGhosts
    <3>1. (CHOOSE p \in Port : TRUE) \in Port
      BY RoomAssumption
    <3> QED
      BY <3>1 DEF Init, OneSeat, NoSeatAsked, NoGhosts, OnSocket, Room, NoReq
  <2> QED
    BY <2>1, TypeInit DEF SeatInv
<1>2. SeatInv /\ [Next]_vars => SeatInv'
  BY SeatStep, NoRejoin DEF SeatInv
<1> QED
  BY <1>1, <1>2, PTL DEF Spec

(* A room lists nobody whose thread has left it, as long as a member does  *)
(* not ask to join again on its connection.                                *)
THEOREM NoGhostMembers ==
  ASSUME Rejoin = FALSE
  PROVE  Spec => []NoGhosts
<1>1. SeatInv => NoGhosts
  BY DEF SeatInv
<1> QED
  BY <1>1, SeatInvariant, PTL

-----------------------------------------------------------------------------
(* The books: who holds the lock, whose frame is half sent and where, who   *)
(* has a seat and which ids are handed out (all of wonserver_room.cpp).     *)
THEOREM BooksKept == Spec => []Bookkeeping
<1>1. CASE Rejoin = FALSE
  <2>1. StreamInv /\ SeatInv => Bookkeeping
    BY DEF StreamInv, SeatInv, LockInv, TypeInv, Bookkeeping
  <2> QED
    BY <1>1, <2>1, StreamInvariant, SeatInvariant, PTL
<1>2. CASE Rejoin = TRUE
  <2>1. StreamInv => Bookkeeping
    BY <1>2 DEF StreamInv, LockInv, TypeInv, Bookkeeping
  <2> QED
    BY <2>1, StreamInvariant, PTL
<1> QED
  BY <1>1, <1>2, RoomAssumption

-----------------------------------------------------------------------------
(* The threads of WonRoom implement RoomBook: every step of theirs is a    *)
(* step of the abstract room, or leaves it alone.                          *)

(* What the steps need to know of a state. *)
ServiceInv == SeatInv /\ LockInv /\ UniqueIds /\ UniqueNicks /\ Manners

LEMMA Shapes ==
  ASSUME SeatInv, LockInv
  PROVE  /\ pc \in [Conn -> Status]
         /\ port \in [Conn -> Port]
         /\ peerUp \in [Conn -> BOOLEAN]
         /\ members \in [Port -> SUBSET Member]
         /\ todo \in [Conn -> SUBSET Member]
         /\ frame \in [Conn -> Frame]
         /\ fresh \in [Conn -> Nat]
         /\ told \in [Conn -> SUBSET Nat]
         /\ nextId \in Nat \ {0}
         /\ NoThread \notin Conn
         /\ roomLock \in Conn \cup {NoThread}
         /\ \A c \in Conn : pc[c] \in {"pushRoster", "push", "leave"} <=> roomLock = c
         /\ \A p \in Port : \A m \in members[p] :
              /\ m.sock \in Conn /\ port[m.sock] = p
              /\ pc[m.sock] \notin {"none", "leave", "close"}
BY RoomAssumption DEF SeatInv, LockInv, TypeInv, TypeOK, LockHeld, NoGhosts, Member

-----------------------------------------------------------------------------
(* Manners are kept. *)

LEMMA NobodyThereStep ==
  ASSUME SeatInv, LockInv, NobodyThere, [Next]_vars
  PROVE  NobodyThere'
<1>0. pc \in [Conn -> Status] /\ peerUp \in [Conn -> BOOLEAN]
  BY Shapes
<1>1. ASSUME NEW c \in Conn, NEW p \in Port, Accept(c, p)
      PROVE  NobodyThere'
  BY <1>0, <1>1 DEF NobodyThere, Accept
<1>2. ASSUME NEW c \in Conn, Client(c)
      PROVE  NobodyThere'
  BY <1>0, <1>2 DEF NobodyThere, Client, SendRequest, ClientRead, PeerClose, clientVars
<1>3. ASSUME NEW c \in Conn, Thread(c)
      PROVE  NobodyThere'
  <2>1. CASE CloseSocket(c)
    BY <1>0, <2>1 DEF NobodyThere, CloseSocket
  <2>2. CASE ~CloseSocket(c)
    <3>1. peerUp' = peerUp
      BY <1>3, <2>2 DEF Thread, ServeOther, RefuseJoin, AdmitJoin, RoomJoin, SendReply,
         BeginRoster, BeginChat, BeginLeave, SendHeader, SendPayload, EndPush, clientVars
    <3>2. \A d \in Conn : pc'[d] = "none" => pc[d] = "none"
      BY <1>0, <1>3, <2>2 DEF Thread, ServeOther, RefuseJoin, AdmitJoin, RoomJoin, SendReply,
         BeginRoster, BeginChat, BeginLeave, SendHeader, SendPayload, NextTarget, EndPush
    <3> QED
      BY <3>1, <3>2 DEF NobodyThere
  <2> QED
    BY <2>1, <2>2
<1>4. CASE UNCHANGED vars
  BY <1>4 DEF NobodyThere, vars
<1> QED
  BY <1>1, <1>2, <1>3, <1>4 DEF Next, AllGone

(* A step that leaves the members, the push under way and the pushing      *)
(* threads alone keeps the audience.                                       *)
LEMMA AudienceKept ==
  ASSUME AudienceSeated, members' = members, todo' = todo, frame' = frame,
         \A c \in Conn : pc'[c] \in {"pushRoster", "push", "leave"} =>
                           pc'[c] = pc[c] /\ port'[c] = port[c]
  PROVE  AudienceSeated'
BY DEF AudienceSeated, Room, Others, OnSocket

LEMMA AudienceStep ==
  ASSUME SeatInv, LockInv, AudienceSeated, [Next]_vars
  PROVE  AudienceSeated'
<1>0. /\ pc \in [Conn -> Status]
      /\ port \in [Conn -> Port]
      /\ members \in [Port -> SUBSET Member]
      /\ todo \in [Conn -> SUBSET Member]
      /\ frame \in [Conn -> Frame]
      /\ NoThread \notin Conn
      /\ \A c \in Conn : pc[c] \in {"pushRoster", "push", "leave"} <=> roomLock = c
  BY Shapes
<1>1. ASSUME NEW c \in Conn, NEW p \in Port, Accept(c, p)
      PROVE  AudienceSeated'
  BY <1>0, <1>1, AudienceKept DEF Accept, roomVars, pushVars
<1>2. ASSUME NEW c \in Conn, Client(c)
      PROVE  AudienceSeated'
  BY <1>2, AudienceKept DEF Client, SendRequest, ClientRead, PeerClose, roomVars, pushVars
<1>3. ASSUME NEW c \in Conn, Thread(c)
      PROVE  AudienceSeated'
  <2>1. CASE ServeOther(c) \/ RefuseJoin(c) \/ AdmitJoin(c) \/ SendReply(c) \/ CloseSocket(c)
    BY <1>0, <2>1, AudienceKept DEF ServeOther, RefuseJoin, AdmitJoin, SendReply, CloseSocket,
       Take, clientVars, roomVars, pushVars
  <2>2. CASE RoomJoin(c)
    <3>1. \A d \in Conn : pc'[d] \notin {"pushRoster", "push", "leave"}
      BY <1>0, <2>2 DEF RoomJoin
    <3> QED
      BY <3>1 DEF AudienceSeated
  <2>3. CASE BeginRoster(c)
    <3>1. \A d \in Conn : d # c => pc'[d] \notin {"pushRoster", "push", "leave"}
      BY <1>0, <2>3 DEF BeginRoster, BeginPush
    <3>2. /\ todo'[c] = Others(c) /\ frame'[c].msg = UsersHere
          /\ port' = port /\ members' = members
      BY <1>0, <2>3 DEF BeginRoster, BeginPush, roomVars
    <3>3. Others(c) \subseteq Room(c) /\ Others(c)' = Others(c) /\ Room(c)' = Room(c)
      BY <3>2 DEF Others, OnSocket, Room
    <3> QED
      BY <3>1, <3>2, <3>3 DEF AudienceSeated
  <2>4. CASE BeginChat(c)
    <3>1. \A d \in Conn : d # c => pc'[d] \notin {"pushRoster", "push", "leave"}
      BY <1>0, <2>4 DEF BeginChat, BeginPush
    <3>2. /\ todo'[c] = Room(c) /\ pc'[c] = "push" /\ port' = port /\ members' = members
      BY <1>0, <2>4 DEF BeginChat, BeginPush, ChatAudience, roomVars
    <3> QED
      BY <3>1, <3>2 DEF AudienceSeated, Room
  <2>5. CASE BeginLeave(c)
    <3>1. \A d \in Conn : d # c => pc'[d] \notin {"pushRoster", "push", "leave"}
      BY <1>0, <2>5 DEF BeginLeave, BeginPush
    <3>2. /\ members' = [members EXCEPT ![port[c]] = Room(c) \ Departs(c)]
          /\ todo'[c] \subseteq Room(c) \ Departs(c)
          /\ pc'[c] = "leave" /\ port' = port
      BY <1>0, <2>5 DEF BeginLeave, BeginPush
    <3>3. Room(c)' = Room(c) \ Departs(c)
      BY <1>0, <3>2 DEF Room
    <3> QED
      BY <3>1, <3>2, <3>3 DEF AudienceSeated
  <2>6. CASE SendHeader(c) \/ SendPayload(c)
    <3>1. members' = members /\ port' = port
      BY <2>6 DEF SendHeader, SendPayload, roomVars
    <3>2. \/ pc' = pc /\ todo' = todo /\ frame' = frame
          \/ NextTarget(c)
      BY <2>6 DEF SendHeader, SendPayload
    <3>3. CASE pc' = pc /\ todo' = todo /\ frame' = frame
      BY <3>1, <3>3, AudienceKept
    <3>4. CASE NextTarget(c)
      <4>1. \A d \in Conn : d # c => pc'[d] = pc[d] /\ todo'[d] = todo[d] /\ frame'[d] = frame[d]
        BY <1>0, <3>4 DEF NextTarget
      <4>2. todo'[c] \subseteq todo[c] /\ pc'[c] # "pushRoster"
        BY <1>0, <3>4 DEF NextTarget
      <4>3. pc[c] \in {"pushRoster", "push", "leave"}
        BY <2>6 DEF SendHeader, SendPayload, Pushing
      <4> QED
        BY <3>1, <4>1, <4>2, <4>3 DEF AudienceSeated, Room, Others, OnSocket
    <3> QED
      BY <3>2, <3>3, <3>4
  <2>7. CASE EndPush(c)
    <3>1. /\ members' = members /\ port' = port /\ todo' = todo
          /\ pc' = [pc EXCEPT ![c] = IF pc[c] = "push" THEN "recv" ELSE "close"]
          /\ frame' = [frame EXCEPT ![c] = NoFrame]
      BY <2>7 DEF EndPush, clientVars, roomVars
    <3>2. \A d \in Conn : d # c => pc'[d] = pc[d] /\ frame'[d] = frame[d]
      BY <1>0, <3>1
    <3>3. pc'[c] \notin {"pushRoster", "push", "leave"}
      BY <1>0, <3>1
    <3> QED
      BY <3>1, <3>2, <3>3 DEF AudienceSeated, Room, Others, OnSocket
  <2> QED
    BY <1>3, <2>1, <2>2, <2>3, <2>4, <2>5, <2>6, <2>7 DEF Thread
<1>4. CASE UNCHANGED vars
  BY <1>4, AudienceKept DEF vars
<1> QED
  BY <1>1, <1>2, <1>3, <1>4 DEF Next, AllGone

LEMMA TurnedAwayStep ==
  ASSUME SeatInv, LockInv, TurnedAway, [Next]_vars
  PROVE  TurnedAway'
<1>0. /\ pc \in [Conn -> Status]
      /\ port \in [Conn -> Port]
      /\ members \in [Port -> SUBSET Member]
      /\ fresh \in [Conn -> Nat]
      /\ nextId # 0
  BY Shapes
<1>1. ASSUME members' = members, port' = port,
             \A c \in Conn : pc'[c] = "answerJoin" => pc[c] = "answerJoin" /\ fresh'[c] = fresh[c]
      PROVE  TurnedAway'
  BY <1>1 DEF TurnedAway, OnSocket, Room
<1>2. ASSUME NEW c \in Conn, NEW p \in Port, Accept(c, p)
      PROVE  TurnedAway'
  BY <1>0, <1>2 DEF Accept, roomVars, TurnedAway, OnSocket, Room
<1>3. ASSUME NEW c \in Conn, Client(c)
      PROVE  TurnedAway'
  BY <1>1, <1>3 DEF Client, SendRequest, ClientRead, PeerClose, roomVars
<1>4. ASSUME NEW c \in Conn, Thread(c)
      PROVE  TurnedAway'
  <2>1. CASE RoomJoin(c)
    <3>1. OnSocket(Room(c), c) = {}
      BY <2>1 DEF RoomJoin, SeatInv, TypeInv, JoinsNamed, NoSeatAsked
    <3>2. port' = port /\ pc' = [pc EXCEPT ![c] = "answerJoin"]
      BY <2>1 DEF RoomJoin
    <3>3. CASE members' = members
      BY <1>0, <2>1, <3>1, <3>2, <3>3 DEF RoomJoin, TurnedAway, OnSocket, Room
    <3>4. CASE members' # members
      <4> DEFINE new == NewMember(c, req[c].name)
      <4>1. /\ members' = [members EXCEPT ![port[c]] = members[port[c]] \cup {new}]
            /\ fresh' = [fresh EXCEPT ![c] = nextId]
        BY <2>1, <3>4 DEF RoomJoin, roomVars, NewMember, Room
      <4>2. new.sock = c
        BY DEF NewMember
      <4> HIDE DEF new
      <4>3. \A d \in Conn : d # c => OnSocket(Room(d), d)' = OnSocket(Room(d), d)
        BY <1>0, <3>2, <4>1, <4>2 DEF OnSocket, Room
      <4> QED
        BY <1>0, <3>2, <4>1, <4>3 DEF TurnedAway
    <3> QED
      BY <3>3, <3>4
  <2>2. CASE BeginLeave(c)
    <3>1. /\ members' = [members EXCEPT ![port[c]] = Room(c) \ Departs(c)]
          /\ port' = port /\ fresh' = fresh /\ pc' = [pc EXCEPT ![c] = "leave"]
      BY <2>2 DEF BeginLeave
    <3>2. \A d \in Conn : OnSocket(Room(d), d)' \subseteq OnSocket(Room(d), d)
      BY <1>0, <3>1 DEF OnSocket, Room
    <3> QED
      BY <1>0, <3>1, <3>2 DEF TurnedAway
  <2>3. CASE ServeOther(c) \/ RefuseJoin(c) \/ AdmitJoin(c) \/ SendReply(c) \/ CloseSocket(c)
    BY <1>0, <1>1, <2>3 DEF ServeOther, RefuseJoin, AdmitJoin, SendReply, CloseSocket,
       clientVars, roomVars
  <2>4. CASE BeginRoster(c) \/ BeginChat(c) \/ EndPush(c)
    BY <1>0, <1>1, <2>4 DEF BeginRoster, BeginChat, EndPush, clientVars, roomVars
  <2>5. CASE SendHeader(c) \/ SendPayload(c)
    BY <1>0, <1>1, <2>5 DEF SendHeader, SendPayload, NextTarget, clientVars, roomVars
  <2> QED
    BY <1>4, <2>1, <2>2, <2>3, <2>4, <2>5 DEF Thread
<1>5. CASE UNCHANGED vars
  BY <1>1, <1>5 DEF vars
<1> QED
  BY <1>2, <1>3, <1>4, <1>5 DEF Next, AllGone

LEMMA ServiceInit == Init => ServiceInv
<1>1. Init => Manners
  BY DEF Init, Manners, NobodyThere, AudienceSeated, TurnedAway
<1>2. Init => UniqueIds /\ UniqueNicks
  BY DEF Init, UniqueIds, UniqueNicks
<1>3. Init => OneSeat /\ NoSeatAsked /\ NoGhosts
  <2>1. (CHOOSE p \in Port : TRUE) \in Port
    BY RoomAssumption
  <2> QED
    BY <2>1 DEF Init, OneSeat, NoSeatAsked, NoGhosts, OnSocket, Room, NoReq
<1>4. Init => LockHeld /\ HalfPushed
  BY RoomAssumption DEF Init, LockHeld, HalfPushed
<1> QED
  BY <1>1, <1>2, <1>3, <1>4, TypeInit DEF ServiceInv, SeatInv, LockInv

LEMMA ServiceStep ==
  ASSUME AsksUnseated, ServiceInv, [Next]_vars
  PROVE  ServiceInv'
<1>1. SeatInv'
  BY SeatStep DEF ServiceInv
<1>2. LockInv'
  BY LockStep DEF ServiceInv
<1>3. UniqueIds' /\ UniqueNicks'
  BY IdsStep, NicksStep DEF ServiceInv, SeatInv
<1>4. Manners'
  BY NobodyThereStep, AudienceStep, TurnedAwayStep DEF ServiceInv, Manners
<1> QED
  BY <1>1, <1>2, <1>3, <1>4 DEF ServiceInv

LEMMA ServiceInvariant ==
  ASSUME Rejoin = FALSE
  PROVE  Spec => []ServiceInv
<1>1. ServiceInv /\ [Next]_vars => ServiceInv'
  BY ServiceStep, NoRejoin DEF ServiceInv, SeatInv
<1> QED
  BY <1>1, ServiceInit, PTL DEF Spec

(* The audience of a push under way is seated, one seat each, and a roster  *)
(* goes to everyone but the joiner: what Room_PushRoster and the broadcasts *)
(* read of the member lists stays true until their last send().            *)
THEOREM MannersKept ==
  ASSUME Rejoin = FALSE
  PROVE  Spec => []Manners
<1>1. ServiceInv => Manners
  BY DEF ServiceInv
<1> QED
  BY <1>1, ServiceInvariant, PTL

-----------------------------------------------------------------------------
(* Steps the abstract room does not see. *)

(* The abstract room stands still when seats, introductions, books and     *)
(* listeners do.                                                           *)
StandsStill ==
  /\ members' = members
  /\ Introduced' = Introduced
  /\ \A c \in Conn : Settled(c)' = Settled(c)
  /\ peerUp' = peerUp

LEMMA BookStutters ==
  ASSUME StandsStill
  PROVE  UNCHANGED Book!bookVars
BY DEF StandsStill, Book!bookVars

LEMMA IntroducedKept ==
  ASSUME ServiceInv, members' = members,
         \A p \in Port : \A m \in members[p] :
           pc'[m.sock] \in {"answerJoin", "roster"} <=> pc[m.sock] \in {"answerJoin", "roster"}
  PROVE  Introduced' = Introduced
BY DEF Introduced

(* The push under way, and what has been heard, are as they were. *)
PushKept ==
  /\ roomLock' = roomLock /\ frame' = frame /\ todo' = todo
  /\ roomLock \in Conn => pc'[roomLock] = pc[roomLock]
  /\ members' = members /\ port' = port /\ told' = told

LEMMA SettledKept ==
  ASSUME ServiceInv, PushKept, NEW c \in Conn, peerUp'[c] = peerUp[c]
  PROVE  Settled(c)' = Settled(c)
<1>1. roomLock = NoThread \/ roomLock \in Conn
  BY Shapes DEF ServiceInv
<1>2. \A h : Newcomer(h)' = Newcomer(h) /\ Awaiting(h)' = Awaiting(h)
  BY DEF PushKept, Newcomer, Awaiting, OnSocket, Room
<1>3. CASE roomLock = NoThread
  BY <1>3 DEF PushKept, Settled
<1>4. CASE roomLock \in Conn
  BY <1>2, <1>4 DEF PushKept, Settled, AfterRoster, AfterPush
<1> QED
  BY <1>1, <1>3, <1>4

(* The steps of a thread that neither pushes nor moves members. *)
LEMMA QuietThread ==
  ASSUME ServiceInv, NEW c \in Conn,
         ServeOther(c) \/ RefuseJoin(c) \/ AdmitJoin(c) \/ SendReply(c)
  PROVE  StandsStill
<1>0. /\ pc \in [Conn -> Status] /\ roomLock \in Conn \cup {NoThread}
      /\ NoThread \notin Conn
      /\ \A d \in Conn : pc[d] \in {"pushRoster", "push", "leave"} <=> roomLock = d
      /\ \A p \in Port : \A m \in members[p] : m.sock \in Conn /\ port[m.sock] = p
  BY Shapes DEF ServiceInv
<1>1. members' = members /\ port' = port /\ told' = told /\ peerUp' = peerUp
      /\ roomLock' = roomLock /\ frame' = frame /\ todo' = todo
  BY DEF ServeOther, RefuseJoin, AdmitJoin, SendReply, clientVars, roomVars, pushVars, outVars
<1>2. pc[c] \notin {"pushRoster", "push", "leave"}
      /\ \A d \in Conn : d # c => pc'[d] = pc[d]
  BY <1>0 DEF ServeOther, RefuseJoin, AdmitJoin, SendReply, Take
<1>3. PushKept
  <2>1. roomLock # c
    BY <1>0, <1>2
  <2> QED
    BY <1>0, <1>1, <1>2, <2>1 DEF PushKept
<1>4. \/ pc'[c] \in {"answerJoin", "roster"} <=> pc[c] \in {"answerJoin", "roster"}
      \/ pc[c] = "answerJoin" /\ fresh[c] = 0
  BY <1>0 DEF ServeOther, RefuseJoin, AdmitJoin, SendReply, Take
<1>5. pc[c] = "answerJoin" /\ fresh[c] = 0 => \A m \in Room(c) : m.sock # c
  BY DEF ServiceInv, Manners, TurnedAway, OnSocket
<1>6. Introduced' = Introduced
  <2> SUFFICES ASSUME NEW p \in Port, NEW m \in members[p]
               PROVE  pc'[m.sock] \in {"answerJoin", "roster"}
                        <=> pc[m.sock] \in {"answerJoin", "roster"}
    BY <1>1, IntroducedKept
  <2>1. m.sock = c => m \in Room(c)
    BY <1>0 DEF Room
  <2> QED
    BY <1>0, <1>2, <1>4, <1>5, <2>1
<1> QED
  BY <1>1, <1>3, <1>6, SettledKept DEF StandsStill

LEMMA QuietClient ==
  ASSUME ServiceInv, NEW c \in Conn, Client(c), ~PeerClose(c)
  PROVE  StandsStill
<1>1. PushKept /\ peerUp' = peerUp /\ pc' = pc
  BY DEF Client, SendRequest, ClientRead, clientVars, roomVars, pushVars, outVars, PushKept
<1>2. Introduced' = Introduced
  BY <1>1, IntroducedKept DEF PushKept
<1> QED
  BY <1>1, <1>2, SettledKept DEF StandsStill, PushKept

-----------------------------------------------------------------------------
(* A client comes, a client goes. *)

LEMMA AcceptComes ==
  ASSUME ServiceInv, NEW c \in Conn, NEW p \in Port, Accept(c, p)
  PROVE  Book!Come(c)
<1>0. /\ pc \in [Conn -> Status] /\ roomLock \in Conn \cup {NoThread}
      /\ port \in [Conn -> Port] /\ peerUp \in [Conn -> BOOLEAN]
      /\ members \in [Port -> SUBSET Member]
      /\ NoThread \notin Conn
      /\ \A d \in Conn : pc[d] \in {"pushRoster", "push", "leave"} <=> roomLock = d
      /\ \A q \in Port : \A m \in members[q] :
           m.sock \in Conn /\ port[m.sock] = q /\ pc[m.sock] # "none"
  BY Shapes DEF ServiceInv
<1>1. /\ pc[c] = "none" /\ pc' = [pc EXCEPT ![c] = "recv"]
      /\ port' = [port EXCEPT ![c] = p] /\ peerUp' = [peerUp EXCEPT ![c] = TRUE]
      /\ members' = members /\ roomLock' = roomLock /\ frame' = frame /\ todo' = todo
      /\ told' = told
  BY DEF Accept, roomVars, pushVars, outVars
<1>2. ~peerUp[c] /\ \A q \in Port : \A m \in members[q] : m.sock # c
  BY <1>0, <1>1 DEF ServiceInv, Manners, NobodyThere
<1>3. Introduced' = Introduced
  BY <1>0, <1>1, <1>2, IntroducedKept
<1>4. \A d \in Conn : Settled(d)' = Settled(d)
  <2> SUFFICES ASSUME NEW d \in Conn PROVE Settled(d)' = Settled(d)
    OBVIOUS
  <2>1. CASE roomLock = NoThread
    BY <1>1, <2>1 DEF Settled
  <2>2. CASE roomLock \in Conn
    <3> DEFINE h == roomLock
    <3>1. h # c /\ pc'[h] = pc[h] /\ port'[h] = port[h]
      BY <1>0, <1>1, <2>2
    <3>2. c \notin Awaiting(h)
      BY <1>0, <1>2, <2>2 DEF ServiceInv, Manners, AudienceSeated, Awaiting, Room
    <3>3. Awaiting(h)' = Awaiting(h) /\ Newcomer(h)' = Newcomer(h)
      BY <1>1, <3>1 DEF Awaiting, Newcomer, OnSocket, Room
    <3>4. CASE d = c
      BY <1>0, <1>1, <1>2, <3>1, <3>2, <3>3, <3>4 DEF Settled, AfterRoster, AfterPush
    <3>5. CASE d # c
      BY <1>0, <1>1, <3>1, <3>3, <3>5 DEF Settled, AfterRoster, AfterPush
    <3> QED
      BY <3>4, <3>5
  <2> QED
    BY <1>0, <2>1, <2>2
<1>5. {d \in Conn : peerUp'[d]} = {d \in Conn : peerUp[d]} \cup {c}
  BY <1>0, <1>1
<1> QED
  BY <1>1, <1>2, <1>3, <1>4, <1>5 DEF Book!Come, Book!AllSeats

LEMMA PeerCloseGoes ==
  ASSUME ServiceInv, NEW c \in Conn, PeerClose(c)
  PROVE  Book!Go(c)
<1>0. /\ peerUp \in [Conn -> BOOLEAN] /\ told \in [Conn -> SUBSET Nat]
      /\ roomLock \in Conn \cup {NoThread}
  BY Shapes DEF ServiceInv
<1>1. /\ pc' = pc /\ port' = port /\ members' = members /\ roomLock' = roomLock
      /\ frame' = frame /\ todo' = todo
      /\ peerUp' = [peerUp EXCEPT ![c] = FALSE] /\ told' = [told EXCEPT ![c] = {}]
  BY DEF PeerClose, roomVars, pushVars
<1>2. Introduced' = Introduced
  BY <1>1, IntroducedKept
<1>3. \A h : Awaiting(h)' = Awaiting(h) /\ Newcomer(h)' = Newcomer(h)
  BY <1>1 DEF Awaiting, Newcomer, OnSocket, Room
<1>4. \A d \in Conn : Settled(d)' = IF d = c THEN {} ELSE Settled(d)
  BY <1>0, <1>1, <1>3 DEF Settled, AfterRoster, AfterPush
<1>5. {d \in Conn : peerUp'[d]} = {d \in Conn : peerUp[d]} \ {c}
  BY <1>0, <1>1
<1> QED
  BY <1>1, <1>2, <1>4, <1>5 DEF Book!Go

LEMMA CloseSocketGoes ==
  ASSUME ServiceInv, NEW c \in Conn, CloseSocket(c)
  PROVE  Book!Go(c)
<1>0. /\ pc \in [Conn -> Status]
      /\ peerUp \in [Conn -> BOOLEAN] /\ told \in [Conn -> SUBSET Nat]
      /\ roomLock \in Conn \cup {NoThread}
      /\ NoThread \notin Conn
      /\ \A d \in Conn : pc[d] \in {"pushRoster", "push", "leave"} <=> roomLock = d
      /\ \A p \in Port : \A m \in members[p] : m.sock \in Conn
  BY Shapes DEF ServiceInv
<1>1. /\ pc[c] = "close" /\ pc' = [pc EXCEPT ![c] = "none"]
      /\ port' = port /\ members' = members /\ roomLock' = roomLock
      /\ frame' = frame /\ todo' = todo
      /\ peerUp' = [peerUp EXCEPT ![c] = FALSE] /\ told' = [told EXCEPT ![c] = {}]
  BY DEF CloseSocket, roomVars, pushVars
<1>2. Introduced' = Introduced
  BY <1>0, <1>1, IntroducedKept
<1>3. \A h : Awaiting(h)' = Awaiting(h) /\ Newcomer(h)' = Newcomer(h)
  BY <1>1 DEF Awaiting, Newcomer, OnSocket, Room
<1>4. roomLock \in Conn => pc'[roomLock] = pc[roomLock]
  BY <1>0, <1>1
<1>5. \A d \in Conn : Settled(d)' = IF d = c THEN {} ELSE Settled(d)
  BY <1>0, <1>1, <1>3, <1>4 DEF Settled, AfterRoster, AfterPush
<1>6. {d \in Conn : peerUp'[d]} = {d \in Conn : peerUp[d]} \ {c}
  BY <1>0, <1>1
<1> QED
  BY <1>1, <1>2, <1>5, <1>6 DEF Book!Go

-----------------------------------------------------------------------------
(* A joiner sits down. *)

LEMMA JoinSits ==
  ASSUME ServiceInv, NEW c \in Conn, RoomJoin(c), members' # members
  PROVE  \E p \in Port : \E s \in members'[p] \ members[p] : Book!Sit(p, s)
<1> DEFINE new == NewMember(c, req[c].name)
           p == port[c]
<1>0. /\ pc \in [Conn -> Status] /\ port \in [Conn -> Port]
      /\ members \in [Port -> SUBSET Member]
      /\ nextId \in Nat \ {0}
      /\ \A q \in Port : IsFiniteSet(members[q])
      /\ \A q \in Port : \A m \in members[q] :
           /\ m.sock \in Conn /\ port[m.sock] = q
           /\ m.id \in Nat /\ m.id < nextId
  BY Shapes DEF ServiceInv, SeatInv, TypeInv, TypeOK, IdsHandedOut, Member
<1>1. /\ Cardinality(Room(c)) < MaxMembers
      /\ members' = [members EXCEPT ![p] = Room(c) \cup {new}]
      /\ pc[c] = "joining" /\ pc' = [pc EXCEPT ![c] = "answerJoin"]
      /\ roomLock = NoThread /\ roomLock' = roomLock
      /\ told' = told /\ peerUp' = peerUp
  BY DEF RoomJoin, roomVars, NewMember, Room, outVars
<1>2. req[c].kind = "join" /\ req[c].name \in Name
  BY <1>1, JoinRequest DEF ServiceInv, SeatInv, TypeInv, TypeOK, JoinsNamed
<1>3. Room(c) = members[p]
  BY DEF Room
<1>4. \A m \in members[p] : m.nick # new.nick
  BY <1>0, <1>1, <1>2, <1>3, UniqueNickIsFree DEF NewMember
<1>5. \A q \in Port : \A m \in members[q] : m.sock # c
  BY <1>0, <1>2 DEF ServiceInv, SeatInv, NoSeatAsked, OnSocket, Room
<1>6. new.sock = c /\ new.id = nextId /\ new \in Member
  BY <1>0, <1>2, UniqueNickType DEF NewMember, Member
<1> HIDE DEF new
<1>7. \A q \in Port : \A m \in members[q] : m.id # new.id /\ m.sock # new.sock
  BY <1>0, <1>5, <1>6
<1>8. new \in members'[p] /\ new \notin members[p]
  BY <1>0, <1>1, <1>7
<1>9. Introduced' = Introduced
  <2>1. \A q \in Port : \A m \in members'[q] : m \in members[q] \/ m = new
    BY <1>0, <1>1, <1>3
  <2>2. \A q \in Port : members[q] \subseteq members'[q]
    BY <1>0, <1>1, <1>3
  <2>3. pc'[new.sock] = "answerJoin"
    BY <1>0, <1>1, <1>6
  <2>4. \A q \in Port : \A m \in members[q] : pc'[m.sock] = pc[m.sock]
    BY <1>0, <1>1, <1>5
  <2> QED
    BY <2>1, <2>2, <2>3, <2>4 DEF Introduced
<1>10. \A d \in Conn : Settled(d)' = Settled(d)
  BY <1>1 DEF Settled
<1>11. Book!Sit(p, new)
  <2>1. members' = [members EXCEPT ![p] = members[p] \cup {new}]
    BY <1>1, <1>3
  <2>2. new \in Book!Seat
    BY <1>6 DEF Member, Book!Seat
  <2>3. \A t \in Book!AllSeats : t.id # new.id /\ t.sock # new.sock
    BY <1>7 DEF Book!AllSeats
  <2>4. UNCHANGED <<Introduced, [d \in Conn |-> Settled(d)], {d \in Conn : peerUp[d]}>>
    BY <1>1, <1>9, <1>10
  <2> QED
    BY <1>4, <2>1, <2>2, <2>3, <2>4 DEF Book!Sit
<1> QED
  BY <1>0, <1>8, <1>11

(* A joiner that finds the room full does not. *)
LEMMA JoinRefused ==
  ASSUME ServiceInv, NEW c \in Conn, RoomJoin(c), members' = members
  PROVE  StandsStill
<1>0. /\ pc \in [Conn -> Status] /\ port \in [Conn -> Port]
      /\ \A q \in Port : \A m \in members[q] : m.sock \in Conn /\ port[m.sock] = q
  BY Shapes DEF ServiceInv
<1>1. /\ pc[c] = "joining" /\ pc' = [pc EXCEPT ![c] = "answerJoin"]
      /\ roomLock = NoThread /\ roomLock' = roomLock
      /\ told' = told /\ peerUp' = peerUp
  BY DEF RoomJoin, outVars
<1>2. \A q \in Port : \A m \in members[q] : m.sock # c
  BY <1>0, <1>1 DEF ServiceInv, SeatInv, TypeInv, JoinsNamed, NoSeatAsked, OnSocket, Room
<1>3. Introduced' = Introduced
  BY <1>0, <1>1, <1>2, IntroducedKept
<1> QED
  BY <1>1, <1>3 DEF StandsStill, Settled

-----------------------------------------------------------------------------
(* The push of a joiner's roster introduces it, from its first moment. *)

LEMMA RosterIntroduces ==
  ASSUME ServiceInv, NEW c \in Conn, BeginRoster(c)
  PROVE  \E s \in members[port[c]] : Book!Introduce(port[c], s)
<1> DEFINE p == port[c]
<1>0. /\ pc \in [Conn -> Status] /\ port \in [Conn -> Port]
      /\ members \in [Port -> SUBSET Member]
      /\ todo \in [Conn -> SUBSET Member] /\ frame \in [Conn -> Frame]
      /\ peerUp \in [Conn -> BOOLEAN]
      /\ NoThread \notin Conn
      /\ \A q \in Port : \A m \in members[q] : m.sock \in Conn /\ port[m.sock] = q
  BY Shapes DEF ServiceInv
<1>1. /\ pc[c] = "roster" /\ pc' = [pc EXCEPT ![c] = "pushRoster"]
      /\ roomLock = NoThread /\ roomLock' = c
      /\ frame'[c] = [msg |-> UsersHere, ids |-> Ids(Others(c))]
      /\ todo'[c] = Others(c)
      /\ members' = members /\ port' = port /\ told' = told /\ peerUp' = peerUp
  BY <1>0 DEF BeginRoster, BeginPush, clientVars, roomVars, outVars
<1>2. PICK s \in members[p] : OnSocket(Room(c), c) = {s} /\ s.sock = c
  <2>1. OnSocket(Room(c), c) # {}
    BY <1>1 DEF ServiceInv, SeatInv, TypeInv, SeatHeld
  <2>2. PICK s : s \in OnSocket(Room(c), c)
    BY <2>1
  <2>3. OnSocket(Room(c), c) = {s}
    BY <2>2 DEF ServiceInv, SeatInv, OneSeat
  <2> QED
    BY <2>2, <2>3 DEF OnSocket, Room
<1>3. Others(c) = members[p] \ {s}
  BY <1>2 DEF Others, Room
<1>4. Newcomer(c)' = s
  <2>1. OnSocket(Room(c), c)' = {s}
    BY <1>1, <1>2 DEF OnSocket, Room
  <2> QED
    BY <1>0, <1>2, <2>1 DEF Newcomer, Newest, Member
<1>5. s \notin Introduced
  BY <1>1, <1>2 DEF Introduced
<1>6. Introduced' = Introduced \cup {s}
  <2>1. \A q \in Port : \A m \in members[q] : m.sock = c => m = s
    BY <1>0, <1>2 DEF OnSocket, Room
  <2>2. \A q \in Port : \A m \in members[q] :
          pc'[m.sock] = IF m.sock = c THEN "pushRoster" ELSE pc[m.sock]
    BY <1>0, <1>1
  <2>3. s \in UNION {members[q] : q \in Port}
    BY <1>0, <1>2
  <2> QED
    BY <1>1, <1>2, <2>1, <2>2, <2>3 DEF Introduced
<1>7. \A d \in Conn : d \in Awaiting(c)' <=> d # c /\ Book!Holds(p, d)
  <2>1. Awaiting(c)' = {m.sock : m \in members[p] \ {s}}
    BY <1>1, <1>3 DEF Awaiting
  <2>2. \A m \in members[p] : m.sock = c <=> m = s
    BY <1>2 DEF OnSocket, Room
  <2> QED
    BY <2>1, <2>2 DEF Book!Holds
<1>8. \A d \in Conn :
        Settled(d)' = IF d \notin {e \in Conn : peerUp[e]} THEN Settled(d)
                      ELSE IF d = s.sock THEN Book!Others(p, s)
                      ELSE IF Book!Holds(p, d) THEN Settled(d) \cup {s.id}
                      ELSE Settled(d)
  <2> SUFFICES ASSUME NEW d \in Conn
               PROVE  Settled(d)' = IF ~peerUp[d] THEN Settled(d)
                                    ELSE IF d = c THEN Book!Others(p, s)
                                    ELSE IF Book!Holds(p, d) THEN Settled(d) \cup {s.id}
                                    ELSE Settled(d)
    BY <1>2
  <2>1. Settled(d) = told[d]
    BY <1>1 DEF Settled
  <2>2. Settled(d)' = IF ~peerUp[d] THEN told[d]
                      ELSE IF d = c THEN Ids(Others(c))
                      ELSE IF d \in Awaiting(c)' THEN told[d] \cup {s.id}
                      ELSE told[d]
    BY <1>0, <1>1, <1>4 DEF Settled, AfterRoster
  <2>3. Ids(Others(c)) = Book!Others(p, s)
    BY <1>3 DEF Ids, Book!Others
  <2> QED
    BY <1>7, <2>1, <2>2, <2>3
<1> QED
  BY <1>1, <1>2, <1>5, <1>6, <1>8 DEF Book!Introduce

(* A chat line leaves the books alone. *)
LEMMA ChatStandsStill ==
  ASSUME ServiceInv, NEW c \in Conn, BeginChat(c)
  PROVE  StandsStill
<1>0. /\ pc \in [Conn -> Status]
      /\ frame \in [Conn -> Frame]
      /\ NoThread \notin Conn
      /\ \A q \in Port : \A m \in members[q] : m.sock \in Conn
  BY Shapes DEF ServiceInv
<1>1. /\ pc[c] = "recv" /\ pc' = [pc EXCEPT ![c] = "push"]
      /\ roomLock = NoThread /\ roomLock' = c
      /\ frame'[c].msg = ChatText
      /\ members' = members /\ told' = told /\ peerUp' = peerUp
  BY <1>0 DEF BeginChat, BeginPush, Take, roomVars, outVars
<1>2. Introduced' = Introduced
  BY <1>0, <1>1, IntroducedKept
<1>3. \A d \in Conn : Settled(d)' = Settled(d)
  BY <1>0, <1>1 DEF Settled, AfterPush, Heard, ChatText, UsersHere, UserJoined, UserLeft
<1> QED
  BY <1>1, <1>2, <1>3 DEF StandsStill

-----------------------------------------------------------------------------
(* The push of a farewell is a departure from its first moment, or nothing *)
(* if the connection never joined.                                         *)

LEMMA LeaveDeparts ==
  ASSUME ServiceInv, NEW c \in Conn, BeginLeave(c), OnSocket(Room(c), c) # {}
  PROVE  \E s \in members[port[c]] : Book!Depart(port[c], s)
<1> DEFINE p == port[c]
<1>0. /\ pc \in [Conn -> Status] /\ port \in [Conn -> Port]
      /\ members \in [Port -> SUBSET Member]
      /\ todo \in [Conn -> SUBSET Member] /\ frame \in [Conn -> Frame]
      /\ peerUp \in [Conn -> BOOLEAN]
      /\ NoThread \notin Conn
      /\ \A q \in Port : \A m \in members[q] : m.sock \in Conn /\ port[m.sock] = q
  BY Shapes DEF ServiceInv
<1>1. PICK s \in members[p] : OnSocket(Room(c), c) = {s} /\ s.sock = c
  <2>1. PICK s : s \in OnSocket(Room(c), c)
    OBVIOUS
  <2>2. OnSocket(Room(c), c) = {s}
    BY <2>1 DEF ServiceInv, SeatInv, OneSeat
  <2> QED
    BY <2>1, <2>2 DEF OnSocket, Room
<1>2. Departs(c) = {s}
  <2>1. s.id \in Nat
    BY <1>0, <1>1 DEF Member
  <2>2. Oldest({s}) = s
    BY <2>1 DEF Oldest
  <2> QED
    BY <1>1, <2>2 DEF Departs
<1>3. /\ pc[c] \in {"drop", "recv"} /\ pc' = [pc EXCEPT ![c] = "leave"]
      /\ roomLock = NoThread /\ roomLock' = c
      /\ frame'[c] = [msg |-> UserLeft, ids |-> Ids({s})]
      /\ todo'[c] = members[p] \ {s}
      /\ members' = [members EXCEPT ![p] = members[p] \ {s}]
      /\ told' = told /\ peerUp' = peerUp
  BY <1>0, <1>2 DEF BeginLeave, BeginPush, HungUp, Room, clientVars, outVars
<1>4. s \in Introduced
  BY <1>0, <1>1, <1>3 DEF Introduced
<1>5. Introduced' = Introduced \ {s}
  <2>1. \A q \in Port : \A m \in members[q] : m.sock = c => m = s
    BY <1>0, <1>1 DEF OnSocket, Room
  <2>2. \A q \in Port : \A m : m \in members'[q] <=> m \in members[q] /\ m # s
    BY <1>0, <1>1, <1>3
  <2>3. \A q \in Port : \A m \in members[q] : m # s => pc'[m.sock] = pc[m.sock]
    BY <1>0, <1>3, <2>1
  <2> QED
    BY <2>2, <2>3 DEF Introduced
<1>6. \A d \in Conn : d \in Awaiting(c)' <=> d # c /\ Book!Holds(p, d)
  <2>1. Awaiting(c)' = {m.sock : m \in members[p] \ {s}}
    BY <1>3 DEF Awaiting
  <2>2. \A m \in members[p] : m.sock = c <=> m = s
    BY <1>1 DEF OnSocket, Room
  <2> QED
    BY <2>1, <2>2 DEF Book!Holds
<1>7. \A d \in Conn :
        Settled(d)' = IF d \in {e \in Conn : peerUp[e]} /\ d # s.sock /\ Book!Holds(p, d)
                      THEN Settled(d) \ {s.id} ELSE Settled(d)
  <2> SUFFICES ASSUME NEW d \in Conn
               PROVE  Settled(d)' = IF peerUp[d] /\ d # c /\ Book!Holds(p, d)
                                    THEN Settled(d) \ {s.id} ELSE Settled(d)
    BY <1>1
  <2>1. Settled(d) = told[d]
    BY <1>3 DEF Settled
  <2>2. Settled(d)' = IF peerUp[d] /\ d \in Awaiting(c)' THEN Heard(told[d], frame'[c])
                      ELSE told[d]
    BY <1>0, <1>3 DEF Settled, AfterPush
  <2>3. Heard(told[d], frame'[c]) = told[d] \ {s.id}
    <3>1. Ids({s}) = {s.id}
      BY DEF Ids
    <3> QED
      BY <1>3, <3>1 DEF Heard, UsersHere, UserJoined, UserLeft
  <2> QED
    BY <1>6, <2>1, <2>2, <2>3
<1>8. UNCHANGED {d \in Conn : peerUp[d]}
  BY <1>3
<1> QED
  BY <1>1, <1>3, <1>4, <1>5, <1>7, <1>8 DEF Book!Depart

LEMMA LeaveStandsStill ==
  ASSUME ServiceInv, NEW c \in Conn, BeginLeave(c), OnSocket(Room(c), c) = {}
  PROVE  StandsStill
<1>0. /\ pc \in [Conn -> Status] /\ port \in [Conn -> Port]
      /\ members \in [Port -> SUBSET Member]
      /\ todo \in [Conn -> SUBSET Member] /\ frame \in [Conn -> Frame]
      /\ NoThread \notin Conn
      /\ \A q \in Port : \A m \in members[q] : m.sock \in Conn /\ port[m.sock] = q
  BY Shapes DEF ServiceInv
<1>1. Departs(c) = {}
  BY DEF Departs
<1>2. /\ pc[c] \in {"drop", "recv"} /\ pc' = [pc EXCEPT ![c] = "leave"]
      /\ roomLock = NoThread /\ roomLock' = c
      /\ todo'[c] = {}
      /\ members' = members
      /\ told' = told /\ peerUp' = peerUp
  BY <1>0, <1>1 DEF BeginLeave, BeginPush, HungUp, Room, clientVars, outVars
<1>3. Introduced' = Introduced
  BY <1>0, <1>2, IntroducedKept
<1>4. \A d \in Conn : Settled(d)' = Settled(d)
  BY <1>0, <1>2 DEF Settled, AfterPush, Awaiting
<1> QED
  BY <1>2, <1>3, <1>4 DEF StandsStill

-----------------------------------------------------------------------------
(* The sends of a push.  What it was going to say to a target is what the  *)
(* target has heard once the frame is through.                             *)

Through(c) == IF peerUp[Target(c)]
              THEN told' = [told EXCEPT ![Target(c)] = Heard(@, frame[c])]
              ELSE told' = told

LEMMA TargetPassed ==
  ASSUME ServiceInv, NEW c \in Conn, Pushing(c), NextTarget(c), Through(c),
         members' = members, port' = port, peerUp' = peerUp, roomLock' = roomLock
  PROVE  StandsStill
<1>0. /\ pc \in [Conn -> Status] /\ port \in [Conn -> Port]
      /\ members \in [Port -> SUBSET Member]
      /\ todo \in [Conn -> SUBSET Member] /\ frame \in [Conn -> Frame]
      /\ told \in [Conn -> SUBSET Nat]
      /\ NoThread \notin Conn
      /\ \A d \in Conn : pc[d] \in {"pushRoster", "push", "leave"} <=> roomLock = d
      /\ \A q \in Port : \A m \in members[q] : m.sock \in Conn /\ port[m.sock] = q
  BY Shapes DEF ServiceInv
<1>1. roomLock = c /\ c # NoThread
  BY <1>0 DEF Pushing
<1>2. Newcomer(c)' = Newcomer(c)
  BY DEF Newcomer, OnSocket, Room
<1>3. Introduced' = Introduced
  BY <1>0, IntroducedKept DEF NextTarget
<1>4. CASE pc[c] = "pushRoster"
  <2>1. /\ pc'[c] = "push" /\ todo' = todo /\ Target(c) = c
        /\ frame'[c] = [msg |-> UserJoined, ids |-> {Newcomer(c).id}]
    BY <1>0, <1>4 DEF NextTarget, Newcomer, Target
  <2>2. todo[c] = Others(c) /\ frame[c].msg = UsersHere
    BY <1>4 DEF ServiceInv, Manners, AudienceSeated
  <2>3. c \notin Awaiting(c) /\ Awaiting(c)' = Awaiting(c)
    BY <2>1, <2>2 DEF Awaiting, Others, OnSocket
  <2>4. \A d \in Conn : told'[d] = IF d = c /\ peerUp[c] THEN frame[c].ids ELSE told[d]
    BY <1>0, <2>1, <2>2 DEF Through, Heard, UsersHere, UserJoined, UserLeft
  <2>5. \A d \in Conn : Settled(d)' = Settled(d)
    <3> SUFFICES ASSUME NEW d \in Conn PROVE Settled(d)' = Settled(d)
      OBVIOUS
    <3>1. Settled(d) = IF ~peerUp[d] THEN told[d] ELSE AfterRoster(c, d)
      BY <1>1, <1>4 DEF Settled
    <3>2. Settled(d)' = IF ~peerUp[d] THEN told'[d]
                        ELSE IF d \in Awaiting(c) THEN Heard(told'[d], frame'[c])
                        ELSE told'[d]
      BY <1>1, <2>1, <2>3 DEF Settled, AfterPush
    <3>3. \A ids : Heard(ids, frame'[c]) = ids \cup {Newcomer(c).id}
      BY <2>1 DEF Heard, UserJoined, UsersHere, UserLeft
    <3>4. CASE d = c
      BY <2>3, <2>4, <3>1, <3>2, <3>4 DEF AfterRoster
    <3>5. CASE d # c
      BY <2>4, <3>1, <3>2, <3>3, <3>5 DEF AfterRoster
    <3> QED
      BY <3>4, <3>5
  <2> QED
    BY <1>3, <2>5 DEF StandsStill
<1>5. CASE pc[c] # "pushRoster"
  <2> DEFINE old == Oldest(todo[c])
  <2>1. /\ pc' = pc /\ frame' = frame /\ Target(c) = old.sock
        /\ todo[c] # {} /\ todo'[c] = todo[c] \ {old}
    BY <1>0, <1>5 DEF NextTarget, Target, Pushing
  <2>2. old \in todo[c] /\ todo[c] \subseteq members[port[c]]
    BY <1>0, <1>5, <2>1, OldestIsMember
    DEF ServiceInv, Manners, AudienceSeated, Pushing, Room
  <2>3. \A m \in todo[c] : m.sock = old.sock => m = old
    BY <1>0, <2>2 DEF ServiceInv, SeatInv, OneSeat, OnSocket, Room
  <2> HIDE DEF old
  <2>4. \A d \in Conn : d \in Awaiting(c)' <=> d \in Awaiting(c) /\ d # old.sock
    BY <2>1, <2>2, <2>3 DEF Awaiting
  <2>5. old.sock \in Awaiting(c) /\ old.sock \in Conn
    BY <1>0, <2>2 DEF Awaiting
  <2>6. \A d \in Conn : told'[d] = IF d = old.sock /\ peerUp[d] THEN Heard(told[d], frame[c])
                                   ELSE told[d]
    BY <1>0, <2>1, <2>5 DEF Through
  <2>7. \A d \in Conn : Settled(d)' = Settled(d)
    <3> SUFFICES ASSUME NEW d \in Conn PROVE Settled(d)' = Settled(d)
      OBVIOUS
    <3>1. Settled(d) = IF peerUp[d] /\ d \in Awaiting(c) THEN Heard(told[d], frame[c])
                       ELSE told[d]
      BY <1>1, <1>5 DEF Settled, AfterPush
    <3>2. Settled(d)' = IF peerUp[d] /\ d \in Awaiting(c)' THEN Heard(told'[d], frame[c])
                        ELSE told'[d]
      BY <1>1, <1>5, <2>1 DEF Settled, AfterPush
    <3> QED
      BY <2>4, <2>5, <2>6, <3>1, <3>2
  <2> QED
    BY <1>3, <2>7 DEF StandsStill
<1> QED
  BY <1>4, <1>5

LEMMA HeaderStandsStill ==
  ASSUME ServiceInv, NEW c \in Conn, SendHeader(c)
  PROVE  StandsStill
<1>1. /\ Pushing(c)
      /\ members' = members /\ port' = port /\ peerUp' = peerUp /\ roomLock' = roomLock
      /\ told' = told
  BY DEF SendHeader, clientVars, roomVars
<1>2. CASE peerUp[Target(c)]
  <2>1. pc' = pc /\ PushKept
    BY <1>1, <1>2 DEF SendHeader, PushKept
  <2>2. Introduced' = Introduced
    BY <1>1, <2>1, IntroducedKept
  <2> QED
    BY <1>1, <2>1, <2>2, SettledKept DEF StandsStill
<1>3. CASE ~peerUp[Target(c)]
  BY <1>1, <1>3, TargetPassed DEF SendHeader, Through
<1> QED
  BY <1>2, <1>3

LEMMA PayloadStandsStill ==
  ASSUME ServiceInv, NEW c \in Conn, SendPayload(c)
  PROVE  StandsStill
<1>1. /\ Pushing(c) /\ NextTarget(c) /\ Through(c)
      /\ members' = members /\ port' = port /\ peerUp' = peerUp /\ roomLock' = roomLock
  BY DEF SendPayload, clientVars, roomVars, Through
<1> QED
  BY <1>1, TargetPassed

LEMMA EndStandsStill ==
  ASSUME ServiceInv, NEW c \in Conn, EndPush(c)
  PROVE  StandsStill
<1>0. /\ pc \in [Conn -> Status] /\ NoThread \notin Conn
      /\ \A d \in Conn : pc[d] \in {"pushRoster", "push", "leave"} <=> roomLock = d
      /\ \A q \in Port : \A m \in members[q] : m.sock \in Conn
  BY Shapes DEF ServiceInv
<1>1. /\ pc[c] \in {"push", "leave"} /\ todo[c] = {}
      /\ pc' = [pc EXCEPT ![c] = IF pc[c] = "push" THEN "recv" ELSE "close"]
      /\ roomLock' = NoThread
      /\ members' = members /\ told' = told /\ peerUp' = peerUp
  BY DEF EndPush, Release, clientVars, roomVars, outVars
<1>2. roomLock = c
  BY <1>0, <1>1
<1>3. Introduced' = Introduced
  BY <1>0, <1>1, IntroducedKept
<1>4. \A d \in Conn : Settled(d)' = Settled(d)
  BY <1>0, <1>1, <1>2 DEF Settled, AfterPush, Awaiting
<1> QED
  BY <1>1, <1>3, <1>4 DEF StandsStill

-----------------------------------------------------------------------------
LEMMA StepRefines ==
  ASSUME ServiceInv, [Next]_vars
  PROVE  [Book!BookNext]_Book!bookVars
<1>0. port \in [Conn -> Port]
  BY Shapes DEF ServiceInv
<1>1. ASSUME NEW c \in Conn, NEW p \in Port, Accept(c, p)
      PROVE  Book!BookNext
  BY <1>1, AcceptComes DEF Book!BookNext
<1>2. ASSUME NEW c \in Conn, Client(c)
      PROVE  [Book!BookNext]_Book!bookVars
  <2>1. CASE PeerClose(c)
    BY <2>1, PeerCloseGoes DEF Book!BookNext
  <2>2. CASE ~PeerClose(c)
    BY <1>2, <2>2, QuietClient, BookStutters
  <2> QED
    BY <2>1, <2>2
<1>3. ASSUME NEW c \in Conn, Thread(c)
      PROVE  [Book!BookNext]_Book!bookVars
  <2>1. CASE ServeOther(c) \/ RefuseJoin(c) \/ AdmitJoin(c) \/ SendReply(c)
    BY <2>1, QuietThread, BookStutters
  <2>2. CASE RoomJoin(c) /\ members' # members
    BY <2>2, JoinSits DEF Book!BookNext
  <2>3. CASE RoomJoin(c) /\ members' = members
    BY <2>3, JoinRefused, BookStutters
  <2>4. CASE BeginRoster(c)
    BY <1>0, <2>4, RosterIntroduces DEF Book!BookNext
  <2>5. CASE BeginChat(c)
    BY <2>5, ChatStandsStill, BookStutters
  <2>6. CASE BeginLeave(c) /\ OnSocket(Room(c), c) # {}
    BY <1>0, <2>6, LeaveDeparts DEF Book!BookNext
  <2>7. CASE BeginLeave(c) /\ OnSocket(Room(c), c) = {}
    BY <2>7, LeaveStandsStill, BookStutters
  <2>8. CASE SendHeader(c) \/ SendPayload(c) \/ EndPush(c)
    BY <2>8, HeaderStandsStill, PayloadStandsStill, EndStandsStill, BookStutters
  <2>9. CASE CloseSocket(c)
    BY <2>9, CloseSocketGoes DEF Book!BookNext
  <2> QED
    BY <1>3, <2>1, <2>2, <2>3, <2>4, <2>5, <2>6, <2>7, <2>8, <2>9 DEF Thread
<1>4. CASE UNCHANGED vars
  <2>1. PushKept /\ pc' = pc /\ peerUp' = peerUp
    BY <1>4 DEF vars, PushKept
  <2>2. StandsStill
    BY <2>1, IntroducedKept, SettledKept DEF StandsStill, PushKept
  <2> QED
    BY <2>2, BookStutters
<1> QED
  BY <1>1, <1>2, <1>3, <1>4 DEF Next, AllGone

LEMMA BookStarts == Init => Book!BookInit
BY DEF Init, Book!BookInit, Introduced, Settled

(* The threads and locks implement the abstract room: a join is one step,  *)
(* and so are the introductions and the farewells a push spreads over many *)
(* sends, whatever other threads do in between.                            *)
THEOREM ServiceKeepsBooks ==
  ASSUME Rejoin = FALSE
  PROVE  Spec => KeepsBooks
<1>1. ServiceInv /\ [Next]_vars => [Book!BookNext]_Book!bookVars
  BY StepRefines
<1> QED
  BY <1>1, BookStarts, ServiceInvariant, PTL DEF Spec, KeepsBooks, Book!BookSpec

-----------------------------------------------------------------------------
(* What follows for the books, and for what clients have been told. *)

(* With the push under way counted, the books are right at all times. *)
THEOREM ServiceBooksRight ==
  ASSUME Rejoin = FALSE
  PROVE  Spec => []BooksRight
BY ServiceKeepsBooks, Book!BooksStayRight DEF KeepsBooks, BooksRight

(* Right books are consistent rosters, between pushes. *)
LEMMA BooksGiveRoster == ServiceInv /\ BooksRight => RosterConsistent
<1> SUFFICES ASSUME ServiceInv, BooksRight, roomLock = NoThread,
                    NEW c \in Conn, Present(c)
             PROVE  /\ Ids({m \in Room(c) : m.sock # c /\ Announced(m)}) \subseteq told[c]
                    /\ told[c] \subseteq Ids({m \in Room(c) : m.sock # c})
  BY DEF RosterConsistent
<1>0. /\ port \in [Conn -> Port] /\ NoThread \notin Conn
      /\ \A q \in Port : \A m \in members[q] : m.sock \in Conn
  BY Shapes DEF ServiceInv
<1>1. PICK s \in members[port[c]] : s.sock = c /\ Announced(s) /\ peerUp[c]
  BY DEF Present, Room
<1>2. \A m \in members[port[c]] : m.sock = c <=> m = s
  BY <1>1 DEF ServiceInv, SeatInv, OneSeat, OnSocket, Room
<1>3. Settled(c) = told[c]
  BY DEF Settled
<1>4. \A m \in members[port[c]] : Announced(m) => m \in Introduced
  BY <1>0 DEF Announced, Introduced
<1>5. /\ Book!Introductions(port[c], s) \subseteq told[c]
      /\ told[c] \subseteq Book!Others(port[c], s)
  BY <1>0, <1>1, <1>3, <1>4 DEF BooksRight, Book!BooksRight
<1> QED
  BY <1>2, <1>4, <1>5 DEF Book!Introductions, Book!Others, Ids, Room

(* Between pushes, what the frames sent to a member add up to is the room. *)
THEOREM RosterStaysConsistent ==
  ASSUME Rejoin = FALSE
  PROVE  Spec => []RosterConsistent
BY BooksGiveRoster, ServiceInvariant, ServiceBooksRight, PTL
=============================================================================
