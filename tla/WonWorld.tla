------------------------------ MODULE WonWorld ------------------------------
(***************************************************************************)
(* The rooms the WON server emulator advertises: the room table and the    *)
(* factory of wonserver/wonserver.cpp, the status responder that answers   *)
(* for their ports (wonserver_udp.cpp), and the main thread that opens a   *)
(* listener for every one of them (main of wonserverd_main.cpp).           *)
(*                                                                         *)
(* Three kinds of thread meet here.  The main thread seeds the table and   *)
(* then walks it, without a lock, to open the listeners.  Connection       *)
(* threads serve factory requests as soon as the first listener is open;   *)
(* g_coreReplyLock (coreLock) lets one of them at the table at a time.     *)
(* The responder thread copies the published ports under a lock of its own *)
(* and rebinds its sockets outside of it.                                  *)
(*                                                                         *)
(* A name stands for all its spellings that _stricmp takes for equal.      *)
(***************************************************************************)
EXTENDS Naturals, Sequences, FiniteSets

CONSTANTS
  Worker,        \* connection threads that serve factory requests
  Name,          \* room names
  Password,      \* passwords
  NoPassword,    \* the empty password
  NoName,        \* the name of a row nothing has been written to
  NoPort,        \* port 0, that of such a row
  DefaultRooms,  \* the rooms of WonServer_AddDefaultRooms, in order
  ServicePort,   \* the directory and factory listener
  FactoryPorts,  \* the ports the factory hands out, in order
  MaxRooms,      \* WONSERVER_MAX_ROOMS
  MaxPorts,      \* WONUDP_MAX_PORTS
  Taken,         \* UDP ports other programs hold
  MaxMade,       \* bound: the rooms clients ask the factory for
  MaxFailed,     \* bound: the ports that are refused a listener
  Nobody         \* coreLock is free

NPorts == Len(FactoryPorts)
FactoryRange == {FactoryPorts[i] : i \in 1..NPorts}
DefaultRange == {DefaultRooms[i].port : i \in 1..Len(DefaultRooms)}
RoomPorts == DefaultRange \cup FactoryRange

ASSUME WorldAssumption ==
  /\ DefaultRooms \in Seq([name: Name, port: RoomPorts, players: Nat])
  /\ NPorts \in Nat \ {0}
  /\ FactoryPorts \in Seq(FactoryRange)
  /\ \A i, j \in 1..NPorts : FactoryPorts[i] = FactoryPorts[j] => i = j
  /\ DefaultRange \cap FactoryRange = {}
  /\ NoPort \notin RoomPorts /\ ServicePort \notin RoomPorts
  /\ NoName \notin Name
  /\ NoPassword \in Password
  /\ MaxRooms \in Nat /\ Len(DefaultRooms) <= MaxRooms
  /\ IsFiniteSet(RoomPorts)
  /\ MaxPorts \in Nat /\ Cardinality(RoomPorts) <= MaxPorts
  /\ MaxMade \in Nat /\ MaxFailed \in Nat
  /\ Nobody \notin Worker

VARIABLES
  rooms,      \* g_rooms[0 .. g_nRooms - 1]
  nextPort,   \* g_nNextFactoryPort
  coreLock,   \* holder of g_coreReplyLock
  making,     \* the factory request a worker is serving
  main,       \* where the main thread stands
  step,       \* the index of its current loop
  listening,  \* TCP ports with a listener
  failed,     \* history: ports StartListener left without a listener
  published,  \* g_ports and g_players: port -> player count
  dirty,      \* g_dirty
  responder,  \* where the responder thread stands
  want,       \* wantPorts and wantPlayers, and whether to rebind
  bound,      \* its sockets: port -> player count
  asked       \* history: the password the last room on a port was asked with

worldVars   == <<rooms, nextPort, coreLock, making, main, step, listening,
                 failed, published, dirty, responder, want, bound, asked>>
mainVars    == <<main, step, listening, failed>>
tableVars   == <<published, dirty>>
replyVars   == <<responder, want, bound>>
factoryVars == <<nextPort, coreLock, making, asked>>

-----------------------------------------------------------------------------
(* Rows of the room table. *)

NoRoom == [name |-> NoName, port |-> NoPort, players |-> 0, password |-> NoPassword]

Least(S)        == CHOOSE i \in S : \A j \in S : i <= j
Named(rs, name) == {i \in 1..Len(rs) : rs[i].name = name}
OnPort(rs, p)   == {i \in 1..Len(rs) : rs[i].port = p}

(* WonServer_AddRoom, first part: the row of that name, else a new one at  *)
(* the end, else none (0) when the table is full.                          *)
RowForPast(rs, name) ==                                            \* mutant
  IF Named(rs, name) # {} THEN Least(Named(rs, name))
  ELSE IF Len(rs) <= MaxRooms THEN Len(rs) + 1 ELSE 0
RowFor(rs, name) ==
  IF Named(rs, name) # {} THEN Least(Named(rs, name))
  ELSE IF Len(rs) < MaxRooms THEN Len(rs) + 1 ELSE 0
WithRow(rs, i) == IF i = Len(rs) + 1 THEN Append(rs, NoRoom) ELSE rs

(* Second part: the row is written over; the password goes.                *)
Fill(rs, i, name, p, n) ==
  [rs EXCEPT ![i] = [name |-> name, port |-> p, players |-> n, password |-> NoPassword]]

(* WonUdp_SetRoom. *)
FitsShort(counts, p) ==                                            \* mutant
  p \in DOMAIN counts \/ Cardinality(DOMAIN counts) < MaxPorts - 1
Fits(counts, p) == p \in DOMAIN counts \/ Cardinality(DOMAIN counts) < MaxPorts
With(counts, p, n) == [q \in DOMAIN counts \cup {p} |-> IF q = p THEN n ELSE counts[q]]
SetRoom(p, n) ==
  IF Fits(published, p)
  THEN published' = With(published, p, n) /\ dirty' = TRUE
  ELSE UNCHANGED tableVars

(* WonUdp_Sync. *)
Sync == responder' = IF responder = "none" THEN "look" ELSE responder

(* The rest of WonServer_AddPrivateRoom: the first row on the port gets    *)
(* the password, whichever room that is.                                   *)
SetPasswordBefore(rs, p, pw) ==                                    \* mutant
  IF OnPort(rs, p) = {} THEN rs
  ELSE [rs EXCEPT ![Least(OnPort(rs, p)) - 1].password = pw]
SetPassword(rs, p, pw) ==
  IF OnPort(rs, p) = {} THEN rs
  ELSE [rs EXCEPT ![Least(OnPort(rs, p))].password = pw]

(* WonServer_CheckRoomPassword. *)
Accepts(p, pw) ==
  \/ OnPort(rooms, p) = {}
  \/ rooms[Least(OnPort(rooms, p))].password \in {NoPassword, pw}

-----------------------------------------------------------------------------
NotMaking == [stage |-> "none"]

Init ==
  /\ rooms = <<>>
  /\ nextPort = 0
  /\ coreLock = Nobody
  /\ making = [w \in Worker |-> NotMaking]
  /\ main = "seed"
  /\ step = 1
  /\ listening = {}
  /\ failed = {}
  /\ published = [p \in {} |-> 0]
  /\ dirty = FALSE
  /\ responder = "none"
  /\ want = [changed |-> FALSE, counts |-> [p \in {} |-> 0]]
  /\ bound = [p \in {} |-> 0]
  /\ asked = [p \in FactoryRange |-> NoPassword]

-----------------------------------------------------------------------------
(* The main thread. *)

(* A listener that may fail to open: any of the calls it takes can be      *)
(* refused, by the system or by another program.  The bind is exclusive,   *)
(* so a port that has a listener is refused a second and keeps the first.  *)
StartListener(p) ==
  \/ p \in listening /\ UNCHANGED <<listening, failed>>
  \/ p \notin listening /\ listening' = listening \cup {p} /\ UNCHANGED failed
  \/ /\ p \notin listening /\ Cardinality(failed \cup {p}) <= MaxFailed
     /\ failed' = failed \cup {p} /\ UNCHANGED listening

(* One WonServer_AddRoom of WonServer_AddDefaultRooms.                     *)
SeedRoom ==
  /\ main = "seed" /\ step <= Len(DefaultRooms)
  /\ LET d == DefaultRooms[step]
         i == RowFor(rooms, d.name)
     IN IF i = 0 THEN UNCHANGED <<rooms, tableVars, responder>>
        ELSE /\ rooms' = Fill(WithRow(rooms, i), i, d.name, d.port, d.players)
             /\ SetRoom(d.port, d.players)
             /\ Sync
  /\ step' = step + 1
  /\ UNCHANGED <<main, listening, failed, want, bound, factoryVars>>

(* The listener of the service port: from here on requests come in.  It is *)
(* required: without it the process returns, and its threads with it.      *)
OpenService ==
  /\ main = "seed" /\ step > Len(DefaultRooms)
  /\ listening' = listening \cup {ServicePort}
  /\ main' = "rooms" /\ step' = 1
  /\ UNCHANGED <<failed, rooms, tableVars, replyVars, factoryVars>>
Quit ==
  /\ main = "seed" /\ step > Len(DefaultRooms)
  /\ main' = "exit"
  /\ responder' = "none" /\ bound' = [p \in {} |-> 0]
  /\ UNCHANGED <<step, listening, failed, rooms, tableVars, want, factoryVars>>

(* The loop over the advertised rooms, which may be growing meanwhile.  A  *)
(* listener that fails is passed over, and the room stays advertised.      *)
OpenRoom ==
  /\ main = "rooms" /\ step <= Len(rooms)
  /\ IF rooms[step].port \in {NoPort, ServicePort}
     THEN UNCHANGED <<listening, failed>>
     ELSE StartListener(rooms[step].port)
  /\ step' = step + 1
  /\ UNCHANGED <<main, rooms, tableVars, replyVars, factoryVars>>

RoomsOpened ==
  /\ main = "rooms" /\ step > Len(rooms)
  /\ main' = "factory" /\ step' = 1
  /\ UNCHANGED <<listening, failed, rooms, tableVars, replyVars, factoryVars>>

(* The loop over the factory's ports.  One that fails is handed out all    *)
(* the same; one the loop above has opened is refused a second listener.   *)
OpenFactoryPortGivingUp ==                                         \* mutant
  /\ main = "factory"
  /\ StartListener(FactoryPorts[step])
  /\ step' = step + 1
  /\ main' = IF step = NPorts \/ FactoryPorts[step] \in failed' THEN "sleep" ELSE "factory"
  /\ UNCHANGED <<rooms, tableVars, replyVars, factoryVars>>
OpenFactoryPort ==
  /\ main = "factory"
  /\ StartListener(FactoryPorts[step])
  /\ step' = step + 1
  /\ main' = IF step = NPorts THEN "sleep" ELSE "factory"
  /\ UNCHANGED <<rooms, tableVars, replyVars, factoryVars>>

-----------------------------------------------------------------------------
(* A connection thread serves a factory request. *)

(* WonServer_BuildFactoryReply takes the next port and WonServer_AddRoom   *)
(* its row.  The row counts before anything is written to it.              *)
EnterUnlocked(w) == coreLock' = w                                  \* mutant
Enter(w) == coreLock = Nobody /\ coreLock' = w

Claim(w, name, pw) ==
  /\ ServicePort \in listening
  /\ nextPort < MaxMade
  /\ making[w] = NotMaking /\ Enter(w)
  /\ nextPort' = nextPort + 1
  /\ LET i == RowFor(rooms, name)
     IN /\ rooms' = WithRow(rooms, i)
        /\ making' = [making EXCEPT ![w] =
             [stage |-> IF i = 0 THEN "password" ELSE "fill", row |-> i, name |-> name,
              port |-> FactoryPorts[(nextPort % NPorts) + 1], password |-> pw]]
  /\ UNCHANGED <<mainVars, tableVars, replyVars, asked>>

Write(w) ==
  /\ making[w].stage = "fill"
  /\ LET k == making[w]
     IN /\ rooms' = Fill(rooms, k.row, k.name, k.port, 0)
        /\ SetRoom(k.port, 0)
  /\ Sync
  /\ making' = [making EXCEPT ![w].stage = "password"]
  /\ UNCHANGED <<nextPort, coreLock, mainVars, want, bound, asked>>

(* The password, and the reply with the port is under way.                 *)
Protect(w) ==
  /\ making[w].stage = "password"
  /\ LET k == making[w]
     IN /\ rooms' = SetPassword(rooms, k.port, k.password)
        /\ asked' = [asked EXCEPT ![k.port] = k.password]
  /\ making' = [making EXCEPT ![w] = NotMaking]
  /\ coreLock' = Nobody
  /\ UNCHANGED <<nextPort, mainVars, tableVars, replyVars>>

-----------------------------------------------------------------------------
(* The responder: a snapshot under the lock, the sockets outside of it. *)

Look ==
  /\ responder = "look"
  /\ want' = [changed |-> dirty, counts |-> published]
  /\ dirty' = FALSE
  /\ responder' = "apply"
  /\ UNCHANGED <<rooms, mainVars, published, bound, factoryVars>>

(* Every socket is closed and those of the snapshot are bound; a port that *)
(* does not bind is left out.                                              *)
Bindable(counts) == [p \in (DOMAIN counts) \ Taken |-> counts[p]]
ApplyCleared ==                                                    \* mutant
  /\ responder = "apply"
  /\ bound' = IF want.changed THEN Bindable(want.counts) ELSE bound
  /\ dirty' = FALSE
  /\ responder' = "look"
  /\ UNCHANGED <<rooms, mainVars, published, want, factoryVars>>
Apply ==
  /\ responder = "apply"
  /\ bound' = IF want.changed THEN Bindable(want.counts) ELSE bound
  /\ responder' = "look"
  /\ UNCHANGED <<rooms, mainVars, tableVars, want, factoryVars>>

-----------------------------------------------------------------------------
MainStep ==
  SeedRoom \/ OpenService \/ Quit \/ OpenRoom \/ RoomsOpened \/ OpenFactoryPort
Serve(w) == Write(w) \/ Protect(w)
Respond == Look \/ Apply
Ended == main = "exit" /\ UNCHANGED worldVars

Next ==
  \/ MainStep
  \/ \E w \in Worker : (\E n \in Name, pw \in Password : Claim(w, n, pw)) \/ Serve(w)
  \/ Respond
  \/ Ended

Spec == Init /\ [][Next]_worldVars

(* Threads that can run do; nothing makes a client ask for a room. *)
FairSpec ==
  /\ Spec
  /\ WF_worldVars(MainStep) /\ WF_worldVars(Respond)
  /\ \A w \in Worker : WF_worldVars(Serve(w))

-----------------------------------------------------------------------------
(* Properties. *)

Room == [name: Name \cup {NoName}, port: RoomPorts \cup {NoPort}, players: Nat,
         password: Password]
Making == [stage: {"fill", "password"}, row: Nat, name: Name, port: FactoryRange,
           password: Password]
IsCounts(f) == DOMAIN f \subseteq RoomPorts /\ f \in [DOMAIN f -> Nat]

(* Every variable stays in its range. *)
TypeOK ==
  /\ rooms \in Seq(Room) /\ Len(rooms) <= MaxRooms
  /\ nextPort \in Nat
  /\ coreLock \in Worker \cup {Nobody}
  /\ making \in [Worker -> {NotMaking} \cup Making]
  /\ main \in {"seed", "exit", "rooms", "factory", "sleep"}
  /\ step \in Nat \ {0}
  /\ main = "factory" => step <= NPorts
  /\ listening \subseteq RoomPorts \cup {ServicePort} /\ failed \subseteq RoomPorts
  /\ IsCounts(published) /\ IsCounts(bound)
  /\ dirty \in BOOLEAN
  /\ responder \in {"none", "look", "apply"}
  /\ want = [changed |-> want.changed, counts |-> want.counts]
  /\ want.changed \in BOOLEAN /\ IsCounts(want.counts)
  /\ asked \in [FactoryRange -> Password]

(* How the threads keep out of each other's way.  A worker has a request   *)
(* under way exactly while it holds g_coreReplyLock, and none before the   *)
(* rooms are seeded; the row it is about to write is the only one with its *)
(* name; ports are tried in the order of the loops; and until the factory *)
(* has gone round, the rooms it made sit on different ports.               *)
LockHeld == \A w \in Worker : making[w] # NotMaking <=> coreLock = w
Seeding ==
  main = "seed" => ServicePort \notin listening /\ coreLock = Nobody
RowsHeld ==
  \A w \in Worker : making[w].stage = "fill" =>
    /\ making[w].row \in 1..Len(rooms)
    /\ \A i \in 1..Len(rooms) : rooms[i].name = making[w].name => i = making[w].row
Tried == listening \cup failed
Opened ==
  /\ main \notin {"seed", "exit"} => \A i \in 1..Len(rooms) :
       rooms[i].port \in DefaultRange /\ (main = "rooms" => i < step)
         => rooms[i].port \in Tried
  /\ main = "factory" => \A k \in 1..NPorts : k < step => FactoryPorts[k] \in Tried
  /\ main = "sleep" => FactoryRange \subseteq Tried
OpenToAll ==
  \A i \in 1..Len(rooms) : rooms[i].port \in DefaultRange => rooms[i].password = NoPassword

Used(p) == \E k \in 1..nextPort : p = FactoryPorts[k]
UnderWay(p) == \E w \in Worker : making[w] # NotMaking /\ making[w].port = p
OnceRound ==
  nextPort <= NPorts =>
    /\ \A w \in Worker : making[w] # NotMaking =>
         nextPort > 0 /\ making[w].port = FactoryPorts[nextPort]
    /\ \A w \in Worker : making[w].stage = "fill" => OnPort(rooms, making[w].port) = {}
    /\ \A i \in 1..Len(rooms) : rooms[i].port \in FactoryRange =>
         /\ Used(rooms[i].port)
         /\ \A j \in 1..Len(rooms) : rooms[j].port = rooms[i].port => i = j
         /\ UnderWay(rooms[i].port) \/ rooms[i].password = asked[rooms[i].port]

Bookkeeping ==
  LockHeld /\ Seeding /\ RowsHeld /\ Opened /\ OpenToAll /\ OnceRound

(* No two rows carry one name: the row is looked up and written within     *)
(* g_coreReplyLock, though not in one step.                                *)
NamesUnique ==
  \A i, j \in 1..Len(rooms) :
    rooms[i].name = rooms[j].name /\ rooms[i].name # NoName => i = j

(* The status responder is told of every room that is listed: a room is    *)
(* never left out because the table of ports is full.                      *)
AllPublished ==
  \A i \in 1..Len(rooms) : rooms[i].port # NoPort => rooms[i].port \in DOMAIN published

(* A table that is not marked dirty has reached the responder: what is     *)
(* published while it rebinds is not forgotten.                            *)
Heard ==
  /\ ~dirty /\ responder = "look" => bound = Bindable(published)
  /\ ~dirty /\ responder = "apply" =>
       want.counts = published /\ (want.changed \/ bound = Bindable(published))

(* When the main thread is done, a listed room without a listener is one   *)
(* whose listener the system refused.  No port is passed over, those of    *)
(* rooms included that were made or moved while the thread walked the      *)
(* table, and no refused listener keeps a later one from being tried.      *)
NoRoomSkipped ==
  main = "sleep" =>
    \A i \in 1..Len(rooms) : rooms[i].port # NoPort => rooms[i].port \in Tried

(* Until the factory has gone once round its ports, a room lets in exactly *)
(* who gives the password it was made with, and the first to hand is the   *)
(* creator, who joins by the port of the reply.                            *)
PasswordKept ==
  coreLock = Nobody /\ nextPort <= NPorts =>
    \A i \in 1..Len(rooms) : rooms[i].port \in FactoryRange =>
      \A pw \in Password :
        Accepts(rooms[i].port, pw) <=> asked[rooms[i].port] \in {NoPassword, pw}

(* A room on a port of its own asks nobody for a password, whatever rooms  *)
(* the factory makes, renames or runs out of rows for.                     *)
DefaultsOpen ==
  \A p \in DefaultRange, pw \in Password : Accepts(p, pw)

(* Once no more rooms are made, every published port that can be bound is  *)
(* answered for, with its published count, in a process that is up.        *)
EveryPortAnswered == <>[](main = "exit" \/ bound = Bindable(published))
=============================================================================
