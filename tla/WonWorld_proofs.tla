--------------------------- MODULE WonWorld_proofs --------------------------
(* Proofs about WonWorld, for every value of its constants. *)
EXTENDS WonWorld, FiniteSetTheorems, WellFoundedInduction, TLAPS

-----------------------------------------------------------------------------
(* Rows. *)

(* The first row of a set of rows is one of them. *)
LEMMA LeastIsMember ==
  ASSUME NEW S \in SUBSET Nat, S # {}
  PROVE  Least(S) \in S
<1>1. \E k \in S : \A j \in S : ~(<<j, k>> \in OpToRel(<, Nat))
  BY NatLessThanWellFounded, WFMin
<1>2. PICK k \in S : \A j \in S : ~(<<j, k>> \in OpToRel(<, Nat))
  BY <1>1
<1>3. \A j \in S : ~(j < k)
  BY <1>2 DEF OpToRel
<1>4. \A j \in S : k <= j
  BY <1>3
<1> QED
  BY <1>4 DEF Least

LEMMA ElementOf ==
  ASSUME NEW S, NEW s \in Seq(S), NEW i \in 1..Len(s)
  PROVE  s[i] \in S
OBVIOUS

LEMMA FactoryPortsType ==
  /\ \A i \in 1..NPorts : FactoryPorts[i] \in FactoryRange
  /\ FactoryRange \subseteq RoomPorts
  /\ \A n \in Nat : FactoryPorts[(n % NPorts) + 1] \in FactoryRange
<1>1. \A i \in 1..NPorts : FactoryPorts[i] \in FactoryRange
  BY DEF FactoryRange
<1>2. \A n \in Nat : (n % NPorts) + 1 \in 1..NPorts
  BY WorldAssumption
<1> QED
  BY <1>1, <1>2 DEF RoomPorts

(* Where WonServer_AddRoom writes: a row that is there, or the next one. *)
LEMMA RowForType ==
  ASSUME NEW rs \in Seq(Room), NEW name
  PROVE  /\ RowFor(rs, name) \in 0..(Len(rs) + 1)
         /\ RowFor(rs, name) = Len(rs) + 1 => Len(rs) < MaxRooms
         /\ RowFor(rs, name) \in 1..Len(rs) => rs[RowFor(rs, name)].name = name
         /\ RowFor(rs, name) \notin 1..Len(rs) => Named(rs, name) = {}
<1>1. Named(rs, name) \subseteq 1..Len(rs) /\ Len(rs) \in Nat
  BY DEF Named
<1>2. CASE Named(rs, name) # {}
  <2>1. Least(Named(rs, name)) \in Named(rs, name)
    BY <1>1, <1>2, LeastIsMember
  <2> QED
    BY <1>1, <1>2, <2>1 DEF RowFor, Named
<1>3. CASE Named(rs, name) = {}
  BY <1>1, <1>3 DEF RowFor
<1> QED
  BY <1>2, <1>3

LEMMA WithRowType ==
  ASSUME NEW rs \in Seq(Room), Len(rs) <= MaxRooms, NEW name
  PROVE  LET ws == WithRow(rs, RowFor(rs, name))
         IN /\ ws \in Seq(Room) /\ Len(ws) <= MaxRooms
            /\ Len(ws) \in {Len(rs), Len(rs) + 1}
            /\ \A i \in 1..Len(rs) : ws[i] = rs[i]
            /\ \A i \in 1..Len(ws) : i \notin 1..Len(rs) => ws[i] = NoRoom
            /\ RowFor(rs, name) # 0 => RowFor(rs, name) \in 1..Len(ws)
<1>1. NoRoom \in Room
  BY WorldAssumption DEF NoRoom, Room
<1>2. Len(rs) \in Nat /\ MaxRooms \in Nat
  BY WorldAssumption
<1>3. CASE RowFor(rs, name) = Len(rs) + 1
  BY <1>1, <1>2, <1>3, RowForType DEF WithRow
<1>4. CASE RowFor(rs, name) # Len(rs) + 1
  BY <1>1, <1>2, <1>4, RowForType DEF WithRow
<1> QED
  BY <1>3, <1>4

LEMMA FillType ==
  ASSUME NEW rs \in Seq(Room), NEW i \in 1..Len(rs), NEW name \in Name,
         NEW p \in RoomPorts, NEW n \in Nat
  PROVE  LET fs == Fill(rs, i, name, p, n)
         IN /\ fs \in Seq(Room) /\ Len(fs) = Len(rs)
            /\ fs[i] = [name |-> name, port |-> p, players |-> n, password |-> NoPassword]
            /\ \A j \in 1..Len(rs) : j # i => fs[j] = rs[j]
<1>1. [name |-> name, port |-> p, players |-> n, password |-> NoPassword] \in Room
  BY WorldAssumption DEF Room
<1> QED
  BY <1>1 DEF Fill

LEMMA FillRows ==
  ASSUME NEW rs \in Seq(Room), NEW i \in 1..Len(rs), NEW name \in Name,
         NEW p \in RoomPorts, NEW n \in Nat
  PROVE  Fill(rs, i, name, p, n) \in Seq(Room) /\ Len(Fill(rs, i, name, p, n)) = Len(rs)
BY FillType

LEMMA FillLength ==
  ASSUME NEW rs \in Seq(Room), NEW i, NEW name, NEW p, NEW n
  PROVE  Len(Fill(rs, i, name, p, n)) = Len(rs)
BY DEF Fill

LEMMA SetPasswordType ==
  ASSUME NEW rs \in Seq(Room), NEW p, NEW pw \in Password
  PROVE  LET ps == SetPassword(rs, p, pw)
         IN /\ ps \in Seq(Room) /\ Len(ps) = Len(rs)
            /\ \A j \in 1..Len(rs) :
                 /\ ps[j].name = rs[j].name /\ ps[j].port = rs[j].port
                 /\ ps[j] # rs[j] => rs[j].port = p
            /\ OnPort(rs, p) # {} => /\ Least(OnPort(rs, p)) \in OnPort(rs, p)
                                     /\ ps[Least(OnPort(rs, p))].password = pw
<1>1. OnPort(rs, p) \in SUBSET Nat /\ OnPort(rs, p) \subseteq 1..Len(rs)
  BY DEF OnPort
<1>2. CASE OnPort(rs, p) = {}
  BY <1>2 DEF SetPassword
<1>3. CASE OnPort(rs, p) # {}
  <2> DEFINE i == Least(OnPort(rs, p))
  <2>1. i \in OnPort(rs, p)
    BY <1>1, <1>3, LeastIsMember
  <2>2. i \in 1..Len(rs) /\ rs[i].port = p /\ rs[i] \in Room
    BY <2>1 DEF OnPort
  <2> HIDE DEF i
  <2>3. SetPassword(rs, p, pw) = [rs EXCEPT ![i].password = pw]
    BY <1>3 DEF SetPassword, i
  <2>4. [rs[i] EXCEPT !.password = pw] \in Room
    BY <2>2 DEF Room
  <2>5. /\ [rs[i] EXCEPT !.password = pw].name = rs[i].name
        /\ [rs[i] EXCEPT !.password = pw].port = rs[i].port
        /\ [rs[i] EXCEPT !.password = pw].password = pw
    BY <2>2 DEF Room
  <2>6. [rs EXCEPT ![i] = [rs[i] EXCEPT !.password = pw]] \in Seq(Room)
    BY <2>2, <2>4
  <2>7. [rs EXCEPT ![i].password = pw] = [rs EXCEPT ![i] = [rs[i] EXCEPT !.password = pw]]
    OBVIOUS
  <2> QED
    BY <1>3, <2>1, <2>2, <2>3, <2>4, <2>5, <2>6, <2>7 DEF i
<1> QED
  BY <1>2, <1>3

-----------------------------------------------------------------------------
(* The published ports. *)

(* There are never more ports than the responder's table has room for. *)
LEMMA AlwaysFits ==
  ASSUME NEW counts, IsCounts(counts), NEW p \in RoomPorts
  PROVE  Fits(counts, p)
<1>1. SUFFICES ASSUME p \notin DOMAIN counts
               PROVE  Cardinality(DOMAIN counts) < MaxPorts
  BY DEF Fits
<1>2. IsFiniteSet(RoomPorts) /\ MaxPorts \in Nat /\ Cardinality(RoomPorts) <= MaxPorts
  BY WorldAssumption
<1>3. DOMAIN counts \subseteq RoomPorts /\ DOMAIN counts # RoomPorts
  BY <1>1 DEF IsCounts
<1>4. /\ IsFiniteSet(DOMAIN counts)
      /\ Cardinality(DOMAIN counts) \in Nat /\ Cardinality(RoomPorts) \in Nat
      /\ Cardinality(DOMAIN counts) < Cardinality(RoomPorts)
  BY <1>2, <1>3, FS_Subset, FS_CardinalityType
<1> QED
  BY <1>2, <1>4

LEMMA WithType ==
  ASSUME NEW counts, IsCounts(counts), NEW p \in RoomPorts, NEW n \in Nat
  PROVE  /\ IsCounts(With(counts, p, n))
         /\ DOMAIN With(counts, p, n) = DOMAIN counts \cup {p}
BY DEF IsCounts, With

LEMMA BindableType ==
  ASSUME NEW counts, IsCounts(counts)
  PROVE  IsCounts(Bindable(counts))
BY DEF IsCounts, Bindable

LEMMA SetRoomKeeps ==
  ASSUME IsCounts(published), dirty \in BOOLEAN, NEW p \in RoomPorts, NEW n \in Nat,
         SetRoom(p, n)
  PROVE  /\ IsCounts(published') /\ dirty' = TRUE
         /\ DOMAIN published' = DOMAIN published \cup {p}
<1>1. Fits(published, p)
  BY AlwaysFits
<1>2. published' = With(published, p, n) /\ dirty' = TRUE
  BY <1>1 DEF SetRoom
<1>3. /\ IsCounts(With(published, p, n))
      /\ DOMAIN With(published, p, n) = DOMAIN published \cup {p}
  BY WithType
<1>4. IsCounts(published')
  BY <1>2, <1>3
<1> QED
  BY <1>2, <1>3, <1>4

-----------------------------------------------------------------------------
(* Types. *)

(* A row about to be written is there. *)
RowsThere ==
  \A w \in Worker : making[w].stage = "fill" => making[w].row \in 1..Len(rooms)
TypeInv == TypeOK /\ RowsThere

LEMMA TypeInit == Init => TypeInv
<1> SUFFICES ASSUME Init PROVE TypeInv
  OBVIOUS
<1>1. IsCounts([p \in {} |-> 0])
  BY DEF IsCounts
<1>2. rooms \in Seq(Room) /\ Len(rooms) <= MaxRooms
  BY WorldAssumption DEF Init
<1>3. asked \in [FactoryRange -> Password]
  BY WorldAssumption DEF Init
<1>4. RowsThere
  BY DEF Init, RowsThere, NotMaking
<1>5. IsCounts(published) /\ IsCounts(bound) /\ IsCounts(want.counts)
  BY <1>1 DEF Init
<1>6. want = [changed |-> want.changed, counts |-> want.counts] /\ want.changed \in BOOLEAN
  BY DEF Init
<1>7. /\ making \in [Worker -> {NotMaking} \cup Making]
      /\ coreLock \in Worker \cup {Nobody}
      /\ listening \subseteq RoomPorts \cup {ServicePort} /\ failed \subseteq RoomPorts
  BY DEF Init
<1>8. /\ main = "seed" /\ step = 1 /\ nextPort = 0
      /\ dirty \in BOOLEAN /\ responder = "none"
  BY DEF Init
<1> QED
  BY <1>2, <1>3, <1>4, <1>5, <1>6, <1>7, <1>8 DEF TypeInv, TypeOK

LEMMA SeedRoomType ==
  ASSUME TypeInv, SeedRoom
  PROVE  TypeInv'
<1> DEFINE d == DefaultRooms[step]
           i == RowFor(rooms, d.name)
           ws == WithRow(rooms, i)
<1>0. step \in 1..Len(DefaultRooms)
  BY WorldAssumption DEF SeedRoom, TypeInv, TypeOK
<1>1. d \in [name: Name, port: RoomPorts, players: Nat]
  <2>1. DefaultRooms \in Seq([name: Name, port: RoomPorts, players: Nat])
    BY WorldAssumption
  <2> QED
    BY <1>0, <2>1, ElementOf
<1>2. rooms \in Seq(Room) /\ Len(rooms) <= MaxRooms
  BY DEF TypeInv, TypeOK
<1> HIDE DEF d
<1>3. CASE i = 0
  BY <1>3 DEF d, SeedRoom, TypeInv, TypeOK, RowsThere, factoryVars, tableVars
<1>4. CASE i # 0
  <2>1. /\ ws \in Seq(Room) /\ Len(ws) <= MaxRooms
        /\ Len(ws) \in {Len(rooms), Len(rooms) + 1} /\ i \in 1..Len(ws)
    BY <1>2, <1>4, WithRowType
  <2>2. rooms' = Fill(ws, i, d.name, d.port, d.players)
    BY <1>4 DEF SeedRoom, d
  <2> HIDE DEF i, ws
  <2>0. d.name \in Name /\ d.port \in RoomPorts /\ d.players \in Nat
    BY <1>1
  <2>3. rooms' \in Seq(Room) /\ Len(rooms') = Len(ws)
    BY <2>0, <2>1, <2>2, FillRows
  <2>4. SetRoom(d.port, d.players) /\ Sync
    BY <1>4 DEF SeedRoom, d, i
  <2>5. IsCounts(published') /\ dirty' \in BOOLEAN
    BY <1>1, <2>4, SetRoomKeeps DEF TypeInv, TypeOK
  <2>6. responder' \in {"none", "look", "apply"}
    BY <2>4 DEF Sync, TypeInv, TypeOK
  <2>7. RowsThere'
    BY <2>1, <2>3, <1>2 DEF TypeInv, RowsThere, SeedRoom, factoryVars
  <2>8. UNCHANGED <<main, listening, failed, want, bound, factoryVars>> /\ step' = step + 1
    BY DEF SeedRoom
  <2>9. main = "seed"
    BY DEF SeedRoom
  <2> QED
    BY <2>1, <2>3, <2>5, <2>6, <2>7, <2>8, <2>9 DEF TypeInv, TypeOK, factoryVars
<1> QED
  BY <1>3, <1>4

(* A port that is tried has a listener or was refused one, and no other    *)
(* port's listener is touched.                                             *)
LEMMA Starts ==
  ASSUME NEW p, StartListener(p)
  PROVE  /\ Tried' = Tried \cup {p}
         /\ listening \subseteq listening' /\ listening' \subseteq listening \cup {p}
         /\ failed' \subseteq failed \cup {p}
BY DEF StartListener, Tried

LEMMA MainType ==
  ASSUME TypeInv, OpenService \/ Quit \/ OpenRoom \/ RoomsOpened \/ OpenFactoryPort
  PROVE  TypeInv'
<1> USE DEF TypeInv, TypeOK, RowsThere, tableVars, replyVars, factoryVars
<1>1. CASE OpenService
  BY <1>1 DEF OpenService
<1>2. CASE OpenRoom
  <2>1. step \in 1..Len(rooms)
    BY <1>2 DEF OpenRoom
  <2>2. rooms[step] \in Room
    BY <2>1
  <2>3. rooms[step].port \in RoomPorts \cup {NoPort}
    BY <2>2 DEF Room
  <2>4. /\ listening' \subseteq RoomPorts \cup {ServicePort}
        /\ failed' \subseteq RoomPorts
    BY <1>2, <2>3, Starts DEF OpenRoom
  <2> QED
    BY <1>2, <2>4 DEF OpenRoom
<1>3. CASE RoomsOpened
  BY <1>3, WorldAssumption DEF RoomsOpened
<1>4. CASE OpenFactoryPort
  <2>1. FactoryPorts[step] \in RoomPorts
    BY <1>4, FactoryPortsType DEF OpenFactoryPort
  <2>2. /\ listening' \subseteq RoomPorts \cup {ServicePort}
        /\ failed' \subseteq RoomPorts
    BY <1>4, <2>1, Starts DEF OpenFactoryPort
  <2> QED
    BY <1>4, <2>2, WorldAssumption DEF OpenFactoryPort
<1>5. CASE Quit
  BY <1>5 DEF Quit, IsCounts
<1> QED
  BY <1>1, <1>2, <1>3, <1>4, <1>5

LEMMA ClaimType ==
  ASSUME TypeInv, NEW w \in Worker, NEW name \in Name, NEW pw \in Password,
         Claim(w, name, pw)
  PROVE  TypeInv'
<1> DEFINE i == RowFor(rooms, name)
           ws == WithRow(rooms, i)
           k == [stage |-> IF i = 0 THEN "password" ELSE "fill", row |-> i, name |-> name,
                 port |-> FactoryPorts[(nextPort % NPorts) + 1], password |-> pw]
<1>1. rooms \in Seq(Room) /\ Len(rooms) <= MaxRooms /\ nextPort \in Nat
  BY DEF TypeInv, TypeOK
<1>2. /\ ws \in Seq(Room) /\ Len(ws) <= MaxRooms
      /\ Len(ws) \in {Len(rooms), Len(rooms) + 1}
      /\ i # 0 => i \in 1..Len(ws)
  BY <1>1, WithRowType
<1>3. i \in Nat
  BY <1>1, RowForType
<1>4. k \in Making
  BY <1>1, <1>3, FactoryPortsType DEF Making
<1>5. rooms' = ws /\ making' = [making EXCEPT ![w] = k]
  BY DEF Claim
<1>6. coreLock' = w /\ nextPort' = nextPort + 1
  BY DEF Claim, Enter
<1>7. k.stage = "fill" => k.row \in 1..Len(ws)
  BY <1>2
<1>8. RowsThere'
  BY <1>1, <1>2, <1>5, <1>7 DEF TypeInv, TypeOK, RowsThere
<1>9. UNCHANGED <<mainVars, tableVars, replyVars, asked>>
  BY DEF Claim
<1> HIDE DEF i, ws, k
<1> QED
  BY <1>1, <1>2, <1>4, <1>5, <1>6, <1>8, <1>9
  DEF TypeInv, TypeOK, mainVars, tableVars, replyVars

(* What a worker with a request under way is about to do. *)
LEMMA MakingType ==
  ASSUME TypeInv, NEW w \in Worker, making[w].stage \in {"fill", "password"}
  PROVE  making[w] \in Making /\ making[w] # NotMaking
BY DEF TypeInv, TypeOK, NotMaking

LEMMA WriteType ==
  ASSUME TypeInv, NEW w \in Worker, Write(w)
  PROVE  TypeInv'
<1> DEFINE k == making[w]
<1>1. k \in Making /\ k.row \in 1..Len(rooms) /\ k.stage = "fill"
  BY MakingType DEF Write, TypeInv, RowsThere
<1>2. rooms \in Seq(Room) /\ Len(rooms) <= MaxRooms
  BY DEF TypeInv, TypeOK
<1>3. k.name \in Name /\ k.port \in RoomPorts
  BY <1>1, FactoryPortsType DEF Making
<1>4. rooms' = Fill(rooms, k.row, k.name, k.port, 0)
  BY DEF Write
<1>5. rooms' \in Seq(Room) /\ Len(rooms') = Len(rooms)
  BY <1>1, <1>2, <1>3, <1>4, FillRows
<1>6. SetRoom(k.port, 0) /\ Sync
  BY DEF Write
<1>7. IsCounts(published') /\ dirty' \in BOOLEAN
  BY <1>3, <1>6, SetRoomKeeps DEF TypeInv, TypeOK
<1>8. responder' \in {"none", "look", "apply"}
  BY <1>6 DEF Sync, TypeInv, TypeOK
<1>9. making' = [making EXCEPT ![w] = [k EXCEPT !.stage = "password"]]
  BY DEF Write
<1>10. [k EXCEPT !.stage = "password"] \in Making
  BY <1>1 DEF Making
<1>11. RowsThere'
  BY <1>5, <1>9, <1>10 DEF TypeInv, TypeOK, RowsThere, Making
<1>12. UNCHANGED <<nextPort, coreLock, mainVars, want, bound, asked>>
  BY DEF Write
<1> HIDE DEF k
<1> QED
  BY <1>2, <1>5, <1>7, <1>8, <1>9, <1>10, <1>11, <1>12 DEF TypeInv, TypeOK, mainVars

LEMMA ProtectType ==
  ASSUME TypeInv, NEW w \in Worker, Protect(w)
  PROVE  TypeInv'
<1> DEFINE k == making[w]
<1>1. k \in Making
  BY MakingType DEF Protect
<1>2. rooms \in Seq(Room) /\ Len(rooms) <= MaxRooms
  BY DEF TypeInv, TypeOK
<1>3. k.password \in Password /\ k.port \in FactoryRange
  BY <1>1 DEF Making
<1>4. rooms' = SetPassword(rooms, k.port, k.password)
  BY DEF Protect
<1>5. rooms' \in Seq(Room) /\ Len(rooms') = Len(rooms)
  BY <1>2, <1>3, <1>4, SetPasswordType
<1>6. asked' \in [FactoryRange -> Password]
  BY <1>3 DEF Protect, TypeInv, TypeOK
<1>7. RowsThere'
  BY <1>5 DEF Protect, TypeInv, TypeOK, RowsThere, NotMaking
<1>8. making' \in [Worker -> {NotMaking} \cup Making] /\ coreLock' = Nobody
  BY DEF Protect, TypeInv, TypeOK
<1>9. UNCHANGED <<nextPort, mainVars, tableVars, replyVars>>
  BY DEF Protect
<1> HIDE DEF k
<1> QED
  BY <1>2, <1>5, <1>6, <1>7, <1>8, <1>9
  DEF TypeInv, TypeOK, mainVars, tableVars, replyVars

LEMMA RespondType ==
  ASSUME TypeInv, Respond
  PROVE  TypeInv'
<1> USE DEF TypeInv, TypeOK, RowsThere, mainVars, factoryVars, tableVars
<1>1. CASE Look
  BY <1>1 DEF Look
<1>2. CASE Apply
  BY <1>2, BindableType DEF Apply
<1> QED
  BY <1>1, <1>2 DEF Respond

LEMMA TypeStep == TypeInv /\ [Next]_worldVars => TypeInv'
<1> SUFFICES ASSUME TypeInv, [Next]_worldVars PROVE TypeInv'
  OBVIOUS
<1>1. CASE MainStep
  BY <1>1, SeedRoomType, MainType DEF MainStep
<1>2. ASSUME NEW w \in Worker, NEW n \in Name, NEW pw \in Password, Claim(w, n, pw)
      PROVE  TypeInv'
  BY <1>2, ClaimType
<1>3. ASSUME NEW w \in Worker, Serve(w) PROVE TypeInv'
  BY <1>3, WriteType, ProtectType DEF Serve
<1>4. CASE Respond
  BY <1>4, RespondType
<1>5. CASE UNCHANGED worldVars
  BY <1>5 DEF worldVars, TypeInv, TypeOK, RowsThere
<1> QED
  BY <1>1, <1>2, <1>3, <1>4, <1>5 DEF Next, Ended

LEMMA TypesHold == Spec => []TypeInv
BY TypeInit, TypeStep, PTL DEF Spec

(* Every variable keeps its range: no row is written past the end of       *)
(* g_rooms, and the ports are among those the code names.                  *)
THEOREM TypeCorrect == Spec => []TypeOK
BY TypesHold, PTL DEF TypeInv

-----------------------------------------------------------------------------
(* The lock. *)

LockInv == TypeInv /\ LockHeld /\ Seeding

(* While the rooms are seeded no worker has a request. *)
LEMMA NoneMakesWhileSeeding ==
  ASSUME LockInv, main = "seed"
  PROVE  \A w \in Worker : making[w] = NotMaking
BY WorldAssumption DEF LockInv, LockHeld, Seeding

(* The holder of the lock is the only one with a request. *)
LEMMA OneMakes ==
  ASSUME LockInv, NEW w \in Worker, making[w] # NotMaking
  PROVE  coreLock = w /\ \A v \in Worker : making[v] # NotMaking => v = w
BY DEF LockInv, LockHeld

LEMMA LockInit == Init => LockInv
BY TypeInit, WorldAssumption DEF Init, LockInv, LockHeld, Seeding

LEMMA LockStep == LockInv /\ [Next]_worldVars => LockInv'
<1> SUFFICES ASSUME LockInv, [Next]_worldVars PROVE LockHeld' /\ Seeding'
  BY TypeStep DEF LockInv
<1> USE DEF LockInv, LockHeld, Seeding
<1>1. CASE MainStep
  BY <1>1, WorldAssumption DEF MainStep, SeedRoom, OpenService, Quit, OpenRoom,
     RoomsOpened, OpenFactoryPort, factoryVars
<1>2. ASSUME NEW w \in Worker, NEW n \in Name, NEW pw \in Password, Claim(w, n, pw)
      PROVE  LockHeld' /\ Seeding'
  <2>1. making'[w].stage \in {"fill", "password"} /\ making'[w] # NotMaking
    BY <1>2 DEF Claim, NotMaking, TypeInv, TypeOK
  <2>2. \A v \in Worker : v # w => making'[v] = making[v]
    BY <1>2 DEF Claim
  <2>3. coreLock = Nobody /\ coreLock' = w
    BY <1>2 DEF Claim, Enter
  <2>4. ServicePort \in listening /\ main' = main /\ listening' = listening
    BY <1>2 DEF Claim, mainVars
  <2> QED
    BY <2>1, <2>2, <2>3, <2>4, WorldAssumption
<1>3. ASSUME NEW w \in Worker, Write(w)
      PROVE  LockHeld' /\ Seeding'
  <2>1. making[w] \in Making /\ making[w] # NotMaking
    BY <1>3, MakingType DEF Write
  <2>2. making' = [making EXCEPT ![w] = [making[w] EXCEPT !.stage = "password"]]
    BY <1>3 DEF Write
  <2>3. [making[w] EXCEPT !.stage = "password"].stage = "password"
    BY <2>1 DEF Making
  <2>4. making'[w] = [making[w] EXCEPT !.stage = "password"]
        /\ \A v \in Worker : v # w => making'[v] = making[v]
    BY <2>2 DEF TypeInv, TypeOK
  <2>5. making'[w] # NotMaking
    BY <2>3, <2>4 DEF NotMaking
  <2>6. coreLock' = coreLock /\ UNCHANGED mainVars
    BY <1>3 DEF Write
  <2> QED
    BY <2>1, <2>4, <2>5, <2>6 DEF mainVars
<1>4. ASSUME NEW w \in Worker, Protect(w)
      PROVE  LockHeld' /\ Seeding'
  <2>1. making[w] # NotMaking
    BY <1>4, MakingType DEF Protect
  <2>2. making'[w] = NotMaking /\ \A v \in Worker : v # w => making'[v] = making[v]
    BY <1>4 DEF Protect, TypeInv, TypeOK
  <2>3. coreLock' = Nobody /\ UNCHANGED mainVars
    BY <1>4 DEF Protect
  <2> QED
    BY <2>1, <2>2, <2>3, WorldAssumption DEF mainVars
<1>5. CASE Respond
  BY <1>5 DEF Respond, Look, Apply, factoryVars, mainVars
<1>6. CASE UNCHANGED worldVars
  BY <1>6 DEF worldVars
<1> QED
  BY <1>1, <1>2, <1>3, <1>4, <1>5, <1>6 DEF Next, Ended, Serve

LEMMA LockHolds == Spec => []LockInv
BY LockInit, LockStep, PTL DEF Spec

-----------------------------------------------------------------------------
(* Names. *)

NamesInv == LockInv /\ RowsHeld /\ NamesUnique

(* Writing a row leaves names unique when no other row has the name.       *)
LEMMA FillKeepsNames ==
  ASSUME NEW rs \in Seq(Room), NEW i \in 1..Len(rs), NEW name \in Name,
         NEW p \in RoomPorts, NEW n \in Nat,
         \A j \in 1..Len(rs) : rs[j].name = name => j = i,
         \A j, k \in 1..Len(rs) :
           rs[j].name = rs[k].name /\ rs[j].name # NoName => j = k
  PROVE  \A j, k \in 1..Len(rs) :
           LET fs == Fill(rs, i, name, p, n)
           IN fs[j].name = fs[k].name /\ fs[j].name # NoName => j = k
<1> DEFINE fs == Fill(rs, i, name, p, n)
<1>1. /\ fs[i] = [name |-> name, port |-> p, players |-> n, password |-> NoPassword]
      /\ \A j \in 1..Len(rs) : j # i => fs[j] = rs[j]
  BY FillType
<1>2. fs[i].name = name
  BY <1>1
<1> HIDE DEF fs
<1>3. \A j, k \in 1..Len(rs) : fs[j].name = fs[k].name /\ fs[j].name # NoName => j = k
  BY <1>1, <1>2
<1> QED
  BY <1>3 DEF fs

(* The row WonServer_AddRoom settles for is the only one with the name.    *)
LEMMA ClaimedRow ==
  ASSUME NamesInv, NEW name \in Name, RowFor(rooms, name) # 0
  PROVE  LET ws == WithRow(rooms, RowFor(rooms, name))
         IN /\ \A j \in 1..Len(ws) : ws[j].name = name => j = RowFor(rooms, name)
            /\ \A j, k \in 1..Len(ws) :
                 ws[j].name = ws[k].name /\ ws[j].name # NoName => j = k
<1> DEFINE i == RowFor(rooms, name)
           ws == WithRow(rooms, i)
<1>1. rooms \in Seq(Room) /\ Len(rooms) <= MaxRooms
  BY DEF NamesInv, LockInv, TypeInv, TypeOK
<1>2. /\ Len(ws) \in {Len(rooms), Len(rooms) + 1} /\ Len(rooms) \in Nat
      /\ \A j \in 1..Len(rooms) : ws[j] = rooms[j]
      /\ \A j \in 1..Len(ws) : j \notin 1..Len(rooms) => ws[j] = NoRoom
      /\ i \in 1..Len(ws)
  BY <1>1, WithRowType
<1>3. /\ i \in 1..Len(rooms) => rooms[i].name = name
      /\ i \notin 1..Len(rooms) => Named(rooms, name) = {}
  BY <1>1, RowForType
<1>4. NoRoom.name = NoName /\ name # NoName
  BY WorldAssumption DEF NoRoom
<1> HIDE DEF i, ws
<1>5. \A j, k \in 1..Len(ws) : ws[j].name = ws[k].name /\ ws[j].name # NoName => j = k
  BY <1>2, <1>4 DEF NamesInv, NamesUnique
<1>6. \A j \in 1..Len(ws) : ws[j].name = name => j = i
  BY <1>2, <1>3, <1>4 DEF NamesInv, NamesUnique, Named
<1> QED
  BY <1>5, <1>6 DEF i, ws

LEMMA NamesInit == Init => NamesInv
BY LockInit DEF Init, NamesInv, NamesUnique, RowsHeld, NotMaking

LEMMA NamesStep == NamesInv /\ [Next]_worldVars => NamesInv'
<1> SUFFICES ASSUME NamesInv, [Next]_worldVars PROVE RowsHeld' /\ NamesUnique'
  BY LockStep DEF NamesInv
<1>0. rooms \in Seq(Room) /\ Len(rooms) <= MaxRooms
  BY DEF NamesInv, LockInv, TypeInv, TypeOK
<1>1. CASE SeedRoom
  <2> DEFINE d == DefaultRooms[step]
             i == RowFor(rooms, d.name)
             ws == WithRow(rooms, i)
  <2>1. d \in [name: Name, port: RoomPorts, players: Nat]
    <3>1. step \in 1..Len(DefaultRooms)
      BY <1>1 DEF SeedRoom, NamesInv, LockInv, TypeInv, TypeOK
    <3>2. DefaultRooms \in Seq([name: Name, port: RoomPorts, players: Nat])
      BY WorldAssumption
    <3> QED
      BY <3>1, <3>2, ElementOf
  <2>2. d.name \in Name /\ d.port \in RoomPorts /\ d.players \in Nat
    BY <2>1
  <2> HIDE DEF d
  <2>3. RowsHeld'
    BY <1>1, NoneMakesWhileSeeding DEF SeedRoom, NamesInv, RowsHeld, factoryVars, NotMaking
  <2>4. CASE i = 0
    BY <1>1, <2>3, <2>4 DEF SeedRoom, NamesInv, NamesUnique, d
  <2>5. CASE i # 0
    <3>1. rooms' = Fill(ws, i, d.name, d.port, d.players)
      BY <1>1, <2>5 DEF SeedRoom, d
    <3>2. ws \in Seq(Room) /\ i \in 1..Len(ws)
      BY <1>0, <2>5, WithRowType
    <3>3. /\ \A j \in 1..Len(ws) : ws[j].name = d.name => j = i
          /\ \A j, k \in 1..Len(ws) :
               ws[j].name = ws[k].name /\ ws[j].name # NoName => j = k
      BY <2>2, <2>5, ClaimedRow
    <3> HIDE DEF i, ws
    <3>4. Len(rooms') = Len(ws)
      BY <3>1, <3>2, FillLength
    <3>5. NamesUnique'
      BY <2>2, <3>1, <3>2, <3>3, <3>4, FillKeepsNames DEF NamesUnique
    <3> QED
      BY <2>3, <3>5
  <2> QED
    BY <2>4, <2>5
<1>2. CASE OpenService \/ Quit \/ OpenRoom \/ RoomsOpened \/ OpenFactoryPort
  BY <1>2 DEF OpenService, Quit, OpenRoom, RoomsOpened, OpenFactoryPort, factoryVars,
     NamesInv, RowsHeld, NamesUnique
<1>3. ASSUME NEW w \in Worker, NEW n \in Name, NEW pw \in Password, Claim(w, n, pw)
      PROVE  RowsHeld' /\ NamesUnique'
  <2> DEFINE i == RowFor(rooms, n)
             ws == WithRow(rooms, i)
  <2>1. rooms' = ws
    BY <1>3 DEF Claim
  <2>2. /\ making'[w].stage = "fill" => i # 0
        /\ making'[w].row = i /\ making'[w].name = n
        /\ \A v \in Worker : v # w => making'[v] = making[v]
    BY <1>3 DEF Claim, NamesInv, LockInv, TypeInv, TypeOK
  <2>3. \A v \in Worker : making[v] = NotMaking
    BY <1>3, WorldAssumption DEF Claim, Enter, NamesInv, LockInv, LockHeld
  <2>4. CASE i = 0
    <3>1. rooms' = rooms
      BY <1>0, <2>1, <2>4 DEF WithRow
    <3>2. RowsHeld'
      BY <2>2, <2>3, <2>4 DEF RowsHeld, NotMaking
    <3> QED
      BY <3>1, <3>2 DEF NamesInv, NamesUnique
  <2>5. CASE i # 0
    <3>1. i \in 1..Len(ws)
      BY <1>0, <2>5, WithRowType
    <3>2. /\ \A j \in 1..Len(ws) : ws[j].name = n => j = i
          /\ \A j, k \in 1..Len(ws) :
               ws[j].name = ws[k].name /\ ws[j].name # NoName => j = k
      BY <2>5, ClaimedRow
    <3> HIDE DEF i, ws
    <3>3. RowsHeld'
      BY <2>1, <2>2, <2>3, <3>1, <3>2 DEF RowsHeld, NotMaking
    <3> QED
      BY <2>1, <3>2, <3>3 DEF NamesUnique
  <2> QED
    BY <2>4, <2>5
<1>4. ASSUME NEW w \in Worker, Write(w)
      PROVE  RowsHeld' /\ NamesUnique'
  <2> DEFINE k == making[w]
  <2>1. k \in Making /\ k # NotMaking /\ k.stage = "fill"
    BY <1>4, MakingType DEF Write, NamesInv, LockInv
  <2>2. k.name \in Name /\ k.port \in RoomPorts
    BY <2>1, FactoryPortsType DEF Making
  <2>3. k.row \in 1..Len(rooms) /\ \A j \in 1..Len(rooms) : rooms[j].name = k.name => j = k.row
    BY <2>1 DEF NamesInv, RowsHeld
  <2>4. rooms' = Fill(rooms, k.row, k.name, k.port, 0)
    BY <1>4 DEF Write
  <2>5. Len(rooms') = Len(rooms)
    BY <1>0, <2>4, FillLength
  <2>6. \A v \in Worker : making'[v].stage # "fill"
    <3>1. making' = [making EXCEPT ![w] = [k EXCEPT !.stage = "password"]]
      BY <1>4 DEF Write
    <3>2. [k EXCEPT !.stage = "password"].stage = "password"
      BY <2>1 DEF Making
    <3>3. \A v \in Worker : v # w => making[v] = NotMaking
      BY <2>1, OneMakes DEF NamesInv
    <3> QED
      BY <3>1, <3>2, <3>3 DEF NotMaking, NamesInv, LockInv, TypeInv, TypeOK
  <2> HIDE DEF k
  <2>7. NamesUnique'
    <3> DEFINE fs == Fill(rooms, k.row, k.name, k.port, 0)
    <3>1. \A j, l \in 1..Len(rooms) :
            rooms[j].name = rooms[l].name /\ rooms[j].name # NoName => j = l
      BY DEF NamesInv, NamesUnique
    <3>2. \A j, l \in 1..Len(rooms) : fs[j].name = fs[l].name /\ fs[j].name # NoName => j = l
      BY <1>0, <2>2, <2>3, <3>1, FillKeepsNames
    <3> HIDE DEF fs
    <3>3. rooms' = fs
      BY <2>4 DEF fs
    <3> QED
      BY <2>5, <3>2, <3>3 DEF NamesUnique
  <2> QED
    BY <2>6, <2>7 DEF RowsHeld
<1>5. ASSUME NEW w \in Worker, Protect(w)
      PROVE  RowsHeld' /\ NamesUnique'
  <2> DEFINE k == making[w]
  <2>1. k \in Making /\ k # NotMaking
    BY <1>5, MakingType DEF Protect, NamesInv, LockInv
  <2>2. k.password \in Password
    BY <2>1 DEF Making
  <2>3. rooms' = SetPassword(rooms, k.port, k.password)
    BY <1>5 DEF Protect
  <2>4. \A v \in Worker : making'[v] = NotMaking
    <3>1. \A v \in Worker : v # w => making[v] = NotMaking
      BY <2>1, OneMakes DEF NamesInv
    <3> QED
      BY <1>5, <3>1 DEF Protect, NamesInv, LockInv, TypeInv, TypeOK
  <2> HIDE DEF k
  <2>5. Len(rooms') = Len(rooms) /\ \A j \in 1..Len(rooms) : rooms'[j].name = rooms[j].name
    BY <1>0, <2>2, <2>3, SetPasswordType
  <2> QED
    BY <2>4, <2>5 DEF NamesInv, NamesUnique, RowsHeld, NotMaking
<1>6. CASE Respond
  BY <1>6 DEF Respond, Look, Apply, factoryVars, NamesInv, NamesUnique, RowsHeld
<1>7. CASE UNCHANGED worldVars
  BY <1>7 DEF worldVars, NamesInv, NamesUnique, RowsHeld
<1> QED
  BY <1>1, <1>2, <1>3, <1>4, <1>5, <1>6, <1>7 DEF Next, Ended, MainStep, Serve

(* WonServer_AddRoom lists a name once, although it looks the name up in   *)
(* one step and writes the row in a later one.                             *)
THEOREM NamesListedOnce == Spec => []NamesUnique
<1>1. Spec => []NamesInv
  BY NamesInit, NamesStep, PTL DEF Spec
<1> QED
  BY <1>1, PTL DEF NamesInv

-----------------------------------------------------------------------------
(* What a step does to the rows, action by action. *)

RowWritten(i, p) ==
  /\ i \in 1..Len(rooms')
  /\ rooms'[i].port = p /\ rooms'[i].password = NoPassword
  /\ \A j \in 1..Len(rooms') : j # i => j \in 1..Len(rooms) /\ rooms'[j] = rooms[j]

LEMMA SeedWrites ==
  ASSUME TypeInv, SeedRoom
  PROVE  \/ UNCHANGED <<rooms, tableVars, responder>>
         \/ \E i \in Nat, p \in DefaultRange, n \in Nat :
              RowWritten(i, p) /\ SetRoom(p, n) /\ Sync
<1> DEFINE d == DefaultRooms[step]
           i == RowFor(rooms, d.name)
           ws == WithRow(rooms, i)
<1>1. d \in [name: Name, port: RoomPorts, players: Nat] /\ d.port \in DefaultRange
  <2>1. step \in 1..Len(DefaultRooms)
    BY DEF SeedRoom, TypeInv, TypeOK
  <2>2. DefaultRooms \in Seq([name: Name, port: RoomPorts, players: Nat])
    BY WorldAssumption
  <2> QED
    BY <2>1, <2>2, ElementOf DEF DefaultRange
<1>2. d.name \in Name /\ d.port \in RoomPorts /\ d.players \in Nat
  BY <1>1
<1>3. rooms \in Seq(Room) /\ Len(rooms) <= MaxRooms
  BY DEF TypeInv, TypeOK
<1>4. CASE i = 0
  BY <1>4 DEF SeedRoom
<1>5. CASE i # 0
  <2>1. rooms' = Fill(ws, i, d.name, d.port, d.players) /\ SetRoom(d.port, d.players) /\ Sync
    BY <1>5 DEF SeedRoom
  <2>2. /\ ws \in Seq(Room) /\ Len(ws) \in {Len(rooms), Len(rooms) + 1}
        /\ i \in 1..Len(ws)
        /\ \A j \in 1..Len(rooms) : ws[j] = rooms[j]
    BY <1>3, <1>5, WithRowType
  <2>3. i = Len(rooms) + 1 \/ ws = rooms
    BY DEF WithRow
  <2> HIDE DEF d, i, ws
  <2>4. /\ Len(rooms') = Len(ws)
        /\ rooms'[i] = [name |-> d.name, port |-> d.port, players |-> d.players,
                        password |-> NoPassword]
        /\ \A j \in 1..Len(ws) : j # i => rooms'[j] = ws[j]
    BY <1>2, <2>1, <2>2, FillType
  <2>5. rooms'[i].port = d.port /\ rooms'[i].password = NoPassword
    BY <2>4
  <2>6. \A j \in 1..Len(rooms') : j # i => j \in 1..Len(rooms) /\ rooms'[j] = rooms[j]
    BY <1>3, <2>2, <2>3, <2>4
  <2>7. RowWritten(i, d.port) /\ i \in Nat
    BY <2>2, <2>4, <2>5, <2>6 DEF RowWritten
  <2> QED
    BY <1>1, <1>2, <2>1, <2>7
<1> QED
  BY <1>4, <1>5

(* A claim adds at most an empty row. *)
LEMMA ClaimAppends ==
  ASSUME TypeInv, NEW w \in Worker, NEW name \in Name, NEW pw \in Password,
         Claim(w, name, pw)
  PROVE  /\ Len(rooms') \in {Len(rooms), Len(rooms) + 1}
         /\ \A j \in 1..Len(rooms) : rooms'[j] = rooms[j]
         /\ \A j \in 1..Len(rooms') : j \notin 1..Len(rooms) => rooms'[j] = NoRoom
BY WithRowType DEF Claim, TypeInv, TypeOK

LEMMA WriteWrites ==
  ASSUME TypeInv, NEW w \in Worker, Write(w)
  PROVE  /\ making[w] \in Making /\ making[w].port \in FactoryRange
         /\ RowWritten(making[w].row, making[w].port)
         /\ SetRoom(making[w].port, 0) /\ Sync
<1> DEFINE k == making[w]
<1>1. k \in Making /\ k.row \in 1..Len(rooms)
  BY MakingType DEF Write, TypeInv, RowsThere
<1>2. rooms \in Seq(Room)
  BY DEF TypeInv, TypeOK
<1>3. k.name \in Name /\ k.port \in FactoryRange /\ k.port \in RoomPorts
  BY <1>1, FactoryPortsType DEF Making
<1>4. rooms' = Fill(rooms, k.row, k.name, k.port, 0) /\ SetRoom(k.port, 0) /\ Sync
  BY DEF Write
<1> HIDE DEF k
<1>5. /\ Len(rooms') = Len(rooms)
      /\ rooms'[k.row] = [name |-> k.name, port |-> k.port, players |-> 0,
                          password |-> NoPassword]
      /\ \A j \in 1..Len(rooms) : j # k.row => rooms'[j] = rooms[j]
  BY <1>1, <1>2, <1>3, <1>4, FillType
<1>6. rooms'[k.row].port = k.port /\ rooms'[k.row].password = NoPassword
  BY <1>5
<1>7. RowWritten(k.row, k.port)
  BY <1>1, <1>5, <1>6 DEF RowWritten
<1> QED
  BY <1>1, <1>3, <1>4, <1>7 DEF k

LEMMA ProtectSets ==
  ASSUME TypeInv, NEW w \in Worker, Protect(w)
  PROVE  LET p == making[w].port
         IN /\ making[w] \in Making /\ p \in FactoryRange
            /\ Len(rooms') = Len(rooms)
            /\ \A j \in 1..Len(rooms) :
                 rooms'[j].port = rooms[j].port /\ (rooms'[j] # rooms[j] => rooms[j].port = p)
            /\ OnPort(rooms, p) # {} =>
                 /\ Least(OnPort(rooms, p)) \in OnPort(rooms, p)
                 /\ rooms'[Least(OnPort(rooms, p))].password = making[w].password
<1> DEFINE k == making[w]
<1>1. k \in Making
  BY MakingType DEF Protect
<1>2. k.port \in FactoryRange /\ k.password \in Password
  BY <1>1 DEF Making
<1>3. rooms \in Seq(Room) /\ rooms' = SetPassword(rooms, k.port, k.password)
  BY DEF Protect, TypeInv, TypeOK
<1> HIDE DEF k
<1> QED
  BY <1>1, <1>2, <1>3, SetPasswordType DEF k

-----------------------------------------------------------------------------
(* The responder. *)

HeardInv == TypeInv /\ Heard

LEMMA HeardStep == HeardInv /\ [Next]_worldVars => HeardInv'
<1> SUFFICES ASSUME HeardInv, [Next]_worldVars PROVE Heard'
  BY TypeStep DEF HeardInv
<1>0. IsCounts(published) /\ dirty \in BOOLEAN /\ TypeInv
  BY DEF HeardInv, TypeInv, TypeOK
<1>1. CASE SeedRoom
  <2>1. CASE UNCHANGED <<rooms, tableVars, responder>>
    BY <1>1, <2>1 DEF SeedRoom, HeardInv, Heard, tableVars, Bindable
  <2>2. ASSUME NEW i \in Nat, NEW p \in DefaultRange, NEW n \in Nat, SetRoom(p, n)
        PROVE  Heard'
    <3>1. dirty'
      BY <1>0, <2>2, SetRoomKeeps DEF RoomPorts
    <3> QED
      BY <3>1 DEF Heard
  <2> QED
    BY <1>0, <1>1, <2>1, <2>2, SeedWrites
<1>2. CASE OpenService \/ OpenRoom \/ RoomsOpened \/ OpenFactoryPort
  BY <1>2 DEF OpenService, OpenRoom, RoomsOpened, OpenFactoryPort, tableVars, replyVars,
     HeardInv, Heard, Bindable
<1>9. CASE Quit
  BY <1>9 DEF Quit, Heard
<1>3. ASSUME NEW w \in Worker, NEW n \in Name, NEW pw \in Password, Claim(w, n, pw)
      PROVE  Heard'
  BY <1>3 DEF Claim, tableVars, replyVars, HeardInv, Heard, Bindable
<1>4. ASSUME NEW w \in Worker, Write(w)
      PROVE  Heard'
  <2>1. SetRoom(making[w].port, 0) /\ making[w].port \in RoomPorts
    BY <1>0, <1>4, WriteWrites DEF RoomPorts
  <2>2. dirty'
    BY <1>0, <2>1, SetRoomKeeps
  <2> QED
    BY <2>2 DEF Heard
<1>5. ASSUME NEW w \in Worker, Protect(w)
      PROVE  Heard'
  BY <1>5 DEF Protect, tableVars, replyVars, HeardInv, Heard, Bindable
<1>6. CASE Look
  BY <1>6 DEF Look, HeardInv, Heard, Bindable
<1>7. CASE Apply
  BY <1>7 DEF Apply, tableVars, HeardInv, Heard, Bindable
<1>8. CASE UNCHANGED worldVars
  BY <1>8 DEF worldVars, HeardInv, Heard, Bindable
<1> QED
  BY <1>1, <1>2, <1>3, <1>4, <1>5, <1>6, <1>7, <1>8, <1>9
  DEF Next, Ended, MainStep, Serve, Respond

(* A change of the published ports that comes while the responder rebinds  *)
(* leaves the table dirty, so the responder looks at it again.             *)
THEOREM NoChangeForgotten == Spec => []Heard
<1>1. Init => HeardInv
  BY TypeInit DEF Init, HeardInv, Heard
<1>2. Spec => []HeardInv
  BY <1>1, HeardStep, PTL DEF Spec
<1> QED
  BY <1>2, PTL DEF HeardInv

-----------------------------------------------------------------------------
(* Every listed room is published. *)

PublishedInv == TypeInv /\ AllPublished

LEMMA PublishedStep == PublishedInv /\ [Next]_worldVars => PublishedInv'
<1> SUFFICES ASSUME PublishedInv, [Next]_worldVars PROVE AllPublished'
  BY TypeStep DEF PublishedInv
<1>0. IsCounts(published) /\ dirty \in BOOLEAN /\ TypeInv
  BY DEF PublishedInv, TypeInv, TypeOK
<1>1. ASSUME NEW i, NEW p \in RoomPorts, NEW n \in Nat, RowWritten(i, p), SetRoom(p, n)
      PROVE  AllPublished'
  <2>1. DOMAIN published' = DOMAIN published \cup {p}
    BY <1>0, <1>1, SetRoomKeeps
  <2> QED
    BY <1>1, <2>1 DEF RowWritten, PublishedInv, AllPublished
<1>2. CASE SeedRoom
  <2>1. CASE UNCHANGED <<rooms, tableVars, responder>>
    BY <2>1 DEF tableVars, PublishedInv, AllPublished
  <2> QED
    BY <1>0, <1>1, <1>2, <2>1, SeedWrites DEF RoomPorts
<1>3. CASE OpenService \/ Quit \/ OpenRoom \/ RoomsOpened \/ OpenFactoryPort
  BY <1>3 DEF OpenService, Quit, OpenRoom, RoomsOpened, OpenFactoryPort, tableVars,
     PublishedInv, AllPublished
<1>4. ASSUME NEW w \in Worker, NEW n \in Name, NEW pw \in Password, Claim(w, n, pw)
      PROVE  AllPublished'
  <2>1. published' = published
    BY <1>4 DEF Claim, tableVars
  <2>2. NoRoom.port = NoPort
    BY DEF NoRoom
  <2> QED
    BY <1>0, <1>4, <2>1, <2>2, ClaimAppends DEF PublishedInv, AllPublished
<1>5. ASSUME NEW w \in Worker, Write(w)
      PROVE  AllPublished'
  <2>1. /\ making[w].port \in RoomPorts /\ RowWritten(making[w].row, making[w].port)
        /\ SetRoom(making[w].port, 0)
    BY <1>0, <1>5, WriteWrites DEF RoomPorts
  <2> QED
    BY <1>1, <2>1
<1>6. ASSUME NEW w \in Worker, Protect(w)
      PROVE  AllPublished'
  <2>1. published' = published
    BY <1>6 DEF Protect, tableVars
  <2> QED
    BY <1>0, <1>6, <2>1, ProtectSets DEF PublishedInv, AllPublished
<1>7. CASE Respond
  BY <1>7 DEF Respond, Look, Apply, tableVars, PublishedInv, AllPublished
<1>8. CASE UNCHANGED worldVars
  BY <1>8 DEF worldVars, PublishedInv, AllPublished
<1> QED
  BY <1>2, <1>3, <1>4, <1>5, <1>6, <1>7, <1>8 DEF Next, Ended, MainStep, Serve

(* The responder's table never runs out of places for a listed room's port. *)
THEOREM RoomsPublished == Spec => []AllPublished
<1>1. Init => PublishedInv
  BY TypeInit DEF Init, PublishedInv, AllPublished
<1>2. Spec => []PublishedInv
  BY <1>1, PublishedStep, PTL DEF Spec
<1> QED
  BY <1>2, PTL DEF PublishedInv

-----------------------------------------------------------------------------
(* Rooms on the default ports, and the listeners. *)

OpenInv == LockInv /\ OpenToAll /\ Opened

LEMMA OpenStep == OpenInv /\ [Next]_worldVars => OpenInv'
<1> SUFFICES ASSUME OpenInv, [Next]_worldVars PROVE OpenToAll' /\ Opened'
  BY LockStep DEF OpenInv
<1>0. TypeInv /\ LockInv /\ rooms \in Seq(Room) /\ step \in Nat \ {0}
  BY DEF OpenInv, LockInv, TypeInv, TypeOK
<1>a. \A p \in FactoryRange : p \notin DefaultRange
  BY WorldAssumption
<1>b. NoRoom.port \notin DefaultRange
  BY WorldAssumption DEF NoRoom, RoomPorts
<1>1. CASE SeedRoom
  <2>1. main = "seed" /\ main' = "seed"
    BY <1>1 DEF SeedRoom
  <2>2. OpenToAll'
    BY <1>0, <1>1, SeedWrites DEF RowWritten, OpenInv, OpenToAll
  <2> QED
    BY <2>1, <2>2 DEF Opened
<1>2. CASE OpenService
  BY <1>0, <1>2 DEF OpenService, OpenInv, OpenToAll, Opened
<1>3. CASE OpenRoom
  <2>1. \A i \in 1..Len(rooms) : i < step + 1 => i < step \/ i = step
    BY <1>0
  <2>2. \A p \in DefaultRange : p \notin {NoPort, ServicePort}
    BY WorldAssumption DEF RoomPorts
  <2>3. Tried \subseteq Tried' /\ (rooms[step].port \in DefaultRange => rooms[step].port \in Tried')
    BY <1>3, <2>2, Starts DEF OpenRoom, Tried
  <2> QED
    BY <1>3, <2>1, <2>3 DEF OpenRoom, OpenInv, OpenToAll, Opened
<1>4. CASE RoomsOpened
  <2>1. \A i \in 1..Len(rooms) : i < step
    BY <1>0, <1>4 DEF RoomsOpened
  <2>2. \A k \in 1..NPorts : ~(k < 1)
    OBVIOUS
  <2>3. Tried' = Tried
    BY <1>4 DEF RoomsOpened, Tried
  <2> QED
    BY <1>4, <2>1, <2>2, <2>3 DEF RoomsOpened, OpenInv, OpenToAll, Opened
<1>5. CASE OpenFactoryPort
  <2>1. \A k \in 1..NPorts : k < step + 1 => k < step \/ k = step
    BY <1>0
  <2>2. step = NPorts => \A k \in 1..NPorts : k < step + 1
    BY <1>0
  <2>3. Tried' = Tried \cup {FactoryPorts[step]}
    BY <1>5, Starts DEF OpenFactoryPort
  <2>4. \A k \in 1..NPorts : k < step' => FactoryPorts[k] \in Tried'
    BY <1>5, <2>1, <2>3 DEF OpenFactoryPort, OpenInv, Opened
  <2>5. step = NPorts => FactoryRange \subseteq Tried'
    BY <1>5, <2>2, <2>4 DEF OpenFactoryPort, FactoryRange
  <2> QED
    BY <1>5, <2>3, <2>4, <2>5 DEF OpenFactoryPort, OpenInv, OpenToAll, Opened
<1>11. CASE Quit
  BY <1>11 DEF Quit, OpenInv, OpenToAll, Opened
<1>6. ASSUME NEW w \in Worker, NEW n \in Name, NEW pw \in Password, Claim(w, n, pw)
      PROVE  OpenToAll' /\ Opened'
  BY <1>0, <1>6, <1>b, ClaimAppends DEF Claim, mainVars, OpenInv, OpenToAll, Opened, Tried
<1>7. ASSUME NEW w \in Worker, Write(w)
      PROVE  OpenToAll' /\ Opened'
  <2>1. making[w].port \notin DefaultRange /\ RowWritten(making[w].row, making[w].port)
    BY <1>0, <1>7, <1>a, WriteWrites
  <2>2. UNCHANGED mainVars
    BY <1>7 DEF Write
  <2> QED
    BY <2>1, <2>2 DEF RowWritten, mainVars, OpenInv, OpenToAll, Opened, Tried
<1>8. ASSUME NEW w \in Worker, Protect(w)
      PROVE  OpenToAll' /\ Opened'
  <2>1. UNCHANGED mainVars
    BY <1>8 DEF Protect
  <2>2. OpenToAll'
    BY <1>0, <1>8, <1>a, ProtectSets DEF OpenInv, OpenToAll
  <2>3. Opened'
    BY <1>0, <1>8, <2>1, ProtectSets DEF mainVars, OpenInv, Opened, Tried
  <2> QED
    BY <2>2, <2>3
<1>9. CASE Respond
  BY <1>9 DEF Respond, Look, Apply, mainVars, OpenInv, OpenToAll, Opened, Tried
<1>10. CASE UNCHANGED worldVars
  BY <1>10 DEF worldVars, OpenInv, OpenToAll, Opened, Tried
<1> QED
  BY <1>1, <1>2, <1>3, <1>4, <1>5, <1>6, <1>7, <1>8, <1>9, <1>10, <1>11
  DEF Next, Ended, MainStep, Serve

LEMMA OpenHolds == Spec => []OpenInv
<1>1. Init => OpenInv
  BY LockInit DEF Init, OpenInv, OpenToAll, Opened
<1> QED
  BY <1>1, OpenStep, PTL DEF Spec

(* However the factory's rooms come, go and run out of rows, a room on a   *)
(* default port asks nobody for a password.                                *)
THEOREM DefaultsStayOpen == Spec => []DefaultsOpen
<1>1. OpenInv => DefaultsOpen
  <2> SUFFICES ASSUME OpenInv, NEW p \in DefaultRange, NEW pw \in Password,
                      OnPort(rooms, p) # {}
               PROVE  rooms[Least(OnPort(rooms, p))].password = NoPassword
    BY DEF DefaultsOpen, Accepts
  <2>1. OnPort(rooms, p) \in SUBSET Nat
    BY DEF OnPort
  <2>2. Least(OnPort(rooms, p)) \in OnPort(rooms, p)
    BY <2>1, LeastIsMember
  <2> QED
    BY <2>2 DEF OnPort, OpenInv, OpenToAll
<1> QED
  BY <1>1, OpenHolds, PTL

(* When the main thread is done it has passed no listed room over: one     *)
(* without a listener, even one made or moved while the thread walked the  *)
(* table, is one whose listener the system refused.                        *)
THEOREM NoneSkipped == Spec => []NoRoomSkipped
<1>1. OpenInv => NoRoomSkipped
  <2> SUFFICES ASSUME OpenInv, main = "sleep", NEW i \in 1..Len(rooms),
                      rooms[i].port # NoPort
               PROVE  rooms[i].port \in Tried
    BY DEF NoRoomSkipped
  <2>1. rooms[i] \in Room
    BY DEF OpenInv, LockInv, TypeInv, TypeOK
  <2>2. rooms[i].port \in DefaultRange \cup FactoryRange
    BY <2>1 DEF Room, RoomPorts
  <2> QED
    BY <2>2 DEF OpenInv, Opened
<1> QED
  BY <1>1, OpenHolds, PTL

-----------------------------------------------------------------------------
(* Passwords, for as long as the factory has not gone round. *)

OnceInv == LockInv /\ OnceRound

(* Nothing the passwords depend on changes. *)
LEMMA OnceStutters ==
  ASSUME OnceRound, UNCHANGED <<rooms, nextPort, making, asked>>
  PROVE  OnceRound'
BY DEF OnceRound, Used, UnderWay, OnPort

LEMMA OnceSeed ==
  ASSUME OnceInv, SeedRoom
  PROVE  OnceRound'
<1>1. UNCHANGED <<nextPort, making, asked>>
  BY DEF SeedRoom, factoryVars
<1>2. \A w \in Worker : making[w] = NotMaking
  BY NoneMakesWhileSeeding DEF SeedRoom, OnceInv
<1>3. CASE UNCHANGED rooms
  BY <1>1, <1>3, OnceStutters DEF OnceInv
<1>4. ASSUME NEW i, NEW p \in DefaultRange, RowWritten(i, p)
      PROVE  OnceRound'
  <2>1. \A j \in 1..Len(rooms') : rooms'[j].port \in FactoryRange =>
          j # i /\ j \in 1..Len(rooms) /\ rooms'[j] = rooms[j]
    BY <1>4, WorldAssumption DEF RowWritten
  <2>2. \A q : (Used(q))' <=> Used(q)
    BY <1>1 DEF Used
  <2> QED
    BY <1>1, <1>2, <2>1, <2>2 DEF OnceInv, OnceRound, UnderWay, NotMaking
<1> QED
  BY <1>3, <1>4, SeedWrites DEF OnceInv, LockInv

(* Before the factory has gone round, the next port is a new one. *)
LEMMA NextPortIsNew ==
  ASSUME TypeInv, nextPort < NPorts
  PROVE  /\ FactoryPorts[(nextPort % NPorts) + 1] = FactoryPorts[nextPort + 1]
         /\ ~Used(FactoryPorts[nextPort + 1])
<1>1. nextPort \in Nat /\ NPorts \in Nat /\ NPorts > 0
  BY WorldAssumption DEF TypeInv, TypeOK
<1>2. nextPort % NPorts = nextPort
  BY <1>1
<1>3. nextPort + 1 \in 1..NPorts /\ \A k \in 1..nextPort : k \in 1..NPorts /\ k # nextPort + 1
  BY <1>1
<1>4. \A k \in 1..nextPort : FactoryPorts[k] # FactoryPorts[nextPort + 1]
  BY <1>3, WorldAssumption
<1> QED
  BY <1>2, <1>4 DEF Used

LEMMA OnceClaim ==
  ASSUME OnceInv, NEW w \in Worker, NEW name \in Name, NEW pw \in Password,
         Claim(w, name, pw)
  PROVE  OnceRound'
<1> DEFINE p == FactoryPorts[nextPort + 1]
<1>0. TypeInv /\ nextPort \in Nat /\ NPorts \in Nat
  BY WorldAssumption DEF OnceInv, LockInv, TypeInv, TypeOK
<1>1. nextPort' = nextPort + 1 /\ asked' = asked
  BY DEF Claim
<1>2. SUFFICES ASSUME nextPort < NPorts PROVE OnceRound'
  BY <1>0, <1>1 DEF OnceRound
<1>3. \A v \in Worker : making[v] = NotMaking
  BY WorldAssumption DEF Claim, Enter, OnceInv, LockInv, LockHeld
<1>4. making'[w].port = p /\ \A v \in Worker : v # w => making'[v] = NotMaking
  BY <1>0, <1>2, <1>3, NextPortIsNew DEF Claim, TypeInv, TypeOK
<1>5. \A q : Used(q) => (Used(q))'
  BY <1>0, <1>1 DEF Used
<1>6. \A q : ~UnderWay(q)
  BY <1>3 DEF UnderWay
<1>7. \A j \in 1..Len(rooms') : rooms'[j].port \in FactoryRange =>
        j \in 1..Len(rooms) /\ rooms'[j] = rooms[j]
  <2>1. NoRoom.port \notin FactoryRange
    BY WorldAssumption DEF NoRoom, RoomPorts
  <2> QED
    BY <1>0, <2>1, ClaimAppends
<1>8. \A j \in 1..Len(rooms') : rooms'[j].port # p
  <2>1. ~Used(p) /\ p \in FactoryRange
    BY <1>0, <1>2, NextPortIsNew, FactoryPortsType
  <2> QED
    BY <1>0, <1>2, <1>7, <2>1 DEF OnceInv, OnceRound
<1> HIDE DEF p
<1>9. \A j \in 1..Len(rooms') : rooms'[j].port \in FactoryRange =>
        /\ Used(rooms'[j].port)
        /\ \A l \in 1..Len(rooms') : rooms'[l].port = rooms'[j].port => j = l
        /\ rooms'[j].password = asked'[rooms'[j].port]
  BY <1>0, <1>1, <1>2, <1>6, <1>7 DEF OnceInv, OnceRound
<1>10. nextPort' > 0 /\ p = FactoryPorts[nextPort']
  BY <1>0, <1>1 DEF p
<1> QED
  BY <1>4, <1>5, <1>8, <1>9, <1>10 DEF OnceRound, OnPort, NotMaking

LEMMA OnceWrite ==
  ASSUME OnceInv, NEW w \in Worker, Write(w)
  PROVE  OnceRound'
<1> DEFINE p == making[w].port
           i == making[w].row
<1>0. TypeInv /\ LockInv
  BY DEF OnceInv, LockInv
<1>1. nextPort' = nextPort /\ asked' = asked
  BY DEF Write
<1>2. SUFFICES ASSUME nextPort <= NPorts PROVE OnceRound'
  BY <1>1 DEF OnceRound
<1>3. making[w] \in Making /\ p \in FactoryRange /\ RowWritten(i, p)
  BY <1>0, WriteWrites
<1>4. making[w] # NotMaking /\ making[w].stage = "fill"
  BY <1>0, MakingType DEF Write
<1>5. nextPort > 0 /\ p = FactoryPorts[nextPort] /\ OnPort(rooms, p) = {}
  BY <1>2, <1>4 DEF OnceInv, OnceRound
<1>6. \A v \in Worker : v # w => making[v] = NotMaking
  BY <1>0, <1>4, OneMakes
<1>7. /\ making'[w].port = p /\ making'[w].stage = "password" /\ making'[w] # NotMaking
      /\ \A v \in Worker : v # w => making'[v] = NotMaking
  <2>1. making' = [making EXCEPT ![w] = [making[w] EXCEPT !.stage = "password"]]
    BY DEF Write
  <2>2. /\ [making[w] EXCEPT !.stage = "password"].stage = "password"
        /\ [making[w] EXCEPT !.stage = "password"].port = p
    BY <1>3 DEF Making
  <2> QED
    BY <1>0, <1>6, <2>1, <2>2 DEF NotMaking, TypeInv, TypeOK
<1>8. Used(p)
  BY <1>0, <1>5 DEF Used, TypeInv, TypeOK
<1>9. \A q : (Used(q))' <=> Used(q)
  BY <1>1 DEF Used
<1>10. \A q : UnderWay(q) <=> q = p
  BY <1>4, <1>6 DEF UnderWay
<1>11. \A q : (UnderWay(q))' <=> q = p
  BY <1>7 DEF UnderWay
<1> HIDE DEF p, i
<1>12. \A j \in 1..Len(rooms') : j # i =>
         j \in 1..Len(rooms) /\ rooms'[j] = rooms[j] /\ rooms[j].port # p
  BY <1>3, <1>5 DEF RowWritten, OnPort
<1>13. i \in 1..Len(rooms') /\ rooms'[i].port = p
  BY <1>3 DEF RowWritten
<1>14. \A j \in 1..Len(rooms') : rooms'[j].port \in FactoryRange =>
         /\ Used(rooms'[j].port)
         /\ \A l \in 1..Len(rooms') : rooms'[l].port = rooms'[j].port => j = l
         /\ rooms'[j].port = p \/ rooms'[j].password = asked[rooms'[j].port]
  BY <1>2, <1>8, <1>10, <1>12, <1>13 DEF OnceInv, OnceRound
<1> QED
  BY <1>1, <1>5, <1>7, <1>9, <1>11, <1>14 DEF OnceRound, NotMaking

LEMMA OnceProtect ==
  ASSUME OnceInv, NEW w \in Worker, Protect(w)
  PROVE  OnceRound'
<1> DEFINE p == making[w].port
           i == Least(OnPort(rooms, p))
<1>0. TypeInv /\ LockInv /\ asked \in [FactoryRange -> Password]
  BY DEF OnceInv, LockInv, TypeInv, TypeOK
<1>1. nextPort' = nextPort /\ asked' = [asked EXCEPT ![p] = making[w].password]
  BY DEF Protect
<1>2. SUFFICES ASSUME nextPort <= NPorts PROVE OnceRound'
  BY <1>1 DEF OnceRound
<1>3. /\ p \in FactoryRange /\ Len(rooms') = Len(rooms)
      /\ \A j \in 1..Len(rooms) :
           rooms'[j].port = rooms[j].port /\ (rooms'[j] # rooms[j] => rooms[j].port = p)
      /\ OnPort(rooms, p) # {} =>
           i \in OnPort(rooms, p) /\ rooms'[i].password = making[w].password
  BY <1>0, ProtectSets
<1>4. making[w] # NotMaking
  BY <1>0, MakingType DEF Protect
<1>5. \A v \in Worker : v # w => making[v] = NotMaking
  BY <1>0, <1>4, OneMakes
<1>6. \A v \in Worker : making'[v] = NotMaking
  BY <1>0, <1>5 DEF Protect, TypeInv, TypeOK
<1>7. \A q : (Used(q))' <=> Used(q)
  BY <1>1 DEF Used
<1>8. \A q : UnderWay(q) => q = p
  BY <1>5 DEF UnderWay
<1> HIDE DEF p, i
<1>9. \A j \in 1..Len(rooms) : rooms[j].port \in FactoryRange =>
        /\ Used(rooms[j].port)
        /\ \A l \in 1..Len(rooms) : rooms[l].port = rooms[j].port => j = l
        /\ rooms[j].port = p \/ rooms[j].password = asked[rooms[j].port]
  BY <1>2, <1>8 DEF OnceInv, OnceRound
<1>10. \A j \in 1..Len(rooms) : rooms[j].port = p => rooms'[j].password = asked'[p]
  <2> SUFFICES ASSUME NEW j \in 1..Len(rooms), rooms[j].port = p
               PROVE  rooms'[j].password = asked'[p]
    OBVIOUS
  <2>1. OnPort(rooms, p) # {}
    BY DEF OnPort
  <2>2. i \in 1..Len(rooms) /\ rooms[i].port = p /\ rooms'[i].password = making[w].password
    BY <1>3, <2>1 DEF OnPort
  <2>3. i = j
    BY <1>3, <1>9, <2>2
  <2> QED
    BY <1>0, <1>1, <1>3, <2>2, <2>3
<1>11. \A j \in 1..Len(rooms) : rooms[j].port \in FactoryRange =>
         rooms'[j].password = asked'[rooms[j].port]
  BY <1>0, <1>1, <1>3, <1>9, <1>10
<1> QED
  BY <1>3, <1>6, <1>7, <1>9, <1>11 DEF OnceRound, NotMaking

LEMMA OnceStep == OnceInv /\ [Next]_worldVars => OnceInv'
<1> SUFFICES ASSUME OnceInv, [Next]_worldVars PROVE OnceRound'
  BY LockStep DEF OnceInv
<1>0. OnceRound
  BY DEF OnceInv
<1>1. CASE SeedRoom
  BY <1>1, OnceSeed
<1>2. CASE OpenService \/ Quit \/ OpenRoom \/ RoomsOpened \/ OpenFactoryPort \/ Respond
  BY <1>0, <1>2, OnceStutters DEF OpenService, Quit, OpenRoom, RoomsOpened, OpenFactoryPort,
     Respond, Look, Apply, factoryVars
<1>3. ASSUME NEW w \in Worker, NEW n \in Name, NEW pw \in Password, Claim(w, n, pw)
      PROVE  OnceRound'
  BY <1>3, OnceClaim
<1>4. ASSUME NEW w \in Worker, Serve(w) PROVE OnceRound'
  BY <1>4, OnceWrite, OnceProtect DEF Serve
<1>5. CASE UNCHANGED worldVars
  BY <1>0, <1>5, OnceStutters DEF worldVars
<1> QED
  BY <1>1, <1>2, <1>3, <1>4, <1>5 DEF Next, Ended, MainStep

LEMMA OnceHolds == Spec => []OnceInv
<1>1. Init => OnceInv
  BY LockInit DEF Init, OnceInv, OnceRound, NotMaking
<1> QED
  BY <1>1, OnceStep, PTL DEF Spec

(* Until the factory has gone once round its ports, a room it made lets in *)
(* whoever gives the password it was made with, and nobody else.           *)
THEOREM PasswordsKept == Spec => []PasswordKept
<1>1. OnceInv => PasswordKept
  <2> SUFFICES ASSUME OnceInv, coreLock = Nobody, nextPort <= NPorts,
                      NEW i \in 1..Len(rooms), rooms[i].port \in FactoryRange,
                      NEW pw \in Password
               PROVE  Accepts(rooms[i].port, pw) <=>
                        asked[rooms[i].port] \in {NoPassword, pw}
    BY DEF PasswordKept
  <2>1. \A w \in Worker : making[w] = NotMaking
    BY WorldAssumption DEF OnceInv, LockInv, LockHeld
  <2>2. /\ rooms[i].password = asked[rooms[i].port]
        /\ \A j \in 1..Len(rooms) : rooms[j].port = rooms[i].port => i = j
    BY <2>1 DEF OnceInv, OnceRound, UnderWay
  <2>3. OnPort(rooms, rooms[i].port) \in SUBSET Nat /\ i \in OnPort(rooms, rooms[i].port)
    BY DEF OnPort
  <2>4. Least(OnPort(rooms, rooms[i].port)) \in OnPort(rooms, rooms[i].port)
    BY <2>3, LeastIsMember
  <2>5. Least(OnPort(rooms, rooms[i].port)) = i
    BY <2>2, <2>4 DEF OnPort
  <2> QED
    BY <2>2, <2>3, <2>5 DEF Accepts
<1> QED
  BY <1>1, OnceHolds, PTL

-----------------------------------------------------------------------------
(* The books: one factory request at a time, its row nobody else's, every   *)
(* default room and every port opened so far where the main thread's loops  *)
(* have come (wonserver.cpp, wonserverd_main.cpp).                         *)
THEOREM BooksKept == Spec => []Bookkeeping
<1>1. NamesInv /\ OpenInv /\ OnceInv => Bookkeeping
  BY DEF NamesInv, OpenInv, OnceInv, LockInv, Bookkeeping
<1>2. Spec => []NamesInv
  BY NamesInit, NamesStep, PTL DEF Spec
<1> QED
  BY <1>1, <1>2, OpenHolds, OnceHolds, PTL
=============================================================================
