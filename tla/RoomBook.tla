------------------------------ MODULE RoomBook -----------------------------
(***************************************************************************)
(* What a chat room promises its members, with no threads, locks, sockets  *)
(* or frames: a seat is taken, then introduced, then given up, each in one *)
(* step, and every introduced member's book lists who else is there.       *)
(***************************************************************************)
EXTENDS Naturals, TLAPS

CONSTANTS Conn, Port, Nick

VARIABLES
  seats,       \* the seats of each room: [sock, id, nick]
  introduced,  \* the seats whose holder and room have been told of each other
  book,        \* the ids each connection has been told are in its room
  listening    \* the connections somebody reads

bookVars == <<seats, introduced, book, listening>>

Seat == [sock: Conn, id: Nat \ {0}, nick: Nick]
AllSeats == UNION {seats[p] : p \in Port}
Others(p, s) == {t.id : t \in seats[p] \ {s}}
Holds(p, c) == \E t \in seats[p] : t.sock = c

BookInit ==
  /\ seats = [p \in Port |-> {}]
  /\ introduced = {}
  /\ book = [c \in Conn |-> {}]
  /\ listening = {}

(* A connection that has no seat takes one, under an id nobody has and a   *)
(* nick nobody in the room shows.                                          *)
Sit(p, s) ==
  /\ s \in Seat
  /\ \A t \in AllSeats : t.id # s.id /\ t.sock # s.sock
  /\ \A t \in seats[p] : t.nick # s.nick
  /\ seats' = [seats EXCEPT ![p] = @ \cup {s}]
  /\ UNCHANGED <<introduced, book, listening>>

(* The newcomer is given everyone else's id and everyone else is given its *)
(* id, at one moment.                                                      *)
Introduce(p, s) ==
  /\ s \notin introduced
  /\ introduced' = introduced \cup {s}
  /\ book' = [c \in Conn |->
       IF c \notin listening THEN book[c]
       ELSE IF c = s.sock THEN Others(p, s)
       ELSE IF Holds(p, c) THEN book[c] \cup {s.id}
       ELSE book[c]]
  /\ UNCHANGED <<seats, listening>>

(* A seat is given up, by a member who was introduced, and the rest of the *)
(* room hears of it at that moment.                                        *)
Depart(p, s) ==
  /\ s \in introduced
  /\ seats' = [seats EXCEPT ![p] = @ \ {s}]
  /\ introduced' = introduced \ {s}
  /\ book' = [c \in Conn |->
       IF c \in listening /\ c # s.sock /\ Holds(p, c)
       THEN book[c] \ {s.id} ELSE book[c]]
  /\ UNCHANGED listening

(* A client connects; a client goes away, and its book with it.            *)
Come(c) ==
  /\ c \notin listening /\ \A s \in AllSeats : s.sock # c
  /\ listening' = listening \cup {c}
  /\ UNCHANGED <<seats, introduced, book>>

Go(c) ==
  /\ listening' = listening \ {c}
  /\ book' = [book EXCEPT ![c] = {}]
  /\ UNCHANGED <<seats, introduced>>

BookNext ==
  \/ \E p \in Port :
       \/ \E s \in seats'[p] \ seats[p] : Sit(p, s)
       \/ \E s \in seats[p] : Introduce(p, s) \/ Depart(p, s)
  \/ \E c \in Conn : Come(c) \/ Go(c)

BookSpec == BookInit /\ [][BookNext]_bookVars

(* The book of an introduced member somebody reads holds the id of every   *)
(* other introduced member of its room, and of nobody who is not in it.    *)
Introductions(p, s) == {t.id : t \in (seats[p] \cap introduced) \ {s}}
BooksRight ==
  \A p \in Port : \A s \in seats[p] :
    s \in introduced /\ s.sock \in listening =>
      Introductions(p, s) \subseteq book[s.sock] /\ book[s.sock] \subseteq Others(p, s)

-----------------------------------------------------------------------------
(* Proofs: the books are right, for every value of the constants. *)

(* A seat has its id and its connection to itself, and only seats that are *)
(* taken are introduced.                                                   *)
BookTypes ==
  /\ seats \in [Port -> SUBSET Seat]
  /\ book \in [Conn -> SUBSET (Nat \ {0})]
SeatsDistinct ==
  \A p, q \in Port : \A s \in seats[p], t \in seats[q] :
    s.id = t.id \/ s.sock = t.sock => s = t /\ p = q
Acquainted == introduced \subseteq AllSeats

BookInv == BookTypes /\ SeatsDistinct /\ Acquainted /\ BooksRight

LEMMA SitStep ==
  ASSUME BookInv, NEW p \in Port, NEW s, Sit(p, s)
  PROVE  BookInv'
<1>0. /\ seats \in [Port -> SUBSET Seat]
      /\ s \in Seat
      /\ seats' = [seats EXCEPT ![p] = seats[p] \cup {s}]
      /\ introduced' = introduced /\ book' = book /\ listening' = listening
      /\ \A q \in Port : \A t \in seats[q] : t.id # s.id /\ t.sock # s.sock
  BY DEF BookInv, BookTypes, Sit, AllSeats
<1>1. \A q \in Port : \A t : t \in seats'[q] <=> t \in seats[q] \/ (q = p /\ t = s)
  BY <1>0
<1>2. BookTypes'
  BY <1>0 DEF BookInv, BookTypes
<1>3. SeatsDistinct'
  BY <1>0, <1>1 DEF BookInv, SeatsDistinct
<1>4. Acquainted'
  BY <1>0, <1>1 DEF BookInv, Acquainted, AllSeats
<1>5. s \notin introduced
  BY <1>0 DEF BookInv, Acquainted, AllSeats
<1>6. BooksRight'
  BY <1>0, <1>1, <1>5 DEF BookInv, BooksRight, Introductions, Others
<1> QED
  BY <1>2, <1>3, <1>4, <1>6 DEF BookInv

LEMMA IntroduceStep ==
  ASSUME BookInv, NEW p \in Port, NEW s \in seats[p], Introduce(p, s)
  PROVE  BookInv'
<1>0. /\ seats \in [Port -> SUBSET Seat] /\ book \in [Conn -> SUBSET (Nat \ {0})]
      /\ seats' = seats /\ listening' = listening
      /\ introduced' = introduced \cup {s}
      /\ book' = [c \in Conn |->
                    IF c \notin listening THEN book[c]
                    ELSE IF c = s.sock THEN Others(p, s)
                    ELSE IF Holds(p, c) THEN book[c] \cup {s.id}
                    ELSE book[c]]
  BY DEF BookInv, BookTypes, Introduce
<1>1. \A q \in Port : \A t \in seats[q] :
        t.sock \in Conn /\ t.id \in Nat \ {0}
  BY <1>0 DEF Seat
<1>2. BookTypes'
  BY <1>0, <1>1 DEF BookInv, BookTypes, Others
<1>3. SeatsDistinct' /\ Acquainted'
  BY <1>0 DEF BookInv, SeatsDistinct, Acquainted, AllSeats
<1>4. BooksRight'
  <2> SUFFICES ASSUME NEW q \in Port, NEW t \in seats[q],
                      t \in introduced', t.sock \in listening
               PROVE  /\ {u.id : u \in (seats[q] \cap introduced') \ {t}} \subseteq book'[t.sock]
                      /\ book'[t.sock] \subseteq Others(q, t)
    BY <1>0 DEF BooksRight, Introductions, Others
  <2>1. CASE t = s
    <3>1. q = p /\ book'[t.sock] = Others(q, t)
      BY <1>0, <1>1, <2>1 DEF BookInv, SeatsDistinct
    <3> QED
      BY <3>1 DEF Others
  <2>2. CASE t # s
    <3>1. t.sock # s.sock /\ t \in introduced
      BY <1>0, <2>2 DEF BookInv, SeatsDistinct
    <3>2. /\ {u.id : u \in (seats[q] \cap introduced) \ {t}} \subseteq book[t.sock]
          /\ book[t.sock] \subseteq Others(q, t)
      BY <3>1 DEF BookInv, BooksRight, Introductions
    <3>3. CASE q = p
      <4>1. book'[t.sock] = book[t.sock] \cup {s.id}
        BY <1>0, <1>1, <3>1, <3>3 DEF Holds
      <4>2. s.id \in Others(q, t)
        BY <2>2, <3>3 DEF Others
      <4> QED
        BY <1>0, <3>2, <4>1, <4>2
    <3>4. CASE q # p
      <4>1. ~Holds(p, t.sock) /\ s \notin seats[q]
        BY <3>4 DEF Holds, BookInv, SeatsDistinct
      <4>2. book'[t.sock] = book[t.sock]
        BY <1>0, <1>1, <3>1, <4>1
      <4> QED
        BY <1>0, <3>2, <4>1, <4>2
    <3> QED
      BY <3>3, <3>4
  <2> QED
    BY <2>1, <2>2
<1> QED
  BY <1>2, <1>3, <1>4 DEF BookInv

LEMMA DepartStep ==
  ASSUME BookInv, NEW p \in Port, NEW s \in seats[p], Depart(p, s)
  PROVE  BookInv'
<1>0. /\ seats \in [Port -> SUBSET Seat] /\ book \in [Conn -> SUBSET (Nat \ {0})]
      /\ seats' = [seats EXCEPT ![p] = seats[p] \ {s}]
      /\ listening' = listening
      /\ introduced' = introduced \ {s}
      /\ book' = [c \in Conn |->
                    IF c \in listening /\ c # s.sock /\ Holds(p, c)
                    THEN book[c] \ {s.id} ELSE book[c]]
  BY DEF BookInv, BookTypes, Depart
<1>1. \A q \in Port : \A t \in seats[q] :
        t.sock \in Conn /\ t.id \in Nat \ {0}
  BY <1>0 DEF Seat
<1>2. \A q \in Port : \A t : t \in seats'[q] <=> t \in seats[q] /\ t # s
  BY <1>0 DEF BookInv, SeatsDistinct
<1>3. BookTypes'
  BY <1>0 DEF BookInv, BookTypes
<1>4. SeatsDistinct' /\ Acquainted'
  BY <1>0, <1>2 DEF BookInv, SeatsDistinct, Acquainted, AllSeats
<1>5. BooksRight'
  <2> SUFFICES ASSUME NEW q \in Port, NEW t \in seats'[q],
                      t \in introduced', t.sock \in listening
               PROVE  /\ {u.id : u \in (seats'[q] \cap introduced') \ {t}} \subseteq book'[t.sock]
                      /\ book'[t.sock] \subseteq {u.id : u \in seats'[q] \ {t}}
    BY <1>0 DEF BooksRight, Introductions, Others
  <2>1. t \in seats[q] /\ t # s /\ t \in introduced /\ t.sock # s.sock
    BY <1>0, <1>2 DEF BookInv, SeatsDistinct
  <2>2. /\ {u.id : u \in (seats[q] \cap introduced) \ {t}} \subseteq book[t.sock]
        /\ book[t.sock] \subseteq {u.id : u \in seats[q] \ {t}}
    BY <2>1 DEF BookInv, BooksRight, Introductions, Others
  <2>3. CASE q = p
    <3>1. book'[t.sock] = book[t.sock] \ {s.id}
      BY <1>0, <1>1, <2>1, <2>3 DEF Holds
    <3>2. \A u \in seats[q] : u # s => u.id # s.id
      BY <2>3 DEF BookInv, SeatsDistinct
    <3> QED
      BY <1>0, <1>2, <2>2, <3>1, <3>2
  <2>4. CASE q # p
    <3>1. ~Holds(p, t.sock) /\ s \notin seats[q]
      BY <2>1, <2>4 DEF Holds, BookInv, SeatsDistinct
    <3>2. book'[t.sock] = book[t.sock]
      BY <1>0, <1>1, <2>1, <3>1
    <3> QED
      BY <1>0, <1>2, <2>2, <3>1, <3>2
  <2> QED
    BY <2>3, <2>4
<1> QED
  BY <1>3, <1>4, <1>5 DEF BookInv

LEMMA ListenerStep ==
  ASSUME BookInv, NEW c \in Conn, Come(c) \/ Go(c)
  PROVE  BookInv'
<1>0. /\ book \in [Conn -> SUBSET (Nat \ {0})] /\ seats' = seats /\ introduced' = introduced
      /\ \/ book' = book /\ listening' = listening \cup {c}
            /\ \A q \in Port : \A t \in seats[q] : t.sock # c
         \/ book' = [book EXCEPT ![c] = {}] /\ listening' = listening \ {c}
  BY DEF BookInv, BookTypes, Come, Go, AllSeats
<1>1. BookTypes'
  BY <1>0 DEF BookInv, BookTypes
<1>2. SeatsDistinct' /\ Acquainted'
  BY <1>0 DEF BookInv, SeatsDistinct, Acquainted, AllSeats
<1>3. BooksRight'
  <2> SUFFICES ASSUME NEW p \in Port, NEW s \in seats[p], s \in introduced,
                      s.sock \in listening'
               PROVE  /\ Introductions(p, s) \subseteq book'[s.sock]
                      /\ book'[s.sock] \subseteq Others(p, s)
    BY <1>0 DEF BooksRight, Introductions, Others
  <2>0. s.sock \in Conn
    BY DEF BookInv, BookTypes, Seat
  <2>1. s.sock \in listening /\ book'[s.sock] = book[s.sock]
    BY <1>0, <2>0
  <2> QED
    BY <2>1 DEF BookInv, BooksRight
<1> QED
  BY <1>1, <1>2, <1>3 DEF BookInv

(* An introduced member somebody reads knows every other introduced member *)
(* of its room, and nobody else.                                           *)
THEOREM BooksStayRight == BookSpec => []BooksRight
<1>1. BookInit => BookInv
  BY DEF BookInit, BookInv, BookTypes, SeatsDistinct, Acquainted, BooksRight, AllSeats
<1>2. BookInv /\ [BookNext]_bookVars => BookInv'
  <2>1. BookInv /\ BookNext => BookInv'
    BY SitStep, IntroduceStep, DepartStep, ListenerStep DEF BookNext
  <2>2. BookInv /\ UNCHANGED bookVars => BookInv'
    BY DEF bookVars, BookInv, BookTypes, SeatsDistinct, Acquainted, BooksRight, AllSeats,
       Introductions, Others
  <2> QED
    BY <2>1, <2>2
<1>3. BookInv => BooksRight
  BY DEF BookInv
<1> QED
  BY <1>1, <1>2, <1>3, PTL DEF BookSpec
=============================================================================
