---------------------------- MODULE RoomService ----------------------------
(***************************************************************************)
(* The threads and locks of WonRoom keep the promise of RoomBook.          *)
(*                                                                         *)
(* A seat is taken when Room_Join inserts the member.  The introductions   *)
(* of a joiner, and the farewells to a leaver, all take effect at the      *)
(* moment the push enters its critical section: a book holds what the      *)
(* frames sent so far say, and, while a push is under way, what the rest   *)
(* of that push is going to say.  A client sends one join request on a     *)
(* connection (Rejoin is FALSE), as the launcher does.                     *)
(***************************************************************************)
EXTENDS WonRoom

Introduced == {m \in UNION {members[p] : p \in Port} :
                 pc[m.sock] \notin {"answerJoin", "roster"}}

(* The connections the push of h has still to write to. *)
Awaiting(h) == {m.sock : m \in todo[h]}
Newcomer(h) == Newest(OnSocket(Room(h), h))

(* The push of h gives the joiner its roster first, then announces it.     *)
AfterRoster(h, c) ==
  IF c = h THEN frame[h].ids
  ELSE IF c \in Awaiting(h) THEN told[c] \cup {Newcomer(h).id}
  ELSE told[c]
AfterPush(h, c) == IF c \in Awaiting(h) THEN Heard(told[c], frame[h]) ELSE told[c]

Settled(c) ==
  IF ~peerUp[c] \/ roomLock = NoThread THEN told[c]
  ELSE IF pc[roomLock] = "pushRoster" THEN AfterRoster(roomLock, c)
  ELSE AfterPush(roomLock, c)

Book == INSTANCE RoomBook WITH
  Nick       <- Seq(Base \cup Nat),
  seats      <- members,
  introduced <- Introduced,
  book       <- [c \in Conn |-> Settled(c)],
  listening  <- {c \in Conn : peerUp[c]}

(* What the mapping rests on: a handle without a thread has no client; the *)
(* audience of a push is seated in the room, and that of a roster is       *)
(* everyone but the joiner; a joiner that found the room full has no seat. *)
NobodyThere == \A c \in Conn : pc[c] = "none" => ~peerUp[c]
AudienceSeated ==
  \A c \in Conn :
    /\ pc[c] \in {"pushRoster", "push", "leave"} => todo[c] \subseteq Room(c)
    /\ pc[c] = "pushRoster" => todo[c] = Others(c) /\ frame[c].msg = UsersHere
TurnedAway ==
  \A c \in Conn : pc[c] = "answerJoin" /\ fresh[c] = 0 => OnSocket(Room(c), c) = {}
Manners == NobodyThere /\ AudienceSeated /\ TurnedAway

(* Every behaviour of the threads is one of the abstract room: joins are   *)
(* atomic with the choice of id and nick, and nobody can tell the sends of *)
(* one push, or of a push and the joins and departures around it, from a   *)
(* single moment at which all books change.                                *)
KeepsBooks == Book!BookSpec

(* With the pushes under way counted, every member's book is right at all  *)
(* times, not only while nobody pushes.                                    *)
BooksRight == Book!BooksRight
=============================================================================
