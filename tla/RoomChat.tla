------------------------------ MODULE RoomChat ------------------------------
(***************************************************************************)
(* The chat rooms end to end: the server of WonRoom together with what the *)
(* launcher does at the other end of each connection (JoinRoom,            *)
(* ServiceChat and the handlers it dispatches to in shell/netgame/         *)
(* NetGame.cpp).                                                           *)
(*                                                                         *)
(* A connection is one attempt of JoinRoom's retry loop: a launcher that   *)
(* tries again closes its socket and connects anew, so a retry is a Leave  *)
(* of one connection and a Connect of another.  The launcher's user list   *)
(* is a bag of member ids: AddUser puts a row in front without looking,    *)
(* OnUsersLeft takes one row with the id away.                             *)
(***************************************************************************)
EXTENDS WonRoom, Bags

VARIABLES
  phase,   \* how far JoinRoom has come on the connection
  self,    \* m_nChatSessionId
  rows,    \* m_pUserList
  author,  \* the sender id a chat line carries
  shown    \* the lines AddChatLine has put on the screen

viewVars == <<phase, self, rows, author, shown>>
chatVars == <<vars, viewVars>>

Phase == {"closed", "connected", "waiting", "refused", "inRoom", "gaveUp"}

ChatInit ==
  /\ Init
  /\ phase = [c \in Conn |-> "closed"]
  /\ self = [c \in Conn |-> 0]
  /\ rows = [c \in Conn |-> EmptyBag]
  /\ author = [n \in 1..MaxLines |-> 0]
  /\ shown = [c \in Conn |-> <<>>]

Forget(c) ==
  /\ self' = [self EXCEPT ![c] = 0]
  /\ rows' = [rows EXCEPT ![c] = EmptyBag]
  /\ shown' = [shown EXCEPT ![c] = <<>>]

(* connect() to the room's listener. *)
Connect(c, p) ==
  /\ Accept(c, p)
  /\ phase' = [phase EXCEPT ![c] = "connected"]
  /\ UNCHANGED <<self, rows, author, shown>>

(* The join request, and the same again with a password after -1103.       *)
AskToJoin(c, name) ==
  /\ phase[c] \in {"connected", "refused"}
  /\ SendRequest(c, [kind |-> "join", name |-> name])
  /\ phase' = [phase EXCEPT ![c] = "waiting"]
  /\ UNCHANGED <<self, rows, author, shown>>

(* SendChatText.  The line carries the sender's id and the broadcast flag. *)
Say(c) ==
  /\ phase[c] = "inRoom" /\ lines < MaxLines
  /\ SendRequest(c, [kind |-> "chat", line |-> lines + 1])
  /\ author' = [author EXCEPT ![lines + 1] = self[c]]
  /\ UNCHANGED <<phase, self, rows, shown>>

(* The launcher lets the connection go: it retries, changes rooms or quits. *)
Leave(c) ==
  /\ PeerClose(c)
  /\ phase' = [phase EXCEPT ![c] = "closed"]
  /\ Forget(c)
  /\ UNCHANGED author

(* JoinRoom runs out of attempts while it waits for the reply: the join is *)
(* reported as failed, the socket stays open and keeps being read.         *)
GiveUp(c) ==
  /\ phase[c] = "waiting" /\ peerUp[c]
  /\ phase' = [phase EXCEPT ![c] = "gaveUp"]
  /\ UNCHANGED <<vars, self, rows, author, shown>>

(* JoinRoom reads the first message after its request.  Result 0 puts the  *)
(* launcher in the room with itself as the only row.  A refusal may be     *)
(* followed by a second request on the same connection.  Any other message *)
(* fails the attempt.                                                      *)
ReadWhileJoining(c) ==
  /\ phase[c] = "waiting"
  /\ ClientRead(c)
  /\ LET k == Head(wire[c])
         joins == k.msg = JoinReply /\ k.ids \cap (Nat \ {0}) # {}
     IN /\ phase' = [phase EXCEPT ![c] =
                       IF joins THEN "inRoom"
                       ELSE IF k.msg = JoinReply /\ k.ids = {} THEN "refused"
                       ELSE "gaveUp"]
        /\ IF joins
           THEN /\ self' = [self EXCEPT ![c] = CHOOSE i \in k.ids : TRUE]
                /\ rows' = [rows EXCEPT ![c] = SetToBag(k.ids)]
           ELSE UNCHANGED <<self, rows>>
  /\ UNCHANGED <<author, shown>>

(* OnMemberList (with and without reset), OnUsersLeft and OnChatText.      *)
ListedUnannounced(c, f) ==                                         \* mutant
  CASE f.msg = UsersHere -> SetToBag({self[c]}) (+) SetToBag(f.ids)
    [] f.msg = UserLeft  -> rows[c] (-) SetToBag(f.ids)
    [] OTHER             -> rows[c]
Listed(c, f) ==
  CASE f.msg = UsersHere  -> SetToBag({self[c]}) (+) SetToBag(f.ids)
    [] f.msg = UserJoined -> rows[c] (+) SetToBag(f.ids)
    [] f.msg = UserLeft   -> rows[c] (-) SetToBag(f.ids)
    [] OTHER              -> rows[c]

LineOf(f) == CHOOSE n \in f.ids : TRUE
Displays(c, f) == f.msg = ChatText /\ BagIn(author[LineOf(f)], rows[c])

(* ServiceChat: a message is dispatched when its payload is complete. *)
ReadInRoom(c) ==
  /\ phase[c] = "inRoom"
  /\ ClientRead(c)
  /\ LET f == Head(wire[c])
     IN IF f.part = "payload"
        THEN /\ rows' = [rows EXCEPT ![c] = Listed(c, f)]
             /\ shown' = IF Displays(c, f)
                         THEN [shown EXCEPT ![c] = Append(@, LineOf(f))] ELSE shown
        ELSE UNCHANGED <<rows, shown>>
  /\ UNCHANGED <<phase, self, author>>

(* After a failed join the socket is drained; what the page then shows is  *)
(* left out.                                                               *)
ReadOtherwise(c) ==
  /\ phase[c] \notin {"waiting", "inRoom"}
  /\ ClientRead(c)
  /\ UNCHANGED viewVars

(* The server's threads; when one closes the socket the launcher's read    *)
(* fails and it lets the connection go.                                    *)
ServerStep(c) ==
  /\ Thread(c)
  /\ IF pc'[c] = "none" /\ pc[c] # "none"
     THEN phase' = [phase EXCEPT ![c] = "closed"] /\ Forget(c)
     ELSE UNCHANGED <<phase, self, rows, shown>>
  /\ UNCHANGED author

ChatNext ==
  \/ \E c \in Conn, p \in Port : Connect(c, p)
  \/ \E c \in Conn, name \in Name : AskToJoin(c, name)
  \/ \E c \in Conn :
       \/ Say(c)
       \/ Leave(c)
       \/ GiveUp(c)
       \/ ReadWhileJoining(c)
       \/ ReadInRoom(c)
       \/ ReadOtherwise(c)
       \/ ServerStep(c)
  \/ AllGone /\ UNCHANGED viewVars

Read(c) == ReadWhileJoining(c) \/ ReadInRoom(c) \/ ReadOtherwise(c)

ChatSpec == ChatInit /\ [][ChatNext]_chatVars

(* The threads run, and clients read what arrives; nothing makes a client  *)
(* send a request, connect or leave.                                       *)
FairChatSpec ==
  ChatSpec /\ \A c \in Conn : WF_chatVars(ServerStep(c)) /\ WF_chatVars(Read(c))

-----------------------------------------------------------------------------
(* Properties. *)

Quiet ==
  /\ roomLock = NoThread
  /\ \A c \in Conn : pc[c] \in {"none", "recv"} /\ wire[c] = <<>> /\ req[c] = NoReq

(* Once everything in flight has arrived, a launcher in a room has a row   *)
(* for itself and for everyone the server lists in the room.               *)
RowsShowRoom ==
  Quiet => \A c \in Conn :
    phase[c] = "inRoom" => Ids(Room(c)) \subseteq BagToSet(rows[c])

(* The launcher's own id is the one the server listed it under.            *)
OwnSeat ==
  \A c \in Conn : phase[c] = "inRoom" =>
    \E m \in Room(c) : m.sock = c /\ m.id = self[c]

(* Two launchers that both show two chat lines show them in one order.     *)
Before(c, a, b) ==
  \E i, j \in DOMAIN shown[c] : i < j /\ shown[c][i] = a /\ shown[c][j] = b
SameOrder ==
  \A c, d \in Conn : \A a, b \in 1..MaxLines :
    Before(c, a, b) => ~Before(d, b, a)

(* The launcher has no local echo: a line it sends comes back and is shown *)
(* while it stays in the room.                                             *)
OwnLineShown ==
  \A c \in Conn, n \in 1..MaxLines :
    (phase[c] = "inRoom" /\ n <= lines /\ author[n] = self[c])
      ~> (phase[c] # "inRoom" \/ \E i \in DOMAIN shown[c] : shown[c][i] = n)
=============================================================================
