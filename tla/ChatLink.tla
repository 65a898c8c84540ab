------------------------------ MODULE ChatLink ------------------------------
(***************************************************************************)
(* The chat client's connection to a room: how EasyTitanSocket cuts the    *)
(* byte stream into messages (hlwon/cryptapi), and how the sheet joins a   *)
(* room, notices that the connection is gone and joins again               *)
(* (shell/netgame/NetGame.cpp).                                            *)
(*                                                                         *)
(* A message is Message units of bytes, the first Header of them its        *)
(* header.  The client keeps one EasyTitanSocket for the whole session: a   *)
(* new connection has a new descriptor, but mMessageBuf and mBufferedSize   *)
(* are the old ones.                                                       *)
(***************************************************************************)
EXTENDS Integers, Sequences

CONSTANTS
  Header,      \* units of a message's header
  Message,     \* units of a message
  MaxUnread,   \* bound: messages of the server on their way
  MaxRetries   \* bound: reconnects counted

ASSUME LinkAssumption ==
  /\ Header \in Nat \ {0} /\ Message \in Nat /\ Header < Message
  /\ MaxUnread \in Nat /\ MaxRetries \in Nat

Replies == {"peer", "joined", "password", "refused", "push"}

VARIABLES
  up,            \* the connection is open at both ends
  stream,        \* messages sent on this connection and not read to their end
  offset,        \* units of the first of them already read
  due,           \* the request the server has yet to answer
  member,        \* the server has admitted the client on this connection
  buffered,      \* mBufferedSize
  stale,         \* history: the buffer began with bytes of an earlier connection
  bad,           \* the header in the buffer is one recvTMessage rejects
  blocked,       \* the body is read with an underflowed budget
  phase,         \* where the message loop is: idle, or where in JoinRoom
  attempts,      \* nAttempts
  gotData,       \* m_bTitanGotData
  needReconnect, \* m_bNeedReconnect
  tries,         \* m_nReconnectTries
  room,          \* m_pCurrentRoom: none, entered by the user, or joined
  noAuth,        \* history: the last reconnect stopped for want of a certificate
  retries        \* history: reconnects since a join last succeeded

conn   == <<up, stream, offset, due, member, stale>>
socket == <<buffered, bad, blocked>>
flags  == <<gotData, needReconnect, tries>>
history == <<noAuth, retries>>
sheet  == <<phase, attempts, room, history>>
vars   == <<conn, socket, flags, sheet>>

Init ==
  /\ up = FALSE /\ stream = <<>> /\ offset = 0 /\ due = "none" /\ member = FALSE
  /\ buffered = 0 /\ stale = FALSE /\ bad = FALSE /\ blocked = FALSE
  /\ phase = "idle" /\ attempts = 2
  /\ gotData = FALSE /\ needReconnect = FALSE /\ tries = 3
  /\ room = "none" /\ noAuth = FALSE /\ retries = 0

-----------------------------------------------------------------------------
(* The server's end, and the network.                                      *)

Sends(m) == Len(stream) < MaxUnread /\ stream' = Append(stream, m)

Answer ==
  /\ up /\ due # "none"
  /\ \E m \in IF due = "login" THEN {"peer"} ELSE {"joined", "password", "refused"} :
       /\ Sends(m)
       /\ member' = (member \/ m = "joined")
  /\ due' = "none"
  /\ UNCHANGED <<up, offset, stale, socket, flags, sheet>>

Push ==
  /\ up /\ member /\ Sends("push")
  /\ UNCHANGED <<up, offset, due, member, stale, socket, flags, sheet>>

(* The connection ends; a reset also drops what was not read yet.          *)
Break ==
  /\ up /\ up' = FALSE /\ due' = "none"
  /\ stream' \in {stream, <<>>}
  /\ UNCHANGED <<offset, member, stale, socket, flags, sheet>>

-----------------------------------------------------------------------------
(* EasyTitanSocket::recvTMessage: what one call may do, by its result.     *)

Pending == IF stream = <<>> THEN 0 ELSE Len(stream) * Message - offset
HeaderLeft == IF buffered < Header THEN Header - buffered ELSE 0
FrameLeft == Message - buffered

(* recv moves n units, at most a message, from the connection.             *)
Take(n) ==
  /\ n <= Pending
  /\ IF offset + n < Message
     THEN stream' = stream /\ offset' = offset + n
     ELSE stream' = Tail(stream) /\ offset' = (offset + n) - Message

TakeUncounted(n) == Take(n) /\ buffered' = buffered                \* mutant
TakeCounted(n) == Take(n) /\ buffered' = buffered + n

(* ES_TIMED_OUT: nothing came, or a part of the message did.  Once the      *)
(* connection has ended everything it carried is here.                     *)
TimesOut ==
  /\ ~bad /\ (~up \/ ~blocked)
  /\ \E n \in 0..(FrameLeft - 1) :
       /\ up \/ (n = Pending /\ n \notin {0, HeaderLeft})
       /\ TakeCounted(n)
  /\ blocked' = FALSE
  /\ UNCHANGED <<bad, stale>>

(* ES_SHUTDOWN before the header or before the body; or a header whose      *)
(* length is out of range, which stays in the buffer.                      *)
Fails ==
  \/ /\ bad
     /\ UNCHANGED <<stream, offset, stale, socket>>
  \/ /\ ~bad /\ ~up /\ Pending \in {0, HeaderLeft}
     /\ TakeCounted(Pending)
     /\ blocked' = FALSE
     /\ UNCHANGED <<bad, stale>>
  \/ /\ ~bad /\ stale /\ HeaderLeft > 0
     /\ TakeCounted(HeaderLeft)
     /\ bad' = TRUE
     /\ UNCHANGED <<blocked, stale>>

(* A complete message, of the kind its header says when the bytes are in    *)
(* step with the stream.                                                   *)
Frame == IF stale THEN "garbage" ELSE Head(stream)
CompletesInPlace ==                                                \* mutant
  /\ ~bad /\ TakeCounted(FrameLeft) /\ blocked' = FALSE
  /\ stale' = (offset' # 0) /\ UNCHANGED bad
Completes ==
  /\ ~bad /\ Take(FrameLeft)
  /\ buffered' = 0 /\ blocked' = FALSE
  /\ stale' = (offset' # 0)
  /\ UNCHANGED bad

(* The header came as the budget ran out: remaining - elapsed underflows    *)
(* and the call now waits for the body.                                    *)
Underflows ==
  /\ phase \in {"idle", "login", "reply"}
  /\ ~bad /\ up /\ HeaderLeft > 0
  /\ TakeCounted(HeaderLeft)
  /\ blocked' = TRUE
  /\ UNCHANGED <<up, due, member, stale, bad, flags, sheet>>

-----------------------------------------------------------------------------
(* CNetGameDlg::ReceiveTitanMsg: a hard error arms the reconnect, once data *)
(* has flowed.                                                             *)

NothingYet == TimesOut /\ UNCHANGED flags
HardError ==
  /\ Fails
  /\ needReconnect' = (needReconnect \/ gotData)
  /\ tries' = IF gotData THEN 3 ELSE tries
  /\ UNCHANGED gotData
GotMessage ==
  /\ Completes
  /\ gotData' = TRUE
  /\ UNCHANGED <<needReconnect, tries>>

-----------------------------------------------------------------------------
(* CNetGameDlg::JoinRoom                                                   *)

Begin == phase' = "connect" /\ attempts' = 2

GiveUpInRoom == phase' = "idle" /\ UNCHANGED <<attempts, room>>        \* mutant
GiveUp == phase' = "idle" /\ room' = "none" /\ UNCHANGED attempts

(* retry: if ( --nAttempts < 0 ) break                                      *)
RetryUncounted ==                                                  \* mutant
  phase' = "connect" /\ UNCHANGED <<attempts, room>>
Retry ==
  IF attempts = 0 THEN GiveUp
                  ELSE phase' = "connect" /\ attempts' = attempts - 1 /\ UNCHANGED room

(* A new descriptor, under the same message buffer.                        *)
KeepUnread ==                                                      \* mutant
  UNCHANGED stream /\ offset' = 0 /\ member' = FALSE /\ stale' = (buffered > 0)
Disconnect ==
  stream' = <<>> /\ offset' = 0 /\ member' = FALSE /\ stale' = (buffered > 0)

(* The name does not resolve, the connect fails, the certificate cannot be  *)
(* renewed, or the handshake's request goes out.                           *)
Connect ==
  /\ phase = "connect"
  /\ \/ UNCHANGED <<up, stream, offset, due, member, stale>> /\ Retry
     \/ Disconnect /\ up' \in BOOLEAN /\ due' = "none" /\ Retry
     \/ /\ Disconnect /\ up' = TRUE /\ due' = "login"
        /\ phase' = "login" /\ UNCHANGED <<attempts, room>>
  /\ UNCHANGED <<socket, flags, history>>

SendJoin == due' = IF up THEN "join" ELSE "none"

(* AuthRequest::peerLogin, a request and its reply.                        *)
Login ==
  /\ phase = "login"
  /\ \/ (TimesOut \/ Fails) /\ Retry /\ UNCHANGED due
     \/ Completes /\ Frame # "peer" /\ Retry /\ UNCHANGED due
     \/ /\ Completes /\ Frame = "peer"
        /\ SendJoin /\ phase' = "reply" /\ UNCHANGED <<attempts, room>>
  /\ UNCHANGED <<up, member, flags, history>>

Joined ==
  /\ gotData' = TRUE /\ needReconnect' = FALSE /\ tries' = 3
  /\ phase' = "idle" /\ room' = "joined" /\ UNCHANGED attempts
  /\ noAuth' = FALSE /\ retries' = 0

Reply ==
  /\ phase = "reply"
  /\ \/ (NothingYet \/ HardError) /\ Retry /\ UNCHANGED history
     \/ Completes /\ Frame = "joined" /\ Joined
     \/ /\ GotMessage /\ Frame = "password"
        /\ phase' = "prompt" /\ UNCHANGED <<attempts, room, history>>
     \/ GotMessage /\ Frame \notin {"joined", "password"} /\ Retry /\ UNCHANGED history
  /\ UNCHANGED <<up, due, member>>

Prompt ==
  /\ phase = "prompt"
  /\ \/ SendJoin /\ phase' = "reply" /\ UNCHANGED <<attempts, room>>
     \/ GiveUp /\ UNCHANGED due
  /\ UNCHANGED <<up, stream, offset, member, stale, socket, flags, history>>

-----------------------------------------------------------------------------
(* The message loop.                                                       *)

(* RequestRoomList, JoinRoomByName, EnterRoom, a room just created; a join  *)
(* that finds no certificate changes nothing else.                         *)
UserJoins ==
  /\ phase = "idle" /\ ~blocked
  /\ \/ Begin /\ room' \in {room, "entered", "none"}
     \/ room' \in {room, "entered", "none"} /\ UNCHANGED <<phase, attempts>>
  /\ UNCHANGED <<conn, socket, flags, history>>

(* CRoomDialog::OnInitDialog fetches the list and clears the current room.  *)
OpenRoomDialog ==
  /\ phase = "idle" /\ ~blocked
  /\ room' = "none"
  /\ UNCHANGED <<conn, socket, flags, phase, attempts, history>>

(* ServiceChat.                                                            *)
Disarm == needReconnect' = FALSE /\ gotData' = FALSE

Reconnect ==
  /\ phase = "idle" /\ needReconnect /\ ~blocked
  /\ Disarm
  /\ IF tries >= 0
     THEN /\ tries' = tries - 1
          /\ retries' = IF retries < MaxRetries THEN retries + 1 ELSE retries
          /\ \/ Begin /\ noAuth' = FALSE
             \/ noAuth' = TRUE /\ UNCHANGED <<phase, attempts>>
     ELSE UNCHANGED <<tries, retries, phase, attempts, noAuth>>
  /\ UNCHANGED <<conn, socket, room>>

Receive ==
  /\ phase = "idle" /\ (~needReconnect \/ blocked)
  /\ NothingYet \/ HardError \/ GotMessage
  /\ UNCHANGED <<up, due, member, sheet>>

-----------------------------------------------------------------------------
Client == Connect \/ Login \/ Reply \/ Reconnect \/ Receive
Next == Client \/ Answer \/ Push \/ Break \/ Underflows \/ Prompt \/ UserJoins \/ OpenRoomDialog

Spec == Init /\ [][Next]_vars

(* The message loop pumps again and again, and every call JoinRoom makes    *)
(* has a time limit; the prompt waits for the user, the rest for the        *)
(* server and the network.                                                 *)
FairSpec ==
  /\ Spec
  /\ WF_vars(Connect) /\ WF_vars(Login) /\ WF_vars(Reply)
  /\ WF_vars(Reconnect) /\ WF_vars(Receive)

-----------------------------------------------------------------------------
Connection ==
  /\ up \in BOOLEAN /\ member \in BOOLEAN /\ stale \in BOOLEAN
  /\ stream \in Seq(Replies) /\ offset \in 0..(Message - 1)
  /\ due \in {"none", "login", "join"}

(* Every variable has its type; the buffer never holds a whole message      *)
(* between two calls of recvTMessage.                                      *)
TypeOK ==
  /\ Connection
  /\ buffered \in 0..(Message - 1) /\ bad \in BOOLEAN /\ blocked \in BOOLEAN
  /\ phase \in {"idle", "connect", "login", "reply", "prompt"} /\ attempts \in 0..2
  /\ gotData \in BOOLEAN /\ needReconnect \in BOOLEAN /\ tries \in -1..3
  /\ room \in {"none", "entered", "joined"} /\ noAuth \in BOOLEAN
  /\ retries \in 0..MaxRetries

(* The message buffer is in step with the stream, through every timeout in  *)
(* the middle of a header or a body, as long as no connection was replaced  *)
(* with part of a message in the buffer (recvTMessage, mBufferedSize).     *)
Framed == ~stale => buffered = offset /\ ~bad

(* A room shown as joined is one the loss of would be noticed: data has     *)
(* flowed, so an error arms the reconnect.  The exception is a reconnect    *)
(* that found no certificate (JoinRoom's early return).                    *)
RoomWatched == phase = "idle" /\ room = "joined" => gotData \/ noAuth

(* A room shown as joined is one the server admitted the client to on the   *)
(* connection it has now, whatever late answers earlier attempts left.     *)
JoinedHere == phase = "idle" /\ room = "joined" => member

(* When a joined room's connection ends, the sheet reconnects or stops      *)
(* showing the room (ServiceChat), unless the certificate is gone.         *)
LossHandled ==
  (phase = "idle" /\ room = "joined" /\ ~up) ~> (up \/ room # "joined" \/ noAuth)

(* JoinRoom comes back, or waits for the user's password, or for a body     *)
(* that recvTMessage was told to wait 49 days for.                         *)
JoinEnds == phase # "idle" ~> (phase \in {"idle", "prompt"} \/ blocked)

(* "Walk the retry budget down": with no join in between, no more           *)
(* reconnects than the budget of 3 allows (ServiceChat).                   *)
BudgetRunsOut == retries <= 4
=============================================================================
