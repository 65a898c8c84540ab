-------------------------- MODULE ChatLink_proofs ---------------------------
(* Proofs about ChatLink, for every value of its constants. *)
EXTENDS ChatLink, TLAPS

-----------------------------------------------------------------------------
(* The inductive invariant: Wire about the connection and the buffer, Flow  *)
(* about the sheet, and what ties the two.                                 *)

Admitted == \A i \in 1..Len(stream) : stream[i] = "joined" => member
Wire ==
  /\ stream \in Seq(Replies) /\ offset \in 0..(Message - 1) /\ stale \in BOOLEAN
  /\ buffered \in 0..(Message - 1) /\ bad \in BOOLEAN /\ blocked \in BOOLEAN
  /\ Framed
  /\ bad => buffered >= Header
  /\ Admitted
Ends == up \in BOOLEAN /\ member \in BOOLEAN /\ due \in {"none", "login", "join"}
FlagsOK ==
  /\ gotData \in BOOLEAN /\ needReconnect \in BOOLEAN /\ tries \in 2..3
  /\ needReconnect => tries = 3
SheetOK ==
  /\ phase \in {"idle", "connect", "login", "reply", "prompt"} /\ attempts \in 0..2
  /\ room \in {"none", "entered", "joined"} /\ noAuth \in BOOLEAN
  /\ retries \in 0..MaxRetries
IInv == Wire /\ Ends /\ FlagsOK /\ SheetOK /\ RoomWatched /\ JoinedHere

LEMMA Parameters ==
  /\ Header \in Nat /\ Message \in Nat /\ 0 < Header /\ Header < Message
  /\ MaxUnread \in Nat /\ MaxRetries \in Nat
BY LinkAssumption

LEMMA InitIInv == Init => IInv
<1> SUFFICES ASSUME Init PROVE IInv
  OBVIOUS
<1>1. Wire
  <2>1. stream = <<>> /\ stream \in Seq(Replies) /\ Len(stream) = 0
    BY DEF Init
  <2>2. offset = 0 /\ buffered = 0 /\ 0 \in 0..(Message - 1)
    BY Parameters DEF Init
  <2>3. ~stale /\ ~bad /\ stale \in BOOLEAN /\ bad \in BOOLEAN /\ blocked \in BOOLEAN
    BY DEF Init
  <2>4. Framed
    BY <2>2, <2>3 DEF Framed
  <2>5. Admitted
    BY <2>1 DEF Admitted
  <2>. QED  BY <2>1, <2>2, <2>3, <2>4, <2>5 DEF Wire
<1>2. Ends /\ FlagsOK
  <2>1. /\ up \in BOOLEAN /\ member \in BOOLEAN /\ due = "none"
        /\ gotData \in BOOLEAN /\ needReconnect \in BOOLEAN /\ ~needReconnect
    BY DEF Init
  <2>2. tries \in 2..3
    BY DEF Init
  <2>. QED  BY <2>1, <2>2, Zenon DEF Ends, FlagsOK
<1>3. SheetOK
  <2>1. phase = "idle" /\ room = "none" /\ noAuth \in BOOLEAN
    BY DEF Init
  <2>2. attempts \in 0..2 /\ retries \in 0..MaxRetries
    BY Parameters DEF Init
  <2>. QED  BY <2>1, <2>2, Zenon DEF SheetOK
<1>4. RoomWatched /\ JoinedHere
  BY DEF Init, RoomWatched, JoinedHere
<1>. QED  BY <1>1, <1>2, <1>3, <1>4 DEF IInv

-----------------------------------------------------------------------------
(* The connection. *)

LEMMA TailOK ==
  ASSUME NEW S, NEW s \in Seq(S), s # <<>>
  PROVE  /\ Tail(s) \in Seq(S) /\ Len(Tail(s)) = Len(s) - 1 /\ Len(s) \in Nat
         /\ \A i \in 1..Len(Tail(s)) : Tail(s)[i] = s[i + 1] /\ i + 1 \in 1..Len(s)
OBVIOUS

LEMMA PendingNat ==
  ASSUME stream = <<>>
  PROVE  Pending = 0
BY DEF Pending

(* Reading at most what the current message has left ends inside it or at  *)
(* its end, and only a reading in step with the stream can end one.        *)
LEMMA Taken ==
  ASSUME Wire, NEW n \in 0..Message, Take(n)
  PROVE  /\ stream' \in Seq(Replies) /\ offset' \in 0..(Message - 1)
         /\ offset + n < Message => offset' = offset + n
         /\ offset + n = Message => offset' = 0
         /\ member' = member => Admitted'
<1>1. offset \in Nat /\ offset < Message /\ n \in Nat /\ n <= Message /\ Message \in Nat
  BY Parameters DEF Wire
<1>2. CASE offset + n < Message
  BY <1>1, <1>2 DEF Take, Wire, Admitted
<1>3. CASE ~(offset + n < Message)
  <2>1. stream # <<>>
    <3>1. ASSUME stream = <<>> PROVE FALSE
      BY <1>1, <1>3, <3>1, PendingNat DEF Take
    <3>. QED  BY <3>1
  <2>2. stream' = Tail(stream) /\ offset' = (offset + n) - Message
    BY <1>3 DEF Take
  <2>3. stream \in Seq(Replies)
    BY DEF Wire
  <2>4. stream' \in Seq(Replies)
    BY <2>1, <2>2, <2>3, TailOK
  <2>5. offset' \in 0..(Message - 1) /\ (offset + n = Message => offset' = 0)
    BY <1>1, <1>3, <2>2
  <2>6. ASSUME member' = member PROVE Admitted'
    BY <2>1, <2>2, <2>3, <2>6, TailOK DEF Wire, Admitted
  <2>. QED  BY <1>3, <2>4, <2>5, <2>6
<1>. QED  BY <1>2, <1>3

LEMMA Left ==
  ASSUME Wire
  PROVE  /\ FrameLeft \in 1..Message /\ HeaderLeft \in 0..Header
         /\ HeaderLeft < FrameLeft
         /\ HeaderLeft > 0 => buffered + HeaderLeft = Header /\ ~bad
         /\ HeaderLeft = 0 => buffered >= Header
         /\ buffered + FrameLeft = Message
BY Parameters DEF Wire, FrameLeft, HeaderLeft

(* Part of a message, counted, keeps the buffer in step. *)
LEMMA PartKeepsWire ==
  ASSUME Wire, NEW n \in 0..(FrameLeft - 1), TakeCounted(n), member' = member,
         bad' = bad, blocked' \in BOOLEAN, stale' = stale
  PROVE  Wire'
<1>1. n \in 0..Message /\ n + buffered < Message /\ n \in Nat /\ buffered \in Nat
  BY Left, Parameters DEF Wire, FrameLeft
<1>2. Take(n) /\ buffered' = buffered + n
  BY DEF TakeCounted
<1>3. /\ stream' \in Seq(Replies) /\ offset' \in 0..(Message - 1)
      /\ offset + n < Message => offset' = offset + n
      /\ Admitted'
  BY <1>1, <1>2, Taken
<1>4. buffered' \in 0..(Message - 1)
  BY <1>1, <1>2, Parameters
<1>5. Framed'
  BY <1>1, <1>2, <1>3 DEF Wire, Framed
<1>6. bad' => buffered' >= Header
  BY <1>1, <1>2, Parameters DEF Wire
<1>. QED  BY <1>3, <1>4, <1>5, <1>6 DEF Wire

LEMMA TimesOutKeepsWire ==
  ASSUME Wire, TimesOut, member' = member
  PROVE  Wire'
<1>1. PICK n \in 0..(FrameLeft - 1) : TakeCounted(n)
  BY DEF TimesOut
<1>. QED  BY <1>1, PartKeepsWire DEF TimesOut

LEMMA HeaderKeepsWire ==
  ASSUME Wire, HeaderLeft > 0, TakeCounted(HeaderLeft), member' = member,
         bad' \in BOOLEAN, bad' => stale, blocked' \in BOOLEAN, stale' = stale
  PROVE  Wire'
<1>1. HeaderLeft \in 0..Message /\ buffered + HeaderLeft = Header /\ HeaderLeft \in Nat
  BY Left, Parameters
<1>2. Take(HeaderLeft) /\ buffered' = Header
  BY <1>1 DEF TakeCounted
<1>3. /\ stream' \in Seq(Replies) /\ offset' \in 0..(Message - 1)
      /\ offset + HeaderLeft < Message => offset' = offset + HeaderLeft
      /\ Admitted'
  BY <1>1, <1>2, Taken
<1>4. Framed'
  BY <1>1, <1>2, <1>3, Parameters DEF Wire, Framed
<1>. QED  BY <1>2, <1>3, <1>4, Parameters DEF Wire

LEMMA FailsKeepsWire ==
  ASSUME Wire, Fails, member' = member
  PROVE  Wire'
<1>1. CASE bad /\ UNCHANGED <<stream, offset, stale, socket>>
  BY <1>1 DEF Wire, Framed, Admitted, socket
<1>2. CASE ~up /\ Pending \in {0, HeaderLeft} /\ TakeCounted(Pending)
            /\ blocked' = FALSE /\ UNCHANGED <<bad, stale>>
  <2>1. Pending \in 0..(FrameLeft - 1)
    BY <1>2, Left, Parameters
  <2>. QED  BY <1>2, <2>1, PartKeepsWire
<1>3. CASE stale /\ HeaderLeft > 0 /\ TakeCounted(HeaderLeft) /\ bad' = TRUE
            /\ UNCHANGED <<blocked, stale>>
  <2>1. blocked' \in BOOLEAN
    BY <1>3 DEF Wire
  <2>. QED  BY <1>3, <2>1, HeaderKeepsWire
<1>. QED  BY <1>1, <1>2, <1>3 DEF Fails

LEMMA CompletesKeepsWire ==
  ASSUME Wire, Completes, member' = member
  PROVE  Wire' /\ (Frame = "joined" => member)
<1>1. FrameLeft \in 0..Message /\ Take(FrameLeft) /\ FrameLeft > 0
  BY Left, Parameters DEF Completes
<1>2. /\ stream' \in Seq(Replies) /\ offset' \in 0..(Message - 1) /\ Admitted'
  BY <1>1, Taken
<1>3. Framed'
  BY <1>2, Parameters DEF Completes, Framed, Wire
<1>4. Wire'
  <2>1. ~bad' /\ bad' \in BOOLEAN /\ blocked' \in BOOLEAN /\ stale' \in BOOLEAN
    BY DEF Completes, Wire
  <2>2. buffered' \in 0..(Message - 1)
    BY Parameters DEF Completes
  <2>. QED  BY <1>2, <1>3, <2>1, <2>2 DEF Wire
<1>5. ASSUME Frame = "joined" PROVE member
  <2>1. ~stale /\ Head(stream) = "joined"
    BY <1>5 DEF Frame, Wire
  <2>2. stream # <<>>
    <3>1. ASSUME stream = <<>> PROVE FALSE
      BY <1>1, <3>1, PendingNat, Parameters DEF Take
    <3>. QED  BY <3>1
  <2>3. stream \in Seq(Replies) /\ 1 \in 1..Len(stream) /\ stream[1] = "joined"
    BY <2>1, <2>2 DEF Wire
  <2>. QED  BY <2>3 DEF Wire, Admitted
<1>. QED  BY <1>4, <1>5

LEMMA DisconnectKeepsWire ==
  ASSUME Wire, Disconnect, UNCHANGED socket
  PROVE  Wire'
<1>1. /\ stream' = <<>> /\ offset' = 0 /\ buffered' = buffered /\ bad' = bad
      /\ blocked' = blocked /\ stale' = (buffered > 0)
  BY DEF Disconnect, socket
<1>2. stream' \in Seq(Replies) /\ Len(stream') = 0
  BY <1>1
<1>3. Admitted'
  BY <1>2 DEF Admitted
<1>4. Framed'
  <2>1. ASSUME ~stale' PROVE buffered' = offset' /\ ~bad'
    <3>0. ~(buffered > 0)
      BY <1>1, <2>1
    <3>1. buffered = 0 /\ ~(buffered >= Header)
      BY <3>0, Parameters DEF Wire
    <3>2. ~bad
      BY <3>1 DEF Wire
    <3>. QED  BY <1>1, <3>1, <3>2
  <2>. QED  BY <2>1 DEF Framed
<1>5. stale' \in BOOLEAN /\ offset' \in 0..(Message - 1)
  BY <1>1, Parameters
<1>. QED  BY <1>1, <1>2, <1>3, <1>4, <1>5 DEF Wire

LEMMA SendsKeepsWire ==
  ASSUME Wire, NEW m \in Replies, Sends(m), member \in BOOLEAN,
         member' = (member \/ m = "joined"), UNCHANGED <<offset, stale, socket>>
  PROVE  Wire'
<1>1. stream' = Append(stream, m) /\ stream \in Seq(Replies)
  BY DEF Sends, Wire
<1>2. /\ stream' \in Seq(Replies) /\ Len(stream') = Len(stream) + 1 /\ Len(stream) \in Nat
      /\ \A i \in 1..Len(stream) : stream'[i] = stream[i]
      /\ stream'[Len(stream) + 1] = m
  BY <1>1
<1>3. Admitted'
  <2>1. ASSUME NEW i \in 1..Len(stream'), stream'[i] = "joined" PROVE member'
    <3>1. CASE i \in 1..Len(stream)
      <4>1. stream[i] = "joined"
        BY <1>2, <2>1, <3>1
      <4>2. member
        BY <3>1, <4>1 DEF Wire, Admitted
      <4>. QED  BY <4>2
    <3>2. CASE i = Len(stream) + 1
      BY <1>2, <2>1, <3>2
    <3>. QED  BY <1>2, <3>1, <3>2
  <2>. QED  BY <2>1 DEF Admitted
<1>. QED  BY <1>2, <1>3 DEF Wire, Framed, socket
-----------------------------------------------------------------------------
(* The sheet. *)

LEMMA RetryKeepsSheet ==
  ASSUME SheetOK, RoomWatched, JoinedHere, phase # "idle", Retry, UNCHANGED history
  PROVE  /\ SheetOK' /\ (phase' = "idle" => room' = "none")
<1>1. /\ phase' \in {"idle", "connect"} /\ room' \in {"none", "entered", "joined"}
      /\ phase' = "idle" => room' = "none"
  BY DEF Retry, GiveUp, SheetOK
<1>2. attempts' \in 0..2
  BY DEF Retry, GiveUp, SheetOK
<1>3. noAuth' \in BOOLEAN /\ retries' \in 0..MaxRetries
  BY DEF history, SheetOK
<1>. QED  BY <1>1, <1>2, <1>3, Zenon DEF SheetOK

LEMMA Elsewhere ==
  ASSUME phase = "idle" => room = "none"
  PROVE  RoomWatched /\ JoinedHere
BY DEF RoomWatched, JoinedHere

LEMMA SameSheet ==
  ASSUME SheetOK, RoomWatched, JoinedHere, UNCHANGED sheet, gotData => gotData',
         member => member'
  PROVE  SheetOK' /\ RoomWatched' /\ JoinedHere'
<1>1. UNCHANGED <<phase, attempts, room, noAuth, retries>>
  BY DEF sheet, history
<1>. QED  BY <1>1 DEF SheetOK, RoomWatched, JoinedHere

LEMMA SameFlags ==
  ASSUME FlagsOK, UNCHANGED flags
  PROVE  FlagsOK' /\ gotData' = gotData
BY DEF FlagsOK, flags

LEMMA HardErrorKeepsFlags ==
  ASSUME FlagsOK, HardError
  PROVE  FlagsOK' /\ gotData' = gotData
<1>1. tries' \in 2..3 /\ gotData' = gotData /\ (gotData => tries' = 3)
      /\ (~gotData => tries' = tries)
  BY DEF FlagsOK, HardError
<1>2. gotData' \in BOOLEAN /\ needReconnect' = (needReconnect \/ gotData)
  BY DEF FlagsOK, HardError
<1>3. needReconnect' \in BOOLEAN /\ (needReconnect' => tries' = 3)
  BY <1>1, <1>2 DEF FlagsOK
<1>. QED  BY <1>1, <1>2, <1>3, Zenon DEF FlagsOK

LEMMA GotMessageKeepsFlags ==
  ASSUME FlagsOK, GotMessage
  PROVE  FlagsOK' /\ gotData'
BY DEF FlagsOK, GotMessage

LEMMA ReceivedOK ==
  ASSUME Wire, FlagsOK, NothingYet \/ HardError \/ GotMessage, member' = member
  PROVE  Wire' /\ FlagsOK' /\ (gotData => gotData')
<1>1. CASE NothingYet
  BY <1>1, TimesOutKeepsWire, SameFlags DEF NothingYet
<1>2. CASE HardError
  <2>1. Fails
    BY <1>2 DEF HardError
  <2>. QED  BY <1>2, <2>1, FailsKeepsWire, HardErrorKeepsFlags
<1>3. CASE GotMessage
  <2>1. Completes
    BY <1>3 DEF GotMessage
  <2>. QED  BY <1>3, <2>1, CompletesKeepsWire, GotMessageKeepsFlags
<1>. QED  BY <1>1, <1>2, <1>3

-----------------------------------------------------------------------------
(* The steps. *)

LEMMA StepIInv ==
  ASSUME IInv, [Next]_vars
  PROVE  IInv'
<1>0. Wire /\ Ends /\ FlagsOK /\ SheetOK /\ RoomWatched /\ JoinedHere
  BY DEF IInv
<1>1. CASE Answer
  <2>1. /\ UNCHANGED <<up, offset, stale, socket, flags, sheet>> /\ due' = "none"
    BY <1>1 DEF Answer
  <2>2. PICK m \in Replies : Sends(m) /\ member' = (member \/ m = "joined")
    BY <1>1 DEF Answer, Replies
  <2>3. Ends'
    BY <1>0, <2>1, <2>2 DEF Ends
  <2>4. Wire'
    BY <1>0, <2>1, <2>2, SendsKeepsWire DEF Ends
  <2>5. FlagsOK' /\ gotData' = gotData
    BY <1>0, <2>1, SameFlags
  <2>6. SheetOK' /\ RoomWatched' /\ JoinedHere'
    BY <1>0, <2>1, <2>2, <2>5, SameSheet
  <2>. QED  BY <2>3, <2>4, <2>5, <2>6 DEF IInv
<1>2. CASE Push
  <2>1. /\ UNCHANGED <<up, offset, due, member, stale, socket, flags, sheet>>
        /\ Sends("push") /\ "push" \in Replies
    BY <1>2 DEF Push, Replies
  <2>2. member' = (member \/ "push" = "joined") /\ member \in BOOLEAN
    BY <1>0, <2>1 DEF Ends
  <2>3. Wire'
    BY <1>0, <2>1, <2>2, SendsKeepsWire
  <2>4. FlagsOK' /\ gotData' = gotData
    BY <1>0, <2>1, SameFlags
  <2>5. SheetOK' /\ RoomWatched' /\ JoinedHere'
    BY <1>0, <2>1, <2>4, SameSheet
  <2>6. Ends'
    BY <1>0, <2>1 DEF Ends
  <2>. QED  BY <2>3, <2>4, <2>5, <2>6 DEF IInv
<1>3. CASE Break
  <2>1. /\ UNCHANGED <<offset, member, stale, socket, flags, sheet>>
        /\ up' = FALSE /\ due' = "none" /\ stream' \in {stream, <<>>}
    BY <1>3 DEF Break
  <2>2. stream' \in Seq(Replies) /\ Admitted'
    <3>1. CASE stream' = stream
      BY <1>0, <2>1, <3>1 DEF Wire, Admitted
    <3>2. CASE stream' = <<>>
      <4>1. Len(stream') = 0 /\ stream' \in Seq(Replies)
        BY <3>2
      <4>. QED  BY <4>1 DEF Admitted
    <3>. QED  BY <2>1, <3>1, <3>2
  <2>3. Wire'
    BY <1>0, <2>1, <2>2 DEF Wire, Framed, socket
  <2>4. FlagsOK' /\ gotData' = gotData
    BY <1>0, <2>1, SameFlags
  <2>5. SheetOK' /\ RoomWatched' /\ JoinedHere'
    BY <1>0, <2>1, <2>4, SameSheet
  <2>6. Ends'
    BY <1>0, <2>1 DEF Ends
  <2>. QED  BY <2>3, <2>4, <2>5, <2>6 DEF IInv
<1>4. CASE Underflows
  <2>1. /\ UNCHANGED <<up, due, member, stale, bad, flags, sheet>> /\ blocked' = TRUE
        /\ ~bad /\ HeaderLeft > 0 /\ TakeCounted(HeaderLeft)
    BY <1>4 DEF Underflows
  <2>2. bad' \in BOOLEAN /\ (bad' => stale) /\ blocked' \in BOOLEAN
    BY <1>0, <2>1 DEF Wire
  <2>3. Wire'
    BY <1>0, <2>1, <2>2, HeaderKeepsWire
  <2>4. FlagsOK' /\ gotData' = gotData
    BY <1>0, <2>1, SameFlags
  <2>5. SheetOK' /\ RoomWatched' /\ JoinedHere'
    BY <1>0, <2>1, <2>4, SameSheet
  <2>6. Ends'
    BY <1>0, <2>1 DEF Ends
  <2>. QED  BY <2>3, <2>4, <2>5, <2>6 DEF IInv
<1>5. CASE Connect
  <2>1. phase # "idle" /\ UNCHANGED <<socket, flags, history>>
    BY <1>5 DEF Connect
  <2>2. FlagsOK'
    BY <1>0, <2>1, SameFlags
  <2>3. CASE UNCHANGED <<up, stream, offset, due, member, stale>> /\ Retry
    <3>1. Wire' /\ Ends'
      BY <1>0, <2>1, <2>3 DEF Wire, Ends, Framed, Admitted, socket
    <3>2. SheetOK' /\ (phase' = "idle" => room' = "none")
      BY <1>0, <2>1, <2>3, RetryKeepsSheet
    <3>. QED  BY <2>2, <3>1, <3>2 DEF IInv, RoomWatched, JoinedHere
  <2>4. CASE Disconnect /\ up' \in BOOLEAN /\ due' = "none" /\ Retry
    <3>1. Wire'
      BY <1>0, <2>1, <2>4, DisconnectKeepsWire
    <3>2. Ends'
      BY <2>4 DEF Ends, Disconnect
    <3>3. SheetOK' /\ (phase' = "idle" => room' = "none")
      BY <1>0, <2>1, <2>4, RetryKeepsSheet
    <3>. QED  BY <2>2, <3>1, <3>2, <3>3 DEF IInv, RoomWatched, JoinedHere
  <2>5. CASE Disconnect /\ up' = TRUE /\ due' = "login" /\ phase' = "login"
             /\ UNCHANGED <<attempts, room>>
    <3>1. Wire'
      BY <1>0, <2>1, <2>5, DisconnectKeepsWire
    <3>2. Ends'
      BY <2>5 DEF Ends, Disconnect
    <3>3. SheetOK' /\ phase' # "idle"
      BY <1>0, <2>1, <2>5 DEF SheetOK, history
    <3>. QED  BY <2>2, <3>1, <3>2, <3>3 DEF IInv, RoomWatched, JoinedHere
  <2>. QED  BY <1>5, <2>3, <2>4, <2>5 DEF Connect
<1>6. CASE Login
  <2>1. phase # "idle" /\ UNCHANGED <<up, member, flags, history>>
    BY <1>6 DEF Login
  <2>2. FlagsOK'
    BY <1>0, <2>1, SameFlags
  <2>3. Wire'
    BY <1>0, <1>6, <2>1, TimesOutKeepsWire, FailsKeepsWire, CompletesKeepsWire DEF Login
  <2>4. Ends'
    BY <1>0, <1>6, <2>1 DEF Login, SendJoin, Ends
  <2>5. SheetOK' /\ (phase' = "idle" => room' = "none")
    <3>1. CASE Retry
      BY <1>0, <2>1, <3>1, RetryKeepsSheet
    <3>2. CASE phase' = "reply" /\ UNCHANGED <<attempts, room>>
      BY <1>0, <2>1, <3>2 DEF SheetOK, history
    <3>. QED  BY <1>6, <3>1, <3>2 DEF Login
  <2>. QED  BY <2>2, <2>3, <2>4, <2>5 DEF IInv, RoomWatched, JoinedHere
<1>7. CASE Reply
  <2>1. phase # "idle" /\ UNCHANGED <<up, due, member>>
    BY <1>7 DEF Reply
  <2>2. Ends'
    BY <1>0, <2>1 DEF Ends
  <2>3. CASE (NothingYet \/ HardError \/ GotMessage) /\ Retry /\ UNCHANGED history
    <3>1. Wire' /\ FlagsOK'
      BY <1>0, <2>1, <2>3, ReceivedOK
    <3>2. SheetOK' /\ (phase' = "idle" => room' = "none")
      BY <1>0, <2>1, <2>3, RetryKeepsSheet
    <3>. QED  BY <2>2, <3>1, <3>2 DEF IInv, RoomWatched, JoinedHere
  <2>4. CASE Completes /\ Frame = "joined" /\ Joined
    <3>1. Wire' /\ member
      BY <1>0, <2>1, <2>4, CompletesKeepsWire
    <3>2. FlagsOK' /\ gotData'
      <4>1. tries' = 3 /\ 3 \in 2..3
        BY <2>4 DEF Joined
      <4>. QED  BY <2>4, <4>1, Zenon DEF Joined, FlagsOK
    <3>3. SheetOK'
      <4>1. retries' = 0 /\ 0 \in 0..MaxRetries
        BY <2>4, Parameters DEF Joined
      <4>2. attempts' \in 0..2
        BY <1>0, <2>4 DEF Joined, SheetOK
      <4>. QED  BY <2>4, <4>1, <4>2, Zenon DEF Joined, SheetOK
    <3>. QED  BY <2>1, <2>2, <3>1, <3>2, <3>3 DEF IInv, RoomWatched, JoinedHere
  <2>5. CASE GotMessage /\ phase' = "prompt" /\ UNCHANGED <<attempts, room, history>>
    <3>1. Wire' /\ FlagsOK'
      BY <1>0, <2>1, <2>5, ReceivedOK
    <3>2. SheetOK' /\ phase' # "idle"
      BY <1>0, <2>5 DEF SheetOK, history
    <3>. QED  BY <2>2, <3>1, <3>2 DEF IInv, RoomWatched, JoinedHere
  <2>. QED  BY <1>7, <2>3, <2>4, <2>5 DEF Reply
<1>8. CASE Prompt
  <2>1. phase # "idle" /\ UNCHANGED <<up, stream, offset, member, stale, socket, flags, history>>
    BY <1>8 DEF Prompt
  <2>2. Wire'
    BY <1>0, <2>1 DEF Wire, Framed, Admitted, socket
  <2>3. FlagsOK'
    BY <1>0, <2>1, SameFlags
  <2>4. Ends'
    BY <1>0, <1>8, <2>1 DEF Prompt, SendJoin, Ends
  <2>5. SheetOK' /\ (phase' = "idle" => room' = "none")
    BY <1>0, <1>8, <2>1 DEF Prompt, GiveUp, SheetOK, history
  <2>. QED  BY <2>2, <2>3, <2>4, <2>5 DEF IInv, RoomWatched, JoinedHere
<1>9. CASE UserJoins \/ OpenRoomDialog
  <2>1. /\ UNCHANGED <<conn, socket, flags, history>> /\ phase = "idle"
        /\ room' \in {room, "entered", "none"} /\ phase' \in {phase, "connect"}
    BY <1>9 DEF UserJoins, OpenRoomDialog, Begin
  <2>2. attempts' \in 0..2
    BY <1>0, <1>9 DEF UserJoins, OpenRoomDialog, Begin, SheetOK
  <2>3. Wire' /\ Ends'
    BY <1>0, <2>1 DEF Wire, Ends, Framed, Admitted, socket, conn
  <2>4. FlagsOK' /\ gotData' = gotData
    BY <1>0, <2>1, SameFlags
  <2>5. SheetOK'
    BY <1>0, <2>1, <2>2 DEF SheetOK, history
  <2>6. RoomWatched' /\ JoinedHere'
    BY <1>0, <2>1, <2>4 DEF RoomWatched, JoinedHere, history, conn
  <2>. QED  BY <2>3, <2>4, <2>5, <2>6 DEF IInv
<1>10. CASE Reconnect
  <2>1. /\ needReconnect /\ tries = 3 /\ phase = "idle"
        /\ needReconnect' = FALSE /\ gotData' = FALSE /\ tries' = 2
        /\ UNCHANGED <<conn, socket, room>>
    BY <1>0, <1>10 DEF Reconnect, Disarm, FlagsOK
  <2>2. Wire' /\ Ends'
    BY <1>0, <2>1 DEF Wire, Ends, Framed, Admitted, socket, conn
  <2>3. FlagsOK'
    <3>1. 2 \in 2..3
      OBVIOUS
    <3>. QED  BY <2>1, <3>1, Zenon DEF FlagsOK
  <2>4. retries' \in 0..MaxRetries
    BY <1>0, <1>10, <2>1, Parameters DEF Reconnect, SheetOK
  <2>5. /\ attempts' \in 0..2 /\ phase' \in {"idle", "connect"} /\ noAuth' \in BOOLEAN
        /\ phase' = "idle" => noAuth'
    <3>1. tries >= 0 /\ attempts \in 0..2 /\ 2 \in 0..2
      BY <1>0, <2>1 DEF SheetOK
    <3>2. \/ Begin /\ noAuth' = FALSE
          \/ noAuth' = TRUE /\ UNCHANGED <<phase, attempts>>
      BY <1>10, <3>1, Zenon DEF Reconnect
    <3>. QED  BY <2>1, <3>1, <3>2, Zenon DEF Begin
  <2>6. SheetOK'
    BY <1>0, <2>1, <2>4, <2>5 DEF SheetOK
  <2>7. RoomWatched'
    BY <2>5 DEF RoomWatched
  <2>8. JoinedHere'
    BY <1>0, <2>1 DEF JoinedHere, conn
  <2>. QED  BY <2>2, <2>3, <2>6, <2>7, <2>8 DEF IInv
<1>11. CASE Receive
  <2>1. /\ UNCHANGED <<up, due, member, sheet>>
        /\ NothingYet \/ HardError \/ GotMessage
    BY <1>11 DEF Receive
  <2>2. Wire' /\ FlagsOK' /\ (gotData => gotData')
    BY <1>0, <2>1, ReceivedOK
  <2>3. SheetOK' /\ RoomWatched' /\ JoinedHere'
    BY <1>0, <2>1, <2>2, SameSheet
  <2>4. Ends'
    BY <1>0, <2>1 DEF Ends
  <2>. QED  BY <2>2, <2>3, <2>4 DEF IInv
<1>12. CASE UNCHANGED vars
  <2>1. UNCHANGED <<conn, socket, flags, sheet>>
    BY <1>12 DEF vars
  <2>2. Wire' /\ Ends'
    BY <1>0, <2>1 DEF Wire, Ends, Framed, Admitted, socket, conn
  <2>3. FlagsOK' /\ gotData' = gotData
    BY <1>0, <2>1, SameFlags
  <2>4. member' = member
    BY <2>1 DEF conn
  <2>5. SheetOK' /\ RoomWatched' /\ JoinedHere'
    BY <1>0, <2>1, <2>3, <2>4, SameSheet
  <2>. QED  BY <2>2, <2>3, <2>5 DEF IInv
<1>. QED  BY <1>1, <1>2, <1>3, <1>4, <1>5, <1>6, <1>7, <1>8, <1>9, <1>10, <1>11, <1>12
          DEF Next, Client

THEOREM Invariance == Spec => []IInv
BY InitIInv, StepIInv, PTL DEF Spec

(* TypeOK holds of every behaviour of the chat client's connection.        *)
THEOREM TypeCorrect == Spec => []TypeOK
<1>1. ASSUME IInv PROVE TypeOK
  <2>1. Wire /\ Ends /\ FlagsOK /\ SheetOK
    BY <1>1 DEF IInv
  <2>2. tries \in -1..3
    BY <2>1 DEF FlagsOK
  <2>. QED  BY <2>1, <2>2 DEF Wire, Ends, FlagsOK, SheetOK, TypeOK, Connection
<1>. QED  BY <1>1, Invariance, PTL

(* Messages are cut out of the stream where they begin, whatever arrives    *)
(* when, on every connection that started with an empty buffer             *)
(* (EasyTitanSocket::recvTMessage).                                        *)
THEOREM InStep == Spec => []Framed
<1>1. ASSUME IInv PROVE Framed
  BY <1>1 DEF IInv, Wire
<1>. QED  BY <1>1, Invariance, PTL

(* The loss of a joined room would be noticed (ReceiveTitanMsg, ServiceChat, *)
(* JoinRoom).                                                              *)
THEOREM LossWouldShow == Spec => []RoomWatched
<1>1. ASSUME IInv PROVE RoomWatched
  BY <1>1 DEF IInv
<1>. QED  BY <1>1, Invariance, PTL

(* A room shown as joined admitted the client on this connection (JoinRoom). *)
THEOREM ShownIsJoined == Spec => []JoinedHere
<1>1. ASSUME IInv PROVE JoinedHere
  BY <1>1 DEF IInv
<1>. QED  BY <1>1, Invariance, PTL

(* The budget of reconnects never falls below 2, so the branch of           *)
(* ServiceChat that reports a failed reconnect is never taken.             *)
THEOREM BudgetNeverSpent == Spec => [](tries >= 2)
<1>1. ASSUME IInv PROVE tries >= 2
  BY <1>1 DEF IInv, FlagsOK
<1>. QED  BY <1>1, Invariance, PTL
=============================================================================
