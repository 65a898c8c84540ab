------------------------ MODULE ServerQuery_proofs -------------------------
(* Proofs about ServerQuery: what a refresh pass knows of a server, and     *)
(* that it counts its sockets, for any list, any number of slots and       *)
(* retries.                                                                *)
EXTENDS ServerQuery, FiniteSetTheorems, TLAPS

Answered == Statuses \ ({"idle"} \cup Unanswered)

(* What is known of a record at any time: a record that is not finished has *)
(* a retry left to count, its info came exactly if its status says so, and  *)
(* an FD_CONNECT is in the queue only before the info can come.            *)
Good(r) ==
  /\ r \in Record
  /\ r.status \notin Finished => r.retry <= MaxRetries
  /\ r.informed <=> r.status \in Answered
  /\ r.noResponse => r.status = "idle"
  /\ r.notice => r.status \in {"connected", "info sent"}

LEMMA StatusFacts ==
  /\ \A k \in Kinds : Sent[k] \in Statuses /\ Done[k] \in Statuses
  /\ Sent["info"] = "info sent" /\ Sent["players"] = "players sent"
  /\ Sent["rules"] = "rules sent"
  /\ Done["info"] = "info done" /\ Done["players"] = "players done"
  /\ Done["rules"] = "rules done"
BY DEF Kinds, Sent, Done, Statuses

LEMMA NoRetryYet == 0 \in 0..(MaxRetries + 1) /\ 0 <= MaxRetries
BY QueryAssumption

LEMMA GoodQueued == Good(Queued)
<1>1. Queued \in Record
  BY QueryAssumption DEF Queued, Record, Statuses
<1> QED
  BY <1>1, QueryAssumption DEF Good, Queued, Finished, Answered, Unanswered, Statuses

-----------------------------------------------------------------------------
(* What the operations of a record leave known.                            *)

LEMMA RequestGood ==
  ASSUME NEW r, Good(r), r.status \notin Finished, NEW k \in Kinds,
         k = "info" <=> ~r.informed
  PROVE  /\ Good(Request(r, k)) /\ Request(r, k).socket = r.socket
         /\ Request(r, k).status # "queued"
<1> DEFINE q == Request(r, k)
<1>1. /\ q.status = Sent[k] /\ q.socket = r.socket /\ q.retry = r.retry
      /\ q.noResponse = r.noResponse /\ q.notice = r.notice /\ q.informed = r.informed
  BY DEF Good, Record, Request
<1>2. q \in Record
  BY StatusFacts DEF Good, Record, Request
<1>3. Sent[k] \notin Finished /\ Sent[k] # "queued"
  BY StatusFacts DEF Kinds, Finished
<1>4. Sent[k] \in Answered <=> k # "info"
  BY StatusFacts DEF Kinds, Answered, Unanswered, Statuses
<1>5. r.notice => k = "info"
  BY DEF Good, Answered, Unanswered
<1>6. r.noResponse => FALSE
  BY DEF Good, Finished
<1> HIDE DEF q
<1>7. Good(q)
  BY <1>1, <1>2, <1>3, <1>4, <1>5, <1>6, StatusFacts DEF Good
<1> QED
  BY <1>1, <1>3, <1>7 DEF q

(* CServerInfo::Connect, of a record without an answer.                    *)
LEMMA ConnectGood ==
  ASSUME NEW r, Good(r), r.status \notin Finished, ~r.informed, ~r.notice,
         NEW q \in Connect(r)
  PROVE  /\ Good(q) /\ ~q.informed
         /\ q.socket = r.socket \/ (SelectFails /\ ~q.socket)
         /\ q.status \in {"connect retry", "connected", "idle"}
         /\ q.status = "connected" => q.retry = r.retry
<1>0. /\ r \in Record /\ r.retry <= MaxRetries /\ r.retry \in 0..(MaxRetries + 1)
      /\ ~r.noResponse
  BY DEF Good, Record, Finished
<1>1. CASE q = [r EXCEPT !.status = "connect retry"]
  <2>1. /\ q.status = "connect retry" /\ q.socket = r.socket /\ q.retry = r.retry
        /\ q.noResponse = r.noResponse /\ q.notice = r.notice /\ q.informed = r.informed
    BY <1>0, <1>1 DEF Record
  <2>2. q \in Record
    BY <1>0, <1>1 DEF Record, Statuses
  <2> QED
    BY <1>0, <2>1, <2>2 DEF Good, Finished, Answered, Unanswered
<1>2. ASSUME NEW n \in BOOLEAN, q = [r EXCEPT !.status = "connected", !.notice = n]
      PROVE  /\ Good(q) /\ ~q.informed /\ q.socket = r.socket /\ q.retry = r.retry
             /\ q.status = "connected"
  <2>1. /\ q.status = "connected" /\ q.socket = r.socket /\ q.retry = r.retry
        /\ q.noResponse = r.noResponse /\ q.notice = n /\ q.informed = r.informed
    BY <1>0, <1>2 DEF Record
  <2>2. q \in Record
    BY <1>0, <1>2 DEF Record, Statuses
  <2> QED
    BY <1>0, <2>1, <2>2 DEF Good, Finished, Answered, Unanswered
<1>3. CASE SelectFails /\ q = [Close(r) EXCEPT !.status = "idle"]
  <2>1. /\ q.status = "idle" /\ q.socket = FALSE /\ q.retry = r.retry
        /\ q.noResponse = r.noResponse /\ q.notice = FALSE /\ q.informed = r.informed
    BY <1>0, <1>3 DEF Record, Close
  <2>2. q \in Record
    BY <1>0, <1>3 DEF Record, Statuses, Close
  <2> QED
    BY <1>0, <1>3, <2>1, <2>2 DEF Good, Finished, Answered, Unanswered
<1> QED
  BY <1>1, <1>2, <1>3 DEF Connect

(* What a record that has not timed out does next.                         *)
LEMMA DriveGood ==
  ASSUME NEW r, Good(r), r.status \notin Finished \cup {"queued"}, NEW q \in Drive(r)
  PROVE  Good(q) /\ q.socket = r.socket /\ q.status # "queued"
<1>0. r \in Record /\ r.status \in Statuses /\ ~r.noResponse
  BY DEF Good, Record, Finished
<1>1. CASE r.status = "connected"
  <2>1. q = Request(r, "info") /\ ~r.informed
    BY <1>1 DEF Drive, Good, Answered, Unanswered
  <2> QED
    BY <2>1, RequestGood DEF Kinds
<1>2. ASSUME NEW s \in {"players done", "dead"}, r.informed, q = [r EXCEPT !.status = s]
      PROVE  Good(q) /\ q.socket = r.socket /\ q.status # "queued"
  <2>1. /\ q.status = s /\ q.socket = r.socket /\ q.retry = r.retry
        /\ q.noResponse = r.noResponse /\ q.notice = r.notice /\ q.informed = r.informed
    BY <1>0, <1>2 DEF Record
  <2>2. q \in Record
    BY <1>0, <1>2 DEF Record, Statuses
  <2>3. ~r.notice
    BY <1>2 DEF Good, Answered, Unanswered
  <2> QED
    BY <1>0, <1>2, <2>1, <2>2, <2>3 DEF Good, Finished, Answered, Unanswered, Statuses
<1>3. CASE r.status = "info done"
  <2>0. r.informed /\ ~r.notice
    BY <1>3 DEF Good, Answered, Unanswered, Statuses
  <2>1. q \in AskExtra(r)
    BY <1>3 DEF Drive
  <2>2. CASE q = [r EXCEPT !.status = "players done"]
    BY <1>2, <2>0, <2>2
  <2>3. CASE q = [Request(r, "players") EXCEPT !.retry = 0]
    <3> DEFINE p == Request(r, "players")
    <3>1. Good(p) /\ p.socket = r.socket /\ p.status # "queued"
      BY <2>0, RequestGood DEF Kinds
    <3> HIDE DEF p
    <3>2. q = [p EXCEPT !.retry = 0]
      BY <2>3 DEF p
    <3>3. /\ q.status = p.status /\ q.socket = p.socket /\ q.retry = 0
          /\ q.noResponse = p.noResponse /\ q.notice = p.notice /\ q.informed = p.informed
      BY <3>1, <3>2 DEF Good, Record
    <3>4. q \in Record
      BY <3>1, <3>2, NoRetryYet, Zenon DEF Good, Record
    <3> QED
      BY <3>1, <3>3, <3>4, NoRetryYet, Zenon DEF Good
  <2> QED
    BY <2>1, <2>2, <2>3 DEF AskExtra
<1>4. CASE r.status = "players done"
  <2>0. r.informed /\ ~r.notice
    BY <1>4 DEF Good, Answered, Unanswered, Statuses
  <2>1. q = Request(r, "rules") \/ q = [r EXCEPT !.status = "dead"]
    BY <1>4 DEF Drive
  <2> QED
    BY <1>2, <2>0, <2>1, RequestGood DEF Kinds
<1>5. CASE r.status = "rules done"
  <2>0. r.informed
    BY <1>5 DEF Good, Answered, Unanswered, Statuses
  <2>1. q = [r EXCEPT !.status = "dead"]
    BY <1>5 DEF Drive
  <2> QED
    BY <1>2, <2>0, <2>1
<1>6. CASE r.status \notin {"connected", "info done", "players done", "rules done"}
  <2>1. q = r
    BY <1>6 DEF Drive
  <2> QED
    BY <2>1
<1> QED
  BY <1>1, <1>3, <1>4, <1>5, <1>6

LEMMA DialGood ==
  ASSUME NEW r, Good(r), r.status \notin Finished, ~r.informed, ~r.notice, NEW q \in Dial(r)
  PROVE  /\ Good(q) /\ q.status # "queued"
         /\ q.socket = r.socket \/ (SelectFails /\ ~q.socket)
<1>1. PICK c \in Connect(r) :
        q \in (IF c.status = "connected" THEN Drive([c EXCEPT !.late = FALSE, !.retry = 0])
                                         ELSE {c})
  BY DEF Dial
<1>2. /\ Good(c) /\ ~c.informed
      /\ c.socket = r.socket \/ (SelectFails /\ ~c.socket)
      /\ c.status \in {"connect retry", "connected", "idle"}
  BY ConnectGood
<1>3. CASE c.status # "connected"
  BY <1>1, <1>2, <1>3
<1>4. CASE c.status = "connected"
  <2> DEFINE d == [c EXCEPT !.late = FALSE, !.retry = 0]
  <2>1. /\ d.status = c.status /\ d.socket = c.socket /\ d.retry = 0
        /\ d.noResponse = c.noResponse /\ d.notice = c.notice /\ d.informed = c.informed
    BY <1>2 DEF Good, Record
  <2>2. d \in Record
    BY <1>2, NoRetryYet, Zenon DEF Good, Record
  <2>3. q \in Drive(d)
    BY <1>1, <1>4
  <2> HIDE DEF d
  <2>4. Good(d)
    BY <1>2, <2>1, <2>2, NoRetryYet, Zenon DEF Good
  <2>5. Good(q) /\ q.socket = d.socket /\ q.status # "queued"
    BY <1>4, <2>1, <2>3, <2>4, DriveGood DEF Finished
  <2> QED
    BY <1>2, <2>1, <2>5
<1> QED
  BY <1>3, <1>4
(* A state that timed out: sent again, or given up.                        *)
LEMMA TimedOutGood ==
  ASSUME NEW r, Good(r), r.status \notin Finished, ~r.notice, NEW q \in TimedOut(r)
  PROVE  /\ Good(q) /\ (q.status = "queued" => r.status = "queued")
         /\ q.socket = r.socket \/ (SelectFails /\ ~q.socket)
<1> DEFINE again == [r EXCEPT !.retry = @ + 1]
<1>0. /\ r \in Record /\ r.status \in Statuses /\ ~r.noResponse
      /\ r.retry \in 0..(MaxRetries + 1) /\ r.retry <= MaxRetries
  BY DEF Good, Record, Finished
<1>1. r.retry + 1 \in 0..(MaxRetries + 1)
  BY <1>0, QueryAssumption
<1>2. /\ again.status = r.status /\ again.socket = r.socket /\ again.retry = r.retry + 1
      /\ again.noResponse = FALSE /\ again.notice = FALSE /\ again.informed = r.informed
  BY <1>0 DEF Record
<1>3. again \in Record
  BY <1>0, <1>1, Zenon DEF Record
<1>4. r.informed <=> ~NeverAnswered(r)
  BY <1>0 DEF Good, Answered, NeverAnswered, Finished
<1>5. again.informed <=> ~NeverAnswered(again)
  BY <1>2, <1>4 DEF NeverAnswered
<1>6. CASE r.retry >= MaxRetries
  <2>1. q = GiveUp(again)
    BY <1>6 DEF TimedOut
  <2> HIDE DEF again
  <2>2. CASE NeverAnswered(again)
    <3>1. q = [again EXCEPT !.status = "idle", !.noResponse = TRUE]
      BY <2>1, <2>2 DEF GiveUp
    <3>2. /\ q.status = "idle" /\ q.socket = again.socket /\ q.notice = again.notice
          /\ q.informed = again.informed
      BY <1>3, <3>1 DEF Record
    <3>3. q \in Record
      BY <1>3, <3>1 DEF Record, Statuses
    <3> QED
      BY <1>2, <1>5, <2>2, <3>2, <3>3 DEF Good, Finished, Answered
  <2>3. CASE ~NeverAnswered(again)
    <3>1. q = [again EXCEPT !.status = "dead"]
      BY <2>1, <2>3 DEF GiveUp
    <3>2. /\ q.status = "dead" /\ q.socket = again.socket /\ q.notice = again.notice
          /\ q.informed = again.informed /\ q.noResponse = again.noResponse
      BY <1>3, <3>1 DEF Record
    <3>3. q \in Record
      BY <1>3, <3>1 DEF Record, Statuses
    <3> QED
      BY <1>2, <1>5, <2>3, <3>2, <3>3 DEF Good, Finished, Answered, Unanswered, Statuses
  <2> QED
    BY <2>2, <2>3
<1>7. CASE ~(r.retry >= MaxRetries)
  <2>0. again.retry <= MaxRetries
    BY <1>0, <1>2, <1>7, QueryAssumption
  <2>1. Good(again)
    <3> HIDE DEF again
    <3> QED
      BY <1>0, <1>2, <1>3, <2>0 DEF Good
  <2>2. CASE r.status = "connect retry"
    <3> DEFINE d == [again EXCEPT !.late = FALSE]
    <3>1. q \in Connect(d)
      BY <1>7, <2>2 DEF TimedOut
    <3> HIDE DEF again
    <3>2. /\ d.status = again.status /\ d.socket = again.socket /\ d.retry = again.retry
          /\ d.noResponse = again.noResponse /\ d.notice = again.notice
          /\ d.informed = again.informed
      BY <1>3 DEF Record
    <3>3. d \in Record
      BY <1>3 DEF Record
    <3> HIDE DEF d
    <3>4. Good(d)
      BY <2>1, <3>2, <3>3 DEF Good
    <3>5. ~d.informed
      BY <1>2, <1>4, <2>2, <3>2 DEF NeverAnswered, Unanswered
    <3>6. /\ Good(q)
          /\ q.socket = d.socket \/ (SelectFails /\ ~q.socket)
          /\ q.status \in {"connect retry", "connected", "idle"}
      BY <1>2, <2>2, <3>1, <3>2, <3>4, <3>5, ConnectGood DEF Finished
    <3> QED
      BY <1>2, <3>2, <3>6
  <2>3. ASSUME r.status # "connect retry", NEW k \in Kinds, r.status = Sent[k],
               q = Request(again, k)
        PROVE  Good(q) /\ q.socket = r.socket /\ q.status # "queued"
    <3>1. k = "info" <=> ~r.informed
      BY <1>4, <2>3, StatusFacts DEF NeverAnswered, Unanswered, Kinds
    <3>2. again.status \notin Finished
      BY <1>2
    <3> HIDE DEF again
    <3> QED
      BY <1>2, <2>1, <2>3, <3>1, <3>2, RequestGood
  <2>4. CASE r.status # "connect retry" /\ \E k \in Kinds : r.status = Sent[k]
    <3> DEFINE k == CHOOSE k \in Kinds : r.status = Sent[k]
    <3>1. k \in Kinds /\ r.status = Sent[k]
      BY <2>4
    <3>2. q = Request(again, k)
      BY <1>7, <2>4 DEF TimedOut
    <3> HIDE DEF k, again
    <3> QED
      BY <2>3, <2>4, <3>1, <3>2
  <2>5. CASE r.status # "connect retry" /\ ~\E k \in Kinds : r.status = Sent[k]
    <3>1. q = again
      BY <1>7, <2>5 DEF TimedOut
    <3> QED
      BY <1>2, <2>1, <3>1
  <2> QED
    BY <2>2, <2>4, <2>5
<1> QED
  BY <1>6, <1>7

LEMMA CloseGood ==
  ASSUME NEW r, Good(r)
  PROVE  Good(Close(r)) /\ ~Close(r).socket /\ Close(r).status = r.status
<1> DEFINE q == Close(r)
<1>1. /\ q.status = r.status /\ q.socket = FALSE /\ q.retry = r.retry
      /\ q.noResponse = r.noResponse /\ q.notice = FALSE /\ q.informed = r.informed
  BY DEF Good, Record, Close
<1>2. q \in Record
  BY DEF Good, Record, Close
<1> HIDE DEF q
<1>3. Good(q)
  BY <1>1, <1>2 DEF Good
<1> QED
  BY <1>1, <1>3 DEF q

(* A reply that answers the request that is out.                           *)
LEMMA ParseGood ==
  ASSUME NEW r, Good(r), NEW k \in Kinds, Answers(r, k), ~r.notice
  PROVE  Good(Parse(r, k)) /\ Parse(r, k).socket = r.socket /\ Parse(r, k).status # "queued"
<1> DEFINE q == Parse(r, k)
<1>1. /\ q.status = Done[k] /\ q.socket = r.socket /\ q.retry = 0
      /\ q.noResponse = r.noResponse /\ q.notice = r.notice
      /\ q.informed = (r.informed \/ k = "info")
  BY DEF Good, Record, Parse
<1>2. q \in Record
  BY NoRetryYet, StatusFacts, Zenon DEF Good, Record, Parse
<1>3. Done[k] \in Answered /\ Done[k] # "queued"
  BY StatusFacts DEF Kinds, Answered, Unanswered, Statuses
<1>4. k # "info" => r.informed
  BY StatusFacts DEF Kinds, Good, Answered, Answers, Unanswered, Statuses
<1>5. ~r.noResponse
  BY StatusFacts DEF Good, Answers, Kinds
<1> HIDE DEF q
<1>6. Good(q)
  BY <1>1, <1>2, <1>3, <1>4, <1>5, NoRetryYet DEF Good
<1> QED
  BY <1>1, <1>3, <1>6 DEF q
-----------------------------------------------------------------------------
(* The records of the list.                                                *)

Fit(r) == Good(r) /\ (r.status = "queued" => ~r.socket)

RecordsFit ==
  /\ rec \in [List -> Record]
  /\ \A i \in List : Fit(rec[i])
  /\ \A i \in List : rec[i].notice => cursor = 0 \/ i < cursor

Counted ==
  /\ cursor \in 0..(Servers + 1) /\ considered \in Nat /\ over \in BOOLEAN
  /\ over => cursor = 0
  /\ cursor = 0 => considered <= Servers
  /\ cursor # 0 => considered < cursor

(* A slot is in use for every socket.  (AsyncSelect's failure may close one *)
(* without its slot being given back.)                                     *)
Slots ==
  /\ used \in Nat /\ used <= MaxOutstanding
  /\ Cardinality(OpenSockets) <= used
  /\ ~SelectFails => used = Cardinality(OpenSockets)

(* A pump that has considered nothing so far has found the records it       *)
(* visited finished and has closed them; before the first one all wait.    *)
Idles == Finished \cup {"queued"}
Settled(r) == ~r.socket /\ r.status \in Idles
Returned ==
  considered = 0 => \A i \in List : cursor = 0 \/ i < cursor => Settled(rec[i])

PassInv == RecordsFit /\ Counted /\ Slots /\ Returned

LEMMA SocketsFinite ==
  /\ IsFiniteSet(OpenSockets) /\ Cardinality(OpenSockets) \in Nat
  /\ List \subseteq Nat
<1>1. IsFiniteSet(List) /\ List \subseteq Nat
  BY QueryAssumption, FS_Interval DEF List
<1>2. OpenSockets \in SUBSET List
  BY DEF OpenSockets
<1> QED
  BY <1>1, <1>2, FS_Subset, FS_CardinalityType

(* A step changes one record at most.                                      *)
Changes(i, q) ==
  /\ i \in List /\ Fit(q)
  /\ rec' = [rec EXCEPT ![i] = q]

LEMMA ChangedRecord ==
  ASSUME RecordsFit, NEW i, NEW q, Changes(i, q)
  PROVE  /\ rec' \in [List -> Record]
         /\ rec'[i] = q /\ \A j \in List \ {i} : rec'[j] = rec[j]
         /\ \A j \in List : Fit(rec'[j])
<1>1. q \in Record
  BY DEF Changes, Fit, Good
<1>2. rec' \in [List -> Record]
  BY <1>1 DEF RecordsFit, Changes
<1>3. rec'[i] = q /\ \A j \in List \ {i} : rec'[j] = rec[j]
  BY DEF RecordsFit, Changes
<1> QED
  BY <1>2, <1>3 DEF RecordsFit, Changes

LEMMA SlotsSame ==
  ASSUME PassInv, NEW i, NEW q, Changes(i, q), used' = used,
         q.socket = rec[i].socket \/ (SelectFails /\ ~q.socket)
  PROVE  Slots'
<1>0. used' \in Nat /\ used' <= MaxOutstanding
  BY DEF PassInv, Slots
<1>1. CASE q.socket = rec[i].socket
  <2>1. OpenSockets' = OpenSockets
    BY <1>1, ChangedRecord DEF PassInv, OpenSockets
  <2> QED
    BY <1>0, <2>1 DEF PassInv, Slots
<1>2. CASE SelectFails /\ ~q.socket
  <2>1. OpenSockets' \in SUBSET OpenSockets
    BY <1>2, ChangedRecord DEF PassInv, OpenSockets
  <2>2. Cardinality(OpenSockets') <= Cardinality(OpenSockets)
    BY <2>1, SocketsFinite, FS_Subset
  <2>3. Cardinality(OpenSockets') \in Nat
    BY <2>1, SocketsFinite, FS_Subset, FS_CardinalityType
  <2>4. Cardinality(OpenSockets') <= used'
    BY <2>2, <2>3, SocketsFinite DEF PassInv, Slots
  <2> QED
    BY <1>0, <1>2, <2>4 DEF Slots
<1> QED
  BY <1>1, <1>2

LEMMA SlotsTaken ==
  ASSUME PassInv, NEW i, NEW q, Changes(i, q), ~rec[i].socket, q.socket \/ SelectFails,
         FreeSlot, used' = used + 1
  PROVE  Slots'
<1>0. used' \in Nat /\ used' <= MaxOutstanding
  BY QueryAssumption DEF PassInv, Slots, FreeSlot
<1>1. CASE q.socket
  <2>1. OpenSockets' = OpenSockets \cup {i} /\ i \notin OpenSockets
    BY <1>1, ChangedRecord DEF PassInv, OpenSockets, Changes
  <2>2. Cardinality(OpenSockets') = Cardinality(OpenSockets) + 1
    BY <2>1, SocketsFinite, FS_AddElement
  <2> QED
    BY <1>0, <2>2, SocketsFinite DEF PassInv, Slots
<1>2. CASE ~q.socket
  <2>1. OpenSockets' = OpenSockets
    BY <1>2, ChangedRecord DEF PassInv, OpenSockets
  <2>2. Cardinality(OpenSockets') <= used'
    BY <2>1, SocketsFinite DEF PassInv, Slots
  <2> QED
    BY <1>0, <1>2, <2>2 DEF Slots
<1> QED
  BY <1>1, <1>2

LEMMA SlotsGiven ==
  ASSUME PassInv, NEW i, NEW q, Changes(i, q), rec[i].socket, ~q.socket, used' = used - 1
  PROVE  Slots'
<1>1. OpenSockets' = OpenSockets \ {i} /\ i \in OpenSockets
  BY ChangedRecord DEF PassInv, OpenSockets, Changes
<1>2. Cardinality(OpenSockets') = Cardinality(OpenSockets) - 1
  BY <1>1, SocketsFinite, FS_RemoveElement
<1>3. Cardinality(OpenSockets) >= 1
  BY <1>1, SocketsFinite, FS_EmptySet
<1> QED
  BY <1>2, <1>3, SocketsFinite, QueryAssumption DEF PassInv, Slots
-----------------------------------------------------------------------------
(* The pump and the messages.                                              *)

(* Pump has visited record i, which is now q.                              *)
LEMMA Visited ==
  ASSUME PassInv, NEW i \in List, NEW q, Visit(i), Changes(i, q),
         considered' = considered + 1 \/ (considered' = considered /\ Settled(q))
  PROVE  RecordsFit' /\ Counted' /\ Returned'
<1>0. /\ i \in 1..Servers /\ cursor = i /\ cursor' = i + 1 /\ over' = over
      /\ considered \in Nat /\ considered < i /\ over \in BOOLEAN /\ ~over
  BY QueryAssumption DEF Visit, List, PassInv, Counted
<1>1. List \subseteq Nat
  BY SocketsFinite
<1>2. RecordsFit'
  <2>1. ASSUME NEW j \in List, rec'[j].notice
        PROVE  j < cursor'
    <3>1. CASE j = i
      BY <1>0, <1>1, <3>1
    <3>2. CASE j # i
      <4>1. rec[j].notice
        BY <2>1, <3>2, ChangedRecord DEF PassInv
      <4>2. j < cursor
        BY <1>0, <4>1, QueryAssumption DEF PassInv, RecordsFit
      <4> QED
        BY <1>0, <1>1, <4>2
    <3> QED
      BY <3>1, <3>2
  <2> QED
    BY <2>1, ChangedRecord DEF RecordsFit, PassInv
<1>3. Counted'
  <2>1. cursor' \in 0..(Servers + 1) /\ cursor' # 0
    BY <1>0, QueryAssumption
  <2>2. considered' \in Nat /\ considered' < cursor'
    BY <1>0, QueryAssumption
  <2> QED
    BY <1>0, <2>1, <2>2 DEF Counted
<1>4. Returned'
  <2> SUFFICES ASSUME considered' = 0, NEW j \in List, j < cursor'
               PROVE  Settled(rec'[j])
    BY <1>0, QueryAssumption DEF Returned
  <2>1. considered' = considered /\ considered = 0 /\ Settled(q)
    BY <1>0
  <2>2. CASE j = i
    BY <2>1, <2>2, ChangedRecord DEF PassInv
  <2>3. CASE j # i
    <3>1. j < cursor
      BY <1>0, <1>1, <2>3
    <3> QED
      BY <2>1, <2>3, <3>1, ChangedRecord DEF PassInv, Returned
  <2> QED
    BY <2>2, <2>3
<1> QED
  BY <1>2, <1>3, <1>4

(* What Pump finds: no FD_CONNECT of this record is left in the queue.     *)
LEMMA AtRecord ==
  ASSUME PassInv, NEW i \in List, Visit(i)
  PROVE  /\ Fit(rec[i]) /\ Good(rec[i]) /\ ~rec[i].notice
         /\ rec[i].socket \in BOOLEAN
<1>1. Fit(rec[i]) /\ (rec[i].notice => cursor = 0 \/ i < cursor)
  BY DEF PassInv, RecordsFit
<1>2. cursor = i /\ i \in 1..Servers
  BY DEF Visit, List
<1>3. ~(cursor = 0 \/ i < cursor)
  BY <1>2, QueryAssumption
<1>4. Good(rec[i])
  BY <1>1 DEF Fit
<1>5. rec[i].socket \in BOOLEAN
  BY <1>4 DEF Good, Record
<1> QED
  BY <1>1, <1>3, <1>4, <1>5

LEMMA FinishedStep ==
  ASSUME PassInv, NEW i \in List, VisitFinished(i)
  PROVE  PassInv'
<1> DEFINE q == Close(rec[i])
<1>1. Visit(i) /\ rec' = [rec EXCEPT ![i] = q] /\ considered' = considered
      /\ rec[i].status \in Finished
      /\ used' = IF rec[i].socket THEN used - 1 ELSE used
  BY DEF VisitFinished, Release
<1>2. Good(q) /\ ~q.socket /\ q.status = rec[i].status
  BY <1>1, AtRecord, CloseGood
<1> HIDE DEF q
<1>3. Changes(i, q)
  BY <1>1, <1>2 DEF Changes, Fit
<1>4. Slots'
  <2>1. CASE rec[i].socket
    BY <1>1, <1>2, <1>3, <2>1, SlotsGiven
  <2>2. CASE ~rec[i].socket
    <3>1. q.socket = rec[i].socket
      <4>1. q.socket \in BOOLEAN
        BY <1>2 DEF Good, Record
      <4> QED
        BY <1>1, <1>2, <2>2, <4>1, AtRecord
    <3> QED
      BY <1>1, <1>3, <2>2, <3>1, SlotsSame
  <2> QED
    BY <2>1, <2>2
<1>5. Settled(q)
  BY <1>1, <1>2 DEF Settled, Idles
<1> QED
  BY <1>1, <1>3, <1>4, <1>5, Visited DEF PassInv

(* A visit after which the record is under way.                            *)
LEMMA VisitStep ==
  ASSUME PassInv, NEW i \in List, Visit(i), considered' = considered + 1, used' = used,
         NEW q, Good(q), q.status = "queued" => rec[i].status = "queued",
         q.socket = rec[i].socket \/ (SelectFails /\ ~q.socket),
         rec' = [rec EXCEPT ![i] = q]
  PROVE  PassInv'
<1>1. q.status = "queued" => ~q.socket
  BY AtRecord DEF Fit
<1>2. Changes(i, q)
  BY <1>1 DEF Changes, Fit
<1> QED
  BY <1>2, Visited, SlotsSame DEF PassInv

LEMMA HoldStep ==
  ASSUME PassInv, NEW i \in List, Hold(i)
  PROVE  PassInv'
<1>1. rec' = [rec EXCEPT ![i] = rec[i]]
  BY DEF Hold, PassInv, RecordsFit
<1>2. Good(rec[i])
  BY AtRecord DEF Hold
<1> QED
  BY <1>1, <1>2, VisitStep DEF Hold

LEMMA OpenFailsStep ==
  ASSUME PassInv, NEW i \in List, OpenFails(i)
  PROVE  PassInv'
<1> DEFINE r == rec[i]
           q == [r EXCEPT !.status = "idle"]
<1>1. Visit(i) /\ r.status = "queued" /\ considered' = considered + 1 /\ used' = used
      /\ rec' = [rec EXCEPT ![i] = q]
  BY DEF OpenFails, Ready
<1>2. Good(r) /\ ~r.notice
  BY <1>1, AtRecord
<1> HIDE DEF r
<1>3. /\ q.status = "idle" /\ q.socket = r.socket /\ q.notice = r.notice
      /\ q.informed = r.informed
  BY <1>2 DEF Good, Record
<1>4. q \in Record
  BY <1>2 DEF Good, Record, Statuses
<1>5. ~r.informed
  BY <1>1, <1>2 DEF Good, Answered, Unanswered
<1> HIDE DEF q
<1>6. Good(q)
  BY <1>2, <1>3, <1>4, <1>5 DEF Good, Finished, Answered
<1> QED
  BY <1>1, <1>3, <1>6, VisitStep DEF r

LEMMA OpenStep ==
  ASSUME PassInv, NEW i \in List, Open(i)
  PROVE  PassInv'
<1> DEFINE r == rec[i]
           d == [r EXCEPT !.socket = TRUE, !.retry = 0]
<1>1. Visit(i) /\ r.status = "queued" /\ considered' = considered + 1 /\ used' = used + 1
      /\ FreeSlot
  BY DEF Open, Ready
<1>2. PICK q \in Dial(d) : rec' = [rec EXCEPT ![i] = q]
  BY DEF Open
<1>3. Good(r) /\ ~r.notice /\ ~r.socket
  BY <1>1, AtRecord DEF Fit
<1> HIDE DEF r
<1>4. /\ d.status = "queued" /\ d.socket = TRUE /\ d.retry = 0 /\ d.notice = r.notice
      /\ d.informed = r.informed /\ d.noResponse = r.noResponse
  BY <1>1, <1>3 DEF Good, Record
<1>5. d \in Record
  BY <1>3, NoRetryYet, Zenon DEF Good, Record
<1>6. ~r.informed
  BY <1>1, <1>3 DEF Good, Answered, Unanswered
<1> HIDE DEF d
<1>7. Good(d)
  BY <1>1, <1>3, <1>4, <1>5, NoRetryYet DEF Good
<1>8. /\ Good(q) /\ q.status # "queued"
      /\ q.socket \/ SelectFails
  <2>1. d.status \notin Finished /\ ~d.informed /\ ~d.notice
    BY <1>3, <1>4, <1>6 DEF Finished
  <2>2. /\ Good(q) /\ q.status # "queued"
        /\ q.socket = d.socket \/ (SelectFails /\ ~q.socket)
    BY <1>2, <1>7, <2>1, DialGood
  <2> QED
    BY <1>4, <2>2
<1>9. Changes(i, q)
  BY <1>2, <1>8 DEF Changes, Fit
<1>10. Slots'
  BY <1>1, <1>3, <1>8, <1>9, SlotsTaken DEF r
<1> QED
  BY <1>1, <1>9, <1>10, Visited DEF PassInv

LEMMA AdvanceStep ==
  ASSUME PassInv, NEW i \in List, Advance(i)
  PROVE  PassInv'
<1>1. PICK q \in Drive(rec[i]) : rec' = [rec EXCEPT ![i] = q]
  BY DEF Advance
<1>2. Visit(i) /\ rec[i].status \notin Finished \cup {"queued"}
      /\ considered' = considered + 1 /\ used' = used
  BY DEF Advance
<1>3. Good(q) /\ q.socket = rec[i].socket /\ q.status # "queued"
  BY <1>1, <1>2, AtRecord, DriveGood
<1> QED
  BY <1>1, <1>2, <1>3, VisitStep

LEMMA ExpireStep ==
  ASSUME PassInv, NEW i \in List, Expire(i)
  PROVE  PassInv'
<1>1. PICK q \in TimedOut(rec[i]) : rec' = [rec EXCEPT ![i] = q]
  BY DEF Expire
<1>2. Visit(i) /\ rec[i].status \notin Finished /\ considered' = considered + 1 /\ used' = used
  BY DEF Expire
<1>3. /\ Good(q) /\ (q.status = "queued" => rec[i].status = "queued")
      /\ q.socket = rec[i].socket \/ (SelectFails /\ ~q.socket)
  BY <1>1, <1>2, AtRecord, TimedOutGood
<1> QED
  BY <1>1, <1>2, <1>3, VisitStep
(* A step beside the pump that leaves the sockets alone.                   *)
LEMMA AsideStep ==
  ASSUME PassInv, NEW i \in List, NEW q, Good(q), rec' = [rec EXCEPT ![i] = q],
         q.socket = rec[i].socket, q.status = "queued" => rec[i].status = "queued",
         rec[i].status \in Idles => q.status = rec[i].status, q.notice => rec[i].notice,
         UNCHANGED <<used, considered, cursor, over>>
  PROVE  PassInv'
<1>1. Changes(i, q)
  BY DEF Changes, Fit, PassInv, RecordsFit
<1>2. RecordsFit'
  <2>1. \A j \in List : rec'[j].notice => rec[j].notice
    BY <1>1, ChangedRecord DEF PassInv
  <2> QED
    BY <1>1, <2>1, ChangedRecord DEF PassInv, RecordsFit
<1>3. Returned'
  <2>1. \A j \in List : Settled(rec[j]) => Settled(rec'[j])
    BY <1>1, ChangedRecord DEF PassInv, Settled
  <2> QED
    BY <2>1 DEF PassInv, Returned
<1>4. Counted'
  BY DEF PassInv, Counted
<1> QED
  BY <1>1, <1>2, <1>3, <1>4, SlotsSame DEF PassInv

LEMMA OnConnectStep ==
  ASSUME PassInv, NEW i \in List, OnConnect(i)
  PROVE  PassInv'
<1> DEFINE r == rec[i]
           q == [r EXCEPT !.status = "connected", !.retry = 0, !.notice = FALSE]
<1>1. Good(r) /\ r.notice
  BY DEF PassInv, RecordsFit, Fit, OnConnect
<1>2. rec' = [rec EXCEPT ![i] = q]
  BY DEF OnConnect, PassInv, RecordsFit
<1> HIDE DEF r
<1>3. /\ q.status = "connected" /\ q.socket = r.socket /\ q.retry = 0 /\ q.notice = FALSE
      /\ q.informed = r.informed /\ q.noResponse = r.noResponse
  BY <1>1 DEF Good, Record
<1>4. "connected" \in Statuses
  BY DEF Statuses
<1>5. q \in Record
  BY <1>1, <1>4, NoRetryYet, Zenon DEF Good, Record
<1>6. ~r.informed /\ ~r.noResponse
  BY <1>1 DEF Good, Answered, Unanswered
<1> HIDE DEF q
<1>7. Good(q)
  BY <1>3, <1>5, <1>6, NoRetryYet DEF Good, Finished, Answered, Unanswered
<1>8. UNCHANGED <<used, considered, cursor, over>>
  BY DEF OnConnect
<1>9. r.status \notin Idles
  BY <1>1 DEF Good, Idles, Finished
<1> QED
  BY <1>2, <1>3, <1>7, <1>8, <1>9, AsideStep DEF r

LEMMA OnReceiveStep ==
  ASSUME PassInv, NEW i \in List, OnReceive(i)
  PROVE  PassInv'
<1>0. PICK k \in rec[i].flight : \E rest \in {rec[i].flight, rec[i].flight \ {k}} :
        rec' = [rec EXCEPT ![i] = IF Answers([rec[i] EXCEPT !.flight = rest], k)
                                  THEN Parse([rec[i] EXCEPT !.flight = rest], k)
                                  ELSE [rec[i] EXCEPT !.flight = rest]]
  BY DEF OnReceive
<1>1. PICK rest \in {rec[i].flight, rec[i].flight \ {k}} :
        rec' = [rec EXCEPT ![i] = IF Answers([rec[i] EXCEPT !.flight = rest], k)
                                  THEN Parse([rec[i] EXCEPT !.flight = rest], k)
                                  ELSE [rec[i] EXCEPT !.flight = rest]]
  BY <1>0
<1> DEFINE r == rec[i]
           d == [r EXCEPT !.flight = rest]
           q == IF Answers(d, k) THEN Parse(d, k) ELSE d
<1>2. Good(r) /\ ~r.notice /\ r.status \notin Idles
  BY StatusFacts DEF PassInv, RecordsFit, Fit, OnReceive, Kinds, Idles, Finished
<1>3. rest \in SUBSET Kinds /\ k \in Kinds
  BY <1>1, <1>2 DEF Good, Record
<1>4. rec' = [rec EXCEPT ![i] = q]
  BY <1>1
<1> HIDE DEF r
<1>5. /\ d.status = r.status /\ d.socket = r.socket /\ d.retry = r.retry
      /\ d.notice = r.notice /\ d.informed = r.informed /\ d.noResponse = r.noResponse
  BY <1>2 DEF Good, Record
<1>6. d \in Record
  BY <1>2, <1>3 DEF Good, Record
<1> HIDE DEF d
<1>7. Good(d)
  BY <1>2, <1>5, <1>6 DEF Good
<1>8. /\ Good(q) /\ q.socket = d.socket
      /\ q.status = "queued" => d.status = "queued"
      /\ q.notice => d.notice
  <2>1. CASE Answers(d, k)
    <3>1. Good(Parse(d, k)) /\ Parse(d, k).socket = d.socket /\ Parse(d, k).status # "queued"
      BY <1>2, <1>3, <1>5, <1>7, <2>1, ParseGood
    <3>2. Parse(d, k).notice = d.notice
      BY <1>6 DEF Parse, Record
    <3> QED
      BY <2>1, <3>1, <3>2
  <2>2. CASE ~Answers(d, k)
    BY <1>7, <2>2
  <2> QED
    BY <2>1, <2>2
<1>9. UNCHANGED <<used, considered, cursor, over>>
  BY DEF OnReceive
<1> HIDE DEF q
<1> QED
  BY <1>2, <1>4, <1>5, <1>8, <1>9, AsideStep DEF r

LEMMA LoseStep ==
  ASSUME PassInv, NEW i \in List, Lose(i)
  PROVE  PassInv'
<1> DEFINE r == rec[i]
<1>1. PICK k \in r.flight : rec' = [rec EXCEPT ![i] = [r EXCEPT !.flight = @ \ {k}]]
  BY DEF Lose, PassInv, RecordsFit
<1> DEFINE q == [r EXCEPT !.flight = @ \ {k}]
<1>2. Good(r)
  BY DEF PassInv, RecordsFit, Fit
<1>3. rec' = [rec EXCEPT ![i] = q]
  BY <1>1
<1> HIDE DEF r
<1>4. /\ q.status = r.status /\ q.socket = r.socket /\ q.retry = r.retry
      /\ q.notice = r.notice /\ q.informed = r.informed /\ q.noResponse = r.noResponse
  BY <1>2 DEF Good, Record
<1>5. q \in Record
  BY <1>2 DEF Good, Record
<1> HIDE DEF q
<1>6. Good(q)
  BY <1>2, <1>4, <1>5 DEF Good
<1>7. UNCHANGED <<used, considered, cursor, over>>
  BY DEF Lose
<1> QED
  BY <1>3, <1>4, <1>6, <1>7, AsideStep DEF r

LEMMA ElapseStep ==
  ASSUME PassInv, NEW i \in List, Elapse(i)
  PROVE  PassInv'
<1> DEFINE r == rec[i]
           q == [r EXCEPT !.late = TRUE]
<1>1. Good(r)
  BY DEF PassInv, RecordsFit, Fit
<1>2. rec' = [rec EXCEPT ![i] = q]
  BY DEF Elapse, PassInv, RecordsFit
<1> HIDE DEF r
<1>3. /\ q.status = r.status /\ q.socket = r.socket /\ q.retry = r.retry
      /\ q.notice = r.notice /\ q.informed = r.informed /\ q.noResponse = r.noResponse
  BY <1>1 DEF Good, Record
<1>4. q \in Record
  BY <1>1 DEF Good, Record
<1> HIDE DEF q
<1>5. Good(q)
  BY <1>1, <1>3, <1>4 DEF Good
<1>6. UNCHANGED <<used, considered, cursor, over>>
  BY DEF Elapse
<1> QED
  BY <1>2, <1>3, <1>5, <1>6, AsideStep DEF r

(* Between two pumps.                                                      *)
LEMMA BeginStep ==
  ASSUME PassInv, Begin
  PROVE  PassInv'
<1>1. Servers \in Nat /\ \A i \in List : i \in Nat /\ i >= 1
  BY QueryAssumption DEF List
<1>2. RecordsFit'
  BY DEF PassInv, RecordsFit, Begin
<1>3. Counted'
  BY <1>1 DEF PassInv, Counted, Begin
<1>4. Returned'
  BY <1>1 DEF Returned, Begin
<1>5. Slots'
  BY DEF PassInv, Slots, OpenSockets, Begin
<1> QED
  BY <1>2, <1>3, <1>4, <1>5 DEF PassInv

LEMMA EndStep ==
  ASSUME PassInv, End
  PROVE  PassInv'
<1>1. Servers \in Nat /\ \A i \in List : i \in Nat /\ i <= Servers
  BY QueryAssumption DEF List
<1>2. RecordsFit'
  BY DEF PassInv, RecordsFit, End
<1>3. Counted'
  <2>1. over' \in BOOLEAN
    BY DEF End
  <2>2. considered \in Nat /\ considered < Servers + 1
    BY <1>1 DEF PassInv, Counted, End
  <2> QED
    BY <1>1, <2>1, <2>2 DEF Counted, End
<1>4. Returned'
  <2>1. \A i \in List : i < cursor
    BY <1>1 DEF End
  <2> QED
    BY <2>1 DEF PassInv, Returned, End
<1>5. Slots'
  BY DEF PassInv, Slots, OpenSockets, End
<1> QED
  BY <1>2, <1>3, <1>4, <1>5 DEF PassInv

LEMMA NothingYet == 0 \in 0..(Servers + 1) /\ 0 <= Servers /\ 0 \in Nat
BY QueryAssumption

(* A new pass.                                                             *)
LEMMA QueryInit == Init => PassInv
<1> SUFFICES ASSUME Init PROVE PassInv
  OBVIOUS
<1>1. RecordsFit
  <2>1. Good(Queued) /\ Queued.socket = FALSE /\ Queued.notice = FALSE
    BY GoodQueued DEF Queued
  <2> HIDE DEF Queued
  <2> QED
    BY <2>1 DEF Init, RecordsFit, Fit, Good
<1>2. Counted
  BY NothingYet, Zenon DEF Init, Counted
<1>3. OpenSockets = {}
  BY DEF Init, OpenSockets, Queued
<1>4. Slots
  BY <1>3, QueryAssumption, FS_EmptySet DEF Init, Slots
<1>5. Returned
  BY DEF Init, Returned, Settled, Idles, Queued
<1> QED
  BY <1>1, <1>2, <1>4, <1>5 DEF PassInv

LEMMA ResetStep ==
  ASSUME PassInv, ResetCounters
  PROVE  PassInv'
<1>0. cursor' = 0
  BY DEF PassInv, Counted, ResetCounters
<1>1. RecordsFit'
  <2>1. Good(Queued) /\ Queued.socket = FALSE /\ Queued.notice = FALSE
    BY GoodQueued DEF Queued
  <2>2. rec' = [i \in List |-> Queued]
    BY DEF ResetCounters
  <2> HIDE DEF Queued
  <2> QED
    BY <2>1, <2>2 DEF RecordsFit, Fit, Good
<1>2. Counted'
  BY <1>0, NothingYet, Zenon DEF ResetCounters, Counted
<1>3. OpenSockets' = {}
  BY DEF ResetCounters, OpenSockets, Queued
<1>4. Slots'
  BY <1>3, QueryAssumption, FS_EmptySet DEF ResetCounters, Slots
<1>5. Returned'
  BY DEF ResetCounters, Returned, Settled, Idles, Queued
<1> QED
  BY <1>1, <1>2, <1>4, <1>5 DEF PassInv

LEMMA QueryStep == PassInv /\ [Next]_vars => PassInv'
<1> SUFFICES ASSUME PassInv, [Next]_vars PROVE PassInv'
  OBVIOUS
<1>1. CASE Pump
  <2>1. CASE Begin
    BY <2>1, BeginStep
  <2>2. CASE End
    BY <2>2, EndStep
  <2>3. ASSUME NEW i \in List, \/ VisitFinished(i) \/ Hold(i) \/ OpenFails(i)
                               \/ Open(i) \/ Advance(i) \/ Expire(i)
        PROVE  PassInv'
    BY <2>3, FinishedStep, HoldStep, OpenFailsStep, OpenStep, AdvanceStep, ExpireStep
  <2> QED
    BY <1>1, <2>1, <2>2, <2>3 DEF Pump
<1>2. CASE Cancel
  <2>1. RecordsFit' /\ Counted' /\ Returned'
    BY <1>2 DEF PassInv, RecordsFit, Counted, Returned, Cancel
  <2>2. Slots'
    BY <1>2 DEF PassInv, Slots, OpenSockets, Cancel
  <2> QED
    BY <2>1, <2>2 DEF PassInv
<1>3. CASE ResetCounters
  BY <1>3, ResetStep
<1>4. ASSUME NEW i \in List, OnConnect(i) \/ OnReceive(i) \/ Lose(i) \/ Elapse(i)
      PROVE  PassInv'
  BY <1>4, OnConnectStep, OnReceiveStep, LoseStep, ElapseStep
<1>5. CASE UNCHANGED vars
  <2>1. RecordsFit' /\ Counted' /\ Returned'
    BY <1>5 DEF vars, PassInv, RecordsFit, Counted, Returned
  <2>2. Slots'
    BY <1>5 DEF vars, PassInv, Slots, OpenSockets
  <2> QED
    BY <2>1, <2>2 DEF PassInv
<1> QED
  BY <1>1, <1>2, <1>3, <1>4, <1>5 DEF Next

LEMMA PassInvariant == Spec => []PassInv
BY QueryInit, QueryStep, PTL DEF Spec

-----------------------------------------------------------------------------
(* Every variable keeps its type: in particular no record is sent to more   *)
(* often than m_nMaxRetries allows, and the count of sockets in use never   *)
(* leaves 0..m_nMaxOutstanding, whatever fails (CRefreshDlg::Pump).        *)
THEOREM TypeCorrect == Spec => []TypeOK
<1>1. PassInv => TypeOK
  <2> SUFFICES ASSUME PassInv PROVE TypeOK
    OBVIOUS
  <2>1. rec \in [List -> Record] /\ cursor \in 0..(Servers + 1) /\ over \in BOOLEAN
    BY DEF PassInv, RecordsFit, Counted
  <2>2. used \in 0..MaxOutstanding
    BY QueryAssumption DEF PassInv, Slots
  <2>3. considered \in 0..Servers
    BY QueryAssumption DEF PassInv, Counted
  <2> QED
    BY <2>1, <2>2, <2>3 DEF TypeOK
<1> QED
  BY <1>1, PassInvariant, PTL

(* While AsyncSelect does not fail, m_nInfoRequests is the number of open   *)
(* sockets and never more than the slots of the pass.                      *)
THEOREM SlotsStayCounted ==
  ASSUME SelectFails = FALSE
  PROVE  Spec => []SlotsCounted
<1>1. PassInv => SlotsCounted
  BY DEF PassInv, Slots, SlotsCounted
<1> QED
  BY <1>1, PassInvariant, PTL

(* Whatever is lost, late or sent twice, and whenever FD_CONNECT comes, a   *)
(* server is offered for joining only if its info came in this pass, and    *)
(* none whose info came is called unresponsive or left out at the end.     *)
THEOREM VerdictsHold == Spec => []Verdict
<1>1. PassInv => Verdict
  <2> SUFFICES ASSUME PassInv, NEW i \in List
               PROVE  /\ Joinable(rec[i]) => rec[i].informed
                      /\ rec[i].noResponse => ~rec[i].informed /\ rec[i].status = "idle"
                      /\ over /\ considered = 0 /\ rec[i].informed => Joinable(rec[i])
    BY DEF Verdict
  <2>1. Good(rec[i])
    BY DEF PassInv, RecordsFit, Fit
  <2>2. rec[i].status = "dead" => rec[i].informed
    BY <2>1 DEF Good, Answered, Unanswered, Statuses
  <2>3. rec[i].noResponse => ~rec[i].informed /\ rec[i].status = "idle"
    BY <2>1 DEF Good, Answered
  <2>4. ASSUME over, considered = 0, rec[i].informed
        PROVE  rec[i].status = "dead"
    <3>1. rec[i].status \in Idles
      BY <2>4 DEF PassInv, Counted, Returned, Settled
    <3>2. rec[i].status \in Answered
      BY <2>1, <2>4 DEF Good
    <3> QED
      BY <3>1, <3>2 DEF Idles, Finished, Answered, Unanswered
  <2> QED
    BY <2>2, <2>3, <2>4 DEF Joinable
<1> QED
  BY <1>1, PassInvariant, PTL

(* A pass that ran to its end leaves no socket open and no slot in use.    *)
THEOREM EverySlotReturned ==
  ASSUME SelectFails = FALSE
  PROVE  Spec => []AllReturned
<1>1. PassInv => AllReturned
  <2> SUFFICES ASSUME PassInv, over, considered = 0
               PROVE  OpenSockets = {} /\ used = 0
    BY DEF AllReturned
  <2>1. OpenSockets = {}
    BY DEF PassInv, Counted, Returned, Settled, OpenSockets
  <2> QED
    BY <2>1, FS_EmptySet DEF PassInv, Slots
<1> QED
  BY <1>1, PassInvariant, PTL
=============================================================================
