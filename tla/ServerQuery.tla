---------------------------- MODULE ServerQuery ----------------------------
(***************************************************************************)
(* A refresh pass over the server list (shell/netgame/RefreshDlg.cpp): the *)
(* dialog's pump visits every record, opens a datagram socket for it while  *)
(* a slot is free, asks for its info and, when the pass wants them, its     *)
(* players and rules (ServerInfo.cpp), and gives up after some             *)
(* retransmissions.  Replies come between two pumps (HLAsyncSocket.cpp).    *)
(*                                                                         *)
(* The callers' phase masks are 2 (info) and 14 (info, players, rules): no  *)
(* pass samples pings, and every pass asks for the info.                   *)
(***************************************************************************)
EXTENDS Integers, FiniteSets

CONSTANTS
  Servers,         \* records of the list
  MaxOutstanding,  \* m_nMaxOutstanding: socket slots
  MaxRetries,      \* m_nMaxRetries
  Extras,          \* m_nPhaseMask is 14, not 2
  SelectFails      \* AsyncSelect may fail

ASSUME QueryAssumption ==
  /\ Servers \in Nat /\ MaxOutstanding \in Nat \ {0} /\ MaxRetries \in Nat
  /\ Extras \in BOOLEAN /\ SelectFails \in BOOLEAN

Kinds == {"info", "players", "rules"}
Sent == [info |-> "info sent", players |-> "players sent", rules |-> "rules sent"]
Done == [info |-> "info done", players |-> "players done", rules |-> "rules done"]
Statuses == {"idle", "queued", "connect retry", "connected", "info sent", "info done",
             "players sent", "players done", "rules sent", "rules done", "dead"}
Finished == {"idle", "dead"}
Unanswered == {"queued", "connect retry", "connected", "info sent"}

(* A record: its status, whether it has a socket, m_nRetry, whether its     *)
(* state has timed out, m_bNoResponse, an FD_CONNECT message still in the   *)
(* queue, the replies on their way; and, as history, whether its info came  *)
(* in this pass.                                                           *)
Record == [status: Statuses, socket: BOOLEAN, retry: 0..(MaxRetries + 1), late: BOOLEAN,
           noResponse: BOOLEAN, notice: BOOLEAN, flight: SUBSET Kinds,
           informed: BOOLEAN]

VARIABLES
  rec,         \* the records
  used,        \* m_nInfoRequests
  considered,  \* m_nConsidered
  cursor,      \* the record Pump visits next; 0 between two pumps
  over         \* the dialog has closed
vars == <<rec, used, considered, cursor, over>>

List == 1..Servers
Queued == [status |-> "queued", socket |-> FALSE, retry |-> 0, late |-> FALSE,
           noResponse |-> FALSE, notice |-> FALSE, flight |-> {},
           informed |-> FALSE]

Init ==
  /\ rec = [i \in List |-> Queued]
  /\ used = 0 /\ considered = 0 /\ cursor = 0 /\ over = FALSE

-----------------------------------------------------------------------------
(* CServerInfo                                                             *)

Close(r) == [r EXCEPT !.socket = FALSE, !.notice = FALSE, !.flight = {}]

Request(r, k) == [r EXCEPT !.status = Sent[k], !.flight = @ \cup {k}, !.late = FALSE]

(* Connect: the select fails, the connect fails, or it succeeds and the     *)
(* system may say so in a message as well.                                 *)
Connect(r) ==
  {[r EXCEPT !.status = "connect retry"]}
  \cup {[r EXCEPT !.status = "connected", !.notice = n] : n \in BOOLEAN}
  \cup (IF SelectFails THEN {[Close(r) EXCEPT !.status = "idle"]} ELSE {})

-----------------------------------------------------------------------------
(* CRefreshDlg::Pump, one record.                                          *)

AskExtra(r) ==                                 \* a server without players has none to ask
  {[r EXCEPT !.status = "players done"]}
  \cup (IF Extras THEN {[Request(r, "players") EXCEPT !.retry = 0]} ELSE {})

(* What a record that has not timed out does next.                         *)
Drive(r) ==
  CASE r.status = "connected"    -> {Request(r, "info")}
    [] r.status = "info done"    -> AskExtra(r)
    [] r.status = "players done" ->
         {IF Extras THEN Request(r, "rules") ELSE [r EXCEPT !.status = "dead"]}
    [] r.status = "rules done"   -> {[r EXCEPT !.status = "dead"]}
    [] OTHER                     -> {r}

Dial(r) ==
  UNION {IF c.status = "connected" THEN Drive([c EXCEPT !.late = FALSE, !.retry = 0]) ELSE {c}
           : c \in Connect(r)}

AnsweredLate(r) == r.status \in Unanswered \cup {"info done"}            \* mutant
NeverAnswered(r) == r.status \in Unanswered

GiveUp(r) ==
  IF NeverAnswered(r) THEN [r EXCEPT !.status = "idle", !.noResponse = TRUE]
                      ELSE [r EXCEPT !.status = "dead"]

(* A state that timed out is sent again until the retries are spent; the    *)
(* clock is not set again for a state that has nothing to send.            *)
TimedOut(r) ==
  LET again == [r EXCEPT !.retry = @ + 1]
  IN IF r.retry >= MaxRetries THEN {GiveUp(again)}
     ELSE IF r.status = "connect retry" THEN Connect([again EXCEPT !.late = FALSE])
     ELSE {IF \E k \in Kinds : r.status = Sent[k]
           THEN Request(again, CHOOSE k \in Kinds : r.status = Sent[k])
           ELSE again}

Visit(i) ==
  /\ cursor = i /\ cursor' = i + 1
  /\ UNCHANGED over

(* Finished or written off: the socket goes back.                          *)
ReleaseUncounted(i) == rec' = [rec EXCEPT ![i] = Close(@)] /\ UNCHANGED used    \* mutant
Release(i) ==
  /\ rec' = [rec EXCEPT ![i] = Close(@)]
  /\ used' = IF rec[i].socket THEN used - 1 ELSE used

VisitFinished(i) ==
  /\ Visit(i) /\ rec[i].status \in Finished
  /\ Release(i)
  /\ UNCHANGED considered

AnySlot == used <= MaxOutstanding                                         \* mutant
FreeSlot == used < MaxOutstanding

Ready(i) == rec[i].status = "queued" /\ ~rec[i].late

Hold(i) ==
  /\ Visit(i) /\ Ready(i) /\ ~FreeSlot
  /\ considered' = considered + 1
  /\ UNCHANGED <<rec, used>>

OpenFails(i) ==
  /\ Visit(i) /\ Ready(i) /\ FreeSlot
  /\ rec' = [rec EXCEPT ![i].status = "idle"]
  /\ considered' = considered + 1
  /\ UNCHANGED used

Open(i) ==
  /\ Visit(i) /\ Ready(i) /\ FreeSlot
  /\ \E r \in Dial([rec[i] EXCEPT !.socket = TRUE, !.retry = 0]) : rec' = [rec EXCEPT ![i] = r]
  /\ used' = used + 1
  /\ considered' = considered + 1

Advance(i) ==
  /\ Visit(i) /\ rec[i].status \notin Finished \cup {"queued"} /\ ~rec[i].late
  /\ \E r \in Drive(rec[i]) : rec' = [rec EXCEPT ![i] = r]
  /\ considered' = considered + 1
  /\ UNCHANGED used

Expire(i) ==
  /\ Visit(i) /\ rec[i].status \notin Finished /\ rec[i].late
  /\ \E r \in TimedOut(rec[i]) : rec' = [rec EXCEPT ![i] = r]
  /\ considered' = considered + 1
  /\ UNCHANGED used

(* The messages that were in the queue have been handled.                  *)
Begin ==
  /\ cursor = 0 /\ ~over /\ \A i \in List : ~rec[i].notice
  /\ cursor' = 1 /\ considered' = 0
  /\ UNCHANGED <<rec, used, over>>

(* Keep going while a slot is still owed, or something was received in the  *)
(* last m_flOverallTimeout (whether it was is a choice).                   *)
End ==
  /\ cursor = Servers + 1 /\ cursor' = 0
  /\ \E quiet \in BOOLEAN : over' = (considered = 0 \/ (considered < MaxOutstanding /\ quiet))
  /\ UNCHANGED <<rec, used, considered>>

Pump == Begin \/ End \/ \E i \in List : \/ VisitFinished(i) \/ Hold(i) \/ OpenFails(i)
                                        \/ Open(i) \/ Advance(i) \/ Expire(i)

-----------------------------------------------------------------------------
(* CHLAsyncSocket: messages of the sockets, between two pumps.             *)

OnConnect(i) ==
  /\ cursor = 0 /\ rec[i].notice
  /\ rec' = [rec EXCEPT ![i].status = "connected", ![i].retry = 0, ![i].notice = FALSE]
  /\ UNCHANGED <<used, considered, cursor, over>>

(* A datagram is read while a request is out, whatever it is, and counts    *)
(* when it answers that request; it may have been sent twice.              *)
Answers(r, k) == r.status = Sent[k]

Parse(r, k) == [r EXCEPT !.status = Done[k], !.retry = 0, !.informed = (@ \/ k = "info")]

OnReceive(i) ==
  /\ cursor = 0 /\ ~rec[i].notice /\ \E k \in Kinds : rec[i].status = Sent[k]
  /\ \E k \in rec[i].flight : \E rest \in {rec[i].flight, rec[i].flight \ {k}} :
       LET r == [rec[i] EXCEPT !.flight = rest]
       IN rec' = [rec EXCEPT ![i] = IF Answers(r, k) THEN Parse(r, k) ELSE r]
  /\ UNCHANGED <<used, considered, cursor, over>>

Lose(i) ==
  /\ \E k \in rec[i].flight : rec' = [rec EXCEPT ![i].flight = @ \ {k}]
  /\ UNCHANGED <<used, considered, cursor, over>>

-----------------------------------------------------------------------------
(* ServerBrowser_CollectJoinable: who a quick join may choose.  Its other   *)
(* tests look at what the replies said.                                    *)
Joinable(r) == r.status = "dead" /\ ~r.noResponse

-----------------------------------------------------------------------------
(* Time, and the user.                                                     *)

Elapse(i) ==
  /\ rec[i].status \notin Finished /\ ~rec[i].late
  /\ rec' = [rec EXCEPT ![i].late = TRUE]
  /\ UNCHANGED <<used, considered, cursor, over>>

Cancel ==
  /\ cursor = 0 /\ ~over /\ over' = TRUE
  /\ UNCHANGED <<rec, used, considered, cursor>>

(* OnInitDialog of the next pass: every socket is closed, every record is   *)
(* queued and the counts start again.                                      *)
ResetCounters ==
  /\ over /\ over' = FALSE
  /\ rec' = [i \in List |-> Queued]
  /\ used' = 0 /\ considered' = 0
  /\ UNCHANGED cursor

Next ==
  \/ Pump \/ Cancel \/ ResetCounters
  \/ \E i \in List : OnConnect(i) \/ OnReceive(i) \/ Lose(i) \/ Elapse(i)

Spec == Init /\ [][Next]_vars

(* The popup pumps and handles its messages, and the clock runs.  A queued  *)
(* record's clock is set again at every pump that finds no slot for it.     *)
Waits(i) == rec[i].status # "queued" /\ Elapse(i)
FairSpec ==
  /\ Spec
  /\ WF_vars(Pump)
  /\ \A i \in List : WF_vars(OnConnect(i)) /\ WF_vars(Waits(i))
-----------------------------------------------------------------------------
TypeOK ==
  /\ rec \in [List -> Record]
  /\ used \in 0..MaxOutstanding /\ considered \in 0..Servers /\ cursor \in 0..(Servers + 1)
  /\ over \in BOOLEAN

OpenSockets == {i \in List : rec[i].socket}

(* The pass counts exactly the sockets it holds, never more than its slots, *)
(* through every retry, expiry and release (m_nInfoRequests).              *)
SlotsCounted == used = Cardinality(OpenSockets) /\ used <= MaxOutstanding

(* The verdict on a server.  The code joins by it: a server is offered     *)
(* only if its info came in this pass, although "dead" also ends a query    *)
(* whose players or rules never came, and is documented as an unreachable   *)
(* server.  "No response" is said only of a server whose info did not come. *)
(* And when a pass has run to its end every server whose info came is       *)
(* offered, whatever came late, twice or not at all (Pump, OnReceive,       *)
(* OnConnect, ServerBrowser_CollectJoinable).                              *)
Verdict ==
  /\ \A i \in List : Joinable(rec[i]) => rec[i].informed
  /\ \A i \in List : rec[i].noResponse => ~rec[i].informed /\ rec[i].status = "idle"
  /\ over /\ considered = 0 => \A i \in List : rec[i].informed => Joinable(rec[i])

(* A pass that ended because nothing was left has given every socket back.  *)
AllReturned == over /\ considered = 0 => OpenSockets = {} /\ used = 0

(* A pass ends: no server, answering or not, keeps it going (Pump's         *)
(* continuation test).                                                     *)
PassEnds == ~over ~> over
=============================================================================
