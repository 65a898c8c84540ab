----------------------------- MODULE WonSession -----------------------------
(***************************************************************************)
(* The sessions of the peer handshake (service 203): the key a connection  *)
(* thread agrees on with a launcher, the id it is published under in the   *)
(* process-wide table, and the connections that resume it by that id       *)
(* (wonserver/wonserver_auth.cpp, and ServeConn of wonserverd_main.cpp).   *)
(*                                                                         *)
(* Connection threads share the counter of ids, which no lock guards, and  *)
(* the table, which g_sessionLock guards.  That critical section is        *)
(* initialised by whichever thread finds that it is not.                   *)
(***************************************************************************)
EXTENDS Naturals, Sequences, FiniteSets

CONSTANTS
  Conn,         \* SOCKET handles of accepted connections
  MaxSessions,  \* rows of g_sessions (64)
  IdWidth,      \* values of an unsigned short (65536)
  MaxAccepts,   \* bound: the connections launchers open
  MaxKeys,      \* bound: the handshakes launchers begin
  NoSession,    \* the launcher quotes no session
  Nobody        \* g_sessionLock is free

NoKey == 0
Session == [id: 0..(IdWidth - 1), key: Nat \ {NoKey}]

ASSUME SessionAssumption ==
  /\ MaxSessions \in Nat
  /\ IdWidth \in Nat /\ IdWidth > 1
  /\ MaxAccepts \in Nat
  /\ MaxKeys \in Nat
  /\ NoSession \notin Session
  /\ Nobody \notin Conn

VARIABLES
  pc,         \* where the ServeConn thread of a handle stands
  key,        \* sessionKey of its WonAuthSession
  sid,        \* its sessionId
  row,        \* the row SessionRegister has settled for
  table,      \* g_sessions[0 .. g_nSessions - 1]
  nextId,     \* g_nextSessionId
  lockReady,  \* g_sessionLockInit
  owner,      \* the thread inside g_sessionLock
  greeted,    \* the launcher has had the reply to its hello
  uses,       \* the session the launcher uses on the connection
  quoted,     \* the session of the request being served
  issued,     \* the sessions launchers hold
  accepted,   \* connections so far
  minted,     \* keys minted so far
  given,      \* history: the ids handed out
  clash,      \* history: 0, or an id for the second time, was handed out
  inits       \* history: times g_sessionLock was initialised

sessionVars == <<pc, key, sid, row, table, nextId, lockReady, owner, greeted, uses,
                 quoted, issued, accepted, minted, given, clash, inits>>
lockVars    == <<lockReady, owner, inits>>
idVars      == <<nextId, given, clash>>
clientVars  == <<greeted, uses, issued>>
counters    == <<accepted, minted>>

-----------------------------------------------------------------------------
(* The table. *)

WithId(rows, id) == {i \in 1..Len(rows) : rows[i].id = id}
First(S) == CHOOSE i \in S : \A j \in S : i <= j

(* SessionRegister: the row of that id, else a new one at the end, else    *)
(* none (0).                                                               *)
RowOfAppend(rows, id) ==                                           \* mutant
  IF Len(rows) < MaxSessions THEN Len(rows) + 1 ELSE 0
RowOf(rows, id) ==
  IF WithId(rows, id) # {} THEN First(WithId(rows, id))
  ELSE IF Len(rows) < MaxSessions THEN Len(rows) + 1 ELSE 0

Recorded(rows, i, s) ==
  IF i = 0 THEN rows
  ELSE IF i = Len(rows) + 1 THEN Append(rows, s)
  ELSE [rows EXCEPT ![i] = s]

HasChannel(c) == key[c] # NoKey /\ sid[c] # 0       \* WonAuth_SessionChannelKey

-----------------------------------------------------------------------------
Init ==
  /\ pc = [c \in Conn |-> "none"]
  /\ key = [c \in Conn |-> NoKey]
  /\ sid = [c \in Conn |-> 0]
  /\ row = [c \in Conn |-> 0]
  /\ table = <<>>
  /\ nextId = 1
  /\ lockReady = FALSE
  /\ owner = Nobody
  /\ greeted = [c \in Conn |-> FALSE]
  /\ uses = [c \in Conn |-> NoSession]
  /\ quoted = [c \in Conn |-> NoSession]
  /\ issued = {}
  /\ accepted = 0
  /\ minted = 0
  /\ given = {}
  /\ clash = FALSE
  /\ inits = 0

Goto(c, place) == pc' = [pc EXCEPT ![c] = place]

-----------------------------------------------------------------------------
(* Connections. *)

(* accept(), and a WonAuthSession for the thread. *)
Connect(c) ==
  /\ pc[c] = "none" /\ accepted < MaxAccepts
  /\ accepted' = accepted + 1
  /\ Goto(c, "recv")
  /\ UNCHANGED <<key, sid, row, table, lockVars, idVars, clientVars, quoted, minted>>

(* The launcher closes, or the thread has left its loop.  The launcher     *)
(* keeps its session: it may quote it on its next connection.              *)
Close(c) ==
  /\ pc[c] \in {"recv", "refused"}
  /\ Goto(c, "none")
  /\ key' = [key EXCEPT ![c] = NoKey]
  /\ sid' = [sid EXCEPT ![c] = 0]
  /\ greeted' = [greeted EXCEPT ![c] = FALSE]
  /\ uses' = [uses EXCEPT ![c] = NoSession]
  /\ quoted' = [quoted EXCEPT ![c] = NoSession]
  /\ UNCHANGED <<row, table, lockVars, idVars, issued, counters>>

-----------------------------------------------------------------------------
(* The handshake. *)

(* BuildPeerReply mints a key.  A launcher that shakes hands again has     *)
(* thrown the key of its session away, and has no request under way.       *)
PeerReply(c) ==
  /\ pc[c] = "recv" /\ ~greeted[c] /\ minted < MaxKeys
  /\ uses[c] # NoSession => uses[c] \in issued /\ \A d \in Conn : quoted[d] # uses[c]
  /\ minted' = minted + 1
  /\ key' = [key EXCEPT ![c] = minted + 1]
  /\ greeted' = [greeted EXCEPT ![c] = TRUE]
  /\ issued' = issued \ {uses[c]}
  /\ uses' = [uses EXCEPT ![c] = NoSession]
  /\ UNCHANGED <<pc, sid, row, table, lockVars, idVars, quoted, accepted>>

(* BuildPeerComplete, up to the id: the launcher proves that it has the    *)
(* key.  A connection that has an id keeps it.                             *)
PeerConfirm(c) ==
  /\ pc[c] = "recv" /\ greeted[c]
  /\ greeted' = [greeted EXCEPT ![c] = FALSE]
  /\ Goto(c, IF sid[c] = 0 THEN "id" ELSE "lock")
  /\ UNCHANGED <<key, sid, row, table, lockVars, idVars, uses, quoted, issued, counters>>

(* s->sessionId = g_nextSessionId++: the read ... *)
LoadId(c) ==
  /\ pc[c] = "id"
  /\ sid' = [sid EXCEPT ![c] = nextId]
  /\ given' = given \cup {nextId}
  /\ clash' = (clash \/ nextId = 0 \/ nextId \in given)
  /\ Goto(c, "bump")
  /\ UNCHANGED <<key, row, table, lockVars, nextId, clientVars, quoted, counters>>

(* ... and the write. *)
SuccessorWide(n) == n + 1                                          \* mutant
Successor(n) == (n + 1) % IdWidth
StoreId(c) ==
  /\ pc[c] = "bump"
  /\ nextId' = Successor(sid[c])
  /\ Goto(c, "lock")
  /\ UNCHANGED <<key, sid, row, table, lockVars, given, clash, clientVars, quoted, counters>>

(* The reply with the id; from now on the launcher has the session.        *)
PeerComplete(c) ==
  /\ pc[c] = "reply"
  /\ LET s == [id |-> sid[c], key |-> key[c]]
     IN /\ issued' = issued \cup {s}
        /\ uses' = [uses EXCEPT ![c] = s]
  /\ Goto(c, "recv")
  /\ UNCHANGED <<key, sid, row, table, lockVars, idVars, greeted, quoted, counters>>

-----------------------------------------------------------------------------
(* A request under a session. *)

(* ServeConn finds the request flagged.  Where the connection has no       *)
(* channel key yet, the session is looked up by the id in the header;      *)
(* WonAuth_SessionAdopt knows no session 0.                                *)
Request(c, s) ==
  /\ pc[c] = "recv" /\ ~greeted[c]
  /\ s \in issued /\ uses[c] \in {NoSession, s}
  /\ quoted' = [quoted EXCEPT ![c] = s]
  /\ Goto(c, IF HasChannel(c) THEN "channel" ELSE IF s.id = 0 THEN "refused" ELSE "lock")
  /\ UNCHANGED <<key, sid, row, table, lockVars, idVars, clientVars, counters>>

(* The request is decrypted with the connection's key.  With another key   *)
(* than the launcher's the thread leaves its loop.                         *)
Serve(c) ==
  /\ pc[c] = "channel"
  /\ Goto(c, IF key[c] = quoted[c].key THEN "recv" ELSE "refused")
  /\ uses' = [uses EXCEPT ![c] = quoted[c]]
  /\ quoted' = [quoted EXCEPT ![c] = NoSession]
  /\ UNCHANGED <<key, sid, row, table, lockVars, idVars, greeted, issued, counters>>

-----------------------------------------------------------------------------
(* SessionLock, and what is done inside. *)

LookAtLock(c) ==
  /\ pc[c] = "lock"
  /\ Goto(c, IF lockReady THEN "enter" ELSE "init")
  /\ UNCHANGED <<key, sid, row, table, lockVars, idVars, clientVars, quoted, counters>>

(* InitializeCriticalSection leaves the section free, whoever is in it.    *)
InitLock(c) ==
  /\ pc[c] = "init"
  /\ lockReady' = TRUE /\ owner' = Nobody /\ inits' = inits + 1
  /\ Goto(c, "enter")
  /\ UNCHANGED <<key, sid, row, table, idVars, clientVars, quoted, counters>>

EnterAnyway(c) == owner' = c                                       \* mutant
Enter(c) == owner = Nobody /\ owner' = c

EnterLock(c) ==
  /\ pc[c] = "enter"
  /\ Enter(c)
  /\ Goto(c, IF quoted[c] = NoSession THEN "scan" ELSE "find")
  /\ UNCHANGED <<key, sid, row, table, lockReady, inits, idVars, clientVars, quoted, counters>>

(* SessionRegister: the search, and the write. *)
Scan(c) ==
  /\ pc[c] = "scan"
  /\ row' = [row EXCEPT ![c] = RowOf(table, sid[c])]
  /\ Goto(c, "put")
  /\ UNCHANGED <<key, sid, table, lockVars, idVars, clientVars, quoted, counters>>

(* A row found missing is at the end, where another thread, if one is      *)
(* inside as well, may have put its own: the end found then, or the new.   *)
Places(c) ==
  {row[c]} \cup (IF row[c] \in WithId(table, sid[c]) \cup {0} THEN {} ELSE {Len(table) + 1})

Put(c) ==
  /\ pc[c] = "put"
  /\ \E i \in Places(c) : table' = Recorded(table, i, [id |-> sid[c], key |-> key[c]])
  /\ owner' = Nobody
  /\ Goto(c, "reply")
  /\ UNCHANGED <<key, sid, row, lockReady, inits, idVars, clientVars, quoted, counters>>

(* WonAuth_SessionAdopt: the key of the first row with the id, if any.     *)
Adopt(c) ==
  /\ pc[c] = "find"
  /\ owner' = Nobody
  /\ LET found == WithId(table, quoted[c].id)
     IN \/ /\ found # {}
           /\ key' = [key EXCEPT ![c] = table[First(found)].key]
           /\ sid' = [sid EXCEPT ![c] = quoted[c].id]
           /\ Goto(c, "channel")
        \/ /\ found = {}
           /\ Goto(c, "refused")
           /\ UNCHANGED <<key, sid>>
  /\ UNCHANGED <<row, table, lockReady, inits, idVars, clientVars, quoted, counters>>

-----------------------------------------------------------------------------
Thread(c) ==
  \/ LoadId(c) \/ StoreId(c) \/ PeerComplete(c)
  \/ Serve(c)
  \/ LookAtLock(c) \/ InitLock(c) \/ EnterLock(c)
  \/ Scan(c) \/ Put(c) \/ Adopt(c)

Launcher(c) ==
  \/ Connect(c) \/ Close(c)
  \/ PeerReply(c) \/ PeerConfirm(c)
  \/ \E s \in issued : Request(c, s)

(* The bound on connections is used up and every thread has ended. *)
AllGone ==
  /\ accepted = MaxAccepts /\ \A c \in Conn : pc[c] = "none"
  /\ UNCHANGED sessionVars

Next == (\E c \in Conn : Launcher(c) \/ Thread(c)) \/ AllGone

Spec == Init /\ [][Next]_sessionVars

-----------------------------------------------------------------------------
(* Properties. *)

Place == {"none", "recv", "id", "bump", "lock", "init", "enter", "scan", "put",
          "find", "reply", "channel", "refused"}
Id == 0..(IdWidth - 1)

(* Every variable stays in its range; unless g_sessionLock is initialised  *)
(* twice, no row past the end of g_sessions is written.                    *)
TypeOK ==
  /\ pc \in [Conn -> Place]
  /\ key \in [Conn -> Nat]
  /\ sid \in [Conn -> Id]
  /\ row \in [Conn -> Nat]
  /\ table \in Seq(Session) /\ (inits <= 1 => Len(table) <= MaxSessions)
  /\ nextId \in Id
  /\ lockReady \in BOOLEAN
  /\ owner \in Conn \cup {Nobody}
  /\ greeted \in [Conn -> BOOLEAN]
  /\ uses \in [Conn -> Session \cup {NoSession}]
  /\ quoted \in [Conn -> Session \cup {NoSession}]
  /\ issued \subseteq Session
  /\ accepted \in Nat /\ minted \in Nat /\ inits \in Nat
  /\ given \subseteq Id
  /\ clash \in BOOLEAN

(* What the sessions' life rests on: no more ids than rows, no id twice,   *)
(* and one initialisation of g_sessionLock.                                *)
Sound == Cardinality(given) <= MaxSessions /\ ~clash /\ inits <= 1

(* The comment on g_sessions, as far as it holds: as long as no more       *)
(* handshakes than rows have been made, and the races for the counter and  *)
(* for the lock have not been lost, a launcher that quotes its session is  *)
(* served, on whichever connection, whatever other handshakes,             *)
(* resumptions and renewals are under way.                                 *)
SessionsResume == Sound => \A c \in Conn : pc[c] # "refused"

(* The same of the sessions themselves: what a launcher has been told of   *)
(* is in the table, under one row, before it was told.                     *)
Kept ==
  Sound =>
    /\ \A s \in issued : \E i \in 1..Len(table) : table[i] = s
    /\ \A i, j \in 1..Len(table) : table[i].id = table[j].id => i = j

(* How the threads keep their books.  A thread inside g_sessionLock is its *)
(* owner; a connection's key and id are those of the session its launcher  *)
(* uses on it; an id belongs to one launcher, or to the one connection     *)
(* that is publishing it; and the row SessionRegister has found stays the  *)
(* right one until it is written.                                          *)
Waiting == {"lock", "init", "enter"}
Inside == {"scan", "put", "find"}
Registering(c) ==
  pc[c] \in {"id", "bump", "scan", "put", "reply"} \/ (pc[c] \in Waiting /\ quoted[c] = NoSession)
Shaking(c) == greeted[c] \/ Registering(c)

LockHeld ==
  /\ lockReady <=> inits > 0
  /\ inits = 0 => \A c \in Conn : pc[c] \notin Inside \cup {"enter"}
  /\ inits <= 1 => \A c \in Conn :
       /\ pc[c] \in Inside => owner = c
       /\ pc[c] = "put" => row[c] = RowOf(table, sid[c])

Quoting ==
  \A c \in Conn :
    /\ pc[c] \in {"channel", "find"} => quoted[c] # NoSession
    /\ quoted[c] # NoSession =>
         /\ pc[c] \in {"channel", "find", "refused"} \cup Waiting
         /\ quoted[c] \in issued /\ uses[c] \in {NoSession, quoted[c]}
Using ==
  \A c \in Conn :
    /\ greeted[c] => pc[c] = "recv"
    /\ Shaking(c) => uses[c] = NoSession /\ key[c] # NoKey
    /\ pc[c] \in Waiting \cup {"find"} /\ ~Shaking(c) => uses[c] = NoSession
    /\ pc[c] = "channel" => sid[c] = quoted[c].id
    /\ pc[c] # "refused" /\ uses[c] # NoSession =>
         key[c] = uses[c].key /\ sid[c] = uses[c].id
    /\ pc[c] \notin {"refused", "channel"} /\ uses[c] = NoSession /\ ~Shaking(c) =>
         key[c] = NoKey /\ sid[c] = 0

Ids ==
  /\ \A s \in issued : s.id \in given /\ s.id # 0
  /\ \A s, t \in issued : s.id = t.id => s = t
  /\ \A c \in Conn :
       /\ sid[c] # 0 => sid[c] \in given
       /\ Registering(c) /\ pc[c] # "id" => sid[c] # 0
       /\ Shaking(c) /\ sid[c] # 0 =>
            /\ \A s \in issued : s.id # sid[c]
            /\ \A d \in Conn : Shaking(d) /\ sid[d] = sid[c] => d = c
Rows ==
  /\ \A i \in 1..Len(table) : table[i].id \in given
  /\ \A c \in Conn :
       /\ pc[c] = "reply" =>
            \E i \in 1..Len(table) : table[i] = [id |-> sid[c], key |-> key[c]]
       /\ pc[c] = "channel" => key[c] = quoted[c].key

Bookkeeping ==
  /\ LockHeld /\ Quoting /\ Using
  /\ ~clash => Ids
  /\ Sound => Rows

-----------------------------------------------------------------------------
(* A claim of the code's comments that does not hold. *)

(* wonserver_auth.cpp, on g_sessionLockInit: "first use is before any      *)
(* worker thread exists", so nothing needs to guard the initialisation.    *)
InitialisedOnce == inits <= 1
=============================================================================
