-------------------------- MODULE WonSession_proofs -------------------------
(* Proofs about WonSession, for every value of its constants. *)
EXTENDS WonSession, FiniteSetTheorems, WellFoundedInduction, TLAPS

-----------------------------------------------------------------------------
(* Rows. *)

(* The first row of a set of rows is one of them. *)
LEMMA FirstIsMember ==
  ASSUME NEW S \in SUBSET Nat, S # {}
  PROVE  First(S) \in S
<1>1. \E k \in S : \A j \in S : ~(<<j, k>> \in OpToRel(<, Nat))
  BY NatLessThanWellFounded, WFMin
<1>2. PICK k \in S : \A j \in S : ~(<<j, k>> \in OpToRel(<, Nat))
  BY <1>1
<1>3. \A j \in S : ~(j < k)
  BY <1>2 DEF OpToRel
<1>4. \A j \in S : k <= j
  BY <1>3
<1> QED
  BY <1>4 DEF First

LEMMA RowType ==
  ASSUME NEW rows \in Seq(Session), NEW i \in 1..Len(rows)
  PROVE  rows[i] \in Session
OBVIOUS

LEMMA SessionFields ==
  ASSUME NEW s \in Session
  PROVE  s.id \in Id /\ s.key \in Nat /\ s.key # NoKey
BY DEF Session, Id

LEMMA MakeSession ==
  ASSUME NEW i \in Id, NEW k \in Nat, k # NoKey
  PROVE  [id |-> i, key |-> k] \in Session
BY DEF Session, Id

(* Where SessionRegister writes: the row of the id, the next one, or       *)
(* nowhere, if the table is full.                                          *)
LEMMA RowOfType ==
  ASSUME NEW rows \in Seq(Session), NEW id
  PROVE  /\ RowOf(rows, id) \in 0..(Len(rows) + 1)
         /\ RowOf(rows, id) \in 1..Len(rows) => rows[RowOf(rows, id)].id = id
         /\ RowOf(rows, id) = Len(rows) + 1 => Len(rows) < MaxSessions
         /\ RowOf(rows, id) \notin 1..Len(rows) => WithId(rows, id) = {}
         /\ RowOf(rows, id) = 0 => Len(rows) >= MaxSessions
<1>1. WithId(rows, id) \subseteq 1..Len(rows) /\ Len(rows) \in Nat /\ MaxSessions \in Nat
  BY SessionAssumption DEF WithId
<1>2. CASE WithId(rows, id) # {}
  <2>1. First(WithId(rows, id)) \in WithId(rows, id)
    BY <1>1, <1>2, FirstIsMember
  <2> QED
    BY <1>1, <1>2, <2>1 DEF RowOf, WithId
<1>3. CASE WithId(rows, id) = {}
  BY <1>1, <1>3 DEF RowOf
<1> QED
  BY <1>2, <1>3

LEMMA RecordedType ==
  ASSUME NEW rows \in Seq(Session), NEW i, NEW s \in Session
  PROVE  /\ Recorded(rows, i, s) \in Seq(Session)
         /\ Len(Recorded(rows, i, s)) = IF i = Len(rows) + 1 /\ i # 0 THEN Len(rows) + 1 ELSE Len(rows)
<1>1. CASE i = 0
  BY <1>1 DEF Recorded
<1>2. CASE i # 0 /\ i = Len(rows) + 1
  BY <1>2 DEF Recorded
<1>3. CASE i # 0 /\ i # Len(rows) + 1
  <2> DEFINE rs == [rows EXCEPT ![i] = s]
  <2>0. rows \in [1..Len(rows) -> Session] /\ Len(rows) \in Nat
    OBVIOUS
  <2>1. rs \in [1..Len(rows) -> Session] /\ Len(rows) \in Nat
    BY <2>0, Zenon
  <2>2. rs \in Seq(Session) /\ Len(rs) = Len(rows)
    BY <2>1
  <2> QED
    BY <1>3, <2>2 DEF Recorded
<1> QED
  BY <1>1, <1>2, <1>3

LEMMA RecordedRows ==
  ASSUME NEW rows \in Seq(Session), NEW i \in 1..(Len(rows) + 1), NEW s \in Session
  PROVE  LET rs == Recorded(rows, i, s)
         IN /\ i \in 1..Len(rs) /\ rs[i] = s
            /\ \A j \in 1..Len(rows) : j # i => rs[j] = rows[j]
            /\ \A j \in 1..Len(rs) : j = i \/ j \in 1..Len(rows)
            /\ \A j \in 1..Len(rows) : j \in 1..Len(rs)
<1>1. CASE i = Len(rows) + 1
  BY <1>1 DEF Recorded
<1>2. CASE i # Len(rows) + 1
  BY <1>2 DEF Recorded
<1> QED
  BY <1>1, <1>2

-----------------------------------------------------------------------------
(* Types. *)

Typed == TypeOK /\ LockHeld /\ Quoting /\ Using

LEMMA InitTyped == Init => Typed
<1> SUFFICES ASSUME Init PROVE Typed
  OBVIOUS
<1>1. TypeOK
  <2>1. table \in Seq(Session) /\ Len(table) <= MaxSessions
    BY SessionAssumption DEF Init
  <2>2. nextId \in Id /\ \A c \in Conn : sid[c] = 0 /\ 0 \in Id
    BY SessionAssumption DEF Init, Id
  <2>3. key \in [Conn -> Nat] /\ sid \in [Conn -> Id] /\ row \in [Conn -> Nat]
    BY <2>2, SessionAssumption DEF Init, NoKey, Id
  <2> QED
    BY <2>1, <2>2, <2>3 DEF Init, TypeOK, Place
<1>2. LockHeld
  BY DEF Init, LockHeld, Inside
<1>3. Quoting
  BY DEF Init, Quoting, Waiting
<1>4. Using
  BY DEF Init, Using, Waiting, Shaking, Registering, NoKey
<1> QED
  BY <1>1, <1>2, <1>3, <1>4 DEF Typed

LEMMA TypeStep ==
  ASSUME Typed, [Next]_sessionVars
  PROVE  TypeOK'
<1> USE SessionAssumption
<1>0. TypeOK /\ LockHeld /\ Quoting /\ Using
  BY DEF Typed
<1>1. ASSUME NEW c \in Conn, Connect(c) PROVE TypeOK'
  BY <1>0, <1>1 DEF TypeOK, Connect, Goto, Place, lockVars, idVars, clientVars
<1>2. ASSUME NEW c \in Conn, Close(c) PROVE TypeOK'
  BY <1>0, <1>2 DEF TypeOK, Close, Goto, Place, lockVars, idVars, counters, NoKey, Id
<1>3. ASSUME NEW c \in Conn, PeerReply(c) PROVE TypeOK'
  BY <1>0, <1>3 DEF TypeOK, PeerReply, lockVars, idVars
<1>4. ASSUME NEW c \in Conn, PeerConfirm(c) PROVE TypeOK'
  BY <1>0, <1>4 DEF TypeOK, PeerConfirm, Goto, Place, lockVars, idVars, counters
<1>5. ASSUME NEW c \in Conn, LoadId(c) PROVE TypeOK'
  BY <1>0, <1>5 DEF TypeOK, LoadId, Goto, Place, lockVars, clientVars, counters
<1>6. ASSUME NEW c \in Conn, StoreId(c) PROVE TypeOK'
  <2>1. sid[c] \in Nat
    BY <1>0 DEF TypeOK, Id
  <2>2. Successor(sid[c]) \in Id
    BY <2>1 DEF Successor, Id
  <2> QED
    BY <1>0, <1>6, <2>2 DEF TypeOK, StoreId, Goto, Place, lockVars, clientVars, counters
<1>7. ASSUME NEW c \in Conn, PeerComplete(c) PROVE TypeOK'
  <2>1. key[c] # NoKey /\ key[c] \in Nat /\ sid[c] \in Id
    BY <1>0, <1>7 DEF TypeOK, PeerComplete, Using, Shaking, Registering
  <2>2. [id |-> sid[c], key |-> key[c]] \in Session
    BY <2>1, MakeSession
  <2> QED
    BY <1>0, <1>7, <2>2 DEF TypeOK, PeerComplete, Goto, Place, lockVars, idVars, counters
<1>8. ASSUME NEW c \in Conn, NEW s \in issued, Request(c, s) PROVE TypeOK'
  BY <1>0, <1>8 DEF TypeOK, Request, Goto, Place, lockVars, idVars, clientVars, counters
<1>9. ASSUME NEW c \in Conn, Serve(c) PROVE TypeOK'
  BY <1>0, <1>9 DEF TypeOK, Serve, Goto, Place, lockVars, idVars, counters
<1>10. ASSUME NEW c \in Conn, LookAtLock(c) PROVE TypeOK'
  BY <1>0, <1>10 DEF TypeOK, LookAtLock, Goto, Place, lockVars, idVars, clientVars, counters
<1>11. ASSUME NEW c \in Conn, InitLock(c) PROVE TypeOK'
  BY <1>0, <1>11 DEF TypeOK, InitLock, Goto, Place, idVars, clientVars, counters
<1>12. ASSUME NEW c \in Conn, EnterLock(c) PROVE TypeOK'
  BY <1>0, <1>12 DEF TypeOK, EnterLock, Enter, Goto, Place, idVars, clientVars, counters
<1>13. ASSUME NEW c \in Conn, Scan(c) PROVE TypeOK'
  <2>1. RowOf(table, sid[c]) \in Nat
    BY <1>0, RowOfType DEF TypeOK
  <2> QED
    BY <1>0, <1>13, <2>1 DEF TypeOK, Scan, Goto, Place, lockVars, idVars, clientVars, counters
<1>14. ASSUME NEW c \in Conn, Put(c) PROVE TypeOK'
  <2>1. key[c] # NoKey /\ key[c] \in Nat /\ sid[c] \in Id
    BY <1>0, <1>14 DEF TypeOK, Put, Using, Shaking, Registering
  <2> DEFINE s == [id |-> sid[c], key |-> key[c]]
  <2>2. s \in Session
    BY <2>1, MakeSession
  <2>3. PICK i \in Places(c) : table' = Recorded(table, i, s)
    BY <1>14 DEF Put
  <2>4. table \in Seq(Session)
    BY <1>0 DEF TypeOK
  <2>5. table' \in Seq(Session)
    BY <2>2, <2>3, <2>4, RecordedType
  <2>6. ASSUME inits <= 1 PROVE Len(table') <= MaxSessions
    <3>1. row[c] = RowOf(table, sid[c])
      BY <1>0, <1>14, <2>6 DEF LockHeld, Put
    <3>2. i \in {row[c], Len(table) + 1}
      BY DEF Places
    <3>3. i = Len(table) + 1 => Len(table) < MaxSessions
      <4>1. row[c] \in 0..(Len(table) + 1) /\ (row[c] \in 1..Len(table) => row[c] \in WithId(table, sid[c]))
        BY <2>4, <3>1, RowOfType DEF WithId
      <4>2. row[c] = Len(table) + 1 => Len(table) < MaxSessions
        BY <2>4, <3>1, RowOfType
      <4>3. Len(table) \in Nat
        BY <2>4
      <4> QED
        BY <3>2, <4>1, <4>2, <4>3 DEF Places
    <3>4. Len(table) \in Nat /\ Len(table) <= MaxSessions
      BY <1>0, <2>4, <2>6 DEF TypeOK
    <3> QED
      BY <2>2, <2>3, <2>4, <3>3, <3>4, RecordedType
  <2> QED
    BY <1>0, <1>14, <2>5, <2>6 DEF TypeOK, Put, Goto, Place, idVars, clientVars, counters
<1>15. ASSUME NEW c \in Conn, Adopt(c) PROVE TypeOK'
  <2>1. quoted[c] \in Session
    BY <1>0, <1>15 DEF TypeOK, Adopt, Quoting
  <2>2. CASE WithId(table, quoted[c].id) = {}
    BY <1>0, <1>15, <2>2 DEF TypeOK, Adopt, Goto, Place, idVars, clientVars, counters
  <2>3. CASE WithId(table, quoted[c].id) # {}
    <3> DEFINE f == First(WithId(table, quoted[c].id))
    <3>0. WithId(table, quoted[c].id) \in SUBSET (1..Len(table)) /\ 1..Len(table) \in SUBSET Nat
      BY DEF WithId
    <3>1. f \in 1..Len(table)
      BY <2>3, <3>0, FirstIsMember
    <3>2. table \in Seq(Session)
      BY <1>0 DEF TypeOK
    <3>3. table[f].key \in Nat
      BY <3>1, <3>2, RowType, SessionFields
    <3>4. quoted[c].id \in Id
      BY <2>1, SessionFields
    <3> QED
      BY <1>0, <1>15, <2>3, <3>3, <3>4 DEF TypeOK, Adopt, Goto, Place, idVars, clientVars, counters
  <2> QED
    BY <2>2, <2>3
<1>16. CASE UNCHANGED sessionVars
  BY <1>0, <1>16 DEF TypeOK, sessionVars
<1> QED
  BY <1>1, <1>2, <1>3, <1>4, <1>5, <1>6, <1>7, <1>8, <1>9, <1>10, <1>11, <1>12, <1>13,
     <1>14, <1>15, <1>16 DEF Next, Launcher, Thread, AllGone
-----------------------------------------------------------------------------
(* How the threads keep their books: what does not depend on ids. *)

LEMMA LockStep ==
  ASSUME Typed, [Next]_sessionVars
  PROVE  LockHeld'
<1> USE SessionAssumption
<1>0. TypeOK /\ LockHeld /\ Quoting /\ Using
  BY DEF Typed
<1>1. inits \in Nat
  BY <1>0 DEF TypeOK
<1>2. ASSUME NEW c \in Conn, InitLock(c) PROVE LockHeld'
  <2>1. inits' = inits + 1 /\ lockReady' = TRUE /\ pc' = [pc EXCEPT ![c] = "enter"]
    BY <1>2 DEF InitLock, Goto
  <2>2. ASSUME inits = 0, NEW d \in Conn PROVE pc'[d] \notin Inside
    BY <1>0, <2>1, <2>2 DEF LockHeld, TypeOK, Inside
  <2>3. inits' <= 1 => inits = 0
    BY <1>1, <2>1
  <2> QED
    BY <1>1, <2>1, <2>2, <2>3 DEF LockHeld, Inside
<1>3. ASSUME NEW c \in Conn, EnterLock(c) PROVE LockHeld'
  <2>1. UNCHANGED <<lockReady, inits, row, table, sid>> /\ owner = Nobody /\ owner' = c
    BY <1>3 DEF EnterLock, Enter
  <2>2. pc' = [pc EXCEPT ![c] = IF quoted[c] = NoSession THEN "scan" ELSE "find"] /\ pc[c] = "enter"
    BY <1>3 DEF EnterLock, Goto
  <2>3. inits # 0
    BY <1>0, <2>2 DEF LockHeld
  <2>4. ASSUME inits <= 1, NEW d \in Conn, d # c PROVE pc[d] \notin Inside
    BY <1>0, <2>1, <2>4 DEF LockHeld
  <2>5. ASSUME inits <= 1, NEW d \in Conn, d # c PROVE pc'[d] \notin Inside
    BY <1>0, <2>2, <2>4, <2>5 DEF TypeOK
  <2>6. pc'[c] \in {"scan", "find"}
    BY <1>0, <2>2 DEF TypeOK
  <2> QED
    BY <1>0, <2>1, <2>3, <2>5, <2>6 DEF LockHeld, Inside
<1>4. ASSUME NEW c \in Conn, Scan(c) PROVE LockHeld'
  BY <1>0, <1>4 DEF TypeOK, LockHeld, Scan, Goto, Inside, lockVars
<1>5. ASSUME NEW c \in Conn, Put(c) \/ Adopt(c) PROVE LockHeld'
  <2>1. UNCHANGED <<lockReady, inits, row>> /\ owner' = Nobody /\ pc[c] \in Inside
    BY <1>5 DEF Put, Adopt, Inside
  <2>2. \E q \in {"reply", "channel", "refused"} : pc' = [pc EXCEPT ![c] = q]
    BY <1>5 DEF Put, Adopt, Goto
  <2>3. ASSUME inits <= 1, NEW d \in Conn PROVE pc'[d] \notin Inside
    BY <1>0, <2>1, <2>2, <2>3 DEF TypeOK, LockHeld, Inside
  <2>4. ASSUME inits = 0, NEW d \in Conn PROVE pc'[d] # "enter"
    BY <1>0, <2>1, <2>2, <2>4 DEF TypeOK, LockHeld
  <2>5. inits = 0 => inits <= 1
    OBVIOUS
  <2> QED
    BY <1>0, <2>1, <2>3, <2>4, <2>5 DEF LockHeld, Inside
<1>6. ASSUME NEW c \in Conn, LookAtLock(c) PROVE LockHeld'
  BY <1>0, <1>6 DEF TypeOK, LockHeld, LookAtLock, Goto, Inside, lockVars
<1>7. ASSUME NEW c \in Conn,
             \/ Connect(c) \/ Close(c) \/ PeerReply(c) \/ PeerConfirm(c)
             \/ LoadId(c) \/ StoreId(c) \/ PeerComplete(c)
             \/ Serve(c) \/ \E s \in issued : Request(c, s)
      PROVE  LockHeld'
  <2>1. UNCHANGED <<lockVars, row, table>>
    BY <1>7 DEF Connect, Close, PeerReply, PeerConfirm, LoadId, StoreId, PeerComplete, Serve, Request
  <2>2. \E q \in Place \ (Inside \cup {"enter"}) : pc' = [pc EXCEPT ![c] = q]
    <3>1. CASE PeerReply(c)
      BY <1>0, <3>1 DEF PeerReply, TypeOK, Place, Inside
    <3> QED
      BY <1>7, <3>1 DEF Connect, Close, PeerConfirm, LoadId, StoreId, PeerComplete, Serve,
                        Request, Goto, Place, Inside
  <2>3. \A d \in Conn : pc'[d] \in Inside \cup {"enter"} => d # c /\ pc'[d] = pc[d]
    BY <1>0, <2>2 DEF TypeOK
  <2>4. \A d \in Conn : d # c => sid'[d] = sid[d]
    BY <1>0, <1>7 DEF TypeOK, Connect, Close, PeerReply, PeerConfirm, LoadId, StoreId,
                      PeerComplete, Serve, Request
  <2> QED
    BY <1>0, <2>1, <2>3, <2>4 DEF LockHeld, Inside, lockVars
<1>8. CASE UNCHANGED sessionVars
  BY <1>0, <1>8 DEF LockHeld, sessionVars
<1> QED
  BY <1>2, <1>3, <1>4, <1>5, <1>6, <1>7, <1>8 DEF Next, Launcher, Thread, AllGone

LEMMA FlowStep ==
  ASSUME Typed, [Next]_sessionVars
  PROVE  Quoting' /\ Using'
<1> USE SessionAssumption
<1>0. TypeOK /\ LockHeld /\ Quoting /\ Using
  BY DEF Typed
<1>1. ASSUME NEW c \in Conn, Connect(c) PROVE Quoting' /\ Using'
  <2>1. Quoting'
    BY <1>0, <1>1 DEF TypeOK, Quoting, Waiting, Connect, lockVars, idVars, clientVars, Goto
  <2>2. Using'
    BY <1>0, <1>1 DEF TypeOK, Quoting, Using, Shaking, Registering, Waiting, Connect, lockVars, idVars, clientVars, Goto
  <2> QED
    BY <2>1, <2>2
<1>2. ASSUME NEW c \in Conn, Close(c) PROVE Quoting' /\ Using'
  <2>1. Quoting'
    BY <1>0, <1>2 DEF TypeOK, Quoting, Waiting, Close, lockVars, idVars, counters, Goto, NoKey
  <2>2. Using'
    BY <1>0, <1>2 DEF TypeOK, Quoting, Using, Shaking, Registering, Waiting, Close, lockVars, idVars, counters, Goto, NoKey
  <2> QED
    BY <2>1, <2>2
<1>3. ASSUME NEW c \in Conn, PeerReply(c) PROVE Quoting' /\ Using'
  <2>1. Quoting'
    BY <1>0, <1>3 DEF TypeOK, Quoting, Waiting, PeerReply, lockVars, idVars, NoKey
  <2>2. Using'
    BY <1>0, <1>3 DEF TypeOK, Quoting, Using, Shaking, Registering, Waiting, PeerReply, lockVars, idVars, NoKey
  <2> QED
    BY <2>1, <2>2
<1>4. ASSUME NEW c \in Conn, PeerConfirm(c) PROVE Quoting' /\ Using'
  <2>1. Quoting'
    BY <1>0, <1>4 DEF TypeOK, Quoting, Waiting, PeerConfirm, lockVars, idVars, counters, Goto
  <2>2. Using'
    BY <1>0, <1>4 DEF TypeOK, Quoting, Using, Shaking, Registering, Waiting, PeerConfirm, lockVars, idVars, counters, Goto
  <2> QED
    BY <2>1, <2>2
<1>5. ASSUME NEW c \in Conn, LoadId(c) PROVE Quoting' /\ Using'
  <2>1. Quoting'
    BY <1>0, <1>5 DEF TypeOK, Quoting, Waiting, LoadId, lockVars, clientVars, counters, Goto
  <2>2. Using'
    BY <1>0, <1>5 DEF TypeOK, Quoting, Using, Shaking, Registering, Waiting, LoadId, lockVars, clientVars, counters, Goto
  <2> QED
    BY <2>1, <2>2
<1>6. ASSUME NEW c \in Conn, StoreId(c) PROVE Quoting' /\ Using'
  <2>1. Quoting'
    BY <1>0, <1>6 DEF TypeOK, Quoting, Waiting, StoreId, lockVars, clientVars, counters, Goto
  <2>2. Using'
    BY <1>0, <1>6 DEF TypeOK, Quoting, Using, Shaking, Registering, Waiting, StoreId, lockVars, clientVars, counters, Goto
  <2> QED
    BY <2>1, <2>2
<1>7. ASSUME NEW c \in Conn, PeerComplete(c) PROVE Quoting' /\ Using'
  <2>1. Quoting'
    BY <1>0, <1>7 DEF TypeOK, Quoting, Waiting, PeerComplete, lockVars, idVars, counters, Goto
  <2> DEFINE s == [id |-> sid[c], key |-> key[c]]
  <2>2. s.id = sid[c] /\ s.key = key[c]
    OBVIOUS
  <2>3. /\ uses' = [uses EXCEPT ![c] = s] /\ pc[c] = "reply" /\ pc' = [pc EXCEPT ![c] = "recv"]
        /\ UNCHANGED <<key, sid, greeted, quoted>>
    BY <1>7 DEF PeerComplete, Goto
  <2> HIDE DEF s
  <2>4. ~greeted[c] /\ quoted[c] = NoSession
    BY <1>0, <2>3 DEF Quoting, Using, Waiting
  <2>6. uses'[c] = s /\ pc'[c] = "recv" /\ key'[c] = s.key /\ sid'[c] = s.id /\ ~greeted'[c]
    BY <1>0, <2>2, <2>3, <2>4 DEF TypeOK
  <2>7. s # NoSession
    <3>1. key[c] # NoKey /\ key[c] \in Nat /\ sid[c] \in Id
      BY <1>0, <2>3 DEF TypeOK, Using, Shaking, Registering
    <3> QED
      BY <3>1, MakeSession DEF s
  <2>5. Using'
    <3> SUFFICES ASSUME NEW d \in Conn PROVE Using!(d)'
      BY DEF Using
    <3>1. CASE d = c
      BY <2>6, <2>7, <3>1 DEF Using, Shaking, Registering, Waiting
    <3>2. CASE d # c
      BY <1>0, <2>3, <3>2 DEF TypeOK, Using, Shaking, Registering, Waiting
    <3> QED
      BY <3>1, <3>2
  <2> QED
    BY <2>1, <2>5
<1>8. ASSUME NEW c \in Conn, NEW s \in issued, Request(c, s) PROVE Quoting' /\ Using'
  <2>1. Quoting'
    BY <1>0, <1>8 DEF TypeOK, Quoting, Waiting, Request, lockVars, idVars, clientVars, counters,
                      Goto, HasChannel
  <2>2. s.key # NoKey /\ s # NoSession
    BY <1>0, SessionFields DEF TypeOK
  <2>3. /\ quoted' = [quoted EXCEPT ![c] = s] /\ pc[c] = "recv" /\ ~greeted[c]
        /\ uses[c] \in {NoSession, s}
        /\ UNCHANGED <<key, sid, greeted, uses>>
    BY <1>8 DEF Request, clientVars
  <2>4. pc' = [pc EXCEPT ![c] = IF HasChannel(c) THEN "channel"
                                ELSE IF s.id = 0 THEN "refused" ELSE "lock"]
    BY <1>8 DEF Request, Goto
  <2>5. ~Shaking(c)
    BY <2>3 DEF Shaking, Registering, Waiting
  <2>6. /\ uses[c] = s => key[c] = s.key /\ sid[c] = s.id
        /\ uses[c] = NoSession => key[c] = NoKey
    BY <1>0, <2>2, <2>3, <2>5 DEF Using
  <2>7. HasChannel(c) => uses[c] = s /\ sid[c] = s.id
    BY <2>3, <2>6 DEF HasChannel
  <2>8. ~HasChannel(c) /\ s.id # 0 => uses[c] = NoSession
    BY <2>2, <2>3, <2>6 DEF HasChannel
  <2>9. pc'[c] = IF HasChannel(c) THEN "channel" ELSE IF s.id = 0 THEN "refused" ELSE "lock"
    BY <1>0, <2>4 DEF TypeOK
  <2>10. quoted'[c] = s
    BY <1>0, <2>3 DEF TypeOK
  <2>11. Using'
    <3> SUFFICES ASSUME NEW d \in Conn PROVE Using!(d)'
      BY DEF Using
    <3>1. CASE d = c
      BY <1>0, <2>2, <2>3, <2>5, <2>6, <2>7, <2>8, <2>9, <2>10, <3>1
         DEF Using, Shaking, Registering, Waiting
    <3>2. CASE d # c
      BY <1>0, <2>3, <2>4, <3>2 DEF TypeOK, Using, Shaking, Registering, Waiting
    <3> QED
      BY <3>1, <3>2
  <2> QED
    BY <2>1, <2>11
<1>9. ASSUME NEW c \in Conn, Serve(c) PROVE Quoting' /\ Using'
  <2>1. Quoting'
    BY <1>0, <1>9 DEF TypeOK, Quoting, Waiting, Serve, lockVars, idVars, counters, Goto
  <2>2. Using'
    BY <1>0, <1>9 DEF TypeOK, Quoting, Using, Shaking, Registering, Waiting, Serve, lockVars, idVars, counters, Goto
  <2> QED
    BY <2>1, <2>2
<1>10. ASSUME NEW c \in Conn, LookAtLock(c) PROVE Quoting' /\ Using'
  <2>1. Quoting'
    BY <1>0, <1>10 DEF TypeOK, Quoting, Waiting, LookAtLock, lockVars, idVars, clientVars, counters, Goto
  <2>2. Using'
    BY <1>0, <1>10 DEF TypeOK, Quoting, Using, Shaking, Registering, Waiting, LookAtLock, lockVars, idVars, clientVars, counters, Goto
  <2> QED
    BY <2>1, <2>2
<1>11. ASSUME NEW c \in Conn, InitLock(c) PROVE Quoting' /\ Using'
  <2>1. Quoting'
    BY <1>0, <1>11 DEF TypeOK, Quoting, Waiting, InitLock, idVars, clientVars, counters, Goto
  <2>2. Using'
    BY <1>0, <1>11 DEF TypeOK, Quoting, Using, Shaking, Registering, Waiting, InitLock, idVars, clientVars, counters, Goto
  <2> QED
    BY <2>1, <2>2
<1>12. ASSUME NEW c \in Conn, EnterLock(c) PROVE Quoting' /\ Using'
  <2>1. Quoting'
    BY <1>0, <1>12 DEF TypeOK, Quoting, Waiting, EnterLock, idVars, clientVars, counters, Goto
  <2>2. Using'
    BY <1>0, <1>12 DEF TypeOK, Quoting, Using, Shaking, Registering, Waiting, EnterLock, idVars, clientVars, counters, Goto
  <2> QED
    BY <2>1, <2>2
<1>13. ASSUME NEW c \in Conn, Scan(c) PROVE Quoting' /\ Using'
  <2>1. Quoting'
    BY <1>0, <1>13 DEF TypeOK, Quoting, Waiting, Scan, lockVars, idVars, clientVars, counters, Goto
  <2>2. Using'
    BY <1>0, <1>13 DEF TypeOK, Quoting, Using, Shaking, Registering, Waiting, Scan, lockVars, idVars, clientVars, counters, Goto
  <2> QED
    BY <2>1, <2>2
<1>14. ASSUME NEW c \in Conn, Put(c) PROVE Quoting' /\ Using'
  <2>1. Quoting'
    BY <1>0, <1>14 DEF TypeOK, Quoting, Waiting, Put, idVars, clientVars, counters, Goto
  <2>2. Using'
    BY <1>0, <1>14 DEF TypeOK, Quoting, Using, Shaking, Registering, Waiting, Put, idVars, clientVars, counters, Goto
  <2> QED
    BY <2>1, <2>2
<1>15. ASSUME NEW c \in Conn, Adopt(c) PROVE Quoting' /\ Using'
  <2>1. Quoting'
    BY <1>0, <1>15 DEF TypeOK, Quoting, Waiting, Adopt, idVars, clientVars, counters, Goto
  <2>2. Using'
    BY <1>0, <1>15 DEF TypeOK, Quoting, Using, Shaking, Registering, Waiting, Adopt, idVars, clientVars, counters, Goto
  <2> QED
    BY <2>1, <2>2
<1>16. CASE UNCHANGED sessionVars
  BY <1>0, <1>16 DEF Quoting, Using, Shaking, Registering, sessionVars
<1> QED
  BY <1>1, <1>2, <1>3, <1>4, <1>5, <1>6, <1>7, <1>8, <1>9, <1>10, <1>11, <1>12, <1>13,
     <1>14, <1>15, <1>16 DEF Next, Launcher, Thread, AllGone

LEMMA TypedStep ==
  ASSUME Typed, [Next]_sessionVars
  PROVE  Typed'
BY TypeStep, LockStep, FlowStep DEF Typed

(* Every variable keeps its type, and no row is written past the end of    *)
(* g_sessions unless its lock is initialised twice.                        *)
THEOREM TypeCorrect == Spec => []TypeOK
<1>1. Init => Typed
  BY InitTyped
<1>2. Typed /\ [Next]_sessionVars => Typed'
  BY TypedStep
<1>3. Typed => TypeOK
  BY DEF Typed
<1> QED
  BY <1>1, <1>2, <1>3, PTL DEF Spec

-----------------------------------------------------------------------------
(* Whose an id is. *)

IdsApart == ~clash => Ids

LEMMA InitIds == Init => IdsApart
BY DEF Init, IdsApart, Ids, Shaking, Registering, Waiting

(* A step that gives nobody an id, and after which nobody is shaking hands *)
(* who was not before.                                                     *)
LEMMA QuietIds ==
  ASSUME IdsApart, UNCHANGED <<sid, issued, given, clash>>,
         \A d \in Conn :
           /\ Shaking(d)' => Shaking(d)
           /\ Registering(d)' /\ pc'[d] # "id" =>
                sid[d] # 0 \/ (Registering(d) /\ pc[d] # "id")
  PROVE  IdsApart'
BY DEF IdsApart, Ids

LEMMA IdsStep ==
  ASSUME Typed, IdsApart, [Next]_sessionVars
  PROVE  IdsApart'
<1> USE SessionAssumption
<1>0. TypeOK /\ Quoting /\ Using
  BY DEF Typed
<1>1. ASSUME NEW c \in Conn,
             \/ Connect(c) \/ PeerConfirm(c) \/ StoreId(c) \/ Serve(c)
             \/ LookAtLock(c) \/ InitLock(c) \/ EnterLock(c) \/ Scan(c) \/ Put(c)
             \/ \E s \in issued : Request(c, s)
      PROVE  IdsApart'
  <2>1. UNCHANGED <<sid, issued, given, clash>>
    BY <1>1 DEF Connect, PeerConfirm, StoreId, Serve, LookAtLock, InitLock, EnterLock, Scan, Put,
                Request, idVars, clientVars
  <2>2. ASSUME NEW d \in Conn, d # c
        PROVE  pc'[d] = pc[d] /\ greeted'[d] = greeted[d] /\ quoted'[d] = quoted[d]
    BY <1>0, <1>1, <2>2 DEF TypeOK, Connect, PeerConfirm, StoreId, Serve, LookAtLock, InitLock,
         EnterLock, Scan, Put, Request, Goto, clientVars
  <2>3. /\ Shaking(c)' => Shaking(c)
        /\ Registering(c)' /\ pc'[c] # "id" =>
             sid[c] # 0 \/ (Registering(c) /\ pc[c] # "id")
    <3>1. CASE Connect(c) \/ PeerConfirm(c) \/ StoreId(c)
      BY <1>0, <3>1 DEF TypeOK, Using, Quoting, Shaking, Registering, Waiting, Connect,
           PeerConfirm, StoreId, Goto, clientVars, IdsApart, Ids
    <3>2. CASE Serve(c) \/ \E s \in issued : Request(c, s)
      BY <1>0, <3>2 DEF TypeOK, Using, Quoting, Shaking, Registering, Waiting, Serve, Request,
           Goto, clientVars
    <3>3. CASE LookAtLock(c) \/ InitLock(c) \/ EnterLock(c)
      BY <1>0, <3>3 DEF TypeOK, Using, Quoting, Shaking, Registering, Waiting, LookAtLock,
           InitLock, EnterLock, Goto, clientVars
    <3>4. CASE Scan(c) \/ Put(c)
      BY <1>0, <3>4 DEF TypeOK, Using, Quoting, Shaking, Registering, Waiting, Scan, Put, Goto,
           clientVars
    <3> QED
      BY <1>1, <3>1, <3>2, <3>3, <3>4
  <2>4. \A d \in Conn :
          /\ Shaking(d)' => Shaking(d)
          /\ Registering(d)' /\ pc'[d] # "id" =>
               sid[d] # 0 \/ (Registering(d) /\ pc[d] # "id")
    BY <2>2, <2>3 DEF Shaking, Registering
  <2> QED
    BY <2>1, <2>4, QuietIds
<1>2. ASSUME NEW c \in Conn, Close(c) \/ Adopt(c) PROVE IdsApart'
  <2> SUFFICES ASSUME ~clash PROVE Ids'
    BY <1>2 DEF IdsApart, Close, Adopt, idVars
  <2>1. Ids
    BY DEF IdsApart
  <2>2. UNCHANGED <<issued, given>>
    BY <1>2 DEF Close, Adopt, idVars, clientVars
  <2>3. ASSUME NEW d \in Conn, d # c
        PROVE  pc'[d] = pc[d] /\ greeted'[d] = greeted[d] /\ quoted'[d] = quoted[d] /\ sid'[d] = sid[d]
    BY <1>0, <1>2, <2>3 DEF TypeOK, Close, Adopt, Goto, clientVars
  <2>4. ~Shaking(c)' /\ ~Registering(c)'
    BY <1>0, <1>2 DEF TypeOK, Using, Quoting, Close, Adopt, Goto, clientVars, Shaking, Registering, Waiting
  <2>5. sid'[c] # 0 => sid'[c] \in given
    <3>1. CASE Close(c)
      BY <1>0, <3>1 DEF TypeOK, Close
    <3>2. CASE Adopt(c)
      <4>1. quoted[c] \in issued
        BY <1>0, <3>2 DEF Quoting, Adopt
      <4>2. sid'[c] \in {sid[c], quoted[c].id}
        BY <1>0, <3>2 DEF TypeOK, Adopt
      <4> QED
        BY <2>1, <4>1, <4>2 DEF Ids
    <3> QED
      BY <1>2, <3>1, <3>2
  <2> QED
    BY <2>1, <2>2, <2>3, <2>4, <2>5 DEF Ids, Shaking, Registering
<1>3. ASSUME NEW c \in Conn, PeerReply(c) PROVE IdsApart'
  <2> SUFFICES ASSUME ~clash PROVE Ids'
    BY <1>3 DEF IdsApart, PeerReply, idVars
  <2>1. Ids
    BY DEF IdsApart
  <2>2. /\ UNCHANGED <<pc, sid, quoted, given>> /\ issued' = issued \ {uses[c]}
        /\ pc[c] = "recv" /\ ~greeted[c] /\ (uses[c] # NoSession => uses[c] \in issued)
        /\ \A d \in Conn : d # c => greeted'[d] = greeted[d]
    BY <1>0, <1>3 DEF TypeOK, PeerReply, idVars
  <2>3. sid[c] # 0 => uses[c] \in issued /\ sid[c] = uses[c].id
    BY <1>0, <2>2 DEF Using, Shaking, Registering, Waiting
  <2>4. ASSUME NEW d \in Conn, Shaking(d)', sid[d] # 0
        PROVE  /\ \A s \in issued' : s.id # sid[d]
               /\ \A e \in Conn : Shaking(e)' /\ sid[e] = sid[d] => e = d
    <3>1. ASSUME NEW e \in Conn, e # c, Shaking(e)' PROVE Shaking(e)
      BY <2>2, <3>1 DEF Shaking, Registering
    <3>2. ASSUME NEW e \in Conn, e # c, Shaking(e)', sid[c] # 0 PROVE sid[e] # sid[c]
      BY <2>1, <2>3, <3>1, <3>2 DEF Ids
    <3>3. CASE d = c
      BY <2>1, <2>2, <2>3, <2>4, <3>2, <3>3 DEF Ids
    <3>4. CASE d # c
      BY <2>1, <2>2, <2>4, <3>1, <3>2, <3>4 DEF Ids
    <3> QED
      BY <3>3, <3>4
  <2>5. \A d \in Conn : Registering(d)' <=> Registering(d)
    BY <2>2 DEF Registering
  <2> QED
    BY <2>1, <2>2, <2>4, <2>5 DEF Ids
<1>4. ASSUME NEW c \in Conn, LoadId(c) PROVE IdsApart'
  <2> SUFFICES ASSUME ~clash, nextId # 0, nextId \notin given PROVE Ids'
    BY <1>4 DEF IdsApart, LoadId
  <2>1. Ids
    BY DEF IdsApart
  <2>2. /\ UNCHANGED <<issued, greeted, quoted>> /\ given' = given \cup {nextId}
        /\ sid'[c] = nextId /\ \A d \in Conn : d # c => sid'[d] = sid[d] /\ pc'[d] = pc[d]
        /\ pc[c] = "id"
    BY <1>0, <1>4 DEF TypeOK, LoadId, Goto, clientVars
  <2>3. \A d \in Conn : Shaking(d)' => Shaking(d)
    BY <2>2 DEF Shaking, Registering
  <2>4. \A d \in Conn : d # c /\ Registering(d)' => Registering(d)
    BY <2>2 DEF Registering
  <2>5. \A d \in Conn : d # c => sid'[d] # nextId
    BY <2>1, <2>2 DEF Ids
  <2>6. \A s \in issued : s.id # nextId
    BY <2>1 DEF Ids
  <2> QED
    BY <2>1, <2>2, <2>3, <2>4, <2>5, <2>6 DEF Ids
<1>5. ASSUME NEW c \in Conn, PeerComplete(c) PROVE IdsApart'
  <2> SUFFICES ASSUME ~clash PROVE Ids'
    BY <1>5 DEF IdsApart, PeerComplete, idVars
  <2>1. Ids
    BY DEF IdsApart
  <2> DEFINE s == [id |-> sid[c], key |-> key[c]]
  <2>2. /\ UNCHANGED <<sid, given, greeted, quoted>> /\ issued' = issued \cup {s}
        /\ pc[c] = "reply" /\ pc' = [pc EXCEPT ![c] = "recv"] /\ s.id = sid[c]
    BY <1>5 DEF PeerComplete, idVars, Goto
  <2> HIDE DEF s
  <2>3. Shaking(c) /\ Registering(c) /\ ~Shaking(c)' /\ ~Registering(c)'
    BY <1>0, <2>2 DEF TypeOK, Using, Shaking, Registering, Waiting
  <2>4. \A d \in Conn : (Shaking(d)' => Shaking(d) /\ d # c) /\ (Registering(d)' => Registering(d))
                         /\ (d # c => pc'[d] = pc[d])
    BY <1>0, <2>2, <2>3 DEF TypeOK, Shaking, Registering
  <2>5. sid[c] # 0 /\ sid[c] \in given /\ \A t \in issued : t.id # sid[c]
    BY <2>1, <2>2, <2>3 DEF Ids
  <2>6. \A d \in Conn : Shaking(d)' => sid[d] # s.id
    BY <2>1, <2>2, <2>3, <2>4, <2>5 DEF Ids
  <2> QED
    BY <2>1, <2>2, <2>3, <2>4, <2>5, <2>6 DEF Ids
<1>6. CASE UNCHANGED sessionVars
  BY <1>6 DEF IdsApart, Ids, Shaking, Registering, sessionVars
<1> QED
  BY <1>1, <1>2, <1>3, <1>4, <1>5, <1>6 DEF Next, Launcher, Thread, AllGone

-----------------------------------------------------------------------------
(* What the table holds. *)

RowsApart == \A i, j \in 1..Len(table) : table[i].id = table[j].id => i = j
Recalled  == \A s \in issued : \E i \in 1..Len(table) : table[i] = s
Served    == \A c \in Conn : pc[c] # "refused"

Booked == Sound => Rows /\ RowsApart /\ Recalled /\ Served

LEMMA InitBooked == Init => Booked
BY DEF Init, Booked, Rows, RowsApart, Recalled, Served

LEMMA IdsFinite ==
  ASSUME NEW S \in SUBSET Id
  PROVE  IsFiniteSet(S) /\ Cardinality(S) \in Nat
<1>1. IdWidth - 1 \in Int
  BY SessionAssumption
<1>2. IsFiniteSet(Id)
  BY <1>1, FS_Interval DEF Id
<1> QED
  BY <1>2, FS_Subset, FS_CardinalityType

(* Once the sessions' ground is lost it stays lost. *)
LEMMA SoundBefore ==
  ASSUME Typed, [Next]_sessionVars, Sound'
  PROVE  Sound
<1>0. TypeOK /\ TypeOK'
  BY TypeStep DEF Typed
<1>1. given \subseteq given' /\ (clash => clash') /\ (inits' = inits \/ inits' = inits + 1)
  <2> DEFINE Later == given \subseteq given' /\ (clash => clash') /\ (inits' = inits \/ inits' = inits + 1)
  <2>1. ASSUME NEW c \in Conn, Launcher(c) PROVE Later
    BY <2>1 DEF Launcher, Connect, Close, PeerReply, PeerConfirm, Request, idVars, lockVars
  <2>3. ASSUME NEW c \in Conn, LoadId(c) PROVE Later
    BY <2>3 DEF LoadId, lockVars
  <2>4. ASSUME NEW c \in Conn, StoreId(c) \/ PeerComplete(c) \/ Serve(c) \/ LookAtLock(c) PROVE Later
    BY <2>4 DEF StoreId, PeerComplete, Serve, LookAtLock, idVars, lockVars
  <2>5. ASSUME NEW c \in Conn, InitLock(c) \/ EnterLock(c) \/ Scan(c) \/ Put(c) \/ Adopt(c) PROVE Later
    BY <2>5 DEF InitLock, EnterLock, Scan, Put, Adopt, idVars, lockVars
  <2>2. CASE UNCHANGED sessionVars
    BY <2>2 DEF sessionVars
  <2> QED
    BY <2>1, <2>2, <2>3, <2>4, <2>5 DEF Next, AllGone, Thread
<1>2. IsFiniteSet(given') /\ Cardinality(given') \in Nat
  BY <1>0, IdsFinite DEF TypeOK
<1>3. Cardinality(given) <= Cardinality(given') /\ Cardinality(given) \in Nat
  BY <1>0, <1>1, <1>2, FS_Subset, IdsFinite DEF TypeOK
<1>4. inits \in Nat /\ inits' \in Nat /\ MaxSessions \in Nat
  BY <1>0, SessionAssumption DEF TypeOK
<1>5. Cardinality(given') <= MaxSessions /\ ~clash' /\ inits' <= 1
  BY DEF Sound
<1> QED
  BY <1>1, <1>2, <1>3, <1>4, <1>5 DEF Sound

(* A table whose rows have ids of their own has a row left for an id that  *)
(* has none.                                                               *)
LEMMA RowLeft ==
  ASSUME Typed, Sound, Rows, RowsApart, NEW id \in given, WithId(table, id) = {}
  PROVE  Len(table) < MaxSessions
<1> DEFINE others == given \ {id}
           f == [i \in 1..Len(table) |-> table[i].id]
<1>1. Len(table) \in Nat /\ MaxSessions \in Nat
  BY SessionAssumption DEF Typed, TypeOK
<1>2. /\ IsFiniteSet(others) /\ Cardinality(others) \in Nat
      /\ Cardinality(others) < MaxSessions
  <2>1. IsFiniteSet(given) /\ Cardinality(given) \in Nat
    BY IdsFinite DEF Typed, TypeOK
  <2>2. IsFiniteSet(others) /\ Cardinality(others) = Cardinality(given) - 1
    BY <2>1, FS_RemoveElement
  <2>3. Cardinality(others) \in Nat
    BY <2>2, FS_CardinalityType
  <2> QED
    BY <1>1, <2>1, <2>2, <2>3 DEF Sound
<1>3. IsFiniteSet(1..Len(table)) /\ Cardinality(1..Len(table)) = Len(table)
  <2> DEFINE n == Len(table)
  <2> HIDE DEF n
  <2>1. n \in Nat /\ 1 \in Int /\ n \in Int
    BY <1>1 DEF n
  <2>2. IsFiniteSet(1..n) /\ Cardinality(1..n) = IF 1 > n THEN 0 ELSE n - 1 + 1
    BY <2>1, FS_Interval
  <2>3. IsFiniteSet(1..n) /\ Cardinality(1..n) = n
    BY <2>1, <2>2
  <2> QED
    BY <2>3 DEF n
<1>4. f \in [1..Len(table) -> others]
  BY DEF Rows, WithId
<1>5. \A i, j \in 1..Len(table) : f[i] = f[j] => i = j
  BY DEF RowsApart
<1> HIDE DEF f, others
<1>6. ~(Cardinality(others) < Cardinality(1..Len(table)))
  BY <1>2, <1>3, <1>4, <1>5, FS_PigeonHole
<1> QED
  BY <1>1, <1>2, <1>3, <1>6

(* A step that leaves the table alone, tells no launcher of a session, and *)
(* answers or refuses no request.                                          *)
LEMMA QuietBooks ==
  ASSUME Rows, RowsApart, Recalled, Served,
         UNCHANGED table, given \subseteq given', issued' \subseteq issued,
         \A d \in Conn :
           /\ pc'[d] # "refused"
           /\ pc'[d] = "reply" => pc[d] = "reply" /\ key'[d] = key[d] /\ sid'[d] = sid[d]
           /\ pc'[d] = "channel" => pc[d] = "channel" /\ key'[d] = key[d] /\ quoted'[d] = quoted[d]
  PROVE  Rows' /\ RowsApart' /\ Recalled' /\ Served'
<1>1. RowsApart' /\ Recalled' /\ Served'
  BY DEF RowsApart, Recalled, Served
<1>2. Rows'
  BY DEF Rows
<1> QED
  BY <1>1, <1>2

LEMMA BookedStep ==
  ASSUME Typed, IdsApart, Booked, [Next]_sessionVars
  PROVE  Booked'
<1> SUFFICES ASSUME Sound' PROVE Rows' /\ RowsApart' /\ Recalled' /\ Served'
  BY DEF Booked
<1>0. TypeOK /\ LockHeld /\ Quoting /\ Using
  BY DEF Typed
<1>1. Sound /\ Ids /\ Rows /\ RowsApart /\ Recalled /\ Served
  BY SoundBefore DEF Booked, IdsApart, Sound
<1>2. ASSUME NEW c \in Conn,
             \/ Connect(c) \/ Close(c) \/ PeerReply(c) \/ PeerConfirm(c) \/ LoadId(c) \/ StoreId(c)
             \/ LookAtLock(c) \/ InitLock(c) \/ EnterLock(c) \/ Scan(c)
      PROVE  Rows' /\ RowsApart' /\ Recalled' /\ Served'
  <2>1. UNCHANGED table /\ given \subseteq given' /\ issued' \subseteq issued
    BY <1>2 DEF Connect, Close, PeerReply, PeerConfirm, LoadId, StoreId, LookAtLock, InitLock,
         EnterLock, Scan, idVars, clientVars
  <2>2. ASSUME NEW d \in Conn, d # c
        PROVE  pc'[d] = pc[d] /\ key'[d] = key[d] /\ sid'[d] = sid[d] /\ quoted'[d] = quoted[d]
    BY <1>0, <1>2, <2>2 DEF TypeOK, Connect, Close, PeerReply, PeerConfirm, LoadId, StoreId,
         LookAtLock, InitLock, EnterLock, Scan, Goto
  <2>3. pc'[c] \notin {"refused", "reply", "channel"}
    BY <1>0, <1>2 DEF TypeOK, Connect, Close, PeerReply, PeerConfirm, LoadId, StoreId,
         LookAtLock, InitLock, EnterLock, Scan, Goto
  <2> QED
    BY <1>1, <2>1, <2>2, <2>3, QuietBooks DEF Served
<1>3. ASSUME NEW c \in Conn, PeerComplete(c)
      PROVE  Rows' /\ RowsApart' /\ Recalled' /\ Served'
  <2>1. /\ UNCHANGED <<key, sid, quoted, table, given>>
        /\ issued' = issued \cup {[id |-> sid[c], key |-> key[c]]}
        /\ pc[c] = "reply" /\ pc' = [pc EXCEPT ![c] = "recv"]
    BY <1>3 DEF PeerComplete, idVars, Goto
  <2>2. \A d \in Conn : pc'[d] \in {pc[d], "recv"}
    BY <1>0, <2>1 DEF TypeOK
  <2>3. \E i \in 1..Len(table) : table[i] = [id |-> sid[c], key |-> key[c]]
    BY <1>1, <2>1 DEF Rows
  <2>4. Recalled'
    BY <1>1, <2>1, <2>3 DEF Recalled
  <2>5. RowsApart' /\ Served'
    BY <1>1, <2>1, <2>2 DEF RowsApart, Served
  <2>6. Rows'
    BY <1>1, <2>1, <2>2 DEF Rows
  <2> QED
    BY <2>4, <2>5, <2>6
<1>4. ASSUME NEW c \in Conn, NEW s \in issued, Request(c, s)
      PROVE  Rows' /\ RowsApart' /\ Recalled' /\ Served'
  <2>1. /\ UNCHANGED <<key, sid, greeted, uses, table, given, issued>>
        /\ quoted' = [quoted EXCEPT ![c] = s] /\ uses[c] \in {NoSession, s}
        /\ pc[c] = "recv" /\ ~greeted[c]
    BY <1>4 DEF Request, idVars, clientVars
  <2>2. pc' = [pc EXCEPT ![c] = IF HasChannel(c) THEN "channel"
                                ELSE IF s.id = 0 THEN "refused" ELSE "lock"]
    BY <1>4 DEF Request, Goto
  <2>3. s.id # 0
    BY <1>1 DEF Ids
  <2>4. pc'[c] = IF HasChannel(c) THEN "channel" ELSE "lock"
    BY <1>0, <2>2, <2>3 DEF TypeOK
  <2>5. HasChannel(c) => key[c] = s.key
    BY <1>0, <2>1 DEF Using, Shaking, Registering, Waiting, HasChannel
  <2>6. quoted'[c] = s /\ \A d \in Conn : d # c => pc'[d] = pc[d] /\ quoted'[d] = quoted[d]
    BY <1>0, <2>1, <2>2 DEF TypeOK
  <2>7. RowsApart' /\ Recalled' /\ Served'
    BY <1>1, <2>1, <2>4, <2>6 DEF RowsApart, Recalled, Served
  <2>8. Rows'
    BY <1>1, <2>1, <2>4, <2>5, <2>6 DEF Rows
  <2> QED
    BY <2>7, <2>8
<1>5. ASSUME NEW c \in Conn, Serve(c)
      PROVE  Rows' /\ RowsApart' /\ Recalled' /\ Served'
  <2>1. /\ UNCHANGED <<key, sid, table, given, issued>> /\ pc[c] = "channel"
        /\ \A d \in Conn : d # c => pc'[d] = pc[d] /\ quoted'[d] = quoted[d]
    BY <1>0, <1>5 DEF TypeOK, Serve, Goto, idVars
  <2>2. key[c] = quoted[c].key
    BY <1>1, <2>1 DEF Rows
  <2>3. pc'[c] = "recv"
    BY <1>0, <1>5, <2>2 DEF TypeOK, Serve, Goto
  <2> QED
    BY <1>1, <2>1, <2>3, QuietBooks DEF Served
<1>6. ASSUME NEW c \in Conn, Adopt(c)
      PROVE  Rows' /\ RowsApart' /\ Recalled' /\ Served'
  <2> DEFINE found == WithId(table, quoted[c].id)
  <2>1. /\ UNCHANGED <<quoted, table, given, issued>> /\ pc[c] = "find"
        /\ \A d \in Conn : d # c => pc'[d] = pc[d] /\ key'[d] = key[d] /\ sid'[d] = sid[d]
    BY <1>0, <1>6 DEF TypeOK, Adopt, Goto, idVars, clientVars
  <2>2. quoted[c] \in issued
    BY <1>0, <2>1 DEF Quoting
  <2>3. PICK i \in 1..Len(table) : table[i] = quoted[c]
    BY <1>1, <2>2 DEF Recalled
  <2>4. i \in found /\ found \subseteq 1..Len(table) /\ found \in SUBSET Nat
    BY <2>3 DEF WithId
  <2>5. First(found) \in found
    BY <2>4, FirstIsMember
  <2>6. First(found) = i
    BY <1>1, <2>3, <2>4, <2>5 DEF RowsApart, WithId
  <2>7. key' = [key EXCEPT ![c] = table[First(found)].key] /\ pc' = [pc EXCEPT ![c] = "channel"]
    BY <1>6, <2>4 DEF Adopt, Goto
  <2> HIDE DEF found
  <2>8. key'[c] = quoted[c].key /\ pc'[c] = "channel"
    BY <1>0, <2>3, <2>6, <2>7 DEF TypeOK
  <2>9. RowsApart' /\ Recalled' /\ Served'
    BY <1>1, <2>1, <2>8 DEF RowsApart, Recalled, Served
  <2>10. Rows'
    BY <1>1, <2>1, <2>8 DEF Rows
  <2> QED
    BY <2>9, <2>10
<1>7. ASSUME NEW c \in Conn, Put(c)
      PROVE  Rows' /\ RowsApart' /\ Recalled' /\ Served'
  <2> DEFINE s == [id |-> sid[c], key |-> key[c]]
             r == row[c]
  <2>1. /\ UNCHANGED <<key, sid, quoted, given, issued>> /\ pc[c] = "put"
        /\ pc' = [pc EXCEPT ![c] = "reply"]
        /\ \E i \in Places(c) : table' = Recorded(table, i, s)
    BY <1>7 DEF Put, Goto, idVars, clientVars
  <2>2. /\ inits <= 1 /\ r = RowOf(table, sid[c])
        /\ \A d \in Conn : pc[d] \in Inside => d = c
    BY <1>0, <1>1, <2>1 DEF LockHeld, Sound, Inside
  <2>3. table \in Seq(Session) /\ Len(table) \in Nat
    BY <1>0 DEF TypeOK
  <2>4. sid[c] # 0 /\ sid[c] \in given /\ Shaking(c) /\ key[c] # NoKey /\ key[c] \in Nat /\ sid[c] \in Id
    BY <1>0, <1>1, <2>1 DEF Ids, Shaking, Registering, Using, TypeOK
  <2>5. s \in Session /\ s.id = sid[c] /\ s.key = key[c]
    BY <2>4, MakeSession
  <2>6. /\ r \in 1..(Len(table) + 1)
        /\ \A j \in 1..Len(table) : j # r => table[j].id # sid[c]
    <3>1. CASE WithId(table, sid[c]) = {}
      <4>1. Len(table) < MaxSessions
        BY <1>1, <2>4, <3>1, RowLeft
      <4>2. r = Len(table) + 1
        BY <2>2, <3>1, <4>1 DEF RowOf
      <4> QED
        BY <2>3, <3>1, <4>2 DEF WithId
    <3>2. CASE WithId(table, sid[c]) # {}
      <4>1. r \in 1..Len(table) /\ table[r].id = sid[c]
        BY <2>2, <2>3, <3>2, RowOfType
      <4> QED
        BY <1>1, <2>3, <4>1 DEF RowsApart
    <3> QED
      BY <3>1, <3>2
  <2>7. r \in 1..Len(table) => table[r].id = sid[c]
    BY <2>2, <2>3, RowOfType
  <2>8. table' = Recorded(table, r, s)
    <3>1. Places(c) = {r}
      BY <2>3, <2>6, <2>7 DEF Places, WithId
    <3> QED
      BY <2>1, <3>1
  <2> HIDE DEF s, r
  <2>9. /\ r \in 1..Len(table') /\ table'[r] = s
        /\ \A j \in 1..Len(table) : j # r => table'[j] = table[j]
        /\ \A j \in 1..Len(table') : j = r \/ j \in 1..Len(table)
        /\ \A j \in 1..Len(table) : j \in 1..Len(table')
    <3>1. Len(table') \in Nat /\ Len(table) \in Nat
      BY <2>3, <2>5, <2>8, RecordedType
    <3> QED
      BY <2>3, <2>5, <2>6, <2>8, <3>1, RecordedRows
  <2>10. \A j \in 1..Len(table') : j # r => table'[j].id # sid[c]
    BY <2>6, <2>9
  <2>11. RowsApart'
    BY <1>1, <2>5, <2>9, <2>10 DEF RowsApart
  <2>12. \A t : t.id # sid[c] /\ (\E i \in 1..Len(table) : table[i] = t)
                => \E i \in 1..Len(table') : table'[i] = t
    <3> SUFFICES ASSUME NEW t, t.id # sid[c], NEW i \in 1..Len(table), table[i] = t
                 PROVE  \E j \in 1..Len(table') : table'[j] = t
      OBVIOUS
    <3>1. i # r
      BY <2>7
    <3> QED
      BY <2>9, <3>1
  <2>13. Recalled'
    <3>1. \A t \in issued : t.id # sid[c]
      BY <1>1, <2>4 DEF Ids
    <3> QED
      BY <1>1, <2>1, <2>12, <3>1 DEF Recalled
  <2>14. \A d \in Conn : pc'[d] = IF d = c THEN "reply" ELSE pc[d]
    BY <1>0, <2>1 DEF TypeOK
  <2>15. Served'
    BY <1>1, <2>14 DEF Served
  <2>16. Rows'
    <3>1. \A i \in 1..Len(table') : table'[i].id \in given
      BY <1>1, <2>4, <2>5, <2>9 DEF Rows
    <3>2. ASSUME NEW d \in Conn, pc[d] = "reply", d # c
          PROVE  \E i \in 1..Len(table') : table'[i] = [id |-> sid[d], key |-> key[d]]
      <4> DEFINE t == [id |-> sid[d], key |-> key[d]]
      <4>1. Shaking(d) /\ sid[d] # 0
        BY <1>1, <3>2 DEF Shaking, Registering, Ids
      <4>2. sid[d] # sid[c]
        BY <1>1, <2>4, <3>2, <4>1 DEF Ids
      <4>3. t.id # sid[c] /\ \E i \in 1..Len(table) : table[i] = t
        BY <1>1, <3>2, <4>2 DEF Rows
      <4> HIDE DEF t
      <4>4. \E i \in 1..Len(table') : table'[i] = t
        BY <2>12, <4>3
      <4> QED
        BY <4>4 DEF t
    <3>3. \E i \in 1..Len(table') : table'[i] = [id |-> sid[c], key |-> key[c]]
      BY <2>9 DEF s
    <3> QED
      BY <1>1, <2>1, <2>14, <3>1, <3>2, <3>3 DEF Rows
  <2> QED
    BY <2>11, <2>13, <2>15, <2>16
<1>8. CASE UNCHANGED sessionVars
  BY <1>1, <1>8, QuietBooks DEF sessionVars, Served
<1> QED
  BY <1>2, <1>3, <1>4, <1>5, <1>6, <1>7, <1>8 DEF Next, Launcher, Thread, AllGone

Inv == Typed /\ IdsApart /\ Booked

LEMMA Inductive == Spec => []Inv
<1>1. Init => Inv
  BY InitTyped, InitIds, InitBooked DEF Inv
<1>2. Inv /\ [Next]_sessionVars => Inv'
  BY TypedStep, IdsStep, BookedStep DEF Inv
<1> QED
  BY <1>1, <1>2, PTL DEF Spec

(* A launcher that quotes a session it has been told of is served, on      *)
(* whichever connection, as long as there have been no more ids than rows, *)
(* no id twice, and one initialisation of the lock.                        *)
THEOREM SessionsAlwaysResume == Spec => []SessionsResume
<1>1. Inv => SessionsResume
  BY DEF Inv, Booked, Served, SessionsResume
<1> QED
  BY <1>1, Inductive, PTL

(* Every session a launcher has been told of is in the table, with its     *)
(* key, and no other row has its id.                                       *)
THEOREM SessionsKept == Spec => []Kept
<1>1. Inv => Kept
  BY DEF Inv, Booked, RowsApart, Recalled, Kept
<1> QED
  BY <1>1, Inductive, PTL

(* The threads' books: who is inside g_sessionLock, whose key a connection *)
(* has, whose an id is.                                                    *)
THEOREM BooksKept == Spec => []Bookkeeping
<1>1. Inv => Bookkeeping
  BY DEF Inv, Typed, IdsApart, Booked, Bookkeeping
<1> QED
  BY <1>1, Inductive, PTL
=============================================================================
