------------------------- MODULE CollabServerProofs -------------------------
(***************************************************************************)
(* Proofs about CollabServer for any number of peers, changes and rooms.   *)
(***************************************************************************)
EXTENDS CollabServer, TLAPS

(* The documents and room states the actions build are well-formed.        *)
LEMMA EmptyTypes == EmptyDocument \in Documents /\ EmptyRoom \in RoomStates
  BY DEF EmptyDocument, EmptyRoom, Documents, RoomStates

LEMMA CandidateType ==
  ASSUME TypeOK, NEW p \in Peers PROVE Candidate(p) \in Documents
  BY DEF TypeOK, Candidate, Documents

LEMMA RoomUpdateTypes ==
  ASSUME NEW state \in [Rooms -> RoomStates], NEW r, NEW doc \in Documents,
         NEW missed \in [Peers -> SUBSET Updates]
  PROVE  /\ [state EXCEPT ![r].doc = doc] \in [Rooms -> RoomStates]
         /\ [state EXCEPT ![r].failed = TRUE] \in [Rooms -> RoomStates]
         /\ [state EXCEPT ![r].missed = missed] \in [Rooms -> RoomStates]
         /\ [EmptyRoom EXCEPT !.doc = doc] \in RoomStates
  BY DEF RoomStates, EmptyRoom

LEMMA RoomTypes ==
  ASSUME TypeOK, NEW r \in Rooms
  PROVE  /\ rooms[r] \in RoomStates /\ rooms[r].doc \in Documents /\ rooms[r].failed \in BOOLEAN
         /\ rooms[r].doc.state \in SUBSET Updates /\ rooms[r].missed \in [Peers -> SUBSET Updates]
<1>1. rooms[r] \in RoomStates
  BY DEF TypeOK
<1>2. /\ rooms[r].doc \in Documents /\ rooms[r].failed \in BOOLEAN
      /\ rooms[r].missed \in [Peers -> SUBSET Updates]
  BY <1>1 DEF RoomStates
<1> QED
  BY <1>1, <1>2 DEF Documents

(* An activity notice, sent or failed, leaves the documents as they are.   *)
LEMMA NoticeKeeps ==
  ASSUME TypeOK, NEW p \in Peers, Notice(p), NEW r \in Rooms
  PROVE  rooms'[r].doc = rooms[r].doc /\ rooms'[r].failed = rooms[r].failed
<1>1. PICK missed : rooms' = rooms \/ rooms' = [rooms EXCEPT ![roomOf[p]].missed = missed]
  BY DEF Notice
<1>2. rooms \in [Rooms -> RoomStates]
  BY DEF TypeOK
<1> QED
  BY <1>1, <1>2 DEF RoomStates

LEMMA FailTypes ==
  ASSUME TypeOK, NEW p \in Peers, Fail(p)
  PROVE  pc' \in [Peers -> Places] /\ stopped' \in [Peers -> BOOLEAN]
  BY DEF TypeOK, Fail, Goto, Places

LEMMA AbortTypes ==
  ASSUME TypeOK, NEW p \in Peers, NEW r, AbortAndFail(p, r)
  PROVE  /\ pc' \in [Peers -> Places] /\ stopped' \in [Peers -> BOOLEAN]
         /\ rooms' \in [Rooms -> RoomStates]
  BY DEF TypeOK, AbortAndFail, Goto, Places, RoomStates

LEMMA WitnessedType ==
  ASSUME TypeOK, NEW newRow \in Documents, NEW newPerm
  PROVE  Witnessed(newRow, newPerm) \in [Peers -> SUBSET Updates]
  BY DEF TypeOK, Witnessed, Documents

(* Every action keeps every variable within its type.                      *)
LEMMA TypeStep == TypeOK /\ Located /\ [Next]_vars => TypeOK'
<1> SUFFICES ASSUME TypeOK, Located, [Next]_vars PROVE TypeOK'
  OBVIOUS
<1> USE NoneAssumption, EmptyTypes
    DEF TypeOK, Permissions, Stages, Goto, dbVars, roomVars, applyVars, historyVars
<1>a. \A place \in {"gone", "reading", "loaded", "joined", "diff", "save", "update", "closing",
                    "validated", "locked", "committed", "fanout", "sending"} : place \in Places
  BY DEF Places, Holding, InTransaction
<1>1. ASSUME NEW p \in Peers, Connect(p) PROVE TypeOK'
  BY <1>a, <1>1 DEF Connect
<1>2. ASSUME NEW p \in Peers, Authenticate(p) PROVE TypeOK'
  BY <1>a, <1>2 DEF Authenticate
<1>3. ASSUME NEW p \in Peers, Hello(p) PROVE TypeOK'
  BY <1>a, <1>3 DEF Hello
<1>4. ASSUME NEW p \in Peers, JoinNew(p) PROVE TypeOK'
  <2>1. PICK r \in Rooms :
          /\ current' = r
          /\ rooms' = [rooms EXCEPT ![r] = [EmptyRoom EXCEPT !.doc = loaded[p]]]
          /\ roomOf' = [roomOf EXCEPT ![p] = r]
    BY <1>4 DEF JoinNew
  <2>2. [EmptyRoom EXCEPT !.doc = loaded[p]] \in RoomStates
    BY RoomUpdateTypes
  <2> QED
    BY <1>a, <1>4, <2>1, <2>2 DEF JoinNew
<1>5. ASSUME NEW p \in Peers, JoinExisting(p) PROVE TypeOK'
  BY <1>a, <1>5 DEF JoinExisting
<1>6. ASSUME NEW p \in Peers, JoinStale(p) PROVE TypeOK'
  BY <1>6, AbortTypes DEF JoinStale
<1>7. ASSUME NEW p \in Peers, JoinRefused(p) PROVE TypeOK'
  BY <1>7, FailTypes DEF JoinRefused
<1>8. ASSUME NEW p \in Peers, Ready(p) PROVE TypeOK'
  BY <1>a, <1>8, FailTypes DEF Ready
<1>9. ASSUME NEW p \in Peers, NEW place \in {"diff", "save", "update"}, NEW U \in SUBSET Updates,
             Request(p, place, U)
      PROVE  TypeOK'
  BY <1>a, <1>9 DEF Request
<1>10. ASSUME NEW p \in Peers, AnswerStep1(p) PROVE TypeOK'
  <2>1. roomOf[p] \in Rooms
    BY <1>10 DEF AnswerStep1, Located
  <2>2. known' \in [Peers -> SUBSET Updates]
    BY <1>10, <2>1, RoomTypes DEF AnswerStep1, TypeOK
  <2>3. pc' \in [Peers -> Places] /\ stopped' \in [Peers -> BOOLEAN]
    BY <1>a, <1>10, FailTypes DEF AnswerStep1
  <2>4. synced' \in [Peers -> BOOLEAN]
    BY <1>10 DEF AnswerStep1
  <2> QED
    BY <1>10, <2>2, <2>3, <2>4 DEF AnswerStep1
<1>11. ASSUME NEW p \in Peers, AnswerCheckpoint(p) PROVE TypeOK'
  BY <1>a, <1>11, FailTypes DEF AnswerCheckpoint
<1>12. ASSUME NEW p \in Peers, ReadTransaction(p) PROVE TypeOK'
  <2>1. CASE ApplyRejects(p)
    BY <1>12, <2>1, FailTypes DEF ReadTransaction, ApplyRejects
  <2>2. CASE ApplyFails(p)
    BY <1>12, <2>2, AbortTypes DEF ReadTransaction, ApplyFails
  <2>3. CASE rooms' = [rooms EXCEPT ![roomOf[p]].doc = row] /\ ~ ApplyRejects(p) /\ ~ ApplyFails(p)
    <3>1. rooms' \in [Rooms -> RoomStates]
      BY <2>3, RoomUpdateTypes
    <3> QED
      BY <1>a, <1>12, <2>3, <3>1 DEF ReadTransaction
  <2>4. CASE UNCHANGED rooms /\ ~ ApplyRejects(p) /\ ~ ApplyFails(p)
    BY <1>a, <1>12, <2>4 DEF ReadTransaction
  <2> QED
    BY <1>12, <2>1, <2>2, <2>3, <2>4 DEF ReadTransaction
<1>13. ASSUME NEW p \in Peers, LockTransaction(p) PROVE TypeOK'
  BY <1>a, <1>13, FailTypes, AbortTypes DEF LockTransaction, ApplyRejects, ApplyFails
<1>14. ASSUME NEW p \in Peers, CommitTransaction(p) PROVE TypeOK'
  <2>1. row' \in Documents /\ visible' \in [Peers -> SUBSET Updates]
    BY <1>14, CandidateType, WitnessedType DEF CommitTransaction
  <2>2. rooms' \in [Rooms -> RoomStates]
    BY <1>14, CandidateType, RoomUpdateTypes DEF CommitTransaction
  <2> QED
    BY <1>a, <1>14, <2>1, <2>2 DEF CommitTransaction
<1>15. ASSUME NEW p \in Peers, CommitFails(p) PROVE TypeOK'
  <2>1. row' \in Documents /\ visible' \in [Peers -> SUBSET Updates]
    BY <1>15, CandidateType, WitnessedType DEF CommitFails
  <2> QED
    BY <1>15, <2>1, AbortTypes DEF CommitFails
<1>16. ASSUME NEW p \in Peers, Notice(p) PROVE TypeOK'
  <2> DEFINE others == {q \in Members(roomOf[p]) \ {p} : stage[q] = "ready"}
  <2>1. others \in SUBSET Peers
    BY DEF Members
  <2>2. CASE todo' = [todo EXCEPT ![p] = others] /\ UNCHANGED <<rooms, stopped>> /\ Goto(p, "fanout")
    BY <1>a, <1>16, <2>1, <2>2 DEF Notice
  <2>3. CASE /\ rooms' = [rooms EXCEPT ![roomOf[p]].missed = AlsoMissed(@, others, frame[p])]
             /\ Fail(p) /\ UNCHANGED todo
    <3> DEFINE missed == AlsoMissed(rooms[roomOf[p]].missed, others, frame[p])
    <3>1. roomOf[p] \in Rooms
      BY <1>16 DEF Notice, Located, Holding
    <3>2. missed \in [Peers -> SUBSET Updates]
      BY <3>1, RoomTypes DEF AlsoMissed
    <3> HIDE DEF missed
    <3>3. [rooms EXCEPT ![roomOf[p]].missed = missed] \in [Rooms -> RoomStates]
      BY <3>2, EmptyTypes, RoomUpdateTypes
    <3>4. rooms' = [rooms EXCEPT ![roomOf[p]].missed = missed]
      BY <2>3 DEF missed
    <3> QED
      BY <1>16, <2>3, <3>3, <3>4, FailTypes DEF Notice
  <2> QED
    BY <1>16, <2>2, <2>3 DEF Notice
<1>17. ASSUME NEW p \in Peers, NEW q \in Peers, CheckRecipient(p, q) PROVE TypeOK'
  <2>1. /\ todo' \in [Peers -> SUBSET Peers] /\ recipient' \in [Peers -> Peers \cup {None}]
    BY <1>17 DEF CheckRecipient
  <2>2. pc' \in [Peers -> Places]
    BY <1>a, <1>17 DEF CheckRecipient
  <2>3. stopped' \in [Peers -> BOOLEAN]
    BY <1>17 DEF CheckRecipient
  <2> QED
    BY <1>17, <2>1, <2>2, <2>3 DEF CheckRecipient
<1>18. ASSUME NEW p \in Peers, SendUpdate(p) PROVE TypeOK'
  <2>1. known' \in [Peers -> SUBSET Updates]
    BY <1>18 DEF SendUpdate
  <2>2. recipient' \in [Peers -> Peers \cup {None}]
    BY <1>18 DEF SendUpdate
  <2>3. pc' \in [Peers -> Places] /\ stopped' \in [Peers -> BOOLEAN]
    BY <1>a, <1>18 DEF SendUpdate
  <2> QED
    BY <1>18, <2>1, <2>2, <2>3 DEF SendUpdate
<1>19. ASSUME NEW p \in Peers, Acknowledge(p) PROVE TypeOK'
  BY <1>a, <1>19, FailTypes DEF Acknowledge
<1>20. ASSUME NEW p \in Peers, Leave(p) PROVE TypeOK'
  BY <1>a, <1>20 DEF Leave
<1>21. ASSUME NEW p \in Peers, Disconnect(p) PROVE TypeOK'
  BY <1>21, FailTypes DEF Disconnect
<1>22. ASSUME NEW p \in Peers, Maintain(p) PROVE TypeOK'
  BY <1>22 DEF Maintain, RevokeSession, ExpireSession
<1>23. ASSUME Environment PROVE TypeOK'
  <2>1. ASSUME NEW p \in Peers, NEW level \in Permissions, ChangePermission(p, level) PROVE TypeOK'
    BY <2>1, WitnessedType DEF ChangePermission
  <2>2. LoseAuthority => TypeOK'
    BY DEF LoseAuthority
  <2>5. Close => TypeOK'
    BY DEF Close, Connected
  <2>3. ASSUME NEW U \in SUBSET Updates, ForeignCommit(U) PROVE TypeOK'
    <3>1. row' \in Documents
      BY <2>3 DEF ForeignCommit, Documents
    <3> QED
      BY <2>3, <3>1, WitnessedType DEF ForeignCommit
  <2>4. ASSUME Restart PROVE TypeOK'
    BY <1>a, <2>4 DEF Restart
  <2> QED
    BY <1>23, <2>1, <2>2, <2>3, <2>4, <2>5 DEF Environment
<1>24. CASE UNCHANGED vars
  BY <1>24 DEF vars
<1> HIDE DEF TypeOK
<1> QED
  BY <1>1, <1>2, <1>3, <1>4, <1>5, <1>6, <1>7, <1>8, <1>9, <1>10, <1>11, <1>12, <1>13, <1>14, <1>15,
     <1>16, <1>17, <1>18, <1>19, <1>20, <1>21, <1>22, <1>23, <1>24 DEF Next, Client, Reader

-----------------------------------------------------------------------------
(* Where peers are.                                                        *)

LEMMA LocatedStep ==
  TypeOK /\ Located /\ FanOutStaysInRoom /\ [Next]_vars => Located'
<1> SUFFICES ASSUME TypeOK, Located, FanOutStaysInRoom, [Next]_vars PROVE Located'
  OBVIOUS
<1> USE NoneAssumption DEF TypeOK, Located, Holding, InTransaction, Goto, Fail, AbortAndFail,
        dbVars, roomVars, applyVars, historyVars
<1>1. ASSUME NEW p \in Peers, Connect(p) \/ Authenticate(p) \/ Hello(p) PROVE Located'
  BY <1>1 DEF Connect, Authenticate, Hello
<1>2. ASSUME NEW p \in Peers, JoinNew(p) \/ JoinExisting(p) PROVE Located'
  BY <1>2 DEF JoinNew, JoinExisting
<1>3. ASSUME NEW p \in Peers, JoinStale(p) \/ JoinRefused(p) \/ Ready(p) PROVE Located'
  BY <1>3 DEF JoinStale, JoinRefused, Ready
<1>4. ASSUME NEW p \in Peers, NEW place \in {"diff", "save", "update"}, NEW U \in SUBSET Updates,
             Request(p, place, U)
      PROVE  Located'
  BY <1>4 DEF Request
<1>5. ASSUME NEW p \in Peers, AnswerStep1(p) \/ AnswerCheckpoint(p) PROVE Located'
  BY <1>5 DEF AnswerStep1, AnswerCheckpoint
<1>6. ASSUME NEW p \in Peers, ReadTransaction(p) \/ LockTransaction(p) PROVE Located'
  BY <1>6 DEF ReadTransaction, LockTransaction, ApplyFails, ApplyRejects
<1>7. ASSUME NEW p \in Peers, CommitTransaction(p) \/ CommitFails(p) PROVE Located'
  BY <1>7 DEF CommitTransaction, CommitFails
<1>8. ASSUME NEW p \in Peers, Notice(p) \/ Acknowledge(p) PROVE Located'
  BY <1>8 DEF Notice, Acknowledge
<1>9. ASSUME NEW p \in Peers, NEW q \in Peers, CheckRecipient(p, q) PROVE Located'
  BY <1>9 DEF CheckRecipient
<1>10. ASSUME NEW p \in Peers, SendUpdate(p) PROVE Located'
  <2>1. recipient[p] \in Peers /\ roomOf[recipient[p]] # None
    BY <1>10 DEF SendUpdate, FanOutStaysInRoom, Members
  <2> QED
    BY <1>10, <2>1 DEF SendUpdate
<1>11. ASSUME NEW p \in Peers, Leave(p) \/ Disconnect(p) \/ Maintain(p) PROVE Located'
  BY <1>11 DEF Leave, Disconnect, Maintain, RevokeSession, ExpireSession
<1>12. ASSUME Environment PROVE Located'
  BY <1>12 DEF Environment, ChangePermission, LoseAuthority, ForeignCommit, Close, Restart
<1>13. CASE UNCHANGED vars
  BY <1>13 DEF vars
<1> HIDE DEF Located
<1> QED
  BY <1>1, <1>2, <1>3, <1>4, <1>5, <1>6, <1>7, <1>8, <1>9, <1>10, <1>11, <1>12, <1>13
     DEF Next, Client, Reader

(* rm.mu keeps a room's members in place while one of them fans out.       *)
LEMMA FanOutStep ==
  TypeOK /\ Located /\ FanOutStaysInRoom /\ [Next]_vars => FanOutStaysInRoom'
<1> SUFFICES ASSUME TypeOK, Located, FanOutStaysInRoom, [Next]_vars PROVE FanOutStaysInRoom'
  OBVIOUS
<1> USE NoneAssumption DEF TypeOK, FanOutStaysInRoom, Members, Goto, Fail, AbortAndFail,
        dbVars, roomVars, applyVars, historyVars
<1>1. ASSUME NEW p \in Peers, Connect(p) \/ Authenticate(p) \/ Hello(p) PROVE FanOutStaysInRoom'
  BY <1>1 DEF Connect, Authenticate, Hello
<1>2. ASSUME NEW p \in Peers, JoinNew(p) \/ JoinExisting(p) PROVE FanOutStaysInRoom'
  <2>1. pc[p] = "loaded" /\ roomOf[p] = None /\ todo[p] = {} /\ pc' = [pc EXCEPT ![p] = "joined"]
    BY <1>2 DEF JoinNew, JoinExisting, Located
  <2>2. \A q \in Peers : pc[q] \in {"fanout", "sending"} => roomOf[q] # None
    BY DEF Located, Holding
  <2>3. PICK r \in Rooms : roomOf' = [roomOf EXCEPT ![p] = r]
    BY <1>2 DEF JoinNew, JoinExisting
  <2>4. UNCHANGED <<todo, recipient>>
    BY <1>2 DEF JoinNew, JoinExisting
  <2> QED
    BY <2>1, <2>2, <2>3, <2>4
<1>3. ASSUME NEW p \in Peers, JoinStale(p) \/ JoinRefused(p) \/ Ready(p) PROVE FanOutStaysInRoom'
  BY <1>3 DEF JoinStale, JoinRefused, Ready
<1>4. ASSUME NEW p \in Peers, NEW place \in {"diff", "save", "update"}, NEW U \in SUBSET Updates,
             Request(p, place, U)
      PROVE  FanOutStaysInRoom'
  BY <1>4 DEF Request
<1>5. ASSUME NEW p \in Peers, AnswerStep1(p) \/ AnswerCheckpoint(p) PROVE FanOutStaysInRoom'
  BY <1>5 DEF AnswerStep1, AnswerCheckpoint
<1>6. ASSUME NEW p \in Peers, ReadTransaction(p) \/ LockTransaction(p) PROVE FanOutStaysInRoom'
  BY <1>6 DEF ReadTransaction, LockTransaction, ApplyFails, ApplyRejects
<1>7. ASSUME NEW p \in Peers, CommitTransaction(p) \/ CommitFails(p) PROVE FanOutStaysInRoom'
  BY <1>7 DEF CommitTransaction, CommitFails
<1>8. ASSUME NEW p \in Peers, Notice(p) \/ Acknowledge(p) PROVE FanOutStaysInRoom'
  BY <1>8 DEF Notice, Acknowledge
<1>9. ASSUME NEW p \in Peers, NEW q \in Peers, CheckRecipient(p, q) PROVE FanOutStaysInRoom'
  BY <1>9 DEF CheckRecipient
<1>10. ASSUME NEW p \in Peers, SendUpdate(p) PROVE FanOutStaysInRoom'
  BY <1>10 DEF SendUpdate
<1>11. ASSUME NEW p \in Peers, Disconnect(p) \/ Maintain(p) PROVE FanOutStaysInRoom'
  BY <1>11 DEF Disconnect, Maintain, RevokeSession, ExpireSession
<1>12. ASSUME NEW p \in Peers, Leave(p) PROVE FanOutStaysInRoom'
  <2>1. \A q \in Peers : pc[q] \in {"fanout", "sending"} => roomOf[q] # None /\ roomOf[q] # roomOf[p]
    BY <1>12 DEF Leave, Located, RoomLocked, Holding
  <2>2. /\ roomOf' = [roomOf EXCEPT ![p] = None] /\ pc' = [pc EXCEPT ![p] = "gone"]
        /\ todo' = [todo EXCEPT ![p] = {}] /\ recipient' = [recipient EXCEPT ![p] = None]
    BY <1>12 DEF Leave
  <2> QED
    BY <2>1, <2>2
<1>13. ASSUME Environment PROVE FanOutStaysInRoom'
  BY <1>13 DEF Environment, ChangePermission, LoseAuthority, ForeignCommit, Close, Restart
<1>14. CASE UNCHANGED vars
  BY <1>14 DEF vars
<1> HIDE DEF FanOutStaysInRoom
<1> QED
  BY <1>1, <1>2, <1>3, <1>4, <1>5, <1>6, <1>7, <1>8, <1>9, <1>10, <1>11, <1>12, <1>13, <1>14
     DEF Next, Client, Reader

(* A peer enters rm.mu only when nobody is inside; the map's entry changes *)
(* only while no peer, or only the last one, is in the room.               *)
LEMMA OneSerialRoomStep ==
  TypeOK /\ Located /\ OneSerialRoom /\ [Next]_vars => OneSerialRoom'
<1> SUFFICES ASSUME TypeOK, Located, OneSerialRoom, [Next]_vars PROVE OneSerialRoom'
  OBVIOUS
<1> USE NoneAssumption DEF TypeOK, OneSerialRoom, Holding, InTransaction, Goto, Fail, AbortAndFail,
        dbVars, roomVars, applyVars, historyVars
<1>1. ASSUME NEW p \in Peers, Connect(p) \/ Authenticate(p) \/ Hello(p) PROVE OneSerialRoom'
  BY <1>1 DEF Connect, Authenticate, Hello
<1>2. ASSUME NEW p \in Peers, JoinNew(p) \/ JoinExisting(p) PROVE OneSerialRoom'
  BY <1>2 DEF JoinNew, JoinExisting
<1>3. ASSUME NEW p \in Peers, JoinStale(p) \/ JoinRefused(p) \/ Ready(p) PROVE OneSerialRoom'
  BY <1>3 DEF JoinStale, JoinRefused, Ready
<1>4. ASSUME NEW p \in Peers, NEW place \in {"diff", "save", "update"}, NEW U \in SUBSET Updates,
             Request(p, place, U)
      PROVE  OneSerialRoom'
  BY <1>4 DEF Request
<1>5. ASSUME NEW p \in Peers, AnswerStep1(p) \/ AnswerCheckpoint(p) PROVE OneSerialRoom'
  BY <1>5 DEF AnswerStep1, AnswerCheckpoint
<1>6. ASSUME NEW p \in Peers, ReadTransaction(p) PROVE OneSerialRoom'
  <2>1. \A q \in Peers : pc[q] \notin Holding
    BY <1>6 DEF ReadTransaction, Located, RoomLocked
  <2>2. /\ UNCHANGED <<roomOf, current>>
        /\ \E place \in {"closing", "fanout", "validated"} : pc' = [pc EXCEPT ![p] = place]
    BY <1>6 DEF ReadTransaction, ApplyFails, ApplyRejects
  <2> QED
    BY <2>1, <2>2
<1>7. ASSUME NEW p \in Peers, LockTransaction(p) PROVE OneSerialRoom'
  BY <1>7 DEF LockTransaction, ApplyFails, ApplyRejects
<1>8. ASSUME NEW p \in Peers, CommitTransaction(p) \/ CommitFails(p) PROVE OneSerialRoom'
  BY <1>8 DEF CommitTransaction, CommitFails
<1>9. ASSUME NEW p \in Peers, Notice(p) \/ SendUpdate(p) \/ Acknowledge(p) PROVE OneSerialRoom'
  BY <1>9 DEF Notice, SendUpdate, Acknowledge
<1>10. ASSUME NEW p \in Peers, NEW q \in Peers, CheckRecipient(p, q) PROVE OneSerialRoom'
  BY <1>10 DEF CheckRecipient
<1>11. ASSUME NEW p \in Peers, Leave(p) PROVE OneSerialRoom'
  <2>1. CASE roomOf[p] # None /\ Members(roomOf[p]) = {p}
    <3>1. \A q \in Peers \ {p} : roomOf[q] = None
      BY <2>1 DEF Members
    <3> QED
      BY <1>11, <3>1 DEF Leave
  <2>2. CASE ~ (roomOf[p] # None /\ Members(roomOf[p]) = {p})
    BY <1>11, <2>2 DEF Leave
  <2> QED
    BY <2>1, <2>2
<1>12. ASSUME NEW p \in Peers, Disconnect(p) \/ Maintain(p) PROVE OneSerialRoom'
  BY <1>12 DEF Disconnect, Maintain, RevokeSession, ExpireSession
<1>13. ASSUME Environment PROVE OneSerialRoom'
  BY <1>13 DEF Environment, ChangePermission, LoseAuthority, ForeignCommit, Close, Restart
<1>14. CASE UNCHANGED vars
  BY <1>14 DEF vars
<1> HIDE DEF OneSerialRoom
<1> QED
  BY <1>1, <1>2, <1>3, <1>4, <1>5, <1>6, <1>7, <1>8, <1>9, <1>10, <1>11, <1>12, <1>13, <1>14
     DEF Next, Client, Reader

LEMMA AbortStops ==
  ASSUME TypeOK, FailedRoomIsStopped, NEW p \in Peers, NEW r, AbortAndFail(p, r), roomOf' = roomOf
  PROVE  FailedRoomIsStopped'
<1>1. \A x \in Rooms : rooms'[x].failed => rooms[x].failed \/ x = r
  BY DEF TypeOK, RoomStates, AbortAndFail
<1>2. \A q \in Peers : stopped'[q] = (stopped[q] \/ q = p \/ roomOf[q] = r)
  BY DEF TypeOK, AbortAndFail
<1> QED
  BY <1>1, <1>2 DEF TypeOK, FailedRoomIsStopped

LEMMA StoppedStaysStopped ==
  ASSUME TypeOK, FailedRoomIsStopped, roomOf' = roomOf,
         \A x \in Rooms : rooms'[x].failed = rooms[x].failed,
         \A q \in Peers : stopped[q] => stopped'[q]
  PROVE  FailedRoomIsStopped'
  BY DEF TypeOK, FailedRoomIsStopped

(* abort stops every member, a failed room admits nobody, and only an      *)
(* empty room becomes a fresh one.                                         *)
LEMMA FailedRoomStep ==
  TypeOK /\ Located /\ OneSerialRoom /\ FailedRoomIsStopped /\ [Next]_vars => FailedRoomIsStopped'
<1> SUFFICES ASSUME TypeOK, Located, OneSerialRoom, FailedRoomIsStopped, [Next]_vars
             PROVE  FailedRoomIsStopped'
  OBVIOUS
<1> USE NoneAssumption DEF TypeOK, FailedRoomIsStopped, RoomStates, Goto, Fail, AbortAndFail,
        dbVars, roomVars, applyVars, historyVars
<1>1. ASSUME NEW p \in Peers, Connect(p) PROVE FailedRoomIsStopped'
  BY <1>1 DEF Connect, Located
<1>2. ASSUME NEW p \in Peers, Authenticate(p) \/ Hello(p) PROVE FailedRoomIsStopped'
  BY <1>2 DEF Authenticate, Hello
<1>3. ASSUME NEW p \in Peers, JoinNew(p) \/ JoinExisting(p) PROVE FailedRoomIsStopped'
  <2>1. CASE JoinNew(p)
    BY <2>1 DEF JoinNew, EmptyRoom, Members
  <2>2. CASE JoinExisting(p)
    BY <2>2 DEF JoinExisting
  <2> QED
    BY <1>3, <2>1, <2>2
<1>4. ASSUME NEW p \in Peers, JoinStale(p) \/ JoinRefused(p) \/ Ready(p) PROVE FailedRoomIsStopped'
  <2>1. CASE JoinStale(p)
    BY <2>1, AbortStops DEF JoinStale
  <2>2. CASE JoinRefused(p) \/ Ready(p)
    BY <2>2 DEF JoinRefused, Ready
  <2> QED
    BY <1>4, <2>1, <2>2
<1>5. ASSUME NEW p \in Peers, NEW place \in {"diff", "save", "update"}, NEW U \in SUBSET Updates,
             Request(p, place, U)
      PROVE  FailedRoomIsStopped'
  BY <1>5 DEF Request
<1>6. ASSUME NEW p \in Peers, AnswerStep1(p) \/ AnswerCheckpoint(p) PROVE FailedRoomIsStopped'
  BY <1>6 DEF AnswerStep1, AnswerCheckpoint
<1>7. ASSUME NEW p \in Peers, ReadTransaction(p) PROVE FailedRoomIsStopped'
  <2>1. CASE ApplyFails(p)
    BY <2>1, AbortStops DEF ApplyFails
  <2>2. CASE ~ ApplyFails(p)
    <3>1. \A x \in Rooms : rooms'[x].failed = rooms[x].failed
      <4>1. CASE rooms' = rooms
        BY <4>1
      <4>2. CASE rooms' = [rooms EXCEPT ![roomOf[p]].doc = row]
        BY <4>2
      <4> QED
        BY <1>7, <2>2, <4>1, <4>2 DEF ReadTransaction, ApplyRejects
    <3>2. roomOf' = roomOf /\ \A q \in Peers : stopped[q] => stopped'[q]
      BY <1>7, <2>2 DEF ReadTransaction, ApplyRejects
    <3> QED
      BY <3>1, <3>2, StoppedStaysStopped
  <2> QED
    BY <2>1, <2>2
<1>8. ASSUME NEW p \in Peers, LockTransaction(p) PROVE FailedRoomIsStopped'
  <2>1. CASE ApplyFails(p)
    BY <2>1, AbortStops DEF ApplyFails
  <2>2. CASE ~ ApplyFails(p)
    BY <1>8, <2>2 DEF LockTransaction, ApplyRejects
  <2> QED
    BY <2>1, <2>2
<1>9. ASSUME NEW p \in Peers, CommitTransaction(p) \/ CommitFails(p) PROVE FailedRoomIsStopped'
  <2>1. CASE CommitFails(p)
    BY <2>1, AbortStops DEF CommitFails
  <2>2. CASE CommitTransaction(p)
    <3>1. \A x \in Rooms : rooms'[x].failed = rooms[x].failed
      BY <2>2 DEF CommitTransaction
    <3> QED
      BY <2>2, <3>1 DEF CommitTransaction
  <2> QED
    BY <1>9, <2>1, <2>2
<1>10. ASSUME NEW p \in Peers, Notice(p) PROVE FailedRoomIsStopped'
  <2>1. \A x \in Rooms : rooms'[x].failed = rooms[x].failed
    BY <1>10, NoticeKeeps
  <2>2. roomOf' = roomOf /\ \A q \in Peers : stopped[q] => stopped'[q]
    BY <1>10 DEF Notice
  <2> QED
    BY <2>1, <2>2, StoppedStaysStopped
<1>11. ASSUME NEW p \in Peers, SendUpdate(p) \/ Acknowledge(p) PROVE FailedRoomIsStopped'
  BY <1>11 DEF SendUpdate, Acknowledge
<1>12. ASSUME NEW p \in Peers, NEW q \in Peers, CheckRecipient(p, q) PROVE FailedRoomIsStopped'
  BY <1>12 DEF CheckRecipient
<1>13. ASSUME NEW p \in Peers, Leave(p) PROVE FailedRoomIsStopped'
  <2>1. \A q \in Peers \ {p} : roomOf[q] # None =>
          rooms'[roomOf[q]].failed = rooms[roomOf[q]].failed
    BY <1>13 DEF Leave, Members
  <2>2. roomOf' = [roomOf EXCEPT ![p] = None] /\ stopped' = [stopped EXCEPT ![p] = FALSE]
    BY <1>13 DEF Leave
  <2> QED
    BY <2>1, <2>2
<1>14. ASSUME NEW p \in Peers, Disconnect(p) \/ Maintain(p) PROVE FailedRoomIsStopped'
  BY <1>14 DEF Disconnect, Maintain, RevokeSession, ExpireSession
<1>15. ASSUME Environment PROVE FailedRoomIsStopped'
  BY <1>15 DEF Environment, ChangePermission, LoseAuthority, ForeignCommit, Close, Restart,
               Connected, Located
<1>16. CASE UNCHANGED vars
  BY <1>16 DEF vars
<1> HIDE DEF FailedRoomIsStopped
<1> QED
  BY <1>1, <1>2, <1>3, <1>4, <1>5, <1>6, <1>7, <1>8, <1>9, <1>10, <1>11, <1>12, <1>13, <1>14,
     <1>15, <1>16 DEF Next, Client, Reader

(* Permissions change only while no content transaction holds the row.     *)
LEMMA WriterStep == TypeOK /\ WriterMayEdit /\ [Next]_vars => WriterMayEdit'
<1> SUFFICES ASSUME TypeOK, WriterMayEdit, [Next]_vars PROVE WriterMayEdit'
  OBVIOUS
<1> USE DEF TypeOK, WriterMayEdit, Goto, Fail, AbortAndFail, dbVars, roomVars, applyVars, historyVars
<1>1. ASSUME NEW p \in Peers, Client(p) \/ Maintain(p) PROVE WriterMayEdit'
  BY <1>1 DEF Client, Connect, Authenticate, Hello, Request, Disconnect, Maintain, RevokeSession,
              ExpireSession
<1>2. ASSUME NEW p \in Peers, Reader(p) PROVE WriterMayEdit'
  <2>1. ASSUME JoinNew(p) \/ JoinExisting(p) \/ JoinStale(p) \/ JoinRefused(p) \/ Ready(p)
        PROVE  WriterMayEdit'
    BY <2>1 DEF JoinNew, JoinExisting, JoinStale, JoinRefused, Ready
  <2>2. ASSUME AnswerStep1(p) \/ AnswerCheckpoint(p) \/ ReadTransaction(p) \/ LockTransaction(p)
        PROVE  WriterMayEdit'
    BY <2>2 DEF AnswerStep1, AnswerCheckpoint, ReadTransaction, LockTransaction, ApplyFails,
                ApplyRejects
  <2>3. ASSUME CommitTransaction(p) \/ CommitFails(p) PROVE WriterMayEdit'
    BY <2>3 DEF CommitTransaction, CommitFails
  <2>4. ASSUME \/ Notice(p) \/ SendUpdate(p) \/ Acknowledge(p) \/ Leave(p)
               \/ \E q \in Peers : CheckRecipient(p, q)
        PROVE  WriterMayEdit'
    BY <2>4 DEF Notice, SendUpdate, Acknowledge, Leave, CheckRecipient
  <2> QED
    BY <1>2, <2>1, <2>2, <2>3, <2>4 DEF Reader
<1>3. ASSUME Environment PROVE WriterMayEdit'
  BY <1>3 DEF Environment, ChangePermission, LoseAuthority, ForeignCommit, Close, Restart,
              WorkspaceLocked
<1>4. CASE UNCHANGED vars
  BY <1>4 DEF vars
<1> QED
  BY <1>1, <1>2, <1>3, <1>4 DEF Next

-----------------------------------------------------------------------------
(* Documents in memory and the durable row.                                *)

LEMMA InMemoryTypes == TypeOK => InMemory \subseteq Documents
  BY EmptyTypes DEF TypeOK, InMemory, RoomStates

(* A document read at the row's revision is the row, so the compare and    *)
(* swap in Save never loses a change.                                      *)
LEMMA CandidateGrows ==
  ASSUME TypeOK, Snapshots, NEW p \in Peers, row.rev = loaded[p].rev
  PROVE  /\ loaded[p] = row
         /\ Candidate(p) = [rev |-> row.rev + 1, state |-> row.state \cup frame[p]]
<1>1. loaded[p] = row
  BY DEF Snapshots, Committed, InMemory
<1> QED
  BY <1>1 DEF Candidate

(* The row is unchanged, or one revision and some changes ahead.           *)
RowGrows ==
  \/ row' = row
  \/ \E U \in SUBSET Updates :
       ~ (U \subseteq row.state) /\ row' = [rev |-> row.rev + 1, state |-> row.state \cup U]

(* Between validation and commit, the frame holds a change the document    *)
(* the transaction read did not.                                           *)
LEMMA RowStep ==
  ASSUME TypeOK, Snapshots, FrameIsNew, [Next]_vars PROVE RowGrows
<1>1. ASSUME NEW p \in Peers, pc[p] = "locked", row.rev = loaded[p].rev, row' = Candidate(p)
      PROVE  RowGrows
  <2>1. ~ (frame[p] \subseteq row.state) /\ frame[p] \in SUBSET Updates
    BY <1>1, CandidateGrows DEF FrameIsNew, InTransaction, TypeOK
  <2> QED
    BY <1>1, <2>1, CandidateGrows DEF RowGrows
<1>2. ASSUME NEW p \in Peers, Client(p) \/ Maintain(p) PROVE RowGrows
  BY <1>2 DEF Client, Connect, Authenticate, Hello, Request, Disconnect, Maintain, RevokeSession,
              ExpireSession, dbVars, RowGrows
<1>3. ASSUME NEW p \in Peers, Reader(p) PROVE RowGrows
  <2>1. ASSUME JoinNew(p) \/ JoinExisting(p) \/ JoinStale(p) \/ JoinRefused(p) \/ Ready(p)
        PROVE  RowGrows
    BY <2>1 DEF JoinNew, JoinExisting, JoinStale, JoinRefused, Ready, dbVars, RowGrows
  <2>2. ASSUME AnswerStep1(p) \/ AnswerCheckpoint(p) \/ ReadTransaction(p) \/ LockTransaction(p)
        PROVE  RowGrows
    BY <2>2 DEF AnswerStep1, AnswerCheckpoint, ReadTransaction, LockTransaction, dbVars, RowGrows
  <2>3. ASSUME CommitTransaction(p) \/ CommitFails(p) PROVE RowGrows
    BY <1>1, <2>3 DEF CommitTransaction, CommitFails, RowGrows
  <2>4. ASSUME \/ Notice(p) \/ SendUpdate(p) \/ Acknowledge(p) \/ Leave(p)
               \/ \E q \in Peers : CheckRecipient(p, q)
        PROVE  RowGrows
    BY <2>4 DEF Notice, SendUpdate, Acknowledge, Leave, CheckRecipient, dbVars, RowGrows
  <2> QED
    BY <1>3, <2>1, <2>2, <2>3, <2>4 DEF Reader
<1>4. ASSUME Environment PROVE RowGrows
  BY <1>4 DEF Environment, ChangePermission, LoseAuthority, ForeignCommit, Close, Restart,
     dbVars, RowGrows
<1>5. CASE UNCHANGED vars
  BY <1>5 DEF vars, RowGrows
<1> QED
  BY <1>2, <1>3, <1>4, <1>5 DEF Next

(* Every document an action puts in memory is already there, or is the row *)
(* before or after the action.                                             *)
LEMMA SnapshotsKept ==
  ASSUME TypeOK, Snapshots, RowGrows,
         \A q \in Peers : loaded'[q] \in InMemory \cup {row, row'},
         \A r \in Rooms : rooms'[r].doc \in InMemory \cup {row, row'}
  PROVE  Snapshots'
<1>1. InMemory' \subseteq InMemory \cup {row, row'}
  BY DEF InMemory
<1>2. InMemory \subseteq Documents /\ row \in Documents /\ row' \in Documents
  BY InMemoryTypes DEF TypeOK, RowGrows, Documents
<1>3. row.rev <= row'.rev /\ row.state \subseteq row'.state /\ (row.rev = row'.rev => row' = row)
  BY <1>2 DEF RowGrows, Documents
<1>4. \A doc \in InMemory \cup {row, row'} :
        /\ doc.rev <= row'.rev /\ doc.state \subseteq row'.state
        /\ doc.rev = row'.rev => doc = row'
  BY <1>2, <1>3 DEF Snapshots, Committed, Documents
<1>5. \A older, newer \in InMemory \cup {row, row'} :
        older.rev <= newer.rev => older.state \subseteq newer.state
  <2> SUFFICES ASSUME NEW older \in InMemory \cup {row, row'}, NEW newer \in InMemory \cup {row, row'},
                      older.rev <= newer.rev
               PROVE  older.state \subseteq newer.state
    OBVIOUS
  <2>1. CASE newer = row'
    BY <2>1, <1>4
  <2>2. CASE older = row' /\ newer # row'
    BY <2>2, <1>2, <1>4 DEF Documents
  <2>3. CASE newer = row /\ older \in InMemory \cup {row}
    BY <2>3 DEF Snapshots, Committed
  <2>4. CASE older = row /\ newer \in InMemory
    BY <2>4, <1>2 DEF Snapshots, Committed, Documents
  <2>5. CASE older \in InMemory /\ newer \in InMemory
    BY <2>5 DEF Snapshots
  <2> QED
    BY <2>1, <2>2, <2>3, <2>4, <2>5
<1> QED
  BY <1>1, <1>4, <1>5 DEF Snapshots, Committed

LEMMA SnapshotsStep ==
  TypeOK /\ Snapshots /\ FrameIsNew /\ [Next]_vars => Snapshots'
<1> SUFFICES ASSUME TypeOK, Snapshots, FrameIsNew, [Next]_vars PROVE Snapshots'
  OBVIOUS
<1> USE DEF dbVars, roomVars, applyVars, historyVars, Fail, AbortAndFail
<1> DEFINE Known == InMemory \cup {row, row'}
           Kept == /\ \A q \in Peers : loaded'[q] \in Known
                   /\ \A r \in Rooms : rooms'[r].doc \in Known
<1>1. /\ \A q \in Peers : loaded[q] \in Known
      /\ \A r \in Rooms : rooms[r].doc \in Known
      /\ EmptyDocument \in Known
  BY DEF InMemory
<1> HIDE DEF Known
<1>2. row \in Known /\ row' \in Known
  BY DEF Known
<1>3. ASSUME NEW p \in Peers, NEW r, NEW doc \in Known, rooms' = [rooms EXCEPT ![r].doc = doc]
      PROVE  \A x \in Rooms : rooms'[x].doc \in Known
  BY <1>1, <1>3 DEF TypeOK, RoomStates
<1>4. ASSUME NEW r, rooms' = [rooms EXCEPT ![r].failed = TRUE]
      PROVE  \A x \in Rooms : rooms'[x].doc \in Known
  BY <1>1, <1>4 DEF TypeOK, RoomStates
<1>5. ASSUME NEW p \in Peers, Client(p) \/ Maintain(p) PROVE Kept
  BY <1>1, <1>2, <1>5 DEF Client, Connect, Authenticate, Hello, Request, Disconnect, Maintain,
     RevokeSession, ExpireSession, TypeOK
<1>6. ASSUME NEW p \in Peers, JoinNew(p) PROVE Kept
  BY <1>1, <1>6 DEF JoinNew, TypeOK, RoomStates, EmptyRoom
<1>7. ASSUME NEW p \in Peers, JoinExisting(p) \/ JoinStale(p) \/ JoinRefused(p) \/ Ready(p) PROVE Kept
  BY <1>1, <1>4, <1>7 DEF JoinExisting, JoinStale, JoinRefused, Ready
<1>8. ASSUME NEW p \in Peers, AnswerStep1(p) \/ AnswerCheckpoint(p) PROVE Kept
  BY <1>1, <1>8 DEF AnswerStep1, AnswerCheckpoint
<1>9. ASSUME NEW p \in Peers, ReadTransaction(p) PROVE Kept
  <2>1. \A q \in Peers : loaded'[q] \in Known
    BY <1>1, <1>2, <1>9 DEF ReadTransaction, ApplyFails, ApplyRejects, TypeOK
  <2>2. \/ rooms' = rooms \/ rooms' = [rooms EXCEPT ![roomOf[p]].failed = TRUE]
        \/ rooms' = [rooms EXCEPT ![roomOf[p]].doc = row]
    BY <1>9 DEF ReadTransaction, ApplyFails, ApplyRejects
  <2> QED
    BY <1>1, <1>2, <1>3, <1>4, <2>1, <2>2
<1>10. ASSUME NEW p \in Peers, LockTransaction(p) PROVE Kept
  BY <1>1, <1>4, <1>10 DEF LockTransaction, ApplyFails, ApplyRejects
<1>11. ASSUME NEW p \in Peers, CommitTransaction(p) PROVE Kept
  BY <1>1, <1>2, <1>3, <1>11 DEF CommitTransaction
<1>12. ASSUME NEW p \in Peers, CommitFails(p) PROVE Kept
  BY <1>1, <1>4, <1>12 DEF CommitFails
<1>13. ASSUME NEW p \in Peers, Notice(p) PROVE Kept
  <2>1. loaded' = loaded
    BY <1>13 DEF Notice
  <2> QED
    BY <1>1, <1>13, <2>1, NoticeKeeps
<1>14. ASSUME NEW p \in Peers, SendUpdate(p) \/ Acknowledge(p) \/ \E q \in Peers : CheckRecipient(p, q)
       PROVE  Kept
  BY <1>1, <1>14 DEF SendUpdate, Acknowledge, CheckRecipient
<1>15. ASSUME NEW p \in Peers, Leave(p) PROVE Kept
  <2>1. rooms' = rooms \/ rooms' = [rooms EXCEPT ![roomOf[p]] = EmptyRoom]
    BY <1>15 DEF Leave
  <2>2. EmptyRoom.doc = EmptyDocument /\ rooms \in [Rooms -> RoomStates]
    BY DEF EmptyRoom, TypeOK
  <2>3. \A r \in Rooms : rooms'[r].doc \in Known
    BY <1>1, <2>1, <2>2
  <2>4. \A q \in Peers : loaded'[q] \in Known
    BY <1>1, <1>15 DEF Leave, TypeOK
  <2> QED
    BY <2>3, <2>4
<1>16. ASSUME Environment PROVE Kept
  BY <1>1, <1>16 DEF Environment, ChangePermission, LoseAuthority, ForeignCommit, Close, Restart,
     EmptyRoom
<1>17. ASSUME UNCHANGED vars PROVE Kept
  BY <1>1, <1>17 DEF vars
<1>18. Kept
  BY <1>5, <1>6, <1>7, <1>8, <1>9, <1>10, <1>11, <1>12, <1>13, <1>14, <1>15, <1>16, <1>17
     DEF Next, Reader
<1> QED
  BY <1>18, RowStep, SnapshotsKept DEF Known

LEMMA FrameIsNewStep == TypeOK /\ FrameIsNew /\ [Next]_vars => FrameIsNew'
<1> SUFFICES ASSUME TypeOK, FrameIsNew, [Next]_vars PROVE FrameIsNew'
  OBVIOUS
<1> USE DEF TypeOK, FrameIsNew, InTransaction, Goto, Fail, AbortAndFail, dbVars, roomVars, applyVars,
            historyVars
<1>1. ASSUME NEW p \in Peers, Client(p) \/ Maintain(p) PROVE FrameIsNew'
  BY <1>1 DEF Client, Connect, Authenticate, Hello, Request, Disconnect, Maintain, RevokeSession,
              ExpireSession
<1>2. ASSUME NEW p \in Peers, Reader(p) PROVE FrameIsNew'
  <2>1. ASSUME JoinNew(p) \/ JoinExisting(p) \/ JoinStale(p) \/ JoinRefused(p) \/ Ready(p)
        PROVE  FrameIsNew'
    BY <2>1 DEF JoinNew, JoinExisting, JoinStale, JoinRefused, Ready
  <2>2. ASSUME AnswerStep1(p) \/ AnswerCheckpoint(p) \/ LockTransaction(p) PROVE FrameIsNew'
    BY <2>2 DEF AnswerStep1, AnswerCheckpoint, LockTransaction, ApplyFails, ApplyRejects
  <2>3. ASSUME ReadTransaction(p) PROVE FrameIsNew'
    BY <2>3 DEF ReadTransaction, ApplyFails, ApplyRejects
  <2>4. ASSUME CommitTransaction(p) \/ CommitFails(p) PROVE FrameIsNew'
    BY <2>4 DEF CommitTransaction, CommitFails
  <2>5. ASSUME \/ Notice(p) \/ SendUpdate(p) \/ Acknowledge(p) \/ Leave(p)
               \/ \E q \in Peers : CheckRecipient(p, q)
        PROVE  FrameIsNew'
    BY <2>5 DEF Notice, SendUpdate, Acknowledge, Leave, CheckRecipient
  <2> QED
    BY <1>2, <2>1, <2>2, <2>3, <2>4, <2>5 DEF Reader
<1>3. ASSUME Environment PROVE FrameIsNew'
  BY <1>3 DEF Environment, ChangePermission, LoseAuthority, ForeignCommit, Close, Restart
<1>4. CASE UNCHANGED vars
  BY <1>4 DEF vars
<1> QED
  BY <1>1, <1>2, <1>3, <1>4 DEF Next

-----------------------------------------------------------------------------
(* What peers hold, are told and send.                                     *)

(* A room's document only grows while somebody stays in the room.          *)
LEMMA RoomGrows ==
  ASSUME TypeOK, Located, Snapshots, FrameIsNew, [Next]_vars,
         NEW q \in Peers, roomOf[q] # None, roomOf'[q] = roomOf[q]
  PROVE  rooms[roomOf[q]].doc.state \subseteq rooms'[roomOf[q]].doc.state
<1> DEFINE Grown == rooms[roomOf[q]].doc.state \subseteq rooms'[roomOf[q]].doc.state
<1> USE DEF dbVars, roomVars, applyVars, historyVars, Fail, AbortAndFail
<1>1. roomOf[q] \in Rooms
  BY DEF TypeOK
<1>2. rooms[roomOf[q]].doc.state \subseteq row.state
  BY <1>1 DEF Snapshots, Committed, InMemory
<1>3. ASSUME NEW r, NEW doc, rooms' = [rooms EXCEPT ![r].doc = doc], row.state \subseteq doc.state
      PROVE  Grown
  BY <1>1, <1>2, <1>3 DEF TypeOK, RoomStates
<1>4. ASSUME NEW r, rooms' = [rooms EXCEPT ![r].failed = TRUE] PROVE Grown
  BY <1>1, <1>4 DEF TypeOK, RoomStates
<1>5. ASSUME NEW p \in Peers, Client(p) \/ Maintain(p) PROVE Grown
  BY <1>5 DEF Client, Connect, Authenticate, Hello, Request, Disconnect, Maintain, RevokeSession,
              ExpireSession
<1>6. ASSUME NEW p \in Peers, JoinNew(p) PROVE Grown
  BY <1>1, <1>6 DEF JoinNew, TypeOK, Members
<1>7. ASSUME NEW p \in Peers, JoinExisting(p) \/ JoinStale(p) \/ JoinRefused(p) \/ Ready(p) PROVE Grown
  BY <1>4, <1>7 DEF JoinExisting, JoinStale, JoinRefused, Ready
<1>8. ASSUME NEW p \in Peers, ReadTransaction(p) PROVE Grown
  <2>1. \/ rooms' = rooms \/ rooms' = [rooms EXCEPT ![roomOf[p]].failed = TRUE]
        \/ rooms' = [rooms EXCEPT ![roomOf[p]].doc = row]
    BY <1>8 DEF ReadTransaction, ApplyFails, ApplyRejects
  <2> QED
    BY <1>3, <1>4, <2>1
<1>9. ASSUME NEW p \in Peers, \/ AnswerStep1(p) \/ AnswerCheckpoint(p) \/ LockTransaction(p)
                              \/ CommitFails(p)
      PROVE  Grown
  BY <1>4, <1>9 DEF AnswerStep1, AnswerCheckpoint, LockTransaction, CommitFails, ApplyFails,
     ApplyRejects
<1>10. ASSUME NEW p \in Peers, CommitTransaction(p) PROVE Grown
  <2>1. row.state \subseteq Candidate(p).state
    BY <1>10, CandidateGrows DEF CommitTransaction
  <2> QED
    BY <1>3, <1>10, <2>1 DEF CommitTransaction
<1>11. ASSUME NEW p \in Peers, Notice(p) PROVE Grown
  BY <1>1, <1>11, NoticeKeeps
<1>12. ASSUME NEW p \in Peers, SendUpdate(p) \/ Acknowledge(p) \/ \E x \in Peers : CheckRecipient(p, x)
       PROVE  Grown
  BY <1>12 DEF SendUpdate, Acknowledge, CheckRecipient
<1>13. ASSUME NEW p \in Peers, Leave(p) PROVE Grown
  BY <1>1, <1>13 DEF Leave, Members, TypeOK
<1>14. ASSUME Environment PROVE Grown
  BY <1>1, <1>14 DEF Environment, ChangePermission, LoseAuthority, ForeignCommit, Close, Restart
<1>15. ASSUME UNCHANGED vars PROVE Grown
  BY <1>15 DEF vars
<1> QED
  BY <1>5, <1>6, <1>7, <1>8, <1>9, <1>10, <1>11, <1>12, <1>13, <1>14, <1>15 DEF Next, Reader

(* What a step leaves alone stays inside the growing document.             *)
LEMMA StaysAhead ==
  ASSUME TypeOK, Located, Snapshots, FrameIsNew, RoomIsAhead, [Next]_vars, NEW q \in Peers,
         roomOf'[q] = roomOf[q],
         roomOf[q] # None =>
            acked'[q] \cup known'[q] \subseteq acked[q] \cup known[q] \cup rooms[roomOf[q]].doc.state
  PROVE  roomOf'[q] # None => acked'[q] \cup known'[q] \subseteq rooms'[roomOf'[q]].doc.state
  BY RoomGrows DEF RoomIsAhead

LEMMA RoomIsAheadStep ==
  RoomInv /\ [Next]_vars => RoomIsAhead'
<1> SUFFICES ASSUME RoomInv, [Next]_vars PROVE RoomIsAhead'
  OBVIOUS
<1> USE DEF RoomInv, Goto, Fail, AbortAndFail, dbVars, roomVars, applyVars, historyVars
<1> DEFINE Holds(q) == roomOf'[q] # None =>
                         acked'[q] \cup known'[q] \subseteq rooms'[roomOf'[q]].doc.state
           Sends(q) == pc'[q] \in {"committed", "fanout", "sending"} =>
                         frame'[q] \subseteq rooms'[roomOf'[q]].doc.state
           Loads(q) == pc'[q] = "loaded" => acked'[q] \subseteq loaded'[q].state
           Ahead == \A q \in Peers : Holds(q) /\ Sends(q) /\ Loads(q)
<1>1. ASSUME NEW q \in Peers, UNCHANGED <<roomOf, acked, known>> PROVE Holds(q)
  BY <1>1, StaysAhead
<1>2. ASSUME NEW q \in Peers, UNCHANGED <<roomOf, frame>>,
             pc'[q] \in {"committed", "fanout", "sending"} => pc[q] \in {"committed", "fanout", "sending"}
      PROVE  Sends(q)
  BY <1>2, RoomGrows DEF RoomIsAhead, Located, Holding
<1>3. ASSUME NEW q \in Peers, UNCHANGED <<acked, loaded>>, pc'[q] = "loaded" => pc[q] = "loaded"
      PROVE  Loads(q)
  BY <1>3 DEF RoomIsAhead
<1> HIDE DEF RoomInv
<1> USE DEF TypeOK
<1>4. TypeOK /\ Located /\ RoomIsAhead
  BY DEF RoomInv
<1>5. ASSUME NEW p \in Peers, Connect(p) PROVE Ahead
  <2>1. roomOf[p] = None
    BY <1>4, <1>5 DEF Connect, Located
  <2>2. \A q \in Peers : Holds(q)
    BY <1>4, <1>5, <2>1, StaysAhead DEF Connect, RoomInv
  <2>3. \A q \in Peers : pc'[q] = pc[q] \/ pc'[q] = "reading"
    BY <1>4, <1>5 DEF Connect
  <2> QED
    BY <1>2, <1>3, <1>5, <2>2, <2>3 DEF Connect
<1>6. ASSUME NEW p \in Peers, Authenticate(p) PROVE Ahead
  BY <1>1, <1>2, <1>3, <1>6 DEF Authenticate
<1>7. ASSUME NEW p \in Peers, Hello(p) PROVE Ahead
  <2>1. \A q \in Peers : Holds(q)
    BY <1>1, <1>7 DEF Hello
  <2>2. \A q \in Peers : Sends(q)
    BY <1>2, <1>4, <1>7 DEF Hello
  <2>3. \A q \in Peers : Loads(q)
    BY <1>4, <1>7 DEF Hello, RoomInv, AcknowledgedIsDurable, RoomIsAhead
  <2> QED
    BY <2>1, <2>2, <2>3
<1>8. ASSUME NEW p \in Peers, JoinNew(p) \/ JoinExisting(p) PROVE Ahead
  <2>1. PICK r \in Rooms : roomOf' = [roomOf EXCEPT ![p] = r]
    BY <1>4, <1>8 DEF JoinNew, JoinExisting
  <2>2. pc[p] = "loaded" /\ roomOf[p] = None /\ known[p] = {} /\ acked[p] \subseteq loaded[p].state
    BY <1>4, <1>8 DEF JoinNew, JoinExisting, Located, RoomIsAhead
  <2>3. loaded[p].state \subseteq rooms'[r].doc.state
    <3>1. CASE JoinNew(p)
      BY <1>4, <2>1, <3>1 DEF JoinNew, EmptyRoom, RoomStates
    <3>2. CASE JoinExisting(p)
      <4>1. rooms' = rooms /\ r = current /\ loaded[p].rev <= rooms[r].doc.rev
        BY <1>4, <2>1, <3>2 DEF JoinExisting, RoomStates, Documents
      <4> QED
        BY <4>1 DEF RoomInv, Snapshots, InMemory
    <3> QED
      BY <1>8, <3>1, <3>2
  <2>4. UNCHANGED <<acked, known, frame, loaded>> /\ pc' = [pc EXCEPT ![p] = "joined"]
    BY <1>8 DEF JoinNew, JoinExisting
  <2>5. Holds(p) /\ Sends(p) /\ Loads(p)
    BY <1>4, <2>1, <2>2, <2>3, <2>4
  <2>6. ASSUME NEW q \in Peers \ {p} PROVE Holds(q) /\ Sends(q) /\ Loads(q)
    <3>1. roomOf'[q] = roomOf[q] /\ pc'[q] = pc[q]
      BY <1>4, <2>1, <2>4
    <3>2. Holds(q)
      BY <2>4, <3>1, StaysAhead DEF RoomInv
    <3>3. Sends(q)
      BY <1>4, <2>4, <3>1, RoomGrows DEF RoomInv, RoomIsAhead, Located, Holding
    <3> QED
      BY <1>3, <2>4, <3>1, <3>2, <3>3
  <2> QED
    BY <2>5, <2>6
<1>9. ASSUME NEW p \in Peers, JoinStale(p) \/ JoinRefused(p) \/ Ready(p) PROVE Ahead
  <2>1. \A q \in Peers : pc'[q] = pc[q] \/ pc'[q] \in {"closing", "reading"}
    BY <1>4, <1>9 DEF JoinStale, JoinRefused, Ready
  <2> QED
    BY <1>1, <1>2, <1>3, <1>9, <2>1 DEF JoinStale, JoinRefused, Ready
<1>10. ASSUME NEW p \in Peers, NEW place \in {"diff", "save", "update"}, NEW U \in SUBSET Updates,
              Request(p, place, U)
       PROVE  Ahead
  <2>1. \A q \in Peers : Holds(q)
    BY <1>1, <1>10 DEF Request
  <2>2. \A q \in Peers : Loads(q)
    BY <1>3, <1>4, <1>10 DEF Request
  <2>3. ASSUME NEW q \in Peers PROVE Sends(q)
    <3>1. pc'[q] \in {"committed", "fanout", "sending"} => frame'[q] = frame[q] /\ pc'[q] = pc[q]
      BY <1>4, <1>10 DEF Request
    <3> QED
      BY <1>4, <1>10, <3>1 DEF Request, RoomIsAhead
  <2> QED
    BY <2>1, <2>2, <2>3
<1>11. ASSUME NEW p \in Peers, AnswerStep1(p) \/ AnswerCheckpoint(p) PROVE Ahead
  <2>1. \A q \in Peers : pc'[q] = pc[q] \/ pc'[q] \in {"closing", "reading"}
    BY <1>4, <1>11 DEF AnswerStep1, AnswerCheckpoint
  <2>2. UNCHANGED <<roomOf, frame, loaded>>
    BY <1>11 DEF AnswerStep1, AnswerCheckpoint
  <2>3. \A q \in Peers : acked'[q] \cup known'[q] \subseteq
                           acked[q] \cup known[q] \cup rooms[roomOf[q]].doc.state
    BY <1>4, <1>11 DEF AnswerStep1, AnswerCheckpoint
  <2>4. \A q \in Peers : Holds(q)
    BY <2>2, <2>3, StaysAhead DEF RoomInv
  <2>5. \A q \in Peers : Loads(q)
    BY <1>4, <1>11, <2>1, <2>2 DEF AnswerStep1, AnswerCheckpoint, RoomIsAhead
  <2> QED
    BY <1>2, <2>1, <2>2, <2>4, <2>5
<1>12. ASSUME NEW p \in Peers, ReadTransaction(p) PROVE Ahead
  <2>1. \A q \in Peers : Holds(q)
    BY <1>1, <1>12 DEF ReadTransaction, ApplyFails, ApplyRejects
  <2>2. \A q \in Peers : Loads(q)
    BY <1>4, <1>12 DEF ReadTransaction, ApplyFails, ApplyRejects, RoomIsAhead
  <2>3. \A q \in Peers \ {p} : pc'[q] = pc[q]
    BY <1>4, <1>12 DEF ReadTransaction, ApplyFails, ApplyRejects
  <2>4. UNCHANGED <<roomOf, frame>>
    BY <1>12 DEF ReadTransaction, ApplyFails, ApplyRejects
  <2>5. pc'[p] \in {"committed", "fanout", "sending"} =>
          frame[p] \subseteq row.state /\ rooms' = [rooms EXCEPT ![roomOf[p]].doc = row]
    BY <1>4, <1>12 DEF ReadTransaction, ApplyFails, ApplyRejects
  <2>6. roomOf[p] \in Rooms
    BY <1>4, <1>12 DEF ReadTransaction, Located
  <2>7. Sends(p)
    BY <1>4, <2>4, <2>5, <2>6 DEF RoomStates
  <2> QED
    BY <1>2, <2>1, <2>2, <2>3, <2>4, <2>7
<1>13. ASSUME NEW p \in Peers, LockTransaction(p) \/ CommitFails(p) PROVE Ahead
  <2>1. \A q \in Peers : pc'[q] = pc[q] \/ pc'[q] \in {"closing", "locked"}
    BY <1>4, <1>13 DEF LockTransaction, CommitFails, ApplyFails, ApplyRejects
  <2> QED
    BY <1>1, <1>2, <1>3, <1>13, <2>1 DEF LockTransaction, CommitFails, ApplyFails, ApplyRejects
<1>14. ASSUME NEW p \in Peers, CommitTransaction(p) PROVE Ahead
  <2>1. \A q \in Peers : Holds(q)
    BY <1>1, <1>14 DEF CommitTransaction
  <2>2. \A q \in Peers : Loads(q)
    BY <1>3, <1>4, <1>14 DEF CommitTransaction
  <2>3. \A q \in Peers \ {p} : Sends(q)
    BY <1>2, <1>4, <1>14 DEF CommitTransaction
  <2>4. roomOf[p] \in Rooms
    BY <1>4, <1>14 DEF CommitTransaction, Located, Holding, InTransaction
  <2>5. Sends(p)
    BY <1>4, <1>14, <2>4 DEF CommitTransaction, Candidate, RoomStates
  <2> QED
    BY <2>1, <2>2, <2>3, <2>5
<1>15. ASSUME NEW p \in Peers, Notice(p) PROVE Ahead
  BY <1>1, <1>2, <1>3, <1>4, <1>15 DEF Notice
<1>16. ASSUME NEW p \in Peers, NEW x \in Peers, CheckRecipient(p, x) PROVE Ahead
  BY <1>1, <1>2, <1>3, <1>4, <1>16 DEF CheckRecipient
<1>17. ASSUME NEW p \in Peers, SendUpdate(p) PROVE Ahead
  <2>1. frame[p] \subseteq rooms[roomOf[p]].doc.state /\ roomOf[recipient[p]] = roomOf[p]
    BY <1>4, <1>17 DEF SendUpdate, RoomIsAhead, RoomInv, FanOutStaysInRoom, Members
  <2>2. \A q \in Peers : acked'[q] \cup known'[q] \subseteq
                           acked[q] \cup known[q] \cup rooms[roomOf[q]].doc.state
    BY <1>4, <1>17, <2>1 DEF SendUpdate
  <2>3. \A q \in Peers : Holds(q)
    BY <1>17, <2>2, StaysAhead DEF SendUpdate, RoomInv
  <2> QED
    BY <1>2, <1>3, <1>4, <1>17, <2>3 DEF SendUpdate
<1>18. ASSUME NEW p \in Peers, Acknowledge(p) PROVE Ahead
  <2>1. frame[p] \subseteq rooms[roomOf[p]].doc.state
    BY <1>4, <1>18 DEF Acknowledge, RoomIsAhead
  <2>2. \A q \in Peers : acked'[q] \cup known'[q] \subseteq
                           acked[q] \cup known[q] \cup rooms[roomOf[q]].doc.state
    BY <1>4, <1>18, <2>1 DEF Acknowledge
  <2>3. \A q \in Peers : Holds(q)
    BY <1>18, <2>2, StaysAhead DEF Acknowledge, RoomInv
  <2>4. \A q \in Peers : Loads(q)
    BY <1>4, <1>18 DEF Acknowledge, RoomIsAhead
  <2> QED
    BY <1>2, <1>4, <1>18, <2>3, <2>4 DEF Acknowledge
<1>19. ASSUME NEW p \in Peers, Leave(p) PROVE Ahead
  <2>1. Holds(p) /\ Sends(p) /\ Loads(p)
    BY <1>4, <1>19 DEF Leave
  <2>2. ASSUME NEW q \in Peers \ {p} PROVE Holds(q) /\ Sends(q) /\ Loads(q)
    <3>1. /\ roomOf'[q] = roomOf[q] /\ pc'[q] = pc[q] /\ frame'[q] = frame[q]
          /\ acked'[q] = acked[q] /\ known'[q] = known[q] /\ loaded'[q] = loaded[q]
      BY <1>4, <1>19 DEF Leave
    <3>2. Holds(q)
      BY <3>1, StaysAhead DEF RoomInv
    <3>3. Sends(q)
      BY <1>4, <3>1, RoomGrows DEF RoomInv, RoomIsAhead, Located, Holding
    <3> QED
      BY <1>4, <3>1, <3>2, <3>3 DEF RoomIsAhead
  <2> QED
    BY <2>1, <2>2
<1>20. ASSUME NEW p \in Peers, Disconnect(p) \/ Maintain(p) PROVE Ahead
  BY <1>1, <1>2, <1>3, <1>4, <1>20 DEF Disconnect, Maintain, RevokeSession, ExpireSession
<1>21. ASSUME Environment PROVE Ahead
  <2>1. CASE Restart
    BY <1>4, <2>1 DEF Restart
  <2>2. CASE ~ Restart
    BY <1>1, <1>2, <1>3, <1>21, <2>2
       DEF Environment, ChangePermission, LoseAuthority, ForeignCommit, Close
  <2> QED
    BY <2>1, <2>2
<1>22. ASSUME UNCHANGED vars PROVE Ahead
  BY <1>1, <1>2, <1>3, <1>22 DEF vars
<1> HIDE DEF Ahead
<1>23. Ahead
  BY <1>5, <1>6, <1>7, <1>8, <1>9, <1>10, <1>11, <1>12, <1>13, <1>14, <1>15, <1>16, <1>17, <1>18,
     <1>19, <1>20, <1>21, <1>22 DEF Next, Client, Reader
<1> QED
  BY <1>23 DEF Ahead, RoomIsAhead

-----------------------------------------------------------------------------
(* Every step, seen by the durable board: a commit, an answer, or nothing. *)

(* p's answers disclose only what the room's document holds, and the row   *)
(* holds all of that.                                                      *)
LEMMA RoomIsDurable ==
  ASSUME RoomInv, NEW p \in Peers, roomOf[p] # None
  PROVE  /\ rooms[roomOf[p]].doc.state \subseteq row.state
         /\ known[p] \subseteq row.state
         /\ pc[p] \in {"committed", "fanout", "sending"} => frame[p] \subseteq row.state
<1>1. roomOf[p] \in Rooms
  BY DEF RoomInv, TypeOK
<1>2. rooms[roomOf[p]].doc.state \subseteq row.state
  BY <1>1 DEF RoomInv, Snapshots, Committed, InMemory
<1> QED
  BY <1>2 DEF RoomInv, RoomIsAhead

(* Every step of the server is a step of DurableBoard, or leaves its       *)
(* variables unchanged.                                                    *)
LEMMA BoardStep == RoomInv /\ [Next]_vars => [Board!Next]_(Board!boardVars)
<1> SUFFICES ASSUME RoomInv, [Next]_vars PROVE [Board!Next]_(Board!boardVars)
  OBVIOUS
<1> USE DEF dbVars, roomVars, applyVars, historyVars
<1>1. TypeOK /\ Located /\ FrameIsNew /\ Snapshots
  BY DEF RoomInv
<1>2. ASSUME UNCHANGED <<row, acked, known>> PROVE [Board!Next]_(Board!boardVars)
  BY <1>2 DEF Board!boardVars
<1>3. ASSUME UNCHANGED <<acked, known>> PROVE [Board!Next]_(Board!boardVars)
  <2>1. ASSUME NEW U \in SUBSET Updates, ~ (U \subseteq row.state),
               row' = [rev |-> row.rev + 1, state |-> row.state \cup U]
        PROVE  Board!Next
    BY <1>3, <2>1 DEF Board!Next, Board!Commit
  <2> QED
    BY <1>1, <1>2, <1>3, <2>1, RowStep DEF RowGrows
<1>4. ASSUME NEW P \in SUBSET Peers, UNCHANGED <<row, acked>>,
             known' = [q \in Peers |-> IF q \in P THEN {} ELSE known[q]]
      PROVE  [Board!Next]_(Board!boardVars)
  BY <1>4 DEF Board!Next, Board!Forget
<1>5. ASSUME NEW p \in Peers, NEW U \in SUBSET Updates, U \subseteq row.state, UNCHANGED <<row, acked>>,
             known' = [known EXCEPT ![p] = @ \cup U]
      PROVE  [Board!Next]_(Board!boardVars)
  BY <1>5 DEF Board!Next, Board!Disclose
<1>6. ASSUME NEW p \in Peers, NEW U \in SUBSET Updates, U \subseteq row.state, UNCHANGED row,
             acked' = [acked EXCEPT ![p] = @ \cup U], known' = [known EXCEPT ![p] = @ \cup U]
      PROVE  [Board!Next]_(Board!boardVars)
  BY <1>6 DEF Board!Next, Board!Acknowledge
<1>7. ASSUME NEW p \in Peers, Connect(p) \/ Leave(p) PROVE [Board!Next]_(Board!boardVars)
  <2>1. known' = [q \in Peers |-> IF q \in {p} THEN {} ELSE known[q]]
    BY <1>1, <1>7 DEF Connect, Leave, TypeOK
  <2> QED
    BY <1>4, <1>7, <2>1 DEF Connect, Leave
<1>8. ASSUME NEW p \in Peers, AnswerStep1(p) PROVE [Board!Next]_(Board!boardVars)
  <2>1. roomOf[p] \in Rooms
    BY <1>1, <1>8 DEF AnswerStep1, Located, TypeOK
  <2>2. /\ rooms[roomOf[p]].doc.state \subseteq row.state
        /\ rooms[roomOf[p]].doc.state \in SUBSET Updates
    BY <1>1, <2>1, NoneAssumption, RoomIsDurable DEF TypeOK, RoomStates, Documents
  <2> QED
    BY <1>2, <1>5, <1>8, <2>2 DEF AnswerStep1
<1>9. ASSUME NEW p \in Peers, AnswerCheckpoint(p) PROVE [Board!Next]_(Board!boardVars)
  <2>1. known[p] \subseteq row.state /\ known[p] \in SUBSET Updates
    BY <1>1, <1>9, RoomIsDurable DEF AnswerCheckpoint, Located, TypeOK
  <2>2. known = [known EXCEPT ![p] = @ \cup known[p]]
    BY <1>1 DEF TypeOK
  <2> QED
    BY <1>2, <1>6, <1>9, <2>1, <2>2 DEF AnswerCheckpoint
<1>10. ASSUME NEW p \in Peers, SendUpdate(p) PROVE [Board!Next]_(Board!boardVars)
  <2>1. frame[p] \subseteq row.state /\ frame[p] \in SUBSET Updates
    BY <1>1, <1>10, RoomIsDurable DEF SendUpdate, Located, Holding, TypeOK
  <2>2. recipient[p] \in Peers
    BY <1>10 DEF SendUpdate, RoomInv, FanOutStaysInRoom, Members
  <2> QED
    BY <1>2, <1>5, <1>10, <2>1, <2>2 DEF SendUpdate
<1>11. ASSUME NEW p \in Peers, Acknowledge(p) PROVE [Board!Next]_(Board!boardVars)
  <2>1. frame[p] \subseteq row.state /\ frame[p] \in SUBSET Updates
    BY <1>1, <1>11, RoomIsDurable DEF Acknowledge, Located, Holding, TypeOK
  <2> QED
    BY <1>2, <1>6, <1>11, <2>1 DEF Acknowledge
<1>12. ASSUME NEW p \in Peers, \/ JoinNew(p) \/ JoinExisting(p) \/ JoinStale(p) \/ JoinRefused(p)
                               \/ Ready(p) \/ Notice(p) \/ \E q \in Peers : CheckRecipient(p, q)
                               \/ Authenticate(p) \/ Hello(p) \/ Disconnect(p) \/ Maintain(p)
       PROVE  [Board!Next]_(Board!boardVars)
  BY <1>2, <1>12 DEF JoinNew, JoinExisting, JoinStale, JoinRefused, Ready, Notice, CheckRecipient,
     Authenticate, Hello, Disconnect, Maintain, RevokeSession, ExpireSession
<1>13. ASSUME NEW p \in Peers, NEW place, NEW U, Request(p, place, U)
       PROVE  [Board!Next]_(Board!boardVars)
  BY <1>2, <1>13 DEF Request
<1>14. ASSUME NEW p \in Peers, \/ ReadTransaction(p) \/ LockTransaction(p) \/ CommitTransaction(p)
                               \/ CommitFails(p)
       PROVE  [Board!Next]_(Board!boardVars)
  BY <1>3, <1>14 DEF ReadTransaction, LockTransaction, CommitTransaction, CommitFails, ApplyFails,
     ApplyRejects
<1>15. ASSUME Environment PROVE [Board!Next]_(Board!boardVars)
  <2>1. CASE Restart
    <3>1. known' = [q \in Peers |-> IF q \in Peers THEN {} ELSE known[q]]
      BY <2>1 DEF Restart
    <3> QED
      BY <1>4, <2>1, <3>1 DEF Restart
  <2>2. CASE ~ Restart
    BY <1>3, <1>15, <2>2 DEF Environment, ChangePermission, LoseAuthority, ForeignCommit, Close
  <2> QED
    BY <2>1, <2>2
<1>16. CASE UNCHANGED vars
  BY <1>2, <1>16 DEF vars
<1> QED
  BY <1>7, <1>8, <1>9, <1>10, <1>11, <1>12, <1>13, <1>14, <1>15, <1>16 DEF Next, Client, Reader

(* What was acknowledged stays durable: the board only grows.              *)
LEMMA AcknowledgedStep == RoomInv /\ [Next]_vars => AcknowledgedIsDurable'
<1> SUFFICES ASSUME RoomInv, [Next]_vars PROVE AcknowledgedIsDurable'
  OBVIOUS
<1>1. [Board!Next]_(Board!boardVars)
  BY BoardStep
<1>2. \A p \in Peers : acked[p] \subseteq row.state
  BY DEF RoomInv, AcknowledgedIsDurable
<1> QED
  BY <1>1, <1>2 DEF RoomInv, TypeOK, AcknowledgedIsDurable, Board!Next, Board!boardVars, Board!Commit,
     Board!Acknowledge, Board!Disclose, Board!Forget

-----------------------------------------------------------------------------
(* The theorems.                                                           *)

LEMMA InitRoomInv == Init => RoomInv
<1> SUFFICES ASSUME Init PROVE RoomInv
  OBVIOUS
<1> USE EmptyTypes DEF Init
<1>1. TypeOK
  BY DEF TypeOK, Permissions, Stages, Places
<1>2. Located /\ OneSerialRoom /\ FanOutStaysInRoom /\ WriterMayEdit /\ FrameIsNew
  BY DEF Located, OneSerialRoom, FanOutStaysInRoom, WriterMayEdit, FrameIsNew, Holding, InTransaction
<1>3. Snapshots
  <2>1. \A doc \in InMemory : doc = row
    BY DEF InMemory, EmptyRoom
  <2>2. row.rev <= row.rev
    BY DEF EmptyDocument
  <2> QED
    BY <2>1, <2>2 DEF Snapshots, Committed
<1>4. AcknowledgedIsDurable /\ RoomIsAhead /\ FailedRoomIsStopped
  BY DEF AcknowledgedIsDurable, RoomIsAhead, FailedRoomIsStopped
<1> QED
  BY <1>1, <1>2, <1>3, <1>4 DEF RoomInv

(* RoomInv is inductive.                                                   *)
LEMMA RoomInvStep == RoomInv /\ [Next]_vars => RoomInv'
<1> SUFFICES ASSUME RoomInv, [Next]_vars PROVE RoomInv'
  OBVIOUS
<1>1. TypeOK' /\ Located' /\ FanOutStaysInRoom'
  BY TypeStep, LocatedStep, FanOutStep DEF RoomInv
<1>2. OneSerialRoom' /\ FailedRoomIsStopped' /\ WriterMayEdit'
  BY OneSerialRoomStep, FailedRoomStep, WriterStep DEF RoomInv
<1>3. Snapshots' /\ FrameIsNew'
  BY SnapshotsStep, FrameIsNewStep DEF RoomInv
<1>4. RoomIsAhead' /\ AcknowledgedIsDurable'
  BY RoomIsAheadStep, AcknowledgedStep
<1> QED
  BY <1>1, <1>2, <1>3, <1>4 DEF RoomInv

(* The invariant of rooms holds in every state of every behaviour.         *)
THEOREM RoomInvariance == Spec => []RoomInv
  BY InitRoomInv, RoomInvStep, PTL DEF Spec

(* Every variable keeps its type.                                          *)
THEOREM TypeCorrectness == Spec => []TypeOK
<1>1. RoomInv => TypeOK
  BY DEF RoomInv
<1> QED
  BY <1>1, RoomInvariance, PTL

(* One room per board, one peer at a time inside its mutex.                *)
THEOREM Serialization == Spec => []OneSerialRoom
<1>1. RoomInv => OneSerialRoom
  BY DEF RoomInv
<1> QED
  BY <1>1, RoomInvariance, PTL

(* The room's document is never ahead of, and never differs from, the row. *)
THEOREM CommittedRooms == Spec => []RoomIsCommitted
<1>1. RoomInv => RoomIsCommitted
  BY DEF RoomInv, Snapshots, InMemory, RoomIsCommitted
<1> QED
  BY <1>1, RoomInvariance, PTL

(* An acknowledgement is never withdrawn.                                  *)
THEOREM Durability == Spec => []AcknowledgedIsDurable
<1>1. RoomInv => AcknowledgedIsDurable
  BY DEF RoomInv
<1> QED
  BY <1>1, RoomInvariance, PTL

(* A client that comes back finds what it was told is saved.               *)
THEOREM ReadYourWrites == Spec => []ReadsOwnSavedChanges
<1>1. RoomInv => ReadsOwnSavedChanges
  BY DEF RoomInv, Located, RoomIsAhead, ReadsOwnSavedChanges
<1> QED
  BY <1>1, RoomInvariance, PTL

(* A failed room has only stopped members.                                 *)
THEOREM FailedRooms == Spec => []FailedRoomIsStopped
<1>1. RoomInv => FailedRoomIsStopped
  BY DEF RoomInv
<1> QED
  BY <1>1, RoomInvariance, PTL

(* While this runtime holds the board, only a user who may edit writes it. *)
THEOREM AuthorizedCommits == Spec => CommitsAreAuthorized
<1> DEFINE Authorized == row' # row /\ authority => \E p \in Peers : pc[p] = "locked" /\ perm[p] = "edit"
<1>1. RoomInv /\ [Next]_vars => [Authorized]_vars
  <2> SUFFICES ASSUME RoomInv, Next, row' # row, authority
               PROVE  \E p \in Peers : pc[p] = "locked" /\ perm[p] = "edit"
    OBVIOUS
  <2> USE DEF dbVars
  <2>1. ASSUME NEW p \in Peers, CommitTransaction(p) \/ CommitFails(p)
        PROVE  pc[p] = "locked" /\ perm[p] = "edit"
    BY <2>1 DEF CommitTransaction, CommitFails, RoomInv, WriterMayEdit
  <2>2. ASSUME NEW p \in Peers, Client(p) \/ Maintain(p) PROVE FALSE
    BY <2>2 DEF Client, Connect, Authenticate, Hello, Request, Disconnect, Maintain, RevokeSession,
                ExpireSession
  <2>3. ASSUME NEW p \in Peers, JoinNew(p) \/ JoinExisting(p) \/ JoinStale(p) \/ JoinRefused(p) \/ Ready(p)
        PROVE  FALSE
    BY <2>3 DEF JoinNew, JoinExisting, JoinStale, JoinRefused, Ready
  <2>4. ASSUME NEW p \in Peers, \/ AnswerStep1(p) \/ AnswerCheckpoint(p) \/ ReadTransaction(p)
                                \/ LockTransaction(p)
        PROVE  FALSE
    BY <2>4 DEF AnswerStep1, AnswerCheckpoint, ReadTransaction, LockTransaction
  <2>5. ASSUME NEW p \in Peers, \/ Notice(p) \/ SendUpdate(p) \/ Acknowledge(p) \/ Leave(p)
                                \/ \E q \in Peers : CheckRecipient(p, q)
        PROVE  FALSE
    BY <2>5 DEF Notice, SendUpdate, Acknowledge, Leave, CheckRecipient
  <2>6. ~ Environment
    BY DEF Environment, ChangePermission, LoseAuthority, ForeignCommit, Close, Restart
  <2> QED
    BY <2>1, <2>2, <2>3, <2>4, <2>5, <2>6 DEF Next, Reader
<1> QED
  BY <1>1, RoomInvariance, PTL DEF Spec, CommitsAreAuthorized

(* Rooms, sockets, aborts, lost responses and restarts together are an     *)
(* implementation of the durable board.                                    *)
THEOREM Refinement == Spec => ImplementsDurableBoard
<1>1. Init => Board!Init
  BY DEF Init, Board!Init, EmptyDocument, Board!EmptyDocument
<1>2. RoomInv /\ [Next]_vars => [Board!Next]_(Board!boardVars)
  BY BoardStep
<1> QED
  BY <1>1, <1>2, RoomInvariance, PTL DEF Spec, ImplementsDurableBoard, Board!Spec

-----------------------------------------------------------------------------
(***************************************************************************)
(* Who is sent what.  RoomInv is proved inductive above; here DeliveryInv  *)
(* is, and with it that fan-outs leave no synchronized client behind and   *)
(* that nothing committed after a revocation reaches the revoked user.     *)
(***************************************************************************)

-----------------------------------------------------------------------------
(* What a step does to a peer that stays in its room.                      *)

(* The row, the permissions and what users have seen change together.      *)
LEMMA VisibilityStep ==
  ASSUME [Next]_vars
  PROVE  \/ UNCHANGED <<row, perm, visible>>
         \/ visible' = Witnessed(row', perm') /\ (row' = row \/ perm' = perm)
<1> DEFINE Seen == \/ UNCHANGED <<row, perm, visible>>
                   \/ visible' = Witnessed(row', perm') /\ (row' = row \/ perm' = perm)
<1> USE DEF dbVars, historyVars, Witnessed
<1>1. ASSUME NEW p \in Peers, Client(p) \/ Maintain(p) PROVE Seen
  BY <1>1 DEF Client, Connect, Authenticate, Hello, Request, Disconnect, Maintain, RevokeSession,
              ExpireSession
<1>2. ASSUME NEW p \in Peers, \/ JoinNew(p) \/ JoinExisting(p) \/ JoinStale(p) \/ JoinRefused(p)
                              \/ Ready(p) \/ AnswerStep1(p) \/ AnswerCheckpoint(p)
      PROVE  Seen
  BY <1>2 DEF JoinNew, JoinExisting, JoinStale, JoinRefused, Ready, AnswerStep1, AnswerCheckpoint
<1>3. ASSUME NEW p \in Peers, ReadTransaction(p) \/ LockTransaction(p) PROVE Seen
  BY <1>3 DEF ReadTransaction, LockTransaction, ApplyFails, ApplyRejects
<1>4. ASSUME NEW p \in Peers, CommitTransaction(p) \/ CommitFails(p) PROVE Seen
  BY <1>4 DEF CommitTransaction, CommitFails
<1>5. ASSUME NEW p \in Peers, \/ Notice(p) \/ SendUpdate(p) \/ Acknowledge(p) \/ Leave(p)
                              \/ \E q \in Peers : CheckRecipient(p, q)
      PROVE  Seen
  BY <1>5 DEF Notice, SendUpdate, Acknowledge, Leave, CheckRecipient
<1>6. ASSUME Environment PROVE Seen
  BY <1>6 DEF Environment, ChangePermission, LoseAuthority, ForeignCommit, Close, Restart
<1>7. CASE UNCHANGED vars
  BY <1>7 DEF vars
<1> QED
  BY <1>1, <1>2, <1>3, <1>4, <1>5, <1>6, <1>7 DEF Next, Reader

(* What a user has seen only grows, and never beyond the row.              *)
LEMMA VisibleGrows ==
  ASSUME RoomInv, ReadersSeeTheRow, [Next]_vars
  PROVE  ReadersSeeTheRow' /\ \A p \in Peers : visible[p] \subseteq visible'[p]
<1>1. row.state \subseteq row'.state
  BY RowStep DEF RowGrows, RoomInv
<1>2. CASE UNCHANGED <<row, perm, visible>>
  BY <1>2 DEF ReadersSeeTheRow
<1>3. CASE visible' = Witnessed(row', perm')
  <2>1. \A p \in Peers : visible'[p] = IF perm'[p] = "none" THEN visible[p] ELSE row'.state
    BY <1>3 DEF Witnessed
  <2> QED
    BY <1>1, <2>1 DEF ReadersSeeTheRow
<1> QED
  BY <1>2, <1>3, VisibilityStep

(* The room of a peer that stays in it forgets nothing the peer missed.    *)
LEMMA MissedGrows ==
  ASSUME TypeOK, [Next]_vars, NEW p \in Peers, roomOf[p] # None, roomOf'[p] # None
  PROVE  rooms[roomOf[p]].missed[p] \subseteq rooms'[roomOf[p]].missed[p]
<1> DEFINE room == roomOf[p]
           Grows == rooms[room].missed[p] \subseteq rooms'[room].missed[p]
<1>1. /\ room \in Rooms /\ rooms \in [Rooms -> RoomStates]
      /\ roomOf \in [Peers -> Rooms \cup {None}]
  BY DEF TypeOK
<1>2. ASSUME NEW q \in Peers, NEW r, NEW doc,
             \/ rooms' = rooms
             \/ rooms' = [rooms EXCEPT ![r].failed = TRUE]
             \/ rooms' = [rooms EXCEPT ![r].doc = doc]
      PROVE  Grows
  <2>1. rooms[room] \in RoomStates
    BY <1>1
  <2>2. rooms' = [rooms EXCEPT ![r].failed = TRUE] => rooms'[room].missed = rooms[room].missed
    BY <1>1, <2>1 DEF RoomStates
  <2>3. rooms' = [rooms EXCEPT ![r].doc = doc] => rooms'[room].missed = rooms[room].missed
    BY <1>1, <2>1 DEF RoomStates
  <2> QED
    BY <1>2, <2>2, <2>3
<1> USE DEF dbVars, roomVars, applyVars, historyVars
<1>3. ASSUME NEW q \in Peers, Client(q) \/ Maintain(q) PROVE rooms' = rooms
  BY <1>3 DEF Client, Connect, Authenticate, Hello, Request, Disconnect, Maintain,
              RevokeSession, ExpireSession
<1>4. ASSUME NEW q \in Peers, JoinNew(q) PROVE Grows
  <2>1. PICK r \in Rooms : Members(r) = {} /\ rooms' = [rooms EXCEPT ![r] = [EmptyRoom EXCEPT !.doc = loaded[q]]]
    BY <1>4 DEF JoinNew
  <2>2. r # room
    BY <2>1 DEF Members
  <2> QED
    BY <1>1, <2>1, <2>2
<1>5. ASSUME NEW q \in Peers, \/ JoinExisting(q) \/ JoinRefused(q) \/ Ready(q) \/ AnswerStep1(q)
                              \/ AnswerCheckpoint(q) \/ SendUpdate(q) \/ Acknowledge(q)
                              \/ \E x \in Peers : CheckRecipient(q, x)
      PROVE  rooms' = rooms
  BY <1>5 DEF JoinExisting, JoinRefused, Ready, AnswerStep1, AnswerCheckpoint, SendUpdate,
              Acknowledge, CheckRecipient
<1>6. ASSUME NEW q \in Peers, \/ JoinStale(q) \/ ReadTransaction(q) \/ LockTransaction(q)
                              \/ CommitTransaction(q) \/ CommitFails(q)
      PROVE  Grows
  <2>1. \/ rooms' = rooms
        \/ \E r : rooms' = [rooms EXCEPT ![r].failed = TRUE]
        \/ \E r, doc : rooms' = [rooms EXCEPT ![r].doc = doc]
    BY <1>6 DEF JoinStale, ReadTransaction, LockTransaction, CommitTransaction, CommitFails,
                ApplyFails, ApplyRejects, AbortAndFail
  <2> QED
    BY <1>2, <2>1
<1>7. ASSUME NEW q \in Peers, Notice(q) PROVE Grows
  <2>1. CASE rooms' = rooms
    BY <2>1
  <2>2. CASE rooms' # rooms
    <3>1. PICK others : rooms' = [rooms EXCEPT ![roomOf[q]].missed = AlsoMissed(@, others, frame[q])]
      BY <1>7, <2>2 DEF Notice
    <3>2. CASE roomOf[q] = room
      <4>1. rooms'[room].missed = AlsoMissed(rooms[room].missed, others, frame[q])
        BY <1>1, <3>1, <3>2 DEF RoomStates
      <4> QED
        BY <4>1 DEF AlsoMissed
    <3>3. CASE roomOf[q] # room
      BY <1>1, <3>1, <3>3
    <3> QED
      BY <3>2, <3>3
  <2> QED
    BY <2>1, <2>2
<1>8. ASSUME NEW q \in Peers, Leave(q) PROVE Grows
  <2>1. q # p
    BY <1>1, <1>8 DEF Leave
  <2>2. rooms' = rooms \/ (Members(roomOf[q]) = {q} /\ rooms' = [rooms EXCEPT ![roomOf[q]] = EmptyRoom])
    BY <1>8 DEF Leave
  <2>3. Members(roomOf[q]) = {q} => roomOf[q] # room
    BY <2>1 DEF Members
  <2> QED
    BY <1>1, <2>2, <2>3
<1>9. ASSUME Environment PROVE rooms' = rooms
  BY <1>9 DEF Environment, ChangePermission, LoseAuthority, ForeignCommit, Close, Restart
<1>10. CASE UNCHANGED vars
  BY <1>10 DEF vars
<1> HIDE DEF Grows
<1>11. rooms' = rooms => Grows
  BY DEF Grows
<1> QED
  BY <1>3, <1>4, <1>5, <1>6, <1>7, <1>8, <1>9, <1>10, <1>11 DEF Next, Reader, Grows

(* A peer that stays in its room stays ready and stopped if it was, keeps  *)
(* what it knows, and the room keeps what it has missed.                   *)
LEMMA MemberStep ==
  ASSUME RoomInv, [Next]_vars, NEW p \in Peers, roomOf[p] # None, roomOf'[p] # None
  PROVE  /\ roomOf'[p] = roomOf[p]
         /\ stage[p] = "ready" => stage'[p] = "ready"
         /\ stopped[p] => stopped'[p]
         /\ known[p] \subseteq known'[p]
         /\ Missed(p) \subseteq Missed(p)'
<1> DEFINE Stays == /\ roomOf'[p] = roomOf[p]
                    /\ stage[p] = "ready" => stage'[p] = "ready"
                    /\ stopped[p] => stopped'[p]
                    /\ known[p] \subseteq known'[p]
<1>1. TypeOK /\ Located /\ OneSerialRoom /\ roomOf[p] \in Rooms
  BY DEF RoomInv, TypeOK
<1>2. /\ pc \in [Peers -> Places] /\ stage \in [Peers -> Stages] /\ stopped \in [Peers -> BOOLEAN]
      /\ known \in [Peers -> SUBSET Updates] /\ roomOf \in [Peers -> Rooms \cup {None}]
      /\ rooms \in [Rooms -> RoomStates]
  BY <1>1 DEF TypeOK
<1> USE <1>1, <1>2 DEF Goto, Fail, AbortAndFail, dbVars, roomVars, applyVars, historyVars
<1>3. ASSUME NEW q \in Peers, Client(q) \/ Maintain(q) PROVE Stays
  BY <1>3 DEF Located, Client, Connect, Authenticate, Hello, Request, Disconnect, Maintain,
              RevokeSession, ExpireSession
<1>4. ASSUME NEW q \in Peers, JoinNew(q) PROVE Stays
  BY <1>4 DEF Located, JoinNew, Members
<1>5. ASSUME NEW q \in Peers, \/ JoinExisting(q) \/ JoinStale(q) \/ JoinRefused(q) \/ Ready(q)
                              \/ AnswerStep1(q) \/ AnswerCheckpoint(q)
      PROVE  Stays
  BY <1>5 DEF Located, JoinExisting, JoinStale, JoinRefused, Ready, AnswerStep1, AnswerCheckpoint
<1>6. ASSUME NEW q \in Peers, ReadTransaction(q) PROVE Stays
  <2>1. \/ rooms' = rooms \/ rooms' = [rooms EXCEPT ![roomOf[q]].failed = TRUE]
        \/ rooms' = [rooms EXCEPT ![roomOf[q]].doc = row]
    BY <1>6 DEF ReadTransaction, ApplyFails, ApplyRejects
  <2> QED
    BY <1>6, <2>1 DEF ReadTransaction, ApplyFails, ApplyRejects
<1>7. ASSUME NEW q \in Peers, LockTransaction(q) PROVE Stays
  BY <1>7 DEF LockTransaction, ApplyFails, ApplyRejects
<1>8. ASSUME NEW q \in Peers, CommitTransaction(q) \/ CommitFails(q) PROVE Stays
  BY <1>8 DEF CommitTransaction, CommitFails
<1>9. ASSUME NEW q \in Peers, Notice(q) PROVE Stays
  BY <1>9 DEF Notice
<1>10. ASSUME NEW q \in Peers, SendUpdate(q) \/ Acknowledge(q) \/ \E x \in Peers : CheckRecipient(q, x)
       PROVE  Stays
  BY <1>10 DEF SendUpdate, Acknowledge, CheckRecipient
<1>11. ASSUME NEW q \in Peers, Leave(q) PROVE Stays
  BY <1>11 DEF Leave, Members
<1>12. ASSUME Environment PROVE Stays
  BY <1>12 DEF Environment, ChangePermission, LoseAuthority, ForeignCommit, Close, Restart,
               Connected, Located
<1>13. ASSUME UNCHANGED vars PROVE Stays
  BY <1>13 DEF vars
<1> HIDE <1>1, <1>2 DEF Goto, Fail, AbortAndFail
<1>14. Stays
  BY <1>3, <1>4, <1>5, <1>6, <1>7, <1>8, <1>9, <1>10, <1>11, <1>12, <1>13 DEF Next, Reader
<1> QED
  BY <1>1, <1>14, MissedGrows DEF Stays, Missed

(* The document of an occupied room changes by the commit of a member.     *)
LEMMA DocumentStep ==
  ASSUME RoomInv, [Next]_vars, NEW p \in Peers, roomOf[p] # None, roomOf'[p] # None
  PROVE  \/ rooms'[roomOf[p]].doc = rooms[roomOf[p]].doc
         \/ \E a \in Peers : CommitTransaction(a) /\ roomOf[a] = roomOf[p]
<1> DEFINE Same == \/ rooms'[roomOf[p]].doc = rooms[roomOf[p]].doc
                   \/ \E a \in Peers : CommitTransaction(a) /\ roomOf[a] = roomOf[p]
<1>1. TypeOK /\ Located /\ OneSerialRoom /\ roomOf[p] \in Rooms
  BY DEF RoomInv, TypeOK
<1>2. roomOf \in [Peers -> Rooms \cup {None}] /\ rooms \in [Rooms -> RoomStates]
  BY <1>1 DEF TypeOK
<1> USE <1>1, <1>2 DEF RoomStates, Fail, AbortAndFail, dbVars, roomVars, applyVars, historyVars
<1>3. ASSUME NEW q \in Peers, Client(q) \/ Maintain(q) PROVE Same
  BY <1>3 DEF Client, Connect, Authenticate, Hello, Request, Disconnect, Maintain, RevokeSession,
              ExpireSession
<1>4. ASSUME NEW q \in Peers, JoinNew(q) PROVE Same
  BY <1>4 DEF JoinNew, Members
<1>5. ASSUME NEW q \in Peers, \/ JoinExisting(q) \/ JoinStale(q) \/ JoinRefused(q) \/ Ready(q)
                              \/ AnswerStep1(q) \/ AnswerCheckpoint(q)
      PROVE  Same
  BY <1>5 DEF JoinExisting, JoinStale, JoinRefused, Ready, AnswerStep1, AnswerCheckpoint
<1>6. ASSUME NEW q \in Peers, ReadTransaction(q) PROVE Same
  <2>1. CASE rooms' = rooms \/ rooms' = [rooms EXCEPT ![roomOf[q]].failed = TRUE]
    BY <2>1
  <2>2. CASE rooms' = [rooms EXCEPT ![roomOf[q]].doc = row] /\ row.rev = rooms[roomOf[q]].doc.rev
    <3>1. roomOf[q] \in Rooms
      BY <1>6 DEF ReadTransaction, Located
    <3>2. rooms[roomOf[q]].doc = row
      BY <2>2, <3>1 DEF RoomInv, Snapshots, Committed, InMemory
    <3> QED
      BY <2>2, <3>2
  <2> QED
    BY <1>6, <2>1, <2>2 DEF ReadTransaction, ApplyFails, ApplyRejects
<1>7. ASSUME NEW q \in Peers, LockTransaction(q) \/ CommitFails(q) PROVE Same
  BY <1>7 DEF LockTransaction, CommitFails, ApplyFails, ApplyRejects
<1>8. ASSUME NEW q \in Peers, CommitTransaction(q) PROVE Same
  <2>1. CASE roomOf[q] = roomOf[p]
    BY <1>8, <2>1
  <2>2. CASE roomOf[q] # roomOf[p]
    BY <1>8, <2>2 DEF CommitTransaction
  <2> QED
    BY <2>1, <2>2
<1>9. ASSUME NEW q \in Peers, Notice(q) PROVE Same
  BY <1>9 DEF Notice
<1>10. ASSUME NEW q \in Peers, SendUpdate(q) \/ Acknowledge(q) \/ \E x \in Peers : CheckRecipient(q, x)
       PROVE  Same
  BY <1>10 DEF SendUpdate, Acknowledge, CheckRecipient
<1>11. ASSUME NEW q \in Peers, Leave(q) PROVE Same
  BY <1>11 DEF Leave, Members
<1>12. ASSUME Environment PROVE Same
  BY <1>12 DEF Environment, ChangePermission, LoseAuthority, ForeignCommit, Close, Restart
<1>13. CASE UNCHANGED vars
  BY <1>13 DEF vars
<1> HIDE <1>1, <1>2 DEF Fail, AbortAndFail, RoomStates
<1> QED
  BY <1>3, <1>4, <1>5, <1>6, <1>7, <1>8, <1>9, <1>10, <1>11, <1>12, <1>13 DEF Next, Reader

(* The steps of a peer between its commit and its acknowledgement; while   *)
(* others step, or it waits, its fan-out stays as it is.                   *)
FanOutMoves(q) ==
  \/ Notice(q) \/ SendUpdate(q) \/ Acknowledge(q) \/ \E x \in Peers : CheckRecipient(q, x)

(* A peer between commit and acknowledgement that does not step waits.     *)
LEMMA FanOutWaits ==
  ASSUME RoomInv, [Next]_vars, NEW q \in Peers, pc[q] \in {"committed", "fanout", "sending"},
         ~ FanOutMoves(q), roomOf'[q] # None
  PROVE  pc'[q] = pc[q] /\ todo'[q] = todo[q] /\ recipient'[q] = recipient[q] /\ frame'[q] = frame[q]
<1> DEFINE Waits == /\ pc'[q] = pc[q] /\ todo'[q] = todo[q] /\ recipient'[q] = recipient[q]
                    /\ frame'[q] = frame[q]
<1>1. TypeOK
  BY DEF RoomInv
<1>2. /\ pc \in [Peers -> Places] /\ todo \in [Peers -> SUBSET Peers]
      /\ recipient \in [Peers -> Peers \cup {None}] /\ frame \in [Peers -> SUBSET Updates]
      /\ roomOf \in [Peers -> Rooms \cup {None}]
  BY <1>1 DEF TypeOK
<1> USE <1>2 DEF Goto, Fail, AbortAndFail, dbVars, roomVars, applyVars, historyVars
<1>3. ASSUME NEW p \in Peers, Client(p) \/ Maintain(p) PROVE Waits
  BY <1>3 DEF Client, Connect, Authenticate, Hello, Request, Disconnect, Maintain, RevokeSession,
              ExpireSession
<1>4. ASSUME NEW p \in Peers, \/ JoinNew(p) \/ JoinExisting(p) \/ JoinStale(p) \/ JoinRefused(p)
                              \/ Ready(p) \/ AnswerStep1(p) \/ AnswerCheckpoint(p)
      PROVE  Waits
  BY <1>4 DEF JoinNew, JoinExisting, JoinStale, JoinRefused, Ready, AnswerStep1, AnswerCheckpoint
<1>5. ASSUME NEW p \in Peers, ReadTransaction(p) \/ LockTransaction(p) PROVE Waits
  BY <1>5 DEF ReadTransaction, LockTransaction, ApplyFails, ApplyRejects
<1>6. ASSUME NEW p \in Peers, CommitTransaction(p) \/ CommitFails(p) PROVE Waits
  BY <1>6 DEF CommitTransaction, CommitFails
<1>7. ASSUME NEW p \in Peers, FanOutMoves(p) PROVE Waits
  BY <1>7 DEF FanOutMoves, Notice, SendUpdate, Acknowledge, CheckRecipient
<1>8. ASSUME NEW p \in Peers, Leave(p) PROVE Waits
  BY <1>8 DEF Leave
<1>9. ASSUME Environment PROVE Waits
  BY <1>9 DEF Environment, ChangePermission, LoseAuthority, ForeignCommit, Close, Restart
<1>10. CASE UNCHANGED vars
  BY <1>10 DEF vars
<1> HIDE <1>2 DEF Goto, Fail, AbortAndFail
<1> QED
  BY <1>3, <1>4, <1>5, <1>6, <1>7, <1>8, <1>9, <1>10 DEF Next, Reader, FanOutMoves

-----------------------------------------------------------------------------
(* Sessions and transactions.                                              *)

(* Requests are taken from ready sessions only, and readiness ends with    *)
(* the session.                                                            *)
LEMMA ServedStep == RoomInv /\ ServedAreReady /\ [Next]_vars => ServedAreReady'
<1> SUFFICES ASSUME RoomInv, ServedAreReady, [Next]_vars PROVE ServedAreReady'
  OBVIOUS
<1>1. TypeOK /\ Located
  BY DEF RoomInv
<1> USE <1>1 DEF TypeOK, ServedAreReady, Holding, InTransaction, Goto, Fail, AbortAndFail,
        dbVars, roomVars, applyVars, historyVars
<1>2. ASSUME NEW p \in Peers, Client(p) \/ Maintain(p) PROVE ServedAreReady'
  BY <1>2 DEF Client, Connect, Authenticate, Hello, Request, Disconnect, Maintain, RevokeSession,
              ExpireSession
<1>3. ASSUME NEW p \in Peers, JoinNew(p) \/ JoinExisting(p) \/ JoinStale(p) \/ JoinRefused(p) \/ Ready(p)
      PROVE  ServedAreReady'
  BY <1>3 DEF JoinNew, JoinExisting, JoinStale, JoinRefused, Ready
<1>4. ASSUME NEW p \in Peers, AnswerStep1(p) \/ AnswerCheckpoint(p) PROVE ServedAreReady'
  BY <1>4 DEF AnswerStep1, AnswerCheckpoint
<1>5. ASSUME NEW p \in Peers, ReadTransaction(p) \/ LockTransaction(p) PROVE ServedAreReady'
  BY <1>5 DEF ReadTransaction, LockTransaction, ApplyFails, ApplyRejects
<1>6. ASSUME NEW p \in Peers, CommitTransaction(p) \/ CommitFails(p) PROVE ServedAreReady'
  BY <1>6 DEF CommitTransaction, CommitFails
<1>7. ASSUME NEW p \in Peers, FanOutMoves(p) PROVE ServedAreReady'
  BY <1>7 DEF FanOutMoves, Notice, SendUpdate, Acknowledge, CheckRecipient
<1>8. ASSUME NEW p \in Peers, Leave(p) PROVE ServedAreReady'
  BY <1>8 DEF Leave
<1>9. ASSUME Environment PROVE ServedAreReady'
  BY <1>9 DEF Environment, ChangePermission, LoseAuthority, ForeignCommit, Close, Restart
<1>10. CASE UNCHANGED vars
  BY <1>10 DEF vars
<1> HIDE <1>1 DEF TypeOK, ServedAreReady, Holding, InTransaction, Goto, Fail, AbortAndFail
<1> QED
  BY <1>2, <1>3, <1>4, <1>5, <1>6, <1>7, <1>8, <1>9, <1>10 DEF Next, Reader, FanOutMoves

(* A transaction begins with the room's document and goes on with it, or   *)
(* ends: its holder alone could change the document meanwhile.             *)
LEMMA TransactionEntry ==
  ASSUME RoomInv, [Next]_vars, NEW p \in Peers, pc'[p] \in InTransaction
  PROVE  \/ pc[p] \in InTransaction /\ loaded'[p] = loaded[p]
         \/ /\ pc[p] = "update" /\ roomOf[p] # None
            /\ loaded'[p] = row /\ row.rev = rooms[roomOf[p]].doc.rev /\ UNCHANGED rooms
<1> DEFINE Enters == \/ pc[p] \in InTransaction /\ loaded'[p] = loaded[p]
                     \/ /\ pc[p] = "update" /\ roomOf[p] # None
                        /\ loaded'[p] = row /\ row.rev = rooms[roomOf[p]].doc.rev /\ UNCHANGED rooms
<1>1. TypeOK /\ Located
  BY DEF RoomInv
<1>2. pc \in [Peers -> Places] /\ loaded \in [Peers -> Documents]
  BY <1>1 DEF TypeOK
<1>3. pc[p] = "update" => roomOf[p] # None
  BY <1>1 DEF Located
<1> USE <1>2, <1>3 DEF InTransaction, Goto, Fail, AbortAndFail, dbVars, roomVars, applyVars, historyVars
<1>4. ASSUME NEW q \in Peers, Client(q) \/ Maintain(q) PROVE Enters
  BY <1>4 DEF Client, Connect, Authenticate, Hello, Request, Disconnect, Maintain, RevokeSession,
              ExpireSession
<1>5. ASSUME NEW q \in Peers, \/ JoinNew(q) \/ JoinExisting(q) \/ JoinStale(q) \/ JoinRefused(q)
                              \/ Ready(q) \/ AnswerStep1(q) \/ AnswerCheckpoint(q)
      PROVE  Enters
  BY <1>5 DEF JoinNew, JoinExisting, JoinStale, JoinRefused, Ready, AnswerStep1, AnswerCheckpoint
<1>6. ASSUME NEW q \in Peers, ReadTransaction(q) PROVE Enters
  BY <1>6 DEF ReadTransaction, ApplyFails, ApplyRejects
<1>7. ASSUME NEW q \in Peers, LockTransaction(q) PROVE Enters
  BY <1>7 DEF LockTransaction, ApplyFails, ApplyRejects
<1>8. ASSUME NEW q \in Peers, CommitTransaction(q) \/ CommitFails(q) PROVE Enters
  BY <1>8 DEF CommitTransaction, CommitFails
<1>9. ASSUME NEW q \in Peers, FanOutMoves(q) PROVE Enters
  BY <1>9 DEF FanOutMoves, Notice, SendUpdate, Acknowledge, CheckRecipient
<1>10. ASSUME NEW q \in Peers, Leave(q) PROVE Enters
  BY <1>10 DEF Leave
<1>11. ASSUME Environment PROVE Enters
  BY <1>11 DEF Environment, ChangePermission, LoseAuthority, ForeignCommit, Close, Restart
<1>12. CASE UNCHANGED vars
  BY <1>12 DEF vars
<1> HIDE <1>2, <1>3 DEF InTransaction, Goto, Fail, AbortAndFail
<1> QED
  BY <1>4, <1>5, <1>6, <1>7, <1>8, <1>9, <1>10, <1>11, <1>12 DEF Next, Reader, FanOutMoves

(* TransactionsAreCurrent is preserved.                                    *)
LEMMA TransactionsStep ==
  RoomInv /\ RoomInv' /\ TransactionsAreCurrent /\ [Next]_vars => TransactionsAreCurrent'
<1> SUFFICES ASSUME RoomInv, RoomInv', TransactionsAreCurrent, [Next]_vars,
                    NEW p \in Peers, pc'[p] \in InTransaction
             PROVE  loaded'[p] = rooms'[roomOf'[p]].doc
  BY DEF TransactionsAreCurrent
<1>1. roomOf'[p] # None
  BY DEF RoomInv, Located, Holding
<1>2. CASE pc[p] = "update" /\ roomOf[p] # None /\ loaded'[p] = row
           /\ row.rev = rooms[roomOf[p]].doc.rev /\ UNCHANGED rooms
  <2>1. roomOf'[p] = roomOf[p] /\ roomOf[p] \in Rooms
    BY <1>1, <1>2, MemberStep DEF RoomInv, TypeOK
  <2>2. rooms[roomOf[p]].doc = row
    BY <1>2, <2>1 DEF RoomInv, Snapshots, Committed, InMemory
  <2> QED
    BY <1>2, <2>1, <2>2
<1>3. CASE pc[p] \in InTransaction /\ loaded'[p] = loaded[p]
  <2>1. roomOf[p] # None
    BY <1>3 DEF RoomInv, Located, Holding
  <2>2. roomOf'[p] = roomOf[p]
    BY <1>1, <2>1, MemberStep
  <2>3. ASSUME NEW a \in Peers, CommitTransaction(a) PROVE FALSE
    <3>1. a = p
      BY <1>3, <2>3 DEF CommitTransaction, RoomInv, OneSerialRoom, Holding, InTransaction
    <3>2. pc'[p] = "committed"
      BY <2>3, <3>1 DEF CommitTransaction, Goto, RoomInv, TypeOK
    <3> QED
      BY <3>2 DEF InTransaction
  <2>4. rooms'[roomOf[p]].doc = rooms[roomOf[p]].doc
    BY <1>1, <2>1, <2>3, DocumentStep
  <2> QED
    BY <1>3, <2>2, <2>4 DEF TransactionsAreCurrent
<1> QED
  BY <1>2, <1>3, TransactionEntry

-----------------------------------------------------------------------------
(* What is sent, and to whom.                                              *)

(* A peer has a change to send from its commit, or from finding the change *)
(* in a row that it may read, until its acknowledgement.                   *)
LEMMA CarriesEntry ==
  ASSUME RoomInv, [Next]_vars, NEW p \in Peers, pc'[p] \in {"committed", "fanout", "sending"}
  PROVE  \/ pc[p] \in {"committed", "fanout", "sending"} /\ frame'[p] = frame[p]
         \/ CommitTransaction(p)
         \/ pc'[p] = "fanout" /\ UNCHANGED frame /\ frame[p] \subseteq row.state /\ perm[p] # "none"
<1> DEFINE Enters == \/ pc[p] \in {"committed", "fanout", "sending"} /\ frame'[p] = frame[p]
                     \/ CommitTransaction(p)
                     \/ /\ pc'[p] = "fanout" /\ UNCHANGED frame
                        /\ frame[p] \subseteq row.state /\ perm[p] # "none"
<1>1. pc \in [Peers -> Places] /\ frame \in [Peers -> SUBSET Updates]
  BY DEF RoomInv, TypeOK
<1> USE <1>1 DEF Goto, Fail, AbortAndFail, dbVars, roomVars, applyVars, historyVars
<1>2. ASSUME NEW q \in Peers, Client(q) \/ Maintain(q) PROVE Enters
  BY <1>2 DEF Client, Connect, Authenticate, Hello, Request, Disconnect, Maintain, RevokeSession,
              ExpireSession
<1>3. ASSUME NEW q \in Peers, \/ JoinNew(q) \/ JoinExisting(q) \/ JoinStale(q) \/ JoinRefused(q)
                              \/ Ready(q) \/ AnswerStep1(q) \/ AnswerCheckpoint(q)
      PROVE  Enters
  BY <1>3 DEF JoinNew, JoinExisting, JoinStale, JoinRefused, Ready, AnswerStep1, AnswerCheckpoint
<1>4. ASSUME NEW q \in Peers, ReadTransaction(q) PROVE Enters
  BY <1>4 DEF ReadTransaction, ApplyFails, ApplyRejects, Readable
<1>5. ASSUME NEW q \in Peers, LockTransaction(q) PROVE Enters
  BY <1>5 DEF LockTransaction, ApplyFails, ApplyRejects
<1>6. ASSUME NEW q \in Peers, CommitTransaction(q) \/ CommitFails(q) PROVE Enters
  BY <1>6 DEF CommitTransaction, CommitFails
<1>7. ASSUME NEW q \in Peers, FanOutMoves(q) PROVE Enters
  BY <1>7 DEF FanOutMoves, Notice, SendUpdate, Acknowledge, CheckRecipient
<1>8. ASSUME NEW q \in Peers, Leave(q) PROVE Enters
  BY <1>8 DEF Leave
<1>9. ASSUME Environment PROVE Enters
  BY <1>9 DEF Environment, ChangePermission, LoseAuthority, ForeignCommit, Close, Restart
<1>10. CASE UNCHANGED vars
  BY <1>10 DEF vars
<1> HIDE <1>1 DEF Goto, Fail, AbortAndFail
<1> QED
  BY <1>2, <1>3, <1>4, <1>5, <1>6, <1>7, <1>8, <1>9, <1>10 DEF Next, Reader, FanOutMoves

(* The sender of a change may read it.                                     *)
LEMMA SenderMayRead ==
  ASSUME RoomInv, DeliveryInv, [Next]_vars, NEW p \in Peers, pc'[p] \in {"committed", "fanout", "sending"}
  PROVE  frame'[p] \subseteq visible'[p]
<1>1. visible[p] \subseteq visible'[p]
  BY VisibleGrows DEF DeliveryInv
<1>2. CASE pc[p] \in {"committed", "fanout", "sending"} /\ frame'[p] = frame[p]
  BY <1>1, <1>2 DEF DeliveryInv, AnswersAreReadable
<1>3. CASE CommitTransaction(p)
  <2>1. perm[p] = "edit" /\ frame'[p] = frame[p]
    BY <1>3 DEF CommitTransaction, RoomInv, WriterMayEdit, applyVars
  <2>2. visible'[p] = Candidate(p).state
    BY <1>3, <2>1 DEF CommitTransaction, Witnessed
  <2> QED
    BY <2>1, <2>2 DEF Candidate
<1>4. CASE UNCHANGED frame /\ frame[p] \subseteq row.state /\ perm[p] # "none"
  BY <1>1, <1>4 DEF DeliveryInv, ReadersSeeTheRow
<1> QED
  BY <1>2, <1>3, <1>4, CarriesEntry

(* The recipient of a change may read it: it was checked after the commit. *)
LEMMA RecipientMayRead ==
  ASSUME RoomInv, RoomInv', DeliveryInv, [Next]_vars, NEW p \in Peers, pc'[p] = "sending"
  PROVE  frame'[p] \subseteq visible'[recipient'[p]]
<1>1. roomOf'[p] # None /\ pc \in [Peers -> Places] /\ recipient \in [Peers -> Peers \cup {None}]
  BY DEF RoomInv, TypeOK, Located, Holding
<1>2. pc[p] \in {"committed", "fanout", "sending"} /\ frame'[p] = frame[p]
  <2>1. ~ CommitTransaction(p)
    BY <1>1 DEF CommitTransaction, Goto
  <2> QED
    BY <2>1, CarriesEntry
<1>3. CASE FanOutMoves(p)
  <2>1. PICK q \in Peers : CheckRecipient(p, q)
    BY <1>1, <1>3 DEF FanOutMoves, Notice, SendUpdate, Acknowledge, Goto, Fail
  <2>2. pc[p] = "fanout" /\ perm[q] # "none" /\ recipient'[p] = q
    BY <1>1, <2>1 DEF CheckRecipient, Readable, Goto
  <2>3. frame[p] \subseteq row.state
    BY <1>1, <2>2, RoomIsDurable DEF RoomInv, Located, Holding
  <2>4. visible[q] = row.state /\ visible[q] \subseteq visible'[q]
    BY <2>2, VisibleGrows DEF DeliveryInv, ReadersSeeTheRow
  <2> QED
    BY <1>2, <2>2, <2>3, <2>4
<1>4. CASE ~ FanOutMoves(p)
  <2>1. pc[p] = "sending" /\ recipient'[p] = recipient[p]
    BY <1>1, <1>2, <1>4, FanOutWaits
  <2>2. recipient[p] \in Peers
    BY <2>1 DEF RoomInv, FanOutStaysInRoom, Members
  <2>3. visible[recipient[p]] \subseteq visible'[recipient[p]]
    BY <2>2, VisibleGrows DEF DeliveryInv
  <2> QED
    BY <1>2, <2>1, <2>3 DEF DeliveryInv, AnswersAreReadable
<1> QED
  BY <1>3, <1>4

(* A fan-out that still owes p a change goes on owing it, or reaches p:    *)
(* then p may read the row and is written to next, or is stopped, or has   *)
(* missed the change because the notice failed.                            *)
LEMMA OwesStep ==
  ASSUME RoomInv, ServedAreReady, [Next]_vars, NEW p \in Peers, NEW q \in Peers, Owes(q, p),
         stage[p] = "ready", roomOf[q] # None, roomOf'[p] # None, roomOf'[q] # None,
         ~ stopped'[p]
  PROVE  /\ frame'[q] = frame[q]
         /\ \/ Owes(q, p)'
            \/ q = p /\ pc'[q] = "fanout"
            \/ pc'[q] = "sending" /\ recipient'[q] = p /\ perm[p] # "none"
            \/ frame[q] \subseteq Missed(p)'
<1>1. TypeOK /\ roomOf[q] = roomOf[p] /\ roomOf[p] \in Rooms
  BY DEF Owes, RoomInv, TypeOK
<1>2. /\ pc \in [Peers -> Places] /\ recipient \in [Peers -> Peers \cup {None}]
      /\ todo \in [Peers -> SUBSET Peers] /\ stopped \in [Peers -> BOOLEAN]
      /\ rooms \in [Rooms -> RoomStates]
  BY <1>1 DEF TypeOK
<1>3. roomOf'[q] = roomOf[q] /\ roomOf'[p] = roomOf[p]
  BY <1>1, MemberStep
<1>4. pc[q] = "committed" \/ (pc[q] \in {"fanout", "sending"} /\ p \in todo[q])
  BY DEF Owes
<1> USE <1>1, <1>2, <1>3 DEF Goto, Fail, applyVars
<1>5. CASE Notice(q)
  <2> DEFINE others == {x \in Members(roomOf[q]) \ {q} : stage[x] = "ready"}
  <2>1. pc[q] = "committed" /\ frame' = frame
    BY <1>5 DEF Notice
  <2>2. p # q => p \in others
    BY DEF Members
  <2>3. CASE todo' = [todo EXCEPT ![q] = others] /\ pc' = [pc EXCEPT ![q] = "fanout"]
    BY <2>1, <2>2, <2>3 DEF Owes
  <2>4. CASE /\ rooms' = [rooms EXCEPT ![roomOf[q]].missed = AlsoMissed(@, others, frame[q])]
             /\ stopped' = [stopped EXCEPT ![q] = TRUE]
    <3>1. p \in others
      BY <2>2, <2>4
    <3> HIDE DEF others
    <3>2. rooms'[roomOf[p]].missed = AlsoMissed(rooms[roomOf[p]].missed, others, frame[q])
      BY <2>4 DEF RoomStates
    <3> QED
      BY <2>1, <3>1, <3>2 DEF Missed, AlsoMissed
  <2> QED
    BY <1>5, <2>3, <2>4 DEF Notice
<1>6. CASE SendUpdate(q)
  BY <1>4, <1>6 DEF SendUpdate, Owes
<1>7. CASE Acknowledge(q)
  BY <1>4, <1>7 DEF Acknowledge
<1>8. ASSUME NEW x \in Peers, CheckRecipient(q, x)
      PROVE  /\ frame'[q] = frame[q]
             /\ \/ Owes(q, p)'
                \/ pc'[q] = "sending" /\ recipient'[q] = p /\ perm[p] # "none"
  <2>1. CASE x = p
    BY <1>8, <2>1 DEF CheckRecipient, Readable
  <2>2. CASE x # p
    BY <1>4, <1>8, <2>2 DEF CheckRecipient, Owes
  <2> QED
    BY <2>1, <2>2
<1>9. CASE ~ FanOutMoves(q)
  <2>1. pc'[q] = pc[q] /\ todo'[q] = todo[q] /\ frame'[q] = frame[q]
    BY <1>4, <1>9, FanOutWaits
  <2> QED
    BY <1>4, <2>1 DEF Owes
<1> QED
  BY <1>5, <1>6, <1>7, <1>8, <1>9 DEF FanOutMoves

(* Only a request for the difference makes a peer wait for one.            *)
LEMMA AsksForStep1 ==
  ASSUME TypeOK, [Next]_vars, NEW p \in Peers, pc'[p] = "diff", pc[p] # "diff"
  PROVE  Request(p, "diff", {})
<1> DEFINE Asks == Request(p, "diff", {})
<1>1. pc \in [Peers -> Places]
  BY DEF TypeOK
<1> USE <1>1 DEF Goto, Fail, AbortAndFail, dbVars, roomVars, applyVars, historyVars
<1>2. ASSUME NEW q \in Peers, Client(q) PROVE Asks
  <2>1. CASE Connect(q) \/ Authenticate(q) \/ Hello(q) \/ Disconnect(q)
    BY <2>1 DEF Connect, Authenticate, Hello, Disconnect
  <2>2. ASSUME NEW U, Request(q, "save", U) \/ Request(q, "update", U) PROVE FALSE
    BY <2>2 DEF Request
  <2>3. CASE Request(q, "diff", {})
    <3>1. p = q
      BY <2>3 DEF Request
    <3> QED
      BY <2>3, <3>1
  <2> QED
    BY <1>2, <2>1, <2>2, <2>3 DEF Client
<1>3. ASSUME NEW q \in Peers, Maintain(q) PROVE Asks
  BY <1>3 DEF Maintain, RevokeSession, ExpireSession
<1>4. ASSUME NEW q \in Peers, \/ JoinNew(q) \/ JoinExisting(q) \/ JoinStale(q) \/ JoinRefused(q)
                              \/ Ready(q) \/ AnswerStep1(q) \/ AnswerCheckpoint(q)
      PROVE  Asks
  BY <1>4 DEF JoinNew, JoinExisting, JoinStale, JoinRefused, Ready, AnswerStep1, AnswerCheckpoint
<1>5. ASSUME NEW q \in Peers, ReadTransaction(q) \/ LockTransaction(q) PROVE Asks
  BY <1>5 DEF ReadTransaction, LockTransaction, ApplyFails, ApplyRejects
<1>6. ASSUME NEW q \in Peers, CommitTransaction(q) \/ CommitFails(q) PROVE Asks
  BY <1>6 DEF CommitTransaction, CommitFails
<1>7. ASSUME NEW q \in Peers, FanOutMoves(q) PROVE Asks
  BY <1>7 DEF FanOutMoves, Notice, SendUpdate, Acknowledge, CheckRecipient
<1>8. ASSUME NEW q \in Peers, Leave(q) PROVE Asks
  BY <1>8 DEF Leave
<1>9. ASSUME Environment PROVE Asks
  BY <1>9 DEF Environment, ChangePermission, LoseAuthority, ForeignCommit, Close, Restart
<1>10. CASE UNCHANGED vars
  BY <1>10 DEF vars
<1> HIDE <1>1 DEF Goto, Fail, AbortAndFail
<1> QED
  BY <1>2, <1>3, <1>4, <1>5, <1>6, <1>7, <1>8, <1>9, <1>10 DEF Next, Reader, FanOutMoves

(* While one member of a room stays, another one that is not closing stays *)
(* too: only a restart empties a room at once.                             *)
LEMMA FanOutKeepsRoom ==
  ASSUME TypeOK, [Next]_vars, NEW p \in Peers, NEW q \in Peers,
         roomOf[p] # None, roomOf'[p] # None, roomOf[q] # None, pc[q] # "closing"
  PROVE  roomOf'[q] # None
<1> DEFINE Stays == roomOf'[q] # None
<1>1. roomOf \in [Peers -> Rooms \cup {None}]
  BY DEF TypeOK
<1> USE <1>1, NoneAssumption DEF dbVars, roomVars, applyVars, historyVars
<1>2. ASSUME NEW x \in Peers, Client(x) \/ Maintain(x) PROVE Stays
  BY <1>2 DEF Client, Connect, Authenticate, Hello, Request, Disconnect, Maintain, RevokeSession,
              ExpireSession
<1>3. ASSUME NEW x \in Peers, \/ JoinNew(x) \/ JoinExisting(x) \/ JoinStale(x) \/ JoinRefused(x)
                              \/ Ready(x) \/ AnswerStep1(x) \/ AnswerCheckpoint(x)
      PROVE  Stays
  BY <1>3 DEF JoinNew, JoinExisting, JoinStale, JoinRefused, Ready, AnswerStep1, AnswerCheckpoint
<1>4. ASSUME NEW x \in Peers, ReadTransaction(x) \/ LockTransaction(x) PROVE Stays
  BY <1>4 DEF ReadTransaction, LockTransaction, ApplyFails, ApplyRejects
<1>5. ASSUME NEW x \in Peers, CommitTransaction(x) \/ CommitFails(x) PROVE Stays
  BY <1>5 DEF CommitTransaction, CommitFails
<1>6. ASSUME NEW x \in Peers, FanOutMoves(x) PROVE Stays
  BY <1>6 DEF FanOutMoves, Notice, SendUpdate, Acknowledge, CheckRecipient
<1>7. ASSUME NEW x \in Peers, Leave(x) PROVE Stays
  BY <1>7 DEF Leave
<1>8. ASSUME Environment PROVE Stays
  BY <1>8 DEF Environment, ChangePermission, LoseAuthority, ForeignCommit, Close, Restart
<1>9. CASE UNCHANGED vars
  BY <1>9 DEF vars
<1> HIDE <1>1
<1> QED
  BY <1>2, <1>3, <1>4, <1>5, <1>6, <1>7, <1>8, <1>9 DEF Next, Reader, FanOutMoves

(* A commit adds the committing peer's frame to the document of its room.  *)
LEMMA CommitAdds ==
  ASSUME TypeOK, TransactionsAreCurrent, NEW p \in Peers, NEW a \in Peers,
         CommitTransaction(a), roomOf[a] = roomOf[p], roomOf[p] # None
  PROVE  frame' = frame /\ rooms'[roomOf[p]].doc.state = rooms[roomOf[p]].doc.state \cup frame[a]
<1>1. pc[a] = "locked" /\ roomOf[p] \in Rooms
  BY DEF CommitTransaction, TypeOK
<1>2. loaded[a] = rooms[roomOf[p]].doc
  BY <1>1 DEF TransactionsAreCurrent, InTransaction
<1>3. rooms' = [rooms EXCEPT ![roomOf[p]].doc = Candidate(a)] /\ frame' = frame
  BY DEF CommitTransaction, applyVars
<1> QED
  BY <1>1, <1>2, <1>3 DEF Candidate, TypeOK, RoomStates

(* Whoever waits for the room to answer a Step1 asked while it could read  *)
(* the document, and what was committed since then is owed to it first, or *)
(* missed.                                                                 *)
LEMMA AnswersStep ==
  RoomInv /\ RoomInv' /\ DeliveryInv /\ [Next]_vars => AnswersAreReadable'
<1> SUFFICES ASSUME RoomInv, RoomInv', DeliveryInv, [Next]_vars, NEW p \in Peers,
                    pc'[p] = "diff", ~ stopped'[p]
             PROVE  \/ rooms'[roomOf'[p]].doc.state \subseteq visible'[p] \cup Missed(p)'
                    \/ \E q \in Peers :
                         /\ Owes(q, p)'
                         /\ rooms'[roomOf'[p]].doc.state \subseteq visible'[p] \cup Missed(p)' \cup frame'[q]
  BY SenderMayRead, RecipientMayRead DEF AnswersAreReadable
<1>1. roomOf'[p] # None /\ TypeOK
  BY DEF RoomInv, Located
<1>2. visible[p] \subseteq visible'[p] /\ (perm[p] # "none" => visible[p] = row.state)
  BY VisibleGrows DEF DeliveryInv, ReadersSeeTheRow
<1>3. CASE pc[p] # "diff"
  <2>1. Request(p, "diff", {})
    BY <1>1, <1>3, AsksForStep1
  <2>2. perm[p] # "none" /\ roomOf' = roomOf /\ rooms' = rooms
    BY <2>1 DEF Request, Readable, roomVars
  <2>3. rooms[roomOf[p]].doc.state \subseteq row.state
    BY <1>1, <2>2, RoomIsDurable
  <2> QED
    BY <1>2, <2>2, <2>3
<1>4. CASE pc[p] = "diff"
  <2>1. roomOf[p] # None /\ stage[p] = "ready"
    BY <1>4 DEF RoomInv, Located, DeliveryInv, ServedAreReady
  <2>2. roomOf'[p] = roomOf[p] /\ ~ stopped[p] /\ Missed(p) \subseteq Missed(p)'
    BY <1>1, <2>1, MemberStep
  <2>3. \/ rooms[roomOf[p]].doc.state \subseteq visible[p] \cup Missed(p)
        \/ \E q \in Peers : /\ Owes(q, p)
                            /\ rooms[roomOf[p]].doc.state \subseteq visible[p] \cup Missed(p) \cup frame[q]
    BY <1>4, <2>2 DEF DeliveryInv, AnswersAreReadable
  <2>4. ASSUME NEW a \in Peers, CommitTransaction(a), roomOf[a] = roomOf[p]
        PROVE  /\ Owes(a, p)'
               /\ rooms'[roomOf'[p]].doc.state \subseteq visible'[p] \cup Missed(p)' \cup frame'[a]
    <3>1. pc[a] = "locked"
      BY <2>4 DEF CommitTransaction
    <3>2. Owes(a, p)'
      BY <1>1, <2>2, <2>4 DEF CommitTransaction, Goto, Owes, TypeOK
    <3>3. frame' = frame /\ rooms'[roomOf[p]].doc.state = rooms[roomOf[p]].doc.state \cup frame[a]
      BY <1>1, <2>1, <2>4, CommitAdds DEF DeliveryInv
    <3>4. rooms[roomOf[p]].doc.state \subseteq visible[p] \cup Missed(p)
      <4>1. ASSUME NEW q \in Peers, Owes(q, p) PROVE FALSE
        <5>1. pc[q] \in {"committed", "fanout", "sending"} /\ roomOf[q] = roomOf[p]
          BY <4>1 DEF Owes
        <5> QED
          BY <2>1, <2>4, <3>1, <5>1 DEF RoomInv, OneSerialRoom, Holding, InTransaction
      <4> QED
        BY <2>3, <4>1
    <3> QED
      BY <1>2, <2>2, <3>2, <3>3, <3>4
  <2>5. CASE rooms'[roomOf[p]].doc = rooms[roomOf[p]].doc
    <3>1. rooms[roomOf[p]].doc.state \subseteq row.state
      BY <2>1, RoomIsDurable
    <3>2. ASSUME NEW q \in Peers, Owes(q, p)
          PROVE  \/ Owes(q, p)' /\ frame'[q] = frame[q]
                 \/ perm[p] # "none"
                 \/ frame[q] \subseteq Missed(p)'
      <4>1. roomOf[q] # None /\ q # p
        BY <1>4, <2>1, <3>2 DEF Owes
      <4>2. roomOf'[q] # None
        BY <1>1, <2>1, <2>2, <3>2, <4>1, FanOutKeepsRoom DEF Owes
      <4> QED
        BY <1>1, <2>1, <2>2, <3>2, <4>1, <4>2, OwesStep DEF DeliveryInv
    <3> QED
      BY <1>2, <2>2, <2>3, <2>5, <3>1, <3>2
  <2> QED
    BY <1>1, <2>1, <2>4, <2>5, DocumentStep
<1> QED
  BY <1>3, <1>4

(* A session learns changes by a difference, by a fan-out or by its own    *)
(* acknowledgement, and a difference is what synchronizes it.              *)
LEMMA LearnsStep ==
  ASSUME RoomInv, [Next]_vars, NEW p \in Peers
  PROVE  /\ \/ known'[p] \subseteq known[p]
            \/ /\ AnswerStep1(p) /\ ~ stopped[p]
               /\ known'[p] = known[p] \cup rooms[roomOf[p]].doc.state
            \/ \E q \in Peers : /\ SendUpdate(q) /\ recipient[q] = p
                                /\ known'[p] = known[p] \cup frame[q]
            \/ Acknowledge(p) /\ known'[p] = known[p] \cup frame[p]
         /\ synced'[p] /\ ~ synced[p] => AnswerStep1(p) /\ rooms[roomOf[p]].doc.state \subseteq known'[p]
<1> DEFINE Learns == \/ known'[p] \subseteq known[p]
                     \/ /\ AnswerStep1(p) /\ ~ stopped[p]
                        /\ known'[p] = known[p] \cup rooms[roomOf[p]].doc.state
                     \/ \E q \in Peers : /\ SendUpdate(q) /\ recipient[q] = p
                                         /\ known'[p] = known[p] \cup frame[q]
                     \/ Acknowledge(p) /\ known'[p] = known[p] \cup frame[p]
           Synchronizes == synced'[p] /\ ~ synced[p] =>
                              AnswerStep1(p) /\ rooms[roomOf[p]].doc.state \subseteq known'[p]
           Does == Learns /\ Synchronizes
<1>1. TypeOK
  BY DEF RoomInv
<1>2. known \in [Peers -> SUBSET Updates] /\ synced \in [Peers -> BOOLEAN]
  BY <1>1 DEF TypeOK
<1> USE <1>2 DEF dbVars, roomVars, applyVars, historyVars
<1>3. ASSUME NEW q \in Peers, Client(q) \/ Maintain(q) PROVE Does
  BY <1>3 DEF Client, Connect, Authenticate, Hello, Request, Disconnect, Maintain, RevokeSession,
              ExpireSession
<1>4. ASSUME NEW q \in Peers, JoinNew(q) \/ JoinExisting(q) \/ JoinStale(q) \/ JoinRefused(q) \/ Ready(q)
      PROVE  Does
  BY <1>4 DEF JoinNew, JoinExisting, JoinStale, JoinRefused, Ready
<1>5. ASSUME NEW q \in Peers, AnswerStep1(q) PROVE Does
  <2>1. CASE UNCHANGED <<known, synced>>
    BY <2>1
  <2>2. CASE q = p /\ ~ UNCHANGED <<known, synced>>
    BY <1>5, <2>2 DEF AnswerStep1
  <2>3. CASE q # p
    BY <1>5, <2>3 DEF AnswerStep1
  <2> QED
    BY <2>1, <2>2, <2>3
<1>6. ASSUME NEW q \in Peers, AnswerCheckpoint(q) PROVE Does
  BY <1>6 DEF AnswerCheckpoint
<1>7. ASSUME NEW q \in Peers, ReadTransaction(q) \/ LockTransaction(q) PROVE Does
  BY <1>7 DEF ReadTransaction, LockTransaction, ApplyFails, ApplyRejects
<1>8. ASSUME NEW q \in Peers, CommitTransaction(q) \/ CommitFails(q) PROVE Does
  BY <1>8 DEF CommitTransaction, CommitFails
<1>9. ASSUME NEW q \in Peers, Notice(q) \/ \E x \in Peers : CheckRecipient(q, x) PROVE Does
  BY <1>9 DEF Notice, CheckRecipient
<1>10. ASSUME NEW q \in Peers, SendUpdate(q) PROVE Does
  <2>1. synced' = synced
    BY <1>10 DEF SendUpdate
  <2>2. CASE known' = known
    BY <2>1, <2>2
  <2>3. CASE known' = [known EXCEPT ![recipient[q]] = @ \cup frame[q]]
    BY <1>10, <2>1, <2>3
  <2> QED
    BY <1>10, <2>2, <2>3 DEF SendUpdate
<1>11. ASSUME NEW q \in Peers, Acknowledge(q) PROVE Does
  <2>1. synced' = synced
    BY <1>11 DEF Acknowledge
  <2>2. CASE known' = known
    BY <2>1, <2>2
  <2>3. CASE known' = [known EXCEPT ![q] = @ \cup frame[q]]
    BY <1>11, <2>1, <2>3
  <2> QED
    BY <1>11, <2>2, <2>3 DEF Acknowledge
<1>12. ASSUME NEW q \in Peers, Leave(q) PROVE Does
  BY <1>12 DEF Leave
<1>13. ASSUME Environment PROVE Does
  BY <1>13 DEF Environment, ChangePermission, LoseAuthority, ForeignCommit, Close, Restart
<1>14. CASE UNCHANGED vars
  BY <1>14 DEF vars
<1> HIDE <1>2
<1>15. Does
  BY <1>3, <1>4, <1>5, <1>6, <1>7, <1>8, <1>9, <1>10, <1>11, <1>12, <1>13, <1>14 DEF Next, Reader
<1> QED
  BY <1>15

(* A difference is given only while nobody holds the room, so nothing      *)
(* committed is still owed; what is sent may be read, or was missed.       *)
LEMMA NoContentStep ==
  RoomInv /\ RoomInv' /\ DeliveryInv /\ [Next]_vars => NoContentAfterRevocation'
<1> SUFFICES ASSUME RoomInv, RoomInv', DeliveryInv, [Next]_vars, NEW p \in Peers,
                    roomOf'[p] # None
             PROVE  known'[p] \subseteq visible'[p] \cup Missed(p)'
  BY DEF NoContentAfterRevocation
<1>1. visible[p] \subseteq visible'[p]
  BY VisibleGrows DEF DeliveryInv
<1>2. known[p] \subseteq visible[p] \cup Missed(p)'
  <2>1. CASE roomOf[p] = None
    BY <2>1 DEF RoomInv, Located
  <2>2. CASE roomOf[p] # None
    <3>1. Missed(p) \subseteq Missed(p)'
      BY <2>2, MemberStep
    <3> QED
      BY <2>2, <3>1 DEF DeliveryInv, NoContentAfterRevocation
  <2> QED
    BY <2>1, <2>2
<1>3. CASE known'[p] \subseteq known[p]
  BY <1>1, <1>2, <1>3
<1>4. CASE /\ AnswerStep1(p) /\ ~ stopped[p]
           /\ known'[p] = known[p] \cup rooms[roomOf[p]].doc.state
  <2>1. pc[p] = "diff" /\ ~ RoomLocked(roomOf[p]) /\ roomOf[p] # None
    BY <1>4 DEF AnswerStep1, RoomInv, Located
  <2>2. Missed(p) \subseteq Missed(p)'
    BY <2>1, MemberStep
  <2>3. \A q \in Peers : ~ Owes(q, p)
    BY <2>1 DEF Owes, RoomLocked, Holding
  <2>4. rooms[roomOf[p]].doc.state \subseteq visible[p] \cup Missed(p)
    BY <1>4, <2>1, <2>3 DEF DeliveryInv, AnswersAreReadable
  <2> QED
    BY <1>1, <1>2, <1>4, <2>2, <2>4
<1>5. ASSUME NEW q \in Peers, SendUpdate(q), recipient[q] = p, known'[p] = known[p] \cup frame[q]
      PROVE  known'[p] \subseteq visible'[p] \cup Missed(p)'
  <2>1. frame[q] \subseteq visible[p]
    BY <1>5 DEF SendUpdate, DeliveryInv, AnswersAreReadable
  <2> QED
    BY <1>1, <1>2, <1>5, <2>1
<1>6. CASE Acknowledge(p) /\ known'[p] = known[p] \cup frame[p]
  <2>1. frame[p] \subseteq visible[p]
    BY <1>6 DEF Acknowledge, DeliveryInv, AnswersAreReadable
  <2> QED
    BY <1>1, <1>2, <1>6, <2>1
<1> QED
  BY <1>3, <1>4, <1>5, <1>6, LearnsStep

(* From its commit to its acknowledgement a frame is on its way to every   *)
(* ready member, or the member is stopped, or has missed it.               *)
LEMMA WritesStep ==
  ASSUME RoomInv, ServedAreReady, [Next]_vars, NEW p \in Peers, NEW q \in Peers, Writes(q, p),
         stage[p] = "ready", roomOf[q] # None, roomOf'[p] # None, roomOf'[q] # None,
         ~ stopped'[p]
  PROVE  \/ frame[q] \subseteq known'[p] \cup Missed(p)'
         \/ Writes(q, p)' /\ frame'[q] = frame[q]
<1>1. TypeOK /\ roomOf[q] = roomOf[p] /\ roomOf[p] \in Rooms
  BY DEF Writes, Owes, RoomInv, TypeOK
<1>2. roomOf'[q] = roomOf[q] /\ roomOf'[p] = roomOf[p]
  BY <1>1, MemberStep
<1>3. /\ pc \in [Peers -> Places] /\ recipient \in [Peers -> Peers \cup {None}]
      /\ stopped \in [Peers -> BOOLEAN] /\ known \in [Peers -> SUBSET Updates]
  BY <1>1 DEF TypeOK
<1>4. CASE Owes(q, p)
  BY <1>1, <1>2, <1>4, OwesStep DEF Writes
<1>5. CASE pc[q] = "sending" /\ recipient[q] = p
  <2>1. CASE SendUpdate(q)
    BY <1>3, <1>5, <2>1 DEF SendUpdate
  <2>2. CASE ~ SendUpdate(q)
    <3>1. ~ FanOutMoves(q)
      BY <1>5, <2>2 DEF FanOutMoves, Notice, Acknowledge, CheckRecipient
    <3> QED
      BY <1>1, <1>2, <1>5, <3>1, FanOutWaits DEF Writes
  <2> QED
    BY <2>1, <2>2
<1>6. CASE q = p /\ pc[q] \in {"fanout", "sending"}
  <2>1. CASE Acknowledge(q)
    BY <1>3, <1>6, <2>1 DEF Acknowledge, Fail
  <2>2. CASE SendUpdate(q) \/ \E x \in Peers : CheckRecipient(q, x)
    BY <1>3, <1>6, <2>2 DEF SendUpdate, CheckRecipient, Goto, Writes
  <2>3. CASE ~ FanOutMoves(q)
    BY <1>2, <1>6, <2>3, FanOutWaits DEF Writes
  <2>4. ~ Notice(q)
    BY <1>6 DEF Notice
  <2> QED
    BY <2>1, <2>2, <2>3, <2>4 DEF FanOutMoves
<1> QED
  BY <1>4, <1>5, <1>6 DEF Writes

(* FanOutCompletes is preserved: a commit adds the frame it then owes.     *)
LEMMA FanOutCompletesStep ==
  RoomInv /\ RoomInv' /\ DeliveryInv /\ ServedAreReady' /\ [Next]_vars => FanOutCompletes'
<1> SUFFICES ASSUME RoomInv, RoomInv', DeliveryInv, ServedAreReady', [Next]_vars, NEW p \in Peers,
                    synced'[p], ~ stopped'[p]
             PROVE  \/ rooms'[roomOf'[p]].doc.state \subseteq known'[p] \cup Missed(p)'
                    \/ \E q \in Peers :
                         /\ Writes(q, p)'
                         /\ rooms'[roomOf'[p]].doc.state \subseteq known'[p] \cup Missed(p)' \cup frame'[q]
  BY DEF FanOutCompletes
<1>1. roomOf'[p] # None /\ TypeOK
  BY DEF ServedAreReady, RoomInv, Located
<1>2. CASE ~ synced[p]
  <2>1. AnswerStep1(p) /\ rooms[roomOf[p]].doc.state \subseteq known'[p]
    BY <1>2, LearnsStep
  <2>2. roomOf' = roomOf /\ rooms' = rooms
    BY <2>1 DEF AnswerStep1, roomVars
  <2> QED
    BY <2>1, <2>2
<1>3. CASE synced[p]
  <2>1. stage[p] = "ready" /\ roomOf[p] # None
    BY <1>3 DEF RoomInv, Located, DeliveryInv, ServedAreReady
  <2>2. /\ roomOf'[p] = roomOf[p] /\ ~ stopped[p] /\ Missed(p) \subseteq Missed(p)'
        /\ known[p] \subseteq known'[p]
    BY <1>1, <2>1, MemberStep
  <2>3. \/ rooms[roomOf[p]].doc.state \subseteq known[p] \cup Missed(p)
        \/ \E q \in Peers : /\ Writes(q, p)
                            /\ rooms[roomOf[p]].doc.state \subseteq known[p] \cup Missed(p) \cup frame[q]
    BY <1>3, <2>2 DEF DeliveryInv, FanOutCompletes
  <2>4. ASSUME NEW a \in Peers, CommitTransaction(a), roomOf[a] = roomOf[p]
        PROVE  /\ Writes(a, p)'
               /\ rooms'[roomOf'[p]].doc.state \subseteq known'[p] \cup Missed(p)' \cup frame'[a]
    <3>1. pc[a] = "locked" /\ roomOf[p] \in Rooms
      BY <1>1, <2>1, <2>4 DEF CommitTransaction, TypeOK
    <3>2. Writes(a, p)'
      BY <1>1, <2>4 DEF CommitTransaction, Goto, Writes, Owes, TypeOK
    <3>3. frame' = frame /\ rooms'[roomOf[p]].doc.state = rooms[roomOf[p]].doc.state \cup frame[a]
      BY <1>1, <2>1, <2>4, CommitAdds DEF DeliveryInv
    <3>4. rooms[roomOf[p]].doc.state \subseteq known[p] \cup Missed(p)
      <4>1. ASSUME NEW q \in Peers, Writes(q, p) PROVE FALSE
        <5>1. pc[q] \in {"committed", "fanout", "sending"}
          BY <4>1 DEF Writes, Owes
        <5> QED
          BY <3>1, <5>1 DEF RoomInv, OneSerialRoom, Holding, InTransaction
      <4> QED
        BY <2>3, <4>1
    <3> QED
      BY <2>2, <3>2, <3>3, <3>4
  <2>5. CASE rooms'[roomOf[p]].doc = rooms[roomOf[p]].doc
    <3>1. ASSUME NEW q \in Peers, Writes(q, p)
          PROVE  \/ frame[q] \subseteq known'[p] \cup Missed(p)'
                 \/ Writes(q, p)' /\ frame'[q] = frame[q]
      <4>1. roomOf[q] # None /\ pc[q] # "closing"
        BY <2>1, <3>1 DEF Writes, Owes
      <4>2. roomOf'[q] # None
        BY <1>1, <2>1, <4>1, FanOutKeepsRoom
      <4> QED
        BY <1>1, <2>1, <2>2, <3>1, <4>1, <4>2, WritesStep DEF DeliveryInv
    <3> QED
      BY <2>2, <2>3, <2>5, <3>1
  <2> QED
    BY <1>1, <2>1, <2>4, <2>5, DocumentStep
<1> QED
  BY <1>2, <1>3

-----------------------------------------------------------------------------
(* The theorems.                                                           *)

(* The delivery invariant holds at first, and every step preserves it.     *)
LEMMA InitDelivery == Init => DeliveryInv
  BY DEF Init, DeliveryInv, ServedAreReady, ReadersSeeTheRow, TransactionsAreCurrent,
         AnswersAreReadable, NoContentAfterRevocation, FanOutCompletes, Holding, InTransaction,
         EmptyDocument

LEMMA DeliveryStep == RoomInv /\ RoomInv' /\ DeliveryInv /\ [Next]_vars => DeliveryInv'
<1> SUFFICES ASSUME RoomInv, RoomInv', DeliveryInv, [Next]_vars PROVE DeliveryInv'
  OBVIOUS
<1>1. ServedAreReady' /\ ReadersSeeTheRow' /\ TransactionsAreCurrent'
  BY ServedStep, VisibleGrows, TransactionsStep DEF DeliveryInv
<1>2. AnswersAreReadable' /\ NoContentAfterRevocation'
  BY AnswersStep, NoContentStep
<1>3. FanOutCompletes'
  BY <1>1, FanOutCompletesStep
<1> QED
  BY <1>1, <1>2, <1>3 DEF DeliveryInv

(* The whole invariant, of rooms and of delivery, holds in every state.    *)
THEOREM Invariance == Spec => []Inv
<1>1. Init => Inv
  BY InitRoomInv, InitDelivery DEF Inv
<1>2. Inv /\ [Next]_vars => Inv'
  BY RoomInvStep, DeliveryStep DEF Inv
<1> QED
  BY <1>1, <1>2, PTL DEF Spec

(* No synchronized client of a room is left behind, but by the fan-outs    *)
(* that are skipped because their sender's activity notice failed.         *)
THEOREM Convergence == Spec => []SynchronizedPeersConverge
<1>1. Inv => SynchronizedPeersConverge
  <2> SUFFICES ASSUME Inv, NEW p \in Peers, synced[p], ~ stopped[p], ~ RoomLocked(roomOf[p])
               PROVE  rooms[roomOf[p]].doc.state \subseteq known[p] \cup Missed(p)
    BY DEF SynchronizedPeersConverge
  <2>1. ASSUME NEW q \in Peers, Writes(q, p) PROVE FALSE
    BY <2>1 DEF Writes, Owes, RoomLocked, Holding
  <2> QED
    BY <2>1 DEF Inv, DeliveryInv, FanOutCompletes
<1> QED
  BY <1>1, Invariance, PTL

(* Nothing committed after a user lost access is sent to that user, except *)
(* in answer to an earlier Step1 a change whose fan-out was skipped.       *)
THEOREM Confidentiality == Spec => []NoContentAfterRevocation
<1>1. Inv => NoContentAfterRevocation
  BY DEF Inv, DeliveryInv
<1> QED
  BY <1>1, Invariance, PTL
=============================================================================
