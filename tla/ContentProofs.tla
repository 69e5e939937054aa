---------------------------- MODULE ContentProofs ----------------------------
(***************************************************************************)
(* Proofs about Content and Discussion for any users, boards, projects,    *)
(* threads and requests: creations that are retried agree, the rows of the *)
(* tables agree with each other, a request writes only what its actor may  *)
(* and has read, and a client that lists the boards misses none.           *)
(***************************************************************************)
EXTENDS Discussion, SequenceTheorems, TLAPS

-----------------------------------------------------------------------------
(* Idempotency keys.                                                       *)

(* One record for each key of a user and an operation, and no answer but   *)
(* what is recorded.                                                       *)
KeysInv ==
  /\ answers \subseteq keys
  /\ \A k \in keys : k = Record(k, k.id)
  /\ \A k, l \in keys : k.op = l.op /\ k.user = l.user /\ k.key = l.key => k = l

(* A record is made of its parts.                                          *)
LEMMA RecordParts ==
  ASSUME NEW r, NEW id
  PROVE  /\ Record(r, id).op = r.op /\ Record(r, id).user = r.user /\ Record(r, id).key = r.key
         /\ Record(r, id).payload = r.payload /\ Record(r, id).id = id
         /\ Record(r, id) = Record(Record(r, id), id)
  BY DEF Record

(* A key that has no record gets the first one.                            *)
LEMMA CompleteKeys ==
  ASSUME KeysInv, NEW r, NEW id, Of(r) = {}, Complete(r, id)
  PROVE  KeysInv'
<1>1. /\ keys' = keys \cup {Record(r, id)} /\ answers' = answers \cup {Record(r, id)}
  BY DEF Complete
<1>2. \A k \in keys : ~ (k.op = r.op /\ k.user = r.user /\ k.key = r.key)
  BY DEF Of
<1> QED
  BY <1>1, <1>2, RecordParts DEF KeysInv

(* Whoever asks again is answered with the record of the key.              *)
LEMMA ReplayKeys ==
  ASSUME KeysInv, NEW c, Replayed(req[c]), Replay(c)
  PROVE  KeysInv'
<1> DEFINE r == req[c]
<1>1. PICK k \in keys : k.op = r.op /\ k.user = r.user /\ k.key = r.key /\ k.payload = r.payload
  BY DEF Replayed, Of
<1>2. Of(r) = {k}
  BY <1>1 DEF Of, KeysInv
<1>3. Reference(r) = k.id
  BY <1>2 DEF Reference
<1>4. Record(r, k.id) = k
  BY <1>1 DEF KeysInv, Record
<1>5. answers' = answers \cup {k} /\ keys' = keys
  BY <1>3, <1>4 DEF Replay, rows
<1> QED
  BY <1>1, <1>5 DEF KeysInv

(* A key that is forgotten takes the answers that were given under it      *)
(* along.                                                                  *)
LEMMA ExpireKeys ==
  ASSUME KeysInv, KeyExpires
  PROVE  KeysInv'
<1>1. PICK k \in keys :
        /\ keys' = keys \ {k}
        /\ answers' = {a \in answers : ~ (a.op = k.op /\ a.user = k.user /\ a.key = k.key)}
  BY DEF KeyExpires
<1> QED
  BY <1>1 DEF KeysInv

(* Every step of the content keeps the records of keys apart.              *)
LEMMA KeysStep ==
  ASSUME KeysInv, [Next]_vars
  PROVE  KeysInv'
<1>1. CASE UNCHANGED <<keys, answers>>
  BY <1>1 DEF KeysInv
<1>2. CASE KeyExpires
  BY <1>2, ExpireKeys
<1>3. ASSUME NEW c \in Requests, Commit(c) PROVE KeysInv'
  <2>1. CASE CreateWorkspace(c)
    BY <2>1, CompleteKeys DEF CreateWorkspace
  <2>2. CASE CreateProject(c)
    BY <2>2, CompleteKeys DEF CreateProject
  <2>3. CASE CreateBoard(c)
    BY <2>3, CompleteKeys DEF CreateBoard
  <2>4. CASE ReplayWorkspace(c) \/ ReplayProject(c) \/ ReplayBoard(c)
    BY <2>4, ReplayKeys DEF ReplayWorkspace, ReplayProject, ReplayBoard
  <2>5. CASE RenameWorkspace(c) \/ RenameProject(c) \/ DeleteEmpty(c) \/ UpdateBoard(c)
             \/ DeleteBoard(c) \/ DeletedAlready(c)
    BY <2>5, <1>1 DEF RenameWorkspace, RenameProject, DeleteEmpty, UpdateBoard, DeleteBoard,
                      DeletedAlready, rows
  <2> QED
    BY <1>3, <2>1, <2>2, <2>3, <2>4, <2>5 DEF Commit
<1>4. ASSUME NEW c \in Requests, NEW u \in Users, AskAny(c, u) PROVE UNCHANGED <<keys, answers>>
  BY <1>4 DEF AskAny, AskCreateWorkspace, AskRenameWorkspace, AskCreateProject, AskCreateBoard,
              AskRenameProject, AskDeleteProject, AskUpdateBoard, AskDeleteBoard, AskCreate,
              AskChange, Ask, rows
<1>5. ASSUME NEW c \in Requests, RollBack(c) PROVE UNCHANGED <<keys, answers>>
  BY <1>5 DEF RollBack, rows
<1>6. CASE Lists
  BY <1>1, <1>6 DEF Lists, ListBoards, NextPage, ServePage, PageFails, LeaveList, Reading, rows
<1>7. CASE Workers
  BY <1>1, <1>7 DEF Workers, CleanUp, CleanUpFails, ImportCompletes, Draw, PurgeBoard
<1>8. CASE RoleChanges \/ GrantChanges \/ SubscriptionChanges \/ PurgeStarts \/ PurgeEnds
  BY <1>1, <1>8 DEF RoleChanges, GrantChanges, SubscriptionChanges, PurgeStarts, PurgeEnds,
                    Elsewhere, rows
<1>9. CASE UNCHANGED vars
  BY <1>1, <1>9 DEF vars, rows
<1>10. CASE Client
  BY <1>1, <1>3, <1>4, <1>5, <1>10 DEF Client
<1> QED
  BY <1>2, <1>6, <1>7, <1>8, <1>9, <1>10 DEF Next, Others

(* What discussions do leaves the content's rows, and what was answered.   *)
LEMMA DiscussionsApart ==
  ASSUME [DiscussionNext]_allVars
  PROVE  \/ [Next]_vars
         \/ \E c \in Requests :
              IF Idle(c) THEN \E u \in Users : AskDiscussion(c, u) ELSE DiscussionCommit(c)
  BY DEF DiscussionNext, allVars

(* Discussions never touch the rows of the content.                        *)
LEMMA DiscussionRows ==
  ASSUME NEW c \in Requests,
         (\E u \in Users : AskDiscussion(c, u)) \/ DiscussionCommit(c)
  PROVE  UNCHANGED <<env, rows, reader, answers>>
<1>1. ASSUME NEW u \in Users, AskDiscussion(c, u) PROVE UNCHANGED <<env, rows, reader, answers>>
  BY <1>1 DEF AskDiscussion, AskCreateThread, AskReply, AskResolve, AskOnThread, AskEditComment,
              Discuss, AskChange, Ask
<1>2. CASE DiscussionCommit(c)
  BY <1>2 DEF DiscussionCommit, CreateThread, Reply, ResolveThread, EditComment, Writing, Answer
<1> QED
  BY <1>1, <1>2

(* RetriesAgree (internal/idempotency): two answers under one key of a     *)
(* user are the same answer.                                               *)
THEOREM RetriesAlwaysAgree == DiscussionSpec => []RetriesAgree
<1>1. DiscussionInit => KeysInv
  BY DEF DiscussionInit, Init, KeysInv
<1>2. KeysInv /\ [DiscussionNext]_allVars => KeysInv'
  <2> SUFFICES ASSUME KeysInv, [DiscussionNext]_allVars PROVE KeysInv'
    OBVIOUS
  <2>1. CASE [Next]_vars
    BY <2>1, KeysStep
  <2>2. ASSUME NEW c \in Requests,
               IF Idle(c) THEN \E u \in Users : AskDiscussion(c, u) ELSE DiscussionCommit(c)
        PROVE  KeysInv'
    <3>1. UNCHANGED <<keys, answers>>
      BY <2>2, DiscussionRows DEF rows
    <3> QED
      BY <3>1 DEF KeysInv
  <2> QED
    BY <2>1, <2>2, DiscussionsApart
<1>3. KeysInv => RetriesAgree
  BY DEF KeysInv, RetriesAgree
<1> QED
  BY <1>1, <1>2, <1>3, PTL DEF DiscussionSpec

-----------------------------------------------------------------------------
(* The order of the boards.                                                *)

(* A sequence holds what stands at its places.                             *)
LEMMA Places ==
  ASSUME NEW S, NEW s \in Seq(S)
  PROVE  ToSet(s) = {s[i] : i \in 1..Len(s)} /\ ToSet(s) \subseteq S
  BY LenProperties, ElementOfSeq DEF ToSet

(* Injective: no two places hold the same.                                 *)
LEMMA OneEach ==
  ASSUME NEW S, NEW s \in Seq(S)
  PROVE  IsInjective(s) <=> \A i, j \in 1..Len(s) : s[i] = s[j] => i = j
  BY LenProperties DEF IsInjective

(* Taking one place out of a sequence without repetitions leaves the       *)
(* others.                                                                 *)
LEMMA OneOut ==
  ASSUME NEW S, NEW s \in Seq(S), IsInjective(s), NEW i \in 1..Len(s)
  PROVE  /\ RemoveAt(s, i) \in Seq(S)
         /\ ToSet(RemoveAt(s, i)) = ToSet(s) \ {s[i]}
         /\ IsInjective(RemoveAt(s, i))
<1> DEFINE a == SubSeq(s, 1, i - 1)
           b == SubSeq(s, i + 1, Len(s))
           t == RemoveAt(s, i)
           n == Len(s)
<1>1. n \in Nat /\ i \in 1..n /\ i - 1 \in Int /\ i + 1 \in Int /\ n \in Int /\ \A j \in 1..n : s[j] \in S
  BY LenProperties, ElementOfSeq
<1>2. /\ a \in Seq(S) /\ Len(a) = i - 1 /\ \A j \in 1..(i - 1) : a[j] = s[j]
  <2>1. \A j \in 1..(i - 1) : s[j] \in S
    BY <1>1
  <2>2. /\ a \in Seq(S) /\ Len(a) = (IF 1 <= i - 1 THEN (i - 1) - 1 + 1 ELSE 0)
        /\ \A j \in 1..((i - 1) - 1 + 1) : a[j] = s[1 + j - 1]
    BY <1>1, <2>1, SubSeqProperties
  <2> QED
    BY <1>1, <2>2
<1>3. /\ b \in Seq(S) /\ Len(b) = n - i /\ \A j \in 1..(n - i) : b[j] = s[j + i]
  <2>1. \A j \in (i + 1)..n : s[j] \in S
    BY <1>1
  <2>2. /\ b \in Seq(S) /\ Len(b) = (IF i + 1 <= n THEN n - (i + 1) + 1 ELSE 0)
        /\ \A j \in 1..(n - (i + 1) + 1) : b[j] = s[(i + 1) + j - 1]
    BY <1>1, <2>1, SubSeqProperties
  <2> QED
    BY <1>1, <2>2
<1>4. t = a \o b
  BY DEF RemoveAt
<1> HIDE DEF a, b, t
<1>5. /\ t \in Seq(S) /\ Len(t) = n - 1
      /\ \A j \in 1..(n - 1) : t[j] = s[IF j < i THEN j ELSE j + 1]
  <2>1. /\ t \in Seq(S) /\ Len(t) = Len(a) + Len(b)
        /\ \A j \in 1..(Len(a) + Len(b)) : t[j] = IF j <= Len(a) THEN a[j] ELSE b[j - Len(a)]
    BY <1>2, <1>3, <1>4, ConcatProperties
  <2>2. Len(a) + Len(b) = n - 1
    BY <1>1, <1>2, <1>3
  <2>3. ASSUME NEW j \in 1..(n - 1) PROVE t[j] = s[IF j < i THEN j ELSE j + 1]
    <3>1. CASE j < i
      BY <1>1, <1>2, <2>1, <2>2, <3>1
    <3>2. CASE ~ (j < i)
      <4>1. j - Len(a) \in 1..(n - i) /\ (j - Len(a)) + i = j + 1 /\ ~ (j <= Len(a))
        BY <1>1, <1>2, <3>2
      <4> QED
        BY <1>3, <2>1, <2>2, <3>2, <4>1
    <3> QED
      BY <3>1, <3>2
  <2> QED
    BY <2>1, <2>2, <2>3
<1>6. \A j, k \in 1..n : s[j] = s[k] => j = k
  BY OneEach
<1>7. ToSet(t) = ToSet(s) \ {s[i]}
  <2>1. ToSet(t) = {t[j] : j \in 1..(n - 1)} /\ ToSet(s) = {s[j] : j \in 1..n}
    BY <1>5, Places
  <2>2. ASSUME NEW j \in 1..(n - 1) PROVE \E k \in 1..n : k # i /\ t[j] = s[k]
    BY <1>1, <1>5
  <2>3. ASSUME NEW k \in 1..n, k # i PROVE \E j \in 1..(n - 1) : t[j] = s[k]
    <3>1. CASE k < i
      BY <1>1, <1>5, <3>1
    <3>2. CASE k > i
      <4>1. k - 1 \in 1..(n - 1) /\ ~ (k - 1 < i) /\ (k - 1) + 1 = k
        BY <1>1, <3>2
      <4> QED
        BY <1>5, <4>1
    <3> QED
      BY <1>1, <2>3, <3>1, <3>2
  <2>4. ASSUME NEW y \in ToSet(t) PROVE y \in ToSet(s) /\ y # s[i]
    <3>1. PICK j \in 1..(n - 1) : y = t[j]
      BY <2>1
    <3>2. PICK k \in 1..n : k # i /\ y = s[k]
      BY <2>2, <3>1
    <3> QED
      BY <1>1, <1>6, <2>1, <3>2
  <2>5. ASSUME NEW y \in ToSet(s), y # s[i] PROVE y \in ToSet(t)
    <3>1. PICK k \in 1..n : y = s[k]
      BY <2>1
    <3>2. PICK j \in 1..(n - 1) : t[j] = y
      BY <2>3, <2>5, <3>1
    <3> QED
      BY <2>1, <3>2
  <2> QED
    BY <2>4, <2>5
<1>8. IsInjective(t)
  <2>1. ASSUME NEW j \in 1..(n - 1), NEW k \in 1..(n - 1), t[j] = t[k] PROVE j = k
    BY <1>1, <1>5, <1>6, <2>1
  <2> QED
    BY <1>5, <2>1, OneEach
<1> QED
  BY <1>5, <1>7, <1>8 DEF t

(* Putting something new in front.                                         *)
LEMMA OneInFront ==
  ASSUME NEW S, NEW s \in Seq(S), IsInjective(s), NEW x \in S, x \notin ToSet(s)
  PROVE  /\ <<x>> \o s \in Seq(S)
         /\ ToSet(<<x>> \o s) = ToSet(s) \cup {x}
         /\ IsInjective(<<x>> \o s)
<1> DEFINE h == <<x>>
           t == h \o s
           n == Len(s)
<1>1. n \in Nat /\ \A j \in 1..n : s[j] \in S
  BY LenProperties, ElementOfSeq
<1>2. h \in Seq(S) /\ Len(h) = 1 /\ h[1] = x
  OBVIOUS
<1> HIDE DEF h
<1>3. /\ t \in Seq(S) /\ Len(t) = n + 1
      /\ \A j \in 1..(n + 1) : t[j] = IF j = 1 THEN x ELSE s[j - 1]
  <2>1. /\ t \in Seq(S) /\ Len(t) = Len(h) + Len(s)
        /\ \A j \in 1..(Len(h) + Len(s)) : t[j] = IF j <= Len(h) THEN h[j] ELSE s[j - Len(h)]
    BY <1>2, ConcatProperties
  <2>2. \A j \in 1..(n + 1) : j <= 1 <=> j = 1
    BY <1>1
  <2> QED
    BY <1>1, <1>2, <2>1, <2>2
<1> HIDE DEF t
<1>4. \A j, k \in 1..n : s[j] = s[k] => j = k
  BY OneEach
<1>5. ToSet(s) = {s[j] : j \in 1..n} /\ ToSet(t) = {t[j] : j \in 1..(n + 1)}
  BY <1>3, Places
<1>6. ASSUME NEW j \in 1..(n + 1) PROVE t[j] = x \/ \E k \in 1..n : t[j] = s[k]
  <2>1. j = 1 \/ j - 1 \in 1..n
    BY <1>1
  <2> QED
    BY <1>3, <2>1
<1>7. ASSUME NEW k \in 1..n PROVE \E j \in 1..(n + 1) : t[j] = s[k]
  <2>1. k + 1 \in 1..(n + 1) /\ k + 1 # 1 /\ (k + 1) - 1 = k
    BY <1>1
  <2> QED
    BY <1>3, <2>1
<1>8. t[1] = x /\ 1 \in 1..(n + 1)
  BY <1>1, <1>3
<1>9. ToSet(t) = ToSet(s) \cup {x}
  <2>1. ASSUME NEW y \in ToSet(t) PROVE y = x \/ y \in ToSet(s)
    <3>1. PICK j \in 1..(n + 1) : y = t[j]
      BY <1>5
    <3> QED
      BY <1>5, <1>6, <3>1
  <2>2. ASSUME NEW y \in ToSet(s) PROVE y \in ToSet(t)
    <3>1. PICK k \in 1..n : y = s[k]
      BY <1>5
    <3> QED
      BY <1>5, <1>7, <3>1
  <2>3. x \in ToSet(t)
    BY <1>5, <1>8
  <2> QED
    BY <2>1, <2>2, <2>3
<1>10. ASSUME NEW j \in 1..(n + 1), NEW k \in 1..(n + 1), t[j] = t[k] PROVE j = k
  <2>1. \A m \in 1..n : s[m] # x
    BY <1>5
  <2>2. (j = 1 \/ j - 1 \in 1..n) /\ (k = 1 \/ k - 1 \in 1..n)
    BY <1>1
  <2> QED
    BY <1>1, <1>3, <1>4, <1>10, <2>1, <2>2
<1>11. IsInjective(t)
  BY <1>3, <1>10, OneEach
<1>12. t = <<x>> \o s
  BY DEF t, h
<1> QED
  BY <1>3, <1>9, <1>11, <1>12

-----------------------------------------------------------------------------
(* The rows of projects, boards and jobs.                                  *)

Live == {p \in Projects : project[p].state = "live"}
RowTypes == /\ project \in [Projects -> ProjectRow]
            /\ board \in [Boards -> BoardRow]
            /\ job \in [Boards -> Job]

(* What a board's row, its job and the projects that are live have to do   *)
(* with each other.                                                        *)
BoardSound(row, j, live) ==
  /\ row.status \in {"absent", "gone"} <=> row.document = "none"
  /\ row.status \in {"absent", "gone"} => row.project = None
  /\ row.project # None => row.project \in live
  /\ row.status = "absent" => j.status = "none"
  /\ row.status = "deleting" => j.status \in {"queued", "failed"}
  /\ j.status = "succeeded" => row.status = "gone"
  /\ j.status \in {"none", "queued"} => j.attempts < MaxAttempts

RowsSound == \A b \in Boards : BoardSound(board[b], job[b], Live)
Ordered == recent \in Seq(Boards) /\ IsInjective(recent) /\ ToSet(recent) = {b \in Boards : Exists(b)}
RowsInv == RowTypes /\ RowsSound /\ Ordered

(* How far a board gets in one step: it never comes back, and whatever of  *)
(* it changes but the document changes its revision.                       *)
Onward(b) ==
  \/ board'[b] = board[b]
  \/ board[b].status = "absent" /\ board'[b].status \notin {"absent", "gone"}
  \/ Exists(b) /\ board'[b].status = "gone"
  \/ Exists(b) /\ Exists(b)' /\ board[b].revision < board'[b].revision
  \/ /\ Exists(b) /\ Exists(b)' /\ board'[b].revision = board[b].revision
     /\ Metadata(board'[b]) = Metadata(board[b])

(* What a client that lists the boards relies on: a board keeps its status *)
(* and its project, or the client need not see it.                         *)
Kept ==
  \/ /\ reader' = reader
     /\ \A b \in Boards : Exists(b) => /\ board'[b].status = board[b].status
                                       /\ board'[b].project = board[b].project
  \/ \E b \in Boards : Forget(b) /\ \A a \in Boards : a # b => board'[a] = board[a]

Effect == RowsInv' /\ (\A b \in Boards : Onward(b)) /\ Kept

(* A board that exists is in the order once, and taking it out leaves the  *)
(* others.                                                                 *)
LEMMA WithoutOne ==
  ASSUME Ordered, NEW b \in Boards
  PROVE  /\ Without(b) \in Seq(Boards) /\ IsInjective(Without(b))
         /\ ToSet(Without(b)) = {a \in Boards : Exists(a)} \ {b}
<1>1. CASE b \in ToSet(recent)
  <2>1. \E i \in DOMAIN recent : recent[i] = b
    BY <1>1 DEF ToSet
  <2>2. Place(b) \in DOMAIN recent /\ recent[Place(b)] = b
    BY <2>1 DEF Place
  <2>3. Place(b) \in 1..Len(recent)
    BY <2>2, LenProperties DEF Ordered
  <2>4. Without(b) = RemoveAt(recent, Place(b))
    BY <1>1 DEF Without
  <2> QED
    BY <2>2, <2>3, <2>4, OneOut DEF Ordered
<1>2. CASE b \notin ToSet(recent)
  BY <1>2 DEF Without, Ordered
<1> QED
  BY <1>1, <1>2

(* A board that is written or created stands in front.                     *)
LEMMA OrderAfterFront ==
  ASSUME Ordered, NEW b \in Boards, ToFront(b), Exists(b)',
         \A a \in Boards : a # b => (Exists(a)' <=> Exists(a))
  PROVE  Ordered'
<1>1. /\ Without(b) \in Seq(Boards) /\ IsInjective(Without(b))
      /\ ToSet(Without(b)) = {a \in Boards : Exists(a)} \ {b}
  BY WithoutOne
<1>2. /\ recent' \in Seq(Boards) /\ IsInjective(recent')
      /\ ToSet(recent') = ToSet(Without(b)) \cup {b}
  <2>1. b \notin ToSet(Without(b))
    BY <1>1
  <2> HIDE DEF Without
  <2>2. recent' = <<b>> \o Without(b)
    BY DEF ToFront
  <2> QED
    BY <1>1, <2>1, <2>2, OneInFront
<1>3. ToSet(recent') = {a \in Boards : Exists(a)'}
  BY <1>1, <1>2
<1> QED
  BY <1>2, <1>3 DEF Ordered

(* A board that is dropped leaves the order.                               *)
LEMMA OrderAfterDrop ==
  ASSUME Ordered, NEW b \in Boards, recent' = Without(b), ~ Exists(b)',
         \A a \in Boards : a # b => (Exists(a)' <=> Exists(a))
  PROVE  Ordered'
<1>1. /\ Without(b) \in Seq(Boards) /\ IsInjective(Without(b))
      /\ ToSet(Without(b)) = {a \in Boards : Exists(a)} \ {b}
  BY WithoutOne
<1>2. ToSet(recent') = {a \in Boards : Exists(a)'}
  BY <1>1
<1> QED
  BY <1>1, <1>2 DEF Ordered

(* When no board appears or disappears the order stands.                   *)
LEMMA OrderStays ==
  ASSUME Ordered, recent' = recent, \A a \in Boards : Exists(a)' <=> Exists(a)
  PROVE  Ordered'
  BY DEF Ordered

(* One row changes in the table of boards.                                 *)
LEMMA RowChanged ==
  ASSUME board \in [Boards -> BoardRow], NEW b \in Boards, NEW row \in BoardRow,
         board' = [board EXCEPT ![b] = row]
  PROVE  /\ board' \in [Boards -> BoardRow] /\ board'[b] = row
         /\ \A a \in Boards : a # b => board'[a] = board[a] /\ (Exists(a)' <=> Exists(a))
         /\ Exists(b)' <=> row.status \notin {"absent", "gone"}
  BY DEF Exists

(* A row with its next revision.                                           *)
LEMMA NextRevision ==
  ASSUME NEW row \in BoardRow, row.revision < MaxRevision
  PROVE  LET next == [row EXCEPT !.revision = @ + 1] IN
         /\ next \in BoardRow /\ next.revision = row.revision + 1
         /\ next.status = row.status /\ next.project = row.project
         /\ next.document = row.document /\ next.creator = row.creator
  BY ContentAssumption DEF BoardRow

(* A row that is not there has no document and no project.                 *)
LEMMA NoBoardRow ==
  ASSUME NEW status \in {"absent", "gone"}
  PROVE  /\ NoBoard(status) \in BoardRow /\ NoBoard(status).status = status
         /\ NoBoard(status).project = None /\ NoBoard(status).document = "none"
  BY ContentAssumption DEF NoBoard, BoardRow

(* A board that exists is written.                                         *)
LEMMA WriteEffect ==
  ASSUME RowsInv, NEW b \in Boards, Exists(b), NEW row \in BoardRow, Write(b, row),
         row.revision = board[b].revision, row.status \notin {"absent", "gone"},
         project' = project, job' \in [Boards -> Job],
         \A a \in Boards : a # b => job'[a] = job[a],
         BoardSound(row, job'[b], Live)
  PROVE  Effect
<1> DEFINE next == [row EXCEPT !.revision = @ + 1]
<1>1. board' = [board EXCEPT ![b] = next] /\ ToFront(b) /\ Forget(b) /\ row.revision < MaxRevision
  BY DEF Write
<1>2. /\ next \in BoardRow /\ next.revision = row.revision + 1
      /\ next.status = row.status /\ next.project = row.project
      /\ next.document = row.document
  BY <1>1, NextRevision
<1> HIDE DEF next
<1>3. /\ board' \in [Boards -> BoardRow] /\ board'[b] = next
      /\ \A a \in Boards : a # b => board'[a] = board[a] /\ (Exists(a)' <=> Exists(a))
      /\ Exists(b)' <=> next.status \notin {"absent", "gone"}
  BY <1>1, <1>2, RowChanged DEF RowsInv, RowTypes
<1>4. Live' = Live
  BY DEF Live
<1>5. RowsSound'
  <2>1. BoardSound(next, job'[b], Live)
    BY <1>2 DEF BoardSound
  <2>2. ASSUME NEW a \in Boards PROVE BoardSound(board'[a], job'[a], Live)
    BY <1>3, <2>1 DEF RowsInv, RowsSound
  <2> QED
    BY <1>4, <2>2 DEF RowsSound
<1>6. Ordered'
  BY <1>1, <1>2, <1>3, OrderAfterFront DEF RowsInv
<1>7. \A a \in Boards : Onward(a)
  <2>1. board[b].revision < board'[b].revision
    BY <1>2, <1>3 DEF BoardRow, RowsInv, RowTypes
  <2> QED
    BY <1>2, <1>3, <2>1 DEF Onward
<1>8. Kept
  BY <1>1, <1>3 DEF Kept
<1> QED
  BY <1>3, <1>5, <1>6, <1>7, <1>8 DEF Effect, RowsInv, RowTypes

(* A board that exists is dropped.                                         *)
LEMMA DropEffect ==
  ASSUME RowsInv, NEW b \in Boards, Exists(b), Drop(b),
         project' = project, job' \in [Boards -> Job],
         \A a \in Boards : a # b => job'[a] = job[a],
         job'[b].status \in {"none", "queued"} => job'[b].attempts < MaxAttempts
  PROVE  Effect
<1> DEFINE row == NoBoard("gone")
<1>1. board' = [board EXCEPT ![b] = row] /\ recent' = Without(b) /\ Forget(b)
  BY DEF Drop
<1>2. /\ row \in BoardRow /\ row.status = "gone" /\ row.project = None /\ row.document = "none"
  BY NoBoardRow
<1> HIDE DEF row
<1>3. /\ board' \in [Boards -> BoardRow] /\ board'[b] = row
      /\ \A a \in Boards : a # b => board'[a] = board[a] /\ (Exists(a)' <=> Exists(a))
      /\ Exists(b)' <=> row.status \notin {"absent", "gone"}
  BY <1>1, <1>2, RowChanged DEF RowsInv, RowTypes
<1>4. Live' = Live
  BY DEF Live
<1>5. RowsSound'
  <2>1. BoardSound(row, job'[b], Live)
    BY <1>2 DEF BoardSound
  <2>2. ASSUME NEW a \in Boards PROVE BoardSound(board'[a], job'[a], Live)
    BY <1>3, <2>1 DEF RowsInv, RowsSound
  <2> QED
    BY <1>4, <2>2 DEF RowsSound
<1>6. Ordered'
  BY <1>1, <1>2, <1>3, OrderAfterDrop DEF RowsInv
<1>7. \A a \in Boards : Onward(a)
  BY <1>2, <1>3 DEF Onward
<1>8. Kept
  BY <1>1, <1>3 DEF Kept
<1> QED
  BY <1>3, <1>5, <1>6, <1>7, <1>8 DEF Effect, RowsInv, RowTypes

(* No board changes, and no project that is in use is deleted.             *)
LEMMA QuietEffect ==
  ASSUME RowsInv, UNCHANGED <<board, recent, reader>>,
         project' \in [Projects -> ProjectRow], job' \in [Boards -> Job],
         \A b \in Boards : BoardSound(board[b], job'[b], Live')
  PROVE  Effect
<1>1. RowTypes' /\ RowsSound'
  BY DEF RowsInv, RowTypes, RowsSound
<1>2. Ordered'
  BY OrderStays DEF RowsInv, Exists
<1> QED
  BY <1>1, <1>2 DEF Effect, RowsInv, Onward, Kept

-----------------------------------------------------------------------------
(* What a request carries.                                                 *)

(* A row of a board that was read earlier: the board is gone, or it has    *)
(* the same metadata or a later revision.                                  *)
BoardSeen(b, row) ==
  /\ row \in BoardRow
  /\ \/ board[b].status = "gone"
     \/ /\ Exists(b) /\ row.revision <= board[b].revision
        /\ row.revision = board[b].revision => Metadata(board[b]) = Metadata(row)

ProjectOps == {"project.rename", "project.delete"}
BoardOps == {"board.update", "board.delete"}
ContentRequest(r) ==
  /\ r.user \in Users
  /\ r.op = "board.create" => r.payload.project \in Projects \cup {None}
  /\ r.op \in ProjectOps => r.at \in Projects /\ r.seen \in ProjectRow /\ r.seen.state = "live"
  /\ r.op \in BoardOps => r.at \in Boards /\ BoardSeen(r.at, r.seen)
  /\ r.op = "board.update" => r.to \in Projects \cup {None}

-----------------------------------------------------------------------------
(* The transactions that change projects and boards.                       *)

(* A new project is in nobody's way.                                       *)
LEMMA CreateProjectEffect ==
  ASSUME RowsInv, NEW c \in Requests, CreateProject(c)
  PROVE  Effect
<1>1. PICK p \in Projects :
        /\ project[p].state = "absent"
        /\ project' = [project EXCEPT ![p] = [state |-> "live", revision |-> 1]]
  BY DEF CreateProject
<1>2. UNCHANGED <<board, job, recent, reader>>
  BY DEF CreateProject, OtherRows
<1>3. [state |-> "live", revision |-> 1] \in ProjectRow
  BY ContentAssumption DEF ProjectRow
<1>4. project' \in [Projects -> ProjectRow] /\ Live \subseteq Live'
  BY <1>1, <1>3 DEF RowsInv, RowTypes, Live
<1>5. \A b \in Boards : BoardSound(board[b], job'[b], Live')
  BY <1>2, <1>4 DEF RowsInv, RowsSound, BoardSound
<1> QED
  BY <1>2, <1>4, <1>5, QuietEffect DEF RowsInv, RowTypes

(* A project that is renamed stays live.                                   *)
LEMMA RenameProjectEffect ==
  ASSUME RowsInv, NEW c \in Requests, ContentRequest(req[c]), RenameProject(c)
  PROVE  Effect
<1> DEFINE p == req[c].at
           row == project[p]
           next == [row EXCEPT !.revision = @ + 1]
<1>1. /\ p \in Projects /\ row.state = "live" /\ row.revision < MaxRevision
      /\ project' = [project EXCEPT ![p] = next]
      /\ UNCHANGED <<board, job, recent, reader>>
  BY DEF RenameProject, ProjectAt, LockedProject, ContentRequest, ProjectOps, Asked, OtherRows
<1>2. row \in ProjectRow
  BY <1>1 DEF RowsInv, RowTypes
<1> HIDE DEF p
<1>3. next \in ProjectRow /\ next.state = "live"
  BY <1>1, <1>2, ContentAssumption DEF ProjectRow
<1> HIDE DEF next, row
<1>4. project' \in [Projects -> ProjectRow] /\ Live = Live'
  BY <1>1, <1>3 DEF RowsInv, RowTypes, Live, row
<1>5. \A b \in Boards : BoardSound(board[b], job'[b], Live')
  BY <1>1, <1>4 DEF RowsInv, RowsSound
<1> QED
  BY <1>1, <1>4, <1>5, QuietEffect DEF RowsInv, RowTypes

(* A project is deleted when no board is in it, not even one that is being *)
(* deleted.                                                                *)
LEMMA DeleteEmptyEffect ==
  ASSUME RowsInv, NEW c \in Requests, ContentRequest(req[c]), DeleteEmpty(c)
  PROVE  Effect
<1> DEFINE p == req[c].at
           next == [state |-> "deleted", revision |-> project[p].revision + 1]
<1>1. /\ p \in Projects /\ project[p].revision < MaxRevision /\ NoBoards(p)
      /\ project' = [project EXCEPT ![p] = next]
      /\ UNCHANGED <<board, job, recent, reader>>
  BY DEF DeleteEmpty, ProjectAt, ContentRequest, ProjectOps, Asked, OtherRows
<1> HIDE DEF p
<1>2. project[p] \in ProjectRow
  BY <1>1 DEF RowsInv, RowTypes
<1>3. next \in ProjectRow /\ next.state # "live"
  BY <1>1, <1>2, ContentAssumption DEF ProjectRow
<1> HIDE DEF next
<1>4. project' \in [Projects -> ProjectRow] /\ Live' = Live \ {p}
  BY <1>1, <1>3 DEF RowsInv, RowTypes, Live
<1>5. ASSUME NEW b \in Boards PROVE BoardSound(board[b], job'[b], Live')
  <2>1. BoardSound(board[b], job[b], Live)
    BY DEF RowsInv, RowsSound
  <2>2. board[b].project # p
    <3>1. CASE Exists(b)
      BY <1>1, <3>1 DEF NoBoards
    <3>2. CASE ~ Exists(b)
      BY <1>1, <2>1, <3>2, ContentAssumption DEF Exists, BoardSound
    <3> QED
      BY <3>1, <3>2
  <2> QED
    BY <1>1, <1>4, <2>1, <2>2 DEF BoardSound
<1> QED
  BY <1>1, <1>4, <1>5, QuietEffect DEF RowsInv, RowTypes

(* A board is created in no project or in a live one.                      *)
LEMMA CreateBoardEffect ==
  ASSUME RowsInv, NEW c \in Requests, ContentRequest(req[c]), CreateBoard(c)
  PROVE  Effect
<1> DEFINE row == NewBoard(req[c])
<1>1. /\ req[c].op = "board.create" /\ CheckProject(req[c].payload.project)
      /\ req[c].payload.project \in Projects \cup {None} /\ req[c].user \in Users
      /\ UNCHANGED <<project, job, reader>>
  BY DEF CreateBoard, Asked, ContentRequest, OtherRows
<1>2. PICK b \in Boards : board[b].status = "absent" /\ board' = [board EXCEPT ![b] = row] /\ ToFront(b)
  BY DEF CreateBoard
<1>3. /\ row \in BoardRow /\ row.status \in {"initializing", "active"} /\ row.document = "plain"
      /\ row.project = req[c].payload.project
  BY <1>1, ContentAssumption DEF NewBoard, BoardRow
<1> HIDE DEF row
<1>4. /\ board' \in [Boards -> BoardRow] /\ board'[b] = row
      /\ \A a \in Boards : a # b => board'[a] = board[a] /\ (Exists(a)' <=> Exists(a))
      /\ Exists(b)' <=> row.status \notin {"absent", "gone"}
  BY <1>2, <1>3, RowChanged DEF RowsInv, RowTypes
<1>5. Live' = Live
  BY <1>1 DEF Live
<1>6. RowsSound'
  <2>1. row.project # None => row.project \in Live
    BY <1>1, <1>3 DEF CheckProject, LockedProject, Live
  <2>2. BoardSound(board[b], job[b], Live)
    BY DEF RowsInv, RowsSound
  <2>3. BoardSound(row, job[b], Live)
    BY <1>2, <1>3, <2>1, <2>2 DEF BoardSound
  <2>4. ASSUME NEW a \in Boards PROVE BoardSound(board'[a], job'[a], Live)
    BY <1>1, <1>4, <2>3 DEF RowsInv, RowsSound
  <2> QED
    BY <1>5, <2>4 DEF RowsSound
<1>7. Ordered'
  BY <1>2, <1>3, <1>4, OrderAfterFront DEF RowsInv
<1>8. \A a \in Boards : Onward(a)
  BY <1>2, <1>3, <1>4 DEF Onward
<1>9. Kept
  BY <1>1, <1>2, <1>4 DEF Kept, Exists
<1> QED
  BY <1>1, <1>4, <1>6, <1>7, <1>8, <1>9 DEF Effect, RowsInv, RowTypes

(* A board moves to a live project, or out of its own.                     *)
LEMMA UpdateBoardEffect ==
  ASSUME RowsInv, NEW c \in Requests, ContentRequest(req[c]), UpdateBoard(c)
  PROVE  Effect
<1> DEFINE b == req[c].at
           to == req[c].to
           row == [board[b] EXCEPT !.project = to]
<1>1. /\ b \in Boards /\ to \in Projects \cup {None} /\ CheckProject(to)
      /\ Exists(b) /\ board[b].status = "active" /\ Write(b, row)
      /\ UNCHANGED <<project, job>>
  BY DEF UpdateBoard, Asked, ContentRequest, BoardOps, LockedBoard
<1> HIDE DEF b, to
<1>2. board[b] \in BoardRow /\ BoardSound(board[b], job[b], Live)
  BY <1>1 DEF RowsInv, RowTypes, RowsSound
<1>3. /\ row \in BoardRow /\ row.revision = board[b].revision /\ row.status = "active"
      /\ row.project = to /\ row.document = board[b].document
  BY <1>1, <1>2 DEF BoardRow
<1> HIDE DEF row
<1>4. BoardSound(row, job'[b], Live)
  BY <1>1, <1>2, <1>3 DEF BoardSound, CheckProject, LockedProject, Live
<1> QED
  BY <1>1, <1>3, <1>4, WriteEffect DEF RowsInv, RowTypes

(* A board that is deleted gets its job in the same step.                  *)
LEMMA DeleteBoardEffect ==
  ASSUME RowsInv, NEW c \in Requests, ContentRequest(req[c]), DeleteBoard(c)
  PROVE  Effect
<1> DEFINE b == req[c].at
           row == [board[b] EXCEPT !.status = "deleting"]
<1>1. /\ b \in Boards /\ Exists(b) /\ job[b].status = "none" /\ Write(b, row)
      /\ project' = project /\ Enqueue(b)
  BY DEF DeleteBoard, Asked, ContentRequest, BoardOps, LockedBoard
<1> HIDE DEF b
<1>2. board[b] \in BoardRow /\ BoardSound(board[b], job[b], Live) /\ job[b] \in Job
  BY <1>1 DEF RowsInv, RowTypes, RowsSound
<1>3. /\ row \in BoardRow /\ row.revision = board[b].revision /\ row.status = "deleting"
      /\ row.project = board[b].project /\ row.document = board[b].document
  BY <1>2 DEF BoardRow
<1> HIDE DEF row
<1>4. /\ job' \in [Boards -> Job] /\ job'[b].status = "queued" /\ job'[b].attempts = job[b].attempts
      /\ \A a \in Boards : a # b => job'[a] = job[a]
  BY <1>1, <1>2 DEF Enqueue, Job, RowsInv, RowTypes
<1>5. BoardSound(row, job'[b], Live)
  BY <1>1, <1>2, <1>3, <1>4 DEF BoardSound, Exists
<1> QED
  BY <1>1, <1>3, <1>4, <1>5, WriteEffect

-----------------------------------------------------------------------------
(* The workers, the editors and the purge.                                 *)

(* A job that is run has fewer attempts behind it than it may have.        *)
LEMMA QueuedJob ==
  ASSUME RowsInv, NEW b \in Boards, job[b].status = "queued"
  PROVE  /\ job[b] \in Job /\ job[b].attempts < MaxAttempts
         /\ Attempted(b) \in 0..MaxAttempts
         /\ board[b] \in BoardRow /\ BoardSound(board[b], job[b], Live)
  BY ContentAssumption DEF RowsInv, RowTypes, RowsSound, BoardSound, Job, Attempted

(* The worker drops the board and ends the job, at once.                   *)
LEMMA CleanUpEffect ==
  ASSUME RowsInv, NEW b \in Boards, CleanUp(b)
  PROVE  Effect
<1> DEFINE j == [status |-> "succeeded", attempts |-> Attempted(b)]
<1>1. /\ job[b].status = "queued" /\ job' = [job EXCEPT ![b] = j] /\ project' = project
      /\ Exists(b) => board[b].status = "deleting"
      /\ IF Exists(b) THEN Drop(b) ELSE UNCHANGED <<board, recent, reader>>
  BY DEF CleanUp
<1>2. j \in Job /\ j.status = "succeeded"
  BY <1>1, QueuedJob DEF Job
<1> HIDE DEF j
<1>3. /\ job' \in [Boards -> Job] /\ job'[b] = j
      /\ \A a \in Boards : a # b => job'[a] = job[a]
  BY <1>1, <1>2 DEF RowsInv, RowTypes
<1>4. CASE Exists(b)
  BY <1>1, <1>2, <1>3, <1>4, DropEffect
<1>5. CASE ~ Exists(b)
  <2>1. BoardSound(board[b], job[b], Live) /\ board[b].status \in {"absent", "gone"}
    BY <1>1, <1>5, QueuedJob DEF Exists
  <2>2. BoardSound(board[b], j, Live)
    BY <1>1, <1>2, <2>1 DEF BoardSound
  <2>3. Live' = Live
    BY <1>1 DEF Live
  <2>4. \A a \in Boards : BoardSound(board[a], job'[a], Live')
    BY <1>3, <2>2, <2>3 DEF RowsInv, RowsSound
  <2> QED
    BY <1>1, <1>3, <1>5, <2>4, QuietEffect DEF RowsInv, RowTypes
<1> QED
  BY <1>4, <1>5

(* A run that fails leaves the board to the next one, or to nobody.        *)
LEMMA CleanUpFailsEffect ==
  ASSUME RowsInv, NEW b \in Boards, CleanUpFails(b)
  PROVE  Effect
<1> DEFINE j == [attempts |-> Attempted(b),
                 status |-> IF Attempted(b) >= MaxAttempts THEN "failed" ELSE "queued"]
<1>1. /\ job[b].status = "queued" /\ job' = [job EXCEPT ![b] = j]
      /\ UNCHANGED <<project, board, recent, reader>>
  BY DEF CleanUpFails
<1>2. /\ j \in Job /\ j.status \in {"queued", "failed"}
      /\ j.status = "queued" => j.attempts < MaxAttempts
  BY <1>1, QueuedJob, ContentAssumption DEF Job
<1> HIDE DEF j
<1>3. /\ job' \in [Boards -> Job] /\ job'[b] = j
      /\ \A a \in Boards : a # b => job'[a] = job[a]
  BY <1>1, <1>2 DEF RowsInv, RowTypes
<1>4. BoardSound(board[b], j, Live)
  <2>1. BoardSound(board[b], job[b], Live)
    BY <1>1, QueuedJob
  <2> QED
    BY <1>1, <1>2, <2>1 DEF BoardSound
<1>5. Live' = Live
  BY <1>1 DEF Live
<1>6. \A a \in Boards : BoardSound(board[a], job'[a], Live')
  BY <1>3, <1>4, <1>5 DEF RowsInv, RowsSound
<1> QED
  BY <1>1, <1>3, <1>6, QuietEffect DEF RowsInv, RowTypes

(* An import fills a board that nobody has seen.                           *)
LEMMA ImportEffect ==
  ASSUME RowsInv, NEW b \in Boards, ImportCompletes(b)
  PROVE  Effect
<1> DEFINE row == [board[b] EXCEPT !.status = "active", !.document = "drawn"]
<1>1. board[b].status = "initializing" /\ Write(b, row) /\ UNCHANGED <<project, job>>
  BY DEF ImportCompletes
<1>2. board[b] \in BoardRow /\ BoardSound(board[b], job[b], Live)
  BY DEF RowsInv, RowTypes, RowsSound
<1>3. /\ row \in BoardRow /\ row.revision = board[b].revision /\ row.status = "active"
      /\ row.project = board[b].project /\ row.document = "drawn"
  BY <1>2 DEF BoardRow
<1> HIDE DEF row
<1>4. BoardSound(row, job'[b], Live) /\ Exists(b)
  BY <1>1, <1>2, <1>3 DEF BoardSound, Exists
<1> QED
  BY <1>1, <1>3, <1>4, WriteEffect DEF RowsInv, RowTypes

(* Drawing changes the document of an active board and nothing else.       *)
LEMMA DrawEffect ==
  ASSUME RowsInv, NEW b \in Boards, Draw(b)
  PROVE  Effect
<1> DEFINE d == IF board[b].document = "plain" THEN "drawn" ELSE "plain"
           row == [board[b] EXCEPT !.document = d]
<1>1. /\ board[b].status = "active" /\ board' = [board EXCEPT ![b] = row]
      /\ UNCHANGED <<project, job, recent, reader>>
  BY DEF Draw
<1>2. board[b] \in BoardRow /\ BoardSound(board[b], job[b], Live)
  BY DEF RowsInv, RowTypes, RowsSound
<1>3. d \in {"plain", "drawn"}
  OBVIOUS
<1> HIDE DEF d
<1>4. /\ row \in BoardRow /\ row.revision = board[b].revision /\ row.status = board[b].status
      /\ row.project = board[b].project /\ row.document = d /\ Metadata(row) = Metadata(board[b])
  BY <1>2, <1>3 DEF BoardRow, Metadata
<1> HIDE DEF row
<1>5. /\ board' \in [Boards -> BoardRow] /\ board'[b] = row
      /\ \A a \in Boards : a # b => board'[a] = board[a] /\ (Exists(a)' <=> Exists(a))
      /\ Exists(b)' <=> row.status \notin {"absent", "gone"}
  BY <1>1, <1>4, RowChanged DEF RowsInv, RowTypes
<1>6. Exists(b) /\ \A a \in Boards : Exists(a)' <=> Exists(a)
  BY <1>1, <1>4, <1>5 DEF Exists
<1>7. RowsSound'
  <2>1. Live' = Live
    BY <1>1 DEF Live
  <2>2. BoardSound(row, job[b], Live)
    BY <1>1, <1>2, <1>3, <1>4 DEF BoardSound
  <2>3. ASSUME NEW a \in Boards PROVE BoardSound(board'[a], job'[a], Live)
    BY <1>1, <1>5, <2>2 DEF RowsInv, RowsSound
  <2> QED
    BY <2>1, <2>3 DEF RowsSound
<1>8. Ordered'
  BY <1>1, <1>6, OrderStays DEF RowsInv
<1>9. \A a \in Boards : Onward(a)
  BY <1>4, <1>5, <1>6 DEF Onward
<1>10. Kept
  BY <1>1, <1>4, <1>5 DEF Kept
<1> QED
  BY <1>1, <1>5, <1>7, <1>8, <1>9, <1>10 DEF Effect, RowsInv, RowTypes

(* The purge drops a board whatever its job does.                          *)
LEMMA PurgeBoardEffect ==
  ASSUME RowsInv, NEW b \in Boards, PurgeBoard(b)
  PROVE  Effect
<1>1. BoardSound(board[b], job[b], Live)
  BY DEF RowsInv, RowsSound
<1> QED
  BY <1>1, DropEffect DEF PurgeBoard, RowsInv, RowTypes, BoardSound

(* When no board is left the projects go.                                  *)
LEMMA PurgeEndsEffect ==
  ASSUME RowsInv, PurgeEnds
  PROVE  Effect
<1>1. /\ \A b \in Boards : ~ Exists(b)
      /\ project' = [p \in Projects |-> IF LockedProject(p) THEN [project[p] EXCEPT !.state = "deleted"]
                                                             ELSE project[p]]
      /\ UNCHANGED <<board, job, recent, reader>>
  BY DEF PurgeEnds
<1>2. project' \in [Projects -> ProjectRow]
  <2>1. ASSUME NEW p \in Projects PROVE [project[p] EXCEPT !.state = "deleted"] \in ProjectRow
    BY DEF RowsInv, RowTypes, ProjectRow
  <2> QED
    BY <1>1, <2>1 DEF RowsInv, RowTypes
<1>3. \A b \in Boards : BoardSound(board[b], job'[b], Live')
  BY <1>1 DEF RowsInv, RowsSound, BoardSound, Exists
<1> QED
  BY <1>1, <1>2, <1>3, QuietEffect DEF RowsInv, RowTypes

(* Where no row of these tables changes, nothing is to be shown.           *)
LEMMA NoEffect ==
  ASSUME RowsInv, UNCHANGED <<project, board, job, recent, reader>>
  PROVE  Effect
  BY QuietEffect DEF RowsInv, RowTypes, RowsSound, Live

-----------------------------------------------------------------------------
(* Every step but those of a client that lists.                            *)

(* A commit changes one board at most and loses none.                      *)
LEMMA CommitEffect ==
  ASSUME RowsInv, NEW c \in Requests, ContentRequest(req[c]), Commit(c)
  PROVE  Effect
<1>1. CASE CreateWorkspace(c) \/ RenameWorkspace(c) \/ DeletedAlready(c)
  BY <1>1, NoEffect DEF CreateWorkspace, RenameWorkspace, DeletedAlready, rows
<1>2. CASE ReplayWorkspace(c) \/ ReplayProject(c) \/ ReplayBoard(c)
  BY <1>2, NoEffect DEF ReplayWorkspace, ReplayProject, ReplayBoard, Replay, rows
<1> QED
  BY <1>1, <1>2, CreateProjectEffect, RenameProjectEffect, DeleteEmptyEffect, CreateBoardEffect,
     UpdateBoardEffect, DeleteBoardEffect DEF Commit

(* What a request asks for is read, and changes nothing yet.               *)
LEMMA AskingWrites ==
  ASSUME NEW c, NEW u, AskAny(c, u)
  PROVE  UNCHANGED <<env, rows, reader, answers>>
  BY DEF AskAny, AskCreateWorkspace, AskRenameWorkspace, AskCreateProject, AskCreateBoard,
         AskRenameProject, AskDeleteProject, AskUpdateBoard, AskDeleteBoard, AskCreate,
         AskChange, Ask

(* Every step of the content that is not one of a client that lists.       *)
LEMMA ContentEffect ==
  ASSUME RowsInv, \A c \in Requests : ~ Idle(c) => ContentRequest(req[c]),
         [Next]_vars, ~ Lists
  PROVE  Effect
<1>1. CASE Client
  <2>1. PICK c \in Requests :
          IF Idle(c) THEN \E u \in Users : AskAny(c, u) ELSE Commit(c) \/ RollBack(c)
    BY <1>1 DEF Client
  <2>2. CASE Idle(c)
    BY <2>1, <2>2, AskingWrites, NoEffect DEF rows
  <2>3. CASE ~ Idle(c) /\ Commit(c)
    BY <2>3, CommitEffect
  <2>4. CASE RollBack(c)
    BY <2>4, NoEffect DEF RollBack, rows
  <2> QED
    BY <2>1, <2>2, <2>3, <2>4
<1>2. CASE Workers
  BY <1>2, CleanUpEffect, CleanUpFailsEffect, ImportEffect, DrawEffect, PurgeBoardEffect DEF Workers
<1>3. CASE RoleChanges \/ GrantChanges \/ SubscriptionChanges \/ PurgeStarts \/ KeyExpires
  BY <1>3, NoEffect DEF RoleChanges, GrantChanges, SubscriptionChanges, PurgeStarts, Elsewhere,
                        KeyExpires, rows
<1>4. CASE UNCHANGED vars
  BY <1>4, NoEffect DEF vars, rows
<1> QED
  BY <1>1, <1>2, <1>3, <1>4, PurgeEndsEffect DEF Next, Others

(* A client that lists changes nothing but its own place.                  *)
LEMMA ListingReads ==
  ASSUME Lists
  PROVE  UNCHANGED <<env, rows, req, answers>>
  BY DEF Lists, ListBoards, NextPage, ServePage, PageFails, LeaveList, Reading

(* What every step does to the rows.                                       *)
LEMMA RowsStep ==
  ASSUME RowsInv, \A c \in Requests : ~ Idle(c) => ContentRequest(req[c]), [Next]_vars
  PROVE  RowsInv' /\ \A b \in Boards : Onward(b)
<1>1. CASE Lists
  BY <1>1, ListingReads DEF rows, RowsInv, RowTypes, RowsSound, Live, Ordered, Exists, Onward
<1> QED
  BY <1>1, ContentEffect DEF Effect

-----------------------------------------------------------------------------
(* A client that lists the boards.                                         *)

Reader == [user: Users, filter: {"all", None} \cup Projects, page: SUBSET Boards,
           next: SUBSET Boards, below: SUBSET Boards, listed: SUBSET Boards,
           steady: SUBSET Boards, state: {"read", "served", "ended"}]

(* The boards that stand still are listed or below the cursor, and not     *)
(* both; a page that is being served parts those below the cursor.         *)
Following(r) ==
  /\ r.steady \subseteq r.listed \cup r.below
  /\ r.steady \cap r.listed \cap r.below = {}
  /\ r.state = "read" => /\ r.steady \subseteq r.listed \cup r.page \cup r.next
                         /\ r.next \subseteq r.below /\ r.page \cap r.next = {}
Still(r) == \A b \in r.steady : board[b].status = "active"
                                /\ (r.filter = "all" \/ board[b].project = r.filter)
ReaderInv == reader # None => reader \in Reader /\ Following(reader) /\ Still(reader)

(* A page and what is left below it, of any set of boards.                 *)
LEMMA PageParts ==
  ASSUME NEW S \in SUBSET Boards
  PROVE  LET q == PageQuery(S) IN
         /\ q.page \in SUBSET Boards /\ q.next \in SUBSET Boards
         /\ q.next \subseteq S /\ q.page \cap q.next = {}
         /\ \A b \in S : board[b].status = "active" => b \in q.page \cup q.next
  BY DEF PageQuery, Active, First

(* A row that is written leaves what the client has still to see.          *)
LEMMA ForgetReader ==
  ASSUME NEW b \in Boards, reader \in Reader, reader # None, Forget(b)
  PROVE  /\ reader' \in Reader
         /\ reader'.below = reader.below \ {b} /\ reader'.next = reader.next \ {b}
         /\ reader'.steady = reader.steady \ {b} /\ reader'.page = reader.page
         /\ reader'.listed = reader.listed /\ reader'.state = reader.state
         /\ reader'.filter = reader.filter
  BY DEF Forget, Reader

(* What others do leaves the boards that stand still where they are.       *)
LEMMA ReaderKept ==
  ASSUME RowsInv, ReaderInv, Kept
  PROVE  ReaderInv'
<1>1. CASE /\ reader' = reader
           /\ \A b \in Boards : Exists(b) => /\ board'[b].status = board[b].status
                                             /\ board'[b].project = board[b].project
  <2> SUFFICES ASSUME reader # None PROVE reader \in Reader /\ Following(reader) /\ Still(reader)'
    BY <1>1 DEF ReaderInv, Following
  <2>1. reader.steady \subseteq Boards
    BY DEF ReaderInv, Reader
  <2> QED
    BY <1>1, <2>1 DEF ReaderInv, Still, Exists
<1>2. ASSUME NEW b \in Boards, Forget(b), \A a \in Boards : a # b => board'[a] = board[a]
      PROVE  ReaderInv'
  <2>1. CASE reader = None
    BY <1>2, <2>1 DEF Forget, ReaderInv
  <2>2. CASE reader # None
    <3>1. reader \in Reader /\ Following(reader) /\ Still(reader)
      BY <2>2 DEF ReaderInv
    <3>2. /\ reader' \in Reader
          /\ reader'.below = reader.below \ {b} /\ reader'.next = reader.next \ {b}
          /\ reader'.steady = reader.steady \ {b} /\ reader'.page = reader.page
          /\ reader'.listed = reader.listed /\ reader'.state = reader.state
          /\ reader'.filter = reader.filter
      BY <1>2, <2>2, <3>1, ForgetReader
    <3>3. Following(reader')
      BY <3>1, <3>2 DEF Following
    <3>4. Still(reader)'
      <4>1. reader.steady \subseteq Boards
        BY <3>1 DEF Reader
      <4> QED
        BY <1>2, <3>1, <3>2, <4>1 DEF Still
    <3> QED
      BY <3>2, <3>3, <3>4 DEF ReaderInv, Following
  <2> QED
    BY <2>1, <2>2
<1> QED
  BY <1>1, <1>2 DEF Kept

(* The first page is read: everything that is active is in it or below.    *)
LEMMA ListReader ==
  ASSUME RowsInv, NEW u \in Users, NEW filter \in {"all", None} \cup Projects, ListBoards(u, filter)
  PROVE  ReaderInv'
<1> DEFINE S == Filtered(filter)
           q == PageQuery(S)
<1>1. /\ reader' = [user |-> u, filter |-> filter, page |-> q.page, next |-> q.next, below |-> S,
                    listed |-> {}, steady |-> Active(S), state |-> "read"]
      /\ board' = board
  BY DEF ListBoards, Reading, rows
<1>2. S \in SUBSET Boards /\ \A b \in S : filter = "all" \/ board[b].project = filter
  BY DEF Filtered, RowsInv, Ordered
<1> HIDE DEF S
<1>3. /\ q.page \in SUBSET Boards /\ q.next \in SUBSET Boards
      /\ q.next \subseteq S /\ q.page \cap q.next = {}
      /\ \A b \in S : board[b].status = "active" => b \in q.page \cup q.next
  BY <1>2, PageParts
<1> HIDE DEF q
<1>4. Active(S) = {b \in S : board[b].status = "active"}
  BY DEF Active
<1>5. /\ reader' \in Reader /\ reader'.steady = Active(S) /\ reader'.listed = {} /\ reader'.below = S
      /\ reader'.page = q.page /\ reader'.next = q.next /\ reader'.filter = filter
  BY <1>1, <1>2, <1>3, <1>4 DEF Reader
<1>6. Following(reader')
  BY <1>3, <1>4, <1>5 DEF Following
<1>7. Still(reader)'
  BY <1>1, <1>2, <1>4, <1>5 DEF Still
<1> QED
  BY <1>5, <1>6, <1>7 DEF ReaderInv, Following

(* The next page parts what is below the cursor; nothing that stands still *)
(* is missing from the query.                                              *)
LEMMA NextReader ==
  ASSUME RowsInv, ReaderInv, NextPage
  PROVE  ReaderInv'
<1> DEFINE S == Filtered(reader.filter) \cap reader.below
           q == PageQuery(S)
<1>1. /\ reader # None /\ board' = board
      /\ reader' = [reader EXCEPT !.page = q.page, !.next = q.next, !.state = "read"]
  BY DEF NextPage, Reading, rows
<1>2. reader \in Reader /\ Following(reader) /\ Still(reader)
  BY <1>1 DEF ReaderInv
<1>3. S \subseteq reader.below /\ S \in SUBSET Boards
  BY <1>2 DEF Reader
<1>4. \A b \in reader.steady \cap reader.below : b \in S
  <2>1. \A b \in reader.steady : b \in ToSet(recent)
    BY <1>2 DEF RowsInv, Ordered, Still, Exists, Reader
  <2> QED
    BY <1>2, <2>1 DEF Still, Filtered
<1> HIDE DEF S
<1>5. /\ q.page \in SUBSET Boards /\ q.next \in SUBSET Boards
      /\ q.next \subseteq S /\ q.page \cap q.next = {}
      /\ \A b \in S : board[b].status = "active" => b \in q.page \cup q.next
  BY <1>3, PageParts
<1> HIDE DEF q
<1>6. /\ reader' \in Reader /\ reader'.page = q.page /\ reader'.next = q.next /\ reader'.state = "read"
      /\ reader'.below = reader.below /\ reader'.listed = reader.listed
      /\ reader'.steady = reader.steady /\ reader'.filter = reader.filter
  BY <1>1, <1>2, <1>5 DEF Reader
<1>7. Following(reader')
  <2>1. reader.steady \subseteq reader.listed \cup q.page \cup q.next
    BY <1>2, <1>4, <1>5 DEF Following, Still
  <2> QED
    BY <1>2, <1>3, <1>5, <1>6, <2>1 DEF Following
<1>8. Still(reader)'
  BY <1>1, <1>2, <1>6 DEF Still
<1> QED
  BY <1>6, <1>7, <1>8 DEF ReaderInv, Following

(* A page that is served moves the cursor; one that fails leaves it.       *)
LEMMA ServeReader ==
  ASSUME RowsInv, ReaderInv, ServePage \/ PageFails \/ LeaveList
  PROVE  ReaderInv'
<1>1. CASE ServePage
  <2>1. /\ reader # None /\ board' = board /\ reader.state = "read"
        /\ reader' = [reader EXCEPT !.listed = @ \cup reader.page, !.below = reader.next,
                                    !.page = {}, !.next = {},
                                    !.state = IF reader.next = {} THEN "ended" ELSE "served"]
    BY <1>1 DEF ServePage, Reading, rows
  <2>2. reader \in Reader /\ Following(reader) /\ Still(reader)
    BY <2>1 DEF ReaderInv
  <2>3. /\ reader' \in Reader /\ reader'.state # "read" /\ reader'.steady = reader.steady
        /\ reader'.below = reader.next /\ reader'.listed = reader.listed \cup reader.page
        /\ reader'.filter = reader.filter
    BY <2>1, <2>2 DEF Reader
  <2>4. Following(reader') /\ Still(reader)'
    BY <2>1, <2>2, <2>3 DEF Following, Still
  <2> QED
    BY <2>3, <2>4 DEF ReaderInv, Following
<1>2. CASE PageFails
  <2>1. /\ reader # None /\ board' = board
        /\ reader' = [reader EXCEPT !.page = {}, !.next = {}, !.state = "served"]
    BY <1>2 DEF PageFails, Reading, rows
  <2>2. reader \in Reader /\ Following(reader) /\ Still(reader)
    BY <2>1 DEF ReaderInv
  <2>3. /\ reader' \in Reader /\ reader'.state = "served" /\ reader'.steady = reader.steady
        /\ reader'.below = reader.below /\ reader'.listed = reader.listed
        /\ reader'.filter = reader.filter
    BY <2>1, <2>2 DEF Reader
  <2>4. Following(reader') /\ Still(reader)'
    BY <2>1, <2>2, <2>3 DEF Following, Still
  <2> QED
    BY <2>3, <2>4 DEF ReaderInv, Following
<1>3. CASE LeaveList
  BY <1>3 DEF LeaveList, ReaderInv
<1> QED
  BY <1>1, <1>2, <1>3

(* Every step of the content keeps the client's list complete.             *)
LEMMA ReaderStep ==
  ASSUME RowsInv, ReaderInv, \A c \in Requests : ~ Idle(c) => ContentRequest(req[c]), [Next]_vars
  PROVE  ReaderInv'
<1>1. CASE Lists
  BY <1>1, ListReader, NextReader, ServeReader DEF Lists
<1>2. CASE ~ Lists
  BY <1>2, ContentEffect, ReaderKept DEF Effect
<1> QED
  BY <1>1, <1>2

-----------------------------------------------------------------------------
(* Threads and comments.                                                   *)

TalkTypes == /\ thread \in [Threads -> Thread \cup {None, Gone}]
             /\ comment \in [Comments -> Comment \cup {None, Gone}]
Anchored == /\ \A t \in Threads : Open(t) => Exists(BoardOf(t))
            /\ \A m \in Comments : Posted(m) => Open(comment[m].thread)
TalkInv == TalkTypes /\ Anchored

(* How far a thread and a comment get in one step.                         *)
ThreadOnward(t) ==
  \/ thread'[t] = thread[t] \/ thread[t] = None \/ (Open(t) /\ thread'[t] = Gone)
  \/ Open(t) /\ Open(t)' /\ thread[t].revision < thread'[t].revision
CommentOnward(m) ==
  \/ comment'[m] = comment[m] \/ comment[m] = None \/ (Posted(m) /\ comment'[m] = Gone)
  \/ Posted(m) /\ Posted(m)' /\ comment[m].revision < comment'[m].revision
TalkOnward == (\A t \in Threads : ThreadOnward(t)) /\ (\A m \in Comments : CommentOnward(m))

(* An open thread has a row, and so has a posted comment.                  *)
LEMMA TalkRows ==
  ASSUME TalkInv
  PROVE  /\ \A t \in Threads : Open(t) => thread[t] \in Thread /\ BoardOf(t) \in Boards
         /\ \A m \in Comments : Posted(m) => comment[m] \in Comment /\ comment[m].thread \in Threads
  BY DEF TalkInv, TalkTypes, Open, Posted, BoardOf, Thread, Comment

(* What a board's end takes along leaves no thread without its board, and  *)
(* no comment without its thread.                                          *)
LEMMA CascadeTalk ==
  ASSUME TalkInv, Cascade, \A b \in Boards : Onward(b)
  PROVE  TalkInv' /\ TalkOnward
<1> DEFINE lost == {t \in Threads : Open(t) /\ board'[BoardOf(t)].status = "gone"}
<1>1. /\ thread' = [t \in Threads |-> IF t \in lost THEN Gone ELSE thread[t]]
      /\ comment' = [m \in Comments |-> IF Posted(m) /\ comment[m].thread \in lost
                                         THEN Gone ELSE comment[m]]
  BY DEF Cascade
<1>2. \A t \in lost : t \in Threads /\ Open(t)
  OBVIOUS
<1>3. ASSUME NEW t \in Threads, Open(t), t \notin lost PROVE Exists(BoardOf(t))'
  <2>1. BoardOf(t) \in Boards /\ Exists(BoardOf(t)) /\ board'[BoardOf(t)].status # "gone"
    BY <1>3, TalkRows DEF TalkInv, Anchored
  <2>2. thread'[t] = thread[t]
    BY <1>1, <1>3
  <2>3. board'[BoardOf(t)].status \notin {"absent", "gone"}
    BY <2>1 DEF Onward, Exists
  <2> QED
    BY <2>2, <2>3 DEF Exists, BoardOf
<1> HIDE DEF lost
<1>4. \A t \in Threads : thread'[t] = IF t \in lost THEN Gone ELSE thread[t]
  BY <1>1
<1>5. \A m \in Comments : comment'[m] = IF Posted(m) /\ comment[m].thread \in lost THEN Gone ELSE comment[m]
  BY <1>1
<1>6. TalkTypes'
  BY <1>1 DEF TalkInv, TalkTypes
<1>7. Anchored'
  <2>1. ASSUME NEW t \in Threads, Open(t)' PROVE Exists(BoardOf(t))'
    <3>1. t \notin lost /\ Open(t)
      BY <1>4, <2>1 DEF Open
    <3> QED
      BY <1>3, <3>1
  <2>2. ASSUME NEW m \in Comments, Posted(m)' PROVE Open(comment[m].thread)'
    <3>1. comment'[m] = comment[m] /\ Posted(m) /\ comment[m].thread \notin lost
      BY <1>5, <2>2 DEF Posted
    <3>2. comment[m].thread \in Threads /\ Open(comment[m].thread)
      BY <3>1, TalkRows DEF TalkInv, Anchored
    <3> QED
      BY <1>4, <3>1, <3>2 DEF Open
  <2> QED
    BY <2>1, <2>2 DEF Anchored
<1>8. TalkOnward
  BY <1>2, <1>4, <1>5 DEF TalkOnward, ThreadOnward, CommentOnward
<1> QED
  BY <1>6, <1>7, <1>8 DEF TalkInv

(* Where no board goes, no thread and no comment goes.                     *)
LEMMA CascadeNothing ==
  ASSUME TalkInv, Cascade, \A b \in Boards : Exists(b) => board'[b].status # "gone"
  PROVE  UNCHANGED threadRows
<1> DEFINE lost == {t \in Threads : Open(t) /\ board'[BoardOf(t)].status = "gone"}
<1>1. /\ thread' = [t \in Threads |-> IF t \in lost THEN Gone ELSE thread[t]]
      /\ comment' = [m \in Comments |-> IF Posted(m) /\ comment[m].thread \in lost
                                         THEN Gone ELSE comment[m]]
  BY DEF Cascade
<1>2. lost = {}
  BY TalkRows DEF TalkInv, Anchored
<1>3. thread' = thread
  BY <1>1, <1>2 DEF TalkInv, TalkTypes
<1>4. comment' = comment
  BY <1>1, <1>2 DEF TalkInv, TalkTypes
<1> QED
  BY <1>3, <1>4 DEF threadRows

(* A thread or a comment that was read earlier: it is gone, or it is the   *)
(* same or has a later revision.                                           *)
ThreadSeen(t, row) ==
  /\ row \in Thread /\ thread[t] # None
  /\ Open(t) => /\ row.revision <= thread[t].revision
                /\ row.revision = thread[t].revision => thread[t] = row
CommentSeen(m, row) ==
  /\ row \in Comment /\ comment[m] # None
  /\ Posted(m) => /\ row.revision <= comment[m].revision
                  /\ row.revision = comment[m].revision => comment[m] = row

TalkRequest(r) ==
  /\ r.op = "thread.create" => r.at \in Boards /\ r.to \in Anchors
  /\ r.op \in {"comment.reply", "thread.resolve"} => r.at \in Threads
  /\ r.op = "thread.resolve" => ThreadSeen(r.at, r.seen)
  /\ r.op = "comment.edit" => r.at \in Comments /\ CommentSeen(r.at, r.seen)

RequestsInv == /\ DOMAIN req = Requests
               /\ \A c \in Requests : ~ Idle(c) => ContentRequest(req[c]) /\ TalkRequest(req[c])

(* What a request has read stays seen, whatever happens to the rows.       *)
LEMMA RequestKept ==
  ASSUME RowsInv, RowsInv', TalkInv, TalkInv', \A b \in Boards : Onward(b), TalkOnward,
         NEW c \in Requests, req'[c] = req[c], ContentRequest(req[c]), TalkRequest(req[c])
  PROVE  ContentRequest(req[c])' /\ TalkRequest(req[c])'
<1> DEFINE r == req[c]
<1>1. ASSUME r.op \in BoardOps
      PROVE  BoardSeen(r.at, r.seen)'
  <2>0. PICK b \in Boards, row \in BoardRow : b = r.at /\ row = r.seen
    BY <1>1 DEF ContentRequest, BoardSeen
  <2>1. BoardSeen(b, row) /\ Onward(b)
    BY <1>1, <2>0 DEF ContentRequest
  <2>2. row.revision \in Nat /\ board[b].revision \in Nat /\ board'[b].revision \in Nat
    BY <2>1 DEF BoardSeen, BoardRow, RowsInv, RowTypes
  <2>3. \/ board'[b].status = "gone"
        \/ /\ board'[b].status \notin {"absent", "gone"} /\ row.revision <= board'[b].revision
           /\ row.revision = board'[b].revision => Metadata(board'[b]) = Metadata(row)
    <3>1. CASE board[b].status = "gone"
      BY <2>1, <3>1 DEF Onward, Exists
    <3>2. CASE board[b].status # "gone"
      <4>1. /\ board[b].status \notin {"absent", "gone"} /\ row.revision <= board[b].revision
            /\ row.revision = board[b].revision => Metadata(board[b]) = Metadata(row)
        BY <2>1, <3>2 DEF BoardSeen, Exists
      <4> QED
        BY <2>1, <2>2, <4>1 DEF Onward, Exists
    <3> QED
      BY <3>1, <3>2
  <2> QED
    BY <2>0, <2>3 DEF BoardSeen, Exists, Metadata
<1>2. ASSUME r.op = "thread.resolve"
      PROVE  ThreadSeen(r.at, r.seen)'
  <2>0. PICK t \in Threads, row \in Thread : t = r.at /\ row = r.seen
    BY <1>2 DEF TalkRequest, ThreadSeen
  <2>1. ThreadSeen(t, row) /\ ThreadOnward(t)
    BY <1>2, <2>0 DEF TalkRequest, TalkOnward
  <2>2. row.revision \in Nat /\ (Open(t) => thread[t].revision \in Nat) /\ (Open(t)' => thread'[t].revision \in Nat)
    BY <2>1 DEF ThreadSeen, Thread, TalkInv, TalkTypes, Open
  <2>3. /\ thread'[t] # None
        /\ thread'[t] \notin {None, Gone} =>
             /\ row.revision <= thread'[t].revision
             /\ row.revision = thread'[t].revision => thread'[t] = row
    BY <2>1, <2>2, DiscussionAssumption DEF ThreadSeen, ThreadOnward, Open
  <2> QED
    BY <2>0, <2>3 DEF ThreadSeen, Open
<1>3. ASSUME r.op = "comment.edit"
      PROVE  CommentSeen(r.at, r.seen)'
  <2>0. PICK m \in Comments, row \in Comment : m = r.at /\ row = r.seen
    BY <1>3 DEF TalkRequest, CommentSeen
  <2>1. CommentSeen(m, row) /\ CommentOnward(m)
    BY <1>3, <2>0 DEF TalkRequest, TalkOnward
  <2>2. row.revision \in Nat /\ (Posted(m) => comment[m].revision \in Nat) /\ (Posted(m)' => comment'[m].revision \in Nat)
    BY <2>1 DEF CommentSeen, Comment, TalkInv, TalkTypes, Posted
  <2>3. /\ comment'[m] # None
        /\ comment'[m] \notin {None, Gone} =>
             /\ row.revision <= comment'[m].revision
             /\ row.revision = comment'[m].revision => comment'[m] = row
    BY <2>1, <2>2, DiscussionAssumption DEF CommentSeen, CommentOnward, Posted
  <2> QED
    BY <2>0, <2>3 DEF CommentSeen, Posted
<1> QED
  BY <1>1, <1>2, <1>3 DEF ContentRequest, TalkRequest

-----------------------------------------------------------------------------
(* What a request reads when it asks.                                      *)

(* A board whose metadata may be read exists, and one that may be edited   *)
(* is active.                                                              *)
LEMMA ReadBoardsExist ==
  ASSUME NEW b \in Boards, NEW u
  PROVE  /\ Require(Rows(b), "board", u, "read_metadata") => Exists(b)
         /\ Require(Rows(b), "board", u, "edit_content") => Exists(b)
         /\ BoardContentReadable(Rows(b), u) => Exists(b)
<1>1. Rows(b).board = board[b].status
  BY DEF Rows
<1>2. Load(Rows(b), "board", u).live => board[b].status = "active"
  BY <1>1 DEF Load
<1>3. Load(Rows(b), "board", u).status = board[b].status
  BY <1>1 DEF Load
<1>4. ASSUME NEW f PROVE /\ Resolve(f).canRead => f.live
                         /\ Resolve(f).canEditContent => f.live
  BY DEF Resolve
<1> DEFINE f == Load(Rows(b), "board", u)
<1>5. Allowed(f, "board", "read_metadata") => f.live \/ f.status = "initializing"
  BY <1>4 DEF Allowed
<1>6. Allowed(f, "board", "edit_content") => f.live
  BY <1>4 DEF Allowed
<1>7. BoardContentReadable(Rows(b), u) => board[b].status = "active"
  BY <1>1 DEF BoardContentReadable
<1> QED
  BY <1>2, <1>3, <1>5, <1>6, <1>7 DEF Require, Exists

(* What a request of the content carries when it asks.                     *)
LEMMA AskedContent ==
  ASSUME RowsInv, DOMAIN req = Requests, NEW c \in Requests, NEW u \in Users, AskAny(c, u)
  PROVE  /\ \A d \in Requests : d # c => req'[d] = req[d]
         /\ DOMAIN req' = Requests /\ board' = board
         /\ ContentRequest(req[c])' /\ TalkRequest(req[c])'
<1>0. UNCHANGED <<env, rows, reader, answers>> /\ board' = board
  BY AskingWrites DEF rows
<1>1. ASSUME NEW op \in {"workspace.create", "project.create", "board.create"}, AskCreate(c, op, u)
      PROVE  /\ \A d \in Requests : d # c => req'[d] = req[d]
             /\ DOMAIN req' = Requests
             /\ ContentRequest(req[c])' /\ TalkRequest(req[c])'
  <2>1. PICK k \in Keys, p \in Payload(op) :
          req' = [req EXCEPT ![c] = [op |-> op, user |-> u, key |-> k, payload |-> p]]
    BY <1>1 DEF AskCreate, Ask
  <2>2. req'[c] = [op |-> op, user |-> u, key |-> k, payload |-> p]
    BY <2>1
  <2>3. op = "board.create" => p.project \in Projects \cup {None}
    BY DEF Payload
  <2>4. ContentRequest(req[c])' /\ TalkRequest(req[c])'
    BY <2>2, <2>3 DEF ContentRequest, TalkRequest, ProjectOps, BoardOps
  <2> QED
    BY <2>1, <2>4
<1>2. ASSUME NEW op \in ProjectOps, NEW p \in Projects, NEW to, LockedProject(p),
             AskChange(c, op, u, p, project[p], to)
      PROVE  /\ \A d \in Requests : d # c => req'[d] = req[d]
             /\ DOMAIN req' = Requests
             /\ ContentRequest(req[c])' /\ TalkRequest(req[c])'
  <2>1. req' = [req EXCEPT ![c] = [op |-> op, user |-> u, at |-> p, seen |-> project[p], to |-> to]]
    BY <1>2 DEF AskChange, Ask
  <2>2. project[p] \in ProjectRow /\ project[p].state = "live"
    BY <1>2 DEF RowsInv, RowTypes, LockedProject
  <2>3. ContentRequest(req[c])' /\ TalkRequest(req[c])'
    BY <2>1, <2>2 DEF ContentRequest, TalkRequest, ProjectOps, BoardOps
  <2> QED
    BY <2>1, <2>3
<1>3. ASSUME NEW op \in BoardOps, NEW b \in Boards, NEW to, Exists(b),
             op = "board.update" => to \in Projects \cup {None},
             AskChange(c, op, u, b, board[b], to)
      PROVE  /\ \A d \in Requests : d # c => req'[d] = req[d]
             /\ DOMAIN req' = Requests
             /\ ContentRequest(req[c])' /\ TalkRequest(req[c])'
  <2>1. req' = [req EXCEPT ![c] = [op |-> op, user |-> u, at |-> b, seen |-> board[b], to |-> to]]
    BY <1>3 DEF AskChange, Ask
  <2>2. board[b] \in BoardRow /\ board[b].revision \in Nat
    BY DEF RowsInv, RowTypes, BoardRow
  <2>3. /\ req'[c].op = op /\ req'[c].user = u /\ req'[c].at = b /\ req'[c].seen = board[b]
        /\ req'[c].to = to
    BY <2>1
  <2>4. BoardSeen(req[c].at, req[c].seen)'
    BY <1>0, <1>3, <2>2, <2>3 DEF BoardSeen, Exists
  <2>5. ContentRequest(req[c])' /\ TalkRequest(req[c])'
    BY <1>3, <2>3, <2>4 DEF ContentRequest, TalkRequest, ProjectOps, BoardOps
  <2> QED
    BY <2>1, <2>5
<1>4. CASE AskCreateWorkspace(c, u) \/ AskCreateProject(c, u) \/ AskCreateBoard(c, u)
  BY <1>0, <1>1, <1>4 DEF AskCreateWorkspace, AskCreateProject, AskCreateBoard
<1>5. CASE AskRenameWorkspace(c, u)
  <2>1. req' = [req EXCEPT ![c] = [op |-> "workspace.rename", user |-> u, at |-> None,
                                   seen |-> [revision |-> renamed], to |-> None]]
    BY <1>5 DEF AskRenameWorkspace, AskChange, Ask
  <2>2. ContentRequest(req[c])' /\ TalkRequest(req[c])'
    BY <2>1 DEF ContentRequest, TalkRequest, ProjectOps, BoardOps
  <2> QED
    BY <1>0, <2>1, <2>2
<1>6. ASSUME NEW p \in Projects, AskRenameProject(c, u, p) \/ AskDeleteProject(c, u, p)
      PROVE  /\ \A d \in Requests : d # c => req'[d] = req[d]
             /\ DOMAIN req' = Requests
             /\ ContentRequest(req[c])' /\ TalkRequest(req[c])'
  BY <1>2, <1>6 DEF AskRenameProject, AskDeleteProject, ProjectScope, ProjectOps
<1>7. ASSUME NEW b \in Boards, AskUpdateBoard(c, u, b)
      PROVE  /\ \A d \in Requests : d # c => req'[d] = req[d]
             /\ DOMAIN req' = Requests
             /\ ContentRequest(req[c])' /\ TalkRequest(req[c])'
  <2>1. PICK p \in Projects \cup {None} : AskChange(c, "board.update", u, b, board[b], p)
    BY <1>7 DEF AskUpdateBoard
  <2>2. Exists(b)
    BY <1>7, ReadBoardsExist DEF AskUpdateBoard
  <2> QED
    BY <1>3, <2>1, <2>2 DEF BoardOps
<1>8. ASSUME NEW b \in Boards, AskDeleteBoard(c, u, b)
      PROVE  /\ \A d \in Requests : d # c => req'[d] = req[d]
             /\ DOMAIN req' = Requests
             /\ ContentRequest(req[c])' /\ TalkRequest(req[c])'
  <2>1. AskChange(c, "board.delete", u, b, board[b], None) /\ Exists(b)
    BY <1>8, ReadBoardsExist DEF AskDeleteBoard, MayDelete
  <2> QED
    BY <1>3, <2>1 DEF BoardOps
<1> QED
  BY <1>0, <1>4, <1>5, <1>6, <1>7, <1>8 DEF AskAny

(* What a request of a discussion carries when it asks.                    *)
LEMMA AskedTalk ==
  ASSUME TalkInv, DOMAIN req = Requests, NEW c \in Requests, NEW u \in Users, AskDiscussion(c, u)
  PROVE  /\ \A d \in Requests : d # c => req'[d] = req[d]
         /\ DOMAIN req' = Requests
         /\ UNCHANGED <<env, rows, reader, answers, threadRows>>
         /\ ContentRequest(req[c])' /\ TalkRequest(req[c])'
<1>1. ASSUME NEW op, NEW at, NEW row, NEW to, Discuss(c, op, u, at, row, to)
      PROVE  /\ \A d \in Requests : d # c => req'[d] = req[d]
             /\ DOMAIN req' = Requests
             /\ UNCHANGED <<env, rows, reader, answers, threadRows>>
             /\ req'[c].op = op /\ req'[c].user = u /\ req'[c].at = at /\ req'[c].seen = row
             /\ req'[c].to = to
  <2>1. /\ req' = [req EXCEPT ![c] = [op |-> op, user |-> u, at |-> at, seen |-> row, to |-> to]]
        /\ UNCHANGED <<env, rows, reader, answers, threadRows>>
    BY <1>1 DEF Discuss, AskChange, Ask
  <2> QED
    BY <2>1
<1>2. ASSUME NEW b \in Boards, NEW anchor \in Anchors, AskCreateThread(c, u, b, anchor)
      PROVE  ContentRequest(req[c])' /\ TalkRequest(req[c])'
  <2>1. req'[c].op = "thread.create" /\ req'[c].user = u /\ req'[c].at = b /\ req'[c].to = anchor
    BY <1>1, <1>2 DEF AskCreateThread
  <2> QED
    BY <2>1 DEF ContentRequest, TalkRequest, ProjectOps, BoardOps
<1>3. ASSUME NEW t \in Threads, NEW op \in {"comment.reply", "thread.resolve"}, NEW to,
             AskOnThread(c, op, u, t, to)
      PROVE  /\ UNCHANGED threadRows
             /\ ContentRequest(req[c])' /\ TalkRequest(req[c])'
  <2>1. /\ req'[c].op = op /\ req'[c].user = u /\ req'[c].at = t /\ req'[c].seen = thread[t]
        /\ thread' = thread /\ Open(t)
    BY <1>1, <1>3 DEF AskOnThread, threadRows
  <2>2. thread[t] \in Thread /\ thread[t] # None /\ thread[t].revision \in Nat
    BY <2>1, TalkRows DEF Open, Thread
  <2>3. ThreadSeen(req[c].at, req[c].seen)'
    BY <2>1, <2>2 DEF ThreadSeen, Open
  <2> QED
    BY <1>1, <1>3, <2>1, <2>3 DEF ContentRequest, TalkRequest, ProjectOps, BoardOps, AskOnThread
<1>4. ASSUME NEW m \in Comments, NEW to, AskEditComment(c, u, m, to)
      PROVE  ContentRequest(req[c])' /\ TalkRequest(req[c])'
  <2>1. /\ req'[c].op = "comment.edit" /\ req'[c].user = u /\ req'[c].at = m
        /\ req'[c].seen = comment[m] /\ comment' = comment /\ Posted(m)
    BY <1>1, <1>4 DEF AskEditComment, threadRows
  <2>2. comment[m] \in Comment /\ comment[m] # None /\ comment[m].revision \in Nat
    BY <2>1, TalkRows DEF Posted, Comment
  <2>3. CommentSeen(req[c].at, req[c].seen)'
    BY <2>1, <2>2 DEF CommentSeen, Posted
  <2> QED
    BY <2>1, <2>3 DEF ContentRequest, TalkRequest, ProjectOps, BoardOps
<1>5. ContentRequest(req[c])' /\ TalkRequest(req[c])'
  BY <1>2, <1>3, <1>4 DEF AskDiscussion, AskReply, AskResolve
<1>6. \E op, at, row, to : Discuss(c, op, u, at, row, to)
  BY DEF AskDiscussion, AskCreateThread, AskReply, AskResolve, AskOnThread, AskEditComment
<1> QED
  BY <1>1, <1>5, <1>6

-----------------------------------------------------------------------------
(* The transactions of discussions.                                        *)

(* Whoever passes the lock of a discussion is one whom Go shows that he    *)
(* may comment, and the board is active.                                   *)
LEMMA LockedMayComment ==
  ASSUME NEW b \in Boards, NEW u, LockDiscussion(b, u)
  PROVE  Exists(b) /\ MayComment(b, u)
<1> DEFINE w == Rows(b)
           f == Load(w, "board", u)
<1>1. /\ BoardContentReadable(w, u) /\ IsWorkspaceMember(w, u) /\ EntitlementEditable(w)
  BY DEF LockDiscussion, AccessEntitlement
<1>2. Found(w, "board", u)
  BY <1>1 DEF Found
<1>3. f.live /\ f.mode = "editable"
  BY <1>1 DEF Load, Mode, EntitlementEditable, BoardContentReadable
<1>4. Resolve(f).canComment
  BY <1>3 DEF Resolve, Readable
<1> QED
  BY <1>1, <1>2, <1>4, ReadBoardsExist DEF MayComment

(* The row of a thread that is resolved or opened again.                   *)
LEMMA NextThread ==
  ASSUME NEW row \in Thread, row.revision < MaxRevision, NEW to \in Users \cup {None}
  PROVE  LET next == [row EXCEPT !.revision = @ + 1, !.resolver = to] IN
         /\ next \in Thread /\ next.board = row.board /\ next.revision = row.revision + 1
         /\ row.revision \in Nat
<1> DEFINE mid == [row EXCEPT !.revision = @ + 1]
           next == [mid EXCEPT !.resolver = to]
<1>1. row.revision \in Nat /\ row.revision + 1 \in 1..MaxRevision
  BY ContentAssumption DEF Thread
<1>2. mid \in Thread /\ mid.board = row.board /\ mid.revision = row.revision + 1
  BY <1>1 DEF Thread
<1> HIDE DEF mid
<1>3. next \in Thread /\ next.board = mid.board /\ next.revision = mid.revision
  BY <1>2 DEF Thread
<1>4. next = [row EXCEPT !.revision = @ + 1, !.resolver = to]
  BY DEF mid
<1> QED
  BY <1>1, <1>2, <1>3, <1>4

(* The row of a comment that is edited or removed.                         *)
LEMMA NextComment ==
  ASSUME NEW row \in Comment, row.revision < MaxRevision, NEW gone \in BOOLEAN
  PROVE  LET next == [row EXCEPT !.revision = @ + 1, !.removed = gone] IN
         /\ next \in Comment /\ next.thread = row.thread /\ next.revision = row.revision + 1
         /\ row.revision \in Nat
<1> DEFINE mid == [row EXCEPT !.revision = @ + 1]
           next == [mid EXCEPT !.removed = gone]
<1>1. row.revision \in Nat /\ row.revision + 1 \in 1..MaxRevision
  BY ContentAssumption DEF Comment
<1>2. mid \in Comment /\ mid.thread = row.thread /\ mid.revision = row.revision + 1
  BY <1>1 DEF Comment
<1> HIDE DEF mid
<1>3. next \in Comment /\ next.thread = mid.thread /\ next.revision = mid.revision
  BY <1>2 DEF Comment
<1>4. next = [row EXCEPT !.revision = @ + 1, !.removed = gone]
  BY DEF mid
<1> QED
  BY <1>1, <1>2, <1>3, <1>4

(* What one of these transactions does to the threads and comments, and    *)
(* what was true of its request.                                           *)
LEMMA TalkCommit ==
  ASSUME TalkInv, NEW c \in Requests, ContentRequest(req[c]), TalkRequest(req[c]), DiscussionCommit(c)
  PROVE  TalkInv' /\ TalkOnward /\ Discussed(req[c])
<1> DEFINE r == req[c]
<1>0. UNCHANGED <<env, rows, reader, answers>> /\ board' = board
  BY DiscussionRows DEF rows
<1>1. CASE CreateThread(c)
  <2>1. PICK t \in Threads, m \in Comments :
          /\ thread[t] = None /\ comment[m] = None
          /\ thread' = [thread EXCEPT ![t] = [board |-> r.at, anchor |-> r.to, author |-> r.user,
                                              resolver |-> None, revision |-> 1]]
          /\ comment' = [comment EXCEPT ![m] = [thread |-> t, author |-> r.user,
                                                removed |-> FALSE, revision |-> 1]]
    BY <1>1 DEF CreateThread
  <2>2. /\ r.op = "thread.create" /\ LockDiscussion(r.at, r.user) /\ r.at \in Boards
        /\ r.to \in Anchors /\ r.user \in Users
    BY <1>1 DEF CreateThread, Asked, TalkRequest, ContentRequest
  <2>3. Exists(r.at) /\ MayComment(r.at, r.user)
    BY <2>2, LockedMayComment
  <2> DEFINE row == [board |-> r.at, anchor |-> r.to, author |-> r.user,
                     resolver |-> None, revision |-> 1]
             note == [thread |-> t, author |-> r.user, removed |-> FALSE, revision |-> 1]
  <2>4. row \in Thread /\ row.board = r.at /\ note \in Comment /\ note.thread = t
    BY <2>2, ContentAssumption DEF Thread, Comment
  <2>5. thread' = [thread EXCEPT ![t] = row] /\ comment' = [comment EXCEPT ![m] = note]
    BY <2>1
  <2>6. row \notin {None, Gone} /\ note \notin {None, Gone}
    BY <2>4, DiscussionAssumption
  <2> HIDE DEF row, note
  <2>7. TalkTypes'
    BY <2>4, <2>5 DEF TalkInv, TalkTypes
  <2>8. /\ thread'[t] = row /\ \A s \in Threads : s # t => thread'[s] = thread[s]
        /\ comment'[m] = note /\ \A l \in Comments : l # m => comment'[l] = comment[l]
    BY <2>5 DEF TalkInv, TalkTypes
  <2>9. ASSUME NEW s \in Threads, Open(s)' PROVE Exists(BoardOf(s))'
    BY <1>0, <2>3, <2>4, <2>8, <2>9 DEF TalkInv, Anchored, Open, BoardOf, Exists
  <2>10. ASSUME NEW l \in Comments, Posted(l)' PROVE Open(comment[l].thread)'
    <3>1. CASE l = m
      BY <2>4, <2>6, <2>8, <3>1 DEF Open
    <3>2. CASE l # m
      <4>1. comment'[l] = comment[l] /\ Posted(l)
        BY <2>8, <2>10, <3>2 DEF Posted
      <4>2. comment[l].thread \in Threads /\ Open(comment[l].thread)
        BY <4>1, TalkRows DEF TalkInv, Anchored
      <4> QED
        BY <2>6, <2>8, <4>1, <4>2 DEF Open
    <3> QED
      BY <3>1, <3>2
  <2>11. TalkOnward
    BY <2>1, <2>8 DEF TalkOnward, ThreadOnward, CommentOnward
  <2>12. Discussed(r)
    BY <2>2, <2>3 DEF Discussed, OnBoard
  <2> QED
    BY <2>7, <2>9, <2>10, <2>11, <2>12 DEF TalkInv, Anchored
<1>2. CASE Reply(c)
  <2>1. PICK m \in Comments :
          /\ comment[m] = None /\ thread' = thread
          /\ comment' = [comment EXCEPT ![m] = [thread |-> r.at, author |-> r.user,
                                                removed |-> FALSE, revision |-> 1]]
    BY <1>2 DEF Reply
  <2>2. /\ r.op = "comment.reply" /\ Open(r.at) /\ LockDiscussion(BoardOf(r.at), r.user)
        /\ r.at \in Threads /\ r.user \in Users /\ BoardOf(r.at) \in Boards
    BY <1>2, TalkRows DEF Reply, Asked, TalkRequest, ContentRequest
  <2>3. MayComment(BoardOf(r.at), r.user)
    BY <2>2, LockedMayComment
  <2> DEFINE note == [thread |-> r.at, author |-> r.user, removed |-> FALSE, revision |-> 1]
  <2>4. note \in Comment /\ note.thread = r.at
    BY <2>2, ContentAssumption DEF Comment
  <2>5. comment' = [comment EXCEPT ![m] = note]
    BY <2>1
  <2> HIDE DEF note
  <2>6. TalkTypes'
    BY <2>1, <2>4, <2>5 DEF TalkInv, TalkTypes
  <2>7. comment'[m] = note /\ \A l \in Comments : l # m => comment'[l] = comment[l]
    BY <2>5 DEF TalkInv, TalkTypes
  <2>8. Anchored'
    BY <1>0, <2>1, <2>2, <2>4, <2>7 DEF TalkInv, Anchored, Open, Posted, BoardOf, Exists
  <2>9. TalkOnward
    BY <2>1, <2>7 DEF TalkOnward, ThreadOnward, CommentOnward
  <2>10. Discussed(r)
    BY <2>2, <2>3 DEF Discussed, OnBoard
  <2> QED
    BY <2>6, <2>8, <2>9, <2>10 DEF TalkInv
<1>3. CASE ResolveThread(c)
  <2>1. PICK t \in Threads : t = r.at
    BY <1>3 DEF ResolveThread, Asked, TalkRequest
  <2>2. /\ r.op = "thread.resolve" /\ Open(t) /\ LockDiscussion(BoardOf(t), r.user)
        /\ thread[t].revision = r.seen.revision /\ thread[t].revision < MaxRevision
        /\ comment' = comment /\ r.user \in Users /\ ThreadSeen(t, r.seen)
    BY <1>3, <2>1 DEF ResolveThread, Asked, ContentRequest, TalkRequest, BoardOf
  <2>3. PICK to \in Users \cup {None} :
          thread' = [thread EXCEPT ![t] = [thread[t] EXCEPT !.revision = @ + 1, !.resolver = to]]
    BY <1>3, <2>1, <2>2 DEF ResolveThread
  <2>4. thread[t] \in Thread /\ BoardOf(t) \in Boards
    BY <2>2, TalkRows
  <2> DEFINE row == [thread[t] EXCEPT !.revision = @ + 1, !.resolver = to]
  <2>5. /\ row \in Thread /\ row.board = thread[t].board /\ row.revision = thread[t].revision + 1
        /\ thread[t].revision \in Nat
    BY <2>2, <2>4, NextThread
  <2>6. thread' = [thread EXCEPT ![t] = row]
    BY <2>3
  <2> HIDE DEF row
  <2>7. row \notin {None, Gone}
    BY <2>5, DiscussionAssumption
  <2>8. TalkTypes'
    BY <2>2, <2>5, <2>6 DEF TalkInv, TalkTypes
  <2>9. thread'[t] = row /\ \A s \in Threads : s # t => thread'[s] = thread[s]
    BY <2>6 DEF TalkInv, TalkTypes
  <2>10. ASSUME NEW s \in Threads, Open(s)' PROVE Exists(BoardOf(s))'
    BY <1>0, <2>2, <2>5, <2>9, <2>10 DEF TalkInv, Anchored, Open, BoardOf, Exists
  <2>11. ASSUME NEW l \in Comments, Posted(l)' PROVE Open(comment[l].thread)'
    <3>1. comment'[l] = comment[l] /\ Posted(l)
      BY <2>2, <2>11 DEF Posted
    <3>2. comment[l].thread \in Threads /\ Open(comment[l].thread)
      BY <3>1, TalkRows DEF TalkInv, Anchored
    <3> QED
      BY <2>7, <2>9, <3>1, <3>2 DEF Open
  <2>12. TalkOnward
    <3>1. thread[t].revision < thread'[t].revision
      BY <2>5, <2>9
    <3> QED
      BY <2>2, <2>7, <2>9, <3>1 DEF TalkOnward, ThreadOnward, CommentOnward, Open
  <2>13. Discussed(r)
    <3>1. MayComment(BoardOf(t), r.user) /\ thread[t] = r.seen
      BY <2>2, <2>4, LockedMayComment DEF ThreadSeen
    <3> QED
      BY <2>1, <2>2, <3>1 DEF Discussed, OnBoard
  <2> QED
    BY <2>8, <2>10, <2>11, <2>12, <2>13 DEF TalkInv, Anchored
<1>4. CASE EditComment(c)
  <2>1. PICK m \in Comments : m = r.at
    BY <1>4 DEF EditComment, Asked, TalkRequest
  <2>2. /\ r.op = "comment.edit" /\ Posted(m) /\ LockDiscussion(BoardOf(comment[m].thread), r.user)
        /\ Editable(comment[m], r) /\ comment[m].revision < MaxRevision
        /\ thread' = thread /\ r.user \in Users /\ CommentSeen(m, r.seen)
    BY <1>4, <2>1 DEF EditComment, Asked, ContentRequest, TalkRequest
  <2>3. PICK gone \in BOOLEAN :
          comment' = [comment EXCEPT ![m] = [comment[m] EXCEPT !.revision = @ + 1, !.removed = gone]]
    BY <1>4, <2>1 DEF EditComment
  <2>4. /\ comment[m] \in Comment /\ comment[m].thread \in Threads /\ Open(comment[m].thread)
        /\ BoardOf(comment[m].thread) \in Boards
    BY <2>2, TalkRows DEF TalkInv, Anchored
  <2> DEFINE row == [comment[m] EXCEPT !.revision = @ + 1, !.removed = gone]
  <2>5. /\ row \in Comment /\ row.thread = comment[m].thread
        /\ row.revision = comment[m].revision + 1 /\ comment[m].revision \in Nat
    BY <2>2, <2>4, NextComment
  <2>6. comment' = [comment EXCEPT ![m] = row]
    BY <2>3
  <2> HIDE DEF row
  <2>7. row \notin {None, Gone}
    BY <2>5, DiscussionAssumption
  <2>8. TalkTypes'
    BY <2>2, <2>5, <2>6 DEF TalkInv, TalkTypes
  <2>9. comment'[m] = row /\ \A l \in Comments : l # m => comment'[l] = comment[l]
    BY <2>6 DEF TalkInv, TalkTypes
  <2>10. Anchored'
    BY <1>0, <2>2, <2>4, <2>5, <2>9 DEF TalkInv, Anchored, Open, Posted, BoardOf, Exists
  <2>11. TalkOnward
    <3>1. comment[m].revision < comment'[m].revision
      BY <2>5, <2>9
    <3> QED
      BY <2>2, <2>7, <2>9, <3>1 DEF TalkOnward, ThreadOnward, CommentOnward, Posted
  <2>12. Discussed(r)
    <3>1. /\ MayComment(BoardOf(comment[m].thread), r.user) /\ comment[m] = r.seen
          /\ ~ comment[m].removed
      BY <2>2, <2>4, LockedMayComment DEF CommentSeen, Editable
    <3> QED
      BY <2>1, <2>2, <3>1 DEF Discussed, OnBoard, BoardOfComment
  <2> QED
    BY <2>8, <2>10, <2>11, <2>12 DEF TalkInv
<1> QED
  BY <1>1, <1>2, <1>3, <1>4 DEF DiscussionCommit

-----------------------------------------------------------------------------
(* The invariant.                                                          *)

ContentInv == RowsInv /\ TalkInv /\ RequestsInv /\ ReaderInv

(* A step of the content: which request it moves, and how.                 *)
LEMMA WhoMoves ==
  ASSUME [Next]_vars, DOMAIN req = Requests
  PROVE  \/ req' = req
         \/ \E c \in Requests, u \in Users : Idle(c) /\ AskAny(c, u)
         \/ \E c \in Requests : /\ ~ Idle(c) /\ (Commit(c) \/ RollBack(c))
                                /\ req' = [req EXCEPT ![c] = None]
<1>1. ASSUME NEW c \in Requests, Commit(c) \/ RollBack(c) PROVE req' = [req EXCEPT ![c] = None]
  <2>1. Answer(c)
    BY <1>1 DEF Commit, RollBack, CreateWorkspace, ReplayWorkspace, RenameWorkspace, CreateProject,
                ReplayProject, RenameProject, DeleteEmpty, CreateBoard, ReplayBoard, UpdateBoard,
                DeleteBoard, DeletedAlready, Replay
  <2> QED
    BY <2>1 DEF Answer
<1>2. CASE Client
  BY <1>1, <1>2 DEF Client
<1>3. CASE Lists
  BY <1>3, ListingReads
<1>4. CASE Workers
  BY <1>4 DEF Workers, CleanUp, CleanUpFails, ImportCompletes, Draw, PurgeBoard
<1>5. CASE Others
  BY <1>5 DEF Others, RoleChanges, GrantChanges, SubscriptionChanges, PurgeStarts, PurgeEnds,
              KeyExpires, Elsewhere
<1>6. CASE UNCHANGED vars
  BY <1>6 DEF vars
<1> QED
  BY <1>2, <1>3, <1>4, <1>5, <1>6 DEF Next

(* Initially nothing is there.                                             *)
LEMMA ContentInitially == DiscussionInit => ContentInv
<1> SUFFICES ASSUME DiscussionInit PROVE ContentInv
  OBVIOUS
<1>1. /\ recent = <<>> /\ reader = None /\ req = [c \in Requests |-> None]
      /\ project = [p \in Projects |-> [state |-> "absent", revision |-> 1]]
      /\ board = [b \in Boards |-> NoBoard("absent")]
      /\ job = [b \in Boards |-> [status |-> "none", attempts |-> 0]]
      /\ thread = [t \in Threads |-> None] /\ comment = [m \in Comments |-> None]
  BY DEF DiscussionInit, Init
<1>2. \A b \in Boards : /\ board[b] \in BoardRow /\ board[b].status = "absent"
                        /\ board[b].project = None /\ board[b].document = "none"
  BY <1>1, NoBoardRow
<1>3. RowTypes
  BY <1>1, <1>2, ContentAssumption DEF RowTypes, ProjectRow, Job
<1>4. RowsSound
  BY <1>1, <1>2, ContentAssumption DEF RowsSound, BoardSound
<1>5. Ordered
  <2>1. {b \in Boards : Exists(b)} = {}
    BY <1>2 DEF Exists
  <2>2. recent \in Seq(Boards) /\ Len(recent) = 0
    BY <1>1, EmptySeq
  <2>3. 1..Len(recent) = {}
    BY <2>2
  <2>4. ToSet(recent) = {}
    <3>1. ToSet(recent) = {recent[i] : i \in 1..Len(recent)}
      BY <2>2, Places
    <3> QED
      BY <2>3, <3>1
  <2> QED
    BY <2>1, <2>2, <2>3, <2>4, OneEach DEF Ordered
<1>6. TalkInv
  BY <1>1 DEF TalkInv, TalkTypes, Anchored, Open, Posted
<1>7. RequestsInv /\ ReaderInv
  BY <1>1 DEF RequestsInv, ReaderInv, Idle
<1> QED
  BY <1>3, <1>4, <1>5, <1>6, <1>7 DEF ContentInv, RowsInv

(* One request moves: the others keep what they have read.                 *)
LEMMA RequestsStep ==
  ASSUME RowsInv, RowsInv', TalkInv, TalkInv', \A b \in Boards : Onward(b), TalkOnward,
         RequestsInv, NEW c \in Requests, DOMAIN req' = Requests,
         \A d \in Requests : d # c => req'[d] = req[d],
         req'[c] = req[c] \/ req'[c] = None \/ (ContentRequest(req[c])' /\ TalkRequest(req[c])')
  PROVE  RequestsInv'
<1>1. ASSUME NEW d \in Requests, req'[d] = req[d], ~ Idle(d)'
      PROVE  ContentRequest(req[d])' /\ TalkRequest(req[d])'
  <2>1. ContentRequest(req[d]) /\ TalkRequest(req[d])
    BY <1>1 DEF RequestsInv, Idle
  <2> QED
    BY <1>1, <2>1, RequestKept
<1>2. ASSUME NEW d \in Requests, ~ Idle(d)'
      PROVE  ContentRequest(req[d])' /\ TalkRequest(req[d])'
  BY <1>1, <1>2 DEF Idle
<1> QED
  BY <1>2 DEF RequestsInv

(* A step of the content, and what goes with it.                           *)
LEMMA ContentStep ==
  ASSUME ContentInv, Next, Cascade
  PROVE  ContentInv'
<1>1. \A c \in Requests : ~ Idle(c) => ContentRequest(req[c])
  BY DEF ContentInv, RequestsInv
<1>2. RowsInv' /\ (\A b \in Boards : Onward(b)) /\ ReaderInv'
  BY <1>1, RowsStep, ReaderStep DEF ContentInv
<1>3. TalkInv' /\ TalkOnward
  BY <1>2, CascadeTalk DEF ContentInv
<1>4. DOMAIN req = Requests
  BY DEF ContentInv, RequestsInv
<1>5. CASE req' = req
  <2>1. ASSUME NEW d \in Requests, ~ Idle(d)'
        PROVE  ContentRequest(req[d])' /\ TalkRequest(req[d])'
    <3>1. ContentRequest(req[d]) /\ TalkRequest(req[d])
      BY <1>5, <2>1 DEF ContentInv, RequestsInv, Idle
    <3> QED
      BY <1>2, <1>3, <1>5, <3>1, RequestKept DEF ContentInv
  <2> QED
    BY <1>2, <1>3, <1>4, <1>5, <2>1 DEF ContentInv, RequestsInv
<1>6. ASSUME NEW c \in Requests, NEW u \in Users, AskAny(c, u) PROVE RequestsInv'
  <2>1. /\ \A d \in Requests : d # c => req'[d] = req[d]
        /\ DOMAIN req' = Requests
        /\ ContentRequest(req[c])' /\ TalkRequest(req[c])'
    BY <1>4, <1>6, AskedContent DEF ContentInv
  <2> QED
    BY <1>2, <1>3, <2>1, RequestsStep DEF ContentInv
<1>7. ASSUME NEW c \in Requests, req' = [req EXCEPT ![c] = None] PROVE RequestsInv'
  <2>1. /\ \A d \in Requests : d # c => req'[d] = req[d]
        /\ DOMAIN req' = Requests /\ req'[c] = None
    BY <1>4, <1>7
  <2> QED
    BY <1>2, <1>3, <2>1, RequestsStep DEF ContentInv
<1>8. RequestsInv'
  BY <1>4, <1>5, <1>6, <1>7, <1>2, <1>3, WhoMoves DEF ContentInv
<1> QED
  BY <1>2, <1>3, <1>8 DEF ContentInv

(* Rows that nobody touches stay as they are.                              *)
LEMMA RowsUntouched ==
  ASSUME RowsInv, ReaderInv, UNCHANGED <<rows, reader>>
  PROVE  RowsInv' /\ ReaderInv' /\ \A b \in Boards : Onward(b)
<1>1. UNCHANGED <<project, board, job, recent, reader>>
  BY DEF rows
<1>2. Effect
  BY <1>1, NoEffect
<1> QED
  BY <1>2, ReaderKept DEF Effect

(* A step of a discussion.                                                 *)
LEMMA TalkStep ==
  ASSUME ContentInv, NEW c \in Requests,
         IF Idle(c) THEN \E u \in Users : AskDiscussion(c, u) ELSE DiscussionCommit(c)
  PROVE  ContentInv'
<1>1. DOMAIN req = Requests
  BY DEF ContentInv, RequestsInv
<1>2. UNCHANGED <<rows, reader>>
  BY DiscussionRows
<1>3. RowsInv' /\ ReaderInv' /\ \A b \in Boards : Onward(b)
  BY <1>2, RowsUntouched DEF ContentInv
<1>4. CASE Idle(c)
  <2>1. PICK u \in Users : AskDiscussion(c, u)
    BY <1>4
  <2>2. /\ \A d \in Requests : d # c => req'[d] = req[d]
        /\ DOMAIN req' = Requests
        /\ UNCHANGED <<env, rows, reader, answers, threadRows>>
        /\ ContentRequest(req[c])' /\ TalkRequest(req[c])'
    BY <1>1, <2>1, AskedTalk DEF ContentInv
  <2>3. TalkInv' /\ TalkOnward
    BY <1>2, <2>2 DEF ContentInv, TalkInv, TalkTypes, Anchored, Open, Posted, BoardOf, Exists,
                      threadRows, rows, TalkOnward, ThreadOnward, CommentOnward
  <2>4. RequestsInv'
    BY <1>3, <2>2, <2>3, RequestsStep DEF ContentInv
  <2> QED
    BY <1>3, <2>3, <2>4 DEF ContentInv
<1>5. CASE ~ Idle(c)
  <2>1. ContentRequest(req[c]) /\ TalkRequest(req[c]) /\ DiscussionCommit(c)
    BY <1>5 DEF ContentInv, RequestsInv
  <2>2. TalkInv' /\ TalkOnward
    BY <2>1, TalkCommit DEF ContentInv
  <2>3. req' = [req EXCEPT ![c] = None]
    BY <2>1 DEF DiscussionCommit, CreateThread, Reply, ResolveThread, EditComment, Writing, Answer
  <2>4. /\ \A d \in Requests : d # c => req'[d] = req[d]
        /\ DOMAIN req' = Requests /\ req'[c] = None
    BY <1>1, <2>3
  <2>5. RequestsInv'
    BY <1>3, <2>2, <2>4, RequestsStep DEF ContentInv
  <2> QED
    BY <1>3, <2>2, <2>5 DEF ContentInv
<1> QED
  BY <1>4, <1>5

(* The whole of it holds in every state that is reached.                   *)
THEOREM ContentInvariance == DiscussionSpec => []ContentInv
<1>1. ContentInv /\ [DiscussionNext]_allVars => ContentInv'
  <2> SUFFICES ASSUME ContentInv, [DiscussionNext]_allVars PROVE ContentInv'
    OBVIOUS
  <2>1. CASE UNCHANGED allVars
    <3>1. UNCHANGED <<env, rows, reader, req, answers, thread, comment>>
      BY <2>1 DEF allVars, vars, threadRows
    <3>2. RowsInv' /\ ReaderInv' /\ \A b \in Boards : Onward(b)
      BY <3>1, RowsUntouched DEF ContentInv
    <3>3. TalkInv'
      BY <3>1 DEF ContentInv, TalkInv, TalkTypes, Anchored, Open, Posted, BoardOf, Exists, rows
    <3>4. RequestsInv'
      BY <3>1 DEF ContentInv, RequestsInv, Idle, ContentRequest, TalkRequest, BoardSeen, ThreadSeen,
                  CommentSeen, Exists, Open, Posted, rows, Metadata
    <3> QED
      BY <3>2, <3>3, <3>4 DEF ContentInv
  <2> QED
    BY <2>1, ContentStep, TalkStep DEF DiscussionNext
<1> QED
  BY <1>1, ContentInitially, PTL DEF DiscussionSpec

(* AllRowsAgree (cmd/worker, internal/board, migrations 8 and 10): the     *)
(* rows of different tables agree between any two transactions, whoever    *)
(* deletes a board or a project and however often.                         *)
THEOREM RowsAlwaysAgree == DiscussionSpec => []AllRowsAgree
<1>1. ContentInv => AllRowsAgree
  <2> SUFFICES ASSUME ContentInv PROVE AllRowsAgree
    OBVIOUS
  <2>1. ASSUME NEW b \in Boards
        PROVE  /\ Exists(b) <=> board[b].document # "none"
               /\ board[b].status = "deleting" => job[b].status \in {"queued", "failed"}
               /\ job[b].status = "succeeded" => board[b].status = "gone"
               /\ board[b].project # None => project[board[b].project].state = "live"
    <3>1. BoardSound(board[b], job[b], Live)
      BY DEF ContentInv, RowsInv, RowsSound
    <3> QED
      BY <3>1 DEF BoardSound, Exists, Live
  <2>2. RowsAgree
    BY <2>1 DEF ContentInv, RowsInv, Ordered, RowsAgree
  <2> QED
    BY <2>2 DEF AllRowsAgree, ContentInv, TalkInv, Anchored
<1> QED
  BY <1>1, ContentInvariance, PTL

(* TraversalComplete (pkg/cursor, internal/board List): a client that      *)
(* follows the cursor sees every board that stood still, and sees it once. *)
THEOREM TraversalsAreComplete == DiscussionSpec => []TraversalComplete
<1>1. ContentInv => TraversalComplete
  BY DEF ContentInv, ReaderInv, Following, TraversalComplete
<1> QED
  BY <1>1, ContentInvariance, PTL

-----------------------------------------------------------------------------
(* What a transaction may do.                                              *)

(* Whoever passes the workspace lock may edit by the policy in Go.         *)
LEMMA LockedMayEdit ==
  ASSUME NEW u, LockWorkspace(u)
  PROVE  MayEdit(u)
<1> DEFINE w == Workspace
           f == Load(w, "workspace", u)
<1>1. EntitlementEditable(w) /\ CanEditContent(w.role[u])
  BY DEF LockWorkspace, CanWriteWorkspace
<1>2. IsWorkspaceMember(w, u)
  BY <1>1 DEF IsWorkspaceMember, CanEditContent
<1>3. f.live /\ f.mode = "editable" /\ f.role = w.role[u]
  BY <1>1, <1>2 DEF Load, Mode, EntitlementEditable
<1>4. Resolve(f).canEditContent
  BY <1>1, <1>3 DEF Resolve, Readable
<1>5. Allowed(f, "workspace", "edit_content")
  BY <1>4 DEF Allowed
<1> QED
  BY <1>2, <1>5 DEF MayEdit, Require, Found

(* A project whose revision is the one that was read is the row that was   *)
(* read.                                                                   *)
LEMMA ProjectAsSeen ==
  ASSUME RowsInv, NEW r, ContentRequest(r), r.op \in ProjectOps, ProjectAt(r)
  PROVE  project[r.at] = r.seen
<1>1. /\ project[r.at] \in ProjectRow /\ r.seen \in ProjectRow
      /\ project[r.at].state = "live" /\ r.seen.state = "live"
      /\ project[r.at].revision = r.seen.revision
  BY DEF ContentRequest, RowsInv, RowTypes, ProjectAt, LockedProject
<1> QED
  BY <1>1 DEF ProjectRow

(* A board whose revision is the one that was read has the metadata that   *)
(* was read.                                                               *)
LEMMA BoardAsSeen ==
  ASSUME RowsInv, NEW r, ContentRequest(r), r.op \in BoardOps, LockedBoard(r)
  PROVE  Metadata(board[r.at]) = Metadata(r.seen)
<1>1. BoardSeen(r.at, r.seen) /\ Exists(r.at) /\ board[r.at].revision = r.seen.revision
  BY DEF ContentRequest, LockedBoard
<1> QED
  BY <1>1 DEF BoardSeen, Exists

(* A commit of the content is permitted to its actor and finds what its    *)
(* client has read.                                                        *)
LEMMA CommitIsCurrent ==
  ASSUME RowsInv, NEW c \in Requests, ContentRequest(req[c]), Commit(c)
  PROVE  rows' # rows => Permitted(req[c]) /\ AsSeen(req[c])
<1> DEFINE r == req[c]
<1>1. CASE CreateWorkspace(c)
  BY <1>1 DEF CreateWorkspace, Asked, Permitted, AsSeen
<1>2. CASE ReplayWorkspace(c) \/ ReplayProject(c) \/ ReplayBoard(c) \/ DeletedAlready(c)
  BY <1>2 DEF ReplayWorkspace, ReplayProject, ReplayBoard, DeletedAlready, Replay
<1>3. CASE RenameWorkspace(c)
  BY <1>3, LockedMayEdit DEF RenameWorkspace, Asked, Permitted, AsSeen
<1>4. CASE CreateProject(c) \/ CreateBoard(c)
  BY <1>4, LockedMayEdit DEF CreateProject, CreateBoard, Asked, Permitted, AsSeen
<1>5. CASE RenameProject(c) \/ DeleteEmpty(c)
  <2>1. r.op \in ProjectOps /\ ProjectAt(r) /\ LockWorkspace(r.user)
    BY <1>5 DEF RenameProject, DeleteEmpty, Asked, ProjectOps, ProjectAt
  <2>2. project[r.at] = r.seen /\ MayEdit(r.user)
    BY <2>1, ProjectAsSeen, LockedMayEdit
  <2> QED
    BY <2>1, <2>2 DEF Permitted, AsSeen, ProjectOps
<1>6. CASE UpdateBoard(c) \/ DeleteBoard(c)
  <2>1. r.op \in BoardOps /\ LockedBoard(r) /\ LockWorkspace(r.user)
    BY <1>6 DEF UpdateBoard, DeleteBoard, Asked, BoardOps
  <2>2. Metadata(board[r.at]) = Metadata(r.seen) /\ MayEdit(r.user)
    BY <2>1, BoardAsSeen, LockedMayEdit
  <2> QED
    BY <2>1, <2>2 DEF Permitted, AsSeen, BoardOps
<1> QED
  BY <1>1, <1>2, <1>3, <1>4, <1>5, <1>6 DEF Commit

(* No request takes a board's row away, so none takes a thread.            *)
LEMMA CommitLosesNothing ==
  ASSUME RowsInv, NEW c \in Requests, ContentRequest(req[c]), Commit(c) \/ RollBack(c)
  PROVE  \A b \in Boards : Exists(b) => board'[b].status # "gone"
<1>1. CASE board' = board
  BY <1>1 DEF Exists
<1>2. CASE CreateBoard(c)
  <2>1. PICK b \in Boards : board[b].status = "absent" /\ board' = [board EXCEPT ![b] = NewBoard(req[c])]
    BY <1>2 DEF CreateBoard
  <2> QED
    BY <2>1 DEF RowsInv, RowTypes, Exists
<1>3. CASE UpdateBoard(c) \/ DeleteBoard(c)
  <2>1. PICK b \in Boards : b = req[c].at
    BY <1>3 DEF UpdateBoard, DeleteBoard, ContentRequest, BoardOps, Asked
  <2>2. PICK row \in BoardRow : Write(b, row) /\ row.status \in {"active", "deleting"}
    <3>1. board[b] \in BoardRow /\ (board[b].status = "active" \/ DeleteBoard(c))
      BY <1>3, <2>1 DEF RowsInv, RowTypes, UpdateBoard
    <3>2. CASE UpdateBoard(c)
      <4>1. /\ [board[b] EXCEPT !.project = req[c].to] \in BoardRow
            /\ [board[b] EXCEPT !.project = req[c].to].status = "active"
        BY <2>1, <3>1, <3>2 DEF BoardRow, ContentRequest, Asked, UpdateBoard
      <4> QED
        BY <2>1, <3>2, <4>1 DEF UpdateBoard
    <3>3. CASE DeleteBoard(c)
      <4>1. /\ [board[b] EXCEPT !.status = "deleting"] \in BoardRow
            /\ [board[b] EXCEPT !.status = "deleting"].status = "deleting"
        BY <3>1 DEF BoardRow
      <4> QED
        BY <2>1, <3>3, <4>1 DEF DeleteBoard
    <3> QED
      BY <1>3, <3>2, <3>3
  <2>3. board' = [board EXCEPT ![b] = [row EXCEPT !.revision = @ + 1]] /\ row.revision < MaxRevision
    BY <2>2 DEF Write
  <2>4. [row EXCEPT !.revision = @ + 1] \in BoardRow /\ [row EXCEPT !.revision = @ + 1].status = row.status
    BY <2>3, NextRevision
  <2>5. board'[b].status # "gone" /\ \A a \in Boards : a # b => board'[a] = board[a]
    BY <2>2, <2>3, <2>4 DEF RowsInv, RowTypes
  <2> QED
    BY <2>5 DEF Exists
<1>4. CASE RollBack(c) \/ CreateWorkspace(c) \/ ReplayWorkspace(c) \/ RenameWorkspace(c)
           \/ CreateProject(c) \/ ReplayProject(c) \/ RenameProject(c) \/ DeleteEmpty(c)
           \/ ReplayBoard(c) \/ DeletedAlready(c)
  BY <1>1, <1>4 DEF RollBack, CreateWorkspace, ReplayWorkspace, RenameWorkspace, CreateProject,
                    ReplayProject, RenameProject, DeleteEmpty, ReplayBoard, DeletedAlready,
                    Replay, rows
<1> QED
  BY <1>2, <1>3, <1>4 DEF Commit

(* ChangesAreCurrent (app/access, the SQL locks and the revisions of       *)
(* internal/board and app/discussion): a request changes rows only while   *)
(* its actor may and only as its client has read them, and a comment that  *)
(* was removed is never written again.                                     *)
THEOREM ChangesAreAlwaysCurrent == DiscussionSpec => ChangesAreCurrent
<1> DEFINE Current == \A c \in Requests : req[c] # None /\ req'[c] = None =>
                        /\ rows' # rows => Permitted(req[c]) /\ AsSeen(req[c])
                        /\ threadRows' # threadRows => Discussed(req[c])
<1>1. ContentInv /\ [DiscussionNext]_allVars => Current
  <2> SUFFICES ASSUME ContentInv, [DiscussionNext]_allVars,
                      NEW c \in Requests, req[c] # None, req'[c] = None
               PROVE  /\ rows' # rows => Permitted(req[c]) /\ AsSeen(req[c])
                      /\ threadRows' # threadRows => Discussed(req[c])
    OBVIOUS
  <2>1. /\ DOMAIN req = Requests /\ RowsInv /\ TalkInv
        /\ ContentRequest(req[c]) /\ TalkRequest(req[c])
    BY DEF ContentInv, RequestsInv, Idle
  <2>2. CASE UNCHANGED allVars
    BY <2>2 DEF allVars, vars
  <2>3. CASE Next /\ Cascade
    <3>1. Commit(c) \/ RollBack(c)
      <4>1. ASSUME NEW d \in Requests, NEW u \in Users, Idle(d), AskAny(d, u) PROVE FALSE
        BY <2>1, <4>1, AskedContent DEF Idle
      <4>2. ASSUME NEW d \in Requests, ~ Idle(d), Commit(d) \/ RollBack(d),
                   req' = [req EXCEPT ![d] = None]
            PROVE  d = c
        BY <2>1, <4>2
      <4> QED
        BY <2>1, <2>3, <4>1, <4>2, WhoMoves
    <3>2. UNCHANGED threadRows
      BY <2>1, <2>3, <3>1, CommitLosesNothing, CascadeNothing
    <3>3. rows' # rows => Permitted(req[c]) /\ AsSeen(req[c])
      BY <2>1, <3>1, CommitIsCurrent DEF RollBack
    <3> QED
      BY <3>2, <3>3
  <2>4. ASSUME NEW d \in Requests,
               IF Idle(d) THEN \E u \in Users : AskDiscussion(d, u) ELSE DiscussionCommit(d)
        PROVE  /\ rows' # rows => Permitted(req[c]) /\ AsSeen(req[c])
               /\ threadRows' # threadRows => Discussed(req[c])
    <3>1. rows' = rows
      BY <2>4, DiscussionRows
    <3>2. CASE Idle(d)
      <4>1. threadRows' = threadRows
        BY <2>1, <2>4, <3>2, AskedTalk
      <4> QED
        BY <3>1, <4>1
    <3>3. CASE ~ Idle(d)
      <4>1. DiscussionCommit(d)
        BY <2>4, <3>3
      <4>2. req' = [req EXCEPT ![d] = None]
        BY <4>1 DEF DiscussionCommit, CreateThread, Reply, ResolveThread, EditComment, Writing, Answer
      <4>3. d = c
        BY <2>1, <4>2
      <4> QED
        BY <2>1, <3>1, <4>1, <4>3, TalkCommit
    <3> QED
      BY <3>2, <3>3
  <2> QED
    BY <2>2, <2>3, <2>4 DEF DiscussionNext
<1>2. ContentInv /\ [DiscussionNext]_allVars => [Current]_allVars
  BY <1>1
<1>3. DiscussionSpec => [][Current]_allVars
  BY <1>2, ContentInvariance, PTL DEF DiscussionSpec
<1> QED
  BY <1>3 DEF ChangesAreCurrent
=============================================================================
