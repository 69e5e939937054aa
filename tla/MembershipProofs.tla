--------------------------- MODULE MembershipProofs ---------------------------
(***************************************************************************)
(* Proofs about Membership for any users, requests and invitations: the    *)
(* seats, the decisions of owners, the two access policies, and the        *)
(* revision that tells open sessions to look again.                        *)
(***************************************************************************)
EXTENDS Membership, FiniteSetTheorems, TLAPS

-----------------------------------------------------------------------------
(* The access policy, over any rows whatever.                              *)

(* A workspace whose content may be edited is one whose content may be     *)
(* read, and neither is ever true of one that is being purged.             *)
LEMMA EditableIsRetained ==
  ASSUME NEW w PROVE EntitlementEditable(w) => Retained(w) /\ w.lifecycle # "purging"
  BY DEF EntitlementEditable, Retained

(* Go's decision to let a user read, and to let him edit, is that of the   *)
(* SQL guards, for every row, user and target.                             *)
LEMMA PolicyAgreement ==
  ASSUME NEW w, NEW u, NEW target \in {"workspace", "board"}
  PROVE  /\ (Found(w, target, u) /\ Resolve(Load(w, target, u)).canRead) <=>
              IF target = "board" THEN BoardContentReadable(w, u) ELSE CanReadWorkspace(w, u)
         /\ (Found(w, target, u) /\ Resolve(Load(w, target, u)).canEditContent) <=>
              CanWriteWorkspace(w, u) /\ (target = "workspace" \/ w.board = "active")
<1> DEFINE readable == IF target = "board" THEN BoardContentReadable(w, u) ELSE CanReadWorkspace(w, u)
           live == w.lifecycle = "ready" /\ (target = "workspace" \/ w.board = "active")
           mode == Mode(w, readable)
           f == Load(w, target, u)
<1>1. /\ f.mode = mode /\ f.live = live
      /\ f.role = IF IsWorkspaceMember(w, u) THEN w.role[u] ELSE "viewer"
  BY DEF Load
<1>2. /\ Resolve(f).canRead = (live /\ Readable(mode))
      /\ Resolve(f).canEditContent = (live /\ Readable(mode) /\ mode = "editable" /\ CanEditContent(f.role))
  BY <1>1 DEF Resolve
<1>3. mode = "editable" <=> EntitlementEditable(w)
  BY EditableIsRetained DEF Mode
<1>4. Readable(mode) <=> w.lifecycle # "purging" /\ (EntitlementEditable(w) \/ readable)
  BY EditableIsRetained DEF Mode, Readable
<1>5. readable => live /\ Found(w, target, u)
  BY DEF BoardContentReadable, CanReadWorkspace, Retained, Found
<1>6. live /\ Found(w, target, u) /\ EntitlementEditable(w) => readable
  BY EditableIsRetained DEF BoardContentReadable, CanReadWorkspace, Found
<1>7. live => w.lifecycle # "purging"
  OBVIOUS
<1>8. (Found(w, target, u) /\ live /\ Readable(mode)) <=> readable
  BY <1>4, <1>5, <1>6, <1>7
<1>9. CanWriteWorkspace(w, u) =>
        /\ IsWorkspaceMember(w, u) /\ w.lifecycle = "ready" /\ EntitlementEditable(w)
        /\ CanEditContent(f.role)
  BY <1>1 DEF CanWriteWorkspace, IsWorkspaceMember, CanEditContent, EntitlementEditable
<1>10. CanEditContent(f.role) => IsWorkspaceMember(w, u) /\ f.role = w.role[u]
  BY <1>1 DEF CanEditContent
<1>11. (Found(w, target, u) /\ live /\ Readable(mode) /\ mode = "editable" /\ CanEditContent(f.role))
         <=> CanWriteWorkspace(w, u) /\ (target = "workspace" \/ w.board = "active")
  BY <1>3, <1>4, <1>7, <1>9, <1>10 DEF CanWriteWorkspace, Found
<1> QED
  BY <1>2, <1>8, <1>11

(* What a user may do in the workspace does not depend on its boards.      *)
LEMMA WorkspaceRightsIgnoreBoards ==
  ASSUME NEW v, NEW w, NEW u,
         v.lifecycle = w.lifecycle, v.standing = w.standing, v.seats = w.seats, v.role = w.role
  PROVE  Resolve(Load(v, "workspace", u)) = Resolve(Load(w, "workspace", u))
  BY DEF Resolve, Load, Mode, Readable, EntitlementEditable, CanReadWorkspace, Retained,
         IsWorkspaceMember

(* The two policies agree in every state.                                  *)
THEOREM PolicyAgreementAlways == Spec => []PoliciesAgree
<1>1. PoliciesAgree
  <2> SUFFICES ASSUME NEW u \in Users, NEW target \in {"workspace", "board"}
               PROVE  /\ (Found(Rows, target, u) /\ Resolve(Load(Rows, target, u)).canRead) <=>
                           IF target = "board" THEN BoardContentReadable(Rows, u)
                           ELSE CanReadWorkspace(Rows, u)
                      /\ (Found(Rows, target, u) /\ Resolve(Load(Rows, target, u)).canEditContent) <=>
                           CanWriteWorkspace(Rows, u) /\ (target = "workspace" \/ board = "active")
    BY DEF PoliciesAgree
  <2>1. Rows.board = board
    BY DEF Rows
  <2> QED
    BY <2>1, PolicyAgreement
<1> QED
  BY <1>1, PTL

-----------------------------------------------------------------------------
(* Rights change only with access_revision.                                *)

(* Of the steps that leave the revision as it is, only the clock and the   *)
(* board's own life change a row that the policy reads.                    *)
LEMMA UntouchedStep ==
  ASSUME [Next]_vars, ~ touched'
  PROVE  UNCHANGED Rows \/ SubscriptionLapses \/ BoardChanges
<1> USE DEF Rows, environment, Unshared, Touch
<1>1. ASSUME NEW c \in Requests, AskChange(c) \/ AskInvite(c) \/ AskAccept(c) \/ AskRevoke(c)
                                 \/ AskRemoveGuest(c)
      PROVE  UNCHANGED Rows
  BY <1>1 DEF AskChange, AskInvite, AskAccept, AskRevoke, AskRemoveGuest, Ask
<1>2. ASSUME NEW c \in Requests, ChangeMember(c) \/ Invite(c) \/ Accept(c) \/ Revoke(c) \/ RemoveGuest(c)
      PROVE  UNCHANGED Rows
  BY <1>2 DEF ChangeMember, Invite, Accept, Revoke, RemoveGuest
<1>3. ASSUME NEW c \in Requests, Refused(c) PROVE UNCHANGED Rows
  BY <1>3 DEF Refused
<1>4. ~ SubscriptionPaid /\ ~ Purged
  BY DEF SubscriptionPaid, Purged
<1>5. EmailChanges \/ InvitationAges => UNCHANGED Rows
  BY DEF EmailChanges, InvitationAges
<1>6. CASE UNCHANGED vars
  BY <1>6 DEF vars
<1> QED
  BY <1>1, <1>2, <1>3, <1>4, <1>5, <1>6 DEF Next

(* But for the clock and the board's own status, nobody's rights change    *)
(* without raising the revision.                                           *)
THEOREM AccessRevision == Spec => AccessRevisionMoves
<1> DEFINE Silent == ~ touched' /\ Rows' # Rows /\ sub'.standing \in {sub.standing, "current"}
           Kept(u) == /\ WorkspaceRights(u)' = WorkspaceRights(u)
                      /\ board' = board => BoardRights(u)' = BoardRights(u)
<1>1. ASSUME [Next]_vars, Silent, NEW u \in Users PROVE Kept(u)
  <2>1. ~ SubscriptionLapses
    <3>1. CASE sub.standing = "current" /\ sub' = [sub EXCEPT !.standing = "retained"]
      BY <1>1, <3>1
    <3>2. CASE sub.standing = "retained" /\ sub' = [sub EXCEPT !.standing = "lapsed"]
      BY <1>1, <3>2
    <3> QED
      BY <3>1, <3>2 DEF SubscriptionLapses
  <2>2. UNCHANGED Rows \/ BoardChanges
    BY <1>1, <2>1, UntouchedStep
  <2>3. CASE UNCHANGED Rows
    BY <1>1, <2>3
  <2>4. CASE BoardChanges
    <3>1. /\ Rows'.lifecycle = Rows.lifecycle /\ Rows'.standing = Rows.standing
          /\ Rows'.seats = Rows.seats /\ Rows'.role = Rows.role /\ board' # board
      BY <2>4 DEF BoardChanges, Unshared, Rows
    <3>2. Resolve(Load(Rows', "workspace", u)) = Resolve(Load(Rows, "workspace", u))
      BY <3>1, WorkspaceRightsIgnoreBoards
    <3>3. IsWorkspaceMember(Rows', u) = IsWorkspaceMember(Rows, u)
      BY <3>1 DEF IsWorkspaceMember
    <3>4. WorkspaceRights(u)' = <<Resolve(Load(Rows', "workspace", u)), IsWorkspaceMember(Rows', u)>>
      BY DEF WorkspaceRights
    <3> QED
      BY <3>1, <3>2, <3>3, <3>4 DEF WorkspaceRights
  <2> QED
    BY <2>2, <2>3, <2>4
<1>2. [Next]_vars => [Silent => \A u \in Users : Kept(u)]_vars
  BY <1>1
<1> QED
  BY <1>2, PTL DEF Spec, AccessRevisionMoves

-----------------------------------------------------------------------------
(* Types, and what the decisions of owners leave behind.                   *)

(* Every kind of request is told by its operation.                         *)
LEMMA RequestKinds ==
  ASSUME NEW r \in Request
  PROVE  /\ r.op = "change" => r \in ChangeRequest
         /\ r.op = "invite" => r \in InviteRequest
         /\ r.op = "accept" => r \in AcceptRequest
  BY DEF Request, ChangeRequest, InviteRequest, AcceptRequest, RevokeRequest, GuestRequest

(* Rewriting every invitation in its place leaves a sequence.              *)
LEMMA SameLength ==
  ASSUME NEW s \in Seq(Invitation), NEW t \in [DOMAIN s -> Invitation]
  PROVE  t \in Seq(Invitation) /\ DOMAIN t = DOMAIN s /\ Len(t) = Len(s)
<1>1. DOMAIN s = 1..Len(s) /\ Len(s) \in Nat
  OBVIOUS
<1> QED
  BY <1>1

(* An invitation whose status or age changes is an invitation.             *)
LEMMA InvitationEdits ==
  ASSUME NEW v \in Invitation
  PROVE  /\ \A status \in {"accepted", "revoked", "expired"} : [v EXCEPT !.status = status] \in Invitation
         /\ [v EXCEPT !.overdue = TRUE] \in Invitation
  BY DEF Invitation

(* So the list of invitations stays one through every kind of update.      *)
LEMMA StatusUpdates ==
  ASSUME TypeOK, NEW S
  PROVE  /\ Revoked(S) \in Seq(Invitation) /\ DOMAIN Revoked(S) = Ids
         /\ Expired \in Seq(Invitation) /\ DOMAIN Expired = Ids
         /\ \A i \in Ids : /\ [invitations EXCEPT ![i].status = "accepted"] \in Seq(Invitation)
                            /\ [invitations EXCEPT ![i].overdue = TRUE] \in Seq(Invitation)
<1>1. invitations \in Seq(Invitation) /\ invitations \in [Ids -> Invitation]
  BY DEF TypeOK, Ids
<1>2. \A j \in Ids : invitations[j] \in Invitation
  BY <1>1
<1>3. Revoked(S) \in [Ids -> Invitation] /\ Expired \in [Ids -> Invitation]
  BY <1>1, <1>2, InvitationEdits DEF Revoked, Expired, Ids
<1>4. ASSUME NEW i \in Ids
      PROVE  /\ [invitations EXCEPT ![i].status = "accepted"] \in [Ids -> Invitation]
             /\ [invitations EXCEPT ![i].overdue = TRUE] \in [Ids -> Invitation]
  BY <1>1, <1>2, <1>4, InvitationEdits DEF Ids
<1> QED
  BY <1>1, <1>3, <1>4, SameLength DEF Ids

(* A request to accept or revoke names an invitation that exists.          *)
InFlightFits == \A c \in Requests :
  req[c] # None /\ req[c].op \in {"accept", "revoke"} => req[c].invitation \in Ids

(* What an owner overruled was revoked at once, and is never open again.   *)
OverruledAreClosed ==
  \A i \in stale : i \in Ids /\ invitations[i].status \notin {"pending", "accepted"}

MembershipInv == TypeOK /\ InFlightFits /\ OverruledAreClosed

-----------------------------------------------------------------------------
(* Every action keeps every variable within its type.                      *)
LEMMA TypeStep == TypeOK /\ InFlightFits /\ [Next]_vars => TypeOK'
<1> SUFFICES ASSUME TypeOK, InFlightFits, [Next]_vars PROVE TypeOK'
  OBVIOUS
<1>a. /\ role \in [Users -> Roles \cup {"none"}] /\ revision \in [Users -> Nat]
      /\ guests \subseteq Users /\ invitations \in Seq(Invitation)
      /\ sub \in Subscription
      /\ lifecycle \in {"ready", "purging"} /\ board \in {"initializing", "active", "deleting"}
      /\ email \in [Users -> Emails \cup {None}] /\ touched \in BOOLEAN
      /\ req \in [Requests -> Request \cup {None}] /\ stale \subseteq Nat
  BY DEF TypeOK
<1>b. Ids \subseteq Nat
  BY <1>a DEF Ids
<1> USE DEF environment, Unshared, Touch
<1>1. ASSUME NEW c \in Requests, NEW r \in Request, Ask(c, r) PROVE TypeOK'
  BY <1>a, <1>1 DEF Ask, TypeOK
<1>2. ASSUME NEW c \in Requests, \/ AskChange(c) \/ AskInvite(c) \/ AskAccept(c) \/ AskRevoke(c)
                                 \/ AskRemoveGuest(c)
      PROVE  TypeOK'
  <2>1. CASE AskChange(c) \/ AskInvite(c)
    BY <1>1, <2>1 DEF AskChange, AskInvite, Request
  <2>2. CASE AskAccept(c) \/ AskRevoke(c)
    <3>1. \A u \in Users, i \in Ids : [op |-> "accept", user |-> u, invitation |-> i] \in AcceptRequest
      BY <1>b DEF AcceptRequest
    <3>2. \A i \in Ids : [op |-> "revoke", invitation |-> i] \in RevokeRequest
      BY <1>b DEF RevokeRequest
    <3> QED
      BY <1>1, <2>2, <3>1, <3>2 DEF AskAccept, AskRevoke, Request
  <2>3. CASE AskRemoveGuest(c)
    <3>1. \A u \in Users : [op |-> "unguest", user |-> u] \in GuestRequest
      BY DEF GuestRequest
    <3> QED
      BY <1>1, <2>3, <3>1 DEF AskRemoveGuest, Request
  <2> QED
    BY <1>2, <2>1, <2>2, <2>3
<1>3. ASSUME NEW c \in Requests, Answer(c) PROVE req' \in [Requests -> Request \cup {None}]
  BY <1>a, <1>3 DEF Answer
<1>4. ASSUME NEW c \in Requests, ChangeMember(c) PROVE TypeOK'
  <2> DEFINE r == req[c]
  <2>1. r \in ChangeRequest /\ req' \in [Requests -> Request \cup {None}]
    BY <1>a, <1>3, <1>4, RequestKinds DEF ChangeMember
  <2>2. invitations' \in Seq(Invitation)
    BY <1>a, <1>4, StatusUpdates DEF ChangeMember
  <2>3. role' \in [Users -> Roles \cup {"none"}] /\ revision' \in [Users -> Nat]
    <3>1. r.user \in Users /\ r.role \in Roles \cup {"none"}
      BY <2>1 DEF ChangeRequest, Roles
    <3>2. role' = role \/ role' = [role EXCEPT ![r.user] = r.role]
      BY <1>4 DEF ChangeMember
    <3>3. revision' = revision \/ \E n \in Nat : revision' = [revision EXCEPT ![r.user] = n]
      BY <1>a, <1>4, <3>1 DEF ChangeMember
    <3> QED
      BY <1>a, <3>1, <3>2, <3>3
  <2>4. stale' \subseteq Nat
    BY <1>a, <1>b, <1>4 DEF ChangeMember, Overruled
  <2> QED
    BY <1>a, <1>4, <2>1, <2>2, <2>3, <2>4 DEF ChangeMember, TypeOK
<1>5. ASSUME NEW c \in Requests, Invite(c) PROVE TypeOK'
  <2> DEFINE r == req[c]
             new == [scope |-> r.scope, email |-> r.email, role |-> r.role,
                     status |-> "pending", overdue |-> FALSE]
  <2>1. r \in InviteRequest /\ req' \in [Requests -> Request \cup {None}]
    BY <1>a, <1>3, <1>5, RequestKinds DEF Invite
  <2>2. new \in Invitation
    BY <2>1 DEF InviteRequest, Invitation
  <2>3. Expired \in Seq(Invitation)
    BY StatusUpdates
  <2> HIDE DEF new
  <2>4. Append(Expired, new) \in Seq(Invitation)
    BY <2>2, <2>3
  <2>5. invitations' \in Seq(Invitation)
    BY <1>5, <2>3, <2>4 DEF Invite, new
  <2> QED
    BY <1>a, <1>5, <2>1, <2>5 DEF Invite, TypeOK
<1>6. ASSUME NEW c \in Requests, Accept(c) PROVE TypeOK'
  <2> DEFINE i == req[c].invitation
             u == req[c].user
  <2>1. req[c] \in AcceptRequest /\ i \in Ids /\ req' \in [Requests -> Request \cup {None}]
    BY <1>a, <1>3, <1>6, RequestKinds DEF Accept, InFlightFits
  <2>2. u \in Users /\ invitations[i] \in Invitation
    BY <1>a, <2>1 DEF AcceptRequest, Ids
  <2>3. invitations' \in Seq(Invitation)
    BY <1>6, <2>1, StatusUpdates DEF Accept
  <2>4. /\ role' \in [Users -> Roles \cup {"none"}] /\ revision' \in [Users -> Nat]
        /\ guests' \subseteq Users
    <3>1. invitations[i].role \in Roles
      BY <2>2 DEF Invitation, Roles
    <3>2. role' = role \/ role' = [role EXCEPT ![u] = invitations[i].role]
      BY <1>6 DEF Accept
    <3>3. revision' = revision \/ revision' = [revision EXCEPT ![u] = 1]
      BY <1>6 DEF Accept
    <3>4. guests' \subseteq guests \cup {u}
      BY <1>6 DEF Accept
    <3>5. role \in [Users -> Roles \cup {"none"}] /\ revision \in [Users -> Nat] /\ guests \subseteq Users
      BY <1>a
    <3> HIDE DEF i, u
    <3>6. role' \in [Users -> Roles \cup {"none"}]
      BY <2>2, <3>1, <3>2, <3>5
    <3>7. revision' \in [Users -> Nat] /\ guests' \subseteq Users
      BY <2>2, <3>3, <3>4, <3>5
    <3> QED
      BY <3>6, <3>7
  <2> QED
    BY <1>a, <1>6, <2>1, <2>3, <2>4 DEF Accept, TypeOK
<1>7. ASSUME NEW c \in Requests, Revoke(c) PROVE TypeOK'
  <2>1. req[c].invitation \in Nat
    BY <1>a, <1>7 DEF Revoke, Request, ChangeRequest, InviteRequest, AcceptRequest, RevokeRequest,
       GuestRequest
  <2>2. invitations' \in Seq(Invitation) /\ stale' \subseteq Nat
    BY <1>a, <1>7, <2>1, StatusUpdates DEF Revoke
  <2> QED
    BY <1>a, <1>3, <1>7, <2>2 DEF Revoke, TypeOK
<1>8. ASSUME NEW c \in Requests, RemoveGuest(c) PROVE TypeOK'
  <2>1. invitations' \in Seq(Invitation) /\ stale' \subseteq Nat
    BY <1>a, <1>b, <1>8, StatusUpdates DEF RemoveGuest, Overruled
  <2> QED
    BY <1>a, <1>3, <1>8, <2>1 DEF RemoveGuest, TypeOK
<1>9. ASSUME NEW c \in Requests, Refused(c) PROVE TypeOK'
  BY <1>a, <1>3, <1>9 DEF Refused, TypeOK
<1>10. ASSUME SubscriptionPaid \/ SubscriptionLapses \/ Purged PROVE TypeOK'
  <2>1. sub' \in Subscription /\ lifecycle' \in {"ready", "purging"}
    BY <1>a, <1>10, MembershipAssumption
       DEF SubscriptionPaid, SubscriptionLapses, Purged, Subscription
  <2> QED
    BY <1>a, <1>10, <2>1 DEF SubscriptionPaid, SubscriptionLapses, Purged, TypeOK
<1>11. ASSUME BoardChanges \/ EmailChanges PROVE TypeOK'
  BY <1>a, <1>11 DEF BoardChanges, EmailChanges, TypeOK
<1>12. ASSUME InvitationAges PROVE TypeOK'
  <2>1. invitations' \in Seq(Invitation)
    BY <1>12, StatusUpdates DEF InvitationAges
  <2> QED
    BY <1>a, <1>12, <2>1 DEF InvitationAges, TypeOK
<1>13. CASE UNCHANGED vars
  BY <1>a, <1>13 DEF vars, TypeOK
<1> QED
  BY <1>2, <1>4, <1>5, <1>6, <1>7, <1>8, <1>9, <1>10, <1>11, <1>12, <1>13 DEF Next

-----------------------------------------------------------------------------
(* What happens to one invitation.                                         *)

(* Appending one invitation leaves those before it as they are.            *)
LEMMA AppendOne ==
  ASSUME NEW s \in Seq(Invitation), NEW v \in Invitation
  PROVE  /\ DOMAIN Append(s, v) = DOMAIN s \cup {Len(s) + 1} /\ Len(s) + 1 \notin DOMAIN s
         /\ \A i \in DOMAIN s : Append(s, v)[i] = s[i]
         /\ Append(s, v)[Len(s) + 1] = v
  OBVIOUS

(* The same list, some pending ones revoked, the overdue ones expired, and *)
(* maybe a new one, one accepted, or one overdue.                          *)
InvitationsChange ==
  \/ UNCHANGED invitations
  \/ \E S \in SUBSET Nat : invitations' = Revoked(S)
  \/ invitations' = Expired
  \/ \E v \in Invitation : v.status = "pending" /\ ~ v.overdue /\ invitations' = Append(Expired, v)
  \/ \E i \in Ids : Pending(i) /\ invitations' = [invitations EXCEPT ![i].status = "accepted"]
  \/ \E i \in Ids : Open(i) /\ invitations' = [invitations EXCEPT ![i].overdue = TRUE]

(* That is all that a step may do to the invitations.                      *)
LEMMA InvitationsStep ==
  ASSUME TypeOK, InFlightFits, [Next]_vars PROVE InvitationsChange
<1>a. invitations \in Seq(Invitation) /\ Ids \subseteq Nat /\ req \in [Requests -> Request \cup {None}]
  BY DEF TypeOK, Ids
<1> USE DEF environment, Unshared, InvitationsChange
<1>1. ASSUME NEW c \in Requests, \/ AskChange(c) \/ AskInvite(c) \/ AskAccept(c) \/ AskRevoke(c)
                                 \/ AskRemoveGuest(c)
      PROVE  InvitationsChange
  BY <1>1 DEF AskChange, AskInvite, AskAccept, AskRevoke, AskRemoveGuest, Ask
<1>2. ASSUME NEW c \in Requests, ChangeMember(c) \/ RemoveGuest(c) PROVE InvitationsChange
  <2>1. \A u, scope : Overruled(scope, u) \in SUBSET Nat
    BY <1>a DEF Overruled
  <2> QED
    BY <1>2, <2>1 DEF ChangeMember, RemoveGuest
<1>3. ASSUME NEW c \in Requests, Revoke(c) PROVE InvitationsChange
  <2>1. req[c].invitation \in Nat
    BY <1>a, <1>3 DEF Revoke, Request, ChangeRequest, InviteRequest, AcceptRequest, RevokeRequest,
       GuestRequest
  <2> QED
    BY <1>3, <2>1 DEF Revoke
<1>4. ASSUME NEW c \in Requests, Invite(c) PROVE InvitationsChange
  <2> DEFINE new == [scope |-> req[c].scope, email |-> req[c].email, role |-> req[c].role,
                     status |-> "pending", overdue |-> FALSE]
  <2>1. req[c] \in InviteRequest
    BY <1>a, <1>4, RequestKinds DEF Invite
  <2>2. new \in Invitation /\ new.status = "pending" /\ ~ new.overdue
    BY <2>1 DEF InviteRequest, Invitation
  <2>3. invitations' = Expired \/ invitations' = Append(Expired, new)
    BY <1>4 DEF Invite
  <2> QED
    BY <2>2, <2>3
<1>5. ASSUME NEW c \in Requests, Accept(c) PROVE InvitationsChange
  BY <1>5 DEF Accept, MayAccept, Open, InFlightFits
<1>6. ASSUME NEW c \in Requests, Refused(c) PROVE InvitationsChange
  BY <1>6 DEF Refused
<1>7. ASSUME SubscriptionPaid \/ SubscriptionLapses \/ Purged \/ BoardChanges \/ EmailChanges
      PROVE  InvitationsChange
  BY <1>7 DEF SubscriptionPaid, SubscriptionLapses, Purged, BoardChanges, EmailChanges
<1>8. InvitationAges => InvitationsChange
  BY DEF InvitationAges
<1>9. CASE UNCHANGED vars
  BY <1>9 DEF vars
<1> QED
  BY <1>1, <1>2, <1>3, <1>4, <1>5, <1>6, <1>7, <1>8, <1>9 DEF Next

(* Invitations are never deleted, and one that is no longer pending stays  *)
(* as it was decided.                                                      *)
LEMMA DecidedStaysDecided ==
  ASSUME TypeOK, InvitationsChange
  PROVE  /\ Ids \subseteq Ids'
         /\ \A i \in Ids : ~ Pending(i) => invitations'[i].status = invitations[i].status
<1>a. invitations \in Seq(Invitation) /\ invitations \in [Ids -> Invitation] /\ DOMAIN invitations = Ids
  BY DEF TypeOK, Ids
<1> DEFINE Goal == /\ Ids \subseteq DOMAIN invitations'
                   /\ \A i \in Ids : ~ Pending(i) => invitations'[i].status = invitations[i].status
<1>1. \A i \in Ids : ~ Pending(i) => Expired[i] = invitations[i]
  BY DEF Expired
<1>2. ASSUME invitations' = invitations PROVE Goal
  BY <1>a, <1>2
<1>3. ASSUME NEW S \in SUBSET Nat, invitations' = Revoked(S) PROVE Goal
  BY <1>3 DEF Revoked
<1>4. ASSUME invitations' = Expired PROVE Goal
  <2>1. DOMAIN Expired = Ids
    BY StatusUpdates
  <2> QED
    BY <1>1, <1>4, <2>1
<1>5. ASSUME NEW v \in Invitation, invitations' = Append(Expired, v) PROVE Goal
  <2>1. Expired \in Seq(Invitation) /\ DOMAIN Expired = Ids
    BY StatusUpdates
  <2>2. DOMAIN invitations' = Ids \cup {Len(Expired) + 1} /\ \A i \in Ids : invitations'[i] = Expired[i]
    BY <1>5, <2>1, AppendOne
  <2> QED
    BY <1>1, <2>2
<1>6. ASSUME NEW i \in Ids, Pending(i), invitations' = [invitations EXCEPT ![i].status = "accepted"]
      PROVE  Goal
  BY <1>a, <1>6
<1>7. ASSUME NEW i \in Ids, invitations' = [invitations EXCEPT ![i].overdue = TRUE] PROVE Goal
  BY <1>a, <1>7 DEF Invitation
<1>8. Goal
  BY <1>2, <1>3, <1>4, <1>5, <1>6, <1>7 DEF InvitationsChange
<1> QED
  BY <1>8 DEF Ids

(* Requests keep naming invitations that exist.                            *)
LEMMA InFlightStep == TypeOK /\ InFlightFits /\ [Next]_vars => InFlightFits'
<1> SUFFICES ASSUME TypeOK, InFlightFits, [Next]_vars PROVE InFlightFits'
  OBVIOUS
<1>1. Ids \subseteq Ids' /\ req \in [Requests -> Request \cup {None}]
  BY InvitationsStep, DecidedStaysDecided DEF TypeOK
<1>2. ASSUME NEW c \in Requests, NEW r, Ask(c, r),
             r.op \in {"accept", "revoke"} => r.invitation \in Ids
      PROVE  InFlightFits'
  BY <1>1, <1>2 DEF Ask, InFlightFits
<1>3. ASSUME NEW c \in Requests, Answer(c) PROVE InFlightFits'
  BY <1>1, <1>3 DEF Answer, InFlightFits
<1>4. ASSUME NEW c \in Requests, AskChange(c) \/ AskInvite(c) \/ AskRemoveGuest(c)
      PROVE  InFlightFits'
  <2>1. ASSUME NEW r \in ChangeRequest \cup InviteRequest, Ask(c, r) PROVE InFlightFits'
    BY <1>2, <2>1 DEF ChangeRequest, InviteRequest
  <2>2. ASSUME NEW u, Ask(c, [op |-> "unguest", user |-> u]) PROVE InFlightFits'
    BY <1>2, <2>2
  <2> QED
    BY <1>4, <2>1, <2>2 DEF AskChange, AskInvite, AskRemoveGuest
<1>5. ASSUME NEW c \in Requests, AskAccept(c) \/ AskRevoke(c) PROVE InFlightFits'
  <2>1. ASSUME NEW u, NEW i \in Ids, Ask(c, [op |-> "accept", user |-> u, invitation |-> i])
        PROVE  InFlightFits'
    BY <1>2, <2>1
  <2>2. ASSUME NEW i \in Ids, Ask(c, [op |-> "revoke", invitation |-> i]) PROVE InFlightFits'
    BY <1>2, <2>2
  <2> QED
    BY <1>5, <2>1, <2>2 DEF AskAccept, AskRevoke
<1>6. ASSUME NEW c \in Requests, \/ ChangeMember(c) \/ Invite(c) \/ Accept(c) \/ Revoke(c)
                                 \/ RemoveGuest(c) \/ Refused(c)
      PROVE  InFlightFits'
  BY <1>3, <1>6 DEF ChangeMember, Invite, Accept, Revoke, RemoveGuest, Refused
<1>7. CASE UNCHANGED req
  BY <1>1, <1>7 DEF InFlightFits
<1>8. ASSUME \/ SubscriptionPaid \/ SubscriptionLapses \/ Purged \/ BoardChanges \/ EmailChanges
             \/ InvitationAges \/ UNCHANGED vars
      PROVE  UNCHANGED req
  BY <1>8 DEF SubscriptionPaid, SubscriptionLapses, Purged, BoardChanges, EmailChanges,
              InvitationAges, Unshared, vars
<1> QED
  BY <1>4, <1>5, <1>6, <1>7, <1>8 DEF Next

(* What an owner overrules is revoked in the same step.                    *)
LEMMA OverruledStep ==
  TypeOK /\ InFlightFits /\ OverruledAreClosed /\ [Next]_vars => OverruledAreClosed'
<1> SUFFICES ASSUME TypeOK, InFlightFits, OverruledAreClosed, [Next]_vars,
                    NEW i \in stale'
             PROVE  i \in Ids' /\ invitations'[i].status \notin {"pending", "accepted"}
  BY DEF OverruledAreClosed
<1>1. CASE i \in stale
  <2>1. i \in Ids /\ ~ Pending(i)
    BY <1>1 DEF OverruledAreClosed, Pending
  <2> QED
    BY <1>1, <2>1, InvitationsStep, DecidedStaysDecided DEF OverruledAreClosed
<1>2. CASE i \notin stale
  <2>1. PICK c \in Requests : ChangeMember(c) \/ Revoke(c) \/ RemoveGuest(c)
    BY <1>2 DEF Next, AskChange, AskInvite, AskAccept, AskRevoke, AskRemoveGuest, Ask, Invite, Accept,
       Refused, SubscriptionPaid, SubscriptionLapses, Purged, BoardChanges, EmailChanges,
       InvitationAges, Unshared, vars
  <2>2. ASSUME NEW S, invitations' = Revoked(S), i \in S, i \in Ids, Pending(i)
        PROVE  i \in Ids' /\ invitations'[i].status \notin {"pending", "accepted"}
    <3>1. invitations[i] \in Invitation
      BY <2>2 DEF TypeOK, Ids
    <3>2. [invitations[i] EXCEPT !.status = "revoked"].status = "revoked"
      BY <3>1 DEF Invitation
    <3>3. Ids' = Ids /\ invitations'[i] = [invitations[i] EXCEPT !.status = "revoked"]
      BY <2>2 DEF Revoked, Ids
    <3> QED
      BY <2>2, <3>2, <3>3
  <2>3. CASE ChangeMember(c)
    BY <1>2, <2>2, <2>3 DEF ChangeMember, Overruled
  <2>4. CASE RemoveGuest(c)
    BY <1>2, <2>2, <2>4 DEF RemoveGuest, Overruled
  <2>5. CASE Revoke(c)
    BY <1>2, <2>2, <2>5 DEF Revoke, InFlightFits
  <2> QED
    BY <2>1, <2>3, <2>4, <2>5
<1> QED
  BY <1>1, <1>2

-----------------------------------------------------------------------------
(* Seats.                                                                  *)

(* A part of a finite set is no larger than the set.                       *)
LEMMA NoMore ==
  ASSUME NEW E, IsFiniteSet(E), NEW E1, E1 \subseteq E
  PROVE  Cardinality(E1) \in Nat /\ Cardinality(E) \in Nat /\ Cardinality(E1) <= Cardinality(E)
BY FS_Subset, FS_CardinalityType

(* One more element adds at most one.                                      *)
LEMMA OneMore ==
  ASSUME NEW E, IsFiniteSet(E), NEW x, NEW E1, E1 \subseteq E \cup {x}
  PROVE  Cardinality(E1) \in Nat /\ Cardinality(E) \in Nat /\ Cardinality(E1) <= Cardinality(E) + 1
<1>1. Cardinality(E) \in Nat
  BY FS_CardinalityType
<1>2. /\ IsFiniteSet(E \cup {x})
      /\ Cardinality(E \cup {x}) = IF x \in E THEN Cardinality(E) ELSE Cardinality(E) + 1
  BY FS_AddElement
<1>3. Cardinality(E1) \in Nat /\ Cardinality(E1) <= Cardinality(E \cup {x})
  BY <1>2, NoMore
<1> QED
  BY <1>1, <1>2, <1>3

(* Editors and promises are finitely many.                                 *)
LEMMA FinitelyMany ==
  ASSUME TypeOK, NEW S PROVE IsFiniteSet(Editors(role)) /\ IsFiniteSet(Promised(S))
<1>1. Editors(role) \in SUBSET Users
  BY DEF Editors, TypeOK
<1>2. Ids = 1..Len(invitations) /\ Len(invitations) \in Nat
  BY DEF Ids, TypeOK
<1>3. IsFiniteSet(Ids)
  BY <1>2, FS_Interval
<1>4. Promised(S) \in SUBSET Ids
  BY DEF Promised
<1> QED
  BY <1>1, <1>3, <1>4, FS_Subset, MembershipAssumption

(* Only a new invitation is a new promise.                                 *)
LEMMA NoNewPromise ==
  ASSUME TypeOK,
         \/ UNCHANGED invitations
         \/ \E S : invitations' = Revoked(S)
         \/ invitations' = Expired
         \/ \E i \in Ids : invitations' = [invitations EXCEPT ![i].status = "accepted"]
         \/ \E i \in Ids : invitations' = [invitations EXCEPT ![i].overdue = TRUE]
  PROVE  Promised({})' \subseteq Promised({})
<1>1. invitations \in [Ids -> Invitation]
  BY DEF TypeOK, Ids
<1> DEFINE Goal == Promised({})' \subseteq Promised({})
           Kept == DOMAIN invitations' = Ids
           Same == \A i \in Ids : /\ invitations'[i].scope = invitations[i].scope
                                  /\ invitations'[i].role = invitations[i].role
                                  /\ invitations'[i].status = "pending" => invitations[i].status = "pending"
                                  /\ ~ invitations'[i].overdue => ~ invitations[i].overdue
<1>2. Kept /\ Same => Goal
  BY DEF Promised, Open, Pending, Ids
<1> HIDE DEF Goal
<1>3. ASSUME UNCHANGED invitations PROVE Goal
  BY <1>2, <1>3 DEF Ids
<1>4. ASSUME NEW S, invitations' = Revoked(S) PROVE Goal
  BY <1>1, <1>2, <1>4 DEF Revoked, Invitation
<1>5. ASSUME invitations' = Expired PROVE Goal
  BY <1>1, <1>2, <1>5 DEF Expired, Invitation
<1>6. ASSUME NEW i \in Ids, invitations' = [invitations EXCEPT ![i].status = "accepted"] PROVE Goal
  BY <1>1, <1>2, <1>6 DEF Invitation
<1>7. ASSUME NEW i \in Ids, invitations' = [invitations EXCEPT ![i].overdue = TRUE] PROVE Goal
  BY <1>1, <1>2, <1>7 DEF Invitation
<1>8. Goal
  BY <1>3, <1>4, <1>5, <1>6, <1>7
<1> QED
  BY <1>8 DEF Goal

(* Whoever becomes an editor, and whatever is newly promised, fits.        *)
LEMMA SeatsStep ==
  ASSUME TypeOK, InFlightFits, [Next]_vars,
         Editors(role)' \ Editors(role) # {} \/ Promised({})' \ Promised({}) # {}
  PROVE  Allocated({})' <= sub'.seats
<1> DEFINE Goal == Allocated({})' <= sub'.seats
<1>a. /\ role \in [Users -> Roles \cup {"none"}] /\ invitations \in Seq(Invitation)
      /\ req \in [Requests -> Request \cup {None}]
      /\ sub.seats \in Nat
  BY MembershipAssumption DEF TypeOK, Subscription
<1>b. ASSUME NEW x, UNCHANGED sub, Cardinality(Editors(role)) + Cardinality(Promised({})) < sub.seats,
             \/ Editors(role)' \subseteq Editors(role) \cup {x} /\ Promised({})' \subseteq Promised({})
             \/ Editors(role)' \subseteq Editors(role) /\ Promised({})' \subseteq Promised({}) \cup {x}
      PROVE  Goal
  <2> DEFINE E1 == Editors(role)'
             F1 == Promised({})'
  <2>1. /\ IsFiniteSet(Editors(role)) /\ IsFiniteSet(Promised({}))
    BY FinitelyMany
  <2>2. \/ E1 \subseteq Editors(role) \cup {x} /\ F1 \subseteq Promised({})
        \/ E1 \subseteq Editors(role) /\ F1 \subseteq Promised({}) \cup {x}
    BY <1>b
  <2>3. Allocated({})' = Cardinality(E1) + Cardinality(F1)
    BY DEF Allocated
  <2>4. Cardinality(Editors(role)) + Cardinality(Promised({})) < sub.seats
    BY <1>b
  <2> HIDE DEF E1, F1
  <2>5. CASE E1 \subseteq Editors(role) \cup {x} /\ F1 \subseteq Promised({})
    <3>1. /\ Cardinality(E1) \in Nat /\ Cardinality(Editors(role)) \in Nat
          /\ Cardinality(E1) <= Cardinality(Editors(role)) + 1
      BY <2>1, <2>5, OneMore
    <3>2. /\ Cardinality(F1) \in Nat /\ Cardinality(Promised({})) \in Nat
          /\ Cardinality(F1) <= Cardinality(Promised({}))
      BY <2>1, <2>5, NoMore
    <3> QED
      BY <1>a, <1>b, <2>3, <2>4, <3>1, <3>2
  <2>6. CASE E1 \subseteq Editors(role) /\ F1 \subseteq Promised({}) \cup {x}
    <3>1. /\ Cardinality(E1) \in Nat /\ Cardinality(Editors(role)) \in Nat
          /\ Cardinality(E1) <= Cardinality(Editors(role))
      BY <2>1, <2>6, NoMore
    <3>2. /\ Cardinality(F1) \in Nat /\ Cardinality(Promised({})) \in Nat
          /\ Cardinality(F1) <= Cardinality(Promised({})) + 1
      BY <2>1, <2>6, OneMore
    <3> QED
      BY <1>a, <1>b, <2>3, <2>4, <3>1, <3>2
  <2> QED
    BY <2>2, <2>5, <2>6
<1> HIDE DEF Goal
<1> USE DEF environment, Unshared
<1>1. ASSUME UNCHANGED role PROVE Editors(role)' = Editors(role)
  BY <1>1 DEF Editors
<1>2. ASSUME NEW c \in Requests, ChangeMember(c) PROVE Goal
  <2> DEFINE r == req[c]
  <2>1. Promised({})' \subseteq Promised({})
    BY <1>2, NoNewPromise DEF ChangeMember
  <2>2. r \in ChangeRequest /\ MayChange(r) /\ role' = [role EXCEPT ![r.user] = r.role]
    BY <1>1, <1>2, <1>a, <2>1, RequestKinds DEF ChangeMember
  <2>3. r.role = "editor" /\ role[r.user] # "editor" /\ Editors(role)' \subseteq Editors(role) \cup {r.user}
    BY <1>a, <2>1, <2>2 DEF Editors, CanEditContent, ChangeRequest, MayChange
  <2>4. Cardinality(Editors(role)) + Cardinality(Promised({})) < sub.seats
    BY <2>2, <2>3 DEF MayChange, EditorCapacity, Allocated
  <2> QED
    BY <1>2, <1>b, <2>1, <2>3, <2>4 DEF ChangeMember
<1>3. ASSUME NEW c \in Requests, Invite(c) PROVE Goal
  <2> DEFINE r == req[c]
             new == [scope |-> r.scope, email |-> r.email, role |-> r.role,
                     status |-> "pending", overdue |-> FALSE]
  <2>1. Editors(role)' = Editors(role)
    BY <1>1, <1>3 DEF Invite
  <2>2. invitations' # Expired
    BY <2>1, NoNewPromise
  <2>3. Existing(r) = {} /\ MayInvite(r) /\ invitations' = Append(Expired, new)
    BY <1>3, <2>2 DEF Invite
  <2>4. r \in InviteRequest
    BY <1>a, <1>3, RequestKinds DEF Invite
  <2>5. new \in Invitation
    BY <2>4 DEF InviteRequest, Invitation
  <2>6. Expired \in Seq(Invitation) /\ DOMAIN Expired = Ids /\ Expired \in [Ids -> Invitation]
    BY StatusUpdates
  <2> DEFINE k == Len(Expired) + 1
  <2>7. /\ Ids' = Ids \cup {k} /\ invitations'[k] = new
        /\ \A i \in Ids : invitations'[i] = Expired[i]
    <3> HIDE DEF new
    <3> QED
      BY <2>3, <2>5, <2>6, AppendOne DEF Ids
  <2> HIDE DEF k
  <2>8. \A i \in Ids : invitations'[i].status = "pending" => invitations'[i] = invitations[i]
    BY <1>a, <2>6, <2>7 DEF Expired, Invitation, Ids
  <2>9. Promised({})' \subseteq Promised({}) \cup {k}
    BY <2>7, <2>8 DEF Promised, Open, Pending
  <2>10. r.scope = "workspace" /\ r.role = "editor"
    <3>1. k \in Promised({})'
      BY <2>1, <2>9
    <3> QED
      BY <2>7, <3>1 DEF Promised
  <2>11. Cardinality(Editors(role)) + Cardinality(Promised({})) < sub.seats
    BY <2>3, <2>10 DEF MayInvite, EditorCapacity, Allocated
  <2> QED
    BY <1>3, <1>b, <2>1, <2>9, <2>11 DEF Invite
<1>4. ASSUME NEW c \in Requests, Accept(c) PROVE Goal
  <2> DEFINE i == req[c].invitation
             u == req[c].user
  <2>1. i \in Ids /\ MayAccept(u, i) /\ invitations' = [invitations EXCEPT ![i].status = "accepted"]
    BY <1>4 DEF Accept, InFlightFits
  <2>2. Promised({})' \subseteq Promised({}) \ {i}
    <3>1. Promised({})' \subseteq Promised({})
      BY <2>1, NoNewPromise
    <3>2. i \notin Promised({})'
      BY <1>a, <2>1 DEF Promised, Open, Pending, Ids, Invitation
    <3> QED
      BY <3>1, <3>2
  <2>3. /\ invitations[i].scope = "workspace" /\ invitations[i].role = "editor"
        /\ Editors(role)' \subseteq Editors(role) \cup {u}
    <3>1. role' # role
      BY <1>1, <2>2
    <3>2. invitations[i].scope = "workspace" /\ role' = [role EXCEPT ![u] = invitations[i].role]
      BY <1>4, <3>1 DEF Accept
    <3>3. invitations[i] \in Invitation
      BY <1>a, <2>1 DEF Ids
    <3>4. invitations[i].role \in {"editor", "viewer"}
      BY <3>3 DEF Invitation
    <3> HIDE DEF i, u
    <3>5. Editors(role)' \subseteq Editors(role) \cup {u}
      BY <1>a, <3>2 DEF Editors, CanEditContent
    <3>6. invitations[i].role = "viewer" => Editors(role)' \subseteq Editors(role)
      BY <1>a, <3>2 DEF Editors, CanEditContent
    <3>7. Promised({})' \subseteq Promised({})
      BY <2>2
    <3> QED
      BY <3>2, <3>4, <3>5, <3>6, <3>7
  <2>4. Promised({i}) = Promised({}) \ {i}
    BY DEF Promised
  <2>5. Cardinality(Editors(role)) + Cardinality(Promised({i})) < sub.seats
    BY <2>1, <2>3 DEF MayAccept, EditorCapacity, Allocated
  <2>6. /\ Cardinality(Editors(role)') \in Nat /\ Cardinality(Editors(role)) \in Nat
        /\ Cardinality(Editors(role)') <= Cardinality(Editors(role)) + 1
    BY <2>3, OneMore, FinitelyMany
  <2>7. /\ Cardinality(Promised({})') \in Nat /\ Cardinality(Promised({i})) \in Nat
        /\ Cardinality(Promised({})') <= Cardinality(Promised({i}))
    BY <2>2, <2>4, NoMore, FinitelyMany
  <2>8. UNCHANGED sub
    BY <1>4 DEF Accept
  <2> QED
    BY <1>a, <2>5, <2>6, <2>7, <2>8 DEF Allocated, Goal
<1>5. ASSUME NEW c \in Requests, Revoke(c) \/ RemoveGuest(c) PROVE FALSE
  BY <1>1, <1>5, NoNewPromise DEF Revoke, RemoveGuest
<1>6. ASSUME NEW c \in Requests, \/ AskChange(c) \/ AskInvite(c) \/ AskAccept(c) \/ AskRevoke(c)
                                 \/ AskRemoveGuest(c) \/ Refused(c)
      PROVE  FALSE
  BY <1>1, <1>6, NoNewPromise
     DEF AskChange, AskInvite, AskAccept, AskRevoke, AskRemoveGuest, Ask, Refused
<1>7. ASSUME \/ SubscriptionPaid \/ SubscriptionLapses \/ Purged \/ BoardChanges \/ EmailChanges
             \/ UNCHANGED vars
      PROVE  FALSE
  BY <1>1, <1>7, NoNewPromise
     DEF SubscriptionPaid, SubscriptionLapses, Purged, BoardChanges, EmailChanges, vars
<1>8. ~ InvitationAges
  BY <1>1, NoNewPromise DEF InvitationAges
<1>9. Goal
  BY <1>2, <1>3, <1>4, <1>5, <1>6, <1>7, <1>8 DEF Next
<1> QED
  BY <1>9 DEF Goal

-----------------------------------------------------------------------------
(* The theorems.                                                           *)

(* The invariant holds at first, and every step preserves it.              *)
LEMMA MembershipInvariance == Spec => []MembershipInv
<1>1. Init => MembershipInv
  <2> SUFFICES ASSUME Init PROVE MembershipInv
    OBVIOUS
  <2>1. TypeOK
    <3>1. invitations \in Seq(Invitation)
      BY DEF Init
    <3>2. sub \in Subscription
      BY MembershipAssumption DEF Init, Subscription
    <3> QED
      BY <3>1, <3>2 DEF Init, TypeOK, Roles
  <2> QED
    BY <2>1 DEF Init, MembershipInv, InFlightFits, OverruledAreClosed
<1>2. MembershipInv /\ [Next]_vars => MembershipInv'
  BY TypeStep, InFlightStep, OverruledStep DEF MembershipInv
<1> QED
  BY <1>1, <1>2, PTL DEF Spec

(* Every variable keeps its type.                                          *)
THEOREM MembershipTypes == Spec => []TypeOK
<1>1. MembershipInv => TypeOK
  BY DEF MembershipInv
<1> QED
  BY <1>1, MembershipInvariance, PTL

(* An invitation that an owner overruled is never accepted afterwards.     *)
THEOREM OwnersDecide == Spec => []DecisionsStand
<1>1. MembershipInv => DecisionsStand
  BY DEF MembershipInv, OverruledAreClosed, DecisionsStand
<1> QED
  BY <1>1, MembershipInvariance, PTL

(* No step gives out a seat that is not paid for.                          *)
THEOREM SeatsAreThere == Spec => SeatsFit
<1> DEFINE Fits == /\ role' # role \/ invitations' # invitations
                   /\ \/ Editors(role)' \ Editors(role) # {}
                      \/ Promised({})' \ Promised({}) # {}
                   => Allocated({})' <= sub'.seats
<1>1. MembershipInv /\ [Next]_vars => [Fits]_vars
  BY SeatsStep DEF MembershipInv
<1> QED
  BY <1>1, MembershipInvariance, PTL DEF Spec, SeatsFit
=============================================================================
