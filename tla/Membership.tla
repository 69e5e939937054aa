----------------------------- MODULE Membership -----------------------------
(***************************************************************************)
(* The members, invitations and board guests of one workspace, and the     *)
(* requests that change them.                                              *)
(*                                                                         *)
(* A request runs in one transaction at READ COMMITTED.  It first checks   *)
(* access with unlocked reads (app/membership/service), and then calls an  *)
(* SQL function that locks the workspace row, repeats the checks on what   *)
(* it finds now, and changes rows.  The check is one step, everything      *)
(* under the lock is another: whatever others commit in between, the lock  *)
(* sees.  A request that is refused rolls back and changes nothing.        *)
(*                                                                         *)
(* The subscription, the board's status, the purge of the workspace, the   *)
(* confirmed addresses of users and the clock belong to others and change  *)
(* at any time.                                                            *)
(***************************************************************************)
EXTENDS Access, Sequences

CONSTANTS Users,          \* profiles
          Owner,          \* the workspace's owner
          Emails,         \* normalised addresses
          Requests,       \* requests in flight
          None,
          Kind,           \* "team" or "personal"
          MaxInvitations, \* invitations ever created
          MaxSeats,       \* paid seats
          MaxRevision     \* role changes of one membership, plus one

ASSUME MembershipAssumption ==
  /\ Owner \in Users /\ IsFiniteSet(Users)
  /\ None \notin Users \cup Emails
  /\ Kind \in {"team", "personal"}
  /\ MaxInvitations \in Nat /\ MaxSeats \in Nat \ {0} /\ MaxRevision \in Nat

VARIABLES
  role,         \* workspace_members.role, "none" when there is no row
  revision,     \* workspace_members.revision
  guests,       \* board_grants of the board
  invitations,  \* the invitations in the order they were created
  sub,          \* the subscription: [standing, seats]
  lifecycle,    \* workspaces.lifecycle
  board,        \* the status of the board
  email,        \* auth.users: the confirmed address of each user, or None
  touched,      \* the last step raised workspaces.access_revision
  req,          \* what each request is about to do under the lock
  stale         \* history: the invitations an explicit decision overruled

vars == <<role, revision, guests, invitations, sub, lifecycle, board, email,
          touched, req, stale>>
environment == <<sub, lifecycle, board, email>>

Rows == [lifecycle |-> lifecycle, standing |-> sub.standing, seats |-> sub.seats,
         role |-> role, board |-> board, guests |-> guests]

Invitation == [scope: {"workspace", "board"}, email: Emails, role: {"editor", "viewer"},
               status: {"pending", "accepted", "revoked", "expired"}, overdue: BOOLEAN]
Subscription == [standing: {"none", "current", "retained", "lapsed"}, seats: 1..MaxSeats]

ChangeRequest == [op: {"change"}, user: Users, role: {"editor", "viewer", "none"},
                  revision: 1..(MaxRevision + 1)]
InviteRequest == [op: {"invite"}, scope: {"workspace", "board"}, email: Emails,
                  role: {"editor", "viewer"}]
AcceptRequest == [op: {"accept"}, user: Users, invitation: Nat]
RevokeRequest == [op: {"revoke"}, invitation: Nat]
GuestRequest  == [op: {"unguest"}, user: Users]
Request == ChangeRequest \cup InviteRequest \cup AcceptRequest \cup RevokeRequest
             \cup GuestRequest

Ids == DOMAIN invitations
Pending(i) == invitations[i].status = "pending"
Open(i) == Pending(i) /\ ~invitations[i].overdue

(* Both an invitation's recipient and a member are compared with the       *)
(* confirmed address a user has now.                                       *)
EmailMatches(u, e) == email[u] = e

-----------------------------------------------------------------------------
(* Checks under the lock of the workspace row.                             *)

Locked == lifecycle = "ready"
LockedEditable == Locked /\ EntitlementEditable(Rows)

(* Seats are taken by editors and promised by open invitations.            *)
Promised(excluded) == {i \in Ids \ excluded : /\ Open(i)
                                              /\ invitations[i].scope = "workspace"
                                              /\ invitations[i].role = "editor"}
Allocated(excluded) == Cardinality(Editors(role)) + Cardinality(Promised(excluded))
(* Mutant: the open invitations are not counted.                           *)
EditorCapacityOfMembers(excluded) ==
  Kind = "team" /\ sub.standing # "none" /\ Cardinality(Editors(role)) < sub.seats
EditorCapacity(excluded) ==
  Kind = "team" /\ sub.standing # "none" /\ Allocated(excluded) < sub.seats

(* Mutant: only what is overdue.                                           *)
RevokedOverdue(S) == [i \in Ids |-> IF i \in S /\ Pending(i) /\ invitations[i].overdue
                                     THEN [invitations[i] EXCEPT !.status = "revoked"]
                                     ELSE invitations[i]]
(* Revoking leaves every invitation that is not pending as it is.          *)
Revoked(S) == [i \in Ids |-> IF i \in S /\ Pending(i)
                              THEN [invitations[i] EXCEPT !.status = "revoked"]
                              ELSE invitations[i]]
Expired == [i \in Ids |-> IF Pending(i) /\ invitations[i].overdue
                           THEN [invitations[i] EXCEPT !.status = "expired"]
                           ELSE invitations[i]]
Overruled(scope, u) == {i \in Ids : /\ Pending(i) /\ invitations[i].scope = scope
                                    /\ EmailMatches(u, invitations[i].email)}

-----------------------------------------------------------------------------
(* Checks before the lock: the handler's input, the service's decision.    *)

Idle(c) == req[c] = None
Ask(c, r) == /\ req' = [req EXCEPT ![c] = r]
             /\ touched' = FALSE
             /\ UNCHANGED <<role, revision, guests, invitations, stale, environment>>
Answer(c) == req' = [req EXCEPT ![c] = None]

(* The owner of the target, for what needs an editable workspace the owner *)
(* who may manage guests.                                                  *)
OwnerMay(target, editable) ==
  /\ Require(Rows, target, Owner, "read_metadata")
  /\ editable => Resolve(Load(Rows, target, Owner)).canManageGuests

AskChange(c) ==
  /\ Idle(c) /\ OwnerMay("workspace", FALSE)
  /\ \E r \in ChangeRequest : r.revision <= MaxRevision /\ Ask(c, r)

(* A workspace-wide invitation needs a team, one to a board is a viewer's. *)
AskInvite(c) ==
  /\ Idle(c) /\ Len(invitations) < MaxInvitations
  /\ \E r \in InviteRequest :
       /\ r.scope = "board" => r.role = "viewer"
       /\ OwnerMay(r.scope, TRUE)
       /\ r.scope = "workspace" => Kind = "team"
       /\ Ask(c, r)

(* Any authenticated user may present a token.                             *)
AskAccept(c) ==
  /\ Idle(c)
  /\ \E u \in Users, i \in Ids : Ask(c, [op |-> "accept", user |-> u, invitation |-> i])

AskRevoke(c) ==
  /\ Idle(c) /\ OwnerMay("workspace", FALSE)
  /\ \E i \in Ids : Ask(c, [op |-> "revoke", invitation |-> i])

AskRemoveGuest(c) ==
  /\ Idle(c) /\ OwnerMay("board", FALSE)
  /\ \E u \in Users : Ask(c, [op |-> "unguest", user |-> u])

-----------------------------------------------------------------------------
(* Under the lock.  Every row of members, grants and invitations that      *)
(* changes raises access_revision.                                         *)

(* Mutant: no trigger on the grants.                                       *)
TouchRows == touched' = (<<role, revision, invitations>>' # <<role, revision, invitations>>)
Touch == touched' = (<<role, revision, guests, invitations>>'
                       # <<role, revision, guests, invitations>>)

(* A member who is not there is only an error when a role is to be set;    *)
(* removing one is then done already, and nothing else happens.            *)
AlreadyGone(r) == Locked /\ role[r.user] = "none" /\ r.role = "none"
MayChange(r) ==
  /\ Locked
  /\ role[r.user] \in {"editor", "viewer"}
  /\ revision[r.user] = r.revision
  /\ r.role = "editor" /\ role[r.user] # "editor" =>
       EntitlementEditable(Rows) /\ EditorCapacity({})

(* Setting a role, or removing the member, also revokes the invitations    *)
(* that could undo it.  A membership that is created again starts again at *)
(* revision one.                                                           *)
ChangeMember(c) ==
  LET r == req[c] IN
  /\ r # None /\ r.op = "change" /\ Answer(c)
  /\ \/ AlreadyGone(r) /\ UNCHANGED <<role, revision, invitations, stale>>
     \/ /\ MayChange(r)
        /\ role' = [role EXCEPT ![r.user] = r.role]
        /\ revision' = [revision EXCEPT ![r.user] =
                          IF r.role = "none" THEN 1
                          ELSE IF r.role = role[r.user] THEN @ ELSE @ + 1]
        /\ invitations' = Revoked(Overruled("workspace", r.user))
        /\ stale' = stale \cup Overruled("workspace", r.user)
  /\ UNCHANGED <<guests, environment>>
  /\ Touch

(* What the invitation finds once the overdue ones have expired.           *)
Existing(r) == {i \in Ids : /\ Open(i) /\ invitations[i].scope = r.scope
                             /\ invitations[i].email = r.email}
MayInvite(r) ==
  /\ LockedEditable
  /\ IF r.scope = "workspace" THEN Kind = "team" ELSE board = "active"
  /\ IF Existing(r) # {}
     THEN \A i \in Existing(r) : invitations[i].role = r.role
     ELSE /\ \A u \in Users : role[u] # "none" => ~EmailMatches(u, r.email)
          /\ r.scope = "workspace" /\ r.role = "editor" => EditorCapacity({})

(* An open invitation for the same recipient and role is returned again.   *)
Invite(c) ==
  LET r == req[c] IN
  /\ r # None /\ r.op = "invite" /\ Answer(c) /\ MayInvite(r)
  /\ Len(invitations) < MaxInvitations
  /\ invitations' =
       IF Existing(r) # {} THEN Expired
       ELSE Append(Expired, [scope |-> r.scope, email |-> r.email, role |-> r.role,
                             status |-> "pending", overdue |-> FALSE])
  /\ UNCHANGED <<role, revision, guests, stale, environment>>
  /\ Touch

MayAccept(u, i) ==
  /\ Locked
  /\ EmailMatches(u, invitations[i].email)
  /\ Open(i)
  /\ EntitlementEditable(Rows)
  /\ IF invitations[i].scope = "workspace"
     THEN /\ Kind = "team" /\ role[u] = "none"
          /\ invitations[i].role = "editor" => EditorCapacity({i})
     ELSE board = "active"

(* A member who accepts an invitation to a board stays a member and gets   *)
(* no grant.                                                               *)
Accept(c) ==
  LET r == req[c]  i == r.invitation  u == r.user IN
  /\ r # None /\ r.op = "accept" /\ Answer(c) /\ MayAccept(u, i)
  /\ IF invitations[i].scope = "workspace"
     THEN /\ role' = [role EXCEPT ![u] = invitations[i].role]
          /\ revision' = [revision EXCEPT ![u] = 1]
          /\ UNCHANGED guests
     ELSE /\ guests' = IF role[u] = "none" THEN guests \cup {u} ELSE guests
          /\ UNCHANGED <<role, revision>>
  /\ invitations' = [invitations EXCEPT ![i].status = "accepted"]
  /\ UNCHANGED <<stale, environment>>
  /\ Touch

(* Only a pending invitation is revoked; an accepted one stays accepted.   *)
Revoke(c) ==
  LET r == req[c] IN
  /\ r # None /\ r.op = "revoke" /\ Answer(c) /\ Locked
  /\ invitations' = Revoked({r.invitation})
  /\ stale' = stale \cup {i \in {r.invitation} : Pending(i)}
  /\ UNCHANGED <<role, revision, guests, environment>>
  /\ Touch

(* Removing a guest also revokes the invitations to the board that he      *)
(* could still accept.                                                     *)
RemoveGuest(c) ==
  LET r == req[c] IN
  /\ r # None /\ r.op = "unguest" /\ Answer(c) /\ board = "active" /\ Locked
  /\ guests' = guests \ {r.user}
  /\ invitations' = Revoked(Overruled("board", r.user))
  /\ stale' = stale \cup Overruled("board", r.user)
  /\ UNCHANGED <<role, revision, environment>>
  /\ Touch

(* The lock finds that a request may not go on: the transaction rolls      *)
(* back, also what had expired before the refusal.                         *)
Refused(c) ==
  LET r == req[c] IN
  /\ r # None
  /\ CASE r.op = "change"  -> ~AlreadyGone(r) /\ ~MayChange(r)
       [] r.op = "invite"  -> ~MayInvite(r) \/ Len(invitations) = MaxInvitations
       [] r.op = "accept"  -> ~MayAccept(r.user, r.invitation)
       [] r.op = "revoke"  -> ~Locked
       [] r.op = "unguest" -> ~(Locked /\ board = "active")
  /\ Answer(c)
  /\ touched' = FALSE
  /\ UNCHANGED <<role, revision, guests, invitations, stale, environment>>

-----------------------------------------------------------------------------
(* What others change.                                                     *)

Unshared == UNCHANGED <<role, revision, guests, req, stale>>

(* A payment, a renewal or a change of seats rewrites the row, and that    *)
(* raises access_revision ...                                              *)
SubscriptionPaid ==
  /\ lifecycle = "ready"
  /\ \E n \in 1..MaxSeats : sub' = [standing |-> "current", seats |-> n] /\ sub' # sub
  /\ touched' = TRUE
  /\ UNCHANGED <<invitations, lifecycle, board, email>> /\ Unshared

(* ... but a paid period and its retention run out by the clock alone.     *)
SubscriptionLapses ==
  /\ lifecycle = "ready"
  /\ \/ sub.standing = "current" /\ sub' = [sub EXCEPT !.standing = "retained"]
     \/ sub.standing = "retained" /\ sub' = [sub EXCEPT !.standing = "lapsed"]
  /\ touched' = FALSE
  /\ UNCHANGED <<invitations, lifecycle, board, email>> /\ Unshared

(* Retention ends: the purge job takes the workspace.                      *)
Purged == /\ lifecycle = "ready" /\ sub.standing = "lapsed"
          /\ lifecycle' = "purging" /\ touched' = TRUE
          /\ UNCHANGED <<invitations, sub, board, email>> /\ Unshared

(* A board becomes active when its document is stored, and is deleted.     *)
BoardChanges ==
  /\ \/ board = "initializing" /\ board' = "active"
     \/ board = "active" /\ board' = "deleting"
  /\ touched' = FALSE
  /\ UNCHANGED <<invitations, sub, lifecycle, email>> /\ Unshared

(* Addresses are unique among users.                                       *)
EmailChanges ==
  /\ \E u \in Users, e \in Emails \cup {None} :
       /\ e = None \/ \A v \in Users : email[v] # e
       /\ email' = [email EXCEPT ![u] = e]
  /\ touched' = FALSE
  /\ UNCHANGED <<invitations, sub, lifecycle, board>> /\ Unshared

(* Seven days pass.                                                        *)
InvitationAges ==
  /\ \E i \in Ids : Open(i) /\ invitations' = [invitations EXCEPT ![i].overdue = TRUE]
  /\ touched' = FALSE
  /\ UNCHANGED environment /\ Unshared

-----------------------------------------------------------------------------
(* bootstrap_workspace: the owner is the only member, nothing is paid for. *)
Init ==
  /\ role = [u \in Users |-> IF u = Owner THEN "owner" ELSE "none"]
  /\ revision = [u \in Users |-> 1]
  /\ guests = {} /\ invitations = <<>>
  /\ sub = [standing |-> "none", seats |-> 1]
  /\ lifecycle = "ready" /\ board = "initializing"
  /\ email \in {f \in [Users -> Emails \cup {None}] :
                \A u, v \in Users : u # v => f[u] = None \/ f[u] # f[v]}
  /\ touched = FALSE
  /\ req = [c \in Requests |-> None]
  /\ stale = {}

Next ==
  \/ \E c \in Requests : \/ AskChange(c) \/ AskInvite(c) \/ AskAccept(c)
                          \/ AskRevoke(c) \/ AskRemoveGuest(c)
                          \/ ChangeMember(c) \/ Invite(c) \/ Accept(c)
                          \/ Revoke(c) \/ RemoveGuest(c) \/ Refused(c)
  \/ SubscriptionPaid \/ SubscriptionLapses \/ Purged
  \/ BoardChanges \/ EmailChanges \/ InvitationAges

Spec == Init /\ [][Next]_vars
-----------------------------------------------------------------------------
(* Properties.                                                             *)

TypeOK ==
  /\ role \in [Users -> Roles \cup {"none"}] /\ revision \in [Users -> Nat]
  /\ guests \subseteq Users /\ invitations \in Seq(Invitation)
  /\ sub \in Subscription
  /\ lifecycle \in {"ready", "purging"} /\ board \in {"initializing", "active", "deleting"}
  /\ email \in [Users -> Emails \cup {None}] /\ touched \in BOOLEAN
  /\ req \in [Requests -> Request \cup {None}] /\ stale \subseteq Nat

(* No step gives out a seat that is not there: whenever someone becomes an *)
(* editor, or a new editor's invitation is open, the editors and all open  *)
(* promises fit the seats paid for at that moment.  Two requests for the   *)
(* last seat, an invitation that expires before it is accepted and seats   *)
(* that are cancelled in between meet in require_editor_capacity.          *)
SeatsFit ==
  [][/\ role' # role \/ invitations' # invitations
     /\ \/ Editors(role)' \ Editors(role) # {}
        \/ Promised({})' \ Promised({}) # {}
     => Allocated({})' <= sub'.seats]_vars

(* An invitation that was open when the owner decided about its recipient, *)
(* by changing the role, removing the member or the guest, or revoking it, *)
(* is never accepted afterwards, in whichever order the requests arrive:   *)
(* "never allow an older pending workspace invite to undo an explicit role *)
(* change or removal" (change_member).                                     *)
DecisionsStand == \A i \in stale : invitations[i].status # "accepted"

(* Whatever changes what somebody may do in the workspace or on its board  *)
(* raises access_revision, by which clients and reviewed billing changes   *)
(* (000013:278) tell that what they know of the access is out of date.     *)
(* Two things change rights silently: the clock, which lowers the standing *)
(* of the subscription, and the board's own status.                        *)
WorkspaceRights(u) == <<Resolve(Load(Rows, "workspace", u)), IsWorkspaceMember(Rows, u)>>
BoardRights(u) ==
  <<Found(Rows, "board", u), Resolve(Load(Rows, "board", u)), HasBoardGrant(Rows, u)>>
AccessRevisionMoves ==
  [][~ touched' /\ Rows' # Rows /\ sub'.standing \in {sub.standing, "current"}
     => \A u \in Users : /\ WorkspaceRights(u)' = WorkspaceRights(u)
                         /\ board' = board => BoardRights(u)' = BoardRights(u)]_vars

(* The two policies agree for every user at every moment: the Go decision  *)
(* offers exactly what the SQL guards would let through, for members and   *)
(* for guests.                                                             *)
PoliciesAgree ==
  \A u \in Users, target \in {"workspace", "board"} :
    LET w == Rows
        found == Found(w, target, u)
        f == Load(w, target, u)
        caps == Resolve(f)
        inside == target = "workspace" \/ board = "active"
    IN  /\ found /\ caps.canRead <=>
             IF target = "board" THEN BoardContentReadable(w, u) ELSE CanReadWorkspace(w, u)
        /\ found /\ caps.canEditContent <=> CanWriteWorkspace(w, u) /\ inside
=============================================================================
