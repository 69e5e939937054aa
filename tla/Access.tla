------------------------------- MODULE Access -------------------------------
(***************************************************************************)
(* Who may do what in a workspace and on one of its boards.  The policy is *)
(* written twice in the program: once in Go (app/access), from the facts   *)
(* one statement loads, and once in the SQL guards every transaction runs  *)
(* under.  Both are here, over the same rows:                              *)
(*                                                                         *)
(*   w.lifecycle  "ready" or "purging"                                     *)
(*   w.standing   what the subscription row is worth now: "none" (there is *)
(*                no row), "current" (trialing, paid or in grace),         *)
(*                "retained" (access ended less than 90 days ago, or a     *)
(*                paid or trial period that still runs) or "lapsed"        *)
(*   w.seats      paid_seats                                               *)
(*   w.role       workspace_members: the role of each user, or "none"      *)
(*   w.board      the status of the board                                  *)
(*   w.guests     the users with a grant on the board                      *)
(*                                                                         *)
(* A subscription's plan matches the workspace's kind (a deferred          *)
(* constraint), so the plan is left out.                                   *)
(***************************************************************************)
EXTENDS Naturals, FiniteSets

Roles == {"owner", "editor", "viewer"}
CanEditContent(role) == role \in {"owner", "editor"}
Editors(role) == {u \in DOMAIN role : CanEditContent(role[u])}

-----------------------------------------------------------------------------
(* The SQL guards.                                                         *)

IsWorkspaceMember(w, u) == w.role[u] # "none"

(* A workspace with more editors than seats is not editable.               *)
EntitlementEditable(w) ==
  /\ w.lifecycle = "ready"
  /\ w.standing = "current"
  /\ Cardinality(Editors(w.role)) <= w.seats

(* A subscription that is current is also readable when its seats are      *)
(* exceeded.                                                               *)
Retained(w) == w.lifecycle = "ready" /\ w.standing \in {"current", "retained"}

CanReadWorkspace(w, u) == IsWorkspaceMember(w, u) /\ Retained(w)
CanWriteWorkspace(w, u) == EntitlementEditable(w) /\ CanEditContent(w.role[u])
HasBoardGrant(w, u) == u \in w.guests
BoardContentReadable(w, u) ==
  /\ w.board = "active"
  /\ IsWorkspaceMember(w, u) \/ HasBoardGrant(w, u)
  /\ Retained(w)

-----------------------------------------------------------------------------
(* The facts Go loads.  target is "workspace" or "board".                  *)

Mode(w, readable) ==
  IF w.lifecycle = "purging" THEN "purging"
  ELSE IF EntitlementEditable(w) THEN "editable"
  ELSE IF readable THEN "read_only" ELSE "unavailable"

(* A row comes back for a member, and for a guest who can read the board.  *)
Found(w, target, u) ==
  \/ IsWorkspaceMember(w, u)
  \/ target = "board" /\ BoardContentReadable(w, u)

(* Mutant: boards that are being created or deleted count as live.         *)
LoadDead(w, target, u) ==
  [role   |-> IF IsWorkspaceMember(w, u) THEN w.role[u] ELSE "viewer",
   source |-> IF IsWorkspaceMember(w, u) THEN "workspace" ELSE "board_grant",
   mode   |-> Mode(w, CanReadWorkspace(w, u)),
   live   |-> w.lifecycle = "ready", status |-> w.board]
Load(w, target, u) ==
  [role   |-> IF IsWorkspaceMember(w, u) THEN w.role[u] ELSE "viewer",
   source |-> IF IsWorkspaceMember(w, u) THEN "workspace" ELSE "board_grant",
   mode   |-> Mode(w, IF target = "board" THEN BoardContentReadable(w, u)
                                          ELSE CanReadWorkspace(w, u)),
   live   |-> w.lifecycle = "ready" /\ (target = "workspace" \/ w.board = "active"),
   status |-> w.board]

Readable(mode) == mode \in {"editable", "read_only"}

(* The capabilities that follow from the facts.                            *)
Resolve(f) ==
  LET read     == f.live /\ Readable(f.mode)
      editable == read /\ f.mode = "editable"
  IN  [canRead         |-> read,
       canEditContent  |-> editable /\ CanEditContent(f.role),
       canComment      |-> editable,
       canExport       |-> read,
       canManageGuests |-> editable /\ f.role = "owner"]

(* What an action needs.  Members may always read a workspace's metadata,  *)
(* and editors that of a board that is still being created.                *)
Allowed(f, target, action) ==
  LET caps == Resolve(f) IN
  CASE action = "read_metadata" ->
         \/ target = "workspace" \/ caps.canRead
         \/ /\ f.status = "initializing" /\ f.source # "board_grant"
            /\ f.mode = "editable" /\ CanEditContent(f.role)
    [] action = "read_content" -> caps.canRead
    [] action = "edit_content" -> caps.canEditContent
    [] action = "rename_workspace" ->
         target = "workspace" /\ f.role = "owner" /\ caps.canEditContent

Require(w, target, u, action) ==
  Found(w, target, u) /\ LET f == Load(w, target, u) IN Allowed(f, target, action)
=============================================================================
