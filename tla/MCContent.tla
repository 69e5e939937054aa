----------------------------- MODULE MCContent -----------------------------
(* Instances of Content and Discussion for TLC.  The constraint is a       *)
(* bound: it keeps apart what does not touch the same rows, so that TLC    *)
(* follows one story at a time, each with all its interleavings.           *)
EXTENDS Discussion

Symmetry == Permutations(Requests)

(* Boards and comments are numbers here, generated in order.               *)
InOrder == /\ \A b \in Boards : board[b].status # "absent" =>
                \A a \in Boards : a < b => board[a].status # "absent"
           /\ \A m \in Comments : comment[m] # None => \A l \in Comments : l < m => comment[l] # None

Busy == {c \in Requests : ~ Idle(c)}
On(ops) == \E c \in Busy : req[c].op \in ops
Only(ops) == \A c \in Busy : req[c].op \in ops
Used == {b \in Boards : board[b].status # "absent"}
NoProject == \A p \in Projects : project[p].state = "absent"
NoKeys == keys = {} /\ ~ On({"workspace.create", "project.create", "board.create"})
Talks == {"thread.create", "thread.resolve", "comment.reply", "comment.edit"}
Talking == On(Talks) \/ \E t \in Threads : Open(t)
NoEvents == /\ env.standing = "current" /\ env.lifecycle = "ready"
            /\ env.grants = [b \in Boards |-> {}]

(* The owner alone can never lose what a member can: two requests are a    *)
(* member's, or one of each.                                               *)
Actors == Cardinality({c \in Busy : req[c].user = Owner}) <= 1
(* Onboarding and renames happen to a workspace that holds nothing.        *)
Onboarding == (created # {} \/ renamed > 1 \/ On({"workspace.create", "workspace.rename"})) =>
  /\ Used = {} /\ NoProject
  /\ created # {} \/ On({"workspace.create"}) => renamed = 1
(* While a key is known, it is asked for again.                            *)
Retrying == keys # {} =>
  /\ Cardinality(keys) = 1 /\ Only({k.op : k \in keys})
  /\ NoEvents /\ \A b \in Boards : job[b].status = "none" /\ board[b].revision = 1
(* Two boards are created to be listed, by a member, while one request     *)
(* and roles change them.                                                  *)
Listing ==
  /\ Cardinality(Used) = 2 => /\ NoEvents
                              /\ reader # None \/ \A b \in Boards :
                                   board[b].revision = 1 /\ (keys = {} => board[b].project = None)
                              /\ reader = None => keys # {} \/ Busy = {}
  /\ reader # None => /\ Cardinality(Used) = 2 /\ NoKeys /\ Cardinality(Busy) <= 1
                      /\ \A b \in Boards : board[b].revision <= 2
                      /\ ~ On({"project.rename", "project.delete"})
                      /\ \A p \in Projects : project[p].revision = 1
                      /\ reader.user # Owner /\ reader.filter = (IF NoProject THEN "all" ELSE None)
(* Discussions, drawings, viewers and guests, on the only board: threads   *)
(* change, or a comment, or a second one answers it; two requests overlap  *)
(* while nothing but roles and grants changes around them.                 *)
Said == {m \in Comments : Posted(m)}
Discussing ==
  /\ \A b \in Used : Talking \/ board[b].document = "drawn" \/ env.grants[b] # {} =>
       reader = None /\ NoKeys /\ NoProject /\ Cardinality(Used) = 1
  /\ Talking => /\ Only(Talks \cup {"board.delete"}) \/ Cardinality(Busy) <= 1
                /\ \A b \in Used : /\ board[b].revision = 1 \/ board[b].status # "active"
                                  /\ board[b].creator \in {Owner, None}
                /\ \A u \in Users : env.role[u] # "editor"
                /\ \/ env.standing = "current" /\ (\A b \in Used : job[b].status = "none")
                   \/ /\ Cardinality(Busy) <= 1 /\ Cardinality(Said) <= 1
                        /\ \A t \in Threads : Open(t) => thread[t].revision = 1
                        /\ \A m \in Said : comment[m].revision = 1
  /\ \A t \in Threads : Open(t) =>
       /\ thread[t].revision > 1 \/ On({"thread.resolve"}) => Cardinality(Said) = 1 /\ ~ On({"comment.edit"})
       /\ thread[t].revision > 1 => \A m \in Said : comment[m].revision = 1
       /\ board[thread[t].board].document = "plain" => Busy = {} \/ thread[t].anchor = "board"
       /\ board[thread[t].board].document = "drawn" => thread[t].anchor = "shape"
  /\ Cardinality(Said) > 1 => (\A m \in Said : comment[m].revision = 1) /\ Cardinality(Busy) <= 1
(* Rows are written up to twice before nothing but the worker touches them.*)
WrittenTwice ==
  /\ \A p \in Projects : project[p].revision = MaxRevision => Busy = {}
  /\ \A b \in Boards : board[b].revision = MaxRevision => Busy = {}
  /\ \A b \in Boards : job[b].attempts > 0 => Cardinality(Busy) <= 1
(* What ends a workspace meets one request.                                *)
Ending == env.lifecycle # "ready" \/ env.standing # "current" => Cardinality(Busy) <= 1
Stories == InOrder /\ Actors /\ WrittenTwice /\ Onboarding /\ Retrying /\ Listing /\ Discussing /\ Ending

BoundedNext == DiscussionNext /\ Stories'
BoundedSpec == DiscussionInit /\ [][BoundedNext]_allVars
=============================================================================
