------------------------------- MODULE Process -------------------------------
(***************************************************************************)
(* One run of the server's process: cmd/app/main.go acquires what the      *)
(* configuration enables, pkg/fiber serves until a signal or a failure,    *)
(* drains, and main's deferred functions give everything back in reverse.  *)
(*                                                                         *)
(* Four kinds of goroutine use what main holds: its own, the workers', the *)
(* HTTP handlers' and the sockets'.  Pools are shared by pointer, so the   *)
(* order in which things are given back, and what that waits for, is all   *)
(* that keeps a pool open under those who use it.                          *)
(*                                                                         *)
(* A handler signs its caller in before it opens a transaction; the first  *)
(* sign-ins of one person may run at once.                                 *)
(***************************************************************************)
EXTENDS Naturals, Sequences, SequencesExt

CONSTANTS Connections,     \* client connections
          Subjects,        \* people the Auth provider knows
          Configurations,  \* the sets of features a process may be started with
          None

ASSUME ProcessAssumption == None \notin Connections \X Subjects

VARIABLES
  enabled,    \* the features of this configuration
  phase,      \* where main is
  deferred,   \* what main has deferred, in order
  signalled,  \* SIGTERM or SIGINT arrived: the context is done
  listening,  \* the HTTP listener is open
  running, accepting,  \* the two flags of fx.Server
  expired,    \* the drain ended by its timeout
  worker,     \* where each worker's goroutine is
  told,       \* the workers and socket servers that main has told to stop
  conn,       \* where each connection is: [at, door, subject, actor]
  profile     \* the profile's id of each subject, None before the first sign-in

mainVars == <<enabled, phase, deferred, listening, running, accepting, expired, told>>
vars == <<mainVars, signalled, worker, conn, profile>>

-----------------------------------------------------------------------------
(* What a configuration needs, and what it makes main acquire.             *)

Features == {"identity", "local", "workspace", "board", "cleanup", "asset", "membership",
             "collaboration", "billing", "transfer"}

Requires == [local |-> {"identity"}, billing |-> {"board", "cleanup", "asset"},
             transfer |-> {"asset"}, asset |-> {"board", "cleanup"},
             collaboration |-> {"board"}, membership |-> {"board"}, board |-> {"workspace"},
             cleanup |-> {"board"}, workspace |-> {"identity"}, identity |-> {}]

Consistent(features) == \A f \in features : Requires[f] \subseteq features

When(feature, steps) == IF feature \in enabled THEN steps ELSE <<>>

IdentityPart      == <<"identity_pool">> \o When("local", <<"relay">>)
CleanupPart       == <<"cleanup_pool">> \o When("asset", <<"asset_worker">>) \o <<"cleanup_worker">>
CollaborationPart == <<"authority", "collaboration">>
BillingPart       == <<"billing_pool", "billing_worker">>
TransferPart      == <<"transfer_pool", "transfer_worker">>

Plan ==
  When("identity",
    IdentityPart \o When("workspace",
      <<"request_pool">> \o When("board",
        When("cleanup", CleanupPart) \o When("collaboration", CollaborationPart)
          \o When("billing", BillingPart) \o When("transfer", TransferPart))))

Pools   == {"identity_pool", "request_pool", "cleanup_pool", "billing_pool", "transfer_pool"}
Workers == {"asset_worker", "cleanup_worker", "billing_worker", "transfer_worker"}
Doors   == {"relay", "collaboration"}
PoolOf  == [w \in Workers |-> CASE w = "billing_worker"  -> "billing_pool"
                                [] w = "transfer_worker" -> "transfer_pool"
                                [] OTHER                 -> "cleanup_pool"]

Held == ToSet(deferred)

-----------------------------------------------------------------------------
(* main, up to the server: every failure returns through what is deferred. *)

Goto(place) == phase' = place

(* The guards at the start of run, and the check of the object store.      *)
Configure ==
  /\ phase = "configuring"
  /\ \/ Consistent(enabled) /\ Goto("starting")
     \/ ~ Consistent(enabled) /\ Goto("stopping")
     \/ "asset" \in enabled /\ Goto("stopping")
  /\ UNCHANGED <<enabled, deferred, listening, running, accepting, expired, told, signalled,
                 worker, conn, profile>>

NextStep == Plan[Len(deferred) + 1]
Unfinished == phase = "starting" /\ Len(deferred) < Len(Plan)

Acquire ==
  /\ Unfinished
  /\ deferred' = Append(deferred, NextStep)
  /\ worker' = IF NextStep \in Workers THEN [worker EXCEPT ![NextStep] = "waiting"] ELSE worker
  /\ UNCHANGED <<enabled, phase, listening, running, accepting, expired, told, signalled, conn,
                 profile>>

(* What cannot be opened leaves nothing to give back: the pool's           *)
(* constructor closes it when the database does not answer.                *)
OpenFails ==
  /\ Unfinished
  /\ NextStep \notin Workers \/ NextStep = "billing_worker"
  /\ Goto("stopping")
  /\ UNCHANGED <<enabled, deferred, listening, running, accepting, expired, told, signalled,
                 worker, conn, profile>>

(* A pool whose role or schema is refused is deferred already.             *)
CheckFails ==
  /\ Unfinished /\ NextStep \in Pools
  /\ deferred' = Append(deferred, NextStep)
  /\ Goto("stopping")
  /\ UNCHANGED <<enabled, listening, running, accepting, expired, told, signalled, worker, conn,
                 profile>>

-----------------------------------------------------------------------------
(* Server.Run.  main gives it no tools.                                    *)

Built == phase = "starting" /\ Len(deferred) = Len(Plan)

(* The context may be done already, the settings or the address unusable.  *)
RunReturns ==
  /\ Built
  /\ Goto("stopping")
  /\ UNCHANGED <<enabled, deferred, listening, running, accepting, expired, told, signalled,
                 worker, conn, profile>>

Listen ==
  /\ Built /\ ~ signalled
  /\ listening' = TRUE
  /\ Goto("listening")
  /\ UNCHANGED <<enabled, deferred, running, accepting, expired, told, signalled, worker, conn,
                 profile>>

(* Connections are accepted before the flags are set.                      *)
MarkRunning ==
  /\ phase = "listening"
  /\ running' = TRUE
  /\ Goto("running")
  /\ UNCHANGED <<enabled, deferred, listening, accepting, expired, told, signalled, worker,
                 conn, profile>>

MarkAccepting ==
  /\ phase = "running"
  /\ accepting' = TRUE
  /\ Goto("serving")
  /\ UNCHANGED <<enabled, deferred, listening, running, expired, told, signalled, worker, conn,
                 profile>>

ListenerFails ==
  /\ listening /\ phase \in {"listening", "running", "serving"}
  /\ listening' = FALSE
  /\ UNCHANGED <<enabled, phase, deferred, running, accepting, expired, told, signalled, worker,
                 conn, profile>>

EndServing ==
  /\ phase = "serving" /\ (signalled \/ ~ listening)
  /\ accepting' = FALSE
  /\ Goto("unready")
  /\ UNCHANGED <<enabled, deferred, listening, running, expired, told, signalled, worker, conn,
                 profile>>

CloseListener ==
  /\ phase = "unready"
  /\ listening' = FALSE
  /\ Goto("draining")
  /\ UNCHANGED <<enabled, deferred, running, accepting, expired, told, signalled, worker, conn,
                 profile>>

(* fasthttp counts the connections it serves; one that became a WebSocket  *)
(* is no longer one of them.                                               *)
Counted(c) == conn[c].at \in {"open", "asked", "checking", "resolving", "reading", "transaction"}

Drain ==
  /\ phase = "draining"
  /\ \/ ~ (\E c \in Connections : Counted(c)) /\ UNCHANGED expired
     \/ (\E c \in Connections : Counted(c)) /\ expired' = TRUE
  /\ running' = FALSE
  /\ Goto("stopping")
  /\ UNCHANGED <<enabled, deferred, listening, accepting, told, signalled, worker, conn,
                 profile>>

-----------------------------------------------------------------------------
(* main's deferred functions, last first: a worker is cancelled and then   *)
(* waited for, a socket server stops its sockets and waits for them.       *)

(* Mutant: cancelled, and not waited for.                                  *)
ToldIsEnough(x) == x \in Workers \cup Doors => x \in told
Finished(x) ==
  /\ x \in Workers => worker[x] = "over"
  /\ x \in Doors => x \in told /\ \A c \in Connections : conn[c].door = x =>
                                      conn[c].at \notin {"live", "ending"}

Tell ==
  /\ phase = "stopping" /\ deferred # <<>>
  /\ Last(deferred) \in (Workers \cup Doors) \ told
  /\ told' = told \cup {Last(deferred)}
  /\ conn' = [c \in Connections |->
                IF conn[c].at = "live" /\ conn[c].door = Last(deferred)
                THEN [conn[c] EXCEPT !.at = "ending"] ELSE conn[c]]
  /\ UNCHANGED <<enabled, phase, deferred, listening, running, accepting, expired, signalled,
                 worker, profile>>

Release ==
  /\ phase = "stopping" /\ deferred # <<>>
  /\ Last(deferred) # "authority"
  /\ Last(deferred) \in Workers \cup Doors => Last(deferred) \in told
  /\ Finished(Last(deferred))
  /\ deferred' = Front(deferred)
  /\ UNCHANGED <<enabled, phase, listening, running, accepting, expired, told, signalled, worker,
                 conn, profile>>

(* The advisory lock is released, or its connection given up in 5 s.       *)
CloseAuthority ==
  /\ phase = "stopping" /\ deferred # <<>>
  /\ Last(deferred) = "authority"
  /\ deferred' = Front(deferred)
  /\ UNCHANGED <<enabled, phase, listening, running, accepting, expired, told, signalled, worker,
                 conn, profile>>

(* The process ends, and with it whatever still runs.                      *)
Exit ==
  /\ phase = "stopping" /\ deferred = <<>>
  /\ Goto("exited")
  /\ conn' = [c \in Connections |-> [conn[c] EXCEPT !.at = "gone"]]
  /\ UNCHANGED <<enabled, deferred, listening, running, accepting, expired, told, signalled,
                 worker, profile>>

Signal ==
  /\ phase # "exited" /\ ~ signalled
  /\ signalled' = TRUE
  /\ UNCHANGED <<mainVars, worker, conn, profile>>

-----------------------------------------------------------------------------
(* A worker: a tick starts a pass of at most ten jobs, each bounded by its *)
(* timeout and by the context.  When the context is done and a tick is     *)
(* due, Go's select may take either.                                       *)

Tick(w) ==
  /\ worker[w] = "waiting"
  /\ worker' = [worker EXCEPT ![w] = "pass"]
  /\ UNCHANGED <<mainVars, signalled, conn, profile>>

PassEnds(w) ==
  /\ worker[w] = "pass"
  /\ worker' = [worker EXCEPT ![w] = "waiting"]
  /\ UNCHANGED <<mainVars, signalled, conn, profile>>

(* Mutant: main's own cancellation does not reach the worker.              *)
StopsOnSignal(w) ==
  /\ worker[w] = "waiting" /\ signalled
  /\ worker' = [worker EXCEPT ![w] = "over"]
  /\ UNCHANGED <<mainVars, signalled, conn, profile>>
WorkerStops(w) ==
  /\ worker[w] = "waiting" /\ (signalled \/ w \in told)
  /\ worker' = [worker EXCEPT ![w] = "over"]
  /\ UNCHANGED <<mainVars, signalled, conn, profile>>

-----------------------------------------------------------------------------
(* Connections.                                                            *)

At(c, place) == conn[c].at = place
Move(c, place) == conn' = [conn EXCEPT ![c].at = place]
Rest == UNCHANGED <<mainVars, signalled, worker, profile>>

(* A connection that is served while the server shuts down is closed       *)
(* after its answer.                                                       *)
Answered(c) == conn' = [conn EXCEPT ![c] = [at |-> IF phase \in {"draining", "stopping"}
                                                   THEN "gone" ELSE "open",
                                            door |-> None, subject |-> None, actor |-> None]]

Accept(c) == listening /\ At(c, "away") /\ Move(c, "open") /\ Rest
Hangup(c) == At(c, "open") /\ Move(c, "gone") /\ Rest

(* readyz reads running, and only when it is set, accepting.               *)
LoadRunning(c) ==
  /\ At(c, "open")
  /\ IF running THEN Move(c, "asked") ELSE Move(c, "checking")
  /\ Rest

LoadAccepting(c) ==
  /\ At(c, "asked")
  /\ IF accepting THEN Move(c, "checking") ELSE Answered(c)
  /\ Rest

(* A check ends: with its probe's timeout, or, when it waits for the       *)
(* authority's mutex first, once it has had its turn.                      *)
ChecksEnd(c) == At(c, "checking") /\ Answered(c) /\ Rest

(* main mounts the routes of what it has acquired.                         *)
SocketRoutes == Doors \cap ToSet(Plan)

(* An upgrade leaves the HTTP server; the socket registers afterwards.     *)
Upgrade(c) ==
  /\ At(c, "open")
  /\ \E d \in SocketRoutes :
       conn' = [conn EXCEPT ![c].at = "upgraded", ![c].door = d]
  /\ Rest

Register(c) ==
  /\ At(c, "upgraded")
  /\ IF conn[c].door \in told THEN Move(c, "gone") ELSE Move(c, "live")
  /\ Rest

Leave(c) == At(c, "live") /\ Move(c, "gone") /\ Rest
SocketEnds(c) == At(c, "ending") /\ Move(c, "gone") /\ Rest

-----------------------------------------------------------------------------
(* Signing in.  Auth vouches for a subject, or the request is refused; the *)
(* resolver inserts a candidate unless the subject has a profile, and then *)
(* reads the profile that is live.                                         *)

(* Each attempt draws an id of its own.                                    *)
Candidate(c, s) == <<c, s>>

Verify(c) ==
  /\ At(c, "open") /\ "identity" \in enabled
  /\ \/ Answered(c)
     \/ \E s \in Subjects : conn' = [conn EXCEPT ![c].at = "resolving", ![c].subject = s]
  /\ Rest

InsertProfile(c) ==
  /\ At(c, "resolving")
  /\ LET s == conn[c].subject IN
       profile' = IF profile[s] = None THEN [profile EXCEPT ![s] = Candidate(c, s)] ELSE profile
  /\ Move(c, "reading")
  /\ UNCHANGED <<mainVars, signalled, worker>>

(* A principal opens transactions under its profile, if there are any.     *)
SignedIn(c, profileId) ==
  IF "workspace" \notin enabled THEN Answered(c)
  ELSE conn' = [conn EXCEPT ![c].at = "transaction", ![c].actor = profileId]

(* Mutant: the candidate is taken for the profile.                         *)
CandidateIsProfile(c) ==
  At(c, "reading") /\ SignedIn(c, Candidate(c, conn[c].subject)) /\ Rest
ReadProfile(c) ==
  At(c, "reading") /\ SignedIn(c, profile[conn[c].subject]) /\ Rest

(* Any call may fail, the subject's profile may be deleted, and a handler  *)
(* answers then too.                                                       *)
RequestFails(c) == conn[c].at \in {"resolving", "reading"} /\ Answered(c) /\ Rest
Commit(c) == At(c, "transaction") /\ Answered(c) /\ Rest

-----------------------------------------------------------------------------

Init ==
  /\ enabled \in Configurations
  /\ phase = "configuring" /\ deferred = <<>> /\ signalled = FALSE /\ listening = FALSE
  /\ running = FALSE /\ accepting = FALSE /\ expired = FALSE /\ told = {}
  /\ worker = [w \in Workers |-> "off"]
  /\ conn = [c \in Connections |->
               [at |-> "away", door |-> None, subject |-> None, actor |-> None]]
  /\ profile = [s \in Subjects |-> None]

Main == \/ Configure \/ Acquire \/ OpenFails \/ CheckFails \/ RunReturns \/ Listen \/ MarkRunning
        \/ MarkAccepting \/ EndServing \/ CloseListener \/ Drain \/ Tell \/ Release
        \/ CloseAuthority \/ Exit

Handle(c) == \/ Accept(c) \/ Hangup(c) \/ LoadRunning(c) \/ LoadAccepting(c) \/ ChecksEnd(c)
             \/ Upgrade(c) \/ Register(c) \/ Leave(c) \/ SocketEnds(c) \/ Verify(c)
             \/ InsertProfile(c) \/ ReadProfile(c) \/ RequestFails(c) \/ Commit(c)

Next ==
  \/ Main \/ Signal \/ ListenerFails
  \/ \E w \in Workers : Tick(w) \/ PassEnds(w) \/ WorkerStops(w)
  \/ \E c \in Connections : Handle(c)

(* main runs, a pass and a socket that was stopped end, and a select that  *)
(* finds the context done again and again takes that case sometime.        *)
Fairness ==
  /\ WF_vars(Main)
  /\ \A w \in Workers : WF_vars(PassEnds(w)) /\ SF_vars(WorkerStops(w))
  /\ \A c \in Connections : WF_vars(SocketEnds(c))

Spec == Init /\ [][Next]_vars /\ Fairness

-----------------------------------------------------------------------------

(* What a goroutine needs of what main holds: a worker its pool and the    *)
(* deferred call that waits for it, a collaboration socket the authority   *)
(* and both request pools, a handler the pool of its current call, a probe *)
(* everything it checks.                                                   *)
Uses(c) ==
  CASE conn[c].at \in {"live", "ending"} ->
         {conn[c].door} \cup (IF conn[c].door = "collaboration"
                              THEN {"authority", "request_pool", "identity_pool"} ELSE {})
    [] conn[c].at \in {"resolving", "reading"} -> {"identity_pool"}
    [] conn[c].at = "transaction" -> {"request_pool"}
    [] conn[c].at = "checking" -> ToSet(Plan) \cap (Pools \cup {"authority"})
    [] OTHER -> {}

(* Nothing is closed under those who use it: every worker pass, socket,    *)
(* request and probe ends before the pools and the authority it uses are   *)
(* closed, unless the drain has been given up.  main.go:270-470, defers.   *)
PoolsOutliveUsers ==
  /\ \A w \in Workers : worker[w] \in {"waiting", "pass"} => {w, PoolOf[w]} \subseteq Held
  /\ \A c \in Connections : \/ Uses(c) \subseteq Held
                            \/ expired /\ Counted(c)

(* Everyone who signs in as one subject works under one profile, also when *)
(* the first sign-ins run at once.                                         *)
OneProfilePerSubject ==
  \A c, d \in Connections :
    At(c, "transaction") /\ At(d, "transaction") =>
      (conn[c].subject = conn[d].subject => conn[c].actor = conn[d].actor)

(* A process that was told to stop, or whose listener failed, exits,       *)
(* whatever its workers, sockets and clients are doing.                    *)
StopsOnceEnding ==
  signalled \/ phase \in {"unready", "draining", "stopping"} ~> phase = "exited"
=============================================================================
