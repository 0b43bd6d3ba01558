----------------------------- MODULE ServerStart -----------------------------
(***************************************************************************)
(* How clients and servers of one user find each other: a client connects  *)
(* or starts a server, once, and goes on connecting; servers settle among  *)
(* themselves who listens, over a lock file and a socket path; a listener  *)
(* that is out of descriptors pauses; a client says Hello before anything  *)
(* else; and a server that stops leaves in the order that lets the next    *)
(* one in.  The system calls of the listener are steps of their own, as    *)
(* other processes run between them.                                       *)
(***************************************************************************)
EXTENDS Integers, Sequences, FiniteSets, SequencesExt

CONSTANTS
    Servers,        \* the server processes there may ever be
    Clients,
    Descriptors     \* how many connections and programs a server can hold

ASSUME StartAssumption ==
    /\ IsFiniteSet(Servers) /\ Servers \subseteq Nat \ {0} /\ IsFiniteSet(Clients)
    /\ Descriptors \in Nat \ {0}

VARIABLES
    path,           \* whose socket the path names, alive or stale
    lock,           \* which process holds the lock file
    server,         \* the server processes
    client          \* the client processes

vars == <<path, lock, server, client>>

Nobody == 0
Owner == Servers \union {Nobody}

Phases == {"unborn", "locking", "probing", "binding", "bound", "serving",
           "stopping", "closed", "unlinked", "ending", "gone"}
Server == [phase : Phases, backlog : Seq(Clients), open : SUBSET Clients, paused : BOOLEAN,
           programs : BOOLEAN]

Room(x) == Descriptors - Cardinality(x.open) - (IF x.programs THEN 1 ELSE 0)

\* `ckmux` and `ckmux new` start a server where there is none; the others ask.
Goals == {"ui", "new", "ls", "kill"}
Starters == {"ui", "new"}
Steps == {"idle", "connecting", "hello", "talking", "stranger", "asked", "done", "failed"}
Client == [goal : Goals, stranger : BOOLEAN, step : Steps, started : BOOLEAN, to : Owner]

\* The four parts of the state keep their types, and no server holds more than
\* it has descriptors for.
TypeOK ==
    /\ path \in Owner /\ lock \in Owner
    /\ server \in [Servers -> Server] /\ client \in [Clients -> Client]
    /\ \A p \in Servers : Room(server[p]) >= 0

Init ==
    /\ path = Nobody /\ lock = Nobody
    /\ server = [p \in Servers |-> [phase |-> "unborn", backlog |-> <<>>, open |-> {},
                                    paused |-> FALSE, programs |-> FALSE]]
    /\ client \in [Clients -> {x \in Client : x.step = "idle" /\ ~x.started /\ x.to = Nobody}]

Listens(p) == p \in Servers /\ server[p].phase \in {"serving", "stopping"}
At(p, phase) == server[p].phase = phase
Moves(p, phase) == server' = [server EXCEPT ![p].phase = phase]
Goes(c, step) == client' = [client EXCEPT ![c].step = step]

----------------------------------------------------------------------------
(* The clients. *)

Run(c) ==
    /\ client[c].step = "idle" /\ Goes(c, "connecting")
    /\ UNCHANGED <<path, lock, server>>

Connect(c) ==
    /\ client[c].step = "connecting" /\ Listens(path)
    /\ client' = [client EXCEPT ![c].step = "hello", ![c].to = path]
    /\ server' = [server EXCEPT ![path].backlog = Append(@, c)]
    /\ UNCHANGED <<path, lock>>

\* Nothing listens: start a server, once, and go on connecting.
StartServer(c, p) ==
    /\ client[c].step = "connecting" /\ ~Listens(path)
    /\ client[c].goal \in Starters /\ ~client[c].started
    /\ At(p, "unborn") /\ Moves(p, "locking")
    /\ client' = [client EXCEPT ![c].started = TRUE]
    /\ UNCHANGED <<path, lock>>

\* `ls`, `attach`, `kill-session` and `kill-server` ask what is there and start nothing.
NothingThere(c) ==
    /\ client[c].step = "connecting" /\ ~Listens(path) /\ client[c].goal \notin Starters
    /\ Goes(c, "failed")
    /\ UNCHANGED <<path, lock, server>>

\* What the server holds of a client that has gone; a descriptor that comes back
\* ends a pause.
Without(x, c) ==
    [x EXCEPT !.open = @ \ {c}, !.paused = @ /\ c \notin x.open,
              !.backlog = RemoveFirst(@, c)]
Left(c, step) ==
    /\ client' = [client EXCEPT ![c].step = step, ![c].to = Nobody]
    /\ server' = [p \in Servers |-> IF p = client[c].to THEN Without(server[p], c) ELSE server[p]]
    /\ UNCHANGED <<path, lock>>

\* The deadline of connect_to_server: for a server to appear, once one was
\* started, and for it to answer Hello.
GiveUp(c) ==
    /\ \/ client[c].step = "connecting" /\ client[c].started
       \/ client[c].step = "hello"
    /\ Left(c, "failed")

\* The connection ended: a question fails, and kill-server was waiting for it.
HearEnd(c) ==
    /\ client[c].step \in {"hello", "talking", "stranger", "asked"} /\ client[c].to = Nobody
    /\ Goes(c, IF client[c].step = "asked" THEN "done" ELSE "failed")
    /\ UNCHANGED <<path, lock, server>>

Leave(c) ==
    /\ client[c].step \in {"talking", "stranger"} /\ client[c].goal # "kill"
    /\ Left(c, IF client[c].step = "talking" THEN "done" ELSE "failed")

\* kill-server says so to a server of any version.
AskToKill(c) ==
    /\ client[c].step \in {"talking", "stranger"} /\ client[c].goal = "kill"
    /\ client[c].to # Nobody /\ Goes(c, "asked")
    /\ UNCHANGED <<path, lock, server>>

\* It waits two seconds for the connection to end, and is content.
StopWaiting(c) == client[c].step = "asked" /\ Left(c, "done")

----------------------------------------------------------------------------
(* A server coming up (Listener::listen). *)

Lock(p) ==
    /\ At(p, "locking")
    /\ IF lock = Nobody THEN lock' = p /\ Moves(p, "probing")
       ELSE lock' = lock /\ Moves(p, "gone")
    /\ UNCHANGED <<path, client>>

\* Nobody answers at the path: what it names is stale, and is removed.
RemoveStale(p) ==
    /\ At(p, "probing") /\ ~Listens(path)
    /\ path' = Nobody /\ Moves(p, "binding")
    /\ UNCHANGED <<lock, client>>

Bind(p) ==
    /\ At(p, "binding") /\ path = Nobody /\ path' = p /\ Moves(p, "bound")
    /\ UNCHANGED <<lock, client>>

Listen(p) == At(p, "bound") /\ Moves(p, "serving") /\ UNCHANGED <<path, lock, client>>

----------------------------------------------------------------------------
(* A server that serves. *)

\* Mutant of Taken: whoever waits is taken, whatever is left to take them with.
TakenAll(x) == Len(x.backlog)
Taken(x) == IF Len(x.backlog) <= Room(x) THEN Len(x.backlog) ELSE Room(x)

\* Connections are taken in order while there are descriptors; with one still
\* waiting, the listener is left alone for a second.
AcceptPending(p) ==
    /\ At(p, "serving") /\ ~server[p].paused /\ server[p].backlog # <<>>
    /\ LET x == server[p]
           taken == Taken(x)
       IN server' = [server EXCEPT
              ![p].open = @ \union ToSet(SubSeq(x.backlog, 1, taken)),
              ![p].backlog = SubSeq(@, taken + 1, Len(@)),
              ![p].paused = taken < Len(x.backlog)]
    /\ UNCHANGED <<path, lock, client>>

\* Mutant of PauseEnds: only a connection that goes ends a pause.
PauseLasts(p) == At(p, "unborn") /\ server[p].paused /\ UNCHANGED vars
PauseEnds(p) ==
    /\ At(p, "serving") /\ server[p].paused
    /\ server' = [server EXCEPT ![p].paused = FALSE]
    /\ UNCHANGED <<path, lock, client>>

\* Hello: whoever speaks another version is refused, and only a utility may
\* stay for one message more.
Greet(p, c) ==
    /\ At(p, "serving") /\ c \in server[p].open /\ client[c].step = "hello"
    /\ \/ ~client[c].stranger /\ Goes(c, "talking") /\ UNCHANGED server
       \/ /\ client[c].stranger /\ client[c].goal # "ui"
          /\ Goes(c, "stranger") /\ UNCHANGED server
       \/ /\ client[c].stranger /\ client[c].goal = "ui"
          /\ client' = [client EXCEPT ![c].step = "failed", ![c].to = Nobody]
          /\ server' = [server EXCEPT ![p] = Without(@, c)]
    /\ UNCHANGED <<path, lock>>

\* A client that came for a session makes one, and a program runs in it; when
\* the program ends its descriptor is back, and no pause ends by that.
Program(p) ==
    /\ At(p, "serving")
    /\ \/ server[p].programs
       \/ Room(server[p]) > 0 /\ \E c \in server[p].open :
                                  client[c].step = "talking" /\ client[c].goal \in Starters
    /\ server' = [server EXCEPT ![p].programs = ~@]
    /\ UNCHANGED <<path, lock, client>>

\* Two seconds on, a stranger that did not ask to kill the server is dropped.
MismatchDeadline(p, c) ==
    /\ At(p, "serving") /\ c \in server[p].open /\ client[c].step = "stranger"
    /\ server' = [server EXCEPT ![p] = Without(@, c)]
    /\ client' = [client EXCEPT ![c].to = Nobody]
    /\ UNCHANGED <<path, lock>>

HearKill(p, c) ==
    /\ At(p, "serving") /\ c \in server[p].open /\ client[c].step = "asked"
    /\ Moves(p, "stopping") /\ UNCHANGED <<path, lock, client>>

\* A signal, or the last session ended.
Stop(p) == At(p, "serving") /\ Moves(p, "stopping") /\ UNCHANGED <<path, lock, client>>

----------------------------------------------------------------------------
(* A server going down (Server::run after its loop, Listener::close). *)

\* Every connection in S learns that its other end is gone.
Hangup(S) == [c \in Clients |-> IF c \in S THEN [client[c] EXCEPT !.to = Nobody] ELSE client[c]]

\* Mutant of CloseSocket: the lock goes first, the path after it.
CloseSocketUnlocked(p) ==
    /\ At(p, "stopping") /\ lock' = Nobody
    /\ server' = [server EXCEPT ![p].phase = "closed", ![p].backlog = <<>>]
    /\ client' = Hangup(ToSet(server[p].backlog))
    /\ UNCHANGED path
CloseSocket(p) ==
    /\ At(p, "stopping")
    /\ server' = [server EXCEPT ![p].phase = "closed", ![p].backlog = <<>>]
    /\ client' = Hangup(ToSet(server[p].backlog))
    /\ UNCHANGED <<path, lock>>

Unlink(p) == At(p, "closed") /\ path' = Nobody /\ Moves(p, "unlinked") /\ UNCHANGED <<lock, client>>
Unlock(p) == At(p, "unlinked") /\ lock' = Nobody /\ Moves(p, "ending") /\ UNCHANGED <<path, client>>

\* The programs are ended, what is queued is flushed, the connections close.
Ended(p) ==
    /\ server' = [server EXCEPT ![p].phase = "gone", ![p].backlog = <<>>, ![p].open = {},
                                ![p].programs = FALSE]
    /\ client' = Hangup(server[p].open \union ToSet(server[p].backlog))
End(p) == At(p, "ending") /\ Ended(p) /\ UNCHANGED <<path, lock>>

\* kill -9: the system closes what the process held; the path stays.
Crash(p) ==
    /\ server[p].phase \notin {"unborn", "gone"} /\ Ended(p)
    /\ lock' = IF lock = p THEN Nobody ELSE lock
    /\ UNCHANGED path

----------------------------------------------------------------------------
ComesUp(p) == Lock(p) \/ RemoveStale(p) \/ Bind(p) \/ Listen(p)
Serves(p) ==
    \/ AcceptPending(p) \/ PauseEnds(p) \/ Program(p)
    \/ \E c \in Clients : Greet(p, c) \/ MismatchDeadline(p, c) \/ HearKill(p, c)
GoesDown(p) == CloseSocket(p) \/ Unlink(p) \/ Unlock(p) \/ End(p)
Asks(c) == Connect(c) \/ NothingThere(c) \/ HearEnd(c) \/ AskToKill(c)
              \/ \E p \in Servers : StartServer(c, p)
Waits(c) == GiveUp(c) \/ StopWaiting(c)

Next ==
    \/ \E p \in Servers : ComesUp(p) \/ Serves(p) \/ GoesDown(p) \/ Stop(p) \/ Crash(p)
    \/ \E c \in Clients : Run(c) \/ Asks(c) \/ Waits(c) \/ Leave(c)

Spec == Init /\ [][Next]_vars

\* Processes run; a server's loop accepts, answers and times out by its clock.
\* Nobody has to stop, crash, leave or give up.
Fairness ==
    /\ \A p \in Servers :
          /\ WF_vars(ComesUp(p)) /\ WF_vars(GoesDown(p))
          /\ WF_vars(AcceptPending(p)) /\ WF_vars(PauseEnds(p))
          /\ \A c \in Clients : WF_vars(Greet(p, c)) /\ WF_vars(HearKill(p, c))
    /\ \A c \in Clients : WF_vars(Asks(c))
FairSpec == Spec /\ Fairness

----------------------------------------------------------------------------
(* Properties. *)

\* Whatever order processes start, stop and die in, a server that listens is the
\* one the path leads to and the one that holds the lock: nobody removed its
\* socket as stale, and no server that was going down took the path of its
\* replacement with it. So a server that has the lock never finds another one
\* answering (Listener::listen, Listener::close).
PathIsTheServers ==
    \A p \in Servers :
        /\ Listens(p) => lock = p /\ path = p
        /\ At(p, "probing") => ~Listens(path)

\* A server out of descriptors stops looking at its listener; whoever waits in
\* the backlog is accepted, or learns that the server is gone, once there is room
\* to stay, whether a connection or a program that ended made it
\* (Server::accept_pending, the pause in Server::step).
BacklogIsServed ==
    \A p \in Servers, c \in Clients :
        <>[](Room(server[p]) > 0) =>
            (c \in ToSet(server[p].backlog) ~> c \notin ToSet(server[p].backlog))

\* "At no moment can a NEW server start while this one still owns running
\* programs" (Server::run).
NoNewServerWhileProgramsRun ==
    \A p, q \in Servers : p # q /\ Listens(q) => ~server[p].programs
=============================================================================
