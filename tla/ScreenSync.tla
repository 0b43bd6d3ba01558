----------------------------- MODULE ScreenSync -----------------------------
(***************************************************************************)
(* How ckmux keeps the screen of one terminal the same on both sides of    *)
(* the socket: the server's Terminal and TerminalDiffer, the per-client    *)
(* send queue, the attach / detach / heal handlers and the flush tick, and *)
(* in each client process the ServerSession and its TerminalMirror.        *)
(*                                                                         *)
(* One session holding one terminal, several connections to it.  A screen  *)
(* maps Rows to Values; a row stands for any unit the differ compares (a   *)
(* line of cells, the cursor, the modes, the title).  A line of history is *)
(* its number.  The picture operations, the layout and the size of the     *)
(* grid are left out (see README.md).                                      *)
(***************************************************************************)
EXTENDS Integers, Sequences, FiniteSets

CONSTANTS
    NClients,        \* connections, numbered in the order the server accepted them
    Rows, Values,    \* the parts of a screen, and what a part can hold
    Blank,           \* what every part of a terminal nobody has written to holds
    Modes,           \* the Attach.mode values the clients use
    SnapshotWeight,  \* the size of an Attached frame; every other frame has size 1
    Backlog,         \* Stream::kDeltaBacklogBytes
    HighWater,       \* Stream::kHighWaterBytes
    HardLimit,       \* Stream::kHardLimitBytes
    MaxPush,         \* kMaxHistoryLinesPerDelta
    MaxDraws,        \* bound: screens the program draws, over all its runs
    MaxLines,        \* bound: lines one run of the program pushes into history
    MaxActs,         \* bound: attaches, quits and crashes of all readers
    Frames           \* whether the program ever holds its output (DEC 2026)

Clients == 1..NClients
Screens == [Rows -> Values]
BlankScreen == [r \in Rows |-> Blank]

\* The belief of a differ that was just made: a grid of no size, so it is
\* equal to no screen.
NoBelief == <<>>

ASSUME CountAssumption == NClients \in Nat /\ MaxPush \in Nat
ASSUME ScreenAssumption == Rows # {} /\ Blank \in Values
ASSUME ModeAssumption == Modes \subseteq {"TakeOver", "Join", "Watch"}
ASSUME QueueAssumption ==
    /\ SnapshotWeight \in Nat \ {0} /\ Backlog \in Nat /\ HighWater \in Nat /\ HardLimit \in Nat
    /\ Backlog <= HighWater /\ SnapshotWeight <= HighWater /\ HighWater < HardLimit
ASSUME BoundAssumption == MaxDraws \in Nat /\ MaxLines \in Nat
    /\ MaxActs \in Nat /\ Frames \in BOOLEAN

VARIABLES
    drawn,      \* every screen the program has drawn; the terminal shows the last
    term,       \* the emulator: its child, DEC 2026 hold, damage and history
    differ,     \* TerminalDiffer: what the server believes its watchers hold
    conn,       \* the server's Client record of each connection
    app,        \* the client process at the other end of it
    requests,   \* messages from each client the server has not handled
    acts        \* what the readers have done so far, for MaxActs

vars == <<drawn, term, differ, conn, app, requests, acts>>

Screen == drawn[Len(drawn)]

(***************************************************************************)
(* Messages.  "at" is a history variable: which of the screens in "drawn"  *)
(* the terminal showed when the message was composed.                      *)
(***************************************************************************)
Updates == UNION {[S -> Values] : S \in SUBSET Rows}
Messages ==
    {m \in [type : {"Attached", "Delta", "Opened", "Detached"}, seq : Nat,
            cells : Updates, lines : Seq(Nat), at : Nat] :
        m.type = "Attached" => m.cells \in Screens}
Requests == [type : {"Attach", "Detach"}, mode : {"TakeOver", "Join", "Watch"}]

Message(type, seq, cells, lines) ==
    [type |-> type, seq |-> seq, cells |-> cells, lines |-> lines, at |-> Len(drawn)]

NoCells == [r \in {} |-> Blank]

\* The history lines first..last, oldest first.
LinesFrom(first, last) == [i \in 1..(last - first + 1) |-> first + i - 1]

\* A snapshot has no number of its own: the deltas after it count from 1.  Its
\* history is everything the emulator holds, flushed to the clients or not.
Snapshot == Message("Attached", 0, Screen, LinesFrom(1, term.total))

(***************************************************************************)
(* The send queue of a connection.  k.wire holds what was sent and not yet *)
(* handled by the client; its last k.unsent messages are still in the      *)
(* server's Stream, the ones before are in the socket.                     *)
(***************************************************************************)
Weight(m) == IF m.type = "Attached" THEN SnapshotWeight ELSE 1

Queued(k) ==
    k.unsent + (SnapshotWeight - 1)
        * Cardinality({i \in (Len(k.wire) - k.unsent + 1)..Len(k.wire) :
                           k.wire[i].type = "Attached"})

ReadyForScreen(k) == Queued(k) <= Backlog

\* Mutant of Dropped: the count of unsent frames survives the queue.
DroppedCountKept(k) ==
    [k EXCEPT !.open = FALSE, !.attached = FALSE,
              !.wire = SubSeq(k.wire, 1, Len(k.wire) - k.unsent)]

\* Server::drop: the connection goes, with what its queue still held.  The last
\* flush drop attempts is the Flush step that may come before.
Dropped(k) ==
    [k EXCEPT !.open = FALSE, !.attached = FALSE,
              !.wire = SubSeq(k.wire, 1, Len(k.wire) - k.unsent), !.unsent = 0]

\* Mutant of Sent: a snapshot is put in front of the frames still queued.
SentOutOfTurn(k, m) ==
    IF ~k.open THEN k
    ELSE IF Queued(k) + Weight(m) > HardLimit THEN Dropped(k)
    ELSE LET flushed == Len(k.wire) - k.unsent
             place == IF m.type = "Attached" THEN flushed ELSE Len(k.wire)
         IN [k EXCEPT !.wire = SubSeq(@, 1, place) \o <<m>> \o SubSeq(@, place + 1, Len(@)),
                      !.unsent = @ + 1,
                      !.dirty = @ \/ (m.type # "Attached" /\ Queued(k) + Weight(m) > HighWater)]

\* Server::send.  Past the high-water mark the frame is queued all the same and
\* the client needs a snapshot, unless the frame is that snapshot.
Sent(k, m) ==
    IF ~k.open THEN k
    ELSE IF Queued(k) + Weight(m) > HardLimit THEN Dropped(k)
    ELSE [k EXCEPT !.wire = Append(@, m), !.unsent = @ + 1,
                   !.dirty = @ \/ (m.type # "Attached" /\ Queued(k) + Weight(m) > HighWater)]

\* Server::send_snapshot, without what it does to the differ (Restarted).
WithSnapshot(k) == [Sent([k EXCEPT !.dirty = FALSE], Snapshot) EXCEPT !.draining = TRUE]

\* Server::detach.
DetachedFrom(k) ==
    IF ~k.attached THEN k
    ELSE Sent([k EXCEPT !.attached = FALSE, !.dirty = FALSE, !.draining = FALSE],
              Message("Detached", 0, NoCells, <<>>))

\* Mutant of Restarted: the belief is the new one and the count goes on.
RestartedBeliefOnly == [belief |-> Screen, seq |-> differ.seq, diverged |-> FALSE, needs |-> FALSE]

\* TerminalDiffer::snapshot: what was just given out is what is believed held.
Restarted == [belief |-> Screen, seq |-> 0, diverged |-> FALSE, needs |-> FALSE]
FreshDiffer == [belief |-> NoBelief, seq |-> 0, diverged |-> FALSE, needs |-> FALSE]

(***************************************************************************)
(* The program in the terminal.                                            *)
(***************************************************************************)
\* A write to the rows in W, which may leave them as they were, and n lines
\* scrolled into history.  The emulator notes both as damage.
Output ==
    \E W \in SUBSET Rows : \E text \in [W -> Values] : \E n \in 0..(MaxLines - term.total) :
        /\ term.live
        /\ Len(drawn) <= MaxDraws
        /\ W # {} \/ n > 0
        /\ drawn' = Append(drawn, [r \in Rows |-> IF r \in W THEN text[r] ELSE Screen[r]])
        /\ term' = [term EXCEPT !.damage = @ \union W, !.pushed = @ + n, !.total = @ + n]
        /\ UNCHANGED <<differ, conn, app, requests, acts>>

\* The program opens or closes a synchronized frame (DEC 2026).
Synchronize ==
    /\ Frames /\ term.live
    /\ term' = [term EXCEPT !.sync = ~@]
    /\ UNCHANGED <<drawn, differ, conn, app, requests, acts>>

\* The child ends; the terminal is held with its last screen.  Under the bound
\* on draws an end after the last one is no different from silence.
Exit ==
    /\ term.live /\ Len(drawn) <= MaxDraws
    /\ term' = [term EXCEPT !.live = FALSE]
    /\ UNCHANGED <<drawn, differ, conn, app, requests, acts>>

\* RespawnTerminal: refused while the child lives.  The differ is forgotten and
\* every attached client is told of a terminal opened under the id it has.
Respawn ==
    /\ ~term.live
    /\ Len(drawn) <= MaxDraws
    /\ drawn' = Append(drawn, BlankScreen)
    /\ term' = [live |-> TRUE, sync |-> FALSE, damage |-> Rows, pushed |-> 0, total |-> 0]
    /\ differ' = FreshDiffer
    /\ conn' = [c \in Clients |->
                  IF ~conn[c].attached THEN conn[c]
                  ELSE Sent(conn[c], [Message("Opened", 0, NoCells, <<>>)
                                        EXCEPT !.at = Len(drawn) + 1])]
    /\ UNCHANGED <<app, requests, acts>>

(***************************************************************************)
(* The flush tick.  Clients waiting to be healed get their snapshot first; *)
(* then the differ composes one delta for everybody.                       *)
(***************************************************************************)
Healing(k) == k.attached /\ k.dirty /\ ReadyForScreen(k)

HealedConn(c) == IF Healing(conn[c]) THEN WithSnapshot(conn[c]) ELSE conn[c]
HealedDiffer == IF \E c \in Clients : Healing(conn[c]) THEN Restarted ELSE differ

\* Mutant of Marked: a reader who is up to date is left as it is.
MarkedNever(k, needs) == k

\* A differ that needs a snapshot marks every reader of its session, every tick.
Marked(k, needs) == IF needs /\ k.attached THEN [k EXCEPT !.dirty = TRUE] ELSE k

Damaged == term.damage # {} \/ term.pushed > 0
Flooded == term.pushed > MaxPush
Cleared == [term EXCEPT !.damage = {}, !.pushed = 0]

\* The rows a delta states: all of them to a differ without a belief, otherwise
\* the damaged ones that are not as believed.
Changed(d) ==
    IF d.belief = NoBelief THEN Rows ELSE {r \in term.damage : d.belief[r] # Screen[r]}

\* Mutant of Noted: lines left out of a delta are not remembered as missing.
NotedNothing(d) == d

\* More history in one tick than a delta may carry: the screen goes, the lines wait.
Noted(d) == [d EXCEPT !.diverged = @ \/ Flooded]
PushedLines == IF Flooded THEN <<>> ELSE LinesFrom(term.total - term.pushed + 1, term.total)

\* The belief is advanced by applying the delta, not by copying the screen.
Advanced(d) ==
    [Noted(d) EXCEPT !.seq = @ + 1,
        !.belief = [r \in Rows |-> IF r \in Changed(d) THEN Screen[r] ELSE d.belief[r]]]

Delta(d) ==
    Message("Delta", d.seq + 1, [r \in Changed(d) |-> Screen[r]], PushedLines)

\* Mutant of Streamed: a client without room is passed over and not marked.
StreamedPastFull(k, m) ==
    LET draining == k.draining /\ ~ReadyForScreen(k) IN
    IF ~k.attached \/ k.dirty \/ (~ReadyForScreen(k) /\ ~draining) THEN k
    ELSE Sent([k EXCEPT !.draining = draining], m)

\* A clean client with room, or one still draining the snapshot that healed it,
\* is sent the delta; one without room waits for a snapshot instead.
Streamed(k, m) ==
    LET draining == k.draining /\ ~ReadyForScreen(k) IN
    IF ~k.attached \/ k.dirty THEN k
    ELSE IF ~ReadyForScreen(k) /\ ~draining
         THEN [k EXCEPT !.dirty = TRUE, !.draining = FALSE]
    ELSE Sent([k EXCEPT !.draining = draining], m)

\* Nothing to compose: no damage, or a synchronized frame is open.
TickIdle ==
    /\ term.sync \/ ~Damaged
    /\ differ' = HealedDiffer
    /\ conn' = [c \in Clients |-> Marked(HealedConn(c), HealedDiffer.needs)]
    /\ UNCHANGED <<drawn, term, app, requests, acts>>

\* The flood is over: one snapshot puts the history back, and until it is taken
\* this terminal composes nothing.
TickReconcile ==
    /\ ~term.sync /\ Damaged /\ ~Flooded /\ HealedDiffer.diverged
    /\ term' = Cleared
    /\ differ' = [HealedDiffer EXCEPT !.needs = TRUE]
    /\ conn' = [c \in Clients |-> Marked(HealedConn(c), TRUE)]
    /\ UNCHANGED <<drawn, app, requests, acts>>

Composing == ~term.sync /\ Damaged /\ (Flooded \/ ~HealedDiffer.diverged)
Silent == Changed(HealedDiffer) = {} /\ PushedLines = <<>>

\* Damage that changed nothing: no operations, no delta.
TickSilent ==
    /\ Composing /\ Silent
    /\ term' = Cleared
    /\ differ' = Noted(HealedDiffer)
    /\ conn' = [c \in Clients |-> Marked(HealedConn(c), HealedDiffer.needs)]
    /\ UNCHANGED <<drawn, app, requests, acts>>

TickDelta ==
    /\ Composing /\ ~Silent
    /\ term' = Cleared
    /\ differ' = Advanced(HealedDiffer)
    /\ conn' = [c \in Clients |->
                  Streamed(Marked(HealedConn(c), HealedDiffer.needs), Delta(HealedDiffer))]
    /\ UNCHANGED <<drawn, app, requests, acts>>

Tick == TickIdle \/ TickReconcile \/ TickSilent \/ TickDelta

(***************************************************************************)
(* The server's handlers.                                                  *)
(***************************************************************************)
\* client_attached_to: the readers, of whom it finds the first in connection order.
Holders == {c \in Clients : conn[c].attached}

\* Mutant of IsFirstHolder: a takeover leaves whoever holds the session in it.
IsNobody(c) == FALSE

\* The one a takeover detaches.
IsFirstHolder(c) == c \in Holders /\ \A d \in Holders : c <= d

HandleAttach(c) ==
    /\ conn[c].open
    /\ requests[c] # <<>> /\ Head(requests[c]).type = "Attach"
    /\ requests' = [requests EXCEPT ![c] = Tail(@)]
    /\ conn' = [d \in Clients |->
                  IF d = c THEN WithSnapshot([conn[c] EXCEPT !.attached = TRUE, !.dirty = FALSE])
                  ELSE IF Head(requests[c]).mode = "TakeOver" /\ IsFirstHolder(d)
                       THEN DetachedFrom(conn[d])
                  ELSE conn[d]]
    /\ differ' = Restarted
    /\ UNCHANGED <<drawn, term, app, acts>>

HandleDetach(c) ==
    /\ conn[c].open
    /\ requests[c] # <<>> /\ Head(requests[c]).type = "Detach"
    /\ requests' = [requests EXCEPT ![c] = Tail(@)]
    /\ conn' = [conn EXCEPT ![c] = DetachedFrom(@)]
    /\ UNCHANGED <<drawn, term, differ, app, acts>>

\* The socket takes the next queued frame.
Flush(c) ==
    /\ conn[c].open /\ app[c].alive /\ conn[c].unsent > 0
    /\ conn' = [conn EXCEPT ![c].unsent = @ - 1]
    /\ UNCHANGED <<drawn, term, differ, app, requests, acts>>

\* The server reads end-of-stream once it has read every request before it.
HearHangup(c) ==
    /\ conn[c].open /\ ~app[c].alive /\ requests[c] = <<>>
    /\ conn' = [conn EXCEPT ![c] = [Dropped(@) EXCEPT !.wire = <<>>]]
    /\ UNCHANGED <<drawn, term, differ, app, requests, acts>>

(***************************************************************************)
(* The client process.                                                     *)
(***************************************************************************)
IdleApp == [alive |-> TRUE, attached |-> FALSE, mode |-> "TakeOver", pending |-> FALSE,
            known |-> FALSE, rows |-> BlankScreen, seq |-> 0, needs |-> FALSE,
            lines |-> <<>>, at |-> 0]
Gone == [IdleApp EXCEPT !.alive = FALSE]

\* ServerSession::attach with the mode the reader chose last.
AttachRequest(mode) == [type |-> "Attach", mode |-> mode]

\* A Detach has no mode; the record has one for its type's sake.
DetachRequest == [type |-> "Detach", mode |-> "TakeOver"]

\* run_client's switch_to: choosing the session already on screen in the mode
\* already held is nothing.
UserAttach(c, mode) ==
    /\ app[c].alive /\ conn[c].open /\ acts < MaxActs
    /\ ~(app[c].attached /\ app[c].mode = mode)
    /\ app' = [app EXCEPT ![c].mode = mode, ![c].pending = FALSE]
    /\ requests' = [requests EXCEPT ![c] = Append(@, AttachRequest(mode))]
    /\ acts' = acts + 1
    /\ UNCHANGED <<drawn, term, differ, conn>>

\* The reader detaches or quits, which is the same: the process says Detach and
\* ends without waiting for the answer.
Quit(c) ==
    /\ app[c].alive /\ acts < MaxActs
    /\ app' = [app EXCEPT ![c] = Gone]
    /\ requests' = [requests EXCEPT ![c] = Append(@, DetachRequest)]
    /\ acts' = acts + 1
    /\ UNCHANGED <<drawn, term, differ, conn>>

\* The process ends and nothing says so but its socket.
Crash(c) ==
    /\ app[c].alive /\ acts < MaxActs
    /\ app' = [app EXCEPT ![c] = Gone]
    /\ acts' = acts + 1
    /\ UNCHANGED <<drawn, term, differ, conn, requests>>

\* The client meets end-of-stream after the last frame the server got out:
\* ServerSession::connection_lost.  A later connection of it is another number.
LoseConnection(c) ==
    /\ app[c].alive /\ ~conn[c].open /\ conn[c].wire = <<>>
    /\ app' = [app EXCEPT ![c] = Gone]
    /\ UNCHANGED <<drawn, term, differ, conn, requests, acts>>

\* Mutant of Adopted: the answer to a heal does not lift the guard on heals.
AdoptedStillPending(a, m) ==
    [a EXCEPT !.attached = TRUE, !.known = TRUE, !.rows = m.cells,
              !.lines = m.lines, !.seq = 0, !.needs = FALSE, !.at = m.at]

\* Mutant of Adopted: the mirror that was given a snapshot goes on wanting one.
AdoptedStillWanting(a, m) ==
    [a EXCEPT !.attached = TRUE, !.pending = FALSE, !.known = TRUE, !.rows = m.cells,
              !.lines = m.lines, !.seq = 0, !.at = m.at]

\* TerminalMirror::adopt, and what ServerSession does around it.
Adopted(a, m) ==
    [a EXCEPT !.attached = TRUE, !.pending = FALSE, !.known = TRUE, !.rows = m.cells,
              !.lines = m.lines, !.seq = 0, !.needs = FALSE, !.at = m.at]

\* TermOpened: TerminalMirror::open, a blank grid without history.
Opened(a, m) ==
    [a EXCEPT !.known = TRUE, !.rows = BlankScreen, !.lines = <<>>, !.seq = 0,
              !.needs = FALSE, !.at = m.at]

\* TerminalMirror::apply of the delta that is due ...
Applied(a, m) ==
    [a EXCEPT !.rows = [r \in Rows |-> IF r \in DOMAIN m.cells THEN m.cells[r] ELSE a.rows[r]],
              !.lines = @ \o m.lines, !.seq = m.seq, !.at = m.at]

\* The next frame the socket has for the client.
Arrived(c, type) ==
    /\ app[c].alive /\ Len(conn[c].wire) > conn[c].unsent
    /\ Head(conn[c].wire).type = type

Consume(c, a) ==
    /\ conn' = [conn EXCEPT ![c].wire = Tail(@)]
    /\ app' = [app EXCEPT ![c] = a]
    /\ UNCHANGED <<drawn, term, differ, requests, acts>>

Due(c) == Head(conn[c].wire).seq = app[c].seq + 1

ReceiveAttached(c) ==
    Arrived(c, "Attached") /\ Consume(c, Adopted(app[c], Head(conn[c].wire)))
ReceiveOpened(c) ==
    Arrived(c, "Opened") /\ Consume(c, Opened(app[c], Head(conn[c].wire)))
ReceiveDetached(c) ==
    Arrived(c, "Detached") /\ Consume(c, [app[c] EXCEPT !.attached = FALSE])
ReceiveDelta(c) ==
    Arrived(c, "Delta") /\ Due(c) /\ Consume(c, Applied(app[c], Head(conn[c].wire)))

\* ... and of one that is not: the mirror wants a snapshot and keeps what it shows.
ReceiveGap(c) ==
    Arrived(c, "Delta") /\ ~Due(c) /\ Consume(c, [app[c] EXCEPT !.needs = TRUE])

\* heal_if_needed, after the frames of a pass, and request_snapshot: another
\* Attach in the mode held, unless one is under way.  Whether the client is
\* still attached is not asked.
WantsSnapshot(a) == a.alive /\ a.needs /\ ~a.pending

Heal(c) ==
    /\ WantsSnapshot(app[c])
    /\ app' = [app EXCEPT ![c].pending = TRUE]
    /\ requests' = [requests EXCEPT ![c] = Append(@, AttachRequest(app[c].mode))]
    /\ UNCHANGED <<drawn, term, differ, conn, acts>>

Receive(c) ==
    \/ ReceiveAttached(c)
    \/ ReceiveOpened(c)
    \/ ReceiveDetached(c)
    \/ ReceiveDelta(c)
    \/ ReceiveGap(c)

-----------------------------------------------------------------------------
\* A server with one session, whose terminal has just been opened and never
\* flushed, and connections that are greeted and attached to nothing.
Init ==
    /\ drawn = <<BlankScreen>>
    /\ term = [live |-> TRUE, sync |-> FALSE, damage |-> Rows, pushed |-> 0, total |-> 0]
    /\ differ = FreshDiffer
    /\ conn = [c \in Clients |-> [open |-> TRUE, attached |-> FALSE, dirty |-> FALSE,
                                  draining |-> FALSE, wire |-> <<>>, unsent |-> 0]]
    /\ app = [c \in Clients |-> IdleApp]
    /\ requests = [c \in Clients |-> <<>>]
    /\ acts = 0

ClientStep(c) ==
    \/ \E mode \in Modes : UserAttach(c, mode)
    \/ Quit(c)
    \/ Crash(c)
    \/ LoseConnection(c)
    \/ Receive(c)
    \/ Heal(c)

ServerStep(c) == HandleAttach(c) \/ HandleDetach(c) \/ Flush(c) \/ HearHangup(c)

Next ==
    \/ Output \/ Synchronize \/ Exit \/ Respawn
    \/ Tick
    \/ \E c \in Clients : ServerStep(c) \/ ClientStep(c)

Spec == Init /\ [][Next]_vars

\* The server's loop runs its tick and serves every connection; a live client
\* reads its socket, heals after each pass and notices a lost connection.  The
\* program, the readers and the process's end are under no obligation.
Fairness ==
    /\ WF_vars(Tick)
    /\ \A c \in Clients : /\ WF_vars(HandleAttach(c)) /\ WF_vars(HandleDetach(c))
                          /\ WF_vars(Flush(c)) /\ WF_vars(HearHangup(c))
                          /\ WF_vars(Receive(c)) /\ WF_vars(Heal(c))
                          /\ WF_vars(LoseConnection(c))

FairSpec == Spec /\ Fairness

(***************************************************************************)
(* Properties.                                                             *)
(***************************************************************************)
Terms == [live : BOOLEAN, sync : BOOLEAN, damage : SUBSET Rows, pushed : Nat, total : Nat]
Differs == [belief : Screens \union {NoBelief}, seq : Nat, diverged : BOOLEAN, needs : BOOLEAN]
Conns == [open : BOOLEAN, attached : BOOLEAN, dirty : BOOLEAN, draining : BOOLEAN,
          wire : Seq(Messages), unsent : Nat]
Apps == [alive : BOOLEAN, attached : BOOLEAN, mode : {"TakeOver", "Join", "Watch"},
         pending : BOOLEAN, known : BOOLEAN, rows : Screens, seq : Nat, needs : BOOLEAN,
         lines : Seq(Nat), at : Nat]

\* The types of the variables; no queue holds fewer frames than are unsent, and
\* no more lines are to be pushed than there are.
TypeOK ==
    /\ drawn \in Seq(Screens) /\ drawn # <<>>
    /\ term \in Terms /\ term.pushed <= term.total
    /\ differ \in Differs
    /\ conn \in [Clients -> Conns] /\ \A c \in Clients : conn[c].unsent <= Len(conn[c].wire)
    /\ app \in [Clients -> Apps]
    /\ requests \in [Clients -> Seq(Requests)]
    /\ acts \in Nat

\* A mirror never shows a screen no program ever drew: what it holds is, part
\* for part, one screen the terminal really had.
MirrorDrawn ==
    \A c \in Clients : app[c].known =>
        /\ app[c].at \in 1..Len(drawn)
        /\ app[c].rows = drawn[app[c].at]

\* With one reader at a time the stream of deltas has no gap a client could
\* meet, whatever was skipped, dropped or taken over in between.
NoGap == \A c \in Clients : ~app[c].needs

\* A reader the server takes for clean, and who has handled all that was sent,
\* holds the terminal's screen as soon as no damage is left to flush.
CleanIsCurrent ==
    \A c \in Clients :
        (conn[c].attached /\ ~conn[c].dirty /\ app[c].alive /\ conn[c].wire = <<>>
           /\ term.damage = {})
        => app[c].rows = Screen

Held(c) == {app[c].lines[i] : i \in DOMAIN app[c].lines}

\* ... and every line that went into history, except those the next tick will
\* push and those of a flood the differ knows it has left out.
CleanHasHistory ==
    \A c \in Clients :
        (conn[c].attached /\ ~conn[c].dirty /\ app[c].alive /\ conn[c].wire = <<>>
           /\ ~differ.diverged)
        => 1..(term.total - term.pushed) \subseteq Held(c)

\* `pushed` are the lines that entered the history since the last state sent
\* (grid_delta.hpp): no line is pushed to a mirror that holds it.
NoLineTwice ==
    \A c \in Clients : \A i, j \in DOMAIN app[c].lines :
        i < j => app[c].lines[i] < app[c].lines[j]

\* The guard on heals never outlives its request: a client that will not ask
\* again has an Attach or its answer under way, or a connection about to end.
HealUnderWay ==
    \A c \in Clients : (app[c].alive /\ app[c].pending) =>
        \/ ~conn[c].open
        \/ \E i \in DOMAIN requests[c] : requests[c][i].type = "Attach"
        \/ \E i \in DOMAIN conn[c].wire : conn[c].wire[i].type = "Attached"

\* Reading c stays attached and the program keeps no frame open.
Watching(c) == app[c].alive /\ conn[c].attached /\ ~term.sync

\* A reader who stays ends up with the screen the program left.
Converges == \A c \in Clients : <>[]Watching(c) => <>[](app[c].rows = Screen)

\* A mirror that lost its place is repaired, or its client ends.
GapsHeal == \A c \in Clients : app[c].needs ~> (~app[c].needs)

\* The history a flood outran is "reconciled with one snapshot when the flood
\* stops" (diff_engine.hpp): a reader who stays ends up with every line.
FloodReconciled ==
    \A c \in Clients : <>[]Watching(c) => <>[](1..term.total \subseteq Held(c))

\* What readers are shown, in the terms of the module Replay.
Shown == [c \in Clients |-> IF app[c].known THEN app[c].rows ELSE <<>>]
ShownAt == [c \in Clients |-> IF app[c].known THEN app[c].at ELSE 0]
Promise == INSTANCE Replay WITH Nothing <- <<>>, shown <- Shown, at <- ShownAt

\* Every reader is shown screens the program really drew, in the order it drew
\* them: possibly skipping some, never going back.
ReplaysTheProgram == Promise!Spec
=============================================================================
