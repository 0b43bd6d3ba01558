--------------------------- MODULE SessionLifecycle ---------------------------
(***************************************************************************)
(* Sessions, the terminals in them and how both end: the requests that     *)
(* open, move, close and kill, the pending kills and closes the tick       *)
(* advances, the children that end by themselves, and what readers,        *)
(* pickers and a waiting `ckmux kill` are told of it.                      *)
(*                                                                         *)
(* The server is one thread.  Its requests are handled in the phase        *)
(* "serve"; a tick goes through the other phases, one step for each turn   *)
(* of its loops, and nothing comes in between but the passing of time.     *)
(* Of a deadline it only matters whether it has passed.                    *)
(***************************************************************************)
EXTENDS Integers, FiniteSets

CONSTANTS
    Readers,            \* UI clients; each may attach, any may send a request
    Clis,               \* command-line clients, which only kill a session
    KillEmptySession,   \* [general] kill-empty-session
    OnExit,             \* [general] on-exit
    MaxTerminals,       \* [general] max-terminals
    SessionIds,         \* bound: the ids of all sessions ever, 1..n
    TermIds,            \* bound: the ids of all terminals ever, 1..n
    KillIds,            \* bound: one id for each KillSession, 1..n
    MaxActs             \* bound: requests, attaches and departures

ASSUME IdAssumption == SessionIds \subseteq Nat \ {0} /\ TermIds \subseteq Nat \ {0}
    /\ KillIds \subseteq Nat \ {0} /\ Readers \cap Clis = {}
ASSUME SettingsAssumption == KillEmptySession \in BOOLEAN /\ MaxTerminals \in Nat \ {0}
    /\ OnExit \in {"close", "hold", "hold-on-error"} /\ MaxActs \in Nat

VARIABLES
    sess,       \* sessions_: the terminals of each session there is
    term,       \* terminals_: the child of each terminal there is
    kills,      \* kills_, by the number of the request
    closes,     \* closes_, at most one for a terminal
    issued,     \* how many ids of sessions, terminals and kills were given
    reader,     \* each UI client: its session, what it was told of it, its picker's list
    cli,        \* each waiting `ckmux kill`
    listDirty,  \* session_list_dirty_
    running,    \* running_
    phase,      \* where the server's loop is
    todo,       \* the pending kills or closes this tick has yet to look at
    acts        \* for MaxActs

vars == <<sess, term, kills, closes, issued, reader, cli, listDirty, running, phase, todo, acts>>
tick == <<phase, todo>>
told == <<reader, cli, listDirty>>

NoSession == 0
Phases == {"serve", "kills", "closes", "counts", "notice", "down", "stopped"}

(***************************************************************************)
(* Types.                                                                  *)
(***************************************************************************)
\* told is a history field: the end of this child, not of one before it in the
\* same terminal, was announced.
Child == [live : BOOLEAN, ok : BOOLEAN, asked : BOOLEAN, killed : BOOLEAN,
          damage : BOOLEAN, announced : BOOLEAN, told : BOOLEAN]
PendingKill == [session : SessionIds, force : BOOLEAN, due : BOOLEAN,
                killed : BOOLEAN, killDue : BOOLEAN]
PendingClose == [force : BOOLEAN, due : BOOLEAN, killed : BOOLEAN, killDue : BOOLEAN]
Reader == [session : SessionIds \cup {NoSession}, known : SUBSET TermIds, dirty : BOOLEAN,
           list : SUBSET SessionIds]
Cli == [target : SessionIds \cup {NoSession}, waiting : BOOLEAN, gone : BOOLEAN]

\* Every variable has its type; a client that is not attached is owed nothing
\* (detach), or its snapshot would be asked for on every tick and never sent.
TypeOK ==
    /\ DOMAIN sess \subseteq SessionIds /\ sess \in [DOMAIN sess -> SUBSET TermIds]
    /\ DOMAIN term \subseteq TermIds /\ term \in [DOMAIN term -> Child]
    /\ DOMAIN kills \subseteq KillIds /\ kills \in [DOMAIN kills -> PendingKill]
    /\ DOMAIN closes \subseteq TermIds /\ closes \in [DOMAIN closes -> PendingClose]
    /\ issued \in [sessions : Nat, terms : Nat, kills : Nat]
    /\ reader \in [Readers -> Reader] /\ cli \in [Clis -> Cli]
    /\ \A c \in Readers : reader[c].session = NoSession => reader[c].known = {} /\ ~reader[c].dirty
    /\ listDirty \in BOOLEAN /\ running \in BOOLEAN
    /\ phase \in Phases /\ todo \subseteq KillIds \cup TermIds /\ acts \in 0..MaxActs

Put(f, x, v) == [y \in DOMAIN f \cup {x} |-> IF y = x THEN v ELSE f[y]]
Drop(f, S) == [y \in DOMAIN f \ S |-> f[y]]

Init ==
    /\ sess = [s \in {} |-> {}] /\ term = [t \in {} |-> {}]
    /\ kills = [k \in {} |-> {}] /\ closes = [t \in {} |-> {}]
    /\ issued = [sessions |-> 0, terms |-> 0, kills |-> 0]
    /\ reader = [c \in Readers |->
                    [session |-> NoSession, known |-> {}, dirty |-> FALSE, list |-> {}]]
    /\ cli = [c \in Clis |-> [target |-> NoSession, waiting |-> FALSE, gone |-> FALSE]]
    /\ listDirty = FALSE /\ running = TRUE
    /\ phase = "serve" /\ todo = {} /\ acts = 0

(***************************************************************************)
(* Parts of the handlers.                                                  *)
(***************************************************************************)
HasChild(t) == t \in DOMAIN term /\ term[t].live
Holds(s, t) == s \in DOMAIN sess /\ t \in sess[s]
Running(s) == {t \in sess[s] : HasChild(t)}

\* A child just launched; a launch may fail, and the terminal shows that.
Launched(works) == [live |-> works, ok |-> FALSE, asked |-> FALSE, killed |-> FALSE,
                    damage |-> ~works, announced |-> FALSE, told |-> FALSE]

\* Mutant of Relaunched: what was announced of the old child stays announced.
RelaunchedAnnounced(t, works) == [Launched(works) EXCEPT !.announced = term[t].announced]
\* Terminal::relaunch: nothing of the old child stays.
Relaunched(t, works) == Launched(works)

Asked(S) == [t \in DOMAIN term |->
    IF t \in S /\ term[t].live THEN [term[t] EXCEPT !.asked = TRUE] ELSE term[t]]
Killed(S) == [t \in DOMAIN term |->
    IF t \in S /\ term[t].live THEN [term[t] EXCEPT !.killed = TRUE] ELSE term[t]]

\* What every reader attached to s is told of terminal t.
Opened(s, t) == [c \in Readers |->
    IF reader[c].session = s THEN [reader[c] EXCEPT !.known = @ \cup {t}] ELSE reader[c]]
Closed(s, t) == [c \in Readers |->
    IF reader[c].session = s THEN [reader[c] EXCEPT !.known = @ \ {t}] ELSE reader[c]]
\* Mutant of Detached: the snapshot stays owed.
DetachedStillDirty(r) == [r EXCEPT !.session = NoSession, !.known = {}]
Detached(r) == [r EXCEPT !.session = NoSession, !.known = {}, !.dirty = FALSE]
Attached(r, s, terms) == [r EXCEPT !.session = s, !.known = terms, !.dirty = FALSE]
Evicted(readers, s) == [c \in Readers |->
    IF readers[c].session = s THEN Detached(readers[c]) ELSE readers[c]]

\* Mutant of Listing: the list is made before the session is erased from it.
ListingTooEarly(sessions) == DOMAIN sess \cup sessions
\* The sessions a list names.
Listing(sessions) == sessions

Heard(c, listed) == IF cli[c].waiting /\ cli[c].target \notin listed
                    THEN [cli[c] EXCEPT !.waiting = FALSE, !.gone = TRUE] ELSE cli[c]

\* broadcast_session_list, when sessions are what there will be and readers
\* what the readers will have been told besides.
Broadcast(sessions, readers) ==
    /\ reader' = [c \in Readers |-> [readers[c] EXCEPT !.list = Listing(sessions)]]
    /\ cli' = [c \in Clis |-> Heard(c, Listing(sessions))]
    /\ listDirty' = FALSE

\* forget_session stops a server that has no session left.
StillRunning(sessions) == running /\ sessions # {}

\* The session s, emptied, when its rule says that it goes.
Goes(s, left) == KillEmptySession /\ left[s] = {}

\* The list is broadcast with left as the sessions; s is forgotten if it goes.
BroadcastLess(s, left, readers) ==
    \/ /\ Goes(s, left)
       /\ sess' = Drop(left, {s})
       /\ Broadcast(DOMAIN left \ {s}, Evicted(readers, s))
       /\ running' = StillRunning(DOMAIN left \ {s})
    \/ /\ ~Goes(s, left)
       /\ sess' = left
       /\ Broadcast(DOMAIN left, readers)
       /\ UNCHANGED running

\* remove_terminal.
RemoveTerminal(t) ==
    /\ term' = Drop(term, {t})
    /\ \E home \in DOMAIN sess :
          /\ Holds(home, t)
          /\ BroadcastLess(home, [sess EXCEPT ![home] = @ \ {t}], Closed(home, t))

(***************************************************************************)
(* The requests, each handled between two ticks.                           *)
(***************************************************************************)
Request == phase = "serve" /\ acts < MaxActs /\ acts' = acts + 1 /\ UNCHANGED tick

\* NewSession, with a first terminal unless asked without; the terminal's
\* launch may fail.
NewSession ==
    /\ Request /\ issued.sessions + 1 \in SessionIds
    /\ \/ /\ sess' = Put(sess, issued.sessions + 1, {})
          /\ issued' = [issued EXCEPT !.sessions = @ + 1] /\ UNCHANGED term
       \/ /\ issued.terms + 1 \in TermIds
          /\ sess' = Put(sess, issued.sessions + 1, {issued.terms + 1})
          /\ \E works \in BOOLEAN : term' = Put(term, issued.terms + 1, Launched(works))
          /\ issued' = [issued EXCEPT !.sessions = @ + 1, !.terms = @ + 1]
    /\ Broadcast(DOMAIN sess \cup {issued.sessions + 1}, reader)
    /\ UNCHANGED <<kills, closes, running>>

\* What is left of the readers when c comes to s: Join and Watch leave everybody,
\* TakeOver detaches one who was there.
Remaining(c, s) == {reader} \cup
    {[reader EXCEPT ![d] = Detached(@)] : d \in {e \in Readers \ {c} : reader[e].session = s}}

\* attach, with the snapshot it sends.  With no session there is, the default
\* one is made.
Attach(c) ==
    /\ Request
    /\ \/ /\ DOMAIN sess = {} /\ issued.sessions + 1 \in SessionIds
          /\ sess' = Put(sess, issued.sessions + 1, {})
          /\ issued' = [issued EXCEPT !.sessions = @ + 1]
          /\ reader' = [reader EXCEPT ![c] = Attached(@, issued.sessions + 1, {})]
       \/ /\ \E s \in DOMAIN sess : \E others \in Remaining(c, s) :
                reader' = [others EXCEPT ![c] = Attached(@, s, sess[s])]
          /\ UNCHANGED <<sess, issued>>
    /\ listDirty' = TRUE
    /\ UNCHANGED <<term, kills, closes, cli, running>>

\* detach, or the drop of an attached connection, whose next one is a new
\* client with the same rights.
Leave(c) ==
    /\ Request /\ reader[c].session # NoSession
    /\ reader' = [reader EXCEPT ![c] = Detached(@)]
    /\ listDirty' = TRUE
    /\ UNCHANGED <<sess, term, kills, closes, issued, cli, running>>

\* NewTerminal, into the session of the client.
NewTerminal(c) ==
    /\ Request /\ issued.terms + 1 \in TermIds
    /\ \E s \in DOMAIN sess, works \in BOOLEAN :
          /\ s = reader[c].session
          /\ Cardinality(sess[s]) < MaxTerminals
          /\ sess' = [sess EXCEPT ![s] = @ \cup {issued.terms + 1}]
          /\ term' = Put(term, issued.terms + 1, Launched(works))
          /\ reader' = Opened(s, issued.terms + 1)
    /\ issued' = [issued EXCEPT !.terms = @ + 1]
    /\ UNCHANGED <<kills, closes, cli, listDirty, running>>

\* RespawnTerminal: refused while the child lives.
RespawnTerminal(t) ==
    /\ Request /\ t \in DOMAIN term /\ ~term[t].live
    /\ \E works \in BOOLEAN : term' = [term EXCEPT ![t] = Relaunched(t, works)]
    /\ \E s \in DOMAIN sess : Holds(s, t) /\ reader' = Opened(s, t)
    /\ UNCHANGED <<sess, kills, closes, issued, cli, listDirty, running>>

\* CloseTerminal: begin_close.  A second one replaces the terms of the first.
CloseTerminal(t, force) ==
    /\ Request /\ t \in DOMAIN term
    /\ term' = Asked({t})
    /\ closes' = Put(closes, t, [force |-> force, due |-> FALSE,
                                 killed |-> FALSE, killDue |-> FALSE])
    /\ UNCHANGED <<sess, kills, issued, told, running>>

\* KillTerminal: begin_kill_terminal, a close whose grace is over and whose
\* signal is out.
KillTerminal(t) ==
    /\ Request /\ t \in DOMAIN term
    /\ term' = Killed({t})
    /\ closes' = Put(closes, t, [force |-> TRUE, due |-> TRUE,
                                 killed |-> TRUE, killDue |-> FALSE])
    /\ UNCHANGED <<sess, kills, issued, told, running>>

\* begin_kill.  Every ask for a session is a pending kill of its own.
BeginKill(s, force) ==
    /\ Request /\ issued.kills + 1 \in KillIds
    /\ term' = Asked(sess[s])
    /\ kills' = Put(kills, issued.kills + 1, [session |-> s, force |-> force, due |-> FALSE,
                                              killed |-> FALSE, killDue |-> FALSE])
    /\ issued' = [issued EXCEPT !.kills = @ + 1]
    /\ UNCHANGED <<sess, closes, reader, listDirty, running>>

\* KillSession, from a reader and from `ckmux kill`, which forces and waits.
KillSession(s, force) == s \in DOMAIN sess /\ BeginKill(s, force) /\ UNCHANGED cli
CliKillSession(c, s) ==
    /\ s \in DOMAIN sess /\ cli[c].target = NoSession
    /\ BeginKill(s, TRUE)
    /\ cli' = [cli EXCEPT ![c] = [target |-> s, waiting |-> TRUE, gone |-> FALSE]]

\* Mutant of Leaving: the terminal stays in the session it moves from.
LeavingNothing(s, t) == sess[s]
Leaving(s, t) == sess[s] \ {t}

\* Mutant of NewsFor: the readers of the session moved to are not healed.
NewsForNobody(s, readers) == readers
\* A terminal its readers never saw has no baseline: they get a snapshot.
NewsFor(s, readers) == [c \in Readers |->
    IF readers[c].session = s THEN [readers[c] EXCEPT !.dirty = TRUE] ELSE readers[c]]

\* MoveTerminal, to another session or to a new one.  A close pending for the
\* terminal is off.
MoveTerminal(t) ==
    /\ Request
    /\ \E from \in DOMAIN sess, to \in SessionIds :
          /\ Holds(from, t) /\ from # to
          /\ \/ to \in DOMAIN sess /\ UNCHANGED issued
             \/ /\ to = issued.sessions + 1
                /\ issued' = [issued EXCEPT !.sessions = @ + 1]
          /\ LET arrived == IF to \in DOMAIN sess THEN sess[to] \cup {t} ELSE {t}
             IN BroadcastLess(from, Put([sess EXCEPT ![from] = Leaving(from, t)], to, arrived),
                              NewsFor(to, Closed(from, t)))
    /\ closes' = Drop(closes, {t})
    /\ UNCHANGED <<term, kills>>

KillServer ==
    /\ Request /\ running
    /\ running' = FALSE
    /\ UNCHANGED <<sess, term, kills, closes, issued, told>>

(***************************************************************************)
(* What happens by itself: children end, deadlines pass.                   *)
(***************************************************************************)
Exited(child, ok) == [child EXCEPT !.live = FALSE, !.ok = ok, !.damage = TRUE]

\* A drain finds that the child has exited, and with which status; it raises
\* the lifecycle damage.
ChildExits(t) ==
    /\ phase = "serve" /\ HasChild(t)
    /\ \E ok \in BOOLEAN : term' = [term EXCEPT ![t] = Exited(@, ok)]
    /\ UNCHANGED <<sess, kills, closes, issued, told, running, tick, acts>>

\* A deadline passes: the grace, or after the signal the wait for its effect.
Elapsed(p) == IF p.killed THEN [p EXCEPT !.due = TRUE, !.killDue = TRUE] ELSE [p EXCEPT !.due = TRUE]

KillElapses(k) ==
    /\ phase = "serve" /\ k \in DOMAIN kills /\ kills[k] # Elapsed(kills[k])
    /\ kills' = [kills EXCEPT ![k] = Elapsed(@)]
    /\ UNCHANGED <<sess, term, closes, issued, told, running, tick, acts>>

CloseElapses(t) ==
    /\ phase = "serve" /\ t \in DOMAIN closes /\ closes[t] # Elapsed(closes[t])
    /\ closes' = [closes EXCEPT ![t] = Elapsed(@)]
    /\ UNCHANGED <<sess, term, kills, issued, told, running, tick, acts>>

(***************************************************************************)
(* The tick.                                                               *)
(***************************************************************************)
Tick ==
    /\ phase = "serve"
    /\ phase' = "kills" /\ todo' = DOMAIN kills
    /\ UNCHANGED <<sess, term, kills, closes, issued, told, running, acts>>

\* The turn of an entry: they are looked at in the order they were asked for.
\* (Closes are taken in the order of their terminals; no two touch the same.)
Turn(name, x) ==
    /\ phase = name /\ x \in todo /\ \A y \in todo : x <= y
    /\ todo' = todo \ {x} /\ UNCHANGED <<phase, acts>>

\* What is to be done about a pending kill or close whose child lives.
Waits(p) == ~p.due \/ (p.force /\ p.killed /\ ~p.killDue)
Escalates(p) == p.due /\ p.force /\ ~p.killed

\* Mutant of Declined: an expired grace is enough to end what runs.
DeclinedNever(p) == FALSE
Declined(p) == p.due /\ ~p.force

\* Mutant of Escalated: that the signal is out is not noted.
EscalatedUnnoted(p) == p
Escalated(p) == [p EXCEPT !.killed = TRUE, !.killDue = FALSE]

\* advance_kills, one action for each way a turn can go.
KillFindsNoSession(k) ==
    /\ Turn("kills", k) /\ kills[k].session \notin DOMAIN sess
    /\ kills' = Drop(kills, {k})
    /\ UNCHANGED <<sess, term, closes, issued, told, running>>

KillWaits(k) ==
    /\ Turn("kills", k) /\ kills[k].session \in DOMAIN sess
    /\ Running(kills[k].session) # {} /\ Waits(kills[k])
    /\ UNCHANGED <<sess, term, kills, closes, issued, told, running>>

KillEscalates(k) ==
    /\ Turn("kills", k) /\ kills[k].session \in DOMAIN sess
    /\ Running(kills[k].session) # {} /\ Escalates(kills[k])
    /\ term' = Killed(sess[kills[k].session])
    /\ kills' = [kills EXCEPT ![k] = Escalated(@)]
    /\ UNCHANGED <<sess, closes, issued, told, running>>

KillDeclined(k) ==
    /\ Turn("kills", k) /\ kills[k].session \in DOMAIN sess
    /\ Running(kills[k].session) # {} /\ Declined(kills[k])
    /\ kills' = Drop(kills, {k})
    /\ Broadcast(DOMAIN sess, reader)
    /\ UNCHANGED <<sess, term, closes, issued, running>>

\* Nothing runs any more, or it was killed and given its time: the terminals
\* are closed and the session is forgotten.
KillEnds(k) ==
    /\ Turn("kills", k)
    /\ LET s == kills[k].session IN
          /\ s \in DOMAIN sess
          /\ Running(s) = {} \/ ~(Waits(kills[k]) \/ Escalates(kills[k]) \/ Declined(kills[k]))
          /\ term' = Drop(term, sess[s])
          /\ kills' = Drop(kills, {k})
          /\ sess' = Drop(sess, {s})
          /\ Broadcast(DOMAIN sess \ {s}, Evicted(reader, s))
          /\ running' = StillRunning(DOMAIN sess \ {s})
    /\ UNCHANGED <<closes, issued>>

KillsDone ==
    /\ phase = "kills" /\ todo = {}
    /\ phase' = "closes" /\ todo' = DOMAIN closes
    /\ UNCHANGED <<sess, term, kills, closes, issued, told, running, acts>>

\* advance_closes, likewise.
CloseFindsNoTerminal(t) ==
    /\ Turn("closes", t) /\ t \notin DOMAIN term
    /\ closes' = Drop(closes, {t})
    /\ UNCHANGED <<sess, term, kills, issued, told, running>>

CloseWaits(t) ==
    /\ Turn("closes", t) /\ HasChild(t) /\ Waits(closes[t])
    /\ UNCHANGED <<sess, term, kills, closes, issued, told, running>>

CloseEscalates(t) ==
    /\ Turn("closes", t) /\ HasChild(t) /\ Escalates(closes[t])
    /\ term' = Killed({t})
    /\ closes' = [closes EXCEPT ![t] = Escalated(@)]
    /\ UNCHANGED <<sess, kills, issued, told, running>>

CloseDeclined(t) ==
    /\ Turn("closes", t) /\ HasChild(t) /\ Declined(closes[t])
    /\ closes' = Drop(closes, {t})
    /\ UNCHANGED <<sess, term, kills, issued, told, running>>

CloseEnds(t) ==
    /\ Turn("closes", t) /\ t \in DOMAIN term
    /\ ~term[t].live \/ ~(Waits(closes[t]) \/ Escalates(closes[t]) \/ Declined(closes[t]))
    /\ closes' = Drop(closes, {t})
    /\ RemoveTerminal(t)
    /\ UNCHANGED <<kills, issued>>

ClosesDone ==
    /\ phase = "closes" /\ todo = {}
    /\ phase' = "counts" /\ UNCHANGED todo
    /\ UNCHANGED <<sess, term, kills, closes, issued, told, running, acts>>

\* Mutant of EverybodyTold: the flag comes down whoever was skipped.
EverybodyToldAssumed(skipped) == TRUE
EverybodyTold(skipped) == skipped = {}

\* flush_reader_counts: a reader waiting for a snapshot, or with a full queue
\* (any may have), is told another time.
FlushReaderCounts ==
    /\ phase = "counts" /\ phase' = "notice"
    /\ \E busy \in SUBSET Readers :
          LET skipped == busy \cup {c \in Readers : reader[c].dirty}
          IN IF listDirty
             THEN /\ reader' = [c \in Readers |->
                        IF c \in skipped THEN reader[c]
                        ELSE [reader[c] EXCEPT !.list = DOMAIN sess]]
                  /\ listDirty' = ~EverybodyTold(skipped)
             ELSE UNCHANGED <<reader, listDirty>>
    /\ UNCHANGED <<sess, term, kills, closes, issued, cli, running, todo, acts>>

\* notice_exits: the children nobody asked to end, each once.
Unnoticed == {t \in DOMAIN term : term[t].damage /\ ~term[t].live /\ ~term[t].announced}
Held(t) == OnExit = "hold" \/ (OnExit = "hold-on-error" /\ ~term[t].ok)

NoticeExit(t) ==
    /\ phase = "notice" /\ t \in Unnoticed /\ \A u \in Unnoticed : t <= u
    /\ \/ /\ Held(t)
          /\ term' = [term EXCEPT ![t].announced = TRUE, ![t].told = TRUE]
          /\ UNCHANGED <<sess, told, running>>
       \/ /\ ~Held(t)
          /\ RemoveTerminal(t)
    /\ UNCHANGED <<kills, closes, issued, tick, acts>>

\* The rest of the tick, as far as it is modelled: the snapshots there is room
\* for, and the differ, which clears all damage.
EndTick ==
    /\ phase = "notice" /\ Unnoticed = {}
    /\ \E ready \in SUBSET {c \in Readers : reader[c].session # NoSession /\ reader[c].dirty} :
          reader' = [c \in Readers |->
              IF c \in ready THEN Attached(reader[c], reader[c].session, sess[reader[c].session])
              ELSE reader[c]]
    /\ term' = [t \in DOMAIN term |-> [term[t] EXCEPT !.damage = FALSE]]
    /\ phase' = IF running THEN "serve" ELSE "down"
    /\ UNCHANGED <<sess, kills, closes, issued, cli, listDirty, running, todo, acts>>

\* The end of run: close_all ends every child and forgets the terminals.  The
\* pass that stopped the server may have had its tick or not.
Shutdown ==
    /\ ~running /\ phase \in {"serve", "down"}
    /\ phase' = "stopped"
    /\ term' = Drop(term, DOMAIN term)
    /\ UNCHANGED <<sess, kills, closes, issued, told, running, todo, acts>>

Requests ==
    \/ NewSession \/ KillServer
    \/ \E c \in Readers : Attach(c) \/ Leave(c) \/ NewTerminal(c)
    \/ \E t \in DOMAIN term : RespawnTerminal(t) \/ KillTerminal(t) \/ MoveTerminal(t)
    \/ \E t \in DOMAIN term, force \in BOOLEAN : CloseTerminal(t, force)
    \/ \E s \in DOMAIN sess, force \in BOOLEAN : KillSession(s, force)
    \/ \E s \in DOMAIN sess, c \in Clis : CliKillSession(c, s)

TurnOfKill(k) == KillFindsNoSession(k) \/ KillWaits(k) \/ KillEscalates(k)
                 \/ KillDeclined(k) \/ KillEnds(k)
TurnOfClose(t) == CloseFindsNoTerminal(t) \/ CloseWaits(t) \/ CloseEscalates(t)
                  \/ CloseDeclined(t) \/ CloseEnds(t)

Ticking ==
    \/ Tick \/ KillsDone \/ ClosesDone \/ FlushReaderCounts \/ EndTick
    \/ \E k \in KillIds : TurnOfKill(k)
    \/ \E t \in TermIds : TurnOfClose(t) \/ NoticeExit(t)

Next ==
    \/ Requests \/ Ticking \/ Shutdown
    \/ \E t \in TermIds : ChildExits(t) \/ CloseElapses(t)
    \/ \E k \in KillIds : KillElapses(k)

Spec == Init /\ [][Next]_vars

\* The loop goes round, and time passes whatever the loop is doing.  Nothing
\* is assumed of children, readers or requests.
Fairness ==
    /\ WF_vars(Ticking \/ Shutdown)
    /\ \A k \in KillIds : SF_vars(KillElapses(k))
    /\ \A t \in TermIds : SF_vars(CloseElapses(t))

FairSpec == Spec /\ Fairness

(***************************************************************************)
(* Properties.                                                             *)
(***************************************************************************)
\* Every terminal is in exactly one session and every session's terminals
\* exist: none is left with nobody who could see or close it, none is in two
\* pickers, whatever moves, kills, closes and exits are under way.
EveryTerminalHasOneHome ==
    phase # "stopped" =>
        /\ \A t \in DOMAIN term : \E s \in DOMAIN sess : t \in sess[s]
        /\ \A s \in DOMAIN sess : sess[s] \subseteq DOMAIN term
        /\ \A s, r \in DOMAIN sess : s # r => sess[s] \cap sess[r] = {}

\* A server that had a session and has none is stopping (forget_session): it
\* does not stay on holding a socket and a lock for nothing.
EmptyServerStops == issued.sessions > 0 /\ DOMAIN sess = {} => ~running

\* A reader who is not waiting for a snapshot knows exactly the terminals of
\* its session: the TermOpened and TermClosed messages of every path agree
\* with the session's list.
ReadersKnowTheirTerminals ==
    \A c \in Readers :
        LET r == reader[c]
        IN r.session # NoSession =>
              /\ r.session \in DOMAIN sess
              /\ ~r.dirty => r.known = sess[r.session]

\* Pickers name exactly the sessions there are, unless a change is noted for
\* the next tick; no list is published from the middle of a change.
PickersListWhatIs ==
    \A c \in Readers : /\ reader[c].list \subseteq DOMAIN sess
                       /\ ~listDirty => reader[c].list = DOMAIN sess

\* `ckmux kill` hears of the end of its session in the step that ends it,
\* whoever ended it and on which path, and of nothing else as the end.
KillIsConfirmed ==
    \A c \in Clis :
        cli[c].target # NoSession => (cli[c].gone <=> cli[c].target \notin DOMAIN sess)

\* A program that runs is ended by the server only if somebody asked for it by
\* force (its close or the kill of its session) or the server stops.  A reader
\* who does not force keeps what declines to quit, whatever else is pending
\* for it, and a move to another session takes it out of a kill.
RunningIsKeptUnlessForced ==
    [][\A t \in DOMAIN term :
          term[t].live /\ t \notin DOMAIN term' =>
              \/ t \in DOMAIN closes /\ closes[t].force
              \/ \E k \in DOMAIN kills : kills[k].force /\ Holds(kills[k].session, t)
              \/ phase' = "stopped"]_vars

\* Every program of a session is asked to end before the session's kill ends
\* it by force.
EveryProgramIsAsked ==
    \A k \in DOMAIN kills :
        kills[k].killed /\ kills[k].session \in DOMAIN sess =>
            \A t \in Running(kills[k].session) :
                term[t].killed /\ t \notin DOMAIN closes => term[t].asked

\* A forced kill ends its session, programs that ignore every signal, new
\* terminals, moves and respawns notwithstanding.
ForcedKillEnds ==
    \A k \in KillIds :
        (k \in DOMAIN kills /\ kills[k].force) ~> (k \notin DOMAIN kills \/ phase = "stopped")

\* A close is decided: its terminal is removed, or kept and the close dropped.
ClosesAreDecided ==
    \A t \in TermIds : (t \in DOMAIN closes) ~> (t \notin DOMAIN closes \/ phase = "stopped")

\* A child that ended is noticed: the terminal goes, or its end is announced,
\* or it runs again.
ExitsAreNoticed ==
    \A t \in TermIds :
        (t \in DOMAIN term /\ ~term[t].live)
            ~> (t \in DOMAIN term => term[t].live \/ term[t].told)
=============================================================================
