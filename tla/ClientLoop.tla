----------------------------- MODULE ClientLoop -----------------------------
(***************************************************************************)
(* What a client is looking at: the loop of run_client.cpp, from the first *)
(* list of sessions to the picker after the last one ended, with the       *)
(* mirrors it holds, the windows over them and the connection under them,  *)
(* against what the server knows of sessions, terminals and readers.       *)
(* Sessions and terminals end by themselves here, whoever ended them; what *)
(* terminals show is ScreenSync's, and watching is ReaderModes'.           *)
(* A request is handled as it is sent: whatever the server does between    *)
(* the two it may as well have done before, with the news of it waiting    *)
(* for a client that has not got round to it.                              *)
(***************************************************************************)
EXTENDS Integers, Sequences, FiniteSets, SequencesExt

CONSTANTS
    Clients,        \* numbered in the order they are started
    MaxActs,        \* bound: how many things happen that nobody is obliged to
    MaxUnheard      \* bound: how far a client is behind when the server says more by itself

ASSUME ClientAssumption == Clients \subseteq Nat \ {0} /\ IsFiniteSet(Clients)
ASSUME BoundAssumption == MaxActs \in Nat /\ MaxUnheard \in Nat \ {0}

VARIABLES
    server,         \* the server there is, or the last there was
    client,         \* what each client holds
    conn,           \* each client's connection: none, up, or cut and not heard of yet
    down,           \* answers and news on each connection, in order
    acts

vars == <<server, client, conn, down, acts>>

None == 0
Modes == {"TakeOver", "Join"}

Row == [id : Nat, readers : Nat]
\* rows is of a list of sessions, terms and id of a snapshot or of one terminal.
Answer(type, id, terms, rows) == [type |-> type, id |-> id, terms |-> terms, rows |-> rows]

Session == [terms : SUBSET Nat, by : Clients, typed : BOOLEAN]
\* A server that has just been started: numbers start over with it. links are its
\* clients in the order they connected.
FreshServer == [up |-> TRUE, sessions |-> <<>>, made |-> 0, opened |-> 0,
                links |-> <<>>, reads |-> [c \in Clients |-> None], dirty |-> FALSE]

\* decided, waiting and wants are the loop's startup_decided,
\* waiting_for_a_new_session and show_picker_when_the_list_arrives; asked is
\* asked_for_the_first_terminal; choice and offered are what the last picker
\* built left for the answer to any; here is the session the window layer is in.
Picker == [rows : Nat, asks : BOOLEAN]
Client == [running : BOOLEAN, decided : BOOLEAN, named : Nat, waiting : BOOLEAN, wants : BOOLEAN,
           asked : BOOLEAN, pickers : Seq(Picker), choice : Seq(Nat), offered : BOOLEAN,
           session : Nat, here : Nat, attached : BOOLEAN, mode : Modes,
           mirrors : SUBSET Nat, announced : SUBSET Nat, windows : SUBSET Nat]

\* The state's types; and no window outlives the mirror its view borrows
\* (stop_showing_this_server: windows first, then mirrors).
TypeOK ==
    /\ server.up \in BOOLEAN /\ server.dirty \in BOOLEAN
    /\ server.links \in Seq(Clients) /\ server.made \in Nat /\ server.opened \in Nat
    /\ DOMAIN server.sessions \subseteq 1..server.made
    /\ \A s \in DOMAIN server.sessions : server.sessions[s] \in Session
    /\ server.reads \in [Clients -> DOMAIN server.sessions \union {None}]
    /\ client \in [Clients -> Client]
    /\ conn \in [Clients -> {"none", "up", "cut"}]
    /\ acts \in 0..MaxActs
    /\ \A c \in Clients : client[c].windows \subseteq client[c].mirrors

Init ==
    /\ server = [FreshServer EXCEPT !.up = FALSE]
    /\ client = [c \in Clients |->
           [running |-> FALSE, decided |-> FALSE, named |-> None, waiting |-> FALSE,
            wants |-> FALSE, asked |-> FALSE, pickers |-> <<>>, choice |-> <<>>,
            offered |-> FALSE, session |-> None, here |-> None, attached |-> FALSE, mode |-> "TakeOver",
            mirrors |-> {}, announced |-> {}, windows |-> {}]]
    /\ conn = [c \in Clients |-> "none"]
    /\ down = [c \in Clients |-> <<>>]
    /\ acts = 0

Quiet == \A c \in Clients : Len(down[c]) < MaxUnheard
Act == acts < MaxActs /\ acts' = acts + 1

----------------------------------------------------------------------------
(* The server, as far as a client can tell: its handlers, as operators on  *)
(* the whole of the state.                                                 *)

Typed == 1      \* the name a reader types for a session

Now == [server |-> server, client |-> client, conn |-> conn, down |-> down]
Become(w) == /\ server' = w.server /\ client' = w.client /\ conn' = w.conn
             /\ down' = w.down

ReadersIn(w, s) == {c \in Clients : w.server.reads[c] = s}
Send(w, C, answer) ==
    [w EXCEPT !.down = [c \in Clients |-> IF c \in C /\ w.conn[c] = "up"
                                            THEN Append(w.down[c], answer) ELSE w.down[c]]]
Refuse(w, c) == Send(w, {c}, Answer("Error", None, {}, <<>>))
Listing(w) ==
    LET row(s) == [id |-> s, readers |-> Cardinality(ReadersIn(w, s))]
        rows[n \in 0..w.server.made] ==
            IF n = 0 THEN <<>>
            ELSE IF n \in DOMAIN w.server.sessions THEN Append(rows[n - 1], row(n)) ELSE rows[n - 1]
    IN Answer("SessionList", None, {}, rows[w.server.made])
Broadcast(w) == Send([w EXCEPT !.server.dirty = FALSE], Clients, Listing(w))

\* A request to a connection that has gone is lost.
ListSessions(w, c) == Send(w, {c}, Listing(w))

\* A name somebody typed may be taken.
NewSession(w, c, name) ==
    LET s == w.server.made + 1
        taken == name # None /\ \E z \in DOMAIN w.server.sessions : w.server.sessions[z].typed
        made == [w EXCEPT !.server.made = s,
                     !.server.sessions = [z \in DOMAIN @ \union {s} |->
                         IF z = s THEN [terms |-> {}, by |-> c, typed |-> name # None] ELSE @[z]]]
    IN IF w.conn[c] # "up" THEN w ELSE IF taken THEN Refuse(w, c) ELSE Broadcast(made)

\* Taking over detaches the first of those who read the session, unless that is
\* the reader itself, and no other.
FirstIn(w, s) ==
    LET readers == SelectSeq(w.server.links, LAMBDA d : w.server.reads[d] = s)
    IN IF readers = <<>> THEN {} ELSE {Head(readers)}
Evicted(w, c, s, mode) == IF mode = "Join" THEN {} ELSE FirstIn(w, s) \ {c}
Snapshot(w, s) == Answer("Attached", s, w.server.sessions[s].terms, <<>>)
Gone == Answer("Detached", None, {}, <<>>)

Attach(w, c, s, mode) ==
    LET gone == Evicted(w, c, s, mode)
        told == [w EXCEPT !.server.dirty = TRUE,
                     !.server.reads = [d \in Clients |-> IF d = c THEN s
                                                         ELSE IF d \in gone THEN None ELSE @[d]]]
    IN IF w.conn[c] # "up" THEN w
       ELSE IF s \notin DOMAIN w.server.sessions THEN Refuse(w, c)
       ELSE Send(Send(told, gone, Gone), {c}, Snapshot(w, s))

NewTerminal(w, c) ==
    LET s == w.server.reads[c]
        t == w.server.opened + 1
        opened == [w EXCEPT !.server.opened = t, !.server.sessions[s].terms = @ \union {t}]
    IN IF w.conn[c] # "up" THEN w
       ELSE IF s = None THEN Refuse(w, c)
       ELSE Send(opened, ReadersIn(w, s), Answer("TermOpened", t, {t}, <<>>))

----------------------------------------------------------------------------
(* Pieces of what a client does, as operators on the whole of the state.   *)

\* connection_lost: nothing a client held survives its server.
Lost(x) == [x EXCEPT !.session = None, !.here = None, !.attached = FALSE,
                     !.windows = {}, !.mirrors = {}, !.announced = {}]

\* Mutant of Forgotten: the session is not told that its windows went (C4).
ForgottenUntold(x) == [x EXCEPT !.windows = {}]
\* forget_terminals and windows_forgotten: the mirrors are kept.
Forgotten(x) == [x EXCEPT !.windows = {}, !.announced = {}]

\* ensure_connected: to the server there is, or to one started for it.
Connected(w, c) ==
    IF w.conn[c] # "none" THEN w
    ELSE LET found == IF w.server.up THEN w.server ELSE FreshServer
         IN [w EXCEPT !.server = [found EXCEPT !.links = Append(@, c)], !.conn[c] = "up",
                      !.down[c] = <<>>, !.client[c] = Lost(@)]

\* switch_to: the row already held, in the mode it is held in, is nothing to do.
SwitchedTo(w, c, s, mode) ==
    LET held == w.client[c].attached /\ w.client[c].session = s /\ w.client[c].mode = mode
        linked == Connected([w EXCEPT !.client[c].mode = mode], c)
        leaving == [linked EXCEPT !.client[c] = [Forgotten(@) EXCEPT !.session = s]]
    IN IF held THEN w ELSE Attach(leaving, c, s, mode)

----------------------------------------------------------------------------
(* The loop: what has arrived, one message a step. *)

Heard(c, type) == down[c] # <<>> /\ Head(down[c]).type = type
Taken(c) == [Now EXCEPT !.down[c] = Tail(@)]
Rows(c) == Head(down[c]).rows
Ids(rows) == {rows[i].id : i \in DOMAIN rows}
NewestOf(rows) == CHOOSE s \in Ids(rows) : \A z \in Ids(rows) : z <= s

\* The session this client asked for, it believes, and goes to it.
HearOfNew(c) ==
    /\ Heard(c, "SessionList") /\ client[c].waiting /\ Rows(c) # <<>>
    /\ LET w == [Taken(c) EXCEPT !.client[c].waiting = FALSE, !.client[c].decided = TRUE]
       IN Become(SwitchedTo(w, c, NewestOf(Rows(c)), "TakeOver"))
    /\ UNCHANGED acts

\* The first list is the startup decision: a session named on the command line,
\* or the only one, if nobody reads it.
Obvious(c) ==
    IF client[c].named \in Ids(Rows(c)) THEN {client[c].named}
    ELSE IF Len(Rows(c)) = 1 /\ Rows(c)[1].readers = 0 THEN Ids(Rows(c)) ELSE {}
Starting(c) == Heard(c, "SessionList") /\ ~client[c].decided

StartInSession(c) ==
    /\ Starting(c) /\ ~client[c].waiting
    /\ \E s \in Obvious(c) :
          Become(SwitchedTo([Taken(c) EXCEPT !.client[c].decided = TRUE], c, s, "TakeOver"))
    /\ UNCHANGED acts

StartWithNew(c) ==
    /\ Starting(c) /\ Rows(c) = <<>>
    /\ Become(NewSession([Taken(c) EXCEPT !.client[c].waiting = TRUE], c, None))
    /\ UNCHANGED acts

\* A picker is modal: it goes over whatever is open, another picker too.
Picking(w, c, rows) ==
    LET others(row) == row.readers - (IF row.id = w.client[c].here THEN 1 ELSE 0)
        company == \E i \in DOMAIN rows : others(rows[i]) > 0
        ids == [i \in DOMAIN rows |-> rows[i].id]
        over(x) == [x EXCEPT !.wants = FALSE,
                             !.pickers = Append(@, [rows |-> Len(rows), asks |-> company]),
                             !.choice = IF rows = <<>> THEN @ ELSE ids, !.offered = company]
    IN [w EXCEPT !.client[c] = over(@)]

StartChoosing(c) ==
    /\ Starting(c) /\ ~client[c].waiting /\ Rows(c) # <<>> /\ Obvious(c) = {}
    /\ Become(Picking([Taken(c) EXCEPT !.client[c].decided = TRUE], c, Rows(c)))
    /\ UNCHANGED acts

\* Every list after that is asked for by the reader, or only keeps names current.
Listed(c) ==
    /\ Heard(c, "SessionList") /\ client[c].decided /\ ~(client[c].waiting /\ Rows(c) # <<>>)
    /\ Become(IF client[c].wants THEN Picking(Taken(c), c, Rows(c)) ELSE Taken(c))
    /\ UNCHANGED acts

\* on_terminal_opened and open_terminal: a window over each of the mirrors.
Opened(x, terms) == [x EXCEPT !.mirrors = @ \union terms, !.announced = @ \union terms,
                              !.windows = @ \union terms]

\* on_attached: the window layer is in the session, and asks for its name.
Told(w, c, s) ==
    ListSessions([w EXCEPT !.client[c].here = s, !.client[c].asked = FALSE], c)

\* A snapshot: mirrors of what it has and of nothing else, and a window for each
\* that the window layer is not showing.
HearAttached(c) ==
    /\ Heard(c, "Attached")
    /\ LET terms == Head(down[c]).terms
           shows(x) == [Opened(x, terms \ x.announced) EXCEPT
                            !.attached = TRUE, !.session = Head(down[c]).id,
                            !.windows = @ \intersect terms,
                            !.mirrors = terms, !.announced = terms]
       IN Become(Told([Taken(c) EXCEPT !.client[c] = shows(@)], c, Head(down[c]).id))
    /\ UNCHANGED acts

\* Taken over, or the session ended: nothing to show, and the picker is wanted.
HearDetached(c) ==
    /\ Heard(c, "Detached")
    /\ LET left(x) == [Forgotten(x) EXCEPT !.attached = FALSE, !.here = None, !.wants = TRUE]
       IN Become(ListSessions([Taken(c) EXCEPT !.client[c] = left(@)], c))
    /\ UNCHANGED acts

HearOpened(c) ==
    /\ Heard(c, "TermOpened")
    /\ Become([Taken(c) EXCEPT !.client[c] = Opened(@, Head(down[c]).terms \ @.mirrors)])
    /\ UNCHANGED acts

\* Mutant of Without: the mirror goes and the window does not.
WithoutMirror(x, terms) == [x EXCEPT !.mirrors = @ \ terms, !.announced = @ \ terms]
Without(x, terms) ==
    [x EXCEPT !.mirrors = @ \ terms, !.announced = @ \ terms, !.windows = @ \ terms]

HearClosed(c) ==
    /\ Heard(c, "TermClosed")
    /\ Become([Taken(c) EXCEPT !.client[c] = Without(@, Head(down[c]).terms)])
    /\ UNCHANGED acts

\* Put in front of the reader, and nothing else.
HearError(c) == Heard(c, "Error") /\ Become(Taken(c)) /\ UNCHANGED acts

\* An empty session gets a terminal, once the host has answered or had its time.
OpenFirst(c) ==
    /\ client[c].attached /\ ~client[c].asked
    /\ LET w == [Now EXCEPT !.client[c].asked = TRUE]
       IN Become(IF client[c].mirrors = {} THEN NewTerminal(w, c) ELSE w)
    /\ UNCHANGED acts

\* The end of a connection is heard after all that came before it.
HearEnd(c) ==
    /\ conn[c] = "cut" /\ down[c] = <<>>
    /\ Become([Now EXCEPT !.conn[c] = "none", !.client[c] = Lost(@)])
    /\ UNCHANGED acts

\* Mutant of Reconnect: connected, it waits for a list nobody asked for.
ReconnectOnly(c) ==
    /\ client[c].wants /\ conn[c] = "none"
    /\ Become(Connected(Now, c)) /\ UNCHANGED acts
\* A reader who was waiting for a list still is, connection or no connection.
Reconnect(c) ==
    /\ client[c].wants /\ conn[c] = "none"
    /\ Become(ListSessions(Connected(Now, c), c))
    /\ UNCHANGED acts

----------------------------------------------------------------------------
(* The reader. *)

\* `ckmux`, or `ckmux attach` with the name of a session there is.
Start(c) ==
    /\ ~client[c].running /\ \A d \in Clients : d < c => client[d].running
    /\ \E s \in DOMAIN server.sessions \union {None} :
          LET w == [Now EXCEPT !.client[c].running = TRUE, !.client[c].named = s]
          IN Become(ListSessions(Connected(w, c), c))
    /\ UNCHANGED acts

\* A modal picker is in the way of everything but itself. Bound: a reader does
\* nothing before the first list is answered.
Free(c) == client[c].decided /\ client[c].pickers = <<>>

ShowSessions(c) ==
    /\ Act /\ Free(c)
    /\ Become(ListSessions(Connected([Now EXCEPT !.client[c].wants = TRUE], c), c))

\* Nothing there to connect to, and nothing could be started.
ShowSessionsInVain(c) ==
    /\ Free(c) /\ conn[c] = "none" /\ Become([Now EXCEPT !.client[c].wants = TRUE])
    /\ UNCHANGED acts

CreateSession(c) ==
    /\ Act /\ Free(c)
    /\ Become(NewSession([Connected(Now, c) EXCEPT !.client[c].waiting = TRUE], c, Typed))

OpenTerminal(c) == Act /\ Free(c) /\ Become(NewTerminal(Now, c))

\* The row the reader chose is looked up among those of the last picker built.
\* With no picker open nothing reads what the last one left.
Answered(c) ==
    LET x == [client[c] EXCEPT !.pickers = Front(@)]
    IN [Now EXCEPT !.client[c] = IF x.pickers = <<>> THEN [x EXCEPT !.choice = <<>>, !.offered = FALSE]
                                 ELSE x]
PickSession(c, i, mode) ==
    /\ Act /\ client[c].pickers # <<>> /\ i <= Last(client[c].pickers).rows
    /\ mode = "TakeOver" \/ (client[c].offered /\ Last(client[c].pickers).asks)
    /\ Become(IF i \in DOMAIN client[c].choice
                THEN SwitchedTo(Answered(c), c, client[c].choice[i], mode) ELSE Answered(c))

Dismiss(c) == client[c].pickers # <<>> /\ Become(Answered(c)) /\ UNCHANGED acts

----------------------------------------------------------------------------
(* What the server does by itself. *)

\* The tick says that a reader count moved.
FlushReaderCounts ==
    /\ server.up /\ server.dirty /\ (\A c \in Clients : down[c] = <<>>) /\ Become(Broadcast(Now)) /\ UNCHANGED acts

\* The tick heals a reader that was slow, or into whose session a terminal moved.
Refresh(c) ==
    /\ Act /\ Quiet /\ server.reads[c] # None /\ Become(Send(Now, {c}, Snapshot(Now, server.reads[c])))

TerminalEnds(s, t) ==
    /\ Act /\ Quiet /\ t \in server.sessions[s].terms
    /\ LET w == [Now EXCEPT !.server.sessions[s].terms = @ \ {t}]
       IN Become(Broadcast(Send(w, ReadersIn(Now, s), Answer("TermClosed", t, {t}, <<>>))))

\* Killed, by whoever: its readers are detached, and the server ends with its
\* last session.
SessionEnds(s) ==
    /\ Act /\ Quiet
    /\ LET left == [z \in DOMAIN server.sessions \ {s} |-> server.sessions[z]]
           detached == Send(Now, ReadersIn(Now, s), Gone)
           w == Broadcast([detached EXCEPT
                    !.server.sessions = left,
                    !.server.reads = [c \in Clients |-> IF @[c] = s THEN None ELSE @[c]]])
           down_ == [w EXCEPT !.server.up = FALSE,
                              !.conn = [c \in Clients |-> IF @[c] = "up" THEN "cut" ELSE @[c]]]
       IN Become(IF DOMAIN left = {} THEN down_ ELSE w)

----------------------------------------------------------------------------
Receive(c) ==
    \/ HearOfNew(c) \/ StartInSession(c) \/ StartWithNew(c) \/ StartChoosing(c) \/ Listed(c)
    \/ HearAttached(c) \/ HearDetached(c) \/ HearOpened(c) \/ HearClosed(c) \/ HearError(c)
Read(c) ==
    \/ Start(c) \/ ShowSessions(c) \/ ShowSessionsInVain(c) \/ CreateSession(c)
    \/ OpenTerminal(c) \/ Dismiss(c)
    \/ \E i \in DOMAIN client[c].choice, mode \in Modes : PickSession(c, i, mode)

Next ==
    \/ \E c \in Clients : Receive(c) \/ OpenFirst(c) \/ HearEnd(c) \/ Reconnect(c)
                          \/ Read(c) \/ Refresh(c)
    \/ \E s \in DOMAIN server.sessions :
          SessionEnds(s) \/ \E t \in server.sessions[s].terms : TerminalEnds(s, t)
    \/ FlushReaderCounts

Spec == Init /\ [][Next]_vars

\* The loop goes on: it takes what has arrived, hears of the end, or connects again.
Fairness == \A c \in Clients : WF_vars(Receive(c) \/ HearEnd(c) \/ Reconnect(c))
FairSpec == Spec /\ Fairness

----------------------------------------------------------------------------
(* Properties. *)

Settled(c) == conn[c] = "up" /\ down[c] = <<>>

\* A reader looks at the terminals of the session it is in, one window each and
\* none of another's -- after a takeover, a switch away and back, a heal, and
\* terminals that open and end while an attach is on its way (C4). Where the
\* client and the server disagree about the session, an attach was refused.
ShowsItsSession ==
    \A c \in Clients : Settled(c) =>
        /\ client[c].attached <=> server.reads[c] # None
        /\ client[c].attached /\ client[c].session = server.reads[c] =>
              client[c].windows = server.sessions[server.reads[c]].terms

\* A reader whose session ended, or who asked what there is, gets the picker, if
\* a server has to be started for it (the retry at the end of the loop).
PickerComes == \A c \in Clients : client[c].wants ~> ~client[c].wants

\* What on_sessions says: the newest session is the one this client asked for.
NewestIsMine ==
    [][\A c \in Clients : HearOfNew(c) /\ conn[c] = "up" =>
          LET s == NewestOf(Rows(c))
          IN s \in DOMAIN server.sessions => server.sessions[s].by = c]_vars
=============================================================================
