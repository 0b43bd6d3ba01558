----------------------------- MODULE SessionNews -----------------------------
(***************************************************************************)
(* What the readers of a session are told about it: the marks and the name *)
(* of each terminal (TermMeta), where its window is and how large the      *)
(* desktop is (LayoutDelta), and the snapshot, which says all of it to one *)
(* reader.  The tick states each thing once, when it has changed.  The     *)
(* terminals, the sessions they are in and the settings are here as far as *)
(* that news is about them; a message counts as said when it is queued, as *)
(* a connection delivers in order.  kill-empty-session is off.             *)
(***************************************************************************)
EXTENDS Integers, FiniteSets

CONSTANTS
    Clients,        \* the connections, numbered in the order they were accepted
    Sessions,
    Terms,          \* terminal ids, each used once
    MaxTerminals,   \* [general] max-terminals
    Policy,         \* [general] desktop-size
    Sizes,          \* screen sizes; one number stands for both dimensions
    MaxActs         \* bound: how many things happen in one behaviour, and how
                    \* far a bell is counted

Policies == {"Fixed", "FitSmallest", "FitLatest"}
ASSUME NewsAssumption ==
    /\ Clients \subseteq Nat /\ IsFiniteSet(Clients)
    /\ Sessions \subseteq Nat \ {0} /\ Terms \subseteq Nat \ {0}
    /\ Policy \in Policies /\ Sizes \subseteq Nat \ {0}
    /\ MaxTerminals \in Nat \ {0} /\ MaxActs \in Nat

VARIABLES
    session,        \* what the server keeps of each session
    terminal,       \* what it keeps of each terminal
    reader,         \* what it keeps of each client
    shown,          \* what each client was told of each terminal, last
    alone,          \* history: nobody else was in since this reader's last snapshot
    rung,           \* history: how often the child of each terminal rang
    acts

vars == <<session, terminal, reader, shown, alone, rung, acts>>

None == 0
Damages == {"bell", "text"}     \* of a terminal's damage, what becomes a mark
Names == {"none", "given"}
Places == 0..2                  \* where a window is; 0 is "never placed"

Said == [bells : Nat, marks : SUBSET Damages, name : Names, place : Places]
Blank == [bells |-> 0, marks |-> {}, name |-> "none", place |-> 0]

Session == [terms : SUBSET Terms, desktop : Sizes \union {None}, last : Terms \union {None}]
Terminal == [said : Said, damage : SUBSET Damages, frame : BOOLEAN, resized : BOOLEAN,
             metaTold : BOOLEAN, nameTold : BOOLEAN, placeTold : BOOLEAN]
\* attached is the server's word and heard the client's, which learns later that
\* it was detached; the session stays with a client that has left it.
Reader == [session : Sessions \union {None}, attached : BOOLEAN, heard : BOOLEAN,
           watch : BOOLEAN, size : Sizes, world : Sizes \union {None}, dirty : BOOLEAN]

\* The state's types; a terminal is in one session at most.
TypeOK ==
    /\ session \in [Sessions -> Session] /\ terminal \in [Terms -> Terminal]
    /\ reader \in [Clients -> Reader] /\ shown \in [Clients -> [Terms -> Said]]
    /\ alone \in [Clients -> BOOLEAN] /\ rung \in [Terms -> Nat]
    /\ acts \in 0..MaxActs
    /\ \A s, z \in Sessions : s # z => session[s].terms \cap session[z].terms = {}

NewTerm == [said |-> Blank, damage |-> {}, frame |-> FALSE, resized |-> FALSE,
            metaTold |-> TRUE, nameTold |-> TRUE, placeTold |-> TRUE]
\* `ckmux new` made each session, with the terminal of its number to begin with.
Init ==
    /\ session = [s \in Sessions |-> [terms |-> {s} \intersect Terms, desktop |-> None,
                                     last |-> IF s \in Terms THEN s ELSE None]]
    /\ terminal = [t \in Terms |-> NewTerm]
    /\ \E size \in [Clients -> Sizes] :
          reader = [c \in Clients |-> [session |-> None, attached |-> FALSE, heard |-> FALSE,
                                       watch |-> FALSE, size |-> size[c], world |-> None,
                                       dirty |-> FALSE]]
    /\ shown = [c \in Clients |-> [t \in Terms |-> Blank]]
    /\ alone = [c \in Clients |-> FALSE] /\ rung = [t \in Terms |-> 0]
    /\ acts = 0

Readers(s) == {c \in Clients : reader[c].attached /\ reader[c].session = s}
First(R) == {c \in R : \A d \in R : c <= d}
Homes(t) == {s \in Sessions : t \in session[s].terms}
Home(t) == CHOOSE s \in Homes(t) : TRUE
Open == {t \in Terms : Homes(t) # {}}
Act == acts < MaxActs /\ acts' = acts + 1

----------------------------------------------------------------------------
(* The children. *)

Damaged(t, d) == terminal' = [terminal EXCEPT ![t].damage = @ \union {d}]

Ring(t) ==
    /\ Act /\ t \in Open /\ Damaged(t, "bell") /\ rung' = [rung EXCEPT ![t] = @ + 1]
    /\ UNCHANGED <<session, reader, shown, alone>>

Write(t) ==
    /\ Act /\ t \in Open /\ Damaged(t, "text")
    /\ UNCHANGED <<session, reader, shown, alone, rung>>

\* The child opens or closes a frame (synchronized output, DEC mode 2026).
Frame(t) ==
    /\ Act /\ t \in Open /\ terminal' = [terminal EXCEPT ![t].frame = ~@]
    /\ UNCHANGED <<session, reader, shown, alone, rung>>

----------------------------------------------------------------------------
(* Saying it: operators on the whole of what the server keeps, [session,    *)
(* terminal, reader, shown], which the handlers and the tick chain.         *)

Now == [session |-> session, terminal |-> terminal, reader |-> reader, shown |-> shown]
Become(w) == session' = w.session /\ terminal' = w.terminal /\ reader' = w.reader /\ shown' = w.shown

ReadBy(w, c) == IF w.reader[c].attached THEN w.session[w.reader[c].session].terms ELSE {}
ReadersIn(w, s) == {c \in Clients : w.reader[c].attached /\ w.reader[c].session = s}

\* Mutant of Snapshot: it counts as the announcement of everything there is.
SnapshotOfAll(w, R) ==
    [w EXCEPT
          !.shown = [c \in Clients |-> [t \in Terms |->
              IF c \in R /\ t \in ReadBy(w, c) THEN w.terminal[t].said ELSE @[c][t]]],
          !.terminal = [t \in Terms |-> IF R = {} THEN @[t] ELSE
              [@[t] EXCEPT !.metaTold = TRUE, !.nameTold = TRUE, !.placeTold = TRUE]],
          !.reader = [c \in Clients |-> IF c \notin R THEN @[c] ELSE
              [@[c] EXCEPT !.dirty = FALSE, !.world = w.session[w.reader[c].session].desktop]]]
\* A snapshot to each reader in R states every terminal of its session, and
\* counts as the announcement of all it states.
Snapshot(w, R) ==
    LET stated == UNION {ReadBy(w, c) : c \in R}
    IN [w EXCEPT
          !.shown = [c \in Clients |-> [t \in Terms |->
              IF c \in R /\ t \in ReadBy(w, c) THEN w.terminal[t].said ELSE @[c][t]]],
          !.terminal = [t \in Terms |-> IF t \notin stated THEN @[t] ELSE
              [@[t] EXCEPT !.metaTold = TRUE, !.nameTold = TRUE, !.placeTold = TRUE]],
          !.reader = [c \in Clients |-> IF c \notin R THEN @[c] ELSE
              [@[c] EXCEPT !.dirty = FALSE, !.world = w.session[w.reader[c].session].desktop]]]

\* Mutant of Layout: a desktop of another size is not news by itself.
LayoutOfMoves(w, force) ==
    LET moved(s) == \E t \in w.session[s].terms : ~w.terminal[t].placeTold
        S == {s \in Sessions : moved(s) /\ ReadersIn(w, s) # {}}
    IN [w EXCEPT
          !.terminal = [t \in Terms |-> IF \E s \in S : t \in w.session[s].terms
                                          THEN [@[t] EXCEPT !.placeTold = TRUE] ELSE @[t]],
          !.reader = [c \in Clients |-> IF \A s \in S : c \notin ReadersIn(w, s) THEN @[c] ELSE
              [@[c] EXCEPT !.world = w.session[w.reader[c].session].desktop]]]
\* The layout of a session where a window moved, or of the one forced, goes to
\* all its readers; with none it waits for the next snapshot.
Layout(w, force) ==
    LET moved(s) == \E t \in w.session[s].terms : ~w.terminal[t].placeTold
        S == {s \in Sessions : (s = force \/ moved(s)) /\ ReadersIn(w, s) # {}}
        stated == UNION {w.session[s].terms : s \in S}
    IN [w EXCEPT
          !.shown = [c \in Clients |-> [t \in Terms |->
              IF t \in stated \intersect ReadBy(w, c)
                THEN [@[c][t] EXCEPT !.place = w.terminal[t].said.place] ELSE @[c][t]]],
          !.terminal = [t \in Terms |->
              IF t \in stated THEN [@[t] EXCEPT !.placeTold = TRUE] ELSE @[t]],
          !.reader = [c \in Clients |-> IF \A s \in S : c \notin ReadersIn(w, s) THEN @[c] ELSE
              [@[c] EXCEPT !.world = w.session[w.reader[c].session].desktop]]]

\* What a tick makes of a terminal's damage: marks are for a reader who is
\* elsewhere, a bell is counted whoever looks, and a resize is not writing.
Marked(x, focused) ==
    LET d == x.damage \ (IF x.resized THEN {"text"} ELSE {})
        marks == IF focused THEN {} ELSE x.said.marks \union d
        bells == x.said.bells + (IF "bell" \in d THEN 1 ELSE 0)
    IN [x EXCEPT !.said.marks = marks, !.said.bells = bells, !.resized = FALSE,
                 !.metaTold = @ /\ marks = x.said.marks /\ bells = x.said.bells]

\* A frame the child holds open keeps its damage for the tick after it.
Flushed(x) == IF x.frame THEN x ELSE [x EXCEPT !.damage = {}]

\* The news of every terminal goes to the first reader of its session.
News(w) ==
    LET in(t) == {s \in Sessions : t \in w.session[s].terms}
        home(t) == CHOOSE s \in in(t) : TRUE
        marked(t) == Marked(w.terminal[t], w.session[home(t)].last = t)
        told(t) == {c \in First(ReadersIn(w, home(t))) : ~marked(t).metaTold \/ ~marked(t).nameTold}
    IN [w EXCEPT
          !.shown = [c \in Clients |-> [t \in Terms |->
              IF in(t) # {} /\ c \in told(t)
                THEN [marked(t).said EXCEPT !.place = w.shown[c][t].place] ELSE @[c][t]]],
          !.terminal = [t \in Terms |->
              IF in(t) = {} THEN @[t]
              ELSE IF told(t) = {} THEN Flushed(marked(t))
              ELSE Flushed([marked(t) EXCEPT !.metaTold = TRUE, !.nameTold = TRUE])]]

\* Who has been by itself since it was last sent everything, as R now was.
AloneSince(w, R) ==
    alone' = [c \in Clients |-> /\ c \in R \/ alone[c]
                                /\ w.reader[c].attached
                                /\ ReadersIn(w, w.reader[c].session) = {c}]

----------------------------------------------------------------------------
(* The readers. *)

Fit(s, arriving, others) ==
    LET now == session[s].desktop
    IN IF now = None \/ ~others THEN arriving
       ELSE CASE Policy = "Fixed" -> now
              [] Policy = "FitSmallest" -> IF now < arriving THEN now ELSE arriving
              [] Policy = "FitLatest" -> arriving

Evicted(c, s, mode) == IF mode = "TakeOver" THEN First(Readers(s)) \ {c} ELSE {}
Gone(x) == [x EXCEPT !.attached = FALSE, !.dirty = FALSE]

Attach(c, s, mode) ==
    /\ Act
    /\ LET desk == [Now EXCEPT !.session[s].desktop = Fit(s, reader[c].size, TRUE)]
           seated == [desk EXCEPT !.reader = [d \in Clients |->
               IF d = c THEN [@[c] EXCEPT !.session = s, !.attached = TRUE, !.heard = TRUE,
                                      !.watch = (mode = "Watch")]
               ELSE IF d \in Evicted(c, s, mode) THEN Gone(@[d]) ELSE @[d]]]
       IN Become(Snapshot(seated, {c})) /\ AloneSince(seated, {c})
    /\ UNCHANGED rung

Detach(c) ==
    /\ Act /\ reader[c].attached
    /\ LET w == [Now EXCEPT !.reader[c] = Gone(@)] IN Become(w) /\ AloneSince(w, {})
    /\ UNCHANGED rung

HearDetached(c) ==
    /\ reader[c].heard /\ ~reader[c].attached
    /\ reader' = [reader EXCEPT ![c].heard = FALSE]
    /\ UNCHANGED <<session, terminal, shown, alone, rung, acts>>

\* A frame took this reader's queue over its mark: what it misses is made good
\* by a snapshot, from the tick, once the queue has room.
FallBehind(c) ==
    /\ Act /\ reader[c].attached /\ reader' = [reader EXCEPT ![c].dirty = TRUE]
    /\ UNCHANGED <<session, terminal, shown, alone, rung>>

\* The desktop is now this large, and every reader of the session is told.
Reshaped(w, s, size) ==
    IF s = None \/ w.session[s].desktop = size THEN w
    ELSE Layout([w EXCEPT !.session[s].desktop = size], s)

\* The reader's own screen changed: the desktop of the session it is in, or was
\* in last, follows it when there is one reader at most, or as the policy has it.
\* A watcher may do this too; a client that is in none keeps it to itself.
ClientResize(c, size) ==
    /\ Act /\ reader[c].size # size
    /\ LET s == IF reader[c].heard THEN reader[c].session ELSE None
           wanted == IF s = None THEN size ELSE Fit(s, size, Cardinality(Readers(s)) > 1)
       IN Become(Reshaped([Now EXCEPT !.reader[c].size = size], s, wanted))
    /\ UNCHANGED <<alone, rung>>

\* A reader who may watch only asks in vain, and so does one who has left where
\* the request is about the session it is in.
Asks(c) == reader[c].heard /\ ~reader[c].watch
MayChange(c) == Asks(c) /\ reader[c].attached

SetDesktopSize(c, size) ==
    /\ Act /\ Asks(c) /\ Become(Reshaped(Now, reader[c].session, size))
    /\ UNCHANGED <<alone, rung>>

\* The reader moved a window, and has seen where it is.
SetLayout(c, t, place) ==
    /\ Act /\ MayChange(c) /\ t \in session[reader[c].session].terms
    /\ terminal[t].said.place # place
    /\ terminal' = [terminal EXCEPT ![t].said.place = place, ![t].placeTold = FALSE]
    /\ shown' = [shown EXCEPT ![c][t].place = place]
    /\ UNCHANGED <<session, reader, alone, rung>>

RenameTerminal(c, t, name) ==
    /\ Act /\ Asks(c) /\ t \in Open /\ terminal[t].said.name # name
    /\ terminal' = [terminal EXCEPT ![t].said.name = name, ![t].nameTold = FALSE]
    /\ UNCHANGED <<session, reader, shown, alone, rung>>

\* A window of this reader's is laid out: its grid is resized, every row anew.
MoveResize(c, t) ==
    /\ Act /\ Asks(c) /\ t \in Open
    /\ terminal' = [terminal EXCEPT ![t].damage = @ \union {"text"}, ![t].resized = TRUE]
    /\ UNCHANGED <<session, reader, shown, alone, rung>>

\* Input names any terminal the reader knows of, not only one of its session.
Input(c, t) ==
    /\ Act /\ Asks(c) /\ t \in Open /\ session[Home(t)].last # t
    /\ session' = [session EXCEPT ![Home(t)].last = t]
    /\ UNCHANGED <<terminal, reader, shown, alone, rung>>

NewTerminal(c, t) ==
    /\ Act /\ MayChange(c) /\ t \notin Open /\ terminal[t] = NewTerm
    /\ Cardinality(session[reader[c].session].terms) < MaxTerminals
    /\ session' = [session EXCEPT ![reader[c].session].terms = @ \union {t},
                                  ![reader[c].session].last = t]
    /\ UNCHANGED <<terminal, reader, shown, alone, rung>>

\* Mutant of MoveTerminal: the session it leaves keeps it.
MoveTerminalCopied(c, t, s) ==
    /\ Act /\ Asks(c) /\ t \in Open /\ Home(t) # s
    /\ session' = [session EXCEPT ![s].terms = @ \union {t}]
    /\ UNCHANGED <<terminal, reader, shown, alone, rung>>
\* The window loses its place, and the readers where it goes want a snapshot.
MoveTerminal(c, t, s) ==
    /\ Act /\ Asks(c) /\ t \in Open /\ Home(t) # s
    /\ session' = [session EXCEPT ![Home(t)].terms = @ \ {t}, ![s].terms = @ \union {t}]
    /\ terminal' = [terminal EXCEPT ![t].said.place = 0,
                                    ![t].placeTold = @ /\ terminal[t].said.place = 0]
    /\ reader' = [d \in Clients |->
           IF d \in Readers(s) THEN [reader[d] EXCEPT !.dirty = TRUE] ELSE reader[d]]
    /\ UNCHANGED <<shown, alone, rung>>

----------------------------------------------------------------------------
\* The tick heals the readers whose queues have room, says the news of each
\* terminal, says where windows moved, and clears the damage it has read.
Tick(R) ==
    LET healed == Snapshot(Now, R)
        ticked == Layout(News(healed), None)
    IN /\ R \subseteq {c \in Clients : reader[c].dirty}
       /\ \A t \in Terms : ticked.terminal[t].said.bells <= MaxActs
       /\ Become(ticked)
       /\ AloneSince(healed, R)
       /\ UNCHANGED <<rung, acts>>

ChildStep(t) == Ring(t) \/ Write(t) \/ Frame(t)
ReaderStep(c) ==
    \/ \E s \in Sessions, mode \in {"TakeOver", "Join", "Watch"} : Attach(c, s, mode)
    \/ Detach(c) \/ HearDetached(c) \/ FallBehind(c)
    \/ \E size \in Sizes : ClientResize(c, size) \/ SetDesktopSize(c, size)
    \/ \E t \in Terms :
          \/ \E place \in Places : SetLayout(c, t, place)
          \/ \E name \in Names : RenameTerminal(c, t, name)
          \/ MoveResize(c, t) \/ Input(c, t) \/ NewTerminal(c, t)
          \/ \E s \in Sessions : MoveTerminal(c, t, s)

Next ==
    \/ \E t \in Terms : ChildStep(t)
    \/ \E c \in Clients : ReaderStep(c)
    \/ \E R \in SUBSET Clients : Tick(R)

Spec == Init /\ [][Next]_vars

----------------------------------------------------------------------------
(* Properties. *)

\* However readers come, go, resize and fall behind, all of a session believe
\* in one desktop, the session's: a rect read in two coordinate spaces is two
\* places (ClientResize and SetDesktopSize announce it, the snapshot states it).
ReadersAgreeOnTheDesktop ==
    \A c \in Clients : reader[c].attached =>
        reader[c].world = session[reader[c].session].desktop

\* A reader who has had the session to itself since its last snapshot misses
\* nothing: what the server counts as announced is what it was told, and no
\* mark, name or place is lost between heal, news and layout.
SoleReaderMissesNothing ==
    \A c \in Clients : alone[c] /\ ~reader[c].dirty =>
        \A t \in session[reader[c].session].terms :
            LET x == terminal[t] told == shown[c][t]
            IN /\ x.metaTold => told.bells = x.said.bells /\ told.marks = x.said.marks
               /\ x.nameTold => told.name = x.said.name
               /\ x.placeTold => told.place = x.said.place

\* What the end of announce_layout says: a move counts as announced only once
\* every reader has been told of it.
MovesAreSaidToAll ==
    \A c \in Clients : reader[c].attached /\ ~reader[c].dirty =>
        \A t \in session[reader[c].session].terms :
            terminal[t].placeTold => shown[c][t].place = terminal[t].said.place

\* What ClientResize says of a client that is in no session: it sizes nothing.
LeftSizesNothing ==
    [][\A c \in Clients : ~reader[c].attached /\ reader'[c].size # reader[c].size
          => session' = session]_vars

\* What the comment on count_bell says: the count goes up when the child rings.
BellsAreRings == \A t \in Terms : terminal[t].said.bells <= rung[t]

\* docs/configuration.md, max-terminals: the most terminals one session may hold.
WithinTheLimit == \A s \in Sessions : Cardinality(session[s].terms) <= MaxTerminals
=============================================================================
