-------------------------- MODULE SessionNewsProofs --------------------------
(***************************************************************************)
(* Safety of SessionNews for every number of clients, sessions, terminals  *)
(* and sizes: readers agree on the desktop where its size is fixed, and a  *)
(* reader who is by itself misses nothing, whatever the policy.            *)
(***************************************************************************)
EXTENDS SessionNews, TLAPS

Worlds == [session : [Sessions -> Session], terminal : [Terms -> Terminal],
           reader : [Clients -> Reader], shown : [Clients -> [Terms -> Said]]]

\* Whoever is in a session is in one that has a size, and only such a reader is
\* owed a snapshot.
Seats(w) == \A c \in Clients :
    /\ w.reader[c].attached => /\ w.reader[c].session \in Sessions
                               /\ w.session[w.reader[c].session].desktop # None
    /\ w.reader[c].dirty => w.reader[c].attached
OneHome(w) ==
    \A s, z \in Sessions : s # z => w.session[s].terms \cap w.session[z].terms = {}
Homeless(w, t) == \A s \in Sessions : t \notin w.session[s].terms
\* Of a terminal that is not there yet nothing was said.
Fresh(w) == \A t \in Terms : Homeless(w, t) =>
    w.terminal[t] = NewTerm /\ \A c \in Clients : w.shown[c][t] = Blank
Sound(w) == w \in Worlds /\ Seats(w) /\ OneHome(w) /\ Fresh(w)

\* What counts as announced of the terminal x is what this reader was told.
Told(x, told) ==
    /\ x.metaTold => told.bells = x.said.bells /\ told.marks = x.said.marks
    /\ x.nameTold => told.name = x.said.name
    /\ x.placeTold => told.place = x.said.place
Sole(w, c) == w.reader[c].attached /\ ReadersIn(w, w.reader[c].session) = {c}
Knows(w, c) == \A t \in ReadBy(w, c) : Told(w.terminal[t], w.shown[c][t])
Agree(w) == \A c \in Clients :
    w.reader[c].attached => w.reader[c].world = w.session[w.reader[c].session].desktop

IInv ==
    /\ Sound(Now)
    /\ alone \in [Clients -> BOOLEAN] /\ rung \in [Terms -> Nat] /\ acts \in 0..MaxActs
    /\ \A c \in Clients : alone[c] => Sole(Now, c)
    /\ \A c \in Clients : alone[c] /\ ~reader[c].dirty => Knows(Now, c)
    /\ Policy = "Fixed" => Agree(Now)

(***************************************************************************)
(* What a snapshot, a layout and the news of the terminals leave, part by  *)
(* part.                                                                   *)
(***************************************************************************)
LEMMA Parts ==
    ASSUME NEW w \in Worlds, NEW T, NEW R, NEW S
    PROVE  [w EXCEPT !.shown = S, !.terminal = T, !.reader = R] =
               [session |-> w.session, terminal |-> T, reader |-> R, shown |-> S]
<1> DEFINE u == [w EXCEPT !.shown = S]
           v == [u EXCEPT !.terminal = T]
<1>1. /\ u = [session |-> w.session, terminal |-> w.terminal, reader |-> w.reader, shown |-> S]
      /\ w.session \in [Sessions -> Session] /\ w.reader \in [Clients -> Reader]
      /\ w.terminal \in [Terms -> Terminal]
  BY DEF Worlds
<1>2. [w EXCEPT !.shown = S, !.terminal = T, !.reader = R] = [v EXCEPT !.reader = R]
  OBVIOUS
<1> HIDE DEF u
<1>3. u \in [session : [Sessions -> Session], terminal : [Terms -> Terminal],
             reader : [Clients -> Reader], shown : {S}]
  BY <1>1
<1>4. v = [session |-> u.session, terminal |-> T, reader |-> u.reader, shown |-> u.shown]
  BY <1>3
<1> HIDE DEF v
<1>5. v \in [session : [Sessions -> Session], terminal : {T}, reader : [Clients -> Reader],
             shown : {S}]
  BY <1>1, <1>3, <1>4
<1>6. [v EXCEPT !.reader = R] =
          [session |-> v.session, terminal |-> v.terminal, reader |-> R, shown |-> v.shown]
  BY <1>5
<1> QED
  BY <1>1, <1>2, <1>4, <1>6

StatedTo(w, R) == UNION {ReadBy(w, c) : c \in R}
SnapshotTerminal(w, R) == [t \in Terms |-> IF t \notin StatedTo(w, R) THEN w.terminal[t] ELSE
    [w.terminal[t] EXCEPT !.metaTold = TRUE, !.nameTold = TRUE, !.placeTold = TRUE]]
SnapshotReader(w, R) == [c \in Clients |-> IF c \notin R THEN w.reader[c] ELSE
    [w.reader[c] EXCEPT !.dirty = FALSE, !.world = w.session[w.reader[c].session].desktop]]
SnapshotShown(w, R) == [c \in Clients |-> [t \in Terms |->
    IF c \in R /\ t \in ReadBy(w, c) THEN w.terminal[t].said ELSE w.shown[c][t]]]
LEMMA SnapshotIs ==
    ASSUME NEW w \in Worlds, NEW R
    PROVE  Snapshot(w, R) = [session |-> w.session, terminal |-> SnapshotTerminal(w, R),
                             reader |-> SnapshotReader(w, R), shown |-> SnapshotShown(w, R)]
<1>1. Snapshot(w, R) = [w EXCEPT !.shown = SnapshotShown(w, R),
                                 !.terminal = SnapshotTerminal(w, R),
                                 !.reader = SnapshotReader(w, R)]
  BY DEF Snapshot, SnapshotTerminal, SnapshotReader, SnapshotShown, StatedTo
<1> QED
  BY <1>1, Parts

Spoken(w, force) ==
    {s \in Sessions : /\ s = force \/ \E t \in w.session[s].terms : ~w.terminal[t].placeTold
                      /\ ReadersIn(w, s) # {}}
SpokenOf(w, force) == UNION {w.session[s].terms : s \in Spoken(w, force)}
LayoutTerminal(w, force) == [t \in Terms |->
    IF t \in SpokenOf(w, force) THEN [w.terminal[t] EXCEPT !.placeTold = TRUE]
    ELSE w.terminal[t]]
LayoutReader(w, force) == [c \in Clients |->
    IF \A s \in Spoken(w, force) : c \notin ReadersIn(w, s) THEN w.reader[c] ELSE
    [w.reader[c] EXCEPT !.world = w.session[w.reader[c].session].desktop]]
LayoutShown(w, force) == [c \in Clients |-> [t \in Terms |->
    IF t \in SpokenOf(w, force) \intersect ReadBy(w, c)
    THEN [w.shown[c][t] EXCEPT !.place = w.terminal[t].said.place]
    ELSE w.shown[c][t]]]
LEMMA LayoutIs ==
    ASSUME NEW w \in Worlds, NEW force
    PROVE  Layout(w, force) = [session |-> w.session, terminal |-> LayoutTerminal(w, force),
                               reader |-> LayoutReader(w, force), shown |-> LayoutShown(w, force)]
<1>1. Layout(w, force) = [w EXCEPT !.shown = LayoutShown(w, force),
                                   !.terminal = LayoutTerminal(w, force),
                                   !.reader = LayoutReader(w, force)]
  BY DEF Layout, LayoutTerminal, LayoutReader, LayoutShown, SpokenOf, Spoken
<1> QED
  BY <1>1, Parts

HomesIn(w, t) == {s \in Sessions : t \in w.session[s].terms}
HomeIn(w, t) == CHOOSE s \in HomesIn(w, t) : TRUE
MarkedIn(w, t) == Marked(w.terminal[t], w.session[HomeIn(w, t)].last = t)
ToldIn(w, t) == {c \in First(ReadersIn(w, HomeIn(w, t))) :
                    ~MarkedIn(w, t).metaTold \/ ~MarkedIn(w, t).nameTold}
NewsTerminal(w) == [t \in Terms |->
    IF HomesIn(w, t) = {} THEN w.terminal[t]
    ELSE IF ToldIn(w, t) = {} THEN Flushed(MarkedIn(w, t))
    ELSE Flushed([MarkedIn(w, t) EXCEPT !.metaTold = TRUE, !.nameTold = TRUE])]
NewsShown(w) == [c \in Clients |-> [t \in Terms |->
    IF HomesIn(w, t) # {} /\ c \in ToldIn(w, t)
    THEN [MarkedIn(w, t).said EXCEPT !.place = w.shown[c][t].place]
    ELSE w.shown[c][t]]]
LEMMA NewsIs ==
    ASSUME NEW w \in Worlds
    PROVE  News(w) = [session |-> w.session, terminal |-> NewsTerminal(w),
                      reader |-> w.reader, shown |-> NewsShown(w)]
<1>1. News(w) = [w EXCEPT !.shown = NewsShown(w), !.terminal = NewsTerminal(w)]
  BY DEF News, NewsTerminal, NewsShown, HomesIn, HomeIn, MarkedIn, ToldIn
<1> QED
  <2> DEFINE u == [w EXCEPT !.shown = NewsShown(w)]
  <2>1. /\ u = [session |-> w.session, terminal |-> w.terminal, reader |-> w.reader,
                shown |-> NewsShown(w)]
        /\ w.session \in [Sessions -> Session] /\ w.reader \in [Clients -> Reader]
        /\ w.terminal \in [Terms -> Terminal]
    BY DEF Worlds
  <2>2. News(w) = [u EXCEPT !.terminal = NewsTerminal(w)]
    BY <1>1
  <2> HIDE DEF u
  <2>3. u \in [session : [Sessions -> Session], terminal : [Terms -> Terminal],
               reader : [Clients -> Reader], shown : {NewsShown(w)}]
    BY <2>1
  <2>4. [u EXCEPT !.terminal = NewsTerminal(w)] =
            [session |-> u.session, terminal |-> NewsTerminal(w), reader |-> u.reader,
             shown |-> u.shown]
    BY <2>3
  <2> QED
    BY <2>1, <2>2, <2>4

(***************************************************************************)
(* What they say, and of which sessions.                                   *)
(***************************************************************************)
LEMMA Seating ==
    ASSUME NEW w \in Worlds, Seats(w), OneHome(w), NEW c \in Clients, NEW t \in ReadBy(w, c)
    PROVE  /\ w.reader[c].attached /\ w.reader[c].session \in Sessions /\ t \in Terms
           /\ t \in w.session[w.reader[c].session].terms
           /\ HomesIn(w, t) = {w.reader[c].session} /\ HomeIn(w, t) = w.reader[c].session
           /\ ~Homeless(w, t)
<1>1. w.reader[c].attached /\ w.reader[c].session \in Sessions
      /\ t \in w.session[w.reader[c].session].terms
  BY DEF ReadBy, Seats
<1>2. t \in Terms
  BY <1>1 DEF Worlds, Session
<1>3. HomesIn(w, t) = {w.reader[c].session}
  BY <1>1 DEF HomesIn, OneHome
<1>4. HomeIn(w, t) = w.reader[c].session
  BY <1>3 DEF HomeIn
<1> QED
  BY <1>1, <1>2, <1>3, <1>4 DEF Homeless

\* All who read a terminal are in one session, so a reader by itself is the only one.
LEMMA OnlyReader ==
    ASSUME NEW w \in Worlds, Seats(w), OneHome(w), NEW c \in Clients, Sole(w, c),
           NEW d \in Clients, NEW t \in ReadBy(w, c), t \in ReadBy(w, d)
    PROVE  d = c
<1>1. w.reader[d].attached /\ {w.reader[c].session} = {w.reader[d].session}
  BY Seating
<1>2. d \in ReadersIn(w, w.reader[c].session)
  BY <1>1 DEF ReadersIn
<1> QED
  BY <1>2 DEF Sole

LEMMA SnapshotType ==
    ASSUME NEW w, Sound(w), NEW R \in SUBSET {c \in Clients : w.reader[c].attached}
    PROVE  /\ Snapshot(w, R) \in Worlds
           /\ SnapshotTerminal(w, R) \in [Terms -> Terminal]
           /\ SnapshotReader(w, R) \in [Clients -> Reader]
           /\ SnapshotShown(w, R) \in [Clients -> [Terms -> Said]]
<1>1. /\ w.session \in [Sessions -> Session] /\ w.terminal \in [Terms -> Terminal]
      /\ w.reader \in [Clients -> Reader] /\ w.shown \in [Clients -> [Terms -> Said]]
  BY DEF Sound, Worlds
<1>2. SnapshotTerminal(w, R) \in [Terms -> Terminal]
  <2>1. ASSUME NEW x \in Terminal
        PROVE  [x EXCEPT !.metaTold = TRUE, !.nameTold = TRUE, !.placeTold = TRUE] \in Terminal
    BY DEF Terminal
  <2> QED
    BY <1>1, <2>1 DEF SnapshotTerminal
<1>3. SnapshotReader(w, R) \in [Clients -> Reader]
  <2>1. ASSUME NEW c \in R
        PROVE  [w.reader[c] EXCEPT !.dirty = FALSE,
                                  !.world = w.session[w.reader[c].session].desktop] \in Reader
    <3>1. w.reader[c].session \in Sessions
      BY DEF Sound, Seats
    <3>2. w.session[w.reader[c].session].desktop \in Sizes \union {None}
      BY <1>1, <3>1 DEF Session
    <3>3. w.reader[c] \in Reader
      BY <1>1
    <3> DEFINE desktop == w.session[w.reader[c].session].desktop
    <3> HIDE DEF desktop
    <3>4. [w.reader[c] EXCEPT !.dirty = FALSE, !.world = desktop] \in Reader
      BY <3>2, <3>3 DEF Reader, desktop
    <3> QED
      BY <3>4 DEF desktop
  <2> QED
    BY <1>1, <2>1 DEF SnapshotReader
<1>4. SnapshotShown(w, R) \in [Clients -> [Terms -> Said]]
  BY <1>1 DEF SnapshotShown, Terminal
<1>5. w \in Worlds
  BY DEF Sound
<1> QED
  BY <1>1, <1>2, <1>3, <1>4, <1>5, SnapshotIs DEF Worlds

LEMMA SnapshotSeats ==
    ASSUME NEW w, Sound(w), NEW R \in SUBSET {c \in Clients : w.reader[c].attached}
    PROVE  LET v == Snapshot(w, R)
           IN /\ v.session = w.session /\ v.terminal = SnapshotTerminal(w, R)
              /\ v.reader = SnapshotReader(w, R) /\ v.shown = SnapshotShown(w, R)
              /\ \A c \in Clients : /\ v.reader[c].attached = w.reader[c].attached
                                    /\ v.reader[c].session = w.reader[c].session
                                    /\ v.reader[c].dirty <=> w.reader[c].dirty /\ c \notin R
              /\ \A c \in Clients : ReadBy(v, c) = ReadBy(w, c)
              /\ \A s : ReadersIn(v, s) = ReadersIn(w, s)
<1> DEFINE v == Snapshot(w, R)
<1>1. /\ v.session = w.session /\ v.terminal = SnapshotTerminal(w, R)
      /\ v.reader = SnapshotReader(w, R) /\ v.shown = SnapshotShown(w, R)
  <2>1. w \in Worlds
    BY DEF Sound
  <2> QED
    BY <2>1, SnapshotIs
<1>2. w.reader \in [Clients -> Reader]
  BY DEF Sound, Worlds
<1> HIDE DEF v
<1>3. ASSUME NEW c \in Clients
      PROVE  /\ v.reader[c].attached = w.reader[c].attached
             /\ v.reader[c].session = w.reader[c].session
             /\ v.reader[c].dirty <=> w.reader[c].dirty /\ c \notin R
  <2>0. v.reader[c] = IF c \notin R THEN w.reader[c] ELSE [w.reader[c] EXCEPT !.dirty = FALSE,
                         !.world = w.session[w.reader[c].session].desktop]
    BY <1>1 DEF SnapshotReader
  <2>1. w.reader[c] \in Reader
    BY <1>2
  <2>2. CASE c \in R
    <3>1. v.reader[c] = [w.reader[c] EXCEPT !.dirty = FALSE,
                             !.world = w.session[w.reader[c].session].desktop]
      BY <2>0, <2>2
    <3>2. /\ v.reader[c].attached = w.reader[c].attached
          /\ v.reader[c].session = w.reader[c].session /\ v.reader[c].dirty = FALSE
      BY <2>1, <3>1 DEF Reader
    <3> QED
      BY <2>2, <3>2
  <2>3. CASE c \notin R
    BY <2>0, <2>3
  <2> QED
    BY <2>2, <2>3
<1>4. \A c \in Clients : ReadBy(v, c) = ReadBy(w, c)
  BY <1>1, <1>3 DEF ReadBy
<1>5. \A s : ReadersIn(v, s) = ReadersIn(w, s)
  BY <1>3 DEF ReadersIn
<1> QED
  BY <1>1, <1>3, <1>4, <1>5 DEF v

LEMMA SnapshotSound ==
    ASSUME NEW w, Sound(w), NEW R \in SUBSET {c \in Clients : w.reader[c].attached}
    PROVE  Sound(Snapshot(w, R))
<1> DEFINE v == Snapshot(w, R)
<1>1. v \in Worlds
  BY SnapshotType
<1>2. /\ v.session = w.session /\ v.terminal = SnapshotTerminal(w, R)
      /\ v.shown = SnapshotShown(w, R)
      /\ \A c \in Clients : /\ v.reader[c].attached = w.reader[c].attached
                            /\ v.reader[c].session = w.reader[c].session
                            /\ v.reader[c].dirty => w.reader[c].dirty
  BY SnapshotSeats
<1> HIDE DEF v
<1>3. Seats(v) /\ OneHome(v)
  BY <1>2 DEF Sound, Seats, OneHome
<1>4. ASSUME NEW t \in Terms, Homeless(v, t)
      PROVE  v.terminal[t] = NewTerm /\ \A c \in Clients : v.shown[c][t] = Blank
  <2>1. Homeless(w, t)
    BY <1>2, <1>4 DEF Homeless
  <2>2. w.terminal[t] = NewTerm /\ \A c \in Clients : w.shown[c][t] = Blank
    BY <2>1 DEF Sound, Fresh
  <2>3. \A c \in Clients : t \notin ReadBy(w, c)
    BY <2>1, Seating DEF Sound
  <2> QED
    <3>1. t \notin StatedTo(w, R)
      BY <2>3 DEF StatedTo
    <3>2. v.terminal[t] = NewTerm
      BY <1>2, <2>2, <3>1 DEF SnapshotTerminal
    <3>3. \A c \in Clients : v.shown[c][t] = Blank
      BY <1>2, <2>2, <2>3 DEF SnapshotShown
    <3> QED
      BY <3>2, <3>3
<1> QED
  BY <1>1, <1>3, <1>4 DEF Sound, Fresh, v

\* A reader by itself who knew what counted as announced still does, and so does
\* one who is sent a snapshot.
LEMMA SnapshotTells ==
    ASSUME NEW w, Sound(w), NEW R \in SUBSET {c \in Clients : w.reader[c].attached},
           NEW c \in Clients, Sole(w, c), c \in R \/ Knows(w, c)
    PROVE  Knows(Snapshot(w, R), c)
<1> DEFINE v == Snapshot(w, R)
<1>1. v.terminal = SnapshotTerminal(w, R) /\ v.shown = SnapshotShown(w, R)
      /\ ReadBy(v, c) = ReadBy(w, c)
  BY SnapshotSeats
<1>2. w \in Worlds /\ Seats(w) /\ OneHome(w) /\ w.terminal \in [Terms -> Terminal]
  BY DEF Sound, Worlds
<1> HIDE DEF v
<1>3. ASSUME NEW t \in ReadBy(w, c) PROVE Told(v.terminal[t], v.shown[c][t])
  <2>1. t \in Terms /\ w.terminal[t] \in Terminal
    BY <1>2, Seating
  <2>2. CASE c \in R
    <3>1. v.terminal[t] = [w.terminal[t] EXCEPT !.metaTold = TRUE, !.nameTold = TRUE,
                                               !.placeTold = TRUE]
      BY <1>1, <2>1, <2>2 DEF SnapshotTerminal, StatedTo
    <3>2. v.shown[c][t] = w.terminal[t].said
      BY <1>1, <2>1, <2>2 DEF SnapshotShown
    <3>3. v.terminal[t].said = w.terminal[t].said
      BY <2>1, <3>1 DEF Terminal
    <3> QED
      BY <3>2, <3>3 DEF Told
  <2>3. CASE c \notin R
    <3>1. \A d \in R : t \notin ReadBy(w, d)
      BY <1>2, <2>3, OnlyReader
    <3>2. t \notin StatedTo(w, R)
      BY <3>1 DEF StatedTo
    <3>3. v.terminal[t] = w.terminal[t]
      BY <1>1, <2>1, <3>2 DEF SnapshotTerminal
    <3>4. v.shown[c][t] = w.shown[c][t]
      BY <1>1, <2>1, <2>3 DEF SnapshotShown
    <3> QED
      BY <2>3, <3>3, <3>4 DEF Knows
  <2> QED
    BY <2>2, <2>3
<1> QED
  BY <1>1, <1>3 DEF Knows, v

LEMMA SnapshotAgrees ==
    ASSUME NEW w, Sound(w), NEW R \in SUBSET {c \in Clients : w.reader[c].attached},
           \A c \in Clients \ R : w.reader[c].attached =>
               w.reader[c].world = w.session[w.reader[c].session].desktop
    PROVE  Agree(Snapshot(w, R))
<1> DEFINE v == Snapshot(w, R)
<1>1. /\ v.session = w.session /\ v.reader = SnapshotReader(w, R)
      /\ \A c \in Clients : /\ v.reader[c].attached = w.reader[c].attached
                            /\ v.reader[c].session = w.reader[c].session
  BY SnapshotSeats
<1>2. w.reader \in [Clients -> Reader]
  BY DEF Sound, Worlds
<1> HIDE DEF v
<1>3. ASSUME NEW c \in Clients, v.reader[c].attached
      PROVE  v.reader[c].world = v.session[v.reader[c].session].desktop
  <2>0. v.reader[c] = IF c \notin R THEN w.reader[c] ELSE [w.reader[c] EXCEPT !.dirty = FALSE,
                         !.world = w.session[w.reader[c].session].desktop]
    BY <1>1 DEF SnapshotReader
  <2>1. CASE c \in R
    <3>1. v.reader[c] = [w.reader[c] EXCEPT !.dirty = FALSE,
                             !.world = w.session[w.reader[c].session].desktop]
      BY <2>0, <2>1
    <3>2. v.reader[c].world = w.session[w.reader[c].session].desktop
      BY <1>2, <3>1 DEF Reader
    <3> QED
      BY <1>1, <3>2
  <2>2. CASE c \notin R
    <3>1. v.reader[c] = w.reader[c]
      BY <2>0, <2>2
    <3> QED
      BY <1>1, <1>3, <2>2, <3>1
  <2> QED
    BY <2>1, <2>2
<1> QED
  BY <1>3 DEF Agree, v

LEMMA LayoutSeats ==
    ASSUME NEW w, Sound(w), NEW force
    PROVE  LET v == Layout(w, force)
           IN /\ v \in Worlds
              /\ v.session = w.session /\ v.terminal = LayoutTerminal(w, force)
              /\ v.reader = LayoutReader(w, force) /\ v.shown = LayoutShown(w, force)
              /\ \A c \in Clients : /\ v.reader[c].attached = w.reader[c].attached
                                    /\ v.reader[c].session = w.reader[c].session
                                    /\ v.reader[c].dirty = w.reader[c].dirty
              /\ \A c \in Clients : ReadBy(v, c) = ReadBy(w, c)
              /\ \A s : ReadersIn(v, s) = ReadersIn(w, s)
<1> DEFINE v == Layout(w, force)
<1>1. /\ w.session \in [Sessions -> Session] /\ w.terminal \in [Terms -> Terminal]
      /\ w.reader \in [Clients -> Reader] /\ w.shown \in [Clients -> [Terms -> Said]]
      /\ w \in Worlds
  BY DEF Sound, Worlds
<1>2. /\ v = [session |-> w.session, terminal |-> LayoutTerminal(w, force),
              reader |-> LayoutReader(w, force), shown |-> LayoutShown(w, force)]
      /\ v.session = w.session /\ v.terminal = LayoutTerminal(w, force)
      /\ v.reader = LayoutReader(w, force) /\ v.shown = LayoutShown(w, force)
  BY <1>1, LayoutIs
<1> HIDE DEF v
<1>3. ASSUME NEW c \in Clients
      PROVE  /\ v.reader[c] \in Reader
             /\ v.reader[c].attached = w.reader[c].attached
             /\ v.reader[c].session = w.reader[c].session
             /\ v.reader[c].dirty = w.reader[c].dirty
  <2>1. w.reader[c] \in Reader
    BY <1>1
  <2>2. CASE \A s \in Spoken(w, force) : c \notin ReadersIn(w, s)
    <3>1. v.reader[c] = w.reader[c]
      BY <1>2, <2>2 DEF LayoutReader
    <3> QED
      BY <2>1, <3>1
  <2>3. CASE \E s \in Spoken(w, force) : c \in ReadersIn(w, s)
    <3> DEFINE desktop == w.session[w.reader[c].session].desktop
    <3>1. w.reader[c].session \in Sessions
      BY <2>3 DEF ReadersIn, Spoken
    <3>2. desktop \in Sizes \union {None}
      BY <1>1, <3>1 DEF Session
    <3>3. v.reader[c] = [w.reader[c] EXCEPT !.world = desktop]
      BY <1>2, <2>3 DEF LayoutReader
    <3> HIDE DEF desktop
    <3> QED
      BY <2>1, <3>2, <3>3 DEF Reader
  <2> QED
    BY <2>2, <2>3
<1>4. LayoutReader(w, force) \in [Clients -> Reader]
  BY <1>2, <1>3 DEF LayoutReader
<1>5. LayoutTerminal(w, force) \in [Terms -> Terminal]
  <2>1. \A t \in Terms : [w.terminal[t] EXCEPT !.placeTold = TRUE] \in Terminal
    BY <1>1 DEF Terminal
  <2> QED
    BY <1>1, <2>1 DEF LayoutTerminal
<1>6. LayoutShown(w, force) \in [Clients -> [Terms -> Said]]
  <2>1. \A c \in Clients, t \in Terms :
            [w.shown[c][t] EXCEPT !.place = w.terminal[t].said.place] \in Said
    <3>1. \A c \in Clients, t \in Terms : w.shown[c][t] \in Said
      BY <1>1
    <3>2. \A t \in Terms : w.terminal[t].said.place \in Places
      BY <1>1 DEF Terminal, Said
    <3> QED
      BY <3>1, <3>2 DEF Said
  <2> QED
    BY <1>1, <2>1 DEF LayoutShown
<1>7. v \in Worlds
  BY <1>1, <1>2, <1>4, <1>5, <1>6 DEF Worlds
<1>8. \A c \in Clients : ReadBy(v, c) = ReadBy(w, c)
  BY <1>2, <1>3 DEF ReadBy
<1>9. \A s : ReadersIn(v, s) = ReadersIn(w, s)
  BY <1>3 DEF ReadersIn
<1> QED
  BY <1>2, <1>3, <1>7, <1>8, <1>9 DEF v

LEMMA LayoutSound ==
    ASSUME NEW w, Sound(w), NEW force
    PROVE  Sound(Layout(w, force))
<1> DEFINE v == Layout(w, force)
<1>1. /\ v \in Worlds
      /\ v.session = w.session /\ v.terminal = LayoutTerminal(w, force)
      /\ v.shown = LayoutShown(w, force)
      /\ \A c \in Clients : /\ v.reader[c].attached = w.reader[c].attached
                            /\ v.reader[c].session = w.reader[c].session
                            /\ v.reader[c].dirty = w.reader[c].dirty
  BY LayoutSeats
<1> HIDE DEF v
<1>2. Seats(v) /\ OneHome(v)
  BY <1>1 DEF Sound, Seats, OneHome
<1>3. ASSUME NEW t \in Terms, Homeless(v, t)
      PROVE  v.terminal[t] = NewTerm /\ \A c \in Clients : v.shown[c][t] = Blank
  <2>1. w.terminal[t] = NewTerm /\ \A c \in Clients : w.shown[c][t] = Blank
    BY <1>1, <1>3 DEF Sound, Fresh, Homeless
  <2>2. t \notin SpokenOf(w, force)
    <3>1. \A s \in Spoken(w, force) : s \in Sessions /\ t \notin w.session[s].terms
      BY <1>1, <1>3 DEF Homeless, Spoken
    <3> QED
      BY <3>1 DEF SpokenOf
  <2>3. v.terminal[t] = NewTerm
    BY <1>1, <2>1, <2>2 DEF LayoutTerminal
  <2>4. \A c \in Clients : v.shown[c][t] = Blank
    BY <1>1, <2>1, <2>2 DEF LayoutShown
  <2> QED
    BY <2>3, <2>4
<1> QED
  BY <1>1, <1>2, <1>3 DEF Sound, Fresh, v

LEMMA LayoutTells ==
    ASSUME NEW w, Sound(w), NEW force, NEW c \in Clients, Knows(w, c)
    PROVE  Knows(Layout(w, force), c)
<1> DEFINE v == Layout(w, force)
<1>1. v.terminal = LayoutTerminal(w, force) /\ v.shown = LayoutShown(w, force)
      /\ ReadBy(v, c) = ReadBy(w, c)
  BY LayoutSeats
<1>2. /\ w \in Worlds /\ Seats(w) /\ OneHome(w)
      /\ w.terminal \in [Terms -> Terminal] /\ w.shown \in [Clients -> [Terms -> Said]]
  BY DEF Sound, Worlds
<1> HIDE DEF v
<1>3. ASSUME NEW t \in ReadBy(w, c) PROVE Told(v.terminal[t], v.shown[c][t])
  <2>1. t \in Terms /\ w.terminal[t] \in Terminal /\ w.shown[c][t] \in Said
    BY <1>2, Seating
  <2>2. Told(w.terminal[t], w.shown[c][t])
    BY DEF Knows
  <2>3. CASE t \in SpokenOf(w, force)
    <3> DEFINE x == w.terminal[t]
               told == w.shown[c][t]
    <3>1. v.terminal[t] = [x EXCEPT !.placeTold = TRUE]
      BY <1>1, <2>1, <2>3 DEF LayoutTerminal
    <3>2. v.shown[c][t] = [told EXCEPT !.place = x.said.place]
      BY <1>1, <2>1, <2>3 DEF LayoutShown
    <3>3. /\ v.terminal[t].said = x.said
          /\ v.terminal[t].metaTold = x.metaTold /\ v.terminal[t].nameTold = x.nameTold
      BY <2>1, <3>1 DEF Terminal
    <3>4. /\ v.shown[c][t].bells = told.bells /\ v.shown[c][t].marks = told.marks
          /\ v.shown[c][t].name = told.name /\ v.shown[c][t].place = x.said.place
      BY <2>1, <3>2 DEF Said
    <3> QED
      BY <2>2, <3>3, <3>4 DEF Told
  <2>4. CASE t \notin SpokenOf(w, force)
    <3>1. v.terminal[t] = w.terminal[t]
      BY <1>1, <2>1, <2>4 DEF LayoutTerminal
    <3>2. v.shown[c][t] = w.shown[c][t]
      BY <1>1, <2>1, <2>4 DEF LayoutShown
    <3> QED
      BY <2>2, <3>1, <3>2
  <2> QED
    BY <2>3, <2>4
<1> QED
  BY <1>1, <1>3 DEF Knows, v

\* Those of the session whose size is new hear of it; the others knew.
LEMMA LayoutAgrees ==
    ASSUME NEW w, Sound(w), NEW force,
           \A c \in Clients : w.reader[c].attached =>
               \/ w.reader[c].world = w.session[w.reader[c].session].desktop
               \/ w.reader[c].session = force
    PROVE  Agree(Layout(w, force))
<1> DEFINE v == Layout(w, force)
<1>1. /\ v.session = w.session /\ v.reader = LayoutReader(w, force)
      /\ \A c \in Clients : /\ v.reader[c].attached = w.reader[c].attached
                            /\ v.reader[c].session = w.reader[c].session
  BY LayoutSeats
<1>2. w.reader \in [Clients -> Reader]
  BY DEF Sound, Worlds
<1> HIDE DEF v
<1>3. ASSUME NEW c \in Clients, v.reader[c].attached
      PROVE  v.reader[c].world = v.session[v.reader[c].session].desktop
  <2>1. CASE \E s \in Spoken(w, force) : c \in ReadersIn(w, s)
    <3>1. v.reader[c] = [w.reader[c] EXCEPT !.world = w.session[w.reader[c].session].desktop]
      BY <1>1, <2>1 DEF LayoutReader
    <3>2. v.reader[c].world = w.session[w.reader[c].session].desktop
      BY <1>2, <3>1 DEF Reader
    <3> QED
      BY <1>1, <3>2
  <2>2. CASE \A s \in Spoken(w, force) : c \notin ReadersIn(w, s)
    <3>1. v.reader[c] = w.reader[c]
      BY <1>1, <2>2 DEF LayoutReader
    <3>2. w.reader[c].attached /\ w.reader[c].session \in Sessions
      BY <1>1, <1>3 DEF Sound, Seats
    <3>3. c \in ReadersIn(w, w.reader[c].session)
      BY <3>2 DEF ReadersIn
    <3>4. w.reader[c].session # force
      BY <2>2, <3>2, <3>3 DEF Spoken
    <3> QED
      BY <1>1, <3>1, <3>2, <3>4
  <2> QED
    BY <2>1, <2>2
<1> QED
  BY <1>3 DEF Agree, v

LEMMA MarkedIs ==
    ASSUME NEW x \in Terminal, NEW f \in BOOLEAN
    PROVE  LET m == Marked(x, f)
           IN /\ m \in Terminal
              /\ m.said.name = x.said.name /\ m.said.place = x.said.place
              /\ m.nameTold = x.nameTold /\ m.placeTold = x.placeTold
              /\ m.metaTold => /\ x.metaTold
                               /\ m.said.marks = x.said.marks /\ m.said.bells = x.said.bells
<1> DEFINE d == x.damage \ (IF x.resized THEN {"text"} ELSE {})
           marks == IF f THEN {} ELSE x.said.marks \union d
           bells == x.said.bells + (IF "bell" \in d THEN 1 ELSE 0)
           told == x.metaTold /\ marks = x.said.marks /\ bells = x.said.bells
           y == [x EXCEPT !.said.marks = marks]
           z == [y EXCEPT !.said.bells = bells]
           m == [z EXCEPT !.resized = FALSE]
<1>1. x.said \in Said /\ x.damage \in SUBSET Damages /\ x.metaTold \in BOOLEAN
  BY DEF Terminal
<1>2. marks \in SUBSET Damages /\ bells \in Nat
  BY <1>1 DEF Said
<1>3. told \in BOOLEAN
  OBVIOUS
<1>4. Marked(x, f) = [m EXCEPT !.metaTold = told]
  BY DEF Marked
<1> HIDE DEF marks, bells
<1>5. /\ y \in Terminal /\ y.said = [x.said EXCEPT !.marks = marks]
      /\ y.nameTold = x.nameTold /\ y.placeTold = x.placeTold
  BY <1>1, <1>2 DEF Terminal, Said
<1>6. /\ y.said.marks = marks /\ y.said.bells = x.said.bells
      /\ y.said.name = x.said.name /\ y.said.place = x.said.place
  BY <1>1, <1>5 DEF Said
<1> HIDE DEF y
<1>7. /\ z \in Terminal /\ z.said = [y.said EXCEPT !.bells = bells]
      /\ z.nameTold = x.nameTold /\ z.placeTold = x.placeTold
  BY <1>2, <1>5 DEF Terminal, Said
<1>8. /\ z.said.marks = marks /\ z.said.bells = bells
      /\ z.said.name = x.said.name /\ z.said.place = x.said.place
  BY <1>5, <1>6, <1>7 DEF Terminal, Said
<1> HIDE DEF z
<1>9. m \in Terminal /\ m.said = z.said /\ m.nameTold = x.nameTold /\ m.placeTold = x.placeTold
  BY <1>7 DEF Terminal
<1> HIDE DEF m
<1>10. /\ Marked(x, f) \in Terminal /\ Marked(x, f).said = z.said
       /\ Marked(x, f).nameTold = x.nameTold /\ Marked(x, f).placeTold = x.placeTold
       /\ Marked(x, f).metaTold = told
  BY <1>3, <1>4, <1>9 DEF Terminal
<1> QED
  BY <1>8, <1>10

LEMMA FlushedIs ==
    ASSUME NEW x \in Terminal
    PROVE  /\ Flushed(x) \in Terminal /\ Flushed(x).said = x.said
           /\ Flushed(x).metaTold = x.metaTold /\ Flushed(x).nameTold = x.nameTold
           /\ Flushed(x).placeTold = x.placeTold
  BY DEF Flushed, Terminal

LEMMA MarkedInType ==
    ASSUME NEW w \in Worlds, NEW t \in Terms
    PROVE  /\ w.terminal[t] \in Terminal /\ MarkedIn(w, t) \in Terminal
           /\ Flushed(MarkedIn(w, t)) \in Terminal
           /\ LET y == [MarkedIn(w, t) EXCEPT !.metaTold = TRUE, !.nameTold = TRUE]
              IN /\ y \in Terminal /\ y.said = MarkedIn(w, t).said
                 /\ y.placeTold = MarkedIn(w, t).placeTold
                 /\ Flushed(y) \in Terminal
<1> DEFINE m == MarkedIn(w, t)
           y == [m EXCEPT !.metaTold = TRUE, !.nameTold = TRUE]
<1>1. w.terminal[t] \in Terminal
  BY DEF Worlds
<1>2. m \in Terminal
  BY <1>1, MarkedIs DEF MarkedIn
<1> HIDE DEF m
<1>3. y \in Terminal /\ y.said = m.said /\ y.placeTold = m.placeTold
  BY <1>2 DEF Terminal
<1> HIDE DEF y
<1>4. Flushed(m) \in Terminal /\ Flushed(y) \in Terminal
  BY <1>2, <1>3, FlushedIs
<1> QED
  BY <1>1, <1>2, <1>3, <1>4 DEF m, y

LEMMA NewsSeats ==
    ASSUME NEW w, Sound(w)
    PROVE  /\ News(w) \in Worlds
           /\ News(w).session = w.session /\ News(w).terminal = NewsTerminal(w)
           /\ News(w).reader = w.reader /\ News(w).shown = NewsShown(w)
           /\ \A c \in Clients : ReadBy(News(w), c) = ReadBy(w, c)
<1>1. /\ w.session \in [Sessions -> Session] /\ w.terminal \in [Terms -> Terminal]
      /\ w.reader \in [Clients -> Reader] /\ w.shown \in [Clients -> [Terms -> Said]]
      /\ w \in Worlds
  BY DEF Sound, Worlds
<1>2. /\ News(w) = [session |-> w.session, terminal |-> NewsTerminal(w), reader |-> w.reader,
                    shown |-> NewsShown(w)]
      /\ News(w).session = w.session /\ News(w).terminal = NewsTerminal(w)
      /\ News(w).reader = w.reader /\ News(w).shown = NewsShown(w)
  BY <1>1, NewsIs
<1>3. NewsTerminal(w) \in [Terms -> Terminal]
  BY <1>1, MarkedInType DEF NewsTerminal
<1>4. NewsShown(w) \in [Clients -> [Terms -> Said]]
  <2>1. ASSUME NEW c \in Clients, NEW t \in Terms
        PROVE  [MarkedIn(w, t).said EXCEPT !.place = w.shown[c][t].place] \in Said
    <3>1. MarkedIn(w, t) \in Terminal /\ w.shown[c][t] \in Said
      BY <1>1, MarkedInType
    <3>2. MarkedIn(w, t).said \in Said
      BY <3>1 DEF Terminal
    <3> QED
      BY <3>1, <3>2 DEF Said
  <2> QED
    BY <1>1, <2>1 DEF NewsShown
<1>5. News(w) \in Worlds
  BY <1>1, <1>2, <1>3, <1>4 DEF Worlds
<1> QED
  BY <1>2, <1>5 DEF ReadBy

LEMMA NewsSound ==
    ASSUME NEW w, Sound(w)
    PROVE  Sound(News(w))
<1> DEFINE v == News(w)
<1>1. /\ v \in Worlds /\ v.session = w.session /\ v.reader = w.reader
      /\ v.terminal = NewsTerminal(w) /\ v.shown = NewsShown(w)
  BY NewsSeats
<1> HIDE DEF v
<1>2. Seats(v) /\ OneHome(v)
  BY <1>1 DEF Sound, Seats, OneHome
<1>3. ASSUME NEW t \in Terms, Homeless(v, t)
      PROVE  v.terminal[t] = NewTerm /\ \A c \in Clients : v.shown[c][t] = Blank
  <2>1. w.terminal[t] = NewTerm /\ \A c \in Clients : w.shown[c][t] = Blank
    BY <1>1, <1>3 DEF Sound, Fresh, Homeless
  <2>2. HomesIn(w, t) = {}
    BY <1>1, <1>3 DEF Homeless, HomesIn
  <2>3. v.terminal[t] = NewTerm
    BY <1>1, <2>1, <2>2 DEF NewsTerminal
  <2>4. \A c \in Clients : v.shown[c][t] = Blank
    BY <1>1, <2>1, <2>2 DEF NewsShown
  <2> QED
    BY <2>3, <2>4
<1> QED
  BY <1>1, <1>2, <1>3 DEF Sound, Fresh, v

\* The first of a session's readers is the one that is by itself.
LEMMA NewsTells ==
    ASSUME NEW w, Sound(w), NEW c \in Clients, Sole(w, c), Knows(w, c)
    PROVE  Knows(News(w), c)
<1> DEFINE v == News(w)
<1>1. v.terminal = NewsTerminal(w) /\ v.shown = NewsShown(w) /\ ReadBy(v, c) = ReadBy(w, c)
  BY NewsSeats
<1>2. /\ w \in Worlds /\ Seats(w) /\ OneHome(w)
      /\ w.terminal \in [Terms -> Terminal] /\ w.shown \in [Clients -> [Terms -> Said]]
  BY DEF Sound, Worlds
<1> HIDE DEF v
<1>3. ASSUME NEW t \in ReadBy(w, c) PROVE Told(v.terminal[t], v.shown[c][t])
  <2>0. t \in Terms /\ HomesIn(w, t) # {} /\ HomeIn(w, t) = w.reader[c].session
    <3>1. /\ t \in Terms /\ HomesIn(w, t) = {w.reader[c].session}
          /\ HomeIn(w, t) = w.reader[c].session
      BY <1>2, Seating
    <3> QED
      BY <3>1
  <2> DEFINE x == w.terminal[t]
             told == w.shown[c][t]
             m == MarkedIn(w, t)
             y == [m EXCEPT !.metaTold = TRUE, !.nameTold = TRUE]
  <2>1. /\ t \in Terms /\ x \in Terminal /\ told \in Said /\ m \in Terminal
        /\ HomesIn(w, t) # {} /\ HomeIn(w, t) = w.reader[c].session
    <3>1. x \in Terminal /\ m \in Terminal
      BY <1>2, <2>0, MarkedInType
    <3>2. told \in Said
      BY <1>2, <2>0
    <3> QED
      BY <2>0, <3>1, <3>2
  <2>2. Told(x, told)
    BY DEF Knows
  <2>3. /\ m.said.name = x.said.name /\ m.said.place = x.said.place
        /\ m.nameTold = x.nameTold /\ m.placeTold = x.placeTold
        /\ m.metaTold => /\ x.metaTold
                         /\ m.said.marks = x.said.marks /\ m.said.bells = x.said.bells
    BY <2>1, MarkedIs DEF MarkedIn
  <2>4. y \in Terminal /\ y.said = m.said /\ y.placeTold = m.placeTold
    BY <1>2, <2>1, MarkedInType
  <2>5. First({c}) = {c}
    BY NewsAssumption DEF First
  <2>6. ToldIn(w, t) = {d \in {c} : ~m.metaTold \/ ~m.nameTold}
    BY <2>1, <2>5 DEF ToldIn, Sole
  <2> HIDE DEF x, told, m, y
  <2>7. CASE m.metaTold /\ m.nameTold
    <3>1. ToldIn(w, t) = {}
      BY <2>6, <2>7
    <3>2. v.terminal[t] = Flushed(m)
      BY <1>1, <2>1, <3>1 DEF NewsTerminal, m
    <3>3. v.shown[c][t] = told
      BY <1>1, <2>1, <3>1 DEF NewsShown, told
    <3>4. /\ Flushed(m).said = m.said /\ Flushed(m).metaTold = m.metaTold
          /\ Flushed(m).nameTold = m.nameTold /\ Flushed(m).placeTold = m.placeTold
      BY <2>1, FlushedIs
    <3> QED
      BY <2>2, <2>3, <3>2, <3>3, <3>4 DEF Told
  <2>8. CASE ~(m.metaTold /\ m.nameTold)
    <3>1. c \in ToldIn(w, t)
      BY <2>6, <2>8
    <3>2. v.terminal[t] = Flushed(y)
      BY <1>1, <2>1, <3>1 DEF NewsTerminal, m, y
    <3>3. v.shown[c][t] = [m.said EXCEPT !.place = told.place]
      BY <1>1, <2>1, <3>1 DEF NewsShown, m, told
    <3>4. Flushed(y).said = m.said /\ Flushed(y).placeTold = m.placeTold
      BY <2>4, FlushedIs
    <3>5. m.said \in Said
      BY <2>1 DEF Terminal
    <3>6. /\ v.shown[c][t].bells = m.said.bells /\ v.shown[c][t].marks = m.said.marks
          /\ v.shown[c][t].name = m.said.name /\ v.shown[c][t].place = told.place
      BY <3>3, <3>5 DEF Said
    <3> QED
      BY <2>2, <2>3, <3>2, <3>4, <3>6 DEF Told
  <2> QED
    BY <2>7, <2>8
<1> QED
  BY <1>1, <1>3 DEF Knows, v

(***************************************************************************)
(* What a handler makes of the server's state before it says anything.     *)
(***************************************************************************)
LEMMA FitType ==
    ASSUME NEW s, session[s].desktop \in Sizes \union {None}, NEW arriving \in Sizes,
           NEW others \in BOOLEAN
    PROVE  /\ Fit(s, arriving, others) \in Sizes
           /\ Policy = "Fixed" /\ others /\ session[s].desktop # None =>
                  Fit(s, arriving, others) = session[s].desktop
  BY NewsAssumption DEF Fit, Policies

\* Terminals, their sessions and what was told of them are as they were.
LEMMA Reseated ==
    ASSUME NEW w, Sound(w), NEW v \in Worlds, v.terminal = w.terminal, v.shown = w.shown,
           \A s \in Sessions : v.session[s].terms = w.session[s].terms, Seats(v)
    PROVE  /\ Sound(v)
           /\ \A c \in Clients :
                 v.reader[c].attached /\ v.reader[c].session = w.reader[c].session
                 /\ w.reader[c].attached /\ Knows(w, c) => Knows(v, c)
<1>1. OneHome(v)
  BY DEF Sound, OneHome
<1>2. \A t : Homeless(v, t) => Homeless(w, t)
  BY DEF Homeless
<1>3. Fresh(v)
  BY <1>2 DEF Sound, Fresh
<1>4. ASSUME NEW c \in Clients, v.reader[c].attached, w.reader[c].attached,
             v.reader[c].session = w.reader[c].session, Knows(w, c)
      PROVE  Knows(v, c)
  <2>1. v.reader[c].session \in Sessions
    BY <1>4 DEF Seats
  <2>2. ReadBy(v, c) = ReadBy(w, c)
    BY <1>4, <2>1 DEF ReadBy
  <2> QED
    BY <1>4, <2>2 DEF Knows
<1> QED
  BY <1>1, <1>3, <1>4 DEF Sound

LEMMA ReshapedKeeps ==
    ASSUME NEW w, Sound(w), NEW s \in Sessions \union {None}, NEW size,
           s # None => size \in Sizes
    PROVE  LET v == Reshaped(w, s, size)
           IN /\ Sound(v)
              /\ \A c \in Clients : /\ v.reader[c].attached = w.reader[c].attached
                                    /\ v.reader[c].session = w.reader[c].session
                                    /\ v.reader[c].dirty = w.reader[c].dirty
                                    /\ Sole(w, c) => Sole(v, c)
                                    /\ Sole(w, c) /\ Knows(w, c) => Knows(v, c)
              /\ Agree(w) => Agree(v)
<1>1. CASE s = None \/ w.session[s].desktop = size
  BY <1>1 DEF Reshaped
<1>2. CASE s # None /\ w.session[s].desktop # size
  <2> DEFINE sized == [w.session EXCEPT ![s].desktop = size]
             u == [w EXCEPT !.session = sized]
             v == Layout(u, s)
  <2>1. Reshaped(w, s, size) = v
    BY <1>2 DEF Reshaped
  <2>2. /\ s \in Sessions /\ size \in Sizes /\ size # None /\ w \in Worlds
        /\ w.session \in [Sessions -> Session] /\ w.reader \in [Clients -> Reader]
    BY <1>2, NewsAssumption DEF Sound, Worlds, None
  <2>3. /\ sized \in [Sessions -> Session]
        /\ \A z \in Sessions : sized[z].terms = w.session[z].terms
        /\ \A z \in Sessions : sized[z].desktop = IF z = s THEN size ELSE w.session[z].desktop
    BY <2>2 DEF Session
  <2> HIDE DEF sized
  <2>4. u \in Worlds /\ u.session = sized /\ u.terminal = w.terminal
        /\ u.reader = w.reader /\ u.shown = w.shown
    BY <2>2, <2>3 DEF Worlds
  <2> HIDE DEF u
  <2>5. Seats(u)
    BY <2>2, <2>3, <2>4 DEF Sound, Seats
  <2>6. Sound(u) /\ \A c \in Clients : w.reader[c].attached /\ Knows(w, c) => Knows(u, c)
    BY <2>3, <2>4, <2>5, Reseated
  <2>7. /\ Sound(v)
        /\ \A c \in Clients : /\ v.reader[c].attached = w.reader[c].attached
                              /\ v.reader[c].session = w.reader[c].session
                              /\ v.reader[c].dirty = w.reader[c].dirty
    BY <2>4, <2>6, LayoutSound, LayoutSeats
  <2>8. \A z : ReadersIn(v, z) = ReadersIn(w, z)
    BY <2>7 DEF ReadersIn
  <2>9. ASSUME NEW c \in Clients, Sole(w, c) PROVE Sole(v, c) /\ (Knows(w, c) => Knows(v, c))
    <3>1. Sole(v, c) /\ w.reader[c].attached
      BY <2>7, <2>8, <2>9 DEF Sole
    <3>2. Knows(w, c) => Knows(v, c)
      BY <2>6, <3>1, LayoutTells
    <3> QED
      BY <3>1, <3>2
  <2>10. ASSUME Agree(w) PROVE Agree(v)
    <3>1. ASSUME NEW c \in Clients, u.reader[c].attached
          PROVE  u.reader[c].world = u.session[u.reader[c].session].desktop
                 \/ u.reader[c].session = s
      BY <2>3, <2>4, <2>5, <2>10, <3>1 DEF Agree, Seats
    <3> QED
      BY <2>6, <3>1, LayoutAgrees
  <2> QED
    BY <2>1, <2>7, <2>9, <2>10
<1> QED
  BY <1>1, <1>2

(***************************************************************************)
(* The invariant.                                                          *)
(***************************************************************************)
LEMMA Parted ==
    ASSUME IInv
    PROVE  /\ session \in [Sessions -> Session] /\ terminal \in [Terms -> Terminal]
           /\ reader \in [Clients -> Reader] /\ shown \in [Clients -> [Terms -> Said]]
           /\ alone \in [Clients -> BOOLEAN] /\ rung \in [Terms -> Nat] /\ acts \in 0..MaxActs
           /\ Now.session = session /\ Now.terminal = terminal
           /\ Now.reader = reader /\ Now.shown = shown
           /\ \A c \in Clients :
                 /\ reader[c].attached => /\ reader[c].session \in Sessions
                                          /\ session[reader[c].session].desktop # None
                 /\ reader[c].dirty => reader[c].attached
           /\ \A s, z \in Sessions : s # z => session[s].terms \cap session[z].terms = {}
<1>1. /\ Now.session = session /\ Now.terminal = terminal
      /\ Now.reader = reader /\ Now.shown = shown
  BY DEF Now
<1> QED
  BY <1>1 DEF IInv, Sound, Worlds, Seats, OneHome

LEMMA Becoming ==
    ASSUME NEW v \in Worlds, Become(v)
    PROVE  Now' = v
<1>1. v = [session |-> v.session, terminal |-> v.terminal, reader |-> v.reader, shown |-> v.shown]
  BY DEF Worlds
<1> QED
  BY <1>1 DEF Become, Now

LEMMA ByWorld ==
    ASSUME NEW v, Sound(v), Become(v),
           alone' \in [Clients -> BOOLEAN], rung' \in [Terms -> Nat], acts' \in 0..MaxActs,
           \A c \in Clients : alone'[c] => Sole(v, c),
           \A c \in Clients : alone'[c] /\ ~v.reader[c].dirty => Knows(v, c),
           Policy = "Fixed" => Agree(v)
    PROVE  IInv'
<1>1. Now' = v /\ reader' = v.reader
  BY Becoming DEF Sound, Become
<1>2. Sound(Now)'
  BY <1>1 DEF Sound, Seats, OneHome, Fresh, Homeless
<1>3. \A c \in Clients : alone'[c] => Sole(Now, c)'
  BY <1>1 DEF Sole, ReadersIn
<1>4. \A c \in Clients : alone'[c] /\ ~reader'[c].dirty => Knows(Now, c)'
  BY <1>1 DEF Knows, ReadBy, Told
<1>5. Policy = "Fixed" => Agree(Now)'
  BY <1>1 DEF Agree
<1> QED
  BY <1>2, <1>3, <1>4, <1>5 DEF IInv

LEMMA ActType ==
    ASSUME acts \in 0..MaxActs, Act
    PROVE  acts' \in 0..MaxActs
  BY NewsAssumption DEF Act

LEMMA AloneType ==
    ASSUME alone \in [Clients -> BOOLEAN], NEW w, NEW R, AloneSince(w, R)
    PROVE  /\ alone' \in [Clients -> BOOLEAN]
           /\ \A c \in Clients : alone'[c] => Sole(w, c) /\ (c \in R \/ alone[c])
<1>1. \A c \in Clients : alone'[c] <=> /\ c \in R \/ alone[c]
                                      /\ w.reader[c].attached
                                      /\ ReadersIn(w, w.reader[c].session) = {c}
  BY DEF AloneSince
<1> QED
  BY <1>1 DEF AloneSince, Sole

LEMMA InitInv == Init => IInv
<1> SUFFICES ASSUME Init PROVE IInv
  OBVIOUS
<1>1. /\ Now.session = session /\ Now.terminal = terminal
      /\ Now.reader = reader /\ Now.shown = shown
  BY DEF Now
<1>2. \A c \in Clients : ~reader[c].attached /\ ~reader[c].dirty /\ ~alone[c]
  BY DEF Init
<1>3. Now \in Worlds
  <2>1. NewTerm \in Terminal /\ Blank \in Said
    BY DEF NewTerm, Terminal, Blank, Said, Names, Places
  <2>2. session \in [Sessions -> Session]
    BY DEF Init, Session
  <2>3. reader \in [Clients -> Reader]
    BY DEF Init, Reader
  <2> QED
    BY <2>1, <2>2, <2>3 DEF Init, Now, Worlds
<1>4. Seats(Now) /\ Agree(Now)
  BY <1>1, <1>2 DEF Seats, Agree
<1>5. OneHome(Now)
  BY <1>1 DEF Init, OneHome
<1>6. Fresh(Now)
  BY <1>1 DEF Init, Fresh
<1>7. alone \in [Clients -> BOOLEAN] /\ rung \in [Terms -> Nat] /\ acts \in 0..MaxActs
  BY NewsAssumption DEF Init
<1> QED
  BY <1>2, <1>3, <1>4, <1>5, <1>6, <1>7 DEF IInv, Sound

\* A snapshot to R, then the news of the terminals and of the windows' places.
LEMMA TickStep ==
    ASSUME IInv, NEW R \in SUBSET Clients, Tick(R)
    PROVE  IInv'
<1> DEFINE healed == Snapshot(Now, R)
           said == News(healed)
           ticked == Layout(said, None)
<1>1. /\ R \subseteq {c \in Clients : reader[c].dirty} /\ Become(ticked)
      /\ AloneSince(healed, R) /\ UNCHANGED <<rung, acts>>
  BY DEF Tick
<1>2. Sound(Now) /\ R \in SUBSET {c \in Clients : Now.reader[c].attached}
  BY <1>1, Parted DEF IInv
<1>3. /\ Sound(healed)
      /\ \A c \in Clients : /\ healed.reader[c].attached = reader[c].attached
                            /\ healed.reader[c].session = reader[c].session
                            /\ healed.reader[c].dirty <=> reader[c].dirty /\ c \notin R
      /\ \A s : ReadersIn(healed, s) = ReadersIn(Now, s)
  BY <1>2, SnapshotSeats, SnapshotSound, Parted
<1>4. \A c \in Clients : Sole(Now, c) /\ (c \in R \/ Knows(Now, c)) => Knows(healed, c)
  BY <1>2, SnapshotTells
<1>5. Agree(Now) => Agree(healed)
  BY <1>2, SnapshotAgrees DEF Agree
<1>6. \A c \in Clients : alone'[c] => Sole(healed, c) /\ (c \in R \/ alone[c])
  BY <1>1, AloneType, Parted
<1>7. alone' \in [Clients -> BOOLEAN]
  BY <1>1, AloneType, Parted
<1>8. \A c \in Clients : Sole(healed, c) => Sole(Now, c)
  BY <1>3, Parted DEF Sole
<1> HIDE DEF healed
<1>9. /\ Sound(said) /\ said.reader = healed.reader /\ said.session = healed.session
      /\ \A c \in Clients : Sole(healed, c) /\ Knows(healed, c) => Knows(said, c)
  BY <1>3, NewsSound, NewsSeats, NewsTells
<1>10. Agree(healed) => Agree(said)
  BY <1>9 DEF Agree
<1> HIDE DEF said
<1>11. /\ Sound(ticked)
       /\ \A c \in Clients : /\ ticked.reader[c].attached = healed.reader[c].attached
                             /\ ticked.reader[c].session = healed.reader[c].session
                             /\ ticked.reader[c].dirty = healed.reader[c].dirty
       /\ \A c \in Clients : Knows(said, c) => Knows(ticked, c)
  BY <1>9, LayoutSound, LayoutSeats, LayoutTells
<1>12. Agree(said) => Agree(ticked)
  BY <1>9, LayoutAgrees DEF Agree
<1> HIDE DEF ticked
<1>13. \A s : ReadersIn(ticked, s) = ReadersIn(healed, s)
  BY <1>11 DEF ReadersIn
<1>14. \A c \in Clients : alone'[c] => Sole(ticked, c)
  BY <1>6, <1>11, <1>13 DEF Sole
<1>15. ASSUME NEW c \in Clients, alone'[c], ~ticked.reader[c].dirty
       PROVE  Knows(ticked, c)
  <2>1. c \in R \/ (alone[c] /\ ~reader[c].dirty)
    BY <1>3, <1>6, <1>11, <1>15
  <2>2. c \in R \/ Knows(Now, c)
    BY <2>1 DEF IInv
  <2> QED
    BY <1>4, <1>6, <1>8, <1>9, <1>11, <1>15, <2>2
<1>16. Policy = "Fixed" => Agree(ticked)
  BY <1>5, <1>10, <1>12 DEF IInv
<1>17. rung' \in [Terms -> Nat] /\ acts' \in 0..MaxActs
  BY <1>1, Parted
<1> QED
  BY <1>1, <1>7, <1>11, <1>14, <1>15, <1>16, <1>17, ByWorld

\* The arriving reader may evict another and, in a session without a size, gives
\* it one; then it is sent a snapshot.
LEMMA AttachStep ==
    ASSUME IInv, NEW c \in Clients, NEW s \in Sessions, NEW mode, Attach(c, s, mode)
    PROVE  IInv'
<1> DEFINE fit == Fit(s, reader[c].size, TRUE)
           sized == [session EXCEPT ![s].desktop = fit]
           desk == [Now EXCEPT !.session[s].desktop = fit]
           arrived == [reader[c] EXCEPT !.session = s, !.attached = TRUE, !.heard = TRUE,
                                        !.watch = (mode = "Watch")]
           seats == [d \in Clients |-> IF d = c THEN arrived
                         ELSE IF d \in Evicted(c, s, mode) THEN Gone(reader[d]) ELSE reader[d]]
           seated == [session |-> sized, terminal |-> terminal, reader |-> seats,
                      shown |-> shown]
           v == Snapshot(seated, {c})
<1>0. Sound(Now) /\ IInv
  BY DEF IInv
<1>1. /\ session \in [Sessions -> Session] /\ terminal \in [Terms -> Terminal]
      /\ reader \in [Clients -> Reader] /\ shown \in [Clients -> [Terms -> Said]]
      /\ \A d \in Clients :
            /\ reader[d].attached => /\ reader[d].session \in Sessions
                                     /\ session[reader[d].session].desktop # None
            /\ reader[d].dirty => reader[d].attached
  BY Parted
<1>2. Become(v) /\ AloneSince(seated, {c}) /\ rung' = rung /\ Act
  <2>1. Now \in [session : {session}, terminal : {terminal}, reader : {reader}, shown : {shown}]
        /\ Now.session = session
    BY DEF Now
  <2>2. desk = [session |-> sized, terminal |-> terminal, reader |-> reader, shown |-> shown]
    <3>1. desk = [Now EXCEPT !.session = [Now.session EXCEPT ![s].desktop = fit]]
      OBVIOUS
    <3>2. desk = [Now EXCEPT !.session = sized]
      BY <2>1, <3>1
    <3> HIDE DEF desk, sized
    <3> QED
      BY <2>1, <3>2
  <2>3. /\ desk \in [session : {sized}, terminal : {terminal}, reader : {reader}, shown : {shown}]
        /\ desk.reader = reader
    BY <2>2
  <2>4. [desk EXCEPT !.reader = seats] = seated
    <3> HIDE DEF desk, sized, seats
    <3> QED
      BY <2>3
  <2>5. [desk EXCEPT !.reader = [d \in Clients |->
             IF d = c THEN [desk.reader[c] EXCEPT !.session = s, !.attached = TRUE, !.heard = TRUE,
                                                 !.watch = (mode = "Watch")]
             ELSE IF d \in Evicted(c, s, mode) THEN Gone(desk.reader[d]) ELSE desk.reader[d]]]
        = seated
    <3> HIDE DEF desk
    <3>1. [d \in Clients |->
             IF d = c THEN [desk.reader[c] EXCEPT !.session = s, !.attached = TRUE, !.heard = TRUE,
                                                 !.watch = (mode = "Watch")]
             ELSE IF d \in Evicted(c, s, mode) THEN Gone(desk.reader[d]) ELSE desk.reader[d]]
          = seats
      BY <2>3
    <3> HIDE DEF seats, seated
    <3> QED
      BY <2>4, <3>1
  <2> QED
    BY <2>5 DEF Attach
<1>3. /\ fit \in Sizes /\ fit # None
      /\ Policy = "Fixed" /\ session[s].desktop # None => fit = session[s].desktop
  <2>1. session[s].desktop \in Sizes \union {None} /\ reader[c].size \in Sizes
    BY <1>1 DEF Session, Reader
  <2> QED
    BY <2>1, FitType, NewsAssumption DEF None
<1> HIDE DEF fit
<1>4. /\ sized \in [Sessions -> Session]
      /\ \A z \in Sessions : /\ sized[z].terms = session[z].terms
                             /\ sized[z].desktop = IF z = s THEN fit ELSE session[z].desktop
  BY <1>1, <1>3 DEF Session
<1>5. /\ arrived \in Reader /\ arrived.attached /\ arrived.session = s
  <2>1. reader[c] \in Reader /\ (mode = "Watch") \in BOOLEAN
    BY <1>1
  <2> QED
    BY <2>1 DEF Reader
<1>6. ASSUME NEW d \in Clients
      PROVE  /\ Gone(reader[d]) \in Reader
             /\ ~Gone(reader[d]).attached /\ ~Gone(reader[d]).dirty
  <2>1. reader[d] \in Reader
    BY <1>1
  <2> QED
    BY <2>1 DEF Gone, Reader
<1> HIDE DEF sized, arrived
<1>7. /\ seats \in [Clients -> Reader] /\ seats[c] = arrived
      /\ \A d \in Clients \ {c} : seats[d] = reader[d] \/ ~seats[d].attached
      /\ \A d \in Clients \ {c} : seats[d].dirty => seats[d].attached
  BY <1>1, <1>5, <1>6
<1>8. /\ seated \in Worlds /\ seated.session = sized /\ seated.terminal = terminal
      /\ seated.reader = seats /\ seated.shown = shown
  BY <1>1, <1>4, <1>7 DEF Worlds
<1> HIDE DEF seats, seated
<1>9. Seats(seated)
  <2>1. ASSUME NEW d \in Clients, seats[d].attached
        PROVE  seats[d].session \in Sessions /\ sized[seats[d].session].desktop # None
    BY <1>1, <1>3, <1>4, <1>5, <1>7, <2>1
  <2>2. \A d \in Clients : seats[d].dirty => seats[d].attached
    BY <1>5, <1>7
  <2> QED
    BY <1>8, <2>1, <2>2 DEF Seats
<1>10. /\ Sound(seated)
       /\ \A d \in Clients \ {c} : seats[d].attached /\ Knows(Now, d) => Knows(seated, d)
  <2>1. \A z \in Sessions : seated.session[z].terms = Now.session[z].terms
    BY <1>0, <1>4, <1>8, Parted
  <2>2. seated.terminal = Now.terminal /\ seated.shown = Now.shown
    BY <1>0, <1>8, Parted
  <2>3. Sound(seated) /\ \A d \in Clients :
            seated.reader[d].attached /\ seated.reader[d].session = Now.reader[d].session
            /\ Now.reader[d].attached /\ Knows(Now, d) => Knows(seated, d)
    BY <1>0, <1>8, <1>9, <2>1, <2>2, Reseated
  <2>4. \A d \in Clients \ {c} : seats[d].attached => seats[d] = Now.reader[d]
    BY <1>0, <1>7, Parted
  <2> QED
    BY <1>8, <2>3, <2>4
<1>11. {c} \in SUBSET {d \in Clients : seated.reader[d].attached}
  BY <1>5, <1>7, <1>8
<1>12. /\ Sound(v)
       /\ \A d \in Clients : /\ v.reader[d].attached = seats[d].attached
                             /\ v.reader[d].session = seats[d].session
                             /\ v.reader[d].dirty <=> seats[d].dirty /\ d # c
       /\ \A z : ReadersIn(v, z) = ReadersIn(seated, z)
  BY <1>8, <1>10, <1>11, SnapshotSound, SnapshotSeats
<1>13. /\ alone' \in [Clients -> BOOLEAN]
       /\ \A d \in Clients : alone'[d] => Sole(seated, d) /\ (d = c \/ alone[d])
  BY <1>0, <1>2, AloneType, Parted
<1>14. \A d \in Clients : Sole(seated, d) => Sole(v, d)
  BY <1>8, <1>12 DEF Sole
<1>15. ASSUME NEW d \in Clients, alone'[d], ~v.reader[d].dirty PROVE Knows(v, d)
  <2>1. Sole(seated, d) /\ (d = c \/ alone[d])
    BY <1>13, <1>15
  <2>2. ASSUME d # c PROVE Knows(seated, d)
    <3>1. seats[d].attached /\ alone[d]
      BY <1>8, <2>1, <2>2 DEF Sole
    <3>2. ~reader[d].dirty
      BY <1>7, <1>12, <1>15, <2>2, <3>1
    <3>3. Knows(Now, d)
      BY <3>1, <3>2 DEF IInv
    <3> QED
      BY <1>10, <2>2, <3>1, <3>3
  <2> QED
    BY <1>10, <1>11, <2>1, <2>2, SnapshotTells
<1>16. ASSUME Policy = "Fixed" PROVE Agree(v)
  <2>1. ASSUME NEW d \in Clients \ {c}, seats[d].attached
        PROVE  seats[d].world = sized[seats[d].session].desktop
    <3>1. seats[d] = reader[d] /\ reader[d].attached /\ reader[d].session \in Sessions
          /\ session[reader[d].session].desktop # None
      BY <1>1, <1>7, <2>1
    <3>2. reader[d].world = session[reader[d].session].desktop
      BY <1>0, <1>16, <3>1, Parted DEF IInv, Agree
    <3>3. sized[reader[d].session].desktop = session[reader[d].session].desktop
      BY <1>3, <1>4, <1>16, <3>1
    <3> QED
      BY <3>1, <3>2, <3>3
  <2> QED
    BY <1>8, <1>10, <1>11, <2>1, SnapshotAgrees
<1> HIDE DEF v
<1>17. rung' \in [Terms -> Nat] /\ acts' \in 0..MaxActs
  BY <1>0, <1>2, ActType, Parted
<1> QED
  BY <1>2, <1>12, <1>13, <1>14, <1>15, <1>16, <1>17, ByWorld

LEMMA DetachStep ==
    ASSUME IInv, NEW c \in Clients, Detach(c)
    PROVE  IInv'
<1> DEFINE seats == [reader EXCEPT ![c] = Gone(reader[c])]
           w == [Now EXCEPT !.reader[c] = Gone(@)]
           v == [session |-> session, terminal |-> terminal, reader |-> seats, shown |-> shown]
<1>0. Sound(Now) /\ IInv
  BY DEF IInv
<1>1. /\ session \in [Sessions -> Session] /\ terminal \in [Terms -> Terminal]
      /\ reader \in [Clients -> Reader] /\ shown \in [Clients -> [Terms -> Said]]
      /\ \A d \in Clients :
            /\ reader[d].attached => /\ reader[d].session \in Sessions
                                     /\ session[reader[d].session].desktop # None
            /\ reader[d].dirty => reader[d].attached
  BY Parted
<1>2. Become(v) /\ AloneSince(v, {}) /\ rung' = rung /\ Act
  <2>1. w = v
    BY DEF Now
  <2> QED
    BY <2>1 DEF Detach
<1>3. Gone(reader[c]) \in Reader /\ ~Gone(reader[c]).attached /\ ~Gone(reader[c]).dirty
  BY <1>1 DEF Gone, Reader
<1>4. /\ seats \in [Clients -> Reader] /\ ~seats[c].attached /\ ~seats[c].dirty
      /\ \A d \in Clients \ {c} : seats[d] = reader[d]
  BY <1>1, <1>3
<1> HIDE DEF seats
<1>5. /\ v \in Worlds /\ v.session = session /\ v.terminal = terminal
      /\ v.reader = seats /\ v.shown = shown
  BY <1>1, <1>4 DEF Worlds
<1> HIDE DEF v
<1>6. Seats(v)
  BY <1>1, <1>4, <1>5 DEF Seats
<1>7. Sound(v) /\ \A d \in Clients :
          v.reader[d].attached /\ v.reader[d].session = Now.reader[d].session
          /\ Now.reader[d].attached /\ Knows(Now, d) => Knows(v, d)
  BY <1>0, <1>5, <1>6, Reseated, Parted
<1>8. /\ alone' \in [Clients -> BOOLEAN]
      /\ \A d \in Clients : alone'[d] => Sole(v, d) /\ alone[d]
  BY <1>0, <1>2, AloneType, Parted
<1>9. ASSUME NEW d \in Clients, alone'[d], ~v.reader[d].dirty PROVE Knows(v, d)
  <2>1. v.reader[d].attached /\ alone[d]
    BY <1>8, <1>9 DEF Sole
  <2>2. v.reader[d] = reader[d]
    BY <1>4, <1>5, <2>1
  <2>3. Knows(Now, d)
    BY <1>9, <2>1, <2>2 DEF IInv
  <2> QED
    BY <1>0, <1>7, <2>1, <2>2, <2>3, Parted
<1>10. Policy = "Fixed" => Agree(v)
  <2>1. Now.session = session /\ Now.reader = reader
    BY <1>0, Parted
  <2> QED
    BY <1>4, <1>5, <2>1 DEF IInv, Agree
<1>11. rung' \in [Terms -> Nat] /\ acts' \in 0..MaxActs
  BY <1>0, <1>2, ActType, Parted
<1> QED
  BY <1>2, <1>7, <1>8, <1>9, <1>10, <1>11, ByWorld

\* A new size is announced to all who are in the session.
LEMMA Resized ==
    ASSUME IInv, NEW c \in Clients, NEW size \in Sizes,
           NEW w, w = Now \/ w = [Now EXCEPT !.reader[c].size = size],
           NEW s \in Sessions \union {None}, NEW wanted, s # None => wanted \in Sizes,
           Become(Reshaped(w, s, wanted)), UNCHANGED <<alone, rung>>, Act
    PROVE  IInv'
<1>0. Sound(Now) /\ IInv
  BY DEF IInv
<1>1. /\ session \in [Sessions -> Session] /\ terminal \in [Terms -> Terminal]
      /\ reader \in [Clients -> Reader] /\ shown \in [Clients -> [Terms -> Said]]
      /\ \A d \in Clients :
            /\ reader[d].attached => /\ reader[d].session \in Sessions
                                     /\ session[reader[d].session].desktop # None
            /\ reader[d].dirty => reader[d].attached
      /\ Now.session = session /\ Now.terminal = terminal
      /\ Now.reader = reader /\ Now.shown = shown
  BY Parted
<1>4. /\ w \in Worlds /\ w.session = session /\ w.terminal = terminal /\ w.shown = shown
      /\ \A d \in Clients : /\ w.reader[d].attached = reader[d].attached
                            /\ w.reader[d].session = reader[d].session
                            /\ w.reader[d].dirty = reader[d].dirty
                            /\ w.reader[d].world = reader[d].world
  <2>1. CASE w = Now
    BY <1>0, <1>1, <2>1 DEF Sound
  <2>2. CASE w = [Now EXCEPT !.reader[c].size = size]
    <3> DEFINE sized == [reader EXCEPT ![c] = [reader[c] EXCEPT !.size = size]]
    <3>1. w = [session |-> session, terminal |-> terminal, reader |-> sized, shown |-> shown]
      BY <2>2 DEF Now
    <3>2. sized \in [Clients -> Reader]
          /\ \A d \in Clients : /\ sized[d].attached = reader[d].attached
                                /\ sized[d].session = reader[d].session
                                /\ sized[d].dirty = reader[d].dirty
                                /\ sized[d].world = reader[d].world
      BY <1>1 DEF Reader
    <3> HIDE DEF sized
    <3> QED
      BY <1>1, <3>1, <3>2 DEF Worlds
  <2> QED
    BY <2>1, <2>2
<1>5. Seats(w)
  BY <1>1, <1>4 DEF Seats
<1>6. Sound(w) /\ \A d \in Clients : reader[d].attached /\ Knows(Now, d) => Knows(w, d)
  BY <1>0, <1>1, <1>4, <1>5, Reseated
<1>7. \A z : ReadersIn(w, z) = ReadersIn(Now, z)
  BY <1>1, <1>4 DEF ReadersIn
<1>8. \A d \in Clients : Sole(Now, d) => Sole(w, d) /\ reader[d].attached
  BY <1>1, <1>4, <1>7 DEF Sole
<1>9. Agree(Now) => Agree(w)
  BY <1>1, <1>4 DEF Agree
<1> DEFINE v == Reshaped(w, s, wanted)
<1>10. /\ Sound(v)
       /\ \A d \in Clients : /\ v.reader[d].dirty = w.reader[d].dirty
                             /\ Sole(w, d) => Sole(v, d)
                             /\ Sole(w, d) /\ Knows(w, d) => Knows(v, d)
       /\ Agree(w) => Agree(v)
  BY <1>6, ReshapedKeeps
<1>11. Become(v) /\ alone' = alone /\ rung' = rung /\ acts' \in 0..MaxActs
  BY <1>0, ActType, Parted
<1> HIDE DEF v
<1>12. \A d \in Clients : alone'[d] => Sole(v, d)
  BY <1>8, <1>10, <1>11 DEF IInv
<1>13. \A d \in Clients : alone'[d] /\ ~v.reader[d].dirty => Knows(v, d)
  BY <1>4, <1>6, <1>8, <1>10, <1>11 DEF IInv
<1>14. Policy = "Fixed" => Agree(v)
  BY <1>9, <1>10 DEF IInv
<1>15. alone' \in [Clients -> BOOLEAN] /\ rung' \in [Terms -> Nat]
  BY <1>0, <1>11, Parted
<1> QED
  BY <1>10, <1>11, <1>12, <1>13, <1>14, <1>15, ByWorld

LEMMA ReshapeStep ==
    ASSUME IInv, NEW c \in Clients, NEW size \in Sizes,
           ClientResize(c, size) \/ SetDesktopSize(c, size)
    PROVE  IInv'
<1>1. session \in [Sessions -> Session] /\ reader[c].session \in Sessions \union {None}
  BY Parted DEF Reader
<1>2. CASE ClientResize(c, size)
  <2> DEFINE s == IF reader[c].heard THEN reader[c].session ELSE None
             wanted == IF s = None THEN size ELSE Fit(s, size, Cardinality(Readers(s)) > 1)
             w == [Now EXCEPT !.reader[c].size = size]
  <2>1. s \in Sessions \union {None}
    BY <1>1
  <2>2. Become(Reshaped(w, s, wanted)) /\ UNCHANGED <<alone, rung>> /\ Act
    BY <1>2 DEF ClientResize
  <2>3. ASSUME s # None PROVE wanted \in Sizes
    <3> HIDE DEF s
    <3>1. session[s].desktop \in Sizes \union {None}
      BY <1>1, <2>1, <2>3 DEF Session
    <3>2. (Cardinality(Readers(s)) > 1) \in BOOLEAN
      OBVIOUS
    <3> QED
      BY <2>3, <3>1, <3>2, FitType
  <2>4. w = Now \/ w = [Now EXCEPT !.reader[c].size = size]
    OBVIOUS
  <2> HIDE DEF s, wanted, w
  <2> QED
    BY <2>1, <2>2, <2>3, <2>4, Resized
<1>3. CASE SetDesktopSize(c, size)
  <2>1. Become(Reshaped(Now, reader[c].session, size)) /\ UNCHANGED <<alone, rung>> /\ Act
    BY <1>3 DEF SetDesktopSize
  <2> QED
    BY <1>1, <2>1, Resized
<1> QED
  BY <1>2, <1>3

(***************************************************************************)
(* Steps that say nothing: what they change was not announced.             *)
(***************************************************************************)
LEMMA ByParts ==
    ASSUME IInv, UNCHANGED alone,
           session' \in [Sessions -> Session], terminal' \in [Terms -> Terminal],
           reader' \in [Clients -> Reader], shown' \in [Clients -> [Terms -> Said]],
           rung' \in [Terms -> Nat], acts' \in 0..MaxActs,
           \A s \in Sessions : session'[s].desktop = session[s].desktop,
           \A s, z \in Sessions : s # z => session'[s].terms \cap session'[z].terms = {},
           \A c \in Clients : /\ reader'[c].attached = reader[c].attached
                              /\ reader'[c].session = reader[c].session
                              /\ reader'[c].world = reader[c].world
                              /\ reader[c].dirty => reader'[c].dirty
                              /\ reader'[c].dirty => reader[c].attached,
           \A t \in Terms : (\A s \in Sessions : t \notin session'[s].terms) =>
               /\ \A s \in Sessions : t \notin session[s].terms
               /\ terminal'[t] = terminal[t] /\ \A c \in Clients : shown'[c][t] = shown[c][t],
           \A c \in Clients : Sole(Now, c) /\ Knows(Now, c) /\ ~reader'[c].dirty =>
               \A t \in session'[reader[c].session].terms : Told(terminal'[t], shown'[c][t])
    PROVE  IInv'
<1>0. /\ Now.session = session /\ Now.terminal = terminal
      /\ Now.reader = reader /\ Now.shown = shown
      /\ Sound(Now) /\ alone \in [Clients -> BOOLEAN]
  BY Parted DEF IInv
<1> DEFINE v == [session |-> session', terminal |-> terminal', reader |-> reader',
                 shown |-> shown']
<1>1. /\ v \in Worlds /\ v.session = session' /\ v.terminal = terminal'
      /\ v.reader = reader' /\ v.shown = shown' /\ Become(v)
  BY DEF Worlds, Become
<1> HIDE DEF v
<1>2. Seats(v)
  <2>1. Seats(Now)
    BY <1>0 DEF Sound
  <2> QED
    BY <1>0, <1>1, <2>1 DEF Seats
<1>3. OneHome(v)
  BY <1>1 DEF OneHome
<1>4. Fresh(v)
  <2>1. ASSUME NEW t \in Terms, Homeless(v, t)
        PROVE  v.terminal[t] = NewTerm /\ \A c \in Clients : v.shown[c][t] = Blank
    <3>1. Homeless(Now, t) /\ terminal'[t] = terminal[t]
          /\ \A c \in Clients : shown'[c][t] = shown[c][t]
      BY <1>0, <1>1, <2>1 DEF Homeless
    <3>2. terminal[t] = NewTerm /\ \A c \in Clients : shown[c][t] = Blank
      BY <1>0, <3>1 DEF Sound, Fresh
    <3> QED
      BY <1>1, <3>1, <3>2
  <2> QED
    BY <2>1 DEF Fresh
<1>5. \A z : ReadersIn(v, z) = ReadersIn(Now, z)
  BY <1>0, <1>1 DEF ReadersIn
<1>6. ASSUME NEW c \in Clients, alone'[c] PROVE Sole(Now, c) /\ Sole(v, c)
  <2>1. Sole(Now, c)
    BY <1>6 DEF IInv
  <2> QED
    BY <1>0, <1>1, <1>5, <2>1 DEF Sole
<1>7. ASSUME NEW c \in Clients, alone'[c], ~v.reader[c].dirty PROVE Knows(v, c)
  <2>1. alone[c] /\ ~reader[c].dirty /\ Sole(Now, c)
    BY <1>1, <1>6, <1>7
  <2>2. Knows(Now, c) /\ reader[c].attached
    BY <1>0, <2>1 DEF IInv, Sole
  <2>3. \A t \in session'[reader[c].session].terms : Told(terminal'[t], shown'[c][t])
    BY <1>1, <1>7, <2>1, <2>2
  <2>4. ReadBy(v, c) = session'[reader[c].session].terms
    BY <1>1, <2>2 DEF ReadBy
  <2> QED
    BY <1>1, <2>3, <2>4 DEF Knows
<1>8. ASSUME Policy = "Fixed" PROVE Agree(v)
  <2>1. Agree(Now)
    BY <1>8 DEF IInv
  <2>2. Seats(Now)
    BY <1>0 DEF Sound
  <2> QED
    BY <1>0, <1>1, <2>1, <2>2 DEF Agree, Seats
<1>9. Sound(v)
  BY <1>1, <1>2, <1>3, <1>4 DEF Sound
<1>10. alone' \in [Clients -> BOOLEAN]
  BY <1>0
<1> QED
  BY <1>1, <1>6, <1>7, <1>8, <1>9, <1>10, ByWorld

\* One terminal that is there changes; nobody knows less of it.
LEMMA OneTerminal ==
    ASSUME IInv, UNCHANGED <<session, reader, alone>>, NEW t \in Open, NEW x \in Terminal,
           terminal' = [terminal EXCEPT ![t] = x],
           shown' \in [Clients -> [Terms -> Said]],
           \A c \in Clients, u \in Terms : u # t => shown'[c][u] = shown[c][u],
           \A c \in Clients : Told(terminal[t], shown[c][t]) => Told(x, shown'[c][t]),
           rung' \in [Terms -> Nat], acts' \in 0..MaxActs
    PROVE  IInv'
<1>1. /\ session \in [Sessions -> Session] /\ terminal \in [Terms -> Terminal]
      /\ reader \in [Clients -> Reader]
      /\ Now.session = session /\ Now.terminal = terminal
      /\ Now.reader = reader /\ Now.shown = shown
      /\ \A c \in Clients : reader[c].attached => reader[c].session \in Sessions
      /\ \A c \in Clients : reader[c].dirty => reader[c].attached
      /\ \A s, z \in Sessions : s # z => session[s].terms \cap session[z].terms = {}
  BY Parted
<1>2. t \in Terms /\ \E s \in Sessions : t \in session[s].terms
  BY DEF Open, Homes
<1>3. /\ terminal' \in [Terms -> Terminal] /\ terminal'[t] = x
      /\ \A u \in Terms : u # t => terminal'[u] = terminal[u]
  BY <1>1, <1>2
<1>4. ASSUME NEW c \in Clients, Sole(Now, c), Knows(Now, c),
             NEW u \in session'[reader[c].session].terms
      PROVE  Told(terminal'[u], shown'[c][u])
  <2>1. u \in ReadBy(Now, c) /\ u \in Terms
    BY <1>1, <1>4 DEF Sole, ReadBy, Session
  <2>2. Told(terminal[u], shown[c][u])
    BY <1>1, <1>4, <2>1 DEF Knows
  <2> QED
    BY <1>3, <2>1, <2>2
<1> QED
  BY <1>1, <1>2, <1>3, <1>4, ByParts

LEMMA ChildSteps ==
    ASSUME IInv, NEW t \in Terms, ChildStep(t)
    PROVE  IInv'
<1>1. /\ terminal \in [Terms -> Terminal] /\ shown \in [Clients -> [Terms -> Said]]
      /\ rung \in [Terms -> Nat] /\ acts \in 0..MaxActs
  BY Parted
<1>2. t \in Open /\ UNCHANGED <<session, reader, shown, alone>> /\ acts' \in 0..MaxActs
  BY <1>1, ActType DEF ChildStep, Ring, Write, Frame
<1>3. rung' \in [Terms -> Nat]
  <2>1. \A u \in Terms : rung[u] + 1 \in Nat
    BY <1>1
  <2> QED
    BY <1>1, <2>1 DEF ChildStep, Ring, Write, Frame
<1>4. PICK x \in Terminal :
          /\ terminal' = [terminal EXCEPT ![t] = x] /\ x.said = terminal[t].said
          /\ x.metaTold = terminal[t].metaTold /\ x.nameTold = terminal[t].nameTold
          /\ x.placeTold = terminal[t].placeTold
  <2>1. terminal[t] \in Terminal
    BY <1>1
  <2>2. CASE Ring(t) \/ Write(t)
    <3>1. PICK d \in Damages : Damaged(t, d)
      BY <2>2 DEF Ring, Write, Damages
    <3> DEFINE x == [terminal[t] EXCEPT !.damage = @ \union {d}]
    <3>2. terminal' = [terminal EXCEPT ![t] = x]
      BY <3>1 DEF Damaged
    <3>3. x \in Terminal /\ x.said = terminal[t].said
          /\ x.metaTold = terminal[t].metaTold /\ x.nameTold = terminal[t].nameTold
          /\ x.placeTold = terminal[t].placeTold
      BY <2>1 DEF Terminal
    <3> QED
      BY <3>2, <3>3
  <2>3. CASE Frame(t)
    <3> DEFINE x == [terminal[t] EXCEPT !.frame = ~@]
    <3>1. terminal' = [terminal EXCEPT ![t] = x]
      BY <2>3 DEF Frame
    <3>2. x \in Terminal /\ x.said = terminal[t].said
          /\ x.metaTold = terminal[t].metaTold /\ x.nameTold = terminal[t].nameTold
          /\ x.placeTold = terminal[t].placeTold
      BY <2>1 DEF Terminal
    <3> QED
      BY <3>1, <3>2
  <2> QED
    BY <2>2, <2>3 DEF ChildStep
<1>5. \A c \in Clients : Told(terminal[t], shown[c][t]) => Told(x, shown'[c][t])
  BY <1>2, <1>4 DEF Told
<1>6. shown' \in [Clients -> [Terms -> Said]]
      /\ \A c \in Clients, u \in Terms : u # t => shown'[c][u] = shown[c][u]
  BY <1>1, <1>2
<1> QED
  BY <1>2, <1>3, <1>4, <1>5, <1>6, OneTerminal

LEMMA WindowSteps ==
    ASSUME IInv, NEW c \in Clients, NEW t \in Terms,
           \/ \E place \in Places : SetLayout(c, t, place)
           \/ \E name \in Names : RenameTerminal(c, t, name)
           \/ MoveResize(c, t)
    PROVE  IInv'
<1>1. /\ terminal \in [Terms -> Terminal] /\ shown \in [Clients -> [Terms -> Said]]
      /\ rung \in [Terms -> Nat] /\ acts \in 0..MaxActs
      /\ \A d \in Clients : reader[d].attached => reader[d].session \in Sessions
      /\ terminal[t] \in Terminal /\ terminal[t].said \in Said
  BY Parted DEF Terminal
<1>2. CASE \E place \in Places : SetLayout(c, t, place)
  <2>1. PICK place \in Places : SetLayout(c, t, place)
    BY <1>2
  <2> DEFINE said == [terminal[t].said EXCEPT !.place = place]
             y == [terminal[t] EXCEPT !.said = said]
             x == [y EXCEPT !.placeTold = FALSE]
             told == [shown[c][t] EXCEPT !.place = place]
  <2>2. /\ terminal' = [terminal EXCEPT ![t] = x]
        /\ shown' = [shown EXCEPT ![c] = [shown[c] EXCEPT ![t] = told]]
        /\ UNCHANGED <<session, reader, alone, rung>> /\ acts' \in 0..MaxActs
    BY <1>1, <2>1, ActType DEF SetLayout
  <2>3. t \in Open
    BY <1>1, <2>1 DEF SetLayout, MayChange, Open, Homes
  <2>4. /\ said \in Said /\ said.bells = terminal[t].said.bells
        /\ said.marks = terminal[t].said.marks /\ said.name = terminal[t].said.name
    BY <1>1 DEF Said
  <2> HIDE DEF said
  <2>5. /\ x \in Terminal /\ x.said = said /\ x.metaTold = terminal[t].metaTold
        /\ x.nameTold = terminal[t].nameTold /\ ~x.placeTold
    BY <1>1, <2>4 DEF Terminal
  <2>6. /\ told \in Said /\ told.bells = shown[c][t].bells
        /\ told.marks = shown[c][t].marks /\ told.name = shown[c][t].name
    <3>1. shown[c][t] \in Said
      BY <1>1
    <3> QED
      BY <3>1 DEF Said
  <2> HIDE DEF x, told
  <2>7. /\ shown' \in [Clients -> [Terms -> Said]]
        /\ \A d \in Clients, u \in Terms : u # t => shown'[d][u] = shown[d][u]
        /\ \A d \in Clients : shown'[d][t] = IF d = c THEN told ELSE shown[d][t]
    <3>1. [shown[c] EXCEPT ![t] = told] \in [Terms -> Said]
      BY <1>1, <2>6
    <3> QED
      BY <1>1, <2>2, <3>1
  <2>8. \A d \in Clients : Told(terminal[t], shown[d][t]) => Told(x, shown'[d][t])
    BY <2>4, <2>5, <2>6, <2>7 DEF Told
  <2> QED
    BY <1>1, <2>2, <2>3, <2>5, <2>7, <2>8, OneTerminal
<1>3. CASE \E name \in Names : RenameTerminal(c, t, name)
  <2>1. PICK name \in Names : RenameTerminal(c, t, name)
    BY <1>3
  <2> DEFINE said == [terminal[t].said EXCEPT !.name = name]
             y == [terminal[t] EXCEPT !.said = said]
             x == [y EXCEPT !.nameTold = FALSE]
  <2>2. /\ terminal' = [terminal EXCEPT ![t] = x] /\ t \in Open
        /\ UNCHANGED <<session, reader, shown, alone, rung>> /\ acts' \in 0..MaxActs
    BY <1>1, <2>1, ActType DEF RenameTerminal
  <2>3. /\ said \in Said /\ said.bells = terminal[t].said.bells
        /\ said.marks = terminal[t].said.marks /\ said.place = terminal[t].said.place
    BY <1>1 DEF Said
  <2> HIDE DEF said
  <2>4. /\ x \in Terminal /\ x.said = said /\ x.metaTold = terminal[t].metaTold
        /\ ~x.nameTold /\ x.placeTold = terminal[t].placeTold
    BY <1>1, <2>3 DEF Terminal
  <2> HIDE DEF x
  <2>5. \A d \in Clients : Told(terminal[t], shown[d][t]) => Told(x, shown'[d][t])
    BY <2>2, <2>3, <2>4 DEF Told
  <2>6. shown' \in [Clients -> [Terms -> Said]] /\ rung' \in [Terms -> Nat]
        /\ \A d \in Clients, u \in Terms : u # t => shown'[d][u] = shown[d][u]
    BY <1>1, <2>2
  <2> QED
    BY <2>2, <2>4, <2>5, <2>6, OneTerminal
<1>4. CASE MoveResize(c, t)
  <2> DEFINE y == [terminal[t] EXCEPT !.damage = @ \union {"text"}]
             x == [y EXCEPT !.resized = TRUE]
  <2>1. /\ terminal' = [terminal EXCEPT ![t] = x] /\ t \in Open
        /\ UNCHANGED <<session, reader, shown, alone, rung>> /\ acts' \in 0..MaxActs
    BY <1>1, <1>4, ActType DEF MoveResize
  <2>2. /\ x \in Terminal /\ x.said = terminal[t].said /\ x.metaTold = terminal[t].metaTold
        /\ x.nameTold = terminal[t].nameTold /\ x.placeTold = terminal[t].placeTold
    BY <1>1 DEF Terminal, Damages
  <2> HIDE DEF x
  <2>3. \A d \in Clients : Told(terminal[t], shown[d][t]) => Told(x, shown'[d][t])
    BY <2>1, <2>2 DEF Told
  <2>4. shown' \in [Clients -> [Terms -> Said]] /\ rung' \in [Terms -> Nat]
        /\ \A d \in Clients, u \in Terms : u # t => shown'[d][u] = shown[d][u]
    BY <1>1, <2>1
  <2> QED
    BY <2>1, <2>2, <2>3, <2>4, OneTerminal
<1> QED
  BY <1>2, <1>3, <1>4

LEMMA ReaderSteps ==
    ASSUME IInv, NEW c \in Clients, HearDetached(c) \/ FallBehind(c)
    PROVE  IInv'
<1>1. /\ session \in [Sessions -> Session] /\ terminal \in [Terms -> Terminal]
      /\ reader \in [Clients -> Reader] /\ shown \in [Clients -> [Terms -> Said]]
      /\ rung \in [Terms -> Nat] /\ acts \in 0..MaxActs
      /\ Now.session = session /\ Now.terminal = terminal
      /\ Now.reader = reader /\ Now.shown = shown
      /\ \A d \in Clients : reader[d].dirty => reader[d].attached
      /\ \A s, z \in Sessions : s # z => session[s].terms \cap session[z].terms = {}
      /\ reader[c] \in Reader
  BY Parted
<1>2. UNCHANGED <<session, terminal, shown, alone, rung>> /\ acts' \in 0..MaxActs
  BY <1>1, ActType DEF HearDetached, FallBehind
<1>3. /\ reader' \in [Clients -> Reader]
      /\ \A d \in Clients : /\ reader'[d].attached = reader[d].attached
                            /\ reader'[d].session = reader[d].session
                            /\ reader'[d].world = reader[d].world
                            /\ reader[d].dirty => reader'[d].dirty
                            /\ reader'[d].dirty => reader[d].attached
  <2>1. CASE HearDetached(c)
    <3> DEFINE x == [reader[c] EXCEPT !.heard = FALSE]
    <3>1. reader' = [reader EXCEPT ![c] = x]
      BY <2>1 DEF HearDetached
    <3>2. /\ x \in Reader /\ x.attached = reader[c].attached /\ x.session = reader[c].session
          /\ x.world = reader[c].world /\ x.dirty = reader[c].dirty
      BY <1>1 DEF Reader
    <3> HIDE DEF x
    <3> QED
      BY <1>1, <3>1, <3>2
  <2>2. CASE FallBehind(c)
    <3> DEFINE x == [reader[c] EXCEPT !.dirty = TRUE]
    <3>1. reader' = [reader EXCEPT ![c] = x] /\ reader[c].attached
      BY <2>2 DEF FallBehind
    <3>2. /\ x \in Reader /\ x.attached = reader[c].attached /\ x.session = reader[c].session
          /\ x.world = reader[c].world /\ x.dirty
      BY <1>1 DEF Reader
    <3> HIDE DEF x
    <3> QED
      BY <1>1, <3>1, <3>2
  <2> QED
    BY <2>1, <2>2
<1>4. ASSUME NEW d \in Clients, Sole(Now, d), Knows(Now, d),
             NEW u \in session'[reader[d].session].terms
      PROVE  Told(terminal'[u], shown'[d][u])
  BY <1>1, <1>2, <1>4 DEF Sole, Knows, ReadBy
<1> QED
  BY <1>1, <1>2, <1>3, <1>4, ByParts

\* Where a terminal is, the session's other parts being as they were.
LEMMA HomeType ==
    ASSUME NEW t \in Open
    PROVE  Home(t) \in Sessions /\ t \in session[Home(t)].terms
  BY DEF Open, Home, Homes

LEMMA SessionSteps ==
    ASSUME IInv, NEW c \in Clients, NEW t \in Terms, Input(c, t) \/ NewTerminal(c, t)
    PROVE  IInv'
<1>1. /\ session \in [Sessions -> Session] /\ terminal \in [Terms -> Terminal]
      /\ reader \in [Clients -> Reader] /\ shown \in [Clients -> [Terms -> Said]]
      /\ rung \in [Terms -> Nat] /\ acts \in 0..MaxActs
      /\ Now.session = session /\ Now.terminal = terminal
      /\ Now.reader = reader /\ Now.shown = shown /\ Fresh(Now)
      /\ \A d \in Clients : /\ reader[d].attached => reader[d].session \in Sessions
                            /\ reader[d].dirty => reader[d].attached
      /\ \A s, z \in Sessions : s # z => session[s].terms \cap session[z].terms = {}
  BY Parted DEF IInv, Sound
<1>2. UNCHANGED <<terminal, reader, shown, alone, rung>> /\ acts' \in 0..MaxActs
  BY <1>1, ActType DEF Input, NewTerminal
<1>3. CASE Input(c, t)
  <2> DEFINE h == Home(t)
             x == [session[h] EXCEPT !.last = t]
  <2>1. h \in Sessions /\ session' = [session EXCEPT ![h] = x]
    BY <1>3, HomeType DEF Input
  <2>2. x \in Session /\ x.terms = session[h].terms /\ x.desktop = session[h].desktop
    <3>1. session[h] \in Session
      BY <1>1, <2>1
    <3> QED
      BY <3>1 DEF Session
  <2> HIDE DEF h, x
  <2>3. /\ session' \in [Sessions -> Session]
        /\ \A s \in Sessions : /\ session'[s].terms = session[s].terms
                               /\ session'[s].desktop = session[s].desktop
    BY <1>1, <2>1, <2>2
  <2>4. ASSUME NEW d \in Clients, Sole(Now, d), Knows(Now, d),
               NEW u \in session'[reader[d].session].terms
        PROVE  Told(terminal'[u], shown'[d][u])
    BY <1>1, <1>2, <2>3, <2>4 DEF Sole, Knows, ReadBy
  <2> QED
    BY <1>1, <1>2, <2>3, <2>4, ByParts
<1>4. CASE NewTerminal(c, t)
  <2> DEFINE h == reader[c].session
             y == [session[h] EXCEPT !.terms = @ \union {t}]
             x == [y EXCEPT !.last = t]
  <2>1. h \in Sessions /\ session' = [session EXCEPT ![h] = x]
    BY <1>1, <1>4 DEF NewTerminal, MayChange
  <2>2. x \in Session /\ x.terms = session[h].terms \union {t} /\ x.desktop = session[h].desktop
    <3>1. session[h] \in Session
      BY <1>1, <2>1
    <3> QED
      BY <3>1 DEF Session
  <2>3. \A s \in Sessions : t \notin session[s].terms
    BY <1>4 DEF NewTerminal, Open, Homes
  <2> HIDE DEF h, x
  <2>4. /\ session' \in [Sessions -> Session]
        /\ \A s \in Sessions : /\ session'[s].terms =
                                      session[s].terms \union (IF s = h THEN {t} ELSE {})
                               /\ session'[s].desktop = session[s].desktop
    <3>1. /\ session' \in [Sessions -> Session] /\ session'[h] = x
          /\ \A s \in Sessions : s # h => session'[s] = session[s]
      BY <1>1, <2>1, <2>2
    <3> QED
      BY <2>2, <3>1
  <2>5. \A d \in Clients : Told(terminal[t], shown[d][t])
    <3>1. Homeless(Now, t)
      BY <1>1, <2>3 DEF Homeless
    <3>2. terminal[t] = NewTerm /\ \A d \in Clients : shown[d][t] = Blank
      BY <1>1, <3>1 DEF Fresh
    <3>3. Told(NewTerm, Blank)
      BY DEF Told, NewTerm
    <3> QED
      BY <3>2, <3>3
  <2>6. ASSUME NEW d \in Clients, Sole(Now, d), Knows(Now, d),
               NEW u \in session'[reader[d].session].terms
        PROVE  Told(terminal'[u], shown'[d][u])
    BY <1>1, <1>2, <2>4, <2>5, <2>6 DEF Sole, Knows, ReadBy
  <2>7. \A s, z \in Sessions : s # z => session'[s].terms \cap session'[z].terms = {}
    BY <1>1, <2>3, <2>4
  <2> QED
    BY <1>1, <1>2, <2>4, <2>6, <2>7, ByParts
<1> QED
  BY <1>3, <1>4

\* Those who are where it goes are owed a snapshot, and nobody else reads it.
LEMMA MoveStep ==
    ASSUME IInv, NEW c \in Clients, NEW t \in Terms, NEW z \in Sessions, MoveTerminal(c, t, z)
    PROVE  IInv'
<1>1. /\ session \in [Sessions -> Session] /\ terminal \in [Terms -> Terminal]
      /\ reader \in [Clients -> Reader] /\ shown \in [Clients -> [Terms -> Said]]
      /\ rung \in [Terms -> Nat] /\ acts \in 0..MaxActs
      /\ Now.session = session /\ Now.terminal = terminal
      /\ Now.reader = reader /\ Now.shown = shown
      /\ \A d \in Clients : /\ reader[d].attached => reader[d].session \in Sessions
                            /\ reader[d].dirty => reader[d].attached
      /\ \A s, q \in Sessions : s # q => session[s].terms \cap session[q].terms = {}
  BY Parted
<1> DEFINE h == Home(t)
           left == [session[h] EXCEPT !.terms = @ \ {t}]
           joined == [session[z] EXCEPT !.terms = @ \union {t}]
           said == [terminal[t].said EXCEPT !.place = 0]
           y == [terminal[t] EXCEPT !.said = said]
           x == [y EXCEPT !.placeTold = @ /\ terminal[t].said.place = 0]
<1>2. /\ h \in Sessions /\ t \in session[h].terms /\ h # z
      /\ session' = [session EXCEPT ![h] = left, ![z] = joined]
  BY HomeType DEF MoveTerminal
<1>3. /\ terminal' = [terminal EXCEPT ![t] = x]
      /\ reader' = [d \in Clients |-> IF d \in Readers(z)
                        THEN [reader[d] EXCEPT !.dirty = TRUE] ELSE reader[d]]
      /\ UNCHANGED <<shown, alone, rung>> /\ acts' \in 0..MaxActs
  <2> DEFINE placed == [terminal EXCEPT ![t].said.place = 0]
  <2>1. terminal' = [placed EXCEPT ![t] =
            [placed[t] EXCEPT !.placeTold = @ /\ terminal[t].said.place = 0]]
    BY DEF MoveTerminal
  <2>2. placed = [terminal EXCEPT ![t] = y]
    OBVIOUS
  <2> HIDE DEF placed, y
  <2>3. placed[t] = y
    BY <1>1, <2>2
  <2>4. terminal' = [terminal EXCEPT ![t] = x]
    BY <1>1, <2>1, <2>2, <2>3
  <2> QED
    BY <1>1, <2>4, ActType DEF MoveTerminal
<1>4. /\ left \in Session /\ left.terms = session[h].terms \ {t}
      /\ left.desktop = session[h].desktop
      /\ joined \in Session /\ joined.terms = session[z].terms \union {t}
      /\ joined.desktop = session[z].desktop
  <2>1. session[h] \in Session /\ session[z] \in Session
    BY <1>1, <1>2
  <2> QED
    BY <2>1 DEF Session
<1> HIDE DEF h, left, joined
<1>5. /\ session' \in [Sessions -> Session]
      /\ \A s \in Sessions : /\ session'[s].terms = IF s = z THEN session[z].terms \union {t}
                                                    ELSE session[s].terms \ {t}
                             /\ session'[s].desktop = session[s].desktop
  <2>1. /\ session' \in [Sessions -> Session] /\ session'[h] = left /\ session'[z] = joined
        /\ \A s \in Sessions : s # h /\ s # z => session'[s] = session[s]
    BY <1>1, <1>2, <1>4
  <2>2. \A s \in Sessions : s # h => t \notin session[s].terms
    BY <1>1, <1>2
  <2>3. \A s \in Sessions : s # h /\ s # z => session[s].terms \ {t} = session[s].terms
    BY <2>2
  <2>4. ASSUME NEW s \in Sessions
        PROVE  /\ session'[s].terms = IF s = z THEN session[z].terms \union {t}
                                      ELSE session[s].terms \ {t}
               /\ session'[s].desktop = session[s].desktop
    <3>1. CASE s = h
      BY <1>2, <1>4, <2>1, <3>1
    <3>2. CASE s = z
      BY <1>4, <2>1, <3>2
    <3>3. CASE s # h /\ s # z
      BY <2>1, <2>3, <3>3
    <3> QED
      BY <3>1, <3>2, <3>3
  <2> QED
    BY <2>1, <2>4
<1>6. \A s, q \in Sessions : s # q => session'[s].terms \cap session'[q].terms = {}
  BY <1>1, <1>5
<1>7. x \in Terminal
  <2>1. terminal[t] \in Terminal /\ terminal[t].said \in Said /\ terminal[t].placeTold \in BOOLEAN
    BY <1>1 DEF Terminal
  <2>2. said \in Said
    BY <2>1 DEF Said, Places
  <2> HIDE DEF said
  <2>3. y \in Terminal /\ y.placeTold = terminal[t].placeTold
    BY <2>1, <2>2 DEF Terminal
  <2> HIDE DEF y
  <2>4. (y.placeTold /\ terminal[t].said.place = 0) \in BOOLEAN
    OBVIOUS
  <2> QED
    BY <2>3, <2>4 DEF Terminal
<1> HIDE DEF x
<1>8. /\ terminal' \in [Terms -> Terminal]
      /\ \A u \in Terms : u # t => terminal'[u] = terminal[u]
  BY <1>1, <1>3, <1>7
<1>9. /\ reader' \in [Clients -> Reader]
      /\ \A d \in Clients : /\ reader'[d].attached = reader[d].attached
                            /\ reader'[d].session = reader[d].session
                            /\ reader'[d].world = reader[d].world
                            /\ reader[d].dirty => reader'[d].dirty
                            /\ reader'[d].dirty => reader[d].attached
                            /\ d \in Readers(z) => reader'[d].dirty
  <2>1. ASSUME NEW d \in Clients
        PROVE  LET b == [reader[d] EXCEPT !.dirty = TRUE]
               IN /\ b \in Reader /\ b.attached = reader[d].attached
                  /\ b.session = reader[d].session /\ b.world = reader[d].world /\ b.dirty
    <3>1. reader[d] \in Reader
      BY <1>1
    <3> QED
      BY <3>1 DEF Reader
  <2>2. \A d \in Readers(z) : reader[d].attached
    BY DEF Readers
  <2> QED
    BY <1>1, <1>3, <2>1, <2>2
<1>10. ASSUME NEW d \in Clients, Sole(Now, d), Knows(Now, d), ~reader'[d].dirty,
              NEW u \in session'[reader[d].session].terms
       PROVE  Told(terminal'[u], shown'[d][u])
  <2>1. reader[d].attached /\ reader[d].session \in Sessions
    BY <1>1, <1>10 DEF Sole
  <2>2. reader[d].session # z
    BY <1>9, <1>10, <2>1 DEF Readers
  <2>3. u # t /\ u \in session[reader[d].session].terms
    BY <1>5, <1>10, <2>1, <2>2
  <2>4. u \in Terms
    BY <1>1, <2>1, <2>3 DEF Session
  <2>5. Told(terminal[u], shown[d][u])
    BY <1>1, <1>10, <2>1, <2>3 DEF Knows, ReadBy
  <2> QED
    BY <1>3, <1>8, <2>3, <2>4, <2>5
<1>11. ASSUME NEW u \in Terms, \A s \in Sessions : u \notin session'[s].terms
       PROVE  /\ \A s \in Sessions : u \notin session[s].terms
              /\ terminal'[u] = terminal[u] /\ \A d \in Clients : shown'[d][u] = shown[d][u]
  BY <1>3, <1>5, <1>8, <1>11
<1>12. shown' \in [Clients -> [Terms -> Said]] /\ rung' \in [Terms -> Nat] /\ UNCHANGED alone
  BY <1>1, <1>3
<1>13. acts' \in 0..MaxActs /\ \A s \in Sessions : session'[s].desktop = session[s].desktop
  BY <1>3, <1>5
<1> QED
  BY <1>5, <1>6, <1>8, <1>9, <1>10, <1>11, <1>12, <1>13, ByParts

LEMMA Invariance == Spec => []IInv
<1>1. ASSUME IInv, [Next]_vars PROVE IInv'
  <2>1. ASSUME NEW t \in Terms, ChildStep(t) PROVE IInv'
    BY <1>1, <2>1, ChildSteps
  <2>2. ASSUME NEW c \in Clients, ReaderStep(c) PROVE IInv'
    <3>1. ASSUME NEW s \in Sessions, NEW mode, Attach(c, s, mode) PROVE IInv'
      BY <1>1, <3>1, AttachStep
    <3>2. CASE Detach(c) \/ HearDetached(c) \/ FallBehind(c)
      BY <1>1, <3>2, DetachStep, ReaderSteps
    <3>3. ASSUME NEW size \in Sizes, ClientResize(c, size) \/ SetDesktopSize(c, size)
          PROVE  IInv'
      BY <1>1, <3>3, ReshapeStep
    <3>4. ASSUME NEW t \in Terms,
                 \/ \E place \in Places : SetLayout(c, t, place)
                 \/ \E name \in Names : RenameTerminal(c, t, name)
                 \/ MoveResize(c, t) \/ Input(c, t) \/ NewTerminal(c, t)
                 \/ \E s \in Sessions : MoveTerminal(c, t, s)
          PROVE  IInv'
      BY <1>1, <3>4, WindowSteps, SessionSteps, MoveStep
    <3> QED
      BY <2>2, <3>1, <3>2, <3>3, <3>4 DEF ReaderStep
  <2>3. ASSUME NEW R \in SUBSET Clients, Tick(R) PROVE IInv'
    BY <1>1, <2>3, TickStep
  <2>4. CASE UNCHANGED vars
    <3>1. Now' = Now
      BY <2>4 DEF vars, Now
    <3> QED
      BY <1>1, <2>4, <3>1 DEF vars, IInv, Sound, Seats, OneHome, Fresh, Homeless, Sole, ReadersIn,
         Knows, ReadBy, Told, Agree
  <2> QED
    BY <1>1, <2>1, <2>2, <2>3, <2>4 DEF Next
<1> QED
  BY <1>1, InitInv, PTL DEF Spec

\* The state keeps its types and every terminal is in one session at most,
\* wherever readers move it (Server::handle_client_message).
THEOREM NewsTypes == Spec => []TypeOK
<1>1. IInv => TypeOK
  BY Parted DEF TypeOK
<1> QED
  BY <1>1, Invariance, PTL

\* Whatever the size policy, a reader who has been by itself since its last
\* snapshot has been told all that counts as announced (announce_terminal_news,
\* announce_layout, snapshot_for).
THEOREM SoleReaderHears == Spec => []SoleReaderMissesNothing
<1>1. IInv => SoleReaderMissesNothing
  <2> SUFFICES ASSUME IInv, NEW c \in Clients, alone[c], ~reader[c].dirty,
                      NEW t \in session[reader[c].session].terms
               PROVE  Told(terminal[t], shown[c][t])
    BY DEF SoleReaderMissesNothing, Told
  <2>1. Knows(Now, c) /\ Sole(Now, c)
    BY DEF IInv
  <2> QED
    BY <2>1, Parted DEF Knows, Sole, ReadBy
<1> QED
  BY <1>1, Invariance, PTL

\* Where the desktop's size is fixed, no reader ever has another idea of it than
\* its session (resize_desktop, announce_layout).
THEOREM DesktopAgreed ==
    ASSUME Policy = "Fixed" PROVE Spec => []ReadersAgreeOnTheDesktop
<1>1. IInv => ReadersAgreeOnTheDesktop
  BY Parted DEF IInv, Agree, ReadersAgreeOnTheDesktop
<1> QED
  BY <1>1, Invariance, PTL
=============================================================================
