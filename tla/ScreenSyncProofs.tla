-------------------------- MODULE ScreenSyncProofs --------------------------
(***************************************************************************)
(* What ScreenSync guarantees for every number of clients, every screen    *)
(* and every size of the queues.  The argument is told in README.md.       *)
(***************************************************************************)
EXTENDS ScreenSync, SequenceTheorems, TLAPS

-----------------------------------------------------------------------------
(***************************************************************************)
(* The inductive invariant.  A mark says where somebody stands in the      *)
(* stream of one client's screens: whether a delta may follow at all, the  *)
(* number of the last one, and the drawn screen it led to.                 *)
(***************************************************************************)
MarkOf(m) == [grid |-> m.type # "Detached", seq |-> m.seq, at |-> m.at]
MarkHeld(a) == [grid |-> a.known, seq |-> a.seq, at |-> a.at]

\* Where the client stands when it comes to the i-th message of its wire, and
\* where it will stand when it has handled all of them.
Before(k, a, i) == IF i = 1 THEN MarkHeld(a) ELSE MarkOf(k.wire[i - 1])
Tip(k, a) == Before(k, a, Len(k.wire) + 1)

\* A full screen starts the count again and is one that was drawn; a delta
\* states parts of one.
SoundMessage(m, D) ==
    /\ m.at \in 1..Len(D)
    /\ m.type = "Attached" => m.seq = 0 /\ m.cells = D[m.at]
    /\ m.type = "Opened" => m.seq = 0 /\ D[m.at] = BlankScreen
    /\ m.type = "Delta" => \A r \in DOMAIN m.cells : r \in Rows /\ m.cells[r] = D[m.at][r]

\* A delta may be applied by a client standing at b: it is the next in number,
\* and states every part in which its screen differs from the client's.
Follows(b, m, D) ==
    /\ b.grid /\ b.at \in 1..Len(D)
    /\ m.seq = b.seq + 1
    /\ \A r \in Rows \ DOMAIN m.cells : D[b.at][r] = D[m.at][r]

SoundLink(b, m, D) ==
    /\ SoundMessage(m, D)
    /\ b.at <= m.at
    /\ m.type = "Delta" => Follows(b, m, D)

SoundWire(k, a, D) == \A i \in 1..Len(k.wire) : SoundLink(Before(k, a, i), k.wire[i], D)

SoundApp(a, D) ==
    /\ a.at \in 0..Len(D)
    /\ a.known => a.at \in 1..Len(D) /\ a.rows = D[a.at]
    /\ ~a.alive => ~a.known
    /\ ~a.needs

\* A client the server takes for clean will hold what the differ believes.
Believed(d) == IF d.belief = NoBelief THEN BlankScreen ELSE d.belief
Matches(b, d, D) ==
    b.grid /\ b.seq = d.seq /\ b.at \in 1..Len(D) /\ D[b.at] = Believed(d)

Clean(k, a) == a.alive /\ k.attached /\ ~k.dirty

SoundPipe(k, a, D) == SoundApp(a, D) /\ (a.alive => SoundWire(k, a, D))

SoundClient(k, a, d, D) ==
    /\ SoundPipe(k, a, D)
    /\ Clean(k, a) => Matches(Tip(k, a), d, D)

OneReader ==
    /\ \A c \in Clients : conn[c].attached => conn[c].open
    /\ \A c, e \in Clients : conn[c].attached /\ conn[e].attached => c = e

\* Where the belief is out of date, the emulator says so in its damage.
HintsCover ==
    (\E c \in Clients : Clean(conn[c], app[c])) /\ differ.belief # NoBelief
        => \A r \in Rows \ term.damage : differ.belief[r] = Screen[r]

\* A differ that believes nothing has everything still to say.
Unflushed == differ.belief = NoBelief => term.damage = Rows /\ ~differ.diverged

\* Every reader takes the session over, heals included.
Exclusive == \A c \in Clients :
    /\ app[c].mode = "TakeOver"
    /\ \A i \in 1..Len(requests[c]) : requests[c][i].mode = "TakeOver"

IInv ==
    /\ TypeOK
    /\ Exclusive
    /\ OneReader
    /\ HintsCover
    /\ Unflushed
    /\ \A c \in Clients : SoundClient(conn[c], app[c], differ, drawn)

-----------------------------------------------------------------------------
(***************************************************************************)
(* Types.                                                                  *)
(***************************************************************************)
LEMMA LinesType ==
    ASSUME NEW first \in Nat, NEW last \in Nat, first <= last + 1
    PROVE  LinesFrom(first, last) \in Seq(Nat)
<1>1. last - first + 1 \in Nat
  OBVIOUS
<1>2. LinesFrom(first, last) \in [1..(last - first + 1) -> Nat]
  BY DEF LinesFrom
<1>. QED
  BY <1>1, <1>2

\* The frames the server composes are messages of the protocol.
LEMMA MessageTypes ==
    ASSUME TypeOK
    PROVE  /\ Screen \in Screens /\ Len(drawn) \in Nat \ {0}
           /\ Snapshot \in Messages
           /\ Message("Detached", 0, NoCells, <<>>) \in Messages
           /\ [Message("Opened", 0, NoCells, <<>>) EXCEPT !.at = Len(drawn) + 1] \in Messages
           /\ \A d \in Differs : Delta(d) \in Messages
<1>. USE DEF TypeOK
<1>1. Screen \in Screens /\ Len(drawn) \in Nat \ {0}
  BY DEF Screen
<1>2. Screen \in Updates
  BY <1>1 DEF Screens, Updates
<1>3. NoCells \in Updates
  <2>1. NoCells \in [{} -> Values]
    BY DEF NoCells
  <2>. QED
    BY <2>1 DEF Updates
<1>4. LinesFrom(1, term.total) \in Seq(Nat)
  BY LinesType DEF Terms
<1>5. <<>> \in Seq(Nat)
  OBVIOUS
<1>6. Snapshot \in Messages
  BY <1>1, <1>2, <1>4 DEF Snapshot, Message, Messages
<1>7. Message("Detached", 0, NoCells, <<>>) \in Messages
  BY <1>1, <1>3, <1>5 DEF Message, Messages
<1>8. [Message("Opened", 0, NoCells, <<>>) EXCEPT !.at = Len(drawn) + 1] \in Messages
  <2>1. Message("Opened", 0, NoCells, <<>>) \in Messages
    BY <1>1, <1>3, <1>5 DEF Message, Messages
  <2>2. Len(drawn) + 1 \in Nat
    BY <1>1
  <2>. QED
    BY <2>1, <2>2 DEF Messages
<1>9. ASSUME NEW d \in Differs PROVE Delta(d) \in Messages
  <2>1. Changed(d) \in SUBSET Rows
    BY DEF Changed, Terms
  <2>2. [r \in Changed(d) |-> Screen[r]] \in [Changed(d) -> Values]
    BY <1>1, <2>1 DEF Screens
  <2>3. [r \in Changed(d) |-> Screen[r]] \in Updates
    BY <2>1, <2>2 DEF Updates
  <2>4. PushedLines \in Seq(Nat)
    BY <1>5, LinesType DEF PushedLines, Terms
  <2>5. d.seq + 1 \in Nat
    BY DEF Differs
  <2>. QED
    BY <1>1, <2>3, <2>4, <2>5 DEF Delta, Message, Messages
<1>. QED
  BY <1>1, <1>6, <1>7, <1>8, <1>9

\* What a connection record must be for the operators on it to make sense.
GoodConn(k) == k \in Conns /\ k.unsent <= Len(k.wire)

LEMMA DroppedType ==
    ASSUME NEW k, GoodConn(k)
    PROVE  /\ GoodConn(Dropped(k)) /\ Dropped(k).unsent = 0
           /\ ~Dropped(k).open /\ ~Dropped(k).attached
           /\ Dropped(k).dirty = k.dirty
           /\ Len(Dropped(k).wire) \in 0..Len(k.wire)
           /\ \A i \in 1..Len(Dropped(k).wire) : Dropped(k).wire[i] = k.wire[i]
<1>. DEFINE n == Len(k.wire) - k.unsent
            w == SubSeq(k.wire, 1, n)
<1>1. n \in 0..Len(k.wire) /\ k.wire \in Seq(Messages)
  BY DEF GoodConn, Conns
<1>2. \A i \in 1..n : k.wire[i] \in Messages
  BY <1>1
<1>3. w \in Seq(Messages) /\ Len(w) = n /\ \A i \in 1..n : w[i] = k.wire[i]
  BY <1>1, <1>2, SubSeqProperties
<1>4. w \in Seq(Messages)
  BY <1>3
<1>. HIDE DEF n, w
<1>. DEFINE d == [k EXCEPT !.open = FALSE, !.attached = FALSE, !.wire = w, !.unsent = 0]
<1>5. d \in Conns
  BY <1>4 DEF GoodConn, Conns
<1>6. /\ d.wire = w /\ d.unsent = 0 /\ d.dirty = k.dirty
      /\ ~d.open /\ ~d.attached
  BY <1>4 DEF GoodConn, Conns
<1>7. Dropped(k) = d
  BY DEF Dropped, n, w
<1>. HIDE DEF d
<1>. QED
  BY <1>1, <1>3, <1>5, <1>6, <1>7 DEF GoodConn, n

\* What an operation on a connection k can make of it: the queue as it was, a
\* dropped connection whose client still gets what was flushed, or one frame more.
Kept(k, j) == j.wire = k.wire /\ j.open = k.open /\ j.attached = k.attached
Cut(k, j) ==
    /\ ~j.open /\ ~j.attached
    /\ Len(j.wire) \in 0..Len(k.wire)
    /\ \A i \in 1..Len(j.wire) : j.wire[i] = k.wire[i]
Grown(k, j, m) == k.open /\ j.open /\ j.wire = Append(k.wire, m)

LEMMA SentCases ==
    ASSUME NEW k, GoodConn(k), NEW m \in Messages
    PROVE  /\ GoodConn(Sent(k, m))
           /\ \/ ~k.open /\ Sent(k, m) = k
              \/ Cut(k, Sent(k, m))
              \/ /\ Grown(k, Sent(k, m), m)
                 /\ Sent(k, m).attached = k.attached /\ (k.dirty => Sent(k, m).dirty)
<1>1. CASE ~k.open
  BY <1>1 DEF Sent
<1>2. CASE k.open /\ Queued(k) + Weight(m) > HardLimit
  <2>1. Sent(k, m) = Dropped(k)
    BY <1>2 DEF Sent
  <2>. QED
    BY <2>1, DroppedType DEF Cut, GoodConn, Conns
<1>3. CASE k.open /\ ~(Queued(k) + Weight(m) > HardLimit)
  <2>. DEFINE late == m.type # "Attached" /\ Queued(k) + Weight(m) > HighWater
  <2>1. Sent(k, m) = [k EXCEPT !.wire = Append(k.wire, m), !.unsent = k.unsent + 1,
                               !.dirty = k.dirty \/ late]
    BY <1>3 DEF Sent
  <2>2. (k.dirty \/ late) \in BOOLEAN
    OBVIOUS
  <2>3. Append(k.wire, m) \in Seq(Messages) /\ Len(Append(k.wire, m)) = Len(k.wire) + 1
    BY AppendProperties DEF GoodConn, Conns
  <2>. HIDE DEF late
  <2>4. k.unsent + 1 \in Nat /\ k.unsent + 1 <= Len(k.wire) + 1
    BY DEF GoodConn, Conns
  <2>5. Sent(k, m) \in Conns
    BY <2>1, <2>2, <2>3, <2>4 DEF GoodConn, Conns
  <2>6. /\ Sent(k, m).wire = Append(k.wire, m) /\ Sent(k, m).unsent = k.unsent + 1
        /\ Sent(k, m).open = k.open /\ Sent(k, m).attached = k.attached
        /\ Sent(k, m).dirty = (k.dirty \/ late)
    BY <2>1 DEF GoodConn, Conns
  <2>. QED
    BY <1>3, <2>3, <2>4, <2>5, <2>6 DEF GoodConn, Grown
<1>. QED
  BY <1>1, <1>2, <1>3

LEMMA WithSnapshotCases ==
    ASSUME TypeOK, NEW k, GoodConn(k)
    PROVE  /\ GoodConn(WithSnapshot(k))
           /\ \/ ~k.open /\ Kept(k, WithSnapshot(k))
              \/ Cut(k, WithSnapshot(k))
              \/ /\ Grown(k, WithSnapshot(k), Snapshot)
                 /\ WithSnapshot(k).attached = k.attached
<1>. DEFINE j == [k EXCEPT !.dirty = FALSE]
            s == Sent(j, Snapshot)
            w == [s EXCEPT !.draining = TRUE]
<1>1. GoodConn(j) /\ j.wire = k.wire /\ j.open = k.open /\ j.attached = k.attached
  BY DEF GoodConn, Conns
<1>2. WithSnapshot(k) = w
  BY DEF WithSnapshot
<1>. HIDE DEF j
<1>3. /\ GoodConn(s)
      /\ \/ ~j.open /\ s = j
         \/ Cut(j, s)
         \/ Grown(j, s, Snapshot) /\ s.attached = j.attached
  BY <1>1, SentCases, MessageTypes
<1>. HIDE DEF s
<1>4. GoodConn(w) /\ w.wire = s.wire /\ w.open = s.open /\ w.attached = s.attached
  BY <1>3 DEF GoodConn, Conns
<1>. HIDE DEF w
<1>. QED
  BY <1>1, <1>2, <1>3, <1>4 DEF Kept, Cut, Grown

LEMMA DetachedFromCases ==
    ASSUME TypeOK, NEW k, GoodConn(k)
    PROVE  /\ GoodConn(DetachedFrom(k)) /\ ~DetachedFrom(k).attached
           /\ \/ DetachedFrom(k).wire = k.wire /\ DetachedFrom(k).open = k.open
              \/ Cut(k, DetachedFrom(k))
              \/ Grown(k, DetachedFrom(k), Message("Detached", 0, NoCells, <<>>))
<1>. DEFINE j == [k EXCEPT !.attached = FALSE, !.dirty = FALSE, !.draining = FALSE]
            m == Message("Detached", 0, NoCells, <<>>)
            s == Sent(j, m)
<1>1. GoodConn(j) /\ j.wire = k.wire /\ j.open = k.open /\ ~j.attached
  BY DEF GoodConn, Conns
<1>2. m \in Messages
  BY MessageTypes
<1>3. DetachedFrom(k) = IF k.attached THEN s ELSE k
  BY DEF DetachedFrom, GoodConn, Conns
<1>. HIDE DEF j, m
<1>4. /\ GoodConn(s)
      /\ \/ ~j.open /\ s = j
         \/ Cut(j, s)
         \/ Grown(j, s, m) /\ s.attached = j.attached
  BY <1>1, <1>2, SentCases
<1>. HIDE DEF s
<1>. QED
  BY <1>1, <1>3, <1>4 DEF Cut, Grown, m

LEMMA MarkedCases ==
    ASSUME NEW k, GoodConn(k), NEW needs \in BOOLEAN
    PROVE  /\ GoodConn(Marked(k, needs)) /\ Kept(k, Marked(k, needs))
           /\ k.dirty => Marked(k, needs).dirty
           /\ needs /\ k.attached => Marked(k, needs).dirty
<1>. DEFINE j == [k EXCEPT !.dirty = TRUE]
<1>1. GoodConn(j) /\ Kept(k, j) /\ j.dirty
  BY DEF GoodConn, Conns, Kept
<1>. HIDE DEF j
<1>2. Marked(k, needs) = IF needs /\ k.attached THEN j ELSE k
  BY DEF Marked, j
<1>. QED
  BY <1>1, <1>2 DEF Kept

LEMMA StreamedCases ==
    ASSUME NEW k, GoodConn(k), NEW m \in Messages
    PROVE  /\ GoodConn(Streamed(k, m))
           /\ \/ Kept(k, Streamed(k, m)) /\ (k.attached => Streamed(k, m).dirty \/ ~k.open)
              \/ Cut(k, Streamed(k, m))
              \/ /\ Grown(k, Streamed(k, m), m) /\ k.attached /\ ~k.dirty
                 /\ Streamed(k, m).attached
<1>. DEFINE late == [k EXCEPT !.dirty = TRUE, !.draining = FALSE]
            draining == k.draining /\ ~ReadyForScreen(k)
            j == [k EXCEPT !.draining = draining]
<1>1. GoodConn(late) /\ Kept(k, late) /\ late.dirty
  BY DEF GoodConn, Conns, Kept
<1>2. draining \in BOOLEAN
  OBVIOUS
<1>3. \/ Streamed(k, m) = k /\ (~k.attached \/ k.dirty)
      \/ Streamed(k, m) = late
      \/ Streamed(k, m) = Sent(j, m) /\ k.attached /\ ~k.dirty
  BY DEF Streamed
<1>. HIDE DEF draining, late
<1>4. /\ GoodConn(j) /\ j.wire = k.wire /\ j.open = k.open /\ j.attached = k.attached
      /\ j.dirty = k.dirty
  BY <1>2 DEF GoodConn, Conns
<1>. HIDE DEF j
<1>5. /\ GoodConn(Sent(j, m))
      /\ \/ ~j.open /\ Sent(j, m) = j
         \/ Cut(j, Sent(j, m))
         \/ Grown(j, Sent(j, m), m) /\ Sent(j, m).attached = j.attached
  BY <1>4, SentCases
<1>. QED
  BY <1>1, <1>3, <1>4, <1>5 DEF Kept, Cut, Grown

\* What the heal pass of a tick leaves behind.
LEMMA HealTypes ==
    ASSUME TypeOK
    PROVE  /\ HealedDiffer \in Differs
           /\ \A c \in Clients : GoodConn(HealedConn(c))
<1>1. Restarted \in Differs
  BY MessageTypes DEF Restarted, Differs
<1>2. \A c \in Clients : GoodConn(conn[c])
  BY DEF TypeOK, GoodConn
<1>3. \A c \in Clients : GoodConn(WithSnapshot(conn[c]))
  BY <1>2, WithSnapshotCases
<1>. QED
  BY <1>1, <1>2, <1>3 DEF HealedConn, HealedDiffer, TypeOK

LEMMA TickTypes == TypeOK /\ Tick => TypeOK'
<1>. SUFFICES ASSUME TypeOK, Tick PROVE TypeOK'
  OBVIOUS
<1>1. HealedDiffer \in Differs /\ \A c \in Clients : GoodConn(HealedConn(c))
  BY HealTypes
<1>2. HealedDiffer.needs \in BOOLEAN /\ TRUE \in BOOLEAN
  BY <1>1 DEF Differs
<1>3. Cleared \in Terms /\ Cleared.pushed <= Cleared.total
  <2>1. term \in Terms
    BY DEF TypeOK
  <2>2. Cleared \in Terms
    BY <2>1 DEF Cleared, Terms
  <2>3. Cleared.pushed = 0 /\ Cleared.total = term.total
    BY <2>1 DEF Cleared, Terms
  <2>. QED
    BY <2>1, <2>2, <2>3 DEF Terms
<1>4. \A c \in Clients : /\ GoodConn(Marked(HealedConn(c), HealedDiffer.needs))
                        /\ GoodConn(Marked(HealedConn(c), TRUE))
  BY <1>1, <1>2, MarkedCases
<1>5. Delta(HealedDiffer) \in Messages
  BY <1>1, MessageTypes
<1>6. \A c \in Clients :
         GoodConn(Streamed(Marked(HealedConn(c), HealedDiffer.needs), Delta(HealedDiffer)))
  BY <1>4, <1>5, StreamedCases
<1>7. Noted(HealedDiffer) \in Differs
  BY <1>1 DEF Noted, Differs, Flooded
<1>8. Advanced(HealedDiffer) \in Differs
  <2>1. ASSUME HealedDiffer.belief = NoBelief PROVE Changed(HealedDiffer) = Rows
    BY <2>1 DEF Changed
  <2>2. ASSUME HealedDiffer.belief # NoBelief PROVE HealedDiffer.belief \in Screens
    BY <1>1, <2>2 DEF Differs
  <2>3. [r \in Rows |-> IF r \in Changed(HealedDiffer) THEN Screen[r]
                         ELSE HealedDiffer.belief[r]] \in Screens
    BY <2>1, <2>2, MessageTypes DEF Screens
  <2>. DEFINE d == Noted(HealedDiffer)
              b == [r \in Rows |-> IF r \in Changed(HealedDiffer) THEN Screen[r]
                                   ELSE HealedDiffer.belief[r]]
  <2>4. Advanced(HealedDiffer) = [d EXCEPT !.seq = d.seq + 1, !.belief = b]
    BY DEF Advanced
  <2>5. d \in Differs /\ b \in Screens
    BY <1>7, <2>3
  <2>. HIDE DEF d, b
  <2>6. d.seq + 1 \in Nat
    BY <2>5 DEF Differs
  <2>. QED
    BY <2>4, <2>5, <2>6 DEF Differs
<1>9. CASE TickIdle
  BY <1>1, <1>4, <1>9 DEF TickIdle, TypeOK, GoodConn
<1>10. CASE TickReconcile
  BY <1>1, <1>3, <1>4, <1>10 DEF TickReconcile, TypeOK, GoodConn, Differs
<1>11. CASE TickSilent
  BY <1>3, <1>4, <1>7, <1>11 DEF TickSilent, TypeOK, GoodConn
<1>12. CASE TickDelta
  BY <1>3, <1>6, <1>8, <1>12 DEF TickDelta, TypeOK, GoodConn
<1>. QED
  BY <1>9, <1>10, <1>11, <1>12 DEF Tick

LEMMA ProgramTypes ==
    TypeOK /\ (Output \/ Synchronize \/ Exit \/ Respawn) => TypeOK'
<1>. SUFFICES ASSUME TypeOK, Output \/ Synchronize \/ Exit \/ Respawn PROVE TypeOK'
  OBVIOUS
<1>1. BlankScreen \in Screens
  BY ScreenAssumption DEF BlankScreen, Screens
<1>2. CASE Output
  <2>1. PICK W \in SUBSET Rows : \E text \in [W -> Values], n \in 0..(MaxLines - term.total) :
           /\ drawn' = Append(drawn, [r \in Rows |-> IF r \in W THEN text[r] ELSE Screen[r]])
           /\ term' = [term EXCEPT !.damage = @ \union W, !.pushed = @ + n, !.total = @ + n]
           /\ UNCHANGED <<differ, conn, app, requests, acts>>
    BY <1>2 DEF Output
  <2>. PICK text \in [W -> Values], n \in 0..(MaxLines - term.total) :
           /\ drawn' = Append(drawn, [r \in Rows |-> IF r \in W THEN text[r] ELSE Screen[r]])
           /\ term' = [term EXCEPT !.damage = @ \union W, !.pushed = @ + n, !.total = @ + n]
           /\ UNCHANGED <<differ, conn, app, requests, acts>>
    BY <2>1
  <2>2. [r \in Rows |-> IF r \in W THEN text[r] ELSE Screen[r]] \in Screens
    BY MessageTypes DEF Screens
  <2>. DEFINE s == [r \in Rows |-> IF r \in W THEN text[r] ELSE Screen[r]]
  <2>3. drawn' \in Seq(Screens) /\ drawn' # <<>>
    <3>1. s \in Screens /\ drawn' = Append(drawn, s) /\ drawn \in Seq(Screens)
      BY <2>2 DEF TypeOK
    <3>. HIDE DEF s
    <3>. QED
      BY <3>1, AppendProperties
  <2>4. /\ n \in Nat /\ term \in Terms /\ term.pushed <= term.total
        /\ term.pushed + n \in Nat /\ term.total + n \in Nat
        /\ term.damage \union W \in SUBSET Rows
    BY DEF TypeOK, Terms
  <2>5. term' \in Terms
    BY <2>4 DEF Terms
  <2>6. term'.pushed = term.pushed + n /\ term'.total = term.total + n
    BY <2>4 DEF Terms
  <2>7. term'.pushed <= term'.total
    BY <2>4, <2>6 DEF Terms
  <2>. QED
    BY <2>3, <2>5, <2>7 DEF TypeOK
<1>3. CASE Synchronize
  BY <1>3 DEF Synchronize, TypeOK, Terms
<1>4. CASE Exit
  BY <1>4 DEF Exit, TypeOK, Terms
<1>5. CASE Respawn
  <2>1. drawn' \in Seq(Screens) /\ drawn' # <<>>
    BY <1>1, <1>5, AppendProperties DEF Respawn, TypeOK
  <2>2. term' \in Terms /\ term'.pushed <= term'.total
    BY <1>5 DEF Respawn, Terms
  <2>3. differ' \in Differs
    BY <1>5 DEF Respawn, FreshDiffer, Differs
  <2>. DEFINE opened == [Message("Opened", 0, NoCells, <<>>) EXCEPT !.at = Len(drawn) + 1]
  <2>4. opened \in Messages
    BY MessageTypes
  <2>. HIDE DEF opened
  <2>5. \A c \in Clients : GoodConn(conn[c]) /\ GoodConn(Sent(conn[c], opened))
    BY <2>4, SentCases DEF TypeOK, GoodConn
  <2>6. conn' = [c \in Clients |-> IF ~conn[c].attached THEN conn[c] ELSE Sent(conn[c], opened)]
    BY <1>5 DEF Respawn, opened
  <2>. QED
    BY <1>5, <2>1, <2>2, <2>3, <2>5, <2>6 DEF Respawn, TypeOK, GoodConn
<1>. QED
  BY <1>2, <1>3, <1>4, <1>5

LEMMA ServerTypes == ASSUME TypeOK, NEW c \in Clients, ServerStep(c) PROVE TypeOK'
<1>. USE DEF TypeOK
<1>1. \A e \in Clients : GoodConn(conn[e])
  BY DEF GoodConn
<1>2. \A e \in Clients : GoodConn(DetachedFrom(conn[e]))
  BY <1>1, DetachedFromCases
<1>3. requests[c] # <<>> => Tail(requests[c]) \in Seq(Requests)
  BY HeadTailProperties
<1>4. CASE HandleAttach(c)
  <2>. DEFINE j == [conn[c] EXCEPT !.attached = TRUE, !.dirty = FALSE]
  <2>1. GoodConn(j)
    BY <1>1 DEF GoodConn, Conns
  <2>. HIDE DEF j
  <2>2. GoodConn(WithSnapshot(j))
    BY <2>1, WithSnapshotCases
  <2>3. conn' \in [Clients -> Conns] /\ \A e \in Clients : conn'[e].unsent <= Len(conn'[e].wire)
    BY <1>1, <1>2, <1>4, <2>2 DEF HandleAttach, GoodConn, j
  <2>4. differ' \in Differs
    BY <1>4, MessageTypes DEF HandleAttach, Restarted, Differs
  <2>. QED
    BY <1>3, <1>4, <2>3, <2>4 DEF HandleAttach
<1>5. CASE HandleDetach(c)
  BY <1>2, <1>3, <1>5 DEF HandleDetach, GoodConn
<1>6. CASE Flush(c)
  <2>. DEFINE j == [conn[c] EXCEPT !.unsent = conn[c].unsent - 1]
  <2>1. conn[c].unsent - 1 \in Nat /\ conn[c].unsent <= Len(conn[c].wire)
    BY <1>6 DEF Flush, Conns
  <2>2. j \in Conns /\ j.wire = conn[c].wire /\ j.unsent = conn[c].unsent - 1
    BY <2>1 DEF Conns
  <2>3. conn' = [conn EXCEPT ![c] = j]
    BY <1>6 DEF Flush
  <2>4. j.unsent <= Len(j.wire)
    BY <2>1, <2>2 DEF Conns
  <2>. HIDE DEF j
  <2>. QED
    BY <1>6, <2>2, <2>3, <2>4 DEF Flush
<1>7. CASE HearHangup(c)
  <2>. DEFINE d == Dropped(conn[c])
              j == [d EXCEPT !.wire = <<>>]
  <2>1. GoodConn(d) /\ d.unsent = 0
    BY <1>1, DroppedType
  <2>. HIDE DEF d
  <2>2. j \in Conns /\ j.unsent <= Len(j.wire)
    <3>1. <<>> \in Seq(Messages) /\ Len(<<>>) = 0 /\ d \in Conns
      BY <2>1 DEF GoodConn
    <3>2. j \in Conns /\ j.unsent = 0 /\ j.wire = <<>>
      BY <2>1, <3>1 DEF Conns
    <3>. QED
      BY <3>1, <3>2
  <2>3. conn' = [conn EXCEPT ![c] = j]
    BY <1>7 DEF HearHangup, d
  <2>. HIDE DEF j
  <2>. QED
    BY <1>7, <2>2, <2>3 DEF HearHangup
<1>. QED
  BY <1>4, <1>5, <1>6, <1>7 DEF ServerStep

LEMMA ClientTypes == ASSUME TypeOK, NEW c \in Clients, ClientStep(c) PROVE TypeOK'
<1>. USE DEF TypeOK
<1>. DEFINE m == Head(conn[c].wire)
<1>1. ASSUME NEW mode \in {"TakeOver", "Join", "Watch"}
      PROVE  Append(requests[c], AttachRequest(mode)) \in Seq(Requests)
  <2>1. AttachRequest(mode) \in Requests
    BY DEF AttachRequest, Requests
  <2>. QED
    BY <2>1, AppendProperties
<1>2. IdleApp \in Apps /\ Gone \in Apps
  <2>1. BlankScreen \in Screens
    BY ScreenAssumption DEF BlankScreen, Screens
  <2>2. IdleApp \in Apps
    BY <2>1 DEF IdleApp, Apps
  <2>. QED
    BY <2>2 DEF Apps, Gone
<1>3. ASSUME NEW mode \in Modes, UserAttach(c, mode) PROVE TypeOK'
  <2>. DEFINE a == [app[c] EXCEPT !.mode = mode, !.pending = FALSE]
  <2>1. mode \in {"TakeOver", "Join", "Watch"}
    BY ModeAssumption
  <2>2. a \in Apps
    BY <2>1 DEF Apps
  <2>3. app' = [app EXCEPT ![c] = a]
    BY <1>3 DEF UserAttach
  <2>4. Append(requests[c], AttachRequest(mode)) \in Seq(Requests)
    BY <1>1, <2>1
  <2>5. requests' = [requests EXCEPT ![c] = Append(requests[c], AttachRequest(mode))]
    BY <1>3 DEF UserAttach
  <2>6. acts' \in Nat /\ UNCHANGED <<drawn, term, differ, conn>>
    BY <1>3 DEF UserAttach
  <2>. HIDE DEF a
  <2>. QED
    BY <2>2, <2>3, <2>4, <2>5, <2>6
<1>4. CASE Quit(c)
  <2>1. DetachRequest \in Requests
    BY DEF DetachRequest, Requests
  <2>2. Append(requests[c], DetachRequest) \in Seq(Requests)
    BY <2>1, AppendProperties
  <2>. QED
    BY <1>2, <1>4, <2>2 DEF Quit
<1>5. CASE Crash(c)
  <2>1. app' \in [Clients -> Apps]
    BY <1>2, <1>5 DEF Crash
  <2>. QED
    BY <1>5, <2>1 DEF Crash
<1>6. CASE LoseConnection(c)
  BY <1>2, <1>6 DEF LoseConnection
<1>7. CASE Heal(c)
  <2>1. [app[c] EXCEPT !.pending = TRUE] \in Apps
    BY DEF Apps
  <2>2. app' = [app EXCEPT ![c] = [app[c] EXCEPT !.pending = TRUE]]
    BY <1>7 DEF Heal
  <2>3. app' \in [Clients -> Apps]
    BY <2>1, <2>2
  <2>4. Append(requests[c], AttachRequest(app[c].mode)) \in Seq(Requests)
    BY <1>1 DEF Apps
  <2>5. requests' \in [Clients -> Seq(Requests)]
    BY <1>7, <2>4 DEF Heal
  <2>. QED
    BY <1>7, <2>3, <2>5 DEF Heal
<1>8. ASSUME NEW a \in Apps, Consume(c, a), Len(conn[c].wire) > conn[c].unsent PROVE TypeOK'
  <2>1. conn[c].wire \in Seq(Messages) /\ conn[c].wire # <<>>
    BY <1>8 DEF Conns
  <2>2. Tail(conn[c].wire) \in Seq(Messages) /\ Len(Tail(conn[c].wire)) = Len(conn[c].wire) - 1
    BY <2>1, HeadTailProperties
  <2>. DEFINE j == [conn[c] EXCEPT !.wire = Tail(conn[c].wire)]
  <2>3. j \in Conns /\ j.unsent = conn[c].unsent /\ j.wire = Tail(conn[c].wire)
    BY <2>2 DEF Conns
  <2>4. j.unsent <= Len(j.wire)
    BY <1>8, <2>1, <2>2, <2>3 DEF Conns
  <2>5. conn' = [conn EXCEPT ![c] = j]
    BY <1>8 DEF Consume
  <2>. HIDE DEF j
  <2>. QED
    BY <1>8, <2>3, <2>4, <2>5 DEF Consume
<1>9. CASE Receive(c)
  <2>1. Len(conn[c].wire) > conn[c].unsent /\ conn[c].wire # <<>>
    <3>1. Len(conn[c].wire) > conn[c].unsent
      BY <1>9 DEF Receive, ReceiveAttached, ReceiveOpened, ReceiveDetached, ReceiveDelta,
                  ReceiveGap, Arrived
    <3>2. conn[c].wire \in Seq(Messages) /\ conn[c].unsent \in Nat
      BY <1>1 DEF Conns
    <3>. QED
      BY <3>1, <3>2
  <2>2. m \in Messages
    BY <2>1, HeadTailProperties DEF Conns
  <2>. HIDE DEF m
  <2>3. CASE ReceiveAttached(c)
    <3>1. m.type = "Attached" /\ m.cells \in Screens
      BY <2>2, <2>3 DEF ReceiveAttached, Arrived, Messages, m
    <3>2. Adopted(app[c], m) \in Apps
      <4>1. app[c] \in Apps /\ m.at \in Nat /\ m.lines \in Seq(Nat)
        BY <2>2 DEF Messages
      <4>. QED
        BY <3>1, <4>1 DEF Adopted, Apps
    <3>. QED
      BY <1>8, <2>1, <2>3, <3>2 DEF ReceiveAttached, m
  <2>4. CASE ReceiveOpened(c)
    <3>1. Opened(app[c], m) \in Apps
      BY <1>2, <2>2 DEF Opened, Apps, Messages, IdleApp
    <3>. QED
      BY <1>8, <2>1, <2>4, <3>1 DEF ReceiveOpened, m
  <2>5. CASE ReceiveDetached(c)
    <3>1. [app[c] EXCEPT !.attached = FALSE] \in Apps
      BY DEF Apps
    <3>. QED
      BY <1>8, <2>1, <2>5, <3>1 DEF ReceiveDetached
  <2>6. CASE ReceiveDelta(c)
    <3>1. m.cells \in Updates /\ m.lines \in Seq(Nat) /\ m.seq \in Nat /\ m.at \in Nat
      BY <2>2 DEF Messages
    <3>2. [r \in Rows |-> IF r \in DOMAIN m.cells THEN m.cells[r] ELSE app[c].rows[r]] \in Screens
      BY <3>1 DEF Updates, Screens, Apps
    <3>3. app[c].lines \o m.lines \in Seq(Nat)
      BY <3>1, ConcatProperties DEF Apps
    <3>4. Applied(app[c], m) \in Apps
      BY <3>1, <3>2, <3>3 DEF Applied, Apps
    <3>. QED
      BY <1>8, <2>1, <2>6, <3>4 DEF ReceiveDelta, m
  <2>7. CASE ReceiveGap(c)
    <3>1. [app[c] EXCEPT !.needs = TRUE] \in Apps
      BY DEF Apps
    <3>. QED
      BY <1>8, <2>1, <2>7, <3>1 DEF ReceiveGap
  <2>. QED
    BY <1>9, <2>3, <2>4, <2>5, <2>6, <2>7 DEF Receive
<1>. QED
  BY <1>3, <1>4, <1>5, <1>6, <1>7, <1>9 DEF ClientStep

LEMMA InitTypes == Init => TypeOK
<1>1. BlankScreen \in Screens
  BY ScreenAssumption DEF BlankScreen, Screens
<1>2. IdleApp \in Apps
  BY <1>1 DEF IdleApp, Apps
<1>3. FreshDiffer \in Differs
  BY DEF FreshDiffer, Differs
<1>. QED
  BY <1>1, <1>2, <1>3 DEF Init, TypeOK, Terms, Conns

\* Every reachable state is well typed: no handler, tick or client step builds a
\* frame outside the protocol, a queue with more unsent frames than frames, or a
\* screen with a part missing.
THEOREM TypeCorrect == Spec => []TypeOK
<1>1. TypeOK /\ [Next]_vars => TypeOK'
  <2>1. TypeOK /\ UNCHANGED vars => TypeOK'
    BY DEF TypeOK, vars
  <2>. QED
    BY <2>1, TickTypes, ProgramTypes, ServerTypes, ClientTypes DEF Next
<1>. QED
  BY <1>1, InitTypes, PTL DEF Spec

-----------------------------------------------------------------------------
(***************************************************************************)
(* Marks and wires.                                                        *)
(***************************************************************************)
\* A full screen composed now continues any stream, a delta one it follows.
Marks == [grid : BOOLEAN, seq : Nat, at : Nat]

LEMMA MarkTypes ==
    ASSUME NEW k, GoodConn(k), NEW a \in Apps
    PROVE  /\ MarkHeld(a) \in Marks
           /\ \A i \in 1..Len(k.wire) : k.wire[i] \in Messages /\ MarkOf(k.wire[i]) \in Marks
           /\ \A i \in 1..(Len(k.wire) + 1) : Before(k, a, i) \in Marks
           /\ Tip(k, a) \in Marks
<1>1. MarkHeld(a) \in Marks
  BY DEF MarkHeld, Marks, Apps
<1>2. ASSUME NEW i \in 1..Len(k.wire)
      PROVE  k.wire[i] \in Messages /\ MarkOf(k.wire[i]) \in Marks
  <2>1. k.wire[i] \in Messages
    BY DEF GoodConn, Conns
  <2>. QED
    BY <2>1 DEF MarkOf, Marks, Messages
<1>3. Len(k.wire) \in Nat
  BY DEF GoodConn, Conns
<1>4. ASSUME NEW i \in 1..(Len(k.wire) + 1) PROVE Before(k, a, i) \in Marks
  <2>1. i # 1 => i - 1 \in 1..Len(k.wire)
    BY <1>3
  <2>. QED
    BY <1>1, <1>2, <2>1 DEF Before
<1>. QED
  BY <1>1, <1>2, <1>3, <1>4 DEF Tip

\* The end of a sound wire is a screen that was drawn, if it is one at all.
LEMMA TipDrawn ==
    ASSUME NEW D \in Seq(Screens), NEW k, GoodConn(k), NEW a \in Apps,
           SoundApp(a, D), SoundWire(k, a, D)
    PROVE  Tip(k, a).at \in 0..Len(D)
<1>1. Len(k.wire) \in Nat /\ Len(D) \in Nat
  BY DEF GoodConn, Conns
<1>2. CASE Len(k.wire) = 0
  BY <1>2 DEF Tip, Before, MarkHeld, SoundApp
<1>3. CASE Len(k.wire) # 0
  <2>1. Len(k.wire) \in 1..Len(k.wire)
    BY <1>1, <1>3
  <2>2. SoundMessage(k.wire[Len(k.wire)], D)
    BY <2>1 DEF SoundWire, SoundLink
  <2>3. Tip(k, a) = MarkOf(k.wire[Len(k.wire)])
    BY <1>1, <1>3 DEF Tip, Before
  <2>. QED
    BY <1>1, <2>2, <2>3 DEF SoundMessage, MarkOf
<1>. QED
  BY <1>2, <1>3

LEMMA WireKept ==
    ASSUME NEW k, NEW j, NEW a, NEW D, j.wire = k.wire
    PROVE  Tip(j, a) = Tip(k, a) /\ (SoundWire(k, a, D) => SoundWire(j, a, D))
BY DEF Tip, Before, SoundWire

LEMMA WireCut ==
    ASSUME NEW k, NEW j, GoodConn(k), NEW a, NEW D, Cut(k, j), SoundWire(k, a, D)
    PROVE  SoundWire(j, a, D)
<1>1. Len(k.wire) \in Nat /\ Len(j.wire) \in 0..Len(k.wire)
  BY DEF GoodConn, Conns, Cut
<1>2. ASSUME NEW i \in 1..Len(j.wire) PROVE SoundLink(Before(j, a, i), j.wire[i], D)
  <2>1. i \in 1..Len(k.wire) /\ j.wire[i] = k.wire[i]
    BY <1>1 DEF Cut
  <2>2. i # 1 => i - 1 \in 1..Len(j.wire) /\ j.wire[i - 1] = k.wire[i - 1]
    BY <1>1 DEF Cut
  <2>3. Before(j, a, i) = Before(k, a, i)
    BY <2>2 DEF Before
  <2>. QED
    BY <2>1, <2>3 DEF SoundWire
<1>. QED
  BY <1>2 DEF SoundWire

LEMMA WireGrown ==
    ASSUME NEW k, NEW j, GoodConn(k), NEW a, NEW D, NEW m \in Messages,
           j.wire = Append(k.wire, m), SoundWire(k, a, D), SoundLink(Tip(k, a), m, D)
    PROVE  SoundWire(j, a, D) /\ Tip(j, a) = MarkOf(m)
<1>. DEFINE n == Len(k.wire)
<1>1. n \in Nat /\ k.wire \in Seq(Messages)
  BY DEF GoodConn, Conns
<1>2. /\ Len(j.wire) = n + 1 /\ j.wire[n + 1] = m
      /\ \A i \in 1..n : j.wire[i] = k.wire[i]
  BY <1>1, AppendProperties
<1>3. \A i \in 1..(n + 1) : Before(j, a, i) = Before(k, a, i)
  <2>1. \A i \in 1..(n + 1) : i # 1 => i - 1 \in 1..n
    BY <1>1
  <2>. QED
    BY <1>2, <2>1 DEF Before
<1>4. ASSUME NEW i \in 1..(n + 1) PROVE SoundLink(Before(j, a, i), j.wire[i], D)
  <2>1. CASE i = n + 1
    BY <1>2, <1>3, <2>1 DEF Tip
  <2>2. CASE i \in 1..n
    BY <1>2, <1>3, <2>2 DEF SoundWire
  <2>. QED
    BY <1>1, <2>1, <2>2
<1>5. Tip(j, a) = MarkOf(m)
  <2>1. n + 2 # 1 /\ (n + 2) - 1 = n + 1 /\ (n + 1) + 1 = n + 2
    BY <1>1
  <2>. QED
    BY <1>2, <2>1 DEF Tip, Before
<1>. QED
  BY <1>2, <1>4, <1>5 DEF SoundWire

\* Whoever stands at b2 can take whatever one who stands at b1 can.
Stands(b2, b1) == b2.at <= b1.at /\ (b1.grid => b2 = b1)

\* A frame handled: the client stands where the frame left it.
LEMMA WireRead ==
    ASSUME NEW k, NEW j, GoodConn(k), NEW a \in Apps, NEW b \in Apps, NEW D \in Seq(Screens),
           k.wire # <<>>, j.wire = Tail(k.wire), SoundWire(k, a, D),
           Stands(MarkHeld(b), MarkOf(Head(k.wire)))
    PROVE  /\ SoundWire(j, b, D)
           /\ \A d : Matches(Tip(k, a), d, D) => Matches(Tip(j, b), d, D)
<1>. DEFINE n == Len(k.wire)
<1>1. n \in Nat \ {0} /\ k.wire \in Seq(Messages) /\ Head(k.wire) = k.wire[1]
  BY HeadTailProperties DEF GoodConn, Conns
<1>2. Len(j.wire) = n - 1 /\ \A i \in 1..(n - 1) : j.wire[i] = k.wire[i + 1]
  BY <1>1, HeadTailProperties
<1>3. ASSUME NEW i \in 1..n PROVE Stands(Before(j, b, i), Before(k, a, i + 1))
  <2>1. i + 1 # 1 /\ (i + 1) - 1 = i /\ Before(k, a, i + 1) = MarkOf(k.wire[i])
    BY <1>1 DEF Before
  <2>2. CASE i = 1
    BY <1>1, <2>1, <2>2 DEF Before
  <2>3. CASE i # 1
    <3>1. i - 1 \in 1..(n - 1) /\ (i - 1) + 1 = i
      BY <1>1, <2>3
    <3>2. Before(j, b, i) = MarkOf(k.wire[i])
      BY <1>2, <2>3, <3>1 DEF Before
    <3>3. MarkOf(k.wire[i]).at \in Nat
      BY MarkTypes DEF Marks
    <3>. QED
      BY <2>1, <3>2, <3>3 DEF Stands
  <2>. QED
    BY <2>2, <2>3
<1>4. ASSUME NEW i \in 1..(n - 1) PROVE SoundLink(Before(j, b, i), j.wire[i], D)
  <2>1. i \in 1..n /\ i + 1 \in 1..n /\ j.wire[i] = k.wire[i + 1]
    BY <1>1, <1>2
  <2>2. SoundLink(Before(k, a, i + 1), k.wire[i + 1], D)
    BY <2>1 DEF SoundWire
  <2>3. Stands(Before(j, b, i), Before(k, a, i + 1))
    BY <1>3, <2>1
  <2>4. /\ Before(k, a, i + 1).at \in Nat /\ k.wire[i + 1].at \in Nat
        /\ Before(j, b, i).at \in Nat
    <3>1. Before(k, a, i + 1) \in Marks /\ k.wire[i + 1] \in Messages
      BY <1>1, <2>1, MarkTypes
    <3>2. k.wire[i] \in Messages /\ MarkHeld(b) \in Marks
      BY <2>1, MarkTypes
    <3>3. Before(j, b, i).at \in Nat
      <4>1. CASE i = 1
        BY <3>2, <4>1 DEF Before, Marks
      <4>2. CASE i # 1
        <5>1. i - 1 \in 1..(n - 1) /\ (i - 1) + 1 = i
          BY <1>1, <4>2
        <5>. QED
          BY <1>2, <3>2, <4>2, <5>1 DEF Before, MarkOf, Messages
      <4>. QED
        BY <4>1, <4>2
    <3>. QED
      BY <3>1, <3>3 DEF Marks, Messages
  <2>. QED
    BY <2>1, <2>2, <2>3, <2>4 DEF SoundLink, Stands, Follows
<1>5. Stands(Tip(j, b), Tip(k, a))
  <2>1. Len(j.wire) + 1 = n /\ n \in 1..n
    BY <1>1, <1>2
  <2>. QED
    BY <1>3, <2>1 DEF Tip
<1>. QED
  BY <1>2, <1>4, <1>5 DEF SoundWire, Stands, Matches

\* A screen drawn later disturbs nothing that is on its way.
LEMMA Drawing ==
    ASSUME NEW D \in Seq(Screens), NEW s \in Screens, NEW k, NEW a, NEW d,
           SoundClient(k, a, d, D)
    PROVE  SoundClient(k, a, d, Append(D, s))
<1>. DEFINE E == Append(D, s)
<1>1. /\ Len(D) \in Nat /\ Len(E) = Len(D) + 1
      /\ \A i \in 1..Len(D) : i \in 1..Len(E) /\ E[i] = D[i]
  BY AppendProperties
<1>. HIDE DEF E
<1>2. SoundApp(a, E)
  BY <1>1 DEF SoundClient, SoundPipe, SoundApp
<1>3. ASSUME NEW b, NEW m, SoundLink(b, m, D) PROVE SoundLink(b, m, E)
  BY <1>1, <1>3 DEF SoundLink, SoundMessage, Follows
<1>4. ASSUME NEW b, Matches(b, d, D) PROVE Matches(b, d, E)
  BY <1>1, <1>4 DEF Matches
<1>. QED
  BY <1>2, <1>3, <1>4 DEF SoundClient, SoundPipe, SoundWire, E

-----------------------------------------------------------------------------
(***************************************************************************)
(* What a step does to one client.                                         *)
(***************************************************************************)
LEMMA ScreenIsNoBelief == TypeOK => Screen # NoBelief /\ Restarted.belief = Screen
<1>. SUFFICES ASSUME TypeOK PROVE Screen # NoBelief
  BY DEF Restarted
<1>1. DOMAIN Screen = Rows
  BY MessageTypes DEF Screens
<1>2. DOMAIN NoBelief = {}
  BY DEF NoBelief
<1>. QED
  BY <1>1, <1>2, ScreenAssumption

\* A client keeps its place when nothing it will be sent changes and the
\* server does not come to think better of it.
LEMMA KeptSound ==
    ASSUME NEW k, NEW j, NEW a, NEW d, NEW D, SoundClient(k, a, d, D),
           j.wire = k.wire, Clean(j, a) => Clean(k, a)
    PROVE  SoundClient(j, a, d, D)
BY WireKept DEF SoundClient, SoundPipe

LEMMA CutSound ==
    ASSUME NEW k, GoodConn(k), NEW j, NEW a, NEW e, NEW D, SoundPipe(k, a, D),
           Cut(k, j)
    PROVE  SoundClient(j, a, e, D)
BY WireCut DEF SoundClient, SoundPipe, Clean, Cut

\* Another frame for a client whose last one it may follow.
LEMMA GrownSound ==
    ASSUME NEW k, GoodConn(k), NEW j, NEW a, NEW e, NEW D, SoundPipe(k, a, D),
           NEW m \in Messages, j.wire = Append(k.wire, m),
           a.alive => SoundLink(Tip(k, a), m, D),
           Clean(j, a) => Matches(MarkOf(m), e, D)
    PROVE  SoundClient(j, a, e, D)
<1>1. CASE a.alive
  <2>1. SoundWire(j, a, D) /\ Tip(j, a) = MarkOf(m)
    BY <1>1, WireGrown DEF SoundClient, SoundPipe
  <2>. QED
    BY <2>1 DEF SoundClient, SoundPipe
<1>2. CASE ~a.alive
  BY <1>2 DEF SoundClient, SoundPipe, Clean
<1>. QED
  BY <1>1, <1>2

\* Any frame that is not a delta may follow, if it is of the present screen.
LEMMA NowFollows ==
    ASSUME TypeOK, NEW k, GoodConn(k), NEW a \in Apps, SoundPipe(k, a, drawn),
           a.alive
    PROVE  /\ SoundLink(Tip(k, a), Snapshot, drawn)
           /\ SoundLink(Tip(k, a), Message("Detached", 0, NoCells, <<>>), drawn)
<1>1. drawn \in Seq(Screens) /\ Len(drawn) \in Nat \ {0}
  BY MessageTypes DEF TypeOK
<1>2. Tip(k, a).at \in 0..Len(drawn)
  BY <1>1, TipDrawn DEF SoundClient, SoundPipe
<1>. QED
  BY <1>1, <1>2 DEF SoundLink, SoundMessage, Snapshot, Message, Screen

LEMMA SnapshotSound ==
    ASSUME TypeOK, NEW k, GoodConn(k), NEW a \in Apps, SoundPipe(k, a, drawn),
           k.open
    PROVE  /\ SoundClient(WithSnapshot(k), a, Restarted, drawn)
           /\ WithSnapshot(k).attached => k.attached /\ WithSnapshot(k).open
<1>1. Matches(MarkOf(Snapshot), Restarted, drawn)
  <2>1. MarkOf(Snapshot) = [grid |-> TRUE, seq |-> 0, at |-> Len(drawn)]
    BY DEF MarkOf, Snapshot, Message
  <2>2. Believed(Restarted) = Screen /\ Restarted.seq = 0
    BY ScreenIsNoBelief DEF Believed, Restarted
  <2>. QED
    BY <2>1, <2>2, MessageTypes DEF Matches, Screen
<1>2. Snapshot \in Messages
  BY MessageTypes
<1>3. \/ ~k.open
      \/ Cut(k, WithSnapshot(k))
      \/ Grown(k, WithSnapshot(k), Snapshot) /\ WithSnapshot(k).attached = k.attached
  BY WithSnapshotCases
<1>4. CASE Cut(k, WithSnapshot(k))
  BY <1>4, CutSound DEF Cut
<1>5. CASE Grown(k, WithSnapshot(k), Snapshot) /\ WithSnapshot(k).attached = k.attached
  BY <1>1, <1>2, <1>5, GrownSound, NowFollows DEF Grown
<1>. QED
  BY <1>3, <1>4, <1>5

LEMMA DetachSound ==
    ASSUME TypeOK, NEW k, GoodConn(k), NEW a \in Apps, NEW e,
           SoundPipe(k, a, drawn)
    PROVE  SoundClient(DetachedFrom(k), a, e, drawn) /\ ~DetachedFrom(k).attached
<1>. DEFINE m == Message("Detached", 0, NoCells, <<>>)
            j == DetachedFrom(k)
<1>1. m \in Messages
  BY MessageTypes
<1>2. ~j.attached
  BY DetachedFromCases
<1>3. j.wire = k.wire \/ Cut(k, j) \/ Grown(k, j, m)
  BY DetachedFromCases
<1>4. ~Clean(j, a)
  BY <1>2 DEF Clean
<1>5. a.alive => SoundLink(Tip(k, a), m, drawn)
  BY NowFollows
<1>. HIDE DEF j, m
<1>6. SoundClient(j, a, e, drawn)
  <2>1. CASE j.wire = k.wire
    BY <1>4, <2>1, WireKept DEF SoundClient, SoundPipe
  <2>2. CASE Cut(k, j)
    BY <2>2, CutSound
  <2>3. CASE Grown(k, j, m)
    BY <1>1, <1>4, <1>5, <2>3, GrownSound DEF Grown
  <2>. QED
    BY <1>3, <2>1, <2>2, <2>3
<1>. QED
  BY <1>2, <1>6 DEF j

\* After the heal pass: the clients healed have the snapshot the differ now
\* believes in, and there is no other reader whom that would leave behind.
LEMMA HealSound ==
    ASSUME IInv
    PROVE  /\ \A c \in Clients :
                 /\ SoundClient(HealedConn(c), app[c], HealedDiffer, drawn)
                 /\ HealedConn(c).attached => conn[c].attached /\ HealedConn(c).open
           /\ (\E c \in Clients : Clean(HealedConn(c), app[c])) /\ HealedDiffer.belief # NoBelief
                 => \A r \in Rows \ term.damage : HealedDiffer.belief[r] = Screen[r]
           /\ HealedDiffer.belief = NoBelief => term.damage = Rows /\ ~HealedDiffer.diverged
<1>. USE DEF IInv
<1>1. \A c \in Clients : GoodConn(conn[c]) /\ app[c] \in Apps
  BY DEF TypeOK, GoodConn
<1>2. CASE \E c \in Clients : Healing(conn[c])
  <2>1. PICK e \in Clients : Healing(conn[e])
    BY <1>2
  <2>2. HealedDiffer = Restarted
    BY <1>2 DEF HealedDiffer
  <2>3. \A c \in Clients : c # e => HealedConn(c) = conn[c] /\ ~conn[c].attached
    BY <2>1 DEF OneReader, Healing, HealedConn
  <2>4. /\ SoundClient(HealedConn(e), app[e], Restarted, drawn)
        /\ HealedConn(e).attached => conn[e].attached /\ HealedConn(e).open
    BY <1>1, <2>1, SnapshotSound DEF HealedConn, Healing, OneReader, SoundClient
  <2>5. \A c \in Clients : c # e => SoundClient(HealedConn(c), app[c], Restarted, drawn)
    BY <2>3 DEF SoundClient, SoundPipe, Clean
  <2>. QED
    BY <2>2, <2>3, <2>4, <2>5, ScreenIsNoBelief
<1>3. CASE ~\E c \in Clients : Healing(conn[c])
  <2>1. HealedDiffer = differ /\ \A c \in Clients : HealedConn(c) = conn[c]
    BY <1>3 DEF HealedDiffer, HealedConn
  <2>. QED
    BY <2>1 DEF OneReader, HintsCover, Unflushed
<1>. QED
  BY <1>2, <1>3

-----------------------------------------------------------------------------
(***************************************************************************)
(* The steps, one lemma for each kind.                                     *)
(***************************************************************************)
LEMMA TickSound == IInv /\ Tick => IInv'
<1>. SUFFICES ASSUME IInv, Tick PROVE IInv'
  OBVIOUS
<1>. DEFINE D == HealedDiffer
            K(c) == Marked(HealedConn(c), D.needs)
            M == Delta(D)
<1>1. TypeOK' /\ Exclusive' /\ UNCHANGED <<drawn, app>>
  <2>1. UNCHANGED <<drawn, app, requests>>
    BY DEF Tick, TickIdle, TickReconcile, TickSilent, TickDelta
  <2>. QED
    BY <2>1, TickTypes DEF IInv, Exclusive
<1>2. /\ D \in Differs /\ M \in Messages
      /\ \A c \in Clients : GoodConn(HealedConn(c)) /\ app[c] \in Apps
  BY HealTypes, MessageTypes DEF IInv, TypeOK
<1>3. D.needs \in BOOLEAN /\ TRUE \in BOOLEAN
  BY <1>2 DEF Differs
<1>. HIDE DEF D, M
<1>4. ASSUME NEW c \in Clients, NEW n \in BOOLEAN
      PROVE  /\ GoodConn(Marked(HealedConn(c), n))
             /\ SoundClient(Marked(HealedConn(c), n), app[c], D, drawn)
             /\ Marked(HealedConn(c), n).attached
                  => conn[c].attached /\ Marked(HealedConn(c), n).open
             /\ Clean(Marked(HealedConn(c), n), app[c])
                  => Clean(HealedConn(c), app[c]) /\ ~n
  <2>1. /\ GoodConn(Marked(HealedConn(c), n))
        /\ Kept(HealedConn(c), Marked(HealedConn(c), n))
        /\ HealedConn(c).dirty => Marked(HealedConn(c), n).dirty
        /\ n /\ HealedConn(c).attached => Marked(HealedConn(c), n).dirty
    BY <1>2, MarkedCases
  <2>2. Clean(Marked(HealedConn(c), n), app[c]) => Clean(HealedConn(c), app[c]) /\ ~n
    BY <2>1 DEF Clean, Kept
  <2>. QED
    BY <2>1, <2>2, HealSound, KeptSound DEF Kept, D
<1>5. \A c, e \in Clients : conn[c].attached /\ conn[e].attached => c = e
  BY DEF IInv, OneReader
<1>6. (\E c \in Clients : Clean(HealedConn(c), app[c])) /\ D.belief # NoBelief
        => \A r \in Rows \ term.damage : D.belief[r] = Screen[r]
  BY HealSound DEF D
<1>7. D.belief = NoBelief => term.damage = Rows /\ ~D.diverged
  BY HealSound DEF D
<1>8. Screen' = Screen
  BY <1>1 DEF Screen
<1>9. CASE TickIdle
  <2>1. differ' = D /\ term' = term /\ \A c \in Clients : conn'[c] = K(c)
    BY <1>9 DEF TickIdle, D
  <2>2. OneReader'
    BY <1>3, <1>4, <1>5, <2>1 DEF OneReader
  <2>3. HintsCover'
    BY <1>1, <1>3, <1>4, <1>6, <1>8, <2>1 DEF HintsCover
  <2>4. Unflushed'
    BY <1>7, <2>1 DEF Unflushed
  <2>. QED
    BY <1>1, <1>3, <1>4, <2>1, <2>2, <2>3, <2>4 DEF IInv
<1>10. CASE TickReconcile
  <2>1. /\ differ' = [D EXCEPT !.needs = TRUE] /\ D.diverged
        /\ \A c \in Clients : conn'[c] = Marked(HealedConn(c), TRUE)
    BY <1>10 DEF TickReconcile, D
  <2>2. differ'.belief = D.belief
    BY <1>2, <2>1 DEF Differs
  <2>3. OneReader'
    BY <1>3, <1>4, <1>5, <2>1 DEF OneReader
  <2>4. \A c \in Clients : ~Clean(conn'[c], app[c])
    BY <1>3, <1>4, <2>1
  <2>5. \A c \in Clients : SoundClient(conn'[c], app[c], differ', drawn)
    BY <1>3, <1>4, <2>1, <2>4 DEF SoundClient, SoundPipe
  <2>6. HintsCover'
    BY <1>1, <2>4 DEF HintsCover
  <2>7. Unflushed'
    BY <1>7, <2>1, <2>2 DEF Unflushed
  <2>. QED
    BY <1>1, <2>3, <2>5, <2>6, <2>7 DEF IInv
<1>11. CASE TickSilent
  <2>1. /\ differ' = Noted(D) /\ Changed(D) = {} /\ term'.damage = {}
        /\ \A c \in Clients : conn'[c] = K(c)
    BY <1>11 DEF TickSilent, Silent, Cleared, D, IInv, TypeOK, Terms
  <2>2. differ'.belief = D.belief /\ differ'.seq = D.seq
    BY <1>2, <2>1 DEF Noted, Differs
  <2>3. OneReader'
    BY <1>3, <1>4, <1>5, <2>1 DEF OneReader
  <2>4. \A c \in Clients : SoundClient(conn'[c], app[c], differ', drawn)
    BY <1>3, <1>4, <2>1, <2>2 DEF SoundClient, SoundPipe, Matches, Believed
  <2>5. D.belief # NoBelief
    BY <2>1, ScreenAssumption DEF Changed
  <2>6. HintsCover'
    <3>1. \A r \in term.damage : D.belief[r] = Screen[r]
      BY <2>1, <2>5 DEF Changed
    <3>. QED
      BY <1>1, <1>3, <1>4, <1>6, <1>8, <2>1, <2>2, <3>1 DEF HintsCover
  <2>7. Unflushed'
    BY <2>2, <2>5 DEF Unflushed
  <2>. QED
    BY <1>1, <2>3, <2>4, <2>6, <2>7 DEF IInv
<1>12. CASE TickDelta
  <2>. DEFINE E == Advanced(D)
  <2>1. /\ differ' = E /\ term'.damage = {}
        /\ \A c \in Clients : conn'[c] = Streamed(K(c), M)
    BY <1>12 DEF TickDelta, Cleared, D, M, IInv, TypeOK, Terms
  <2>2. /\ E.seq = D.seq + 1
        /\ E.belief = [r \in Rows |-> IF r \in Changed(D) THEN Screen[r] ELSE D.belief[r]]
    BY <1>2 DEF Advanced, Noted, Differs
  <2>3. E.belief # NoBelief
    BY <2>2, ScreenAssumption DEF NoBelief
  <2>4. ASSUME \E c \in Clients : Clean(HealedConn(c), app[c])
        PROVE  /\ D.belief # NoBelief
                    => \A r \in Rows \ Changed(D) : D.belief[r] = Screen[r]
               /\ E.belief = Screen
    <3>1. D.belief = NoBelief => Changed(D) = Rows
      BY DEF Changed
    <3>2. D.belief # NoBelief => \A r \in Rows \ Changed(D) : D.belief[r] = Screen[r]
      BY <1>6, <2>4 DEF Changed
    <3>3. \A r \in Rows : E.belief[r] = Screen[r]
      BY <2>2, <3>1, <3>2
    <3>4. Screen \in [Rows -> Values] /\ E.belief = [r \in Rows |-> E.belief[r]]
      BY <2>2, MessageTypes DEF Screens, IInv
    <3>. QED
      BY <3>2, <3>3, <3>4
  <2>5. /\ M.type = "Delta" /\ M.seq = D.seq + 1 /\ M.at = Len(drawn)
        /\ M.cells = [r \in Changed(D) |-> Screen[r]]
    BY DEF M, Delta, Message
  <2>6. Changed(D) \subseteq Rows
    BY DEF Changed, IInv, TypeOK, Terms
  <2>7. ASSUME NEW c \in Clients, Clean(K(c), app[c])
        PROVE  SoundLink(Tip(K(c), app[c]), M, drawn) /\ Matches(MarkOf(M), E, drawn)
    <3>1. Clean(HealedConn(c), app[c]) /\ SoundClient(K(c), app[c], D, drawn)
      BY <1>3, <1>4, <2>7
    <3>2. Matches(Tip(K(c), app[c]), D, drawn)
      BY <2>7, <3>1 DEF SoundClient, SoundPipe
    <3>3. Len(drawn) \in 1..Len(drawn) /\ drawn[Len(drawn)] = Screen
      BY MessageTypes DEF IInv, Screen
    <3>4. SoundMessage(M, drawn)
      BY <2>5, <2>6, <3>3 DEF SoundMessage
    <3>5. \A r \in Rows \ Changed(D) : Believed(D)[r] = Screen[r]
      BY <2>4, <3>1 DEF Believed, Changed
    <3>6. Follows(Tip(K(c), app[c]), M, drawn)
      BY <2>5, <2>6, <3>2, <3>3, <3>5 DEF Matches, Follows
    <3>7. Tip(K(c), app[c]).at <= M.at
      BY <2>5, <3>2, MessageTypes DEF Matches, IInv
    <3>8. Matches(MarkOf(M), E, drawn)
      BY <2>2, <2>3, <2>4, <2>5, <3>1, <3>3 DEF Matches, MarkOf, Believed
    <3>. QED
      BY <3>4, <3>6, <3>7, <3>8 DEF SoundLink
  <2>8. ASSUME NEW c \in Clients
        PROVE  /\ SoundClient(conn'[c], app[c], E, drawn)
               /\ conn'[c].attached => conn[c].attached /\ conn'[c].open
               /\ Clean(conn'[c], app[c]) => Clean(HealedConn(c), app[c])
    <3>. DEFINE k == K(c)
                j == Streamed(k, M)
    <3>1. /\ GoodConn(k) /\ SoundClient(k, app[c], D, drawn)
          /\ k.attached => conn[c].attached /\ k.open
          /\ Clean(k, app[c]) => Clean(HealedConn(c), app[c])
      BY <1>3, <1>4
    <3>2. Clean(k, app[c]) =>
            SoundLink(Tip(k, app[c]), M, drawn) /\ Matches(MarkOf(M), E, drawn)
      BY <2>7
    <3>3. conn'[c] = j
      BY <2>1
    <3>. HIDE DEF k, E
    <3>4. \/ Kept(k, j) /\ (k.attached => j.dirty \/ ~k.open)
          \/ Cut(k, j)
          \/ Grown(k, j, M) /\ k.attached /\ ~k.dirty /\ j.attached
      BY <1>2, <3>1, StreamedCases
    <3>. HIDE DEF j
    <3>5. CASE Kept(k, j) /\ (k.attached => j.dirty \/ ~k.open)
      <4>1. ~Clean(j, app[c])
        BY <3>1, <3>5 DEF Kept, Clean
      <4>2. SoundClient(j, app[c], E, drawn)
        BY <3>1, <3>5, <4>1, WireKept DEF Kept, SoundClient, SoundPipe
      <4>. QED
        BY <3>1, <3>3, <3>5, <4>1, <4>2 DEF Kept
    <3>6. CASE Cut(k, j)
      BY <3>1, <3>3, <3>6, CutSound DEF Cut, Clean, SoundClient
    <3>7. CASE Grown(k, j, M) /\ k.attached /\ ~k.dirty /\ j.attached
      <4>1. app[c].alive => Clean(k, app[c])
        BY <3>7 DEF Clean
      <4>2. SoundClient(j, app[c], E, drawn)
        BY <1>2, <3>1, <3>2, <3>7, <4>1, GrownSound DEF Grown, Clean, SoundClient
      <4>. QED
        BY <3>1, <3>3, <3>7, <4>1, <4>2 DEF Grown, Clean
    <3>. QED
      BY <3>4, <3>5, <3>6, <3>7
  <2>. HIDE DEF E
  <2>9. OneReader'
    BY <1>5, <2>8 DEF OneReader
  <2>10. HintsCover'
    BY <1>1, <1>8, <2>1, <2>4, <2>8 DEF HintsCover
  <2>11. Unflushed'
    BY <2>1, <2>3 DEF Unflushed
  <2>. QED
    BY <1>1, <2>1, <2>8, <2>9, <2>10, <2>11 DEF IInv
<1>. QED
  BY <1>9, <1>10, <1>11, <1>12 DEF Tick

LEMMA ProgramSound == IInv /\ (Output \/ Synchronize \/ Exit \/ Respawn) => IInv'
<1>. SUFFICES ASSUME IInv, Output \/ Synchronize \/ Exit \/ Respawn PROVE IInv'
  OBVIOUS
<1>1. TypeOK' /\ Exclusive' /\ UNCHANGED <<app, requests>>
  <2>1. UNCHANGED <<app, requests>>
    BY DEF Output, Synchronize, Exit, Respawn
  <2>. QED
    BY <2>1, ProgramTypes DEF IInv, Exclusive
<1>2. drawn \in Seq(Screens) /\ Len(drawn) \in Nat \ {0} /\ term \in Terms
  BY MessageTypes DEF IInv, TypeOK
<1>3. ASSUME NEW s \in Screens
      PROVE  Len(Append(drawn, s)) = Len(drawn) + 1 /\ Append(drawn, s)[Len(drawn) + 1] = s
  BY <1>2, AppendProperties
<1>4. CASE Output
  <2>1. PICK W \in SUBSET Rows : \E text \in [W -> Values], n \in 0..(MaxLines - term.total) :
           /\ drawn' = Append(drawn, [r \in Rows |-> IF r \in W THEN text[r] ELSE Screen[r]])
           /\ term' = [term EXCEPT !.damage = @ \union W, !.pushed = @ + n, !.total = @ + n]
           /\ UNCHANGED <<differ, conn>>
    BY <1>4 DEF Output
  <2>. PICK text \in [W -> Values], n \in 0..(MaxLines - term.total) :
           /\ drawn' = Append(drawn, [r \in Rows |-> IF r \in W THEN text[r] ELSE Screen[r]])
           /\ term' = [term EXCEPT !.damage = @ \union W, !.pushed = @ + n, !.total = @ + n]
           /\ UNCHANGED <<differ, conn>>
    BY <2>1
  <2>. DEFINE s == [r \in Rows |-> IF r \in W THEN text[r] ELSE Screen[r]]
  <2>2. s \in Screens
    BY MessageTypes DEF Screens, IInv
  <2>3. drawn' = Append(drawn, s) /\ term'.damage = term.damage \union W
    BY <1>2 DEF Terms
  <2>4. \A r \in Rows \ W : s[r] = Screen[r]
    OBVIOUS
  <2>. HIDE DEF s
  <2>5. Screen' = s
    BY <1>3, <2>2, <2>3 DEF Screen
  <2>6. \A c \in Clients : SoundClient(conn'[c], app'[c], differ', drawn')
    BY <1>1, <1>2, <2>2, <2>3, Drawing DEF IInv
  <2>7. OneReader' /\ HintsCover'
    BY <1>1, <2>3, <2>4, <2>5 DEF IInv, OneReader, HintsCover
  <2>8. Unflushed'
    BY <1>2, <2>3 DEF IInv, Unflushed, Terms
  <2>. QED
    BY <1>1, <2>6, <2>7, <2>8 DEF IInv
<1>5. CASE Synchronize \/ Exit
  <2>1. UNCHANGED <<drawn, differ, conn, app>> /\ term'.damage = term.damage
    BY <1>2, <1>5 DEF Synchronize, Exit, Terms
  <2>. QED
    BY <1>1, <2>1 DEF IInv, OneReader, HintsCover, Unflushed, Screen
<1>6. CASE Respawn
  <2>. DEFINE m == [Message("Opened", 0, NoCells, <<>>) EXCEPT !.at = Len(drawn) + 1]
  <2>1. m \in Messages /\ m.type = "Opened" /\ m.seq = 0 /\ m.at = Len(drawn) + 1
    BY MessageTypes DEF IInv, Message
  <2>2. /\ drawn' = Append(drawn, BlankScreen) /\ BlankScreen \in Screens
        /\ differ' = FreshDiffer /\ term'.damage = Rows
        /\ \A c \in Clients :
              conn'[c] = IF ~conn[c].attached THEN conn[c] ELSE Sent(conn[c], m)
    BY <1>6, ScreenAssumption DEF Respawn, BlankScreen, Screens
  <2>. HIDE DEF m
  <2>3. FreshDiffer.belief = NoBelief /\ FreshDiffer.seq = 0 /\ FreshDiffer.diverged = FALSE
    BY DEF FreshDiffer
  <2>4. Matches(MarkOf(m), FreshDiffer, drawn')
    <3>1. MarkOf(m) = [grid |-> TRUE, seq |-> 0, at |-> Len(drawn) + 1]
      BY <2>1 DEF MarkOf
    <3>2. Len(drawn) + 1 \in 1..Len(drawn') /\ drawn'[Len(drawn) + 1] = BlankScreen
      BY <1>2, <1>3, <2>2
    <3>. QED
      BY <2>3, <3>1, <3>2 DEF Matches, Believed
  <2>5. ASSUME NEW c \in Clients
        PROVE  /\ SoundClient(conn'[c], app'[c], differ', drawn')
               /\ conn'[c].attached => conn[c].attached /\ conn'[c].open
    <3>1. /\ GoodConn(conn[c]) /\ app[c] \in Apps
          /\ conn[c].attached => conn[c].open
          /\ SoundClient(conn[c], app[c], differ, drawn)
      BY DEF IInv, TypeOK, GoodConn, OneReader
    <3>2. SoundClient(conn[c], app[c], differ, drawn')
      BY <1>2, <2>2, <3>1, Drawing
    <3>3. CASE ~conn[c].attached
      BY <1>1, <2>2, <3>2, <3>3 DEF SoundClient, SoundPipe, Clean
    <3>4. CASE conn[c].attached
      <4>0. conn[c].open /\ conn'[c] = Sent(conn[c], m)
        BY <2>2, <3>1, <3>4
      <4>. DEFINE k == conn[c]
                  j == Sent(k, m)
      <4>1. Cut(k, j) \/ (Grown(k, j, m) /\ j.attached = k.attached)
        BY <2>1, <3>1, <4>0, SentCases
      <4>2. app[c].alive => SoundLink(Tip(conn[c], app[c]), m, drawn')
        <5>1. app[c].alive => Tip(conn[c], app[c]).at \in 0..Len(drawn)
          BY <1>2, <3>1, TipDrawn DEF SoundClient, SoundPipe
        <5>. QED
          BY <1>2, <1>3, <2>1, <2>2, <5>1 DEF SoundLink, SoundMessage
      <4>3. CASE Cut(conn[c], conn'[c])
        BY <1>1, <3>1, <3>2, <4>3, CutSound DEF Cut, SoundClient
      <4>4. CASE Grown(conn[c], conn'[c], m) /\ conn'[c].attached = conn[c].attached
        BY <1>1, <2>1, <2>2, <2>4, <3>1, <3>2, <4>2, <4>4, GrownSound DEF Grown, SoundClient
      <4>. QED
        BY <4>0, <4>1, <4>3, <4>4
    <3>. QED
      BY <3>3, <3>4
  <2>6. OneReader' /\ HintsCover' /\ Unflushed'
    BY <2>2, <2>3, <2>5 DEF IInv, OneReader, HintsCover, Unflushed
  <2>. QED
    BY <1>1, <2>5, <2>6 DEF IInv
<1>. QED
  BY <1>4, <1>5, <1>6

LEMMA ServerSound == ASSUME IInv, NEW c \in Clients, ServerStep(c) PROVE IInv'
<1>. USE DEF IInv
<1>1. TypeOK' /\ UNCHANGED <<drawn, term, app>>
  BY ServerTypes DEF ServerStep, HandleAttach, HandleDetach, Flush, HearHangup
<1>2. \A e \in Clients : /\ GoodConn(conn[e]) /\ app[e] \in Apps
                         /\ SoundClient(conn[e], app[e], differ, drawn)
  BY DEF TypeOK, GoodConn
<1>3. Screen' = Screen
  BY <1>1 DEF Screen
<1>4. ASSUME requests[c] # <<>>, requests' = [requests EXCEPT ![c] = Tail(@)]
      PROVE  Exclusive' /\ Head(requests[c]).mode = "TakeOver"
  <2>1. requests \in [Clients -> Seq(Requests)]
    BY DEF TypeOK
  <2>2. /\ Head(requests[c]) = requests[c][1] /\ 1 \in 1..Len(requests[c])
        /\ \A i \in 1..Len(Tail(requests[c])) :
              i + 1 \in 1..Len(requests[c]) /\ Tail(requests[c])[i] = requests[c][i + 1]
    BY <1>4, <2>1, HeadTailProperties
  <2>. QED
    BY <1>1, <1>4, <2>1, <2>2 DEF Exclusive
<1>5. CASE HandleAttach(c)
  <2>. DEFINE j == [conn[c] EXCEPT !.attached = TRUE, !.dirty = FALSE]
  <2>1. Exclusive' /\ Head(requests[c]).mode = "TakeOver" /\ conn[c].open
    BY <1>4, <1>5 DEF HandleAttach
  <2>2. GoodConn(j) /\ j.open /\ j.wire = conn[c].wire
    BY <1>2, <2>1 DEF GoodConn, Conns
  <2>3. /\ differ' = Restarted /\ conn'[c] = WithSnapshot(j)
        /\ \A e \in Clients : e # c =>
              conn'[e] = IF IsFirstHolder(e) THEN DetachedFrom(conn[e]) ELSE conn[e]
    BY <1>5, <2>1 DEF HandleAttach
  <2>. HIDE DEF j
  <2>4. SoundPipe(j, app[c], drawn)
    BY <1>2, <2>2, WireKept DEF SoundClient, SoundPipe
  <2>5. /\ SoundClient(conn'[c], app[c], differ', drawn)
        /\ conn'[c].attached => conn'[c].open
    BY <1>2, <2>2, <2>3, <2>4, SnapshotSound
  <2>6. ASSUME NEW e \in Clients, e # c
        PROVE  SoundClient(conn'[e], app[e], differ', drawn) /\ ~conn'[e].attached
    <3>1. CASE IsFirstHolder(e)
      BY <1>2, <2>3, <2>6, <3>1, DetachSound DEF SoundClient
    <3>2. CASE ~IsFirstHolder(e)
      <4>1. conn'[e] = conn[e] /\ ~conn[e].attached
        BY <2>3, <2>6, <3>2 DEF IsFirstHolder, Holders, OneReader, Clients
      <4>. QED
        BY <1>2, <4>1 DEF SoundClient, Clean
    <3>. QED
      BY <3>1, <3>2
  <2>7. OneReader' /\ HintsCover' /\ Unflushed'
    BY <1>1, <1>3, <2>3, <2>5, <2>6, ScreenIsNoBelief DEF OneReader, HintsCover, Unflushed
  <2>. QED
    BY <1>1, <2>1, <2>5, <2>6, <2>7
<1>6. ASSUME NEW j, conn' = [conn EXCEPT ![c] = j], differ' = differ, Exclusive',
             SoundClient(j, app[c], differ, drawn),
             j.attached => conn[c].attached /\ j.open,
             Clean(j, app[c]) => Clean(conn[c], app[c])
      PROVE  IInv'
  <2>1. conn'[c] = j /\ \A e \in Clients : e # c => conn'[e] = conn[e]
    BY <1>6 DEF TypeOK
  <2>2. OneReader'
    BY <1>6, <2>1 DEF OneReader
  <2>3. HintsCover' /\ Unflushed'
    BY <1>1, <1>3, <1>6, <2>1 DEF HintsCover, Unflushed
  <2>4. \A e \in Clients : SoundClient(conn'[e], app'[e], differ', drawn')
    BY <1>1, <1>2, <1>6, <2>1
  <2>. QED
    BY <1>1, <1>6, <2>2, <2>3, <2>4
<1>7. CASE HandleDetach(c)
  <2>1. Exclusive'
    BY <1>4, <1>7 DEF HandleDetach
  <2>2. /\ SoundClient(DetachedFrom(conn[c]), app[c], differ, drawn)
        /\ ~DetachedFrom(conn[c]).attached
    BY <1>2, DetachSound DEF SoundClient
  <2>. QED
    BY <1>6, <1>7, <2>1, <2>2 DEF HandleDetach, Clean
<1>8. CASE Flush(c)
  <2>. DEFINE j == [conn[c] EXCEPT !.unsent = @ - 1]
  <2>1. /\ j.wire = conn[c].wire /\ j.attached = conn[c].attached
        /\ j.dirty = conn[c].dirty /\ j.open
    BY <1>2, <1>8 DEF Flush, GoodConn, Conns
  <2>2. conn' = [conn EXCEPT ![c] = j] /\ differ' = differ /\ Exclusive'
    BY <1>8 DEF Flush, Exclusive
  <2>. HIDE DEF j
  <2>3. SoundClient(j, app[c], differ, drawn)
    BY <1>2, <2>1, KeptSound DEF Clean
  <2>. QED
    BY <1>6, <2>1, <2>2, <2>3 DEF Clean
<1>9. CASE HearHangup(c)
  <2>. DEFINE d == Dropped(conn[c])
              j == [d EXCEPT !.wire = <<>>]
  <2>1. GoodConn(d) /\ ~d.attached
    BY <1>2, DroppedType
  <2>. HIDE DEF d
  <2>2. ~j.attached
    BY <2>1 DEF GoodConn, Conns
  <2>3. conn' = [conn EXCEPT ![c] = j] /\ differ' = differ /\ Exclusive' /\ ~app[c].alive
    BY <1>9 DEF HearHangup, Exclusive, d
  <2>. HIDE DEF j
  <2>. QED
    BY <1>2, <1>6, <2>2, <2>3 DEF SoundClient, SoundPipe, Clean
<1>. QED
  BY <1>5, <1>7, <1>8, <1>9 DEF ServerStep

\* What a client makes of the frame at the head of its wire, if it is sound: it
\* stands where the frame says, and is never told to heal.
LEMMA ReceiveSound ==
    ASSUME IInv, NEW c \in Clients, Receive(c)
    PROVE  \E b \in Apps :
              /\ Consume(c, b) /\ conn[c].wire # <<>> /\ app[c].alive /\ b.alive
              /\ b.mode = app[c].mode
              /\ SoundApp(b, drawn)
              /\ Stands(MarkHeld(b), MarkOf(Head(conn[c].wire)))
              /\ app[c].at <= b.at /\ (app[c].known => b.known)
<1>. DEFINE m == Head(conn[c].wire)
            a == app[c]
<1>. USE DEF IInv
<1>1. /\ a \in Apps /\ a.alive /\ conn[c] \in Conns /\ conn[c].wire # <<>>
      /\ m = conn[c].wire[1] /\ 1 \in 1..Len(conn[c].wire) /\ m \in Messages
  <2>1. a.alive /\ Len(conn[c].wire) > conn[c].unsent /\ conn[c] \in Conns
    BY DEF Receive, ReceiveAttached, ReceiveOpened, ReceiveDetached, ReceiveDelta,
           ReceiveGap, Arrived, TypeOK
  <2>. QED
    BY <2>1, HeadTailProperties DEF Conns, TypeOK
<1>2. SoundApp(a, drawn) /\ SoundLink(MarkHeld(a), m, drawn)
  BY <1>1 DEF SoundClient, SoundPipe, SoundWire, Before
<1>3. a.at <= m.at /\ m.at \in 1..Len(drawn) /\ Len(drawn) \in Nat
  BY <1>2, MessageTypes DEF SoundLink, SoundMessage, MarkHeld
<1>4. drawn[m.at] \in Screens
  BY <1>3 DEF TypeOK
<1>. HIDE DEF m, a
<1>5. \A b : MarkHeld(b) = MarkOf(m) => Stands(MarkHeld(b), MarkOf(m))
  BY <1>3 DEF Stands, MarkOf
<1>6. CASE ReceiveAttached(c)
  <2>. DEFINE b == Adopted(a, m)
  <2>1. m.type = "Attached" /\ Consume(c, b)
    BY <1>6 DEF ReceiveAttached, Arrived, m, a
  <2>2. m.cells = drawn[m.at] /\ m.seq = 0
    BY <1>2, <2>1 DEF SoundLink, SoundMessage
  <2>3. /\ b \in Apps /\ b.alive /\ b.mode = a.mode /\ b.known /\ b.seq = 0
        /\ b.at = m.at /\ b.rows = m.cells /\ ~b.needs
    <3>1. m.cells \in Screens /\ m.at \in Nat /\ m.lines \in Seq(Nat)
      BY <1>1, <1>4, <2>2 DEF Messages
    <3>2. /\ b.alive = a.alive /\ b.mode = a.mode /\ b.known /\ b.seq = 0
          /\ b.at = m.at /\ b.rows = m.cells /\ ~b.needs
      BY <1>1 DEF Adopted, Apps
    <3>3. b \in Apps
      BY <1>1, <3>1 DEF Adopted, Apps
    <3>. QED
      BY <1>1, <3>2, <3>3
  <2>4. MarkHeld(b) = MarkOf(m)
    BY <2>1, <2>2, <2>3 DEF MarkHeld, MarkOf
  <2>. HIDE DEF b
  <2>5. SoundApp(b, drawn)
    BY <1>3, <2>2, <2>3 DEF SoundApp
  <2>. QED
    BY <1>1, <1>3, <1>5, <2>1, <2>3, <2>4, <2>5 DEF m, a
<1>7. CASE ReceiveOpened(c)
  <2>. DEFINE b == Opened(a, m)
  <2>1. m.type = "Opened" /\ Consume(c, b)
    BY <1>7 DEF ReceiveOpened, Arrived, m, a
  <2>2. BlankScreen = drawn[m.at] /\ m.seq = 0
    BY <1>2, <2>1 DEF SoundLink, SoundMessage
  <2>3. /\ b \in Apps /\ b.alive /\ b.mode = a.mode /\ b.known /\ b.seq = 0
        /\ b.at = m.at /\ b.rows = BlankScreen /\ ~b.needs
    <3>1. BlankScreen \in Screens /\ m.at \in Nat /\ <<>> \in Seq(Nat)
      BY <1>1, <1>4, <2>2 DEF Messages
    <3>2. b \in Apps
      BY <1>1, <3>1 DEF Opened, Apps
    <3>. QED
      BY <1>1, <3>2 DEF Opened, Apps
  <2>4. MarkHeld(b) = MarkOf(m)
    BY <2>1, <2>2, <2>3 DEF MarkHeld, MarkOf
  <2>. HIDE DEF b
  <2>5. SoundApp(b, drawn)
    BY <1>3, <2>2, <2>3 DEF SoundApp
  <2>. QED
    BY <1>1, <1>3, <1>5, <2>1, <2>3, <2>4, <2>5 DEF m, a
<1>8. CASE ReceiveDetached(c)
  <2>. DEFINE b == [a EXCEPT !.attached = FALSE]
  <2>1. m.type = "Detached" /\ Consume(c, b)
    BY <1>8 DEF ReceiveDetached, Arrived, m, a
  <2>2. /\ b \in Apps /\ b.alive /\ b.mode = a.mode /\ b.known = a.known /\ b.at = a.at
        /\ b.rows = a.rows /\ b.needs = a.needs
    BY <1>1 DEF Apps
  <2>. HIDE DEF b
  <2>3. Stands(MarkHeld(b), MarkOf(m))
    BY <1>3, <2>1, <2>2 DEF Stands, MarkHeld, MarkOf
  <2>4. SoundApp(b, drawn)
    BY <1>1, <1>2, <2>2 DEF SoundApp
  <2>5. a.at <= b.at
    BY <1>1, <2>2 DEF Apps
  <2>. QED
    BY <1>1, <2>1, <2>2, <2>3, <2>4, <2>5 DEF m, a
<1>9. CASE ReceiveDelta(c)
  <2>. DEFINE b == Applied(a, m)
  <2>1. m.type = "Delta" /\ Consume(c, b)
    BY <1>9 DEF ReceiveDelta, Arrived, m, a
  <2>2. Follows(MarkHeld(a), m, drawn) /\ SoundMessage(m, drawn)
    BY <1>2, <2>1 DEF SoundLink
  <2>3. a.known /\ a.rows = drawn[a.at] /\ a.at \in 1..Len(drawn) /\ ~a.needs
    BY <1>2, <2>2 DEF Follows, MarkHeld, SoundApp
  <2>4. b.rows = drawn[m.at]
    <3>1. b.rows = [r \in Rows |-> IF r \in DOMAIN m.cells THEN m.cells[r] ELSE a.rows[r]]
      BY <1>1 DEF Applied, Apps
    <3>2. \A r \in Rows : b.rows[r] = drawn[m.at][r]
      BY <2>1, <2>2, <2>3, <3>1 DEF Follows, SoundMessage, MarkHeld
    <3>. QED
      BY <1>4, <3>1, <3>2 DEF Screens
  <2>5. a.lines \o m.lines \in Seq(Nat)
    BY <1>1, ConcatProperties DEF Apps, Messages
  <2>6. /\ b.alive /\ b.mode = a.mode /\ b.known = a.known /\ b.seq = m.seq
        /\ b.at = m.at /\ b.needs = a.needs
    BY <1>1 DEF Applied, Apps
  <2>7. b \in Apps
    <3>1. b = [a EXCEPT !.rows = b.rows, !.lines = a.lines \o m.lines, !.seq = m.seq, !.at = m.at]
      BY <1>1 DEF Applied, Apps
    <3>. QED
      BY <1>1, <1>4, <2>4, <2>5, <3>1 DEF Apps, Messages
  <2>8. MarkHeld(b) = MarkOf(m)
    BY <2>1, <2>3, <2>6 DEF MarkHeld, MarkOf
  <2>. HIDE DEF b
  <2>9. SoundApp(b, drawn)
    BY <1>1, <1>3, <2>3, <2>4, <2>6 DEF SoundApp
  <2>. QED
    BY <1>1, <1>3, <1>5, <2>1, <2>3, <2>6, <2>7, <2>8, <2>9 DEF m, a
<1>10. CASE ReceiveGap(c)
  <2>1. m.type = "Delta" /\ m.seq # a.seq + 1
    BY <1>10 DEF ReceiveGap, Arrived, Due, m, a
  <2>. QED
    BY <1>2, <2>1 DEF SoundLink, Follows, MarkHeld
<1>. QED
  BY <1>6, <1>7, <1>8, <1>9, <1>10 DEF Receive

LEMMA ClientSound ==
    ASSUME IInv, NEW c \in Clients, ClientStep(c), Modes = {"TakeOver"}
    PROVE  IInv'
<1>. USE DEF IInv
<1>1. TypeOK' /\ UNCHANGED <<drawn, term, differ>>
  BY ClientTypes DEF ClientStep, UserAttach, Quit, Crash, LoseConnection, Heal, Receive,
     ReceiveAttached, ReceiveOpened, ReceiveDetached, ReceiveDelta, ReceiveGap, Consume
<1>2. /\ app \in [Clients -> Apps] /\ requests \in [Clients -> Seq(Requests)]
      /\ \A e \in Clients : GoodConn(conn[e]) /\ SoundClient(conn[e], app[e], differ, drawn)
  BY DEF TypeOK, GoodConn
<1>3. Screen' = Screen
  BY <1>1 DEF Screen
<1>4. ASSUME NEW request, request.mode = "TakeOver",
             requests' = [requests EXCEPT ![c] = Append(requests[c], request)],
             app'[c].mode = "TakeOver", \A e \in Clients : e # c => app'[e] = app[e]
      PROVE  Exclusive'
  <2>1. requests[c] \in Seq(Requests) /\ Len(requests[c]) \in Nat
    BY <1>2
  <2>2. \A i \in 1..Len(requests'[c]) :
           \/ i \in 1..Len(requests[c]) /\ requests'[c][i] = requests[c][i]
           \/ requests'[c][i] = request
    BY <1>2, <1>4, <2>1
  <2>3. \A e \in Clients : e # c => requests'[e] = requests[e]
    BY <1>2, <1>4
  <2>. QED
    BY <1>4, <2>2, <2>3 DEF Exclusive
<1>5. ASSUME NEW b \in Apps, app' = [app EXCEPT ![c] = b], conn' = conn, Exclusive',
             SoundClient(conn[c], b, differ, drawn), b.alive => app[c].alive
      PROVE  IInv'
  <2>1. app'[c] = b /\ \A e \in Clients : e # c => app'[e] = app[e]
    BY <1>2, <1>5
  <2>2. \A e \in Clients : Clean(conn'[e], app'[e]) => Clean(conn[e], app[e])
    BY <1>5, <2>1 DEF Clean
  <2>3. OneReader' /\ HintsCover' /\ Unflushed'
    BY <1>1, <1>3, <1>5, <2>2 DEF OneReader, HintsCover, Unflushed
  <2>4. \A e \in Clients : SoundClient(conn'[e], app'[e], differ', drawn')
    BY <1>1, <1>2, <1>5, <2>1
  <2>. QED
    BY <1>1, <1>5, <2>3, <2>4
<1>6. ASSUME NEW mode \in Modes, UserAttach(c, mode) PROVE IInv'
  <2>. DEFINE b == [app[c] EXCEPT !.mode = mode, !.pending = FALSE]
  <2>1. mode = "TakeOver" /\ AttachRequest(mode).mode = mode
    BY <1>6, ModeAssumption DEF AttachRequest
  <2>2. /\ b \in Apps /\ b.mode = "TakeOver" /\ MarkHeld(b) = MarkHeld(app[c])
        /\ b.alive = app[c].alive /\ SoundApp(b, drawn)
    <3>1. /\ b.alive = app[c].alive /\ b.known = app[c].known /\ b.at = app[c].at
          /\ b.seq = app[c].seq /\ b.rows = app[c].rows /\ b.needs = app[c].needs
          /\ b.mode = mode /\ b \in Apps
      BY <1>2, <2>1 DEF Apps
    <3>2. SoundApp(app[c], drawn)
      BY <1>2 DEF SoundClient, SoundPipe
    <3>. HIDE DEF b
    <3>. QED
      BY <2>1, <3>1, <3>2 DEF MarkHeld, SoundApp
  <2>3. /\ app' = [app EXCEPT ![c] = b] /\ conn' = conn
        /\ requests' = [requests EXCEPT ![c] = Append(requests[c], AttachRequest(mode))]
    BY <1>6 DEF UserAttach
  <2>. HIDE DEF b
  <2>4. Exclusive'
    BY <1>2, <1>4, <2>1, <2>2, <2>3
  <2>5. SoundClient(conn[c], b, differ, drawn)
    BY <1>2, <2>2 DEF SoundClient, SoundPipe, SoundWire, Tip, Before, Clean
  <2>. QED
    BY <1>5, <2>2, <2>3, <2>4, <2>5
<1>7. Gone \in Apps /\ ~Gone.alive /\ ~Gone.known /\ SoundClient(conn[c], Gone, differ, drawn)
  <2>1. ~Gone.alive /\ ~Gone.known /\ Gone.at = 0 /\ ~Gone.needs
    BY DEF Gone, IdleApp
  <2>2. IdleApp \in Apps
    BY ScreenAssumption DEF IdleApp, Apps, BlankScreen, Screens
  <2>3. Gone \in Apps
    BY <2>2 DEF Gone, Apps
  <2>. QED
    BY <2>1, <2>3, MessageTypes DEF SoundClient, SoundPipe, SoundApp, Clean
<1>8. CASE Quit(c) \/ Crash(c) \/ LoseConnection(c)
  <2>1. app' = [app EXCEPT ![c] = Gone] /\ conn' = conn
    BY <1>8 DEF Quit, Crash, LoseConnection
  <2>2. app'[c].mode = "TakeOver" /\ \A e \in Clients : e # c => app'[e] = app[e]
    BY <1>2, <2>1 DEF Gone, IdleApp
  <2>3. Exclusive'
    <3>1. CASE Quit(c)
      <4>1. DetachRequest.mode = "TakeOver"
        BY DEF DetachRequest
      <4>2. requests' = [requests EXCEPT ![c] = Append(requests[c], DetachRequest)]
        BY <3>1 DEF Quit
      <4>. QED
        BY <1>4, <2>2, <4>1, <4>2
    <3>2. CASE Crash(c) \/ LoseConnection(c)
      BY <1>2, <2>2, <3>2 DEF Crash, LoseConnection, Exclusive
    <3>. QED
      BY <1>8, <3>1, <3>2
  <2>. QED
    BY <1>5, <1>7, <2>1, <2>3
<1>9. CASE Heal(c)
  BY <1>2, <1>9 DEF Heal, WantsSnapshot, SoundClient, SoundPipe, SoundApp
<1>10. CASE Receive(c)
  <2>1. PICK b \in Apps :
          /\ Consume(c, b) /\ conn[c].wire # <<>> /\ app[c].alive /\ b.alive
          /\ b.mode = app[c].mode
          /\ SoundApp(b, drawn)
          /\ Stands(MarkHeld(b), MarkOf(Head(conn[c].wire)))
    BY <1>10, ReceiveSound
  <2>. DEFINE k == conn[c]
              j == [k EXCEPT !.wire = Tail(k.wire)]
  <2>2. /\ app' = [app EXCEPT ![c] = b] /\ conn' = [conn EXCEPT ![c] = j]
        /\ requests' = requests
    BY <2>1 DEF Consume
  <2>3. /\ j.wire = Tail(k.wire) /\ j.attached = k.attached /\ j.dirty = k.dirty
        /\ j.open = k.open
    BY <1>2 DEF GoodConn, Conns
  <2>4. /\ app'[c] = b /\ conn'[c] = j
        /\ \A e \in Clients : e # c => app'[e] = app[e] /\ conn'[e] = conn[e]
    BY <1>2, <2>2 DEF TypeOK
  <2>. HIDE DEF j
  <2>5. /\ SoundWire(j, b, drawn)
        /\ Matches(Tip(k, app[c]), differ, drawn) => Matches(Tip(j, b), differ, drawn)
    BY <1>2, <2>1, <2>3, WireRead DEF SoundClient, SoundPipe, TypeOK
  <2>6. SoundClient(j, b, differ, drawn)
    BY <1>2, <2>1, <2>3, <2>5 DEF SoundClient, SoundPipe, Clean
  <2>7. \A e \in Clients : SoundClient(conn'[e], app'[e], differ', drawn')
    BY <1>1, <1>2, <2>4, <2>6
  <2>8. \A e \in Clients : Clean(conn'[e], app'[e]) => Clean(conn[e], app[e])
    BY <2>1, <2>3, <2>4 DEF Clean
  <2>9. OneReader' /\ HintsCover' /\ Unflushed'
    BY <1>1, <1>3, <2>3, <2>4, <2>8 DEF OneReader, HintsCover, Unflushed
  <2>10. Exclusive'
    BY <2>1, <2>2, <2>4 DEF Exclusive
  <2>. QED
    BY <1>1, <2>7, <2>9, <2>10
<1>. QED
  BY <1>6, <1>8, <1>9, <1>10 DEF ClientStep

-----------------------------------------------------------------------------
(***************************************************************************)
(* The theorems.                                                           *)
(***************************************************************************)
LEMMA Initially == Init => IInv
<1>. SUFFICES ASSUME Init PROVE IInv
  OBVIOUS
<1>1. TypeOK
  BY InitTypes
<1>2. Exclusive
  BY DEF Init, Exclusive, IdleApp
<1>3. OneReader /\ HintsCover /\ Unflushed
  BY DEF Init, OneReader, HintsCover, Unflushed, FreshDiffer, Clean
<1>4. ASSUME NEW c \in Clients PROVE SoundClient(conn[c], app[c], differ, drawn)
  <2>1. /\ app[c].at = 0 /\ ~app[c].known /\ app[c].alive /\ ~app[c].needs
        /\ Len(conn[c].wire) = 0 /\ ~conn[c].attached
    BY DEF Init, IdleApp
  <2>. QED
    BY <2>1, MessageTypes, <1>1 DEF SoundClient, SoundPipe, SoundApp, SoundWire, Clean
<1>. QED
  BY <1>1, <1>2, <1>3, <1>4 DEF IInv

LEMMA Inductive == ASSUME Modes = {"TakeOver"} PROVE IInv /\ [Next]_vars => IInv'
<1>1. ASSUME IInv, UNCHANGED vars PROVE IInv'
  BY <1>1 DEF vars, IInv, TypeOK, Exclusive, OneReader, HintsCover, Unflushed, Screen
<1>. QED
  BY <1>1, TickSound, ProgramSound, ServerSound, ClientSound DEF Next

\* What the invariant says of the screens readers look at.
LEMMA Consequences == IInv => MirrorDrawn /\ NoGap /\ CleanIsCurrent
<1>. SUFFICES ASSUME IInv PROVE MirrorDrawn /\ NoGap /\ CleanIsCurrent
  OBVIOUS
<1>1. MirrorDrawn /\ NoGap
  BY DEF IInv, SoundClient, SoundPipe, SoundApp, MirrorDrawn, NoGap
<1>2. ASSUME NEW c \in Clients, conn[c].attached, ~conn[c].dirty, app[c].alive,
             conn[c].wire = <<>>, term.damage = {}
      PROVE  app[c].rows = Screen
  <2>1. Matches(MarkHeld(app[c]), differ, drawn) /\ Clean(conn[c], app[c])
    BY <1>2 DEF IInv, SoundClient, Clean, Tip, Before
  <2>2. app[c].rows = Believed(differ)
    BY <2>1 DEF Matches, MarkHeld, IInv, SoundClient, SoundPipe, SoundApp
  <2>3. differ.belief # NoBelief
    BY <1>2, ScreenAssumption DEF IInv, Unflushed
  <2>4. \A r \in Rows : app[c].rows[r] = Screen[r]
    BY <1>2, <2>1, <2>2, <2>3 DEF IInv, HintsCover, Believed
  <2>5. app[c].rows \in Screens /\ Screen \in Screens
    BY MessageTypes DEF IInv, TypeOK, Apps
  <2>. QED
    BY <2>4, <2>5 DEF Screens
<1>. QED
  BY <1>1, <1>2 DEF CleanIsCurrent

\* When readers take the session over from one another, no client of any number,
\* with queues of any size, ever shows a screen the program did not draw, however
\* attaches, skipped deltas, heals, dropped connections and respawns interleave.
THEOREM ScreensAreDrawn == ASSUME Modes = {"TakeOver"} PROVE Spec => []MirrorDrawn
<1>1. IInv /\ [Next]_vars => IInv'
  BY Inductive
<1>2. IInv => MirrorDrawn
  BY Consequences
<1>. QED
  BY <1>1, <1>2, Initially, PTL DEF Spec

\* ... nor a delta out of its turn: the number the server counts and the number
\* the mirror counts never part, so the client's own check is never what saves it.
THEOREM StreamHasNoGap == ASSUME Modes = {"TakeOver"} PROVE Spec => []NoGap
<1>1. IInv /\ [Next]_vars => IInv'
  BY Inductive
<1>2. IInv => NoGap
  BY Consequences
<1>. QED
  BY <1>1, <1>2, Initially, PTL DEF Spec

\* ... and a reader the flush tick takes for clean, with nothing on its way and
\* no damage left to flush, is looking at the terminal's screen.
THEOREM CleanReadersAreCurrent == ASSUME Modes = {"TakeOver"} PROVE Spec => []CleanIsCurrent
<1>1. IInv /\ [Next]_vars => IInv'
  BY Inductive
<1>2. IInv => CleanIsCurrent
  BY Consequences
<1>. QED
  BY <1>1, <1>2, Initially, PTL DEF Spec

\* Every step is one of Replay's or leaves what readers are shown alone.
LEMMA StepReplays ==
    ASSUME IInv, [Next]_vars, Modes = {"TakeOver"}
    PROVE  [Promise!Next]_(Promise!vars)
<1>1. app \in [Clients -> Apps] /\ drawn \in Seq(Screens)
  BY DEF IInv, TypeOK
<1>2. ASSUME UNCHANGED <<drawn, app>> PROVE UNCHANGED Promise!vars
  BY <1>2 DEF Promise!vars, Shown, ShownAt
<1>3. ASSUME NEW s \in Screens, drawn' = Append(drawn, s), UNCHANGED app PROVE Promise!Draw
  BY <1>3 DEF Promise!Draw, Shown, ShownAt
<1>4. ASSUME Output \/ Respawn PROVE Promise!Draw
  <2>1. CASE Output
    <3>1. PICK W \in SUBSET Rows : \E text \in [W -> Values] :
            drawn' = Append(drawn, [r \in Rows |-> IF r \in W THEN text[r] ELSE Screen[r]])
      BY <2>1 DEF Output
    <3>2. PICK text \in [W -> Values] :
            drawn' = Append(drawn, [r \in Rows |-> IF r \in W THEN text[r] ELSE Screen[r]])
      BY <3>1
    <3>3. [r \in Rows |-> IF r \in W THEN text[r] ELSE Screen[r]] \in Screens
      BY MessageTypes DEF Screens, IInv
    <3>4. UNCHANGED app
      BY <2>1 DEF Output
    <3>. QED
      BY <1>3, <3>2, <3>3, <3>4
  <2>2. CASE Respawn
    BY <1>3, <2>2, ScreenAssumption DEF Respawn, BlankScreen, Screens
  <2>. QED
    BY <1>4, <2>1, <2>2
<1>5. ASSUME NEW c \in Clients, NEW b \in Apps, app' = [app EXCEPT ![c] = b], drawn' = drawn
      PROVE  /\ ShownAt' = [ShownAt EXCEPT ![c] = IF b.known THEN b.at ELSE 0]
             /\ Shown' = [Shown EXCEPT ![c] = IF b.known THEN b.rows ELSE <<>>]
             /\ ShownAt[c] = IF app[c].known THEN app[c].at ELSE 0
             /\ Shown[c] = IF app[c].known THEN app[c].rows ELSE <<>>
  <2>1. \A d \in Clients : app'[d] = IF d = c THEN b ELSE app[d]
    BY <1>1, <1>5
  <2>2. ShownAt' = [ShownAt EXCEPT ![c] = IF b.known THEN b.at ELSE 0]
    BY <2>1 DEF ShownAt
  <2>3. Shown' = [Shown EXCEPT ![c] = IF b.known THEN b.rows ELSE <<>>]
    BY <2>1 DEF Shown
  <2>. QED
    BY <2>2, <2>3 DEF Shown, ShownAt
<1>6. ASSUME NEW c \in Clients, NEW b \in Apps, app' = [app EXCEPT ![c] = b], drawn' = drawn,
             b.known = app[c].known, b.at = app[c].at, b.rows = app[c].rows
      PROVE  UNCHANGED Promise!vars
  <2>1. ShownAt' = [ShownAt EXCEPT ![c] = ShownAt[c]] /\ Shown' = [Shown EXCEPT ![c] = Shown[c]]
    <3>1. /\ ShownAt' = [ShownAt EXCEPT ![c] = IF b.known THEN b.at ELSE 0]
          /\ Shown' = [Shown EXCEPT ![c] = IF b.known THEN b.rows ELSE <<>>]
          /\ ShownAt[c] = IF app[c].known THEN app[c].at ELSE 0
          /\ Shown[c] = IF app[c].known THEN app[c].rows ELSE <<>>
      BY <1>5, <1>6
    <3>2. /\ ShownAt[c] = IF b.known THEN b.at ELSE 0
          /\ Shown[c] = IF b.known THEN b.rows ELSE <<>>
      BY <1>6, <3>1
    <3>. QED
      BY <3>1, <3>2
  <2>2. ShownAt' = ShownAt /\ Shown' = Shown
    BY <2>1 DEF Shown, ShownAt
  <2>. QED
    BY <1>6, <2>2 DEF Promise!vars
<1>7. ASSUME NEW c \in Clients, ClientStep(c) PROVE [Promise!Next]_(Promise!vars)
  <2>1. ASSUME NEW mode \in Modes, UserAttach(c, mode) PROVE UNCHANGED Promise!vars
    <3>. DEFINE b == [app[c] EXCEPT !.mode = mode, !.pending = FALSE]
    <3>1. /\ b \in Apps /\ b.known = app[c].known /\ b.at = app[c].at /\ b.rows = app[c].rows
      BY <1>1, ModeAssumption DEF Apps
    <3>2. app' = [app EXCEPT ![c] = b] /\ drawn' = drawn
      BY <2>1 DEF UserAttach
    <3>. HIDE DEF b
    <3>. QED
      BY <1>6, <3>1, <3>2
  <2>2. CASE Quit(c) \/ Crash(c) \/ LoseConnection(c)
    <3>1. app' = [app EXCEPT ![c] = Gone] /\ drawn' = drawn
      BY <2>2 DEF Quit, Crash, LoseConnection
    <3>2. Gone \in Apps /\ ~Gone.known
      <4>1. IdleApp \in Apps
        BY ScreenAssumption DEF IdleApp, Apps, BlankScreen, Screens
      <4>. QED
        BY <4>1 DEF Apps, Gone, IdleApp
    <3>3. Promise!Leave(c)
      BY <1>5, <3>1, <3>2 DEF Promise!Leave
    <3>. QED
      BY <3>3 DEF Promise!Next
  <2>4. CASE Heal(c)
    BY <2>4 DEF Heal, WantsSnapshot, IInv, SoundClient, SoundPipe, SoundApp
  <2>5. CASE Receive(c)
    <3>1. PICK b \in Apps :
            /\ Consume(c, b) /\ SoundApp(b, drawn)
            /\ app[c].at <= b.at /\ (app[c].known => b.known)
      BY <2>5, ReceiveSound
    <3>2. app' = [app EXCEPT ![c] = b] /\ drawn' = drawn
      BY <3>1 DEF Consume
    <3>3. CASE b.known
      <4>1. b.at \in 1..Len(drawn) /\ b.rows = drawn[b.at]
        BY <3>1, <3>3 DEF SoundApp
      <4>2. ShownAt[c] <= b.at
        <5>1. ShownAt[c] = IF app[c].known THEN app[c].at ELSE 0
          BY DEF ShownAt
        <5>. QED
          BY <1>1, <3>1, <4>1, <5>1 DEF Apps
      <4>3. /\ ShownAt' = [ShownAt EXCEPT ![c] = b.at]
            /\ Shown' = [Shown EXCEPT ![c] = drawn[b.at]]
        BY <1>5, <3>2, <3>3, <4>1
      <4>4. Promise!Show(c)
        BY <3>2, <4>1, <4>2, <4>3 DEF Promise!Show
      <4>. QED
        BY <4>4 DEF Promise!Next
    <3>4. CASE ~b.known
      <4>1. ShownAt' = [ShownAt EXCEPT ![c] = 0] /\ Shown' = [Shown EXCEPT ![c] = <<>>]
        BY <1>5, <3>2, <3>4
      <4>2. Promise!Leave(c)
        BY <3>2, <4>1 DEF Promise!Leave
      <4>. QED
        BY <4>2 DEF Promise!Next
    <3>. QED
      BY <3>3, <3>4
  <2>. QED
    BY <1>7, <2>1, <2>2, <2>4, <2>5 DEF ClientStep
<1>8. ASSUME Synchronize \/ Exit \/ Tick \/ (\E c \in Clients : ServerStep(c))
      PROVE  UNCHANGED <<drawn, app>>
  BY <1>8 DEF Synchronize, Exit, Tick, TickIdle, TickReconcile, TickSilent, TickDelta,
     ServerStep, HandleAttach, HandleDetach, Flush, HearHangup
<1>9. ASSUME UNCHANGED vars PROVE UNCHANGED <<drawn, app>>
  BY <1>9 DEF vars
<1>. QED
  BY <1>2, <1>4, <1>7, <1>8, <1>9 DEF Next, Promise!Next

\* The server, its queues and the client mirrors implement Replay: whatever the
\* number of clients and wherever deltas, snapshots and takeovers cross, each
\* reader is shown what the program drew, in the order it drew it.
THEOREM Implements == ASSUME Modes = {"TakeOver"} PROVE Spec => ReplaysTheProgram
<1>1. IInv /\ [Next]_vars => IInv'
  BY Inductive
<1>2. IInv /\ [Next]_vars => [Promise!Next]_(Promise!vars)
  BY StepReplays
<1>3. Init => Promise!Init
  BY DEF Init, Promise!Init, Shown, ShownAt, IdleApp
<1>. QED
  BY <1>1, <1>2, <1>3, Initially, PTL DEF Spec, ReplaysTheProgram, Promise!Spec

-----------------------------------------------------------------------------
(***************************************************************************)
(* Heals that are under way, whatever the modes readers attach in.         *)
(***************************************************************************)
Holding(k) == \E i \in DOMAIN k.wire : k.wire[i].type = "Attached"
Asks(q) == \E i \in DOMAIN q : q[i].type = "Attach"
\* The connection has the answer, or will never have one and its client hears so.
Answering(k) == ~k.open \/ Holding(k)

\* Nothing the server does to a connection takes an answer from it.
LEMMA AnsweringKept ==
    ASSUME NEW k, GoodConn(k), Answering(k), NEW j, NEW m \in Messages,
           (j.wire = k.wire /\ j.open = k.open) \/ Cut(k, j) \/ Grown(k, j, m)
    PROVE  Answering(j)
<1>1. CASE j.wire = k.wire /\ j.open = k.open
  BY <1>1 DEF Answering, Holding
<1>2. CASE Cut(k, j)
  BY <1>2 DEF Cut, Answering
<1>3. CASE Grown(k, j, m)
  <2>1. k.wire \in Seq(Messages) /\ k.open /\ j.wire = Append(k.wire, m)
    BY <1>3 DEF GoodConn, Conns, Grown
  <2>2. PICK i \in DOMAIN k.wire : k.wire[i].type = "Attached"
    BY <2>1 DEF Answering, Holding
  <2>3. i \in 1..Len(k.wire) /\ i \in DOMAIN j.wire /\ j.wire[i] = k.wire[i]
    BY <2>1, <2>2, AppendProperties
  <2>. QED
    BY <2>2, <2>3 DEF Answering, Holding
<1>. QED
  BY <1>1, <1>2, <1>3

LEMMA SnapshotAnswers ==
    ASSUME TypeOK, NEW k, GoodConn(k)
    PROVE  Answering(WithSnapshot(k))
<1>. DEFINE j == WithSnapshot(k)
<1>1. (~k.open /\ Kept(k, j)) \/ Cut(k, j) \/ Grown(k, j, Snapshot)
  BY WithSnapshotCases
<1>2. Snapshot \in Messages /\ Snapshot.type = "Attached" /\ k.wire \in Seq(Messages)
  BY MessageTypes DEF Snapshot, Message, GoodConn, Conns
<1>. HIDE DEF j
<1>3. CASE Grown(k, j, Snapshot)
  <2>1. j.wire = Append(k.wire, Snapshot)
    BY <1>3 DEF Grown
  <2>. DEFINE i == Len(k.wire) + 1
  <2>2. i \in DOMAIN j.wire /\ j.wire[i] = Snapshot
    BY <1>2, <2>1, AppendProperties
  <2>. HIDE DEF i
  <2>3. j.wire[i].type = "Attached"
    BY <1>2, <2>2
  <2>. QED
    BY <2>2, <2>3 DEF Answering, Holding, j
<1>. QED
  BY <1>1, <1>3 DEF Kept, Cut, Answering, j

LEMMA TickAnswers ==
    ASSUME TypeOK, Tick, NEW c \in Clients, Answering(conn[c])
    PROVE  Answering(conn'[c])
<1>1. GoodConn(conn[c]) /\ GoodConn(HealedConn(c)) /\ HealedDiffer \in Differs
  BY HealTypes DEF TypeOK, GoodConn
<1>2. HealedDiffer.needs \in BOOLEAN /\ TRUE \in BOOLEAN /\ Delta(HealedDiffer) \in Messages
  BY <1>1, MessageTypes DEF Differs
<1>3. Answering(HealedConn(c))
  BY <1>1, SnapshotAnswers DEF HealedConn
<1>. DEFINE h == HealedConn(c)
            m == Delta(HealedDiffer)
            n == HealedDiffer.needs
<1>. HIDE DEF h, m, n
<1>4. ASSUME NEW b \in BOOLEAN PROVE GoodConn(Marked(h, b)) /\ Answering(Marked(h, b))
  <2>1. GoodConn(Marked(h, b)) /\ Kept(h, Marked(h, b))
    BY <1>1, MarkedCases DEF h
  <2>. QED
    BY <1>2, <1>3, <2>1, AnsweringKept, <1>1 DEF Kept, h
<1>5. Answering(Streamed(Marked(h, n), m))
  <2>. DEFINE k == Marked(h, n)
  <2>1. GoodConn(k) /\ Answering(k) /\ m \in Messages
    BY <1>2, <1>4 DEF n, m
  <2>. HIDE DEF k
  <2>2. Kept(k, Streamed(k, m)) \/ Cut(k, Streamed(k, m)) \/ Grown(k, Streamed(k, m), m)
    BY <2>1, StreamedCases
  <2>. QED
    BY <2>1, <2>2, AnsweringKept DEF Kept, k
<1>6. conn'[c] \in {Marked(h, n), Marked(h, TRUE), Streamed(Marked(h, n), m)}
  BY DEF Tick, TickIdle, TickReconcile, TickSilent, TickDelta, h, m, n
<1>. QED
  BY <1>2, <1>4, <1>5, <1>6 DEF n

\* A request handled: the others are still asked, or it was the Attach and is answered.
LEMMA AskedStill ==
    ASSUME NEW q \in Seq(Requests), q # <<>>, Asks(q)
    PROVE  Head(q).type = "Attach" \/ Asks(Tail(q))
<1>1. PICK i \in 1..Len(q) : q[i].type = "Attach"
  BY DEF Asks
<1>2. Len(q) \in Nat /\ Head(q) = q[1] /\ Tail(q) \in Seq(Requests) /\ Len(Tail(q)) = Len(q) - 1
      /\ \A n \in 1..(Len(q) - 1) : Tail(q)[n] = q[n + 1]
  BY EmptySeq, LenProperties, HeadTailProperties
<1>3. ASSUME i # 1 PROVE i - 1 \in DOMAIN Tail(q) /\ Tail(q)[i - 1] = q[i]
  <2>1. i - 1 \in 1..(Len(q) - 1) /\ (i - 1) + 1 = i
    BY <1>2, <1>3
  <2>. QED
    BY <1>2, <2>1
<1>. QED
  BY <1>1, <1>2, <1>3 DEF Asks

LEMMA AskedMore ==
    ASSUME NEW q \in Seq(Requests), NEW r \in Requests
    PROVE  /\ Asks(q) => Asks(Append(q, r))
           /\ r.type = "Attach" => Asks(Append(q, r))
<1>1. Len(q) \in Nat /\ DOMAIN q = 1..Len(q) /\ DOMAIN Append(q, r) = 1..(Len(q) + 1)
      /\ Append(q, r)[Len(q) + 1] = r /\ \A i \in 1..Len(q) : Append(q, r)[i] = q[i]
  BY AppendProperties, LenProperties
<1>2. Len(q) + 1 \in 1..(Len(q) + 1) /\ \A i \in 1..Len(q) : i \in 1..(Len(q) + 1)
  BY <1>1
<1>. QED
  BY <1>1, <1>2 DEF Asks

LEMMA ServerHeals ==
    ASSUME TypeOK, NEW c \in Clients, ServerStep(c), NEW e \in Clients, app[e].alive,
           Answering(conn[e]) \/ Asks(requests[e])
    PROVE  Answering(conn'[e]) \/ Asks(requests'[e])
<1>1. /\ GoodConn(conn[c]) /\ GoodConn(conn[e]) /\ conn \in [Clients -> Conns]
      /\ requests \in [Clients -> Seq(Requests)] /\ requests[c] \in Seq(Requests)
      /\ Message("Detached", 0, NoCells, <<>>) \in Messages
  BY MessageTypes DEF TypeOK, GoodConn
<1>2. ASSUME Answering(conn[e]) PROVE Answering(DetachedFrom(conn[e]))
  BY <1>1, <1>2, DetachedFromCases, AnsweringKept
<1>3. CASE HandleAttach(c)
  <2>. DEFINE j == [conn[c] EXCEPT !.attached = TRUE, !.dirty = FALSE]
  <2>1. GoodConn(j)
    BY <1>1 DEF GoodConn, Conns
  <2>2. /\ requests' = [requests EXCEPT ![c] = Tail(@)]
        /\ \A d \in Clients : conn'[d] \in {conn[d], DetachedFrom(conn[d])} \/ d = c
        /\ conn'[c] = WithSnapshot(j)
    BY <1>3 DEF HandleAttach
  <2>. HIDE DEF j
  <2>3. CASE e = c
    BY <2>1, <2>2, <2>3, SnapshotAnswers
  <2>4. CASE e # c
    BY <1>1, <1>2, <2>2, <2>4
  <2>. QED
    BY <2>3, <2>4
<1>4. CASE HandleDetach(c)
  <2>1. /\ requests' = [requests EXCEPT ![c] = Tail(@)] /\ conn' = [conn EXCEPT ![c] = DetachedFrom(@)]
        /\ requests[c] # <<>> /\ Head(requests[c]).type = "Detach"
    BY <1>4 DEF HandleDetach
  <2>2. Asks(requests[e]) => Asks(requests'[e])
    BY <1>1, <2>1, AskedStill
  <2>3. Answering(conn[e]) => Answering(conn'[e])
    BY <1>1, <1>2, <2>1
  <2>. QED
    BY <2>2, <2>3
<1>5. CASE Flush(c)
  <2>1. requests' = requests /\ conn'[e].wire = conn[e].wire /\ conn'[e].open = conn[e].open
    BY <1>1, <1>5 DEF Flush, Conns
  <2>. QED
    BY <2>1 DEF Answering, Holding
<1>6. CASE HearHangup(c)
  BY <1>1, <1>6 DEF HearHangup
<1>. QED
  BY <1>3, <1>4, <1>5, <1>6 DEF ServerStep

\* A frame read: it is the answer, which ends the wait, or the answer is behind it.
LEMMA ReadHeals ==
    ASSUME TypeOK, NEW c \in Clients, Receive(c), Answering(conn[c]), app'[c].pending
    PROVE  Answering(conn'[c]) /\ app[c].pending
<1>. DEFINE q == conn[c].wire
            m == Head(q)
<1>1. /\ conn \in [Clients -> Conns] /\ app \in [Clients -> Apps] /\ q \in Seq(Messages)
      /\ conn[c].unsent \in Nat
  BY DEF TypeOK, Conns
<1>2. Len(q) > conn[c].unsent /\ conn' = [conn EXCEPT ![c].wire = Tail(@)]
  BY DEF Receive, ReceiveAttached, ReceiveOpened, ReceiveDetached, ReceiveDelta, ReceiveGap, Arrived, Consume
<1>3. conn'[c].wire = Tail(q) /\ conn'[c].open = conn[c].open /\ q # <<>>
  BY <1>1, <1>2 DEF Conns
<1>4. m.type # "Attached" /\ app[c].pending
  <2>1. CASE ReceiveAttached(c)
    <3>1. app' = [app EXCEPT ![c] = Adopted(app[c], m)]
      BY <2>1 DEF ReceiveAttached, Consume
    <3>2. Adopted(app[c], m).pending = FALSE
      BY <1>1 DEF Adopted, Apps
    <3>. QED
      BY <1>1, <3>1, <3>2
  <2>2. CASE ReceiveOpened(c)
    <3>1. app' = [app EXCEPT ![c] = Opened(app[c], m)] /\ m.type = "Opened"
      BY <2>2 DEF ReceiveOpened, Consume, Arrived
    <3>2. Opened(app[c], m).pending = app[c].pending
      BY <1>1 DEF Opened, Apps
    <3>. QED
      BY <1>1, <3>1, <3>2
  <2>3. CASE ReceiveDetached(c)
    BY <1>1, <2>3 DEF ReceiveDetached, Consume, Arrived, Apps
  <2>4. CASE ReceiveDelta(c)
    <3>1. app' = [app EXCEPT ![c] = Applied(app[c], m)] /\ m.type = "Delta"
      BY <2>4 DEF ReceiveDelta, Consume, Arrived
    <3>2. Applied(app[c], m).pending = app[c].pending
      BY <1>1 DEF Applied, Apps
    <3>. QED
      BY <1>1, <3>1, <3>2
  <2>5. CASE ReceiveGap(c)
    BY <1>1, <2>5 DEF ReceiveGap, Consume, Arrived, Apps
  <2>. QED
    BY <2>1, <2>2, <2>3, <2>4, <2>5 DEF Receive
<1>5. ASSUME Holding(conn[c]) PROVE Holding(conn'[c])
  <2>1. PICK i \in 1..Len(q) : q[i].type = "Attached"
    BY <1>1, <1>5 DEF Holding
  <2>2. Len(q) \in Nat /\ m = q[1] /\ Tail(q) \in Seq(Messages) /\ Len(Tail(q)) = Len(q) - 1
        /\ \A n \in 1..(Len(q) - 1) : Tail(q)[n] = q[n + 1]
    BY <1>1, <1>3, EmptySeq, LenProperties, HeadTailProperties
  <2>. HIDE DEF q, m
  <2>3. i # 1
    BY <1>4, <2>1, <2>2
  <2>4. i - 1 \in 1..(Len(q) - 1) /\ (i - 1) + 1 = i
    BY <2>1, <2>2, <2>3
  <2>5. i - 1 \in DOMAIN Tail(q) /\ Tail(q)[i - 1] = q[i]
    BY <2>2, <2>4
  <2>. QED
    BY <1>3, <2>1, <2>5 DEF Holding
<1>. QED
  BY <1>3, <1>4, <1>5 DEF Answering

LEMMA ClientHeals ==
    ASSUME TypeOK, NEW c \in Clients, ClientStep(c), app'[c].alive, app'[c].pending,
           app[c].alive /\ app[c].pending => Answering(conn[c]) \/ Asks(requests[c])
    PROVE  Answering(conn'[c]) \/ Asks(requests'[c])
<1>1. /\ app \in [Clients -> Apps] /\ requests \in [Clients -> Seq(Requests)]
      /\ requests[c] \in Seq(Requests)
  BY DEF TypeOK
<1>2. ASSUME NEW mode \in Modes, UserAttach(c, mode) PROVE FALSE
  BY <1>1, <1>2 DEF UserAttach, Apps
<1>3. CASE Quit(c) \/ Crash(c) \/ LoseConnection(c)
  <2>1. app' = [app EXCEPT ![c] = Gone] /\ ~Gone.alive
    BY <1>3 DEF Quit, Crash, LoseConnection, Gone, IdleApp
  <2>. QED
    BY <1>1, <2>1
<1>4. CASE Heal(c)
  <2>1. AttachRequest(app[c].mode) \in Requests /\ AttachRequest(app[c].mode).type = "Attach"
    BY <1>1 DEF AttachRequest, Requests, Apps
  <2>2. requests'[c] = Append(requests[c], AttachRequest(app[c].mode))
    BY <1>1, <1>4 DEF Heal
  <2>. QED
    BY <1>1, <2>1, <2>2, AskedMore
<1>5. CASE Receive(c)
  <2>1. requests' = requests /\ app[c].alive
    BY <1>5 DEF Receive, ReceiveAttached, ReceiveOpened, ReceiveDetached, ReceiveDelta, ReceiveGap,
                Consume, Arrived
  <2>2. CASE Answering(conn[c])
    BY <1>5, <2>2, ReadHeals
  <2>3. CASE ~Answering(conn[c])
    <3>1. app[c].pending
      <4>. DEFINE m == Head(conn[c].wire)
      <4>1. app'[c] \in {Adopted(app[c], m), Opened(app[c], m), [app[c] EXCEPT !.attached = FALSE],
                         Applied(app[c], m), [app[c] EXCEPT !.needs = TRUE]}
        BY <1>1, <1>5 DEF Receive, ReceiveAttached, ReceiveOpened, ReceiveDetached, ReceiveDelta,
           ReceiveGap, Consume
      <4>. HIDE DEF m
      <4>2. /\ Adopted(app[c], m).pending = FALSE /\ Opened(app[c], m).pending = app[c].pending
            /\ [app[c] EXCEPT !.attached = FALSE].pending = app[c].pending
            /\ Applied(app[c], m).pending = app[c].pending
            /\ [app[c] EXCEPT !.needs = TRUE].pending = app[c].pending
        BY <1>1 DEF Adopted, Opened, Applied, Apps
      <4>. QED
        BY <4>1, <4>2
    <3>. QED
      BY <2>1, <2>3, <3>1
  <2>. QED
    BY <2>2, <2>3
<1>. QED
  BY <1>2, <1>3, <1>4, <1>5 DEF ClientStep

LEMMA StepHeals == TypeOK /\ HealUnderWay /\ [Next]_vars => HealUnderWay'
<1>. SUFFICES ASSUME TypeOK, HealUnderWay, [Next]_vars,
                     NEW e \in Clients, app'[e].alive, app'[e].pending
              PROVE  Answering(conn'[e]) \/ Asks(requests'[e])
  BY DEF HealUnderWay, Answering, Holding, Asks
<1>1. app[e].alive /\ app[e].pending => Answering(conn[e]) \/ Asks(requests[e])
  BY DEF HealUnderWay, Answering, Holding, Asks
<1>2. GoodConn(conn[e]) /\ conn \in [Clients -> Conns] /\ app \in [Clients -> Apps]
      /\ requests \in [Clients -> Seq(Requests)]
  BY DEF TypeOK, GoodConn
<1>3. CASE UNCHANGED vars \/ Output \/ Synchronize \/ Exit
  BY <1>1, <1>3 DEF vars, Output, Synchronize, Exit
<1>4. CASE Respawn
  <2>. DEFINE m == [Message("Opened", 0, NoCells, <<>>) EXCEPT !.at = Len(drawn) + 1]
  <2>1. m \in Messages /\ conn'[e] \in {conn[e], Sent(conn[e], m)} /\ UNCHANGED <<app, requests>>
    BY <1>4, MessageTypes DEF Respawn
  <2>. HIDE DEF m
  <2>2. Answering(conn[e]) => Answering(Sent(conn[e], m))
    BY <1>2, <2>1, SentCases, AnsweringKept
  <2>. QED
    BY <1>1, <2>1, <2>2
<1>5. CASE Tick
  <2>1. UNCHANGED <<app, requests>>
    BY <1>5 DEF Tick, TickIdle, TickReconcile, TickSilent, TickDelta
  <2>. QED
    BY <1>1, <1>5, <2>1, TickAnswers
<1>6. ASSUME NEW c \in Clients, ServerStep(c) PROVE Answering(conn'[e]) \/ Asks(requests'[e])
  <2>1. app' = app
    BY <1>6 DEF ServerStep, HandleAttach, HandleDetach, Flush, HearHangup
  <2>. QED
    BY <1>1, <1>6, <2>1, ServerHeals
<1>7. ASSUME NEW c \in Clients, ClientStep(c) PROVE Answering(conn'[e]) \/ Asks(requests'[e])
  <2>1. CASE c = e
    BY <1>1, <1>7, <2>1, ClientHeals
  <2>2. CASE c # e
    <3>1. app'[e] = app[e] /\ requests'[e] = requests[e] /\ conn'[e] = conn[e]
      BY <1>2, <1>7, <2>2 DEF ClientStep, UserAttach, Quit, Crash, LoseConnection, Heal, Receive,
         ReceiveAttached, ReceiveOpened, ReceiveDetached, ReceiveDelta, ReceiveGap, Consume
    <3>. QED
      BY <1>1, <3>1
  <2>. QED
    BY <2>1, <2>2
<1>. QED
  BY <1>3, <1>4, <1>5, <1>6, <1>7 DEF Next

\* A client that waits for a heal has its Attach or the answer under way, or a
\* connection about to end: ServerSession's guard on a second request never
\* outlives the first, in any mode, with queues of any size.
THEOREM HealsAreUnderWay == Spec => []HealUnderWay
<1>1. Init => HealUnderWay
  BY DEF Init, HealUnderWay, IdleApp
<1>2. TypeOK /\ HealUnderWay /\ [Next]_vars => HealUnderWay'
  BY StepHeals
<1>. QED
  BY <1>1, <1>2, TypeCorrect, PTL DEF Spec

-----------------------------------------------------------------------------
(***************************************************************************)
(* The history of a clean reader: the lines it will hold when it has read  *)
(* all it was sent are those the emulator flushed.                         *)
(***************************************************************************)
Carries(m, n) == m.type \in {"Attached", "Delta"} /\ \E i \in DOMAIN m.lines : m.lines[i] = n
\* A snapshot and a new terminal leave nothing of the history a mirror held.
Resets(m) == m.type \in {"Attached", "Opened"}
Listed(a, n) == \E i \in DOMAIN a.lines : a.lines[i] = n

\* Line n is held, or on its way, and nothing behind it takes it away.
Comes(q, a, n) ==
    \/ Listed(a, n) /\ \A i \in 1..Len(q) : ~Resets(q[i])
    \/ \E i \in 1..Len(q) : Carries(q[i], n) /\ \A j \in 1..Len(q) : j > i => ~Resets(q[j])

HistoryOnItsWay ==
    \A c \in Clients : Clean(conn[c], app[c]) /\ ~differ.diverged =>
        \A n \in 1..(term.total - term.pushed) : Comes(conn[c].wire, app[c], n)

LEMMA ComesAppended ==
    ASSUME NEW q \in Seq(Messages), NEW m \in Messages, NEW a, NEW n,
           (Comes(q, a, n) /\ ~Resets(m)) \/ Carries(m, n)
    PROVE  Comes(Append(q, m), a, n)
<1>. DEFINE k == Len(q)
            r == Append(q, m)
<1>1. k \in Nat /\ Len(r) = k + 1 /\ r[k + 1] = m /\ \A i \in 1..k : r[i] = q[i]
  BY AppendProperties
<1>2. k + 1 \in 1..(k + 1) /\ \A i \in 1..(k + 1) : i \in 1..k \/ i = k + 1
  BY <1>1
<1>3. \A i \in 1..k : i \in 1..(k + 1)
  BY <1>1
<1>. HIDE DEF r
<1>4. CASE Carries(m, n)
  <2>1. \A j \in 1..(k + 1) : ~(j > k + 1)
    BY <1>1
  <2>. HIDE DEF k
  <2>. QED
    BY <1>1, <1>2, <1>4, <2>1 DEF Comes, r
<1>5. CASE Comes(q, a, n) /\ ~Resets(m)
  <2>1. CASE Listed(a, n) /\ \A i \in 1..k : ~Resets(q[i])
    <3>1. \A i \in 1..(k + 1) : ~Resets(r[i])
      BY <1>1, <1>2, <1>5, <2>1
    <3>. QED
      BY <1>1, <2>1, <3>1 DEF Comes, r
  <2>2. CASE \E i \in 1..k : Carries(q[i], n) /\ \A j \in 1..k : j > i => ~Resets(q[j])
    <3>1. PICK i \in 1..k : Carries(q[i], n) /\ \A j \in 1..k : j > i => ~Resets(q[j])
      BY <2>2
    <3>2. i \in 1..(k + 1) /\ Carries(r[i], n)
      BY <1>1, <1>3, <3>1
    <3>3. \A j \in 1..(k + 1) : j > i => ~Resets(r[j])
      BY <1>1, <1>2, <1>5, <3>1
    <3>. QED
      BY <1>1, <3>2, <3>3 DEF Comes, r
  <2>. QED
    BY <1>5, <2>1, <2>2 DEF Comes
<1>. QED
  BY <1>4, <1>5

\* A frame read: what it carried is held, and what it did not reset is still there.
LEMMA ComesRead ==
    ASSUME NEW q \in Seq(Messages), q # <<>>, NEW a, NEW b, NEW n, Comes(q, a, n),
           Carries(Head(q), n) => Listed(b, n),
           Listed(a, n) /\ ~Resets(Head(q)) => Listed(b, n)
    PROVE  Comes(Tail(q), b, n)
<1>. DEFINE k == Len(q)
            m == Head(q)
            r == Tail(q)
<1>1. k \in Nat \ {0} /\ m = q[1] /\ Len(r) = k - 1 /\ \A i \in 1..(k - 1) : r[i] = q[i + 1]
  BY EmptySeq, LenProperties, HeadTailProperties
<1>2. /\ 1 \in 1..k /\ \A i \in 1..(k - 1) : i + 1 \in 1..k /\ i + 1 > 1
      /\ \A i \in 1..k : i # 1 => i - 1 \in 1..(k - 1) /\ (i - 1) + 1 = i /\ i > 1
      /\ \A i \in 1..k, j \in 1..(k - 1) : j > i - 1 => j + 1 > i
  BY <1>1
<1>3. /\ Carries(m, n) => Listed(b, n)
      /\ Listed(a, n) /\ ~Resets(m) => Listed(b, n)
  OBVIOUS
<1>. HIDE DEF m, r
<1>4. ASSUME Listed(b, n), \A j \in 1..k : j > 1 => ~Resets(q[j]) PROVE Comes(r, b, n)
  <2>1. \A i \in 1..(k - 1) : ~Resets(r[i])
    BY <1>1, <1>2, <1>4
  <2>. QED
    BY <1>1, <1>4, <2>1 DEF Comes
<1>5. CASE Listed(a, n) /\ \A i \in 1..k : ~Resets(q[i])
  BY <1>1, <1>2, <1>3, <1>4, <1>5 DEF r
<1>6. CASE \E i \in 1..k : Carries(q[i], n) /\ \A j \in 1..k : j > i => ~Resets(q[j])
  <2>1. PICK i \in 1..k : Carries(q[i], n) /\ \A j \in 1..k : j > i => ~Resets(q[j])
    BY <1>6
  <2>2. CASE i = 1
    BY <1>1, <1>3, <1>4, <2>1, <2>2 DEF r
  <2>3. CASE i # 1
    <3>1. i - 1 \in 1..(k - 1) /\ r[i - 1] = q[i]
      BY <1>1, <1>2, <2>3
    <3>2. \A j \in 1..(k - 1) : j > i - 1 => ~Resets(r[j])
      BY <1>1, <1>2, <2>1
    <3>. QED
      BY <1>1, <2>1, <3>1, <3>2 DEF Comes
  <2>. QED
    BY <2>2, <2>3
<1>. QED
  BY <1>5, <1>6 DEF Comes, r

LEMMA LinesAre ==
    ASSUME NEW first \in Nat, NEW last \in Nat, NEW n \in Nat, first <= n, n <= last
    PROVE  \E i \in DOMAIN LinesFrom(first, last) : LinesFrom(first, last)[i] = n
<1>. DEFINE i == n - first + 1
<1>1. i \in 1..(last - first + 1) /\ first + i - 1 = n
  OBVIOUS
<1>. HIDE DEF i
<1>2. DOMAIN LinesFrom(first, last) = 1..(last - first + 1)
      /\ LinesFrom(first, last)[i] = n
  BY <1>1 DEF LinesFrom
<1>. QED
  BY <1>1, <1>2

LEMMA SnapshotCarries ==
    ASSUME TypeOK, NEW n \in 1..term.total
    PROVE  Carries(Snapshot, n) /\ Snapshot \in Messages
<1>1. term.total \in Nat
  BY DEF TypeOK, Terms
<1>2. \E i \in DOMAIN LinesFrom(1, term.total) : LinesFrom(1, term.total)[i] = n
  BY <1>1, LinesAre
<1>. QED
  BY <1>2, MessageTypes DEF Carries, Snapshot, Message

\* Whoever is given a snapshot and keeps its connection will hold every line.
LEMMA SnapshotComes ==
    ASSUME TypeOK, NEW k, GoodConn(k), k.open, NEW a, Clean(WithSnapshot(k), a), NEW n \in 1..term.total
    PROVE  Comes(WithSnapshot(k).wire, a, n)
<1>1. WithSnapshot(k).wire = Append(k.wire, Snapshot)
  BY WithSnapshotCases DEF Clean, Cut, Grown
<1>2. k.wire \in Seq(Messages)
  BY DEF GoodConn, Conns
<1>. QED
  BY <1>1, <1>2, SnapshotCarries, ComesAppended

\* The only reader is left as it was by the heal pass, or given a snapshot.
LEMMA HealedComes ==
    ASSUME IInv, HistoryOnItsWay, NEW c \in Clients, Clean(HealedConn(c), app[c]), ~HealedDiffer.diverged
    PROVE  /\ \A n \in 1..(term.total - term.pushed) : Comes(HealedConn(c).wire, app[c], n)
           /\ HealedConn(c) \in Conns
<1>1. TypeOK /\ GoodConn(conn[c]) /\ OneReader /\ term.total \in Nat /\ term.pushed \in Nat
      /\ HealedConn(c) \in Conns
  BY HealTypes DEF IInv, TypeOK, GoodConn, Terms
<1>2. CASE Healing(conn[c])
  <2>1. HealedConn(c) = WithSnapshot(conn[c]) /\ conn[c].open
    BY <1>1, <1>2 DEF HealedConn, Healing, OneReader
  <2>2. \A n \in 1..(term.total - term.pushed) : n \in 1..term.total
    BY <1>1
  <2>. QED
    BY <1>1, <2>1, <2>2, SnapshotComes
<1>3. CASE ~Healing(conn[c])
  <2>1. HealedConn(c) = conn[c] /\ conn[c].attached
    BY <1>3 DEF HealedConn, Clean
  <2>2. \A e \in Clients : ~Healing(conn[e])
    BY <1>1, <1>3, <2>1 DEF OneReader, Healing
  <2>3. HealedDiffer = differ
    BY <2>2 DEF HealedDiffer
  <2>. QED
    BY <1>1, <2>1, <2>3 DEF HistoryOnItsWay
<1>. QED
  BY <1>2, <1>3

LEMMA TickHistory == ASSUME IInv, HistoryOnItsWay, Tick PROVE HistoryOnItsWay'
<1>. SUFFICES ASSUME NEW c \in Clients, Clean(conn'[c], app'[c]), ~differ'.diverged,
                     NEW n \in 1..(term'.total - term'.pushed)
              PROVE  Comes(conn'[c].wire, app'[c], n)
  BY DEF HistoryOnItsWay
<1>1. app' = app
  BY DEF Tick, TickIdle, TickReconcile, TickSilent, TickDelta
<1>2. /\ TypeOK /\ HealedDiffer \in Differs /\ GoodConn(HealedConn(c))
      /\ HealedDiffer.needs \in BOOLEAN /\ TRUE \in BOOLEAN /\ Delta(HealedDiffer) \in Messages
      /\ term \in Terms /\ term.total \in Nat /\ term.pushed \in Nat /\ term.pushed <= term.total
  BY HealTypes, MessageTypes DEF IInv, TypeOK, Differs, Terms
<1>. DEFINE h == HealedConn(c)
            d == HealedDiffer
            k == Marked(h, d.needs)
            m == Delta(d)
<1>3. ASSUME NEW b \in BOOLEAN
      PROVE  /\ GoodConn(Marked(h, b)) /\ Kept(h, Marked(h, b))
             /\ Clean(Marked(h, b), app[c]) => Clean(h, app[c]) /\ ~b
  <2>1. /\ GoodConn(Marked(h, b)) /\ Kept(h, Marked(h, b))
        /\ h.dirty => Marked(h, b).dirty
        /\ b /\ h.attached => Marked(h, b).dirty
    BY <1>2, MarkedCases
  <2>. QED
    BY <2>1 DEF Clean, Kept
<1>4. ASSUME Clean(h, app[c]), ~d.diverged
      PROVE  \A l \in 1..(term.total - term.pushed) : Comes(h.wire, app[c], l)
  BY <1>4, HealedComes
<1>5. Cleared.total = term.total /\ Cleared.pushed = 0
  BY <1>2 DEF Cleared, Terms
<1>6. d.diverged \in BOOLEAN /\ Noted(d).diverged = (d.diverged \/ Flooded)
  BY <1>2 DEF Noted, Differs
<1>7. Advanced(d).diverged = (d.diverged \/ Flooded)
  <2>. DEFINE e == Noted(d)
  <2>1. e \in Differs
    BY <1>2 DEF Noted, Differs, Flooded
  <2>2. e.diverged = (d.diverged \/ Flooded)
    BY <1>6
  <2>. HIDE DEF e
  <2>. QED
    BY <1>2, <2>1, <2>2 DEF Advanced, Differs, e
<1>8. ~Flooded => PushedLines = LinesFrom(term.total - term.pushed + 1, term.total)
  BY DEF PushedLines
<1>. HIDE DEF h, d
<1>9. CASE TickIdle
  <2>1. differ' = d /\ term' = term /\ conn'[c] = k
    BY <1>9 DEF TickIdle, d, h
  <2>2. Clean(h, app[c]) /\ k.wire = h.wire
    BY <1>1, <1>2, <1>3, <2>1 DEF Kept, d
  <2>. QED
    BY <1>1, <1>4, <2>1, <2>2
<1>10. CASE TickReconcile
  <2>1. conn'[c] = Marked(h, TRUE)
    BY <1>10 DEF TickReconcile, h
  <2>. QED
    BY <1>1, <1>2, <1>3, <2>1
<1>11. CASE TickSilent
  <2>1. differ' = Noted(d) /\ term' = Cleared /\ conn'[c] = k /\ PushedLines = <<>>
    BY <1>11 DEF TickSilent, Silent, d, h
  <2>2. Clean(h, app[c]) /\ k.wire = h.wire /\ ~d.diverged /\ ~Flooded
    BY <1>1, <1>2, <1>3, <1>6, <2>1 DEF Kept, d
  <2>3. term.pushed = 0
    <3>1. LinesFrom(term.total - term.pushed + 1, term.total) = <<>>
      BY <1>8, <2>1, <2>2
    <3>2. ASSUME term.pushed > 0 PROVE FALSE
      <4>1. /\ term.total - term.pushed + 1 \in Nat /\ term.total - term.pushed + 1 <= term.total
        BY <1>2, <3>2
      <4>2. \E i \in DOMAIN <<>> : TRUE
        BY <1>2, <3>1, <4>1, LinesAre
      <4>. QED
        BY <4>2
    <3>. QED
      BY <1>2, <3>2
  <2>4. n \in 1..(term.total - term.pushed)
    BY <1>2, <1>5, <2>1, <2>3
  <2>. QED
    BY <1>1, <1>4, <2>1, <2>2, <2>4
<1>12. CASE TickDelta
  <2>1. differ' = Advanced(d) /\ term' = Cleared /\ conn'[c] = Streamed(k, m)
    BY <1>12 DEF TickDelta, d, h
  <2>2. ~d.diverged /\ ~Flooded /\ n \in 1..term.total
    <3>1. term'.total - term'.pushed = term.total
      BY <1>2, <1>5, <2>1
    <3>2. Advanced(d).diverged = FALSE
      <4>1. Advanced(d).diverged \in BOOLEAN
        BY <1>7 DEF d, Flooded
      <4>. QED
        BY <2>1, <4>1
    <3>. QED
      BY <1>6, <1>7, <3>1, <3>2 DEF d
  <2>3. GoodConn(k) /\ Kept(h, k) /\ (Clean(k, app[c]) => Clean(h, app[c])) /\ m \in Messages
    BY <1>2, <1>3 DEF d
  <2>. HIDE DEF k, m
  <2>4. Streamed(k, m).wire = Append(k.wire, m) /\ Clean(k, app[c])
    <3>1. \/ Kept(k, Streamed(k, m)) /\ (k.attached => Streamed(k, m).dirty \/ ~k.open)
          \/ Cut(k, Streamed(k, m))
          \/ Grown(k, Streamed(k, m), m) /\ k.attached /\ ~k.dirty /\ Streamed(k, m).attached
      BY <2>3, StreamedCases
    <3>2. Clean(Streamed(k, m), app[c])
      BY <1>1, <2>1
    <3>3. k.attached => k.open
      <4>1. h.attached => h.open
        BY HealSound DEF h
      <4>. QED
        BY <2>3, <4>1 DEF Kept
    <3>. QED
      BY <3>1, <3>2, <3>3 DEF Clean, Kept, Cut, Grown
  <2>5. CASE n \in 1..(term.total - term.pushed)
    <3>1. Comes(k.wire, app[c], n)
      BY <1>4, <2>2, <2>3, <2>4, <2>5 DEF Kept
    <3>2. ~Resets(m)
      BY DEF m, Delta, Message, Resets
    <3>. QED
      BY <1>1, <2>1, <2>3, <2>4, <3>1, <3>2, ComesAppended DEF GoodConn, Conns
  <2>6. CASE ~(n \in 1..(term.total - term.pushed))
    <3>. DEFINE first == term.total - term.pushed + 1
    <3>1. first \in Nat /\ first <= n /\ n <= term.total /\ n \in Nat
      BY <1>2, <2>2, <2>6
    <3>2. m.type = "Delta" /\ m.lines = LinesFrom(first, term.total)
      BY <1>8, <2>2 DEF m, Delta, Message
    <3>. HIDE DEF first
    <3>3. Carries(m, n)
      BY <1>2, <3>1, <3>2, LinesAre DEF Carries
    <3>. QED
      BY <1>1, <2>1, <2>3, <2>4, <3>3, ComesAppended DEF GoodConn, Conns
  <2>. QED
    BY <2>5, <2>6
<1>. QED
  BY <1>9, <1>10, <1>11, <1>12 DEF Tick

LEMMA ProgramHistory ==
    ASSUME IInv, HistoryOnItsWay, Output \/ Synchronize \/ Exit \/ Respawn
    PROVE  HistoryOnItsWay'
<1>1. /\ term \in Terms /\ term.total \in Nat /\ term.pushed \in Nat
      /\ \A c \in Clients : GoodConn(conn[c])
  BY DEF IInv, TypeOK, Terms, GoodConn
<1>2. CASE Output
  <2>1. PICK W \in SUBSET Rows, k \in 0..(MaxLines - term.total) :
           term' = [term EXCEPT !.damage = @ \union W, !.pushed = @ + k, !.total = @ + k]
    BY <1>2 DEF Output
  <2>2. k \in Nat
    BY <1>1, <2>1, BoundAssumption
  <2>3. term'.total = term.total + k /\ term'.pushed = term.pushed + k
    BY <1>1, <2>1 DEF Terms
  <2>4. term'.total - term'.pushed = term.total - term.pushed
    BY <1>1, <2>2, <2>3
  <2>5. UNCHANGED <<differ, conn, app>>
    BY <1>2 DEF Output
  <2>. QED
    BY <2>4, <2>5 DEF HistoryOnItsWay
<1>3. CASE Synchronize \/ Exit
  <2>1. UNCHANGED <<differ, conn, app>> /\ term'.total = term.total /\ term'.pushed = term.pushed
    BY <1>1, <1>3 DEF Synchronize, Exit, Terms
  <2>. QED
    BY <2>1 DEF HistoryOnItsWay
<1>4. CASE Respawn
  <2>1. term'.total = 0 /\ term'.pushed = 0
    BY <1>4 DEF Respawn
  <2>. QED
    BY <2>1 DEF HistoryOnItsWay
<1>. QED
  BY <1>2, <1>3, <1>4

LEMMA ServerHistory ==
    ASSUME IInv, IInv', HistoryOnItsWay, NEW c \in Clients, ServerStep(c)
    PROVE  HistoryOnItsWay'
<1>1. UNCHANGED <<term, app>> /\ TypeOK /\ conn \in [Clients -> Conns]
      /\ \A e \in Clients : GoodConn(conn[e])
  BY DEF ServerStep, HandleAttach, HandleDetach, Flush, HearHangup, IInv, TypeOK, GoodConn
<1>2. CASE HandleAttach(c)
  <2>. DEFINE j == [conn[c] EXCEPT !.attached = TRUE, !.dirty = FALSE]
  <2>1. /\ GoodConn(j) /\ j.open
    BY <1>1, <1>2 DEF HandleAttach, GoodConn, Conns
  <2>2. conn'[c] = WithSnapshot(j)
    BY <1>2 DEF HandleAttach
  <2>. HIDE DEF j
  <2>3. term.total \in Nat /\ term.pushed \in Nat
    BY <1>1 DEF TypeOK, Terms
  <2>4. \A n \in 1..(term.total - term.pushed) : n \in 1..term.total
    BY <2>3
  <2>5. ASSUME NEW e \in Clients, Clean(conn'[e], app[e])
        PROVE  \A n \in 1..(term.total - term.pushed) : Comes(conn'[e].wire, app[e], n)
    <3>1. CASE e = c
      BY <1>1, <2>1, <2>2, <2>4, <2>5, <3>1, SnapshotComes
    <3>2. CASE e # c
      <4>1. conn'[e] = IF Head(requests[c]).mode = "TakeOver" /\ IsFirstHolder(e)
                         THEN DetachedFrom(conn[e]) ELSE conn[e]
        BY <1>2, <3>2 DEF HandleAttach
      <4>2. ~IsFirstHolder(e) \/ ~DetachedFrom(conn[e]).attached
        BY <1>1, DetachedFromCases
      <4>3. Head(requests[c]).mode = "TakeOver"
        <5>1. requests[c] \in Seq(Requests) /\ requests[c] # <<>>
          BY <1>1, <1>2 DEF HandleAttach, TypeOK
        <5>2. Head(requests[c]) = requests[c][1] /\ 1 \in 1..Len(requests[c])
          BY <5>1, EmptySeq, LenProperties, HeadTailProperties
        <5>. QED
          BY <5>2 DEF IInv, Exclusive
      <4>4. ~conn'[e].attached
        BY <4>1, <4>2, <4>3 DEF IsFirstHolder, Holders, IInv, OneReader, Clients
      <4>. QED
        BY <2>5, <4>4 DEF Clean
    <3>. QED
      BY <3>1, <3>2
  <2>. QED
    BY <1>1, <2>5 DEF HistoryOnItsWay
<1>3. ASSUME differ' = differ,
             \A e \in Clients : Clean(conn'[e], app[e]) => Clean(conn[e], app[e]) /\ conn'[e].wire = conn[e].wire
      PROVE  HistoryOnItsWay'
  BY <1>1, <1>3 DEF HistoryOnItsWay
<1>4. CASE HandleDetach(c)
  <2>1. differ' = differ /\ conn' = [conn EXCEPT ![c] = DetachedFrom(@)] /\ ~DetachedFrom(conn[c]).attached
    BY <1>1, <1>4, DetachedFromCases DEF HandleDetach
  <2>. QED
    BY <1>1, <1>3, <2>1 DEF Clean
<1>5. CASE Flush(c)
  <2>1. differ' = differ /\ \A e \in Clients : /\ conn'[e].wire = conn[e].wire /\ conn'[e].dirty = conn[e].dirty
                                               /\ conn'[e].attached = conn[e].attached
    BY <1>1, <1>5 DEF Flush, Conns
  <2>. QED
    BY <1>3, <2>1 DEF Clean
<1>6. CASE HearHangup(c)
  <2>1. differ' = differ /\ ~app[c].alive /\ \A e \in Clients : e # c => conn'[e] = conn[e]
    BY <1>1, <1>6 DEF HearHangup
  <2>. QED
    BY <1>3, <2>1 DEF Clean
<1>. QED
  BY <1>2, <1>4, <1>5, <1>6 DEF ServerStep

\* A frame read by a client that is told of no gap.
LEMMA ReadHistory ==
    ASSUME IInv, NEW c \in Clients, Receive(c), ~app'[c].needs, NEW n, Comes(conn[c].wire, app[c], n)
    PROVE  Comes(conn'[c].wire, app'[c], n)
<1>. DEFINE q == conn[c].wire
            m == Head(q)
            a == app[c]
            b == app'[c]
<1>1. /\ conn \in [Clients -> Conns] /\ app \in [Clients -> Apps] /\ q \in Seq(Messages)
      /\ conn[c].unsent \in Nat /\ a \in Apps /\ a.lines \in Seq(Nat)
  BY DEF IInv, TypeOK, Conns, Apps
<1>2. Len(q) > conn[c].unsent /\ conn' = [conn EXCEPT ![c].wire = Tail(@)]
  BY DEF Receive, ReceiveAttached, ReceiveOpened, ReceiveDetached, ReceiveDelta, ReceiveGap, Arrived, Consume
<1>3. conn'[c].wire = Tail(q) /\ q # <<>>
  BY <1>1, <1>2 DEF Conns
<1>4. m \in Messages /\ m.lines \in Seq(Nat)
  <2>1. m \in Messages
    BY <1>1, <1>3, HeadTailProperties
  <2>. QED
    BY <2>1 DEF Messages
<1>. HIDE DEF q, m
<1>5. (Carries(m, n) => Listed(b, n)) /\ (Listed(a, n) /\ ~Resets(m) => Listed(b, n))
  <2>1. CASE ReceiveAttached(c)
    <3>1. b = Adopted(a, m) /\ m.type = "Attached"
      BY <1>1, <2>1 DEF ReceiveAttached, Consume, Arrived, m, q
    <3>2. b.lines = m.lines
      BY <1>1, <3>1 DEF Adopted, Apps
    <3>. HIDE DEF b
    <3>. QED
      BY <3>1, <3>2 DEF Carries, Listed, Resets
  <2>2. CASE ReceiveOpened(c)
    <3>1. m.type = "Opened"
      BY <2>2 DEF ReceiveOpened, Arrived, m, q
    <3>. QED
      BY <3>1 DEF Carries, Resets
  <2>3. CASE ReceiveDetached(c)
    <3>1. b = [a EXCEPT !.attached = FALSE] /\ m.type = "Detached"
      BY <1>1, <2>3 DEF ReceiveDetached, Consume, Arrived, m, q
    <3>2. b.lines = a.lines
      BY <1>1, <3>1 DEF Apps
    <3>. HIDE DEF a, b
    <3>. QED
      BY <3>1, <3>2 DEF Carries, Listed
  <2>4. CASE ReceiveDelta(c)
    <3>1. b = Applied(a, m) /\ m.type = "Delta"
      BY <1>1, <2>4 DEF ReceiveDelta, Consume, Arrived, m, q
    <3>2. b.lines = a.lines \o m.lines
      BY <1>1, <3>1 DEF Applied, Apps
    <3>. HIDE DEF a, b
    <3>3. /\ \A i \in 1..Len(a.lines) : i \in DOMAIN b.lines /\ b.lines[i] = a.lines[i]
          /\ \A i \in 1..Len(m.lines) :
                Len(a.lines) + i \in DOMAIN b.lines /\ b.lines[Len(a.lines) + i] = m.lines[i]
      <4>. DEFINE u == a.lines
                  v == m.lines
                  w == u \o v
      <4>1. u \in Seq(Nat) /\ v \in Seq(Nat) /\ b.lines = w
        BY <1>1, <1>4, <3>2 DEF a
      <4>. HIDE DEF u, v
      <4>2. Len(u) \in Nat /\ Len(v) \in Nat /\ DOMAIN w = 1..(Len(u) + Len(v))
        BY <4>1
      <4>3. /\ \A i \in 1..Len(u) : i \in 1..(Len(u) + Len(v))
            /\ \A i \in 1..Len(v) : Len(u) + i \in 1..(Len(u) + Len(v)) /\ Len(u) + i > Len(u)
                                    /\ (Len(u) + i) - Len(u) = i
        BY <4>2
      <4>4. /\ \A i \in 1..Len(u) : w[i] = u[i]
            /\ \A i \in 1..Len(v) : w[Len(u) + i] = v[i]
        BY <4>1, <4>2, <4>3
      <4>. HIDE DEF w
      <4>. QED
        BY <4>1, <4>2, <4>3, <4>4 DEF u, v
    <3>4. DOMAIN a.lines = 1..Len(a.lines) /\ DOMAIN m.lines = 1..Len(m.lines)
      BY <1>1, <1>4, LenProperties DEF a
    <3>. QED
      BY <3>3, <3>4 DEF Carries, Listed
  <2>5. CASE ReceiveGap(c)
    <3>1. app'[c] = [a EXCEPT !.needs = TRUE]
      BY <1>1, <2>5 DEF ReceiveGap, Consume
    <3>. QED
      BY <1>1, <3>1 DEF Apps
  <2>. QED
    BY <2>1, <2>2, <2>3, <2>4, <2>5 DEF Receive
<1>. HIDE DEF a, b
<1>6. Comes(q, a, n)
  BY DEF q, a
<1>7. Comes(Tail(q), b, n)
  BY <1>1, <1>3, <1>5, <1>6, ComesRead DEF m
<1>. QED
  BY <1>3, <1>7 DEF b

LEMMA ClientHistory ==
    ASSUME IInv, IInv', HistoryOnItsWay, NEW c \in Clients, ClientStep(c)
    PROVE  HistoryOnItsWay'
<1>1. UNCHANGED <<term, differ>> /\ app \in [Clients -> Apps] /\ conn \in [Clients -> Conns]
  BY DEF ClientStep, UserAttach, Quit, Crash, LoseConnection, Heal, Receive, ReceiveAttached,
         ReceiveOpened, ReceiveDetached, ReceiveDelta, ReceiveGap, Consume, IInv, TypeOK
<1>2. \A e \in Clients : e # c => conn'[e] = conn[e] /\ app'[e] = app[e]
  BY <1>1 DEF ClientStep, UserAttach, Quit, Crash, LoseConnection, Heal, Receive, ReceiveAttached,
         ReceiveOpened, ReceiveDetached, ReceiveDelta, ReceiveGap, Consume
<1>3. ASSUME Clean(conn'[c], app'[c])
      PROVE  /\ Clean(conn[c], app[c])
             /\ \A n : Comes(conn[c].wire, app[c], n) => Comes(conn'[c].wire, app'[c], n)
  <2>1. CASE Receive(c)
    <3>1. conn'[c].attached = conn[c].attached /\ conn'[c].dirty = conn[c].dirty /\ app[c].alive
      BY <1>1, <2>1 DEF Receive, ReceiveAttached, ReceiveOpened, ReceiveDetached, ReceiveDelta,
         ReceiveGap, Consume, Arrived, Conns
    <3>2. ~app'[c].needs
      BY DEF IInv, SoundClient, SoundPipe, SoundApp
    <3>. QED
      BY <1>3, <2>1, <3>1, <3>2, ReadHistory DEF Clean
  <2>2. CASE Quit(c) \/ Crash(c) \/ LoseConnection(c)
    <3>1. app' = [app EXCEPT ![c] = Gone] /\ ~Gone.alive
      BY <2>2 DEF Quit, Crash, LoseConnection, Gone, IdleApp
    <3>. QED
      BY <1>1, <1>3, <3>1 DEF Clean
  <2>3. CASE Heal(c) \/ \E mode \in Modes : UserAttach(c, mode)
    <3>1. conn' = conn /\ app'[c].lines = app[c].lines /\ app'[c].alive = app[c].alive
      <4>1. CASE Heal(c)
        BY <1>1, <4>1 DEF Heal, Apps
      <4>2. ASSUME NEW mode \in Modes, UserAttach(c, mode)
            PROVE  conn' = conn /\ app'[c].lines = app[c].lines /\ app'[c].alive = app[c].alive
        <5>. DEFINE b == [app[c] EXCEPT !.mode = mode, !.pending = FALSE]
        <5>1. conn' = conn /\ app' = [app EXCEPT ![c] = b]
          BY <4>2 DEF UserAttach
        <5>2. b.lines = app[c].lines /\ b.alive = app[c].alive
          BY <1>1 DEF Apps
        <5>. HIDE DEF b
        <5>. QED
          BY <1>1, <5>1, <5>2
      <4>. QED
        BY <2>3, <4>1, <4>2
    <3>. QED
      BY <1>3, <3>1 DEF Clean, Comes, Listed
  <2>. QED
    BY <2>1, <2>2, <2>3 DEF ClientStep
<1>. QED
  BY <1>1, <1>2, <1>3 DEF HistoryOnItsWay

LEMMA StepHistory == IInv /\ IInv' /\ HistoryOnItsWay /\ [Next]_vars => HistoryOnItsWay'
<1>1. ASSUME HistoryOnItsWay, UNCHANGED vars PROVE HistoryOnItsWay'
  BY <1>1 DEF vars, HistoryOnItsWay
<1>. QED
  BY <1>1, TickHistory, ProgramHistory, ServerHistory, ClientHistory DEF Next

\* When readers take the session over from one another, one the flush tick takes for
\* clean, with nothing on its way, holds every line of history but those the next
\* tick will push, unless a flood went by that the differ knows it has left out: what
\* floods, heals, skipped deltas, takeovers and respawns do to the history is made
\* good before the reader counts as clean again.
THEOREM HistoryIsWhole == ASSUME Modes = {"TakeOver"} PROVE Spec => []CleanHasHistory
<1>1. IInv /\ [Next]_vars => IInv'
  BY Inductive
<1>2. Init => HistoryOnItsWay
  BY DEF Init, HistoryOnItsWay, Clean
<1>3. IInv /\ IInv' /\ HistoryOnItsWay /\ [Next]_vars => HistoryOnItsWay'
  BY StepHistory
<1>4. HistoryOnItsWay => CleanHasHistory
  <2>. SUFFICES ASSUME HistoryOnItsWay, NEW c \in Clients, conn[c].attached, ~conn[c].dirty,
                       app[c].alive, conn[c].wire = <<>>, ~differ.diverged,
                       NEW n \in 1..(term.total - term.pushed)
                PROVE  n \in Held(c)
    BY DEF CleanHasHistory
  <2>1. Comes(<<>>, app[c], n)
    BY DEF HistoryOnItsWay, Clean
  <2>2. Listed(app[c], n)
    BY <2>1 DEF Comes
  <2>. QED
    BY <2>2 DEF Listed, Held
<1>. QED
  BY <1>1, <1>2, <1>3, <1>4, Initially, PTL DEF Spec
=============================================================================
