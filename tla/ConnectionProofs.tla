--------------------------- MODULE ConnectionProofs ---------------------------
(***************************************************************************)
(* Safety of how a client and a server come to a connection and of what    *)
(* goes over it.  Of ServerStart, for every number of servers, clients and *)
(* descriptors: types, room for what a server holds, and that whoever      *)
(* listens is the one the path leads to and the one that holds the lock.   *)
(* Of Wire, for every cap, every traffic and every way to cut the stream   *)
(* up: what is written is what is read, of each field, each message and    *)
(* each frame; a snapshot is as long as was said of it and shares its room *)
(* fairly; and what was sent arrives, in its order, and nothing else.      *)
(***************************************************************************)
EXTENDS ServerStart, Wire, TLAPS, FiniteSetTheorems, SequenceTheorems, WellFoundedInduction

(***************************************************************************)
(* How servers come and go.                                                *)
(***************************************************************************)
\* From the moment a server has the lock to the moment it lets go of it.
Locked == {"probing", "binding", "bound", "serving", "stopping", "closed", "unlinked"}
\* From its bind to its unlink, the path is its own.
Named == {"bound", "serving", "stopping", "closed"}

\* The inductive form of PathIsTheServers: only who holds the lock touches the
\* path, so what was bound under it is there until it is unlinked under it.
Owned ==
    \A p \in Servers :
        /\ server[p].phase \in Locked => lock = p
        /\ server[p].phase \in Named => path = p

(***************************************************************************)
(* What a server holds.                                                    *)
(***************************************************************************)
LEMMA RoomType ==
    ASSUME NEW x \in Server
    PROVE  /\ IsFiniteSet(x.open) /\ Cardinality(x.open) \in Nat
           /\ Room(x) \in Int
<1>1. IsFiniteSet(x.open)
  BY FS_Subset, StartAssumption DEF Server
<1>2. Cardinality(x.open) \in Nat
  BY <1>1, FS_CardinalityType
<1> QED
  BY <1>1, <1>2, StartAssumption DEF Room

LEMMA RemoveFirstType ==
    ASSUME NEW s \in Seq(Clients), NEW c \in Clients
    PROVE  RemoveFirst(s, c) \in Seq(Clients)
<1>1. CASE \E i \in 1..Len(s) : s[i] = c
  <2> DEFINE I == {i \in 1..Len(s) : s[i] = c}
             k == SelectInSeq(s, LAMBDA v : v = c)
  <2>1. k \in I
    <3>1. PICK m \in I : \A n \in I : m <= n
      <4>1. I \in SUBSET Nat /\ I # {}
        BY <1>1
      <4>2. PICK m \in I : \A n \in I : <<n, m>> \notin OpToRel(<, Nat)
        BY <4>1, NatLessThanWellFounded, WFMin
      <4>3. OpToRel(<, Nat) = {r \in Nat \X Nat : r[1] < r[2]}
        BY Zenon DEF OpToRel
      <4>4. \A n \in I : ~(n < m)
        BY <4>1, <4>2, <4>3
      <4> QED
        BY <4>4
    <3>2. k = Min(I)
      BY <1>1 DEF SelectInSeq
    <3> QED
      BY <3>1, <3>2 DEF Min
  <2>2. k \in 1..Len(s)
    BY <2>1
  <2> HIDE DEF k
  <2>3. SubSeq(s, 1, k - 1) \in Seq(Clients) /\ SubSeq(s, k + 1, Len(s)) \in Seq(Clients)
    BY <2>2
  <2>4. RemoveFirst(s, c) = RemoveAt(s, k)
    BY <1>1 DEF RemoveFirst, k
  <2> QED
    BY <2>3, <2>4 DEF RemoveAt
<1>2. CASE ~\E i \in 1..Len(s) : s[i] = c
  BY <1>2 DEF RemoveFirst
<1> QED
  BY <1>1, <1>2

\* A longer backlog changes nothing else of a server.
LEMMA QueuedType ==
    ASSUME NEW x \in Server, NEW c \in Clients, Append(x.backlog, c) \in Seq(Clients)
    PROVE  LET y == [x EXCEPT !.backlog = Append(@, c)]
           IN  /\ y \in Server /\ y.phase = x.phase
               /\ y.open = x.open /\ y.programs = x.programs
<1> DEFINE b == Append(x.backlog, c)
<1> HIDE DEF b
<1>1. [x EXCEPT !.backlog = b] \in Server
  BY DEF Server, b
<1> QED
  BY <1>1 DEF Server, b

\* Whoever goes leaves no less room.
LEMMA WithoutType ==
    ASSUME NEW x \in Server, NEW c \in Clients, Room(x) >= 0
    PROVE  /\ Without(x, c) \in Server /\ Without(x, c).phase = x.phase
           /\ Room(Without(x, c)) >= 0
<1>1. RemoveFirst(x.backlog, c) \in Seq(Clients)
  BY RemoveFirstType DEF Server
<1>2. Without(x, c) \in Server /\ Without(x, c).phase = x.phase
  BY <1>1 DEF Without, Server
<1>3. /\ Without(x, c).open = x.open \ {c} /\ Without(x, c).programs = x.programs
      /\ x.programs \in BOOLEAN
  BY DEF Without, Server
<1>4. IsFiniteSet(x.open) /\ Cardinality(x.open) \in Nat
  BY RoomType
<1>5. Cardinality(x.open \ {c}) <= Cardinality(x.open) /\ Cardinality(x.open \ {c}) \in Nat
  <2>1. IsFiniteSet(x.open \ {c}) /\ Cardinality(x.open \ {c}) <= Cardinality(x.open)
    BY <1>4, FS_Subset, x.open \ {c} \in SUBSET x.open
  <2> QED
    BY <2>1, FS_CardinalityType
<1> QED
  BY <1>2, <1>3, <1>4, <1>5, StartAssumption DEF Room

\* Whoever is taken from a backlog is taken with a descriptor for each.
LEMMA FirstOf ==
    ASSUME NEW s \in Seq(Clients), NEW m \in 0..Len(s)
    PROVE  /\ ToSet(SubSeq(s, 1, m)) \in SUBSET Clients /\ SubSeq(s, m + 1, Len(s)) \in Seq(Clients)
           /\ IsFiniteSet(ToSet(SubSeq(s, 1, m))) /\ Cardinality(ToSet(SubSeq(s, 1, m))) <= m
           /\ Cardinality(ToSet(SubSeq(s, 1, m))) \in Nat
<1> DEFINE q == SubSeq(s, 1, m)
<1>1. q \in Seq(Clients) /\ Len(q) = m
  OBVIOUS
<1>2. SubSeq(s, m + 1, Len(s)) \in Seq(Clients)
  OBVIOUS
<1> HIDE DEF q
<1>0. DOMAIN q = 1..m /\ q \in [1..m -> Clients]
  BY <1>1, LenProperties
<1>3. ToSet(q) \in SUBSET Clients /\ q \in [1..m -> ToSet(q)]
  BY <1>0 DEF ToSet
<1>4. \A e \in ToSet(q) : \E i \in 1..m : q[i] = e
  BY <1>0 DEF ToSet
<1>5. q \in Surjection(1..m, ToSet(q))
  BY <1>3, <1>4 DEF Surjection
<1>6. IsFiniteSet(1..m) /\ Cardinality(1..m) = m
  BY FS_Interval
<1>7. IsFiniteSet(ToSet(q)) /\ Cardinality(ToSet(q)) <= m
  BY <1>5, <1>6, FS_Surjection
<1>8. Cardinality(ToSet(q)) \in Nat
  BY <1>7, FS_CardinalityType
<1> QED
  BY <1>2, <1>3, <1>7, <1>8 DEF q

(***************************************************************************)
(* Types.                                                                  *)
(***************************************************************************)
LEMMA TypeInit == Init => TypeOK
<1> SUFFICES ASSUME Init PROVE TypeOK
  OBVIOUS
<1>1. path \in Owner /\ lock \in Owner
  BY DEF Init, Owner
<1>2. server \in [Servers -> Server] /\ \A p \in Servers : server[p].open = {} /\ ~server[p].programs
  BY DEF Init, Server, Phases
<1>3. client \in [Clients -> Client]
  BY DEF Init
<1>4. ASSUME NEW p \in Servers PROVE Room(server[p]) >= 0
  BY <1>2, FS_EmptySet, StartAssumption DEF Room
<1> QED
  BY <1>1, <1>2, <1>3, <1>4 DEF TypeOK

\* A change of phase leaves what a server holds alone.
LEMMA MovesType ==
    ASSUME TypeOK, NEW p \in Servers, NEW phase \in Phases, Moves(p, phase)
    PROVE  /\ server' \in [Servers -> Server] /\ \A q \in Servers : Room(server'[q]) >= 0
           /\ \A q \in Servers : server'[q].phase = IF q = p THEN phase ELSE server[q].phase
<1>1. server \in [Servers -> Server] /\ \A q \in Servers : Room(server[q]) >= 0
  BY DEF TypeOK
<1>2. server' = [server EXCEPT ![p] = [server[p] EXCEPT !.phase = phase]]
  BY DEF Moves
<1>3. [server[p] EXCEPT !.phase = phase] \in Server
  BY <1>1 DEF Server
<1>4. /\ server'[p].open = server[p].open /\ server'[p].programs = server[p].programs
      /\ server'[p].phase = phase
  BY <1>1, <1>2 DEF Server
<1>5. Room(server'[p]) = Room(server[p])
  BY <1>4 DEF Room
<1> QED
  BY <1>1, <1>2, <1>3, <1>4, <1>5

LEMMA LeftType ==
    ASSUME TypeOK, NEW c \in Clients, NEW step \in Steps, Left(c, step)
    PROVE  TypeOK' /\ \A q \in Servers : server'[q].phase = server[q].phase
<1>1. server \in [Servers -> Server] /\ \A q \in Servers : Room(server[q]) >= 0
  BY DEF TypeOK
<1>2. client' \in [Clients -> Client] /\ path' \in Owner /\ lock' \in Owner
  BY DEF TypeOK, Left, Client, Owner
<1>3. server' = [p \in Servers |-> IF p = client[c].to THEN Without(server[p], c) ELSE server[p]]
  BY DEF Left
<1>4. ASSUME NEW q \in Servers
      PROVE  /\ server'[q] \in Server /\ server'[q].phase = server[q].phase
             /\ Room(server'[q]) >= 0
  BY <1>1, <1>3, WithoutType
<1>5. server' \in [Servers -> Server]
  BY <1>3, <1>4
<1> QED
  BY <1>2, <1>4, <1>5 DEF TypeOK

\* Ended leaves a process nothing but its name.
LEMMA EndedType ==
    ASSUME TypeOK, NEW p \in Servers, Ended(p)
    PROVE  /\ server' \in [Servers -> Server] /\ client' \in [Clients -> Client]
           /\ \A q \in Servers : Room(server'[q]) >= 0
           /\ \A q \in Servers : server'[q].phase = IF q = p THEN "gone" ELSE server[q].phase
<1>1. server \in [Servers -> Server] /\ \A q \in Servers : Room(server[q]) >= 0
  BY DEF TypeOK
<1> DEFINE x == [server[p] EXCEPT !.phase = "gone", !.backlog = <<>>, !.open = {}, !.programs = FALSE]
<1>2. server' = [server EXCEPT ![p] = x]
  BY DEF Ended
<1>3. x \in Server /\ x.phase = "gone" /\ x.open = {} /\ ~x.programs
  <2>1. <<>> \in Seq(Clients) /\ {} \in SUBSET Clients /\ "gone" \in Phases
    BY EmptySeq DEF Phases
  <2>2. server[p] \in Server
    BY <1>1
  <2> QED
    BY <2>1, <2>2 DEF Server
<1>4. Room(x) >= 0
  BY <1>3, FS_EmptySet, StartAssumption DEF Room
<1> HIDE DEF x
<1>5. client' \in [Clients -> Client]
  BY DEF TypeOK, Ended, Hangup, Client, Owner
<1> QED
  BY <1>1, <1>2, <1>3, <1>4, <1>5

LEMMA AcceptType ==
    ASSUME TypeOK, NEW p \in Servers, AcceptPending(p)
    PROVE  /\ server' \in [Servers -> Server] /\ \A q \in Servers : Room(server'[q]) >= 0
           /\ \A q \in Servers : server'[q].phase = server[q].phase
<1> DEFINE x == server[p]
           taken == Taken(x)
           new == ToSet(SubSeq(x.backlog, 1, taken))
           y == [x EXCEPT !.open = @ \union new,
                          !.backlog = SubSeq(x.backlog, taken + 1, Len(x.backlog)),
                          !.paused = taken < Len(x.backlog)]
<1>1. server \in [Servers -> Server] /\ \A q \in Servers : Room(server[q]) >= 0
  BY DEF TypeOK
<1>2. server' = [server EXCEPT ![p] = y]
  BY DEF AcceptPending
<1>3. x \in Server /\ x.backlog \in Seq(Clients) /\ Room(x) \in Int /\ Room(x) >= 0
  BY <1>1, RoomType DEF Server
<1>4. taken \in 0..Len(x.backlog) /\ taken <= Room(x)
  BY <1>3 DEF Taken
<1>5. /\ new \in SUBSET Clients /\ IsFiniteSet(new) /\ Cardinality(new) \in Nat
      /\ Cardinality(new) <= taken
      /\ SubSeq(x.backlog, taken + 1, Len(x.backlog)) \in Seq(Clients)
  BY <1>3, <1>4, FirstOf
<1> HIDE DEF x, taken, new
<1>6. y \in Server /\ y.phase = x.phase /\ y.open = x.open \union new /\ y.programs = x.programs
  <2> DEFINE rest == SubSeq(x.backlog, taken + 1, Len(x.backlog))
             waits == taken < Len(x.backlog)
  <2>1. rest \in Seq(Clients) /\ waits \in BOOLEAN
    BY <1>5
  <2>2. y = [x EXCEPT !.open = @ \union new, !.backlog = rest, !.paused = waits]
    OBVIOUS
  <2> HIDE DEF y, rest, waits
  <2> QED
    BY <1>3, <1>5, <2>1, <2>2 DEF Server
<1>7. IsFiniteSet(x.open) /\ Cardinality(x.open) \in Nat
  BY <1>3, RoomType
<1>8. Cardinality(y.open) <= Cardinality(x.open) + Cardinality(new) /\ Cardinality(y.open) \in Nat
  <2>1. /\ IsFiniteSet(x.open \union new)
        /\ Cardinality(x.open \union new)
             = Cardinality(x.open) + Cardinality(new) - Cardinality(x.open \intersect new)
    BY <1>5, <1>7, FS_Union
  <2>2. Cardinality(x.open \intersect new) \in Nat
    BY <1>7, FS_Subset, FS_CardinalityType, x.open \intersect new \in SUBSET x.open
  <2>3. Cardinality(x.open \union new) \in Nat
    BY <2>1, FS_CardinalityType
  <2> QED
    BY <1>5, <1>6, <1>7, <2>1, <2>2, <2>3
<1>9. Room(y) >= 0
  <2>1. /\ Cardinality(y.open) <= Cardinality(x.open) + Room(x)
        /\ y.programs = x.programs
    BY <1>3, <1>4, <1>5, <1>6, <1>7, <1>8 DEF taken
  <2> QED
    BY <1>7, <1>8, <2>1, StartAssumption DEF Room
<1> HIDE DEF y
<1> QED
  BY <1>1, <1>2, <1>6, <1>9 DEF x

(***************************************************************************)
(* Steps that move no server and touch neither path nor lock.              *)
(***************************************************************************)
IInv == TypeOK /\ Owned

LEMMA CalmStep ==
    ASSUME IInv, UNCHANGED <<path, lock>>, TypeOK',
           \A q \in Servers : server'[q].phase = server[q].phase
    PROVE  IInv'
  BY DEF IInv, Owned

LEMMA AsksStep ==
    ASSUME IInv, NEW c \in Clients, Run(c) \/ Asks(c)
    PROVE  IInv'
<1> USE DEF IInv
<1>1. CASE Run(c) \/ NothingThere(c) \/ HearEnd(c) \/ AskToKill(c)
  <2>1. /\ UNCHANGED <<path, lock, server>>
        /\ \E step \in Steps : client' = [client EXCEPT ![c].step = step]
    BY <1>1 DEF Run, NothingThere, HearEnd, AskToKill, Goes, Steps
  <2>2. client' \in [Clients -> Client]
    BY <2>1 DEF TypeOK, Client
  <2>3. TypeOK'
    BY <2>1, <2>2 DEF TypeOK, Room
  <2> QED
    BY <2>1, <2>3, CalmStep
<1>2. CASE Connect(c)
  <2>1. path \in Servers /\ UNCHANGED <<path, lock>>
    BY <1>2 DEF Connect, Listens
  <2>2. server \in [Servers -> Server] /\ \A q \in Servers : Room(server[q]) >= 0
    BY DEF TypeOK
  <2> DEFINE x == [server[path] EXCEPT !.backlog = Append(@, c)]
  <2>3. server' = [server EXCEPT ![path] = x]
    BY <1>2 DEF Connect
  <2>4. server[path].backlog \in Seq(Clients) /\ Append(server[path].backlog, c) \in Seq(Clients)
    BY <2>1, <2>2 DEF Server
  <2>5. /\ x \in Server /\ x.phase = server[path].phase
        /\ x.open = server[path].open /\ x.programs = server[path].programs
    <3>1. server[path] \in Server
      BY <2>1, <2>2
    <3> QED
      BY <2>4, <3>1, QueuedType
  <2>6. Room(x) = Room(server[path])
    BY <2>5 DEF Room
  <2>7. client' \in [Clients -> Client]
    <3>1. client' = [client EXCEPT ![c].step = "hello", ![c].to = path]
      BY <1>2 DEF Connect
    <3>2. client \in [Clients -> Client] /\ path \in Owner
      BY DEF TypeOK
    <3> QED
      BY <3>1, <3>2 DEF Client, Steps
  <2> HIDE DEF x
  <2>8. TypeOK' /\ \A q \in Servers : server'[q].phase = server[q].phase
    BY <2>1, <2>2, <2>3, <2>5, <2>6, <2>7 DEF TypeOK
  <2> QED
    BY <2>1, <2>8, CalmStep
<1>3. ASSUME NEW p \in Servers, StartServer(c, p) PROVE IInv'
  <2>1. Moves(p, "locking") /\ UNCHANGED <<path, lock>> /\ "locking" \in Phases
    BY <1>3 DEF StartServer, Phases
  <2>2. client' \in [Clients -> Client]
    BY <1>3 DEF StartServer, TypeOK, Client
  <2>3. TypeOK'
    BY <2>1, <2>2, MovesType DEF TypeOK
  <2>4. Owned'
    BY <2>1, MovesType DEF Owned, Locked, Named
  <2> QED
    BY <2>3, <2>4
<1> QED
  BY <1>1, <1>2, <1>3 DEF Asks

LEMMA WaitsStep ==
    ASSUME IInv, NEW c \in Clients, Waits(c) \/ Leave(c)
    PROVE  IInv'
<1>1. PICK step \in Steps : Left(c, step)
  BY DEF Waits, Leave, GiveUp, StopWaiting, Steps
<1> QED
  BY <1>1, LeftType, CalmStep DEF IInv, Left

LEMMA ServesStep ==
    ASSUME IInv, NEW p \in Servers, Serves(p) \/ Stop(p)
    PROVE  IInv'
<1> USE DEF IInv
<1>0. server \in [Servers -> Server] /\ \A q \in Servers : Room(server[q]) >= 0
  BY DEF TypeOK
<1>1. CASE AcceptPending(p)
  BY <1>1, AcceptType, CalmStep DEF AcceptPending, TypeOK
<1>2. CASE PauseEnds(p)
  <2>1. /\ server' = [server EXCEPT ![p] = [server[p] EXCEPT !.paused = FALSE]]
        /\ UNCHANGED <<path, lock, client>>
    BY <1>2 DEF PauseEnds
  <2>2. \A q \in Servers : /\ server'[q] \in Server /\ server'[q].phase = server[q].phase
                           /\ server'[q].open = server[q].open
                           /\ server'[q].programs = server[q].programs
    BY <1>0, <2>1 DEF Server
  <2>3. server' \in [Servers -> Server]
    BY <1>0, <2>1, <2>2
  <2>4. \A q \in Servers : Room(server'[q]) = Room(server[q])
    BY <2>2 DEF Room
  <2> QED
    BY <1>0, <2>1, <2>2, <2>3, <2>4, CalmStep DEF TypeOK
<1>3. CASE Program(p)
  <2> DEFINE x == [server[p] EXCEPT !.programs = ~server[p].programs]
  <2>1. /\ server' = [server EXCEPT ![p] = x] /\ UNCHANGED <<path, lock, client>>
        /\ server[p].programs \/ Room(server[p]) > 0
    BY <1>3 DEF Program
  <2>2. /\ x \in Server /\ x.phase = server[p].phase /\ x.open = server[p].open
        /\ server[p].programs \in BOOLEAN /\ x.programs = ~server[p].programs
    BY <1>0 DEF Server
  <2>3. Cardinality(x.open) \in Nat
    BY <2>2, RoomType
  <2>4. Room(x) >= 0
    <3>1. CASE server[p].programs
      BY <1>0, <2>2, <2>3, <3>1, StartAssumption DEF Room
    <3>2. CASE ~server[p].programs
      BY <2>1, <2>2, <2>3, <3>2, StartAssumption DEF Room
    <3> QED
      BY <3>1, <3>2
  <2> HIDE DEF x
  <2> QED
    BY <1>0, <2>1, <2>2, <2>4, CalmStep DEF TypeOK
<1>4. ASSUME NEW c \in Clients, Greet(p, c) \/ MismatchDeadline(p, c) PROVE IInv'
  <2>1. UNCHANGED <<path, lock>> /\ client' \in [Clients -> Client]
    BY <1>4 DEF Greet, MismatchDeadline, Goes, TypeOK, Client, Steps, Owner
  <2>2. UNCHANGED server \/ server' = [server EXCEPT ![p] = Without(server[p], c)]
    BY <1>4 DEF Greet, MismatchDeadline
  <2>3. /\ server' \in [Servers -> Server] /\ \A q \in Servers : Room(server'[q]) >= 0
        /\ \A q \in Servers : server'[q].phase = server[q].phase
    BY <1>0, <2>2, WithoutType
  <2> QED
    BY <2>1, <2>3, CalmStep DEF TypeOK
<1>5. ASSUME Stop(p) \/ \E c \in Clients : HearKill(p, c) PROVE IInv'
  <2>1. /\ Moves(p, "stopping") /\ UNCHANGED <<path, lock, client>>
        /\ server[p].phase = "serving" /\ "stopping" \in Phases
    BY <1>5 DEF Stop, HearKill, At, Phases
  <2>2. TypeOK'
    BY <2>1, MovesType DEF TypeOK
  <2>3. Owned'
    BY <2>1, MovesType DEF Owned, Locked, Named
  <2> QED
    BY <2>2, <2>3
<1> QED
  BY <1>1, <1>2, <1>3, <1>4, <1>5 DEF Serves

(***************************************************************************)
(* Coming up, going down and dying: the steps that use path and lock.      *)
(***************************************************************************)
LEMMA ComesUpStep ==
    ASSUME IInv, NEW p \in Servers, ComesUp(p)
    PROVE  IInv'
<1> USE DEF IInv
<1>0. Nobody \notin Servers
  BY StartAssumption DEF Nobody
<1>1. CASE Lock(p)
  <2>1. CASE lock = Nobody
    <3>1. lock' = p /\ Moves(p, "probing") /\ UNCHANGED <<path, client>> /\ "probing" \in Phases
      BY <1>1, <2>1 DEF Lock, Phases
    <3>2. TypeOK'
      BY <3>1, MovesType DEF TypeOK, Owner
    <3>3. \A q \in Servers : server[q].phase \notin Locked
      BY <1>0, <2>1 DEF Owned
    <3>4. Owned'
      BY <3>1, <3>3, MovesType DEF Owned, Locked, Named
    <3> QED
      BY <3>2, <3>4
  <2>2. CASE lock # Nobody
    <3>1. Moves(p, "gone") /\ UNCHANGED <<path, lock, client>> /\ "gone" \in Phases
      BY <1>1, <2>2 DEF Lock, Phases
    <3>2. TypeOK'
      BY <3>1, MovesType DEF TypeOK
    <3>3. Owned'
      BY <3>1, MovesType DEF Owned, Locked, Named
    <3> QED
      BY <3>2, <3>3
  <2> QED
    BY <2>1, <2>2
<1>2. CASE RemoveStale(p)
  <2>1. /\ path' = Nobody /\ Moves(p, "binding") /\ UNCHANGED <<lock, client>>
        /\ server[p].phase = "probing" /\ "binding" \in Phases
    BY <1>2 DEF RemoveStale, At, Phases
  <2>2. TypeOK'
    BY <2>1, MovesType DEF TypeOK, Owner
  <2>3. \A q \in Servers \ {p} : server[q].phase \notin Locked
    BY <2>1 DEF Owned, Locked
  <2>4. Owned'
    BY <2>1, <2>3, MovesType DEF Owned, Locked, Named
  <2> QED
    BY <2>2, <2>4
<1>3. CASE Bind(p)
  <2>1. /\ path' = p /\ Moves(p, "bound") /\ UNCHANGED <<lock, client>>
        /\ server[p].phase = "binding" /\ "bound" \in Phases
    BY <1>3 DEF Bind, At, Phases
  <2>2. TypeOK'
    BY <2>1, MovesType DEF TypeOK, Owner
  <2>3. \A q \in Servers \ {p} : server[q].phase \notin Locked
    BY <2>1 DEF Owned, Locked
  <2>4. Owned'
    BY <2>1, <2>3, MovesType DEF Owned, Locked, Named
  <2> QED
    BY <2>2, <2>4
<1>4. CASE Listen(p)
  <2>1. /\ Moves(p, "serving") /\ UNCHANGED <<path, lock, client>>
        /\ server[p].phase = "bound" /\ "serving" \in Phases
    BY <1>4 DEF Listen, At, Phases
  <2>2. TypeOK'
    BY <2>1, MovesType DEF TypeOK
  <2>3. Owned'
    BY <2>1, MovesType DEF Owned, Locked, Named
  <2> QED
    BY <2>2, <2>3
<1> QED
  BY <1>1, <1>2, <1>3, <1>4 DEF ComesUp

LEMMA GoesDownStep ==
    ASSUME IInv, NEW p \in Servers, GoesDown(p) \/ Crash(p)
    PROVE  IInv'
<1> USE DEF IInv
<1>0. server \in [Servers -> Server] /\ \A q \in Servers : Room(server[q]) >= 0
  BY DEF TypeOK
<1>1. CASE CloseSocket(p)
  <2> DEFINE x == [server[p] EXCEPT !.phase = "closed", !.backlog = <<>>]
  <2>1. /\ server' = [server EXCEPT ![p] = x] /\ UNCHANGED <<path, lock>>
        /\ server[p].phase = "stopping"
    BY <1>1 DEF CloseSocket, At
  <2>2. /\ x \in Server /\ x.phase = "closed"
        /\ x.open = server[p].open /\ x.programs = server[p].programs
    <3>1. <<>> \in Seq(Clients) /\ "closed" \in Phases
      BY EmptySeq DEF Phases
    <3> QED
      BY <1>0, <3>1 DEF Server
  <2>3. Room(x) >= 0
    BY <1>0, <2>2 DEF Room
  <2>4. client' \in [Clients -> Client]
    BY <1>1 DEF CloseSocket, Hangup, TypeOK, Client, Owner
  <2> HIDE DEF x
  <2>5. TypeOK'
    BY <1>0, <2>1, <2>2, <2>3, <2>4 DEF TypeOK
  <2>6. Owned'
    BY <1>0, <2>1, <2>2 DEF Owned, Locked, Named
  <2> QED
    BY <2>5, <2>6
<1>2. CASE Unlink(p)
  <2>1. /\ path' = Nobody /\ Moves(p, "unlinked") /\ UNCHANGED <<lock, client>>
        /\ server[p].phase = "closed" /\ "unlinked" \in Phases
    BY <1>2 DEF Unlink, At, Phases
  <2>2. TypeOK'
    BY <2>1, MovesType DEF TypeOK, Owner
  <2>3. \A q \in Servers \ {p} : server[q].phase \notin Locked
    BY <2>1 DEF Owned, Locked
  <2>4. Owned'
    BY <2>1, <2>3, MovesType DEF Owned, Locked, Named
  <2> QED
    BY <2>2, <2>4
<1>3. CASE Unlock(p)
  <2>1. /\ lock' = Nobody /\ Moves(p, "ending") /\ UNCHANGED <<path, client>>
        /\ server[p].phase = "unlinked" /\ "ending" \in Phases
    BY <1>3 DEF Unlock, At, Phases
  <2>2. TypeOK'
    BY <2>1, MovesType DEF TypeOK, Owner
  <2>3. \A q \in Servers \ {p} : server[q].phase \notin Locked
    BY <2>1 DEF Owned, Locked
  <2>4. Owned'
    BY <2>1, <2>3, MovesType DEF Owned, Locked, Named
  <2> QED
    BY <2>2, <2>4
<1>4. CASE End(p)
  <2>1. Ended(p) /\ UNCHANGED <<path, lock>>
    BY <1>4 DEF End
  <2>2. TypeOK'
    BY <2>1, EndedType DEF TypeOK
  <2>3. Owned'
    BY <2>1, EndedType DEF Owned, Locked, Named
  <2> QED
    BY <2>2, <2>3
<1>5. CASE Crash(p)
  <2>1. Ended(p) /\ UNCHANGED path /\ lock' = IF lock = p THEN Nobody ELSE lock
    BY <1>5 DEF Crash
  <2>2. TypeOK'
    BY <2>1, EndedType DEF TypeOK, Owner
  <2>3. Owned'
    BY <2>1, EndedType DEF Owned, Locked, Named
  <2> QED
    BY <2>2, <2>3
<1> QED
  BY <1>1, <1>2, <1>3, <1>4, <1>5 DEF GoesDown

(***************************************************************************)
(* The theorems.                                                           *)
(***************************************************************************)
LEMMA Invariance == Spec => []IInv
<1>1. Init => IInv
  BY TypeInit DEF Init, IInv, Owned, Locked, Named
<1>2. IInv /\ [Next]_vars => IInv'
  <2> SUFFICES ASSUME IInv, [Next]_vars PROVE IInv'
    OBVIOUS
  <2>1. CASE UNCHANGED vars
    BY <2>1 DEF IInv, Owned, TypeOK, Room, vars
  <2>2. CASE Next
    BY <2>2, AsksStep, WaitsStep, ServesStep, ComesUpStep, GoesDownStep DEF Next
  <2> QED
    BY <2>1, <2>2
<1> QED
  BY <1>1, <1>2, PTL DEF Spec

\* The state keeps its types, and no server ever holds more connections and
\* programs than it has descriptors for (Server::accept_pending).
THEOREM StartTypes == Spec => []TypeOK
  BY Invariance, PTL DEF IInv

\* However many servers start, stop and die, one that listens holds the lock and
\* is where the path leads, and one that has the lock finds nobody listening
\* (Listener::listen, Listener::close).
THEOREM OneListener == Spec => []PathIsTheServers
<1>1. IInv => PathIsTheServers
  BY DEF IInv, Owned, Locked, Named, PathIsTheServers, Listens, At
<1> QED
  BY <1>1, Invariance, PTL

(***************************************************************************)
(* What goes over a connection.  The numbers a byte holds:                 *)
(***************************************************************************)
Byte == 0..255

(***************************************************************************)
(* Numbers: the least of a set, and induction over a set of numbers.       *)
(***************************************************************************)
LEMMA Least ==
    ASSUME NEW T \in SUBSET Nat, T # {}
    PROVE  \E n \in T : \A m \in T : n <= m
<1> DEFINE R == OpToRel(<, Nat)
<1>1. \A x, y \in Nat : y < x => <<y, x>> \in R
  BY DEF OpToRel
<1>2. \E x \in T : \A y \in T : <<y, x>> \notin R
  BY NatLessThanWellFounded, WFMin
<1> HIDE DEF R
<1>3. PICK x \in T : \A y \in T : <<y, x>> \notin R
  BY <1>2
<1>4. ASSUME NEW y \in T, y < x PROVE FALSE
  BY <1>1, <1>3, <1>4
<1>5. \A y \in T : x <= y
  BY <1>4
<1> QED
  BY <1>5

LEMMA Induction ==
    ASSUME NEW T \in SUBSET Nat, 0 \in T, \A n \in T : n + 1 \in T
    PROVE  T = Nat
<1> SUFFICES ASSUME Nat \ T # {} PROVE FALSE
  OBVIOUS
<1>1. PICK n \in Nat \ T : \A m \in Nat \ T : n <= m
  BY Least
<1>2. n - 1 \in Nat
  BY <1>1
<1> QED
  BY <1>1, <1>2

(***************************************************************************)
(* Functions defined by recursion: there is one, and there is one only.    *)
(***************************************************************************)
LEMMA Same ==
    ASSUME NEW n \in Nat, NEW f, NEW g, f[0] = g[0],
           \A i \in 1..n : f[i - 1] = g[i - 1] => f[i] = g[i]
    PROVE  \A i \in 0..n : f[i] = g[i]
<1> DEFINE T == {k \in Nat : k <= n => f[k] = g[k]}
<1>1. 0 \in T
  OBVIOUS
<1>2. ASSUME NEW k \in T PROVE k + 1 \in T
  <2> SUFFICES ASSUME k + 1 <= n PROVE f[k + 1] = g[k + 1]
    OBVIOUS
  <2>1. k + 1 \in 1..n /\ (k + 1) - 1 = k /\ k <= n
    OBVIOUS
  <2> QED
    BY <2>1
<1>3. T = Nat
  <2> HIDE DEF T
  <2>1. T \in SUBSET Nat
    BY DEF T
  <2> QED
    BY <1>1, <1>2, <2>1, Induction
<1> QED
  BY <1>3

Iterates(f, n, S, a, G) == f \in [0..n -> S] /\ f[0] = a /\ \A i \in 1..n : f[i] = G[i][f[i - 1]]

LEMMA Recursive ==
    ASSUME NEW S, NEW n \in Nat, NEW a \in S, NEW G \in [1..n -> [S -> S]]
    PROVE  \E f : Iterates(f, n, S, a, G)
<1> DEFINE Upto(k, f) == f[0] = a /\ \A i \in 1..k : f[i] = G[i][f[i - 1]]
           T == {k \in Nat : k <= n => \E f \in [0..k -> S] : Upto(k, f)}
<1>1. 0 \in T
  <2>1. [i \in 0..0 |-> a] \in [0..0 -> S] /\ Upto(0, [i \in 0..0 |-> a])
    OBVIOUS
  <2> QED
    BY <2>1
<1>2. ASSUME NEW k \in T PROVE k + 1 \in T
  <2> SUFFICES ASSUME k + 1 <= n PROVE \E f \in [0..(k + 1) -> S] : Upto(k + 1, f)
    OBVIOUS
  <2>1. PICK f \in [0..k -> S] : Upto(k, f)
    OBVIOUS
  <2> DEFINE last == G[k + 1][f[k]]
             h == [i \in 0..(k + 1) |-> IF i = k + 1 THEN last ELSE f[i]]
  <2>2. last \in S
    OBVIOUS
  <2> HIDE DEF last
  <2>3. h \in [0..(k + 1) -> S]
    BY <2>2
  <2>4. h[k + 1] = last /\ \A i \in 0..k : h[i] = f[i]
    OBVIOUS
  <2> HIDE DEF h
  <2>5. ASSUME NEW i \in 1..(k + 1) PROVE h[i] = G[i][h[i - 1]]
    <3>1. CASE i = k + 1
      <4>1. (k + 1) - 1 = k /\ k \in 0..k
        OBVIOUS
      <4> QED
        BY <2>4, <3>1, <4>1 DEF last
    <3>2. CASE i # k + 1
      <4>1. i \in 1..k /\ i \in 0..k /\ i - 1 \in 0..k
        BY <3>2
      <4> QED
        BY <2>1, <2>4, <4>1
    <3> QED
      BY <3>1, <3>2
  <2>6. Upto(k + 1, h)
    BY <2>1, <2>4, <2>5
  <2> HIDE DEF Upto
  <2> QED
    BY <2>3, <2>6
<1>3. T = Nat
  <2> HIDE DEF T
  <2>1. T \in SUBSET Nat
    BY DEF T
  <2> QED
    BY <1>1, <1>2, <2>1, Induction
<1>4. n \in T
  BY <1>3
<1> HIDE DEF Upto
<1>5. \E f \in [0..n -> S] : Upto(n, f)
  BY <1>4
<1> QED
  BY <1>5 DEF Upto, Iterates

(***************************************************************************)
(* Numbers as bytes.                                                       *)
(***************************************************************************)
Halved(v, f) == [i \in 0..Widest |-> IF i = 0 THEN v ELSE f[i - 1] \div 256]

LEMMA HalvedExists == ASSUME NEW v \in Int PROVE \E f : f = Halved(v, f)
<1> DEFINE q0 == v
           q1 == v \div 256
           q2 == q1 \div 256
           q3 == q2 \div 256
           q4 == q3 \div 256
           q5 == q4 \div 256
           q6 == q5 \div 256
           q7 == q6 \div 256
           q8 == q7 \div 256
           f == [i \in 0..8 |-> <<v, q1, q2, q3, q4, q5, q6, q7, q8>>[i + 1]]
<1> HIDE DEF q0, q1, q2, q3, q4, q5, q6, q7, q8
<1>1. \A i \in 1..8 : f[i] = f[i - 1] \div 256
  BY DEF q1, q2, q3, q4, q5, q6, q7, q8
<1>2. f[0] = v
  OBVIOUS
<1>3. f = Halved(v, f)
  BY <1>1, <1>2 DEF Halved, Widest
<1> QED
  BY <1>3

LEMMA HalvedIs ==
    ASSUME NEW v \in Int, NEW f, f = Halved(v, f)
    PROVE  /\ f[0] = v
           /\ \A i \in 0..Widest : f[i] \in Int
           /\ \A i \in 1..Widest : f[i] = f[i - 1] \div 256
<1>1. f[0] = v /\ \A i \in 1..Widest : f[i] = f[i - 1] \div 256
  BY DEF Halved, Widest
<1> DEFINE T == {i \in Nat : i <= Widest => f[i] \in Int}
<1>2. 0 \in T
  BY <1>1
<1>3. ASSUME NEW i \in T PROVE i + 1 \in T
  <2>1. i + 1 <= Widest => i <= Widest /\ i + 1 \in 1..Widest /\ (i + 1) - 1 = i
    BY DEF Widest
  <2> QED
    BY <1>1, <2>1
<1>4. T = Nat
  <2> HIDE DEF T
  <2>1. T \in SUBSET Nat
    BY DEF T
  <2> QED
    BY <1>2, <1>3, <2>1, Induction
<1>5. \A i \in 0..Widest : i \in T /\ i <= Widest
  BY <1>4 DEF Widest
<1> QED
  BY <1>1, <1>5

LEMMA RestIs ==
    ASSUME NEW v \in Int
    PROVE  /\ Rest(v, 0) = v
           /\ \A i \in 0..Widest : Rest(v, i) \in Int
           /\ \A i \in 1..Widest : Rest(v, i) = Rest(v, i - 1) \div 256
<1> DEFINE c == CHOOSE f : f = Halved(v, f)
<1>1. Rest(v, 0) = c[0] /\ \A i : Rest(v, i) = c[i]
  BY Zenon DEF Rest, Halved
<1>2. c = Halved(v, c)
  <2>1. \E f : f = Halved(v, f)
    BY HalvedExists
  <2> QED
    BY <2>1, Zenon
<1> HIDE DEF c
<1>3. /\ c[0] = v
      /\ \A i \in 0..Widest : c[i] \in Int
      /\ \A i \in 1..Widest : c[i] = c[i - 1] \div 256
  BY <1>2, HalvedIs
<1> QED
  BY <1>1, <1>3

\* What a field of w bytes can hold.
Holds(v, w, signed) == IF signed THEN Rest(v, w - 1) \in -128..127 ELSE Rest(v, w) = 0

LEMMA BytesType ==
    ASSUME NEW v \in Int, NEW w \in 0..Widest
    PROVE  /\ Bytes(v, w) \in Seq(Byte) /\ Len(Bytes(v, w)) = w
           /\ \A i \in 1..w : Bytes(v, w)[i] = Rest(v, i - 1) % 256
<1>1. \A i \in 1..w : i - 1 \in 0..Widest
  BY DEF Widest
<1>2. \A i \in 1..w : Rest(v, i - 1) % 256 \in Byte
  <2> TAKE i \in 1..w
  <2> DEFINE q == Rest(v, i - 1)
  <2>1. q \in Int
    BY <1>1, RestIs
  <2> HIDE DEF q
  <2>2. q % 256 \in Byte
    BY <2>1 DEF Byte
  <2> QED
    BY <2>2 DEF q
<1>3. Bytes(v, w) = [i \in 1..w |-> Rest(v, i - 1) % 256]
  BY DEF Bytes
<1>4. w \in Nat
  BY DEF Widest
<1> QED
  BY <1>2, <1>3, <1>4

Summed(b, high, f) ==
    [i \in 1..Len(b) |-> IF i = 1 THEN high ELSE b[Len(b) + 1 - i] + 256 * f[i - 1]]

LEMMA SummedIs ==
    ASSUME NEW v \in Int, NEW w \in 1..Widest, NEW signed \in BOOLEAN, Holds(v, w, signed),
           NEW b, b = Bytes(v, w), NEW high,
           high = IF signed /\ b[w] >= 128 THEN b[w] - 256 ELSE b[w]
    PROVE  /\ \E f : f = Summed(b, high, f)
           /\ \A f : f = Summed(b, high, f) => f[w] = v
<1>0. w \in Nat /\ w \in 0..Widest /\ w >= 1
  BY DEF Widest
<1>1. Len(b) = w /\ \A i \in 1..w : b[i] = Rest(v, i - 1) % 256
  BY <1>0, BytesType
<1>2. \A i \in 0..w : i \in 0..Widest
  BY DEF Widest
<1>3. Rest(v, 0) = v /\ \A i \in 0..w : Rest(v, i) \in Int
  BY <1>2, RestIs
<1>4. \A i \in 1..w : Rest(v, i) = Rest(v, i - 1) \div 256
  BY RestIs DEF Widest
<1>5. high = Rest(v, w - 1)
  <2> DEFINE q == Rest(v, w - 1)
  <2>1. q \in Int /\ b[w] = q % 256 /\ Rest(v, w) = q \div 256
    BY <1>0, <1>1, <1>3, <1>4
  <2> HIDE DEF q
  <2>2. CASE signed
    <3>1. q \in -128..127
      BY <2>2 DEF Holds, q
    <3>2. q % 256 = IF q < 0 THEN q + 256 ELSE q
      BY <3>1
    <3>3. high = q
      BY <2>1, <2>2, <3>1, <3>2
    <3> QED
      BY <3>3 DEF q
  <2>3. CASE ~signed
    <3>1. q \div 256 = 0
      BY <2>1, <2>3 DEF Holds
    <3>2. q % 256 = q
      BY <2>1, <3>1
    <3>3. high = q
      BY <2>1, <2>3, <3>2
    <3> QED
      BY <3>3 DEF q
  <2> QED
    BY <2>2, <2>3
<1>6. ASSUME NEW i \in 2..w
      PROVE  b[w + 1 - i] + 256 * Rest(v, w - (i - 1)) = Rest(v, w - i)
  <2> DEFINE q == Rest(v, w - i)
  <2>1. w + 1 - i \in 1..w /\ w - i \in 0..w /\ (w + 1 - i) - 1 = w - i /\ w - (i - 1) = w + 1 - i
    BY <1>0
  <2>2. q \in Int /\ b[w + 1 - i] = q % 256 /\ Rest(v, w - (i - 1)) = q \div 256
    BY <1>1, <1>3, <1>4, <2>1
  <2> HIDE DEF q
  <2>3. (q % 256) + 256 * (q \div 256) = q
    BY <2>2
  <2> QED
    BY <2>2, <2>3 DEF q
<1> DEFINE g == [i \in 1..w |-> Rest(v, w - i)]
<1>7. g = Summed(b, high, g)
  <2>1. ASSUME NEW i \in 1..w
        PROVE  g[i] = IF i = 1 THEN high ELSE b[w + 1 - i] + 256 * g[i - 1]
    <3>1. CASE i = 1
      BY <1>5, <3>1
    <3>2. CASE i # 1
      <4>1. i \in 2..w /\ i - 1 \in 1..w
        BY <1>0, <3>2
      <4>2. g[i] = Rest(v, w - i) /\ g[i - 1] = Rest(v, w - (i - 1))
        BY <4>1
      <4> HIDE DEF g
      <4> QED
        BY <1>6, <3>2, <4>1, <4>2
    <3> QED
      BY <3>1, <3>2
  <2>2. g = [i \in 1..w |-> g[i]]
    OBVIOUS
  <2> HIDE DEF g
  <2> DEFINE e(i) == IF i = 1 THEN high ELSE b[w + 1 - i] + 256 * g[i - 1]
  <2>3. Summed(b, high, g) = [i \in 1..w |-> e(i)]
    BY <1>1, Zenon DEF Summed
  <2>4. \A i \in 1..w : g[i] = e(i)
    BY <2>1
  <2> HIDE DEF e
  <2> QED
    BY <2>2, <2>3, <2>4
<1>8. ASSUME NEW f, f = Summed(b, high, f) PROVE f[w] = v
  <2>1. \A i \in 1..w : f[i] = IF i = 1 THEN high ELSE b[w + 1 - i] + 256 * f[i - 1]
    BY <1>1, <1>8 DEF Summed
  <2> DEFINE T == {k \in Nat : k \in 1..w => f[k] = Rest(v, w - k)}
  <2>2. 0 \in T
    OBVIOUS
  <2>3. ASSUME NEW k \in T PROVE k + 1 \in T
    <3> SUFFICES ASSUME k + 1 \in 1..w PROVE f[k + 1] = Rest(v, w - (k + 1))
      OBVIOUS
    <3>1. CASE k = 0
      BY <1>5, <2>1, <3>1
    <3>2. CASE k # 0
      <4>1. k \in 1..w /\ k + 1 \in 2..w /\ (k + 1) - 1 = k
        BY <1>0, <3>2
      <4>2. f[k] = Rest(v, w - ((k + 1) - 1))
        BY <4>1
      <4>3. f[k + 1] = b[w + 1 - (k + 1)] + 256 * f[k]
        BY <2>1, <4>1
      <4> QED
        BY <1>6, <4>1, <4>2, <4>3
    <3> QED
      BY <3>1, <3>2
  <2>4. T = Nat
    <3> HIDE DEF T
    <3>1. T \in SUBSET Nat
      BY DEF T
    <3> QED
      BY <2>2, <2>3, <3>1, Induction
  <2>5. w \in T /\ w \in 1..w /\ w - w = 0
    BY <1>0, <2>4
  <2> QED
    BY <1>3, <2>5
<1> HIDE DEF g
<1> QED
  BY <1>7, <1>8

\* A number that its field can hold is read as it was written.
LEMMA NumberBytes ==
    ASSUME NEW v \in Int, NEW w \in 1..Widest, NEW signed \in BOOLEAN, Holds(v, w, signed)
    PROVE  Number(Bytes(v, w), signed) = v
<1> DEFINE b == Bytes(v, w)
           high == IF signed /\ b[Len(b)] >= 128 THEN b[Len(b)] - 256 ELSE b[Len(b)]
           c == CHOOSE f : f = Summed(b, high, f)
<1>0. Len(b) = w
  <2>1. w \in 0..Widest
    BY DEF Widest
  <2> QED
    BY <2>1, BytesType
<1> HIDE DEF b
<1>1. Number(b, signed) = c[Len(b)]
  BY Zenon DEF Number, Summed
<1>. high = IF signed /\ b[w] >= 128 THEN b[w] - 256 ELSE b[w]
  BY <1>0
<1> HIDE DEF b, high
<1>2. /\ \E f : f = Summed(b, high, f)
      /\ \A f : f = Summed(b, high, f) => f[w] = v
  BY SummedIs DEF b, high
<1>3. c = Summed(b, high, c)
  BY <1>2, Zenon
<1> HIDE DEF c
<1>4. c[w] = v
  BY <1>2, <1>3
<1> QED
  BY <1>0, <1>1, <1>4 DEF b

(***************************************************************************)
(* FlattenSeq: sequences one after another.                                *)
(***************************************************************************)
Flatten(ss, f) == [i \in 1..Len(ss) |-> IF i = 1 THEN ss[i] ELSE f[i - 1] \o ss[i]]

LEMMA FlattenExists == ASSUME NEW ss, Len(ss) \in Nat PROVE \E f : f = Flatten(ss, f)
<1> DEFINE N == Len(ss)
           Upto(n, g) == /\ g = [i \in 1..n |-> g[i]]
                         /\ \A i \in 1..n : g[i] = IF i = 1 THEN ss[i] ELSE g[i - 1] \o ss[i]
           T == {n \in Nat : \E g : Upto(n, g)}
<1>1. 0 \in T
  <2>1. Upto(0, [i \in 1..0 |-> <<>>])
    OBVIOUS
  <2> QED
    BY <2>1
<1>2. ASSUME NEW n \in T PROVE n + 1 \in T
  <2>1. n \in Nat
    OBVIOUS
  <2>2. PICK g : Upto(n, g)
    OBVIOUS
  <2> DEFINE last == IF n + 1 = 1 THEN ss[n + 1] ELSE g[n] \o ss[n + 1]
             h == [i \in 1..(n + 1) |-> IF i = n + 1 THEN last ELSE g[i]]
  <2> HIDE DEF last
  <2>3. h[n + 1] = last /\ \A i \in 1..n : h[i] = g[i]
    BY <2>1
  <2>4. h = [i \in 1..(n + 1) |-> h[i]]
    OBVIOUS
  <2> HIDE DEF h
  <2>5. ASSUME NEW i \in 1..(n + 1) PROVE h[i] = IF i = 1 THEN ss[i] ELSE h[i - 1] \o ss[i]
    <3>1. CASE i = n + 1
      <4>1. n + 1 = 1 \/ (n \in 1..n /\ (n + 1) - 1 = n)
        BY <2>1
      <4> QED
        BY <2>3, <3>1, <4>1 DEF last
    <3>2. CASE i # n + 1
      <4>1. i \in 1..n /\ (i = 1 \/ i - 1 \in 1..n)
        BY <2>1, <3>2
      <4> QED
        BY <2>2, <2>3, <4>1
    <3> QED
      BY <3>1, <3>2
  <2>6. Upto(n + 1, h)
    BY <2>4, <2>5
  <2>7. \E e : Upto(n + 1, e)
    BY <2>6
  <2> HIDE DEF Upto
  <2> QED
    BY <2>1, <2>7
<1>3. T = Nat
  <2> HIDE DEF T
  <2>1. T \in SUBSET Nat
    BY DEF T
  <2> QED
    BY <1>1, <1>2, <2>1, Induction
<1>4. PICK g : Upto(N, g)
  BY <1>3
<1>5. \A i \in 1..N : g[i] = Flatten(ss, g)[i]
  BY <1>4 DEF Flatten
<1>6. Flatten(ss, g) = [i \in 1..N |-> Flatten(ss, g)[i]] /\ g = [i \in 1..N |-> g[i]]
  BY <1>4 DEF Flatten
<1> HIDE DEF N
<1>7. g = Flatten(ss, g)
  BY <1>5, <1>6
<1> QED
  BY <1>7

\* FlattenSeq takes the sequences of ss one after another.
Blocks(n, S) == [1..n -> Seq(S)]
Flattened(n, ss, S) ==
    \E g \in [0..n -> Seq(S)] : /\ g[0] = <<>> /\ FlattenSeq(ss) = g[n]
                               /\ \A i \in 1..n : g[i] = g[i - 1] \o ss[i]

LEMMA FlattenIs ==
    ASSUME NEW S, NEW n \in Nat, NEW ss \in Blocks(n, S)
    PROVE  Flattened(n, ss, S)
<1> USE DEF Blocks, Flattened
<1>1. Len(ss) = n /\ DOMAIN ss = 1..n
  <2>1. ss \in Seq(Seq(S))
    OBVIOUS
  <2>2. Len(ss) \in Nat /\ DOMAIN ss = 1..Len(ss) /\ DOMAIN ss = 1..n
    BY <2>1, LenProperties
  <2> QED
    BY <2>2
<1>2. CASE n = 0
  <2>1. ss = <<>>
    BY <1>1, <1>2
  <2>2. FlattenSeq(ss) = <<>>
    BY <1>1, <1>2, <2>1 DEF FlattenSeq
  <2> DEFINE g == [i \in 0..0 |-> <<>>]
  <2>3. g \in [0..n -> Seq(S)] /\ g[0] = <<>> /\ g[n] = <<>> /\ \A i \in 1..n : FALSE
    BY <1>2
  <2> HIDE DEF g
  <2> QED
    BY <2>2, <2>3
<1>3. CASE n # 0
  <2>1. FlattenSeq(ss) = (CHOOSE f : f = Flatten(ss, f))[Len(ss)]
    BY <1>1, <1>3, Zenon DEF FlattenSeq, Flatten
  <2> DEFINE f == CHOOSE f : f = Flatten(ss, f)
  <2>2. f = Flatten(ss, f)
    <3>1. \E e : e = Flatten(ss, e)
      BY <1>1, FlattenExists
    <3> QED
      BY <3>1, Zenon
  <2>3. FlattenSeq(ss) = f[n]
    BY <1>1, <2>1
  <2> HIDE DEF f
  <2>4. \A i \in 1..n : f[i] = IF i = 1 THEN ss[i] ELSE f[i - 1] \o ss[i]
    <3>1. \A i \in 1..n : Flatten(ss, f)[i] = IF i = 1 THEN ss[i] ELSE f[i - 1] \o ss[i]
      BY <1>1 DEF Flatten
    <3> QED
      BY <2>2, <3>1
  <2> DEFINE T == {k \in Nat : k \in 1..n => f[k] \in Seq(S)}
  <2>5. 0 \in T
    OBVIOUS
  <2>6. ASSUME NEW k \in T PROVE k + 1 \in T
    <3> SUFFICES ASSUME k + 1 \in 1..n PROVE f[k + 1] \in Seq(S)
      OBVIOUS
    <3>1. ss[k + 1] \in Seq(S)
      OBVIOUS
    <3>2. CASE k = 0
      BY <2>4, <3>1, <3>2
    <3>3. CASE k # 0
      <4>1. k \in 1..n /\ (k + 1) - 1 = k /\ k + 1 # 1
        BY <3>3
      <4>2. f[k] \in Seq(S) /\ f[k + 1] = f[k] \o ss[k + 1]
        BY <2>4, <4>1
      <4> DEFINE a == f[k]
                 b == ss[k + 1]
      <4>3. a \in Seq(S) /\ b \in Seq(S) /\ f[k + 1] = a \o b
        BY <3>1, <4>2
      <4> HIDE DEF a, b
      <4> QED
        BY <4>3, ConcatProperties
    <3> QED
      BY <3>2, <3>3
  <2>7. T = Nat
    <3> HIDE DEF T
    <3>1. T \in SUBSET Nat
      BY DEF T
    <3> QED
      BY <2>5, <2>6, <3>1, Induction
  <2>8. \A k \in 1..n : f[k] \in Seq(S)
    BY <2>7
  <2> DEFINE g == [i \in 0..n |-> IF i = 0 THEN <<>> ELSE f[i]]
  <2>9. g \in [0..n -> Seq(S)]
    BY <2>8
  <2>10. g[0] = <<>> /\ \A i \in 1..n : g[i] = f[i]
    OBVIOUS
  <2> HIDE DEF g
  <2>11. ASSUME NEW i \in 1..n PROVE g[i] = g[i - 1] \o ss[i]
    <3>1. CASE i = 1
      <4> DEFINE b == ss[1]
      <4>1. g[i] = b /\ b \in Seq(S) /\ g[i - 1] = <<>>
        BY <2>4, <2>10, <3>1
      <4> HIDE DEF b
      <4>2. <<>> \o b = b
        BY <4>1, ConcatEmptySeq
      <4> QED
        BY <3>1, <4>1, <4>2 DEF b
    <3>2. CASE i # 1
      <4>1. i - 1 \in 1..n
        BY <3>2
      <4> QED
        BY <2>4, <2>10, <3>2, <4>1
    <3> QED
      BY <3>1, <3>2
  <2>12. n \in 1..n
    BY <1>3
  <2> QED
    BY <2>3, <2>9, <2>10, <2>11, <2>12
<1> QED
  BY <1>2, <1>3

LEMMA ConcatParts ==
    ASSUME NEW S, NEW a \in Seq(S), NEW b \in Seq(S)
    PROVE  /\ a \o b \in Seq(S) /\ Len(a \o b) = Len(a) + Len(b)
           /\ Len(a) \in Nat /\ Len(b) \in Nat
           /\ DOMAIN a = 1..Len(a) /\ DOMAIN b = 1..Len(b) /\ DOMAIN (a \o b) = 1..(Len(a) + Len(b))
           /\ \A i \in 1..Len(a) : (a \o b)[i] = a[i]
           /\ \A i \in 1..Len(b) : (a \o b)[Len(a) + i] = b[i]
           /\ \A i \in 1..(Len(a) + Len(b)) : i \in 1..Len(a) \/ \E j \in 1..Len(b) : i = Len(a) + j
           /\ SubSeq(a \o b, Len(a) + 1, Len(a \o b)) = b
<1> DEFINE n == Len(a)
           m == Len(b)
           c == a \o b
<1>1. /\ c \in Seq(S) /\ Len(c) = n + m /\ n \in Nat /\ m \in Nat
      /\ DOMAIN a = 1..n /\ DOMAIN b = 1..m
      /\ \A i \in 1..(n + m) : c[i] = IF i <= n THEN a[i] ELSE b[i - n]
  BY ConcatProperties, LenProperties
<1>2. DOMAIN c = 1..(n + m) /\ \A i \in 1..(n + m) : c[i] \in S
  <2> HIDE DEF c, n, m
  <2> QED
    BY <1>1, LenProperties, ElementOfSeq
<1> HIDE DEF n, m, c
<1>3. \A i \in 1..n : c[i] = a[i]
  <2>1. \A i \in 1..n : i \in 1..(n + m) /\ i <= n
    BY <1>1
  <2> QED
    BY <1>1, <2>1
<1>4. \A i \in 1..m : c[n + i] = b[i]
  <2>1. \A i \in 1..m : n + i \in 1..(n + m) /\ ~(n + i <= n) /\ (n + i) - n = i
    BY <1>1
  <2> QED
    BY <1>1, <2>1
<1>5. \A i \in 1..(n + m) : i \in 1..n \/ \E j \in 1..m : i = n + j
  <2> SUFFICES ASSUME NEW i \in 1..(n + m), i \notin 1..n PROVE \E j \in 1..m : i = n + j
    OBVIOUS
  <2>1. i - n \in 1..m /\ i = n + (i - n)
    BY <1>1
  <2> QED
    BY <2>1
<1>6. SubSeq(c, n + 1, n + m) = b
  <2> DEFINE d == SubSeq(c, n + 1, n + m)
  <2>1. n + 1 \in Int /\ n + m \in Int /\ \A i \in (n + 1)..(n + m) : i \in 1..(n + m)
    BY <1>1
  <2>2. \A i \in (n + 1)..(n + m) : c[i] \in S
    BY <1>2, <2>1
  <2>3. /\ d \in Seq(S) /\ Len(d) = (IF n + 1 <= n + m THEN (n + m) - (n + 1) + 1 ELSE 0)
        /\ \A i \in 1..((n + m) - (n + 1) + 1) : d[i] = c[(n + 1) + i - 1]
    BY <2>1, <2>2, SubSeqProperties
  <2>4. /\ (IF n + 1 <= n + m THEN (n + m) - (n + 1) + 1 ELSE 0) = m
        /\ (n + m) - (n + 1) + 1 = m /\ \A i \in 1..m : (n + 1) + i - 1 = n + i
    BY <1>1
  <2> HIDE DEF d
  <2>5. Len(d) = Len(b) /\ \A i \in 1..Len(d) : d[i] = b[i]
    BY <1>4, <2>3, <2>4 DEF m
  <2>6. d = b
    BY <2>3, <2>5, SeqEqual
  <2> QED
    BY <2>6 DEF d
<1> QED
  BY <1>1, <1>2, <1>3, <1>4, <1>5, <1>6 DEF n, m, c

(***************************************************************************)
(* Bytes at a place in what a reader has.                                  *)
(***************************************************************************)
Yes == CHOOSE z : z = TRUE
Rec(B, a, z, x) == [bytes |-> B, at |-> a, ok |-> z, val |-> x]
R(B, a, x) == Rec(B, a, Yes, x)
Moved(r, n) == [r EXCEPT !.at = @ + n]
Valued(r, y) == [r EXCEPT !.val = y]
There(B, a, b) ==
    /\ B \in Seq(Byte) /\ Len(B) <= MaxSnapshot /\ a \in Nat /\ a + Len(b) <= Len(B)
    /\ \A k \in 1..Len(b) : B[a + k] = b[k]

LEMMA RecIs ==
    ASSUME NEW B, NEW a, NEW z, NEW x
    PROVE  /\ Rec(B, a, z, x).bytes = B /\ Rec(B, a, z, x).at = a
           /\ Rec(B, a, z, x).ok = z /\ Rec(B, a, z, x).val = x
BY DEF Rec

LEMMA RecValued ==
    ASSUME NEW B, NEW a, NEW z, NEW x, NEW y
    PROVE  Valued(Rec(B, a, z, x), y) = Rec(B, a, z, y)
BY DEF Rec, Valued

LEMMA RecMoved ==
    ASSUME NEW B, NEW a, NEW z, NEW x, NEW n
    PROVE  Moved(Rec(B, a, z, x), n) = Rec(B, a + n, z, x)
<1>1. \A d : [Rec(B, a, z, x) EXCEPT !.at = d] = Rec(B, d, z, x)
  BY DEF Rec
<1>2. Rec(B, a, z, x).at + n = a + n
  BY DEF Rec
<1> QED
  BY <1>1, <1>2 DEF Moved

LEMMA RecAccept ==
    ASSUME NEW B, NEW a, NEW z, NEW x, NEW n, NEW y
    PROVE  Accept(Rec(B, a, z, x), n, y) = Rec(B, a + n, z, y)
<1>1. \A d : [Rec(B, a, z, x) EXCEPT !.at = d] = Rec(B, d, z, x)
  BY DEF Rec
<1>2. \A e : [Rec(B, e, z, x) EXCEPT !.val = y] = Rec(B, e, z, y)
  BY DEF Rec
<1>3. \A d : [Rec(B, a, z, x) EXCEPT !.at = d, !.val = y] = Rec(B, d, z, y)
  BY <1>1, <1>2
<1>4. Rec(B, a, z, x).at + n = a + n
  BY DEF Rec
<1> QED
  BY <1>3, <1>4 DEF Accept

LEMMA RParts ==
    ASSUME NEW B, NEW a, NEW x
    PROVE  R(B, a, x).bytes = B /\ R(B, a, x).at = a /\ R(B, a, x).ok /\ R(B, a, x).val = x
<1>1. /\ Rec(B, a, Yes, x).bytes = B /\ Rec(B, a, Yes, x).at = a
      /\ Rec(B, a, Yes, x).ok = Yes /\ Rec(B, a, Yes, x).val = x
  BY RecIs
<1>2. Yes = TRUE
  BY Zenon DEF Yes
<1> QED
  BY <1>1, <1>2, Zenon DEF R

LEMMA ValuedIs ==
    ASSUME NEW B, NEW a, NEW x, NEW y
    PROVE  [R(B, a, x) EXCEPT !.val = y] = R(B, a, y)
BY RecValued DEF R, Valued

LEMMA MovedIs ==
    ASSUME NEW B, NEW a, NEW x, NEW n
    PROVE  [R(B, a, x) EXCEPT !.at = @ + n] = R(B, a + n, x)
BY RecMoved DEF R, Moved

LEMMA AcceptIs ==
    ASSUME NEW B, NEW a, NEW x, NEW n, NEW y
    PROVE  Accept(R(B, a, x), n, y) = R(B, a + n, y)
BY RecAccept DEF R

LEMMA ReaderIs == ASSUME NEW B PROVE Reader(B) = R(B, 0, <<>>)
BY Zenon DEF Reader, R, Rec, Yes

LEMMA AtConcat ==
    ASSUME NEW B, NEW a, NEW p \in Seq(Byte), NEW q \in Seq(Byte), There(B, a, p \o q)
    PROVE  There(B, a, p) /\ There(B, a + Len(p), q)
<1>1. /\ Len(p \o q) = Len(p) + Len(q) /\ Len(p) \in Nat /\ Len(q) \in Nat
      /\ \A i \in 1..Len(p) : (p \o q)[i] = p[i]
      /\ \A i \in 1..Len(q) : (p \o q)[Len(p) + i] = q[i]
  <2> DEFINE S == Byte
  <2>1. p \in Seq(S) /\ q \in Seq(S)
    OBVIOUS
  <2> HIDE DEF S
  <2> QED
    BY <2>1, ConcatParts
<1> DEFINE m == Len(p)
           n == Len(q)
           c == p \o q
<1>2. m \in Nat /\ n \in Nat /\ Len(c) = m + n /\ a \in Nat
  BY <1>1 DEF There
<1>3. /\ B \in Seq(Byte) /\ Len(B) <= MaxSnapshot /\ Len(B) \in Nat /\ a + (m + n) <= Len(B)
      /\ \A k \in 1..(m + n) : B[a + k] = c[k]
  BY <1>2 DEF There
<1>4. (\A i \in 1..m : c[i] = p[i]) /\ \A i \in 1..n : c[m + i] = q[i]
  BY <1>1
<1> HIDE DEF m, n, c
<1>5. a + m \in Nat /\ a + m <= Len(B) /\ (a + m) + n <= Len(B)
  BY <1>2, <1>3
<1>6. \A k \in 1..m : B[a + k] = p[k]
  BY <1>2, <1>3, <1>4
<1>7. ASSUME NEW k \in 1..n PROVE B[(a + m) + k] = q[k]
  <2>1. m + k \in 1..(m + n) /\ a + (m + k) = (a + m) + k
    BY <1>2
  <2> QED
    BY <1>3, <1>4, <2>1
<1> QED
  BY <1>2, <1>3, <1>5, <1>6, <1>7 DEF There, m, n

LEMMA TookIs ==
    ASSUME NEW B, NEW a, NEW x, NEW b \in Seq(Byte), There(B, a, b)
    PROVE  Took(R(B, a, x), Len(b)) = b
<1> DEFINE n == Len(b)
<1>1. n \in Nat /\ B \in Seq(Byte) /\ a \in Nat /\ a + n <= Len(B) /\ Len(B) \in Nat
  BY DEF There
<1>2. \A k \in 1..n : B[a + k] = b[k]
  BY DEF There
<1>3. b = [k \in 1..n |-> b[k]]
  OBVIOUS
<1>4. Took(R(B, a, x), n) = SubSeq(B, a + 1, a + n)
  <2>1. R(B, a, x).bytes = B /\ R(B, a, x).at = a
    BY RParts
  <2> QED
    BY <2>1, Zenon DEF Took
<1> HIDE DEF n
<1>5. SubSeq(B, a + 1, a + n) = [k \in 1..n |-> B[a + k]]
  <2>1. SubSeq(B, a + 1, a + n) = [k \in 1..((a + n) - (a + 1) + 1) |-> B[k + (a + 1) - 1]]
    BY <1>1
  <2>2. (a + n) - (a + 1) + 1 = n /\ \A k \in 1..n : k + (a + 1) - 1 = a + k
    BY <1>1
  <2> QED
    BY <2>1, <2>2
<1> QED
  BY <1>2, <1>3, <1>4, <1>5 DEF n

LEMMA Places ==
    ASSUME NEW n \in Nat, NEW ss \in Blocks(n, Byte), NEW B, NEW a, There(B, a, FlattenSeq(ss))
    PROVE  /\ FlattenSeq(ss) \in Seq(Byte)
           /\ \E off \in [0..n -> Nat] :
                 /\ off[0] = a /\ off[n] = a + Len(FlattenSeq(ss))
                 /\ \A i \in 1..n : off[i] = off[i - 1] + Len(ss[i]) /\ There(B, off[i - 1], ss[i])
<1>1. PICK g \in [0..n -> Seq(Byte)] : /\ g[0] = <<>> /\ FlattenSeq(ss) = g[n]
                                      /\ \A i \in 1..n : g[i] = g[i - 1] \o ss[i]
  <2>1. Flattened(n, ss, Byte)
    BY FlattenIs
  <2> QED
    BY <2>1 DEF Flattened
<1> DEFINE T == {k \in Nat : k <= n => There(B, a, g[n - k])}
<1>2. 0 \in T
  BY <1>1
<1>3. ASSUME NEW k \in T PROVE k + 1 \in T
  <2> SUFFICES ASSUME k + 1 <= n PROVE There(B, a, g[n - (k + 1)])
    OBVIOUS
  <2>1. n - k \in 1..n /\ (n - k) - 1 = n - (k + 1) /\ n - (k + 1) \in 0..n
    OBVIOUS
  <2>2. There(B, a, g[n - k])
    OBVIOUS
  <2> DEFINE p == g[n - (k + 1)]
             q == ss[n - k]
  <2>3. p \in Seq(Byte) /\ q \in Seq(Byte) /\ g[n - k] = p \o q
    BY <1>1, <2>1 DEF Blocks
  <2> HIDE DEF p, q
  <2>4. There(B, a, p)
    BY <2>2, <2>3, AtConcat
  <2> QED
    BY <2>4 DEF p
<1>4. T = Nat
  <2> HIDE DEF T
  <2>1. T \in SUBSET Nat
    BY DEF T
  <2> QED
    BY <1>2, <1>3, <2>1, Induction
<1>5. ASSUME NEW i \in 0..n PROVE There(B, a, g[i])
  <2>1. n - i \in Nat /\ n - i <= n /\ n - (n - i) = i
    OBVIOUS
  <2>2. n - i \in T
    <3> HIDE DEF T
    <3> QED
      BY <1>4, <2>1
  <2>3. There(B, a, g[n - (n - i)])
    BY <2>1, <2>2
  <2> QED
    BY <2>1, <2>3
<1> DEFINE off == [i \in 0..n |-> a + Len(g[i])]
<1>6. a \in Nat /\ \A i \in 0..n : Len(g[i]) \in Nat
  BY <1>1 DEF There
<1>7. off \in [0..n -> Nat] /\ off[n] = a + Len(FlattenSeq(ss))
  BY <1>1, <1>6
<1>8. off[0] = a
  <2>1. Len(g[0]) = 0
    BY <1>1
  <2> QED
    BY <1>6, <2>1
<1>9. ASSUME NEW i \in 1..n
      PROVE  off[i] = off[i - 1] + Len(ss[i]) /\ There(B, off[i - 1], ss[i])
  <2> DEFINE p == g[i - 1]
             q == ss[i]
  <2>1. i - 1 \in 0..n /\ i \in 0..n
    OBVIOUS
  <2>2. p \in Seq(Byte) /\ q \in Seq(Byte) /\ g[i] = p \o q
    BY <1>1, <2>1 DEF Blocks
  <2>3. off[i - 1] = a + Len(p) /\ off[i] = a + Len(p \o q) /\ There(B, a, p \o q)
    BY <1>5, <2>1, <2>2
  <2> HIDE DEF p, q, off
  <2>4. There(B, a + Len(p), q) /\ Len(p \o q) = Len(p) + Len(q) /\ Len(p) \in Nat /\ Len(q) \in Nat
    BY <2>2, <2>3, AtConcat, ConcatParts
  <2>5. off[i] = off[i - 1] + Len(q)
    BY <1>6, <2>3, <2>4
  <2>6. There(B, off[i - 1], q)
    BY <2>3, <2>4
  <2> QED
    BY <2>5, <2>6 DEF q
<1>10. FlattenSeq(ss) \in Seq(Byte)
  BY <1>1
<1> HIDE DEF off
<1>11. \A i \in 1..n : off[i] = off[i - 1] + Len(ss[i]) /\ There(B, off[i - 1], ss[i])
  BY <1>9
<1> HIDE DEF T
<1> QED
  BY <1>7, <1>8, <1>10, <1>11

(***************************************************************************)
(* Fields that hold no others.                                             *)
(***************************************************************************)
Numbers == {"uint", "int", "enum", "color"}
GoodBasic(f) ==
    /\ f.kind \in Numbers \union {"text", "blob"} /\ f.width \in 1..Widest
    /\ f.kind \in {"enum"} => f.width = 1 /\ f.top \in 0..255
    /\ f.kind \in {"color", "blob"} => f.width = 4
    /\ f.kind = "text" => f.width = 2
    /\ f.kind = "blob" => f.cap \in Nat

LEMMA NumberHeld ==
    ASSUME NEW f, GoodBasic(f), f.kind \in Numbers, NEW v, FitsBasic(f, v)
    PROVE  v \in Int /\ Holds(v, f.width, f.kind = "int") /\ Sane(f, v)
<1>1. CASE f.kind = "uint"
  BY <1>1 DEF FitsBasic, Holds, Sane
<1>2. CASE f.kind = "int"
  BY <1>2 DEF FitsBasic, Holds, Sane
<1>3. CASE f.kind = "enum"
  <2>1. v \in 0..f.top /\ f.top \in 0..255 /\ f.width = 1
    BY <1>3 DEF FitsBasic, GoodBasic
  <2>2. v \in Int /\ v >= 0 /\ v <= 255 /\ v <= f.top
    BY <2>1
  <2>3. Rest(v, 1) = Rest(v, 0) \div 256 /\ Rest(v, 0) = v
    BY <2>2, RestIs DEF Widest
  <2>4. Rest(v, 1) = 0
    BY <2>2, <2>3
  <2> QED
    BY <1>3, <2>1, <2>2, <2>4 DEF Holds, Sane
<1>4. CASE f.kind = "color"
  <2>1. v \in Nat /\ SaneColor(v) /\ f.width = 4
    BY <1>4 DEF FitsBasic, GoodBasic
  <2>2. /\ Rest(v, 0) = v /\ Rest(v, 1) = Rest(v, 0) \div 256 /\ Rest(v, 2) = Rest(v, 1) \div 256
        /\ Rest(v, 3) = Rest(v, 2) \div 256 /\ Rest(v, 4) = Rest(v, 3) \div 256
    BY <2>1, RestIs DEF Widest
  <2>3. v < 50331648
    BY <2>1 DEF SaneColor
  <2>4. Rest(v, 4) = 0
    BY <2>1, <2>2, <2>3
  <2> QED
    BY <1>4, <2>1, <2>4 DEF Holds, Sane
<1> QED
  BY <1>1, <1>2, <1>3, <1>4 DEF Numbers

\* What a length field can hold.
LEMMA LengthHeld ==
    ASSUME NEW n \in Nat
    PROVE  /\ n <= MaxText => Holds(n, 2, FALSE)
           /\ n <= MaxSnapshot => Holds(n, 4, FALSE)
<1>1. ASSUME NEW m \in Nat
      PROVE  /\ Rest(m, 0) = m /\ Rest(m, 1) = Rest(m, 0) \div 256 /\ Rest(m, 2) = Rest(m, 1) \div 256
             /\ Rest(m, 3) = Rest(m, 2) \div 256 /\ Rest(m, 4) = Rest(m, 3) \div 256
  BY RestIs DEF Widest
<1>2. ASSUME NEW m \in Nat PROVE Rest(m, 2) = 0 <=> m < 65536
  BY <1>1
<1>3. ASSUME NEW m \in Nat PROVE Rest(m, 4) = 0 <=> m < 4294967296
  BY <1>1
<1>4. MaxText \in Nat /\ MaxText < 65536 /\ MaxSnapshot \in Nat /\ MaxSnapshot < 4294967296
  BY <1>2, <1>3, CapAssumption
<1> QED
  BY <1>2, <1>3, <1>4 DEF Holds

\* A number is read as it was written, and what is counted follows its count.
LEMMA TakeNumber ==
    ASSUME NEW f, f.width \in 1..Widest, NEW v \in Int, Holds(v, f.width, f.kind = "int"),
           NEW B, NEW a, NEW x, There(B, a, Bytes(v, f.width))
    PROVE  /\ GetBasic(R(B, a, x), f) = TakeBasic(R(B, a, x), f, v)
           /\ Remaining(R(B, a, x)) \in Nat /\ Remaining(R(B, a, x)) >= f.width
           /\ Len(Bytes(v, f.width)) = f.width /\ Bytes(v, f.width) \in Seq(Byte)
<1> DEFINE b == Bytes(v, f.width)
           w == f.width
           signed == f.kind = "int"
<1>1. w \in 0..Widest /\ w \in Nat /\ signed \in BOOLEAN
  BY DEF Widest
<1>2. b \in Seq(Byte) /\ Len(b) = w
  BY <1>1, BytesType
<1>3. Number(b, signed) = v
  BY <1>1, NumberBytes
<1>4. Took(R(B, a, x), w) = b
  <2> HIDE DEF b
  <2> QED
    BY <1>2, TookIs DEF b
<1>5. a \in Nat /\ Len(B) \in Nat /\ a + w <= Len(B)
  BY <1>1, <1>2 DEF There
<1>6. Remaining(R(B, a, x)) = Len(B) - a
  BY RParts DEF Remaining
<1> QED
  BY <1>1, <1>2, <1>3, <1>4, <1>5, <1>6 DEF GetBasic

\* How many bytes a field is at least, and how many when it is no longer than that.
Floor(f) == IF f.kind \in {"cells", "list"} THEN 4 ELSE f.width

LEMMA BasicPut ==
    ASSUME NEW f, GoodBasic(f), NEW v, FitsBasic(f, v)
    PROVE  /\ PutBasic(f, v) \in Seq(Byte) /\ Len(PutBasic(f, v)) >= f.width
           /\ f.kind \in Numbers => PutBasic(f, v) = Bytes(v, f.width) /\ Len(PutBasic(f, v)) = f.width
           /\ f.kind \in {"text", "blob"} =>
                 /\ v \in Seq(Byte) /\ Len(v) \in Nat
                 /\ PutBasic(f, v) = Bytes(Len(v), f.width) \o v
                 /\ Len(PutBasic(f, v)) = f.width + Len(v)
<1>1. f.width \in 0..Widest /\ f.width \in Nat
  BY DEF GoodBasic, Widest
<1>2. CASE f.kind \in Numbers
  <2>1. v \in Int
    BY <1>2, NumberHeld
  <2>2. PutBasic(f, v) = Bytes(v, f.width)
    BY <1>2 DEF PutBasic, Numbers
  <2>3. Bytes(v, f.width) \in Seq(Byte) /\ Len(Bytes(v, f.width)) = f.width
    BY <1>1, <2>1, BytesType
  <2>4. f.kind \notin {"text", "blob"}
    BY <1>2 DEF Numbers
  <2> QED
    BY <1>1, <2>2, <2>3, <2>4
<1>3. CASE f.kind \in {"text", "blob"}
  <2>1. f.kind \notin Numbers
    BY <1>3 DEF Numbers
  <2>2. v \in Seq(Byte) /\ (f.kind = "text" => Len(v) <= MaxText)
    BY <1>3 DEF FitsBasic, Byte
  <2>3. PutBasic(f, v) = Bytes(Len(v), f.width) \o v
    <3>1. CASE f.kind = "text"
      <4>1. ~(Len(v) > MaxText)
        BY <2>2, <3>1, CapAssumption
      <4> QED
        BY <3>1, <4>1 DEF PutBasic, GoodBasic
    <3>2. CASE f.kind = "blob"
      BY <3>2 DEF PutBasic, GoodBasic
    <3> QED
      BY <1>3, <3>1, <3>2
  <2> DEFINE n == Len(v)
             b == Bytes(n, f.width)
  <2>4. n \in Nat
    BY <2>2
  <2>5. b \in Seq(Byte) /\ Len(b) = f.width
    BY <1>1, <2>4, BytesType
  <2>6. PutBasic(f, v) = b \o v
    BY <2>3
  <2> HIDE DEF b
  <2> DEFINE S == Byte
  <2>7. b \in Seq(S) /\ v \in Seq(S)
    BY <2>2, <2>5
  <2>8. b \o v \in Seq(S) /\ Len(b \o v) = Len(b) + Len(v)
    <3> HIDE DEF S, n
    <3> QED
      BY <2>7, ConcatProperties
  <2> QED
    BY <1>1, <2>1, <2>2, <2>3, <2>4, <2>5, <2>6, <2>8
<1> QED
  BY <1>2, <1>3 DEF GoodBasic

LEMMA BasicGet ==
    ASSUME NEW f, GoodBasic(f), NEW v, FitsBasic(f, v), NEW B, NEW a, NEW x, There(B, a, PutBasic(f, v))
    PROVE  GetBasic(R(B, a, x), f) = R(B, a + Len(PutBasic(f, v)), v)
<1> DEFINE r == R(B, a, x)
           w == f.width
<1>1. w \in 1..Widest /\ w \in Nat /\ a \in Nat /\ Len(B) \in Nat
  BY DEF GoodBasic, Widest, There
<1>2. r.ok /\ \A n \in Nat : \A y : Accept(r, n, y) = R(B, a + n, y)
  BY RParts, AcceptIs
<1>3. CASE f.kind \in Numbers
  <2>1. v \in Int /\ Holds(v, w, f.kind = "int") /\ Sane(f, v)
    BY <1>3, NumberHeld
  <2>2. PutBasic(f, v) = Bytes(v, w) /\ Len(PutBasic(f, v)) = w
    BY <1>3, BasicPut
  <2>3. There(B, a, Bytes(v, w))
    BY <2>2
  <2>4. GetBasic(r, f) = TakeBasic(r, f, v) /\ Remaining(r) \in Nat /\ Remaining(r) >= w
    BY <1>1, <2>1, <2>3, TakeNumber
  <2>5. f.kind \notin {"text", "blob"} /\ ~(Remaining(r) < w)
    BY <1>1, <1>3, <2>4 DEF Numbers
  <2>6. TakeBasic(r, f, v) = Accept(r, w, v)
    <3> HIDE DEF r
    <3> QED
      BY <1>1, <1>2, <2>1, <2>5 DEF TakeBasic
  <2> QED
    BY <1>2, <2>2, <2>4, <2>6
<1>4. CASE f.kind \in {"text", "blob"}
  <2> DEFINE n == Len(v)
             b == Bytes(n, w)
  <2>1. /\ v \in Seq(Byte) /\ n \in Nat /\ PutBasic(f, v) = b \o v /\ Len(PutBasic(f, v)) = w + n
    BY <1>4, BasicPut
  <2>2. b \in Seq(Byte) /\ Len(b) = w
    <3>1. w \in 0..Widest /\ n \in Int
      BY <1>1, <2>1
    <3> QED
      BY <3>1, BytesType
  <2>3. a + (w + n) <= Len(B) /\ Len(B) <= MaxSnapshot
    BY <2>1 DEF There
  <2>4. There(B, a, b) /\ There(B, a + w, v)
    <3> HIDE DEF b
    <3>1. There(B, a, b \o v)
      BY <2>1
    <3> QED
      BY <2>1, <2>2, <3>1, AtConcat
  <2>5. Holds(n, w, f.kind = "int") /\ Sane(f, n)
    <3>1. CASE f.kind = "text"
      <4>1. w = 2 /\ n <= MaxText
        BY <3>1 DEF GoodBasic, FitsBasic
      <4>2. Holds(n, 2, FALSE)
        BY <2>1, <4>1, LengthHeld
      <4> QED
        BY <3>1, <4>1, <4>2 DEF Sane
    <3>2. CASE f.kind = "blob"
      <4>1. w = 4 /\ n <= f.cap
        BY <3>2 DEF GoodBasic, FitsBasic
      <4>2. n <= MaxSnapshot
        BY <1>1, <2>1, <2>3, CapAssumption
      <4>3. Holds(n, 4, FALSE)
        BY <2>1, <4>2, LengthHeld
      <4> QED
        BY <3>2, <4>1, <4>3 DEF Sane
    <3> QED
      BY <1>4, <3>1, <3>2
  <2>6. GetBasic(r, f) = TakeBasic(r, f, n) /\ Remaining(r) \in Nat /\ Remaining(r) >= w
    BY <1>1, <2>1, <2>4, <2>5, TakeNumber
  <2>7. ~(Remaining(r) < w) /\ ~(Remaining(r) - w < n)
    <3>1. Remaining(r) = Len(B) - a
      BY RParts DEF Remaining
    <3> QED
      BY <1>1, <2>1, <2>3, <3>1
  <2>8. Took([r EXCEPT !.at = @ + w], n) = v
    <3>1. [r EXCEPT !.at = @ + w] = R(B, a + w, x)
      BY MovedIs
    <3> QED
      BY <2>1, <2>4, <3>1, TookIs
  <2>9. TakeBasic(r, f, n) = Accept(r, w + n, v)
    <3> HIDE DEF r, n
    <3> QED
      BY <1>2, <1>4, <2>5, <2>7, <2>8 DEF TakeBasic
  <2> QED
    BY <1>2, <2>1, <2>6, <2>9
<1> QED
  BY <1>3, <1>4 DEF GoodBasic

(***************************************************************************)
(* One field after another.                                                *)
(***************************************************************************)
Values(vs, i) == [j \in 1..i |-> vs[j]]

LEMMA ValuesAppend ==
    ASSUME NEW vs, NEW i \in Nat
    PROVE  Append(Values(vs, i), vs[i + 1]) = Values(vs, i + 1)
<1> DEFINE S == {vs[j] : j \in 1..(i + 1)}
           s == Values(vs, i)
           t == Values(vs, i + 1)
           e == vs[i + 1]
<1>1. e \in S /\ \A j \in 1..i : vs[j] \in S
  OBVIOUS
<1>2. \A j \in 1..(i + 1) : vs[j] \in S
  OBVIOUS
<1> HIDE DEF S
<1>3. s \in Seq(S) /\ Len(s) = i /\ \A j \in 1..i : s[j] = vs[j]
  BY <1>1 DEF Values
<1>4. t \in Seq(S) /\ Len(t) = i + 1 /\ \A j \in 1..(i + 1) : t[j] = vs[j]
  BY <1>2 DEF Values
<1>5. /\ Append(s, e) \in Seq(S) /\ Len(Append(s, e)) = Len(s) + 1
      /\ \A j \in 1..Len(s) : Append(s, e)[j] = s[j] /\ Append(s, e)[Len(s) + 1] = e
  <2> HIDE DEF s, e
  <2> QED
    BY <1>1, <1>3, AppendProperties
<1>6. Append(s, e)[i + 1] = e
  <2> HIDE DEF s, e
  <2> QED
    BY <1>1, <1>3, AppendProperties
<1> DEFINE u == Append(s, e)
<1>7. Len(u) = i + 1 /\ u \in Seq(S) /\ \A j \in 1..i : u[j] = vs[j]
  BY <1>3, <1>5
<1>8. u[i + 1] = vs[i + 1]
  BY <1>6
<1> HIDE DEF u, s, t, e
<1>9. \A j \in 1..(i + 1) : u[j] = t[j]
  BY <1>4, <1>7, <1>8
<1>10. u = t
  BY <1>4, <1>7, <1>9, SeqEqual
<1> QED
  BY <1>10 DEF u, s, t, e


\* A reader goes through blocks one after another, with what it has read so far.
Turned(h, n, ss, vs, B, a) ==
    /\ h = [i \in 0..n |-> h[i]]
    /\ h[0] = R(B, a, <<>>) /\ h[n] = R(B, a + Len(FlattenSeq(ss)), Values(vs, n))
    /\ \A i \in 1..n : \E e : /\ There(B, e, ss[i])
                              /\ h[i - 1] = R(B, e, Values(vs, i - 1))
                              /\ h[i] = R(B, e + Len(ss[i]), Values(vs, i))

LEMMA InTurn ==
    ASSUME NEW n \in Nat, NEW ss \in Blocks(n, Byte), NEW vs,
           NEW B, NEW a, There(B, a, FlattenSeq(ss))
    PROVE  \E h : Turned(h, n, ss, vs, B, a)
<1>1. PICK off \in [0..n -> Nat] :
           /\ off[0] = a /\ off[n] = a + Len(FlattenSeq(ss))
           /\ \A i \in 1..n : off[i] = off[i - 1] + Len(ss[i]) /\ There(B, off[i - 1], ss[i])
  BY Places
<1> DEFINE h == [i \in 0..n |-> R(B, off[i], Values(vs, i))]
<1>2. \A i \in 0..n : h[i] = R(B, off[i], Values(vs, i))
  OBVIOUS
<1>3. h = [i \in 0..n |-> h[i]]
  OBVIOUS
<1> HIDE DEF h
<1>4. Values(vs, 0) = <<>>
  BY DEF Values
<1>5. h[0] = R(B, a, <<>>) /\ h[n] = R(B, a + Len(FlattenSeq(ss)), Values(vs, n))
  BY <1>1, <1>2, <1>4
<1>6. ASSUME NEW i \in 1..n
      PROVE  /\ There(B, off[i - 1], ss[i]) /\ h[i - 1] = R(B, off[i - 1], Values(vs, i - 1))
             /\ h[i] = R(B, off[i - 1] + Len(ss[i]), Values(vs, i))
  <2>1. i - 1 \in 0..n /\ i \in 0..n
    OBVIOUS
  <2> QED
    BY <1>1, <1>2, <2>1
<1> QED
  BY <1>3, <1>5, <1>6 DEF Turned

Appended(s, r) == [r EXCEPT !.val = Append(s, @)]

LEMMA AppendRead ==
    ASSUME NEW B, NEW e, NEW vs, NEW i \in Nat \ {0}
    PROVE  Appended(Values(vs, i - 1), R(B, e, vs[i])) = R(B, e, Values(vs, i))
<1>1. i - 1 \in Nat /\ (i - 1) + 1 = i
  OBVIOUS
<1>2. Append(Values(vs, i - 1), vs[i]) = Values(vs, i)
  BY <1>1, ValuesAppend
<1> DEFINE r == R(B, e, vs[i])
<1>3. r.val = vs[i]
  BY RParts
<1>4. [r EXCEPT !.val = Values(vs, i)] = R(B, e, Values(vs, i))
  BY ValuedIs
<1> HIDE DEF r
<1>5. Appended(Values(vs, i - 1), r) = [r EXCEPT !.val = Values(vs, i)]
  BY <1>2, <1>3, Zenon DEF Appended
<1> QED
  BY <1>4, <1>5 DEF r


AllBasic(r, shape) == GetAll(GetBasic, r, shape)
ThenBasic(before, f) ==
    LET after == GetBasic(before, f)
    IN IF before.ok THEN [after EXCEPT !.val = Append(before.val, @)] ELSE before
TurnsBasic(r, shape, g) ==
    [i \in 0..Len(shape) |-> IF i = 0 THEN [r EXCEPT !.val = <<>>] ELSE ThenBasic(g[i - 1], shape[i])]

LEMMA AllBasicIs ==
    ASSUME NEW n \in Nat, NEW shape, Len(shape) = n, NEW ss \in Blocks(n, Byte), NEW vs,
           NEW B, NEW a, NEW x, There(B, a, FlattenSeq(ss)),
           \A i \in 1..n : \A e, y :
               There(B, e, ss[i]) => GetBasic(R(B, e, y), shape[i]) = R(B, e + Len(ss[i]), vs[i])
    PROVE  AllBasic(R(B, a, x), shape) = R(B, a + Len(FlattenSeq(ss)), Values(vs, n))
<1>0. PICK h : Turned(h, n, ss, vs, B, a)
  BY InTurn
<1>1. /\ h = [i \in 0..n |-> h[i]]
      /\ h[0] = R(B, a, <<>>) /\ h[n] = R(B, a + Len(FlattenSeq(ss)), Values(vs, n))
      /\ \A i \in 1..n : \E e : /\ There(B, e, ss[i])
                                /\ h[i - 1] = R(B, e, Values(vs, i - 1))
                                /\ h[i] = R(B, e + Len(ss[i]), Values(vs, i))
  BY <1>0 DEF Turned
<1> DEFINE r == R(B, a, x)
           first == [r EXCEPT !.val = <<>>]
           c == CHOOSE g : g = TurnsBasic(r, shape, g)
<1>2. AllBasic(r, shape) = c[n]
  BY Zenon DEF AllBasic, GetAll, TurnsBasic, ThenBasic
<1>3. first = h[0]
  BY <1>1, ValuedIs
<1>4. ASSUME NEW i \in 1..n PROVE ThenBasic(h[i - 1], shape[i]) = h[i]
  <2>1. PICK e : /\ There(B, e, ss[i]) /\ h[i - 1] = R(B, e, Values(vs, i - 1))
                 /\ h[i] = R(B, e + Len(ss[i]), Values(vs, i))
    BY <1>1
  <2> DEFINE before == R(B, e, Values(vs, i - 1))
             after == R(B, e + Len(ss[i]), vs[i])
  <2>2. GetBasic(before, shape[i]) = after
    BY <2>1
  <2>3. before.ok /\ before.val = Values(vs, i - 1)
    BY RParts
  <2>4. Appended(Values(vs, i - 1), after) = R(B, e + Len(ss[i]), Values(vs, i))
    BY AppendRead
  <2> HIDE DEF before, after
  <2>5. ThenBasic(before, shape[i]) = Appended(Values(vs, i - 1), after)
    BY <2>2, <2>3, Zenon DEF ThenBasic, Appended
  <2> QED
    BY <2>1, <2>4, <2>5 DEF before
<1> HIDE DEF first, r, c
<1>5. \A g : TurnsBasic(r, shape, g)
               = [i \in 0..n |-> IF i = 0 THEN first ELSE ThenBasic(g[i - 1], shape[i])]
  BY Zenon DEF TurnsBasic, first
<1>6. h = TurnsBasic(r, shape, h)
  <2> DEFINE next(i) == IF i = 0 THEN first ELSE ThenBasic(h[i - 1], shape[i])
  <2>1. \A i \in 0..n : h[i] = next(i)
    BY <1>3, <1>4
  <2>2. TurnsBasic(r, shape, h) = [i \in 0..n |-> next(i)]
    BY <1>5
  <2> HIDE DEF next
  <2> QED
    BY <1>1, <2>1, <2>2
<1>7. c = TurnsBasic(r, shape, c)
  <2>1. \E g : g = TurnsBasic(r, shape, g)
    BY <1>6
  <2> QED
    BY <2>1, Zenon DEF c
<1>8. c[0] = h[0] /\ \A i \in 1..n : c[i] = ThenBasic(c[i - 1], shape[i])
  <2>1. \A i \in 0..n : c[i] = IF i = 0 THEN first ELSE ThenBasic(c[i - 1], shape[i])
    BY <1>5, <1>7
  <2> QED
    BY <1>3, <2>1
<1>9. \A i \in 1..n : c[i - 1] = h[i - 1] => c[i] = h[i]
  BY <1>4, <1>8
<1>10. c[n] = h[n]
  <2>1. c[0] = h[0]
    BY <1>8
  <2>2. \A i \in 0..n : c[i] = h[i]
    BY ONLY n \in Nat, <1>9, <2>1, Same
  <2> QED
    BY <2>2
<1> QED
  BY <1>1, <1>2, <1>10 DEF r

AllRun(r, shape) == GetAll(GetRun, r, shape)
ThenRun(before, f) ==
    LET after == GetRun(before, f)
    IN IF before.ok THEN [after EXCEPT !.val = Append(before.val, @)] ELSE before
TurnsRun(r, shape, g) ==
    [i \in 0..Len(shape) |-> IF i = 0 THEN [r EXCEPT !.val = <<>>] ELSE ThenRun(g[i - 1], shape[i])]

LEMMA AllRunIs ==
    ASSUME NEW n \in Nat, NEW shape, Len(shape) = n, NEW ss \in Blocks(n, Byte), NEW vs,
           NEW B, NEW a, NEW x, There(B, a, FlattenSeq(ss)),
           \A i \in 1..n : \A e, y :
               There(B, e, ss[i]) => GetRun(R(B, e, y), shape[i]) = R(B, e + Len(ss[i]), vs[i])
    PROVE  AllRun(R(B, a, x), shape) = R(B, a + Len(FlattenSeq(ss)), Values(vs, n))
<1>0. PICK h : Turned(h, n, ss, vs, B, a)
  BY InTurn
<1>1. /\ h = [i \in 0..n |-> h[i]]
      /\ h[0] = R(B, a, <<>>) /\ h[n] = R(B, a + Len(FlattenSeq(ss)), Values(vs, n))
      /\ \A i \in 1..n : \E e : /\ There(B, e, ss[i])
                                /\ h[i - 1] = R(B, e, Values(vs, i - 1))
                                /\ h[i] = R(B, e + Len(ss[i]), Values(vs, i))
  BY <1>0 DEF Turned
<1> DEFINE r == R(B, a, x)
           first == [r EXCEPT !.val = <<>>]
           c == CHOOSE g : g = TurnsRun(r, shape, g)
<1>2. AllRun(r, shape) = c[n]
  BY Zenon DEF AllRun, GetAll, TurnsRun, ThenRun
<1>3. first = h[0]
  BY <1>1, ValuedIs
<1>4. ASSUME NEW i \in 1..n PROVE ThenRun(h[i - 1], shape[i]) = h[i]
  <2>1. PICK e : /\ There(B, e, ss[i]) /\ h[i - 1] = R(B, e, Values(vs, i - 1))
                 /\ h[i] = R(B, e + Len(ss[i]), Values(vs, i))
    BY <1>1
  <2> DEFINE before == R(B, e, Values(vs, i - 1))
             after == R(B, e + Len(ss[i]), vs[i])
  <2>2. GetRun(before, shape[i]) = after
    BY <2>1
  <2>3. before.ok /\ before.val = Values(vs, i - 1)
    BY RParts
  <2>4. Appended(Values(vs, i - 1), after) = R(B, e + Len(ss[i]), Values(vs, i))
    BY AppendRead
  <2> HIDE DEF before, after
  <2>5. ThenRun(before, shape[i]) = Appended(Values(vs, i - 1), after)
    BY <2>2, <2>3, Zenon DEF ThenRun, Appended
  <2> QED
    BY <2>1, <2>4, <2>5 DEF before
<1> HIDE DEF first, r, c
<1>5. \A g : TurnsRun(r, shape, g)
               = [i \in 0..n |-> IF i = 0 THEN first ELSE ThenRun(g[i - 1], shape[i])]
  BY Zenon DEF TurnsRun, first
<1>6. h = TurnsRun(r, shape, h)
  <2> DEFINE next(i) == IF i = 0 THEN first ELSE ThenRun(h[i - 1], shape[i])
  <2>1. \A i \in 0..n : h[i] = next(i)
    BY <1>3, <1>4
  <2>2. TurnsRun(r, shape, h) = [i \in 0..n |-> next(i)]
    BY <1>5
  <2> HIDE DEF next
  <2> QED
    BY <1>1, <2>1, <2>2
<1>7. c = TurnsRun(r, shape, c)
  <2>1. \E g : g = TurnsRun(r, shape, g)
    BY <1>6
  <2> QED
    BY <2>1, Zenon DEF c
<1>8. c[0] = h[0] /\ \A i \in 1..n : c[i] = ThenRun(c[i - 1], shape[i])
  <2>1. \A i \in 0..n : c[i] = IF i = 0 THEN first ELSE ThenRun(c[i - 1], shape[i])
    BY <1>5, <1>7
  <2> QED
    BY <1>3, <2>1
<1>9. \A i \in 1..n : c[i - 1] = h[i - 1] => c[i] = h[i]
  BY <1>4, <1>8
<1>10. c[n] = h[n]
  <2>1. c[0] = h[0]
    BY <1>8
  <2>2. \A i \in 0..n : c[i] = h[i]
    BY ONLY n \in Nat, <1>9, <2>1, Same
  <2> QED
    BY <2>2
<1> QED
  BY <1>1, <1>2, <1>10 DEF r

AllPlain(r, shape) == GetAll(GetPlain, r, shape)
ThenPlain(before, f) ==
    LET after == GetPlain(before, f)
    IN IF before.ok THEN [after EXCEPT !.val = Append(before.val, @)] ELSE before
TurnsPlain(r, shape, g) ==
    [i \in 0..Len(shape) |-> IF i = 0 THEN [r EXCEPT !.val = <<>>] ELSE ThenPlain(g[i - 1], shape[i])]

LEMMA AllPlainIs ==
    ASSUME NEW n \in Nat, NEW shape, Len(shape) = n, NEW ss \in Blocks(n, Byte), NEW vs,
           NEW B, NEW a, NEW x, There(B, a, FlattenSeq(ss)),
           \A i \in 1..n : \A e, y :
               There(B, e, ss[i]) => GetPlain(R(B, e, y), shape[i]) = R(B, e + Len(ss[i]), vs[i])
    PROVE  AllPlain(R(B, a, x), shape) = R(B, a + Len(FlattenSeq(ss)), Values(vs, n))
<1>0. PICK h : Turned(h, n, ss, vs, B, a)
  BY InTurn
<1>1. /\ h = [i \in 0..n |-> h[i]]
      /\ h[0] = R(B, a, <<>>) /\ h[n] = R(B, a + Len(FlattenSeq(ss)), Values(vs, n))
      /\ \A i \in 1..n : \E e : /\ There(B, e, ss[i])
                                /\ h[i - 1] = R(B, e, Values(vs, i - 1))
                                /\ h[i] = R(B, e + Len(ss[i]), Values(vs, i))
  BY <1>0 DEF Turned
<1> DEFINE r == R(B, a, x)
           first == [r EXCEPT !.val = <<>>]
           c == CHOOSE g : g = TurnsPlain(r, shape, g)
<1>2. AllPlain(r, shape) = c[n]
  BY Zenon DEF AllPlain, GetAll, TurnsPlain, ThenPlain
<1>3. first = h[0]
  BY <1>1, ValuedIs
<1>4. ASSUME NEW i \in 1..n PROVE ThenPlain(h[i - 1], shape[i]) = h[i]
  <2>1. PICK e : /\ There(B, e, ss[i]) /\ h[i - 1] = R(B, e, Values(vs, i - 1))
                 /\ h[i] = R(B, e + Len(ss[i]), Values(vs, i))
    BY <1>1
  <2> DEFINE before == R(B, e, Values(vs, i - 1))
             after == R(B, e + Len(ss[i]), vs[i])
  <2>2. GetPlain(before, shape[i]) = after
    BY <2>1
  <2>3. before.ok /\ before.val = Values(vs, i - 1)
    BY RParts
  <2>4. Appended(Values(vs, i - 1), after) = R(B, e + Len(ss[i]), Values(vs, i))
    BY AppendRead
  <2> HIDE DEF before, after
  <2>5. ThenPlain(before, shape[i]) = Appended(Values(vs, i - 1), after)
    BY <2>2, <2>3, Zenon DEF ThenPlain, Appended
  <2> QED
    BY <2>1, <2>4, <2>5 DEF before
<1> HIDE DEF first, r, c
<1>5. \A g : TurnsPlain(r, shape, g)
               = [i \in 0..n |-> IF i = 0 THEN first ELSE ThenPlain(g[i - 1], shape[i])]
  BY Zenon DEF TurnsPlain, first
<1>6. h = TurnsPlain(r, shape, h)
  <2> DEFINE next(i) == IF i = 0 THEN first ELSE ThenPlain(h[i - 1], shape[i])
  <2>1. \A i \in 0..n : h[i] = next(i)
    BY <1>3, <1>4
  <2>2. TurnsPlain(r, shape, h) = [i \in 0..n |-> next(i)]
    BY <1>5
  <2> HIDE DEF next
  <2> QED
    BY <1>1, <2>1, <2>2
<1>7. c = TurnsPlain(r, shape, c)
  <2>1. \E g : g = TurnsPlain(r, shape, g)
    BY <1>6
  <2> QED
    BY <2>1, Zenon DEF c
<1>8. c[0] = h[0] /\ \A i \in 1..n : c[i] = ThenPlain(c[i - 1], shape[i])
  <2>1. \A i \in 0..n : c[i] = IF i = 0 THEN first ELSE ThenPlain(c[i - 1], shape[i])
    BY <1>5, <1>7
  <2> QED
    BY <1>3, <2>1
<1>9. \A i \in 1..n : c[i - 1] = h[i - 1] => c[i] = h[i]
  BY <1>4, <1>8
<1>10. c[n] = h[n]
  <2>1. c[0] = h[0]
    BY <1>8
  <2>2. \A i \in 0..n : c[i] = h[i]
    BY ONLY n \in Nat, <1>9, <2>1, Same
  <2> QED
    BY <2>2
<1> QED
  BY <1>1, <1>2, <1>10 DEF r

AllInnerEntry(r, shape) == GetAll(InnerEntry, r, shape)
ThenInnerEntry(before, f) ==
    LET after == InnerEntry(before, f)
    IN IF before.ok THEN [after EXCEPT !.val = Append(before.val, @)] ELSE before
TurnsInnerEntry(r, shape, g) ==
    [i \in 0..Len(shape) |-> IF i = 0 THEN [r EXCEPT !.val = <<>>] ELSE ThenInnerEntry(g[i - 1], shape[i])]

LEMMA AllInnerEntryIs ==
    ASSUME NEW n \in Nat, NEW shape, Len(shape) = n, NEW ss \in Blocks(n, Byte), NEW vs,
           NEW B, NEW a, NEW x, There(B, a, FlattenSeq(ss)),
           \A i \in 1..n : \A e, y :
               There(B, e, ss[i]) => InnerEntry(R(B, e, y), shape[i]) = R(B, e + Len(ss[i]), vs[i])
    PROVE  AllInnerEntry(R(B, a, x), shape) = R(B, a + Len(FlattenSeq(ss)), Values(vs, n))
<1>0. PICK h : Turned(h, n, ss, vs, B, a)
  BY InTurn
<1>1. /\ h = [i \in 0..n |-> h[i]]
      /\ h[0] = R(B, a, <<>>) /\ h[n] = R(B, a + Len(FlattenSeq(ss)), Values(vs, n))
      /\ \A i \in 1..n : \E e : /\ There(B, e, ss[i])
                                /\ h[i - 1] = R(B, e, Values(vs, i - 1))
                                /\ h[i] = R(B, e + Len(ss[i]), Values(vs, i))
  BY <1>0 DEF Turned
<1> DEFINE r == R(B, a, x)
           first == [r EXCEPT !.val = <<>>]
           c == CHOOSE g : g = TurnsInnerEntry(r, shape, g)
<1>2. AllInnerEntry(r, shape) = c[n]
  BY Zenon DEF AllInnerEntry, GetAll, TurnsInnerEntry, ThenInnerEntry
<1>3. first = h[0]
  BY <1>1, ValuedIs
<1>4. ASSUME NEW i \in 1..n PROVE ThenInnerEntry(h[i - 1], shape[i]) = h[i]
  <2>1. PICK e : /\ There(B, e, ss[i]) /\ h[i - 1] = R(B, e, Values(vs, i - 1))
                 /\ h[i] = R(B, e + Len(ss[i]), Values(vs, i))
    BY <1>1
  <2> DEFINE before == R(B, e, Values(vs, i - 1))
             after == R(B, e + Len(ss[i]), vs[i])
  <2>2. InnerEntry(before, shape[i]) = after
    BY <2>1
  <2>3. before.ok /\ before.val = Values(vs, i - 1)
    BY RParts
  <2>4. Appended(Values(vs, i - 1), after) = R(B, e + Len(ss[i]), Values(vs, i))
    BY AppendRead
  <2> HIDE DEF before, after
  <2>5. ThenInnerEntry(before, shape[i]) = Appended(Values(vs, i - 1), after)
    BY <2>2, <2>3, Zenon DEF ThenInnerEntry, Appended
  <2> QED
    BY <2>1, <2>4, <2>5 DEF before
<1> HIDE DEF first, r, c
<1>5. \A g : TurnsInnerEntry(r, shape, g)
               = [i \in 0..n |-> IF i = 0 THEN first ELSE ThenInnerEntry(g[i - 1], shape[i])]
  BY Zenon DEF TurnsInnerEntry, first
<1>6. h = TurnsInnerEntry(r, shape, h)
  <2> DEFINE next(i) == IF i = 0 THEN first ELSE ThenInnerEntry(h[i - 1], shape[i])
  <2>1. \A i \in 0..n : h[i] = next(i)
    BY <1>3, <1>4
  <2>2. TurnsInnerEntry(r, shape, h) = [i \in 0..n |-> next(i)]
    BY <1>5
  <2> HIDE DEF next
  <2> QED
    BY <1>1, <2>1, <2>2
<1>7. c = TurnsInnerEntry(r, shape, c)
  <2>1. \E g : g = TurnsInnerEntry(r, shape, g)
    BY <1>6
  <2> QED
    BY <2>1, Zenon DEF c
<1>8. c[0] = h[0] /\ \A i \in 1..n : c[i] = ThenInnerEntry(c[i - 1], shape[i])
  <2>1. \A i \in 0..n : c[i] = IF i = 0 THEN first ELSE ThenInnerEntry(c[i - 1], shape[i])
    BY <1>5, <1>7
  <2> QED
    BY <1>3, <2>1
<1>9. \A i \in 1..n : c[i - 1] = h[i - 1] => c[i] = h[i]
  BY <1>4, <1>8
<1>10. c[n] = h[n]
  <2>1. c[0] = h[0]
    BY <1>8
  <2>2. \A i \in 0..n : c[i] = h[i]
    BY ONLY n \in Nat, <1>9, <2>1, Same
  <2> QED
    BY <2>2
<1> QED
  BY <1>1, <1>2, <1>10 DEF r

AllInner(r, shape) == GetAll(GetInner, r, shape)
ThenInner(before, f) ==
    LET after == GetInner(before, f)
    IN IF before.ok THEN [after EXCEPT !.val = Append(before.val, @)] ELSE before
TurnsInner(r, shape, g) ==
    [i \in 0..Len(shape) |-> IF i = 0 THEN [r EXCEPT !.val = <<>>] ELSE ThenInner(g[i - 1], shape[i])]

LEMMA AllInnerIs ==
    ASSUME NEW n \in Nat, NEW shape, Len(shape) = n, NEW ss \in Blocks(n, Byte), NEW vs,
           NEW B, NEW a, NEW x, There(B, a, FlattenSeq(ss)),
           \A i \in 1..n : \A e, y :
               There(B, e, ss[i]) => GetInner(R(B, e, y), shape[i]) = R(B, e + Len(ss[i]), vs[i])
    PROVE  AllInner(R(B, a, x), shape) = R(B, a + Len(FlattenSeq(ss)), Values(vs, n))
<1>0. PICK h : Turned(h, n, ss, vs, B, a)
  BY InTurn
<1>1. /\ h = [i \in 0..n |-> h[i]]
      /\ h[0] = R(B, a, <<>>) /\ h[n] = R(B, a + Len(FlattenSeq(ss)), Values(vs, n))
      /\ \A i \in 1..n : \E e : /\ There(B, e, ss[i])
                                /\ h[i - 1] = R(B, e, Values(vs, i - 1))
                                /\ h[i] = R(B, e + Len(ss[i]), Values(vs, i))
  BY <1>0 DEF Turned
<1> DEFINE r == R(B, a, x)
           first == [r EXCEPT !.val = <<>>]
           c == CHOOSE g : g = TurnsInner(r, shape, g)
<1>2. AllInner(r, shape) = c[n]
  BY Zenon DEF AllInner, GetAll, TurnsInner, ThenInner
<1>3. first = h[0]
  BY <1>1, ValuedIs
<1>4. ASSUME NEW i \in 1..n PROVE ThenInner(h[i - 1], shape[i]) = h[i]
  <2>1. PICK e : /\ There(B, e, ss[i]) /\ h[i - 1] = R(B, e, Values(vs, i - 1))
                 /\ h[i] = R(B, e + Len(ss[i]), Values(vs, i))
    BY <1>1
  <2> DEFINE before == R(B, e, Values(vs, i - 1))
             after == R(B, e + Len(ss[i]), vs[i])
  <2>2. GetInner(before, shape[i]) = after
    BY <2>1
  <2>3. before.ok /\ before.val = Values(vs, i - 1)
    BY RParts
  <2>4. Appended(Values(vs, i - 1), after) = R(B, e + Len(ss[i]), Values(vs, i))
    BY AppendRead
  <2> HIDE DEF before, after
  <2>5. ThenInner(before, shape[i]) = Appended(Values(vs, i - 1), after)
    BY <2>2, <2>3, Zenon DEF ThenInner, Appended
  <2> QED
    BY <2>1, <2>4, <2>5 DEF before
<1> HIDE DEF first, r, c
<1>5. \A g : TurnsInner(r, shape, g)
               = [i \in 0..n |-> IF i = 0 THEN first ELSE ThenInner(g[i - 1], shape[i])]
  BY Zenon DEF TurnsInner, first
<1>6. h = TurnsInner(r, shape, h)
  <2> DEFINE next(i) == IF i = 0 THEN first ELSE ThenInner(h[i - 1], shape[i])
  <2>1. \A i \in 0..n : h[i] = next(i)
    BY <1>3, <1>4
  <2>2. TurnsInner(r, shape, h) = [i \in 0..n |-> next(i)]
    BY <1>5
  <2> HIDE DEF next
  <2> QED
    BY <1>1, <2>1, <2>2
<1>7. c = TurnsInner(r, shape, c)
  <2>1. \E g : g = TurnsInner(r, shape, g)
    BY <1>6
  <2> QED
    BY <2>1, Zenon DEF c
<1>8. c[0] = h[0] /\ \A i \in 1..n : c[i] = ThenInner(c[i - 1], shape[i])
  <2>1. \A i \in 0..n : c[i] = IF i = 0 THEN first ELSE ThenInner(c[i - 1], shape[i])
    BY <1>5, <1>7
  <2> QED
    BY <1>3, <2>1
<1>9. \A i \in 1..n : c[i - 1] = h[i - 1] => c[i] = h[i]
  BY <1>4, <1>8
<1>10. c[n] = h[n]
  <2>1. c[0] = h[0]
    BY <1>8
  <2>2. \A i \in 0..n : c[i] = h[i]
    BY ONLY n \in Nat, <1>9, <2>1, Same
  <2> QED
    BY <2>2
<1> QED
  BY <1>1, <1>2, <1>10 DEF r

AllFieldEntry(r, shape) == GetAll(FieldEntry, r, shape)
ThenFieldEntry(before, f) ==
    LET after == FieldEntry(before, f)
    IN IF before.ok THEN [after EXCEPT !.val = Append(before.val, @)] ELSE before
TurnsFieldEntry(r, shape, g) ==
    [i \in 0..Len(shape) |-> IF i = 0 THEN [r EXCEPT !.val = <<>>] ELSE ThenFieldEntry(g[i - 1], shape[i])]

LEMMA AllFieldEntryIs ==
    ASSUME NEW n \in Nat, NEW shape, Len(shape) = n, NEW ss \in Blocks(n, Byte), NEW vs,
           NEW B, NEW a, NEW x, There(B, a, FlattenSeq(ss)),
           \A i \in 1..n : \A e, y :
               There(B, e, ss[i]) => FieldEntry(R(B, e, y), shape[i]) = R(B, e + Len(ss[i]), vs[i])
    PROVE  AllFieldEntry(R(B, a, x), shape) = R(B, a + Len(FlattenSeq(ss)), Values(vs, n))
<1>0. PICK h : Turned(h, n, ss, vs, B, a)
  BY InTurn
<1>1. /\ h = [i \in 0..n |-> h[i]]
      /\ h[0] = R(B, a, <<>>) /\ h[n] = R(B, a + Len(FlattenSeq(ss)), Values(vs, n))
      /\ \A i \in 1..n : \E e : /\ There(B, e, ss[i])
                                /\ h[i - 1] = R(B, e, Values(vs, i - 1))
                                /\ h[i] = R(B, e + Len(ss[i]), Values(vs, i))
  BY <1>0 DEF Turned
<1> DEFINE r == R(B, a, x)
           first == [r EXCEPT !.val = <<>>]
           c == CHOOSE g : g = TurnsFieldEntry(r, shape, g)
<1>2. AllFieldEntry(r, shape) = c[n]
  BY Zenon DEF AllFieldEntry, GetAll, TurnsFieldEntry, ThenFieldEntry
<1>3. first = h[0]
  BY <1>1, ValuedIs
<1>4. ASSUME NEW i \in 1..n PROVE ThenFieldEntry(h[i - 1], shape[i]) = h[i]
  <2>1. PICK e : /\ There(B, e, ss[i]) /\ h[i - 1] = R(B, e, Values(vs, i - 1))
                 /\ h[i] = R(B, e + Len(ss[i]), Values(vs, i))
    BY <1>1
  <2> DEFINE before == R(B, e, Values(vs, i - 1))
             after == R(B, e + Len(ss[i]), vs[i])
  <2>2. FieldEntry(before, shape[i]) = after
    BY <2>1
  <2>3. before.ok /\ before.val = Values(vs, i - 1)
    BY RParts
  <2>4. Appended(Values(vs, i - 1), after) = R(B, e + Len(ss[i]), Values(vs, i))
    BY AppendRead
  <2> HIDE DEF before, after
  <2>5. ThenFieldEntry(before, shape[i]) = Appended(Values(vs, i - 1), after)
    BY <2>2, <2>3, Zenon DEF ThenFieldEntry, Appended
  <2> QED
    BY <2>1, <2>4, <2>5 DEF before
<1> HIDE DEF first, r, c
<1>5. \A g : TurnsFieldEntry(r, shape, g)
               = [i \in 0..n |-> IF i = 0 THEN first ELSE ThenFieldEntry(g[i - 1], shape[i])]
  BY Zenon DEF TurnsFieldEntry, first
<1>6. h = TurnsFieldEntry(r, shape, h)
  <2> DEFINE next(i) == IF i = 0 THEN first ELSE ThenFieldEntry(h[i - 1], shape[i])
  <2>1. \A i \in 0..n : h[i] = next(i)
    BY <1>3, <1>4
  <2>2. TurnsFieldEntry(r, shape, h) = [i \in 0..n |-> next(i)]
    BY <1>5
  <2> HIDE DEF next
  <2> QED
    BY <1>1, <2>1, <2>2
<1>7. c = TurnsFieldEntry(r, shape, c)
  <2>1. \E g : g = TurnsFieldEntry(r, shape, g)
    BY <1>6
  <2> QED
    BY <2>1, Zenon DEF c
<1>8. c[0] = h[0] /\ \A i \in 1..n : c[i] = ThenFieldEntry(c[i - 1], shape[i])
  <2>1. \A i \in 0..n : c[i] = IF i = 0 THEN first ELSE ThenFieldEntry(c[i - 1], shape[i])
    BY <1>5, <1>7
  <2> QED
    BY <1>3, <2>1
<1>9. \A i \in 1..n : c[i - 1] = h[i - 1] => c[i] = h[i]
  BY <1>4, <1>8
<1>10. c[n] = h[n]
  <2>1. c[0] = h[0]
    BY <1>8
  <2>2. \A i \in 0..n : c[i] = h[i]
    BY ONLY n \in Nat, <1>9, <2>1, Same
  <2> QED
    BY <2>2
<1> QED
  BY <1>1, <1>2, <1>10 DEF r

AllField(r, shape) == GetAll(GetField, r, shape)
ThenField(before, f) ==
    LET after == GetField(before, f)
    IN IF before.ok THEN [after EXCEPT !.val = Append(before.val, @)] ELSE before
TurnsField(r, shape, g) ==
    [i \in 0..Len(shape) |-> IF i = 0 THEN [r EXCEPT !.val = <<>>] ELSE ThenField(g[i - 1], shape[i])]

LEMMA AllFieldIs ==
    ASSUME NEW n \in Nat, NEW shape, Len(shape) = n, NEW ss \in Blocks(n, Byte), NEW vs,
           NEW B, NEW a, NEW x, There(B, a, FlattenSeq(ss)),
           \A i \in 1..n : \A e, y :
               There(B, e, ss[i]) => GetField(R(B, e, y), shape[i]) = R(B, e + Len(ss[i]), vs[i])
    PROVE  AllField(R(B, a, x), shape) = R(B, a + Len(FlattenSeq(ss)), Values(vs, n))
<1>0. PICK h : Turned(h, n, ss, vs, B, a)
  BY InTurn
<1>1. /\ h = [i \in 0..n |-> h[i]]
      /\ h[0] = R(B, a, <<>>) /\ h[n] = R(B, a + Len(FlattenSeq(ss)), Values(vs, n))
      /\ \A i \in 1..n : \E e : /\ There(B, e, ss[i])
                                /\ h[i - 1] = R(B, e, Values(vs, i - 1))
                                /\ h[i] = R(B, e + Len(ss[i]), Values(vs, i))
  BY <1>0 DEF Turned
<1> DEFINE r == R(B, a, x)
           first == [r EXCEPT !.val = <<>>]
           c == CHOOSE g : g = TurnsField(r, shape, g)
<1>2. AllField(r, shape) = c[n]
  BY Zenon DEF AllField, GetAll, TurnsField, ThenField
<1>3. first = h[0]
  BY <1>1, ValuedIs
<1>4. ASSUME NEW i \in 1..n PROVE ThenField(h[i - 1], shape[i]) = h[i]
  <2>1. PICK e : /\ There(B, e, ss[i]) /\ h[i - 1] = R(B, e, Values(vs, i - 1))
                 /\ h[i] = R(B, e + Len(ss[i]), Values(vs, i))
    BY <1>1
  <2> DEFINE before == R(B, e, Values(vs, i - 1))
             after == R(B, e + Len(ss[i]), vs[i])
  <2>2. GetField(before, shape[i]) = after
    BY <2>1
  <2>3. before.ok /\ before.val = Values(vs, i - 1)
    BY RParts
  <2>4. Appended(Values(vs, i - 1), after) = R(B, e + Len(ss[i]), Values(vs, i))
    BY AppendRead
  <2> HIDE DEF before, after
  <2>5. ThenField(before, shape[i]) = Appended(Values(vs, i - 1), after)
    BY <2>2, <2>3, Zenon DEF ThenField, Appended
  <2> QED
    BY <2>1, <2>4, <2>5 DEF before
<1> HIDE DEF first, r, c
<1>5. \A g : TurnsField(r, shape, g)
               = [i \in 0..n |-> IF i = 0 THEN first ELSE ThenField(g[i - 1], shape[i])]
  BY Zenon DEF TurnsField, first
<1>6. h = TurnsField(r, shape, h)
  <2> DEFINE next(i) == IF i = 0 THEN first ELSE ThenField(h[i - 1], shape[i])
  <2>1. \A i \in 0..n : h[i] = next(i)
    BY <1>3, <1>4
  <2>2. TurnsField(r, shape, h) = [i \in 0..n |-> next(i)]
    BY <1>5
  <2> HIDE DEF next
  <2> QED
    BY <1>1, <2>1, <2>2
<1>7. c = TurnsField(r, shape, c)
  <2>1. \E g : g = TurnsField(r, shape, g)
    BY <1>6
  <2> QED
    BY <2>1, Zenon DEF c
<1>8. c[0] = h[0] /\ \A i \in 1..n : c[i] = ThenField(c[i - 1], shape[i])
  <2>1. \A i \in 0..n : c[i] = IF i = 0 THEN first ELSE ThenField(c[i - 1], shape[i])
    BY <1>5, <1>7
  <2> QED
    BY <1>3, <2>1
<1>9. \A i \in 1..n : c[i - 1] = h[i - 1] => c[i] = h[i]
  BY <1>4, <1>8
<1>10. c[n] = h[n]
  <2>1. c[0] = h[0]
    BY <1>8
  <2>2. \A i \in 0..n : c[i] = h[i]
    BY ONLY n \in Nat, <1>9, <2>1, Same
  <2> QED
    BY <2>2
<1> QED
  BY <1>1, <1>2, <1>10 DEF r
(***************************************************************************)
(* How long blocks are together, and how many there can be.                *)
(***************************************************************************)
LEMMA Distribute ==
    ASSUME NEW n \in Nat, NEW m \in Nat
    PROVE  (n + 1) * m = n * m + m /\ n * m \in Nat /\ 0 * m = 0
OBVIOUS

LEMMA DivOf ==
    ASSUME NEW n \in Nat, NEW m \in Nat \ {0}, NEW k \in Nat, n * m <= k
    PROVE  n <= k \div m /\ n <= k
<1>1. n <= k \div m
  OBVIOUS
<1>2. n * 1 <= n * m
  OBVIOUS
<1> QED
  BY <1>1, <1>2

LEMMA FlattenSize ==
    ASSUME NEW n \in Nat, NEW ss \in Blocks(n, Byte), NEW p, p[0] = 0,
           \A i \in 0..n : p[i] \in Nat
    PROVE  /\ FlattenSeq(ss) \in Seq(Byte) /\ Len(FlattenSeq(ss)) \in Nat
           /\ (\A i \in 1..n : Len(ss[i]) = p[i] - p[i - 1]) => Len(FlattenSeq(ss)) = p[n]
           /\ (\A i \in 1..n : Len(ss[i]) >= p[i] - p[i - 1]) => Len(FlattenSeq(ss)) >= p[n]
<1>1. PICK g \in [0..n -> Seq(Byte)] : /\ g[0] = <<>> /\ FlattenSeq(ss) = g[n]
                                      /\ \A i \in 1..n : g[i] = g[i - 1] \o ss[i]
  <2>1. Flattened(n, ss, Byte)
    BY FlattenIs
  <2> QED
    BY <2>1 DEF Flattened
<1>2. ASSUME NEW i \in 1..n
      PROVE  /\ Len(g[i]) = Len(g[i - 1]) + Len(ss[i])
             /\ Len(g[i]) \in Nat /\ Len(g[i - 1]) \in Nat /\ Len(ss[i]) \in Nat
  <2> DEFINE u == g[i - 1]
             v == ss[i]
             S == Byte
  <2>0. i - 1 \in 0..n
    OBVIOUS
  <2>1. u \in Seq(S) /\ v \in Seq(S) /\ g[i] = u \o v
    BY <1>1, <2>0 DEF Blocks
  <2> HIDE DEF S, u, v
  <2>2. Len(u \o v) = Len(u) + Len(v) /\ Len(u) \in Nat /\ Len(v) \in Nat
    BY <2>1, ConcatParts
  <2>3. Len(g[i]) = Len(u) + Len(v) /\ Len(g[i]) \in Nat
    BY <2>1, <2>2
  <2> QED
    BY <2>2, <2>3 DEF u, v
<1>3. Len(g[0]) = 0
  BY <1>1
<1>4. ASSUME \A i \in 1..n : Len(ss[i]) = p[i] - p[i - 1] PROVE Len(g[n]) = p[n]
  <2> DEFINE lens == [i \in 0..n |-> Len(g[i])]
  <2>1. lens[0] = p[0]
    BY <1>3
  <2>2. \A i \in 1..n : lens[i - 1] = p[i - 1] => lens[i] = p[i]
    <3> TAKE i \in 1..n
    <3>1. i - 1 \in 0..n /\ i \in 0..n
      OBVIOUS
    <3>2. lens[i] = Len(g[i]) /\ lens[i - 1] = Len(g[i - 1]) /\ p[i] \in Nat /\ p[i - 1] \in Nat
      BY <3>1
    <3>3. lens[i] = lens[i - 1] + (p[i] - p[i - 1])
      BY <1>2, <1>4, <3>2
    <3> HIDE DEF lens
    <3> QED
      BY <3>2, <3>3
  <2> HIDE DEF lens
  <2>3. lens[n] = p[n]
    <3> DEFINE T == {k \in Nat : k <= n => lens[k] = p[k]}
    <3>1. 0 \in T
      BY <2>1
    <3>2. ASSUME NEW k \in T PROVE k + 1 \in T
      <4>1. k + 1 <= n => k <= n /\ k + 1 \in 1..n /\ (k + 1) - 1 = k
        OBVIOUS
      <4> QED
        BY <2>2, <4>1
    <3>3. T = Nat
      <4> HIDE DEF T
      <4>1. T \in SUBSET Nat
        BY DEF T
      <4> QED
        BY <3>1, <3>2, <4>1, Induction
    <3>4. n \in T
      BY <3>3
    <3> QED
      BY <3>4
  <2> QED
    BY <2>3 DEF lens
<1>5. ASSUME \A i \in 1..n : Len(ss[i]) >= p[i] - p[i - 1] PROVE Len(g[n]) >= p[n]
  <2> DEFINE T == {i \in Nat : i <= n => Len(g[i]) >= p[i]}
  <2>1. 0 \in T
    BY <1>3
  <2>2. ASSUME NEW i \in T PROVE i + 1 \in T
    <3> SUFFICES ASSUME i + 1 <= n PROVE Len(g[i + 1]) >= p[i + 1]
      OBVIOUS
    <3>1. i + 1 \in 1..n /\ (i + 1) - 1 = i /\ i \in 0..n /\ i + 1 \in 0..n /\ i <= n
      OBVIOUS
    <3>2. Len(g[i]) >= p[i] /\ p[i] \in Nat /\ p[i + 1] \in Nat
      BY <3>1
    <3>3. Len(g[i + 1]) = Len(g[i]) + Len(ss[i + 1]) /\ Len(g[i]) \in Nat /\ Len(ss[i + 1]) \in Nat
      BY <1>2, <3>1
    <3>4. Len(ss[i + 1]) >= p[i + 1] - p[i]
      BY <1>5, <3>1
    <3> DEFINE u == Len(g[i])
               v == Len(ss[i + 1])
               w == Len(g[i + 1])
               y == p[i]
               z == p[i + 1]
    <3>5. w = u + v /\ u \in Nat /\ v \in Nat /\ y \in Nat /\ z \in Nat /\ u >= y /\ v >= z - y
      BY <3>2, <3>3, <3>4
    <3> HIDE DEF u, v, w, y, z
    <3>6. w >= z
      BY <3>5
    <3> QED
      BY <3>6 DEF w, z
  <2>3. T = Nat
    <3> HIDE DEF T
    <3>1. T \in SUBSET Nat
      BY DEF T
    <3> QED
      BY <2>1, <2>2, <3>1, Induction
  <2>4. n \in T
    BY <2>3
  <2> QED
    BY <2>4
<1> QED
  BY <1>1, <1>4, <1>5

\* Blocks that are no shorter than least are so many at most.
LEMMA FlattenLeast ==
    ASSUME NEW n \in Nat, NEW ss \in Blocks(n, Byte), NEW least \in Nat,
           \A i \in 1..n : Len(ss[i]) >= least
    PROVE  n * least <= Len(FlattenSeq(ss))
<1> DEFINE p == [i \in 0..n |-> i * least]
<1>1. \A i \in 0..n : i * least \in Nat
  BY Distribute
<1>2. p \in [0..n -> Nat] /\ p[0] = 0 /\ p[n] = n * least
  BY <1>1, Distribute
<1>3. \A i \in 1..n : p[i] - p[i - 1] = least
  <2> TAKE i \in 1..n
  <2>1. i - 1 \in Nat /\ (i - 1) + 1 = i /\ i - 1 \in 0..n /\ i \in 0..n
    OBVIOUS
  <2>2. i * least = (i - 1) * least + least /\ (i - 1) * least \in Nat
    BY <2>1, Distribute
  <2> QED
    BY <2>1, <2>2
<1> HIDE DEF p
<1>4. \A i \in 1..n : Len(ss[i]) >= p[i] - p[i - 1]
  BY <1>3
<1>5. Len(FlattenSeq(ss)) >= p[n] /\ Len(FlattenSeq(ss)) \in Nat
  BY <1>2, <1>4, FlattenSize
<1> QED
  BY <1>1, <1>2, <1>5

LEMMA RestSmall ==
    ASSUME NEW n \in Nat
    PROVE  /\ Rest(n, 1) = 0 <=> n < 256
           /\ Rest(n, 2) = 0 <=> n < 65536
           /\ Rest(n, 4) = 0 <=> n < 4294967296
<1>1. /\ Rest(n, 0) = n /\ Rest(n, 1) = Rest(n, 0) \div 256 /\ Rest(n, 2) = Rest(n, 1) \div 256
      /\ Rest(n, 3) = Rest(n, 2) \div 256 /\ Rest(n, 4) = Rest(n, 3) \div 256
  BY RestIs DEF Widest
<1> QED
  BY <1>1

LEMMA NumberKinds ==
    /\ GoodBasic(U8) /\ GoodBasic(U16) /\ GoodBasic(U32) /\ GoodBasic(U64)
    /\ GoodBasic(I16) /\ GoodBasic(I32) /\ GoodBasic(I64) /\ GoodBasic(Color) /\ GoodBasic(Text)
    /\ \A top \in 0..255 : GoodBasic(Enum(top))
    /\ \A cap \in Nat : GoodBasic(Blob(cap))
<1>1. GoodBasic(U8) /\ GoodBasic(U16) /\ GoodBasic(U32) /\ GoodBasic(U64)
  BY DEF GoodBasic, Numbers, Widest, Unsigned, U8, U16, U32, U64
<1>2. GoodBasic(I16) /\ GoodBasic(I32) /\ GoodBasic(I64)
  BY DEF GoodBasic, Numbers, Widest, Signed, I16, I32, I64
<1>3. GoodBasic(Color) /\ GoodBasic(Text)
  BY DEF GoodBasic, Numbers, Widest, Color, Text
<1>4. \A top \in 0..255 : GoodBasic(Enum(top))
  BY DEF GoodBasic, Numbers, Widest, Enum
<1>5. \A cap \in Nat : GoodBasic(Blob(cap))
  BY DEF GoodBasic, Numbers, Widest, Blob
<1> QED
  BY <1>1, <1>2, <1>3, <1>4, <1>5

LEMMA CountIs ==
    ASSUME NEW n \in Nat, NEW q \in Seq(Byte), NEW least \in Nat \ {0}, n * least <= Len(q),
           NEW B, NEW a, NEW x, There(B, a, Bytes(n, 4) \o q)
    PROVE  /\ CountOf(GetBasic(R(B, a, x), U32), least) = R(B, a + 4, n)
           /\ There(B, a + 4, q) /\ Bytes(n, 4) \o q \in Seq(Byte) /\ Len(Bytes(n, 4) \o q) = 4 + Len(q)
           /\ R(B, a + 4, n).ok /\ R(B, a + 4, n).val = n
<1> DEFINE b == Bytes(n, 4)
           c == R(B, a + 4, n)
<1>1. b \in Seq(Byte) /\ Len(b) = 4
  BY BytesType DEF Widest
<1> HIDE DEF b
<1>2. There(B, a, b) /\ There(B, a + 4, q)
  BY <1>1, AtConcat DEF b
<1>3. b \o q \in Seq(Byte) /\ Len(b \o q) = 4 + Len(q) /\ Len(q) \in Nat
  <2> DEFINE S == Byte
  <2>1. b \in Seq(S) /\ q \in Seq(S)
    BY <1>1
  <2> HIDE DEF S
  <2>2. b \o q \in Seq(S) /\ Len(b \o q) = Len(b) + Len(q) /\ Len(q) \in Nat
    BY <2>1, ConcatParts
  <2> QED
    BY <1>1, <2>2 DEF S
<1>4. /\ a \in Nat /\ Len(B) \in Nat /\ (a + 4) + Len(q) <= Len(B) /\ Len(B) <= MaxSnapshot
  BY <1>2 DEF There
<1>5. n <= Len(q)
  BY <1>3, DivOf
<1>6. FitsBasic(U32, n)
  <2>1. MaxSnapshot \in Nat /\ MaxSnapshot < 4294967296
    BY CapAssumption, RestSmall
  <2>2. Rest(n, 4) = 0
    BY <1>3, <1>4, <1>5, <2>1, RestSmall
  <2> QED
    BY <2>2 DEF FitsBasic, U32, Unsigned
<1>7. PutBasic(U32, n) = b
  BY DEF PutBasic, U32, Unsigned, b
<1>8. GetBasic(R(B, a, x), U32) = c
  <2>1. GoodBasic(U32) /\ There(B, a, PutBasic(U32, n)) /\ Len(PutBasic(U32, n)) = 4
    BY <1>1, <1>2, <1>7, NumberKinds
  <2> QED
    BY <1>6, <2>1, BasicGet
<1>9. c.ok /\ c.val = n /\ c.bytes = B /\ c.at = a + 4
  BY RParts
<1>10. c.val <= Remaining(c) \div least
  <2>1. Remaining(c) = Len(B) - (a + 4)
    BY <1>9 DEF Remaining
  <2>2. Remaining(c) \in Nat /\ n * least <= Remaining(c)
    BY <1>3, <1>4, <2>1, Distribute
  <2> QED
    BY <1>9, <2>2, DivOf
<1> HIDE DEF c
<1>11. CountOf(c, least) = c
  BY <1>9, <1>10 DEF CountOf
<1> QED
  BY <1>2, <1>3, <1>8, <1>9, <1>11 DEF b, c
(***************************************************************************)
(* Runs of equal cells, and the cells they stand for.                      *)
(***************************************************************************)
LEMMA FlattenAppend ==
    ASSUME NEW S, NEW m \in Nat, NEW ss \in Blocks(m + 1, S), NEW tt \in Blocks(m, S),
           \A i \in 1..m : tt[i] = ss[i]
    PROVE  FlattenSeq(ss) = FlattenSeq(tt) \o ss[m + 1]
<1>1. PICK g : /\ g[0] = <<>> /\ FlattenSeq(ss) = g[m + 1]
               /\ \A i \in 1..(m + 1) : g[i] = g[i - 1] \o ss[i]
  <2>1. Flattened(m + 1, ss, S)
    BY FlattenIs
  <2> QED
    BY <2>1 DEF Flattened
<1>2. PICK h : /\ h[0] = <<>> /\ FlattenSeq(tt) = h[m]
               /\ \A i \in 1..m : h[i] = h[i - 1] \o tt[i]
  <2>1. Flattened(m, tt, S)
    BY FlattenIs
  <2> QED
    BY <2>1 DEF Flattened
<1>3. h[0] = g[0]
  BY <1>1, <1>2
<1>4. \A i \in 1..m : h[i - 1] = g[i - 1] => h[i] = g[i]
  <2>1. \A i \in 1..m : i \in 1..(m + 1)
    OBVIOUS
  <2> QED
    BY <1>1, <1>2, <2>1
<1>5. \A i \in 0..m : h[i] = g[i]
  BY ONLY m \in Nat, <1>3, <1>4, Same
<1>6. m \in 0..m /\ m + 1 \in 1..(m + 1) /\ (m + 1) - 1 = m
  OBVIOUS
<1> QED
  BY <1>1, <1>2, <1>5, <1>6

Repeat(run) == [k \in 1..run[1] |-> run[2]]
Spread(runs) == FlattenSeq([i \in DOMAIN runs |-> Repeat(runs[i])])
Longer(runs) == [runs EXCEPT ![Len(runs)][1] = @ + 1]
Joined(runs, cell) == IF Extends(runs, cell) THEN Longer(runs) ELSE Append(runs, <<1, cell>>)
RunIn(C) == (1..MaxRun) \X C

LEMMA RepeatIs ==
    ASSUME NEW C, NEW n \in Nat, NEW c \in C
    PROVE  /\ Repeat(<<n, c>>) \in Seq(C) /\ Repeat(<<1, c>>) = <<c>>
           /\ Repeat(<<n + 1, c>>) = Append(Repeat(<<n, c>>), c)
<1>1. \A k \in Nat : Repeat(<<k, c>>) = [j \in 1..k |-> c]
  BY DEF Repeat
<1>2. \A k \in Nat : [j \in 1..k |-> c] \in Seq(C)
  OBVIOUS
<1>3. [j \in 1..1 |-> c] = <<c>>
  OBVIOUS
<1>4. [j \in 1..(n + 1) |-> c] = Append([j \in 1..n |-> c], c)
  <2> DEFINE v == [j \in 1..(n + 1) |-> c]
  <2>1. Append(Values(v, n), v[n + 1]) = Values(v, n + 1)
    BY ValuesAppend
  <2>2. Values(v, n) = [j \in 1..n |-> c] /\ Values(v, n + 1) = v /\ v[n + 1] = c
    BY DEF Values
  <2> QED
    BY <2>1, <2>2
<1>5. Repeat(<<n + 1, c>>) = Append(Repeat(<<n, c>>), c)
  <2>1. n + 1 \in Nat
    OBVIOUS
  <2> QED
    BY <1>1, <1>4, <2>1
<1>6. Repeat(<<n, c>>) \in Seq(C)
  BY <1>1, <1>2
<1>7. Repeat(<<1, c>>) = <<c>>
  BY <1>1, <1>3
<1> QED
  BY <1>5, <1>6, <1>7

LEMMA LongerIs ==
    ASSUME NEW C, NEW m \in Nat, NEW runs \in [1..(m + 1) -> RunIn(C)], Len(runs) = m + 1,
           runs[m + 1][1] < MaxRun
    PROVE  /\ Longer(runs) \in [1..(m + 1) -> RunIn(C)] /\ Len(Longer(runs)) = m + 1
           /\ \A i \in 1..m : Longer(runs)[i] = runs[i]
           /\ Longer(runs)[m + 1] = <<runs[m + 1][1] + 1, runs[m + 1][2]>>
<1> DEFINE last == [runs[m + 1] EXCEPT ![1] = @ + 1]
<1>1. runs[m + 1] \in RunIn(C)
  OBVIOUS
<1>2. PICK k \in 1..MaxRun, c \in C : runs[m + 1] = <<k, c>>
  BY <1>1 DEF RunIn
<1>3. last = <<k + 1, c>>
  BY <1>2
<1>4. MaxRun \in Nat /\ k < MaxRun
  BY <1>2, CapAssumption
<1>5. k + 1 \in 1..MaxRun
  BY <1>2, <1>4
<1>6. last \in RunIn(C)
  BY <1>3, <1>5 DEF RunIn
<1>7. Longer(runs) = [runs EXCEPT ![m + 1] = last]
  BY DEF Longer
<1> HIDE DEF last
<1>8. Longer(runs) = [i \in 1..(m + 1) |-> IF i = m + 1 THEN last ELSE runs[i]]
  BY <1>7
<1>9. Longer(runs) \in [1..(m + 1) -> RunIn(C)] /\ Longer(runs)[m + 1] = last
  BY <1>6, <1>8
<1>10. \A i \in 1..m : Longer(runs)[i] = runs[i]
  BY <1>8
<1>11. Len(Longer(runs)) = m + 1
  BY <1>8
<1> QED
  BY <1>2, <1>3, <1>9, <1>10, <1>11

LEMMA JoinedIs ==
    ASSUME NEW C, NEW runs \in Seq(RunIn(C)), NEW c \in C
    PROVE  /\ Joined(runs, c) \in Seq(RunIn(C)) /\ Spread(runs) \in Seq(C)
           /\ Spread(Joined(runs, c)) = Append(Spread(runs), c)
<1> DEFINE Blocked(q, n) == [i \in 1..n |-> Repeat(q[i])]
<1>1. ASSUME NEW n \in Nat, NEW q \in [1..n -> RunIn(C)]
      PROVE  /\ Blocked(q, n) \in Blocks(n, C) /\ FlattenSeq(Blocked(q, n)) \in Seq(C)
             /\ Spread(q) = FlattenSeq(Blocked(q, n))
  <2>1. ASSUME NEW i \in 1..n PROVE Repeat(q[i]) \in Seq(C)
    <3>1. PICK k \in 1..MaxRun, e \in C : q[i] = <<k, e>>
      BY DEF RunIn
    <3>2. k \in Nat
      BY CapAssumption
    <3> QED
      BY <3>1, <3>2, RepeatIs
  <2>2. Blocked(q, n) \in Blocks(n, C)
    BY <2>1 DEF Blocks
  <2>3. FlattenSeq(Blocked(q, n)) \in Seq(C)
    <3> DEFINE ss == Blocked(q, n)
    <3>1. ss \in Blocks(n, C)
      BY <2>2
    <3> HIDE DEF ss
    <3>2. Flattened(n, ss, C)
      BY <3>1, FlattenIs
    <3>3. FlattenSeq(ss) \in Seq(C)
      BY <3>2 DEF Flattened
    <3> QED
      BY <3>3 DEF ss
  <2>4. DOMAIN q = 1..n
    OBVIOUS
  <2> QED
    BY <2>2, <2>3, <2>4 DEF Spread
<1> DEFINE m == Len(runs)
<1>2. m \in Nat /\ runs \in [1..m -> RunIn(C)]
  OBVIOUS
<1>3. Spread(runs) \in Seq(C)
  BY <1>1, <1>2
<1>4. CASE Extends(runs, c)
  <2>1. m # 0 /\ runs[m][1] < MaxRun /\ runs[m][2] = c
    BY <1>4 DEF Extends, Last
  <2> DEFINE j == m - 1
             long == Longer(runs)
  <2>2. j \in Nat /\ j + 1 = m
    BY <1>2, <2>1
  <2>3. /\ long \in [1..m -> RunIn(C)] /\ Len(long) = m /\ \A i \in 1..j : long[i] = runs[i]
        /\ long[m] = <<runs[m][1] + 1, c>>
    <3> HIDE DEF m, long, j
    <3>1. runs \in [1..(j + 1) -> RunIn(C)] /\ Len(runs) = j + 1 /\ runs[j + 1][1] < MaxRun
      BY <1>2, <2>1, <2>2 DEF m
    <3>2. /\ long \in [1..(j + 1) -> RunIn(C)] /\ Len(long) = j + 1
          /\ \A i \in 1..j : long[i] = runs[i]
          /\ long[j + 1] = <<runs[j + 1][1] + 1, runs[j + 1][2]>>
      BY <2>2, <3>1, LongerIs DEF long
    <3> QED
      BY <2>1, <2>2, <3>2
  <2> DEFINE ss == Blocked(runs, m)
             tt == Blocked(long, m)
             uu == Blocked(runs, j)
  <2> HIDE DEF j
  <2>4. ss \in Blocks(j + 1, C) /\ tt \in Blocks(j + 1, C) /\ uu \in Blocks(j, C)
    <3>1. ss \in Blocks(m, C) /\ tt \in Blocks(m, C)
      BY <1>1, <1>2, <2>3
    <3>2. uu \in Blocks(j, C)
      BY <2>2, <3>1 DEF Blocks
    <3> QED
      BY <2>2, <3>1, <3>2
  <2>5. \A i \in 1..j : uu[i] = ss[i] /\ uu[i] = tt[i]
    BY <2>2, <2>3
  <2>6. ss[j + 1] = Repeat(runs[m]) /\ tt[j + 1] = Repeat(long[m])
    BY <2>2
  <2>7. Spread(runs) = FlattenSeq(ss) /\ Spread(long) = FlattenSeq(tt)
    BY <1>1, <1>2, <2>3
  <2>8. PICK k \in 1..MaxRun : runs[m] = <<k, c>> /\ long[m] = <<k + 1, c>>
    <3>1. runs[m] \in RunIn(C)
      BY <1>2, <2>1
    <3> QED
      BY <2>1, <2>3, <3>1 DEF RunIn
  <2>9. k \in Nat
    BY CapAssumption
  <2>10. Repeat(<<k, c>>) \in Seq(C) /\ Repeat(<<k + 1, c>>) = Append(Repeat(<<k, c>>), c)
    BY <2>9, RepeatIs
  <2> HIDE DEF m, long, ss, tt, uu, Blocked
  <2>11. FlattenSeq(ss) = FlattenSeq(uu) \o ss[j + 1] /\ FlattenSeq(tt) = FlattenSeq(uu) \o tt[j + 1]
    <3>1. \A i \in 1..j : uu[i] = ss[i]
      BY <2>5
    <3>2. \A i \in 1..j : uu[i] = tt[i]
      BY <2>5
    <3>3. FlattenSeq(ss) = FlattenSeq(uu) \o ss[j + 1]
      BY <2>2, <2>4, <3>1, FlattenAppend
    <3>4. FlattenSeq(tt) = FlattenSeq(uu) \o tt[j + 1]
      BY <2>2, <2>4, <3>2, FlattenAppend
    <3> QED
      BY <3>3, <3>4
  <2> DEFINE u == FlattenSeq(uu)
             r == Repeat(<<k, c>>)
  <2>12. u \in Seq(C)
    <3>1. Flattened(j, uu, C)
      BY <2>2, <2>4, FlattenIs
    <3> QED
      BY <2>2, <3>1 DEF Flattened
  <2>13. Spread(runs) = u \o r /\ Spread(long) = u \o Append(r, c) /\ r \in Seq(C)
    BY <2>6, <2>7, <2>8, <2>10, <2>11
  <2> HIDE DEF u, r
  <2>14. u \o Append(r, c) = Append(u \o r, c)
    BY <2>12, <2>13
  <2>15. long \in Seq(RunIn(C))
    BY <1>2, <2>3
  <2>16. Joined(runs, c) = long
    BY <1>4 DEF Joined, long
  <2> QED
    BY <1>3, <2>13, <2>14, <2>15, <2>16
<1>5. CASE ~Extends(runs, c)
  <2> DEFINE one == <<1, c>>
             more == Append(runs, one)
  <2>1. one \in RunIn(C)
    <3>1. 1 \in 1..MaxRun
      BY CapAssumption
    <3> QED
      BY <3>1 DEF RunIn
  <2> HIDE DEF one
  <2>2. more \in Seq(RunIn(C)) /\ Len(more) = m + 1 /\ more[m + 1] = one /\ \A i \in 1..m : more[i] = runs[i]
    BY <2>1, AppendProperties
  <2>3. more \in [1..(m + 1) -> RunIn(C)]
    <3>1. more \in Seq(RunIn(C))
      BY <2>2
    <3> HIDE DEF more
    <3>2. more \in [1..Len(more) -> RunIn(C)]
      BY <3>1
    <3> QED
      BY <2>2, <3>2 DEF more
  <2> DEFINE ss == Blocked(more, m + 1)
             tt == Blocked(runs, m)
  <2> HIDE DEF more, m
  <2>4. /\ ss \in Blocks(m + 1, C) /\ tt \in Blocks(m, C) /\ Spread(more) = FlattenSeq(ss)
        /\ Spread(runs) = FlattenSeq(tt)
    <3>1. m + 1 \in Nat
      BY <1>2
    <3> QED
      BY <1>1, <1>2, <2>3, <3>1
  <2>5. (\A i \in 1..m : tt[i] = ss[i]) /\ ss[m + 1] = Repeat(one)
    BY <1>2, <2>2
  <2> HIDE DEF ss, tt
  <2>6. FlattenSeq(ss) = FlattenSeq(tt) \o ss[m + 1]
    BY <1>2, <2>4, <2>5, FlattenAppend
  <2>7. Repeat(one) = <<c>>
    BY RepeatIs DEF one
  <2> DEFINE u == Spread(runs)
  <2>8. Spread(more) = u \o <<c>> /\ u \in Seq(C)
    BY <1>3, <2>4, <2>5, <2>6, <2>7
  <2> HIDE DEF u
  <2>9. u \o <<c>> = Append(u, c)
    BY <2>8
  <2>10. Joined(runs, c) = more
    BY <1>5 DEF Joined, more, one
  <2> QED
    BY <1>3, <2>2, <2>8, <2>9, <2>10 DEF u, more
<1> QED
  BY <1>4, <1>5

Joining(cells, f) ==
    [n \in 0..Len(cells) |-> IF n = 0 THEN <<>> ELSE Joined(f[n - 1], cells[n])]

\* The runs of a sequence of cells stand for those cells.
LEMMA RunsOf ==
    ASSUME NEW C, NEW cells \in Seq(C)
    PROVE  ToRuns(cells) \in Seq(RunIn(C)) /\ Spread(ToRuns(cells)) = cells
<1> DEFINE N == Len(cells)
           S == Seq(RunIn(C))
           c == CHOOSE f : f = Joining(cells, f)
<1>1. N \in Nat /\ (\A i \in 1..N : cells[i] \in C) /\ cells = Values(cells, N)
  BY DEF Values
<1>2. ToRuns(cells) = c[N]
  BY Zenon DEF ToRuns, Joining, Joined, Longer
<1>3. \E f : f = Joining(cells, f)
  <2> DEFINE G == [i \in 1..N |-> [runs \in S |-> Joined(runs, cells[i])]]
  <2>1. G \in [1..N -> [S -> S]]
    BY <1>1, JoinedIs
  <2>2. <<>> \in S
    OBVIOUS
  <2>3. \A i \in 1..N : \A runs \in S : G[i][runs] = Joined(runs, cells[i])
    OBVIOUS
  <2> HIDE DEF G, S
  <2>4. PICK f : f \in [0..N -> S] /\ f[0] = <<>> /\ \A i \in 1..N : f[i] = G[i][f[i - 1]]
    <3> HIDE DEF N
    <3>1. \E f : Iterates(f, N, S, <<>>, G)
      BY <1>1, <2>1, <2>2, Recursive
    <3> QED
      BY <3>1, Zenon DEF Iterates
  <2>5. \A i \in 1..N : f[i] = Joined(f[i - 1], cells[i])
    <3>1. \A i \in 1..N : i - 1 \in 0..N
      BY <1>1
    <3>2. \A i \in 1..N : f[i - 1] \in S
      BY <2>4, <3>1
    <3> QED
      BY <2>3, <2>4, <3>2
  <2> DEFINE next(i) == IF i = 0 THEN <<>> ELSE Joined(f[i - 1], cells[i])
  <2>6. \A i \in 0..N : f[i] = next(i)
    BY <2>4, <2>5
  <2>7. Joining(cells, f) = [i \in 0..N |-> next(i)] /\ f = [i \in 0..N |-> f[i]]
    BY <2>4 DEF Joining
  <2> HIDE DEF next
  <2>8. f = Joining(cells, f)
    BY <2>6, <2>7
  <2> QED
    BY <2>8
<1>4. c = Joining(cells, c)
  BY <1>3, Zenon
<1> HIDE DEF c
<1>5. c[0] = <<>> /\ \A i \in 1..N : c[i] = Joined(c[i - 1], cells[i])
  <2>1. \A i \in 0..N : c[i] = IF i = 0 THEN <<>> ELSE Joined(c[i - 1], cells[i])
    BY <1>4 DEF Joining
  <2> QED
    BY <1>1, <2>1
<1> HIDE DEF N, S
<1> DEFINE T == {i \in Nat : i <= N => c[i] \in Seq(RunIn(C)) /\ Spread(c[i]) = Values(cells, i)}
<1>6. 0 \in T
  <2>1. c[0] \in Seq(RunIn(C))
    BY <1>5
  <2>2. Spread(<<>>) = <<>>
    <3> DEFINE ss == [i \in DOMAIN <<>> |-> Repeat(<<>>[i])]
    <3>1. ss = <<>>
      OBVIOUS
    <3>2. FlattenSeq(<<>>) = <<>>
      BY DEF FlattenSeq
    <3> QED
      BY <3>1, <3>2 DEF Spread
  <2>3. Values(cells, 0) = <<>>
    BY DEF Values
  <2> QED
    BY <1>5, <2>1, <2>2, <2>3
<1>7. ASSUME NEW i \in T PROVE i + 1 \in T
  <2> SUFFICES ASSUME i + 1 <= N
               PROVE  c[i + 1] \in Seq(RunIn(C)) /\ Spread(c[i + 1]) = Values(cells, i + 1)
    OBVIOUS
  <2>1. i \in Nat /\ i <= N /\ i + 1 \in 1..N /\ (i + 1) - 1 = i
    BY <1>1
  <2>2. c[i] \in Seq(RunIn(C)) /\ Spread(c[i]) = Values(cells, i) /\ cells[i + 1] \in C
    BY <1>1, <2>1
  <2>3. c[i + 1] = Joined(c[i], cells[i + 1])
    BY <1>5, <2>1
  <2> HIDE DEF T
  <2>4. c[i + 1] \in Seq(RunIn(C)) /\ Spread(c[i + 1]) = Append(Spread(c[i]), cells[i + 1])
    BY <2>2, <2>3, JoinedIs
  <2>5. Append(Values(cells, i), cells[i + 1]) = Values(cells, i + 1)
    BY <2>1, ValuesAppend
  <2> QED
    BY <2>2, <2>4, <2>5
<1>8. T = Nat
  <2> HIDE DEF T
  <2>1. T \in SUBSET Nat
    BY DEF T
  <2> QED
    BY <1>6, <1>7, <2>1, Induction
<1>9. N \in T /\ N <= N
  BY <1>1, <1>8
<1>10. c[N] \in Seq(RunIn(C)) /\ Spread(c[N]) = Values(cells, N)
  BY <1>9
<1> QED
  BY <1>1, <1>2, <1>10
(***************************************************************************)
(* Levels of fields: what is put is what is got.                           *)
(***************************************************************************)
Shape(shape, n) == n \in Nat /\ Len(shape) = n /\ DOMAIN shape = 1..n

PutsBasic(shape, vs) == Puts(PutBasic, shape, vs)
FitsAllBasic(shape, vs) == FitsAll(FitsBasic, shape, vs)
PiecesBasic(shape, vs, n) == [i \in 1..n |-> PutBasic(shape[i], vs[i])]

LEMMA BasicFields ==
    ASSUME NEW n, NEW shape, Shape(shape, n), \A i \in 1..n : GoodBasic(shape[i]),
           NEW vs, FitsAllBasic(shape, vs)
    PROVE  /\ PiecesBasic(shape, vs, n) \in Blocks(n, Byte)
           /\ PutsBasic(shape, vs) = FlattenSeq(PiecesBasic(shape, vs, n))
           /\ PutsBasic(shape, vs) \in Seq(Byte) /\ vs = Values(vs, n)
           /\ \A i \in 1..n : FitsBasic(shape[i], vs[i])
           /\ \A B, a, x : There(B, a, PutsBasic(shape, vs)) =>
                  AllBasic(R(B, a, x), shape) = R(B, a + Len(PutsBasic(shape, vs)), vs)
<1> DEFINE ss == PiecesBasic(shape, vs, n)
<1>1. n \in Nat /\ Len(shape) = n /\ DOMAIN shape = 1..n
  BY DEF Shape
<1>2. vs = [i \in DOMAIN shape |-> vs[i]] /\ \A i \in DOMAIN shape : FitsBasic(shape[i], vs[i])
  BY Zenon DEF FitsAllBasic, FitsAll
<1>3. vs = Values(vs, n) /\ \A i \in 1..n : FitsBasic(shape[i], vs[i])
  BY <1>1, <1>2 DEF Values
<1>4. PutsBasic(shape, vs) = FlattenSeq([i \in DOMAIN shape |-> PutBasic(shape[i], vs[i])])
  BY Zenon DEF PutsBasic, Puts
<1>5. PutsBasic(shape, vs) = FlattenSeq(ss)
  BY <1>1, <1>4 DEF PiecesBasic
<1>6. \A i \in 1..n : PutBasic(shape[i], vs[i]) \in Seq(Byte)
  BY <1>3, BasicPut
<1>7. ss \in Blocks(n, Byte) /\ \A i \in 1..n : ss[i] = PutBasic(shape[i], vs[i])
  BY <1>6 DEF PiecesBasic, Blocks
<1> HIDE DEF ss
<1>8. FlattenSeq(ss) \in Seq(Byte)
  <2>1. Flattened(n, ss, Byte)
    BY <1>1, <1>7, FlattenIs
  <2> QED
    BY <1>1, <2>1 DEF Flattened
<1>9. ASSUME NEW B, NEW a, NEW x, There(B, a, FlattenSeq(ss))
      PROVE  AllBasic(R(B, a, x), shape) = R(B, a + Len(FlattenSeq(ss)), Values(vs, n))
  <2>1. ASSUME NEW i \in 1..n, NEW e, NEW y, There(B, e, ss[i])
        PROVE  GetBasic(R(B, e, y), shape[i]) = R(B, e + Len(ss[i]), vs[i])
    BY <1>3, <1>7, <2>1, BasicGet
  <2> QED
    BY <1>1, <1>7, <1>9, <2>1, AllBasicIs
<1> QED
  BY <1>3, <1>5, <1>7, <1>8, <1>9 DEF ss

EntriesRun(r, f, least) == GetEntries(GetRun, r, f, least)

LEMMA RunEntries ==
    ASSUME NEW n \in Nat, NEW ss \in Blocks(n, Byte), NEW f, NEW least \in Nat \ {0}, NEW vs,
           \A i \in 1..n : Len(ss[i]) >= least,
           NEW B, NEW a, NEW x, There(B, a, Bytes(n, 4) \o FlattenSeq(ss)),
           \A i \in 1..n : \A e, y :
               There(B, e, ss[i]) => GetRun(R(B, e, y), f) = R(B, e + Len(ss[i]), vs[i])
    PROVE  EntriesRun(R(B, a, x), f, least)
             = R(B, a + Len(Bytes(n, 4) \o FlattenSeq(ss)), Values(vs, n))
<1> DEFINE q == FlattenSeq(ss)
           c == R(B, a + 4, n)
           shape == [i \in 1..n |-> f]
<1>1. q \in Seq(Byte)
  <2>1. Flattened(n, ss, Byte)
    BY FlattenIs
  <2> QED
    BY <2>1 DEF Flattened
<1>2. n * least <= Len(q)
  BY FlattenLeast
<1>3. CountOf(GetBasic(R(B, a, x), U32), least) = c /\ There(B, a + 4, q)
      /\ Len(Bytes(n, 4) \o q) = 4 + Len(q) /\ c.ok /\ c.val = n
  <2> HIDE DEF q
  <2>1. There(B, a, Bytes(n, 4) \o q)
    BY DEF q
  <2> QED
    BY <1>1, <1>2, <2>1, CountIs
<1>4. Len(shape) = n /\ \A i \in 1..n : shape[i] = f
  OBVIOUS
<1> HIDE DEF c
<1>5. EntriesRun(R(B, a, x), f, least) = AllRun(c, [i \in 1..c.val |-> f])
  BY <1>3, Zenon DEF EntriesRun, GetEntries, GetCounted, AllRun
<1>6. EntriesRun(R(B, a, x), f, least) = AllRun(c, shape)
  BY <1>3, <1>5
<1> HIDE DEF shape, q
<1>7. AllRun(R(B, a + 4, n), shape) = R(B, (a + 4) + Len(q), Values(vs, n))
  <2>1. \A i \in 1..n : \A e, y :
            There(B, e, ss[i]) => GetRun(R(B, e, y), shape[i]) = R(B, e + Len(ss[i]), vs[i])
    BY <1>4
  <2>2. There(B, a + 4, FlattenSeq(ss))
    BY <1>3 DEF q
  <2> QED
    BY ONLY n \in Nat, ss \in Blocks(n, Byte), <1>4, <2>1, <2>2, AllRunIs DEF q
<1>8. (a + 4) + Len(q) = a + (4 + Len(q))
  <2>1. a \in Nat /\ Len(q) \in Nat
    BY <1>1, <1>3 DEF There
  <2> QED
    BY <2>1
<1> QED
  BY <1>3, <1>6, <1>7, <1>8 DEF c, q

LEMMA CellShape ==
    /\ Shape(CellFields, 6) /\ \A i \in 1..6 : GoodBasic(CellFields[i])
    /\ CellFields[1] = Text /\ CellFields[2] = U8 /\ CellFields[3] = Color
    /\ CellFields[4] = Color /\ CellFields[5] = U8 /\ CellFields[6] = U16
<1>1. /\ CellFields[1] = Text /\ CellFields[2] = U8 /\ CellFields[3] = Color
      /\ CellFields[4] = Color /\ CellFields[5] = U8 /\ CellFields[6] = U16
  BY DEF CellFields
<1>2. Shape(CellFields, 6)
  BY DEF Shape, CellFields
<1>3. \A i \in 1..6 : i = 1 \/ i = 2 \/ i = 3 \/ i = 4 \/ i = 5 \/ i = 6
  OBVIOUS
<1>4. \A i \in 1..6 : GoodBasic(CellFields[i])
  BY <1>1, <1>3, NumberKinds
<1> QED
  BY <1>1, <1>2, <1>4

\* A cell takes as many bytes as its text has, and fourteen.
LEMMA CellPut ==
    ASSUME NEW cell, FitsAllBasic(CellFields, cell)
    PROVE  /\ PutsBasic(CellFields, cell) \in Seq(Byte) /\ Len(cell[1]) \in Nat
           /\ Len(PutsBasic(CellFields, cell)) = 14 + Len(cell[1])
<1> DEFINE ss == PiecesBasic(CellFields, cell, 6)
           t == Len(cell[1])
           p == [i \in 0..6 |-> <<0, 2 + t, 3 + t, 7 + t, 11 + t, 12 + t, 14 + t>>[i + 1]]
<1>1. /\ ss \in Blocks(6, Byte) /\ PutsBasic(CellFields, cell) = FlattenSeq(ss)
      /\ PutsBasic(CellFields, cell) \in Seq(Byte)
      /\ \A i \in 1..6 : FitsBasic(CellFields[i], cell[i])
  BY CellShape, BasicFields
<1>2. \A i \in 1..6 : GoodBasic(CellFields[i]) /\ ss[i] = PutBasic(CellFields[i], cell[i])
  BY CellShape DEF PiecesBasic
<1> HIDE DEF ss
<1>3. t \in Nat /\ Len(ss[1]) = 2 + t
  <2>0. FitsBasic(CellFields[1], cell[1])
    BY <1>1
  <2>1. GoodBasic(Text) /\ FitsBasic(Text, cell[1])
    BY <2>0, CellShape, NumberKinds
  <2>2. Text.kind \in {"text", "blob"} /\ Text.width = 2
    BY DEF Text
  <2>3. t \in Nat /\ Len(PutBasic(Text, cell[1])) = Text.width + t
    BY <2>1, <2>2, BasicPut
  <2> QED
    BY <1>2, <2>2, <2>3, CellShape
<1>4. ASSUME NEW i \in 2..6 PROVE Len(ss[i]) = CellFields[i].width
  <2>1. i \in 1..6 /\ (i = 2 \/ i = 3 \/ i = 4 \/ i = 5 \/ i = 6)
    OBVIOUS
  <2>2. CellFields[i].kind \in Numbers
    BY <2>1, CellShape DEF Numbers, U8, U16, Color, Unsigned
  <2>3. GoodBasic(CellFields[i]) /\ FitsBasic(CellFields[i], cell[i])
    BY <1>1, <1>2, <2>1
  <2>4. Len(PutBasic(CellFields[i], cell[i])) = CellFields[i].width
    BY <2>2, <2>3, BasicPut
  <2> QED
    BY <1>2, <2>1, <2>4
<1>5. Len(ss[2]) = 1 /\ Len(ss[3]) = 4 /\ Len(ss[4]) = 4 /\ Len(ss[5]) = 1 /\ Len(ss[6]) = 2
  <2>1. U8.width = 1 /\ U16.width = 2 /\ Color.width = 4
    BY DEF U8, U16, Color, Unsigned
  <2>2. /\ Len(ss[2]) = CellFields[2].width /\ Len(ss[3]) = CellFields[3].width
        /\ Len(ss[4]) = CellFields[4].width /\ Len(ss[5]) = CellFields[5].width
        /\ Len(ss[6]) = CellFields[6].width
    BY <1>4
  <2> QED
    BY <2>1, <2>2, CellShape
<1> HIDE DEF t
<1>6. /\ p[0] = 0 /\ p[1] = 2 + t /\ p[2] = 3 + t /\ p[3] = 7 + t /\ p[4] = 11 + t
      /\ p[5] = 12 + t /\ p[6] = 14 + t
  OBVIOUS
<1> HIDE DEF p
<1>7. \A i \in 0..6 : p[i] \in Nat
  <2>1. \A i \in 0..6 : i = 0 \/ i = 1 \/ i = 2 \/ i = 3 \/ i = 4 \/ i = 5 \/ i = 6
    OBVIOUS
  <2> QED
    BY <1>3, <1>6, <2>1
<1>8. \A i \in 1..6 : Len(ss[i]) = p[i] - p[i - 1]
  <2>1. \A i \in 1..6 : i = 1 \/ i = 2 \/ i = 3 \/ i = 4 \/ i = 5 \/ i = 6
    OBVIOUS
  <2>2. /\ Len(ss[1]) = p[1] - p[0] /\ Len(ss[2]) = p[2] - p[1] /\ Len(ss[3]) = p[3] - p[2]
        /\ Len(ss[4]) = p[4] - p[3] /\ Len(ss[5]) = p[5] - p[4] /\ Len(ss[6]) = p[6] - p[5]
    BY <1>3, <1>5, <1>6
  <2> QED
    BY <2>1, <2>2
<1>9. Len(FlattenSeq(ss)) = p[6]
  <2>1. 6 \in Nat
    OBVIOUS
  <2> QED
    BY <1>1, <1>6, <1>7, <1>8, <2>1, FlattenSize
<1> QED
  BY <1>1, <1>3, <1>6, <1>9 DEF t

LEMMA RunPut ==
    ASSUME NEW cell, FitsAllBasic(CellFields, cell), NEW k \in 1..MaxRun
    PROVE  /\ PutRun(<<k, cell>>) = PutBasic(U16, k) \o PutsBasic(CellFields, cell)
           /\ FitsBasic(U16, k) /\ PutBasic(U16, k) \in Seq(Byte) /\ Len(PutBasic(U16, k)) = 2
           /\ PutRun(<<k, cell>>) \in Seq(Byte) /\ Len(cell[1]) \in Nat
           /\ Len(PutRun(<<k, cell>>)) = 16 + Len(cell[1])
<1>1. FitsBasic(U16, k)
  <2>1. MaxRun \in Nat /\ MaxRun < 65536
    BY CapAssumption, RestSmall
  <2>2. k \in Nat /\ Rest(k, 2) = 0
    BY <2>1, RestSmall
  <2> QED
    BY <2>2 DEF FitsBasic, U16, Unsigned
<1>2. PutBasic(U16, k) = Bytes(k, 2)
  BY DEF PutBasic, U16, Unsigned
<1>3. PutBasic(U16, k) \in Seq(Byte) /\ Len(PutBasic(U16, k)) = 2
  <2>1. k \in Int
    BY CapAssumption
  <2>2. Bytes(k, 2) \in Seq(Byte) /\ Len(Bytes(k, 2)) = 2
    BY <2>1, BytesType DEF Widest
  <2> QED
    BY <1>2, <2>2
<1>4. PutRun(<<k, cell>>) = PutBasic(U16, k) \o PutsBasic(CellFields, cell)
  <2> DEFINE run == <<k, cell>>
  <2>1. run[1] = k /\ run[2] = cell
    OBVIOUS
  <2> HIDE DEF run
  <2>2. PutRun(run) = Bytes(run[1], 2) \o PutsBasic(CellFields, run[2])
    BY Zenon DEF PutRun, PutsBasic
  <2> QED
    BY <1>2, <2>1, <2>2 DEF run
<1> DEFINE b == PutBasic(U16, k)
           q == PutsBasic(CellFields, cell)
           S == Byte
<1>5. b \in Seq(S) /\ q \in Seq(S)
  BY <1>3, CellPut
<1> HIDE DEF b, q, S
<1>6. b \o q \in Seq(S) /\ Len(b \o q) = Len(b) + Len(q)
  BY <1>5, ConcatParts
<1>7. Len(b) = 2 /\ Len(q) = 14 + Len(cell[1]) /\ Len(cell[1]) \in Nat
  BY <1>3, CellPut DEF b, q
<1>8. Len(b \o q) = 16 + Len(cell[1])
  BY <1>6, <1>7
<1> QED
  BY <1>1, <1>3, <1>4, <1>6, <1>7, <1>8 DEF b, q, S

LEMMA RunGet ==
    ASSUME NEW cell, FitsAllBasic(CellFields, cell), SaneCell(cell), NEW k \in 1..MaxRun,
           NEW B, NEW a, NEW x, There(B, a, PutRun(<<k, cell>>)), NEW f
    PROVE  GetRun(R(B, a, x), f) = R(B, a + Len(PutRun(<<k, cell>>)), <<k, cell>>)
<1> DEFINE b == PutBasic(U16, k)
           q == PutsBasic(CellFields, cell)
           length == R(B, a + 2, k)
           e == (a + 2) + Len(q)
           last == R(B, e, cell)
           put == PutRun(<<k, cell>>)
           n == Len(cell[1])
<1>1. /\ put = b \o q /\ FitsBasic(U16, k) /\ b \in Seq(Byte) /\ Len(b) = 2
      /\ q \in Seq(Byte) /\ Len(q) \in Nat /\ Len(put) = 2 + Len(q)
  <2>1. Len(q) = 14 + n /\ n \in Nat
    BY CellPut
  <2>2. /\ put = b \o q /\ FitsBasic(U16, k) /\ b \in Seq(Byte) /\ Len(b) = 2
        /\ q \in Seq(Byte) /\ Len(put) = 16 + n
    BY RunPut, CellPut
  <2> HIDE DEF b, q, put, n
  <2> QED
    BY <2>1, <2>2
<1>2. There(B, a, b) /\ There(B, a + 2, q)
  <2> HIDE DEF b, q
  <2> QED
    BY <1>1, AtConcat
<1>3. GetBasic(R(B, a, x), U16) = length
  BY <1>1, <1>2, NumberKinds, BasicGet
<1>4. AllBasic(length, CellFields) = last
  BY <1>2, CellShape, BasicFields
<1>5. length.ok /\ length.val = k /\ last.ok /\ last.val = cell
  BY RParts
<1>6. [last EXCEPT !.val = <<k, cell>>] = R(B, e, <<k, cell>>)
  BY ValuedIs
<1>7. k > 0
  BY CapAssumption
<1>8. e = a + Len(put)
  <2>1. a \in Nat
    BY <1>2 DEF There
  <2> HIDE DEF b, q, put
  <2> QED
    BY <1>1, <2>1
<1> HIDE DEF length, last, e
<1>9. RunOf(length, last) = [last EXCEPT !.val = <<k, cell>>]
  BY <1>5, <1>7, Zenon DEF RunOf
<1>10. GetRun(R(B, a, x), f) = RunOf(length, last)
  BY <1>3, <1>4, Zenon DEF GetRun, AllBasic
<1> QED
  BY <1>6, <1>8, <1>9, <1>10

(* Basic fields, and cells. *)
GoodPlain(f) == GoodBasic(f) \/ (f.kind = "cells" /\ f.least = 16)
GoodCells(v) ==
    /\ Len(v) \in Nat /\ Len(v) <= MaxGrid /\ v = Values(v, Len(v))
    /\ \A i \in 1..Len(v) : FitsAllBasic(CellFields, v[i]) /\ SaneCell(v[i])

LEMMA CellsFit ==
    ASSUME NEW f, f.kind = "cells", NEW v, FitsPlain(f, v)
    PROVE  GoodCells(v)
<1> DEFINE n == Len(v)
           shape == [i \in 1..n |-> f]
<1>1. FitsEach(FitsCell, f, v) /\ n <= MaxGrid
  BY Zenon DEF FitsPlain
<1>2. n \in Nat /\ v = [i \in DOMAIN shape |-> v[i]] /\ \A i \in DOMAIN shape : FitsCell(shape[i], v[i])
  BY <1>1, Zenon DEF FitsEach, FitsAll
<1>3. DOMAIN shape = 1..n
  OBVIOUS
<1> HIDE DEF shape
<1>4. \A i \in 1..n : FitsAllBasic(CellFields, v[i]) /\ SaneCell(v[i])
  BY <1>2, <1>3, Zenon DEF FitsCell, FitsAllBasic
<1> QED
  BY <1>1, <1>2, <1>3, <1>4 DEF GoodCells, Values

RunPieces(v) == [i \in 1..Len(ToRuns(v)) |-> PutRun(ToRuns(v)[i])]

LEMMA RunsPut ==
    ASSUME NEW v, GoodCells(v)
    PROVE  /\ Len(ToRuns(v)) \in Nat /\ ToRuns(v) = Values(ToRuns(v), Len(ToRuns(v)))
           /\ FromRuns(ToRuns(v)) = v
           /\ \A i \in 1..Len(ToRuns(v)) :
                 \E k \in 1..MaxRun : \E j \in 1..Len(v) : ToRuns(v)[i] = <<k, v[j]>>
           /\ RunPieces(v) \in Blocks(Len(ToRuns(v)), Byte)
           /\ PutRuns(ToRuns(v)) = Bytes(Len(ToRuns(v)), 4) \o FlattenSeq(RunPieces(v))
           /\ FlattenSeq(RunPieces(v)) \in Seq(Byte)
           /\ PutRuns(ToRuns(v)) \in Seq(Byte)
           /\ Len(PutRuns(ToRuns(v))) = 4 + Len(FlattenSeq(RunPieces(v)))
           /\ \A i \in 1..Len(ToRuns(v)) :
                 /\ Len(ToRuns(v)[i][2][1]) \in Nat
                 /\ Len(RunPieces(v)[i]) = 16 + Len(ToRuns(v)[i][2][1])
<1> DEFINE C == {v[i] : i \in 1..Len(v)}
           runs == ToRuns(v)
           n == Len(runs)
           ss == RunPieces(v)
           S == RunIn(C)
<1>1. Len(v) \in Nat /\ Len(v) <= MaxGrid /\ v = [i \in 1..Len(v) |-> v[i]]
  BY DEF GoodCells, Values
<1>2. v \in Seq(C) /\ \A c \in C : \E j \in 1..Len(v) : c = v[j]
  <2>1. \A i \in 1..Len(v) : v[i] \in C
    OBVIOUS
  <2>2. \A c \in C : \E j \in 1..Len(v) : c = v[j]
    OBVIOUS
  <2> HIDE DEF C
  <2> QED
    BY <1>1, <2>1, <2>2
<1> HIDE DEF C, runs
<1>3. runs \in Seq(S) /\ Spread(runs) = v
  BY <1>2, RunsOf DEF runs
<1>4. ASSUME NEW i \in 1..n PROVE \E k \in 1..MaxRun : \E j \in 1..Len(v) : runs[i] = <<k, v[j]>>
  <2>1. runs[i] \in RunIn(C)
    <3> HIDE DEF S
    <3>1. runs[i] \in S
      BY <1>3
    <3> QED
      BY <3>1 DEF S
  <2>2. PICK k \in 1..MaxRun, c \in C : runs[i] = <<k, c>>
    BY <2>1 DEF RunIn
  <2> QED
    BY <1>2, <2>2
<1> HIDE DEF S
<1>5. n \in Nat /\ runs = Values(runs, n) /\ DOMAIN runs = 1..n
  BY <1>3 DEF Values
<1>6. FromRuns(runs) = v
  <2>1. FromRuns(runs) = IF Len(Spread(runs)) > MaxGrid THEN <<>> ELSE Spread(runs)
    BY Zenon DEF FromRuns, Spread, Repeat
  <2>2. ~(Len(v) > MaxGrid)
    BY <1>1, CapAssumption
  <2> QED
    BY <1>3, <2>1, <2>2
<1>7. \A i \in 1..n : ss[i] = PutRun(runs[i])
  BY DEF RunPieces, runs
<1>8. ASSUME NEW i \in 1..n
      PROVE  ss[i] \in Seq(Byte) /\ Len(runs[i][2][1]) \in Nat /\ Len(ss[i]) = 16 + Len(runs[i][2][1])
  <2>1. PICK k \in 1..MaxRun, j \in 1..Len(v) : runs[i] = <<k, v[j]>>
    BY <1>4
  <2> DEFINE cell == v[j]
  <2>2. FitsAllBasic(CellFields, cell)
    BY DEF GoodCells
  <2>3. runs[i][2] = cell
    BY <2>1
  <2> HIDE DEF cell
  <2>4. /\ PutRun(<<k, cell>>) \in Seq(Byte) /\ Len(cell[1]) \in Nat
        /\ Len(PutRun(<<k, cell>>)) = 16 + Len(cell[1])
    BY <2>2, RunPut
  <2> QED
    BY <1>7, <2>1, <2>3, <2>4 DEF cell
<1>9. ss \in Blocks(n, Byte)
  BY <1>8 DEF RunPieces, runs, Blocks
<1>10. PutRuns(runs) = Bytes(n, 4) \o FlattenSeq(ss)
  <2>1. PutRuns(runs) = Bytes(Len(runs), 4) \o FlattenSeq([i \in DOMAIN runs |-> PutRun(runs[i])])
    BY Zenon DEF PutRuns
  <2>2. ss = [i \in DOMAIN runs |-> PutRun(runs[i])]
    BY <1>5 DEF RunPieces, runs
  <2> QED
    BY <2>1, <2>2
<1> HIDE DEF ss, n
<1> DEFINE q == FlattenSeq(ss)
           b == Bytes(n, 4)
           U == Byte
<1>11. q \in Seq(U)
  <2>1. Flattened(n, ss, Byte)
    BY <1>5, <1>9, FlattenIs
  <2> QED
    BY <1>5, <2>1 DEF Flattened
<1>12. b \in Seq(U) /\ Len(b) = 4
  <2>1. n \in Int
    BY <1>5
  <2> QED
    BY <2>1, BytesType DEF Widest
<1> HIDE DEF q, b, U
<1>13. b \o q \in Seq(U) /\ Len(b \o q) = 4 + Len(q)
  <2>1. b \o q \in Seq(U) /\ Len(b \o q) = Len(b) + Len(q)
    BY <1>11, <1>12, ConcatParts
  <2> QED
    BY <1>12, <2>1
<1> QED
  BY <1>4, <1>5, <1>6, <1>8, <1>9, <1>10, <1>11, <1>13 DEF q, b, U, n, runs, ss

LEMMA PlainPut ==
    ASSUME NEW f, GoodPlain(f), NEW v, FitsPlain(f, v)
    PROVE  PutPlain(f, v) \in Seq(Byte) /\ Len(PutPlain(f, v)) >= Floor(f)
<1>1. CASE f.kind = "cells"
  <2>1. GoodCells(v)
    BY <1>1, CellsFit
  <2>2. PutRuns(ToRuns(v)) \in Seq(Byte) /\ Len(PutRuns(ToRuns(v))) = 4 + Len(FlattenSeq(RunPieces(v)))
        /\ FlattenSeq(RunPieces(v)) \in Seq(Byte)
    BY <2>1, RunsPut
  <2>3. PutPlain(f, v) = PutRuns(ToRuns(v)) /\ Floor(f) = 4
    BY <1>1 DEF PutPlain, Floor
  <2> QED
    BY <2>2, <2>3
<1>2. CASE f.kind # "cells"
  <2>1. GoodBasic(f) /\ FitsBasic(f, v) /\ PutPlain(f, v) = PutBasic(f, v)
    BY <1>2, Zenon DEF GoodPlain, FitsPlain, PutPlain
  <2>2. f.kind # "list"
    BY <2>1 DEF GoodBasic, Numbers
  <2>3. Floor(f) = f.width
    BY <1>2, <2>2 DEF Floor
  <2> QED
    BY <2>1, <2>3, BasicPut
<1> QED
  BY <1>1, <1>2

LEMMA PlainGet ==
    ASSUME NEW f, GoodPlain(f), NEW v, FitsPlain(f, v), NEW B, NEW a, NEW x, There(B, a, PutPlain(f, v))
    PROVE  GetPlain(R(B, a, x), f) = R(B, a + Len(PutPlain(f, v)), v)
<1>1. CASE f.kind = "cells"
  <2> DEFINE runs == ToRuns(v)
             n == Len(runs)
             ss == RunPieces(v)
             e == a + Len(PutRuns(runs))
             last == R(B, e, runs)
  <2>1. GoodCells(v)
    BY <1>1, CellsFit
  <2>2. /\ n \in Nat /\ runs = Values(runs, n) /\ FromRuns(runs) = v /\ ss \in Blocks(n, Byte)
        /\ PutRuns(runs) = Bytes(n, 4) \o FlattenSeq(ss)
    BY <2>1, RunsPut
  <2>3. PutPlain(f, v) = PutRuns(runs)
    BY <1>1 DEF PutPlain
  <2>4. f.least = 16
    BY <1>1 DEF GoodPlain, GoodBasic, Numbers
  <2>5. \A i \in 1..n : Len(ss[i]) >= 16
    <3>1. \A i \in 1..n : Len(runs[i][2][1]) \in Nat /\ Len(ss[i]) = 16 + Len(runs[i][2][1])
      BY <2>1, RunsPut
    <3> HIDE DEF runs, n, ss
    <3> QED
      BY <3>1
  <2>6. ASSUME NEW i \in 1..n, NEW d, NEW y, There(B, d, ss[i])
        PROVE  GetRun(R(B, d, y), f) = R(B, d + Len(ss[i]), runs[i])
    <3>1. PICK k \in 1..MaxRun, j \in 1..Len(v) : runs[i] = <<k, v[j]>>
      BY <2>1, RunsPut
    <3> DEFINE cell == v[j]
    <3>2. FitsAllBasic(CellFields, cell) /\ SaneCell(cell)
      BY <2>1 DEF GoodCells
    <3>3. ss[i] = PutRun(<<k, cell>>)
      BY <3>1 DEF RunPieces
    <3> HIDE DEF cell, ss
    <3>4. GetRun(R(B, d, y), f) = R(B, d + Len(PutRun(<<k, cell>>)), <<k, cell>>)
      BY <2>6, <3>2, <3>3, RunGet
    <3> QED
      BY <3>1, <3>3, <3>4 DEF cell
  <2> HIDE DEF runs, n, ss
  <2>7. EntriesRun(R(B, a, x), f, 16) = R(B, a + Len(Bytes(n, 4) \o FlattenSeq(ss)), Values(runs, n))
    <3>1. There(B, a, Bytes(n, 4) \o FlattenSeq(ss))
      BY <2>2, <2>3
    <3>2. \A i \in 1..n : \A d, y :
              There(B, d, ss[i]) => GetRun(R(B, d, y), f) = R(B, d + Len(ss[i]), runs[i])
      BY <2>6
    <3> QED
      BY <2>2, <2>5, <3>1, <3>2, RunEntries
  <2>8. EntriesRun(R(B, a, x), f, 16) = last
    BY <2>2, <2>7
  <2>9. last.ok /\ last.val = runs /\ [last EXCEPT !.val = v] = R(B, e, v)
    BY RParts, ValuedIs
  <2> HIDE DEF last, e
  <2>10. GetPlain(R(B, a, x), f) = CellsOf(EntriesRun(R(B, a, x), f, 16))
    BY <1>1, <2>4, Zenon DEF GetPlain, GetRuns, EntriesRun
  <2>11. CellsOf(last) = [last EXCEPT !.val = v]
    BY <2>2, <2>9, Zenon DEF CellsOf
  <2> QED
    BY <2>3, <2>8, <2>9, <2>10, <2>11 DEF e
<1>2. CASE f.kind # "cells"
  <2>1. GoodBasic(f) /\ FitsBasic(f, v) /\ PutPlain(f, v) = PutBasic(f, v)
    BY <1>2, Zenon DEF GoodPlain, FitsPlain, PutPlain
  <2>2. GetPlain(R(B, a, x), f) = GetBasic(R(B, a, x), f)
    BY <1>2, Zenon DEF GetPlain
  <2> QED
    BY <2>1, <2>2, BasicGet
<1> QED
  BY <1>1, <1>2

PutsPlain(shape, vs) == Puts(PutPlain, shape, vs)
FitsAllPlain(shape, vs) == FitsAll(FitsPlain, shape, vs)
PiecesPlain(shape, vs, n) == [i \in 1..n |-> PutPlain(shape[i], vs[i])]

LEMMA PlainFields ==
    ASSUME NEW n, NEW shape, Shape(shape, n), \A i \in 1..n : GoodPlain(shape[i]),
           NEW vs, FitsAllPlain(shape, vs)
    PROVE  /\ PiecesPlain(shape, vs, n) \in Blocks(n, Byte)
           /\ PutsPlain(shape, vs) = FlattenSeq(PiecesPlain(shape, vs, n))
           /\ PutsPlain(shape, vs) \in Seq(Byte) /\ vs = Values(vs, n)
           /\ \A i \in 1..n : FitsPlain(shape[i], vs[i])
           /\ \A B, a, x : There(B, a, PutsPlain(shape, vs)) =>
                  AllPlain(R(B, a, x), shape) = R(B, a + Len(PutsPlain(shape, vs)), vs)
<1> DEFINE ss == PiecesPlain(shape, vs, n)
<1>1. n \in Nat /\ Len(shape) = n /\ DOMAIN shape = 1..n
  BY DEF Shape
<1>2. vs = [i \in DOMAIN shape |-> vs[i]] /\ \A i \in DOMAIN shape : FitsPlain(shape[i], vs[i])
  BY Zenon DEF FitsAllPlain, FitsAll
<1>3. vs = Values(vs, n) /\ \A i \in 1..n : FitsPlain(shape[i], vs[i])
  BY <1>1, <1>2 DEF Values
<1>4. PutsPlain(shape, vs) = FlattenSeq([i \in DOMAIN shape |-> PutPlain(shape[i], vs[i])])
  BY Zenon DEF PutsPlain, Puts
<1>5. PutsPlain(shape, vs) = FlattenSeq(ss)
  BY <1>1, <1>4 DEF PiecesPlain
<1>6. \A i \in 1..n : PutPlain(shape[i], vs[i]) \in Seq(Byte)
  BY <1>3, PlainPut
<1>7. ss \in Blocks(n, Byte) /\ \A i \in 1..n : ss[i] = PutPlain(shape[i], vs[i])
  BY <1>6 DEF PiecesPlain, Blocks
<1> HIDE DEF ss
<1>8. FlattenSeq(ss) \in Seq(Byte)
  <2>1. Flattened(n, ss, Byte)
    BY <1>1, <1>7, FlattenIs
  <2> QED
    BY <1>1, <2>1 DEF Flattened
<1>9. ASSUME NEW B, NEW a, NEW x, There(B, a, FlattenSeq(ss))
      PROVE  AllPlain(R(B, a, x), shape) = R(B, a + Len(FlattenSeq(ss)), Values(vs, n))
  <2>1. ASSUME NEW i \in 1..n, NEW e, NEW y, There(B, e, ss[i])
        PROVE  GetPlain(R(B, e, y), shape[i]) = R(B, e + Len(ss[i]), vs[i])
    BY <1>3, <1>7, <2>1, PlainGet
  <2> QED
    BY <1>1, <1>7, <1>9, <2>1, AllPlainIs
<1> QED
  BY <1>3, <1>5, <1>7, <1>8, <1>9 DEF ss

(* Lists of plain fields, and of groups of them. *)
GoodInnerEntry(f) ==
    \/ f.kind = "group" /\ \E n : Shape(f.of, n) /\ \A i \in 1..n : GoodPlain(f.of[i])
    \/ f.kind # "group" /\ GoodPlain(f)

LEMMA InnerEntryPut ==
    ASSUME NEW f, GoodInnerEntry(f), NEW v, FitsInnerEntry(f, v)
    PROVE  PutInnerEntry(f, v) \in Seq(Byte)
<1>1. CASE f.kind = "group"
  <2>1. PICK n : Shape(f.of, n) /\ \A i \in 1..n : GoodPlain(f.of[i])
    BY <1>1, Zenon DEF GoodInnerEntry
  <2>2. FitsAllPlain(f.of, v) /\ PutInnerEntry(f, v) = PutsPlain(f.of, v)
    BY <1>1, Zenon DEF FitsInnerEntry, FitsEntry, FitsAllPlain, PutInnerEntry, PutEntry, PutsPlain
  <2> QED
    BY <2>1, <2>2, PlainFields
<1>2. CASE f.kind # "group"
  <2>1. GoodPlain(f) /\ FitsPlain(f, v) /\ PutInnerEntry(f, v) = PutPlain(f, v)
    BY <1>2, Zenon DEF GoodInnerEntry, FitsInnerEntry, FitsEntry, PutInnerEntry, PutEntry
  <2> QED
    BY <2>1, PlainPut
<1> QED
  BY <1>1, <1>2

LEMMA InnerEntryGet ==
    ASSUME NEW f, GoodInnerEntry(f), NEW v, FitsInnerEntry(f, v),
           NEW B, NEW a, NEW x, There(B, a, PutInnerEntry(f, v))
    PROVE  InnerEntry(R(B, a, x), f) = R(B, a + Len(PutInnerEntry(f, v)), v)
<1>1. CASE f.kind = "group"
  <2>1. PICK n : Shape(f.of, n) /\ \A i \in 1..n : GoodPlain(f.of[i])
    BY <1>1, Zenon DEF GoodInnerEntry
  <2>2. FitsAllPlain(f.of, v) /\ PutInnerEntry(f, v) = PutsPlain(f.of, v)
    BY <1>1, Zenon DEF FitsInnerEntry, FitsEntry, FitsAllPlain, PutInnerEntry, PutEntry, PutsPlain
  <2>3. InnerEntry(R(B, a, x), f) = AllPlain(R(B, a, x), f.of)
    BY <1>1, Zenon DEF InnerEntry, GetEntry, AllPlain
  <2> QED
    BY <2>1, <2>2, <2>3, PlainFields
<1>2. CASE f.kind # "group"
  <2>1. GoodPlain(f) /\ FitsPlain(f, v) /\ PutInnerEntry(f, v) = PutPlain(f, v)
    BY <1>2, Zenon DEF GoodInnerEntry, FitsInnerEntry, FitsEntry, PutInnerEntry, PutEntry
  <2>2. InnerEntry(R(B, a, x), f) = GetPlain(R(B, a, x), f)
    BY <1>2, Zenon DEF InnerEntry, GetEntry
  <2> QED
    BY <2>1, <2>2, PlainGet
<1> QED
  BY <1>1, <1>2

EntriesInnerEntry(r, f, least) == GetEntries(InnerEntry, r, f, least)

LEMMA InnerEntryEntries ==
    ASSUME NEW n \in Nat, NEW ss \in Blocks(n, Byte), NEW f, NEW least \in Nat \ {0}, NEW vs,
           \A i \in 1..n : Len(ss[i]) >= least,
           NEW B, NEW a, NEW x, There(B, a, Bytes(n, 4) \o FlattenSeq(ss)),
           \A i \in 1..n : \A e, y :
               There(B, e, ss[i]) => InnerEntry(R(B, e, y), f) = R(B, e + Len(ss[i]), vs[i])
    PROVE  EntriesInnerEntry(R(B, a, x), f, least)
             = R(B, a + Len(Bytes(n, 4) \o FlattenSeq(ss)), Values(vs, n))
<1> DEFINE q == FlattenSeq(ss)
           c == R(B, a + 4, n)
           shape == [i \in 1..n |-> f]
<1>1. q \in Seq(Byte)
  <2>1. Flattened(n, ss, Byte)
    BY FlattenIs
  <2> QED
    BY <2>1 DEF Flattened
<1>2. n * least <= Len(q)
  BY FlattenLeast
<1>3. CountOf(GetBasic(R(B, a, x), U32), least) = c /\ There(B, a + 4, q)
      /\ Len(Bytes(n, 4) \o q) = 4 + Len(q) /\ c.ok /\ c.val = n
  <2> HIDE DEF q
  <2>1. There(B, a, Bytes(n, 4) \o q)
    BY DEF q
  <2> QED
    BY <1>1, <1>2, <2>1, CountIs
<1>4. Len(shape) = n /\ \A i \in 1..n : shape[i] = f
  OBVIOUS
<1> HIDE DEF c
<1>5. EntriesInnerEntry(R(B, a, x), f, least) = AllInnerEntry(c, [i \in 1..c.val |-> f])
  BY <1>3, Zenon DEF EntriesInnerEntry, GetEntries, GetCounted, AllInnerEntry
<1>6. EntriesInnerEntry(R(B, a, x), f, least) = AllInnerEntry(c, shape)
  BY <1>3, <1>5
<1> HIDE DEF shape, q
<1>7. AllInnerEntry(R(B, a + 4, n), shape) = R(B, (a + 4) + Len(q), Values(vs, n))
  <2>1. \A i \in 1..n : \A e, y :
            There(B, e, ss[i]) => InnerEntry(R(B, e, y), shape[i]) = R(B, e + Len(ss[i]), vs[i])
    BY <1>4
  <2>2. There(B, a + 4, FlattenSeq(ss))
    BY <1>3 DEF q
  <2> QED
    BY ONLY n \in Nat, ss \in Blocks(n, Byte), <1>4, <2>1, <2>2, AllInnerEntryIs DEF q
<1>8. (a + 4) + Len(q) = a + (4 + Len(q))
  <2>1. a \in Nat /\ Len(q) \in Nat
    BY <1>1, <1>3 DEF There
  <2> QED
    BY <2>1
<1> QED
  BY <1>3, <1>6, <1>7, <1>8 DEF c, q

FitsEachInnerEntry(f, v) == FitsEach(FitsInnerEntry, f, v)
PiecesInnerEntry(f, v) == [i \in 1..Len(v) |-> PutInnerEntry(f, v[i])]
GoodInner(f) ==
    \/ /\ f.kind = "list" /\ GoodInnerEntry(f.of) /\ f.least \in Nat \ {0}
       /\ \A v : FitsInnerEntry(f.of, v) => Len(PutInnerEntry(f.of, v)) >= f.least
    \/ f.kind # "list" /\ GoodPlain(f)

LEMMA InnerList ==
    ASSUME NEW f, f.kind = "list", GoodInner(f), NEW v, FitsInner(f, v)
    PROVE  /\ Len(v) \in Nat /\ v = Values(v, Len(v)) /\ \A i \in 1..Len(v) : FitsInnerEntry(f.of, v[i])
           /\ PiecesInnerEntry(f.of, v) \in Blocks(Len(v), Byte)
           /\ \A i \in 1..Len(v) : Len(PiecesInnerEntry(f.of, v)[i]) >= f.least
           /\ FlattenSeq(PiecesInnerEntry(f.of, v)) \in Seq(Byte)
           /\ PutInner(f, v) = Bytes(Len(v), 4) \o FlattenSeq(PiecesInnerEntry(f.of, v))
           /\ PutInner(f, v) \in Seq(Byte)
           /\ Len(PutInner(f, v)) = 4 + Len(FlattenSeq(PiecesInnerEntry(f.of, v)))
<1> DEFINE n == Len(v)
           shape == [i \in 1..n |-> f.of]
           ss == PiecesInnerEntry(f.of, v)
<1>1. FitsEachInnerEntry(f.of, v)
  BY Zenon DEF FitsInner, FitsWith, FitsEachInnerEntry
<1>2. n \in Nat /\ v = [i \in DOMAIN shape |-> v[i]] /\ \A i \in DOMAIN shape : FitsInnerEntry(shape[i], v[i])
  BY <1>1, Zenon DEF FitsEachInnerEntry, FitsEach, FitsAll
<1>3. DOMAIN shape = 1..n /\ \A i \in 1..n : shape[i] = f.of
  OBVIOUS
<1> HIDE DEF shape
<1>4. v = Values(v, n) /\ \A i \in 1..n : FitsInnerEntry(f.of, v[i])
  BY <1>2, <1>3 DEF Values
<1>5. /\ GoodInnerEntry(f.of) /\ f.least \in Nat \ {0}
      /\ \A w : FitsInnerEntry(f.of, w) => Len(PutInnerEntry(f.of, w)) >= f.least
  BY Zenon DEF GoodInner
<1>6. \A i \in 1..n : PutInnerEntry(f.of, v[i]) \in Seq(Byte) /\ Len(PutInnerEntry(f.of, v[i])) >= f.least
  BY <1>4, <1>5, InnerEntryPut
<1>7. ss \in Blocks(n, Byte) /\ \A i \in 1..n : Len(ss[i]) >= f.least
  BY <1>6 DEF PiecesInnerEntry, Blocks
<1>8. PutInner(f, v) = Bytes(n, 4) \o FlattenSeq(ss)
  <2>1. PutInner(f, v) = Bytes(Len(v), 4) \o FlattenSeq([i \in DOMAIN v |-> PutInnerEntry(f.of, v[i])])
    BY Zenon DEF PutInner, PutWith
  <2>2. DOMAIN v = 1..n
    BY <1>4 DEF Values
  <2> QED
    BY <2>1, <2>2 DEF PiecesInnerEntry
<1> HIDE DEF ss, n
<1> DEFINE q == FlattenSeq(ss)
           b == Bytes(n, 4)
           U == Byte
<1>9. q \in Seq(U)
  <2>1. Flattened(n, ss, Byte)
    BY <1>2, <1>7, FlattenIs
  <2> QED
    BY <1>2, <2>1 DEF Flattened
<1>10. b \in Seq(U) /\ Len(b) = 4
  <2>1. n \in Int
    BY <1>2
  <2> QED
    BY <2>1, BytesType DEF Widest
<1> HIDE DEF q, b, U
<1>11. b \o q \in Seq(U) /\ Len(b \o q) = 4 + Len(q)
  <2>1. b \o q \in Seq(U) /\ Len(b \o q) = Len(b) + Len(q)
    BY <1>9, <1>10, ConcatParts
  <2> QED
    BY <1>10, <2>1
<1> QED
  BY <1>2, <1>4, <1>7, <1>8, <1>9, <1>11 DEF q, b, U, n, ss

LEMMA InnerPut ==
    ASSUME NEW f, GoodInner(f), NEW v, FitsInner(f, v)
    PROVE  PutInner(f, v) \in Seq(Byte) /\ Len(PutInner(f, v)) >= Floor(f)
<1>1. CASE f.kind = "list"
  <2>1. /\ PutInner(f, v) \in Seq(Byte) /\ Floor(f) = 4
        /\ Len(PutInner(f, v)) = 4 + Len(FlattenSeq(PiecesInnerEntry(f.of, v)))
        /\ FlattenSeq(PiecesInnerEntry(f.of, v)) \in Seq(Byte)
    BY <1>1, InnerList DEF Floor
  <2> QED
    BY <2>1
<1>2. CASE f.kind # "list"
  <2>1. GoodPlain(f) /\ FitsPlain(f, v) /\ PutInner(f, v) = PutPlain(f, v)
    BY <1>2, Zenon DEF GoodInner, FitsInner, FitsWith, PutInner, PutWith
  <2> QED
    BY <2>1, PlainPut
<1> QED
  BY <1>1, <1>2

LEMMA InnerGet ==
    ASSUME NEW f, GoodInner(f), NEW v, FitsInner(f, v), NEW B, NEW a, NEW x, There(B, a, PutInner(f, v))
    PROVE  GetInner(R(B, a, x), f) = R(B, a + Len(PutInner(f, v)), v)
<1>1. CASE f.kind = "list"
  <2> DEFINE n == Len(v)
             ss == PiecesInnerEntry(f.of, v)
  <2>1. /\ n \in Nat /\ v = Values(v, n) /\ \A i \in 1..n : FitsInnerEntry(f.of, v[i])
        /\ ss \in Blocks(n, Byte) /\ \A i \in 1..n : Len(ss[i]) >= f.least
        /\ PutInner(f, v) = Bytes(n, 4) \o FlattenSeq(ss)
    BY <1>1, InnerList
  <2>2. GoodInnerEntry(f.of) /\ f.least \in Nat \ {0}
    BY <1>1, Zenon DEF GoodInner
  <2>3. \A i \in 1..n : ss[i] = PutInnerEntry(f.of, v[i])
    BY DEF PiecesInnerEntry
  <2> HIDE DEF n, ss
  <2>4. \A i \in 1..n : \A d, y :
            There(B, d, ss[i]) => InnerEntry(R(B, d, y), f.of) = R(B, d + Len(ss[i]), v[i])
    BY <2>1, <2>2, <2>3, InnerEntryGet
  <2>5. EntriesInnerEntry(R(B, a, x), f.of, f.least)
          = R(B, a + Len(Bytes(n, 4) \o FlattenSeq(ss)), Values(v, n))
    <3>1. There(B, a, Bytes(n, 4) \o FlattenSeq(ss))
      BY <2>1
    <3> QED
      BY <2>1, <2>2, <2>4, <3>1, InnerEntryEntries
  <2>6. GetInner(R(B, a, x), f) = EntriesInnerEntry(R(B, a, x), f.of, f.least)
    BY <1>1, Zenon DEF GetInner, GetWith, EntriesInnerEntry
  <2> QED
    BY <2>1, <2>5, <2>6
<1>2. CASE f.kind # "list"
  <2>1. GoodPlain(f) /\ FitsPlain(f, v) /\ PutInner(f, v) = PutPlain(f, v)
    BY <1>2, Zenon DEF GoodInner, FitsInner, FitsWith, PutInner, PutWith
  <2>2. GetInner(R(B, a, x), f) = GetPlain(R(B, a, x), f)
    BY <1>2, Zenon DEF GetInner, GetWith
  <2> QED
    BY <2>1, <2>2, PlainGet
<1> QED
  BY <1>1, <1>2

PutsInner(shape, vs) == Puts(PutInner, shape, vs)
FitsAllInner(shape, vs) == FitsAll(FitsInner, shape, vs)
PiecesInner(shape, vs, n) == [i \in 1..n |-> PutInner(shape[i], vs[i])]

LEMMA InnerFields ==
    ASSUME NEW n, NEW shape, Shape(shape, n), \A i \in 1..n : GoodInner(shape[i]),
           NEW vs, FitsAllInner(shape, vs)
    PROVE  /\ PiecesInner(shape, vs, n) \in Blocks(n, Byte)
           /\ PutsInner(shape, vs) = FlattenSeq(PiecesInner(shape, vs, n))
           /\ PutsInner(shape, vs) \in Seq(Byte) /\ vs = Values(vs, n)
           /\ \A i \in 1..n : FitsInner(shape[i], vs[i])
           /\ \A B, a, x : There(B, a, PutsInner(shape, vs)) =>
                  AllInner(R(B, a, x), shape) = R(B, a + Len(PutsInner(shape, vs)), vs)
<1> DEFINE ss == PiecesInner(shape, vs, n)
<1>1. n \in Nat /\ Len(shape) = n /\ DOMAIN shape = 1..n
  BY DEF Shape
<1>2. vs = [i \in DOMAIN shape |-> vs[i]] /\ \A i \in DOMAIN shape : FitsInner(shape[i], vs[i])
  BY Zenon DEF FitsAllInner, FitsAll
<1>3. vs = Values(vs, n) /\ \A i \in 1..n : FitsInner(shape[i], vs[i])
  BY <1>1, <1>2 DEF Values
<1>4. PutsInner(shape, vs) = FlattenSeq([i \in DOMAIN shape |-> PutInner(shape[i], vs[i])])
  BY Zenon DEF PutsInner, Puts
<1>5. PutsInner(shape, vs) = FlattenSeq(ss)
  BY <1>1, <1>4 DEF PiecesInner
<1>6. \A i \in 1..n : PutInner(shape[i], vs[i]) \in Seq(Byte)
  BY <1>3, InnerPut
<1>7. ss \in Blocks(n, Byte) /\ \A i \in 1..n : ss[i] = PutInner(shape[i], vs[i])
  BY <1>6 DEF PiecesInner, Blocks
<1> HIDE DEF ss
<1>8. FlattenSeq(ss) \in Seq(Byte)
  <2>1. Flattened(n, ss, Byte)
    BY <1>1, <1>7, FlattenIs
  <2> QED
    BY <1>1, <2>1 DEF Flattened
<1>9. ASSUME NEW B, NEW a, NEW x, There(B, a, FlattenSeq(ss))
      PROVE  AllInner(R(B, a, x), shape) = R(B, a + Len(FlattenSeq(ss)), Values(vs, n))
  <2>1. ASSUME NEW i \in 1..n, NEW e, NEW y, There(B, e, ss[i])
        PROVE  GetInner(R(B, e, y), shape[i]) = R(B, e + Len(ss[i]), vs[i])
    BY <1>3, <1>7, <2>1, InnerGet
  <2> QED
    BY <1>1, <1>7, <1>9, <2>1, AllInnerIs
<1> QED
  BY <1>3, <1>5, <1>7, <1>8, <1>9 DEF ss

(***************************************************************************)
(* The shapes: what is written is what is read, but for what only a reader *)
(* looks at.                                                               *)
(***************************************************************************)
SameInner(w, r) == GoodInner(r) /\ \A v : PutInner(w, v) = PutInner(r, v)
SamePlain(w, r) == /\ GoodPlain(r) /\ r.kind # "list" /\ w.kind # "list"
                     /\ \A v : PutPlain(w, v) = PutPlain(r, v)

LEMMA InnerOfPlain ==
    ASSUME NEW w, NEW r, SamePlain(w, r)
    PROVE  SameInner(w, r)
<1>1. \A v : PutInner(w, v) = PutPlain(w, v) /\ PutInner(r, v) = PutPlain(r, v)
  BY Zenon DEF SamePlain, PutInner, PutWith
<1> QED
  BY <1>1, Zenon DEF SamePlain, SameInner, GoodInner

LEMMA PlainOfBasic ==
    ASSUME NEW f, GoodBasic(f)
    PROVE  SamePlain(f, f) /\ SameInner(f, f)
<1>1. f.kind # "list"
  BY DEF GoodBasic, Numbers
<1>2. SamePlain(f, f)
  <2>1. GoodPlain(f)
    BY Zenon DEF GoodPlain
  <2>2. \A v : PutPlain(f, v) = PutPlain(f, v)
    BY Zenon
  <2> QED
    BY <1>1, <2>1, <2>2, Zenon DEF SamePlain
<1> QED
  BY <1>2, InnerOfPlain

LEMMA SameBasics ==
    /\ SameInner(U8, U8) /\ SameInner(U16, U16) /\ SameInner(U32, U32) /\ SameInner(U64, U64)
    /\ SameInner(I16, I16) /\ SameInner(I32, I32) /\ SameInner(I64, I64) /\ SameInner(Text, Text)
    /\ \A top \in 0..255 : SameInner(Enum(top), Enum(top))
BY NumberKinds, PlainOfBasic

LEMMA SameBlobs ==
    SameInner(Whole, Short) /\ SameInner(Whole, Chunk)
<1>1. ASSUME NEW cap \in Nat PROVE SamePlain(Whole, Blob(cap))
  <2> DEFINE r == Blob(cap)
  <2>1. /\ Whole.kind = "blob" /\ r.kind = "blob" /\ GoodBasic(r)
    BY NumberKinds DEF Whole, Blob
  <2> HIDE DEF r
  <2>2. \A v : PutPlain(Whole, v) = Bytes(Len(v), 4) \o v /\ PutPlain(r, v) = Bytes(Len(v), 4) \o v
    BY <2>1 DEF PutPlain, PutBasic
  <2>3. GoodPlain(r) /\ r.kind # "list" /\ Whole.kind # "list"
    BY <2>1 DEF GoodPlain
  <2>4. \A v : PutPlain(Whole, v) = PutPlain(r, v)
    BY <2>2
  <2> QED
    BY <2>3, <2>4, Zenon DEF SamePlain, r
<1>2. MaxString \in Nat /\ MaxChunk \in Nat
  BY CapAssumption
<1> QED
  BY <1>1, <1>2, InnerOfPlain DEF Short, Chunk

LEMMA SameRuns ==
    SamePlain(WRuns, RRuns) /\ SameInner(WRuns, RRuns) /\ SameInner(WLines, RLines)
<1>1. /\ WRuns.kind = "cells" /\ RRuns.kind = "cells" /\ RRuns.least = 16
      /\ WLines.kind = "list" /\ RLines.kind = "list" /\ RLines.least = 4
      /\ WLines.of = WRuns /\ RLines.of = RRuns
  BY DEF WRuns, RRuns, Cells, WLines, RLines, Each, List
<1>2. \A v : PutPlain(WRuns, v) = PutPlain(RRuns, v)
  BY <1>1, Zenon DEF PutPlain
<1>3. SamePlain(WRuns, RRuns)
  BY <1>1, <1>2 DEF SamePlain, GoodPlain
<1>4. ASSUME NEW v PROVE PutInner(WLines, v) = PutInner(RLines, v)
  <2>1. \A e : PutInnerEntry(WRuns, e) = PutInnerEntry(RRuns, e)
    BY <1>1, <1>2, Zenon DEF PutInnerEntry, PutEntry
  <2>2. [i \in DOMAIN v |-> PutInnerEntry(WRuns, v[i])] = [i \in DOMAIN v |-> PutInnerEntry(RRuns, v[i])]
    BY <2>1
  <2>3. /\ PutInner(WLines, v)
             = Bytes(Len(v), 4) \o FlattenSeq([i \in DOMAIN v |-> PutInnerEntry(WRuns, v[i])])
        /\ PutInner(RLines, v)
             = Bytes(Len(v), 4) \o FlattenSeq([i \in DOMAIN v |-> PutInnerEntry(RRuns, v[i])])
    BY <1>1, Zenon DEF PutInner, PutWith
  <2> QED
    BY <2>2, <2>3, Zenon
<1>5. GoodInner(RLines)
  <2>1. GoodPlain(RRuns) /\ GoodInnerEntry(RRuns)
    BY <1>1, Zenon DEF GoodPlain, GoodInnerEntry
  <2>2. ASSUME NEW v, FitsInnerEntry(RRuns, v) PROVE Len(PutInnerEntry(RRuns, v)) >= 4
    <3>1. FitsPlain(RRuns, v) /\ PutInnerEntry(RRuns, v) = PutPlain(RRuns, v)
      BY <1>1, <2>2, Zenon DEF FitsInnerEntry, FitsEntry, PutInnerEntry, PutEntry
    <3>2. Floor(RRuns) = 4
      BY <1>1 DEF Floor
    <3> QED
      BY <2>1, <3>1, <3>2, PlainPut
  <2>3. RLines.least \in Nat \ {0}
    BY <1>1
  <2> QED
    BY <1>1, <2>1, <2>2, <2>3 DEF GoodInner
<1> QED
  BY <1>3, <1>4, <1>5, InnerOfPlain DEF SameInner

\* Two shapes of n fields, written and read.
InnerShapes(w, r, n) ==
    /\ Shape(w, n) /\ Shape(r, n) /\ \A i \in 1..n : SameInner(w[i], r[i])

LEMMA InnerWritten ==
    ASSUME NEW w, NEW r, NEW n, InnerShapes(w, r, n), NEW vs
    PROVE  PutsInner(w, vs) = PutsInner(r, vs)
<1>1. DOMAIN w = 1..n /\ DOMAIN r = 1..n /\ \A i \in 1..n : PutInner(w[i], vs[i]) = PutInner(r[i], vs[i])
  BY Zenon DEF InnerShapes, Shape, SameInner
<1>2. [i \in DOMAIN w |-> PutInner(w[i], vs[i])] = [i \in DOMAIN r |-> PutInner(r[i], vs[i])]
  BY <1>1
<1>3. /\ PutsInner(w, vs) = FlattenSeq([i \in DOMAIN w |-> PutInner(w[i], vs[i])])
      /\ PutsInner(r, vs) = FlattenSeq([i \in DOMAIN r |-> PutInner(r[i], vs[i])])
  BY Zenon DEF PutsInner, Puts
<1> QED
  BY <1>2, <1>3, Zenon

LEMMA OpShapes ==
    ASSUME NEW tag \in 0..6
    PROVE  \E n \in Nat \ {0} : /\ InnerShapes(OpWritten(tag), OpRead(tag), n)
                                /\ Floor(OpRead(tag)[1]) >= 2
<1>1. U16.width = 2 /\ U32.width = 4 /\ Text.width = 2 /\ Floor(RLines) = 4
  BY DEF U16, U32, Text, Unsigned, Floor, RLines, List
<1>2. Floor(U16) = 2 /\ Floor(U32) = 4 /\ Floor(Text) = 2
  BY <1>1 DEF U16, U32, Text, Unsigned, Floor
<1>3. CASE tag = 0
  <2>1. OpWritten(tag) = <<U16, U16, I16>> /\ OpRead(tag) = <<U16, U16, I16>>
    BY <1>3 DEF OpWritten, OpRead
  <2>2. InnerShapes(<<U16, U16, I16>>, <<U16, U16, I16>>, 3)
    BY SameBasics DEF InnerShapes, Shape
  <2> QED
    BY <1>2, <2>1, <2>2
<1>4. CASE tag = 1
  <2>1. OpWritten(tag) = <<U16, U16, WRuns>> /\ OpRead(tag) = <<U16, U16, RRuns>>
    BY <1>4 DEF OpWritten, OpRead
  <2>2. InnerShapes(<<U16, U16, WRuns>>, <<U16, U16, RRuns>>, 3)
    BY SameBasics, SameRuns DEF InnerShapes, Shape
  <2> QED
    BY <1>2, <2>1, <2>2
<1>5. CASE tag = 2
  <2>1. OpWritten(tag) = Cursor /\ OpRead(tag) = Cursor
    BY <1>5 DEF OpWritten, OpRead
  <2>2. InnerShapes(Cursor, Cursor, 5) /\ Cursor[1] = U16
    BY SameBasics DEF InnerShapes, Shape, Cursor
  <2> QED
    BY <1>2, <2>1, <2>2
<1>6. CASE tag = 3
  <2>1. OpWritten(tag) = <<U32, U32>> /\ OpRead(tag) = <<U32, U32>>
    BY <1>6 DEF OpWritten, OpRead
  <2>2. InnerShapes(<<U32, U32>>, <<U32, U32>>, 2)
    BY SameBasics DEF InnerShapes, Shape
  <2> QED
    BY <1>2, <2>1, <2>2
<1>7. CASE tag = 4
  <2>1. OpWritten(tag) = <<Text>> /\ OpRead(tag) = <<Text>>
    BY <1>7 DEF OpWritten, OpRead
  <2>2. InnerShapes(<<Text>>, <<Text>>, 1)
    BY SameBasics DEF InnerShapes, Shape
  <2> QED
    BY <1>2, <2>1, <2>2
<1>8. CASE tag = 5
  <2>1. OpWritten(tag) = <<WLines>> /\ OpRead(tag) = <<RLines>>
    BY <1>8 DEF OpWritten, OpRead
  <2>2. InnerShapes(<<WLines>>, <<RLines>>, 1)
    BY SameRuns DEF InnerShapes, Shape
  <2> QED
    BY <1>1, <2>1, <2>2
<1>9. CASE tag = 6
  <2>1. OpWritten(tag) = <<U16, U16>> /\ OpRead(tag) = <<U16, U16>>
    BY <1>9 DEF OpWritten, OpRead
  <2>2. InnerShapes(<<U16, U16>>, <<U16, U16>>, 2)
    BY SameBasics DEF InnerShapes, Shape
  <2> QED
    BY <1>2, <2>1, <2>2
<1>10. tag = 0 \/ tag = 1 \/ tag = 2 \/ tag = 3 \/ tag = 4 \/ tag = 5 \/ tag = 6
  OBVIOUS
<1> QED
  BY <1>3, <1>4, <1>5, <1>6, <1>7, <1>8, <1>9, <1>10

LEMMA FirstField ==
    ASSUME NEW n \in Nat \ {0}, NEW ss \in Blocks(n, Byte), NEW m \in Nat, Len(ss[1]) >= m
    PROVE  Len(FlattenSeq(ss)) >= m
<1> DEFINE p == [i \in 0..n |-> IF i = 0 THEN 0 ELSE m]
<1>1. p[0] = 0 /\ \A i \in 1..n : p[i] = m
  OBVIOUS
<1>2. \A i \in 0..n : p[i] \in Nat
  OBVIOUS
<1> HIDE DEF p
<1>3. \A i \in 1..n : Len(ss[i]) >= p[i] - p[i - 1]
  <2> TAKE i \in 1..n
  <2>1. CASE i = 1
    BY <1>1, <2>1
  <2>2. CASE i # 1
    <3>1. i - 1 \in 1..n /\ ss[i] \in Seq(Byte)
      BY <2>2 DEF Blocks
    <3>2. Len(ss[i]) \in Nat
      BY <3>1
    <3> QED
      BY <1>1, <3>1, <3>2
  <2> QED
    BY <2>1, <2>2
<1>4. Len(FlattenSeq(ss)) >= p[n]
  BY <1>1, <1>2, <1>3, FlattenSize
<1> QED
  BY <1>1, <1>4

(* An operation is a tag and the fields of its shape. *)
LEMMA OpPut ==
    ASSUME NEW f, f.kind = "op", NEW v, FitsFieldEntry(f, v)
    PROVE  /\ v = [tag |-> v.tag, fields |-> v.fields] /\ v.tag \in 0..6
           /\ FitsAllInner(OpRead(v.tag), v.fields)
           /\ FitsBasic(Enum(6), v.tag) /\ GoodBasic(Enum(6))
           /\ PutBasic(Enum(6), v.tag) \in Seq(Byte) /\ Len(PutBasic(Enum(6), v.tag)) = 1
           /\ PutsInner(OpRead(v.tag), v.fields) \in Seq(Byte)
           /\ PutFieldEntry(f, v) = PutBasic(Enum(6), v.tag) \o PutsInner(OpRead(v.tag), v.fields)
           /\ PutFieldEntry(f, v) \in Seq(Byte) /\ Len(PutFieldEntry(f, v)) >= 3
           /\ Len(PutFieldEntry(f, v)) = 1 + Len(PutsInner(OpRead(v.tag), v.fields))
<1>1. /\ v = [tag |-> v.tag, fields |-> v.fields] /\ v.tag \in 0..6
      /\ FitsAllInner(OpRead(v.tag), v.fields)
  BY Zenon DEF FitsFieldEntry, FitsAllInner
<1> DEFINE t == v.tag
           b == PutBasic(Enum(6), t)
           q == PutsInner(OpRead(t), v.fields)
           U == Byte
<1>2. FitsBasic(Enum(6), t)
  BY <1>1 DEF FitsBasic, Enum
<1>3. b = Bytes(t, 1)
  BY DEF PutBasic, Enum
<1>4. b \in Seq(U) /\ Len(b) = 1
  <2>1. t \in Int
    BY <1>1
  <2> HIDE DEF t
  <2>2. Bytes(t, 1) \in Seq(Byte) /\ Len(Bytes(t, 1)) = 1
    BY <2>1, BytesType DEF Widest
  <2> QED
    BY <1>3, <2>2
<1>5. PICK n \in Nat \ {0} : InnerShapes(OpWritten(t), OpRead(t), n) /\ Floor(OpRead(t)[1]) >= 2
  BY <1>1, OpShapes
<1>6. PutFieldEntry(f, v) = Bytes(t, 1) \o PutsInner(OpWritten(t), v.fields)
  BY Zenon DEF PutFieldEntry, PutsInner
<1>7. PutFieldEntry(f, v) = b \o q
  <2>1. PutsInner(OpWritten(t), v.fields) = q
    BY <1>5, InnerWritten
  <2> QED
    BY <1>3, <1>6, <2>1
<1> DEFINE ss == PiecesInner(OpRead(t), v.fields, n)
<1>8. Shape(OpRead(t), n) /\ \A i \in 1..n : GoodInner(OpRead(t)[i])
  BY <1>5, Zenon DEF InnerShapes, SameInner
<1>9. /\ ss \in Blocks(n, Byte) /\ q = FlattenSeq(ss) /\ q \in Seq(U)
      /\ \A i \in 1..n : FitsInner(OpRead(t)[i], v.fields[i])
  BY <1>1, <1>8, InnerFields
<1>10. Len(q) >= 2 /\ Len(q) \in Nat
  <2>1. 1 \in 1..n
    BY <1>5
  <2>2. Len(ss[1]) >= Floor(OpRead(t)[1])
    <3>1. ss[1] = PutInner(OpRead(t)[1], v.fields[1])
      BY <2>1 DEF PiecesInner
    <3> QED
      BY <1>8, <1>9, <2>1, <3>1, InnerPut
  <2>3. Len(ss[1]) \in Nat
    <3>1. ss[1] \in Seq(Byte)
      BY <1>9, <2>1 DEF Blocks
    <3> QED
      BY <3>1
  <2>4. Floor(OpRead(t)[1]) \in Nat
    <3>1. GoodInner(OpRead(t)[1])
      BY <1>8, <2>1
    <3> DEFINE g == OpRead(t)[1]
    <3>2. g.kind \in {"list", "cells"} \/ GoodBasic(g)
      BY <3>1, Zenon DEF GoodInner, GoodPlain
    <3> HIDE DEF g
    <3>3. Floor(g) \in Nat
      BY <3>2 DEF Floor, GoodBasic, Widest
    <3> QED
      BY <3>3 DEF g
  <2>5. Len(ss[1]) >= 2
    BY <1>5, <2>2, <2>3, <2>4
  <2> HIDE DEF ss
  <2>6. Len(FlattenSeq(ss)) >= 2
    BY <1>5, <1>9, <2>5, FirstField
  <2>7. q \in Seq(U) /\ q = FlattenSeq(ss)
    BY <1>9
  <2> HIDE DEF q, U
  <2> QED
    BY ONLY <2>6, <2>7
<1> HIDE DEF t, b, q, U
<1>11. b \o q \in Seq(U) /\ Len(b \o q) = Len(b) + Len(q)
  BY <1>4, <1>9, ConcatParts
<1>12. Len(b \o q) = 1 + Len(q) /\ Len(b \o q) >= 3
  BY <1>4, <1>10, <1>11
<1>13. GoodBasic(Enum(6))
  BY NumberKinds
<1> QED
  BY <1>1, <1>2, <1>4, <1>7, <1>9, <1>11, <1>12, <1>13 DEF t, b, q, U

LEMMA OpGet ==
    ASSUME NEW f, f.kind = "op", NEW v, FitsFieldEntry(f, v),
           NEW B, NEW a, NEW x, There(B, a, PutFieldEntry(f, v))
    PROVE  FieldEntry(R(B, a, x), f) = R(B, a + Len(PutFieldEntry(f, v)), v)
<1> DEFINE t == v.tag
           b == PutBasic(Enum(6), t)
           q == PutsInner(OpRead(t), v.fields)
           tag == R(B, a + 1, t)
           e == (a + 1) + Len(q)
           last == R(B, e, v.fields)
<1>1. /\ v = [tag |-> t, fields |-> v.fields] /\ t \in 0..6 /\ FitsAllInner(OpRead(t), v.fields)
      /\ FitsBasic(Enum(6), t) /\ GoodBasic(Enum(6)) /\ b \in Seq(Byte) /\ Len(b) = 1
      /\ q \in Seq(Byte) /\ PutFieldEntry(f, v) = b \o q /\ Len(PutFieldEntry(f, v)) = 1 + Len(q)
  BY OpPut
<1>2. There(B, a, b) /\ There(B, a + 1, q)
  <2> HIDE DEF b, q
  <2> QED
    BY <1>1, AtConcat
<1>3. GetBasic(R(B, a, x), Enum(6)) = tag
  BY <1>1, <1>2, BasicGet
<1>4. PICK n \in Nat \ {0} : InnerShapes(OpWritten(t), OpRead(t), n)
  BY <1>1, OpShapes
<1>5. Shape(OpRead(t), n) /\ \A i \in 1..n : GoodInner(OpRead(t)[i])
  BY <1>4, Zenon DEF InnerShapes, SameInner
<1>6. AllInner(tag, OpRead(t)) = last
  BY <1>1, <1>2, <1>5, InnerFields
<1>7. tag.ok /\ tag.val = t /\ last.ok /\ last.val = v.fields
  BY RParts
<1>8. [last EXCEPT !.val = v] = R(B, e, v)
  BY ValuedIs
<1>9. e = a + Len(PutFieldEntry(f, v))
  <2>1. a \in Nat /\ Len(q) \in Nat
    BY <1>1, <1>2 DEF There
  <2> HIDE DEF q
  <2> QED
    BY <1>1, <2>1
<1> HIDE DEF t, tag, last, e
<1>10. OpOf(t, last) = [last EXCEPT !.val = v]
  BY <1>1, <1>7, Zenon DEF OpOf
<1>11. GetTagged(tag) = OpOf(t, last)
  BY <1>6, <1>7, Zenon DEF GetTagged, AllInner
<1>12. FieldEntry(R(B, a, x), f) = GetTagged(tag)
  BY <1>3, Zenon DEF FieldEntry
<1> QED
  BY <1>8, <1>9, <1>10, <1>11, <1>12

(* Operations, lists of inner fields, and of groups of them. *)
GoodFieldEntry(f) ==
    \/ f.kind = "op"
    \/ f.kind = "group" /\ \E n : Shape(f.of, n) /\ \A i \in 1..n : GoodInner(f.of[i])
    \/ f.kind # "op" /\ f.kind # "group" /\ GoodInner(f)

LEMMA FieldEntryPut ==
    ASSUME NEW f, GoodFieldEntry(f), NEW v, FitsFieldEntry(f, v)
    PROVE  PutFieldEntry(f, v) \in Seq(Byte)
<1>1. CASE f.kind = "op"
  BY <1>1, OpPut
<1>2. CASE f.kind = "group"
  <2>0. f.kind # "op"
    BY <1>2
  <2>1. PICK n : Shape(f.of, n) /\ \A i \in 1..n : GoodInner(f.of[i])
    BY <1>2, <2>0, Zenon DEF GoodFieldEntry
  <2>2. FitsAllInner(f.of, v) /\ PutFieldEntry(f, v) = PutsInner(f.of, v)
    BY <1>2, <2>0, Zenon DEF FitsFieldEntry, FitsEntry, FitsAllInner, PutFieldEntry, PutEntry, PutsInner
  <2> QED
    BY <2>1, <2>2, InnerFields
<1>3. CASE f.kind # "op" /\ f.kind # "group"
  <2>1. GoodInner(f) /\ FitsInner(f, v) /\ PutFieldEntry(f, v) = PutInner(f, v)
    BY <1>3, Zenon DEF GoodFieldEntry, FitsFieldEntry, FitsEntry, PutFieldEntry, PutEntry
  <2> QED
    BY <2>1, InnerPut
<1> QED
  BY <1>1, <1>2, <1>3

LEMMA FieldEntryGet ==
    ASSUME NEW f, GoodFieldEntry(f), NEW v, FitsFieldEntry(f, v),
           NEW B, NEW a, NEW x, There(B, a, PutFieldEntry(f, v))
    PROVE  FieldEntry(R(B, a, x), f) = R(B, a + Len(PutFieldEntry(f, v)), v)
<1>1. CASE f.kind = "op"
  BY <1>1, OpGet
<1>2. CASE f.kind = "group"
  <2>0. f.kind # "op"
    BY <1>2
  <2>1. PICK n : Shape(f.of, n) /\ \A i \in 1..n : GoodInner(f.of[i])
    BY <1>2, <2>0, Zenon DEF GoodFieldEntry
  <2>2. FitsAllInner(f.of, v) /\ PutFieldEntry(f, v) = PutsInner(f.of, v)
    BY <1>2, <2>0, Zenon DEF FitsFieldEntry, FitsEntry, FitsAllInner, PutFieldEntry, PutEntry, PutsInner
  <2>3. FieldEntry(R(B, a, x), f) = AllInner(R(B, a, x), f.of)
    BY <1>2, <2>0, Zenon DEF FieldEntry, GetEntry, AllInner
  <2> QED
    BY <2>1, <2>2, <2>3, InnerFields
<1>3. CASE f.kind # "op" /\ f.kind # "group"
  <2>1. GoodInner(f) /\ FitsInner(f, v) /\ PutFieldEntry(f, v) = PutInner(f, v)
    BY <1>3, Zenon DEF GoodFieldEntry, FitsFieldEntry, FitsEntry, PutFieldEntry, PutEntry
  <2>2. FieldEntry(R(B, a, x), f) = GetInner(R(B, a, x), f)
    BY <1>3, Zenon DEF FieldEntry, GetEntry
  <2> QED
    BY <2>1, <2>2, InnerGet
<1> QED
  BY <1>1, <1>2, <1>3

EntriesFieldEntry(r, f, least) == GetEntries(FieldEntry, r, f, least)

LEMMA FieldEntryEntries ==
    ASSUME NEW n \in Nat, NEW ss \in Blocks(n, Byte), NEW f, NEW least \in Nat \ {0}, NEW vs,
           \A i \in 1..n : Len(ss[i]) >= least,
           NEW B, NEW a, NEW x, There(B, a, Bytes(n, 4) \o FlattenSeq(ss)),
           \A i \in 1..n : \A e, y :
               There(B, e, ss[i]) => FieldEntry(R(B, e, y), f) = R(B, e + Len(ss[i]), vs[i])
    PROVE  EntriesFieldEntry(R(B, a, x), f, least)
             = R(B, a + Len(Bytes(n, 4) \o FlattenSeq(ss)), Values(vs, n))
<1> DEFINE q == FlattenSeq(ss)
           c == R(B, a + 4, n)
           shape == [i \in 1..n |-> f]
<1>1. q \in Seq(Byte)
  <2>1. Flattened(n, ss, Byte)
    BY FlattenIs
  <2> QED
    BY <2>1 DEF Flattened
<1>2. n * least <= Len(q)
  BY FlattenLeast
<1>3. CountOf(GetBasic(R(B, a, x), U32), least) = c /\ There(B, a + 4, q)
      /\ Len(Bytes(n, 4) \o q) = 4 + Len(q) /\ c.ok /\ c.val = n
  <2> HIDE DEF q
  <2>1. There(B, a, Bytes(n, 4) \o q)
    BY DEF q
  <2> QED
    BY <1>1, <1>2, <2>1, CountIs
<1>4. Len(shape) = n /\ \A i \in 1..n : shape[i] = f
  OBVIOUS
<1> HIDE DEF c
<1>5. EntriesFieldEntry(R(B, a, x), f, least) = AllFieldEntry(c, [i \in 1..c.val |-> f])
  BY <1>3, Zenon DEF EntriesFieldEntry, GetEntries, GetCounted, AllFieldEntry
<1>6. EntriesFieldEntry(R(B, a, x), f, least) = AllFieldEntry(c, shape)
  BY <1>3, <1>5
<1> HIDE DEF shape, q
<1>7. AllFieldEntry(R(B, a + 4, n), shape) = R(B, (a + 4) + Len(q), Values(vs, n))
  <2>1. \A i \in 1..n : \A e, y :
            There(B, e, ss[i]) => FieldEntry(R(B, e, y), shape[i]) = R(B, e + Len(ss[i]), vs[i])
    BY <1>4
  <2>2. There(B, a + 4, FlattenSeq(ss))
    BY <1>3 DEF q
  <2> QED
    BY ONLY n \in Nat, ss \in Blocks(n, Byte), <1>4, <2>1, <2>2, AllFieldEntryIs DEF q
<1>8. (a + 4) + Len(q) = a + (4 + Len(q))
  <2>1. a \in Nat /\ Len(q) \in Nat
    BY <1>1, <1>3 DEF There
  <2> QED
    BY <2>1
<1> QED
  BY <1>3, <1>6, <1>7, <1>8 DEF c, q

FitsEachFieldEntry(f, v) == FitsEach(FitsFieldEntry, f, v)
PiecesFieldEntry(f, v) == [i \in 1..Len(v) |-> PutFieldEntry(f, v[i])]
GoodField(f) ==
    \/ /\ f.kind = "list" /\ GoodFieldEntry(f.of) /\ f.least \in Nat \ {0}
       /\ \A v : FitsFieldEntry(f.of, v) => Len(PutFieldEntry(f.of, v)) >= f.least
    \/ f.kind # "list" /\ GoodInner(f)

LEMMA FieldList ==
    ASSUME NEW f, f.kind = "list", GoodField(f), NEW v, FitsField(f, v)
    PROVE  /\ Len(v) \in Nat /\ v = Values(v, Len(v)) /\ \A i \in 1..Len(v) : FitsFieldEntry(f.of, v[i])
           /\ PiecesFieldEntry(f.of, v) \in Blocks(Len(v), Byte)
           /\ \A i \in 1..Len(v) : Len(PiecesFieldEntry(f.of, v)[i]) >= f.least
           /\ FlattenSeq(PiecesFieldEntry(f.of, v)) \in Seq(Byte)
           /\ PutField(f, v) = Bytes(Len(v), 4) \o FlattenSeq(PiecesFieldEntry(f.of, v))
           /\ PutField(f, v) \in Seq(Byte)
           /\ Len(PutField(f, v)) = 4 + Len(FlattenSeq(PiecesFieldEntry(f.of, v)))
<1> DEFINE n == Len(v)
           shape == [i \in 1..n |-> f.of]
           ss == PiecesFieldEntry(f.of, v)
<1>1. FitsEachFieldEntry(f.of, v)
  BY Zenon DEF FitsField, FitsWith, FitsEachFieldEntry
<1>2. n \in Nat /\ v = [i \in DOMAIN shape |-> v[i]] /\ \A i \in DOMAIN shape : FitsFieldEntry(shape[i], v[i])
  BY <1>1, Zenon DEF FitsEachFieldEntry, FitsEach, FitsAll
<1>3. DOMAIN shape = 1..n /\ \A i \in 1..n : shape[i] = f.of
  OBVIOUS
<1> HIDE DEF shape
<1>4. v = Values(v, n) /\ \A i \in 1..n : FitsFieldEntry(f.of, v[i])
  BY <1>2, <1>3 DEF Values
<1>5. /\ GoodFieldEntry(f.of) /\ f.least \in Nat \ {0}
      /\ \A w : FitsFieldEntry(f.of, w) => Len(PutFieldEntry(f.of, w)) >= f.least
  BY Zenon DEF GoodField
<1>6. \A i \in 1..n : PutFieldEntry(f.of, v[i]) \in Seq(Byte) /\ Len(PutFieldEntry(f.of, v[i])) >= f.least
  BY <1>4, <1>5, FieldEntryPut
<1>7. ss \in Blocks(n, Byte) /\ \A i \in 1..n : Len(ss[i]) >= f.least
  BY <1>6 DEF PiecesFieldEntry, Blocks
<1>8. PutField(f, v) = Bytes(n, 4) \o FlattenSeq(ss)
  <2>1. PutField(f, v) = Bytes(Len(v), 4) \o FlattenSeq([i \in DOMAIN v |-> PutFieldEntry(f.of, v[i])])
    BY Zenon DEF PutField, PutWith
  <2>2. DOMAIN v = 1..n
    BY <1>4 DEF Values
  <2> QED
    BY <2>1, <2>2 DEF PiecesFieldEntry
<1> HIDE DEF ss, n
<1> DEFINE q == FlattenSeq(ss)
           b == Bytes(n, 4)
           U == Byte
<1>9. q \in Seq(U)
  <2>1. Flattened(n, ss, Byte)
    BY <1>2, <1>7, FlattenIs
  <2> QED
    BY <1>2, <2>1 DEF Flattened
<1>10. b \in Seq(U) /\ Len(b) = 4
  <2>1. n \in Int
    BY <1>2
  <2> QED
    BY <2>1, BytesType DEF Widest
<1> HIDE DEF q, b, U
<1>11. b \o q \in Seq(U) /\ Len(b \o q) = 4 + Len(q)
  <2>1. b \o q \in Seq(U) /\ Len(b \o q) = Len(b) + Len(q)
    BY <1>9, <1>10, ConcatParts
  <2> QED
    BY <1>10, <2>1
<1> QED
  BY <1>2, <1>4, <1>7, <1>8, <1>9, <1>11 DEF q, b, U, n, ss

LEMMA FieldPut ==
    ASSUME NEW f, GoodField(f), NEW v, FitsField(f, v)
    PROVE  PutField(f, v) \in Seq(Byte) /\ Len(PutField(f, v)) >= Floor(f)
<1>1. CASE f.kind = "list"
  <2>1. /\ PutField(f, v) \in Seq(Byte) /\ Floor(f) = 4
        /\ Len(PutField(f, v)) = 4 + Len(FlattenSeq(PiecesFieldEntry(f.of, v)))
        /\ FlattenSeq(PiecesFieldEntry(f.of, v)) \in Seq(Byte)
    BY <1>1, FieldList DEF Floor
  <2> QED
    BY <2>1
<1>2. CASE f.kind # "list"
  <2>1. GoodInner(f) /\ FitsInner(f, v) /\ PutField(f, v) = PutInner(f, v)
    BY <1>2, Zenon DEF GoodField, FitsField, FitsWith, PutField, PutWith
  <2> QED
    BY <2>1, InnerPut
<1> QED
  BY <1>1, <1>2

LEMMA FieldGet ==
    ASSUME NEW f, GoodField(f), NEW v, FitsField(f, v), NEW B, NEW a, NEW x, There(B, a, PutField(f, v))
    PROVE  GetField(R(B, a, x), f) = R(B, a + Len(PutField(f, v)), v)
<1>1. CASE f.kind = "list"
  <2> DEFINE n == Len(v)
             ss == PiecesFieldEntry(f.of, v)
  <2>1. /\ n \in Nat /\ v = Values(v, n) /\ \A i \in 1..n : FitsFieldEntry(f.of, v[i])
        /\ ss \in Blocks(n, Byte) /\ \A i \in 1..n : Len(ss[i]) >= f.least
        /\ PutField(f, v) = Bytes(n, 4) \o FlattenSeq(ss)
    BY <1>1, FieldList
  <2>2. GoodFieldEntry(f.of) /\ f.least \in Nat \ {0}
    BY <1>1, Zenon DEF GoodField
  <2>3. \A i \in 1..n : ss[i] = PutFieldEntry(f.of, v[i])
    BY DEF PiecesFieldEntry
  <2> HIDE DEF n, ss
  <2>4. \A i \in 1..n : \A d, y :
            There(B, d, ss[i]) => FieldEntry(R(B, d, y), f.of) = R(B, d + Len(ss[i]), v[i])
    BY <2>1, <2>2, <2>3, FieldEntryGet
  <2>5. EntriesFieldEntry(R(B, a, x), f.of, f.least)
          = R(B, a + Len(Bytes(n, 4) \o FlattenSeq(ss)), Values(v, n))
    <3>1. There(B, a, Bytes(n, 4) \o FlattenSeq(ss))
      BY <2>1
    <3> QED
      BY <2>1, <2>2, <2>4, <3>1, FieldEntryEntries
  <2>6. GetField(R(B, a, x), f) = EntriesFieldEntry(R(B, a, x), f.of, f.least)
    BY <1>1, Zenon DEF GetField, GetWith, EntriesFieldEntry
  <2> QED
    BY <2>1, <2>5, <2>6
<1>2. CASE f.kind # "list"
  <2>1. GoodInner(f) /\ FitsInner(f, v) /\ PutField(f, v) = PutInner(f, v)
    BY <1>2, Zenon DEF GoodField, FitsField, FitsWith, PutField, PutWith
  <2>2. GetField(R(B, a, x), f) = GetInner(R(B, a, x), f)
    BY <1>2, Zenon DEF GetField, GetWith
  <2> QED
    BY <2>1, <2>2, InnerGet
<1> QED
  BY <1>1, <1>2

PutsField(shape, vs) == Puts(PutField, shape, vs)
FitsAllField(shape, vs) == FitsAll(FitsField, shape, vs)
PiecesField(shape, vs, n) == [i \in 1..n |-> PutField(shape[i], vs[i])]

LEMMA FieldFields ==
    ASSUME NEW n, NEW shape, Shape(shape, n), \A i \in 1..n : GoodField(shape[i]),
           NEW vs, FitsAllField(shape, vs)
    PROVE  /\ PiecesField(shape, vs, n) \in Blocks(n, Byte)
           /\ PutsField(shape, vs) = FlattenSeq(PiecesField(shape, vs, n))
           /\ PutsField(shape, vs) \in Seq(Byte) /\ vs = Values(vs, n)
           /\ \A i \in 1..n : FitsField(shape[i], vs[i])
           /\ \A B, a, x : There(B, a, PutsField(shape, vs)) =>
                  AllField(R(B, a, x), shape) = R(B, a + Len(PutsField(shape, vs)), vs)
<1> DEFINE ss == PiecesField(shape, vs, n)
<1>1. n \in Nat /\ Len(shape) = n /\ DOMAIN shape = 1..n
  BY DEF Shape
<1>2. vs = [i \in DOMAIN shape |-> vs[i]] /\ \A i \in DOMAIN shape : FitsField(shape[i], vs[i])
  BY Zenon DEF FitsAllField, FitsAll
<1>3. vs = Values(vs, n) /\ \A i \in 1..n : FitsField(shape[i], vs[i])
  BY <1>1, <1>2 DEF Values
<1>4. PutsField(shape, vs) = FlattenSeq([i \in DOMAIN shape |-> PutField(shape[i], vs[i])])
  BY Zenon DEF PutsField, Puts
<1>5. PutsField(shape, vs) = FlattenSeq(ss)
  BY <1>1, <1>4 DEF PiecesField
<1>6. \A i \in 1..n : PutField(shape[i], vs[i]) \in Seq(Byte)
  BY <1>3, FieldPut
<1>7. ss \in Blocks(n, Byte) /\ \A i \in 1..n : ss[i] = PutField(shape[i], vs[i])
  BY <1>6 DEF PiecesField, Blocks
<1> HIDE DEF ss
<1>8. FlattenSeq(ss) \in Seq(Byte)
  <2>1. Flattened(n, ss, Byte)
    BY <1>1, <1>7, FlattenIs
  <2> QED
    BY <1>1, <2>1 DEF Flattened
<1>9. ASSUME NEW B, NEW a, NEW x, There(B, a, FlattenSeq(ss))
      PROVE  AllField(R(B, a, x), shape) = R(B, a + Len(FlattenSeq(ss)), Values(vs, n))
  <2>1. ASSUME NEW i \in 1..n, NEW e, NEW y, There(B, e, ss[i])
        PROVE  GetField(R(B, e, y), shape[i]) = R(B, e + Len(ss[i]), vs[i])
    BY <1>3, <1>7, <2>1, FieldGet
  <2> QED
    BY <1>1, <1>7, <1>9, <2>1, AllFieldIs
<1> QED
  BY <1>3, <1>5, <1>7, <1>8, <1>9 DEF ss

(***************************************************************************)
(* Lists, as they are written and as they are read.                        *)
(***************************************************************************)
LEMMA FloorNat ==
    ASSUME NEW f, GoodInner(f)
    PROVE  Floor(f) \in Nat
<1>1. f.kind \in {"list", "cells"} \/ GoodBasic(f)
  BY Zenon DEF GoodInner, GoodPlain
<1> QED
  BY <1>1 DEF Floor, GoodBasic, Widest

LEMMA ShapeLeast ==
    ASSUME NEW r, NEW n, Shape(r, n), \A i \in 1..n : GoodInner(r[i]),
           NEW p, p[0] = 0, \A i \in 0..n : p[i] \in Nat,
           \A i \in 1..n : Floor(r[i]) >= p[i] - p[i - 1],
           NEW v, FitsAllInner(r, v)
    PROVE  Len(PutsInner(r, v)) >= p[n]
<1> DEFINE ss == PiecesInner(r, v, n)
<1>1. /\ n \in Nat /\ ss \in Blocks(n, Byte) /\ PutsInner(r, v) = FlattenSeq(ss)
      /\ \A i \in 1..n : FitsInner(r[i], v[i])
  BY InnerFields DEF Shape
<1>2. \A i \in 1..n : ss[i] = PutInner(r[i], v[i])
  BY DEF PiecesInner
<1> HIDE DEF ss
<1>3. \A i \in 1..n : Len(ss[i]) >= Floor(r[i]) /\ Floor(r[i]) \in Nat /\ ss[i] \in Seq(Byte)
  BY <1>1, <1>2, InnerPut, FloorNat
<1>4. \A i \in 1..n : Len(ss[i]) >= p[i] - p[i - 1]
  <2> TAKE i \in 1..n
  <2>1. i \in 0..n /\ i - 1 \in 0..n
    BY <1>1
  <2>2. Len(ss[i]) \in Nat
    BY <1>3
  <2> QED
    BY <1>3, <2>1, <2>2
<1> QED
  BY <1>1, <1>4, FlattenSize

LEMMA InnerEach ==
    ASSUME NEW e, GoodInnerEntry(e), NEW least \in Nat \ {0},
           \A v : FitsInnerEntry(e, v) => Len(PutInnerEntry(e, v)) >= least
    PROVE  SameInner(Each(e), List(e, least))
<1> DEFINE w == Each(e)
           r == List(e, least)
<1>1. w.kind = "list" /\ r.kind = "list" /\ w.of = e /\ r.of = e /\ r.least = least
  BY DEF Each, List
<1> HIDE DEF w, r
<1>2. ASSUME NEW v PROVE PutInner(w, v) = PutInner(r, v)
  <2>1. PutInner(w, v) = Bytes(Len(v), 4) \o FlattenSeq([i \in DOMAIN v |-> PutInnerEntry(w.of, v[i])])
    BY <1>1, Zenon DEF PutInner, PutWith
  <2>2. PutInner(r, v) = Bytes(Len(v), 4) \o FlattenSeq([i \in DOMAIN v |-> PutInnerEntry(r.of, v[i])])
    BY <1>1, Zenon DEF PutInner, PutWith
  <2> QED
    BY <1>1, <2>1, <2>2, Zenon
<1>3. GoodInner(r)
  BY <1>1 DEF GoodInner
<1> QED
  BY <1>2, <1>3, Zenon DEF SameInner, w, r

LEMMA InnerLists ==
    SameInner(Each(U64), List(U64, 8)) /\ SameInner(Each(Group(WJob)), List(Group(RJob), 25))
<1>1. SameInner(Each(U64), List(U64, 8))
  <2>1. U64.kind = "uint" /\ U64.width = 8 /\ GoodBasic(U64)
    BY NumberKinds DEF U64, Unsigned
  <2>2. GoodPlain(U64) /\ GoodInnerEntry(U64)
    BY <2>1 DEF GoodPlain, GoodInnerEntry
  <2>3. ASSUME NEW v, FitsInnerEntry(U64, v) PROVE Len(PutInnerEntry(U64, v)) >= 8
    <3>1. FitsBasic(U64, v) /\ PutInnerEntry(U64, v) = PutBasic(U64, v)
      BY <2>1, <2>3 DEF FitsInnerEntry, FitsEntry, FitsPlain, PutInnerEntry, PutEntry, PutPlain
    <3> QED
      BY <2>1, <3>1, BasicPut
  <2> QED
    BY <2>2, <2>3, InnerEach
<1>2. SameInner(Each(Group(RJob)), List(Group(RJob), 25))
  <2> DEFINE e == Group(RJob)
  <2>1. e.kind = "group" /\ e.of = RJob
    BY DEF Group
  <2>2. Shape(RJob, 5)
    BY DEF Shape, RJob
  <2>3. /\ RJob[1] = U64 /\ RJob[2] = Enum(3) /\ RJob[3] = U32 /\ RJob[4] = U32 /\ RJob[5] = I64
    BY DEF RJob
  <2>4. \A i \in 1..5 : GoodBasic(RJob[i])
    BY <2>3, NumberKinds
  <2>5. \A i \in 1..5 : GoodPlain(RJob[i]) /\ RJob[i].kind # "list"
    BY <2>4 DEF GoodPlain, GoodBasic, Numbers
  <2>6. \A i \in 1..5 : GoodInner(RJob[i])
    BY <2>5, Zenon DEF GoodInner
  <2>7. ASSUME NEW v, FitsInnerEntry(e, v) PROVE Len(PutInnerEntry(e, v)) >= 25
    <3>1. FitsAllPlain(RJob, v) /\ PutInnerEntry(e, v) = PutsPlain(RJob, v)
      BY <2>1, <2>7, Zenon DEF FitsInnerEntry, FitsEntry, FitsAllPlain, PutInnerEntry, PutEntry, PutsPlain
    <3> DEFINE p == [i \in 0..5 |-> <<0, 8, 9, 13, 17, 25>>[i + 1]]
               ss == PiecesPlain(RJob, v, 5)
    <3>2. p[0] = 0 /\ p[1] = 8 /\ p[2] = 9 /\ p[3] = 13 /\ p[4] = 17 /\ p[5] = 25
      OBVIOUS
    <3>3. \A i \in 0..5 : p[i] \in Nat
      BY <3>2
    <3> HIDE DEF p
    <3>4. /\ ss \in Blocks(5, Byte) /\ PutsPlain(RJob, v) = FlattenSeq(ss)
          /\ \A i \in 1..5 : FitsPlain(RJob[i], v[i])
      BY <2>2, <2>5, <3>1, PlainFields
    <3>5. \A i \in 1..5 : Len(ss[i]) >= RJob[i].width
      <4> TAKE i \in 1..5
      <4>1. ss[i] = PutPlain(RJob[i], v[i])
        BY DEF PiecesPlain
      <4>2. RJob[i].kind # "cells"
        BY <2>4 DEF GoodBasic, Numbers
      <4>3. FitsBasic(RJob[i], v[i]) /\ ss[i] = PutBasic(RJob[i], v[i])
        BY <3>4, <4>1, <4>2, Zenon DEF FitsPlain, PutPlain
      <4> QED
        BY <2>4, <4>3, BasicPut
    <3> HIDE DEF ss
    <3>6. /\ RJob[1].width = 8 /\ RJob[2].width = 1 /\ RJob[3].width = 4 /\ RJob[4].width = 4
          /\ RJob[5].width = 8
      BY <2>3 DEF U64, U32, I64, Unsigned, Signed, Enum
    <3>9. Len(ss[1]) >= 8 /\ Len(ss[2]) >= 1 /\ Len(ss[3]) >= 4 /\ Len(ss[4]) >= 4 /\ Len(ss[5]) >= 8
      BY <3>5, <3>6
    <3>7. \A i \in 1..5 : Len(ss[i]) >= p[i] - p[i - 1]
      <4>1. p[1] - p[0] = 8 /\ p[2] - p[1] = 1 /\ p[3] - p[2] = 4 /\ p[4] - p[3] = 4 /\ p[5] - p[4] = 8
        BY <3>2
      <4>2. \A i \in 1..5 : i = 1 \/ i = 2 \/ i = 3 \/ i = 4 \/ i = 5
        OBVIOUS
      <4>3. 1 - 1 = 0 /\ 2 - 1 = 1 /\ 3 - 1 = 2 /\ 4 - 1 = 3 /\ 5 - 1 = 4
        OBVIOUS
      <4> QED
        BY <3>9, <4>1, <4>2, <4>3
    <3>8. Len(FlattenSeq(ss)) >= p[5]
      BY <3>2, <3>3, <3>4, <3>7, FlattenSize
    <3> QED
      BY <3>1, <3>2, <3>4, <3>8
  <2>8. GoodInnerEntry(e)
    BY <2>1, <2>2, <2>5, Zenon DEF GoodInnerEntry
  <2> HIDE DEF e
  <2>9. SameInner(Each(e), List(e, 25))
    BY <2>7, <2>8, InnerEach
  <2> QED
    BY <2>9 DEF e
<1>3. WJob = RJob
  BY DEF WJob, RJob
<1> QED
  BY <1>1, <1>2, <1>3

(***************************************************************************)
(* The fields of messages, as they are written and as they are read.       *)
(***************************************************************************)
SameField(w, r) == GoodField(r) /\ \A v : PutField(w, v) = PutField(r, v)

LEMMA FieldOfInner ==
    ASSUME NEW w, NEW r, SameInner(w, r), w.kind # "list", r.kind # "list"
    PROVE  SameField(w, r)
<1>1. \A v : PutField(w, v) = PutInner(w, v) /\ PutField(r, v) = PutInner(r, v)
  BY Zenon DEF PutField, PutWith
<1> QED
  BY <1>1, Zenon DEF SameInner, SameField, GoodField

LEMMA FieldBasics ==
    /\ SameField(U8, U8) /\ SameField(U16, U16) /\ SameField(U32, U32) /\ SameField(U64, U64)
    /\ SameField(I16, I16) /\ SameField(I32, I32) /\ SameField(I64, I64) /\ SameField(Text, Text)
    /\ SameField(Enum(1), Enum(1)) /\ SameField(Enum(2), Enum(2)) /\ SameField(Enum(3), Enum(3))
    /\ SameField(Enum(4), Enum(4))
    /\ SameField(Whole, Short) /\ SameField(Whole, Chunk)
<1>1. /\ U8.kind # "list" /\ U16.kind # "list" /\ U32.kind # "list" /\ U64.kind # "list"
      /\ I16.kind # "list" /\ I32.kind # "list" /\ I64.kind # "list" /\ Text.kind # "list"
      /\ \A top : Enum(top).kind # "list"
      /\ Whole.kind # "list" /\ Short.kind # "list" /\ Chunk.kind # "list"
  BY DEF U8, U16, U32, U64, I16, I32, I64, Unsigned, Signed, Text, Enum, Whole, Short, Chunk, Blob
<1> QED
  BY <1>1, SameBasics, SameBlobs, FieldOfInner

LEMMA FieldEach ==
    ASSUME NEW d, NEW e, GoodFieldEntry(e), \A v : PutFieldEntry(d, v) = PutFieldEntry(e, v),
           NEW least \in Nat \ {0}, \A v : FitsFieldEntry(e, v) => Len(PutFieldEntry(e, v)) >= least
    PROVE  SameField(Each(d), List(e, least))
<1> DEFINE w == Each(d)
           r == List(e, least)
<1>1. w.kind = "list" /\ r.kind = "list" /\ w.of = d /\ r.of = e /\ r.least = least
  BY DEF Each, List
<1> HIDE DEF w, r
<1>2. ASSUME NEW v PROVE PutField(w, v) = PutField(r, v)
  <2>1. PutField(w, v) = Bytes(Len(v), 4) \o FlattenSeq([i \in DOMAIN v |-> PutFieldEntry(d, v[i])])
    BY <1>1, Zenon DEF PutField, PutWith
  <2>2. PutField(r, v) = Bytes(Len(v), 4) \o FlattenSeq([i \in DOMAIN v |-> PutFieldEntry(e, v[i])])
    BY <1>1, Zenon DEF PutField, PutWith
  <2>3. [i \in DOMAIN v |-> PutFieldEntry(d, v[i])] = [i \in DOMAIN v |-> PutFieldEntry(e, v[i])]
    OBVIOUS
  <2> QED
    BY <2>1, <2>2, <2>3, Zenon
<1>3. GoodField(r)
  BY <1>1, Zenon DEF GoodField
<1> QED
  BY <1>2, <1>3, Zenon DEF SameField, w, r

LEMMA GroupEach ==
    ASSUME NEW w, NEW r, NEW n, InnerShapes(w, r, n),
           NEW p, p[0] = 0, \A i \in 0..n : p[i] \in Nat, p[n] # 0,
           \A i \in 1..n : Floor(r[i]) >= p[i] - p[i - 1]
    PROVE  SameField(Each(Group(w)), List(Group(r), p[n]))
<1> DEFINE d == Group(w)
           e == Group(r)
<1>1. d.kind = "group" /\ e.kind = "group" /\ d.of = w /\ e.of = r
  BY DEF Group
<1> HIDE DEF d, e
<1>2. Shape(r, n) /\ \A i \in 1..n : GoodInner(r[i])
  BY Zenon DEF InnerShapes, SameInner
<1>3. d.kind # "op" /\ e.kind # "op"
  BY <1>1
<1>4. \A v : PutFieldEntry(d, v) = PutsInner(w, v) /\ PutFieldEntry(e, v) = PutsInner(r, v)
  BY <1>1, <1>3, Zenon DEF PutFieldEntry, PutEntry, PutsInner
<1>5. \A v : PutFieldEntry(d, v) = PutFieldEntry(e, v)
  BY <1>4, InnerWritten
<1>6. GoodFieldEntry(e)
  BY <1>1, <1>2, Zenon DEF GoodFieldEntry
<1>7. ASSUME NEW v, FitsFieldEntry(e, v) PROVE Len(PutFieldEntry(e, v)) >= p[n]
  <2>1. FitsAllInner(r, v)
    BY <1>1, <1>3, <1>7, Zenon DEF FitsFieldEntry, FitsEntry, FitsAllInner
  <2> QED
    BY <1>2, <1>4, <2>1, ShapeLeast
<1>8. p[n] \in Nat \ {0}
  BY <1>2 DEF Shape
<1>9. SameField(Each(d), List(e, p[n]))
  BY <1>5, <1>6, <1>7, <1>8, FieldEach
<1> QED
  BY <1>9 DEF d, e

LEMMA OpEach == SameField(Each(Op), List(Op, 3))
<1>1. Op.kind = "op"
  BY DEF Op
<1>2. GoodFieldEntry(Op)
  BY <1>1, Zenon DEF GoodFieldEntry
<1>3. \A v : FitsFieldEntry(Op, v) => Len(PutFieldEntry(Op, v)) >= 3
  BY <1>1, OpPut
<1> QED
  BY <1>2, <1>3, FieldEach

LEMMA Widths ==
    /\ Floor(U8) = 1 /\ Floor(U16) = 2 /\ Floor(U32) = 4 /\ Floor(U64) = 8
    /\ Floor(I16) = 2 /\ Floor(I32) = 4 /\ Floor(I64) = 8 /\ Floor(Text) = 2
    /\ \A top : Floor(Enum(top)) = 1
    /\ Floor(RRuns) = 4 /\ Floor(RLines) = 4 /\ \A of, least : Floor(List(of, least)) = 4
BY DEF Floor, U8, U16, U32, U64, I16, I32, I64, Unsigned, Signed, Text, Enum, RRuns, RLines, List, Cells

LEMMA EntriesEach == SameField(WEntries, REntries)
<1> DEFINE w == <<U64>> \o Rect \o <<U16, U8>> \o Tile
           r == <<U64>> \o Rect \o <<U16, U8>> \o Tile
           p == [i \in 0..11 |-> <<0, 8, 10, 12, 14, 16, 18, 19, 21, 23, 25, 27>>[i + 1]]
<1>1. Shape(w, 11) /\ Shape(r, 11)
  BY DEF Shape, Rect, Tile
<1>2. /\ w[1] = U64 /\ w[2] = I16 /\ w[3] = I16 /\ w[4] = U16 /\ w[5] = U16 /\ w[6] = U16
      /\ w[7] = U8 /\ w[8] = U16 /\ w[9] = U16 /\ w[10] = U16 /\ w[11] = U16
  BY DEF Rect, Tile
<1>3. /\ r[1] = U64 /\ r[2] = I16 /\ r[3] = I16 /\ r[4] = U16 /\ r[5] = U16 /\ r[6] = U16
      /\ r[7] = U8 /\ r[8] = U16 /\ r[9] = U16 /\ r[10] = U16 /\ r[11] = U16
  BY DEF Rect, Tile
<1>4. /\ p[0] = 0 /\ p[1] = 8 /\ p[2] = 10 /\ p[3] = 12 /\ p[4] = 14 /\ p[5] = 16 /\ p[6] = 18
      /\ p[7] = 19 /\ p[8] = 21 /\ p[9] = 23 /\ p[10] = 25 /\ p[11] = 27
  OBVIOUS
<1> HIDE DEF w, r, p
<1>5. \A i \in 1..11 : \/ i = 1 \/ i = 2 \/ i = 3 \/ i = 4 \/ i = 5 \/ i = 6 \/ i = 7 \/ i = 8
         \/ i = 9 \/ i = 10 \/ i = 11
  OBVIOUS
<1>6. /\ SameInner(w[1], r[1]) /\ SameInner(w[2], r[2]) /\ SameInner(w[3], r[3])
      /\ SameInner(w[4], r[4]) /\ SameInner(w[5], r[5]) /\ SameInner(w[6], r[6])
      /\ SameInner(w[7], r[7]) /\ SameInner(w[8], r[8]) /\ SameInner(w[9], r[9])
      /\ SameInner(w[10], r[10]) /\ SameInner(w[11], r[11])
  BY <1>2, <1>3, SameBasics, SameRuns, InnerLists
<1>7. InnerShapes(w, r, 11)
  <2>1. \A i \in 1..11 : SameInner(w[i], r[i])
    BY <1>5, <1>6
  <2> QED
    BY <1>1, <2>1 DEF InnerShapes
<1>8. /\ Floor(r[1]) = 8 /\ Floor(r[2]) = 2 /\ Floor(r[3]) = 2 /\ Floor(r[4]) = 2
      /\ Floor(r[5]) = 2 /\ Floor(r[6]) = 2 /\ Floor(r[7]) = 1 /\ Floor(r[8]) = 2
      /\ Floor(r[9]) = 2 /\ Floor(r[10]) = 2 /\ Floor(r[11]) = 2
  BY <1>3, Widths
<1>9. /\ p[1] - p[1 - 1] = 8 /\ p[2] - p[2 - 1] = 2 /\ p[3] - p[3 - 1] = 2 /\ p[4] - p[4 - 1] = 2
      /\ p[5] - p[5 - 1] = 2 /\ p[6] - p[6 - 1] = 2 /\ p[7] - p[7 - 1] = 1 /\ p[8] - p[8 - 1] = 2
      /\ p[9] - p[9 - 1] = 2 /\ p[10] - p[10 - 1] = 2 /\ p[11] - p[11 - 1] = 2
  BY <1>4
<1>10. \A i \in 1..11 : Floor(r[i]) >= p[i] - p[i - 1]
  BY <1>5, <1>8, <1>9
<1>11. \A i \in 0..11 : p[i] \in Nat
  <2>1. \A i \in 0..11 : i = 0 \/ i \in 1..11
    OBVIOUS
  <2> QED
    BY <1>4, <1>5, <2>1
<1>12. SameField(Each(Group(w)), List(Group(r), p[11]))
  BY <1>4, <1>7, <1>10, <1>11, GroupEach
<1> QED
  BY <1>4, <1>12 DEF WEntries, REntries, w, r

LEMMA SessionsEach == 
    SameField(Each(Group(<<U64, Text, U16, U8, I64, I64>>)),
              List(Group(<<U64, Text, U16, U8, I64, I64>>), 29))
<1> DEFINE w == <<U64, Text, U16, U8, I64, I64>>
           r == <<U64, Text, U16, U8, I64, I64>>
           p == [i \in 0..6 |-> <<0, 8, 10, 12, 13, 21, 29>>[i + 1]]
<1>1. Shape(w, 6) /\ Shape(r, 6)
  BY DEF Shape, Rect
<1>2. /\ w[1] = U64 /\ w[2] = Text /\ w[3] = U16 /\ w[4] = U8 /\ w[5] = I64 /\ w[6] = I64
  BY DEF Rect
<1>3. /\ r[1] = U64 /\ r[2] = Text /\ r[3] = U16 /\ r[4] = U8 /\ r[5] = I64 /\ r[6] = I64
  BY DEF Rect
<1>4. /\ p[0] = 0 /\ p[1] = 8 /\ p[2] = 10 /\ p[3] = 12 /\ p[4] = 13 /\ p[5] = 21 /\ p[6] = 29
  OBVIOUS
<1> HIDE DEF w, r, p
<1>5. \A i \in 1..6 : \/ i = 1 \/ i = 2 \/ i = 3 \/ i = 4 \/ i = 5 \/ i = 6
  OBVIOUS
<1>6. /\ SameInner(w[1], r[1]) /\ SameInner(w[2], r[2]) /\ SameInner(w[3], r[3])
      /\ SameInner(w[4], r[4]) /\ SameInner(w[5], r[5]) /\ SameInner(w[6], r[6])
  BY <1>2, <1>3, SameBasics, SameRuns, InnerLists
<1>7. InnerShapes(w, r, 6)
  <2>1. \A i \in 1..6 : SameInner(w[i], r[i])
    BY <1>5, <1>6
  <2> QED
    BY <1>1, <2>1 DEF InnerShapes
<1>8. /\ Floor(r[1]) = 8 /\ Floor(r[2]) = 2 /\ Floor(r[3]) = 2 /\ Floor(r[4]) = 1
      /\ Floor(r[5]) = 8 /\ Floor(r[6]) = 8
  BY <1>3, Widths
<1>9. /\ p[1] - p[1 - 1] = 8 /\ p[2] - p[2 - 1] = 2 /\ p[3] - p[3 - 1] = 2 /\ p[4] - p[4 - 1] = 1
      /\ p[5] - p[5 - 1] = 8 /\ p[6] - p[6 - 1] = 8
  BY <1>4
<1>10. \A i \in 1..6 : Floor(r[i]) >= p[i] - p[i - 1]
  BY <1>5, <1>8, <1>9
<1>11. \A i \in 0..6 : p[i] \in Nat
  <2>1. \A i \in 0..6 : i = 0 \/ i \in 1..6
    OBVIOUS
  <2> QED
    BY <1>4, <1>5, <2>1
<1>12. SameField(Each(Group(w)), List(Group(r), p[6]))
  BY <1>4, <1>7, <1>10, <1>11, GroupEach
<1> QED
  BY <1>4, <1>12 DEF w, r

LEMMA StatesEach == SameField(Each(Group(StateWritten)), List(Group(StateRead), 97))
<1> DEFINE w == StateWritten
           r == StateRead
           p == [i \in 0..39 |->
                   <<0, 8, 10, 12, 14, 15, 17, 19, 21, 23, 25, 27, 29, 30, 32, 34, 36, 38, 40, 42,
                     43, 44, 45, 49, 53, 57, 61, 62, 63, 64, 68, 72, 80, 81, 85, 86, 87, 89, 93, 97>>[i + 1]]
<1>1. Shape(w, 39) /\ Shape(r, 39)
  BY DEF Shape, StateWritten, StateRead, Rect, Tile, Cursor
<1>2. /\ w[1] = U64 /\ w[2] = U16 /\ w[3] = Text /\ w[4] = Text /\ w[5] = U8 /\ w[6] = U16
      /\ w[7] = U16 /\ w[8] = I16 /\ w[9] = I16 /\ w[10] = U16 /\ w[11] = U16 /\ w[12] = U16
      /\ w[13] = U8 /\ w[14] = U16 /\ w[15] = U16 /\ w[16] = U16 /\ w[17] = U16 /\ w[18] = U16
      /\ w[19] = U16 /\ w[20] = U8 /\ w[21] = U8 /\ w[22] = U8 /\ w[23] = U32 /\ w[24] = WRuns
      /\ w[25] = WLines /\ w[26] = Each(U64) /\ w[27] = Enum(2) /\ w[28] = Enum(2)
      /\ w[29] = Enum(3) /\ w[30] = U32 /\ w[31] = Each(Group(WJob)) /\ w[32] = U64 /\ w[33] = U8
      /\ w[34] = I32 /\ w[35] = U8 /\ w[36] = Enum(3) /\ w[37] = Text /\ w[38] = U32
      /\ w[39] = U32
  BY DEF StateWritten, StateRead, Rect, Tile, Cursor
<1>3. /\ r[1] = U64 /\ r[2] = U16 /\ r[3] = Text /\ r[4] = Text /\ r[5] = U8 /\ r[6] = U16
      /\ r[7] = U16 /\ r[8] = I16 /\ r[9] = I16 /\ r[10] = U16 /\ r[11] = U16 /\ r[12] = U16
      /\ r[13] = U8 /\ r[14] = U16 /\ r[15] = U16 /\ r[16] = U16 /\ r[17] = U16 /\ r[18] = U16
      /\ r[19] = U16 /\ r[20] = U8 /\ r[21] = U8 /\ r[22] = U8 /\ r[23] = U32 /\ r[24] = RRuns
      /\ r[25] = RLines /\ r[26] = List(U64, 8) /\ r[27] = Enum(2) /\ r[28] = Enum(2)
      /\ r[29] = Enum(3) /\ r[30] = U32 /\ r[31] = List(Group(RJob), 25) /\ r[32] = U64
      /\ r[33] = U8 /\ r[34] = I32 /\ r[35] = U8 /\ r[36] = Enum(3) /\ r[37] = Text /\ r[38] = U32
      /\ r[39] = U32
  BY DEF StateWritten, StateRead, Rect, Tile, Cursor
<1>4. /\ p[0] = 0 /\ p[1] = 8 /\ p[2] = 10 /\ p[3] = 12 /\ p[4] = 14 /\ p[5] = 15 /\ p[6] = 17
      /\ p[7] = 19 /\ p[8] = 21 /\ p[9] = 23 /\ p[10] = 25 /\ p[11] = 27 /\ p[12] = 29
      /\ p[13] = 30 /\ p[14] = 32 /\ p[15] = 34 /\ p[16] = 36 /\ p[17] = 38 /\ p[18] = 40
      /\ p[19] = 42 /\ p[20] = 43 /\ p[21] = 44 /\ p[22] = 45 /\ p[23] = 49 /\ p[24] = 53
      /\ p[25] = 57 /\ p[26] = 61 /\ p[27] = 62 /\ p[28] = 63 /\ p[29] = 64 /\ p[30] = 68
      /\ p[31] = 72 /\ p[32] = 80 /\ p[33] = 81 /\ p[34] = 85 /\ p[35] = 86 /\ p[36] = 87
      /\ p[37] = 89 /\ p[38] = 93 /\ p[39] = 97
  OBVIOUS
<1> HIDE DEF w, r, p
<1>5. \A i \in 1..39 : \/ i = 1 \/ i = 2 \/ i = 3 \/ i = 4 \/ i = 5 \/ i = 6 \/ i = 7 \/ i = 8
         \/ i = 9 \/ i = 10 \/ i = 11 \/ i = 12 \/ i = 13 \/ i = 14 \/ i = 15 \/ i = 16
         \/ i = 17 \/ i = 18 \/ i = 19 \/ i = 20 \/ i = 21 \/ i = 22 \/ i = 23 \/ i = 24
         \/ i = 25 \/ i = 26 \/ i = 27 \/ i = 28 \/ i = 29 \/ i = 30 \/ i = 31 \/ i = 32
         \/ i = 33 \/ i = 34 \/ i = 35 \/ i = 36 \/ i = 37 \/ i = 38 \/ i = 39
  OBVIOUS
<1>6. /\ SameInner(w[1], r[1]) /\ SameInner(w[2], r[2]) /\ SameInner(w[3], r[3])
      /\ SameInner(w[4], r[4]) /\ SameInner(w[5], r[5]) /\ SameInner(w[6], r[6])
      /\ SameInner(w[7], r[7]) /\ SameInner(w[8], r[8]) /\ SameInner(w[9], r[9])
      /\ SameInner(w[10], r[10]) /\ SameInner(w[11], r[11]) /\ SameInner(w[12], r[12])
      /\ SameInner(w[13], r[13]) /\ SameInner(w[14], r[14]) /\ SameInner(w[15], r[15])
      /\ SameInner(w[16], r[16]) /\ SameInner(w[17], r[17]) /\ SameInner(w[18], r[18])
      /\ SameInner(w[19], r[19]) /\ SameInner(w[20], r[20]) /\ SameInner(w[21], r[21])
      /\ SameInner(w[22], r[22]) /\ SameInner(w[23], r[23]) /\ SameInner(w[24], r[24])
      /\ SameInner(w[25], r[25]) /\ SameInner(w[26], r[26]) /\ SameInner(w[27], r[27])
      /\ SameInner(w[28], r[28]) /\ SameInner(w[29], r[29]) /\ SameInner(w[30], r[30])
      /\ SameInner(w[31], r[31]) /\ SameInner(w[32], r[32]) /\ SameInner(w[33], r[33])
      /\ SameInner(w[34], r[34]) /\ SameInner(w[35], r[35]) /\ SameInner(w[36], r[36])
      /\ SameInner(w[37], r[37]) /\ SameInner(w[38], r[38]) /\ SameInner(w[39], r[39])
  BY <1>2, <1>3, SameBasics, SameRuns, InnerLists
<1>7. InnerShapes(w, r, 39)
  <2>1. \A i \in 1..39 : SameInner(w[i], r[i])
    BY <1>5, <1>6
  <2> QED
    BY <1>1, <2>1 DEF InnerShapes
<1>8. /\ Floor(r[1]) = 8 /\ Floor(r[2]) = 2 /\ Floor(r[3]) = 2 /\ Floor(r[4]) = 2
      /\ Floor(r[5]) = 1 /\ Floor(r[6]) = 2 /\ Floor(r[7]) = 2 /\ Floor(r[8]) = 2
      /\ Floor(r[9]) = 2 /\ Floor(r[10]) = 2 /\ Floor(r[11]) = 2 /\ Floor(r[12]) = 2
      /\ Floor(r[13]) = 1 /\ Floor(r[14]) = 2 /\ Floor(r[15]) = 2 /\ Floor(r[16]) = 2
      /\ Floor(r[17]) = 2 /\ Floor(r[18]) = 2 /\ Floor(r[19]) = 2 /\ Floor(r[20]) = 1
      /\ Floor(r[21]) = 1 /\ Floor(r[22]) = 1 /\ Floor(r[23]) = 4 /\ Floor(r[24]) = 4
      /\ Floor(r[25]) = 4 /\ Floor(r[26]) = 4 /\ Floor(r[27]) = 1 /\ Floor(r[28]) = 1
      /\ Floor(r[29]) = 1 /\ Floor(r[30]) = 4 /\ Floor(r[31]) = 4 /\ Floor(r[32]) = 8
      /\ Floor(r[33]) = 1 /\ Floor(r[34]) = 4 /\ Floor(r[35]) = 1 /\ Floor(r[36]) = 1
      /\ Floor(r[37]) = 2 /\ Floor(r[38]) = 4 /\ Floor(r[39]) = 4
  BY <1>3, Widths
<1>9. /\ p[1] - p[1 - 1] = 8 /\ p[2] - p[2 - 1] = 2 /\ p[3] - p[3 - 1] = 2 /\ p[4] - p[4 - 1] = 2
      /\ p[5] - p[5 - 1] = 1 /\ p[6] - p[6 - 1] = 2 /\ p[7] - p[7 - 1] = 2 /\ p[8] - p[8 - 1] = 2
      /\ p[9] - p[9 - 1] = 2 /\ p[10] - p[10 - 1] = 2 /\ p[11] - p[11 - 1] = 2
      /\ p[12] - p[12 - 1] = 2 /\ p[13] - p[13 - 1] = 1 /\ p[14] - p[14 - 1] = 2
      /\ p[15] - p[15 - 1] = 2 /\ p[16] - p[16 - 1] = 2 /\ p[17] - p[17 - 1] = 2
      /\ p[18] - p[18 - 1] = 2 /\ p[19] - p[19 - 1] = 2 /\ p[20] - p[20 - 1] = 1
      /\ p[21] - p[21 - 1] = 1 /\ p[22] - p[22 - 1] = 1 /\ p[23] - p[23 - 1] = 4
      /\ p[24] - p[24 - 1] = 4 /\ p[25] - p[25 - 1] = 4 /\ p[26] - p[26 - 1] = 4
      /\ p[27] - p[27 - 1] = 1 /\ p[28] - p[28 - 1] = 1 /\ p[29] - p[29 - 1] = 1
      /\ p[30] - p[30 - 1] = 4 /\ p[31] - p[31 - 1] = 4 /\ p[32] - p[32 - 1] = 8
      /\ p[33] - p[33 - 1] = 1 /\ p[34] - p[34 - 1] = 4 /\ p[35] - p[35 - 1] = 1
      /\ p[36] - p[36 - 1] = 1 /\ p[37] - p[37 - 1] = 2 /\ p[38] - p[38 - 1] = 4
      /\ p[39] - p[39 - 1] = 4
  BY <1>4
<1>10. \A i \in 1..39 : Floor(r[i]) >= p[i] - p[i - 1]
  BY <1>5, <1>8, <1>9
<1>11. \A i \in 0..39 : p[i] \in Nat
  <2>1. \A i \in 0..39 : i = 0 \/ i \in 1..39
    OBVIOUS
  <2> QED
    BY <1>4, <1>5, <2>1
<1>12. SameField(Each(Group(w)), List(Group(r), p[39]))
  BY <1>4, <1>7, <1>10, <1>11, GroupEach
<1> QED
  BY <1>4, <1>12 DEF w, r

(***************************************************************************)
(* The tables: what a type is written as is what it is read as.            *)
(***************************************************************************)
FieldShapes(w, r, n) ==
    Shape(w, n) /\ Shape(r, n) /\ \A i \in 1..n : SameField(w[i], r[i])
Paired(f, g) == DOMAIN f = DOMAIN g /\ \A t \in DOMAIN f : \E n : FieldShapes(f[t], g[t], n)

LEMMA ControlPaired == Paired(ControlWritten, ControlRead)
<1>1. DOMAIN ControlWritten
        = {"Hello", "HelloAck", "Refuse", "Ping", "Pong"}
  BY DEF ControlWritten
<1>2. DOMAIN ControlRead
        = {"Hello", "HelloAck", "Refuse", "Ping", "Pong"}
  BY DEF ControlRead
<1>3. FieldShapes(ControlWritten["Hello"], ControlRead["Hello"], 3)
  BY FieldBasics DEF FieldShapes, Shape, ControlWritten, ControlRead
<1>4. FieldShapes(ControlWritten["HelloAck"], ControlRead["HelloAck"], 2)
  BY FieldBasics DEF FieldShapes, Shape, ControlWritten, ControlRead
<1>5. FieldShapes(ControlWritten["Refuse"], ControlRead["Refuse"], 1)
  BY FieldBasics DEF FieldShapes, Shape, ControlWritten, ControlRead
<1>6. FieldShapes(ControlWritten["Ping"], ControlRead["Ping"], 1)
  BY FieldBasics DEF FieldShapes, Shape, ControlWritten, ControlRead
<1>7. FieldShapes(ControlWritten["Pong"], ControlRead["Pong"], 1)
  BY FieldBasics DEF FieldShapes, Shape, ControlWritten, ControlRead
<1> QED
  BY <1>1, <1>2, <1>3, <1>4, <1>5, <1>6, <1>7 DEF Paired

LEMMA SessionPaired == Paired(SessionWritten, SessionRead)
<1>1. DOMAIN SessionWritten
        = {"ListSessions", "NewSession", "Attach", "Detach", "ClientResize", "RenameSession",
           "KillSession", "KillServer", "SessionsChanged", "SessionList", "Detached"}
  BY DEF SessionWritten
<1>2. DOMAIN SessionRead
        = {"ListSessions", "NewSession", "Attach", "Detach", "ClientResize", "RenameSession",
           "KillSession", "KillServer", "SessionsChanged", "SessionList", "Detached"}
  BY DEF SessionRead
<1>3. FieldShapes(SessionWritten["ListSessions"], SessionRead["ListSessions"], 0)
  BY FieldBasics DEF FieldShapes, Shape, SessionWritten, SessionRead
<1>4. FieldShapes(SessionWritten["NewSession"], SessionRead["NewSession"], 3)
  BY FieldBasics DEF FieldShapes, Shape, SessionWritten, SessionRead
<1>5. FieldShapes(SessionWritten["Attach"], SessionRead["Attach"], 7)
  BY FieldBasics DEF FieldShapes, Shape, SessionWritten, SessionRead
<1>6. FieldShapes(SessionWritten["Detach"], SessionRead["Detach"], 0)
  BY FieldBasics DEF FieldShapes, Shape, SessionWritten, SessionRead
<1>7. FieldShapes(SessionWritten["ClientResize"], SessionRead["ClientResize"], 4)
  BY FieldBasics DEF FieldShapes, Shape, SessionWritten, SessionRead
<1>8. FieldShapes(SessionWritten["RenameSession"], SessionRead["RenameSession"], 2)
  BY FieldBasics DEF FieldShapes, Shape, SessionWritten, SessionRead
<1>9. FieldShapes(SessionWritten["KillSession"], SessionRead["KillSession"], 3)
  BY FieldBasics DEF FieldShapes, Shape, SessionWritten, SessionRead
<1>10. FieldShapes(SessionWritten["KillServer"], SessionRead["KillServer"], 0)
  BY FieldBasics DEF FieldShapes, Shape, SessionWritten, SessionRead
<1>11. FieldShapes(SessionWritten["SessionsChanged"], SessionRead["SessionsChanged"], 0)
  BY FieldBasics DEF FieldShapes, Shape, SessionWritten, SessionRead
<1>12. FieldShapes(SessionWritten["SessionList"], SessionRead["SessionList"], 1)
  BY FieldBasics, SessionsEach DEF FieldShapes, Shape, SessionWritten, SessionRead
<1>13. FieldShapes(SessionWritten["Detached"], SessionRead["Detached"], 2)
  BY FieldBasics DEF FieldShapes, Shape, SessionWritten, SessionRead
<1> QED
  BY <1>1, <1>2, <1>3, <1>4, <1>5, <1>6, <1>7, <1>8, <1>9, <1>10, <1>11, <1>12, <1>13 DEF Paired

LEMMA TerminalPaired == Paired(TerminalWritten, TerminalRead)
<1>1. DOMAIN TerminalWritten
        = {"NewTerminal", "CloseTerminal", "KillTerminal", "RespawnTerminal", "MoveTerminal",
           "MoveResize", "Raise", "FocusTerm", "ZoomTerm", "RenameTerminal", "Input",
           "PasteChunk", "PasteAck", "SetLayout", "WatchStats", "SetDesktopSize",
           "SetReaderMode"}
  BY DEF TerminalWritten
<1>2. DOMAIN TerminalRead
        = {"NewTerminal", "CloseTerminal", "KillTerminal", "RespawnTerminal", "MoveTerminal",
           "MoveResize", "Raise", "FocusTerm", "ZoomTerm", "RenameTerminal", "Input",
           "PasteChunk", "PasteAck", "SetLayout", "WatchStats", "SetDesktopSize",
           "SetReaderMode"}
  BY DEF TerminalRead
<1>3. FieldShapes(TerminalWritten["NewTerminal"], TerminalRead["NewTerminal"], 7)
  BY FieldBasics DEF FieldShapes, Shape, TerminalWritten, TerminalRead, Rect
<1>4. FieldShapes(TerminalWritten["CloseTerminal"], TerminalRead["CloseTerminal"], 3)
  BY FieldBasics DEF FieldShapes, Shape, TerminalWritten, TerminalRead
<1>5. FieldShapes(TerminalWritten["KillTerminal"], TerminalRead["KillTerminal"], 1)
  BY FieldBasics DEF FieldShapes, Shape, TerminalWritten, TerminalRead
<1>6. FieldShapes(TerminalWritten["RespawnTerminal"], TerminalRead["RespawnTerminal"], 1)
  BY FieldBasics DEF FieldShapes, Shape, TerminalWritten, TerminalRead
<1>7. FieldShapes(TerminalWritten["MoveTerminal"], TerminalRead["MoveTerminal"], 3)
  BY FieldBasics DEF FieldShapes, Shape, TerminalWritten, TerminalRead
<1>8. FieldShapes(TerminalWritten["MoveResize"], TerminalRead["MoveResize"], 5)
  BY FieldBasics DEF FieldShapes, Shape, TerminalWritten, TerminalRead, Rect
<1>9. FieldShapes(TerminalWritten["Raise"], TerminalRead["Raise"], 1)
  BY FieldBasics DEF FieldShapes, Shape, TerminalWritten, TerminalRead
<1>10. FieldShapes(TerminalWritten["FocusTerm"], TerminalRead["FocusTerm"], 1)
  BY FieldBasics DEF FieldShapes, Shape, TerminalWritten, TerminalRead
<1>11. FieldShapes(TerminalWritten["ZoomTerm"], TerminalRead["ZoomTerm"], 2)
  BY FieldBasics DEF FieldShapes, Shape, TerminalWritten, TerminalRead
<1>12. FieldShapes(TerminalWritten["RenameTerminal"], TerminalRead["RenameTerminal"], 2)
  BY FieldBasics DEF FieldShapes, Shape, TerminalWritten, TerminalRead
<1>13. FieldShapes(TerminalWritten["Input"], TerminalRead["Input"], 2)
  BY FieldBasics DEF FieldShapes, Shape, TerminalWritten, TerminalRead
<1>14. FieldShapes(TerminalWritten["PasteChunk"], TerminalRead["PasteChunk"], 4)
  BY FieldBasics DEF FieldShapes, Shape, TerminalWritten, TerminalRead
<1>15. FieldShapes(TerminalWritten["PasteAck"], TerminalRead["PasteAck"], 1)
  BY FieldBasics DEF FieldShapes, Shape, TerminalWritten, TerminalRead
<1>16. FieldShapes(TerminalWritten["SetLayout"], TerminalRead["SetLayout"], 1)
  BY FieldBasics, EntriesEach DEF FieldShapes, Shape, TerminalWritten, TerminalRead
<1>17. FieldShapes(TerminalWritten["WatchStats"], TerminalRead["WatchStats"], 1)
  BY FieldBasics DEF FieldShapes, Shape, TerminalWritten, TerminalRead
<1>18. FieldShapes(TerminalWritten["SetDesktopSize"], TerminalRead["SetDesktopSize"], 2)
  BY FieldBasics DEF FieldShapes, Shape, TerminalWritten, TerminalRead
<1>19. FieldShapes(TerminalWritten["SetReaderMode"], TerminalRead["SetReaderMode"], 2)
  BY FieldBasics DEF FieldShapes, Shape, TerminalWritten, TerminalRead
<1> QED
  BY <1>1, <1>2, <1>3, <1>4, <1>5, <1>6, <1>7, <1>8, <1>9, <1>10, <1>11,
     <1>12, <1>13, <1>14, <1>15, <1>16, <1>17, <1>18, <1>19 DEF Paired

LEMMA SyncPaired == Paired(SyncWritten, SyncRead)
<1>1. DOMAIN SyncWritten
        = {"Attached", "LayoutDelta", "TermOpened", "TermClosed", "TermMeta", "GridDelta",
           "ReaderMode", "ClipboardSet", "TermDiagnostic", "TermStats"}
  BY DEF SyncWritten
<1>2. DOMAIN SyncRead
        = {"Attached", "LayoutDelta", "TermOpened", "TermClosed", "TermMeta", "GridDelta",
           "ReaderMode", "ClipboardSet", "TermDiagnostic", "TermStats"}
  BY DEF SyncRead
<1>3. FieldShapes(SyncWritten["Attached"], SyncRead["Attached"], 5)
  BY FieldBasics, StatesEach DEF FieldShapes, Shape, SyncWritten, SyncRead
<1>4. FieldShapes(SyncWritten["LayoutDelta"], SyncRead["LayoutDelta"], 5)
  BY FieldBasics, EntriesEach DEF FieldShapes, Shape, SyncWritten, SyncRead
<1>5. FieldShapes(SyncWritten["TermOpened"], SyncRead["TermOpened"], 10)
  BY FieldBasics DEF FieldShapes, Shape, SyncWritten, SyncRead, Rect
<1>6. FieldShapes(SyncWritten["TermClosed"], SyncRead["TermClosed"], 4)
  BY FieldBasics DEF FieldShapes, Shape, SyncWritten, SyncRead
<1>7. FieldShapes(SyncWritten["TermMeta"], SyncRead["TermMeta"], 7)
  BY FieldBasics DEF FieldShapes, Shape, SyncWritten, SyncRead
<1>8. FieldShapes(SyncWritten["GridDelta"], SyncRead["GridDelta"], 3)
  BY FieldBasics, OpEach DEF FieldShapes, Shape, SyncWritten, SyncRead
<1>9. FieldShapes(SyncWritten["ReaderMode"], SyncRead["ReaderMode"], 1)
  BY FieldBasics DEF FieldShapes, Shape, SyncWritten, SyncRead
<1>10. FieldShapes(SyncWritten["ClipboardSet"], SyncRead["ClipboardSet"], 2)
  BY FieldBasics DEF FieldShapes, Shape, SyncWritten, SyncRead
<1>11. FieldShapes(SyncWritten["TermDiagnostic"], SyncRead["TermDiagnostic"], 3)
  BY FieldBasics DEF FieldShapes, Shape, SyncWritten, SyncRead
<1>12. FieldShapes(SyncWritten["TermStats"], SyncRead["TermStats"], 11)
  BY FieldBasics DEF FieldShapes, Shape, SyncWritten, SyncRead
<1> QED
  BY <1>1, <1>2, <1>3, <1>4, <1>5, <1>6, <1>7, <1>8, <1>9, <1>10, <1>11, <1>12 DEF Paired

LEMMA ImagePaired == Paired(ImageWritten, ImageRead)
<1>1. DOMAIN ImageWritten
        = {"ImageAddBegin", "ImageChunk", "ImageEnd", "ImagePlace", "ImageRemove"}
  BY DEF ImageWritten
<1>2. DOMAIN ImageRead
        = {"ImageAddBegin", "ImageChunk", "ImageEnd", "ImagePlace", "ImageRemove"}
  BY DEF ImageRead
<1>3. FieldShapes(ImageWritten["ImageAddBegin"], ImageRead["ImageAddBegin"], 3)
  BY FieldBasics DEF FieldShapes, Shape, ImageWritten, ImageRead
<1>4. FieldShapes(ImageWritten["ImageChunk"], ImageRead["ImageChunk"], 3)
  BY FieldBasics DEF FieldShapes, Shape, ImageWritten, ImageRead
<1>5. FieldShapes(ImageWritten["ImageEnd"], ImageRead["ImageEnd"], 1)
  BY FieldBasics DEF FieldShapes, Shape, ImageWritten, ImageRead
<1>6. FieldShapes(ImageWritten["ImagePlace"], ImageRead["ImagePlace"], 8)
  BY FieldBasics DEF FieldShapes, Shape, ImageWritten, ImageRead, Rect
<1>7. FieldShapes(ImageWritten["ImageRemove"], ImageRead["ImageRemove"], 2)
  BY FieldBasics DEF FieldShapes, Shape, ImageWritten, ImageRead
<1> QED
  BY <1>1, <1>2, <1>3, <1>4, <1>5, <1>6, <1>7 DEF Paired

LEMMA EventPaired == Paired(EventWritten, EventRead)
<1>1. DOMAIN EventWritten
        = {"Error", "SetPrinterPolicy", "PrintState", "PrintJobAdded", "PrintJobFetch",
           "PrintJobData", "PrintJobDiscard"}
  BY DEF EventWritten
<1>2. DOMAIN EventRead
        = {"Error", "SetPrinterPolicy", "PrintState", "PrintJobAdded", "PrintJobFetch",
           "PrintJobData", "PrintJobDiscard"}
  BY DEF EventRead
<1>3. FieldShapes(EventWritten["Error"], EventRead["Error"], 3)
  BY FieldBasics DEF FieldShapes, Shape, EventWritten, EventRead
<1>4. FieldShapes(EventWritten["SetPrinterPolicy"], EventRead["SetPrinterPolicy"], 5)
  BY FieldBasics DEF FieldShapes, Shape, EventWritten, EventRead
<1>5. FieldShapes(EventWritten["PrintState"], EventRead["PrintState"], 5)
  BY FieldBasics DEF FieldShapes, Shape, EventWritten, EventRead
<1>6. FieldShapes(EventWritten["PrintJobAdded"], EventRead["PrintJobAdded"], 6)
  BY FieldBasics DEF FieldShapes, Shape, EventWritten, EventRead, WJob, RJob
<1>7. FieldShapes(EventWritten["PrintJobFetch"], EventRead["PrintJobFetch"], 2)
  BY FieldBasics DEF FieldShapes, Shape, EventWritten, EventRead
<1>8. FieldShapes(EventWritten["PrintJobData"], EventRead["PrintJobData"], 5)
  BY FieldBasics DEF FieldShapes, Shape, EventWritten, EventRead
<1>9. FieldShapes(EventWritten["PrintJobDiscard"], EventRead["PrintJobDiscard"], 2)
  BY FieldBasics DEF FieldShapes, Shape, EventWritten, EventRead
<1> QED
  BY <1>1, <1>2, <1>3, <1>4, <1>5, <1>6, <1>7, <1>8, <1>9 DEF Paired

LEMMA PairedBoth ==
    ASSUME NEW f, NEW g, Paired(f, g), NEW d, NEW e, Paired(d, e)
    PROVE  Paired(Both(f, d), Both(g, e))
BY DEF Paired, Both

\* Every message is written as it is read.
LEMMA TypesPaired ==
    ASSUME NEW t \in Types
    PROVE  \E n : FieldShapes(Written[t], Read[t], n)
<1>1. Paired(Written, Read)
  BY ControlPaired, SessionPaired, TerminalPaired, SyncPaired, ImagePaired, EventPaired, PairedBoth
     DEF Written, Read
<1> QED
  BY <1>1 DEF Paired, Types

LEMMA FieldWritten ==
    ASSUME NEW w, NEW r, NEW n, FieldShapes(w, r, n), NEW vs
    PROVE  PutsField(w, vs) = PutsField(r, vs)
<1>1. DOMAIN w = 1..n /\ DOMAIN r = 1..n /\ \A i \in 1..n : PutField(w[i], vs[i]) = PutField(r[i], vs[i])
  BY Zenon DEF FieldShapes, Shape, SameField
<1>2. [i \in DOMAIN w |-> PutField(w[i], vs[i])] = [i \in DOMAIN r |-> PutField(r[i], vs[i])]
  BY <1>1
<1>3. /\ PutsField(w, vs) = FlattenSeq([i \in DOMAIN w |-> PutField(w[i], vs[i])])
      /\ PutsField(r, vs) = FlattenSeq([i \in DOMAIN r |-> PutField(r[i], vs[i])])
  BY Zenon DEF PutsField, Puts
<1> QED
  BY <1>2, <1>3, Zenon

\* Wherever the payload of a message that can be said stands among a reader's
\* bytes, the reader makes of it the message it was written from and goes on
\* right behind it: the two overload sets of proto.cpp agree on every type, at
\* every value of every field.
THEOREM PayloadRead ==
    ASSUME NEW m, Sayable(m)
    PROVE  /\ m = [type |-> m.type, fields |-> m.fields] /\ m.type \in Types
           /\ Payload(m) \in Seq(Byte)
           /\ \A B, a, x : There(B, a, Payload(m)) =>
                  AllField(R(B, a, x), Read[m.type]) = R(B, a + Len(Payload(m)), m.fields)
<1>1. /\ m = [type |-> m.type, fields |-> m.fields] /\ m.type \in Types
      /\ FitsAllField(Read[m.type], m.fields)
  BY Zenon DEF Sayable, FitsAllField
<1>2. PICK n : FieldShapes(Written[m.type], Read[m.type], n)
  BY <1>1, TypesPaired
<1>3. Payload(m) = PutsField(Read[m.type], m.fields)
  <2>1. Payload(m) = PutsField(Written[m.type], m.fields)
    BY Zenon DEF Payload, PutsField
  <2> QED
    BY <1>2, <2>1, FieldWritten
<1>4. Shape(Read[m.type], n) /\ \A i \in 1..n : GoodField(Read[m.type][i])
  BY <1>2, Zenon DEF FieldShapes, SameField
<1> QED
  BY <1>1, <1>3, <1>4, FieldFields

(***************************************************************************)
(* The codes: every type has one, and no two have the same.                *)
(***************************************************************************)
Listing(t, p) ==
    /\ p \in (1..5) \X (1..17)
    /\ p[2] \in DOMAIN Catalogue[p[1]] /\ Catalogue[p[1]][p[2]] = t
Listed(t) == \E p : Listing(t, p)

LEMMA ListedAt ==
    ASSUME NEW g \in 1..5, NEW i \in 1..17, i \in DOMAIN Catalogue[g]
    PROVE  Listed(Catalogue[g][i])
<1>1. <<g, i>> \in (1..5) \X (1..17) /\ <<g, i>>[1] = g /\ <<g, i>>[2] = i
  OBVIOUS
<1>2. Listing(Catalogue[g][i], <<g, i>>)
  BY <1>1 DEF Listing
<1> QED
  BY <1>2, Zenon DEF Listed

LEMMA Group1 == /\ Listed("Hello") /\ Listed("HelloAck") /\ Listed("Refuse") /\ Listed("Ping")
                /\ Listed("Pong")
<1>1. DOMAIN Catalogue[1] = 1..5
  BY DEF Catalogue
<1>2. /\ Catalogue[1][1] = "Hello" /\ Catalogue[1][2] = "HelloAck" /\ Catalogue[1][3] = "Refuse"
      /\ Catalogue[1][4] = "Ping" /\ Catalogue[1][5] = "Pong"
  BY DEF Catalogue
<1>3. \A i \in 1..5 : Listed(Catalogue[1][i])
  BY <1>1, ListedAt
<1>4. /\ Listed(Catalogue[1][1]) /\ Listed(Catalogue[1][2]) /\ Listed(Catalogue[1][3])
      /\ Listed(Catalogue[1][4]) /\ Listed(Catalogue[1][5])
  BY <1>3
<1> QED
  BY <1>2, <1>4, Zenon

LEMMA Group2 == /\ Listed("ListSessions") /\ Listed("NewSession") /\ Listed("Attach")
                /\ Listed("Detach") /\ Listed("ClientResize") /\ Listed("RenameSession")
                /\ Listed("KillSession") /\ Listed("KillServer") /\ Listed("SessionList")
                /\ Listed("SessionsChanged") /\ Listed("Attached") /\ Listed("Detached")
<1>1. DOMAIN Catalogue[2] = 1..12
  BY DEF Catalogue
<1>2. /\ Catalogue[2][1] = "ListSessions" /\ Catalogue[2][2] = "NewSession"
      /\ Catalogue[2][3] = "Attach" /\ Catalogue[2][4] = "Detach"
      /\ Catalogue[2][5] = "ClientResize" /\ Catalogue[2][6] = "RenameSession"
      /\ Catalogue[2][7] = "KillSession" /\ Catalogue[2][8] = "KillServer"
      /\ Catalogue[2][9] = "SessionList" /\ Catalogue[2][10] = "SessionsChanged"
      /\ Catalogue[2][11] = "Attached" /\ Catalogue[2][12] = "Detached"
  BY DEF Catalogue
<1>3. \A i \in 1..12 : Listed(Catalogue[2][i])
  BY <1>1, ListedAt
<1>4. /\ Listed(Catalogue[2][1]) /\ Listed(Catalogue[2][2]) /\ Listed(Catalogue[2][3])
      /\ Listed(Catalogue[2][4]) /\ Listed(Catalogue[2][5]) /\ Listed(Catalogue[2][6])
      /\ Listed(Catalogue[2][7]) /\ Listed(Catalogue[2][8]) /\ Listed(Catalogue[2][9])
      /\ Listed(Catalogue[2][10]) /\ Listed(Catalogue[2][11]) /\ Listed(Catalogue[2][12])
  BY <1>3
<1> QED
  BY <1>2, <1>4, Zenon

LEMMA Group3 == /\ Listed("NewTerminal") /\ Listed("CloseTerminal") /\ Listed("KillTerminal")
                /\ Listed("RespawnTerminal") /\ Listed("MoveTerminal") /\ Listed("MoveResize")
                /\ Listed("Raise") /\ Listed("FocusTerm") /\ Listed("ZoomTerm")
                /\ Listed("RenameTerminal") /\ Listed("Input") /\ Listed("PasteChunk")
                /\ Listed("PasteAck") /\ Listed("SetLayout") /\ Listed("WatchStats")
                /\ Listed("SetDesktopSize") /\ Listed("SetReaderMode")
<1>1. DOMAIN Catalogue[3] = 1..17
  BY DEF Catalogue
<1>2. /\ Catalogue[3][1] = "NewTerminal" /\ Catalogue[3][2] = "CloseTerminal"
      /\ Catalogue[3][3] = "KillTerminal" /\ Catalogue[3][4] = "RespawnTerminal"
      /\ Catalogue[3][5] = "MoveTerminal" /\ Catalogue[3][6] = "MoveResize"
      /\ Catalogue[3][7] = "Raise" /\ Catalogue[3][8] = "FocusTerm"
      /\ Catalogue[3][9] = "ZoomTerm" /\ Catalogue[3][10] = "RenameTerminal"
      /\ Catalogue[3][11] = "Input" /\ Catalogue[3][12] = "PasteChunk"
      /\ Catalogue[3][13] = "PasteAck" /\ Catalogue[3][14] = "SetLayout"
      /\ Catalogue[3][15] = "WatchStats" /\ Catalogue[3][16] = "SetDesktopSize"
      /\ Catalogue[3][17] = "SetReaderMode"
  BY DEF Catalogue
<1>3. \A i \in 1..17 : Listed(Catalogue[3][i])
  BY <1>1, ListedAt
<1>4. /\ Listed(Catalogue[3][1]) /\ Listed(Catalogue[3][2]) /\ Listed(Catalogue[3][3])
      /\ Listed(Catalogue[3][4]) /\ Listed(Catalogue[3][5]) /\ Listed(Catalogue[3][6])
      /\ Listed(Catalogue[3][7]) /\ Listed(Catalogue[3][8]) /\ Listed(Catalogue[3][9])
      /\ Listed(Catalogue[3][10]) /\ Listed(Catalogue[3][11]) /\ Listed(Catalogue[3][12])
      /\ Listed(Catalogue[3][13]) /\ Listed(Catalogue[3][14]) /\ Listed(Catalogue[3][15])
      /\ Listed(Catalogue[3][16]) /\ Listed(Catalogue[3][17])
  BY <1>3
<1> QED
  BY <1>2, <1>4, Zenon

LEMMA Group4 == /\ Listed("LayoutDelta") /\ Listed("TermOpened") /\ Listed("TermClosed")
                /\ Listed("TermMeta") /\ Listed("GridDelta") /\ Listed("ImageAddBegin")
                /\ Listed("ImageChunk") /\ Listed("ImageEnd") /\ Listed("ImagePlace")
                /\ Listed("ImageRemove") /\ Listed("ClipboardSet") /\ Listed("TermDiagnostic")
                /\ Listed("TermStats") /\ Listed("ReaderMode")
<1>1. DOMAIN Catalogue[4] = 1..14
  BY DEF Catalogue
<1>2. /\ Catalogue[4][1] = "LayoutDelta" /\ Catalogue[4][2] = "TermOpened"
      /\ Catalogue[4][3] = "TermClosed" /\ Catalogue[4][4] = "TermMeta"
      /\ Catalogue[4][5] = "GridDelta" /\ Catalogue[4][6] = "ImageAddBegin"
      /\ Catalogue[4][7] = "ImageChunk" /\ Catalogue[4][8] = "ImageEnd"
      /\ Catalogue[4][9] = "ImagePlace" /\ Catalogue[4][10] = "ImageRemove"
      /\ Catalogue[4][11] = "ClipboardSet" /\ Catalogue[4][12] = "TermDiagnostic"
      /\ Catalogue[4][13] = "TermStats" /\ Catalogue[4][14] = "ReaderMode"
  BY DEF Catalogue
<1>3. \A i \in 1..14 : Listed(Catalogue[4][i])
  BY <1>1, ListedAt
<1>4. /\ Listed(Catalogue[4][1]) /\ Listed(Catalogue[4][2]) /\ Listed(Catalogue[4][3])
      /\ Listed(Catalogue[4][4]) /\ Listed(Catalogue[4][5]) /\ Listed(Catalogue[4][6])
      /\ Listed(Catalogue[4][7]) /\ Listed(Catalogue[4][8]) /\ Listed(Catalogue[4][9])
      /\ Listed(Catalogue[4][10]) /\ Listed(Catalogue[4][11]) /\ Listed(Catalogue[4][12])
      /\ Listed(Catalogue[4][13]) /\ Listed(Catalogue[4][14])
  BY <1>3
<1> QED
  BY <1>2, <1>4, Zenon

LEMMA Group5 == /\ Listed("Error") /\ Listed("SetPrinterPolicy") /\ Listed("PrintState")
                /\ Listed("PrintJobAdded") /\ Listed("PrintJobFetch") /\ Listed("PrintJobData")
                /\ Listed("PrintJobDiscard")
<1>1. DOMAIN Catalogue[5] = 1..7
  BY DEF Catalogue
<1>2. /\ Catalogue[5][1] = "Error" /\ Catalogue[5][2] = "SetPrinterPolicy"
      /\ Catalogue[5][3] = "PrintState" /\ Catalogue[5][4] = "PrintJobAdded"
      /\ Catalogue[5][5] = "PrintJobFetch" /\ Catalogue[5][6] = "PrintJobData"
      /\ Catalogue[5][7] = "PrintJobDiscard"
  BY DEF Catalogue
<1>3. \A i \in 1..7 : Listed(Catalogue[5][i])
  BY <1>1, ListedAt
<1>4. /\ Listed(Catalogue[5][1]) /\ Listed(Catalogue[5][2]) /\ Listed(Catalogue[5][3])
      /\ Listed(Catalogue[5][4]) /\ Listed(Catalogue[5][5]) /\ Listed(Catalogue[5][6])
      /\ Listed(Catalogue[5][7])
  BY <1>3
<1> QED
  BY <1>2, <1>4, Zenon

LEMMA BothHas ==
    ASSUME NEW f, NEW g, NEW t, t \in DOMAIN Both(f, g)
    PROVE  t \in DOMAIN f \/ t \in DOMAIN g
BY DEF Both

LEMMA EachListed ==
    ASSUME NEW t \in Types
    PROVE  Listed(t)
<1>1. \A s \in DOMAIN ControlWritten : Listed(s)
  BY Group1 DEF ControlWritten
<1>2. \A s \in DOMAIN SessionWritten : Listed(s)
  BY Group2 DEF SessionWritten
<1>3. \A s \in DOMAIN TerminalWritten : Listed(s)
  BY Group3 DEF TerminalWritten
<1>4. \A s \in DOMAIN SyncWritten : Listed(s)
  BY Group2, Group4 DEF SyncWritten
<1>5. \A s \in DOMAIN ImageWritten : Listed(s)
  BY Group4 DEF ImageWritten
<1>6. \A s \in DOMAIN EventWritten : Listed(s)
  BY Group5 DEF EventWritten
<1>8. \/ t \in DOMAIN ControlWritten \/ t \in DOMAIN SessionWritten \/ t \in DOMAIN TerminalWritten
      \/ t \in DOMAIN SyncWritten \/ t \in DOMAIN ImageWritten \/ t \in DOMAIN EventWritten
  <2>1. t \in DOMAIN Both(ControlWritten, Both(SessionWritten, Both(TerminalWritten,
            Both(SyncWritten, Both(ImageWritten, EventWritten)))))
    BY Zenon DEF Types, Written
  <2> DEFINE d == Both(ImageWritten, EventWritten)
             c == Both(SyncWritten, d)
             b == Both(TerminalWritten, c)
             a == Both(SessionWritten, b)
  <2>2. t \in DOMAIN Both(ControlWritten, a)
    BY <2>1
  <2> HIDE DEF a
  <2>3. t \in DOMAIN ControlWritten \/ t \in DOMAIN a
    BY <2>2, BothHas
  <2> USE DEF a
  <2> HIDE DEF b
  <2>4. t \in DOMAIN a => t \in DOMAIN SessionWritten \/ t \in DOMAIN b
    BY BothHas
  <2> USE DEF b
  <2> HIDE DEF c
  <2>5. t \in DOMAIN b => t \in DOMAIN TerminalWritten \/ t \in DOMAIN c
    BY BothHas
  <2> USE DEF c
  <2> HIDE DEF d
  <2>6. t \in DOMAIN c => t \in DOMAIN SyncWritten \/ t \in DOMAIN d
    BY BothHas
  <2> USE DEF d
  <2>7. t \in DOMAIN d => t \in DOMAIN ImageWritten \/ t \in DOMAIN EventWritten
    BY BothHas
  <2> HIDE DEF a, b, c, d
  <2> QED
    BY <2>3, <2>4, <2>5, <2>6, <2>7
<1> QED
  BY <1>1, <1>2, <1>3, <1>4, <1>5, <1>6, <1>8

\* A code is the place of its type.
LEMMA CodeIs ==
    ASSUME NEW t \in Types
    PROVE  \E g \in 1..5, i \in 1..17 : Codes[t] = 256 * (g - 1) + i /\ Catalogue[g][i] = t
<1> DEFINE S == (1..5) \X (1..17)
           P(p) == p[2] \in DOMAIN Catalogue[p[1]] /\ Catalogue[p[1]][p[2]] = t
           at == CHOOSE p \in S : P(p)
<1>1. PICK q \in S : P(q)
  BY EachListed, Zenon DEF Listed, Listing
<1>2. Code(t) = 256 * (at[1] - 1) + at[2]
  BY Zenon DEF Code
<1>3. \A p \in S : p[1] \in 1..5 /\ p[2] \in 1..17
  OBVIOUS
<1> HIDE DEF S, P
<1>4. at \in S /\ P(at)
  BY <1>1
<1> HIDE DEF at
<1>5. Codes[t] = 256 * (at[1] - 1) + at[2]
  BY <1>2 DEF Codes
<1>6. Catalogue[at[1]][at[2]] = t /\ at[1] \in 1..5 /\ at[2] \in 1..17
  BY <1>3, <1>4 DEF P
<1> QED
  BY <1>5, <1>6

\* Every type of message has a code of two bytes, and no two have the same
\* (MessageType, message_type_from).
THEOREM CodesDiffer ==
    /\ \A t \in Types : Codes[t] \in Nat /\ Rest(Codes[t], 2) = 0
    /\ \A s, t \in Types : Codes[s] = Codes[t] => s = t
<1>1. ASSUME NEW t \in Types PROVE Codes[t] \in Nat /\ Rest(Codes[t], 2) = 0
  <2>1. PICK g \in 1..5, i \in 1..17 : Codes[t] = 256 * (g - 1) + i
    BY CodeIs
  <2> DEFINE k == 256 * (g - 1) + i
  <2>2. k \in Nat /\ k < 65536
    OBVIOUS
  <2> HIDE DEF k
  <2>3. Rest(k, 2) = 0
    BY <2>2, RestSmall
  <2>4. Codes[t] = k
    BY <2>1 DEF k
  <2> QED
    BY <2>2, <2>3, <2>4
<1>2. ASSUME NEW s \in Types, NEW t \in Types, Codes[s] = Codes[t] PROVE s = t
  <2>1. PICK g \in 1..5, i \in 1..17 : Codes[s] = 256 * (g - 1) + i /\ Catalogue[g][i] = s
    BY CodeIs
  <2>2. PICK h \in 1..5, j \in 1..17 : Codes[t] = 256 * (h - 1) + j /\ Catalogue[h][j] = t
    BY CodeIs
  <2>3. 256 * (g - 1) + i = 256 * (h - 1) + j
    BY <1>2, <2>1, <2>2
  <2>4. g = h /\ i = j
    BY <2>3
  <2> QED
    BY <2>1, <2>2, <2>4
<1> QED
  BY <1>1, <1>2

(***************************************************************************)
(* Frames.                                                                 *)
(***************************************************************************)
LEMMA PartIs ==
    ASSUME NEW S, NEW B \in Seq(S), NEW b \in Seq(S), NEW a \in Nat, a + Len(b) <= Len(B),
           \A k \in 1..Len(b) : B[a + k] = b[k]
    PROVE  SubSeq(B, a + 1, a + Len(b)) = b
<1> DEFINE s == SubSeq(B, a + 1, a + Len(b))
<1>1. Len(b) \in Nat /\ Len(B) \in Nat
  OBVIOUS
<1>2. s \in Seq(S) /\ Len(s) = Len(b) /\ \A k \in 1..Len(b) : s[k] = B[a + k]
  <2> DEFINE n == a + Len(b)
  <2>1. n \in Nat /\ n <= Len(B) /\ a + 1 \in Int /\ n \in Int /\ \A k \in (a + 1)..n : B[k] \in S
    BY <1>1
  <2>2. /\ n - (a + 1) + 1 = Len(b) /\ \A k \in 1..Len(b) : a + 1 + k - 1 = a + k
        /\ Len(b) = 0 <=> ~(a + 1 <= n)
    BY <1>1
  <2> HIDE DEF n
  <2>3. /\ SubSeq(B, a + 1, n) \in Seq(S)
        /\ Len(SubSeq(B, a + 1, n)) = IF a + 1 <= n THEN n - (a + 1) + 1 ELSE 0
        /\ \A k \in 1..(n - (a + 1) + 1) : SubSeq(B, a + 1, n)[k] = B[a + 1 + k - 1]
    BY ONLY <2>1, SubSeqProperties
  <2> QED
    BY <2>2, <2>3 DEF n
<1> HIDE DEF s
<1>3. s = b
  BY <1>1, <1>2, SeqEqual
<1> QED
  BY <1>3 DEF s

LEMMA CapsFit ==
    ASSUME NEW t
    PROVE  PayloadCap(t) \in Nat /\ PayloadCap(t) <= MaxSnapshot /\ MaxSnapshot \in Nat
<1>1. MaxSnapshot \in Nat /\ MaxChunk + 64 \in Nat /\ MaxPayload \in Nat /\ ReadBudget \in Nat
  BY CapAssumption, RoomAssumption
<1>2. MaxPayload + ReadBudget <= MaxSnapshot /\ (MaxChunk + 64) + ReadBudget <= MaxSnapshot
  BY RoomAssumption
<1> QED
  BY <1>1, <1>2 DEF PayloadCap

\* What of a message's frame is there.
Agree(B, F) == \A k \in 1..Len(B) : k <= Len(F) => B[k] = F[k]
Sent(m) == Sayable(m) /\ Encode(m) # <<>>

LEMMA FrameIs ==
    ASSUME NEW m, Sent(m)
    PROVE  /\ m.type \in Types /\ Payload(m) \in Seq(Byte) /\ Len(Payload(m)) <= PayloadCap(m.type)
           /\ Encode(m) \in Seq(Byte) /\ Len(Encode(m)) = 8 + Len(Payload(m))
           /\ \A k \in 1..4 : Encode(m)[k] = Bytes(Len(Payload(m)), 4)[k]
           /\ \A k \in 1..2 : Encode(m)[4 + k] = Bytes(Codes[m.type], 2)[k]
           /\ \A k \in 1..2 : Encode(m)[6 + k] = Bytes(0, 2)[k]
           /\ \A k \in 1..Len(Payload(m)) : Encode(m)[8 + k] = Payload(m)[k]
<1> DEFINE p == Payload(m)
           a == Bytes(Len(p), 4)
           b == Bytes(Codes[m.type], 2)
           c == Bytes(0, 2)
           U == Byte
<1>1. p \in Seq(Byte) /\ m.type \in Types
  BY PayloadRead DEF Sent
<1>2. Encode(m) = a \o b \o c \o p /\ ~(Len(p) > PayloadCap(m.type))
  <2>1. Framed(m.type, p) # <<>> /\ Encode(m) = Framed(m.type, p)
    BY Zenon DEF Encode, Sent
  <2> QED
    BY <2>1, Zenon DEF Framed
<1>3. a \in Seq(Byte) /\ Len(a) = 4
  <2>1. Len(p) \in Int
    BY <1>1
  <2> HIDE DEF p
  <2> QED
    BY <2>1, BytesType DEF Widest
<1>4. b \in Seq(Byte) /\ Len(b) = 2
  <2> DEFINE k == Codes[m.type]
  <2>1. k \in Int
    BY <1>1, CodesDiffer
  <2> HIDE DEF k
  <2>2. Bytes(k, 2) \in Seq(Byte) /\ Len(Bytes(k, 2)) = 2
    BY <2>1, BytesType DEF Widest
  <2> QED
    BY <2>2 DEF k
<1>5. c \in Seq(Byte) /\ Len(c) = 2
  BY BytesType DEF Widest
<1>6. p \in Seq(U) /\ a \in Seq(U) /\ b \in Seq(U) /\ c \in Seq(U)
  BY <1>1, <1>3, <1>4, <1>5
<1>7. Len(p) \in Nat /\ PayloadCap(m.type) \in Nat
  BY <1>1, CapsFit
<1> DEFINE d == a \o b
           e == d \o c
           f == e \o p
<1> HIDE DEF p, a, b, c, U
<1>8. /\ d \in Seq(U) /\ Len(d) = 6 /\ \A i \in 1..4 : d[i] = a[i]
      /\ \A i \in 1..2 : d[4 + i] = b[i]
  <2>1. a \o b \in Seq(U) /\ Len(a \o b) = Len(a) + Len(b)
    BY <1>6, ConcatParts
  <2>2. \A i \in 1..Len(a) : (a \o b)[i] = a[i]
    BY <1>6, ConcatParts
  <2>3. \A i \in 1..Len(b) : (a \o b)[Len(a) + i] = b[i]
    BY <1>6, ConcatParts
  <2> QED
    BY <2>1, <2>2, <2>3, <1>3, <1>4
<1> HIDE DEF d
<1>9. /\ e \in Seq(U) /\ Len(e) = 8 /\ \A i \in 1..6 : e[i] = d[i]
      /\ \A i \in 1..2 : e[6 + i] = c[i]
  <2>0. d \in Seq(U) /\ c \in Seq(U)
    BY <1>6, <1>8
  <2>1. d \o c \in Seq(U) /\ Len(d \o c) = Len(d) + Len(c)
    BY <2>0, ConcatParts
  <2>2. \A i \in 1..Len(d) : (d \o c)[i] = d[i]
    BY <2>0, ConcatParts
  <2>3. \A i \in 1..Len(c) : (d \o c)[Len(d) + i] = c[i]
    BY <2>0, ConcatParts
  <2> QED
    BY <2>1, <2>2, <2>3, <1>5, <1>8
<1> HIDE DEF e
<1>10. /\ f \in Seq(U) /\ Len(f) = 8 + Len(p) /\ \A i \in 1..8 : f[i] = e[i]
       /\ \A i \in 1..Len(p) : f[8 + i] = p[i]
  <2>0. e \in Seq(U) /\ p \in Seq(U)
    BY <1>6, <1>9
  <2>1. e \o p \in Seq(U) /\ Len(e \o p) = Len(e) + Len(p)
    BY <2>0, ConcatParts
  <2>2. \A i \in 1..Len(e) : (e \o p)[i] = e[i]
    BY <2>0, ConcatParts
  <2>3. \A i \in 1..Len(p) : (e \o p)[Len(e) + i] = p[i]
    BY <2>0, ConcatParts
  <2> QED
    BY <2>1, <2>2, <2>3, <1>9
<1> HIDE DEF f
<1>11. f = Encode(m)
  BY <1>2 DEF f, e, d
<1>12. /\ \A i \in 1..4 : f[i] = a[i]
       /\ \A i \in 1..2 : f[4 + i] = b[i] /\ f[6 + i] = c[i]
  BY <1>8, <1>9, <1>10
<1>13. Len(p) <= PayloadCap(m.type)
  BY <1>2, <1>7
<1> QED
  BY <1>1, <1>10, <1>11, <1>12, <1>13 DEF a, b, c, p, U

Refusal == Refused("Incomplete")
Delivery(m) == [error |-> "None", consumed |-> Len(Encode(m)), message |-> m]

\* Less than a frame's header is not a frame yet.
LEMMA DecodeShort ==
    ASSUME NEW B, Len(B) < 8
    PROVE  Decode(B) = Refusal
BY Zenon DEF Decode, Header, Refusal

\* The payload of a message is read as the message.
LEMMA AnswerIs ==
    ASSUME NEW m, Sent(m)
    PROVE  Answer(m.type, Len(Payload(m)), GetAll(GetField, Reader(Payload(m)), Read[m.type])) = Delivery(m)
<1> DEFINE p == Payload(m)
           n == Len(p)
           r == R(p, n, m.fields)
<1>1. /\ m = [type |-> m.type, fields |-> m.fields] /\ p \in Seq(Byte)
      /\ \A B, a, x : There(B, a, p) => AllField(R(B, a, x), Read[m.type]) = R(B, a + Len(p), m.fields)
  BY PayloadRead DEF Sent
<1>2. n <= PayloadCap(m.type) /\ Len(Encode(m)) = 8 + n
  BY FrameIs
<1> HIDE DEF p
<1>3. n \in Nat
  BY <1>1
<1>4. There(p, 0, p)
  <2>1. n <= MaxSnapshot
    BY <1>2, <1>3, CapsFit
  <2> QED
    BY <1>1, <1>3, <2>1 DEF There
<1>5. AllField(R(p, 0, <<>>), Read[m.type]) = r
  <2>1. 0 + Len(p) = n
    BY <1>3
  <2> QED
    BY <1>1, <1>4, <2>1
<1>6. GetAll(GetField, Reader(p), Read[m.type]) = r
  BY <1>5, ReaderIs, Zenon DEF AllField
<1>7. r.ok /\ Remaining(r) = 0 /\ r.val = m.fields
  <2>1. r.bytes = p /\ r.at = n /\ r.ok /\ r.val = m.fields
    BY RParts
  <2>2. Remaining(r) = n - n
    BY <2>1, Zenon DEF Remaining
  <2> QED
    BY <1>3, <2>1, <2>2
<1> HIDE DEF r
<1>8. ~(Remaining(r) > 0)
  BY <1>7
<1>9. Answer(m.type, n, r) = [error |-> "None", consumed |-> Header + n,
                              message |-> [type |-> m.type, fields |-> r.val]]
  BY <1>7, <1>8, Zenon DEF Answer
<1>10. [type |-> m.type, fields |-> r.val] = m
  BY <1>1, <1>7, Zenon
<1>11. Header + n = Len(Encode(m))
  BY <1>2 DEF Header
<1>12. Answer(m.type, n, r) = Delivery(m)
  BY <1>9, <1>10, <1>11, Zenon DEF Delivery
<1> QED
  BY <1>6, <1>12 DEF p, n

LEMMA NumberIs ==
    ASSUME NEW n \in Nat, NEW w \in 1..Widest, Holds(n, w, FALSE)
    PROVE  Bytes(n, w) \in Seq(Byte) /\ Len(Bytes(n, w)) = w /\ Number(Bytes(n, w), FALSE) = n
<1>1. n \in Int /\ w \in 0..Widest /\ FALSE \in BOOLEAN
  BY DEF Widest
<1>2. Bytes(n, w) \in Seq(Byte) /\ Len(Bytes(n, w)) = w
  BY <1>1, BytesType
<1>3. Number(Bytes(n, w), FALSE) = n
  BY <1>1, NumberBytes
<1> QED
  BY <1>2, <1>3

LEMMA HeadNumbers ==
    ASSUME NEW n \in Nat
    PROVE  /\ n <= MaxSnapshot => /\ Bytes(n, 4) \in Seq(Byte) /\ Len(Bytes(n, 4)) = 4
                                 /\ Number(Bytes(n, 4), FALSE) = n
           /\ Rest(n, 2) = 0 => /\ Bytes(n, 2) \in Seq(Byte) /\ Len(Bytes(n, 2)) = 2
                                /\ Number(Bytes(n, 2), FALSE) = n
<1>1. 4 \in 1..Widest /\ 2 \in 1..Widest
  BY DEF Widest
<1>2. ASSUME n <= MaxSnapshot PROVE Holds(n, 4, FALSE)
  BY <1>2, LengthHeld
<1>3. ASSUME Rest(n, 2) = 0 PROVE Holds(n, 2, FALSE)
  BY <1>3, Zenon DEF Holds
<1> QED
  BY <1>1, <1>2, <1>3, NumberIs

\* Less than the whole of a frame is not a frame yet, whatever was cut off, and
\* the frame with anything behind it is the message it was made of, as long as
\* its frame: no prefix of a good frame is ever refused (decode_frame).
THEOREM DecodeFrame ==
    ASSUME NEW m, Sent(m), NEW B \in Seq(Byte), Agree(B, Encode(m))
    PROVE  /\ Len(B) < Len(Encode(m)) => Decode(B) = Refusal
           /\ Len(B) >= Len(Encode(m)) => Decode(B) = Delivery(m)
<1> DEFINE p == Payload(m)
           n == Len(p)
           F == Encode(m)
           L == Len(B)
           c == Codes[m.type]
           length == Number(SubSeq(B, 1, 4), FALSE)
           code == Number(SubSeq(B, 5, 6), FALSE)
           type == CHOOSE t \in Types : Codes[t] = code
           r == GetAll(GetField, Reader(SubSeq(B, Header + 1, Header + length)), Read[type])
<1>1. /\ m.type \in Types /\ p \in Seq(Byte) /\ n <= PayloadCap(m.type)
      /\ F \in Seq(Byte) /\ Len(F) = 8 + n
      /\ \A k \in 1..4 : F[k] = Bytes(n, 4)[k]
      /\ \A k \in 1..2 : F[4 + k] = Bytes(c, 2)[k]
      /\ \A k \in 1..2 : F[6 + k] = Bytes(0, 2)[k]
      /\ \A k \in 1..n : F[8 + k] = p[k]
  BY FrameIs
<1>2. n \in Nat /\ L \in Nat /\ PayloadCap(m.type) \in Nat /\ n <= MaxSnapshot
  <2>1. n \in Nat /\ L \in Nat
    BY <1>1
  <2> QED
    BY <1>1, <2>1, CapsFit
<1>3. CASE L < 8
  <2>1. L < Len(F)
    BY <1>1, <1>2, <1>3
  <2> QED
    BY <1>1, <1>2, <1>3, <2>1, DecodeShort
<1>4. CASE L >= 8
  <2>1. \A k \in 1..8 : B[k] = F[k]
    BY <1>1, <1>2, <1>4 DEF Agree
  <2>2. /\ \A k \in 1..4 : B[0 + k] = Bytes(n, 4)[k]
        /\ \A k \in 1..2 : B[4 + k] = Bytes(c, 2)[k] /\ B[6 + k] = Bytes(0, 2)[k]
    BY <1>1, <2>1
  <2>3. Bytes(n, 4) \in Seq(Byte) /\ Len(Bytes(n, 4)) = 4 /\ Number(Bytes(n, 4), FALSE) = n
    <3>1. n \in Nat /\ n <= MaxSnapshot
      BY <1>2
    <3> HIDE DEF n
    <3> QED
      BY <3>1, HeadNumbers
  <2>4. Bytes(c, 2) \in Seq(Byte) /\ Len(Bytes(c, 2)) = 2 /\ Number(Bytes(c, 2), FALSE) = c
    <3>1. c \in Nat /\ Rest(c, 2) = 0
      BY <1>1, CodesDiffer
    <3> HIDE DEF c
    <3> QED
      BY <3>1, HeadNumbers
  <2>5. Bytes(0, 2) \in Seq(Byte) /\ Len(Bytes(0, 2)) = 2 /\ Number(Bytes(0, 2), FALSE) = 0
    <3>1. Rest(0, 2) = 0
      BY RestSmall
    <3> QED
      BY <3>1, HeadNumbers
  <2> HIDE DEF p, n, F, L, c
  <2>6. SubSeq(B, 1, 4) = Bytes(n, 4)
    BY <1>2, <1>4, <2>2, <2>3, PartIs DEF L
  <2>7. SubSeq(B, 5, 6) = Bytes(c, 2)
    BY <1>2, <1>4, <2>2, <2>4, PartIs DEF L
  <2>8. SubSeq(B, 7, 8) = Bytes(0, 2)
    BY <1>2, <1>4, <2>2, <2>5, PartIs DEF L
  <2>9. length = n /\ code = c /\ Number(SubSeq(B, 7, 8), FALSE) = 0
    BY <2>3, <2>4, <2>5, <2>6, <2>7, <2>8
  <2> HIDE DEF length, code
  <2>10. Codes[m.type] = code /\ type = m.type
    <3>1. Codes[m.type] = code
      BY <2>9 DEF c
    <3>2. type \in Types /\ Codes[type] = code
      BY <1>1, <3>1
    <3> QED
      BY <1>1, <3>1, <3>2, CodesDiffer
  <2> HIDE DEF type
  <2>11. ~(L < Header) /\ ~(length > PayloadCap(type)) /\ ~(\A t \in Types : Codes[t] # code)
    BY <1>1, <1>2, <1>4, <2>9, <2>10 DEF Header
  <2> HIDE DEF r
  <2>12. Decode(B) = IF Len(B) - Header < length THEN Refusal ELSE Answer(type, length, r)
    BY <2>9, <2>11, Zenon DEF Decode, length, code, type, r, L, Refusal
  <2>13. CASE L < 8 + n
    <3>1. L - Header < length
      BY <1>2, <2>9, <2>13 DEF Header
    <3> QED
      BY <1>1, <1>2, <2>12, <2>13, <3>1 DEF L, F
  <2>14. CASE ~(L < 8 + n)
    <3>1. ~(L - Header < length)
      BY <1>2, <2>9, <2>14 DEF Header
    <3>2. \A k \in 1..n : B[8 + k] = p[k]
      BY <1>1, <1>2, <2>14 DEF Agree, L, F
    <3>3. SubSeq(B, 8 + 1, 8 + n) = p
      <4> DEFINE U == Byte
      <4>1. B \in Seq(U) /\ p \in Seq(U) /\ 8 \in Nat /\ 8 + Len(p) <= Len(B)
        BY <1>1, <1>2, <2>14 DEF L, n
      <4>2. \A k \in 1..Len(p) : B[8 + k] = p[k]
        BY <3>2 DEF n
      <4> HIDE DEF U
      <4> QED
        BY ONLY <4>1, <4>2, PartIs DEF n
    <3>4. r = GetAll(GetField, Reader(p), Read[m.type])
      BY <2>9, <2>10, <3>3 DEF r, Header
    <3>5. Answer(type, length, r) = Delivery(m)
      BY <2>9, <2>10, <3>4, AnswerIs DEF n, p
    <3>6. Decode(B) = Delivery(m)
      BY <2>12, <3>1, <3>5, Zenon DEF L
    <3> QED
      BY <1>1, <1>2, <2>14, <3>6 DEF L, F
  <2> QED
    BY <2>13, <2>14 DEF L, F
<1> QED
  BY <1>2, <1>3, <1>4

(***************************************************************************)
(* Sizes: what is said of a snapshot before it is written is how long it is. *)
(***************************************************************************)
Summing(a, f) == [n \in 0..Len(a) |-> IF n = 0 THEN 0 ELSE f[n - 1] + a[n]]
Summation(a, n) ==
    \E g \in [0..n -> Nat] : g[0] = 0 /\ SumOf(a) = g[n] /\ \A i \in 1..n : g[i] = g[i - 1] + a[i]

LEMMA SumIs ==
    ASSUME NEW a, NEW n \in Nat, Len(a) = n, \A i \in 1..n : a[i] \in Nat
    PROVE  Summation(a, n)
<1> DEFINE S == Nat
           c == CHOOSE f : f = Summing(a, f)
<1>1. SumOf(a) = c[n]
  BY Zenon DEF SumOf, Summing
<1>2. \E f : f = Summing(a, f)
  <2> DEFINE G == [i \in 1..n |-> [x \in S |-> x + a[i]]]
  <2>1. G \in [1..n -> [S -> S]]
    OBVIOUS
  <2>2. 0 \in S
    OBVIOUS
  <2>3. \A i \in 1..n : \A x \in S : G[i][x] = x + a[i]
    OBVIOUS
  <2> HIDE DEF G, S
  <2>4. PICK f : f \in [0..n -> S] /\ f[0] = 0 /\ \A i \in 1..n : f[i] = G[i][f[i - 1]]
    <3>1. \E f : Iterates(f, n, S, 0, G)
      BY <2>1, <2>2, Recursive
    <3> QED
      BY <3>1, Zenon DEF Iterates
  <2>5. \A i \in 1..n : f[i] = f[i - 1] + a[i]
    <3>1. \A i \in 1..n : i - 1 \in 0..n
      OBVIOUS
    <3>2. \A i \in 1..n : f[i - 1] \in S
      BY <2>4, <3>1
    <3> QED
      BY <2>3, <2>4, <3>2
  <2> DEFINE next(i) == IF i = 0 THEN 0 ELSE f[i - 1] + a[i]
  <2>6. \A i \in 0..n : f[i] = next(i)
    BY <2>4, <2>5
  <2>7. Summing(a, f) = [i \in 0..n |-> next(i)] /\ f = [i \in 0..n |-> f[i]]
    BY <2>4 DEF Summing
  <2> HIDE DEF next
  <2>8. f = Summing(a, f)
    BY <2>6, <2>7
  <2> QED
    BY <2>8
<1>3. c = Summing(a, c)
  BY <1>2, Zenon
<1> HIDE DEF c
<1>4. c = [i \in 0..n |-> c[i]] /\ c[0] = 0 /\ \A i \in 1..n : c[i] = c[i - 1] + a[i]
  <2>1. c = [i \in 0..n |-> IF i = 0 THEN 0 ELSE c[i - 1] + a[i]]
    BY <1>3 DEF Summing
  <2> QED
    BY <2>1
<1> DEFINE T == {i \in Nat : i <= n => c[i] \in Nat}
<1>5. 0 \in T
  BY <1>4
<1>6. ASSUME NEW i \in T PROVE i + 1 \in T
  <2> SUFFICES ASSUME i + 1 <= n PROVE c[i + 1] \in Nat
    OBVIOUS
  <2>1. i \in Nat /\ i <= n /\ i + 1 \in 1..n /\ (i + 1) - 1 = i
    OBVIOUS
  <2>2. c[i] \in Nat /\ a[i + 1] \in Nat
    BY <2>1
  <2>3. c[i + 1] = c[(i + 1) - 1] + a[i + 1]
    BY <1>4, <2>1
  <2> QED
    BY <2>1, <2>2, <2>3
<1>7. T = Nat
  <2> HIDE DEF T
  <2>1. T \in SUBSET Nat
    BY DEF T
  <2> QED
    BY <1>5, <1>6, <2>1, Induction
<1>8. \A i \in 0..n : c[i] \in Nat
  BY <1>7
<1>9. c \in [0..n -> Nat]
  BY <1>4, <1>8
<1> QED
  BY <1>1, <1>4, <1>9 DEF Summation

LEMMA SumFlatten ==
    ASSUME NEW n \in Nat, NEW ss \in Blocks(n, Byte), NEW a, Len(a) = n,
           \A i \in 1..n : a[i] \in Nat /\ Len(ss[i]) = a[i]
    PROVE  SumOf(a) \in Nat /\ Len(FlattenSeq(ss)) = SumOf(a) /\ FlattenSeq(ss) \in Seq(Byte)
<1>1. PICK g \in [0..n -> Nat] :
          g[0] = 0 /\ SumOf(a) = g[n] /\ \A i \in 1..n : g[i] = g[i - 1] + a[i]
  BY SumIs DEF Summation
<1>2. \A i \in 0..n : g[i] \in Nat
  OBVIOUS
<1>3. \A i \in 1..n : Len(ss[i]) = g[i] - g[i - 1]
  <2> TAKE i \in 1..n
  <2>1. i - 1 \in 0..n /\ i \in 0..n
    OBVIOUS
  <2>2. g[i - 1] \in Nat /\ a[i] \in Nat /\ g[i] = g[i - 1] + a[i]
    BY <1>1, <1>2, <2>1
  <2> QED
    BY <2>2
<1>4. Len(FlattenSeq(ss)) = g[n] /\ FlattenSeq(ss) \in Seq(Byte)
  BY <1>1, <1>2, <1>3, FlattenSize
<1>5. n \in 0..n
  OBVIOUS
<1> QED
  BY <1>1, <1>2, <1>4, <1>5

LEMMA SameSize ==
    ASSUME NEW n \in Nat, NEW ss \in Blocks(n, Byte), NEW m \in Nat, \A i \in 1..n : Len(ss[i]) = m
    PROVE  Len(FlattenSeq(ss)) = n * m
<1> DEFINE p == [i \in 0..n |-> i * m]
<1>1. \A i \in 0..n : p[i] \in Nat /\ p[i] = i * m
  BY Distribute
<1>2. p[0] = 0 /\ \A i \in 1..n : p[i] = p[i - 1] + m
  <2>1. p[0] = 0
    BY Distribute
  <2>2. ASSUME NEW i \in 1..n PROVE p[i] = p[i - 1] + m
    <3>1. i - 1 \in Nat /\ (i - 1) + 1 = i /\ i - 1 \in 0..n
      OBVIOUS
    <3>2. i * m = (i - 1) * m + m
      BY <3>1, Distribute
    <3> QED
      BY <1>1, <3>1, <3>2
  <2> QED
    BY <2>1, <2>2
<1> HIDE DEF p
<1>3. \A i \in 1..n : Len(ss[i]) = p[i] - p[i - 1]
  <2> TAKE i \in 1..n
  <2>1. i - 1 \in 0..n /\ i \in 0..n
    OBVIOUS
  <2>2. p[i] \in Nat /\ p[i - 1] \in Nat /\ p[i] = p[i - 1] + m
    BY <1>1, <1>2, <2>1
  <2> QED
    BY <2>2
<1> QED
  BY <1>1, <1>2, <1>3, FlattenSize

LEMMA RunsSizeIs ==
    ASSUME NEW v, GoodCells(v)
    PROVE  RunsSize(v) = Len(PutRuns(ToRuns(v))) /\ RunsSize(v) \in Nat
<1> DEFINE runs == ToRuns(v)
           n == Len(runs)
           ss == RunPieces(v)
           a == [i \in 1..n |-> 16 + Len(runs[i][2][1])]
<1>1. /\ n \in Nat /\ runs = Values(runs, n) /\ ss \in Blocks(n, Byte)
      /\ Len(PutRuns(runs)) = 4 + Len(FlattenSeq(ss))
      /\ \A i \in 1..n : Len(runs[i][2][1]) \in Nat /\ Len(ss[i]) = 16 + Len(runs[i][2][1])
  BY RunsPut
<1>2. RunsSize(v) = 4 + SumOf([i \in DOMAIN runs |-> 16 + Len(runs[i][2][1])])
  BY Zenon DEF RunsSize
<1>3. DOMAIN runs = 1..n
  BY <1>1 DEF Values
<1>4. RunsSize(v) = 4 + SumOf(a)
  BY <1>2, <1>3
<1> HIDE DEF runs, n, ss
<1>5. Len(a) = n /\ \A i \in 1..n : a[i] \in Nat /\ Len(ss[i]) = a[i]
  BY <1>1
<1> HIDE DEF a
<1>6. SumOf(a) \in Nat /\ Len(FlattenSeq(ss)) = SumOf(a)
  BY <1>1, <1>5, SumFlatten
<1> QED
  BY <1>1, <1>4, <1>6 DEF runs

FitsEachCell(f, v) == FitsEach(FitsCell, f, v)

\* A list of lines, each of them cells.
GoodLines(v) ==
    Len(v) \in Nat /\ v = Values(v, Len(v)) /\ \A i \in 1..Len(v) : GoodCells(v[i])

LEMMA RowsAre ==
    /\ RRuns.kind = "cells" /\ RRuns.least = 16
    /\ RLines.kind = "list" /\ RLines.of = RRuns /\ RLines.least = 4
    /\ GoodInner(RLines) /\ GoodInner(RRuns)
BY SameRuns DEF SameInner, RRuns, Cells, RLines, List

LEMMA LinesFit ==
    ASSUME NEW v
    PROVE  FitsInner(RLines, v) <=> GoodLines(v)
<1>1. FitsInner(RLines, v) => GoodLines(v)
  <2> SUFFICES ASSUME FitsInner(RLines, v) PROVE GoodLines(v)
    OBVIOUS
  <2>1. Len(v) \in Nat /\ v = Values(v, Len(v)) /\ \A i \in 1..Len(v) : FitsInnerEntry(RRuns, v[i])
    BY RowsAre, InnerList
  <2>2. ASSUME NEW i \in 1..Len(v) PROVE GoodCells(v[i])
    <3>1. FitsPlain(RRuns, v[i])
      <4>1. RRuns.kind # "group" /\ FitsInnerEntry(RRuns, v[i])
        BY RowsAre, <2>1
      <4> QED
        BY <4>1, Zenon DEF FitsInnerEntry, FitsEntry
    <3> QED
      BY <3>1, RowsAre, CellsFit
  <2> QED
    BY <2>1, <2>2 DEF GoodLines
<1>2. GoodLines(v) => FitsInner(RLines, v)
  <2> SUFFICES ASSUME GoodLines(v) PROVE FitsInner(RLines, v)
    OBVIOUS
  <2> DEFINE n == Len(v)
             shape == [i \in 1..n |-> RRuns]
  <2>1. n \in Nat /\ v = Values(v, n) /\ \A i \in 1..n : GoodCells(v[i])
    BY DEF GoodLines
  <2>2. ASSUME NEW i \in 1..n PROVE FitsInnerEntry(RRuns, v[i])
    <3> DEFINE w == v[i]
               m == Len(w)
               cells == [j \in 1..m |-> RRuns]
    <3>1. /\ m \in Nat /\ m <= MaxGrid /\ w = Values(w, m)
          /\ \A j \in 1..m : FitsAllBasic(CellFields, w[j]) /\ SaneCell(w[j])
      BY <2>1 DEF GoodCells
    <3>2. DOMAIN cells = 1..m /\ \A j \in 1..m : cells[j] = RRuns
      OBVIOUS
    <3> HIDE DEF w, cells
    <3>3. w = [j \in DOMAIN cells |-> w[j]]
      BY <3>1, <3>2 DEF Values
    <3>4. \A j \in DOMAIN cells : FitsCell(cells[j], w[j])
      <4>1. \A j \in 1..m : FitsCell(RRuns, w[j])
        BY <3>1, Zenon DEF FitsCell, FitsAllBasic
      <4> QED
        BY <3>2, <4>1
    <3>5. FitsEachCell(RRuns, w)
      BY <3>1, <3>3, <3>4, Zenon DEF FitsEachCell, FitsEach, FitsAll, cells, m
    <3>6. FitsPlain(RRuns, w)
      BY <3>1, <3>5, RowsAre, Zenon DEF FitsPlain, FitsEachCell, m
    <3>7. RRuns.kind # "group"
      BY RowsAre
    <3> QED
      BY <3>6, <3>7, Zenon DEF FitsInnerEntry, FitsEntry, w
  <2>3. DOMAIN shape = 1..n /\ \A i \in 1..n : shape[i] = RRuns
    OBVIOUS
  <2> HIDE DEF shape
  <2>4. v = [i \in DOMAIN shape |-> v[i]] /\ \A i \in DOMAIN shape : FitsInnerEntry(shape[i], v[i])
    BY <2>1, <2>2, <2>3 DEF Values
  <2>5. FitsEachInnerEntry(RRuns, v)
    BY <2>1, <2>4, Zenon DEF FitsEachInnerEntry, FitsEach, FitsAll, shape, n
  <2> QED
    BY <2>5, RowsAre, Zenon DEF FitsInner, FitsWith, FitsEachInnerEntry
<1> QED
  BY <1>1, <1>2

RowSizes(v) == [i \in 1..Len(v) |-> RunsSize(v[i])]

LEMMA LinesSizeIs ==
    ASSUME NEW v, GoodLines(v)
    PROVE  /\ LinesSize(v) = Len(PutInner(RLines, v)) /\ LinesSize(v) \in Nat
           /\ LinesSize(v) = 4 + SumOf(RowSizes(v)) /\ SumOf(RowSizes(v)) \in Nat
<1> DEFINE n == Len(v)
           ss == PiecesInnerEntry(RRuns, v)
           a == RowSizes(v)
<1>1. n \in Nat /\ v = Values(v, n) /\ \A i \in 1..n : GoodCells(v[i])
  BY DEF GoodLines
<1>2. ss \in Blocks(n, Byte) /\ Len(PutInner(RLines, v)) = 4 + Len(FlattenSeq(ss))
  <2>1. FitsInner(RLines, v)
    BY LinesFit
  <2> QED
    BY <2>1, RowsAre, InnerList
<1>3. LinesSize(v) = 4 + SumOf(a)
  <2>1. LinesSize(v) = 4 + SumOf([i \in DOMAIN v |-> RunsSize(v[i])])
    BY Zenon DEF LinesSize
  <2>2. DOMAIN v = 1..n
    BY <1>1 DEF Values
  <2> QED
    BY <2>1, <2>2 DEF RowSizes
<1>4. Len(a) = n /\ \A i \in 1..n : a[i] = RunsSize(v[i])
  BY <1>1 DEF RowSizes
<1>5. \A i \in 1..n : a[i] \in Nat /\ Len(ss[i]) = a[i]
  <2> TAKE i \in 1..n
  <2>1. ss[i] = PutInnerEntry(RRuns, v[i])
    BY DEF PiecesInnerEntry
  <2>2. RRuns.kind # "group" /\ RRuns.kind = "cells"
    BY RowsAre
  <2>3. ss[i] = PutRuns(ToRuns(v[i]))
    BY <2>1, <2>2, Zenon DEF PutInnerEntry, PutEntry, PutPlain
  <2> QED
    BY <1>1, <1>4, <2>3, RunsSizeIs
<1> HIDE DEF n, ss, a
<1>6. SumOf(a) \in Nat /\ Len(FlattenSeq(ss)) = SumOf(a)
  BY <1>1, <1>2, <1>4, <1>5, SumFlatten
<1> QED
  BY <1>2, <1>3, <1>6 DEF a

\* Numbers, and the jobs of a printer, take as many bytes each.
LEMMA ListSize ==
    ASSUME NEW f, f.kind = "list", GoodInner(f), NEW v, FitsInner(f, v), NEW m \in Nat,
           \A e : FitsInnerEntry(f.of, e) => Len(PutInnerEntry(f.of, e)) = m
    PROVE  Len(v) \in Nat /\ Len(PutInner(f, v)) = 4 + Len(v) * m
<1> DEFINE n == Len(v)
           ss == PiecesInnerEntry(f.of, v)
<1>1. /\ n \in Nat /\ (\A i \in 1..n : FitsInnerEntry(f.of, v[i])) /\ ss \in Blocks(n, Byte)
      /\ Len(PutInner(f, v)) = 4 + Len(FlattenSeq(ss))
  BY InnerList
<1>2. \A i \in 1..n : Len(ss[i]) = m
  BY <1>1 DEF PiecesInnerEntry
<1> HIDE DEF n, ss
<1>3. Len(FlattenSeq(ss)) = n * m
  BY <1>1, <1>2, SameSize
<1> QED
  BY <1>1, <1>3 DEF n

LEMMA NumberSize ==
    ASSUME NEW f, GoodBasic(f), f.kind \in Numbers, NEW v, FitsInner(f, v)
    PROVE  Len(PutInner(f, v)) = f.width
<1>1. f.kind # "list" /\ f.kind # "cells"
  BY DEF Numbers
<1>2. FitsBasic(f, v) /\ PutInner(f, v) = PutBasic(f, v)
  BY <1>1, Zenon DEF FitsInner, FitsWith, FitsPlain, PutInner, PutWith, PutPlain
<1> QED
  BY <1>2, BasicPut

LEMMA NumberSizes ==
    /\ \A v : FitsInner(U8, v) => Len(PutInner(U8, v)) = 1
    /\ \A v : FitsInner(U16, v) => Len(PutInner(U16, v)) = 2
    /\ \A v : FitsInner(U32, v) => Len(PutInner(U32, v)) = 4
    /\ \A v : FitsInner(U64, v) => Len(PutInner(U64, v)) = 8
    /\ \A v : FitsInner(I16, v) => Len(PutInner(I16, v)) = 2
    /\ \A v : FitsInner(I32, v) => Len(PutInner(I32, v)) = 4
    /\ \A v : FitsInner(I64, v) => Len(PutInner(I64, v)) = 8
    /\ \A v : FitsInner(Enum(2), v) => Len(PutInner(Enum(2), v)) = 1
    /\ \A v : FitsInner(Enum(3), v) => Len(PutInner(Enum(3), v)) = 1
<1>1. /\ U8.kind \in Numbers /\ U16.kind \in Numbers /\ U32.kind \in Numbers /\ U64.kind \in Numbers
      /\ I16.kind \in Numbers /\ I32.kind \in Numbers /\ I64.kind \in Numbers
      /\ Enum(2).kind \in Numbers /\ Enum(3).kind \in Numbers
  BY DEF Numbers, U8, U16, U32, U64, I16, I32, I64, Unsigned, Signed, Enum
<1>2. /\ U8.width = 1 /\ U16.width = 2 /\ U32.width = 4 /\ U64.width = 8
      /\ I16.width = 2 /\ I32.width = 4 /\ I64.width = 8
      /\ Enum(2).width = 1 /\ Enum(3).width = 1
  BY DEF U8, U16, U32, U64, I16, I32, I64, Unsigned, Signed, Enum
<1>3. \A f : GoodBasic(f) /\ f.kind \in Numbers =>
          \A v : FitsInner(f, v) => Len(PutInner(f, v)) = f.width
  BY NumberSize
<1>4. /\ \A v : FitsInner(U8, v) => Len(PutInner(U8, v)) = U8.width
      /\ \A v : FitsInner(U16, v) => Len(PutInner(U16, v)) = U16.width
      /\ \A v : FitsInner(U32, v) => Len(PutInner(U32, v)) = U32.width
      /\ \A v : FitsInner(U64, v) => Len(PutInner(U64, v)) = U64.width
      /\ \A v : FitsInner(I16, v) => Len(PutInner(I16, v)) = I16.width
      /\ \A v : FitsInner(I32, v) => Len(PutInner(I32, v)) = I32.width
      /\ \A v : FitsInner(I64, v) => Len(PutInner(I64, v)) = I64.width
      /\ \A v : FitsInner(Enum(2), v) => Len(PutInner(Enum(2), v)) = Enum(2).width
      /\ \A v : FitsInner(Enum(3), v) => Len(PutInner(Enum(3), v)) = Enum(3).width
  <2>1. /\ GoodBasic(U8) /\ GoodBasic(U16) /\ GoodBasic(U32) /\ GoodBasic(U64) /\ GoodBasic(I16)
        /\ GoodBasic(I32) /\ GoodBasic(I64) /\ GoodBasic(Enum(2)) /\ GoodBasic(Enum(3))
    BY NumberKinds
  <2> QED
    BY <1>1, <1>3, <2>1
<1> QED
  BY <1>2, <1>4

LEMMA TextSize ==
    ASSUME NEW v, FitsInner(Text, v)
    PROVE  Len(v) \in Nat /\ Len(PutInner(Text, v)) = 2 + Len(v)
<1>1. Text.kind = "text" /\ Text.width = 2 /\ GoodBasic(Text)
  BY NumberKinds DEF Text
<1>2. Text.kind # "list" /\ Text.kind # "cells"
  BY <1>1
<1>3. FitsBasic(Text, v) /\ PutInner(Text, v) = PutBasic(Text, v)
  BY <1>2, Zenon DEF FitsInner, FitsWith, FitsPlain, PutInner, PutWith, PutPlain
<1> QED
  BY <1>1, <1>3, BasicPut

LEMMA CellsSize ==
    ASSUME NEW v, FitsInner(RRuns, v)
    PROVE  RunsSize(v) \in Nat /\ Len(PutInner(RRuns, v)) = RunsSize(v)
<1>1. RRuns.kind # "list" /\ RRuns.kind = "cells"
  BY RowsAre
<1>2. FitsPlain(RRuns, v) /\ PutInner(RRuns, v) = PutRuns(ToRuns(v))
  BY <1>1, Zenon DEF FitsInner, FitsWith, PutInner, PutWith, PutPlain
<1> QED
  BY <1>1, <1>2, CellsFit, RunsSizeIs

LEMMA JobSize ==
    ASSUME NEW v, FitsInnerEntry(Group(RJob), v)
    PROVE  Len(PutInnerEntry(Group(RJob), v)) = 25
<1> DEFINE f == Group(RJob)
           ss == PiecesPlain(RJob, v, 5)
           p == [i \in 0..5 |-> <<0, 8, 9, 13, 17, 25>>[i + 1]]
<1>1. f.kind = "group" /\ f.of = RJob
  BY DEF Group
<1>2. FitsAllPlain(RJob, v) /\ PutInnerEntry(f, v) = PutsPlain(RJob, v)
  BY <1>1, Zenon DEF FitsInnerEntry, FitsEntry, FitsAllPlain, PutInnerEntry, PutEntry, PutsPlain
<1>3. /\ Shape(RJob, 5) /\ RJob[1] = U64 /\ RJob[2] = Enum(3) /\ RJob[3] = U32 /\ RJob[4] = U32
      /\ RJob[5] = I64
  BY DEF Shape, RJob
<1>4. \A i \in 1..5 : GoodBasic(RJob[i]) /\ RJob[i].kind \in Numbers
  <2>1. U64.kind \in Numbers /\ U32.kind \in Numbers /\ I64.kind \in Numbers /\ Enum(3).kind \in Numbers
    BY DEF Numbers, U64, U32, I64, Unsigned, Signed, Enum
  <2> QED
    BY <1>3, <2>1, NumberKinds
<1>5. \A i \in 1..5 : GoodPlain(RJob[i]) /\ RJob[i].kind # "list" /\ RJob[i].kind # "cells"
  BY <1>4 DEF GoodPlain, Numbers
<1>6. /\ ss \in Blocks(5, Byte) /\ PutsPlain(RJob, v) = FlattenSeq(ss)
      /\ \A i \in 1..5 : FitsPlain(RJob[i], v[i])
  BY <1>2, <1>3, <1>5, PlainFields
<1>7. \A i \in 1..5 : Len(ss[i]) = RJob[i].width
  <2> TAKE i \in 1..5
  <2>1. ss[i] = PutPlain(RJob[i], v[i])
    BY DEF PiecesPlain
  <2>2. FitsBasic(RJob[i], v[i]) /\ ss[i] = PutBasic(RJob[i], v[i])
    BY <1>5, <1>6, <2>1, Zenon DEF FitsPlain, PutPlain
  <2> QED
    BY <1>4, <2>2, BasicPut
<1> HIDE DEF ss
<1>8. p[0] = 0 /\ p[1] = 8 /\ p[2] = 9 /\ p[3] = 13 /\ p[4] = 17 /\ p[5] = 25
  OBVIOUS
<1>9. \A i \in 0..5 : p[i] \in Nat
  BY <1>8
<1> HIDE DEF p
<1>10. /\ RJob[1].width = 8 /\ RJob[2].width = 1 /\ RJob[3].width = 4 /\ RJob[4].width = 4
       /\ RJob[5].width = 8
  BY <1>3 DEF U64, U32, I64, Unsigned, Signed, Enum
<1>14. /\ Len(ss[1]) = RJob[1].width /\ Len(ss[2]) = RJob[2].width /\ Len(ss[3]) = RJob[3].width
       /\ Len(ss[4]) = RJob[4].width /\ Len(ss[5]) = RJob[5].width
  BY <1>7
<1>11. Len(ss[1]) = 8 /\ Len(ss[2]) = 1 /\ Len(ss[3]) = 4 /\ Len(ss[4]) = 4 /\ Len(ss[5]) = 8
  BY <1>10, <1>14
<1>12. \A i \in 1..5 : Len(ss[i]) = p[i] - p[i - 1]
  <2>1. p[1] - p[0] = 8 /\ p[2] - p[1] = 1 /\ p[3] - p[2] = 4 /\ p[4] - p[3] = 4 /\ p[5] - p[4] = 8
    BY <1>8
  <2>2. \A i \in 1..5 : i = 1 \/ i = 2 \/ i = 3 \/ i = 4 \/ i = 5
    OBVIOUS
  <2>3. 1 - 1 = 0 /\ 2 - 1 = 1 /\ 3 - 1 = 2 /\ 4 - 1 = 3 /\ 5 - 1 = 4
    OBVIOUS
  <2> QED
    BY <1>11, <2>1, <2>2, <2>3
<1>13. Len(FlattenSeq(ss)) = p[5]
  BY <1>6, <1>8, <1>9, <1>12, FlattenSize
<1> QED
  BY <1>2, <1>6, <1>8, <1>13

LEMMA ListSizes ==
    /\ \A v : FitsInner(List(U64, 8), v) =>
           Len(v) \in Nat /\ Len(PutInner(List(U64, 8), v)) = 4 + 8 * Len(v)
    /\ \A v : FitsInner(List(Group(RJob), 25), v) =>
           Len(v) \in Nat /\ Len(PutInner(List(Group(RJob), 25), v)) = 4 + 25 * Len(v)
<1>1. ASSUME NEW v, FitsInner(List(U64, 8), v)
      PROVE  Len(v) \in Nat /\ Len(PutInner(List(U64, 8), v)) = 4 + 8 * Len(v)
  <2> DEFINE f == List(U64, 8)
  <2>1. f.kind = "list" /\ f.of = U64 /\ GoodInner(f) /\ U64.kind # "group" /\ U64.kind # "list"
    BY InnerLists DEF SameInner, List, U64, Unsigned
  <2> HIDE DEF f
  <2>2. \A e : FitsInnerEntry(f.of, e) => Len(PutInnerEntry(f.of, e)) = 8
    <3>1. \A e : FitsInnerEntry(U64, e) => FitsInner(U64, e)
      BY <2>1, Zenon DEF FitsInnerEntry, FitsEntry, FitsInner, FitsWith
    <3>2. \A e : PutInnerEntry(U64, e) = PutInner(U64, e)
      BY <2>1, Zenon DEF PutInnerEntry, PutEntry, PutInner, PutWith
    <3> QED
      BY <2>1, <3>1, <3>2, NumberSizes
  <2>3. Len(v) \in Nat /\ Len(PutInner(f, v)) = 4 + Len(v) * 8
    <3>1. FitsInner(f, v)
      BY <1>1 DEF f
    <3>2. 8 \in Nat
      OBVIOUS
    <3> QED
      BY <2>1, <2>2, <3>1, <3>2, ListSize
  <2> QED
    BY <2>3 DEF f
<1>2. ASSUME NEW v, FitsInner(List(Group(RJob), 25), v)
      PROVE  Len(v) \in Nat /\ Len(PutInner(List(Group(RJob), 25), v)) = 4 + 25 * Len(v)
  <2> DEFINE f == List(Group(RJob), 25)
  <2>1. f.kind = "list" /\ f.of = Group(RJob) /\ GoodInner(f)
    BY InnerLists DEF SameInner, List
  <2> HIDE DEF f
  <2>2. Len(v) \in Nat /\ Len(PutInner(f, v)) = 4 + Len(v) * 25
    <3>1. FitsInner(f, v)
      BY <1>2 DEF f
    <3>2. \A e : FitsInnerEntry(f.of, e) => Len(PutInnerEntry(f.of, e)) = 25
      BY <2>1, JobSize
    <3>3. 25 \in Nat
      OBVIOUS
    <3> QED
      BY <2>1, <3>1, <3>2, <3>3, ListSize
  <2> QED
    BY <2>2 DEF f
<1> QED
  BY <1>1, <1>2

LEMMA StateFields ==
    /\ Shape(StateRead, 39) /\ \A i \in 1..39 : GoodInner(StateRead[i])
    /\ StateRead[1] = U64 /\ StateRead[2] = U16 /\ StateRead[3] = Text /\ StateRead[4] = Text
    /\ StateRead[5] = U8 /\ StateRead[6] = U16 /\ StateRead[7] = U16 /\ StateRead[8] = I16
    /\ StateRead[9] = I16 /\ StateRead[10] = U16 /\ StateRead[11] = U16 /\ StateRead[12] = U16
    /\ StateRead[13] = U8 /\ StateRead[14] = U16 /\ StateRead[15] = U16 /\ StateRead[16] = U16
    /\ StateRead[17] = U16 /\ StateRead[18] = U16 /\ StateRead[19] = U16 /\ StateRead[20] = U8
    /\ StateRead[21] = U8 /\ StateRead[22] = U8 /\ StateRead[23] = U32 /\ StateRead[24] = RRuns
    /\ StateRead[25] = RLines /\ StateRead[26] = List(U64, 8) /\ StateRead[27] = Enum(2)
    /\ StateRead[28] = Enum(2) /\ StateRead[29] = Enum(3) /\ StateRead[30] = U32
    /\ StateRead[31] = List(Group(RJob), 25) /\ StateRead[32] = U64 /\ StateRead[33] = U8
    /\ StateRead[34] = I32 /\ StateRead[35] = U8 /\ StateRead[36] = Enum(3)
    /\ StateRead[37] = Text /\ StateRead[38] = U32 /\ StateRead[39] = U32
<1>1. Shape(StateRead, 39)
  BY DEF Shape, StateRead, Rect, Tile, Cursor
<1>2. /\ StateRead[1] = U64 /\ StateRead[2] = U16 /\ StateRead[3] = Text /\ StateRead[4] = Text
      /\ StateRead[5] = U8 /\ StateRead[6] = U16 /\ StateRead[7] = U16 /\ StateRead[8] = I16
      /\ StateRead[9] = I16 /\ StateRead[10] = U16 /\ StateRead[11] = U16 /\ StateRead[12] = U16
      /\ StateRead[13] = U8 /\ StateRead[14] = U16 /\ StateRead[15] = U16 /\ StateRead[16] = U16
      /\ StateRead[17] = U16 /\ StateRead[18] = U16 /\ StateRead[19] = U16 /\ StateRead[20] = U8
      /\ StateRead[21] = U8 /\ StateRead[22] = U8 /\ StateRead[23] = U32 /\ StateRead[24] = RRuns
      /\ StateRead[25] = RLines /\ StateRead[26] = List(U64, 8) /\ StateRead[27] = Enum(2)
      /\ StateRead[28] = Enum(2) /\ StateRead[29] = Enum(3) /\ StateRead[30] = U32
      /\ StateRead[31] = List(Group(RJob), 25) /\ StateRead[32] = U64 /\ StateRead[33] = U8
      /\ StateRead[34] = I32 /\ StateRead[35] = U8 /\ StateRead[36] = Enum(3)
      /\ StateRead[37] = Text /\ StateRead[38] = U32 /\ StateRead[39] = U32
  BY DEF StateRead, Rect, Tile, Cursor
<1>3. \A i \in 1..39 : \/ i = 1 \/ i = 2 \/ i = 3 \/ i = 4 \/ i = 5 \/ i = 6 \/ i = 7 \/ i = 8 \/ i = 9
         \/ i = 10 \/ i = 11 \/ i = 12 \/ i = 13 \/ i = 14 \/ i = 15 \/ i = 16 \/ i = 17 \/ i = 18
         \/ i = 19 \/ i = 20 \/ i = 21 \/ i = 22 \/ i = 23 \/ i = 24 \/ i = 25 \/ i = 26 \/ i = 27
         \/ i = 28 \/ i = 29 \/ i = 30 \/ i = 31 \/ i = 32 \/ i = 33 \/ i = 34 \/ i = 35 \/ i = 36
         \/ i = 37 \/ i = 38 \/ i = 39
  OBVIOUS
<1>4. /\ GoodInner(StateRead[1]) /\ GoodInner(StateRead[2]) /\ GoodInner(StateRead[3])
      /\ GoodInner(StateRead[4]) /\ GoodInner(StateRead[5]) /\ GoodInner(StateRead[6])
      /\ GoodInner(StateRead[7]) /\ GoodInner(StateRead[8]) /\ GoodInner(StateRead[9])
      /\ GoodInner(StateRead[10]) /\ GoodInner(StateRead[11]) /\ GoodInner(StateRead[12])
      /\ GoodInner(StateRead[13]) /\ GoodInner(StateRead[14]) /\ GoodInner(StateRead[15])
      /\ GoodInner(StateRead[16]) /\ GoodInner(StateRead[17]) /\ GoodInner(StateRead[18])
      /\ GoodInner(StateRead[19]) /\ GoodInner(StateRead[20]) /\ GoodInner(StateRead[21])
      /\ GoodInner(StateRead[22]) /\ GoodInner(StateRead[23]) /\ GoodInner(StateRead[24])
      /\ GoodInner(StateRead[25]) /\ GoodInner(StateRead[26]) /\ GoodInner(StateRead[27])
      /\ GoodInner(StateRead[28]) /\ GoodInner(StateRead[29]) /\ GoodInner(StateRead[30])
      /\ GoodInner(StateRead[31]) /\ GoodInner(StateRead[32]) /\ GoodInner(StateRead[33])
      /\ GoodInner(StateRead[34]) /\ GoodInner(StateRead[35]) /\ GoodInner(StateRead[36])
      /\ GoodInner(StateRead[37]) /\ GoodInner(StateRead[38]) /\ GoodInner(StateRead[39])
  BY <1>2, SameBasics, SameRuns, InnerLists DEF SameInner
<1>5. \A i \in 1..39 : GoodInner(StateRead[i])
  BY <1>3, <1>4
<1> QED
  BY <1>1, <1>2, <1>5

\* The size of a terminal is the length of what is written for it.
LEMMA StateSizeIs ==
    ASSUME NEW s, FitsAllInner(StateRead, s)
    PROVE  Len(PutsInner(StateRead, s)) = StateSize(s) /\ StateSize(s) \in Nat
<1> DEFINE ss == PiecesInner(StateRead, s, 39)
           a == Len(s[3])
           b == Len(s[4])
           c == RunsSize(s[24])
           d == LinesSize(s[25])
           e == Len(s[26])
           g == Len(s[31])
           h == Len(s[37])
<1>1. /\ ss \in Blocks(39, Byte) /\ PutsInner(StateRead, s) = FlattenSeq(ss)
      /\ \A i \in 1..39 : FitsInner(StateRead[i], s[i])
  BY StateFields, InnerFields
<1>2. /\ FitsInner(U64, s[1]) /\ FitsInner(U16, s[2]) /\ FitsInner(Text, s[3])
      /\ FitsInner(Text, s[4]) /\ FitsInner(U8, s[5]) /\ FitsInner(U16, s[6])
      /\ FitsInner(U16, s[7]) /\ FitsInner(I16, s[8]) /\ FitsInner(I16, s[9])
      /\ FitsInner(U16, s[10]) /\ FitsInner(U16, s[11]) /\ FitsInner(U16, s[12])
      /\ FitsInner(U8, s[13]) /\ FitsInner(U16, s[14]) /\ FitsInner(U16, s[15])
      /\ FitsInner(U16, s[16]) /\ FitsInner(U16, s[17]) /\ FitsInner(U16, s[18])
      /\ FitsInner(U16, s[19]) /\ FitsInner(U8, s[20]) /\ FitsInner(U8, s[21])
      /\ FitsInner(U8, s[22]) /\ FitsInner(U32, s[23]) /\ FitsInner(RRuns, s[24])
      /\ FitsInner(RLines, s[25]) /\ FitsInner(List(U64, 8), s[26]) /\ FitsInner(Enum(2), s[27])
      /\ FitsInner(Enum(2), s[28]) /\ FitsInner(Enum(3), s[29]) /\ FitsInner(U32, s[30])
      /\ FitsInner(List(Group(RJob), 25), s[31]) /\ FitsInner(U64, s[32]) /\ FitsInner(U8, s[33])
      /\ FitsInner(I32, s[34]) /\ FitsInner(U8, s[35]) /\ FitsInner(Enum(3), s[36])
      /\ FitsInner(Text, s[37]) /\ FitsInner(U32, s[38]) /\ FitsInner(U32, s[39])
  BY <1>1, StateFields
<1>3. /\ ss[1] = PutInner(U64, s[1]) /\ ss[2] = PutInner(U16, s[2])
      /\ ss[3] = PutInner(Text, s[3]) /\ ss[4] = PutInner(Text, s[4])
      /\ ss[5] = PutInner(U8, s[5]) /\ ss[6] = PutInner(U16, s[6]) /\ ss[7] = PutInner(U16, s[7])
      /\ ss[8] = PutInner(I16, s[8]) /\ ss[9] = PutInner(I16, s[9])
      /\ ss[10] = PutInner(U16, s[10]) /\ ss[11] = PutInner(U16, s[11])
      /\ ss[12] = PutInner(U16, s[12]) /\ ss[13] = PutInner(U8, s[13])
      /\ ss[14] = PutInner(U16, s[14]) /\ ss[15] = PutInner(U16, s[15])
      /\ ss[16] = PutInner(U16, s[16]) /\ ss[17] = PutInner(U16, s[17])
      /\ ss[18] = PutInner(U16, s[18]) /\ ss[19] = PutInner(U16, s[19])
      /\ ss[20] = PutInner(U8, s[20]) /\ ss[21] = PutInner(U8, s[21])
      /\ ss[22] = PutInner(U8, s[22]) /\ ss[23] = PutInner(U32, s[23])
      /\ ss[24] = PutInner(RRuns, s[24]) /\ ss[25] = PutInner(RLines, s[25])
      /\ ss[26] = PutInner(List(U64, 8), s[26]) /\ ss[27] = PutInner(Enum(2), s[27])
      /\ ss[28] = PutInner(Enum(2), s[28]) /\ ss[29] = PutInner(Enum(3), s[29])
      /\ ss[30] = PutInner(U32, s[30]) /\ ss[31] = PutInner(List(Group(RJob), 25), s[31])
      /\ ss[32] = PutInner(U64, s[32]) /\ ss[33] = PutInner(U8, s[33])
      /\ ss[34] = PutInner(I32, s[34]) /\ ss[35] = PutInner(U8, s[35])
      /\ ss[36] = PutInner(Enum(3), s[36]) /\ ss[37] = PutInner(Text, s[37])
      /\ ss[38] = PutInner(U32, s[38]) /\ ss[39] = PutInner(U32, s[39])
  BY StateFields DEF PiecesInner
<1> HIDE DEF ss
<1>4. GoodLines(s[25])
  BY <1>2, LinesFit
<1>5. a \in Nat /\ b \in Nat /\ c \in Nat /\ d \in Nat /\ e \in Nat /\ g \in Nat /\ h \in Nat
  BY <1>2, <1>4, TextSize, CellsSize, LinesSizeIs, ListSizes
<1>6. /\ Len(ss[3]) = 2 + a /\ Len(ss[4]) = 2 + b /\ Len(ss[24]) = c /\ Len(ss[25]) = d
      /\ Len(ss[26]) = 4 + 8 * e /\ Len(ss[31]) = 4 + 25 * g /\ Len(ss[37]) = 2 + h
  <2>1. Len(ss[3]) = 2 + a /\ Len(ss[4]) = 2 + b /\ Len(ss[37]) = 2 + h
    <3>1. /\ FitsInner(Text, s[3]) /\ FitsInner(Text, s[4]) /\ FitsInner(Text, s[37])
          /\ ss[3] = PutInner(Text, s[3]) /\ ss[4] = PutInner(Text, s[4])
          /\ ss[37] = PutInner(Text, s[37])
      BY <1>2, <1>3
    <3> QED
      BY <3>1, TextSize
  <2>2. Len(ss[24]) = c
    BY <1>2, <1>3, CellsSize
  <2>3. Len(ss[25]) = d
    BY <1>3, <1>4, LinesSizeIs
  <2>4. Len(ss[26]) = 4 + 8 * e /\ Len(ss[31]) = 4 + 25 * g
    <3>1. /\ FitsInner(List(U64, 8), s[26]) /\ FitsInner(List(Group(RJob), 25), s[31])
          /\ ss[26] = PutInner(List(U64, 8), s[26]) /\ ss[31] = PutInner(List(Group(RJob), 25), s[31])
      BY <1>2, <1>3
    <3>2. /\ Len(PutInner(List(U64, 8), s[26])) = 4 + 8 * Len(s[26])
          /\ Len(PutInner(List(Group(RJob), 25), s[31])) = 4 + 25 * Len(s[31])
      BY <3>1, ListSizes
    <3> QED
      BY <3>1, <3>2
  <2> QED
    BY <2>1, <2>2, <2>3, <2>4
<1>7. /\ Len(ss[1]) = 8 /\ Len(ss[2]) = 2 /\ Len(ss[5]) = 1 /\ Len(ss[6]) = 2 /\ Len(ss[7]) = 2
      /\ Len(ss[8]) = 2 /\ Len(ss[9]) = 2 /\ Len(ss[10]) = 2 /\ Len(ss[11]) = 2 /\ Len(ss[12]) = 2
      /\ Len(ss[13]) = 1 /\ Len(ss[14]) = 2 /\ Len(ss[15]) = 2 /\ Len(ss[16]) = 2
      /\ Len(ss[17]) = 2 /\ Len(ss[18]) = 2 /\ Len(ss[19]) = 2 /\ Len(ss[20]) = 1
      /\ Len(ss[21]) = 1 /\ Len(ss[22]) = 1 /\ Len(ss[23]) = 4 /\ Len(ss[27]) = 1
      /\ Len(ss[28]) = 1 /\ Len(ss[29]) = 1 /\ Len(ss[30]) = 4 /\ Len(ss[32]) = 8
      /\ Len(ss[33]) = 1 /\ Len(ss[34]) = 4 /\ Len(ss[35]) = 1 /\ Len(ss[36]) = 1
      /\ Len(ss[38]) = 4 /\ Len(ss[39]) = 4
  BY <1>2, <1>3, NumberSizes
<1>8. StateSize(s) = 89 + a + b + h + c + d + 8 * e + 25 * g
  BY Zenon DEF StateSize
<1> HIDE DEF a, b, c, d, e, g, h
<1> DEFINE m == [i \in 0..39 |->
                   <<0, 8, 10, 12, 14, 15, 17, 19, 21, 23, 25, 27, 29, 30, 32, 34, 36, 38, 40, 42,
                     43, 44, 45, 49, 49, 49, 53, 54, 55, 56, 60, 64, 72, 73, 77, 78, 79, 81, 85, 89>>[i + 1]]
           past(i, k, x) == IF i >= k THEN x ELSE 0
           p == [i \in 0..39 |-> m[i] + past(i, 3, a) + past(i, 4, b) + past(i, 24, c) + past(i, 25, d)
                                      + past(i, 26, 8 * e) + past(i, 31, 25 * g) + past(i, 37, h)]
<1>9. /\ m[0] = 0 /\ m[1] = 8 /\ m[2] = 10 /\ m[3] = 12 /\ m[4] = 14 /\ m[5] = 15 /\ m[6] = 17
      /\ m[7] = 19 /\ m[8] = 21 /\ m[9] = 23 /\ m[10] = 25 /\ m[11] = 27 /\ m[12] = 29
      /\ m[13] = 30 /\ m[14] = 32 /\ m[15] = 34 /\ m[16] = 36 /\ m[17] = 38 /\ m[18] = 40
      /\ m[19] = 42 /\ m[20] = 43 /\ m[21] = 44 /\ m[22] = 45 /\ m[23] = 49 /\ m[24] = 49
      /\ m[25] = 49 /\ m[26] = 53 /\ m[27] = 54 /\ m[28] = 55 /\ m[29] = 56 /\ m[30] = 60
      /\ m[31] = 64 /\ m[32] = 72 /\ m[33] = 73 /\ m[34] = 77 /\ m[35] = 78 /\ m[36] = 79
      /\ m[37] = 81 /\ m[38] = 85 /\ m[39] = 89
  OBVIOUS
<1> HIDE DEF m
<1>10. \A i \in 1..39 : \/ i = 1 \/ i = 2 \/ i = 3 \/ i = 4 \/ i = 5 \/ i = 6 \/ i = 7 \/ i = 8 \/ i = 9
         \/ i = 10 \/ i = 11 \/ i = 12 \/ i = 13 \/ i = 14 \/ i = 15 \/ i = 16 \/ i = 17 \/ i = 18
         \/ i = 19 \/ i = 20 \/ i = 21 \/ i = 22 \/ i = 23 \/ i = 24 \/ i = 25 \/ i = 26 \/ i = 27
         \/ i = 28 \/ i = 29 \/ i = 30 \/ i = 31 \/ i = 32 \/ i = 33 \/ i = 34 \/ i = 35 \/ i = 36
         \/ i = 37 \/ i = 38 \/ i = 39
  OBVIOUS
<1>11. \A i \in 0..39 : m[i] \in Nat
  <2>1. \A i \in 0..39 : i = 0 \/ i \in 1..39
    OBVIOUS
  <2> QED
    BY <1>9, <1>10, <2>1
<1>12. \A i \in 0..39 :
          /\ past(i, 3, a) \in Nat /\ past(i, 4, b) \in Nat /\ past(i, 24, c) \in Nat
          /\ past(i, 25, d) \in Nat /\ past(i, 26, 8 * e) \in Nat /\ past(i, 31, 25 * g) \in Nat
          /\ past(i, 37, h) \in Nat
  BY <1>5
<1> DEFINE grown(i) == (past(i, 3, a) - past(i - 1, 3, a)) + (past(i, 4, b) - past(i - 1, 4, b))
                        + (past(i, 24, c) - past(i - 1, 24, c)) + (past(i, 25, d) - past(i - 1, 25, d))
                        + (past(i, 26, 8 * e) - past(i - 1, 26, 8 * e))
                        + (past(i, 31, 25 * g) - past(i - 1, 31, 25 * g))
                        + (past(i, 37, h) - past(i - 1, 37, h))
<1>18. /\ grown(1) = 0 /\ grown(2) = 0 /\ grown(3) = a /\ grown(4) = b /\ grown(5) = 0
       /\ grown(6) = 0 /\ grown(7) = 0 /\ grown(8) = 0 /\ grown(9) = 0 /\ grown(10) = 0
       /\ grown(11) = 0 /\ grown(12) = 0 /\ grown(13) = 0 /\ grown(14) = 0 /\ grown(15) = 0
       /\ grown(16) = 0 /\ grown(17) = 0 /\ grown(18) = 0 /\ grown(19) = 0 /\ grown(20) = 0
       /\ grown(21) = 0 /\ grown(22) = 0 /\ grown(23) = 0 /\ grown(24) = c /\ grown(25) = d
       /\ grown(26) = 8 * e /\ grown(27) = 0 /\ grown(28) = 0 /\ grown(29) = 0 /\ grown(30) = 0
       /\ grown(31) = 25 * g /\ grown(32) = 0 /\ grown(33) = 0 /\ grown(34) = 0 /\ grown(35) = 0
       /\ grown(36) = 0 /\ grown(37) = h /\ grown(38) = 0 /\ grown(39) = 0
  BY <1>5
<1>19. p[0] = m[0] /\ p[39] = m[39] + a + b + c + d + 8 * e + 25 * g + h
  BY <1>5, <1>11
<1> HIDE DEF past
<1>20. \A i \in 0..39 :
          /\ p[i] = m[i] + past(i, 3, a) + past(i, 4, b) + past(i, 24, c) + past(i, 25, d)
                         + past(i, 26, 8 * e) + past(i, 31, 25 * g) + past(i, 37, h)
          /\ p[i] \in Nat
  BY <1>11, <1>12
<1> HIDE DEF p
<1>21. \A i \in 1..39 : p[i] - p[i - 1] = (m[i] - m[i - 1]) + grown(i)
  <2> TAKE i \in 1..39
  <2>1. i \in 0..39 /\ i - 1 \in 0..39
    OBVIOUS
  <2>2. p[i] = m[i] + past(i, 3, a) + past(i, 4, b) + past(i, 24, c) + past(i, 25, d)
                    + past(i, 26, 8 * e) + past(i, 31, 25 * g) + past(i, 37, h)
    BY <1>20, <2>1
  <2> DEFINE j == i - 1
  <2>3. p[j] = m[j] + past(j, 3, a) + past(j, 4, b) + past(j, 24, c) + past(j, 25, d)
                    + past(j, 26, 8 * e) + past(j, 31, 25 * g) + past(j, 37, h)
    BY <1>20, <2>1
  <2>4. /\ m[i] \in Nat /\ past(i, 3, a) \in Nat /\ past(i, 4, b) \in Nat /\ past(i, 24, c) \in Nat
        /\ past(i, 25, d) \in Nat /\ past(i, 26, 8 * e) \in Nat /\ past(i, 31, 25 * g) \in Nat
        /\ past(i, 37, h) \in Nat
    BY <1>11, <1>12, <2>1
  <2>5. /\ m[j] \in Nat /\ past(j, 3, a) \in Nat /\ past(j, 4, b) \in Nat /\ past(j, 24, c) \in Nat
        /\ past(j, 25, d) \in Nat /\ past(j, 26, 8 * e) \in Nat /\ past(j, 31, 25 * g) \in Nat
        /\ past(j, 37, h) \in Nat
    BY <1>11, <1>12, <2>1
  <2> HIDE DEF j
  <2>6. p[i] - p[j] = (m[i] - m[j]) + ((past(i, 3, a) - past(j, 3, a)) + (past(i, 4, b) - past(j, 4, b))
                        + (past(i, 24, c) - past(j, 24, c)) + (past(i, 25, d) - past(j, 25, d))
                        + (past(i, 26, 8 * e) - past(j, 26, 8 * e))
                        + (past(i, 31, 25 * g) - past(j, 31, 25 * g))
                        + (past(i, 37, h) - past(j, 37, h)))
    BY <2>2, <2>3, <2>4, <2>5
  <2> QED
    BY <2>6, Zenon DEF j
<1> HIDE DEF grown
<1>13. /\ (m[1] - m[1 - 1]) + grown(1) = 8 /\ (m[2] - m[2 - 1]) + grown(2) = 2
       /\ (m[3] - m[3 - 1]) + grown(3) = 2 + a /\ (m[4] - m[4 - 1]) + grown(4) = 2 + b
       /\ (m[5] - m[5 - 1]) + grown(5) = 1 /\ (m[6] - m[6 - 1]) + grown(6) = 2
       /\ (m[7] - m[7 - 1]) + grown(7) = 2 /\ (m[8] - m[8 - 1]) + grown(8) = 2
       /\ (m[9] - m[9 - 1]) + grown(9) = 2 /\ (m[10] - m[10 - 1]) + grown(10) = 2
       /\ (m[11] - m[11 - 1]) + grown(11) = 2 /\ (m[12] - m[12 - 1]) + grown(12) = 2
       /\ (m[13] - m[13 - 1]) + grown(13) = 1 /\ (m[14] - m[14 - 1]) + grown(14) = 2
       /\ (m[15] - m[15 - 1]) + grown(15) = 2 /\ (m[16] - m[16 - 1]) + grown(16) = 2
       /\ (m[17] - m[17 - 1]) + grown(17) = 2 /\ (m[18] - m[18 - 1]) + grown(18) = 2
       /\ (m[19] - m[19 - 1]) + grown(19) = 2 /\ (m[20] - m[20 - 1]) + grown(20) = 1
       /\ (m[21] - m[21 - 1]) + grown(21) = 1 /\ (m[22] - m[22 - 1]) + grown(22) = 1
       /\ (m[23] - m[23 - 1]) + grown(23) = 4 /\ (m[24] - m[24 - 1]) + grown(24) = c
       /\ (m[25] - m[25 - 1]) + grown(25) = d /\ (m[26] - m[26 - 1]) + grown(26) = 4 + 8 * e
       /\ (m[27] - m[27 - 1]) + grown(27) = 1 /\ (m[28] - m[28 - 1]) + grown(28) = 1
       /\ (m[29] - m[29 - 1]) + grown(29) = 1 /\ (m[30] - m[30 - 1]) + grown(30) = 4
       /\ (m[31] - m[31 - 1]) + grown(31) = 4 + 25 * g /\ (m[32] - m[32 - 1]) + grown(32) = 8
       /\ (m[33] - m[33 - 1]) + grown(33) = 1 /\ (m[34] - m[34 - 1]) + grown(34) = 4
       /\ (m[35] - m[35 - 1]) + grown(35) = 1 /\ (m[36] - m[36 - 1]) + grown(36) = 1
       /\ (m[37] - m[37 - 1]) + grown(37) = 2 + h /\ (m[38] - m[38 - 1]) + grown(38) = 4
       /\ (m[39] - m[39 - 1]) + grown(39) = 4
  BY <1>5, <1>9, <1>18
<1>14. \A i \in 1..39 : Len(ss[i]) = p[i] - p[i - 1]
  <2>1. \A i \in 1..39 : Len(ss[i]) = (m[i] - m[i - 1]) + grown(i)
    <3>1. /\ Len(ss[1]) = (m[1] - m[1 - 1]) + grown(1)
          /\ Len(ss[2]) = (m[2] - m[2 - 1]) + grown(2)
          /\ Len(ss[3]) = (m[3] - m[3 - 1]) + grown(3)
          /\ Len(ss[4]) = (m[4] - m[4 - 1]) + grown(4)
          /\ Len(ss[5]) = (m[5] - m[5 - 1]) + grown(5)
          /\ Len(ss[6]) = (m[6] - m[6 - 1]) + grown(6)
          /\ Len(ss[7]) = (m[7] - m[7 - 1]) + grown(7)
          /\ Len(ss[8]) = (m[8] - m[8 - 1]) + grown(8)
          /\ Len(ss[9]) = (m[9] - m[9 - 1]) + grown(9)
          /\ Len(ss[10]) = (m[10] - m[10 - 1]) + grown(10)
          /\ Len(ss[11]) = (m[11] - m[11 - 1]) + grown(11)
          /\ Len(ss[12]) = (m[12] - m[12 - 1]) + grown(12)
          /\ Len(ss[13]) = (m[13] - m[13 - 1]) + grown(13)
          /\ Len(ss[14]) = (m[14] - m[14 - 1]) + grown(14)
          /\ Len(ss[15]) = (m[15] - m[15 - 1]) + grown(15)
          /\ Len(ss[16]) = (m[16] - m[16 - 1]) + grown(16)
          /\ Len(ss[17]) = (m[17] - m[17 - 1]) + grown(17)
          /\ Len(ss[18]) = (m[18] - m[18 - 1]) + grown(18)
          /\ Len(ss[19]) = (m[19] - m[19 - 1]) + grown(19)
          /\ Len(ss[20]) = (m[20] - m[20 - 1]) + grown(20)
          /\ Len(ss[21]) = (m[21] - m[21 - 1]) + grown(21)
          /\ Len(ss[22]) = (m[22] - m[22 - 1]) + grown(22)
          /\ Len(ss[23]) = (m[23] - m[23 - 1]) + grown(23)
          /\ Len(ss[24]) = (m[24] - m[24 - 1]) + grown(24)
          /\ Len(ss[25]) = (m[25] - m[25 - 1]) + grown(25)
          /\ Len(ss[26]) = (m[26] - m[26 - 1]) + grown(26)
          /\ Len(ss[27]) = (m[27] - m[27 - 1]) + grown(27)
          /\ Len(ss[28]) = (m[28] - m[28 - 1]) + grown(28)
          /\ Len(ss[29]) = (m[29] - m[29 - 1]) + grown(29)
          /\ Len(ss[30]) = (m[30] - m[30 - 1]) + grown(30)
          /\ Len(ss[31]) = (m[31] - m[31 - 1]) + grown(31)
          /\ Len(ss[32]) = (m[32] - m[32 - 1]) + grown(32)
          /\ Len(ss[33]) = (m[33] - m[33 - 1]) + grown(33)
          /\ Len(ss[34]) = (m[34] - m[34 - 1]) + grown(34)
          /\ Len(ss[35]) = (m[35] - m[35 - 1]) + grown(35)
          /\ Len(ss[36]) = (m[36] - m[36 - 1]) + grown(36)
          /\ Len(ss[37]) = (m[37] - m[37 - 1]) + grown(37)
          /\ Len(ss[38]) = (m[38] - m[38 - 1]) + grown(38)
          /\ Len(ss[39]) = (m[39] - m[39 - 1]) + grown(39)
      BY <1>6, <1>7, <1>13
    <3> DEFINE due(i) == Len(ss[i]) = (m[i] - m[i - 1]) + grown(i)
    <3>2. /\ due(1) /\ due(2) /\ due(3) /\ due(4) /\ due(5) /\ due(6) /\ due(7) /\ due(8)
          /\ due(9) /\ due(10) /\ due(11) /\ due(12) /\ due(13) /\ due(14) /\ due(15) /\ due(16)
          /\ due(17) /\ due(18) /\ due(19) /\ due(20) /\ due(21) /\ due(22) /\ due(23) /\ due(24)
          /\ due(25) /\ due(26) /\ due(27) /\ due(28) /\ due(29) /\ due(30) /\ due(31) /\ due(32)
          /\ due(33) /\ due(34) /\ due(35) /\ due(36) /\ due(37) /\ due(38) /\ due(39)
      BY <3>1
    <3> HIDE DEF due
    <3>3. \A i \in 1..39 : due(i)
      BY <1>10, <3>2, ZenonT(90)
    <3> QED
      BY <3>3 DEF due
  <2> QED
    BY <1>21, <2>1
<1>15. Len(FlattenSeq(ss)) = p[39]
  <2>1. p[0] = 0 /\ \A i \in 0..39 : p[i] \in Nat
    BY <1>9, <1>19, <1>20
  <2> QED
    BY <1>1, <1>14, <2>1, FlattenSize
<1>16. p[39] = StateSize(s)
  BY <1>5, <1>8, <1>9, <1>19
<1>17. p[39] \in Nat
  BY <1>20
<1> QED
  BY <1>1, <1>15, <1>16, <1>17

(***************************************************************************)
(* Snapshots.                                                              *)
(***************************************************************************)
LEMMA BothAt ==
    ASSUME NEW f, NEW g, NEW t
    PROVE  /\ t \in DOMAIN f => Both(f, g)[t] = f[t] /\ t \in DOMAIN Both(f, g)
           /\ t \notin DOMAIN f /\ t \in DOMAIN g => Both(f, g)[t] = g[t] /\ t \in DOMAIN Both(f, g)
BY DEF Both

LEMMA ReadAt ==
    /\ Read["Attached"] = <<U64, U16, U16, U64, List(Group(StateRead), 97)>>
    /\ Read["Detached"] = <<Enum(3), Text>>
    /\ "Attached" \in Types /\ "Detached" \in Types
<1>1. /\ "Attached" \notin DOMAIN ControlRead /\ "Detached" \notin DOMAIN ControlRead
      /\ "Attached" \notin DOMAIN ControlWritten /\ "Detached" \notin DOMAIN ControlWritten
  BY DEF ControlRead, ControlWritten
<1>2. /\ "Attached" \notin DOMAIN SessionRead /\ "Detached" \in DOMAIN SessionRead
      /\ "Attached" \notin DOMAIN SessionWritten /\ "Detached" \in DOMAIN SessionWritten
  BY DEF SessionRead, SessionWritten
<1>3. /\ "Attached" \notin DOMAIN TerminalRead /\ "Attached" \notin DOMAIN TerminalWritten
  BY DEF TerminalRead, TerminalWritten
<1>4. "Attached" \in DOMAIN SyncRead /\ "Attached" \in DOMAIN SyncWritten
  BY DEF SyncRead, SyncWritten
<1>5. /\ SyncRead["Attached"] = <<U64, U16, U16, U64, List(Group(StateRead), 97)>>
      /\ SessionRead["Detached"] = <<Enum(3), Text>>
  BY DEF SyncRead, SessionRead
<1> DEFINE d(x, y) == Both(x, y)
<1>6. /\ Read["Attached"] = SyncRead["Attached"] /\ Read["Detached"] = SessionRead["Detached"]
  <2> DEFINE c == Both(SyncRead, Both(ImageRead, EventRead))
             b == Both(TerminalRead, c)
             a == Both(SessionRead, b)
  <2>1. c["Attached"] = SyncRead["Attached"] /\ "Attached" \in DOMAIN c
    BY <1>4, BothAt
  <2>2. Read = Both(ControlRead, a)
    BY Zenon DEF Read
  <2> HIDE DEF c
  <2>3. b["Attached"] = c["Attached"] /\ "Attached" \in DOMAIN b
    BY <1>3, <2>1, BothAt
  <2> HIDE DEF b
  <2>4. /\ a["Attached"] = b["Attached"] /\ "Attached" \in DOMAIN a
        /\ a["Detached"] = SessionRead["Detached"] /\ "Detached" \in DOMAIN a
    BY <1>2, <2>3, BothAt
  <2> HIDE DEF a
  <2>5. Read["Attached"] = a["Attached"] /\ Read["Detached"] = a["Detached"]
    BY <1>1, <2>2, <2>4, BothAt
  <2> QED
    BY <2>1, <2>3, <2>4, <2>5
<1>7. "Attached" \in Types /\ "Detached" \in Types
  <2> DEFINE c == Both(SyncWritten, Both(ImageWritten, EventWritten))
             b == Both(TerminalWritten, c)
             a == Both(SessionWritten, b)
  <2>1. "Attached" \in DOMAIN c
    BY <1>4, BothAt
  <2>2. Written = Both(ControlWritten, a)
    BY Zenon DEF Written
  <2> HIDE DEF c
  <2>3. "Attached" \in DOMAIN b
    BY <1>3, <2>1, BothAt
  <2> HIDE DEF b
  <2>4. "Attached" \in DOMAIN a /\ "Detached" \in DOMAIN a
    BY <1>2, <2>3, BothAt
  <2> HIDE DEF a
  <2> QED
    BY <1>1, <2>2, <2>4, BothAt DEF Types
<1> QED
  BY <1>5, <1>6, <1>7

GoodStates(v) ==
    Len(v) \in Nat /\ v = Values(v, Len(v)) /\ \A i \in 1..Len(v) : FitsAllInner(StateRead, v[i])

LEMMA StatesAre ==
    LET f == List(Group(StateRead), 97)
    IN /\ f.kind = "list" /\ f.of.kind = "group" /\ f.of.of = StateRead /\ f.of = Group(StateRead)
       /\ GoodField(f)
BY StatesEach DEF SameField, List, Group

LEMMA StatesFit ==
    ASSUME NEW v
    PROVE  FitsField(List(Group(StateRead), 97), v) <=> GoodStates(v)
<1> DEFINE f == List(Group(StateRead), 97)
           g == Group(StateRead)
<1>1. f.kind = "list" /\ f.of = g /\ g.kind = "group" /\ g.kind # "op" /\ g.of = StateRead
  BY StatesAre DEF Group
<1> HIDE DEF f, g
<1>2. \A e : FitsFieldEntry(g, e) <=> FitsAllInner(StateRead, e)
  BY <1>1, Zenon DEF FitsFieldEntry, FitsEntry, FitsAllInner
<1>3. FitsField(f, v) <=> FitsEachFieldEntry(g, v)
  BY <1>1, Zenon DEF FitsField, FitsWith, FitsEachFieldEntry
<1>4. FitsEachFieldEntry(g, v) <=> GoodStates(v)
  <2> DEFINE n == Len(v)
             shape == [i \in 1..n |-> g]
  <2>1. FitsEachFieldEntry(g, v) <=>
            /\ n \in Nat /\ v = [i \in DOMAIN shape |-> v[i]]
            /\ \A i \in DOMAIN shape : FitsFieldEntry(shape[i], v[i])
    BY Zenon DEF FitsEachFieldEntry, FitsEach, FitsAll
  <2>2. DOMAIN shape = 1..n /\ \A i \in 1..n : shape[i] = g
    OBVIOUS
  <2> HIDE DEF shape
  <2>3. FitsEachFieldEntry(g, v) <=>
            n \in Nat /\ v = Values(v, n) /\ \A i \in 1..n : FitsFieldEntry(g, v[i])
    BY <2>1, <2>2 DEF Values
  <2> QED
    BY <1>2, <2>3 DEF GoodStates
<1> QED
  BY <1>3, <1>4 DEF f

\* What a snapshot must be to be said.
LEMMA AttachedIs ==
    ASSUME NEW fields
    PROVE  FitsAllField(Read["Attached"], fields) <=>
               /\ fields = Values(fields, 5)
               /\ FitsField(U64, fields[1]) /\ FitsField(U16, fields[2]) /\ FitsField(U16, fields[3])
               /\ FitsField(U64, fields[4]) /\ GoodStates(fields[5])
<1> DEFINE r == <<U64, U16, U16, U64, List(Group(StateRead), 97)>>
<1>1. /\ DOMAIN r = 1..5 /\ r[1] = U64 /\ r[2] = U16 /\ r[3] = U16 /\ r[4] = U64
      /\ r[5] = List(Group(StateRead), 97)
  OBVIOUS
<1>2. Read["Attached"] = r
  BY ReadAt
<1> HIDE DEF r
<1>3. FitsAllField(r, fields) <=>
          fields = [i \in DOMAIN r |-> fields[i]] /\ \A i \in DOMAIN r : FitsField(r[i], fields[i])
  BY Zenon DEF FitsAllField, FitsAll
<1>4. \A i : i \in 1..5 <=> i = 1 \/ i = 2 \/ i = 3 \/ i = 4 \/ i = 5
  OBVIOUS
<1>5. (\A i \in DOMAIN r : FitsField(r[i], fields[i])) <=>
          /\ FitsField(U64, fields[1]) /\ FitsField(U16, fields[2]) /\ FitsField(U16, fields[3])
          /\ FitsField(U64, fields[4]) /\ FitsField(List(Group(StateRead), 97), fields[5])
  BY <1>1, <1>4, Zenon
<1> QED
  BY <1>1, <1>2, <1>3, <1>5, StatesFit DEF Values

\* A snapshot that can be said takes as many bytes as is said before it is written.
LEMMA SizesOf ==
    ASSUME NEW v, GoodStates(v)
    PROVE  LET a == [i \in 1..Len(v) |-> StateSize(v[i])]
           IN /\ SnapshotSize(v) = 16 + SumOf(a) /\ SumOf(a) \in Nat /\ Len(a) = Len(v)
              /\ \A i \in 1..Len(v) : a[i] = StateSize(v[i]) /\ a[i] \in Nat
              /\ Len(PutField(List(Group(StateRead), 97), v)) = 4 + SumOf(a)
<1> DEFINE n == Len(v)
           a == [i \in 1..n |-> StateSize(v[i])]
           f == List(Group(StateRead), 97)
           ss == PiecesFieldEntry(f.of, v)
<1>1. n \in Nat /\ v = Values(v, n) /\ \A i \in 1..n : FitsAllInner(StateRead, v[i])
  BY DEF GoodStates
<1>2. f.kind = "list" /\ f.of.kind = "group" /\ f.of.kind # "op" /\ f.of.of = StateRead /\ GoodField(f)
  BY StatesAre
<1>3. FitsField(f, v)
  BY StatesFit
<1> HIDE DEF f
<1>4. ss \in Blocks(n, Byte) /\ Len(PutField(f, v)) = 4 + Len(FlattenSeq(ss))
  BY <1>2, <1>3, FieldList
<1>5. SnapshotSize(v) = 16 + SumOf(a)
  <2>1. SnapshotSize(v) = 16 + SumOf([i \in DOMAIN v |-> StateSize(v[i])])
    BY Zenon DEF SnapshotSize
  <2>2. DOMAIN v = 1..n
    BY <1>1 DEF Values
  <2> QED
    BY <2>1, <2>2
<1>6. Len(a) = n /\ \A i \in 1..n : a[i] = StateSize(v[i])
  BY <1>1
<1>7. \A i \in 1..n : ss[i] = PutsInner(StateRead, v[i])
  <2> TAKE i \in 1..n
  <2>1. ss[i] = PutFieldEntry(f.of, v[i])
    BY DEF PiecesFieldEntry
  <2>2. ss[i] = Puts(PutInner, f.of.of, v[i])
    BY <1>2, <2>1, Zenon DEF PutFieldEntry, PutEntry
  <2> QED
    BY <1>2, <2>2, Zenon DEF PutsInner
<1>8. \A i \in 1..n : a[i] \in Nat /\ Len(ss[i]) = a[i]
  BY <1>1, <1>6, <1>7, StateSizeIs
<1> HIDE DEF n, ss, a
<1>9. SumOf(a) \in Nat /\ Len(FlattenSeq(ss)) = SumOf(a)
  BY <1>1, <1>4, <1>6, <1>8, SumFlatten
<1>10. Len(PutField(f, v)) = 4 + SumOf(a)
  BY <1>4, <1>9
<1> QED
  BY <1>5, <1>6, <1>8, <1>9, <1>10 DEF a, n, f

\* The length that is said of a snapshot before it is written is the length it
\* is written at, with all its terminals, lines, runs and texts (encoded_size).
THEOREM SnapshotSizeIs ==
    ASSUME NEW m, Sayable(m), m.type = "Attached"
    PROVE  /\ GoodStates(m.fields[5]) /\ SnapshotSize(m.fields[5]) \in Nat
           /\ Len(Payload(m)) = 8 + SnapshotSize(m.fields[5])
<1> DEFINE r == Read["Attached"]
           w == Written["Attached"]
           x == m.fields
           ss == PiecesField(r, x, 5)
           z == SnapshotSize(x[5])
<1>1. FitsAllField(r, x)
  BY Zenon DEF Sayable, FitsAllField
<1>2. /\ x = Values(x, 5)
      /\ FitsField(U64, x[1]) /\ FitsField(U16, x[2]) /\ FitsField(U16, x[3])
      /\ FitsField(U64, x[4]) /\ GoodStates(x[5])
  BY <1>1, AttachedIs
<1>3. /\ r[1] = U64 /\ r[2] = U16 /\ r[3] = U16 /\ r[4] = U64 /\ r[5] = List(Group(StateRead), 97)
      /\ Len(r) = 5
  BY ReadAt
<1>4. PICK n : FieldShapes(w, r, n)
  BY ReadAt, TypesPaired
<1>5. n = 5 /\ Shape(r, 5) /\ \A i \in 1..5 : GoodField(r[i])
  BY <1>3, <1>4 DEF FieldShapes, Shape, SameField
<1>6. Payload(m) = PutsField(r, x)
  <2>1. Payload(m) = PutsField(w, x)
    BY Zenon DEF Payload, PutsField
  <2> QED
    BY <1>4, <2>1, FieldWritten
<1> HIDE DEF r, x
<1>7. ss \in Blocks(5, Byte) /\ Payload(m) = FlattenSeq(ss)
  BY <1>1, <1>5, <1>6, FieldFields
<1>8. /\ ss[1] = PutField(U64, x[1]) /\ ss[2] = PutField(U16, x[2]) /\ ss[3] = PutField(U16, x[3])
      /\ ss[4] = PutField(U64, x[4]) /\ ss[5] = PutField(List(Group(StateRead), 97), x[5])
  BY <1>3 DEF PiecesField
<1>9. \A v : /\ FitsField(U64, v) => Len(PutField(U64, v)) = 8
             /\ FitsField(U16, v) => Len(PutField(U16, v)) = 2
  <2> TAKE v
  <2>1. U64.kind # "list" /\ U16.kind # "list"
    BY DEF U64, U16, Unsigned
  <2>2. /\ FitsField(U64, v) <=> FitsInner(U64, v)
        /\ FitsField(U16, v) <=> FitsInner(U16, v)
        /\ PutField(U64, v) = PutInner(U64, v) /\ PutField(U16, v) = PutInner(U16, v)
    BY <2>1, Zenon DEF FitsField, FitsWith, PutField, PutWith
  <2> QED
    BY <2>2, NumberSizes
<1>10. z \in Nat /\ Len(ss[5]) = z - 12 /\ z >= 16
  <2> DEFINE q == SumOf([i \in 1..Len(x[5]) |-> StateSize(x[5][i])])
  <2>1. z = 16 + q /\ q \in Nat /\ Len(ss[5]) = 4 + q
    BY <1>2, <1>8, SizesOf
  <2> HIDE DEF q, z
  <2> QED
    BY <2>1
<1> DEFINE p == [i \in 0..5 |-> IF i = 0 THEN 0 ELSE IF i = 1 THEN 8 ELSE IF i = 2 THEN 10
                                ELSE IF i = 3 THEN 12 ELSE IF i = 4 THEN 20 ELSE 8 + z]
<1>11. /\ Len(ss[1]) = 8 /\ Len(ss[2]) = 2 /\ Len(ss[3]) = 2 /\ Len(ss[4]) = 8
  BY <1>2, <1>8, <1>9
<1> HIDE DEF ss, z
<1>12. /\ p[0] = 0 /\ p[1] = 8 /\ p[2] = 10 /\ p[3] = 12 /\ p[4] = 20 /\ p[5] = 8 + z
       /\ \A i \in 0..5 : p[i] \in Nat
  BY <1>10
<1> HIDE DEF p
<1>13. \A i \in 1..5 : Len(ss[i]) = p[i] - p[i - 1]
  <2>1. \A i \in 1..5 : i = 1 \/ i = 2 \/ i = 3 \/ i = 4 \/ i = 5
    OBVIOUS
  <2>2. /\ Len(ss[1]) = p[1] - p[1 - 1] /\ Len(ss[2]) = p[2] - p[2 - 1]
        /\ Len(ss[3]) = p[3] - p[3 - 1] /\ Len(ss[4]) = p[4] - p[4 - 1]
        /\ Len(ss[5]) = p[5] - p[5 - 1]
    BY <1>10, <1>11, <1>12
  <2> QED
    BY <2>1, <2>2, Zenon
<1>14. Len(FlattenSeq(ss)) = p[5]
  BY <1>7, <1>12, <1>13, FlattenSize
<1> QED
  BY <1>2, <1>7, <1>10, <1>12, <1>14 DEF z, x

(***************************************************************************)
(* A terminal of a snapshot with another history, and the newest lines of   *)
(* one.                                                                    *)
(***************************************************************************)
With(s, l) == [s EXCEPT ![25] = l]

LEMMA StateWith ==
    ASSUME NEW s, FitsAllInner(StateRead, s), NEW l, GoodLines(l)
    PROVE  /\ FitsAllInner(StateRead, With(s, l)) /\ With(s, l)[25] = l /\ GoodLines(s[25])
           /\ StateSize(With(s, l)) - LinesSize(l) = StateSize(s) - LinesSize(s[25])
           /\ LinesSize(l) \in Nat /\ LinesSize(s[25]) \in Nat
           /\ StateSize(With(s, l)) \in Nat /\ StateSize(s) \in Nat
<1> DEFINE u == With(s, l)
           shape == StateRead
<1>1. Shape(shape, 39) /\ (\A i \in 1..39 : GoodInner(shape[i])) /\ shape[25] = RLines
  BY StateFields
<1> HIDE DEF shape
<1>2. s = Values(s, 39) /\ \A i \in 1..39 : FitsInner(shape[i], s[i])
  BY <1>1, InnerFields DEF shape
<1>3. u = Values(u, 39) /\ u[25] = l /\ \A i \in 1..39 : i # 25 => u[i] = s[i]
  BY <1>2 DEF Values, With
<1> HIDE DEF u
<1>4. \A i \in 1..39 : FitsInner(shape[i], u[i])
  <2> TAKE i \in 1..39
  <2>1. CASE i = 25
    <3>1. FitsInner(RLines, l)
      BY LinesFit
    <3> QED
      BY <1>1, <1>3, <2>1, <3>1
  <2>2. CASE i # 25
    BY <1>2, <1>3, <2>2
  <2> QED
    BY <2>1, <2>2
<1>5. FitsAllInner(shape, u)
  <2>1. u = [i \in DOMAIN shape |-> u[i]] /\ \A i \in DOMAIN shape : FitsInner(shape[i], u[i])
    BY <1>1, <1>3, <1>4 DEF Shape, Values
  <2> QED
    BY <2>1, Zenon DEF FitsAllInner, FitsAll
<1>6. GoodLines(s[25])
  <2>1. FitsInner(RLines, s[25])
    BY <1>1, <1>2
  <2> QED
    BY <2>1, LinesFit
<1> DEFINE a == Len(s[3])
           b == Len(s[4])
           h == Len(s[37])
           c == RunsSize(s[24])
           e == Len(s[26])
           g == Len(s[31])
           p == LinesSize(s[25])
           q == LinesSize(l)
<1>7. a \in Nat /\ b \in Nat /\ h \in Nat /\ c \in Nat /\ e \in Nat /\ g \in Nat
  <2>1. /\ FitsInner(Text, s[3]) /\ FitsInner(Text, s[4]) /\ FitsInner(Text, s[37])
        /\ FitsInner(RRuns, s[24]) /\ FitsInner(List(U64, 8), s[26])
        /\ FitsInner(List(Group(RJob), 25), s[31])
    BY <1>2, StateFields DEF shape
  <2> QED
    BY <2>1, TextSize, CellsSize, ListSizes
<1>8. p \in Nat /\ q \in Nat
  BY <1>6, LinesSizeIs
<1>9. StateSize(s) = 89 + a + b + h + c + p + 8 * e + 25 * g
  BY Zenon DEF StateSize
<1>10. StateSize(u) = 89 + a + b + h + c + q + 8 * e + 25 * g
  <2>1. /\ u[3] = s[3] /\ u[4] = s[4] /\ u[37] = s[37] /\ u[24] = s[24] /\ u[26] = s[26]
        /\ u[31] = s[31] /\ u[25] = l
    BY <1>3
  <2>2. StateSize(u) = 89 + Len(u[3]) + Len(u[4]) + Len(u[37]) + RunsSize(u[24]) + LinesSize(u[25])
                          + 8 * Len(u[26]) + 25 * Len(u[31])
    BY Zenon DEF StateSize
  <2> QED
    BY <2>1, <2>2, Zenon
<1> HIDE DEF a, b, h, c, e, g
<1>11. StateSize(u) - q = StateSize(s) - p /\ StateSize(u) \in Nat /\ StateSize(s) \in Nat
  <2> HIDE DEF p, q
  <2> QED
    BY <1>7, <1>8, <1>9, <1>10
<1> QED
  BY <1>3, <1>5, <1>6, <1>8, <1>11 DEF u, shape

LEMMA CostIs ==
    ASSUME NEW v, GoodLines(v)
    PROVE  LineCost(v) = SumOf(RowSizes(v)) /\ LineCost(v) \in Nat /\ LinesSize(v) = 4 + LineCost(v)
<1>1. LineCost(v) = LinesSize(v) - 4
  BY DEF LineCost
<1>2. LinesSize(v) = 4 + SumOf(RowSizes(v)) /\ SumOf(RowSizes(v)) \in Nat
  BY LinesSizeIs
<1> QED
  BY <1>1, <1>2

LEMMA NoLines == GoodLines(<<>>) /\ LineCost(<<>>) = 0
<1>1. GoodLines(<<>>)
  BY DEF GoodLines, Values
<1>2. SumOf(RowSizes(<<>>)) = 0
  <2> DEFINE a == RowSizes(<<>>)
  <2>1. Len(a) = 0 /\ \A i \in 1..0 : a[i] \in Nat
    BY DEF RowSizes
  <2> HIDE DEF a
  <2>2. Summation(a, 0)
    BY <2>1, SumIs
  <2> QED
    BY <2>2 DEF Summation, a
<1> QED
  BY <1>1, <1>2, CostIs

LEMMA NewestIs ==
    ASSUME NEW v, GoodLines(v), NEW n \in 0..Len(v)
    PROVE  GoodLines(Newest(v, n)) /\ Len(Newest(v, n)) = n
<1> DEFINE L == Len(v)
           S == {v[i] : i \in 1..L}
           d == SubSeq(v, L - n + 1, L)
<1>1. L \in Nat /\ v = Values(v, L) /\ \A i \in 1..L : GoodCells(v[i])
  BY DEF GoodLines
<1>2. v \in Seq(S)
  <2>1. v \in [1..L -> S]
    BY <1>1 DEF Values
  <2> QED
    BY <1>1, <2>1
<1>3. L - n + 1 \in Int /\ n \in Nat /\ \A i \in (L - n + 1)..L : i \in 1..L
  BY <1>1
<1>4. \A i \in (L - n + 1)..L : v[i] \in S
  BY <1>3
<1>5. \A x \in S : GoodCells(x)
  BY <1>1
<1> HIDE DEF L, S
<1>6. /\ d \in Seq(S) /\ Len(d) = (IF L - n + 1 <= L THEN L - (L - n + 1) + 1 ELSE 0)
  BY <1>1, <1>3, <1>4, SubSeqProperties
<1>7. Len(d) = n
  BY <1>1, <1>3, <1>6 DEF L
<1> HIDE DEF d
<1>8. d = Values(d, n) /\ \A i \in 1..n : GoodCells(d[i])
  BY <1>5, <1>6, <1>7 DEF Values
<1>9. Newest(v, n) = d
  BY DEF Newest, d, L
<1> QED
  BY <1>3, <1>7, <1>8, <1>9 DEF GoodLines

\* The lines of a history that fit a share: a newest part, and the longest.
Best(v, share, n) ==
    /\ n \in 0..Len(v) /\ Fitting(v, share) = Newest(v, n) /\ LineCost(Newest(v, n)) <= share
    /\ n < Len(v) => LineCost(Newest(v, n + 1)) > share

LEMMA FittingIs ==
    ASSUME NEW v, GoodLines(v), NEW share \in Nat
    PROVE  \E n : Best(v, share, n)
<1> DEFINE L == Len(v)
           cost(n) == LineCost(Newest(v, n))
           fits == {n \in 0..L : cost(n) <= share}
           c == CHOOSE n \in fits : \A m \in fits : m <= n
           T == {L - n : n \in fits}
<1>1. L \in Nat
  BY DEF GoodLines
<1>2. \A n \in 0..L : cost(n) \in Nat
  BY NewestIs, CostIs
<1>3. 0 \in fits
  <2> DEFINE z == Newest(v, 0)
  <2>1. 0 \in 0..L
    BY <1>1
  <2>2. Len(z) = 0 /\ GoodLines(z)
    BY <2>1, NewestIs
  <2> HIDE DEF z
  <2>3. z = <<>>
    BY <2>2 DEF GoodLines, Values
  <2>4. LineCost(z) = 0
    BY <2>3, NoLines
  <2>5. cost(0) = 0
    BY <2>4 DEF z
  <2> QED
    BY <2>1, <2>5
<1>4. Fitting(v, share) = Newest(v, c)
  BY Zenon DEF Fitting
<1> HIDE DEF cost
<1>5. \E n \in fits : \A m \in fits : m <= n
  <2>1. T \in SUBSET Nat /\ T # {}
    BY <1>1, <1>3
  <2> HIDE DEF T
  <2>2. PICK k \in T : \A x \in T : k <= x
    BY <2>1, Least
  <2>3. PICK n \in fits : k = L - n
    BY <2>2 DEF T
  <2>4. ASSUME NEW m \in fits PROVE m <= n
    <3>1. k <= L - m
      BY <2>2 DEF T
    <3>2. m \in Int /\ n \in Int
      OBVIOUS
    <3> QED
      BY <1>1, <2>3, <3>1, <3>2
  <2> QED
    BY <2>4
<1>6. c \in fits /\ \A m \in fits : m <= c
  <2> HIDE DEF fits
  <2> QED
    BY <1>5, Zenon
<1> HIDE DEF c
<1>7. c \in 0..L /\ cost(c) <= share
  BY <1>6
<1>8. ASSUME c < L PROVE cost(c + 1) > share
  <2>1. c + 1 \in 0..L /\ ~(c + 1 <= c)
    BY <1>1, <1>7, <1>8
  <2>2. c + 1 \notin fits
    BY <1>6, <2>1
  <2>3. cost(c + 1) \in Nat
    BY <1>2, <2>1
  <2> QED
    BY <2>1, <2>2, <2>3
<1>9. Best(v, share, c)
  BY <1>4, <1>7, <1>8 DEF Best, cost
<1> QED
  BY <1>9

LEMMA FittingFits ==
    ASSUME NEW v, GoodLines(v), NEW share \in Nat
    PROVE  /\ GoodLines(Fitting(v, share)) /\ LineCost(Fitting(v, share)) \in 0..share
           /\ LET n == Len(Fitting(v, share))
              IN /\ Fitting(v, share) = Newest(v, n)
                 /\ n < Len(v) => LineCost(Newest(v, n + 1)) > share
<1>1. PICK n : Best(v, share, n)
  BY FittingIs
<1>2. n \in 0..Len(v) /\ Fitting(v, share) = Newest(v, n)
  BY <1>1 DEF Best
<1>3. GoodLines(Newest(v, n)) /\ Len(Newest(v, n)) = n
  BY <1>2, NewestIs
<1>4. LineCost(Newest(v, n)) \in Nat
  BY <1>3, CostIs
<1> QED
  BY <1>1, <1>2, <1>3, <1>4 DEF Best

(***************************************************************************)
(* The room of a snapshot shared out.                                      *)
(***************************************************************************)
LEMMA ShareIs ==
    ASSUME NEW x \in Nat, NEW k \in Nat \ {0}
    PROVE  /\ x \div k \in Nat /\ x \div k <= x /\ (x \div k) * k <= x
           /\ \A s \in Nat : s * k <= x => s <= x \div k
<1> DEFINE q == x \div k
           r == x % k
<1>1. q \in Int /\ r \in 0..(k - 1) /\ x = k * q + r
  OBVIOUS
<1> HIDE DEF q, r
<1>2. q >= 0
  <2>1. CASE q < 0
    <3>1. k * q <= -k
      BY <1>1, <2>1
    <3> QED
      BY <1>1, <3>1
  <2> QED
    BY <1>1, <2>1
<1>3. q * k = k * q /\ q * k <= x
  BY <1>1
<1>4. q \in Nat /\ q <= x
  BY <1>2, <1>3, <1>1, DivOf
<1>5. \A s \in Nat : s * k <= x => s <= x \div k
  BY DivOf
<1> QED
  BY <1>3, <1>4, <1>5 DEF q

LEMMA FairStep ==
    ASSUME NEW x \in Nat, NEW k \in Nat, NEW s \in Nat, s * (k + 1) <= x, NEW c \in Nat,
           c <= x \div (k + 1)
    PROVE  s <= x \div (k + 1) /\ s * k <= x - c
<1> DEFINE q == x \div (k + 1)
<1>1. q \in Nat /\ q * (k + 1) <= x /\ s <= q
  <2> DEFINE j == k + 1
  <2>1. j \in Nat \ {0} /\ s * j <= x
    OBVIOUS
  <2> HIDE DEF j
  <2>2. x \div j \in Nat /\ (x \div j) * j <= x /\ s <= x \div j
    BY <2>1, ShareIs
  <2> QED
    BY <2>2 DEF j
<1> HIDE DEF q
<1>2. c <= q
  BY DEF q
<1>3. q * (k + 1) = q * k + q /\ q * k \in Nat /\ s * k \in Nat
  BY <1>1
<1>4. s * k <= q * k
  BY <1>1
<1> QED
  BY <1>1, <1>2, <1>3, <1>4 DEF q

\* What one sum grows by, what is left falls by.
Balanced(n, a, b, f) ==
    /\ Len(a) = n /\ Len(b) = n /\ \A i \in 0..n : f[i] \in Nat
    /\ \A i \in 1..n : a[i] \in Nat /\ b[i] \in Nat /\ a[i] + f[i] = b[i] + f[i - 1]

LEMMA SumGrown ==
    ASSUME NEW n \in Nat, NEW a, NEW b, NEW f, Balanced(n, a, b, f)
    PROVE  SumOf(a) + f[n] = SumOf(b) + f[0] /\ SumOf(a) \in Nat /\ SumOf(b) \in Nat
<1>1. Summation(a, n) /\ Summation(b, n)
  BY SumIs DEF Balanced
<1>2. PICK g \in [0..n -> Nat] :
          g[0] = 0 /\ SumOf(a) = g[n] /\ \A i \in 1..n : g[i] = g[i - 1] + a[i]
  BY <1>1 DEF Summation
<1>3. PICK h \in [0..n -> Nat] :
          h[0] = 0 /\ SumOf(b) = h[n] /\ \A i \in 1..n : h[i] = h[i - 1] + b[i]
  BY <1>1 DEF Summation
<1>4. \A i \in 0..n : g[i] \in Nat /\ h[i] \in Nat /\ f[i] \in Nat
  BY DEF Balanced
<1> DEFINE T == {i \in Nat : i <= n => g[i] + f[i] = h[i] + f[0]}
<1>5. 0 \in T
  BY <1>2, <1>3, <1>4
<1>6. ASSUME NEW i \in T PROVE i + 1 \in T
  <2> SUFFICES ASSUME i + 1 <= n PROVE g[i + 1] + f[i + 1] = h[i + 1] + f[0]
    OBVIOUS
  <2>1. i \in Nat /\ i <= n /\ i + 1 \in 1..n /\ (i + 1) - 1 = i /\ i \in 0..n /\ i + 1 \in 0..n
    OBVIOUS
  <2> DEFINE j == i + 1
  <2>2. g[j] = g[i] + a[j] /\ h[j] = h[i] + b[j] /\ a[j] + f[j] = b[j] + f[i]
    <3>1. j \in 1..n /\ j - 1 = i
      BY <2>1
    <3> HIDE DEF j
    <3>2. g[j] = g[j - 1] + a[j] /\ h[j] = h[j - 1] + b[j] /\ a[j] + f[j] = b[j] + f[j - 1]
      BY <1>2, <1>3, <3>1 DEF Balanced
    <3> QED
      BY <3>1, <3>2
  <2>3. g[i] + f[i] = h[i] + f[0] /\ 0 \in 0..n
    BY <2>1
  <2>4. /\ g[i] \in Nat /\ h[i] \in Nat /\ f[i] \in Nat /\ f[0] \in Nat /\ g[j] \in Nat
        /\ h[j] \in Nat /\ f[j] \in Nat /\ a[j] \in Nat /\ b[j] \in Nat
    BY <1>4, <2>1, <2>3 DEF Balanced
  <2> DEFINE g0 == g[i]
             h0 == h[i]
             f0 == f[i]
             g1 == g[j]
             h1 == h[j]
             f1 == f[j]
             a1 == a[j]
             b1 == b[j]
             z == f[0]
  <2> HIDE DEF j, T, g0, h0, f0, g1, h1, f1, a1, b1, z
  <2>6. /\ g0 \in Nat /\ h0 \in Nat /\ f0 \in Nat /\ z \in Nat /\ a1 \in Nat /\ b1 \in Nat
        /\ f1 \in Nat /\ g0 + f0 = h0 + z /\ g1 = g0 + a1 /\ h1 = h0 + b1 /\ a1 + f1 = b1 + f0
    BY <2>2, <2>3, <2>4, Zenon DEF g0, h0, f0, g1, h1, f1, a1, b1, z
  <2>7. g1 + f1 = h1 + z
    BY <2>6
  <2>5. g[j] + f[j] = h[j] + f[0]
    BY <2>7 DEF g1, f1, h1, z
  <2> QED
    BY <2>5 DEF j
<1>7. T = Nat
  <2> HIDE DEF T
  <2>1. T \in SUBSET Nat
    BY DEF T
  <2> QED
    BY <1>5, <1>6, <2>1, Induction
<1>8. g[n] + f[n] = h[n] + f[0]
  <2>1. n \in T
    BY <1>7
  <2> QED
    BY <2>1
<1>9. n \in 0..n
  OBVIOUS
<1> QED
  BY <1>2, <1>3, <1>4, <1>8, <1>9

Kept(states, i, x) == Fitting(states[i][25], Share(x, Len(states) + 1 - i))
Filling(states, room, f) ==
    [i \in 0..Len(states) |->
        IF i = 0 THEN room ELSE f[i - 1] - LineCost(Kept(states, i, f[i - 1]))]
Fills(states, room, f) ==
    /\ f \in [0..Len(states) -> Nat] /\ f[0] = room
    /\ \A i \in 1..Len(states) : f[i] = f[i - 1] - LineCost(Kept(states, i, f[i - 1]))
    /\ Filled(states, room) = [i \in 1..Len(states) |-> With(states[i], Kept(states, i, f[i - 1]))]

\* What a terminal keeps of its history is within its share of what is left.
Fair(h, l, q, x) ==
    /\ q \in Nat /\ q <= x /\ GoodLines(h) /\ GoodLines(l) /\ LineCost(l) \in 0..q
    /\ x - LineCost(l) \in Nat /\ l = Newest(h, Len(l))
    /\ Len(l) < Len(h) => LineCost(Newest(h, Len(l) + 1)) > q

LEMMA KeptIs ==
    ASSUME NEW v, GoodStates(v), NEW i \in 1..Len(v), NEW x \in Nat
    PROVE  /\ Len(v) + 1 - i \in Nat \ {0}
           /\ Fair(v[i][25], Kept(v, i, x), x \div (Len(v) + 1 - i), x)
<1> DEFINE k == Len(v) + 1 - i
           h == v[i][25]
           q == x \div k
           l == Fitting(h, q)
<1>1. Len(v) \in Nat /\ FitsAllInner(StateRead, v[i])
  BY DEF GoodStates
<1>2. k \in Nat \ {0}
  BY <1>1
<1>3. GoodLines(h)
  <2>1. GoodLines(<<>>)
    BY NoLines
  <2> QED
    BY <1>1, <2>1, StateWith
<1> HIDE DEF k, h
<1>4. q \in Nat /\ q <= x
  BY <1>2, ShareIs
<1>5. Kept(v, i, x) = l
  BY Zenon DEF Kept, Share, k, h
<1> HIDE DEF q
<1>6. /\ GoodLines(l) /\ LineCost(l) \in 0..q
      /\ l = Newest(h, Len(l))
      /\ Len(l) < Len(h) => LineCost(Newest(h, Len(l) + 1)) > q
  BY <1>3, <1>4, FittingFits
<1> HIDE DEF l
<1>7. x - LineCost(l) \in Nat
  BY <1>4, <1>6
<1>8. Fair(h, l, q, x)
  BY <1>3, <1>4, <1>6, <1>7 DEF Fair
<1> QED
  BY <1>2, <1>5, <1>8, Zenon DEF k, h, q

LEMMA FilledIs ==
    ASSUME NEW v, GoodStates(v), NEW room \in Nat
    PROVE  \E f : Fills(v, room, f)
<1> DEFINE n == Len(v)
           c == CHOOSE f : f = Filling(v, room, f)
           left(i, x) == x - LineCost(Kept(v, i, x))
<1>1. n \in Nat
  BY DEF GoodStates
<1>2. Filled(v, room) = [i \in 1..n |-> With(v[i], Kept(v, i, c[i - 1]))]
  BY Zenon DEF Filled, Filling, Kept, With
<1>3. \A i \in 1..n : \A x \in Nat : left(i, x) \in Nat
  BY KeptIs DEF Fair
<1> HIDE DEF left
<1> DEFINE G == [i \in 1..n |-> [x \in Nat |-> left(i, x)]]
<1>4. G \in [1..n -> [Nat -> Nat]] /\ \A i \in 1..n : \A x \in Nat : G[i][x] = left(i, x)
  BY <1>3
<1> HIDE DEF G, n
<1>5. PICK f : f \in [0..n -> Nat] /\ f[0] = room /\ \A i \in 1..n : f[i] = G[i][f[i - 1]]
  <2>1. \E f : Iterates(f, n, Nat, room, G)
    BY <1>1, <1>4, Recursive
  <2> QED
    BY <2>1, Zenon DEF Iterates
<1>6. \A i \in 1..n : i - 1 \in 0..n
  BY <1>1
<1>7. \A i \in 1..n : f[i] = left(i, f[i - 1])
  BY <1>4, <1>5, <1>6
<1> DEFINE next(g, i) == IF i = 0 THEN room ELSE g[i - 1] - LineCost(Kept(v, i, g[i - 1]))
<1>8. \A g : Filling(v, room, g) = [i \in 0..n |-> next(g, i)]
  BY Zenon DEF Filling, n
<1>9. f = Filling(v, room, f)
  <2>1. \A i \in 0..n : f[i] = next(f, i)
    <3>1. \A i \in 0..n : i = 0 \/ i \in 1..n
      BY <1>1
    <3>2. \A i \in 1..n : i # 0
      BY <1>1
    <3> QED
      BY <1>5, <1>7, <3>1, <3>2, Zenon DEF left
  <2>2. f = [i \in 0..n |-> f[i]]
    BY <1>5
  <2> HIDE DEF next
  <2> QED
    BY <1>8, <2>1, <2>2
<1>10. c = Filling(v, room, c)
  BY <1>9, Zenon
<1> HIDE DEF c
<1>11. c[0] = room /\ \A i \in 1..n : c[i] = left(i, c[i - 1])
  <2>1. c = [i \in 0..n |-> next(c, i)]
    BY <1>8, <1>10
  <2> HIDE DEF next
  <2>2. \A i \in 0..n : c[i] = next(c, i)
    BY <2>1
  <2>3. 0 \in 0..n /\ \A i \in 1..n : i \in 0..n /\ i # 0
    BY <1>1
  <2> QED
    BY <2>2, <2>3, Zenon DEF left, next
<1>12. \A i \in 0..n : c[i] = f[i]
  <2>1. \A i \in 1..n : c[i - 1] = f[i - 1] => c[i] = f[i]
    BY <1>7, <1>11
  <2>2. c[0] = f[0]
    BY <1>5, <1>11
  <2> QED
    BY <1>1, <2>1, <2>2, Same
<1>13. Filled(v, room) = [i \in 1..n |-> With(v[i], Kept(v, i, f[i - 1]))]
  <2>1. \A i \in 1..n : c[i - 1] = f[i - 1]
    BY <1>6, <1>12
  <2> QED
    BY <1>2, <2>1 DEF n
<1>14. Fills(v, room, f)
  BY <1>5, <1>7, <1>13 DEF Fills, left, n
<1> QED
  BY <1>14

Screens(v) == [i \in 1..Len(v) |-> With(v[i], <<>>)]

LEMMA ScreensGood ==
    ASSUME NEW v, GoodStates(v)
    PROVE  GoodStates(Screens(v)) /\ Len(Screens(v)) = Len(v)
<1>1. Len(v) \in Nat /\ \A i \in 1..Len(v) : FitsAllInner(StateRead, v[i])
  BY DEF GoodStates
<1>2. \A i \in 1..Len(v) : FitsAllInner(StateRead, With(v[i], <<>>))
  <2>1. GoodLines(<<>>)
    BY NoLines
  <2> QED
    BY <1>1, <2>1, StateWith
<1> QED
  BY <1>1, <1>2 DEF Screens, GoodStates, Values

\* No terminal is left less than an equal share of the room.
LEMMA SharesHold ==
    ASSUME NEW v, GoodStates(v), NEW room \in Nat, NEW f, Fills(v, room, f), NEW i \in 1..Len(v)
    PROVE  room \div Len(v) <= f[i - 1] \div (Len(v) + 1 - i)
<1> DEFINE n == Len(v)
           s == room \div n
           cost(j) == LineCost(Kept(v, j, f[j - 1]))
<1>1. n \in Nat \ {0} /\ n \in Nat
  BY DEF GoodStates
<1> HIDE DEF n
<1>2. s \in Nat /\ s * n <= room
  BY <1>1, ShareIs
<1> HIDE DEF s
<1>3. \A j \in 0..n : f[j] \in Nat
  BY DEF Fills, n
<1>4. ASSUME NEW j \in 1..n
      PROVE  /\ f[j] = f[j - 1] - cost(j) /\ cost(j) \in Nat
             /\ cost(j) <= f[j - 1] \div (n + 1 - j)
  <2>1. j - 1 \in 0..n /\ j \in 1..Len(v)
    BY <1>1 DEF n
  <2>2. f[j - 1] \in Nat
    BY <1>3, <2>1
  <2> DEFINE x == f[j - 1]
             q == x \div (Len(v) + 1 - j)
  <2> HIDE DEF x
  <2>3. Fair(v[j][25], Kept(v, j, x), q, x)
    BY <2>1, <2>2, KeptIs DEF x
  <2> HIDE DEF q
  <2>4. LineCost(Kept(v, j, x)) \in Nat /\ LineCost(Kept(v, j, x)) <= q
    BY <2>3 DEF Fair
  <2>5. f[j] = x - LineCost(Kept(v, j, x))
    BY <2>1 DEF Fills, x
  <2> QED
    BY <2>4, <2>5 DEF x, q, n
<1> HIDE DEF cost
<1> DEFINE T == {j \in Nat : j <= n => s * (n - j) <= f[j]}
<1>5. 0 \in T
  <2>1. f[0] = room /\ n - 0 = n
    BY <1>1 DEF Fills
  <2> QED
    BY <1>2, <2>1
<1>6. ASSUME NEW j \in T PROVE j + 1 \in T
  <2> SUFFICES ASSUME j + 1 <= n PROVE s * (n - (j + 1)) <= f[j + 1]
    OBVIOUS
  <2> DEFINE k == n - (j + 1)
             x == f[j]
             c == cost(j + 1)
             y == f[j + 1]
  <2>1. /\ j \in Nat /\ j <= n /\ j + 1 \in 1..n /\ (j + 1) - 1 = j /\ j \in 0..n /\ k \in Nat
        /\ n - j = k + 1 /\ n + 1 - (j + 1) = k + 1
    BY <1>1
  <2>2. s * (n - j) <= x /\ x \in Nat
    BY <1>3, <2>1
  <2>3. f[j + 1] = f[(j + 1) - 1] - c /\ c \in Nat /\ c <= f[(j + 1) - 1] \div (n + 1 - (j + 1))
    <3> DEFINE e == j + 1
    <3>1. e \in 1..n
      BY <2>1
    <3> HIDE DEF e
    <3>2. f[e] = f[e - 1] - cost(e) /\ cost(e) \in Nat /\ cost(e) <= f[e - 1] \div (n + 1 - e)
      BY <1>4, <3>1
    <3> QED
      BY <3>2, Zenon DEF e
  <2>4. y = x - c /\ c <= x \div (k + 1) /\ s * (k + 1) <= x
    BY <2>1, <2>2, <2>3
  <2>7. s * k <= x - c
    <3>1. k \in Nat /\ x \in Nat /\ c \in Nat /\ c <= x \div (k + 1) /\ s * (k + 1) <= x
      BY <2>1, <2>2, <2>3, <2>4
    <3> HIDE DEF k, x, c, T
    <3> QED
      BY <1>2, <3>1, FairStep
  <2> HIDE DEF T
  <2> QED
    BY <2>4, <2>7
<1>7. T = Nat
  <2> HIDE DEF T
  <2>1. T \in SUBSET Nat
    BY DEF T
  <2> QED
    BY <1>5, <1>6, <2>1, Induction
<1>8. s <= f[i - 1] \div (n + 1 - i)
  <2> DEFINE j == i - 1
             k == n - i
             x == f[j]
  <2>1. j \in Nat /\ j <= n /\ k \in Nat /\ n - j = k + 1 /\ n + 1 - i = k + 1 /\ j \in 0..n
    BY <1>1 DEF n
  <2>2. s * (n - j) <= f[j]
    <3>1. j \in T
      BY <1>7, <2>1
    <3> HIDE DEF j
    <3> QED
      BY <2>1, <3>1
  <2>3. x \in Nat /\ s * (k + 1) <= x
    <3> HIDE DEF j, k
    <3> QED
      BY <1>3, <2>1, <2>2
  <2>4. s <= x \div (k + 1)
    <3> DEFINE e == k + 1
    <3>1. e \in Nat \ {0} /\ s * e <= x
      BY <2>1, <2>3
    <3> HIDE DEF e, x, k
    <3>2. s <= x \div e
      BY <1>2, <2>3, <3>1, ShareIs
    <3> QED
      BY <3>2 DEF e
  <2> HIDE DEF k, x
  <2> QED
    BY <2>1, <2>4 DEF x
<1> QED
  BY <1>8 DEF s, n

\* What a snapshot is filled with is within its room, and is of each history a
\* newest part that could not be longer within an equal share.
LEMMA FilledFits ==
    ASSUME NEW v, GoodStates(v), NEW room \in Nat
    PROVE  /\ GoodStates(Filled(v, room)) /\ Len(Filled(v, room)) = Len(v)
           /\ SnapshotSize(Screens(v)) \in Nat /\ SnapshotSize(Filled(v, room)) \in Nat
           /\ SnapshotSize(Filled(v, room)) <= SnapshotSize(Screens(v)) + room
           /\ \A t \in 1..Len(v) :
                 LET h == v[t][25]
                     l == Filled(v, room)[t][25]
                 IN /\ l = Newest(h, Len(l))
                    /\ Len(l) < Len(h) => LineCost(Newest(h, Len(l) + 1)) > room \div Len(v)
<1> DEFINE n == Len(v)
           w == Filled(v, room)
           u == Screens(v)
           a == [i \in 1..n |-> StateSize(w[i])]
           b == [i \in 1..n |-> StateSize(u[i])]
<1>1. n \in Nat /\ \A i \in 1..n : FitsAllInner(StateRead, v[i])
  BY DEF GoodStates
<1>2. PICK f : Fills(v, room, f)
  BY FilledIs
<1> DEFINE l(i) == Kept(v, i, f[i - 1])
           x(i) == f[i - 1]
           q(i) == x(i) \div (n + 1 - i)
<1>3. /\ f[0] = room /\ (\A i \in 0..n : f[i] \in Nat)
      /\ \A i \in 1..n : f[i] = x(i) - LineCost(l(i)) /\ x(i) \in Nat
      /\ w = [i \in 1..n |-> With(v[i], l(i))]
  <2>1. \A i \in 1..n : i - 1 \in 0..n
    BY <1>1
  <2> HIDE DEF n, w
  <2>2. /\ f \in [0..n -> Nat] /\ f[0] = room
        /\ \A i \in 1..n : f[i] = f[i - 1] - LineCost(Kept(v, i, f[i - 1]))
        /\ w = [i \in 1..n |-> With(v[i], Kept(v, i, f[i - 1]))]
    BY <1>2, Zenon DEF Fills, n, w
  <2> QED
    BY <2>1, <2>2
<1>4. \A i \in 1..n : Fair(v[i][25], l(i), q(i), x(i))
  <2> TAKE i \in 1..n
  <2> DEFINE y == x(i)
  <2>1. y \in Nat
    BY <1>3
  <2> HIDE DEF y
  <2>2. Fair(v[i][25], Kept(v, i, y), y \div (Len(v) + 1 - i), y)
    BY <2>1, KeptIs
  <2> QED
    BY <2>2 DEF y
<1>5. \A i \in 1..n : room \div n <= q(i)
  BY <1>2, SharesHold
<1> HIDE DEF x, l, q
<1>6. \A i \in 1..n : /\ GoodLines(l(i)) /\ LineCost(l(i)) \in Nat /\ l(i) = Newest(v[i][25], Len(l(i)))
                      /\ q(i) \in Nat
                      /\ Len(l(i)) < Len(v[i][25]) =>
                            LineCost(Newest(v[i][25], Len(l(i)) + 1)) > q(i)
  BY <1>4 DEF Fair
<1>7. \A i \in 1..n : /\ FitsAllInner(StateRead, w[i]) /\ w[i][25] = l(i)
                      /\ w[i] = With(v[i], l(i)) /\ u[i] = With(v[i], <<>>)
  <2> TAKE i \in 1..n
  <2> HIDE DEF w
  <2>1. w[i] = With(v[i], l(i)) /\ GoodLines(l(i))
    BY <1>3, <1>6
  <2>2. FitsAllInner(StateRead, With(v[i], l(i))) /\ With(v[i], l(i))[25] = l(i)
    BY <1>1, <2>1, StateWith
  <2>3. u[i] = With(v[i], <<>>)
    BY DEF Screens
  <2> QED
    BY <2>1, <2>2, <2>3
<1>8. GoodStates(w) /\ Len(w) = n /\ GoodStates(u) /\ Len(u) = n
  <2>1. GoodStates(u) /\ Len(u) = n
    BY ScreensGood
  <2>2. w = Values(w, n) /\ Len(w) = n
    <3> HIDE DEF w, n
    <3> QED
      BY <1>1, <1>3 DEF Values
  <2> HIDE DEF w
  <2>3. GoodStates(w)
    BY <1>1, <1>7, <2>2 DEF GoodStates
  <2> QED
    BY <2>1, <2>2, <2>3
<1>9. \A i \in 1..n : StateSize(w[i]) \in Nat /\ StateSize(u[i]) \in Nat
                      /\ StateSize(w[i]) = StateSize(u[i]) + LineCost(l(i))
  <2> TAKE i \in 1..n
  <2> HIDE DEF w, u
  <2> DEFINE s == v[i]
             d == l(i)
             p == LinesSize(s[25])
             c == LineCost(d)
             s1 == StateSize(w[i])
             s2 == StateSize(u[i])
             s3 == StateSize(s)
  <2>1. FitsAllInner(StateRead, s) /\ GoodLines(d) /\ GoodLines(<<>>) /\ LineCost(<<>>) = 0
    BY <1>1, <1>6, NoLines
  <2>2. LinesSize(d) = 4 + c /\ c \in Nat /\ LinesSize(<<>>) = 4 + LineCost(<<>>)
    BY <2>1, CostIs
  <2> HIDE DEF s, d, c
  <2>3. /\ StateSize(With(s, d)) - LinesSize(d) = StateSize(s) - LinesSize(s[25])
        /\ StateSize(With(s, d)) \in Nat /\ StateSize(s) \in Nat /\ LinesSize(s[25]) \in Nat
        /\ StateSize(With(s, <<>>)) - LinesSize(<<>>) = StateSize(s) - LinesSize(s[25])
        /\ StateSize(With(s, <<>>)) \in Nat
    BY <2>1, StateWith
  <2>4. w[i] = With(s, d) /\ u[i] = With(s, <<>>)
    BY <1>7 DEF s, d
  <2>5. /\ s1 - (4 + c) = s3 - p /\ s1 \in Nat /\ s3 \in Nat /\ p \in Nat
        /\ s2 - (4 + 0) = s3 - p /\ s2 \in Nat
    BY <2>1, <2>2, <2>3, <2>4
  <2> HIDE DEF s1, s2, s3, p
  <2>6. s1 = s2 + c /\ s1 \in Nat /\ s2 \in Nat
    BY <2>2, <2>5
  <2> QED
    BY <2>6 DEF s1, s2, c, d
<1> HIDE DEF n, w, u
<1>10. /\ SnapshotSize(w) = 16 + SumOf(a) /\ SumOf(a) \in Nat /\ Len(a) = n
       /\ SnapshotSize(u) = 16 + SumOf(b) /\ SumOf(b) \in Nat /\ Len(b) = n
       /\ \A i \in 1..n : a[i] = StateSize(w[i]) /\ b[i] = StateSize(u[i])
  <2>1. /\ SnapshotSize(w) = 16 + SumOf(a) /\ SumOf(a) \in Nat /\ Len(a) = n
    BY <1>8, SizesOf
  <2>2. /\ SnapshotSize(u) = 16 + SumOf(b) /\ SumOf(b) \in Nat /\ Len(b) = n
    BY <1>8, SizesOf
  <2> QED
    BY <2>1, <2>2
<1> HIDE DEF a, b
<1>11. Balanced(n, a, b, f)
  <2>1. \A i \in 1..n : a[i] \in Nat /\ b[i] \in Nat /\ a[i] + f[i] = b[i] + f[i - 1]
    <3> TAKE i \in 1..n
    <3> DEFINE a1 == a[i]
               b1 == b[i]
               f1 == f[i]
               x1 == x(i)
               c1 == LineCost(l(i))
    <3>1. /\ a1 \in Nat /\ b1 \in Nat /\ c1 \in Nat /\ x1 \in Nat /\ a1 = b1 + c1 /\ f1 = x1 - c1
      BY <1>3, <1>6, <1>9, <1>10
    <3> HIDE DEF a1, b1, f1, x1, c1
    <3>2. a1 \in Nat /\ b1 \in Nat /\ a1 + f1 = b1 + x1
      BY <3>1
    <3> QED
      BY <3>2 DEF a1, b1, f1, x1, x
  <2> QED
    BY <1>3, <1>10, <2>1 DEF Balanced
<1>12. SumOf(a) + f[n] = SumOf(b) + f[0] /\ n \in 0..n
  BY <1>1, <1>11, SumGrown
<1> DEFINE y == f[n]
           sa == SumOf(a)
           sb == SumOf(b)
<1>13. sa + y = sb + room /\ y \in Nat /\ sa \in Nat /\ sb \in Nat
  BY <1>3, <1>10, <1>12
<1>14. SnapshotSize(w) = 16 + sa /\ SnapshotSize(u) = 16 + sb
  BY <1>10
<1> HIDE DEF y, sa, sb
<1>15. /\ SnapshotSize(w) <= SnapshotSize(u) + room /\ SnapshotSize(w) \in Nat
       /\ SnapshotSize(u) \in Nat
  BY <1>13, <1>14
<1>16. ASSUME NEW t \in 1..n, Len(w[t][25]) < Len(v[t][25])
       PROVE  LineCost(Newest(v[t][25], Len(w[t][25]) + 1)) > room \div n
  <2> DEFINE e == LineCost(Newest(v[t][25], Len(w[t][25]) + 1))
             qq == q(t)
             s == room \div n
  <2>1. w[t][25] = l(t)
    BY <1>7
  <2>2. e > qq /\ qq \in Nat /\ s <= qq
    BY <1>5, <1>6, <1>16, <2>1
  <2>3. e \in Nat
    <3> DEFINE h == v[t][25]
               z == Len(l(t)) + 1
    <3>1. GoodLines(h) /\ Len(l(t)) \in Nat
      BY <1>4, <1>6 DEF Fair, GoodLines
    <3>2. z \in 0..Len(h)
      <4>1. Len(h) \in Nat
        BY <3>1 DEF GoodLines
      <4> QED
        BY <1>16, <2>1, <3>1, <4>1
    <3> HIDE DEF h, z
    <3>3. LineCost(Newest(h, z)) \in Nat
      BY <3>1, <3>2, NewestIs, CostIs
    <3> QED
      BY <2>1, <3>3 DEF h, z
  <2>4. s \in Nat
    <3>1. n \in Nat \ {0}
      BY <1>1
    <3> QED
      BY <3>1, ShareIs
  <2> HIDE DEF e, qq, s
  <2>5. e > s
    BY <2>2, <2>3, <2>4
  <2> QED
    BY <2>5 DEF e, s
<1>17. \A t \in 1..n : w[t][25] = Newest(v[t][25], Len(w[t][25]))
  BY <1>6, <1>7
<1> QED
  BY <1>8, <1>15, <1>16, <1>17 DEF w, u, n

(***************************************************************************)
(* What is sent for a message.                                             *)
(***************************************************************************)
TooBig == [type |-> "Detached", fields |-> <<2, <<>>>>]

LEMMA TooBigSaid == Sayable(TooBig)
<1> DEFINE r == <<Enum(3), Text>>
           x == <<2, <<>>>>
<1>1. Read["Detached"] = r /\ "Detached" \in Types
  BY ReadAt
<1>2. /\ Enum(3).kind = "enum" /\ Enum(3).top = 3 /\ Text.kind = "text"
  BY DEF Enum, Text
<1>3. FitsBasic(Enum(3), 2) /\ FitsBasic(Text, <<>>)
  <2>1. FitsBasic(Enum(3), 2) <=> 2 \in 0..Enum(3).top
    BY <1>2 DEF FitsBasic
  <2>2. FitsBasic(Text, <<>>) <=> <<>> \in Seq(0..255) /\ Len(<<>>) <= MaxText
    BY <1>2 DEF FitsBasic
  <2>3. MaxText \in Nat
    BY CapAssumption
  <2> QED
    BY <1>2, <2>1, <2>2, <2>3
<1>4. FitsField(Enum(3), 2) /\ FitsField(Text, <<>>)
  <2>1. /\ Enum(3).kind # "list" /\ Enum(3).kind # "cells" 
        /\ Text.kind # "list" /\ Text.kind # "cells"
    BY <1>2
  <2> QED
    BY <1>3, <2>1, Zenon DEF FitsField, FitsWith, FitsInner, FitsPlain
<1>5. DOMAIN r = 1..2 /\ r[1] = Enum(3) /\ r[2] = Text /\ x[1] = 2 /\ x[2] = <<>>
  OBVIOUS
<1>6. x = [i \in 1..2 |-> x[i]]
  OBVIOUS
<1> HIDE DEF r, x
<1>7. \A i \in 1..2 : FitsField(r[i], x[i])
  <2>1. \A i \in 1..2 : i = 1 \/ i = 2
    OBVIOUS
  <2>2. FitsField(r[1], x[1]) /\ FitsField(r[2], x[2])
    BY <1>4, <1>5
  <2> QED
    BY <2>1, <2>2, Zenon
<1>8. FitsAll(FitsField, Read["Detached"], x)
  BY <1>1, <1>5, <1>6, <1>7, Zenon DEF FitsAll
<1>9. /\ TooBig.type = "Detached" /\ TooBig.fields = x
      /\ TooBig = [type |-> TooBig.type, fields |-> TooBig.fields]
  BY DEF TooBig, x
<1> QED
  BY <1>1, <1>8, <1>9, Zenon DEF Sayable

Spent(m) == 8 + SnapshotSize(Screens(m.fields[5]))
Snapshot(m) ==
    [type |-> m.type, fields |-> [m.fields EXCEPT ![5] = Filled(m.fields[5], Budget - Spent(m))]]

LEMMA ComposedIs ==
    ASSUME NEW m, Sayable(m)
    PROVE  /\ m.type # "Attached" => Composed(m) = m
           /\ m.type = "Attached" =>
                 /\ GoodStates(m.fields[5]) /\ Spent(m) \in Nat
                 /\ Spent(m) > Budget => Composed(m) = TooBig
                 /\ ~(Spent(m) > Budget) => Composed(m) = Snapshot(m)
<1>1. m.type # "Attached" => Composed(m) = m
  BY Zenon DEF Composed
<1>2. ASSUME m.type = "Attached"
      PROVE  /\ GoodStates(m.fields[5]) /\ Spent(m) \in Nat
             /\ Spent(m) > Budget => Composed(m) = TooBig
             /\ ~(Spent(m) > Budget) => Composed(m) = Snapshot(m)
  <2> DEFINE v == m.fields[5]
             screens == [i \in DOMAIN v |-> [v[i] EXCEPT ![25] = <<>>]]
             x == m.fields
  <2>1. GoodStates(v)
    BY <1>2, SnapshotSizeIs
  <2>2. screens = Screens(v)
    <3> HIDE DEF v
    <3>1. DOMAIN v = 1..Len(v)
      BY <2>1 DEF GoodStates, Values
    <3> QED
      BY <3>1, Zenon DEF Screens, With
  <2>3. SnapshotSize(Screens(v)) \in Nat
    <3> DEFINE u == Screens(v)
               s == SumOf([i \in 1..Len(u) |-> StateSize(u[i])])
    <3>1. GoodStates(u)
      BY <2>1, ScreensGood
    <3> HIDE DEF u
    <3>2. SnapshotSize(u) = 16 + s /\ s \in Nat
      BY <3>1, SizesOf
    <3> HIDE DEF s
    <3> QED
      BY <3>2 DEF u
  <2>4. Composed(m) = IF m.type # "Attached" THEN m
                      ELSE IF 8 + SnapshotSize(screens) > Budget THEN TooBig
                      ELSE [m EXCEPT !.fields[5] = Filled(@, Budget - (8 + SnapshotSize(screens)))]
    BY Zenon DEF Composed, TooBig
  <2> HIDE DEF screens
  <2>5. /\ Spent(m) > Budget => Composed(m) = TooBig
        /\ ~(Spent(m) > Budget) =>
               Composed(m) = [m EXCEPT !.fields[5] = Filled(@, Budget - Spent(m))]
    BY <1>2, <2>2, <2>4, Zenon DEF Spent
  <2>6. [m EXCEPT !.fields[5] = Filled(@, Budget - Spent(m))] = Snapshot(m)
    <3> DEFINE F == Filled(m.fields[5], Budget - Spent(m))
    <3>1. m = [type |-> m.type, fields |-> m.fields]
      BY DEF Sayable
    <3> HIDE DEF F
    <3>2. [m EXCEPT !.fields[5] = F] = [type |-> m.type, fields |-> [m.fields EXCEPT ![5] = F]]
      BY <3>1
    <3> QED
      BY <3>2 DEF F, Snapshot
  <2>7. Spent(m) \in Nat
    BY <2>3 DEF Spent
  <2> QED
    BY <2>1, <2>5, <2>6, <2>7
<1> QED
  BY <1>1, <1>2

\* A snapshot as it is sent can be said, and is within the budget.
LEMMA SnapshotSaid ==
    ASSUME NEW m, Sayable(m), m.type = "Attached", ~(Spent(m) > Budget)
    PROVE  /\ Sayable(Snapshot(m)) /\ Snapshot(m).type = "Attached"
           /\ Snapshot(m).fields[5] = Filled(m.fields[5], Budget - Spent(m))
           /\ Budget - Spent(m) \in Nat /\ Budget \in Nat
           /\ Len(Payload(Snapshot(m))) = 8 + SnapshotSize(Snapshot(m).fields[5])
           /\ Len(Payload(Snapshot(m))) \in Nat
           /\ Len(Payload(Snapshot(m))) <= Budget
<1> DEFINE x == m.fields
           room == Budget - Spent(m)
           F == Filled(x[5], room)
           y == [x EXCEPT ![5] = F]
           s == Snapshot(m)
<1>1. GoodStates(x[5]) /\ Spent(m) \in Nat
  BY ComposedIs
<1>2. Budget \in Nat
  BY CapAssumption
<1>3. room \in Nat
  BY <1>1, <1>2
<1>4. FitsAllField(Read["Attached"], x)
  BY Zenon DEF Sayable, FitsAllField
<1>5. /\ x = Values(x, 5)
      /\ FitsField(U64, x[1]) /\ FitsField(U16, x[2]) /\ FitsField(U16, x[3])
      /\ FitsField(U64, x[4])
  BY <1>4, AttachedIs
<1> DEFINE p == SnapshotSize(Screens(x[5]))
           q == SnapshotSize(F)
<1> HIDE DEF room
<1>6. GoodStates(F) /\ p \in Nat /\ q \in Nat /\ q <= p + room
  BY <1>1, <1>3, FilledFits
<1> HIDE DEF F, x
<1>7. /\ y = Values(y, 5) /\ y[1] = x[1] /\ y[2] = x[2] /\ y[3] = x[3] /\ y[4] = x[4] /\ y[5] = F
  BY <1>5 DEF Values
<1>8. s = [type |-> "Attached", fields |-> y]
  BY Zenon DEF Snapshot, y, F, x, room
<1> HIDE DEF y, s
<1>9. FitsAllField(Read["Attached"], y)
  BY <1>5, <1>6, <1>7, AttachedIs
<1>10. s.type = "Attached" /\ s.fields = y /\ s = [type |-> s.type, fields |-> s.fields]
  BY <1>8
<1>11. Sayable(s)
  BY <1>9, <1>10, ReadAt, Zenon DEF Sayable, FitsAllField
<1>12. Len(Payload(s)) = 8 + q
  <2>1. Len(Payload(s)) = 8 + SnapshotSize(s.fields[5])
    BY <1>10, <1>11, SnapshotSizeIs
  <2> QED
    BY <1>7, <1>10, <2>1 DEF q
<1>13. 8 + q <= Budget
  <2>1. room = Budget - (8 + p)
    BY Zenon DEF room, Spent, p, x
  <2> HIDE DEF p, q
  <2> QED
    BY <1>2, <1>3, <1>6, <2>1
<1> HIDE DEF q
<1>14. Len(Payload(s)) \in Nat /\ Len(Payload(s)) <= Budget
  BY <1>6, <1>12, <1>13
<1>15. s.fields[5] = F
  BY <1>7, <1>10
<1> QED
  BY <1>2, <1>3, <1>10, <1>11, <1>12, <1>14, <1>15 DEF s, F, x, room, q

(***************************************************************************)
(* What is asked of a sender stays what may be asked of it.                *)
(***************************************************************************)
Proper(m) == Sayable(m) \/ (m.type \in Types \ {"Attached"} /\ Encode(m) = <<>>)
Asked ==
    Len(todo) \in Nat /\ todo = Values(todo, Len(todo)) /\ \A i \in 1..Len(todo) : Proper(todo[i])

LEMMA TailIs ==
    ASSUME NEW v, Len(v) \in Nat, v = Values(v, Len(v)), v # <<>>
    PROVE  /\ Len(v) > 0 /\ Head(v) = v[1] /\ Len(Tail(v)) = Len(v) - 1
           /\ Tail(v) = Values(Tail(v), Len(v) - 1)
           /\ \A i \in 1..(Len(v) - 1) : Tail(v)[i] = v[i + 1]
<1> DEFINE n == Len(v)
           S == {v[i] : i \in 1..n}
<1>1. v \in [1..n -> S]
  BY DEF Values
<1>2. v \in Seq(S)
  BY <1>1
<1> HIDE DEF S
<1>3. n > 0 /\ Head(v) = v[1]
  BY <1>2
<1>4. Tail(v) \in Seq(S) /\ Len(Tail(v)) = n - 1 /\ \A i \in 1..Len(Tail(v)) : Tail(v)[i] = v[i + 1]
  BY <1>2, HeadTailProperties
<1>5. Tail(v) = Values(Tail(v), n - 1)
  <2> DEFINE w == Tail(v)
  <2> HIDE DEF w, n
  <2>1. w \in Seq(S) /\ Len(w) = n - 1
    BY <1>4 DEF w
  <2>2. w = Values(w, Len(w))
    BY <2>1 DEF Values
  <2> QED
    BY <2>1, <2>2 DEF w
<1> QED
  BY <1>3, <1>4, <1>5

LEMMA AskedInit == StreamInit => Asked
<1> SUFFICES ASSUME StreamInit PROVE Asked
  OBVIOUS
<1>1. /\ Len(todo) \in Nat /\ todo = [i \in 1..Len(todo) |-> todo[i]]
      /\ \A i \in DOMAIN todo :
            \/ Sayable(todo[i])
            \/ todo[i].type \in Types \ {"Attached"} /\ Encode(todo[i]) = <<>>
  BY TrafficAssumption, Zenon DEF StreamInit
<1>2. DOMAIN todo = 1..Len(todo)
  <2> DEFINE n == Len(todo)
  <2>1. todo = [i \in 1..n |-> todo[i]]
    BY <1>1
  <2> HIDE DEF n
  <2>2. DOMAIN todo = 1..n
    BY <2>1
  <2> QED
    BY <2>2 DEF n
<1>3. \A i \in 1..Len(todo) : Proper(todo[i])
  BY <1>1, <1>2, Zenon DEF Proper
<1> QED
  BY <1>1, <1>3, Zenon DEF Asked, Values

LEMMA AskedNext == Asked /\ [StreamNext]_streamVars => Asked'
<1> SUFFICES ASSUME Asked, [StreamNext]_streamVars PROVE Asked'
  OBVIOUS
<1>1. CASE todo' = Tail(todo) /\ todo # <<>>
  <2> DEFINE n == Len(todo)
             w == Tail(todo)
  <2>1. n \in Nat /\ todo = Values(todo, n) /\ \A i \in 1..n : Proper(todo[i])
    BY DEF Asked
  <2>2. /\ n > 0 /\ Len(w) = n - 1 /\ w = Values(w, n - 1)
        /\ \A i \in 1..(n - 1) : w[i] = todo[i + 1]
    BY <1>1, <2>1, TailIs
  <2> HIDE DEF n, w
  <2>3. Len(w) \in Nat /\ w = Values(w, Len(w)) /\ \A i \in 1..Len(w) : Proper(w[i])
    <3>1. \A i \in 1..(n - 1) : i + 1 \in 1..n
      BY <2>1
    <3> QED
      BY <2>1, <2>2, <3>1
  <2>4. todo' = w
    BY <1>1 DEF w
  <2> QED
    BY <2>3, <2>4 DEF Asked, Proper, Sayable, Encode, Values, FitsAll
<1>2. CASE todo' = todo
  BY <1>2 DEF Asked
<1>3. todo' = todo \/ (todo' = Tail(todo) /\ todo # <<>>)
  BY DEF StreamNext, Send, TakeFrame, Receive, streamVars
<1> QED
  BY <1>1, <1>2, <1>3

LEMMA AskedFits == Asked => SnapshotFits
<1> SUFFICES ASSUME Asked, NEW i \in DOMAIN todo, todo[i].type = "Attached",
                    Composed(todo[i]).type = "Attached"
             PROVE  LET asked == todo[i].fields[5]
                        made == Composed(todo[i]).fields[5]
                        screens ==
                            8 + SnapshotSize([t \in DOMAIN asked |-> [asked[t] EXCEPT ![25] = <<>>]])
                        size == Len(Payload(Composed(todo[i])))
                    IN /\ size = 8 + SnapshotSize(made) /\ size <= Budget
                       /\ \A t \in DOMAIN asked :
                             LET n == Len(made[t][25])
                             IN /\ made[t][25] = Newest(asked[t][25], n)
                                /\ n < Len(asked[t][25]) =>
                                      LineCost(Newest(asked[t][25], n + 1))
                                          > (Budget - screens) \div Len(asked)
  BY Zenon DEF SnapshotFits
<1> DEFINE m == todo[i]
           v == m.fields[5]
           c == Composed(m)
<1>1. i \in 1..Len(todo)
  BY DEF Asked, Values
<1>2. Sayable(m)
  BY <1>1 DEF Asked, Proper
<1> HIDE DEF m
<1>3. m.type = "Attached"
  BY DEF m
<1>4. GoodStates(v) /\ ~(Spent(m) > Budget) /\ c = Snapshot(m)
  <2>1. TooBig.type # "Attached"
    BY DEF TooBig
  <2>2. c.type = "Attached"
    BY DEF m
  <2> QED
    BY <1>2, <1>3, <2>1, <2>2, ComposedIs
<1> DEFINE room == Budget - Spent(m)
           w == c.fields[5]
<1>5. /\ w = Filled(v, room) /\ room \in Nat
      /\ Len(Payload(c)) = 8 + SnapshotSize(w) /\ Len(Payload(c)) <= Budget
  BY <1>2, <1>3, <1>4, SnapshotSaid
<1> HIDE DEF c, room, v
<1>6. \A t \in 1..Len(v) :
          /\ w[t][25] = Newest(v[t][25], Len(w[t][25]))
          /\ Len(w[t][25]) < Len(v[t][25]) =>
                LineCost(Newest(v[t][25], Len(w[t][25]) + 1)) > room \div Len(v)
  <2> HIDE DEF w
  <2> QED
    BY <1>4, <1>5, FilledFits
<1>7. DOMAIN v = 1..Len(v)
  BY <1>4 DEF GoodStates, Values
<1>8. Spent(m) = 8 + SnapshotSize([t \in DOMAIN v |-> [v[t] EXCEPT ![25] = <<>>]])
  BY <1>7, Zenon DEF Spent, Screens, With, v
<1> QED
  BY <1>5, <1>6, <1>7, <1>8, Zenon DEF m, v, c, room

\* Whatever histories the terminals of a session have, the snapshot made of it is
\* as long as was said, within what the sender holds itself to, and its
\* histories cannot be longer without taking more than an equal share of the
\* room (send_snapshot, fill_history, encoded_size).
THEOREM SnapshotsFit == StreamSpec => []SnapshotFits
<1>1. StreamSpec => []Asked
  BY AskedInit, AskedNext, PTL DEF StreamSpec
<1> QED
  BY <1>1, AskedFits, PTL

(***************************************************************************)
(* Parts of what is in flight.                                             *)
(***************************************************************************)
LEMMA Parted ==
    ASSUME NEW S, NEW b \in Seq(S), NEW a \in 0..Len(b)
    PROVE  /\ SubSeq(b, 1, a) \in Seq(S) /\ Len(SubSeq(b, 1, a)) = a
           /\ SubSeq(b, a + 1, Len(b)) \in Seq(S) /\ Len(SubSeq(b, a + 1, Len(b))) = Len(b) - a
           /\ \A k \in 1..a : SubSeq(b, 1, a)[k] = b[k]
           /\ SubSeq(b, 1, a) \o SubSeq(b, a + 1, Len(b)) = b
<1> DEFINE n == Len(b)
           p == SubSeq(b, 1, a)
           q == SubSeq(b, a + 1, n)
<1>1. n \in Nat /\ a \in Nat /\ a <= n /\ \A k \in 1..n : b[k] \in S
  OBVIOUS
<1>2. /\ p \in Seq(S) /\ Len(p) = (IF 1 <= a THEN a - 1 + 1 ELSE 0)
      /\ \A k \in 1..(a - 1 + 1) : p[k] = b[1 + k - 1]
  <2>1. 1 \in Int /\ a \in Int /\ \A k \in 1..a : b[k] \in S
    BY <1>1
  <2> HIDE DEF n
  <2> QED
    BY <2>1, SubSeqProperties
<1>3. q \in Seq(S) /\ Len(q) = (IF a + 1 <= n THEN n - (a + 1) + 1 ELSE 0)
  <2>1. a + 1 \in Int /\ n \in Int /\ \A k \in (a + 1)..n : b[k] \in S
    BY <1>1
  <2> HIDE DEF n
  <2> QED
    BY <2>1, SubSeqProperties
<1>4. p \o q = b
  <2>1. 1 \in 1..(n + 1) /\ a \in (1 - 1)..n /\ n \in a..n
    BY <1>1
  <2>2. SubSeq(b, 1, a) \o SubSeq(b, a + 1, n) = SubSeq(b, 1, n)
    BY <2>1, ConcatAdjacentSubSeq
  <2>3. SubSeq(b, 1, n) = b
    BY SubSeqFull
  <2> QED
    BY <2>2, <2>3
<1> HIDE DEF p, q, n
<1>5. Len(p) = a /\ Len(q) = n - a
  BY <1>1, <1>2, <1>3
<1>6. \A k \in 1..a : p[k] = b[k]
  <2>1. \A k \in 1..a : k \in 1..(a - 1 + 1) /\ 1 + k - 1 = k
    BY <1>1
  <2> QED
    BY <1>2, <2>1
<1> QED
  BY <1>2, <1>3, <1>4, <1>5, <1>6 DEF p, q, n

LEMMA Agreeing ==
    ASSUME NEW S, NEW a \in Seq(S), NEW b \in Seq(S), NEW e \in Seq(S), NEW r \in Seq(S), a \o b = e \o r
    PROVE  Agree(a, e)
<1>1. \A k \in 1..Len(a) : (a \o b)[k] = a[k]
  BY ConcatParts
<1>2. \A k \in 1..Len(e) : (e \o r)[k] = e[k]
  BY ConcatParts
<1>3. Len(a) \in Nat /\ Len(e) \in Nat
  OBVIOUS
<1>4. ASSUME NEW k \in 1..Len(a), k <= Len(e) PROVE a[k] = e[k]
  <2>1. k \in 1..Len(e)
    BY <1>3, <1>4
  <2> QED
    BY <1>1, <1>2, <2>1
<1> QED
  BY <1>4 DEF Agree

LEMMA Cut ==
    ASSUME NEW S, NEW a \in Seq(S), NEW b \in Seq(S), NEW e \in Seq(S), NEW r \in Seq(S), a \o b = e \o r,
           Len(a) >= Len(e)
    PROVE  SubSeq(a, Len(e) + 1, Len(a)) \o b = r
<1> DEFINE n == Len(e)
           p == SubSeq(a, 1, n)
           q == SubSeq(a, n + 1, Len(a))
<1>1. n \in Nat /\ Len(a) \in Nat /\ n \in 0..Len(a)
  OBVIOUS
<1>2. Agree(a, e)
  BY Agreeing
<1>3. p \in Seq(S) /\ Len(p) = n /\ q \in Seq(S) /\ p \o q = a /\ \A k \in 1..n : p[k] = a[k]
  BY <1>1, Parted
<1>4. p = e
  <2>1. \A k \in 1..n : a[k] = e[k]
    BY <1>1, <1>2 DEF Agree
  <2> HIDE DEF p
  <2>2. Len(p) = Len(e) /\ \A k \in 1..Len(p) : p[k] = e[k]
    BY <1>3, <2>1
  <2> QED
    BY <1>3, <2>2, SeqEqual
<1> HIDE DEF p, q
<1>5. (e \o q) \o b = e \o r
  BY <1>3, <1>4
<1>6. (e \o q) \o b = e \o (q \o b)
  <2>1. e \in Seq(S) /\ q \in Seq(S) /\ b \in Seq(S)
    BY <1>3
  <2> QED
    BY ONLY <2>1, ConcatAssociative
<1>7. q \o b \in Seq(S)
  BY <1>3, ConcatProperties
<1>8. q \o b = r
  <2> DEFINE t == q \o b
  <2>1. t \in Seq(S) /\ e \o t = e \o r
    BY <1>5, <1>6, <1>7
  <2> HIDE DEF t
  <2>2. /\ SubSeq(e \o t, Len(e) + 1, Len(e \o t)) = t
        /\ SubSeq(e \o r, Len(e) + 1, Len(e \o r)) = r
    <3>1. e \in Seq(S) /\ r \in Seq(S)
      OBVIOUS
    <3> QED
      BY <2>1, <3>1, ConcatParts, Zenon
  <2> QED
    BY <2>1, <2>2 DEF t
<1> QED
  BY <1>8 DEF q, n

LEMMA FlattenHead ==
    ASSUME NEW S, NEW n \in Nat, NEW ss \in Blocks(n + 1, S)
    PROVE  /\ ss[1] \in Seq(S) /\ [i \in 1..n |-> ss[i + 1]] \in Blocks(n, S)
           /\ FlattenSeq([i \in 1..n |-> ss[i + 1]]) \in Seq(S)
           /\ FlattenSeq(ss) = ss[1] \o FlattenSeq([i \in 1..n |-> ss[i + 1]])
<1> DEFINE After(m, uu) == [i \in 1..m |-> uu[i + 1]]
           T == {m \in Nat : \A uu \in Blocks(m + 1, S) : FlattenSeq(uu) = uu[1] \o FlattenSeq(After(m, uu))}
<1>1. \A m \in Nat : \A uu \in Blocks(m + 1, S) : uu[1] \in Seq(S) /\ After(m, uu) \in Blocks(m, S)
  BY DEF Blocks
<1>2. \A m \in Nat : \A uu \in Blocks(m, S) : FlattenSeq(uu) \in Seq(S)
  <2> TAKE m \in Nat
  <2> TAKE uu \in Blocks(m, S)
  <2>1. Flattened(m, uu, S)
    BY FlattenIs
  <2>2. m \in 0..m
    OBVIOUS
  <2> QED
    BY <2>1, <2>2 DEF Flattened
<1>3. 0 \in T
  <2> SUFFICES ASSUME NEW uu \in Blocks(0 + 1, S) PROVE FlattenSeq(uu) = uu[1] \o FlattenSeq(After(0, uu))
    OBVIOUS
  <2> DEFINE tt == After(0, uu)
             a == uu[1]
  <2>1. a \in Seq(S) /\ tt \in Blocks(0, S)
    BY <1>1
  <2> HIDE DEF After
  <2>2. FlattenSeq(uu) = FlattenSeq(tt) \o a
    <3>1. \A i \in 1..0 : tt[i] = uu[i]
      OBVIOUS
    <3> HIDE DEF tt
    <3>2. FlattenSeq(uu) = FlattenSeq(tt) \o uu[0 + 1]
      BY <2>1, <3>1, FlattenAppend
    <3> QED
      BY <3>2
  <2>3. FlattenSeq(tt) = <<>>
    <3> HIDE DEF tt
    <3>1. Flattened(0, tt, S)
      BY <2>1, FlattenIs
    <3> QED
      BY <3>1 DEF Flattened
  <2> HIDE DEF tt, a
  <2>4. <<>> \o a = a /\ a \o <<>> = a
    BY <2>1, ConcatEmptySeq
  <2> QED
    BY <2>2, <2>3, <2>4 DEF a, tt
<1>4. ASSUME NEW m \in T PROVE m + 1 \in T
  <2> SUFFICES ASSUME NEW uu \in Blocks((m + 1) + 1, S)
               PROVE  FlattenSeq(uu) = uu[1] \o FlattenSeq(After(m + 1, uu))
    OBVIOUS
  <2> DEFINE k == m + 1
             tt == [i \in 1..k |-> uu[i]]
             xx == After(k, uu)
             yy == After(m, tt)
             a == uu[1]
             z == uu[k + 1]
             f == FlattenSeq(yy)
  <2>1. m \in Nat /\ k \in Nat /\ 1 \in 1..k
    OBVIOUS
  <2>2. tt \in Blocks(k, S) /\ xx \in Blocks(k, S) /\ z \in Seq(S) /\ a \in Seq(S) /\ tt[1] = a
    BY <1>1, <2>1 DEF Blocks
  <2>3. yy \in Blocks(m, S)
    BY <1>1, <2>1, <2>2
  <2>4. FlattenSeq(uu) = FlattenSeq(tt) \o z
    <3>1. \A i \in 1..k : tt[i] = uu[i]
      OBVIOUS
    <3> HIDE DEF tt, k, z
    <3>2. FlattenSeq(uu) = FlattenSeq(tt) \o uu[k + 1]
      BY <2>1, <2>2, <3>1, FlattenAppend DEF k
    <3> QED
      BY <3>2 DEF z
  <2>5. FlattenSeq(tt) = a \o f
    <3>1. FlattenSeq(tt) = tt[1] \o FlattenSeq(After(m, tt))
      <4> HIDE DEF After, tt
      <4> QED
        BY <2>1, <2>2
    <3> QED
      BY <2>2, <3>1
  <2>6. FlattenSeq(xx) = f \o z
    <3>1. \A i \in 1..m : yy[i] = xx[i]
      OBVIOUS
    <3>2. xx[m + 1] = z
      BY <2>1
    <3> HIDE DEF xx, yy, z
    <3>3. FlattenSeq(xx) = FlattenSeq(yy) \o xx[m + 1]
      BY <2>1, <2>2, <2>3, <3>1, FlattenAppend
    <3> QED
      BY <3>2, <3>3
  <2>7. f \in Seq(S)
    BY <1>2, <2>1, <2>3
  <2> HIDE DEF a, z, f, tt, xx, yy, k
  <2>8. (a \o f) \o z = a \o (f \o z)
    BY <2>2, <2>7, ConcatAssociative
  <2>9. FlattenSeq(uu) = a \o FlattenSeq(xx)
    BY <2>4, <2>5, <2>6, <2>8
  <2> QED
    BY <2>9 DEF a, xx, k
<1>5. T = Nat
  <2> HIDE DEF T
  <2>1. T \in SUBSET Nat
    BY DEF T
  <2> QED
    BY <1>3, <1>4, <2>1, Induction
<1>6. FlattenSeq(ss) = ss[1] \o FlattenSeq(After(n, ss))
  <2> HIDE DEF After
  <2>1. n \in T
    BY <1>5
  <2> QED
    BY <2>1
<1>7. ss[1] \in Seq(S) /\ After(n, ss) \in Blocks(n, S)
  BY <1>1
<1>8. FlattenSeq(After(n, ss)) \in Seq(S)
  BY <1>2, <1>7
<1> QED
  BY <1>6, <1>7, <1>8

(***************************************************************************)
(* The frames that were sent and not read.                                 *)
(***************************************************************************)
Carried(m) == Sent(m) /\ Len(Payload(m)) + ReadBudget <= MaxSnapshot
Frames(s, k) == [i \in 1..(Len(s) - k) |-> Encode(s[k + i])]
Ahead(s, k) == FlattenSeq(Frames(s, k))
Journal(s) == Len(s) \in Nat /\ s = Values(s, Len(s)) /\ \A i \in 1..Len(s) : Carried(s[i])

LEMMA AppendIs ==
    ASSUME NEW s, Len(s) \in Nat, s = Values(s, Len(s)), NEW e
    PROVE  /\ Len(Append(s, e)) = Len(s) + 1 /\ Append(s, e) = Values(Append(s, e), Len(s) + 1)
           /\ Append(s, e)[Len(s) + 1] = e /\ \A i \in 1..Len(s) : Append(s, e)[i] = s[i]
<1> DEFINE n == Len(s)
           S == {s[i] : i \in 1..n} \union {e}
           t == Append(s, e)
<1>1. s \in Seq(S)
  <2>1. s \in [1..n -> S]
    BY DEF Values
  <2> QED
    BY <2>1
<1>2. e \in S
  OBVIOUS
<1> HIDE DEF S
<1>3. t \in Seq(S) /\ Len(t) = n + 1 /\ t[n + 1] = e /\ \A i \in 1..n : t[i] = s[i]
  BY <1>1, <1>2
<1>4. t = Values(t, n + 1)
  <2> HIDE DEF t
  <2>1. t = Values(t, Len(t))
    BY <1>3 DEF Values
  <2> QED
    BY <1>3, <2>1
<1> QED
  BY <1>3, <1>4

LEMMA JournalAppend ==
    ASSUME NEW s, Journal(s), NEW e, Carried(e)
    PROVE  Journal(Append(s, e)) /\ Len(Append(s, e)) = Len(s) + 1
<1> DEFINE n == Len(s)
           t == Append(s, e)
<1>1. n \in Nat /\ s = Values(s, n) /\ \A i \in 1..n : Carried(s[i])
  BY DEF Journal
<1>2. Len(t) = n + 1 /\ t = Values(t, n + 1) /\ t[n + 1] = e /\ \A i \in 1..n : t[i] = s[i]
  BY <1>1, AppendIs
<1> HIDE DEF n, t
<1>3. ASSUME NEW i \in 1..(n + 1) PROVE Carried(t[i])
  <2>1. i = n + 1 \/ i \in 1..n
    BY <1>1
  <2> QED
    BY <1>1, <1>2, <2>1
<1>4. n + 1 \in Nat
  BY <1>1
<1> QED
  BY <1>2, <1>3, <1>4 DEF Journal, n, t

LEMMA FramesAre ==
    ASSUME NEW s, Journal(s), NEW k \in 0..Len(s)
    PROVE  /\ Frames(s, k) \in Blocks(Len(s) - k, Byte) /\ Len(s) - k \in Nat
           /\ Ahead(s, k) \in Seq(Byte)
           /\ k = Len(s) => Ahead(s, k) = <<>>
<1> DEFINE n == Len(s) - k
           ss == Frames(s, k)
<1>1. n \in Nat /\ \A i \in 1..n : k + i \in 1..Len(s)
  BY DEF Journal
<1>2. \A i \in 1..n : Encode(s[k + i]) \in Seq(Byte)
  <2> TAKE i \in 1..n
  <2>1. Sent(s[k + i])
    BY <1>1 DEF Journal, Carried
  <2> QED
    BY <2>1, FrameIs
<1>3. ss \in Blocks(n, Byte)
  BY <1>2 DEF Blocks, Frames
<1> HIDE DEF ss
<1>4. Flattened(n, ss, Byte)
  <2> HIDE DEF n
  <2> QED
    BY <1>1, <1>3, FlattenIs
<1>5. n = 0 => FlattenSeq(ss) = <<>>
  BY <1>1, <1>4 DEF Flattened
<1>6. FlattenSeq(ss) \in Seq(Byte)
  <2>1. n \in 0..n
    BY <1>1
  <2> HIDE DEF n
  <2> QED
    BY <1>4, <2>1 DEF Flattened
<1>7. k = Len(s) => n = 0
  BY <1>1 DEF Journal
<1> QED
  BY <1>1, <1>3, <1>5, <1>6, <1>7 DEF Ahead, ss

LEMMA AheadAppend ==
    ASSUME NEW s, Journal(s), NEW k \in 0..Len(s), NEW e, Carried(e)
    PROVE  Ahead(Append(s, e), k) = Ahead(s, k) \o Encode(e)
<1> DEFINE n == Len(s)
           m == n - k
           t == Append(s, e)
           ss == Frames(t, k)
           tt == Frames(s, k)
<1>1. n \in Nat /\ m \in Nat /\ m + 1 \in Nat /\ k \in Nat /\ (n + 1) - k = m + 1 /\ k \in 0..(n + 1)
      /\ k + (m + 1) = n + 1 /\ \A i \in 1..m : k + i \in 1..n /\ i \in 1..(m + 1)
  BY DEF Journal
<1>2. Journal(t) /\ Len(t) = n + 1 /\ t[n + 1] = e /\ \A i \in 1..n : t[i] = s[i]
  BY JournalAppend, AppendIs DEF Journal
<1> HIDE DEF n, m, t
<1>3. tt \in Blocks(m, Byte)
  BY FramesAre DEF n, m
<1>4. ss \in Blocks(m + 1, Byte)
  <2>1. ss \in Blocks(Len(t) - k, Byte)
    BY <1>1, <1>2, FramesAre
  <2> QED
    BY <1>1, <1>2, <2>1
<1>5. /\ \A i \in 1..(m + 1) : ss[i] = Encode(t[k + i])
      /\ \A i \in 1..m : tt[i] = Encode(s[k + i])
  BY <1>1, <1>2 DEF Frames, n, m
<1> HIDE DEF ss, tt
<1>6. \A i \in 1..m : tt[i] = ss[i]
  BY <1>1, <1>2, <1>5
<1>7. ss[m + 1] = Encode(e)
  <2>1. m + 1 \in 1..(m + 1)
    BY <1>1
  <2> QED
    BY <1>1, <1>2, <1>5, <2>1
<1>8. FlattenSeq(ss) = FlattenSeq(tt) \o ss[m + 1]
  BY <1>1, <1>3, <1>4, <1>6, FlattenAppend
<1> QED
  BY <1>7, <1>8 DEF Ahead, ss, tt, t

LEMMA AheadHead ==
    ASSUME NEW s, Journal(s), NEW k \in Nat, k < Len(s)
    PROVE  /\ Carried(s[k + 1]) /\ Sent(s[k + 1]) /\ Encode(s[k + 1]) \in Seq(Byte)
           /\ Ahead(s, k + 1) \in Seq(Byte)
           /\ Ahead(s, k) = Encode(s[k + 1]) \o Ahead(s, k + 1)
<1> DEFINE n == Len(s)
           m == n - (k + 1)
           ss == Frames(s, k)
           tt == [i \in 1..m |-> ss[i + 1]]
<1>1. /\ n \in Nat /\ m \in Nat /\ n - k = m + 1 /\ k \in 0..n /\ k + 1 \in 0..n /\ k + 1 \in 1..n
      /\ 1 \in 1..(m + 1) /\ \A i \in 1..m : i + 1 \in 1..(m + 1) /\ k + (i + 1) = (k + 1) + i
  BY DEF Journal
<1>2. Carried(s[k + 1])
  BY <1>1 DEF Journal
<1>3. Sent(s[k + 1])
  BY <1>2 DEF Carried
<1>4. Encode(s[k + 1]) \in Seq(Byte)
  BY <1>3, FrameIs
<1>5. ss \in Blocks(m + 1, Byte) /\ Ahead(s, k + 1) \in Seq(Byte)
  BY <1>1, FramesAre
<1> HIDE DEF m
<1>6. \A i \in 1..(m + 1) : ss[i] = Encode(s[k + i])
  BY <1>1 DEF Frames
<1>7. tt = Frames(s, k + 1)
  <2>1. \A i \in 1..m : ss[i + 1] = Encode(s[(k + 1) + i])
    BY <1>1, <1>6
  <2>2. Frames(s, k + 1) = [i \in 1..m |-> Encode(s[(k + 1) + i])]
    BY DEF Frames, m
  <2> HIDE DEF ss
  <2> QED
    BY <2>1, <2>2
<1>8. ss[1] = Encode(s[k + 1])
  BY <1>1, <1>6
<1> HIDE DEF ss
<1>9. FlattenSeq(ss) = ss[1] \o FlattenSeq([i \in 1..m |-> ss[i + 1]])
  BY <1>1, <1>5, FlattenHead
<1>10. Ahead(s, k) = Encode(s[k + 1]) \o Ahead(s, k + 1)
  BY <1>7, <1>8, <1>9 DEF Ahead, ss
<1> QED
  BY <1>2, <1>3, <1>4, <1>5, <1>10

(***************************************************************************)
(* The stream.  What is held and what is in flight are together the frames  *)
(* that were sent and not read, in their order; and what is held is never   *)
(* more than the reader takes.                                              *)
(***************************************************************************)
Held == SubSeq(buffer, consumed + 1, Len(buffer))
InFlight ==
    /\ wire \in Seq(Byte) /\ buffer \in Seq(Byte) /\ consumed \in 0..Len(buffer) /\ broken = FALSE
    /\ Len(got) \in 0..Len(sent) /\ got = Values(sent, Len(got))
    /\ Held \o wire = Ahead(sent, Len(got))
Streaming == Asked /\ Journal(sent) /\ InFlight

\* What the reader makes of what it holds: nothing yet, or the next message.
Following == sent[Len(got) + 1]
Waiting ==
    /\ Result = Refusal /\ Len(Held) + ReadBudget <= 8 + MaxSnapshot
    /\ Len(Held) < Len(Encode(Following))
Complete(m) ==
    /\ Result = Delivery(m) /\ m = Following /\ Len(got) < Len(sent)
    /\ Encode(m) \in Seq(Byte) /\ Len(Encode(m)) >= 8 /\ Len(Held) >= Len(Encode(m))
    /\ SubSeq(Held, Len(Encode(m)) + 1, Len(Held)) \o wire = Ahead(sent, Len(got) + 1)
    /\ Ahead(sent, Len(got) + 1) \in Seq(Byte)

LEMMA HeldIs ==
    ASSUME Streaming
    PROVE  /\ Held \in Seq(Byte) /\ Len(Held) = Len(buffer) - consumed /\ Len(Held) \in Nat
           /\ Len(got) \in Nat /\ Len(sent) \in Nat /\ Len(buffer) \in Nat /\ consumed \in Nat
           /\ Len(wire) \in Nat
<1>1. buffer \in Seq(Byte) /\ consumed \in 0..Len(buffer) /\ Len(sent) \in Nat /\ wire \in Seq(Byte)
  BY DEF Streaming, InFlight, Journal
<1>2. Held \in Seq(Byte) /\ Len(Held) = Len(buffer) - consumed
  <2> DEFINE U == Byte
  <2>1. buffer \in Seq(U) /\ consumed \in 0..Len(buffer)
    BY <1>1
  <2> HIDE DEF U
  <2>2. Held \in Seq(U) /\ Len(Held) = Len(buffer) - consumed
    BY ONLY <2>1, Parted DEF Held
  <2> QED
    BY <2>2 DEF U
<1> QED
  BY <1>1, <1>2 DEF Streaming, InFlight

LEMMA NothingLeft ==
    ASSUME Streaming, Len(got) = Len(sent)
    PROVE  Held = <<>> /\ wire = <<>> /\ Result = Refusal
<1> DEFINE U == Byte
<1>1. Held \in Seq(U) /\ wire \in Seq(U)
  BY HeldIs DEF Streaming, InFlight
<1>2. Held \o wire = <<>>
  BY HeldIs, FramesAre DEF Streaming, InFlight
<1> HIDE DEF U
<1>3. Held = <<>> /\ wire = <<>>
  BY ONLY <1>1, <1>2, ConcatEqualIffEmpty
<1>4. Result = Decode(Held)
  BY Zenon DEF Result, Held
<1>5. Len(Held) < 8
  BY <1>3
<1> QED
  BY <1>3, <1>4, <1>5, DecodeShort

LEMMA ResultIs ==
    ASSUME Streaming, Len(got) < Len(sent)
    PROVE  Complete(Following) \/ Waiting
<1> DEFINE m == Following
           k == Len(got)
           E == Encode(m)
           r == Ahead(sent, k + 1)
           U == Byte
<1>1. k \in Nat /\ k < Len(sent) /\ Journal(sent)
  BY HeldIs DEF Streaming
<1>2. Carried(m) /\ Sent(m) /\ E \in Seq(Byte) /\ r \in Seq(Byte) /\ Ahead(sent, k) = E \o r
  BY <1>1, AheadHead DEF Following
<1>3. Held \in Seq(Byte) /\ wire \in Seq(Byte) /\ Held \o wire = E \o r
  BY <1>2, HeldIs DEF Streaming, InFlight
<1>4. Held \in Seq(U) /\ wire \in Seq(U) /\ E \in Seq(U) /\ r \in Seq(U)
  BY <1>2, <1>3
<1>5. Len(Held) \in Nat /\ Len(E) \in Nat /\ Len(E) = 8 + Len(Payload(m)) /\ Len(Payload(m)) \in Nat
  <2>1. Len(E) = 8 + Len(Payload(m)) /\ Payload(m) \in Seq(Byte)
    BY <1>2, FrameIs
  <2>2. Len(Held) \in Nat
    BY HeldIs
  <2> QED
    BY <1>2, <2>1, <2>2
<1>6. Result = Decode(Held)
  BY Zenon DEF Result, Held
<1> HIDE DEF m, k, E, r, U
<1>7. Agree(Held, E)
  BY ONLY <1>3, <1>4, Agreeing
<1>8. /\ Len(Held) < Len(E) => Decode(Held) = Refusal
      /\ Len(Held) >= Len(E) => Decode(Held) = Delivery(m)
  BY <1>2, <1>3, <1>7, DecodeFrame DEF E
<1>9. ReadBudget \in Nat /\ MaxSnapshot \in Nat /\ Len(Payload(m)) + ReadBudget <= MaxSnapshot
  BY <1>2, CapAssumption, RoomAssumption DEF Carried
<1>10. CASE Len(Held) >= Len(E)
  <2>1. SubSeq(Held, Len(E) + 1, Len(Held)) \o wire = r
    BY ONLY <1>3, <1>4, <1>10, Cut
  <2>2. Result = Delivery(m)
    BY <1>6, <1>8, <1>10
  <2>3. Len(E) >= 8
    BY <1>5
  <2>4. Complete(m)
    BY <1>1, <1>2, <1>10, <2>1, <2>2, <2>3, Zenon DEF Complete, m, k, E, r
  <2> QED
    BY <2>4 DEF m
<1>11. CASE Len(Held) < Len(E)
  <2>1. Result = Refusal
    BY <1>6, <1>8, <1>11
  <2>2. Len(Held) + ReadBudget <= 8 + MaxSnapshot
    BY <1>5, <1>9, <1>11
  <2> QED
    BY <1>11, <2>1, <2>2, Zenon DEF Waiting, m, E
<1> QED
  BY <1>5, <1>10, <1>11

LEMMA StreamingInit == StreamInit => Streaming
<1> SUFFICES ASSUME StreamInit PROVE Streaming
  OBVIOUS
<1>1. /\ sent = <<>> /\ wire = <<>> /\ buffer = <<>> /\ consumed = 0 /\ got = <<>>
      /\ broken = FALSE
  BY DEF StreamInit
<1>2. Journal(sent)
  BY <1>1 DEF Journal, Values
<1>3. 0 \in 0..Len(sent) /\ Len(sent) = 0
  BY <1>1
<1>4. Ahead(sent, 0) = <<>>
  BY <1>2, <1>3, FramesAre
<1>5. /\ wire \in Seq(Byte) /\ buffer \in Seq(Byte) /\ consumed \in 0..Len(buffer)
      /\ Len(got) = 0 /\ got = Values(sent, 0)
  BY <1>1 DEF Values
<1>6. Held = <<>> /\ Held \o wire = <<>>
  <2>1. Held = SubSeq(<<>>, 1, 0)
    BY <1>1 DEF Held
  <2>2. Held = <<>>
    BY <2>1, SubSeqEmpty
  <2> QED
    BY <1>1, <2>2
<1>7. InFlight
  BY <1>1, <1>3, <1>4, <1>5, <1>6 DEF InFlight
<1> QED
  BY <1>2, <1>7, AskedInit DEF Streaming

\* What is sent for a message that may be asked is a frame a reader can hold,
\* or none.
LEMMA ComposedCarried ==
    ASSUME NEW m, Proper(m), Encode(Composed(m)) # <<>>
    PROVE  Carried(Composed(m))
<1> DEFINE c == Composed(m)
<1>1. Sayable(m)
  <2>1. CASE m.type \in Types \ {"Attached"} /\ Encode(m) = <<>>
    <3>1. Composed(m) = m
      BY <2>1, Zenon DEF Composed
    <3> QED
      BY <2>1, <3>1
  <2> QED
    BY <2>1 DEF Proper
<1>2. /\ MaxPayload \in Nat /\ MaxChunk \in Nat /\ MaxSnapshot \in Nat /\ ReadBudget \in Nat
      /\ Budget \in Nat /\ MaxPayload + ReadBudget <= MaxSnapshot
      /\ (MaxChunk + 64) + ReadBudget <= MaxSnapshot /\ Budget + ReadBudget <= MaxSnapshot
  BY CapAssumption, RoomAssumption
<1>3. ASSUME Sayable(c), c.type # "Attached" PROVE Carried(c)
  <2>1. Sent(c)
    BY <1>3 DEF Sent
  <2>2. Len(Payload(c)) <= PayloadCap(c.type) /\ Payload(c) \in Seq(Byte)
    BY <2>1, FrameIs
  <2>3. PayloadCap(c.type) = MaxPayload \/ PayloadCap(c.type) = MaxChunk + 64
    BY <1>3 DEF PayloadCap
  <2> HIDE DEF c
  <2>4. Len(Payload(c)) \in Nat
    BY <2>2
  <2>5. Len(Payload(c)) + ReadBudget <= MaxSnapshot
    BY <1>2, <2>2, <2>3, <2>4
  <2> QED
    BY <2>1, <2>5 DEF Carried, c
<1>4. CASE m.type # "Attached"
  <2>1. c = m
    BY <1>1, <1>4, ComposedIs
  <2> QED
    BY <1>1, <1>3, <1>4, <2>1
<1>5. CASE m.type = "Attached" /\ Spent(m) > Budget
  <2>1. c = TooBig
    BY <1>1, <1>5, ComposedIs
  <2>2. TooBig.type # "Attached"
    BY DEF TooBig
  <2> QED
    BY <1>3, <2>1, <2>2, TooBigSaid
<1>6. CASE m.type = "Attached" /\ ~(Spent(m) > Budget)
  <2>1. c = Snapshot(m)
    BY <1>1, <1>6, ComposedIs
  <2>2. Sayable(Snapshot(m)) /\ Len(Payload(Snapshot(m))) \in Nat /\ Len(Payload(Snapshot(m))) <= Budget
    BY <1>1, <1>6, SnapshotSaid
  <2>3. Sayable(c) /\ Len(Payload(c)) \in Nat /\ Len(Payload(c)) <= Budget
    BY <2>1, <2>2
  <2>4. Sent(c)
    BY <2>3 DEF Sent
  <2> HIDE DEF c
  <2>5. Len(Payload(c)) + ReadBudget <= MaxSnapshot
    BY <1>2, <2>3
  <2> QED
    BY <2>4, <2>5 DEF Carried, c
<1> QED
  BY <1>4, <1>5, <1>6

LEMMA StreamingSend == Streaming /\ Send => Journal(sent)' /\ InFlight'
<1> SUFFICES ASSUME Streaming, Send PROVE Journal(sent)' /\ InFlight'
  OBVIOUS
<1> DEFINE m == Composed(Head(todo))
           e == Encode(m)
           k == Len(got)
           U == Byte
<1>1. /\ todo # <<>> /\ wire' = wire \o e
      /\ sent' = IF e = <<>> THEN sent ELSE Append(sent, m)
      /\ buffer' = buffer /\ consumed' = consumed /\ got' = got /\ broken' = broken
  BY Zenon DEF Send
<1>2. Proper(Head(todo))
  <2>1. Len(todo) > 0 /\ Head(todo) = todo[1] /\ Len(todo) \in Nat
    BY <1>1, TailIs DEF Streaming, Asked
  <2> QED
    BY <2>1 DEF Streaming, Asked
<1>3. /\ wire \in Seq(Byte) /\ buffer \in Seq(Byte) /\ consumed \in 0..Len(buffer) /\ broken = FALSE
      /\ k \in 0..Len(sent) /\ got = Values(sent, k) /\ Held \o wire = Ahead(sent, k)
      /\ Journal(sent) /\ Held \in Seq(Byte) /\ Held' = Held
  BY <1>1, HeldIs DEF Streaming, InFlight, Held
<1>4. CASE e = <<>>
  <2>1. wire' = wire /\ sent' = sent
    BY <1>1, <1>3, <1>4, ConcatEmptySeq
  <2>2. InFlight'
    BY <1>1, <1>3, <2>1 DEF InFlight, Values, Ahead, Frames
  <2> QED
    BY <1>3, <2>1, <2>2
<1>5. CASE e # <<>>
  <2>1. Carried(m) /\ sent' = Append(sent, m)
    BY <1>1, <1>2, <1>5, ComposedCarried
  <2>2. e \in Seq(Byte)
    BY <2>1, FrameIs DEF Carried
  <2>3. Ahead(sent', k) = Ahead(sent, k) \o e
    BY <1>3, <2>1, AheadAppend
  <2>4. wire \in Seq(U) /\ Held \in Seq(U) /\ e \in Seq(U)
    BY <1>3, <2>2
  <2> HIDE DEF e, U, m
  <2>5. wire \o e \in Seq(U) /\ Held \o (wire \o e) = (Held \o wire) \o e
    BY ONLY <2>4, ConcatAssociative, ConcatProperties
  <2>6. Journal(sent') /\ Len(sent') = Len(sent) + 1 /\ \A i \in 1..Len(sent) : sent'[i] = sent[i]
    BY <1>3, <2>1, JournalAppend, AppendIs DEF Journal
  <2>7. k \in 0..Len(sent') /\ got = Values(sent', k)
    <3>1. Len(sent) \in Nat /\ \A i \in 1..k : i \in 1..Len(sent)
      BY <1>3 DEF Journal
    <3> QED
      BY <1>3, <2>6, <3>1 DEF Values
  <2>8. InFlight'
    <3>1. wire' \in Seq(Byte) /\ Held' \o wire' = Ahead(sent', k)
      BY <1>1, <1>3, <2>3, <2>5 DEF U
    <3> QED
      BY <1>1, <1>3, <2>7, <3>1 DEF InFlight
  <2>9. Journal(sent)'
    BY <2>6
  <2> QED
    BY <2>8, <2>9
<1> QED
  BY <1>4, <1>5

LEMMA SecondPart ==
    ASSUME NEW S, NEW b \in Seq(S), NEW a \in 0..Len(b), NEW i \in 1..(Len(b) - a)
    PROVE  SubSeq(b, a + 1, Len(b))[i] = b[a + i]
<1> DEFINE n == Len(b)
<1>1. n \in Nat /\ a \in Nat /\ a <= n /\ i \in Nat /\ i >= 1 /\ i <= n - a
  OBVIOUS
<1>2. a + 1 \in Int /\ n \in Int /\ \A k \in (a + 1)..n : b[k] \in S
  BY <1>1
<1> HIDE DEF n
<1>3. \A k \in 1..(n - (a + 1) + 1) : SubSeq(b, a + 1, n)[k] = b[a + 1 + k - 1]
  BY <1>2, SubSeqProperties
<1>4. i \in 1..(n - (a + 1) + 1) /\ a + 1 + i - 1 = a + i
  BY <1>1
<1> QED
  BY <1>3, <1>4 DEF n

LEMMA StreamingReceive ==
    ASSUME Streaming, NEW n \in Reads \union {AllThere}, n > 0, Receive(n)
    PROVE  Journal(sent)' /\ InFlight'
<1> DEFINE k == Len(got)
           a == SubSeq(wire, 1, n)
           b == SubSeq(wire, n + 1, Len(wire))
           held == Held \o a
           U == Byte
<1>1. /\ ~broken /\ n <= Len(wire) /\ Result.error = "Incomplete" /\ wire' = b /\ consumed' = 0
      /\ IF Len(held) > 8 + MaxSnapshot THEN broken' = TRUE /\ buffer' = Held
         ELSE buffer' = held /\ broken' = broken
      /\ sent' = sent /\ got' = got
  BY Zenon DEF Receive, Compacted, Held, Header
<1>2. /\ wire \in Seq(Byte) /\ broken = FALSE /\ k \in 0..Len(sent) /\ got = Values(sent, k)
      /\ Held \o wire = Ahead(sent, k) /\ Journal(sent) /\ Held \in Seq(Byte)
      /\ Len(Held) \in Nat /\ Len(wire) \in Nat /\ k \in Nat /\ Len(sent) \in Nat
  BY HeldIs DEF Streaming, InFlight
<1>3. n \in Nat /\ n <= ReadBudget /\ ReadBudget \in Nat /\ n \in 0..Len(wire)
  <2>1. Reads \subseteq 1..ReadBudget /\ ReadBudget \in Nat
    BY RoomAssumption
  <2>2. AllThere \in Nat /\ AllThere <= ReadBudget
    BY <1>2, <2>1 DEF AllThere
  <2>3. n \in Nat /\ n <= ReadBudget
    BY <2>1, <2>2
  <2> QED
    BY <1>1, <1>2, <2>1, <2>3
<1>4. k < Len(sent)
  <2>1. CASE k = Len(sent)
    <3>1. wire = <<>>
      BY <2>1, NothingLeft
    <3> QED
      BY <1>1, <1>3, <3>1
  <2> QED
    BY <1>2, <2>1
<1>5. Waiting
  <2>1. CASE Complete(Following)
    <3>1. Result.error = "None"
      BY <2>1 DEF Complete, Delivery
    <3> QED
      BY <1>1, <3>1
  <2> QED
    BY <1>4, <2>1, ResultIs
<1>6. wire \in Seq(U) /\ Held \in Seq(U) /\ n \in 0..Len(wire)
  BY <1>2, <1>3
<1> HIDE DEF U
<1>7. /\ a \in Seq(U) /\ Len(a) = n /\ b \in Seq(U) /\ a \o b = wire
  BY ONLY <1>6, Parted
<1> HIDE DEF a, b
<1>8. /\ held \in Seq(U) /\ Len(held) = Len(Held) + Len(a)
      /\ held \o b = Held \o (a \o b)
  <2>1. Held \in Seq(U) /\ a \in Seq(U) /\ b \in Seq(U)
    BY <1>6, <1>7
  <2>2. Held \o a \in Seq(U) /\ Len(Held \o a) = Len(Held) + Len(a)
    BY ONLY <2>1, ConcatProperties
  <2>3. (Held \o a) \o b = Held \o (a \o b)
    BY ONLY <2>1, ConcatAssociative
  <2> QED
    BY <2>2, <2>3
<1> HIDE DEF held
<1>9. buffer' = held /\ broken' = FALSE
  <2>1. Len(Held) + ReadBudget <= 8 + MaxSnapshot /\ MaxSnapshot \in Nat
    BY <1>5, CapAssumption DEF Waiting
  <2>2. ~(Len(held) > 8 + MaxSnapshot)
    BY <1>2, <1>3, <1>7, <1>8, <2>1
  <2> QED
    BY <1>1, <1>2, <2>2
<1>10. Held' = held
  <2>1. SubSeq(held, 1, Len(held)) = held
    BY ONLY <1>8, SubSeqFull
  <2>2. Held' = SubSeq(held, 0 + 1, Len(held))
    BY <1>1, <1>9 DEF Held
  <2> QED
    BY <2>1, <2>2
<1>11. InFlight'
  <2>1. wire' \in Seq(Byte) /\ buffer' \in Seq(Byte) /\ consumed' = 0 /\ 0 \in 0..Len(held)
    BY <1>1, <1>7, <1>8, <1>9 DEF U
  <2>2. Held' \o wire' = Ahead(sent, k)
    BY <1>1, <1>2, <1>7, <1>8, <1>10
  <2> QED
    BY <1>1, <1>2, <1>9, <2>1, <2>2 DEF InFlight, Values, Ahead, Frames
<1> QED
  BY <1>1, <1>2, <1>11 DEF Journal, Values, Carried, Sent, Sayable

LEMMA StreamingTake == Streaming /\ TakeFrame => Journal(sent)' /\ InFlight'
<1> SUFFICES ASSUME Streaming, TakeFrame PROVE Journal(sent)' /\ InFlight'
  OBVIOUS
<1> DEFINE k == Len(got)
           m == Following
           e == Encode(m)
           c == Len(e)
           end == consumed + c
           L == Len(buffer)
           U == Byte
<1>1. /\ ~broken /\ Result.error # "Incomplete"
      /\ sent' = sent /\ wire' = wire
      /\ IF Result.error # "None"
           THEN broken' = TRUE
           ELSE /\ got' = Append(got, Result.message)
                /\ IF consumed + Result.consumed = L THEN buffer' = <<>> /\ consumed' = 0
                   ELSE consumed' = consumed + Result.consumed /\ buffer' = buffer
                /\ broken' = broken
  BY Zenon DEF TakeFrame
<1>2. /\ wire \in Seq(Byte) /\ buffer \in Seq(Byte) /\ consumed \in 0..L /\ broken = FALSE
      /\ k \in 0..Len(sent) /\ got = Values(sent, k) /\ Journal(sent) /\ Held \in Seq(Byte)
      /\ Len(Held) = L - consumed /\ Len(Held) \in Nat /\ k \in Nat /\ Len(sent) \in Nat /\ L \in Nat
      /\ consumed \in Nat
  BY HeldIs DEF Streaming, InFlight
<1>3. Complete(m)
  <2>1. Refusal.error = "Incomplete"
    BY DEF Refusal, Refused
  <2>2. k < Len(sent)
    <3>1. CASE k = Len(sent)
      BY <1>1, <2>1, <3>1, NothingLeft
    <3> QED
      BY <1>2, <3>1
  <2>3. ~Waiting
    BY <1>1, <2>1 DEF Waiting
  <2> QED
    BY <2>2, <2>3, ResultIs
<1>4. /\ Result.error = "None" /\ Result.consumed = c /\ Result.message = m
      /\ k < Len(sent) /\ e \in Seq(Byte) /\ c \in Nat /\ c >= 8 /\ Len(Held) >= c
      /\ SubSeq(Held, c + 1, Len(Held)) \o wire = Ahead(sent, k + 1) /\ m = sent[k + 1]
  BY <1>3 DEF Complete, Delivery, Following
<1>5. /\ got' = Append(got, m) /\ broken' = FALSE
      /\ IF end = L THEN buffer' = <<>> /\ consumed' = 0 ELSE consumed' = end /\ buffer' = buffer
  BY <1>1, <1>2, <1>4
<1>6. got' = Values(sent, k + 1) /\ Len(got') = k + 1 /\ k + 1 \in 0..Len(sent)
  <2>1. got' = Values(sent, k + 1)
    BY <1>2, <1>4, <1>5, ValuesAppend
  <2>2. Len(got) \in Nat /\ got = Values(got, Len(got))
    BY <1>2 DEF Values
  <2>3. Len(Append(got, m)) = Len(got) + 1
    BY <2>2, AppendIs
  <2> QED
    BY <1>2, <1>4, <1>5, <2>1, <2>3
<1>7. buffer \in Seq(U) /\ Held \in Seq(U) /\ wire \in Seq(U)
  BY <1>2
<1> HIDE DEF m, e, c, L, U
<1>8. Held' = SubSeq(Held, c + 1, Len(Held)) /\ buffer' \in Seq(Byte) /\ consumed' \in 0..Len(buffer')
  <2>1. CASE end = L
    <3>1. Len(Held) = c
      BY <1>2, <1>4, <2>1
    <3>2. SubSeq(Held, c + 1, Len(Held)) = <<>>
      <4> DEFINE q == SubSeq(Held, c + 1, Len(Held))
      <4>1. c \in 0..Len(Held)
        BY <1>2, <1>4
      <4>2. q \in Seq(U) /\ Len(q) = Len(Held) - c
        BY ONLY <1>7, <4>1, Parted
      <4> HIDE DEF q
      <4>3. Len(q) = 0
        BY <1>2, <3>1, <4>2
      <4>4. q = <<>>
        BY <4>2, <4>3
      <4> QED
        BY <4>4 DEF q
    <3>3. buffer' = <<>> /\ consumed' = 0
      BY <1>5, <2>1
    <3>4. Held' = SubSeq(<<>>, 0 + 1, 0)
      BY <3>3 DEF Held
    <3>5. Held' = <<>>
      BY <3>4, SubSeqEmpty
    <3>6. <<>> \in Seq(Byte) /\ 0 \in 0..Len(<<>>)
      OBVIOUS
    <3> QED
      BY <3>2, <3>3, <3>5, <3>6
  <2>2. CASE end # L
    <3>1. buffer' = buffer /\ consumed' = end /\ end \in 0..L /\ end \in Nat
      BY <1>2, <1>4, <1>5, <2>2
    <3>2. Held' = SubSeq(buffer, end + 1, L)
      BY <3>1 DEF Held, L
    <3>3. SubSeq(buffer, end + 1, L) = SubSeq(Held, c + 1, Len(Held))
      <4> DEFINE p == SubSeq(buffer, end + 1, L)
                 q == SubSeq(Held, c + 1, Len(Held))
      <4>1. /\ c \in 0..Len(Held) /\ consumed \in 0..L /\ end \in 0..L
            /\ Len(Held) = L - consumed
        BY <1>2, <1>4, <3>1
      <4>2. /\ p \in Seq(U) /\ Len(p) = L - end
            /\ q \in Seq(U) /\ Len(q) = Len(Held) - c
        BY ONLY <1>7, <4>1, Parted DEF L
      <4>3. \A i \in 1..Len(q) : q[i] = p[i]
        <5> TAKE i \in 1..Len(q)
        <5>1. i \in Nat /\ i >= 1 /\ i <= Len(Held) - c /\ i <= L - end
          BY <1>2, <1>4, <4>1, <4>2
        <5>2. q[i] = Held[c + i]
          BY ONLY <1>7, <4>1, <4>2, SecondPart
        <5>3. Held[c + i] = buffer[consumed + (c + i)]
          <6>1. c + i \in 1..(L - consumed)
            BY <1>2, <1>4, <4>1, <5>1
          <6> QED
            BY ONLY <1>7, <4>1, <6>1, SecondPart DEF Held, L
        <5>4. p[i] = buffer[end + i]
          <6>1. i \in 1..(L - end)
            BY <1>2, <1>4, <4>1, <5>1
          <6> QED
            BY ONLY <1>7, <4>1, <6>1, SecondPart DEF L
        <5>5. consumed + (c + i) = end + i
          BY <1>2, <1>4, <5>1
        <5> QED
          BY <5>2, <5>3, <5>4, <5>5
      <4> HIDE DEF p, q
      <4>4. Len(q) = Len(p)
        BY <1>2, <1>4, <4>1, <4>2
      <4>5. p = q
        BY <4>2, <4>3, <4>4, SeqEqual
      <4> QED
        BY <4>5 DEF p, q
    <3>4. buffer' \in Seq(Byte) /\ consumed' \in 0..Len(buffer')
      BY <1>2, <3>1 DEF L
    <3> QED
      BY <3>2, <3>3, <3>4
  <2> QED
    BY <2>1, <2>2
<1>9. InFlight'
  <2>1. Held' \o wire' = Ahead(sent, k + 1) /\ wire' \in Seq(Byte)
    BY <1>1, <1>2, <1>4, <1>8
  <2>2. Len(got') = k + 1 /\ got' = Values(sent, Len(got')) /\ Len(got') \in 0..Len(sent)
    BY <1>6
  <2> HIDE DEF k
  <2>3. Held' \o wire' = Ahead(sent', Len(got')) /\ got' = Values(sent', Len(got'))
    BY <1>1, <2>1, <2>2
  <2> QED
    BY <1>1, <1>5, <1>8, <2>1, <2>2, <2>3 DEF InFlight, Values, Ahead, Frames
<1> QED
  BY <1>1, <1>2, <1>9 DEF Journal, Values, Carried, Sent, Sayable

LEMMA StreamingNext == Streaming /\ [StreamNext]_streamVars => Streaming'
<1> SUFFICES ASSUME Streaming, [StreamNext]_streamVars PROVE Streaming'
  OBVIOUS
<1>1. Asked'
  BY AskedNext DEF Streaming
<1>2. Journal(sent)' /\ InFlight'
  <2>1. CASE Send
    BY <2>1, StreamingSend
  <2>2. CASE TakeFrame
    BY <2>2, StreamingTake
  <2>3. ASSUME NEW n \in Reads \union {AllThere}, n > 0, Receive(n) PROVE Journal(sent)' /\ InFlight'
    BY <2>3, StreamingReceive
  <2>4. CASE UNCHANGED streamVars
    <3>1. /\ sent' = sent /\ wire' = wire /\ buffer' = buffer /\ consumed' = consumed
          /\ got' = got /\ broken' = broken
      BY <2>4 DEF streamVars
    <3> QED
      BY <3>1 DEF Streaming, Journal, Values, Carried, Sent, Sayable, InFlight, Held, Ahead, Frames
  <2> QED
    BY <2>1, <2>2, <2>3, <2>4 DEF StreamNext
<1> QED
  BY <1>1, <1>2 DEF Streaming

LEMMA StreamingDelivers == Streaming => DeliveredInOrder
<1> SUFFICES ASSUME Streaming PROVE DeliveredInOrder
  OBVIOUS
<1> DEFINE k == Len(got)
<1>1. /\ broken = FALSE /\ k \in 0..Len(sent) /\ got = Values(sent, k) /\ Journal(sent)
      /\ Len(sent) \in Nat /\ k \in Nat /\ Held \in Seq(Byte) /\ Len(Held) = Len(buffer) - consumed
      /\ Len(buffer) \in Nat /\ consumed \in Nat /\ sent = Values(sent, Len(sent))
      /\ Held \o wire = Ahead(sent, k)
  BY HeldIs DEF Streaming, InFlight, Journal
<1>2. IsPrefix(got, sent)
  <2> DEFINE S == {sent[i] : i \in 1..Len(sent)}
             n == Len(sent)
             p == SubSeq(sent, 1, k)
             U == S
  <2>1. sent \in Seq(S) /\ n \in Nat
    <3>1. sent \in [1..n -> S]
      BY <1>1 DEF Values
    <3>2. Len(sent) \in Nat
      BY <1>1
    <3> HIDE DEF S
    <3> QED
      BY ONLY <3>1, <3>2
  <2>2. got \in Seq(S)
    <3>1. \A i \in 1..k : sent[i] \in S
      BY <1>1
    <3> HIDE DEF S, k
    <3>2. Values(sent, k) \in [1..k -> S]
      BY <3>1 DEF Values
    <3> QED
      BY <1>1, <3>2
  <2>3. k \in 0..n
    BY <1>1
  <2> HIDE DEF S, U
  <2>4. p \in Seq(S) /\ Len(p) = k /\ \A i \in 1..k : p[i] = sent[i]
    BY ONLY <2>1, <2>3, Parted
  <2>5. SubSeq(got, 1, k) = got
    BY ONLY <2>2, SubSeqFull
  <2>6. \A i \in 1..k : got[i] = sent[i]
    <3> HIDE DEF k
    <3> QED
      BY <1>1 DEF Values
  <2> HIDE DEF p
  <2>7. got = p
    <3>1. \A i \in 1..Len(got) : got[i] = p[i]
      BY <2>4, <2>6
    <3> QED
      BY <2>2, <2>4, <3>1, SeqEqual
  <2>8. k <= n
    BY <2>1, <2>3
  <2> QED
    BY <2>5, <2>7, <2>8, Zenon DEF IsPrefix, p
<1>3. ASSUME wire = <<>>, Result.error = "Incomplete" PROVE got = sent /\ consumed = Len(buffer)
  <2>1. k = Len(sent)
    <3> SUFFICES ASSUME k < Len(sent) PROVE FALSE
      BY <1>1
    <3> DEFINE e == Encode(Following)
               r == Ahead(sent, k + 1)
    <3>1. Following = sent[k + 1] /\ e \in Seq(Byte) /\ r \in Seq(Byte) /\ Held \o wire = e \o r
      BY <1>1, AheadHead DEF Following
    <3>2. ~Complete(Following)
      BY <1>3 DEF Complete, Delivery
    <3>3. Len(Held) < Len(e)
      BY <3>2, ResultIs DEF Waiting
    <3> HIDE DEF e, r
    <3>4. Held \o wire = Held
      BY <1>1, <1>3, ConcatEmptySeq
    <3>5. Len(e \o r) = Len(e) + Len(r) /\ Len(e) \in Nat /\ Len(r) \in Nat
      BY <3>1, ConcatProperties
    <3>6. Len(Held) = Len(e) + Len(r) /\ Len(Held) \in Nat
      BY <1>1, <3>1, <3>4, <3>5
    <3> QED
      BY <3>3, <3>5, <3>6
  <2>2. Held = <<>>
    BY <2>1, NothingLeft
  <2>3. Len(buffer) - consumed = 0
    BY <1>1, <2>2
  <2> QED
    BY <1>1, <2>1, <2>3
<1> QED
  BY <1>1, <1>2, <1>3 DEF DeliveredInOrder

\* Between two ends of one build no connection is lost to what is sent, and the
\* reader has read a prefix of what was sent, and all of it when nothing is in
\* flight, whatever the messages are, however long, and however the reads of the
\* socket cut the stream up (encode_frame, decode_frame, FrameReader).
THEOREM Delivered == StreamSpec => []DeliveredInOrder
<1>1. StreamSpec => []Streaming
  BY StreamingInit, StreamingNext, PTL DEF StreamSpec
<1> QED
  BY <1>1, StreamingDelivers, PTL
==============================================================================
