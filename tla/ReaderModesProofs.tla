-------------------------- MODULE ReaderModesProofs --------------------------
(***************************************************************************)
(* Safety of ReaderModes for every number of clients and of things they    *)
(* do: types, and that whoever has read what was sent to it knows whether  *)
(* it is in the session.                                                   *)
(***************************************************************************)
EXTENDS ReaderModes, TLAPS, SequenceTheorems

Turns == {"Attached", "Detached"}
TurnsIn(q) == {i \in DOMAIN q : q[i].type \in Turns}
\* What the answers in q make of a client that is in a session, or is not.
After(q, in) ==
    IF TurnsIn(q) = {} THEN in
    ELSE \E i \in TurnsIn(q) : (\A j \in TurnsIn(q) : j <= i) /\ q[i].type = "Attached"
AfterHead(m, in) == IF m.type \in Turns THEN m.type = "Attached" ELSE in

IInv == /\ TypeOK
        /\ \A c \in Clients : After(down[c], app[c].attached) <=> reader[c].attached

(***************************************************************************)
(* Answers are read from the front and added at the end.                   *)
(***************************************************************************)
LEMMA AfterAppend ==
    ASSUME NEW q \in Seq(Answers), NEW m \in Answers, NEW in \in BOOLEAN
    PROVE  After(Append(q, m), in) <=> AfterHead(m, After(q, in))
<1> DEFINE r == Append(q, m)
           n == Len(q) + 1
<1>1. /\ n \in Nat \ {0} /\ DOMAIN r = 1..n /\ DOMAIN q = 1..(n - 1) /\ r[n] = m
      /\ \A i \in DOMAIN q : r[i] = q[i]
  BY LenProperties
<1> HIDE DEF r, n
<1>2. CASE m.type \in Turns
  <2>1. n \in TurnsIn(r) /\ \A j \in TurnsIn(r) : j <= n
    BY <1>1, <1>2 DEF TurnsIn
  <2>2. \A i \in TurnsIn(r) : (\A j \in TurnsIn(r) : j <= i) => i = n
    BY <1>1, <2>1 DEF TurnsIn
  <2>3. After(r, in) <=> m.type = "Attached"
    BY <1>1, <2>1, <2>2 DEF After
  <2> QED
    BY <1>2, <2>3 DEF AfterHead, r
<1>3. CASE m.type \notin Turns
  <2>1. TurnsIn(r) = TurnsIn(q)
    BY <1>1, <1>3 DEF TurnsIn
  <2>2. \A i \in TurnsIn(q) : r[i] = q[i]
    BY <1>1 DEF TurnsIn
  <2>3. After(r, in) <=> After(q, in)
    BY <2>1, <2>2 DEF After
  <2> QED
    BY <1>3, <2>3 DEF AfterHead, r
<1> QED
  BY <1>2, <1>3

LEMMA AfterTail ==
    ASSUME NEW q \in Seq(Answers), q # <<>>, NEW in \in BOOLEAN
    PROVE  After(q, in) <=> After(Tail(q), AfterHead(Head(q), in))
<1> DEFINE r == Tail(q)
           n == Len(q)
<1>1. /\ n \in Nat \ {0} /\ DOMAIN q = 1..n /\ DOMAIN r = 1..(n - 1) /\ Head(q) = q[1]
      /\ \A i \in 1..(n - 1) : r[i] = q[i + 1]
  BY EmptySeq, LenProperties, HeadTailProperties
<1> HIDE DEF r, n
<1>2. \A i \in 1..(n - 1) : i \in TurnsIn(r) <=> i + 1 \in TurnsIn(q)
  BY <1>1 DEF TurnsIn
<1>3. CASE TurnsIn(r) = {}
  <2>1. \A i \in TurnsIn(q) : i = 1
    <3> SUFFICES ASSUME NEW i \in TurnsIn(q), i # 1 PROVE FALSE
      OBVIOUS
    <3>1. i - 1 \in 1..(n - 1) /\ (i - 1) + 1 = i
      BY <1>1 DEF TurnsIn
    <3> QED
      BY <1>2, <1>3, <3>1
  <2>2. 1 \in TurnsIn(q) <=> Head(q).type \in Turns
    BY <1>1 DEF TurnsIn
  <2>3. After(q, in) <=> AfterHead(Head(q), in)
    BY <1>1, <2>1, <2>2 DEF After, AfterHead
  <2> QED
    BY <1>3, <2>3 DEF After, r
<1>4. CASE TurnsIn(r) # {}
  <2>1. TurnsIn(r) \subseteq 1..(n - 1) /\ TurnsIn(q) \subseteq 1..n
    BY <1>1 DEF TurnsIn
  <2>2. TurnsIn(q) # {}
    BY <1>2, <1>4, <2>1
  <2>3. ASSUME NEW i \in TurnsIn(q), \A j \in TurnsIn(q) : j <= i, q[i].type = "Attached"
        PROVE  \E k \in TurnsIn(r) : (\A j \in TurnsIn(r) : j <= k) /\ r[k].type = "Attached"
    <3>1. PICK k \in TurnsIn(r) : TRUE
      BY <1>4
    <3>2. k + 1 \in TurnsIn(q) /\ k >= 1
      BY <1>2, <2>1, <3>1
    <3>3. i - 1 \in 1..(n - 1) /\ (i - 1) + 1 = i
      BY <1>1, <2>1, <2>3, <3>2
    <3>4. i - 1 \in TurnsIn(r) /\ r[i - 1] = q[i]
      BY <1>1, <1>2, <3>3
    <3>5. \A j \in TurnsIn(r) : j <= i - 1
      BY <1>2, <2>1, <2>3
    <3> QED
      BY <2>3, <3>4, <3>5
  <2>4. ASSUME NEW k \in TurnsIn(r), \A j \in TurnsIn(r) : j <= k, r[k].type = "Attached"
        PROVE  \E i \in TurnsIn(q) : (\A j \in TurnsIn(q) : j <= i) /\ q[i].type = "Attached"
    <3>1. k + 1 \in TurnsIn(q) /\ q[k + 1] = r[k] /\ k \in 1..(n - 1)
      BY <1>1, <1>2, <2>1
    <3>2. ASSUME NEW j \in TurnsIn(q) PROVE j <= k + 1
      <4>1. CASE j = 1
        BY <3>1, <4>1
      <4>2. CASE j # 1
        <5>1. j - 1 \in 1..(n - 1) /\ (j - 1) + 1 = j
          BY <1>1, <2>1, <4>2
        <5>2. j - 1 \in TurnsIn(r)
          BY <1>2, <5>1
        <5> QED
          BY <2>4, <3>1, <5>1, <5>2
      <4> QED
        BY <4>1, <4>2
    <3> QED
      BY <2>4, <3>1, <3>2
  <2> QED
    BY <1>4, <2>2, <2>3, <2>4 DEF After, r
<1> QED
  BY <1>3, <1>4

(***************************************************************************)
(* What is sent keeps its type.                                            *)
(***************************************************************************)
LEMMA AskType ==
    ASSUME TypeOK, NEW c \in Clients, NEW request \in Requests, Ask(c, request)
    PROVE  up' \in [Clients -> Seq(Requests)]
  BY DEF Ask, TypeOK

LEMMA TakenType ==
    ASSUME TypeOK, NEW c \in Clients, Taken(c)
    PROVE  up' \in [Clients -> Seq(Requests)] /\ AskedNow(c) \in Requests
<1>1. up \in [Clients -> Seq(Requests)] /\ up[c] \in Seq(Requests) /\ up[c] # <<>>
  BY DEF TypeOK, Taken
<1>2. Tail(up[c]) \in Seq(Requests) /\ Head(up[c]) \in Requests
  BY <1>1, HeadTailProperties
<1> QED
  BY <1>1, <1>2 DEF Taken, AskedNow

LEMMA SaidType ==
    ASSUME TypeOK, NEW S \in SUBSET Clients, NEW m \in Answers
    PROVE  /\ Said(S, m) \in [Clients -> Seq(Answers)]
           /\ \A d \in Clients : Said(S, m)[d] = IF d \in S THEN Append(down[d], m) ELSE down[d]
  BY DEF TypeOK, Said

\* The invariant, of a step in which a client's queue grows by one answer or
\* by none.
LEMMA ToldStep ==
    ASSUME IInv, TypeOK', UNCHANGED app, NEW S \in SUBSET Clients, NEW m \in [S -> Answers],
           \A d \in Clients : down'[d] = IF d \in S THEN Append(down[d], m[d]) ELSE down[d],
           \A d \in Clients : reader'[d].attached
               <=> (IF d \in S THEN AfterHead(m[d], reader[d].attached) ELSE reader[d].attached)
    PROVE  IInv'
<1> SUFFICES ASSUME NEW d \in Clients
             PROVE  After(down'[d], app'[d].attached) <=> reader'[d].attached
  BY DEF IInv
<1>1. down[d] \in Seq(Answers) /\ app[d].attached \in BOOLEAN /\ reader[d].attached \in BOOLEAN
  BY DEF IInv, TypeOK, App, Reader
<1>2. After(down[d], app[d].attached) <=> reader[d].attached
  BY DEF IInv
<1>3. CASE d \in S
  <2>1. After(down'[d], app[d].attached) <=> AfterHead(m[d], After(down[d], app[d].attached))
    BY <1>1, <1>3, AfterAppend
  <2> QED
    BY <1>2, <1>3, <2>1 DEF AfterHead
<1>4. CASE d \notin S
  BY <1>2, <1>4
<1> QED
  BY <1>3, <1>4

(***************************************************************************)
(* The clients.                                                            *)
(***************************************************************************)
LEMMA ActsBounded ==
    ASSUME TypeOK, Act
    PROVE  acts' \in 0..MaxActs
  BY ActsAssumption DEF TypeOK, Act

\* No step of a client by itself changes whether it believes to be in.
LEMMA Believed ==
    ASSUME TypeOK, NEW c \in Clients, UserStep(c) \/ Heal(c)
    PROVE  app' \in [Clients -> App] /\ \A d \in Clients : app'[d].attached = app[d].attached
<1>1. app \in [Clients -> App] /\ app[c] \in App
  BY DEF TypeOK
<1>2. ASSUME NEW x \in App, x.attached = app[c].attached, app' = [app EXCEPT ![c] = x]
      PROVE  app' \in [Clients -> App] /\ \A d \in Clients : app'[d].attached = app[d].attached
  BY <1>1, <1>2
<1>3. ASSUME NEW mode \in Modes, PickSession(c, mode)
      PROVE  app' \in [Clients -> App] /\ \A d \in Clients : app'[d].attached = app[d].attached
  <2> DEFINE x == [app[c] EXCEPT !.mode = mode, !.asked = FALSE]
  <2>1. app' = [app EXCEPT ![c] = x]
    BY <1>1, <1>3 DEF PickSession, App
  <2>2. x \in App /\ x.attached = app[c].attached
    BY <1>1 DEF App
  <2> QED
    BY <1>2, <2>1, <2>2
<1>4. CASE \E mode \in Modes : AimAtOthers(c, mode)
  BY <1>1, <1>4 DEF AimAtOthers
<1>5. CASE WatchOnly(c)
  <2> DEFINE x(mode) == [app[c] EXCEPT !.mode = mode]
  <2>1. PICK mode \in Modes : app' = [app EXCEPT ![c] = x(mode)]
    BY <1>5 DEF WatchOnly, Modes
  <2>2. x(mode) \in App /\ x(mode).attached = app[c].attached
    BY <1>1 DEF App
  <2> QED
    BY <1>2, <2>1, <2>2
<1>6. CASE FallBehind(c)
  <2> DEFINE x == [app[c] EXCEPT !.behind = TRUE]
  <2>1. app' = [app EXCEPT ![c] = x]
    BY <1>6 DEF FallBehind
  <2>2. x \in App /\ x.attached = app[c].attached
    BY <1>1 DEF App
  <2> QED
    BY <1>2, <2>1, <2>2
<1>7. CASE Heal(c)
  <2> DEFINE x == [app[c] EXCEPT !.asked = TRUE]
  <2>1. app' = [app EXCEPT ![c] = x]
    BY <1>7 DEF Heal
  <2>2. x \in App /\ x.attached = app[c].attached
    BY <1>1 DEF App
  <2> QED
    BY <1>2, <2>1, <2>2
<1> QED
  BY <1>3, <1>4, <1>5, <1>6, <1>7 DEF UserStep

LEMMA UserInv ==
    ASSUME IInv, NEW c \in Clients, UserStep(c) \/ Heal(c)
    PROVE  IInv'
<1>0. TypeOK
  BY DEF IInv
<1>1. /\ UNCHANGED <<reader, down>> /\ acts' \in 0..MaxActs
      /\ app' \in [Clients -> App] /\ \A d \in Clients : app'[d].attached = app[d].attached
  <2>1. UNCHANGED <<reader, down>>
    BY DEF UserStep, PickSession, AimAtOthers, WatchOnly, FallBehind, Heal
  <2>2. acts' \in 0..MaxActs
    BY <1>0, ActsBounded DEF TypeOK, UserStep, PickSession, AimAtOthers, WatchOnly, FallBehind, Heal
  <2> QED
    BY <1>0, <2>1, <2>2, Believed
<1>2. up' \in [Clients -> Seq(Requests)]
  <2>1. app[c].mode \in Modes
    BY <1>0 DEF TypeOK, App
  <2>2. \A mode \in Modes : /\ AttachRequest(mode) \in Requests
                            /\ \A scope \in Scopes : ModeRequest(scope, mode) \in Requests
    BY DEF AttachRequest, ModeRequest, Requests, Scopes
  <2>3. CASE FallBehind(c)
    BY <1>0, <2>3 DEF FallBehind, TypeOK
  <2>4. ASSUME NEW mode \in Modes, PickSession(c, mode) \/ AimAtOthers(c, mode)
        PROVE  up' \in [Clients -> Seq(Requests)]
    BY <1>0, <2>2, <2>4, AskType DEF PickSession, AimAtOthers, Scopes
  <2>5. CASE WatchOnly(c)
    BY <1>0, <2>2, <2>5, AskType DEF WatchOnly, Scopes, Modes
  <2>6. CASE Heal(c)
    BY <1>0, <2>1, <2>2, <2>6, AskType DEF Heal
  <2> QED
    BY <2>3, <2>4, <2>5, <2>6 DEF UserStep
<1>3. TypeOK'
  BY <1>0, <1>1, <1>2 DEF TypeOK
<1> QED
  BY <1>1, <1>3 DEF IInv

LEMMA ReceiveInv ==
    ASSUME IInv, NEW c \in Clients, Receive(c)
    PROVE  IInv'
<1>1. /\ down[c] \in Seq(Answers) /\ down[c] # <<>> /\ app[c] \in App
      /\ app \in [Clients -> App] /\ down \in [Clients -> Seq(Answers)]
  BY DEF IInv, TypeOK, Receive
<1>2. Head(down[c]) \in Answers /\ Tail(down[c]) \in Seq(Answers)
  BY <1>1, HeadTailProperties
<1>3. /\ app' = [app EXCEPT ![c] = Told(app[c], Head(down[c]))]
      /\ down' = [down EXCEPT ![c] = Tail(down[c])] /\ UNCHANGED <<reader, up, acts>>
  BY DEF Receive
<1>4. /\ Told(app[c], Head(down[c])) \in App
      /\ Told(app[c], Head(down[c])).attached <=> AfterHead(Head(down[c]), app[c].attached)
  BY <1>1, <1>2 DEF Told, App, Answers, AfterHead, Turns
<1>5. TypeOK'
  BY <1>1, <1>2, <1>3, <1>4 DEF IInv, TypeOK
<1>6. app[c].attached \in BOOLEAN /\ AfterHead(Head(down[c]), app[c].attached) \in BOOLEAN
  BY <1>1 DEF App, AfterHead
<1>7. app'[c].attached = AfterHead(Head(down[c]), app[c].attached)
  BY <1>1, <1>3, <1>4, <1>6 DEF App
<1>8. ASSUME NEW d \in Clients PROVE After(down'[d], app'[d].attached) <=> reader'[d].attached
  <2>1. After(down[d], app[d].attached) <=> reader[d].attached
    BY DEF IInv
  <2>2. CASE d = c
    BY <1>1, <1>3, <1>6, <1>7, <2>1, <2>2, AfterTail
  <2>3. CASE d # c
    BY <1>1, <1>3, <2>1, <2>3
  <2> QED
    BY <2>2, <2>3
<1> QED
  BY <1>5, <1>8 DEF IInv

(***************************************************************************)
(* The server.                                                             *)
(***************************************************************************)
LEMMA AttachInv ==
    ASSUME IInv, NEW c \in Clients, HandleAttach(c)
    PROVE  IInv'
<1> DEFINE mode == AskedNow(c).mode
           gone == Evicted(c, mode)
           m == [d \in gone \union {c} |-> IF d = c THEN Answer("Attached", mode)
                                           ELSE Answer("Detached", "Join")]
<1>1. up' \in [Clients -> Seq(Requests)] /\ mode \in Modes /\ TypeOK
  BY TakenType DEF HandleAttach, IInv, Requests
<1>2. gone \in SUBSET Clients /\ c \notin gone
  BY DEF Evicted, FirstAttached, Attached
<1>3. Answer("Attached", mode) \in Answers /\ Answer("Detached", "Join") \in Answers
  BY <1>1 DEF Answer, Answers, Modes
<1>4. m \in [gone \union {c} -> Answers]
  BY <1>3
<1>5. /\ reader' = [d \in Clients |->
             IF d = c THEN [attached |-> TRUE, mode |-> mode]
             ELSE IF d \in gone THEN [reader[d] EXCEPT !.attached = FALSE]
             ELSE reader[d]]
      /\ down' = [Said(gone, Answer("Detached", "Join")) EXCEPT ![c] = Append(@, Answer("Attached", mode))]
      /\ UNCHANGED <<app, acts>>
  BY DEF HandleAttach
<1>6. \A d \in Clients : down'[d] = IF d \in gone \union {c} THEN Append(down[d], m[d]) ELSE down[d]
  BY <1>1, <1>2, <1>3, <1>5, SaidType
<1>7. m[c].type = "Attached" /\ \A d \in gone : m[d].type = "Detached"
  BY <1>2 DEF Answer
<1> HIDE DEF m, gone, mode
<1>8. reader' \in [Clients -> Reader]
  BY <1>1, <1>5 DEF TypeOK, Reader
<1>9. down' \in [Clients -> Seq(Answers)]
  <2>1. DOMAIN down' = Clients /\ down' = [d \in Clients |-> down'[d]]
    BY <1>1, <1>2, <1>3, <1>5, SaidType
  <2>2. ASSUME NEW d \in Clients PROVE down'[d] \in Seq(Answers)
    <3>1. down[d] \in Seq(Answers)
      BY <1>1 DEF TypeOK
    <3>2. CASE d \in gone \union {c}
      <4>1. m[d] \in Answers
        BY <1>4, <3>2
      <4>2. Append(down[d], m[d]) \in Seq(Answers)
        BY <3>1, <4>1
      <4>3. down'[d] = Append(down[d], m[d])
        BY <1>6, <3>2
      <4> QED
        BY <4>2, <4>3
    <3>3. CASE d \notin gone \union {c}
      BY <1>6, <3>1, <3>3
    <3> QED
      BY <3>2, <3>3
  <2> QED
    BY <2>1, <2>2
<1>10. TypeOK'
  BY <1>1, <1>5, <1>8, <1>9 DEF TypeOK
<1>11. ASSUME NEW d \in Clients
       PROVE  reader'[d].attached
               <=> (IF d \in gone \union {c} THEN AfterHead(m[d], reader[d].attached)
                                             ELSE reader[d].attached)
  <2>1. reader \in [Clients -> Reader]
    BY <1>1 DEF TypeOK
  <2> QED
    BY <1>2, <1>5, <1>7, <2>1 DEF AfterHead, Turns, Reader
<1> QED
  BY <1>2, <1>4, <1>5, <1>6, <1>10, <1>11, ToldStep

LEMMA ModeInv ==
    ASSUME IInv, NEW c \in Clients,
           RefuseMode(c) \/ SetMyMode(c) \/ EvictOthers(c) \/ SetOthersMode(c)
    PROVE  IInv'
<1>1. /\ up' \in [Clients -> Seq(Requests)] /\ AskedNow(c).mode \in Modes /\ TypeOK
      /\ UNCHANGED <<app, acts>>
  BY TakenType DEF RefuseMode, SetMyMode, EvictOthers, SetOthersMode, IInv, Requests
<1>2. reader \in [Clients -> Reader] /\ down \in [Clients -> Seq(Answers)]
  BY <1>1 DEF TypeOK
<1>3. ASSUME NEW S \in SUBSET Clients, NEW a \in Answers, down' = Said(S, a),
             reader' \in [Clients -> Reader],
             \A d \in Clients : reader'[d].attached
               <=> (IF d \in S THEN AfterHead(a, reader[d].attached) ELSE reader[d].attached)
      PROVE  IInv'
  <2> DEFINE m == [d \in S |-> a]
  <2>1. /\ Said(S, a) \in [Clients -> Seq(Answers)]
        /\ \A d \in Clients : Said(S, a)[d] = IF d \in S THEN Append(down[d], a) ELSE down[d]
    BY <1>1, SaidType
  <2>2. TypeOK'
    BY <1>1, <1>3, <2>1 DEF TypeOK
  <2>3. m \in [S -> Answers] /\ \A d \in S : m[d] = a
    OBVIOUS
  <2> HIDE DEF m
  <2>4. /\ \A d \in Clients : down'[d] = IF d \in S THEN Append(down[d], m[d]) ELSE down[d]
        /\ \A d \in Clients : reader'[d].attached
               <=> (IF d \in S THEN AfterHead(m[d], reader[d].attached) ELSE reader[d].attached)
    BY <1>3, <2>1, <2>3
  <2> QED
    BY <1>1, <2>2, <2>3, <2>4, ToldStep
<1>4. CASE RefuseMode(c)
  <2>1. Answer("Error", "Join") \in Answers /\ Answer("Error", "Join").type \notin Turns
    BY DEF Answer, Answers, Modes, Turns
  <2> QED
    BY <1>2, <1>3, <1>4, <2>1 DEF RefuseMode, AfterHead
<1>5. CASE SetMyMode(c)
  <2>1. /\ reader' \in [Clients -> Reader] /\ UNCHANGED down
        /\ \A d \in Clients : reader'[d].attached = reader[d].attached
    BY <1>1, <1>2, <1>5 DEF SetMyMode, Reader
  <2> QED
    BY <1>1, <2>1 DEF IInv, TypeOK
<1>6. CASE EvictOthers(c)
  <2>1. Answer("Detached", "Join") \in Answers /\ Answer("Detached", "Join").type = "Detached"
    BY DEF Answer, Answers, Modes
  <2>2. OthersThan(c) \in SUBSET Clients
    BY DEF OthersThan, Attached
  <2>3. /\ down' = Said(OthersThan(c), Answer("Detached", "Join"))
        /\ reader' = [d \in Clients |->
               IF d \in OthersThan(c) THEN [reader[d] EXCEPT !.attached = FALSE] ELSE reader[d]]
    BY <1>6 DEF EvictOthers
  <2>4. /\ reader' \in [Clients -> Reader]
        /\ \A d \in Clients : reader'[d].attached
             = IF d \in OthersThan(c) THEN FALSE ELSE reader[d].attached
    BY <1>2, <2>3 DEF Reader
  <2> QED
    BY <1>3, <2>1, <2>2, <2>3, <2>4 DEF AfterHead, Turns
<1>7. CASE SetOthersMode(c)
  <2> DEFINE mode == AskedNow(c).mode
  <2>1. Answer("ReaderMode", mode) \in Answers /\ Answer("ReaderMode", mode).type \notin Turns
    BY <1>1 DEF Answer, Answers, Turns
  <2>2. Moved(c, mode) \in SUBSET Clients
    BY DEF Moved, OthersThan, Attached
  <2>3. /\ down' = Said(Moved(c, mode), Answer("ReaderMode", mode))
        /\ reader' = [d \in Clients |->
               IF d \in Moved(c, mode) THEN [reader[d] EXCEPT !.mode = mode] ELSE reader[d]]
    BY <1>7 DEF SetOthersMode
  <2> HIDE DEF mode
  <2>4. /\ reader' \in [Clients -> Reader]
        /\ \A d \in Clients : reader'[d].attached = reader[d].attached
    BY <1>1, <1>2, <2>3 DEF Reader, mode
  <2> QED
    BY <1>3, <2>1, <2>2, <2>3, <2>4 DEF AfterHead
<1> QED
  BY <1>4, <1>5, <1>6, <1>7

(***************************************************************************)
(* The theorems.                                                           *)
(***************************************************************************)
LEMMA Invariance == Spec => []IInv
<1>1. Init => IInv
  <2> SUFFICES ASSUME Init PROVE IInv
    OBVIOUS
  <2>1. TypeOK
    BY EmptySeq, ActsAssumption DEF Init, TypeOK, Reader, App, Modes
  <2>2. \A c \in Clients : TurnsIn(down[c]) = {} /\ ~app[c].attached /\ ~reader[c].attached
    BY DEF Init, TurnsIn
  <2> QED
    BY <2>1, <2>2 DEF IInv, After
<1>2. IInv /\ [Next]_vars => IInv'
  <2> SUFFICES ASSUME IInv, [Next]_vars PROVE IInv'
    OBVIOUS
  <2>1. CASE UNCHANGED vars
    BY <2>1 DEF IInv, TypeOK, vars
  <2>2. CASE Next
    BY <2>2, UserInv, ReceiveInv, AttachInv, ModeInv DEF Next, Serve
  <2> QED
    BY <2>1, <2>2
<1> QED
  BY <1>1, <1>2, PTL DEF Spec

\* Requests, answers and modes keep their types through every crossing.
THEOREM ModeTypes == Spec => []TypeOK
  BY Invariance, PTL DEF IInv

\* However many readers take a session from each other, join, watch, evict and
\* heal, the last answer a client has not read says whether it is in.
THEOREM EverybodyKnows == Spec => []EverybodyKnowsWhetherIn
<1>1. IInv => EverybodyKnowsWhetherIn
  <2> SUFFICES ASSUME IInv, NEW c \in Clients PROVE InAfterwards(c) <=> reader[c].attached
    BY DEF EverybodyKnowsWhetherIn
  <2>1. Leaves(c) = TurnsIn(down[c])
    BY DEF Leaves, TurnsIn, Turns
  <2>2. InAfterwards(c) <=> After(down[c], app[c].attached)
    BY <2>1 DEF InAfterwards, After
  <2> QED
    BY <2>2 DEF IInv
<1> QED
  BY <1>1, Invariance, PTL
==============================================================================
