------------------------ MODULE SessionLifecycleProofs ------------------------
(***************************************************************************)
(* Safety of SessionLifecycle for every number of readers, sessions,       *)
(* terminals and requests and for all settings.  IInv is inductive; the    *)
(* properties are conjuncts of it or follow from it and a step.            *)
(***************************************************************************)
EXTENDS SessionLifecycle, TLAPS

\* What the readers may be told, types and all.
Tellings == {f \in [Readers -> Reader] :
    \A c \in Readers : f[c].session = NoSession => f[c].known = {} /\ ~f[c].dirty}

\* Ids are given in order, so an id not yet given names nothing.
IdsAreFresh ==
    /\ \A s \in DOMAIN sess : s <= issued.sessions
    /\ \A t \in DOMAIN term : t <= issued.terms

\* What a waiting `ckmux kill` knows: KillIsConfirmed, and what keeps it so.
\* Its session had an id, which is not given again, and it waits until told.
WaitingIsSound ==
    \A c \in Clis : cli[c].target # NoSession =>
        /\ cli[c].target <= issued.sessions
        /\ cli[c].gone <=> cli[c].target \notin DOMAIN sess
        /\ cli[c].waiting <=> ~cli[c].gone

IInv == /\ TypeOK
        /\ EveryTerminalHasOneHome
        /\ IdsAreFresh
        /\ ReadersKnowTheirTerminals
        /\ WaitingIsSound
        /\ EmptyServerStops

(***************************************************************************)
(* The helpers.                                                            *)
(***************************************************************************)
LEMMA PutType ==
    ASSUME NEW f, NEW x, NEW v, NEW S, NEW T,
           DOMAIN f \subseteq S, f \in [DOMAIN f -> T], x \in S, v \in T
    PROVE  DOMAIN Put(f, x, v) \subseteq S /\ Put(f, x, v) \in [DOMAIN Put(f, x, v) -> T]
  BY DEF Put

LEMMA InitInv == Init => IInv
<1> SUFFICES ASSUME Init PROVE IInv
  OBVIOUS
<1> USE IdAssumption, SettingsAssumption DEF Init
<1>1. TypeOK
  <2>1. /\ DOMAIN sess = {} /\ DOMAIN term = {} /\ DOMAIN kills = {} /\ DOMAIN closes = {}
        /\ sess \in [DOMAIN sess -> SUBSET TermIds] /\ term \in [DOMAIN term -> Child]
        /\ kills \in [DOMAIN kills -> PendingKill] /\ closes \in [DOMAIN closes -> PendingClose]
    OBVIOUS
  <2>2. reader \in [Readers -> Reader] /\ cli \in [Clis -> Cli]
    BY DEF Reader, Cli
  <2>3. \A c \in Readers : reader[c].session = NoSession => reader[c].known = {} /\ ~reader[c].dirty
    OBVIOUS
  <2>4. /\ issued \in [sessions : Nat, terms : Nat, kills : Nat]
        /\ listDirty \in BOOLEAN /\ running \in BOOLEAN
    OBVIOUS
  <2>5. phase \in Phases /\ todo \subseteq KillIds \cup TermIds /\ acts \in 0..MaxActs
    BY DEF Phases
  <2> QED
    BY <2>1, <2>2, <2>3, <2>4, <2>5 DEF TypeOK
<1>2. EveryTerminalHasOneHome /\ IdsAreFresh /\ ReadersKnowTheirTerminals
  BY DEF EveryTerminalHasOneHome, IdsAreFresh, ReadersKnowTheirTerminals
<1>3. WaitingIsSound /\ EmptyServerStops
  BY DEF WaitingIsSound, EmptyServerStops
<1> QED
  BY <1>1, <1>2, <1>3 DEF IInv

LEMMA AttachedType ==
    ASSUME NEW r \in Reader, NEW s \in SessionIds, NEW K \in SUBSET TermIds
    PROVE  /\ Attached(r, s, K) \in Reader /\ Attached(r, s, K).session # NoSession
           /\ Attached(r, s, K).session = s /\ Attached(r, s, K).known = K
           /\ ~Attached(r, s, K).dirty
  BY IdAssumption DEF Attached, Reader, NoSession

LEMMA KeepsList ==
    ASSUME NEW r \in Reader
    PROVE  Detached(r).list = r.list
  BY DEF Detached, Reader

LEMMA DetachedType ==
    ASSUME NEW r \in Reader
    PROVE  /\ Detached(r) \in Reader /\ Detached(r).session = NoSession
           /\ Detached(r).known = {} /\ ~Detached(r).dirty
  BY IdAssumption DEF Detached, Reader, NoSession

\* A takeover detaches one reader or nobody; the others are as they were.
LEMMA RemainingTypes ==
    ASSUME TypeOK, NEW c \in Readers, NEW s \in SessionIds, NEW others \in Remaining(c, s)
    PROVE  /\ others \in Tellings
           /\ \A d \in Readers : others[d] = reader[d] \/ others[d].session = NoSession
<1>1. CASE others = reader
  BY <1>1 DEF TypeOK, Tellings
<1>2. ASSUME NEW d \in Readers, others = [reader EXCEPT ![d] = Detached(@)]
      PROVE  /\ others \in Tellings
             /\ \A e \in Readers : others[e] = reader[e] \/ others[e].session = NoSession
  <2>1. /\ Detached(reader[d]) \in Reader /\ Detached(reader[d]).session = NoSession
        /\ Detached(reader[d]).known = {} /\ ~Detached(reader[d]).dirty
    BY DetachedType DEF TypeOK
  <2> QED
    BY <1>2, <2>1 DEF TypeOK, Tellings
<1> QED
  BY <1>1, <1>2 DEF Remaining

\* What is told of one terminal or one session keeps its type.
LEMMA ToldTypes ==
    ASSUME TypeOK, NEW s \in SessionIds, NEW t \in TermIds
    PROVE  /\ reader \in Tellings
           /\ Opened(s, t) \in Tellings /\ Closed(s, t) \in Tellings
<1> USE IdAssumption DEF Tellings, Reader, NoSession
<1>1. reader \in Tellings
  BY DEF TypeOK
<1>2. Opened(s, t) \in Tellings
  BY <1>1 DEF Opened
<1>3. Closed(s, t) \in Tellings
  BY <1>1 DEF Closed
<1> QED
  BY <1>1, <1>2, <1>3

LEMMA NewsTypes ==
    ASSUME NEW s \in SessionIds, NEW f \in Tellings
    PROVE  Evicted(f, s) \in Tellings /\ NewsFor(s, f) \in Tellings
<1>1. f \in [Readers -> Reader]
  BY DEF Tellings
<1>2. \A c \in Readers : f[c].session = NoSession => f[c].known = {} /\ ~f[c].dirty
  BY DEF Tellings
<1>3. Evicted(f, s) \in Tellings
  <2>1. \A c \in Readers : f[c] \in Reader
    BY <1>1
  <2>2. \A c \in Readers :
           /\ Detached(f[c]) \in Reader /\ Detached(f[c]).known = {}
           /\ ~Detached(f[c]).dirty
    BY <2>1, DetachedType
  <2>3. Evicted(f, s) \in [Readers -> Reader]
    BY <2>1, <2>2 DEF Evicted
  <2>4. \A c \in Readers : Evicted(f, s)[c] = Detached(f[c]) \/ Evicted(f, s)[c] = f[c]
    BY DEF Evicted
  <2> QED
    BY <1>2, <2>2, <2>3, <2>4 DEF Tellings
<1>4. NewsFor(s, f) \in Tellings
  <2>1. ASSUME NEW c \in Readers
        PROVE  /\ NewsFor(s, f)[c] \in Reader
               /\ NewsFor(s, f)[c].session = NoSession =>
                     NewsFor(s, f)[c].known = {} /\ ~NewsFor(s, f)[c].dirty
    <3>1. CASE f[c].session = s
      <4>1. NewsFor(s, f)[c] = [f[c] EXCEPT !.dirty = TRUE]
        BY <3>1 DEF NewsFor
      <4>2. s # NoSession
        BY IdAssumption DEF NoSession
      <4> QED
        BY <1>1, <3>1, <4>1, <4>2 DEF Reader
    <3>2. CASE f[c].session # s
      <4>1. NewsFor(s, f)[c] = f[c]
        BY <3>2 DEF NewsFor
      <4> QED
        BY <1>1, <1>2, <4>1
    <3> QED
      BY <3>1, <3>2
  <2>2. NewsFor(s, f) = [c \in Readers |-> NewsFor(s, f)[c]]
    BY DEF NewsFor
  <2>3. NewsFor(s, f) \in [Readers -> Reader]
    BY <2>1, <2>2
  <2> QED
    BY <2>1, <2>3 DEF Tellings
<1> QED
  BY <1>3, <1>4

LEMMA BroadcastTypes ==
    ASSUME TypeOK, NEW S \in SUBSET SessionIds, NEW f \in Tellings, Broadcast(S, f)
    PROVE  reader' \in Tellings /\ cli' \in [Clis -> Cli] /\ listDirty' \in BOOLEAN
<1>1. reader' \in Tellings
  BY DEF Broadcast, Tellings, Reader, Listing
<1>2. cli' \in [Clis -> Cli]
  BY DEF Broadcast, Heard, TypeOK, Cli
<1> QED
  BY <1>1, <1>2 DEF Broadcast

LEMMA BroadcastLessTypes ==
    ASSUME TypeOK, NEW s \in SessionIds, NEW left, NEW f \in Tellings,
           DOMAIN left \subseteq SessionIds, left \in [DOMAIN left -> SUBSET TermIds],
           BroadcastLess(s, left, f)
    PROVE  /\ DOMAIN sess' \subseteq SessionIds /\ sess' \in [DOMAIN sess' -> SUBSET TermIds]
           /\ reader' \in Tellings /\ cli' \in [Clis -> Cli] /\ listDirty' \in BOOLEAN
           /\ running' \in BOOLEAN
<1>1. CASE Goes(s, left)
  <2>1. /\ sess' = Drop(left, {s}) /\ Broadcast(DOMAIN left \ {s}, Evicted(f, s))
        /\ running' = StillRunning(DOMAIN left \ {s})
    BY <1>1 DEF BroadcastLess
  <2>2. DOMAIN sess' \subseteq SessionIds /\ sess' \in [DOMAIN sess' -> SUBSET TermIds]
    BY <2>1 DEF Drop
  <2>3. Evicted(f, s) \in Tellings
    BY NewsTypes
  <2>4. reader' \in Tellings /\ cli' \in [Clis -> Cli] /\ listDirty' \in BOOLEAN
    BY <2>1, <2>3, BroadcastTypes
  <2> QED
    BY <2>1, <2>2, <2>4 DEF StillRunning, TypeOK
<1>2. CASE ~Goes(s, left)
  <2>1. sess' = left /\ Broadcast(DOMAIN left, f) /\ running' = running
    BY <1>2 DEF BroadcastLess
  <2>2. reader' \in Tellings /\ cli' \in [Clis -> Cli] /\ listDirty' \in BOOLEAN
    BY <2>1, BroadcastTypes
  <2> QED
    BY <2>1, <2>2 DEF TypeOK
<1> QED
  BY <1>1, <1>2

LEMMA SignalTypes ==
    ASSUME TypeOK, NEW S
    PROVE  /\ Asked(S) \in [DOMAIN term -> Child] /\ DOMAIN Asked(S) = DOMAIN term
           /\ Killed(S) \in [DOMAIN term -> Child] /\ DOMAIN Killed(S) = DOMAIN term
  BY DEF TypeOK, Asked, Killed, Child

LEMMA LaunchType == \A works \in BOOLEAN : Launched(works) \in Child
  BY DEF Launched, Child

(***************************************************************************)
(* Types are kept.                                                         *)
(***************************************************************************)
\* What TypeOK says of the tables, the rest being unchanged.
LEMMA RequestTypes ==
    ASSUME TypeOK, ReadersKnowTheirTerminals, Requests
    PROVE  TypeOK'
<1> USE IdAssumption, SettingsAssumption
<1>0. /\ phase' \in Phases /\ todo' \subseteq KillIds \cup TermIds
      /\ acts \in Nat /\ acts' = acts + 1 /\ acts' \in 0..MaxActs
  <2>1. Request
    BY DEF Requests, NewSession, KillServer, Attach, Leave, NewTerminal, RespawnTerminal,
           KillTerminal, MoveTerminal, CloseTerminal, KillSession, CliKillSession, BeginKill
  <2> QED
    BY <2>1 DEF Request, TypeOK, tick
<1>1. CASE NewSession
  <2>1. reader' \in Tellings /\ cli' \in [Clis -> Cli] /\ listDirty' \in BOOLEAN
    <3>1. DOMAIN sess \cup {issued.sessions + 1} \in SUBSET SessionIds /\ reader \in Tellings
      BY <1>1 DEF NewSession, TypeOK, Tellings
    <3> QED
      BY <1>1, <3>1, BroadcastTypes DEF NewSession
  <2>2. /\ DOMAIN sess' \subseteq SessionIds /\ sess' \in [DOMAIN sess' -> SUBSET TermIds]
        /\ issued' \in [sessions : Nat, terms : Nat, kills : Nat]
    <3>1. ASSUME NEW S \in SUBSET TermIds, issued.sessions + 1 \in SessionIds,
                 sess' = Put(sess, issued.sessions + 1, S)
          PROVE  DOMAIN sess' \subseteq SessionIds /\ sess' \in [DOMAIN sess' -> SUBSET TermIds]
      BY <3>1 DEF TypeOK, Put
    <3>2. issued' \in [sessions : Nat, terms : Nat, kills : Nat]
      BY <1>1 DEF NewSession, TypeOK
    <3>3. \E S \in SUBSET TermIds : sess' = Put(sess, issued.sessions + 1, S)
      BY <1>1 DEF NewSession
    <3> QED
      BY <1>1, <3>1, <3>2, <3>3 DEF NewSession
  <2>3. DOMAIN term' \subseteq TermIds /\ term' \in [DOMAIN term' -> Child]
    <3>1. CASE UNCHANGED term
      BY <3>1 DEF TypeOK
    <3>2. ASSUME NEW works \in BOOLEAN, issued.terms + 1 \in TermIds,
                 term' = Put(term, issued.terms + 1, Launched(works))
          PROVE  DOMAIN term' \subseteq TermIds /\ term' \in [DOMAIN term' -> Child]
      BY <3>2, LaunchType DEF TypeOK, Put
    <3> QED
      BY <1>1, <3>1, <3>2 DEF NewSession
  <2> QED
    BY <1>0, <1>1, <2>1, <2>2, <2>3 DEF NewSession, TypeOK, Tellings
<1>2. CASE KillServer
  BY <1>0, <1>2 DEF KillServer, TypeOK, told
<1>3. ASSUME NEW c \in Readers, Attach(c) PROVE TypeOK'
  <2>1. reader' \in Tellings
    <3>1. ASSUME NEW s \in SessionIds, NEW K \in SUBSET TermIds, NEW others \in Tellings,
                 reader' = [others EXCEPT ![c] = Attached(@, s, K)]
          PROVE  reader' \in Tellings
      BY <3>1, AttachedType DEF Tellings
    <3>0. reader \in Tellings /\ \A s \in SessionIds : Remaining(c, s) \subseteq Tellings
      BY RemainingTypes DEF TypeOK, Tellings
    <3>2. \A s \in DOMAIN sess : s \in SessionIds /\ sess[s] \in SUBSET TermIds
      BY DEF TypeOK
    <3> QED
      BY <1>3, <3>0, <3>1, <3>2 DEF Attach
  <2>2. /\ DOMAIN sess' \subseteq SessionIds /\ sess' \in [DOMAIN sess' -> SUBSET TermIds]
        /\ issued' \in [sessions : Nat, terms : Nat, kills : Nat]
    BY <1>3 DEF Attach, TypeOK, Put
  <2> QED
    BY <1>0, <1>3, <2>1, <2>2 DEF Attach, TypeOK, Tellings
<1>4. ASSUME NEW c \in Readers, Leave(c) PROVE TypeOK'
  <2>1. reader' \in Tellings
    BY <1>4, DetachedType DEF Leave, TypeOK, Tellings
  <2> QED
    BY <1>0, <1>4, <2>1 DEF Leave, TypeOK, Tellings
<1>5. ASSUME NEW c \in Readers, NewTerminal(c) PROVE TypeOK'
  <2> PICK s \in DOMAIN sess, works \in BOOLEAN :
          /\ sess' = [sess EXCEPT ![s] = @ \cup {issued.terms + 1}]
          /\ term' = Put(term, issued.terms + 1, Launched(works))
          /\ reader' = Opened(s, issued.terms + 1)
    BY <1>5 DEF NewTerminal
  <2>1. reader' \in Tellings
    BY <1>5, ToldTypes DEF NewTerminal, TypeOK
  <2>2. /\ DOMAIN sess' \subseteq SessionIds /\ sess' \in [DOMAIN sess' -> SUBSET TermIds]
        /\ issued' \in [sessions : Nat, terms : Nat, kills : Nat]
    BY <1>5 DEF NewTerminal, TypeOK
  <2>3. DOMAIN term' \subseteq TermIds /\ term' \in [DOMAIN term' -> Child]
    BY <1>5, LaunchType DEF NewTerminal, TypeOK, Put
  <2> QED
    BY <1>0, <1>5, <2>1, <2>2, <2>3 DEF NewTerminal, TypeOK, Tellings
<1>6. ASSUME NEW t \in DOMAIN term, RespawnTerminal(t) PROVE TypeOK'
  <2>1. reader' \in Tellings
    BY <1>6, ToldTypes DEF RespawnTerminal, TypeOK
  <2>2. DOMAIN term' \subseteq TermIds /\ term' \in [DOMAIN term' -> Child]
    BY <1>6, LaunchType DEF RespawnTerminal, Relaunched, TypeOK
  <2> QED
    BY <1>0, <1>6, <2>1, <2>2 DEF RespawnTerminal, TypeOK, Tellings
<1>7. ASSUME NEW t \in DOMAIN term, KillTerminal(t) PROVE TypeOK'
  <2>1. DOMAIN closes' \subseteq TermIds /\ closes' \in [DOMAIN closes' -> PendingClose]
    BY <1>7 DEF KillTerminal, TypeOK, PendingClose, Put
  <2>2. DOMAIN term' \subseteq TermIds /\ term' \in [DOMAIN term' -> Child]
    BY <1>7, SignalTypes DEF KillTerminal, TypeOK
  <2> QED
    BY <1>0, <1>7, <2>1, <2>2 DEF KillTerminal, TypeOK, told
<1>8. ASSUME NEW t \in DOMAIN term, NEW force \in BOOLEAN, CloseTerminal(t, force) PROVE TypeOK'
  <2>1. DOMAIN closes' \subseteq TermIds /\ closes' \in [DOMAIN closes' -> PendingClose]
    BY <1>8 DEF CloseTerminal, TypeOK, PendingClose, Put
  <2>2. DOMAIN term' \subseteq TermIds /\ term' \in [DOMAIN term' -> Child]
    BY <1>8, SignalTypes DEF CloseTerminal, TypeOK
  <2> QED
    BY <1>0, <1>8, <2>1, <2>2 DEF CloseTerminal, TypeOK, told
<1>9. ASSUME NEW t \in DOMAIN term, MoveTerminal(t) PROVE TypeOK'
  <2> PICK from \in DOMAIN sess, to \in SessionIds :
          /\ Holds(from, t) /\ from # to
          /\ \/ to \in DOMAIN sess /\ UNCHANGED issued
             \/ to = issued.sessions + 1 /\ issued' = [issued EXCEPT !.sessions = @ + 1]
          /\ LET arrived == IF to \in DOMAIN sess THEN sess[to] \cup {t} ELSE {t}
             IN BroadcastLess(from, Put([sess EXCEPT ![from] = Leaving(from, t)], to, arrived),
                              NewsFor(to, Closed(from, t)))
    BY <1>9 DEF MoveTerminal
  <2> DEFINE arrived == IF to \in DOMAIN sess THEN sess[to] \cup {t} ELSE {t}
             left == Put([sess EXCEPT ![from] = Leaving(from, t)], to, arrived)
             news == NewsFor(to, Closed(from, t))
  <2>1. DOMAIN left \subseteq SessionIds /\ left \in [DOMAIN left -> SUBSET TermIds]
    BY DEF Put, Leaving, TypeOK
  <2>2. from \in SessionIds /\ t \in TermIds
    BY DEF TypeOK
  <2>3. news \in Tellings
    BY <2>2, ToldTypes, NewsTypes
  <2>4. BroadcastLess(from, left, news)
    OBVIOUS
  <2> HIDE DEF left, news
  <2>5. /\ DOMAIN sess' \subseteq SessionIds /\ sess' \in [DOMAIN sess' -> SUBSET TermIds]
        /\ reader' \in Tellings /\ cli' \in [Clis -> Cli] /\ listDirty' \in BOOLEAN
        /\ running' \in BOOLEAN
    BY <2>1, <2>2, <2>3, <2>4, BroadcastLessTypes
  <2>6. DOMAIN closes' \subseteq TermIds /\ closes' \in [DOMAIN closes' -> PendingClose]
    BY <1>9 DEF MoveTerminal, Drop, TypeOK
  <2>7. issued' \in [sessions : Nat, terms : Nat, kills : Nat]
    BY DEF TypeOK
  <2> QED
    BY <1>0, <1>9, <2>5, <2>6, <2>7 DEF MoveTerminal, TypeOK, Tellings
<1>10. ASSUME NEW s \in DOMAIN sess, NEW force \in BOOLEAN, BeginKill(s, force),
              cli' \in [Clis -> Cli]
       PROVE  TypeOK'
  <2>1. DOMAIN kills' \subseteq KillIds /\ kills' \in [DOMAIN kills' -> PendingKill]
    BY <1>10 DEF BeginKill, TypeOK, PendingKill, Put
  <2>2. DOMAIN term' \subseteq TermIds /\ term' \in [DOMAIN term' -> Child]
    BY <1>10, SignalTypes DEF BeginKill, TypeOK
  <2>3. issued' \in [sessions : Nat, terms : Nat, kills : Nat]
    BY <1>10 DEF BeginKill, TypeOK
  <2> QED
    BY <1>0, <1>10, <2>1, <2>2, <2>3 DEF BeginKill, TypeOK
<1>11. ASSUME NEW s \in DOMAIN sess, NEW force \in BOOLEAN, KillSession(s, force) PROVE TypeOK'
  BY <1>10, <1>11 DEF KillSession, TypeOK
<1>12. ASSUME NEW s \in DOMAIN sess, NEW c \in Clis, CliKillSession(c, s) PROVE TypeOK'
  <2>1. cli' \in [Clis -> Cli]
    BY <1>12 DEF CliKillSession, TypeOK, Cli
  <2> QED
    BY <1>10, <1>12, <2>1 DEF CliKillSession
<1> QED
  BY <1>1, <1>2, <1>3, <1>4, <1>5, <1>6, <1>7, <1>8, <1>9, <1>11, <1>12 DEF Requests

\* A turn of one of the tick's loops keeps the loop's own variables typed.
LEMMA TurnTypes ==
    ASSUME TypeOK, NEW name, NEW x, Turn(name, x)
    PROVE  phase' \in Phases /\ todo' \subseteq KillIds \cup TermIds /\ acts' \in 0..MaxActs
  BY DEF Turn, TypeOK

LEMMA RemoveTypes ==
    ASSUME TypeOK, NEW t, RemoveTerminal(t)
    PROVE  /\ DOMAIN term' \subseteq TermIds /\ term' \in [DOMAIN term' -> Child]
           /\ DOMAIN sess' \subseteq SessionIds /\ sess' \in [DOMAIN sess' -> SUBSET TermIds]
           /\ reader' \in Tellings /\ cli' \in [Clis -> Cli] /\ listDirty' \in BOOLEAN
           /\ running' \in BOOLEAN
<1> PICK home \in DOMAIN sess :
        Holds(home, t) /\ BroadcastLess(home, [sess EXCEPT ![home] = @ \ {t}], Closed(home, t))
  BY DEF RemoveTerminal
<1>1. home \in SessionIds /\ t \in TermIds
  BY DEF Holds, TypeOK
<1>2. Closed(home, t) \in Tellings
  BY <1>1, ToldTypes
<1>3. /\ DOMAIN [sess EXCEPT ![home] = @ \ {t}] \subseteq SessionIds
      /\ [sess EXCEPT ![home] = @ \ {t}] \in
            [DOMAIN [sess EXCEPT ![home] = @ \ {t}] -> SUBSET TermIds]
  BY DEF TypeOK
<1>4. DOMAIN term' \subseteq TermIds /\ term' \in [DOMAIN term' -> Child]
  BY DEF RemoveTerminal, Drop, TypeOK
<1> QED
  BY <1>1, <1>2, <1>3, <1>4, BroadcastLessTypes

LEMMA TickTypes ==
    ASSUME TypeOK, ReadersKnowTheirTerminals, Ticking
    PROVE  TypeOK'
<1>1. CASE Tick
  BY <1>1 DEF Tick, TypeOK, Phases, told
<1>2. CASE KillsDone
  BY <1>2 DEF KillsDone, TypeOK, Phases, told
<1>3. CASE ClosesDone
  BY <1>3 DEF ClosesDone, TypeOK, Phases, told
<1>4. CASE FlushReaderCounts
  <2>1. reader' \in Tellings
    BY <1>4 DEF FlushReaderCounts, TypeOK, Tellings, Reader
  <2>2. listDirty' \in BOOLEAN
    BY <1>4 DEF FlushReaderCounts, EverybodyTold, TypeOK
  <2> QED
    BY <1>4, <2>1, <2>2 DEF FlushReaderCounts, TypeOK, Phases, Tellings
<1>5. CASE EndTick
  <2>1. reader' \in Tellings
    <3>1. PICK ready \in SUBSET {c \in Readers : reader[c].session # NoSession /\ reader[c].dirty} :
              reader' = [c \in Readers |->
                  IF c \in ready
                  THEN Attached(reader[c], reader[c].session, sess[reader[c].session])
                  ELSE reader[c]]
      BY <1>5 DEF EndTick
    <3>2. \A c \in ready : /\ reader[c] \in Reader /\ reader[c].session \in SessionIds
                           /\ sess[reader[c].session] \in SUBSET TermIds
      BY <3>1 DEF ReadersKnowTheirTerminals, TypeOK
    <3>3. \A c \in ready : /\ reader'[c] \in Reader /\ reader'[c].session # NoSession
      BY <3>1, <3>2, AttachedType
    <3>4. \A c \in Readers \ ready : reader'[c] = reader[c]
      BY <3>1
    <3>5. reader \in Tellings /\ reader' = [c \in Readers |-> reader'[c]]
      BY <3>1 DEF TypeOK, Tellings
    <3>6. \A c \in Readers : /\ reader'[c] \in Reader
                             /\ reader'[c].session = NoSession =>
                                   reader'[c].known = {} /\ ~reader'[c].dirty
      BY <3>3, <3>4, <3>5 DEF Tellings
    <3> QED
      BY <3>5, <3>6 DEF Tellings
  <2>2. DOMAIN term' \subseteq TermIds /\ term' \in [DOMAIN term' -> Child]
    <3>1. \A t \in DOMAIN term : [term[t] EXCEPT !.damage = FALSE] \in Child
      BY DEF TypeOK, Child
    <3>2. term' = [t \in DOMAIN term |-> [term[t] EXCEPT !.damage = FALSE]]
      BY <1>5 DEF EndTick
    <3>3. DOMAIN term \subseteq TermIds
      BY DEF TypeOK
    <3> QED
      BY <3>1, <3>2, <3>3
  <2>3. /\ phase' \in Phases
        /\ UNCHANGED <<sess, kills, closes, issued, cli, listDirty, running, todo, acts>>
    BY <1>5 DEF EndTick, Phases
  <2>4. /\ DOMAIN sess' \subseteq SessionIds /\ sess' \in [DOMAIN sess' -> SUBSET TermIds]
        /\ DOMAIN kills' \subseteq KillIds /\ kills' \in [DOMAIN kills' -> PendingKill]
        /\ DOMAIN closes' \subseteq TermIds /\ closes' \in [DOMAIN closes' -> PendingClose]
    BY <2>3 DEF TypeOK
  <2>5. /\ issued' \in [sessions : Nat, terms : Nat, kills : Nat] /\ cli' \in [Clis -> Cli]
        /\ listDirty' \in BOOLEAN /\ running' \in BOOLEAN
        /\ todo' \subseteq KillIds \cup TermIds /\ acts' \in 0..MaxActs
    BY <2>3 DEF TypeOK
  <2>6. /\ reader' \in [Readers -> Reader]
        /\ \A c \in Readers : reader'[c].session = NoSession
                              => reader'[c].known = {} /\ ~reader'[c].dirty
    BY <2>1 DEF Tellings
  <2> QED
    BY <2>2, <2>3, <2>4, <2>5, <2>6 DEF TypeOK
<1>6. ASSUME NEW k \in KillIds, TurnOfKill(k) PROVE TypeOK'
  <2>0. phase' \in Phases /\ todo' \subseteq KillIds \cup TermIds /\ acts' \in 0..MaxActs
    BY <1>6, TurnTypes DEF TurnOfKill, KillFindsNoSession, KillWaits, KillEscalates,
       KillDeclined, KillEnds
  <2>1. CASE KillFindsNoSession(k)
    BY <2>0, <2>1 DEF KillFindsNoSession, Drop, TypeOK, told
  <2>2. CASE KillWaits(k)
    BY <2>0, <2>2 DEF KillWaits, TypeOK, told
  <2>3. CASE KillEscalates(k)
    <3>1. DOMAIN kills' \subseteq KillIds /\ kills' \in [DOMAIN kills' -> PendingKill]
      BY <2>3 DEF KillEscalates, Escalated, PendingKill, TypeOK
    <3>2. DOMAIN term' \subseteq TermIds /\ term' \in [DOMAIN term' -> Child]
      BY <2>3, SignalTypes DEF KillEscalates, TypeOK
    <3> QED
      BY <2>0, <2>3, <3>1, <3>2 DEF KillEscalates, TypeOK, told
  <2>4. CASE KillDeclined(k)
    <3>1. reader' \in Tellings /\ cli' \in [Clis -> Cli] /\ listDirty' \in BOOLEAN
      <4>1. DOMAIN sess \in SUBSET SessionIds /\ reader \in Tellings
        BY DEF TypeOK, Tellings
      <4> QED
        BY <2>4, <4>1, BroadcastTypes DEF KillDeclined
    <3>2. DOMAIN kills' \subseteq KillIds /\ kills' \in [DOMAIN kills' -> PendingKill]
      BY <2>4 DEF KillDeclined, Drop, TypeOK
    <3> QED
      BY <2>0, <2>4, <3>1, <3>2 DEF KillDeclined, TypeOK, Tellings
  <2>5. CASE KillEnds(k)
    <3> DEFINE s == kills[k].session
    <3>1. /\ s \in DOMAIN sess /\ term' = Drop(term, sess[s]) /\ kills' = Drop(kills, {k})
          /\ sess' = Drop(sess, {s}) /\ Broadcast(DOMAIN sess \ {s}, Evicted(reader, s))
          /\ running' = StillRunning(DOMAIN sess \ {s}) /\ UNCHANGED <<closes, issued>>
      BY <2>5 DEF KillEnds
    <3>2. s \in SessionIds /\ DOMAIN sess \ {s} \in SUBSET SessionIds /\ reader \in Tellings
      BY <3>1 DEF TypeOK, Tellings
    <3>3. Evicted(reader, s) \in Tellings
      BY <3>2, NewsTypes
    <3>4. reader' \in Tellings /\ cli' \in [Clis -> Cli] /\ listDirty' \in BOOLEAN
      BY <3>1, <3>2, <3>3, BroadcastTypes
    <3>5. /\ DOMAIN sess' \subseteq SessionIds /\ sess' \in [DOMAIN sess' -> SUBSET TermIds]
          /\ DOMAIN term' \subseteq TermIds /\ term' \in [DOMAIN term' -> Child]
          /\ DOMAIN kills' \subseteq KillIds /\ kills' \in [DOMAIN kills' -> PendingKill]
          /\ running' \in BOOLEAN
      BY <3>1 DEF Drop, StillRunning, TypeOK
    <3> QED
      BY <2>0, <3>1, <3>4, <3>5 DEF TypeOK, Tellings
  <2> QED
    BY <1>6, <2>1, <2>2, <2>3, <2>4, <2>5 DEF TurnOfKill
<1>7. ASSUME NEW t \in TermIds, TurnOfClose(t) PROVE TypeOK'
  <2>0. phase' \in Phases /\ todo' \subseteq KillIds \cup TermIds /\ acts' \in 0..MaxActs
    BY <1>7, TurnTypes DEF TurnOfClose, CloseFindsNoTerminal, CloseWaits, CloseEscalates,
       CloseDeclined, CloseEnds
  <2>1. CASE CloseFindsNoTerminal(t)
    BY <2>0, <2>1 DEF CloseFindsNoTerminal, Drop, TypeOK, told
  <2>2. CASE CloseWaits(t)
    BY <2>0, <2>2 DEF CloseWaits, TypeOK, told
  <2>3. CASE CloseEscalates(t)
    <3>1. DOMAIN closes' \subseteq TermIds /\ closes' \in [DOMAIN closes' -> PendingClose]
      BY <2>3 DEF CloseEscalates, Escalated, PendingClose, TypeOK
    <3>2. DOMAIN term' \subseteq TermIds /\ term' \in [DOMAIN term' -> Child]
      BY <2>3, SignalTypes DEF CloseEscalates, TypeOK
    <3> QED
      BY <2>0, <2>3, <3>1, <3>2 DEF CloseEscalates, TypeOK, told
  <2>4. CASE CloseDeclined(t)
    BY <2>0, <2>4 DEF CloseDeclined, Drop, TypeOK, told
  <2>5. CASE CloseEnds(t)
    <3>1. DOMAIN closes' \subseteq TermIds /\ closes' \in [DOMAIN closes' -> PendingClose]
      BY <2>5 DEF CloseEnds, Drop, TypeOK
    <3> QED
      BY <2>0, <2>5, <3>1, RemoveTypes DEF CloseEnds, TypeOK, Tellings
  <2> QED
    BY <1>7, <2>1, <2>2, <2>3, <2>4, <2>5 DEF TurnOfClose
<1>8. ASSUME NEW t \in TermIds, NoticeExit(t) PROVE TypeOK'
  <2>1. CASE term' = [term EXCEPT ![t].announced = TRUE, ![t].told = TRUE]
             /\ UNCHANGED <<sess, told, running>>
    <3>1. DOMAIN term' \subseteq TermIds /\ term' \in [DOMAIN term' -> Child]
      <4>1. t \in DOMAIN term /\ term \in [DOMAIN term -> Child] /\ DOMAIN term \subseteq TermIds
        BY <1>8 DEF NoticeExit, Unnoticed, TypeOK
      <4>2. \A r \in Child : [r EXCEPT !.announced = TRUE, !.told = TRUE] \in Child
        BY DEF Child
      <4>3. /\ DOMAIN term' = DOMAIN term
            /\ term' = [term EXCEPT ![t] = [term[t] EXCEPT !.announced = TRUE, !.told = TRUE]]
        BY <2>1
      <4>4. [term[t] EXCEPT !.announced = TRUE, !.told = TRUE] \in Child
        BY <4>1, <4>2
      <4> QED
        BY <4>1, <4>3, <4>4
    <3> QED
      BY <1>8, <2>1, <3>1 DEF NoticeExit, TypeOK, told, tick
  <2>2. CASE RemoveTerminal(t)
    BY <1>8, <2>2, RemoveTypes DEF NoticeExit, TypeOK, Tellings, tick
  <2> QED
    BY <1>8, <2>1, <2>2 DEF NoticeExit
<1> QED
  BY <1>1, <1>2, <1>3, <1>4, <1>5, <1>6, <1>7, <1>8 DEF Ticking

LEMMA TypeStep ==
    ASSUME TypeOK, ReadersKnowTheirTerminals, [Next]_vars
    PROVE  TypeOK'
<1>1. CASE Requests
  BY <1>1, RequestTypes
<1>2. CASE Ticking
  BY <1>2, TickTypes
<1>3. CASE Shutdown
  BY <1>3 DEF Shutdown, TypeOK, Phases, told, Drop
<1>4. ASSUME NEW t \in TermIds, ChildExits(t) PROVE TypeOK'
  <2>1. DOMAIN term' \subseteq TermIds /\ term' \in [DOMAIN term' -> Child]
    <3>1. \A ok \in BOOLEAN : Exited(term[t], ok) \in Child
      BY <1>4 DEF ChildExits, HasChild, Exited, TypeOK, Child
    <3> QED
      BY <1>4, <3>1 DEF ChildExits, HasChild, TypeOK
  <2> QED
    BY <1>4, <2>1 DEF ChildExits, TypeOK, told, tick
<1>5. ASSUME NEW t \in TermIds, CloseElapses(t) PROVE TypeOK'
  <2>1. DOMAIN closes' \subseteq TermIds /\ closes' \in [DOMAIN closes' -> PendingClose]
    <3>1. t \in DOMAIN closes /\ closes[t] \in PendingClose
      BY <1>5 DEF CloseElapses, TypeOK
    <3>2. Elapsed(closes[t]) \in PendingClose
      BY <3>1 DEF Elapsed, PendingClose
    <3>3. closes' = [closes EXCEPT ![t] = Elapsed(closes[t])]
      BY <1>5 DEF CloseElapses
    <3> QED
      BY <3>1, <3>2, <3>3 DEF TypeOK
  <2> QED
    BY <1>5, <2>1 DEF CloseElapses, TypeOK, told, tick
<1>6. ASSUME NEW k \in KillIds, KillElapses(k) PROVE TypeOK'
  <2>1. DOMAIN kills' \subseteq KillIds /\ kills' \in [DOMAIN kills' -> PendingKill]
    <3>1. k \in DOMAIN kills /\ kills[k] \in PendingKill
      BY <1>6 DEF KillElapses, TypeOK
    <3>2. Elapsed(kills[k]) \in PendingKill
      BY <3>1 DEF Elapsed, PendingKill
    <3>3. kills' = [kills EXCEPT ![k] = Elapsed(kills[k])]
      BY <1>6 DEF KillElapses
    <3> QED
      BY <3>1, <3>2, <3>3 DEF TypeOK
  <2> QED
    BY <1>6, <2>1 DEF KillElapses, TypeOK, told, tick
<1>7. CASE UNCHANGED vars
  BY <1>7 DEF vars, TypeOK
<1> QED
  BY <1>1, <1>2, <1>3, <1>4, <1>5, <1>6, <1>7 DEF Next

(***************************************************************************)
(* What else IInv says: which steps can change it, and how.                *)
(***************************************************************************)
\* The tables the other conjuncts read.
Tables == <<sess, DOMAIN term, issued, running>>

\* Steps that change neither the tables nor what is told, only children, pending
\* entries and the loop's own state.
LEMMA QuietSteps ==
    ASSUME IInv, UNCHANGED <<Tables, reader, cli>>, phase # "stopped"
    PROVE  /\ EveryTerminalHasOneHome' /\ IdsAreFresh' /\ ReadersKnowTheirTerminals'
           /\ WaitingIsSound' /\ EmptyServerStops'
  BY DEF IInv, Tables, EveryTerminalHasOneHome, IdsAreFresh, ReadersKnowTheirTerminals,
     WaitingIsSound, EmptyServerStops

\* A list that goes out names the sessions there will be: whoever waits for the
\* end of one hears of it now or goes on waiting for it.
LEMMA BroadcastTells ==
    ASSUME IInv, NEW f \in Tellings, Broadcast(DOMAIN sess', f),
           issued'.sessions \in Nat, issued.sessions <= issued'.sessions,
           \A s \in DOMAIN sess' \ DOMAIN sess : s > issued.sessions
    PROVE  /\ WaitingIsSound'
           /\ \A c \in Readers : /\ reader'[c].session = f[c].session
                                 /\ reader'[c].known = f[c].known
                                 /\ reader'[c].dirty = f[c].dirty
<1>1. ASSUME NEW c \in Clis, cli'[c].target # NoSession
      PROVE  /\ cli'[c].target <= issued'.sessions
             /\ cli'[c].gone <=> cli'[c].target \notin DOMAIN sess'
             /\ cli'[c].waiting <=> ~cli'[c].gone
  <2>1. cli'[c] = Heard(c, DOMAIN sess') /\ cli[c] \in Cli
    BY DEF Broadcast, Listing, IInv, TypeOK
  <2>2. cli'[c].target = cli[c].target
    BY <2>1 DEF Heard, Cli
  <2>3. /\ cli[c].target \in Nat /\ cli[c].target <= issued.sessions /\ issued.sessions \in Nat
        /\ cli[c].gone <=> cli[c].target \notin DOMAIN sess
        /\ cli[c].waiting <=> ~cli[c].gone
    BY <1>1, <2>1, <2>2, IdAssumption DEF IInv, WaitingIsSound, TypeOK, Cli, NoSession
  <2>4. cli[c].gone => cli[c].target \notin DOMAIN sess'
    BY <2>3, IdAssumption DEF IInv, TypeOK
  <2>5. CASE cli[c].waiting /\ cli[c].target \notin DOMAIN sess'
    BY <2>1, <2>2, <2>3, <2>5 DEF Heard, Cli
  <2>6. CASE ~(cli[c].waiting /\ cli[c].target \notin DOMAIN sess')
    BY <2>1, <2>2, <2>3, <2>4, <2>6 DEF Heard
  <2> QED
    BY <2>5, <2>6
<1>2. \A c \in Readers : /\ reader'[c].session = f[c].session
                         /\ reader'[c].known = f[c].known
                         /\ reader'[c].dirty = f[c].dirty
  BY DEF Broadcast, Tellings, Reader
<1> QED
  BY <1>1, <1>2 DEF WaitingIsSound

\* A change of the sessions' lists that ends in BroadcastLess keeps everything,
\* if it would before the emptied session goes.
LEMMA LessKeeps ==
    ASSUME IInv, NEW left, NEW s \in DOMAIN left, NEW f \in Tellings,
           BroadcastLess(s, left, f), DOMAIN left \subseteq SessionIds,
           \A t \in DOMAIN term' : \E r \in DOMAIN left : t \in left[r],
           \A r \in DOMAIN left : left[r] \subseteq DOMAIN term',
           \A r, q \in DOMAIN left : r # q => left[r] \cap left[q] = {},
           \A c \in Readers : f[c].session # NoSession =>
               f[c].session \in DOMAIN left /\ (~f[c].dirty => f[c].known = left[f[c].session]),
           issued'.sessions \in Nat, issued.sessions <= issued'.sessions,
           \A r \in DOMAIN left \ DOMAIN sess : r > issued.sessions
    PROVE  /\ EveryTerminalHasOneHome' /\ ReadersKnowTheirTerminals'
           /\ WaitingIsSound' /\ EmptyServerStops'
<1>1. CASE Goes(s, left)
  <2>1. /\ sess' = Drop(left, {s}) /\ Broadcast(DOMAIN left \ {s}, Evicted(f, s))
        /\ running' = StillRunning(DOMAIN left \ {s}) /\ left[s] = {}
    BY <1>1 DEF BroadcastLess, Goes
  <2>2. DOMAIN sess' = DOMAIN left \ {s} /\ \A r \in DOMAIN sess' : sess'[r] = left[r]
    BY <2>1 DEF Drop
  <2>3. Evicted(f, s) \in Tellings
    BY NewsTypes
  <2>4. /\ WaitingIsSound'
        /\ \A c \in Readers : /\ reader'[c].session = Evicted(f, s)[c].session
                              /\ reader'[c].known = Evicted(f, s)[c].known
                              /\ reader'[c].dirty = Evicted(f, s)[c].dirty
    <3>1. Broadcast(DOMAIN sess', Evicted(f, s))
      BY <2>1, <2>2
    <3>2. \A r \in DOMAIN sess' \ DOMAIN sess : r > issued.sessions
      BY <2>2
    <3> QED
      BY <2>3, <3>1, <3>2, BroadcastTells
  <2>5. EveryTerminalHasOneHome'
    <3>1. \A t \in DOMAIN term' : \E r \in DOMAIN sess' : t \in sess'[r]
      <4> SUFFICES ASSUME NEW t \in DOMAIN term' PROVE \E r \in DOMAIN sess' : t \in sess'[r]
        OBVIOUS
      <4>1. PICK r \in DOMAIN left : t \in left[r]
        OBVIOUS
      <4>2. r # s
        BY <2>1, <4>1
      <4> QED
        BY <2>2, <4>1, <4>2
    <3>2. \A r \in DOMAIN sess' : sess'[r] \subseteq DOMAIN term'
      BY <2>2
    <3>3. \A r, q \in DOMAIN sess' : r # q => sess'[r] \cap sess'[q] = {}
      BY <2>2
    <3> QED
      BY <3>1, <3>2, <3>3 DEF EveryTerminalHasOneHome
  <2>6. ReadersKnowTheirTerminals'
    <3> SUFFICES ASSUME NEW c \in Readers, reader'[c].session # NoSession
                 PROVE  /\ reader'[c].session \in DOMAIN sess'
                        /\ ~reader'[c].dirty => reader'[c].known = sess'[reader'[c].session]
      BY DEF ReadersKnowTheirTerminals
    <3>1. f[c].session # s
      BY <2>4, DetachedType DEF Evicted, Tellings
    <3>2. Evicted(f, s)[c] = f[c]
      BY <3>1 DEF Evicted
    <3> QED
      BY <2>2, <2>4, <3>1, <3>2
  <2>7. EmptyServerStops'
    BY <2>1, <2>2 DEF EmptyServerStops, StillRunning
  <2> QED
    BY <2>4, <2>5, <2>6, <2>7
<1>2. CASE ~Goes(s, left)
  <2>1. sess' = left /\ Broadcast(DOMAIN sess', f)
    BY <1>2 DEF BroadcastLess
  <2>2. /\ WaitingIsSound'
        /\ \A c \in Readers : /\ reader'[c].session = f[c].session
                              /\ reader'[c].known = f[c].known
                              /\ reader'[c].dirty = f[c].dirty
    BY <2>1, BroadcastTells
  <2>3. EveryTerminalHasOneHome' /\ ReadersKnowTheirTerminals'
    BY <2>1, <2>2 DEF EveryTerminalHasOneHome, ReadersKnowTheirTerminals
  <2>4. EmptyServerStops'
    BY <2>1 DEF EmptyServerStops
  <2> QED
    BY <2>2, <2>3, <2>4
<1> QED
  BY <1>1, <1>2

\* A terminal that goes takes its place in its session with it.
LEMMA RemoveKeeps ==
    ASSUME IInv, NEW t \in DOMAIN term, RemoveTerminal(t), phase # "stopped", UNCHANGED issued
    PROVE  /\ EveryTerminalHasOneHome' /\ IdsAreFresh' /\ ReadersKnowTheirTerminals'
           /\ WaitingIsSound' /\ EmptyServerStops'
<1> PICK home \in DOMAIN sess :
        Holds(home, t) /\ BroadcastLess(home, [sess EXCEPT ![home] = @ \ {t}], Closed(home, t))
  BY DEF RemoveTerminal
<1> DEFINE left == [sess EXCEPT ![home] = @ \ {t}]
           f == Closed(home, t)
<1>1. /\ home \in SessionIds /\ t \in TermIds /\ t \in sess[home] /\ TypeOK
      /\ DOMAIN term' = DOMAIN term \ {t} /\ DOMAIN left = DOMAIN sess
      /\ left[home] = sess[home] \ {t}
      /\ \A r \in DOMAIN sess : r # home => left[r] = sess[r]
  BY DEF Holds, IInv, TypeOK, RemoveTerminal, Drop
<1>2. f \in Tellings
  BY <1>1, ToldTypes
<1>3. /\ \A u \in DOMAIN term : \E r \in DOMAIN sess : u \in sess[r]
      /\ \A r \in DOMAIN sess : sess[r] \subseteq DOMAIN term
      /\ \A r, q \in DOMAIN sess : r # q => sess[r] \cap sess[q] = {}
  BY DEF IInv, EveryTerminalHasOneHome
<1>4. \A u \in DOMAIN term' : \E r \in DOMAIN left : u \in left[r]
  <2> SUFFICES ASSUME NEW u \in DOMAIN term' PROVE \E r \in DOMAIN left : u \in left[r]
    OBVIOUS
  <2>1. PICK r \in DOMAIN sess : u \in sess[r]
    BY <1>1, <1>3
  <2>2. u \in left[r]
    BY <1>1, <2>1
  <2> QED
    BY <1>1, <2>1, <2>2
<1>5. \A r \in DOMAIN left : left[r] \subseteq DOMAIN term'
  <2> SUFFICES ASSUME NEW r \in DOMAIN left PROVE left[r] \subseteq DOMAIN term'
    OBVIOUS
  <2>1. CASE r = home
    BY <1>1, <1>3, <2>1
  <2>2. CASE r # home
    BY <1>1, <1>3, <2>2
  <2> QED
    BY <2>1, <2>2
<1>6. \A r, q \in DOMAIN left : r # q => left[r] \cap left[q] = {}
  <2>1. \A r \in DOMAIN left : left[r] \subseteq sess[r]
    BY <1>1
  <2> QED
    BY <1>1, <1>3, <2>1
<1>7. \A c \in Readers : f[c].session # NoSession =>
          f[c].session \in DOMAIN left /\ (~f[c].dirty => f[c].known = left[f[c].session])
  <2> SUFFICES ASSUME NEW c \in Readers, f[c].session # NoSession
               PROVE  f[c].session \in DOMAIN left /\ (~f[c].dirty => f[c].known = left[f[c].session])
    OBVIOUS
  <2>0. reader[c] \in Reader
    BY <1>1 DEF TypeOK
  <2>1. CASE reader[c].session = home
    <3>1. f[c] = [reader[c] EXCEPT !.known = @ \ {t}]
      BY <2>1 DEF Closed
    <3>2. f[c].session = home /\ f[c].dirty = reader[c].dirty /\ f[c].known = reader[c].known \ {t}
      BY <2>0, <2>1, <3>1 DEF Reader
    <3>3. ~reader[c].dirty => reader[c].known = sess[home]
      BY <2>1, <1>1, IdAssumption DEF IInv, ReadersKnowTheirTerminals, NoSession
    <3> QED
      BY <1>1, <3>2, <3>3
  <2>2. CASE reader[c].session # home
    <3>1. f[c] = reader[c]
      BY <2>2 DEF Closed
    <3> QED
      BY <1>1, <2>2, <3>1 DEF IInv, ReadersKnowTheirTerminals
  <2> QED
    BY <2>1, <2>2
<1>8. BroadcastLess(home, left, f) /\ DOMAIN left \subseteq SessionIds
  BY <1>1 DEF TypeOK
<1>9. issued'.sessions \in Nat /\ issued.sessions <= issued'.sessions
  BY <1>1 DEF TypeOK
<1> HIDE DEF left, f
<1>10. EveryTerminalHasOneHome' /\ ReadersKnowTheirTerminals' /\ WaitingIsSound' /\ EmptyServerStops'
  <2>1. home \in DOMAIN left /\ \A r \in DOMAIN left \ DOMAIN sess : r > issued.sessions
    BY <1>1
  <2> QED
    BY <1>2, <1>4, <1>5, <1>6, <1>7, <1>8, <1>9, <2>1, LessKeeps
<1>11. IdsAreFresh'
  <2>1. DOMAIN sess' \subseteq DOMAIN sess
    BY <1>1, <1>8 DEF BroadcastLess, Drop
  <2> QED
    BY <1>1, <2>1 DEF IInv, IdsAreFresh
<1> QED
  BY <1>10, <1>11

\* A terminal that moves leaves one session for another.
LEMMA MoveKeeps ==
    ASSUME IInv, NEW t \in DOMAIN term, MoveTerminal(t)
    PROVE  /\ EveryTerminalHasOneHome' /\ IdsAreFresh' /\ ReadersKnowTheirTerminals'
           /\ WaitingIsSound' /\ EmptyServerStops'
<1> PICK from \in DOMAIN sess, to \in SessionIds :
        /\ Holds(from, t) /\ from # to
        /\ \/ to \in DOMAIN sess /\ UNCHANGED issued
           \/ to = issued.sessions + 1 /\ issued' = [issued EXCEPT !.sessions = @ + 1]
        /\ LET arrived == IF to \in DOMAIN sess THEN sess[to] \cup {t} ELSE {t}
           IN BroadcastLess(from, Put([sess EXCEPT ![from] = Leaving(from, t)], to, arrived),
                            NewsFor(to, Closed(from, t)))
  BY DEF MoveTerminal
<1> DEFINE arrived == IF to \in DOMAIN sess THEN sess[to] \cup {t} ELSE {t}
           left == Put([sess EXCEPT ![from] = Leaving(from, t)], to, arrived)
           f == NewsFor(to, Closed(from, t))
<1>1. /\ from \in SessionIds /\ t \in TermIds /\ t \in sess[from] /\ TypeOK
      /\ DOMAIN left = DOMAIN sess \cup {to} /\ UNCHANGED term
      /\ left[from] = sess[from] \ {t} /\ left[to] = arrived
      /\ \A r \in DOMAIN sess : r # from /\ r # to => left[r] = sess[r]
  BY DEF Holds, IInv, TypeOK, MoveTerminal, Put, Leaving
<1>2. f \in Tellings
  BY <1>1, ToldTypes, NewsTypes
<1>3. /\ \A u \in DOMAIN term : \E r \in DOMAIN sess : u \in sess[r]
      /\ \A r \in DOMAIN sess : sess[r] \subseteq DOMAIN term
      /\ \A r, q \in DOMAIN sess : r # q => sess[r] \cap sess[q] = {}
  BY DEF IInv, EveryTerminalHasOneHome, MoveTerminal, Request
<1>4. \A u \in DOMAIN term' : \E r \in DOMAIN left : u \in left[r]
  <2> SUFFICES ASSUME NEW u \in DOMAIN term' PROVE \E r \in DOMAIN left : u \in left[r]
    OBVIOUS
  <2>1. CASE u = t
    BY <1>1, <2>1
  <2>2. CASE u # t
    <3>1. PICK r \in DOMAIN sess : u \in sess[r]
      BY <1>1, <1>3
    <3>2. u \in left[r]
      BY <1>1, <2>2, <3>1
    <3> QED
      BY <1>1, <3>1, <3>2
  <2> QED
    BY <2>1, <2>2
<1>5. \A r \in DOMAIN left : left[r] \subseteq DOMAIN term'
  <2> SUFFICES ASSUME NEW r \in DOMAIN left PROVE left[r] \subseteq DOMAIN term'
    OBVIOUS
  <2>1. CASE r = to /\ to \in DOMAIN sess
    <3>1. left[r] = sess[to] \cup {t}
      BY <1>1, <2>1
    <3>2. sess[to] \subseteq DOMAIN term /\ t \in DOMAIN term /\ DOMAIN term' = DOMAIN term
      BY <1>1, <1>3, <2>1
    <3> QED
      BY <3>1, <3>2
  <2>2. CASE r = to /\ to \notin DOMAIN sess
    <3>1. left[r] = {t}
      BY <1>1, <2>2
    <3> QED
      BY <1>1, <3>1
  <2>3. CASE r = from
    BY <1>1, <1>3, <2>3
  <2>4. CASE r # to /\ r # from
    BY <1>1, <1>3, <2>4
  <2> QED
    BY <2>1, <2>2, <2>3, <2>4
<1>6. \A r, q \in DOMAIN left : r # q => left[r] \cap left[q] = {}
  <2>1. \A r \in DOMAIN left : r # to => left[r] \subseteq sess[r] /\ t \notin left[r]
    <3> SUFFICES ASSUME NEW r \in DOMAIN left, r # to
                 PROVE  left[r] \subseteq sess[r] /\ t \notin left[r]
      OBVIOUS
    <3>1. CASE r = from
      BY <1>1, <3>1
    <3>2. CASE r # from
      BY <1>1, <1>3, <3>2
    <3> QED
      BY <3>1, <3>2
  <2>2. \A r \in DOMAIN left : r # to => r \in DOMAIN sess
    BY <1>1
  <2>3. \A r \in DOMAIN left : r # to => left[r] \cap left[to] = {}
    <3> SUFFICES ASSUME NEW r \in DOMAIN left, r # to PROVE left[r] \cap left[to] = {}
      OBVIOUS
    <3>1. CASE to \in DOMAIN sess
      <4>1. left[to] = sess[to] \cup {t} /\ sess[r] \cap sess[to] = {}
        BY <1>1, <1>3, <2>2, <3>1
      <4> QED
        BY <2>1, <4>1
    <3>2. CASE to \notin DOMAIN sess
      BY <1>1, <2>1, <3>2
    <3> QED
      BY <3>1, <3>2
  <2>4. \A r, q \in DOMAIN left : r # to /\ q # to /\ r # q => left[r] \cap left[q] = {}
    <3> SUFFICES ASSUME NEW r \in DOMAIN left, NEW q \in DOMAIN left, r # to, q # to, r # q
                 PROVE  left[r] \cap left[q] = {}
      OBVIOUS
    <3>1. left[r] \subseteq sess[r] /\ left[q] \subseteq sess[q]
      BY <2>1
    <3>2. r \in DOMAIN sess /\ q \in DOMAIN sess
      BY <2>2
    <3>3. sess[r] \cap sess[q] = {}
      BY <1>3, <3>2
    <3> QED
      BY <3>1, <3>3
  <2> QED
    BY <2>3, <2>4
<1>7. \A c \in Readers : f[c].session # NoSession =>
          f[c].session \in DOMAIN left /\ (~f[c].dirty => f[c].known = left[f[c].session])
  <2> SUFFICES ASSUME NEW c \in Readers, f[c].session # NoSession
               PROVE  f[c].session \in DOMAIN left /\ (~f[c].dirty => f[c].known = left[f[c].session])
    OBVIOUS
  <2>0. reader[c] \in Reader
    BY <1>1 DEF TypeOK
  <2>1. CASE reader[c].session = from
    <3>1. f[c] = [reader[c] EXCEPT !.known = @ \ {t}]
      BY <2>0, <2>1 DEF Closed, NewsFor, Reader
    <3>2. f[c].session = from /\ f[c].dirty = reader[c].dirty /\ f[c].known = reader[c].known \ {t}
      BY <2>0, <2>1, <3>1 DEF Reader
    <3>3. ~reader[c].dirty => reader[c].known = sess[from]
      BY <2>1, <1>1, IdAssumption DEF IInv, ReadersKnowTheirTerminals, NoSession
    <3> QED
      BY <1>1, <3>2, <3>3
  <2>2. CASE reader[c].session = to
    <3>1. f[c] = [reader[c] EXCEPT !.dirty = TRUE]
      BY <2>2 DEF Closed, NewsFor
    <3>2. f[c].session = to /\ f[c].dirty
      BY <2>0, <2>2, <3>1 DEF Reader
    <3> QED
      BY <1>1, <3>2
  <2>3. CASE reader[c].session # from /\ reader[c].session # to
    <3>1. f[c] = reader[c]
      BY <2>3 DEF Closed, NewsFor
    <3> QED
      BY <1>1, <2>3, <3>1 DEF IInv, ReadersKnowTheirTerminals
  <2> QED
    BY <2>1, <2>2, <2>3
<1>8. BroadcastLess(from, left, f) /\ DOMAIN left \subseteq SessionIds
  BY <1>1 DEF TypeOK
<1>9. /\ issued'.sessions \in Nat /\ issued.sessions <= issued'.sessions
      /\ issued.sessions \in Nat /\ issued'.terms = issued.terms
      /\ to <= issued'.sessions /\ (to \notin DOMAIN sess => to > issued.sessions)
  BY <1>1 DEF TypeOK, IInv, IdsAreFresh
<1> HIDE DEF left, f
<1>10. EveryTerminalHasOneHome' /\ ReadersKnowTheirTerminals' /\ WaitingIsSound' /\ EmptyServerStops'
  <2>1. from \in DOMAIN left /\ \A r \in DOMAIN left \ DOMAIN sess : r > issued.sessions
    BY <1>1, <1>9
  <2> QED
    BY <1>2, <1>4, <1>5, <1>6, <1>7, <1>8, <1>9, <2>1, LessKeeps
<1>11. IdsAreFresh'
  <2>1. DOMAIN sess' \subseteq DOMAIN sess \cup {to}
    BY <1>1, <1>8 DEF BroadcastLess, Drop
  <2>2. \A s \in DOMAIN sess : s \in Nat /\ s <= issued.sessions
    BY <1>1, IdAssumption DEF IInv, IdsAreFresh, TypeOK
  <2>3. \A s \in DOMAIN sess' : s <= issued'.sessions
    BY <1>9, <2>1, <2>2
  <2> QED
    BY <1>1, <1>9, <2>3 DEF IInv, IdsAreFresh
<1> QED
  BY <1>10, <1>11

(***************************************************************************)
(* Every step keeps what IInv says besides the types.                      *)
(***************************************************************************)
LEMMA RequestKeeps ==
    ASSUME IInv, Requests
    PROVE  /\ EveryTerminalHasOneHome' /\ IdsAreFresh' /\ ReadersKnowTheirTerminals'
           /\ WaitingIsSound' /\ EmptyServerStops'
<1> DEFINE Kept == /\ EveryTerminalHasOneHome' /\ IdsAreFresh' /\ ReadersKnowTheirTerminals'
                   /\ WaitingIsSound' /\ EmptyServerStops'
<1>0. /\ phase = "serve" /\ TypeOK
      /\ issued.sessions \in Nat /\ issued.terms \in Nat
      /\ \A s \in DOMAIN sess : s \in Nat /\ s <= issued.sessions
      /\ \A t \in DOMAIN term : t \in Nat /\ t <= issued.terms
  <2>1. Request
    BY DEF Requests, NewSession, KillServer, Attach, Leave, NewTerminal, RespawnTerminal,
           KillTerminal, MoveTerminal, CloseTerminal, KillSession, CliKillSession, BeginKill
  <2> QED
    BY <2>1, IdAssumption DEF Request, IInv, TypeOK, IdsAreFresh
<1>h. /\ \A u \in DOMAIN term : \E r \in DOMAIN sess : u \in sess[r]
      /\ \A r \in DOMAIN sess : sess[r] \subseteq DOMAIN term
      /\ \A r, q \in DOMAIN sess : r # q => sess[r] \cap sess[q] = {}
  BY <1>0 DEF IInv, EveryTerminalHasOneHome
<1>1. CASE NewSession
  <2> DEFINE n == issued.sessions + 1
  <2>1. n \notin DOMAIN sess /\ issued.terms + 1 \notin DOMAIN term
    BY <1>0
  <2>2. PICK S \in SUBSET TermIds :
            /\ sess' = Put(sess, n, S) /\ DOMAIN term' = DOMAIN term \cup S
            /\ S = {} \/ S = {issued.terms + 1}
            /\ S = {} => issued' = [issued EXCEPT !.sessions = @ + 1]
            /\ S # {} => issued' = [issued EXCEPT !.sessions = @ + 1, !.terms = @ + 1]
    <3>1. CASE /\ sess' = Put(sess, n, {})
               /\ issued' = [issued EXCEPT !.sessions = @ + 1] /\ UNCHANGED term
      BY <3>1
    <3>2. CASE /\ issued.terms + 1 \in TermIds /\ sess' = Put(sess, n, {issued.terms + 1})
               /\ \E works \in BOOLEAN : term' = Put(term, issued.terms + 1, Launched(works))
               /\ issued' = [issued EXCEPT !.sessions = @ + 1, !.terms = @ + 1]
      <4>1. DOMAIN term' = DOMAIN term \cup {issued.terms + 1}
        BY <3>2 DEF Put
      <4> QED
        BY <3>2, <4>1
    <3> QED
      BY <1>1, <3>1, <3>2 DEF NewSession
  <2>3. /\ DOMAIN sess' = DOMAIN sess \cup {n} /\ sess'[n] = S
        /\ \A r \in DOMAIN sess : sess'[r] = sess[r]
    BY <2>1, <2>2 DEF Put
  <2>4. /\ issued'.sessions = n /\ issued'.terms \in Nat /\ issued.terms <= issued'.terms
        /\ \A t \in S : t <= issued'.terms
    <3>0. issued \in [sessions : Nat, terms : Nat, kills : Nat]
      BY <1>0 DEF TypeOK
    <3>1. CASE S = {}
      BY <2>2, <3>0, <3>1
    <3>2. CASE S = {issued.terms + 1}
      <4>1. issued' = [issued EXCEPT !.sessions = @ + 1, !.terms = @ + 1]
        BY <2>2, <3>2
      <4> QED
        BY <3>0, <3>2, <4>1
    <3> QED
      BY <2>2, <3>1, <3>2
  <2>5. EveryTerminalHasOneHome'
    <3>1. \A u \in DOMAIN term' : \E r \in DOMAIN sess' : u \in sess'[r]
      BY <1>h, <2>2, <2>3
    <3>2. \A r \in DOMAIN sess' : sess'[r] \subseteq DOMAIN term'
      BY <1>h, <2>2, <2>3
    <3>3. \A r \in DOMAIN sess : sess[r] \cap S = {}
      BY <1>h, <2>1, <2>2
    <3>4. \A r, q \in DOMAIN sess' : r # q => sess'[r] \cap sess'[q] = {}
      BY <1>h, <2>3, <3>3
    <3> QED
      BY <3>1, <3>2, <3>4 DEF EveryTerminalHasOneHome
  <2>6. IdsAreFresh'
    BY <1>0, <2>2, <2>3, <2>4 DEF IdsAreFresh
  <2>7. /\ WaitingIsSound'
        /\ \A c \in Readers : /\ reader'[c].session = reader[c].session
                              /\ reader'[c].known = reader[c].known
                              /\ reader'[c].dirty = reader[c].dirty
    <3>1. Broadcast(DOMAIN sess', reader) /\ reader \in Tellings
      BY <1>0, <1>1, <2>3 DEF NewSession, TypeOK, Tellings
    <3>2. \A s \in DOMAIN sess' \ DOMAIN sess : s > issued.sessions
      BY <1>0, <2>3
    <3> QED
      BY <1>0, <2>4, <3>1, <3>2, BroadcastTells
  <2>8. ReadersKnowTheirTerminals'
    BY <2>3, <2>7 DEF IInv, ReadersKnowTheirTerminals
  <2>9. EmptyServerStops'
    BY <2>3 DEF EmptyServerStops
  <2> QED
    BY <2>5, <2>6, <2>7, <2>8, <2>9
<1>2. CASE KillServer
  <2>1. UNCHANGED <<sess, term, issued, reader, cli>> /\ ~running'
    BY <1>2 DEF KillServer, told
  <2> QED
    BY <1>0, <2>1 DEF IInv, EveryTerminalHasOneHome, IdsAreFresh, ReadersKnowTheirTerminals,
       WaitingIsSound, EmptyServerStops
<1>3. ASSUME NEW c \in Readers, Attach(c) PROVE Kept
  <2>1. PICK s \in SessionIds, K \in SUBSET TermIds, others \in [Readers -> Reader] :
            /\ others \in Remaining(c, s) /\ reader' = [others EXCEPT ![c] = Attached(@, s, K)]
            /\ \/ /\ s = issued.sessions + 1 /\ K = {} /\ DOMAIN sess = {}
                  /\ sess' = Put(sess, s, {}) /\ issued' = [issued EXCEPT !.sessions = @ + 1]
               \/ s \in DOMAIN sess /\ K = sess[s] /\ UNCHANGED <<sess, issued>>
    <3>1. \A s \in DOMAIN sess : s \in SessionIds /\ sess[s] \in SUBSET TermIds
      BY <1>0 DEF TypeOK
    <3>2. \A s \in SessionIds : /\ reader \in Remaining(c, s)
                               /\ Remaining(c, s) \subseteq [Readers -> Reader]
      BY <1>0, RemainingTypes DEF Remaining, Tellings
    <3> QED
      BY <1>3, <3>1, <3>2 DEF Attach
  <2>2. UNCHANGED <<term, cli, running>>
    BY <1>3 DEF Attach
  <2>3. /\ DOMAIN sess' = DOMAIN sess \cup {s} /\ sess'[s] = K
        /\ \A r \in DOMAIN sess : sess'[r] = sess[r]
        /\ issued'.sessions \in Nat /\ issued.sessions <= issued'.sessions
        /\ issued'.terms = issued.terms /\ s <= issued'.sessions
    <3>0. issued \in [sessions : Nat, terms : Nat, kills : Nat]
      BY <1>0 DEF TypeOK
    <3>1. CASE /\ s = issued.sessions + 1 /\ K = {} /\ DOMAIN sess = {}
               /\ sess' = Put(sess, s, {}) /\ issued' = [issued EXCEPT !.sessions = @ + 1]
      BY <3>0, <3>1 DEF Put
    <3>2. CASE s \in DOMAIN sess /\ K = sess[s] /\ UNCHANGED <<sess, issued>>
      <4>1. DOMAIN sess' = DOMAIN sess \cup {s}
        BY <3>2
      <4> QED
        BY <1>0, <3>0, <3>2, <4>1
    <3> QED
      BY <2>1, <3>1, <3>2
  <2>4. EveryTerminalHasOneHome'
    <3>1. CASE DOMAIN sess = {} /\ K = {}
      BY <1>h, <2>2, <2>3, <3>1 DEF EveryTerminalHasOneHome
    <3>2. CASE UNCHANGED sess
      BY <1>h, <2>2, <3>2 DEF EveryTerminalHasOneHome
    <3> QED
      BY <2>1, <3>1, <3>2
  <2>5. IdsAreFresh'
    BY <1>0, <2>2, <2>3 DEF IdsAreFresh
  <2>6. ReadersKnowTheirTerminals'
    <3> SUFFICES ASSUME NEW d \in Readers, reader'[d].session # NoSession
                 PROVE  /\ reader'[d].session \in DOMAIN sess'
                        /\ ~reader'[d].dirty => reader'[d].known = sess'[reader'[d].session]
      BY DEF ReadersKnowTheirTerminals
    <3>0. others \in Tellings /\ (others[d] = reader[d] \/ others[d].session = NoSession)
      BY <1>0, <2>1, RemainingTypes
    <3>1. CASE d = c
      <4>1. others[c] \in Reader /\ reader'[c] = Attached(others[c], s, K)
        BY <2>1, <3>0 DEF Tellings
      <4>2. reader'[c].session = s /\ reader'[c].known = K
        BY <4>1 DEF Attached, Reader
      <4> QED
        BY <2>3, <3>1, <4>2
    <3>2. CASE d # c
      <4>1. reader'[d] = reader[d]
        BY <2>1, <3>0, <3>2 DEF Tellings
      <4> QED
        BY <2>3, <4>1 DEF IInv, ReadersKnowTheirTerminals
    <3> QED
      BY <3>1, <3>2
  <2>7. WaitingIsSound'
    <3> SUFFICES ASSUME NEW d \in Clis, cli[d].target # NoSession
                 PROVE  /\ cli[d].target <= issued'.sessions
                        /\ cli[d].gone <=> cli[d].target \notin DOMAIN sess'
                        /\ cli[d].waiting <=> ~cli[d].gone
      BY <2>2 DEF WaitingIsSound
    <3>1. /\ cli[d].target \in Nat /\ cli[d].target <= issued.sessions
          /\ cli[d].gone <=> cli[d].target \notin DOMAIN sess
          /\ cli[d].waiting <=> ~cli[d].gone
      BY <1>0, IdAssumption DEF IInv, WaitingIsSound, TypeOK, Cli, NoSession
    <3>2. cli[d].target \notin DOMAIN sess => cli[d].target \notin DOMAIN sess'
      BY <1>0, <2>1, <2>3, <3>1
    <3> QED
      BY <1>0, <2>3, <3>1, <3>2
  <2>8. EmptyServerStops'
    BY <2>3 DEF EmptyServerStops
  <2> QED
    BY <2>4, <2>5, <2>6, <2>7, <2>8
<1>4. ASSUME NEW c \in Readers, Leave(c) PROVE Kept
  <2>1. UNCHANGED <<sess, term, issued, cli, running>> /\ reader' = [reader EXCEPT ![c] = Detached(@)]
    BY <1>4 DEF Leave
  <2>2. ReadersKnowTheirTerminals'
    <3>1. reader'[c].session = NoSession
      BY <1>0, <2>1, DetachedType DEF TypeOK
    <3> QED
      BY <2>1, <3>1 DEF IInv, ReadersKnowTheirTerminals
  <2> QED
    BY <1>0, <2>1, <2>2 DEF IInv, EveryTerminalHasOneHome, IdsAreFresh, WaitingIsSound,
       EmptyServerStops
<1>5. ASSUME NEW c \in Readers, NewTerminal(c) PROVE Kept
  <2> DEFINE n == issued.terms + 1
  <2> PICK s \in DOMAIN sess, works \in BOOLEAN :
          /\ s = reader[c].session
          /\ sess' = [sess EXCEPT ![s] = @ \cup {n}]
          /\ term' = Put(term, n, Launched(works))
          /\ reader' = Opened(s, n)
    BY <1>5 DEF NewTerminal
  <2>1. /\ UNCHANGED <<cli, running>> /\ issued' = [issued EXCEPT !.terms = @ + 1]
        /\ n \notin DOMAIN term /\ s \in SessionIds
    BY <1>0, <1>5 DEF NewTerminal, TypeOK
  <2>2. /\ DOMAIN sess' = DOMAIN sess /\ sess'[s] = sess[s] \cup {n}
        /\ \A r \in DOMAIN sess : r # s => sess'[r] = sess[r]
        /\ DOMAIN term' = DOMAIN term \cup {n}
        /\ issued'.sessions = issued.sessions /\ issued'.terms = n
    BY <1>0, <2>1 DEF Put, TypeOK
  <2>3. EveryTerminalHasOneHome'
    <3>1. \A u \in DOMAIN term' : \E r \in DOMAIN sess' : u \in sess'[r]
      BY <1>h, <2>2
    <3>2. \A r \in DOMAIN sess' : sess'[r] \subseteq DOMAIN term'
      <4> SUFFICES ASSUME NEW r \in DOMAIN sess' PROVE sess'[r] \subseteq DOMAIN term'
        OBVIOUS
      <4>1. CASE r = s
        BY <1>h, <2>2, <4>1
      <4>2. CASE r # s
        BY <1>h, <2>2, <4>2
      <4> QED
        BY <4>1, <4>2
    <3>3. \A r \in DOMAIN sess : n \notin sess[r]
      BY <1>h, <2>1
    <3>4. \A r, q \in DOMAIN sess' : r # q => sess'[r] \cap sess'[q] = {}
      BY <1>h, <2>2, <3>3
    <3> QED
      BY <3>1, <3>2, <3>4 DEF EveryTerminalHasOneHome
  <2>4. IdsAreFresh'
    BY <1>0, <2>2 DEF IdsAreFresh
  <2>5. ReadersKnowTheirTerminals'
    <3> SUFFICES ASSUME NEW d \in Readers, reader'[d].session # NoSession
                 PROVE  /\ reader'[d].session \in DOMAIN sess'
                        /\ ~reader'[d].dirty => reader'[d].known = sess'[reader'[d].session]
      BY DEF ReadersKnowTheirTerminals
    <3>0. reader[d] \in Reader
      BY <1>0 DEF TypeOK
    <3>1. CASE reader[d].session = s
      <4>1. reader'[d] = [reader[d] EXCEPT !.known = @ \cup {n}]
        BY <3>1 DEF Opened
      <4>2. /\ reader'[d].session = s /\ reader'[d].dirty = reader[d].dirty
            /\ reader'[d].known = reader[d].known \cup {n}
        BY <3>0, <3>1, <4>1 DEF Reader
      <4>3. ~reader[d].dirty => reader[d].known = sess[s]
        BY <2>1, <3>1, IdAssumption DEF IInv, ReadersKnowTheirTerminals, NoSession
      <4> QED
        BY <2>2, <4>2, <4>3
    <3>2. CASE reader[d].session # s
      <4>1. reader'[d] = reader[d]
        BY <3>2 DEF Opened
      <4> QED
        BY <2>2, <3>2, <4>1 DEF IInv, ReadersKnowTheirTerminals
    <3> QED
      BY <3>1, <3>2
  <2>6. WaitingIsSound'
    BY <2>1, <2>2 DEF IInv, WaitingIsSound
  <2>7. EmptyServerStops'
    BY <2>2 DEF EmptyServerStops
  <2> QED
    BY <2>3, <2>4, <2>5, <2>6, <2>7
<1>6. ASSUME NEW t \in DOMAIN term, RespawnTerminal(t) PROVE Kept
  <2>1. PICK s \in DOMAIN sess : Holds(s, t) /\ reader' = Opened(s, t)
    BY <1>6 DEF RespawnTerminal
  <2>2. UNCHANGED <<sess, issued, cli, running>> /\ DOMAIN term' = DOMAIN term /\ s \in SessionIds
    BY <1>0, <1>6 DEF RespawnTerminal, TypeOK
  <2>3. ReadersKnowTheirTerminals'
    <3> SUFFICES ASSUME NEW d \in Readers, reader'[d].session # NoSession
                 PROVE  /\ reader'[d].session \in DOMAIN sess
                        /\ ~reader'[d].dirty => reader'[d].known = sess[reader'[d].session]
      BY <2>2 DEF ReadersKnowTheirTerminals
    <3>0. reader[d] \in Reader
      BY <1>0 DEF TypeOK
    <3>1. CASE reader[d].session = s
      <4>1. reader'[d] = [reader[d] EXCEPT !.known = @ \cup {t}]
        BY <2>1, <3>1 DEF Opened
      <4>2. /\ reader'[d].session = s /\ reader'[d].dirty = reader[d].dirty
            /\ reader'[d].known = reader[d].known \cup {t}
        BY <3>0, <3>1, <4>1 DEF Reader
      <4>3. ~reader[d].dirty => reader[d].known = sess[s]
        BY <2>2, <3>1, IdAssumption DEF IInv, ReadersKnowTheirTerminals, NoSession
      <4> QED
        BY <2>1, <4>2, <4>3 DEF Holds
    <3>2. CASE reader[d].session # s
      <4>1. reader'[d] = reader[d]
        BY <2>1, <3>2 DEF Opened
      <4> QED
        BY <4>1 DEF IInv, ReadersKnowTheirTerminals
    <3> QED
      BY <3>1, <3>2
  <2> QED
    BY <1>0, <1>h, <2>2, <2>3 DEF IInv, EveryTerminalHasOneHome, IdsAreFresh, WaitingIsSound,
       EmptyServerStops
<1>7. ASSUME NEW t \in DOMAIN term, NEW force \in BOOLEAN,
             KillTerminal(t) \/ CloseTerminal(t, force)
      PROVE  Kept
  <2>1. UNCHANGED <<Tables, reader, cli>>
    BY <1>0, <1>7, SignalTypes DEF KillTerminal, CloseTerminal, Tables, told
  <2> QED
    BY <1>0, <2>1, QuietSteps
<1>8. ASSUME NEW t \in DOMAIN term, MoveTerminal(t) PROVE Kept
  BY <1>8, MoveKeeps
<1>9. ASSUME NEW s \in DOMAIN sess, NEW force \in BOOLEAN, BeginKill(s, force)
      PROVE  /\ UNCHANGED <<sess, reader, running>> /\ DOMAIN term' = DOMAIN term
             /\ issued'.sessions = issued.sessions /\ issued'.terms = issued.terms
             /\ EveryTerminalHasOneHome' /\ IdsAreFresh' /\ ReadersKnowTheirTerminals'
             /\ EmptyServerStops'
  <2>1. /\ UNCHANGED <<sess, reader, running>> /\ DOMAIN term' = DOMAIN term
        /\ issued'.sessions = issued.sessions /\ issued'.terms = issued.terms
    BY <1>0, <1>9, SignalTypes DEF BeginKill, TypeOK
  <2> QED
    BY <1>0, <1>h, <2>1 DEF IInv, EveryTerminalHasOneHome, IdsAreFresh,
       ReadersKnowTheirTerminals, EmptyServerStops
<1>10. ASSUME NEW s \in DOMAIN sess, NEW force \in BOOLEAN, KillSession(s, force) PROVE Kept
  <2>1. WaitingIsSound'
    BY <1>9, <1>10 DEF KillSession, IInv, WaitingIsSound
  <2> QED
    BY <1>9, <1>10, <2>1 DEF KillSession
<1>11. ASSUME NEW s \in DOMAIN sess, NEW c \in Clis, CliKillSession(c, s) PROVE Kept
  <2>1. WaitingIsSound'
    BY <1>0, <1>9, <1>11 DEF CliKillSession, IInv, WaitingIsSound, TypeOK
  <2> QED
    BY <1>9, <1>11, <2>1 DEF CliKillSession
<1> QED
  BY <1>1, <1>2, <1>3, <1>4, <1>5, <1>6, <1>7, <1>8, <1>10, <1>11 DEF Requests

LEMMA TickKeeps ==
    ASSUME IInv, Ticking
    PROVE  /\ EveryTerminalHasOneHome' /\ IdsAreFresh' /\ ReadersKnowTheirTerminals'
           /\ WaitingIsSound' /\ EmptyServerStops'
<1> DEFINE Kept == /\ EveryTerminalHasOneHome' /\ IdsAreFresh' /\ ReadersKnowTheirTerminals'
                   /\ WaitingIsSound' /\ EmptyServerStops'
<1>0. TypeOK /\ phase # "stopped"
  BY DEF IInv, Ticking, Tick, KillsDone, ClosesDone, FlushReaderCounts, EndTick, NoticeExit,
     TurnOfKill, KillFindsNoSession, KillWaits, KillEscalates, KillDeclined, KillEnds,
     TurnOfClose, CloseFindsNoTerminal, CloseWaits, CloseEscalates, CloseDeclined, CloseEnds, Turn
<1>1. CASE Tick \/ KillsDone \/ ClosesDone
  <2>1. UNCHANGED <<Tables, reader, cli>>
    BY <1>1 DEF Tick, KillsDone, ClosesDone, Tables, told
  <2> QED
    BY <1>0, <2>1, QuietSteps
<1>2. CASE FlushReaderCounts
  <2>1. UNCHANGED <<sess, term, issued, cli, running>>
    BY <1>2 DEF FlushReaderCounts
  <2>2. \A c \in Readers : /\ reader'[c].session = reader[c].session
                           /\ reader'[c].known = reader[c].known
                           /\ reader'[c].dirty = reader[c].dirty
    BY <1>0, <1>2 DEF FlushReaderCounts, TypeOK, Reader
  <2>3. ReadersKnowTheirTerminals'
    BY <2>1, <2>2 DEF IInv, ReadersKnowTheirTerminals
  <2> QED
    BY <1>0, <2>1, <2>3 DEF IInv, EveryTerminalHasOneHome, IdsAreFresh, WaitingIsSound,
       EmptyServerStops
<1>3. CASE EndTick
  <2>1. UNCHANGED <<sess, issued, cli, running>> /\ DOMAIN term' = DOMAIN term
    BY <1>3 DEF EndTick
  <2>2. PICK ready \in SUBSET {c \in Readers : reader[c].session # NoSession /\ reader[c].dirty} :
            reader' = [c \in Readers |->
                IF c \in ready THEN Attached(reader[c], reader[c].session, sess[reader[c].session])
                ELSE reader[c]]
    BY <1>3 DEF EndTick
  <2>3. ReadersKnowTheirTerminals'
    <3> SUFFICES ASSUME NEW c \in Readers, reader'[c].session # NoSession
                 PROVE  /\ reader'[c].session \in DOMAIN sess
                        /\ ~reader'[c].dirty => reader'[c].known = sess[reader'[c].session]
      BY <2>1 DEF ReadersKnowTheirTerminals
    <3>1. CASE c \in ready
      <4> DEFINE s == reader[c].session
      <4>1. /\ reader'[c] = Attached(reader[c], s, sess[s]) /\ s \in DOMAIN sess
            /\ reader[c] \in Reader /\ s \in SessionIds /\ sess[s] \in SUBSET TermIds
        BY <1>0, <2>2, <3>1 DEF IInv, ReadersKnowTheirTerminals, TypeOK
      <4> QED
        BY <4>1, AttachedType
    <3>2. CASE c \notin ready
      <4>1. reader'[c] = reader[c]
        BY <2>2, <3>2
      <4> QED
        BY <4>1 DEF IInv, ReadersKnowTheirTerminals
    <3> QED
      BY <3>1, <3>2
  <2> QED
    BY <1>0, <2>1, <2>3 DEF IInv, EveryTerminalHasOneHome, IdsAreFresh, WaitingIsSound,
       EmptyServerStops
<1>4. ASSUME NEW k \in KillIds, TurnOfKill(k) PROVE Kept
  <2>1. CASE KillFindsNoSession(k) \/ KillWaits(k) \/ KillEscalates(k)
    <3>1. UNCHANGED <<Tables, reader, cli>>
      BY <1>0, <2>1, SignalTypes DEF KillFindsNoSession, KillWaits, KillEscalates, Tables, told
    <3> QED
      BY <1>0, <3>1, QuietSteps
  <2>2. CASE KillDeclined(k)
    <3>1. /\ UNCHANGED <<sess, term, issued, running>> /\ Broadcast(DOMAIN sess', reader)
          /\ reader \in Tellings /\ issued.sessions \in Nat
      BY <1>0, <2>2 DEF KillDeclined, TypeOK, Tellings
    <3>2. /\ WaitingIsSound'
          /\ \A c \in Readers : /\ reader'[c].session = reader[c].session
                                /\ reader'[c].known = reader[c].known
                                /\ reader'[c].dirty = reader[c].dirty
      <4>1. issued'.sessions \in Nat /\ issued.sessions <= issued'.sessions
        BY <3>1
      <4> QED
        BY <3>1, <4>1, BroadcastTells
    <3>3. ReadersKnowTheirTerminals'
      BY <3>1, <3>2 DEF IInv, ReadersKnowTheirTerminals
    <3> QED
      BY <1>0, <3>1, <3>2, <3>3 DEF IInv, EveryTerminalHasOneHome, IdsAreFresh, EmptyServerStops
  <2>3. CASE KillEnds(k)
    <3> DEFINE s == kills[k].session
    <3>1. /\ s \in DOMAIN sess /\ term' = Drop(term, sess[s]) /\ UNCHANGED issued
          /\ sess' = Drop(sess, {s}) /\ Broadcast(DOMAIN sess \ {s}, Evicted(reader, s))
          /\ running' = StillRunning(DOMAIN sess \ {s})
      BY <2>3 DEF KillEnds
    <3>2. /\ DOMAIN sess' = DOMAIN sess \ {s} /\ \A r \in DOMAIN sess' : sess'[r] = sess[r]
          /\ DOMAIN term' = DOMAIN term \ sess[s]
      BY <3>1 DEF Drop
    <3>3. s \in SessionIds /\ reader \in Tellings /\ issued.sessions \in Nat
      BY <1>0, <3>1 DEF TypeOK, Tellings
    <3>4. Evicted(reader, s) \in Tellings
      BY <3>3, NewsTypes
    <3>5. /\ WaitingIsSound'
          /\ \A c \in Readers : /\ reader'[c].session = Evicted(reader, s)[c].session
                                /\ reader'[c].known = Evicted(reader, s)[c].known
                                /\ reader'[c].dirty = Evicted(reader, s)[c].dirty
      <4>1. Broadcast(DOMAIN sess', Evicted(reader, s))
        BY <3>1, <3>2
      <4>2. /\ issued'.sessions \in Nat /\ issued.sessions <= issued'.sessions
            /\ \A r \in DOMAIN sess' \ DOMAIN sess : r > issued.sessions
        BY <3>1, <3>2, <3>3
      <4> QED
        BY <3>4, <4>1, <4>2, BroadcastTells
    <3>6. EveryTerminalHasOneHome'
      <4>h. /\ \A u \in DOMAIN term : \E r \in DOMAIN sess : u \in sess[r]
            /\ \A r \in DOMAIN sess : sess[r] \subseteq DOMAIN term
            /\ \A r, q \in DOMAIN sess : r # q => sess[r] \cap sess[q] = {}
        BY <1>0 DEF IInv, EveryTerminalHasOneHome
      <4>1. \A u \in DOMAIN term' : \E r \in DOMAIN sess' : u \in sess'[r]
        <5> SUFFICES ASSUME NEW u \in DOMAIN term' PROVE \E r \in DOMAIN sess' : u \in sess'[r]
          OBVIOUS
        <5>1. PICK r \in DOMAIN sess : u \in sess[r]
          BY <3>2, <4>h
        <5>2. r # s
          BY <3>2, <5>1
        <5> QED
          BY <3>2, <5>1, <5>2
      <4>2. \A r \in DOMAIN sess' : sess'[r] \subseteq DOMAIN term'
        <5> SUFFICES ASSUME NEW r \in DOMAIN sess' PROVE sess'[r] \subseteq DOMAIN term'
          OBVIOUS
        <5>1. sess[r] \cap sess[s] = {} /\ sess[r] \subseteq DOMAIN term
          BY <3>1, <3>2, <4>h
        <5> QED
          BY <3>2, <5>1
      <4>3. \A r, q \in DOMAIN sess' : r # q => sess'[r] \cap sess'[q] = {}
        BY <3>2, <4>h
      <4> QED
        BY <4>1, <4>2, <4>3 DEF EveryTerminalHasOneHome
    <3>7. ReadersKnowTheirTerminals'
      <4> SUFFICES ASSUME NEW c \in Readers, reader'[c].session # NoSession
                   PROVE  /\ reader'[c].session \in DOMAIN sess'
                          /\ ~reader'[c].dirty => reader'[c].known = sess'[reader'[c].session]
        BY DEF ReadersKnowTheirTerminals
      <4>1. reader[c].session # s
        BY <1>0, <3>5, DetachedType DEF Evicted, TypeOK
      <4>2. Evicted(reader, s)[c] = reader[c]
        BY <4>1 DEF Evicted
      <4>3. /\ reader'[c].session = reader[c].session /\ reader'[c].known = reader[c].known
            /\ reader'[c].dirty = reader[c].dirty
        BY <3>5, <4>2
      <4>4. /\ reader[c].session \in DOMAIN sess
            /\ ~reader[c].dirty => reader[c].known = sess[reader[c].session]
        BY <4>3 DEF IInv, ReadersKnowTheirTerminals
      <4> QED
        BY <3>2, <4>1, <4>3, <4>4
    <3>8. EmptyServerStops'
      BY <3>1, <3>2 DEF EmptyServerStops, StillRunning
    <3>9. IdsAreFresh'
      BY <3>1, <3>2 DEF IInv, IdsAreFresh
    <3> QED
      BY <3>5, <3>6, <3>7, <3>8, <3>9
  <2> QED
    BY <1>4, <2>1, <2>2, <2>3 DEF TurnOfKill
<1>5. ASSUME NEW t \in TermIds, TurnOfClose(t) PROVE Kept
  <2>1. CASE CloseEnds(t)
    BY <1>0, <2>1, RemoveKeeps DEF CloseEnds
  <2>2. CASE ~CloseEnds(t)
    <3>1. UNCHANGED <<Tables, reader, cli>>
      BY <1>0, <1>5, <2>2, SignalTypes DEF TurnOfClose, CloseFindsNoTerminal, CloseWaits,
         CloseEscalates, CloseDeclined, Tables, told
    <3> QED
      BY <1>0, <3>1, QuietSteps
  <2> QED
    BY <2>1, <2>2
<1>6. ASSUME NEW t \in TermIds, NoticeExit(t) PROVE Kept
  <2>1. t \in DOMAIN term /\ UNCHANGED issued
    BY <1>6 DEF NoticeExit, Unnoticed
  <2>2. CASE RemoveTerminal(t)
    BY <1>0, <2>1, <2>2, RemoveKeeps
  <2>3. CASE ~RemoveTerminal(t)
    <3>1. UNCHANGED <<Tables, reader, cli>>
      BY <1>6, <2>3 DEF NoticeExit, Tables, told
    <3> QED
      BY <1>0, <3>1, QuietSteps
  <2> QED
    BY <2>2, <2>3
<1> QED
  BY <1>1, <1>2, <1>3, <1>4, <1>5, <1>6 DEF Ticking

LEMMA InvStep == IInv /\ [Next]_vars => IInv'
<1> SUFFICES ASSUME IInv, [Next]_vars PROVE IInv'
  OBVIOUS
<1>0. TypeOK'
  BY TypeStep DEF IInv
<1>1. CASE Requests
  BY <1>0, <1>1, RequestKeeps DEF IInv
<1>2. CASE Ticking
  BY <1>0, <1>2, TickKeeps DEF IInv
<1>3. CASE Shutdown
  <2>1. /\ UNCHANGED <<sess, issued, reader, cli, running>> /\ DOMAIN term' = {}
        /\ phase' = "stopped"
    BY <1>3 DEF Shutdown, told, Drop
  <2> QED
    BY <1>0, <2>1 DEF IInv, EveryTerminalHasOneHome, IdsAreFresh, ReadersKnowTheirTerminals,
       WaitingIsSound, EmptyServerStops
<1>4. ASSUME NEW t \in TermIds, ChildExits(t) \/ CloseElapses(t) PROVE IInv'
  <2>1. UNCHANGED <<Tables, reader, cli>> /\ phase # "stopped"
    BY <1>4 DEF ChildExits, CloseElapses, Tables, told
  <2> QED
    BY <1>0, <2>1, QuietSteps DEF IInv
<1>5. ASSUME NEW k \in KillIds, KillElapses(k) PROVE IInv'
  <2>1. UNCHANGED <<Tables, reader, cli>> /\ phase # "stopped"
    BY <1>5 DEF KillElapses, Tables, told
  <2> QED
    BY <1>0, <2>1, QuietSteps DEF IInv
<1>6. CASE UNCHANGED vars
  BY <1>0, <1>6 DEF vars, IInv, EveryTerminalHasOneHome, IdsAreFresh, ReadersKnowTheirTerminals,
     WaitingIsSound, EmptyServerStops
<1> QED
  BY <1>1, <1>2, <1>3, <1>4, <1>5, <1>6 DEF Next

(***************************************************************************)
(* The theorems.                                                           *)
(***************************************************************************)
\* IInv is an invariant.
THEOREM Invariance == Spec => []IInv
  BY InitInv, InvStep, PTL DEF Spec

\* Type correctness, with nothing owed to a client that is not attached.
THEOREM LifecycleTypes == Spec => []TypeOK
<1>1. IInv => TypeOK
  BY DEF IInv
<1> QED
  BY <1>1, Invariance, PTL

\* Every terminal is in exactly one session and every session's terminals
\* exist, through every create_session, open_terminal, MoveTerminal,
\* remove_terminal and end of a session.
THEOREM OneHome == Spec => []EveryTerminalHasOneHome
<1>1. IInv => EveryTerminalHasOneHome
  BY DEF IInv
<1> QED
  BY <1>1, Invariance, PTL

\* What the attached readers were told of their session is what is in it,
\* unless a snapshot is owed to them.
THEOREM ReadersKnow == Spec => []ReadersKnowTheirTerminals
<1>1. IInv => ReadersKnowTheirTerminals
  BY DEF IInv
<1> QED
  BY <1>1, Invariance, PTL

\* `ckmux kill` is told of the end of its session when it ends, and of nothing
\* else as its end.
THEOREM KillConfirmed == Spec => []KillIsConfirmed
<1>1. IInv => KillIsConfirmed
  BY DEF IInv, WaitingIsSound, KillIsConfirmed
<1> QED
  BY <1>1, Invariance, PTL

\* The server does not outlive its last session.
THEOREM EmptyStops == Spec => []EmptyServerStops
<1>1. IInv => EmptyServerStops
  BY DEF IInv
<1> QED
  BY <1>1, Invariance, PTL

\* A broadcast leaves every picker with the sessions there will be.
LEMMA BroadcastLists ==
    ASSUME NEW f \in Tellings, Broadcast(DOMAIN sess', f)
    PROVE  PickersListWhatIs'
  BY DEF Broadcast, Listing, Tellings, Reader, PickersListWhatIs

LEMMA LessLists ==
    ASSUME TypeOK, NEW s \in SessionIds, NEW left, NEW f \in Tellings, BroadcastLess(s, left, f)
    PROVE  PickersListWhatIs'
<1>1. CASE Goes(s, left)
  <2>1. Broadcast(DOMAIN sess', Evicted(f, s))
    BY <1>1 DEF BroadcastLess, Drop
  <2> QED
    BY <2>1, NewsTypes, BroadcastLists
<1>2. CASE ~Goes(s, left)
  BY <1>2, BroadcastLists DEF BroadcastLess
<1> QED
  BY <1>1, <1>2

LEMMA RemoveLists ==
    ASSUME TypeOK, NEW t, RemoveTerminal(t)
    PROVE  PickersListWhatIs'
<1>1. PICK home \in DOMAIN sess :
          Holds(home, t) /\ BroadcastLess(home, [sess EXCEPT ![home] = @ \ {t}], Closed(home, t))
  BY DEF RemoveTerminal
<1>2. home \in SessionIds /\ t \in TermIds
  BY <1>1 DEF Holds, TypeOK
<1> QED
  BY <1>1, <1>2, ToldTypes, LessLists

\* The sessions change only in a step that broadcasts, or notes it for the tick.
LEMMA PickersStep == IInv /\ PickersListWhatIs /\ [Next]_vars => PickersListWhatIs'
<1> SUFFICES ASSUME IInv, PickersListWhatIs, [Next]_vars PROVE PickersListWhatIs'
  OBVIOUS
<1>0. TypeOK /\ reader \in Tellings
  BY DEF IInv, TypeOK, Tellings
<1>1. ASSUME DOMAIN sess' = DOMAIN sess, UNCHANGED listDirty,
             \A c \in Readers : reader'[c].list = reader[c].list
      PROVE  PickersListWhatIs'
  BY <1>1 DEF PickersListWhatIs
<1>2. CASE NewSession
  <2>1. DOMAIN sess' = DOMAIN sess \cup {issued.sessions + 1}
    BY <1>2 DEF NewSession, Put
  <2> QED
    BY <1>0, <1>2, <2>1, BroadcastLists DEF NewSession
<1>3. ASSUME NEW c \in Readers, Attach(c) PROVE PickersListWhatIs'
  <2>1. listDirty' /\ DOMAIN sess \subseteq DOMAIN sess'
    BY <1>3 DEF Attach, Put
  <2>2. \A d \in Readers : reader'[d].list = reader[d].list
    <3>1. ASSUME NEW s, NEW others \in Remaining(c, s)
          PROVE  others \in [Readers -> Reader] /\ \A d \in Readers : others[d].list = reader[d].list
      <4>0. \A e \in Readers : reader[e] \in Reader
        BY <1>0 DEF TypeOK
      <4>1. \A e \in Readers : Detached(reader[e]) \in Reader
                               /\ Detached(reader[e]).list = reader[e].list
        BY <4>0, DetachedType, KeepsList
      <4>2. \/ others = reader
            \/ \E e \in Readers : others = [reader EXCEPT ![e] = Detached(@)]
        BY DEF Remaining
      <4> QED
        BY <1>0, <4>1, <4>2 DEF TypeOK
    <3>2. PICK s, K, others :
              others \in Remaining(c, s) /\ reader' = [others EXCEPT ![c] = Attached(@, s, K)]
      <4>1. \A s : reader \in Remaining(c, s)
        BY DEF Remaining
      <4> QED
        BY <1>3, <4>1 DEF Attach
    <3>3. others \in [Readers -> Reader] /\ \A d \in Readers : others[d].list = reader[d].list
      BY <3>1, <3>2
    <3> QED
      BY <3>2, <3>3 DEF Attached, Reader
  <2> QED
    BY <2>1, <2>2 DEF PickersListWhatIs
<1>4. ASSUME NEW c \in Readers, Leave(c) PROVE PickersListWhatIs'
  <2>1. \A d \in Readers : reader'[d].list = reader[d].list
    BY <1>0, <1>4 DEF Leave, Detached, TypeOK, Reader
  <2> QED
    BY <1>4, <2>1 DEF Leave, PickersListWhatIs
<1>5. ASSUME NEW s, NEW t, reader' = Opened(s, t) PROVE \A c \in Readers : reader'[c].list = reader[c].list
  BY <1>0, <1>5 DEF Opened, TypeOK, Reader
<1>6. ASSUME NEW c \in Readers, NewTerminal(c) PROVE PickersListWhatIs'
  BY <1>1, <1>5, <1>6 DEF NewTerminal
<1>7. ASSUME NEW t \in DOMAIN term, RespawnTerminal(t) PROVE PickersListWhatIs'
  BY <1>1, <1>5, <1>7 DEF RespawnTerminal
<1>8. ASSUME NEW t \in DOMAIN term, MoveTerminal(t) PROVE PickersListWhatIs'
  <2>1. PICK from \in DOMAIN sess, to \in SessionIds :
            /\ Holds(from, t)
            /\ LET arrived == IF to \in DOMAIN sess THEN sess[to] \cup {t} ELSE {t}
               IN BroadcastLess(from, Put([sess EXCEPT ![from] = Leaving(from, t)], to, arrived),
                                NewsFor(to, Closed(from, t)))
    BY <1>8 DEF MoveTerminal
  <2>2. from \in SessionIds /\ t \in TermIds
    BY <1>0, <2>1 DEF Holds, TypeOK
  <2> QED
    BY <1>0, <2>1, <2>2, ToldTypes, NewsTypes, LessLists
<1>9. ASSUME UNCHANGED <<DOMAIN sess, reader, listDirty>> PROVE PickersListWhatIs'
  BY <1>1, <1>9
<1>10. CASE Requests
  <2>1. ASSUME KillServer \/ \E t \in DOMAIN term, force \in BOOLEAN :
                                KillTerminal(t) \/ CloseTerminal(t, force)
        PROVE  PickersListWhatIs'
    BY <1>9, <2>1 DEF KillServer, KillTerminal, CloseTerminal, told
  <2>2. ASSUME NEW s \in DOMAIN sess, NEW force \in BOOLEAN, BeginKill(s, force)
        PROVE  PickersListWhatIs'
    BY <1>9, <2>2 DEF BeginKill
  <2> QED
    BY <1>2, <1>3, <1>4, <1>6, <1>7, <1>8, <1>10, <2>1, <2>2
    DEF Requests, KillSession, CliKillSession
<1>11. CASE Tick \/ KillsDone \/ ClosesDone \/ Shutdown \/ UNCHANGED vars
  BY <1>9, <1>11 DEF Tick, KillsDone, ClosesDone, Shutdown, told, vars
<1>12. CASE FlushReaderCounts
  <2>1. CASE listDirty
    <3>1. PICK skipped \in SUBSET Readers :
              /\ reader' = [c \in Readers |-> IF c \in skipped THEN reader[c]
                                              ELSE [reader[c] EXCEPT !.list = DOMAIN sess]]
              /\ listDirty' = ~(skipped = {})
      BY <1>12, <2>1 DEF FlushReaderCounts, EverybodyTold
    <3>2. UNCHANGED sess
      BY <1>12 DEF FlushReaderCounts
    <3> QED
      BY <1>0, <3>1, <3>2 DEF PickersListWhatIs, TypeOK, Reader
  <2>2. CASE ~listDirty
    BY <1>9, <1>12, <2>2 DEF FlushReaderCounts
  <2> QED
    BY <2>1, <2>2
<1>13. CASE EndTick
  <2>1. UNCHANGED <<sess, listDirty>> /\ \A c \in Readers : reader'[c].list = reader[c].list
    <3>1. UNCHANGED <<sess, listDirty>>
      BY <1>13 DEF EndTick
    <3>2. PICK ready \in SUBSET Readers : reader' = [c \in Readers |->
              IF c \in ready THEN Attached(reader[c], reader[c].session, sess[reader[c].session])
              ELSE reader[c]]
      BY <1>13 DEF EndTick
    <3>3. \A r \in Reader : \A s, K : Attached(r, s, K).list = r.list
      BY DEF Attached, Reader
    <3>4. \A c \in Readers : reader[c] \in Reader
      BY <1>0 DEF TypeOK
    <3>5. ASSUME NEW c \in Readers PROVE reader'[c].list = reader[c].list
      <4>1. CASE c \in ready
        BY <3>2, <3>3, <3>4, <4>1
      <4>2. CASE c \notin ready
        BY <3>2, <4>2
      <4> QED
        BY <4>1, <4>2
    <3> QED
      BY <3>1, <3>5
  <2> QED
    BY <1>1, <2>1
<1>14. ASSUME NEW k \in KillIds, TurnOfKill(k) PROVE PickersListWhatIs'
  <2>1. CASE KillDeclined(k)
    BY <1>0, <2>1, BroadcastLists DEF KillDeclined
  <2>2. CASE KillEnds(k)
    <3> DEFINE s == kills[k].session
    <3>1. s \in DOMAIN sess /\ Broadcast(DOMAIN sess', Evicted(reader, s))
      BY <2>2 DEF KillEnds, Drop
    <3>2. s \in SessionIds
      BY <1>0, <3>1 DEF TypeOK
    <3> QED
      BY <1>0, <3>1, <3>2, NewsTypes, BroadcastLists
  <2>3. CASE KillFindsNoSession(k) \/ KillWaits(k) \/ KillEscalates(k)
    BY <1>9, <2>3 DEF KillFindsNoSession, KillWaits, KillEscalates, told
  <2> QED
    BY <1>14, <2>1, <2>2, <2>3 DEF TurnOfKill
<1>15. ASSUME NEW t \in TermIds, TurnOfClose(t) \/ NoticeExit(t) PROVE PickersListWhatIs'
  <2>1. CASE RemoveTerminal(t)
    BY <1>0, <2>1, RemoveLists
  <2>2. CASE ~RemoveTerminal(t)
    BY <1>9, <1>15, <2>2 DEF TurnOfClose, CloseFindsNoTerminal, CloseWaits, CloseEscalates,
       CloseDeclined, CloseEnds, NoticeExit, told
  <2> QED
    BY <2>1, <2>2
<1>16. ASSUME NEW t \in TermIds, ChildExits(t) \/ CloseElapses(t) PROVE PickersListWhatIs'
  BY <1>9, <1>16 DEF ChildExits, CloseElapses, told
<1>17. ASSUME NEW k \in KillIds, KillElapses(k) PROVE PickersListWhatIs'
  BY <1>9, <1>17 DEF KillElapses, told
<1> QED
  BY <1>10, <1>11, <1>12, <1>13, <1>14, <1>15, <1>16, <1>17 DEF Next, Ticking

\* Pickers name the sessions there are, or a list is due: every path that makes
\* or ends a session publishes the list after the change.
THEOREM PickersKnow == Spec => []PickersListWhatIs
<1>1. Init => PickersListWhatIs
  BY DEF Init, PickersListWhatIs
<1> QED
  BY <1>1, PickersStep, Invariance, PTL DEF Spec

\* What a loop of the tick has yet to look at is there when its turn comes: no
\* turn takes out an entry but its own.
TodoIsPending ==
    /\ phase = "kills" => todo \subseteq DOMAIN kills
    /\ phase = "closes" => todo \subseteq DOMAIN closes

LEMMA PendingStep == IInv /\ TodoIsPending /\ [Next]_vars => TodoIsPending'
<1> SUFFICES ASSUME IInv, TodoIsPending, [Next]_vars PROVE TodoIsPending'
  OBVIOUS
<1>1. CASE Requests
  <2>1. phase' = "serve"
    BY <1>1 DEF Requests, NewSession, KillServer, Attach, Leave, NewTerminal, RespawnTerminal,
           KillTerminal, MoveTerminal, CloseTerminal, KillSession, CliKillSession, BeginKill,
           Request, tick
  <2> QED
    BY <2>1 DEF TodoIsPending
<1>2. CASE Tick \/ KillsDone \/ ClosesDone \/ FlushReaderCounts \/ EndTick \/ Shutdown
  BY <1>2 DEF Tick, KillsDone, ClosesDone, FlushReaderCounts, EndTick, Shutdown, TodoIsPending
<1>3. ASSUME NEW k \in KillIds, TurnOfKill(k) PROVE TodoIsPending'
  <2>1. phase = "kills" /\ phase' = "kills" /\ todo' = todo \ {k}
    BY <1>3 DEF TurnOfKill, KillFindsNoSession, KillWaits, KillEscalates, KillDeclined, KillEnds,
       Turn
  <2>2. DOMAIN kills \ {k} \subseteq DOMAIN kills'
    BY <1>3 DEF TurnOfKill, KillFindsNoSession, KillWaits, KillEscalates, KillDeclined, KillEnds,
       Drop
  <2> QED
    BY <2>1, <2>2 DEF TodoIsPending
<1>4. ASSUME NEW t \in TermIds, TurnOfClose(t) PROVE TodoIsPending'
  <2>1. phase = "closes" /\ phase' = "closes" /\ todo' = todo \ {t}
    BY <1>4 DEF TurnOfClose, CloseFindsNoTerminal, CloseWaits, CloseEscalates, CloseDeclined,
       CloseEnds, Turn
  <2>2. DOMAIN closes \ {t} \subseteq DOMAIN closes'
    BY <1>4 DEF TurnOfClose, CloseFindsNoTerminal, CloseWaits, CloseEscalates, CloseDeclined,
       CloseEnds, Drop
  <2> QED
    BY <2>1, <2>2 DEF TodoIsPending
<1>5. ASSUME NEW t \in TermIds, NoticeExit(t) \/ ChildExits(t) \/ CloseElapses(t)
      PROVE  TodoIsPending'
  BY <1>5 DEF NoticeExit, ChildExits, CloseElapses, tick, TodoIsPending
<1>6. ASSUME NEW k \in KillIds, KillElapses(k) PROVE TodoIsPending'
  BY <1>6 DEF KillElapses, tick, TodoIsPending
<1>7. CASE UNCHANGED vars
  BY <1>7 DEF vars, TodoIsPending
<1> QED
  BY <1>1, <1>2, <1>3, <1>4, <1>5, <1>6, <1>7 DEF Next, Ticking

\* A running program is ended by the server only by force or with the server.
\* The step needs OneHome: the terminals a kill closes are its session's, and
\* a terminal that is not its own keeps its child.
THEOREM RunningKept == Spec => RunningIsKeptUnlessForced
<1> DEFINE Permitted(t) ==
               \/ t \in DOMAIN closes /\ closes[t].force
               \/ \E k \in DOMAIN kills : kills[k].force /\ Holds(kills[k].session, t)
               \/ phase' = "stopped"
           Kept == \A t \in DOMAIN term : term[t].live /\ t \notin DOMAIN term' => Permitted(t)
<1>1. IInv /\ TodoIsPending /\ [Next]_vars => [Kept]_vars
  <2> SUFFICES ASSUME IInv, TodoIsPending, Next, NEW t \in DOMAIN term, term[t].live, t \notin DOMAIN term'
               PROVE  Permitted(t)
    BY Zenon
  <2>0. TypeOK
    BY DEF IInv
  <2>1. ~Requests
    <3>1. ASSUME NewSession PROVE FALSE
      BY <3>1 DEF NewSession, Put
    <3>2. ASSUME NEW c \in Readers, Attach(c) \/ Leave(c) \/ NewTerminal(c) PROVE FALSE
      BY <3>2 DEF Attach, Leave, NewTerminal, Put
    <3>3. ASSUME NEW u \in DOMAIN term, RespawnTerminal(u) \/ KillTerminal(u) \/ MoveTerminal(u)
          PROVE  FALSE
      BY <2>0, <3>3, SignalTypes DEF RespawnTerminal, KillTerminal, MoveTerminal
    <3>4. ASSUME NEW u \in DOMAIN term, NEW force \in BOOLEAN, CloseTerminal(u, force) PROVE FALSE
      BY <2>0, <3>4, SignalTypes DEF CloseTerminal
    <3>5. ASSUME NEW s \in DOMAIN sess, NEW force \in BOOLEAN, BeginKill(s, force) PROVE FALSE
      BY <2>0, <3>5, SignalTypes DEF BeginKill
    <3>6. ASSUME KillServer PROVE FALSE
      BY <3>6 DEF KillServer
    <3> QED
      BY <3>1, <3>2, <3>3, <3>4, <3>5, <3>6 DEF Requests, KillSession, CliKillSession
  <2>2. CASE Shutdown
    BY <2>2 DEF Shutdown
  <2>3. ASSUME NEW k \in KillIds, TurnOfKill(k) PROVE Permitted(t)
    <3>1. KillEnds(k)
      BY <2>0, <2>3, SignalTypes DEF TurnOfKill, KillFindsNoSession, KillWaits, KillEscalates,
         KillDeclined
    <3>2. /\ kills[k].session \in DOMAIN sess /\ t \in sess[kills[k].session]
          /\ kills' = Drop(kills, {k})
      BY <3>1 DEF KillEnds, Drop
    <3>3. Running(kills[k].session) # {}
      BY <3>2 DEF Running, HasChild
    <3>4. kills[k].force
      BY <3>1, <3>3 DEF KillEnds, Waits, Escalates, Declined
    <3>5. k \in DOMAIN kills
      BY <3>1 DEF KillEnds, Turn, TodoIsPending
    <3> QED
      BY <3>2, <3>4, <3>5 DEF Holds
  <2>4. ASSUME NEW u \in TermIds, TurnOfClose(u) PROVE Permitted(t)
    <3>1. CloseEnds(u)
      BY <2>0, <2>4, SignalTypes DEF TurnOfClose, CloseFindsNoTerminal, CloseWaits,
         CloseEscalates, CloseDeclined
    <3>2. u = t
      BY <3>1 DEF CloseEnds, RemoveTerminal, Drop
    <3>3. closes[t].force
      BY <3>1, <3>2 DEF CloseEnds, Waits, Escalates, Declined
    <3>4. t \in DOMAIN closes
      BY <3>1, <3>2 DEF CloseEnds, Turn, TodoIsPending
    <3> QED
      BY <3>3, <3>4
  <2>5. ASSUME NEW u \in TermIds, NoticeExit(u) PROVE FALSE
    <3>1. u \in DOMAIN term /\ ~term[u].live
      BY <2>5 DEF NoticeExit, Unnoticed
    <3>2. DOMAIN term \ {u} \subseteq DOMAIN term'
      BY <2>5 DEF NoticeExit, RemoveTerminal, Drop
    <3> QED
      BY <3>1, <3>2
  <2>6. ~(Tick \/ KillsDone \/ ClosesDone \/ FlushReaderCounts \/ EndTick)
    BY DEF Tick, KillsDone, ClosesDone, FlushReaderCounts, EndTick
  <2>7. ASSUME NEW u \in TermIds, ChildExits(u) \/ CloseElapses(u) PROVE FALSE
    BY <2>7 DEF ChildExits, CloseElapses
  <2>8. ASSUME NEW k \in KillIds, KillElapses(k) PROVE FALSE
    BY <2>8 DEF KillElapses
  <2> QED
    BY <2>1, <2>2, <2>3, <2>4, <2>5, <2>6, <2>7, <2>8 DEF Next, Ticking
<1>2. Init => TodoIsPending
  BY DEF Init, TodoIsPending
<1>3. Spec => []TodoIsPending
  BY <1>2, PendingStep, Invariance, PTL DEF Spec
<1>4. Spec => [][Kept]_vars
  BY <1>1, <1>3, Invariance, PTL DEF Spec
<1> QED
  BY <1>4 DEF RunningIsKeptUnlessForced

=============================================================================
