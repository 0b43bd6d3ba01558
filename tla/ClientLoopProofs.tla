-------------------------- MODULE ClientLoopProofs --------------------------
(***************************************************************************)
(* Safety of ClientLoop for every number of clients and any length of the  *)
(* run and of the queues: what a reader is shown is what it reads.         *)
(*                                                                         *)
(* What a client holds and what the server knows of it meet in the answers *)
(* and news on their way, so the invariant follows a client through all of *)
(* them: sets of views, one for each place in the queue, each of which the *)
(* next message takes into the next, the last of them views that show what *)
(* is read.  The sets are closed under a change of session that the server *)
(* refuses.                                                                *)
(***************************************************************************)
EXTENDS ClientLoop, TLAPS, SequenceTheorems, FiniteSetTheorems, WellFoundedInduction

Kinds == {"SessionList", "Error", "Attached", "Detached", "TermOpened", "TermClosed"}
Message == [type : Kinds, id : Nat, terms : SUBSET Nat, rows : Seq(Row)]
Tables == UNION {[D -> Session] : D \in SUBSET Nat}
Server == [up : BOOLEAN, sessions : Tables, made : Nat, opened : Nat, links : Seq(Clients),
           reads : [Clients -> Nat], dirty : BOOLEAN]
World == [server : Server, client : [Clients -> Client],
          conn : [Clients -> {"none", "up", "cut"}], down : [Clients -> Seq(Message)]]

\* Of all a client holds, what messages change and a reader sees.
View == [attached : BOOLEAN, session : Nat, windows : SUBSET Nat, mirrors : SUBSET Nat]
Viewed(x) == [attached |-> x.attached, session |-> x.session,
              windows |-> x.windows, mirrors |-> x.mirrors]

\* A view after one more message.
Seen(v, m) ==
    CASE m.type = "Attached" ->
            [attached |-> TRUE, session |-> m.id, windows |-> m.terms, mirrors |-> m.terms]
      [] m.type = "Detached" ->
            [attached |-> FALSE, session |-> v.session, windows |-> {}, mirrors |-> v.mirrors]
      [] m.type = "TermOpened" ->
            [attached |-> v.attached, session |-> v.session,
             windows |-> v.windows \union (m.terms \ v.mirrors), mirrors |-> v.mirrors \union m.terms]
      [] m.type = "TermClosed" ->
            [attached |-> v.attached, session |-> v.session,
             windows |-> v.windows \ m.terms, mirrors |-> v.mirrors \ m.terms]
      [] OTHER -> v
\* A view whose client goes to session s and has not been let in.
Diverted(v, s) == [attached |-> v.attached, session |-> s, windows |-> {}, mirrors |-> v.mirrors]

\* Views that show what is read: session s, with terms.
Shows(s, terms) ==
    {v \in View : /\ v.attached <=> s # None
                  /\ v.attached /\ v.session = s => v.windows = terms /\ v.mirrors = terms}
Closed(V, s) == \A v \in V, z \in Nat : z # s \/ s = None => Diverted(v, z) \in V
Path(q, v, s, terms, G) ==
    /\ G \in [0..Len(q) -> SUBSET View]
    /\ v \in G[0] /\ G[Len(q)] \subseteq Shows(s, terms)
    /\ \A n \in 0..Len(q) : Closed(G[n], s)
    /\ \A n \in 1..Len(q) : \A y \in G[n - 1] : Seen(y, q[n]) \in G[n]
\* Messages q take view v to one that shows session s.
Leads(q, v, s, terms) == \E G : Path(q, v, s, terms, G)

Terms(v, s) == IF s = None THEN {} ELSE v.sessions[s].terms
Foreseen(w, c) ==
    w.conn[c] = "up" => Leads(w.down[c], Viewed(w.client[c]), w.server.reads[c],
                              Terms(w.server, w.server.reads[c]))
\* What the window layer was told of is what it shows, and has a mirror.
Together(x) == x.announced = x.windows /\ x.windows \subseteq x.mirrors
Linked(w, c) ==
    /\ w.conn[c] = "up" => w.server.up
    /\ w.server.reads[c] # None => w.conn[c] = "up" /\ w.server.reads[c] \in DOMAIN w.server.sessions
Sound(w) ==
    /\ w \in World /\ DOMAIN w.server.sessions \subseteq 1..w.server.made
    /\ \A c \in Clients : Linked(w, c) /\ Together(w.client[c])
Right(w) == Sound(w) /\ \A c \in Clients : Foreseen(w, c)
IInv == Right(Now) /\ acts \in 0..MaxActs

(***************************************************************************)
(* Numbers: the least of a set, and induction over a set of numbers.       *)
(***************************************************************************)
LEMMA Least ==
    ASSUME NEW T \in SUBSET Nat, T # {}
    PROVE  \E n \in T : \A m \in T : n <= m
<1> DEFINE R == OpToRel(<, Nat)
<1>1. \A x, y \in Nat : y < x => <<y, x>> \in R
  BY DEF OpToRel
<1>2. \E x \in T : \A y \in T : <<y, x>> \notin R
  BY NatLessThanWellFounded, WFMin
<1> HIDE DEF R
<1>3. PICK x \in T : \A y \in T : <<y, x>> \notin R
  BY <1>2
<1>4. ASSUME NEW y \in T, y < x PROVE FALSE
  BY <1>1, <1>3, <1>4
<1>5. \A y \in T : x <= y
  BY <1>4
<1> QED
  BY <1>5

LEMMA Induction ==
    ASSUME NEW T \in SUBSET Nat, 0 \in T, \A n \in T : n + 1 \in T
    PROVE  T = Nat
<1> SUFFICES ASSUME Nat \ T # {} PROVE FALSE
  OBVIOUS
<1>1. PICK n \in Nat \ T : \A m \in Nat \ T : n <= m
  BY Least
<1>2. n - 1 \in Nat
  BY <1>1
<1> QED
  BY <1>1, <1>2

(***************************************************************************)
(* Views.                                                                  *)
(***************************************************************************)
LEMMA SeenView == ASSUME NEW v \in View, NEW m \in Message PROVE Seen(v, m) \in View
<1>1. m.terms \in SUBSET Nat /\ m.id \in Nat
  BY DEF Message
<1>2. v.attached \in BOOLEAN /\ v.session \in Nat /\ v.windows \in SUBSET Nat /\ v.mirrors \in SUBSET Nat
  BY DEF View
<1> QED
  BY <1>1, <1>2 DEF Seen, View

LEMMA DivertedView == ASSUME NEW v \in View, NEW s \in Nat PROVE Diverted(v, s) \in View
  BY DEF Diverted, View

LEMMA ShowsClosed == ASSUME NEW s \in Nat, NEW terms PROVE Closed(Shows(s, terms), s)
<1> SUFFICES ASSUME NEW v \in Shows(s, terms), NEW z \in Nat, z # s \/ s = None
             PROVE  Diverted(v, z) \in Shows(s, terms)
  BY DEF Closed
<1>1. v \in View /\ Diverted(v, z) \in View
  BY DivertedView DEF Shows
<1>2. /\ Diverted(v, z).attached = v.attached /\ Diverted(v, z).session = z
  BY DEF Diverted
<1> QED
  BY <1>1, <1>2 DEF Shows

(***************************************************************************)
(* Leads: nothing on its way, the first message read, one more sent.       *)
(***************************************************************************)
LEMMA LeadsNone ==
    ASSUME NEW s \in Nat, NEW terms, NEW v \in Shows(s, terms)
    PROVE  Leads(<<>>, v, s, terms)
<1> DEFINE V == Shows(s, terms)
           G == [n \in 0..0 |-> V]
<1>1. Len(<<>>) = 0 /\ V \subseteq View /\ Closed(V, s)
  BY ShowsClosed DEF Shows
<1> HIDE DEF V
<1>2. G \in [0..0 -> SUBSET View] /\ \A n \in 0..0 : G[n] = V
  BY <1>1
<1>3. v \in V
  BY DEF V
<1>4. G[0] = V
  BY <1>2
<1>5. V \subseteq Shows(s, terms)
  BY DEF V
<1> HIDE DEF G
<1>6. Path(<<>>, v, s, terms, G)
  BY <1>1, <1>2, <1>3, <1>4, <1>5 DEF Path
<1> QED
  BY <1>6 DEF Leads

LEMMA LeadsEnd ==
    ASSUME NEW s, NEW terms, NEW v, Leads(<<>>, v, s, terms)
    PROVE  v \in Shows(s, terms)
<1>1. PICK G : Path(<<>>, v, s, terms, G)
  BY DEF Leads
<1>2. Len(<<>>) = 0
  OBVIOUS
<1> QED
  BY <1>1, <1>2 DEF Path

LEMMA LeadsView ==
    ASSUME NEW q \in Seq(Message), NEW s, NEW terms, NEW v, Leads(q, v, s, terms)
    PROVE  v \in View
<1>1. PICK G : Path(q, v, s, terms, G)
  BY DEF Leads
<1>2. Len(q) \in Nat
  BY LenProperties
<1>3. 0 \in 0..Len(q)
  BY <1>2
<1> QED
  BY <1>1, <1>3 DEF Path

\* The first message is read.
LEMMA LeadsTail ==
    ASSUME NEW q \in Seq(Message), q # <<>>, NEW s, NEW terms, NEW v, Leads(q, v, s, terms)
    PROVE  Leads(Tail(q), Seen(v, Head(q)), s, terms)
<1>1. PICK G : Path(q, v, s, terms, G)
  BY DEF Leads
<1> DEFINE k == Len(q)
           H == [n \in 0..(k - 1) |-> G[n + 1]]
<1>2. /\ k \in Nat \ {0} /\ Tail(q) \in Seq(Message) /\ Len(Tail(q)) = k - 1 /\ Head(q) = q[1]
      /\ \A n \in 1..(k - 1) : Tail(q)[n] = q[n + 1]
  BY EmptySeq, LenProperties, HeadTailProperties
<1>3. /\ G \in [0..k -> SUBSET View] /\ v \in G[0] /\ G[k] \subseteq Shows(s, terms)
      /\ \A n \in 0..k : Closed(G[n], s)
      /\ \A n \in 1..k : \A y \in G[n - 1] : Seen(y, q[n]) \in G[n]
  BY <1>1 DEF Path
<1> HIDE DEF k
<1>4. \A n \in 0..(k - 1) : n + 1 \in 0..k
  BY <1>2
<1>5. H \in [0..(k - 1) -> SUBSET View] /\ \A n \in 0..(k - 1) : H[n] = G[n + 1]
  BY <1>3, <1>4
<1> HIDE DEF H
<1>6. H[0] = G[1] /\ H[k - 1] = G[k]
  BY <1>2, <1>5
<1>7. Seen(v, Head(q)) \in H[0]
  <2>1. 1 \in 1..k /\ 1 - 1 = 0
    BY <1>2
  <2> QED
    BY <1>2, <1>3, <1>6, <2>1
<1>8. \A n \in 0..(k - 1) : Closed(H[n], s)
  BY <1>3, <1>4, <1>5
<1>9. ASSUME NEW n \in 1..(k - 1), NEW y \in H[n - 1] PROVE Seen(y, Tail(q)[n]) \in H[n]
  <2>1. n + 1 \in 1..k /\ n - 1 \in 0..(k - 1) /\ n \in 0..(k - 1) /\ (n + 1) - 1 = n /\ (n - 1) + 1 = n
    BY <1>2
  <2>2. H[n - 1] = G[n] /\ H[n] = G[n + 1]
    BY <1>5, <2>1
  <2> QED
    BY <1>2, <1>3, <2>1, <2>2
<1>10. Path(Tail(q), Seen(v, Head(q)), s, terms, H)
  BY <1>2, <1>3, <1>5, <1>6, <1>7, <1>8, <1>9 DEF Path
<1> QED
  BY <1>10 DEF Leads

\* One more is sent: every set of views may be replaced by one that holds more,
\* so long as the messages still lead from each to the next.
LEMMA LeadsOn ==
    ASSUME NEW q \in Seq(Message), NEW m \in Message, NEW v, NEW H \in [0..Len(q) -> SUBSET View],
           NEW s \in Nat, NEW terms,
           v \in H[0], \A n \in 0..Len(q) : Closed(H[n], s),
           \A n \in 1..Len(q) : \A y \in H[n - 1] : Seen(y, q[n]) \in H[n],
           \A y \in H[Len(q)] : Seen(y, m) \in Shows(s, terms)
    PROVE  Leads(Append(q, m), v, s, terms)
<1> DEFINE k == Len(q)
           V == Shows(s, terms)
           G == [n \in 0..(k + 1) |-> IF n = k + 1 THEN V ELSE H[n]]
           r == Append(q, m)
<1>1. /\ k \in Nat /\ r \in Seq(Message) /\ Len(r) = k + 1 /\ r[k + 1] = m
      /\ \A n \in 1..k : r[n] = q[n]
  BY LenProperties, AppendProperties
<1>2. V \subseteq View /\ Closed(V, s)
  BY ShowsClosed DEF Shows
<1>3. /\ H \in [0..k -> SUBSET View] /\ v \in H[0] /\ \A n \in 0..k : Closed(H[n], s)
      /\ \A n \in 1..k : \A y \in H[n - 1] : Seen(y, q[n]) \in H[n]
      /\ \A y \in H[k] : Seen(y, m) \in V
  OBVIOUS
<1>4. V \subseteq Shows(s, terms)
  OBVIOUS
<1> HIDE DEF k, V, r
<1>5. \A n \in 0..(k + 1) : n = k + 1 \/ n \in 0..k
  BY <1>1
<1>6. G \in [0..(k + 1) -> SUBSET View]
  BY <1>2, <1>3, <1>5
<1>7. G[k + 1] = V /\ \A n \in 0..k : G[n] = H[n]
  <2>1. k + 1 \in 0..(k + 1) /\ \A n \in 0..k : n \in 0..(k + 1) /\ n # k + 1
    BY <1>1
  <2> QED
    BY <2>1
<1> HIDE DEF G
<1>8. v \in G[0]
  <2>1. 0 \in 0..k
    BY <1>1
  <2> QED
    BY <1>3, <1>7, <2>1
<1>9. \A n \in 0..(k + 1) : Closed(G[n], s)
  BY <1>2, <1>3, <1>5, <1>7
<1>10. ASSUME NEW n \in 1..(k + 1), NEW y \in G[n - 1] PROVE Seen(y, r[n]) \in G[n]
  <2>1. CASE n = k + 1
    <3>1. n - 1 = k /\ k \in 0..k
      BY <1>1, <2>1
    <3> QED
      BY <1>1, <1>3, <1>7, <2>1, <3>1
  <2>2. CASE n # k + 1
    <3>1. n \in 1..k /\ n \in 0..k /\ n - 1 \in 0..k
      BY <1>1, <2>2
    <3> QED
      BY <1>1, <1>3, <1>7, <3>1
  <2> QED
    BY <2>1, <2>2
<1>11. Path(r, v, s, terms, G)
  BY <1>1, <1>4, <1>6, <1>7, <1>8, <1>9, <1>10 DEF Path
<1> QED
  BY <1>11 DEF Leads, r

\* News of the session that is read.
LEMMA LeadsSaid ==
    ASSUME NEW q \in Seq(Message), NEW m \in Message, NEW v, NEW s \in Nat, NEW terms, NEW now,
           Leads(q, v, s, terms), \A y \in Shows(s, terms) : Seen(y, m) \in Shows(s, now)
    PROVE  Leads(Append(q, m), v, s, now)
<1>1. PICK H : Path(q, v, s, terms, H)
  BY DEF Leads
<1>2. /\ H \in [0..Len(q) -> SUBSET View] /\ v \in H[0] /\ H[Len(q)] \subseteq Shows(s, terms)
      /\ \A n \in 0..Len(q) : Closed(H[n], s)
      /\ \A n \in 1..Len(q) : \A y \in H[n - 1] : Seen(y, q[n]) \in H[n]
  BY <1>1 DEF Path
<1>3. \A y \in H[Len(q)] : Seen(y, m) \in Shows(s, now)
  BY <1>2
<1> QED
  BY <1>2, <1>3, LeadsOn

\* An answer that says all there is to know, whatever came before it.
LEMMA LeadsAnew ==
    ASSUME NEW q \in Seq(Message), NEW m \in Message, NEW v \in View, NEW s \in Nat, NEW now,
           \A y \in View : Seen(y, m) \in Shows(s, now)
    PROVE  Leads(Append(q, m), v, s, now)
<1>1. Len(q) \in Nat
  BY LenProperties
<1> DEFINE k == Len(q)
           H == [n \in 0..k |-> View]
<1>2. /\ H \in [0..k -> SUBSET View] /\ \A n \in 0..k : H[n] = View
  OBVIOUS
<1>3. 0 \in 0..k /\ k \in 0..k /\ \A n \in 1..k : n \in 0..k /\ n - 1 \in 0..k
  BY <1>1
<1>4. Closed(View, s)
  BY DivertedView DEF Closed
<1> HIDE DEF H
<1>5. v \in H[0] /\ \A n \in 0..k : Closed(H[n], s)
  BY <1>2, <1>3, <1>4
<1>6. \A n \in 1..k : \A y \in H[n - 1] : Seen(y, q[n]) \in H[n]
  <2> SUFFICES ASSUME NEW n \in 1..k, NEW y \in H[n - 1] PROVE Seen(y, q[n]) \in H[n]
    OBVIOUS
  <2>1. y \in View /\ H[n] = View
    BY <1>2, <1>3
  <2>2. q[n] \in Message
    BY ElementOfSeq
  <2> QED
    BY <2>1, <2>2, SeenView
<1>7. \A y \in H[k] : Seen(y, m) \in Shows(s, now)
  BY <1>2, <1>3
<1>8. H \in [0..Len(q) -> SUBSET View]
  BY <1>2
<1> QED
  BY <1>5, <1>6, <1>7, <1>8, LeadsOn

\* The client goes somewhere else, and is not let in.
LEMMA LeadsDiverted ==
    ASSUME NEW q \in Seq(Message), NEW v, NEW s, NEW terms, NEW z \in Nat, z # s \/ s = None,
           Leads(q, v, s, terms)
    PROVE  Leads(q, Diverted(v, z), s, terms)
<1>1. PICK G : Path(q, v, s, terms, G)
  BY DEF Leads
<1>2. 0 \in 0..Len(q)
  BY LenProperties
<1>3. Diverted(v, z) \in G[0]
  BY <1>1, <1>2 DEF Path, Closed
<1>4. Path(q, Diverted(v, z), s, terms, G)
  BY <1>1, <1>3 DEF Path
<1> QED
  BY <1>4 DEF Leads

(***************************************************************************)
(* What each message does to views that show what is read.                 *)
(***************************************************************************)
LEMMA AnswerIs ==
    ASSUME NEW type \in Kinds, NEW id \in Nat, NEW terms \in SUBSET Nat, NEW rows \in Seq(Row)
    PROVE  /\ Answer(type, id, terms, rows) \in Message
           /\ Answer(type, id, terms, rows).type = type /\ Answer(type, id, terms, rows).id = id
           /\ Answer(type, id, terms, rows).terms = terms /\ Answer(type, id, terms, rows).rows = rows
  BY DEF Answer, Message

LEMMA SeenIdle ==
    ASSUME NEW v, NEW m, m.type \in {"SessionList", "Error"}
    PROVE  Seen(v, m) = v
  BY DEF Seen

LEMMA SeenAttached ==
    ASSUME NEW m \in Message, m.type = "Attached", m.id # None, NEW y \in View
    PROVE  Seen(y, m) \in Shows(m.id, m.terms)
<1> DEFINE z == [attached |-> TRUE, session |-> m.id, windows |-> m.terms, mirrors |-> m.terms]
<1>1. Seen(y, m) = z
  BY DEF Seen
<1>2. z \in View
  BY <1>1, SeenView
<1>3. z.attached /\ z.session = m.id /\ z.windows = m.terms /\ z.mirrors = m.terms
  OBVIOUS
<1> HIDE DEF z
<1> QED
  BY <1>1, <1>2, <1>3 DEF Shows

LEMMA SeenDetached ==
    ASSUME NEW m \in Message, m.type = "Detached", NEW y \in View, NEW terms
    PROVE  Seen(y, m) \in Shows(None, terms)
<1> DEFINE z == [attached |-> FALSE, session |-> y.session, windows |-> {}, mirrors |-> y.mirrors]
<1>1. Seen(y, m) = z
  BY DEF Seen
<1>2. z \in View
  BY <1>1, SeenView
<1>3. ~z.attached
  OBVIOUS
<1> HIDE DEF z
<1> QED
  BY <1>1, <1>2, <1>3 DEF Shows

LEMMA SeenOpened ==
    ASSUME NEW m \in Message, m.type = "TermOpened", NEW s, NEW terms, NEW y \in Shows(s, terms)
    PROVE  Seen(y, m) \in Shows(s, terms \union m.terms)
<1> DEFINE z == [attached |-> y.attached, session |-> y.session,
                 windows |-> y.windows \union (m.terms \ y.mirrors), mirrors |-> y.mirrors \union m.terms]
<1>1. Seen(y, m) = z
  BY DEF Seen
<1>2. y \in View /\ z \in View
  BY <1>1, SeenView DEF Shows
<1>3. /\ z.attached = y.attached /\ z.session = y.session
      /\ z.windows = y.windows \union (m.terms \ y.mirrors) /\ z.mirrors = y.mirrors \union m.terms
  OBVIOUS
<1> HIDE DEF z
<1>4. y.windows = terms /\ y.mirrors = terms => z.windows = terms \union m.terms /\ z.mirrors = terms \union m.terms
  BY <1>3
<1> QED
  BY <1>1, <1>2, <1>3, <1>4 DEF Shows

LEMMA SeenClosed ==
    ASSUME NEW m \in Message, m.type = "TermClosed", NEW s, NEW terms, NEW y \in Shows(s, terms)
    PROVE  Seen(y, m) \in Shows(s, terms \ m.terms)
<1> DEFINE z == [attached |-> y.attached, session |-> y.session,
                 windows |-> y.windows \ m.terms, mirrors |-> y.mirrors \ m.terms]
<1>1. Seen(y, m) = z
  BY DEF Seen
<1>2. y \in View /\ z \in View
  BY <1>1, SeenView DEF Shows
<1>3. /\ z.attached = y.attached /\ z.session = y.session
      /\ z.windows = y.windows \ m.terms /\ z.mirrors = y.mirrors \ m.terms
  OBVIOUS
<1> HIDE DEF z
<1> QED
  BY <1>1, <1>2, <1>3 DEF Shows

(***************************************************************************)
(* Sending.                                                                *)
(***************************************************************************)
LEMMA WorldIs ==
    ASSUME NEW w \in World
    PROVE  /\ w.server \in Server /\ w.client \in [Clients -> Client]
           /\ w.conn \in [Clients -> {"none", "up", "cut"}] /\ w.down \in [Clients -> Seq(Message)]
           /\ w.server.up \in BOOLEAN /\ w.server.sessions \in Tables /\ w.server.made \in Nat
           /\ w.server.opened \in Nat /\ w.server.links \in Seq(Clients)
           /\ w.server.reads \in [Clients -> Nat] /\ w.server.dirty \in BOOLEAN
<1>1. /\ w.server \in Server /\ w.client \in [Clients -> Client]
      /\ w.conn \in [Clients -> {"none", "up", "cut"}] /\ w.down \in [Clients -> Seq(Message)]
  BY DEF World
<1> QED
  BY <1>1 DEF Server

LEMMA TablesIs ==
    ASSUME NEW f
    PROVE  f \in Tables <=> /\ f = [x \in DOMAIN f |-> f[x]] /\ DOMAIN f \subseteq Nat
                            /\ \A s \in DOMAIN f : f[s] \in Session
<1>1. ASSUME f \in Tables
      PROVE  f = [x \in DOMAIN f |-> f[x]] /\ DOMAIN f \subseteq Nat /\ \A s \in DOMAIN f : f[s] \in Session
  <2>1. PICK D \in SUBSET Nat : f \in [D -> Session]
    BY <1>1 DEF Tables
  <2> QED
    BY <2>1
<1>2. ASSUME f = [x \in DOMAIN f |-> f[x]], DOMAIN f \subseteq Nat, \A s \in DOMAIN f : f[s] \in Session
      PROVE  f \in Tables
  <2>1. f \in [DOMAIN f -> Session] /\ DOMAIN f \in SUBSET Nat
    BY <1>2
  <2> QED
    BY <2>1 DEF Tables
<1> QED
  BY <1>1, <1>2

LEMMA SendIs ==
    ASSUME NEW w \in World, NEW C, NEW m \in Message
    PROVE  LET z == Send(w, C, m)
           IN  /\ z \in World /\ z.server = w.server /\ z.client = w.client /\ z.conn = w.conn
               /\ \A c \in Clients : z.down[c] = IF c \in C /\ w.conn[c] = "up"
                                                   THEN Append(w.down[c], m) ELSE w.down[c]
<1> DEFINE f == [c \in Clients |-> IF c \in C /\ w.conn[c] = "up"
                                     THEN Append(w.down[c], m) ELSE w.down[c]]
           z == [w EXCEPT !.down = f]
<1>1. Send(w, C, m) = z
  BY DEF Send
<1>2. f \in [Clients -> Seq(Message)]
  <2>1. \A c \in Clients : w.down[c] \in Seq(Message) /\ Append(w.down[c], m) \in Seq(Message)
    BY WorldIs, AppendProperties
  <2> QED
    BY <2>1
<1>3. \A c \in Clients : f[c] = IF c \in C /\ w.conn[c] = "up"
                                  THEN Append(w.down[c], m) ELSE w.down[c]
  OBVIOUS
<1> HIDE DEF f
<1>4. z \in World /\ z.server = w.server /\ z.client = w.client /\ z.conn = w.conn /\ z.down = f
  BY <1>2 DEF World
<1> QED
  BY <1>1, <1>3, <1>4

LEMMA SendSound ==
    ASSUME NEW w, Sound(w), NEW C, NEW m \in Message
    PROVE  Sound(Send(w, C, m))
<1> DEFINE z == Send(w, C, m)
<1>1. w \in World
  BY DEF Sound
<1>2. z \in World /\ z.server = w.server /\ z.client = w.client /\ z.conn = w.conn
  BY <1>1, SendIs
<1> HIDE DEF z
<1>3. Sound(z)
  BY <1>2 DEF Sound, Linked
<1> QED
  BY <1>3 DEF z

\* Who is told nothing.
LEMMA SendOthers ==
    ASSUME NEW w \in World, NEW C, NEW m \in Message, NEW c \in Clients, c \notin C, Foreseen(w, c)
    PROVE  Foreseen(Send(w, C, m), c)
<1> DEFINE z == Send(w, C, m)
<1>1. z.server = w.server /\ z.client = w.client /\ z.conn = w.conn /\ z.down[c] = w.down[c]
  BY SendIs
<1> HIDE DEF z
<1>2. Foreseen(z, c)
  BY <1>1 DEF Foreseen
<1> QED
  BY <1>2 DEF z

\* Who was foreseen to show some terminals of its session shows those it has now.
LEMMA SendNews ==
    ASSUME NEW w \in World, NEW C, NEW m \in Message, NEW c \in C, c \in Clients, NEW terms,
           w.conn[c] = "up" => Leads(w.down[c], Viewed(w.client[c]), w.server.reads[c], terms),
           \A y \in Shows(w.server.reads[c], terms) :
                Seen(y, m) \in Shows(w.server.reads[c], Terms(w.server, w.server.reads[c]))
    PROVE  Foreseen(Send(w, C, m), c)
<1> DEFINE z == Send(w, C, m)
           s == w.server.reads[c]
           now == Terms(w.server, s)
           v == Viewed(w.client[c])
<1>1. /\ z.server = w.server /\ z.client = w.client /\ z.conn = w.conn
      /\ w.conn[c] = "up" => z.down[c] = Append(w.down[c], m)
  BY SendIs
<1>2. w.down[c] \in Seq(Message) /\ s \in Nat
  BY WorldIs
<1>3. w.conn[c] = "up" => Leads(Append(w.down[c], m), v, s, now)
  <2> HIDE DEF s, now, v
  <2>1. /\ w.conn[c] = "up" => Leads(w.down[c], v, s, terms)
        /\ \A y \in Shows(s, terms) : Seen(y, m) \in Shows(s, now)
    BY DEF s, now, v
  <2> QED
    BY <1>2, <2>1, LeadsSaid
<1> HIDE DEF z
<1>4. Foreseen(z, c)
  BY <1>1, <1>3 DEF Foreseen
<1> QED
  BY <1>4 DEF z

LEMMA SendIdle ==
    ASSUME NEW w \in World, NEW C, NEW m \in Message, m.type \in {"SessionList", "Error"},
           NEW c \in Clients, Foreseen(w, c)
    PROVE  Foreseen(Send(w, C, m), c)
<1>1. CASE c \notin C
  BY <1>1, SendOthers
<1>2. CASE c \in C
  <2> DEFINE terms == Terms(w.server, w.server.reads[c])
  <2>1. w.conn[c] = "up" => Leads(w.down[c], Viewed(w.client[c]), w.server.reads[c], terms)
    BY DEF Foreseen
  <2>2. \A y \in Shows(w.server.reads[c], terms) :
            Seen(y, m) \in Shows(w.server.reads[c], Terms(w.server, w.server.reads[c]))
    BY SeenIdle
  <2> QED
    BY <1>2, <2>1, <2>2, SendNews
<1> QED
  BY <1>1, <1>2

LEMMA ViewedIs ==
    ASSUME NEW x \in Client
    PROVE  /\ Viewed(x) \in View
           /\ x.windows \in SUBSET Nat /\ x.mirrors \in SUBSET Nat /\ x.announced \in SUBSET Nat
  BY DEF Client, Viewed, View

\* Who is told all there is to know.
LEMMA SendAll ==
    ASSUME NEW w \in World, NEW C, NEW m \in Message, NEW c \in C, c \in Clients,
           \A y \in View : Seen(y, m) \in Shows(w.server.reads[c], Terms(w.server, w.server.reads[c]))
    PROVE  Foreseen(Send(w, C, m), c)
<1> DEFINE z == Send(w, C, m)
           s == w.server.reads[c]
           now == Terms(w.server, s)
           v == Viewed(w.client[c])
<1>1. /\ z.server = w.server /\ z.client = w.client /\ z.conn = w.conn
      /\ w.conn[c] = "up" => z.down[c] = Append(w.down[c], m)
  BY SendIs
<1>2. w.down[c] \in Seq(Message) /\ s \in Nat /\ v \in View
  BY WorldIs, ViewedIs
<1>3. Leads(Append(w.down[c], m), v, s, now)
  <2> HIDE DEF s, now, v
  <2>1. \A y \in View : Seen(y, m) \in Shows(s, now)
    BY DEF s, now
  <2> QED
    BY <1>2, <2>1, LeadsAnew
<1> HIDE DEF z
<1>4. Foreseen(z, c)
  BY <1>1, <1>3 DEF Foreseen
<1> QED
  BY <1>4 DEF z

(***************************************************************************)
(* The list of sessions.                                                   *)
(***************************************************************************)
RowOf(w, s) == [id |-> s, readers |-> Cardinality(ReadersIn(w, s))]
RowsTo(w, f) == [n \in 0..w.server.made |->
                    IF n = 0 THEN <<>>
                    ELSE IF n \in DOMAIN w.server.sessions THEN Append(f[n - 1], RowOf(w, n)) ELSE f[n - 1]]

LEMMA RowTyped == ASSUME NEW w, NEW s \in Nat PROVE RowOf(w, s) \in Row
<1> DEFINE R == ReadersIn(w, s)
<1>1. R \subseteq Clients
  BY DEF ReadersIn
<1>2. IsFiniteSet(R)
  BY <1>1, ClientAssumption, FS_Subset
<1>3. Cardinality(R) \in Nat
  BY <1>2, FS_CardinalityType
<1> QED
  BY <1>3 DEF RowOf, Row

LEMMA RowsExist == ASSUME NEW w, w.server.made \in Nat PROVE \E f : f = RowsTo(w, f)
<1> DEFINE N == w.server.made
           D == DOMAIN w.server.sessions
           Upto(n, g) == /\ g = [i \in 0..n |-> g[i]] /\ g[0] = <<>>
                         /\ \A i \in 1..n : g[i] = IF i \in D THEN Append(g[i - 1], RowOf(w, i)) ELSE g[i - 1]
           T == {n \in Nat : \E g : Upto(n, g)}
<1>1. 0 \in T
  <2> DEFINE g == [i \in 0..0 |-> <<>>]
  <2>1. Upto(0, g)
    OBVIOUS
  <2> HIDE DEF Upto, g
  <2> QED
    BY <2>1
<1>2. ASSUME NEW n \in T PROVE n + 1 \in T
  <2>1. n \in Nat
    OBVIOUS
  <2>2. PICK g : Upto(n, g)
    OBVIOUS
  <2> DEFINE last == IF n + 1 \in D THEN Append(g[n], RowOf(w, n + 1)) ELSE g[n]
             h == [i \in 0..(n + 1) |-> IF i = n + 1 THEN last ELSE g[i]]
  <2> HIDE DEF last
  <2>3. h[n + 1] = last /\ \A i \in 0..n : h[i] = g[i]
    BY <2>1
  <2>4. h = [i \in 0..(n + 1) |-> h[i]]
    OBVIOUS
  <2> HIDE DEF h
  <2>5. ASSUME NEW i \in 1..(n + 1)
        PROVE  h[i] = IF i \in D THEN Append(h[i - 1], RowOf(w, i)) ELSE h[i - 1]
    <3>1. CASE i = n + 1
      <4>1. i - 1 = n /\ n \in 0..n
        BY <2>1, <3>1
      <4>2. h[i - 1] = g[n]
        BY <2>3, <4>1
      <4> QED
        BY <2>3, <3>1, <4>2 DEF last
    <3>2. CASE i # n + 1
      <4>1. i \in 1..n /\ i \in 0..n /\ i - 1 \in 0..n
        BY <2>1, <3>2
      <4> QED
        BY <2>2, <2>3, <4>1
    <3> QED
      BY <3>1, <3>2
  <2>6. h[0] = <<>>
    <3>1. 0 \in 0..n
      BY <2>1
    <3> QED
      BY <2>2, <2>3, <3>1
  <2>7. Upto(n + 1, h)
    BY <2>4, <2>5, <2>6
  <2>8. \E e : Upto(n + 1, e)
    BY <2>7
  <2> HIDE DEF Upto
  <2> QED
    BY <2>1, <2>8
<1>3. T = Nat
  <2> HIDE DEF T
  <2>1. T \in SUBSET Nat
    BY DEF T
  <2> QED
    BY <1>1, <1>2, <2>1, Induction
<1>4. PICK g : Upto(N, g)
  BY <1>3
<1>5. \A i \in 0..N : g[i] = RowsTo(w, g)[i]
  <2> SUFFICES ASSUME NEW i \in 0..N PROVE g[i] = RowsTo(w, g)[i]
    OBVIOUS
  <2>1. RowsTo(w, g)[i] = IF i = 0 THEN <<>>
                          ELSE IF i \in D THEN Append(g[i - 1], RowOf(w, i)) ELSE g[i - 1]
    BY DEF RowsTo
  <2>2. i = 0 \/ i \in 1..N
    OBVIOUS
  <2> QED
    BY <1>4, <2>1, <2>2
<1>6. RowsTo(w, g) = [i \in 0..N |-> RowsTo(w, g)[i]] /\ g = [i \in 0..N |-> g[i]]
  BY <1>4 DEF RowsTo
<1> HIDE DEF N
<1>7. g = RowsTo(w, g)
  BY <1>5, <1>6
<1> QED
  BY <1>7

LEMMA ListingIs ==
    ASSUME NEW w \in World
    PROVE  Listing(w) \in Message /\ Listing(w).type = "SessionList"
<1> DEFINE N == w.server.made
           f == CHOOSE f : f = RowsTo(w, f)
           T == {n \in Nat : n <= N => f[n] \in Seq(Row)}
<1>1. N \in Nat
  BY WorldIs
<1>2. f = RowsTo(w, f)
  BY <1>1, RowsExist
<1>3. Listing(w) = Answer("SessionList", None, {}, f[N])
  BY DEF Listing, RowsTo, RowOf
<1> HIDE DEF f
<1>4. /\ f[0] = <<>>
      /\ \A n \in 1..N : f[n] = IF n \in DOMAIN w.server.sessions THEN Append(f[n - 1], RowOf(w, n)) ELSE f[n - 1]
  <2>1. \A n \in 0..N : f[n] = IF n = 0 THEN <<>>
                               ELSE IF n \in DOMAIN w.server.sessions
                                      THEN Append(f[n - 1], RowOf(w, n)) ELSE f[n - 1]
    BY <1>2 DEF RowsTo
  <2>2. 0 \in 0..N /\ \A n \in 1..N : n \in 0..N /\ n # 0
    BY <1>1
  <2> QED
    BY <2>1, <2>2
<1> HIDE DEF N
<1>5. 0 \in T
  <2>1. f[0] \in Seq(Row)
    <3>1. <<>> \in Seq(Row)
      OBVIOUS
    <3> QED
      BY <1>4, <3>1
  <2> QED
    BY <2>1
<1>6. ASSUME NEW n \in T PROVE n + 1 \in T
  <2>1. n \in Nat /\ (n <= N => f[n] \in Seq(Row)) /\ n + 1 \in Nat
    OBVIOUS
  <2>2. CASE n + 1 <= N
    <3>1. n + 1 \in 1..N /\ (n + 1) - 1 = n /\ n <= N
      BY <1>1, <2>1, <2>2
    <3>2. f[n + 1] = IF n + 1 \in DOMAIN w.server.sessions THEN Append(f[n], RowOf(w, n + 1)) ELSE f[n]
      BY <1>4, <3>1
    <3>3. f[n] \in Seq(Row) /\ RowOf(w, n + 1) \in Row
      BY <2>1, <3>1, RowTyped
    <3>4. f[n + 1] \in Seq(Row)
      BY <3>2, <3>3, AppendProperties
    <3> QED
      BY <2>1, <3>4
  <2>3. CASE ~(n + 1 <= N)
    BY <2>1, <2>3
  <2> QED
    BY <2>2, <2>3
<1>7. T = Nat
  <2> HIDE DEF T
  <2>1. T \in SUBSET Nat
    BY DEF T
  <2> QED
    BY <1>5, <1>6, <2>1, Induction
<1>8. f[N] \in Seq(Row)
  <2>1. N \in T /\ N <= N
    BY <1>1, <1>7
  <2> QED
    BY <2>1
<1> QED
  BY <1>3, <1>8, AnswerIs DEF None, Kinds

(***************************************************************************)
(* What the server does to a whole.                                        *)
(***************************************************************************)
LEMMA ServerIs ==
    ASSUME NEW w \in World, NEW v \in Server
    PROVE  LET z == [w EXCEPT !.server = v]
           IN  z \in World /\ z.server = v /\ z.client = w.client /\ z.conn = w.conn /\ z.down = w.down
  BY DEF World

\* Nothing changed that a client will see of it.
LEMMA SameForeseen ==
    ASSUME NEW w, NEW z, NEW c, Foreseen(w, c),
           z.conn[c] = w.conn[c], z.down[c] = w.down[c], Viewed(z.client[c]) = Viewed(w.client[c]),
           z.server.reads[c] = w.server.reads[c],
           w.server.reads[c] # None =>
               z.server.sessions[w.server.reads[c]].terms = w.server.sessions[w.server.reads[c]].terms
    PROVE  Foreseen(z, c)
<1>1. Terms(z.server, z.server.reads[c]) = Terms(w.server, w.server.reads[c])
  BY DEF Terms
<1> QED
  BY <1>1 DEF Foreseen

LEMMA IdleRight ==
    ASSUME NEW w, Right(w), NEW C, NEW m \in Message, m.type \in {"SessionList", "Error"}
    PROVE  Right(Send(w, C, m))
  BY SendSound, SendIdle DEF Right, Sound

LEMMA RefuseRight ==
    ASSUME NEW w, Right(w), NEW c
    PROVE  Right(Refuse(w, c))
<1> DEFINE m == Answer("Error", None, {}, <<>>)
<1>1. m \in Message /\ m.type = "Error"
  BY DEF Answer, Message, Kinds, None
<1> QED
  BY <1>1, IdleRight DEF Refuse

LEMMA ListRight ==
    ASSUME NEW w, Right(w), NEW c
    PROVE  Right(ListSessions(w, c))
<1>1. Listing(w) \in Message /\ Listing(w).type = "SessionList"
  BY ListingIs DEF Right, Sound
<1> QED
  BY <1>1, IdleRight DEF ListSessions

LEMMA BroadcastRight ==
    ASSUME NEW w, Right(w)
    PROVE  Right(Broadcast(w))
<1> DEFINE v == [w.server EXCEPT !.dirty = FALSE]
           z == [w EXCEPT !.server = v]
<1>1. w \in World /\ w.server \in Server
  BY WorldIs DEF Right, Sound
<1>2. v \in Server /\ v.up = w.server.up /\ v.sessions = w.server.sessions /\ v.made = w.server.made
      /\ v.reads = w.server.reads
  BY <1>1 DEF Server
<1>3. Broadcast(w) = Send(z, Clients, Listing(w))
  BY <1>1 DEF Broadcast, World
<1> HIDE DEF v
<1>4. z \in World /\ z.server = v /\ z.client = w.client /\ z.conn = w.conn /\ z.down = w.down
  BY <1>1, <1>2, ServerIs
<1> HIDE DEF z
<1>5. Sound(z)
  BY <1>2, <1>4 DEF Right, Sound, Linked
<1>6. \A c \in Clients : Foreseen(z, c)
  BY <1>2, <1>4, SameForeseen DEF Right
<1>7. Listing(w) \in Message /\ Listing(w).type = "SessionList"
  BY <1>1, ListingIs
<1> QED
  BY <1>3, <1>5, <1>6, <1>7, IdleRight DEF Right

LEMMA NewSessionRight ==
    ASSUME NEW w, Right(w), NEW c \in Clients, NEW name
    PROVE  Right(NewSession(w, c, name))
<1> DEFINE s == w.server.made + 1
           old == w.server.sessions
           f == [z \in DOMAIN old \union {s} |->
                   IF z = s THEN [terms |-> {}, by |-> c, typed |-> name # None] ELSE old[z]]
           u == [w.server EXCEPT !.made = s]
           v == [u EXCEPT !.sessions = f]
           z == [w EXCEPT !.server = v]
<1>1. w \in World /\ w.server \in Server /\ old \in Tables /\ w.server.made \in Nat
      /\ DOMAIN old \subseteq 1..w.server.made
  BY WorldIs DEF Right, Sound
<1>2. s \in Nat /\ s \notin DOMAIN old /\ DOMAIN f \subseteq 1..s
  BY <1>1
<1>3. f \in Tables
  <2>1. [terms |-> {}, by |-> c, typed |-> name # None] \in Session
    BY DEF Session
  <2>2. \A x \in DOMAIN f : f[x] \in Session
    BY <1>1, <2>1, TablesIs
  <2>3. f = [x \in DOMAIN f |-> f[x]] /\ DOMAIN f \subseteq Nat
    BY <1>1, <1>2, TablesIs
  <2> HIDE DEF f
  <2> QED
    BY <2>2, <2>3, TablesIs
<1>4. \A x \in DOMAIN old : x \in DOMAIN f /\ f[x] = old[x]
  BY <1>2
<1> HIDE DEF s, f
<1>5. u \in Server /\ u.up = w.server.up /\ u.made = s /\ u.reads = w.server.reads
  BY <1>1, <1>2 DEF Server
<1> HIDE DEF u
<1>6. v \in Server /\ v.up = w.server.up /\ v.sessions = f /\ v.made = s /\ v.reads = w.server.reads
  BY <1>3, <1>5 DEF Server
<1>7. NewSession(w, c, name) \in {w, Refuse(w, c), Broadcast(z)}
  <2>1. NewSession(w, c, name) = w \/ NewSession(w, c, name) = Refuse(w, c)
        \/ NewSession(w, c, name) = Broadcast([w EXCEPT !.server.made = s, !.server.sessions = f])
    BY DEF NewSession, f, s
  <2>2. [w EXCEPT !.server.made = s, !.server.sessions = f] = z
    BY <1>1 DEF World, Server, u
  <2> QED
    BY <2>1, <2>2
<1> HIDE DEF v
<1>8. z \in World /\ z.server = v /\ z.client = w.client /\ z.conn = w.conn /\ z.down = w.down
  BY <1>1, <1>6, ServerIs
<1> HIDE DEF z
<1>9. \A d \in Clients : Linked(z, d)
  BY <1>4, <1>6, <1>8 DEF Right, Sound, Linked
<1>10. Sound(z)
  BY <1>2, <1>6, <1>8, <1>9 DEF Right, Sound
<1>11. ASSUME NEW d \in Clients PROVE Foreseen(z, d)
  <2> DEFINE r == w.server.reads[d]
  <2>1. r # None => r \in DOMAIN old
    BY DEF Right, Sound, Linked
  <2>2. r # None => z.server.sessions[r].terms = old[r].terms
    BY <1>4, <1>6, <1>8, <2>1
  <2>3. Foreseen(w, d) /\ z.server.reads[d] = r
    BY <1>6, <1>8 DEF Right
  <2> QED
    BY <1>8, <2>2, <2>3, SameForeseen
<1>12. Right(z)
  BY <1>10, <1>11 DEF Right
<1> QED
  BY <1>7, <1>12, RefuseRight, BroadcastRight

LEMMA AttachRight ==
    ASSUME NEW w, Sound(w), NEW c \in Clients, NEW s \in Nat, NEW mode,
           \A d \in Clients : d # c => Foreseen(w, d),
           s \notin DOMAIN w.server.sessions => Foreseen(w, c)
    PROVE  Right(Attach(w, c, s, mode))
<1> DEFINE gone == Evicted(w, c, s, mode)
           R == [d \in Clients |-> IF d = c THEN s ELSE IF d \in gone THEN None ELSE w.server.reads[d]]
           u == [w.server EXCEPT !.dirty = TRUE]
           v == [u EXCEPT !.reads = R]
           z == [w EXCEPT !.server = v]
           m == Snapshot(w, s)
           n == Gone
           a == Send(z, gone, n)
           b == Send(a, {c}, m)
<1>1. /\ w \in World /\ w.server \in Server /\ w.server.sessions \in Tables
      /\ w.server.reads \in [Clients -> Nat]
  BY WorldIs DEF Sound
<1>2. CASE w.conn[c] # "up"
  <2>1. Attach(w, c, s, mode) = w
    BY <1>2 DEF Attach
  <2>2. Foreseen(w, c)
    BY <1>2 DEF Foreseen
  <2> QED
    BY <2>1, <2>2 DEF Right
<1>3. CASE w.conn[c] = "up" /\ s \notin DOMAIN w.server.sessions
  <2>1. Attach(w, c, s, mode) = Refuse(w, c)
    BY <1>3 DEF Attach
  <2>2. Right(w)
    BY <1>3 DEF Right
  <2> QED
    BY <2>1, <2>2, RefuseRight
<1>4. CASE w.conn[c] = "up" /\ s \in DOMAIN w.server.sessions
  <2>1. Attach(w, c, s, mode) = b
    <3>1. Attach(w, c, s, mode)
            = Send(Send([w EXCEPT !.server.dirty = TRUE, !.server.reads = R], gone, n), {c}, m)
      BY <1>4 DEF Attach
    <3>2. [w EXCEPT !.server.dirty = TRUE, !.server.reads = R] = z
      BY <1>1 DEF World, Server
    <3> QED
      BY <3>1, <3>2
  <2>2. R \in [Clients -> Nat]
    BY <1>1 DEF None
  <2>3. c \notin gone
    BY DEF Evicted
  <2>4. R[c] = s /\ \A d \in Clients : d # c => R[d] = IF d \in gone THEN None ELSE w.server.reads[d]
    OBVIOUS
  <2> HIDE DEF R, gone
  <2>5. u \in Server /\ u.up = w.server.up /\ u.sessions = w.server.sessions /\ u.made = w.server.made
    BY <1>1 DEF Server
  <2> HIDE DEF u
  <2>6. v \in Server /\ v.up = w.server.up /\ v.sessions = w.server.sessions /\ v.made = w.server.made
        /\ v.reads = R
    BY <2>2, <2>5 DEF Server
  <2> HIDE DEF v
  <2>7. z \in World /\ z.server = v /\ z.client = w.client /\ z.conn = w.conn /\ z.down = w.down
    BY <1>1, <2>6, ServerIs
  <2> HIDE DEF z
  <2>8. \A d \in Clients : Linked(z, d)
    BY <1>4, <2>4, <2>6, <2>7 DEF Sound, Linked
  <2>9. Sound(z)
    BY <2>6, <2>7, <2>8 DEF Sound
  <2>10. n \in Message /\ n.type = "Detached"
    BY DEF Gone, Answer, Message, Kinds, None
  <2>11. m \in Message /\ m.type = "Attached" /\ m.id = s /\ m.terms = w.server.sessions[s].terms
    <3>1. w.server.sessions[s].terms \in SUBSET Nat
      BY <1>1, <1>4, TablesIs DEF Session
    <3> QED
      BY <3>1 DEF Snapshot, Answer, Message, Kinds
  <2> HIDE DEF n, m
  <2>12. Sound(a) /\ Sound(b)
    BY <2>9, <2>10, <2>11, SendSound
  <2>13. a \in World /\ a.server = v
    BY <2>7, <2>10, SendIs
  <2>14. s # None
    <3>1. DOMAIN w.server.sessions \subseteq 1..w.server.made /\ w.server.made \in Nat
      BY <1>1, WorldIs DEF Sound
    <3> QED
      BY <1>4, <3>1 DEF None
  <2>15. Foreseen(b, c)
    <3>1. Terms(a.server, a.server.reads[c]) = m.terms /\ a.server.reads[c] = m.id
      BY <2>4, <2>6, <2>11, <2>13, <2>14 DEF Terms
    <3>2. \A y \in View : Seen(y, m) \in Shows(a.server.reads[c], Terms(a.server, a.server.reads[c]))
      BY <2>11, <2>14, <3>1, SeenAttached
    <3> HIDE DEF a
    <3> QED
      BY <2>11, <2>13, <3>2, SendAll
  <2>16. ASSUME NEW d \in Clients, d # c PROVE Foreseen(b, d)
    <3>1. Foreseen(a, d)
      <4>1. CASE d \in gone
        <5>1. z.server.reads[d] = None
          BY <2>4, <2>6, <2>7, <2>16, <4>1
        <5>2. \A y \in View : Seen(y, n) \in Shows(z.server.reads[d], Terms(z.server, z.server.reads[d]))
          BY <2>10, <5>1, SeenDetached
        <5> QED
          BY <2>7, <2>10, <4>1, <5>2, SendAll
      <4>2. CASE d \notin gone
        <5>1. z.server.reads[d] = w.server.reads[d] /\ z.server.sessions = w.server.sessions
          BY <2>4, <2>6, <2>7, <2>16, <4>2
        <5>2. Foreseen(z, d)
          BY <2>7, <2>16, <5>1, SameForeseen
        <5> QED
          BY <2>7, <2>10, <4>2, <5>2, SendOthers
      <4> QED
        BY <4>1, <4>2
    <3> HIDE DEF a
    <3> QED
      BY <2>11, <2>13, <2>16, <3>1, SendOthers
  <2> HIDE DEF b
  <2>17. Right(b)
    BY <2>12, <2>15, <2>16 DEF Right
  <2> QED
    BY <2>1, <2>17
<1> QED
  BY <1>2, <1>3, <1>4

\* The terminals of a session are others now, and its readers are told of it.
LEMMA SessionTold ==
    ASSUME NEW w, Right(w), NEW s \in DOMAIN w.server.sessions, NEW T \in SUBSET Nat,
           NEW z \in World, NEW m \in Message,
           z.client = w.client, z.conn = w.conn, z.down = w.down,
           z.server.up = w.server.up, z.server.made = w.server.made, z.server.reads = w.server.reads,
           DOMAIN z.server.sessions = DOMAIN w.server.sessions, z.server.sessions[s].terms = T,
           \A r \in DOMAIN w.server.sessions : r # s => z.server.sessions[r] = w.server.sessions[r],
           \A y \in Shows(s, w.server.sessions[s].terms) : Seen(y, m) \in Shows(s, T)
    PROVE  Right(Send(z, ReadersIn(w, s), m))
<1> DEFINE C == ReadersIn(w, s)
<1>1. \A d \in Clients : Linked(z, d)
  BY DEF Right, Sound, Linked
<1>2. Sound(z)
  BY <1>1 DEF Right, Sound
<1>3. w \in World /\ s # None
  <2>1. DOMAIN w.server.sessions \subseteq 1..w.server.made /\ w.server.made \in Nat /\ w \in World
    BY WorldIs DEF Right, Sound
  <2> QED
    BY <2>1 DEF None
<1>4. ASSUME NEW d \in Clients PROVE Foreseen(Send(z, C, m), d)
  <2>1. CASE d \in C
    <3>1. w.server.reads[d] = s
      BY <2>1 DEF ReadersIn
    <3>2. Terms(z.server, z.server.reads[d]) = T /\ Terms(w.server, s) = w.server.sessions[s].terms
      BY <1>3, <3>1 DEF Terms
    <3>3. w.conn[d] = "up" => Leads(w.down[d], Viewed(w.client[d]), s, w.server.sessions[s].terms)
      BY <3>1, <3>2 DEF Right, Foreseen
    <3>4. \A y \in Shows(z.server.reads[d], w.server.sessions[s].terms) :
              Seen(y, m) \in Shows(z.server.reads[d], Terms(z.server, z.server.reads[d]))
      BY <3>1, <3>2
    <3>5. z.conn[d] = "up" => Leads(z.down[d], Viewed(z.client[d]), z.server.reads[d], w.server.sessions[s].terms)
      BY <3>1, <3>3
    <3> HIDE DEF C
    <3> QED
      BY <2>1, <3>4, <3>5, SendNews
  <2>2. CASE d \notin C
    <3>1. w.server.reads[d] # s /\ (w.server.reads[d] # None => w.server.reads[d] \in DOMAIN w.server.sessions)
      BY <2>2 DEF ReadersIn, Right, Sound, Linked
    <3>2. Foreseen(z, d)
      BY <3>1, SameForeseen DEF Right
    <3> HIDE DEF C
    <3> QED
      BY <2>2, <3>2, SendOthers
  <2> QED
    BY <2>1, <2>2
<1> HIDE DEF C
<1>5. Right(Send(z, C, m))
  BY <1>2, <1>4, SendSound DEF Right
<1> QED
  BY <1>5 DEF C

LEMMA TermsIs ==
    ASSUME NEW w, Sound(w), NEW s \in DOMAIN w.server.sessions
    PROVE  /\ w.server.sessions[s] \in Session /\ w.server.sessions[s].terms \in SUBSET Nat
           /\ s \in Nat /\ s # None
<1>1. w.server.sessions \in Tables /\ DOMAIN w.server.sessions \subseteq 1..w.server.made /\ w.server.made \in Nat
  BY WorldIs DEF Sound
<1>2. w.server.sessions[s] \in Session
  BY <1>1, TablesIs
<1> QED
  BY <1>1, <1>2 DEF Session, None

\* A session with other terminals is a session.
LEMMA RetermedIs ==
    ASSUME NEW w, Sound(w), NEW s \in DOMAIN w.server.sessions, NEW T \in SUBSET Nat
    PROVE  LET f == [w.server.sessions EXCEPT ![s].terms = T]
           IN  /\ f \in Tables /\ DOMAIN f = DOMAIN w.server.sessions /\ f[s].terms = T
               /\ \A r \in DOMAIN w.server.sessions : r # s => f[r] = w.server.sessions[r]
<1> DEFINE g == w.server.sessions
           e == [g[s] EXCEPT !.terms = T]
           f == [g EXCEPT ![s] = e]
<1>1. g \in Tables
  BY WorldIs DEF Sound
<1>2. e \in Session /\ e.terms = T
  BY TermsIs DEF Session
<1>3. [g EXCEPT ![s].terms = T] = f
  OBVIOUS
<1>4. DOMAIN f = DOMAIN g /\ f[s] = e /\ \A r \in DOMAIN g : r # s => f[r] = g[r]
  OBVIOUS
<1>5. f = [x \in DOMAIN f |-> f[x]]
  OBVIOUS
<1> HIDE DEF f, e
<1>6. f \in Tables
  BY <1>1, <1>2, <1>4, <1>5, TablesIs
<1> HIDE DEF g
<1> QED
  BY <1>2, <1>3, <1>4, <1>6 DEF g

LEMMA NewTerminalRight ==
    ASSUME NEW w, Right(w), NEW c \in Clients
    PROVE  Right(NewTerminal(w, c))
<1> DEFINE s == w.server.reads[c]
           t == w.server.opened + 1
           T == w.server.sessions[s].terms \union {t}
           f == [w.server.sessions EXCEPT ![s].terms = T]
           u == [w.server EXCEPT !.opened = t]
           v == [u EXCEPT !.sessions = f]
           z == [w EXCEPT !.server = v]
           m == Answer("TermOpened", t, {t}, <<>>)
<1>1. w \in World /\ w.server \in Server /\ t \in Nat /\ Sound(w)
  BY WorldIs DEF Right, Sound
<1>2. CASE w.conn[c] # "up" \/ s = None
  <2>1. NewTerminal(w, c) \in {w, Refuse(w, c)}
    BY <1>2 DEF NewTerminal
  <2> QED
    BY <2>1, RefuseRight
<1>3. CASE w.conn[c] = "up" /\ s # None
  <2>1. s \in DOMAIN w.server.sessions
    BY <1>3 DEF Right, Sound, Linked
  <2>2. NewTerminal(w, c) = Send(z, ReadersIn(w, s), m)
    <3>1. NewTerminal(w, c)
            = Send([w EXCEPT !.server.opened = t, !.server.sessions[s].terms = T], ReadersIn(w, s), m)
      BY <1>1, <1>3, <2>1 DEF NewTerminal, World, Server
    <3>2. [w EXCEPT !.server.opened = t, !.server.sessions[s].terms = T] = z
      BY <1>1, <2>1 DEF World, Server
    <3> QED
      BY <3>1, <3>2
  <2>3. w.server.sessions[s].terms \in SUBSET Nat /\ T \in SUBSET Nat
    BY <1>1, <2>1, TermsIs
  <2>4. /\ f \in Tables /\ DOMAIN f = DOMAIN w.server.sessions /\ f[s].terms = T
        /\ \A r \in DOMAIN w.server.sessions : r # s => f[r] = w.server.sessions[r]
    <3> HIDE DEF T, s
    <3> QED
      BY <1>1, <2>1, <2>3, RetermedIs
  <2>5. m \in Message /\ m.type = "TermOpened" /\ m.terms = {t}
    BY <1>1 DEF Answer, Message, Kinds
  <2>6. \A y \in Shows(s, w.server.sessions[s].terms) : Seen(y, m) \in Shows(s, T)
    BY <2>5, SeenOpened
  <2> HIDE DEF f, T, t, s, m
  <2>7. u \in Server /\ u.up = w.server.up /\ u.made = w.server.made /\ u.reads = w.server.reads
    BY <1>1 DEF Server
  <2> HIDE DEF u
  <2>8. v \in Server /\ v.up = w.server.up /\ v.sessions = f /\ v.made = w.server.made /\ v.reads = w.server.reads
    BY <2>4, <2>7 DEF Server
  <2> HIDE DEF v
  <2>9. z \in World /\ z.server = v /\ z.client = w.client /\ z.conn = w.conn /\ z.down = w.down
    BY <1>1, <2>8, ServerIs
  <2> HIDE DEF z
  <2>10. Right(Send(z, ReadersIn(w, s), m))
    BY <2>1, <2>3, <2>4, <2>5, <2>6, <2>8, <2>9, SessionTold
  <2> QED
    BY <2>2, <2>10
<1> QED
  BY <1>2, <1>3

(***************************************************************************)
(* What a client does with what it holds.                                  *)
(***************************************************************************)
LEMMA LostIs ==
    ASSUME NEW x \in Client
    PROVE  Lost(x) \in Client /\ Together(Lost(x)) /\ ~Lost(x).attached
  BY DEF Lost, Client, Together, None

LEMMA ForgottenIs ==
    ASSUME NEW x \in Client
    PROVE  LET y == Forgotten(x)
           IN  /\ y \in Client /\ Together(y) /\ y.windows = {} /\ y.mirrors = x.mirrors
               /\ y.attached = x.attached /\ y.session = x.session
  BY DEF Forgotten, Client, Together

LEMMA OpenedIs ==
    ASSUME NEW x \in Client, Together(x), NEW T \in SUBSET Nat
    PROVE  LET y == Opened(x, T)
           IN  /\ y \in Client /\ Together(y) /\ y.attached = x.attached /\ y.session = x.session
               /\ y.windows = x.windows \union T /\ y.mirrors = x.mirrors \union T
               /\ y.announced = x.announced \union T
<1> DEFINE u == [x EXCEPT !.mirrors = @ \union T]
           v == [u EXCEPT !.announced = @ \union T]
           y == [v EXCEPT !.windows = @ \union T]
<1>1. Opened(x, T) = y
  BY DEF Opened, Client
<1>2. x.windows \in SUBSET Nat /\ x.mirrors \in SUBSET Nat /\ x.announced \in SUBSET Nat
  BY ViewedIs
<1>3. /\ u \in Client /\ u.mirrors = x.mirrors \union T /\ u.announced = x.announced
      /\ u.windows = x.windows /\ u.attached = x.attached /\ u.session = x.session
  BY <1>2 DEF Client
<1> HIDE DEF u
<1>4. /\ v \in Client /\ v.mirrors = x.mirrors \union T /\ v.announced = x.announced \union T
      /\ v.windows = x.windows /\ v.attached = x.attached /\ v.session = x.session
  BY <1>2, <1>3 DEF Client
<1> HIDE DEF v
<1>5. /\ y \in Client /\ y.mirrors = x.mirrors \union T /\ y.announced = x.announced \union T
      /\ y.windows = x.windows \union T /\ y.attached = x.attached /\ y.session = x.session
  BY <1>2, <1>4 DEF Client
<1> HIDE DEF y
<1>6. Together(y)
  BY <1>5 DEF Together
<1> QED
  BY <1>1, <1>5, <1>6

LEMMA WithoutIs ==
    ASSUME NEW x \in Client, Together(x), NEW T
    PROVE  LET y == Without(x, T)
           IN  /\ y \in Client /\ Together(y) /\ y.attached = x.attached /\ y.session = x.session
               /\ y.windows = x.windows \ T /\ y.mirrors = x.mirrors \ T
<1> DEFINE u == [x EXCEPT !.mirrors = @ \ T]
           v == [u EXCEPT !.announced = @ \ T]
           y == [v EXCEPT !.windows = @ \ T]
<1>1. Without(x, T) = y
  BY DEF Without, Client
<1>2. x.windows \in SUBSET Nat /\ x.mirrors \in SUBSET Nat /\ x.announced \in SUBSET Nat
  BY ViewedIs
<1>3. /\ u \in Client /\ u.mirrors = x.mirrors \ T /\ u.announced = x.announced
      /\ u.windows = x.windows /\ u.attached = x.attached /\ u.session = x.session
  BY <1>2 DEF Client
<1> HIDE DEF u
<1>4. /\ v \in Client /\ v.mirrors = x.mirrors \ T /\ v.announced = x.announced \ T
      /\ v.windows = x.windows /\ v.attached = x.attached /\ v.session = x.session
  BY <1>2, <1>3 DEF Client
<1> HIDE DEF v
<1>5. /\ y \in Client /\ y.mirrors = x.mirrors \ T /\ y.announced = x.announced \ T
      /\ y.windows = x.windows \ T /\ y.attached = x.attached /\ y.session = x.session
  BY <1>2, <1>4 DEF Client
<1> HIDE DEF y
<1>6. Together(y)
  BY <1>5 DEF Together
<1> QED
  BY <1>1, <1>5, <1>6

\* One client holds something else.
LEMMA ClientIs ==
    ASSUME NEW w \in World, NEW c \in Clients, NEW x \in Client
    PROVE  LET z == [w EXCEPT !.client[c] = x]
           IN  /\ z \in World /\ z.server = w.server /\ z.conn = w.conn /\ z.down = w.down
               /\ z.client[c] = x /\ \A d \in Clients : d # c => z.client[d] = w.client[d]
<1> DEFINE f == [w.client EXCEPT ![c] = x]
           z == [w EXCEPT !.client = f]
<1>1. w.client \in [Clients -> Client]
  BY WorldIs
<1>2. f \in [Clients -> Client] /\ f[c] = x /\ \A d \in Clients : d # c => f[d] = w.client[d]
  BY <1>1
<1>3. [w EXCEPT !.client[c] = x] = z
  BY DEF World
<1> HIDE DEF f
<1>4. z \in World /\ z.server = w.server /\ z.conn = w.conn /\ z.down = w.down /\ z.client = f
  BY <1>2 DEF World
<1> QED
  BY <1>2, <1>3, <1>4

\* Nothing changed but what one client holds and what is queued for it.
LEMMA OwnSound ==
    ASSUME NEW w, Sound(w), NEW c \in Clients, NEW z \in World,
           z.server = w.server, z.conn = w.conn, Together(z.client[c]),
           \A d \in Clients : d # c => z.client[d] = w.client[d]
    PROVE  Sound(z)
<1>1. \A d \in Clients : Linked(z, d) /\ Together(z.client[d])
  BY DEF Sound, Linked
<1> QED
  BY <1>1 DEF Sound

LEMMA OwnRight ==
    ASSUME NEW w, Sound(w), NEW c \in Clients, \A d \in Clients : d # c => Foreseen(w, d),
           NEW z \in World, z.server = w.server, z.conn = w.conn, Together(z.client[c]),
           \A d \in Clients : d # c => z.client[d] = w.client[d] /\ z.down[d] = w.down[d],
           Foreseen(z, c)
    PROVE  Right(z)
<1>1. Sound(z)
  BY OwnSound
<1>2. ASSUME NEW d \in Clients, d # c PROVE Foreseen(z, d)
  BY <1>2, SameForeseen
<1> QED
  BY <1>1, <1>2 DEF Right

\* Something about it changed that no message changes.
LEMMA AsideRight ==
    ASSUME NEW w, Right(w), NEW c \in Clients, NEW x \in Client, Together(x),
           Viewed(x) = Viewed(w.client[c])
    PROVE  Right([w EXCEPT !.client[c] = x])
<1> DEFINE z == [w EXCEPT !.client[c] = x]
<1>1. Sound(w) /\ w \in World /\ \A d \in Clients : Foreseen(w, d)
  BY DEF Right, Sound
<1>2. /\ z \in World /\ z.server = w.server /\ z.conn = w.conn /\ z.down = w.down
      /\ z.client[c] = x /\ \A d \in Clients : d # c => z.client[d] = w.client[d]
  BY <1>1, ClientIs
<1> HIDE DEF z
<1>3. Foreseen(z, c)
  BY <1>1, <1>2, SameForeseen
<1>4. Right(z)
  BY <1>1, <1>2, <1>3, OwnRight
<1> QED
  BY <1>4 DEF z

\* The first message is read.
LEMMA TakeRight ==
    ASSUME NEW w, Right(w), NEW c \in Clients, NEW x \in Client, Together(x), w.down[c] # <<>>,
           Viewed(x) = Seen(Viewed(w.client[c]), Head(w.down[c]))
    PROVE  LET z == [w EXCEPT !.down[c] = Tail(@)]
           IN  z \in World /\ z.client = w.client /\ z.server = w.server /\ Right([z EXCEPT !.client[c] = x])
<1> DEFINE f == [w.down EXCEPT ![c] = Tail(w.down[c])]
           a == [w EXCEPT !.down = f]
           z == [a EXCEPT !.client[c] = x]
<1>1. Sound(w) /\ w \in World /\ \A d \in Clients : Foreseen(w, d)
  BY DEF Right, Sound
<1>2. w.down \in [Clients -> Seq(Message)] /\ w.down[c] \in Seq(Message) /\ Tail(w.down[c]) \in Seq(Message)
  <2>1. w.down \in [Clients -> Seq(Message)] /\ w.down[c] \in Seq(Message)
    BY <1>1, WorldIs
  <2> QED
    BY <2>1, HeadTailProperties
<1>3. f \in [Clients -> Seq(Message)] /\ f[c] = Tail(w.down[c]) /\ \A d \in Clients : d # c => f[d] = w.down[d]
  BY <1>2
<1>4. [w EXCEPT !.down[c] = Tail(@)] = a
  BY <1>1, <1>2 DEF World
<1> HIDE DEF f
<1>5. a \in World /\ a.server = w.server /\ a.conn = w.conn /\ a.client = w.client /\ a.down = f
  BY <1>1, <1>3 DEF World
<1> HIDE DEF a
<1>6. /\ z \in World /\ z.server = w.server /\ z.conn = w.conn /\ z.down = f
      /\ z.client[c] = x /\ \A d \in Clients : d # c => z.client[d] = w.client[d]
  BY <1>5, ClientIs
<1> HIDE DEF z
<1>7. Foreseen(z, c)
  <2> DEFINE v == Viewed(w.client[c])
             q == w.down[c]
             s == w.server.reads[c]
             T == Terms(w.server, s)
  <2>1. w.conn[c] = "up" => Leads(q, v, s, T)
    BY <1>1 DEF Foreseen
  <2>2. q \in Seq(Message) /\ q # <<>>
    BY <1>2
  <2>3. Viewed(x) = Seen(v, Head(q)) /\ z.down[c] = Tail(q)
    BY <1>3, <1>6
  <2>4. z.conn[c] = w.conn[c] /\ z.server.reads[c] = s /\ Terms(z.server, s) = T /\ z.client[c] = x
    BY <1>6
  <2> HIDE DEF v, q, s, T
  <2>5. w.conn[c] = "up" => Leads(Tail(q), Seen(v, Head(q)), s, T)
    BY <2>1, <2>2, LeadsTail
  <2> QED
    BY <2>3, <2>4, <2>5 DEF Foreseen
<1>8. Right(z)
  BY <1>1, <1>3, <1>6, <1>7, OwnRight
<1> QED
  BY <1>4, <1>5, <1>8 DEF z

LEMMA FreshIs ==
    /\ FreshServer \in Server /\ FreshServer.up /\ DOMAIN FreshServer.sessions = {}
    /\ \A c \in Clients : FreshServer.reads[c] = None
<1>1. <<>> \in Tables /\ DOMAIN <<>> = {}
  <2>1. DOMAIN <<>> = {} /\ <<>> = [i \in DOMAIN <<>> |-> <<>>[i]]
    OBVIOUS
  <2> QED
    BY <2>1, TablesIs
<1>2. <<>> \in Seq(Clients) /\ [c \in Clients |-> None] \in [Clients -> Nat]
  BY DEF None
<1> QED
  BY <1>1, <1>2 DEF FreshServer, Server

LEMMA ConnectedRight ==
    ASSUME NEW w, Right(w), NEW c \in Clients
    PROVE  Right(Connected(w, c))
<1> DEFINE found == IF w.server.up THEN w.server ELSE FreshServer
           v == [found EXCEPT !.links = Append(@, c)]
           x == Lost(w.client[c])
           F == [w.client EXCEPT ![c] = x]
           N == [w.conn EXCEPT ![c] = "up"]
           Q == [w.down EXCEPT ![c] = <<>>]
           z == [server |-> v, client |-> F, conn |-> N, down |-> Q]
<1>1. /\ w \in World /\ Sound(w) /\ w.server \in Server /\ w.client \in [Clients -> Client]
      /\ w.conn \in [Clients -> {"none", "up", "cut"}] /\ w.down \in [Clients -> Seq(Message)]
      /\ \A d \in Clients : Linked(w, d) /\ Together(w.client[d]) /\ Foreseen(w, d)
  BY WorldIs DEF Right, Sound
<1>2. CASE w.conn[c] # "none"
  BY <1>2 DEF Connected
<1>3. CASE w.conn[c] = "none"
  <2>1. Connected(w, c) = z
    <3>1. Connected(w, c) = [w EXCEPT !.server = v, !.conn[c] = "up", !.down[c] = <<>>, !.client[c] = Lost(@)]
      BY <1>3 DEF Connected
    <3> HIDE DEF v
    <3> QED
      BY <1>1, <3>1 DEF World
  <2>2. /\ found \in Server /\ found.up /\ DOMAIN found.sessions \subseteq 1..found.made
        /\ \A d \in Clients : found.reads[d] = w.server.reads[d]
        /\ \A d \in Clients : w.server.reads[d] # None => found.sessions = w.server.sessions
    <3>1. CASE w.server.up
      BY <1>1, <3>1 DEF Sound
    <3>2. CASE ~w.server.up
      <4>1. \A d \in Clients : w.server.reads[d] = None
        BY <1>1, <3>2 DEF Linked
      <4>2. /\ FreshServer \in Server /\ FreshServer.up /\ DOMAIN FreshServer.sessions = {}
            /\ \A d \in Clients : FreshServer.reads[d] = None
        BY FreshIs
      <4> QED
        BY <3>2, <4>1, <4>2
    <3> QED
      BY <3>1, <3>2
  <2> HIDE DEF found
  <2>3. /\ v \in Server /\ v.up /\ v.sessions = found.sessions /\ v.made = found.made /\ v.reads = found.reads
    <3>1. found.links \in Seq(Clients) /\ Append(found.links, c) \in Seq(Clients)
      <4>1. found.links \in Seq(Clients)
        BY <2>2 DEF Server
      <4> QED
        BY <4>1, AppendProperties
    <3> QED
      BY <2>2, <3>1 DEF Server
  <2> HIDE DEF v
  <2>4. x \in Client /\ Together(x) /\ ~x.attached
    BY <1>1, LostIs
  <2> HIDE DEF x
  <2>5. /\ F \in [Clients -> Client] /\ F[c] = x /\ \A d \in Clients : d # c => F[d] = w.client[d]
    BY <1>1, <2>4
  <2>6. /\ N \in [Clients -> {"none", "up", "cut"}] /\ N[c] = "up" /\ \A d \in Clients : d # c => N[d] = w.conn[d]
    BY <1>1
  <2>7. /\ Q \in [Clients -> Seq(Message)] /\ Q[c] = <<>> /\ \A d \in Clients : d # c => Q[d] = w.down[d]
    <3>1. <<>> \in Seq(Message)
      OBVIOUS
    <3> QED
      BY <1>1, <3>1
  <2> HIDE DEF F, N, Q
  <2>8. z \in World
    BY <2>3, <2>5, <2>6, <2>7 DEF World
  <2>9. \A d \in Clients : z.server.reads[d] = w.server.reads[d]
    BY <2>2, <2>3
  <2>10. w.server.reads[c] = None
    BY <1>1, <1>3 DEF Linked
  <2>11. ASSUME NEW d \in Clients PROVE Linked(z, d) /\ Together(z.client[d])
    <3>1. CASE d = c
      BY <2>3, <2>4, <2>5, <2>6, <2>9, <2>10, <3>1 DEF Linked
    <3>2. CASE d # c
      <4>1. w.server.reads[d] # None => w.conn[d] = "up" /\ w.server.reads[d] \in DOMAIN found.sessions
        BY <1>1, <2>2 DEF Linked
      <4> QED
        BY <1>1, <2>3, <2>5, <2>6, <2>9, <3>2, <4>1 DEF Linked
    <3> QED
      BY <3>1, <3>2
  <2>12. Sound(z)
    BY <2>2, <2>3, <2>8, <2>11 DEF Sound
  <2>13. ASSUME NEW d \in Clients PROVE Foreseen(z, d)
    <3>1. CASE d = c
      <4>1. Viewed(x) \in View /\ ~Viewed(x).attached
        BY <2>4, ViewedIs DEF Viewed
      <4>2. Viewed(x) \in Shows(None, Terms(z.server, None))
        BY <4>1 DEF Shows
      <4>3. Leads(<<>>, Viewed(x), None, Terms(z.server, None))
        BY <4>2, LeadsNone DEF None
      <4> QED
        BY <2>5, <2>7, <2>9, <2>10, <3>1, <4>3 DEF Foreseen
    <3>2. CASE d # c
      <4>1. w.server.reads[d] # None => z.server.sessions = w.server.sessions
        BY <2>2, <2>3
      <4>2. z.conn[d] = w.conn[d] /\ z.down[d] = w.down[d] /\ z.client[d] = w.client[d]
        BY <2>5, <2>6, <2>7, <3>2
      <4> HIDE DEF z
      <4> QED
        BY <1>1, <2>9, <4>1, <4>2, SameForeseen
    <3> QED
      BY <3>1, <3>2
  <2>14. Right(z)
    BY <2>12, <2>13 DEF Right
  <2> QED
    BY <2>1, <2>14
<1> QED
  BY <1>2, <1>3

LEMMA SwitchedRight ==
    ASSUME NEW w, Right(w), NEW c \in Clients, NEW s \in Nat, NEW mode \in Modes
    PROVE  Right(SwitchedTo(w, c, s, mode))
<1> DEFINE x == [w.client[c] EXCEPT !.mode = mode]
           a == [w EXCEPT !.client[c] = x]
           b == Connected(a, c)
           f == Forgotten(b.client[c])
           y == [f EXCEPT !.session = s]
           z == [b EXCEPT !.client[c] = y]
<1>1. w \in World /\ w.client[c] \in Client /\ Together(w.client[c])
  BY WorldIs DEF Right, Sound
<1>2. x \in Client /\ Together(x) /\ Viewed(x) = Viewed(w.client[c])
  BY <1>1 DEF Client, Together, Viewed
<1>3. SwitchedTo(w, c, s, mode) \in {w, Attach(z, c, s, mode)}
  <2>1. [w EXCEPT !.client[c].mode = mode] = a
    BY <1>1 DEF World
  <2> QED
    BY <2>1 DEF SwitchedTo
<1> HIDE DEF x
<1>4. Right(b)
  BY <1>2, AsideRight, ConnectedRight
<1> HIDE DEF b
<1>5. Sound(b) /\ b \in World /\ b.client[c] \in Client /\ \A d \in Clients : Foreseen(b, d)
  BY <1>4, WorldIs DEF Right, Sound
<1>6. /\ f \in Client /\ Together(f) /\ f.windows = {} /\ f.mirrors = b.client[c].mirrors
      /\ f.attached = b.client[c].attached
  BY <1>5, ForgottenIs
<1> HIDE DEF f
<1>7. y \in Client /\ Together(y) /\ Viewed(y) = Diverted(Viewed(b.client[c]), s)
  BY <1>6 DEF Client, Together, Viewed, Diverted
<1> HIDE DEF y
<1>8. /\ z \in World /\ z.server = b.server /\ z.conn = b.conn /\ z.down = b.down
      /\ z.client[c] = y /\ \A d \in Clients : d # c => z.client[d] = b.client[d]
  BY <1>5, <1>7, ClientIs
<1> HIDE DEF z
<1>9. Sound(z)
  BY <1>5, <1>7, <1>8, OwnSound
<1>10. \A d \in Clients : d # c => Foreseen(z, d)
  BY <1>5, <1>8, SameForeseen
<1>11. ASSUME s \notin DOMAIN z.server.sessions PROVE Foreseen(z, c)
  <2> DEFINE r == b.server.reads[c]
             T == Terms(b.server, r)
             q == b.down[c]
             v == Viewed(b.client[c])
  <2>1. s # r \/ r = None
    BY <1>5, <1>8, <1>11 DEF Sound, Linked
  <2>2. q \in Seq(Message) /\ (b.conn[c] = "up" => Leads(q, v, r, T))
    BY <1>5, WorldIs DEF Foreseen
  <2>3. z.server.reads[c] = r /\ Terms(z.server, r) = T /\ z.conn[c] = b.conn[c] /\ z.down[c] = q
        /\ Viewed(z.client[c]) = Diverted(v, s)
    BY <1>7, <1>8
  <2> HIDE DEF r, T, q, v
  <2>4. b.conn[c] = "up" => Leads(q, Diverted(v, s), r, T)
    BY <2>1, <2>2, LeadsDiverted
  <2> QED
    BY <2>3, <2>4 DEF Foreseen
<1>12. Right(Attach(z, c, s, mode))
  BY <1>9, <1>10, <1>11, AttachRight
<1> QED
  BY <1>3, <1>12

(***************************************************************************)
(* What a client reads in a list.                                          *)
(***************************************************************************)
LEMMA NewestIs ==
    ASSUME NEW rows \in Seq(Row), rows # <<>>
    PROVE  NewestOf(rows) \in Nat
<1> DEFINE N == Len(rows)
           Best(n, s) == /\ \E i \in 1..n : rows[i].id = s
                         /\ \A i \in 1..n : rows[i].id <= s
           T == {n \in Nat : n + 1 <= N => \E s \in Nat : Best(n + 1, s)}
<1>1. N \in Nat /\ N # 0 /\ DOMAIN rows = 1..N /\ \A i \in 1..N : rows[i].id \in Nat
  <2>1. N \in Nat /\ DOMAIN rows = 1..N /\ N # 0
    BY LenProperties, EmptySeq
  <2>2. \A i \in 1..N : rows[i] \in Row
    BY ElementOfSeq
  <2> QED
    BY <2>1, <2>2 DEF Row
<1> HIDE DEF N
<1>2. 0 \in T
  <2>1. 1 \in 1..N /\ rows[1].id \in Nat
    BY <1>1
  <2>2. Best(1, rows[1].id)
    <3>1. \A i \in 1..1 : i = 1
      OBVIOUS
    <3> QED
      BY <2>1, <3>1
  <2> HIDE DEF Best
  <2> QED
    BY <2>1, <2>2
<1>3. ASSUME NEW n \in T PROVE n + 1 \in T
  <2>1. n \in Nat /\ n + 1 \in Nat
    OBVIOUS
  <2>2. CASE n + 1 + 1 <= N
    <3>1. n + 1 <= N /\ n + 2 \in 1..N /\ rows[n + 2].id \in Nat
      BY <1>1, <2>1, <2>2
    <3>2. PICK s \in Nat : Best(n + 1, s)
      BY <3>1
    <3> DEFINE k == rows[n + 2].id
    <3>3. \A i \in 1..(n + 2) : i \in 1..(n + 1) \/ i = n + 2
      BY <2>1
    <3>4. \A i \in 1..(n + 1) : i \in 1..(n + 2) /\ rows[i].id \in Nat
      BY <1>1, <2>1, <3>1
    <3>5. CASE k <= s
      <4>1. Best(n + 2, s)
        BY <3>2, <3>3, <3>4, <3>5
      <4> HIDE DEF Best
      <4> QED
        BY <2>1, <4>1
    <3>6. CASE s <= k
      <4>1. \A i \in 1..(n + 1) : rows[i].id <= k
        BY <3>1, <3>2, <3>4, <3>6
      <4>2. n + 2 \in 1..(n + 2)
        BY <2>1
      <4>3. Best(n + 2, k)
        BY <3>1, <3>3, <4>1, <4>2
      <4> HIDE DEF Best, k
      <4>4. k \in Nat
        BY <3>1 DEF k
      <4> QED
        BY <2>1, <4>3, <4>4
    <3> HIDE DEF Best
    <3> QED
      BY <3>1, <3>5, <3>6
  <2>3. CASE ~(n + 1 + 1 <= N)
    BY <2>1, <2>3
  <2> QED
    BY <2>2, <2>3
<1>4. T = Nat
  <2> HIDE DEF T
  <2>1. T \in SUBSET Nat
    BY DEF T
  <2> QED
    BY <1>2, <1>3, <2>1, Induction
<1>5. PICK s \in Nat : Best(N, s)
  <2>1. N - 1 \in Nat /\ (N - 1) + 1 = N /\ N <= N
    BY <1>1
  <2> HIDE DEF Best
  <2>2. \A n \in Nat : n + 1 <= N => \E s \in Nat : Best(n + 1, s)
    BY <1>4
  <2> QED
    BY <2>1, <2>2
<1>6. s \in Ids(rows) /\ \A z \in Ids(rows) : z <= s
  BY <1>1, <1>5 DEF Ids
<1>7. NewestOf(rows) \in Ids(rows)
  BY <1>6 DEF NewestOf
<1> QED
  BY <1>1, <1>7 DEF Ids

LEMMA IdsAre ==
    ASSUME NEW rows \in Seq(Row)
    PROVE  /\ Ids(rows) \subseteq Nat
           /\ [i \in DOMAIN rows |-> rows[i].id] \in Seq(Nat)
<1>1. DOMAIN rows = 1..Len(rows) /\ Len(rows) \in Nat
  BY LenProperties
<1>2. \A i \in DOMAIN rows : rows[i].id \in Nat
  <2>1. \A i \in DOMAIN rows : rows[i] \in Row
    BY <1>1, ElementOfSeq
  <2> QED
    BY <2>1 DEF Row
<1>3. [i \in 1..Len(rows) |-> rows[i].id] \in Seq(Nat)
  BY <1>1, <1>2, IsASeq
<1> QED
  BY <1>1, <1>2, <1>3 DEF Ids

(***************************************************************************)
(* Reading a list or an error, and the picker.                             *)
(***************************************************************************)
\* Two clients of one view.
Aside(x, y) ==
    /\ y \in Client /\ y.attached = x.attached /\ y.session = x.session
    /\ y.windows = x.windows /\ y.mirrors = x.mirrors /\ y.announced = x.announced

LEMMA AsideIs ==
    ASSUME NEW x, Together(x), NEW y, Aside(x, y)
    PROVE  y \in Client /\ Together(y) /\ Viewed(y) = Viewed(x)
  BY DEF Aside, Together, Viewed

LEMMA HeldIs ==
    ASSUME NEW w, Right(w), NEW c \in Clients
    PROVE  /\ w \in World /\ Sound(w) /\ w.client[c] \in Client /\ Together(w.client[c])
           /\ w.down[c] \in Seq(Message) /\ w.client \in [Clients -> Client]
  BY WorldIs DEF Right, Sound

LEMMA HeadIs ==
    ASSUME NEW w, Right(w), NEW c \in Clients, w.down[c] # <<>>
    PROVE  LET m == Head(w.down[c])
           IN  m \in Message /\ m.rows \in Seq(Row) /\ m.terms \in SUBSET Nat /\ m.id \in Nat
<1> DEFINE q == w.down[c]
<1>1. q \in Seq(Message) /\ q # <<>>
  BY HeldIs
<1> HIDE DEF q
<1>2. Head(q) \in Message
  BY <1>1, HeadTailProperties
<1> QED
  BY <1>2 DEF q, Message

TakenFrom(w, c) == [w EXCEPT !.down[c] = Tail(@)]

LEMMA IdleTaken ==
    ASSUME NEW w, Right(w), NEW c \in Clients, NEW x, Aside(w.client[c], x),
           w.down[c] # <<>>, Head(w.down[c]).type \in {"SessionList", "Error"}
    PROVE  Right([TakenFrom(w, c) EXCEPT !.client[c] = x])
<1>1. x \in Client /\ Together(x) /\ Viewed(x) = Viewed(w.client[c])
  BY HeldIs, AsideIs
<1>2. Viewed(x) = Seen(Viewed(w.client[c]), Head(w.down[c]))
  BY <1>1, SeenIdle
<1> QED
  BY <1>1, <1>2, TakeRight DEF TakenFrom

LEMMA TakenIs ==
    ASSUME NEW w, Right(w), NEW c \in Clients, w.down[c] # <<>>
    PROVE  /\ TakenFrom(w, c) \in World /\ TakenFrom(w, c).client = w.client
           /\ TakenFrom(w, c) = [TakenFrom(w, c) EXCEPT !.client[c] = w.client[c]]
<1> DEFINE q == Tail(w.down[c])
           f == [w.down EXCEPT ![c] = q]
           a == [w EXCEPT !.down = f]
<1>1. w \in World /\ w.down \in [Clients -> Seq(Message)] /\ q \in Seq(Message)
  <2>1. w \in World /\ w.down \in [Clients -> Seq(Message)] /\ w.down[c] \in Seq(Message)
    BY HeldIs, WorldIs
  <2> QED
    BY <2>1, HeadTailProperties
<1>2. TakenFrom(w, c) = a
  BY <1>1 DEF TakenFrom, World
<1> HIDE DEF q
<1>3. f \in [Clients -> Seq(Message)]
  BY <1>1
<1> HIDE DEF f
<1>4. a \in World /\ a.client = w.client
  BY <1>1, <1>3 DEF World
<1> HIDE DEF a
<1>5. a = [a EXCEPT !.client[c] = a.client[c]]
  BY <1>4 DEF World
<1> QED
  BY <1>2, <1>4, <1>5

LEMMA PlainTaken ==
    ASSUME NEW w, Right(w), NEW c \in Clients,
           w.down[c] # <<>>, Head(w.down[c]).type \in {"SessionList", "Error"}
    PROVE  Right(TakenFrom(w, c))
<1>1. Aside(w.client[c], w.client[c])
  BY HeldIs DEF Aside
<1>2. Right([TakenFrom(w, c) EXCEPT !.client[c] = w.client[c]])
  BY <1>1, IdleTaken
<1> QED
  BY <1>2, TakenIs

LEMMA PickingRight ==
    ASSUME NEW w, Right(w), NEW c \in Clients, NEW rows \in Seq(Row)
    PROVE  Right(Picking(w, c, rows))
<1> DEFINE others(row) == row.readers - (IF row.id = w.client[c].here THEN 1 ELSE 0)
           company == \E i \in DOMAIN rows : others(rows[i]) > 0
           ids == [i \in DOMAIN rows |-> rows[i].id]
           p == [rows |-> Len(rows), asks |-> company]
           x == w.client[c]
           ch == IF rows = <<>> THEN x.choice ELSE ids
           x1 == [x EXCEPT !.wants = FALSE]
           x2 == [x1 EXCEPT !.pickers = Append(@, p)]
           x3 == [x2 EXCEPT !.choice = ch]
           y == [x3 EXCEPT !.offered = company]
           z == [w EXCEPT !.client[c] = y]
<1>1. w \in World /\ x \in Client /\ Together(x) /\ w.client \in [Clients -> Client]
  BY HeldIs
<1>2. Len(rows) \in Nat /\ ids \in Seq(Nat) /\ company \in BOOLEAN
  BY LenProperties, IdsAre
<1>3. Picking(w, c, rows) = z
  <2> DEFINE u == [x EXCEPT !.wants = FALSE, !.pickers = Append(@, p),
                            !.choice = IF rows = <<>> THEN @ ELSE ids, !.offered = company]
  <2>1. Picking(w, c, rows) = [w EXCEPT !.client[c] = u]
    BY DEF Picking
  <2> HIDE DEF company, ids, p
  <2>2. u = y
    BY <1>1 DEF Client
  <2> QED
    BY <2>1, <2>2
<1>4. p \in Picker
  BY <1>2 DEF Picker
<1> HIDE DEF company, ids, p
<1>5. ch \in Seq(Nat) /\ x.pickers \in Seq(Picker) /\ Append(x.pickers, p) \in Seq(Picker)
  BY <1>1, <1>2, <1>4 DEF Client
<1>6. Aside(x, x1) /\ x1.pickers = x.pickers
  BY <1>1 DEF Client, Aside
<1> HIDE DEF x1, x, ch
<1>7. Aside(x, x2)
  BY <1>5, <1>6 DEF Client, Aside
<1> HIDE DEF x2
<1>8. Aside(x, x3)
  BY <1>5, <1>7 DEF Client, Aside
<1> HIDE DEF x3
<1>9. Aside(x, y)
  BY <1>2, <1>8 DEF Client, Aside
<1> HIDE DEF y
<1>10. y \in Client /\ Together(y) /\ Viewed(y) = Viewed(x)
  BY <1>1, <1>9, AsideIs
<1>11. Right(z)
  BY <1>10, AsideRight DEF x
<1> QED
  BY <1>3, <1>11

LEMMA HearOfNewRight ==
    ASSUME NEW w, Right(w), NEW c \in Clients, w.down[c] # <<>>,
           Head(w.down[c]).type = "SessionList", Head(w.down[c]).rows # <<>>
    PROVE  LET a == [TakenFrom(w, c) EXCEPT !.client[c].waiting = FALSE, !.client[c].decided = TRUE]
           IN  Right(SwitchedTo(a, c, NewestOf(Head(w.down[c]).rows), "TakeOver"))
<1> DEFINE t == TakenFrom(w, c)
           x == w.client[c]
           x1 == [x EXCEPT !.waiting = FALSE]
           y == [x1 EXCEPT !.decided = TRUE]
           a == [t EXCEPT !.client[c] = y]
<1>1. t \in World /\ t.client = w.client /\ x \in Client
  BY TakenIs, HeldIs
<1> HIDE DEF t
<1>2. [t EXCEPT !.client[c].waiting = FALSE, !.client[c].decided = TRUE] = a
  BY <1>1 DEF World, Client
<1>3. Aside(x, y)
  BY <1>1 DEF Client, Aside
<1> HIDE DEF y
<1>4. Right(a)
  BY <1>3, IdleTaken DEF t, x
<1>5. NewestOf(Head(w.down[c]).rows) \in Nat /\ "TakeOver" \in Modes
  BY HeadIs, NewestIs DEF Modes
<1> HIDE DEF a
<1>6. Right(SwitchedTo(a, c, NewestOf(Head(w.down[c]).rows), "TakeOver"))
  BY <1>4, <1>5, SwitchedRight
<1> QED
  BY <1>2, <1>6 DEF t

LEMMA StartInRight ==
    ASSUME NEW w, Right(w), NEW c \in Clients, w.down[c] # <<>>,
           Head(w.down[c]).type = "SessionList", NEW s \in Ids(Head(w.down[c]).rows)
    PROVE  Right(SwitchedTo([TakenFrom(w, c) EXCEPT !.client[c].decided = TRUE], c, s, "TakeOver"))
<1> DEFINE t == TakenFrom(w, c)
           x == w.client[c]
           y == [x EXCEPT !.decided = TRUE]
           a == [t EXCEPT !.client[c] = y]
<1>1. t \in World /\ t.client = w.client /\ x \in Client
  BY TakenIs, HeldIs
<1> HIDE DEF t
<1>2. [t EXCEPT !.client[c].decided = TRUE] = a
  BY <1>1 DEF World, Client
<1>3. Aside(x, y)
  BY <1>1 DEF Client, Aside
<1> HIDE DEF y
<1>4. Right(a)
  BY <1>3, IdleTaken DEF t, x
<1>5. s \in Nat /\ "TakeOver" \in Modes
  BY HeadIs, IdsAre DEF Modes
<1> HIDE DEF a
<1>6. Right(SwitchedTo(a, c, s, "TakeOver"))
  BY <1>4, <1>5, SwitchedRight
<1> QED
  BY <1>2, <1>6 DEF t

LEMMA StartWithNewRight ==
    ASSUME NEW w, Right(w), NEW c \in Clients, w.down[c] # <<>>, Head(w.down[c]).type = "SessionList"
    PROVE  Right(NewSession([TakenFrom(w, c) EXCEPT !.client[c].waiting = TRUE], c, None))
<1> DEFINE t == TakenFrom(w, c)
           x == w.client[c]
           y == [x EXCEPT !.waiting = TRUE]
           a == [t EXCEPT !.client[c] = y]
<1>1. t \in World /\ t.client = w.client /\ x \in Client
  BY TakenIs, HeldIs
<1> HIDE DEF t
<1>2. [t EXCEPT !.client[c].waiting = TRUE] = a
  BY <1>1 DEF World, Client
<1>3. Aside(x, y)
  BY <1>1 DEF Client, Aside
<1> HIDE DEF y
<1>4. Right(a)
  BY <1>3, IdleTaken DEF t, x
<1> HIDE DEF a
<1>5. Right(NewSession(a, c, None))
  BY <1>4, NewSessionRight
<1> QED
  BY <1>2, <1>5 DEF t

LEMMA StartChoosingRight ==
    ASSUME NEW w, Right(w), NEW c \in Clients, w.down[c] # <<>>, Head(w.down[c]).type = "SessionList"
    PROVE  Right(Picking([TakenFrom(w, c) EXCEPT !.client[c].decided = TRUE], c, Head(w.down[c]).rows))
<1> DEFINE t == TakenFrom(w, c)
           x == w.client[c]
           y == [x EXCEPT !.decided = TRUE]
           a == [t EXCEPT !.client[c] = y]
<1>1. t \in World /\ t.client = w.client /\ x \in Client
  BY TakenIs, HeldIs
<1> HIDE DEF t
<1>2. [t EXCEPT !.client[c].decided = TRUE] = a
  BY <1>1 DEF World, Client
<1>3. Aside(x, y)
  BY <1>1 DEF Client, Aside
<1> HIDE DEF y
<1>4. Right(a)
  BY <1>3, IdleTaken DEF t, x
<1>5. Head(w.down[c]).rows \in Seq(Row)
  BY HeadIs
<1> HIDE DEF a
<1>6. Right(Picking(a, c, Head(w.down[c]).rows))
  BY <1>4, <1>5, PickingRight
<1> QED
  BY <1>2, <1>6 DEF t

(***************************************************************************)
(* Reading what changes the view.                                          *)
(***************************************************************************)
LEMMA AsideStep ==
    ASSUME NEW w, Right(w), NEW c \in Clients, NEW y, Aside(w.client[c], y)
    PROVE  Right([w EXCEPT !.client[c] = y])
<1>1. y \in Client /\ Together(y) /\ Viewed(y) = Viewed(w.client[c])
  BY HeldIs, AsideIs
<1> QED
  BY <1>1, AsideRight

LEMMA ToldRight ==
    ASSUME NEW w, Right(w), NEW c \in Clients, NEW s \in Nat
    PROVE  Right(Told(w, c, s))
<1> DEFINE x == w.client[c]
           x1 == [x EXCEPT !.here = s]
           x2 == [x1 EXCEPT !.asked = FALSE]
           z == [w EXCEPT !.client[c] = x2]
<1>1. w \in World /\ x \in Client /\ w.client \in [Clients -> Client]
  BY HeldIs
<1>2. [w EXCEPT !.client[c].here = s, !.client[c].asked = FALSE] = z
  BY <1>1 DEF World
<1> HIDE DEF x
<1>3. x1 \in Client /\ Aside(x, x1)
  BY <1>1 DEF Aside, Client
<1> HIDE DEF x1
<1>4. Aside(x, x2)
  BY <1>3 DEF Aside, Client
<1> HIDE DEF x2
<1>5. Right(z)
  BY <1>4, AsideStep DEF x
<1> HIDE DEF z
<1> QED
  BY <1>2, <1>5, ListRight DEF Told

LEMMA AttachedRight ==
    ASSUME NEW w, Right(w), NEW c \in Clients, w.down[c] # <<>>, Head(w.down[c]).type = "Attached",
           NEW x, x = [Opened(w.client[c], Head(w.down[c]).terms \ w.client[c].announced) EXCEPT
                          !.attached = TRUE, !.session = Head(w.down[c]).id,
                          !.windows = @ \intersect Head(w.down[c]).terms,
                          !.mirrors = Head(w.down[c]).terms, !.announced = Head(w.down[c]).terms]
    PROVE  Right(Told([TakenFrom(w, c) EXCEPT !.client[c] = x], c, Head(w.down[c]).id))
<1> DEFINE m == Head(w.down[c])
           T == m.terms
           y == w.client[c]
           o == Opened(y, T \ y.announced)
           x1 == [o EXCEPT !.attached = TRUE]
           x2 == [x1 EXCEPT !.session = m.id]
           x3 == [x2 EXCEPT !.windows = @ \intersect T]
           x4 == [x3 EXCEPT !.mirrors = T]
           x5 == [x4 EXCEPT !.announced = T]
           a == [TakenFrom(w, c) EXCEPT !.client[c] = x]
<1>1. m \in Message /\ T \in SUBSET Nat /\ m.id \in Nat /\ m.type = "Attached"
  BY HeadIs
<1>2. y \in Client /\ Together(y) /\ y.announced = y.windows /\ y.windows \in SUBSET Nat
      /\ y.announced \in SUBSET Nat /\ y.mirrors \in SUBSET Nat
  BY HeldIs, ViewedIs DEF Together
<1> HIDE DEF m, T, y
<1>3. T \ y.announced \in SUBSET Nat
  BY <1>1
<1>4. o \in Client /\ o.windows = y.windows \union (T \ y.announced)
  BY <1>2, <1>3, OpenedIs
<1>5. x = x5
  <2>1. x = [o EXCEPT !.attached = TRUE, !.session = m.id, !.windows = @ \intersect T,
                      !.mirrors = T, !.announced = T]
    BY DEF m, T, y
  <2> HIDE DEF o
  <2> QED
    BY <1>4, <2>1 DEF Client
<1> HIDE DEF o
<1>6. x1 \in Client /\ x1.attached /\ x1.windows = o.windows
  BY <1>4 DEF Client
<1> HIDE DEF x1
<1>7. x2 \in Client /\ x2.attached /\ x2.session = m.id /\ x2.windows = o.windows
  BY <1>1, <1>6 DEF Client
<1> HIDE DEF x2
<1>8. x3 \in Client /\ x3.attached /\ x3.session = m.id /\ x3.windows = o.windows \intersect T
  BY <1>1, <1>7 DEF Client
<1> HIDE DEF x3
<1>9. x4 \in Client /\ x4.attached /\ x4.session = m.id /\ x4.windows = o.windows \intersect T /\ x4.mirrors = T
  BY <1>1, <1>8 DEF Client
<1> HIDE DEF x4
<1>10. /\ x5 \in Client /\ x5.attached /\ x5.session = m.id /\ x5.windows = o.windows \intersect T
       /\ x5.mirrors = T /\ x5.announced = T
  BY <1>1, <1>9 DEF Client
<1> HIDE DEF x5
<1>11. o.windows \intersect T = T
  BY <1>2, <1>4
<1>12. x \in Client /\ x.attached = TRUE /\ x.session = m.id /\ x.windows = T /\ x.mirrors = T /\ x.announced = T
  BY <1>5, <1>10, <1>11 DEF Client
<1>13. Together(x) /\ Viewed(x) = Seen(Viewed(y), m)
  <2>1. Together(x)
    BY <1>12 DEF Together
  <2>2. Viewed(x) = [attached |-> TRUE, session |-> m.id, windows |-> T, mirrors |-> T]
    BY <1>12 DEF Viewed
  <2>3. Seen(Viewed(y), m) = [attached |-> TRUE, session |-> m.id, windows |-> T, mirrors |-> T]
    BY <1>1 DEF Seen, T
  <2> QED
    BY <2>1, <2>2, <2>3
<1>14. Right(a)
  BY <1>12, <1>13, TakeRight DEF y, m, TakenFrom
<1> HIDE DEF a
<1>15. Right(Told(a, c, m.id))
  BY <1>1, <1>14, ToldRight
<1> QED
  BY <1>15 DEF a, m

LEMMA DetachedRight ==
    ASSUME NEW w, Right(w), NEW c \in Clients, w.down[c] # <<>>, Head(w.down[c]).type = "Detached",
           NEW x, x = [Forgotten(w.client[c]) EXCEPT !.attached = FALSE, !.here = None, !.wants = TRUE]
    PROVE  Right([TakenFrom(w, c) EXCEPT !.client[c] = x])
<1> DEFINE m == Head(w.down[c])
           y == w.client[c]
           o == Forgotten(y)
           x1 == [o EXCEPT !.attached = FALSE]
           x2 == [x1 EXCEPT !.here = None]
           x3 == [x2 EXCEPT !.wants = TRUE]
<1>1. y \in Client /\ Together(y)
  BY HeldIs
<1>2. o \in Client /\ Together(o) /\ o.windows = {} /\ o.mirrors = y.mirrors /\ o.session = y.session
  BY <1>1, ForgottenIs
<1> HIDE DEF o
<1>3. x = x3
  BY <1>2 DEF Client, o
<1>4. x1 \in Client /\ Together(x1) /\ x1.attached = FALSE /\ x1.windows = {} /\ x1.mirrors = y.mirrors /\ x1.session = y.session
  BY <1>2 DEF Client, Together
<1> HIDE DEF x1
<1>5. Aside(x1, x2)
  BY <1>4 DEF Client, Aside, None
<1> HIDE DEF x2
<1>6. Aside(x1, x3)
  BY <1>5 DEF Client, Aside
<1> HIDE DEF x3
<1>7. x \in Client /\ Together(x) /\ Viewed(x) = Viewed(x1)
  BY <1>3, <1>4, <1>6, AsideIs
<1>8. Viewed(x1) = Seen(Viewed(y), m)
  BY <1>4 DEF Viewed, Seen
<1> QED
  BY <1>7, <1>8, TakeRight DEF TakenFrom

LEMMA OpenedRight ==
    ASSUME NEW w, Right(w), NEW c \in Clients, w.down[c] # <<>>, Head(w.down[c]).type = "TermOpened"
    PROVE  Right([TakenFrom(w, c) EXCEPT
                     !.client[c] = Opened(w.client[c], Head(w.down[c]).terms \ w.client[c].mirrors)])
<1> DEFINE m == Head(w.down[c])
           y == w.client[c]
           x == Opened(y, m.terms \ y.mirrors)
<1>1. m.type = "TermOpened" /\ m.terms \in SUBSET Nat /\ y \in Client /\ Together(y) /\ y.mirrors \in SUBSET Nat
  BY HeadIs, HeldIs, ViewedIs
<1>2. /\ x \in Client /\ Together(x) /\ x.attached = y.attached /\ x.session = y.session
      /\ x.windows = y.windows \union (m.terms \ y.mirrors)
      /\ x.mirrors = y.mirrors \union (m.terms \ y.mirrors)
  <2> HIDE DEF m, y
  <2>1. m.terms \ y.mirrors \in SUBSET Nat
    BY <1>1
  <2> QED
    BY <1>1, <2>1, OpenedIs
<1> HIDE DEF m, y, x
<1>3. y.mirrors \union (m.terms \ y.mirrors) = y.mirrors \union m.terms
  OBVIOUS
<1>4. Viewed(x) = Seen(Viewed(y), m)
  BY <1>1, <1>2, <1>3 DEF Viewed, Seen
<1> QED
  BY <1>2, <1>4, TakeRight DEF TakenFrom, x, y, m

LEMMA ClosedRight ==
    ASSUME NEW w, Right(w), NEW c \in Clients, w.down[c] # <<>>, Head(w.down[c]).type = "TermClosed"
    PROVE  Right([TakenFrom(w, c) EXCEPT !.client[c] = Without(w.client[c], Head(w.down[c]).terms)])
<1> DEFINE m == Head(w.down[c])
           y == w.client[c]
           x == Without(y, m.terms)
<1>1. m.type = "TermClosed" /\ y \in Client /\ Together(y)
  BY HeldIs
<1>2. /\ x \in Client /\ Together(x) /\ x.attached = y.attached /\ x.session = y.session
      /\ x.windows = y.windows \ m.terms /\ x.mirrors = y.mirrors \ m.terms
  BY <1>1, WithoutIs
<1> HIDE DEF m, y, x
<1>3. Viewed(x) = Seen(Viewed(y), m)
  BY <1>1, <1>2 DEF Viewed, Seen
<1> QED
  BY <1>2, <1>3, TakeRight DEF TakenFrom, x, y, m

(***************************************************************************)
(* What the reader and the loop do without a message.                      *)
(***************************************************************************)
LEMMA AskedRight ==
    ASSUME NEW w, Right(w), NEW c \in Clients
    PROVE  /\ Right([w EXCEPT !.client[c].asked = TRUE])
           /\ Right([w EXCEPT !.client[c].wants = TRUE])
           /\ Right([w EXCEPT !.client[c].waiting = TRUE])
<1> DEFINE x == w.client[c]
<1>1. w \in World /\ x \in Client /\ w.client \in [Clients -> Client]
  BY HeldIs
<1>2. /\ Aside(x, [x EXCEPT !.asked = TRUE]) /\ Aside(x, [x EXCEPT !.wants = TRUE])
      /\ Aside(x, [x EXCEPT !.waiting = TRUE])
  BY <1>1 DEF Aside, Client
<1>3. /\ [w EXCEPT !.client[c].asked = TRUE] = [w EXCEPT !.client[c] = [x EXCEPT !.asked = TRUE]]
      /\ [w EXCEPT !.client[c].wants = TRUE] = [w EXCEPT !.client[c] = [x EXCEPT !.wants = TRUE]]
      /\ [w EXCEPT !.client[c].waiting = TRUE] = [w EXCEPT !.client[c] = [x EXCEPT !.waiting = TRUE]]
  BY <1>1 DEF World, Client
<1> QED
  BY <1>2, <1>3, AsideStep

LEMMA StartedRight ==
    ASSUME NEW w, Right(w), NEW c \in Clients, NEW s \in DOMAIN w.server.sessions \union {None}
    PROVE  Right([w EXCEPT !.client[c].running = TRUE, !.client[c].named = s])
<1> DEFINE x == w.client[c]
           x1 == [x EXCEPT !.running = TRUE]
           x2 == [x1 EXCEPT !.named = s]
<1>1. w \in World /\ x \in Client /\ w.client \in [Clients -> Client] /\ s \in Nat
  BY HeldIs, TermsIs DEF None
<1>2. [w EXCEPT !.client[c].running = TRUE, !.client[c].named = s] = [w EXCEPT !.client[c] = x2]
  BY <1>1 DEF World, Client
<1> HIDE DEF x
<1>3. Aside(x, x1)
  BY <1>1 DEF Aside, Client
<1> HIDE DEF x1
<1>4. Aside(x, x2)
  BY <1>1, <1>3 DEF Aside, Client
<1> QED
  BY <1>2, <1>4, AsideStep DEF x

AnsweredFrom(w, c) ==
    LET x == [w.client[c] EXCEPT !.pickers = Front(@)]
    IN [w EXCEPT !.client[c] = IF x.pickers = <<>> THEN [x EXCEPT !.choice = <<>>, !.offered = FALSE]
                               ELSE x]

LEMMA AnsweredRight ==
    ASSUME NEW w, Right(w), NEW c \in Clients, w.client[c].pickers # <<>>
    PROVE  Right(AnsweredFrom(w, c))
<1> DEFINE y == w.client[c]
           x == [y EXCEPT !.pickers = Front(@)]
           e1 == [x EXCEPT !.choice = <<>>]
           e2 == [e1 EXCEPT !.offered = FALSE]
           e == [x EXCEPT !.choice = <<>>, !.offered = FALSE]
           z == IF x.pickers = <<>> THEN e ELSE x
<1>1. y \in Client /\ y.pickers \in Seq(Picker) /\ y.pickers # <<>>
  BY HeldIs DEF Client
<1>2. Front(y.pickers) \in Seq(Picker)
  <2> DEFINE q == y.pickers
  <2>1. q \in Seq(Picker) /\ q # <<>>
    BY <1>1
  <2> HIDE DEF q
  <2>2. Len(q) \in Nat \ {0} /\ DOMAIN q = 1..Len(q)
    BY <2>1, LenProperties, EmptySeq
  <2>3. \A i \in 1..(Len(q) - 1) : q[i] \in Picker
    BY <2>1, <2>2, ElementOfSeq
  <2>4. SubSeq(q, 1, Len(q) - 1) \in Seq(Picker)
    BY <2>1, <2>2, <2>3, SubSeqProperties
  <2> QED
    BY <2>4 DEF Front, q
<1>3. AnsweredFrom(w, c) = [w EXCEPT !.client[c] = z]
  BY DEF AnsweredFrom
<1> HIDE DEF y
<1>4. Aside(y, x)
  BY <1>1, <1>2 DEF Aside, Client
<1> HIDE DEF x
<1>5. Aside(y, e1)
  <2>1. <<>> \in Seq(Nat)
    OBVIOUS
  <2> QED
    BY <1>4, <2>1 DEF Aside, Client
<1>6. e = e2
  BY <1>4 DEF Aside, Client
<1> HIDE DEF e1, e
<1>7. Aside(y, e2)
  BY <1>5 DEF Aside, Client
<1> HIDE DEF e2
<1>8. Aside(y, z)
  BY <1>4, <1>6, <1>7
<1> QED
  BY <1>3, <1>8, AsideStep DEF y

LEMMA EndRight ==
    ASSUME NEW w, Right(w), NEW c \in Clients, w.conn[c] = "cut"
    PROVE  Right([w EXCEPT !.conn[c] = "none", !.client[c] = Lost(@)])
<1> DEFINE x == Lost(w.client[c])
           N == [w.conn EXCEPT ![c] = "none"]
           a == [w EXCEPT !.conn = N]
           z == [a EXCEPT !.client[c] = x]
<1>1. /\ w \in World /\ w.client[c] \in Client /\ w.conn \in [Clients -> {"none", "up", "cut"}]
      /\ w.client \in [Clients -> Client]
      /\ \A d \in Clients : Linked(w, d) /\ Together(w.client[d]) /\ Foreseen(w, d)
  BY WorldIs DEF Right, Sound
<1>2. [w EXCEPT !.conn[c] = "none", !.client[c] = Lost(@)] = z
  BY <1>1 DEF World
<1>3. x \in Client /\ Together(x)
  BY <1>1, LostIs
<1> HIDE DEF x
<1>4. /\ N \in [Clients -> {"none", "up", "cut"}] /\ N[c] = "none" /\ \A d \in Clients : d # c => N[d] = w.conn[d]
  BY <1>1
<1> HIDE DEF N
<1>5. a \in World /\ a.server = w.server /\ a.client = w.client /\ a.conn = N /\ a.down = w.down
  BY <1>1, <1>4 DEF World
<1> HIDE DEF a
<1>6. /\ z \in World /\ z.server = w.server /\ z.conn = N /\ z.down = w.down
      /\ z.client[c] = x /\ \A d \in Clients : d # c => z.client[d] = w.client[d]
  BY <1>3, <1>5, ClientIs
<1> HIDE DEF z
<1>7. \A d \in Clients : Linked(z, d) /\ Together(z.client[d])
  BY <1>1, <1>3, <1>4, <1>6 DEF Linked
<1>8. Sound(z)
  BY <1>6, <1>7 DEF Right, Sound
<1>9. ASSUME NEW d \in Clients PROVE Foreseen(z, d)
  <2>1. CASE d = c
    BY <1>4, <1>6, <2>1 DEF Foreseen
  <2>2. CASE d # c
    BY <1>1, <1>4, <1>6, <2>2, SameForeseen
  <2> QED
    BY <2>1, <2>2
<1>10. Right(z)
  BY <1>8, <1>9 DEF Right
<1> QED
  BY <1>2, <1>10

(***************************************************************************)
(* What the server does by itself.                                         *)
(***************************************************************************)
LEMMA RefreshRight ==
    ASSUME NEW w, Right(w), NEW c \in Clients, w.server.reads[c] # None
    PROVE  Right(Send(w, {c}, Snapshot(w, w.server.reads[c])))
<1> DEFINE s == w.server.reads[c]
           m == Snapshot(w, s)
           z == Send(w, {c}, m)
<1>1. Sound(w) /\ w \in World /\ s \in DOMAIN w.server.sessions /\ \A d \in Clients : Foreseen(w, d)
  BY DEF Right, Sound, Linked
<1>2. w.server.sessions[s].terms \in SUBSET Nat /\ s \in Nat /\ s # None
  BY <1>1, TermsIs
<1>3. m \in Message /\ m.type = "Attached" /\ m.id = s /\ m.terms = w.server.sessions[s].terms
  <2> HIDE DEF s
  <2> QED
    BY <1>2 DEF Snapshot, Answer, Message, Kinds
<1>4. \A y \in View : Seen(y, m) \in Shows(w.server.reads[c], Terms(w.server, w.server.reads[c]))
  BY <1>2, <1>3, SeenAttached DEF Terms
<1> HIDE DEF m, s
<1>5. Foreseen(z, c)
  BY <1>1, <1>3, <1>4, SendAll
<1>6. \A d \in Clients : d # c => Foreseen(z, d)
  BY <1>1, <1>3, SendOthers
<1>7. Sound(z)
  BY <1>1, <1>3, SendSound
<1> HIDE DEF z
<1>8. Right(z)
  BY <1>5, <1>6, <1>7 DEF Right
<1> QED
  BY <1>8 DEF z, m, s

LEMMA TerminalEndsRight ==
    ASSUME NEW w, Right(w), NEW s \in DOMAIN w.server.sessions, NEW t \in w.server.sessions[s].terms
    PROVE  LET z == [w EXCEPT !.server.sessions[s].terms = @ \ {t}]
           IN  Right(Broadcast(Send(z, ReadersIn(w, s), Answer("TermClosed", t, {t}, <<>>))))
<1> DEFINE T == w.server.sessions[s].terms \ {t}
           f == [w.server.sessions EXCEPT ![s].terms = T]
           v == [w.server EXCEPT !.sessions = f]
           z == [w EXCEPT !.server = v]
           m == Answer("TermClosed", t, {t}, <<>>)
           a == Send(z, ReadersIn(w, s), m)
<1>1. w \in World /\ w.server \in Server /\ Sound(w) /\ w.server.sessions \in Tables
  BY WorldIs DEF Right, Sound
<1>2. w.server.sessions[s].terms \in SUBSET Nat /\ T \in SUBSET Nat /\ t \in Nat
      /\ w.server.sessions[s] \in Session
  BY <1>1, TermsIs
<1>3. [w EXCEPT !.server.sessions[s].terms = @ \ {t}] = z
  BY <1>1, <1>2 DEF World, Server
<1>4. /\ f \in Tables /\ DOMAIN f = DOMAIN w.server.sessions /\ f[s].terms = T
      /\ \A r \in DOMAIN w.server.sessions : r # s => f[r] = w.server.sessions[r]
  <2> HIDE DEF T
  <2> QED
    BY <1>1, <1>2, RetermedIs
<1>5. m \in Message /\ m.type = "TermClosed" /\ m.terms = {t}
  BY <1>2 DEF Answer, Message, Kinds
<1>6. \A y \in Shows(s, w.server.sessions[s].terms) : Seen(y, m) \in Shows(s, T)
  BY <1>5, SeenClosed
<1> HIDE DEF f, T, m
<1>7. v \in Server /\ v.up = w.server.up /\ v.sessions = f /\ v.made = w.server.made /\ v.reads = w.server.reads
  BY <1>1, <1>4 DEF Server
<1> HIDE DEF v
<1>8. z \in World /\ z.server = v /\ z.client = w.client /\ z.conn = w.conn /\ z.down = w.down
  BY <1>1, <1>7, ServerIs
<1> HIDE DEF z
<1>9. Right(a)
  BY <1>2, <1>4, <1>5, <1>6, <1>7, <1>8, SessionTold
<1>10. Right(Broadcast(a))
  BY <1>9, BroadcastRight
<1> QED
  BY <1>3, <1>10 DEF m

LEMMA BroadcastIs ==
    ASSUME NEW w, Right(w)
    PROVE  Broadcast(w).server.sessions = w.server.sessions
<1>1. w \in World /\ Listing(w) \in Message
  BY ListingIs DEF Right, Sound
<1> DEFINE v == [w.server EXCEPT !.dirty = FALSE]
           z == [w EXCEPT !.server = v]
<1>2. Broadcast(w) = Send(z, Clients, Listing(w))
  BY <1>1 DEF Broadcast, World
<1>3. w.server \in Server
  BY <1>1, WorldIs
<1>4. v \in Server /\ v.sessions = w.server.sessions
  BY <1>3 DEF Server
<1> HIDE DEF v
<1>5. z \in World /\ z.server = v
  BY <1>1, <1>4, ServerIs
<1> HIDE DEF z
<1>6. Send(z, Clients, Listing(w)).server = v
  BY <1>1, <1>5, SendIs
<1> QED
  BY <1>2, <1>4, <1>6

\* The server ends, and with it every connection.
LEMMA ServerEndsRight ==
    ASSUME NEW w, Right(w), DOMAIN w.server.sessions = {}
    PROVE  Right([w EXCEPT !.server.up = FALSE,
                           !.conn = [c \in Clients |-> IF @[c] = "up" THEN "cut" ELSE @[c]]])
<1> DEFINE v == [w.server EXCEPT !.up = FALSE]
           N == [c \in Clients |-> IF w.conn[c] = "up" THEN "cut" ELSE w.conn[c]]
           a == [w EXCEPT !.server = v]
           z == [a EXCEPT !.conn = N]
<1>1. /\ w \in World /\ w.server \in Server /\ w.conn \in [Clients -> {"none", "up", "cut"}]
      /\ DOMAIN w.server.sessions \subseteq 1..w.server.made
      /\ \A d \in Clients : Linked(w, d) /\ Together(w.client[d]) /\ Foreseen(w, d)
  BY WorldIs DEF Right, Sound
<1>2. [w EXCEPT !.server.up = FALSE,
                !.conn = [c \in Clients |-> IF @[c] = "up" THEN "cut" ELSE @[c]]] = z
  BY <1>1 DEF World, Server
<1>3. v \in Server /\ v.sessions = w.server.sessions /\ v.made = w.server.made /\ v.reads = w.server.reads
  BY <1>1 DEF Server
<1> HIDE DEF v
<1>4. N \in [Clients -> {"none", "up", "cut"}] /\ \A c \in Clients : N[c] # "up"
  BY <1>1
<1> HIDE DEF N
<1>5. a \in World /\ a.server = v /\ a.client = w.client /\ a.conn = w.conn /\ a.down = w.down
  BY <1>1, <1>3, ServerIs
<1> HIDE DEF a
<1>6. z \in World /\ z.server = v /\ z.client = w.client /\ z.conn = N
  BY <1>4, <1>5 DEF World
<1> HIDE DEF z
<1>7. \A d \in Clients : w.server.reads[d] = None
  BY <1>1 DEF Linked
<1>8. Sound(z)
  BY <1>1, <1>3, <1>4, <1>6, <1>7 DEF Sound, Linked
<1>9. \A d \in Clients : Foreseen(z, d)
  BY <1>4, <1>6 DEF Foreseen
<1>10. Right(z)
  BY <1>8, <1>9 DEF Right
<1> QED
  BY <1>2, <1>10

\* A session goes with its terminals, and its readers are detached.
Emptied(w, s) ==
    [Send(w, ReadersIn(w, s), Gone) EXCEPT
        !.server.sessions = [z \in DOMAIN w.server.sessions \ {s} |-> w.server.sessions[z]],
        !.server.reads = [c \in Clients |-> IF @[c] = s THEN None ELSE @[c]]]

LEMMA EmptiedRight ==
    ASSUME NEW w, Right(w), NEW s \in DOMAIN w.server.sessions
    PROVE  /\ Right(Emptied(w, s))
           /\ DOMAIN Emptied(w, s).server.sessions = DOMAIN w.server.sessions \ {s}
<1> DEFINE old == w.server.sessions
           f == [x \in DOMAIN old \ {s} |-> old[x]]
           R == [c \in Clients |-> IF w.server.reads[c] = s THEN None ELSE w.server.reads[c]]
           u == [w.server EXCEPT !.sessions = f]
           v == [u EXCEPT !.reads = R]
           z == [w EXCEPT !.server = v]
           C == ReadersIn(w, s)
           m == Gone
           a == Send(w, C, m)
           e == [a EXCEPT !.server = v]
           b == Send(z, C, m)
<1>1. /\ w \in World /\ w.server \in Server /\ old \in Tables /\ w.server.reads \in [Clients -> Nat]
      /\ DOMAIN old \subseteq 1..w.server.made /\ Sound(w) /\ \A d \in Clients : Foreseen(w, d)
  BY WorldIs DEF Right, Sound
<1>2. f \in Tables /\ DOMAIN f = DOMAIN old \ {s} /\ \A x \in DOMAIN old : x # s => f[x] = old[x]
  <2>1. f = [x \in DOMAIN f |-> f[x]] /\ DOMAIN f = DOMAIN old \ {s} /\ \A x \in DOMAIN f : f[x] = old[x]
    OBVIOUS
  <2> HIDE DEF f, old
  <2>2. DOMAIN f \subseteq Nat /\ \A x \in DOMAIN f : f[x] \in Session
    BY <1>1, <2>1, TablesIs
  <2> QED
    BY <2>1, <2>2, TablesIs
<1>3. /\ R \in [Clients -> Nat]
      /\ \A d \in Clients : R[d] = IF w.server.reads[d] = s THEN None ELSE w.server.reads[d]
  BY <1>1 DEF None
<1>4. m \in Message /\ m.type = "Detached"
  BY DEF Gone, Answer, Message, Kinds, None
<1>5. a \in World /\ a.server = w.server
  BY <1>1, <1>4, SendIs
<1>6. Emptied(w, s) = e
  <2>1. Emptied(w, s) = [a EXCEPT !.server.sessions = f,
                            !.server.reads = [c \in Clients |-> IF @[c] = s THEN None ELSE @[c]]]
    BY DEF Emptied
  <2> DEFINE RR == [c \in Clients |-> IF a.server.reads[c] = s THEN None ELSE a.server.reads[c]]
             g == [a.server EXCEPT !.sessions = f]
             h == [g EXCEPT !.reads = RR]
  <2> HIDE DEF a, f
  <2>2. a.server \in Server
    BY <1>1, <1>5
  <2>3. Emptied(w, s) = [a EXCEPT !.server.sessions = f, !.server.reads = RR]
    BY <2>1
  <2>4. RR = R
    BY <1>5
  <2> HIDE DEF RR, R
  <2>5. [a EXCEPT !.server.sessions = f, !.server.reads = RR] = [a EXCEPT !.server = h]
    BY <1>5, <2>2 DEF World, Server
  <2>6. h = v
    BY <1>5, <2>4
  <2> QED
    BY <2>3, <2>5, <2>6
<1> HIDE DEF f, R
<1>7. u \in Server /\ u.up = w.server.up /\ u.made = w.server.made /\ u.sessions = f
  BY <1>1, <1>2 DEF Server
<1> HIDE DEF u
<1>8. v \in Server /\ v.up = w.server.up /\ v.made = w.server.made /\ v.sessions = f /\ v.reads = R
  BY <1>3, <1>7 DEF Server
<1> HIDE DEF v
<1>9. z \in World /\ z.server = v /\ z.client = w.client /\ z.conn = w.conn /\ z.down = w.down
  BY <1>1, <1>8, ServerIs
<1>10. e = b
  <2> HIDE DEF m, C
  <2> QED
    BY <1>1, <1>8, <1>9 DEF Send, World
<1> HIDE DEF z, e, a
<1>11. \A d \in Clients : Linked(z, d) /\ Together(z.client[d])
  BY <1>1, <1>2, <1>3, <1>8, <1>9 DEF Sound, Linked
<1>12. Sound(z)
  BY <1>1, <1>2, <1>8, <1>9, <1>11 DEF Sound
<1>13. ASSUME NEW d \in Clients PROVE Foreseen(b, d)
  <2>1. CASE d \in C
    <3>1. z.server.reads[d] = None
      BY <1>3, <1>8, <1>9, <2>1 DEF ReadersIn
    <3>2. \A y \in View : Seen(y, m) \in Shows(z.server.reads[d], Terms(z.server, z.server.reads[d]))
      BY <1>4, <3>1, SeenDetached
    <3> HIDE DEF C, m
    <3> QED
      BY <1>4, <1>9, <2>1, <3>2, SendAll
  <2>2. CASE d \notin C
    <3>1. w.server.reads[d] # s
      BY <2>2 DEF ReadersIn
    <3>2. z.server.reads[d] = w.server.reads[d]
          /\ (w.server.reads[d] # None => z.server.sessions[w.server.reads[d]] = w.server.sessions[w.server.reads[d]])
      BY <1>1, <1>2, <1>3, <1>8, <1>9, <3>1 DEF Sound, Linked
    <3>3. Foreseen(z, d)
      BY <1>1, <1>9, <3>2, SameForeseen
    <3> HIDE DEF C, m
    <3> QED
      BY <1>4, <1>9, <2>2, <3>3, SendOthers
  <2> QED
    BY <2>1, <2>2
<1>14. Sound(b) /\ b.server = v
  BY <1>4, <1>9, <1>12, SendSound, SendIs
<1> HIDE DEF b
<1>15. Right(b)
  BY <1>13, <1>14 DEF Right
<1> QED
  BY <1>2, <1>6, <1>8, <1>10, <1>14, <1>15

(***************************************************************************)
(* The invariant, initially and after every action.                        *)
(***************************************************************************)
LEMMA NowIs ==
    ASSUME NEW STATE z, Right(z), Become(z)
    PROVE  Right(Now)'
<1>1. z \in World
  BY DEF Right, Sound
<1>2. server' = z.server /\ client' = z.client /\ conn' = z.conn /\ down' = z.down
  BY DEF Become
<1>3. z = [server |-> z.server, client |-> z.client, conn |-> z.conn, down |-> z.down]
  BY <1>1 DEF World
<1>4. Now' = z
  BY <1>2, <1>3 DEF Now
<1> QED
  BY <1>4

LEMMA StepReceive ==
    ASSUME Right(Now), NEW c \in Clients, Receive(c)
    PROVE  Right(Now)'
<1> DEFINE w == Now
<1>1. w.server = server /\ w.client = client /\ w.conn = conn /\ w.down = down
  BY DEF Now
<1>2. Taken(c) = TakenFrom(w, c)
  BY DEF Taken, TakenFrom
<1>3. down[c] # <<>> /\ Rows(c) = Head(w.down[c]).rows /\ w.down[c] # <<>>
  BY DEF Receive, HearOfNew, StartInSession, StartWithNew, StartChoosing, Listed, HearAttached,
         HearDetached, HearOpened, HearClosed, HearError, Starting, Heard, Rows, Now
<1> HIDE DEF w
<1>4. CASE HearOfNew(c)
  <2> DEFINE a == [TakenFrom(w, c) EXCEPT !.client[c].waiting = FALSE, !.client[c].decided = TRUE]
             z == SwitchedTo(a, c, NewestOf(Head(w.down[c]).rows), "TakeOver")
  <2>1. Become(z) /\ Head(w.down[c]).type = "SessionList" /\ Head(w.down[c]).rows # <<>>
    BY <1>1, <1>2, <1>3, <1>4 DEF HearOfNew, Heard
  <2>2. Right(z)
    BY <1>3, <2>1, HearOfNewRight DEF w
  <2> HIDE DEF z
  <2> QED
    BY <2>1, <2>2, NowIs
<1>5. CASE StartInSession(c)
  <2>1. PICK s \in Obvious(c) :
            Become(SwitchedTo([TakenFrom(w, c) EXCEPT !.client[c].decided = TRUE], c, s, "TakeOver"))
    BY <1>2, <1>5 DEF StartInSession
  <2> DEFINE z == SwitchedTo([TakenFrom(w, c) EXCEPT !.client[c].decided = TRUE], c, s, "TakeOver")
  <2>2. s \in Ids(Head(w.down[c]).rows) /\ Head(w.down[c]).type = "SessionList"
    BY <1>1, <1>3, <1>5 DEF Obvious, StartInSession, Starting, Heard
  <2>3. Right(z)
    BY <1>3, <2>2, StartInRight DEF w
  <2>4. Become(z)
    BY <2>1
  <2> HIDE DEF z
  <2> QED
    BY <2>3, <2>4, NowIs
<1>6. CASE StartWithNew(c)
  <2> DEFINE z == NewSession([TakenFrom(w, c) EXCEPT !.client[c].waiting = TRUE], c, None)
  <2>1. Become(z) /\ Head(w.down[c]).type = "SessionList"
    BY <1>1, <1>2, <1>6 DEF StartWithNew, Starting, Heard
  <2>2. Right(z)
    BY <1>3, <2>1, StartWithNewRight DEF w
  <2> HIDE DEF z
  <2> QED
    BY <2>1, <2>2, NowIs
<1>7. CASE StartChoosing(c)
  <2> DEFINE z == Picking([TakenFrom(w, c) EXCEPT !.client[c].decided = TRUE], c, Head(w.down[c]).rows)
  <2>1. Become(z) /\ Head(w.down[c]).type = "SessionList"
    BY <1>1, <1>2, <1>3, <1>7 DEF StartChoosing, Starting, Heard
  <2>2. Right(z)
    BY <1>3, <2>1, StartChoosingRight DEF w
  <2> HIDE DEF z
  <2> QED
    BY <2>1, <2>2, NowIs
<1>8. CASE Listed(c)
  <2> DEFINE t == TakenFrom(w, c)
             z == IF client[c].wants THEN Picking(t, c, Head(w.down[c]).rows) ELSE t
  <2>1. Become(z) /\ Head(w.down[c]).type = "SessionList"
    BY <1>1, <1>2, <1>3, <1>8 DEF Listed, Heard
  <2>2. Right(t) /\ Head(w.down[c]).rows \in Seq(Row)
    BY <1>3, <2>1, PlainTaken, HeadIs DEF w
  <2> HIDE DEF t
  <2>3. Right(z)
    BY <2>2, PickingRight
  <2> HIDE DEF z
  <2> QED
    BY <2>1, <2>3, NowIs
<1>9. CASE HearError(c)
  <2>1. Become(TakenFrom(w, c)) /\ Head(w.down[c]).type = "Error"
    BY <1>1, <1>2, <1>9 DEF HearError, Heard
  <2>2. Right(TakenFrom(w, c))
    BY <1>3, <2>1, PlainTaken DEF w
  <2> QED
    BY <2>1, <2>2, NowIs
<1>10. CASE HearAttached(c)
  <2> DEFINE m == Head(w.down[c])
             y == w.client[c]
             x == [Opened(y, m.terms \ y.announced) EXCEPT
                          !.attached = TRUE, !.session = m.id, !.windows = @ \intersect m.terms,
                          !.mirrors = m.terms, !.announced = m.terms]
             z == Told([TakenFrom(w, c) EXCEPT !.client[c] = x], c, m.id)
  <2>1. m.type = "Attached"
    BY <1>1, <1>10 DEF HearAttached, Heard
  <2>2. Right(z)
    BY <1>3, <2>1, AttachedRight DEF w
  <2>3. Become(z)
    <3> DEFINE S(v) == [Opened(v, m.terms \ v.announced) EXCEPT
                          !.attached = TRUE, !.session = m.id, !.windows = @ \intersect m.terms,
                          !.mirrors = m.terms, !.announced = m.terms]
    <3>1. TakenFrom(w, c).client[c] = y
      BY <1>3, TakenIs DEF w
    <3>2. Become(Told([TakenFrom(w, c) EXCEPT !.client[c] = S(TakenFrom(w, c).client[c])], c, m.id))
      BY <1>1, <1>2, <1>10 DEF HearAttached
    <3>3. x = S(y)
      OBVIOUS
    <3> HIDE DEF S, x
    <3> QED
      BY <3>1, <3>2, <3>3
  <2> HIDE DEF z
  <2> QED
    BY <2>2, <2>3, NowIs
<1>11. CASE HearDetached(c)
  <2> DEFINE y == w.client[c]
             x == [Forgotten(y) EXCEPT !.attached = FALSE, !.here = None, !.wants = TRUE]
             a == [TakenFrom(w, c) EXCEPT !.client[c] = x]
             z == ListSessions(a, c)
  <2>1. Head(w.down[c]).type = "Detached"
    BY <1>1, <1>11 DEF HearDetached, Heard
  <2>2. Right(a)
    BY <1>3, <2>1, DetachedRight DEF w
  <2>3. Become(z)
    <3>1. TakenFrom(w, c).client[c] = y
      BY <1>3, TakenIs DEF w
    <3> QED
      BY <1>2, <1>11, <3>1 DEF HearDetached
  <2> HIDE DEF a
  <2>4. Right(z)
    BY <2>2, ListRight
  <2> HIDE DEF z
  <2> QED
    BY <2>3, <2>4, NowIs
<1>12. CASE HearOpened(c)
  <2> DEFINE z == [TakenFrom(w, c) EXCEPT
                     !.client[c] = Opened(w.client[c], Head(w.down[c]).terms \ w.client[c].mirrors)]
  <2>1. Head(w.down[c]).type = "TermOpened"
    BY <1>1, <1>12 DEF HearOpened, Heard
  <2>2. Right(z)
    BY <1>3, <2>1, OpenedRight DEF w
  <2>3. Become(z)
    <3>1. TakenFrom(w, c).client[c] = w.client[c]
      BY <1>3, TakenIs DEF w
    <3> QED
      BY <1>1, <1>2, <1>12, <3>1 DEF HearOpened
  <2> HIDE DEF z
  <2> QED
    BY <2>2, <2>3, NowIs
<1>13. CASE HearClosed(c)
  <2> DEFINE z == [TakenFrom(w, c) EXCEPT !.client[c] = Without(w.client[c], Head(w.down[c]).terms)]
  <2>1. Head(w.down[c]).type = "TermClosed"
    BY <1>1, <1>13 DEF HearClosed, Heard
  <2>2. Right(z)
    BY <1>3, <2>1, ClosedRight DEF w
  <2>3. Become(z)
    <3>1. TakenFrom(w, c).client[c] = w.client[c]
      BY <1>3, TakenIs DEF w
    <3> QED
      BY <1>1, <1>2, <1>13, <3>1 DEF HearClosed
  <2> HIDE DEF z
  <2> QED
    BY <2>2, <2>3, NowIs
<1> QED
  BY <1>4, <1>5, <1>6, <1>7, <1>8, <1>9, <1>10, <1>11, <1>12, <1>13 DEF Receive

LEMMA StepLoop ==
    ASSUME Right(Now), NEW c \in Clients, OpenFirst(c) \/ HearEnd(c) \/ Reconnect(c)
    PROVE  Right(Now)'
<1> DEFINE w == Now
<1>1. w.server = server /\ w.client = client /\ w.conn = conn /\ w.down = down
  BY DEF Now
<1>2. Right(w)
  OBVIOUS
<1> HIDE DEF w
<1>3. CASE OpenFirst(c)
  <2> DEFINE a == [w EXCEPT !.client[c].asked = TRUE]
             z == IF client[c].mirrors = {} THEN NewTerminal(a, c) ELSE a
  <2>1. Become(z)
    BY <1>3 DEF OpenFirst, w
  <2>2. Right(a)
    BY <1>2, AskedRight
  <2> HIDE DEF a
  <2>3. Right(z)
    BY <2>2, NewTerminalRight
  <2> HIDE DEF z
  <2> QED
    BY <2>1, <2>3, NowIs
<1>4. CASE HearEnd(c)
  <2> DEFINE z == [w EXCEPT !.conn[c] = "none", !.client[c] = Lost(@)]
  <2>1. Become(z) /\ w.conn[c] = "cut"
    BY <1>1, <1>4 DEF HearEnd, w
  <2>2. Right(z)
    BY <1>2, <2>1, EndRight
  <2> HIDE DEF z
  <2> QED
    BY <2>1, <2>2, NowIs
<1>5. CASE Reconnect(c)
  <2> DEFINE a == Connected(w, c)
             z == ListSessions(a, c)
  <2>1. Become(z)
    BY <1>5 DEF Reconnect, w
  <2>2. Right(a)
    BY <1>2, ConnectedRight
  <2> HIDE DEF a
  <2>3. Right(z)
    BY <2>2, ListRight
  <2> HIDE DEF z
  <2> QED
    BY <2>1, <2>3, NowIs
<1> QED
  BY <1>3, <1>4, <1>5

LEMMA StepPick ==
    ASSUME Right(Now), NEW c \in Clients, NEW i \in DOMAIN client[c].choice, NEW mode \in Modes,
           PickSession(c, i, mode)
    PROVE  Right(Now)'
<1> DEFINE w == Now
           a == AnsweredFrom(w, c)
           z == SwitchedTo(a, c, w.client[c].choice[i], mode)
<1>1. w.server = server /\ w.client = client /\ w.conn = conn /\ w.down = down
  BY DEF Now
<1>2. Right(w) /\ i \in DOMAIN w.client[c].choice /\ w.client[c].pickers # <<>>
  BY <1>1 DEF PickSession
<1>3. Become(z)
  BY DEF PickSession, Answered, AnsweredFrom, Now
<1> HIDE DEF w
<1>4. w.client[c].choice[i] \in Nat
  <2>1. w.client[c].choice \in Seq(Nat)
    BY <1>2, HeldIs DEF Client
  <2> QED
    BY <1>2, <2>1, ElementOfSeq, LenProperties
<1>5. Right(a)
  BY <1>2, AnsweredRight
<1> HIDE DEF a
<1>6. Right(z)
  BY <1>4, <1>5, SwitchedRight
<1> HIDE DEF z
<1> QED
  BY <1>3, <1>6, NowIs

LEMMA StepRead ==
    ASSUME Right(Now), NEW c \in Clients, Read(c)
    PROVE  Right(Now)'
<1> DEFINE w == Now
<1>1. w.server = server /\ w.client = client /\ w.conn = conn /\ w.down = down
  BY DEF Now
<1>2. Right(w)
  OBVIOUS
<1> HIDE DEF w
<1>3. CASE Start(c)
  <2>1. PICK s \in DOMAIN w.server.sessions \union {None} :
            Become(ListSessions(Connected([w EXCEPT !.client[c].running = TRUE,
                                                    !.client[c].named = s], c), c))
    BY <1>1, <1>3 DEF Start, w
  <2> DEFINE a == [w EXCEPT !.client[c].running = TRUE, !.client[c].named = s]
             b == Connected(a, c)
             z == ListSessions(b, c)
  <2>2. Become(z)
    BY <2>1
  <2>3. Right(a)
    BY <1>2, <2>1, StartedRight
  <2> HIDE DEF a
  <2>4. Right(b)
    BY <2>3, ConnectedRight
  <2> HIDE DEF b
  <2>5. Right(z)
    BY <2>4, ListRight
  <2> HIDE DEF z
  <2> QED
    BY <2>2, <2>5, NowIs
<1>4. CASE ShowSessions(c)
  <2> DEFINE a == [w EXCEPT !.client[c].wants = TRUE]
             b == Connected(a, c)
             z == ListSessions(b, c)
  <2>1. Become(z)
    BY <1>4 DEF ShowSessions, w
  <2>2. Right(a)
    BY <1>2, AskedRight
  <2> HIDE DEF a
  <2>3. Right(b)
    BY <2>2, ConnectedRight
  <2> HIDE DEF b
  <2>4. Right(z)
    BY <2>3, ListRight
  <2> HIDE DEF z
  <2> QED
    BY <2>1, <2>4, NowIs
<1>5. CASE ShowSessionsInVain(c)
  <2> DEFINE z == [w EXCEPT !.client[c].wants = TRUE]
  <2>1. Become(z)
    BY <1>5 DEF ShowSessionsInVain, w
  <2>2. Right(z)
    BY <1>2, AskedRight
  <2> HIDE DEF z
  <2> QED
    BY <2>1, <2>2, NowIs
<1>6. CASE CreateSession(c)
  <2> DEFINE b == Connected(w, c)
             a == [b EXCEPT !.client[c].waiting = TRUE]
             z == NewSession(a, c, Typed)
  <2>1. Become(z)
    BY <1>6 DEF CreateSession, w
  <2>2. Right(b)
    BY <1>2, ConnectedRight
  <2> HIDE DEF b
  <2>3. Right(a)
    BY <2>2, AskedRight
  <2> HIDE DEF a
  <2>4. Right(z)
    BY <2>3, NewSessionRight
  <2> HIDE DEF z
  <2> QED
    BY <2>1, <2>4, NowIs
<1>7. CASE OpenTerminal(c)
  <2> DEFINE z == NewTerminal(w, c)
  <2>1. Become(z)
    BY <1>7 DEF OpenTerminal, w
  <2>2. Right(z)
    BY <1>2, NewTerminalRight
  <2> HIDE DEF z
  <2> QED
    BY <2>1, <2>2, NowIs
<1>8. CASE Dismiss(c)
  <2> DEFINE z == AnsweredFrom(w, c)
  <2>1. Become(z) /\ w.client[c].pickers # <<>>
    BY <1>8 DEF Dismiss, Answered, AnsweredFrom, w, Now
  <2>2. Right(z)
    BY <1>2, <2>1, AnsweredRight
  <2> HIDE DEF z
  <2> QED
    BY <2>1, <2>2, NowIs
<1>9. CASE \E i \in DOMAIN client[c].choice, mode \in Modes : PickSession(c, i, mode)
  BY <1>9, StepPick
<1> QED
  BY <1>3, <1>4, <1>5, <1>6, <1>7, <1>8, <1>9 DEF Read

LEMMA StepRefresh ==
    ASSUME Right(Now), NEW c \in Clients, Refresh(c)
    PROVE  Right(Now)'
<1> DEFINE w == Now
           z == Send(w, {c}, Snapshot(w, w.server.reads[c]))
<1>1. Right(w) /\ w.server.reads[c] # None /\ Become(z)
  BY DEF Refresh, Now
<1> HIDE DEF w
<1>2. Right(z)
  BY <1>1, RefreshRight
<1> HIDE DEF z
<1> QED
  BY <1>1, <1>2, NowIs

LEMMA StepTerminalEnds ==
    ASSUME Right(Now), NEW s \in DOMAIN server.sessions, NEW t \in server.sessions[s].terms,
           TerminalEnds(s, t)
    PROVE  Right(Now)'
<1> DEFINE w == Now
           a == [w EXCEPT !.server.sessions[s].terms = @ \ {t}]
           z == Broadcast(Send(a, ReadersIn(w, s), Answer("TermClosed", t, {t}, <<>>)))
<1>1. Right(w) /\ s \in DOMAIN w.server.sessions /\ t \in w.server.sessions[s].terms
  BY DEF Now
<1>2. Become(z)
  BY DEF TerminalEnds
<1> HIDE DEF w
<1>3. Right(z)
  BY <1>1, TerminalEndsRight
<1> HIDE DEF z
<1> QED
  BY <1>2, <1>3, NowIs

LEMMA StepSessionEnds ==
    ASSUME Right(Now), NEW s \in DOMAIN server.sessions, SessionEnds(s)
    PROVE  Right(Now)'
<1> DEFINE w == Now
           a == Emptied(w, s)
           b == Broadcast(a)
           e == [b EXCEPT !.server.up = FALSE,
                          !.conn = [c \in Clients |-> IF @[c] = "up" THEN "cut" ELSE @[c]]]
           z == IF DOMAIN w.server.sessions \ {s} = {} THEN e ELSE b
<1>1. Right(w) /\ s \in DOMAIN w.server.sessions /\ w.server = server
  BY DEF Now
<1>2. DOMAIN [x \in DOMAIN server.sessions \ {s} |-> server.sessions[x]] = DOMAIN w.server.sessions \ {s}
  BY <1>1
<1> DEFINE left == [x \in DOMAIN server.sessions \ {s} |-> server.sessions[x]]
<1>3. Become(z)
  <2> DEFINE d == Send(Now, ReadersIn(Now, s), Gone)
             o == [d EXCEPT !.server.sessions = left,
                            !.server.reads = [c \in Clients |-> IF @[c] = s THEN None ELSE @[c]]]
             p == Broadcast(o)
             q == [p EXCEPT !.server.up = FALSE,
                            !.conn = [c \in Clients |-> IF @[c] = "up" THEN "cut" ELSE @[c]]]
  <2>2. Become(IF DOMAIN left = {} THEN q ELSE p)
    BY DEF SessionEnds
  <2>3. o = a
    <3>1. left = [x \in DOMAIN w.server.sessions \ {s} |-> w.server.sessions[x]]
      BY <1>1
    <3> HIDE DEF left, w
    <3> QED
      BY <3>1 DEF Emptied, w
  <2> HIDE DEF o, a, left
  <2>1. Become(IF DOMAIN left = {} THEN e ELSE b)
    BY <2>2, <2>3
  <2> HIDE DEF e, b
  <2> QED
    BY <1>2, <2>1 DEF left
<1> HIDE DEF left
<1> HIDE DEF w
<1>4. Right(a) /\ DOMAIN a.server.sessions = DOMAIN w.server.sessions \ {s}
  BY <1>1, EmptiedRight
<1> HIDE DEF a
<1>5. Right(b) /\ b.server.sessions = a.server.sessions
  BY <1>4, BroadcastRight, BroadcastIs
<1> HIDE DEF b
<1>6. DOMAIN w.server.sessions \ {s} = {} => Right(e)
  BY <1>4, <1>5, ServerEndsRight
<1> HIDE DEF e
<1>7. Right(z)
  BY <1>5, <1>6
<1> HIDE DEF z
<1> QED
  BY <1>3, <1>7, NowIs

LEMMA StepFlush ==
    ASSUME Right(Now), FlushReaderCounts
    PROVE  Right(Now)'
<1> DEFINE z == Broadcast(Now)
<1>1. Become(z) /\ Right(z)
  BY BroadcastRight DEF FlushReaderCounts
<1> HIDE DEF z
<1> QED
  BY <1>1, NowIs

LEMMA InitIInv == Init => IInv
<1> SUFFICES ASSUME Init PROVE IInv
  OBVIOUS
<1> DEFINE x == [running |-> FALSE, decided |-> FALSE, named |-> None, waiting |-> FALSE,
                 wants |-> FALSE, asked |-> FALSE, pickers |-> <<>>, choice |-> <<>>,
                 offered |-> FALSE, session |-> None, here |-> None, attached |-> FALSE,
                 mode |-> "TakeOver", mirrors |-> {}, announced |-> {}, windows |-> {}]
           v == [FreshServer EXCEPT !.up = FALSE]
<1>1. v \in Server /\ DOMAIN v.sessions = {} /\ \A c \in Clients : v.reads[c] = None
  BY FreshIs DEF Server
<1>2. x \in Client /\ Together(x)
  <2>1. <<>> \in Seq(Picker) /\ <<>> \in Seq(Nat)
    OBVIOUS
  <2> QED
    BY <2>1 DEF Client, Together, Modes, None
<1>3. /\ server = v /\ client = [c \in Clients |-> x] /\ conn = [c \in Clients |-> "none"]
      /\ down = [c \in Clients |-> <<>>] /\ acts = 0
  BY DEF Init
<1> HIDE DEF x, v
<1>4. Now \in World
  <2>1. <<>> \in Seq(Message)
    OBVIOUS
  <2> QED
    BY <1>1, <1>2, <1>3, <2>1 DEF World, Now
<1>5. Sound(Now)
  BY <1>1, <1>2, <1>3, <1>4 DEF Sound, Linked, Now
<1>6. \A c \in Clients : Foreseen(Now, c)
  BY <1>3 DEF Foreseen, Now
<1>7. acts \in 0..MaxActs
  BY <1>3, BoundAssumption
<1> QED
  BY <1>5, <1>6, <1>7 DEF IInv, Right

LEMMA NextIInv == IInv /\ [Next]_vars => IInv'
<1> SUFFICES ASSUME IInv, [Next]_vars PROVE IInv'
  OBVIOUS
<1>1. Right(Now) /\ acts \in 0..MaxActs
  BY DEF IInv
<1>2. CASE Next
  <2>1. Right(Now)'
    BY <1>1, <1>2, StepReceive, StepLoop, StepRead, StepRefresh, StepTerminalEnds, StepSessionEnds, StepFlush
       DEF Next
  <2>2. acts' = acts \/ Act
    BY <1>2 DEF Next, Receive, HearOfNew, StartInSession, StartWithNew, StartChoosing, Listed, HearAttached,
       HearDetached, HearOpened, HearClosed, HearError, OpenFirst, HearEnd, Reconnect, Read, Start,
       ShowSessions, ShowSessionsInVain, CreateSession, OpenTerminal, Dismiss, PickSession, Refresh,
       TerminalEnds, SessionEnds, FlushReaderCounts
  <2>3. acts' \in 0..MaxActs
    BY <1>1, <2>2, BoundAssumption DEF Act
  <2> QED
    BY <2>1, <2>3 DEF IInv
<1>3. CASE UNCHANGED vars
  <2>1. Now' = Now /\ acts' = acts
    BY <1>3 DEF vars, Now
  <2> QED
    BY <1>1, <2>1 DEF IInv
<1> QED
  BY <1>2, <1>3

LEMMA Invariance == Spec => []IInv
  BY InitIInv, NextIInv, PTL DEF Spec

LEMMA TypedBy == IInv => TypeOK
<1> SUFFICES ASSUME IInv PROVE TypeOK
  OBVIOUS
<1> DEFINE w == Now
<1>1. w.server = server /\ w.client = client /\ w.conn = conn
  BY DEF Now
<1>2. Sound(w) /\ w \in World /\ acts \in 0..MaxActs
  BY DEF IInv, Right, Sound
<1> HIDE DEF w
<1>3. /\ server.up \in BOOLEAN /\ server.dirty \in BOOLEAN
      /\ server.links \in Seq(Clients) /\ server.made \in Nat /\ server.opened \in Nat
      /\ client \in [Clients -> Client] /\ conn \in [Clients -> {"none", "up", "cut"}]
      /\ server.reads \in [Clients -> Nat]
  BY <1>1, <1>2, WorldIs
<1>4. DOMAIN server.sessions \subseteq 1..server.made
  BY <1>1, <1>2 DEF Sound
<1>5. \A s \in DOMAIN server.sessions : server.sessions[s] \in Session
  BY <1>1, <1>2, TermsIs
<1>6. server.reads \in [Clients -> DOMAIN server.sessions \union {None}]
  BY <1>1, <1>2, <1>3 DEF Sound, Linked
<1>7. \A c \in Clients : client[c].windows \subseteq client[c].mirrors
  BY <1>1, <1>2 DEF Sound, Together
<1> QED
  BY <1>2, <1>3, <1>4, <1>5, <1>6, <1>7 DEF TypeOK

LEMMA ShownBy == IInv => ShowsItsSession
<1> SUFFICES ASSUME IInv, NEW c \in Clients, Settled(c)
             PROVE  /\ client[c].attached <=> server.reads[c] # None
                    /\ client[c].attached /\ client[c].session = server.reads[c] =>
                          client[c].windows = server.sessions[server.reads[c]].terms
  BY DEF ShowsItsSession
<1> DEFINE s == server.reads[c]
           v == Viewed(client[c])
<1>1. Leads(<<>>, v, s, Terms(server, s))
  BY DEF IInv, Right, Foreseen, Settled, Now
<1>2. v \in Shows(s, Terms(server, s))
  BY <1>1, LeadsEnd
<1>3. v.attached = client[c].attached /\ v.session = client[c].session /\ v.windows = client[c].windows
  BY DEF Viewed
<1>4. s # None => Terms(server, s) = server.sessions[s].terms
  BY DEF Terms
<1> HIDE DEF v, s
<1>5. /\ v.attached <=> s # None
      /\ v.attached /\ v.session = s => v.windows = Terms(server, s)
  BY <1>2 DEF Shows
<1> QED
  BY <1>3, <1>4, <1>5 DEF s

(***************************************************************************)
(* The theorems.                                                           *)
(***************************************************************************)

\* Every state is well typed; every session that is read is one there is; and no
\* window outlives the mirror its view borrows, whatever a client hears in
\* whatever order (stop_showing_this_server, forget_terminals, on_terminal_closed).
THEOREM ClientTypes == Spec => []TypeOK
<1>1. Spec => []IInv
  BY Invariance
<1>2. IInv => TypeOK
  BY TypedBy
<1> QED
  BY <1>1, <1>2, PTL

\* A client that has read everything sent to it is attached just when the server
\* has it reading a session; and where the two agree on which -- they disagree after
\* a refused switch -- it shows a window for each terminal of that session and no
\* other, with answers and news of several sessions in any mixture before
\* (on_attached, on_detached, switch_to).
THEOREM ShownIsRead == Spec => []ShowsItsSession
<1>1. Spec => []IInv
  BY Invariance
<1>2. IInv => ShowsItsSession
  BY ShownBy
<1> QED
  BY <1>1, <1>2, PTL
=============================================================================
