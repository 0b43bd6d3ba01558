------------------------- MODULE PrinterSpoolProofs -------------------------
(***************************************************************************)
(* Safety of PrinterSpool for every number of connections, terminals,      *)
(* documents and pieces: what the lists show and what a save writes.       *)
(*                                                                         *)
(* Two things carry the argument.  Every job a spool ever numbered is in a *)
(* catalogue of its terminal, and every row and text anywhere is of that   *)
(* catalogue.  And what is queued for a client leads its view, one message *)
(* after another and each a good one, to a view that shows what is held.   *)
(***************************************************************************)
EXTENDS PrinterSpool, TLAPS, SequenceTheorems, FiniteSetTheorems, WellFoundedInduction

Message ==
    [type : {"PrintJobAdded"}, term : Terminals, row : HeldJob]
    \cup [type : {"PrintState"}, term : Terminals, jobs : 0..MaxDocs]
    \cup [type : {"PrintJobData"}, term : Terminals, job : 1..MaxDocs, bytes : Texts, final : BOOLEAN]
    \cup [type : {"TermOpened", "TermClosed"}, term : Terminals]
    \cup [type : {"Detached"}]
    \cup [type : {"Attached"}, spools : UNION {[L -> Seq(HeldJob)] : L \in SUBSET Terminals}]

\* Of all a client holds, what messages change.
View == [known : SUBSET Terminals, mirror : [Terminals -> Mirror]]
Now(c) == [known |-> app[c].known, mirror |-> mirror[c]]

\* A view after one more message.
Seen(v, m) ==
    CASE m.type = "Attached" ->
            [known |-> DOMAIN m.spools,
             mirror |-> [t \in Terminals |->
                 IF t \in DOMAIN m.spools THEN Adopted(m.spools[t]) ELSE BlankMirror]]
      [] m.type = "Detached" -> v
      [] m.type = "TermClosed" ->
            [known |-> v.known \ {m.term}, mirror |-> [v.mirror EXCEPT ![m.term] = BlankMirror]]
      [] OTHER ->
            IF m.term \in v.known
              THEN [known |-> v.known, mirror |-> [v.mirror EXCEPT ![m.term] = Told(@, m)]] ELSE v

(***************************************************************************)
(* The catalogue: F[t] is every job terminal t's spool has numbered.       *)
(***************************************************************************)
Catalogues == [Terminals -> Seq(HeldJob)]
InList(rows, r) == r.job \in DOMAIN rows /\ r = rows[r.job]
RowsOf(rows, q) == \A i \in DOMAIN q : InList(rows, q[i])
Distinct(q) == \A i, j \in DOMAIN q : q[i].job = q[j].job => i = j
GoodMirror(rows, x) ==
    /\ RowsOf(rows, x.jobs) /\ Distinct(x.jobs)
    /\ \A j \in DOMAIN x.fetched : j \in DOMAIN rows /\ x.fetched[j] = Text(rows[j])
Good(F) == {v \in View : \A t \in Terminals : GoodMirror(F[t], v.mirror[t])}

\* Messages q take a client from view v to view z, and every view is good.
Path(F, v, q, z, f) ==
    /\ f \in [0..Len(q) -> Good(F)]
    /\ f[0] = v /\ f[Len(q)] = z
    /\ \A n \in 1..Len(q) : f[n] = Seen(f[n - 1], q[n])
Leads(F, v, q, z) == \E f : Path(F, v, q, z, f)

\* Nothing of a text is on its way any more.
Quiet(z) == \A t \in Terminals : DOMAIN z.mirror[t].fetching = {}
\* The list shows what is held, and the count is of it when no news is due.
Shows(z, t) ==
    /\ t \in z.known /\ Range(term[t].jobs) \subseteq Range(z.mirror[t].jobs)
    /\ ~HasNews(t) => z.mirror[t].count \in {0, Len(term[t].jobs)}
Foreseen(F, c) ==
    \E z \in Good(F) :
        /\ Leads(F, Now(c), down[c], z) /\ Quiet(z)
        /\ reader[c].attached /\ reader[c].told => \A t \in Live : Shows(z, t)

Typed ==
    /\ term \in [Terminals -> Terminal] /\ reader \in [Clients -> Reader] /\ printed \in 0..MaxDocs
    /\ app \in [Clients -> App] /\ mirror \in [Clients -> [Terminals -> Mirror]]
    /\ down \in [Clients -> Seq(Message)]
    /\ \A t \in Terminals : term[t].next + Len(term[t].ready) <= printed + 1
    /\ \A t \in Terminals : \A i, j \in DOMAIN term[t].jobs :
          i < j => term[t].jobs[i].job < term[t].jobs[j].job
ToldIsFirst == \A c \in Clients : reader[c].attached /\ reader[c].told => c \in FirstReader(reader)

Numbered(F) ==
    \A t \in Terminals : /\ Len(F[t]) = term[t].next - 1
                         /\ \A j \in DOMAIN F[t] : F[t][j].job = j
SpoolsListed(F) == \A t \in Terminals : RowsOf(F[t], term[t].jobs)
ChoicesListed(F) ==
    \A c \in Clients :
        /\ app[c].dialog.term = 0 => app[c].dialog.listed = <<>>
        /\ app[c].dialog.term # 0 => RowsOf(F[app[c].dialog.term], app[c].dialog.listed)
        /\ app[c].pending.term # 0 => InList(F[app[c].pending.term], app[c].pending.row)
Agreed(F) ==
    /\ F \in Catalogues /\ Numbered(F) /\ SpoolsListed(F) /\ ChoicesListed(F)
    /\ \A c \in Clients : Foreseen(F, c)

Base == Typed /\ ToldIsFirst /\ SavedIsTheDocument
IInv == Base /\ \E F : Agreed(F)

(***************************************************************************)
(* Numbers: the least of a set, and induction over a set of numbers.       *)
(***************************************************************************)
LEMMA Least ==
    ASSUME NEW T \in SUBSET Nat, T # {}
    PROVE  \E n \in T : \A m \in T : n <= m
<1> DEFINE R == OpToRel(<, Nat)
<1>1. \A x, y \in Nat : y < x => <<y, x>> \in R
  BY DEF OpToRel
<1>2. \E x \in T : \A y \in T : <<y, x>> \notin R
  BY NatLessThanWellFounded, WFMin
<1> HIDE DEF R
<1>3. PICK x \in T : \A y \in T : <<y, x>> \notin R
  BY <1>2
<1>4. ASSUME NEW y \in T, y < x PROVE FALSE
  BY <1>1, <1>3, <1>4
<1>5. \A y \in T : x <= y
  BY <1>4
<1> QED
  BY <1>5

LEMMA Induction ==
    ASSUME NEW T \in SUBSET Nat, 0 \in T, \A n \in T : n + 1 \in T
    PROVE  T = Nat
<1> SUFFICES ASSUME Nat \ T # {} PROVE FALSE
  OBVIOUS
<1>1. PICK n \in Nat \ T : \A m \in Nat \ T : n <= m
  BY Least
<1>2. n - 1 \in Nat
  BY <1>1
<1> QED
  BY <1>1, <1>2

(***************************************************************************)
(* Paths of views.                                                         *)
(***************************************************************************)
LEMMA LeadsNone == ASSUME NEW F, NEW v \in Good(F) PROVE Leads(F, v, <<>>, v)
<1> DEFINE f == [n \in 0..0 |-> v]
<1>1. Len(<<>>) = 0 /\ f \in [0..0 -> Good(F)] /\ f[0] = v
  OBVIOUS
<1> HIDE DEF f
<1>2. Path(F, v, <<>>, v, f)
  BY <1>1 DEF Path
<1> QED
  BY <1>2 DEF Leads

LEMMA LeadsOne ==
    ASSUME NEW F, NEW v \in Good(F), NEW m, Seen(v, m) \in Good(F)
    PROVE  Leads(F, v, <<m>>, Seen(v, m))
<1> DEFINE z == Seen(v, m)
           q == <<m>>
           f == [n \in 0..1 |-> IF n = 0 THEN v ELSE z]
<1>1. Len(q) = 1 /\ q[1] = m
  OBVIOUS
<1>2. z \in Good(F) /\ z = Seen(v, q[1])
  BY <1>1
<1> HIDE DEF z, q
<1>3. f \in [0..1 -> Good(F)] /\ f[0] = v /\ f[1] = z
  BY <1>2
<1> HIDE DEF f
<1>4. \A n \in 1..1 : n = 1 /\ n - 1 = 0
  OBVIOUS
<1>5. Path(F, v, q, z, f)
  BY <1>1, <1>2, <1>3, <1>4 DEF Path
<1>6. Leads(F, v, q, z)
  BY <1>5 DEF Leads
<1> QED
  BY <1>6 DEF q, z

LEMMA LeadsConcat ==
    ASSUME NEW F, NEW p \in Seq(Message), NEW q \in Seq(Message), NEW v, NEW w, NEW z,
           Leads(F, v, p, w), Leads(F, w, q, z)
    PROVE  Leads(F, v, p \o q, z)
<1>1. PICK f : Path(F, v, p, w, f)
  BY DEF Leads
<1>2. PICK g : Path(F, w, q, z, g)
  BY DEF Leads
<1> DEFINE n == Len(p)
           m == Len(q)
           r == p \o q
           h == [i \in 0..(n + m) |-> IF i <= n THEN f[i] ELSE g[i - n]]
<1>3. /\ n \in Nat /\ m \in Nat /\ Len(r) = n + m
      /\ \A i \in 1..n : r[i] = p[i]
      /\ \A i \in (n + 1)..(n + m) : r[i] = q[i - n]
  BY LenProperties, ConcatProperties
<1>4. /\ f \in [0..n -> Good(F)] /\ f[0] = v /\ f[n] = w
      /\ \A i \in 1..n : f[i] = Seen(f[i - 1], p[i])
      /\ g \in [0..m -> Good(F)] /\ g[0] = w /\ g[m] = z
      /\ \A i \in 1..m : g[i] = Seen(g[i - 1], q[i])
  BY <1>1, <1>2 DEF Path
<1> HIDE DEF n, m, r
<1>5. \A i \in 0..(n + m) : h[i] = IF i <= n THEN f[i] ELSE g[i - n]
  OBVIOUS
<1>6. h \in [0..(n + m) -> Good(F)]
  <2>1. \A i \in 0..(n + m) : (i <= n => i \in 0..n) /\ (~(i <= n) => i - n \in 0..m)
    BY <1>3
  <2>2. \A i \in 0..(n + m) : (IF i <= n THEN f[i] ELSE g[i - n]) \in Good(F)
    BY <1>4, <2>1
  <2> QED
    BY <2>2
<1> HIDE DEF h
<1>7. h[0] = v /\ h[n + m] = z
  <2>1. h[0] = v
    BY <1>3, <1>4, <1>5
  <2>2. CASE m = 0
    BY <1>3, <1>4, <1>5, <2>2
  <2>3. CASE m # 0
    <3>1. n + m \in 0..(n + m) /\ ~(n + m <= n) /\ (n + m) - n = m
      BY <1>3, <2>3
    <3>2. h[n + m] = g[(n + m) - n]
      BY <1>5, <3>1
    <3> QED
      BY <1>4, <2>1, <3>1, <3>2
  <2> QED
    BY <2>1, <2>2, <2>3
<1>8. ASSUME NEW i \in 1..(n + m) PROVE h[i] = Seen(h[i - 1], r[i])
  <2>1. CASE i <= n
    <3>1. i \in 1..n /\ i \in 0..(n + m) /\ i - 1 \in 0..(n + m) /\ i - 1 <= n
      BY <1>3, <2>1
    <3> QED
      BY <1>3, <1>4, <1>5, <2>1, <3>1
  <2>2. CASE i = n + 1
    <3>1. /\ 1 \in 1..m /\ i \in 0..(n + m) /\ n \in 0..(n + m) /\ ~(i <= n) /\ i - n = 1
          /\ i - 1 = n /\ i \in (n + 1)..(n + m) /\ n <= n /\ 1 - 1 = 0
      BY <1>3, <2>2
    <3>2. h[i] = g[i - n] /\ h[n] = f[n] /\ r[i] = q[i - n]
      BY <1>3, <1>5, <3>1
    <3>3. g[1] = Seen(g[1 - 1], q[1])
      BY <1>4, <3>1
    <3> QED
      BY <1>4, <3>1, <3>2, <3>3
  <2>3. CASE i > n + 1
    <3>1. /\ i - n \in 1..m /\ i \in 0..(n + m) /\ i - 1 \in 0..(n + m) /\ ~(i <= n)
          /\ ~(i - 1 <= n) /\ (i - n) - 1 = (i - 1) - n /\ i \in (n + 1)..(n + m)
      BY <1>3, <2>3
    <3>2. h[i] = g[i - n] /\ h[i - 1] = g[(i - 1) - n] /\ r[i] = q[i - n]
      BY <1>3, <1>5, <3>1
    <3>3. g[i - n] = Seen(g[(i - n) - 1], q[i - n])
      BY <1>4, <3>1
    <3> QED
      BY <3>1, <3>2, <3>3
  <2> QED
    BY <1>3, <2>1, <2>2, <2>3
<1>9. Path(F, v, r, z, h)
  BY <1>3, <1>6, <1>7, <1>8 DEF Path
<1>10. Leads(F, v, r, z)
  BY <1>9 DEF Leads
<1> QED
  BY <1>10 DEF r

LEMMA LeadsOn ==
    ASSUME NEW F, NEW q \in Seq(Message), NEW m \in Message, NEW v, NEW z,
           Leads(F, v, q, z), Seen(z, m) \in Good(F)
    PROVE  Leads(F, v, Append(q, m), Seen(z, m))
<1>1. z \in Good(F)
  <2>1. PICK f : Path(F, v, q, z, f)
    BY DEF Leads
  <2>2. Len(q) \in 0..Len(q)
    BY LenProperties
  <2> QED
    BY <2>1, <2>2 DEF Path
<1>2. Leads(F, z, <<m>>, Seen(z, m))
  BY <1>1, LeadsOne
<1>3. <<m>> \in Seq(Message)
  OBVIOUS
<1>4. Leads(F, v, q \o <<m>>, Seen(z, m))
  BY <1>2, <1>3, LeadsConcat
<1> QED
  BY <1>4, AppendIsConcat

\* A message received is the first step of the path.
LEMMA LeadsTail ==
    ASSUME NEW F, NEW q \in Seq(Message), q # <<>>, NEW v, NEW z, Leads(F, v, q, z)
    PROVE  Seen(v, Head(q)) \in Good(F) /\ Leads(F, Seen(v, Head(q)), Tail(q), z)
<1> DEFINE n == Len(q)
           r == Tail(q)
           m == Head(q)
<1>1. PICK f : Path(F, v, q, z, f)
  BY DEF Leads
<1>2. /\ n \in Nat /\ n # 0 /\ m = q[1] /\ Len(r) = n - 1
      /\ \A i \in 1..(n - 1) : r[i] = q[i + 1]
  <2>1. n \in Nat /\ n # 0
    BY LenProperties, EmptySeq
  <2>2. Len(r) = n - 1 /\ \A i \in 1..Len(r) : r[i] = q[i + 1]
    BY HeadTailProperties
  <2>3. m = q[1]
    OBVIOUS
  <2> HIDE DEF n, r, m
  <2> QED
    BY <2>1, <2>2, <2>3
<1>3. /\ f \in [0..n -> Good(F)] /\ f[0] = v /\ f[n] = z
      /\ \A i \in 1..n : f[i] = Seen(f[i - 1], q[i])
  BY <1>1 DEF Path
<1> HIDE DEF n, r, m
<1> DEFINE h == [i \in 0..(n - 1) |-> f[i + 1]]
<1>4. h \in [0..(n - 1) -> Good(F)] /\ \A i \in 0..(n - 1) : h[i] = f[i + 1]
  <2>1. \A i \in 0..(n - 1) : i + 1 \in 0..n
    BY <1>2
  <2> QED
    BY <1>3, <2>1
<1> HIDE DEF h
<1>5. h[0] = Seen(v, m) /\ h[n - 1] = z /\ Seen(v, m) \in Good(F)
  <2>1. 0 \in 0..(n - 1) /\ n - 1 \in 0..(n - 1) /\ 1 \in 1..n /\ 1 - 1 = 0 /\ 0 + 1 = 1 /\ (n - 1) + 1 = n
    BY <1>2
  <2>2. h[0] = f[0 + 1] /\ h[n - 1] = f[(n - 1) + 1] /\ f[1] = Seen(f[1 - 1], q[1])
    BY <1>3, <1>4, <2>1
  <2>3. h[0] \in Good(F)
    BY <1>4, <2>1
  <2> QED
    BY <1>2, <1>3, <2>1, <2>2, <2>3
<1>6. ASSUME NEW i \in 1..(n - 1) PROVE h[i] = Seen(h[i - 1], r[i])
  <2>1. /\ i \in 0..(n - 1) /\ i - 1 \in 0..(n - 1) /\ i + 1 \in 1..n
        /\ (i + 1) - 1 = i /\ (i - 1) + 1 = i
    BY <1>2
  <2>2. h[i] = f[i + 1] /\ h[i - 1] = f[(i - 1) + 1] /\ f[i + 1] = Seen(f[(i + 1) - 1], q[i + 1])
    BY <1>3, <1>4, <2>1
  <2> QED
    BY <1>2, <2>1, <2>2
<1>7. Path(F, Seen(v, m), r, z, h)
  BY <1>2, <1>4, <1>5, <1>6 DEF Path
<1>8. Leads(F, Seen(v, m), r, z)
  BY <1>7 DEF Leads
<1> QED
  BY <1>5, <1>8 DEF r, m

\* The catalogue only grows, and what was of it stays of it.
Grown(F, G) ==
    \A t \in Terminals : \A j \in DOMAIN F[t] : j \in DOMAIN G[t] /\ G[t][j] = F[t][j]

LEMMA GoodGrows == ASSUME NEW F, NEW G, Grown(F, G) PROVE Good(F) \subseteq Good(G)
<1> SUFFICES ASSUME NEW v \in Good(F), NEW t \in Terminals
             PROVE  GoodMirror(G[t], v.mirror[t])
  BY DEF Good
<1>1. GoodMirror(F[t], v.mirror[t])
  BY DEF Good
<1>2. RowsOf(G[t], v.mirror[t].jobs)
  BY <1>1 DEF GoodMirror, RowsOf, InList, Grown
<1>3. \A j \in DOMAIN v.mirror[t].fetched :
         j \in DOMAIN G[t] /\ v.mirror[t].fetched[j] = Text(G[t][j])
  BY <1>1 DEF GoodMirror, Grown
<1> QED
  BY <1>1, <1>2, <1>3 DEF GoodMirror

LEMMA LeadsGrows ==
    ASSUME NEW F, NEW G, Grown(F, G), NEW v, NEW q, NEW z, Leads(F, v, q, z)
    PROVE  Leads(G, v, q, z)
<1>1. PICK f : Path(F, v, q, z, f)
  BY DEF Leads
<1>2. Good(F) \subseteq Good(G)
  BY GoodGrows
<1>3. f \in [0..Len(q) -> Good(G)]
  BY <1>1, <1>2 DEF Path
<1> QED
  BY <1>1, <1>3 DEF Leads, Path

LEMMA LeadsEnd ==
    ASSUME NEW F, NEW q \in Seq(Message), NEW v, NEW z, Leads(F, v, q, z)
    PROVE  v \in Good(F) /\ z \in Good(F) /\ (q = <<>> => z = v)
<1>1. PICK f : Path(F, v, q, z, f)
  BY DEF Leads
<1>2. Len(q) \in Nat /\ 0 \in 0..Len(q) /\ Len(q) \in 0..Len(q) /\ (q = <<>> => Len(q) = 0)
  BY LenProperties
<1> QED
  BY <1>1, <1>2 DEF Path

(***************************************************************************)
(* What a mirror does with what it is told.                                *)
(***************************************************************************)
LEMMA KeptIs ==
    ASSUME NEW f
    PROVE  f \in Kept <=> /\ f = [j \in DOMAIN f |-> f[j]] /\ DOMAIN f \subseteq 1..MaxDocs
                         /\ \A j \in DOMAIN f : f[j] \in Texts
BY DEF Kept

LEMMA RowsFit ==
    ASSUME NEW rows \in Seq(HeldJob), Distinct(rows)
    PROVE  Len(rows) \in 0..MaxDocs
<1> DEFINE n == Len(rows)
           f == [i \in 1..n |-> rows[i].job]
<1>1. n \in Nat /\ DOMAIN rows = 1..n /\ MaxDocs \in Nat
  BY LenProperties, BoundAssumption
<1>2. \A i \in 1..n : rows[i].job \in 1..MaxDocs
  <2>1. \A i \in 1..n : rows[i] \in HeldJob
    BY ElementOfSeq
  <2> QED
    BY <2>1 DEF HeldJob
<1>3. f \in Injection(1..n, 1..MaxDocs)
  BY <1>1, <1>2 DEF Distinct, Injection, IsInjective
<1> HIDE DEF f, n
<1>4. IsFiniteSet(1..MaxDocs) /\ Cardinality(1..MaxDocs) = MaxDocs /\ Cardinality(1..n) = n
  <2>1. 1 \in Int /\ n \in Int /\ MaxDocs \in Int
    BY <1>1
  <2>2. /\ IsFiniteSet(1..MaxDocs)
        /\ Cardinality(1..MaxDocs) = (IF 1 > MaxDocs THEN 0 ELSE MaxDocs - 1 + 1)
        /\ Cardinality(1..n) = (IF 1 > n THEN 0 ELSE n - 1 + 1)
    BY <2>1, FS_Interval
  <2>3. (IF 1 > MaxDocs THEN 0 ELSE MaxDocs - 1 + 1) = MaxDocs /\ (IF 1 > n THEN 0 ELSE n - 1 + 1) = n
    BY <1>1
  <2> QED
    BY <2>2, <2>3
<1>5. Cardinality(1..n) <= Cardinality(1..MaxDocs)
  BY <1>3, <1>4, FS_Injection
<1> QED
  BY <1>1, <1>4, <1>5 DEF n

LEMMA AddedIs ==
    ASSUME NEW cat \in Seq(HeldJob), NEW x \in Mirror, GoodMirror(cat, x),
           NEW row \in HeldJob, InList(cat, row)
    PROVE  /\ WithAdded(x, row) \in Mirror /\ GoodMirror(cat, WithAdded(x, row))
           /\ WithAdded(x, row).fetching = x.fetching
           /\ Range(x.jobs) \subseteq Range(WithAdded(x, row).jobs)
           /\ row \in Range(WithAdded(x, row).jobs)
<1> DEFINE known == {i \in DOMAIN x.jobs : x.jobs[i].job = row.job}
           rows == IF known = {} THEN Append(x.jobs, row)
                   ELSE [i \in DOMAIN x.jobs |-> IF i \in known THEN row ELSE x.jobs[i]]
           n == Len(x.jobs)
           u == [x EXCEPT !.jobs = rows]
           k == Len(rows)
           y == [u EXCEPT !.count = k]
<1>1. x.jobs \in Seq(HeldJob) /\ n \in Nat /\ DOMAIN x.jobs = 1..n
  BY LenProperties DEF Mirror
<1>2. /\ rows \in Seq(HeldJob) /\ RowsOf(cat, rows) /\ Distinct(rows)
      /\ Range(x.jobs) \subseteq Range(rows) /\ row \in Range(rows)
  <2>1. CASE known = {}
    <3>1. /\ rows \in Seq(HeldJob) /\ DOMAIN rows = 1..(n + 1) /\ rows[n + 1] = row
          /\ \A i \in 1..n : rows[i] = x.jobs[i]
      <4>1. rows = Append(x.jobs, row)
        BY <2>1
      <4> HIDE DEF rows
      <4>2. /\ rows \in Seq(HeldJob) /\ Len(rows) = n + 1 /\ rows[n + 1] = row
            /\ \A i \in 1..n : rows[i] = x.jobs[i]
        BY <1>1, <4>1, AppendProperties
      <4> QED
        BY <4>2, LenProperties
    <3>2. \A i \in 1..n : x.jobs[i].job # row.job
      BY <1>1, <2>1
    <3> HIDE DEF rows, known, n
    <3>3. \A i \in 1..(n + 1) : (i \in 1..n \/ i = n + 1) /\ n + 1 \in 1..(n + 1) /\ (i \in 1..n => i \in 1..(n + 1))
      BY <1>1
    <3>4. RowsOf(cat, rows)
      BY <1>1, <3>1, <3>3 DEF GoodMirror, RowsOf
    <3>5. Distinct(rows)
      BY <1>1, <3>1, <3>2, <3>3 DEF GoodMirror, Distinct
    <3>6. Range(x.jobs) \subseteq Range(rows) /\ row \in Range(rows)
      <4>1. \A i \in 1..n : i \in DOMAIN rows
        BY <1>1, <3>1
      <4>2. n + 1 \in DOMAIN rows
        BY <1>1, <3>1
      <4> QED
        BY <1>1, <3>1, <4>1, <4>2 DEF Range
    <3> QED
      BY <3>1, <3>4, <3>5, <3>6
  <2>2. CASE known # {}
    <3>1. \A i \in known : x.jobs[i] = row
      BY DEF GoodMirror, RowsOf, InList
    <3>2. rows = [i \in DOMAIN x.jobs |-> x.jobs[i]]
      BY <2>2, <3>1
    <3>3. x.jobs = [i \in DOMAIN x.jobs |-> x.jobs[i]]
      BY <1>1
    <3>4. rows = x.jobs
      BY <3>2, <3>3
    <3>5. \E i \in DOMAIN x.jobs : x.jobs[i] = row
      BY <2>2, <3>1
    <3> HIDE DEF rows, known
    <3> QED
      BY <1>1, <3>4, <3>5 DEF GoodMirror, Range
  <2> QED
    BY <2>1, <2>2
<1>3. WithAdded(x, row) = y
  BY DEF WithAdded, Mirror
<1> HIDE DEF rows
<1>4. k \in 0..MaxDocs
  BY <1>2, RowsFit
<1> HIDE DEF k
<1>5. u \in Mirror /\ u.jobs = rows /\ u.fetching = x.fetching /\ u.fetched = x.fetched
  BY <1>2 DEF Mirror
<1> HIDE DEF u
<1>6. y \in Mirror /\ y.jobs = rows /\ y.fetching = x.fetching /\ y.fetched = x.fetched
  BY <1>4, <1>5 DEF Mirror
<1> HIDE DEF y
<1>7. GoodMirror(cat, y)
  BY <1>2, <1>6 DEF GoodMirror
<1> QED
  BY <1>2, <1>3, <1>6, <1>7

LEMMA AdoptedRecord ==
    \A rows : Adopted(rows)
        = [jobs |-> rows, count |-> Len(rows), fetching |-> Nothing, fetched |-> Nothing]
<1> SUFFICES ASSUME NEW rows
             PROVE  Adopted(rows) = [jobs |-> rows, count |-> Len(rows),
                                     fetching |-> Nothing, fetched |-> Nothing]
  OBVIOUS
<1> DEFINE b == BlankMirror
           n == Len(rows)
           u == [b EXCEPT !.jobs = rows]
           v == [u EXCEPT !.count = n]
<1>1. b = [jobs |-> <<>>, count |-> 0, fetching |-> Nothing, fetched |-> Nothing]
  BY DEF BlankMirror
<1>2. Adopted(rows) = v
  BY <1>1 DEF Adopted
<1> HIDE DEF b, n
<1>3. u = [jobs |-> rows, count |-> 0, fetching |-> Nothing, fetched |-> Nothing]
  BY <1>1
<1> HIDE DEF u
<1>4. v = [jobs |-> rows, count |-> n, fetching |-> Nothing, fetched |-> Nothing]
  BY <1>3
<1> QED
  BY <1>2, <1>4 DEF n

\* A snapshot's mirror: the rows and nothing fetched.
LEMMA AdoptedIs ==
    ASSUME NEW cat, NEW rows \in Seq(HeldJob), RowsOf(cat, rows), Distinct(rows)
    PROVE  /\ Adopted(rows) \in Mirror /\ GoodMirror(cat, Adopted(rows))
           /\ Adopted(rows).jobs = rows /\ Adopted(rows).count = Len(rows)
           /\ DOMAIN Adopted(rows).fetching = {}
<1>1. Adopted(rows) = [jobs |-> rows, count |-> Len(rows), fetching |-> Nothing, fetched |-> Nothing]
  BY AdoptedRecord
<1>2. Nothing \in Kept /\ DOMAIN Nothing = {}
  BY KeptIs DEF Nothing
<1>3. Len(rows) \in 0..MaxDocs
  BY RowsFit
<1> QED
  BY <1>1, <1>2, <1>3 DEF Mirror, GoodMirror

LEMMA BlankIs ==
    ASSUME NEW cat
    PROVE  BlankMirror \in Mirror /\ GoodMirror(cat, BlankMirror) /\ DOMAIN BlankMirror.fetching = {}
<1>1. BlankMirror = Adopted(<<>>)
  <2>1. Len(<<>>) = 0
    OBVIOUS
  <2> QED
    BY <2>1, AdoptedRecord DEF BlankMirror
<1>2. <<>> \in Seq(HeldJob) /\ RowsOf(cat, <<>>) /\ Distinct(<<>>)
  BY DEF RowsOf, Distinct
<1> QED
  BY <1>1, <1>2, AdoptedIs

\* Only the count of a mirror changes.
LEMMA RecountedIs ==
    ASSUME NEW cat, NEW x \in Mirror, GoodMirror(cat, x), NEW k \in 0..MaxDocs
    PROVE  LET y == [x EXCEPT !.count = k]
           IN  /\ y \in Mirror /\ GoodMirror(cat, y) /\ y.fetching = x.fetching
               /\ y.jobs = x.jobs /\ y.count = k
<1> DEFINE y == [x EXCEPT !.count = k]
<1>1. /\ y \in Mirror /\ y.fetching = x.fetching /\ y.jobs = x.jobs /\ y.count = k
      /\ y.fetched = x.fetched
  BY DEF Mirror
<1> HIDE DEF y
<1>2. GoodMirror(cat, y)
  BY <1>1 DEF GoodMirror
<1> QED
  BY <1>1, <1>2 DEF y

(***************************************************************************)
(* What a view becomes with each message.                                  *)
(***************************************************************************)
Added(t, row) == [type |-> "PrintJobAdded", term |-> t, row |-> row]
State(t, k) == [type |-> "PrintState", term |-> t, jobs |-> k]
Opened(t) == [type |-> "TermOpened", term |-> t]
Closed(t) == [type |-> "TermClosed", term |-> t]
Snapshot(spools) == [type |-> "Attached", spools |-> spools]

With(v, K, t, y) == [known |-> K, mirror |-> [v.mirror EXCEPT ![t] = y]]
\* z differs from v in t's mirror at most.
OnlyOf(t, v, z) == \A s \in Terminals : s # t => z.mirror[s] = v.mirror[s]

LEMMA WithIs ==
    ASSUME NEW F, NEW v \in Good(F), NEW t \in Terminals, NEW y \in Mirror, GoodMirror(F[t], y),
           NEW K \in SUBSET Terminals
    PROVE  /\ With(v, K, t, y) \in Good(F) /\ With(v, K, t, y).known = K
           /\ With(v, K, t, y).mirror[t] = y /\ OnlyOf(t, v, With(v, K, t, y))
<1> DEFINE z == With(v, K, t, y)
           f == [v.mirror EXCEPT ![t] = y]
<1>1. v.mirror \in [Terminals -> Mirror] /\ \A s \in Terminals : GoodMirror(F[s], v.mirror[s])
  BY DEF Good, View
<1>2. /\ f \in [Terminals -> Mirror] /\ f[t] = y
      /\ \A s \in Terminals : s # t => f[s] = v.mirror[s]
  BY <1>1
<1> HIDE DEF f
<1>3. z.known = K /\ z.mirror = f /\ z \in View
  BY <1>2 DEF With, View, f
<1> HIDE DEF z
<1>4. \A s \in Terminals : GoodMirror(F[s], f[s])
  BY <1>1, <1>2
<1> QED
  BY <1>2, <1>3, <1>4 DEF Good, OnlyOf, z

LEMMA SeenAdded ==
    ASSUME NEW F, F \in Catalogues, NEW v \in Good(F), NEW t \in Terminals, NEW row \in HeldJob,
           InList(F[t], row)
    PROVE  LET z == Seen(v, Added(t, row))
           IN  /\ z \in Good(F) /\ z.known = v.known /\ OnlyOf(t, v, z)
               /\ z.mirror[t].fetching = v.mirror[t].fetching
               /\ Range(v.mirror[t].jobs) \subseteq Range(z.mirror[t].jobs)
               /\ t \in v.known => row \in Range(z.mirror[t].jobs)
<1> DEFINE m == Added(t, row)
           z == Seen(v, m)
           x == v.mirror[t]
           y == WithAdded(x, row)
<1>1. m.type = "PrintJobAdded" /\ m.term = t /\ m.row = row
  BY DEF Added
<1>2. x \in Mirror /\ GoodMirror(F[t], x) /\ v.known \in SUBSET Terminals /\ F[t] \in Seq(HeldJob)
  BY DEF Good, View, Catalogues
<1>3. /\ y \in Mirror /\ GoodMirror(F[t], y) /\ y.fetching = x.fetching
      /\ Range(x.jobs) \subseteq Range(y.jobs) /\ row \in Range(y.jobs)
  <2> HIDE DEF x
  <2> QED
    BY <1>2, AddedIs
<1>4. Told(x, m) = y
  BY <1>1 DEF Told
<1> HIDE DEF m, y
<1>5. z = IF t \in v.known THEN With(v, v.known, t, y) ELSE v
  BY <1>1, <1>4 DEF Seen, With
<1> HIDE DEF z
<1>6. CASE t \in v.known
  BY <1>2, <1>3, <1>5, <1>6, WithIs DEF m, z
<1>7. CASE t \notin v.known
  BY <1>5, <1>7 DEF m, z, OnlyOf
<1> QED
  BY <1>6, <1>7

LEMMA SeenState ==
    ASSUME NEW F, NEW v \in Good(F), NEW t \in Terminals, NEW k \in 0..MaxDocs
    PROVE  LET z == Seen(v, State(t, k))
           IN  /\ z \in Good(F) /\ z.known = v.known /\ OnlyOf(t, v, z)
               /\ z.mirror[t].fetching = v.mirror[t].fetching
               /\ z.mirror[t].jobs = v.mirror[t].jobs
               /\ t \in v.known => z.mirror[t].count = k
<1> DEFINE m == State(t, k)
           z == Seen(v, m)
           x == v.mirror[t]
           y == [x EXCEPT !.count = k]
<1>1. m.type = "PrintState" /\ m.term = t /\ m.jobs = k
  BY DEF State
<1>2. x \in Mirror /\ GoodMirror(F[t], x) /\ v.known \in SUBSET Terminals
  BY DEF Good, View
<1>3. /\ y \in Mirror /\ GoodMirror(F[t], y) /\ y.fetching = x.fetching
      /\ y.jobs = x.jobs /\ y.count = k
  <2> HIDE DEF x
  <2> QED
    BY <1>2, RecountedIs
<1>4. Told(x, m) = y
  BY <1>1 DEF Told
<1> HIDE DEF m, y
<1>5. z = IF t \in v.known THEN With(v, v.known, t, y) ELSE v
  BY <1>1, <1>4 DEF Seen, With
<1> HIDE DEF z
<1>6. CASE t \in v.known
  BY <1>2, <1>3, <1>5, <1>6, WithIs DEF m, z
<1>7. CASE t \notin v.known
  BY <1>5, <1>7 DEF m, z, OnlyOf
<1> QED
  BY <1>6, <1>7

LEMMA SeenOpened ==
    ASSUME NEW F, NEW v \in Good(F), NEW t \in Terminals
    PROVE  LET z == Seen(v, Opened(t))
           IN  /\ z \in Good(F) /\ z.known = v.known /\ OnlyOf(t, v, z)
               /\ z.mirror[t].fetching = v.mirror[t].fetching
               /\ z.mirror[t].jobs = v.mirror[t].jobs
               /\ t \in v.known => z.mirror[t].count = 0
<1> DEFINE m == Opened(t)
           z == Seen(v, m)
           x == v.mirror[t]
           y == [x EXCEPT !.count = 0]
<1>1. m.type = "TermOpened" /\ m.term = t
  BY DEF Opened
<1>2. x \in Mirror /\ GoodMirror(F[t], x) /\ v.known \in SUBSET Terminals /\ 0 \in 0..MaxDocs
  BY BoundAssumption DEF Good, View
<1>3. /\ y \in Mirror /\ GoodMirror(F[t], y) /\ y.fetching = x.fetching
      /\ y.jobs = x.jobs /\ y.count = 0
  <2> HIDE DEF x
  <2> QED
    BY <1>2, RecountedIs
<1>4. Told(x, m) = y
  BY <1>1 DEF Told
<1> HIDE DEF m, y
<1>5. z = IF t \in v.known THEN With(v, v.known, t, y) ELSE v
  BY <1>1, <1>4 DEF Seen, With
<1> HIDE DEF z
<1>6. CASE t \in v.known
  BY <1>2, <1>3, <1>5, <1>6, WithIs DEF m, z
<1>7. CASE t \notin v.known
  BY <1>5, <1>7 DEF m, z, OnlyOf
<1> QED
  BY <1>6, <1>7

LEMMA SeenClosed ==
    ASSUME NEW F, NEW v \in Good(F), NEW t \in Terminals
    PROVE  LET z == Seen(v, Closed(t))
           IN  /\ z \in Good(F) /\ z.known = v.known \ {t} /\ OnlyOf(t, v, z)
               /\ z.mirror[t] = BlankMirror
<1> DEFINE m == Closed(t)
           z == Seen(v, m)
<1>1. m.type = "TermClosed" /\ m.term = t
  BY DEF Closed
<1>2. v.known \ {t} \in SUBSET Terminals /\ BlankMirror \in Mirror /\ GoodMirror(F[t], BlankMirror)
  BY BlankIs DEF Good, View
<1> HIDE DEF m
<1>3. z = With(v, v.known \ {t}, t, BlankMirror)
  BY <1>1 DEF Seen, With
<1> HIDE DEF z
<1> QED
  BY <1>2, <1>3, WithIs DEF m, z

LEMMA SeenDetached == \A v : Seen(v, [type |-> "Detached"]) = v
BY DEF Seen

LEMMA SeenAttached ==
    ASSUME NEW F, NEW v, NEW spools, DOMAIN spools \in SUBSET Terminals,
           \A t \in DOMAIN spools : spools[t] \in Seq(HeldJob) /\ RowsOf(F[t], spools[t])
                                                              /\ Distinct(spools[t])
    PROVE  LET z == Seen(v, Snapshot(spools))
           IN  /\ z \in Good(F) /\ z.known = DOMAIN spools /\ Quiet(z)
               /\ \A t \in DOMAIN spools : /\ z.mirror[t].jobs = spools[t]
                                            /\ z.mirror[t].count = Len(spools[t])
<1> DEFINE m == Snapshot(spools)
           z == Seen(v, m)
           f == [t \in Terminals |-> IF t \in DOMAIN spools THEN Adopted(spools[t]) ELSE BlankMirror]
<1>1. m.type = "Attached" /\ m.spools = spools
  BY DEF Snapshot
<1> HIDE DEF m
<1>2. z = [known |-> DOMAIN spools, mirror |-> f]
  BY <1>1 DEF Seen
<1>3. \A t \in Terminals : f[t] = IF t \in DOMAIN spools THEN Adopted(spools[t]) ELSE BlankMirror
  OBVIOUS
<1>4. ASSUME NEW t \in Terminals
      PROVE  f[t] \in Mirror /\ GoodMirror(F[t], f[t]) /\ DOMAIN f[t].fetching = {}
  <2>1. CASE t \in DOMAIN spools
    <3>1. f[t] = Adopted(spools[t])
      BY <1>3, <2>1
    <3> HIDE DEF f
    <3> QED
      BY <2>1, <3>1, AdoptedIs
  <2>2. CASE t \notin DOMAIN spools
    <3>1. f[t] = BlankMirror
      BY <1>3, <2>2
    <3> HIDE DEF f
    <3> QED
      BY <3>1, BlankIs
  <2> QED
    BY <2>1, <2>2
<1>5. f \in [Terminals -> Mirror]
  BY <1>4
<1>6. \A t \in DOMAIN spools : f[t].jobs = spools[t] /\ f[t].count = Len(spools[t])
  BY <1>3, AdoptedIs
<1> HIDE DEF f, z
<1>7. z.known = DOMAIN spools /\ z.mirror = f
  BY <1>2
<1>8. z \in Good(F)
  BY <1>2, <1>4, <1>5 DEF Good, View
<1>9. Quiet(z)
  BY <1>4, <1>7 DEF Quiet
<1> QED
  BY <1>6, <1>7, <1>8, <1>9 DEF z, m

Restated(F, spools, z) ==
    /\ z \in Good(F) /\ z.known = DOMAIN spools /\ Quiet(z)
    /\ \A t \in DOMAIN spools : /\ z.mirror[t].jobs = spools[t]
                                 /\ z.mirror[t].count = Len(spools[t])
Restatable(F, spools) ==
    /\ DOMAIN spools \in SUBSET Terminals
    /\ \A t \in DOMAIN spools : /\ spools[t] \in Seq(HeldJob) /\ RowsOf(F[t], spools[t])
                                 /\ Distinct(spools[t])

LEMMA SnapshotSeen ==
    \A F, v, spools : Restatable(F, spools) => Restated(F, spools, Seen(v, Snapshot(spools)))
BY SeenAttached DEF Restated, Restatable

(***************************************************************************)
(* A fetch: the pieces of one text, put together as they come.             *)
(***************************************************************************)
Chunk(t, row, k) ==
    [type |-> "PrintJobData", term |-> t, job |-> row.job,
     bytes |-> SubSeq(Text(row), k, k), final |-> k = row.pieces]
Chunks(t, row) == [k \in 1..row.pieces |-> Chunk(t, row, k)]

\* A mirror that has the first k pieces of the row's text, and of no other.
Partial(x, row, k) ==
    /\ DOMAIN x.fetching = IF k = 0 THEN {} ELSE {row.job}
    /\ k # 0 => x.fetching[row.job] = SubSeq(Text(row), 1, k)

LEMMA TextIs ==
    ASSUME NEW row \in HeldJob
    PROVE  /\ Text(row) \in Texts /\ Len(Text(row)) = row.pieces /\ row.pieces \in Nat
           /\ \A k \in 1..row.pieces :
                 /\ SubSeq(Text(row), k, k) \in Texts /\ SubSeq(Text(row), 1, k) \in Texts
                 /\ SubSeq(Text(row), 1, k - 1) \in Texts
                 /\ SubSeq(Text(row), 1, k - 1) \o SubSeq(Text(row), k, k) = SubSeq(Text(row), 1, k)
           /\ SubSeq(Text(row), 1, 0) = <<>> /\ SubSeq(Text(row), 1, row.pieces) = Text(row)
<1> DEFINE P == (1..MaxDocs) \X (1..SpoolLimit)
           n == row.pieces
           x == Text(row)
<1>1. n \in Nat /\ row.doc \in 1..MaxDocs /\ \A i \in 1..n : i \in 1..SpoolLimit
  BY BoundAssumption DEF HeldJob
<1>2. x = [i \in 1..n |-> <<row.doc, i>>]
  BY DEF Text
<1>3. x \in [1..n -> P]
  BY <1>1, <1>2
<1> HIDE DEF x, P, n
<1>4. x \in Seq(P) /\ Len(x) = n
  <2>1. x \in Seq(P)
    BY <1>1, <1>3, IsASeq
  <2>2. DOMAIN x = 1..n /\ DOMAIN x = 1..Len(x) /\ Len(x) \in Nat
    BY <1>3, <2>1, LenProperties
  <2> QED
    BY <1>1, <2>1, <2>2
<1>5. Texts = Seq(P)
  BY DEF Texts, P
<1>6. ASSUME NEW k \in 1..n
      PROVE  /\ SubSeq(x, k, k) \in Seq(P) /\ SubSeq(x, 1, k) \in Seq(P) /\ SubSeq(x, 1, k - 1) \in Seq(P)
             /\ SubSeq(x, 1, k - 1) \o SubSeq(x, k, k) = SubSeq(x, 1, k)
  <2>1. /\ k \in Int /\ k - 1 \in Int /\ 1 \in Int
        /\ k - 1 \in (1 - 1)..Len(x) /\ k \in (k - 1)..Len(x) /\ 1 \in 1..(Len(x) + 1)
        /\ (k - 1) + 1 = k
    BY <1>1, <1>4
  <2>2. \A i \in 1..n : x[i] \in P
    BY <1>3
  <2>3. SubSeq(x, k, k) \in Seq(P)
    <3>1. \A i \in k..k : x[i] \in P
      BY <2>2, <1>1
    <3> QED
      BY <2>1, <3>1, SubSeqProperties
  <2>4. SubSeq(x, 1, k) \in Seq(P)
    <3>1. \A i \in 1..k : x[i] \in P
      BY <2>2, <1>1
    <3> QED
      BY <2>1, <3>1, SubSeqProperties
  <2>5. SubSeq(x, 1, k - 1) \in Seq(P)
    <3>1. \A i \in 1..(k - 1) : x[i] \in P
      BY <2>2, <1>1
    <3> QED
      BY <2>1, <3>1, SubSeqProperties
  <2>6. SubSeq(x, 1, k - 1) \o SubSeq(x, (k - 1) + 1, k) = SubSeq(x, 1, k)
    BY <1>4, <2>1, ConcatAdjacentSubSeq
  <2> QED
    BY <2>1, <2>3, <2>4, <2>5, <2>6
<1>7. SubSeq(x, 1, 0) = <<>> /\ SubSeq(x, 1, n) = x
  BY <1>4, SubSeqEmpty, SubSeqFull
<1> QED
  BY <1>1, <1>4, <1>5, <1>6, <1>7 DEF x, n

LEMMA PutIs ==
    ASSUME NEW f \in Kept, NEW job \in 1..MaxDocs, NEW bytes \in Texts
    PROVE  /\ Put(f, job, bytes) \in Kept /\ DOMAIN Put(f, job, bytes) = DOMAIN f \cup {job}
           /\ Put(f, job, bytes)[job] = bytes
           /\ \A j \in DOMAIN f : j # job => Put(f, job, bytes)[j] = f[j]
<1> DEFINE g == Put(f, job, bytes)
<1>1. /\ DOMAIN g = DOMAIN f \cup {job} /\ g[job] = bytes
      /\ \A j \in DOMAIN f : j # job => g[j] = f[j]
      /\ g = [j \in DOMAIN g |-> g[j]]
  BY DEF Put
<1> HIDE DEF g
<1>2. g \in Kept
  BY <1>1, KeptIs
<1> QED
  BY <1>1, <1>2 DEF g

LEMMA PutAll ==
    \A f \in Kept : \A j \in 1..MaxDocs : \A b \in Texts :
        /\ Put(f, j, b) \in Kept /\ DOMAIN Put(f, j, b) = DOMAIN f \cup {j} /\ Put(f, j, b)[j] = b
        /\ \A i \in DOMAIN f : i # j => Put(f, j, b)[i] = f[i]
<1> TAKE f \in Kept
<1> TAKE j \in 1..MaxDocs
<1> TAKE b \in Texts
<1> QED
  BY PutIs

LEMMA DataIs ==
    ASSUME NEW cat, NEW x \in Mirror, GoodMirror(cat, x), NEW row \in HeldJob, InList(cat, row),
           NEW t, NEW k \in 1..row.pieces, Partial(x, row, k - 1)
    PROVE  LET y == WithData(x, Chunk(t, row, k))
           IN  /\ y \in Mirror /\ GoodMirror(cat, y) /\ y.jobs = x.jobs /\ y.count = x.count
               /\ k # row.pieces => Partial(y, row, k)
               /\ k = row.pieces => DOMAIN y.fetching = {}
<1> DEFINE m == Chunk(t, row, k)
           y == WithData(x, m)
           text == SubSeq(Text(row), 1, k)
           g == Put(x.fetching, row.job, text)
           h == Put(x.fetched, row.job, text)
           e == [j \in DOMAIN x.fetching \ {row.job} |-> x.fetching[j]]
<1>1. /\ m.job = row.job /\ m.bytes = SubSeq(Text(row), k, k) /\ m.final = (k = row.pieces)
  BY DEF Chunk
<1>2. /\ row.pieces \in Nat /\ text \in Texts /\ k \in Nat /\ k # 0 /\ row.job \in 1..MaxDocs
      /\ (IF row.job \in DOMAIN x.fetching THEN x.fetching[row.job] ELSE <<>>) \o SubSeq(Text(row), k, k)
              = text
  <2>1. /\ row.pieces \in Nat /\ text \in Texts /\ k \in Nat /\ k # 0 /\ row.job \in 1..MaxDocs
    BY TextIs DEF HeldJob
  <2>2. (IF row.job \in DOMAIN x.fetching THEN x.fetching[row.job] ELSE <<>>)
            = SubSeq(Text(row), 1, k - 1)
    <3>1. CASE k - 1 = 0
      BY <3>1, TextIs DEF Partial
    <3>2. CASE k - 1 # 0
      BY <3>2 DEF Partial
    <3> QED
      BY <3>1, <3>2
  <2> QED
    BY <2>1, <2>2, TextIs
<1>3. /\ x.fetching \in Kept /\ x.fetched \in Kept
  BY DEF Mirror
<1>4. /\ g \in Kept /\ DOMAIN g = DOMAIN x.fetching \cup {row.job} /\ g[row.job] = text
      /\ h \in Kept /\ DOMAIN h = DOMAIN x.fetched \cup {row.job} /\ h[row.job] = text
      /\ \A j \in DOMAIN x.fetched : j # row.job => h[j] = x.fetched[j]
  <2> HIDE DEF text
  <2>1. text \in Texts /\ row.job \in 1..MaxDocs
    BY <1>2
  <2>2. \A f \in Kept : \A j \in 1..MaxDocs : \A b \in Texts :
            /\ Put(f, j, b) \in Kept /\ DOMAIN Put(f, j, b) = DOMAIN f \cup {j} /\ Put(f, j, b)[j] = b
            /\ \A i \in DOMAIN f : i # j => Put(f, j, b)[i] = f[i]
    <3> HIDE DEF m, y, g, h, e
    <3> QED
      BY PutAll
  <2>3. g \in Kept /\ DOMAIN g = DOMAIN x.fetching \cup {row.job} /\ g[row.job] = text
    <3> DEFINE f == x.fetching
               j == row.job
    <3>1. f \in Kept /\ j \in 1..MaxDocs
      BY <1>3, <2>1
    <3>2. g = Put(f, j, text)
      OBVIOUS
    <3> HIDE DEF f, j, g
    <3>3. g \in Kept /\ DOMAIN g = DOMAIN f \cup {j} /\ g[j] = text
      BY <2>1, <2>2, <3>1, <3>2
    <3> QED
      BY <3>3 DEF f, j
  <2>4. /\ h \in Kept /\ DOMAIN h = DOMAIN x.fetched \cup {row.job} /\ h[row.job] = text
        /\ \A j \in DOMAIN x.fetched : j # row.job => h[j] = x.fetched[j]
    BY <1>3, <2>1, <2>2
  <2> HIDE DEF g, h
  <2> QED
    BY <2>3, <2>4
<1>5. e \in Kept /\ DOMAIN e = DOMAIN x.fetching \ {row.job}
  BY <1>3, KeptIs
<1>6. DOMAIN x.fetching \subseteq {row.job}
  BY DEF Partial
<1>7. /\ k # row.pieces => y = [x EXCEPT !.fetching = g]
      /\ k = row.pieces => y = [x EXCEPT !.fetched = h, !.fetching = e]
  <2> HIDE DEF m
  <2>1. WithData(x, m) = IF ~m.final THEN [x EXCEPT !.fetching = Put(@, m.job, text)]
                         ELSE [x EXCEPT !.fetched = Put(@, m.job, text),
                                        !.fetching = [j \in DOMAIN @ \ {m.job} |-> @[j]]]
    BY <1>1, <1>2, Zenon DEF WithData
  <2> HIDE DEF text
  <2> QED
    BY <1>1, <2>1
<1> HIDE DEF y, m, g, h, e, text
<1>8. CASE k # row.pieces
  <2>1. /\ y \in Mirror /\ y.jobs = x.jobs /\ y.count = x.count /\ y.fetching = g
        /\ y.fetched = x.fetched
    BY <1>4, <1>7, <1>8 DEF Mirror
  <2>2. GoodMirror(cat, y)
    BY <2>1 DEF GoodMirror
  <2>3. Partial(y, row, k)
    BY <1>2, <1>4, <1>6, <2>1 DEF Partial, text
  <2> QED
    BY <1>8, <2>1, <2>2, <2>3 DEF y, m
<1>9. CASE k = row.pieces
  <2> DEFINE u == [x EXCEPT !.fetched = h]
             w == [u EXCEPT !.fetching = e]
  <2>1. y = w
    BY <1>7, <1>9 DEF Mirror
  <2>2. /\ u \in Mirror /\ u.jobs = x.jobs /\ u.count = x.count /\ u.fetched = h
    BY <1>4 DEF Mirror
  <2> HIDE DEF u
  <2>3. /\ w \in Mirror /\ w.jobs = x.jobs /\ w.count = x.count /\ w.fetched = h /\ w.fetching = e
    BY <1>5, <2>2 DEF Mirror
  <2> HIDE DEF w
  <2>4. \A j \in DOMAIN h : j \in DOMAIN cat /\ h[j] = Text(cat[j])
    <3>1. text = Text(row) /\ row.job \in DOMAIN cat /\ row = cat[row.job]
      BY <1>9, TextIs DEF text, InList
    <3> QED
      BY <1>4, <3>1 DEF GoodMirror
  <2>5. GoodMirror(cat, y)
    BY <2>1, <2>3, <2>4 DEF GoodMirror
  <2>6. DOMAIN y.fetching = {}
    BY <1>5, <1>6, <2>1, <2>3
  <2> QED
    BY <1>9, <2>1, <2>3, <2>5, <2>6 DEF y, m
<1> QED
  BY <1>8, <1>9

\* What a view keeps while a text comes.
SameLists(v, z) ==
    /\ z.known = v.known
    /\ \A s \in Terminals : /\ z.mirror[s].jobs = v.mirror[s].jobs
                            /\ z.mirror[s].count = v.mirror[s].count

LEMMA SeenData ==
    ASSUME NEW F, F \in Catalogues, NEW v \in Good(F), NEW t \in Terminals, NEW row \in HeldJob,
           InList(F[t], row), NEW k \in 1..row.pieces, t \in v.known,
           Partial(v.mirror[t], row, k - 1)
    PROVE  LET z == Seen(v, Chunk(t, row, k))
           IN  /\ z \in Good(F) /\ SameLists(v, z) /\ OnlyOf(t, v, z)
               /\ k # row.pieces => Partial(z.mirror[t], row, k)
               /\ k = row.pieces => DOMAIN z.mirror[t].fetching = {}
<1> DEFINE m == Chunk(t, row, k)
           z == Seen(v, m)
           x == v.mirror[t]
           y == WithData(x, m)
<1>1. m.type = "PrintJobData" /\ m.term = t
  BY DEF Chunk
<1>2. x \in Mirror /\ GoodMirror(F[t], x) /\ v.known \in SUBSET Terminals
  BY DEF Good, View
<1>3. /\ y \in Mirror /\ GoodMirror(F[t], y) /\ y.jobs = x.jobs /\ y.count = x.count
      /\ k # row.pieces => Partial(y, row, k)
      /\ k = row.pieces => DOMAIN y.fetching = {}
  <2> HIDE DEF x
  <2>1. Partial(x, row, k - 1)
    BY DEF x
  <2> QED
    BY <1>2, <2>1, DataIs
<1> HIDE DEF m, y
<1>4. Told(x, m) = y
  BY <1>1 DEF Told, y
<1>5. z = With(v, v.known, t, y)
  BY <1>1, <1>4 DEF Seen, With
<1> HIDE DEF z, x
<1>6. z \in Good(F) /\ z.known = v.known /\ z.mirror[t] = y /\ OnlyOf(t, v, z)
  BY <1>2, <1>3, <1>5, WithIs
<1>7. SameLists(v, z)
  BY <1>3, <1>6 DEF SameLists, OnlyOf, x
<1> QED
  BY <1>3, <1>6, <1>7 DEF z, m

(***************************************************************************)
(* Blocks of messages.                                                     *)
(***************************************************************************)
LEMMA OneMore ==
    ASSUME NEW S, NEW q \in Seq(S), NEW b \in Seq(S)
    PROVE  /\ q \o SubSeq(b, 1, 0) = q /\ q \o SubSeq(b, 1, Len(b)) = q \o b
           /\ \A k \in Nat : k + 1 <= Len(b) =>
                 /\ q \o SubSeq(b, 1, k) \in Seq(S) /\ b[k + 1] \in S
                 /\ q \o SubSeq(b, 1, k + 1) = Append(q \o SubSeq(b, 1, k), b[k + 1])
<1>1. Len(b) \in Nat /\ \A i \in 1..Len(b) : b[i] \in S
  BY LenProperties, ElementOfSeq
<1>2. SubSeq(b, 1, 0) = <<>> /\ SubSeq(b, 1, Len(b)) = b /\ q \o <<>> = q
  BY SubSeqEmpty, SubSeqFull, ConcatEmptySeq
<1>3. ASSUME NEW k \in Nat, k + 1 <= Len(b)
      PROVE  /\ q \o SubSeq(b, 1, k) \in Seq(S) /\ b[k + 1] \in S
             /\ q \o SubSeq(b, 1, k + 1) = Append(q \o SubSeq(b, 1, k), b[k + 1])
  <2> DEFINE x == SubSeq(b, 1, k)
             e == b[k + 1]
  <2>1. /\ k + 1 \in 1..Len(b) /\ k + 1 \in 1..(k + 1) /\ 1 \in 1..Len(b) /\ k + 1 \in 1..Len(b)
        /\ (k + 1) - 1 = k /\ 1 \in Int /\ k \in Int /\ \A i \in 1..k : i \in 1..Len(b)
    BY <1>1, <1>3
  <2>2. x \in Seq(S) /\ e \in S /\ <<e>> \in Seq(S)
    <3>1. \A i \in 1..k : b[i] \in S
      BY <1>1, <2>1
    <3>2. x \in Seq(S)
      BY <2>1, <3>1, SubSeqProperties
    <3>3. e \in S
      BY <1>1, <2>1
    <3> HIDE DEF e, x
    <3> QED
      BY <3>2, <3>3
  <2>3. SubSeq(b, 1, k + 1) = x \o <<e>>
    <3>1. k + 1 \in 1..Len(b) /\ 1 \in 1..Len(b)
      BY <2>1
    <3>2. SubSeq(b, 1, k + 1) = SubSeq(b, 1, (k + 1) - 1) \o <<b[k + 1]>>
      BY <2>1, <3>1, SubSeqRecursiveSecond
    <3> QED
      BY <2>1, <3>2
  <2> HIDE DEF x, e
  <2>4. q \o x \in Seq(S) /\ q \o (x \o <<e>>) = (q \o x) \o <<e>>
    BY <2>2, ConcatProperties, ConcatAssociative
  <2>5. Append(q \o x, e) = (q \o x) \o <<e>>
    BY <2>2, <2>4, AppendIsConcat
  <2> QED
    BY <2>2, <2>3, <2>4, <2>5 DEF x, e
<1> QED
  BY <1>2, <1>3

\* If every message of b takes the views of I[k - 1] to views of I[k].
LEMMA LeadsThrough ==
    ASSUME NEW F, NEW v, NEW q \in Seq(Message), NEW b \in Seq(Message), NEW z, Leads(F, v, q, z),
           NEW I \in [0..Len(b) -> SUBSET Good(F)], z \in I[0],
           \A k \in 1..Len(b) : \A y \in I[k - 1] : Seen(y, b[k]) \in I[k]
    PROVE  \E y \in I[Len(b)] : Leads(F, v, q \o b, y)
<1> DEFINE n == Len(b)
           T == {k \in Nat : k <= n => \E y \in I[k] : Leads(F, v, q \o SubSeq(b, 1, k), y)}
<1>1. n \in Nat
  BY LenProperties
<1>2. 0 \in T
  <2>1. q \o SubSeq(b, 1, 0) = q
    BY OneMore
  <2> QED
    BY <2>1
<1>3. ASSUME NEW k \in T PROVE k + 1 \in T
  <2> SUFFICES ASSUME k + 1 <= n PROVE \E y \in I[k + 1] : Leads(F, v, q \o SubSeq(b, 1, k + 1), y)
    OBVIOUS
  <2> DEFINE p == q \o SubSeq(b, 1, k)
             m == b[k + 1]
  <2>1. k \in Nat /\ k <= n /\ k + 1 \in 1..n /\ (k + 1) - 1 = k /\ k + 1 \in 0..n
    BY <1>1
  <2>2. PICK y \in I[k] : Leads(F, v, p, y)
    BY <2>1
  <2>3. Seen(y, m) \in I[k + 1] /\ I[k + 1] \subseteq Good(F)
    BY <2>1
  <2>4. p \in Seq(Message) /\ m \in Message /\ q \o SubSeq(b, 1, k + 1) = Append(p, m)
    BY <2>1, OneMore
  <2> HIDE DEF p, m
  <2>5. Leads(F, v, Append(p, m), Seen(y, m))
    BY <2>2, <2>3, <2>4, LeadsOn
  <2> QED
    BY <2>3, <2>4, <2>5
<1>4. T = Nat
  <2> HIDE DEF T
  <2>1. T \in SUBSET Nat
    BY DEF T
  <2> QED
    BY <1>2, <1>3, <2>1, Induction
<1>5. \E y \in I[n] : Leads(F, v, q \o SubSeq(b, 1, n), y)
  BY <1>1, <1>4
<1>6. q \o SubSeq(b, 1, n) = q \o b
  BY OneMore
<1> QED
  BY <1>5, <1>6

LEMMA ChunksTyped ==
    ASSUME NEW t \in Terminals, NEW row \in HeldJob
    PROVE  /\ Chunks(t, row) \in Seq(Message) /\ Len(Chunks(t, row)) = row.pieces
           /\ \A k \in 1..row.pieces : Chunks(t, row)[k] = Chunk(t, row, k)
<1>1. row.pieces \in Nat /\ row.job \in 1..MaxDocs
  BY TextIs DEF HeldJob
<1>2. ASSUME NEW k \in 1..row.pieces PROVE Chunk(t, row, k) \in Message
  <2> DEFINE bytes == SubSeq(Text(row), k, k)
             final == k = row.pieces
  <2>1. bytes \in Texts /\ final \in BOOLEAN
    BY TextIs
  <2>2. Chunk(t, row, k) = [type |-> "PrintJobData", term |-> t, job |-> row.job,
                            bytes |-> bytes, final |-> final]
    BY DEF Chunk
  <2> HIDE DEF bytes, final
  <2> QED
    BY <1>1, <2>1, <2>2 DEF Message
<1> DEFINE b == Chunks(t, row)
<1>3. b \in [1..row.pieces -> Message] /\ \A k \in 1..row.pieces : b[k] = Chunk(t, row, k)
  BY <1>2 DEF Chunks
<1> HIDE DEF b
<1>4. b \in Seq(Message)
  BY <1>1, <1>3
<1> QED
  BY <1>1, <1>3, <1>4, LenProperties DEF b

LEMMA LeadsFetch ==
    ASSUME NEW F, F \in Catalogues, NEW v, NEW q \in Seq(Message), NEW z \in Good(F),
           Leads(F, v, q, z), Quiet(z), NEW t \in Terminals, NEW row \in HeldJob,
           InList(F[t], row), row.pieces # 0
    PROVE  \E y \in Good(F) : /\ Leads(F, v, q \o Chunks(t, row), y)
                              /\ SameLists(z, y) /\ Quiet(y)
<1> DEFINE n == row.pieces
           b == Chunks(t, row)
           At(y, k) ==
              /\ SameLists(z, y) /\ OnlyOf(t, z, y)
              /\ t \notin z.known => y = z
              /\ t \in z.known => IF k = n THEN DOMAIN y.mirror[t].fetching = {}
                                  ELSE Partial(y.mirror[t], row, k)
           I == [k \in 0..n |-> {y \in Good(F) : At(y, k)}]
<1>1. /\ n \in Nat /\ n # 0 /\ b \in Seq(Message) /\ Len(b) = n
      /\ \A k \in 1..n : b[k] = Chunk(t, row, k)
  BY ChunksTyped, TextIs
<1>2. DOMAIN z.mirror[t].fetching = {}
  BY DEF Quiet
<1>3. z \in I[0]
  <2>1. SameLists(z, z) /\ OnlyOf(t, z, z)
    BY DEF SameLists, OnlyOf
  <2>2. Partial(z.mirror[t], row, 0)
    BY <1>2 DEF Partial
  <2>3. At(z, 0)
    BY <1>1, <2>1, <2>2
  <2> HIDE DEF At
  <2> QED
    BY <1>1, <2>3
<1>4. ASSUME NEW k \in 1..n, NEW y \in I[k - 1] PROVE Seen(y, b[k]) \in I[k]
  <2>1. k - 1 \in 0..n /\ k \in 0..n /\ k - 1 # n
    BY <1>1
  <2>2. y \in Good(F) /\ At(y, k - 1)
    BY <2>1
  <2> DEFINE m == Chunk(t, row, k)
             w == Seen(y, m)
  <2>3. w \in Good(F) /\ At(w, k)
    <3>1. CASE t \in z.known
      <4>1. t \in y.known /\ Partial(y.mirror[t], row, k - 1)
        BY <2>1, <2>2, <3>1 DEF SameLists
      <4>2. /\ w \in Good(F) /\ SameLists(y, w) /\ OnlyOf(t, y, w)
            /\ k # n => Partial(w.mirror[t], row, k)
            /\ k = n => DOMAIN w.mirror[t].fetching = {}
        BY <2>2, <4>1, SeenData
      <4> HIDE DEF w, m
      <4>3. SameLists(z, w) /\ OnlyOf(t, z, w)
        BY <2>2, <4>2 DEF SameLists, OnlyOf
      <4> QED
        BY <3>1, <4>2, <4>3
    <3>2. CASE t \notin z.known
      <4>1. y = z /\ m.type = "PrintJobData" /\ m.term = t
        BY <2>2, <3>2 DEF Chunk
      <4> HIDE DEF m
      <4>2. w = z
        BY <3>2, <4>1 DEF Seen
      <4> HIDE DEF w
      <4> QED
        BY <2>2, <3>2, <4>1, <4>2
    <3> QED
      BY <3>1, <3>2
  <2> HIDE DEF At
  <2> QED
    BY <1>1, <2>1, <2>3
<1>5. I \in [0..n -> SUBSET Good(F)]
  OBVIOUS
<1>6. \A y : y \in I[n] => y \in Good(F) /\ At(y, n)
  BY <1>1
<1> HIDE DEF I, At, n, b
<1>7. PICK y \in I[n] : Leads(F, v, q \o b, y)
  BY <1>1, <1>3, <1>4, <1>5, LeadsThrough
<1>8. Quiet(y)
  BY <1>2, <1>6, <1>7 DEF At, OnlyOf, Quiet
<1> QED
  BY <1>6, <1>7, <1>8 DEF At, b

\* What is fetched is the text of the row it is fetched for, or there is none.
LEMMA FetchedIs ==
    ASSUME Typed, NEW F, SpoolsListed(F), NEW t \in Terminals, NEW row \in HeldJob,
           row.pieces # 0, InList(F[t], row)
    PROVE  Fetched(t, row.job) = <<>> \/ Fetched(t, row.job) = Chunks(t, row)
<1> DEFINE job == row.job
           held == {r \in Range(term[t].jobs) : r.job = job}
           text == Text(CHOOSE r \in held : TRUE)
           n == IF text = <<>> THEN 1 ELSE Len(text)
<1>1. CASE held = {}
  BY <1>1 DEF Fetched
<1>2. CASE held # {}
  <2> DEFINE r == CHOOSE r \in held : TRUE
  <2>1. r \in held
    BY <1>2
  <2>2. r = row
    <3> HIDE DEF r
    <3>1. PICK i \in DOMAIN term[t].jobs : r = term[t].jobs[i]
      BY <2>1 DEF Range
    <3> QED
      BY <2>1, <3>1 DEF SpoolsListed, RowsOf, InList
  <2>3. text = Text(row) /\ Len(text) = row.pieces /\ row.pieces # 0 /\ Len(<<>>) = 0
    BY <2>2, TextIs
  <2>4. n = row.pieces
    BY <2>3
  <2>5. Fetched(t, row.job) = <<>> \/ Fetched(t, row.job) =
              [i \in 1..n |-> [type |-> "PrintJobData", term |-> t, job |-> job,
                               bytes |-> SubSeq(text, i, i), final |-> i = n]]
    BY DEF Fetched
  <2> HIDE DEF n, text
  <2> QED
    BY <2>3, <2>4, <2>5 DEF Chunks, Chunk
<1> QED
  BY <1>1, <1>2

(***************************************************************************)
(* The news of a tick.                                                     *)
(***************************************************************************)
NewRows(x) ==
    [i \in 1..Len(x.ready) |->
        [job |-> x.next + i - 1, doc |-> x.ready[i].doc, pieces |-> x.ready[i].pieces]]

LEMMA CollectedIs ==
    ASSUME NEW x \in Terminal, x.next + Len(x.ready) <= MaxDocs + 1
    PROVE  LET y == Collected(x)
           IN  /\ y \in Terminal /\ y.live = x.live /\ y.damage = x.damage /\ y.news = x.news
               /\ y.ready = <<>> /\ y.next = x.next + Len(x.ready) /\ y.jobs = x.jobs \o NewRows(x)
               /\ NewRows(x) \in Seq(HeldJob) /\ Len(NewRows(x)) = Len(x.ready)
               /\ \A i \in 1..Len(x.ready) : NewRows(x)[i].job = x.next + i - 1
<1> DEFINE rows == NewRows(x)
           n == Len(x.ready)
           jobs == x.jobs \o rows
           next == x.next + n
           u == [x EXCEPT !.ready = <<>>]
           w == [u EXCEPT !.next = next]
           y == [w EXCEPT !.jobs = jobs]
<1>1. /\ x.ready \in Seq(Document) /\ x.jobs \in Seq(HeldJob) /\ x.next \in 1..(MaxDocs + 1)
      /\ n \in Nat /\ DOMAIN x.ready = 1..n /\ MaxDocs \in Nat
      /\ \A i \in 1..n : x.ready[i] \in Document
  <2>1. x.ready \in Seq(Document) /\ x.jobs \in Seq(HeldJob) /\ x.next \in 1..(MaxDocs + 1)
    BY DEF Terminal
  <2> QED
    BY <2>1, LenProperties, ElementOfSeq, BoundAssumption
<1>2. /\ rows \in Seq(HeldJob) /\ Len(rows) = n
      /\ \A i \in 1..n : rows[i].job = x.next + i - 1
  <2>1. rows = [i \in 1..n |-> [job |-> x.next + i - 1, doc |-> x.ready[i].doc,
                                pieces |-> x.ready[i].pieces]]
    BY DEF NewRows
  <2>2. ASSUME NEW i \in 1..n
        PROVE  /\ x.next + i - 1 \in 1..MaxDocs /\ x.ready[i].doc \in 1..MaxDocs
               /\ x.ready[i].pieces \in 0..SpoolLimit
    <3>1. x.next + i - 1 \in 1..MaxDocs
      BY <1>1
    <3>2. x.ready[i] \in Document
      BY <1>1
    <3> QED
      BY <3>1, <3>2 DEF Document
  <2> HIDE DEF rows, n
  <2>3. rows \in [1..n -> HeldJob] /\ \A i \in 1..n : rows[i].job = x.next + i - 1
    BY <2>1, <2>2 DEF HeldJob
  <2>4. rows \in Seq(HeldJob)
    BY <1>1, <2>3
  <2> QED
    BY <1>1, <2>3, <2>4, LenProperties
<1>3. Collected(x) = y
  <2>1. \A i \in 1..n : TRUE
    OBVIOUS
  <2>2. [i \in DOMAIN x.ready |-> [job |-> x.next + i - 1, doc |-> x.ready[i].doc,
                                   pieces |-> x.ready[i].pieces]] = rows
    BY <1>1 DEF NewRows
  <2>3. Collected(x) = [x EXCEPT !.ready = <<>>, !.next = @ + n, !.jobs = @ \o rows]
    BY <2>2 DEF Collected
  <2> HIDE DEF rows, n
  <2> QED
    BY <2>3 DEF Terminal
<1>4. jobs \in Seq(HeldJob) /\ next \in 1..(MaxDocs + 1) /\ <<>> \in Seq(Document)
  <2>1. jobs \in Seq(HeldJob)
    <3> HIDE DEF rows
    <3> QED
      BY <1>1, <1>2, ConcatProperties
  <2>2. next \in 1..(MaxDocs + 1)
    <3> DEFINE k == x.next
    <3>1. k \in 1..(MaxDocs + 1) /\ k + n <= MaxDocs + 1
      BY <1>1
    <3> HIDE DEF k, n
    <3>2. k + n \in 1..(MaxDocs + 1)
      BY <1>1, <3>1
    <3> QED
      BY <3>2 DEF k
  <2> QED
    BY <2>1, <2>2
<1> HIDE DEF jobs, next, rows, n
<1>5. /\ u \in Terminal /\ u.live = x.live /\ u.damage = x.damage /\ u.news = x.news /\ u.ready = <<>>
  BY <1>4 DEF Terminal
<1> HIDE DEF u
<1>6. /\ w \in Terminal /\ w.live = x.live /\ w.damage = x.damage /\ w.news = x.news /\ w.ready = <<>>
      /\ w.next = next
  BY <1>4, <1>5 DEF Terminal
<1> HIDE DEF w
<1>7. /\ y \in Terminal /\ y.live = x.live /\ y.damage = x.damage /\ y.news = x.news /\ y.ready = <<>>
      /\ y.next = next /\ y.jobs = jobs
  BY <1>4, <1>6 DEF Terminal
<1> QED
  BY <1>2, <1>3, <1>7 DEF jobs, next, rows, n

Block(t, rows, k) == [i \in 1..Len(rows) |-> Added(t, rows[i])] \o <<State(t, k)>>

LEMMA BlockTyped ==
    ASSUME NEW t \in Terminals, NEW rows \in Seq(HeldJob), NEW k \in 0..MaxDocs
    PROVE  /\ Block(t, rows, k) \in Seq(Message) /\ Len(Block(t, rows, k)) = Len(rows) + 1
           /\ \A i \in 1..Len(rows) : Block(t, rows, k)[i] = Added(t, rows[i])
           /\ Block(t, rows, k)[Len(rows) + 1] = State(t, k)
<1> DEFINE n == Len(rows)
           a == [i \in 1..n |-> Added(t, rows[i])]
           m == State(t, k)
<1>1. n \in Nat /\ \A i \in 1..n : rows[i] \in HeldJob
  BY LenProperties, ElementOfSeq
<1>2. a \in [1..n -> Message] /\ \A i \in 1..n : a[i] = Added(t, rows[i])
  BY <1>1 DEF Added, Message
<1>3. m \in Message
  BY DEF State, Message
<1> HIDE DEF a, m, n
<1>4. a \in Seq(Message)
  BY <1>1, <1>2
<1>5. Len(a) = n
  BY <1>1, <1>2, <1>4, LenProperties
<1>6. a \o <<m>> = Append(a, m)
  BY <1>3, <1>4, AppendIsConcat
<1>7. /\ a \o <<m>> \in Seq(Message) /\ Len(a \o <<m>>) = n + 1
      /\ \A i \in 1..n : (a \o <<m>>)[i] = a[i]
      /\ (a \o <<m>>)[n + 1] = m
  BY <1>3, <1>4, <1>5, <1>6, AppendProperties
<1>8. Block(t, rows, k) = a \o <<m>>
  BY DEF Block, a, m, n
<1> QED
  BY <1>2, <1>7, <1>8 DEF m, n

\* What t's part of the news does to the views z and y before and after it.
NewsSeen(z, y, t, rows, k) ==
    t \in z.known => /\ Range(z.mirror[t].jobs) \subseteq Range(y.mirror[t].jobs)
                     /\ Range(rows) \subseteq Range(y.mirror[t].jobs)
                     /\ y.mirror[t].count = k

LEMMA LeadsNews ==
    ASSUME NEW G, G \in Catalogues, NEW v, NEW q \in Seq(Message), NEW z \in Good(G),
           Leads(G, v, q, z), NEW t \in Terminals, NEW rows \in Seq(HeldJob),
           RowsOf(G[t], rows), NEW N \in 0..MaxDocs
    PROVE  \E y \in Good(G) : /\ Leads(G, v, q \o Block(t, rows, N), y)
                              /\ y.known = z.known /\ OnlyOf(t, z, y)
                              /\ y.mirror[t].fetching = z.mirror[t].fetching
                              /\ NewsSeen(z, y, t, rows, N)
<1> DEFINE n == Len(rows)
           b == Block(t, rows, N)
           At(y, k) ==
              /\ y.known = z.known /\ OnlyOf(t, z, y)
              /\ y.mirror[t].fetching = z.mirror[t].fetching
              /\ Range(z.mirror[t].jobs) \subseteq Range(y.mirror[t].jobs)
              /\ t \in z.known => /\ \A i \in 1..n : i <= k => rows[i] \in Range(y.mirror[t].jobs)
                                  /\ k = n + 1 => y.mirror[t].count = N
           I == [k \in 0..(n + 1) |-> {y \in Good(G) : At(y, k)}]
<1>1. /\ n \in Nat /\ b \in Seq(Message) /\ Len(b) = n + 1 /\ DOMAIN rows = 1..n
      /\ \A i \in 1..n : b[i] = Added(t, rows[i]) /\ rows[i] \in HeldJob
      /\ b[n + 1] = State(t, N)
  BY BlockTyped, LenProperties, ElementOfSeq
<1>2. z \in I[0]
  <2>1. At(z, 0)
    BY <1>1 DEF OnlyOf
  <2> HIDE DEF At
  <2> QED
    BY <1>1, <2>1
<1>3. ASSUME NEW k \in 1..(n + 1), NEW y \in I[k - 1] PROVE Seen(y, b[k]) \in I[k]
  <2>1. k - 1 \in 0..(n + 1) /\ k \in 0..(n + 1)
    BY <1>1
  <2>2. y \in Good(G) /\ At(y, k - 1)
    BY <2>1
  <2> DEFINE w == Seen(y, b[k])
  <2>3. w \in Good(G) /\ At(w, k)
    <3>1. CASE k = n + 1
      <4>1. b[k] = State(t, N)
        BY <1>1, <3>1
      <4>2. /\ w \in Good(G) /\ w.known = y.known /\ OnlyOf(t, y, w)
            /\ w.mirror[t].fetching = y.mirror[t].fetching
            /\ w.mirror[t].jobs = y.mirror[t].jobs
            /\ t \in y.known => w.mirror[t].count = N
        BY <2>2, <4>1, SeenState
      <4> HIDE DEF w
      <4>3. \A i \in 1..n : i <= k - 1
        <5>1. n \in Nat
          BY <1>1
        <5> HIDE DEF n
        <5> QED
          BY <3>1, <5>1
      <4>4. OnlyOf(t, z, w)
        BY <2>2, <4>2 DEF OnlyOf
      <4> QED
        BY <2>2, <4>2, <4>3, <4>4
    <3>2. CASE k # n + 1
      <4>1. k \in 1..n /\ b[k] = Added(t, rows[k]) /\ rows[k] \in HeldJob
        BY <1>1, <3>2
      <4>2. InList(G[t], rows[k])
        BY <1>1, <4>1 DEF RowsOf
      <4>3. /\ w \in Good(G) /\ w.known = y.known /\ OnlyOf(t, y, w)
            /\ w.mirror[t].fetching = y.mirror[t].fetching
            /\ Range(y.mirror[t].jobs) \subseteq Range(w.mirror[t].jobs)
            /\ t \in y.known => rows[k] \in Range(w.mirror[t].jobs)
        <5> DEFINE r == rows[k]
        <5>1. w = Seen(y, Added(t, r)) /\ r \in HeldJob /\ InList(G[t], r) /\ y \in Good(G)
          BY <2>2, <4>1, <4>2
        <5> HIDE DEF r, w
        <5> QED
          BY <5>1, SeenAdded DEF r
      <4> HIDE DEF w
      <4>4. \A i \in 1..n : i <= k => i = k \/ i <= k - 1
        BY <4>1
      <4>5. OnlyOf(t, z, w)
        BY <2>2, <4>3 DEF OnlyOf
      <4>6. t \in z.known => \A i \in 1..n : i <= k => rows[i] \in Range(w.mirror[t].jobs)
        BY <2>2, <4>3, <4>4
      <4> QED
        BY <2>2, <3>2, <4>3, <4>5, <4>6
    <3> QED
      BY <3>1, <3>2
  <2> HIDE DEF At
  <2> QED
    BY <2>1, <2>3
<1>4. I \in [0..(n + 1) -> SUBSET Good(G)]
  OBVIOUS
<1>5. \A y : y \in I[n + 1] => y \in Good(G) /\ At(y, n + 1)
  BY <1>1
<1> HIDE DEF I, At, b
<1>6. PICK y \in I[n + 1] : Leads(G, v, q \o b, y)
  <2> HIDE DEF n
  <2>1. \A k \in 1..(n + 1) : \A y \in I[k - 1] : Seen(y, b[k]) \in I[k]
    BY <1>3
  <2>2. I \in [0..Len(b) -> SUBSET Good(G)] /\ \A k \in 1..Len(b) : \A y \in I[k - 1] : Seen(y, b[k]) \in I[k]
    BY <1>1, <1>4, <2>1
  <2>3. \E y \in I[Len(b)] : Leads(G, v, q \o b, y)
    BY <1>1, <1>2, <2>2, LeadsThrough
  <2> QED
    BY <1>1, <2>3
<1>7. NewsSeen(z, y, t, rows, N)
  <2>1. At(y, n + 1)
    BY <1>5, <1>6
  <2>2. \A i \in 1..n : i <= n + 1
    BY <1>1
  <2> QED
    BY <1>1, <2>1, <2>2 DEF At, NewsSeen, Range
<1> QED
  BY <1>5, <1>6, <1>7 DEF At, b

(***************************************************************************)
(* FlattenSeq: the blocks of the terminals, one after another.             *)
(***************************************************************************)
Flatten(ss, f) == [i \in 1..Len(ss) |-> IF i = 1 THEN ss[i] ELSE f[i - 1] \o ss[i]]

LEMMA FlattenExists == ASSUME NEW ss, Len(ss) \in Nat PROVE \E f : f = Flatten(ss, f)
<1> DEFINE N == Len(ss)
           Upto(n, g) == /\ g = [i \in 1..n |-> g[i]]
                         /\ \A i \in 1..n : g[i] = IF i = 1 THEN ss[i] ELSE g[i - 1] \o ss[i]
           T == {n \in Nat : \E g : Upto(n, g)}
<1>1. 0 \in T
  <2>1. Upto(0, [i \in 1..0 |-> <<>>])
    OBVIOUS
  <2> QED
    BY <2>1
<1>2. ASSUME NEW n \in T PROVE n + 1 \in T
  <2>1. n \in Nat
    OBVIOUS
  <2>2. PICK g : Upto(n, g)
    OBVIOUS
  <2> DEFINE last == IF n + 1 = 1 THEN ss[n + 1] ELSE g[n] \o ss[n + 1]
             h == [i \in 1..(n + 1) |-> IF i = n + 1 THEN last ELSE g[i]]
  <2> HIDE DEF last
  <2>3. h[n + 1] = last /\ \A i \in 1..n : h[i] = g[i]
    BY <2>1
  <2>4. h = [i \in 1..(n + 1) |-> h[i]]
    OBVIOUS
  <2> HIDE DEF h
  <2>5. ASSUME NEW i \in 1..(n + 1) PROVE h[i] = IF i = 1 THEN ss[i] ELSE h[i - 1] \o ss[i]
    <3>1. CASE i = n + 1
      <4>1. n + 1 = 1 \/ (n \in 1..n /\ (n + 1) - 1 = n)
        BY <2>1
      <4> QED
        BY <2>3, <3>1, <4>1 DEF last
    <3>2. CASE i # n + 1
      <4>1. i \in 1..n /\ (i = 1 \/ i - 1 \in 1..n)
        BY <2>1, <3>2
      <4> QED
        BY <2>2, <2>3, <4>1
    <3> QED
      BY <3>1, <3>2
  <2>6. Upto(n + 1, h)
    BY <2>4, <2>5
  <2>7. \E e : Upto(n + 1, e)
    BY <2>6
  <2> HIDE DEF Upto
  <2> QED
    BY <2>1, <2>7
<1>3. T = Nat
  <2> HIDE DEF T
  <2>1. T \in SUBSET Nat
    BY DEF T
  <2> QED
    BY <1>1, <1>2, <2>1, Induction
<1>4. PICK g : Upto(N, g)
  BY <1>3
<1>5. \A i \in 1..N : g[i] = Flatten(ss, g)[i]
  BY <1>4 DEF Flatten
<1>6. Flatten(ss, g) = [i \in 1..N |-> Flatten(ss, g)[i]] /\ g = [i \in 1..N |-> g[i]]
  BY <1>4 DEF Flatten
<1> HIDE DEF N
<1>7. g = Flatten(ss, g)
  BY <1>5, <1>6
<1> QED
  BY <1>7

\* FlattenSeq takes the sequences of ss one after another.
Blocks(n, S) == [1..n -> Seq(S)]
Flattened(n, ss, S) ==
    \E g \in [0..n -> Seq(S)] : /\ g[0] = <<>> /\ FlattenSeq(ss) = g[n]
                               /\ \A i \in 1..n : g[i] = g[i - 1] \o ss[i]

LEMMA FlattenIs ==
    ASSUME NEW S, NEW n \in Nat, NEW ss \in Blocks(n, S)
    PROVE  Flattened(n, ss, S)
<1> USE DEF Blocks, Flattened
<1>1. Len(ss) = n /\ DOMAIN ss = 1..n
  <2>1. ss \in Seq(Seq(S))
    OBVIOUS
  <2>2. Len(ss) \in Nat /\ DOMAIN ss = 1..Len(ss) /\ DOMAIN ss = 1..n
    BY <2>1, LenProperties
  <2> QED
    BY <2>2
<1>2. CASE n = 0
  <2>1. ss = <<>>
    BY <1>1, <1>2
  <2>2. FlattenSeq(ss) = <<>>
    BY <1>1, <1>2, <2>1 DEF FlattenSeq
  <2> DEFINE g == [i \in 0..0 |-> <<>>]
  <2>3. g \in [0..n -> Seq(S)] /\ g[0] = <<>> /\ g[n] = <<>> /\ \A i \in 1..n : FALSE
    BY <1>2
  <2> HIDE DEF g
  <2> QED
    BY <2>2, <2>3
<1>3. CASE n # 0
  <2>1. FlattenSeq(ss) = (CHOOSE f : f = Flatten(ss, f))[Len(ss)]
    BY <1>1, <1>3, Zenon DEF FlattenSeq, Flatten
  <2> DEFINE f == CHOOSE f : f = Flatten(ss, f)
  <2>2. f = Flatten(ss, f)
    <3>1. \E e : e = Flatten(ss, e)
      BY <1>1, FlattenExists
    <3> QED
      BY <3>1, Zenon
  <2>3. FlattenSeq(ss) = f[n]
    BY <1>1, <2>1
  <2> HIDE DEF f
  <2>4. \A i \in 1..n : f[i] = IF i = 1 THEN ss[i] ELSE f[i - 1] \o ss[i]
    <3>1. \A i \in 1..n : Flatten(ss, f)[i] = IF i = 1 THEN ss[i] ELSE f[i - 1] \o ss[i]
      BY <1>1 DEF Flatten
    <3> QED
      BY <2>2, <3>1
  <2> DEFINE T == {k \in Nat : k \in 1..n => f[k] \in Seq(S)}
  <2>5. 0 \in T
    OBVIOUS
  <2>6. ASSUME NEW k \in T PROVE k + 1 \in T
    <3> SUFFICES ASSUME k + 1 \in 1..n PROVE f[k + 1] \in Seq(S)
      OBVIOUS
    <3>1. ss[k + 1] \in Seq(S)
      OBVIOUS
    <3>2. CASE k = 0
      BY <2>4, <3>1, <3>2
    <3>3. CASE k # 0
      <4>1. k \in 1..n /\ (k + 1) - 1 = k /\ k + 1 # 1
        BY <3>3
      <4>2. f[k] \in Seq(S) /\ f[k + 1] = f[k] \o ss[k + 1]
        BY <2>4, <4>1
      <4> DEFINE a == f[k]
                 b == ss[k + 1]
      <4>3. a \in Seq(S) /\ b \in Seq(S) /\ f[k + 1] = a \o b
        BY <3>1, <4>2
      <4> HIDE DEF a, b
      <4> QED
        BY <4>3, ConcatProperties
    <3> QED
      BY <3>2, <3>3
  <2>7. T = Nat
    <3> HIDE DEF T
    <3>1. T \in SUBSET Nat
      BY DEF T
    <3> QED
      BY <2>5, <2>6, <3>1, Induction
  <2>8. \A k \in 1..n : f[k] \in Seq(S)
    BY <2>7
  <2> DEFINE g == [i \in 0..n |-> IF i = 0 THEN <<>> ELSE f[i]]
  <2>9. g \in [0..n -> Seq(S)]
    BY <2>8
  <2>10. g[0] = <<>> /\ \A i \in 1..n : g[i] = f[i]
    OBVIOUS
  <2> HIDE DEF g
  <2>11. ASSUME NEW i \in 1..n PROVE g[i] = g[i - 1] \o ss[i]
    <3>1. CASE i = 1
      <4> DEFINE b == ss[1]
      <4>1. g[i] = b /\ b \in Seq(S) /\ g[i - 1] = <<>>
        BY <2>4, <2>10, <3>1
      <4> HIDE DEF b
      <4>2. <<>> \o b = b
        BY <4>1, ConcatEmptySeq
      <4> QED
        BY <3>1, <4>1, <4>2 DEF b
    <3>2. CASE i # 1
      <4>1. i - 1 \in 1..n
        BY <3>2
      <4> QED
        BY <2>4, <2>10, <3>2, <4>1
    <3> QED
      BY <3>1, <3>2
  <2>12. n \in 1..n
    BY <1>3
  <2> QED
    BY <2>3, <2>9, <2>10, <2>11, <2>12
<1> QED
  BY <1>2, <1>3

LEMMA ConcatParts ==
    ASSUME NEW S, NEW a \in Seq(S), NEW b \in Seq(S)
    PROVE  /\ a \o b \in Seq(S) /\ Len(a \o b) = Len(a) + Len(b)
           /\ Len(a) \in Nat /\ Len(b) \in Nat
           /\ DOMAIN a = 1..Len(a) /\ DOMAIN b = 1..Len(b) /\ DOMAIN (a \o b) = 1..(Len(a) + Len(b))
           /\ \A i \in 1..Len(a) : (a \o b)[i] = a[i]
           /\ \A i \in 1..Len(b) : (a \o b)[Len(a) + i] = b[i]
           /\ \A i \in 1..(Len(a) + Len(b)) : i \in 1..Len(a) \/ \E j \in 1..Len(b) : i = Len(a) + j
           /\ SubSeq(a \o b, Len(a) + 1, Len(a \o b)) = b
<1> DEFINE n == Len(a)
           m == Len(b)
           c == a \o b
<1>1. /\ c \in Seq(S) /\ Len(c) = n + m /\ n \in Nat /\ m \in Nat
      /\ DOMAIN a = 1..n /\ DOMAIN b = 1..m
      /\ \A i \in 1..(n + m) : c[i] = IF i <= n THEN a[i] ELSE b[i - n]
  BY ConcatProperties, LenProperties
<1>2. DOMAIN c = 1..(n + m) /\ \A i \in 1..(n + m) : c[i] \in S
  <2> HIDE DEF c, n, m
  <2> QED
    BY <1>1, LenProperties, ElementOfSeq
<1> HIDE DEF n, m, c
<1>3. \A i \in 1..n : c[i] = a[i]
  <2>1. \A i \in 1..n : i \in 1..(n + m) /\ i <= n
    BY <1>1
  <2> QED
    BY <1>1, <2>1
<1>4. \A i \in 1..m : c[n + i] = b[i]
  <2>1. \A i \in 1..m : n + i \in 1..(n + m) /\ ~(n + i <= n) /\ (n + i) - n = i
    BY <1>1
  <2> QED
    BY <1>1, <2>1
<1>5. \A i \in 1..(n + m) : i \in 1..n \/ \E j \in 1..m : i = n + j
  <2> SUFFICES ASSUME NEW i \in 1..(n + m), i \notin 1..n PROVE \E j \in 1..m : i = n + j
    OBVIOUS
  <2>1. i - n \in 1..m /\ i = n + (i - n)
    BY <1>1
  <2> QED
    BY <2>1
<1>6. SubSeq(c, n + 1, n + m) = b
  <2> DEFINE d == SubSeq(c, n + 1, n + m)
  <2>1. n + 1 \in Int /\ n + m \in Int /\ \A i \in (n + 1)..(n + m) : i \in 1..(n + m)
    BY <1>1
  <2>2. \A i \in (n + 1)..(n + m) : c[i] \in S
    BY <1>2, <2>1
  <2>3. /\ d \in Seq(S) /\ Len(d) = (IF n + 1 <= n + m THEN (n + m) - (n + 1) + 1 ELSE 0)
        /\ \A i \in 1..((n + m) - (n + 1) + 1) : d[i] = c[(n + 1) + i - 1]
    BY <2>1, <2>2, SubSeqProperties
  <2>4. /\ (IF n + 1 <= n + m THEN (n + m) - (n + 1) + 1 ELSE 0) = m
        /\ (n + m) - (n + 1) + 1 = m /\ \A i \in 1..m : (n + 1) + i - 1 = n + i
    BY <1>1
  <2> HIDE DEF d
  <2>5. Len(d) = Len(b) /\ \A i \in 1..Len(d) : d[i] = b[i]
    BY <1>4, <2>3, <2>4 DEF m
  <2>6. d = b
    BY <2>3, <2>5, SeqEqual
  <2> QED
    BY <2>6 DEF d
<1> QED
  BY <1>1, <1>2, <1>3, <1>4, <1>5, <1>6 DEF n, m, c

\* The catalogue once the tick has numbered what was ready.
Extended(F) == [t \in Terminals |-> IF HasNews(t) THEN F[t] \o NewRows(term[t]) ELSE F[t]]

LEMMA TerminalIs ==
    ASSUME Typed, NEW t \in Terminals
    PROVE  /\ term[t] \in Terminal /\ term[t].jobs \in Seq(HeldJob)
           /\ term[t].next \in 1..(MaxDocs + 1) /\ Len(term[t].ready) \in Nat
           /\ term[t].next + Len(term[t].ready) <= printed + 1
           /\ term[t].next + Len(term[t].ready) <= MaxDocs + 1
<1>1. term[t] \in Terminal /\ printed \in 0..MaxDocs /\ MaxDocs \in Nat
  BY BoundAssumption DEF Typed
<1>2. term[t].next + Len(term[t].ready) <= printed + 1
  BY DEF Typed
<1>3. /\ term[t].jobs \in Seq(HeldJob) /\ term[t].next \in 1..(MaxDocs + 1)
      /\ term[t].ready \in Seq(Document)
  BY <1>1 DEF Terminal
<1>4. Len(term[t].ready) \in Nat
  BY <1>3, LenProperties
<1> DEFINE n == term[t].next
           k == Len(term[t].ready)
<1>5. n + k <= MaxDocs + 1
  <2>1. n \in Nat /\ k \in Nat /\ n + k <= printed + 1
    BY <1>1, <1>2, <1>3, <1>4
  <2> HIDE DEF n, k
  <2> QED
    BY <1>1, <2>1
<1> QED
  BY <1>1, <1>2, <1>3, <1>4, <1>5

Rising(q) == \A i, j \in DOMAIN q : i < j => q[i].job < q[j].job

LEMMA RisingIsDistinct ==
    ASSUME NEW q \in Seq(HeldJob), Rising(q) PROVE Distinct(q) /\ Len(q) \in 0..MaxDocs
<1>1. \A i \in DOMAIN q : i \in Int /\ q[i].job \in Int
  <2>1. DOMAIN q = 1..Len(q) /\ Len(q) \in Nat /\ \A i \in 1..Len(q) : q[i] \in HeldJob
    BY LenProperties, ElementOfSeq
  <2>2. \A r \in HeldJob : r.job \in Int
    BY DEF HeldJob
  <2> QED
    BY <2>1, <2>2
<1>2. ASSUME NEW i \in DOMAIN q, NEW j \in DOMAIN q, q[i].job = q[j].job, i # j PROVE FALSE
  <2>1. i < j \/ j < i
    BY <1>1, <1>2
  <2> QED
    BY <1>1, <1>2, <2>1 DEF Rising
<1>3. Distinct(q)
  BY <1>2 DEF Distinct
<1> QED
  BY <1>3, RowsFit

LEMMA ExtendedIs ==
    ASSUME Typed, NEW F, F \in Catalogues, Numbered(F), SpoolsListed(F)
    PROVE  LET G == Extended(F)
           IN  /\ G \in Catalogues /\ Grown(F, G)
               /\ \A t \in Terminals : HasNews(t) =>
                     LET x == Collected(term[t])
                     IN  /\ RowsOf(G[t], NewRows(term[t])) /\ RowsOf(G[t], x.jobs)
                         /\ Rising(x.jobs) /\ Len(x.jobs) \in 0..MaxDocs
                         /\ Len(G[t]) = x.next - 1 /\ \A j \in DOMAIN G[t] : G[t][j].job = j
<1> DEFINE G == Extended(F)
<1>1. \A t \in Terminals : G[t] = IF HasNews(t) THEN F[t] \o NewRows(term[t]) ELSE F[t]
  BY DEF Extended
<1>2. G = [t \in Terminals |-> G[t]]
  BY DEF Extended
<1> HIDE DEF G
<1>3. ASSUME NEW t \in Terminals, HasNews(t)
      PROVE  LET x == Collected(term[t])
             IN  /\ G[t] \in Seq(HeldJob) /\ \A j \in DOMAIN F[t] : j \in DOMAIN G[t] /\ G[t][j] = F[t][j]
                 /\ RowsOf(G[t], NewRows(term[t])) /\ RowsOf(G[t], x.jobs)
                 /\ Rising(x.jobs) /\ Len(x.jobs) \in 0..MaxDocs
                 /\ Len(G[t]) = x.next - 1 /\ \A j \in DOMAIN G[t] : G[t][j].job = j
  <2> DEFINE x == Collected(term[t])
             rows == NewRows(term[t])
             cat == F[t]
             held == term[t].jobs
             n == Len(cat)
             m == Len(rows)
             h == Len(held)
             next == term[t].next
  <2>1. /\ rows \in Seq(HeldJob) /\ m = Len(term[t].ready) /\ x.next = next + m
        /\ x.jobs = held \o rows /\ \A i \in 1..m : rows[i].job = next + i - 1
    BY TerminalIs, CollectedIs
  <2>2. /\ cat \in Seq(HeldJob) /\ held \in Seq(HeldJob) /\ next \in 1..(MaxDocs + 1) /\ n = next - 1
        /\ n \in Nat /\ m \in Nat /\ h \in Nat
        /\ \A j \in DOMAIN cat : cat[j].job = j
    <3>1. cat \in Seq(HeldJob) /\ held \in Seq(HeldJob) /\ next \in 1..(MaxDocs + 1) /\ n = next - 1
          /\ \A j \in DOMAIN cat : cat[j].job = j
      BY TerminalIs DEF Catalogues, Numbered
    <3> QED
      BY <2>1, <3>1, LenProperties
  <2>3. RowsOf(cat, held) /\ Rising(held)
    BY DEF SpoolsListed, Typed, Rising
  <2> DEFINE g == cat \o rows
             j0 == held \o rows
  <2>4. /\ g \in Seq(HeldJob) /\ Len(g) = n + m /\ DOMAIN g = 1..(n + m)
        /\ DOMAIN cat = 1..n /\ DOMAIN rows = 1..m
        /\ \A i \in 1..n : g[i] = cat[i]
        /\ \A i \in 1..m : g[n + i] = rows[i]
        /\ \A i \in 1..(n + m) : i \in 1..n \/ \E j \in 1..m : i = n + j
    <3>1. cat \in Seq(HeldJob) /\ rows \in Seq(HeldJob)
      BY <2>1, <2>2
    <3> HIDE DEF cat, rows
    <3> QED
      BY <3>1, ConcatParts
  <2>5. /\ j0 \in Seq(HeldJob) /\ DOMAIN j0 = 1..(h + m) /\ DOMAIN held = 1..h
        /\ \A i \in 1..h : j0[i] = held[i]
        /\ \A i \in 1..m : j0[h + i] = rows[i]
        /\ \A i \in 1..(h + m) : i \in 1..h \/ \E j \in 1..m : i = h + j
    <3>1. held \in Seq(HeldJob) /\ rows \in Seq(HeldJob)
      BY <2>1, <2>2
    <3> HIDE DEF held, rows
    <3> QED
      BY <3>1, ConcatParts
  <2>6. G[t] = g /\ x.jobs = j0
    BY <1>1, <1>3, <2>1
  <2> HIDE DEF g, j0, cat, held, rows, n, m, h, next, x
  <2>7. \A i \in 1..m : next + i - 1 = n + i
    BY <2>2
  <2>8. \A j \in 1..n : j \in 1..(n + m) /\ g[j] = cat[j]
    BY <2>2, <2>4
  <2>9. RowsOf(g, rows)
    <3>1. ASSUME NEW i \in 1..m PROVE InList(g, rows[i])
      <4>1. rows[i].job = n + i
        BY <2>1, <2>7
      <4>2. n + i \in 1..(n + m)
        BY <2>2
      <4> QED
        BY <2>4, <4>1, <4>2 DEF InList
    <3> QED
      BY <2>4, <3>1 DEF RowsOf
  <2>10. \A i \in 1..h : InList(g, held[i]) /\ InList(cat, held[i])
    BY <2>3, <2>4, <2>5, <2>8 DEF RowsOf, InList
  <2>11. RowsOf(g, j0)
    <3>1. ASSUME NEW i \in 1..(h + m) PROVE InList(g, j0[i])
      <4>1. CASE i \in 1..h
        BY <2>5, <2>10, <4>1
      <4>2. ASSUME NEW j \in 1..m, i = h + j PROVE InList(g, j0[i])
        BY <2>4, <2>5, <2>9, <4>2 DEF RowsOf
      <4> QED
        BY <2>5, <4>1, <4>2
    <3> QED
      BY <2>5, <3>1 DEF RowsOf
  <2>12. \A j \in DOMAIN g : g[j].job = j
    <3>1. ASSUME NEW j \in 1..(n + m) PROVE g[j].job = j
      <4>1. CASE j \in 1..n
        BY <2>2, <2>4, <4>1
      <4>2. ASSUME NEW i \in 1..m, j = n + i PROVE g[j].job = j
        BY <2>1, <2>4, <2>7, <4>2
      <4> QED
        BY <2>4, <4>1, <4>2
    <3> QED
      BY <2>4, <3>1
  <2>13. Rising(j0)
    <3> SUFFICES ASSUME NEW i \in 1..(h + m), NEW k \in 1..(h + m), i < k PROVE j0[i].job < j0[k].job
      BY <2>5 DEF Rising
    <3>1. CASE k \in 1..h
      <4>1. i \in 1..h
        BY <2>2, <3>1
      <4> QED
        BY <2>3, <2>5, <3>1, <4>1 DEF Rising
    <3>2. ASSUME NEW j \in 1..m, k = h + j PROVE j0[i].job < j0[k].job
      <4>1. j0[k].job = n + j
        BY <2>1, <2>5, <2>7, <3>2
      <4>2. CASE i \in 1..h
        <5>1. j0[i].job \in 1..n
          BY <2>4, <2>5, <2>10, <4>2 DEF InList
        <5> DEFINE a == j0[i].job
                   b == j0[k].job
        <5>2. a \in 1..n /\ b = n + j
          BY <4>1, <5>1
        <5> HIDE DEF a, b
        <5>3. a < b
          BY <2>2, <5>2
        <5> QED
          BY <5>3 DEF a, b
      <4>3. ASSUME NEW e \in 1..m, i = h + e PROVE j0[i].job < j0[k].job
        <5>1. j0[i].job = n + e
          BY <2>1, <2>5, <2>7, <4>3
        <5>2. n + e < n + j
          BY <2>2, <3>2, <4>3
        <5> QED
          BY <4>1, <5>1, <5>2
      <4> QED
        BY <2>5, <4>2, <4>3
    <3> QED
      BY <2>5, <3>1, <3>2
  <2>14. Len(j0) \in 0..MaxDocs
    BY <2>5, <2>13, RisingIsDistinct
  <2>15. Len(g) = (next + m) - 1
    BY <2>2, <2>4
  <2> QED
    BY <2>1, <2>4, <2>6, <2>8, <2>9, <2>11, <2>12, <2>13, <2>14, <2>15 DEF cat, rows, x
<1>4. \A t \in Terminals : ~HasNews(t) => G[t] = F[t] /\ F[t] \in Seq(HeldJob)
  BY <1>1 DEF Catalogues
<1>5. G \in Catalogues
  BY <1>2, <1>3, <1>4 DEF Catalogues
<1>6. Grown(F, G)
  BY <1>3, <1>4 DEF Grown
<1> QED
  BY <1>3, <1>5, <1>6 DEF G

LEMMA PrinterNewsIs ==
    ASSUME Typed, NEW t \in Terminals, HasNews(t)
    PROVE  PrinterNews(t) = Block(t, NewRows(term[t]), Len(Collected(term[t]).jobs))
<1> DEFINE x == Collected(term[t])
           held == term[t].jobs
           rows == NewRows(term[t])
           k == Len(x.jobs)
           added == SubSeq(x.jobs, Len(held) + 1, Len(x.jobs))
<1>1. x.jobs = held \o rows /\ held \in Seq(HeldJob) /\ rows \in Seq(HeldJob)
  BY TerminalIs, CollectedIs
<1>2. added = rows
  <2> HIDE DEF held, rows, x
  <2>1. SubSeq(held \o rows, Len(held) + 1, Len(held \o rows)) = rows
    BY <1>1, ConcatParts
  <2> QED
    BY <1>1, <2>1
<1>3. DOMAIN rows = 1..Len(rows)
  <2> HIDE DEF rows
  <2> QED
    BY <1>1, LenProperties
<1>4. PrinterNews(t) = [i \in DOMAIN added |-> [type |-> "PrintJobAdded", term |-> t, row |-> added[i]]]
            \o <<[type |-> "PrintState", term |-> t, jobs |-> k]>>
  BY DEF PrinterNews
<1> HIDE DEF added, k, rows
<1>5. PrinterNews(t) = Block(t, rows, k)
  BY <1>2, <1>3, <1>4 DEF Block, Added, State
<1> QED
  BY <1>5 DEF rows, k

TickLeads(F, v, q, z, news) ==
    /\ q \o news \in Seq(Message)
    /\ \E y \in Good(Extended(F)) :
          /\ Leads(Extended(F), v, q \o news, y) /\ y.known = z.known /\ Quiet(y)
          /\ \A t \in Terminals :
                IF HasNews(t)
                  THEN NewsSeen(z, y, t, NewRows(term[t]), Len(Collected(term[t]).jobs))
                  ELSE y.mirror[t] = z.mirror[t]

\* All that a tick says takes a view to one that lists what was numbered.
LEMMA LeadsTick ==
    ASSUME Typed, NEW F, F \in Catalogues, Numbered(F), SpoolsListed(F),
           NEW v, NEW q \in Seq(Message), NEW z, Leads(F, v, q, z), Quiet(z)
    PROVE  TickLeads(F, v, q, z, FlattenSeq([t \in Terminals |-> PrinterNews(t)]))
<1> DEFINE n == NTerminals
           ss == [t \in Terminals |-> PrinterNews(t)]
           G == Extended(F)
           Said1(t, y) == IF HasNews(t)
                            THEN NewsSeen(z, y, t, NewRows(term[t]), Len(Collected(term[t]).jobs))
                            ELSE y.mirror[t] = z.mirror[t]
           At(k, y) == /\ y.known = z.known /\ Quiet(y)
                       /\ \A t \in Terminals : IF t <= k THEN Said1(t, y) ELSE y.mirror[t] = z.mirror[t]
<1>1. n \in Nat /\ Terminals = 1..n
  BY BoundAssumption DEF Terminals
<1>2. G \in Catalogues /\ Grown(F, G)
  BY ExtendedIs
<1>3. Leads(G, v, q, z) /\ z \in Good(G)
  BY <1>2, LeadsGrows, LeadsEnd
<1>4. ASSUME NEW t \in Terminals, HasNews(t)
      PROVE  LET rows == NewRows(term[t])
                 k == Len(Collected(term[t]).jobs)
             IN  /\ rows \in Seq(HeldJob) /\ k \in 0..MaxDocs /\ RowsOf(G[t], rows)
                 /\ PrinterNews(t) = Block(t, rows, k)
  <2>1. RowsOf(G[t], NewRows(term[t])) /\ Len(Collected(term[t]).jobs) \in 0..MaxDocs
    BY <1>4, ExtendedIs
  <2>2. NewRows(term[t]) \in Seq(HeldJob)
    BY TerminalIs, CollectedIs
  <2>3. PrinterNews(t) = Block(t, NewRows(term[t]), Len(Collected(term[t]).jobs))
    BY <1>4, PrinterNewsIs
  <2> QED
    BY <2>1, <2>2, <2>3
<1>5. \A t \in Terminals : ~HasNews(t) => PrinterNews(t) = <<>>
  BY DEF PrinterNews
<1>6. \A t \in Terminals : PrinterNews(t) \in Seq(Message)
  <2>1. ASSUME NEW t \in Terminals, HasNews(t) PROVE PrinterNews(t) \in Seq(Message)
    <3> DEFINE rows == NewRows(term[t])
               k == Len(Collected(term[t]).jobs)
    <3>1. rows \in Seq(HeldJob) /\ k \in 0..MaxDocs /\ PrinterNews(t) = Block(t, rows, k)
      BY <1>4, <2>1
    <3> HIDE DEF rows, k
    <3> QED
      BY <3>1, BlockTyped
  <2>2. <<>> \in Seq(Message)
    OBVIOUS
  <2> QED
    BY <1>5, <2>1, <2>2
<1>7. ss \in [1..n -> Seq(Message)] /\ \A t \in 1..n : ss[t] = PrinterNews(t)
  BY <1>1, <1>6
<1> HIDE DEF ss, G, n
<1>8. PICK g \in [0..n -> Seq(Message)] :
          /\ g[0] = <<>> /\ FlattenSeq(ss) = g[n]
          /\ \A i \in 1..n : g[i] = g[i - 1] \o ss[i]
  <2>1. n \in Nat /\ ss \in Blocks(n, Message)
    BY <1>1, <1>7 DEF Blocks
  <2>2. Flattened(n, ss, Message)
    BY <2>1, FlattenIs
  <2> QED
    BY <2>2 DEF Flattened
<1> DEFINE T == {k \in Nat : k <= n => \E y \in Good(G) : Leads(G, v, q \o g[k], y) /\ At(k, y)}
<1>9. 0 \in T
  <2>1. q \o g[0] = q
    BY <1>8, ConcatEmptySeq
  <2>2. \A t \in Terminals : ~(t <= 0)
    BY <1>1
  <2>3. At(0, z)
    BY <2>2
  <2> HIDE DEF At
  <2> QED
    BY <1>3, <2>1, <2>3
<1>10. ASSUME NEW k \in T PROVE k + 1 \in T
  <2> SUFFICES ASSUME k + 1 <= n
               PROVE  \E y \in Good(G) : Leads(G, v, q \o g[k + 1], y) /\ At(k + 1, y)
    OBVIOUS
  <2> DEFINE t == k + 1
             a == g[k]
             b == ss[t]
             p == q \o a
  <2>1. k \in Nat /\ k <= n /\ k \in 0..n /\ t \in 1..n /\ t - 1 = k
    BY <1>1
  <2>2. PICK y \in Good(G) : Leads(G, v, p, y) /\ At(k, y)
    BY <2>1
  <2>3. a \in Seq(Message) /\ b \in Seq(Message) /\ g[t] = a \o b /\ t \in Terminals
    <3>1. a \in Seq(Message) /\ b \in Seq(Message) /\ t \in Terminals
      BY <1>1, <1>7, <2>1
    <3>2. g[t] = g[t - 1] \o ss[t]
      BY <1>8, <2>1
    <3> QED
      BY <2>1, <3>1, <3>2
  <2> HIDE DEF a, b
  <2>4. p \in Seq(Message) /\ q \o g[t] = p \o b
    <3>1. q \o a \in Seq(Message)
      BY <2>3, ConcatProperties
    <3>2. (q \o a) \o b = q \o (a \o b)
      BY <2>3, ConcatAssociative
    <3> QED
      BY <2>3, <3>1, <3>2
  <2> HIDE DEF p
  <2>5. \A s \in Terminals : (s <= t <=> s <= k \/ s = t) /\ (s = t => ~(s <= k))
    BY <1>1, <2>1
  <2> HIDE DEF t, Said1
  <2>6. CASE ~HasNews(t)
    <3>1. b = <<>>
      BY <1>5, <1>7, <2>1, <2>3, <2>6 DEF b
    <3>2. p \o b = p
      BY <2>4, <3>1, ConcatEmptySeq
    <3>3. Said1(t, y)
      BY <2>2, <2>3, <2>5, <2>6 DEF Said1
    <3>4. At(t, y)
      BY <2>2, <2>5, <3>3
    <3>5. Leads(G, v, q \o g[t], y)
      BY <2>2, <2>4, <3>2
    <3> QED
      BY <3>4, <3>5 DEF t
  <2>7. CASE HasNews(t)
    <3> DEFINE rows == NewRows(term[t])
               N == Len(Collected(term[t]).jobs)
    <3>1. rows \in Seq(HeldJob) /\ N \in 0..MaxDocs /\ RowsOf(G[t], rows) /\ b = Block(t, rows, N)
      BY <1>4, <1>7, <2>1, <2>3, <2>7 DEF b
    <3> HIDE DEF rows, N, At
    <3>2. \E w \in Good(G) : /\ Leads(G, v, p \o Block(t, rows, N), w)
                             /\ w.known = y.known /\ OnlyOf(t, y, w)
                             /\ w.mirror[t].fetching = y.mirror[t].fetching
                             /\ NewsSeen(y, w, t, rows, N)
      BY <1>2, <2>2, <2>3, <2>4, <3>1, LeadsNews
    <3>3. PICK w \in Good(G) : /\ Leads(G, v, p \o Block(t, rows, N), w)
                               /\ w.known = y.known /\ OnlyOf(t, y, w)
                               /\ w.mirror[t].fetching = y.mirror[t].fetching
                               /\ NewsSeen(y, w, t, rows, N)
      BY <3>2
    <3>4. At(k, y)
      BY <2>2
    <3>5. Quiet(w)
      BY <3>3, <3>4 DEF At, Quiet, OnlyOf
    <3>6. y.mirror[t] = z.mirror[t] /\ y.known = z.known
      BY <2>3, <2>5, <3>4 DEF At
    <3>7. Said1(t, w)
      <4>1. NewsSeen(z, w, t, rows, N)
        BY <3>3, <3>6 DEF NewsSeen
      <4> QED
        BY <2>7, <4>1 DEF Said1, rows, N
    <3>8. \A s \in Terminals : s # t => w.mirror[s] = y.mirror[s]
      BY <3>3 DEF OnlyOf
    <3>9. \A s \in Terminals : s <= k => Said1(s, w)
      <4>1. \A s \in Terminals : s <= k => Said1(s, y) /\ s # t
        BY <2>5, <3>4 DEF At
      <4> QED
        BY <3>3, <3>8, <4>1 DEF Said1, NewsSeen
    <3>10. \A s \in Terminals : ~(s <= t) => w.mirror[s] = z.mirror[s]
      BY <2>5, <3>4, <3>8 DEF At
    <3>11. At(t, w)
      BY <2>5, <3>3, <3>5, <3>6, <3>7, <3>9, <3>10 DEF At
    <3>12. Leads(G, v, q \o g[t], w)
      BY <2>4, <3>1, <3>3
    <3> QED
      BY <3>11, <3>12 DEF t
  <2> QED
    BY <2>6, <2>7
<1>11. T = Nat
  <2> HIDE DEF T
  <2>1. T \in SUBSET Nat
    BY DEF T
  <2> QED
    BY <1>9, <1>10, <2>1, Induction
<1>12. PICK y \in Good(G) : Leads(G, v, q \o g[n], y) /\ At(n, y)
  <2>1. n \in T /\ n <= n
    <3> HIDE DEF T
    <3> QED
      BY <1>1, <1>11
  <2> HIDE DEF At
  <2> QED
    BY <2>1
<1>13. \A t \in Terminals : t <= n
  BY <1>1
<1>14. q \o FlattenSeq(ss) \in Seq(Message)
  <2>1. g[n] \in Seq(Message)
    BY <1>1
  <2> QED
    BY <1>8, <2>1, ConcatProperties
<1>15. \A t \in Terminals : Said1(t, y)
  BY <1>12, <1>13
<1>16. y.known = z.known /\ Quiet(y) /\ Leads(G, v, q \o FlattenSeq(ss), y)
  BY <1>8, <1>12
<1> HIDE DEF At, T
<1> QED
  BY <1>14, <1>15, <1>16 DEF TickLeads, ss, G, Said1

(***************************************************************************)
(* Each action keeps the invariant.                                        *)
(***************************************************************************)
\* What is held of t is shown after a step if it was before.
StillShown(t) ==
    /\ t \in Live /\ Range(term'[t].jobs) \subseteq Range(term[t].jobs)
    /\ ~HasNews(t)' => ~HasNews(t) /\ term'[t].jobs = term[t].jobs
HasTheNews(c) == reader[c].attached /\ reader[c].told

LEMMA StillForeseen ==
    ASSUME NEW F, NEW c \in Clients, Foreseen(F, c), Now(c)' = Now(c), down'[c] = down[c],
           HasTheNews(c)' => HasTheNews(c) /\ \A t \in Live' : StillShown(t)
    PROVE  Foreseen(F, c)'
<1>1. PICK z \in Good(F) : /\ Leads(F, Now(c), down[c], z) /\ Quiet(z)
                           /\ reader[c].attached /\ reader[c].told => \A t \in Live : Shows(z, t)
  BY DEF Foreseen
<1>2. Leads(F, Now(c)', down'[c], z)
  BY <1>1
<1>3. ASSUME HasTheNews(c)', NEW t \in Live' PROVE Shows(z, t)'
  <2>1. Shows(z, t) /\ StillShown(t)
    BY <1>1, <1>3 DEF HasTheNews, StillShown
  <2> QED
    BY <2>1 DEF Shows, StillShown
<1> QED
  BY <1>1, <1>2, <1>3 DEF Foreseen, HasTheNews

\* Steps that leave terminals, readers, lists and queues alone.
LEMMA OwnStep ==
    ASSUME Base, NEW F, Agreed(F), UNCHANGED <<term, reader, mirror, down, printed>>,
           app' \in [Clients -> App], \A c \in Clients : app'[c].known = app[c].known,
           ChoicesListed(F)', SavedIsTheDocument'
    PROVE  Base' /\ Agreed(F)'
<1>1. Typed'
  BY DEF Base, Typed
<1>2. ToldIsFirst'
  BY DEF Base, ToldIsFirst, FirstReader
<1>3. Numbered(F)' /\ SpoolsListed(F)'
  BY DEF Agreed, Numbered, SpoolsListed
<1>4. ASSUME NEW c \in Clients PROVE Foreseen(F, c)'
  <2>1. Foreseen(F, c)
    BY DEF Agreed
  <2>2. Now(c)' = Now(c) /\ down'[c] = down[c] /\ HasTheNews(c)' = HasTheNews(c)
    BY DEF Now, HasTheNews
  <2>3. \A t \in Live' : StillShown(t)
    BY DEF Live, StillShown, HasNews
  <2> QED
    BY <2>1, <2>2, <2>3, StillForeseen
<1> QED
  BY <1>1, <1>2, <1>3, <1>4 DEF Base, Agreed

\* What a client lists now is of the catalogue.
LEMMA GoodNow ==
    ASSUME Typed, NEW F, Agreed(F), NEW c \in Clients
    PROVE  Now(c) \in Good(F) /\ \A t \in Terminals : GoodMirror(F[t], mirror[c][t])
<1>1. down[c] \in Seq(Message)
  BY DEF Typed
<1>2. Now(c) \in Good(F)
  <2>1. PICK z : Leads(F, Now(c), down[c], z)
    BY DEF Agreed, Foreseen
  <2> QED
    BY <1>1, <2>1, LeadsEnd
<1>3. Now(c).mirror = mirror[c]
  BY DEF Now
<1> QED
  BY <1>2, <1>3 DEF Good

LEMMA AppIs ==
    ASSUME Typed, NEW c \in Clients
    PROVE  /\ app[c] \in App /\ app[c].known \in SUBSET Terminals /\ app[c].showing \in SUBSET Terminals
           /\ app[c].dialog.term \in 0..NTerminals /\ app[c].dialog.listed \in Seq(HeldJob)
           /\ app[c].pending.term \in 0..NTerminals
           /\ mirror[c] \in [Terminals -> Mirror] /\ down[c] \in Seq(Message)
           /\ \A t \in Terminals : mirror[c][t].jobs \in Seq(HeldJob)
BY DEF Typed, App, Mirror

LEMMA StepShowPrintOutput ==
    ASSUME Base, NEW F, Agreed(F), NEW c \in Clients, NEW t \in Terminals, ShowPrintOutput(c, t)
    PROVE  Base' /\ Agreed(F)'
<1> DEFINE dialog == [term |-> t, listed |-> Listed(c, t)]
<1>1. app' = [app EXCEPT ![c] = [app[c] EXCEPT !.dialog = dialog]]
  BY DEF ShowPrintOutput
<1>2. Typed /\ t \in 1..NTerminals /\ t \in 0..NTerminals /\ t # 0
  BY BoundAssumption DEF Base, Terminals
<1>3. dialog.term = t /\ dialog.listed = mirror[c][t].jobs
      /\ dialog \in [term : 0..NTerminals, listed : Seq(HeldJob)]
  BY <1>2, AppIs DEF Listed
<1> HIDE DEF dialog
<1>4. app \in [Clients -> App] /\ app[c] \in App
  BY <1>2 DEF Typed
<1>5. app' \in [Clients -> App] /\ \A d \in Clients : app'[d].known = app[d].known
  BY <1>1, <1>3, <1>4 DEF App
<1>6. /\ app'[c].dialog = dialog /\ app'[c].pending = app[c].pending
      /\ \A d \in Clients : d # c => app'[d] = app[d]
  BY <1>1, <1>4 DEF App
<1>7. RowsOf(F[t], mirror[c][t].jobs)
  BY <1>2, GoodNow DEF GoodMirror
<1>8. ChoicesListed(F)'
  <2> SUFFICES ASSUME NEW d \in Clients
               PROVE  /\ app'[d].dialog.term = 0 => app'[d].dialog.listed = <<>>
                      /\ app'[d].dialog.term # 0 => RowsOf(F[app'[d].dialog.term], app'[d].dialog.listed)
                      /\ app'[d].pending.term # 0 => InList(F[app'[d].pending.term], app'[d].pending.row)
    BY DEF ChoicesListed
  <2>1. CASE d = c
    BY <1>2, <1>3, <1>6, <1>7, <2>1 DEF Agreed, ChoicesListed
  <2>2. CASE d # c
    BY <1>6, <2>2 DEF Agreed, ChoicesListed
  <2> QED
    BY <2>1, <2>2
<1>9. SavedIsTheDocument'
  BY DEF ShowPrintOutput, Base, SavedIsTheDocument
<1>10. UNCHANGED <<term, reader, mirror, down, printed>>
  BY DEF ShowPrintOutput
<1> QED
  BY <1>5, <1>8, <1>9, <1>10, OwnStep

LEMMA DialogOver ==
    ASSUME Base, NEW F, Agreed(F), NEW c \in Clients,
           app' = [app EXCEPT ![c].dialog = NoDialog]
    PROVE  /\ app' \in [Clients -> App] /\ \A d \in Clients : app'[d].known = app[d].known
           /\ ChoicesListed(F)'
<1>1. app' = [app EXCEPT ![c] = [app[c] EXCEPT !.dialog = NoDialog]]
  OBVIOUS
<1>2. app \in [Clients -> App] /\ app[c] \in App
  BY DEF Base, Typed
<1>3. NoDialog \in [term : 0..NTerminals, listed : Seq(HeldJob)] /\ NoDialog.term = 0
      /\ NoDialog.listed = <<>>
  BY BoundAssumption DEF NoDialog
<1>4. app' \in [Clients -> App] /\ \A d \in Clients : app'[d].known = app[d].known
  <2> DEFINE a == app[c]
             e == NoDialog
             b == [a EXCEPT !.dialog = e]
  <2>1. a \in App /\ e \in [term : 0..NTerminals, listed : Seq(HeldJob)]
    BY <1>2, <1>3
  <2> HIDE DEF a, e
  <2>2. b \in App /\ b.known = a.known
    BY <2>1 DEF App
  <2>3. app' = [app EXCEPT ![c] = b]
    BY <1>1 DEF a, e
  <2> HIDE DEF b
  <2> QED
    BY <1>2, <2>2, <2>3 DEF a
<1>5. /\ app'[c].dialog = NoDialog /\ app'[c].pending = app[c].pending
      /\ \A d \in Clients : d # c => app'[d] = app[d]
  BY <1>1, <1>2 DEF App
<1>6. ChoicesListed(F)'
  <2> SUFFICES ASSUME NEW d \in Clients
               PROVE  /\ app'[d].dialog.term = 0 => app'[d].dialog.listed = <<>>
                      /\ app'[d].dialog.term # 0 => RowsOf(F[app'[d].dialog.term], app'[d].dialog.listed)
                      /\ app'[d].pending.term # 0 => InList(F[app'[d].pending.term], app'[d].pending.row)
    BY DEF ChoicesListed
  <2>1. CASE d = c
    BY <1>3, <1>5, <2>1 DEF Agreed, ChoicesListed
  <2>2. CASE d # c
    BY <1>5, <2>2 DEF Agreed, ChoicesListed
  <2> QED
    BY <2>1, <2>2
<1> QED
  BY <1>4, <1>6

LEMMA StepCloseDialog ==
    ASSUME Base, NEW F, Agreed(F), NEW c \in Clients, CloseDialog(c)
    PROVE  Base' /\ Agreed(F)'
<1>1. app' = [app EXCEPT ![c].dialog = NoDialog] /\ UNCHANGED <<term, reader, mirror, down, saves, printed>>
  BY DEF CloseDialog
<1>2. SavedIsTheDocument'
  BY <1>1 DEF Base, SavedIsTheDocument
<1> QED
  BY <1>1, <1>2, DialogOver, OwnStep

\* What a mirror has fetched of a row that was chosen is that row's text.
LEMMA FetchedText ==
    ASSUME Base, NEW F, Agreed(F), NEW c \in Clients, NEW t \in Terminals, NEW row,
           InList(F[t], row), HasText(c, t, row.job)
    PROVE  mirror[c][t].fetched[row.job] = Text(row)
BY GoodNow DEF Base, GoodMirror, HasText, InList

LEMMA StepFinishPendingSave ==
    ASSUME Base, NEW F, Agreed(F), NEW c \in Clients, FinishPendingSave(c)
    PROVE  Base' /\ Agreed(F)'
<1> DEFINE p == app[c].pending
           t == p.term
           text == mirror[c][t].fetched[p.row.job]
<1>1. /\ t # 0 /\ HasText(c, t, p.row.job) /\ saves' = Written(p.row, p.row.job, text)
      /\ app' = [app EXCEPT ![c].pending = NoPending]
      /\ UNCHANGED <<term, reader, mirror, down, printed>>
  BY DEF FinishPendingSave
<1>2. Typed /\ t \in Terminals /\ InList(F[t], p.row)
  <2>1. Typed
    BY DEF Base
  <2>2. t \in 0..NTerminals
    BY <2>1, AppIs
  <2>3. t # 0 => InList(F[t], p.row)
    BY DEF Agreed, ChoicesListed
  <2> HIDE DEF p
  <2>4. t \in Terminals
    BY <1>1, <2>2, BoundAssumption DEF Terminals
  <2> QED
    BY <1>1, <2>1, <2>3, <2>4
<1>3. text = Text(p.row)
  <2> HIDE DEF p
  <2> QED
    BY <1>1, <1>2, FetchedText
<1>4. SavedIsTheDocument'
  <2> HIDE DEF p, text, t
  <2>1. saves' = saves \cup {[path |-> AutoName(0, p.row.job), asked |-> p.row, text |-> text]}
    BY <1>1 DEF Written
  <2> QED
    BY <1>3, <2>1 DEF Base, SavedIsTheDocument
<1>5. app' = [app EXCEPT ![c] = [app[c] EXCEPT !.pending = NoPending]]
  BY <1>1
<1>6. app \in [Clients -> App] /\ app[c] \in App
  BY <1>2 DEF Typed
<1>7. NoPending \in [term : 0..NTerminals, row : HeldJob \cup {NoRow}] /\ NoPending.term = 0
  BY BoundAssumption DEF NoPending
<1>8. app' \in [Clients -> App] /\ \A d \in Clients : app'[d].known = app[d].known
  BY <1>5, <1>6, <1>7 DEF App
<1>9. /\ app'[c].pending = NoPending /\ app'[c].dialog = app[c].dialog
      /\ \A d \in Clients : d # c => app'[d] = app[d]
  BY <1>5, <1>6 DEF App
<1>10. ChoicesListed(F)'
  <2> SUFFICES ASSUME NEW d \in Clients
               PROVE  /\ app'[d].dialog.term = 0 => app'[d].dialog.listed = <<>>
                      /\ app'[d].dialog.term # 0 => RowsOf(F[app'[d].dialog.term], app'[d].dialog.listed)
                      /\ app'[d].pending.term # 0 => InList(F[app'[d].pending.term], app'[d].pending.row)
    BY DEF ChoicesListed
  <2>1. CASE d = c
    BY <1>7, <1>9, <2>1 DEF Agreed, ChoicesListed
  <2>2. CASE d # c
    BY <1>9, <2>2 DEF Agreed, ChoicesListed
  <2> QED
    BY <2>1, <2>2
<1> QED
  BY <1>1, <1>4, <1>8, <1>10, OwnStep

LEMMA StepSave ==
    ASSUME Base, NEW F, Agreed(F), NEW c \in Clients, NEW i \in DOMAIN app[c].dialog.listed, Save(c, i)
    PROVE  Base' /\ Agreed(F)'
<1> DEFINE a == app[c]
           t == a.dialog.term
           row == a.dialog.listed[i]
           text == mirror[c][t].fetched[row.job]
           has == HasText(c, t, row.job)
           wanted == t \in a.showing /\ row.pieces > 0
           p == IF wanted /\ ~has THEN [term |-> t, row |-> row] ELSE a.pending
           q == IF wanted /\ ~has THEN down[c] \o Fetched(t, row.job) ELSE down[c]
           e == [[a EXCEPT !.dialog = NoDialog] EXCEPT !.pending = p]
<1>1. Typed /\ F \in Catalogues /\ SpoolsListed(F)
  BY DEF Base, Agreed
<1>2. /\ a \in App /\ a.dialog.listed \in Seq(HeldJob) /\ t \in 0..NTerminals
      /\ a.showing \subseteq Terminals /\ NTerminals \in Nat /\ down[c] \in Seq(Message)
  BY <1>1, AppIs, BoundAssumption
<1>3. row \in HeldJob /\ a.dialog.listed # <<>>
  <2> DEFINE l == a.dialog.listed
  <2>1. l \in Seq(HeldJob) /\ i \in DOMAIN l
    BY <1>2
  <2> HIDE DEF l
  <2>2. l[i] \in HeldJob /\ l # <<>>
    BY <2>1, LenProperties, ElementOfSeq
  <2> QED
    BY <2>2 DEF l
<1>4. t # 0 /\ InList(F[t], row) /\ t \in Terminals
  <2>1. t # 0 /\ RowsOf(F[t], a.dialog.listed)
    BY <1>3 DEF Agreed, ChoicesListed
  <2>2. t \in Terminals
    <3> HIDE DEF t
    <3> QED
      BY <1>2, <2>1 DEF Terminals
  <2> QED
    BY <2>1, <2>2 DEF RowsOf
<1>5. [row EXCEPT !.job = row.job] = row
  <2> HIDE DEF row
  <2> QED
    BY <1>3 DEF HeldJob
<1>6. /\ saves' = IF wanted /\ has THEN Written(row, row.job, text) ELSE saves
      /\ down' = IF wanted /\ ~has THEN [down EXCEPT ![c] = @ \o Fetched(t, row.job)] ELSE down
      /\ app' = [app EXCEPT ![c].dialog = NoDialog,
                            ![c].pending = IF wanted /\ ~has
                                   THEN [term |-> t, row |-> [row EXCEPT !.job = row.job]] ELSE @]
      /\ UNCHANGED <<term, reader, mirror, printed>>
  BY DEF Save, Chosen
<1>7. app \in [Clients -> App] /\ down \in [Clients -> Seq(Message)]
  BY <1>1 DEF Typed
<1>8. p \in [term : 0..NTerminals, row : HeldJob \cup {NoRow}]
  <2>1. a.pending \in [term : 0..NTerminals, row : HeldJob \cup {NoRow}]
    BY <1>2 DEF App
  <2> HIDE DEF t, row, wanted, has, a
  <2> QED
    BY <1>2, <1>3, <2>1
<1>9. app' = [app EXCEPT ![c] = e]
  <2> DEFINE r == [term |-> t, row |-> row]
             now == wanted /\ ~has
  <2>1. app' = [app EXCEPT ![c].dialog = NoDialog, ![c].pending = IF now THEN r ELSE @]
    BY <1>5, <1>6
  <2>2. p = IF now THEN r ELSE a.pending
    OBVIOUS
  <2> HIDE DEF r, now, p
  <2> QED
    BY <1>2, <1>7, <2>1, <2>2 DEF App
<1>10. down' = [down EXCEPT ![c] = q]
  <2> DEFINE f == Fetched(t, row.job)
             now == wanted /\ ~has
  <2>1. down' = (IF now THEN [down EXCEPT ![c] = @ \o f] ELSE down) /\ q = IF now THEN down[c] \o f ELSE down[c]
    BY <1>6
  <2> HIDE DEF f, now, q
  <2> QED
    BY <1>7, <2>1
<1> HIDE DEF p, q
<1>11. /\ e \in App /\ e.known = a.known /\ e.dialog = NoDialog /\ e.pending = p
  <2> DEFINE n == NoDialog
             u == [a EXCEPT !.dialog = n]
  <2>1. n \in [term : 0..NTerminals, listed : Seq(HeldJob)]
    BY <1>2 DEF NoDialog
  <2> HIDE DEF a, n
  <2>2. u \in App /\ u.known = a.known /\ u.dialog = n
    BY <1>2, <2>1 DEF App
  <2> HIDE DEF u
  <2>3. [u EXCEPT !.pending = p] \in App /\ [u EXCEPT !.pending = p].known = a.known
        /\ [u EXCEPT !.pending = p].dialog = n /\ [u EXCEPT !.pending = p].pending = p
    BY <1>8, <2>2 DEF App
  <2> QED
    BY <2>3 DEF u, n
<1> HIDE DEF e
<1>12. /\ app' \in [Clients -> App] /\ app'[c] = e /\ \A d \in Clients : d # c => app'[d] = app[d]
  BY <1>7, <1>9, <1>11
<1>13. \A d \in Clients : Now(d)' = Now(d)
  BY <1>6, <1>11, <1>12 DEF Now
<1>14. ChoicesListed(F)'
  <2> SUFFICES ASSUME NEW d \in Clients
               PROVE  /\ app'[d].dialog.term = 0 => app'[d].dialog.listed = <<>>
                      /\ app'[d].dialog.term # 0 => RowsOf(F[app'[d].dialog.term], app'[d].dialog.listed)
                      /\ app'[d].pending.term # 0 => InList(F[app'[d].pending.term], app'[d].pending.row)
    BY DEF ChoicesListed
  <2>1. CASE d = c
    <3>1. p.term # 0 => InList(F[p.term], p.row)
      <4>1. a.pending.term # 0 => InList(F[a.pending.term], a.pending.row)
        BY DEF Agreed, ChoicesListed
      <4> QED
        BY <1>4, <4>1 DEF p
    <3> QED
      BY <1>11, <1>12, <2>1, <3>1 DEF NoDialog
  <2>2. CASE d # c
    BY <1>12, <2>2 DEF Agreed, ChoicesListed
  <2> QED
    BY <2>1, <2>2
<1>15. SavedIsTheDocument'
  <2>1. has => text = Text(row)
    <3> HIDE DEF row, t, wanted, p, q, e, a
    <3> QED
      BY <1>4, FetchedText
  <2> HIDE DEF has, wanted, text, row
  <2>2. saves' = saves \/ (text = Text(row) /\
             saves' = saves \cup {[path |-> AutoName(0, row.job), asked |-> row, text |-> text]})
    BY <1>6, <2>1 DEF Written
  <2> QED
    BY <2>2 DEF Base, SavedIsTheDocument
<1>16. PICK z \in Good(F) : /\ Leads(F, Now(c), down[c], z) /\ Quiet(z)
                            /\ reader[c].attached /\ reader[c].told => \A s \in Live : Shows(z, s)
  BY DEF Agreed, Foreseen
<1>17. q \in Seq(Message) /\ \E y \in Good(F) : Leads(F, Now(c), q, y) /\ SameLists(z, y) /\ Quiet(y)
  <2>1. CASE q = down[c]
    BY <1>2, <1>16, <2>1 DEF SameLists
  <2>2. CASE q # down[c]
    <3>1. wanted /\ q = down[c] \o Fetched(t, row.job)
      BY <2>2 DEF q
    <3>2. row.pieces # 0
      <4>1. row.pieces \in Nat
        BY <1>3, TextIs
      <4>2. row.pieces > 0
        BY <3>1
      <4> HIDE DEF row
      <4> QED
        BY <4>1, <4>2
    <3> HIDE DEF t, row
    <3>3. Fetched(t, row.job) # <<>>
      BY <1>2, <2>2, <3>1, ConcatEmptySeq
    <3>4. Fetched(t, row.job) = Chunks(t, row)
      BY <1>1, <1>3, <1>4, <3>2, <3>3, FetchedIs
    <3>5. q \in Seq(Message)
      BY <1>2, <1>3, <1>4, <3>1, <3>4, ChunksTyped, ConcatProperties
    <3> QED
      BY <1>1, <1>2, <1>3, <1>4, <1>16, <3>1, <3>2, <3>4, <3>5, LeadsFetch
  <2> QED
    BY <2>1, <2>2
<1>18. down' \in [Clients -> Seq(Message)] /\ down'[c] = q /\ \A d \in Clients : d # c => down'[d] = down[d]
  BY <1>7, <1>10, <1>17
<1>19. Typed'
  BY <1>1, <1>6, <1>12, <1>18 DEF Typed
<1>20. ASSUME NEW d \in Clients PROVE Foreseen(F, d)'
  <2>1. CASE d = c
    <3>1. PICK y \in Good(F) : Leads(F, Now(c), q, y) /\ SameLists(z, y) /\ Quiet(y)
      BY <1>17
    <3>2. \A s \in Live' : s \in Live /\ (Shows(z, s) => Shows(y, s)')
      BY <1>6, <3>1 DEF Live, Shows, SameLists, HasNews
    <3>3. Leads(F, Now(c)', down'[c], y)
      BY <1>13, <1>18, <3>1
    <3> QED
      BY <1>6, <1>16, <2>1, <3>1, <3>2, <3>3 DEF Foreseen
  <2>2. CASE d # c
    <3>1. Foreseen(F, d) /\ HasTheNews(d)' = HasTheNews(d)
      BY <1>6 DEF Agreed, HasTheNews
    <3>2. \A s \in Live' : StillShown(s)
      BY <1>6 DEF Live, StillShown, HasNews
    <3> QED
      BY <1>13, <1>18, <2>2, <3>1, <3>2, StillForeseen
  <2> QED
    BY <2>1, <2>2
<1>21. ToldIsFirst' /\ Numbered(F)' /\ SpoolsListed(F)'
  BY <1>6 DEF Base, ToldIsFirst, FirstReader, Agreed, Numbered, SpoolsListed
<1> QED
  BY <1>1, <1>14, <1>15, <1>19, <1>20, <1>21 DEF Base, Agreed

\* One terminal changes, but for its numbers; its jobs stay or go.
LEMMA OneTerminal ==
    ASSUME Typed, NEW F, Numbered(F), SpoolsListed(F), NEW t \in Terminals, NEW x \in Terminal,
           x.next = term[t].next, x.jobs = term[t].jobs \/ x.jobs = <<>>,
           term' = [term EXCEPT ![t] = x],
           printed' \in 0..MaxDocs, printed' >= printed, x.next + Len(x.ready) <= printed' + 1
    PROVE  /\ term' \in [Terminals -> Terminal] /\ term'[t] = x
           /\ \A s \in Terminals : s # t => term'[s] = term[s]
           /\ \A s \in Terminals : term'[s].next + Len(term'[s].ready) <= printed' + 1
           /\ \A s \in Terminals : \A i, j \in DOMAIN term'[s].jobs :
                 i < j => term'[s].jobs[i].job < term'[s].jobs[j].job
           /\ Numbered(F)' /\ SpoolsListed(F)'
<1>1. /\ term' \in [Terminals -> Terminal] /\ term'[t] = x
      /\ \A s \in Terminals : s # t => term'[s] = term[s]
  BY DEF Typed
<1>2. ASSUME NEW s \in Terminals, s # t
      PROVE  term[s].next + Len(term[s].ready) <= printed' + 1
  <2> DEFINE n == term[s].next
             k == Len(term[s].ready)
  <2>1. n \in 1..(MaxDocs + 1) /\ k \in Nat /\ n + k <= printed + 1
    BY TerminalIs
  <2> DEFINE p == printed
             r == printed'
  <2>2. p \in Int /\ r \in Int /\ p <= r
    <3>1. p \in 0..MaxDocs /\ r \in 0..MaxDocs /\ MaxDocs \in Nat
      BY BoundAssumption DEF Typed
    <3> QED
      BY <3>1
  <2>4. n \in Int /\ k \in Int /\ n + k <= p + 1
    BY <2>1, BoundAssumption
  <2> HIDE DEF n, k, p, r
  <2>3. n + k <= r + 1
    BY <2>2, <2>4
  <2> QED
    BY <2>3 DEF n, k, r
<1>3. \A s \in Terminals : term'[s].next + Len(term'[s].ready) <= printed' + 1
  BY <1>1, <1>2
<1>4. \A s \in Terminals : term'[s].next = term[s].next
  BY <1>1
<1>5. \A s \in Terminals : term'[s].jobs = term[s].jobs \/ term'[s].jobs = <<>>
  BY <1>1
<1>6. DOMAIN <<>> = {}
  OBVIOUS
<1>7. \A s \in Terminals : Rising(term[s].jobs)
  BY DEF Typed, Rising
<1>8. \A s \in Terminals : Rising(term'[s].jobs)
  <2>1. Rising(<<>>)
    BY <1>6 DEF Rising
  <2> QED
    BY <1>5, <1>7, <2>1
<1>9. SpoolsListed(F)'
  BY <1>5, <1>6 DEF SpoolsListed, RowsOf
<1>10. Numbered(F)'
  BY <1>4 DEF Numbered
<1> QED
  BY <1>1, <1>3, <1>8, <1>9, <1>10 DEF Rising

LEMMA NoJobs ==
    /\ <<>> \in Seq(HeldJob) /\ <<>> \in Seq(Document) /\ Len(<<>>) = 0 /\ Range(<<>>) = {}
BY DEF Range

LEMMA StepDiscardAll ==
    ASSUME Base, NEW F, Agreed(F), NEW c \in Clients, NEW t \in Terminals, DiscardAll(c, t)
    PROVE  Base' /\ Agreed(F)'
<1>1. /\ app' = [app EXCEPT ![c].dialog = NoDialog]
      /\ UNCHANGED <<reader, mirror, down, saves, printed>>
      /\ term' = term \/ term' = [term EXCEPT ![t].jobs = <<>>, ![t].news = TRUE]
  BY DEF DiscardAll
<1>2. Typed /\ Numbered(F) /\ SpoolsListed(F)
  BY DEF Base, Agreed
<1>3. /\ app' \in [Clients -> App] /\ \A d \in Clients : app'[d].known = app[d].known
      /\ ChoicesListed(F)'
  BY <1>1, DialogOver
<1>4. SavedIsTheDocument'
  BY <1>1 DEF Base, SavedIsTheDocument
<1>5. CASE term' = term
  BY <1>1, <1>3, <1>4, <1>5, OwnStep
<1>6. CASE term' = [term EXCEPT ![t].jobs = <<>>, ![t].news = TRUE]
  <2> DEFINE a == term[t]
             u == [a EXCEPT !.jobs = <<>>]
             x == [u EXCEPT !.news = TRUE]
  <2>1. a \in Terminal /\ a.next + Len(a.ready) <= printed + 1
    BY <1>2, TerminalIs
  <2> HIDE DEF a
  <2>2. u \in Terminal /\ u.next = a.next /\ u.ready = a.ready /\ u.jobs = <<>> /\ u.live = a.live
    BY <2>1, NoJobs DEF Terminal
  <2>3. term' = [term EXCEPT ![t] = x]
    <3>1. term \in [Terminals -> Terminal]
      BY <1>2 DEF Typed
    <3> QED
      BY <1>6, <2>1, <3>1 DEF Terminal, a
  <2> HIDE DEF u
  <2>4. x \in Terminal /\ x.next = a.next /\ x.ready = a.ready /\ x.jobs = <<>> /\ x.live = a.live
        /\ x.news = TRUE
    BY <2>2 DEF Terminal
  <2> HIDE DEF x
  <2>5. printed' \in 0..MaxDocs /\ printed' >= printed /\ x.next + Len(x.ready) <= printed' + 1
    <3>1. printed \in 0..MaxDocs /\ printed' = printed /\ MaxDocs \in Nat
      BY <1>1, <1>2, BoundAssumption DEF Typed
    <3> QED
      BY <2>1, <2>4, <3>1
  <2>6. x.next = term[t].next /\ x.live = term[t].live
    BY <2>4 DEF a
  <2>7. /\ term' \in [Terminals -> Terminal] /\ term'[t] = x
        /\ \A s \in Terminals : s # t => term'[s] = term[s]
        /\ \A s \in Terminals : term'[s].next + Len(term'[s].ready) <= printed' + 1
        /\ \A s \in Terminals : \A i, j \in DOMAIN term'[s].jobs :
              i < j => term'[s].jobs[i].job < term'[s].jobs[j].job
        /\ Numbered(F)' /\ SpoolsListed(F)'
    BY <1>2, <2>3, <2>4, <2>5, <2>6, OneTerminal
  <2>8. Typed'
    BY <1>1, <1>2, <1>3, <2>7 DEF Typed
  <2>9. ASSUME NEW s \in Live' PROVE StillShown(s)
    <3>1. CASE s = t
      BY <2>4, <2>6, <2>7, <3>1, NoJobs DEF StillShown, Live, HasNews
    <3>2. CASE s # t
      BY <2>7, <3>2 DEF StillShown, Live, HasNews
    <3> QED
      BY <3>1, <3>2
  <2>10. ASSUME NEW d \in Clients PROVE Foreseen(F, d)'
    <3>1. Foreseen(F, d)
      BY DEF Agreed
    <3>2. Now(d)' = Now(d) /\ down'[d] = down[d] /\ HasTheNews(d)' = HasTheNews(d)
      BY <1>1, <1>3 DEF Now, HasTheNews
    <3> QED
      BY <2>9, <3>1, <3>2, StillForeseen
  <2>11. ToldIsFirst'
    BY <1>1 DEF Base, ToldIsFirst, FirstReader
  <2> QED
    BY <1>3, <1>4, <2>7, <2>8, <2>10, <2>11 DEF Base, Agreed
<1> QED
  BY <1>1, <1>5, <1>6

LEMMA StepEndDocument ==
    ASSUME Base, NEW F, Agreed(F), NEW t \in Terminals, NEW k \in 1..(SpoolLimit + 1), EndDocument(t, k)
    PROVE  Base' /\ Agreed(F)'
<1> DEFINE a == term[t]
           pieces == IF k > SpoolLimit THEN 0 ELSE k
           d == [doc |-> printed + 1, pieces |-> pieces]
           ready == Append(a.ready, d)
           u == [a EXCEPT !.ready = ready]
           x == [u EXCEPT !.damage = TRUE]
<1>1. Typed /\ Numbered(F) /\ SpoolsListed(F) /\ F \in Catalogues /\ ChoicesListed(F)
  BY DEF Base, Agreed
<1>2. /\ printed < MaxDocs /\ printed' = printed + 1
      /\ term' = [term EXCEPT ![t].ready = Append(@, d), ![t].damage = TRUE]
      /\ UNCHANGED <<reader, mirror, app, down, saves>>
  BY DEF EndDocument
<1>3. printed \in 0..MaxDocs /\ MaxDocs \in Nat /\ SpoolLimit \in Nat
  BY <1>1, BoundAssumption DEF Typed
<1>4. d \in Document
  <2>1. pieces \in 0..SpoolLimit
    BY <1>3
  <2>2. printed + 1 \in 1..MaxDocs
    BY <1>2, <1>3
  <2> HIDE DEF pieces
  <2> QED
    BY <2>1, <2>2 DEF Document
<1>5. a \in Terminal /\ a.next + Len(a.ready) <= printed + 1 /\ a.ready \in Seq(Document)
      /\ a.next \in 1..(MaxDocs + 1)
  <2>1. a \in Terminal /\ a.next + Len(a.ready) <= printed + 1
    BY <1>1, TerminalIs
  <2> QED
    BY <2>1 DEF Terminal
<1>6. term' = [term EXCEPT ![t] = x]
  <2>1. term \in [Terminals -> Terminal]
    BY <1>1 DEF Typed
  <2> HIDE DEF d
  <2> QED
    BY <1>2, <1>5, <2>1 DEF Terminal
<1> HIDE DEF a, d
<1>7. ready \in Seq(Document) /\ Len(ready) = Len(a.ready) + 1 /\ Len(a.ready) \in Nat
  BY <1>4, <1>5, AppendProperties, LenProperties
<1> HIDE DEF ready
<1>8. u \in Terminal /\ u.next = a.next /\ u.ready = ready /\ u.jobs = a.jobs /\ u.live = a.live
      /\ u.news = a.news
  BY <1>5, <1>7 DEF Terminal
<1> HIDE DEF u
<1>9. x \in Terminal /\ x.next = a.next /\ x.ready = ready /\ x.jobs = a.jobs /\ x.live = a.live
      /\ x.damage = TRUE
  BY <1>8 DEF Terminal
<1> HIDE DEF x
<1>10. printed' \in 0..MaxDocs /\ printed' >= printed /\ x.next + Len(x.ready) <= printed' + 1
  <2>1. printed' \in 0..MaxDocs /\ printed' >= printed
    BY <1>2, <1>3
  <2> DEFINE n == a.next
             m == Len(a.ready)
  <2>2. n \in 1..(MaxDocs + 1) /\ m \in Nat /\ n + m <= printed + 1
        /\ x.next = n /\ Len(x.ready) = m + 1
    BY <1>5, <1>7, <1>9
  <2> HIDE DEF n, m
  <2>3. n + (m + 1) <= printed' + 1
    BY <1>2, <1>3, <2>2
  <2> QED
    BY <2>1, <2>2, <2>3
<1>11. x.next = term[t].next /\ x.live = term[t].live /\ x.jobs = term[t].jobs
  BY <1>9 DEF a
<1>12. /\ term' \in [Terminals -> Terminal] /\ term'[t] = x
       /\ \A s \in Terminals : s # t => term'[s] = term[s]
       /\ \A s \in Terminals : term'[s].next + Len(term'[s].ready) <= printed' + 1
       /\ \A s \in Terminals : \A i, j \in DOMAIN term'[s].jobs :
             i < j => term'[s].jobs[i].job < term'[s].jobs[j].job
       /\ Numbered(F)' /\ SpoolsListed(F)'
  BY <1>1, <1>6, <1>9, <1>10, <1>11, OneTerminal
<1>13. Typed'
  BY <1>1, <1>2, <1>10, <1>12 DEF Typed
<1>14. ASSUME NEW s \in Live' PROVE StillShown(s)
  <2>1. CASE s = t
    BY <1>9, <1>11, <1>12, <2>1 DEF StillShown, Live, HasNews
  <2>2. CASE s # t
    BY <1>12, <2>2 DEF StillShown, Live, HasNews
  <2> QED
    BY <2>1, <2>2
<1>15. ASSUME NEW e \in Clients PROVE Foreseen(F, e)'
  <2>1. Foreseen(F, e)
    BY DEF Agreed
  <2>2. Now(e)' = Now(e) /\ down'[e] = down[e] /\ HasTheNews(e)' = HasTheNews(e)
    BY <1>2 DEF Now, HasTheNews
  <2> QED
    BY <1>14, <2>1, <2>2, StillForeseen
<1>16. ToldIsFirst' /\ SavedIsTheDocument'
  BY <1>2 DEF Base, ToldIsFirst, FirstReader, SavedIsTheDocument
<1>17. ChoicesListed(F)'
  BY <1>1, <1>2 DEF ChoicesListed
<1> QED
  BY <1>1, <1>12, <1>13, <1>15, <1>16, <1>17 DEF Base, Agreed

\* A message for every reader, after which the views show what is held by then.
LEMMA SaidForeseen ==
    ASSUME Typed, NEW F, \A c \in Clients : Foreseen(F, c), NEW m \in Message,
           \A v \in Good(F) : Seen(v, m) \in Good(F) /\ (Quiet(v) => Quiet(Seen(v, m))),
           \A v \in Good(F) : (\A s \in Live : Shows(v, s)) => \A s \in Live' : Shows(Seen(v, m), s)',
           down' = Said(Readers, m), UNCHANGED <<reader, mirror, app>>
    PROVE  down' \in [Clients -> Seq(Message)] /\ \A c \in Clients : Foreseen(F, c)'
<1>1. down \in [Clients -> Seq(Message)]
  BY DEF Typed
<1>2. down' = [c \in Clients |-> IF c \in Readers THEN Append(down[c], m) ELSE down[c]]
  BY DEF Said
<1>3. \A c \in Clients : Append(down[c], m) \in Seq(Message)
  BY <1>1, AppendProperties
<1>4. down' \in [Clients -> Seq(Message)]
  BY <1>1, <1>2, <1>3
<1>5. ASSUME NEW c \in Clients PROVE Foreseen(F, c)'
  <2>1. PICK z \in Good(F) : /\ Leads(F, Now(c), down[c], z) /\ Quiet(z)
                             /\ reader[c].attached /\ reader[c].told => \A t \in Live : Shows(z, t)
    BY DEF Foreseen
  <2>2. Now(c)' = Now(c)
    BY DEF Now
  <2>3. CASE c \in Readers
    <3> DEFINE y == Seen(z, m)
    <3>1. down'[c] = Append(down[c], m) /\ down[c] \in Seq(Message)
      BY <1>1, <1>2, <2>3
    <3>2. y \in Good(F) /\ Quiet(y)
      BY <2>1
    <3>3. Leads(F, Now(c), Append(down[c], m), y)
      <4>1. Seen(z, m) \in Good(F)
        BY <3>2
      <4> QED
        BY <2>1, <3>1, <4>1, LeadsOn
    <3>4. (reader[c].attached /\ reader[c].told)' => \A t \in Live' : Shows(y, t)'
      BY <2>1
    <3> HIDE DEF y
    <3>5. Leads(F, Now(c)', down'[c], y)
      BY <2>2, <3>1, <3>3
    <3> QED
      BY <3>2, <3>4, <3>5 DEF Foreseen
  <2>4. CASE c \notin Readers
    <3>1. down'[c] = down[c] /\ ~reader'[c].attached
      BY <1>2, <2>4 DEF Readers
    <3>2. Leads(F, Now(c)', down'[c], z)
      BY <2>1, <2>2, <3>1
    <3> QED
      BY <2>1, <3>1, <3>2 DEF Foreseen
  <2> QED
    BY <2>3, <2>4
<1> QED
  BY <1>4, <1>5

LEMMA StepRespawn ==
    ASSUME Base, NEW F, Agreed(F), NEW c \in Clients, NEW t \in Terminals, Respawn(c, t)
    PROVE  Base' /\ Agreed(F)'
<1> DEFINE a == term[t]
           u == [a EXCEPT !.ready = <<>>]
           x == [u EXCEPT !.damage = FALSE]
           m == Opened(t)
<1>1. Typed /\ Numbered(F) /\ SpoolsListed(F) /\ ChoicesListed(F)
  BY DEF Base, Agreed
<1>2. /\ t \in Live /\ term' = [term EXCEPT ![t].ready = <<>>, ![t].damage = FALSE]
      /\ down' = Said(Readers, m)
      /\ UNCHANGED <<reader, mirror, app, saves, printed>>
  BY DEF Respawn, Opened
<1>3. a \in Terminal /\ a.next + Len(a.ready) <= printed + 1 /\ a.next \in 1..(MaxDocs + 1)
      /\ Len(a.ready) \in Nat
  BY <1>1, TerminalIs
<1>4. term' = [term EXCEPT ![t] = x]
  <2>1. term \in [Terminals -> Terminal]
    BY <1>1 DEF Typed
  <2> QED
    BY <1>2, <1>3, <2>1 DEF Terminal
<1> HIDE DEF a
<1>5. u \in Terminal /\ u.next = a.next /\ u.ready = <<>> /\ u.jobs = a.jobs /\ u.live = a.live
      /\ u.news = a.news
  BY <1>3, NoJobs DEF Terminal
<1> HIDE DEF u
<1>6. x \in Terminal /\ x.next = a.next /\ x.ready = <<>> /\ x.jobs = a.jobs /\ x.live = a.live
  BY <1>5 DEF Terminal
<1> HIDE DEF x
<1>7. printed' \in 0..MaxDocs /\ printed' >= printed /\ x.next + Len(x.ready) <= printed' + 1
  <2>1. printed \in 0..MaxDocs /\ printed' = printed /\ MaxDocs \in Nat
    BY <1>1, <1>2, BoundAssumption DEF Typed
  <2> DEFINE n == a.next
             k == Len(a.ready)
  <2>2. n \in 1..(MaxDocs + 1) /\ k \in Nat /\ n + k <= printed + 1 /\ x.next = n /\ Len(x.ready) = 0
    BY <1>3, <1>6, NoJobs
  <2> HIDE DEF n, k
  <2>3. n + 0 <= printed' + 1
    BY <2>1, <2>2
  <2> QED
    BY <2>1, <2>2, <2>3
<1>8. x.next = term[t].next /\ x.live = term[t].live /\ x.jobs = term[t].jobs
  BY <1>6 DEF a
<1>9. /\ term' \in [Terminals -> Terminal] /\ term'[t] = x
      /\ \A s \in Terminals : s # t => term'[s] = term[s]
      /\ \A s \in Terminals : term'[s].next + Len(term'[s].ready) <= printed' + 1
      /\ \A s \in Terminals : \A i, j \in DOMAIN term'[s].jobs :
            i < j => term'[s].jobs[i].job < term'[s].jobs[j].job
      /\ Numbered(F)' /\ SpoolsListed(F)'
  BY <1>1, <1>4, <1>6, <1>7, <1>8, OneTerminal
<1>10. m \in Message
  BY DEF Message, Opened
<1>11. ASSUME NEW v \in Good(F)
       PROVE  /\ Seen(v, m) \in Good(F) /\ (Quiet(v) => Quiet(Seen(v, m)))
              /\ (\A s \in Live : Shows(v, s)) => \A s \in Live' : Shows(Seen(v, m), s)'
  <2> DEFINE y == Seen(v, m)
  <2>1. /\ y \in Good(F) /\ y.known = v.known /\ OnlyOf(t, v, y)
        /\ y.mirror[t].fetching = v.mirror[t].fetching
        /\ y.mirror[t].jobs = v.mirror[t].jobs
        /\ t \in v.known => y.mirror[t].count = 0
    BY SeenOpened
  <2> HIDE DEF y, m
  <2>2. Quiet(v) => Quiet(y)
    BY <2>1 DEF Quiet, OnlyOf
  <2>3. ASSUME \A s \in Live : Shows(v, s), NEW s \in Live' PROVE Shows(y, s)'
    <3>1. s \in Live /\ s \in Terminals /\ term'[s].jobs = term[s].jobs
      BY <1>8, <1>9 DEF Live
    <3>2. Shows(v, s)
      BY <2>3, <3>1
    <3>3. CASE s = t
      BY <2>1, <3>1, <3>2, <3>3 DEF Shows
    <3>4. CASE s # t
      <4>1. HasNews(s)' = HasNews(s) /\ y.mirror[s] = v.mirror[s]
        BY <1>9, <2>1, <3>1, <3>4 DEF HasNews, Live, OnlyOf
      <4> QED
        BY <2>1, <3>1, <3>2, <4>1 DEF Shows
    <3> QED
      BY <3>3, <3>4
  <2> QED
    BY <2>1, <2>2, <2>3 DEF y
<1>12. \A e \in Clients : Foreseen(F, e)
  BY DEF Agreed
<1> HIDE DEF m
<1>13. down' \in [Clients -> Seq(Message)] /\ \A e \in Clients : Foreseen(F, e)'
  BY <1>1, <1>2, <1>10, <1>11, <1>12, SaidForeseen
<1>14. Typed'
  BY <1>1, <1>2, <1>7, <1>9, <1>13 DEF Typed
<1>15. ToldIsFirst' /\ SavedIsTheDocument'
  BY <1>2 DEF Base, ToldIsFirst, FirstReader, SavedIsTheDocument
<1>16. ChoicesListed(F)'
  BY <1>1, <1>2 DEF ChoicesListed
<1> QED
  BY <1>9, <1>13, <1>14, <1>15, <1>16 DEF Base, Agreed

LEMMA StepTerminalEnds ==
    ASSUME Base, NEW F, Agreed(F), NEW t \in Terminals, TerminalEnds(t)
    PROVE  Base' /\ Agreed(F)'
<1> DEFINE a == term[t]
           u == [a EXCEPT !.live = FALSE]
           w == [u EXCEPT !.ready = <<>>]
           x == [w EXCEPT !.jobs = <<>>]
           m == Closed(t)
<1>1. Typed /\ Numbered(F) /\ SpoolsListed(F) /\ ChoicesListed(F)
  BY DEF Base, Agreed
<1>2. /\ t \in Live /\ term' = [term EXCEPT ![t] = [@ EXCEPT !.live = FALSE, !.ready = <<>>, !.jobs = <<>>]]
      /\ down' = Said(Readers, m)
      /\ UNCHANGED <<reader, mirror, app, saves, printed>>
  BY DEF TerminalEnds, Closed
<1>3. a \in Terminal /\ a.next + Len(a.ready) <= printed + 1 /\ a.next \in 1..(MaxDocs + 1)
      /\ Len(a.ready) \in Nat
  BY <1>1, TerminalIs
<1>4. term' = [term EXCEPT ![t] = x]
  <2>1. term \in [Terminals -> Terminal]
    BY <1>1 DEF Typed
  <2>2. [a EXCEPT !.live = FALSE, !.ready = <<>>, !.jobs = <<>>] = x
    <3> HIDE DEF a
    <3> QED
      BY <1>3 DEF Terminal
  <2> HIDE DEF x
  <2> QED
    BY <1>2, <2>1, <2>2
<1> HIDE DEF a
<1>5. u \in Terminal /\ u.next = a.next /\ u.live = FALSE
  BY <1>3 DEF Terminal
<1> HIDE DEF u
<1>6. w \in Terminal /\ w.next = a.next /\ w.live = FALSE /\ w.ready = <<>>
  BY <1>5, NoJobs DEF Terminal
<1> HIDE DEF w
<1>7. x \in Terminal /\ x.next = a.next /\ x.live = FALSE /\ x.ready = <<>> /\ x.jobs = <<>>
  BY <1>6, NoJobs DEF Terminal
<1> HIDE DEF x
<1>8. printed' \in 0..MaxDocs /\ printed' >= printed /\ x.next + Len(x.ready) <= printed' + 1
  <2>1. printed \in 0..MaxDocs /\ printed' = printed /\ MaxDocs \in Nat
    BY <1>1, <1>2, BoundAssumption DEF Typed
  <2> DEFINE n == a.next
             k == Len(a.ready)
  <2>2. n \in 1..(MaxDocs + 1) /\ k \in Nat /\ n + k <= printed + 1 /\ x.next = n /\ Len(x.ready) = 0
    BY <1>3, <1>7, NoJobs
  <2> HIDE DEF n, k
  <2>3. n + 0 <= printed' + 1
    BY <2>1, <2>2
  <2> QED
    BY <2>1, <2>2, <2>3
<1>9. x.next = term[t].next
  BY <1>7 DEF a
<1>10. /\ term' \in [Terminals -> Terminal] /\ term'[t] = x
       /\ \A s \in Terminals : s # t => term'[s] = term[s]
       /\ \A s \in Terminals : term'[s].next + Len(term'[s].ready) <= printed' + 1
       /\ \A s \in Terminals : \A i, j \in DOMAIN term'[s].jobs :
             i < j => term'[s].jobs[i].job < term'[s].jobs[j].job
       /\ Numbered(F)' /\ SpoolsListed(F)'
  BY <1>1, <1>4, <1>7, <1>8, <1>9, OneTerminal
<1>11. m \in Message
  BY DEF Message, Closed
<1>12. ASSUME NEW v \in Good(F)
       PROVE  /\ Seen(v, m) \in Good(F) /\ (Quiet(v) => Quiet(Seen(v, m)))
              /\ (\A s \in Live : Shows(v, s)) => \A s \in Live' : Shows(Seen(v, m), s)'
  <2> DEFINE y == Seen(v, m)
  <2>1. y \in Good(F) /\ y.known = v.known \ {t} /\ OnlyOf(t, v, y) /\ y.mirror[t] = BlankMirror
    BY SeenClosed
  <2> HIDE DEF y, m
  <2>2. Quiet(v) => Quiet(y)
    BY <2>1, BlankIs DEF Quiet, OnlyOf
  <2>3. ASSUME \A s \in Live : Shows(v, s), NEW s \in Live' PROVE Shows(y, s)'
    <3>1. s # t /\ s \in Terminals
      BY <1>7, <1>10 DEF Live
    <3>2. s \in Live /\ term'[s] = term[s] /\ HasNews(s)' = HasNews(s) /\ y.mirror[s] = v.mirror[s]
      BY <1>10, <2>1, <3>1 DEF HasNews, Live, OnlyOf
    <3> QED
      BY <2>1, <2>3, <3>1, <3>2 DEF Shows
  <2> QED
    BY <2>1, <2>2, <2>3 DEF y
<1>13. \A e \in Clients : Foreseen(F, e)
  BY DEF Agreed
<1> HIDE DEF m
<1>14. down' \in [Clients -> Seq(Message)] /\ \A e \in Clients : Foreseen(F, e)'
  BY <1>1, <1>2, <1>11, <1>12, <1>13, SaidForeseen
<1>15. Typed'
  BY <1>1, <1>2, <1>8, <1>10, <1>14 DEF Typed
<1>16. ToldIsFirst' /\ SavedIsTheDocument'
  BY <1>2 DEF Base, ToldIsFirst, FirstReader, SavedIsTheDocument
<1>17. ChoicesListed(F)'
  BY <1>1, <1>2 DEF ChoicesListed
<1> QED
  BY <1>10, <1>14, <1>15, <1>16, <1>17 DEF Base, Agreed

\* What a client makes of its next message is what the view makes of it.
LEMMA ReceiveIsSeen ==
    ASSUME Typed, NEW c \in Clients, Receive(c), Seen(Now(c), Head(down[c])) \in View
    PROVE  /\ Now(c)' = Seen(Now(c), Head(down[c]))
           /\ app' \in [Clients -> App] /\ mirror' \in [Clients -> [Terminals -> Mirror]]
           /\ app'[c].dialog = app[c].dialog
           /\ app'[c].pending = app[c].pending \/ app'[c].pending = NoPending
           /\ \A d \in Clients : d # c => app'[d] = app[d] /\ mirror'[d] = mirror[d]
<1> DEFINE m == Head(down[c])
           a == app[c]
           v == Now(c)
           y == Seen(v, m)
<1>1. app \in [Clients -> App] /\ mirror \in [Clients -> [Terminals -> Mirror]] /\ a \in App
  BY DEF Typed
<1>2. y \in View /\ v = [known |-> a.known, mirror |-> mirror[c]]
  BY DEF Now
<1>3. NoPending \in [term : 0..NTerminals, row : HeldJob \cup {NoRow}]
  BY BoundAssumption DEF NoPending
\* Showing and Knowing, once for every case.
<1>4. ASSUME NEW S \in SUBSET Terminals
      PROVE  LET e == Showing(a, S)
             IN  /\ e \in App /\ e.known = a.known /\ e.dialog = a.dialog
                 /\ e.pending = a.pending \/ e.pending = NoPending
  <2> DEFINE p == IF a.pending.term \in S THEN a.pending ELSE NoPending
             u == [a EXCEPT !.showing = S]
             e == [u EXCEPT !.pending = p]
  <2>1. Showing(a, S) = e
    <3> HIDE DEF a
    <3> QED
      BY <1>1 DEF Showing, App
  <2>2. p \in [term : 0..NTerminals, row : HeldJob \cup {NoRow}] /\ (p = a.pending \/ p = NoPending)
    BY <1>1, <1>3 DEF App
  <2> HIDE DEF p, a
  <2>3. u \in App /\ u.known = a.known /\ u.dialog = a.dialog
    BY <1>1 DEF App
  <2> HIDE DEF u
  <2>4. e \in App /\ e.known = u.known /\ e.dialog = u.dialog /\ e.pending = p
    BY <2>2, <2>3 DEF App
  <2> QED
    BY <2>1, <2>2, <2>3, <2>4
<1>5. ASSUME NEW K \in SUBSET Terminals
      PROVE  LET e == Knowing(a, K)
             IN  /\ e \in App /\ e.known = K /\ e.dialog = a.dialog
                 /\ e.pending = a.pending \/ e.pending = NoPending
  <2> DEFINE u == Showing(a, K)
             e == [u EXCEPT !.known = K]
  <2>1. /\ u \in App /\ u.dialog = a.dialog
        /\ u.pending = a.pending \/ u.pending = NoPending
    BY <1>4
  <2> HIDE DEF u, a
  <2>2. e \in App /\ e.known = K /\ e.dialog = u.dialog /\ e.pending = u.pending
    BY <2>1 DEF App
  <2>3. Knowing(a, K) = e
    BY DEF Knowing, u
  <2> QED
    BY <2>1, <2>2, <2>3
<1>6. ASSUME NEW e, e \in App, e.known = y.known, e.dialog = a.dialog,
             e.pending = a.pending \/ e.pending = NoPending,
             app' = [app EXCEPT ![c] = e], mirror' = [mirror EXCEPT ![c] = y.mirror]
      PROVE  /\ Now(c)' = y
             /\ app' \in [Clients -> App] /\ mirror' \in [Clients -> [Terminals -> Mirror]]
             /\ app'[c].dialog = app[c].dialog
             /\ app'[c].pending = app[c].pending \/ app'[c].pending = NoPending
             /\ \A d \in Clients : d # c => app'[d] = app[d] /\ mirror'[d] = mirror[d]
  <2> HIDE DEF y
  <2>1. y = [known |-> y.known, mirror |-> y.mirror] /\ y.mirror \in [Terminals -> Mirror]
    BY <1>2 DEF View
  <2>2. app'[c] = e /\ mirror'[c] = y.mirror
    BY <1>1, <1>6
  <2>3. Now(c)' = [known |-> e.known, mirror |-> y.mirror]
    BY <2>2 DEF Now
  <2> QED
    BY <1>1, <1>6, <2>1, <2>2, <2>3
<1>7. v.known = a.known /\ v.mirror = mirror[c] /\ a.known \in SUBSET Terminals
  BY <1>1, <1>2 DEF App
<1>8. CASE m.type = "Attached"
  <2> DEFINE f == [t \in Terminals |-> IF t \in DOMAIN m.spools THEN Adopted(m.spools[t]) ELSE BlankMirror]
             K == DOMAIN m.spools
             e == Knowing(a, K)
  <2>1. mirror' = [mirror EXCEPT ![c] = f] /\ app' = [app EXCEPT ![c] = e]
    BY <1>8 DEF Receive
  <2>2. y = [known |-> K, mirror |-> f]
    BY <1>8 DEF Seen
  <2> HIDE DEF m, a, v, f, K
  <2>3. K \in SUBSET Terminals
    BY <1>2, <2>2 DEF View
  <2>4. /\ e \in App /\ e.known = K /\ e.dialog = a.dialog
        /\ e.pending = a.pending \/ e.pending = NoPending
    BY <1>5, <2>3
  <2> HIDE DEF y, e
  <2>5. e.known = y.known /\ f = y.mirror
    BY <2>2, <2>4
  <2>6. mirror' = [mirror EXCEPT ![c] = y.mirror]
    BY <2>1, <2>5
  <2> QED
    BY <1>6, <2>1, <2>4, <2>5, <2>6 DEF y, v, m
<1>9. CASE m.type = "Detached"
  <2> DEFINE S == {}
             e == Showing(a, S)
  <2>1. mirror' = mirror /\ app' = [app EXCEPT ![c] = e]
    BY <1>9 DEF Receive
  <2>2. y = v
    BY <1>9 DEF Seen
  <2>3. S \in SUBSET Terminals
    OBVIOUS
  <2> HIDE DEF m, a, v, S
  <2>4. /\ e \in App /\ e.known = a.known /\ e.dialog = a.dialog
        /\ e.pending = a.pending \/ e.pending = NoPending
    BY <1>4, <2>3
  <2> HIDE DEF y, e
  <2>5. e.known = y.known /\ mirror' = [mirror EXCEPT ![c] = y.mirror]
    BY <1>1, <1>7, <2>1, <2>2, <2>4
  <2> QED
    BY <1>6, <2>1, <2>4, <2>5 DEF y, v, m
<1>10. CASE m.type = "TermClosed"
  <2> DEFINE K == a.known \ {m.term}
             e == Knowing(a, K)
             f == [mirror[c] EXCEPT ![m.term] = BlankMirror]
  <2>1. mirror' = [mirror EXCEPT ![c] = f] /\ app' = [app EXCEPT ![c] = e]
    BY <1>1, <1>10 DEF Receive
  <2>2. y = [known |-> K, mirror |-> f]
    BY <1>7, <1>10 DEF Seen
  <2>3. K \in SUBSET Terminals
    BY <1>7
  <2> HIDE DEF m, a, v, f, K
  <2>4. /\ e \in App /\ e.known = K /\ e.dialog = a.dialog
        /\ e.pending = a.pending \/ e.pending = NoPending
    BY <1>5, <2>3
  <2> HIDE DEF y, e
  <2>5. e.known = y.known /\ f = y.mirror
    BY <2>2, <2>4
  <2>6. mirror' = [mirror EXCEPT ![c] = y.mirror]
    BY <2>1, <2>5
  <2> QED
    BY <1>6, <2>1, <2>4, <2>5, <2>6 DEF y, v, m
<1>11. CASE m.type \notin {"Attached", "Detached", "TermClosed"}
  <2> DEFINE f == [mirror[c] EXCEPT ![m.term] = Told(@, m)]
  <2>1. mirror' = (IF m.term \in a.known THEN [mirror EXCEPT ![c][m.term] = Told(@, m)] ELSE mirror)
        /\ app' = app
    BY <1>11 DEF Receive
  <2>2. y = IF m.term \in v.known
              THEN [known |-> v.known, mirror |-> [v.mirror EXCEPT ![m.term] = Told(@, m)]] ELSE v
    BY <1>11 DEF Seen
  <2>3. app' = [app EXCEPT ![c] = a]
    BY <1>1, <2>1
  <2>4. CASE m.term \in a.known
    <3>1. mirror' = [mirror EXCEPT ![c] = f]
      BY <1>1, <2>1, <2>4
    <3>2. y = [known |-> a.known, mirror |-> f]
      BY <1>7, <2>2, <2>4
    <3> HIDE DEF m, a, v, f, y
    <3>3. a.known = y.known /\ mirror' = [mirror EXCEPT ![c] = y.mirror]
      BY <3>1, <3>2
    <3> QED
      BY <1>1, <1>6, <2>3, <3>3 DEF y, v, m
  <2>5. CASE m.term \notin a.known
    <3>1. mirror' = mirror /\ y = v
      BY <1>7, <2>1, <2>2, <2>5
    <3> HIDE DEF m, a, v, y
    <3>2. a.known = y.known /\ mirror' = [mirror EXCEPT ![c] = y.mirror]
      BY <1>1, <1>7, <3>1
    <3> QED
      BY <1>1, <1>6, <2>3, <3>2 DEF y, v, m
  <2> QED
    BY <2>4, <2>5
<1> QED
  BY <1>8, <1>9, <1>10, <1>11

LEMMA StepReceive ==
    ASSUME Base, NEW F, Agreed(F), NEW c \in Clients, Receive(c)
    PROVE  Base' /\ Agreed(F)'
<1> DEFINE q == down[c]
           y == Seen(Now(c), Head(q))
<1>1. Typed /\ ChoicesListed(F) /\ SpoolsListed(F) /\ Numbered(F)
  BY DEF Base, Agreed
<1>2. q # <<>> /\ down' = [down EXCEPT ![c] = Tail(q)] /\ UNCHANGED <<term, reader, saves, printed>>
  BY DEF Receive
<1>3. q \in Seq(Message) /\ down \in [Clients -> Seq(Message)]
  BY <1>1 DEF Typed
<1>4. PICK z \in Good(F) : /\ Leads(F, Now(c), q, z) /\ Quiet(z)
                           /\ reader[c].attached /\ reader[c].told => \A t \in Live : Shows(z, t)
  BY DEF Agreed, Foreseen
<1>5. y \in Good(F) /\ Leads(F, y, Tail(q), z)
  <2> HIDE DEF q
  <2> QED
    BY <1>2, <1>3, <1>4, LeadsTail
<1>6. y \in View
  BY <1>5 DEF Good
<1>7. /\ Now(c)' = y
      /\ app' \in [Clients -> App] /\ mirror' \in [Clients -> [Terminals -> Mirror]]
      /\ app'[c].dialog = app[c].dialog
      /\ app'[c].pending = app[c].pending \/ app'[c].pending = NoPending
      /\ \A d \in Clients : d # c => app'[d] = app[d] /\ mirror'[d] = mirror[d]
  BY <1>1, <1>6, ReceiveIsSeen
<1> HIDE DEF y
<1>8. Tail(q) \in Seq(Message)
  <2> HIDE DEF q
  <2> QED
    BY <1>2, <1>3, HeadTailProperties
<1>9. /\ down' \in [Clients -> Seq(Message)] /\ down'[c] = Tail(q)
      /\ \A d \in Clients : d # c => down'[d] = down[d]
  BY <1>2, <1>3, <1>8
<1>10. Typed'
  BY <1>1, <1>2, <1>7, <1>9 DEF Typed
<1>11. \A t \in Live' : t \in Live /\ (\A x : Shows(x, t) => Shows(x, t)') /\ StillShown(t)
  BY <1>2 DEF Live, StillShown, HasNews, Shows
<1>12. ASSUME NEW d \in Clients PROVE Foreseen(F, d)'
  <2>1. CASE d = c
    <3>1. Leads(F, Now(c)', down'[c], z)
      BY <1>5, <1>7, <1>9
    <3> QED
      BY <1>2, <1>4, <1>11, <2>1, <3>1 DEF Foreseen
  <2>2. CASE d # c
    <3>1. Foreseen(F, d)
      BY DEF Agreed
    <3>2. Now(d)' = Now(d) /\ down'[d] = down[d] /\ HasTheNews(d)' = HasTheNews(d)
      BY <1>2, <1>7, <1>9, <2>2 DEF Now, HasTheNews
    <3> QED
      BY <1>11, <3>1, <3>2, StillForeseen
  <2> QED
    BY <2>1, <2>2
<1>13. ChoicesListed(F)'
  <2> SUFFICES ASSUME NEW d \in Clients
               PROVE  /\ app'[d].dialog.term = 0 => app'[d].dialog.listed = <<>>
                      /\ app'[d].dialog.term # 0 => RowsOf(F[app'[d].dialog.term], app'[d].dialog.listed)
                      /\ app'[d].pending.term # 0 => InList(F[app'[d].pending.term], app'[d].pending.row)
    BY DEF ChoicesListed
  <2>1. CASE d = c
    BY <1>1, <1>7, <2>1 DEF ChoicesListed, NoPending
  <2>2. CASE d # c
    BY <1>1, <1>7, <2>2 DEF ChoicesListed
  <2> QED
    BY <2>1, <2>2
<1>14. ToldIsFirst' /\ SavedIsTheDocument' /\ Numbered(F)' /\ SpoolsListed(F)'
  BY <1>1, <1>2 DEF Base, ToldIsFirst, FirstReader, SavedIsTheDocument, Numbered, SpoolsListed
<1> QED
  BY <1>10, <1>12, <1>13, <1>14 DEF Base, Agreed

LEMMA StepAttach ==
    ASSUME Base, NEW F, Agreed(F), NEW c \in Clients, NEW mode \in Modes, Attach(c, mode)
    PROVE  Base' /\ Agreed(F)'
<1> DEFINE evicted == IF mode = "TakeOver" THEN FirstReader(reader) \ {c} ELSE {}
           left == [d \in Clients |-> IF d \in evicted THEN [reader[d] EXCEPT !.attached = FALSE]
                                      ELSE reader[d]]
           snapshot == Snapshot(Spools)
           gone == [type |-> "Detached"]
           mine == [attached |-> TRUE, mode |-> mode, told |-> TRUE]
           all == [left EXCEPT ![c] = mine]
<1>1. Typed /\ ChoicesListed(F) /\ SpoolsListed(F) /\ Numbered(F)
  BY DEF Base, Agreed
<1>2. /\ reader' = WhoIsTold(all)
      /\ down' = [Said(evicted, gone) EXCEPT ![c] = Append(@, snapshot)]
      /\ UNCHANGED <<term, mirror, app, saves, printed>>
  BY DEF Attach, Snapshot
<1>3. reader \in [Clients -> Reader] /\ down \in [Clients -> Seq(Message)]
  BY <1>1 DEF Typed
<1>4. c \notin evicted
  OBVIOUS
<1> HIDE DEF evicted
<1>5. /\ left \in [Clients -> Reader]
      /\ \A d \in Clients : left[d].told = reader[d].told /\ (left[d].attached => reader[d].attached)
  <2>1. ASSUME NEW d \in Clients
        PROVE  /\ left[d] \in Reader /\ left[d].told = reader[d].told
               /\ left[d].attached => reader[d].attached
    <3>1. left[d] = IF d \in evicted THEN [reader[d] EXCEPT !.attached = FALSE] ELSE reader[d]
      OBVIOUS
    <3>2. reader[d] \in Reader
      BY <1>3
    <3> HIDE DEF left
    <3> QED
      BY <3>1, <3>2 DEF Reader
  <2> QED
    BY <2>1
<1> HIDE DEF left
<1>6. mine \in Reader
  BY DEF Reader
<1> HIDE DEF mine
<1>7. /\ all \in [Clients -> Reader]
      /\ \A d \in Clients : d # c => all[d] = left[d]
  BY <1>5, <1>6
<1> HIDE DEF all
<1>8. ASSUME NEW d \in Clients
      PROVE  /\ reader'[d] \in Reader /\ reader'[d].attached = all[d].attached
             /\ reader'[d].told = (all[d].told /\ d \in FirstReader(all))
  <2>1. reader'[d] = [all[d] EXCEPT !.told = @ /\ d \in FirstReader(all)]
    BY <1>2 DEF WhoIsTold
  <2> DEFINE r == all[d]
             first == d \in FirstReader(all)
  <2>2. r \in Reader /\ first \in BOOLEAN
    BY <1>7
  <2>3. reader'[d] = [r EXCEPT !.told = @ /\ first]
    BY <2>1
  <2> HIDE DEF r, first
  <2>4. /\ reader'[d] \in Reader /\ reader'[d].attached = r.attached
        /\ reader'[d].told = (r.told /\ first)
    BY <2>2, <2>3 DEF Reader
  <2> QED
    BY <2>4 DEF r, first
<1>9. reader' \in [Clients -> Reader]
  <2>1. reader' = [d \in Clients |-> reader'[d]]
    BY <1>2 DEF WhoIsTold
  <2> QED
    BY <1>8, <2>1
<1>10. ToldIsFirst'
  <2>1. FirstReader(reader') = FirstReader(all)
    BY <1>8 DEF FirstReader
  <2> QED
    BY <1>8, <2>1 DEF ToldIsFirst
<1>11. \A d \in Clients : d # c => (HasTheNews(d)' => HasTheNews(d))
  BY <1>5, <1>7, <1>8 DEF HasTheNews
<1>12. Live \subseteq Terminals /\ DOMAIN Spools = Live /\ \A t \in Live : Spools[t] = term[t].jobs
  BY DEF Live, Spools
<1>13. \A t \in Terminals : /\ term[t].jobs \in Seq(HeldJob) /\ Distinct(term[t].jobs)
                            /\ RowsOf(F[t], term[t].jobs)
  <2>1. ASSUME NEW t \in Terminals PROVE term[t].jobs \in Seq(HeldJob) /\ Distinct(term[t].jobs)
    <3>1. term[t].jobs \in Seq(HeldJob) /\ Rising(term[t].jobs)
      BY <1>1, TerminalIs DEF Typed, Rising
    <3> QED
      BY <3>1, RisingIsDistinct
  <2> QED
    BY <1>1, <2>1 DEF SpoolsListed
<1>14. snapshot \in Message /\ gone \in Message
  <2>1. Spools \in [Live -> Seq(HeldJob)]
    BY <1>12, <1>13 DEF Spools
  <2> DEFINE sp == Spools
  <2>2. sp \in UNION {[L -> Seq(HeldJob)] : L \in SUBSET Terminals}
    BY <1>12, <2>1
  <2> HIDE DEF sp
  <2>3. Snapshot(sp) \in Message
    BY <2>2 DEF Message, Snapshot
  <2>4. gone \in Message
    BY DEF Message
  <2> QED
    BY <2>3, <2>4 DEF sp
<1>15. \A v : LET y == Seen(v, snapshot)
              IN  /\ y \in Good(F) /\ y.known = Live /\ Quiet(y)
                  /\ \A t \in Live : y.mirror[t].jobs = term[t].jobs /\ y.mirror[t].count = Len(term[t].jobs)
  <2> SUFFICES ASSUME NEW v
               PROVE  LET y == Seen(v, snapshot)
                      IN  /\ y \in Good(F) /\ y.known = Live /\ Quiet(y)
                          /\ \A t \in Live : y.mirror[t].jobs = term[t].jobs
                                             /\ y.mirror[t].count = Len(term[t].jobs)
    OBVIOUS
  <2> DEFINE y == Seen(v, snapshot)
  <2>1. Restatable(F, Spools)
    BY <1>12, <1>13 DEF Restatable
  <2>2. Restated(F, Spools, y)
    BY <2>1, SnapshotSeen
  <2> HIDE DEF y
  <2> QED
    BY <1>12, <2>2 DEF Restated, y
<1>16. \A v : Seen(v, gone) = v
  BY SeenDetached
<1> HIDE DEF snapshot, gone
<1>17. /\ down' \in [Clients -> Seq(Message)] /\ down'[c] = Append(down[c], snapshot)
       /\ \A d \in Clients : d # c => down'[d] = down[d] \/ down'[d] = Append(down[d], gone)
  <2> DEFINE f == Said(evicted, gone)
             e == Append(down[c], snapshot)
  <2>1. f = [d \in Clients |-> IF d \in evicted THEN Append(down[d], gone) ELSE down[d]]
    BY DEF Said
  <2>2. \A d \in Clients : Append(down[d], gone) \in Seq(Message) /\ down[d] \in Seq(Message)
    BY <1>3, <1>14, AppendProperties
  <2>3. e \in Seq(Message)
    BY <1>3, <1>14, AppendProperties
  <2>4. f \in [Clients -> Seq(Message)] /\ f[c] = down[c]
        /\ \A d \in Clients : f[d] = down[d] \/ f[d] = Append(down[d], gone)
    BY <1>4, <2>1, <2>2
  <2>5. down' = [f EXCEPT ![c] = e]
    BY <1>2, <2>4
  <2> HIDE DEF f
  <2>6. e = Append(down[c], snapshot)
    OBVIOUS
  <2> HIDE DEF e
  <2> QED
    BY <2>3, <2>4, <2>5, <2>6
<1>18. Typed'
  BY <1>1, <1>2, <1>9, <1>17 DEF Typed
<1>19. ASSUME NEW d \in Clients PROVE Foreseen(F, d)'
  <2>1. PICK z \in Good(F) : /\ Leads(F, Now(d), down[d], z) /\ Quiet(z)
                             /\ reader[d].attached /\ reader[d].told => \A t \in Live : Shows(z, t)
    BY DEF Agreed, Foreseen
  <2>2. Now(d)' = Now(d) /\ down[d] \in Seq(Message)
    BY <1>2, <1>3 DEF Now
  <2>3. CASE d = c
    <3>1. PICK y \in Good(F) :
          /\ y = Seen(z, snapshot) /\ y.known = Live /\ Quiet(y)
          /\ \A t \in Live : y.mirror[t].jobs = term[t].jobs /\ y.mirror[t].count = Len(term[t].jobs)
      <4> DEFINE x == Seen(z, snapshot)
      <4>1. /\ x \in Good(F) /\ x.known = Live /\ Quiet(x)
            /\ \A t \in Live : x.mirror[t].jobs = term[t].jobs /\ x.mirror[t].count = Len(term[t].jobs)
        BY <1>15
      <4> QED
        BY <4>1
    <3>2. Leads(F, Now(d), Append(down[d], snapshot), y)
      <4>1. Seen(z, snapshot) \in Good(F)
        BY <3>1
      <4> QED
        BY <1>14, <2>1, <2>2, <3>1, <4>1, LeadsOn
    <3>3. Leads(F, Now(d)', down'[d], y)
      BY <1>17, <2>2, <2>3, <3>2
    <3>4. \A t \in Live' : Shows(y, t)'
      BY <1>2, <3>1 DEF Live, Shows
    <3> QED
      BY <3>1, <3>3, <3>4 DEF Foreseen
  <2>4. CASE d # c
    <3>1. Leads(F, Now(d)', down'[d], z)
      <4>1. CASE down'[d] = down[d]
        BY <2>1, <2>2, <4>1
      <4>2. CASE down'[d] = Append(down[d], gone)
        <5>1. Seen(z, gone) = z
          BY <1>16
        <5>2. Seen(z, gone) \in Good(F)
          BY <5>1
        <5>3. Leads(F, Now(d), Append(down[d], gone), Seen(z, gone))
          BY <1>14, <2>1, <2>2, <5>2, LeadsOn
        <5> QED
          BY <2>2, <4>2, <5>1, <5>3
      <4> QED
        BY <1>17, <2>4, <4>1, <4>2
    <3>2. (reader[d].attached /\ reader[d].told)' => \A t \in Live' : Shows(z, t)'
      <4>1. (reader[d].attached /\ reader[d].told)' => \A t \in Live : Shows(z, t)
        BY <1>11, <2>1, <2>4 DEF HasTheNews
      <4>2. \A t \in Live' : t \in Live /\ (Shows(z, t) => Shows(z, t)')
        BY <1>2 DEF Live, Shows, HasNews
      <4> QED
        BY <4>1, <4>2
    <3> QED
      BY <2>1, <3>1, <3>2 DEF Foreseen
  <2> QED
    BY <2>3, <2>4
<1>20. ChoicesListed(F)' /\ SavedIsTheDocument' /\ Numbered(F)' /\ SpoolsListed(F)'
  BY <1>1, <1>2 DEF Base, SavedIsTheDocument, Numbered, SpoolsListed, ChoicesListed
<1> QED
  BY <1>10, <1>18, <1>19, <1>20 DEF Base, Agreed

\* What a tick makes of a terminal.
LEMMA TickedTerminal ==
    ASSUME Typed, Tick, NEW t \in Terminals
    PROVE  LET x == Collected(term[t])
           IN  /\ term'[t] \in Terminal /\ term'[t].live = term[t].live /\ term'[t].damage = FALSE
               /\ IF FirstReader(reader) = {} \/ ~HasNews(t)
                    THEN /\ term'[t].jobs = term[t].jobs /\ term'[t].next = term[t].next
                         /\ term'[t].ready = term[t].ready /\ term'[t].news = term[t].news
                    ELSE /\ term'[t].jobs = x.jobs /\ term'[t].next = x.next
                         /\ term'[t].ready = <<>>
<1> DEFINE a == term[t]
           x == [a EXCEPT !.damage = FALSE]
           y == Collected(x)
           news == y.news /\ a.damage
           w == [y EXCEPT !.news = news]
           quiet == FirstReader(reader) = {} \/ ~HasNews(t)
<1>1. term'[t] = IF quiet THEN x ELSE w
  <2>1. term' = [s \in Terminals |->
           LET e == [term[s] EXCEPT !.damage = FALSE]
           IN IF FirstReader(reader) = {} \/ ~HasNews(s) THEN e
              ELSE [Collected(e) EXCEPT !.news = @ /\ term[s].damage]]
    BY DEF Tick
  <2>2. term'[t] = IF FirstReader(reader) = {} \/ ~HasNews(t) THEN x
                   ELSE [Collected(x) EXCEPT !.news = @ /\ term[t].damage]
    BY <2>1
  <2> HIDE DEF x
  <2> QED
    BY <2>2
<1>2. a \in Terminal /\ a.next + Len(a.ready) <= MaxDocs + 1
  BY TerminalIs
<1> HIDE DEF a, quiet
<1>3. x \in Terminal /\ x.live = a.live /\ x.damage = FALSE /\ x.jobs = a.jobs /\ x.next = a.next
      /\ x.ready = a.ready /\ x.news = a.news
  BY <1>2 DEF Terminal
<1> HIDE DEF x
<1>4. NewRows(x) = NewRows(a)
  BY <1>3 DEF NewRows
<1>5. Collected(a).jobs = a.jobs \o NewRows(a) /\ Collected(a).next = a.next + Len(a.ready)
  BY <1>2, CollectedIs
<1>6. /\ y \in Terminal /\ y.live = x.live /\ y.damage = x.damage /\ y.news = x.news
      /\ y.ready = <<>> /\ y.next = x.next + Len(x.ready) /\ y.jobs = x.jobs \o NewRows(x)
  BY <1>2, <1>3, CollectedIs
<1>7. news \in BOOLEAN
  OBVIOUS
<1> HIDE DEF y, news
<1>8. /\ w \in Terminal /\ w.live = y.live /\ w.damage = y.damage
      /\ w.ready = y.ready /\ w.next = y.next /\ w.jobs = y.jobs
  BY <1>6, <1>7 DEF Terminal
<1> HIDE DEF w
<1>9. CASE quiet
  BY <1>1, <1>3, <1>9 DEF quiet, a
<1>10. CASE ~quiet
  BY <1>1, <1>3, <1>4, <1>5, <1>6, <1>8, <1>10 DEF quiet, a
<1> QED
  BY <1>9, <1>10

LEMMA StepTick ==
    ASSUME Base, NEW F, Agreed(F), Tick
    PROVE  Base' /\ \E G : Agreed(G)'
<1> DEFINE news == FlattenSeq([t \in Terminals |-> PrinterNews(t)])
<1>1. Typed /\ F \in Catalogues /\ ChoicesListed(F) /\ SpoolsListed(F) /\ Numbered(F)
  BY DEF Base, Agreed
<1>2. /\ down' = [c \in Clients |-> IF c \in FirstReader(reader) THEN down[c] \o news ELSE down[c]]
      /\ UNCHANGED <<reader, mirror, app, saves, printed>>
  BY DEF Tick
<1>3. down \in [Clients -> Seq(Message)] /\ MaxDocs \in Nat /\ printed \in 0..MaxDocs
  BY <1>1, BoundAssumption DEF Typed
<1> HIDE DEF news
<1>4. term' \in [Terminals -> Terminal]
  <2>1. term' = [t \in Terminals |-> term'[t]]
    BY DEF Tick
  <2>2. \A t \in Terminals : term'[t] \in Terminal
    BY <1>1, TickedTerminal
  <2> QED
    BY <2>1, <2>2
<1>5. \A c \in Clients : Now(c)' = Now(c) /\ HasTheNews(c)' = HasTheNews(c)
                         /\ (HasTheNews(c) => c \in FirstReader(reader))
  BY <1>2 DEF Now, HasTheNews, Base, ToldIsFirst
<1>6. ToldIsFirst' /\ SavedIsTheDocument'
  BY <1>2 DEF Base, ToldIsFirst, FirstReader, SavedIsTheDocument
<1>7. \A t \in Terminals : Rising(term[t].jobs)
  BY <1>1 DEF Typed, Rising
<1>8. CASE FirstReader(reader) = {}
  <2>1. \A t \in Terminals : /\ term'[t].jobs = term[t].jobs /\ term'[t].next = term[t].next
                             /\ term'[t].ready = term[t].ready
    BY <1>1, <1>8, TickedTerminal
  <2>2. down' = down
    BY <1>2, <1>3, <1>8
  <2>3. Typed'
    BY <1>1, <1>2, <1>4, <2>1, <2>2 DEF Typed
  <2>4. Numbered(F)' /\ SpoolsListed(F)' /\ ChoicesListed(F)'
    BY <1>1, <1>2, <2>1 DEF Numbered, SpoolsListed, ChoicesListed
  <2>5. ASSUME NEW c \in Clients PROVE Foreseen(F, c)'
    <3>1. Foreseen(F, c) /\ ~HasTheNews(c)'
      BY <1>5, <1>8 DEF Agreed
    <3>2. Now(c)' = Now(c) /\ down'[c] = down[c]
      BY <1>5, <2>2
    <3> QED
      BY <3>1, <3>2, StillForeseen
  <2> QED
    BY <1>1, <1>6, <2>3, <2>4, <2>5 DEF Base, Agreed
<1>9. CASE FirstReader(reader) # {}
  <2>1. PICK G : G = Extended(F)
    OBVIOUS
  <2>2. G \in Catalogues /\ Grown(F, G) /\ Good(F) \subseteq Good(G)
    BY <1>1, <2>1, ExtendedIs, GoodGrows
  <2>3. ASSUME NEW t \in Terminals, HasNews(t)
        PROVE  /\ RowsOf(G[t], term'[t].jobs) /\ Rising(term'[t].jobs)
               /\ Len(G[t]) = term'[t].next - 1 /\ \A j \in DOMAIN G[t] : G[t][j].job = j
               /\ term'[t].next + Len(term'[t].ready) <= printed + 1
               /\ term'[t].live = term[t].live
               /\ term'[t].jobs = Collected(term[t]).jobs
               /\ term'[t].jobs = term[t].jobs \o NewRows(term[t])
               /\ NewRows(term[t]) \in Seq(HeldJob)
    <3>1. /\ term'[t].jobs = Collected(term[t]).jobs /\ term'[t].next = Collected(term[t]).next
          /\ term'[t].ready = <<>> /\ term'[t].live = term[t].live
      BY <1>1, <1>9, <2>3, TickedTerminal
    <3>2. /\ RowsOf(G[t], Collected(term[t]).jobs) /\ Rising(Collected(term[t]).jobs)
          /\ Len(G[t]) = Collected(term[t]).next - 1 /\ \A j \in DOMAIN G[t] : G[t][j].job = j
      BY <1>1, <2>1, <2>3, ExtendedIs
    <3>3. /\ Collected(term[t]).next = term[t].next + Len(term[t].ready)
          /\ Collected(term[t]).jobs = term[t].jobs \o NewRows(term[t])
          /\ NewRows(term[t]) \in Seq(HeldJob)
      BY <1>1, TerminalIs, CollectedIs
    <3>4. term'[t].next + Len(term'[t].ready) <= printed + 1
      <4> DEFINE n == term[t].next
                 k == Len(term[t].ready)
                 e == term'[t].next
                 l == Len(term'[t].ready)
      <4>1. n \in 1..(MaxDocs + 1) /\ k \in Nat /\ n + k <= printed + 1 /\ e = n + k /\ l = 0
        BY <1>1, <3>1, <3>3, TerminalIs, NoJobs
      <4> HIDE DEF n, k, e, l
      <4>2. e + l <= printed + 1
        BY <1>3, <4>1
      <4> QED
        BY <4>2 DEF e, l
    <3> QED
      BY <3>1, <3>2, <3>3, <3>4
  <2>4. ASSUME NEW t \in Terminals, ~HasNews(t)
        PROVE  /\ G[t] = F[t] /\ term'[t].jobs = term[t].jobs /\ term'[t].next = term[t].next
               /\ term'[t].ready = term[t].ready /\ term'[t].live = term[t].live
    BY <1>1, <2>1, <2>4, TickedTerminal DEF Extended
  <2>5. Numbered(G)'
    BY <1>1, <2>3, <2>4 DEF Numbered
  <2>6. SpoolsListed(G)'
    BY <1>1, <2>3, <2>4 DEF SpoolsListed
  <2>7. ChoicesListed(G)'
    <3>1. NTerminals \in Nat
      BY BoundAssumption
    <3>2. ASSUME NEW c \in Clients
          PROVE  /\ app[c].dialog.term = 0 => app[c].dialog.listed = <<>>
                 /\ app[c].dialog.term # 0 => RowsOf(G[app[c].dialog.term], app[c].dialog.listed)
                 /\ app[c].pending.term # 0 => InList(G[app[c].pending.term], app[c].pending.row)
      <4> DEFINE t == app[c].dialog.term
                 s == app[c].pending.term
      <4>1. (t # 0 => t \in Terminals) /\ (s # 0 => s \in Terminals)
        <5>1. t \in 0..NTerminals /\ s \in 0..NTerminals
          BY <1>1, AppIs
        <5> HIDE DEF t, s
        <5> QED
          BY <3>1, <5>1 DEF Terminals
      <4>2. /\ t = 0 => app[c].dialog.listed = <<>>
            /\ t # 0 => RowsOf(F[t], app[c].dialog.listed)
            /\ s # 0 => InList(F[s], app[c].pending.row)
        BY <1>1 DEF ChoicesListed
      <4>3. \A r \in Terminals : \A row : InList(F[r], row) => InList(G[r], row)
        BY <2>2 DEF Grown, InList
      <4> HIDE DEF t, s
      <4>4. /\ t = 0 => app[c].dialog.listed = <<>>
            /\ t # 0 => RowsOf(G[t], app[c].dialog.listed)
            /\ s # 0 => InList(G[s], app[c].pending.row)
        BY <4>1, <4>2, <4>3 DEF RowsOf
      <4> QED
        BY <4>4 DEF t, s
    <3> QED
      BY <1>2, <3>2 DEF ChoicesListed
  <2>8. \A c \in Clients : \E z \in Good(F) :
           /\ Leads(F, Now(c), down[c], z) /\ Quiet(z)
           /\ reader[c].attached /\ reader[c].told => \A t \in Live : Shows(z, t)
    BY DEF Agreed, Foreseen
  <2>9. ASSUME NEW c \in Clients, c \in FirstReader(reader)
        PROVE  down'[c] \in Seq(Message) /\ Foreseen(G, c)'
    <3>1. PICK z \in Good(F) :
             /\ Leads(F, Now(c), down[c], z) /\ Quiet(z)
             /\ reader[c].attached /\ reader[c].told => \A t \in Live : Shows(z, t)
      BY <2>8
    <3>2. down'[c] = down[c] \o news /\ down[c] \in Seq(Message)
      BY <1>2, <1>3, <2>9
    <3>3. /\ down[c] \o news \in Seq(Message)
          /\ \E y \in Good(G) :
                /\ Leads(G, Now(c), down[c] \o news, y) /\ y.known = z.known /\ Quiet(y)
                /\ \A t \in Terminals :
                      IF HasNews(t)
                        THEN NewsSeen(z, y, t, NewRows(term[t]), Len(Collected(term[t]).jobs))
                        ELSE y.mirror[t] = z.mirror[t]
      <4>1. TickLeads(F, Now(c), down[c], z, news)
        BY <1>1, <3>1, <3>2, LeadsTick DEF news
      <4> QED
        BY <2>1, <4>1 DEF TickLeads
    <3>4. PICK y \in Good(G) :
                /\ Leads(G, Now(c), down[c] \o news, y) /\ y.known = z.known /\ Quiet(y)
                /\ \A t \in Terminals :
                      IF HasNews(t)
                        THEN NewsSeen(z, y, t, NewRows(term[t]), Len(Collected(term[t]).jobs))
                        ELSE y.mirror[t] = z.mirror[t]
      BY <3>3
    <3>5. ASSUME HasTheNews(c)', NEW t \in Live' PROVE Shows(y, t)'
      <4>1. t \in Terminals /\ t \in Live
        BY <1>1, <2>3, <2>4 DEF Live
      <4>2. Shows(z, t)
        BY <1>5, <3>1, <3>5, <4>1 DEF HasTheNews
      <4>3. CASE HasNews(t)
        <5> DEFINE rows == NewRows(term[t])
                   jobs == term[t].jobs
        <5>1. /\ t \in z.known /\ Range(jobs) \subseteq Range(z.mirror[t].jobs)
              /\ NewsSeen(z, y, t, rows, Len(term'[t].jobs))
              /\ term'[t].jobs = jobs \o rows /\ rows \in Seq(HeldJob) /\ jobs \in Seq(HeldJob)
          BY <1>1, <2>3, <3>4, <4>1, <4>2, <4>3, TerminalIs DEF Shows
        <5> HIDE DEF rows, jobs
        <5>2. Range(jobs \o rows) \subseteq Range(jobs) \cup Range(rows)
          <6>1. /\ DOMAIN jobs = 1..Len(jobs) /\ DOMAIN rows = 1..Len(rows)
                /\ DOMAIN (jobs \o rows) = 1..(Len(jobs) + Len(rows))
                /\ \A i \in 1..Len(jobs) : (jobs \o rows)[i] = jobs[i]
                /\ \A i \in 1..Len(rows) : (jobs \o rows)[Len(jobs) + i] = rows[i]
                /\ \A i \in 1..(Len(jobs) + Len(rows)) :
                      i \in 1..Len(jobs) \/ \E j \in 1..Len(rows) : i = Len(jobs) + j
            BY <5>1, ConcatParts
          <6>2. ASSUME NEW i \in DOMAIN (jobs \o rows)
                PROVE  (jobs \o rows)[i] \in Range(jobs) \cup Range(rows)
            <7>1. CASE i \in 1..Len(jobs)
              BY <6>1, <7>1 DEF Range
            <7>2. CASE i \notin 1..Len(jobs)
              <8>1. PICK j \in 1..Len(rows) : i = Len(jobs) + j
                BY <6>1, <7>2
              <8> QED
                BY <6>1, <8>1 DEF Range
            <7> QED
              BY <7>1, <7>2
          <6> QED
            BY <6>2 DEF Range
        <5>3. /\ t \in y.known /\ Range(term'[t].jobs) \subseteq Range(y.mirror[t].jobs)
              /\ y.mirror[t].count = Len(term'[t].jobs)
          BY <3>4, <5>1, <5>2 DEF NewsSeen
        <5> QED
          BY <5>3 DEF Shows
      <4>4. CASE ~HasNews(t)
        <5>1. y.mirror[t] = z.mirror[t] /\ term'[t].jobs = term[t].jobs /\ y.known = z.known
          BY <2>4, <3>4, <4>1, <4>4
        <5> QED
          BY <4>2, <4>4, <5>1 DEF Shows
      <4> QED
        BY <4>3, <4>4
    <3>6. Leads(G, Now(c)', down'[c], y)
      BY <1>5, <3>2, <3>4
    <3> QED
      BY <3>2, <3>3, <3>4, <3>5, <3>6 DEF Foreseen, HasTheNews
  <2>10. ASSUME NEW c \in Clients, c \notin FirstReader(reader)
         PROVE  down'[c] \in Seq(Message) /\ Foreseen(G, c)'
    <3>1. PICK z \in Good(F) : Leads(F, Now(c), down[c], z) /\ Quiet(z)
      BY <2>8
    <3>2. down'[c] = down[c] /\ down[c] \in Seq(Message)
      BY <1>2, <1>3, <2>10
    <3>3. Leads(G, Now(c)', down'[c], z) /\ z \in Good(G)
      BY <1>5, <2>2, <3>1, <3>2, LeadsGrows
    <3>4. ~HasTheNews(c)'
      BY <1>5, <2>10
    <3> QED
      BY <3>1, <3>2, <3>3, <3>4 DEF Foreseen, HasTheNews
  <2>11. \A c \in Clients : down'[c] \in Seq(Message) /\ Foreseen(G, c)'
    BY <2>9, <2>10
  <2>12. down' \in [Clients -> Seq(Message)]
    <3>1. down' = [c \in Clients |-> down'[c]]
      BY <1>2
    <3> QED
      BY <2>11, <3>1
  <2>13. Typed'
    <3>1. \A t \in Terminals : term'[t].next + Len(term'[t].ready) <= printed' + 1
      BY <1>1, <1>2, <2>3, <2>4 DEF Typed
    <3>2. \A t \in Terminals : Rising(term'[t].jobs)
      BY <1>7, <2>3, <2>4
    <3> QED
      BY <1>1, <1>2, <1>4, <2>12, <3>1, <3>2 DEF Typed, Rising
  <2> QED
    BY <1>6, <2>2, <2>5, <2>6, <2>7, <2>11, <2>13 DEF Base, Agreed
<1> QED
  BY <1>8, <1>9

(***************************************************************************)
(* The invariant, and what follows from it.                                *)
(***************************************************************************)
LEMMA InitIInv == Init => IInv
<1> SUFFICES ASSUME Init PROVE IInv
  OBVIOUS
<1>1. /\ term = [t \in Terminals |-> [live |-> TRUE, ready |-> <<>>, damage |-> FALSE,
                                      news |-> FALSE, jobs |-> <<>>, next |-> 1]]
      /\ reader = [c \in Clients |-> [attached |-> FALSE, mode |-> "TakeOver", told |-> FALSE]]
      /\ mirror = [c \in Clients |-> [t \in Terminals |-> BlankMirror]]
      /\ app = [c \in Clients |-> [known |-> {}, showing |-> {}, dialog |-> NoDialog,
                                   pending |-> NoPending]]
      /\ down = [c \in Clients |-> <<>>] /\ saves = {} /\ printed = 0
  BY DEF Init
<1>2. /\ MaxDocs \in Nat /\ NTerminals \in Nat /\ 1 \in 1..(MaxDocs + 1) /\ printed \in 0..MaxDocs
  BY <1>1, BoundAssumption
<1>3. term \in [Terminals -> Terminal] /\ reader \in [Clients -> Reader]
  BY <1>1, <1>2, NoJobs DEF Terminal, Reader, Modes
<1>4. /\ NoDialog \in [term : 0..NTerminals, listed : Seq(HeldJob)] /\ NoDialog.term = 0
      /\ NoDialog.listed = <<>>
      /\ NoPending \in [term : 0..NTerminals, row : HeldJob \cup {NoRow}] /\ NoPending.term = 0
  BY <1>2 DEF NoDialog, NoPending
<1>5. app \in [Clients -> App]
  <2> HIDE DEF NoDialog, NoPending
  <2> QED
    BY <1>1, <1>4 DEF App
<1>6. mirror \in [Clients -> [Terminals -> Mirror]] /\ down \in [Clients -> Seq(Message)]
  <2>1. BlankMirror \in Mirror /\ <<>> \in Seq(Message)
    BY BlankIs
  <2> QED
    BY <1>1, <2>1
<1>7. \A t \in Terminals : term[t].next = 1 /\ term[t].ready = <<>> /\ term[t].jobs = <<>>
  BY <1>1
<1>8. Typed
  <2>1. \A t \in Terminals : term[t].next + Len(term[t].ready) <= printed + 1
    BY <1>1, <1>7, NoJobs
  <2>2. \A t \in Terminals : \A i, j \in DOMAIN term[t].jobs :
           i < j => term[t].jobs[i].job < term[t].jobs[j].job
    <3>1. \A t \in Terminals : DOMAIN term[t].jobs = {}
      BY <1>7
    <3> QED
      BY <3>1
  <2> QED
    BY <1>2, <1>3, <1>5, <1>6, <2>1, <2>2 DEF Typed
<1>9. ToldIsFirst /\ SavedIsTheDocument
  BY <1>1 DEF ToldIsFirst, SavedIsTheDocument
<1> DEFINE E == [t \in Terminals |-> <<>>]
<1>10. PICK F : F = E
  OBVIOUS
<1>11. F \in Catalogues /\ \A t \in Terminals : F[t] = <<>>
  BY <1>10, NoJobs DEF Catalogues
<1>12. Numbered(F) /\ SpoolsListed(F)
  BY <1>7, <1>11, NoJobs DEF Numbered, SpoolsListed, RowsOf
<1>13. ChoicesListed(F)
  BY <1>1, <1>4 DEF ChoicesListed
<1>14. ASSUME NEW c \in Clients PROVE Foreseen(F, c)
  <2>1. Now(c) = [known |-> {}, mirror |-> [t \in Terminals |-> BlankMirror]]
    BY <1>1 DEF Now
  <2>2. \A t \in Terminals : /\ BlankMirror \in Mirror /\ GoodMirror(F[t], BlankMirror)
                             /\ DOMAIN BlankMirror.fetching = {}
    BY BlankIs
  <2>3. Now(c) \in Good(F) /\ Quiet(Now(c))
    BY <2>1, <2>2 DEF Good, View, Quiet
  <2>4. down[c] = <<>> /\ ~reader[c].attached
    BY <1>1
  <2>5. Leads(F, Now(c), down[c], Now(c))
    BY <2>3, <2>4, LeadsNone
  <2> QED
    BY <2>3, <2>4, <2>5 DEF Foreseen
<1> QED
  BY <1>8, <1>9, <1>11, <1>12, <1>13, <1>14 DEF IInv, Base, Agreed

LEMMA StutterIInv ==
    ASSUME Base, NEW F, Agreed(F), UNCHANGED vars PROVE Base' /\ Agreed(F)'
<1>1. UNCHANGED <<term, reader, mirror, down, printed, app, saves>>
  BY DEF vars
<1>2. app' \in [Clients -> App] /\ ChoicesListed(F)' /\ SavedIsTheDocument'
  BY <1>1 DEF Base, Typed, Agreed, ChoicesListed, SavedIsTheDocument
<1> QED
  BY <1>1, <1>2, OwnStep

LEMMA NextIInv == IInv /\ [Next]_vars => IInv'
<1> SUFFICES ASSUME IInv, [Next]_vars PROVE IInv'
  OBVIOUS
<1>1. Base
  BY DEF IInv
<1>2. PICK F : Agreed(F)
  BY DEF IInv
<1>3. CASE Tick
  BY <1>1, <1>2, <1>3, StepTick DEF IInv
<1>4. ASSUME NEW t \in Terminals, TerminalEnds(t) PROVE IInv'
  BY <1>1, <1>2, <1>4, StepTerminalEnds DEF IInv
<1>5. ASSUME NEW t \in Terminals, NEW k \in 1..(SpoolLimit + 1), EndDocument(t, k) PROVE IInv'
  BY <1>1, <1>2, <1>5, StepEndDocument DEF IInv
<1>6. ASSUME NEW c \in Clients, Receive(c) PROVE IInv'
  BY <1>1, <1>2, <1>6, StepReceive DEF IInv
<1>7. ASSUME NEW c \in Clients, FinishPendingSave(c) PROVE IInv'
  BY <1>1, <1>2, <1>7, StepFinishPendingSave DEF IInv
<1>8. ASSUME NEW c \in Clients, CloseDialog(c) PROVE IInv'
  BY <1>1, <1>2, <1>8, StepCloseDialog DEF IInv
<1>9. ASSUME NEW c \in Clients, NEW mode \in Modes, Attach(c, mode) PROVE IInv'
  BY <1>1, <1>2, <1>9, StepAttach DEF IInv
<1>10. ASSUME NEW c \in Clients, NEW t \in Terminals, Respawn(c, t) PROVE IInv'
  BY <1>1, <1>2, <1>10, StepRespawn DEF IInv
<1>11. ASSUME NEW c \in Clients, NEW t \in Terminals, ShowPrintOutput(c, t) PROVE IInv'
  BY <1>1, <1>2, <1>11, StepShowPrintOutput DEF IInv
<1>12. ASSUME NEW c \in Clients, NEW t \in Terminals, DiscardAll(c, t) PROVE IInv'
  BY <1>1, <1>2, <1>12, StepDiscardAll DEF IInv
<1>13. ASSUME NEW c \in Clients, NEW i \in DOMAIN app[c].dialog.listed, Save(c, i) PROVE IInv'
  BY <1>1, <1>2, <1>13, StepSave DEF IInv
<1>14. CASE UNCHANGED vars
  BY <1>1, <1>2, <1>14, StutterIInv DEF IInv
<1> QED
  BY <1>3, <1>4, <1>5, <1>6, <1>7, <1>8, <1>9, <1>10, <1>11, <1>12, <1>13, <1>14 DEF Next

LEMMA Invariance == Spec => []IInv
BY InitIInv, NextIInv, PTL DEF Spec

LEMMA IInvTypeOK == IInv => TypeOK
<1> SUFFICES ASSUME IInv PROVE TypeOK
  OBVIOUS
<1>1. Typed
  BY DEF IInv, Base
<1>2. PICK F : Agreed(F)
  BY DEF IInv
<1>3. ASSUME NEW c \in Clients, NEW t \in Terminals
      PROVE  /\ mirror[c][t].jobs \in Seq(HeldJob) /\ mirror[c][t].count \in 0..MaxDocs
             /\ Range(mirror[c][t].fetched) \subseteq Texts
  <2>1. mirror[c][t] \in Mirror
    BY <1>1 DEF Typed
  <2>2. mirror[c][t].fetched \in Kept
    BY <2>1 DEF Mirror
  <2>3. \A j \in DOMAIN mirror[c][t].fetched : mirror[c][t].fetched[j] \in Texts
    BY <2>2, KeptIs
  <2> QED
    BY <2>1, <2>3 DEF Mirror, Range
\* A job held is in the catalogue, which is as long as the numbers given.
<1>4. ASSUME NEW t \in Terminals, NEW i \in DOMAIN term[t].jobs
      PROVE  /\ term[t].jobs[i].job < term[t].next
             /\ i > 1 => term[t].jobs[i - 1].job < term[t].jobs[i].job
  <2>1. term[t].jobs \in Seq(HeldJob) /\ term[t].next \in 1..(MaxDocs + 1)
    BY <1>1, TerminalIs
  <2>2. /\ F[t] \in Seq(HeldJob) /\ Len(F[t]) = term[t].next - 1
        /\ term[t].jobs[i].job \in DOMAIN F[t]
    BY <1>2 DEF Agreed, Catalogues, Numbered, SpoolsListed, RowsOf, InList
  <2>3. term[t].jobs[i].job \in 1..(term[t].next - 1)
    BY <2>2, LenProperties
  <2>4. term[t].jobs[i].job < term[t].next
    <3> DEFINE j == term[t].jobs[i].job
               n == term[t].next
    <3>1. j \in 1..(n - 1) /\ n \in 1..(MaxDocs + 1) /\ MaxDocs \in Nat
      BY <2>1, <2>3, BoundAssumption
    <3> HIDE DEF j, n
    <3>2. j < n
      BY <3>1
    <3> QED
      BY <3>2 DEF j, n
  <2>5. ASSUME i > 1 PROVE term[t].jobs[i - 1].job < term[t].jobs[i].job
    <3>1. DOMAIN term[t].jobs = 1..Len(term[t].jobs) /\ Len(term[t].jobs) \in Nat
      BY <2>1, LenProperties
    <3>2. i \in Int /\ i - 1 \in DOMAIN term[t].jobs /\ i - 1 < i
      <4> DEFINE D == DOMAIN term[t].jobs
                 n == Len(term[t].jobs)
      <4>1. i \in D /\ D = 1..n /\ n \in Nat
        BY <3>1
      <4> HIDE DEF D, n
      <4>2. i \in Int /\ i - 1 \in D /\ i - 1 < i
        BY <2>5, <4>1
      <4> QED
        BY <4>2 DEF D
    <3> QED
      BY <1>1, <3>2 DEF Typed
  <2> QED
    BY <2>4, <2>5
<1> QED
  BY <1>1, <1>3, <1>4 DEF TypeOK, Typed

LEMMA IInvSees == IInv => ReaderSeesWhatIsHeld
<1> SUFFICES ASSUME IInv, NEW c \in Clients, NEW t \in Live,
                    reader[c].attached, reader[c].told, down[c] = <<>>, ~HasNews(t)
             PROVE  /\ Range(term[t].jobs) \subseteq Range(mirror[c][t].jobs)
                    /\ mirror[c][t].count \in {0, Len(term[t].jobs)}
  BY DEF ReaderSeesWhatIsHeld
<1>1. PICK F : Agreed(F)
  BY DEF IInv
<1>2. PICK z \in Good(F) :
         /\ Leads(F, Now(c), down[c], z)
         /\ reader[c].attached /\ reader[c].told => \A s \in Live : Shows(z, s)
  BY <1>1 DEF Agreed, Foreseen
<1>3. down[c] \in Seq(Message)
  BY DEF IInv, Base, Typed
<1>4. z = Now(c)
  <2> DEFINE q == down[c]
             v == Now(c)
  <2>1. Leads(F, v, q, z) /\ q \in Seq(Message) /\ q = <<>>
    BY <1>2, <1>3
  <2> HIDE DEF q, v
  <2>2. z = v
    BY <2>1, LeadsEnd
  <2> QED
    BY <2>2 DEF v
<1>5. z.mirror = mirror[c]
  BY <1>4 DEF Now
<1> QED
  BY <1>2, <1>5 DEF Shows

\* Every part of the virtual printer has its type whatever readers and programs
\* do, and the jobs of a spool rise and stay below the next number to give.
THEOREM SpoolTypes == Spec => []TypeOK
BY Invariance, IInvTypeOK, PTL

\* Once a reader who gets the news has handled what was queued for it, its list
\* has every job its live terminals hold, and the count on the frame button is
\* theirs or none: for any readers, documents, discards, heals and take-overs.
THEOREM ReaderSees == Spec => []ReaderSeesWhatIsHeld
BY Invariance, IInvSees, PTL

\* Whatever is written from the Print Output dialog is the whole text of the
\* document whose row was chosen, however the pieces of it were interleaved
\* with snapshots, closings, discards and other fetches.
THEOREM SavedWhole == Spec => []SavedIsTheDocument
<1>1. IInv => SavedIsTheDocument
  BY DEF IInv, Base
<1> QED
  BY <1>1, Invariance, PTL
=============================================================================
