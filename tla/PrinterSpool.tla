---------------------------- MODULE PrinterSpool ----------------------------
(***************************************************************************)
(* The virtual printer of one session's terminals: the emulator finishes   *)
(* documents, the tick moves them into the terminal's spool and tells the  *)
(* reader who gets the news, a mirror lists them, and a reader saves one   *)
(* from the Print Output dialog, whose text may have to be fetched first,  *)
(* while another discards, heals, is taken over or respawns the terminal.  *)
(* Requests are handled as they are sent; what the server says is queued.  *)
(* A document is a number and a length in pieces of one chunk; one of no   *)
(* pieces overflowed the spool, and its text was freed.  Printer policies  *)
(* set while the server runs are left out: no client sends one.            *)
(***************************************************************************)
EXTENDS Integers, Sequences, FiniteSets, SequencesExt

CONSTANTS
    Clients,        \* the connections, numbered in the order they were accepted
    NTerminals,     \* the session's terminals
    SpoolLimit,     \* the pieces one document may have (spool-limit)
    MaxDocs,        \* bound: documents printed in one behaviour
    MaxActs         \* bound: things readers and programs do in one behaviour

ASSUME ClientAssumption == Clients \subseteq Nat \ {0} /\ IsFiniteSet(Clients)
ASSUME BoundAssumption == {NTerminals, SpoolLimit, MaxDocs, MaxActs} \subseteq Nat

VARIABLES
    term,           \* what the server holds of each terminal, its emulator included
    reader,         \* what the server holds of each client
    mirror, app,    \* what each client holds of each terminal, and of its dialogs
    down,           \* messages to each client, in order
    saves,          \* every file written: its name, what was chosen, what was put in
    printed, acts

vars == <<term, reader, mirror, app, down, saves, printed, acts>>

Terminals == 1..NTerminals
Modes == {"TakeOver", "Join", "Watch"}

Document == [doc : 1..MaxDocs, pieces : 0..SpoolLimit]
\* A job in a spool, and the row that describes it; the row has no text.
HeldJob == [job : 1..MaxDocs, doc : 1..MaxDocs, pieces : 0..SpoolLimit]
NoRow == [job |-> 0, doc |-> 0, pieces |-> 0]
Text(job) == [i \in 1..job.pieces |-> <<job.doc, i>>]
Texts == Seq((1..MaxDocs) \X (1..SpoolLimit))
\* What a mirror keeps of fetches: by job, and only for some.
Kept == UNION {[J -> Texts] : J \in SUBSET (1..MaxDocs)}
Nothing == [j \in {} |-> <<>>]

Terminal == [live : BOOLEAN, ready : Seq(Document), damage : BOOLEAN, news : BOOLEAN,
             jobs : Seq(HeldJob), next : 1..(MaxDocs + 1)]
Reader == [attached : BOOLEAN, mode : Modes, told : BOOLEAN]
Mirror == [jobs : Seq(HeldJob), count : 0..MaxDocs, fetching : Kept, fetched : Kept]
App == [known : SUBSET Terminals, showing : SUBSET Terminals,
        dialog : [term : 0..NTerminals, listed : Seq(HeldJob)],
        pending : [term : 0..NTerminals, row : HeldJob \cup {NoRow}]]

NoDialog == [term |-> 0, listed |-> <<>>]
NoPending == [term |-> 0, row |-> NoRow]
BlankMirror == [jobs |-> <<>>, count |-> 0, fetching |-> Nothing, fetched |-> Nothing]

\* Every part has its type, and a terminal's next job number is past all it gave.
TypeOK ==
    /\ term \in [Terminals -> Terminal] /\ reader \in [Clients -> Reader] /\ printed \in 0..MaxDocs
    /\ \A c \in Clients :
          /\ app[c] \in App
          /\ \A t \in Terminals :
                /\ mirror[c][t].jobs \in Seq(HeldJob) /\ mirror[c][t].count \in 0..MaxDocs
                /\ Range(mirror[c][t].fetched) \subseteq Texts
    /\ \A t \in Terminals : \A i \in DOMAIN term[t].jobs :
          /\ term[t].jobs[i].job < term[t].next
          /\ i > 1 => term[t].jobs[i - 1].job < term[t].jobs[i].job

Init ==
    /\ term = [t \in Terminals |-> [live |-> TRUE, ready |-> <<>>, damage |-> FALSE,
                                    news |-> FALSE, jobs |-> <<>>, next |-> 1]]
    /\ reader = [c \in Clients |-> [attached |-> FALSE, mode |-> "TakeOver", told |-> FALSE]]
    /\ mirror = [c \in Clients |-> [t \in Terminals |-> BlankMirror]]
    /\ app = [c \in Clients |-> [known |-> {}, showing |-> {}, dialog |-> NoDialog,
                                 pending |-> NoPending]]
    /\ down = [c \in Clients |-> <<>>]
    /\ saves = {} /\ printed = 0 /\ acts = 0

Act == acts < MaxActs /\ acts' = acts + 1
Live == {t \in Terminals : term[t].live}

----------------------------------------------------------------------------
(* The emulator, and the server's tick. *)

\* A program ends a document; one past the limit is freed rather than cut.
EndDocument(t, k) ==
    /\ printed < MaxDocs /\ t \in Live
    /\ printed' = printed + 1
    /\ LET d == [doc |-> printed + 1, pieces |-> IF k > SpoolLimit THEN 0 ELSE k]
       IN term' = [term EXCEPT ![t].ready = Append(@, d), ![t].damage = TRUE]
    /\ UNCHANGED <<reader, mirror, app, down, saves, acts>>

\* client_attached_to answers one reader, the first in the list of clients.
FirstReader(readers) ==
    {c \in Clients : readers[c].attached /\ \A d \in Clients : readers[d].attached => c <= d}
\* History: whether a reader has had the news since its last snapshot.
WhoIsTold(readers) ==
    [c \in Clients |-> [readers[c] EXCEPT !.told = @ /\ c \in FirstReader(readers)]]

\* Mutant of Collected: the number is not counted on.
CollectedSame(x) ==
    [x EXCEPT !.ready = <<>>,
              !.jobs = @ \o [i \in DOMAIN x.ready |->
                  [job |-> x.next, doc |-> x.ready[i].doc, pieces |-> x.ready[i].pieces]]]
Collected(x) ==
    [x EXCEPT !.ready = <<>>, !.next = @ + Len(x.ready),
              !.jobs = @ \o [i \in DOMAIN x.ready |->
                  [job |-> x.next + i - 1, doc |-> x.ready[i].doc, pieces |-> x.ready[i].pieces]]]

HasNews(t) == t \in Live /\ (term[t].damage \/ term[t].news)
PrinterNews(t) ==
    IF ~HasNews(t) THEN <<>>
    ELSE LET x == Collected(term[t])
             added == SubSeq(x.jobs, Len(term[t].jobs) + 1, Len(x.jobs))
         IN [i \in DOMAIN added |-> [type |-> "PrintJobAdded", term |-> t, row |-> added[i]]]
            \o <<[type |-> "PrintState", term |-> t, jobs |-> Len(x.jobs)]>>

\* The damage is cleared whoever is there; without a reader the rest is not
\* reached. With damage the mark of the server's own news is not looked at.
Tick ==
    /\ \E t \in Terminals : HasNews(t)
    /\ term' = [t \in Terminals |->
           LET x == [term[t] EXCEPT !.damage = FALSE]
           IN IF FirstReader(reader) = {} \/ ~HasNews(t) THEN x
              ELSE [Collected(x) EXCEPT !.news = @ /\ term[t].damage]]
    /\ down' = [c \in Clients |-> IF c \in FirstReader(reader)
                                    THEN down[c] \o FlattenSeq([t \in Terminals |-> PrinterNews(t)])
                                    ELSE down[c]]
    /\ \E c \in Clients : down'[c] # down[c] \/ \E t \in Terminals : term[t].damage
    /\ UNCHANGED <<reader, mirror, app, saves, printed, acts>>

----------------------------------------------------------------------------
(* Readers and terminals that come and go. *)

\* A snapshot's rows: every job held, without its text.
Spools == [t \in Live |-> term[t].jobs]

Said(who, message) == [c \in Clients |-> IF c \in who THEN Append(down[c], message) ELSE down[c]]
Readers == {c \in Clients : reader[c].attached}

\* Also how a mirror that fell behind is healed.
Attach(c, mode) ==
    /\ Act
    /\ LET evicted == IF mode = "TakeOver" THEN FirstReader(reader) \ {c} ELSE {}
           left == [d \in Clients |-> IF d \in evicted THEN [reader[d] EXCEPT !.attached = FALSE]
                                      ELSE reader[d]]
           snapshot == [type |-> "Attached", spools |-> Spools]
       IN /\ reader' = WhoIsTold([left EXCEPT ![c] = [attached |-> TRUE, mode |-> mode,
                                                      told |-> TRUE]])
          /\ down' = [Said(evicted, [type |-> "Detached"]) EXCEPT ![c] = Append(@, snapshot)]
    /\ UNCHANGED <<term, mirror, app, saves, printed>>

TerminalEnds(t) ==
    /\ Act /\ t \in Live
    /\ term' = [term EXCEPT ![t] = [@ EXCEPT !.live = FALSE, !.ready = <<>>, !.jobs = <<>>]]
    /\ down' = Said(Readers, [type |-> "TermClosed", term |-> t])
    /\ UNCHANGED <<reader, mirror, app, saves, printed>>

\* The program has ended and another is started in its place, in an emulator of
\* its own; the spool and its numbers are the terminal's.
Respawn(c, t) ==
    /\ Act /\ t \in Live /\ t \in app[c].showing /\ reader[c].mode # "Watch"
    /\ term' = [term EXCEPT ![t].ready = <<>>, ![t].damage = FALSE]
    /\ down' = Said(Readers, [type |-> "TermOpened", term |-> t])
    /\ UNCHANGED <<reader, mirror, app, saves, printed>>

----------------------------------------------------------------------------
(* What a mirror does with what it is told. *)

\* A snapshot restates the list, and drops what was fetched or on its way.
Adopted(rows) == [BlankMirror EXCEPT !.jobs = rows, !.count = Len(rows)]

\* Mutant of WithAdded: neither message about a job is dispatched to the mirror.
WithAddedUndispatched(x, row) == x
WithAdded(x, row) ==
    LET known == {i \in DOMAIN x.jobs : x.jobs[i].job = row.job}
        rows == IF known = {} THEN Append(x.jobs, row)
                ELSE [i \in DOMAIN x.jobs |-> IF i \in known THEN row ELSE x.jobs[i]]
    IN [x EXCEPT !.jobs = rows, !.count = Len(rows)]

Put(f, job, text) == [j \in DOMAIN f \cup {job} |-> IF j = job THEN text ELSE f[j]]
WithData(x, m) ==
    LET before == IF m.job \in DOMAIN x.fetching THEN x.fetching[m.job] ELSE <<>>
        text == before \o m.bytes
    IN IF ~m.final THEN [x EXCEPT !.fetching = Put(@, m.job, text)]
       ELSE [x EXCEPT !.fetched = Put(@, m.job, text),
                      !.fetching = [j \in DOMAIN @ \ {m.job} |-> @[j]]]

Told(x, m) ==
    CASE m.type = "PrintJobAdded" -> WithAdded(x, m.row)
      [] m.type = "PrintState" -> [x EXCEPT !.count = m.jobs]
      [] m.type = "PrintJobData" -> WithData(x, m)
      \* open: the count starts again, the list does not.
      [] m.type = "TermOpened" -> [x EXCEPT !.count = 0]

\* A window that is gone takes the save that waited in it along, at the next poll.
Showing(x, terminals) ==
    [x EXCEPT !.showing = terminals,
              !.pending = IF @.term \in terminals THEN @ ELSE NoPending]
Knowing(x, terminals) == [Showing(x, terminals) EXCEPT !.known = terminals]

\* A mirror outlives a detach, its window does not.
Receive(c) ==
    /\ down[c] # <<>>
    /\ LET m == Head(down[c])
       IN CASE m.type = "Attached" ->
                  /\ mirror' = [mirror EXCEPT ![c] = [t \in Terminals |->
                         IF t \in DOMAIN m.spools THEN Adopted(m.spools[t]) ELSE BlankMirror]]
                  /\ app' = [app EXCEPT ![c] = Knowing(@, DOMAIN m.spools)]
            [] m.type = "Detached" ->
                  /\ mirror' = mirror /\ app' = [app EXCEPT ![c] = Showing(@, {})]
            [] m.type = "TermClosed" ->
                  /\ mirror' = [mirror EXCEPT ![c][m.term] = BlankMirror]
                  /\ app' = [app EXCEPT ![c] = Knowing(@, app[c].known \ {m.term})]
            [] OTHER ->
                  /\ mirror' = IF m.term \in app[c].known
                                 THEN [mirror EXCEPT ![c][m.term] = Told(@, m)] ELSE mirror
                  /\ app' = app
    /\ down' = [down EXCEPT ![c] = Tail(@)]
    /\ UNCHANGED <<term, reader, saves, printed, acts>>

----------------------------------------------------------------------------
(* The Print Output dialog. *)

\* What a client asks its mirror: the rows, and whether a text has come whole.
Listed(c, t) == mirror[c][t].jobs
HasText(c, t, job) == job \in DOMAIN mirror[c][t].fetched

\* The rows are copied: the list may change while the dialog is open.
ShowPrintOutput(c, t) ==
    /\ Act /\ app[c].dialog = NoDialog
    /\ t \in app[c].showing /\ Listed(c, t) # <<>>
    /\ app' = [app EXCEPT ![c].dialog = [term |-> t, listed |-> Listed(c, t)]]
    /\ UNCHANGED <<term, reader, mirror, down, saves, printed>>

\* The dialog names no terminal: it passes zero.
AutoName(terminal, job) == <<terminal, job>>
Written(row, job, text) == saves \cup {[path |-> AutoName(0, job), asked |-> row, text |-> text]}

\* The answer to a fetch: chunks, the last one marked. A job that is not there
\* gets an Error, which nothing that waits for the text reads.
Fetched(t, job) ==
    LET held == {row \in Range(term[t].jobs) : row.job = job}
    IN IF ~term[t].live \/ held = {} THEN <<>>
       ELSE LET text == Text(CHOOSE row \in held : TRUE)
                n == IF text = <<>> THEN 1 ELSE Len(text)
            IN [i \in 1..n |-> [type |-> "PrintJobData", term |-> t, job |-> job,
                                bytes |-> SubSeq(text, i, i), final |-> i = n]]

\* Mutant of Chosen: the row is looked up in the list as it is by then.
ChosenNow(c, i) ==
    LET rows == Listed(c, app[c].dialog.term)
    IN IF i \in DOMAIN rows THEN rows[i] ELSE app[c].dialog.listed[i]
Chosen(c, i) == app[c].dialog.listed[i]

\* One save waits at a time: asking for another forgets the first.
Save(c, i) ==
    /\ i \in DOMAIN app[c].dialog.listed
    /\ LET t == app[c].dialog.term
           row == Chosen(c, i)
           asked == app[c].dialog.listed[i]
           has == HasText(c, t, row.job)
           wanted == t \in app[c].showing /\ row.pieces > 0
       IN /\ saves' = IF wanted /\ has
                        THEN Written(asked, row.job, mirror[c][t].fetched[row.job]) ELSE saves
          /\ down' = IF wanted /\ ~has THEN [down EXCEPT ![c] = @ \o Fetched(t, row.job)] ELSE down
          /\ app' = [app EXCEPT ![c].dialog = NoDialog,
                                ![c].pending = IF wanted /\ ~has
                                   THEN [term |-> t, row |-> [asked EXCEPT !.job = row.job]] ELSE @]
    /\ UNCHANGED <<term, reader, mirror, printed, acts>>

\* finish_pending_save, on each poll of the client.
FinishPendingSave(c) ==
    /\ LET p == app[c].pending
       IN /\ p.term # 0 /\ HasText(c, p.term, p.row.job)
          /\ saves' = Written(p.row, p.row.job, mirror[c][p.term].fetched[p.row.job])
    /\ app' = [app EXCEPT ![c].pending = NoPending]
    /\ UNCHANGED <<term, reader, mirror, down, printed, acts>>

\* From this dialog, or from the question the frame button asks; a client
\* whose last mode was Watch is refused, in the session or not. The mirror is
\* not told what went: the count comes with the next tick.
DiscardAll(c, t) ==
    /\ Act /\ t \in app[c].showing
    /\ app[c].dialog = NoDialog \/ app[c].dialog.term = t
    /\ app' = [app EXCEPT ![c].dialog = NoDialog]
    /\ LET refused == reader[c].mode = "Watch"
       IN term' = IF refused \/ term[t].jobs = <<>> THEN term
                  ELSE [term EXCEPT ![t].jobs = <<>>, ![t].news = TRUE]
    /\ UNCHANGED <<reader, mirror, down, saves, printed>>

CloseDialog(c) ==
    /\ app[c].dialog # NoDialog /\ app' = [app EXCEPT ![c].dialog = NoDialog]
    /\ UNCHANGED <<term, reader, mirror, down, saves, printed, acts>>

----------------------------------------------------------------------------
Next ==
    \/ Tick
    \/ \E t \in Terminals :
          \/ TerminalEnds(t)
          \/ \E k \in 1..(SpoolLimit + 1) : EndDocument(t, k)
    \/ \E c \in Clients :
          \/ Receive(c) \/ FinishPendingSave(c) \/ CloseDialog(c)
          \/ \E mode \in Modes : Attach(c, mode)
          \/ \E t \in Terminals : Respawn(c, t) \/ ShowPrintOutput(c, t) \/ DiscardAll(c, t)
          \/ \E i \in DOMAIN app[c].dialog.listed : Save(c, i)

Spec == Init /\ [][Next]_vars

----------------------------------------------------------------------------
(* Properties. *)

\* A reader who gets the news finds every job its terminals hold in the list,
\* and the count the frame button shows is of those -- or none, where a program
\* was started again -- whatever was discarded, healed or taken over meanwhile.
ReaderSeesWhatIsHeld ==
    \A c \in Clients, t \in Live :
        reader[c].attached /\ reader[c].told /\ down[c] = <<>> /\ ~HasNews(t) =>
            /\ Range(term[t].jobs) \subseteq Range(mirror[c][t].jobs)
            /\ mirror[c][t].count \in {0, Len(term[t].jobs)}

\* What was written is the whole of the document whose row the reader chose, if
\* lists, spools and terminals change between the choice and the text.
SavedIsTheDocument == \A s \in saves : s.text = Text(s.asked)

\* What printer_output.hpp says: a name is never handed to two documents.
ANameIsOneDocuments ==
    \A s, z \in saves : s.path = z.path => s.asked.doc = z.asked.doc

\* "Drained even with nobody watching" (server.cpp, above the call): a document
\* that is finished is in its terminal's spool when a tick has been, or a tick is
\* still to come for it.
DrainedWhoeverWatches == \A t \in Live : ~HasNews(t) => term[t].ready = <<>>
=============================================================================
