----------------------------- MODULE ReaderModes -----------------------------
(***************************************************************************)
(* Who is in a session and what each of them may do there: attaching by    *)
(* taking over, joining or watching, a reader changing its own mode or     *)
(* everybody else's, and the heal of a mirror that fell behind, which is   *)
(* an Attach too and carries the mode the client holds at that moment.     *)
(* Requests and answers cross on the wire; one session stands for all, as  *)
(* no request here reaches two.                                            *)
(***************************************************************************)
EXTENDS Integers, Sequences, FiniteSets

CONSTANTS
    Clients,        \* the connections, numbered in the order they were accepted
    MaxActs         \* bound: how many things readers do in one behaviour

ASSUME ClientAssumption == Clients \subseteq Nat /\ IsFiniteSet(Clients)
ASSUME ActsAssumption == MaxActs \in Nat

VARIABLES
    reader,         \* what the server holds of each client
    app,            \* what each client holds of itself
    up, down,       \* requests to the server and answers from it, in order
    acts

vars == <<reader, app, up, down, acts>>

Modes == {"TakeOver", "Join", "Watch"}
Scopes == {"Me", "Others"}

\* Mutant of AttachRequest: nobody sets the mode of the request.
AttachRequestBare(mode) == [type |-> "Attach", scope |-> "Me", mode |-> "Unset"]
AttachRequest(mode) == [type |-> "Attach", scope |-> "Me", mode |-> mode]
ModeRequest(scope, mode) == [type |-> "SetReaderMode", scope |-> scope, mode |-> mode]
Requests == [type : {"Attach", "SetReaderMode"}, scope : Scopes, mode : Modes]

Answer(type, mode) == [type |-> type, mode |-> mode]
Answers == [type : {"Attached", "Detached", "ReaderMode", "Error"}, mode : Modes]

Reader == [attached : BOOLEAN, mode : Modes]
App == [attached : BOOLEAN, mode : Modes, asked : BOOLEAN, behind : BOOLEAN]

\* The four parts of the state keep their types.
TypeOK ==
    /\ reader \in [Clients -> Reader] /\ app \in [Clients -> App]
    /\ up \in [Clients -> Seq(Requests)] /\ down \in [Clients -> Seq(Answers)]
    /\ acts \in 0..MaxActs

Init ==
    /\ reader = [c \in Clients |-> [attached |-> FALSE, mode |-> "TakeOver"]]
    /\ app = [c \in Clients |->
                 [attached |-> FALSE, mode |-> "TakeOver", asked |-> FALSE, behind |-> FALSE]]
    /\ up = [c \in Clients |-> <<>>] /\ down = [c \in Clients |-> <<>>]
    /\ acts = 0

----------------------------------------------------------------------------
(* The clients. *)

Act == acts < MaxActs /\ acts' = acts + 1
Ask(c, request) == up' = [up EXCEPT ![c] = Append(@, request)]

\* A row of the picker; choosing the row already held asks for nothing.
PickSession(c, mode) ==
    /\ Act /\ ~(app[c].attached /\ app[c].mode = mode)
    /\ app' = [app EXCEPT ![c].mode = mode, ![c].asked = FALSE]
    /\ Ask(c, AttachRequest(mode))
    /\ UNCHANGED <<reader, down>>

\* "Watch Only" ticks and unticks; the client believes it at once.
WatchOnly(c) ==
    /\ Act /\ app[c].attached
    /\ LET mode == IF app[c].mode = "Watch" THEN "Join" ELSE "Watch"
       IN /\ app' = [app EXCEPT ![c].mode = mode]
          /\ Ask(c, ModeRequest("Me", mode))
    /\ UNCHANGED <<reader, down>>

\* "Others Read-Only" and "Take Session Over", greyed for a reader who watches.
AimAtOthers(c, mode) ==
    /\ Act /\ app[c].attached /\ app[c].mode # "Watch"
    /\ Ask(c, ModeRequest("Others", mode))
    /\ UNCHANGED <<reader, app, down>>

\* A delta did not follow the last one, or was refused: the mirror is behind.
FallBehind(c) ==
    /\ Act /\ app[c].attached /\ ~app[c].behind
    /\ app' = [app EXCEPT ![c].behind = TRUE]
    /\ UNCHANGED <<reader, up, down>>

Heal(c) ==
    /\ app[c].behind /\ ~app[c].asked
    /\ app' = [app EXCEPT ![c].asked = TRUE]
    /\ Ask(c, AttachRequest(app[c].mode))
    /\ UNCHANGED <<reader, down, acts>>

\* Mutant of Told: the snapshot that comes does not end the wait for it.
ToldStillAsked(a, m) ==
    CASE m.type = "Attached" -> [a EXCEPT !.attached = TRUE, !.behind = FALSE]
      [] m.type = "Detached" -> [a EXCEPT !.attached = FALSE]
      [] m.type = "ReaderMode" /\ m.mode # "TakeOver" -> [a EXCEPT !.mode = m.mode]
      [] OTHER -> a
Told(a, m) ==
    CASE m.type = "Attached" -> [a EXCEPT !.attached = TRUE, !.asked = FALSE, !.behind = FALSE]
      [] m.type = "Detached" -> [a EXCEPT !.attached = FALSE]
      [] m.type = "ReaderMode" /\ m.mode # "TakeOver" -> [a EXCEPT !.mode = m.mode]
      [] OTHER -> a

Receive(c) ==
    /\ down[c] # <<>>
    /\ app' = [app EXCEPT ![c] = Told(@, Head(down[c]))]
    /\ down' = [down EXCEPT ![c] = Tail(@)]
    /\ UNCHANGED <<reader, up, acts>>

----------------------------------------------------------------------------
(* The server. *)

Attached == {c \in Clients : reader[c].attached}
OthersThan(c) == Attached \ {c}
\* client_attached_to answers one reader, the first in the list of clients.
FirstAttached == {c \in Attached : \A d \in Attached : c <= d}

AskedNow(c) == Head(up[c])
Taken(c) == up[c] # <<>> /\ up' = [up EXCEPT ![c] = Tail(@)]

\* Mutant of Said: and overtakes it.
SaidAtOnce(S, m) == [d \in Clients |-> IF d \in S THEN <<m>> \o down[d] ELSE down[d]]
\* Every reader in S is answered with m, after what is on its way already.
Said(S, m) == [d \in Clients |-> IF d \in S THEN Append(down[d], m) ELSE down[d]]

\* Whom a take-over detaches: the first reader found, unless that is who asks.
Evicted(c, mode) == IF mode = "TakeOver" THEN FirstAttached \ {c} ELSE {}

HandleAttach(c) ==
    /\ Taken(c) /\ AskedNow(c).type = "Attach"
    /\ LET mode == AskedNow(c).mode
           gone == Evicted(c, mode)
       IN /\ reader' = [d \in Clients |->
                 IF d = c THEN [attached |-> TRUE, mode |-> mode]
                 ELSE IF d \in gone THEN [reader[d] EXCEPT !.attached = FALSE]
                 ELSE reader[d]]
          /\ down' = [Said(gone, Answer("Detached", "Join"))
                         EXCEPT ![c] = Append(@, Answer("Attached", mode))]
    /\ UNCHANGED <<app, acts>>

Refuses(c) == ~reader[c].attached \/ (AskedNow(c).scope = "Me" /\ AskedNow(c).mode = "TakeOver")

RefuseMode(c) ==
    /\ Taken(c) /\ AskedNow(c).type = "SetReaderMode" /\ Refuses(c)
    /\ down' = Said({c}, Answer("Error", "Join"))
    /\ UNCHANGED <<reader, app, acts>>

SetMyMode(c) ==
    /\ Taken(c) /\ AskedNow(c).type = "SetReaderMode" /\ ~Refuses(c)
    /\ AskedNow(c).scope = "Me"
    /\ reader' = [reader EXCEPT ![c].mode = AskedNow(c).mode]
    /\ UNCHANGED <<app, down, acts>>

EvictOthers(c) ==
    /\ Taken(c) /\ AskedNow(c).type = "SetReaderMode" /\ ~Refuses(c)
    /\ AskedNow(c).scope = "Others" /\ AskedNow(c).mode = "TakeOver"
    /\ reader' = [d \in Clients |->
           IF d \in OthersThan(c) THEN [reader[d] EXCEPT !.attached = FALSE] ELSE reader[d]]
    /\ down' = Said(OthersThan(c), Answer("Detached", "Join"))
    /\ UNCHANGED <<app, acts>>

\* Whoever is in that mode already is not told.
Moved(c, mode) == {d \in OthersThan(c) : reader[d].mode # mode}

SetOthersMode(c) ==
    /\ Taken(c) /\ AskedNow(c).type = "SetReaderMode" /\ ~Refuses(c)
    /\ AskedNow(c).scope = "Others" /\ AskedNow(c).mode # "TakeOver"
    /\ LET mode == AskedNow(c).mode
       IN /\ reader' = [d \in Clients |->
                 IF d \in Moved(c, mode) THEN [reader[d] EXCEPT !.mode = mode] ELSE reader[d]]
          /\ down' = Said(Moved(c, mode), Answer("ReaderMode", mode))
    /\ UNCHANGED <<app, acts>>

----------------------------------------------------------------------------
UserStep(c) ==
    \/ \E mode \in Modes : PickSession(c, mode) \/ AimAtOthers(c, mode)
    \/ WatchOnly(c) \/ FallBehind(c)
Serve(c) ==
    HandleAttach(c) \/ RefuseMode(c) \/ SetMyMode(c) \/ EvictOthers(c) \/ SetOthersMode(c)

Next == \E c \in Clients : UserStep(c) \/ Heal(c) \/ Serve(c) \/ Receive(c)

Spec == Init /\ [][Next]_vars

\* Both poll loops serve what has arrived, and the client's heals what is behind.
Fairness == \A c \in Clients : WF_vars(Heal(c)) /\ WF_vars(Serve(c)) /\ WF_vars(Receive(c))
FairSpec == Spec /\ Fairness

----------------------------------------------------------------------------
(* Properties. *)

\* The answers on their way, after which a client is in the session or out of it.
Leaves(c) == {i \in DOMAIN down[c] : down[c][i].type \in {"Attached", "Detached"}}
InAfterwards(c) ==
    IF Leaves(c) = {} THEN app[c].attached
    ELSE \E i \in Leaves(c) : (\A j \in Leaves(c) : j <= i) /\ down[c][i].type = "Attached"

\* Nobody is dropped from a session, or let into one, without hearing of it:
\* once a client has read what was sent to it, it knows whether it is in --
\* whoever took over, was evicted or healed in between (attach, detach).
EverybodyKnowsWhetherIn == \A c \in Clients : InAfterwards(c) <=> reader[c].attached

\* A mirror that fell behind is made whole, also when its reader is evicted or
\* chooses another mode while the Attach that heals it is on its way
\* (request_snapshot's guard, the Attached handler).
HealsEnd == \A c \in Clients : app[c].behind ~> ~app[c].behind

\* What the comment on changes_the_session says: a request aimed at the others
\* by a reader who watches is refused (server.cpp, SetReaderMode).
WatchersCommandNobody ==
    [][\A c, d \in Clients :
          /\ c # d /\ up'[c] # up[c] /\ up[c] # <<>> /\ AskedNow(c).type = "SetReaderMode"
          /\ reader[c].attached /\ reader[c].mode = "Watch"
          => reader'[d] = reader[d]]_vars

\* What docs/cli.md says of attaching: whoever was watching is dropped.
TakenOverIsAlone ==
    [][\A c \in Clients :
          /\ up'[c] # up[c] /\ up[c] # <<>> /\ AskedNow(c) = AttachRequest("TakeOver")
          => \A d \in Clients \ {c} : ~reader'[d].attached]_vars
=============================================================================
