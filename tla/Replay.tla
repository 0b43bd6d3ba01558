------------------------------- MODULE Replay -------------------------------
(***************************************************************************)
(* What ckmux promises somebody who watches a terminal: the screen in      *)
(* front of them is one the program drew, and time does not run backwards. *)
(* Screens may be skipped.  Nothing is said here of sockets, deltas,       *)
(* snapshots or who holds the session; ScreenSync implements it.           *)
(***************************************************************************)
EXTENDS Integers, Sequences

CONSTANTS
    Clients,
    Screens,
    BlankScreen,    \* the screen of a terminal that was just opened
    Nothing         \* a reader who was never shown the terminal

VARIABLES
    drawn,          \* the screens the program has drawn, the present one last
    shown,          \* what each reader is shown
    at              \* which of the drawn screens that is; 0 for Nothing

vars == <<drawn, shown, at>>

Init ==
    /\ drawn = <<BlankScreen>>
    /\ shown = [c \in Clients |-> Nothing]
    /\ at = [c \in Clients |-> 0]

Draw ==
    /\ \E s \in Screens : drawn' = Append(drawn, s)
    /\ UNCHANGED <<shown, at>>

\* c is brought to some screen no older than the one it has.
Show(c) ==
    /\ \E i \in 1..Len(drawn) :
          /\ at[c] <= i
          /\ at' = [at EXCEPT ![c] = i]
          /\ shown' = [shown EXCEPT ![c] = drawn[i]]
    /\ UNCHANGED drawn

\* c ends, or its connection does.
Leave(c) ==
    /\ at' = [at EXCEPT ![c] = 0]
    /\ shown' = [shown EXCEPT ![c] = Nothing]
    /\ UNCHANGED drawn

Next == Draw \/ \E c \in Clients : Show(c) \/ Leave(c)

Spec == Init /\ [][Next]_vars
=============================================================================
