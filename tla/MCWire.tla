------------------------------- MODULE MCWire -------------------------------
(* Wire for TLC: every message there is, once with every field at its least  *)
(* and once with every field at its most and different from its neighbours,  *)
(* between two messages of which the second must still be in step.           *)
EXTENDS Wire, TLC

Text2(i) == <<65 + i, 195>>
Narrow == <<Text2(0), 1, 16777216 + 7, 33554432 + 65793, 5, 0>>
Continuation == <<<<>>, 0, 0, 16777216, 0, 0>>
Row == [i \in 1..(MaxRun + 1) |-> Narrow] \o <<Continuation>>

RECURSIVE Most(_, _)
MostOf(shape) == [i \in DOMAIN shape |-> Most(shape[i], i)]
Most(f, i) ==
    CASE f.kind = "uint" -> IF f.width = 1 THEN 255 - i ELSE IF f.width = 2 THEN 256 * i + 200
                            ELSE 65536 * i + 3
      [] f.kind = "int" -> -(300 + i)
      [] f.kind = "enum" -> f.top
      [] f.kind = "text" -> Text2(i)
      [] f.kind = "blob" -> [k \in 1..MaxString |-> i + k]
      [] f.kind = "cells" -> Row
      [] f.kind = "group" -> MostOf(f.of)
      [] f.kind = "op" -> [tag |-> i - 1, fields |-> MostOf(OpRead(i - 1))]
      [] f.kind = "list" -> [k \in 1..(IF f.of = Op THEN 7 ELSE 2) |-> Most(f.of, k)]
Least(f) == IF f.kind \in {"uint", "int", "enum"} THEN 0 ELSE <<>>
LeastOf(shape) == [i \in DOMAIN shape |-> Least(shape[i])]

Message(type, fields) == [type |-> type, fields |-> fields]
Bare == LeastOf(StateRead)
\* A terminal of an empty screen and a history of n lines.
Remembering(n) == [Bare EXCEPT ![1] = n, ![25] = [k \in 1..n |-> <<Narrow>>]]
Snapshot(states) == Message("Attached", <<1, 80, 24, 2, states>>)

Kinds == FlattenSeq(Catalogue)
MCMessages ==
    [k \in DOMAIN Kinds |-> Message(Kinds[k], LeastOf(Read[Kinds[k]]))]
        \o [k \in DOMAIN Kinds |-> IF Kinds[k] = "Attached" THEN Snapshot(<<MostOf(StateRead)>>)
                                   ELSE Message(Kinds[k], MostOf(Read[Kinds[k]]))]
        \o <<Snapshot(<<Remembering(9), Remembering(1), Remembering(9)>>),
             Snapshot(<<Remembering(1), Remembering(0), Remembering(9)>>),
             Snapshot([i \in 1..9 |-> Bare])>>
        \* Two no frame is made of: a text past its length, a message past its cap.
        \o <<Message("Refuse", <<[k \in 1..(MaxText + 1) |-> 65]>>),
             Message("ImageChunk", <<1, 1, [k \in 1..(MaxChunk + 65) |-> 1]>>)>>

MCTraffic == {<<Message("Ping", <<k>>), MCMessages[k], Message("Pong", <<8>>)>> : k \in DOMAIN MCMessages}
=============================================================================
