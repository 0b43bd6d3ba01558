----------------------------- MODULE PasteSlots -----------------------------
(***************************************************************************)
(* Pasting into one terminal that several connections can reach: the       *)
(* client's queue of chunks and its credit (ServerSession), the server's   *)
(* PasteChunk handler and the slot that lets one reader paste at a time.   *)
(*                                                                         *)
(* A chunk is told by who pasted it, in which paste, and its place in it;  *)
(* the text is left out.  Frames are handled in the order they were sent.  *)
(***************************************************************************)
EXTENDS Integers, Sequences, FiniteSets, FiniteSetsExt

CONSTANTS
    NClients,       \* connections to the server
    Credit,         \* kPasteCredit: chunks a client may have unacked
    MaxChunks,      \* bound: chunks of one paste
    MaxPastes,      \* bound: pastes of each reader
    MaxActs,        \* bound: what else happens to readers: pastes thrown away, mode changes
    MayDrop,        \* the connections that may end
    MayWatch        \* the readers whose mode may change

Clients == 1..NClients
Nobody == 0

ASSUME CreditAssumption == NClients \in Nat /\ Credit \in Nat \ {0}
ASSUME BoundAssumption == MaxChunks \in Nat /\ MaxPastes \in Nat /\ MaxActs \in Nat
    /\ MayDrop \cup MayWatch \subseteq Clients

VARIABLES
    pasting,    \* each client's paste queue, its credit in use, and what it has done
    wire,       \* chunks sent and not yet handled by the server
    acks,       \* how many PasteAcks are on their way to each client
    conn,       \* the server's Client: is it open, is it a watcher
    slot,       \* the terminal's PasteSlot; an absent entry is the free one
    term,       \* the terminal: "open", "removed", or "killed" with its session
    written,    \* every chunk written to the terminal's child
    acts        \* how many of those things happened, for MaxActs

vars == <<pasting, wire, acks, conn, slot, term, written, acts>>

Chunks == [client : Clients, paste : 1..MaxPastes, at : 1..MaxChunks, last : BOOLEAN]
FreeSlot == [owner |-> Nobody, waiting |-> <<>>]

Of(c, chunks) == {i \in DOMAIN chunks : chunks[i].client = c}
Without(c, chunks) ==
    LET kept[n \in 0..Len(chunks)] ==
            IF n = 0 THEN <<>>
            ELSE IF chunks[n].client = c THEN kept[n - 1] ELSE Append(kept[n - 1], chunks[n])
    IN kept[Len(chunks)]

\* An ack to each client for every one of its chunks.
Acked(chunks) == [c \in Clients |-> acks[c] + Cardinality(Of(c, chunks))]

(***************************************************************************)
(* The client: paste, pump_paste, abandon_paste.                           *)
(***************************************************************************)
CutInto(c, n) ==
    [i \in 1..n |-> [client |-> c, paste |-> pasting[c].pastes + 1, at |-> i, last |-> i = n]]

\* Mutant of Pumpable: the credit is not asked for.
PumpableUnpaced(p) == Len(p.queue)

\* How many chunks the credit lets out.
Pumpable(p) ==
    LET credit == IF p.inFlight < Credit THEN Credit - p.inFlight ELSE 0
    IN IF Len(p.queue) < credit THEN Len(p.queue) ELSE credit

Pumped(p) == [p EXCEPT !.queue = SubSeq(@, Pumpable(p) + 1, Len(@)),
                       !.inFlight = @ + Pumpable(p)]

Pump(c, p) ==
    /\ pasting' = [pasting EXCEPT ![c] = Pumped(p)]
    /\ wire' = [wire EXCEPT ![c] = @ \o SubSeq(p.queue, 1, Pumpable(p))]

\* The reader pastes: the whole of it is cut now, and sent as the credit allows.
Paste(c) ==
    /\ conn[c].open /\ pasting[c].pastes < MaxPastes
    /\ \E n \in 1..MaxChunks :
          Pump(c, [pasting[c] EXCEPT !.queue = @ \o CutInto(c, n), !.pastes = @ + 1])
    /\ UNCHANGED <<acks, conn, slot, term, written, acts>>

\* Mutant of ReceiveAck: an ack of before the paste was thrown away is counted.
ReceiveAckUnguarded(c) ==
    /\ conn[c].open /\ acks[c] > 0
    /\ acks' = [acks EXCEPT ![c] = @ - 1]
    /\ Pump(c, [pasting[c] EXCEPT !.inFlight = @ - 1])
    /\ UNCHANGED <<conn, slot, term, written, acts>>

\* An ack is a count: it is not asked which chunk it names.
ReceiveAck(c) ==
    /\ conn[c].open /\ acks[c] > 0
    /\ acks' = [acks EXCEPT ![c] = @ - 1]
    /\ Pump(c, [pasting[c] EXCEPT !.inFlight = IF @ > 0 THEN @ - 1 ELSE 0])
    /\ UNCHANGED <<conn, slot, term, written, acts>>

\* windows_forgotten, after a takeover, a switch or a killed session: the rest
\* of the paste is thrown away and the credit is whole again.
Abandon(c) ==
    /\ conn[c].open /\ acts < MaxActs
    /\ pasting' = [pasting EXCEPT ![c].queue = <<>>, ![c].inFlight = 0, ![c].gaveUp = TRUE]
    /\ acts' = acts + 1
    /\ UNCHANGED <<wire, acks, conn, slot, term, written>>

(***************************************************************************)
(* The server's slot.                                                      *)
(***************************************************************************)
\* What drain_paste_slot writes for a free slot: the waiting chunks up to the
\* first that is not the last of its paste, whose reader then holds the slot.
Stops(chunks) == {i \in DOMAIN chunks : ~chunks[i].last}
Reach(chunks) ==
    IF Stops(chunks) = {} THEN Len(chunks)
    ELSE Min(Stops(chunks))
HolderAfter(chunks) ==
    IF Stops(chunks) = {} THEN Nobody ELSE chunks[Reach(chunks)].client

\* Mutant of Freed: a free slot is handed to nobody.
FreedUndrained(chunks) == [owner |-> Nobody, waiting |-> chunks]

\* A slot let go while these chunks wait, after the drain.
Freed(chunks) == [owner |-> HolderAfter(chunks),
                  waiting |-> SubSeq(chunks, Reach(chunks) + 1, Len(chunks))]
Drained(chunks) == SubSeq(chunks, 1, Reach(chunks))

Arriving(c) == Head(wire[c])
Take(c) ==
    /\ conn[c].open /\ wire[c] # <<>>
    /\ wire' = [wire EXCEPT ![c] = Tail(@)]
    /\ UNCHANGED <<pasting, conn, term, acts>>

\* Mutant of DiscardChunk: a watcher's chunk is dropped like its keys, unacked.
DiscardUnacked(c) ==
    /\ Take(c)
    /\ conn[c].watching
    /\ UNCHANGED <<acks, slot, written>>

\* A watcher's chunk is acked and goes nowhere, and the slot is not asked.
DiscardChunk(c) ==
    /\ Take(c)
    /\ conn[c].watching
    /\ acks' = [acks EXCEPT ![c] = @ + 1]
    /\ UNCHANGED <<slot, written>>

\* So is a chunk for a terminal that has gone, with all that waited for it.
ForgetChunk(c) ==
    /\ Take(c)
    /\ ~conn[c].watching /\ term # "open"
    /\ acks' = Acked(Append(slot.waiting, Arriving(c)))
    /\ slot' = FreeSlot
    /\ UNCHANGED written

\* Mutant of MustWait: everybody may write, whoever holds the slot.
MustWaitNever(c) == FALSE

MustWait(c) == slot.owner \notin {Nobody, c}

QueueChunk(c) ==
    /\ Take(c)
    /\ ~conn[c].watching /\ term = "open" /\ MustWait(c)
    /\ slot' = [slot EXCEPT !.waiting = Append(@, Arriving(c))]
    /\ UNCHANGED <<acks, written>>

\* write_paste_chunk: the slot is the writer's until the last chunk, and then
\* it is drained.
WriteChunk(c) ==
    /\ Take(c)
    /\ ~conn[c].watching /\ term = "open" /\ ~MustWait(c)
    /\ IF Arriving(c).last
       THEN /\ slot' = Freed(slot.waiting)
            /\ written' = Append(written, Arriving(c)) \o Drained(slot.waiting)
            /\ acks' = Acked(Append(Drained(slot.waiting), Arriving(c)))
       ELSE /\ slot' = [slot EXCEPT !.owner = c]
            /\ written' = Append(written, Arriving(c))
            /\ acks' = [acks EXCEPT ![c] = @ + 1]

\* SetReaderMode, of the reader or of another: only the gate before the handler
\* sees it.
SetReaderMode(c) ==
    /\ conn[c].open /\ c \in MayWatch /\ acts < MaxActs
    /\ conn' = [conn EXCEPT ![c].watching = ~@]
    /\ acts' = acts + 1
    /\ UNCHANGED <<pasting, wire, acks, slot, term, written>>

\* drop and release_paste_slots: what the connection queued is not wanted, and
\* the slot it held goes to the next.
Drop(c) ==
    /\ conn[c].open /\ c \in MayDrop
    /\ conn' = [conn EXCEPT ![c].open = FALSE]
    /\ wire' = [wire EXCEPT ![c] = <<>>]
    /\ pasting' = [pasting EXCEPT ![c].queue = <<>>, ![c].inFlight = 0]
    /\ LET waiting == Without(c, slot.waiting) IN
       IF slot.owner = c /\ term = "open"
       THEN /\ slot' = Freed(waiting)
            /\ written' = written \o Drained(waiting)
            /\ acks' = [Acked(Drained(waiting)) EXCEPT ![c] = 0]
       ELSE IF slot.owner = c
       THEN \* Drained without a terminal: the first in line is lost unacked.
            /\ slot' = FreeSlot
            /\ acks' = [Acked(IF waiting = <<>> THEN <<>> ELSE Tail(waiting)) EXCEPT ![c] = 0]
            /\ UNCHANGED written
       ELSE /\ slot' = [slot EXCEPT !.waiting = waiting]
            /\ acks' = [acks EXCEPT ![c] = 0]
            /\ UNCHANGED written
    /\ UNCHANGED <<term, acts>>

\* remove_terminal, with forget_paste_slot.
RemoveTerminal ==
    /\ term = "open"
    /\ term' = "removed"
    /\ acks' = Acked(slot.waiting)
    /\ slot' = FreeSlot
    /\ UNCHANGED <<pasting, wire, conn, written, acts>>

\* advance_kills closes the terminals of a killed session without remove_terminal.
KillSession ==
    /\ term = "open"
    /\ term' = "killed"
    /\ UNCHANGED <<pasting, wire, acks, conn, slot, written, acts>>

-----------------------------------------------------------------------------
Init ==
    /\ pasting = [c \in Clients |-> [queue |-> <<>>, inFlight |-> 0, pastes |-> 0, gaveUp |-> FALSE]]
    /\ wire = [c \in Clients |-> <<>>]
    /\ acks = [c \in Clients |-> 0]
    /\ conn = [c \in Clients |-> [open |-> TRUE, watching |-> FALSE]]
    /\ slot = FreeSlot
    /\ term = "open"
    /\ written = <<>>
    /\ acts = 0

HandleChunk(c) == DiscardChunk(c) \/ ForgetChunk(c) \/ QueueChunk(c) \/ WriteChunk(c)

Next ==
    \/ RemoveTerminal \/ KillSession
    \/ \E c \in Clients :
          \/ Paste(c) \/ ReceiveAck(c) \/ Abandon(c)
          \/ HandleChunk(c) \/ SetReaderMode(c) \/ Drop(c)

Spec == Init /\ [][Next]_vars

(***************************************************************************)
(* Properties.                                                             *)
(***************************************************************************)
TypeOK ==
    /\ pasting \in [Clients -> [queue : Seq(Chunks), inFlight : Nat,
                                pastes : 0..MaxPastes, gaveUp : BOOLEAN]]
    /\ wire \in [Clients -> Seq(Chunks)]
    /\ acks \in [Clients -> Nat]
    /\ conn \in [Clients -> [open : BOOLEAN, watching : BOOLEAN]]
    /\ slot \in [owner : Clients \union {Nobody}, waiting : Seq(Chunks)]
    /\ term \in {"open", "removed", "killed"}
    /\ written \in Seq(Chunks)
    /\ acts \in 0..MaxActs

\* Two readers' pastes do not reach the child chunk by chunk: another reader's
\* chunk follows only a last chunk, or one whose reader's connection ended.
NotInterleaved ==
    \A i \in 1..(Len(written) - 1) :
        \/ written[i].client = written[i + 1].client
        \/ written[i].last
        \/ ~conn[written[i].client].open

\* Whoever waits, waits for a reader who is still connected and is not done: a
\* slot let go by its last chunk or by a lost connection has been handed on.
NobodyWaitsForNobody ==
    slot.waiting # <<>> =>
        /\ slot.owner # Nobody
        /\ conn[slot.owner].open
        /\ \A i \in DOMAIN slot.waiting : conn[slot.waiting[i].client].open

\* The chunks of c that have no ack yet, or whose ack has not arrived.
Outstanding(c) ==
    Len(wire[c]) + Cardinality(Of(c, slot.waiting)) + acks[c]

\* No ack a client waits for is lost, wherever its chunk went: written, waiting,
\* discarded, or forgotten with its terminal.  (A killed session's readers are
\* detached, and drop the paste with its credit.)
CreditComesBack ==
    \A c \in Clients :
        (conn[c].open /\ term # "killed") => pasting[c].inFlight <= Outstanding(c)

\* At most two chunks per waiting reader, however long the paste in front of
\* them (server.hpp): true of a reader who never threw a paste away.
WaitingIsBounded ==
    \A c \in Clients : ~pasting[c].gaveUp => Outstanding(c) <= Credit

\* "Ordering within one terminal is the queue's" (server_session.hpp): the
\* chunks of a paste reach the child in the order they were cut.
InOrder ==
    \A i, j \in DOMAIN written :
        (i < j /\ written[i].client = written[j].client /\ written[i].paste = written[j].paste)
            => written[i].at < written[j].at

\* "The first chunk of a paste takes it, the final chunk releases it"
\* (server.hpp): a slot is held only while more of its owner's text is to come.
HeldByItsPaste ==
    slot.owner # Nobody =>
        pasting[slot.owner].queue # <<>> \/ wire[slot.owner] # <<>>
=============================================================================
