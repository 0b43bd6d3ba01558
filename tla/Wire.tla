-------------------------------- MODULE Wire --------------------------------
(***************************************************************************)
(* The codec both ends share and the stream that carries it: what each     *)
(* message is written as and what it is read as, which are two functions   *)
(* in the code and two tables here; frames, their caps, and the reader     *)
(* that puts frames together again from whatever a read of the socket      *)
(* brought.  A number is the bytes the code makes of it; a text or a blob  *)
(* is a sequence of bytes, and the caps are parameters.                    *)
(***************************************************************************)
EXTENDS Integers, Sequences, SequencesExt

CONSTANTS
    MaxText,        \* what a text's two-byte length can say
    MaxString, MaxChunk, MaxPayload, MaxSnapshot,   \* the caps of proto.hpp
    MaxCellText,    \* the bytes of one cell's grapheme
    MaxRun,         \* the cells one run can stand for
    MaxGrid,        \* the cells a grid may have
    Budget,         \* what a sender holds a snapshot to
    ReadBudget,     \* the most one read of the socket brings
    Reads,          \* how many bytes a read may find
    Traffic         \* what a connection is asked to carry: sequences of messages

VARIABLES
    todo,           \* what the sender is still to send
    sent,           \* history: what it made frames of
    wire,           \* bytes in flight
    buffer, consumed,   \* the FrameReader
    got,            \* the messages read
    broken          \* the connection was dropped for what came over it

streamVars == <<todo, sent, wire, buffer, consumed, got, broken>>

----------------------------------------------------------------------------
(* The kinds of field. *)

Unsigned(w) == [kind |-> "uint", width |-> w]
Signed(w) == [kind |-> "int", width |-> w]
U8 == Unsigned(1)
U16 == Unsigned(2)
U32 == Unsigned(4)
U64 == Unsigned(8)
I16 == Signed(2)
I32 == Signed(4)
I64 == Signed(8)
\* A writer of an enumeration writes the byte of a value it has, the highest of
\* which is top; a reader refuses a byte past the highest it knows.
Enum(top) == [kind |-> "enum", width |-> 1, top |-> top]
Color == [kind |-> "color", width |-> 4]
Text == [kind |-> "text", width |-> 2]
\* A writer writes any blob; a reader takes one up to its cap.
Blob(cap) == [kind |-> "blob", width |-> 4, cap |-> cap]
\* A list is a count and its entries; a reader knows how short an entry can be.
List(of, least) == [kind |-> "list", of |-> of, least |-> least]
Group(shape) == [kind |-> "group", of |-> shape]
\* Cells are a list of runs, and an operation is a tag and what the tag calls for.
Cells(least) == [kind |-> "cells", least |-> least]
Op == [kind |-> "op"]

Rect == <<I16, I16, U16, U16>>
Tile == <<U16, U16, U16, U16>>
Cursor == <<U16, U16, U8, U8, U8>>
CellFields == <<Text, U8, Color, Color, U8, U16>>

----------------------------------------------------------------------------
(* What is written: the overloads of write. *)

Each(of) == List(of, 0)
Whole == Blob(0)
WRuns == Cells(0)
WLines == Each(WRuns)
WJob == <<U64, Enum(3), U32, U32, I64>>
WEntries == Each(Group(<<U64>> \o Rect \o <<U16, U8>> \o Tile))

ControlWritten == [
    Hello |-> <<U32, Text, Enum(1)>>, HelloAck |-> <<U32, Text>>, Refuse |-> <<Text>>,
    Ping |-> <<U64>>, Pong |-> <<U64>>]

SessionWritten == [
    ListSessions |-> <<>>, NewSession |-> <<Text, U8, Text>>,
    Attach |-> <<U64, U16, U16, U16, U16, U8, U8>>, Detach |-> <<>>,
    ClientResize |-> <<U16, U16, U16, U16>>, RenameSession |-> <<U64, Text>>,
    KillSession |-> <<U64, U8, U16>>, KillServer |-> <<>>, SessionsChanged |-> <<>>,
    SessionList |-> <<Each(Group(<<U64, Text, U16, U8, I64, I64>>))>>,
    Detached |-> <<Enum(3), Text>>]

TerminalWritten == [
    NewTerminal |-> <<U64, Text>> \o Rect \o <<U8>>, CloseTerminal |-> <<U64, U8, U16>>,
    KillTerminal |-> <<U64>>, RespawnTerminal |-> <<U64>>, MoveTerminal |-> <<U64, U64, U8>>,
    MoveResize |-> <<U64>> \o Rect, Raise |-> <<U64>>, FocusTerm |-> <<U64>>,
    ZoomTerm |-> <<U64, U8>>, RenameTerminal |-> <<U64, Text>>, Input |-> <<U64, Whole>>,
    PasteChunk |-> <<U64, U32, U8, Whole>>, PasteAck |-> <<U32>>, SetLayout |-> <<WEntries>>,
    WatchStats |-> <<U8>>, SetDesktopSize |-> <<U16, U16>>, SetReaderMode |-> <<U8, U8>>]

\* Mutant of StateWritten: the zoom is written before the place in the stack.
StateWrittenMoved ==
    <<U64, U16, Text, Text, U8, U16, U16>> \o Rect \o <<U8, U16>> \o Tile \o Cursor
        \o <<U32, WRuns, WLines, Each(U64), Enum(2), Enum(2), Enum(3), U32, Each(Group(WJob)),
             U64, U8, I32, U8, Enum(3), Text, U32, U32>>
StateWritten ==
    <<U64, U16, Text, Text, U8, U16, U16>> \o Rect \o <<U16, U8>> \o Tile \o Cursor
        \o <<U32, WRuns, WLines, Each(U64), Enum(2), Enum(2), Enum(3), U32, Each(Group(WJob)),
             U64, U8, I32, U8, Enum(3), Text, U32, U32>>

OpWritten(tag) == <<
    <<U16, U16, I16>>, <<U16, U16, WRuns>>, Cursor, <<U32, U32>>, <<Text>>, <<WLines>>,
    <<U16, U16>> >>[tag + 1]

SyncWritten == [
    Attached |-> <<U64, U16, U16, U64, Each(Group(StateWritten))>>,
    LayoutDelta |-> <<U64, WEntries, U64, U16, U16>>,
    TermOpened |-> <<U64, U64, U16>> \o Rect \o <<Text, U16, U16>>,
    TermClosed |-> <<U64, U8, I32, U8>>, TermMeta |-> <<U64, U16, Text, Text, U8, U32, U32>>,
    GridDelta |-> <<U64, U32, Each(Op)>>,
    ReaderMode |-> <<U8>>, ClipboardSet |-> <<U64, Whole>>,
    TermDiagnostic |-> <<U64, Enum(3), Text>>,
    TermStats |-> <<U64, U32, U64, U64, U8, Enum(4), Enum(1), Enum(1), U32, U32, U32>>]

ImageWritten == [
    ImageAddBegin |-> <<U64, U16, U16>>, ImageChunk |-> <<U64, U32, Whole>>, ImageEnd |-> <<U64>>,
    ImagePlace |-> <<U64, U64>> \o Rect \o <<I16, I16>>, ImageRemove |-> <<U64, U64>>]

EventWritten == [
    Error |-> <<U16, Text, Text>>, SetPrinterPolicy |-> <<Enum(2), U64, Enum(2), U32, U32>>,
    PrintState |-> <<U64, Enum(2), Enum(3), U32, U16>>, PrintJobAdded |-> <<U64>> \o WJob,
    PrintJobFetch |-> <<U64, U64>>, PrintJobData |-> <<U64, U64, U32, U8, Whole>>,
    PrintJobDiscard |-> <<U64, U64>>]

Both(f, g) == [t \in (DOMAIN f) \union DOMAIN g |-> IF t \in DOMAIN f THEN f[t] ELSE g[t]]
Written == Both(ControlWritten, Both(SessionWritten, Both(TerminalWritten, Both(SyncWritten,
               Both(ImageWritten, EventWritten)))))
Types == DOMAIN Written

----------------------------------------------------------------------------
(* What is read: the overloads of read. *)

Short == Blob(MaxString)
Chunk == Blob(MaxChunk)
RRuns == Cells(16)
RLines == List(RRuns, 4)
RJob == <<U64, Enum(3), U32, U32, I64>>
REntries == List(Group(<<U64>> \o Rect \o <<U16, U8>> \o Tile), 27)

ControlRead == [
    Hello |-> <<U32, Text, Enum(1)>>, HelloAck |-> <<U32, Text>>, Refuse |-> <<Text>>,
    Ping |-> <<U64>>, Pong |-> <<U64>>]

SessionRead == [
    ListSessions |-> <<>>, NewSession |-> <<Text, U8, Text>>,
    Attach |-> <<U64, U16, U16, U16, U16, U8, U8>>, Detach |-> <<>>,
    ClientResize |-> <<U16, U16, U16, U16>>, RenameSession |-> <<U64, Text>>,
    KillSession |-> <<U64, U8, U16>>, KillServer |-> <<>>, SessionsChanged |-> <<>>,
    SessionList |-> <<List(Group(<<U64, Text, U16, U8, I64, I64>>), 29)>>,
    Detached |-> <<Enum(3), Text>>]

TerminalRead == [
    NewTerminal |-> <<U64, Text>> \o Rect \o <<U8>>, CloseTerminal |-> <<U64, U8, U16>>,
    KillTerminal |-> <<U64>>, RespawnTerminal |-> <<U64>>, MoveTerminal |-> <<U64, U64, U8>>,
    MoveResize |-> <<U64>> \o Rect, Raise |-> <<U64>>, FocusTerm |-> <<U64>>,
    ZoomTerm |-> <<U64, U8>>, RenameTerminal |-> <<U64, Text>>, Input |-> <<U64, Short>>,
    PasteChunk |-> <<U64, U32, U8, Short>>, PasteAck |-> <<U32>>, SetLayout |-> <<REntries>>,
    WatchStats |-> <<U8>>, SetDesktopSize |-> <<U16, U16>>, SetReaderMode |-> <<U8, U8>>]

StateRead ==
    <<U64, U16, Text, Text, U8, U16, U16>> \o Rect \o <<U16, U8>> \o Tile \o Cursor
        \o <<U32, RRuns, RLines, List(U64, 8), Enum(2), Enum(2), Enum(3), U32,
             List(Group(RJob), 25), U64, U8, I32, U8, Enum(3), Text, U32, U32>>

OpRead(tag) == <<
    <<U16, U16, I16>>, <<U16, U16, RRuns>>, Cursor, <<U32, U32>>, <<Text>>, <<RLines>>,
    <<U16, U16>> >>[tag + 1]

SyncRead == [
    Attached |-> <<U64, U16, U16, U64, List(Group(StateRead), 97)>>,
    LayoutDelta |-> <<U64, REntries, U64, U16, U16>>,
    TermOpened |-> <<U64, U64, U16>> \o Rect \o <<Text, U16, U16>>,
    TermClosed |-> <<U64, U8, I32, U8>>, TermMeta |-> <<U64, U16, Text, Text, U8, U32, U32>>,
    GridDelta |-> <<U64, U32, List(Op, 3)>>,
    ReaderMode |-> <<U8>>, ClipboardSet |-> <<U64, Short>>,
    TermDiagnostic |-> <<U64, Enum(3), Text>>,
    TermStats |-> <<U64, U32, U64, U64, U8, Enum(4), Enum(1), Enum(1), U32, U32, U32>>]

ImageRead == [
    ImageAddBegin |-> <<U64, U16, U16>>, ImageChunk |-> <<U64, U32, Chunk>>, ImageEnd |-> <<U64>>,
    ImagePlace |-> <<U64, U64>> \o Rect \o <<I16, I16>>, ImageRemove |-> <<U64, U64>>]

EventRead == [
    Error |-> <<U16, Text, Text>>, SetPrinterPolicy |-> <<Enum(2), U64, Enum(2), U32, U32>>,
    PrintState |-> <<U64, Enum(2), Enum(3), U32, U16>>, PrintJobAdded |-> <<U64>> \o RJob,
    PrintJobFetch |-> <<U64, U64>>, PrintJobData |-> <<U64, U64, U32, U8, Chunk>>,
    PrintJobDiscard |-> <<U64, U64>>]

Read == Both(ControlRead, Both(SessionRead, Both(TerminalRead, Both(SyncRead,
            Both(ImageRead, EventRead)))))

----------------------------------------------------------------------------
(* Runs of equal cells. *)

Extends(runs, cell) == runs # <<>> /\ Last(runs)[1] < MaxRun /\ Last(runs)[2] = cell
ToRuns(cells) ==
    LET runs[n \in 0..Len(cells)] ==
            IF n = 0 THEN <<>>
            ELSE LET before == runs[n - 1]
                 IN IF Extends(before, cells[n]) THEN [before EXCEPT ![Len(before)][1] = @ + 1]
                    ELSE Append(before, <<1, cells[n]>>)
    IN runs[Len(cells)]

FromRuns(runs) ==
    LET cells == FlattenSeq([i \in DOMAIN runs |-> [k \in 1..runs[i][1] |-> runs[i][2]]])
    IN IF Len(cells) > MaxGrid THEN <<>> ELSE cells

----------------------------------------------------------------------------
(* The Writer: what cannot be said fails it, and it stays failed.  No list  *)
(* is deeper than the jobs of a terminal of a snapshot, so an operator that *)
(* writes fields, given to PutWith twice, writes every message.             *)

Widest == 8
\* What is left of a number when its n low bytes are taken.
Rest(v, n) ==
    LET rest[i \in 0..Widest] == IF i = 0 THEN v ELSE rest[i - 1] \div 256 IN rest[n]
Bytes(v, w) == [i \in 1..w |-> Rest(v, i - 1) % 256]
Unsayable == -1

Puts(Put(_, _), shape, values) == FlattenSeq([i \in DOMAIN shape |-> Put(shape[i], values[i])])

PutBasic(f, v) ==
    CASE f.kind \in {"uint", "int", "enum", "color"} -> Bytes(v, f.width)
      [] f.kind = "text" -> IF Len(v) > MaxText THEN <<Unsayable>> ELSE Bytes(Len(v), 2) \o v
      [] f.kind = "blob" -> Bytes(Len(v), 4) \o v
PutRun(run) == Bytes(run[1], 2) \o Puts(PutBasic, CellFields, run[2])
PutRuns(runs) == Bytes(Len(runs), 4) \o FlattenSeq([i \in DOMAIN runs |-> PutRun(runs[i])])
PutPlain(f, v) == IF f.kind = "cells" THEN PutRuns(ToRuns(v)) ELSE PutBasic(f, v)

PutEntry(Put(_, _), f, v) == IF f.kind = "group" THEN Puts(Put, f.of, v) ELSE Put(f, v)
PutWith(Put(_, _), Entry(_, _), f, v) ==
    IF f.kind = "list"
      THEN Bytes(Len(v), 4) \o FlattenSeq([i \in DOMAIN v |-> Entry(f.of, v[i])])
      ELSE Put(f, v)
PutInnerEntry(f, v) == PutEntry(PutPlain, f, v)
PutInner(f, v) == PutWith(PutPlain, PutInnerEntry, f, v)
PutFieldEntry(f, v) ==
    IF f.kind = "op" THEN Bytes(v.tag, 1) \o Puts(PutInner, OpWritten(v.tag), v.fields)
    ELSE PutEntry(PutInner, f, v)
PutField(f, v) == PutWith(PutInner, PutFieldEntry, f, v)

Payload(m) == Puts(PutField, Written[m.type], m.fields)

----------------------------------------------------------------------------
(* The Reader: every field is checked against what is there, and a reader   *)
(* that failed stays failed.  val is what was read last.                    *)

Failed(r) == [r EXCEPT !.ok = FALSE]
Remaining(r) == Len(r.bytes) - r.at
Accept(r, n, v) == [r EXCEPT !.at = @ + n, !.val = v]
Took(r, n) == SubSeq(r.bytes, r.at + 1, r.at + n)
Number(bytes, signed) ==
    LET w == Len(bytes)
        high == IF signed /\ bytes[w] >= 128 THEN bytes[w] - 256 ELSE bytes[w]
        number[i \in 1..w] == IF i = 1 THEN high ELSE bytes[w + 1 - i] + 256 * number[i - 1]
    IN number[w]

SaneColor(v) ==
    LET tag == v \div 16777216 rest == v % 16777216
    IN (tag = 0 /\ rest = 0) \/ (tag = 1 /\ rest < 256) \/ tag = 2
\* Text and width agree, and what is reserved is zero.
SaneCell(v) == Len(v[1]) <= MaxCellText /\ v[6] = 0 /\ (v[2] = 0 <=> v[1] = <<>>)
Sane(f, n) ==
    CASE f.kind = "enum" -> n <= f.top
      [] f.kind = "color" -> SaneColor(n)
      [] f.kind = "blob" -> n <= f.cap
      [] OTHER -> TRUE

\* With n for the number that a field is, or begins with.
TakeBasic(r, f, n) ==
    IF ~r.ok \/ Remaining(r) < f.width \/ ~Sane(f, n) THEN Failed(r)
    ELSE IF f.kind \notin {"text", "blob"} THEN Accept(r, f.width, n)
    ELSE IF Remaining(r) - f.width < n THEN Failed(r)
    ELSE Accept(r, f.width + n, Took([r EXCEPT !.at = @ + f.width], n))
GetBasic(r, f) == TakeBasic(r, f, Number(Took(r, f.width), f.kind = "int"))

\* One field after another; what each was becomes one value.
GetAll(Get(_, _), r, shape) ==
    LET read[i \in 0..Len(shape)] ==
            IF i = 0 THEN [r EXCEPT !.val = <<>>]
            ELSE LET before == read[i - 1]
                     after == Get(before, shape[i])
                 IN IF before.ok THEN [after EXCEPT !.val = Append(before.val, @)] ELSE before
    IN read[Len(shape)]

RunOf(length, cell) ==
    IF length.ok /\ length.val > 0 /\ cell.ok /\ SaneCell(cell.val)
      THEN [cell EXCEPT !.val = <<length.val, @>>] ELSE Failed(cell)
GetRun(r, f) ==
    LET length == GetBasic(r, U16) IN RunOf(length, GetAll(GetBasic, length, CellFields))
\* A count is held to what is left, by the shortest an entry can be.
CountOf(count, least) ==
    IF count.ok /\ count.val <= Remaining(count) \div least THEN count ELSE Failed(count)
GetCounted(Get(_, _), count, f) ==
    IF count.ok THEN GetAll(Get, count, [i \in 1..count.val |-> f]) ELSE count
GetEntries(Get(_, _), r, f, least) == GetCounted(Get, CountOf(GetBasic(r, U32), least), f)
CellsOf(runs) == IF runs.ok THEN [runs EXCEPT !.val = FromRuns(@)] ELSE runs
GetRuns(r, f) == CellsOf(GetEntries(GetRun, r, f, f.least))
GetPlain(r, f) == IF f.kind = "cells" THEN GetRuns(r, f) ELSE GetBasic(r, f)

GetEntry(Get(_, _), r, f) == IF f.kind = "group" THEN GetAll(Get, r, f.of) ELSE Get(r, f)
GetWith(Get(_, _), Entry(_, _), r, f) ==
    IF f.kind = "list" THEN GetEntries(Entry, r, f.of, f.least) ELSE Get(r, f)
InnerEntry(r, f) == GetEntry(GetPlain, r, f)
GetInner(r, f) == GetWith(GetPlain, InnerEntry, r, f)
OpOf(tag, fields) ==
    IF fields.ok THEN [fields EXCEPT !.val = [tag |-> tag, fields |-> @]] ELSE fields
GetTagged(tag) ==
    IF tag.ok THEN OpOf(tag.val, GetAll(GetInner, tag, OpRead(tag.val))) ELSE tag
FieldEntry(r, f) ==
    IF f.kind = "op" THEN GetTagged(GetBasic(r, Enum(6))) ELSE GetEntry(GetInner, r, f)
GetField(r, f) == GetWith(GetInner, FieldEntry, r, f)

----------------------------------------------------------------------------
(* Frames. *)

Header == 8
Catalogue == <<
    <<"Hello", "HelloAck", "Refuse", "Ping", "Pong">>,
    <<"ListSessions", "NewSession", "Attach", "Detach", "ClientResize", "RenameSession",
      "KillSession", "KillServer", "SessionList", "SessionsChanged", "Attached", "Detached">>,
    <<"NewTerminal", "CloseTerminal", "KillTerminal", "RespawnTerminal", "MoveTerminal",
      "MoveResize", "Raise", "FocusTerm", "ZoomTerm", "RenameTerminal", "Input", "PasteChunk",
      "PasteAck", "SetLayout", "WatchStats", "SetDesktopSize", "SetReaderMode">>,
    <<"LayoutDelta", "TermOpened", "TermClosed", "TermMeta", "GridDelta", "ImageAddBegin",
      "ImageChunk", "ImageEnd", "ImagePlace", "ImageRemove", "ClipboardSet", "TermDiagnostic",
      "TermStats", "ReaderMode">>,
    <<"Error", "SetPrinterPolicy", "PrintState", "PrintJobAdded", "PrintJobFetch",
      "PrintJobData", "PrintJobDiscard">> >>
Code(type) ==
    LET at == CHOOSE p \in (1..5) \X (1..17) :
                  p[2] \in DOMAIN Catalogue[p[1]] /\ Catalogue[p[1]][p[2]] = type
    IN 256 * (at[1] - 1) + at[2]
Codes == [t \in Types |-> Code(t)]

PayloadCap(type) ==
    CASE type = "Attached" -> MaxSnapshot
      [] type \in {"ImageChunk", "PrintJobData"} -> MaxChunk + 64
      [] OTHER -> MaxPayload

\* Nothing at all, for a message that cannot be said or that its cap refuses.
Framed(type, p) ==
    IF Contains(p, Unsayable) \/ Len(p) > PayloadCap(type) THEN <<>>
    ELSE Bytes(Len(p), 4) \o Bytes(Codes[type], 2) \o Bytes(0, 2) \o p
Encode(m) == Framed(m.type, Payload(m))

Refused(error) == [error |-> error, consumed |-> 0, message |-> [type |-> "none", fields |-> <<>>]]
Answer(type, length, r) ==
    IF ~r.ok THEN Refused("Malformed")
    ELSE IF Remaining(r) > 0 THEN Refused("TrailingBytes")
    ELSE [error |-> "None", consumed |-> Header + length,
          message |-> [type |-> type, fields |-> r.val]]
Reader(bytes) == [bytes |-> bytes, at |-> 0, ok |-> TRUE, val |-> <<>>]
Decode(bytes) ==
    LET length == Number(SubSeq(bytes, 1, 4), FALSE)
        code == Number(SubSeq(bytes, 5, 6), FALSE)
        type == CHOOSE t \in Types : Codes[t] = code
    IN IF Len(bytes) < Header THEN Refused("Incomplete")
       ELSE IF \A t \in Types : Codes[t] # code THEN Refused("UnknownType")
       ELSE IF length > PayloadCap(type) THEN Refused("PayloadTooLarge")
       ELSE IF Number(SubSeq(bytes, 7, 8), FALSE) # 0 THEN Refused("ReservedFlags")
       ELSE IF Len(bytes) - Header < length THEN Refused("Incomplete")
       ELSE Answer(type, length,
                   GetAll(GetField, Reader(SubSeq(bytes, Header + 1, Header + length)), Read[type]))

----------------------------------------------------------------------------
(* A snapshot, which is measured before it is written: the screens go whole, *)
(* and each history takes what it can of an equal share of what is left.     *)

SumOf(numbers) ==
    LET sum[n \in 0..Len(numbers)] == IF n = 0 THEN 0 ELSE sum[n - 1] + numbers[n]
    IN sum[Len(numbers)]
RunsSize(cells) ==
    LET runs == ToRuns(cells) IN 4 + SumOf([i \in DOMAIN runs |-> 16 + Len(runs[i][2][1])])
LinesSize(lines) == 4 + SumOf([i \in DOMAIN lines |-> RunsSize(lines[i])])
StateSize(s) ==
    89 + Len(s[3]) + Len(s[4]) + Len(s[37]) + RunsSize(s[24]) + LinesSize(s[25]) + 8 * Len(s[26])
       + 25 * Len(s[31])
SnapshotSize(states) == 16 + SumOf([i \in DOMAIN states |-> StateSize(states[i])])

Newest(lines, n) == SubSeq(lines, Len(lines) - n + 1, Len(lines))
LineCost(lines) == LinesSize(lines) - 4
\* The lines of a history that fit, from its newest to the first that does not.
Fitting(lines, share) ==
    LET fits == {n \in 0..Len(lines) : LineCost(Newest(lines, n)) <= share}
    IN Newest(lines, CHOOSE n \in fits : \A m \in fits : m <= n)

\* Mutant of Share: the first terminal may take all there is.
ShareAll(remaining, left) == remaining
Share(remaining, left) == remaining \div left
\* What a terminal does not use of its share passes to those after it.
Filled(states, room) ==
    LET n == Len(states)
        kept(i, remaining) == Fitting(states[i][25], Share(remaining, n + 1 - i))
        remaining[i \in 0..n] ==
            IF i = 0 THEN room ELSE remaining[i - 1] - LineCost(kept(i, remaining[i - 1]))
    IN [i \in 1..n |-> [states[i] EXCEPT ![25] = kept(i, remaining[i - 1])]]

\* What is sent for a message: a session whose screens alone do not fit is left.
Composed(m) ==
    LET screens == [i \in DOMAIN m.fields[5] |-> [m.fields[5][i] EXCEPT ![25] = <<>>]]
        spent == 8 + SnapshotSize(screens)
    IN IF m.type # "Attached" THEN m
       ELSE IF spent > Budget THEN [type |-> "Detached", fields |-> <<2, <<>>>>]
       ELSE [m EXCEPT !.fields[5] = Filled(@, Budget - spent)]

----------------------------------------------------------------------------
(* What may be asked of a sender: each field holds what its type can hold,  *)
(* and a blob no more than a reader takes; a message past that is one no    *)
(* frame is made of.  A snapshot is never such a message.                   *)

FitsBasic(f, v) ==
    CASE f.kind = "uint" -> v \in Nat /\ Rest(v, f.width) = 0
      [] f.kind = "int" -> v \in Int /\ Rest(v, f.width - 1) \in -128..127
      [] f.kind = "enum" -> v \in 0..f.top
      [] f.kind = "color" -> v \in Nat /\ SaneColor(v)
      [] f.kind = "text" -> v \in Seq(0..255) /\ Len(v) <= MaxText
      [] f.kind = "blob" -> v \in Seq(0..255) /\ Len(v) <= f.cap
FitsAll(Fits(_, _), shape, values) ==
    /\ values = [i \in DOMAIN shape |-> values[i]]
    /\ \A i \in DOMAIN shape : Fits(shape[i], values[i])
FitsEach(Fits(_, _), f, values) ==
    Len(values) \in Nat /\ FitsAll(Fits, [i \in 1..Len(values) |-> f], values)
FitsCell(f, cell) == FitsAll(FitsBasic, CellFields, cell) /\ SaneCell(cell)
FitsPlain(f, v) ==
    IF f.kind = "cells" THEN FitsEach(FitsCell, f, v) /\ Len(v) <= MaxGrid ELSE FitsBasic(f, v)
FitsEntry(Fits(_, _), f, v) == IF f.kind = "group" THEN FitsAll(Fits, f.of, v) ELSE Fits(f, v)
FitsWith(Fits(_, _), Entry(_, _), f, v) ==
    IF f.kind = "list" THEN FitsEach(Entry, f.of, v) ELSE Fits(f, v)
FitsInnerEntry(f, v) == FitsEntry(FitsPlain, f, v)
FitsInner(f, v) == FitsWith(FitsPlain, FitsInnerEntry, f, v)
FitsFieldEntry(f, v) ==
    IF f.kind = "op" THEN /\ v = [tag |-> v.tag, fields |-> v.fields] /\ v.tag \in 0..6
                          /\ FitsAll(FitsInner, OpRead(v.tag), v.fields)
    ELSE FitsEntry(FitsInner, f, v)
FitsField(f, v) == FitsWith(FitsInner, FitsFieldEntry, f, v)
Sayable(m) ==
    /\ m = [type |-> m.type, fields |-> m.fields] /\ m.type \in Types
    /\ FitsAll(FitsField, Read[m.type], m.fields)

ASSUME CapAssumption ==
    /\ {MaxString, MaxChunk, MaxPayload, MaxCellText, MaxGrid, Budget} \subseteq Nat
    /\ MaxText \in Nat /\ Rest(MaxText, 2) = 0
    /\ MaxRun \in Nat \ {0} /\ Rest(MaxRun, 2) = 0
    /\ MaxSnapshot \in Nat /\ Rest(MaxSnapshot, 4) = 0
ASSUME RoomAssumption ==
    /\ ReadBudget \in Nat /\ Reads \subseteq 1..ReadBudget
    /\ \A most \in {MaxPayload, MaxChunk + 64, Budget} : most + ReadBudget <= MaxSnapshot
ASSUME TrafficAssumption ==
    \A list \in Traffic :
        /\ Len(list) \in Nat /\ list = [i \in 1..Len(list) |-> list[i]]
        /\ \A i \in DOMAIN list :
              \/ Sayable(list[i])
              \/ list[i].type \in Types \ {"Attached"} /\ Encode(list[i]) = <<>>

----------------------------------------------------------------------------
(* The stream. *)

StreamInit ==
    /\ todo \in Traffic /\ sent = <<>> /\ wire = <<>>
    /\ buffer = <<>> /\ consumed = 0 /\ got = <<>> /\ broken = FALSE

\* A message that does not fit is not sent, and costs no connection.
Send ==
    /\ todo # <<>> /\ todo' = Tail(todo)
    /\ \E message \in {Composed(Head(todo))} : \E frame \in {Encode(message)} :
          /\ wire' = wire \o frame
          /\ sent' = IF frame = <<>> THEN sent ELSE Append(sent, message)
    /\ UNCHANGED <<buffer, consumed, got, broken>>

Result == Decode(SubSeq(buffer, consumed + 1, Len(buffer)))

Compacted(bytes) == SubSeq(bytes, consumed + 1, Len(bytes))

\* FrameReader::append, when what is there is not a frame.
Receive(n) ==
    /\ ~broken /\ n <= Len(wire) /\ Result.error = "Incomplete"
    /\ wire' = SubSeq(wire, n + 1, Len(wire))
    /\ consumed' = 0
    /\ LET held == Compacted(buffer) \o SubSeq(wire, 1, n)
       IN IF Len(held) > Header + MaxSnapshot THEN broken' = TRUE /\ buffer' = Compacted(buffer)
          ELSE buffer' = held /\ UNCHANGED broken
    /\ UNCHANGED <<todo, sent, got>>

\* FrameReader::next; the buffer is cleared when all of it was read, and what
\* is neither a frame nor the start of one ends the connection.
TakeFrame ==
    /\ ~broken
    /\ \E result \in {Result} :
          /\ result.error # "Incomplete"
          /\ IF result.error # "None" THEN broken' = TRUE /\ UNCHANGED <<buffer, consumed, got>>
             ELSE LET end == consumed + result.consumed
                  IN /\ got' = Append(got, result.message)
                     /\ IF end = Len(buffer) THEN buffer' = <<>> /\ consumed' = 0
                        ELSE consumed' = end /\ UNCHANGED buffer
                     /\ UNCHANGED broken
    /\ UNCHANGED <<todo, sent, wire>>

AllThere == IF Len(wire) > ReadBudget THEN ReadBudget ELSE Len(wire)

StreamNext == Send \/ TakeFrame \/ \E n \in Reads \union {AllThere} : n > 0 /\ Receive(n)

StreamSpec == StreamInit /\ [][StreamNext]_streamVars

----------------------------------------------------------------------------

\* Two ends of one build agree: whatever the sender was asked to say is read as
\* what it said, in the order it said it, however the bytes were cut up on the
\* way, with nothing of it left over, and no connection is lost to it (the two
\* overload sets of proto.cpp, FrameReader).
DeliveredInOrder ==
    /\ ~broken /\ IsPrefix(got, sent)
    /\ wire = <<>> /\ Result.error = "Incomplete" => got = sent /\ consumed = Len(buffer)

\* A snapshot is as long as was said before it was written, is within what a
\* sender holds itself to, and carries of each terminal's history a newest part
\* that could not be longer without taking more than an equal share of the room
\* (send_snapshot, fill_history, encoded_size).
SnapshotFits ==
    \A i \in DOMAIN todo :
        todo[i].type = "Attached" /\ Composed(todo[i]).type = "Attached" =>
            LET asked == todo[i].fields[5]
                made == Composed(todo[i]).fields[5]
                screens == 8 + SnapshotSize([t \in DOMAIN asked |-> [asked[t] EXCEPT ![25] = <<>>]])
                size == Len(Payload(Composed(todo[i])))
            IN /\ size = 8 + SnapshotSize(made) /\ size <= Budget
               /\ \A t \in DOMAIN asked :
                     LET n == Len(made[t][25])
                     IN /\ made[t][25] = Newest(asked[t][25], n)
                        /\ n < Len(asked[t][25]) =>
                              LineCost(Newest(asked[t][25], n + 1)) > (Budget - screens) \div Len(asked)
=============================================================================
