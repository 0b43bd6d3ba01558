# ckmux: specifications

TLA+ models of ckmux, the checks TLC runs on them and the theorems TLAPS proves
about them. ckmux is a terminal multiplexer: a **server** process owns the
terminals and their programs, grouped in sessions; **client** processes connect
over a local socket, attach to a session and show its terminals. Programs
outlive clients. Sources are cited relative to the repository's root, so the
server is `src/server/server.cpp`.

```
tlc -config screen_exclusive.cfg MCScreenSync.tla      # any run below
tlapm ScreenSyncProofs.tla                             # the proofs
```

## 1. Inventory

### The parts and how they interact

| part | state | operations | talks to |
|---|---|---|---|
| Terminal + emulator (`server/terminals.*`, ckVision) | screen, history, damage, child, DEC 2026 hold | output, exit, respawn | differ (damage), server |
| Differ (`server/diff_engine.*`) | belief, sequence, `history_diverged_`, `needs_snapshot_` | `flush`, `snapshot`, `fill_history` | server's tick |
| Server (`server/server.*`) | clients, sessions, pending kills and closes, paste slots, picture debts | one handler per message, the tick | clients by messages |
| Server start (`platform/socket.*`, `client/server_connection.*`) | lock file, socket path, listener and its pause | `listen`, `accept_pending`, `close`, connect-or-start, Hello | other processes, through the file system |
| Codec (`common/proto.*`) | a frame reader's buffer | `encode`, `decode`, `FrameReader` | both loops |
| Printer spool (`server/terminals.*`, `client/mirror.*`, `client/client_app.cpp`) | documents of the emulator, a terminal's jobs and their numbers, a mirror's list and fetched texts, one pending save | collect and announce, fetch, discard, save | server's tick, readers by messages |
| Stream (`platform/socket.*`) | bytes pending, three marks | `send`, `flush`, `receive`, `close` | server and client loops |
| ServerSession (`client/server_session.*`) | attached?, mode, `snapshot_requested_`, paste queue and credit, mirrors | one handler per message, `attach`, `heal_if_needed`, `paste` | server by messages, UI by callbacks |
| Mirror (`client/mirror.*`, `common/grid_delta.*`) | screen, history, sequence, `needs_snapshot_` | `adopt`, `apply`, `open` | ServerSession |
| Client loop (`client/run_client.*`) | connection, reconnect throttle, what the next list of sessions is for | poll pass, attach / switch / detach / quit, the picker | everything in the client |
| Client application, copy mode, keymap, CLI, configuration, statistics, platform calls | see PROJECT.json | | |

Server and client are each single-threaded: the concurrency is between
*processes*, through sockets that can be slow, full or cut. Within the server
it is between the passes of the loop (`Server::step`): whichever client is
served next, the children's output, and the tick at `max-fps`.

### What is hard

* **One belief, many readers.** The differ composes deltas against what it
  believes the watchers hold. Attach, heal, respawn, takeover and a full queue
  all change what some reader holds, and each must keep the belief honest.
* **Flow control by skipping.** A slow reader is not sent everything: it is
  marked, skipped and later given a snapshot. A snapshot larger than the mark,
  a flood of history, a queue at the hard limit are all corner cases of this.
* **Prefix loss.** A connection that ends delivers some prefix of what was sent.
* **Locks held by remote parties.** A terminal's paste slot belongs to a client
  that can be evicted, demoted or cut off in the middle.
* **Asked, then killed.** Ending programs takes deadlines and observations over
  many ticks during which sessions, terminals and readers come and go.
* **Told once.** News of a terminal is stated when it changes, by a tick that
  remembers what it has said; a snapshot says all of it to one reader and counts
  as the announcement for everybody. Which reader knows what is nobody's state.
* **One connection, several conversations.** A list of sessions may be the
  startup decision, the session a client asked for, what a picker waits for, or
  only news; a heal is an attach; each answer comes after others that crossed it.
* **Processes that race.** Two servers start at once, one dies with its socket
  left behind, one stops while its successor starts.

PROJECT.json lists the hazards at their lines with the properties that watch
them.

### What makes each component correct

* Screen replication: a mirror never shows a screen no program drew; it moves
  forward only; a clean reader is current; a reader who stays is brought up to
  date; a gap is repaired; no history line is lost unknowingly.
* Paste: one reader's paste is not mixed into another's; whoever waits is
  served; credit is neither lost nor exceeded; chunks arrive in order.
* Lifecycle: a terminal is always in one session; what runs is ended only by
  force; a kill or a close is always decided; the readers and whoever waits for
  an end are told what is.
* Readers: whoever is in a session or out of it learns so; heals end; all of a
  session believe in one desktop; a reader alone in a session misses no news.
* Server start: at most one server listens, and the path leads to it; nobody is
  left in a backlog.
* Codec: what was written is read, in order, however the bytes are cut up; a
  snapshot fits its frame and carries as much history as that allows.
* Client loop: a client shows the terminals of its session and no others, and
  a reader with nothing to look at gets the picker.
* Printer: a reader's list has every job that is held; a saved file is the whole
  of the document that was chosen, and no other's.
* Pictures: a debt is paid in order and never paid twice.

## 2. Plan

Written, in this order:

1. **ScreenSync** with the abstract **Replay**; **MCScreenSync** for TLC;
   **ScreenSyncProofs**. The heart of the program.
2. **PasteSlots**: credit and slot.
3. **SessionLifecycle** with **SessionLifecycleProofs**: sessions and terminals
   from their opening to their end.
4. **ReaderModes**: who is in a session and what each may do there, and
   **SessionNews**: what readers are told about it.
5. **ServerStart**: how clients and servers of one user find each other.
6. **Wire** with **MCWire**: the protocol's messages, frames and budgets.
7. **ClientLoop**: what a client is looking at, from the first list to the picker
   after the last session ended.
8. **PrinterSpool**: documents from the program that prints them to the file.
9. **ReaderModesProofs** and **SessionNewsProofs**, about 4.
10. **PasteSlotsProofs**, **PrinterSpoolProofs** and **ClientLoopProofs**, about 2,
    8 and 7; and the last two invariants of 1.
11. **ConnectionProofs**, about 5 and 6: how a connection comes about, and what
    goes over it.

Left, in this order:

* **OwedImages**: the picture debt, `picture_wanted_now`, supersession by a
  snapshot, the oversize branch of `send`.
* **GridDelta** and other pure algorithms (`diff` / `apply_delta` with scrolls,
  `enforce_scrollback_capacity`, chord parsing, copy-mode motion) against
  reference definitions, in one run over bounded inputs.
* A command line's own clock, and the Windows pipe's overlapped operations.

In ScreenSync itself: a second terminal and resizes (the belief's size).

Every safety property the runs check is a theorem (section 5).

## 3. Modules

### ScreenSync

One session, one terminal, `NClients` connections. A *screen* maps `Rows` to
`Values`; a row stands for any unit the differ compares and a delta can state
alone: a line of cells, the cursor, the modes, the title. A history line is its
number.

| variable | in the code |
|---|---|
| `drawn` | history variable: all screens drawn; `Screen` is the emulator's grid |
| `term` | the child's life, `synchronized_output_active`, `damage()`: rows and `scrollback_pushed`, history length |
| `differ` | `TerminalDiffer`: `believed_`, `sequence_`, `history_diverged_`, `needs_snapshot_` |
| `conn[c]` | `Server::Client`: open, `attached`, `dirty_snapshot`, `draining_heal`; `wire` is everything sent and not yet handled by the client, whose last `unsent` frames are still in the server's `Stream` |
| `app[c]` | the client process: `ServerSession` (`attached_`, `mode_`, `snapshot_requested_`) and its `TerminalMirror` (screen, history, sequence, `needs_snapshot_`) |
| `requests[c]` | Attach and Detach frames on their way to the server |
| `acts` | counts attaches, quits and crashes for the bound |

| action | in the code |
|---|---|
| `Output`, `Synchronize`, `Exit` | the program in the terminal (ckVision, external) |
| `Respawn` | `RespawnTerminal` handler with `Terminals::respawn` |
| `TickIdle`, `TickReconcile`, `TickSilent`, `TickDelta` | one whole `flush_tick`: heal loop, `DiffEngine::flush`, needs-snapshot marking, delta gate. The four are the outcomes of the differ |
| `HandleAttach`, `HandleDetach` | the handlers, with eviction and snapshot |
| `Flush` | the socket takes a frame |
| `HearHangup` | the server reads end-of-stream: `drop` |
| `UserAttach`, `Quit`, `Crash` | the reader's side |
| `ReceiveAttached` ... `ReceiveGap` | `ServerSession::handle`, one action per outcome |
| `Heal` | `heal_if_needed` + `request_snapshot` |
| `LoseConnection` | `connection_lost` |

`Sent`, `Dropped`, `WithSnapshot`, `DetachedFrom`, `Restarted` are the calls the
handlers share (`send`, `drop`, `send_snapshot`, `detach`,
`TerminalDiffer::snapshot`); they are operators, so every handler contains all
the calls it makes, and a `send` that drops the client drops it inside the
handler that sent.

Abstractions: frames have two sizes (`SnapshotWeight` and 1) instead of bytes;
a tick's heal loop takes all its snapshots from the same screen, as the code's
does; resizes, layout, pictures, clipboard and titles as news are left out; a
client that loses its connection would come back as another number; `drop`'s
last flush is a `Flush` step before it; deltas for terminals the client does not
know cannot occur with one terminal; `Watch` differs from `Join` in nothing this
module shows.

### Replay

The abstract specification: readers are shown screens the program drew, never an
older one after a newer, until they leave. ScreenSync implements it under the
mapping `shown`, `at` to what each mirror holds (`Promise`, `ReplaysTheProgram`).

### PasteSlots

One terminal, `NClients` connections. `pasting[c]` is the client's paste queue
and `paste_in_flight_`; `wire` and `acks` are the two directions of the socket;
`slot` is the server's `PasteSlot`; `written` is what the child was given.
`Freed` is `drain_paste_slot`: it writes waiting chunks up to the first that is
not the last of its paste. `Abandon` is `windows_forgotten` after a takeover or
a switch; `SetReaderMode` only matters at the watcher's gate; `RemoveTerminal`
and `KillSession` are the two ways a terminal goes, and they treat the slot
differently, as in the code. Left out: a client dropped because an ack finds its
queue at the hard limit, which is a `Drop` a moment later.

### SessionLifecycle

Sessions, the terminals in them, and the two machines that end them: pending
kills of sessions and pending closes of terminals. The server's loop is a
`phase`: requests, exits and the passing of deadlines happen in `serve`; a tick
goes through `kills`, `closes`, `counts` and `notice` in the order of
`flush_tick`, one step for each turn of a loop, because each turn broadcasts,
detaches or removes before the next one looks.

| variable | in the code |
|---|---|
| `sess` | `sessions_`: the terminals of each session |
| `term` | `Terminals`: for each child whether it is `live()`, its exit status (`ok`), whether it was asked or killed, the lifecycle damage, `exit_announced_`; `told` is a history field |
| `kills`, `closes` | `kills_`, `closes_`. Of a deadline it matters whether it has passed: `due`, `killDue` |
| `issued` | `next_session_`, the next terminal id, and a number for each kill |
| `reader[c]` | a UI client: `session`, `dirty_snapshot`, and what it has been told: the terminals of its session (`known`) and its picker's sessions (`list`) |
| `cli[c]` | a `ckmux kill`: `awaiting_session_removal`, and whether it has been told of the end |
| `listDirty`, `running` | `session_list_dirty_`, `running_` |

| action | in the code |
|---|---|
| `NewSession`, `Attach`, `Leave`, `NewTerminal`, `RespawnTerminal`, `CloseTerminal`, `KillTerminal`, `KillSession`, `CliKillSession`, `MoveTerminal`, `KillServer` | the handlers, whole |
| `ChildExits` | the program ends and a drain finds it (ckVision, external) |
| `KillElapses`, `CloseElapses` | a deadline passes |
| `KillFindsNoSession`, `KillWaits`, `KillEscalates`, `KillDeclined`, `KillEnds` | the ways a turn of `advance_kills` can go |
| `CloseFindsNoTerminal`, `CloseWaits`, `CloseEscalates`, `CloseDeclined`, `CloseEnds` | likewise `advance_closes` |
| `FlushReaderCounts`, `NoticeExit`, `EndTick` | `flush_reader_counts`, `notice_exits`, the heal loop and the differ |
| `Shutdown` | the end of `Server::run` |

`Broadcast`, `BroadcastLess`, `RemoveTerminal`, `Evicted` are
`broadcast_session_list`, the end of `remove_terminal` and `move_terminal`,
`remove_terminal` and the detaching in `forget_session`. A broadcast is applied
after the changes of its step: nobody runs in between, and the last list is the
one that stands.

Abstractions: a message is in the reader's hands when it is sent (its way there
is ScreenSync's subject); whether a queue has room is a free choice
(`FlushReaderCounts`, `EndTick`); a reader whose queue is marked dirty by a full
queue is ScreenSync's too; closes are taken in the order of their terminals,
which changes nothing because no two touch the same; any client may ask for any
terminal or session, as in the code, where only `Attach`, `NewTerminal` and a
session number of zero look at the one who asks; a watcher's requests are
refused before any of this; names and sizes are left out; the ten seconds a
command line waits are its own clock.

### ReaderModes

One session. `reader[c]` is what `Server::Client` holds (`attached`, the mode),
`app[c]` what `ServerSession` holds (`attached_`, `mode_`,
`snapshot_requested_` as `asked`, a mirror's `needs_snapshot_` as `behind`);
`up` and `down` are the two directions of each socket.

| action | in the code |
|---|---|
| `PickSession`, `WatchOnly`, `AimAtOthers` | the picker's row, and the three entries of the session menu (`run_client.cpp`, `client_app.cpp`) |
| `FallBehind`, `Heal` | `apply` finds a gap; `heal_if_needed` and `request_snapshot` |
| `HandleAttach` | the Attach handler: the eviction of the first reader, the answer |
| `RefuseMode`, `SetMyMode`, `EvictOthers`, `SetOthersMode` | the ways the SetReaderMode handler can go |
| `Receive` | `ServerSession::handle`, for the four answers |

A heal is an Attach with the mode the client holds *now*, so a heal on its way
when the reader is evicted or changes its mode is a case of its own; it is why
`EverybodyKnowsWhetherIn` is about the answers still on their way. Left out:
what a mode allows (PasteSlots and SessionNews have their gates), and the marks
a full queue leaves (ScreenSync).

### SessionNews

What is said about a session, as opposed to what its terminals show: marks and
bell counts, names, places of windows, the size of the desktop. `terminal[t]`
holds what the server keeps of each (`said`) with what it has announced
(`metaTold`, `nameTold`, `placeTold`: the `announced_*` of the code, as whether
they still agree); `shown[c][t]` is what the client was told last; `reader[c]`
has the desktop that client believes in (`world`) and `dirty_snapshot`. The
handlers and the tick chain calls (`send_snapshot`, `announce_terminal_news`,
`announce_layout`, `set_desktop`), and so do the actions: `Snapshot`, `News`,
`Layout` and `Reshaped` are operators on the whole state that the actions
compose, and `Tick` is heal, news, layout and the differ's clearing of damage in
the code's order. A message counts as received when it is said (a connection
delivers in order, and a client that misses one is `dirty`); text of names,
rectangles and two dimensions are one value each; `on-exit` and killing are
SessionLifecycle's.

### ServerStart

Processes of one user, `path` and `lock` as the file system has them. The system
calls of `Listener::listen` are steps of their own (`Lock`, `RemoveStale`,
`Bind`, `Listen`), as are those of the way down (`CloseSocket`, `Unlink`,
`Unlock`, `End`), because other processes run between them. `AcceptPending`,
`PauseEnds` and `Without` are the descriptor limit and its pause of a second;
`Connect`, `StartServer`, `NothingThere`, `GiveUp`, `HearEnd` are
`connect_to_server` and its callers; `Greet`, `MismatchDeadline`, `AskToKill`,
`HearKill` are the handshake and what another version may still ask. `Crash` is
`kill -9` at any step. A program is one descriptor. Removing a stale socket is
one step with finding that nobody answers: the lock is held throughout, so only
a server without the lock could come between, and there is none
(`PathIsTheServers`).

### Wire

The protocol twice: `Written` has, for every message, the fields as the encoder
writes them, `Read` as the decoder reads them, each a sequence of shapes
(`Unsigned`, `Text`, `List`, `Cells` ...), transcribed apart from one another;
`Encode` and `Decode` give the shapes their bytes, with the caps, the overflow
of a cell's text, the run lengths and the limits of a grid. `Send`, `Receive` and
`TakeFrame` are a sender, the socket, which cuts anywhere, and `FrameReader`;
`Composed` is `send_snapshot`, which fills histories up to the budget
(`encoded_size`, `fill_history`). What is shorter here than in the code are the
limits (a text of 9 bytes instead of 4096 and so on, in proportion); widths of
numbers are the code's. `MCWire` builds the traffic: each message with least and
with greatest fields, and snapshots around their budget.

A list holds groups and a group holds lists, but none is deeper than the jobs of
a terminal of a snapshot, so the writer is one operator over plain fields that
`PutWith` is applied to twice (`PutPlain`, `PutInner`, `PutField`), and the reader
likewise. What a reader leaves off is a record of the bytes, the place in them,
whether it failed and what it read last. `Sayable` is what the structs of
`proto.hpp` can hold; `TrafficAssumption` asks that of every message, or that
`Encode` makes no frame of it. `ReadBudget` is the budget of `Stream::receive`
(1 MiB): `RoomAssumption` says that one read and the largest frame that is sent
fit together into what `FrameReader::append` keeps, as 1 MiB and 4 MiB do into
16 MiB; where they did not, a reader would refuse what it should read.

### ClientLoop

What the connection and the server's answers make of a client: `client[c]` holds
the loop's flags (`startup_decided`, `waiting_for_a_new_session`,
`show_picker_when_the_list_arrives` ...), the stack of pickers with what the
last one left (`session_choice`), the session it believes in, its mirrors and
the windows over them. `Hear...` and `Start...`, `Listed` are what a message
does, one action per way its handler can go; `OpenFirst`, `HearEnd` and
`Reconnect` are the rest of a pass of the loop; `Start`, `ShowSessions`,
`CreateSession`, `OpenTerminal`, `PickSession`, `Dismiss` are the reader's. The
server's handlers are operators on the whole state (`NewSession`, `Attach`,
`NewTerminal`, `Broadcast`), and sessions and terminals end by themselves
(`SessionEnds`, `TerminalEnds`), whoever ended them.

Abstractions: a request is handled as it is sent; whatever the server does in
between, it may as well have done before, with the news of it still on its way
(`down`). A reader does nothing before the first list is answered. Windows that
a reader closes, terminals held after their exit, and saved layouts are left
out.

### PrinterSpool

The terminals of one session. `term[t]` is the emulator's finished documents
(`ready`), the spool (`jobs`), the next number, and the two marks the tick looks
at; `mirror[c][t]` is the client's list, count, and texts that are coming or
have come; `app[c]` is the Print Output dialog with its copy of the rows and the
one save that may be pending. `Tick` is `announce_terminal_news` as far as it
concerns printing: whom it tells, what it collects and what it clears when
nobody is there. `Receive` is the dispatch to the mirrors; `Save`,
`FinishPendingSave`, `DiscardAll`, `ShowPrintOutput` are the dialog's hooks,
each with the server's handler for the request it sends.

A document is a number and a length in chunks; one past the limit was freed and
has none. Left out: `SetPrinterPolicy` and its scopes (no client sends it: the
hook `set_printer_policy` is never assigned in `run_client.cpp`), the frame
button's states, the conversion to plain text, and documents held back by a
synchronized frame.

## 4. Runs

| run | bounds | shows |
|---|---|---|
| `screen_exclusive` | 2 readers, 2 rows, 2 draws, 3 acts, takeover only | types, `MirrorDrawn`, `NoGap`, `CleanIsCurrent`, refinement of `Replay` |
| `screen_flood` | 2 readers, 1 row, 2 draws, 2 lines with `MaxPush` = 1, 2 acts, synchronized frames | `CleanHasHistory`; `Converges` under fairness |
| `screen_shared` | 2 readers, modes takeover and join, 2 draws, 2 acts | `HealUnderWay`; `GapsHeal` under fairness |
| `paste_slot` | 3 readers, one paste of up to 3 chunks each with a credit of 2, one lost connection, one watcher or one thrown-away paste | types, `NotInterleaved`, `NobodyWaitsForNobody`, `CreditComesBack`, `WaitingIsBounded` |
| `session_lifecycle` | a reader and a command line, 2 sessions, 2 terminals, 2 kills, 4 requests; `kill-empty-session` on, `on-exit = hold-on-error` | types, `EveryTerminalHasOneHome`, `ReadersKnowTheirTerminals`, `PickersListWhatIs`, `KillIsConfirmed`, `RunningIsKeptUnlessForced`; under fairness `ForcedKillEnds`, `ClosesAreDecided`, `ExitsAreNoticed` |
| `server_start` | 3 server processes, 2 clients of any goal and version, 2 descriptors | types, `PathIsTheServers`; `BacklogIsServed` under fairness |
| `readers` | 2 clients, 5 acts between them, every mode | types, `EverybodyKnowsWhetherIn`; `HealsEnd` under fairness |
| `news` | 2 clients, 2 sessions, 2 terminals of which one is opened, 2 sizes, 5 acts; `desktop-size = fixed` | types, `ReadersAgreeOnTheDesktop`, `SoleReaderMissesNothing` |
| `wire` | each message at its least and at its most, in the middle of three; reads of 1, 9 and 40 bytes and of all there is | `DeliveredInOrder`, `SnapshotFits` |
| `client` | 2 clients, one thing nobody was obliged to do, at most 2 messages behind when the server speaks by itself | types, `ShowsItsSession`; `PickerComes` under fairness |
| `spool` | 2 readers, 1 terminal, 2 documents of up to 3 chunks with a limit of 2, 4 acts | types, `ReaderSeesWhatIsHeld`, `SavedIsTheDocument` |
| `spool_names` | 1 reader, 2 terminals, 2 documents, 3 acts | finds `ANameIsOneDocuments` violated, see below |

The marks in the screen runs (`Backlog` 0 or 1 < `SnapshotWeight` 2 =
`HighWater` < `HardLimit` 3) are the smallest with every relation the code has
between them: a snapshot alone exceeds the backlog mark but not the high-water
mark, two snapshots or a snapshot and two deltas exceed the hard limit. So a
healed client drains over the mark, a delta can push a queue past the high-water
mark, and a send can drop its client. `screen_exclusive` takes 0, so that one
unsent delta already closes the gate to the next; the other runs take 1, so that
a delta can be queued behind another. Three acts allow attach, takeover and re-attach, or a
crash in the middle of either. Two draws give every snapshot and delta a
predecessor and a successor. One push per delta and two lines make a flood.
`screen_exclusive` uses symmetry in the rows, which no definition tells apart.
PasteSlots may stop when its bounds are spent, so deadlock is not checked there;
in ScreenSync the tick always can run, and it is.

`paste_slot`: three readers are needed for two to wait behind one, three chunks
for a paste to be longer than the credit.

`session_lifecycle`: four requests reach every pair of a pending kill or close
with an opening, a move, a respawn or a second kill of the same thing (one opens
a session with a terminal, one starts the ending, two interfere), two sessions
let a terminal move, and two terminals let one of a session go while the other
stays. `hold-on-error` has both outcomes of an exit. The server may stop, so
deadlock is not checked. The safety properties were also checked at five
requests. What several readers add is covered by the theorems, which hold for
any number.

`server_start`: three processes are a server that dies, one that takes its place
and one that races with that; two descriptors and two clients make a listener
that pauses with one waiting. Everything may stop, so deadlock is not checked,
here and in the runs below.

`readers`: five acts are two attaches, an order to the others, a mirror that
falls behind, and one more thing that crosses its heal. With a third client the
safety properties were checked at four acts.

`news`: five acts are two attaches and any three of a bell, a move, a resize, a
name, a place or a queue that fills; ticks are not counted. Two sessions are
what a terminal moves between and what a reader leaves for. Under the other two
policies `ReadersAgreeOnTheDesktop` is false (below).

`wire`: messages do not interact except by where one ends, so three in a row
show what a hundred would: the one before and the one after are read only if the
bytes of the one in the middle are exactly used up. A read of one byte is every
cut at once. Fields at their most differ from their neighbours, so two that are
swapped are seen.

`client`: starting, detaches and everything the loop does are not counted, so one
act is, for instance, the end of a session another reader is on its way to. The
safety properties were also checked with two acts (5.1 million states).

`spool`: four acts are two attaches, an open dialog, and one of a discard, an end
or a respawn under it. Also checked by hand: two terminals, and five acts.

### Disagreements

`spool_names` is kept as a run. The Print Output dialog names a file with
`print_job_auto_name(0, ...)`, a name for terminal 0 whatever the terminal is, so
the first documents of two terminals have one name and the second replaces the
first on disk; `printer_output.hpp:68` and its test say that a name is one
document's.

Other statements of the documents and comments that the models contradict are
written as properties in their modules, or told here. None of them is a property
of a passing run. To see one violated, put it into a configuration like the ones
here:

| property, module | what happens |
|---|---|
| `NoLineTwice`, ScreenSync | a snapshot holds lines whose damage is not flushed; the next delta pushes them again |
| `MirrorDrawn` with `Join`, ScreenSync | a joining reader's snapshot restarts the shared sequence; the first reader takes a delta made against a screen it never had |
| `FloodReconciled`, ScreenSync | a flood as the last output is never reconciled |
| `InOrder`, PasteSlots | a waiting reader's second chunk is overtaken by its third (`server_session.hpp:199`: the order is the queue's) |
| `HeldByItsPaste`, PasteSlots | a taken-over reader keeps the slot of a paste it threw away (`server.hpp:404`: the final chunk releases it) |
| `EveryProgramIsAsked`, SessionLifecycle | a program started in a session that is being killed gets SIGKILL as its first signal |
| `WatchersCommandNobody`, ReaderModes | a watcher's `SetReaderMode` for the others is carried out (comment on `changes_the_session`) |
| `TakenOverIsAlone`, ReaderModes | a takeover detaches the first reader only; joined ones stay (`docs/cli.md`) |
| `MovesAreSaidToAll`, SessionNews | one reader's snapshot counts as the announcement of a move the others have not heard of |
| `BellsAreRings`, SessionNews | a bell inside a held frame is counted again at each tick (`terminals.hpp`, `count_bell`) |
| `WithinTheLimit`, SessionNews with three terminals | terminals moved into a session take it past `max-terminals` (`docs/configuration.md:45`) |
| `LeftSizesNothing`, SessionNews | a client that has been detached and does not know it resizes the session it left |
| `ReadersAgreeOnTheDesktop` under the two fitting policies, SessionNews | an attach that changes the desktop tells only the one who attached |
| `NoNewServerWhileProgramsRun`, ServerStart | the lock goes before the programs of a stopping server have ended |
| `NewestIsMine`, ClientLoop | two clients that ask for a session at once may both go to the newest (comment at `run_client.cpp:674`) |
| `DrainedWhoeverWatches`, PrinterSpool | a document that ends with nobody attached is neither collected nor listed until the terminal has other printer news (`server.cpp:1843` against the comment at 1911) |

Found in the printer's spool while modelling, without a property of their own: a
pending save waits for ever after a discard, an Error or a heal, and a second
save forgets the first (`client_app.cpp:2533`); discarded jobs stay in a mirror's
list, as nothing calls `forget_print_jobs`; after a respawn the count is zero and
the list is not; the answer of the "Stop capturing" question never reaches the
server (`client_app.cpp:2688`).

### Fairness

`FairSpec` assumes weak fairness of the tick, the Attach and Detach handlers,
`Flush` and the server's notice of a hangup, and of a live client's reading,
healing and noticing a lost connection. `Server::step` runs due ticks and serves
every ready connection on each pass with a read budget, and the client's loop
polls, reads and heals at least every 50 ms, so each is done again and again as
long as it is possible. A client is assumed to read: one that does not is what
the hard limit is for. Nothing is assumed of programs or readers: they may stop
at any time, and `Converges` speaks of a reader who stays while no synchronized
frame is held.

In SessionLifecycle the tick's own steps and the shutdown are weakly fair: the
loop of `Server::run` does nothing else. That a deadline passes is strongly
fair: it passes in `serve` only, because the code reads the clock once for each
pass over its list, and the loop is in `serve` again and again. Children may
ignore every signal for ever, and nobody has to ask for anything.

In ReaderModes both poll loops serve what has arrived and the client's heals what
is behind (`Heal`, `Serve`, `Receive`, each weakly fair for each client); no
reader has to do anything. In ServerStart processes run: a server's way up and
down, its accepting and the end of its pause, its greeting, and a client's
attempts are weakly fair; nobody has to
stop, crash, give up or leave, and no program to end: `BacklogIsServed` is about a
server that comes to have room for good, as one whose programs take the last
descriptor at each of its attempts may refuse a client for ever. In ClientLoop a
client's loop is weakly fair as one: it takes what has arrived, hears of the end
of its connection, or connects again. SessionNews, Wire and PrinterSpool have no
liveness property and assume nothing.

## 5. Proofs

`ScreenSyncProofs` proves, for every number of clients, rows, values, marks and
bounds the assumptions of ScreenSync allow:

| theorem | establishes |
|---|---|
| `TypeCorrect` | `Spec => []TypeOK`, for all modes |
| `ScreensAreDrawn` | `Spec => []MirrorDrawn` when readers only take over |
| `StreamHasNoGap` | `Spec => []NoGap`, likewise |
| `CleanReadersAreCurrent` | `Spec => []CleanIsCurrent`, likewise |
| `Implements` | `Spec => ReplaysTheProgram`, likewise |
| `HealsAreUnderWay` | `Spec => []HealUnderWay`, for all modes |
| `HistoryIsWhole` | `Spec => []CleanHasHistory` when readers only take over |

The hypothesis `Modes = {"TakeOver"}` is not a convenience: `MirrorDrawn` is false
with joining readers (Disagreements).

**The inductive invariant.** None of the properties is inductive: they speak of
mirrors, and what a mirror will show is decided by frames already queued.
`IInv` adds: at most one connection is attached (`OneReader`, from takeover);
rows that differ from the belief are damaged (`HintsCover`, why the differ may
look at damaged rows only); and for each client that its *pipe* is sound: the
mirror followed by the frames on the wire is a sequence of snapshots, openings
and deltas such that each delta carries the number after the one before and,
applied to the screen before it, gives a screen that was drawn, no older than
the last. If the client is attached and clean, what the end of that pipe will
show is exactly the differ's belief and number. The steps then are: cutting the
unsent end off (a drop) or the front (a receipt) keeps a pipe sound; a delta
composed against the belief extends a clean client's pipe by a drawn screen; a
snapshot extends any pipe; everybody else's pipe is untouched. `Implements`
follows from the same invariant: each step moves a mirror's `at` forward or
leaves it.

`HealUnderWay` needs nothing of that, only types: nothing the server does to a
connection takes an answer out of its queue except the end of the connection
(`AnsweringKept`), and an Attach that is handled leaves the answer in its place.
`CleanHasHistory` is about what a clean reader *will* hold: a line is held or in
a frame on the wire, and no snapshot or opening behind it takes it away again
(`Comes`, an invariant next to `IInv`, `HistoryOnItsWay`). A tick that composes a
delta carries exactly the lines since the last one, a flood is noted in
`diverged`, and a receipt moves lines from the wire to the mirror because by
`IInv` no delta is ever refused.

`SessionLifecycleProofs` proves, for every number of readers, command lines,
sessions, terminals and requests and for all settings:

| theorem | establishes |
|---|---|
| `LifecycleTypes` | `Spec => []TypeOK` |
| `OneHome` | `Spec => []EveryTerminalHasOneHome` |
| `ReadersKnow` | `Spec => []ReadersKnowTheirTerminals` |
| `KillConfirmed` | `Spec => []KillIsConfirmed` |
| `EmptyStops` | `Spec => []EmptyServerStops`: a server that had a session and has none is stopping |
| `PickersKnow` | `Spec => []PickersListWhatIs` |
| `RunningKept` | `Spec => RunningIsKeptUnlessForced` |

Its `IInv` joins the properties and adds two parts: ids not yet given name
nothing (`IdsAreFresh`: why a new session cannot be the one a killer waits for,
and a new terminal is in no other session), and a command line waits exactly
until its session is gone (`WaitingIsSound`, the inductive form of
`KillIsConfirmed`). `LessKeeps` is the lemma in the middle: the end that
`remove_terminal` and `move_terminal` share, where the list is published and an
emptied session goes, keeps everything that held of the sessions before it.
`PickersListWhatIs` is inductive next to `IInv`: every step that changes the
sessions broadcasts or notes the change. `RunningKept` needs one invariant more, that a tick's loop has only entries to
look at that are still pending (`TodoIsPending`).

`ConnectionProofs` proves of ServerStart, for every number of clients and of
servers and whatever a server's backlog and descriptors hold:

| theorem | establishes |
|---|---|
| `StartTypes` | `Spec => []TypeOK`; with it, no server ever holds more connections and programs than it has descriptors for (`Room` is never negative) |
| `OneListener` | `Spec => []PathIsTheServers` |

`PathIsTheServers` speaks of servers that listen and of one that has just taken
the lock; between them lie the phases of coming up and going down, in which a
server may crash. The invariant adds what they own (`Owned`): a server in a phase
of `Locked` is the lock's holder and one in a phase of `Named` is where the path
leads, so that a stale socket can only be removed by the lock's holder and two
servers cannot be in those phases together. Room is a matter of counting: who
leaves makes the open set no larger (`WithoutType`), and who is accepted comes
from the front of the backlog, no more of them than there is room (`FirstOf`).

It proves of Wire, for every value of the caps and budgets that the assumptions
allow, every message `Sayable` admits, any traffic of them and any reads:

| theorem | establishes |
|---|---|
| `PayloadRead` | wherever the payload of a message stands among a reader's bytes, reading it gives the message and ends right behind it, for each of the protocol's types |
| `CodesDiffer` | every type has a code of two bytes, and no two have the same |
| `DecodeFrame` | a part of a frame is waited for and never refused; the whole of it, whatever follows, is the message |
| `SnapshotSizeIs` | the size said of a snapshot (`encoded_size`) is the length of its payload |
| `SnapshotsFit` | `StreamSpec => []SnapshotFits` |
| `Delivered` | `StreamSpec => []DeliveredInOrder` |

The codec is proved from the bytes up. Each kind of field has two lemmas: what is
put for a value that fits is bytes, no fewer than the reader's floor
(`BasicPut`, `RunPut`, `PlainPut` ... `FieldPut`), and what is got where those
bytes stand is the value, with the reader moved past them (`BasicGet` ...
`FieldGet`). A shape is read field after field (`AllBasicIs` ... `AllFieldIs`, by
induction over how many are read: `InTurn`), a list is a count and entries, whose
floors say that the count is not more than what remains can hold (`CountIs`,
`FlattenLeast`), and runs stand for the cells they were made of (`RunsOf`,
`JoinedIs`). An operator cannot be a lemma's parameter, so each level of fields
has its own copy of these; there are four levels, as in the model. The tables are
then compared entry by entry (`ControlPaired` ... `EventPaired`, `StatesEach`,
`OpShapes`): this is where a field that one overload writes and the other does
not read, or reads elsewhere, would be an obligation that fails.

`SnapshotsFit` measures what was written (`StateSizeIs` adds up the 39 fields of a
terminal) and then follows the room: after each terminal, what is left and what
was taken are together what there was (`Balanced`), and an equal share of what is
left is never less than an equal share of the whole, as nobody took more than
theirs (`FairStep`, `FilledFits`). `Delivered` needs an invariant of the stream
(`Streaming`): what the reader holds followed by what is in flight is the frames
sent and not yet read, one after the other (`InFlight`, `Ahead`); and each of
these, with one read of the socket, fits into what the reader keeps (`Carried`).
So whatever is held is part of a frame, which is waited for, or has one at its
start, which is taken (`ResultIs`), and `FrameReader::append` is never asked to
keep too much (`StreamingReceive`). That last step is where `RoomAssumption` is
needed, and the budget of a snapshot with it: a reader appends only while it has
less than a frame.

`ReaderModesProofs` proves, for every number of clients and any length of the
queues its bounds allow:

| theorem | establishes |
|---|---|
| `ModeTypes` | `Spec => []TypeOK` |
| `EverybodyKnows` | `Spec => []EverybodyKnowsWhetherIn` |

What a client believes and what the server knows meet in the answers under way,
so the invariant reads them as a whole: a client that reads all that is queued
for it (`After`) believes itself attached exactly when the server has it
attached. `AfterAppend` says what an answer added at the end does to that belief
and `AfterTail` what reading the first one does; every handler is one, the other
or neither, for each client whose state it changes.

`SessionNewsProofs` proves, for every number of clients, sessions, terminals and
sizes:

| theorem | establishes |
|---|---|
| `NewsTypes` | `Spec => []TypeOK`; with it, a terminal is in one session at most, wherever it is moved |
| `SoleReaderHears` | `Spec => []SoleReaderMissesNothing`, whatever the size policy |
| `DesktopAgreed` | `Spec => []ReadersAgreeOnTheDesktop` when `desktop-size` is fixed |

The hypothesis of `DesktopAgreed` is needed: under the other policies an arriving
reader changes the size without telling those who are in (Disagreements). The
operators of SessionNews work on the whole of what the server keeps, so the
invariant is a predicate of such a whole (`Sound`) and each of `Snapshot`,
`Layout`, `News` and `Reshaped` has a lemma each for what it keeps sound, what a
reader by itself knows after it and whether readers still agree; the tick and the
handlers chain the lemmas as they chain the operators. The invariant adds that a
reader is in a session that has a size, that only such a reader is owed a
snapshot, that nothing was said of a terminal that is not there yet, and that
who is by itself (`alone`) really is the only one there. Handlers that say
nothing are covered by two lemmas, `OneTerminal` and `ByParts`.

`PasteSlotsProofs` proves, for every number of connections, every credit and
every bound:

| theorem | establishes |
|---|---|
| `PasteTypes` | `Spec => []TypeOK`; with it, no count of acks goes below zero |
| `NoInterleaving` | `Spec => []NotInterleaved` |
| `SlotsAreHandedOn` | `Spec => []NobodyWaitsForNobody` |
| `CreditIsNeverLost` | `Spec => []CreditComesBack` |
| `SlotQueueIsBounded` | `Spec => []WaitingIsBounded` |

`NotInterleaved` is about what the child was given, so the invariant says who may
write next: whoever wrote last and had not finished, if still connected, owns the
slot (`WriterHolds`), and a slot for which anybody waits is owned (`SlotIsHeld`).
Credit is counted: what a client has outstanding is what is on its wire, in the
slot's queue and in acks, and `Count` of a queue is a cardinality, which
`CountConcat` and its companions take through every place a chunk moves to.
`Freed` writes up to the first chunk that is not the last of its paste, and the
release of a leaver takes its chunks out of the queue; both are counted in.

`PrinterSpoolProofs` proves, for every number of connections, terminals,
documents and pieces:

| theorem | establishes |
|---|---|
| `SpoolTypes` | `Spec => []TypeOK`; with it, the jobs of a spool rise and stay below its next number |
| `ReaderSees` | `Spec => []ReaderSeesWhatIsHeld` |
| `SavedWhole` | `Spec => []SavedIsTheDocument` |

Two things carry it. Job numbers outlive their documents, in mirrors, in the rows
a dialog copied and in saves that are pending; so the invariant speaks of a
*catalogue* of every job a spool ever numbered (`Agreed`), which only grows, and
says that every row and every text anywhere is the catalogue's. And what is
queued for a client *leads* from its view to one that shows what is held (`Path`,
`Leads`, `Shows`): a view for each place in the queue, each of them good, each
message taking one to the next. Reading drops the first view, telling adds one at
the end. Only the first reader is told of jobs, and `told` is a history of who has
been since its last snapshot; `ToldIsFirst` says nobody else counts as told, which is
why nobody else's view need show them.

`ClientLoopProofs` proves, for every number of clients, acts and any backlog:

| theorem | establishes |
|---|---|
| `ClientTypes` | `Spec => []TypeOK`; with it, a session that is read exists, and no window outlives its mirror |
| `ShownIsRead` | `Spec => []ShowsItsSession` |

Again what a client shows and what the server knows meet in the queue, but the
client moves by itself: `switch_to` clears its windows and names another session
before it is known whether it is let in. So the invariant has a *set* of views for
each place in the queue, closed under a change of session that the server refuses
(`Closed`, `Diverted`); reading, sending and being diverted each have a lemma
(`LeadsTail`, `LeadsOn`, `LeadsDiverted`), and a snapshot leads from any view at
all (`LeadsAnew`). With it go that the window layer was told of exactly what it
shows (`Together`), and that who reads a session is connected to a server that has
it (`Linked`). The operators of ClientLoop work on the whole of the state, so the
invariant is a predicate of such a whole (`Right`), each operator has a lemma that
keeps it, and the actions chain the lemmas as they chain the operators.

The provers cannot instantiate an induction rule with an operator, but a set of numbers without a
least one that is missing is all of them: `Least` and `Induction` get that from the
well-foundedness of the natural numbers. With them PasteSlotsProofs reasons about
the queue without a leaver's chunks and about how far `Freed` gets, PrinterSpoolProofs
about the news of all terminals one after another, ClientLoopProofs about the
rows of a list and the newest of them, and ConnectionProofs about every recursive
function of Wire: that there is one that satisfies its equation (`Recursive`), and
no other (`Same`).

**Assumptions.** The theorems rest on the named assumptions of the modules only:
what the code's constants and the bounds are (numbers, marks in their order), and
where a count of clients is taken, that there are finitely many. What a theorem
supposes besides stands with it above (`Modes`, the size policy). Wire's say that
the caps are numbers that the width of their length field can hold, that a run's
length fits its two bytes, and that a read of the socket and the largest frame fit
together into what a reader keeps; the values in `proto.hpp` satisfy them. Three
modules of models were written with the proofs in mind: in ClientLoop the rows of
a list (`Listing`) are a recursive function and not a filter of a sequence, in
PrinterSpool the job a fetch names (`Fetched`) is chosen from a set, and Wire nests
its shapes by applying operators and not by recursion.

**Only model-checked.** Liveness (`Converges`, `GapsHeal`, `ForcedKillEnds`,
`ClosesAreDecided`, `ExitsAreNoticed`, `BacklogIsServed`, `HealsEnd`,
`PickerComes`), which needs ENABLED. No invariant is only model-checked.

## 6. Not modelled

* **Picture debt** (`owed_images_`, `picture_wanted_now`): what is placed and
  what its pixels are is ckVision's, which is not in this tree. Its order is
  planned above.
* **Grid delta**: how a difference is written as operations. The screen models
  use what `diff` and `apply_delta` establish, Wire how operations are coded.
* **The user interface** (windows, menus, dialogs, overlays, the frame button):
  one toolkit's widgets, with no protocol of their own apart from the picker
  (ClientLoop) and the Print Output dialog (PrinterSpool).
* **Copy mode, keymap, configuration**: sequential text handling, a candidate
  for bounded checks.
* **Statistics, clipboard, capabilities, processes**: thin layers over the
  operating system. A program is one descriptor in ServerStart.
* **The Windows transport**: planned last; the queue of ScreenSync stands for
  either.
* **The command line's own clock**: `ckmux kill` gives up after ten seconds.

PROJECT.json gives the reason for each component, and what is left out of those
modelled partly.
