# A TLA+ verification project for Quil

Quil is a terminal multiplexer written in Go: a TUI client (`cmd/quil`,
`internal/tui`) and a background daemon (`cmd/quild`, `internal/daemon`) that
talk length-prefixed JSON over a local socket or over SSH (`internal/ipc`,
`internal/transport`). The daemon owns the workspace (projects, tabs, panes),
the PTYs behind the panes, their output buffers, and the files from which a
restarted daemon rebuilds all of it. This directory models the parts of that
program whose correctness depends on interleavings, failures, ordering or
boundary values, checks them with TLC on small instances, and proves the most
important results with TLAPS for every value of the constants.

`PROJECT.json` holds the machine-readable side: the components, the runs and
their properties, a mutant for every property, the source lines each definition
models, the hazards, the findings and the theorems.

## 1. Inventory

### 1.1 Components

| Component | State it keeps | Operations | Correct when | Module |
|---|---|---|---|---|
| Ring buffer (`internal/ringbuf`) | a fixed array, `start`, `size`, `gen` | `Write`, `Reset`, `Bytes`, `Tail`, `Gen` | it holds the last bytes written; an unchanged `gen` means unchanged bytes | `RingBuffer`, `BoundedLog` |
| Session manager (`daemon/session.go`, `project.go`) | `tabs`, `tabOrder`, `panes`, `projects`, `projectOrder`, the active ones | create, destroy, replace, switch, reorder, merge | its maps and orders agree and nothing active is dead | `Session` |
| Message handlers (`daemon.go`, `create_req.go`, `worktree_add.go`, `overlay.go`) | locals across several session calls | create, close, replace, merge, attach, overlays | no tab without a pane, no project without a tab, something active | `Workspace` |
| IPC connection (`ipc/server.go`) | two queues, `pending`, `overflow`, `closed`, the socket | `Send`, `SendBlocking`, `Flush`, `Close`, `sendLoop`, the reader | order, no silent loss, an exact count, an untorn stream, a dead connection always removed | `Conn` |
| Snapshots, workspace and buffer files (`daemon.go`, `internal/persist`) | `snapshotCh`, debounce, ticker, `snapGens`; `workspace.json`, `.bak`, `.tmp`, one `.bin` per pane | request, save, collect, clean, load | every change reaches the disk; `Load` finds the last version that went live | `Snapshot`, `WorkspaceFile` |
| Pane processes (`daemon.go`, `session.go`) | PTY, spawn generation, exit code, pending flag, buffer | spawn, lazy spawn, restart, exit, stream, destroy | one process per pane; a late exit or byte of an old one never counts for the new one | `PaneLife` |
| Input queue and redraw keys (`session.go`, `redraw.go`) | bounded queue, positions, throttle, timer | enqueue, write, kick, defer | no two redraw keys within the cooldown | `Redraw` |
| Attach and replay (`daemon.go`, `tui/pane.go`) | ghost snapshot, output generation, screen | attach, chunked replay, live frames, reattach | a screen shows one child | `Replay` |
| Pane sizes (`daemon.go`, `tui/model.go`) | window, stored size, PTY size | debounce, diff, resize, kick | all three end equal | `PaneSize` |
| Events and watchers (`event.go`) | bounded queue, watchers | push, aggregate, find, watch, dismiss | a waiting agent gets past every card | `Events` |
| Idle detection (`daemon.go`) | three clocks, notified flag | check, report | silence is noticed | `IdleCheck` |
| Tasks and work state (`task.go`, `workstate.go`) | task registry, ledger, settle timer | delegate, observe, settle, time out | a task ends once, and ends when its pane rests | `Tasks` |
| Hook events (`internal/hookevents`) | spool files, offsets, bursts | append, drain, rotate, coalesce, emit | each line in one place, in order | `HookIngest` |
| Agent sessions (`claudesessions.go`, `daemon.go`) | claimed, resumed and recorded session ids | claim, resume, restart, restore | two processes never share a session | `Resume` |
| Start and stop (`cmd/quil`, `cmd/quild`) | socket, pid file, daemons | probe, listen, launch, restart, stop, kill | no daemon out of reach | `Launch` |
| Self-update (`update.go`, `internal/update`, `update_apply.go`) | staged releases, apply lock, two binaries | stage, swap, undo, sweep | the pair is whole and of one version | `Update` |
| Processes dialog and kills (`procreport.go`, `proctree`) | report, gate, confirm | report, confirm, signal twice | only what was confirmed dies | `ProcKill` |
| Sandboxes (`sandbox_*.go`, `internal/sandbox`) | registry, trees, alternates lines, containers | prepare, run, harvest, tear down, sweep | no commit is lost, no repository broken | `Sandbox`, `SignIn`, `SpoolForward` |
| Links (`tui/reconnect.go`, `router.go`, `dialdest.go`) | link per host, ladder, pump, offline hosts | lose, redial, park, wake, disconnect | every link is tended, no connection leaked | `Reconnect` |
| Client event loop (`tui/model.go`) | listening goroutine, tick chains, attaches | receive, tick, attach | one listener, one chain, one attach | `TuiLoop` |
| Layout (`tui/layout.go`, `tab.go`, `model.go`) | tree, placeholder, held pane | split, replace, rebuild, restore | every pane once | `TabTree` |
| What is on screen (`tui/project.go`, `overlay.go`, `reorder.go`) | projects, order, active tabs, overlay slots | switch, move, toggle, jump, merge | client and daemon agree | `Screen` |
| Input (`tui/model.go`, `ctxmenu.go`) | mode, chord, menu, drag, selection | keys, mouse, paste | it acts on the pane that was meant | `Keys` |
| Dialogs (`tui/dialog.go` and others) | open dialog, confirm, offers | open, answer, displace | a confirm is its own; every offer is made | `Dialogs` |
| Create-pane wizard (`tui/dialog.go`, `sessions.go`) | fields, listings, timers | choose, browse, pick, submit | what is sent is what was shown | `Wizard` |
| Project form (`tui/projectdialog.go`) | fields, plan, dial | type, dial, fold, submit | as its lines said, on the machine browsed | `ProjectForm` |
| Palette and pane search (`tui/palette*.go`, `daemon/search.go`) | query, hits, registry | type, search, go | hits answer the query; a row goes to its target | `Palette` |
| Attention (`tui/workstate.go`, `notify.go`) | marks, toasts, focus | work events, focus, acknowledge | whoever waits has a toast | `Attention` |
| MCP bridge (`cmd/quil/mcp*.go`) | pending maps, host connections | ask, answer, connect, drop, retry | answers wake their own caller; nothing leaks | `Bridge` |
| Text editor and viewers (`tui/editor*.go`, `viewer_mouse.go`) | lines, cursor, selection, window | keys, paste, mouse, save | a cut loses nothing, a click lands where it aims, an edit is marked | `Editor` |
| Pane notes (`tui/notes.go`, `persist/notes.go`) | bound editor, two dirty flags, tick chain, files | open, edit, save, leave, flush | what was typed is saved, marked, or its save failed | `Notes` |
| Links over ssh (`internal/transport`, `cmd/quil/remote.go`, `dialall.go`) | child, pump, held bytes, exit status | read, pump, close, reap, classify | no byte lost, nobody stuck, the failure diagnosed as what it was | `StdioConn` |
| IPC framing, git discovery, configuration, plug-ins, hook installers, clipboard, logging, rendering | - | - | - | not modelled, section 6 |

### 1.2 How the parts interact

A connection's reader goroutine dispatches each message to a handler. The
handler calls the session manager several times, holding its lock only inside
each call, then broadcasts the new state and asks for a snapshot without
blocking. The broadcast enqueues a frame on every connection; each connection's
`sendLoop` writes its two queues to the socket. The event loop in `Daemon.Wait`
turns snapshot requests, after a debounce, and ticks into `snapshot()`, which
reads the session once, writes the workspace file, then the changed ring
buffers. Pane goroutines write ring buffers and broadcast output at any time;
their exits, the hooks' spool files and the idle check become events, which
move the work ledger, the tasks and the waiting agents.

The client is one goroutine (Bubble Tea's `Update`) fed by one listener and by
commands that run concurrently and answer by message: requests, dials, timers,
clipboard reads. Every answer may find another dialog, another tab or another
connection than the one it was asked for.

### 1.3 What is hard here

- Handlers are sequences of lock holds, so two of them interleave at every
  release; their repairs ("create a shell if the tab is empty") test and act in
  separate steps.
- A slow peer must never block the daemon, lose state silently or keep a replay
  waiting for ever; writes have deadlines and can stop inside a frame.
- Files are replaced by several system calls, each of which may fail, with a
  kill possible between any two; several processes share a socket, a pid file,
  a lock file and two binaries.
- Decisions rest on values read earlier: the generation read before the bytes,
  the queue length before the push, the PID before the signal, the query before
  the answer, the plan on screen before Enter.
- A process is replaced while its predecessor's output, exit, keys and events
  are still on their way.

The `hazards` of `PROJECT.json` list these at their lines, each with the
properties that catch it or the reason none does.

## 2. Modules

| Module | Composition |
|---|---|
| `BoundedLog` | abstract specification: append and trim, or clear |
| `RingBuffer` | implements `BoundedLog` with `log <- Bytes` |
| `Session`; `Workspace` | `Workspace` extends `Session` |
| `WorkspaceFile`; `Snapshot` | `Snapshot` extends `WorkspaceFile` and implements its `FileSpec` |
| `Conn` | all goroutines of one connection |
| `PaneLife`, `Redraw`, `Events`, `IdleCheck`, `Tasks`, `Resume` | parts of the daemon; together with `Snapshot` in `MCDaemon` |
| `Reconnect`, `TabTree`, `TuiLoop`, `Attention`, `Screen`, `Keys`, `Dialogs`, `ProjectForm`, `Replay`, `Palette`, `Editor`, `Notes` | parts of the client, each with as much of the daemon as answers it; together with `RingBuffer` in `MCClient` |
| `Wizard`, `Launch`, `Update`, `Bridge`, `ProcKill`, `HookIngest`, `Sandbox`, `SignIn`, `PaneSize`, `StdioConn` | parts that cross a process boundary; together with `Snapshot` in `MCProcess` |
| `SpoolForward` | on its own |
| `RingBufferProofs` | theorems about `RingBuffer` |
| `ConnProofs` | theorems about `Conn` |
| `SessionProofs` | theorems about `Session` and `Workspace` |
| `DaemonProofs` | theorems about `PaneLife`, `Resume`, `WorkspaceFile`, `Snapshot`, `Redraw`, `HookIngest` |
| `ClientProofs` | theorems about `Notes`, `TuiLoop`, `Reconnect`, `Replay`, `Attention`, `PaneSize`, `Keys`, `Dialogs`, `ProjectForm`, `Palette` |
| `ProcessProofs` | theorems about `StdioConn`, `SignIn`, `Launch`, `Update`, `Sandbox`, `Bridge`, `Wizard`, `ProcKill` |
| `MCWorkspace`, `MCDaemon`, `MCClient`, `MCProcess` | instances for TLC; `Session`, `Conn`, `TabTree`, `Wizard` and `SpoolForward` are also run as they are |

`MCDaemon`, `MCClient` and `MCProcess` put several modules into one run: a
variable `scope`, chosen at the start, says which part a behaviour is about and
the other parts stand still. The state space is the sum of the parts' spaces,
not their product; interactions between parts are modelled inside the modules
that need them (each has the messages, timers and failures that its neighbours
can cause).

**RingBuffer.** `buf`, `start`, `size`, `gen` are the Go fields, with 0-based
slots. A method holds `rb.mu` for its whole body, so it is one action;
`Daemon.snapshot` calls `Gen` and then `Bytes`, so the flush is two. `input` is
a history variable with which the abstract log states what a mutation appended.

**Session.** The maps are functions whose domains are the live identifiers;
names, colours, layouts and directories are left out. `CreateTab` includes the
bootstrap project `createTabLocked` makes when there is none, `MergeProjects`
goes over the absorbed projects' tabs in order and re-anchors each one in the
global order as the code does. The loops over lists (`RemoveEach`, the merge)
are recursive functions of the list, the form in which they can be reasoned
about. Creating and closing take identifiers that are
fresh, as the random ones of the code are.

**Workspace.** `work[w]` is a goroutine serving a request: the label it stands
at and the identifiers it remembers. Every call into the session manager is one
step; between two steps any other worker may run. A spawn is a choice of
success or failure where the handler reacts to failure by changing the session.
`Mixes` gives the requests that may arrive, how many and how many at a time;
`MaxLive` is the overlay cap. Identifiers are taken from those not in use, and
`IdsLeft` is the bound that some are left. `WStart` is any session at rest that
is sound and within its cap, so that the theorems start from more than the run
does; `Orderly` names the mixes in which nothing is left empty (section 3, other
disagreements): merges alone, and overlay openings alone unless images are
rejected too. The overlay victims are chosen freely: the code
picks by last use, and the properties must hold for every choice.

**Conn.** Each atomic load or store, counter update and channel operation is a
step. A frame is named by its sender and serial number, and the socket takes it
in `FrameLen` chunks, so that a deadline can expire inside one. `accepted`,
`returned`, `delivered`, `tail`, `ahead` and `left` are history variables the
properties use; no guard reads them. `Faults` lets the peer stall or vanish.
The queue size 64 and the headroom 32 of the code are constants here.

**WorkspaceFile, Snapshot.** A file's content is the version of the workspace
saved in it, or *absent* or *corrupt*. Every system call of `Save` may fail
when `CallsFail`, and `Killed` may come between any two; a kill or a failure in
`os.WriteFile` leaves a partial temporary file. `Snapshot` puts the event loop
around it: channels of capacity one, the debounce timer that each request
restarts, the ticker, `Stop`'s final snapshot, and the buffer files with
`snapGens`. A pane's bytes are represented by their generation, which
`RingBufferProofs!SkipSound` justifies.

**PaneLife.** Processes are numbered by `ptyGeneration`. Callers stand at the
points where `ensurePaneSpawned`, `handleRestartPaneReq` and `releasePanes`
release locks; a process writes, exits, and its reader flushes and reports in
steps of its own. `raced` is set when two restarts overlap or a destroy falls
into a restart, which the code does not guard.

**Redraw.** The input queue's `enqueueInputSeq` is a channel send and then a
counter, so producers can swap positions. `markInputWritten` counts the written
item outside the lock and restarts the cooldown under it, as two steps: a kick
may look in between. Time is a clock that need not wait.

**Events, IdleCheck, Tasks, Resume, HookIngest.** An event is its pane, title
and timestamp. `Events` has agents that watch with a cursor, time out and look
again. `IdleCheck` keeps the ages of the last output, event and hook. In
`HookIngest` a spool is whole lines and perhaps a torn one; bursts, what was
emitted and what was dropped are sets of lines, a burst also carries the number
of its first line, and `Uncancelled` is `Cancel`'s loop over the queue. `Tasks`
separates applying a work event (under the pane's lock) from observing it (after
the unlock), as `emitEvent` does, by two goroutines: the hook ingester's and the
output stream's. What `settleIdle` and an exit take from `idleSubs` under the
lock runs after it (`calls`), and so do `notifyRequester` and the notice it
types, which waits in the requester's `idleSubs` while that pane works.
`Resume` has a pane's claim, its state, its hook file and its transcript.
`claudeSessionIDs` keeps one holder of an id, the last pane in tab order: a
claim by the last one finds itself there and overwrites another pane's
(`HeldElsewhere`; tabs move, so any holder may be the last).

**Launch, Update.** The files are shared variables: the socket (whose daemon
listens there), the pid file, the apply lock, the staged directory, `quil` and
`quild`. Each look at one and each change of one is an action; daemons may
wedge, calls may fail (`MaxFaults`), clients may be killed.

**Bridge, ProcKill.** `Bridge` has a goroutine per tool call plus the retry,
the connections' readers, and requests that are made, sent, answered, timed out
or cut off. `ProcKill` has processes named by their start and PIDs that are
reused; the report, the confirm, the fresh enumeration and both signal passes
look at different moments. `proctree.walk` is read level by level, as a
recursive function; a subtree never holds the root of the tree. No PID is reused within the second that
`killStartTolerance` forgives.

**Sandbox, SignIn, SpoolForward.** What is on disk and survives the daemon
(records, trees, object stores, alternates lines, worktrees) is one record, the
containers another; the daemon may be killed at any step and docker may fail.
The registry in memory (`entries`) and its file (`disk.reg`) are apart: `save`
logs its failures and tells nobody (`saveRegistry`), and the file may not be
readable at the next start. `waived` marks the panes that met one of the five
documented or observed races. `SignIn` has the flow, its owner and its waiters,
the token's read and the docker probe; at the end of the output `completeToken`
takes what there is of a token, as `capture.go` does.

**Reconnect, TuiLoop.** Links carry the generation, attempt, and the *active*
and *parked* flags of `reconnectState`; ticks, dials and results are sets, so
they arrive in any order; the Router's channel keeps losses in order.
`TuiLoop` counts listeners, ticks per chain and attaches per connection.

**TabTree, Screen, Keys.** `TabTree` is a binary tree as a function from paths
to panes or holes, with the daemon's panes and layout beside it. `Screen` has
the client's and the daemon's idea of projects, order, active tabs and overlays,
with requests in unordered commands and broadcasts in a queue. `Keys` has one
record for the modes in which `handleKey` and the mouse handlers look up what
an input does, and remembers where the last effect went and where it was meant.
`switchTab` and `jumpToPane` both leave notes mode before anything moves
(`keysSwitchTab`, `keysJumpToPane`), whichever key, click or notification leads
to them.

**Dialogs, Wizard, ProjectForm, Palette, Attention.** A dialog is a name and
what it was opened for; answers and timers are in flight with the generation or
query they carry, and may come late or never. `Attention` has the marks and
toasts of panes under work events, focus changes, mutes, link losses and client
restarts.

**Replay, PaneSize.** `Replay` follows bytes, named by their child, from the
daemon's buffer through ghost chunks and live frames to the viewers' screens.
`PaneSize` has the window, the debounce, what was last sent, what the daemon
stores and what the PTY has. `handleResizePane` is three steps, as its two lock
spans and the call between them: the PTY it read may be another by the time it
resizes or records (`resizing`, with the generation each handler belongs to),
and a spawn reads the size in one step and publishes its child in a later one.

**Editor, Notes.** A document is a sequence of lines, a rune a word character or
a blank; rows are wrapped at `WrapWidth` and `ScrollTop` counts the wrapped
rows. Every key, the late paste, the mouse and the wheel are actions. The model
stops at `Stray`, a selection that points outside the document (section 3). In
`Notes` a text is its version number; the inner editor's dirty flag, the
wrapper's, the debounce and the one tick in flight are as in the code, and a
save fails or not. A client may be killed.

**StdioConn.** The ssh child (running, leaving with its stdout closed, gone),
its pipe, the pump with the chunk it holds, the channel of capacity one, the
reader, `closeOnce`, `reapOnce` and two closers. The reader is the dialer until
the link is verified; its failure is classified from the status `Close` leaves.
ssh's words reach the dialer through exec's own copier (`CopyStderr`), which
nothing orders against the pump's end of file and which `WaitDelay` cuts off,
and through a message of 2000 bytes. The dial is a batch one; an interactive
one sends the words to the terminal and keeps none.

## 3. Runs

| Run | Question | Result |
|---|---|---|
| `session` | do arbitrary sequences of session calls keep links, orders and active ones consistent? | holds |
| `workspace` | do three concurrent handlers, every kind of request one after another, and overlay openings leave every tab a pane, every project a tab and at most `MaxLive` overlays? | holds |
| `workspace_bad_image` | does a tab whose sandbox image is rejected get a pane? | violated, finding 1 |
| `conn` | order, exact count, replay headroom, state before output, an untorn stream, under faults and teardown | holds |
| `conn_live` | does a replay to a stalled peer end, and is a dead connection removed, exactly once? | holds |
| `conn_flush_race` | does a true `Flush` mean that everything accepted was written? | violated, finding 2 |
| `daemon_parts` | the daemon's parts, below | holds |
| `client_parts` | the client's parts, below | holds |
| `process_parts` | what crosses a process boundary, below | holds |
| `layout_restore` | can a client always restore the layout another one stored? | violated, finding 3 |
| `sandbox_carried` | is a pane sandboxed only if its dialog offered it? | violated, finding 4 |
| `spool_replay` | does the sandbox spool's forwarder copy each byte once? | violated, finding 5 |

The properties of the three composed runs:

| Property | Says |
|---|---|
| `PaneSound` | a buffer never mixes two processes, a recorded exit is the current process's, no process is left outside the session |
| `KeysSpaced` | a child never reads two redraw keys within the cooldown |
| `NothingMissed` (liveness) | an agent that passes its last timestamp gets past every card in the end, although a watch may miss a push |
| `SilenceNoticed` (liveness) | a silent pane is reported in the end |
| `TasksEnd` (with liveness) | a task's channel is closed once, a crash is never a completion although the turn's end and the exit are applied and observed by two goroutines, the notice owed to the requester is never dropped; a pane that rests ends its task |
| `ClaimsKeepApart` | two processes are never in one agent session |
| `ChangesReachDisk` (with liveness) | no change is forgotten on its way to disk, Stop saves last, skipped buffers match their files; the ticker saves every change although requests restart the debounce for ever |
| `LinksTended` | a link that is down has a timer, a dial or a result to come, one that is up has its pump, every open connection has an owner |
| `TreeShowsPanes` | every pane of the last broadcast stands in the tree exactly once |
| `LoopSound` | one listener, one tick per chain, one attach per connection |
| `AttentionRaised` | a pane that waits or finished unseen has a toast; the daemon stores the marks the client shows |
| `ScreenAgrees` | at rest client and daemon agree on projects, order, active tabs and overlays, and what is on screen is not taken for hidden |
| `InputsAimed` | an input acts on the pane the user meant |
| `DialogsSound` | a confirm sends what it was opened for; every host's offer is made |
| `FormSound` | the fold that was on screen, one project per host, a root on its own machine |
| `OneChildPerScreen` | the buffer and the screen show one child; a replay stands alone |
| `PaletteSound` | hits answer the query, the cursor is on a row that can run, a row goes to its target |
| `EditorSound` | the cursor stays in the document, a cut can be put back, a click finds its place, a read-only document stays, an edit is marked |
| `NotesKept` | one tick chain; what was typed is in the file, or open and marked, or its save failed |
| `SkipIsSound`, `ImplementsLog` | the ring buffer's generation test is sound; it implements the bounded log |
| `AskedAsShown` | what leaves the wizard is what it showed; no list scans for ever |
| `NoOrphan` | when daemons have settled, the socket belongs to the one that lives |
| `PairWhole` | `quil` and `quild` are whole and of one version |
| `BridgesTended` | pending entries are awaited, one dial at a time, no connection leaked |
| `StopsWhatWasConfirmed` | only what was confirmed, or descends from it, is signalled |
| `LinesOnceInOrder` | every hook line is in exactly one place, and a pane's bursts leave in the order they began |
| `SandboxKept` | objects stay readable, the repository never links a missing or unrecorded store, nothing is deleted under a running agent, although docker calls and saves of the registry fail |
| `SignInSound` | whoever waits for a sign-in is told, no claim outlives its flow, no read boundary cuts the token that is published |
| `SizesMeet` | at rest the daemon stores the window's size and the child runs at it, unless something crossed a resize between its lock spans; the first child is asked for the resize it is owed |
| `LinkSound` | bytes in order and none lost before Close; a parked reader is woken, Close waits for no living child; an install is offered, and a link given up, for the right reason, and the other way round while ssh's words could be read |
| `LoadsLastSaved` | every moment of every save leaves the last version loadable |

Where a property makes an exception, its comment names it; each is a race the
code really has and is listed below or documented in the code.

`CHECK_DEADLOCK FALSE` appears where the system really stops: a connection that
is gone, a daemon that was stopped or killed, a client that quit, and parts
whose bounded inputs are used up.

### Findings

1. `workspace_bad_image`. `constructPaneAt` validates the sandbox image after
   `CreatePane` and destroys the pane again (daemon.go:2629); `handleCreateTab`
   only logs the error, so a tab without a pane stays, against "Every tab needs
   a pane" (daemon.go:2012). The request form of the handler repairs it.
2. `conn_flush_race`. `enqueue` sends on the channel and then does
   `pending.Add(1)` (server.go:287). `sendLoop` may write the frame and count
   it down first, so `pending` is briefly one short and a `Flush` can return
   true with another accepted frame still queued, against its comment
   (server.go:501).
3. `layout_restore`. `restoreTabLayout` indexes `tab.Leaves()[0]`
   (model.go:5962) without the guard `rebuildTabs` got for the same expression
   (model.go:5841). A client that stored a tab whose root is a placeholder
   (a replace in a tab with one pane) makes the next attach panic.
4. `sandbox_carried`. `enterSetupOrSplit` returns for a plugin without a setup
   page before it resets the sandbox row (dialog.go:3737 and 3746), so a
   sandbox ticked for another plugin and left with Esc goes with the next plain
   pane, which is what the comment there says must not happen.
5. `spool_replay`. The forwarder's offsets start empty in every daemon while the
   spools stay (sandbox_spool.go:57), so a restart copies a pane's whole
   history again, against the third promise of the file's header.

### Other disagreements met while modelling

Excepted in a property, or visible by changing a constant; none has a run.

*Workspace, connection, files.*
- An overlay's flag is set after the pane is published: with overlays and pane
  closes in one mix, a close can count it as a normal pane (`NothingEmpty`).
- A merge inside a tab close, with four requests: recovery looks at a project
  that was merged away (`NothingEmpty`).
- `handleAttach` drops `CreatePane`'s error (daemon.go:1734); a tab closed in
  between makes the pane nil. A worktree pane's failed spawn destroys it without
  `ensureTabNotEmpty` (worktree_add.go:257).
- `broadcastState` builds and sends in two steps (daemon.go:3993): the older of
  two states can arrive last. Handlers that still run when `Stop` takes its last
  snapshot are not awaited.
- A failed last write counts as done for `Flush` (`Faults` and `Flushes` both
  TRUE). A transport that refuses deadlines has no bound on a stalled write.
- A daemon that starts from a damaged primary and a good backup (`Damaged =
  TRUE`): the first `Save` rotates the damaged primary over the backup.
- `snapGens` is recorded before the buffer file is written (`CallsFail = TRUE`
  breaks `ChangesKept`, a conjunct of `ChangesReachDisk`); a kill between `SaveBuffer`'s remove and rename leaves
  only the `.tmp`, which nothing reads (ghostbuf.go:31).

*Panes, events, tasks.*
- Overlapping restarts, or a destroy inside a restart, leak a process, mix
  buffers or leave a stale exit code. A second attach to a restored pane that is
  still pending replays the seeded buffer (comment daemon.go:1834).
- `deferredRedrawKey` checks under the lock and enqueues after it; a restart
  resets the throttle although the queue may hold the old child's key.
- `markInputWritten` counts at session.go:510 and restarts the cooldown at
  512-516. A kick (redraw.go:63-70) or the deferred timer (137-145) that looks in
  between sees the last key delivered and the cooldown of its enqueueing, and
  sends at once: "must not let a second one follow microseconds behind it"
  (session.go:503) does not hold there (`Unstamped`, `excepted`).
- `FindSince` skips events with an equal timestamp; a card pushed between the
  catch-up look and `AddWatcher` is found only by the next poll (comment
  daemon.go:6718).
- A settle window that closes on a parked pane leaves its subscribers waiting; a
  late hook Start after an exit clears `aborted`, and a turn's end that comes
  after it is then a completion. A completion already taken by `settleIdle` when
  the exit is applied is run as one.
- `Spool.rotate` can truncate a line appended after its size was read.
- A restart replays `resume_session_id` without a claim (daemon.go:5209, 4725),
  and a fresh session leaves the field as it was, so a later restart replays the
  first pick: two processes can share a session, against claudesessions.go:52.
- `claudeSessionIDs` keeps one holder per id (claudesessions.go:505). A pane that
  names the session another one runs in, and stands after it in tab order, finds
  itself in the map and claims it: an exited pane whose session a later claim
  took, restarted with Alt+R, or one still pending after a restore. Two processes
  are in one session then, against "this is where the guarantee is actually made"
  (claudesessions.go:51).
- The replay carries no generation: one taken before a restart can be drawn over
  the new child; a chunk flushed around `Bytes()` can be drawn twice or wiped;
  after an outage a replaced child with nothing to replay draws over the old
  screen (comment pane.go:612).
- A resize decided earlier can be sent after a newer one; a window change under
  the disclaimer or the migration dialog leaves panes at the old size until the
  next broadcast.
- `handleResizePane` records a size in a second lock span without looking at
  `ptyGen` (daemon.go:3301): a restart, a resize kick or a resize of another
  connection in between leaves the child at one size and `appliedCols` at
  another, against "size last applied to the CURRENT PTY" (session.go:174), and
  the same-size guard then holds the next equal request back. "Let the next
  broadcast retry" (daemon.go:3291) is so only while the stored size differs:
  `diffResizes` sends nothing when they agree.

*Processes.*
- Two daemons on a simultaneous cold start (documented in quild's main), and on
  a launch during a slow exit; the stale-socket removal and
  `cleanupDaemonFiles` can remove a live daemon's socket.
- The apply lock can be stolen, a directory staged anew while it is copied, and
  backups swept after the look for an apply in progress.
- `bridgeFor` can return a nil or dead bridge (mcp_hosts.go:287); a request
  registered after the reader died waits for its timeout.
- A sandbox's teardown harvests before it removes the container, so objects
  written in between are lost; a failed final harvest is only logged; the
  startup sweep can reap a pane created between its two reads; a crash after
  `docker rm` leaves tree, line and record for ever.
- `sandboxRegistry.save` swallows its failures (sandbox_lifecycle.go:84-105). A
  pane whose save failed, with none after it, has a line but no record once the
  daemon is gone, and no successor repairs it.
- A child whose output ends inside the token publishes the part that was
  printed: at the end of the output `completeToken` takes any match
  (capture.go:60, 161, 204), although "a truncated credential is worse than a
  late one" (capture.go:50) and a read boundary is waited out everywhere else.
- An rc file of the far side that prints "permission denied" before the link
  drops makes `ClassifyLinkFailure` give up a link that would heal: standard
  error is not counted in `bytesIn`.
- ssh's refusal is copied off standard error by a goroutine of its own
  (ssh.go:246), which `LinkErr` does not wait for: the refusal is then taken for
  a passing failure and dialled again. `lockedBuffer` keeps the tail because
  `LinkErr` "wants the most recent output" (ssh.go:315), but the message keeps the
  first 2000 bytes of it (stdioconn.go:479-488).
- `needsSandboxSignIn` looks before `begin`, so a second sign-in can start; a
  restart of a pane that is just being told spawns it twice.

*Client.*
- `adoptDest` while a ladder's connection comes back leaks a connection;
  `disconnectDest` restarts the generations, so an old answer is taken for new.
- Closing the split pane while its worktree create runs detaches the reserved
  node; another client's pane can fill it; a stale create timer ends a later
  create of the same tab.
- Overlay visibility reports are not ordered among themselves, and several
  changes of screen are not reported; two quick toggles create two overlays.
- The copied selection is taken from the active pane; a rename applies to what
  is active at Enter and is never cancelled by Esc (`"escape"` against `"esc"`,
  model.go:5167); a drag's index goes stale when a broadcast reorders the tabs;
  a pasted text goes to whatever dialog is open.
- A withdrawn toast or a cooldown leaves a waiting pane without one until the
  focus moves.
- A plugin error during a Settings edit leaves it set, and displaces the
  migration dialog for good; a lost link that closes the palette does not make
  the next offer; a retry clears `installedDests` under a running upgrade.
- The wizard asks the active project's machine while its target is pinned, can
  send a session of the browsed directory with a new-branch worktree, and saves
  an instance twice on a second submit.
- A project typed for a host that is not connected is created here; a retyped
  host's dial is still accepted; a rename with Remote toggled erases the root.
- A selection emptied by its own keys (shift+right, shift+left) or by a drag back
  to its start stays set; an edit then leaves it outside the document and the
  next shift key indexes past `Lines` (editor.go:501, against
  editor_selection.go:10, "0-based line index in Lines[]"). A paste that
  replaces a long file by a short text leaves the file editor's window past the
  document until the next key, since `InsertMultiLine` does not bring the cursor
  into view.
- Cursor keys postpone a note's autosave while it is dirty ("after the last
  edit", notes.go:13); leaving with a failed save drops the editor and its text.
- `goToPane` clears the old pane's mark before it knows the target exists; a
  palette closed by a lost link keeps its query and stores a late answer.

### Bounds

- `session`: three tabs, two panes, three projects, a merge that names up to
  two projects (repeats included), no bound on the number of calls. Three tabs and projects let one lie between two others in both orders
  and let a merge absorb two projects into a third.
- `workspace`: three requests from a fresh daemon and from two projects with a
  tab each (one with an overlay). Three handlers at once is one more than every
  two-handler window in the code; identifiers suffice for everything three
  requests can create, recoveries included. `MaxLive = 1` makes the second
  overlay meet the cap. The starting sessions satisfy `WStart`, `Orderly` and
  `NothingEmpty`, so that the run is an instance of the theorems.
- `conn`: queue 2, headroom 1, frames of three chunks, two senders with a frame
  each, two live outputs, a replay of two frames: the queue fills, the replay
  meets the headroom, the push loses its race with a broadcast, and a deadline
  can expire before, inside and after progress on one frame. `conn_live`: one
  sender of two frames, no outputs; the queue still overflows.
- `daemon_parts`: two callers and two spawns (a restart beside a lazy spawn);
  three queue items in a queue of two; three pushes into a queue of two events;
  one task over three turns; two agent panes with two sessions and five spawns;
  three versions and two buffer generations.
- `client_parts`: two machines and three connections; two panes and two
  requests in the tree; three moves on the screen; four inputs, four presses in
  dialogs, five in the form; two children and two attaches; a ring of capacity 3
  with four mutations; documents of two or three lines and three runes; three
  versions of two panes' notes with two failing saves. Each lets a late answer find one newer request, and one
  pane or host go while another stays.
- `process_parts`: two launchers and three daemons; two clients, two releases
  and two faults; three bridges; two PIDs and four processes (a PID is reused,
  twice; that a child older than its parent is left out needs three PIDs and is
  shown by `OnlyTheConfirmedDie` alone); two panes with two hooks each and
  three lines; one sandbox pane over two daemon starts with one failing call; three
  sign-in spawns in two panes; two window sizes, one change of the window, two
  broadcasts, two spawns and one cut; two bytes over a
  link with two closers; two versions under faults.
- `layout_restore`, `sandbox_carried`, `spool_replay`: the smallest instance
  with the counterexample.

Symmetry is used only for sets of interchangeable identifiers, and never with a
liveness property.

### Fairness

- `Conn!FairSpec`: weak fairness of `sendLoop` together with its write's
  outcome (the code sets a write deadline before every write, so a write comes
  back with progress or an error), of a replay's own steps, of the teardown,
  and of the reader once the connection is closed (`markDead` sets a read
  deadline in the past). Nothing makes the peer read, callers send or the
  daemon shut down. The SSH transport refuses deadlines, so the liveness result
  is about local sockets.
- In `daemon_parts` each liveness property names its fairness as its
  antecedent, because the parts share one specification.
  `SnapFairness`: the ticker fires, the event loop goes on, and `select` does
  not pass over a ready ticker for ever (strong fairness of `OnTick`: Go chooses
  uniformly at random among ready cases); the debounce timer gets none, because
  every request restarts it. `EvFairness`: agents loop, watches time out, and a
  look that is possible again and again is taken. `IdleFairness`: the idle
  ticker and time go on. `TaskFairness`: an emitter that applied an event goes
  on to observe it, the settle timer and the tasks' timers fire.

## 4. Proofs

All theorems are checked by TLAPS with Z3, Zenon and LS4, for every value of
the constants that the named assumptions allow; TLC evaluates the assumptions
on the runs' constants. They ask for what the code guarantees:

- `RingAssumption`, `ConnAssumption`: capacities and frame lengths are positive,
  the headroom does not exceed the queue, the set of senders is finite and the
  reader is neither a sender nor an output.
- `SessionAssumption`, `WorkspaceAssumption`: `None` is no identifier, a merge
  names finitely many projects, the overlay cap is a natural number
  (overlay.go:55 clamps a negative one) and the workers are finitely many.
- `KickAssumption`: the cooldown is positive (redraw.go:28). `SizeAssumption`:
  a size that can be painted is positive. `FormAssumption`: the remote host is
  not this machine. `BridgeAssumption`: a tool call is no background goroutine.
  `KillAssumption`: there is a first process.
- `FileAssumption`, `NotesAssumption`, `LaunchAssumption`, `UpdateAssumption`,
  `LifeAssumption`, `LoopAssumption`, `ReconnectAssumption`, `ReplayAssumption`,
  `AttentionAssumption`: the bounds are natural numbers, sets of hosts finite,
  and the names that stand for "nobody" are not in the sets they are beside.

The other modules need none. The bounds are arbitrary, so no theorem depends on
them.

| Theorem | Says |
|---|---|
| `RingBufferProofs!TypeCorrect` | indices and lengths stay in range |
| `RingBufferProofs!SkipSound` | a pane skipped by its generation has nothing unsaved |
| `RingBufferProofs!RingImplementsLog` | the circular array implements the bounded log |
| `ConnProofs!ConnTypes` | the queues stay within their capacity |
| `ConnProofs!ConnInOrder` | must-deliver frames are delivered in channel order, none lost or repeated |
| `ConnProofs!ConnPendingExact` | the counter `Flush` polls is exact up to senders between channel send and `Add(1)` |
| `ConnProofs!ConnStreamShared` | the replay leaves its headroom, live output is at most a frame ahead, no frame is torn |
| `SessionProofs!SessionIsSound`, `ActiveTabFollows` | any sequence of session calls keeps the maps, orders and active ones consistent; the active tab follows the active project |
| `SessionProofs!HandlersKeepSession` | the interleaved handlers keep the session sound |
| `SessionProofs!OverlaysStayWithinCap` | at rest there are no more overlays than the cap |
| `SessionProofs!NothingStaysEmpty` | at rest no tab is without a pane, no project without a tab |
| `DaemonProofs!PaneIsSound` | one process per pane, its buffer and its exit code its own |
| `DaemonProofs!ClaimsKeepSessionsApart` | two processes are never in one agent session, outside the cases the property names |
| `DaemonProofs!FileInvHolds`, `LastSavedIsLoaded` | `Load` always returns the last version that went live |
| `DaemonProofs!SnapshotImplementsFile`, `DaemonLoadsLastSaved` | the event loop drives `Save` only as `FileSpec` allows, so the same holds of the running daemon |
| `DaemonProofs!KeysAreSpaced` | no two redraw keys are read within the cooldown, outside three races |
| `DaemonProofs!LinesAreKept` | each hook line is in one place, bursts leave in order |
| `ClientProofs!NotesAreKept` | what was typed into the notes is saved, marked, or its save failed |
| `ClientProofs!LoopIsSound` | one listener, one tick per chain, one attach per connection |
| `ClientProofs!LinksAreTended` | each link has its next step under way, no connection leaks |
| `ClientProofs!ScreensShowOneChild` | the buffer and the screens show one child |
| `ClientProofs!AttentionIsRaised` | whoever waits has a toast, and the daemon stores the marks |
| `ClientProofs!SizesAgreeAtRest` | window and stored size end equal, and the PTY's unless something crossed a resize |
| `ClientProofs!InputsReachTheirPane` | an input acts on the pane that was meant |
| `ClientProofs!DialogsAreSound` | a confirm sends what it was opened for, every offer is made |
| `ClientProofs!FormsAreSound` | the fold that was on screen, the machine that was browsed |
| `ClientProofs!PaletteIsSound` | hits answer the query in the box, the cursor is on a row that runs, a row leads to its target or nowhere |
| `ProcessProofs!LinkIsSound` | no byte lost, nobody stuck, the right diagnosis from what was copied in time |
| `ProcessProofs!SignInIsSound` | whoever waits for a sign-in is told, no claim outlives its flow, no read cuts the token |
| `ProcessProofs!NoDaemonIsOrphaned` | the socket belongs to the daemon that lives |
| `ProcessProofs!InstalledPairIsWhole` | `quil` and `quild` are whole and of one version |
| `ProcessProofs!SandboxIsKept` | objects stay readable, nothing is linked unrecorded, nothing is deleted under an agent, outside five races |
| `ProcessProofs!BridgesAreTended` | pending entries are awaited, one dial at a time, nothing leaks |
| `ProcessProofs!SentAsShown` | what leaves the wizard is what it showed |
| `ProcessProofs!OnlyTheConfirmedDie` | only what was confirmed, or descends from it, is signalled, never the pane's own child |

Hardly any of the properties is inductive; what each proof adds to it:

**Ring buffer.** The arithmetic core is that an index below twice the capacity
wraps at most once (`ModCap`) and that `CopyOut` reads the slot `Pos(f, k)`.
With them each write case is shown equal, element by element, to append and
trim. A flush between its two reads holds an older generation, so `FlushInv`
adds that what it remembers is never ahead of the buffer.

**Connection.** `InOrder` is inductive together with the types: a channel send
appends to the queue and to the history, `sendLoop` moves the head into its
hand, a finished write moves it to the delivered ones, and a failed one leaves
it in hand for good. `PendingExact` counts a set of senders, so its proof has
one lemma each for a sender reaching the point between send and `Add(1)`,
leaving it, and neither. For `StreamShared`, `RoomKept` says what a replay past
its look at the queue may still push, `AheadKept` what a waiting frame has seen
pass, and `FramesWhole` that the socket's tail is a prefix of the frame in hand;
that no frame is torn is the action property `Follows`.

**Session and handlers.** `AllKept` (`TabsKept`, `PanesKept`, `ProjectsKept`,
`ListsKept`, `ActivesKept`) is inductive. The lists need the order lemmas:
removing, inserting and sliding keep the order of the others (`Follows`,
`SameOrder`). The loops over lists are recursive functions, about which
`Iteration` and `UpTo` say, by the least index at which a fact could fail, that
a fact each pass keeps holds at the end. Every step of a handler that changes
the session is one of these calls, so `HandlersKeepSession` follows with the
handlers' memories typed; `Capped` adds that overlays beyond the cap are owed by
a worker whose eviction is still to come.

`NothingEmpty` speaks of rest, so its invariant `Debts` is about the time
between: every tab without a pane, and every project without a tab, is owed by a
worker standing at a label from which its recovery still looks at that tab or
project (`Filled`, `Peopled`), and when nothing is active the active project is
bare (`ActiveBare`). What a worker remembers stays true while others run
(`PaneMem`, `TodoMem`, `TabMem`, `KindMem`, `FlagMem`). Each call of the session
manager has an effect (what it may leave lacking, what it fills, and which
memories it keeps), stated once, and each handler step pays for what its call
leaves.

**Files.** `LoadsLastSaved` says nothing about a save in progress. `FileInv`
adds that the temporary file holds the version being saved once it is written,
that the primary, if there is one, is the last version that went live, and that
the backup is that version while there is none. The theorem assumes
`~Damaged`; section 3 shows what happens without it. `DaemonProofs` maps each
step of the event loop to a step of the file or to a stutter; the file's
variables are shared, so the mapping is the identity. `FileSpec` lets a killed
daemon start and save again, which the runs' `Snapshot` (where a kill is final)
does not.

**Panes, sessions, keys, hooks.** `LifeInv` adds to `PaneSound` that a pending
pane has no process (`LazySpawn`) and, while no race was met, that one caller at
a time is past the check (`OneAtATime`). `ResumeInv` has the stages a pane goes
through with its claim (`Stages`) and that two panes at any stages are apart
(`Apart`). `KickInv` counts the queue: `Counted` relates the two counters to the
items and the senders between send and count, `OneKey` and `Tracked` say that at
most one key is queued and where the throttle believes it, `ClockBehind` and
`WindowPassed` when it may be read. `HookInv` types the six places a line can be
in and adds `InTurn` (what a spool, its reader and the bursts hold is in the
order it was written) and `Once`: for each line one kind of place holds it and
all others do not.

**Client.** `NotesInv` relates the two dirty flags, the one tick and the text.
`LoopInv` names who listens (`Listening`). `RecInv` gives each connection one
owner (`Owned`), each link what ends its present state (`EndsAt`) and one ladder
token (`OneToken`). `ReplayInv` follows a child's bytes from the reader through
the frames to the screens. `AttInv` is the property with its types: every
message first establishes what it owes (`Raised`, `Told`). `SizeInv` says what
each kick, report, broadcast and half-done resize still carries. `KeyOK` says that a
pending chord was armed in the pane it belongs to and has its timeout
(`ChordOK`), what a menu, drag and paste aim at (`AimOK`), and that behind a
menu there is no drag, selection or dialog of the user (`MenuOK`). `DlgInv`
says which dialog owns which confirm, and that the queue is empty behind an
empty screen; every handler is shown to end on a confirm of its own. `FormInv`
says that the form browses the machine it points at, that a question on its line
is of the plan it holds, that a host's projects have distinct ids, and that no
create travels to the host. `PalInv` says that what is listed was kept by the
query and the cursor stands on a row of it (`Listed`, `Kept`), what each tick
and answer in flight was asked for (`Counted`, `Answerable`), and that the tabs a
row remembers exist (`Standing`); the list is sorted by the rank of its rows
(`ByRank`), which needs no notion of a sorting algorithm.

**Processes.** `LinkInv` is the property with what the child, the pump, the
closers and the dialer's verdict know of one another. `LaunchInv` adds that the
socket file, the pid file and the daemons have one owner (`OneOwner`); `SwapInv`
that one client swaps at a time and holds the old pair's backup at its label
(`SwapsAlone`, `OldPairAt`); `SbInv` says for each pane outside the five races
what may stand on disk at each label of its spawn, harvest, teardown and sweep.
`BridgeInv` has every pending entry awaited by its caller and one dial per host
(`PendingAwaited`, `DialsOnce`). `WizInv` has a clock for each pending listing
and, per page, whose directory and listing its fields are from. `KillInv` says that no
two living processes share a PID (`Numbered`), that a living process whose ppid
is an older living one's PID descends from it, since the older one was there at
the fork (`Descended`), and that what the sweep still holds is rightful
(`Swept`). A tree read level by level therefore holds descendants only, up to
processes whose start is unknown, below which `unverifiableSubtrees` cuts; that
no process is met twice ends the levels (`LevelsEnd`). Proving the
wizard showed two overlapping cases of its model, and proving the redraw keys
that a queue's counters must allow for any number of senders; both are as in the
code now.

**Only model-checked.** Liveness (`ReplayEndsAndConnRetires`, `NothingMissed`,
`SilenceNoticed`, and the liveness parts of `TasksEnd` and `ChangesReachDisk`)
is outside what the prover does; the safety parts of the latter two are stated
in the same formulas and stay with TLC. So do the invariants
`TreeShowsPanes` (paths of a binary tree under replacements and swaps),
`ScreenAgrees` (a broadcast is folded over the tabs, and unordered requests stand
between the two sides) and `EditorSound` (the wrapped rows are a flattened
sequence of sequences, which is induction over data). TLC checks them in
`client_parts`.

## 5. Plan

Done: the modules of section 2, their runs, and the theorems above. Left:

1. **Proofs**: `ScreenAgrees`, `TreeShowsPanes`, `EditorSound`.
2. **Server**: the registry and the broadcast fan-out over several connections,
   for the order in which two concurrent `broadcastState` calls arrive.
3. **Restore**: the workspace loaded from any saved state satisfies `Session`'s
   invariants; the project migration.
4. **Frame codec**: a pure algorithm against a reference definition.

## 6. What is not modelled

- **Inside modelled components**: names, colours and directories of the
  session; the timestamps that order overlays; resume claims inside
  `Workspace`; a restart of a working pane, which fails its tasks and runs its
  subscribers as aborted; the content of messages and of pane output; the wording of
  dialogs and the fields of the Settings pages; highlighting and resizing of the
  text editor; the
  Windows and macOS variants of process enumeration and of signalling without a
  pinned handle.
- **Components left for the plan**: the server's fan-out, the restore of a
  session from its file, the frame codec.
- **Left out for good**: rendering, the sidebar's layout, formatting, logging,
  clipboard, memory reports, directory listing, git discovery, hook
  installers and configuration parsing are input and output or table look-ups
  without a protocol of their own; SSH, git, docker, the desktop's notifier and
  the PTY back ends are external programs, visible only through the choices
  their callers face.
