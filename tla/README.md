# Starkbot Neo: formal models

TLA+ modules of the parts of Starkbot Neo whose correctness depends on the order
in which several actors move, TLC configurations that check them on small
instances, and TLAPS proofs that hold for every value of the constants. Paths
below are relative to the repository, which is checked out as `src/`.

    tlc -workers 4 -config Machine.cfg MCMachine   # one of the runs
    tlapm ScreenLeaseProofs.tla                    # one of the proofs

`PROJECT.json` lists the components, the runs, the theorems, the hazards, for
each definition the lines it models, and for each property a mutation of the
code's model that breaks it.

## 1. The system

Starkbot Neo is a local desktop agent. A user gives it work from a terminal
(`neo-tui`), a desktop window (`src-tauri` and `ui`) or a shell (`neo-cli`); each
is a process of its own around one façade, `neo_agent::Runtime`. A turn of the
agent is a ReAct graph over a language model whose tools drive a browser
(`neo-cdp`) or native applications (`neo-ax`) through a navigator (`jev-nav`)
that asks a remote classifier for each step. Processes share one data directory
(a SQLite store, a key file, lock files), one screen and keyboard, one managed
browser profile, and one account with each vendor. Nothing coordinates them but
files, rows and locks. That is where the hard behaviours are.

### Inventory

| component (source) | state | operations | interacts with | hard behaviour | what makes it correct |
|---|---|---|---|---|---|
| screen lease (`neo-agent/src/screen.rs`) | `Option<Held>` in a mutex, the flock and the record of `screen.lock`, `NEXT_SCOPE` | `acquire`, `acquire_within`, `holder`, guard drop | every tool that types, in every process | two processes, crash while holding, guards dropped in any order, scopes that outlive their hold | one crew at a time, strangers never join, never wedged |
| subscription credentials (`runtime.rs`, `oauth/`) | Keychain item, per-process cache, refresh gate, account row | `oauth_token`, `oauth_account`, `store_exchange`, `disconnect_oauth` | a vendor that rotates refresh tokens | await between load and save; a second POST of one token signs the user out | turns behind the gate never refuse each other |
| key file (`neo-keys/src/keychain.rs`) | `keys.json`, its `.lock`, a temporary file per process | `get`, `set`, `delete` | every process of the machine | read-modify-write of two processes, power loss around the rename | no write loses another; the file stays readable |
| key cache (`runtime.rs`) | `Runtime.secrets` | `cached_key`, `set_key`, `remove_key`, import, re-seal | key file, settings screens, turns | read before, insert after a rotation | what is served is what is stored |
| confirm broker and cards (`confirm.rs`, `neo-tui/src/state.rs`, `ui/src/store/gates.ts`) | table of waiters, a oneshot each; a stack of cards; a map of cards with claims | `park`, wait with deadline, `resolve_confirm`, `answer_ask`, `cancel_ask`; raise, clear, arm, answer | runs, several surfaces, a lossy broadcast | answers racing deadlines, events out of order, a run stopped at its card | one answer per card, silence never approves, no card without its run |
| event stream (`runtime.rs`, `neo-core/src/events.rs`) | sequence number, bounded broadcast | publish, receive, lag | all front ends | numbering and sending are two steps; lag | a reader that skipped something knows |
| threads and runs of a front end (`neo-tui/src/run.rs`, `state.rs`; `ui/src/store`, `src-tauri`) | the thread shown, the run in flight, what was typed | send, steer, switch, new, drain, re-read, reload | event stream, store, turns | snapshots racing events, rows that grow unannounced, steers that miss | a thread at rest is whole; what was typed reaches a turn; a run is settled |
| agent turn (`agent/metal.rs`, `agent/mod.rs`) | graph state, event channel, card queue, published answer, stored row, mailbox | model call, tool batch, publish, flush, stop, steer | executor (metalcraft), tools, store, user | three tasks and two queues; stop and steer at any moment; failing writes | what is shown is complete and in order; the turn returns |
| navigator (`jev-nav`, `drive_with_cards`) | decisions, history, streaks, approvals and refusals, the resume token | observe, judge, gate, guard, act, pause, resume | classifier, surface, cards | a surface that moves at every step; pauses that carry consent | budget holds; nothing gated runs unconfirmed; it ends, unless people hand it on from wall to wall for ever |
| accessibility actor, app runs and routines (`neo-ax`, `run_app`, `routines.rs`) | inbox, stop flag, generations, the text in hand; step index | spawn, call, activate, table, guard, act, stop, shut down | screen lease, platform, navigator | a thread that outlives the call; stop and drop at any moment; restarted applications | a stop is prompt; a run lets go; one typist |
| browsing runs (`browse`, `neo-cdp`) | port file, tabs, the ledger, the lease | attach or launch, open, adopt, cap, leave | Chrome, other runs of the profile | launches that race, a ledger rewritten after awaits | a Chrome that is up is found; tabs are accounted for |
| codex client (`codex/client.rs`, `supervisor.rs`) | pending requests, a latch, a notification broadcast | request, dispatch, login, turn, close | app-server process | replies in any order, death with requests in flight, lag | nobody awaits what cannot come |
| managed browser lease and roster (`neo-store/src/presence.rs`, `runtime.rs`) | `sessions` and `leases` rows | announce, hold, heartbeat, sessions (sweeps), depart | every process | expiry, late heartbeat, a sweep that deletes rows | an unexpired claim is safe; a dead one ends |
| project heartbeats (`projects.rs`, `neo-store/src/projects.rs`) | an in-process flag, `heartbeat.lock`, the clock columns | scheduler pass, tick by hand, configure, drop | the agent loop, all programs of an install | clock rewritten from a project read minutes before | one heartbeat at a time, no deadline lost |
| store actor (`neo-store/src/actor.rs`, `connection.rs`) | a writer thread and its queue per process, reader pool, SQLite's write lock | `execute`, `read`, busy timeout, shutdown | all repositories, in every process | two processes in one table, death in a transaction | each closure is one transaction; the lock is let go |
| settings (`neo-store/src/settings.rs`, `SettingsEditor.tsx`, `ui/src/store`) | a row per section; the snapshot each screen draws, the unsaved form | load, merge a patch, publish; edit, save, choose a runtime, re-read | store actor, event stream, all processes | two patches of one section, a form with stale values, builds that know different fields, events published after the reply | a save changes what its user meant; a screen comes to what its process saved |
| control socket (`src-tauri/src/control.rs`, `main.rs`) | one path beside the store | probe, remove, bind, unlink at exit | every window on one data directory | four system calls by path, windows that start, end and die meanwhile | a window that serves is where the path leads |
| window mode (`mode_control.rs`, `window_mode.rs`, `ui/src/bridge/window.ts`, `App.tsx`) | slots of waiting requests, a queue of changes, two copies of the full window | request, acknowledge, enter, restore, roll back, reload | control socket, webview, window manager | a row of calls that fails half way, and again in its rollback | the full window can be had back |
| dictation (`src-tauri/src/voice.rs`, `useDictation.ts`, `neo-voice`) | the hook's phase and generation, one native session | start, stop, status, cancel, reload | capture thread, transcriber | commands served in any order, answers lost, a capture thread that hangs | an idle hook holds no microphone; it is given back |
| logins (`commands.rs`, `state.rs`, `oauth/callback.rs`, `Connections.tsx`) | one handle per provider, a task per login, the callback port | begin, wait, paste, cancel, sign out | vendor, browser, credentials | a paste that races the wait, a cancel that races both, ends that name a provider and not a login | a login can be stopped, and once given up stores nothing |
| tracing (`neo-otel`) | open spans, export queue | start, end, flush | an HTTP collector | queue full, shutdown | never blocks the program |
| provider clients, doctor, evaluation, CLI, spikes | none that outlives a call | requests, reports | vendors | | |

`PROJECT.json` names the source files of each and says why a part is not
modelled.

## 2. The modules

    ScreenExclusion                 what holding the screen means
      ^ refined by                                                 ^ used by
    ScreenLease --- ScreenLeaseProofs                              AppRuns
    ChromeLease, Heartbeats, SettingsStore
      joined in MCMachine (one of the four) --- MachineProofs

    KeyMap                          what a key store promises
      ^ refined by
    KeyFile                         the file
    SecretCache                     over a store
    OauthCredentials
      joined in MCCredentials (one of the three) --- CredentialProofs

    ConfirmBroker                   the waiters
      ^ extended by
    CardTerminal, CardWindow
      joined in MCCards (three surfaces) --- CardProofs

    EventStream                     numbering and the bounded channel
      ^ extended by
    TurnStream                      turns as a front end meets them
      ^ extended by
    TerminalThread, WindowThread
      joined in MCThreads (one front end at a time) --- ThreadProofs

    AgentTurn --- TurnProofs
      instantiated in MCAgentTurn

    Navigator, AppRuns, BrowserRuns, CodexClient
      joined in MCDriving (one of the four) --- DrivingProofs

    ControlSocket, Logins, WindowControl, Dictation
      joined in MCDesktop (one of the four) --- DesktopProofs

A module of proofs EXTENDS the MC module that joins what it is about (TurnProofs and
ScreenLeaseProofs the component itself), so that it can also state what holds of the
joined specification. It uses none of the values of a `.cfg`.

An MC module that joins modules has a variable that says which of them a behaviour
is of (`level`, `shared`, `surface`, `part`): the parts share no state in the code, so a
behaviour of both at once would only be their product. `level` also bounds what a
behaviour is about where one module is too large at once: the threads are looked at
with two turns in one conversation, with one turn and several conversations, with
repairs, with switches and with steers.

### Correspondence with the code

**ScreenLease.** One mutex protects a process's `Held`, so what a process does to
it is atomic (`pc` marks a thread inside it); the file is shared, so opening,
`flock`, writing the record, truncating it and closing are steps of their own and
any other process may act, or die, between two of them. `Nest` is the branch of
`acquire_within` for a process that already holds; `OpenLockFile`, `TryFlock`,
`ReadHolder` and `WriteHolder` are the branch for one that does not; `Release`,
`ClearRecord` and `CloseFile` are `ScreenLease::release`; `Probe` and `EndProbe`
are `holder()`, which no front end calls today. `HandDown` is a caller passing
`ScreenGuard::scope` on. A scope is `(process, number)`; numbers start again in a
restarted process because no scope crosses a process boundary.

**ScreenExclusion** has no lock and no scope: the tasks that may type, the run
that took the screen, and whom that crew invited. `ScreenLease` implements it
under `users`, `leader` and `invited` read off guards, holds and scopes. `AppRuns`
takes its screen from it.

**OauthCredentials.** A credential is the number of its refresh token in the
order minted. Each await of `access_token_at` and of `oauth_token` separates two
actions: `LoadCredential`, the vendor's answer, `SaveFresh` or `ClearRefused`,
`Reload`, `CacheReloaded`. The gate is the `tokio` mutex in `LockGate`, dropped by
`OpenGate` on each way out. `CheckStatus` is `oauth_account`, which does not take
the gate. `excused` and `raced` are history: tokens the user revoked or whose
rotation was lost, and tokens somebody outside a caller's gate rotated.

**KeyFile.** `Lock`, `Read`, `Merge`, `Sync`, `Rename`, `Leave` are the calls of
`set` and `delete` in `FileBackend` in their order; `Fails` is an I/O error at any
of them; `Crash` closes descriptors and leaves the temporary file; `PowerLoss`
drops what was not synced. An item is a pair of service and account, since one
file holds several services. **KeyMap** is a map in which a step changes at most
one item.

**SecretCache.** The lookup, the Keychain read and the insert of `cached_key` are
three steps, as the mutex of the map covers each alone. `set_key`, `remove_key`,
the import and the re-seal write first and invalidate after. The store is one cell
here; KeyFile's refinement of KeyMap is why it may be.

**ConfirmBroker.** A card goes `before -> waiting -> awake -> after`, or `dropped`
when the run's future is dropped at the await. `Resolve` is the shared body of
`resolve_confirm`, `answer_ask` and `cancel_ask`: take the waiter, send, answer
Ok whatever the send says. `feed` is the events published about cards.
**CardTerminal** reads them in order and shows one card at a time; `Arm` is the
frame that showed the whole sentence for the arming time, after which `PressKey` (y, n
or a digit) answers. A question without options (`Typed`) is answered in words:
`OpenPrompt` is `i`, which asks for no arming, or `y`, which does; the prompt keeps the
id of its question while the stack moves on behind it, covers whatever card is there, so
that none is armed, and ends in `SubmitPrompt` or `ClosePrompt`. **CardWindow** takes
them in any order over IPC, remembers resolves that arrive before their request,
and claims a card before it sends a command. Either may lose an event to lag.

**EventStream.** `Number` and `Send` are the two atomic steps of `publish`, so two
publishers can be received out of order; a send to a full channel drops the oldest
envelope and the receiver is told at its next receive. **TurnStream** is what a turn
does to a front end: it writes rows, publishes some of them and not others (a row
that grows is announced by its text's deltas, which change no snapshot; it is told
whole at the end), enters the registry that steering looks in some time after it
started, and its caller hears of its end last. A turn may fail to start after it has
said it started (`Dies` is a panic of its job).

**TerminalThread** is one frame of `run.rs`: a key and the command it executes, the
jobs that are done, then the stream until it is empty, with the re-read of the
thread after a jump or a lag. `PressEnter`, `Steer`, `RecordSteer`, `TellSteer` and
`Record` are the composer's `send` and `steer` split where they await.
**WindowThread** has a task of the desktop process that forwards the stream and
says where it has a hole (`Forwards`, `ForwardsGap`), the webview's reducer
(`Applies`), and commands in three steps: asked, served by the core (`Serve`,
several reads for one answer), applied when the answer comes back (`Hears`). Two
commands may answer in either order.

**ChromeLease.** Every statement of `presence.rs` is one write transaction, so one
action. Time is kept as ages. `Hold` is `Runtime::hold` with the announce it may
do first; `Sweep` is the delete inside `sessions()`; `Beat` is the terminal's
frame loop; `Exit` and `ProgramDies` are the two ways a process ends.

**Heartbeats.** A runner is a program's scheduler or its user. `TakeSlot` is the
compare-exchange on the flag, `TakeLock` the non-blocking flock, `ReadProject` to
`EndTick` the inner function around its turn, `FreeSlot` and `Unlock` the two drops
of `Slot` in their order, `Drop` the scheduler's record of a busy slot. A deadline
is "never" (NULL), "later" or "reached".

**SettingsStore.** A leaf is one value of the settings tree; it has a section (a row of
the table) and a top-level key of that section, which is what the form compares. `Asks`
is `patch_settings` up to the send of its job, `Take` to `Commit` the process's writer
thread: `Begin` takes SQLite's lock or the job is refused after the busy timeout
(`Busy`), `Merge` is the load and the merge of the patch, `Commit` writes the rows of
the sections the patch names. `Knows` is the build of a process: a leaf it does not know
reads as its default, and is dropped when it writes that section. `Publish` is the caller's,
after the reply; `Hear`, `Answer` and `HearReload` are the three ways a screen gets
settings. `FormPatch` is what the form sends, `ReadModelId` the model's id read for a
provider just chosen. `meant` (the leaves under the keys the user changed), `own`, `seen`
and `version` are history. Losing an event to lag is EventStream's, not here.

**AgentTurn.** Three parts: the executor's task (`Generate`, `AskTools`,
`Complete`, `StopGraph`, `Proceed`, `Interrupt`, `Results`), the tools (`StartTool`,
`EndTool`: each queues a card and waits until it is applied), and the turn's own
loop (`TakeToken`, `StreamIdle`, `TakeCard`, `TakeOutcome`, then `Leave`). One
iteration of the biased `select!` is two polls, of the stream and then of the card
queue, hence two steps: on a multi-thread runtime the graph runs between them. A
text is a sequence of slices `<<model call, position>>`. `Say` is a delta with its
flush, which may fail; `Seal` is `whole_answer` with the last flush and the ending.
`FindRun`, `Post` and `Record` are one steer call: finding the live run, posting to
its mailbox and recording the message are separate. The executor is metalcraft,
whose source is not in the repository; it is modelled from how `metal.rs` uses it.

**Navigator.** One surface at a time is on the screen and changes by itself
(`PageMoves`), as often as it likes, between any two steps of the loop: `Observe`, `Judge` (with
`JudgeEnd` and `JudgeNothing`, the other things a classifier may answer), `Refresh`
and `Believe` (the second look), `Help` (the text of a field), `Guard`, `Act`. A
surface offers *identities*, which is what the code compares to see whether two
offered actions are the same; a destination is not part of one, so two surfaces
may offer the same button with different destinations. A pause is a card with the
token `resume` is given (`Approve`, `Deny`, `Reply`); what was consented to, and on
which surface a person was called, is history.

**AppRuns.** A run is a caller (`client`) and a thread (`thread`) joined by an
inbox, a stop flag and one-shot answers. `Spawn`, `Call`, `AfterReply` and `Decide` are
`run_app`, `NextStep` the loop of a routine; `Cancelled` stops the actor and lets go,
`Dropped` is the future dropped at an await, which only queues a `Shutdown`. The
thread's `Receive` takes one command, `Activate`, `Table`, `Inspect`, `Perform`,
`StartTyping`, `Check` and `Post` are the commands with the text in chunks. `platform`
chooses between the macOS and the Linux actor where they differ; `Restart` and
`Panic` are what an application and the thread can do to a run.

**BrowserRuns.** `Attach`, `ClearPort`, `SpawnChrome` and `Endpoint` are
`attach_or_launch`; `OpenTab` to `EndDrive` the run with its pop-ups;
`ReadLedger`, `CloseTabs` and `SaveLedger` are `cap_owned_tabs`, each after an await;
`Publish`, `Quit` and `CloseByHand` are Chrome and its user.

**CodexClient.** `Issue` is the insert in the map of pending requests, `Write` the
line on the pipe, `Hear` what a waiting caller gets, `TimesOut` and `DropCaller` its
other two ends. `Dispatch` is one line of the read loop; `Close` closes the latch
and drains the map in one lock, as `Issue` checks it in one lock.

**ControlSocket.** `exists`, `connect`, `remove_file` and `bind` are system calls on a
path, so `Look`, `Knock`, `Clear` and `Bind` are steps between which any other window
may act or die; `SetMode` is the chmod, which also names the path; `Unlink` is the
last thing `main` does, whether or not this window was the one that bound it.
`contested` is history: the windows that were served while another ended, or bound the
path while another was about to clear it.

**WindowControl.** `Request`, `Complete`, `Expire` and `Shut` are `ModeControl`;
`Begin` takes the head of the webview's queue, and `Capture`, `EnterMini`, `Restore`,
`ClearSaved`, `Rollback`, `Forget`, `Reenter` are the branches of `transition` with
their `catch` blocks. Each is a row of window-manager calls: it succeeds, or fails and
leaves the window as it was, between the modes, or already there. `fullState` is the
webview's copy of the full window, lost by `Reload`; `snapshot` is the compositor's.

**Dictation.** A call the hook awaits is in `calls` from the moment it is sent: it is
served (`ServeStart`, `ServeStop`, `ServeStatus`, `ServeCancel`) and answered
(`Deliver`) in any order, or its answer is lost. The native task goes `opening`,
`opened`, `recording`, `closing`, `sending`, `ending`. `overtook` is history: starts
that were served after a cancel sent later.

**Logins.** `begin_login` is four steps, as its task may run before it is registered
and the screen hears of it last; the task's awaits are the steps of the wait; an abort
takes effect at the next of them (`DropWait`), so a credential that is being saved is
saved. A paste is a command of its own that nobody aborts. `orphaned` (a login another
one's end has unregistered) and `inDoubt` (given up while its code was exchanged by a
paste, or its credential saved) are history.

## 3. The runs

Each passing run has a type invariant; the other properties are listed with what a
violation would mean to a user.

**machine** (MCMachine). What the programs of one install share. The screen: two
processes; in the first a suite, a step of the same run and a case under another run,
in the second one unrelated run. Two holds per process life (`MaxScope`), one restart
each (`MaxPid`): enough for a guard or scope of an earlier hold to meet a later one and
for a new incarnation to meet the record of the old. The browser: a terminal that may be
late and has two runs, one that never is, a command that does not beat. A lease of two
ticks, a row stale after three, a beat due every tick: the order of 30 s, 90 s and the
frame loop's beat; ages stop counting one past the last threshold. The clocks: two
programs with a scheduler and a user each, one project, because the slot is one for all
projects. The settings: two sections, one of them with two keys of which one has two leaves,
two values, two patches (`MaxAsks`), so that one can commit anywhere in the life of the
other; a shell of an older build that does not know a leaf. Four casts: the form beside
the shell, the picker beside the shell, the picker beside a re-read, the terminal
beside the shell with one death (`MaxKills`); with the patches spent, nobody types.
`RecordNamesTheOwner`: a refusal blames a program that is running and has
nothing. `KeepsThePromise`: a stranger joins a hold (the refinement of
ScreenExclusion). `ClaimsAreKept`: a renewed lease is lost under a run, or somebody else
revokes a claim that has not expired. `HeartbeatsTakeTurns`: two
heartbeats share the keyboard, or a program says Busy for good.
`ScheduledUnlessOvertaken`: a project that is on never ticks again, but for one
interleaving. `SavesKeepTheRest`: a save undoes a setting its user did not touch.
`SavesAreShown`: a screen at rest never drew its own program's last change, or the
terminal no longer does. `HoldsComeToAnEnd`: the screen is wedged, or a killed process keeps
the browser, or a patch waits for its writer for ever.

**credentials** (MCCredentials). The subscription has four casts chosen at the
start, since all callers at once would only multiply: three turns of a process; two
turns with a login and a logout; two turns with a status check; turns of two
processes. Three tokens (`MaxToken`) allow two rotations, so a token can be rotated,
lost or raced and used again; the two turns that every cast has or has not together
are symmetric. The file has three writers, two in one process and so with one
temporary path, and three items of two services. The cache has a turn that reads, a
settings screen, maintenance, and a shell in another process; two keys.
`GatedTurnsDoNotRace`: a turn signs its user out by racing a turn of its own
process. `WritesTouchOneItem`: a write undoes another's, or leaves a file nobody can
read. `CacheFollowsTheStore`: outside the
overlaps in `crossed`, a process serves something else than what is stored.

**cards** (MCCards). Three cards, a payment to confirm and two questions to answer in
words, so that one can settle in the middle of the terminal's queue and the prompt of one
question be open while another is in front; the window has two, and remembers one early resolve (64 in the code),
so that the second of two pushes the first out and its card stays: that card is in
`lost`. `AnswersCount`: an action is approved by nobody,
or twice. `TerminalAnswersWereMeant`: a key, or words, meant for one card answer another:
a key answers a card that was never live itself, or words a question whose own prompt
was never opened. It does not say that a question was live before its prompt was opened,
which the code does not see to (section 6).
`CardsOnScreenAreAttended`: a card nobody waits on is on a screen, though its
settlement was heard and remembered. `EveryWaitEnds`: a run waits for ever.

**threads** (MCThreads). Two turns, two sentences, two conversations, a channel of
two envelopes so that it overflows, two commands on their way so that two snapshots
can answer in the other order. Turns and sentences are symmetric. `turns`: two turns,
one conversation, two words that differ, since the terminal compares text where a
row has no id yet. `talks`: one turn that may panic, and switches. `repairs`,
`switches`, `steers`: the window with a turn, without one, and with the commands of a
steer in flight. `ThreadsAreWhole`: a thread that is at rest lacks a row it was told
of (but for one a late snapshot kept off the window, `overtaken`).
`TypedReachesATurn`: a sentence leaves the composer and no turn ever hears it.
`RunsSettle`: the terminal shows a run as live whose job has reported.

**turn** (MCAgentTurn). One action, hence two model calls and a budget of four
nodes; two slices of text per call, streamed or not; two tools at once; one steered
message; a stop and a failing write at any moment; a thread that does or does not
end in an earlier answer. `CardsKeepTheirPlace`: a front
end shows a tool's work after what was concluded from it, or before it was asked.
`NoOrphanedCalls`: a steered message breaks the conversation the vendor is sent.
`SlicesAreTold`: text is said twice, out of order, or not at
all. `StoredIsAPrefix`: a reload shows something else than what was said.
`TurnReturns`: a turn hangs.

**driving** (MCDriving). The navigator: a form with a payment button, a field and a
wait; a sign-in wall with the same button, its destination off limits; a challenge that
offers nothing. These are two walls, so that a run can be handed over at one and the
other by turns; the page changes by itself without a bound. Budgets of three
decisions and three actions, so that each of them, staleness and drifting can end a
run before the other. Applications: an app run and a routine (activate, wait, type),
two observations, a text of two chunks, so that a stop lands before, between and after
them; on macOS, on Linux, and on Linux allowed to take the seat. One of the two runs,
as the other could only wait for the screen; both meet in `keyboard_astray`. Browsing:
runs of two processes and a third, a cap of one tab and three tabs ever. Codex: a
turn and a login, a broadcast of one notification so that it lags, two lines in the
pipe, one line that answers nobody. `TokensHold`: an action that needs a person's
word is done without it, or the budget starts again after a pause. `StopIsPrompt`: a
stopped actor types on. `TabsAreAccounted`: a tab is open that nobody will close (but
for those in `forgotten`, section 6). `NothingIsAwaitedInVain`: a caller waits for an
answer that cannot come. `RunsEnd`: a run goes on for ever, or never
lets go of the keyboard and its thread. A navigator has one way not to end, and the
property names it: being handed over without end, each time at another wall than the last
(`EndsOrIsHandedOn`). The run contains such behaviours: without that disjunct TLC answers
with two walls by turns. An app run has no such way, as an application's observation
carries no `signals` (`jev-nav/src/ax.rs:236`) and `Gate::page` looks at nothing else:
each of its observations costs a decision, which is what `MaxTables` stands for, as it
stands for the deadline of a routine's `wait_for`.

**desktop** (MCDesktop). The socket: three windows, so that one ends or clears while two
others meet. The window: two requests over a limit of one (`MaxPending`, 32 in the
code), two changes queued, one failing row, which may be any: the rollback of a rollback
is the second `catch` of one row, and a further fault meets the states it left. With and
without a compositor that has its own copy. Dictation: three generations of the hook,
one lost answer, one capture thread that hangs. Logins: two of one provider and one
paste, a stranger on the port or not. `DoorHoldsUnlessContested`: `neo say` reaches
nobody though a window is open, and not by one of the two ways section 6 tells.
`WindowIsRecoverable`: the full window is lost, or the screen says another mode than the
window has. `IdleHoldsNoMicrophone`: the microphone records and nothing on the screen
says so. `LoginsAreAnswerable`: a wait cannot be stopped, or a login that was cancelled
signs its user in. `TakenIsGivenBack`: the microphone or the callback port is held for
ever.

The five **violation** runs are the findings of section 6: `oauth_status`,
`turns_overlap`, `turn_stopped`, `keyboard_astray`, `chrome_lost`.

Deadlock is not searched for in any run: every one of these systems may come to
rest (a bound is reached, all turns are over, every process has exited). What must
not come to rest is stated as a liveness property.

### Fairness

- screen: weak fairness of a thread inside the mutex (it makes non-blocking calls
  only), of closing a probe, and of dropping a guard: a guard is a value on a
  stack and the work under it has deadlines of its own. None for a crash or for
  acquiring.
- cards: weak fairness of `Hear`, `TimeOut` and `Settle` of a waiting run: the
  deadline is a timer of its own task. None for users, delivery or rendering.
- browser lease: the clock ticks, and a frame loop that runs beats in the end. A
  *punctual* one beats before its lease is due by a guard on the clock, which is an
  assumption about the machine; the late terminal has no such guard.
- turn: weak fairness of the executor, of the turn's task, and of each tool: the
  runtime polls every ready task, and model calls and tool work end by their
  clients' deadlines. None for the stop or the user.
- driving: weak fairness of the navigator's loop (its awaits have deadlines, and a
  card is answered or times out, `Unanswered`), of an app run's caller and of its
  actor's thread, each taken as a whole. None for the page, for stopping, dropping,
  panicking, restarting, nor for anything of the browser or of codex, whose
  properties are safety.
- settings: weak fairness of each writer thread, in the cast with a death: its calls are
  local, and the busy timeout bounds what it waits for. None for users, screens or deaths.
- desktop: weak fairness of a session's task past the opening of its device (which waits
  for the host and for the user's permission: nothing is open yet) and of a login's wait
  ending when it is aborted or its timer is due. None for commands, the webview, users,
  the vendor or the window manager.
- credentials, threads and heartbeats have safety properties only and no fairness.

## 4. What is proved

TLAPS checks these for any sets of processes, tasks, runs, cards, turns and items and
any bounds, from the named ASSUME of each module: total maps, sentinels distinct from
what they stand beside, finitely many tasks for the depth to count and finitely many
turns to tell of, and limits of at least one where the code's constant is one
(`MaxStale`, `MaxStrikes`, `MaxCalls`, a channel's `Capacity`, `Cap`). Every safety
property that a run checks is a theorem here, types included. A module has the
properties of each component first, then one theorem of the specification its run
checks (`MachineIsSafe`, `CredentialsAreSafe`, `DrivingIsSafe`, `DesktopIsSafe`;
`CardsHaveTypes` and the two after it, `ThreadsHaveTypes` and `ThreadsStayWhole`). Where
the parts share no state these say no more than the parts do, and the lemma that a step
of one leaves the others alone is what they rest on. The cards and the threads do share
state, and there the joined theorems are the ones that count.

**ScreenLeaseProofs.** Mutual exclusion is not inductive: it relates guards, which
are scattered over tasks, and says nothing of the lock. `LeaseInv` adds `OwnerInv`
(the flock is exactly where a hold is, or where a thread is making or ending one),
`GuardInv` (each guard carries its process's live scope, and the depth is the
number of guards), `RecordInv` (a record of a living incarnation is the owner's) and
`NextScopeIsFresh`. One lemma per part covers all actions. From it:
`ScreenMutualExclusion`, `ScreenGuardsCounted`, `ScreenRecordTruthful`,
`ScreenScopesFresh`, and `ScreenImplementsExclusion`, the refinement: a step of the
lease is a step of the promise or a stutter. That last one needs freshness: a task
admitted by scope was invited *during this hold*.

**MachineProofs.** *The browser's lease.* A run is steady when its process beats on time
and it is the only one of that process that drives. `SteadyInv` says that a beat is at
most `Every` old and that the lease was renewed no longer ago than its row (`left + age >=
Ttl`); with `BeatsInTime` (a beat is due before a lease and a row run out: 10, 30 and
90 s in the code) the lease of a steady run never expires, so neither a sweep nor
another's acquire takes it: `LeaseIsKept`. `BeatsInTime` is a hypothesis of that theorem
and of `MachineKeepsItsPromises`, and of nothing else.
*The clocks.* `LockInv` gives exclusion; `SlotIsFreed` is inductive with the types;
together they are `HeartbeatsInTurn`. For the deadline, `PollInv` (a scheduler's project
was enabled when read) and `TickInv` (a tick that read its project off, when it is on by
now, was overtaken) leave one way to lose it.
*The settings.* `WriterInv` (a saver in a transaction is the job its writer thread runs,
and that process has the lock), `NamesInv` (a patch names only what was meant) and
`MergedInv` (what is about to be committed is the table with that patch, because nobody
else has committed since it was read) give `SavesLeaveTheRest`. For the screens,
`ShownInv` says of a process's last change that it is drawn, or in the feed, or in the
hands of a caller that has not published it (`OnItsWay`), and for the terminal that
nothing older stands behind it: hence `ScreensComeToTheirSaves`. The terminal needs an
assumption for that, that its frame loop is its only saver.

**CredentialProofs.** *The key file.* The flock makes read, merge, sync and rename one
critical section (`LockInv`), so the slice a writer carries is the file with its own item
changed (`SliceInv`), a draft is the current file with that change (`DraftIsCurrent`),
and only a synced draft is renamed (`SyncInv`). Hence `KeyFileStaysWhole` and
`KeyFileImplementsMap`.
*The subscription.* A turn is refused only for a token that was revoked, lost, or
rotated from outside its gate. `TokenInv` follows the stored token: it is good, or
its successor is in the hands of a caller that has been answered and is about to
save it; that the gate is held while refreshing (`GateIsHeld`) is why no other turn
of the process can read in between; `FreshInv` is why saving cannot bring an old
token back. The theorem covers any number of status checks, logins and logouts
beside the turns: they are what `raced` and the second disjunct account for. That no
token of a gate is in two POSTs at once (`OnePostPerToken`) follows.
*The cache.* `ServedInv`: outside `crossed`, what a process serves once it is settled,
and what a task is about to insert, is the key the store resolves to. The step that
matters is a write: until its process has invalidated, that process is not settled, and
every other process is crossed by it. Hence `CacheServesTheStore`.

**CardProofs.** Of the broker, `ParkedInv` (nobody was told that an answer to a card
still in the table was taken) and `HeardInv` (what a oneshot or its run holds is the one
answer that was taken) carry `AnswerArrivesOnce`, and give `ApprovalWasGiven` (together
`AnswersCount`) and that a settled card is refused. The terminal's and the window's
steps are broker steps or stutters, so both inherit them. The terminal adds `LiveInv`:
the keys are live only for a card that was on a frame, a prompt is open only for a question
it was opened for, and what was told to a card came by one of the two, whatever was raised
in between (`TerminalAnswersWhatWasMeant`, `CardsAnsweredWereMeant`). The window adds that a request is
on the feed once, and a card raised once (`RequestedOnce`, `RaisedOnce`), which is why
no command is sent twice (`WindowSendsOneCommand`).
That no surface keeps a card that nobody waits for follows the card's two events. A feed
has a card's request before its settlement and either once (`EventsInOrder`), the stack
has a card once (`StackedOnce`), and of a card that is settled and shown, or about to be,
the settlement is on its way or was dropped by the channel (`StackedInv`). The window
takes events in any order, so `ResolvedInv` adds the memory of early resolves: a card in
it is settled and off the screen, and one that fell out of it is in `lost`. Hence
`StackedCardsAreAttended`, `ShownCardsAreAttended` and, of the joined surfaces,
`CardsStayAttended`. That a card pushed out of the memory is lost came out of this proof:
without that disjunct the invariant is false of any memory smaller than the cards.

**ThreadProofs.** Both arguments follow a row from the store to the thread. `CoreInv`
types the stream and says whose row is whose. Of the terminal, `ThreadInv`: a row whose
message was published is in the thread, or some envelope that carries it is held by its
publisher or in the queue, or the terminal knows that it has lost something and re-reads.
A reset empties the thread, so `ResetInv` has every reset stand before the rows written
since (`AnnouncedAfter`); `PlaceInv` says what the frame carries where it stands. With
`MadeInv` they give `TerminalMissesNothing`, `TypedIsNotLost` (a sentence past its post,
or past the start of a run, was given to a turn) and `RunsComeToRest`. Of the window,
`WholeInv`: outside `Unsure` (a drop it has not heard of, a gap on its wire, a bootstrap
due) a row that is final is in the thread, brought by some envelope between publisher and
webview, or in `overtaken`, which holds what a snapshot kept off. A snapshot replaces the
thread, so the step to get right is an answer that comes after newer messages; the
lemmas about `Brought` compare what the thread had with what the snapshot has. Hence
`WindowMissesOnlyTheOvertaken` and, for both front ends, `ThreadsStayWhole`.

**TurnProofs.** A model call is one node and its batch of tools another, so a turn of
any length fits its types (`CountInv`). Every step leaves the answer alone or
publishes more of it (`Publishing`), and what publishing does to the row is one lemma
(`WrittenKeeps`): hence `StoredIsAPrefix`. `ConvoInv` says where the conversation ends
by what the graph is doing, which is all that keeps a steered message out from between
calls and results. For the two orders of text and cards: `QueueInv` (a tool that waits
has its one card in the queue, an idle one none), `BatchInv` (every batch but the one
at work is closed), `SliceInv` (no text of a call not made) give
`CardsPrecedeLaterText`; `LaterInv` (when the loop looks at the queue while tools work,
no token is left in the stream) gives `ResultsFollowTheirText`. That last conjunct is
the reason the `select!` has to be biased. Together they are `CardsKeepTheirPlace`.
`EverythingSaidIsTold` lines up what was published with what is still in the stream
(`Line`): along that line the slices are in the order they were said, none twice, and it
ends with what the call at work has streamed (`LineInv`). The last words are the hard
part: `LastInv` says that the state's last message is an earlier turn's, or this call's,
or an earlier call's that nothing was said after, in which case it stands at the end of
the line or none of it does; so `whole_answer` completes it and repeats nothing.

**DrivingProofs.** *The navigator.* A yes is spent, on its way to the screen, or attached
to the run as its one approval, and never two of these (`YesInv`); the count of a drive
is the count of the run over its pauses (`SpentInv`); what was refused is on its way
nowhere (`RefusedInv`): hence `TokensCarryConsent`, for any surfaces that change as they
like.
*Applications.* One command at a time is on its way or in hand, and the shutdown comes
after it (`QueueInv`); so once the flag is up, the one effect that may still happen is
that of the last command there was (`StopInv`): `StopsWithinOneChunk`, for texts of any
length, on each platform.
*Browsing.* Of a run, by its stage, its tab is new to the ledger until it is saved or
forgotten, and the ledger it has read is still what it is (`BrowsingInv`): hence
`NoTabIsLostSightOf`. The second half is false of two runs of one process, which share
the lease that would keep them apart (`chrome_lost`, section 6); `Apart` is a hypothesis
of this theorem, and of the tabs' conjunct of `DrivingIsSafe`.
*Codex.* A request without an answer is in the map of a loop that reads (`AwaitedInv`),
and a turn subscribes before it makes the request that can end it (`TurnsListen`):
`NobodyWaitsInVain`.
The types of these needed three facts of their own: while a run goes on its staleness and
its strikes are below their limits (`NavigatorTypes`), the kept generations of tables are
two at most (`AppRunsTypes`), and no feed is longer than its channel (`FeedsFit`).

**DesktopProofs.** A window that is about to clear the path or to bind it found it
uncontested when it knocked, which `HoldInv` keeps true until it has done so: hence
`DoorIsHeld`, for any number of windows. Of a login, `BegunInv` says which of task,
handle and panel it has by how far it is, and `GivenInv` that one that was given up,
unless it is in doubt or orphaned, has no handle, no paste at work and a task that is
aborted if it is alive: hence `LoginsAnswer`, for any number of logins and pastes.
Of the window's mode, `CopiesInv` follows the two copies of the full bounds through each
`catch` (the compositor's is of the full window whenever it is there; the webview's, until
a reload), and `RowInv` says in which mode each row of calls runs while no rollback
failed: hence `WindowComesBack`. Of dictation, `StartInv` and `SessionInv` compare
generations: whatever the hook was told since a start that nobody cancelled is older than
it, so no answer on its way makes the hook idle under a session: `IdleIsReleased`.

**Out of this prover's reach**, so model-checked only: all liveness (`HoldsComeToAnEnd`,
`EveryWaitEnds`, `TurnReturns`, `RunsEnd`, `TakenIsGivenBack`), which rests on fairness and
ENABLED. The five findings are counterexamples, which TLC finds and nothing has to prove.

## 5. Assumptions about what is outside

- flock is exclusive, released by the kernel when a process dies, and never waits
  in its non-blocking form.
- A rename is atomic and, once made, survives a power loss (the code does not sync
  the directory, so on some file systems the last ones may be undone, which is an
  older file and still a whole one); data that was not synced is lost.
- One SQLite write transaction is one step.
- The vendor retires a refresh token when it answers, and refuses it afterwards.
- metalcraft's executor races each node against the stop token, absorbs the
  mailbox between nodes and ends with one outcome. Its source is not in the
  repository.
- A broadcast delivers in order or reports that it skipped.
- The webview applies one event or one answer at a time; answers of commands come
  back in any order.
- A classifier, a page, a Chrome and an app-server may do anything their protocol
  allows at any moment; a second Chrome on a profile gives way to the first.
- A pipe delivers in order until it is closed.

## 6. Findings

Each is a violation run with a counterexample of a statement the repository makes.

1. `oauth_status`: an account status check refreshes outside the gate; it can be
   refused for a token a turn has just rotated, and the refusal deletes the stored
   credential. `runtime.rs:187` promises one refresh at a time per provider.
2. `turn_stopped`: a turn stopped before its model spoke republishes the previous
   turn's answer as its own. `agent/mod.rs:176`.
3. `turns_overlap`: a sentence typed before its turn is registered, or in a window
   that was reloaded, starts a second turn in one thread. `ui/src/store/store.ts:342`
   says that is never done, `src-tauri/src/commands.rs:700` that a refused steer means
   the run had finished.
4. `keyboard_astray`: a stopped turn drops the run that types, which gives the screen
   back while its actor goes on typing; the next run types beside it.
   `agent/tools.rs:672`.
5. `chrome_lost`: two browsing runs of one process launch at once and the second
   deletes the port file of the first's Chrome, which nobody finds again.
   `neo-cdp/src/lib.rs:238`.

Other behaviours the models have. The first seven contradict a sentence of the
repository too, and have no run of their own.

- *Keys.* A turn that missed the cache inserts the old key after `set_key` wrote the
  new one and invalidated (`runtime.rs:177` says never served stale); a key rotated
  by another process never reaches this one's cache.
- *Cards.* A run stopped at its card publishes no settlement, so the terminal keeps
  the card, and with it the keyboard (`neo-tui/src/state.rs:1949`).
- *Cards.* The rule that nothing resolves a card that was not read
  (`neo-tui/src/state.rs:901` and `2509`) holds of y, n and digits, not of words. With a
  question in front that has no options, `i` opens its prompt whether or not the card is
  live (`keys.rs:267`, `state.rs:2599`), and Enter sends what was typed (`state.rs:3455`):
  a question that was never drawn as a card is answered by whatever is typed after an `i`
  as it comes up. The prompt repeats the sentence in its title, cut to the width of its
  box and with no arming time. A confirmation cannot be answered this way.
- *Browser lease.* Only the terminal renews it; a run of any other program longer
  than 30 s loses it, and two processes drive one profile (`agent/tools.rs:469`).
- *Heartbeats.* A project switched on during a tick by hand is left on with no deadline
  (`projects.rs:346`).
- *Threads.* An answer that a re-read or a switch has already loaded is appended once
  more when its message arrives (`metal.rs:713`, `neo-tui/src/state.rs:1912`).
- *Settings.* The form sends a changed key whole, so a save of the provider writes back
  the model id the form was filled with, over an edit made meanwhile, where
  `SettingsEditor.tsx:202` says that is not overwritten.
- *Settings.* A change made by another process is announced to nobody here, and
  whatever is announced empties a form with unsaved changes. Choosing a provider writes
  back the model id read before the patch. A program of an older build drops the leaves
  it does not know from a section it writes. A re-read, or the answer to a form, may
  replace newer settings in the window.
- *Credentials.* A refresh in flight during a login or a logout overwrites or deletes
  what they stored; the reload of a turn can put a signed-out credential back in the
  cache. A re-seal whose second half fails has deleted the item's only copy.
- *Screen.* After a crash, a refusal may quote the dead holder until the next one writes.
- *Roster.* The browser's lease is one uncounted row per process: the first of two
  guards to drop releases it. A process swept from the roster never announces itself
  again.
- *Cards.* Whoever answers a card between its deadline and its settlement is told Ok
  and not used. A lagging window loses a card's request and cannot get it back.
- *Turns.* A turn whose graph cannot be built returns with no ending event. A steered
  message is posted before it is recorded, so one whose record fails is heard all the
  same, and a front end that sends it again has it heard twice; one posted after the
  last boundary is heard by the next turn only.
- *Clocks.* A scheduler's pass may tick a project another program has just ticked, or
  that was switched off since. A drop resets the failure count, where
  `plans/15-heartbeat.md` resets it on success.
- *Terminal.* The loop never sees a disconnected job, as the list of jobs keeps a
  sender: a run whose job panicked stays "running" (`run.rs:731`). A steer goes to
  the turn in flight, whatever conversation is on the screen.
- *Window.* A snapshot read before an applied message replaces it. `MessageUpdated`
  is never published, and the final message of a row that was loaded half grown is
  ignored. A bootstrap seats the window on the newest conversation. A run whose end was
  lost stays "running" until a bootstrap.
- *Navigator.* An approval stays good until the identity it named is chosen, wherever
  that is by then, and it skips the check of the destination, which is made of links
  only. A fill that needs both a confirmation and a value is confirmed twice. Refused
  actions count toward "stuck". Hand-overs cost no budget: a run led from one wall to
  another, or before a challenge that keeps changing, goes on for as long as somebody says
  ready each time. A surface that went stale
  under the observation after a successful action ends the run as an error.
- *Applications.* Every clone of the handle sends `Shutdown` when it drops, where its
  doc says the last one does. One chunk may be typed after the stop, or after the
  screen was given back. A routine that types right after `activate`, with no
  `wait_for`, is always refused, as no table was taken. A routine from the command line
  passes no hold at all. On Linux nothing is raised or typed without `NEO_TAKE_SEAT`;
  clearing a field and scrolling are bursts of keys that the stop does not interrupt,
  each taken as one effect here.
- *Browsing.* Two runs of one process share a lease, a Chrome and the ledger. Tabs
  that no ledger holds (a run that failed early or was dropped, the opener of an
  adopted pop-up, a close or a save that failed) are never capped, though
  `plans/10-navigator.md` caps them at eight. A tab is brought to the front only when
  the run is done. Attaching has no deadline and does not hear the cancel.
- *Control socket.* A window that ends removes the path even when another one serves it
  (`main.rs:187`), and two that start at once may clear each other's socket, where
  `control.rs:134` says it refuses to steal one that is served.
- *Window.* A request whose answer was not awaited long enough is still carried out. A
  failed rollback leaves the webview saying one mode and the window in neither; a reload
  in mini mode without a compositor forgets the full bounds.
- *Dictation.* A start that is served after the cancel sent later records up to the cap
  with an idle hook. A capture thread that hangs is detached with its stream open, while
  `voice.rs:280` says a cancel is acknowledged when the microphone was released.
- *Logins.* A cancel while a paste is exchanged does not stop it, where
  `commands.rs:388` says there is nothing to undo. The end of one login unregisters
  whichever is registered by then (`state.rs:116`), whose wait goes on with no handle
  to stop it. The page may be opened before the task has bound the port, where
  `Connections.tsx:171` says the listener is up.
- *Codex.* A turn or a login that waits when the read loop dies runs to its deadline, as
  the broadcast's sender lives in the client. A login ignores lag, so its completion may
  be lost. A dropped request leaves its entry in the map, or half a line in the pipe.

## 7. Plan

A new module joins an existing MC module and its run, and a shallower property makes room
for a deeper one, so that everything can still be checked together.

Next models, most important first:

1. The exporter's queue and its shutdown.
2. The writer's transactions of SettingsStore under ChromeLease and Heartbeats, as a
   refinement to the atomic statements these take.

Next proofs. Each safety property that a run checks is proved, so what is left is to say
more: abstract specifications, with the refinement as the theorem. The broker as a cell
that is written once; the event stream as a log of which a reader gets a subsequence and
is told of each gap; a turn's answer as a text that only grows, for AgentTurn and for the
TurnStream that stands for it; and the settings store as a sequence of patches.

## 8. What is not modelled

Left out of the modelled parts: the wording of cards, records and errors; the length
of tokens' lives, of deadlines and of the heartbeat back-off; creating and deleting
projects and their documents; the platform keyrings; a card answered through an id
of the other kind, which no caller can produce; which values of a setting are valid;
opening, migrating and backing up the database; reading a page or a window and what is
asked of the classifier about it; the samples of a recording, its spectrum and the
transcriber, and the terminal's push-to-talk; what is asked over the control socket but
the window's mode; the single calls of a window-manager row; menus and single keys of
applications; frames of a page and the matching of DevTools calls; renaming and
deleting conversations.

Not modelled at all, with the reason for each in `PROJECT.json`: platform input and
output (accessibility calls, D-Bus, audio, HTTP clients), drawing, argument parsing,
the evaluation harness, and the components the plan lists.
