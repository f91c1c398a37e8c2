--------------------------- MODULE SettingsStore ---------------------------
(***************************************************************************)
(* Settings, from the key that is pressed to the row that is written and   *)
(* back to the screen: the window's form and its runtime picker, the       *)
(* terminal's rows and `neo settings`, each in a process of its own with   *)
(* one writer thread (neo-store actor.rs), over one SQLite file.           *)
(*                                                                         *)
(* A leaf is one value of the settings tree; it lies in a section, which   *)
(* is a row of the table, and under a top-level key of that section, which *)
(* is what the form compares.  A program may be of a build that does not   *)
(* know every leaf.                                                        *)
(***************************************************************************)
EXTENDS Naturals, Sequences

CONSTANTS
  Fronts,         \* the processes of one install
  Window, Terminal,
  Savers,         \* what sends patches: the form, the picker, a row, a command
  FrontOf,        \* the process of a saver
  Form, Picker,   \* the window's two savers
  Leaves, SectionOf, KeyOf,
  Provider, ModelId,   \* the two leaves of models.inference
  Knows,          \* per process: the leaves its build has
  Values, Default,
  Unnamed,        \* a patch does not name a leaf, or the form has not changed it
  NoSaver, NoFront,
  MaxAsks, MaxKills    \* bounds: patches sent, processes killed

ASSUME SettingsAssumption ==
  /\ FrontOf \in [Savers -> Fronts] /\ Knows \in [Fronts -> SUBSET Leaves]
  /\ {Window, Terminal} \subseteq Fronts /\ Window # Terminal /\ {Form, Picker} \subseteq Savers
  /\ {Provider, ModelId} \subseteq Leaves /\ Default \in Values /\ Unnamed \notin Values
  /\ NoSaver \notin Savers /\ NoFront \notin Fronts
  /\ \A s, t \in Savers : FrontOf[s] = Terminal /\ FrontOf[t] = Terminal => s = t   \* its frame loop
  /\ MaxAsks \in Nat /\ MaxKills \in Nat

VARIABLES
  rows,      \* the settings table
  version,   \* history: transactions committed
  writing,   \* the process whose transaction has SQLite's write lock
  inbox,     \* per process: the jobs queued for its writer thread
  serving,   \* per process: the job that thread runs
  stage,     \* per saver: where its patch is
  patch,     \* per saver: the patch sent
  meant,     \* history, per saver: the leaves under the keys its user changed
  merged,    \* per saver: the settings its transaction computed
  feed,      \* per screen: SettingsChanged events published and not yet applied
  shown,     \* per screen: the settings it draws
  form,      \* the window's unsaved changes
  reload,    \* the window's get_settings: "none", "asked", "read"
  reread,    \* what it read
  own,       \* history, per screen: the last commit of its process
  seen,      \* history, per screen: the newest settings it has drawn
  asks, kills

storeVars == <<rows, version, writing, inbox, serving, stage, merged, own>>
askVars   == <<patch, meant, asks>>
screenVars == <<feed, shown, form, reload, reread, seen>>
settingsVars == <<storeVars, askVars, screenVars, kills>>

Screens == {Window, Terminal}
Settings == [Leaves -> Values]
Snapshots == [at : Nat, of : Settings]
Patches == [Leaves -> Values \cup {Unnamed}]
NoChange == [l \in Leaves |-> Unnamed]
Now == [at |-> version, of |-> rows]
First == [at |-> 0, of |-> [l \in Leaves |-> Default]]
Stages == {"idle", "reading", "queued", "merging", "committing", "stored", "told", "refused"}
InTransaction == {"merging", "committing"}

\* The types of the table, the writers, the patches and the screens.
SettingsTypeOK ==
  /\ rows \in Settings /\ version \in Nat /\ writing \in Fronts \cup {NoFront}
  /\ inbox \in [Fronts -> Seq(Savers)] /\ serving \in [Fronts -> Savers \cup {NoSaver}]
  /\ stage \in [Savers -> Stages] /\ patch \in [Savers -> Patches]
  /\ meant \in [Savers -> SUBSET Leaves] /\ merged \in [Savers -> Snapshots]
  /\ feed \in [Screens -> Seq(Snapshots)] /\ shown \in [Screens -> Snapshots]
  /\ form \in Patches /\ reload \in {"none", "asked", "read"} /\ reread \in Snapshots
  /\ own \in [Screens -> Nat] /\ seen \in [Screens -> Nat] /\ asks \in Nat /\ kills \in Nat

SettingsInit ==
  /\ rows = First.of /\ version = 0 /\ writing = NoFront
  /\ inbox = [p \in Fronts |-> <<>>] /\ serving = [p \in Fronts |-> NoSaver]
  /\ stage = [s \in Savers |-> "idle"] /\ patch = [s \in Savers |-> NoChange]
  /\ meant = [s \in Savers |-> {}] /\ merged = [s \in Savers |-> First]
  /\ feed = [q \in Screens |-> <<>>] /\ shown = [q \in Screens |-> First]
  /\ form = NoChange /\ reload = "none" /\ reread = First
  /\ own = [q \in Screens |-> 0] /\ seen = [q \in Screens |-> 0] /\ asks = 0 /\ kills = 0

-----------------------------------------------------------------------------
(* What the users do. *)

Queued(s) == inbox' = [inbox EXCEPT ![FrontOf[s]] = Append(@, s)]

\* `patch_settings` up to the send of its job.
Asks(s, p, m) ==
  /\ stage[s] = "idle" /\ asks < MaxAsks
  /\ patch' = [patch EXCEPT ![s] = p] /\ meant' = [meant EXCEPT ![s] = m]
  /\ asks' = asks + 1

\* What a field of the form holds.
Drawn(l) == IF form[l] = Unnamed THEN shown[Window].of[l] ELSE form[l]

\* A field of the form; a form shows one section, so a change in another starts afresh.
Type(l, v) ==
  /\ l \in Knows[Window] /\ v # Drawn(l)
  /\ form' = [k \in Leaves |->
                IF k = l THEN IF v = shown[Window].of[l] THEN Unnamed ELSE v
                ELSE IF SectionOf[k] = SectionOf[l] THEN form[k] ELSE Unnamed]
  /\ UNCHANGED <<storeVars, askVars, feed, shown, reload, reread, seen, kills>>

Revert ==
  /\ form # NoChange /\ form' = NoChange
  /\ UNCHANGED <<storeVars, askVars, feed, shown, reload, reread, seen, kills>>

Changed == {KeyOf[l] : l \in {k \in Leaves : form[k] # Unnamed}}

\* Mutant of FormPatch: the form sends all of its section.
FormPatchMutant ==
  [l \in Leaves |-> IF \E k \in Leaves : form[k] # Unnamed /\ SectionOf[k] = SectionOf[l]
                    THEN Drawn(l) ELSE Unnamed]

\* What the form sends: the whole value of each top-level key that differs.
FormPatch ==
  [l \in Leaves |-> IF KeyOf[l] \in Changed /\ l \in Knows[Window] THEN Drawn(l) ELSE Unnamed]

\* Another command's end clears `busy` (store.ts:152), so a form may be saved again.
Save(s) ==
  /\ s = Form /\ Changed # {}
  /\ Asks(s, FormPatch, {l \in Leaves : KeyOf[l] \in Changed})
  /\ stage' = [stage EXCEPT ![s] = "queued"] /\ Queued(s)
  /\ UNCHANGED <<rows, version, writing, serving, merged, own, screenVars, kills>>

\* set_inference_runtime: a provider is chosen, and the model's id is read to go with it.
ChooseProvider(s, v) ==
  /\ s = Picker /\ Asks(s, [NoChange EXCEPT ![Provider] = v], {Provider, ModelId})
  /\ stage' = [stage EXCEPT ![s] = "reading"]
  /\ UNCHANGED <<rows, version, writing, inbox, serving, merged, own, screenVars, kills>>

ReadModelId(s) ==
  /\ stage[s] = "reading"
  /\ patch' = [patch EXCEPT ![s][ModelId] = rows[ModelId]]
  /\ stage' = [stage EXCEPT ![s] = "queued"] /\ Queued(s)
  /\ UNCHANGED <<rows, version, writing, serving, merged, own, meant, asks, screenVars, kills>>

\* The provider and the model are chosen: the picker, a row of the terminal, `neo settings use-runtime`.
ChooseModel(s, v, w) ==
  /\ s # Form
  /\ Asks(s, [NoChange EXCEPT ![Provider] = v, ![ModelId] = w], {Provider, ModelId})
  /\ stage' = [stage EXCEPT ![s] = "queued"] /\ Queued(s)
  /\ UNCHANGED <<rows, version, writing, serving, merged, own, screenVars, kills>>

\* A row of the terminal and `neo settings patch` send one leaf; null is its default.
SetLeaf(s, l, v) ==
  /\ s \notin {Form, Picker} /\ l \in Knows[FrontOf[s]]
  /\ Asks(s, [NoChange EXCEPT ![l] = v], {l})
  /\ stage' = [stage EXCEPT ![s] = "queued"] /\ Queued(s)
  /\ UNCHANGED <<rows, version, writing, serving, merged, own, screenVars, kills>>

\* `neo settings patch <section> null`.
Reset(s, l) ==
  /\ s \notin {Form, Picker} /\ FrontOf[s] \notin Screens
  /\ LET section == {k \in Leaves : SectionOf[k] = SectionOf[l]}
     IN  Asks(s, [k \in Leaves |-> IF k \in section THEN Default ELSE Unnamed], section)
  /\ stage' = [stage EXCEPT ![s] = "queued"] /\ Queued(s)
  /\ UNCHANGED <<rows, version, writing, serving, merged, own, screenVars, kills>>

-----------------------------------------------------------------------------
(* A process's writer thread. *)

Take(p) ==
  /\ serving[p] = NoSaver /\ inbox[p] # <<>>
  /\ serving' = [serving EXCEPT ![p] = Head(inbox[p])]
  /\ inbox' = [inbox EXCEPT ![p] = Tail(@)]
  /\ UNCHANGED <<rows, version, writing, stage, merged, own, askVars, screenVars, kills>>

\* The job is over: the lock, if it had it, is free and the caller has its reply.
Replies(p, s, reply) ==
  /\ serving' = [serving EXCEPT ![p] = NoSaver]
  /\ stage' = [stage EXCEPT ![s] = reply]
  /\ UNCHANGED <<inbox, askVars, screenVars, kills>>

\* Mutant of Begin: a deferred transaction, which reads before it has the lock.
BeginMutant(p, s) ==
  /\ serving[p] = s /\ stage[s] = "queued"
  /\ writing' = p /\ stage' = [stage EXCEPT ![s] = "merging"]
  /\ UNCHANGED <<rows, version, inbox, serving, merged, own, askVars, screenVars, kills>>

\* BEGIN IMMEDIATE.
Begin(p, s) ==
  /\ serving[p] = s /\ stage[s] = "queued" /\ writing = NoFront
  /\ writing' = p /\ stage' = [stage EXCEPT ![s] = "merging"]
  /\ UNCHANGED <<rows, version, inbox, serving, merged, own, askVars, screenVars, kills>>

\* Another process has the lock for longer than busy_timeout.
Busy(p, s) ==
  /\ serving[p] = s /\ stage[s] = "queued" /\ writing \notin {NoFront, p}
  /\ Replies(p, s, "refused")
  /\ UNCHANGED <<rows, version, writing, merged, own>>

\* The stored settings as this build reads them, with the patch.
Merged(p, s) ==
  [l \in Leaves |-> IF patch[s][l] # Unnamed THEN patch[s][l]
                    ELSE IF l \in Knows[p] THEN rows[l] ELSE Default]

Merge(p, s) ==
  /\ serving[p] = s /\ stage[s] = "merging"
  /\ merged' = [merged EXCEPT ![s] = [at |-> version + 1, of |-> Merged(p, s)]]
  /\ stage' = [stage EXCEPT ![s] = "committing"]
  /\ UNCHANGED <<rows, version, writing, inbox, serving, own, askVars, screenVars, kills>>

\* Mutant of RollBack: a transaction that is refused is left open.
RollBackMutant(p, s) ==
  /\ serving[p] = s /\ stage[s] \in InTransaction
  /\ Replies(p, s, "refused") /\ UNCHANGED <<rows, version, writing, merged, own>>

\* The merged settings are not valid, or the disk refuses: the transaction is dropped.
RollBack(p, s) ==
  /\ serving[p] = s /\ stage[s] \in InTransaction
  /\ writing' = NoFront /\ Replies(p, s, "refused")
  /\ UNCHANGED <<rows, version, merged, own>>

\* The row of one section is written.
Touches(s, l) == \E k \in Leaves : patch[s][k] # Unnamed /\ SectionOf[k] = SectionOf[l]

Commit(p, s) ==
  /\ serving[p] = s /\ stage[s] = "committing"
  /\ rows' = [l \in Leaves |-> IF Touches(s, l) THEN merged[s].of[l] ELSE rows[l]]
  /\ version' = version + 1 /\ writing' = NoFront
  /\ own' = [q \in Screens |-> IF q = p THEN version + 1 ELSE own[q]]
  /\ Replies(p, s, "stored") /\ UNCHANGED merged

Writes(p) ==
  Take(p) \/ \E s \in Savers : Begin(p, s) \/ Busy(p, s) \/ Merge(p, s) \/ RollBack(p, s) \/ Commit(p, s)

-----------------------------------------------------------------------------
(* Back to the screens. *)

Draws(q, snapshot) ==
  /\ shown' = [shown EXCEPT ![q] = snapshot]
  /\ seen' = [seen EXCEPT ![q] = IF snapshot.at > @ THEN snapshot.at ELSE @]
  /\ form' = IF q = Window THEN NoChange ELSE form

\* Mutant of Publish: the caller has its answer, so its own program is not told.
PublishMutant(s) ==
  /\ stage[s] = "stored" /\ stage' = [stage EXCEPT ![s] = "told"]
  /\ UNCHANGED <<rows, version, writing, inbox, serving, merged, own, askVars, screenVars, kills>>

\* patch_settings publishes, in the caller's thread, after the writer's reply.
Publish(s) ==
  /\ stage[s] = "stored" /\ stage' = [stage EXCEPT ![s] = "told"]
  /\ feed' = [q \in Screens |-> IF q = FrontOf[s] THEN Append(feed[q], merged[s]) ELSE feed[q]]
  /\ UNCHANGED <<rows, version, writing, inbox, serving, merged, own, askVars>>
  /\ UNCHANGED <<shown, form, reload, reread, seen, kills>>

\* A call's own data goes with it.
Forgets(S) ==
  /\ patch' = [s \in Savers |-> IF s \in S THEN NoChange ELSE patch[s]]
  /\ meant' = [s \in Savers |-> IF s \in S THEN {} ELSE meant[s]]
  /\ merged' = [s \in Savers |-> IF s \in S THEN First ELSE merged[s]]

\* The caller is answered: the form's answer replaces the settings as an event does.
Answer(s) ==
  /\ stage[s] \in {"told", "refused"} /\ stage' = [stage EXCEPT ![s] = "idle"]
  /\ IF s = Form /\ stage[s] = "told" THEN Draws(Window, merged[s]) ELSE UNCHANGED <<shown, seen, form>>
  /\ Forgets({s})
  /\ UNCHANGED <<rows, version, writing, inbox, serving, own, asks, feed, reload, reread, kills>>

\* The terminal's frame loop is inside its own call until that is answered.
Hear(q) ==
  /\ feed[q] # <<>> /\ (q = Terminal => \A s \in Savers : FrontOf[s] = q => stage[s] = "idle")
  /\ Draws(q, Head(feed[q])) /\ feed' = [feed EXCEPT ![q] = Tail(@)]
  /\ UNCHANGED <<storeVars, askVars, reload, reread, kills>>

OpenSettings ==
  /\ reload = "none" /\ reload' = "asked"
  /\ UNCHANGED <<storeVars, askVars, feed, shown, form, reread, seen, kills>>

ServeReload ==
  /\ reload = "asked" /\ reload' = "read" /\ reread' = Now
  /\ UNCHANGED <<storeVars, askVars, feed, shown, form, seen, kills>>

HearReload ==
  /\ reload = "read" /\ Draws(Window, reread) /\ reload' = "none" /\ reread' = First
  /\ UNCHANGED <<storeVars, askVars, feed, kills>>

\* A process dies, and SQLite rolls its transaction back; started again, it reads the table.
Killed(p) ==
  /\ kills < MaxKills /\ kills' = kills + 1
  /\ writing' = (IF writing = p THEN NoFront ELSE writing)
  /\ inbox' = [inbox EXCEPT ![p] = <<>>] /\ serving' = [serving EXCEPT ![p] = NoSaver]
  /\ stage' = [s \in Savers |-> IF FrontOf[s] = p THEN "idle" ELSE stage[s]]
  /\ feed' = [q \in Screens |-> IF q = p THEN <<>> ELSE feed[q]]
  /\ shown' = [q \in Screens |-> IF q = p THEN Now ELSE shown[q]]
  /\ seen' = [q \in Screens |-> IF q = p THEN version ELSE seen[q]]
  /\ form' = (IF p = Window THEN NoChange ELSE form)
  /\ reload' = (IF p = Window THEN "none" ELSE reload)
  /\ Forgets({s \in Savers : FrontOf[s] = p})
  /\ reread' = (IF p = Window THEN First ELSE reread)
  /\ UNCHANGED <<rows, version, own, asks>>

SettingsNext ==
  \/ Revert \/ OpenSettings \/ ServeReload \/ HearReload
  \/ \E l \in Leaves, v \in Values : Type(l, v)
  \/ \E s \in Savers : Save(s) \/ ReadModelId(s) \/ Publish(s) \/ Answer(s)
  \/ \E s \in Savers, v \in Values :
       \/ ChooseProvider(s, v)
       \/ \E w \in Values : ChooseModel(s, v, w)
       \/ \E l \in Leaves : SetLeaf(s, l, v)
  \/ \E s \in Savers, l \in Leaves : Reset(s, l)
  \/ \E p \in Fronts : Writes(p) \/ Killed(p)
  \/ \E q \in Screens : Hear(q)

SettingsSpec == SettingsInit /\ [][SettingsNext]_settingsVars

-----------------------------------------------------------------------------
\* SettingsEditor.tsx: "a CLI or TUI edit made while this form is open is not overwritten
\* by an unrelated save".  A transaction changes what its user meant and nothing else, but
\* for the leaves of that section which the build of its process does not know.
SavesKeepTheRest ==
  [][\A l \in Leaves : rows'[l] # rows[l] =>
       \E s \in Savers : /\ stage[s] = "committing" /\ stage'[s] = "stored"
                         /\ l \in meant[s] \/ l \notin Knows[FrontOf[s]]]_settingsVars

\* store.ts:477: "every change publishes SettingsChanged".  A screen at rest has drawn the last
\* change of its own process; and the terminal, whose settings arrive one way only, draws it.
Resting(q) ==
  /\ feed[q] = <<>> /\ \A s \in Savers : FrontOf[s] = q => stage[s] = "idle"
  /\ q = Window => reload = "none"
SavesAreShown ==
  \A q \in Screens : Resting(q) => seen[q] >= own[q] /\ (q = Terminal => shown[q].at >= own[q])

\* A patch that waits for its writer's answer.
Awaits(s) == stage[s] = "queued" \/ stage[s] \in InTransaction
=============================================================================
