----------------------------- MODULE Navigator -----------------------------
(***************************************************************************)
(* One run of the navigator (crates/jev-nav): observe, ask Jev for one     *)
(* action, gate it, guard it, execute it, and again.  The run pauses on a  *)
(* card (drive_with_cards) and is resumed with a token, over a surface     *)
(* that moves by itself between any two steps, as often as it likes.       *)
(*                                                                         *)
(* A surface is what one observation says; an identity is what makes two   *)
(* offered actions the same one (kind, node, label, value).  A destination *)
(* is no part of an identity, so two surfaces may offer one identity with  *)
(* different destinations.                                                 *)
(***************************************************************************)
EXTENDS Integers, Sequences, FiniteSets

CONSTANTS
  Surfaces, Identities, NoSurface, NoIdentity,
  Offers,        \* per surface: the identities it offers
  OffLimits,     \* per surface: those whose destination the run may not go to
  Walled,        \* the surfaces with a password field or a challenge
  Fields,        \* identities of kind fill
  Waits, Scrolls,  \* identities of kind wait, of kind scroll
  Worded,        \* identities whose label holds one of CONFIRM_WORDS
  MaxDecisions, MaxActions, MaxStale,   \* MAX_DECISIONS, MAX_ACTIONS, MAX_CONSECUTIVE_STALE
  MaxStrikes     \* MAX_OFF_TASK_STRIKES

ASSUME NavigatorAssumption ==
  /\ NoSurface \notin Surfaces /\ NoIdentity \notin Identities
  /\ Offers \in [Surfaces -> SUBSET Identities]
  /\ OffLimits \in [Surfaces -> SUBSET Identities]
  /\ Walled \subseteq Surfaces
  /\ Fields \cup Waits \cup Scrolls \cup Worded \subseteq Identities
  /\ Fields \cap (Waits \cup Scrolls) = {} /\ Worded \cap (Waits \cup Scrolls) = {}
  /\ {MaxDecisions, MaxActions} \subseteq Nat /\ {MaxStale, MaxStrikes} \subseteq Nat \ {0}

VARIABLES
  surface,    \* what is on the screen now
  place,      \* where the loop is
  seen,       \* observation: the surface it was read from
  before,     \* the fingerprint before the action just executed, or NoSurface
  chosen,     \* decision.action
  decisions,  \* this drive's count, begun from the token's
  stale,      \* consecutive_stale
  strikes,    \* Gate::off_task_strikes
  rows,       \* history
  approved, denied, handed, typed,   \* approved, denied, handed_at, pending_text
  card,       \* what the run waits for a person about
  asked,      \* history: evaluations asked of Jev in the whole run
  consents,   \* history: per identity, cards answered with a yes
  done        \* history: per identity, executions

memoryVars == <<approved, denied, handed, typed>>
navVars == <<surface, place, seen, before, chosen, decisions, stale, strikes, rows, memoryVars,
             card, asked, consents, done>>

Halts == {"done", "blocked", "failed", "cancelled"}
NoCard == [kind |-> "none", spent |-> 0, pending |-> NoIdentity, field |-> <<>>]
Card(kind, pending, field) == [kind |-> kind, spent |-> decisions, pending |-> pending, field |-> field]

\* field_context: the field, what the page says and the recent actions.
Context(id) == <<id, seen, Len(rows)>>

NavigatorTypeOK ==
  /\ surface \in Surfaces /\ seen \in Surfaces \cup {NoSurface} /\ before \in Surfaces \cup {NoSurface}
  /\ place \in Halts \cup {"observe", "judge", "believe", "help", "guard", "act", "card"}
  /\ chosen \in Identities \cup {NoIdentity} /\ approved \in Identities \cup {NoIdentity}
  /\ denied \subseteq Identities /\ handed \in Surfaces \cup {NoSurface}
  /\ decisions \in 0..MaxDecisions /\ stale \in 0..MaxStale /\ strikes \in 0..MaxStrikes
  /\ \A i \in DOMAIN rows : rows[i].kind \in {"act", "wait", "refused"} /\ rows[i].changed \in {"yes", "no", "unread"}

\* Navigator::run
NavigatorInit ==
  /\ surface \in Surfaces
  /\ place = "observe" /\ seen = NoSurface /\ before = NoSurface /\ chosen = NoIdentity
  /\ decisions = 0 /\ stale = 0 /\ strikes = 0 /\ rows = <<>>
  /\ approved = NoIdentity /\ denied = {} /\ handed = NoSurface /\ typed = <<>>
  /\ card = NoCard /\ asked = 0
  /\ consents = [i \in Identities |-> 0] /\ done = [i \in Identities |-> 0]

-----------------------------------------------------------------------------

\* The page, the app or the person at it changes what is shown.
PageMoves ==
  /\ surface' \in Surfaces \ {surface}
  /\ UNCHANGED <<place, seen, before, chosen, decisions, stale, strikes, rows, memoryVars, card, asked, consents, done>>

Halt(how) ==
  /\ place' = how
  /\ UNCHANGED <<surface, seen, before, chosen, decisions, stale, strikes, rows, memoryVars, card, asked, consents, done>>

\* The last three rows changed nothing, and none was a wait.  A refusal is a row.
Stuck(history) ==
  /\ Len(history) >= 3
  /\ \A i \in Len(history) - 2 .. Len(history) : history[i].changed = "no" /\ history[i].kind # "wait"

\* observe, and reobserve: after an action the last row learns what changed.
Observe ==
  /\ place = "observe" /\ seen' = surface /\ before' = NoSurface
  /\ rows' = IF before = NoSurface THEN rows
             ELSE [rows EXCEPT ![Len(rows)].changed = IF surface = before THEN "no" ELSE "yes"]
  /\ place' = IF before # NoSurface /\ Stuck(rows') THEN "blocked" ELSE "judge"
  /\ UNCHANGED <<surface, chosen, decisions, stale, strikes, memoryVars, card, asked, consents, done>>

\* An error ends the run: of an observation, of Jev, of the text helper, of an action.
Fail == place \in {"observe", "judge", "believe", "help", "guard", "act"} /\ Halt("failed")

\* The caller's token, raced against the whole run.
Cancel == place \notin Halts /\ Halt("cancelled")

Spent == decisions >= MaxDecisions \/ Len(rows) >= MaxActions
RunOut == place = "judge" /\ Spent /\ Halt("blocked")

HandsOver == seen \in Walled /\ handed # seen

\* Mutant of HandOver: the surface is not remembered.
HandOverMutant ==
  /\ place = "judge" /\ ~Spent /\ HandsOver
  /\ place' = "card" /\ card' = Card("ready", NoIdentity, <<>>)
  /\ UNCHANGED <<surface, seen, before, chosen, decisions, stale, strikes, rows, memoryVars, asked, consents, done>>

\* Gate::page: the page's own signals come before any decision.  It costs none, and
\* is made again wherever the wall is not the last one handed over.
HandOver ==
  /\ place = "judge" /\ ~Spent /\ HandsOver
  /\ handed' = seen /\ place' = "card" /\ card' = Card("ready", NoIdentity, <<>>)
  /\ UNCHANGED <<surface, seen, before, chosen, decisions, stale, strikes, rows, approved, denied, typed, asked, consents, done>>

\* One evaluation, whatever it answers.
Evaluate == place = "judge" /\ ~Spent /\ ~HandsOver /\ decisions' = decisions + 1 /\ asked' = asked + 1

\* DONE and BLOCKED are believed after one more look.
JudgeEnd ==
  /\ Evaluate /\ place' = "believe" /\ chosen' = NoIdentity
  /\ UNCHANGED <<surface, seen, before, stale, strikes, rows, memoryVars, card, consents, done>>

\* The operation names no action.
JudgeNothing ==
  /\ Evaluate /\ place' = "blocked"
  /\ UNCHANGED <<surface, seen, before, chosen, stale, strikes, rows, memoryVars, card, consents, done>>

\* Mutant of Offered: a refused action is offered again.
OfferedMutant == Offers[seen]

\* action_space, over what was not refused.
Offered == Offers[seen] \ denied

\* Gate::on_task, not asked about a wait.
Drift(id, low) == IF id \in Waits THEN strikes ELSE IF low THEN strikes + 1 ELSE 0

\* Gate::action, and what an approval leaves of it.  `risky`: a safety head is
\* over its threshold, or this is a first upload.
Verdict(id, risky) ==
  IF approved = id THEN "allow"
  ELSE IF id \in OffLimits[seen] THEN "refuse"
  ELSE IF id \in Worded \/ (risky /\ id \notin Waits \cup Scrolls) THEN "confirm"
  ELSE "allow"

Judge(id, low, risky) ==
  /\ Evaluate /\ id \in Offered /\ chosen' = id
  /\ strikes' = Drift(id, low)
  /\ LET verdict == IF strikes' >= MaxStrikes THEN "refuse" ELSE Verdict(id, risky)
     IN  /\ place' = CASE verdict = "refuse" -> "blocked"
                       [] verdict = "confirm" -> "card"
                       [] OTHER -> IF id \in Fields THEN "help" ELSE "guard"
         /\ card' = IF verdict = "confirm" THEN [Card("confirm", id, <<>>) EXCEPT !.spent = decisions'] ELSE card
         /\ approved' = IF verdict = "allow" /\ approved = id THEN NoIdentity ELSE approved
  /\ UNCHANGED <<surface, seen, before, stale, rows, denied, handed, typed, consents, done>>

\* Mutant of Refresh: the limit is off by one.
RefreshMutant ==
  /\ stale' = stale + 1
  /\ place' = IF stale' > MaxStale THEN "blocked" ELSE "observe"

\* What a decision made on a surface that moved costs.
Refresh ==
  /\ stale' = stale + 1
  /\ place' = IF stale' >= MaxStale THEN "blocked" ELSE "observe"

Believe ==
  /\ place = "believe"
  /\ IF surface = seen THEN place' \in {"done", "blocked"} /\ stale' = stale ELSE Refresh
  /\ UNCHANGED <<surface, seen, before, chosen, decisions, strikes, rows, memoryVars, card, asked, consents, done>>

\* The value of a field: remembered, written by the helper, or asked of the user.
Help ==
  /\ place = "help"
  /\ \/ typed' = Context(chosen) /\ place' = "guard" /\ UNCHANGED card
     \/ typed # Context(chosen) /\ place' = "card" /\ card' = Card("value", chosen, Context(chosen)) /\ UNCHANGED typed
  /\ UNCHANGED <<surface, seen, before, chosen, decisions, stale, strikes, rows, approved, denied, handed, asked, consents, done>>

\* Observer::fresh for one target: only its own context need be unchanged, so
\* another surface that offers it may or may not pass.
Guard ==
  /\ place = "guard"
  /\ \/ chosen \in Offers[surface] /\ place' = "act" /\ stale' = stale
     \/ surface # seen /\ Refresh
  /\ UNCHANGED <<surface, seen, before, chosen, decisions, strikes, rows, memoryVars, card, asked, consents, done>>

\* The action goes out, and may change what is shown; or its target is covered,
\* and nothing happened.
Act ==
  /\ place = "act" /\ surface' \in Surfaces
  /\ done' = [done EXCEPT ![chosen] = @ + 1]
  /\ typed' = <<>> /\ stale' = 0 /\ before' = seen /\ place' = "observe"
  /\ rows' = Append(rows, [kind |-> IF chosen \in Waits THEN "wait" ELSE "act", changed |-> "unread"])
  /\ UNCHANGED <<seen, chosen, decisions, strikes, approved, denied, handed, card, asked, consents>>

\* ObserveError::Uncertain: it may have happened, and is not tried again.
Uncertain ==
  /\ place = "act" /\ place' = "failed" /\ done' = [done EXCEPT ![chosen] = @ + 1]
  /\ UNCHANGED <<surface, seen, before, chosen, decisions, stale, strikes, rows, memoryVars, card, asked, consents>>

Covered ==
  /\ place = "act" /\ Refresh
  /\ UNCHANGED <<surface, seen, before, chosen, decisions, strikes, rows, memoryVars, card, asked, consents, done>>

-----------------------------------------------------------------------------
(* drive_with_cards, and Navigator::resume *)

\* Mutant of Resume: a resumed run starts its budget over.
ResumeMutant == decisions' = 0 /\ stale' = 0 /\ before' = NoSurface /\ place' = "observe" /\ card' = NoCard

Resume == decisions' = card.spent /\ stale' = 0 /\ before' = NoSurface /\ place' = "observe" /\ card' = NoCard

Approve ==
  /\ place = "card" /\ card.kind = "confirm" /\ Resume
  /\ approved' = card.pending /\ consents' = [consents EXCEPT ![card.pending] = @ + 1]
  /\ UNCHANGED <<surface, seen, chosen, strikes, rows, denied, handed, typed, asked, done>>

\* A no, a timeout, a cancelled card.
Deny ==
  /\ place = "card" /\ card.kind = "confirm" /\ Resume
  /\ denied' = denied \cup {card.pending}
  /\ rows' = Append(rows, [kind |-> "refused", changed |-> "no"])
  /\ UNCHANGED <<surface, seen, chosen, strikes, approved, handed, typed, asked, consents, done>>

\* The person is ready, or says what the field wants.
Reply ==
  /\ place = "card" /\ card.kind \in {"ready", "value"} /\ Resume
  /\ typed' = IF card.kind = "value" THEN card.field ELSE typed
  /\ UNCHANGED <<surface, seen, chosen, strikes, rows, approved, denied, handed, asked, consents, done>>

\* Nobody answers, or the card could not be raised.
Unanswered == place = "card" /\ Halt("blocked")

Answer == Approve \/ Deny \/ Reply \/ Unanswered

Look == Observe \/ Believe \/ Guard
Choose == JudgeEnd \/ JudgeNothing \/ \E id \in Identities, low, risky \in BOOLEAN : Judge(id, low, risky)
\* What the loop and its caller do.  Every await of theirs is bounded: Jev and the
\* text helper by their HTTP timeouts, a surface by its own deadlines, a card by its
\* deadline.
Work == Look \/ RunOut \/ HandOver \/ Choose \/ Help \/ Act \/ Covered \/ Answer

NavigatorNext == PageMoves \/ Work \/ Fail \/ Uncertain \/ Cancel

NavigatorSpec == NavigatorInit /\ [][NavigatorNext]_navVars

-----------------------------------------------------------------------------

\* A control whose label asks for a person's yes is executed at most once for
\* each yes given to it, over stale retries, pauses and approvals left unspent;
\* and what a person refused is not decided on again (Navigator::denied).
ConsentHolds ==
  /\ \A id \in Worded : done[id] <= consents[id]
  /\ place \in {"help", "guard", "act"} => chosen \notin denied

\* A run asks its judge at most MAX_DECISIONS times, however often it is paused
\* and resumed (ResumeToken::decisions).
BudgetSpansPauses == asked <= MaxDecisions

\* However the surface changes, a run that does not end is one that a person, told of
\* a wall and saying each time that it may go on, sends to another wall than the last,
\* for ever: the budgets bound all else it does (lib.rs:265-280, Navigator::handed_at).
EndsOrIsHandedOn == <>(place \in Halts) \/ []<><<HandOver /\ handed' # handed>>_navVars

\* lib.rs: "The token's only job is to keep an approval attached to the action it was
\* given for, and to stop a resumed run from starting its budget over."
TokensHold == ConsentHolds /\ BudgetSpansPauses
=============================================================================
