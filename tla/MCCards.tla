------------------------------ MODULE MCCards ------------------------------
(***************************************************************************)
(* The confirm broker with each of its surfaces: whoever may answer (the   *)
(* broker's own promises), the terminal's stack of cards, a webview.  Three*)
(* cards, so that one can settle in the middle of the terminal's queue; a  *)
(* webview keys its cards by id and has two.                               *)
(***************************************************************************)
EXTENDS CardTerminal, CardWindow

CONSTANTS pay, city, invoice   \* a payment to confirm, two questions to answer in words

VARIABLE surface   \* the one this behaviour is of

cardVars == <<brokerVars, terminalVars, windowVars, surface>>

CardsInit == TerminalInit /\ WindowInit /\ surface \in {"any", "terminal", "window"}

CardsNext ==
  /\ \/ surface = "any" /\ BrokerNext /\ UNCHANGED <<terminalVars, windowVars>>
     \/ surface = "terminal" /\ TerminalNext /\ UNCHANGED windowVars
     \/ surface = "window" /\ WindowNext /\ run'[invoice] = "before" /\ UNCHANGED terminalVars
  /\ UNCHANGED surface

CardsSpec == CardsInit /\ [][CardsNext]_cardVars /\ \A c \in Cards : WF_brokerVars(Waits(c))

\* Where the terminal is the surface that answers: a key or words meant for one card
\* never answer another.
TerminalAnswersWereMeant == surface = "terminal" => AnswersWereMeant

\* gates.ts: a surface must not "raise a card nothing is waiting on and leave it up
\* forever".  A card on the terminal's stack, or in the window, is one a run waits
\* on or is about to be taken down, outside the losses each of them names.
CardsOnScreenAreAttended ==
  /\ surface = "terminal" => StackedCardIsAttended
  /\ surface = "window" => ShownCardIsAttended

\* The types of the broker and of both surfaces.
CardsTypeOK == BrokerTypeOK /\ TerminalTypeOK /\ WindowTypeOK
=============================================================================
