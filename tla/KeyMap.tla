------------------------------- MODULE KeyMap -------------------------------
(***************************************************************************)
(* What a key store promises to the programs that share it: a map from     *)
(* items to secrets in which every step changes at most one item.          *)
(***************************************************************************)
CONSTANTS Items, Secrets, Missing

VARIABLE stored

Init == stored = [i \in Items |-> Missing]

Next == \E i \in Items, s \in Secrets \cup {Missing} : stored' = [stored EXCEPT ![i] = s]

Spec == Init /\ [][Next]_stored
=============================================================================
