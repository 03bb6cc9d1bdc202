----------------------------- MODULE SharedSaves -----------------------------
(***************************************************************************)
(* What sharing saves promises, whatever devices do to keep it: per group  *)
(* one version that every peer may rely on. A save made on top of it is    *)
(* laid next to it, one at a time, and is then either withdrawn or becomes *)
(* the shared version, together with those it was uploaded with. No device,*)
(* lock, plan or journal appears here: CommitProtocol without faults       *)
(* implements it, the index being what is shared and the payload what is   *)
(* offered.                                                                *)
(***************************************************************************)
EXTENDS Naturals

CONSTANTS
    Group,      \* ownership groups of save files
    MaxEdits    \* bound: versions created by emulators

VARIABLES
    shared,     \* per group: the version peers are told of
    offered,    \* per group: the version laid in the remote payload
    past,       \* the versions each version was made on top of
    edits       \* versions made so far

vars == <<shared, offered, past, edits>>

Version == 0..MaxEdits

Init ==
    /\ shared = [g \in Group |-> 0] /\ offered = shared
    /\ past = [v \in Version |-> {}]
    /\ edits = 0

Pending == {g \in Group : offered[g] # shared[g]}

\* A save is made on top of any version there is.
Save ==
    /\ edits < MaxEdits
    /\ edits' = edits + 1
    /\ \E v \in 0..edits : past' = [past EXCEPT ![edits'] = past[v] \cup {v}]
    /\ UNCHANGED <<shared, offered>>

\* Only a save made on top of the shared one, and only if none is pending.
Offer ==
    /\ \E g \in Group \ Pending, v \in 1..edits :
          shared[g] \in past[v] /\ offered' = [offered EXCEPT ![g] = v]
    /\ UNCHANGED <<shared, past, edits>>

Withdraw ==
    /\ \E g \in Pending : offered' = [offered EXCEPT ![g] = shared[g]]
    /\ UNCHANGED <<shared, past, edits>>

\* One publication: its groups change together.
Publish ==
    /\ \E groups \in (SUBSET Pending) \ {{}} :
          shared' = [g \in Group |-> IF g \in groups THEN offered[g] ELSE shared[g]]
    /\ UNCHANGED <<offered, past, edits>>

Next == Save \/ Offer \/ Withdraw \/ Publish

Spec == Init /\ [][Next]_vars
=============================================================================
