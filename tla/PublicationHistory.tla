------------------------- MODULE PublicationHistory -------------------------
(***************************************************************************)
(* What the catalog promises to the readers of one dataset, without locks, *)
(* candidates or transactions.  Every partition has a public history to    *)
(* which revisions are appended, never with the content it already has;    *)
(* the dataset shows the last revision of one partition, which no          *)
(* partition of a later period ever precedes.                              *)
(***************************************************************************)
EXTENDS Naturals, Sequences

CONSTANTS Builds, Partitions, PartitionOf, Period, Contents, None

VARIABLES history,  \* revisions of each partition, oldest first
          newest    \* the partition shown as current, None at first

vars == <<history, newest>>

Entry == [build: Builds, content: Contents]
BuildsOf(revisions) == {revisions[i].build : i \in DOMAIN revisions}

Init ==
    /\ history = [p \in Partitions |-> <<>>]
    /\ newest = None

AppendRevision(p, b, c) ==
    /\ b \notin BuildsOf(history[p])
    /\ history[p] # <<>> => history[p][Len(history[p])].content # c
    /\ history' = [history EXCEPT ![p] = Append(@, [build |-> b, content |-> c])]

Show(p) ==
    newest' = IF newest = None \/ Period[p] >= Period[newest] THEN p ELSE newest

Publish(b, c) == AppendRevision(PartitionOf[b], b, c) /\ Show(PartitionOf[b])

Next == \E b \in Builds, c \in Contents : Publish(b, c)

Spec == Init /\ [][Next]_vars

=============================================================================
