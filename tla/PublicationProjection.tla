----------------------- MODULE PublicationProjection ------------------------
(***************************************************************************)
(* The consumer-facing projections of one dataset: the latest pointer and  *)
(* the SQL views on disk, derived from the catalog after a publication has *)
(* been committed, and the rows that record their health.                  *)
(*                                                                         *)
(* A worker is a process that runs `publish` (commit, then refresh both    *)
(* projections) or `reconcile_publications` (refresh both projections).    *)
(* The commit is the atomic Publish of PublicationCatalog.  Nothing locks  *)
(* the files, and every query and every file write is a step of its own.   *)
(***************************************************************************)
EXTENDS PublicationCatalog

CONSTANTS Workers,
          Tables,       \* table keys of the dataset
          TablesOf,     \* the tables listed in the manifest of a build
          MaxFaults     \* bound on failed steps and crashes

ASSUME TablesAssumption ==
    /\ TablesOf \in [Builds -> SUBSET Tables]
    /\ \A b \in Builds : TablesOf[b] # {}
ASSUME FaultsAssumption == MaxFaults \in Nat

VARIABLES pointer,      \* publication named by latest/silver/<dataset>.json
          latestViews,  \* <<publication, table>> with a latest view file
          historyViews, \* publications listed by the history.sql of a table
          worker,
          overlapped,   \* history: a refresh has begun while another was going on
          faults

files == <<pointer, latestViews, historyViews>>
vars == <<catalogVars, files, worker, overlapped, faults>>

(* kind, expected: the projection being refreshed and the publication the  *)
(* caller expects it to show (None while a reconciler has still to read    *)
(* it); found: publications the refresh has read; left: tables whose view  *)
(* has still to be written; historyId: what to expect of the history       *)
(* projection afterwards.                                                  *)
Points == {"idle", "reading", "writing", "marking", "failed"}
Idle == [at |-> "idle", kind |-> "current", expected |-> None,
         found |-> {}, left |-> {}, historyId |-> None]

TypeOK ==
    /\ CatalogTypeOK
    /\ pointer \in MaybeBuild
    /\ latestViews \in SUBSET (Builds \X Tables)
    /\ historyViews \in [Tables -> SUBSET Builds]
    /\ worker \in [Workers -> [at: Points, kind: Kinds, expected: MaybeBuild,
                      found: SUBSET Builds, left: SUBSET Tables, historyId: MaybeBuild]]
    /\ overlapped \in BOOLEAN
    /\ faults \in 0..MaxFaults

Init ==
    /\ CatalogInit
    /\ pointer = None
    /\ latestViews = {}
    /\ historyViews = [t \in Tables |-> {}]
    /\ worker = [w \in Workers |-> Idle]
    /\ overlapped = FALSE
    /\ faults = 0

Entries(builds, t) == {b \in builds : t \in TablesOf[b]}
TablesShown(builds) == UNION {TablesOf[b] : b \in builds}

-----------------------------------------------------------------------------
Refresh(w, expectedCurrent, historyId) ==
    /\ worker' = [worker EXCEPT ![w] = [Idle EXCEPT !.at = "reading",
                      !.expected = expectedCurrent, !.historyId = historyId]]
    /\ overlapped' = (overlapped \/ \E v \in Workers : worker[v].at # "idle")

(* The publish command: the result of the commit carries the publication   *)
(* that is current after it.                                               *)
PublishThenRefresh(w, b) ==
    /\ worker[w].at = "idle"
    /\ Publish(b)
    /\ Refresh(w, OneOf(current'), b)
    /\ UNCHANGED <<files, faults>>

(* The publish command for a candidate that is already published: it reads *)
(* the existing result and refreshes the projections again.                *)
PublishAgain(w, b) ==
    /\ worker[w].at = "idle"
    /\ b \in Published
    /\ Refresh(w, FindCurrent, b)
    /\ UNCHANGED <<catalogVars, files, faults>>

(* Fault: only projections known to be stale are reconciled.               *)
ReconcileStaleOnly(w) ==
    /\ worker[w].at = "idle"
    /\ \E k \in Kinds : projection[k].status = "stale"
    /\ Refresh(w, FindCurrent, None)
    /\ UNCHANGED <<catalogVars, files, faults>>

(* reconcile: projections are skipped without a current publication.       *)
Reconcile(w) ==
    /\ worker[w].at = "idle"
    /\ FindCurrent # None
    /\ Refresh(w, FindCurrent, None)
    /\ UNCHANGED <<catalogVars, files, faults>>

-----------------------------------------------------------------------------
(* refresh_current and rebuild_history first query the publications.       *)
Read(w, found) ==
    /\ worker[w].at = "reading"
    /\ worker' = [worker EXCEPT ![w].at = "writing", ![w].found = found,
                                ![w].left = TablesShown(found)]
    /\ UNCHANGED <<catalogVars, files, overlapped, faults>>

ReadCurrent(w) == worker[w].kind = "current" /\ Read(w, {FindCurrent})

ReadActive(w) ==
    /\ worker[w].kind = "history"
    /\ worker[w].expected # None
    /\ Read(w, active)

(* A reconciler takes the expectation for the history from its state row.  *)
ReadHistoryExpected(w) ==
    /\ worker[w].at = "reading"
    /\ worker[w].expected = None
    /\ worker' = [worker EXCEPT ![w].expected = projection["history"].expected]
    /\ UNCHANGED <<catalogVars, files, overlapped, faults>>

(* One view file is replaced atomically; each publication has latest views *)
(* of its own, while the history view of a table is shared.  Tables are    *)
(* written in the order of their keys, which no property depends on.       *)
WriteView(w, t) ==
    LET r == worker[w] IN
    /\ r.at = "writing"
    /\ t \in r.left
    /\ IF r.kind = "current"
       THEN latestViews' = latestViews \cup (r.found \X {t}) /\ UNCHANGED historyViews
       ELSE historyViews' = [historyViews EXCEPT ![t] = Entries(r.found, t)]
            /\ UNCHANGED latestViews
    /\ worker' = [worker EXCEPT ![w].left = @ \ {t},
                     ![w].at = IF r.kind = "history" /\ r.left = {t} THEN "marking" ELSE @]
    /\ UNCHANGED <<catalogVars, pointer, overlapped, faults>>

(* Fault: the pointer is replaced before the views are complete.           *)
WritePointerEarly(w) ==
    LET r == worker[w] IN
    /\ r.at = "writing"
    /\ r.kind = "current"
    /\ pointer' = OneOf(r.found)
    /\ worker' = [worker EXCEPT ![w].at =
                      IF OneOf(r.found) = r.expected THEN "marking" ELSE "failed"]
    /\ UNCHANGED <<catalogVars, latestViews, historyViews, overlapped, faults>>

(* The pointer is replaced after the views; only then is the publication   *)
(* that was found compared with the expected one.                          *)
WritePointer(w) ==
    LET r == worker[w] IN
    /\ r.at = "writing"
    /\ r.kind = "current"
    /\ r.left = {}
    /\ pointer' = OneOf(r.found)
    /\ worker' = [worker EXCEPT ![w].at =
                      IF OneOf(r.found) = r.expected THEN "marking" ELSE "failed"]
    /\ UNCHANGED <<catalogVars, latestViews, historyViews, overlapped, faults>>

-----------------------------------------------------------------------------
(* The current projection is followed by the history projection, whatever  *)
(* became of it; after the history the process ends.                       *)
NextProjection(w) ==
    worker' = [worker EXCEPT ![w] =
        IF @.kind = "current"
        THEN [Idle EXCEPT !.at = "reading", !.kind = "history",
                          !.expected = worker[w].historyId]
        ELSE Idle]

RowMatches(r) == projection[r.kind].expected = r.expected

(* mark_synchronized updates the row only if it still expects the same     *)
(* publication; otherwise the refresh was superseded and fails.            *)
MarkSynchronized(w) ==
    LET r == worker[w] IN
    /\ r.at = "marking"
    /\ IF RowMatches(r)
       THEN /\ projection' = [projection EXCEPT ![r.kind] =
                   [@ EXCEPT !.status = "synchronized", !.projected = r.expected]]
            /\ NextProjection(w)
       ELSE /\ worker' = [worker EXCEPT ![w].at = "failed"]
            /\ UNCHANGED projection
    /\ UNCHANGED <<revision, active, current, supersedes, files, overlapped, faults>>

(* mark_stale, with the same condition; its outcome is not looked at.      *)
MarkStale(w) ==
    LET r == worker[w] IN
    /\ r.at = "failed"
    /\ projection' = IF RowMatches(r)
                     THEN [projection EXCEPT ![r.kind].status = "stale"]
                     ELSE projection
    /\ NextProjection(w)
    /\ UNCHANGED <<revision, active, current, supersedes, files, overlapped, faults>>

-----------------------------------------------------------------------------
Fault == faults < MaxFaults /\ faults' = faults + 1

(* An I/O or database error inside a refresh.                              *)
Fail(w) ==
    /\ worker[w].at \in {"reading", "writing", "marking"}
    /\ worker[w].expected # None
    /\ worker' = [worker EXCEPT ![w].at = "failed"]
    /\ Fault
    /\ UNCHANGED <<catalogVars, files, overlapped>>

(* Recording the failure fails as well, which is only logged.              *)
FailToMarkStale(w) ==
    /\ worker[w].at = "failed"
    /\ NextProjection(w)
    /\ Fault
    /\ UNCHANGED <<catalogVars, files, overlapped>>

Crash(w) ==
    /\ worker[w].at # "idle"
    /\ worker' = [worker EXCEPT ![w] = Idle]
    /\ Fault
    /\ UNCHANGED <<catalogVars, files, overlapped>>

-----------------------------------------------------------------------------
RefreshStep(w) ==
    \/ ReadCurrent(w) \/ ReadActive(w) \/ ReadHistoryExpected(w)
    \/ \E t \in Tables : WriteView(w, t)
    \/ WritePointer(w) \/ MarkSynchronized(w) \/ MarkStale(w)

Command(w) == Reconcile(w) \/ \E b \in Builds : PublishThenRefresh(w, b) \/ PublishAgain(w, b)

Next == \E w \in Workers :
    \/ Command(w) \/ RefreshStep(w)
    \/ Fail(w) \/ FailToMarkStale(w) \/ Crash(w)

Spec == Init /\ [][Next]_vars

(* A running process reaches its end, and someone runs the reconciliation  *)
(* again and again.                                                        *)
FairSpec ==
    /\ Spec
    /\ \A w \in Workers : WF_vars(RefreshStep(w)) /\ SF_vars(Reconcile(w))

-----------------------------------------------------------------------------
(* A reader who follows the pointer finds every view it promises, at any   *)
(* moment, also between two steps of a refresh and after a crash.          *)
PointerTargetsExist ==
    /\ pointer # None => {pointer} \X TablesOf[pointer] \subseteq latestViews
    /\ pointer \in Published \cup {None}

(* The files and the rows are well-formed and the pointer never dangles.   *)
FilesAreConsistent == TypeOK /\ PointerTargetsExist

(* A health row that says synchronized tells the truth: the pointer shows  *)
(* the expected publication.                                               *)
SynchronizedPointer ==
    projection["current"].status = "synchronized" =>
        pointer = projection["current"].expected

(* The same for the history projection: while it is synchronized, the view *)
(* of every table that is still published lists the active publications.   *)
SynchronizedHistory ==
    projection["history"].status = "synchronized" =>
        \A t \in TablesShown(active) : historyViews[t] = Entries(active, t)

(* Health is conservative whatever fails or dies, and whichever processes  *)
(* publish and reconcile, as long as no two of them refresh at once.       *)
HealthIsConservative == ~overlapped => SynchronizedPointer /\ SynchronizedHistory

(* While the history projection is synchronized no history view lists a    *)
(* superseded publication.                                                 *)
HistoryListsActiveOnly ==
    projection["history"].status = "synchronized" =>
        \A t \in Tables : historyViews[t] \subseteq active

(* Readers of the pointer never travel back in time, unless refreshes      *)
(* overlap: it moves to a later revision of its partition or to a          *)
(* partition that is not older.                                            *)
PointerNeverRegresses ==
    [][pointer # pointer' /\ pointer # None /\ ~overlapped =>
          /\ PeriodOf(pointer') >= PeriodOf(pointer)
          /\ PartitionOf[pointer'] = PartitionOf[pointer] =>
                revision[pointer'] > revision[pointer]]_vars

(* Whatever failed before, once publishing has stopped the repeated        *)
(* reconciliation leaves both projections correct, and recorded as such.   *)
EventuallyRepaired ==
    <>[](Published # {} =>
            /\ pointer = FindCurrent
            /\ \A t \in TablesShown(active) : historyViews[t] = Entries(active, t)
            /\ \A k \in Kinds : projection[k].status = "synchronized")

=============================================================================
