-------------------------- MODULE WorkspaceRegistry --------------------------
(***************************************************************************)
(* Workspaces are created by `init` and `import`: each checks the          *)
(* placement file (the registry) and the roots it is about to make, and    *)
(* commits under a lock file beside the registry: it reads the registry    *)
(* again, makes or moves its roots, and replaces the registry with a text  *)
(* rendered from what it read.  What fails removes the roots it made.      *)
(***************************************************************************)
EXTENDS Naturals, FiniteSets

CONSTANTS Operations,      \* calls of initialize_workspace and import_workspace
          Importing,       \* the imports among them
          NameOf, RootsOf, \* the workspace each registers and its directories
          ConfigOf,        \* the placement file each uses
          Within,          \* <<inner, outer>>: directories inside one another
          MaxFaults,       \* bound on errors, interrupts and crashes
          None

Names == {NameOf[o] : o \in Operations}
Roots == UNION {RootsOf[o] : o \in Operations}
Configs == {ConfigOf[o] : o \in Operations}

ASSUME OperationAssumption ==
    /\ DOMAIN NameOf = Operations /\ DOMAIN RootsOf = Operations /\ DOMAIN ConfigOf = Operations
    /\ Importing \subseteq Operations
    /\ \A o \in Operations : RootsOf[o] # {} /\ (o \in Importing => Cardinality(RootsOf[o]) = 1)
ASSUME PlacementAssumption == Within \subseteq Roots \X Roots
ASSUME NoneAssumption == None \notin Operations
ASSUME BoundAssumption == MaxFaults \in Nat

VARIABLES registry,  \* [placement file][name]: the roots registered, {} for none
          lock,      \* placement file -> the operation holding its lock file
          dir,       \* directory -> the operation that made it
          op, faults

vars == <<registry, lock, dir, op, faults>>

Nothing == [n \in Names |-> {}]

(* read: the registry its text is rendered from; owned: the roots it will  *)
(* remove if it fails.                                                     *)
Idle == [at |-> "idle", read |-> Nothing, owned |-> {}]

Init ==
    /\ registry = [c \in Configs |-> Nothing]
    /\ lock = [c \in Configs |-> None]
    /\ dir = [r \in Roots |-> None]
    /\ op = [o \in Operations |-> Idle]
    /\ faults = 0

Ended == {"done", "refused", "failed", "left", "crashed"}

TypeOK ==
    /\ registry \in [Configs -> [Names -> SUBSET Roots]]
    /\ lock \in [Configs -> Operations \cup {None}]
    /\ dir \in [Roots -> Operations \cup {None}]
    /\ op \in [Operations -> [at: {"idle", "checked", "ready", "locked", "rendered", "making",
                                   "written", "unwinding", "cleaning"} \cup Ended,
                              read: [Names -> SUBSET Roots], owned: SUBSET Roots]]
    /\ faults \in 0..MaxFaults

-----------------------------------------------------------------------------
Registry(o) == registry[ConfigOf[o]]

(* Fault: only names are compared.                                         *)
ConflictsByName(o, known) == known[NameOf[o]] # {}

(* load_workspace_locations and render_workspace_registration refuse a     *)
(* registered name and the exact roots of another workspace.               *)
Conflicts(o, known) ==
    \/ known[NameOf[o]] # {}
    \/ \E n \in Names : known[n] \cap RootsOf[o] # {}

Exists(o) == \E r \in RootsOf[o] : dir[r] # None

(* The checks made before anything is written: a snapshot.                 *)
Check(o) ==
    /\ op[o].at = "idle"
    /\ op' = [op EXCEPT ![o].at = IF Conflicts(o, Registry(o)) \/ Exists(o)
                                  THEN "refused" ELSE "checked",
                        ![o].read = Registry(o)]
    /\ UNCHANGED <<registry, lock, dir, faults>>

(* An import extracts the package into a temporary directory beside the    *)
(* destination, and refuses another package than the one it verified; init *)
(* validates the configuration it generates.                               *)
Prepare(o) ==
    /\ op[o].at = "checked"
    /\ \/ op' = [op EXCEPT ![o].at = "ready"]
       \/ o \in Importing /\ op' = [op EXCEPT ![o].at = "failed"]
    /\ UNCHANGED <<registry, lock, dir, faults>>

(* FileLock beside the placement file.                                     *)
Acquire(o) ==
    /\ op[o].at = "ready"
    /\ lock[ConfigOf[o]] = None
    /\ lock' = [lock EXCEPT ![ConfigOf[o]] = o]
    /\ op' = [op EXCEPT ![o].at = "locked"]
    /\ UNCHANGED <<registry, dir, faults>>

(* The wait for the lock ends after 30 seconds.                            *)
TimeOut(o) ==
    /\ op[o].at = "ready"
    /\ lock[ConfigOf[o]] # None
    /\ op' = [op EXCEPT ![o].at = "failed"]
    /\ UNCHANGED <<registry, lock, dir, faults>>

(* Fault: the text is rendered from the snapshot of the first check.       *)
RenderSnapshot(o) ==
    /\ op[o].at = "locked"
    /\ op' = [op EXCEPT ![o].at = "rendered"]
    /\ UNCHANGED <<registry, lock, dir, faults>>

(* The registry is read again under the lock and its new text rendered.    *)
Render(o) ==
    /\ op[o].at = "locked"
    /\ op' = [op EXCEPT ![o].at = IF Conflicts(o, Registry(o)) THEN "unwinding" ELSE "rendered",
                        ![o].read = Registry(o)]
    /\ UNCHANGED <<registry, lock, dir, faults>>

(* Roots that exist by now are not touched; others are the operation's.    *)
(* An import owns its root only once it has moved it into place.           *)
Claim(o) ==
    /\ op[o].at = "rendered"
    /\ op' = [op EXCEPT ![o].at = IF Exists(o) THEN "unwinding" ELSE "making",
                        ![o].owned = IF Exists(o) \/ o \in Importing THEN {} ELSE RootsOf[o]]
    /\ UNCHANGED <<registry, lock, dir, faults>>

(* An import does not move its directory onto another.                     *)
Occupied(o, r) == o \in Importing /\ dir[r] # None

(* import: one directory move.  init: root by root, existing directories   *)
(* being accepted.                                                         *)
Make(o, r) ==
    /\ op[o].at = "making" /\ r \in RootsOf[o] /\ dir[r] # o
    /\ IF Occupied(o, r)
       THEN op' = [op EXCEPT ![o].at = "unwinding"] /\ dir' = dir
       ELSE /\ dir' = [dir EXCEPT ![r] = o]
            /\ op' = [op EXCEPT ![o].owned = RootsOf[o]]
    /\ UNCHANGED <<registry, lock, faults>>

(* Fault: the registry is written before the roots are in place.           *)
WriteFirst(o) ==
    /\ op[o].at = "making"
    /\ registry' = [registry EXCEPT ![ConfigOf[o]] = [op[o].read EXCEPT ![NameOf[o]] = RootsOf[o]]]
    /\ op' = [op EXCEPT ![o].at = IF \A r \in RootsOf[o] : dir[r] = o THEN "written" ELSE @]
    /\ UNCHANGED <<lock, dir, faults>>

(* The registry is replaced by the rendered text, atomically.              *)
Write(o) ==
    /\ op[o].at = "making" /\ \A r \in RootsOf[o] : dir[r] = o
    /\ registry' = [registry EXCEPT ![ConfigOf[o]] = [op[o].read EXCEPT ![NameOf[o]] = RootsOf[o]]]
    /\ op' = [op EXCEPT ![o].at = "written"]
    /\ UNCHANGED <<lock, dir, faults>>

Unlocked(o) == [lock EXCEPT ![ConfigOf[o]] = IF @ = o THEN None ELSE @]

Release(o) ==
    /\ op[o].at = "written"
    /\ lock' = Unlocked(o)
    /\ op' = [op EXCEPT ![o].at = "done"]
    /\ UNCHANGED <<registry, dir, faults>>

-----------------------------------------------------------------------------
Faulty == faults < MaxFaults /\ faults' = faults + 1

(* An error or interrupt before the registry is written.                   *)
Fail(o) ==
    /\ op[o].at \in {"checked", "ready", "locked", "rendered", "making"}
    /\ Faulty
    /\ op' = [op EXCEPT ![o].at = IF @ \in {"checked", "ready"} THEN "failed" ELSE "unwinding"]
    /\ UNCHANGED <<registry, lock, dir>>

(* An error or interrupt after it: the directory of the replaced file      *)
(* cannot be synchronized, or the operator interrupts before the end of    *)
(* the transaction.                                                        *)
FailLate(o) ==
    /\ op[o].at = "written"
    /\ Faulty
    /\ op' = [op EXCEPT ![o].at = "unwinding"]
    /\ UNCHANGED <<registry, lock, dir>>

(* The transaction releases the lock before the caller cleans up.          *)
Unwind(o) ==
    /\ op[o].at = "unwinding"
    /\ lock' = Unlocked(o)
    /\ op' = [op EXCEPT ![o].at = "cleaning"]
    /\ UNCHANGED <<registry, dir, faults>>

(* rmtree of the roots the operation owns, with everything inside; it may  *)
(* fail, which is only noted.                                              *)
CleanUp(o) ==
    /\ op[o].at = "cleaning"
    /\ LET gone == op[o].owned \cup {r \in Roots : \E s \in op[o].owned : <<r, s>> \in Within}
       IN  \/ /\ dir' = [r \in Roots |-> IF r \in gone THEN None ELSE dir[r]]
              /\ op' = [op EXCEPT ![o].at = "failed"]
           \/ /\ op[o].owned # {}
              /\ op' = [op EXCEPT ![o].at = "left"]
              /\ UNCHANGED dir
    /\ UNCHANGED <<registry, lock, faults>>

(* The process dies; the operating system releases its lock.               *)
Crash(o) ==
    /\ op[o].at \notin Ended \cup {"idle"}
    /\ Faulty
    /\ lock' = Unlocked(o)
    /\ op' = [op EXCEPT ![o].at = "crashed"]
    /\ UNCHANGED <<registry, dir>>

Step(o) == \/ Prepare(o) \/ Acquire(o) \/ TimeOut(o) \/ Render(o) \/ Claim(o)
           \/ (\E r \in Roots : Make(o, r))
           \/ Write(o) \/ Release(o) \/ Unwind(o) \/ CleanUp(o)

Next == \E o \in Operations : Check(o) \/ Step(o) \/ Fail(o) \/ FailLate(o) \/ Crash(o)

Spec == Init /\ [][Next]_vars

-----------------------------------------------------------------------------
(* No two workspaces of a placement file share a directory.                *)
RootsAreDisjoint ==
    \A c \in Configs : \A n, m \in Names :
        n # m => registry[c][n] \cap registry[c][m] = {}

(* However many operations commit at once, and whatever fails, no two      *)
(* registered workspaces share a directory (the conflict check under the   *)
(* lock), and every variable has its type.                                 *)
RegistryIsConsistent == TypeOK /\ RootsAreDisjoint

(* Concurrent operations never lose a registration: a registry only grows  *)
(* (the lock, and the second read under it).                               *)
RegistrationsAreKept ==
    [][\A c \in Configs, n \in Names :
          registry[c][n] # {} => registry'[c][n] = registry[c][n]]_vars

(* The directory r was made for the workspace n of the placement file c.   *)
MadeFor(r, c, n) == dir[r] # None /\ NameOf[dir[r]] = n /\ ConfigOf[dir[r]] = c

(* A registered workspace has its directories, made by the operation that  *)
(* registered it.                                                          *)
RegisteredRootsExist ==
    \A c \in Configs, n \in Names : \A r \in registry[c][n] : MadeFor(r, c, n)

(* Something else had to do with r: an operation that was to make it, or a *)
(* directory around it, failed and removed it; or a workspace of another   *)
(* placement file has it too.                                              *)
Disturbed(r, c) ==
    \E o \in Operations :
        \/ /\ op[o].at = "failed"
           /\ r \in RootsOf[o] \/ \E s \in RootsOf[o] : <<r, s>> \in Within
        \/ ConfigOf[o] # c /\ r \in RootsOf[o]

(* A registered workspace has its directories, unless they were disturbed; *)
(* an operation that failed and could clean up leaves no directory and no  *)
(* lock behind.                                                            *)
WorkspacesAreWhole ==
    /\ \A c \in Configs, n \in Names : \A r \in registry[c][n] :
          MadeFor(r, c, n) \/ Disturbed(r, c)
    /\ \A o \in Operations : op[o].at = "failed" =>
          lock[ConfigOf[o]] # o /\ \A r \in Roots : dir[r] # o

(* A directory is only ever removed by the operation that made it.         *)
OnlyOwnRootsRemoved ==
    [][\A r \in Roots : dir[r] # None /\ dir'[r] # dir[r] =>
          op[dir[r]].at = "cleaning" /\ op'[dir[r]].at = "failed"]_vars

(* render_workspace_registration adds "one new, non-overlapping workspace".*)
NoOverlap ==
    \A c \in Configs : \A n, m \in Names : n # m =>
        \A r \in registry[c][n], s \in registry[c][m] : <<r, s>> \notin Within
=============================================================================
