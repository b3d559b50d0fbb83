----------------------- MODULE WorkspaceTransfer_proofs -----------------------
(***************************************************************************)
(* Proofs about workspaces, for any number of operations, placement files, *)
(* directories, exports and runs.                                          *)
(*                                                                         *)
(* The registry.  RegInv adds to the invariants what makes them inductive: *)
(* an operation between taking the lock and releasing it is the one the    *)
(* lock names, so the registry it read under the lock is still the         *)
(* registry when it writes, and still has no conflict with what it adds.   *)
(* The composition implements its registry: every step of it is a step of  *)
(* the registry or leaves its variables alone, so what is proved of the    *)
(* registry holds while packages are exported and imported beside it.      *)
(*                                                                         *)
(* The packages.  A package is what its manifest says and an import        *)
(* confirms only what it verified.  Together they give that what is        *)
(* installed is what was verified.                                         *)
(***************************************************************************)
EXTENDS WorkspaceTransfer, TLAPS

Critical == {"locked", "rendered", "making", "written", "unwinding"}

LockHeld == \A o \in Operations : op[o].at \in Critical => lock[ConfigOf[o]] = o

ReadIsCurrent ==
    \A o \in Operations : op[o].at \in {"rendered", "making"} =>
        op[o].read = Registry(o) /\ ~Conflicts(o, op[o].read)

RegInv == TypeOK /\ LockHeld /\ ReadIsCurrent /\ RootsAreDisjoint

States == {"idle", "checked", "ready", "locked", "rendered", "making", "written",
           "unwinding", "cleaning"} \cup Ended
Records == [at: States, read: [Names -> SUBSET Roots], owned: SUBSET Roots]

(* What the constants of an operation are.                                 *)
LEMMA OfOperation ==
    ASSUME NEW o \in Operations
    PROVE  /\ NameOf[o] \in Names /\ ConfigOf[o] \in Configs
           /\ RootsOf[o] \subseteq Roots /\ RootsOf[o] # {}
BY OperationAssumption DEF Names, Configs, Roots

LEMMA Initially == Init => RegInv
<1> SUFFICES ASSUME Init PROVE RegInv
  OBVIOUS
<1>1. TypeOK BY BoundAssumption DEF Init, TypeOK, Nothing, Idle
<1>2. LockHeld /\ ReadIsCurrent BY DEF Init, Idle, LockHeld, Critical, ReadIsCurrent
<1>3. RootsAreDisjoint BY DEF Init, Nothing, RootsAreDisjoint
<1> QED BY <1>1, <1>2, <1>3 DEF RegInv

(* The registry is replaced by the holder of its lock, with what it was,   *)
(* and one new workspace whose directories no other has.                   *)
LEMMA WriteAdds ==
    ASSUME RegInv, NEW o \in Operations, Write(o)
    PROVE  /\ registry' \in [Configs -> [Names -> SUBSET Roots]]
           /\ \A c \in Configs, n \in Names :
                 registry'[c][n] = IF c = ConfigOf[o] /\ n = NameOf[o] THEN RootsOf[o]
                                   ELSE registry[c][n]
           /\ ~Conflicts(o, Registry(o))
           /\ \A p \in Operations \ {o} :
                 op[p].at \in Critical => ConfigOf[p] # ConfigOf[o]
<1>1. op[o].read = Registry(o) /\ ~Conflicts(o, Registry(o))
  BY DEF RegInv, ReadIsCurrent, Write
<1>2. lock[ConfigOf[o]] = o
  BY DEF RegInv, LockHeld, Critical, Write
<1>3. \A p \in Operations \ {o} : op[p].at \in Critical => ConfigOf[p] # ConfigOf[o]
  BY <1>2 DEF RegInv, LockHeld
<1> DEFINE new == [Registry(o) EXCEPT ![NameOf[o]] = RootsOf[o]]
<1>4. registry \in [Configs -> [Names -> SUBSET Roots]] BY DEF RegInv, TypeOK
<1>5. new \in [Names -> SUBSET Roots]
  BY <1>4, OfOperation DEF Registry
<1>6. \A n \in Names : new[n] = IF n = NameOf[o] THEN RootsOf[o] ELSE registry[ConfigOf[o]][n]
  BY <1>4, OfOperation DEF Registry
<1>7. registry' = [registry EXCEPT ![ConfigOf[o]] = new]
  BY <1>1 DEF Write
<1> HIDE DEF new
<1>8. registry' \in [Configs -> [Names -> SUBSET Roots]]
  BY <1>4, <1>5, <1>7
<1>9. \A c \in Configs, n \in Names :
         registry'[c][n] = IF c = ConfigOf[o] /\ n = NameOf[o] THEN RootsOf[o] ELSE registry[c][n]
  BY <1>4, <1>6, <1>7, OfOperation
<1> QED BY <1>1, <1>3, <1>8, <1>9

(* Every other step leaves the registry alone.                             *)
LEMMA OthersKeepRegistry ==
    ASSUME [Next]_vars, \A o \in Operations : ~Write(o)
    PROVE  registry' = registry
<1>1. CASE UNCHANGED vars BY <1>1 DEF vars
<1>2. ASSUME NEW o \in Operations, Check(o) \/ Step(o) \/ Fail(o) \/ FailLate(o) \/ Crash(o)
      PROVE  registry' = registry
  BY <1>2 DEF Check, Step, Prepare, Acquire, TimeOut, Render, Claim, Make, Occupied,
     Release, Unwind,
     CleanUp, Fail, FailLate, Crash
<1> QED BY <1>1, <1>2 DEF Next

(* The states an operation may get, given a part of its record.            *)
LEMMA Updates ==
    ASSUME NEW rec \in Records, NEW at \in States, NEW read \in [Names -> SUBSET Roots],
           NEW owned \in SUBSET Roots
    PROVE  /\ [rec EXCEPT !.at = at] \in Records
           /\ [rec EXCEPT !.owned = owned] \in Records
           /\ [rec EXCEPT !.at = at, !.read = read] \in Records
           /\ [rec EXCEPT !.at = at, !.owned = owned] \in Records
BY DEF Records

(* What a step does to operations and locks: it changes the record of its  *)
(* operation; it enters the critical states only with the lock, and gives  *)
(* the lock up only when it leaves them; and it comes to the states that   *)
(* write only after it has read the registry.                              *)
Becomes(o, rec) ==
    /\ rec \in Records /\ op' = [op EXCEPT ![o] = rec]
    /\ \/ lock' = lock /\ (rec.at \in Critical => op[o].at \in Critical)
       \/ /\ lock[ConfigOf[o]] = None /\ lock' = [lock EXCEPT ![ConfigOf[o]] = o]
          /\ rec.at = "locked"
       \/ lock' = Unlocked(o) /\ rec.at \notin Critical
    /\ rec.at \in {"rendered", "making"} =>
          \/ rec.read = Registry(o) /\ ~Conflicts(o, Registry(o))
          \/ rec.read = op[o].read /\ op[o].at \in {"rendered", "making"}

LEMMA Effect ==
    ASSUME TypeOK, NEW o \in Operations,
           Check(o) \/ Step(o) \/ Fail(o) \/ FailLate(o) \/ Crash(o)
    PROVE  \E rec \in Records : Becomes(o, rec)
<1> DEFINE old == op[o]
<1>0. old \in Records /\ Registry(o) \in [Names -> SUBSET Roots]
  BY OfOperation DEF TypeOK, Records, States, Registry
<1>a. \A at \in States, read \in [Names -> SUBSET Roots], owned \in SUBSET Roots :
         /\ [old EXCEPT !.at = at] \in Records
         /\ [old EXCEPT !.owned = owned] \in Records
         /\ [old EXCEPT !.at = at, !.read = read] \in Records
         /\ [old EXCEPT !.at = at, !.owned = owned] \in Records
  BY <1>0, Updates
<1>b. RootsOf[o] \in SUBSET Roots /\ {} \in SUBSET Roots
  BY OfOperation
<1>c. op \in [Operations -> Records]
  BY DEF TypeOK, Records, States
<1>1. CASE Check(o)
  <2> DEFINE at == IF Conflicts(o, Registry(o)) \/ Exists(o) THEN "refused" ELSE "checked"
             rec == [old EXCEPT !.at = at, !.read = Registry(o)]
  <2>1. at \in States BY DEF States, Ended
  <2>2. rec \in Records BY <1>0, <1>a, <2>1
  <2>3. rec.at = at BY <1>0 DEF Records
  <2>4. Becomes(o, rec)
    <3>1. op' = [op EXCEPT ![o] = rec] BY <1>1 DEF Check
    <3> HIDE DEF rec
    <3> QED BY <1>1, <2>2, <2>3, <3>1 DEF Check, Becomes, Critical
  <2> QED BY <2>2, <2>4
<1>2. CASE Prepare(o)
  <2>1. PICK at \in {"ready", "failed"} : op' = [op EXCEPT ![o].at = at]
    BY <1>2 DEF Prepare
  <2> DEFINE rec == [old EXCEPT !.at = at]
  <2>2. rec \in Records BY <1>0, <1>a, <1>b DEF States, Ended
  <2>3. rec.at = at BY <1>0 DEF Records
  <2>4. Becomes(o, rec)
    <3>1. op' = [op EXCEPT ![o] = rec] BY <2>1
    <3> HIDE DEF rec
    <3> QED BY <1>2, <2>1, <2>2, <2>3, <3>1 DEF Prepare, Becomes, Critical
  <2> QED BY <2>2, <2>4
<1>3. CASE Acquire(o)
  <2> DEFINE rec == [old EXCEPT !.at = "locked"]
  <2>1. rec \in Records BY <1>0, <1>a, <1>b DEF States
  <2>2. rec.at = "locked" BY <1>0 DEF Records
  <2>3. Becomes(o, rec)
    <3>1. op' = [op EXCEPT ![o] = rec] BY <1>3 DEF Acquire
    <3> HIDE DEF rec
    <3> QED BY <1>3, <2>1, <2>2, <3>1 DEF Acquire, Becomes
  <2> QED BY <2>1, <2>3
<1>4. CASE TimeOut(o)
  <2> DEFINE rec == [old EXCEPT !.at = "failed"]
  <2>1. rec \in Records BY <1>0, <1>a, <1>b DEF States, Ended
  <2>2. rec.at = "failed" BY <1>0 DEF Records
  <2>3. Becomes(o, rec)
    <3>1. op' = [op EXCEPT ![o] = rec] BY <1>4 DEF TimeOut
    <3> HIDE DEF rec
    <3> QED BY <1>4, <2>1, <2>2, <3>1 DEF TimeOut, Becomes, Critical
  <2> QED BY <2>1, <2>3
<1>5. CASE Render(o)
  <2> DEFINE at == IF Conflicts(o, Registry(o)) THEN "unwinding" ELSE "rendered"
             rec == [old EXCEPT !.at = at, !.read = Registry(o)]
  <2>1. at \in States BY DEF States
  <2>2. rec \in Records BY <1>0, <1>a, <2>1
  <2>3. rec.at = at /\ rec.read = Registry(o) BY <1>0 DEF Records
  <2>4. Becomes(o, rec)
    <3>1. op' = [op EXCEPT ![o] = rec] BY <1>5 DEF Render
    <3> HIDE DEF rec
    <3> QED BY <1>5, <2>2, <2>3, <3>1 DEF Render, Becomes, Critical
  <2> QED BY <2>2, <2>4
<1>6. CASE Claim(o)
  <2> DEFINE at == IF Exists(o) THEN "unwinding" ELSE "making"
             owned == IF Exists(o) \/ o \in Importing THEN {} ELSE RootsOf[o]
             rec == [old EXCEPT !.at = at, !.owned = owned]
  <2>1. at \in States /\ owned \in SUBSET Roots BY <1>b DEF States
  <2>2. rec \in Records BY <1>0, <1>a, <1>b, <2>1
  <2>3. rec.at = at /\ rec.read = old.read BY <1>0 DEF Records
  <2>4. Becomes(o, rec)
    <3>1. op' = [op EXCEPT ![o] = rec] BY <1>6 DEF Claim
    <3> HIDE DEF rec
    <3> QED BY <1>6, <2>2, <2>3, <3>1 DEF Claim, Becomes, Critical
  <2> QED BY <2>2, <2>4
<1>7. ASSUME NEW r \in Roots, Make(o, r) PROVE \E rec \in Records : Becomes(o, rec)
  <2>1. CASE o \in Importing /\ dir[r] # None
    <3> DEFINE rec == [old EXCEPT !.at = "unwinding"]
    <3>1. rec \in Records BY <1>0, <1>a, <1>b DEF States
    <3>2. rec.at = "unwinding" BY <1>0 DEF Records
    <3>3. Becomes(o, rec)
      <4>1. op' = [op EXCEPT ![o] = rec] BY <1>7, <2>1 DEF Make, Occupied
      <4> HIDE DEF rec
      <4> QED BY <1>7, <2>1, <3>1, <3>2, <4>1 DEF Make, Occupied, Becomes, Critical
    <3> QED BY <3>1, <3>3
  <2>2. CASE ~(o \in Importing /\ dir[r] # None)
    <3> DEFINE rec == [old EXCEPT !.owned = RootsOf[o]]
    <3>1. rec \in Records BY <1>a, <1>b, <1>0 DEF Records
    <3>2. rec.at = old.at /\ rec.read = old.read BY <1>0 DEF Records
    <3>3. Becomes(o, rec)
      <4>1. op' = [op EXCEPT ![o] = rec] BY <1>7, <2>2 DEF Make, Occupied
      <4> HIDE DEF rec
      <4> QED BY <1>7, <2>2, <3>1, <3>2, <4>1 DEF Make, Occupied, Becomes, Critical
    <3> QED BY <3>1, <3>3
  <2> QED BY <2>1, <2>2
<1>8. CASE Write(o)
  <2> DEFINE rec == [old EXCEPT !.at = "written"]
  <2>1. rec \in Records BY <1>0, <1>a, <1>b DEF States
  <2>2. rec.at = "written" BY <1>0 DEF Records
  <2>3. Becomes(o, rec)
    <3>1. op' = [op EXCEPT ![o] = rec] BY <1>8 DEF Write
    <3> HIDE DEF rec
    <3> QED BY <1>8, <2>1, <2>2, <3>1 DEF Write, Becomes, Critical
  <2> QED BY <2>1, <2>3
<1>9. CASE Release(o)
  <2> DEFINE rec == [old EXCEPT !.at = "done"]
  <2>1. rec \in Records BY <1>0, <1>a, <1>b DEF States, Ended
  <2>2. rec.at = "done" BY <1>0 DEF Records
  <2>3. Becomes(o, rec)
    <3>1. op' = [op EXCEPT ![o] = rec] BY <1>9 DEF Release
    <3> HIDE DEF rec
    <3> QED BY <1>9, <2>1, <2>2, <3>1 DEF Release, Becomes, Critical
  <2> QED BY <2>1, <2>3
<1>10. CASE Unwind(o)
  <2> DEFINE rec == [old EXCEPT !.at = "cleaning"]
  <2>1. rec \in Records BY <1>0, <1>a, <1>b DEF States
  <2>2. rec.at = "cleaning" BY <1>0 DEF Records
  <2>3. Becomes(o, rec)
    <3>1. op' = [op EXCEPT ![o] = rec] BY <1>10 DEF Unwind
    <3> HIDE DEF rec
    <3> QED BY <1>10, <2>1, <2>2, <3>1 DEF Unwind, Becomes, Critical
  <2> QED BY <2>1, <2>3
<1>11. CASE CleanUp(o)
  <2>1. PICK at \in {"failed", "left"} : op' = [op EXCEPT ![o].at = at]
    BY <1>11 DEF CleanUp
  <2> DEFINE rec == [old EXCEPT !.at = at]
  <2>2. rec \in Records BY <1>0, <1>a, <1>b DEF States, Ended
  <2>3. rec.at = at BY <1>0 DEF Records
  <2>4. Becomes(o, rec)
    <3>1. op' = [op EXCEPT ![o] = rec] BY <2>1
    <3> HIDE DEF rec
    <3> QED BY <1>11, <2>1, <2>2, <2>3, <3>1 DEF CleanUp, Becomes, Critical
  <2> QED BY <2>2, <2>4
<1>12. CASE Fail(o)
  <2> DEFINE at == IF old.at \in {"checked", "ready"} THEN "failed" ELSE "unwinding"
             rec == [old EXCEPT !.at = at]
  <2>1. at \in States BY DEF States, Ended
  <2>2. rec \in Records BY <1>0, <1>a, <1>b, <2>1
  <2>3. rec.at = at BY <1>0 DEF Records
  <2>4. Becomes(o, rec)
    <3>1. op' = [op EXCEPT ![o] = rec] BY <1>12 DEF Fail
    <3> HIDE DEF rec
    <3> QED BY <1>12, <2>2, <2>3, <3>1 DEF Fail, Becomes, Critical
  <2> QED BY <2>2, <2>4
<1>13. CASE FailLate(o)
  <2> DEFINE rec == [old EXCEPT !.at = "unwinding"]
  <2>1. rec \in Records BY <1>0, <1>a, <1>b DEF States
  <2>2. rec.at = "unwinding" BY <1>0 DEF Records
  <2>3. Becomes(o, rec)
    <3>1. op' = [op EXCEPT ![o] = rec] BY <1>13 DEF FailLate
    <3> HIDE DEF rec
    <3> QED BY <1>13, <2>1, <2>2, <3>1 DEF FailLate, Becomes, Critical
  <2> QED BY <2>1, <2>3
<1>14. CASE Crash(o)
  <2> DEFINE rec == [old EXCEPT !.at = "crashed"]
  <2>1. rec \in Records BY <1>0, <1>a, <1>b DEF States, Ended
  <2>2. rec.at = "crashed" BY <1>0 DEF Records
  <2>3. Becomes(o, rec)
    <3>1. op' = [op EXCEPT ![o] = rec] BY <1>14 DEF Crash
    <3> HIDE DEF rec
    <3> QED BY <1>14, <2>1, <2>2, <3>1 DEF Crash, Becomes, Critical
  <2> QED BY <2>1, <2>3
<1> QED BY <1>1, <1>2, <1>3, <1>4, <1>5, <1>6, <1>7, <1>8, <1>9, <1>10, <1>11, <1>12, <1>13,
           <1>14 DEF Step

LEMMA TypePreserved == ASSUME RegInv, [Next]_vars PROVE TypeOK'
<1>1. CASE UNCHANGED vars BY <1>1 DEF vars, TypeOK, RegInv
<1>2. ASSUME NEW o \in Operations,
             Check(o) \/ Step(o) \/ Fail(o) \/ FailLate(o) \/ Crash(o)
      PROVE  TypeOK'
  <2>0. TypeOK BY DEF RegInv
  <2>1. PICK rec \in Records : Becomes(o, rec) BY <1>2, <2>0, Effect
  <2>2. op' \in [Operations -> Records]
    BY <2>0, <2>1 DEF Becomes, TypeOK, Records, States
  <2>3. lock' \in [Configs -> Operations \cup {None}]
    BY <2>0, <2>1, OfOperation DEF Becomes, TypeOK, Unlocked
  <2>4. registry' \in [Configs -> [Names -> SUBSET Roots]]
    <3>1. CASE Write(o) BY <3>1, WriteAdds
    <3>2. CASE ~Write(o)
      BY <1>2, <2>0, <3>2 DEF TypeOK, Check, Step, Prepare, Acquire, TimeOut, Render, Claim,
         Make, Release, Unwind, CleanUp, Fail, FailLate, Crash
    <3> QED BY <3>1, <3>2
  <2>5. dir' \in [Roots -> Operations \cup {None}]
    BY <1>2, <2>0 DEF TypeOK, Check, Step, Prepare, Acquire, TimeOut, Render, Claim,
       Make, Write, Release, Unwind, CleanUp, Fail, FailLate, Crash
  <2>6. faults' \in 0..MaxFaults
    BY <1>2, <2>0, BoundAssumption DEF TypeOK, Faulty, Check, Step, Prepare, Acquire, TimeOut,
       Render, Claim, Make, Write, Release, Unwind, CleanUp, Fail, FailLate, Crash
  <2> QED BY <2>2, <2>3, <2>4, <2>5, <2>6 DEF TypeOK, Records, States
<1> QED BY <1>1, <1>2 DEF Next

(* A lock is taken when it is free and given up only by its holder.        *)
LEMMA LockPreserved == ASSUME RegInv, [Next]_vars PROVE LockHeld'
<1>1. CASE UNCHANGED vars BY <1>1 DEF vars, LockHeld, RegInv
<1>2. ASSUME NEW o \in Operations,
             Check(o) \/ Step(o) \/ Fail(o) \/ FailLate(o) \/ Crash(o)
      PROVE  LockHeld'
  <2>1. PICK rec \in Records : Becomes(o, rec) BY <1>2, Effect DEF RegInv
  <2> SUFFICES ASSUME NEW p \in Operations, op'[p].at \in Critical
               PROVE  lock'[ConfigOf[p]] = p
    BY DEF LockHeld
  <2>2. op'[p] = IF p = o THEN rec ELSE op[p]
    BY <2>1 DEF Becomes, RegInv, TypeOK
  <2>3. op[p].at \in Critical => lock[ConfigOf[p]] = p
    BY DEF RegInv, LockHeld
  <2>4. CASE p = o
    BY <2>1, <2>2, <2>3, <2>4, OfOperation DEF Becomes, RegInv, TypeOK
  <2>5. CASE p # o
    <3>1. lock[ConfigOf[p]] = p BY <2>2, <2>3, <2>5
    <3> QED BY <2>1, <2>5, <3>1, OfOperation, NoneAssumption
            DEF Becomes, RegInv, TypeOK, Unlocked
  <2> QED BY <2>4, <2>5
<1> QED BY <1>1, <1>2 DEF Next

(* What an operation read under the lock stays true: another one can only  *)
(* write the registries it holds the lock of.                              *)
LEMMA ReadPreserved == ASSUME RegInv, [Next]_vars PROVE ReadIsCurrent'
<1>1. CASE UNCHANGED vars
  BY <1>1 DEF vars, RegInv, ReadIsCurrent, Registry, Conflicts
<1>2. ASSUME NEW o \in Operations,
             Check(o) \/ Step(o) \/ Fail(o) \/ FailLate(o) \/ Crash(o)
      PROVE  ReadIsCurrent'
  <2>1. PICK rec \in Records : Becomes(o, rec) BY <1>2, Effect DEF RegInv
  <2> SUFFICES ASSUME NEW p \in Operations, op'[p].at \in {"rendered", "making"}
               PROVE  /\ op'[p].read = registry'[ConfigOf[p]]
                      /\ ~Conflicts(p, op'[p].read)
    BY DEF ReadIsCurrent, Registry, Conflicts
  <2>2. op'[p] = IF p = o THEN rec ELSE op[p]
    BY <2>1 DEF Becomes, RegInv, TypeOK
  <2>3. op[p].at \in {"rendered", "making"} =>
           op[p].read = Registry(p) /\ ~Conflicts(p, op[p].read)
    BY DEF RegInv, ReadIsCurrent
  <2>4. CASE Write(o)
    <3>1. p # o
      BY <2>4 DEF Write, RegInv, TypeOK
    <3>2. ConfigOf[p] # ConfigOf[o]
      BY <2>2, <2>4, <3>1, WriteAdds DEF Critical
    <3>3. registry'[ConfigOf[p]] = registry[ConfigOf[p]]
      BY <2>4, <3>2, OfOperation DEF Write, RegInv, TypeOK
    <3> QED BY <2>2, <2>3, <3>1, <3>3 DEF Registry
  <2>5. CASE ~Write(o)
    <3>1. registry' = registry
      BY <1>2, <2>5 DEF Check, Step, Prepare, Acquire, TimeOut, Render, Claim,
         Make, Release, Unwind, CleanUp, Fail, FailLate, Crash
    <3>2. CASE p = o BY <2>1, <2>2, <2>3, <3>1, <3>2 DEF Becomes, Registry
    <3>3. CASE p # o BY <2>2, <2>3, <3>1, <3>3 DEF Registry
    <3> QED BY <3>2, <3>3
  <2> QED BY <2>4, <2>5
<1> QED BY <1>1, <1>2 DEF Next

LEMMA DisjointPreserved == ASSUME RegInv, [Next]_vars PROVE RootsAreDisjoint'
<1>1. CASE \A o \in Operations : ~Write(o)
  BY <1>1, OthersKeepRegistry DEF RegInv, RootsAreDisjoint
<1>2. ASSUME NEW o \in Operations, Write(o) PROVE RootsAreDisjoint'
  <2> SUFFICES ASSUME NEW c \in Configs, NEW n \in Names, NEW k \in Names, n # k
               PROVE  registry'[c][n] \cap registry'[c][k] = {}
    BY DEF RootsAreDisjoint
  <2>1. registry[c][n] \cap registry[c][k] = {} BY DEF RegInv, RootsAreDisjoint
  <2>2. CASE c # ConfigOf[o]
    BY <1>2, <2>1, <2>2, WriteAdds
  <2>3. CASE c = ConfigOf[o]
    <3>1. \A x \in Names : registry'[c][x] = IF x = NameOf[o] THEN RootsOf[o] ELSE registry[c][x]
      BY <1>2, <2>3, WriteAdds
    <3>2. \A x \in Names : registry[c][x] \cap RootsOf[o] = {}
      BY <1>2, <2>3, WriteAdds DEF Conflicts, Registry
    <3> QED BY <2>1, <3>1, <3>2
  <2> QED BY <2>2, <2>3
<1> QED BY <1>1, <1>2

(* The inductive invariant holds in every reachable state.                 *)
LEMMA Invariance == Spec => []RegInv
<1>1. RegInv /\ [Next]_vars => RegInv'
  BY TypePreserved, LockPreserved, ReadPreserved, DisjointPreserved DEF RegInv
<1> QED BY Initially, <1>1, PTL DEF Spec

(* Every variable keeps its type, for any number of operations.            *)
LEMMA TypeCorrect == Spec => []TypeOK
<1>1. RegInv => TypeOK BY DEF RegInv
<1> QED BY <1>1, Invariance, PTL

(* No two workspaces of a placement file get a directory in common,        *)
(* however many operations run at once and whatever fails.                 *)
LEMMA Disjointness == Spec => []RootsAreDisjoint
<1>1. RegInv => RootsAreDisjoint BY DEF RegInv
<1> QED BY <1>1, Invariance, PTL

(* Both together, as they are model-checked.                               *)
THEOREM RegistryIsConsistentCorrect == Spec => []RegistryIsConsistent
<1>1. RegInv => RegistryIsConsistent BY DEF RegInv, RegistryIsConsistent
<1> QED BY <1>1, Invariance, PTL

(* Between taking the lock and releasing it an operation is alone with its *)
(* placement file.                                                         *)
MutualExclusion ==
    \A o, p \in Operations :
        ConfigOf[o] = ConfigOf[p] /\ op[o].at \in Critical /\ op[p].at \in Critical => o = p

THEOREM Exclusion == Spec => []MutualExclusion
<1>1. RegInv => MutualExclusion BY DEF RegInv, LockHeld, MutualExclusion
<1> QED BY <1>1, Invariance, PTL

(* No registration is lost to a concurrent one, or to a failure.           *)
THEOREM Durability == Spec => RegistrationsAreKept
<1>1. RegInv /\ [Next]_vars =>
        [\A c \in Configs, n \in Names :
            registry[c][n] # {} => registry'[c][n] = registry[c][n]]_vars
  <2> SUFFICES ASSUME RegInv, [Next]_vars, NEW c \in Configs, NEW n \in Names,
                      registry[c][n] # {}
               PROVE  registry'[c][n] = registry[c][n]
    OBVIOUS
  <2>1. CASE \A o \in Operations : ~Write(o) BY <2>1, OthersKeepRegistry
  <2>2. ASSUME NEW o \in Operations, Write(o) PROVE registry'[c][n] = registry[c][n]
    <3>1. c = ConfigOf[o] => n # NameOf[o]
      BY <2>2, WriteAdds DEF Conflicts, Registry
    <3> QED BY <2>2, <3>1, WriteAdds
  <2> QED BY <2>1, <2>2
<1> QED BY <1>1, Invariance, PTL DEF Spec, RegistrationsAreKept

-----------------------------------------------------------------------------
(* The states before an operation may have made anything, and those of one *)
(* that has nothing left.                                                  *)
Bare == {"idle", "checked", "ready", "locked", "rendered", "refused", "failed"}

(* An operation owns the directories it made, and only roots of its own;   *)
(* a lock file is held by an operation that commits.                       *)
Ownership ==
    /\ \A o \in Operations : op[o].owned \subseteq RootsOf[o]
    /\ \A r \in Roots, o \in Operations :
          dir[r] = o => r \in op[o].owned /\ op[o].at \notin Bare
    /\ \A c \in Configs, o \in Operations :
          lock[c] = o => c = ConfigOf[o] /\ op[o].at \in Critical

Placed ==
    \A c \in Configs, n \in Names : \A r \in registry[c][n] : MadeFor(r, c, n) \/ Disturbed(r, c)

WholeInv == RegInv /\ Ownership /\ Placed

(* The operation o is at another point now, and owns what it owned.        *)
Shift(o, at) ==
    /\ op'[o].at = at /\ op'[o].owned = op[o].owned
    /\ \A p \in Operations \ {o} : op'[p] = op[p]
    /\ op[o].at \in {"failed", "refused"} => at = op[o].at

(* Its lock goes with the critical states.                                 *)
LockFollows(o, at) ==
    \/ lock' = lock /\ (op[o].at \in Critical => at \in Critical)
    \/ lock' = [lock EXCEPT ![ConfigOf[o]] = o] /\ at = "locked"
    \/ lock' = Unlocked(o)

MakesNothing(o) ==
    \/ Check(o) \/ Prepare(o) \/ Acquire(o) \/ TimeOut(o) \/ Render(o) \/ Write(o) \/ Release(o)
    \/ Unwind(o) \/ Fail(o) \/ FailLate(o) \/ Crash(o)

LEMMA Shifts ==
    ASSUME TypeOK, NEW o \in Operations, MakesNothing(o)
    PROVE  \E at \in States :
              /\ Shift(o, at) /\ LockFollows(o, at) /\ dir' = dir
              /\ op[o].at \notin Bare => at \notin Bare
<1>0. op \in [Operations -> Records]
  BY DEF TypeOK, Records, States
<1>1. CASE Check(o)
  <2> DEFINE at == IF Conflicts(o, Registry(o)) \/ Exists(o) THEN "refused" ELSE "checked"
  <2>1. op' = [op EXCEPT ![o].at = at, ![o].read = Registry(o)] /\ at \in {"refused", "checked"}
    BY <1>1 DEF Check
  <2>2. op[o].at = "idle" /\ lock' = lock /\ dir' = dir
    BY <1>1 DEF Check
  <2> HIDE DEF at
  <2>3. Shift(o, at)
    BY <1>0, <2>1, <2>2 DEF Records, Shift
  <2> QED
    BY <2>1, <2>2, <2>3 DEF LockFollows, Critical, Bare, States, Ended
<1>2. CASE Render(o)
  <2> DEFINE at == IF Conflicts(o, Registry(o)) THEN "unwinding" ELSE "rendered"
  <2>1. op' = [op EXCEPT ![o].at = at, ![o].read = Registry(o)] /\ at \in {"unwinding", "rendered"}
    BY <1>2 DEF Render
  <2>2. op[o].at = "locked" /\ lock' = lock /\ dir' = dir
    BY <1>2 DEF Render
  <2> HIDE DEF at
  <2>3. Shift(o, at)
    BY <1>0, <2>1, <2>2 DEF Records, Shift
  <2> QED
    BY <2>1, <2>2, <2>3 DEF LockFollows, Critical, Bare, States, Ended
<1>3. CASE Fail(o)
  <2> DEFINE at == IF op[o].at \in {"checked", "ready"} THEN "failed" ELSE "unwinding"
  <2>1. op' = [op EXCEPT ![o].at = at]
    BY <1>3 DEF Fail
  <2>2. /\ op[o].at \in {"checked", "ready", "locked", "rendered", "making"}
        /\ lock' = lock /\ dir' = dir
    BY <1>3 DEF Fail
  <2>3. at \in States /\ (op[o].at \in Critical => at \in Critical)
        /\ (op[o].at \notin Bare => at \notin Bare)
    BY <2>2 DEF States, Ended, Critical, Bare
  <2> HIDE DEF at
  <2>4. Shift(o, at)
    BY <1>0, <2>1, <2>2 DEF Records, Shift
  <2> QED
    BY <2>2, <2>3, <2>4 DEF LockFollows
<1>4. CASE Prepare(o)
  <2>1. PICK at \in {"ready", "failed"} : op' = [op EXCEPT ![o].at = at]
    BY <1>4 DEF Prepare
  <2>2. op[o].at = "checked" /\ lock' = lock /\ dir' = dir
    BY <1>4 DEF Prepare
  <2>3. Shift(o, at)
    BY <1>0, <2>1, <2>2 DEF Records, Shift
  <2> QED
    BY <2>1, <2>2, <2>3 DEF LockFollows, Critical, Bare, States, Ended
<1>6. CASE Acquire(o)
  <2>1. Shift(o, "locked")
    BY <1>0, <1>6 DEF Acquire, Records, Shift
  <2> QED
    BY <1>6, <2>1 DEF Acquire, LockFollows, Bare, States
<1>7. CASE TimeOut(o)
  <2>1. Shift(o, "failed")
    BY <1>0, <1>7 DEF TimeOut, Records, Shift
  <2> QED
    BY <1>7, <2>1 DEF TimeOut, LockFollows, Critical, Bare, States, Ended
<1>5. CASE Write(o) \/ Release(o) \/ Unwind(o) \/ FailLate(o) \/ Crash(o)
  <2>1. PICK at \in {"written", "done", "cleaning", "unwinding", "crashed"} :
          /\ op' = [op EXCEPT ![o].at = at] /\ op[o].at \notin {"failed", "refused"} /\ dir' = dir
          /\ \/ lock' = lock /\ at \in Critical
             \/ lock' = Unlocked(o)
    BY <1>5 DEF Write, Release, Unwind, FailLate, Crash, Critical, Ended
  <2>2. Shift(o, at)
    BY <1>0, <2>1 DEF Records, Shift
  <2> QED
    BY <2>1, <2>2 DEF LockFollows, Bare, States, Ended
<1> QED
  BY <1>1, <1>2, <1>3, <1>4, <1>5, <1>6, <1>7 DEF MakesNothing

LEMMA LockOwned ==
    ASSUME TypeOK, Ownership, NEW o \in Operations, NEW at \in States, op'[o].at = at,
           \A p \in Operations \ {o} : op'[p] = op[p], LockFollows(o, at)
    PROVE  \A c \in Configs, p \in Operations :
              lock'[c] = p => c = ConfigOf[p] /\ op'[p].at \in Critical
<1>1. CASE lock' = lock /\ (op[o].at \in Critical => at \in Critical)
  BY <1>1 DEF Ownership
<1>2. CASE lock' = [lock EXCEPT ![ConfigOf[o]] = o] /\ at = "locked"
  BY <1>2, OfOperation DEF Ownership, TypeOK, Critical
<1>3. CASE lock' = Unlocked(o)
  BY <1>3, OfOperation, NoneAssumption DEF Ownership, TypeOK, Unlocked
<1> QED
  BY <1>1, <1>2, <1>3 DEF LockFollows

LEMMA OwnershipPreserved ==
    ASSUME RegInv, Ownership, [Next]_vars
    PROVE  Ownership'
<1>0. op \in [Operations -> Records] /\ TypeOK
  BY DEF RegInv, TypeOK, Records, States
<1>1. CASE UNCHANGED vars
  BY <1>1 DEF vars, Ownership
<1>2. ASSUME NEW o \in Operations, MakesNothing(o) PROVE Ownership'
  <2>1. PICK at \in States :
            /\ Shift(o, at) /\ LockFollows(o, at) /\ dir' = dir
            /\ op[o].at \notin Bare => at \notin Bare
    BY <1>0, <1>2, Shifts
  <2> QED
    BY <1>0, <2>1, LockOwned DEF Ownership, Shift
<1>3. ASSUME NEW o \in Operations, Claim(o) PROVE Ownership'
  <2> DEFINE at == IF Exists(o) THEN "unwinding" ELSE "making"
             owned == IF Exists(o) \/ o \in Importing THEN {} ELSE RootsOf[o]
  <2>1. op' = [op EXCEPT ![o].at = at, ![o].owned = owned] /\ op[o].at = "rendered"
        /\ lock' = lock /\ dir' = dir
    BY <1>3 DEF Claim
  <2>2. at \in {"unwinding", "making"} /\ owned \subseteq RootsOf[o]
    OBVIOUS
  <2> HIDE DEF at, owned
  <2>3. op'[o].at = at /\ op'[o].owned = owned /\ \A p \in Operations \ {o} : op'[p] = op[p]
    BY <1>0, <2>1 DEF Records
  <2> QED
    BY <2>1, <2>2, <2>3 DEF Ownership, Critical, Bare
<1>4. ASSUME NEW o \in Operations, NEW r \in Roots, Make(o, r) PROVE Ownership'
  <2>1. CASE o \in Importing /\ dir[r] # None
    <3>1. op' = [op EXCEPT ![o].at = "unwinding"] /\ op[o].at = "making" /\ lock' = lock
          /\ dir' = dir
      BY <1>4, <2>1 DEF Make, Occupied
    <3>2. op'[o].at = "unwinding" /\ op'[o].owned = op[o].owned
          /\ \A p \in Operations \ {o} : op'[p] = op[p]
      BY <1>0, <3>1 DEF Records
    <3> QED
      BY <3>1, <3>2 DEF Ownership, Critical, Bare
  <2>2. CASE ~ (o \in Importing /\ dir[r] # None)
    <3>1. op' = [op EXCEPT ![o].owned = RootsOf[o]] /\ op[o].at = "making" /\ lock' = lock
          /\ dir' = [dir EXCEPT ![r] = o] /\ r \in RootsOf[o]
      BY <1>4, <2>2 DEF Make, Occupied
    <3>2. op'[o].at = "making" /\ op'[o].owned = RootsOf[o]
          /\ \A p \in Operations \ {o} : op'[p] = op[p]
      BY <1>0, <3>1 DEF Records
    <3> QED
      BY <1>0, <3>1, <3>2 DEF Ownership, Critical, Bare, TypeOK
  <2> QED
    BY <2>1, <2>2
<1>5. ASSUME NEW o \in Operations, CleanUp(o) PROVE Ownership'
  <2>1. PICK at \in {"failed", "left"} :
          /\ op' = [op EXCEPT ![o].at = at]
          /\ op[o].at = "cleaning" /\ lock' = lock
          /\ \A r \in Roots : dir'[r] \in {dir[r], None}
          /\ at = "failed" => \A r \in op[o].owned \cap Roots : dir'[r] = None
    BY <1>0, <1>5 DEF CleanUp, TypeOK
  <2>2. op'[o].at = at /\ op'[o].owned = op[o].owned
        /\ \A p \in Operations \ {o} : op'[p] = op[p]
    BY <1>0, <2>1 DEF Records
  <2>3. \A r \in Roots, p \in Operations :
           dir'[r] = p => dir[r] = p /\ (p = o => at = "left")
    BY <2>1, NoneAssumption DEF Ownership
  <2>4. \A r \in Roots, p \in Operations :
           dir'[r] = p => r \in op'[p].owned /\ op'[p].at \notin Bare
    BY <2>2, <2>3 DEF Ownership, Bare
  <2> QED
    BY <2>1, <2>2, <2>4 DEF Ownership, Critical
<1> QED
  BY <1>1, <1>2, <1>3, <1>4, <1>5 DEF Next, Step, MakesNothing

(* What disturbed a directory has done so for ever.                        *)
LEMMA DisturbedForEver ==
    ASSUME RegInv, [Next]_vars, NEW r \in Roots, NEW c \in Configs, Disturbed(r, c)
    PROVE  Disturbed(r, c)'
<1>1. \A o \in Operations : op[o].at = "failed" => op'[o].at = "failed"
  <2> SUFFICES ASSUME NEW o \in Operations, op[o].at = "failed" PROVE op'[o].at = "failed"
    OBVIOUS
  <2>1. CASE UNCHANGED vars
    BY <2>1 DEF vars
  <2>2. ASSUME NEW p \in Operations, Check(p) \/ Step(p) \/ Fail(p) \/ FailLate(p) \/ Crash(p)
        PROVE  op'[o].at = "failed"
    <3>1. p # o
      BY <2>2 DEF Check, Step, Prepare, Acquire, TimeOut, Render, Claim, Make, Occupied,
         Write, Release,
         Unwind, CleanUp, Fail, FailLate, Crash, Ended
    <3>2. PICK rec \in Records : Becomes(p, rec)
      BY <2>2, Effect DEF RegInv
    <3> QED
      BY <3>1, <3>2 DEF Becomes, RegInv, TypeOK
  <2> QED
    BY <2>1, <2>2 DEF Next
<1> QED
  BY <1>1 DEF Disturbed

LEMMA PlacedPreserved ==
    ASSUME WholeInv, [Next]_vars
    PROVE  Placed'
<1>0. TypeOK
  BY DEF WholeInv, RegInv
<1>1. CASE \A o \in Operations : ~ Write(o) /\ ~ CleanUp(o) /\ \A r \in Roots : ~ Make(o, r)
  <2>1. registry' = registry
    BY <1>1, OthersKeepRegistry DEF WholeInv
  <2>2. dir' = dir
    BY <1>1 DEF Next, vars, Step, Check, Prepare, Acquire, TimeOut, Render, Claim, Release,
       Unwind, Fail, FailLate, Crash
  <2>3. \A c \in Configs, n \in Names : registry[c][n] \subseteq Roots
    BY <1>0 DEF TypeOK
  <2> QED
    BY <2>1, <2>2, <2>3, DisturbedForEver DEF WholeInv, Placed, MadeFor
<1>2. ASSUME NEW o \in Operations, Write(o) PROVE Placed'
  <2>1. dir' = dir /\ \A r \in RootsOf[o] : dir[r] = o
    BY <1>2 DEF Write
  <2>2. \A c \in Configs, n \in Names : registry[c][n] \subseteq Roots
    BY <1>0 DEF TypeOK
  <2>3. \A r \in RootsOf[o] : MadeFor(r, ConfigOf[o], NameOf[o])'
    BY <2>1, NoneAssumption DEF MadeFor
  <2> QED
    BY <1>2, <2>1, <2>2, <2>3, WriteAdds, DisturbedForEver DEF WholeInv, Placed, MadeFor
<1>3. ASSUME NEW o \in Operations, NEW s \in Roots, Make(o, s) PROVE Placed'
  <2>1. registry' = registry /\ op[o].at = "making" /\ s \in RootsOf[o]
        /\ \A r \in Roots : dir'[r] = dir[r] \/ r = s
    BY <1>0, <1>3 DEF Make, Occupied, TypeOK
  <2>2. \A n \in Names : s \notin registry[ConfigOf[o]][n]
    BY <2>1 DEF WholeInv, RegInv, ReadIsCurrent, Conflicts, Registry
  <2>3. \A c \in Configs : c # ConfigOf[o] => Disturbed(s, c)'
    BY <2>1 DEF Disturbed
  <2>4. \A c \in Configs, n \in Names : registry[c][n] \subseteq Roots
    BY <1>0 DEF TypeOK
  <2> QED
    BY <2>1, <2>2, <2>3, <2>4, DisturbedForEver DEF WholeInv, Placed, MadeFor
<1>4. ASSUME NEW o \in Operations, CleanUp(o) PROVE Placed'
  <2>1. registry' = registry /\ op[o].owned \subseteq RootsOf[o]
    BY <1>4 DEF CleanUp, WholeInv, Ownership
  <2>2. \A r \in Roots, c \in Configs : dir'[r] = dir[r] \/ Disturbed(r, c)'
    <3>1. CASE dir' = dir
      BY <3>1
    <3>2. CASE op' = [op EXCEPT ![o].at = "failed"]
      <4>1. op'[o].at = "failed"
        BY <1>0, <3>2 DEF TypeOK
      <4>2. \A r \in Roots : \/ dir'[r] = dir[r]
                             \/ r \in op[o].owned \/ \E s \in op[o].owned : <<r, s>> \in Within
        BY <1>4 DEF CleanUp
      <4> QED
        BY <2>1, <4>1, <4>2 DEF Disturbed
    <3> QED
      BY <1>4, <3>1, <3>2 DEF CleanUp
  <2>3. \A c \in Configs, n \in Names : registry[c][n] \subseteq Roots
    BY <1>0 DEF TypeOK
  <2> QED
    BY <2>1, <2>2, <2>3, DisturbedForEver DEF WholeInv, Placed, MadeFor
<1> QED
  BY <1>1, <1>2, <1>3, <1>4

LEMMA WholeInitially == Init => WholeInv
<1>1. Init => RegInv
  BY Initially
<1>2. Init => Ownership /\ Placed
  BY NoneAssumption DEF Init, Idle, Nothing, Ownership, Placed
<1> QED
  BY <1>1, <1>2 DEF WholeInv

LEMMA WholeInduction == WholeInv /\ [Next]_vars => WholeInv'
BY TypePreserved, LockPreserved, ReadPreserved, DisjointPreserved, OwnershipPreserved,
   PlacedPreserved DEF WholeInv, RegInv

(* Directories outlive their registration: what `init` and `import` have   *)
(* registered stays in place, except for the failures named in Disturbed,  *)
(* and a failed operation leaves neither its lock nor a directory.         *)
THEOREM WorkspacesAreWholeCorrect == Spec => []WorkspacesAreWhole
<1>1. WholeInv => WorkspacesAreWhole
  <2> SUFFICES ASSUME WholeInv PROVE WorkspacesAreWhole
    OBVIOUS
  <2>1. \A o \in Operations : op[o].at = "failed" =>
          lock[ConfigOf[o]] # o /\ \A r \in Roots : dir[r] # o
    BY OfOperation DEF WholeInv, Ownership, Critical, Bare
  <2> QED
    BY <2>1 DEF WholeInv, Placed, WorkspacesAreWhole
<1> QED
  BY <1>1, WholeInitially, WholeInduction, PTL DEF Spec

-----------------------------------------------------------------------------
(* The composition implements its registry.                                *)
LEMMA StepRefines == ASSUME TransferNext PROVE [Next]_vars
<1>1. ASSUME NEW o \in Importing, VerifyPackage(o) PROVE UNCHANGED vars
  BY <1>1 DEF VerifyPackage
<1>2. ASSUME NEW o \in Operations, Prepare(o) PROVE Next
  BY <1>2 DEF Next, Step
<1>3. ASSUME NEW o \in Importing, ExtractPackage(o) PROVE Prepare(o) \/ UNCHANGED vars
  BY <1>3 DEF ExtractPackage
<1>4. ASSUME NEW o \in Importing, ConfirmPackage(o) PROVE Prepare(o)
  BY <1>4 DEF ConfirmPackage
<1>5. ASSUME NEW o \in Operations,
             CheckDestination(o) \/ PrepareWorkspace(o) \/ Commit(o) \/ Break(o)
      PROVE  Next
  BY <1>5 DEF CheckDestination, PrepareWorkspace, Commit, Break, Next, Step
<1>6. Importing \subseteq Operations BY OperationAssumption
<1> QED BY <1>1, <1>2, <1>3, <1>4, <1>5, <1>6 DEF TransferNext

(* Every behavior of the composition is one of the registry.               *)
THEOREM TransferImplementsRegistry == TransferSpec => Spec
<1>1. TransferInit => Init BY DEF TransferInit
<1>2. [TransferNext]_transfer => [Next]_vars
  BY StepRefines DEF transfer
<1> QED BY <1>1, <1>2, PTL DEF TransferSpec, Spec

(* However imports verify, extract and confirm packages meanwhile, no two  *)
(* registered workspaces share a directory.                                *)
THEOREM TransferRegistryIsConsistent == TransferSpec => []RegistryIsConsistent
BY TransferImplementsRegistry, RegistryIsConsistentCorrect, PTL

(* Registered workspaces keep their directories, but for disturbances.     *)
THEOREM TransferWorkspacesAreWhole == TransferSpec => []WorkspacesAreWhole
BY TransferImplementsRegistry, WorkspacesAreWholeCorrect, PTL

(* No registration is lost while packages are exported and imported.       *)
THEOREM TransferRegistrationsAreKept == TransferSpec => RegistrationsAreKept
BY TransferImplementsRegistry, Durability, PTL

-----------------------------------------------------------------------------
(* The packages: their invariant and its preservation by every step.       *)
(* A package at the destination is sound and its export has ended, so an   *)
(* export never publishes twice.                                           *)
Sound(p) == p \in Packages!AllPackages /\ Packages!Intact(p) /\ export[p.by].at = "done"

PackageIsSound == package # None => Sound(package)

VerifiedIsSound ==
    \A e \in Exporters : export[e].at = "verified" => Packages!Intact(Packages!Package(e))

(* What an import verified was a package at the destination once, and what *)
(* it extracted from that package are the files of the package.            *)
ImportIsSound ==
    \A i \in Importing :
        /\ import[i].at \in {"verified", "extracted", "confirmed"} =>
              Sound(import[i].verified) /\ Sound(package)
        /\ import[i].at = "extracted" /\ package = import[i].verified =>
              import[i].files = package.zip
        /\ import[i].at = "confirmed" => import[i].files = import[i].verified.manifest

PackagesInv == Packages!TypeOK /\ PackageIsSound /\ VerifiedIsSound /\ ImportIsSound

ImportNext(i) == Packages!VerifyImport(i) \/ Packages!Extract(i) \/ Packages!Confirm(i)
PackagesNext == \/ \E e \in Exporters : Packages!ExportStep(e)
                \/ \E v \in Runs : Packages!RunStep(v)
                \/ \E i \in Importing : ImportNext(i)

-----------------------------------------------------------------------------
ExportStates == {"idle", "collecting", "packing", "verified", "done", "refused", "failed"}
ExportRecords == [at: ExportStates, todo: SUBSET Packages!Exported,
                  manifest: Packages!Contents, zip: Packages!Contents]
ImportStates == {"idle", "verified", "extracted", "confirmed", "failed"}
ImportRecords == [at: ImportStates, verified: Packages!AllPackages \cup {None},
                  files: Packages!Contents]

LEMMA EmptyIsContents == Packages!Empty \in Packages!Contents
BY DEF Packages!Empty, Packages!Contents, Packages!Versions

LEMMA PackagesInitially == Packages!Init => PackagesInv
<1> SUFFICES ASSUME Packages!Init PROVE PackagesInv
  OBVIOUS
<1>1. Packages!TypeOK
  BY EmptyIsContents DEF Packages!Init, Packages!TypeOK
<1>2. PackageIsSound /\ VerifiedIsSound /\ ImportIsSound
  BY DEF Packages!Init, PackageIsSound, VerifiedIsSound, ImportIsSound
<1> QED
  BY <1>1, <1>2 DEF PackagesInv

(* A step of an export that puts nothing in place: the others, and what    *)
(* has been put in place, stay as they are.                                *)
LEMMA ExportChanges ==
    ASSUME PackagesInv, NEW e \in Exporters, NEW rec \in ExportRecords,
           export' = [export EXCEPT ![e] = rec], export[e].at # "done",
           rec.at # "done", rec.at = "verified" => rec.zip = rec.manifest,
           UNCHANGED <<data, writing, package, import>>
    PROVE  PackagesInv'
<1>1. export' \in [Exporters -> ExportRecords] /\ export \in [Exporters -> ExportRecords]
  BY DEF PackagesInv, Packages!TypeOK, ExportRecords, ExportStates
<1>2. Packages!TypeOK'
  BY <1>1 DEF PackagesInv, Packages!TypeOK, ExportRecords, ExportStates
<1>3. \A p : Sound(p) => Sound(p)'
  BY <1>1 DEF Sound, Packages!AllPackages, Packages!Intact
<1>4. PackageIsSound' /\ ImportIsSound'
  BY <1>3 DEF PackagesInv, PackageIsSound, ImportIsSound
<1>5. VerifiedIsSound'
  BY <1>1 DEF PackagesInv, VerifiedIsSound, Packages!Intact, Packages!Package
<1> QED
  BY <1>2, <1>4, <1>5 DEF PackagesInv

LEMMA ExportTyped ==
    ASSUME PackagesInv, NEW e \in Exporters
    PROVE  /\ export[e] \in ExportRecords
           /\ \A f \in Files : data[f] \in Packages!Versions
           /\ \A f \in Files, m \in Packages!Contents :
                  [m EXCEPT ![f] = data[f]] \in Packages!Contents
<1>1. data \in Packages!Contents
  BY DEF PackagesInv, Packages!TypeOK
<1> QED
  BY <1>1 DEF PackagesInv, Packages!TypeOK, ExportRecords, ExportStates, Packages!Contents

LEMMA BeginExportStep ==
    ASSUME PackagesInv, NEW e \in Exporters, Packages!BeginExport(e)
    PROVE  PackagesInv'
<1> DEFINE rec == [export[e] EXCEPT
               !.at = IF Packages!Markers = {} THEN "collecting" ELSE "refused",
               !.todo = Packages!Exported]
<1>1. rec \in ExportRecords /\ rec.at \in {"collecting", "refused"}
  BY ExportTyped DEF ExportRecords, ExportStates
<1>2. export' = [export EXCEPT ![e] = rec] /\ export[e].at = "idle"
      /\ UNCHANGED <<data, writing, package, import>>
  BY DEF Packages!BeginExport
<1> HIDE DEF rec
<1> QED
  BY <1>1, <1>2, ExportChanges

LEMMA CollectStep ==
    ASSUME PackagesInv, NEW e \in Exporters, NEW f \in Files, Packages!Collect(e, f)
    PROVE  PackagesInv'
<1> DEFINE new == [export[e].manifest EXCEPT ![f] = data[f]]
           rec == [export[e] EXCEPT !.todo = @ \ {f}, !.manifest = new]
<1>0. export[e] \in ExportRecords /\ new \in Packages!Contents
  BY ExportTyped DEF ExportRecords
<1>2. export' = [export EXCEPT ![e] = rec] /\ export[e].at = "collecting"
      /\ UNCHANGED <<data, writing, package, import>>
  BY DEF Packages!Collect
<1> HIDE DEF new
<1>1. rec \in ExportRecords /\ rec.at = export[e].at
  BY <1>0 DEF ExportRecords, ExportStates
<1> HIDE DEF rec
<1> QED
  BY <1>1, <1>2, ExportChanges

LEMMA BeginPackageStep ==
    ASSUME PackagesInv, NEW e \in Exporters, Packages!BeginPackage(e)
    PROVE  PackagesInv'
<1> DEFINE at == IF package # None /\ e \notin Overwriting THEN "refused" ELSE "packing"
           rec == [export[e] EXCEPT !.at = at, !.todo = Packages!Payload(e)]
<1>0. at \in {"refused", "packing"} /\ Packages!Payload(e) \in SUBSET Packages!Exported
  BY DEF Packages!Payload
<1>2. export' = [export EXCEPT ![e] = rec] /\ export[e].at = "collecting"
      /\ UNCHANGED <<data, writing, package, import>>
  BY DEF Packages!BeginPackage
<1> HIDE DEF at
<1>1. rec \in ExportRecords /\ rec.at = at
  BY <1>0, ExportTyped DEF ExportRecords, ExportStates
<1> HIDE DEF rec
<1> QED
  BY <1>0, <1>1, <1>2, ExportChanges

LEMMA PackStep ==
    ASSUME PackagesInv, NEW e \in Exporters, NEW f \in Files, Packages!Pack(e, f)
    PROVE  PackagesInv'
<1> DEFINE new == [export[e].zip EXCEPT ![f] = data[f]]
           at == IF data[f] = 0 THEN "failed" ELSE export[e].at
           rec == [export[e] EXCEPT !.at = at, !.todo = @ \ {f}, !.zip = new]
<1>0. export[e] \in ExportRecords /\ new \in Packages!Contents
  BY ExportTyped DEF ExportRecords
<1>2. export' = [export EXCEPT ![e] = rec] /\ export[e].at = "packing"
      /\ UNCHANGED <<data, writing, package, import>>
  BY DEF Packages!Pack
<1>3. at \in {"failed", "packing"}
  BY <1>2
<1> HIDE DEF new, at
<1>1. rec \in ExportRecords /\ rec.at = at
  BY <1>0, <1>3 DEF ExportRecords, ExportStates
<1> HIDE DEF rec
<1> QED
  BY <1>1, <1>2, <1>3, ExportChanges

(* Only an archive that agrees with its manifest passes.                   *)
LEMMA VerifyStep ==
    ASSUME PackagesInv, NEW e \in Exporters, Packages!Verify(e)
    PROVE  PackagesInv'
<1> DEFINE at == IF Packages!Intact(Packages!Package(e)) THEN "verified" ELSE "failed"
           rec == [export[e] EXCEPT !.at = at]
<1>2. export' = [export EXCEPT ![e] = rec] /\ export[e].at = "packing"
      /\ UNCHANGED <<data, writing, package, import>>
  BY DEF Packages!Verify
<1>3. at \in {"verified", "failed"}
      /\ (at = "verified" => export[e].zip = export[e].manifest)
  BY DEF Packages!Intact, Packages!Package
<1> HIDE DEF at
<1>1. /\ rec \in ExportRecords /\ rec.at = at
      /\ rec.zip = export[e].zip /\ rec.manifest = export[e].manifest
  BY <1>3, ExportTyped DEF ExportRecords, ExportStates
<1> HIDE DEF rec
<1> QED
  BY <1>1, <1>2, <1>3, ExportChanges

LEMMA FailExportStep ==
    ASSUME PackagesInv, NEW e \in Exporters, Packages!FailExport(e)
    PROVE  PackagesInv'
<1> DEFINE rec == [export[e] EXCEPT !.at = "failed"]
<1>1. rec \in ExportRecords /\ rec.at = "failed"
  BY ExportTyped DEF ExportRecords, ExportStates
<1>2. export' = [export EXCEPT ![e] = rec] /\ export[e].at # "done"
      /\ UNCHANGED <<data, writing, package, import>>
  BY DEF Packages!FailExport
<1> HIDE DEF rec
<1> QED
  BY <1>1, <1>2, ExportChanges

-----------------------------------------------------------------------------
(* The package that replaces another is not one that any import verified:  *)
(* its export had not ended.                                               *)
LEMMA PublishStep ==
    ASSUME PackagesInv, NEW e \in Exporters, Packages!Publish(e)
    PROVE  PackagesInv'
<1> DEFINE rec == [export[e] EXCEPT !.at = "done"]
<1>1. /\ export[e].at = "verified" /\ package' = Packages!Package(e)
      /\ export' = [export EXCEPT ![e] = rec] /\ UNCHANGED <<data, writing, import>>
  BY DEF Packages!Publish
<1>2. export[e] \in ExportRecords
  BY ExportTyped
<1>3. rec \in ExportRecords /\ rec.at = "done"
  BY <1>2 DEF ExportRecords, ExportStates
<1> HIDE DEF rec
<1>4. export' \in [Exporters -> ExportRecords] /\ export \in [Exporters -> ExportRecords]
  BY <1>1, <1>3 DEF PackagesInv, Packages!TypeOK, ExportRecords, ExportStates
<1>5. /\ Packages!Package(e) \in Packages!AllPackages /\ Packages!Package(e).by = e
      /\ Packages!Intact(Packages!Package(e))
  BY <1>1, <1>2 DEF PackagesInv, VerifiedIsSound, Packages!Package, Packages!AllPackages,
      ExportRecords
<1>6. Packages!TypeOK'
  BY <1>1, <1>4, <1>5 DEF PackagesInv, Packages!TypeOK, ExportRecords, ExportStates,
      Packages!AllPackages, Packages!Exported
<1>7. \A p : Sound(p) => Sound(p)' /\ p # Packages!Package(e)
  BY <1>1, <1>3, <1>4, <1>5 DEF Sound, Packages!AllPackages, Packages!Intact
<1>8. Sound(package)'
  BY <1>1, <1>3, <1>4, <1>5 DEF Sound, Packages!Intact, Packages!AllPackages
<1>9. PackageIsSound' /\ ImportIsSound'
  BY <1>1, <1>7, <1>8 DEF PackagesInv, PackageIsSound, ImportIsSound
<1>10. VerifiedIsSound'
  BY <1>1, <1>3, <1>4 DEF PackagesInv, VerifiedIsSound, Packages!Intact, Packages!Package
<1> QED
  BY <1>6, <1>9, <1>10 DEF PackagesInv

-----------------------------------------------------------------------------
(* A step of an import changes its record only.                            *)
LEMMA ImportChanges ==
    ASSUME PackagesInv, NEW i \in Importing, NEW rec \in ImportRecords,
           import' = [import EXCEPT ![i] = rec],
           rec.at \in {"verified", "extracted", "confirmed"} =>
               Sound(rec.verified) /\ Sound(package),
           rec.at = "extracted" /\ package = rec.verified => rec.files = package.zip,
           rec.at = "confirmed" => rec.files = rec.verified.manifest,
           UNCHANGED <<data, writing, export, package>>
    PROVE  PackagesInv'
<1>1. import' \in [Importing -> ImportRecords] /\ import \in [Importing -> ImportRecords]
  BY DEF PackagesInv, Packages!TypeOK, ImportRecords, ImportStates
<1>2. Packages!TypeOK'
  BY <1>1 DEF PackagesInv, Packages!TypeOK, ImportRecords, ImportStates
<1>3. \A p : Sound(p) => Sound(p)'
  BY DEF Sound, Packages!Intact, Packages!AllPackages
<1>4. PackageIsSound' /\ VerifiedIsSound'
  BY <1>3 DEF PackagesInv, PackageIsSound, VerifiedIsSound, Packages!Intact, Packages!Package
<1>5. ImportIsSound'
  BY <1>1, <1>3 DEF PackagesInv, ImportIsSound
<1> QED
  BY <1>2, <1>4, <1>5 DEF PackagesInv

LEMMA ImportTyped == ASSUME PackagesInv, NEW i \in Importing PROVE import[i] \in ImportRecords
BY DEF PackagesInv, Packages!TypeOK, ImportRecords, ImportStates

LEMMA VerifyImportStep ==
    ASSUME PackagesInv, NEW i \in Importing, Packages!VerifyImport(i)
    PROVE  PackagesInv'
<1> DEFINE at == IF Packages!Intact(package) THEN "verified" ELSE "failed"
           rec == [import[i] EXCEPT !.at = at, !.verified = package]
<1>1. import' = [import EXCEPT ![i] = rec] /\ package # None
      /\ UNCHANGED <<data, writing, export, package>>
  BY DEF Packages!VerifyImport
<1>2. at \in {"verified", "failed"}
  OBVIOUS
<1>3. Sound(package) /\ package \in Packages!AllPackages
  BY <1>1 DEF PackagesInv, PackageIsSound, Sound
<1> HIDE DEF at
<1>4. rec \in ImportRecords /\ rec.at = at /\ rec.verified = package
  BY <1>2, <1>3, ImportTyped DEF ImportRecords, ImportStates
<1> HIDE DEF rec
<1> QED
  BY <1>1, <1>2, <1>3, <1>4, ImportChanges

LEMMA ExtractImportStep ==
    ASSUME PackagesInv, NEW i \in Importing, Packages!Extract(i)
    PROVE  PackagesInv'
<1> DEFINE at == IF Packages!Intact(package) THEN "extracted" ELSE "failed"
           rec == [import[i] EXCEPT !.at = at, !.files = package.zip]
<1>1. /\ import' = [import EXCEPT ![i] = rec] /\ import[i].at = "verified"
      /\ UNCHANGED <<data, writing, export, package>>
  BY DEF Packages!Extract
<1>2. at \in {"extracted", "failed"}
  OBVIOUS
<1>3. Sound(package) /\ Sound(import[i].verified) /\ package.zip \in Packages!Contents
  BY <1>1 DEF PackagesInv, ImportIsSound, Sound, Packages!AllPackages
<1> HIDE DEF at
<1>4. /\ rec \in ImportRecords /\ rec.at = at /\ rec.files = package.zip
      /\ rec.verified = import[i].verified
  BY <1>2, <1>3, ImportTyped DEF ImportRecords, ImportStates
<1> HIDE DEF rec
<1> QED
  BY <1>1, <1>2, <1>3, <1>4, ImportChanges

(* The package that was verified is intact: its files are its manifest's.  *)
LEMMA ConfirmStep ==
    ASSUME PackagesInv, NEW i \in Importing, Packages!Confirm(i)
    PROVE  PackagesInv'
<1> DEFINE at == IF package = import[i].verified THEN "confirmed" ELSE "failed"
           rec == [import[i] EXCEPT !.at = at]
<1>1. /\ import' = [import EXCEPT ![i] = rec] /\ import[i].at = "extracted"
      /\ UNCHANGED <<data, writing, export, package>>
  BY DEF Packages!Confirm
<1>2. Sound(package) /\ Sound(import[i].verified)
  BY <1>1 DEF PackagesInv, ImportIsSound
<1>3. /\ at \in {"confirmed", "failed"}
      /\ at = "confirmed" => import[i].files = import[i].verified.manifest
  BY <1>1, <1>2 DEF PackagesInv, ImportIsSound, Sound, Packages!Intact
<1> HIDE DEF at
<1>4. /\ rec \in ImportRecords /\ rec.at = at /\ rec.files = import[i].files
      /\ rec.verified = import[i].verified
  BY <1>3, ImportTyped DEF ImportRecords, ImportStates
<1> HIDE DEF rec
<1> QED
  BY <1>1, <1>2, <1>3, <1>4, ImportChanges

-----------------------------------------------------------------------------
(* Runs change files only: nothing an export has read or packed.           *)
LEMMA RunStepKeeps ==
    ASSUME PackagesInv, NEW v \in Runs, Packages!RunStep(v)
    PROVE  PackagesInv'
<1>1. UNCHANGED <<export, package, import>>
  BY DEF Packages!RunStep, Packages!BeginRun, Packages!WriteFile
<1>2. writing' \in [Runs -> (SUBSET Files) \cup {None}]
  <2>1. CASE Packages!BeginRun(v)
    BY <2>1 DEF Packages!BeginRun, PackagesInv, Packages!TypeOK
  <2>2. ASSUME NEW f \in Files, Packages!WriteFile(v, f)
        PROVE  writing' \in [Runs -> (SUBSET Files) \cup {None}]
    <3>1. writing[v] \ {f} \in SUBSET Files
      BY <2>2 DEF Packages!WriteFile, PackagesInv, Packages!TypeOK
    <3> QED
      BY <2>2, <3>1 DEF Packages!WriteFile, PackagesInv, Packages!TypeOK
  <2> QED
    BY <2>1, <2>2 DEF Packages!RunStep
<1>3. data' \in Packages!Contents
  <2>1. CASE Packages!BeginRun(v)
    BY <2>1 DEF Packages!BeginRun, PackagesInv, Packages!TypeOK
  <2>2. ASSUME NEW f \in Files, Packages!WriteFile(v, f) PROVE data' \in Packages!Contents
    BY <2>2 DEF Packages!WriteFile, PackagesInv, Packages!TypeOK, Packages!Contents,
        Packages!Versions
  <2> QED
    BY <2>1, <2>2 DEF Packages!RunStep
<1>4. Packages!TypeOK'
  BY <1>1, <1>2, <1>3 DEF PackagesInv, Packages!TypeOK
<1> QED
  BY <1>1, <1>4 DEF PackagesInv, PackageIsSound, VerifiedIsSound, ImportIsSound, Sound,
      Packages!Intact,
                    Packages!Package

LEMMA Stuttering == PackagesInv /\ UNCHANGED packaging => PackagesInv'
BY DEF packaging, PackagesInv, Packages!TypeOK, PackageIsSound, VerifiedIsSound, ImportIsSound,
    Sound, Packages!Intact,
       Packages!Package

LEMMA PackagesInduction == PackagesInv /\ [PackagesNext]_packaging => PackagesInv'
<1>1. ASSUME PackagesInv, NEW e \in Exporters, Packages!ExportStep(e) PROVE PackagesInv'
  BY <1>1, BeginExportStep, CollectStep, PackStep, BeginPackageStep, VerifyStep, PublishStep,
     FailExportStep DEF Packages!ExportStep
<1>2. ASSUME PackagesInv, NEW i \in Importing, ImportNext(i) PROVE PackagesInv'
  BY <1>2, VerifyImportStep, ExtractImportStep, ConfirmStep DEF ImportNext
<1> QED
  BY <1>1, <1>2, RunStepKeeps, Stuttering DEF PackagesNext

-----------------------------------------------------------------------------
(* The composition.                                                        *)
(* The states from the confirmation of a package to its registration.      *)
Late == {"ready", "locked", "rendered", "making", "written"}

(* An import gets its directory only after it confirmed what it extracted. *)
OnlyConfirmed ==
    /\ \A o \in Importing : op[o].at \in Late => Confirmed(o)
    /\ \A r \in Roots : dir[r] \in Importing => Confirmed(dir[r])

TransferInv == RegInv /\ PackagesInv /\ OnlyConfirmed

LEMMA TransferInitially == TransferInit => TransferInv
<1>1. TransferInit => RegInv
  BY Initially DEF TransferInit
<1>2. TransferInit => PackagesInv
  BY PackagesInitially DEF TransferInit
<1>3. TransferInit => OnlyConfirmed
  BY NoneAssumption, OperationAssumption DEF TransferInit, Init, Idle, OnlyConfirmed, Late
<1> QED
  BY <1>1, <1>2, <1>3 DEF TransferInv

(* Every step of the composition is one of the packages, or leaves them.   *)
LEMMA StepRefinesPackages ==
    ASSUME TransferNext
    PROVE  PackagesNext \/ UNCHANGED packaging
<1>1. ASSUME NEW o \in Importing, VerifyPackage(o) \/ ExtractPackage(o) \/ ConfirmPackage(o)
      PROVE  PackagesNext
  BY <1>1 DEF VerifyPackage, ExtractPackage, ConfirmPackage, PackagesNext, ImportNext
<1>2. ASSUME NEW o \in Operations,
             CheckDestination(o) \/ PrepareWorkspace(o) \/ Commit(o) \/ Break(o)
      PROVE  UNCHANGED packaging
  BY <1>2 DEF CheckDestination, PrepareWorkspace, Commit, Break
<1>3. Outside => PackagesNext
  BY DEF Outside, PackagesNext
<1> QED
  BY <1>1, <1>2, <1>3 DEF TransferNext

(* Only its preparation brings an operation among the late ones ...        *)
LEMMA LateStays ==
    ASSUME TypeOK, NEW o \in Operations, Commit(o) \/ Break(o) \/ CheckDestination(o)
    PROVE  \A p \in Operations : op'[p].at \in Late => op[p].at \in Late
<1>0. /\ op \in [Operations -> Records]
      /\ Registry(o) \in [Names -> SUBSET Roots] /\ RootsOf[o] \in SUBSET Roots
  BY OfOperation DEF TypeOK, Records, States, Registry
<1>1. CASE CheckDestination(o)
  <2> DEFINE at == IF Conflicts(o, Registry(o)) \/ Exists(o) THEN "refused" ELSE "checked"
  <2>1. op' = [op EXCEPT ![o].at = at, ![o].read = Registry(o)] /\ at \notin Late
    BY <1>1 DEF CheckDestination, Check, Late
  <2> HIDE DEF at
  <2> QED
    BY <1>0, <2>1 DEF Records
<1>2. CASE Render(o)
  <2> DEFINE at == IF Conflicts(o, Registry(o)) THEN "unwinding" ELSE "rendered"
  <2>1. op' = [op EXCEPT ![o].at = at, ![o].read = Registry(o)] /\ op[o].at \in Late
    BY <1>2 DEF Render, Late
  <2> HIDE DEF at
  <2> QED
    BY <1>0, <2>1 DEF Records
<1>3. CASE Claim(o)
  <2> DEFINE at == IF Exists(o) THEN "unwinding" ELSE "making"
             owned == IF Exists(o) \/ o \in Importing THEN {} ELSE RootsOf[o]
  <2>1. op' = [op EXCEPT ![o].at = at, ![o].owned = owned] /\ op[o].at \in Late
    BY <1>3 DEF Claim, Late
  <2> HIDE DEF at, owned
  <2> QED
    BY <1>0, <2>1 DEF Records
<1>4. CASE \E r \in Roots : Make(o, r)
  BY <1>0, <1>4 DEF Make, Occupied, Late, Records
<1>5. CASE Acquire(o) \/ TimeOut(o) \/ Write(o) \/ Release(o)
  BY <1>0, <1>5 DEF Acquire, TimeOut, Write, Release, Late, Records
<1>6. CASE Unwind(o) \/ CleanUp(o)
  BY <1>0, <1>6 DEF Unwind, CleanUp, Late, Records
<1>7. CASE Fail(o)
  <2> DEFINE at == IF op[o].at \in {"checked", "ready"} THEN "failed" ELSE "unwinding"
  <2>1. op' = [op EXCEPT ![o].at = at] /\ at \notin Late
    BY <1>7 DEF Fail, Late
  <2> HIDE DEF at
  <2> QED
    BY <1>0, <2>1 DEF Records
<1>8. CASE FailLate(o) \/ Crash(o)
  BY <1>0, <1>8 DEF FailLate, Crash, Late, Records
<1> QED
  BY <1>1, <1>2, <1>3, <1>4, <1>5, <1>6, <1>7, <1>8 DEF Commit, Break

(* ... and only a late one makes a directory.                              *)
LEMMA LateMakes ==
    ASSUME TypeOK, NEW o \in Operations, Commit(o) \/ Break(o) \/ CheckDestination(o) \/ Prepare(o)
    PROVE  \A r \in Roots :
              dir'[r] \in {dir[r], None} \/ (dir'[r] = o /\ op[o].at \in Late)
<1>1. CASE \E s \in Roots : Make(o, s)
  BY <1>1 DEF Make, Occupied, Late, TypeOK
<1>2. CASE CleanUp(o)
  BY <1>2 DEF CleanUp
<1>3. CASE ~ CleanUp(o) /\ ~ \E s \in Roots : Make(o, s)
  BY <1>3 DEF CheckDestination, Check, Prepare, Commit, Break, Acquire, TimeOut, Render, Claim,
     Write, Release, Unwind, Fail, FailLate, Crash
<1> QED
  BY <1>1, <1>2, <1>3

LEMMA OnlyConfirmedKept ==
    ASSUME TransferInv, TransferNext
    PROVE  OnlyConfirmed'
<1>0. /\ TypeOK /\ Importing \subseteq Operations /\ None \notin Importing
      /\ import \in [Importing -> ImportRecords]
      /\ op \in [Operations -> Records]
  BY OperationAssumption, NoneAssumption
     DEF TransferInv, RegInv, TypeOK, Records, States, PackagesInv,
         Packages!TypeOK, ImportRecords, ImportStates
<1>1. ASSUME NEW o \in Importing, VerifyPackage(o) PROVE OnlyConfirmed'
  <2>1. /\ UNCHANGED <<op, dir>> /\ op[o].at = "idle" /\ import[o].at # "confirmed"
        /\ \A p \in Importing \ {o} : import'[p] = import[p]
    BY <1>0, <1>1 DEF VerifyPackage, Packages!VerifyImport, vars
  <2> QED
    BY <1>0, <2>1 DEF TransferInv, OnlyConfirmed, Confirmed, Late
<1>2. ASSUME NEW o \in Importing, ExtractPackage(o) \/ ConfirmPackage(o) PROVE OnlyConfirmed'
  <2>1. /\ \A p \in Importing \ {o} : import'[p] = import[p]
        /\ import[o].at # "confirmed"
    BY <1>0, <1>2 DEF ExtractPackage, ConfirmPackage, Packages!Extract, Packages!Confirm
  <2>2. dir' = dir /\ \A p \in Operations \ {o} : op'[p] = op[p]
    BY <1>0, <1>2 DEF ExtractPackage, ConfirmPackage, Prepare, vars
  <2>3. op'[o].at \in Late => op'[o].at = "ready" /\ ConfirmPackage(o)
    <3>1. Prepare(o) => op'[o].at \in {"ready", "failed"}
      BY <1>0 DEF Prepare, Records
    <3>2. CASE ConfirmPackage(o)
      BY <3>1, <3>2 DEF ConfirmPackage, Late
    <3>3. CASE ExtractPackage(o)
      <4>1. CASE Prepare(o) /\ ~Ready(o)'
        BY <3>1, <4>1 DEF Ready, Late
      <4>2. CASE UNCHANGED vars
        BY <3>3, <4>2 DEF ExtractPackage, vars, Late
      <4> QED
        BY <3>3, <4>1, <4>2 DEF ExtractPackage
    <3> QED
      BY <1>2, <3>2, <3>3
  <2>4. op'[o].at \in Late => Confirmed(o)'
    BY <2>3 DEF ConfirmPackage, Ready
  <2> QED
    BY <1>0, <2>1, <2>2, <2>4 DEF TransferInv, OnlyConfirmed, Confirmed
<1>3. ASSUME NEW o \in Operations, PrepareWorkspace(o) PROVE OnlyConfirmed'
  <2>1. /\ o \notin Importing /\ UNCHANGED <<import, dir>>
        /\ \A p \in Operations \ {o} : op'[p] = op[p]
    BY <1>0, <1>3 DEF PrepareWorkspace, Prepare, packaging
  <2> QED
    BY <1>0, <2>1 DEF TransferInv, OnlyConfirmed, Confirmed
<1>4. ASSUME NEW o \in Operations, Commit(o) \/ Break(o) \/ CheckDestination(o)
      PROVE  OnlyConfirmed'
  <2>1. import' = import
    BY <1>4 DEF Commit, Break, CheckDestination, packaging
  <2> QED
    BY <1>0, <1>4, <2>1, LateStays, LateMakes DEF TransferInv, OnlyConfirmed, Confirmed
<1>5. CASE Outside /\ UNCHANGED vars
  <2>1. import' = import /\ UNCHANGED <<op, dir>>
    BY <1>5 DEF Outside, vars, Packages!ExportStep, Packages!RunStep, Packages!BeginExport,
       Packages!Collect, Packages!Pack, Packages!BeginPackage, Packages!Verify,
       Packages!Publish, Packages!FailExport, Packages!BeginRun, Packages!WriteFile
  <2> QED
    BY <2>1 DEF TransferInv, OnlyConfirmed, Confirmed
<1> QED
  BY <1>1, <1>2, <1>3, <1>4, <1>5 DEF TransferNext

LEMMA RegistryInduction == RegInv /\ [Next]_vars => RegInv'
BY TypePreserved, LockPreserved, ReadPreserved, DisjointPreserved DEF RegInv

LEMMA TransferInduction == TransferInv /\ [TransferNext]_transfer => TransferInv'
<1>1. ASSUME TransferInv, TransferNext PROVE TransferInv'
  <2>1. RegInv'
    BY <1>1, StepRefines, RegistryInduction DEF TransferInv
  <2>2. PackagesInv'
    BY <1>1, StepRefinesPackages, PackagesInduction DEF TransferInv
  <2> QED
    BY <1>1, <2>1, <2>2, OnlyConfirmedKept DEF TransferInv
<1>2. ASSUME TransferInv, UNCHANGED transfer PROVE TransferInv'
  <2>1. UNCHANGED vars /\ UNCHANGED packaging
    BY <1>2 DEF transfer
  <2>2. RegInv'
    BY <1>2, <2>1, RegistryInduction DEF TransferInv
  <2>3. PackagesInv'
    BY <1>2, <2>1, PackagesInduction DEF TransferInv
  <2>4. OnlyConfirmed'
    BY <1>2, <2>1 DEF TransferInv, OnlyConfirmed, Confirmed, vars, packaging
  <2> QED
    BY <2>2, <2>3, <2>4 DEF TransferInv
<1> QED
  BY <1>1, <1>2

(* An imported workspace in its place holds the files of the package its   *)
(* import verified (workspace_import.py), whatever exports, runs and other *)
(* operations do between the verification and the registration.            *)
THEOREM InstalledIsVerifiedCorrect == TransferSpec => []InstalledIsVerified
<1>1. TransferInv => InstalledIsVerified
  <2> SUFFICES ASSUME TransferInv PROVE InstalledIsVerified
    OBVIOUS
  <2>1. Packages!TypeOK
    BY DEF TransferInv, PackagesInv
  <2>2. Packages!PackageMatchesManifest
    BY DEF TransferInv, PackagesInv, PackageIsSound, Sound, Packages!PackageMatchesManifest
  <2>3. \A i \in Importing : Confirmed(i) => import[i].files = import[i].verified.manifest
    BY DEF TransferInv, PackagesInv, ImportIsSound, Confirmed
  <2> QED
    BY <2>1, <2>2, <2>3 DEF TransferInv, OnlyConfirmed, Confirmed, InstalledIsVerified
<1> QED
  BY <1>1, TransferInitially, TransferInduction, PTL DEF TransferSpec
=============================================================================
