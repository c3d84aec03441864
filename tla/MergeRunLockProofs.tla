--------------------------- MODULE MergeRunLockProofs ---------------------------
(***************************************************************************)
(* Proofs about the merge run lock, for any number of sessions in any       *)
(* number of processes, crashes and ageing included.                        *)
(***************************************************************************)
EXTENDS MergeRunLock, TLAPS

States == {"out", "read", "granted", "holding", "unlinking"}

\* Only a session of a live process is anywhere but out.
OnlyTheLive == \A s \in Sessions : state[s] # "out" => Runs(s)

OneEnters == \A s, t \in Sessions : Entering(s) /\ Entering(t) => s = t

\* A session that is inside finds its own lock in the file.
HoldersLock == \A s \in Sessions : Inside(s) => Mine(s)

\* What a session has read on its way in is still what the holder wrote.
FreshlyRead ==
  \A s, t \in Sessions : state[s] = "read" /\ Inside(t) => seen[s] = file

\* The way in has been granted only when nobody was inside.
GrantedAlone == \A s, t \in Sessions : state[s] = "granted" => ~Inside(t)

Orderly ==
  OneEnters /\ HoldersLock /\ FreshlyRead /\ GrantedAlone /\ Exclusive

\* The inductive invariant.
IInv == TypeOK /\ OnlyTheLive /\ NoOrphanLock /\ (excuses = {} => Orderly)

\* The effect of six hours on the locks that are equal to a given one.
Aged(lock, l) == IF l = lock THEN [lock EXCEPT !.aged = TRUE] ELSE l

LEMMA AgedLock ==
  ASSUME NEW lock \in Lock, NEW l \in Lock \cup {NoLock}
  PROVE  /\ Aged(lock, l) \in Lock \cup {NoLock}
         /\ Aged(lock, l) = NoLock <=> l = NoLock
         /\ l # NoLock => /\ Aged(lock, l).pid = l.pid
                          /\ Aged(lock, l).owner = l.owner
<1>1. [lock EXCEPT !.aged = TRUE] \in Lock
  BY DEF Lock
<1>2. /\ [lock EXCEPT !.aged = TRUE].pid = lock.pid
      /\ [lock EXCEPT !.aged = TRUE].owner = lock.owner
  BY DEF Lock
<1>3. CASE l = lock
  BY <1>1, <1>2, <1>3, NoLockAssumption DEF Aged
<1>4. CASE l # lock
  BY <1>4 DEF Aged
<1>5. QED  BY <1>3, <1>4

LEMMA InitIInv == Init => IInv
<1> SUFFICES ASSUME Init PROVE IInv
  OBVIOUS
<1> USE DEF Init
<1>1. TypeOK
  BY DEF TypeOK
<1>2. OnlyTheLive /\ NoOrphanLock
  BY DEF OnlyTheLive, NoOrphanLock
<1>3. Orderly
  BY DEF Orderly, OneEnters, HoldersLock, FreshlyRead, GrantedAlone, Exclusive,
         Entering, Inside
<1>4. QED  BY <1>1, <1>2, <1>3 DEF IInv

\* Time passes: what the invariant compares of a lock is not its age.
LEMMA GrowOldIInv == IInv /\ GrowOld => IInv'
<1> SUFFICES ASSUME IInv, GrowOld PROVE IInv'
  OBVIOUS
<1>1. PICK lock \in {file} \cup {seen[s] : s \in Sessions} :
        /\ lock # NoLock
        /\ file' = Aged(lock, file)
        /\ seen' = [s \in Sessions |-> Aged(lock, seen[s])]
        /\ UNCHANGED <<alive, state, excuses>>
  BY DEF GrowOld, Aged
<1>2. lock \in Lock /\ file \in Lock \cup {NoLock}
      /\ \A s \in Sessions : seen[s] \in Lock \cup {NoLock}
  BY <1>1 DEF IInv, TypeOK
<1>3. /\ file' \in Lock \cup {NoLock}
      /\ file' = NoLock <=> file = NoLock
      /\ file # NoLock => file'.pid = file.pid /\ file'.owner = file.owner
  BY <1>1, <1>2, AgedLock
<1>4. \A s \in Sessions : Aged(lock, seen[s]) \in Lock \cup {NoLock}
  BY <1>2, AgedLock
<1>5. TypeOK'
  <2>1. seen' \in [Sessions -> Lock \cup {NoLock}]
    BY <1>1, <1>4
  <2>2. QED  BY <1>1, <1>3, <2>1 DEF IInv, TypeOK
<1>6. OnlyTheLive' /\ NoOrphanLock'
  BY <1>1, <1>3 DEF IInv, OnlyTheLive, Runs, NoOrphanLock, Inside
<1>7. ASSUME excuses' = {} PROVE Orderly'
  <2>1. Orderly
    BY <1>1, <1>7 DEF IInv
  <2>2. OneEnters' /\ GrantedAlone' /\ Exclusive'
    BY <1>1, <2>1 DEF Orderly, OneEnters, GrantedAlone, Exclusive, Entering, Inside
  <2>3. HoldersLock'
    BY <1>1, <1>3, <2>1 DEF Orderly, HoldersLock, Mine, Inside
  <2>4. FreshlyRead'
    BY <1>1, <2>1 DEF Orderly, FreshlyRead, Inside
  <2>5. QED  BY <2>2, <2>3, <2>4 DEF Orderly
<1>8. QED  BY <1>5, <1>6, <1>7 DEF IInv

LEMMA CrashIInv == IInv /\ (\E p \in Pids : Crash(p)) => IInv'
<1> SUFFICES ASSUME IInv, NEW p \in Pids, Crash(p) PROVE IInv'
  OBVIOUS
<1> USE SessionAssumption DEF Crash
<1>1. \A s \in Sessions : state'[s] = state[s] \/ (state'[s] = "out" /\ Pid[s] = p)
  OBVIOUS
<1>2. \A s \in Sessions : state'[s] # "out" => /\ Pid[s] # p
                                               /\ state'[s] = state[s]
                                               /\ seen'[s] = seen[s]
  OBVIOUS
<1>3. TypeOK'
  <2>1. state' \in [Sessions -> States] /\ seen' \in [Sessions -> Lock \cup {NoLock}]
    BY DEF IInv, TypeOK, States
  <2>2. QED  BY <2>1 DEF IInv, TypeOK, States
<1>4. OnlyTheLive'
  BY <1>2 DEF IInv, OnlyTheLive, Runs
<1>5. NoOrphanLock'
  BY DEF IInv, NoOrphanLock, Inside
<1>6. ASSUME excuses' = {} PROVE Orderly'
  <2>1. Orderly
    BY <1>6 DEF IInv
  <2>2. OneEnters' /\ GrantedAlone' /\ Exclusive'
    BY <1>2, <2>1
    DEF Orderly, OneEnters, GrantedAlone, Exclusive, Entering, Inside
  <2>3. HoldersLock' /\ FreshlyRead'
    BY <1>2, <2>1 DEF Orderly, HoldersLock, FreshlyRead, Mine, Inside
  <2>4. QED  BY <2>2, <2>3 DEF Orderly
<1>7. QED  BY <1>3, <1>4, <1>5, <1>6 DEF IInv

\* A session begins to acquire: nobody else is doing so, or it is noted.
LEMMA ReadIInv == IInv /\ (\E s \in Sessions : Read(s)) => IInv'
<1> SUFFICES ASSUME IInv, NEW s \in Sessions, Read(s) PROVE IInv'
  OBVIOUS
<1> USE DEF Read
<1>1. /\ state' = [state EXCEPT ![s] = "read"] /\ state[s] = "out"
      /\ seen' = [seen EXCEPT ![s] = file]
      /\ state \in [Sessions -> States] /\ seen \in [Sessions -> Lock \cup {NoLock}]
  BY DEF IInv, TypeOK, States
<1>2. TypeOK'
  BY DEF IInv, TypeOK
<1>3. OnlyTheLive' /\ NoOrphanLock'
  BY <1>1 DEF IInv, OnlyTheLive, Runs, NoOrphanLock, Inside
<1>4. ASSUME excuses' = {} PROVE Orderly'
  <2>1. excuses = {} /\ Orderly /\ \A t \in Sessions \ {s} : ~Entering(t)
    BY <1>4 DEF IInv
  <2>2. OneEnters'
    BY <1>1, <2>1 DEF OneEnters, Entering
  <2>3. HoldersLock' /\ Exclusive'
    BY <1>1, <2>1 DEF Orderly, HoldersLock, Exclusive, Mine, Inside
  <2>4. FreshlyRead' /\ GrantedAlone'
    BY <1>1, <2>1 DEF FreshlyRead, GrantedAlone, Entering, Inside
  <2>5. QED  BY <2>2, <2>3, <2>4 DEF Orderly
<1>5. QED  BY <1>2, <1>3, <1>4 DEF IInv

\* A session that finds another one's lock in the file is not let in: the
\* holder lives, and every other reason to let it in is noted.
LEMMA JudgeIInv == IInv /\ (\E s \in Sessions : Judge(s)) => IInv'
<1> SUFFICES ASSUME IInv, NEW s \in Sessions, Judge(s) PROVE IInv'
  OBVIOUS
<1> USE SessionAssumption DEF Judge
<1>1. /\ state' = [state EXCEPT ![s] = IF Grants(s, seen[s]) THEN "granted" ELSE "out"]
      /\ state[s] = "read"
      /\ seen' = [seen EXCEPT ![s] = NoLock]
      /\ state \in [Sessions -> States] /\ seen \in [Sessions -> Lock \cup {NoLock}]
      /\ file' = file /\ alive' = alive
  BY DEF IInv, TypeOK, States
<1>2. TypeOK'
  <2>1. state' \in [Sessions -> States] /\ seen' \in [Sessions -> Lock \cup {NoLock}]
    BY <1>1 DEF States
  <2>2. excuses' \in SUBSET {"overlap", "aged", "forced"}
    BY DEF IInv, TypeOK
  <2>3. QED  BY <1>1, <2>1, <2>2 DEF IInv, TypeOK, States
<1>3. \A t \in Sessions : state'[t] \in {"out", "granted"} \/ state'[t] = state[t]
  BY <1>1
<1>4. \A t \in Sessions : Inside(t)' <=> Inside(t)
  BY <1>1 DEF Inside
<1>5. OnlyTheLive' /\ NoOrphanLock'
  BY <1>1, <1>4 DEF IInv, OnlyTheLive, Runs, NoOrphanLock
<1>6. ASSUME excuses' = {} PROVE Orderly'
  <2>1. excuses = {}
    BY <1>6
  <2>2. Orderly
    BY <2>1 DEF IInv
  <2>3. ASSUME Grants(s, seen[s]), NEW t \in Sessions, Inside(t) PROVE FALSE
    <3>1. seen[s] = file /\ Mine(t)
      BY <1>1, <2>2, <2>3 DEF Orderly, FreshlyRead, HoldersLock
    <3>2. Pid[t] \in alive
      BY <2>3 DEF IInv, OnlyTheLive, Runs, Inside
    <3>3. seen[s] # NoLock /\ seen[s].pid \in alive
      BY <3>1, <3>2 DEF Mine
    <3>4. ~seen[s].aged /\ seen[s].pid # Pid[s]
      BY <1>6, <2>1, <2>3, <3>3
    <3>5. QED  BY <2>3, <3>3, <3>4 DEF Grants, Stale
  <2>4. OneEnters'
    BY <1>1, <2>2 DEF Orderly, OneEnters, Entering
  <2>5. HoldersLock' /\ Exclusive'
    BY <1>1, <1>4, <2>2 DEF Orderly, HoldersLock, Exclusive, Mine
  <2>6. FreshlyRead'
    BY <1>1, <1>4, <2>2 DEF Orderly, FreshlyRead
  <2>7. GrantedAlone'
    BY <1>1, <1>4, <2>2, <2>3 DEF Orderly, GrantedAlone
  <2>8. QED  BY <2>4, <2>5, <2>6, <2>7 DEF Orderly
<1>7. QED  BY <1>2, <1>5, <1>6 DEF IInv

\* The file becomes this session's lock; the others are outside.
LEMMA WriteIInv == IInv /\ (\E s \in Sessions : Write(s)) => IInv'
<1> SUFFICES ASSUME IInv, NEW s \in Sessions, Write(s) PROVE IInv'
  OBVIOUS
<1> USE SessionAssumption DEF Write
<1>1. /\ state' = [state EXCEPT ![s] = "holding"] /\ state[s] = "granted"
      /\ state \in [Sessions -> States]
      /\ file' \in Lock /\ file' # NoLock
      /\ file'.pid = Pid[s] /\ file'.owner = Owner[s]
  <2>1. file' \in Lock
    BY DEF Lock
  <2>2. file' # NoLock
    BY <2>1, NoLockAssumption
  <2>3. file'.pid = Pid[s] /\ file'.owner = Owner[s]
    OBVIOUS
  <2>4. QED  BY <2>1, <2>2, <2>3 DEF IInv, TypeOK, States
<1>2. TypeOK'
  BY <1>1 DEF IInv, TypeOK, States
<1>3. OnlyTheLive'
  BY <1>1 DEF IInv, OnlyTheLive, Runs
<1>4. NoOrphanLock'
  BY <1>1 DEF NoOrphanLock, Inside
<1>5. ASSUME excuses' = {} PROVE Orderly'
  <2>1. Orderly
    BY <1>5 DEF IInv
  <2>2. /\ \A t \in Sessions : ~Inside(t)
        /\ \A t \in Sessions \ {s} : ~Entering(t)
    BY <1>1, <2>1 DEF Orderly, GrantedAlone, OneEnters, Entering
  <2>3. OneEnters'
    BY <1>1, <2>2 DEF OneEnters, Entering
  <2>4. HoldersLock' /\ Exclusive'
    BY <1>1, <2>2 DEF HoldersLock, Exclusive, Mine, Inside
  <2>5. FreshlyRead' /\ GrantedAlone'
    BY <1>1, <2>2 DEF FreshlyRead, GrantedAlone, Entering, Inside
  <2>6. QED  BY <2>3, <2>4, <2>5 DEF Orderly
<1>6. QED  BY <1>2, <1>3, <1>4, <1>5 DEF IInv

\* A session that finds another lock than its own leaves that lock's owner in.
LEMMA LetGoIInv == IInv /\ (\E s \in Sessions : LetGo(s)) => IInv'
<1> SUFFICES ASSUME IInv, NEW s \in Sessions, LetGo(s) PROVE IInv'
  OBVIOUS
<1> USE DEF LetGo
<1>1. /\ state' = [state EXCEPT ![s] = IF Mine(s) THEN "unlinking" ELSE "out"]
      /\ state[s] = "holding"
      /\ state \in [Sessions -> States]
  BY DEF IInv, TypeOK, States
<1>2. TypeOK'
  BY <1>1 DEF IInv, TypeOK, States
<1>3. OnlyTheLive'
  BY <1>1 DEF IInv, OnlyTheLive, Runs
<1>4. \A t \in Sessions : /\ Inside(t)' => Inside(t)
                          /\ Inside(t) /\ Mine(t) => Inside(t)'
                          /\ Entering(t)' <=> Entering(t)
  BY <1>1 DEF Inside, Entering
<1>5. NoOrphanLock'
  <2> SUFFICES ASSUME file # NoLock, file.pid \in alive
               PROVE  \E t \in Sessions :
                        Inside(t)' /\ Pid[t] = file.pid /\ Owner[t] = file.owner
    BY DEF NoOrphanLock
  <2>1. PICK t \in Sessions :
          Inside(t) /\ Pid[t] = file.pid /\ Owner[t] = file.owner
    BY DEF IInv, NoOrphanLock
  <2>2. QED  BY <1>4, <2>1 DEF Mine
<1>6. ASSUME excuses' = {} PROVE Orderly'
  <2>1. Orderly
    BY <1>6 DEF IInv
  <2>2. OneEnters' /\ Exclusive'
    BY <1>4, <2>1 DEF Orderly, OneEnters, Exclusive
  <2>3. HoldersLock'
    BY <1>4, <2>1 DEF Orderly, HoldersLock, Mine
  <2>4. FreshlyRead' /\ GrantedAlone'
    BY <1>1, <1>4, <2>1 DEF Orderly, FreshlyRead, GrantedAlone
  <2>5. QED  BY <2>2, <2>3, <2>4 DEF Orderly
<1>7. QED  BY <1>2, <1>3, <1>5, <1>6 DEF IInv

\* A session removes the file.  Whoever has read it may be let in by what it
\* read, but by then nobody is inside.
LEMMA UnlinkIInv == IInv /\ (\E s \in Sessions : Unlink(s)) => IInv'
<1> SUFFICES ASSUME IInv, NEW s \in Sessions, Unlink(s) PROVE IInv'
  OBVIOUS
<1> USE DEF Unlink
<1>1. /\ state' = [state EXCEPT ![s] = "out"] /\ state[s] = "unlinking"
      /\ state \in [Sessions -> States]
  BY DEF IInv, TypeOK, States
<1>2. TypeOK'
  BY <1>1 DEF IInv, TypeOK, States
<1>3. OnlyTheLive'
  BY <1>1 DEF IInv, OnlyTheLive, Runs
<1>4. NoOrphanLock'
  BY DEF NoOrphanLock
<1>5. ASSUME excuses' = {} PROVE Orderly'
  <2>1. Orderly
    BY <1>5 DEF IInv
  <2>2. \A t \in Sessions : ~Inside(t)'
    BY <1>1, <2>1 DEF Orderly, Exclusive, Inside
  <2>3. OneEnters'
    BY <1>1, <2>1 DEF Orderly, OneEnters, Entering
  <2>4. HoldersLock' /\ FreshlyRead' /\ GrantedAlone' /\ Exclusive'
    BY <2>2 DEF HoldersLock, FreshlyRead, GrantedAlone, Exclusive
  <2>5. QED  BY <2>3, <2>4 DEF Orderly
<1>6. QED  BY <1>2, <1>3, <1>4, <1>5 DEF IInv

LEMMA NextIInv == IInv /\ [Next]_vars => IInv'
<1> SUFFICES ASSUME IInv, [Next]_vars PROVE IInv'
  OBVIOUS
<1>1. CASE \E s \in Sessions : SessionStep(s)
  BY <1>1, ReadIInv, JudgeIInv, WriteIInv, LetGoIInv, UnlinkIInv DEF SessionStep
<1>2. CASE \E p \in Pids : Crash(p)
  BY <1>2, CrashIInv
<1>3. CASE GrowOld
  BY <1>3, GrowOldIInv
<1>4. CASE UNCHANGED vars
  BY <1>4 DEF vars, IInv, TypeOK, OnlyTheLive, Runs, NoOrphanLock, Orderly, OneEnters,
              HoldersLock, FreshlyRead, GrantedAlone, Exclusive, Entering, Inside, Mine
<1>5. QED  BY <1>1, <1>2, <1>3, <1>4 DEF Next

LEMMA Invariance == Spec => []IInv
<1>1. QED  BY InitIInv, NextIInv, PTL DEF Spec

--------------------------------------------------------------------------------
(* The lock file, and what each session has read of it, is well formed at   *)
(* every moment.                                                            *)
THEOREM TypeCorrect == Spec => []TypeOK
<1>1. IInv => TypeOK
  BY DEF IInv
<1>2. QED  BY <1>1, Invariance, PTL

(* However many merges compete for a work directory: two of them are inside *)
(* at once only after two acquisitions have overlapped, a live holder has   *)
(* been judged too old, or a session has forced its way past one of its own *)
(* process.                                                                 *)
THEOREM Exclusion == Spec => []ExclusiveUnlessExcused
<1>1. IInv => ExclusiveUnlessExcused
  BY DEF IInv, Orderly, ExclusiveUnlessExcused
<1>2. QED  BY <1>1, Invariance, PTL

(* The lock of a live process always belongs to a session that has still to *)
(* remove it: release_merge_run_lock leaves nothing behind.                 *)
THEOREM LocksAreRemoved == Spec => []NoOrphanLock
<1>1. IInv => NoOrphanLock
  BY DEF IInv
<1>2. QED  BY <1>1, Invariance, PTL
================================================================================
