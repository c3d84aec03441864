------------------------------ MODULE MergeRunLock ------------------------------
(***************************************************************************)
(* The lock file that keeps two merges out of one work directory            *)
(* (src/indw/schedule/state/lock.py).                                       *)
(*                                                                          *)
(* A session is one call of merge_with_quality; sessions with the same pid  *)
(* run in one process.  The lock is a file that is read, judged and         *)
(* replaced in three separate steps, and its holder never touches it again  *)
(* until it removes it.                                                     *)
(*                                                                          *)
(* A "Variant" is not part of the specification: it is the definition after *)
(* it with a mistake in it, which the property README.md names must notice. *)
(***************************************************************************)
CONSTANTS
  Sessions,
  Pids,
  Owners,
  Pid,       \* the process a session runs in
  Owner,     \* the owner string it passes, "merge:<output file>"
  Forced,    \* the sessions that pass force=True
  NoLock

ASSUME SessionAssumption ==
  Pid \in [Sessions -> Pids] /\ Owner \in [Sessions -> Owners]
ASSUME ForcedAssumption == Forced \subseteq Sessions

\* What a lock file says; aged stands for started_at being stale_sec ago.
Lock == [pid : Pids, owner : Owners, aged : BOOLEAN]
ASSUME NoLockAssumption == NoLock \notin Lock

VARIABLES
  file,     \* the lock file, or NoLock
  alive,    \* the pids _pid_alive answers True for
  state,    \* where each session is
  seen,     \* what it read from the lock file on its way in
  excuses   \* history: what has happened that may let two sessions in

vars == <<file, alive, state, seen, excuses>>

Init ==
  /\ file = NoLock
  /\ alive = Pids
  /\ state = [s \in Sessions |-> "out"]
  /\ seen = [s \in Sessions |-> NoLock]
  /\ excuses = {}

Runs(s) == Pid[s] \in alive

Entering(s) == state[s] \in {"read", "granted"}
Inside(s) == state[s] \in {"holding", "unlinking"}

--------------------------------------------------------------------------------
\* acquire_merge_run_lock: read_merge_run_lock ...
Read(s) ==
  /\ Runs(s)
  /\ state[s] = "out"
  /\ seen' = [seen EXCEPT ![s] = file]
  /\ state' = [state EXCEPT ![s] = "read"]
  /\ excuses' = IF \E t \in Sessions \ {s} : Entering(t)
                THEN excuses \cup {"overlap"} ELSE excuses
  /\ UNCHANGED <<file, alive>>

Stale(lock) == lock.pid \notin alive \/ lock.aged

\* Variant: force takes the lock of another process, too.
GrantsToAnyForced(s, lock) ==
  lock = NoLock \/ Stale(lock) \/ s \in Forced

\* ... then the judgement: nobody's, a stale one, or our own with force.
Grants(s, lock) ==
  \/ lock = NoLock
  \/ Stale(lock)
  \/ lock.pid = Pid[s] /\ s \in Forced

Judge(s) ==
  /\ Runs(s)
  /\ state[s] = "read"
  /\ state' = [state EXCEPT ![s] = IF Grants(s, seen[s]) THEN "granted" ELSE "out"]
  /\ seen' = [seen EXCEPT ![s] = NoLock]
  /\ excuses' =
       LET lock == seen[s]
       IN IF lock = NoLock \/ ~Grants(s, lock) \/ lock.pid \notin alive
          THEN excuses
          ELSE IF lock.aged THEN excuses \cup {"aged"}
          ELSE IF lock.pid = Pid[s] THEN excuses \cup {"forced"}
          ELSE excuses
  /\ UNCHANGED <<file, alive>>

\* ... and the file is replaced, whatever it has become in the meantime.
Write(s) ==
  /\ Runs(s)
  /\ state[s] = "granted"
  /\ file' = [pid |-> Pid[s], owner |-> Owner[s], aged |-> FALSE]
  /\ state' = [state EXCEPT ![s] = "holding"]
  /\ UNCHANGED <<alive, seen, excuses>>

Mine(s) == file # NoLock /\ file.owner = Owner[s] /\ file.pid = Pid[s]

\* Variant: the lock is left for the next session to find stale.
LetGoAndLeave(s) ==
  /\ Runs(s)
  /\ state[s] = "holding"
  /\ state' = [state EXCEPT ![s] = "out"]
  /\ UNCHANGED <<file, alive, seen, excuses>>

\* release_merge_run_lock looks at the file first; it removes only a lock of
\* this owner and this process.
LetGo(s) ==
  /\ Runs(s)
  /\ state[s] = "holding"
  /\ state' = [state EXCEPT ![s] = IF Mine(s) THEN "unlinking" ELSE "out"]
  /\ UNCHANGED <<file, alive, seen, excuses>>

Unlink(s) ==
  /\ Runs(s)
  /\ state[s] = "unlinking"
  /\ file' = NoLock
  /\ state' = [state EXCEPT ![s] = "out"]
  /\ UNCHANGED <<alive, seen, excuses>>

--------------------------------------------------------------------------------
\* A process is killed, with all its sessions; the lock file stays.
Crash(p) ==
  /\ p \in alive
  /\ alive' = alive \ {p}
  /\ state' = [s \in Sessions |-> IF Pid[s] = p THEN "out" ELSE state[s]]
  /\ seen' = [s \in Sessions |-> IF Pid[s] = p THEN NoLock ELSE seen[s]]
  /\ UNCHANGED <<file, excuses>>

\* Six hours pass since a lock was written that nobody renews: it is old
\* wherever it is looked at.
GrowOld ==
  \E lock \in {file} \cup {seen[s] : s \in Sessions} :
    /\ lock # NoLock /\ ~lock.aged
    /\ LET Older(l) == IF l = lock THEN [lock EXCEPT !.aged = TRUE] ELSE l
       IN /\ file' = Older(file)
          /\ seen' = [s \in Sessions |-> Older(seen[s])]
    /\ UNCHANGED <<alive, state, excuses>>

SessionStep(s) ==
  Read(s) \/ Judge(s) \/ Write(s) \/ LetGo(s) \/ Unlink(s)

Next ==
  \/ \E s \in Sessions : SessionStep(s)
  \/ \E p \in Pids : Crash(p)
  \/ GrowOld

Spec == Init /\ [][Next]_vars
--------------------------------------------------------------------------------
TypeOK ==
  /\ file \in Lock \cup {NoLock}
  /\ alive \in SUBSET Pids
  /\ state \in [Sessions -> {"out", "read", "granted", "holding", "unlinking"}]
  /\ seen \in [Sessions -> Lock \cup {NoLock}]
  /\ excuses \in SUBSET {"overlap", "aged", "forced"}

(* "Two merge processes writing to the same work directory can corrupt      *)
(* checkpoints. The merge run lock prevents this by default."               *)
Exclusive == \A s, t \in Sessions : Inside(s) /\ Inside(t) => s = t

(* The lock does keep a second merge out, as long as no two acquisitions    *)
(* overlap, no holder has been judged too old, and no session has forced    *)
(* its way past one of its own process.                                     *)
ExclusiveUnlessExcused == excuses = {} => Exclusive

(* A merge that ends by itself never leaves its lock behind, not even after *)
(* another session has overwritten it: the lock of a live process belongs   *)
(* to a session that has still to remove it.                                *)
NoOrphanLock ==
  file # NoLock /\ file.pid \in alive =>
    \E s \in Sessions : Inside(s) /\ Pid[s] = file.pid /\ Owner[s] = file.owner

================================================================================
