---------------------------- MODULE ConfigLock ----------------------------
(* The configuration lock of the library (cli_new.c: get_config_lock,       *)
(* create_lock_file, try_lock_cleanup, release_config_lock). A commit       *)
(* creates a lock file exclusively, writes the path of its /proc entry into *)
(* it and removes it when it exits. Who does not get it in time looks       *)
(* whether the file is an orphan's. A pid may be reused by another program. *)
EXTENDS Naturals

CONSTANTS
  Proc,        \* pids
  None,        \* no pid
  Retries,     \* LOCK_NUM_RETRIES
  MaxCrashes   \* bound: commits killed without running their exit handlers

ASSUME ConstantsOK == None \notin Proc /\ Retries \in Nat /\ MaxCrashes \in Nat

VARIABLES
  lock,     \* LOCK_FILE: the process that created it, and the pid in its text
  prog,     \* what runs under a pid
  pc,       \* where its get_config_lock is
  tries,    \* retries made by create_lock_file
  again,    \* its argument try_cleanup
  seen,     \* the pid try_lock_cleanup has read
  crashes,  \* bounded count
  overdue   \* somebody has run out of retries (history)

vars == <<lock, prog, pc, tries, again, seen, crashes, overdue>>

NoLock == [by |-> None, text |-> None]

\* write, hold and fail: between creating the file and removing it.
Pc == {"off", "open", "read", "stat", "cmdline", "unlink", "recheck", "write", "hold", "fail"}

TypeOK ==
  /\ lock \in [by: Proc \union {None}, text: Proc \union {None}]
  /\ prog \in [Proc -> {"none", "commit", "other"}]
  /\ pc \in [Proc -> Pc] /\ tries \in [Proc -> 0..Retries] /\ again \in [Proc -> BOOLEAN]
  /\ seen \in [Proc -> Proc \union {None}]
  /\ crashes \in 0..MaxCrashes /\ overdue \in BOOLEAN

Init ==
  /\ lock = NoLock
  /\ prog = [p \in Proc |-> "none"] /\ pc = [p \in Proc |-> "off"]
  /\ tries = [p \in Proc |-> 0] /\ again = [p \in Proc |-> FALSE]
  /\ seen = [p \in Proc |-> None]
  /\ crashes = 0 /\ overdue = FALSE

Goto(p, l) == pc' = [pc EXCEPT ![p] = l]

\* The locals of a call that are not used any more.
Forget(p) == /\ tries' = [tries EXCEPT ![p] = 0] /\ again' = [again EXCEPT ![p] = FALSE]
             /\ seen' = [seen EXCEPT ![p] = None]

----------------------------------------------------------------------------
(* create_lock_file *)

\* A commit calls get_config_lock.
Begin(p) ==
  /\ pc[p] = "off" /\ prog[p] = "none"
  /\ prog' = [prog EXCEPT ![p] = "commit"]
  /\ tries' = [tries EXCEPT ![p] = 0] /\ again' = [again EXCEPT ![p] = TRUE]
  /\ Goto(p, "open")
  /\ UNCHANGED <<lock, seen, crashes, overdue>>

\* Faulty: open() without O_EXCL.
CreateAnyway(p) ==
  /\ pc[p] = "open"
  /\ lock' = [by |-> p, text |-> None]
  /\ Goto(p, "write")
  /\ Forget(p)
  /\ UNCHANGED <<prog, crashes, overdue>>

\* open() with O_CREAT and O_EXCL
Create(p) ==
  /\ pc[p] = "open" /\ lock = NoLock
  /\ lock' = [by |-> p, text |-> None]
  /\ Goto(p, "write")
  /\ Forget(p)
  /\ UNCHANGED <<prog, crashes, overdue>>

\* Faulty: the retries are not counted.
RetryUncounted(p) ==
  /\ pc[p] = "open" /\ lock # NoLock /\ tries[p] < Retries
  /\ UNCHANGED <<lock, prog, pc, tries, again, seen, crashes, overdue>>

Retry(p) ==
  /\ pc[p] = "open" /\ lock # NoLock /\ tries[p] < Retries
  /\ tries' = [tries EXCEPT ![p] = @ + 1]
  /\ UNCHANGED <<lock, prog, pc, again, seen, crashes, overdue>>

GiveUp(p) ==
  /\ pc[p] = "open" /\ lock # NoLock /\ tries[p] = Retries
  /\ overdue' = TRUE
  /\ Goto(p, IF again[p] THEN "read" ELSE "fail")
  /\ Forget(p)
  /\ UNCHANGED <<lock, prog, crashes>>

----------------------------------------------------------------------------
(* try_lock_cleanup *)

\* The file is gone or its text not written yet: no cleanup.
ReadLock(p) ==
  /\ pc[p] = "read"
  /\ seen' = [seen EXCEPT ![p] = lock.text]
  /\ Goto(p, IF lock.text = None THEN "fail" ELSE "stat")
  /\ UNCHANGED <<lock, prog, tries, again, crashes, overdue>>

StatProc(p) ==
  /\ pc[p] = "stat"
  /\ Goto(p, IF prog[seen[p]] = "none" THEN "unlink" ELSE "cmdline")
  /\ UNCHANGED <<lock, prog, tries, again, seen, crashes, overdue>>

\* Gone meanwhile, or a commit: no cleanup.
ReadCmdline(p) ==
  /\ pc[p] = "cmdline"
  /\ Goto(p, IF prog[seen[p]] = "other" THEN "unlink" ELSE "fail")
  /\ Forget(p)
  /\ UNCHANGED <<lock, prog, crashes, overdue>>

Unlink(p) ==
  /\ pc[p] = "unlink"
  /\ lock' = NoLock
  /\ Goto(p, "recheck")
  /\ Forget(p)
  /\ UNCHANGED <<prog, crashes, overdue>>

\* create_lock_file(0), with its own count of retries, unless the file is there again.
Recheck(p) ==
  /\ pc[p] = "recheck"
  /\ Goto(p, IF lock = NoLock THEN "open" ELSE "fail")
  /\ UNCHANGED <<lock, prog, tries, again, seen, crashes, overdue>>

----------------------------------------------------------------------------
(* get_config_lock, release_config_lock *)

\* The path goes to the file this process created, whatever LOCK_FILE names now.
WritePid(p) ==
  /\ pc[p] = "write"
  /\ lock' = IF lock.by = p THEN [lock EXCEPT !.text = p] ELSE lock
  /\ Goto(p, "hold")
  /\ UNCHANGED <<prog, tries, again, seen, crashes, overdue>>

\* fdopen, fprintf, fclose or atexit fails; the text may have been written.
WriteFails(p) ==
  /\ pc[p] = "write"
  /\ lock' \in {lock, IF lock.by = p THEN [lock EXCEPT !.text = p] ELSE lock}
  /\ Goto(p, "fail")
  /\ UNCHANGED <<prog, tries, again, seen, crashes, overdue>>

\* Faulty: a commit that fails leaves the file.
FailKeeping(p) ==
  /\ pc[p] = "fail"
  /\ prog' = [prog EXCEPT ![p] = "none"]
  /\ Goto(p, "off")
  /\ UNCHANGED <<lock, tries, again, seen, crashes, overdue>>

\* -1: release_config_lock removes the file, whoever made it. The commit ends.
Fail(p) ==
  /\ pc[p] = "fail"
  /\ lock' = NoLock
  /\ prog' = [prog EXCEPT ![p] = "none"]
  /\ Goto(p, "off")
  /\ UNCHANGED <<tries, again, seen, crashes, overdue>>

\* The exit handler
Exit(p) ==
  /\ pc[p] = "hold"
  /\ lock' = NoLock
  /\ prog' = [prog EXCEPT ![p] = "none"]
  /\ Goto(p, "off")
  /\ UNCHANGED <<tries, again, seen, crashes, overdue>>

----------------------------------------------------------------------------
(* The environment *)

\* Killed: no exit handler runs and the file stays.
Crash(p) ==
  /\ pc[p] # "off" /\ crashes < MaxCrashes
  /\ crashes' = crashes + 1
  /\ prog' = [prog EXCEPT ![p] = "none"]
  /\ Goto(p, "off")
  /\ Forget(p)
  /\ UNCHANGED <<lock, overdue>>

\* Another program starts or ends under the pid.
Other(p) ==
  /\ pc[p] = "off"
  /\ prog' = [prog EXCEPT ![p] = IF prog[p] = "none" THEN "other" ELSE "none"]
  /\ UNCHANGED <<lock, pc, tries, again, seen, crashes, overdue>>

GetLock(p) == \/ Create(p) \/ Retry(p) \/ GiveUp(p)
              \/ ReadLock(p) \/ StatProc(p) \/ ReadCmdline(p) \/ Unlink(p) \/ Recheck(p)
              \/ WritePid(p) \/ WriteFails(p) \/ Fail(p)

Next == \E p \in Proc : Begin(p) \/ GetLock(p) \/ Exit(p) \/ Crash(p) \/ Other(p)

Spec == Init /\ [][Next]_vars

\* The kernel schedules a process within get_config_lock and ends its sleeps. A commit
\* that has the lock may hold it for ever, and nobody need start another.
FairSpec == Spec /\ \A p \in Proc : WF_vars(GetLock(p))

----------------------------------------------------------------------------
(* Properties *)

\* Until somebody runs out of retries, the lock file is that of the process that has
\* the lock: so no two have it, whoever crashes or fails to write, and whatever pids
\* are reused.
HolderOwnsFile ==
  ~overdue => \A p \in Proc : pc[p] \in {"write", "hold", "fail"} => lock.by = p

\* "it is commit. can't clean up": while a commit holds the lock, its file stays.
HolderKeepsFile ==
  [][\A p \in Proc : lock.by = p /\ pc[p] = "hold" /\ pc'[p] = "hold" => lock' = lock]_vars

\* get_config_lock returns, with the lock or without, however long others hold it.
AnswerComes == \A p \in Proc : (pc[p] = "open") ~> (pc[p] \in {"hold", "off"})

\* A commit killed while it has the lock, its path written or not, does not keep the
\* others from it for ever, if somebody keeps asking.
Orphan == lock # NoLock /\ pc[lock.by] \notin {"write", "hold", "fail"}
OrphanGoes == []<>(\E p \in Proc : pc[p] = "open") => (Orphan ~> ~Orphan)
============================================================================
