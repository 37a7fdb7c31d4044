------------------------- MODULE ConfigLockProofs -------------------------
(* Theorems about ConfigLock, for any number of processes and retries. *)
EXTENDS ConfigLock, TLAPS

LEMMA ForgetType ==
  ASSUME TypeOK, NEW p \in Proc, Forget(p)
  PROVE  /\ tries' \in [Proc -> 0..Retries] /\ again' \in [Proc -> BOOLEAN]
         /\ seen' \in [Proc -> Proc \union {None}]
<1>1. 0 \in 0..Retries
  BY ConstantsOK DEF ConstantsOK
<1> QED
  BY <1>1 DEF TypeOK, Forget

LEMMA GotoType ==
  ASSUME TypeOK, NEW p \in Proc, NEW l \in Pc, Goto(p, l)
  PROVE  pc' \in [Proc -> Pc] /\ pc'[p] = l /\ \A q \in Proc \ {p} : pc'[q] = pc[q]
BY DEF TypeOK, Goto

LEMMA NextType == TypeOK /\ [Next]_vars => TypeOK'
<1> SUFFICES ASSUME TypeOK, [Next]_vars
             PROVE  TypeOK'
  OBVIOUS
<1>0. 0 \in 0..Retries /\ NoLock \in [by: Proc \union {None}, text: Proc \union {None}]
  BY ConstantsOK DEF ConstantsOK, NoLock
<1>1. ASSUME NEW p \in Proc, Begin(p)
      PROVE  TypeOK'
  BY <1>0, <1>1, GotoType DEF Begin, TypeOK, Pc
<1>2. ASSUME NEW p \in Proc, Create(p)
      PROVE  TypeOK'
  BY <1>2, ForgetType, GotoType DEF Create, TypeOK, Pc
<1>3. ASSUME NEW p \in Proc, Retry(p)
      PROVE  TypeOK'
  <2>1. tries' \in [Proc -> 0..Retries]
    BY <1>3, ConstantsOK DEF Retry, TypeOK, ConstantsOK
  <2> QED
    BY <1>3, <2>1 DEF Retry, TypeOK
<1>4. ASSUME NEW p \in Proc, GiveUp(p)
      PROVE  TypeOK'
  <2>1. (IF again[p] THEN "read" ELSE "fail") \in Pc
    BY DEF Pc
  <2> QED
    BY <1>4, <2>1, ForgetType, GotoType DEF GiveUp, TypeOK
<1>5. ASSUME NEW p \in Proc, ReadLock(p)
      PROVE  TypeOK'
  <2>1. (IF lock.text = None THEN "fail" ELSE "stat") \in Pc
    BY DEF Pc
  <2> QED
    BY <1>5, <2>1, GotoType DEF ReadLock, TypeOK
<1>6. ASSUME NEW p \in Proc, StatProc(p) \/ ReadCmdline(p)
      PROVE  TypeOK'
  <2>1. /\ (IF prog[seen[p]] = "none" THEN "unlink" ELSE "cmdline") \in Pc
        /\ (IF prog[seen[p]] = "other" THEN "unlink" ELSE "fail") \in Pc
    BY DEF Pc
  <2> QED
    BY <1>6, <2>1, ForgetType, GotoType DEF StatProc, ReadCmdline, TypeOK
<1>7. ASSUME NEW p \in Proc, Unlink(p)
      PROVE  TypeOK'
  BY <1>0, <1>7, ForgetType, GotoType DEF Unlink, TypeOK, Pc
<1>8. ASSUME NEW p \in Proc, Recheck(p)
      PROVE  TypeOK'
  <2>1. (IF lock = NoLock THEN "open" ELSE "fail") \in Pc
    BY DEF Pc
  <2> QED
    BY <1>8, <2>1, GotoType DEF Recheck, TypeOK
<1>9. ASSUME NEW p \in Proc, WritePid(p) \/ WriteFails(p)
      PROVE  TypeOK'
  BY <1>9, GotoType DEF WritePid, WriteFails, TypeOK, Pc
<1>10. ASSUME NEW p \in Proc, Fail(p) \/ Exit(p)
       PROVE  TypeOK'
  BY <1>0, <1>10, GotoType DEF Fail, Exit, TypeOK, Pc
<1>11. ASSUME NEW p \in Proc, Crash(p)
       PROVE  TypeOK'
  <2>1. crashes' \in 0..MaxCrashes
    BY <1>11, ConstantsOK DEF Crash, TypeOK, ConstantsOK
  <2> QED
    BY <1>11, <2>1, ForgetType, GotoType DEF Crash, TypeOK, Pc
<1>12. ASSUME NEW p \in Proc, Other(p)
       PROVE  TypeOK'
  BY <1>12 DEF Other, TypeOK
<1>13. CASE UNCHANGED vars
  BY <1>13 DEF vars, TypeOK
<1> QED
  BY <1>1, <1>2, <1>3, <1>4, <1>5, <1>6, <1>7, <1>8, <1>9, <1>10, <1>11, <1>12, <1>13
     DEF Next, GetLock

\* Every variable of the lock keeps its type.
THEOREM TypeInvariant == Spec => []TypeOK
<1>1. Init => TypeOK
  <2>1. 0 \in 0..Retries /\ 0 \in 0..MaxCrashes
    BY ConstantsOK DEF ConstantsOK
  <2>2. NoLock \in [by: Proc \union {None}, text: Proc \union {None}]
    BY DEF NoLock
  <2> SUFFICES ASSUME Init PROVE TypeOK
    OBVIOUS
  <2>3. /\ prog \in [Proc -> {"none", "commit", "other"}] /\ pc \in [Proc -> Pc]
        /\ seen \in [Proc -> Proc \union {None}]
    BY DEF Init, Pc
  <2>4. tries \in [Proc -> 0..Retries] /\ again \in [Proc -> BOOLEAN]
    BY <2>1 DEF Init
  <2> QED
    BY <2>1, <2>2, <2>3, <2>4 DEF Init, TypeOK
<1> QED
  BY <1>1, NextType, PTL DEF Spec

----------------------------------------------------------------------------
(* Who has the lock owns the file *)

\* Only a process out of retries is in try_lock_cleanup, or gives the lock up without
\* having created its file.
OwnInv == ~overdue =>
  \A p \in Proc : /\ pc[p] \in {"off", "open", "write", "hold", "fail"}
                  /\ pc[p] \in {"write", "hold", "fail"} => lock.by = p

\* A step of p that leaves p the owner of the file, or without a claim to it.
LEMMA OwnKept ==
  ASSUME TypeOK, NEW p \in Proc, ~overdue, OwnInv,
         \A q \in Proc \ {p} : pc'[q] = pc[q],
         pc'[p] \in {"off", "open", "write", "hold", "fail"},
         pc'[p] \in {"write", "hold", "fail"} => lock'.by = p,
         lock'.by = lock.by \/ lock.by \in {p, None}
  PROVE  OwnInv'
<1>1. p # None /\ \A q \in Proc : q # None
  BY ConstantsOK DEF ConstantsOK
<1>2. ASSUME NEW q \in Proc \ {p}, pc'[q] \in {"write", "hold", "fail"}
      PROVE  lock'.by = q
  <2>1. lock.by = q
    BY <1>2 DEF OwnInv
  <2> QED
    BY <1>1, <2>1
<1> QED
  BY <1>2 DEF OwnInv

LEMMA OwnStep ==
  ASSUME TypeOK, OwnInv, [Next]_vars
  PROVE  OwnInv'
<1>1. CASE overdue'
  BY <1>1 DEF OwnInv
<1>2. CASE ~overdue'
  <2>1. ~overdue
    BY <1>2 DEF Next, GetLock, Begin, Create, Retry, GiveUp, ReadLock, StatProc, ReadCmdline,
                Unlink, Recheck, WritePid, WriteFails, Fail, Exit, Crash, Other, vars
  <2>2. \A p \in Proc : /\ pc[p] \in {"off", "open", "write", "hold", "fail"}
                        /\ pc[p] \in {"write", "hold", "fail"} => lock.by = p
    BY <2>1 DEF OwnInv
  <2>3. ASSUME NEW p \in Proc, Begin(p) \/ Retry(p) \/ Crash(p) \/ Other(p)
        PROVE  OwnInv'
    <3>1. UNCHANGED lock /\ pc'[p] \in {"off", "open"} /\ \A q \in Proc \ {p} : pc'[q] = pc[q]
      BY <2>3 DEF Begin, Retry, Crash, Other, Goto, TypeOK
    <3> QED
      BY <2>1, <3>1, OwnKept
  <2>4. ASSUME NEW p \in Proc, Create(p)
        PROVE  OwnInv'
    <3>1. /\ lock.by = None /\ lock'.by = p /\ pc'[p] = "write"
          /\ \A q \in Proc \ {p} : pc'[q] = pc[q]
      BY <2>4 DEF Create, Goto, TypeOK, NoLock
    <3> QED
      BY <2>1, <3>1, OwnKept
  <2>5. ASSUME NEW p \in Proc, WritePid(p) \/ WriteFails(p)
        PROVE  OwnInv'
    <3>1. /\ lock'.by = lock.by /\ pc[p] = "write" /\ pc'[p] \in {"hold", "fail"}
          /\ \A q \in Proc \ {p} : pc'[q] = pc[q]
      BY <2>5 DEF WritePid, WriteFails, Goto, TypeOK
    <3> QED
      BY <2>1, <2>2, <3>1, OwnKept
  <2>6. ASSUME NEW p \in Proc, Fail(p) \/ Exit(p)
        PROVE  OwnInv'
    <3>1. /\ pc[p] \in {"fail", "hold"} /\ pc'[p] = "off"
          /\ \A q \in Proc \ {p} : pc'[q] = pc[q]
      BY <2>6 DEF Fail, Exit, Goto, TypeOK
    <3>2. lock.by = p
      BY <2>2, <3>1
    <3> QED
      BY <2>1, <3>1, <3>2, OwnKept
  <2>7. ASSUME NEW p \in Proc,
               ReadLock(p) \/ StatProc(p) \/ ReadCmdline(p) \/ Unlink(p) \/ Recheck(p) \/ GiveUp(p)
        PROVE  FALSE
    BY <1>2, <2>2, <2>7 DEF ReadLock, StatProc, ReadCmdline, Unlink, Recheck, GiveUp
  <2>8. CASE UNCHANGED vars
    BY <2>8 DEF vars, OwnInv
  <2> QED
    BY <2>3, <2>4, <2>5, <2>6, <2>7, <2>8 DEF Next, GetLock
<1> QED
  BY <1>1, <1>2

\* Until a process runs out of retries, the lock file belongs to the one process that has
\* the lock, through crashes, failed writes and reused pids (get_config_lock).
THEOREM HolderOwnsFileTheorem == Spec => []HolderOwnsFile
<1>1. Init => OwnInv
  BY DEF Init, OwnInv
<1>2. TypeOK /\ OwnInv /\ [Next]_vars => OwnInv'
  BY OwnStep
<1>3. OwnInv => HolderOwnsFile
  BY DEF OwnInv, HolderOwnsFile
<1> QED
  BY <1>1, <1>2, <1>3, TypeInvariant, PTL DEF Spec

\* So no two processes have it.
THEOREM MutualExclusion ==
  Spec => [](~overdue => \A p, q \in Proc :
                           pc[p] \in {"write", "hold"} /\ pc[q] \in {"write", "hold"} => p = q)
<1>1. HolderOwnsFile => (~overdue => \A p, q \in Proc :
                           pc[p] \in {"write", "hold"} /\ pc[q] \in {"write", "hold"} => p = q)
  BY DEF HolderOwnsFile
<1> QED
  BY <1>1, HolderOwnsFileTheorem, PTL
============================================================================
