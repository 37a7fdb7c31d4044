-------------------------- MODULE SessionsProofs --------------------------
(* Theorems about Sessions, for any number of windows, users and sessions,  *)
(* any timeout, and, where Timely is not a hypothesis, requests as slow as  *)
(* they like.                                                               *)
EXTENDS Sessions, TLAPS

Discarding == {"umount", "clear", "mount", "unlink"}
Giving     == {"make", "create", "write", "start"}

\* Where a request is tells what its locals hold. Session ids have been drawn before
\* they are used for anything.
Placed ==
  /\ \A w \in Window : pc[w] \in Discarding \union Giving => sid[w] \in used
  /\ \A w \in Window : pc[w] = "mount" => sid[w] \in dir
  /\ \A w \in Window : id[w] # None => id[w] \in used
  /\ \A w \in Window : kind[w] # "login" => id[w] # None
  /\ \A w \in Window : pc[w] \in {"read", "update", "execute"} => kind[w] # "login"
  /\ \A s \in Sid : cookie[s] # Absent => s \in used

\* A window has a claim to the session it was given, and to the one it is being given.
Claims(w, s) == id[w] = s \/ (sid[w] = s /\ pc[w] \in Giving)

\* Whoever has a claim to a session is the user its cookie file names, if it names one.
\* Two who have a claim to the same session are the same user.
Owned == \A s \in Sid :
  /\ \A w \in Window : Claims(w, s) => cookie[s] \in {user[w], None, Absent}
  /\ \A v, w \in Window : Claims(v, s) /\ Claims(w, s) => user[v] = user[w]

\* A session that has a cookie file, or may get one, is mounted or about to be.
Remounting(s) == \E w \in Window : sid[w] = s /\ pc[w] \in {"clear", "mount"}
Usable(s) == \/ cookie[s] # Absent
             \/ \E w \in Window : \/ id[w] = s
                                  \/ sid[w] = s /\ pc[w] \in {"create", "write", "start"}
KeptMounted == \A s \in Sid : Usable(s) => s \in mounted \/ Remounting(s)

----------------------------------------------------------------------------
LEMMA TicksOK ==
  /\ 0 \in Ticks
  /\ \A a \in Ticks : a > Timeout \/ a + 1 \in Ticks
BY ConstantsOK DEF Ticks

\* A request that answers leaves its locals empty.
LEMMA AnswerType ==
  ASSUME TypeOK, NEW w \in Window, Answer(w)
  PROVE  /\ pc' \in [Window -> Pc] /\ kind' \in [Window -> {"login", "op", "conf", "discard"}]
         /\ todo' \in [Window -> SUBSET Sid] /\ sid' \in [Window -> Sid \union {None}]
         /\ as' \in [Window -> User \union {None}]
<1>1. pc \in [Window -> Pc] /\ kind \in [Window -> {"login", "op", "conf", "discard"}]
  BY DEF TypeOK
<1>2. /\ todo \in [Window -> SUBSET Sid] /\ sid \in [Window -> Sid \union {None}]
      /\ as \in [Window -> User \union {None}]
  BY DEF TypeOK
<1>3. pc' \in [Window -> Pc] /\ kind' \in [Window -> {"login", "op", "conf", "discard"}]
  BY <1>1 DEF Answer, Goto, Pc
<1>4. /\ todo' \in [Window -> SUBSET Sid] /\ sid' \in [Window -> Sid \union {None}]
      /\ as' \in [Window -> User \union {None}]
  BY <1>2 DEF Answer
<1> QED
  BY <1>3, <1>4

\* Every step keeps the types and the places.
LEMMA TypeStep ==
  ASSUME TypeOK, Placed, [Next]_vars
  PROVE  TypeOK' /\ Placed'
<1> USE ConstantsOK, TicksOK
<1>1. CASE UNCHANGED vars
  BY <1>1 DEF vars, files, TypeOK, Pc, Placed, Discarding, Giving
<1>2. ASSUME NEW w \in Window, ScanYoung(w)
       PROVE  TypeOK' /\ Placed'
  <2>1. PICK s \in todo[w] : ~Old(s) /\ todo' = [todo EXCEPT ![w] = @ \ {s}]
    BY <1>2 DEF ScanYoung
  <2>2. TypeOK'
    BY <1>2, <2>1 DEF TypeOK, Pc, files, Placed, Discarding, Giving, ScanYoung, Goto, Old
  <2>3. Placed'
    BY <1>2, <2>1 DEF TypeOK, files, Placed, Discarding, Giving, ScanYoung, Goto, Old
  <2> QED BY <2>2, <2>3
<1>3. ASSUME NEW w \in Window, ScanOld(w)
       PROVE  TypeOK' /\ Placed'
  <2>1. PICK s \in todo[w] : /\ Old(s)
                          /\ todo' = [todo EXCEPT ![w] = @ \ {s}]
                          /\ sid' = [sid EXCEPT ![w] = s]
    BY <1>3 DEF ScanOld
  <2>2. TypeOK'
    BY <1>3, <2>1 DEF TypeOK, Pc, files, Placed, Discarding, Giving, ScanOld, Goto, Old
  <2>3. Placed'
    BY <1>3, <2>1 DEF TypeOK, files, Placed, Discarding, Giving, ScanOld, Goto, Old
  <2> QED BY <2>2, <2>3
<1>4. ASSUME NEW w \in Window, ScanDone(w)
       PROVE  TypeOK' /\ Placed'
  <2>1. TypeOK'
    BY <1>4 DEF TypeOK, Pc, files, Placed, Discarding, Giving, ScanDone, Goto
  <2>2. Placed'
    BY <1>4 DEF TypeOK, files, Placed, Discarding, Giving, ScanDone, Goto
  <2> QED BY <2>1, <2>2
<1>5. ASSUME NEW w \in Window, Umount(w)
       PROVE  TypeOK' /\ Placed'
  <2>1. TypeOK'
    BY <1>5 DEF TypeOK, Pc, files, Placed, Discarding, Giving, Umount, Goto
  <2>2. Placed'
    BY <1>5 DEF TypeOK, files, Placed, Discarding, Giving, Umount, Goto
  <2> QED BY <2>1, <2>2
<1>6. ASSUME NEW w \in Window, Clear(w)
       PROVE  TypeOK' /\ Placed'
  <2>1. TypeOK'
    <3>1. /\ sid[w] \in used /\ changes' = changes \ {sid[w]} /\ dir' = dir \union {sid[w]}
          /\ UNCHANGED <<user, cookie, age, mounted, used, id, kind, todo, sid, as, quiet, raced>>
      BY <1>6 DEF Clear, Placed, Discarding
    <3>2. pc' \in [Window -> Pc]
      BY <1>6 DEF TypeOK, Pc, Clear, Goto
    <3> QED BY <3>1, <3>2 DEF TypeOK
  <2>2. Placed'
    BY <1>6 DEF TypeOK, files, Placed, Discarding, Giving, Clear, Goto
  <2> QED BY <2>1, <2>2
<1>7. ASSUME NEW w \in Window, Mount(w)
       PROVE  TypeOK' /\ Placed'
  <2>1. TypeOK'
    <3>0. sid[w] \in dir /\ mounted' = mounted \union {sid[w]}
      BY <1>7 DEF Mount, Placed
    <3>1. CASE as[w] # None
      <4>1. Answer(w)
        BY <1>7, <3>1 DEF Mount
      <4>2. UNCHANGED <<user, cookie, age, dir, changes, used, id, quiet, raced>>
        BY <1>7 DEF Mount
      <4> QED BY <3>0, <4>1, <4>2, AnswerType DEF TypeOK
    <3>2. CASE as[w] = None
      <4>1. pc' \in [Window -> Pc]
        BY <1>7, <3>2 DEF TypeOK, Pc, Mount, Goto
      <4>2. UNCHANGED <<user, cookie, age, dir, changes, used, id, kind, todo, sid, as,
                        quiet, raced>>
        BY <1>7, <3>2 DEF Mount
      <4> QED BY <3>0, <4>1, <4>2 DEF TypeOK
    <3> QED BY <3>1, <3>2
  <2>2. Placed'
    <3>1. CASE as[w] # None
      BY <1>7, <3>1 DEF TypeOK, files, Placed, Discarding, Giving, Mount, Answer, Goto
    <3>2. CASE as[w] = None
      BY <1>7, <3>2 DEF TypeOK, files, Placed, Discarding, Giving, Mount, Answer, Goto
    <3> QED BY <3>1, <3>2
  <2> QED BY <2>1, <2>2
<1>8. ASSUME NEW w \in Window, Unlink(w)
       PROVE  TypeOK' /\ Placed'
  <2>1. TypeOK'
    BY <1>8 DEF TypeOK, Pc, files, Placed, Discarding, Giving, Unlink, Goto
  <2>2. Placed'
    BY <1>8 DEF TypeOK, files, Placed, Discarding, Giving, Unlink, Goto
  <2> QED BY <2>1, <2>2
<1>9. ASSUME NEW w \in Window, AuthFails(w)
       PROVE  TypeOK' /\ Placed'
  <2>1. TypeOK'
    BY <1>9 DEF TypeOK, Pc, files, Placed, Discarding, Giving, AuthFails, Answer, Goto
  <2>2. Placed'
    BY <1>9 DEF TypeOK, files, Placed, Discarding, Giving, AuthFails, Answer, Goto
  <2> QED BY <2>1, <2>2
<1>10. ASSUME NEW w \in Window, Reuse(w)
       PROVE  TypeOK' /\ Placed'
  <2>1. PICK s \in Mine(w) : sid' = [sid EXCEPT ![w] = s]
    BY <1>10 DEF Reuse
  <2>2. TypeOK'
    BY <1>10, <2>1 DEF TypeOK, Pc, files, Placed, Discarding, Giving, Reuse, Goto, Mine
  <2>3. Placed'
    BY <1>10, <2>1 DEF TypeOK, files, Placed, Discarding, Giving, Reuse, Goto, Mine
  <2> QED BY <2>2, <2>3
<1>11. ASSUME NEW w \in Window, NewId(w)
       PROVE  TypeOK' /\ Placed'
  <2>1. PICK s \in Sid \ used : used' = used \union {s} /\ sid' = [sid EXCEPT ![w] = s]
    BY <1>11 DEF NewId
  <2>2. TypeOK'
    BY <1>11, <2>1 DEF TypeOK, Pc, files, Placed, Discarding, Giving, NewId, Goto,
       Mine, Making
  <2>3. Placed'
    BY <1>11, <2>1 DEF TypeOK, files, Placed, Discarding, Giving, NewId, Goto,
       Mine, Making
  <2> QED BY <2>2, <2>3
<1>12. ASSUME NEW w \in Window, MakeSession(w)
       PROVE  TypeOK' /\ Placed'
  <2>1. TypeOK'
    <3>1. /\ sid[w] \in used /\ dir' = dir \union {sid[w]} /\ mounted' = mounted \union {sid[w]}
          /\ UNCHANGED <<user, cookie, age, changes, used, id, kind, todo, sid, as, quiet, raced>>
      BY <1>12 DEF MakeSession, Placed, Giving
    <3>2. pc' \in [Window -> Pc]
      BY <1>12 DEF TypeOK, Pc, MakeSession, Goto
    <3> QED BY <3>1, <3>2 DEF TypeOK
  <2>2. Placed'
    BY <1>12 DEF TypeOK, files, Placed, Discarding, Giving, MakeSession, Goto
  <2> QED BY <2>1, <2>2
<1>13. ASSUME NEW w \in Window, MakeFails(w)
       PROVE  TypeOK' /\ Placed'
  <2>1. TypeOK'
    <3>1. /\ sid[w] \in used /\ dir' = dir \union {sid[w]}
          /\ UNCHANGED <<user, cookie, age, mounted, changes, used, id, quiet, raced>>
      BY <1>13 DEF MakeFails, Placed, Giving
    <3>2. Answer(w)
      BY <1>13 DEF MakeFails
    <3> QED BY <3>1, <3>2, AnswerType DEF TypeOK
  <2>2. Placed'
    BY <1>13 DEF TypeOK, files, Placed, Discarding, Giving, MakeFails, Answer, Goto
  <2> QED BY <2>1, <2>2
<1>14. ASSUME NEW w \in Window, CreateCookie(w)
       PROVE  TypeOK' /\ Placed'
  <2>1. TypeOK'
    BY <1>14 DEF TypeOK, Pc, files, Placed, Discarding, Giving, CreateCookie, Goto
  <2>2. Placed'
    BY <1>14 DEF TypeOK, files, Placed, Discarding, Giving, CreateCookie, Goto
  <2> QED BY <2>1, <2>2
<1>15. ASSUME NEW w \in Window, CreateFails(w)
       PROVE  TypeOK' /\ Placed'
  <2>1. TypeOK'
    BY <1>15 DEF TypeOK, Pc, files, Placed, Discarding, Giving, CreateFails, Answer, Goto
  <2>2. Placed'
    BY <1>15 DEF TypeOK, files, Placed, Discarding, Giving, CreateFails, Answer, Goto
  <2> QED BY <2>1, <2>2
<1>16. ASSUME NEW w \in Window, WriteCookie(w)
       PROVE  TypeOK' /\ Placed'
  <2>1. TypeOK'
    BY <1>16 DEF TypeOK, Pc, files, Placed, Discarding, Giving, WriteCookie, Goto
  <2>2. Placed'
    BY <1>16 DEF TypeOK, files, Placed, Discarding, Giving, WriteCookie, Goto
  <2> QED BY <2>1, <2>2
<1>17. ASSUME NEW w \in Window, StartSession(w)
       PROVE  TypeOK' /\ Placed'
  <2>1. TypeOK'
    BY <1>17 DEF TypeOK, Pc, files, Placed, Discarding, Giving, StartSession, Answer,
       Goto, Touch
  <2>2. Placed'
    BY <1>17 DEF TypeOK, files, Placed, Discarding, Giving, StartSession, Answer,
       Goto, Touch
  <2> QED BY <2>1, <2>2
<1>18. ASSUME NEW w \in Window, Refuse(w)
       PROVE  TypeOK' /\ Placed'
  <2>1. TypeOK'
    BY <1>18 DEF TypeOK, Pc, files, Placed, Discarding, Giving, Refuse, Answer, Goto
  <2>2. Placed'
    BY <1>18 DEF TypeOK, files, Placed, Discarding, Giving, Refuse, Answer, Goto
  <2> QED BY <2>1, <2>2
<1>19. ASSUME NEW w \in Window, ReadFails(w)
       PROVE  TypeOK' /\ Placed'
  <2>1. TypeOK'
    BY <1>19 DEF TypeOK, Pc, files, Placed, Discarding, Giving, ReadFails, Answer, Goto
  <2>2. Placed'
    BY <1>19 DEF TypeOK, files, Placed, Discarding, Giving, ReadFails, Answer, Goto
  <2> QED BY <2>1, <2>2
<1>20. ASSUME NEW w \in Window, ReadCookie(w)
       PROVE  TypeOK' /\ Placed'
  <2>1. TypeOK'
    BY <1>20 DEF TypeOK, Pc, files, Placed, Discarding, Giving, ReadCookie, Goto
  <2>2. Placed'
    BY <1>20 DEF TypeOK, files, Placed, Discarding, Giving, ReadCookie, Goto
  <2> QED BY <2>1, <2>2
<1>21. ASSUME NEW w \in Window, Update(w)
       PROVE  TypeOK' /\ Placed'
  <2>1. TypeOK'
    BY <1>21 DEF TypeOK, Pc, files, Placed, Discarding, Giving, Update, Goto, Touch
  <2>2. Placed'
    BY <1>21 DEF TypeOK, files, Placed, Discarding, Giving, Update, Goto, Touch
  <2> QED BY <2>1, <2>2
<1>22. ASSUME NEW w \in Window, ExecuteOp(w)
       PROVE  TypeOK' /\ Placed'
  <2>1. TypeOK'
    BY <1>22 DEF TypeOK, Pc, files, Placed, Discarding, Giving, ExecuteOp, Answer, Goto
  <2>2. Placed'
    BY <1>22 DEF TypeOK, files, Placed, Discarding, Giving, ExecuteOp, Answer, Goto
  <2> QED BY <2>1, <2>2
<1>23. ASSUME NEW w \in Window, ExecuteConf(w)
       PROVE  TypeOK' /\ Placed'
  <2>1. TypeOK'
    BY <1>23 DEF TypeOK, Pc, files, Placed, Discarding, Giving, ExecuteConf, Answer, Goto
  <2>2. Placed'
    BY <1>23 DEF TypeOK, files, Placed, Discarding, Giving, ExecuteConf, Answer, Goto
  <2> QED BY <2>1, <2>2
<1>24. ASSUME NEW w \in Window, ExecuteDiscard(w)
       PROVE  TypeOK' /\ Placed'
  <2>1. TypeOK'
    BY <1>24 DEF TypeOK, Pc, files, Placed, Discarding, Giving, ExecuteDiscard, Goto
  <2>2. Placed'
    BY <1>24 DEF TypeOK, files, Placed, Discarding, Giving, ExecuteDiscard, Goto
  <2> QED BY <2>1, <2>2
<1>25. ASSUME NEW w \in Window, Kill(w)
       PROVE  TypeOK' /\ Placed'
  <2>1. TypeOK'
    BY <1>25 DEF TypeOK, Pc, files, Placed, Discarding, Giving, Kill, Answer, Goto
  <2>2. Placed'
    BY <1>25 DEF TypeOK, files, Placed, Discarding, Giving, Kill, Answer, Goto
  <2> QED BY <2>1, <2>2
<1>26. ASSUME NEW w \in Window, NEW k \in {"login", "op", "conf", "discard"}, Request(w, k)
       PROVE  TypeOK' /\ Placed'
  <2>1. TypeOK'
    BY <1>26 DEF TypeOK, Pc, files, Placed, Discarding, Giving, Request, Goto
  <2>2. Placed'
    BY <1>26 DEF TypeOK, files, Placed, Discarding, Giving, Request, Goto
  <2> QED BY <2>1, <2>2
<1>27. CASE Tick
  <2>1. TypeOK'
    BY <1>27 DEF TypeOK, Pc, files, Placed, Discarding, Giving, Tick, Older
  <2>2. Placed'
    BY <1>27 DEF TypeOK, files, Placed, Discarding, Giving, Tick, Older
  <2> QED BY <2>1, <2>2
<1> QED
  BY <1>1, <1>2, <1>3, <1>4, <1>5, <1>6, <1>7, <1>8, <1>9, <1>10, <1>11, <1>12, <1>13,
     <1>14, <1>15, <1>16, <1>17, <1>18, <1>19, <1>20, <1>21, <1>22, <1>23, <1>24, <1>25, <1>26,
     <1>27
  DEF Next, Serve, Cleanup, Login, Command

\* Every step keeps sessions with their users.
LEMMA OwnedStep ==
  ASSUME TypeOK, Placed, Owned, AsItself, [Next]_vars
  PROVE  Owned' /\ AsItself'
<1> USE ConstantsOK
<1>1. CASE UNCHANGED vars
  <2>1. UNCHANGED <<user, cookie, id, pc, sid, as>>
    BY <1>1 DEF vars, files
  <2>2. Owned'
    BY <2>1 DEF Claims, Owned, Giving
  <2>3. AsItself'
    BY <2>1 DEF AsItself
  <2> QED BY <2>2, <2>3
<1>2. ASSUME NEW w \in Window, ScanYoung(w)
       PROVE  Owned' /\ AsItself'
  <2>1. PICK s \in todo[w] : ~Old(s) /\ todo' = [todo EXCEPT ![w] = @ \ {s}]
    BY <1>2 DEF ScanYoung
  <2>2. Owned'
    BY <1>2, <2>1 DEF TypeOK, files, Claims, Owned, Placed, Discarding, Giving,
       ScanYoung, Goto, Old
  <2>3. AsItself'
    BY <1>2, <2>1 DEF TypeOK, files, Owned, Claims, AsItself, Placed, Discarding,
       Giving, ScanYoung, Goto, Old
  <2> QED BY <2>2, <2>3
<1>3. ASSUME NEW w \in Window, ScanOld(w)
       PROVE  Owned' /\ AsItself'
  <2>1. PICK s \in todo[w] : /\ Old(s)
                          /\ todo' = [todo EXCEPT ![w] = @ \ {s}]
                          /\ sid' = [sid EXCEPT ![w] = s]
    BY <1>3 DEF ScanOld
  <2>2. Owned'
    BY <1>3, <2>1 DEF TypeOK, files, Claims, Owned, Placed, Discarding, Giving,
       ScanOld, Goto, Old
  <2>3. AsItself'
    BY <1>3, <2>1 DEF TypeOK, files, Owned, Claims, AsItself, Placed, Discarding,
       Giving, ScanOld, Goto, Old
  <2> QED BY <2>2, <2>3
<1>4. ASSUME NEW w \in Window, ScanDone(w)
       PROVE  Owned' /\ AsItself'
  <2>1. Owned'
    BY <1>4 DEF TypeOK, files, Claims, Owned, Placed, Discarding, Giving, ScanDone, Goto
  <2>2. AsItself'
    BY <1>4 DEF TypeOK, files, Owned, Claims, AsItself, Placed, Discarding, Giving,
       ScanDone, Goto
  <2> QED BY <2>1, <2>2
<1>5. ASSUME NEW w \in Window, Umount(w)
       PROVE  Owned' /\ AsItself'
  <2>1. Owned'
    BY <1>5 DEF TypeOK, files, Claims, Owned, Placed, Discarding, Giving, Umount, Goto
  <2>2. AsItself'
    BY <1>5 DEF TypeOK, files, Owned, Claims, AsItself, Placed, Discarding, Giving,
       Umount, Goto
  <2> QED BY <2>1, <2>2
<1>6. ASSUME NEW w \in Window, Clear(w)
       PROVE  Owned' /\ AsItself'
  <2>1. Owned'
    BY <1>6 DEF TypeOK, files, Claims, Owned, Placed, Discarding, Giving, Clear, Goto
  <2>2. AsItself'
    BY <1>6 DEF TypeOK, files, Owned, Claims, AsItself, Placed, Discarding, Giving,
       Clear, Goto
  <2> QED BY <2>1, <2>2
<1>7. ASSUME NEW w \in Window, Mount(w)
       PROVE  Owned' /\ AsItself'
  <2>1. Owned'
    <3>1. \A v \in Window, s \in Sid : Claims(v, s)' => Claims(v, s)
      <4>1. CASE as[w] # None
        BY <1>7, <4>1 DEF TypeOK, Claims, Giving, Mount, Answer, Goto
      <4>2. CASE as[w] = None
        BY <1>7, <4>2 DEF TypeOK, Claims, Giving, Mount, Goto
      <4> QED BY <4>1, <4>2
    <3>2. UNCHANGED <<user, cookie>>
      BY <1>7 DEF Mount
    <3> QED BY <3>1, <3>2 DEF Owned
  <2>2. AsItself'
    <3>1. UNCHANGED as \/ as' = [as EXCEPT ![w] = None]
      BY <1>7 DEF Mount, Answer
    <3>2. as \in [Window -> User \union {None}] /\ UNCHANGED user
      BY <1>7 DEF Mount, TypeOK
    <3> QED BY <3>1, <3>2 DEF AsItself
  <2> QED BY <2>1, <2>2
<1>8. ASSUME NEW w \in Window, Unlink(w)
       PROVE  Owned' /\ AsItself'
  <2>1. Owned'
    BY <1>8 DEF TypeOK, files, Claims, Owned, Placed, Discarding, Giving, Unlink, Goto
  <2>2. AsItself'
    BY <1>8 DEF TypeOK, files, Owned, Claims, AsItself, Placed, Discarding, Giving,
       Unlink, Goto
  <2> QED BY <2>1, <2>2
<1>9. ASSUME NEW w \in Window, AuthFails(w)
       PROVE  Owned' /\ AsItself'
  <2>1. Owned'
    BY <1>9 DEF TypeOK, files, Claims, Owned, Placed, Discarding, Giving, AuthFails,
       Answer, Goto
  <2>2. AsItself'
    BY <1>9 DEF TypeOK, files, Owned, Claims, AsItself, Placed, Discarding, Giving,
       AuthFails, Answer, Goto
  <2> QED BY <2>1, <2>2
<1>10. ASSUME NEW w \in Window, Reuse(w)
       PROVE  Owned' /\ AsItself'
  <2>1. PICK s \in Mine(w) : sid' = [sid EXCEPT ![w] = s]
    BY <1>10 DEF Reuse
  <2>2. Owned'
    BY <1>10, <2>1 DEF TypeOK, files, Claims, Owned, Placed, Discarding, Giving,
       Reuse, Goto, Mine
  <2>3. AsItself'
    BY <1>10, <2>1 DEF TypeOK, files, Owned, Claims, AsItself, Placed, Discarding,
       Giving, Reuse, Goto, Mine
  <2> QED BY <2>2, <2>3
<1>11. ASSUME NEW w \in Window, NewId(w)
       PROVE  Owned' /\ AsItself'
  <2>1. PICK s \in Sid \ used : used' = used \union {s} /\ sid' = [sid EXCEPT ![w] = s]
    BY <1>11 DEF NewId
  <2>2. Owned'
    BY <1>11, <2>1 DEF TypeOK, files, Claims, Owned, Placed, Discarding, Giving,
       NewId, Goto, Mine, Making
  <2>3. AsItself'
    BY <1>11, <2>1 DEF TypeOK, files, Owned, Claims, AsItself, Placed, Discarding,
       Giving, NewId, Goto, Mine, Making
  <2> QED BY <2>2, <2>3
<1>12. ASSUME NEW w \in Window, MakeSession(w)
       PROVE  Owned' /\ AsItself'
  <2>1. Owned'
    BY <1>12 DEF TypeOK, files, Claims, Owned, Placed, Discarding, Giving, MakeSession, Goto
  <2>2. AsItself'
    BY <1>12 DEF TypeOK, files, Owned, Claims, AsItself, Placed, Discarding, Giving,
       MakeSession, Goto
  <2> QED BY <2>1, <2>2
<1>13. ASSUME NEW w \in Window, MakeFails(w)
       PROVE  Owned' /\ AsItself'
  <2>1. Owned'
    BY <1>13 DEF TypeOK, files, Claims, Owned, Placed, Discarding, Giving, MakeFails,
       Answer, Goto
  <2>2. AsItself'
    BY <1>13 DEF TypeOK, files, Owned, Claims, AsItself, Placed, Discarding, Giving,
       MakeFails, Answer, Goto
  <2> QED BY <2>1, <2>2
<1>14. ASSUME NEW w \in Window, CreateCookie(w)
       PROVE  Owned' /\ AsItself'
  <2>1. Owned'
    BY <1>14 DEF TypeOK, files, Claims, Owned, Placed, Discarding, Giving,
       CreateCookie, Goto
  <2>2. AsItself'
    BY <1>14 DEF TypeOK, files, Owned, Claims, AsItself, Placed, Discarding, Giving,
       CreateCookie, Goto
  <2> QED BY <2>1, <2>2
<1>15. ASSUME NEW w \in Window, CreateFails(w)
       PROVE  Owned' /\ AsItself'
  <2>1. Owned'
    BY <1>15 DEF TypeOK, files, Claims, Owned, Placed, Discarding, Giving,
       CreateFails, Answer, Goto
  <2>2. AsItself'
    BY <1>15 DEF TypeOK, files, Owned, Claims, AsItself, Placed, Discarding, Giving,
       CreateFails, Answer, Goto
  <2> QED BY <2>1, <2>2
<1>16. ASSUME NEW w \in Window, WriteCookie(w)
       PROVE  Owned' /\ AsItself'
  <2>1. Owned'
    BY <1>16 DEF TypeOK, files, Claims, Owned, Placed, Discarding, Giving, WriteCookie, Goto
  <2>2. AsItself'
    BY <1>16 DEF TypeOK, files, Owned, Claims, AsItself, Placed, Discarding, Giving,
       WriteCookie, Goto
  <2> QED BY <2>1, <2>2
<1>17. ASSUME NEW w \in Window, StartSession(w)
       PROVE  Owned' /\ AsItself'
  <2>1. Owned'
    BY <1>17 DEF TypeOK, files, Claims, Owned, Placed, Discarding, Giving,
       StartSession, Answer, Goto, Touch
  <2>2. AsItself'
    BY <1>17 DEF TypeOK, files, Owned, Claims, AsItself, Placed, Discarding, Giving,
       StartSession, Answer, Goto, Touch
  <2> QED BY <2>1, <2>2
<1>18. ASSUME NEW w \in Window, Refuse(w)
       PROVE  Owned' /\ AsItself'
  <2>1. Owned'
    BY <1>18 DEF TypeOK, files, Claims, Owned, Placed, Discarding, Giving, Refuse,
       Answer, Goto
  <2>2. AsItself'
    BY <1>18 DEF TypeOK, files, Owned, Claims, AsItself, Placed, Discarding, Giving,
       Refuse, Answer, Goto
  <2> QED BY <2>1, <2>2
<1>19. ASSUME NEW w \in Window, ReadFails(w)
       PROVE  Owned' /\ AsItself'
  <2>1. Owned'
    BY <1>19 DEF TypeOK, files, Claims, Owned, Placed, Discarding, Giving, ReadFails,
       Answer, Goto
  <2>2. AsItself'
    BY <1>19 DEF TypeOK, files, Owned, Claims, AsItself, Placed, Discarding, Giving,
       ReadFails, Answer, Goto
  <2> QED BY <2>1, <2>2
<1>20. ASSUME NEW w \in Window, ReadCookie(w)
       PROVE  Owned' /\ AsItself'
  <2>1. Owned'
    <3>1. \A v \in Window, s \in Sid : Claims(v, s)' => Claims(v, s)
      BY <1>20 DEF TypeOK, Claims, Giving, ReadCookie, Goto, files
    <3>2. UNCHANGED <<user, cookie>>
      BY <1>20 DEF ReadCookie, files
    <3> QED BY <3>1, <3>2 DEF Owned
  <2>2. AsItself'
    <3>1. UNCHANGED <<user, id>>
      BY <1>20 DEF ReadCookie, files
    <3>2. id[w] \in Sid /\ Claims(w, id[w])
      BY <1>20 DEF ReadCookie, Claims, TypeOK, Placed
    <3>3. cookie[id[w]] \in User /\ as' = [as EXCEPT ![w] = cookie[id[w]]]
      BY <1>20 DEF ReadCookie
    <3>4. cookie[id[w]] = user[w]
      BY <3>2, <3>3, ConstantsOK DEF Owned
    <3> QED BY <3>1, <3>3, <3>4 DEF TypeOK, AsItself
  <2> QED BY <2>1, <2>2
<1>21. ASSUME NEW w \in Window, Update(w)
       PROVE  Owned' /\ AsItself'
  <2>1. Owned'
    BY <1>21 DEF TypeOK, files, Claims, Owned, Placed, Discarding, Giving, Update,
       Goto, Touch
  <2>2. AsItself'
    BY <1>21 DEF TypeOK, files, Owned, Claims, AsItself, Placed, Discarding, Giving,
       Update, Goto, Touch
  <2> QED BY <2>1, <2>2
<1>22. ASSUME NEW w \in Window, ExecuteOp(w)
       PROVE  Owned' /\ AsItself'
  <2>1. Owned'
    BY <1>22 DEF TypeOK, files, Claims, Owned, Placed, Discarding, Giving, ExecuteOp,
       Answer, Goto
  <2>2. AsItself'
    BY <1>22 DEF TypeOK, files, Owned, Claims, AsItself, Placed, Discarding, Giving,
       ExecuteOp, Answer, Goto
  <2> QED BY <2>1, <2>2
<1>23. ASSUME NEW w \in Window, ExecuteConf(w)
       PROVE  Owned' /\ AsItself'
  <2>1. Owned'
    BY <1>23 DEF TypeOK, files, Claims, Owned, Placed, Discarding, Giving,
       ExecuteConf, Answer, Goto
  <2>2. AsItself'
    BY <1>23 DEF TypeOK, files, Owned, Claims, AsItself, Placed, Discarding, Giving,
       ExecuteConf, Answer, Goto
  <2> QED BY <2>1, <2>2
<1>24. ASSUME NEW w \in Window, ExecuteDiscard(w)
       PROVE  Owned' /\ AsItself'
  <2>1. Owned'
    BY <1>24 DEF TypeOK, files, Claims, Owned, Placed, Discarding, Giving,
       ExecuteDiscard, Goto
  <2>2. AsItself'
    BY <1>24 DEF TypeOK, files, Owned, Claims, AsItself, Placed, Discarding, Giving,
       ExecuteDiscard, Goto
  <2> QED BY <2>1, <2>2
<1>25. ASSUME NEW w \in Window, Kill(w)
       PROVE  Owned' /\ AsItself'
  <2>1. Owned'
    BY <1>25 DEF TypeOK, files, Claims, Owned, Placed, Discarding, Giving, Kill,
       Answer, Goto
  <2>2. AsItself'
    BY <1>25 DEF TypeOK, files, Owned, Claims, AsItself, Placed, Discarding, Giving,
       Kill, Answer, Goto
  <2> QED BY <2>1, <2>2
<1>26. ASSUME NEW w \in Window, NEW k \in {"login", "op", "conf", "discard"}, Request(w, k)
       PROVE  Owned' /\ AsItself'
  <2>1. Owned'
    BY <1>26 DEF TypeOK, files, Claims, Owned, Placed, Discarding, Giving, Request, Goto
  <2>2. AsItself'
    BY <1>26 DEF TypeOK, files, Owned, Claims, AsItself, Placed, Discarding, Giving,
       Request, Goto
  <2> QED BY <2>1, <2>2
<1>27. CASE Tick
  <2>1. Owned'
    BY <1>27 DEF TypeOK, files, Claims, Owned, Placed, Discarding, Giving, Tick, Older
  <2>2. AsItself'
    BY <1>27 DEF TypeOK, files, Owned, Claims, AsItself, Placed, Discarding, Giving,
       Tick, Older
  <2> QED BY <2>1, <2>2
<1> QED
  BY <1>1, <1>2, <1>3, <1>4, <1>5, <1>6, <1>7, <1>8, <1>9, <1>10, <1>11, <1>12, <1>13,
     <1>14, <1>15, <1>16, <1>17, <1>18, <1>19, <1>20, <1>21, <1>22, <1>23, <1>24, <1>25, <1>26,
     <1>27
  DEF Next, Serve, Cleanup, Login, Command

\* Every step keeps the sessions mounted.
LEMMA MountedStep ==
  ASSUME TypeOK, Placed, KeptMounted, [Next]_vars
  PROVE  KeptMounted'
<1> USE ConstantsOK
<1>1. CASE UNCHANGED vars
  BY <1>1 DEF vars, files, TypeOK, Remounting, Usable, KeptMounted, Placed, Discarding,
     Giving
<1>2. ASSUME NEW w \in Window, ScanYoung(w)
       PROVE  KeptMounted'
  <2>1. PICK s \in todo[w] : ~Old(s) /\ todo' = [todo EXCEPT ![w] = @ \ {s}]
    BY <1>2 DEF ScanYoung
  <2>2. KeptMounted'
    BY <1>2, <2>1 DEF TypeOK, files, Usable, Remounting, KeptMounted, Placed,
       Discarding, Giving, ScanYoung, Goto, Old
  <2> QED BY <2>2
<1>3. ASSUME NEW w \in Window, ScanOld(w)
       PROVE  KeptMounted'
  <2>1. PICK s \in todo[w] : /\ Old(s)
                          /\ todo' = [todo EXCEPT ![w] = @ \ {s}]
                          /\ sid' = [sid EXCEPT ![w] = s]
    BY <1>3 DEF ScanOld
  <2>2. KeptMounted'
    BY <1>3, <2>1 DEF TypeOK, files, Usable, Remounting, KeptMounted, Placed,
       Discarding, Giving, ScanOld, Goto, Old
  <2> QED BY <2>2
<1>4. ASSUME NEW w \in Window, ScanDone(w)
       PROVE  KeptMounted'
  BY <1>4 DEF TypeOK, files, Usable, Remounting, KeptMounted, Placed, Discarding,
     Giving, ScanDone, Goto
<1>5. ASSUME NEW w \in Window, Umount(w)
       PROVE  KeptMounted'
  BY <1>5 DEF TypeOK, files, Usable, Remounting, KeptMounted, Placed, Discarding,
     Giving, Umount, Goto
<1>6. ASSUME NEW w \in Window, Clear(w)
       PROVE  KeptMounted'
  BY <1>6 DEF TypeOK, files, Usable, Remounting, KeptMounted, Placed, Discarding,
     Giving, Clear, Goto
<1>7. ASSUME NEW w \in Window, Mount(w)
       PROVE  KeptMounted'
  <2>1. KeptMounted'
    <3>1. CASE as[w] # None
      BY <1>7, <3>1 DEF TypeOK, files, Usable, Remounting, KeptMounted, Placed,
         Discarding, Giving, Mount, Answer, Goto
    <3>2. CASE as[w] = None
      BY <1>7, <3>2 DEF TypeOK, files, Usable, Remounting, KeptMounted, Placed,
         Discarding, Giving, Mount, Answer, Goto
    <3> QED BY <3>1, <3>2
  <2> QED BY <2>1
<1>8. ASSUME NEW w \in Window, Unlink(w)
       PROVE  KeptMounted'
  BY <1>8 DEF TypeOK, files, Usable, Remounting, KeptMounted, Placed, Discarding,
     Giving, Unlink, Goto
<1>9. ASSUME NEW w \in Window, AuthFails(w)
       PROVE  KeptMounted'
  BY <1>9 DEF TypeOK, files, Usable, Remounting, KeptMounted, Placed, Discarding,
     Giving, AuthFails, Answer, Goto
<1>10. ASSUME NEW w \in Window, Reuse(w)
       PROVE  KeptMounted'
  <2>1. PICK s \in Mine(w) : sid' = [sid EXCEPT ![w] = s]
    BY <1>10 DEF Reuse
  <2>2. KeptMounted'
    BY <1>10, <2>1 DEF TypeOK, files, Usable, Remounting, KeptMounted, Placed,
       Discarding, Giving, Reuse, Goto, Mine
  <2> QED BY <2>2
<1>11. ASSUME NEW w \in Window, NewId(w)
       PROVE  KeptMounted'
  <2>1. PICK s \in Sid \ used : used' = used \union {s} /\ sid' = [sid EXCEPT ![w] = s]
    BY <1>11 DEF NewId
  <2>2. KeptMounted'
    BY <1>11, <2>1 DEF TypeOK, files, Usable, Remounting, KeptMounted, Placed,
       Discarding, Giving, NewId, Goto, Mine, Making
  <2> QED BY <2>2
<1>12. ASSUME NEW w \in Window, MakeSession(w)
       PROVE  KeptMounted'
  BY <1>12 DEF TypeOK, files, Usable, Remounting, KeptMounted, Placed, Discarding,
     Giving, MakeSession, Goto
<1>13. ASSUME NEW w \in Window, MakeFails(w)
       PROVE  KeptMounted'
  BY <1>13 DEF TypeOK, files, Usable, Remounting, KeptMounted, Placed, Discarding,
     Giving, MakeFails, Answer, Goto
<1>14. ASSUME NEW w \in Window, CreateCookie(w)
       PROVE  KeptMounted'
  BY <1>14 DEF TypeOK, files, Usable, Remounting, KeptMounted, Placed, Discarding,
     Giving, CreateCookie, Goto
<1>15. ASSUME NEW w \in Window, CreateFails(w)
       PROVE  KeptMounted'
  BY <1>15 DEF TypeOK, files, Usable, Remounting, KeptMounted, Placed, Discarding,
     Giving, CreateFails, Answer, Goto
<1>16. ASSUME NEW w \in Window, WriteCookie(w)
       PROVE  KeptMounted'
  BY <1>16 DEF TypeOK, files, Usable, Remounting, KeptMounted, Placed, Discarding,
     Giving, WriteCookie, Goto
<1>17. ASSUME NEW w \in Window, StartSession(w)
       PROVE  KeptMounted'
  BY <1>17 DEF TypeOK, files, Usable, Remounting, KeptMounted, Placed, Discarding,
     Giving, StartSession, Answer, Goto, Touch
<1>18. ASSUME NEW w \in Window, Refuse(w)
       PROVE  KeptMounted'
  BY <1>18 DEF TypeOK, files, Usable, Remounting, KeptMounted, Placed, Discarding,
     Giving, Refuse, Answer, Goto
<1>19. ASSUME NEW w \in Window, ReadFails(w)
       PROVE  KeptMounted'
  BY <1>19 DEF TypeOK, files, Usable, Remounting, KeptMounted, Placed, Discarding,
     Giving, ReadFails, Answer, Goto
<1>20. ASSUME NEW w \in Window, ReadCookie(w)
       PROVE  KeptMounted'
  BY <1>20 DEF TypeOK, files, Usable, Remounting, KeptMounted, Placed, Discarding,
     Giving, ReadCookie, Goto
<1>21. ASSUME NEW w \in Window, Update(w)
       PROVE  KeptMounted'
  BY <1>21 DEF TypeOK, files, Usable, Remounting, KeptMounted, Placed, Discarding,
     Giving, Update, Goto, Touch
<1>22. ASSUME NEW w \in Window, ExecuteOp(w)
       PROVE  KeptMounted'
  BY <1>22 DEF TypeOK, files, Usable, Remounting, KeptMounted, Placed, Discarding,
     Giving, ExecuteOp, Answer, Goto
<1>23. ASSUME NEW w \in Window, ExecuteConf(w)
       PROVE  KeptMounted'
  BY <1>23 DEF TypeOK, files, Usable, Remounting, KeptMounted, Placed, Discarding,
     Giving, ExecuteConf, Answer, Goto
<1>24. ASSUME NEW w \in Window, ExecuteDiscard(w)
       PROVE  KeptMounted'
  BY <1>24 DEF TypeOK, files, Usable, Remounting, KeptMounted, Placed, Discarding,
     Giving, ExecuteDiscard, Goto
<1>25. ASSUME NEW w \in Window, Kill(w)
       PROVE  KeptMounted'
  BY <1>25 DEF TypeOK, files, Usable, Remounting, KeptMounted, Placed, Discarding,
     Giving, Kill, Answer, Goto
<1>26. ASSUME NEW w \in Window, NEW k \in {"login", "op", "conf", "discard"}, Request(w, k)
       PROVE  KeptMounted'
  BY <1>26 DEF TypeOK, files, Usable, Remounting, KeptMounted, Placed, Discarding,
     Giving, Request, Goto
<1>27. CASE Tick
  BY <1>27 DEF TypeOK, files, Usable, Remounting, KeptMounted, Placed, Discarding,
     Giving, Tick, Older
<1> QED
  BY <1>1, <1>2, <1>3, <1>4, <1>5, <1>6, <1>7, <1>8, <1>9, <1>10, <1>11, <1>12, <1>13,
     <1>14, <1>15, <1>16, <1>17, <1>18, <1>19, <1>20, <1>21, <1>22, <1>23, <1>24, <1>25, <1>26,
     <1>27
  DEF Next, Serve, Cleanup, Login, Command

----------------------------------------------------------------------------
\* The inductive invariant both theorems below rest on.
LEMMA PlacedInvariant == Spec => [](TypeOK /\ Placed)
<1>1. ASSUME Init PROVE TypeOK /\ Placed
  <2>1. Placed
    BY <1>1 DEF Init, Placed, Discarding, Giving
  <2>2. TypeOK
    BY <1>1, ConstantsOK, TicksOK DEF Init, TypeOK, Pc
  <2> QED BY <2>1, <2>2
<1>2. TypeOK /\ Placed /\ [Next]_vars => (TypeOK /\ Placed)'
  BY TypeStep
<1> QED BY <1>1, <1>2, PTL DEF Spec

\* Types, for every value of the constants; among them that a session with a union
\* mount or changes has its directories, and one with directories has drawn its id.
THEOREM TypeInvariant == Spec => []TypeOK
BY PlacedInvariant, PTL

\* Every request that carries a session id is executed as the user at its window:
\* authenticate.cc names a session's user in its cookie file, and neither cleanup,
\* reuse nor a touch after an unlink ever gives the session to somebody else.
THEOREM AsItselfTheorem == Spec => []AsItself
<1>1. Init => Owned /\ AsItself
  BY ConstantsOK DEF Init, Owned, Claims, AsItself, Giving
<1>2. TypeOK /\ Placed /\ Owned /\ AsItself /\ [Next]_vars => (Owned /\ AsItself)'
  BY OwnedStep
<1> QED BY <1>1, <1>2, PlacedInvariant, PTL DEF Spec

\* A session that can be used has its union mount but during a discard of it, however
\* many cleanups and discards of it overlap (common.cc discard_session).
THEOREM StaysMountedTheorem == Spec => []StaysMounted
<1>1. Init => KeptMounted
  BY ConstantsOK DEF Init, KeptMounted, Usable, Remounting
<1>2. TypeOK /\ Placed /\ KeptMounted /\ [Next]_vars => KeptMounted'
  BY MountedStep
<1>3. KeptMounted => StaysMounted
  BY ConstantsOK DEF KeptMounted, Usable, Remounting, StaysMounted
<1> QED BY <1>1, <1>2, <1>3, PlacedInvariant, PTL DEF Spec

----------------------------------------------------------------------------
(* A user has one session; and, if requests are timely, a login gives a    *)
(* session that can be used, and cleanup takes none that is in use.        *)

\* Until two logins race, a login that makes a session is the only one of its user, and
\* the user has no session yet.
OneMade == ~raced =>
  /\ \A s, t \in Sid : cookie[s] \in User /\ cookie[s] = cookie[t] => s = t
  /\ \A w \in Window : Making(w) => \A s \in Sid : cookie[s] # user[w]
  /\ \A v, w \in Window : Making(v) /\ Making(w) /\ user[v] = user[w] => v = w

\* A request has a user from the moment it has read the cookie file.
ActsAs == \A w \in Window :
  /\ pc[w] \in {"idle", "scan", "unlink", "auth", "make", "create", "write", "start", "read"}
     => as[w] = None
  /\ pc[w] \in {"update", "execute"} => as[w] # None

\* Whatever can be used has its directories.
InDir ==
  /\ \A s \in Sid : cookie[s] # Absent => s \in dir
  /\ \A w \in Window : id[w] # None => id[w] \in dir
  /\ \A w \in Window : pc[w] \in {"create", "write", "start"} => sid[w] \in dir

\* Accepting a request touches its cookie file.
Touched == \A s \in Sid : age[s] <= quiet[s]

\* While a session timed out is there, no request is past its own cleanup, for that has
\* still to come to it.
After == {"auth", "make", "create", "write", "start", "read", "update"}
Cleans(w) == pc[w] \in Discarding /\ as[w] = None
Scanned == \A s \in Sid, w \in Window : Old(s) =>
  /\ pc[w] \notin After
  /\ pc[w] = "scan" => s \in todo[w]
  /\ Cleans(w) => s \in todo[w] \/ s = sid[w]

\* A session being cleaned up is timed out, or gone already, until it is unlinked.
Expired == \A w \in Window : Cleans(w) =>
  (cookie[sid[w]] = Absent \/ Old(sid[w])) /\ quiet[sid[w]] > Timeout

\* A login that reuses or has made a session, and a command accepted, find it as it was.
Named == \A w \in Window :
  /\ pc[w] = "start" => cookie[sid[w]] = user[w]
  /\ pc[w] = "update" => cookie[id[w]] \in User

\* Nobody else makes, uses or cleans up the session a login is making.
Fresh == \A w \in Window : Making(w) =>
  /\ cookie[sid[w]] \notin User
  /\ \A v \in Window : (Making(v) /\ sid[v] = sid[w] => v = w)
                       /\ ~(Cleans(v) /\ sid[v] = sid[w])

----------------------------------------------------------------------------
\* The steps. A request that fails and one that changes nothing end as if killed.
LEMMA NextCases ==
  [Next]_vars <=>
    \/ UNCHANGED vars
    \/ \E w \in Window :
         \/ ScanYoung(w) \/ ScanOld(w) \/ ScanDone(w)
         \/ Umount(w) \/ Clear(w) \/ Mount(w) \/ Unlink(w)
         \/ Reuse(w) \/ NewId(w) \/ MakeSession(w) \/ MakeFails(w)
         \/ CreateCookie(w) \/ WriteCookie(w) \/ StartSession(w)
         \/ ReadCookie(w) \/ Update(w) \/ ExecuteConf(w) \/ ExecuteDiscard(w) \/ Kill(w)
         \/ \E k \in {"login", "op", "conf", "discard"} : Request(w, k)
    \/ Tick
<1>1. \A w \in Window :
        AuthFails(w) \/ CreateFails(w) \/ Refuse(w) \/ ReadFails(w) \/ ExecuteOp(w) => Kill(w)
  BY DEF AuthFails, CreateFails, Refuse, ReadFails, ExecuteOp, Kill
<1> QED
  BY <1>1 DEF Next, Serve, Cleanup, Login, Command


\* Every step keeps a user to one session.
LEMMA OneMadeStep ==
  ASSUME TypeOK, OneMade, [Next]_vars
  PROVE  OneMade'
<1> USE ConstantsOK
<1>1. CASE UNCHANGED vars
  BY <1>1 DEF vars, files, TypeOK, OneMade, Making
<1>2. ASSUME NEW w \in Window, ScanYoung(w)
       PROVE  OneMade'
  <2>1. PICK s \in todo[w] : ~Old(s) /\ todo' = [todo EXCEPT ![w] = @ \ {s}]
    BY <1>2 DEF ScanYoung
  <2> QED BY <1>2, <2>1 DEF TypeOK, files, OneMade, Making, ScanYoung, Goto, Old
<1>3. ASSUME NEW w \in Window, ScanOld(w)
       PROVE  OneMade'
  <2>1. PICK s \in todo[w] : /\ Old(s)
                          /\ todo' = [todo EXCEPT ![w] = @ \ {s}]
                          /\ sid' = [sid EXCEPT ![w] = s]
    BY <1>3 DEF ScanOld
  <2> QED BY <1>3, <2>1 DEF TypeOK, files, OneMade, Making, ScanOld, Goto, Old
<1>4. ASSUME NEW w \in Window, ScanDone(w)
       PROVE  OneMade'
  BY <1>4 DEF TypeOK, files, OneMade, Making, ScanDone, Goto
<1>5. ASSUME NEW w \in Window, Umount(w)
       PROVE  OneMade'
  BY <1>5 DEF TypeOK, files, OneMade, Making, Umount, Goto
<1>6. ASSUME NEW w \in Window, Clear(w)
       PROVE  OneMade'
  BY <1>6 DEF TypeOK, files, OneMade, Making, Clear, Goto
<1>7. ASSUME NEW w \in Window, Mount(w)
       PROVE  OneMade'
  <2>1. CASE as[w] # None
    BY <1>7, <2>1 DEF TypeOK, files, OneMade, Making, Mount, Answer, Goto
  <2>2. CASE as[w] = None
    BY <1>7, <2>2 DEF TypeOK, files, OneMade, Making, Mount, Goto
  <2> QED BY <2>1, <2>2
<1>8. ASSUME NEW w \in Window, Unlink(w)
       PROVE  OneMade'
  BY <1>8 DEF TypeOK, files, OneMade, Making, Unlink, Goto
<1>9. ASSUME NEW w \in Window, Reuse(w)
       PROVE  OneMade'
  <2>1. PICK s \in Mine(w) : sid' = [sid EXCEPT ![w] = s]
    BY <1>9 DEF Reuse
  <2> QED BY <1>9, <2>1 DEF TypeOK, files, OneMade, Making, Reuse, Goto, Mine
<1>10. ASSUME NEW w \in Window, NewId(w)
       PROVE  OneMade'
  <2>1. PICK s \in Sid \ used : used' = used \union {s} /\ sid' = [sid EXCEPT ![w] = s]
    BY <1>10 DEF NewId
  <2> QED BY <1>10, <2>1 DEF TypeOK, files, OneMade, Making, NewId, Goto, Mine
<1>11. ASSUME NEW w \in Window, MakeSession(w)
       PROVE  OneMade'
  BY <1>11 DEF TypeOK, files, OneMade, Making, MakeSession, Goto
<1>12. ASSUME NEW w \in Window, MakeFails(w)
       PROVE  OneMade'
  BY <1>12 DEF TypeOK, files, OneMade, Making, MakeFails, Answer, Goto
<1>13. ASSUME NEW w \in Window, CreateCookie(w)
       PROVE  OneMade'
  BY <1>13 DEF TypeOK, files, OneMade, Making, CreateCookie, Goto
<1>14. ASSUME NEW w \in Window, WriteCookie(w)
       PROVE  OneMade'
  BY <1>14 DEF TypeOK, files, OneMade, Making, WriteCookie, Goto
<1>15. ASSUME NEW w \in Window, StartSession(w)
       PROVE  OneMade'
  BY <1>15 DEF TypeOK, files, OneMade, Making, StartSession, Answer, Goto, Touch
<1>16. ASSUME NEW w \in Window, ReadCookie(w)
       PROVE  OneMade'
  BY <1>16 DEF TypeOK, files, OneMade, Making, ReadCookie, Goto
<1>17. ASSUME NEW w \in Window, Update(w)
       PROVE  OneMade'
  BY <1>17 DEF TypeOK, files, OneMade, Making, Update, Goto, Touch
<1>18. ASSUME NEW w \in Window, ExecuteConf(w)
       PROVE  OneMade'
  BY <1>18 DEF TypeOK, files, OneMade, Making, ExecuteConf, Answer, Goto
<1>19. ASSUME NEW w \in Window, ExecuteDiscard(w)
       PROVE  OneMade'
  BY <1>19 DEF TypeOK, files, OneMade, Making, ExecuteDiscard, Goto
<1>20. ASSUME NEW w \in Window, Kill(w)
       PROVE  OneMade'
  BY <1>20 DEF TypeOK, files, OneMade, Making, Kill, Answer, Goto
<1>21. ASSUME NEW w \in Window, NEW k \in {"login", "op", "conf", "discard"}, Request(w, k)
       PROVE  OneMade'
  BY <1>21 DEF TypeOK, files, OneMade, Making, Request, Goto
<1>22. CASE Tick
  BY <1>22 DEF TypeOK, files, OneMade, Making, Tick, Older
<1> QED
  BY <1>1, <1>2, <1>3, <1>4, <1>5, <1>6, <1>7, <1>8, <1>9, <1>10, <1>11, <1>12, <1>13,
     <1>14, <1>15, <1>16, <1>17, <1>18, <1>19, <1>20, <1>21, <1>22, NextCases

\* Every step keeps who has a user.
LEMMA ActsAsStep ==
  ASSUME TypeOK, ActsAs, [Next]_vars
  PROVE  ActsAs'
<1> USE ConstantsOK
<1>1. CASE UNCHANGED vars
  BY <1>1 DEF vars, files, TypeOK, ActsAs
<1>2. ASSUME NEW w \in Window, ScanYoung(w)
       PROVE  ActsAs'
  <2>1. PICK s \in todo[w] : ~Old(s) /\ todo' = [todo EXCEPT ![w] = @ \ {s}]
    BY <1>2 DEF ScanYoung
  <2> QED BY <1>2, <2>1 DEF TypeOK, files, ActsAs, ScanYoung, Goto, Old
<1>3. ASSUME NEW w \in Window, ScanOld(w)
       PROVE  ActsAs'
  <2>1. PICK s \in todo[w] : /\ Old(s)
                          /\ todo' = [todo EXCEPT ![w] = @ \ {s}]
                          /\ sid' = [sid EXCEPT ![w] = s]
    BY <1>3 DEF ScanOld
  <2> QED BY <1>3, <2>1 DEF TypeOK, files, ActsAs, ScanOld, Goto, Old
<1>4. ASSUME NEW w \in Window, ScanDone(w)
       PROVE  ActsAs'
  BY <1>4 DEF TypeOK, files, ActsAs, ScanDone, Goto
<1>5. ASSUME NEW w \in Window, Umount(w)
       PROVE  ActsAs'
  BY <1>5 DEF TypeOK, files, ActsAs, Umount, Goto
<1>6. ASSUME NEW w \in Window, Clear(w)
       PROVE  ActsAs'
  BY <1>6 DEF TypeOK, files, ActsAs, Clear, Goto
<1>7. ASSUME NEW w \in Window, Mount(w)
       PROVE  ActsAs'
  <2>1. CASE as[w] # None
    <3>1. Answer(w) /\ UNCHANGED <<user, cookie, age, id, quiet, raced>>
      BY <1>7, <2>1 DEF Mount
    <3> QED BY <1>7, <2>1, <3>1 DEF TypeOK, ActsAs, Mount, Answer, Goto
  <2>2. CASE as[w] = None
    <3>1. /\ Goto(w, "unlink")
          /\ UNCHANGED <<user, cookie, age, id, kind, todo, sid, as, quiet, raced>>
      BY <1>7, <2>2 DEF Mount
    <3> QED BY <1>7, <2>2, <3>1 DEF TypeOK, ActsAs, Mount, Goto
  <2> QED BY <2>1, <2>2
<1>8. ASSUME NEW w \in Window, Unlink(w)
       PROVE  ActsAs'
  BY <1>8 DEF TypeOK, files, ActsAs, Unlink, Goto
<1>9. ASSUME NEW w \in Window, Reuse(w)
       PROVE  ActsAs'
  <2>1. PICK s \in Mine(w) : sid' = [sid EXCEPT ![w] = s]
    BY <1>9 DEF Reuse
  <2> QED BY <1>9, <2>1 DEF TypeOK, files, ActsAs, Reuse, Goto, Mine
<1>10. ASSUME NEW w \in Window, NewId(w)
       PROVE  ActsAs'
  <2>1. PICK s \in Sid \ used : used' = used \union {s} /\ sid' = [sid EXCEPT ![w] = s]
    BY <1>10 DEF NewId
  <2> QED BY <1>10, <2>1 DEF TypeOK, files, ActsAs, NewId, Goto, Mine, Making
<1>11. ASSUME NEW w \in Window, MakeSession(w)
       PROVE  ActsAs'
  BY <1>11 DEF TypeOK, files, ActsAs, MakeSession, Goto
<1>12. ASSUME NEW w \in Window, MakeFails(w)
       PROVE  ActsAs'
  BY <1>12 DEF TypeOK, files, ActsAs, MakeFails, Answer, Goto
<1>13. ASSUME NEW w \in Window, CreateCookie(w)
       PROVE  ActsAs'
  BY <1>13 DEF TypeOK, files, ActsAs, CreateCookie, Goto
<1>14. ASSUME NEW w \in Window, WriteCookie(w)
       PROVE  ActsAs'
  BY <1>14 DEF TypeOK, files, ActsAs, WriteCookie, Goto
<1>15. ASSUME NEW w \in Window, StartSession(w)
       PROVE  ActsAs'
  BY <1>15 DEF TypeOK, files, ActsAs, StartSession, Answer, Goto, Touch
<1>16. ASSUME NEW w \in Window, ReadCookie(w)
       PROVE  ActsAs'
  BY <1>16 DEF TypeOK, files, ActsAs, ReadCookie, Goto
<1>17. ASSUME NEW w \in Window, Update(w)
       PROVE  ActsAs'
  BY <1>17 DEF TypeOK, files, ActsAs, Update, Goto, Touch
<1>18. ASSUME NEW w \in Window, ExecuteConf(w)
       PROVE  ActsAs'
  BY <1>18 DEF TypeOK, files, ActsAs, ExecuteConf, Answer, Goto
<1>19. ASSUME NEW w \in Window, ExecuteDiscard(w)
       PROVE  ActsAs'
  BY <1>19 DEF TypeOK, files, ActsAs, ExecuteDiscard, Goto
<1>20. ASSUME NEW w \in Window, Kill(w)
       PROVE  ActsAs'
  BY <1>20 DEF TypeOK, files, ActsAs, Kill, Answer, Goto
<1>21. ASSUME NEW w \in Window, NEW k \in {"login", "op", "conf", "discard"}, Request(w, k)
       PROVE  ActsAs'
  BY <1>21 DEF TypeOK, files, ActsAs, Request, Goto
<1>22. CASE Tick
  BY <1>22 DEF TypeOK, files, ActsAs, Tick, Older
<1> QED
  BY <1>1, <1>2, <1>3, <1>4, <1>5, <1>6, <1>7, <1>8, <1>9, <1>10, <1>11, <1>12, <1>13,
     <1>14, <1>15, <1>16, <1>17, <1>18, <1>19, <1>20, <1>21, <1>22, NextCases

\* Every step keeps the directories.
LEMMA InDirStep ==
  ASSUME TypeOK, Placed, InDir, [Next]_vars
  PROVE  InDir'
<1> USE ConstantsOK
<1>1. CASE UNCHANGED vars
  BY <1>1 DEF vars, files, TypeOK, InDir, Placed
<1>2. ASSUME NEW w \in Window, ScanYoung(w)
       PROVE  InDir'
  <2>1. PICK s \in todo[w] : ~Old(s) /\ todo' = [todo EXCEPT ![w] = @ \ {s}]
    BY <1>2 DEF ScanYoung
  <2> QED BY <1>2, <2>1 DEF TypeOK, files, InDir, Placed, ScanYoung, Goto, Old
<1>3. ASSUME NEW w \in Window, ScanOld(w)
       PROVE  InDir'
  <2>1. PICK s \in todo[w] : /\ Old(s)
                          /\ todo' = [todo EXCEPT ![w] = @ \ {s}]
                          /\ sid' = [sid EXCEPT ![w] = s]
    BY <1>3 DEF ScanOld
  <2> QED BY <1>3, <2>1 DEF TypeOK, files, InDir, Placed, ScanOld, Goto, Old
<1>4. ASSUME NEW w \in Window, ScanDone(w)
       PROVE  InDir'
  BY <1>4 DEF TypeOK, files, InDir, Placed, ScanDone, Goto
<1>5. ASSUME NEW w \in Window, Umount(w)
       PROVE  InDir'
  BY <1>5 DEF TypeOK, files, InDir, Placed, Umount, Goto
<1>6. ASSUME NEW w \in Window, Clear(w)
       PROVE  InDir'
  BY <1>6 DEF TypeOK, files, InDir, Placed, Clear, Goto
<1>7. ASSUME NEW w \in Window, Mount(w)
       PROVE  InDir'
  <2>1. CASE as[w] # None
    BY <1>7, <2>1 DEF TypeOK, files, InDir, Placed, Mount, Answer, Goto
  <2>2. CASE as[w] = None
    BY <1>7, <2>2 DEF TypeOK, files, InDir, Placed, Mount, Goto
  <2> QED BY <2>1, <2>2
<1>8. ASSUME NEW w \in Window, Unlink(w)
       PROVE  InDir'
  BY <1>8 DEF TypeOK, files, InDir, Placed, Unlink, Goto
<1>9. ASSUME NEW w \in Window, Reuse(w)
       PROVE  InDir'
  <2>1. PICK s \in Mine(w) : sid' = [sid EXCEPT ![w] = s]
    BY <1>9 DEF Reuse
  <2> QED BY <1>9, <2>1 DEF TypeOK, files, InDir, Placed, Reuse, Goto, Mine
<1>10. ASSUME NEW w \in Window, NewId(w)
       PROVE  InDir'
  <2>1. PICK s \in Sid \ used : used' = used \union {s} /\ sid' = [sid EXCEPT ![w] = s]
    BY <1>10 DEF NewId
  <2> QED BY <1>10, <2>1 DEF TypeOK, files, InDir, Placed, NewId, Goto, Mine, Making
<1>11. ASSUME NEW w \in Window, MakeSession(w)
       PROVE  InDir'
  BY <1>11 DEF TypeOK, files, InDir, Placed, MakeSession, Goto
<1>12. ASSUME NEW w \in Window, MakeFails(w)
       PROVE  InDir'
  BY <1>12 DEF TypeOK, files, InDir, Placed, MakeFails, Answer, Goto
<1>13. ASSUME NEW w \in Window, CreateCookie(w)
       PROVE  InDir'
  BY <1>13 DEF TypeOK, files, InDir, Placed, CreateCookie, Goto
<1>14. ASSUME NEW w \in Window, WriteCookie(w)
       PROVE  InDir'
  BY <1>14 DEF TypeOK, files, InDir, Placed, WriteCookie, Goto
<1>15. ASSUME NEW w \in Window, StartSession(w)
       PROVE  InDir'
  BY <1>15 DEF TypeOK, files, InDir, Placed, StartSession, Answer, Goto, Touch
<1>16. ASSUME NEW w \in Window, ReadCookie(w)
       PROVE  InDir'
  BY <1>16 DEF TypeOK, files, InDir, Placed, ReadCookie, Goto
<1>17. ASSUME NEW w \in Window, Update(w)
       PROVE  InDir'
  BY <1>17 DEF TypeOK, files, InDir, Placed, Update, Goto, Touch
<1>18. ASSUME NEW w \in Window, ExecuteConf(w)
       PROVE  InDir'
  BY <1>18 DEF TypeOK, files, InDir, Placed, ExecuteConf, Answer, Goto
<1>19. ASSUME NEW w \in Window, ExecuteDiscard(w)
       PROVE  InDir'
  BY <1>19 DEF TypeOK, files, InDir, Placed, ExecuteDiscard, Goto
<1>20. ASSUME NEW w \in Window, Kill(w)
       PROVE  InDir'
  BY <1>20 DEF TypeOK, files, InDir, Placed, Kill, Answer, Goto
<1>21. ASSUME NEW w \in Window, NEW k \in {"login", "op", "conf", "discard"}, Request(w, k)
       PROVE  InDir'
  BY <1>21 DEF TypeOK, files, InDir, Placed, Request, Goto
<1>22. CASE Tick
  BY <1>22 DEF TypeOK, files, InDir, Placed, Tick, Older
<1> QED
  BY <1>1, <1>2, <1>3, <1>4, <1>5, <1>6, <1>7, <1>8, <1>9, <1>10, <1>11, <1>12, <1>13,
     <1>14, <1>15, <1>16, <1>17, <1>18, <1>19, <1>20, <1>21, <1>22, NextCases

\* Every step keeps the ages.
LEMMA TouchedStep ==
  ASSUME TypeOK, Touched, [Next]_vars
  PROVE  Touched'
<1> USE ConstantsOK
<1>1. CASE UNCHANGED vars
  BY <1>1 DEF vars, files, TypeOK, Touched, Ticks
<1>2. ASSUME NEW w \in Window, ScanYoung(w)
       PROVE  Touched'
  <2>1. PICK s \in todo[w] : ~Old(s) /\ todo' = [todo EXCEPT ![w] = @ \ {s}]
    BY <1>2 DEF ScanYoung
  <2> QED BY <1>2, <2>1 DEF TypeOK, files, Touched, Ticks, ScanYoung, Goto, Old
<1>3. ASSUME NEW w \in Window, ScanOld(w)
       PROVE  Touched'
  <2>1. PICK s \in todo[w] : /\ Old(s)
                          /\ todo' = [todo EXCEPT ![w] = @ \ {s}]
                          /\ sid' = [sid EXCEPT ![w] = s]
    BY <1>3 DEF ScanOld
  <2> QED BY <1>3, <2>1 DEF TypeOK, files, Touched, Ticks, ScanOld, Goto, Old
<1>4. ASSUME NEW w \in Window, ScanDone(w)
       PROVE  Touched'
  BY <1>4 DEF TypeOK, files, Touched, Ticks, ScanDone, Goto
<1>5. ASSUME NEW w \in Window, Umount(w)
       PROVE  Touched'
  BY <1>5 DEF TypeOK, files, Touched, Ticks, Umount, Goto
<1>6. ASSUME NEW w \in Window, Clear(w)
       PROVE  Touched'
  BY <1>6 DEF TypeOK, files, Touched, Ticks, Clear, Goto
<1>7. ASSUME NEW w \in Window, Mount(w)
       PROVE  Touched'
  <2>1. CASE as[w] # None
    BY <1>7, <2>1 DEF TypeOK, files, Touched, Ticks, Mount, Answer, Goto
  <2>2. CASE as[w] = None
    BY <1>7, <2>2 DEF TypeOK, files, Touched, Ticks, Mount, Goto
  <2> QED BY <2>1, <2>2
<1>8. ASSUME NEW w \in Window, Unlink(w)
       PROVE  Touched'
  BY <1>8 DEF TypeOK, files, Touched, Ticks, Unlink, Goto
<1>9. ASSUME NEW w \in Window, Reuse(w)
       PROVE  Touched'
  <2>1. PICK s \in Mine(w) : sid' = [sid EXCEPT ![w] = s]
    BY <1>9 DEF Reuse
  <2> QED BY <1>9, <2>1 DEF TypeOK, files, Touched, Ticks, Reuse, Goto, Mine
<1>10. ASSUME NEW w \in Window, NewId(w)
       PROVE  Touched'
  <2>1. PICK s \in Sid \ used : used' = used \union {s} /\ sid' = [sid EXCEPT ![w] = s]
    BY <1>10 DEF NewId
  <2> QED BY <1>10, <2>1 DEF TypeOK, files, Touched, Ticks, NewId, Goto, Mine, Making
<1>11. ASSUME NEW w \in Window, MakeSession(w)
       PROVE  Touched'
  BY <1>11 DEF TypeOK, files, Touched, Ticks, MakeSession, Goto
<1>12. ASSUME NEW w \in Window, MakeFails(w)
       PROVE  Touched'
  BY <1>12 DEF TypeOK, files, Touched, Ticks, MakeFails, Answer, Goto
<1>13. ASSUME NEW w \in Window, CreateCookie(w)
       PROVE  Touched'
  BY <1>13 DEF TypeOK, files, Touched, Ticks, CreateCookie, Goto
<1>14. ASSUME NEW w \in Window, WriteCookie(w)
       PROVE  Touched'
  BY <1>14 DEF TypeOK, files, Touched, Ticks, WriteCookie, Goto
<1>15. ASSUME NEW w \in Window, StartSession(w)
       PROVE  Touched'
  BY <1>15 DEF TypeOK, files, Touched, Ticks, StartSession, Answer, Goto, Touch
<1>16. ASSUME NEW w \in Window, ReadCookie(w)
       PROVE  Touched'
  BY <1>16 DEF TypeOK, files, Touched, Ticks, ReadCookie, Goto
<1>17. ASSUME NEW w \in Window, Update(w)
       PROVE  Touched'
  BY <1>17 DEF TypeOK, files, Touched, Ticks, Update, Goto, Touch
<1>18. ASSUME NEW w \in Window, ExecuteConf(w)
       PROVE  Touched'
  BY <1>18 DEF TypeOK, files, Touched, Ticks, ExecuteConf, Answer, Goto
<1>19. ASSUME NEW w \in Window, ExecuteDiscard(w)
       PROVE  Touched'
  BY <1>19 DEF TypeOK, files, Touched, Ticks, ExecuteDiscard, Goto
<1>20. ASSUME NEW w \in Window, Kill(w)
       PROVE  Touched'
  BY <1>20 DEF TypeOK, files, Touched, Ticks, Kill, Answer, Goto
<1>21. ASSUME NEW w \in Window, NEW k \in {"login", "op", "conf", "discard"}, Request(w, k)
       PROVE  Touched'
  BY <1>21 DEF TypeOK, files, Touched, Ticks, Request, Goto
<1>22. CASE Tick
  BY <1>22 DEF TypeOK, files, Touched, Ticks, Tick, Older
<1> QED
  BY <1>1, <1>2, <1>3, <1>4, <1>5, <1>6, <1>7, <1>8, <1>9, <1>10, <1>11, <1>12, <1>13,
     <1>14, <1>15, <1>16, <1>17, <1>18, <1>19, <1>20, <1>21, <1>22, NextCases

\* Every step keeps cleanup complete.
LEMMA ScannedStep ==
  ASSUME Timely, TypeOK, Placed, ActsAs, Scanned, [Next]_vars
  PROVE  Scanned'
<1> USE ConstantsOK
<1>1. CASE UNCHANGED vars
  BY <1>1 DEF vars, files, TypeOK, Scanned, Cleans, After, Discarding, Old, ActsAs,
     Named, Ticks
<1>2. ASSUME NEW w \in Window, ScanYoung(w)
       PROVE  Scanned'
  <2>1. PICK s \in todo[w] : ~Old(s) /\ todo' = [todo EXCEPT ![w] = @ \ {s}]
    BY <1>2 DEF ScanYoung
  <2> QED BY <1>2, <2>1 DEF TypeOK, files, Scanned, Cleans, After, Discarding, Old,
     ActsAs, Named, Ticks, ScanYoung, Goto
<1>3. ASSUME NEW w \in Window, ScanOld(w)
       PROVE  Scanned'
  <2>1. PICK s \in todo[w] : /\ Old(s)
                          /\ todo' = [todo EXCEPT ![w] = @ \ {s}]
                          /\ sid' = [sid EXCEPT ![w] = s]
    BY <1>3 DEF ScanOld
  <2> QED BY <1>3, <2>1 DEF TypeOK, files, Scanned, Cleans, After, Discarding, Old,
     ActsAs, Named, Ticks, ScanOld, Goto
<1>4. ASSUME NEW w \in Window, ScanDone(w)
       PROVE  Scanned'
  BY <1>4 DEF TypeOK, files, Scanned, Cleans, After, Discarding, Old, ActsAs, Named,
     Ticks, ScanDone, Goto
<1>5. ASSUME NEW w \in Window, Umount(w)
       PROVE  Scanned'
  BY <1>5 DEF TypeOK, files, Scanned, Cleans, After, Discarding, Old, ActsAs, Named,
     Ticks, Umount, Goto
<1>6. ASSUME NEW w \in Window, Clear(w)
       PROVE  Scanned'
  BY <1>6 DEF TypeOK, files, Scanned, Cleans, After, Discarding, Old, ActsAs, Named,
     Ticks, Clear, Goto
<1>7. ASSUME NEW w \in Window, Mount(w)
       PROVE  Scanned'
  <2>1. CASE as[w] # None
    <3>1. Answer(w) /\ UNCHANGED <<user, cookie, age, id, quiet, raced>>
      BY <1>7, <2>1 DEF Mount
    <3> QED BY <1>7, <2>1, <3>1 DEF TypeOK, Scanned, Cleans, After, Discarding, Old, Mount,
       Answer, Goto
  <2>2. CASE as[w] = None
    <3>1. /\ Goto(w, "unlink")
          /\ UNCHANGED <<user, cookie, age, id, kind, todo, sid, as, quiet, raced>>
      BY <1>7, <2>2 DEF Mount
    <3> QED BY <1>7, <2>2, <3>1 DEF TypeOK, Scanned, Cleans, After, Discarding, Old, Mount,
       Goto
  <2> QED BY <2>1, <2>2
<1>8. ASSUME NEW w \in Window, Unlink(w)
       PROVE  Scanned'
  BY <1>8 DEF TypeOK, files, Scanned, Cleans, After, Discarding, Old, ActsAs, Named,
     Ticks, Unlink, Goto
<1>9. ASSUME NEW w \in Window, Reuse(w)
       PROVE  Scanned'
  <2>1. PICK s \in Mine(w) : sid' = [sid EXCEPT ![w] = s]
    BY <1>9 DEF Reuse
  <2> QED BY <1>9, <2>1 DEF TypeOK, files, Scanned, Cleans, After, Discarding, Old,
     ActsAs, Named, Ticks, Reuse, Goto, Mine
<1>10. ASSUME NEW w \in Window, NewId(w)
       PROVE  Scanned'
  <2>1. PICK s \in Sid \ used : used' = used \union {s} /\ sid' = [sid EXCEPT ![w] = s]
    BY <1>10 DEF NewId
  <2> QED BY <1>10, <2>1 DEF TypeOK, files, Scanned, Cleans, After, Discarding, Old,
     ActsAs, Named, Ticks, NewId, Goto, Mine, Making
<1>11. ASSUME NEW w \in Window, MakeSession(w)
       PROVE  Scanned'
  BY <1>11 DEF TypeOK, files, Scanned, Cleans, After, Discarding, Old, ActsAs, Named,
     Ticks, MakeSession, Goto
<1>12. ASSUME NEW w \in Window, MakeFails(w)
       PROVE  Scanned'
  BY <1>12 DEF TypeOK, files, Scanned, Cleans, After, Discarding, Old, ActsAs, Named,
     Ticks, MakeFails, Answer, Goto
<1>13. ASSUME NEW w \in Window, CreateCookie(w)
       PROVE  Scanned'
  <2>1. sid[w] \in Sid /\ age' = [age EXCEPT ![sid[w]] = 0]
    BY <1>13 DEF Named, TypeOK, Placed, Giving, Discarding, Touch, CreateCookie
  <2>2. \A s \in Sid : cookie'[s] # Absent => s = sid[w] \/ cookie[s] # Absent
    BY <1>13, <2>1 DEF TypeOK, Touch, CreateCookie
  <2>3. \A s \in Sid : Old(s)' => Old(s)
    BY <2>1, <2>2 DEF Old, TypeOK, Ticks
  <2>4. pc[w] \in After
    BY <1>13 DEF After, CreateCookie
  <2> QED BY <2>3, <2>4 DEF Scanned
<1>14. ASSUME NEW w \in Window, WriteCookie(w)
       PROVE  Scanned'
  <2>1. sid[w] \in Sid /\ age' = [age EXCEPT ![sid[w]] = 0]
    BY <1>14 DEF Named, TypeOK, Placed, Giving, Discarding, Touch, WriteCookie
  <2>2. \A s \in Sid : cookie'[s] # Absent => s = sid[w] \/ cookie[s] # Absent
    BY <1>14, <2>1 DEF TypeOK, Touch, WriteCookie
  <2>3. \A s \in Sid : Old(s)' => Old(s)
    BY <2>1, <2>2 DEF Old, TypeOK, Ticks
  <2>4. pc[w] \in After
    BY <1>14 DEF After, WriteCookie
  <2> QED BY <2>3, <2>4 DEF Scanned
<1>15. ASSUME NEW w \in Window, StartSession(w)
       PROVE  Scanned'
  <2>1. sid[w] \in Sid /\ age' = [age EXCEPT ![sid[w]] = 0]
    BY <1>15 DEF Named, TypeOK, Placed, Giving, Discarding, Touch, StartSession
  <2>2. \A s \in Sid : cookie'[s] # Absent => s = sid[w] \/ cookie[s] # Absent
    BY <1>15, <2>1 DEF TypeOK, Touch, StartSession
  <2>3. \A s \in Sid : Old(s)' => Old(s)
    BY <2>1, <2>2 DEF Old, TypeOK, Ticks
  <2>4. pc[w] \in After
    BY <1>15 DEF After, StartSession
  <2> QED BY <2>3, <2>4 DEF Scanned
<1>16. ASSUME NEW w \in Window, ReadCookie(w)
       PROVE  Scanned'
  BY <1>16 DEF TypeOK, files, Scanned, Cleans, After, Discarding, Old, ActsAs, Named,
     Ticks, ReadCookie, Goto
<1>17. ASSUME NEW w \in Window, Update(w)
       PROVE  Scanned'
  <2>1. id[w] \in Sid /\ age' = [age EXCEPT ![id[w]] = 0]
    BY <1>17 DEF Named, TypeOK, Placed, Giving, Discarding, Touch, Update
  <2>2. \A s \in Sid : cookie'[s] # Absent => s = id[w] \/ cookie[s] # Absent
    BY <1>17, <2>1 DEF TypeOK, Touch, Update
  <2>3. \A s \in Sid : Old(s)' => Old(s)
    BY <2>1, <2>2 DEF Old, TypeOK, Ticks
  <2>4. pc[w] \in After
    BY <1>17 DEF After, Update
  <2> QED BY <2>3, <2>4 DEF Scanned
<1>18. ASSUME NEW w \in Window, ExecuteConf(w)
       PROVE  Scanned'
  BY <1>18 DEF TypeOK, files, Scanned, Cleans, After, Discarding, Old, ActsAs, Named,
     Ticks, ExecuteConf, Answer, Goto
<1>19. ASSUME NEW w \in Window, ExecuteDiscard(w)
       PROVE  Scanned'
  BY <1>19 DEF TypeOK, files, Scanned, Cleans, After, Discarding, Old, ActsAs, Named,
     Ticks, ExecuteDiscard, Goto
<1>20. ASSUME NEW w \in Window, Kill(w)
       PROVE  Scanned'
  BY <1>20 DEF TypeOK, files, Scanned, Cleans, After, Discarding, Old, ActsAs, Named,
     Ticks, Kill, Answer, Goto
<1>21. ASSUME NEW w \in Window, NEW k \in {"login", "op", "conf", "discard"}, Request(w, k)
       PROVE  Scanned'
  BY <1>21 DEF TypeOK, files, Scanned, Cleans, After, Discarding, Old, ActsAs, Named,
     Ticks, Request, Goto
<1>22. CASE Tick
  BY <1>22 DEF TypeOK, files, Scanned, Cleans, After, Discarding, Old, ActsAs, Named,
     Ticks, Tick, Older
<1> QED
  BY <1>1, <1>2, <1>3, <1>4, <1>5, <1>6, <1>7, <1>8, <1>9, <1>10, <1>11, <1>12, <1>13,
     <1>14, <1>15, <1>16, <1>17, <1>18, <1>19, <1>20, <1>21, <1>22, NextCases

\* Every step keeps cleanup to the sessions timed out.
LEMMA ExpiredStep ==
  ASSUME TypeOK, Placed, ActsAs, Touched, Scanned, Named, Fresh, Expired, [Next]_vars
  PROVE  Expired'
<1> USE ConstantsOK
<1>1. CASE UNCHANGED vars
  BY <1>1 DEF vars, files, TypeOK, Expired, Cleans, Discarding, Old
<1>2. ASSUME NEW w \in Window, ScanYoung(w)
       PROVE  Expired'
  <2>0. PICK s \in todo[w] : ~Old(s) /\ todo' = [todo EXCEPT ![w] = @ \ {s}]
    BY <1>2 DEF ScanYoung
  <2>1. \A v \in Window : Cleans(v)' => Cleans(v) /\ sid'[v] = sid[v]
    BY <1>2, <2>0 DEF TypeOK, Cleans, Discarding, ScanYoung, Goto, files, Old
  <2>2. UNCHANGED <<cookie, age, quiet>>
    BY <1>2 DEF ScanYoung, files
  <2> QED BY <2>1, <2>2 DEF Expired, Old
<1>3. ASSUME NEW w \in Window, ScanOld(w)
       PROVE  Expired'
  <2>0. PICK s \in todo[w] : /\ Old(s)
                          /\ todo' = [todo EXCEPT ![w] = @ \ {s}]
                          /\ sid' = [sid EXCEPT ![w] = s]
    BY <1>3 DEF ScanOld
  <2>1. \A v \in Window \ {w} : Cleans(v)' => Cleans(v) /\ sid'[v] = sid[v]
    BY <1>3, <2>0 DEF TypeOK, Cleans, Discarding, ScanOld, Goto
  <2>2. s \in Sid /\ sid'[w] = s
    BY <2>0 DEF TypeOK
  <2>3. Old(s) /\ quiet[s] > Timeout
    BY <2>0, <2>2 DEF Old, Touched, TypeOK, Ticks
  <2>4. UNCHANGED <<cookie, age, quiet>>
    BY <1>3 DEF ScanOld, files
  <2> QED BY <2>1, <2>2, <2>3, <2>4 DEF Expired, Old
<1>4. ASSUME NEW w \in Window, ScanDone(w)
       PROVE  Expired'
  <2>1. \A v \in Window : Cleans(v)' => Cleans(v) /\ sid'[v] = sid[v]
    BY <1>4 DEF TypeOK, Cleans, Discarding, ScanDone, Goto, files
  <2>2. UNCHANGED <<cookie, age, quiet>>
    BY <1>4 DEF ScanDone, files
  <2> QED BY <2>1, <2>2 DEF Expired, Old
<1>5. ASSUME NEW w \in Window, Umount(w)
       PROVE  Expired'
  <2>1. \A v \in Window : Cleans(v)' => Cleans(v) /\ sid'[v] = sid[v]
    BY <1>5 DEF TypeOK, Cleans, Discarding, Umount, Goto, files
  <2>2. UNCHANGED <<cookie, age, quiet>>
    BY <1>5 DEF Umount, files
  <2> QED BY <2>1, <2>2 DEF Expired, Old
<1>6. ASSUME NEW w \in Window, Clear(w)
       PROVE  Expired'
  <2>1. \A v \in Window : Cleans(v)' => Cleans(v) /\ sid'[v] = sid[v]
    BY <1>6 DEF TypeOK, Cleans, Discarding, Clear, Goto, files
  <2>2. UNCHANGED <<cookie, age, quiet>>
    BY <1>6 DEF Clear, files
  <2> QED BY <2>1, <2>2 DEF Expired, Old
<1>7. ASSUME NEW w \in Window, Mount(w)
       PROVE  Expired'
  <2>1. \A v \in Window : Cleans(v)' => Cleans(v) /\ sid'[v] = sid[v]
    <3>1. CASE as[w] # None
      <4>1. Answer(w)
        BY <1>7, <3>1 DEF Mount
      <4> QED BY <1>7, <4>1 DEF TypeOK, Cleans, Discarding, Answer, Goto
    <3>2. CASE as[w] = None
      BY <1>7, <3>2 DEF TypeOK, Cleans, Discarding, Mount, Goto
    <3> QED BY <3>1, <3>2
  <2>2. UNCHANGED <<cookie, age, quiet>>
    BY <1>7 DEF Mount
  <2> QED BY <2>1, <2>2 DEF Expired, Old
<1>8. ASSUME NEW w \in Window, Unlink(w)
       PROVE  Expired'
  <2>1. \A v \in Window : Cleans(v)' => Cleans(v) /\ sid'[v] = sid[v] /\ sid[v] \in Sid
    BY <1>8 DEF TypeOK, Placed, Giving, Cleans, Discarding, Unlink, Goto
  <2>2. \A s \in Sid : cookie'[s] = Absent \/ (cookie'[s] = cookie[s] /\ age'[s] = age[s])
    BY <1>8 DEF TypeOK, Unlink
  <2>3. quiet' = quiet
    BY <1>8 DEF Unlink
  <2> QED BY <2>1, <2>2, <2>3 DEF Expired, Old
<1>9. ASSUME NEW w \in Window, Reuse(w)
       PROVE  Expired'
  <2>0. PICK s \in Mine(w) : sid' = [sid EXCEPT ![w] = s]
    BY <1>9 DEF Reuse
  <2>1. \A v \in Window : Cleans(v)' => Cleans(v) /\ sid'[v] = sid[v]
    BY <1>9, <2>0 DEF TypeOK, Cleans, Discarding, Reuse, Goto, files, Mine
  <2>2. UNCHANGED <<cookie, age, quiet>>
    BY <1>9 DEF Reuse, files
  <2> QED BY <2>1, <2>2 DEF Expired, Old
<1>10. ASSUME NEW w \in Window, NewId(w)
       PROVE  Expired'
  <2>0. PICK s \in Sid \ used : used' = used \union {s} /\ sid' = [sid EXCEPT ![w] = s]
    BY <1>10 DEF NewId
  <2>1. \A v \in Window : Cleans(v)' => Cleans(v) /\ sid'[v] = sid[v]
    BY <1>10, <2>0 DEF TypeOK, Cleans, Discarding, NewId, Goto, files, Mine, Making
  <2>2. UNCHANGED <<cookie, age, quiet>>
    BY <1>10 DEF NewId, files
  <2> QED BY <2>1, <2>2 DEF Expired, Old
<1>11. ASSUME NEW w \in Window, MakeSession(w)
       PROVE  Expired'
  <2>1. \A v \in Window : Cleans(v)' => Cleans(v) /\ sid'[v] = sid[v]
    BY <1>11 DEF TypeOK, Cleans, Discarding, MakeSession, Goto, files
  <2>2. UNCHANGED <<cookie, age, quiet>>
    BY <1>11 DEF MakeSession, files
  <2> QED BY <2>1, <2>2 DEF Expired, Old
<1>12. ASSUME NEW w \in Window, MakeFails(w)
       PROVE  Expired'
  <2>1. \A v \in Window : Cleans(v)' => Cleans(v) /\ sid'[v] = sid[v]
    BY <1>12 DEF TypeOK, Cleans, Discarding, MakeFails, Answer, Goto, files
  <2>2. UNCHANGED <<cookie, age, quiet>>
    BY <1>12 DEF MakeFails, files
  <2> QED BY <2>1, <2>2 DEF Expired, Old
<1>13. ASSUME NEW w \in Window, CreateCookie(w)
       PROVE  Expired'
  <2>1. \A v \in Window : Cleans(v)' => Cleans(v) /\ sid'[v] = sid[v] /\ sid[v] \in Sid
    BY <1>13 DEF TypeOK, Placed, Giving, Cleans, Discarding, CreateCookie, Goto
  <2>2. \A v \in Window : Cleans(v) => sid[v] # sid[w]
    BY <1>13 DEF Fresh, Making, CreateCookie
  <2>3. \A s \in Sid \ {sid[w]} :
          cookie'[s] = cookie[s] /\ age'[s] = age[s] /\ quiet'[s] = quiet[s]
    BY <1>13 DEF TypeOK, CreateCookie
  <2> QED BY <2>1, <2>2, <2>3 DEF Expired, Old
<1>14. ASSUME NEW w \in Window, WriteCookie(w)
       PROVE  Expired'
  <2>1. \A v \in Window : Cleans(v)' => Cleans(v) /\ sid'[v] = sid[v] /\ sid[v] \in Sid
    BY <1>14 DEF TypeOK, Placed, Giving, Cleans, Discarding, WriteCookie, Goto
  <2>2. \A v \in Window : Cleans(v) => sid[v] # sid[w]
    BY <1>14 DEF Fresh, Making, WriteCookie
  <2>3. \A s \in Sid \ {sid[w]} :
          cookie'[s] = cookie[s] /\ age'[s] = age[s] /\ quiet'[s] = quiet[s]
    BY <1>14 DEF TypeOK, WriteCookie
  <2> QED BY <2>1, <2>2, <2>3 DEF Expired, Old
<1>15. ASSUME NEW w \in Window, StartSession(w)
       PROVE  Expired'
  <2>1. \A v \in Window : Cleans(v)' => Cleans(v) /\ sid'[v] = sid[v] /\ sid[v] \in Sid
    BY <1>15 DEF TypeOK, Placed, Giving, Cleans, Discarding, StartSession, Answer, Goto
  <2>2. \A v \in Window : Cleans(v) => sid[v] # sid[w]
    BY <1>15 DEF TypeOK, Named, Expired, Scanned, After, Placed, Giving, Discarding,
       StartSession
  <2>3. \A s \in Sid \ {sid[w]} :
          cookie'[s] = cookie[s] /\ age'[s] = age[s] /\ quiet'[s] = quiet[s]
    BY <1>15 DEF TypeOK, StartSession, Touch
  <2> QED BY <2>1, <2>2, <2>3 DEF Expired, Old
<1>16. ASSUME NEW w \in Window, ReadCookie(w)
       PROVE  Expired'
  <2>1. \A v \in Window : Cleans(v)' => Cleans(v) /\ sid'[v] = sid[v]
    BY <1>16 DEF TypeOK, Cleans, Discarding, ReadCookie, Goto, files
  <2>2. UNCHANGED <<cookie, age, quiet>>
    BY <1>16 DEF ReadCookie, files
  <2> QED BY <2>1, <2>2 DEF Expired, Old
<1>17. ASSUME NEW w \in Window, Update(w)
       PROVE  Expired'
  <2>1. \A v \in Window : Cleans(v)' => Cleans(v) /\ sid'[v] = sid[v] /\ sid[v] \in Sid
    BY <1>17 DEF TypeOK, Placed, Giving, Cleans, Discarding, Update, Goto
  <2>2. \A v \in Window : Cleans(v) => sid[v] # id[w]
    BY <1>17 DEF TypeOK, Named, Expired, Scanned, After, Placed, Giving, Discarding, Update
  <2>3. \A s \in Sid \ {id[w]} :
          cookie'[s] = cookie[s] /\ age'[s] = age[s] /\ quiet'[s] = quiet[s]
    BY <1>17 DEF TypeOK, Update, Touch
  <2> QED BY <2>1, <2>2, <2>3 DEF Expired, Old
<1>18. ASSUME NEW w \in Window, ExecuteConf(w)
       PROVE  Expired'
  <2>1. \A v \in Window : Cleans(v)' => Cleans(v) /\ sid'[v] = sid[v]
    BY <1>18 DEF TypeOK, Cleans, Discarding, ExecuteConf, Answer, Goto, files
  <2>2. UNCHANGED <<cookie, age, quiet>>
    BY <1>18 DEF ExecuteConf, files
  <2> QED BY <2>1, <2>2 DEF Expired, Old
<1>19. ASSUME NEW w \in Window, ExecuteDiscard(w)
       PROVE  Expired'
  <2>1. \A v \in Window : Cleans(v)' => Cleans(v) /\ sid'[v] = sid[v]
    BY <1>19 DEF TypeOK, Cleans, Discarding, ActsAs, ExecuteDiscard, Goto, files
  <2>2. UNCHANGED <<cookie, age, quiet>>
    BY <1>19 DEF ExecuteDiscard, files
  <2> QED BY <2>1, <2>2 DEF Expired, Old
<1>20. ASSUME NEW w \in Window, Kill(w)
       PROVE  Expired'
  <2>1. \A v \in Window : Cleans(v)' => Cleans(v) /\ sid'[v] = sid[v]
    BY <1>20 DEF TypeOK, Cleans, Discarding, Kill, Answer, Goto, files
  <2>2. UNCHANGED <<cookie, age, quiet>>
    BY <1>20 DEF Kill, files
  <2> QED BY <2>1, <2>2 DEF Expired, Old
<1>21. ASSUME NEW w \in Window, NEW k \in {"login", "op", "conf", "discard"}, Request(w, k)
       PROVE  Expired'
  <2>1. \A v \in Window : Cleans(v)' => Cleans(v) /\ sid'[v] = sid[v]
    BY <1>21 DEF TypeOK, Cleans, Discarding, Request, Goto, files
  <2>2. UNCHANGED <<cookie, age, quiet>>
    BY <1>21 DEF Request, files
  <2> QED BY <2>1, <2>2 DEF Expired, Old
<1>22. CASE Tick
  <2>1. \A w \in Window : Cleans(w)' => Cleans(w) /\ sid'[w] = sid[w] /\ sid[w] \in Sid
    BY <1>22 DEF TypeOK, Placed, Giving, Cleans, Discarding, Tick
  <2>2. \A s \in Sid : Old(s) => Old(s)'
    BY <1>22 DEF Old, Tick, Older
  <2>3. \A s \in Sid : quiet[s] > Timeout => quiet'[s] > Timeout
    BY <1>22 DEF TypeOK, Ticks, Tick, Older
  <2> QED BY <1>22, <2>1, <2>2, <2>3 DEF Expired, Tick
<1> QED
  BY <1>1, <1>2, <1>3, <1>4, <1>5, <1>6, <1>7, <1>8, <1>9, <1>10, <1>11, <1>12, <1>13,
     <1>14, <1>15, <1>16, <1>17, <1>18, <1>19, <1>20, <1>21, <1>22, NextCases

\* Every step keeps the users in the cookie files.
LEMMA NamedStep ==
  ASSUME TypeOK, Placed, ActsAs, Scanned, Expired, Fresh, Named, [Next]_vars
  PROVE  Named'
<1> USE ConstantsOK
<1>1. CASE UNCHANGED vars
  BY <1>1 DEF vars, files, TypeOK, Named
<1>2. ASSUME NEW w \in Window, ScanYoung(w)
       PROVE  Named'
  <2>1. PICK s \in todo[w] : ~Old(s) /\ todo' = [todo EXCEPT ![w] = @ \ {s}]
    BY <1>2 DEF ScanYoung
  <2> QED BY <1>2, <2>1 DEF TypeOK, files, Named, ScanYoung, Goto, Old
<1>3. ASSUME NEW w \in Window, ScanOld(w)
       PROVE  Named'
  <2>1. PICK s \in todo[w] : /\ Old(s)
                          /\ todo' = [todo EXCEPT ![w] = @ \ {s}]
                          /\ sid' = [sid EXCEPT ![w] = s]
    BY <1>3 DEF ScanOld
  <2> QED BY <1>3, <2>1 DEF TypeOK, files, Named, ScanOld, Goto, Old
<1>4. ASSUME NEW w \in Window, ScanDone(w)
       PROVE  Named'
  BY <1>4 DEF TypeOK, files, Named, ScanDone, Goto
<1>5. ASSUME NEW w \in Window, Umount(w)
       PROVE  Named'
  BY <1>5 DEF TypeOK, files, Named, Umount, Goto
<1>6. ASSUME NEW w \in Window, Clear(w)
       PROVE  Named'
  BY <1>6 DEF TypeOK, files, Named, Clear, Goto
<1>7. ASSUME NEW w \in Window, Mount(w)
       PROVE  Named'
  <2>1. CASE as[w] # None
    BY <1>7, <2>1 DEF TypeOK, files, Named, Mount, Answer, Goto
  <2>2. CASE as[w] = None
    BY <1>7, <2>2 DEF TypeOK, files, Named, Mount, Goto
  <2> QED BY <2>1, <2>2
<1>8. ASSUME NEW w \in Window, Unlink(w)
       PROVE  Named'
  <2>1. \A v \in Window : /\ pc[v] = "start" => sid[v] # sid[w]
                          /\ pc[v] = "update" => id[v] # sid[w]
    <3>1. cookie[sid[w]] = Absent \/ Old(sid[w])
      BY <1>8 DEF Expired, Cleans, Discarding, ActsAs, Unlink
    <3>2. Old(sid[w]) => \A v \in Window : pc[v] \notin {"start", "update"}
      BY <1>8 DEF Scanned, After, TypeOK, Placed, Discarding, Unlink
    <3> QED BY <3>1, <3>2 DEF Named, TypeOK
  <2> QED BY <1>8, <2>1 DEF Named, TypeOK, Unlink, Goto
<1>9. ASSUME NEW w \in Window, Reuse(w)
       PROVE  Named'
  <2>1. PICK s \in Mine(w) : sid' = [sid EXCEPT ![w] = s]
    BY <1>9 DEF Reuse
  <2> QED BY <1>9, <2>1 DEF TypeOK, files, Named, Reuse, Goto, Mine
<1>10. ASSUME NEW w \in Window, NewId(w)
       PROVE  Named'
  <2>1. PICK s \in Sid \ used : used' = used \union {s} /\ sid' = [sid EXCEPT ![w] = s]
    BY <1>10 DEF NewId
  <2> QED BY <1>10, <2>1 DEF TypeOK, files, Named, NewId, Goto, Mine, Making
<1>11. ASSUME NEW w \in Window, MakeSession(w)
       PROVE  Named'
  BY <1>11 DEF TypeOK, files, Named, MakeSession, Goto
<1>12. ASSUME NEW w \in Window, MakeFails(w)
       PROVE  Named'
  BY <1>12 DEF TypeOK, files, Named, MakeFails, Answer, Goto
<1>13. ASSUME NEW w \in Window, CreateCookie(w)
       PROVE  Named'
  <2>1. \A v \in Window : /\ pc[v] = "start" => sid[v] # sid[w]
                          /\ pc[v] = "update" => id[v] # sid[w]
    BY <1>13 DEF Fresh, Making, Named, TypeOK, CreateCookie
  <2> QED BY <1>13, <2>1 DEF Named, TypeOK, Placed, Giving, CreateCookie, Goto
<1>14. ASSUME NEW w \in Window, WriteCookie(w)
       PROVE  Named'
  <2>1. \A v \in Window : /\ pc[v] = "start" => sid[v] # sid[w]
                          /\ pc[v] = "update" => id[v] # sid[w]
    BY <1>14 DEF Fresh, Making, Named, TypeOK, WriteCookie
  <2> QED BY <1>14, <2>1 DEF Named, TypeOK, Placed, Giving, WriteCookie, Goto
<1>15. ASSUME NEW w \in Window, StartSession(w)
       PROVE  Named'
  BY <1>15 DEF TypeOK, files, Named, StartSession, Answer, Goto, Touch
<1>16. ASSUME NEW w \in Window, ReadCookie(w)
       PROVE  Named'
  BY <1>16 DEF TypeOK, files, Named, ReadCookie, Goto
<1>17. ASSUME NEW w \in Window, Update(w)
       PROVE  Named'
  BY <1>17 DEF TypeOK, files, Named, Update, Goto, Touch
<1>18. ASSUME NEW w \in Window, ExecuteConf(w)
       PROVE  Named'
  BY <1>18 DEF TypeOK, files, Named, ExecuteConf, Answer, Goto
<1>19. ASSUME NEW w \in Window, ExecuteDiscard(w)
       PROVE  Named'
  BY <1>19 DEF TypeOK, files, Named, ExecuteDiscard, Goto
<1>20. ASSUME NEW w \in Window, Kill(w)
       PROVE  Named'
  BY <1>20 DEF TypeOK, files, Named, Kill, Answer, Goto
<1>21. ASSUME NEW w \in Window, NEW k \in {"login", "op", "conf", "discard"}, Request(w, k)
       PROVE  Named'
  BY <1>21 DEF TypeOK, files, Named, Request, Goto
<1>22. CASE Tick
  BY <1>22 DEF TypeOK, files, Named, Tick, Older
<1> QED
  BY <1>1, <1>2, <1>3, <1>4, <1>5, <1>6, <1>7, <1>8, <1>9, <1>10, <1>11, <1>12, <1>13,
     <1>14, <1>15, <1>16, <1>17, <1>18, <1>19, <1>20, <1>21, <1>22, NextCases

\* Every step keeps new sessions to their makers.
LEMMA FreshStep ==
  ASSUME TypeOK, Placed, ActsAs, Scanned, Fresh, [Next]_vars
  PROVE  Fresh'
<1> USE ConstantsOK
<1>1. CASE UNCHANGED vars
  BY <1>1 DEF vars, files, TypeOK, Fresh, Making, Cleans, Discarding, Giving, Placed
<1>2. ASSUME NEW w \in Window, ScanYoung(w)
       PROVE  Fresh'
  <2>0. PICK s \in todo[w] : ~Old(s) /\ todo' = [todo EXCEPT ![w] = @ \ {s}]
    BY <1>2 DEF ScanYoung
  <2>1. \A v \in Window : /\ Making(v)' => Making(v) /\ sid'[v] = sid[v]
                          /\ Cleans(v)' => Cleans(v) /\ sid'[v] = sid[v]
    BY <1>2, <2>0 DEF TypeOK, Making, Cleans, Discarding, ScanYoung, Goto, files, Old
  <2>2. UNCHANGED <<cookie>>
    BY <1>2 DEF ScanYoung, files
  <2> QED BY <2>1, <2>2 DEF Fresh
<1>3. ASSUME NEW w \in Window, ScanOld(w)
       PROVE  Fresh'
  <2>0. PICK s \in todo[w] : /\ Old(s)
                          /\ todo' = [todo EXCEPT ![w] = @ \ {s}]
                          /\ sid' = [sid EXCEPT ![w] = s]
    BY <1>3 DEF ScanOld
  <2>1. \A v \in Window : /\ Making(v)' => Making(v) /\ sid'[v] = sid[v]
                          /\ v # w /\ Cleans(v)' => Cleans(v) /\ sid'[v] = sid[v]
    BY <1>3, <2>0 DEF TypeOK, Making, Cleans, Discarding, ScanOld, Goto
  <2>2. s \in Sid /\ sid'[w] = s
    BY <2>0 DEF TypeOK
  <2>3. \A v \in Window : ~Making(v)
    BY <2>0, <2>2 DEF Scanned, After, Making
  <2> QED BY <2>1, <2>3 DEF Fresh
<1>4. ASSUME NEW w \in Window, ScanDone(w)
       PROVE  Fresh'
  <2>1. \A v \in Window : /\ Making(v)' => Making(v) /\ sid'[v] = sid[v]
                          /\ Cleans(v)' => Cleans(v) /\ sid'[v] = sid[v]
    BY <1>4 DEF TypeOK, Making, Cleans, Discarding, ScanDone, Goto, files
  <2>2. UNCHANGED <<cookie>>
    BY <1>4 DEF ScanDone, files
  <2> QED BY <2>1, <2>2 DEF Fresh
<1>5. ASSUME NEW w \in Window, Umount(w)
       PROVE  Fresh'
  <2>1. \A v \in Window : /\ Making(v)' => Making(v) /\ sid'[v] = sid[v]
                          /\ Cleans(v)' => Cleans(v) /\ sid'[v] = sid[v]
    BY <1>5 DEF TypeOK, Making, Cleans, Discarding, Umount, Goto, files
  <2>2. UNCHANGED <<cookie>>
    BY <1>5 DEF Umount, files
  <2> QED BY <2>1, <2>2 DEF Fresh
<1>6. ASSUME NEW w \in Window, Clear(w)
       PROVE  Fresh'
  <2>1. \A v \in Window : /\ Making(v)' => Making(v) /\ sid'[v] = sid[v]
                          /\ Cleans(v)' => Cleans(v) /\ sid'[v] = sid[v]
    BY <1>6 DEF TypeOK, Making, Cleans, Discarding, Clear, Goto, files
  <2>2. UNCHANGED <<cookie>>
    BY <1>6 DEF Clear, files
  <2> QED BY <2>1, <2>2 DEF Fresh
<1>7. ASSUME NEW w \in Window, Mount(w)
       PROVE  Fresh'
  <2>1. \A v \in Window : /\ Making(v)' => Making(v) /\ sid'[v] = sid[v]
                          /\ Cleans(v)' => Cleans(v) /\ sid'[v] = sid[v]
    <3>1. CASE as[w] # None
      <4>1. Answer(w)
        BY <1>7, <3>1 DEF Mount
      <4> QED BY <1>7, <4>1 DEF TypeOK, Making, Cleans, Discarding, Answer, Goto
    <3>2. CASE as[w] = None
      BY <1>7, <3>2 DEF TypeOK, Making, Cleans, Discarding, Mount, Goto
    <3> QED BY <3>1, <3>2
  <2>2. UNCHANGED cookie
    BY <1>7 DEF Mount
  <2> QED BY <2>1, <2>2 DEF Fresh
<1>8. ASSUME NEW w \in Window, Unlink(w)
       PROVE  Fresh'
  <2>1. \A v \in Window : /\ Making(v)' => Making(v) /\ sid'[v] = sid[v]
                          /\ Cleans(v)' => Cleans(v) /\ sid'[v] = sid[v]
    BY <1>8 DEF TypeOK, Making, Cleans, Discarding, Unlink, Goto
  <2>2. \A s \in Sid : cookie'[s] \in User => cookie[s] \in User
    BY <1>8 DEF TypeOK, Unlink
  <2>3. \A v \in Window : Making(v) => sid[v] \in Sid
    BY DEF TypeOK, Placed, Giving, Making
  <2> QED BY <2>1, <2>2, <2>3 DEF Fresh
<1>9. ASSUME NEW w \in Window, Reuse(w)
       PROVE  Fresh'
  <2>0. PICK s \in Mine(w) : sid' = [sid EXCEPT ![w] = s]
    BY <1>9 DEF Reuse
  <2>1. \A v \in Window : /\ Making(v)' => Making(v) /\ sid'[v] = sid[v]
                          /\ Cleans(v)' => Cleans(v) /\ sid'[v] = sid[v]
    BY <1>9, <2>0 DEF TypeOK, Making, Cleans, Discarding, Reuse, Goto, files, Mine
  <2>2. UNCHANGED <<cookie>>
    BY <1>9 DEF Reuse, files
  <2> QED BY <2>1, <2>2 DEF Fresh
<1>10. ASSUME NEW w \in Window, NewId(w)
       PROVE  Fresh'
  <2>0. PICK s \in Sid \ used : used' = used \union {s} /\ sid' = [sid EXCEPT ![w] = s]
    BY <1>10 DEF NewId
  <2>1. /\ \A v \in Window \ {w} : (Making(v)' <=> Making(v)) /\ sid'[v] = sid[v]
        /\ \A v \in Window : Cleans(v)' => Cleans(v) /\ sid'[v] = sid[v]
    BY <1>10, <2>0 DEF TypeOK, Making, Cleans, Discarding, NewId, Goto
  <2>2. /\ sid'[w] = s /\ s \notin used /\ s \in Sid /\ cookie' = cookie
        /\ cookie[s] = Absent
    BY <1>10, <2>0 DEF TypeOK, Placed, NewId
  <2>3. \A v \in Window : Making(v) \/ Cleans(v) => sid[v] # s
    BY <2>2 DEF Placed, Making, Giving, Cleans
  <2> QED BY <2>1, <2>2, <2>3 DEF Fresh
<1>11. ASSUME NEW w \in Window, MakeSession(w)
       PROVE  Fresh'
  <2>1. \A v \in Window : /\ Making(v)' => Making(v) /\ sid'[v] = sid[v]
                          /\ Cleans(v)' => Cleans(v) /\ sid'[v] = sid[v]
    BY <1>11 DEF TypeOK, Making, Cleans, Discarding, MakeSession, Goto, files
  <2>2. UNCHANGED <<cookie>>
    BY <1>11 DEF MakeSession, files
  <2> QED BY <2>1, <2>2 DEF Fresh
<1>12. ASSUME NEW w \in Window, MakeFails(w)
       PROVE  Fresh'
  <2>1. \A v \in Window : /\ Making(v)' => Making(v) /\ sid'[v] = sid[v]
                          /\ Cleans(v)' => Cleans(v) /\ sid'[v] = sid[v]
    BY <1>12 DEF TypeOK, Making, Cleans, Discarding, MakeFails, Answer, Goto, files
  <2>2. UNCHANGED <<cookie>>
    BY <1>12 DEF MakeFails, files
  <2> QED BY <2>1, <2>2 DEF Fresh
<1>13. ASSUME NEW w \in Window, CreateCookie(w)
       PROVE  Fresh'
  <2>1. \A v \in Window : /\ Making(v)' => Making(v) /\ sid'[v] = sid[v]
                          /\ Cleans(v)' => Cleans(v) /\ sid'[v] = sid[v]
    BY <1>13 DEF TypeOK, Making, Cleans, Discarding, CreateCookie, Goto
  <2>2. \A s \in Sid : cookie'[s] \in User => cookie[s] \in User
    BY <1>13 DEF TypeOK, CreateCookie
  <2>3. \A v \in Window : Making(v) => sid[v] \in Sid
    BY DEF TypeOK, Placed, Giving, Making
  <2> QED BY <2>1, <2>2, <2>3 DEF Fresh
<1>14. ASSUME NEW w \in Window, WriteCookie(w)
       PROVE  Fresh'
  <2>1. \A v \in Window : /\ Making(v)' => v # w /\ Making(v) /\ sid'[v] = sid[v]
                          /\ Cleans(v)' => Cleans(v) /\ sid'[v] = sid[v]
    BY <1>14 DEF TypeOK, Making, Cleans, Discarding, WriteCookie, Goto
  <2>2. \A v \in Window \ {w} : Making(v) => sid[v] # sid[w]
    BY <1>14 DEF Fresh, Making, WriteCookie
  <2>3. \A s \in Sid \ {sid[w]} : cookie'[s] = cookie[s]
    BY <1>14 DEF TypeOK, WriteCookie
  <2>4. \A v \in Window : Making(v) => sid[v] \in Sid
    BY DEF TypeOK, Placed, Giving, Making
  <2> QED BY <2>1, <2>2, <2>3, <2>4 DEF Fresh
<1>15. ASSUME NEW w \in Window, StartSession(w)
       PROVE  Fresh'
  <2>1. \A v \in Window : /\ Making(v)' => Making(v) /\ sid'[v] = sid[v]
                          /\ Cleans(v)' => Cleans(v) /\ sid'[v] = sid[v]
    BY <1>15 DEF TypeOK, Making, Cleans, Discarding, StartSession, Answer, Goto
  <2>2. \A s \in Sid : cookie'[s] \in User => cookie[s] \in User
    BY <1>15 DEF TypeOK, StartSession, Touch
  <2>3. \A v \in Window : Making(v) => sid[v] \in Sid
    BY DEF TypeOK, Placed, Giving, Making
  <2> QED BY <2>1, <2>2, <2>3 DEF Fresh
<1>16. ASSUME NEW w \in Window, ReadCookie(w)
       PROVE  Fresh'
  <2>1. \A v \in Window : /\ Making(v)' => Making(v) /\ sid'[v] = sid[v]
                          /\ Cleans(v)' => Cleans(v) /\ sid'[v] = sid[v]
    BY <1>16 DEF TypeOK, Making, Cleans, Discarding, ReadCookie, Goto, files
  <2>2. UNCHANGED <<cookie>>
    BY <1>16 DEF ReadCookie, files
  <2> QED BY <2>1, <2>2 DEF Fresh
<1>17. ASSUME NEW w \in Window, Update(w)
       PROVE  Fresh'
  <2>1. \A v \in Window : /\ Making(v)' => Making(v) /\ sid'[v] = sid[v]
                          /\ Cleans(v)' => Cleans(v) /\ sid'[v] = sid[v]
    BY <1>17 DEF TypeOK, Making, Cleans, Discarding, Update, Goto
  <2>2. \A s \in Sid : cookie'[s] \in User => cookie[s] \in User
    BY <1>17 DEF TypeOK, Update, Touch
  <2>3. \A v \in Window : Making(v) => sid[v] \in Sid
    BY DEF TypeOK, Placed, Giving, Making
  <2> QED BY <2>1, <2>2, <2>3 DEF Fresh
<1>18. ASSUME NEW w \in Window, ExecuteConf(w)
       PROVE  Fresh'
  <2>1. \A v \in Window : /\ Making(v)' => Making(v) /\ sid'[v] = sid[v]
                          /\ Cleans(v)' => Cleans(v) /\ sid'[v] = sid[v]
    BY <1>18 DEF TypeOK, Making, Cleans, Discarding, ExecuteConf, Answer, Goto, files
  <2>2. UNCHANGED <<cookie>>
    BY <1>18 DEF ExecuteConf, files
  <2> QED BY <2>1, <2>2 DEF Fresh
<1>19. ASSUME NEW w \in Window, ExecuteDiscard(w)
       PROVE  Fresh'
  <2>1. \A v \in Window : /\ Making(v)' => Making(v) /\ sid'[v] = sid[v]
                          /\ Cleans(v)' => Cleans(v) /\ sid'[v] = sid[v]
    BY <1>19 DEF TypeOK, Making, Cleans, Discarding, ActsAs, ExecuteDiscard, Goto, files
  <2>2. UNCHANGED <<cookie>>
    BY <1>19 DEF ExecuteDiscard, files
  <2> QED BY <2>1, <2>2 DEF Fresh
<1>20. ASSUME NEW w \in Window, Kill(w)
       PROVE  Fresh'
  <2>1. \A v \in Window : /\ Making(v)' => Making(v) /\ sid'[v] = sid[v]
                          /\ Cleans(v)' => Cleans(v) /\ sid'[v] = sid[v]
    BY <1>20 DEF TypeOK, Making, Cleans, Discarding, Kill, Answer, Goto, files
  <2>2. UNCHANGED <<cookie>>
    BY <1>20 DEF Kill, files
  <2> QED BY <2>1, <2>2 DEF Fresh
<1>21. ASSUME NEW w \in Window, NEW k \in {"login", "op", "conf", "discard"}, Request(w, k)
       PROVE  Fresh'
  <2>1. \A v \in Window : /\ Making(v)' => Making(v) /\ sid'[v] = sid[v]
                          /\ Cleans(v)' => Cleans(v) /\ sid'[v] = sid[v]
    BY <1>21 DEF TypeOK, Making, Cleans, Discarding, Request, Goto, files
  <2>2. UNCHANGED <<cookie>>
    BY <1>21 DEF Request, files
  <2> QED BY <2>1, <2>2 DEF Fresh
<1>22. CASE Tick
  BY <1>22 DEF TypeOK, files, Fresh, Making, Cleans, Discarding, Giving, Placed, Tick,
     Older
<1> QED
  BY <1>1, <1>2, <1>3, <1>4, <1>5, <1>6, <1>7, <1>8, <1>9, <1>10, <1>11, <1>12, <1>13,
     <1>14, <1>15, <1>16, <1>17, <1>18, <1>19, <1>20, <1>21, <1>22, NextCases

----------------------------------------------------------------------------
\* What holds as long as requests get through their use of the cookie files within a
\* tick of the clock.
Kept == ActsAs /\ InDir /\ Touched /\ Scanned /\ Expired /\ Named /\ Fresh

LEMMA KeptInvariant ==
  ASSUME Timely
  PROVE  Spec => []Kept
<1>1. ASSUME Init PROVE Kept
  <2> USE <1>1, ConstantsOK
  <2>1. ActsAs /\ InDir /\ Named
    BY DEF Init, ActsAs, InDir, Named
  <2>2. Touched /\ Scanned
    BY DEF Init, Touched, Scanned, Old
  <2>3. Expired /\ Fresh
    BY DEF Init, Expired, Fresh, Cleans, Discarding, Making
  <2> QED BY <2>1, <2>2, <2>3 DEF Kept
<1>2. TypeOK /\ Placed /\ Kept /\ [Next]_vars => Kept'
  BY ActsAsStep, InDirStep, TouchedStep, ScannedStep, ExpiredStep, NamedStep, FreshStep
  DEF Kept
<1> QED BY <1>1, <1>2, PlacedInvariant, PTL DEF Spec

\* A login at its start_session ends in it or is killed.
LEMMA StartEnds ==
  ASSUME TypeOK, [Next]_vars, NEW w \in Window, pc[w] = "start", pc'[w] # "start"
  PROVE  StartSession(w) \/ Kill(w)
<1> DEFINE Step(v) ==
       \/ ScanYoung(v) \/ ScanOld(v) \/ ScanDone(v)
       \/ Umount(v) \/ Clear(v) \/ Mount(v) \/ Unlink(v)
       \/ Reuse(v) \/ NewId(v) \/ MakeSession(v) \/ MakeFails(v)
       \/ CreateCookie(v) \/ WriteCookie(v)
       \/ ReadCookie(v) \/ Update(v) \/ ExecuteConf(v) \/ ExecuteDiscard(v)
       \/ \E k \in {"login", "op", "conf", "discard"} : Request(v, k)
<1>1. ~(UNCHANGED vars \/ Tick)
  BY DEF vars, Tick
<1>2. PICK v \in Window : Step(v) \/ StartSession(v) \/ Kill(v)
  BY <1>1, NextCases
<1>3. \A l \in Pc : Goto(v, l) \/ pc' = pc => v = w
  BY DEF TypeOK, Goto
<1>4. CASE v = w
  <2>1. ~Step(w)
    BY DEF ScanYoung, ScanOld, ScanDone, Umount, Clear, Mount, Unlink, Reuse, NewId,
       MakeSession, MakeFails, CreateCookie, WriteCookie, ReadCookie, Update, ExecuteConf,
       ExecuteDiscard, Request
  <2> QED BY <1>2, <1>4, <2>1
<1>5. CASE v # w
  <2>1. pc' = pc \/ \E l \in Pc : Goto(v, l)
    BY <1>2 DEF ScanYoung, ScanOld, ScanDone, Umount, Clear, Mount, Unlink, Reuse, NewId,
       MakeSession, MakeFails, CreateCookie, WriteCookie, StartSession, ReadCookie, Update,
       ExecuteConf, ExecuteDiscard, Kill, Request, Answer, Pc
  <2> QED BY <1>3, <1>5, <2>1
<1> QED BY <1>4, <1>5

\* A user has one session whatever windows log in, reload or are killed, as long as no
\* two logins of the user make sessions at once (authenticate.cc reuse_session looks
\* for a cookie file with the user's name, create_new_session writes one).
THEOREM OneSessionTheorem == Spec => []OneSession
<1>1. Init => OneMade
  BY ConstantsOK DEF Init, OneMade, Making
<1>2. TypeOK /\ OneMade /\ [Next]_vars => OneMade'
  BY OneMadeStep
<1>3. OneMade => OneSession
  BY DEF OneMade, OneSession
<1> QED BY <1>1, <1>2, <1>3, PlacedInvariant, PTL DEF Spec

\* If requests are timely, a login that succeeds gives the window a session whose cookie
\* file names its user and whose directories are there, though others' cleanup may have
\* looked at the session while start_session was about to touch it.
THEOREM LoginUsableTheorem ==
  ASSUME Timely
  PROVE  Spec => LoginUsable
<1>1. ASSUME TypeOK, Placed, Kept, Kept', [Next]_vars, NEW w \in Window,
             pc[w] = "start", pc'[w] = "idle", id'[w] = sid[w]
      PROVE  cookie'[sid[w]] = user[w] /\ sid[w] \in dir'
  <2>1. sid[w] \in Sid /\ sid[w] \in dir /\ cookie[sid[w]] = user[w] /\ user[w] \in User
    BY <1>1 DEF TypeOK, Placed, Giving, Kept, InDir, Named
  <2>2. sid[w] \in dir'
    <3>1. id'[w] # None
      BY <1>1, <2>1, ConstantsOK
    <3> QED BY <1>1, <3>1 DEF Kept, InDir
  <2>3. StartSession(w) \/ Kill(w)
    BY <1>1, StartEnds
  <2>4. cookie'[sid[w]] = cookie[sid[w]]
    BY <1>1, <2>1, <2>3, ConstantsOK DEF StartSession, Kill, files, Touch, TypeOK
  <2> QED BY <2>1, <2>2, <2>4
<1>2. TypeOK /\ Placed /\ Kept /\ Kept' /\ [Next]_vars =>
        [\A w \in Window : LET s == sid[w] IN
           pc[w] = "start" /\ pc'[w] = "idle" /\ id'[w] = s =>
             cookie'[s] = user[w] /\ s \in dir']_vars
  BY <1>1
<1> QED BY <1>2, KeptInvariant, PlacedInvariant, PTL DEF Spec, LoginUsable

\* If requests are timely, cleanup discards and unlinks only sessions nobody has used
\* within the timeout (session.cc clean_up_old_sessions), whichever requests look at the
\* cookie file at once.
THEOREM ActiveKeptTheorem ==
  ASSUME Timely
  PROVE  Spec => ActiveKept
<1>1. Kept => [\A w \in Window :
         \/ pc[w] = "clear" /\ pc'[w] = "mount" /\ as[w] = None
         \/ pc[w] = "unlink" /\ pc'[w] = "scan"
         => quiet[sid[w]] > Timeout]_vars
  BY DEF Kept, Expired, ActsAs, Cleans, Discarding
<1> QED BY <1>1, KeptInvariant, PTL DEF ActiveKept
============================================================================
