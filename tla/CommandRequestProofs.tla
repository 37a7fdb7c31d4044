------------------------ MODULE CommandRequestProofs ------------------------
(* Theorems about CommandRequest, for any number of windows, any values and *)
(* any limits of length.                                                    *)
EXTENDS CommandRequest, TLAPS

Waiting == Serving \ {"run"}

\* Before its statements a request has run none. While nobody else has run one, the leaf
\* is as it was before them, and between them what those behind it leave.
Begun(w) ==
  /\ pc[w] \in Waiting => pos[w] = 0
  /\ alone[w] =>
       /\ pc[w] \in Waiting => leaf = before[w]
       /\ pc[w] = "run" /\ pos[w] = 0 => leaf = before[w]
       /\ pc[w] = "run" /\ pos[w] > 0 =>
            /\ \A i \in 1..(pos[w] - 1) : Kind[req[w][i]] # "bad"
            /\ leaf = Result(req[w], pos[w] - 1)

\* What the last to delete has set since is there.
Building(w) ==
  deleter = w /\ pc[w] = "run" /\ pos[w] > 0 => Result(req[w], pos[w] - 1) \subseteq leaf

\* AnswerTells and LastComplete, of one window
Told(w) ==
  pc[w] = "answered" /\ alone[w] =>
    /\ code[w] = "success" => /\ \A i \in 1..Len(req[w]) : Kind[req[w][i]] # "bad"
                             /\ leaf = Result(req[w], Len(req[w]))
    /\ code[w] = "failed" => \/ leaf = {} /\ before[w] = {}
                            \/ \E k \in 1..Len(req[w]) :
                                 Refused(req[w], k) /\ leaf = Result(req[w], k - 1)
    /\ code[w] \notin {"success", "failed"} => leaf = before[w]

Complete(w) ==
  deleter = w /\ pc[w] = "answered" /\ code[w] = "success" =>
    Result(req[w], Len(req[w])) \subseteq leaf

RequestInv(w) == Begun(w) /\ Building(w) /\ Told(w) /\ Complete(w)
Inv == TypeOK /\ \A w \in Window : RequestInv(w)

----------------------------------------------------------------------------
\* A value's text is one.
LEMMA TextType == ASSUME NEW v \in Value PROVE TextOf(v) \in Text
BY DEF TextOf, Text

\* What n values leave are texts.
LEMMA ResultType ==
  ASSUME NEW vals \in Seq(Value), NEW n \in Nat, n <= Len(vals)
  PROVE  Result(vals, n) \subseteq Text
<1> SUFFICES ASSUME NEW i \in {j \in 1..n : Kept(vals[j])} PROVE TextOf(vals[i]) \in Text
  BY DEF Result
<1>1. vals[i] \in Value
  OBVIOUS
<1> QED
  BY <1>1, TextType

\* Before the first value nothing is set.
LEMMA ResultNone == \A vals : Result(vals, 0) = {}
BY DEF Result

\* One value more
LEMMA ResultMore ==
  ASSUME NEW vals, NEW k \in Nat \ {0}
  PROVE  Result(vals, k) = IF Kept(vals[k]) THEN Result(vals, k - 1) \union {TextOf(vals[k])}
                           ELSE Result(vals, k - 1)
<1>1. 1..k = (1..(k - 1)) \union {k}
  OBVIOUS
<1>2. CASE Kept(vals[k])
  <2>1. {j \in 1..k : Kept(vals[j])} = {j \in 1..(k - 1) : Kept(vals[j])} \union {k}
    BY <1>1, <1>2
  <2> QED
    BY <1>2, <2>1 DEF Result
<1>3. CASE ~Kept(vals[k])
  <2>1. {j \in 1..k : Kept(vals[j])} = {j \in 1..(k - 1) : Kept(vals[j])}
    BY <1>1, <1>3
  <2> QED
    BY <1>3, <2>1 DEF Result
<1> QED
  BY <1>2, <1>3

\* Which statement a request is at
LEMMA WhichStatement ==
  ASSUME TypeOK, NEW w \in Window, pc[w] = "run"
  PROVE  /\ AtDelete(w) <=> pos[w] = 0
         /\ AtSet(w) <=> pos[w] \in 1..Len(req[w])
         /\ AtSet(w) => req[w][pos[w]] \in Value
<1>1. pos[w] \in Nat /\ pos[w] <= Len(req[w]) /\ req[w] \in Seq(Value)
  BY DEF TypeOK
<1>2. pos[w] # 0 => pos[w] \in 1..Len(req[w]) /\ req[w][pos[w]] \in Value
  BY <1>1
<1>3. Statement(req[w], pos[w]) = Delete <=> pos[w] = 0
  BY <1>2, RequestOK DEF Statement
<1>4. pos[w] # 0 <=> pos[w] \in 1..Len(req[w])
  BY <1>1
<1> QED
  BY <1>2, <1>3, <1>4 DEF AtDelete, AtSet

----------------------------------------------------------------------------
\* The initial states
LEMMA InitInv == Init => Inv
<1> SUFFICES ASSUME Init PROVE Inv
  OBVIOUS
<1>1. leaf \subseteq Text
  BY TextType DEF Init
<1>2. TypeOK
  BY <1>1 DEF Init, TypeOK, Serving, Code, Facts
<1>3. \A w \in Window : RequestInv(w)
  BY DEF Init, RequestInv, Begun, Building, Told, Complete, Waiting, Serving
<1> QED
  BY <1>2, <1>3 DEF Inv

----------------------------------------------------------------------------
\* Every step keeps the types.
LEMMA NextType == Inv /\ [Next]_vars => TypeOK'
<1> SUFFICES ASSUME Inv, [Next]_vars PROVE TypeOK'
  OBVIOUS
<1>0. TypeOK
  BY DEF Inv
<1> USE <1>0 DEF TypeOK
<1>1. ASSUME NEW w \in Window, Send(w) PROVE TypeOK'
  <2>1. PICK n \in 0..MaxValues : \E vals \in [1..n -> Value] : req' = [req EXCEPT ![w] = vals]
    BY <1>1 DEF Send
  <2>2. PICK vals \in [1..n -> Value] : req' = [req EXCEPT ![w] = vals]
    BY <2>1
  <2>3. n \in Nat
    BY RequestOK
  <2>4. req' \in [Window -> Seq(Value)]
    BY <2>2, <2>3
  <2>5. pc' \in [Window -> Serving \union {"idle", "answered", "lost"}] /\ code' = code
    BY <1>1 DEF Send, Goto, Serving
  <2>6. /\ \A v \in Window : pc'[v] = "run" => pos'[v] <= Len(req'[v])
        /\ pos' \in [Window -> Nat]
    <3>1. \A v \in Window : v # w => pc'[v] = pc[v] /\ pos'[v] = pos[v] /\ req'[v] = req[v]
      BY <1>1, <2>2 DEF Send, Goto
    <3>2. pc'[w] = "read"
      BY <1>1 DEF Send, Goto
    <3>3. pos' \in [Window -> Nat]
      BY <1>1 DEF Send
    <3> QED
      BY <3>1, <3>2, <3>3
  <2>7. before' \in [Window -> SUBSET Text] /\ alone' \in [Window -> BOOLEAN]
    BY <1>1 DEF Send
  <2>8. sent' \in [Window -> Nat]
    BY <1>1 DEF Send
  <2> QED
    BY <1>1, <2>4, <2>5, <2>6, <2>7, <2>8 DEF Send
<1>2. ASSUME NEW w \in Window, Kill(w) PROVE TypeOK'
  BY <1>2 DEF Kill, Goto, Serving, history
<1>3. ASSUME NEW w \in Window,
             Read(w) \/ Parse(w) \/ ParseFails(w) \/ ParseFailsOnDirt(w)
               \/ LookForCommit(w) \/ Update(w)
      PROVE  TypeOK'
  <2>1. /\ pc' \in [Window -> Serving \union {"idle", "answered", "lost"}]
        /\ code' \in [Window -> Code]
        /\ \A v \in Window : pc'[v] = "run" => pc[v] = "run"
    BY <1>3 DEF Read, Parse, ParseFails, ParseFailsOnDirt, LookForCommit, Update, Goto, Answer,
       Serving, Code
  <2>2. /\ UNCHANGED <<leaf, req, pos, fact, history, sent, changes, kills>>
        /\ dirt' \in Nat
    BY <1>3 DEF Read, Parse, ParseFails, ParseFailsOnDirt, LookForCommit, Update, history, bounds
  <2> QED
    BY <2>1, <2>2 DEF history
<1>4. ASSUME NEW w \in Window, Validate(w) PROVE TypeOK'
  <2>1. pos[w] = 0
    BY <1>4 DEF Validate, Inv, RequestInv, Begun, Waiting, Serving
  <2>2. /\ pc' \in [Window -> Serving \union {"idle", "answered", "lost"}]
        /\ code' \in [Window -> Code]
        /\ \A v \in Window : pc'[v] = "run" => pc[v] = "run" \/ v = w
    BY <1>4 DEF Validate, Goto, Answer, Serving, Code
  <2>3. UNCHANGED <<leaf, req, pos, fact, history, bounds>>
    BY <1>4 DEF Validate
  <2>4. \A v \in Window : Len(req[v]) \in Nat
    OBVIOUS
  <2> QED
    BY <2>1, <2>2, <2>3, <2>4 DEF history, bounds
<1>5. ASSUME NEW w \in Window, AtDelete(w) \/ AtSet(w), Onward(w), UNCHANGED req
      PROVE  /\ pc' \in [Window -> Serving \union {"idle", "answered", "lost"}]
             /\ code' \in [Window -> Code] /\ pos' \in [Window -> Nat]
             /\ \A v \in Window : pc'[v] = "run" => pos'[v] <= Len(req'[v])
  <2>1. pos' \in [Window -> Nat] /\ pos'[w] = pos[w] + 1
    BY <1>5 DEF Onward
  <2>2. \A v \in Window : v # w => pc'[v] = pc[v] /\ pos'[v] = pos[v]
    BY <1>5 DEF Onward, Goto, Answer
  <2>3. Len(req[w]) \in Nat /\ pos[w] \in Nat
    OBVIOUS
  <2>4. pc'[w] = "run" => pos[w] < Len(req[w])
    BY <1>5, <2>3 DEF Onward, Answer, Goto
  <2>5. /\ pc' \in [Window -> Serving \union {"idle", "answered", "lost"}]
        /\ code' \in [Window -> Code]
    BY <1>5 DEF Onward, Answer, Goto, Serving, Code
  <2>6. pc'[w] = "run" => pos'[w] <= Len(req'[w])
    BY <1>5, <2>1, <2>3, <2>4
  <2> QED
    BY <1>5, <2>1, <2>2, <2>5, <2>6
<1>6. ASSUME NEW w \in Window, RunDelete(w) PROVE TypeOK'
  <2>1. alone' \in [Window -> BOOLEAN]
    BY <1>6 DEF RunDelete, Disturb
  <2> QED
    BY <1>5, <1>6, <2>1 DEF RunDelete, bounds
<1>7. ASSUME NEW w \in Window, RunSet(w) PROVE TypeOK'
  <2>1. alone' \in [Window -> BOOLEAN]
    BY <1>7 DEF RunSet, Disturb
  <2>2. Statement(req[w], pos[w]) \in Value
    BY <1>7, WhichStatement DEF RunSet, AtSet, Statement
  <2>3. leaf' \subseteq Text
    BY <1>7, <2>2, TextType DEF RunSet
  <2> QED
    BY <1>5, <1>7, <2>1, <2>3 DEF RunSet, bounds
<1>8. ASSUME NEW w \in Window, RefuseDelete(w) \/ RefuseSet(w) PROVE TypeOK'
  <2>1. /\ pc' \in [Window -> Serving \union {"idle", "answered", "lost"}]
        /\ code' \in [Window -> Code]
        /\ \A v \in Window : pc'[v] = "run" => pc[v] = "run"
    BY <1>8 DEF RefuseDelete, RefuseSet, Answer, Code
  <2>2. UNCHANGED <<leaf, req, pos, fact, history, bounds>>
    BY <1>8 DEF RefuseDelete, RefuseSet
  <2> QED
    BY <2>1, <2>2 DEF history, bounds
<1>9. ASSUME NEW f \in Facts, Change(f) PROVE TypeOK'
  <2>1. fact' \in [Facts -> BOOLEAN] /\ changes' \in Nat
    BY <1>9 DEF Change
  <2> QED
    BY <1>9, <2>1 DEF Change, history
<1>10. CASE UNCHANGED vars
  BY <1>10 DEF vars, history, bounds
<1> QED
  BY <1>1, <1>2, <1>3, <1>4, <1>6, <1>7, <1>8, <1>9, <1>10 DEF Next, Serve, Run

----------------------------------------------------------------------------
\* A window whose request is left alone, and whose leaf is as it was or was disturbed by
\* another's statement that did not delete.
LEMMA OthersKept ==
  ASSUME NEW w \in Window, RequestInv(w),
         pc'[w] = pc[w], req'[w] = req[w], code'[w] = code[w], pos'[w] = pos[w],
         before'[w] = before[w],
         alone'[w] => alone[w] /\ leaf' = leaf,
         deleter' = w => deleter = w /\ leaf \subseteq leaf'
  PROVE  RequestInv(w)'
<1>1. Begun(w)'
  BY DEF RequestInv, Begun
<1>2. Building(w)'
  BY DEF RequestInv, Building, Result
<1>3. Told(w)'
  BY DEF RequestInv, Told, Refused
<1>4. Complete(w)'
  BY DEF RequestInv, Complete
<1> QED
  BY <1>1, <1>2, <1>3, <1>4 DEF RequestInv

\* A request that ends without running a statement more, or goes on to its statements
LEMMA Looking ==
  ASSUME NEW w \in Window, RequestInv(w), pc[w] \in Waiting,
         UNCHANGED <<leaf, req, pos, history>>,
         \/ pc'[w] \in Serving \union {"lost"}
         \/ pc'[w] = "answered" /\ code'[w] \notin {"success", "failed"}
  PROVE  RequestInv(w)'
<1>1. Begun(w)'
  BY DEF RequestInv, Begun, Waiting, Serving, history
<1>2. Building(w)'
  BY DEF RequestInv, Begun, Building, Waiting, Serving, history
<1>3. Told(w)'
  BY DEF RequestInv, Begun, Told, Waiting, Serving, history
<1>4. Complete(w)'
  BY DEF Complete, Waiting, Serving
<1> QED
  BY <1>1, <1>2, <1>3, <1>4 DEF RequestInv

\* What a window's own statement does to its request
LEMMA StatementKeeps ==
  ASSUME Inv, NEW w \in Window, Run(w)
  PROVE  RequestInv(w)'
<1>0. /\ TypeOK /\ RequestInv(w) /\ pos[w] \in Nat /\ Len(req[w]) \in Nat
      /\ pc \in [Window -> Serving \union {"idle", "answered", "lost"}]
      /\ code \in [Window -> Code] /\ pos \in [Window -> Nat] /\ alone \in [Window -> BOOLEAN]
  BY DEF Inv, TypeOK
<1>1. CASE RunDelete(w)
  <2>1. /\ pos[w] = 0 /\ pos'[w] = 1 /\ leaf' = {} /\ req' = req
        /\ \/ pc'[w] = "answered" /\ code'[w] = "success" /\ Len(req[w]) = 0
           \/ pc'[w] = "run"
    BY <1>0, <1>1, WhichStatement DEF RunDelete, AtDelete, Onward, Answer, Goto
  <2>2. Result(req'[w], 0) = {}
    BY ResultNone
  <2>3. Begun(w)'
    BY <2>1, <2>2 DEF Begun, Waiting, Serving
  <2>4. Building(w)'
    BY <2>1, <2>2 DEF Building
  <2>5. Told(w)' /\ Complete(w)'
    BY <2>1, <2>2 DEF Told, Complete
  <2> QED
    BY <2>3, <2>4, <2>5 DEF RequestInv
<1>2. CASE RunSet(w)
  <2> DEFINE k == pos[w]
             v == req[w][k]
  <2>1. /\ k \in 1..Len(req[w]) /\ pos'[w] = k + 1 /\ req' = req /\ pc[w] = "run"
        /\ Statement(req[w], k) = v
        /\ \/ pc'[w] = "answered" /\ code'[w] = "success" /\ Len(req[w]) = k
           \/ pc'[w] = "run"
    BY <1>0, <1>2, WhichStatement DEF RunSet, AtSet, Onward, Answer, Goto, Statement
  <2>2. /\ Kind[v] # "bad" /\ before' = before /\ deleter' = deleter
        /\ leaf' = IF Kept(v) THEN leaf \union {TextOf(v)} ELSE leaf
        /\ alone'[w] => alone[w]
    BY <1>0, <1>2, <2>1 DEF RunSet, Disturb
  <2>3. k \in Nat \ {0} /\ k - 1 \in Nat
    BY <1>0, <2>1
  <2>4. Result(req[w], k) = IF Kept(v) THEN Result(req[w], k - 1) \union {TextOf(v)}
                            ELSE Result(req[w], k - 1)
    BY <2>3, ResultMore
  <2>5. alone'[w] => /\ \A i \in 1..(k - 1) : Kind[req[w][i]] # "bad"
                     /\ leaf = Result(req[w], k - 1)
    BY <1>0, <2>1, <2>2, <2>3 DEF RequestInv, Begun
  <2>6. \A i \in 1..k : i \in 1..(k - 1) \/ i = k
    BY <2>3
  <2>7. /\ alone'[w] => leaf' = Result(req[w], k)
        /\ alone'[w] => \A i \in 1..k : Kind[req[w][i]] # "bad"
    BY <2>2, <2>4, <2>5, <2>6
  <2>8. deleter' = w => Result(req[w], k) \subseteq leaf'
    <3>1. Building(w)
      BY <1>0 DEF RequestInv
    <3>2. pc[w] = "run" /\ pos[w] > 0
      BY <2>1, <2>3
    <3>3. deleter = w => Result(req[w], k - 1) \subseteq leaf
      BY <3>1, <3>2 DEF Building
    <3> HIDE DEF k, v
    <3> QED
      BY <2>2, <2>4, <3>3
  <2>9. pos'[w] - 1 = k /\ pos'[w] > 0
    BY <1>0, <2>1
  <2>10. Begun(w)'
    BY <2>1, <2>7, <2>9 DEF Begun, Waiting, Serving
  <2>11. Building(w)'
    BY <2>1, <2>8, <2>9 DEF Building
  <2>12. Told(w)'
    BY <2>1, <2>7 DEF Told
  <2>13. Complete(w)'
    BY <2>1, <2>8 DEF Complete
  <2> QED
    BY <2>10, <2>11, <2>12, <2>13 DEF RequestInv
<1>3. CASE RefuseDelete(w)
  <2>1. /\ pos[w] = 0 /\ leaf = {} /\ pc[w] = "run" /\ pc'[w] = "answered"
        /\ code'[w] = "failed" /\ UNCHANGED <<leaf, before, alone>>
    BY <1>0, <1>3, WhichStatement DEF RefuseDelete, AtDelete, Answer, history
  <2>2. Told(w)'
    BY <1>0, <2>1 DEF Told, RequestInv, Begun
  <2> QED
    BY <2>1, <2>2 DEF RequestInv, Begun, Building, Complete, Waiting, Serving
<1>4. CASE RefuseSet(w)
  <2> DEFINE k == pos[w]
  <2>1. /\ k \in 1..Len(req[w]) /\ pc[w] = "run" /\ pc'[w] = "answered"
        /\ code'[w] = "failed" /\ UNCHANGED <<leaf, req, before, alone>>
        /\ Kind[req[w][k]] = "bad"
    BY <1>0, <1>4, WhichStatement DEF RefuseSet, AtSet, Answer, history, Statement
  <2>2. alone[w] => Refused(req[w], k) /\ leaf = Result(req[w], k - 1)
    BY <1>0, <2>1 DEF Refused, RequestInv, Begun
  <2>3. Told(w)'
    BY <2>1, <2>2 DEF Told, Refused
  <2> QED
    BY <2>1, <2>3 DEF RequestInv, Begun, Building, Complete, Waiting, Serving
<1> QED
  BY <1>1, <1>2, <1>3, <1>4 DEF Run

\* Every step keeps what is said of each request.
LEMMA NextRequest == Inv /\ [Next]_vars => \A v \in Window : RequestInv(v)'
<1> SUFFICES ASSUME Inv, [Next]_vars, NEW v \in Window PROVE RequestInv(v)'
  OBVIOUS
<1>0. /\ RequestInv(v)
      /\ pc \in [Window -> Serving \union {"idle", "answered", "lost"}]
      /\ req \in [Window -> Seq(Value)] /\ code \in [Window -> Code]
      /\ pos \in [Window -> Nat] /\ before \in [Window -> SUBSET Text]
      /\ alone \in [Window -> BOOLEAN]
  BY DEF Inv, TypeOK
<1>1. ASSUME NEW w \in Window, Send(w) PROVE RequestInv(v)'
  <2>1. CASE v = w
    <3>1. pc'[w] = "read" /\ pos'[w] = 0 /\ before'[w] = leaf /\ leaf' = leaf
      BY <1>0, <1>1 DEF Send, Goto
    <3> QED
      BY <2>1, <3>1 DEF RequestInv, Begun, Building, Told, Complete, Waiting, Serving
  <2>2. CASE v # w
    BY <1>0, <1>1, <2>2, OthersKept DEF Send, Goto
  <2> QED
    BY <2>1, <2>2
<1>2. ASSUME NEW w \in Window, Kill(w) PROVE RequestInv(v)'
  <2>1. CASE v = w
    <3>1. pc'[w] = "lost"
      BY <1>0, <1>2 DEF Kill, Goto
    <3> QED
      BY <2>1, <3>1 DEF RequestInv, Begun, Building, Told, Complete, Waiting, Serving
  <2>2. CASE v # w
    BY <1>0, <1>2, <2>2, OthersKept DEF Kill, Goto, history
  <2> QED
    BY <2>1, <2>2
<1>3. ASSUME NEW w \in Window,
             Read(w) \/ Parse(w) \/ ParseFails(w) \/ ParseFailsOnDirt(w)
               \/ LookForCommit(w) \/ Update(w) \/ Validate(w)
      PROVE  RequestInv(v)'
  <2>1. UNCHANGED <<leaf, req, pos, history>>
    BY <1>3 DEF Read, Parse, ParseFails, ParseFailsOnDirt, LookForCommit, Update, Validate
  <2>2. CASE v = w
    <3>1. /\ pc[w] \in Waiting
          /\ \/ pc'[w] \in Serving \union {"lost"}
             \/ pc'[w] = "answered" /\ code'[w] \notin {"success", "failed"}
      BY <1>0, <1>3 DEF Read, Parse, ParseFails, ParseFailsOnDirt, LookForCommit, Update,
         Validate, Goto, Answer, Waiting, Serving
    <3> QED
      BY <1>0, <2>1, <2>2, <3>1, Looking
  <2>3. CASE v # w
    <3>1. pc'[v] = pc[v] /\ code'[v] = code[v]
      BY <1>0, <1>3, <2>3 DEF Read, Parse, ParseFails, ParseFailsOnDirt, LookForCommit, Update,
         Validate, Goto, Answer
    <3> QED
      BY <1>0, <2>1, <3>1, OthersKept DEF history
  <2> QED
    BY <2>2, <2>3
<1>4. ASSUME NEW w \in Window, Run(w) PROVE RequestInv(v)'
  <2>1. CASE v = w
    BY <1>4, <2>1, StatementKeeps
  <2>2. CASE v # w
    <3>1. /\ pc'[v] = pc[v] /\ code'[v] = code[v] /\ pos'[v] = pos[v]
          /\ req' = req /\ before' = before
      BY <1>0, <1>4, <2>2 DEF Run, RunDelete, RefuseDelete, RunSet, RefuseSet, Onward, Answer,
         Goto, history
    <3>2. alone'[v] => alone[v] /\ leaf' = leaf
      BY <1>0, <1>4, <2>2 DEF Run, RunDelete, RefuseDelete, RunSet, RefuseSet, Disturb, history
    <3>3. deleter' = v => deleter = v /\ leaf \subseteq leaf'
      BY <1>4, <2>2 DEF Run, RunDelete, RefuseDelete, RunSet, RefuseSet, history
    <3> QED
      BY <1>0, <3>1, <3>2, <3>3, OthersKept
  <2> QED
    BY <2>1, <2>2
<1>5. ASSUME NEW f \in Facts, Change(f) PROVE RequestInv(v)'
  BY <1>0, <1>5, OthersKept DEF Change, history
<1>6. CASE UNCHANGED vars
  BY <1>0, <1>6, OthersKept DEF vars, history
<1> QED
  BY <1>1, <1>2, <1>3, <1>4, <1>5, <1>6 DEF Next, Serve

LEMMA Invariance == Spec => []Inv
<1>1. Inv /\ [Next]_vars => Inv'
  BY NextType, NextRequest DEF Inv
<1> QED
  BY InitInv, <1>1, PTL DEF Spec

----------------------------------------------------------------------------
\* TypeOK holds: the parts are of their types, and a request whose statements run has one
\* left (Command::execute_command's loop).
THEOREM TypeInvariant == Spec => []TypeOK
<1>1. Inv => TypeOK
  BY DEF Inv
<1> QED
  BY Invariance, <1>1, PTL

\* AnswerTells: whatever the values, the limits and the other windows do, an answer says
\* what the session has, if no other window's statement came in between.
THEOREM AnswerTellsTheorem == Spec => []AnswerTells
<1>1. Inv => AnswerTells
  BY DEF Inv, RequestInv, Told, AnswerTells
<1> QED
  BY Invariance, <1>1, PTL

\* LastComplete: of any number of windows that set the same leaf at once, the one that
\* deleted it last has all its values there when it is told of success.
THEOREM LastCompleteTheorem == Spec => []LastComplete
<1>1. Inv => LastComplete
  BY DEF Inv, RequestInv, Complete, LastComplete
<1> QED
  BY Invariance, <1>1, PTL
=============================================================================
