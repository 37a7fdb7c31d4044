--------------------------- MODULE ConsoleProofs ---------------------------
(* Theorems about Console, for any windows, users, commands and bounds. *)
EXTENDS Console, TLAPS

USE DEF Runs

LEMMA Bounds ==
  /\ MaxRuns \in Nat /\ MaxPages \in Nat /\ MaxClicks \in Nat
  /\ MaxMixed \in Nat /\ MaxVisits \in Nat /\ MaxFaults \in Nat
BY ConsoleOK DEF ConsoleOK

LEMMA Zero == 0 \in 0 .. MaxRuns
BY Bounds

----------------------------------------------------------------------------
(* Records *)

\* A request that is made
LEMMA NewType ==
  ASSUME idC \in User \union {None}, NEW op \in {"start", "poll", "tree"},
         NEW r \in 0 .. MaxRuns, NEW k \in Kind
  PROVE  /\ New(op, r, k) \in Request
         /\ New(op, r, k).op = op /\ New(op, r, k).run = r /\ New(op, r, k).for = k
BY Zero DEF New, Request

LEMMA OldType ==
  ASSUME NEW q \in Request
  PROVE  /\ [q EXCEPT !.for = IF @ = "btn" THEN "old" ELSE @] \in Request
         /\ [q EXCEPT !.for = IF @ = "btn" THEN "old" ELSE @].op = q.op
         /\ [q EXCEPT !.for = IF @ = "btn" THEN "old" ELSE @].run = q.run
BY DEF Request, Kind

LEMMA BlankType == Blank \in WinType /\ Blank.seg = "null"
BY Zero DEF Blank, WinType

\* What m_segmentId becomes, and what it is of
LEMMA SegType ==
  ASSUME NEW s \in WinType, NEW g \in {"null", "next", "end", "stop"}, NEW r \in 0 .. MaxRuns
  PROVE  /\ [s EXCEPT !.seg = g, !.run = r] \in WinType
         /\ [s EXCEPT !.seg = g, !.run = r].seg = g /\ [s EXCEPT !.seg = g, !.run = r].run = r
BY DEF WinType

LEMMA ShownType ==
  ASSUME NEW s \in WinType, NEW t \in {"conf", "oper"}
  PROVE  /\ Shown(s, t) \in WinType
         /\ \/ Shown(s, t).seg = "stop"
            \/ /\ Shown(s, t).seg = s.seg /\ Shown(s, t).run = s.run
               /\ Shown(s, t).for = s.for
<1> DEFINE l == IF t = "oper" /\ s.node # None THEN "Run" ELSE s.label
<1>1. l \in {"none", "Run", "Stop"}
  BY DEF WinType
<1>2. \/ Shown(s, t) = [s EXCEPT !.tab = t, !.built = TRUE]
      \/ Shown(s, t) = [s EXCEPT !.tab = t, !.seg = "stop", !.run = 0, !.label = l]
  BY DEF Shown
<1> HIDE DEF l
<1>3. CASE Shown(s, t) = [s EXCEPT !.tab = t, !.built = TRUE]
  BY <1>3 DEF WinType
<1>4. CASE Shown(s, t) = [s EXCEPT !.tab = t, !.seg = "stop", !.run = 0, !.label = l]
  <2> DEFINE a == [s EXCEPT !.tab = t, !.seg = "stop"]
  <2>1. a \in WinType /\ a.seg = "stop"
    BY DEF WinType
  <2>2. Shown(s, t) = [a EXCEPT !.run = 0, !.label = l]
    BY <1>4
  <2> HIDE DEF a
  <2>3. [a EXCEPT !.run = 0, !.label = l] \in WinType
    BY <1>1, <2>1, Zero DEF WinType
  <2>4. [a EXCEPT !.run = 0, !.label = l].seg = a.seg
    BY <2>1 DEF WinType
  <2> QED
    BY <2>1, <2>2, <2>3, <2>4
<1> QED
  BY <1>2, <1>3, <1>4

LEMMA PanelType ==
  ASSUME NEW s \in WinType, NEW n \in Command \union {Reboot, None}
  PROVE  Panel(s, n) \in WinType
<1> DEFINE l == IF n = None THEN "none" ELSE "Run"
           k == IF s.for = "btn" THEN "old" ELSE s.for
<1>1. l \in {"none", "Run", "Stop"} /\ k \in Kind \union {"none"}
  BY DEF WinType, Kind
<1>2. Panel(s, n) = [s EXCEPT !.node = n, !.label = l, !.area = FALSE, !.text = {}, !.for = k]
  BY DEF Panel
<1> HIDE DEF l, k
<1> DEFINE a == [s EXCEPT !.node = n, !.label = l]
<1>3. a \in WinType
  BY <1>1 DEF WinType
<1>4. Panel(s, n) = [a EXCEPT !.area = FALSE, !.text = {}, !.for = k]
  BY <1>2
<1> HIDE DEF a
<1>5. [a EXCEPT !.area = FALSE, !.text = {}, !.for = k] \in WinType
  BY <1>1, <1>3 DEF WinType
<1> QED
  BY <1>4, <1>5

LEMMA LabelledType ==
  ASSUME NEW s \in WinType, NEW q \in Request
  PROVE  /\ Labelled(s, q) \in WinType
         /\ Labelled(s, q).seg = s.seg /\ Labelled(s, q).run = s.run
         /\ q.seg = "next" => Labelled(s, q).for = q.for
<1> DEFINE l == IF ~s.paused /\ q.for = "btn" THEN "Stop" ELSE s.label
<1>1. l \in {"none", "Run", "Stop"} /\ q.for \in Kind \union {"none"}
  BY DEF WinType, Request
<1>2. \/ Labelled(s, q) = [s EXCEPT !.label = l, !.for = q.for]
      \/ q.seg # "next" /\ Labelled(s, q) = [s EXCEPT !.label = "Run"]
      \/ q.seg # "next" /\ Labelled(s, q) = s
  BY DEF Labelled
<1> HIDE DEF l
<1>3. CASE Labelled(s, q) = [s EXCEPT !.label = l, !.for = q.for]
  <2>1. [s EXCEPT !.label = l, !.for = q.for] \in WinType
    BY <1>1 DEF WinType
  <2> QED
    BY <1>3, <2>1 DEF WinType
<1>4. CASE q.seg # "next" /\ Labelled(s, q) = [s EXCEPT !.label = "Run"]
  BY <1>4 DEF WinType
<1> QED
  BY <1>2, <1>3, <1>4

LEMMA UpdatedType ==
  ASSUME NEW s \in WinType, NEW q \in Request
  PROVE  /\ Updated(s, q) \in WinType
         /\ Updated(s, q).seg = s.seg /\ Updated(s, q).run = s.run /\ Updated(s, q).for = s.for
<1> DEFINE t == IF s.area /\ q.op = "start" THEN {}
                ELSE IF s.area /\ q.seg = "end" THEN s.text
                ELSE s.text \union ({q.out} \ {0})
<1>1. {q.out} \ {0} \subseteq Runs
  BY Bounds DEF Request
<1>2. t \in SUBSET Runs
  BY <1>1 DEF WinType
<1>3. Updated(s, q) = s \/ Updated(s, q) = [s EXCEPT !.area = TRUE, !.text = t]
  BY DEF Updated
<1> HIDE DEF t
<1> QED
  BY <1>2, <1>3 DEF WinType

LEMMA SegmentType ==
  ASSUME NEW s \in WinType, NEW q \in Request
  PROVE  /\ Segment(s, q) \in WinType /\ Segment(s, q).seg = q.seg
         /\ q.seg = "next" => Segment(s, q).run = q.run
BY Zero DEF Segment, WinType, Request

----------------------------------------------------------------------------
(* Types *)

LEMMA PutWin ==
  ASSUME TypeOK, NEW w \in Window, NEW s \in WinType, Set(w, s)
  PROVE  /\ win' \in [Window -> WinType] /\ win'[w] = s
         /\ \A v \in Window \ {w} : win'[v] = win[v]
BY DEF TypeOK, Set

LEMMA PutNet ==
  ASSUME TypeOK, NEW w \in Window, NEW N \in SUBSET Request, net' = [net EXCEPT ![w] = N]
  PROVE  /\ net' \in [Window -> SUBSET Request] /\ net'[w] = N
         /\ \A v \in Window \ {w} : net'[v] = net[v]
BY DEF TypeOK

LEMMA SendType ==
  ASSUME TypeOK, NEW w \in Window, NEW N \in SUBSET Request, Send(w, N)
  PROVE  /\ net' \in [Window -> SUBSET Request] /\ net'[w] = net[w] \union N
         /\ \A v \in Window \ {w} : net'[v] = net[v]
BY DEF TypeOK, Send

LEMMA DoneType ==
  ASSUME TypeOK, NEW w \in Window, NEW q, Done(w, q)
  PROVE  /\ net' \in [Window -> SUBSET Request] /\ net'[w] = net[w] \ {q}
         /\ \A v \in Window \ {w} : net'[v] = net[v]
BY DEF TypeOK, Done

LEMMA MixType ==
  ASSUME TypeOK, NEW b, Mix(b)
  PROVE  mixed' \in 0 .. MaxMixed
BY Bounds DEF TypeOK, Mix

LEMMA FreshType ==
  ASSUME TypeOK
  PROVE  Len(started) \in Nat /\ Fresh = Len(started) + 1
BY DEF TypeOK, Fresh

\* A command started gets the next number.
LEMMA AppendType ==
  ASSUME TypeOK, NEW c \in Command \union {"files", "host"}, Fresh <= MaxRuns,
         started' = Append(started, c)
  PROVE  /\ started' \in Seq(Command \union {"files", "host"}) /\ Len(started') <= MaxRuns
         /\ Len(started') = Fresh /\ Fresh \in 1 .. MaxRuns
BY FreshType, Bounds DEF TypeOK

LEMMA AskHostType ==
  ASSUME TypeOK, NEW s \in WinType, StartHost(s)
  PROVE  /\ started' \in Seq(Command \union {"files", "host"}) /\ Len(started') <= MaxRuns
         /\ AskHost(s) \in SUBSET Request
         /\ \/ AskHost(s) = {} /\ started' = started
            \/ /\ AskHost(s) = {New("start", Fresh, "host")}
               /\ New("start", Fresh, "host").op = "start"
               /\ New("start", Fresh, "host").run = Fresh
               /\ Len(started') = Fresh /\ Fresh \in 1 .. MaxRuns
<1>1. CASE s.host = 0
  <2>1. /\ started' \in Seq(Command \union {"files", "host"}) /\ Len(started') <= MaxRuns
        /\ Len(started') = Fresh /\ Fresh \in 1 .. MaxRuns
    BY <1>1, AppendType DEF StartHost
  <2>2. Fresh \in 0 .. MaxRuns /\ "host" \in Kind
    BY <2>1, Bounds, FreshType DEF Kind
  <2>3. idC \in User \union {None}
    BY DEF TypeOK, ShellTypeOK
  <2> QED
    BY <1>1, <2>1, <2>2, <2>3, NewType DEF AskHost
<1>2. CASE s.host # 0
  BY <1>2 DEF StartHost, AskHost, TypeOK
<1> QED
  BY <1>1, <1>2

LEMMA AskTreeType ==
  ASSUME TypeOK, NEW s, NEW t
  PROVE  AskTree(s, t) \in SUBSET Request /\ \A q \in AskTree(s, t) : q.op = "tree"
<1>1. idC \in User \union {None}
  BY DEF TypeOK, ShellTypeOK
<1> QED
  BY <1>1, Zero, NewType DEF AskTree, Kind

\* The rest of the state, as far as an action leaves it alone
LEMMA BoxType ==
  ASSUME TypeOK, NEW w \in Window, NEW b \in {"none", "wait", "logout?", "reboot?", "alert"},
         Show(w, b)
  PROVE  box' \in [Window -> {"none", "wait", "logout?", "reboot?", "alert"}]
BY DEF TypeOK, ShellTypeOK, Show

LEMMA LogoutType ==
  ASSUME TypeOK, NEW w \in Window, UserLogout(w)
  PROVE  /\ idC' \in User \union {None} /\ nameC' \in User \union {None}
         /\ isC' \in {"yes", "no", "reboot", None}
         /\ page' \in [Window -> {"loading", "login", "main", "rebooting"}]
BY DEF TypeOK, ShellTypeOK, UserLogout

LEMMA ClickType ==
  ASSUME TypeOK, NEW w \in Window, Click(w)
  PROVE  /\ mixed' \in 0 .. MaxMixed
         /\ clicks' \in 0 .. MaxClicks /\ visits' \in 0 .. MaxVisits /\ faults' \in 0 .. MaxFaults
         /\ win[w] \in WinType /\ net[w] \in SUBSET Request
BY Bounds, MixType DEF TypeOK, Click

LEMMA FaultType ==
  ASSUME TypeOK, Fault
  PROVE  clicks' \in 0 .. MaxClicks /\ visits' \in 0 .. MaxVisits /\ faults' \in 0 .. MaxFaults
BY Bounds DEF TypeOK, Fault

LEMMA OnReadyType ==
  ASSUME TypeOK, NEW w \in Window, OnReady(w)
  PROVE  TypeOK'
<1>1. win' \in [Window -> WinType]
  BY BlankType, PutWin DEF OnReady
<1>2. box' \in [Window -> {"none", "wait", "logout?", "reboot?", "alert"}]
  BY BoxType DEF OnReady
<1>3. CASE UserLogined /\ StartHost(Blank)
           /\ net' = [net EXCEPT ![w] = AskHost(Blank) \union {New("tree", 0, "conf")}]
           /\ Mix(\E v \in Window \ {w} : Live(v))
           /\ page' = [page EXCEPT ![w] = "main"] /\ UNCHANGED cookies
  <2>1. New("tree", 0, "conf") \in Request
    BY NewType, Zero DEF TypeOK, ShellTypeOK, Kind
  <2>2. /\ AskHost(Blank) \in SUBSET Request
        /\ started' \in Seq(Command \union {"files", "host"}) /\ Len(started') <= MaxRuns
    BY <1>3, BlankType, AskHostType
  <2>3. AskHost(Blank) \union {New("tree", 0, "conf")} \in SUBSET Request
    BY <2>1, <2>2
  <2>5. net' = [net EXCEPT ![w] = AskHost(Blank) \union {New("tree", 0, "conf")}]
    BY <1>3
  <2>6. net' \in [Window -> SUBSET Request]
    BY <2>3, <2>5, PutNet, Zenon
  <2>4. mixed' \in 0 .. MaxMixed
    BY <1>3, MixType
  <2> QED
    BY <1>1, <1>2, <1>3, <2>2, <2>4, <2>6 DEF OnReady, TypeOK, ShellTypeOK, cookies, bounds
<1>4. CASE /\ net' = [net EXCEPT ![w] = {}]
           /\ idC' \in User \union {None} /\ nameC' = nameC
           /\ isC' \in {isC, "no"} /\ UNCHANGED <<started, mixed>>
           /\ \E p \in {"login", "rebooting"} : page' = [page EXCEPT ![w] = p]
  <2>1. net' \in [Window -> SUBSET Request]
    BY <1>4 DEF TypeOK
  <2> QED
    BY <1>1, <1>2, <1>4, <2>1 DEF OnReady, TypeOK, ShellTypeOK, cookies, bounds
<1>5. idC \in User \union {None} /\ None \in User \union {None}
  BY DEF TypeOK, ShellTypeOK
<1> QED
  BY <1>3, <1>4, <1>5 DEF OnReady, cookies

LEMMA TabClickType ==
  ASSUME TypeOK, NEW w \in Window, NEW t \in {"conf", "oper"}, TabClick(w, t)
  PROVE  TypeOK'
<1>1. Click(w) /\ UNCHANGED <<cookies, alive, page, auth, cur>>
  BY DEF TabClick
<1>2. /\ mixed' \in 0 .. MaxMixed
      /\ clicks' \in 0 .. MaxClicks /\ visits' \in 0 .. MaxVisits /\ faults' \in 0 .. MaxFaults
      /\ win[w] \in WinType
  BY <1>1, ClickType
<1>3. CASE Show(w, "alert") /\ UNCHANGED <<win, net, started>>
  BY <1>1, <1>2, <1>3, BoxType DEF TypeOK, ShellTypeOK, cookies
<1>4. CASE /\ StartHost(win[w]) /\ Send(w, AskHost(win[w]) \union AskTree(win[w], t))
           /\ Set(w, Shown(win[w], t)) /\ UNCHANGED box
  <2>1. /\ started' \in Seq(Command \union {"files", "host"}) /\ Len(started') <= MaxRuns
        /\ AskHost(win[w]) \union AskTree(win[w], t) \in SUBSET Request
    BY <1>2, <1>4, AskHostType, AskTreeType
  <2>2. net' \in [Window -> SUBSET Request]
    BY <1>4, <2>1, SendType
  <2>3. win' \in [Window -> WinType]
    BY <1>2, <1>4, ShownType, PutWin
  <2> QED
    BY <1>1, <1>2, <1>4, <2>1, <2>2, <2>3 DEF TypeOK, ShellTypeOK, cookies
<1> QED
  BY <1>3, <1>4 DEF TabClick

LEMMA ForgetType ==
  ASSUME TypeOK, NEW w \in Window
  PROVE  /\ Forget(w) \in SUBSET Request
         /\ \A p \in Forget(w) : \E q \in net[w] :
              p = [q EXCEPT !.for = IF @ = "btn" THEN "old" ELSE @]
BY OldType DEF Forget, TypeOK

LEMMA NodeClickType ==
  ASSUME TypeOK, NEW w \in Window, NEW n \in Command \union {Reboot, None}, NodeClick(w, n)
  PROVE  TypeOK'
<1>1. Click(w) /\ UNCHANGED <<shell, started, cur>>
  BY DEF NodeClick
<1>2. /\ mixed' \in 0 .. MaxMixed
      /\ clicks' \in 0 .. MaxClicks /\ visits' \in 0 .. MaxVisits /\ faults' \in 0 .. MaxFaults
      /\ win[w] \in WinType
  BY <1>1, ClickType
<1>3. win' \in [Window -> WinType]
  <2> DEFINE t == Panel(win[w], n)
             s == [t EXCEPT !.seg = "null", !.run = 0]
  <2>1. t \in WinType
    BY <1>2, PanelType
  <2>2. Set(w, s)
    BY DEF NodeClick
  <2> HIDE DEF t
  <2>3. s \in WinType
    BY <2>1, SegType, Zero
  <2> HIDE DEF s
  <2> QED
    BY <2>2, <2>3, PutWin
<1>4. net' \in [Window -> SUBSET Request]
  BY ForgetType, PutNet DEF NodeClick
<1> QED
  BY <1>1, <1>2, <1>3, <1>4 DEF TypeOK, ShellTypeOK, shell, cookies

LEMMA RunClickType ==
  ASSUME TypeOK, NEW w \in Window, RunClick(w)
  PROVE  TypeOK'
<1>1. Click(w) /\ UNCHANGED <<cookies, alive, page, auth, cur>>
  BY DEF RunClick
<1>2. /\ mixed' \in 0 .. MaxMixed
      /\ clicks' \in 0 .. MaxClicks /\ visits' \in 0 .. MaxVisits /\ faults' \in 0 .. MaxFaults
      /\ win[w] \in WinType
  BY <1>1, ClickType
<1>3. CASE UNCHANGED <<win, net, started>> /\ (Show(w, "alert") \/ Show(w, "reboot?"))
  BY <1>1, <1>2, <1>3, BoxType DEF TypeOK, ShellTypeOK, cookies
<1>4. CASE /\ win[w].node \in Command /\ Fresh <= MaxRuns
           /\ started' = Append(started, win[w].node)
           /\ Send(w, {New("start", Fresh, "btn")})
           /\ Set(w, [win[w] EXCEPT !.seg = "null", !.run = 0])
           /\ Show(w, "wait")
  <2>1. /\ started' \in Seq(Command \union {"files", "host"}) /\ Len(started') <= MaxRuns
        /\ Fresh \in 0 .. MaxRuns
    BY <1>4, AppendType
  <2>2. {New("start", Fresh, "btn")} \in SUBSET Request
    BY <2>1, NewType DEF Kind, TypeOK, ShellTypeOK
  <2>3. net' \in [Window -> SUBSET Request]
    BY <1>4, <2>2, SendType
  <2>4. win' \in [Window -> WinType]
    BY <1>2, <1>4, SegType, Zero, PutWin
  <2>5. box' \in [Window -> {"none", "wait", "logout?", "reboot?", "alert"}]
    BY <1>4, BoxType
  <2> QED
    BY <1>1, <1>2, <2>1, <2>3, <2>4, <2>5 DEF TypeOK, ShellTypeOK, cookies
<1> QED
  BY <1>3, <1>4 DEF RunClick

LEMMA ButtonsType ==
  ASSUME TypeOK, NEW w \in Window, StopClick(w) \/ PauseClick(w)
  PROVE  TypeOK'
<1>1. Click(w) /\ UNCHANGED <<shell, net, started, cur>>
  BY DEF StopClick, PauseClick
<1>2. /\ mixed' \in 0 .. MaxMixed
      /\ clicks' \in 0 .. MaxClicks /\ visits' \in 0 .. MaxVisits /\ faults' \in 0 .. MaxFaults
      /\ win[w] \in WinType
  BY <1>1, ClickType
<1>3. /\ [win[w] EXCEPT !.label = "Run", !.seg = "stop", !.run = 0] \in WinType
      /\ [win[w] EXCEPT !.paused = ~@] \in WinType
  BY <1>2, Zero DEF WinType
<1>4. ASSUME StopClick(w)
      PROVE  win' \in [Window -> WinType]
  BY <1>3, <1>4, PutWin DEF StopClick
<1>5. ASSUME PauseClick(w)
      PROVE  win' \in [Window -> WinType]
  BY <1>3, <1>5, PutWin DEF PauseClick
<1>6. win' \in [Window -> WinType]
  BY <1>4, <1>5
<1> QED
  BY <1>1, <1>2, <1>6 DEF TypeOK, ShellTypeOK, shell, cookies

LEMMA FilesClickType ==
  ASSUME TypeOK, NEW w \in Window, FilesClick(w)
  PROVE  TypeOK'
<1>1. Click(w) /\ UNCHANGED <<cookies, alive, page, auth, cur>>
  BY DEF FilesClick
<1>2. /\ mixed' \in 0 .. MaxMixed
      /\ clicks' \in 0 .. MaxClicks /\ visits' \in 0 .. MaxVisits /\ faults' \in 0 .. MaxFaults
      /\ win[w] \in WinType
  BY <1>1, ClickType
<1>3. /\ started' \in Seq(Command \union {"files", "host"}) /\ Len(started') <= MaxRuns
      /\ Fresh \in 0 .. MaxRuns
  BY AppendType DEF FilesClick
<1>4. {New("start", Fresh, "files")} \in SUBSET Request
  BY <1>3, NewType DEF Kind, TypeOK, ShellTypeOK
<1>5. net' \in [Window -> SUBSET Request]
  BY <1>4, SendType DEF FilesClick
<1>6. [win[w] EXCEPT !.list = {}] \in WinType
  BY <1>2 DEF WinType
<1>7. win' \in [Window -> WinType]
  BY <1>6, PutWin DEF FilesClick
<1>8. box' \in [Window -> {"none", "wait", "logout?", "reboot?", "alert"}]
  BY BoxType DEF FilesClick
<1> QED
  BY <1>1, <1>2, <1>3, <1>5, <1>7, <1>8 DEF TypeOK, ShellTypeOK, cookies

\* A window that waits to poll knows the command, and what to do with the page.
Held ==
  \A w \in Window : win[w].seg = "next" => win[w].for # "none"

LEMMA TaskType ==
  ASSUME TypeOK, Held, NEW w \in Window, Task(w)
  PROVE  TypeOK'
<1>1. UNCHANGED <<cookies, alive, page, auth, started, cur, mixed, bounds>>
  BY DEF Task
<1>2. win[w] \in WinType
  BY DEF TypeOK
<1>3. CASE Set(w, [win[w] EXCEPT !.seg = "null", !.run = 0, !.paused = FALSE])
           /\ UNCHANGED <<box, net>>
  <2>1. [win[w] EXCEPT !.seg = "null", !.run = 0, !.paused = FALSE] \in WinType
    BY <1>2, Zero DEF WinType
  <2> QED
    BY <1>1, <1>3, <2>1, PutWin DEF TypeOK, ShellTypeOK, cookies, bounds
<1>4. CASE /\ Send(w, {New("poll", win[w].run, win[w].for)}) /\ win[w].seg = "next"
           /\ Set(w, [win[w] EXCEPT !.seg = "null", !.run = 0]) /\ UNCHANGED box
  <2>1. win[w].run \in 0 .. MaxRuns /\ win[w].for \in Kind
    BY <1>2, <1>4 DEF Held, WinType
  <2>2. {New("poll", win[w].run, win[w].for)} \in SUBSET Request
    BY <2>1, NewType DEF TypeOK, ShellTypeOK
  <2>3. net' \in [Window -> SUBSET Request]
    BY <1>4, <2>2, SendType
  <2>4. win' \in [Window -> WinType]
    BY <1>2, <1>4, SegType, Zero, PutWin
  <2> QED
    BY <1>1, <1>4, <2>3, <2>4 DEF TypeOK, ShellTypeOK, cookies, bounds
<1>5. CASE Show(w, "alert") /\ UNCHANGED <<win, net>>
  BY <1>1, <1>5, BoxType DEF TypeOK, ShellTypeOK, cookies, bounds
<1> QED
  BY <1>3, <1>4, <1>5 DEF Task

\* An answer is its request, with the answer's fields.
LEMMA AnswerType ==
  ASSUME TypeOK, NEW w \in Window, NEW q \in net[w],
         NEW c \in {"none", "ok", "error", "expired", "denied", "lost"},
         NEW g \in {"null", "next", "end"}, NEW o \in 0 .. MaxRuns, Answer(w, q, c, g, o)
  PROVE  /\ net' \in [Window -> SUBSET Request]
         /\ \E p \in Request : /\ p.op = q.op /\ p.run = q.run
                               /\ net'[w] = (net[w] \ {q}) \union {p}
         /\ \A v \in Window \ {w} : net'[v] = net[v]
<1> DEFINE p == [q EXCEPT !.code = c, !.seg = g, !.out = o]
<1>1. q \in Request /\ net[w] \in SUBSET Request
  BY DEF TypeOK
<1>2. p \in Request /\ p.op = q.op /\ p.run = q.run
  BY <1>1 DEF Request
<1> HIDE DEF p
<1>3. (net[w] \ {q}) \union {p} \in SUBSET Request
  BY <1>1, <1>2
<1>4. net' = [net EXCEPT ![w] = (net[w] \ {q}) \union {p}]
  BY DEF Answer, p
<1>5. /\ net' \in [Window -> SUBSET Request]
      /\ net'[w] = (net[w] \ {q}) \union {p}
      /\ \A v \in Window \ {w} : net'[v] = net[v]
  <2>1. net \in [Window -> SUBSET Request]
    BY DEF TypeOK
  <2> QED
    BY <1>3, <1>4, <2>1
<1> QED
  BY <1>2, <1>5, Zenon

\* Whatever the server says, the request is answered.
LEMMA ServeAnswers ==
  ASSUME TypeOK, NEW w \in Window, NEW q \in net[w], Serve(w, q)
  PROVE  /\ \E c \in {"none", "ok", "error", "expired", "denied", "lost"} :
              \E g \in {"null", "next", "end"} : \E o \in 0 .. MaxRuns : Answer(w, q, c, g, o)
         /\ cur' \in [User -> [run : 0 .. MaxRuns, left : 0 .. MaxPages]]
         /\ clicks' \in 0 .. MaxClicks /\ visits' \in 0 .. MaxVisits /\ faults' \in 0 .. MaxFaults
<1>1. q \in Request /\ cur \in [User -> [run : 0 .. MaxRuns, left : 0 .. MaxPages]]
  BY DEF TypeOK
<1>2. CASE Answer(w, q, "expired", "null", 0) /\ UNCHANGED <<cur, bounds>>
  BY <1>2, Zero DEF TypeOK, bounds
<1>3. CASE /\ Answer(w, q, "ok", "next", 0) /\ q.sid \in alive /\ UNCHANGED bounds
           /\ cur' = [cur EXCEPT ![q.sid] = [run |-> q.run, left |-> MaxPages]]
  <2>1. [run |-> q.run, left |-> MaxPages] \in [run : 0 .. MaxRuns, left : 0 .. MaxPages]
    BY <1>1, Bounds DEF Request
  <2> QED
    BY <1>1, <1>3, <2>1, Zero DEF TypeOK, ShellTypeOK, bounds
<1>4. CASE Fault /\ Answer(w, q, "error", "null", 0) /\ UNCHANGED cur
  BY <1>4, Zero, FaultType DEF TypeOK
<1>5. CASE q.sid \in alive /\ Page(w, q) /\ UNCHANGED bounds
  <2> DEFINE c == cur[q.sid]
  <2>1. q.sid \in User /\ c \in [run : 0 .. MaxRuns, left : 0 .. MaxPages]
    BY <1>1, <1>5 DEF TypeOK, ShellTypeOK
  <2>2. CASE Answer(w, q, "ok", "next", 0) /\ UNCHANGED cur
    BY <1>5, <2>2, Zero DEF TypeOK, bounds
  <2>3. CASE /\ c.left > 0 /\ Answer(w, q, "ok", "next", c.run)
             /\ cur' = [cur EXCEPT ![q.sid].left = @ - 1]
    <3>1. [c EXCEPT !.left = @ - 1] \in [run : 0 .. MaxRuns, left : 0 .. MaxPages]
      BY <2>1, <2>3, Bounds
    <3>2. cur' \in [User -> [run : 0 .. MaxRuns, left : 0 .. MaxPages]]
      BY <1>1, <2>3, <3>1
    <3> QED
      BY <1>5, <2>1, <2>3, <3>2 DEF TypeOK, bounds
  <2>4. CASE Answer(w, q, "ok", "end", c.run) /\ cur' = [cur EXCEPT ![q.sid] = NoCommand]
    <3>1. NoCommand \in [run : 0 .. MaxRuns, left : 0 .. MaxPages]
      BY Bounds DEF NoCommand
    <3> QED
      BY <1>1, <1>5, <2>1, <2>4, <3>1 DEF TypeOK, bounds
  <2> QED
    BY <1>5, <2>2, <2>3, <2>4 DEF Page
<1> QED
  BY <1>2, <1>3, <1>4, <1>5 DEF Serve

LEMMA ServeType ==
  ASSUME TypeOK, NEW w \in Window, NEW q \in net[w], Serve(w, q)
  PROVE  TypeOK'
<1>1. net' \in [Window -> SUBSET Request]
  BY ServeAnswers, AnswerType
<1> QED
  BY <1>1, ServeAnswers DEF Serve, TypeOK, ShellTypeOK, shell, cookies

LEMMA LoseType ==
  ASSUME TypeOK, NEW w \in Window, NEW q \in net[w], Lose(w, q)
  PROVE  TypeOK'
<1>1. net' \in [Window -> SUBSET Request]
  BY Zero, AnswerType DEF Lose
<1> QED
  BY <1>1, FaultType DEF Lose, TypeOK, ShellTypeOK, shell, cookies

LEMMA SentHomeType ==
  ASSUME TypeOK, NEW w \in Window, NEW q \in net[w], SentHome(w, q)
  PROVE  TypeOK'
<1>1. net' \in [Window -> SUBSET Request]
  BY DoneType DEF SentHome
<1>2. box' \in [Window -> {"none", "wait", "logout?", "reboot?", "alert"}]
  BY BoxType DEF SentHome
<1> QED
  BY <1>1, <1>2, LogoutType DEF SentHome, TypeOK, ShellTypeOK, bounds

LEMMA TreeAnswerType ==
  ASSUME TypeOK, NEW w \in Window, NEW q \in net[w], TreeAnswer(w, q)
  PROVE  TypeOK'
<1>1. UNCHANGED <<cookies, alive, page, auth, cur, bounds, box>>
  BY DEF TreeAnswer
<1>2. CASE Done(w, q) /\ UNCHANGED <<win, started, mixed>>
  BY <1>1, <1>2, DoneType DEF TypeOK, ShellTypeOK, cookies, bounds
<1>3. CASE /\ StartHost(win[w])
           /\ net' = [net EXCEPT ![w] =
                        (@ \ {q}) \union AskHost(win[w]) \union AskTree(win[w], "oper")]
           /\ Set(w, [Shown(win[w], "oper") EXCEPT !.denied = TRUE])
           /\ Mix(\E v \in Window : Live(v))
  <2>1. win[w] \in WinType /\ net[w] \in SUBSET Request
    BY DEF TypeOK
  <2>2. /\ started' \in Seq(Command \union {"files", "host"}) /\ Len(started') <= MaxRuns
        /\ AskHost(win[w]) \in SUBSET Request
    BY <1>3, <2>1, AskHostType
  <2>3. (net[w] \ {q}) \union AskHost(win[w]) \union AskTree(win[w], "oper") \in SUBSET Request
    BY <2>1, <2>2, AskTreeType
  <2>4. net' \in [Window -> SUBSET Request]
    <3> DEFINE N == (net[w] \ {q}) \union AskHost(win[w]) \union AskTree(win[w], "oper")
    <3>1. N \in SUBSET Request
      BY <2>3
    <3>2. net' = [net EXCEPT ![w] = N]
      BY <1>3
    <3> HIDE DEF N
    <3> QED
      BY <3>1, <3>2, PutNet
  <2>5. [Shown(win[w], "oper") EXCEPT !.denied = TRUE] \in WinType
    <3> DEFINE t == Shown(win[w], "oper")
    <3>1. t \in WinType
      BY <2>1, ShownType
    <3> HIDE DEF t
    <3>2. [t EXCEPT !.denied = TRUE] \in WinType
      BY <3>1 DEF WinType
    <3> QED
      BY <3>2 DEF t
  <2>6. win' \in [Window -> WinType]
    BY <1>3, <2>5, PutWin
  <2>7. mixed' \in 0 .. MaxMixed
    BY <1>3, MixType
  <2> QED
    BY <1>1, <2>2, <2>4, <2>6, <2>7 DEF TypeOK, ShellTypeOK, cookies, bounds
<1> QED
  BY <1>2, <1>3 DEF TreeAnswer

LEMMA HostAnswerType ==
  ASSUME TypeOK, NEW w \in Window, NEW q \in net[w], HostAnswer(w, q)
  PROVE  TypeOK'
<1>1. UNCHANGED <<cookies, alive, page, auth, started, cur, mixed, bounds>>
  BY DEF HostAnswer
<1>2. win[w] \in WinType /\ net[w] \in SUBSET Request /\ q \in Request
  BY DEF TypeOK
<1>3. net' \in [Window -> SUBSET Request]
  <2>1. New("poll", q.run, "host") \in Request
    <3>1. q.run \in 0 .. MaxRuns /\ "host" \in Kind
      BY <1>2 DEF Request, Kind
    <3>2. idC \in User \union {None}
      BY DEF TypeOK, ShellTypeOK
    <3> QED
      BY <3>1, <3>2, NewType
  <2>2. (net[w] \ {q}) \union {New("poll", q.run, "host")} \in SUBSET Request
    BY <1>2, <2>1
  <2> QED
    BY <2>2, PutNet, DoneType DEF HostAnswer
<1>4. win' \in [Window -> WinType]
  <2> DEFINE h == IF q.seg = "next" /\ q.out # 0 THEN q.out ELSE win[w].host
  <2>1. h \in 0 .. MaxRuns
    BY <1>2 DEF WinType, Request
  <2>2. Set(w, [win[w] EXCEPT !.host = h])
    BY DEF HostAnswer
  <2> HIDE DEF h
  <2>3. [win[w] EXCEPT !.host = h] \in WinType
    BY <1>2, <2>1 DEF WinType
  <2> QED
    BY <2>2, <2>3, PutWin
<1>5. box' \in [Window -> {"none", "wait", "logout?", "reboot?", "alert"}]
  BY BoxType DEF HostAnswer, TypeOK, ShellTypeOK
<1> QED
  BY <1>1, <1>3, <1>4, <1>5 DEF TypeOK, ShellTypeOK, cookies, bounds

LEMMA CutType ==
  ASSUME TypeOK, NEW w \in Window, NEW s \in WinType, Cut(w, s)
  PROVE  /\ win' \in [Window -> WinType] /\ win'[w].seg = s.seg /\ win'[w].run = s.run
         /\ win'[w].for = s.for /\ \A v \in Window \ {w} : win'[v] = win[v]
<1> DEFINE c == s.cut \/ box[w] = "wait"
<1>1. c \in BOOLEAN /\ Set(w, [s EXCEPT !.cut = c])
  BY DEF WinType, Cut
<1> HIDE DEF c
<1>2. /\ [s EXCEPT !.cut = c] \in WinType
      /\ [s EXCEPT !.cut = c].seg = s.seg /\ [s EXCEPT !.cut = c].run = s.run
      /\ [s EXCEPT !.cut = c].for = s.for
  BY <1>1 DEF WinType
<1> QED
  BY <1>1, <1>2, PutWin

\* The state of the window after the answer of a list of files, and of a command run
FilesState(w, q) == [Segment(win[w], q) EXCEPT !.for = "files"]
RunState(w, q) == Updated(Labelled(Segment(win[w], q), q), q)

LEMMA FilesStateType ==
  ASSUME NEW w, win[w] \in WinType, NEW q \in Request
  PROVE  /\ FilesState(w, q) \in WinType /\ FilesState(w, q).for = "files"
         /\ FilesState(w, q).seg = q.seg
         /\ q.seg = "next" => FilesState(w, q).run = q.run
BY SegmentType DEF FilesState, WinType, Kind

LEMMA RunStateType ==
  ASSUME NEW w, win[w] \in WinType, NEW q \in Request
  PROVE  /\ RunState(w, q) \in WinType /\ RunState(w, q).seg = q.seg
         /\ q.seg = "next" => RunState(w, q).run = q.run /\ RunState(w, q).for = q.for
<1> DEFINE g == Segment(win[w], q)
           l == Labelled(g, q)
<1>1. /\ g \in WinType /\ g.seg = q.seg
      /\ q.seg = "next" => g.run = q.run
  BY SegmentType
<1> HIDE DEF g
<1>2. /\ l \in WinType /\ l.seg = g.seg /\ l.run = g.run
      /\ q.seg = "next" => l.for = q.for
  BY <1>1, LabelledType
<1> HIDE DEF l
<1>3. /\ Updated(l, q) \in WinType
      /\ Updated(l, q).seg = l.seg /\ Updated(l, q).run = l.run /\ Updated(l, q).for = l.for
  BY <1>2, UpdatedType
<1>4. RunState(w, q) = Updated(l, q)
  BY DEF RunState, l, g
<1> QED
  BY <1>1, <1>2, <1>3, <1>4

LEMMA OpCmdCbType ==
  ASSUME TypeOK, NEW w \in Window, NEW q \in net[w],
         LostAnswer(w, q) \/ IgnoredAnswer(w, q) \/ FilesAnswer(w, q) \/ RunAnswer(w, q)
  PROVE  TypeOK'
<1>1. /\ UNCHANGED <<cookies, alive, page, auth, started, cur, mixed, bounds>>
      /\ Done(w, q)
  BY DEF LostAnswer, IgnoredAnswer, FilesAnswer, RunAnswer, shell
<1>2. win[w] \in WinType /\ q \in Request
  BY DEF TypeOK
<1>3. net' \in [Window -> SUBSET Request]
  BY <1>1, DoneType
<1>4. CASE LostAnswer(w, q) \/ IgnoredAnswer(w, q)
  <2>1. win' \in [Window -> WinType]
    BY <1>2, <1>4, CutType DEF LostAnswer, IgnoredAnswer, TypeOK
  <2>2. box' \in [Window -> {"none", "wait", "logout?", "reboot?", "alert"}]
    BY <1>4, BoxType DEF LostAnswer, IgnoredAnswer, TypeOK, ShellTypeOK, shell
  <2> QED
    BY <1>1, <1>3, <2>1, <2>2 DEF TypeOK, ShellTypeOK, cookies, bounds
<1>5. CASE FilesAnswer(w, q)
  <2> DEFINE s == FilesState(w, q)
  <2>1. s \in WinType
    BY <1>2, FilesStateType
  <2>2. \/ q.seg = "null" /\ Cut(w, s) /\ UNCHANGED box
        \/ Set(w, [s EXCEPT !.list = @ \union ({q.out} \ {0})]) /\ UNCHANGED box
        \/ Set(w, [s EXCEPT !.offered = s.list]) /\ Show(w, "none")
    BY <1>5 DEF FilesAnswer, FilesState
  <2> HIDE DEF s
  <2>3. {q.out} \ {0} \subseteq Runs
    BY <1>2, Bounds DEF Request
  <2>4. /\ [s EXCEPT !.list = @ \union ({q.out} \ {0})] \in WinType
        /\ [s EXCEPT !.offered = s.list] \in WinType
    BY <2>1, <2>3 DEF WinType
  <2>5. win' \in [Window -> WinType]
    BY <2>1, <2>2, <2>4, PutWin, CutType
  <2>6. box' \in [Window -> {"none", "wait", "logout?", "reboot?", "alert"}]
    BY <2>2, BoxType DEF TypeOK, ShellTypeOK
  <2> QED
    BY <1>1, <1>3, <2>5, <2>6 DEF TypeOK, ShellTypeOK, cookies, bounds
<1>6. CASE RunAnswer(w, q)
  <2>1. Set(w, RunState(w, q)) /\ Show(w, "none")
    BY <1>6 DEF RunAnswer, RunState
  <2>2. win' \in [Window -> WinType]
    BY <1>2, <2>1, RunStateType, PutWin
  <2>3. box' \in [Window -> {"none", "wait", "logout?", "reboot?", "alert"}]
    BY <2>1, BoxType
  <2> QED
    BY <1>1, <1>3, <2>2, <2>3 DEF TypeOK, ShellTypeOK, cookies, bounds
<1> QED
  BY <1>4, <1>5, <1>6

LEMMA DeliverType ==
  ASSUME TypeOK, NEW w \in Window, NEW q \in net[w], Deliver(w, q)
  PROVE  TypeOK'
<1>1. \/ TreeAnswer(w, q) \/ HostAnswer(w, q) \/ SentHome(w, q)
      \/ LostAnswer(w, q) \/ IgnoredAnswer(w, q) \/ FilesAnswer(w, q) \/ RunAnswer(w, q)
  BY DEF Deliver, OpCmdCb
<1> QED
  BY <1>1, TreeAnswerType, HostAnswerType, SentHomeType, OpCmdCbType

\* The steps of the pages alone
LEMMA ShellStepType ==
  ASSUME TypeOK, NEW w \in Window, ShellStep(w)
  PROVE  TypeOK'
<1>1. UNCHANGED console
  BY DEF ShellStep
<1>2. CASE HandleLogout(w) \/ LogoutYes(w)
  <2>1. UserLogout(w) \/ UNCHANGED <<cookies, page>>
    BY <1>2 DEF HandleLogout, LogoutYes
  <2>2. UNCHANGED <<alive, auth>> /\ (UNCHANGED box \/ Show(w, "logout?") \/ Show(w, "none"))
    BY <1>2 DEF HandleLogout, LogoutYes
  <2> QED
    BY <1>1, <2>1, <2>2, LogoutType, BoxType
    DEF TypeOK, ShellTypeOK, cookies, console, bounds
<1>3. CASE LoginRoot(w) \/ Dismiss(w)
  <2>1. UNCHANGED <<cookies, alive, page, auth>> /\ (Show(w, "alert") \/ Show(w, "none"))
    BY <1>3 DEF LoginRoot, Dismiss
  <2> QED
    BY <1>1, <2>1, BoxType DEF TypeOK, ShellTypeOK, cookies, console, bounds
<1>4. CASE Refused(w) \/ LoginLost(w)
  <2>1. UNCHANGED <<alive, isC, page>> /\ (Show(w, "alert") \/ Show(w, "none"))
    BY <1>4 DEF Refused, LoginLost, cookies
  <2>2. idC' \in {idC, None} /\ nameC' \in {nameC, auth[w]} /\ auth' = [auth EXCEPT ![w] = None]
    BY <1>4 DEF Refused, LoginLost, cookies
  <2> QED
    BY <1>1, <2>1, <2>2, BoxType DEF TypeOK, ShellTypeOK, console, bounds
<1>5. CASE RebootYes(w) \/ Reload(w)
  <2>1. /\ page' = [page EXCEPT ![w] = "loading"] /\ Show(w, "none")
        /\ auth' \in {auth, [auth EXCEPT ![w] = None]} /\ isC' \in {isC, "reboot"}
        /\ UNCHANGED <<idC, nameC, alive>>
    BY <1>5 DEF RebootYes, Reload, cookies
  <2> QED
    BY <1>1, <2>1, BoxType DEF TypeOK, ShellTypeOK, console, bounds
<1> QED
  BY <1>2, <1>3, <1>4, <1>5 DEF ShellStep

LEMMA EnteredType ==
  ASSUME TypeOK, NEW w \in Window, Entered(w)
  PROVE  TypeOK'
<1>1. mixed' \in 0 .. MaxMixed
  BY MixType DEF Entered
<1>2. box' \in [Window -> {"none", "wait", "logout?", "reboot?", "alert"}]
  BY BoxType DEF Entered, Authenticated
<1> QED
  BY <1>1, <1>2 DEF Entered, Authenticated, TypeOK, ShellTypeOK, bounds

LEMMA VisitType ==
  ASSUME TypeOK, NEW w \in Window, Visit(w)
  PROVE  TypeOK'
<1>1. /\ visits' \in 0 .. MaxVisits
      /\ UNCHANGED <<win, net, started, cur, mixed, clicks, faults>>
  BY Bounds DEF Visit, TypeOK
<1>2. CASE \E u \in User : Login(w, u)
  <2>1. box' \in [Window -> {"none", "wait", "logout?", "reboot?", "alert"}]
    BY <1>2, BoxType DEF Login
  <2> QED
    <3>1. auth' \in [Window -> User \union {None}] /\ UNCHANGED <<cookies, alive, page>>
      BY <1>2 DEF Login, TypeOK, ShellTypeOK
    <3> QED
      BY <1>1, <2>1, <3>1 DEF TypeOK, ShellTypeOK, cookies
<1>3. CASE Reload(w)
  <2>1. box' \in [Window -> {"none", "wait", "logout?", "reboot?", "alert"}]
    BY <1>3, BoxType DEF Reload
  <2> QED
    BY <1>1, <1>3, <2>1 DEF Reload, TypeOK, ShellTypeOK, cookies
<1> QED
  BY <1>2, <1>3 DEF Visit

LEMMA EndsType ==
  ASSUME TypeOK,
         \/ \E u \in User : Ended(u)
         \/ CookiesExpire /\ Fault /\ UNCHANGED <<win, net, started, cur, mixed>>
  PROVE  TypeOK'
<1>1. clicks' \in 0 .. MaxClicks /\ visits' \in 0 .. MaxVisits /\ faults' \in 0 .. MaxFaults
  BY FaultType DEF Ended
<1>2. CASE \E u \in User : Ended(u)
  <2>1. NoCommand \in [run : 0 .. MaxRuns, left : 0 .. MaxPages]
    BY Bounds DEF NoCommand
  <2> QED
    <3>1. cur' \in [User -> [run : 0 .. MaxRuns, left : 0 .. MaxPages]]
      BY <1>2, <2>1 DEF Ended, TypeOK
    <3>2. /\ alive' \subseteq alive /\ UNCHANGED <<cookies, page, auth, box>>
          /\ UNCHANGED <<win, net, started, mixed>>
      BY <1>2 DEF Ended, SessionEnds
    <3> QED
      BY <1>1, <3>1, <3>2 DEF TypeOK, ShellTypeOK, cookies
<1>3. CASE CookiesExpire /\ UNCHANGED <<win, net, started, cur, mixed>>
  BY <1>1, <1>3 DEF CookiesExpire, TypeOK, ShellTypeOK
<1> QED
  BY <1>2, <1>3

\* Every action keeps the types, provided a window that waits to poll knows what for.
LEMMA NextType == TypeOK /\ Held /\ [Next]_vars => TypeOK'
<1> SUFFICES ASSUME TypeOK, Held, [Next]_vars
             PROVE  TypeOK'
  OBVIOUS
<1>1. CASE UNCHANGED vars
  BY <1>1 DEF vars, shell, console, bounds, cookies, TypeOK, ShellTypeOK
<1>2. ASSUME NEW w \in Window, WindowStep(w)
      PROVE  TypeOK'
  <2>1. CASE OnReady(w) \/ Task(w) \/ Entered(w) \/ Visit(w) \/ ShellStep(w)
    BY <2>1, OnReadyType, TaskType, EnteredType, VisitType, ShellStepType
  <2>2. CASE UserStep(w)
    BY <2>2, TabClickType, NodeClickType, RunClickType, ButtonsType, FilesClickType DEF UserStep
  <2>3. CASE \E q \in net[w] : Serve(w, q) \/ Lose(w, q) \/ Deliver(w, q)
    BY <2>3, ServeType, LoseType, DeliverType
  <2> QED
    BY <1>2, <2>1, <2>2, <2>3 DEF WindowStep, Served, Delivered
<1> QED
  BY <1>1, <1>2, EndsType DEF Next

LEMMA InitType == Init => TypeOK
<1> SUFFICES ASSUME Init
             PROVE  TypeOK
  OBVIOUS
<1>1. NoCommand \in [run : 0 .. MaxRuns, left : 0 .. MaxPages]
  BY Bounds DEF NoCommand
<1>2. started \in Seq(Command \union {"files", "host"}) /\ Len(started) <= MaxRuns
  BY Bounds DEF Init
<1> QED
  BY <1>1, <1>2, BlankType, Bounds DEF Init, ShellInit, TypeOK, ShellTypeOK

----------------------------------------------------------------------------
(* One chain of requests per command *)

\* Of a window in state s with requests N in flight, when L commands have been started:
\* a command has at most one request, and none if its next poll is still to be sent; so
\* a start, whose number is new, a poll, and a page that comes each keep it so.
Chain(s, N, L) ==
  /\ s.seg = "next" => s.for # "none" /\ s.run <= L
  /\ \A q \in N : q.op # "tree" =>
       /\ q.run <= L
       /\ ~(s.seg = "next" /\ s.run = q.run)
       /\ \A p \in N : p.op # "tree" /\ p.run = q.run => p = q

ChainInv == \A w \in Window : Chain(win[w], net[w], Len(started))

LEMMA ChainHolds == TypeOK /\ ChainInv => Held /\ OneChain
BY DEF ChainInv, Chain, Held, OneChain, Commands, TypeOK

LEMMA ChainLater ==
  ASSUME NEW s \in WinType, NEW N \in SUBSET Request, NEW L \in Nat, NEW M \in Nat,
         Chain(s, N, L), L <= M
  PROVE  Chain(s, N, M)
BY DEF Chain, WinType, Request

LEMMA ChainLess ==
  ASSUME NEW s \in WinType, NEW t \in WinType, NEW N \in SUBSET Request,
         NEW K \in SUBSET N, NEW L \in Nat, Chain(s, N, L),
         t.seg = "next" => s.seg = "next" /\ t.run = s.run /\ t.for = s.for
  PROVE  Chain(t, K, L)
BY DEF Chain

LEMMA ChainStart ==
  ASSUME NEW s \in WinType, NEW N \in SUBSET Request, NEW L \in Nat, Chain(s, N, L),
         NEW p \in Request, p.run = L + 1
  PROVE  Chain(s, N \union {p}, L + 1)
<1>1. s.seg = "next" => s.run <= L /\ s.run \in Nat
  BY Bounds DEF Chain, WinType
<1>2. \A q \in N : q.op # "tree" => q.run <= L /\ q.run \in Nat
  BY Bounds DEF Chain, Request
<1> QED
  BY <1>1, <1>2 DEF Chain

LEMMA ChainTrees ==
  ASSUME NEW s, NEW N, NEW T, NEW L, Chain(s, N, L), \A q \in T : q.op = "tree"
  PROVE  Chain(s, N \union T, L)
BY DEF Chain

LEMMA ChainPoll ==
  ASSUME NEW s, NEW t, NEW N, NEW p, NEW L, Chain(s, N, L), s.seg = "next",
         p.run = s.run, t.seg # "next"
  PROVE  Chain(t, N \union {p}, L)
BY DEF Chain

LEMMA ChainReply ==
  ASSUME NEW s, NEW t, NEW N, NEW q \in N, NEW L, Chain(s, N, L), q.op # "tree",
         t.seg = "next" => t.run = q.run /\ t.for # "none"
  PROVE  Chain(t, N \ {q}, L)
BY DEF Chain

LEMMA ChainAnswer ==
  ASSUME NEW s, NEW N, NEW q \in N, NEW p, NEW L, Chain(s, N, L),
         p.op = "tree" <=> q.op = "tree", p.run = q.run
  PROVE  Chain(s, (N \ {q}) \union {p}, L)
BY DEF Chain

LEMMA ChainForget ==
  ASSUME NEW s \in WinType, NEW t, NEW N \in SUBSET Request, NEW K, NEW L, Chain(s, N, L),
         \A p \in K : \E q \in N : p = [q EXCEPT !.for = IF @ = "btn" THEN "old" ELSE @],
         t.seg # "next"
  PROVE  Chain(t, K, L)
<1> DEFINE Old(q) == [q EXCEPT !.for = IF @ = "btn" THEN "old" ELSE @]
<1>1. \A q \in N : Old(q).op = q.op /\ Old(q).run = q.run
  BY OldType
<1>2. \A p \in K : \E q \in N : p = Old(q)
  OBVIOUS
<1> HIDE DEF Old
<1> QED
  BY <1>1, <1>2 DEF Chain

\* What a step does in one window leaves the others' chains alone.
LEMMA ChainElsewhere ==
  ASSUME TypeOK, ChainInv, NEW w \in Window,
         \A v \in Window \ {w} : win'[v] = win[v] /\ net'[v] = net[v],
         Len(started) <= Len(started'), Len(started') \in Nat,
         Chain(win'[w], net'[w], Len(started'))
  PROVE  ChainInv'
<1> SUFFICES ASSUME NEW v \in Window, v # w
             PROVE  Chain(win'[v], net'[v], Len(started'))
  BY DEF ChainInv
<1>1. Chain(win[v], net[v], Len(started)) /\ win[v] \in WinType /\ net[v] \in SUBSET Request
  BY DEF ChainInv, TypeOK
<1> QED
  BY <1>1, ChainLater, FreshType

LEMMA ChainSame ==
  ASSUME TypeOK, ChainInv, NEW w \in Window, started' = started,
         \A v \in Window \ {w} : win'[v] = win[v] /\ net'[v] = net[v],
         Chain(win'[w], net'[w], Len(started))
  PROVE  ChainInv'
BY FreshType, ChainElsewhere

\* A state with no poll to send and no command in flight
LEMMA ChainEmpty ==
  ASSUME NEW s, NEW N, NEW L, s.seg # "next", \A q \in N : q.op = "tree"
  PROVE  Chain(s, N, L)
BY DEF Chain

\* The host name's command, if it is asked for, is a start.
LEMMA ChainAskHost ==
  ASSUME TypeOK, NEW s \in WinType, StartHost(s), NEW t \in WinType, NEW N \in SUBSET Request,
         Chain(t, N, Len(started))
  PROVE  /\ Chain(t, N \union AskHost(s), Len(started'))
         /\ Len(started) <= Len(started') /\ Len(started') \in Nat
         /\ N \union AskHost(s) \in SUBSET Request
<1>1. CASE AskHost(s) = {} /\ started' = started
  BY <1>1, FreshType
<1>2. CASE /\ AskHost(s) = {New("start", Fresh, "host")}
           /\ New("start", Fresh, "host").run = Fresh
           /\ Len(started') = Fresh /\ Fresh \in 1 .. MaxRuns
  <2>1. New("start", Fresh, "host") \in Request
    BY <1>2, AskHostType
  <2>2. Fresh = Len(started) + 1 /\ Len(started) \in Nat
    BY FreshType
  <2> QED
    BY <1>2, <2>1, <2>2, ChainStart
<1> QED
  BY <1>1, <1>2, AskHostType

LEMMA ChainOnReady ==
  ASSUME TypeOK, ChainInv, NEW w \in Window, OnReady(w)
  PROVE  ChainInv'
<1>1. win'[w] = Blank /\ \A v \in Window \ {w} : win'[v] = win[v]
  BY BlankType, PutWin DEF OnReady
<1>2. CASE net' = [net EXCEPT ![w] = {}] /\ UNCHANGED started
  <2>1. net'[w] = {} /\ \A v \in Window \ {w} : net'[v] = net[v]
    BY <1>2 DEF TypeOK
  <2> QED
    BY <1>1, <1>2, <2>1, BlankType, ChainEmpty, ChainSame
<1>3. CASE /\ StartHost(Blank)
           /\ net' = [net EXCEPT ![w] = AskHost(Blank) \union {New("tree", 0, "conf")}]
  <2>1. Chain(Blank, {}, Len(started)) /\ {} \in SUBSET Request
    BY BlankType, ChainEmpty
  <2>2. /\ Chain(Blank, {} \union AskHost(Blank), Len(started'))
        /\ Len(started) <= Len(started') /\ Len(started') \in Nat
    BY <1>3, <2>1, BlankType, ChainAskHost
  <2>3. \A q \in {New("tree", 0, "conf")} : q.op = "tree"
    BY Zero, NewType DEF TypeOK, ShellTypeOK, Kind
  <2>4. Chain(Blank, AskHost(Blank) \union {New("tree", 0, "conf")}, Len(started'))
    <3>1. {} \union AskHost(Blank) = AskHost(Blank)
      OBVIOUS
    <3> QED
      BY <2>2, <2>3, <3>1, ChainTrees
  <2>5. /\ net'[w] = AskHost(Blank) \union {New("tree", 0, "conf")}
        /\ \A v \in Window \ {w} : net'[v] = net[v]
    BY <1>3 DEF TypeOK
  <2> QED
    BY <1>1, <2>2, <2>4, <2>5, ChainElsewhere
<1> QED
  BY <1>2, <1>3 DEF OnReady

LEMMA ChainTabClick ==
  ASSUME TypeOK, ChainInv, NEW w \in Window, NEW t \in {"conf", "oper"}, TabClick(w, t)
  PROVE  ChainInv'
<1>1. /\ win[w] \in WinType /\ net[w] \in SUBSET Request
      /\ Chain(win[w], net[w], Len(started))
  BY DEF TypeOK, ChainInv
<1>2. CASE UNCHANGED <<win, net, started>>
  BY <1>2 DEF ChainInv
<1>3. CASE /\ StartHost(win[w]) /\ Send(w, AskHost(win[w]) \union AskTree(win[w], t))
           /\ Set(w, Shown(win[w], t))
  <2> DEFINE s == Shown(win[w], t)
  <2>1. /\ s \in WinType /\ win'[w] = s /\ \A v \in Window \ {w} : win'[v] = win[v]
        /\ s.seg = "next" => win[w].seg = "next" /\ s.run = win[w].run /\ s.for = win[w].for
    BY <1>1, <1>3, ShownType, PutWin
  <2> HIDE DEF s
  <2>2. Chain(s, net[w], Len(started))
    BY <1>1, <2>1, ChainLess, FreshType
  <2>3. /\ Chain(s, net[w] \union AskHost(win[w]), Len(started'))
        /\ Len(started) <= Len(started') /\ Len(started') \in Nat
    BY <1>1, <1>3, <2>1, <2>2, ChainAskHost
  <2>4. Chain(s, (net[w] \union AskHost(win[w])) \union AskTree(win[w], t), Len(started'))
    BY <2>3, AskTreeType, ChainTrees
  <2>5. AskHost(win[w]) \union AskTree(win[w], t) \in SUBSET Request
    BY <1>1, <1>3, AskHostType, AskTreeType
  <2>6. /\ net'[w] = (net[w] \union AskHost(win[w])) \union AskTree(win[w], t)
        /\ \A v \in Window \ {w} : net'[v] = net[v]
    BY <1>3, <2>5, SendType
  <2> QED
    BY <2>1, <2>3, <2>4, <2>6, ChainElsewhere
<1> QED
  BY <1>2, <1>3 DEF TabClick

LEMMA ChainNodeClick ==
  ASSUME TypeOK, ChainInv, NEW w \in Window, NEW n \in Command \union {Reboot, None},
         NodeClick(w, n)
  PROVE  ChainInv'
<1>1. /\ win[w] \in WinType /\ net[w] \in SUBSET Request
      /\ Chain(win[w], net[w], Len(started))
  BY DEF TypeOK, ChainInv
<1>2. /\ win'[w].seg # "next" /\ \A v \in Window \ {w} : win'[v] = win[v]
  <2> DEFINE t == Panel(win[w], n)
             s == [t EXCEPT !.seg = "null", !.run = 0]
  <2>3. t \in WinType
    BY <1>1, PanelType
  <2>2. Set(w, s)
    BY DEF NodeClick
  <2> HIDE DEF t
  <2>1. s \in WinType /\ s.seg = "null"
    BY <2>3, SegType, Zero
  <2> HIDE DEF s
  <2> QED
    BY <2>1, <2>2, PutWin
<1>3. net'[w] = Forget(w) /\ \A v \in Window \ {w} : net'[v] = net[v]
  BY ForgetType, PutNet DEF NodeClick
<1>4. Chain(win'[w], net'[w], Len(started))
  BY <1>1, <1>2, <1>3, ForgetType, ChainForget
<1>5. started' = started
  BY DEF NodeClick
<1> QED
  BY <1>2, <1>3, <1>4, <1>5, ChainSame

LEMMA ChainRunClick ==
  ASSUME TypeOK, ChainInv, NEW w \in Window, RunClick(w) \/ FilesClick(w)
  PROVE  ChainInv'
<1>1. /\ win[w] \in WinType /\ net[w] \in SUBSET Request
      /\ Chain(win[w], net[w], Len(started))
  BY DEF TypeOK, ChainInv
<1>2. CASE UNCHANGED <<win, net, started>>
  BY <1>2 DEF ChainInv
<1>3. ASSUME NEW k \in Kind, NEW c \in Command \union {"files", "host"}, NEW s \in WinType,
             Fresh <= MaxRuns, started' = Append(started, c),
             Send(w, {New("start", Fresh, k)}), Set(w, s),
             s.seg = "next" => win[w].seg = "next" /\ s.run = win[w].run /\ s.for = win[w].for
      PROVE  ChainInv'
  <2> DEFINE p == New("start", Fresh, k)
  <2>1. Fresh \in 0 .. MaxRuns /\ Len(started') = Fresh
    BY <1>3, AppendType
  <2>2. p \in Request /\ p.run = Fresh
    BY <2>1, NewType DEF TypeOK, ShellTypeOK
  <2> HIDE DEF p
  <2>3. Chain(s, net[w], Len(started))
    BY <1>1, <1>3, ChainLess, FreshType
  <2>4. Chain(s, net[w] \union {p}, Len(started'))
    BY <1>1, <2>1, <2>2, <2>3, ChainStart, FreshType
  <2>5. net'[w] = net[w] \union {p} /\ \A v \in Window \ {w} : net'[v] = net[v]
    BY <1>3, <2>2, SendType DEF p
  <2>6. win'[w] = s /\ \A v \in Window \ {w} : win'[v] = win[v]
    BY <1>3, PutWin
  <2> QED
    <3>1. Len(started) <= Len(started') /\ Len(started') \in Nat
      BY <2>1, FreshType
    <3> QED
      BY <2>4, <2>5, <2>6, <3>1, ChainElsewhere
<1>4. CASE FilesClick(w)
  <2> DEFINE s == [win[w] EXCEPT !.list = {}]
  <2>1. s \in WinType /\ s.seg = win[w].seg /\ s.run = win[w].run /\ s.for = win[w].for
    BY <1>1 DEF WinType
  <2>2. Set(w, s) /\ Fresh <= MaxRuns /\ started' = Append(started, "files")
        /\ Send(w, {New("start", Fresh, "files")})
    BY <1>4 DEF FilesClick
  <2>3. "files" \in Kind
    BY DEF Kind
  <2> HIDE DEF s
  <2> QED
    BY <1>3, <2>1, <2>2, <2>3
<1>5. CASE RunClick(w) /\ ~UNCHANGED <<win, net, started>>
  <2> DEFINE s == [win[w] EXCEPT !.seg = "null", !.run = 0]
  <2>1. s \in WinType /\ s.seg # "next"
    BY <1>1, SegType, Zero
  <2>2. /\ Set(w, s) /\ Fresh <= MaxRuns /\ started' = Append(started, win[w].node)
        /\ win[w].node \in Command /\ Send(w, {New("start", Fresh, "btn")})
    BY <1>5 DEF RunClick
  <2>3. "btn" \in Kind
    BY DEF Kind
  <2> HIDE DEF s
  <2> QED
    BY <1>3, <2>1, <2>2, <2>3
<1> QED
  BY <1>2, <1>4, <1>5

LEMMA ChainButtons ==
  ASSUME TypeOK, ChainInv, NEW w \in Window, StopClick(w) \/ PauseClick(w)
  PROVE  ChainInv'
<1>1. /\ win[w] \in WinType /\ net[w] \in SUBSET Request
      /\ Chain(win[w], net[w], Len(started))
  BY DEF TypeOK, ChainInv
<1>2. ASSUME NEW s \in WinType, Set(w, s),
             s.seg = "next" => win[w].seg = "next" /\ s.run = win[w].run /\ s.for = win[w].for
      PROVE  ChainInv'
  <2>1. win'[w] = s /\ \A v \in Window \ {w} : win'[v] = win[v]
    BY <1>2, PutWin
  <2>2. UNCHANGED <<net, started>>
    BY DEF StopClick, PauseClick
  <2>3. Chain(s, net[w], Len(started))
    BY <1>1, <1>2, ChainLess, FreshType
  <2> QED
    BY <2>1, <2>2, <2>3, ChainSame
<1>3. CASE StopClick(w)
  <2> DEFINE s == [win[w] EXCEPT !.label = "Run", !.seg = "stop", !.run = 0]
  <2>1. s \in WinType /\ s.seg # "next"
    BY <1>1, Zero DEF WinType
  <2>2. Set(w, s)
    BY <1>3 DEF StopClick
  <2> HIDE DEF s
  <2> QED
    BY <1>2, <2>1, <2>2
<1>4. CASE PauseClick(w)
  <2> DEFINE s == [win[w] EXCEPT !.paused = ~@]
  <2>1. s \in WinType /\ s.seg = win[w].seg /\ s.run = win[w].run /\ s.for = win[w].for
    BY <1>1 DEF WinType
  <2>2. Set(w, s)
    BY <1>4 DEF PauseClick
  <2> HIDE DEF s
  <2> QED
    BY <1>2, <2>1, <2>2
<1> QED
  BY <1>3, <1>4

LEMMA ChainTask ==
  ASSUME TypeOK, ChainInv, NEW w \in Window, Task(w)
  PROVE  ChainInv'
<1>1. /\ win[w] \in WinType /\ net[w] \in SUBSET Request
      /\ Chain(win[w], net[w], Len(started)) /\ started' = started
  BY DEF TypeOK, ChainInv, Task
<1>2. CASE UNCHANGED <<win, net>>
  BY <1>1, <1>2 DEF ChainInv
<1>3. CASE /\ Set(w, [win[w] EXCEPT !.seg = "null", !.run = 0, !.paused = FALSE])
           /\ UNCHANGED net
  <2> DEFINE s == [win[w] EXCEPT !.seg = "null", !.run = 0, !.paused = FALSE]
  <2>1. s \in WinType /\ s.seg # "next"
    BY <1>1, Zero DEF WinType
  <2> HIDE DEF s
  <2>2. Chain(s, net[w], Len(started))
    BY <1>1, <2>1, ChainLess, FreshType
  <2>3. win'[w] = s /\ \A v \in Window \ {w} : win'[v] = win[v]
    BY <1>3, <2>1, PutWin DEF s
  <2> QED
    BY <1>1, <1>3, <2>2, <2>3, ChainSame
<1>4. CASE /\ Send(w, {New("poll", win[w].run, win[w].for)}) /\ win[w].seg = "next"
           /\ Set(w, [win[w] EXCEPT !.seg = "null", !.run = 0])
  <2> DEFINE s == [win[w] EXCEPT !.seg = "null", !.run = 0]
             p == New("poll", win[w].run, win[w].for)
  <2>1. s \in WinType /\ s.seg # "next"
    BY <1>1, SegType, Zero
  <2>2. win[w].run \in 0 .. MaxRuns /\ win[w].for \in Kind
    BY <1>1, <1>4 DEF Chain, WinType
  <2>3. p \in Request /\ p.run = win[w].run
    BY <2>2, NewType DEF TypeOK, ShellTypeOK
  <2>4. Set(w, s) /\ Send(w, {p})
    BY <1>4
  <2> HIDE DEF s, p
  <2>5. Chain(s, net[w] \union {p}, Len(started))
    BY <1>1, <1>4, <2>1, <2>3, ChainPoll
  <2>6. win'[w] = s /\ \A v \in Window \ {w} : win'[v] = win[v]
    BY <2>1, <2>4, PutWin
  <2>7. net'[w] = net[w] \union {p} /\ \A v \in Window \ {w} : net'[v] = net[v]
    BY <2>3, <2>4, SendType
  <2> QED
    BY <1>1, <2>5, <2>6, <2>7, ChainSame
<1> QED
  BY <1>2, <1>3, <1>4 DEF Task

LEMMA ChainServe ==
  ASSUME TypeOK, ChainInv, NEW w \in Window, NEW q \in net[w], Serve(w, q) \/ Lose(w, q)
  PROVE  ChainInv'
<1>1. PICK p \in Request : /\ p.op = q.op /\ p.run = q.run
                           /\ net'[w] = (net[w] \ {q}) \union {p}
  <2>1. CASE Serve(w, q)
    BY <2>1, ServeAnswers, AnswerType
  <2>2. CASE Lose(w, q)
    BY <2>2, Zero, AnswerType DEF Lose
  <2> QED
    BY <2>1, <2>2
<1>2. \A v \in Window \ {w} : net'[v] = net[v]
  <2>1. CASE Serve(w, q)
    BY <2>1, ServeAnswers, AnswerType
  <2>2. CASE Lose(w, q)
    BY <2>2, Zero, AnswerType DEF Lose
  <2> QED
    BY <2>1, <2>2
<1>3. UNCHANGED <<win, started>> /\ Chain(win[w], net[w], Len(started))
  BY DEF Serve, Lose, ChainInv
<1>4. Chain(win[w], net'[w], Len(started))
  BY <1>1, <1>3, ChainAnswer
<1> QED
  BY <1>2, <1>3, <1>4, ChainSame

LEMMA ChainTreeAnswer ==
  ASSUME TypeOK, ChainInv, NEW w \in Window, NEW q \in net[w], TreeAnswer(w, q)
  PROVE  ChainInv'
<1>1. /\ win[w] \in WinType /\ net[w] \in SUBSET Request
      /\ Chain(win[w], net[w], Len(started))
  BY DEF TypeOK, ChainInv
<1>2. CASE Done(w, q) /\ UNCHANGED <<win, started>>
  <2>1. Chain(win[w], net[w] \ {q}, Len(started))
    BY <1>1, ChainLess, FreshType
  <2> QED
    BY <1>2, <2>1, DoneType, ChainSame
<1>3. CASE /\ StartHost(win[w])
           /\ net' = [net EXCEPT ![w] =
                        (@ \ {q}) \union AskHost(win[w]) \union AskTree(win[w], "oper")]
           /\ Set(w, [Shown(win[w], "oper") EXCEPT !.denied = TRUE])
  <2> DEFINE t == Shown(win[w], "oper")
             s == [t EXCEPT !.denied = TRUE]
  <2>1. /\ t \in WinType
        /\ t.seg = "next" => win[w].seg = "next" /\ t.run = win[w].run /\ t.for = win[w].for
    BY <1>1, ShownType
  <2>2. Set(w, s)
    BY <1>3
  <2> HIDE DEF t
  <2>3. s \in WinType /\ s.seg = t.seg /\ s.run = t.run /\ s.for = t.for
    BY <2>1 DEF WinType
  <2> HIDE DEF s
  <2>4. Chain(s, net[w] \ {q}, Len(started))
    BY <1>1, <2>1, <2>3, ChainLess, FreshType
  <2>5. /\ Chain(s, (net[w] \ {q}) \union AskHost(win[w]), Len(started'))
        /\ Len(started) <= Len(started') /\ Len(started') \in Nat
        /\ (net[w] \ {q}) \union AskHost(win[w]) \in SUBSET Request
    <3> DEFINE K == net[w] \ {q}
    <3>1. K \in SUBSET Request /\ Chain(s, K, Len(started))
      BY <1>1, <2>4
    <3> HIDE DEF K
    <3>2. /\ Chain(s, K \union AskHost(win[w]), Len(started'))
          /\ Len(started) <= Len(started') /\ Len(started') \in Nat
          /\ K \union AskHost(win[w]) \in SUBSET Request
      BY <1>1, <1>3, <2>3, <3>1, ChainAskHost
    <3> QED
      BY <3>2 DEF K
  <2>6. Chain(s, ((net[w] \ {q}) \union AskHost(win[w])) \union AskTree(win[w], "oper"),
              Len(started'))
    BY <2>5, AskTreeType, ChainTrees
  <2>7. /\ net'[w] = ((net[w] \ {q}) \union AskHost(win[w])) \union AskTree(win[w], "oper")
        /\ \A v \in Window \ {w} : net'[v] = net[v]
    BY <1>3, <2>5, AskTreeType DEF TypeOK
  <2>8. win'[w] = s /\ \A v \in Window \ {w} : win'[v] = win[v]
    BY <2>2, <2>3, PutWin
  <2> QED
    BY <2>5, <2>6, <2>7, <2>8, ChainElsewhere
<1> QED
  BY <1>2, <1>3 DEF TreeAnswer

LEMMA ChainHostAnswer ==
  ASSUME TypeOK, ChainInv, NEW w \in Window, NEW q \in net[w], q.op # "tree", HostAnswer(w, q)
  PROVE  ChainInv'
<1>1. /\ win[w] \in WinType /\ net[w] \in SUBSET Request /\ q \in Request
      /\ Chain(win[w], net[w], Len(started)) /\ started' = started
  BY DEF TypeOK, ChainInv, HostAnswer
<1> DEFINE h == IF q.seg = "next" /\ q.out # 0 THEN q.out ELSE win[w].host
           s == [win[w] EXCEPT !.host = h]
<1>2. h \in 0 .. MaxRuns
  BY <1>1 DEF WinType, Request
<1>3. Set(w, s)
  BY DEF HostAnswer
<1> HIDE DEF h
<1>4. s \in WinType /\ s.seg = win[w].seg /\ s.run = win[w].run /\ s.for = win[w].for
  BY <1>1, <1>2 DEF WinType
<1> HIDE DEF s
<1>5. win'[w] = s /\ \A v \in Window \ {w} : win'[v] = win[v]
  BY <1>3, <1>4, PutWin
<1>6. Chain(s, net[w], Len(started))
  BY <1>1, <1>4, ChainLess, FreshType
<1>7. CASE Done(w, q)
  <2>1. Chain(s, net[w] \ {q}, Len(started))
    BY <1>1, <1>4, <1>6, ChainLess, FreshType
  <2> QED
    BY <1>1, <1>5, <1>7, <2>1, DoneType, ChainSame
<1>8. CASE net' = [net EXCEPT ![w] = (@ \ {q}) \union {New("poll", q.run, "host")}]
  <2> DEFINE p == New("poll", q.run, "host")
  <2>1. p \in Request /\ p.op = "poll" /\ p.run = q.run
    <3>1. q.run \in 0 .. MaxRuns /\ "host" \in Kind
      BY <1>1 DEF Request, Kind
    <3>2. idC \in User \union {None}
      BY DEF TypeOK, ShellTypeOK
    <3> QED
      BY <3>1, <3>2, NewType
  <2>2. net' = [net EXCEPT ![w] = (@ \ {q}) \union {p}]
    BY <1>8
  <2> HIDE DEF p
  <2>3. Chain(s, (net[w] \ {q}) \union {p}, Len(started))
    BY <1>6, <2>1, ChainAnswer
  <2>4. /\ net'[w] = (net[w] \ {q}) \union {p} /\ \A v \in Window \ {w} : net'[v] = net[v]
    BY <2>2 DEF TypeOK
  <2> QED
    BY <1>1, <1>5, <2>3, <2>4, ChainSame
<1> QED
  BY <1>7, <1>8 DEF HostAnswer

LEMMA ChainOpCmdCb ==
  ASSUME TypeOK, ChainInv, NEW w \in Window, NEW q \in net[w], q.op # "tree",
         LostAnswer(w, q) \/ IgnoredAnswer(w, q) \/ FilesAnswer(w, q) \/ RunAnswer(w, q)
  PROVE  ChainInv'
<1>1. /\ win[w] \in WinType /\ net[w] \in SUBSET Request /\ q \in Request
      /\ Chain(win[w], net[w], Len(started))
  BY DEF TypeOK, ChainInv
<1>2. Done(w, q) /\ started' = started
  BY DEF LostAnswer, IgnoredAnswer, FilesAnswer, RunAnswer
<1>3. net'[w] = net[w] \ {q} /\ \A v \in Window \ {w} : net'[v] = net[v]
  BY <1>2, DoneType
<1>4. SUFFICES /\ Chain(win'[w], net[w] \ {q}, Len(started))
               /\ \A v \in Window \ {w} : win'[v] = win[v]
  BY <1>2, <1>3, ChainSame
<1>5. CASE LostAnswer(w, q) \/ IgnoredAnswer(w, q)
  <2>1. win' = win \/ Cut(w, win[w])
    BY <1>5 DEF LostAnswer, IgnoredAnswer
  <2>2. /\ win'[w] \in WinType /\ win'[w].seg = win[w].seg /\ win'[w].run = win[w].run
        /\ win'[w].for = win[w].for /\ \A v \in Window \ {w} : win'[v] = win[v]
    BY <1>1, <2>1, CutType
  <2> QED
    BY <1>1, <2>2, ChainLess, FreshType
<1>6. CASE FilesAnswer(w, q)
  <2> DEFINE s == FilesState(w, q)
  <2>1. s \in WinType /\ s.for = "files" /\ s.seg = q.seg /\ (q.seg = "next" => s.run = q.run)
    BY <1>1, FilesStateType
  <2>2. \/ Cut(w, s)
        \/ Set(w, [s EXCEPT !.list = @ \union ({q.out} \ {0})])
        \/ Set(w, [s EXCEPT !.offered = s.list])
    BY <1>6 DEF FilesAnswer, FilesState
  <2> HIDE DEF s
  <2>3. {q.out} \ {0} \subseteq Runs
    BY <1>1, Bounds DEF Request
  <2>4. ASSUME NEW t \in {[s EXCEPT !.list = @ \union ({q.out} \ {0})],
                          [s EXCEPT !.offered = s.list]}
        PROVE  t \in WinType /\ t.for = s.for /\ t.seg = s.seg /\ t.run = s.run
    BY <2>1, <2>3 DEF WinType
  <2>5. /\ win'[w].seg = s.seg /\ win'[w].run = s.run /\ win'[w].for = s.for
        /\ \A v \in Window \ {w} : win'[v] = win[v]
    BY <2>1, <2>2, <2>4, CutType, PutWin
  <2> QED
    BY <1>1, <2>1, <2>5, ChainReply
<1>7. CASE RunAnswer(w, q)
  <2> DEFINE s == RunState(w, q)
  <2>1. /\ s \in WinType /\ s.seg = q.seg
        /\ q.seg = "next" => s.run = q.run /\ s.for = q.for
    BY <1>1, RunStateType
  <2>2. Set(w, s)
    BY <1>7 DEF RunAnswer, RunState
  <2> HIDE DEF s
  <2>3. win'[w] = s /\ \A v \in Window \ {w} : win'[v] = win[v]
    BY <2>1, <2>2, PutWin
  <2>4. q.for # "none"
    BY <1>1 DEF Request, Kind
  <2> QED
    BY <1>1, <2>1, <2>3, <2>4, ChainReply
<1> QED
  BY <1>5, <1>6, <1>7

LEMMA ChainDeliver ==
  ASSUME TypeOK, ChainInv, NEW w \in Window, NEW q \in net[w], Deliver(w, q)
  PROVE  ChainInv'
<1>1. \/ TreeAnswer(w, q) \/ SentHome(w, q)
      \/ q.op # "tree" /\ HostAnswer(w, q)
      \/ q.op # "tree" /\ (\/ LostAnswer(w, q) \/ IgnoredAnswer(w, q)
                           \/ FilesAnswer(w, q) \/ RunAnswer(w, q))
  BY DEF Deliver, OpCmdCb
<1>2. CASE SentHome(w, q)
  <2>1. /\ win[w] \in WinType /\ net[w] \in SUBSET Request
        /\ Chain(win[w], net[w], Len(started))
    BY DEF TypeOK, ChainInv
  <2>2. Chain(win[w], net[w] \ {q}, Len(started))
    BY <2>1, ChainLess, FreshType
  <2>3. net'[w] = net[w] \ {q} /\ \A v \in Window \ {w} : net'[v] = net[v]
    BY <1>2, DoneType DEF SentHome
  <2> QED
    BY <1>2, <2>2, <2>3, ChainSame DEF SentHome
<1> QED
  BY <1>1, <1>2, ChainTreeAnswer, ChainHostAnswer, ChainOpCmdCb

\* Every action keeps every window's chains.
LEMMA NextChain == TypeOK /\ ChainInv /\ [Next]_vars => ChainInv'
<1> SUFFICES ASSUME TypeOK, ChainInv, [Next]_vars
             PROVE  ChainInv'
  OBVIOUS
<1>1. CASE UNCHANGED <<win, net, started>>
  BY <1>1 DEF ChainInv
<1>2. ASSUME NEW w \in Window, WindowStep(w)
      PROVE  ChainInv'
  <2>1. CASE Entered(w) \/ Visit(w) \/ ShellStep(w)
    <3>1. UNCHANGED <<win, net, started>>
      BY <2>1 DEF Entered, Visit, ShellStep, console
    <3> QED
      BY <1>1, <3>1
  <2>2. CASE OnReady(w) \/ Task(w)
    BY <2>2, ChainOnReady, ChainTask
  <2>3. CASE UserStep(w)
    BY <2>3, ChainTabClick, ChainNodeClick, ChainRunClick, ChainButtons DEF UserStep
  <2>4. CASE \E q \in net[w] : Serve(w, q) \/ Lose(w, q) \/ Deliver(w, q)
    BY <2>4, ChainServe, ChainDeliver
  <2> QED
    BY <1>2, <2>1, <2>2, <2>3, <2>4 DEF WindowStep, Served, Delivered
<1>3. CASE \E u \in User : Ended(u)
  BY <1>1, <1>3 DEF Ended
<1>4. CASE UNCHANGED vars
  BY <1>1, <1>4 DEF vars, console
<1> QED
  BY <1>1, <1>2, <1>3, <1>4 DEF Next

LEMMA InitChain == Init => ChainInv
BY BlankType, ChainEmpty DEF Init, ChainInv

\* TypeOK alone is not inductive: a window may only poll if an answer said for what.
LEMMA TypedChains == Spec => [](TypeOK /\ ChainInv)
<1>1. Init => TypeOK /\ ChainInv
  BY InitType, InitChain
<1>2. TypeOK /\ ChainInv /\ [Next]_vars => TypeOK' /\ ChainInv'
  BY NextType, NextChain, ChainHolds
<1> QED
  BY <1>1, <1>2, PTL DEF Spec

\* The windows' states, the requests of each with what their callbacks hold and the
\* answers made, the commands the server pages and the cookies stay within their types,
\* whatever the callbacks of vyatta-cli-command.js do to m_segmentId and the panel.
THEOREM TypeInvariant == Spec => []TypeOK
BY TypedChains, PTL

\* f_startSegmentCommand, f_sendOperCliCommand and their callbacks never let a command
\* have two requests in flight, nor one in flight and its next poll to be sent, in any
\* number of windows, of users and of commands.
THEOREM OneChainTheorem == Spec => []OneChain
BY TypedChains, ChainHolds, PTL

----------------------------------------------------------------------------
(* The cookies *)

\* UserLogout drops the id; a login that succeeds writes id and name at once, one that
\* is refused clears the id; the name that expires is written by no one else.
LEMMA NextCookies == CookiesAgree /\ [Next]_vars => CookiesAgree'
<1> SUFFICES ASSUME CookiesAgree, [Next]_vars
             PROVE  CookiesAgree'
  OBVIOUS
<1>1. CASE UNCHANGED cookies
  BY <1>1 DEF cookies, CookiesAgree
<1>2. ASSUME NEW w \in Window, UserLogout(w) \/ Authenticated(w) \/ Refused(w)
      PROVE  CookiesAgree'
  BY <1>2 DEF UserLogout, Authenticated, Refused, CookiesAgree
<1>3. ASSUME NEW w \in Window, WindowStep(w)
      PROVE  CookiesAgree'
  <2>1. CASE OnReady(w)
    BY <1>1, <2>1 DEF OnReady, CookiesAgree
  <2>2. CASE Task(w) \/ UserStep(w)
    <3>1. UNCHANGED cookies
      BY <2>2, Zenon DEF Task, UserStep, TabClick, NodeClick, RunClick, StopClick, PauseClick,
                         FilesClick, shell
    <3> QED
      BY <1>1, <3>1
  <2>3. CASE Entered(w)
    BY <1>2, <2>3 DEF Entered
  <2>4. CASE Visit(w)
    BY <1>1, <2>4 DEF Visit, Login, Reload
  <2>5. CASE ShellStep(w)
    <3>1. CASE LoginRoot(w) \/ LoginLost(w) \/ Dismiss(w) \/ Reload(w)
      BY <1>1, <3>1 DEF LoginRoot, LoginLost, Dismiss, Reload
    <3>2. CASE HandleLogout(w) \/ LogoutYes(w) \/ Refused(w)
      BY <1>1, <1>2, <3>2 DEF HandleLogout, LogoutYes, cookies
    <3>3. CASE RebootYes(w)
      BY <3>3 DEF RebootYes, CookiesAgree
    <3> QED
      BY <2>5, <3>1, <3>2, <3>3 DEF ShellStep
  <2>6. ASSUME NEW q \in net[w], Serve(w, q) \/ Lose(w, q)
        PROVE  CookiesAgree'
    BY <1>1, <2>6 DEF Serve, Lose, shell
  <2>7. ASSUME NEW q \in net[w], Deliver(w, q)
        PROVE  CookiesAgree'
    <3>1. \/ TreeAnswer(w, q) \/ HostAnswer(w, q) \/ SentHome(w, q)
          \/ LostAnswer(w, q) \/ IgnoredAnswer(w, q) \/ FilesAnswer(w, q) \/ RunAnswer(w, q)
      BY <2>7 DEF Deliver, OpCmdCb
    <3>2. UNCHANGED cookies \/ UserLogout(w)
      BY <3>1 DEF TreeAnswer, HostAnswer, SentHome, LostAnswer, IgnoredAnswer, FilesAnswer,
                  RunAnswer, shell
    <3> QED
      BY <1>1, <1>2, <3>2
  <2> QED
    BY <1>3, <2>1, <2>2, <2>3, <2>4, <2>5, <2>6, <2>7 DEF WindowStep, Served, Delivered
<1>4. CASE \E u \in User : Ended(u)
  BY <1>1, <1>4 DEF Ended, SessionEnds
<1>5. CASE CookiesExpire
  BY <1>5 DEF CookiesExpire, CookiesAgree
<1>6. CASE UNCHANGED vars
  BY <1>1, <1>6 DEF vars, shell
<1> QED
  BY <1>3, <1>4, <1>5, <1>6 DEF Next

\* However many windows log in, fail to, log out, are sent home and outlive their
\* cookies, a page never shows the name of a user but that of its session (f_loginHandler,
\* f_userLogout).
THEOREM CookiesAgreeTheorem == Spec => []CookiesAgree
<1>1. Init => CookiesAgree
  BY DEF Init, ShellInit, CookiesAgree
<1> QED
  BY <1>1, NextCookies, PTL DEF Spec

----------------------------------------------------------------------------
(* Each window shows its own output *)

\* What a command of S is, to a window in state s with the box b: a command of the button
\* is of the node shown, and the user is kept from the page while files are listed.
Its(S, s, b, k, r) ==
  /\ r \in 1 .. Len(S)
  /\ \/ k = "host" /\ S[r] = "host"
     \/ k = "files" /\ S[r] = "files" /\ b = "wait"
     \/ k = "btn" /\ S[r] = s.node /\ s.tab = "oper"

\* The session of id i pages command r, of those c, or none.
Paged(c, i, r) == i \in User => c[i].run \in {0, r}

\* A request q in flight has its own command's output, and gets no other's.
Asks(S, s, b, c, i, q) ==
  /\ s.seg # "next"
  /\ Its(S, s, b, q.for, q.run) /\ i \in {q.sid, None} /\ q.out \in {0, q.run}
  /\ q.op = "poll" \/ q.seg = "next" => Paged(c, q.sid, q.run)

Follows(S, s, b, c, i) ==
  s.seg = "next" => Its(S, s, b, s.for, s.run) /\ s.for # "host" /\ Paged(c, i, s.run)

Shows(S, s) ==
  /\ s.tab = "oper" => s.built
  /\ s.text \union s.offered \union s.list \subseteq 1 .. Len(S)
  /\ \A r \in s.text : S[r] = s.node
  /\ \A r \in s.offered \union s.list : S[r] = "files"
  /\ s.host # 0 => s.host \in 1 .. Len(S) /\ S[s.host] = "host"

\* Of a window in state s, with the commands N in flight
Own(S, s, b, c, i, N) ==
  /\ Shows(S, s) /\ Follows(S, s, b, c, i)
  /\ \A q \in N : Asks(S, s, b, c, i, q) /\ \A p \in N : p = q

OwnAt(w) == page[w] = "main" => Own(started, win[w], box[w], cur, idC, Commands(w))

\* While nothing overlaps one window has commands of its session, and one only.
OwnInv ==
  mixed = 0 => /\ \A v, w \in Window : Live(v) /\ Live(w) => v = w
               /\ \A w \in Window : OwnAt(w)

LEMMA OwnHolds == OwnInv => OwnOutput
BY DEF OwnInv, OwnAt, Own, Shows, OwnOutput

Extends(S, T) == 1 .. Len(S) \subseteq 1 .. Len(T) /\ \A r \in 1 .. Len(S) : T[r] = S[r]

\* What a window's state shows and is of, whatever becomes of m_segmentId
Same(s, t) ==
  /\ t.tab = s.tab /\ t.node = s.node /\ t.built = s.built /\ t.host = s.host
  /\ t.text = s.text /\ t.offered = s.offered /\ t.list = s.list

\* The session pages the same, or nothing any more.
Fewer(c, i, d, j) == j \in {i, None} /\ \A u \in User : d[u].run \in {0, c[u].run}

LEMMA ShowsSame ==
  ASSUME NEW S, NEW T, NEW s, NEW t, Extends(S, T), Same(s, t), Shows(S, s)
  PROVE  Shows(T, t)
BY DEF Extends, Same, Shows

LEMMA ItsSame ==
  ASSUME NEW S, NEW T, NEW s, NEW t, NEW b, NEW a, NEW k, NEW r,
         Extends(S, T), t.tab = s.tab, t.node = s.node, a = b \/ b # "wait", Its(S, s, b, k, r)
  PROVE  Its(T, t, a, k, r)
BY DEF Extends, Its

LEMMA PagedFewer ==
  ASSUME NEW c, NEW d, NEW i, NEW j, NEW r, Fewer(c, i, d, j)
  PROVE  /\ Paged(c, i, r) => Paged(d, j, r)
         /\ \A u : Paged(c, u, r) => Paged(d, u, r)
BY UserOK DEF Fewer, Paged

\* No command of the window is in flight or to be polled: only what it shows matters.
LEMMA OwnQuiet ==
  ASSUME NEW S, NEW s, NEW b, NEW c, NEW i, NEW N, Shows(S, s), N = {}, s.seg # "next"
  PROVE  Own(S, s, b, c, i, N)
BY DEF Own, Follows

\* A step that leaves a window's commands alone.
LEMMA OwnStill ==
  ASSUME NEW S, NEW T, NEW s, NEW b, NEW a, NEW c, NEW d, NEW i, NEW j, NEW N,
         Own(S, s, b, c, i, N), Extends(S, T),
         \/ N = {} /\ s.seg # "next"
         \/ (a = b \/ b # "wait") /\ Fewer(c, i, d, j)
  PROVE  Own(T, s, a, d, j, N)
<1>1. Shows(T, s)
  BY ShowsSame DEF Own, Same
<1>2. CASE N = {} /\ s.seg # "next"
  BY <1>1, <1>2, OwnQuiet
<1>3. CASE (a = b \/ b # "wait") /\ Fewer(c, i, d, j)
  <2>1. Follows(T, s, a, d, j)
    BY <1>3, ItsSame, PagedFewer DEF Own, Follows
  <2>2. ASSUME NEW q \in N PROVE Asks(T, s, a, d, j, q)
    BY <1>3, ItsSame, PagedFewer DEF Own, Asks, Fewer
  <2> QED
    BY <1>1, <2>1, <2>2 DEF Own
<1> QED
  BY <1>2, <1>3

LEMMA OwnInitially == Init => OwnInv
<1> SUFFICES ASSUME Init
             PROVE  OwnInv
  OBVIOUS
<1>1. ASSUME NEW w \in Window PROVE page[w] # "main"
  BY DEF Init, ShellInit
<1> QED
  BY <1>1 DEF OwnInv, OwnAt, Live

\* The other windows, as the step of one leaves them
Others(w) == \A v \in Window \ {w} : /\ page'[v] = page[v] /\ box'[v] = box[v]
                                     /\ win'[v] = win[v] /\ net'[v] = net[v]
Alone(w)  == \A v \in Window \ {w} : ~Live(v)

LEMMA OwnStep ==
  ASSUME OwnInv, NEW w \in Window, Others(w), Extends(started, started'),
         mixed' = 0 => /\ mixed = 0 /\ OwnAt(w)'
                       /\ \/ Alone(w)
                          \/ Fewer(cur, idC, cur', idC') /\ (Live(w)' => Live(w))
  PROVE  OwnInv'
<1> SUFFICES ASSUME mixed' = 0
             PROVE  /\ \A u, v \in Window : Live(u)' /\ Live(v)' => u = v
                    /\ \A v \in Window : OwnAt(v)'
  BY DEF OwnInv
<1>1. ASSUME NEW v \in Window \ {w} PROVE Live(v)' <=> Live(v)
  BY <1>1 DEF Others, Live, Commands
<1>2. ASSUME NEW v \in Window \ {w} PROVE OwnAt(v)'
  <2>1. SUFFICES ASSUME page[v] = "main"
                 PROVE  Own(started', win[v], box[v], cur', idC', Commands(v))
    BY <1>2 DEF OwnAt, Others, Commands
  <2>2. Own(started, win[v], box[v], cur, idC, Commands(v))
    BY <1>2, <2>1 DEF OwnInv, OwnAt
  <2>3. Alone(w) => Commands(v) = {} /\ win[v].seg # "next"
    BY <1>2, <2>1 DEF Alone, Live
  <2>4. CASE Alone(w)
    BY <2>2, <2>3, <2>4, OwnStill
  <2>5. CASE Fewer(cur, idC, cur', idC')
    BY <2>2, <2>5, OwnStill
  <2> QED
    BY <2>4, <2>5
<1>3. \A u, v \in Window : Live(u)' /\ Live(v)' => u = v
  BY <1>1 DEF OwnInv, Alone
<1> QED
  BY <1>2, <1>3

LEMMA SameStarted == Extends(started, started)
BY DEF Extends

LEMMA AppendExtends ==
  ASSUME TypeOK, NEW c, c \in Command \union {"files", "host"}, Fresh <= MaxRuns,
         started' = Append(started, c)
  PROVE  /\ Extends(started, started') /\ Fresh \in 1 .. Len(started') /\ started'[Fresh] = c
<1>1. /\ started \in Seq(Command \union {"files", "host"}) /\ Len(started) \in Nat
      /\ Fresh = Len(started) + 1
  BY FreshType DEF TypeOK
<1> QED
  BY <1>1 DEF Extends

LEMMA StartHostExtends ==
  ASSUME TypeOK, NEW s, StartHost(s)
  PROVE  /\ Extends(started, started')
         /\ s.host = 0 => Fresh \in 1 .. Len(started') /\ started'[Fresh] = "host"
BY SameStarted, AppendExtends DEF StartHost

LEMMA ShowOthers ==
  ASSUME TypeOK, NEW w \in Window, NEW b, Show(w, b) \/ UNCHANGED box
  PROVE  \A v \in Window \ {w} : box'[v] = box[v]
BY DEF TypeOK, ShellTypeOK, Show

\* While nothing overlaps, a click comes when the window and all others are quiet.
LEMMA ClickQuiet ==
  ASSUME TypeOK, OwnInv, NEW w \in Window, Click(w), mixed' = 0
  PROVE  /\ mixed = 0 /\ Commands(w) = {} /\ Alone(w)
         /\ page[w] = "main" /\ box[w] = "none"
         /\ Own(started, win[w], box[w], cur, idC, {})
         /\ win[w].seg = "next" => win[w].tab = "oper" /\ win[w].built
<1>1. mixed = 0 /\ ~Busy(w) /\ page[w] = "main" /\ box[w] = "none"
  BY Bounds DEF Click, Mix, Idle, TypeOK
<1>2. Commands(w) = {} /\ Alone(w)
  BY <1>1 DEF Busy, Alone
<1>3. Own(started, win[w], box[w], cur, idC, {})
  BY <1>1, <1>2 DEF OwnInv, OwnAt
<1>4. win[w].seg = "next" => win[w].tab = "oper" /\ win[w].built
  BY <1>1, <1>3 DEF Own, Follows, Its, Shows
<1> QED
  BY <1>1, <1>2, <1>3, <1>4

\* A click that starts nothing in a window where nothing goes on
LEMMA OwnClick ==
  ASSUME TypeOK, OwnInv, NEW w \in Window, Click(w), Others(w), Extends(started, started'),
         page' = page,
         mixed' = 0 => Commands(w)' = {} /\ win'[w].seg # "next" /\ Shows(started', win'[w])
  PROVE  OwnInv'
<1>1. mixed' = 0 => mixed = 0 /\ Alone(w) /\ OwnAt(w)'
  BY ClickQuiet, OwnQuiet DEF OwnAt
<1> QED
  BY <1>1, OwnStep

\* One command is started, and asks for what it is.
LEMMA OwnStart ==
  ASSUME NEW S, NEW s, NEW b, NEW c, NEW k, Shows(S, s), s.seg # "next",
         Its(S, s, b, k, Fresh)
  PROVE  Own(S, s, b, c, idC, {New("start", Fresh, k)})
BY DEF Own, Follows, Asks, New

\* The clicks

LEMMA ShownShows ==
  ASSUME NEW S, NEW T, Extends(S, T), NEW s \in WinType, NEW t \in {"conf", "oper"}, Shows(S, s),
         s.seg = "next" => s.tab = "oper" /\ s.built
  PROVE  /\ Shows(T, Shown(s, t)) /\ Shown(s, t).seg # "next"
         /\ Shows(T, [Shown(s, t) EXCEPT !.denied = TRUE])
         /\ [Shown(s, t) EXCEPT !.denied = TRUE].seg # "next"
<1> DEFINE a == Shown(s, t)
           d == [a EXCEPT !.denied = TRUE]
<1>1. a \in WinType
  BY ShownType
<1>2. /\ a.tab = t /\ a.node = s.node /\ a.host = s.host
      /\ a.text = s.text /\ a.offered = s.offered /\ a.list = s.list
      /\ t = "oper" => a.built
      /\ a.seg # "next"
  BY DEF Shown, WinType
<1> HIDE DEF a
<1>3. Same(a, d) /\ d.seg = a.seg
  BY <1>1 DEF Same, WinType
<1>4. Shows(T, a)
  BY <1>2 DEF Shows, Extends
<1>5. Extends(T, T)
  BY DEF Extends
<1>6. Shows(T, d)
  BY <1>3, <1>4, <1>5, ShowsSame
<1> QED
  BY <1>2, <1>3, <1>4, <1>6 DEF a

\* The tab is shown, with the host name's command or none; a tree is no command.
LEMMA OwnShown ==
  ASSUME TypeOK, NEW w \in Window, NEW t \in {"conf", "oper"}, NEW s, NEW K, NEW b,
         Commands(w) = {}, StartHost(win[w]), K \subseteq net[w],
         net'[w] = (K \union AskHost(win[w])) \union AskTree(win[w], t),
         Shows(started', s), s.seg # "next", UNCHANGED idC
  PROVE  Own(started', s, b, cur', idC', Commands(w)')
<1>1. \A q \in AskTree(win[w], t) : q.op = "tree"
  BY AskTreeType
<1>2. \A q \in K : q.op = "tree"
  BY DEF Commands
<1>3. Commands(w)' = {q \in AskHost(win[w]) : q.op # "tree"}
  BY <1>1, <1>2 DEF Commands
<1>4. CASE win[w].host = 0
  <2>1. Its(started', s, b, "host", Fresh)
    BY <1>4, StartHostExtends DEF Its
  <2>2. Own(started', s, b, cur', idC, {New("start", Fresh, "host")})
    BY <2>1, OwnStart
  <2>3. AskHost(win[w]) = {New("start", Fresh, "host")} /\ New("start", Fresh, "host").op = "start"
    BY <1>4 DEF AskHost, New
  <2>4. Commands(w)' = {New("start", Fresh, "host")}
    BY <1>3, <2>3
  <2> QED
    BY <2>2, <2>4
<1>5. CASE win[w].host # 0
  BY <1>3, <1>5, OwnQuiet DEF AskHost
<1> QED
  BY <1>4, <1>5

LEMMA OwnTabClick ==
  ASSUME TypeOK, OwnInv, NEW w \in Window, NEW t \in {"conf", "oper"}, TabClick(w, t)
  PROVE  OwnInv'
<1>1. Click(w) /\ UNCHANGED <<idC, page, cur>>
  BY DEF TabClick, cookies
<1>2. win[w] \in WinType /\ net[w] \in SUBSET Request
  BY DEF TypeOK
<1>3. CASE Show(w, "alert") /\ UNCHANGED <<win, net, started>>
  <2>1. Others(w) /\ Extends(started, started')
    BY <1>1, <1>3, ShowOthers, SameStarted DEF Others
  <2>2. mixed' = 0 => Own(started, win[w], box[w], cur, idC, {}) /\ box[w] # "wait"
    BY <1>1, ClickQuiet
  <2>3. mixed' = 0 => Own(started, win[w], box'[w], cur, idC, {})
    BY <2>2, SameStarted, OwnStill DEF Fewer, TypeOK
  <2>4. mixed' = 0 => OwnAt(w)' /\ mixed = 0 /\ Alone(w)
    <3>1. Commands(w)' = Commands(w)
      BY <1>3 DEF Commands
    <3> QED
      BY <1>1, <1>3, <2>3, <3>1, ClickQuiet DEF OwnAt
  <2> QED
    BY <2>1, <2>4, OwnStep
<1>4. CASE /\ StartHost(win[w]) /\ Send(w, AskHost(win[w]) \union AskTree(win[w], t))
           /\ Set(w, Shown(win[w], t)) /\ UNCHANGED box
  <2>1. /\ Shown(win[w], t) \in WinType
        /\ AskHost(win[w]) \union AskTree(win[w], t) \in SUBSET Request
    BY <1>2, <1>4, ShownType, AskHostType, AskTreeType
  <2>2. win'[w] = Shown(win[w], t) /\ \A v \in Window \ {w} : win'[v] = win[v]
    BY <1>4, <2>1, PutWin
  <2>3. /\ net'[w] = (net[w] \union AskHost(win[w])) \union AskTree(win[w], t)
        /\ \A v \in Window \ {w} : net'[v] = net[v]
    BY <1>4, <2>1, SendType
  <2>4. Others(w) /\ Extends(started, started')
    BY <1>1, <1>4, <2>2, <2>3, StartHostExtends DEF Others
  <2>5. ASSUME mixed' = 0 PROVE mixed = 0 /\ Alone(w) /\ OwnAt(w)'
    <3>1. /\ mixed = 0 /\ Alone(w) /\ Commands(w) = {} /\ Shows(started, win[w])
          /\ win[w].seg = "next" => win[w].tab = "oper" /\ win[w].built
      BY <1>1, <2>5, ClickQuiet DEF Own
    <3>2. Shows(started', Shown(win[w], t)) /\ Shown(win[w], t).seg # "next"
      BY <1>2, <2>4, <3>1, ShownShows
    <3>3. Own(started', Shown(win[w], t), box'[w], cur', idC', Commands(w)')
      BY <1>1, <1>4, <2>3, <3>1, <3>2, OwnShown
    <3> QED
      BY <2>2, <3>1, <3>3 DEF OwnAt
  <2> QED
    BY <2>4, <2>5, OwnStep
<1> QED
  BY <1>3, <1>4 DEF TabClick

LEMMA OwnNodeClick ==
  ASSUME TypeOK, OwnInv, NEW w \in Window, NEW n \in Command \union {Reboot, None},
         NodeClick(w, n)
  PROVE  OwnInv'
<1>1. Click(w) /\ UNCHANGED <<page, box, started>>
  BY DEF NodeClick, shell
<1> DEFINE t == Panel(win[w], n)
           s == [t EXCEPT !.seg = "null", !.run = 0]
<1>2. t \in WinType
  BY PanelType DEF TypeOK
<1>3. /\ t.tab = win[w].tab /\ t.built = win[w].built /\ t.host = win[w].host
      /\ t.text = {} /\ t.offered = win[w].offered /\ t.list = win[w].list
  BY DEF Panel, TypeOK, WinType
<1>4. Set(w, s)
  BY DEF NodeClick
<1> HIDE DEF t
<1>5. s \in WinType /\ s.seg = "null" /\ Same(t, s)
  <2>1. Same(t, s)
    BY <1>2 DEF Same, WinType
  <2> QED
    BY <1>2, <2>1, SegType, Zero
<1> HIDE DEF s
<1>6. win'[w] = s /\ \A v \in Window \ {w} : win'[v] = win[v]
  BY <1>4, <1>5, PutWin
<1>7. net'[w] = Forget(w) /\ \A v \in Window \ {w} : net'[v] = net[v]
  BY ForgetType, PutNet DEF NodeClick
<1>8. Others(w) /\ Extends(started, started')
  BY <1>1, <1>6, <1>7, SameStarted DEF Others
<1>9. ASSUME mixed' = 0 PROVE Commands(w)' = {} /\ Shows(started', win'[w])
  <2>1. Commands(w) = {} /\ Shows(started, win[w])
    BY <1>1, <1>9, ClickQuiet DEF Own
  <2>2. \A q \in net[w] : [q EXCEPT !.for = IF @ = "btn" THEN "old" ELSE @].op = "tree"
    BY <2>1, OldType DEF Commands, TypeOK
  <2>3. Commands(w)' = {}
    BY <1>7, <2>2 DEF Commands, Forget
  <2>4. Shows(started, t)
    BY <1>3, <2>1 DEF Shows
  <2> QED
    BY <1>1, <1>5, <1>6, <2>3, <2>4, SameStarted, ShowsSame
<1> QED
  BY <1>1, <1>5, <1>6, <1>8, <1>9, OwnClick

LEMMA OwnButtons ==
  ASSUME TypeOK, OwnInv, NEW w \in Window, StopClick(w) \/ PauseClick(w)
  PROVE  OwnInv'
<1>1. Click(w) /\ UNCHANGED <<page, box, started, net, cur, idC>>
  BY DEF StopClick, PauseClick, shell, cookies
<1>2. win[w] \in WinType
  BY DEF TypeOK
<1>3. Commands(w)' = Commands(w)
  BY <1>1 DEF Commands
<1>4. CASE StopClick(w)
  <2> DEFINE s == [win[w] EXCEPT !.label = "Run", !.seg = "stop", !.run = 0]
  <2>1. s \in WinType /\ s.seg = "stop" /\ Same(win[w], s)
    BY <1>2, Zero DEF WinType, Same
  <2>2. Set(w, s)
    BY <1>4 DEF StopClick
  <2> HIDE DEF s
  <2>3. win'[w] = s /\ \A v \in Window \ {w} : win'[v] = win[v]
    BY <2>1, <2>2, PutWin
  <2>4. mixed' = 0 => Commands(w)' = {} /\ Shows(started', win'[w])
    BY <1>1, <1>3, <2>1, <2>3, ClickQuiet, SameStarted, ShowsSame DEF Own
  <2> QED
    BY <1>1, <2>1, <2>3, <2>4, SameStarted, OwnClick DEF Others
<1>5. CASE PauseClick(w)
  <2> DEFINE s == [win[w] EXCEPT !.paused = ~@]
  <2>1. /\ s \in WinType /\ Same(win[w], s)
        /\ s.seg = win[w].seg /\ s.run = win[w].run /\ s.for = win[w].for
    BY <1>2 DEF WinType, Same
  <2>2. Set(w, s)
    BY <1>5 DEF PauseClick
  <2> HIDE DEF s
  <2>3. win'[w] = s /\ \A v \in Window \ {w} : win'[v] = win[v]
    BY <2>1, <2>2, PutWin
  <2>4. ASSUME mixed' = 0 PROVE mixed = 0 /\ Alone(w) /\ OwnAt(w)'
    <3>1. /\ mixed = 0 /\ Alone(w) /\ Commands(w) = {}
          /\ Own(started, win[w], box[w], cur, idC, {})
      BY <1>1, <2>4, ClickQuiet
    <3>2. Shows(started, s)
      BY <2>1, <3>1, SameStarted, ShowsSame DEF Own
    <3>3. Follows(started, s, box[w], cur, idC)
      BY <2>1, <3>1 DEF Own, Follows, Its, Same
    <3>4. Own(started, s, box[w], cur, idC, {})
      BY <3>2, <3>3 DEF Own
    <3> QED
      BY <1>1, <1>3, <2>3, <3>1, <3>4 DEF OwnAt
  <2> QED
    BY <1>1, <2>3, <2>4, SameStarted, OwnStep DEF Others
<1> QED
  BY <1>4, <1>5

LEMMA OwnRunClick ==
  ASSUME TypeOK, OwnInv, NEW w \in Window, RunClick(w) \/ FilesClick(w)
  PROVE  OwnInv'
<1>1. Click(w) /\ UNCHANGED <<page, cur, idC>>
  BY DEF RunClick, FilesClick, cookies
<1>2. win[w] \in WinType /\ net[w] \in SUBSET Request
  BY DEF TypeOK
<1>3. CASE UNCHANGED <<win, net, started>> /\ (Show(w, "alert") \/ Show(w, "reboot?"))
  <2>1. Others(w)
    BY <1>1, <1>3, ShowOthers DEF Others
  <2>2. mixed' = 0 => Own(started, win[w], box[w], cur, idC, {}) /\ box[w] # "wait"
    BY <1>1, ClickQuiet
  <2>3. mixed' = 0 => Own(started, win[w], box'[w], cur, idC, {})
    BY <2>2, SameStarted, OwnStill DEF Fewer, TypeOK
  <2>4. Commands(w)' = Commands(w)
    BY <1>3 DEF Commands
  <2>5. mixed' = 0 => OwnAt(w)' /\ mixed = 0 /\ Alone(w)
    BY <1>1, <1>3, <2>3, <2>4, ClickQuiet DEF OwnAt
  <2> QED
    BY <1>3, <2>1, <2>5, SameStarted, OwnStep
<1>4. ASSUME NEW k \in {"btn", "files"}, NEW c \in Command \union {"files", "host"},
             NEW s \in WinType, Show(w, "wait"),
             Fresh <= MaxRuns, started' = Append(started, c),
             Send(w, {New("start", Fresh, k)}), Set(w, s),
             mixed' = 0 => /\ Shows(started, s) /\ s.seg # "next"
                           /\ k = "btn" => c = s.node /\ s.tab = "oper"
                           /\ k = "files" => c = "files"
      PROVE  OwnInv'
  <2> DEFINE p == New("start", Fresh, k)
  <2>1. Fresh \in 0 .. MaxRuns
    BY <1>4, AppendType
  <2>2. p \in Request /\ p.op = "start"
    BY <2>1, <1>4, NewType DEF TypeOK, ShellTypeOK, Kind
  <2>3. net'[w] = net[w] \union {p} /\ \A v \in Window \ {w} : net'[v] = net[v]
    BY <1>4, <2>2, SendType
  <2> HIDE DEF p
  <2>4. win'[w] = s /\ \A v \in Window \ {w} : win'[v] = win[v]
    BY <1>4, PutWin
  <2>5. /\ Extends(started, started') /\ Fresh \in 1 .. Len(started')
        /\ started'[Fresh] = c
    BY <1>4, AppendExtends
  <2>6. Others(w)
    BY <1>1, <1>4, <2>3, <2>4, ShowOthers DEF Others
  <2>7. ASSUME mixed' = 0 PROVE mixed = 0 /\ Alone(w) /\ OwnAt(w)'
    <3>1. mixed = 0 /\ Alone(w) /\ Commands(w) = {}
      BY <1>1, <2>7, ClickQuiet
    <3>2. Commands(w)' = {p}
      BY <2>2, <2>3, <3>1 DEF Commands
    <3>3. box'[w] = "wait"
      BY <1>4 DEF Show, TypeOK, ShellTypeOK
    <3>4. Its(started', s, "wait", k, Fresh)
      BY <1>4, <2>5, <2>7 DEF Its
    <3>5. Shows(started', s)
      BY <1>4, <2>5, <2>7, ShowsSame DEF Same
    <3>6. Own(started', s, "wait", cur', idC, {p})
      BY <1>4, <2>7, <3>4, <3>5, OwnStart DEF p
    <3> QED
      BY <1>1, <2>4, <3>1, <3>2, <3>3, <3>6 DEF OwnAt
  <2> QED
    BY <2>5, <2>6, <2>7, OwnStep
<1>5. CASE FilesClick(w)
  <2> DEFINE s == [win[w] EXCEPT !.list = {}]
  <2>1. /\ s \in WinType /\ s.seg = win[w].seg
        /\ s.tab = win[w].tab /\ s.node = win[w].node /\ s.built = win[w].built
        /\ s.host = win[w].host /\ s.text = win[w].text /\ s.offered = win[w].offered
        /\ s.list = {}
    BY <1>2 DEF WinType
  <2>2. /\ Set(w, s) /\ Fresh <= MaxRuns /\ started' = Append(started, "files")
        /\ Send(w, {New("start", Fresh, "files")}) /\ Show(w, "wait") /\ win[w].tab = "conf"
    BY <1>5 DEF FilesClick
  <2> HIDE DEF s
  <2>3. mixed' = 0 => Shows(started, s) /\ s.seg # "next"
    BY <1>1, <2>1, <2>2, ClickQuiet DEF Own, Shows
  <2> QED
    BY <1>4, <2>1, <2>2, <2>3
<1>6. CASE RunClick(w) /\ ~UNCHANGED <<win, net, started>>
  <2> DEFINE s == [win[w] EXCEPT !.seg = "null", !.run = 0]
  <2>1. s \in WinType /\ s.seg = "null" /\ Same(win[w], s)
    <3>1. Same(win[w], s)
      BY <1>2 DEF Same, WinType
    <3> QED
      BY <1>2, <3>1, SegType, Zero
  <2>2. /\ Set(w, s) /\ Fresh <= MaxRuns /\ started' = Append(started, win[w].node)
        /\ win[w].node \in Command /\ Send(w, {New("start", Fresh, "btn")})
        /\ Show(w, "wait") /\ win[w].tab = "oper"
    BY <1>6 DEF RunClick
  <2> HIDE DEF s
  <2>3. mixed' = 0 => Shows(started, s)
    BY <1>1, <2>1, ClickQuiet, SameStarted, ShowsSame DEF Own
  <2>4. win[w].node = s.node /\ s.tab = "oper"
    BY <2>1, <2>2 DEF Same
  <2> QED
    BY <1>4, <2>1, <2>2, <2>3, <2>4
<1>7. CASE RunClick(w) /\ UNCHANGED <<win, net, started>>
  BY <1>3, <1>7, FreshType DEF RunClick, TypeOK
<1> QED
  BY <1>5, <1>6, <1>7

\* The page, the task and the server

\* A window that goes on by itself: if it has commands, no other window has.
LEMMA OwnWithin ==
  ASSUME OwnInv, NEW w \in Window, Others(w), UNCHANGED <<started, mixed>>, page[w] = "main",
         Live(w)' => Live(w), Live(w) \/ Fewer(cur, idC, cur', idC'),
         mixed = 0 /\ Own(started, win[w], box[w], cur, idC, Commands(w)) => OwnAt(w)'
  PROVE  OwnInv'
<1>1. mixed = 0 /\ Live(w) => Alone(w)
  BY DEF OwnInv, Alone
<1>2. mixed = 0 => OwnAt(w)'
  BY DEF OwnInv, OwnAt
<1> QED
  BY <1>1, <1>2, SameStarted, OwnStep

LEMMA OwnOnReady ==
  ASSUME TypeOK, OwnInv, NEW w \in Window, OnReady(w)
  PROVE  OwnInv'
<1>1. win'[w] = Blank /\ \A v \in Window \ {w} : win'[v] = win[v]
  BY BlankType, PutWin DEF OnReady
<1>2. \A v \in Window \ {w} : box'[v] = box[v]
  BY ShowOthers DEF OnReady
<1>3. CASE /\ \E p \in {"login", "rebooting"} : page' = [page EXCEPT ![w] = p]
           /\ net' = [net EXCEPT ![w] = {}] /\ UNCHANGED <<started, mixed, cur>>
           /\ idC' \in {idC, None}
  <2>1. Others(w) /\ page'[w] # "main"
    BY <1>1, <1>2, <1>3 DEF Others, TypeOK, ShellTypeOK
  <2>2. Fewer(cur, idC, cur', idC')
    BY <1>3 DEF Fewer, TypeOK
  <2>3. OwnAt(w)' /\ ~Live(w)'
    BY <2>1 DEF OwnAt, Live
  <2> QED
    BY <1>3, <2>1, <2>2, <2>3, SameStarted, OwnStep
<1>4. CASE /\ page' = [page EXCEPT ![w] = "main"] /\ StartHost(Blank)
           /\ net' = [net EXCEPT ![w] = AskHost(Blank) \union {New("tree", 0, "conf")}]
           /\ Mix(\E v \in Window \ {w} : Live(v)) /\ UNCHANGED idC
  <2>1. /\ net'[w] = AskHost(Blank) \union {New("tree", 0, "conf")}
        /\ \A v \in Window \ {w} : net'[v] = net[v]
    BY <1>4 DEF TypeOK
  <2>2. Others(w)
    BY <1>1, <1>2, <1>4, <2>1 DEF Others, TypeOK, ShellTypeOK
  <2>3. Extends(started, started') /\ Fresh \in 1 .. Len(started') /\ started'[Fresh] = "host"
    BY <1>4, StartHostExtends DEF Blank
  <2>4. Shows(started', Blank) /\ Blank.seg = "null"
    BY DEF Shows, Blank
  <2>5. Own(started', Blank, box'[w], cur', idC, {New("start", Fresh, "host")})
    BY <2>3, <2>4, OwnStart DEF Its
  <2>6. Commands(w)' = {New("start", Fresh, "host")}
    BY <2>1 DEF Commands, AskHost, New, Blank
  <2>7. OwnAt(w)'
    BY <1>1, <1>4, <2>5, <2>6 DEF OwnAt
  <2>8. mixed' = 0 => mixed = 0 /\ Alone(w)
    BY <1>4, Bounds DEF Mix, Alone, TypeOK
  <2> QED
    BY <2>2, <2>3, <2>7, <2>8, OwnStep
<1> QED
  BY <1>3, <1>4 DEF OnReady, cookies

LEMMA OwnTask ==
  ASSUME TypeOK, OwnInv, NEW w \in Window, Task(w)
  PROVE  OwnInv'
<1>1. /\ page[w] = "main" /\ UNCHANGED <<page, started, cur, mixed, idC>>
      /\ win[w] \in WinType /\ net[w] \in SUBSET Request
  BY DEF Task, TypeOK, cookies
<1>2. Fewer(cur, idC, cur', idC')
  BY <1>1 DEF Fewer, TypeOK
<1>3. CASE /\ Set(w, [win[w] EXCEPT !.seg = "null", !.run = 0, !.paused = FALSE])
           /\ UNCHANGED <<box, net>>
  <2> DEFINE s == [win[w] EXCEPT !.seg = "null", !.run = 0, !.paused = FALSE]
  <2>1. s \in WinType /\ s.seg = "null" /\ Same(win[w], s)
    BY <1>1, Zero DEF WinType, Same
  <2> HIDE DEF s
  <2>2. win'[w] = s /\ \A v \in Window \ {w} : win'[v] = win[v]
    BY <1>3, <2>1, PutWin DEF s
  <2>3. Others(w) /\ Commands(w)' = Commands(w)
    BY <1>1, <1>3, <2>2 DEF Others, Commands
  <2>4. Live(w)' => Live(w)
    BY <1>1, <2>1, <2>2, <2>3 DEF Live
  <2>5. ASSUME mixed = 0, Own(started, win[w], box[w], cur, idC, Commands(w))
        PROVE  OwnAt(w)'
    <3>1. Shows(started, s)
      BY <2>1, <2>5, SameStarted, ShowsSame DEF Own
    <3>2. Own(started, s, box[w], cur, idC, Commands(w))
      BY <2>1, <2>5, <3>1 DEF Own, Follows, Asks, Its, Same
    <3> QED
      BY <1>1, <1>3, <2>2, <2>3, <3>2 DEF OwnAt
  <2> QED
    BY <1>1, <1>2, <2>3, <2>4, <2>5, OwnWithin
<1>4. CASE /\ Send(w, {New("poll", win[w].run, win[w].for)}) /\ win[w].seg = "next"
           /\ Set(w, [win[w] EXCEPT !.seg = "null", !.run = 0]) /\ UNCHANGED box
  <2> DEFINE s == [win[w] EXCEPT !.seg = "null", !.run = 0]
             p == New("poll", win[w].run, win[w].for)
  <2>1. s \in WinType /\ s.seg = "null" /\ Same(win[w], s)
    <3>1. Same(win[w], s)
      BY <1>1 DEF Same, WinType
    <3> QED
      BY <1>1, <3>1, SegType, Zero
  <2>2. net'[w] = net[w] \union {p} /\ \A v \in Window \ {w} : net'[v] = net[v]
    BY <1>4 DEF Send, TypeOK
  <2>3. /\ p.op = "poll" /\ p.run = win[w].run /\ p.for = win[w].for /\ p.sid = idC
        /\ p.out = 0
    BY DEF New
  <2> HIDE DEF s, p
  <2>4. win'[w] = s /\ \A v \in Window \ {w} : win'[v] = win[v]
    BY <1>4, <2>1, PutWin DEF s
  <2>5. Others(w) /\ Live(w)
    BY <1>1, <1>4, <2>2, <2>4 DEF Others, Live
  <2>6. ASSUME mixed = 0, Own(started, win[w], box[w], cur, idC, Commands(w))
        PROVE  OwnAt(w)'
    <3>1. Commands(w)' = {p}
      <4>1. Commands(w) = {}
        BY <1>4, <2>6 DEF Own, Asks
      <4> QED
        BY <2>2, <2>3, <4>1 DEF Commands
    <3>2. Shows(started, s)
      BY <2>1, <2>6, SameStarted, ShowsSame DEF Own
    <3>3. /\ Its(started, win[w], box[w], win[w].for, win[w].run)
          /\ Paged(cur, idC, win[w].run)
      BY <1>4, <2>6 DEF Own, Follows
    <3>4. Asks(started, s, box[w], cur, idC, p)
      BY <2>1, <2>3, <3>3 DEF Asks, Its, Same
    <3>5. Own(started, s, box[w], cur, idC, {p})
      BY <2>1, <3>2, <3>4 DEF Own, Follows
    <3> QED
      BY <1>1, <1>4, <2>4, <3>1, <3>5 DEF OwnAt
  <2> QED
    BY <1>1, <1>2, <2>5, <2>6, OwnWithin
<1>5. CASE /\ win[w].seg = "next" /\ started[win[w].run] \in Valued
           /\ Show(w, "alert") /\ UNCHANGED <<win, net>>
  <2>1. Others(w) /\ Commands(w)' = Commands(w) /\ Live(w)
    BY <1>1, <1>5, ShowOthers DEF Others, Commands, Live
  <2>2. ASSUME mixed = 0, Own(started, win[w], box[w], cur, idC, Commands(w))
        PROVE  OwnAt(w)'
    <3>1. Commands(w) = {}
      BY <1>5, <2>2 DEF Own, Asks
    <3>2. Its(started, win[w], box[w], win[w].for, win[w].run) /\ win[w].for # "host"
      BY <1>5, <2>2 DEF Own, Follows
    <3>3. "files" \notin Valued
      BY ConsoleOK DEF ConsoleOK
    <3>4. Its(started, win[w], box'[w], win[w].for, win[w].run)
      BY <1>5, <3>2, <3>3 DEF Its
    <3>5. Own(started, win[w], box'[w], cur, idC, Commands(w))
      BY <2>2, <3>1, <3>4 DEF Own, Follows
    <3> QED
      BY <1>1, <1>5, <2>1, <3>5 DEF OwnAt
  <2> QED
    BY <1>1, <1>2, <2>1, <2>2, OwnWithin
<1> QED
  BY <1>3, <1>4, <1>5 DEF Task

\* A request answered with output o, while the session pages d.
LEMMA OwnAnswered ==
  ASSUME NEW S, NEW s, NEW b, NEW c, NEW d, NEW i, NEW N, NEW q \in N, NEW p,
         Own(S, s, b, c, i, N), p.op = q.op, p.run = q.run, p.for = q.for, p.sid = q.sid,
         p.out \in {0, q.run}, p.op = "poll" \/ p.seg = "next" => Paged(d, q.sid, q.run)
  PROVE  Own(S, s, b, d, i, {p})
BY DEF Own, Follows, Asks

\* The one request in flight is answered.
LEMMA OwnServed ==
  ASSUME TypeOK, OwnInv, NEW w \in Window, NEW q \in net[w], q.op # "tree", page[w] = "main",
         NEW code \in {"none", "ok", "error", "expired", "denied", "lost"},
         NEW g \in {"null", "next", "end"}, NEW o,
         Answer(w, q, code, g, o), UNCHANGED <<shell, win, started, mixed>>,
         mixed = 0 /\ Own(started, win[w], box[w], cur, idC, Commands(w)) =>
           /\ o \in {0, q.run}
           /\ q.op = "poll" \/ g = "next" => Paged(cur', q.sid, q.run)
  PROVE  OwnInv'
<1> DEFINE p == [q EXCEPT !.code = code, !.seg = g, !.out = o]
<1>1. q \in Request /\ q \in Commands(w)
  BY DEF TypeOK, Commands
<1>2. p.op = q.op /\ p.run = q.run /\ p.for = q.for /\ p.sid = q.sid /\ p.seg = g /\ p.out = o
  BY <1>1 DEF Request
<1>3. net'[w] = (net[w] \ {q}) \union {p} /\ \A v \in Window \ {w} : net'[v] = net[v]
  BY DEF Answer, TypeOK
<1> HIDE DEF p
<1>4. Others(w) /\ Live(w)
  BY <1>1, <1>3 DEF Others, shell, Live
<1>5. ASSUME mixed = 0, Own(started, win[w], box[w], cur, idC, Commands(w))
      PROVE  OwnAt(w)'
  <2>1. Commands(w) = {q}
    BY <1>1, <1>5 DEF Own
  <2>2. Commands(w)' = {p}
    BY <1>2, <1>3, <2>1 DEF Commands
  <2>3. Own(started, win[w], box[w], cur', idC, {p})
    BY <1>1, <1>2, <1>5, OwnAnswered
  <2> QED
    BY <2>2, <2>3 DEF OwnAt, shell, cookies
<1> QED
  BY <1>4, <1>5, OwnWithin

LEMMA OwnServe ==
  ASSUME TypeOK, OwnInv, NEW w \in Window, NEW q \in net[w], Serve(w, q)
  PROVE  OwnInv'
<1>1. /\ page[w] = "main" /\ q.op # "tree" /\ UNCHANGED <<shell, win, started, mixed>>
      /\ q \in Request /\ q \in Commands(w)
      /\ cur \in [User -> [run : 0 .. MaxRuns, left : 0 .. MaxPages]]
  BY DEF Serve, TypeOK, Commands
<1>2. Own(started, win[w], box[w], cur, idC, Commands(w)) =>
        /\ q.run \in Nat
        /\ q.op = "poll" \/ q.seg = "next" => Paged(cur, q.sid, q.run)
  BY <1>1, Bounds DEF Own, Asks, Request
<1>3. CASE /\ \/ q.sid \notin alive /\ Answer(w, q, "expired", "null", 0)
              \/ q.op = "start" /\ Answer(w, q, "error", "null", 0)
           /\ UNCHANGED cur
  BY <1>1, <1>2, <1>3, OwnServed
<1>4. CASE /\ q.sid \in alive /\ Answer(w, q, "ok", "next", 0)
           /\ cur' = [cur EXCEPT ![q.sid] = [run |-> q.run, left |-> MaxPages]]
  <2>1. Paged(cur', q.sid, q.run)
    BY <1>1, <1>4 DEF Paged
  <2> QED
    BY <1>1, <1>4, <2>1, OwnServed
<1>5. CASE q.sid \in alive /\ q.op = "poll" /\ Page(w, q)
  <2>1. q.sid \in User
    BY <1>5 DEF TypeOK, ShellTypeOK
  <2>2. Own(started, win[w], box[w], cur, idC, Commands(w)) => cur[q.sid].run \in {0, q.run}
    BY <1>2, <1>5, <2>1 DEF Paged
  <2>3. CASE Answer(w, q, "ok", "next", 0) /\ UNCHANGED cur
    BY <1>1, <1>2, <1>5, <2>3, OwnServed
  <2>4. CASE /\ Answer(w, q, "ok", "next", cur[q.sid].run)
             /\ cur' = [cur EXCEPT ![q.sid].left = @ - 1]
    <3>1. cur'[q.sid].run = cur[q.sid].run
      BY <1>1, <2>1, <2>4
    <3> QED
      BY <1>1, <2>2, <2>4, <3>1, OwnServed DEF Paged
  <2>5. CASE /\ Answer(w, q, "ok", "end", cur[q.sid].run)
             /\ cur' = [cur EXCEPT ![q.sid] = NoCommand]
    <3>1. cur'[q.sid].run = 0
      BY <1>1, <2>1, <2>5 DEF NoCommand
    <3> QED
      BY <1>1, <2>2, <2>5, <3>1, OwnServed DEF Paged
  <2> QED
    BY <1>5, <2>3, <2>4, <2>5 DEF Page
<1> QED
  BY <1>3, <1>4, <1>5 DEF Serve

\* A tree is no command: what becomes of one leaves the rest alone.
LEMMA OwnTree ==
  ASSUME TypeOK, OwnInv, NEW w \in Window, page[w] = "main", Commands(w)' = Commands(w),
         \A v \in Window \ {w} : net'[v] = net[v],
         UNCHANGED <<page, box, idC, win, started, cur, mixed>>
  PROVE  OwnInv'
<1>1. Fewer(cur, idC, cur', idC')
  BY DEF Fewer, TypeOK
<1> QED
  BY <1>1, OwnWithin DEF OwnAt, Live, Others

LEMMA OwnLose ==
  ASSUME TypeOK, OwnInv, NEW w \in Window, NEW q \in net[w], Lose(w, q)
  PROVE  OwnInv'
<1>1. /\ page[w] = "main" /\ Answer(w, q, "lost", "null", 0)
      /\ UNCHANGED <<shell, win, started, cur, mixed>> /\ q \in Request
  BY DEF Lose, TypeOK
<1>2. CASE q.op = "tree"
  <2> DEFINE p == [q EXCEPT !.code = "lost", !.seg = "null", !.out = 0]
  <2>1. p.op = "tree"
    BY <1>1, <1>2 DEF Request
  <2>2. net'[w] = (net[w] \ {q}) \union {p} /\ \A v \in Window \ {w} : net'[v] = net[v]
    BY <1>1 DEF Answer, TypeOK
  <2> HIDE DEF p
  <2>3. Commands(w)' = Commands(w)
    BY <1>2, <2>1, <2>2 DEF Commands
  <2> QED
    BY <1>1, <2>2, <2>3, OwnTree DEF shell, cookies
<1>3. CASE q.op # "tree"
  <2>1. ASSUME Own(started, win[w], box[w], cur, idC, Commands(w)), q.op = "poll"
        PROVE  Paged(cur', q.sid, q.run)
    BY <1>1, <1>3, <2>1 DEF Own, Asks, Commands
  <2> QED
    BY <1>1, <1>3, <2>1, OwnServed
<1> QED
  BY <1>2, <1>3

\* The callbacks

LEMMA OwnTreeAnswer ==
  ASSUME TypeOK, OwnInv, NEW w \in Window, NEW q \in net[w], page[w] = "main", q.op = "tree",
         TreeAnswer(w, q)
  PROVE  OwnInv'
<1>1. /\ UNCHANGED <<idC, page, cur, box>>
      /\ win[w] \in WinType /\ net[w] \in SUBSET Request
  BY DEF TreeAnswer, TypeOK, cookies
<1>2. CASE Done(w, q) /\ UNCHANGED <<box, win, started, mixed>>
  <2>1. net'[w] = net[w] \ {q} /\ \A v \in Window \ {w} : net'[v] = net[v]
    BY <1>2, DoneType
  <2>2. Commands(w)' = Commands(w)
    BY <2>1 DEF Commands
  <2> QED
    BY <1>1, <1>2, <2>1, <2>2, OwnTree
<1>3. CASE /\ StartHost(win[w])
           /\ net' = [net EXCEPT ![w] =
                        (@ \ {q}) \union AskHost(win[w]) \union AskTree(win[w], "oper")]
           /\ Set(w, [Shown(win[w], "oper") EXCEPT !.denied = TRUE])
           /\ Mix(\E v \in Window : Live(v))
  <2> DEFINE t == Shown(win[w], "oper")
             s == [t EXCEPT !.denied = TRUE]
  <2>1. t \in WinType
    BY <1>1, ShownType
  <2> HIDE DEF t
  <2>2. s \in WinType
    BY <2>1 DEF WinType
  <2>3. win'[w] = s /\ \A v \in Window \ {w} : win'[v] = win[v]
    BY <1>3, <2>2, PutWin DEF t
  <2>4. /\ net'[w] = ((net[w] \ {q}) \union AskHost(win[w])) \union AskTree(win[w], "oper")
        /\ \A v \in Window \ {w} : net'[v] = net[v]
    BY <1>3 DEF TypeOK
  <2>5. Others(w) /\ Extends(started, started')
    BY <1>1, <1>3, <2>3, <2>4, StartHostExtends DEF Others
  <2>6. ASSUME mixed' = 0 PROVE mixed = 0 /\ Alone(w) /\ OwnAt(w)'
    <3>1. mixed = 0 /\ \A v \in Window : ~Live(v)
      BY <1>3, <2>6, Bounds DEF Mix, TypeOK
    <3>2. Commands(w) = {} /\ win[w].seg # "next" /\ Shows(started, win[w])
      BY <3>1 DEF Live, OwnInv, OwnAt, Own
    <3>3. Shows(started', s) /\ s.seg # "next"
      BY <1>1, <2>5, <3>2, ShownShows DEF t
    <3>4. Own(started', s, box'[w], cur', idC', Commands(w)')
      BY <1>1, <1>3, <2>4, <3>2, <3>3, OwnShown
    <3> QED
      BY <2>3, <3>1, <3>4 DEF OwnAt, Alone
  <2> QED
    BY <2>5, <2>6, OwnStep
<1> QED
  BY <1>2, <1>3 DEF TreeAnswer

LEMMA AsksPaged ==
  ASSUME NEW S, NEW s, NEW b, NEW c, NEW i, NEW q, Asks(S, s, b, c, i, q), q.seg = "next"
  PROVE  Paged(c, i, q.run)
BY UserOK DEF Asks, Paged

\* The answer to the one request in flight is taken.
LEMMA OwnTaken ==
  ASSUME TypeOK, OwnInv, NEW w \in Window, NEW q \in net[w], q.op # "tree", page[w] = "main",
         Done(w, q), UNCHANGED <<page, idC, started, cur, mixed>>,
         \A v \in Window \ {w} : win'[v] = win[v] /\ box'[v] = box[v],
         Shows(started, win[w]) /\ Asks(started, win[w], box[w], cur, idC, q) =>
           Shows(started, win'[w]) /\ Follows(started, win'[w], box'[w], cur, idC)
  PROVE  OwnInv'
<1>1. net'[w] = net[w] \ {q} /\ \A v \in Window \ {w} : net'[v] = net[v]
  BY DoneType
<1>2. q \in Commands(w)
  BY DEF Commands
<1>3. Others(w) /\ Live(w)
  BY <1>1, <1>2 DEF Others, Live
<1>4. ASSUME Own(started, win[w], box[w], cur, idC, Commands(w)) PROVE OwnAt(w)'
  <2>1. Commands(w)' = {}
    BY <1>1, <1>2, <1>4 DEF Own, Commands
  <2>2. Shows(started, win'[w]) /\ Follows(started, win'[w], box'[w], cur, idC)
    BY <1>2, <1>4 DEF Own
  <2> QED
    BY <2>1, <2>2 DEF OwnAt, Own
<1> QED
  BY <1>3, <1>4, OwnWithin

LEMMA CutSame ==
  ASSUME TypeOK, NEW w \in Window, NEW s \in WinType, Cut(w, s)
  PROVE  Same(s, win'[w])
<1> DEFINE c == s.cut \/ box[w] = "wait"
<1>1. Set(w, [s EXCEPT !.cut = c])
  BY DEF Cut
<1> HIDE DEF c
<1>2. win'[w] = [s EXCEPT !.cut = c]
  BY <1>1 DEF Set, TypeOK
<1>3. Same(s, [s EXCEPT !.cut = c])
  BY DEF Same, WinType
<1> QED
  BY <1>2, <1>3

LEMMA OwnHostAnswer ==
  ASSUME TypeOK, OwnInv, NEW w \in Window, NEW q \in net[w], page[w] = "main",
         q.op # "tree", q.for = "host", HostAnswer(w, q)
  PROVE  OwnInv'
<1>1. /\ UNCHANGED <<page, idC, started, cur, mixed>>
      /\ win[w] \in WinType /\ net[w] \in SUBSET Request /\ q \in Request
  BY DEF HostAnswer, TypeOK, cookies
<1> DEFINE h == IF q.seg = "next" /\ q.out # 0 THEN q.out ELSE win[w].host
           s == [win[w] EXCEPT !.host = h]
<1>2. h \in 0 .. MaxRuns /\ h \in {q.out, win[w].host} /\ (h = q.out => h = win[w].host \/ h # 0)
  BY <1>1 DEF WinType, Request
<1>3. Set(w, s)
  BY DEF HostAnswer
<1> HIDE DEF h
<1>4. /\ s \in WinType /\ s.seg = win[w].seg /\ s.host = h
      /\ s.tab = win[w].tab /\ s.node = win[w].node /\ s.built = win[w].built
      /\ s.text = win[w].text /\ s.offered = win[w].offered /\ s.list = win[w].list
  BY <1>1, <1>2 DEF WinType
<1> HIDE DEF s
<1>5. win'[w] = s /\ \A v \in Window \ {w} : win'[v] = win[v]
  BY <1>3, <1>4, PutWin
<1>6. \A v \in Window \ {w} : box'[v] = box[v]
  BY ShowOthers DEF HostAnswer
<1>7. ASSUME Shows(started, win[w]), Asks(started, win[w], box[w], cur, idC, q)
      PROVE  Shows(started, s) /\ s.seg # "next"
  <2>1. q.run \in 1 .. Len(started) /\ started[q.run] = "host" /\ q.out \in {0, q.run}
    BY <1>7 DEF Asks, Its
  <2> QED
    BY <1>2, <1>4, <1>7, <2>1 DEF Shows, Asks
<1>8. CASE Done(w, q)
  BY <1>1, <1>5, <1>6, <1>7, <1>8, OwnTaken DEF Follows
<1>9. CASE /\ net' = [net EXCEPT ![w] = (@ \ {q}) \union {New("poll", q.run, "host")}]
           /\ q.seg = "next"
  <2> DEFINE p == New("poll", q.run, "host")
  <2>1. /\ p.op = "poll" /\ p.run = q.run /\ p.for = "host" /\ p.sid = idC /\ p.out = 0
    BY DEF New
  <2>2. net'[w] = (net[w] \ {q}) \union {p} /\ \A v \in Window \ {w} : net'[v] = net[v]
    BY <1>9 DEF TypeOK
  <2> HIDE DEF p
  <2>3. q \in Commands(w)
    BY DEF Commands
  <2>4. Others(w) /\ Live(w) /\ Fewer(cur, idC, cur', idC')
    BY <1>1, <1>5, <1>6, <2>2, <2>3 DEF Others, Live, Fewer, TypeOK
  <2>5. ASSUME Own(started, win[w], box[w], cur, idC, Commands(w)) PROVE OwnAt(w)'
    <3>1. Asks(started, win[w], box[w], cur, idC, q) /\ Commands(w) = {q}
      BY <2>3, <2>5 DEF Own
    <3>2. Commands(w)' = {p}
      BY <2>1, <2>2, <3>1 DEF Commands
    <3>3. Shows(started, s) /\ s.seg # "next"
      BY <1>7, <2>5, <3>1 DEF Own
    <3>4. Asks(started, s, box'[w], cur, idC, p)
      BY <1>9, <2>1, <3>1, <3>3, AsksPaged DEF Asks, Its
    <3> QED
      BY <1>1, <1>5, <3>2, <3>3, <3>4 DEF OwnAt, Own, Follows
  <2> QED
    BY <1>1, <2>4, <2>5, OwnWithin
<1> QED
  BY <1>8, <1>9 DEF HostAnswer

LEMMA FilesStateSame ==
  ASSUME NEW w, win[w] \in WinType, NEW q
  PROVE  Same(win[w], FilesState(w, q))
BY DEF FilesState, Segment, Same, WinType

\* The panel gets the output of the answer, or loses some.
LEMMA RunStateShows ==
  ASSUME NEW w, win[w] \in WinType, NEW q \in Request
  PROVE  LET s == RunState(w, q) IN
         /\ s.tab = win[w].tab /\ s.node = win[w].node /\ s.built = win[w].built
         /\ s.host = win[w].host /\ s.offered = win[w].offered /\ s.list = win[w].list
         /\ s.text \subseteq win[w].text \union ({q.out} \ {0})
<1> DEFINE g == Segment(win[w], q)
           l == Labelled(g, q)
           u == Updated(l, q)
<1>1. g \in WinType /\ Same(win[w], g)
  <2>1. Same(win[w], g)
    BY DEF Segment, Same, WinType
  <2> QED
    BY <2>1, SegmentType
<1> HIDE DEF g
<1>2. l \in WinType /\ Same(g, l)
  <2>1. Same(g, l)
    BY <1>1 DEF Labelled, Same, WinType
  <2> QED
    BY <1>1, <2>1, LabelledType
<1> HIDE DEF l
<1>3. /\ u.tab = l.tab /\ u.node = l.node /\ u.built = l.built /\ u.host = l.host
      /\ u.offered = l.offered /\ u.list = l.list
      /\ u.text \subseteq l.text \union ({q.out} \ {0})
  <2> DEFINE t == IF l.area /\ q.op = "start" THEN {}
                  ELSE IF l.area /\ q.seg = "end" THEN l.text
                  ELSE l.text \union ({q.out} \ {0})
  <2>1. t \subseteq l.text \union ({q.out} \ {0})
    OBVIOUS
  <2>2. u = l \/ u = [l EXCEPT !.area = TRUE, !.text = t]
    BY DEF Updated
  <2> HIDE DEF t, u
  <2> QED
    BY <1>2, <2>1, <2>2 DEF WinType
<1> HIDE DEF u
<1>4. RunState(w, q) = u
  BY DEF RunState, u, l, g
<1> QED
  BY <1>1, <1>2, <1>3, <1>4 DEF Same

LEMMA OwnOpCmdCb ==
  ASSUME TypeOK, OwnInv, NEW w \in Window, NEW q \in net[w], page[w] = "main",
         q.op # "tree", q.for # "host",
         LostAnswer(w, q) \/ IgnoredAnswer(w, q) \/ FilesAnswer(w, q) \/ RunAnswer(w, q)
  PROVE  OwnInv'
<1>1. /\ UNCHANGED <<page, idC, started, cur, mixed>> /\ Done(w, q)
      /\ win[w] \in WinType /\ q \in Request
  BY DEF LostAnswer, IgnoredAnswer, FilesAnswer, RunAnswer, TypeOK, cookies, shell
<1>2. \A v \in Window \ {w} : box'[v] = box[v]
  BY ShowOthers DEF LostAnswer, IgnoredAnswer, FilesAnswer, RunAnswer, shell
<1>3. CASE LostAnswer(w, q) \/ IgnoredAnswer(w, q)
  <2>1. win' = win \/ Cut(w, win[w])
    BY <1>3 DEF LostAnswer, IgnoredAnswer
  <2>2. /\ win'[w].seg = win[w].seg /\ Same(win[w], win'[w])
        /\ \A v \in Window \ {w} : win'[v] = win[v]
    BY <1>1, <2>1, CutType, CutSame DEF Same
  <2>3. ASSUME Shows(started, win[w]), Asks(started, win[w], box[w], cur, idC, q)
        PROVE  Shows(started, win'[w]) /\ Follows(started, win'[w], box'[w], cur, idC)
    BY <2>2, <2>3, SameStarted, ShowsSame DEF Asks, Follows
  <2> QED
    BY <1>1, <1>2, <2>2, <2>3, OwnTaken
<1>4. CASE FilesAnswer(w, q)
  <2> DEFINE s == FilesState(w, q)
  <2>1. /\ s \in WinType /\ s.for = "files" /\ s.seg = q.seg
        /\ q.seg = "next" => s.run = q.run
        /\ Same(win[w], s)
    BY <1>1, FilesStateType, FilesStateSame
  <2>2. \/ q.seg = "null" /\ Cut(w, s)
        \/ q.seg = "next" /\ UNCHANGED box /\ Set(w, [s EXCEPT !.list = @ \union ({q.out} \ {0})])
        \/ q.seg = "end" /\ Set(w, [s EXCEPT !.offered = s.list])
    BY <1>4 DEF FilesAnswer, FilesState
  <2>3. q.for = "files"
    BY <1>4 DEF FilesAnswer
  <2> HIDE DEF s
  <2>4. {q.out} \ {0} \subseteq Runs
    BY <1>1, Bounds DEF Request
  <2>5. ASSUME Shows(started, win[w]), Asks(started, win[w], box[w], cur, idC, q)
        PROVE  /\ Shows(started, s) /\ Its(started, win[w], box[w], "files", q.run)
               /\ started[q.run] = "files" /\ q.run \in 1 .. Len(started)
               /\ q.out \in {0, q.run} /\ (q.seg = "next" => Paged(cur, idC, q.run))
    BY <2>1, <2>3, <2>5, SameStarted, ShowsSame, AsksPaged DEF Asks, Its
  <2>6. CASE q.seg = "null" /\ Cut(w, s)
    <3>1. /\ win'[w].seg = "null" /\ Same(s, win'[w])
          /\ \A v \in Window \ {w} : win'[v] = win[v]
      BY <2>1, <2>6, CutType, CutSame
    <3> QED
      BY <1>1, <1>2, <2>5, <3>1, SameStarted, ShowsSame, OwnTaken DEF Follows
  <2>7. CASE q.seg = "next" /\ UNCHANGED box /\ Set(w, [s EXCEPT !.list = @ \union ({q.out} \ {0})])
    <3> DEFINE t == [s EXCEPT !.list = @ \union ({q.out} \ {0})]
    <3>1. /\ t \in WinType /\ t.for = "files" /\ t.run = q.run /\ t.tab = s.tab /\ t.node = s.node
          /\ t.built = s.built /\ t.host = s.host /\ t.text = s.text /\ t.offered = s.offered
          /\ t.list = s.list \union ({q.out} \ {0})
      BY <2>1, <2>4, <2>7 DEF WinType
    <3> HIDE DEF t
    <3>2. win'[w] = t /\ \A v \in Window \ {w} : win'[v] = win[v]
      BY <2>7, <3>1, PutWin DEF t
    <3>3. ASSUME Shows(started, win[w]), Asks(started, win[w], box[w], cur, idC, q)
          PROVE  Shows(started, t) /\ Follows(started, t, box'[w], cur, idC)
      <4>1. Shows(started, t)
        BY <2>5, <3>1, <3>3 DEF Shows
      <4> QED
        BY <2>5, <2>7, <3>1, <3>3, <4>1 DEF Follows, Its
    <3> QED
      BY <1>1, <1>2, <3>2, <3>3, OwnTaken
  <2>8. CASE q.seg = "end" /\ Set(w, [s EXCEPT !.offered = s.list])
    <3> DEFINE t == [s EXCEPT !.offered = s.list]
    <3>1. /\ t \in WinType /\ t.seg = s.seg /\ t.tab = s.tab /\ t.node = s.node
          /\ t.built = s.built /\ t.host = s.host /\ t.text = s.text /\ t.offered = s.list
          /\ t.list = s.list
      BY <2>1 DEF WinType
    <3> HIDE DEF t
    <3>2. win'[w] = t /\ \A v \in Window \ {w} : win'[v] = win[v]
      BY <2>8, <3>1, PutWin DEF t
    <3>3. ASSUME Shows(started, win[w]), Asks(started, win[w], box[w], cur, idC, q)
          PROVE  Shows(started, t) /\ Follows(started, t, box'[w], cur, idC)
      BY <2>1, <2>5, <2>8, <3>1, <3>3 DEF Shows, Follows
    <3> QED
      BY <1>1, <1>2, <3>2, <3>3, OwnTaken
  <2> QED
    BY <2>2, <2>6, <2>7, <2>8
<1>5. CASE RunAnswer(w, q)
  <2> DEFINE s == RunState(w, q)
  <2>1. /\ s \in WinType /\ s.seg = q.seg
        /\ q.seg = "next" => s.run = q.run /\ s.for = q.for
    BY <1>1, RunStateType
  <2>2. /\ s.tab = win[w].tab /\ s.node = win[w].node /\ s.built = win[w].built
        /\ s.host = win[w].host /\ s.offered = win[w].offered /\ s.list = win[w].list
        /\ s.text \subseteq win[w].text \union ({q.out} \ {0})
    BY <1>1, RunStateShows
  <2>3. Set(w, s) /\ q.for \in {"btn", "old"}
    BY <1>5 DEF RunAnswer, RunState
  <2> HIDE DEF s
  <2>4. win'[w] = s /\ \A v \in Window \ {w} : win'[v] = win[v]
    BY <2>1, <2>3, PutWin
  <2>5. ASSUME Shows(started, win[w]), Asks(started, win[w], box[w], cur, idC, q)
        PROVE  Shows(started, s) /\ Follows(started, s, box'[w], cur, idC)
    <3>1. /\ q.for = "btn" /\ started[q.run] = win[w].node /\ win[w].tab = "oper"
          /\ q.run \in 1 .. Len(started) /\ q.out \in {0, q.run}
      BY <2>3, <2>5 DEF Asks, Its
    <3>2. Shows(started, s)
      BY <2>2, <2>5, <3>1 DEF Shows
    <3>3. Follows(started, s, box'[w], cur, idC)
      BY <2>1, <2>2, <2>5, <3>1, AsksPaged DEF Follows, Its
    <3> QED
      BY <3>2, <3>3
  <2> QED
    BY <1>1, <1>2, <2>4, <2>5, OwnTaken
<1> QED
  BY <1>3, <1>4, <1>5

\* The steps of the pages: a window leaves, or its box says something else.
LEMMA OwnPages ==
  ASSUME TypeOK, OwnInv, NEW w \in Window, Others(w),
         UNCHANGED <<started, mixed, cur>>, idC' \in {idC, None},
         page'[w] # "main" \/ (page'[w] = page[w] /\ box[w] # "wait" /\ UNCHANGED <<win, net>>)
  PROVE  OwnInv'
<1>1. Fewer(cur, idC, cur', idC')
  BY DEF Fewer, TypeOK
<1>2. Live(w)' => Live(w)
  BY DEF Live, Commands
<1>3. ASSUME mixed = 0 PROVE OwnAt(w)'
  <2>1. CASE page'[w] # "main"
    BY <2>1 DEF OwnAt
  <2>2. CASE page'[w] = page[w] /\ box[w] # "wait" /\ UNCHANGED <<win, net>>
    <3>1. SUFFICES ASSUME page[w] = "main"
                   PROVE  Own(started, win[w], box'[w], cur', idC', Commands(w))
      BY <2>2 DEF OwnAt, Commands
    <3>2. Own(started, win[w], box[w], cur, idC, Commands(w))
      BY <1>3, <3>1 DEF OwnInv, OwnAt
    <3> QED
      BY <1>1, <2>2, <3>2, SameStarted, OwnStill
  <2> QED
    BY <2>1, <2>2
<1> QED
  BY <1>1, <1>2, <1>3, SameStarted, OwnStep

LEMMA OwnSentHome ==
  ASSUME TypeOK, OwnInv, NEW w \in Window, NEW q \in net[w], SentHome(w, q)
  PROVE  OwnInv'
<1>1. /\ UNCHANGED <<win, started, cur, mixed>> /\ idC' = None
      /\ page' = [page EXCEPT ![w] = "loading"] /\ Show(w, "none") /\ Done(w, q)
  BY DEF SentHome, UserLogout
<1>2. Others(w) /\ page'[w] # "main"
  BY <1>1, DoneType, ShowOthers DEF Others, TypeOK, ShellTypeOK
<1> QED
  BY <1>1, <1>2, OwnPages

LEMMA OwnDeliver ==
  ASSUME TypeOK, OwnInv, NEW w \in Window, NEW q \in net[w], Deliver(w, q)
  PROVE  OwnInv'
<1>1. page[w] = "main"
  BY DEF Deliver
<1>2. \/ q.op = "tree" /\ TreeAnswer(w, q)
      \/ SentHome(w, q)
      \/ q.op # "tree" /\ q.for = "host" /\ HostAnswer(w, q)
      \/ q.op # "tree" /\ q.for # "host" /\ (\/ LostAnswer(w, q) \/ IgnoredAnswer(w, q)
                                             \/ FilesAnswer(w, q) \/ RunAnswer(w, q))
  BY DEF Deliver, OpCmdCb
<1> QED
  BY <1>1, <1>2, OwnTreeAnswer, OwnSentHome, OwnHostAnswer, OwnOpCmdCb

LEMMA OwnShellStep ==
  ASSUME TypeOK, OwnInv, NEW w \in Window,
         ShellStep(w) \/ Visit(w)
  PROVE  OwnInv'
<1>1. UNCHANGED <<win, net, started, cur, mixed>>
  BY DEF ShellStep, Visit, console
<1>2. CASE HandleLogout(w) \/ LogoutYes(w) \/ RebootYes(w) \/ Reload(w)
  <2>1. /\ page' = [page EXCEPT ![w] = "loading"] \/ UNCHANGED page
        /\ page' = page => box[w] # "wait"
        /\ idC' \in {idC, None}
        /\ \E b \in {"none", "logout?"} : Show(w, b) \/ UNCHANGED box
    BY <1>2 DEF HandleLogout, LogoutYes, RebootYes, Reload, UserLogout, Idle, cookies,
                TypeOK, ShellTypeOK
  <2>2. Others(w)
    BY <1>1, <2>1, ShowOthers DEF Others, TypeOK, ShellTypeOK
  <2>3. page'[w] # "main" \/ (page'[w] = page[w] /\ box[w] # "wait")
    BY <2>1 DEF TypeOK, ShellTypeOK
  <2> QED
    BY <1>1, <2>1, <2>2, <2>3, OwnPages
<1>3. CASE Dismiss(w)
  <2>1. page' = page /\ idC' = idC /\ Show(w, "none") /\ box[w] # "wait"
    BY <1>3 DEF Dismiss, cookies
  <2>2. Others(w)
    BY <1>1, <2>1, ShowOthers DEF Others
  <2> QED
    BY <1>1, <2>1, <2>2, OwnPages
<1>4. CASE \/ LoginRoot(w) \/ Refused(w) \/ LoginLost(w) \/ \E u \in User : Login(w, u)
  <2>1. /\ page' = page /\ page[w] # "main" /\ idC' \in {idC, None}
        /\ \E b \in {"none", "wait", "alert"} : Show(w, b)
    BY <1>4 DEF LoginRoot, Refused, LoginLost, Login, cookies
  <2>2. Others(w)
    BY <1>1, <2>1, ShowOthers DEF Others
  <2> QED
    BY <1>1, <2>1, <2>2, OwnPages
<1> QED
  BY <1>2, <1>3, <1>4 DEF ShellStep, Visit

\* Another user's id: the commands in flight would be of another session.
LEMMA OwnEntered ==
  ASSUME TypeOK, OwnInv, NEW w \in Window, Entered(w)
  PROVE  OwnInv'
<1>1. /\ UNCHANGED <<win, net, started>> /\ Show(w, "none")
      /\ page' = [page EXCEPT ![w] = "loading"] /\ Mix(\E v \in Window : Live(v))
  BY DEF Entered, Authenticated
<1>2. Others(w) /\ page'[w] # "main"
  BY <1>1, ShowOthers DEF Others, TypeOK, ShellTypeOK
<1>3. mixed' = 0 => mixed = 0 /\ Alone(w)
  BY <1>1, Bounds DEF Mix, Alone, TypeOK
<1>4. OwnAt(w)'
  BY <1>2 DEF OwnAt
<1> QED
  BY <1>1, <1>2, <1>3, <1>4, SameStarted, OwnStep

\* A session ends, cookies expire.
LEMMA OwnEnds ==
  ASSUME TypeOK, OwnInv, UNCHANGED <<page, box, win, net, started, mixed>>,
         Fewer(cur, idC, cur', idC')
  PROVE  OwnInv'
<1>1. \A w \in Window : Live(w)' <=> Live(w)
  BY DEF Live, Commands
<1>2. ASSUME NEW w \in Window, OwnAt(w) PROVE OwnAt(w)'
  <2>1. page[w] = "main" => Own(started, win[w], box[w], cur', idC', Commands(w))
    BY <1>2, SameStarted, OwnStill DEF OwnAt
  <2> QED
    BY <2>1 DEF OwnAt, Commands
<1> QED
  BY <1>1, <1>2 DEF OwnInv

\* Every action keeps every window's output its own, or is one that mixes them.
LEMMA NextOwn == TypeOK /\ OwnInv /\ [Next]_vars => OwnInv'
<1> SUFFICES ASSUME TypeOK, OwnInv, [Next]_vars
             PROVE  OwnInv'
  OBVIOUS
<1>1. ASSUME NEW w \in Window, WindowStep(w)
      PROVE  OwnInv'
  <2>1. CASE OnReady(w) \/ Task(w) \/ Entered(w) \/ Visit(w) \/ ShellStep(w)
    BY <2>1, OwnOnReady, OwnTask, OwnEntered, OwnShellStep
  <2>2. CASE UserStep(w)
    BY <2>2, OwnTabClick, OwnNodeClick, OwnRunClick, OwnButtons DEF UserStep
  <2>3. CASE \E q \in net[w] : Serve(w, q) \/ Lose(w, q) \/ Deliver(w, q)
    BY <2>3, OwnServe, OwnLose, OwnDeliver
  <2> QED
    BY <1>1, <2>1, <2>2, <2>3 DEF WindowStep, Served, Delivered
<1>2. CASE \E u \in User : Ended(u)
  <2>1. PICK u \in User : Ended(u)
    BY <1>2
  <2>2. Fewer(cur, idC, cur', idC')
    BY <2>1 DEF Ended, SessionEnds, NoCommand, Fewer, cookies, TypeOK
  <2> QED
    BY <2>1, <2>2, OwnEnds DEF Ended, SessionEnds
<1>3. CASE CookiesExpire /\ UNCHANGED <<win, net, started, cur, mixed>>
  <2>1. Fewer(cur, idC, cur', idC')
    BY <1>3 DEF CookiesExpire, Fewer, TypeOK
  <2> QED
    BY <1>3, <2>1, OwnEnds DEF CookiesExpire
<1>4. CASE UNCHANGED vars
  <2>1. Fewer(cur, idC, cur', idC')
    BY <1>4 DEF vars, shell, console, cookies, Fewer, TypeOK
  <2> QED
    BY <1>4, <2>1, OwnEnds DEF vars, shell, console
<1> QED
  BY <1>1, <1>2, <1>3, <1>4 DEF Next

\* While nothing is clicked during a command and commands of a session do not overlap, the
\* panel of a node shows output of that node only, what Load and Save offer comes from the
\* list of files and the host name from its command, though one m_segmentId and one
\* command at a time of the session serve them all (vyatta-cli-command.js,
\* vyatta-panels.js); in any number of windows, with requests lost and sessions ending.
THEOREM OwnOutputTheorem == Spec => []OwnOutput
<1>1. TypeOK /\ ChainInv /\ OwnInv /\ [Next]_vars => OwnInv'
  BY NextOwn
<1> QED
  BY <1>1, TypedChains, OwnInitially, OwnHolds, PTL DEF Spec
============================================================================
