------------------------------- MODULE Console -------------------------------
(* Operational commands in the web application (vyatta-cli-command.js,      *)
(* vyatta-tree.js, vyatta-panels.js, vyatta-main.js): the operation tab with *)
(* its nodes, Run, Stop and Pause, the list of files behind Load and Save,  *)
(* the host name of the header and the task that asks for the next page.    *)
(* All of them share one m_segmentId per window, and one command at a time  *)
(* of the user's session at the server.                                     *)
EXTENDS Shell, Sequences

CONSTANTS
  Command,      \* nodes of the operation tree that can be run
  Valued,       \* those with a value to fill in
  Reboot,       \* the node that asks before it runs
  MaxRuns,      \* bound: commands started
  MaxPages,     \* pages of a command's output
  MaxClicks,    \* bound: clicks on the operation and configuration tabs
  MaxMixed,     \* bound: clicks and commands while one of the session is in flight
  MaxVisits,    \* bound: logins, and reloads of the main page
  MaxFaults     \* bound: requests lost or refused, sessions and cookies that end

ASSUME ConsoleOK ==
  /\ Valued \subseteq Command /\ Reboot \notin Command /\ None \notin Command \union {Reboot}
  /\ {"files", "host"} \intersect (Command \union {Reboot, None}) = {}
  /\ {MaxRuns, MaxPages, MaxClicks, MaxMixed, MaxVisits, MaxFaults} \subseteq Nat

VARIABLES
  win,       \* g_baseSystem, g_cliCmdObj and the operation panel of each window
  net,       \* its requests in flight, with their answers once made
  started,   \* every command started; a command is known by its place here
  cur,       \* the command of each session the server pages (module Chunker)
  mixed,     \* history: clicks and commands while the session was busy
  clicks, visits, faults

bounds == <<clicks, visits, faults>>
console == <<win, net, started, cur, mixed, bounds>>
vars == <<shell, console>>

Runs == 1 .. MaxRuns
Kind == {"host", "conf", "oper", "files", "btn", "old"}

\* A request. "for" is what its callback holds: the button that ran it ("old" once the
\* button's panel is gone), the array of the file list, the special command, or a tree.
Request == [op : {"start", "poll", "tree"}, run : 0 .. MaxRuns, sid : User \union {None},
            for : Kind, code : {"none", "ok", "error", "expired", "denied", "lost"},
            seg : {"null", "next", "end"}, out : 0 .. MaxRuns]

New(op, r, k) == [op |-> op, run |-> r, sid |-> idC, for |-> k,
                  code |-> "none", seg |-> "null", out |-> 0]

\* seg is m_segmentId ("stop" is 'segment_end'), run the command it is of; for is
\* m_wildCard; label the Run button; area is m_opTextArea, with output of commands text.
WinType == [tab : {"conf", "oper"}, built : BOOLEAN, denied : BOOLEAN, host : 0 .. MaxRuns,
            seg : {"null", "next", "end", "stop"}, run : 0 .. MaxRuns, paused : BOOLEAN,
            for : Kind \union {"none"}, label : {"none", "Run", "Stop"},
            node : Command \union {Reboot, None}, area : BOOLEAN, text : SUBSET Runs,
            list : SUBSET Runs, offered : SUBSET Runs, cut : BOOLEAN]

\* f_initSystemObjects
Blank == [tab |-> "conf", built |-> FALSE, denied |-> FALSE, host |-> 0, seg |-> "null",
          run |-> 0, paused |-> FALSE, for |-> "none", label |-> "none", node |-> None,
          area |-> FALSE, text |-> {}, list |-> {}, offered |-> {}, cut |-> FALSE]

NoCommand == [run |-> 0, left |-> 0]

Init ==
  /\ ShellInit
  /\ win = [w \in Window |-> Blank] /\ net = [w \in Window |-> {}]
  /\ started = <<>> /\ cur = [u \in User |-> NoCommand]
  /\ mixed = 0 /\ clicks = 0 /\ visits = 0 /\ faults = 0

----------------------------------------------------------------------------
(* Commands in progress *)

Commands(w) == {q \in net[w] : q.op # "tree"}
Live(w)     == page[w] = "main" /\ (Commands(w) # {} \/ win[w].seg = "next")

\* Something is in flight in the window, or in progress in another of its session.
Busy(w) == Commands(w) # {} \/ \E v \in Window \ {w} : Live(v)

Mix(b) ==
  IF b THEN mixed < MaxMixed /\ mixed' = mixed + 1 ELSE UNCHANGED mixed

\* The number of a command about to be started.
Fresh == Len(started) + 1

Set(w, s) == win' = [win EXCEPT ![w] = s]
Send(w, qs) == net' = [net EXCEPT ![w] = @ \union qs]

----------------------------------------------------------------------------
(* Pages and tabs *)

\* f_showTab asks for the host name as long as it has none,
AskHost(s) == IF s.host = 0 THEN {New("start", Fresh, "host")} ELSE {}
StartHost(s) ==
  IF s.host = 0 THEN Fresh <= MaxRuns /\ started' = Append(started, "host")
                ELSE UNCHANGED started

\* builds the tab the first time, and else ends the command in the background.
Shown(s, t) ==
  IF t = "oper" /\ ~s.built THEN [s EXCEPT !.tab = t, !.built = TRUE]
  ELSE [s EXCEPT !.tab = t, !.seg = "stop", !.run = 0,
                 !.label = IF t = "oper" /\ s.node # None THEN "Run" ELSE @]

AskTree(s, t) == IF t = "oper" /\ ~s.built THEN {New("tree", 0, "oper")} ELSE {}

\* Ext.onReady; the task is started, and polls as Task says.
OnReady(w) ==
  /\ page[w] = "loading"
  /\ Set(w, Blank)
  /\ \/ /\ ~Logined
        /\ page' = [page EXCEPT ![w] = "login"]
        /\ net' = [net EXCEPT ![w] = {}]
        /\ UNCHANGED <<cookies, started, mixed>>
     \/ /\ isC = "reboot"
        /\ page' = [page EXCEPT ![w] = "rebooting"]
        /\ idC' = None /\ isC' = "no"
        /\ net' = [net EXCEPT ![w] = {}]
        /\ UNCHANGED <<nameC, started, mixed>>
     \/ /\ UserLogined
        /\ page' = [page EXCEPT ![w] = "main"]
        /\ StartHost(Blank)
        /\ net' = [net EXCEPT ![w] = AskHost(Blank) \union {New("tree", 0, "conf")}]
        /\ Mix(\E v \in Window \ {w} : Live(v))
        /\ UNCHANGED cookies
  /\ Show(w, "none")
  /\ UNCHANGED <<alive, auth, cur, bounds>>

Click(w) ==
  /\ page[w] = "main" /\ Idle(w)
  /\ clicks < MaxClicks /\ clicks' = clicks + 1
  /\ Mix(Busy(w))
  /\ UNCHANGED <<visits, faults>>

Fault == faults < MaxFaults /\ faults' = faults + 1 /\ UNCHANGED <<clicks, visits>>

TabClick(w, t) ==
  /\ Click(w)
  /\ \/ /\ t = "conf" /\ win[w].denied
        /\ Show(w, "alert") /\ UNCHANGED <<win, net, started>>
     \/ /\ ~(t = "conf" /\ win[w].denied)
        /\ StartHost(win[w])
        /\ Send(w, AskHost(win[w]) \union AskTree(win[w], t))
        /\ Set(w, Shown(win[w], t))
        /\ UNCHANGED box
  /\ UNCHANGED <<cookies, alive, page, auth, cur>>

----------------------------------------------------------------------------
(* Running commands *)

\* The window's node, its panel emptied for another: buttons of before are gone.
Forget(w) == {[q EXCEPT !.for = IF @ = "btn" THEN "old" ELSE @] : q \in net[w]}
Panel(s, n) ==
  [s EXCEPT !.node = n, !.label = IF n = None THEN "none" ELSE "Run",
            !.area = FALSE, !.text = {}, !.for = IF @ = "btn" THEN "old" ELSE @]

\* Faulty: the command of the node left goes on in the background.
NodeClickGoesOn(w, n) ==
  /\ Click(w) /\ win[w].tab = "oper"
  /\ Set(w, Panel(win[w], n))
  /\ net' = [net EXCEPT ![w] = Forget(w)]
  /\ UNCHANGED <<shell, started, cur>>

\* f_handleNodeOperClick; None is a node that only has nodes below it.
NodeClick(w, n) ==
  /\ Click(w) /\ win[w].tab = "oper"
  /\ Set(w, [Panel(win[w], n) EXCEPT !.seg = "null", !.run = 0])
  /\ net' = [net EXCEPT ![w] = Forget(w)]
  /\ UNCHANGED <<shell, started, cur>>

\* The Run button, or leaving the value's field.
RunClick(w) ==
  /\ Click(w) /\ win[w].tab = "oper" /\ win[w].label = "Run"
  /\ \/ /\ win[w].node \in Command /\ Fresh <= MaxRuns
        /\ started' = Append(started, win[w].node)
        /\ Send(w, {New("start", Fresh, "btn")})
        /\ Set(w, [win[w] EXCEPT !.seg = "null", !.run = 0])
        /\ Show(w, "wait")
     \/ /\ win[w].node \in Valued
        /\ Show(w, "alert") /\ UNCHANGED <<win, net, started>>
     \/ /\ win[w].node = Reboot
        /\ Show(w, "reboot?") /\ UNCHANGED <<win, net, started>>
  /\ UNCHANGED <<cookies, alive, page, auth, cur>>

StopClick(w) ==
  /\ Click(w) /\ win[w].tab = "oper" /\ win[w].label = "Stop"
  /\ Set(w, [win[w] EXCEPT !.label = "Run", !.seg = "stop", !.run = 0])
  /\ UNCHANGED <<shell, net, started, cur>>

\* Pause and Resume, one button, shown once there are some pages
PauseClick(w) ==
  /\ Click(w) /\ win[w].tab = "oper" /\ win[w].label = "Stop" /\ win[w].area
  /\ Set(w, [win[w] EXCEPT !.paused = ~@])
  /\ UNCHANGED <<shell, net, started, cur>>

\* Load and Save list the files first. m_segmentId stays as it is.
FilesClick(w) ==
  /\ Click(w) /\ win[w].tab = "conf" /\ Fresh <= MaxRuns
  /\ started' = Append(started, "files")
  /\ Send(w, {New("start", Fresh, "files")})
  /\ Set(w, [win[w] EXCEPT !.list = {}])
  /\ Show(w, "wait")
  /\ UNCHANGED <<cookies, alive, page, auth, cur>>

\* Faulty: the answer to come is not waited for before the next poll.
TaskKeeps(w) ==
  /\ page[w] = "main" /\ win[w].seg = "next" /\ ~win[w].paused
  /\ Send(w, {New("poll", win[w].run, win[w].for)})
  /\ UNCHANGED <<shell, win, started, cur, mixed, bounds>>

\* f_startSegmentCommand, every second and a half. The value of the command's node is
\* read again, and complained about if the user has meanwhile emptied it.
Task(w) ==
  /\ page[w] = "main"
  /\ \/ /\ win[w].seg \in {"end", "stop"}
        /\ Set(w, [win[w] EXCEPT !.seg = "null", !.run = 0, !.paused = FALSE])
        /\ UNCHANGED <<box, net>>
     \/ /\ win[w].seg = "next" /\ ~win[w].paused
        /\ \/ /\ Send(w, {New("poll", win[w].run, win[w].for)})
              /\ Set(w, [win[w] EXCEPT !.seg = "null", !.run = 0])
              /\ UNCHANGED box
           \/ /\ started[win[w].run] \in Valued
              /\ Show(w, "alert") /\ UNCHANGED <<win, net>>
  /\ UNCHANGED <<cookies, alive, page, auth, started, cur, mixed, bounds>>

----------------------------------------------------------------------------
(* The server, as module Chunker has it, and the network *)

Answer(w, q, code, seg, out) ==
  net' = [net EXCEPT ![w] = (@ \ {q}) \union {[q EXCEPT !.code = code, !.seg = seg, !.out = out]}]

\* The next page, the end with what was left, or nothing yet of no command
Page(w, q) ==
  LET c == cur[q.sid]
  IN  \/ /\ c.run = 0
         /\ Answer(w, q, "ok", "next", 0) /\ UNCHANGED cur
      \/ /\ c.run # 0 /\ c.left > 0
         /\ Answer(w, q, "ok", "next", c.run)
         /\ cur' = [cur EXCEPT ![q.sid].left = @ - 1]
      \/ /\ c.run # 0 /\ c.left = 0
         /\ Answer(w, q, "ok", "end", c.run)
         /\ cur' = [cur EXCEPT ![q.sid] = NoCommand]

Serve(w, q) ==
  /\ page[w] = "main" /\ q.op # "tree" /\ q.code = "none"
  /\ IF q.sid \notin alive THEN Answer(w, q, "expired", "null", 0) /\ UNCHANGED <<cur, bounds>>
     ELSE \/ /\ q.op = "start"
             /\ Answer(w, q, "ok", "next", 0)
             /\ cur' = [cur EXCEPT ![q.sid] = [run |-> q.run, left |-> MaxPages]]
             /\ UNCHANGED bounds
          \/ /\ q.op = "start" /\ Fault
             /\ Answer(w, q, "error", "null", 0) /\ UNCHANGED cur
          \/ /\ q.op = "poll" /\ Page(w, q) /\ UNCHANGED bounds
  /\ UNCHANGED <<shell, win, started, mixed>>

\* The request, or its answer
Lose(w, q) ==
  /\ page[w] = "main" /\ q.code # "lost" /\ Fault
  /\ Answer(w, q, "lost", "null", 0)
  /\ UNCHANGED <<shell, win, started, cur, mixed>>

----------------------------------------------------------------------------
(* Callbacks *)

Done(w, q) == net' = [net EXCEPT ![w] = @ \ {q}]
Cut(w, s)  == Set(w, [s EXCEPT !.cut = @ \/ box[w] = "wait"])

\* A tree is asked for and answered at once: only the session matters to it.
TreeCode(q) ==
  IF q.sid \notin alive THEN "expired"
  ELSE IF q.for = "conf" /\ q.sid \in Operator THEN "denied" ELSE "ok"
Code(q) == IF q.op = "tree" /\ q.code = "none" THEN TreeCode(q) ELSE q.code

\* f_parseServerCallback, code 3: whatever the callback does next, the page goes.
SentHome(w, q) ==
  /\ Code(q) = "expired" /\ UserLogined
  /\ UserLogout(w)
  /\ Done(w, q) /\ Show(w, "none")
  /\ UNCHANGED <<alive, auth, win, started, cur, mixed, bounds>>

\* processResponse: the tree of an operator's configuration is refused.
TreeAnswer(w, q) ==
  /\ Code(q) = "expired" => ~UserLogined
  /\ \/ /\ Code(q) # "denied"
        /\ Done(w, q) /\ UNCHANGED <<box, win, started, mixed>>
     \/ /\ Code(q) = "denied"
        /\ StartHost(win[w])
        /\ net' = [net EXCEPT ![w] =
                     (@ \ {q}) \union AskHost(win[w]) \union AskTree(win[w], "oper")]
        /\ Set(w, [Shown(win[w], "oper") EXCEPT !.denied = TRUE])
        /\ Mix(\E v \in Window : Live(v))
        /\ UNCHANGED box
  /\ UNCHANGED <<cookies, alive, page, auth, cur, bounds>>

\* f_sendSpecialCliCommand: the first page with some text is the name.
HostAnswer(w, q) ==
  /\ q.code = "expired" => ~UserLogined
  /\ IF q.seg = "next" /\ q.out = 0
     THEN net' = [net EXCEPT ![w] = (@ \ {q}) \union {New("poll", q.run, "host")}]
     ELSE Done(w, q)
  /\ Set(w, [win[w] EXCEPT !.host = IF q.seg = "next" /\ q.out # 0 THEN q.out ELSE @])
  /\ IF q.code = "lost" /\ Logined THEN Show(w, "alert") ELSE UNCHANGED box
  /\ UNCHANGED <<cookies, alive, page, auth, started, cur, mixed, bounds>>

\* f_updateOperCmdResponse: an acknowledgement empties the text, a page is appended, and
\* the end only shown where no page was. The form of another tab is not followed.
Updated(s, q) ==
  IF q.seg = "null" \/ s.tab # "oper" \/ s.node = None THEN s
  ELSE [s EXCEPT !.area = TRUE,
         !.text = IF s.area /\ q.op = "start" THEN {}
                  ELSE IF s.area /\ q.seg = "end" THEN @
                  ELSE @ \union ({q.out} \ {0})]

\* The button tells whether its command goes on.
Labelled(s, q) ==
  IF q.seg = "next" THEN
    [s EXCEPT !.label = IF ~s.paused /\ q.for = "btn" THEN "Stop" ELSE @, !.for = q.for]
  ELSE IF q.seg = "end" /\ s.for = "btn" /\ q.for \in {"btn", "old"} THEN
    [s EXCEPT !.label = "Run"]
  ELSE s

\* Faulty: any answer without an _end has the next page to come.
SegmentGoesOn(s, q) ==
  [s EXCEPT !.seg = IF q.seg = "end" THEN "end" ELSE "next", !.run = q.run]

Segment(s, q) ==
  [s EXCEPT !.seg = q.seg, !.run = IF q.seg = "next" THEN q.run ELSE 0]

\* Faulty: a request that fails leaves the box up.
LostAnswerWaits(w, q) ==
  /\ q.code = "lost"
  /\ Done(w, q) /\ UNCHANGED <<shell, win, started, cur, mixed, bounds>>

\* f_isResponseOK lets everything pass once the user is logged out, and then fails.
LostAnswer(w, q) ==
  /\ q.code = "lost"
  /\ Done(w, q)
  /\ IF Logined THEN Show(w, "none") /\ UNCHANGED win
                ELSE Cut(w, win[w]) /\ UNCHANGED box
  /\ UNCHANGED <<cookies, alive, page, auth, started, cur, mixed, bounds>>

\* Stopped meanwhile, and the task has not yet seen it.
IgnoredAnswer(w, q) ==
  /\ q.code # "lost" /\ win[w].seg = "stop"
  /\ Done(w, q)
  /\ Cut(w, win[w])
  /\ UNCHANGED <<shell, started, cur, mixed, bounds>>

FilesAnswer(w, q) ==
  /\ q.code \notin {"lost", "none"} /\ q.for = "files" /\ win[w].seg # "stop"
  /\ q.code = "expired" => ~UserLogined
  /\ Done(w, q)
  /\ LET s == [Segment(win[w], q) EXCEPT !.for = "files"]
     IN  \/ /\ q.seg = "null" /\ Cut(w, s) /\ UNCHANGED box
         \/ /\ q.seg = "next"
            /\ Set(w, [s EXCEPT !.list = @ \union ({q.out} \ {0})]) /\ UNCHANGED box
         \/ /\ q.seg = "end"
            /\ Set(w, [s EXCEPT !.offered = s.list]) /\ Show(w, "none")
  /\ UNCHANGED <<cookies, alive, page, auth, started, cur, mixed, bounds>>

RunAnswer(w, q) ==
  /\ q.code \notin {"lost", "none"} /\ q.for \in {"btn", "old"} /\ win[w].seg # "stop"
  /\ q.code = "expired" => ~UserLogined
  /\ Done(w, q)
  /\ Set(w, Updated(Labelled(Segment(win[w], q), q), q))
  /\ Show(w, "none")
  /\ UNCHANGED <<cookies, alive, page, auth, started, cur, mixed, bounds>>

OpCmdCb(w, q) ==
  \/ LostAnswer(w, q) \/ IgnoredAnswer(w, q) \/ FilesAnswer(w, q) \/ RunAnswer(w, q)
  \/ win[w].seg # "stop" /\ SentHome(w, q)

Deliver(w, q) ==
  /\ page[w] = "main" /\ Code(q) # "none"
  /\ \/ q.op = "tree" /\ (TreeAnswer(w, q) \/ SentHome(w, q))
     \/ q.op # "tree" /\ q.for = "host" /\ (HostAnswer(w, q) \/ SentHome(w, q))
     \/ q.op # "tree" /\ q.for # "host" /\ OpCmdCb(w, q)

----------------------------------------------------------------------------

\* A login, or a session that ends, changes whose commands the others poll.
Entered(w) ==
  /\ Authenticated(w)
  /\ Mix(\E v \in Window : Live(v))
  /\ UNCHANGED <<win, net, started, cur, bounds>>

Ended(u) ==
  /\ SessionEnds(u)
  /\ Fault
  /\ cur' = [cur EXCEPT ![u] = NoCommand]
  /\ UNCHANGED <<win, net, started, mixed>>

\* Logging in, and loading the page again, both bounded
Visit(w) ==
  /\ \/ \E u \in User : Login(w, u)
     \/ page[w] = "main" /\ Reload(w)
  /\ visits < MaxVisits /\ visits' = visits + 1
  /\ UNCHANGED <<win, net, started, cur, mixed, clicks, faults>>

ShellStep(w) ==
  /\ \/ LoginRoot(w) \/ Refused(w) \/ LoginLost(w)
     \/ HandleLogout(w) \/ LogoutYes(w) \/ RebootYes(w) \/ Dismiss(w)
     \/ page[w] # "main" /\ Reload(w)
  /\ UNCHANGED console

UserStep(w) ==
  \/ \E t \in {"conf", "oper"} : TabClick(w, t)
  \/ \E n \in Command \union {Reboot, None} : NodeClick(w, n)
  \/ RunClick(w) \/ StopClick(w) \/ PauseClick(w) \/ FilesClick(w)

Served(w, k)    == \E q \in net[w] : q.for = k /\ (Serve(w, q) \/ Lose(w, q))
Delivered(w, k) == \E q \in net[w] : q.for = k /\ Deliver(w, q)

WindowStep(w) ==
  \/ OnReady(w) \/ Task(w) \/ Entered(w) \/ Visit(w) \/ ShellStep(w) \/ UserStep(w)
  \/ \E k \in Kind : Served(w, k) \/ Delivered(w, k)

Next ==
  \/ \E w \in Window : WindowStep(w)
  \/ \E u \in User : Ended(u)
  \/ CookiesExpire /\ Fault /\ UNCHANGED <<win, net, started, cur, mixed>>

\* The browser runs its timer and callbacks, and every request is answered or given up;
\* nothing is assumed of users.
Fairness ==
  \A w \in Window :
    /\ WF_vars(Task(w))
    /\ \A k \in Kind : WF_vars(Served(w, k)) /\ WF_vars(Delivered(w, k))

Spec == Init /\ [][Next]_vars /\ Fairness

----------------------------------------------------------------------------
(* Properties *)

TypeOK ==
  /\ ShellTypeOK
  /\ win \in [Window -> WinType] /\ net \in [Window -> SUBSET Request]
  /\ started \in Seq(Command \union {"files", "host"}) /\ Len(started) <= MaxRuns
  /\ cur \in [User -> [run : 0 .. MaxRuns, left : 0 .. MaxPages]]
  /\ mixed \in 0 .. MaxMixed
  /\ clicks \in 0 .. MaxClicks /\ visits \in 0 .. MaxVisits /\ faults \in 0 .. MaxFaults

\* Whatever is clicked while answers are under way, a command has one request in flight
\* or one poll to be sent, never two: m_segmentId is cleared as it is sent and set only
\* by an answer, else a window would ask for pages faster and faster.
OneChain ==
  \A w \in Window : \A q \in Commands(w) :
    /\ page[w] = "main" => ~(win[w].seg = "next" /\ win[w].run = q.run)
    /\ \A p \in Commands(w) : p.run = q.run => p = q

\* As long as commands of a session do not overlap and nothing is clicked while one is
\* in flight, output is shown in the panel of the node it was run from, the files
\* offered come from the list of files and the host name from its command, though all
\* of them go through one m_segmentId and one command at a time at the server.
OwnOutput ==
  mixed = 0 => \A w \in Window : page[w] = "main" =>
    /\ \A r \in win[w].text : started[r] = win[w].node
    /\ \A r \in win[w].offered : started[r] = "files"
    /\ win[w].host # 0 => started[win[w].host] = "host"

\* The wait box, which keeps the user from everything else, goes in the end, whatever is
\* lost, refused or timed out on the way, unless the callback failed or ignored the
\* answer (an answer without a segment, or within a second and a half of a tab's click).
WaitEnds ==
  \A w \in Window :
    (page[w] = "main" /\ box[w] = "wait") ~> (box[w] # "wait" \/ win[w].cut \/ mixed > 0)

\* A window stops polling once its command has ended, failed, been refused or stopped, or
\* the session is gone: every way a chain of requests ends must leave m_segmentId clear.
PollsEnd ==
  \A w \in Window :
    []<>(~Live(w) \/ win[w].paused \/ box[w] = "alert" \/ mixed > 0)
============================================================================
