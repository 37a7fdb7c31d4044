------------------------------ MODULE Chunker ------------------------------
(* The paging of operational commands: the chunker daemon (ChunkerManager), *)
(* the process group it forks for a command (ChunkerProcessor: a writer     *)
(* that becomes the command and a reader that cuts its output into chunk    *)
(* files), and the CGI requests that fetch the chunks one at a time         *)
(* (MultiResponseCommand). A token is a session id: the daemon, the files   *)
(* and the requests know a command by the session that started it only.     *)
(* Output is abstracted to numbered units (lines): group g has produced     *)
(* units 1..outp[g], read 1..rd[g] and filed 1..wr[g].                      *)
EXTENDS Integers, Sequences, FiniteSets

CONSTANTS
  Token,        \* session ids
  Client,       \* browser windows
  TokenOf,      \* the session each window is logged in to
  MaxGroup,     \* bound: process groups ever forked
  MaxOut,       \* bound: units of output of a command
  MaxRuns,      \* bound: commands the users run
  MaxPauses,    \* bound: times they press Pause or Stop
  ChunkSize,    \* _chunk_size, in units
  KillTimeout,  \* _kill_timeout, in ticks of the clock
  Backlog,      \* listen(_listen_sock, 5)
  Timely,       \* the fixed sleeps are long enough for what they wait for
  Events        \* which events of the environment may happen

EventKinds == {"time", "pause", "abort", "restart", "disk", "writer"}

ASSUME ConstantsOK ==
  /\ Token # {} /\ TokenOf \in [Client -> Token]
  /\ MaxGroup \in Nat /\ MaxOut \in Nat /\ MaxRuns \in Nat /\ MaxPauses \in Nat
  /\ ChunkSize \in Nat /\ KillTimeout \in Nat /\ Backlog \in Nat
  /\ Timely \in BOOLEAN /\ Events \subseteq EventKinds

VARIABLES
  up, dpc,        \* the daemon: running, and between reads or culling
  listenq,        \* connections waiting for accept()
  procColl,       \* the keys of _proc_coll
  age,            \* cur_time - _time of each entry, saturated
  contact,        \* time since the daemon last heard of the token (history)
  culling,        \* entry whose files are removed and group not yet killed
  pidFile,        \* group named by CHUNKER_RESP_PID/<token>, 0 when absent
  forked, tokOf,  \* groups forked so far, and the token each was started for
  wpc, rpc,       \* the writer (then the command) and the reader of a group
  outp, rd, wr,   \* units produced, read from the pipe, and put in a file
  ct, cut, named, \* chunk_ct; the open chunk's last unit; is its name linked
  files, endBy,   \* multi_<token>_<k>, and the group that made multi_<token>_end
  cst, next,      \* a window's polling state and the chunk it asks for
  cpc, seg,       \* its CGI request and the chunk that request has read
  last,           \* newest unit shown since the command started (history)
  runs, pauses    \* clicks so far

daemon == <<up, dpc, listenq, procColl, age, contact, culling, pidFile>>
group  == <<forked, tokOf, wpc, rpc, outp, rd, wr, ct, cut, named>>
disk   == <<files, endBy>>
window == <<cst, next, cpc, seg, last, runs, pauses>>
vars   == <<daemon, group, disk, window>>

Group   == 1..MaxGroup
Unit    == 0..MaxOut
ChunkNo == 0..MaxOut
Chunk   == [grp: 0..MaxGroup, from: Unit, to: Unit]  \* units from+1..to of grp
NoChunk == [grp |-> 0, from |-> 0, to |-> 0]
Nothing == [k \in ChunkNo |-> NoChunk]
Conn    == [client: Client, token: Token, msg: {"open", "empty", "start", "update"}]

WriterPc == {"none", "start", "run", "gone"}
ReaderPc == {"none", "loop", "chunk", "last", "end", "gone"}
CgiPc    == {"none", "start", "wait", "stat", "read", "remove", "statEnd", "update", "end"}

TypeOK ==
  /\ up \in BOOLEAN /\ dpc \in {"idle", "cull"}
  /\ listenq \in Seq(Conn)
  /\ procColl \subseteq Token /\ culling \subseteq Token
  /\ age \in [Token -> 0..(KillTimeout + 1)] /\ contact \in [Token -> 0..(KillTimeout + 1)]
  /\ pidFile \in [Token -> 0..MaxGroup] /\ endBy \in [Token -> 0..MaxGroup]
  /\ forked \in 0..MaxGroup /\ tokOf \in [Group -> Token]
  /\ wpc \in [Group -> WriterPc] /\ rpc \in [Group -> ReaderPc]
  /\ outp \in [Group -> Unit] /\ rd \in [Group -> Unit] /\ wr \in [Group -> Unit]
  /\ ct \in [Group -> Nat] /\ cut \in [Group -> Unit] /\ named \in [Group -> BOOLEAN]
  /\ files \in [Token -> [ChunkNo -> Chunk]]
  /\ cst \in [Client -> {"off", "polling", "paused"}] /\ next \in [Client -> Nat]
  /\ cpc \in [Client -> CgiPc] /\ seg \in [Client -> Chunk]
  /\ last \in [Client -> [grp: 0..MaxGroup, to: Unit]]
  /\ runs \in 0..MaxRuns /\ pauses \in 0..MaxPauses

Init ==
  /\ up = TRUE /\ dpc = "idle" /\ listenq = <<>> /\ procColl = {} /\ culling = {}
  /\ age = [t \in Token |-> 0] /\ contact = [t \in Token |-> 0]
  /\ pidFile = [t \in Token |-> 0] /\ endBy = [t \in Token |-> 0]
  /\ forked = 0 /\ tokOf = [g \in Group |-> CHOOSE t \in Token : TRUE]
  /\ wpc = [g \in Group |-> "none"] /\ rpc = [g \in Group |-> "none"]
  /\ outp = [g \in Group |-> 0] /\ rd = [g \in Group |-> 0] /\ wr = [g \in Group |-> 0]
  /\ ct = [g \in Group |-> 0] /\ cut = [g \in Group |-> 0]
  /\ named = [g \in Group |-> FALSE]
  /\ files = [t \in Token |-> Nothing]
  /\ cst = [c \in Client |-> "off"] /\ next = [c \in Client |-> 0]
  /\ cpc = [c \in Client |-> "none"] /\ seg = [c \in Client |-> NoChunk]
  /\ last = [c \in Client |-> [grp |-> 0, to |-> 0]]
  /\ runs = 0 /\ pauses = 0

----------------------------------------------------------------------------
(* Helpers *)

\* With the fixed sleeps long enough, a forked writer has registered its group
\* before the daemon reads again and before the request that started it answers.
Settled == Timely => \A g \in Group : wpc[g] # "start"

\* Faulty: the timeout is compared the wrong way round, and nothing ever expires.
ExpiredNever(t) == t \in procColl /\ age[t] < 0

Expired(t) == t \in procColl /\ age[t] > KillTimeout

Older(a) == [t \in Token |-> IF a[t] > KillTimeout THEN a[t] ELSE a[t] + 1]

\* Faulty variants, each of the definition that follows it (or a later one), stand
\* beside the code they get wrong; the runs show that the properties notice them.
\* Faulty: the pid file is not found, so nothing is killed.
VictimsNone(T) == {}

\* kill_process: the group the pid file names, if there is a file. The file stays.
Victims(T) == {pidFile[t] : t \in T}
Kill(dead) ==
  /\ wpc' = [g \in Group |-> IF g \in dead THEN "gone" ELSE wpc[g]]
  /\ rpc' = [g \in Group |-> IF g \in dead THEN "gone" ELSE rpc[g]]

\* start_new, as the daemon sees it: the child that will be the reader of the new
\* group, and its child that will be the writer; dead is killed before.
Fork(t, dead) ==
  LET new == forked + 1 IN
  /\ forked < MaxGroup
  /\ forked' = new
  /\ tokOf' = [tokOf EXCEPT ![new] = t]
  /\ wpc' = [g \in Group |-> IF g = new THEN "start" ELSE IF g \in dead THEN "gone" ELSE wpc[g]]
  /\ rpc' = [g \in Group |-> IF g = new THEN "loop" ELSE IF g \in dead THEN "gone" ELSE rpc[g]]

\* rm -f of chunk files: a reader that has one open goes on writing to no name.
Unlink(T, K) ==
  /\ files' = [t \in Token |-> [k \in ChunkNo |->
                 IF t \in T /\ k \in K THEN NoChunk ELSE files[t][k]]]
  /\ named' = [g \in Group |-> named[g] /\ ~(tokOf[g] \in T /\ ct[g] \in K)]

\* Faulty: the end marker is not among the removed files.
CleanChunks(T) == Unlink(T, ChunkNo) /\ UNCHANGED endBy

\* rm -f multi_<token>* for every token of T.
Clean(T) == /\ Unlink(T, ChunkNo)
            /\ endBy' = [t \in Token |-> IF t \in T THEN 0 ELSE endBy[t]]

Present(t, k) == k \in ChunkNo /\ files[t][k].grp # 0

----------------------------------------------------------------------------
(* The daemon: read, process, kill_process, shutdown *)

\* One accept() and one read(): the daemon waits for a connection's first message.
Accept(msgs) ==
  /\ up /\ dpc = "idle" /\ Settled
  /\ listenq # <<>> /\ Head(listenq).msg \in msgs
  /\ listenq' = Tail(listenq)

HandleEmpty ==
  /\ Accept({"empty"})
  /\ UNCHANGED <<up, dpc, procColl, age, contact, culling, pidFile, group, disk, window>>

\* Faulty: an update of a known token leaves its time alone.
HandleUpdateNoTime ==
  LET t == Head(listenq).token IN
  /\ Accept({"update"})
  /\ t \in procColl
  /\ contact' = [contact EXCEPT ![t] = 0]
  /\ dpc' = "cull"
  /\ UNCHANGED <<up, procColl, age, culling, pidFile, group, disk, window>>

HandleUpdate ==
  LET t == Head(listenq).token IN
  /\ Accept({"update"})
  /\ t \in procColl
  /\ age' = [age EXCEPT ![t] = 0]
  /\ contact' = [contact EXCEPT ![t] = 0]
  /\ dpc' = "cull"
  /\ UNCHANGED <<up, procColl, culling, pidFile, group, disk, window>>

\* A start for a known token: insert() does not replace the entry, nor its _time.
HandleRestart ==
  LET t == Head(listenq).token IN
  /\ Accept({"start"})
  /\ t \in procColl
  /\ Fork(t, Victims({t}))
  /\ Clean({t})
  /\ contact' = [contact EXCEPT ![t] = 0]
  /\ dpc' = "cull"
  /\ UNCHANGED <<up, procColl, age, culling, pidFile, outp, rd, wr, ct, cut, window>>

\* A start, or an update (then with an empty command), for a token not in the table.
HandleNew ==
  LET t == Head(listenq).token IN
  /\ Accept({"start", "update"})
  /\ t \notin procColl
  /\ Fork(t, {})
  /\ procColl' = procColl \union {t}
  /\ age' = [age EXCEPT ![t] = 0]
  /\ contact' = [contact EXCEPT ![t] = 0]
  /\ dpc' = "cull"
  /\ UNCHANGED <<up, culling, pidFile, outp, rd, wr, ct, cut, named, disk, window>>

\* No connection: process(NULL).
HandleNothing ==
  /\ up /\ dpc = "idle" /\ listenq = <<>>
  /\ \E t \in Token : Expired(t)
  /\ dpc' = "cull"
  /\ UNCHANGED <<up, listenq, procColl, age, contact, culling, pidFile, group, disk, window>>

\* The cull loop removes an entry's files, then kills its group and erases it.
CullClean(t) ==
  /\ dpc = "cull" /\ culling = {} /\ Expired(t)
  /\ Clean({t})
  /\ culling' = {t}
  /\ UNCHANGED <<up, dpc, listenq, procColl, age, contact, pidFile, forked, tokOf, wpc, rpc,
                 outp, rd, wr, ct, cut, window>>

\* Faulty: the entry is erased without killing its group.
CullErase(t) ==
  /\ t \in culling
  /\ procColl' = procColl \ {t}
  /\ culling' = {}
  /\ UNCHANGED <<up, dpc, listenq, age, contact, pidFile, group, disk, window>>

CullKill(t) ==
  /\ t \in culling
  /\ Kill(Victims({t}))
  /\ procColl' = procColl \ {t}
  /\ culling' = {}
  /\ UNCHANGED <<up, dpc, listenq, age, contact, pidFile, forked, tokOf, outp, rd, wr, ct, cut,
                 named, disk, window>>

CullDone ==
  /\ dpc = "cull" /\ culling = {}
  /\ \A t \in Token : ~Expired(t)
  /\ dpc' = "idle"
  /\ UNCHANGED <<up, listenq, procColl, age, contact, culling, pidFile, group, disk, window>>

\* SIGTERM: kill_all, then every file goes; queued connections die with the socket.
Shutdown ==
  /\ "restart" \in Events /\ up /\ dpc = "idle" /\ Settled
  /\ Kill(Victims(procColl))
  /\ Clean(Token)
  /\ up' = FALSE /\ procColl' = {} /\ listenq' = <<>>
  /\ UNCHANGED <<dpc, age, contact, culling, pidFile, forked, tokOf, outp, rd, wr, ct, cut, window>>

\* init() of the next daemon.
Boot ==
  /\ ~up
  /\ Clean(Token)
  /\ up' = TRUE
  /\ UNCHANGED <<dpc, listenq, procColl, age, contact, culling, pidFile, forked, tokOf, wpc, rpc,
                 outp, rd, wr, ct, cut, window>>

\* A tick is a fraction of _kill_timeout, far longer than a request, a fork or an
\* iteration of the daemon: an attended session is heard of within the timeout.
Attended(t) ==
  \/ \E c \in Client : TokenOf[c] = t /\ (cst[c] = "polling" \/ cpc[c] # "none")
  \/ \E i \in 1..Len(listenq) : listenq[i].token = t
Tick ==
  /\ "time" \in Events /\ up /\ dpc = "idle" /\ Settled
  /\ \A t \in Token : Attended(t) => contact[t] < KillTimeout
  /\ age' = Older(age) /\ contact' = Older(contact)
  /\ UNCHANGED <<up, dpc, listenq, procColl, culling, pidFile, group, disk, window>>

----------------------------------------------------------------------------
(* The process group of a command: writer, command, reader *)

WriterRegister(g) ==
  /\ wpc[g] = "start"
  /\ pidFile' = [pidFile EXCEPT ![tokOf[g]] = g]
  /\ wpc' = [wpc EXCEPT ![g] = "run"]
  /\ UNCHANGED <<up, dpc, listenq, procColl, age, contact, culling, forked, tokOf, rpc, outp, rd,
                 wr, ct, cut, named, disk, window>>

\* No session file, no such user, setgroups, setgid or setuid refused.
WriterFail(g) ==
  /\ "writer" \in Events
  /\ wpc[g] = "start"
  /\ wpc' = [wpc EXCEPT ![g] = "gone"]
  /\ UNCHANGED <<daemon, forked, tokOf, rpc, outp, rd, wr, ct, cut, named, disk, window>>

CommandOutput(g) ==
  /\ wpc[g] = "run" /\ outp[g] < MaxOut
  /\ outp' = [outp EXCEPT ![g] = @ + 1]
  /\ UNCHANGED <<daemon, forked, tokOf, wpc, rpc, rd, wr, ct, cut, named, disk, window>>

CommandExit(g) ==
  /\ wpc[g] = "run"
  /\ wpc' = [wpc EXCEPT ![g] = "gone"]
  /\ UNCHANGED <<daemon, forked, tokOf, rpc, outp, rd, wr, ct, cut, named, disk, window>>

\* fopen(file, "w") of chunk number ct[g]: an empty file, or an emptied one.
Open(g) ==
  /\ files' = [files EXCEPT ![tokOf[g]][ct[g]] = [grp |-> g, from |-> wr[g], to |-> wr[g]]]
  /\ named' = [named EXCEPT ![g] = TRUE]

\* fwrite and fclose of units wr[g]+1..upto to the open chunk.
Fill(g, upto) ==
  files' = IF named[g]
           THEN [files EXCEPT ![tokOf[g]][ct[g]] = [grp |-> g, from |-> wr[g], to |-> upto]]
           ELSE files

\* read() from the pipe, and process_chunk without the size or the time to file.
ReaderRead(g) ==
  /\ rpc[g] = "loop"
  /\ \E r \in (rd[g] + 1)..outp[g] :
       /\ r - wr[g] <= ChunkSize
       /\ rd' = [rd EXCEPT ![g] = r]
  /\ UNCHANGED <<daemon, forked, tokOf, wpc, rpc, outp, wr, ct, cut, named, disk, window>>

\* Faulty: the cut takes one unit more than the buffer holds.
ReaderCutPast(g) ==
  /\ rpc[g] = "loop"
  /\ \E r \in (rd[g] + 1)..outp[g] : \E u \in (wr[g] + 1)..(r + 1) :
       /\ rd' = [rd EXCEPT ![g] = r]
       /\ cut' = [cut EXCEPT ![g] = u]
  /\ rpc' = [rpc EXCEPT ![g] = "chunk"]
  /\ Open(g)
  /\ UNCHANGED <<daemon, forked, tokOf, wpc, outp, wr, ct, endBy, window>>

\* read(), and process_chunk that files the units up to a line break.
ReaderCut(g) ==
  /\ rpc[g] = "loop"
  /\ \E r \in (rd[g] + 1)..outp[g] : \E u \in (wr[g] + 1)..r :
       /\ rd' = [rd EXCEPT ![g] = r]
       /\ cut' = [cut EXCEPT ![g] = u]
  /\ rpc' = [rpc EXCEPT ![g] = "chunk"]
  /\ Open(g)
  /\ UNCHANGED <<daemon, forked, tokOf, wpc, outp, wr, ct, endBy, window>>

\* The same when fopen fails: the units are cut from the buffer all the same.
ReaderCutFails(g) ==
  /\ "disk" \in Events /\ rpc[g] = "loop"
  /\ \E r \in (rd[g] + 1)..outp[g] : \E u \in (wr[g] + 1)..r :
       /\ rd' = [rd EXCEPT ![g] = r]
       /\ wr' = [wr EXCEPT ![g] = u]
  /\ UNCHANGED <<daemon, forked, tokOf, wpc, rpc, outp, ct, cut, named, disk, window>>

\* Faulty: the units put in the file stay in the buffer.
ReaderFillKeep(g) ==
  /\ rpc[g] = "chunk"
  /\ Fill(g, cut[g])
  /\ ct' = [ct EXCEPT ![g] = @ + 1]
  /\ named' = [named EXCEPT ![g] = FALSE]
  /\ rpc' = [rpc EXCEPT ![g] = "loop"]
  /\ UNCHANGED <<daemon, forked, tokOf, wpc, outp, rd, wr, cut, endBy, window>>

ReaderFill(g) ==
  /\ rpc[g] = "chunk"
  /\ Fill(g, cut[g])
  /\ wr' = [wr EXCEPT ![g] = cut[g]]
  /\ ct' = [ct EXCEPT ![g] = @ + 1]
  /\ named' = [named EXCEPT ![g] = FALSE]
  /\ rpc' = [rpc EXCEPT ![g] = "loop"]
  /\ UNCHANGED <<daemon, forked, tokOf, wpc, outp, rd, cut, endBy, window>>

\* Faulty: the reader stops when the command does, without draining the pipe.
AtExit(g) == rpc[g] = "loop" /\ wpc[g] = "gone"

\* End of the pipe: its writers are gone and it is drained. process_chunk_end.
AtEof(g) == rpc[g] = "loop" /\ wpc[g] = "gone" /\ rd[g] = outp[g]
ReaderEof(g) ==
  /\ AtEof(g)
  /\ Open(g)
  /\ rpc' = [rpc EXCEPT ![g] = "last"]
  /\ UNCHANGED <<daemon, forked, tokOf, wpc, outp, rd, wr, ct, cut, endBy, window>>

ReaderEofFails(g) ==
  /\ "disk" \in Events
  /\ AtEof(g)
  /\ wr' = [wr EXCEPT ![g] = rd[g]]
  /\ rpc' = [rpc EXCEPT ![g] = "end"]
  /\ UNCHANGED <<daemon, forked, tokOf, wpc, outp, rd, ct, cut, named, disk, window>>

ReaderLast(g) ==
  /\ rpc[g] = "last"
  /\ Fill(g, rd[g])
  /\ wr' = [wr EXCEPT ![g] = rd[g]]
  /\ named' = [named EXCEPT ![g] = FALSE]
  /\ rpc' = [rpc EXCEPT ![g] = "end"]
  /\ UNCHANGED <<daemon, forked, tokOf, wpc, outp, rd, ct, cut, endBy, window>>

\* Faulty: the bumper file is forgotten.
ReaderNoEnd(g) ==
  /\ rpc[g] = "end"
  /\ rpc' = [rpc EXCEPT ![g] = "gone"]
  /\ UNCHANGED <<daemon, forked, tokOf, wpc, outp, rd, wr, ct, cut, named, disk, window>>

\* The bumper file, unless its fopen fails.
ReaderEnd(g) ==
  /\ rpc[g] = "end"
  /\ \/ endBy' = [endBy EXCEPT ![tokOf[g]] = g]
     \/ "disk" \in Events /\ UNCHANGED endBy
  /\ rpc' = [rpc EXCEPT ![g] = "gone"]
  /\ UNCHANGED <<daemon, forked, tokOf, wpc, outp, rd, wr, ct, cut, named, files, window>>

----------------------------------------------------------------------------
(* A window and its CGI requests: MultiResponseCommand::init, process, get_resp *)

\* connect(): blocks while the backlog is full, fails when there is no daemon.
Connect(c) ==
  IF up
  THEN /\ Len(listenq) < Backlog
       /\ listenq' = Append(listenq, [client |-> c, token |-> TokenOf[c], msg |-> "open"])
  ELSE UNCHANGED listenq

\* write() on the request's connection; without one the failure goes unnoticed.
Write(c, msg) ==
  listenq' = [i \in 1..Len(listenq) |->
                IF listenq[i].client = c /\ listenq[i].msg = "open"
                THEN [listenq[i] EXCEPT !.msg = msg] ELSE listenq[i]]

\* The user runs a command: the window forgets the segment it was polling.
Start(c) ==
  /\ cpc[c] = "none" /\ runs < MaxRuns
  /\ Connect(c)
  /\ runs' = runs + 1
  /\ cst' = [cst EXCEPT ![c] = "off"]
  /\ cpc' = [cpc EXCEPT ![c] = "start"]
  /\ UNCHANGED <<up, dpc, procColl, age, contact, culling, pidFile, group, disk,
                 next, seg, last, pauses>>

\* start_new_proc, up to its sleep.
CgiStart(c) ==
  /\ cpc[c] = "start"
  /\ Write(c, "start")
  /\ cpc' = [cpc EXCEPT ![c] = "wait"]
  /\ UNCHANGED <<up, dpc, procColl, age, contact, culling, pidFile, group, disk,
                 cst, next, seg, last, runs, pauses>>

\* After the sleep it answers multi_<token>_0; the update it also writes is never
\* read: the daemon reads a connection once.
CgiStarted(c) ==
  /\ cpc[c] = "wait"
  /\ Timely => Settled /\ \A i \in 1..Len(listenq) : listenq[i].client # c
  /\ cst' = [cst EXCEPT ![c] = "polling"]
  /\ next' = [next EXCEPT ![c] = 0]
  /\ last' = [last EXCEPT ![c] = [grp |-> 0, to |-> 0]]
  /\ cpc' = [cpc EXCEPT ![c] = "none"]
  /\ UNCHANGED <<daemon, group, disk, seg, runs, pauses>>

\* The task of f_startSegmentCommand asks for the segment the last answer named.
Poll(c) ==
  /\ cst[c] = "polling" /\ cpc[c] = "none"
  /\ Connect(c)
  /\ cpc' = [cpc EXCEPT ![c] = "stat"]
  /\ UNCHANGED <<up, dpc, procColl, age, contact, culling, pidFile, group, disk,
                 cst, next, seg, last, runs, pauses>>

\* lstat of the chunk file
CgiStat(c) ==
  /\ cpc[c] = "stat"
  /\ cpc' = [cpc EXCEPT ![c] = IF Present(TokenOf[c], next[c]) THEN "read" ELSE "statEnd"]
  /\ UNCHANGED <<daemon, group, disk, cst, next, seg, last, runs, pauses>>

\* Faulty: the token answered is the one asked for.
CgiReadSame(c) ==
  LET t == TokenOf[c] IN
  /\ cpc[c] = "read"
  /\ IF Present(t, next[c])
     THEN /\ seg' = [seg EXCEPT ![c] = files[t][next[c]]]
          /\ cpc' = [cpc EXCEPT ![c] = "remove"]
     ELSE /\ cpc' = [cpc EXCEPT ![c] = "update"]
          /\ UNCHANGED seg
  /\ UNCHANGED <<daemon, group, disk, cst, next, last, runs, pauses>>

\* fopen, fgets to the end, next token; or the file is gone again: same token.
CgiRead(c) ==
  LET t == TokenOf[c] IN
  /\ cpc[c] = "read"
  /\ IF Present(t, next[c])
     THEN /\ seg' = [seg EXCEPT ![c] = files[t][next[c]]]
          /\ next' = [next EXCEPT ![c] = @ + 1]
          /\ cpc' = [cpc EXCEPT ![c] = "remove"]
     ELSE /\ cpc' = [cpc EXCEPT ![c] = "update"]
          /\ UNCHANGED <<seg, next>>
  /\ UNCHANGED <<daemon, group, disk, cst, last, runs, pauses>>

\* sudo rm -f of the chunk's name
CgiRemove(c) ==
  /\ cpc[c] = "remove"
  /\ Unlink({TokenOf[c]}, {next[c] - 1})
  /\ cpc' = [cpc EXCEPT ![c] = "update"]
  /\ UNCHANGED <<daemon, forked, tokOf, wpc, rpc, outp, rd, wr, ct, cut, endBy,
                 cst, next, seg, last, runs, pauses>>

\* No chunk: lstat of the end marker
CgiStatEnd(c) ==
  /\ cpc[c] = "statEnd"
  /\ cpc' = [cpc EXCEPT ![c] = IF endBy[TokenOf[c]] # 0 THEN "end" ELSE "update"]
  /\ UNCHANGED <<daemon, group, disk, cst, next, seg, last, runs, pauses>>

\* get_resp writes the update; the answer is shown, or ends the polling.
CgiUpdate(c) ==
  /\ cpc[c] \in {"update", "end"}
  /\ Write(c, "update")
  /\ last' = IF seg[c].grp = 0 THEN last
             ELSE [last EXCEPT ![c] = [grp |-> seg[c].grp, to |-> seg[c].to]]
  /\ seg' = [seg EXCEPT ![c] = NoChunk]
  /\ cst' = IF cpc[c] = "end" THEN [cst EXCEPT ![c] = "off"] ELSE cst
  /\ cpc' = [cpc EXCEPT ![c] = "none"]
  /\ UNCHANGED <<up, dpc, procColl, age, contact, culling, pidFile, group, disk,
                 next, runs, pauses>>

\* The web server kills the request: the daemon reads an end of file, the window
\* gets an error and has no segment to ask for.
CgiAbort(c) ==
  /\ "abort" \in Events /\ cpc[c] # "none"
  /\ Write(c, "empty")
  /\ cpc' = [cpc EXCEPT ![c] = "none"]
  /\ cst' = [cst EXCEPT ![c] = "off"]
  /\ seg' = [seg EXCEPT ![c] = NoChunk]
  /\ UNCHANGED <<up, dpc, procColl, age, contact, culling, pidFile, group, disk,
                 next, last, runs, pauses>>

\* Pause and Resume buttons; leaving the panel or Stop makes it "off".
Pause(c) ==
  /\ "pause" \in Events /\ cpc[c] = "none" /\ cst[c] = "polling"
  /\ pauses < MaxPauses /\ pauses' = pauses + 1
  /\ \E s \in {"paused", "off"} : cst' = [cst EXCEPT ![c] = s]
  /\ UNCHANGED <<daemon, group, disk, next, cpc, seg, last, runs>>

Resume(c) ==
  /\ cst[c] = "paused" /\ cpc[c] = "none"
  /\ cst' = [cst EXCEPT ![c] = "polling"]
  /\ UNCHANGED <<daemon, group, disk, next, cpc, seg, last, runs, pauses>>

----------------------------------------------------------------------------
DaemonStep == \/ HandleEmpty \/ HandleUpdate \/ HandleRestart \/ HandleNew \/ HandleNothing
              \/ (\E t \in Token : CullClean(t) \/ CullKill(t)) \/ CullDone

ReaderStep(g) == \/ ReaderRead(g) \/ ReaderCut(g) \/ ReaderCutFails(g) \/ ReaderFill(g)
                 \/ ReaderEof(g) \/ ReaderEofFails(g) \/ ReaderLast(g) \/ ReaderEnd(g)

WriterStep(g) == WriterRegister(g) \/ WriterFail(g)

CommandStep(g) == CommandOutput(g) \/ CommandExit(g)

CgiStep(c) == \/ CgiStart(c) \/ CgiStarted(c) \/ CgiStat(c) \/ CgiRead(c) \/ CgiRemove(c)
              \/ CgiStatEnd(c) \/ CgiUpdate(c)

UserStep(c) == Start(c) \/ Pause(c) \/ Resume(c)

Next == \/ DaemonStep \/ Shutdown \/ Boot \/ Tick
        \/ \E g \in Group : WriterStep(g) \/ CommandStep(g) \/ ReaderStep(g)
        \/ \E c \in Client : CgiStep(c) \/ Poll(c) \/ CgiAbort(c) \/ UserStep(c)

Spec == Init /\ [][Next]_vars

\* Processes the kernel schedules keep running, the clock goes on, and the task of a
\* window that polls goes off every 1500 ms (connect() is served in order: strong
\* fairness). Users may do nothing, and commands may run for ever.
Fairness ==
  /\ WF_vars(DaemonStep) /\ WF_vars(Tick)
  /\ \A g \in Group : WF_vars(WriterStep(g)) /\ WF_vars(ReaderStep(g))
  /\ \A c \in Client : WF_vars(CgiStep(c)) /\ SF_vars(Poll(c))

FairSpec == Spec /\ Fairness

----------------------------------------------------------------------------
(* Properties *)

\* What a request has read continues what its window has shown of the same command:
\* the chunk files, chunk_ct, the cut buffer and the poller's chunk number agree, so
\* no output is shown twice or out of order, whatever is killed, culled or lost.
InOrder == \A c \in Client :
  seg[c].grp # 0 /\ seg[c].grp = last[c].grp => last[c].to <= seg[c].from

\* The end marker is the reader's last act: its maker has exited, the command too,
\* and all the command wrote had been read and offered to a chunk file before.
EndMarkerFinal == \A t \in Token : LET g == endBy[t] IN
  g # 0 => wpc[g] = "gone" /\ rpc[g] = "gone" /\ wr[g] = outp[g]

\* The pages a window is shown are those PagedOutput promises. (The newest page shown
\* once more would be a stutter there: InOrder is what excludes it.)
Promise == INSTANCE PagedOutput WITH
  running <- [c \in Client |-> cst[c] # "off"], shown <- last
PagesInOrder == Promise!Spec

\* Every running command can be reaped: the daemon has an entry for its session, and
\* the session's pid file names its group (kill_process finds nothing else to kill).
Reapable == \A g \in Group :
  wpc[g] = "run" => tokOf[g] \in procColl /\ pidFile[tokOf[g]] = g

\* No page of an earlier command lies where the current command's pages are fetched.
FreshPages == \A g \in Group : wpc[g] \in {"start", "run"} =>
  \A t \in Token : tokOf[g] = t =>
    /\ endBy[t] \in {0, g}
    /\ \A k \in ChunkNo : files[t][k].grp \in {0, g}

\* "go through and cull any orphaned processes": an entry is culled only when nothing
\* was heard of its session for the whole timeout.
OrphansOnly == [][\A t \in culling' \ culling : contact[t] > KillTimeout]_vars

\* "need to determine if the chunker is done": an answer that ends the polling is
\* given only when no output is left in the page it asked for.
EndAfterLastPage == \A c \in Client : cpc[c] = "end" /\ next[c] \in ChunkNo =>
  files[TokenOf[c]][next[c]].from = files[TokenOf[c]][next[c]].to

\* When commands come to an end, so does polling: a window is told the end, whatever
\* was killed or culled meanwhile, unless its user leaves it paused.
CommandsEnd == \A g \in Group : []<>(wpc[g] # "run")
PollingEnds == CommandsEnd => \A c \in Client : (cst[c] = "polling") ~> (cst[c] # "polling")

\* A command nobody asks about any more does not run for ever.
OrphansDie == \A g \in Group :
  (wpc[g] = "run") ~> (wpc[g] = "gone" \/ Attended(tokOf[g]))
============================================================================
