----------------------------- MODULE Sessions -----------------------------
(* The web sessions (Session, Authenticate, Command::validate_session,      *)
(* WebGUI::discard_session). Every request is a process of its own that     *)
(* first cleans up the sessions timed out; all of them share the modify     *)
(* files (the "cookie" files), the configuration directories and their      *)
(* union mounts. Who sent a request is known by its session id only, whose  *)
(* cookie file names the user the request is executed as.                   *)
EXTENDS Naturals

CONSTANTS
  Window,    \* browser windows, each with one request at a time
  User, Sid,
  None,      \* no user, no session
  Absent,    \* no cookie file
  Seats,     \* ways the users may sit at the windows
  Admin,     \* the users of group vyattacfg that are not in group operator
  Timeout,   \* SESSION_TIMEOUT_WINDOW, in ticks of the clock
  Timely     \* requests get through their use of the cookie files within a tick

ASSUME ConstantsOK ==
  /\ Seats \subseteq [Window -> User] /\ Admin \subseteq User
  /\ None \notin User \union Sid /\ Absent \notin User \union {None}
  /\ Timeout \in Nat /\ Timely \in BOOLEAN

VARIABLES
  user,     \* who sits at each window
  cookie,   \* a session's cookie file: absent, empty (None), or naming a user
  age,      \* time since it was touched, saturated (0 when absent)
  dir,      \* sessions whose configuration directories were made
  mounted,  \* sessions with the union mount in place
  changes,  \* sessions with uncommitted changes
  used,     \* ids drawn so far
  id,       \* the session each window was given
  pc, kind, \* where its request is, and what it asks for
  todo,     \* cookie files clean_up_old_sessions has still to look at
  sid,      \* the session it makes, reuses or discards
  as,       \* the user it is executed as
  quiet,    \* time since a request of the session was accepted (history)
  raced     \* two logins of a user have made sessions at once (history)

files == <<cookie, age, dir, mounted, changes, used>>
vars  == <<user, files, id, pc, kind, todo, sid, as, quiet, raced>>

Ticks == 0..(Timeout + 1)
Pc == {"idle", "scan", "umount", "clear", "mount", "unlink",
       "auth", "make", "create", "write", "start", "read", "update", "execute"}

TypeOK ==
  /\ user \in [Window -> User]
  /\ cookie \in [Sid -> User \union {None, Absent}] /\ age \in [Sid -> Ticks]
  /\ mounted \subseteq dir /\ changes \subseteq dir /\ dir \subseteq used /\ used \subseteq Sid
  /\ id \in [Window -> Sid \union {None}] /\ pc \in [Window -> Pc]
  /\ kind \in [Window -> {"login", "op", "conf", "discard"}]
  /\ todo \in [Window -> SUBSET Sid] /\ sid \in [Window -> Sid \union {None}]
  /\ as \in [Window -> User \union {None}]
  /\ quiet \in [Sid -> Ticks] /\ raced \in BOOLEAN

Init ==
  /\ user \in Seats
  /\ cookie = [s \in Sid |-> Absent] /\ age = [s \in Sid |-> 0]
  /\ dir = {} /\ mounted = {} /\ changes = {} /\ used = {}
  /\ id = [w \in Window |-> None] /\ pc = [w \in Window |-> "idle"]
  /\ kind = [w \in Window |-> "login"] /\ todo = [w \in Window |-> {}]
  /\ sid = [w \in Window |-> None] /\ as = [w \in Window |-> None]
  /\ quiet = [s \in Sid |-> 0] /\ raced = FALSE

----------------------------------------------------------------------------
(* Helpers *)

Goto(w, l) == pc' = [pc EXCEPT ![w] = l]

\* The request answers and its process ends.
Answer(w) ==
  /\ Goto(w, "idle")
  /\ kind' = [kind EXCEPT ![w] = "login"]
  /\ todo' = [todo EXCEPT ![w] = {}]
  /\ sid' = [sid EXCEPT ![w] = None] /\ as' = [as EXCEPT ![w] = None]

Older(a) == [s \in Sid |-> IF cookie[s] = Absent \/ a[s] > Timeout THEN a[s] ELSE a[s] + 1]

\* Faulty: the modify file is not touched.
TouchNot(s) == UNCHANGED <<cookie, age>>

\* "sudo touch": makes an empty file where there is none.
Touch(s) == /\ cookie' = [cookie EXCEPT ![s] = IF @ = Absent THEN None ELSE @]
            /\ age' = [age EXCEPT ![s] = 0]

Old(s) == cookie[s] # Absent /\ age[s] > Timeout

\* Faulty: the first session that names a user will do.
MineAny(w) == {s \in Sid : cookie[s] \in User}

\* Faulty: no session is found.
MineNone(w) == {}

\* reuse_session: the sessions whose cookie file names the user
Mine(w) == {s \in Sid : cookie[s] = user[w]}

----------------------------------------------------------------------------
(* process_message: clean_up_old_sessions, then the request *)

\* Faulty: only commands clean up first.
RequestUncleaned(w, k) ==
  /\ pc[w] = "idle"
  /\ k = "login" \/ id[w] # None
  /\ kind' = [kind EXCEPT ![w] = k]
  /\ todo' = [todo EXCEPT ![w] = {s \in Sid : k # "login" /\ cookie[s] # Absent}]
  /\ Goto(w, "scan")
  /\ UNCHANGED <<user, files, id, sid, as, quiet, raced>>

Request(w, k) ==
  /\ pc[w] = "idle"
  /\ k = "login" \/ id[w] # None
  /\ kind' = [kind EXCEPT ![w] = k]
  /\ todo' = [todo EXCEPT ![w] = {s \in Sid : cookie[s] # Absent}]
  /\ Goto(w, "scan")
  /\ UNCHANGED <<user, files, id, sid, as, quiet, raced>>

\* lstat of a file not old, or gone
ScanYoung(w) ==
  /\ pc[w] = "scan"
  /\ \E s \in todo[w] : ~Old(s) /\ todo' = [todo EXCEPT ![w] = @ \ {s}]
  /\ UNCHANGED <<user, files, id, pc, kind, sid, as, quiet, raced>>

ScanOld(w) ==
  /\ pc[w] = "scan"
  /\ \E s \in todo[w] : /\ Old(s)
                        /\ todo' = [todo EXCEPT ![w] = @ \ {s}]
                        /\ sid' = [sid EXCEPT ![w] = s]
  /\ Goto(w, "umount")
  /\ UNCHANGED <<user, files, id, kind, as, quiet, raced>>

ScanDone(w) ==
  /\ pc[w] = "scan" /\ todo[w] = {}
  /\ Goto(w, IF kind[w] = "login" THEN "auth" ELSE "read")
  /\ UNCHANGED <<user, files, id, kind, todo, sid, as, quiet, raced>>

\* discard_session is one shell command line: umount, rm and mkdir, mount. Cleanup calls
\* it before the request has a user, the discard command after.
Umount(w) ==
  /\ pc[w] = "umount"
  /\ mounted' = mounted \ {sid[w]}
  /\ Goto(w, "clear")
  /\ UNCHANGED <<user, cookie, age, dir, changes, used, id, kind, todo, sid, as, quiet,
                 raced>>

\* Faulty: the directories are not made again.
ClearAway(w) ==
  /\ pc[w] = "clear"
  /\ changes' = changes \ {sid[w]}
  /\ dir' = dir \ {sid[w]}
  /\ Goto(w, "mount")
  /\ UNCHANGED <<user, cookie, age, mounted, used, id, kind, todo, sid, as, quiet, raced>>

Clear(w) ==
  /\ pc[w] = "clear"
  /\ changes' = changes \ {sid[w]}
  /\ dir' = dir \union {sid[w]}
  /\ Goto(w, "mount")
  /\ UNCHANGED <<user, cookie, age, mounted, used, id, kind, todo, sid, as, quiet, raced>>

\* Faulty: discarding leaves the session without its mount.
MountNot(w) ==
  /\ pc[w] = "mount"
  /\ IF as[w] # None THEN Answer(w)
     ELSE Goto(w, "unlink") /\ UNCHANGED <<kind, todo, sid, as>>
  /\ UNCHANGED <<user, files, id, quiet, raced>>

Mount(w) ==
  /\ pc[w] = "mount"
  /\ mounted' = mounted \union {sid[w]}
  /\ IF as[w] # None THEN Answer(w)
     ELSE Goto(w, "unlink") /\ UNCHANGED <<kind, todo, sid, as>>
  /\ UNCHANGED <<user, cookie, age, dir, changes, used, id, quiet, raced>>

\* Faulty: the cookie file stays.
UnlinkNot(w) ==
  /\ pc[w] = "unlink"
  /\ sid' = [sid EXCEPT ![w] = None]
  /\ Goto(w, "scan")
  /\ UNCHANGED <<user, files, id, kind, todo, as, quiet, raced>>

Unlink(w) ==
  /\ pc[w] = "unlink"
  /\ cookie' = [cookie EXCEPT ![sid[w]] = Absent]
  /\ age' = [age EXCEPT ![sid[w]] = 0]
  /\ sid' = [sid EXCEPT ![w] = None]
  /\ Goto(w, "scan")
  /\ UNCHANGED <<user, dir, mounted, changes, used, id, kind, todo, as, quiet, raced>>

----------------------------------------------------------------------------
(* NEWSESSION: create_new_session and start_session *)

\* The password is wrong, or a byte of /dev/urandom is 0xff and no id results.
AuthFails(w) ==
  /\ pc[w] = "auth"
  /\ Answer(w)
  /\ UNCHANGED <<user, files, id, quiet, raced>>

\* The first of them that the directory lists.
Reuse(w) ==
  /\ pc[w] = "auth"
  /\ \E s \in Mine(w) : sid' = [sid EXCEPT ![w] = s]
  /\ Goto(w, "start")
  /\ UNCHANGED <<user, files, id, kind, todo, as, quiet, raced>>

\* create_new_id: a random number, assumed not to repeat.
Making(v) == pc[v] \in {"make", "create", "write"}
NewId(w) ==
  /\ pc[w] = "auth"
  /\ Mine(w) = {}
  /\ \E s \in Sid \ used : used' = used \union {s} /\ sid' = [sid EXCEPT ![w] = s]
  /\ raced' = (raced \/ \E v \in Window \ {w} : user[v] = user[w] /\ Making(v))
  /\ Goto(w, "make")
  /\ UNCHANGED <<user, cookie, age, dir, mounted, changes, id, kind, todo, as, quiet>>

\* The directories and the union mount
MakeSession(w) ==
  /\ pc[w] = "make"
  /\ dir' = dir \union {sid[w]} /\ mounted' = mounted \union {sid[w]}
  /\ Goto(w, "create")
  /\ UNCHANGED <<user, cookie, age, changes, used, id, kind, todo, sid, as, quiet, raced>>

\* The mount fails: the directories stay.
MakeFails(w) ==
  /\ pc[w] = "make"
  /\ dir' = dir \union {sid[w]}
  /\ Answer(w)
  /\ UNCHANGED <<user, cookie, age, mounted, changes, used, id, quiet, raced>>

\* fopen(file, "w")
CreateCookie(w) ==
  /\ pc[w] = "create"
  /\ cookie' = [cookie EXCEPT ![sid[w]] = None]
  /\ age' = [age EXCEPT ![sid[w]] = 0]
  /\ Goto(w, "write")
  /\ UNCHANGED <<user, dir, mounted, changes, used, id, kind, todo, sid, as, quiet, raced>>

CreateFails(w) ==
  /\ pc[w] = "create"
  /\ Answer(w)
  /\ UNCHANGED <<user, files, id, quiet, raced>>

\* fputs and fclose
WriteCookie(w) ==
  /\ pc[w] = "write"
  /\ cookie' = [cookie EXCEPT ![sid[w]] = user[w]]
  /\ age' = [age EXCEPT ![sid[w]] = 0]
  /\ Goto(w, "start")
  /\ UNCHANGED <<user, dir, mounted, changes, used, id, kind, todo, sid, as, quiet, raced>>

\* start_session; the answer gives the window its id.
StartSession(w) ==
  /\ pc[w] = "start"
  /\ Touch(sid[w])
  /\ id' = [id EXCEPT ![w] = sid[w]]
  /\ quiet' = [quiet EXCEPT ![sid[w]] = 0]
  /\ Answer(w)
  /\ UNCHANGED <<user, dir, mounted, changes, used, raced>>

----------------------------------------------------------------------------
(* CLICMD and GETCONFIG: commit, update_session, then the command *)

\* commit(): somebody else's commit is running (a lock file of the commit program).
Refuse(w) ==
  /\ pc[w] = "read"
  /\ Answer(w)
  /\ UNCHANGED <<user, files, id, quiet, raced>>

\* No file, an empty file, or a configuration command of a user without the right.
ReadFails(w) ==
  LET u == cookie[id[w]] IN
  /\ pc[w] = "read"
  /\ u \notin User \/ (kind[w] \in {"conf", "discard"} /\ u \notin Admin)
  /\ Answer(w)
  /\ UNCHANGED <<user, files, id, quiet, raced>>

\* The user named in the cookie file: setgid, setuid
ReadCookie(w) ==
  LET u == cookie[id[w]] IN
  /\ pc[w] = "read"
  /\ u \in User /\ (kind[w] \in {"conf", "discard"} => u \in Admin)
  /\ as' = [as EXCEPT ![w] = u]
  /\ Goto(w, "update")
  /\ UNCHANGED <<user, files, id, kind, todo, sid, quiet, raced>>

Update(w) ==
  /\ pc[w] = "update"
  /\ Touch(id[w])
  /\ quiet' = [quiet EXCEPT ![id[w]] = 0]
  /\ Goto(w, "execute")
  /\ UNCHANGED <<user, dir, mounted, changes, used, id, kind, todo, sid, as, raced>>

\* Operational and display commands, or a session without directory: no change.
ExecuteOp(w) ==
  /\ pc[w] = "execute"
  /\ kind[w] = "op" \/ id[w] \notin dir
  /\ Answer(w)
  /\ UNCHANGED <<user, files, id, quiet, raced>>

\* set or delete, into the union; without the mount it goes elsewhere. Or commit.
ExecuteConf(w) ==
  /\ pc[w] = "execute" /\ kind[w] = "conf" /\ id[w] \in dir
  /\ \/ changes' = IF id[w] \in mounted THEN changes \union {id[w]} ELSE changes
     \/ changes' = changes \ {id[w]}
  /\ Answer(w)
  /\ UNCHANGED <<user, cookie, age, dir, mounted, used, id, quiet, raced>>

ExecuteDiscard(w) ==
  /\ pc[w] = "execute" /\ kind[w] = "discard" /\ id[w] \in dir
  /\ sid' = [sid EXCEPT ![w] = id[w]]
  /\ Goto(w, "umount")
  /\ UNCHANGED <<user, files, id, kind, todo, as, quiet, raced>>

----------------------------------------------------------------------------
(* The environment *)

\* The web server kills the request; a shell it has started runs to its end first.
Kill(w) ==
  /\ pc[w] \notin {"idle", "umount", "clear", "mount"}
  /\ Answer(w)
  /\ UNCHANGED <<user, files, id, quiet, raced>>

\* A tick is a part of half an hour. A command may take long to execute.
Tick ==
  /\ Timely => \A w \in Window : pc[w] \in {"idle", "execute"}
  /\ age' = Older(age) /\ quiet' = Older(quiet)
  /\ UNCHANGED <<user, cookie, dir, mounted, changes, used, id, pc, kind, todo, sid, as,
                 raced>>

Cleanup(w) == \/ ScanYoung(w) \/ ScanOld(w) \/ ScanDone(w)
              \/ Umount(w) \/ Clear(w) \/ Mount(w) \/ Unlink(w)
Login(w)   == \/ AuthFails(w) \/ Reuse(w) \/ NewId(w) \/ MakeSession(w) \/ MakeFails(w)
              \/ CreateCookie(w) \/ CreateFails(w) \/ WriteCookie(w) \/ StartSession(w)
Command(w) == \/ Refuse(w) \/ ReadFails(w) \/ ReadCookie(w) \/ Update(w)
              \/ ExecuteOp(w) \/ ExecuteConf(w) \/ ExecuteDiscard(w)
Serve(w)   == Cleanup(w) \/ Login(w) \/ Command(w)

Next == \/ \E w \in Window : \/ \E k \in {"login", "op", "conf", "discard"} : Request(w, k)
                             \/ Serve(w) \/ Kill(w)
        \/ Tick

Spec == Init /\ [][Next]_vars

\* The kernel schedules the processes of the requests. Users need not send any, and the
\* clock may be taken to stop.
FairSpec == Spec /\ \A w \in Window : WF_vars(Serve(w))

----------------------------------------------------------------------------
(* Properties *)

\* A request is executed as the user who sits at its window, though all it carries is a
\* session id: no login, cleanup or late touch gives a session to another user.
AsItself == \A w \in Window : as[w] # None => as[w] = user[w]

\* A user has one session, however many windows, unless two logins made them at once.
OneSession == ~raced => \A s, t \in Sid :
  cookie[s] \in User /\ cookie[s] = cookie[t] => s = t

\* A session that can be used has its union mount in place but for the moments of a
\* discard, however discards of it, and cleanups, overlap.
StaysMounted == \A s \in Sid : cookie[s] \in User =>
  s \in mounted \/ \E w \in Window : sid[w] = s /\ pc[w] \in {"clear", "mount"}

\* A login that succeeds gives the window a session its next request can use.
LoginUsable == [][\A w \in Window : LET s == sid[w] IN
  pc[w] = "start" /\ pc'[w] = "idle" /\ id'[w] = s =>
    cookie'[s] = user[w] /\ s \in dir']_vars

\* Cleanup takes a session from nobody who has used it within the timeout, whichever
\* requests look at its cookie file at the same time.
ActiveKept == [][\A w \in Window :
  \/ pc[w] = "clear" /\ pc'[w] = "mount" /\ as[w] = None
  \/ pc[w] = "unlink" /\ pc'[w] = "scan"
  => quiet[sid[w]] > Timeout]_vars

\* As long as requests get through their cleanup, a session timed out is cleaned up or
\* taken up again, even if others of them are killed on the way.
OldGoes == []<>(\E w \in Window : pc[w] \in {"auth", "read"}) =>
  \A s \in Sid : Old(s) ~> ~Old(s)
============================================================================
