------------------------------- MODULE Shell -------------------------------
(* The pages of the web application (vyatta-main.js, vyatta-utils.js,       *)
(* vyatta-cookie.js): login, logout, the session that ends, the reboot, in  *)
(* browser windows that share the three cookies. The message box is one per *)
(* window, whatever it says, and keeps the user from the rest of the page.  *)
(* A user has one session, so a session id is the name of its user.         *)
EXTENDS Naturals, FiniteSets

CONSTANTS
  Window, User,
  Operator,     \* users of operator level: they may not see the configuration
  None

ASSUME UserOK == Operator \subseteq User /\ None \notin User

VARIABLES
  idC, nameC, isC,  \* the cookies id, userName, isLogin
  alive,        \* sessions the server knows (external)
  page,         \* what the window shows; "loading" from window.location on
  auth,         \* login request in flight
  box           \* the message box: "wait", a question, or an alert

cookies == <<idC, nameC, isC>>
shell == <<cookies, alive, page, auth, box>>

ShellTypeOK ==
  /\ idC \in User \union {None} /\ nameC \in User \union {None}
  /\ isC \in {"yes", "no", "reboot", None}
  /\ alive \subseteq User
  /\ page \in [Window -> {"loading", "login", "main", "rebooting"}]
  /\ auth \in [Window -> User \union {None}]
  /\ box \in [Window -> {"none", "wait", "logout?", "reboot?", "alert"}]

\* A browser may have the id left of an old login, whose session has ended.
ShellInit ==
  /\ idC \in User \union {None} /\ nameC = None /\ isC = None
  /\ alive = {}
  /\ page = [w \in Window |-> "loading"]
  /\ auth = [w \in Window |-> None] /\ box = [w \in Window |-> "none"]

Show(w, b) == box' = [box EXCEPT ![w] = b]
Idle(w)    == box[w] = "none"

\* f_isUserLogined; f_isLogined, without the demo page's automatic login
UserLogined == isC = "yes"
Logined     == isC \in {"yes", "reboot"}

UserLogout(w) ==
  /\ idC' = None /\ isC' = "no"
  /\ page' = [page EXCEPT ![w] = "loading"]
  /\ UNCHANGED nameC

----------------------------------------------------------------------------
(* Login *)

Login(w, u) ==
  /\ page[w] = "login" /\ Idle(w)
  /\ auth' = [auth EXCEPT ![w] = u]
  /\ Show(w, "wait")
  /\ UNCHANGED <<cookies, alive, page>>

\* The user name typed is root.
LoginRoot(w) ==
  /\ page[w] = "login" /\ Idle(w)
  /\ Show(w, "alert")
  /\ UNCHANGED <<cookies, alive, page, auth>>

Authenticated(w) ==
  /\ page[w] = "login" /\ auth[w] # None
  /\ alive' = alive \union {auth[w]}
  /\ idC' = auth[w] /\ nameC' = auth[w] /\ isC' = "yes"
  /\ auth' = [auth EXCEPT ![w] = None]
  /\ page' = [page EXCEPT ![w] = "loading"]
  /\ Show(w, "none")

\* Faulty: a login that is refused leaves the id of who is logged in.
RefusedKeepsId(w) ==
  /\ page[w] = "login" /\ auth[w] # None
  /\ nameC' = auth[w]
  /\ auth' = [auth EXCEPT ![w] = None]
  /\ Show(w, "alert")
  /\ UNCHANGED <<alive, idC, isC, page>>

\* The answer's id is NOTFOUND: both cookies are written all the same.
Refused(w) ==
  /\ page[w] = "login" /\ auth[w] # None
  /\ idC' = None /\ nameC' = auth[w]
  /\ auth' = [auth EXCEPT ![w] = None]
  /\ Show(w, "alert")
  /\ UNCHANGED <<alive, isC, page>>

\* No answer, or not XML
LoginLost(w) ==
  /\ page[w] = "login" /\ auth[w] # None
  /\ auth' = [auth EXCEPT ![w] = None]
  /\ Show(w, "none")
  /\ UNCHANGED <<cookies, alive, page>>

----------------------------------------------------------------------------
(* Logout, reboot, reload *)

\* f_handleLogout: m_isCommitAvailable of the configuration's tree makes it ask
HandleLogout(w) ==
  /\ page[w] = "main" /\ Idle(w)
  /\ \/ UserLogout(w) /\ UNCHANGED box
     \/ Show(w, "logout?") /\ UNCHANGED <<cookies, page>>
  /\ UNCHANGED <<alive, auth>>

LogoutYes(w) ==
  /\ page[w] = "main" /\ box[w] = "logout?"
  /\ UserLogout(w)
  /\ Show(w, "none")
  /\ UNCHANGED <<alive, auth>>

\* The command reboot is sent as the page unloads: what becomes of it is not modelled.
RebootYes(w) ==
  /\ page[w] = "main" /\ box[w] = "reboot?"
  /\ isC' = "reboot"
  /\ page' = [page EXCEPT ![w] = "loading"]
  /\ Show(w, "none")
  /\ UNCHANGED <<idC, nameC, alive, auth>>

Dismiss(w) ==
  /\ page[w] # "loading" /\ box[w] \in {"alert", "logout?", "reboot?"}
  /\ Show(w, "none")
  /\ UNCHANGED <<cookies, alive, page, auth>>

\* The user loads the page again: answers still under way are lost.
Reload(w) ==
  /\ page[w] # "loading"
  /\ page' = [page EXCEPT ![w] = "loading"]
  /\ auth' = [auth EXCEPT ![w] = None]
  /\ Show(w, "none")
  /\ UNCHANGED <<cookies, alive>>

----------------------------------------------------------------------------
(* Time *)

\* Five hours after the login its two cookies are gone; the id is written by each request.
CookiesExpire ==
  /\ isC # None
  /\ nameC' = None /\ isC' = None
  /\ idC' \in {idC, None}
  /\ UNCHANGED <<alive, page, auth, box>>

\* The server discards a session that was not used for long (module Sessions).
SessionEnds(u) ==
  /\ u \in alive
  /\ alive' = alive \ {u}
  /\ UNCHANGED <<cookies, page, auth, box>>

----------------------------------------------------------------------------
(* Properties *)

\* Whatever windows log in, fail to, log out and time out: as long as a request is sent
\* with the id of a session, the name the pages show is that of its user (f_loginHandler
\* writes both, f_userLogout removes one, expiry takes them one after the other).
CookiesAgree == idC # None => nameC \in {idC, None}
============================================================================
